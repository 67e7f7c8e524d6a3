-------------------------- MODULE PrimitivesProofs --------------------------
(***************************************************************************)
(* Theorems about the scalar multiplications, for every length of the      *)
(* scalar, the validated key generation, for every number of attempts, the *)
(* checked arithmetic, for every width of the integers, the post-quantum   *)
(* stub, for every table of sizes, and the field, for every number and     *)
(* width of its limbs; and about Primitives, the composition: it           *)
(* implements each component, so that what is proved of one holds in the   *)
(* library as a whole.                                                     *)
(***************************************************************************)
EXTENDS Primitives, SecretBoxProofs, SignatureProofs

-----------------------------------------------------------------------------
(* Scalar multiplication *)

LadderInv == LadderTypeOK /\ LadderMultiplies

LEMMA InitLadderInv == LadderInit => LadderInv
  BY LadderAssumption
     DEF LadderInit, LadderInv, LadderTypeOK, LadderMultiplies, Scalars, NoSum

(* A clamped scalar is a scalar. *)
LEMMA ClampIsScalar == ASSUME NEW n \in Scalars PROVE Clamp(n) \in Scalars
  BY DEF Clamp, Scalars

(* One step doubles what has been read and adds the bit: the sum it needs is of
   two points one base point apart, in either order. *)
LEMMA StepLadderInv == LadderInv /\ LadderStep => LadderInv'
<1> SUFFICES ASSUME LadderInv, LadderStep PROVE LadderInv'
  OBVIOUS
<1>1. /\ bit \in 0 .. Bits - 1 /\ scalar[bit] \in {0, 1}
      /\ read \in Nat /\ low = read /\ high = read + 1
  BY LadderAssumption DEF LadderInv, LadderTypeOK, LadderMultiplies, LadderStep, Scalars
<1>2. read' = 2 * read + scalar[bit] /\ bit' = bit - 1 /\ UNCHANGED <<curve, scalar>>
  BY DEF LadderStep
<1>3. AddPoints(low, high) = 2 * read + 1 /\ AddPoints(high, low) = 2 * read + 1
  BY <1>1 DEF AddPoints, NoSum
<1>4. Double(low) = 2 * read /\ Double(high) = 2 * read + 2
  BY <1>1 DEF Double, NoSum
<1>5. low' = read' /\ high' = read' + 1
  <2>1. CASE scalar[bit] = 0
    <3>1. low' = Double(low) /\ high' = AddPoints(low, high)
      BY <2>1 DEF LadderStep, Swapped
    <3> QED
      BY <1>1, <1>2, <1>3, <1>4, <2>1, <3>1
  <2>2. CASE scalar[bit] = 1
    <3>1. low' = AddPoints(high, low) /\ high' = Double(high)
      BY <2>2 DEF LadderStep, Swapped
    <3> QED
      BY <1>1, <1>2, <1>3, <1>4, <2>2, <3>1
  <2> QED
    BY <1>1, <2>1, <2>2
<1>6. read' \in Nat /\ bit' \in -1 .. Bits - 1
  BY <1>1, <1>2, LadderAssumption
<1>7. LadderTypeOK'
  BY <1>1, <1>2, <1>5, <1>6 DEF LadderInv, LadderTypeOK, Scalars
<1> QED
  BY <1>5, <1>7 DEF LadderInv, LadderMultiplies

LEMMA NextLadderInv == LadderInv /\ [LadderNext]_ladderVars => LadderInv'
<1> SUFFICES ASSUME LadderInv, [LadderNext]_ladderVars PROVE LadderInv'
  OBVIOUS
<1> USE LadderAssumption
<1>1. ASSUME NEW n \in Scalars, EnterMontgomery(n) \/ EnterEdwards(n) PROVE LadderInv'
  <2>1. Clamp(n) \in Scalars
    BY ClampIsScalar
  <2> QED
    BY <1>1, <2>1 DEF EnterMontgomery, EnterEdwards, Enter, LadderInv, LadderTypeOK,
                      LadderMultiplies, Scalars, NoSum
<1>2. CASE LadderStep
  BY <1>2, StepLadderInv
<1>3. CASE LadderReturn
  BY <1>3 DEF LadderReturn, LadderInv, LadderTypeOK, LadderMultiplies, Scalars, NoSum
<1>4. CASE UNCHANGED ladderVars
  BY <1>4 DEF ladderVars, LadderInv, LadderTypeOK, LadderMultiplies, Scalars
<1> QED
  BY <1>1, <1>2, <1>3, <1>4 DEF LadderNext

(* Neither ladder ever adds points whose difference it does not know, and both
   compute the multiple the scalar names, whatever its bits and its length. *)
THEOREM LadderIsRight == LadderSpec => []LadderMultiplies
<1>1. LadderInv => LadderMultiplies
  BY DEF LadderInv
<1> QED
  BY <1>1, InitLadderInv, NextLadderInv, PTL DEF LadderSpec

(* The types of a ladder. *)
LEMMA LadderTypes == LadderSpec => []LadderTypeOK
<1>1. LadderInv => LadderTypeOK
  BY DEF LadderInv
<1> QED
  BY <1>1, InitLadderInv, NextLadderInv, PTL DEF LadderSpec

-----------------------------------------------------------------------------
(* Validated key generation *)

(* Between the steps of a call: before an attempt no comparison has matched, and
   a comparison can match only while both halves belong together. *)
AttemptsInv ==
    /\ attempts \in 0 .. max_attempts
    /\ kv_pc = "keypair" =>
           /\ attempts < max_attempts
           /\ matched = {}
           /\ ~kv_failed
    /\ kv_pc = "validate" =>
           attempts \in 1 .. max_attempts /\ matched = {} /\ ~kv_failed

ValidationInv == AttemptsInv /\ ValidatedReturn

LEMMA InitValidationInv == KeyValidationInit => ValidationInv
  BY KeyValidationAssumption
     DEF KeyValidationInit, ValidationInv, AttemptsInv, ValidatedReturn

LEMMA NextValidationInv == ValidationInv /\ [KeyValidationNext]_keyValidationVars => ValidationInv'
<1> SUFFICES ASSUME ValidationInv, [KeyValidationNext]_keyValidationVars PROVE ValidationInv'
  OBVIOUS
<1> USE KeyValidationAssumption
    DEF ValidationInv, AttemptsInv, ValidatedReturn
<1>1. CASE GenerateValidated
  BY <1>1 DEF GenerateValidated
<1>2. CASE GenerationFails
  BY <1>2 DEF GenerationFails
<1>3. ASSUME NEW spoilt \in BOOLEAN, Generation(spoilt) PROVE ValidationInv'
  BY <1>3 DEF Generation
<1>4. ASSUME NEW spoilt \in BOOLEAN, Validation(spoilt) PROVE ValidationInv'
  <2>1. attempts \in 1 .. max_attempts /\ matched = {} /\ kv_pc = "validate"
    BY <1>4 DEF Validation
  <2>2. CASE Retries(Validates(spoilt))
    BY <1>4, <2>1, <2>2 DEF Validation, Retries
  <2>3. CASE ~Retries(Validates(spoilt))
    <3>1. /\ kv_pc' = "idle" /\ kv_ret' = Returns
          /\ UNCHANGED <<attempts, sound, kv_failed>>
      BY <1>4, <2>3 DEF Validation
    <3>2. CASE Validates(spoilt)
      <4>1. matched' = {attempts} /\ sound
        BY <1>4, <2>1, <3>2 DEF Validation, Validates
      <4> QED
        BY <2>1, <3>1, <4>1 DEF Returns
    <3>3. CASE ~Validates(spoilt)
      <4>1. matched' = {} /\ attempts = max_attempts
        BY <1>4, <2>1, <2>3, <3>3 DEF Validation, Retries
      <4> QED
        BY <2>1, <3>1, <4>1 DEF Returns
    <3> QED
      BY <3>2, <3>3
  <2> QED
    BY <2>2, <2>3
<1>5. CASE UNCHANGED keyValidationVars
  BY <1>5 DEF keyValidationVars
<1> QED
  BY <1>1, <1>2, <1>3, <1>4, <1>5 DEF KeyValidationNext

(* Whatever max_attempts is, a pair is reported only when the last attempt made
   found it sound, and a call that reports none has made all its attempts. *)
THEOREM ReturnIsValidated == KeyValidationSpec => []ValidatedReturn
<1>1. ValidationInv => ValidatedReturn
  BY DEF ValidationInv
<1> QED
  BY <1>1, InitValidationInv, NextValidationInv, PTL DEF KeyValidationSpec

(* A call makes at most max_attempts attempts, whatever they find. *)
THEOREM KeyValidationTypes == KeyValidationSpec => []KeyValidationTypeOK
<1> USE KeyValidationAssumption DEF KeyValidationTypeOK, AttemptsInv
<1> DEFINE Inv == KeyValidationTypeOK /\ AttemptsInv
<1>1. KeyValidationInit => Inv
  <2>1. KeyValidationInit => sound \in BOOLEAN /\ kv_failed \in BOOLEAN
    BY Zenon DEF KeyValidationInit
  <2> QED
    BY <2>1 DEF KeyValidationInit
<1>2. Inv /\ [KeyValidationNext]_keyValidationVars => Inv'
  <2> SUFFICES ASSUME Inv, [KeyValidationNext]_keyValidationVars PROVE Inv'
    OBVIOUS
  <2>1. CASE GenerateValidated
    <3>1. sound' \in BOOLEAN /\ kv_failed' \in BOOLEAN
      BY <2>1, Zenon DEF GenerateValidated
    <3> QED
      BY <2>1, <3>1 DEF GenerateValidated
  <2>2. CASE GenerationFails
    BY <2>2 DEF GenerationFails
  <2>3. ASSUME NEW spoilt \in BOOLEAN, Generation(spoilt) PROVE Inv'
    BY <2>3 DEF Generation
  <2>4. ASSUME NEW spoilt \in BOOLEAN, Validation(spoilt) PROVE Inv'
    BY <2>4 DEF Validation, Retries, Validates, Returns
  <2>5. CASE UNCHANGED keyValidationVars
    BY <2>5 DEF keyValidationVars
  <2> QED
    BY <2>1, <2>2, <2>3, <2>4, <2>5 DEF KeyValidationNext
<1>3. Inv => KeyValidationTypeOK
  OBVIOUS
<1> HIDE DEF Inv
<1> QED
  BY <1>1, <1>2, <1>3, PTL DEF KeyValidationSpec

-----------------------------------------------------------------------------
(* Checked arithmetic and branchless choice *)

(* A quotient is exceeded exactly when the dividend is exceeded by the product. *)
LEMMA QuotientExceeded ==
  ASSUME NEW m \in Nat, NEW x \in Nat, NEW y \in Nat \ {0}
  PROVE  x > m \div y <=> x * y > m
<1> DEFINE q == m \div y
           r == m % y
<1>1. q \in Nat /\ r \in 0 .. (y - 1) /\ m = y * q + r
  OBVIOUS
<1> HIDE DEF q, r
<1>2. CASE x > q
  <2>1. PICK e \in Nat : x = q + 1 + e
    BY <1>1, <1>2
  <2>2. x * y = y * q + y + e * y /\ e * y >= 0
    BY <1>1, <2>1
  <2>3. x * y > m
    BY <1>1, <2>2
  <2> QED
    BY <1>2, <2>3 DEF q
<1>3. CASE ~(x > q)
  <2>1. PICK e \in Nat : q = x + e
    BY <1>1, <1>3
  <2>2. y * q = x * y + e * y /\ e * y >= 0 /\ y * q \in Int /\ x * y \in Int
    BY <1>1, <2>1
  <2>3. ~(x * y > m)
    BY <1>1, <2>2
  <2> QED
    BY <1>3, <2>3 DEF q
<1> QED
  BY <1>2, <1>3

(* The remainder of a difference of two numbers below the divisor. *)
LEMMA WrappedDifference ==
  ASSUME NEW n \in Nat \ {0}, NEW d \in Int, -n < d, d < n
  PROVE  d % n = IF d < 0 THEN d + n ELSE d
<1> DEFINE q == d \div n
           r == d % n
<1>1. q \in Int /\ r \in 0 .. (n - 1) /\ d = n * q + r
  OBVIOUS
<1> HIDE DEF q, r
<1>2. q \in {-1, 0}
  <2>1. ASSUME q >= 1 PROVE FALSE
    <3>1. PICK e \in Nat : q = 1 + e
      BY <1>1, <2>1
    <3>2. n * q = n + n * e /\ n * e >= 0
      BY <3>1
    <3> QED
      BY <1>1, <3>2
  <2>2. ASSUME q <= -2 PROVE FALSE
    <3>1. PICK e \in Nat : q = -2 - e
      BY <1>1, <2>2
    <3>2. n * q = -2 * n - n * e /\ n * e >= 0
      BY <3>1
    <3> QED
      BY <1>1, <3>2
  <2> QED
    BY <1>1, <2>1, <2>2
<1>3. CASE q = 0
  <2>1. d = r
    BY <1>1, <1>3
  <2> QED
    BY <1>1, <2>1 DEF r
<1>4. CASE q = -1
  <2>1. r = d + n
    BY <1>1, <1>4
  <2> QED
    BY <1>1, <2>1 DEF r
<1> QED
  BY <1>2, <1>3, <1>4

(* The sign of a wrapped difference. *)
LEMMA BelowIsSign ==
  ASSUME NEW a \in SizeTs, NEW b \in SizeTs
  PROVE  Below(a, b) <=> IF -Half <= a - b /\ a - b < Half THEN a < b ELSE ~(a < b)
<1> DEFINE n == 2 * Half
           d == a - b
<1>1. n \in Nat \ {0} /\ d \in Int /\ -n < d /\ d < n /\ Half \in Nat
  BY SecureUtilsAssumption DEF SizeTs, SIZE_MAX
<1>2. d % n = IF d < 0 THEN d + n ELSE d
  <2> HIDE DEF n, d
  <2> QED
    BY <1>1, WrappedDifference
<1>3. Below(a, b) <=> (IF d < 0 THEN d + n ELSE d) >= Half
  BY <1>2 DEF Below
<1>4. a \in Int /\ b \in Int
  BY DEF SizeTs, SIZE_MAX
<1> QED
  BY <1>1, <1>3, <1>4

(* A product is refused exactly when the type cannot hold it. *)
LEMMA MulIsExact ==
  ASSUME NEW a \in Ints, NEW b \in Ints
  PROVE  ~MulOverflows(a, b) <=> a * b \in Ints
<1>1. INT_MAX \in Nat \ {0} /\ a \in Int /\ b \in Int
  BY SecureUtilsAssumption DEF Ints, INT_MIN
<1>2. CASE a > 0 /\ b > 0
  <2>1. CDiv(INT_MAX, b) = INT_MAX \div b
    BY <1>1, <1>2 DEF CDiv, Magnitude
  <2>2. a > INT_MAX \div b <=> a * b > INT_MAX
    BY <1>1, <1>2, QuotientExceeded
  <2>3. a * b \in Nat
    BY <1>1, <1>2
  <2>4. MulOverflows(a, b) <=> a > INT_MAX \div b
    BY <1>1, <1>2, <2>1 DEF MulOverflows
  <2> QED
    BY <1>1, <2>2, <2>3, <2>4 DEF Ints, INT_MIN
<1>3. CASE a > 0 /\ b <= 0
  <2>1. CDiv(INT_MIN, a) = -((INT_MAX + 1) \div a)
    BY <1>1, <1>3 DEF CDiv, Magnitude, INT_MIN
  <2>2. -b > (INT_MAX + 1) \div a <=> (-b) * a > INT_MAX + 1
    BY <1>1, <1>3, QuotientExceeded
  <2>3. (-b) * a \in Nat /\ a * b = -((-b) * a)
    BY <1>1, <1>3
  <2>4. MulOverflows(a, b) <=> -b > (INT_MAX + 1) \div a
    <3>1. (INT_MAX + 1) \div a \in Int
      BY <1>1, <1>3
    <3>2. MulOverflows(a, b) <=> b < CDiv(INT_MIN, a)
      BY <1>1, <1>3 DEF MulOverflows
    <3> QED
      BY <1>1, <2>1, <3>1, <3>2
  <2> QED
    BY <1>1, <2>2, <2>3, <2>4 DEF Ints, INT_MIN
<1>4. CASE a <= 0 /\ b > 0
  <2>1. CDiv(INT_MIN, b) = -((INT_MAX + 1) \div b)
    BY <1>1, <1>4 DEF CDiv, Magnitude, INT_MIN
  <2>2. -a > (INT_MAX + 1) \div b <=> (-a) * b > INT_MAX + 1
    BY <1>1, <1>4, QuotientExceeded
  <2>3. (-a) * b \in Nat /\ a * b = -((-a) * b)
    BY <1>1, <1>4
  <2>4. MulOverflows(a, b) <=> -a > (INT_MAX + 1) \div b
    <3>1. (INT_MAX + 1) \div b \in Int
      BY <1>1, <1>4
    <3>2. MulOverflows(a, b) <=> a < CDiv(INT_MIN, b)
      BY <1>1, <1>4 DEF MulOverflows
    <3> QED
      BY <1>1, <2>1, <3>1, <3>2
  <2> QED
    BY <1>1, <2>2, <2>3, <2>4 DEF Ints, INT_MIN
<1>5. CASE a < 0 /\ b <= 0
  <2>1. CASE b = 0
    <3>1. INT_MAX \div (-a) >= 0 /\ a * b = 0
      BY <1>1, <1>5, <2>1
    <3>2. CDiv(INT_MAX, a) = -(INT_MAX \div (-a))
      BY <1>1, <1>5 DEF CDiv, Magnitude
    <3>3. ~MulOverflows(a, b)
      BY <1>1, <1>5, <2>1, <3>1, <3>2 DEF MulOverflows
    <3> QED
      BY <1>1, <3>1, <3>3 DEF Ints, INT_MIN
  <2>2. CASE b < 0
    <3>1. CDiv(INT_MAX, a) = -(INT_MAX \div (-a))
      BY <1>1, <1>5 DEF CDiv, Magnitude
    <3>2. -b > INT_MAX \div (-a) <=> (-b) * (-a) > INT_MAX
      BY <1>1, <1>5, QuotientExceeded
    <3>3. a * b = (-b) * (-a) /\ a * b \in Nat
      BY <1>1, <1>5
    <3>4. INT_MAX \div (-a) \in Int
      BY <1>1, <1>5
    <3>5. MulOverflows(a, b) <=> b < CDiv(INT_MAX, a)
      BY <1>1, <1>5 DEF MulOverflows
    <3>6. MulOverflows(a, b) <=> -b > INT_MAX \div (-a)
      BY <1>1, <3>1, <3>4, <3>5
    <3> QED
      BY <1>1, <3>2, <3>3, <3>6 DEF Ints, INT_MIN
  <2> QED
    BY <1>1, <1>5, <2>1, <2>2
<1>6. CASE a = 0 /\ b <= 0
  BY <1>1, <1>6 DEF MulOverflows, Ints, INT_MIN
<1> QED
  BY <1>1, <1>2, <1>3, <1>4, <1>5, <1>6

LEMMA MulSizeIsExact ==
  ASSUME NEW a \in SizeTs, NEW b \in SizeTs
  PROVE  ~MulSizeOverflows(a, b) <=> a * b \in SizeTs
<1>1. SIZE_MAX \in Nat /\ a \in Nat /\ b \in Nat
  BY SecureUtilsAssumption DEF SizeTs, SIZE_MAX
<1>2. CASE a # 0 /\ b # 0
  <2>1. a > SIZE_MAX \div b <=> a * b > SIZE_MAX
    BY <1>1, <1>2, QuotientExceeded
  <2>2. a * b \in Nat
    BY <1>1
  <2> QED
    BY <1>1, <1>2, <2>1, <2>2 DEF MulSizeOverflows, SizeTs
<1>3. CASE a = 0 \/ b = 0
  <2>1. a * b = 0
    BY <1>1, <1>3
  <2> QED
    BY <1>1, <1>3, <2>1 DEF MulSizeOverflows, SizeTs
<1> QED
  BY <1>2, <1>3

LEMMA SumsAreExact ==
  /\ \A a, b \in Ints : ~AddOverflows(a, b) <=> a + b \in Ints
  /\ \A a, b \in Ints : ~SubOverflows(a, b) <=> a - b \in Ints
  /\ \A a, b \in SizeTs : ~AddSizeOverflows(a, b) <=> a + b \in SizeTs
  BY SecureUtilsAssumption
     DEF AddOverflows, SubOverflows, AddSizeOverflows, Ints, INT_MIN, SizeTs, SIZE_MAX
(* What a call records. *)
LEMMA IntCall ==
  ASSUME NEW a \in Ints, NEW b \in Ints, NEW null \in BOOLEAN, CallInt(a, b, null)
  PROVE  RefusedIfNotExact'
<1>1. ASSUME NEW op \in IntOps, NEW value, NEW refused,
             ~refused <=> value \in Ints,
             Record(op, a, b, Checked(null, refused, value))
      PROVE  RefusedIfNotExact'
  <2>1. utils_last'.op = op /\ utils_last'.outcome = Checked(null, refused, value)
    BY <1>1 DEF Record
  <2>2. /\ Checked(null, refused, value).null = null
        /\ Checked(null, refused, value).value = value
        /\ Checked(null, refused, value).ret = 0 <=> ~null /\ ~refused
    BY DEF Checked
  <2> QED
    BY <1>1, <2>1, <2>2 DEF RefusedIfNotExact
<1>2. CASE Record("safe_add_int", a, b, Checked(null, AddOverflows(a, b), a + b))
  BY <1>1, <1>2, SumsAreExact DEF IntOps
<1>3. CASE Record("safe_sub_int", a, b, Checked(null, SubOverflows(a, b), a - b))
  BY <1>1, <1>3, SumsAreExact DEF IntOps
<1>4. CASE Record("safe_mul_int", a, b, Checked(null, MulOverflows(a, b), a * b))
  BY <1>1, <1>4, MulIsExact DEF IntOps
<1> QED
  BY <1>2, <1>3, <1>4 DEF CallInt

LEMMA SizeCall ==
  ASSUME NEW a \in SizeTs, NEW b \in SizeTs, NEW null \in BOOLEAN, CallSize(a, b, null)
  PROVE  RefusedIfNotExact'
<1>1. ASSUME NEW op \in SizeOps, NEW value, NEW refused,
             ~refused <=> value \in SizeTs,
             Record(op, a, b, Checked(null, refused, value))
      PROVE  RefusedIfNotExact'
  <2>1. utils_last'.op = op /\ utils_last'.outcome = Checked(null, refused, value)
    BY <1>1 DEF Record
  <2>2. /\ Checked(null, refused, value).null = null
        /\ Checked(null, refused, value).value = value
        /\ Checked(null, refused, value).ret = 0 <=> ~null /\ ~refused
    BY DEF Checked
  <2>3. op \notin IntOps
    BY <1>1 DEF IntOps, SizeOps
  <2> QED
    BY <1>1, <2>1, <2>2, <2>3 DEF RefusedIfNotExact
<1>2. CASE Record("safe_add_size", a, b, Checked(null, AddSizeOverflows(a, b), a + b))
  BY <1>1, <1>2, SumsAreExact DEF SizeOps
<1>3. CASE Record("safe_mul_size", a, b, Checked(null, MulSizeOverflows(a, b), a * b))
  BY <1>1, <1>3, MulSizeIsExact DEF SizeOps
<1> QED
  BY <1>2, <1>3 DEF CallSize

LEMMA ChoiceCall ==
  ASSUME NEW a \in SizeTs, NEW b \in SizeTs, CallChoice(a, b)
  PROVE  MinMaxOrder' /\ RefusedIfNotExact'
<1>1. CASE Record("constant_time_min", a, b, constant_time_min(a, b))
  <2>1. /\ utils_last'.op = "constant_time_min"
        /\ utils_last'.a = a /\ utils_last'.b = b
        /\ utils_last'.outcome = IF Below(a, b) THEN a ELSE b
    BY <1>1 DEF Record, constant_time_min
  <2> QED
    BY <2>1, BelowIsSign DEF MinMaxOrder, RefusedIfNotExact, IntOps, SizeOps
<1>2. CASE Record("constant_time_max", a, b, constant_time_max(a, b))
  <2>1. /\ utils_last'.op = "constant_time_max"
        /\ utils_last'.a = a /\ utils_last'.b = b
        /\ utils_last'.outcome = IF Below(a, b) THEN b ELSE a
    BY <1>2 DEF Record, constant_time_max
  <2> QED
    BY <2>1, BelowIsSign DEF MinMaxOrder, RefusedIfNotExact, IntOps, SizeOps
<1> QED
  BY <1>1, <1>2 DEF CallChoice

LEMMA NotChoice ==
  ASSUME NEW a, NEW b, NEW null, CallInt(a, b, null) \/ CallSize(a, b, null)
  PROVE  MinMaxOrder'
<1>1. utils_last'.op \in IntOps \union SizeOps
  BY DEF CallInt, CallSize, Record, IntOps, SizeOps
<1> QED
  BY <1>1 DEF MinMaxOrder, IntOps, SizeOps

LEMMA NextUtils ==
  RefusedIfNotExact /\ MinMaxOrder /\ [SecureUtilsNext]_utils_last
      => RefusedIfNotExact' /\ MinMaxOrder'
<1> SUFFICES ASSUME RefusedIfNotExact, MinMaxOrder, [SecureUtilsNext]_utils_last
             PROVE  RefusedIfNotExact' /\ MinMaxOrder'
  OBVIOUS
<1>1. ASSUME NEW a \in Ints, NEW b \in Ints, NEW null \in BOOLEAN, CallInt(a, b, null)
      PROVE  RefusedIfNotExact' /\ MinMaxOrder'
  BY <1>1, IntCall, NotChoice
<1>2. ASSUME NEW a \in SizeTs, NEW b \in SizeTs, NEW null \in BOOLEAN, CallSize(a, b, null)
      PROVE  RefusedIfNotExact' /\ MinMaxOrder'
  BY <1>2, SizeCall, NotChoice
<1>3. ASSUME NEW a \in SizeTs, NEW b \in SizeTs, CallChoice(a, b)
      PROVE  RefusedIfNotExact' /\ MinMaxOrder'
  BY <1>3, ChoiceCall
<1>4. CASE UtilsReturn
  BY <1>4 DEF UtilsReturn, RefusedIfNotExact, MinMaxOrder, IntOps, SizeOps
<1>5. CASE UNCHANGED utils_last
  BY <1>5 DEF RefusedIfNotExact, MinMaxOrder
<1> QED
  BY <1>1, <1>2, <1>3, <1>4, <1>5 DEF SecureUtilsNext

LEMMA InitUtils == SecureUtilsInit => RefusedIfNotExact /\ MinMaxOrder
  BY DEF SecureUtilsInit, RefusedIfNotExact, MinMaxOrder, IntOps, SizeOps

(* For every width, a checked operation succeeds exactly when the result exists. *)
THEOREM CheckedIsExact == SecureUtilsSpec => []RefusedIfNotExact
  BY InitUtils, NextUtils, PTL DEF SecureUtilsSpec

(* For every width, the branchless choices are right up to half a range apart. *)
THEOREM ChoiceByDistance == SecureUtilsSpec => []MinMaxOrder
  BY InitUtils, NextUtils, PTL DEF SecureUtilsSpec

-----------------------------------------------------------------------------
(* The post-quantum stub *)

LEMMA FirstIs ==
  ASSUME NEW indices, indices \subseteq Nat, indices # {}
  PROVE  First(indices) \in indices /\ \A j \in indices : First(indices) <= j
<1>1. PICK x \in indices : \A j \in indices : ~(j < x)
  BY LeastMember, Zenon
<1>2. \A j \in indices : x <= j
  BY <1>1
<1> QED
  BY <1>2, Zenon DEF First

(* The error of the first check that fails, and success when none does. *)
LEMMA FirstErrorIs ==
  ASSUME NEW n \in Nat, NEW checks, DOMAIN checks = 1 .. n
  PROVE  \/ FirstError(checks) = "SUCCESS" /\ \A i \in 1 .. n : ~checks[i][1]
         \/ \E i \in 1 .. n : /\ checks[i][1] /\ FirstError(checks) = checks[i][2]
                              /\ \A j \in 1 .. i - 1 : ~checks[j][1]
<1> DEFINE failing == {i \in DOMAIN checks : checks[i][1]}
<1>1. CASE failing = {}
  <2>1. \A i \in 1 .. n : ~checks[i][1]
    BY <1>1
  <2>2. FirstError(checks) = "SUCCESS"
    BY <1>1, Zenon DEF FirstError
  <2> QED
    BY <2>1, <2>2, Zenon
<1>2. CASE failing # {}
  <2>1. failing \subseteq Nat
    OBVIOUS
  <2> DEFINE i == First(failing)
  <2>2. i \in failing /\ \A j \in failing : i <= j
    BY <1>2, <2>1, FirstIs, Zenon
  <2>3. FirstError(checks) = checks[i][2]
    BY <1>2, Zenon DEF FirstError
  <2> HIDE DEF i
  <2>4. i \in 1 .. n /\ checks[i][1]
    BY <2>2
  <2>5. \A j \in 1 .. i - 1 : ~checks[j][1]
    <3> SUFFICES ASSUME NEW j \in 1 .. i - 1, checks[j][1] PROVE FALSE
      BY Zenon
    <3>1. j \in failing
      BY <2>4
    <3> QED
      BY <2>2, <2>4, <3>1
  <2> QED
    BY <2>3, <2>4, <2>5, Zenon
<1> QED
  BY <1>1, <1>2

\* The next check of a list, when this one does not fail.
Else(fails, error, next) == IF fails THEN error ELSE next

(* Lists of two to six checks. *)
LEMMA FirstOf2 ==
  ASSUME NEW a1 \in BOOLEAN, NEW e1, NEW a2 \in BOOLEAN, NEW e2
  PROVE  FirstError(<< <<a1, e1>>, <<a2, e2>> >>) =
             Else(a1, e1, Else(a2, e2, "SUCCESS"))
<1> DEFINE checks == << <<a1, e1>>, <<a2, e2>> >>
<1>1. /\ checks[1][1] = a1 /\ checks[2][1] = a2
      /\ checks[1][2] = e1 /\ checks[2][2] = e2
  OBVIOUS
<1>2. DOMAIN checks = 1 .. 2 /\ 2 \in Nat
  OBVIOUS
<1> HIDE DEF checks
<1>3. \/ FirstError(checks) = "SUCCESS" /\ \A i \in 1 .. 2 : ~checks[i][1]
      \/ \E i \in 1 .. 2 : /\ checks[i][1] /\ FirstError(checks) = checks[i][2]
                           /\ \A j \in 1 .. i - 1 : ~checks[j][1]
  BY <1>2, FirstErrorIs, Zenon
<1>4. FirstError(checks) =
             Else(a1, e1, Else(a2, e2, "SUCCESS"))
  BY <1>1, <1>3 DEF Else
<1> QED
  BY <1>4 DEF checks

LEMMA FirstOf3 ==
  ASSUME NEW a1 \in BOOLEAN, NEW e1, NEW a2 \in BOOLEAN, NEW e2, NEW a3 \in BOOLEAN, NEW e3
  PROVE  FirstError(<< <<a1, e1>>, <<a2, e2>>, <<a3, e3>> >>) =
             Else(a1, e1, Else(a2, e2, Else(a3, e3, "SUCCESS")))
<1> DEFINE checks == << <<a1, e1>>, <<a2, e2>>, <<a3, e3>> >>
<1>1. /\ checks[1][1] = a1 /\ checks[2][1] = a2 /\ checks[3][1] = a3
      /\ checks[1][2] = e1 /\ checks[2][2] = e2 /\ checks[3][2] = e3
  OBVIOUS
<1>2. DOMAIN checks = 1 .. 3 /\ 3 \in Nat
  OBVIOUS
<1> HIDE DEF checks
<1>3. \/ FirstError(checks) = "SUCCESS" /\ \A i \in 1 .. 3 : ~checks[i][1]
      \/ \E i \in 1 .. 3 : /\ checks[i][1] /\ FirstError(checks) = checks[i][2]
                           /\ \A j \in 1 .. i - 1 : ~checks[j][1]
  BY <1>2, FirstErrorIs, Zenon
<1>4. FirstError(checks) =
             Else(a1, e1, Else(a2, e2, Else(a3, e3, "SUCCESS")))
  BY <1>1, <1>3 DEF Else
<1> QED
  BY <1>4 DEF checks

LEMMA FirstOf4 ==
  ASSUME NEW a1 \in BOOLEAN, NEW e1, NEW a2 \in BOOLEAN, NEW e2, NEW a3 \in BOOLEAN, NEW e3,
         NEW a4 \in BOOLEAN, NEW e4
  PROVE  FirstError(<< <<a1, e1>>, <<a2, e2>>, <<a3, e3>>, <<a4, e4>> >>) =
             Else(a1, e1, Else(a2, e2, Else(a3, e3, Else(a4, e4, "SUCCESS"))))
<1> DEFINE checks == << <<a1, e1>>, <<a2, e2>>, <<a3, e3>>, <<a4, e4>> >>
<1>1. /\ checks[1][1] = a1 /\ checks[2][1] = a2 /\ checks[3][1] = a3 /\ checks[4][1] = a4
      /\ checks[1][2] = e1 /\ checks[2][2] = e2 /\ checks[3][2] = e3 /\ checks[4][2] = e4
  OBVIOUS
<1>2. DOMAIN checks = 1 .. 4 /\ 4 \in Nat
  OBVIOUS
<1> HIDE DEF checks
<1>3. \/ FirstError(checks) = "SUCCESS" /\ \A i \in 1 .. 4 : ~checks[i][1]
      \/ \E i \in 1 .. 4 : /\ checks[i][1] /\ FirstError(checks) = checks[i][2]
                           /\ \A j \in 1 .. i - 1 : ~checks[j][1]
  BY <1>2, FirstErrorIs, Zenon
<1>4. FirstError(checks) =
             Else(a1, e1, Else(a2, e2, Else(a3, e3, Else(a4, e4, "SUCCESS"))))
  BY <1>1, <1>3 DEF Else
<1> QED
  BY <1>4 DEF checks

LEMMA FirstOf5 ==
  ASSUME NEW a1 \in BOOLEAN, NEW e1, NEW a2 \in BOOLEAN, NEW e2, NEW a3 \in BOOLEAN, NEW e3,
         NEW a4 \in BOOLEAN, NEW e4, NEW a5 \in BOOLEAN, NEW e5
  PROVE  FirstError(<< <<a1, e1>>, <<a2, e2>>, <<a3, e3>>, <<a4, e4>>, <<a5, e5>> >>) =
             Else(a1, e1, Else(a2, e2, Else(a3, e3, Else(a4, e4, Else(a5, e5, "SUCCESS")))))
<1> DEFINE checks == << <<a1, e1>>, <<a2, e2>>, <<a3, e3>>, <<a4, e4>>, <<a5, e5>> >>
<1>1. /\ checks[1][1] = a1 /\ checks[2][1] = a2 /\ checks[3][1] = a3 /\ checks[4][1] = a4 /\ checks[5][1] = a5
      /\ checks[1][2] = e1 /\ checks[2][2] = e2 /\ checks[3][2] = e3 /\ checks[4][2] = e4 /\ checks[5][2] = e5
  OBVIOUS
<1>2. DOMAIN checks = 1 .. 5 /\ 5 \in Nat
  OBVIOUS
<1> HIDE DEF checks
<1>3. \/ FirstError(checks) = "SUCCESS" /\ \A i \in 1 .. 5 : ~checks[i][1]
      \/ \E i \in 1 .. 5 : /\ checks[i][1] /\ FirstError(checks) = checks[i][2]
                           /\ \A j \in 1 .. i - 1 : ~checks[j][1]
  BY <1>2, FirstErrorIs, Zenon
<1>4. FirstError(checks) =
             Else(a1, e1, Else(a2, e2, Else(a3, e3, Else(a4, e4, Else(a5, e5, "SUCCESS")))))
  BY <1>1, <1>3 DEF Else
<1> QED
  BY <1>4 DEF checks

LEMMA FirstOf6 ==
  ASSUME NEW a1 \in BOOLEAN, NEW e1, NEW a2 \in BOOLEAN, NEW e2, NEW a3 \in BOOLEAN, NEW e3,
         NEW a4 \in BOOLEAN, NEW e4, NEW a5 \in BOOLEAN, NEW e5, NEW a6 \in BOOLEAN, NEW e6
  PROVE  FirstError(<< <<a1, e1>>, <<a2, e2>>, <<a3, e3>>, <<a4, e4>>, <<a5, e5>>, <<a6, e6>> >>) =
             Else(a1, e1, Else(a2, e2, Else(a3, e3, Else(a4, e4, Else(a5, e5, Else(a6, e6, "SUCCESS"))))))
<1> DEFINE checks == << <<a1, e1>>, <<a2, e2>>, <<a3, e3>>, <<a4, e4>>, <<a5, e5>>, <<a6, e6>> >>
<1>1. /\ checks[1][1] = a1 /\ checks[2][1] = a2 /\ checks[3][1] = a3 /\ checks[4][1] = a4 /\ checks[5][1] = a5 /\ checks[6][1] = a6
      /\ checks[1][2] = e1 /\ checks[2][2] = e2 /\ checks[3][2] = e3 /\ checks[4][2] = e4 /\ checks[5][2] = e5 /\ checks[6][2] = e6
  OBVIOUS
<1>2. DOMAIN checks = 1 .. 6 /\ 6 \in Nat
  OBVIOUS
<1> HIDE DEF checks
<1>3. \/ FirstError(checks) = "SUCCESS" /\ \A i \in 1 .. 6 : ~checks[i][1]
      \/ \E i \in 1 .. 6 : /\ checks[i][1] /\ FirstError(checks) = checks[i][2]
                           /\ \A j \in 1 .. i - 1 : ~checks[j][1]
  BY <1>2, FirstErrorIs, Zenon
<1>4. FirstError(checks) =
             Else(a1, e1, Else(a2, e2, Else(a3, e3, Else(a4, e4, Else(a5, e5, Else(a6, e6, "SUCCESS"))))))
  BY <1>1, <1>3 DEF Else
<1> QED
  BY <1>4 DEF checks

(* Where filling some buffers ends: at one of them, or behind the last. *)
LEMMA StopIs ==
  ASSUME NEW n \in Nat, NEW sizes, DOMAIN sizes = 1 .. n, Len(sizes) = n,
         NEW broken
  PROVE  /\ Stop(sizes, broken) \in 1 .. n + 1
         /\ Stop(sizes, broken) = n + 1 => \A i \in 1 .. n : sizes[i] # 0
<1> DEFINE ends == {i \in DOMAIN sizes : Refuses(sizes[i]) \/ i = broken} \union {n + 1}
<1>1. ends \subseteq Nat /\ ends # {}
  OBVIOUS
<1> DEFINE stop == First(ends)
<1>2. stop \in ends /\ \A j \in ends : stop <= j
  BY <1>1, FirstIs, Zenon
<1>3. Stop(sizes, broken) = stop
  BY Zenon DEF Stop
<1> HIDE DEF stop
<1>4. stop \in 1 .. n + 1
  BY <1>2
<1>5. stop = n + 1 => \A i \in 1 .. n : sizes[i] # 0
  <2> SUFFICES ASSUME stop = n + 1, NEW i \in 1 .. n, sizes[i] = 0 PROVE FALSE
    BY Zenon
  <2>1. i \in ends
    BY DEF Refuses
  <2> QED
    BY <1>2, <2>1
<1> QED
  BY <1>3, <1>4, <1>5

(* A fill writes what was asked for or nothing, and before the end random bytes. *)
LEMMA FillIs ==
  ASSUME NEW i \in Nat, NEW sizes, sizes[i] \in Nat, NEW stop \in Nat
  PROVE  /\ Fill(i, sizes, stop).written \in {0, sizes[i]}
         /\ i < stop => /\ Fill(i, sizes, stop).written = sizes[i]
                        /\ Fill(i, sizes, stop).content = <<"random">>
BY DEF Fill, Untouched

(* What a caller states are numbers. *)
LEMMA GivenIs ==
  ASSUME NEW lengths, NEW in \in Given(lengths)
  PROVE  /\ in.null \in BOOLEAN
         /\ in.pk \in Nat /\ in.sk \in Nat /\ in.len \in Nat /\ in.ss \in Nat
<1>1. \A name : (IF name \in lengths THEN Sizes ELSE {0}) \subseteq Nat
  BY PqcAssumption DEF Sizes
<1> QED
  BY <1>1 DEF Given

(* The sizes of an algorithm in the table, which is of one kind only. *)
LEMMA ParamsAre ==
  ASSUME NEW algo
  PROVE  /\ Params(algo).pk \in Nat /\ Params(algo).sk \in Nat
         /\ Params(algo).ct \in Nat /\ Params(algo).sig \in Nat
         /\ Params(algo).ss \in Nat
         /\ Supported(algo) =>
                /\ Params(algo).pk > 0 /\ Params(algo).sk > 0 /\ Params(algo).ss > 0
                /\ Params(algo).ct = 0 \/ Params(algo).sig = 0
BY PqcAssumption DEF Params, Supported

\* What a call leaves in a buffer: out is the buffer with the room stated for it.
Whole(out, ret) ==
    /\ out[1].written <= out[2]
    /\ ret = "SUCCESS" => /\ out[1].written > 0
                          /\ out[1].content \in {<<"random">>, <<"zero">>}

LEMMA WholeIs ==
  ASSUME NEW buffer, NEW room, NEW ret, buffer.written <= room,
         ret = "SUCCESS" => /\ buffer.written > 0
                            /\ buffer.content \in {<<"random">>, <<"zero">>}
  PROVE  Whole(<<buffer, room>>, ret)
BY DEF Whole

\* What SuccessIsComplete and PqcTypeOK say of a call.
Sound(call) ==
    LET result == call.result
        algo == call.algo
    IN  /\ \A out \in Outputs(call) : Whole(out, result.ret)
        /\ result.ret = "SUCCESS" /\ call.op = "encapsulate" => IsKem(algo)
        /\ result.ret = "SUCCESS" /\ call.op = "sign" => ~IsKem(algo)
        /\ result.ret \in Errors \ {"RNG_FAILURE"} =>
               result.a = Untouched /\ result.b = Untouched
        /\ result.ret = "TRAP" => ~IsKem(algo) /\ call.in.len = 0
        /\ result.ret \in Errors \union {"SUCCESS", "TRAP"} /\ result.len \in Nat

(* A call that is rejected. *)
LEMMA RejectedIsSound ==
  ASSUME NEW op, NEW algo, NEW lengths, NEW in \in Given(lengths), NEW len \in Nat,
         NEW error \in Errors \ {"RNG_FAILURE"},
         NEW call, call = [op |-> op, algo |-> algo, in |-> in, result |-> Rejected(error, len)]
  PROVE  Sound(call)
<1>1. /\ call.op = op /\ call.algo = algo /\ call.in = in
      /\ call.result.ret = error /\ call.result.a = Untouched
      /\ call.result.b = Untouched /\ call.result.len = len
  BY DEF Rejected, Result
<1>2. error # "SUCCESS" /\ error # "TRAP" /\ error \in Errors
  BY DEF Errors
<1>3. Untouched.written = 0
  BY DEF Untouched
<1>4. \A out \in Outputs(call) : Whole(out, error)
  BY <1>1, <1>2, <1>3, GivenIs DEF Outputs, Whole
<1> QED
  BY <1>1, <1>2, <1>4 DEF Sound

(* A call that got past its checks. *)
LEMMA PassedIsSound ==
  ASSUME NEW call, call.result.ret \in {"RNG_FAILURE", "SUCCESS"}, call.result.len \in Nat,
         \A out \in Outputs(call) : Whole(out, call.result.ret),
         call.result.ret = "SUCCESS" /\ call.op = "encapsulate" => IsKem(call.algo),
         call.result.ret = "SUCCESS" /\ call.op = "sign" => ~IsKem(call.algo)
  PROVE  Sound(call)
BY DEF Sound, Errors

LEMMA KeygenIsSound ==
  ASSUME NEW algo, NEW in \in Given({"pk", "sk"}), NEW broken,
         NEW call, call = [op |-> "keygen", algo |-> algo, in |-> in,
                           result |-> pqc_keygen(algo, in, broken)]
  PROVE  Sound(call)
<1> DEFINE p == Params(algo)
           unsupported == ~Supported(algo)
           null == in.null
           small == in.pk < p.pk \/ in.sk < p.sk
           error == FirstError(<<Unsupported(algo), NullPointer(in), TooSmall(small)>>)
           sizes == <<p.pk, p.sk>>
           stop == Stop(sizes, broken)
           a == Fill(1, sizes, stop)
           b == Fill(2, sizes, stop)
           ret == Outcome(sizes, stop)
<1>1. error = IF unsupported THEN "ALGORITHM_NOT_SUPPORTED"
              ELSE IF null THEN "INVALID_PARAM"
              ELSE IF small THEN "BUFFER_TOO_SMALL" ELSE "SUCCESS"
  <2>1. unsupported \in BOOLEAN /\ null \in BOOLEAN /\ small \in BOOLEAN
    BY GivenIs, Zenon
  <2>2. error = FirstError(
                << <<unsupported, "ALGORITHM_NOT_SUPPORTED">>,
                   <<null, "INVALID_PARAM">>,
                   <<small, "BUFFER_TOO_SMALL">> >>)
    BY Zenon DEF Unsupported, NullPointer, TooSmall
  <2> HIDE DEF unsupported, null, small, error
  <2>3. FirstError(
                << <<unsupported, "ALGORITHM_NOT_SUPPORTED">>,
                   <<null, "INVALID_PARAM">>,
                   <<small, "BUFFER_TOO_SMALL">> >>)
        = Else(unsupported, "ALGORITHM_NOT_SUPPORTED", Else(null, "INVALID_PARAM",
            Else(small, "BUFFER_TOO_SMALL", "SUCCESS")))
    BY <2>1, FirstOf3
  <2> QED
    BY <2>2, <2>3 DEF Else
<1>2. in.len \in Nat /\ in.pk \in Nat /\ in.sk \in Nat /\ p.pk \in Nat /\ p.sk \in Nat
  BY GivenIs, ParamsAre
<1> HIDE DEF error, p, stop
<1>3. CASE error # "SUCCESS"
  <2>1. error \in Errors \ {"RNG_FAILURE"}
    BY <1>1, <1>3 DEF Errors
  <2>2. call = [op |-> "keygen", algo |-> algo, in |-> in, result |-> Rejected(error, in.len)]
    BY <1>3, Zenon DEF pqc_keygen, error, p
  <2> QED
    BY <1>2, <2>1, <2>2, RejectedIsSound, Zenon
<1>4. CASE error = "SUCCESS"
  <2>1. Supported(algo) /\ in.pk >= p.pk /\ in.sk >= p.sk
    BY <1>1, <1>2, <1>4
  <2>2. stop \in 1 .. 3
    <3>1. DOMAIN sizes = 1 .. 2 /\ Len(sizes) = 2 /\ 2 \in Nat /\ 2 + 1 = 3
      OBVIOUS
    <3> HIDE DEF sizes
    <3>2. stop \in 1 .. 2 + 1
      BY <3>1, StopIs, Zenon DEF stop, sizes
    <3> QED
      BY <3>1, <3>2, Zenon
  <2>3. call.result = Result(ret, a, b, in.len)
    BY <1>4, Zenon DEF pqc_keygen, error, p, stop
  <2>4. p.pk > 0 /\ p.sk > 0
    BY <2>1, ParamsAre DEF p
  <2>5. /\ a.written \in {0, p.pk} /\ b.written \in {0, p.sk}
        /\ 2 < stop => /\ a.written = p.pk /\ a.content = <<"random">>
                       /\ b.written = p.sk /\ b.content = <<"random">>
    BY <1>2, <2>2, FillIs
  <2>6. ret = IF stop <= 2 THEN "RNG_FAILURE" ELSE "SUCCESS"
    BY DEF Outcome
  <2> HIDE DEF a, b, ret
  <2>7. /\ call.op = "keygen" /\ call.in = in /\ call.algo = algo
        /\ call.result.ret = ret /\ call.result.a = a /\ call.result.b = b
        /\ call.result.len = in.len
    BY <2>3 DEF Result
  <2>8. Outputs(call) = {<<a, in.pk>>, <<b, in.sk>>}
    BY <2>7 DEF Outputs
  <2>9. Whole(<<a, in.pk>>, ret) /\ Whole(<<b, in.sk>>, ret)
    <3>1. a.written <= in.pk /\ b.written <= in.sk
      BY <1>2, <2>1, <2>5
    <3>2. ret = "SUCCESS" => /\ a.written > 0 /\ a.content = <<"random">>
                             /\ b.written > 0 /\ b.content = <<"random">>
      BY <2>2, <2>4, <2>5, <2>6
    <3>3. ret = "SUCCESS" => /\ a.written > 0 /\ a.content \in {<<"random">>, <<"zero">>}
                             /\ b.written > 0 /\ b.content \in {<<"random">>, <<"zero">>}
      BY <3>2, Zenon
    <3>4. Whole(<<a, in.pk>>, ret)
      <4>1. a.written <= in.pk
        BY <3>1
      <4>2. ret = "SUCCESS" => /\ a.written > 0 
                               /\ a.content \in {<<"random">>, <<"zero">>}
        BY <3>3, Zenon
      <4> QED
        BY <4>1, <4>2, WholeIs, Zenon
    <3>5. Whole(<<b, in.sk>>, ret)
      BY <3>1, <3>3, WholeIs
    <3> QED
      BY <3>4, <3>5, Zenon
  <2> QED
    BY <1>2, <2>2, <2>6, <2>7, <2>8, <2>9, PassedIsSound
<1> QED
  BY <1>3, <1>4

LEMMA EncapsulateIsSound ==
  ASSUME NEW algo, NEW in \in Given({"pk", "len", "ss"}), NEW broken,
         NEW call, call = [op |-> "encapsulate", algo |-> algo, in |-> in,
                           result |-> pqc_encapsulate(algo, in, broken)]
  PROVE  Sound(call)
<1> DEFINE p == Params(algo)
           null == in.null
           unsupported == ~Supported(algo)
           smallPk == in.pk < p.pk
           smallCt == in.len < p.ct
           smallSs == in.ss < p.ss
           error == FirstError(<<NullPointer(in), Unsupported(algo), TooSmall(smallPk),
                                TooSmall(smallCt), TooSmall(smallSs)>>)
           sizes == <<p.ct, p.ss, p.ss>>
           stop == Stop(sizes, broken)
           a == Fill(1, sizes, stop)
           b == Fill(IF stop = 3 THEN 3 ELSE 2, sizes, stop)
           ret == Outcome(sizes, stop)
           len == IF error = "BUFFER_TOO_SMALL" /\ in.pk >= p.pk /\ in.len < p.ct
                  THEN p.ct ELSE in.len
<1>1. error = IF null THEN "INVALID_PARAM"
              ELSE IF unsupported THEN "ALGORITHM_NOT_SUPPORTED"
              ELSE IF smallPk THEN "BUFFER_TOO_SMALL"
              ELSE IF smallCt THEN "BUFFER_TOO_SMALL"
              ELSE IF smallSs THEN "BUFFER_TOO_SMALL" ELSE "SUCCESS"
  <2>1. null \in BOOLEAN /\ unsupported \in BOOLEAN /\ smallPk \in BOOLEAN /\ smallCt \in BOOLEAN /\ smallSs \in BOOLEAN
    <3>1. null \in BOOLEAN /\ unsupported \in BOOLEAN
      BY GivenIs, Zenon
    <3>2. smallPk \in BOOLEAN /\ smallCt \in BOOLEAN /\ smallSs \in BOOLEAN
      OBVIOUS
    <3> QED
      BY <3>1, <3>2, Zenon
  <2>2. error = FirstError(
                << <<null, "INVALID_PARAM">>,
                   <<unsupported, "ALGORITHM_NOT_SUPPORTED">>,
                   <<smallPk, "BUFFER_TOO_SMALL">>,
                   <<smallCt, "BUFFER_TOO_SMALL">>,
                   <<smallSs, "BUFFER_TOO_SMALL">> >>)
    BY Zenon DEF Unsupported, NullPointer, TooSmall
  <2> HIDE DEF null, unsupported, smallPk, smallCt, smallSs, error
  <2>3. FirstError(
                << <<null, "INVALID_PARAM">>,
                   <<unsupported, "ALGORITHM_NOT_SUPPORTED">>,
                   <<smallPk, "BUFFER_TOO_SMALL">>,
                   <<smallCt, "BUFFER_TOO_SMALL">>,
                   <<smallSs, "BUFFER_TOO_SMALL">> >>)
        = Else(null, "INVALID_PARAM", Else(unsupported, "ALGORITHM_NOT_SUPPORTED",
            Else(smallPk, "BUFFER_TOO_SMALL", Else(smallCt, "BUFFER_TOO_SMALL",
            Else(smallSs, "BUFFER_TOO_SMALL", "SUCCESS")))))
    BY <2>1, FirstOf5
  <2> QED
    BY <2>2, <2>3 DEF Else
<1>2. /\ in.len \in Nat /\ in.pk \in Nat /\ in.ss \in Nat
      /\ p.pk \in Nat /\ p.ct \in Nat /\ p.ss \in Nat
  BY GivenIs, ParamsAre
<1> HIDE DEF error, p, stop
<1>3. CASE error # "SUCCESS"
  <2>1. error \in Errors \ {"RNG_FAILURE"}
    BY <1>1, <1>3 DEF Errors
  <2>2. call = [op |-> "encapsulate", algo |-> algo, in |-> in, result |-> Rejected(error, len)]
    BY <1>3, Zenon DEF pqc_encapsulate, error, p
  <2>3. len \in Nat
    BY <1>2
  <2> HIDE DEF len
  <2> QED
    BY <2>1, <2>2, <2>3, RejectedIsSound, Zenon
<1>4. CASE error = "SUCCESS"
  <2>1. Supported(algo) /\ in.len >= p.ct /\ in.ss >= p.ss
    BY <1>1, <1>2, <1>4
  <2>2. stop \in 1 .. 4 /\ (stop = 4 => p.ct # 0)
    <3>1. DOMAIN sizes = 1 .. 3 /\ Len(sizes) = 3 /\ 3 \in Nat /\ 3 + 1 = 4
          /\ sizes[1] = p.ct /\ 1 \in 1 .. 3
      OBVIOUS
    <3> HIDE DEF sizes
    <3>2. stop \in 1 .. 3 + 1 /\ (stop = 3 + 1 => \A i \in 1 .. 3 : sizes[i] # 0)
      BY <3>1, StopIs, Zenon DEF stop, sizes
    <3> QED
      BY <3>1, <3>2, Zenon
  <2>3. call.result = Result(ret, a, b, p.ct)
    BY <1>4, Zenon DEF pqc_encapsulate, error, p, stop
  <2>4. p.ss > 0
    BY <2>1, ParamsAre DEF p
  <2>5. /\ a.written \in {0, p.ct} /\ b.written \in {0, p.ss}
        /\ 3 < stop => /\ a.written = p.ct /\ a.content = <<"random">>
                       /\ b.written = p.ss /\ b.content = <<"random">>
    BY <1>2, <2>2, FillIs
  <2>6. ret = IF stop <= 3 THEN "RNG_FAILURE" ELSE "SUCCESS"
    BY DEF Outcome
  <2> HIDE DEF a, b, ret
  <2>7. /\ call.op = "encapsulate" /\ call.in = in /\ call.algo = algo
        /\ call.result.ret = ret /\ call.result.a = a /\ call.result.b = b
        /\ call.result.len = p.ct
    BY <2>3 DEF Result
  <2>8. Outputs(call) = {<<a, in.len>>, <<b, in.ss>>}
    BY <2>7 DEF Outputs
  <2>9. Whole(<<a, in.len>>, ret) /\ Whole(<<b, in.ss>>, ret)
    <3>1. a.written <= in.len /\ b.written <= in.ss
      BY <1>2, <2>1, <2>5
    <3>2. ret = "SUCCESS" => /\ a.written > 0 /\ a.content \in {<<"random">>, <<"zero">>}
                             /\ b.written > 0 /\ b.content \in {<<"random">>, <<"zero">>}
      BY <1>2, <2>2, <2>4, <2>5, <2>6
    <3> QED
      BY <3>1, <3>2, WholeIs
  <2>10. ret = "SUCCESS" => IsKem(algo)
    BY <2>1, <2>2, <2>6 DEF IsKem, p
  <2> QED
    BY <1>2, <2>2, <2>6, <2>7, <2>8, <2>9, <2>10, PassedIsSound
<1> QED
  BY <1>3, <1>4

LEMMA DecapsulateIsSound ==
  ASSUME NEW algo, NEW in \in Given({"sk", "len", "ss"}), NEW broken,
         NEW call, call = [op |-> "decapsulate", algo |-> algo, in |-> in,
                           result |-> pqc_decapsulate(algo, in, broken)]
  PROVE  Sound(call)
<1> DEFINE p == Params(algo)
           null == in.null
           unsupported == ~Supported(algo)
           smallSk == in.sk < p.sk \/ in.len < p.ct
           smallSs == in.ss < p.ss
           error == FirstError(<<NullPointer(in), Unsupported(algo), TooSmall(smallSk), TooSmall(smallSs)>>)
           sizes == <<p.ss>>
           stop == Stop(sizes, broken)
           b == Fill(1, sizes, stop)
           ret == IF stop = 2 /\ in.len = 0 THEN "TRAP" ELSE Outcome(sizes, stop)
<1>1. error = IF null THEN "INVALID_PARAM"
              ELSE IF unsupported THEN "ALGORITHM_NOT_SUPPORTED"
              ELSE IF smallSk THEN "BUFFER_TOO_SMALL"
              ELSE IF smallSs THEN "BUFFER_TOO_SMALL" ELSE "SUCCESS"
  <2>1. null \in BOOLEAN /\ unsupported \in BOOLEAN /\ smallSk \in BOOLEAN /\ smallSs \in BOOLEAN
    <3>1. null \in BOOLEAN /\ unsupported \in BOOLEAN /\ smallSk \in BOOLEAN
      BY GivenIs, Zenon
    <3>2. smallSs \in BOOLEAN
      OBVIOUS
    <3> QED
      BY <3>1, <3>2, Zenon
  <2>2. error = FirstError(
                << <<null, "INVALID_PARAM">>,
                   <<unsupported, "ALGORITHM_NOT_SUPPORTED">>,
                   <<smallSk, "BUFFER_TOO_SMALL">>,
                   <<smallSs, "BUFFER_TOO_SMALL">> >>)
    BY Zenon DEF Unsupported, NullPointer, TooSmall
  <2> HIDE DEF null, unsupported, smallSk, smallSs, error
  <2>3. FirstError(
                << <<null, "INVALID_PARAM">>,
                   <<unsupported, "ALGORITHM_NOT_SUPPORTED">>,
                   <<smallSk, "BUFFER_TOO_SMALL">>,
                   <<smallSs, "BUFFER_TOO_SMALL">> >>)
        = Else(null, "INVALID_PARAM", Else(unsupported, "ALGORITHM_NOT_SUPPORTED",
            Else(smallSk, "BUFFER_TOO_SMALL", Else(smallSs, "BUFFER_TOO_SMALL", "SUCCESS"))))
    BY <2>1, FirstOf4
  <2> QED
    BY <2>2, <2>3 DEF Else
<1>2. /\ in.len \in Nat /\ in.sk \in Nat /\ in.ss \in Nat
      /\ p.sk \in Nat /\ p.ct \in Nat /\ p.ss \in Nat
  BY GivenIs, ParamsAre
<1> HIDE DEF error, p, stop
<1>3. CASE error # "SUCCESS"
  <2>1. error \in Errors \ {"RNG_FAILURE"}
    BY <1>1, <1>3 DEF Errors
  <2>2. call = [op |-> "decapsulate", algo |-> algo, in |-> in, result |-> Rejected(error, in.len)]
    BY <1>3, Zenon DEF pqc_decapsulate, error, p
  <2> QED
    BY <1>2, <2>1, <2>2, RejectedIsSound, Zenon
<1>4. CASE error = "SUCCESS"
  <2>1. Supported(algo) /\ in.len >= p.ct /\ in.ss >= p.ss
    BY <1>1, <1>2, <1>4
  <2>2. stop \in 1 .. 2
    <3>1. DOMAIN sizes = 1 .. 1 /\ Len(sizes) = 1 /\ 1 \in Nat /\ 1 + 1 = 2
      OBVIOUS
    <3> HIDE DEF sizes
    <3>2. stop \in 1 .. 1 + 1
      BY <3>1, StopIs, Zenon DEF stop, sizes
    <3> QED
      BY <3>1, <3>2, Zenon
  <2>3. call.result = Result(ret, Untouched, b, in.len)
    BY <1>4, Zenon DEF pqc_decapsulate, error, p, stop
  <2>4. p.ss > 0
    BY <2>1, ParamsAre DEF p
  <2>5. /\ b.written \in {0, p.ss}
        /\ 1 < stop => b.written = p.ss /\ b.content = <<"random">>
    BY <1>2, <2>2, FillIs
  <2>6. /\ ret \in {"RNG_FAILURE", "SUCCESS", "TRAP"}
        /\ ret = "SUCCESS" => stop = 2
        /\ ret = "TRAP" => in.len = 0
    BY <2>2 DEF Outcome
  <2> HIDE DEF b, ret
  <2>7. /\ call.op = "decapsulate" /\ call.in = in /\ call.algo = algo
        /\ call.result.ret = ret /\ call.result.b = b /\ call.result.len = in.len
    BY <2>3 DEF Result
  <2>8. Outputs(call) = {<<b, in.ss>>}
    BY <2>7 DEF Outputs
  <2>9. Whole(<<b, in.ss>>, ret)
    <3>1. b.written <= in.ss
      BY <1>2, <2>1, <2>5
    <3>2. ret = "SUCCESS" => b.written > 0 /\ b.content \in {<<"random">>, <<"zero">>}
      BY <1>2, <2>2, <2>4, <2>5, <2>6
    <3> QED
      BY <3>1, <3>2, WholeIs
  <2>10. ret = "TRAP" => ~IsKem(algo) /\ in.len = 0
    BY <1>2, <2>1, <2>6 DEF IsKem, p
  <2> QED
    BY <1>2, <2>6, <2>7, <2>8, <2>9, <2>10 DEF Sound, Errors
<1> QED
  BY <1>3, <1>4

LEMMA SignIsSound ==
  ASSUME NEW algo, NEW in \in Given({"sk", "len"}), NEW broken,
         NEW call, call = [op |-> "sign", algo |-> algo, in |-> in,
                           result |-> pqc_sign(algo, in, broken)]
  PROVE  Sound(call)
<1> DEFINE p == Params(algo)
           null == in.null
           unsupported == ~Supported(algo)
           smallSk == in.sk < p.sk
           smallSig == in.len < p.sig
           error == FirstError(<<NullPointer(in), Unsupported(algo), TooSmall(smallSk), TooSmall(smallSig)>>)
           sizes == <<p.sig>>
           stop == Stop(sizes, broken)
           a == Fill(1, sizes, stop)
           ret == Outcome(sizes, stop)
           len == IF error = "BUFFER_TOO_SMALL" /\ in.sk >= p.sk THEN p.sig ELSE in.len
<1>1. error = IF null THEN "INVALID_PARAM"
              ELSE IF unsupported THEN "ALGORITHM_NOT_SUPPORTED"
              ELSE IF smallSk THEN "BUFFER_TOO_SMALL"
              ELSE IF smallSig THEN "BUFFER_TOO_SMALL" ELSE "SUCCESS"
  <2>1. null \in BOOLEAN /\ unsupported \in BOOLEAN /\ smallSk \in BOOLEAN /\ smallSig \in BOOLEAN
    <3>1. null \in BOOLEAN /\ unsupported \in BOOLEAN
      BY GivenIs, Zenon
    <3>2. smallSk \in BOOLEAN /\ smallSig \in BOOLEAN
      OBVIOUS
    <3> QED
      BY <3>1, <3>2, Zenon
  <2>2. error = FirstError(
                << <<null, "INVALID_PARAM">>,
                   <<unsupported, "ALGORITHM_NOT_SUPPORTED">>,
                   <<smallSk, "BUFFER_TOO_SMALL">>,
                   <<smallSig, "BUFFER_TOO_SMALL">> >>)
    BY Zenon DEF Unsupported, NullPointer, TooSmall
  <2> HIDE DEF null, unsupported, smallSk, smallSig, error
  <2>3. FirstError(
                << <<null, "INVALID_PARAM">>,
                   <<unsupported, "ALGORITHM_NOT_SUPPORTED">>,
                   <<smallSk, "BUFFER_TOO_SMALL">>,
                   <<smallSig, "BUFFER_TOO_SMALL">> >>)
        = Else(null, "INVALID_PARAM", Else(unsupported, "ALGORITHM_NOT_SUPPORTED",
            Else(smallSk, "BUFFER_TOO_SMALL", Else(smallSig, "BUFFER_TOO_SMALL", "SUCCESS"))))
    BY <2>1, FirstOf4
  <2> QED
    BY <2>2, <2>3 DEF Else
<1>2. in.len \in Nat /\ in.sk \in Nat /\ p.sk \in Nat /\ p.sig \in Nat
  BY GivenIs, ParamsAre
<1> HIDE DEF error, p, stop
<1>3. CASE error # "SUCCESS"
  <2>1. error \in Errors \ {"RNG_FAILURE"}
    BY <1>1, <1>3 DEF Errors
  <2>2. call = [op |-> "sign", algo |-> algo, in |-> in, result |-> Rejected(error, len)]
    BY <1>3, Zenon DEF pqc_sign, error, p
  <2>3. len \in Nat
    BY <1>2
  <2> HIDE DEF len
  <2> QED
    BY <2>1, <2>2, <2>3, RejectedIsSound, Zenon
<1>4. CASE error = "SUCCESS"
  <2>1. Supported(algo) /\ in.len >= p.sig
    BY <1>1, <1>2, <1>4
  <2>2. stop \in 1 .. 2 /\ (stop = 2 => p.sig # 0)
    <3>1. DOMAIN sizes = 1 .. 1 /\ Len(sizes) = 1 /\ 1 \in Nat /\ 1 + 1 = 2
          /\ sizes[1] = p.sig /\ 1 \in 1 .. 1
      OBVIOUS
    <3> HIDE DEF sizes
    <3>2. stop \in 1 .. 1 + 1 /\ (stop = 1 + 1 => \A i \in 1 .. 1 : sizes[i] # 0)
      BY <3>1, StopIs, Zenon DEF stop, sizes
    <3> QED
      BY <3>1, <3>2, Zenon
  <2>3. call.result = Result(ret, a, Untouched, p.sig)
    BY <1>4, Zenon DEF pqc_sign, error, p, stop
  <2>4. /\ a.written \in {0, p.sig}
        /\ 1 < stop => a.written = p.sig /\ a.content = <<"random">>
    BY <1>2, <2>2, FillIs
  <2>5. ret = IF stop <= 1 THEN "RNG_FAILURE" ELSE "SUCCESS"
    BY DEF Outcome
  <2> HIDE DEF a, ret
  <2>6. /\ call.op = "sign" /\ call.in = in /\ call.algo = algo
        /\ call.result.ret = ret /\ call.result.a = a /\ call.result.len = p.sig
    BY <2>3 DEF Result
  <2>7. Outputs(call) = {<<a, in.len>>}
    BY <2>6 DEF Outputs
  <2>8. Whole(<<a, in.len>>, ret)
    <3>1. a.written <= in.len
      BY <1>2, <2>1, <2>4
    <3>2. ret = "SUCCESS" => a.written > 0 /\ a.content \in {<<"random">>, <<"zero">>}
      BY <1>2, <2>2, <2>4, <2>5
    <3> QED
      BY <3>1, <3>2, WholeIs
  <2>9. ret = "SUCCESS" => ~IsKem(algo)
    BY <2>1, <2>2, <2>5, ParamsAre DEF IsKem, p
  <2> QED
    BY <1>2, <2>2, <2>5, <2>6, <2>7, <2>8, <2>9, PassedIsSound
<1> QED
  BY <1>3, <1>4

LEMMA VerifyIsSound ==
  ASSUME NEW algo, NEW in \in Given({"pk", "len"}), NEW broken,
         NEW call, call = [op |-> "verify", algo |-> algo, in |-> in,
                           result |-> pqc_verify(algo, in, broken)]
  PROVE  Sound(call)
<1> DEFINE p == Params(algo)
           null == in.null
           unsupported == ~Supported(algo)
           small == in.pk < p.pk \/ in.len < p.sig
           error == FirstError(<<NullPointer(in), Unsupported(algo), TooSmall(small)>>)
           ret == IF error = "SUCCESS" THEN "VERIFICATION_FAILED" ELSE error
<1>1. error = IF null THEN "INVALID_PARAM"
              ELSE IF unsupported THEN "ALGORITHM_NOT_SUPPORTED"
              ELSE IF small THEN "BUFFER_TOO_SMALL" ELSE "SUCCESS"
  <2>1. null \in BOOLEAN /\ unsupported \in BOOLEAN /\ small \in BOOLEAN
    BY GivenIs, Zenon
  <2>2. error = FirstError(
                << <<null, "INVALID_PARAM">>,
                   <<unsupported, "ALGORITHM_NOT_SUPPORTED">>,
                   <<small, "BUFFER_TOO_SMALL">> >>)
    BY Zenon DEF Unsupported, NullPointer, TooSmall
  <2> HIDE DEF null, unsupported, small, error
  <2>3. FirstError(
                << <<null, "INVALID_PARAM">>,
                   <<unsupported, "ALGORITHM_NOT_SUPPORTED">>,
                   <<small, "BUFFER_TOO_SMALL">> >>)
        = Else(null, "INVALID_PARAM", Else(unsupported, "ALGORITHM_NOT_SUPPORTED",
            Else(small, "BUFFER_TOO_SMALL", "SUCCESS")))
    BY <2>1, FirstOf3
  <2> QED
    BY <2>2, <2>3 DEF Else
<1>2. in.len \in Nat
  BY GivenIs
<1> HIDE DEF error
<1>3. ret \in Errors \ {"RNG_FAILURE"}
  BY <1>1 DEF Errors
<1>4. call = [op |-> "verify", algo |-> algo, in |-> in, result |-> Rejected(ret, in.len)]
  BY Zenon DEF pqc_verify, error
<1> HIDE DEF ret
<1> QED
  BY <1>2, <1>3, <1>4, RejectedIsSound, Zenon

LEMMA HybridKeygenIsSound ==
  ASSUME NEW algo, NEW in \in Given({}), NEW broken,
         NEW call, call = [op |-> "hybrid_keygen", algo |-> algo, in |-> in,
                           result |-> pqc_hybrid_keygen(algo, in, broken)]
  PROVE  Sound(call)
<1> DEFINE p == Params(algo)
           null == in.null
           unsupported == ~Supported(algo)
           error == FirstError(<<NullPointer(in), Unsupported(algo)>>)
<1>0. p.pk \in Nat /\ p.sk \in Nat
  BY ParamsAre
<1>1. error = IF null THEN "INVALID_PARAM"
              ELSE IF unsupported THEN "ALGORITHM_NOT_SUPPORTED" ELSE "SUCCESS"
  <2>1. null \in BOOLEAN /\ unsupported \in BOOLEAN
    BY GivenIs, Zenon
  <2>2. error = FirstError(
                << <<null, "INVALID_PARAM">>,
                   <<unsupported, "ALGORITHM_NOT_SUPPORTED">> >>)
    BY Zenon DEF Unsupported, NullPointer, TooSmall
  <2> HIDE DEF null, unsupported, error
  <2>3. FirstError(
                << <<null, "INVALID_PARAM">>,
                   <<unsupported, "ALGORITHM_NOT_SUPPORTED">> >>)
        = Else(null, "INVALID_PARAM", Else(unsupported, "ALGORITHM_NOT_SUPPORTED", "SUCCESS"))
    BY <2>1, FirstOf2
  <2> QED
    BY <2>2, <2>3 DEF Else
<1>2. in.len \in Nat
  BY GivenIs
<1> HIDE DEF error, p
<1>3. CASE error # "SUCCESS"
  <2>1. error \in Errors \ {"RNG_FAILURE"}
    BY <1>1, <1>3 DEF Errors
  <2>2. call = [op |-> "hybrid_keygen", algo |-> algo, in |-> in, result |-> Rejected(error, in.len)]
    BY <1>3, Zenon DEF pqc_hybrid_keygen, error, p
  <2> QED
    BY <1>2, <2>1, <2>2, RejectedIsSound, Zenon
<1>4. CASE error = "SUCCESS"
  <2> DEFINE given == [in EXCEPT !.pk = p.pk, !.sk = p.sk]
             inner == pqc_keygen(algo, given, broken)
  <2>1. /\ given.pk = p.pk /\ given.sk = p.sk /\ given.null = in.null
    BY DEF Given
  <2>2. inner.ret \in {"RNG_FAILURE", "SUCCESS"}
    <3> DEFINE unsupp == ~Supported(algo)
               nul == given.null
               small == given.pk < p.pk \/ given.sk < p.sk
               sizes == <<p.pk, p.sk>>
               stop == Stop(sizes, broken)
    <3>1. unsupp = FALSE /\ nul = FALSE /\ small = FALSE
      BY <1>0, <1>1, <1>4, <2>1, GivenIs
    <3>2. FirstError(<<Unsupported(algo), NullPointer(given), TooSmall(small)>>) = "SUCCESS"
      <4> HIDE DEF unsupp, nul, small
      <4>1. unsupp \in BOOLEAN /\ nul \in BOOLEAN /\ small \in BOOLEAN
        BY <3>1
      <4>2. FirstError(<< <<unsupp, "ALGORITHM_NOT_SUPPORTED">>, <<nul, "INVALID_PARAM">>,
                          <<small, "BUFFER_TOO_SMALL">> >>)
            = Else(unsupp, "ALGORITHM_NOT_SUPPORTED", Else(nul, "INVALID_PARAM",
              Else(small, "BUFFER_TOO_SMALL", "SUCCESS")))
        BY <4>1, FirstOf3
      <4>3. FirstError(<< <<unsupp, "ALGORITHM_NOT_SUPPORTED">>, <<nul, "INVALID_PARAM">>,
                          <<small, "BUFFER_TOO_SMALL">> >>) = "SUCCESS"
        BY <3>1, <4>2, Zenon DEF Else
      <4> QED
        BY <4>3, Zenon DEF unsupp, nul, small, Unsupported, NullPointer, TooSmall
    <3>3. inner = Result(Outcome(sizes, stop), Fill(1, sizes, stop), Fill(2, sizes, stop), given.len)
      BY <3>2, Zenon DEF pqc_keygen, p
    <3> QED
      BY <3>3 DEF Result, Outcome
  <2> HIDE DEF given, inner
  <2>3. /\ call.op = "hybrid_keygen" /\ call.in = in /\ call.algo = algo
        /\ call.result.ret = inner.ret /\ call.result.len = Curve + p.pk
    BY <1>4 DEF pqc_hybrid_keygen, error, p, given, inner, Result
  <2>4. Outputs(call) = {}
    BY <2>3 DEF Outputs
  <2>5. Curve + p.pk \in Nat
    BY <1>0, PqcAssumption
  <2> QED
    BY <2>2, <2>3, <2>4, <2>5, PassedIsSound
<1> QED
  BY <1>3, <1>4

LEMMA HybridEncapsulateIsSound ==
  ASSUME NEW algo, NEW in \in Given({"pk", "len", "ss"}), NEW broken,
         NEW call, call = [op |-> "hybrid_encapsulate", algo |-> algo, in |-> in,
                           result |-> pqc_hybrid_encapsulate(algo, in, broken)]
  PROVE  Sound(call)
<1> DEFINE p == Params(algo)
           required == Curve + p.ct
           null == in.null
           unsupported == ~Supported(algo)
           short == in.pk < Curve
           smallPk == in.pk - Curve < p.pk
           smallCt == in.len < required
           smallSs == in.ss < Curve
           error == FirstError(<<NullPointer(in), Unsupported(algo), <<short, "INVALID_PARAM">>,
                                TooSmall(smallPk), TooSmall(smallCt), TooSmall(smallSs)>>)
           len == IF error = "BUFFER_TOO_SMALL" /\ in.pk - Curve >= p.pk
                  THEN required ELSE in.len
<1>1. error = IF null THEN "INVALID_PARAM"
              ELSE IF unsupported THEN "ALGORITHM_NOT_SUPPORTED"
              ELSE IF short THEN "INVALID_PARAM"
              ELSE IF smallPk THEN "BUFFER_TOO_SMALL"
              ELSE IF smallCt THEN "BUFFER_TOO_SMALL"
              ELSE IF smallSs THEN "BUFFER_TOO_SMALL" ELSE "SUCCESS"
  <2>1. null \in BOOLEAN /\ unsupported \in BOOLEAN /\ short \in BOOLEAN /\ smallPk \in BOOLEAN /\ smallCt \in BOOLEAN /\ smallSs \in BOOLEAN
    <3>1. null \in BOOLEAN /\ unsupported \in BOOLEAN
      BY GivenIs, Zenon
    <3>2. short \in BOOLEAN /\ smallPk \in BOOLEAN /\ smallCt \in BOOLEAN /\ smallSs \in BOOLEAN
      OBVIOUS
    <3> QED
      BY <3>1, <3>2, Zenon
  <2>2. error = FirstError(
                << <<null, "INVALID_PARAM">>,
                   <<unsupported, "ALGORITHM_NOT_SUPPORTED">>,
                   <<short, "INVALID_PARAM">>,
                   <<smallPk, "BUFFER_TOO_SMALL">>,
                   <<smallCt, "BUFFER_TOO_SMALL">>,
                   <<smallSs, "BUFFER_TOO_SMALL">> >>)
    BY Zenon DEF Unsupported, NullPointer, TooSmall
  <2> HIDE DEF null, unsupported, short, smallPk, smallCt, smallSs, error
  <2>3. FirstError(
                << <<null, "INVALID_PARAM">>,
                   <<unsupported, "ALGORITHM_NOT_SUPPORTED">>,
                   <<short, "INVALID_PARAM">>,
                   <<smallPk, "BUFFER_TOO_SMALL">>,
                   <<smallCt, "BUFFER_TOO_SMALL">>,
                   <<smallSs, "BUFFER_TOO_SMALL">> >>)
        = Else(null, "INVALID_PARAM", Else(unsupported, "ALGORITHM_NOT_SUPPORTED",
            Else(short, "INVALID_PARAM", Else(smallPk, "BUFFER_TOO_SMALL",
            Else(smallCt, "BUFFER_TOO_SMALL", Else(smallSs, "BUFFER_TOO_SMALL", "SUCCESS"))))))
    BY <2>1, FirstOf6
  <2> QED
    BY <2>2, <2>3 DEF Else
<1>2. /\ in.len \in Nat /\ in.pk \in Nat /\ in.ss \in Nat
      /\ p.pk \in Nat /\ p.ct \in Nat /\ Curve \in Nat /\ Curve > 0 /\ required \in Nat
  BY GivenIs, ParamsAre, PqcAssumption
<1> HIDE DEF error, p
<1>3. CASE error # "SUCCESS"
  <2>1. error \in Errors \ {"RNG_FAILURE"}
    BY <1>1, <1>3 DEF Errors
  <2>2. call = [op |-> "hybrid_encapsulate", algo |-> algo, in |-> in, result |-> Rejected(error, len)]
    BY <1>3, Zenon DEF pqc_hybrid_encapsulate, error, p
  <2>3. len \in Nat
    BY <1>2
  <2> HIDE DEF len
  <2> QED
    BY <2>1, <2>2, <2>3, RejectedIsSound, Zenon
<1>4. CASE error = "SUCCESS"
  <2>1. in.len >= required /\ in.ss >= Curve
    BY <1>1, <1>2, <1>4
  <2>2. call.result = Result("SUCCESS", Zeros(required), Zeros(Curve), required)
    BY <1>4, Zenon DEF pqc_hybrid_encapsulate, error, p
  <2>3. /\ Zeros(required).written = required /\ Zeros(Curve).written = Curve
        /\ Zeros(required).content = <<"zero">> /\ Zeros(Curve).content = <<"zero">>
    BY DEF Zeros
  <2>4. required > 0
    BY <1>2
  <2> DEFINE a == Zeros(required)
             b == Zeros(Curve)
  <2> HIDE DEF required, a, b
  <2>5. /\ call.op = "hybrid_encapsulate" /\ call.in = in /\ call.algo = algo
        /\ call.result.ret = "SUCCESS" /\ call.result.a = a
        /\ call.result.b = b /\ call.result.len = required
    BY <2>2 DEF Result, a, b
  <2>6. Outputs(call) = {<<a, in.len>>, <<b, in.ss>>}
    BY <2>5 DEF Outputs
  <2>7. Whole(<<a, in.len>>, "SUCCESS") /\ Whole(<<b, in.ss>>, "SUCCESS")
    <3>1. a.written <= in.len /\ b.written <= in.ss /\ a.written > 0 /\ b.written > 0
      BY <1>2, <2>1, <2>3, <2>4 DEF a, b
    <3>2. a.content \in {<<"random">>, <<"zero">>} /\ b.content \in {<<"random">>, <<"zero">>}
      BY <2>3, Zenon DEF a, b
    <3> QED
      BY <3>1, <3>2, WholeIs
  <2> QED
    BY <1>2, <2>5, <2>6, <2>7, PassedIsSound
<1> QED
  BY <1>3, <1>4

LEMMA HybridDecapsulateIsSound ==
  ASSUME NEW algo, NEW in \in Given({"sk", "len", "ss"}), NEW broken,
         NEW call, call = [op |-> "hybrid_decapsulate", algo |-> algo, in |-> in,
                           result |-> pqc_hybrid_decapsulate(algo, in, broken)]
  PROVE  Sound(call)
<1> DEFINE p == Params(algo)
           null == in.null
           unsupported == ~Supported(algo)
           shortSk == in.sk < Curve
           shortCt == in.len < Curve + p.ct
           smallSs == in.ss < Curve
           error == FirstError(<<NullPointer(in), Unsupported(algo), <<shortSk, "INVALID_PARAM">>,
                                <<shortCt, "INVALID_PARAM">>, TooSmall(smallSs)>>)
           sizes == <<Curve>>
           stop == Stop(sizes, broken)
           b == Fill(1, sizes, stop)
           ret == Outcome(sizes, stop)
<1>1. error = IF null THEN "INVALID_PARAM"
              ELSE IF unsupported THEN "ALGORITHM_NOT_SUPPORTED"
              ELSE IF shortSk THEN "INVALID_PARAM"
              ELSE IF shortCt THEN "INVALID_PARAM"
              ELSE IF smallSs THEN "BUFFER_TOO_SMALL" ELSE "SUCCESS"
  <2>1. null \in BOOLEAN /\ unsupported \in BOOLEAN /\ shortSk \in BOOLEAN /\ shortCt \in BOOLEAN /\ smallSs \in BOOLEAN
    <3>1. null \in BOOLEAN /\ unsupported \in BOOLEAN
      BY GivenIs, Zenon
    <3>2. shortSk \in BOOLEAN /\ shortCt \in BOOLEAN /\ smallSs \in BOOLEAN
      OBVIOUS
    <3> QED
      BY <3>1, <3>2, Zenon
  <2>2. error = FirstError(
                << <<null, "INVALID_PARAM">>,
                   <<unsupported, "ALGORITHM_NOT_SUPPORTED">>,
                   <<shortSk, "INVALID_PARAM">>,
                   <<shortCt, "INVALID_PARAM">>,
                   <<smallSs, "BUFFER_TOO_SMALL">> >>)
    BY Zenon DEF Unsupported, NullPointer, TooSmall
  <2> HIDE DEF null, unsupported, shortSk, shortCt, smallSs, error
  <2>3. FirstError(
                << <<null, "INVALID_PARAM">>,
                   <<unsupported, "ALGORITHM_NOT_SUPPORTED">>,
                   <<shortSk, "INVALID_PARAM">>,
                   <<shortCt, "INVALID_PARAM">>,
                   <<smallSs, "BUFFER_TOO_SMALL">> >>)
        = Else(null, "INVALID_PARAM", Else(unsupported, "ALGORITHM_NOT_SUPPORTED",
            Else(shortSk, "INVALID_PARAM", Else(shortCt, "INVALID_PARAM",
            Else(smallSs, "BUFFER_TOO_SMALL", "SUCCESS")))))
    BY <2>1, FirstOf5
  <2> QED
    BY <2>2, <2>3 DEF Else
<1>2. in.len \in Nat /\ in.ss \in Nat /\ Curve \in Nat /\ Curve > 0
  BY GivenIs, PqcAssumption
<1> HIDE DEF error, p, stop
<1>3. CASE error # "SUCCESS"
  <2>1. error \in Errors \ {"RNG_FAILURE"}
    BY <1>1, <1>3 DEF Errors
  <2>2. call = [op |-> "hybrid_decapsulate", algo |-> algo, in |-> in, result |-> Rejected(error, in.len)]
    BY <1>3, Zenon DEF pqc_hybrid_decapsulate, error, p
  <2> QED
    BY <1>2, <2>1, <2>2, RejectedIsSound, Zenon
<1>4. CASE error = "SUCCESS"
  <2>1. in.ss >= Curve
    BY <1>1, <1>2, <1>4
  <2>2. stop \in 1 .. 2
    <3>1. DOMAIN sizes = 1 .. 1 /\ Len(sizes) = 1 /\ 1 \in Nat /\ 1 + 1 = 2
      OBVIOUS
    <3> HIDE DEF sizes
    <3>2. stop \in 1 .. 1 + 1
      BY <3>1, StopIs, Zenon DEF stop, sizes
    <3> QED
      BY <3>1, <3>2, Zenon
  <2>3. call.result = Result(ret, Untouched, b, in.len)
    BY <1>4, Zenon DEF pqc_hybrid_decapsulate, error, p, stop
  <2>4. /\ b.written \in {0, Curve}
        /\ 1 < stop => b.written = Curve /\ b.content = <<"random">>
    BY <1>2, <2>2, FillIs
  <2>5. ret = IF stop <= 1 THEN "RNG_FAILURE" ELSE "SUCCESS"
    BY DEF Outcome
  <2> HIDE DEF b, ret
  <2>6. /\ call.op = "hybrid_decapsulate" /\ call.in = in /\ call.algo = algo
        /\ call.result.ret = ret /\ call.result.b = b /\ call.result.len = in.len
    BY <2>3 DEF Result
  <2>7. Outputs(call) = {<<b, in.ss>>}
    BY <2>6 DEF Outputs
  <2>8. Whole(<<b, in.ss>>, ret)
    <3>1. b.written <= in.ss
      BY <1>2, <2>1, <2>4
    <3>2. ret = "SUCCESS" => b.written > 0 /\ b.content \in {<<"random">>, <<"zero">>}
      BY <1>2, <2>2, <2>4, <2>5
    <3> QED
      BY <3>1, <3>2, WholeIs
  <2> QED
    BY <1>2, <2>2, <2>5, <2>6, <2>7, <2>8, PassedIsSound
<1> QED
  BY <1>3, <1>4

\* The invariant: what is known of a call is known of the last one.
PqcSound == pqc_last.op # "none" => Sound(pqc_last)

(* Every call of the stub, whatever it is given and wherever randomness fails. *)
LEMMA PqcNextIsSound == PqcNext => PqcSound'
<1> SUFFICES ASSUME PqcNext PROVE PqcSound'
  OBVIOUS
<1>1. CASE PqcReturn
  BY <1>1 DEF PqcReturn, PqcSound
<1>2. ASSUME NEW op, NEW algo, NEW in, NEW result, PqcCall(op, algo, in, result),
             \A call : call = [op |-> op, algo |-> algo, in |-> in, result |-> result]
                          => Sound(call)
      PROVE  PqcSound'
  BY <1>2, Zenon DEF PqcCall, PqcSound
<1>3. ASSUME NEW algo, NEW broken, NEW in \in Given({"pk", "sk"}),
             PqcCall("keygen", algo, in, pqc_keygen(algo, in, broken))
      PROVE  PqcSound'
  BY <1>2, <1>3, KeygenIsSound, Zenon
<1>4. ASSUME NEW algo, NEW broken, NEW in \in Given({"pk", "len", "ss"}),
             PqcCall("encapsulate", algo, in, pqc_encapsulate(algo, in, broken))
      PROVE  PqcSound'
  BY <1>2, <1>4, EncapsulateIsSound, Zenon
<1>5. ASSUME NEW algo, NEW broken, NEW in \in Given({"sk", "len", "ss"}),
             PqcCall("decapsulate", algo, in, pqc_decapsulate(algo, in, broken))
      PROVE  PqcSound'
  BY <1>2, <1>5, DecapsulateIsSound, Zenon
<1>6. ASSUME NEW algo, NEW broken, NEW in \in Given({"sk", "len"}),
             PqcCall("sign", algo, in, pqc_sign(algo, in, broken))
      PROVE  PqcSound'
  BY <1>2, <1>6, SignIsSound, Zenon
<1>7. ASSUME NEW algo, NEW broken, NEW in \in Given({"pk", "len"}),
             PqcCall("verify", algo, in, pqc_verify(algo, in, broken))
      PROVE  PqcSound'
  BY <1>2, <1>7, VerifyIsSound, Zenon
<1>8. ASSUME NEW algo, NEW broken, NEW in \in Given({}),
             PqcCall("hybrid_keygen", algo, in, pqc_hybrid_keygen(algo, in, broken))
      PROVE  PqcSound'
  BY <1>2, <1>8, HybridKeygenIsSound, Zenon
<1>9. ASSUME NEW algo, NEW broken, NEW in \in Given({"pk", "len", "ss"}),
             PqcCall("hybrid_encapsulate", algo, in, pqc_hybrid_encapsulate(algo, in, broken))
      PROVE  PqcSound'
  BY <1>2, <1>9, HybridEncapsulateIsSound, Zenon
<1>10. ASSUME NEW algo, NEW broken, NEW in \in Given({"sk", "len", "ss"}),
             PqcCall("hybrid_decapsulate", algo, in, pqc_hybrid_decapsulate(algo, in, broken))
      PROVE  PqcSound'
  BY <1>2, <1>10, HybridDecapsulateIsSound, Zenon
<1> QED
  BY <1>1, <1>3, <1>4, <1>5, <1>6, <1>7, <1>8, <1>9, <1>10, Zenon DEF PqcNext

(* Success means complete: a call of the post-quantum stub that returns success
   has filled every buffer it was to fill, within the room stated for it, for an
   algorithm of the right kind; a call that fails has written nothing unless
   randomness failed: for every table of sizes and every length (pqc.c). *)
THEOREM PqcSuccessIsComplete == PqcSpec => [](SuccessIsComplete /\ PqcTypeOK)
<1>1. PqcInit => PqcSound
  BY DEF PqcInit, PqcSound
<1>2. PqcSound /\ [PqcNext]_pqcVars => PqcSound'
  BY PqcNextIsSound DEF pqcVars, PqcSound
<1>3. PqcSound => SuccessIsComplete /\ PqcTypeOK
  BY DEF PqcSound, Sound, Whole, SuccessIsComplete, PqcTypeOK
<1> QED
  BY <1>1, <1>2, <1>3, PTL DEF PqcSpec

-----------------------------------------------------------------------------
(* The field: its numbers *)

LEMMA FieldIs ==
  /\ gfTop \in Nat /\ gfTop > 0 /\ FieldLimbs = gfTop + 1 /\ gfIndex = 0 .. gfTop
  /\ FieldRadix \in Nat /\ FieldRadix > 1
  /\ FieldRadix \div 2 \in Nat /\ FieldRadix = 2 * (FieldRadix \div 2)
  /\ Less \in Nat /\ Less > 0 /\ Less <= FieldRadix /\ Fold = 2 * Less /\ Fold \in Nat
  /\ MaxSums \in Nat
BY Field25519Assumption DEF gfTop, gfIndex, Fold

LEMMA gfPowerIs == Powers(gfTop, FieldRadix, gfPower)
<1>1. gfPower = Geometric(FieldLimbs, 1, FieldRadix)
  BY Zenon DEF gfPower, Geometric
<1>2. FieldLimbs \in Nat /\ 1 \in Nat \ {0} /\ FieldRadix \in Nat \ {0}
  BY FieldIs
<1> DEFINE g == Geometric(FieldLimbs, 1, FieldRadix)
<1>3. /\ g[0] = 1 /\ \A j \in 1 .. FieldLimbs : g[j] = FieldRadix * g[j - 1]
      /\ \A j \in 0 .. FieldLimbs : g[j] \in Nat \ {0}
  BY <1>2, GeometricIs
<1> HIDE DEF g
<1>4. \A j \in 0 .. gfTop :
          j \in 0 .. FieldLimbs /\ j + 1 \in 1 .. FieldLimbs /\ j + 1 \in 0 .. FieldLimbs
          /\ (j + 1) - 1 = j
  BY FieldIs
<1>5. gfPower = g
  BY <1>1 DEF g
<1>6. \A j \in 0 .. gfTop : /\ g[j] \in Nat \ {0} /\ g[j + 1] \in Nat \ {0}
                            /\ g[j + 1] = FieldRadix * g[j]
  BY <1>3, <1>4, Zenon
<1> QED
  BY <1>3, <1>5, <1>6, FieldIs, Zenon DEF Powers

LEMMA gfPowers ==
  \A j \in 0 .. gfTop : gfPower[j] \in Nat \ {0} /\ gfPower[j] \in Nat
                       /\ gfPower[j + 1] = FieldRadix * gfPower[j]
<1>1. \A p \in Nat \ {0} : p \in Nat
  OBVIOUS
<1> QED
  BY <1>1, gfPowerIs, Zenon DEF Powers

LEMMA WidestIs ==
  /\ Widest[0] = FieldRadix + Fold
  /\ \A s \in 1 .. MaxSums : Widest[s] = 2 * Widest[s - 1]
  /\ \A s \in 0 .. MaxSums : Widest[s] \in Nat /\ Widest[s] <= Widest[MaxSums]
  /\ \A r, s \in 0 .. MaxSums : r <= s => Widest[r] <= Widest[s]
  /\ Widest[MaxSums] >= FieldRadix + Fold
<1>1. Widest = Geometric(MaxSums, FieldRadix + Fold, 2)
  BY Zenon DEF Widest, Geometric
<1>2. MaxSums \in Nat /\ FieldRadix + Fold \in Nat \ {0} /\ 2 \in Nat \ {0}
  BY FieldIs
<1> DEFINE first == FieldRadix + Fold
           g == Geometric(MaxSums, first, 2)
<1>3. first \in Nat \ {0}
  BY <1>2
<1> HIDE DEF first
<1>4. /\ g[0] = first /\ \A j \in 1 .. MaxSums : g[j] = 2 * g[j - 1]
      /\ \A j \in 0 .. MaxSums : g[j] \in Nat \ {0}
  BY <1>2, <1>3, GeometricIs
<1> HIDE DEF g
<1> DEFINE S == {k \in 0 .. MaxSums : \A j \in 0 .. MaxSums : j <= k => g[j] <= g[k]}
<1>5. 0 \in S
  BY <1>2, <1>4
<1>6. ASSUME NEW k \in 0 .. MaxSums - 1, k \in S PROVE k + 1 \in S
  <2>1. k + 1 \in 1 .. MaxSums /\ (k + 1) - 1 = k /\ k \in 0 .. MaxSums /\ k + 1 \in 0 .. MaxSums
    BY <1>2
  <2>2. g[k + 1] = 2 * g[k]
    BY <1>4, <2>1, Zenon
  <2>3. ASSUME NEW j \in 0 .. MaxSums, j <= k + 1 PROVE g[j] <= g[k + 1]
    <3>1. g[j] \in Nat /\ g[k] \in Nat
      BY <1>4, <2>1
    <3>2. CASE j <= k
      <4>1. g[j] <= g[k]
        BY <1>6, <3>2
      <4> QED
        BY <2>2, <3>1, <4>1
    <3>3. CASE j = k + 1
      BY <2>2, <3>1, <3>3
    <3> QED
      BY <2>1, <2>3, <3>2, <3>3
  <2> QED
    BY <2>1, <2>3
<1> HIDE DEF S
<1>7. \A k \in 0 .. MaxSums : k \in S
  BY <1>2, <1>5, <1>6, UpTo, Zenon
<1>8. MaxSums \in 0 .. MaxSums /\ 0 \in 0 .. MaxSums
  BY <1>2
<1>9. MaxSums \in S
  BY <1>7, <1>8, Zenon
<1>10. \A s \in 0 .. MaxSums : g[s] \in Nat /\ g[s] <= g[MaxSums]
  BY <1>4, <1>8, <1>9 DEF S
<1>11. \A r, s \in 0 .. MaxSums : r <= s => g[r] <= g[s]
  BY <1>7 DEF S
<1>12. g[MaxSums] >= first
  BY <1>4, <1>8, <1>10
<1>13. Widest = g
  BY <1>1 DEF g, first
<1> QED
  BY <1>4, <1>10, <1>12, <1>13, <1>11, Zenon DEF first

LEMMA gfSumIs == ASSUME NEW f PROVE gfSum(f) = SumTo(gfTop, f)
  BY Zenon DEF gfSum, SumTo, gfIndex, gfTop

\* What limbs stand for.
gfIs(x) == ValueIn(gfTop, gfPower, x)

LEMMA gfValueIs == ASSUME NEW x PROVE gfValue(x) = gfIs(x)
  BY gfSumIs, Zenon DEF gfValue, gfIs, ValueIn, gfIndex, gfTop

LEMMA gfType == ASSUME NEW x \in [gfIndex -> Int] PROVE gfIs(x) \in Int
<1>1. x \in [0 .. gfTop -> Int]
  BY FieldIs, Zenon
<1> QED
  BY <1>1, gfPowerIs, ValueInType, Zenon DEF gfIs

(* Room for the products: C is more than what is ever carried out of a number. *)
Roomy(C) ==
    /\ C \in Nat
    /\ FieldLimbs * (Fold * (Widest[MaxSums] * Widest[MaxSums])) <= (FieldRadix - 1) * C
    /\ Widest[MaxSums] <= (FieldRadix - 1) * C
    /\ Fold * (C + 1) <= gfPower[FieldLimbs]

LEMMA RoomIs ==
  /\ \E C : Roomy(C)
  /\ gfPower[FieldLimbs] \in Nat /\ gfPower[FieldLimbs] = 2 * p25519 + Fold
  /\ p25519 \in Nat \ {0} /\ Fold < p25519
<1> DEFINE W == Widest[MaxSums]
           B == FieldLimbs * (Fold * (W * W))
           r == FieldRadix - 1
           C == (B \div r) + 1
           P == gfPower[FieldLimbs]
           h == FieldRadix \div 2
           q == gfPower[gfTop]
<1>1. W \in Nat /\ W >= FieldRadix + Fold /\ W >= 4
  BY WidestIs, FieldIs
<1>2. r \in Nat /\ r > 0 /\ r < W /\ Fold \in Nat /\ Fold >= 2 /\ FieldLimbs \in Nat
      /\ FieldLimbs >= 2
  BY <1>1, FieldIs
<1>3. q \in Nat /\ P = FieldRadix * q /\ FieldRadix = 2 * h /\ h \in Nat
  <2>1. gfTop \in 0 .. gfTop /\ FieldLimbs = gfTop + 1 /\ FieldRadix = 2 * h /\ h \in Nat
    BY FieldIs
  <2>2. gfPower[gfTop] \in Nat /\ gfPower[gfTop + 1] = FieldRadix * gfPower[gfTop]
    <3>1. \A j \in 0 .. gfTop : gfPower[j] \in Nat /\ gfPower[j + 1] = FieldRadix * gfPower[j]
      BY gfPowers, Zenon
    <3>2. gfTop \in 0 .. gfTop
      BY FieldIs
    <3> QED
      BY <3>1, <3>2, Zenon
  <2> QED
    BY <2>1, <2>2, Zenon
<1>4. Fold * ((B \div r) + 2) <= P
  BY Field25519Assumption, Zenon
<1> HIDE DEF W, q, h
<1>5. B \in Nat /\ W * W <= B
  <2>1. W * W \in Nat
    BY <1>1
  <2> DEFINE s == W * W
  <2> HIDE DEF s
  <2>2. Fold * s \in Nat /\ Fold * s >= s
    BY <1>2, <2>1 DEF s
  <2> DEFINE t == Fold * s
  <2> HIDE DEF t
  <2>3. FieldLimbs * t \in Nat /\ FieldLimbs * t >= t
    BY <1>2, <2>2 DEF t
  <2> QED
    BY <2>1, <2>2, <2>3 DEF s, t
<1> HIDE DEF r, B
<1>6. B \div r \in Nat /\ B <= r * ((B \div r) + 1)
  <2> DEFINE e == B \div r
             d == B % r
  <2>1. e \in Int /\ d \in 0 .. r - 1 /\ B = r * e + d /\ e \in Nat
    BY <1>2, <1>5
  <2> HIDE DEF e, d
  <2>2. r * (e + 1) = r * e + r /\ r * e \in Int
    BY <1>2, <2>1
  <2>3. B <= r * (e + 1)
    BY <1>2, <2>1, <2>2
  <2> QED
    BY <2>1, <2>3 DEF e
<1> HIDE DEF C
<1>7. C \in Nat /\ B <= r * C /\ Fold * (C + 1) <= P
  <2> DEFINE e == B \div r
  <2>1. e \in Nat /\ C = e + 1 /\ B <= r * (e + 1) /\ Fold * (e + 2) <= P
    BY <1>4, <1>6 DEF C
  <2> HIDE DEF e
  <2> QED
    BY <2>1
<1>8. C >= 4 /\ W <= r * C
  <2>1. W * W >= 4 * W /\ W * W \in Nat
    BY <1>1
  <2>2. r * C \in Nat
    BY <1>2, <1>7
  <2>3. r * C >= 4 * W
    BY <1>1, <1>5, <1>7, <2>1, <2>2
  <2>4. C >= 4
    <3> SUFFICES ASSUME C <= 3 PROVE FALSE
      BY <1>7
    <3>1. r * C <= 3 * r
      BY <1>2, <1>7
    <3> QED
      BY <1>1, <1>2, <2>2, <2>3, <3>1
  <2> QED
    BY <1>1, <2>2, <2>3, <2>4
<1>9. Roomy(C)
  BY <1>7, <1>8, Zenon DEF Roomy, W, B, r
<1>10. P \in Nat /\ P >= 4 * Fold
  <2>1. P \in Nat
    <3>1. FieldRadix \in Nat
      BY FieldIs
    <3> QED
      BY <1>3, <3>1
  <2>2. Fold * (C + 1) = Fold * C + Fold /\ Fold * C \in Nat
    BY <1>2, <1>7
  <2>3. Fold * C >= Fold * 4
    <3>1. PICK e \in Nat : C = 4 + e
      <4>1. C - 4 \in Nat /\ C = 4 + (C - 4)
        BY <1>7, <1>8
      <4> QED
        BY <4>1
    <3>2. Fold * C = Fold * 4 + Fold * e /\ Fold * e \in Nat
      BY <1>2, <3>1
    <3> QED
      BY <1>2, <3>2
  <2> HIDE DEF P
  <2> QED
    BY <1>2, <1>7, <2>1, <2>2, <2>3
<1>11. P = 2 * (h * q) /\ h * q \in Nat
  BY <1>3
<1> HIDE DEF P
<1> DEFINE g == h * q
<1>12. g \in Nat /\ P = 2 * g
  BY <1>11
<1> HIDE DEF g
<1>13. P \div 2 = g
  BY <1>12
<1>14. p25519 = g - Less
  BY <1>13 DEF p25519, P
<1>15. Less \in Nat /\ Less > 0 /\ Fold = 2 * Less
  BY FieldIs
<1> QED
  BY <1>9, <1>10, <1>12, <1>14, <1>15 DEF P

LEMMA FoldWraps == Wraps(gfTop, gfPower, Fold, p25519)
<1> DEFINE P == gfPower[FieldLimbs]
<1>1. /\ P \in Int /\ P = 2 * p25519 + Fold /\ p25519 \in Int /\ Fold \in Int
      /\ FieldLimbs = gfTop + 1
  BY RoomIs, FieldIs
<1> HIDE DEF P
<1>2. Fold = P + (-2) * p25519 /\ -2 \in Int
  BY <1>1
<1> QED
  BY <1>1, <1>2, Zenon DEF Wraps, Congruent, P
-----------------------------------------------------------------------------
(* The field: carrying *)

(* The digits that a chain of carries leaves, and what it carries off the top. *)
DigitsOf(u) == [i \in 0 .. gfTop |-> u[i] % FieldRadix]
CarriedOff(u) == u[gfTop] \div FieldRadix

LEMMA DigitsOfAre ==
  ASSUME NEW o \in [gfIndex -> Int], NEW u, Carries(gfTop, FieldRadix, o, 0, u)
  PROVE  /\ DigitsOf(u) \in [gfIndex -> Int]
         /\ \A j \in gfIndex : DigitsOf(u)[j] \in 0 .. FieldRadix - 1
         /\ CarriedOff(u) \in Int /\ u[gfTop] \in Int
         /\ u[gfTop] = FieldRadix * CarriedOff(u) + DigitsOf(u)[gfTop]
         /\ gfIs(DigitsOf(u)) \in Int /\ gfIs(o) \in Int
         /\ 0 <= gfIs(DigitsOf(u)) /\ gfIs(DigitsOf(u)) < gfPower[FieldLimbs]
         /\ gfIs(DigitsOf(u)) + CarriedOff(u) * gfPower[FieldLimbs] = gfIs(o)
<1> DEFINE R == FieldRadix
           w == [i \in 0 .. gfTop |-> u[i] % R]
           q == u[gfTop] \div R
<1>1. /\ gfTop \in Nat /\ gfTop > 0 /\ R \in Nat /\ R > 1 /\ R \in Nat \ {0} /\ Fold \in Int
      /\ 0 \in Int /\ gfIndex = 0 .. gfTop /\ FieldLimbs = gfTop + 1
  BY FieldIs
<1>2. o \in [0 .. gfTop -> Int]
  BY <1>1, Zenon
<1>3. Carries(gfTop, R, o, 0, u)
  OBVIOUS
<1>4. \A i \in 0 .. gfTop : u[i] \in Int
  BY <1>3 DEF Carries
<1>5. \A v \in Int : /\ v \div R \in Int /\ v % R \in 0 .. R - 1 /\ v % R \in Int
                   /\ v = R * (v \div R) + (v % R)
  <2> HIDE DEF R
  <2> QED
    BY <1>1
<1>6. 0 \in 0 .. gfTop /\ gfTop \in 0 .. gfTop /\ \A j \in 1 .. gfTop : j \in 0 .. gfTop /\ j # 0
  BY <1>1
<1>7. \A j \in 0 .. gfTop - 1 : j \in 0 .. gfTop
  BY <1>1
<1>8. q \in Int /\ u[gfTop] = R * q + w[gfTop] /\ w[gfTop] \in Int
  BY <1>4, <1>5, <1>6, Zenon
<1>9. w \in [0 .. gfTop -> Int] /\ \A j \in 0 .. gfTop : w[j] \in 0 .. R - 1 /\ w[j] = u[j] % R
  BY <1>4, <1>5, Zenon
<1>10. CarriedIn(gfTop, R, u, w)
  BY <1>7, <1>9, Zenon DEF CarriedIn
<1>11. ValueIn(gfTop, gfPower, w) + (u[gfTop] - w[gfTop]) * gfPower[gfTop]
           = ValueIn(gfTop, gfPower, o) + 0
  BY <1>1, <1>2, <1>3, <1>10, gfPowerIs, CarriedValue
<1>12. gfIs(w) \in Int /\ gfIs(o) \in Int
  BY <1>1, <1>2, <1>9, gfType, Zenon
<1>13. gfIs(w) \in 0 .. gfPower[gfTop + 1] - 1
  BY <1>9, gfPowerIs, ValueInDigits, Zenon DEF gfIs
<1> HIDE DEF w, q
<1>14. gfPower[gfTop + 1] = R * gfPower[gfTop] /\ gfPower[gfTop] \in Nat
  BY <1>6, gfPowers, Zenon
<1>15. gfIs(w) + q * gfPower[gfTop + 1] = gfIs(o)
  <2> DEFINE P == gfPower[gfTop]
             v == gfIs(w)
             z == gfIs(o)
             d == w[gfTop]
             e == u[gfTop]
  <2>1. v + (e - d) * P = z + 0 /\ e = R * q + d /\ d \in Int /\ q \in Int /\ P \in Nat /\ R \in Nat
        /\ v \in Int /\ z \in Int
    BY <1>1, <1>8, <1>11, <1>12, <1>14, Zenon DEF gfIs
  <2>2. v + q * (R * P) = z
    <3> HIDE DEF P, v, z, d, e, R
    <3>1. e - d = R * q /\ R * q \in Int
      BY <2>1
    <3>2. (R * q) * P = q * (R * P)
      BY <2>1
    <3>3. v + q * (R * P) = z + 0
      BY <2>1, <3>1, <3>2
    <3> QED
      BY <2>1, <3>3
  <2> QED
    BY <1>14, <2>2, Zenon
<1>16. gfPower[FieldLimbs] = gfPower[gfTop + 1] /\ gfPower[FieldLimbs] \in Nat
  BY <1>1, RoomIs, Zenon
<1>17. 0 <= gfIs(w) /\ gfIs(w) < gfPower[FieldLimbs]
  BY <1>13, <1>16
<1>18. gfIs(w) + q * gfPower[FieldLimbs] = gfIs(o)
  BY <1>15, <1>16, Zenon
<1> QED
  BY <1>1, <1>4, <1>6, <1>8, <1>9, <1>12, <1>17, <1>18, Zenon DEF DigitsOf, CarriedOff, w, q

(* A round of carrying: y has the digits of o but for what q carries from the top
   back to the bottom. *)
CarryRound(o, w, q, y) ==
    /\ w \in [gfIndex -> Int] /\ \A j \in gfIndex : w[j] \in 0 .. FieldRadix - 1
    /\ q \in Int
    /\ gfIs(w) \in Int /\ gfIs(o) \in Int
    /\ 0 <= gfIs(w) /\ gfIs(w) < gfPower[FieldLimbs]
    /\ gfIs(w) + q * gfPower[FieldLimbs] = gfIs(o)
    /\ y \in [gfIndex -> Int]
    /\ y[0] = w[0] + Fold * q /\ \A j \in 1 .. gfTop : y[j] = w[j]
    /\ gfIs(y) = gfIs(w) + Fold * q

LEMMA CarIs ==
  ASSUME NEW o \in [gfIndex -> Int]
  PROVE  \E w, q :
            /\ CarryRound(o, w, q, car25519(o))
            /\ \A B, C \in Nat :
                  B <= (FieldRadix - 1) * C /\ (\A j \in gfIndex : -B <= o[j] /\ o[j] <= B)
                  => -C <= q /\ q <= C
<1> DEFINE R == FieldRadix
           u == ChainTo(gfTop, R, o, 0)
           w == DigitsOf(u)
           q == CarriedOff(u)
           y == [i \in 0 .. gfTop |-> (u[i] % R) + IF i = 0 THEN Fold * (u[gfTop] \div R) ELSE 0]
<1>1. car25519(o) = y
  BY Zenon DEF car25519, ChainTo, gfIndex, gfTop
<1>2. /\ gfTop \in Nat /\ gfTop > 0 /\ R \in Nat /\ R > 1 /\ R \in Nat \ {0} /\ Fold \in Int
      /\ 0 \in Int /\ gfIndex = 0 .. gfTop
  BY FieldIs
<1>3. o \in [0 .. gfTop -> Int]
  BY <1>2, Zenon
<1>4. Carries(gfTop, R, o, 0, u)
  BY <1>2, <1>3, ChainToCarries, Zenon
<1> HIDE DEF u
<1>5. 0 \in 0 .. gfTop /\ gfTop \in 0 .. gfTop /\ \A j \in 1 .. gfTop : j \in 0 .. gfTop /\ j # 0
  BY <1>2
<1> HIDE DEF q, w
<1>6. /\ w \in [gfIndex -> Int] /\ \A j \in gfIndex : w[j] \in 0 .. R - 1
      /\ q \in Int /\ gfIs(w) \in Int /\ gfIs(o) \in Int
      /\ 0 <= gfIs(w) /\ gfIs(w) < gfPower[FieldLimbs]
      /\ gfIs(w) + q * gfPower[FieldLimbs] = gfIs(o)
  BY <1>4, DigitsOfAre, Zenon DEF w, q
<1>7. y \in [0 .. gfTop -> Int] /\ y[0] = w[0] + Fold * q /\ \A j \in 1 .. gfTop : y[j] = w[j]
  <2>1. \A j \in 0 .. gfTop : y[j] = w[j] + IF j = 0 THEN Fold * q ELSE 0
    BY DEF w, q, DigitsOf, CarriedOff
  <2>2. \A j \in 0 .. gfTop : w[j] \in Int
    BY <1>2, <1>6
  <2>3. DOMAIN y = 0 .. gfTop /\ y = [i \in 0 .. gfTop |-> y[i]]
    OBVIOUS
  <2> HIDE DEF y
  <2>4. Fold * q \in Int
    BY <1>2, <1>6, Product
  <2>5. \A j \in 0 .. gfTop : y[j] \in Int
    BY <2>1, <2>2, <2>4
  <2>6. y \in [0 .. gfTop -> Int]
    BY <2>3, <2>5, Zenon
  <2>7. y[0] = w[0] + Fold * q
    BY <1>5, <2>1, Zenon
  <2>8. \A j \in 1 .. gfTop : y[j] = w[j]
    <3> TAKE j \in 1 .. gfTop
    <3>1. y[j] = w[j] + 0 /\ w[j] \in Int
      BY <1>5, <2>1, <2>2, Zenon
    <3> QED
      BY <3>1
  <2> QED
    BY <2>6, <2>7, <2>8
<1> HIDE DEF y
<1>8. Fold * q \in Int
  BY <1>2, <1>6, Product
<1>9. gfIs(y) = gfIs(w) + Fold * q
  <2> DEFINE e == Fold * q
  <2>1. e \in Int /\ w \in [0 .. gfTop -> Int] /\ y \in [0 .. gfTop -> Int]
        /\ y[0] = w[0] + e /\ \A j \in 1 .. gfTop : y[j] = w[j]
    BY <1>2, <1>6, <1>7, <1>8, Zenon
  <2> HIDE DEF e
  <2>2. ValueIn(gfTop, gfPower, y) = ValueIn(gfTop, gfPower, w) + e
    BY <2>1, gfPowerIs, ValueInLow
  <2> QED
    BY <2>2, Zenon DEF gfIs, e
<1>10. CarryRound(o, w, q, y)
  <2>1. y \in [gfIndex -> Int]
    BY <1>2, <1>7, Zenon
  <2> QED
    BY <1>6, <1>7, <1>9, <2>1, Zenon DEF CarryRound
<1>11. ASSUME NEW B \in Nat, NEW C \in Nat, B <= (R - 1) * C,
              \A j \in 0 .. gfTop : -B <= o[j] /\ o[j] <= B
       PROVE  -C <= q /\ q <= C
  BY <1>2, <1>3, <1>4, <1>5, <1>11, CarryBound, Zenon DEF q, CarriedOff
<1> QED
  BY <1>1, <1>2, <1>10, <1>11, Zenon

(* What the second round carries, and that it then stays below Radix^Limbs. *)
LEMMA SecondCarry ==
  ASSUME NEW P \in Nat, NEW F \in Nat, NEW C \in Nat, F > 0, F * (C + 1) <= P,
         NEW d \in Int, 0 <= d, d < P, NEW e \in Int, 0 <= e, e < P,
         NEW q \in Int, -C <= q, q <= C, NEW r \in Int, e + r * P = d + F * q
  PROVE  /\ r \in {-1, 0, 1}
         /\ 0 <= e + F * r /\ e + F * r < P
<1>1. F * q \in Int /\ F * C \in Int /\ r * P \in Int /\ F * (C + 1) = F * C + F
  OBVIOUS
<1>2. F * q <= F * C
  <2>1. PICK a \in Nat : C = q + a
    <3>1. C - q \in Nat /\ C = q + (C - q)
      OBVIOUS
    <3> QED
      BY <3>1
  <2>2. F * C = F * q + F * a /\ F * a \in Nat
    BY <2>1
  <2> QED
    BY <1>1, <2>2
<1>3. -(F * C) <= F * q
  <2>1. PICK a \in Nat : q = a - C
    <3>1. C + q \in Nat /\ q = (C + q) - C
      OBVIOUS
    <3> QED
      BY <3>1
  <2>2. F * q = F * a - F * C /\ F * a \in Nat
    BY <2>1
  <2> QED
    BY <1>1, <2>2
<1>4. F - P <= F * q /\ F * q <= P - F
  BY <1>1, <1>2, <1>3
<1>5. r * P <= 2 * P - 1 - F /\ F + 1 - 2 * P <= r * P
  BY <1>1, <1>4
<1>6. P > 0
  OBVIOUS
<1>7. r < 2
  <2> SUFFICES ASSUME r >= 2 PROVE FALSE
    OBVIOUS
  <2>1. PICK a \in Nat : r = 2 + a
    <3>1. r - 2 \in Nat /\ r = 2 + (r - 2)
      OBVIOUS
    <3> QED
      BY <3>1
  <2>2. r * P = 2 * P + a * P /\ a * P \in Nat
    BY <2>1
  <2> QED
    BY <1>5, <2>2
<1>8. r > -2
  <2> SUFFICES ASSUME r <= -2 PROVE FALSE
    OBVIOUS
  <2>1. PICK a \in Nat : r = -2 - a
    <3>1. -2 - r \in Nat /\ r = -2 - (-2 - r)
      OBVIOUS
    <3> QED
      BY <3>1
  <2>2. r * P = -(2 * P) - a * P /\ a * P \in Nat
    BY <2>1
  <2> QED
    BY <1>5, <2>2
<1>9. CASE r = 0
  BY <1>9
<1>10. CASE r = 1
  <2>1. r * P = P /\ F * r = F
    BY <1>10
  <2> QED
    BY <1>1, <1>4, <1>10, <2>1
<1>11. CASE r = -1
  <2>1. r * P = -P /\ F * r = -F
    BY <1>11
  <2> QED
    BY <1>1, <1>4, <1>11, <2>1
<1> QED
  BY <1>7, <1>8, <1>9, <1>10, <1>11

(* Limbs that products and their sums stay within. *)
Within(B, o) == \A j \in gfIndex : -B <= o[j] /\ o[j] <= B

(* Two rounds reduce any number that is held below Radix^Limbs, to what stands for
   the same element; its limbs are those of a product. A third leaves digits only. *)
LEMMA TwoCars ==
  ASSUME NEW o \in [gfIndex -> Int], NEW C, Roomy(C), Within((FieldRadix - 1) * C, o)
  PROVE  LET z == car25519(car25519(o))
         IN  /\ z \in [gfIndex -> Int] /\ Within(Widest[0], z)
             /\ gfIs(z) \in Int /\ 0 <= gfIs(z) /\ gfIs(z) < gfPower[FieldLimbs]
             /\ Congruent(p25519, gfIs(z), gfIs(o))
             /\ car25519(z) \in [gfIndex -> Int]
             /\ \A j \in gfIndex : car25519(z)[j] \in 0 .. FieldRadix - 1
             /\ gfIs(car25519(z)) = gfIs(z)
<1> DEFINE P == gfPower[FieldLimbs]
           y == car25519(o)
           z == car25519(y)
           x == car25519(z)
           p == p25519
<1>1. /\ gfTop \in Nat /\ gfTop > 0 /\ FieldRadix \in Nat /\ FieldRadix > 1 /\ gfIndex = 0 .. gfTop
      /\ Fold \in Nat /\ Fold > 0 /\ P \in Nat /\ P = 2 * p + Fold /\ p \in Nat /\ Fold < p
  BY FieldIs, RoomIs
<1>2. C \in Nat /\ Fold * (C + 1) <= P
  BY Zenon DEF Roomy
<1>3. (FieldRadix - 1) * C \in Nat
  BY <1>1, <1>2
<1>4. PICK w1, q1 : CarryRound(o, w1, q1, y) /\ -C <= q1 /\ q1 <= C
  <2> DEFINE B == (FieldRadix - 1) * C
  <2>1. B \in Nat /\ B <= (FieldRadix - 1) * C /\ \A j \in gfIndex : -B <= o[j] /\ o[j] <= B
    BY <1>3 DEF Within
  <2> HIDE DEF B
  <2> QED
    BY <1>2, <2>1, CarIs, Zenon
<1>5. y \in [gfIndex -> Int]
  BY <1>4, Zenon DEF CarryRound
<1> HIDE DEF y
<1>6. PICK w2, q2 : CarryRound(y, w2, q2, z)
  BY <1>5, CarIs, Zenon
<1>7. z \in [gfIndex -> Int]
  BY <1>6, Zenon DEF CarryRound
<1> HIDE DEF z
<1>8. PICK w3, q3 : CarryRound(z, w3, q3, x)
  BY <1>7, CarIs, Zenon
<1> HIDE DEF x
<1>9. /\ q1 \in Int /\ q2 \in Int /\ q3 \in Int
      /\ gfIs(w1) \in Int /\ 0 <= gfIs(w1) /\ gfIs(w1) < P
      /\ gfIs(w2) \in Int /\ 0 <= gfIs(w2) /\ gfIs(w2) < P
      /\ gfIs(w3) \in Int /\ 0 <= gfIs(w3) /\ gfIs(w3) < P
      /\ gfIs(o) \in Int /\ gfIs(y) \in Int /\ gfIs(z) \in Int
      /\ gfIs(w1) + q1 * P = gfIs(o) /\ gfIs(y) = gfIs(w1) + Fold * q1
      /\ gfIs(w2) + q2 * P = gfIs(y) /\ gfIs(z) = gfIs(w2) + Fold * q2
      /\ gfIs(w3) + q3 * P = gfIs(z) /\ gfIs(x) = gfIs(w3) + Fold * q3
  BY <1>4, <1>6, <1>8, Zenon DEF CarryRound
<1>10. q2 \in {-1, 0, 1} /\ 0 <= gfIs(z) /\ gfIs(z) < P
  <2> DEFINE a == gfIs(w1)
             b == gfIs(w2)
             F == Fold
  <2>1. /\ a \in Int /\ 0 <= a /\ a < P /\ b \in Int /\ 0 <= b /\ b < P
        /\ b + q2 * P = a + F * q1 /\ gfIs(z) = b + F * q2
    BY <1>9, Zenon
  <2> HIDE DEF a, b, P, F
  <2>2. F \in Nat /\ F > 0 /\ F * (C + 1) <= P /\ P \in Nat
    BY <1>1, <1>2 DEF F
  <2>3. q2 \in {-1, 0, 1} /\ 0 <= b + F * q2 /\ b + F * q2 < P
    BY <1>2, <1>4, <1>9, <2>1, <2>2, SecondCarry
  <2> QED
    BY <2>1, <2>3, Zenon
<1>11. q3 = 0
  <2> DEFINE a == gfIs(w3)
             b == gfIs(z)
  <2>1. a \in Int /\ 0 <= a /\ a < P /\ b \in Int /\ 0 <= b /\ b < P /\ a + q3 * P = b
    BY <1>9, <1>10, Zenon
  <2>2. P \in Nat \ {0} /\ P \in Nat
    BY <1>1
  <2> HIDE DEF a, b, P
  <2>3. a \in 0 .. P - 1 /\ b \in 0 .. P - 1 /\ a + q3 * P = b /\ q3 \in Int
    BY <1>9, <2>1, <2>2
  <2>4. P * q3 + a = P * 0 + b
    BY <2>3, <2>2
  <2> QED
    BY <2>3, <2>2, <2>4, DivModUnique
<1>12. /\ w2 \in [gfIndex -> Int] /\ \A j \in gfIndex : w2[j] \in 0 .. FieldRadix - 1
       /\ z[0] = w2[0] + Fold * q2 /\ \A j \in 1 .. gfTop : z[j] = w2[j]
       /\ w3 \in [gfIndex -> Int] /\ \A j \in gfIndex : w3[j] \in 0 .. FieldRadix - 1
       /\ x \in [gfIndex -> Int] /\ x[0] = w3[0] + Fold * q3 /\ \A j \in 1 .. gfTop : x[j] = w3[j]
  BY <1>6, <1>8, Zenon DEF CarryRound
<1>13. 0 \in gfIndex /\ \A j \in gfIndex : j = 0 \/ j \in 1 .. gfTop
  BY <1>1
<1>14. Within(Widest[0], z)
  <2> DEFINE W == FieldRadix + Fold
  <2>1. Widest[0] = W
    BY WidestIs
  <2>2. ASSUME NEW j \in gfIndex PROVE -W <= z[j] /\ z[j] <= W
    <3> DEFINE d == w2[j]
    <3>1. d \in 0 .. FieldRadix - 1
      BY <1>12
    <3>2. z[j] = d \/ z[j] = d + Fold * q2
      BY <1>12, <1>13
    <3> HIDE DEF d
    <3>3. -W <= d /\ d <= W
      BY <1>1, <3>1
    <3>4. -W <= d + Fold * q2 /\ d + Fold * q2 <= W
      <4>1. Fold * q2 \in {-Fold, 0, Fold}
        BY <1>1, <1>10
      <4> QED
        BY <1>1, <3>1, <4>1
    <3> QED
      BY <3>2, <3>3, <3>4
  <2> HIDE DEF W
  <2> QED
    BY <2>1, <2>2, Zenon DEF Within
<1>15. Congruent(p, gfIs(z), gfIs(o))
  <2> DEFINE a == gfIs(z)
             b == gfIs(o)
             k == -2 * (q1 + q2)
             c == gfIs(w1)
             d == gfIs(w2)
             F == Fold
  <2>1. /\ c + q1 * P = b /\ d + q2 * P = c + F * q1 /\ a = d + F * q2
        /\ a \in Int /\ b \in Int /\ c \in Int /\ d \in Int
    BY <1>9, Zenon
  <2>2. P = 2 * p + F /\ p \in Int /\ F \in Int /\ q1 \in Int /\ q2 \in Int /\ P \in Int
    BY <1>1, <1>9
  <2>3. k \in Int
    BY <2>2
  <2>4. a = b + k * p
    <3> HIDE DEF a, b, c, d, F, P, p
    <3>1. q1 * P = 2 * (q1 * p) + F * q1 /\ q2 * P = 2 * (q2 * p) + F * q2
      BY <2>2
    <3>2. k * p = -2 * (q1 * p) - 2 * (q2 * p)
      BY <2>2
    <3>3. q1 * p \in Int /\ q2 * p \in Int /\ F * q1 \in Int /\ F * q2 \in Int
      BY <2>2
    <3> HIDE DEF k
    <3> QED
      BY <2>1, <3>1, <3>2, <3>3
  <2> QED
    BY <2>3, <2>4, Zenon DEF Congruent
<1>16. gfIs(x) = gfIs(z)
  <2> DEFINE a == gfIs(w3)
  <2>1. a \in Int /\ a + q3 * P = gfIs(z) /\ gfIs(x) = a + Fold * q3 /\ P \in Int /\ Fold \in Int
    BY <1>1, <1>9
  <2> HIDE DEF a, P
  <2>2. q3 * P = 0 /\ Fold * q3 = 0
    BY <1>11, <2>1
  <2>3. gfIs(z) = a /\ gfIs(x) = a
    BY <2>1, <2>2
  <2> QED
    BY <2>3, Zenon
<1>17. \A j \in gfIndex : x[j] \in 0 .. FieldRadix - 1
  <2> TAKE j \in gfIndex
  <2> DEFINE d == w3[j]
  <2>1. d \in 0 .. FieldRadix - 1
    BY <1>12
  <2>2. x[j] = d \/ x[j] = d + Fold * q3
    BY <1>12, <1>13
  <2> HIDE DEF d
  <2>3. d + Fold * q3 = d
    BY <1>1, <1>11, <2>1
  <2> QED
    BY <2>1, <2>2, <2>3
<1> QED
  BY <1>7, <1>9, <1>10, <1>12, <1>14, <1>15, <1>16, <1>17, Zenon DEF x, y, z
-----------------------------------------------------------------------------
(* The field: what packing subtracts *)

(* The limbs of the code are those of p. *)
LEMMA p25519LimbsAre ==
  /\ p25519Limbs \in [gfIndex -> Int]
  /\ \A j \in gfIndex : p25519Limbs[j] \in 0 .. FieldRadix - 1
  /\ gfIs(p25519Limbs) = p25519
<1> DEFINE R == FieldRadix
           h == R \div 2
           o == [j \in 0 .. gfTop |-> IF j = gfTop THEN h ELSE 0]
           m == p25519Limbs
           u == [j \in 0 .. gfTop |-> IF j = 0 THEN -Less ELSE IF j = gfTop THEN h - 1 ELSE -1]
           c == -Less
<1>1. /\ gfTop \in Nat /\ gfTop > 0 /\ R \in Nat /\ R > 1 /\ h \in Nat /\ R = 2 * h
      /\ Less \in Nat /\ Less > 0 /\ Less <= R
      /\ gfIndex = 0 .. gfTop /\ FieldLimbs = gfTop + 1
  BY FieldIs
<1> HIDE DEF h, R
<1>2. m = [j \in 0 .. gfTop |-> IF j = 0 THEN R - Less ELSE IF j = gfTop THEN h - 1 ELSE R - 1]
  BY <1>1, Zenon DEF p25519Limbs, R, h
<1>3. \A j \in 0 .. gfTop :
         /\ m[j] = IF j = 0 THEN R - Less ELSE IF j = gfTop THEN h - 1 ELSE R - 1
         /\ u[j] = IF j = 0 THEN -Less ELSE IF j = gfTop THEN h - 1 ELSE -1
         /\ o[j] = IF j = gfTop THEN h ELSE 0
  BY <1>2, Zenon
<1>4. \A j \in 0 .. gfTop : m[j] \in 0 .. R - 1 /\ m[j] \in Int /\ u[j] \in Int /\ o[j] \in Int
  <2> TAKE j \in 0 .. gfTop
  <2> HIDE DEF m, u, o
  <2>1. R - Less \in 0 .. R - 1 /\ h - 1 \in 0 .. R - 1 /\ R - 1 \in 0 .. R - 1
    BY <1>1
  <2>2. -Less \in Int /\ h - 1 \in Int /\ -1 \in Int /\ h \in Int /\ 0 \in Int
        /\ \A d \in 0 .. R - 1 : d \in Int
    BY <1>1
  <2> QED
    BY <1>3, <2>1, <2>2, Zenon
<1>5. /\ m \in [0 .. gfTop -> Int] /\ u \in [0 .. gfTop -> Int] /\ o \in [0 .. gfTop -> Int]
  BY <1>2, <1>4, Zenon
<1> HIDE DEF m, u, o
<1>6. \A j \in 1 .. gfTop : /\ j \in 0 .. gfTop /\ j # 0 /\ j - 1 \in 0 .. gfTop /\ j - 1 # gfTop
  BY <1>1
<1>7. -Less = R * (-1) + (R - Less) /\ R - Less \in 0 .. R - 1 /\ -1 = R * (-1) + (R - 1)
      /\ R - 1 \in 0 .. R - 1
      /\ R \in Nat \ {0} /\ -1 \in Int
  BY <1>1
<1>8. (-Less) \div R = -1 /\ (-Less) % R = R - Less /\ (-1) \div R = -1 /\ (-1) % R = R - 1
  <2> DEFINE a == R - Less
             b == R - 1
  <2> HIDE DEF a, b
  <2>1. a \in 0 .. R - 1 /\ b \in 0 .. R - 1 /\ -1 \in Int /\ R \in Nat \ {0}
        /\ -Less = R * (-1) + a /\ -1 = R * (-1) + b
    BY <1>7 DEF a, b
  <2>2. (R * (-1) + a) % R = a /\ (R * (-1) + a) \div R = -1
    BY <2>1, ModOf
  <2>3. (R * (-1) + b) % R = b /\ (R * (-1) + b) \div R = -1
    BY <2>1, ModOf
  <2> QED
    BY <2>1, <2>2, <2>3, Zenon DEF a, b
<1>9. Carries(gfTop, R, o, c, u)
  <2>1. 0 \in 0 .. gfTop /\ 0 # gfTop
    BY <1>1
  <2>2. u[0] = o[0] + c
    <3>1. u[0] = -Less /\ o[0] = 0
      BY <1>3, <2>1, Zenon
    <3> QED
      BY <1>1, <3>1
  <2>3. ASSUME NEW j \in 1 .. gfTop PROVE u[j] = o[j] + (u[j - 1] \div R)
    <3>1. u[j - 1] \div R = -1
      <4>1. u[j - 1] = -Less \/ u[j - 1] = -1
        BY <1>3, <1>6, Zenon
      <4> QED
        BY <1>8, <4>1, Zenon
    <3>2. u[j] = (IF j = gfTop THEN h - 1 ELSE -1) /\ o[j] = IF j = gfTop THEN h ELSE 0
      BY <1>3, <1>6, Zenon
    <3> QED
      BY <1>1, <3>1, <3>2
  <2> HIDE DEF c
  <2> QED
    BY <1>5, <2>2, <2>3, Zenon DEF Carries
<1>10. CarriedIn(gfTop, R, u, m)
  <2>1. \A j \in 0 .. gfTop - 1 : j \in 0 .. gfTop /\ j # gfTop
    BY <1>1
  <2>2. ASSUME NEW j \in 0 .. gfTop - 1 PROVE m[j] = u[j] % R
    BY <1>3, <1>8, <2>1, Zenon
  <2> QED
    BY <1>5, <2>2, Zenon DEF CarriedIn
<1>11. c \in Int /\ gfTop \in 0 .. gfTop /\ gfTop # 0
  BY <1>1
<1>12. Powers(gfTop, R, gfPower)
  BY gfPowerIs DEF R
<1>13. gfIs(m) + (u[gfTop] - m[gfTop]) * gfPower[gfTop] = gfIs(o) + c
  <2> HIDE DEF c
  <2>1. ValueIn(gfTop, gfPower, m) + (u[gfTop] - m[gfTop]) * gfPower[gfTop]
            = ValueIn(gfTop, gfPower, o) + c
    BY <1>5, <1>9, <1>10, <1>11, <1>12, CarriedValue
  <2> QED
    BY <2>1, Zenon DEF gfIs
<1>14. gfIs(o) = gfIs(CutIn(gfTop, o)) + o[gfTop] * gfPower[gfTop]
  BY <1>5, <1>12, ValueInSplits, Zenon DEF gfIs
<1>15. gfIs(CutIn(gfTop, o)) = 0
  <2>1. CutIn(gfTop, o) = NoLimbs(gfTop)
    BY <1>3, Zenon DEF CutIn, NoLimbs
  <2> QED
    BY <1>12, <2>1, NoLimbsAre, Zenon DEF gfIs
<1>16. gfPower[gfTop] \in Nat /\ gfPower[FieldLimbs] = R * gfPower[gfTop]
  BY <1>1, <1>11, gfPowers, Zenon DEF R
<1>17. gfPower[FieldLimbs] = 2 * p25519 + 2 * Less /\ p25519 \in Nat
  BY RoomIs, FieldIs
<1>18. gfIs(m) = p25519
  <2> DEFINE P == gfPower[gfTop]
             v == gfIs(m)
  <2>1. u[gfTop] = h - 1 /\ m[gfTop] = h - 1 /\ o[gfTop] = h
    BY <1>3, <1>11, Zenon
  <2>2. gfIs(m) \in Int
    BY <1>1, <1>5, gfType
  <2>3. v + ((h - 1) - (h - 1)) * P = (0 + h * P) + c
    BY <1>13, <1>14, <1>15, <2>1, Zenon
  <2>4. P \in Nat /\ R * P = 2 * p25519 + 2 * Less /\ v \in Int
    BY <1>16, <1>17, <2>2, Zenon
  <2> HIDE DEF P, v
  <2>5. ((h - 1) - (h - 1)) * P = 0 /\ R * P = 2 * (h * P) /\ h * P \in Nat
    BY <1>1, <2>4
  <2>6. v = h * P - Less
    BY <1>1, <2>3, <2>4, <2>5
  <2>7. v = p25519
    BY <1>1, <1>17, <2>4, <2>5, <2>6
  <2> QED
    BY <2>7 DEF v
<1> QED
  BY <1>1, <1>4, <1>5, <1>18, Zenon DEF m, R

(* The differences of SubtractOnce, from limb 0 up. *)
Borrowed(t) ==
    LET m[i \in gfIndex] ==
            t[i] - p25519Limbs[i]
                - IF i = 0 THEN 0 ELSE (m[i - 1] \div FieldRadix) % 2
    IN  m

(* Bit 16 of a limb that is short is 1, of any other 0: a borrow is a carry of -1. *)
LEMMA BorrowIs ==
  ASSUME NEW v \in Int, -FieldRadix <= v, v < FieldRadix
  PROVE  /\ v \div FieldRadix \in {-1, 0}
         /\ (v \div FieldRadix) % 2 = -(v \div FieldRadix)
<1>1. FieldRadix \in Nat \ {0}
  BY FieldIs
<1>2. CASE v >= 0
  <2>1. v \in 0 .. FieldRadix - 1 /\ v = FieldRadix * 0 + v /\ 0 \in Int
    BY <1>1, <1>2
  <2>2. v \div FieldRadix = 0
    BY <1>1, <2>1, ModOf
  <2> QED
    BY <2>2
<1>3. CASE v < 0
  <2> DEFINE d == v + FieldRadix
  <2>1. d \in 0 .. FieldRadix - 1 /\ v = FieldRadix * (-1) + d /\ -1 \in Int
    BY <1>1, <1>3
  <2> HIDE DEF d
  <2>2. v \div FieldRadix = -1
    BY <1>1, <2>1, ModOf
  <2> QED
    BY <2>2
<1> QED
  BY <1>2, <1>3

LEMMA BorrowedIs ==
  ASSUME NEW t \in [gfIndex -> Int], \A j \in gfIndex : t[j] \in 0 .. FieldRadix - 1
  PROVE  /\ Z(t, p25519Limbs) \in [gfIndex -> Int]
         /\ Carries(gfTop, FieldRadix, Z(t, p25519Limbs), 0, Borrowed(t))
         /\ \A j \in gfIndex : Borrowed(t)[j] \in Int
         /\ \A j \in gfIndex : -FieldRadix <= Borrowed(t)[j] /\ Borrowed(t)[j] < FieldRadix
<1> DEFINE R == FieldRadix
           p == p25519Limbs
           x == Z(t, p)
           u == ChainTo(gfTop, R, x, 0)
           Is(m) == m = [i \in gfIndex |-> t[i] - p[i] - IF i = 0 THEN 0 ELSE (m[i - 1] \div R) % 2]
           b == CHOOSE m : Is(m)
<1>1. Borrowed(t) = b
  BY Zenon DEF Borrowed
<1>2. gfTop \in Nat /\ R \in Nat /\ R > 1 /\ R \in Nat \ {0} /\ 0 \in Int /\ gfIndex = 0 .. gfTop
  BY FieldIs
<1> HIDE DEF b
<1>3. \A j \in gfIndex : x[j] = t[j] - p[j] /\ t[j] \in 0 .. R - 1 /\ p[j] \in 0 .. R - 1
  BY p25519LimbsAre DEF Z
<1>4. x \in [gfIndex -> Int]
  <2>1. \A j \in gfIndex : t[j] - p[j] \in Int
    BY <1>3
  <2> QED
    BY <2>1, Zenon DEF Z
<1>5. x \in [0 .. gfTop -> Int]
  BY <1>2, <1>4, Zenon
<1>6. Carries(gfTop, R, x, 0, u)
  BY <1>2, <1>5, ChainToCarries, Zenon
<1> HIDE DEF u, x, p
<1>7. \A j \in gfIndex : t[j] \in Int /\ p[j] \in Int /\ x[j] \in Int /\ -R < x[j] /\ x[j] < R
  <2> TAKE j \in gfIndex
  <2> DEFINE d == t[j]
             e == p[j]
  <2>1. d \in 0 .. R - 1 /\ e \in 0 .. R - 1 /\ x[j] = d - e
    BY <1>3
  <2> HIDE DEF d, e
  <2>2. d \in Int /\ e \in Int /\ x[j] \in Int /\ -R < x[j] /\ x[j] < R
    BY <1>2, <2>1
  <2> QED
    BY <2>2 DEF d, e
<1>8. \A j \in gfIndex : u[j] \in Int
  BY <1>2, <1>6 DEF Carries
<1>9. \A v \in Int : -R <= v /\ v < R => v \div R \in {-1, 0} /\ (v \div R) % 2 = -(v \div R)
  BY BorrowIs
<1>10. 0 \in gfIndex /\ \A k \in 0 .. gfTop - 1 : /\ k \in gfIndex /\ k + 1 \in gfIndex /\ k + 1 # 0
                                                  /\ k + 1 \in 1 .. gfTop /\ (k + 1) - 1 = k
  BY <1>2
<1> DEFINE S == {k \in 0 .. gfTop : -R <= u[k] /\ u[k] < R}
<1>11. 0 \in S
  <2>1. u[0] = x[0] + 0
    BY <1>6, Zenon DEF Carries
  <2> QED
    BY <1>2, <1>7, <1>10, <2>1
<1>12. ASSUME NEW k \in 0 .. gfTop - 1, k \in S PROVE k + 1 \in S
  <2> DEFINE c == u[k] \div R
             d == x[k + 1]
  <2>1. u[k + 1] = d + c
    BY <1>6, <1>10, Zenon DEF Carries
  <2>2. u[k] \in Int /\ -R <= u[k] /\ u[k] < R
    BY <1>8, <1>10, <1>12
  <2>3. c \in {-1, 0} /\ d \in Int /\ -R < d /\ d < R
    BY <1>7, <1>9, <1>10, <2>2, Zenon
  <2> HIDE DEF c, d
  <2>4. -R <= u[k + 1] /\ u[k + 1] < R
    BY <1>2, <2>1, <2>3
  <2> QED
    BY <1>2, <1>10, <2>4, Zenon
<1> HIDE DEF S
<1>13. \A k \in 0 .. gfTop : k \in S
  BY <1>2, <1>11, <1>12, UpTo, Zenon
<1>14. \A k \in gfIndex : -R <= u[k] /\ u[k] < R
  BY <1>2, <1>13, Zenon DEF S
<1>15. \A k \in 0 .. gfTop - 1 : u[k + 1] = t[k + 1] - p[k + 1] - ((u[k] \div R) % 2)
  <2> TAKE k \in 0 .. gfTop - 1
  <2> DEFINE c == u[k] \div R
             e == c % 2
             d == t[k + 1]
             f == p[k + 1]
  <2>1. u[k + 1] = x[k + 1] + c
    BY <1>6, <1>10, Zenon DEF Carries
  <2>2. x[k + 1] = d - f /\ d \in Int /\ f \in Int
    BY <1>3, <1>7, <1>10, Zenon
  <2>3. c \in {-1, 0} /\ e = -c
    BY <1>8, <1>9, <1>10, <1>14, Zenon
  <2> HIDE DEF c, d, e, f
  <2>4. u[k + 1] = d - f - e
    BY <2>1, <2>2, <2>3
  <2> QED
    BY <2>4, Zenon DEF c, d, e, f
<1>16. u[0] = t[0] - p[0] - 0
  <2>1. u[0] = x[0] + 0
    BY <1>6, Zenon DEF Carries
  <2> QED
    BY <1>3, <1>7, <1>10, <2>1
<1>17. \A k \in gfIndex : k = 0 \/ (k # 0 /\ k - 1 \in 0 .. gfTop - 1 /\ (k - 1) + 1 = k)
  BY <1>2
<1>18. \E m : Is(m)
  <2>1. \A k \in gfIndex : u[k] = t[k] - p[k] - IF k = 0 THEN 0 ELSE (u[k - 1] \div R) % 2
    <3> TAKE k \in gfIndex
    <3>1. CASE k = 0
      BY <1>16, <3>1, Zenon
    <3>2. CASE k # 0
      <4>1. k - 1 \in 0 .. gfTop - 1 /\ (k - 1) + 1 = k
        BY <1>17, <3>2, Zenon
      <4>2. u[(k - 1) + 1] = t[(k - 1) + 1] - p[(k - 1) + 1] - ((u[k - 1] \div R) % 2)
        BY <1>15, <4>1, Zenon
      <4>3. u[k] = t[k] - p[k] - ((u[k - 1] \div R) % 2)
        BY <4>1, <4>2, Zenon
      <4> QED
        BY <3>2, <4>3, Zenon
    <3> QED
      BY <3>1, <3>2
  <2>2. u \in [gfIndex -> Int]
    BY <1>2, <1>6, Zenon DEF Carries
  <2>3. Is(u)
    BY <2>1, <2>2, Zenon
  <2> QED
    BY <2>3, Zenon
<1>19. Is(b)
  BY <1>18, Zenon DEF b
<1>20. \A k \in gfIndex : b[k] = t[k] - p[k] - IF k = 0 THEN 0 ELSE (b[k - 1] \div R) % 2
  BY <1>19, Zenon
<1> DEFINE T == {k \in 0 .. gfTop : b[k] = u[k]}
<1>21. 0 \in T
  <2>1. b[0] = t[0] - p[0] - 0
    BY <1>10, <1>20, Zenon
  <2> QED
    BY <1>2, <1>10, <1>16, <2>1, Zenon
<1>22. ASSUME NEW k \in 0 .. gfTop - 1, k \in T PROVE k + 1 \in T
  <2>1. k + 1 \in gfIndex /\ k + 1 # 0 /\ (k + 1) - 1 = k /\ b[k] = u[k]
    BY <1>10, <1>22, Zenon
  <2>2. b[k + 1] = t[k + 1] - p[k + 1] - ((b[(k + 1) - 1] \div R) % 2)
    BY <1>20, <2>1, Zenon
  <2>3. b[k + 1] = t[k + 1] - p[k + 1] - ((u[k] \div R) % 2)
    BY <2>1, <2>2, Zenon
  <2>4. b[k + 1] = u[k + 1]
    BY <1>15, <2>3, Zenon
  <2> QED
    BY <1>2, <2>1, <2>4, Zenon
<1> HIDE DEF T
<1>23. \A k \in 0 .. gfTop : k \in T
  BY <1>2, <1>21, <1>22, UpTo, Zenon
<1>24. \A k \in gfIndex : b[k] = u[k]
  BY <1>2, <1>23, Zenon DEF T
<1>25. b = u
  <2>1. DOMAIN b = gfIndex /\ b = [k \in gfIndex |-> b[k]]
    <3> DEFINE g == [i \in gfIndex |-> t[i] - p[i] - IF i = 0 THEN 0 ELSE (b[i - 1] \div R) % 2]
    <3>1. DOMAIN g = gfIndex /\ g = [k \in gfIndex |-> g[k]]
      OBVIOUS
    <3>2. b = g
      BY <1>19, Zenon
    <3> HIDE DEF g
    <3> QED
      BY <3>1, <3>2, Zenon
  <2>2. DOMAIN u = gfIndex /\ u = [k \in gfIndex |-> u[k]]
    BY <1>2, <1>6, Zenon DEF Carries
  <2> QED
    BY <1>24, <2>1, <2>2, Zenon
<1> QED
  BY <1>1, <1>4, <1>6, <1>8, <1>14, <1>25, Zenon DEF x, p

(* SubtractOnce subtracts p from a number that is not below it. *)
LEMMA SubtractOnceIs ==
  ASSUME NEW t \in [gfIndex -> Int], \A j \in gfIndex : t[j] \in 0 .. FieldRadix - 1
  PROVE  /\ SubtractOnce(t) \in [gfIndex -> Int]
         /\ \A j \in gfIndex : SubtractOnce(t)[j] \in 0 .. FieldRadix - 1
         /\ gfIs(t) \in Int
         /\ gfIs(SubtractOnce(t)) = IF gfIs(t) < p25519 THEN gfIs(t) ELSE gfIs(t) - p25519
<1> DEFINE R == FieldRadix
           x == Z(t, p25519Limbs)
           u == Borrowed(t)
           w == DigitsOf(u)
           q == CarriedOff(u)
           P == gfPower[FieldLimbs]
           s == [i \in gfIndex |-> IF i = gfTop THEN u[i] ELSE u[i] % R]
           l == gfIs(w)
           v == gfIs(t)
           p == p25519
<1>1. SubtractOnce(t) = IF q % 2 = 1 THEN t ELSE s
  BY Zenon DEF SubtractOnce, Borrowed, CarriedOff
<1>2. /\ x \in [gfIndex -> Int] /\ Carries(gfTop, R, x, 0, u)
      /\ \A j \in gfIndex : u[j] \in Int /\ -R <= u[j] /\ u[j] < R
  BY BorrowedIs, Zenon
<1>3. gfTop \in Nat /\ gfIndex = 0 .. gfTop /\ gfTop \in gfIndex /\ R \in Nat
  BY FieldIs
<1>4. P \in Nat /\ p \in Nat /\ p > 0
  BY RoomIs
<1> HIDE DEF x, u, P
<1>5. /\ w \in [gfIndex -> Int] /\ \A j \in gfIndex : w[j] \in 0 .. R - 1
      /\ q \in Int /\ u[gfTop] = R * q + w[gfTop]
      /\ l \in Int /\ gfIs(x) \in Int /\ 0 <= l /\ l < P
      /\ l + q * P = gfIs(x)
  BY <1>2, DigitsOfAre, Zenon DEF P
<1>6. q \in {-1, 0} /\ q % 2 = -q
  BY <1>2, <1>3, BorrowIs, Zenon DEF CarriedOff
<1>7. \A j \in gfIndex : w[j] = u[j] % R
  BY <1>3 DEF DigitsOf
<1> HIDE DEF q, w
<1>8. v \in Int
  BY gfType, Zenon
<1>9. gfIs(x) = v - p
  <2>1. Combines(gfTop, x, t, -1, p25519Limbs)
    <3>1. \A j \in gfIndex : x[j] = t[j] + (-1) * p25519Limbs[j]
      <4> TAKE j \in gfIndex
      <4>1. t[j] \in Int /\ p25519Limbs[j] \in Int /\ x[j] = t[j] - p25519Limbs[j]
        BY p25519LimbsAre DEF x, Z
      <4> DEFINE d == p25519Limbs[j]
      <4> HIDE DEF d
      <4>2. t[j] - d = t[j] + (-1) * d
        BY <4>1 DEF d
      <4> QED
        BY <4>1, <4>2 DEF d
    <3>2. -1 \in Int
      OBVIOUS
    <3> QED
      BY <1>2, <1>3, <3>1, <3>2, p25519LimbsAre, Zenon DEF Combines
  <2>2. gfIs(x) = v + (-1) * gfIs(p25519Limbs)
    BY <2>1, gfPowerIs, ValueInAdds DEF gfIs
  <2>3. gfIs(x) = v + (-1) * p
    BY <2>2, p25519LimbsAre, Zenon
  <2> HIDE DEF v, p
  <2> QED
    BY <1>4, <1>8, <2>3
<1> HIDE DEF v, l, s
<1>10. CASE q = -1
  <2>1. v < p
    <3>1. q * P = -P
      BY <1>4, <1>10
    <3> QED
      BY <1>4, <1>5, <1>8, <1>9, <3>1
  <2>2. q % 2 = 1
    BY <1>6, <1>10
  <2>3. SubtractOnce(t) = t
    BY <1>1, <2>2, Zenon
  <2> QED
    BY <1>8, <2>1, <2>3, Zenon DEF v
<1>11. CASE q = 0
  <2>1. q * P = 0
    BY <1>4, <1>11
  <2>2. l = v - p /\ ~(v < p)
    BY <1>4, <1>5, <1>8, <1>9, <2>1
  <2>3. q % 2 # 1
    BY <1>6, <1>11
  <2>4. w[gfTop] \in 0 .. R - 1
    BY <1>3, <1>5
  <2>5. u[gfTop] = w[gfTop]
    BY <1>3, <1>5, <1>11, <2>4
  <2>6. s = w
    <3>1. \A j \in gfIndex : s[j] = w[j]
      BY <1>7, <2>5, Zenon DEF s
    <3>2. DOMAIN s = gfIndex /\ s = [j \in gfIndex |-> s[j]]
      BY DEF s
    <3>3. DOMAIN w = gfIndex /\ w = [j \in gfIndex |-> w[j]]
      BY <1>5
    <3> QED
      BY <3>1, <3>2, <3>3, Zenon
  <2>7. SubtractOnce(t) = w
    BY <1>1, <2>3, <2>6, Zenon
  <2>8. gfIs(SubtractOnce(t)) = v - p
    BY <2>2, <2>7, Zenon DEF l
  <2> QED
    BY <1>5, <1>8, <2>2, <2>7, <2>8, Zenon DEF v
<1> QED
  BY <1>6, <1>10, <1>11

(* What is packed: the one number below p that stands for the same element. *)
LEMMA PackIs ==
  ASSUME NEW o \in [gfIndex -> Int], Within(Widest[MaxSums], o)
  PROVE  /\ pack25519(o) \in [gfIndex -> Int]
         /\ \A j \in gfIndex : pack25519(o)[j] \in 0 .. FieldRadix - 1
         /\ gfIs(pack25519(o)) = gfIs(o) % p25519
         /\ gfIs(pack25519(o)) \in Int
         /\ 0 <= gfIs(pack25519(o)) /\ gfIs(pack25519(o)) < p25519
<1> DEFINE x == car25519(car25519(car25519(o)))
           z == car25519(car25519(o))
           y == SubtractOnce(x)
           s == SubtractOnce(y)
           p == p25519
           a == gfIs(x)
           b == gfIs(o)
           c == gfIs(y)
           d == gfIs(s)
           W == Widest[MaxSums]
           P == gfPower[FieldLimbs]
<1>1. pack25519(o) = s
  BY Zenon DEF pack25519
<1>2. P \in Nat /\ P = 2 * p + Fold /\ Fold < p /\ p \in Nat \ {0} /\ p \in Nat /\ Fold \in Nat
  BY RoomIs, FieldIs
<1>3. PICK C : Roomy(C)
  BY RoomIs
<1>4. W \in Nat /\ C \in Nat /\ W <= (FieldRadix - 1) * C /\ (FieldRadix - 1) * C \in Nat
  BY <1>3, WidestIs, FieldIs DEF Roomy
<1>5. Within((FieldRadix - 1) * C, o)
  <2> DEFINE B == (FieldRadix - 1) * C
  <2> HIDE DEF B, W
  <2>1. W \in Nat /\ B \in Nat /\ W <= B
    BY <1>4 DEF B
  <2>2. ASSUME NEW j \in gfIndex PROVE -B <= o[j] /\ o[j] <= B
    <3>1. o[j] \in Int /\ -W <= o[j] /\ o[j] <= W
      BY DEF Within, W
    <3> QED
      BY <2>1, <3>1
  <2> QED
    BY <2>2 DEF Within, B
<1>6. /\ gfIs(z) \in Int /\ 0 <= gfIs(z) /\ gfIs(z) < P /\ Congruent(p, gfIs(z), b)
      /\ x \in [gfIndex -> Int] /\ \A j \in gfIndex : x[j] \in 0 .. FieldRadix - 1
      /\ a = gfIs(z)
  BY <1>3, <1>5, TwoCars, Zenon
<1>7. a \in Int /\ 0 <= a /\ a < P /\ Congruent(p, a, b) /\ b \in Int
  BY <1>6, gfType, Zenon
<1> HIDE DEF x
<1>8. /\ y \in [gfIndex -> Int] /\ \A j \in gfIndex : y[j] \in 0 .. FieldRadix - 1
      /\ c = IF a < p THEN a ELSE a - p
  BY <1>6, SubtractOnceIs, Zenon
<1> HIDE DEF y
<1>9. /\ s \in [gfIndex -> Int] /\ \A j \in gfIndex : s[j] \in 0 .. FieldRadix - 1
      /\ d = IF c < p THEN c ELSE c - p
  BY <1>8, SubtractOnceIs, Zenon
<1> HIDE DEF s, a, b, c, d, P, p
<1>10. d \in Int /\ 0 <= d /\ d < p /\ \E k \in Int : d = a + k * p
  <2>1. c \in Int /\ 0 <= c /\ c < 2 * p
    BY <1>2, <1>7, <1>8
  <2>2. d \in Int /\ 0 <= d /\ d < p
    BY <1>2, <1>9, <2>1
  <2>3. d = a + 0 * p \/ d = a + (-1) * p \/ d = a + (-2) * p
    BY <1>2, <1>7, <1>8, <1>9
  <2> QED
    BY <2>2, <2>3
<1>11. Congruent(p, d, b)
  <2>1. Congruent(p, d, a)
    BY <1>10, Zenon DEF Congruent
  <2> QED
    BY <1>2, <1>7, <1>10, <2>1, CongruentTrans
<1>12. d % p = b % p
  BY <1>2, <1>7, <1>10, <1>11, CongruentMod
<1>13. d % p = d
  <2>1. d \in 0 .. p - 1 /\ d = p * 0 + d /\ 0 \in Int
    BY <1>2, <1>10
  <2> QED
    BY <1>2, <2>1, ModOf
<1> QED
  BY <1>1, <1>9, <1>10, <1>12, <1>13, Zenon DEF b, d, p
-----------------------------------------------------------------------------
(* The field: products *)

(* The two columns that limb k of a product is made of. *)
Terms(a, b, k) == [i \in gfIndex |-> IF k - i \in gfIndex THEN a[i] * b[k - i] ELSE 0]
Folded(a, b) ==
    [k \in gfIndex |-> gfSum(Terms(a, b, k)) + Fold * gfSum(Terms(a, b, k + FieldLimbs))]

LEMMA MIsFolded == ASSUME NEW a, NEW b PROVE M(a, b) = car25519(car25519(Folded(a, b)))
  BY Zenon DEF M, Folded, Terms

(* Numbers between bounds, multiplied. *)
LEMMA ProductBound ==
  ASSUME NEW W \in Nat, NEW a \in Int, -W <= a, a <= W, NEW b \in Int, -W <= b, b <= W
  PROVE  -(W * W) <= a * b /\ a * b <= W * W
<1>1. PICK c, d \in Nat : W - a = c /\ W + a = d
  <2>1. W - a \in Nat /\ W + a \in Nat
    OBVIOUS
  <2> QED
    BY <2>1
<1>2. PICK e, f \in Nat : W - b = e /\ W + b = f
  <2>1. W - b \in Nat /\ W + b \in Nat
    OBVIOUS
  <2> QED
    BY <2>1
<1>3. (W - a) * (W + b) + (W + a) * (W - b) = 2 * (W * W) - 2 * (a * b)
  OBVIOUS
<1>4. (W - a) * (W - b) + (W + a) * (W + b) = 2 * (W * W) + 2 * (a * b)
  OBVIOUS
<1>5. c * f \in Nat /\ d * e \in Nat /\ c * e \in Nat /\ d * f \in Nat
  OBVIOUS
<1>6. c * f + d * e = 2 * (W * W) - 2 * (a * b) /\ c * e + d * f = 2 * (W * W) + 2 * (a * b)
  BY <1>1, <1>2, <1>3, <1>4, Zenon
<1>7. W * W \in Int /\ a * b \in Int
  OBVIOUS
<1> DEFINE g == c * f
           h == d * e
           i == c * e
           j == d * f
           s == W * W
           t == a * b
<1>8. g \in Nat /\ h \in Nat /\ i \in Nat /\ j \in Nat /\ s \in Int /\ t \in Int
      /\ g + h = 2 * s - 2 * t /\ i + j = 2 * s + 2 * t
  BY <1>5, <1>6, <1>7, Zenon
<1> HIDE DEF g, h, i, j, s, t
<1>9. -s <= t /\ t <= s
  BY <1>8
<1> QED
  BY <1>9 DEF s, t

(* Each limb of a product is that of the rows added up, and bounded. *)
LEMMA FoldedIs ==
  ASSUME NEW W \in Nat,
         NEW a \in [gfIndex -> Int], Within(W, a), NEW b \in [gfIndex -> Int], Within(W, b)
  PROVE  /\ Folded(a, b) = ProductOf(gfTop, Fold, a, b)
         /\ Folded(a, b) \in [gfIndex -> Int]
         /\ Within(FieldLimbs * (Fold * (W * W)), Folded(a, b))
<1> DEFINE n == gfTop
           T == Fold * (W * W)
           B == FieldLimbs * T
           h(k) == Products(n, Fold, a, b, k)
           f(k) == Terms(a, b, k)
<1>1. n \in Nat /\ gfIndex = 0 .. n /\ FieldLimbs = n + 1 /\ Fold \in Nat /\ Fold > 0
      /\ Fold \in Int
  BY FieldIs
<1>2. \A j \in gfIndex : /\ a[j] \in Int /\ b[j] \in Int
                         /\ -W <= a[j] /\ a[j] <= W /\ -W <= b[j] /\ b[j] <= W
  BY DEF Within
<1>3. W * W \in Nat /\ T \in Nat /\ W * W <= T /\ B \in Nat
  <2> DEFINE s == W * W
  <2>1. s \in Nat
    OBVIOUS
  <2> HIDE DEF s
  <2>2. Fold * s \in Nat /\ s <= Fold * s
    BY <1>1, <2>1
  <2> DEFINE t == Fold * s
  <2> HIDE DEF t
  <2>3. FieldLimbs * t \in Nat
    BY <1>1, <2>2 DEF t
  <2> QED
    BY <2>1, <2>2, <2>3 DEF s, t
<1> HIDE DEF B
<1>4. \A i, j \in gfIndex : /\ a[i] * b[j] \in Int /\ a[i] * (Fold * b[j]) = Fold * (a[i] * b[j])
                            /\ Fold * (a[i] * b[j]) \in Int
                            /\ -T <= a[i] * b[j] /\ a[i] * b[j] <= T
                            /\ -T <= Fold * (a[i] * b[j]) /\ Fold * (a[i] * b[j]) <= T
  <2> TAKE i, j \in gfIndex
  <2> DEFINE c == a[i]
             d == b[j]
             e == c * d
             s == W * W
  <2>1. c \in Int /\ d \in Int /\ -W <= c /\ c <= W /\ -W <= d /\ d <= W
    BY <1>2
  <2> HIDE DEF c, d
  <2>2. e \in Int /\ -s <= e /\ e <= s /\ c * (Fold * d) = Fold * e
    <3>1. -(W * W) <= c * d /\ c * d <= W * W
      BY <2>1, ProductBound
    <3>2. c * d \in Int /\ c * (Fold * d) = Fold * (c * d)
      BY <1>1, <2>1
    <3> QED
      BY <3>1, <3>2, Zenon
  <2>3. s \in Nat /\ s <= T /\ T = Fold * s
    BY <1>3
  <2> HIDE DEF e, s, T
  <2>4. Fold * e \in Int /\ -T <= e /\ e <= T
    <3>1. Fold * e \in Int
      BY <1>1, <2>2, Product
    <3>2. T \in Int
      BY <1>3
    <3>3. e \in Int /\ -s <= e /\ e <= s /\ s \in Nat /\ s <= T
      BY <2>2, <2>3
    <3> QED
      BY <3>1, <3>2, <3>3
  <2>5. Fold * (s - e) \in Nat /\ Fold * (s + e) \in Nat
    <3>1. s - e \in Nat /\ s + e \in Nat
      BY <2>2, <2>3
    <3> QED
      BY <1>1, <3>1
  <2>6. Fold * (s - e) = T - Fold * e /\ Fold * (s + e) = T + Fold * e
    BY <1>1, <2>2, <2>3
  <2>7. -T <= Fold * e /\ Fold * e <= T
    BY <1>1, <2>2, <2>3, <2>4, <2>5, <2>6
  <2> QED
    BY <2>2, <2>4, <2>7, Zenon DEF c, d, e
<1> HIDE DEF T
<1>5. ASSUME NEW k \in gfIndex
      PROVE  /\ f(k) \in [0 .. n -> Int] /\ f(k + FieldLimbs) \in [0 .. n -> Int]
             /\ h(k) \in [0 .. n -> Int]
             /\ \A j \in 0 .. n : /\ h(k)[j] = f(k)[j] + Fold * f(k + FieldLimbs)[j]
                                  /\ -T <= h(k)[j] /\ h(k)[j] <= T
  <2> DEFINE g == f(k + FieldLimbs)
             e == f(k)
             x == h(k)
  <2>1. /\ \A j \in gfIndex : e[j] = IF k - j \in gfIndex THEN a[j] * b[k - j] ELSE 0
        /\ \A j \in gfIndex : g[j] = IF (k + FieldLimbs) - j \in gfIndex
                                     THEN a[j] * b[(k + FieldLimbs) - j] ELSE 0
        /\ DOMAIN e = gfIndex /\ e = [j \in gfIndex |-> e[j]]
        /\ DOMAIN g = gfIndex /\ g = [j \in gfIndex |-> g[j]]
    BY DEF Terms
  <2>2. /\ \A j \in gfIndex : x[j] = a[j] * IF j <= k THEN b[k - j] ELSE Fold * b[k + (n + 1) - j]
        /\ DOMAIN x = gfIndex /\ x = [j \in gfIndex |-> x[j]]
    BY <1>1, Zenon DEF Products, Row
  <2> HIDE DEF e, g, x
  <2>3. ASSUME NEW j \in gfIndex
        PROVE  /\ e[j] \in Int /\ g[j] \in Int /\ x[j] \in Int /\ x[j] = e[j] + Fold * g[j]
               /\ -T <= x[j] /\ x[j] <= T
    <3>1. CASE j <= k
      <4>1. k - j \in gfIndex /\ (k + FieldLimbs) - j \notin gfIndex
        BY <1>1, <3>1
      <4> DEFINE p == a[j] * b[k - j]
      <4>2. e[j] = p /\ g[j] = 0 /\ x[j] = p
        BY <2>1, <2>2, <3>1, <4>1, Zenon
      <4>3. p \in Int /\ -T <= p /\ p <= T
        BY <1>4, <4>1
      <4> HIDE DEF p
      <4>4. p = p + Fold * 0
        BY <1>1, <4>3
      <4> QED
        BY <4>2, <4>3, <4>4
    <3>2. CASE ~(j <= k)
      <4>1. k - j \notin gfIndex /\ (k + FieldLimbs) - j \in gfIndex
            /\ k + (n + 1) - j = (k + FieldLimbs) - j
        BY <1>1, <3>2
      <4> DEFINE i == (k + FieldLimbs) - j
                 p == a[j] * b[i]
                 q == Fold * p
      <4>2. e[j] = 0 /\ g[j] = p /\ x[j] = a[j] * (Fold * b[i])
        BY <2>1, <2>2, <3>2, <4>1, Zenon
      <4> HIDE DEF i
      <4>3. p \in Int /\ q \in Int /\ a[j] * (Fold * b[i]) = q /\ -T <= q /\ q <= T
        BY <1>4, <4>1 DEF i
      <4> HIDE DEF p, q
      <4>4. q = 0 + Fold * p /\ x[j] = q
        BY <1>1, <4>2, <4>3 DEF q
      <4> QED
        BY <4>2, <4>3, <4>4
    <3> QED
      BY <3>1, <3>2
  <2>4. e \in [gfIndex -> Int] /\ g \in [gfIndex -> Int] /\ x \in [gfIndex -> Int]
    BY <2>1, <2>2, <2>3, Zenon
  <2> QED
    BY <1>1, <2>3, <2>4, Zenon DEF e, g, x
<1> HIDE DEF f, h
<1>6. ASSUME NEW k \in gfIndex
      PROVE  /\ SumTo(n, h(k)) = gfSum(f(k)) + Fold * gfSum(f(k + FieldLimbs))
             /\ SumTo(n, h(k)) \in Int /\ -B <= SumTo(n, h(k)) /\ SumTo(n, h(k)) <= B
  <2>1. Combines(n, h(k), f(k), Fold, f(k + FieldLimbs))
    BY <1>1, <1>5, Zenon DEF Combines
  <2>2. SumTo(n, h(k)) = SumTo(n, f(k)) + Fold * SumTo(n, f(k + FieldLimbs))
    BY <2>1, SumToAdds
  <2>3. gfSum(f(k)) = SumTo(n, f(k)) /\ gfSum(f(k + FieldLimbs)) = SumTo(n, f(k + FieldLimbs))
    BY gfSumIs, Zenon
  <2> DEFINE x == h(k)
             lo == -T
  <2>4. x \in [0 .. n -> Int] /\ lo \in Int /\ T \in Int
        /\ \A j \in 0 .. n : lo <= x[j] /\ x[j] <= T
    BY <1>3, <1>5
  <2> HIDE DEF x, lo
  <2>5. SumTo(n, x) \in Int /\ (n + 1) * lo <= SumTo(n, x) /\ SumTo(n, x) <= (n + 1) * T
    BY <1>1, <2>4, SumToBound
  <2>6. (n + 1) * T = B /\ (n + 1) * lo = -B
    <3>1. (n + 1) * T = B
      BY <1>1 DEF B
    <3>2. (n + 1) * lo = -((n + 1) * T)
      BY <1>1, <1>3 DEF lo
    <3> QED
      BY <3>1, <3>2, Zenon
  <2>7. SumTo(n, x) \in Int /\ -B <= SumTo(n, x) /\ SumTo(n, x) <= B
    BY <2>5, <2>6, Zenon
  <2> QED
    BY <2>2, <2>3, <2>7, Zenon DEF x
<1>7. Folded(a, b) = [k \in gfIndex |-> gfSum(f(k)) + Fold * gfSum(f(k + FieldLimbs))]
  BY Zenon DEF Folded, f
<1>8. ProductOf(n, Fold, a, b) = [k \in gfIndex |-> SumTo(n, h(k))]
  BY <1>1, Zenon DEF ProductOf, h
<1>9. Folded(a, b) = ProductOf(n, Fold, a, b)
  BY <1>6, <1>7, <1>8, Zenon
<1>10. \A k \in gfIndex : /\ Folded(a, b)[k] \in Int
                          /\ -B <= Folded(a, b)[k] /\ Folded(a, b)[k] <= B
  BY <1>6, <1>8, <1>9, Zenon
<1>11. Folded(a, b) \in [gfIndex -> Int]
  BY <1>6, <1>8, <1>9, Zenon
<1> QED
  BY <1>9, <1>10, <1>11, Zenon DEF Within, B, T

(* A product of sums that are in range stands for the product of the elements, and
   its limbs are in range again. *)
LEMMA MIs ==
  ASSUME NEW a \in [gfIndex -> Int], Within(Widest[MaxSums], a),
         NEW b \in [gfIndex -> Int], Within(Widest[MaxSums], b)
  PROVE  /\ M(a, b) \in [gfIndex -> Int] /\ Within(Widest[0], M(a, b))
         /\ gfIs(M(a, b)) \in Int
         /\ Congruent(p25519, gfIs(M(a, b)), gfIs(a) * gfIs(b))
<1> DEFINE W == Widest[MaxSums]
           o == Folded(a, b)
           B == FieldLimbs * (Fold * (W * W))
           z == M(a, b)
           p == p25519
<1>1. W \in Nat
  BY WidestIs, FieldIs
<1>2. PICK C : Roomy(C)
  BY RoomIs
<1>3. o = ProductOf(gfTop, Fold, a, b) /\ o \in [gfIndex -> Int] /\ Within(B, o)
  BY <1>1, FoldedIs, Zenon
<1>4. B <= (FieldRadix - 1) * C /\ B \in Int /\ (FieldRadix - 1) * C \in Int
  <2>1. C \in Nat /\ B <= (FieldRadix - 1) * C
    BY <1>2, Zenon DEF Roomy
  <2>2. B \in Int
    <3>1. W * W \in Int
      BY <1>1
    <3>2. Fold * (W * W) \in Int
      BY <3>1, FieldIs, Product
    <3>3. FieldLimbs \in Int
      BY FieldIs
    <3> QED
      BY <3>2, <3>3, Product
  <2> QED
    BY <2>1, <2>2, FieldIs
<1> HIDE DEF o, B
<1>5. Within((FieldRadix - 1) * C, o)
  <2> DEFINE D == (FieldRadix - 1) * C
  <2> HIDE DEF D
  <2>1. B \in Int /\ D \in Int /\ B <= D
    BY <1>4 DEF D
  <2>2. ASSUME NEW j \in gfIndex PROVE -D <= o[j] /\ o[j] <= D
    <3>1. o[j] \in Int /\ -B <= o[j] /\ o[j] <= B
      BY <1>3 DEF Within
    <3> QED
      BY <2>1, <3>1
  <2> QED
    BY <2>2 DEF Within, D
<1>6. z = car25519(car25519(o))
  BY MIsFolded, Zenon DEF o
<1>7. /\ z \in [gfIndex -> Int] /\ Within(Widest[0], z)
      /\ gfIs(z) \in Int /\ Congruent(p, gfIs(z), gfIs(o))
  BY <1>2, <1>3, <1>5, <1>6, TwoCars, Zenon
<1>8. a \in [0 .. gfTop -> Int] /\ b \in [0 .. gfTop -> Int]
  BY FieldIs, Zenon
<1>9. Congruent(p, gfIs(o), gfIs(a) * gfIs(b))
  <2>1. Congruent(p, ValueIn(gfTop, gfPower, ProductOf(gfTop, Fold, a, b)),
                  ValueIn(gfTop, gfPower, a) * ValueIn(gfTop, gfPower, b))
    BY <1>8, gfPowerIs, FoldWraps, ProductValue
  <2> QED
    BY <1>3, <2>1, Zenon DEF gfIs
<1>10. /\ gfIs(o) \in Int /\ gfIs(a) \in Int /\ gfIs(b) \in Int /\ p \in Int
  BY <1>3, gfType, RoomIs
<1>11. gfIs(a) * gfIs(b) \in Int
  BY <1>10, Product
<1>12. Congruent(p, gfIs(z), gfIs(a) * gfIs(b))
  <2> DEFINE e == gfIs(a) * gfIs(b)
  <2> HIDE DEF e, z
  <2> QED
    BY <1>7, <1>9, <1>10, <1>11, CongruentTrans DEF e
<1> QED
  BY <1>7, <1>12, Zenon
-----------------------------------------------------------------------------
(* The field: every number held *)

Held(a, element, count) ==
    /\ count \in 0 .. MaxSums
    /\ a \in [gfIndex -> Int] /\ Within(Widest[count], a)
    /\ element = gfIs(a) % p25519

(* The numbers held stand for their elements, and their limbs are as wide as the
   sums in their making let them be. *)
FieldInv ==
    /\ DOMAIN exact = DOMAIN gf /\ DOMAIN sums = DOMAIN gf
    /\ \A x \in DOMAIN gf : Held(gf[x], exact[x], sums[x])

LEMMA PutKeeps ==
  ASSUME FieldInv, NEW x, NEW a, NEW element, NEW count, Put(x, a, element, count),
         Held(a, element % p25519, count)
  PROVE  FieldInv'
<1> DEFINE e == element % p25519
<1> HIDE DEF e
<1>1. gf' = Setting(gf, x, a) /\ exact' = Setting(exact, x, e) /\ sums' = Setting(sums, x, count)
  BY Zenon DEF Put, e
<1>2. DOMAIN gf' = {x} \cup DOMAIN gf
      /\ \A y \in {x} \cup DOMAIN gf : gf'[y] = IF y = x THEN a ELSE gf[y]
  BY <1>1 DEF Setting
<1>3. DOMAIN exact' = {x} \cup DOMAIN exact
      /\ \A y \in {x} \cup DOMAIN exact : exact'[y] = IF y = x THEN e ELSE exact[y]
  BY <1>1 DEF Setting
<1>4. DOMAIN sums' = {x} \cup DOMAIN sums
      /\ \A y \in {x} \cup DOMAIN sums : sums'[y] = IF y = x THEN count ELSE sums[y]
  BY <1>1 DEF Setting
<1>5. Held(a, e, count)
  BY DEF e
<1>6. ASSUME NEW y \in DOMAIN gf' PROVE Held(gf'[y], exact'[y], sums'[y])
  <2>1. CASE y = x
    <3>1. gf'[y] = a /\ exact'[y] = e /\ sums'[y] = count
      BY <1>2, <1>3, <1>4, <2>1, Zenon
    <3> QED
      BY <1>5, <3>1, Zenon
  <2>2. CASE y # x
    <3>1. y \in DOMAIN gf /\ y \in DOMAIN exact /\ y \in DOMAIN sums
      BY <1>2, <2>2, Zenon DEF FieldInv
    <3>2. gf'[y] = gf[y] /\ exact'[y] = exact[y] /\ sums'[y] = sums[y]
      BY <1>2, <1>3, <1>4, <2>2, <3>1, Zenon
    <3> QED
      BY <3>1, <3>2, Zenon DEF FieldInv
  <2> QED
    BY <2>1, <2>2
<1>7. DOMAIN exact' = DOMAIN gf' /\ DOMAIN sums' = DOMAIN gf'
  BY <1>2, <1>3, <1>4, Zenon DEF FieldInv
<1>8. \A y \in DOMAIN gf' : Held(gf'[y], exact'[y], sums'[y])
  BY <1>6
<1> QED
  BY <1>7, <1>8, Zenon DEF FieldInv

(* What unpacking and products hold, and what digits do. *)
LEMMA DigitsHeld ==
  ASSUME NEW a \in [gfIndex -> Int], \A j \in gfIndex : a[j] \in 0 .. FieldRadix - 1
  PROVE  Held(a, gfIs(a) % p25519, 0)
<1>1. FieldRadix \in Nat /\ Fold \in Nat /\ MaxSums \in Nat /\ Widest[0] = FieldRadix + Fold
  BY FieldIs, WidestIs
<1>2. 0 \in 0 .. MaxSums
  BY <1>1
<1> DEFINE W == FieldRadix + Fold
<1>3. ASSUME NEW j \in gfIndex PROVE -W <= a[j] /\ a[j] <= W
  <2>1. a[j] \in 0 .. FieldRadix - 1
    OBVIOUS
  <2> QED
    BY <1>1, <2>1
<1> HIDE DEF W
<1>4. Widest[0] = W
  BY <1>1 DEF W
<1> QED
  BY <1>2, <1>3, <1>4, Zenon DEF Held, Within

\* A conversion drops the top bit of the top limb.
LEMMA UnpackIs ==
  ASSUME NEW n \in [1 .. FieldLimbs -> 0 .. FieldRadix - 1]
  PROVE  /\ unpack25519(n) \in [gfIndex -> Int]
         /\ \A j \in gfIndex : unpack25519(n)[j] \in 0 .. FieldRadix - 1
<1> DEFINE h == FieldRadix \div 2
           R == FieldRadix
<1>1. gfTop \in Nat /\ gfIndex = 0 .. gfTop /\ FieldLimbs = gfTop + 1 /\ h \in Nat
      /\ R = 2 * h /\ R \in Nat /\ R > 1
  BY FieldIs
<1>2. h > 0 /\ h <= R
  <2> HIDE DEF h, R
  <2> QED
    BY <1>1
<1> HIDE DEF h
<1>3. ASSUME NEW j \in gfIndex
      PROVE  /\ n[j + 1] \in 0 .. R - 1 /\ n[j + 1] % h \in 0 .. R - 1
             /\ n[j + 1] \in Int /\ n[j + 1] % h \in Int
  <2>1. j + 1 \in 1 .. FieldLimbs
    BY <1>1
  <2> DEFINE d == n[j + 1]
  <2>2. d \in 0 .. R - 1
    BY <2>1
  <2> HIDE DEF d, R
  <2>3. d % h \in 0 .. h - 1 /\ d \in Int
    BY <1>1, <1>2, <2>2
  <2> QED
    BY <1>1, <1>2, <2>2, <2>3 DEF d
<1>4. unpack25519(n) = [i \in gfIndex |-> IF i = gfTop THEN n[i + 1] % h ELSE n[i + 1]]
  BY Zenon DEF unpack25519, h
<1> QED
  BY <1>3, <1>4, Zenon

(* What is packed is unpacked as it is: p is below the top bit. *)
LEMMA UnpackPacked ==
  ASSUME NEW a \in [gfIndex -> Int], \A j \in gfIndex : a[j] \in 0 .. FieldRadix - 1,
         gfIs(a) \in Int, gfIs(a) < p25519
  PROVE  unpack25519([i \in 1 .. FieldLimbs |-> a[i - 1]]) = a
<1> DEFINE h == FieldRadix \div 2
           n == [i \in 1 .. FieldLimbs |-> a[i - 1]]
           R == FieldRadix
           P == gfPower[gfTop]
           v == gfIs(CutIn(gfTop, a))
           d == a[gfTop]
<1>1. /\ gfTop \in Nat /\ gfIndex = 0 .. gfTop /\ FieldLimbs = gfTop + 1 /\ gfTop \in gfIndex
      /\ h \in Nat /\ R = 2 * h /\ R \in Nat /\ R > 1
  BY FieldIs
<1> HIDE DEF h
<1>2. a \in [0 .. gfTop -> Int] /\ \A j \in 0 .. gfTop - 1 : a[j] \in 0 .. R - 1
  <2>1. \A j \in 0 .. gfTop - 1 : j \in gfIndex
    BY <1>1
  <2> QED
    BY <1>1, <2>1, Zenon
<1>3. gfIs(a) = v + d * P /\ v \in 0 .. P - 1
  <2>1. ValueIn(gfTop, gfPower, a)
            = ValueIn(gfTop, gfPower, CutIn(gfTop, a)) + a[gfTop] * gfPower[gfTop]
    BY <1>2, gfPowerIs, ValueInSplits
  <2>2. ValueIn(gfTop, gfPower, CutIn(gfTop, a)) \in 0 .. gfPower[gfTop] - 1
    BY <1>2, gfPowerIs, CutInBounds
  <2> QED
    BY <2>1, <2>2, Zenon DEF gfIs
<1>4. P \in Nat /\ P > 0 /\ gfPower[FieldLimbs] = R * P
  <2>1. gfTop \in 0 .. gfTop
    BY <1>1
  <2>2. P \in Nat \ {0} /\ gfPower[gfTop + 1] = R * P
    BY <2>1, gfPowers, Zenon
  <2> QED
    BY <1>1, <2>2
<1>5. R * P = 2 * p25519 + Fold /\ p25519 \in Nat /\ Fold \in Nat
  BY <1>4, RoomIs, FieldIs
<1>6. d \in 0 .. R - 1
  BY <1>1
<1>7. d < h
  <2> DEFINE w == gfIs(a)
             p == p25519
  <2>1. w \in Int /\ w < p /\ w = v + d * P /\ v \in 0 .. P - 1 /\ p \in Nat /\ R * P = 2 * p + Fold
    BY <1>3, <1>5, Zenon
  <2> HIDE DEF w, p, v, d, P, R
  <2> SUFFICES ASSUME d >= h PROVE FALSE
    BY <1>1, <1>6
  <2>2. PICK e \in Nat : d = h + e
    <3>1. d - h \in Nat /\ d = h + (d - h)
      BY <1>1, <1>6
    <3> QED
      BY <3>1
  <2>3. d * P = h * P + e * P /\ e * P \in Nat /\ h * P \in Nat
    BY <1>1, <1>4, <2>2
  <2>4. R * P = 2 * (h * P)
    BY <1>1, <1>4
  <2>5. v \in Nat
    BY <1>4, <2>1
  <2> QED
    BY <1>5, <2>1, <2>3, <2>4, <2>5
<1>8. d % h = d
  <2> HIDE DEF d, R
  <2>1. d \in 0 .. h - 1 /\ h \in Nat \ {0} /\ d = h * 0 + d /\ 0 \in Int
    BY <1>1, <1>6, <1>7
  <2> QED
    BY <2>1, ModOf
<1>9. \A i \in gfIndex : i + 1 \in 1 .. FieldLimbs /\ (i + 1) - 1 = i
  BY <1>1
<1>10. \A i \in gfIndex : n[i + 1] = a[i]
  BY <1>9, Zenon
<1>11. unpack25519(n) = [i \in gfIndex |-> IF i = gfTop THEN n[i + 1] % h ELSE n[i + 1]]
  BY Zenon DEF unpack25519, h
<1> HIDE DEF n
<1>12. \A i \in gfIndex : unpack25519(n)[i] = a[i]
  BY <1>8, <1>10, <1>11, Zenon
<1>13. DOMAIN unpack25519(n) = gfIndex
  BY <1>11
<1>14. unpack25519(n) = [i \in gfIndex |-> unpack25519(n)[i]] /\ a = [i \in gfIndex |-> a[i]]
  BY <1>11
<1> QED
  BY <1>12, <1>14, Zenon DEF n

(* A sum or a difference, of one number and c times another. *)
LEMMA SumHeld ==
  ASSUME NEW a, NEW e, NEW i, Held(a, e, i), NEW b, NEW f, NEW j, Held(b, f, j),
         NEW c \in {1, -1}, NEW z \in [gfIndex -> Int],
         \A k \in gfIndex : z[k] = a[k] + c * b[k],
         NEW s \in 1 .. MaxSums, i <= s - 1, j <= s - 1
  PROVE  Held(z, (e + c * f) % p25519, s)
<1> DEFINE p == p25519
           v == gfIs(a)
           w == gfIs(b)
<1>1. /\ a \in [gfIndex -> Int] /\ b \in [gfIndex -> Int] /\ i \in 0 .. MaxSums
      /\ j \in 0 .. MaxSums
      /\ e = v % p /\ f = w % p
  BY Zenon DEF Held
<1>2. /\ MaxSums \in Nat /\ gfTop \in Nat /\ gfIndex = 0 .. gfTop /\ p \in Nat \ {0} /\ p \in Int
  BY FieldIs, RoomIs
<1>3. v \in Int /\ w \in Int /\ gfIs(z) \in Int
  BY <1>1, gfType, Zenon
<1>4. gfIs(z) = v + c * w
  <2>1. c \in Int
    OBVIOUS
  <2>2. Combines(gfTop, z, a, c, b)
    BY <1>1, <1>2, <2>1, Zenon DEF Combines
  <2>3. ValueIn(gfTop, gfPower, z) = ValueIn(gfTop, gfPower, a) + c * ValueIn(gfTop, gfPower, b)
    BY <2>2, gfPowerIs, ValueInAdds
  <2> QED
    BY <2>3, Zenon DEF gfIs
<1> HIDE DEF p, v, w
<1>5. e \in Int /\ f \in Int /\ Congruent(p, e, v) /\ Congruent(p, f, w)
  <2>1. Congruent(p, v % p, v) /\ v % p \in Nat /\ Congruent(p, w % p, w) /\ w % p \in Nat
    BY <1>2, <1>3, ModCongruent
  <2>2. \A x \in Nat : x \in Int
    OBVIOUS
  <2> QED
    BY <1>1, <2>1, <2>2, Zenon
<1>6. c \in Int
  OBVIOUS
<1>7. Congruent(p, e + c * f, v + c * w)
  BY <1>2, <1>3, <1>5, <1>6, CongruentAdds
<1>8. (e + c * f) % p = gfIs(z) % p
  <2>1. e + c * f \in Int /\ v + c * w \in Int
    BY <1>3, <1>5
  <2>2. (e + c * f) % p = (v + c * w) % p
    BY <1>2, <1>7, <2>1, CongruentMod
  <2> QED
    BY <1>4, <2>2, Zenon
<1>9. Within(Widest[s], z)
  <2> DEFINE W == Widest[s - 1]
             V == Widest[s]
             U == Widest[i]
             T == Widest[j]
  <2>1. s - 1 \in 0 .. MaxSums /\ s \in 0 .. MaxSums
    BY <1>2
  <2>2. V = 2 * W /\ W \in Nat /\ U \in Nat /\ U <= W /\ T \in Nat /\ T <= W
    BY <1>1, <2>1, WidestIs, Zenon
  <2> HIDE DEF U, V, W, T
  <2>3. ASSUME NEW k \in gfIndex PROVE -V <= z[k] /\ z[k] <= V
    <3> DEFINE x == a[k]
               y == b[k]
    <3>1. x \in Int /\ y \in Int /\ z[k] = x + c * y
      BY <1>1
    <3>2. -U <= x /\ x <= U /\ -T <= y /\ y <= T
      BY Zenon DEF Held, Within, U, T
    <3> HIDE DEF x, y
    <3>3. c * y = y \/ c * y = -y
      BY <3>1
    <3>4. c * y \in Int
      BY <3>1
    <3> QED
      BY <2>2, <3>1, <3>2, <3>3, <3>4
  <2> QED
    BY <2>3, Zenon DEF Within, V
<1>10. s \in 0 .. MaxSums
  BY <1>2
<1> QED
  BY <1>8, <1>9, <1>10, Zenon DEF Held, p

LEMMA HeldWithin ==
  ASSUME NEW a, NEW e, NEW i, Held(a, e, i)
  PROVE  /\ a \in [gfIndex -> Int] /\ Within(Widest[MaxSums], a)
         /\ gfIs(a) \in Int /\ e = gfIs(a) % p25519
<1> DEFINE W == Widest[i]
           V == Widest[MaxSums]
<1>1. a \in [gfIndex -> Int] /\ i \in 0 .. MaxSums /\ Within(W, a) /\ e = gfIs(a) % p25519
  BY Zenon DEF Held
<1>2. W \in Nat /\ W <= V
  BY <1>1, WidestIs, Zenon
<1>3. V \in Int
  BY WidestIs, FieldIs
<1> HIDE DEF W, V
<1>4. ASSUME NEW j \in gfIndex PROVE -V <= a[j] /\ a[j] <= V
  <2>1. a[j] \in Int /\ -W <= a[j] /\ a[j] <= W
    BY <1>1 DEF Within
  <2> QED
    BY <1>2, <1>3, <2>1
<1> QED
  BY <1>1, <1>4, gfType, Zenon DEF Within, V

LEMMA UnpackKeeps ==
  ASSUME FieldInv, NEW x, NEW n \in Numbers, Unpack(x, n)
  PROVE  FieldInv'
<1> DEFINE a == unpack25519(n)
<1>1. n \in [1 .. FieldLimbs -> 0 .. FieldRadix - 1]
  BY Field25519Assumption
<1>2. Held(a, gfIs(a) % p25519, 0)
  BY <1>1, UnpackIs, DigitsHeld, Zenon
<1>3. Put(x, a, gfIs(a), 0)
  BY gfValueIs, Zenon DEF Unpack
<1> QED
  BY <1>2, <1>3, PutKeeps, Zenon

\* The larger count, and one more.
LEMMA SumCount ==
  ASSUME NEW i \in 0 .. MaxSums, NEW j \in 0 .. MaxSums, NEW s,
         s = 1 + (IF i > j THEN i ELSE j), s <= MaxSums
  PROVE  s \in 1 .. MaxSums /\ i <= s - 1 /\ j <= s - 1
<1>1. MaxSums \in Nat
  BY FieldIs
<1> QED
  BY <1>1

LEMMA AddKeeps ==
  ASSUME FieldInv, NEW x \in DOMAIN gf, NEW y \in DOMAIN gf, Add(x, y)
  PROVE  FieldInv'
<1> DEFINE a == gf[x]
           b == gf[y]
           z == A(a, b)
           s == 1 + IF sums[x] > sums[y] THEN sums[x] ELSE sums[y]
           e == exact[x]
           f == exact[y]
<1>1. Held(a, e, sums[x]) /\ Held(b, f, sums[y])
  BY Zenon DEF FieldInv
<1>2. Put(x, z, e + f, s)
  BY Zenon DEF Add
<1>3. s <= MaxSums
  BY <1>2, Zenon DEF Put
<1>4. a \in [gfIndex -> Int] /\ b \in [gfIndex -> Int] /\ sums[x] \in 0 .. MaxSums
      /\ sums[y] \in 0 .. MaxSums
  BY <1>1, Zenon DEF Held
<1> HIDE DEF a, b
<1>5. \A k \in gfIndex : a[k] \in Int /\ b[k] \in Int /\ z[k] = a[k] + b[k] /\ z[k] \in Int
  BY <1>4 DEF A
<1>6. z \in [gfIndex -> Int]
  BY <1>5, Zenon DEF A
<1>7. \A k \in gfIndex : z[k] = a[k] + 1 * b[k]
  <2> HIDE DEF z
  <2> QED
    BY <1>5
<1> HIDE DEF z, s
<1>8. s \in 1 .. MaxSums /\ sums[x] <= s - 1 /\ sums[y] <= s - 1
  BY <1>3, <1>4, SumCount, Zenon DEF s
<1>9. Held(z, (e + 1 * f) % p25519, s)
  <2>1. 1 \in {1, -1}
    OBVIOUS
  <2> HIDE DEF e, f
  <2> QED
    BY <1>1, <1>6, <1>7, <1>8, <2>1, SumHeld
<1>10. e + 1 * f = e + f
  <2>1. e \in Int /\ f \in Int
    <3>1. gfIs(a) \in Int /\ gfIs(b) \in Int /\ p25519 \in Nat \ {0}
      BY <1>4, gfType, RoomIs, Zenon
    <3>2. e = gfIs(a) % p25519 /\ f = gfIs(b) % p25519
      BY <1>1, Zenon DEF Held
    <3> HIDE DEF e, f
    <3> QED
      BY <3>1, <3>2
  <2> HIDE DEF e, f
  <2> QED
    BY <2>1
<1> QED
  BY <1>2, <1>9, <1>10, PutKeeps, Zenon

LEMMA SubtractKeeps ==
  ASSUME FieldInv, NEW x \in DOMAIN gf, NEW y \in DOMAIN gf, Subtract(x, y)
  PROVE  FieldInv'
<1> DEFINE a == gf[x]
           b == gf[y]
           z == Z(a, b)
           s == 1 + IF sums[x] > sums[y] THEN sums[x] ELSE sums[y]
           e == exact[x]
           f == exact[y]
<1>1. Held(a, e, sums[x]) /\ Held(b, f, sums[y])
  BY Zenon DEF FieldInv
<1>2. Put(x, z, e - f, s)
  BY Zenon DEF Subtract
<1>3. s <= MaxSums
  BY <1>2, Zenon DEF Put
<1>4. a \in [gfIndex -> Int] /\ b \in [gfIndex -> Int] /\ sums[x] \in 0 .. MaxSums
      /\ sums[y] \in 0 .. MaxSums
  BY <1>1, Zenon DEF Held
<1> HIDE DEF a, b
<1>5. \A k \in gfIndex : a[k] \in Int /\ b[k] \in Int /\ z[k] = a[k] - b[k] /\ z[k] \in Int
  BY <1>4 DEF Z
<1>6. z \in [gfIndex -> Int]
  BY <1>5, Zenon DEF Z
<1>7. \A k \in gfIndex : z[k] = a[k] + (-1) * b[k]
  <2> HIDE DEF z
  <2> QED
    BY <1>5
<1> HIDE DEF z, s
<1>8. s \in 1 .. MaxSums /\ sums[x] <= s - 1 /\ sums[y] <= s - 1
  BY <1>3, <1>4, SumCount, Zenon DEF s
<1>9. Held(z, (e + (-1) * f) % p25519, s)
  <2>1. -1 \in {1, -1}
    OBVIOUS
  <2> HIDE DEF e, f
  <2> QED
    BY <1>1, <1>6, <1>7, <1>8, <2>1, SumHeld
<1>10. e + (-1) * f = e - f
  <2>1. e \in Int /\ f \in Int
    <3>1. gfIs(a) \in Int /\ gfIs(b) \in Int /\ p25519 \in Nat \ {0}
      BY <1>4, gfType, RoomIs, Zenon
    <3>2. e = gfIs(a) % p25519 /\ f = gfIs(b) % p25519
      BY <1>1, Zenon DEF Held
    <3> HIDE DEF e, f
    <3> QED
      BY <3>1, <3>2
  <2> HIDE DEF e, f
  <2> QED
    BY <2>1
<1> QED
  BY <1>2, <1>9, <1>10, PutKeeps, Zenon

LEMMA MultiplyKeeps ==
  ASSUME FieldInv, NEW x \in DOMAIN gf, NEW y \in DOMAIN gf, Multiply(x, y)
  PROVE  FieldInv'
<1> DEFINE a == gf[x]
           b == gf[y]
           z == M(a, b)
           e == exact[x]
           f == exact[y]
           v == gfIs(a)
           w == gfIs(b)
           p == p25519
<1>1. Held(a, e, sums[x]) /\ Held(b, f, sums[y])
  BY Zenon DEF FieldInv
<1>2. Put(x, z, e * f, 0)
  BY Zenon DEF Multiply
<1> HIDE DEF a, b, e, f
<1>3. /\ a \in [gfIndex -> Int] /\ Within(Widest[MaxSums], a) /\ v \in Int /\ e = v % p
      /\ b \in [gfIndex -> Int] /\ Within(Widest[MaxSums], b) /\ w \in Int /\ f = w % p
  BY <1>1, HeldWithin, Zenon
<1>4. z \in [gfIndex -> Int] /\ Within(Widest[0], z) /\ gfIs(z) \in Int
      /\ Congruent(p, gfIs(z), v * w)
  BY <1>3, MIs, Zenon
<1>5. p \in Nat \ {0} /\ p \in Int
  BY RoomIs
<1> HIDE DEF v, w, p, z
<1>6. /\ Congruent(p, e, v) /\ Congruent(p, f, w) /\ e \in Int /\ f \in Int
  <2>1. Congruent(p, v % p, v) /\ v % p \in Nat /\ Congruent(p, w % p, w) /\ w % p \in Nat
    BY <1>3, <1>5, ModCongruent
  <2>2. \A i \in Nat : i \in Int
    OBVIOUS
  <2> QED
    BY <1>3, <2>1, <2>2, Zenon
<1>7. Congruent(p, e * f, v * w)
  BY <1>3, <1>5, <1>6, CongruentTimes
<1>8. e * f \in Int /\ v * w \in Int
  BY <1>3, <1>6, Product
<1>9. (e * f) % p = (v * w) % p /\ gfIs(z) % p = (v * w) % p
  <2> DEFINE g == e * f
             h == v * w
             i == gfIs(z)
  <2>1. g \in Int /\ h \in Int /\ i \in Int /\ Congruent(p, g, h) /\ Congruent(p, i, h)
    BY <1>4, <1>7, <1>8, Zenon
  <2> HIDE DEF g, h, i
  <2>2. g % p = h % p /\ i % p = h % p
    BY <1>5, <2>1, CongruentMod
  <2> QED
    BY <2>2, Zenon DEF g, h, i
<1>10. 0 \in 0 .. MaxSums
  BY FieldIs
<1>11. Held(z, (e * f) % p, 0)
  BY <1>4, <1>9, <1>10, Zenon DEF Held, p
<1> QED
  BY <1>2, <1>11, PutKeeps, Zenon DEF p

LEMMA RepackKeeps ==
  ASSUME FieldInv, NEW x \in DOMAIN gf, Repack(x)
  PROVE  FieldInv'
<1> DEFINE o == gf[x]
           a == pack25519(o)
           e == exact[x]
<1>1. Held(o, e, sums[x])
  BY Zenon DEF FieldInv
<1>2. Put(x, unpack25519([i \in 1 .. FieldLimbs |-> a[i - 1]]), e, 0)
  BY Zenon DEF Repack
<1> HIDE DEF o, e
<1>3. o \in [gfIndex -> Int] /\ Within(Widest[MaxSums], o) /\ e = gfIs(o) % p25519
  BY <1>1, HeldWithin, Zenon
<1>4. /\ a \in [gfIndex -> Int] /\ \A j \in gfIndex : a[j] \in 0 .. FieldRadix - 1
      /\ gfIs(a) = gfIs(o) % p25519 /\ gfIs(a) \in Int /\ gfIs(a) < p25519
  BY <1>3, PackIs, Zenon
<1> HIDE DEF a
<1>5. unpack25519([i \in 1 .. FieldLimbs |-> a[i - 1]]) = a
  BY <1>4, UnpackPacked, Zenon
<1>6. Held(a, gfIs(a) % p25519, 0)
  BY <1>4, DigitsHeld, Zenon
<1>7. Put(x, a, e, 0) /\ e = gfIs(a)
  BY <1>2, <1>3, <1>4, <1>5, Zenon
<1> QED
  BY <1>6, <1>7, PutKeeps, Zenon

LEMMA FieldInvHolds == Field25519Spec => []FieldInv
<1>1. Field25519Init => FieldInv
  BY DEF Field25519Init, FieldInv
<1>2. FieldInv /\ [Field25519Next]_field25519Vars => FieldInv'
  <2> SUFFICES ASSUME FieldInv, [Field25519Next]_field25519Vars PROVE FieldInv'
    OBVIOUS
  <2>1. ASSUME NEW x \in {1, 2}, NEW n \in Numbers, Unpack(x, n) PROVE FieldInv'
    BY <2>1, UnpackKeeps, Zenon
  <2>2. ASSUME NEW x \in DOMAIN gf, NEW y \in DOMAIN gf, Add(x, y) PROVE FieldInv'
    BY <2>2, AddKeeps, Zenon
  <2>3. ASSUME NEW x \in DOMAIN gf, NEW y \in DOMAIN gf, Subtract(x, y) PROVE FieldInv'
    BY <2>3, SubtractKeeps, Zenon
  <2>4. ASSUME NEW x \in DOMAIN gf, NEW y \in DOMAIN gf, Multiply(x, y) PROVE FieldInv'
    BY <2>4, MultiplyKeeps, Zenon
  <2>5. ASSUME NEW x \in DOMAIN gf, Repack(x) PROVE FieldInv'
    BY <2>5, RepackKeeps, Zenon
  <2>6. CASE Drop
    BY <2>6 DEF Drop, FieldInv
  <2>7. CASE UNCHANGED field25519Vars
    BY <2>7, Zenon DEF field25519Vars, FieldInv
  <2> QED
    BY <2>1, <2>2, <2>3, <2>4, <2>5, <2>6, <2>7, Zenon DEF Field25519Next
<1> QED
  BY <1>1, <1>2, PTL DEF Field25519Spec

(* Whatever is added, subtracted, multiplied and packed again, in any order: a
   number packs to the one number below p that stands for its element. *)
THEOREM PacksAreCanonical == Field25519Spec => []PackIsCanonical
<1>1. FieldInv => PackIsCanonical
  <2> SUFFICES ASSUME FieldInv, NEW x \in DOMAIN gf
               PROVE  LET packed == pack25519(gf[x])
                      IN  /\ \A i \in gfIndex : packed[i] \in 0 .. FieldRadix - 1
                          /\ gfValue(packed) = exact[x]
    BY Zenon DEF PackIsCanonical
  <2> DEFINE o == gf[x]
             a == pack25519(o)
  <2>1. Held(o, exact[x], sums[x])
    BY Zenon DEF FieldInv
  <2> HIDE DEF o
  <2>2. o \in [gfIndex -> Int] /\ Within(Widest[MaxSums], o) /\ exact[x] = gfIs(o) % p25519
    BY <2>1, HeldWithin, Zenon
  <2>3. (\A j \in gfIndex : a[j] \in 0 .. FieldRadix - 1) /\ gfIs(a) = gfIs(o) % p25519
    BY <2>2, PackIs, Zenon
  <2> QED
    BY <2>2, <2>3, gfValueIs, Zenon DEF o
<1> QED
  BY <1>1, FieldInvHolds, PTL

-----------------------------------------------------------------------------
(* The composition *)

(* A step of the composition is a step of one component and leaves the others as
   they are, so a behaviour of the library is a behaviour of every component. *)
THEOREM ImplementsComponents ==
  PrimitivesSpec =>
    /\ SecretBoxSpec /\ SignatureSpec /\ HashSpec /\ Poly1305Spec /\ Salsa20Spec
    /\ Field25519Spec /\ LadderSpec /\ PqcSpec /\ KeyValidationSpec /\ SecureUtilsSpec
<1>1. PrimitivesInit =>
         /\ SecretBoxInit /\ SignatureInit /\ HashInit /\ Poly1305Init /\ Salsa20Init
         /\ Field25519Init /\ LadderInit /\ PqcInit /\ KeyValidationInit /\ SecureUtilsInit
  BY Zenon DEF PrimitivesInit
<1> DEFINE Steps == /\ [SecretBoxNext]_secretBoxVars /\ [SignatureNext]_signatureVars
                    /\ [HashNext]_hash_last /\ [Poly1305Next]_poly1305Vars
                    /\ [Salsa20Next]_salsa20Vars /\ [Field25519Next]_field25519Vars
                    /\ [LadderNext]_ladderVars /\ [PqcNext]_pqcVars
                    /\ [KeyValidationNext]_keyValidationVars
                    /\ [SecureUtilsNext]_utils_last
<1>2. [PrimitivesNext]_primitivesVars => Steps
  <2> USE DEF symbolicVars, arithmeticVars, interfaceVars
  <2>1. CASE BoxStep
    BY <2>1 DEF BoxStep
  <2>2. CASE SignStep
    BY <2>2 DEF SignStep
  <2>3. CASE HashStep
    BY <2>3 DEF HashStep
  <2>4. CASE OneTimeAuthStep
    BY <2>4 DEF OneTimeAuthStep
  <2>5. CASE StreamStep
    BY <2>5 DEF StreamStep
  <2>6. CASE FieldStep
    BY <2>6 DEF FieldStep
  <2>7. CASE ScalarMultStep
    BY <2>7 DEF ScalarMultStep
  <2>8. CASE PqcStep
    BY <2>8 DEF PqcStep
  <2>9. CASE ValidateStep
    BY <2>9 DEF ValidateStep
  <2>10. CASE UtilsStep
    BY <2>10 DEF UtilsStep
  <2>11. CASE UNCHANGED primitivesVars
    BY <2>11 DEF primitivesVars
  <2> QED
    BY <2>1, <2>2, <2>3, <2>4, <2>5, <2>6, <2>7, <2>8, <2>9, <2>10, <2>11, Zenon
       DEF PrimitivesNext
<1>3. Steps => /\ [SecretBoxNext]_secretBoxVars /\ [SignatureNext]_signatureVars
               /\ [HashNext]_hash_last /\ [Poly1305Next]_poly1305Vars
               /\ [Salsa20Next]_salsa20Vars /\ [Field25519Next]_field25519Vars
               /\ [LadderNext]_ladderVars /\ [PqcNext]_pqcVars
               /\ [KeyValidationNext]_keyValidationVars
               /\ [SecureUtilsNext]_utils_last
  BY Zenon
<1> HIDE DEF Steps
<1> QED
  BY <1>1, <1>2, <1>3, PTL
     DEF PrimitivesSpec, SecretBoxSpec, SignatureSpec, HashSpec, Poly1305Spec, Salsa20Spec,
         Field25519Spec, LadderSpec, PqcSpec, KeyValidationSpec, SecureUtilsSpec

(* The types of the components, in the library as a whole. *)
THEOREM PrimitivesTypes == PrimitivesSpec => []TypeOK
<1>1. PrimitivesInit => component \in Components
  BY Zenon DEF PrimitivesInit
<1>2. component \in Components /\ [PrimitivesNext]_primitivesVars => (component \in Components)'
  <2> SUFFICES ASSUME component \in Components, [PrimitivesNext]_primitivesVars
               PROVE  component' \in Components
    BY DEF Components
  <2>1. component' = component
    BY DEF PrimitivesNext, BoxStep, SignStep, HashStep, OneTimeAuthStep, StreamStep, FieldStep,
           ScalarMultStep, PqcStep, ValidateStep, UtilsStep, primitivesVars
  <2> QED
    BY <2>1
<1>3. TypeOK <=> /\ component \in Components
                 /\ SecretBoxTypeOK /\ SignatureTypeOK /\ LadderTypeOK /\ PqcTypeOK
                 /\ KeyValidationTypeOK
  BY Zenon DEF TypeOK
<1> QED
  BY <1>1, <1>2, <1>3, ImplementsComponents, SecretBoxTypes, SignatureTypes, LadderTypes,
     PqcSuccessIsComplete, KeyValidationTypes, PTL DEF PrimitivesSpec

(* What is proved of each component holds in the library as a whole: boxes and
   signatures, the hash, the key stream, the authenticator, the field, the
   multiplications, the stub, validated key generation and checked arithmetic. *)
THEOREM PrimitivesAreRight ==
  PrimitivesSpec =>
    [](/\ OpenedWasSealed /\ SealedBoxOpens /\ WhatOpenLeaves
       /\ OpenedWasSigned /\ SignedOpens /\ WhatSignOpenLeaves
       /\ HashIsStandard /\ StreamIsXSalsa20 /\ MacIsPolynomial
       /\ PackIsCanonical /\ LadderMultiplies /\ SuccessIsComplete
       /\ ValidatedReturn /\ RefusedIfNotExact /\ MinMaxOrder)
BY ImplementsComponents, OpenedIsSealed, SealedIsOpened, OpenLeaves, OpenedIsSigned,
   WhatIsSignedOpens, WhatOpeningsLeave, Sha512IsStandard, StreamIsSalsa20, MacIsCorrect,
   PacksAreCanonical, LadderIsRight, PqcSuccessIsComplete, ReturnIsValidated,
   CheckedIsExact, ChoiceByDistance, PTL
=============================================================================
