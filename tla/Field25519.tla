----------------------------- MODULE Field25519 -----------------------------
(***************************************************************************)
(* The field operations of src/src/tweetnacl/tweetnacl.c on numbers in     *)
(* limbs, which are signed, never fully reduced, and made canonical only   *)
(* when they are packed.                                                   *)
(*                                                                         *)
(* The code has 16 limbs of radix 2^16 and p = 2^255 - 19; here p is a     *)
(* number of the same form, Radix^Limbs / 2 - Less, given by parameters:   *)
(* that the code's is prime matters only for division.                     *)
(***************************************************************************)
EXTENDS Integers, Sequences

CONSTANTS
    FieldLimbs,  \* 16 in the code
    FieldRadix,  \* 2^16 in the code
    Less,        \* 19 in the code
    Numbers,     \* what is unpacked, sequences of limbs
    MaxFieldOps, \* bound: operations in a row
    MaxSums      \* bound: additions and subtractions since a product

VARIABLES
    gf,     \* the numbers held, at most two
    exact,  \* history: the elements they stand for
    sums,   \* additions and subtractions in the making of each
    ops     \* operations since the numbers were dropped

field25519Vars == <<gf, exact, sums, ops>>

gfIndex == 0 .. FieldLimbs - 1
gfTop == FieldLimbs - 1

gfPower[i \in 0 .. FieldLimbs] == IF i = 0 THEN 1 ELSE FieldRadix * gfPower[i - 1]

\* The prime, and Radix^Limbs modulo it: 38 in the code.
p25519 == (gfPower[FieldLimbs] \div 2) - Less
Fold == 2 * Less

\* How far from 0 the limbs of a product are, and those of s sums of products.
Widest[s \in 0 .. MaxSums] ==
    IF s = 0 THEN FieldRadix + Fold ELSE 2 * Widest[s - 1]

\* So few sums, or so many limbs, that two rounds of carrying bring any product below
\* Radix^Limbs: far from close with 16 limbs of 2^16, and needed for canonical forms.
ASSUME Field25519Assumption ==
    /\ FieldLimbs \in Nat /\ FieldLimbs > 1
    /\ FieldRadix \in Nat /\ FieldRadix % 2 = 0 /\ Less \in 1 .. FieldRadix
    /\ Numbers \subseteq [1 .. FieldLimbs -> 0 .. FieldRadix - 1]
    /\ MaxFieldOps \in Nat /\ MaxSums \in Nat
    /\ LET limb == FieldLimbs * (Fold * (Widest[MaxSums] * Widest[MaxSums]))
       IN  Fold * ((limb \div (FieldRadix - 1)) + 2) <= gfPower[FieldLimbs]

-----------------------------------------------------------------------------
gfSum(f) ==
    LET s[i \in gfIndex] == f[i] + IF i = 0 THEN 0 ELSE s[i - 1]
    IN  s[gfTop]

\* Shifts of negative numbers round down, and limb 0 may be out of range again.
car25519(o) ==
    LET u[i \in gfIndex] == o[i] + IF i = 0 THEN 0 ELSE u[i - 1] \div FieldRadix
    IN  [i \in gfIndex |->
            (u[i] % FieldRadix) + IF i = 0 THEN Fold * (u[gfTop] \div FieldRadix) ELSE 0]

A(a, b) == [i \in gfIndex |-> a[i] + b[i]]
Z(a, b) == [i \in gfIndex |-> a[i] - b[i]]

M(a, b) ==
    LET Column(k) ==
            gfSum([i \in gfIndex |-> IF k - i \in gfIndex THEN a[i] * b[k - i] ELSE 0])
    IN  car25519(car25519([k \in gfIndex |-> Column(k) + Fold * Column(k + FieldLimbs)]))

\* The top bit is dropped; a number between p and 2^255 stays as it is.
unpack25519(n) ==
    [i \in gfIndex |-> IF i = gfTop THEN n[i + 1] % (FieldRadix \div 2) ELSE n[i + 1]]

p25519Limbs ==
    [i \in gfIndex |-> IF i = 0 THEN FieldRadix - Less
                       ELSE IF i = gfTop THEN (FieldRadix \div 2) - 1 ELSE FieldRadix - 1]

\* p is subtracted limb by limb; bit 16 of a limb is its borrow, and that of the
\* top limb says that t was less than p.
SubtractOnce(t) ==
    LET m[i \in gfIndex] ==
            t[i] - p25519Limbs[i]
                - IF i = 0 THEN 0 ELSE (m[i - 1] \div FieldRadix) % 2
    IN  IF (m[gfTop] \div FieldRadix) % 2 = 1 THEN t
        ELSE [i \in gfIndex |-> IF i = gfTop THEN m[i] ELSE m[i] % FieldRadix]

\* Variant: p is subtracted at most once.
pack25519Once(n) == SubtractOnce(car25519(car25519(car25519(n))))

pack25519(n) == SubtractOnce(SubtractOnce(car25519(car25519(car25519(n)))))

-----------------------------------------------------------------------------
gfValue(a) == gfSum([i \in gfIndex |-> a[i] * gfPower[i]])

Field25519Init ==
    /\ gf = <<>> /\ exact = <<>> /\ sums = <<>>
    /\ ops = 0

Setting(f, x, v) == [y \in {x} \cup DOMAIN f |-> IF y = x THEN v ELSE f[y]]

Put(x, a, element, count) ==
    /\ ops < MaxFieldOps
    /\ ops' = ops + 1
    /\ count <= MaxSums
    /\ gf' = Setting(gf, x, a)
    /\ exact' = Setting(exact, x, element % p25519)
    /\ sums' = Setting(sums, x, count)

Unpack(x, n) == Put(x, unpack25519(n), gfValue(unpack25519(n)), 0)

Add(x, y) ==
    Put(x, A(gf[x], gf[y]), exact[x] + exact[y],
        1 + IF sums[x] > sums[y] THEN sums[x] ELSE sums[y])

Subtract(x, y) ==
    Put(x, Z(gf[x], gf[y]), exact[x] - exact[y],
        1 + IF sums[x] > sums[y] THEN sums[x] ELSE sums[y])

Multiply(x, y) == Put(x, M(gf[x], gf[y]), exact[x] * exact[y], 0)

\* What pack25519 writes is unpacked again later, by a reader.
Repack(x) ==
    LET n == [i \in 1 .. FieldLimbs |-> pack25519(gf[x])[i - 1]]
    IN  Put(x, unpack25519(n), exact[x], 0)

Drop ==
    /\ gf # <<>>
    /\ gf' = <<>> /\ exact' = <<>> /\ sums' = <<>>
    /\ ops' = 0

Field25519Next ==
    \/ \E x \in {1, 2}, n \in Numbers : Unpack(x, n)
    \/ \E x, y \in DOMAIN gf : Add(x, y) \/ Subtract(x, y) \/ Multiply(x, y)
    \/ \E x \in DOMAIN gf : Repack(x)
    \/ Drop

Field25519Spec == Field25519Init /\ [][Field25519Next]_field25519Vars
-----------------------------------------------------------------------------
(* After any such operations a number packs to the one canonical form of the
   element it stands for, so that two numbers are equal exactly when their bytes
   are (neq25519, par25519 and the comparison of signatures rest on it): for
   sums and negative differences, for numbers unpacked from above p, and for
   the few values from 2 p on that need both subtractions. *)
PackIsCanonical ==
    \A x \in DOMAIN gf :
        LET packed == pack25519(gf[x])
        IN  /\ \A i \in gfIndex : packed[i] \in 0 .. FieldRadix - 1
            /\ gfValue(packed) = exact[x]
=============================================================================
