---------------------------- MODULE SecureUtils ----------------------------
(***************************************************************************)
(* The checked operations and the branchless choices of                    *)
(* src/src/core/secure_utils.c: one call after another.                    *)
(*                                                                         *)
(* An int is -INT_MAX - 1 .. INT_MAX, a size_t 0 .. 2 * Half - 1.          *)
(***************************************************************************)
EXTENDS Integers

CONSTANTS
    INT_MAX,
    Half      \* half of the values of a size_t, 2^63 in the code

ASSUME SecureUtilsAssumption == INT_MAX \in Nat \ {0} /\ Half \in Nat \ {0}

VARIABLE utils_last   \* the last call: its operation, operands and outcome

INT_MIN == -INT_MAX - 1
SIZE_MAX == 2 * Half - 1
Ints == INT_MIN .. INT_MAX
SizeTs == 0 .. SIZE_MAX

SecureUtilsInit == utils_last = [op |-> "none"]

-----------------------------------------------------------------------------
\* Division in C truncates towards zero; b is not zero.
Magnitude(x) == IF x < 0 THEN -x ELSE x
CDiv(a, b) ==
    IF (a < 0) = (b < 0) THEN Magnitude(a) \div Magnitude(b)
                         ELSE -(Magnitude(a) \div Magnitude(b))

AddOverflows(a, b) == (b > 0 /\ a > INT_MAX - b) \/ (b < 0 /\ a < INT_MIN - b)

SubOverflows(a, b) == (b > 0 /\ a < INT_MIN + b) \/ (b < 0 /\ a > INT_MAX + b)

\* Variant: two negative factors are compared with the other limit.
MulOverflowsSigns(a, b) ==
    \/ a > 0 /\ b > 0 /\ a > CDiv(INT_MAX, b)
    \/ a > 0 /\ b <= 0 /\ b < CDiv(INT_MIN, a)
    \/ a <= 0 /\ b > 0 /\ a < CDiv(INT_MIN, b)
    \/ a < 0 /\ b <= 0 /\ b < CDiv(INT_MIN, a)

MulOverflows(a, b) ==
    \/ a > 0 /\ b > 0 /\ a > CDiv(INT_MAX, b)
    \/ a > 0 /\ b <= 0 /\ b < CDiv(INT_MIN, a)
    \/ a <= 0 /\ b > 0 /\ a < CDiv(INT_MIN, b)
    \/ a < 0 /\ b <= 0 /\ b < CDiv(INT_MAX, a)

AddSizeOverflows(a, b) == a > SIZE_MAX - b

\* A factor of zero is answered before the division.
MulSizeOverflows(a, b) == a # 0 /\ b # 0 /\ a > SIZE_MAX \div b

-----------------------------------------------------------------------------
\* Variant: the order of the operands is swapped.
BelowSwapped(a, b) == (b - a) % (2 * Half) >= Half

\* The sign bit of the wrapped difference, taken for a < b.
Below(a, b) == (a - b) % (2 * Half) >= Half

constant_time_min(a, b) == IF Below(a, b) THEN a ELSE b
constant_time_max(a, b) == IF Below(a, b) THEN b ELSE a

-----------------------------------------------------------------------------
Record(op, a, b, outcome) ==
    utils_last' = [op |-> op, a |-> a, b |-> b, outcome |-> outcome]

\* *result is stored unless it is NULL or the operands are refused.
Checked(null, refused, value) ==
    [null |-> null, ret |-> IF null \/ refused THEN -1 ELSE 0, value |-> value]

CallInt(a, b, null) ==
    \/ Record("safe_add_int", a, b, Checked(null, AddOverflows(a, b), a + b))
    \/ Record("safe_sub_int", a, b, Checked(null, SubOverflows(a, b), a - b))
    \/ Record("safe_mul_int", a, b, Checked(null, MulOverflows(a, b), a * b))

CallSize(a, b, null) ==
    \/ Record("safe_add_size", a, b, Checked(null, AddSizeOverflows(a, b), a + b))
    \/ Record("safe_mul_size", a, b, Checked(null, MulSizeOverflows(a, b), a * b))

CallChoice(a, b) ==
    \/ Record("constant_time_min", a, b, constant_time_min(a, b))
    \/ Record("constant_time_max", a, b, constant_time_max(a, b))

UtilsReturn ==
    /\ utils_last.op # "none"
    /\ utils_last' = [op |-> "none"]

SecureUtilsNext ==
    \/ /\ utils_last.op = "none"
       /\ \/ \E a, b \in Ints, null \in BOOLEAN : CallInt(a, b, null)
          \/ \E a, b \in SizeTs, null \in BOOLEAN : CallSize(a, b, null)
          \/ \E a, b \in SizeTs : CallChoice(a, b)
    \/ UtilsReturn

SecureUtilsSpec == SecureUtilsInit /\ [][SecureUtilsNext]_utils_last
-----------------------------------------------------------------------------
IntOps == {"safe_add_int", "safe_sub_int", "safe_mul_int"}
SizeOps == {"safe_add_size", "safe_mul_size"}

(* A checked operation succeeds exactly when the type can hold the result, which
   C would otherwise leave undefined or wrapped: no pair of operands is refused
   without need, also at INT_MIN, where quotients are rounded towards zero. *)
RefusedIfNotExact ==
    utils_last.op \in IntOps \union SizeOps =>
        (utils_last.outcome.ret = 0 <=>
            /\ ~utils_last.outcome.null
            /\ utils_last.outcome.value \in
                   IF utils_last.op \in IntOps THEN Ints ELSE SizeTs)

(* The branchless minimum and maximum return one of their operands, and the right
   one when these are less than half of the range apart (or half, with the smaller
   one first): the sign of the wrapped difference is then the order. *)
MinMaxOrder ==
    utils_last.op \in {"constant_time_min", "constant_time_max"} =>
        LET a == utils_last.a
            b == utils_last.b
            near == -Half <= a - b /\ a - b < Half
        IN  /\ utils_last.outcome \in {a, b}
            /\ near => utils_last.outcome =
                   IF (a < b) = (utils_last.op = "constant_time_min") THEN a ELSE b
=============================================================================
