------------------------------- MODULE Ladder -------------------------------
(***************************************************************************)
(* The two multiplications by a scalar of src/src/tweetnacl/tweetnacl.c:   *)
(* crypto_scalarmult on Curve25519, which adds only points whose           *)
(* difference it knows, and scalarmult on Ed25519, which adds any.         *)
(*                                                                         *)
(* A point is the multiple of the base point it is; a scalar is its bits,  *)
(* the lowest at 0.  The code has 256 of them.                             *)
(***************************************************************************)
EXTENDS Integers

CONSTANT Bits

ASSUME LadderAssumption == Bits \in Nat /\ Bits >= 5

VARIABLES
    curve,   \* the function called, or "none"
    scalar,  \* the bits it runs over, after clamping
    bit,     \* i of the loop
    low,     \* (a, c) of crypto_scalarmult, p of scalarmult
    high,    \* (b, d) of crypto_scalarmult, q of scalarmult
    read     \* history: the number that the bits read so far make

ladderVars == <<curve, scalar, bit, low, high, read>>

Scalars == [0 .. Bits - 1 -> {0, 1}]
NoSum == -1   \* no multiple: a sum whose difference is not the base point

LadderInit ==
    /\ curve = "none"
    /\ scalar = [i \in 0 .. Bits - 1 |-> 0]
    /\ bit = -1
    /\ low = 0 /\ high = 1
    /\ read = 0

\* Bits 0, 1, 2 and the top one are cleared, the one below the top is set.
Clamp(n) ==
    [i \in 0 .. Bits - 1 |->
        IF i < 3 \/ i = Bits - 1 THEN 0 ELSE IF i = Bits - 2 THEN 1 ELSE n[i]]

Enter(function, n, first) ==
    /\ curve = "none"
    /\ curve' = function
    /\ scalar' = n
    /\ bit' = first
    /\ low' = 0 /\ high' = 1
    /\ read' = 0

\* crypto_scalarmult leaves out the top bit, which it has cleared.
EnterMontgomery(n) == Enter("montgomery", Clamp(n), Bits - 2)

\* scalarmult is given clamped and reduced scalars and runs over all bits.
EnterEdwards(n) == Enter("edwards", n, Bits - 1)

Double(u) == IF u = NoSum THEN NoSum ELSE 2 * u

AddPoints(u, v) ==
    IF \/ u = NoSum \/ v = NoSum
       \/ curve = "montgomery" /\ u - v \notin {1, -1}
    THEN NoSum
    ELSE u + v

\* sel25519 and cswap, before and after the arithmetic.
Swapped(b, u, v) == IF b = 1 THEN <<v, u>> ELSE <<u, v>>

\* Variant: the second exchange is left out.
LadderStepOneSwap ==
    /\ bit >= 0
    /\ LET in == Swapped(scalar[bit], low, high)
       IN  low' = Double(in[1]) /\ high' = AddPoints(in[1], in[2])
    /\ read' = 2 * read + scalar[bit]
    /\ bit' = bit - 1
    /\ UNCHANGED <<curve, scalar>>

LadderStep ==
    /\ bit >= 0
    /\ LET in == Swapped(scalar[bit], low, high)
           out == Swapped(scalar[bit], Double(in[1]), AddPoints(in[1], in[2]))
       IN  low' = out[1] /\ high' = out[2]
    /\ read' = 2 * read + scalar[bit]
    /\ bit' = bit - 1
    /\ UNCHANGED <<curve, scalar>>

LadderReturn ==
    /\ curve # "none" /\ bit = -1
    /\ curve' = "none"
    /\ low' = 0 /\ high' = 1
    /\ read' = 0
    /\ scalar' = [i \in 0 .. Bits - 1 |-> 0]
    /\ UNCHANGED bit

LadderNext ==
    \/ \E n \in Scalars : EnterMontgomery(n) \/ EnterEdwards(n)
    \/ LadderStep
    \/ LadderReturn

LadderSpec == LadderInit /\ [][LadderNext]_ladderVars
-----------------------------------------------------------------------------
LadderTypeOK ==
    /\ curve \in {"none", "montgomery", "edwards"}
    /\ scalar \in Scalars
    /\ bit \in -1 .. Bits - 1
    /\ low \in Nat \union {NoSum} /\ high \in Nat \union {NoSum}
    /\ read \in Nat

(* Whatever the bits are, the two points stay one base point apart, so that the
   addition on Curve25519 is one it can do, and the lower is the multiple that
   the bits read so far name. *)
LadderMultiplies == low = read /\ high = read + 1
=============================================================================
