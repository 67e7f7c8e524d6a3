------------------------------ MODULE Poly1305 ------------------------------
(***************************************************************************)
(* crypto_onetimeauth (src/src/tweetnacl/tweetnacl.c): the accumulator in  *)
(* limbs, reduced only partly after each block and fully at the end.       *)
(*                                                                         *)
(* The code has 17 limbs of radix 256 and p = 2^130 - 5 = 4 Radix^16 - 5;  *)
(* here the number and the radix of the limbs are parameters.  The limbs   *)
(* of the key are not clamped: what holds for every r holds for those the  *)
(* code clamps.  Numbers do not wrap: with 17 limbs of a byte the largest  *)
(* sum is far below 2^32.                                                  *)
(***************************************************************************)
EXTENDS Integers, Sequences

CONSTANTS
    Limbs,        \* 17 in the code; a block has one byte less
    Radix,        \* 256 in the code
    RKeys, SKeys, \* the halves of the key, bytes as in a message
    MacMessages   \* sequences of bytes, not empty

\* No more limbs than a limb has values (17 and 256 in the code): that bounds what a
\* product of two accumulators sends above the top limb.
ASSUME Poly1305Assumption ==
    /\ Limbs \in Nat /\ Limbs > 4 /\ Radix \in Nat /\ Radix >= 8 /\ Radix % 4 = 0
    /\ Limbs <= Radix
    /\ RKeys \union SKeys \subseteq [1 .. Limbs - 1 -> 0 .. Radix - 1]
    /\ MacMessages \subseteq Seq(0 .. Radix - 1)

VARIABLES
    mac_in,   \* r, s and the message of the call
    mac_pc,   \* where the call is
    mac_pos,  \* bytes consumed
    mac_h     \* the accumulator, then the result

poly1305Vars == <<mac_in, mac_pc, mac_pos, mac_h>>

Index == 0 .. Limbs - 1
Top == Limbs - 1

Poly1305Init ==
    /\ mac_in = [m |-> <<>>]
    /\ mac_pc = "idle"
    /\ mac_pos = 0
    /\ mac_h = [j \in Index |-> 0]

-----------------------------------------------------------------------------
\* The sums u of a chain over limbs x into which c is carried.
Chain(x, c) ==
    LET u[j \in Index] == x[j] + IF j = 0 THEN c ELSE u[j - 1] \div Radix
    IN  u

add1305(h, c) ==
    LET u == Chain([j \in Index |-> h[j] + c[j]], 0)
    IN  [j \in Index |-> u[j] % Radix]

minusp == [j \in Index |-> IF j = 0 THEN 5 ELSE IF j = Top THEN Radix - 4 ELSE 0]

\* A half of the key; its limb 16 is zero.
HalfKey(k) == [j \in Index |-> IF j = Top THEN 0 ELSE k[j + 1]]

\* The next bytes of m, followed by a one also when they are fewer.
BlockAt(m, pos) ==
    LET size == IF Len(m) - pos < Top THEN Len(m) - pos ELSE Top
    IN  [j \in Index |-> IF j < size THEN m[pos + j + 1]
                         ELSE IF j = size THEN 1 ELSE 0]

\* Radix^Limbs modulo p: 320 in the code.
Wrap == 5 * (Radix \div 4)

SumOver(f) ==
    LET s[j \in Index] == f[j] + IF j = 0 THEN 0 ELSE s[j - 1]
    IN  s[Top]

MultiplyBy(h, r) ==
    [i \in Index |-> SumOver([j \in Index |->
        h[j] * IF j <= i THEN r[i - j] ELSE Wrap * r[i + Limbs - j]])]

\* Variant: what is above 2^130 is added once, not five times.
SqueezeOnce(x) ==
    LET u == Chain(x, 0)
        v == Chain([j \in Index |-> IF j = Top THEN u[Top] % 4 ELSE u[j] % Radix],
                   u[Top] \div 4)
    IN  [j \in Index |-> IF j = Top THEN v[Top] ELSE v[j] % Radix]

\* Two chains; what the second leaves in the top limb stays there.
Squeeze(x) ==
    LET u == Chain(x, 0)
        v == Chain([j \in Index |-> IF j = Top THEN u[Top] % 4 ELSE u[j] % Radix],
                   5 * (u[Top] \div 4))
    IN  [j \in Index |-> IF j = Top THEN v[Top] ELSE v[j] % Radix]

\* p is subtracted, and added back when the top bit says that h was below p.
Freeze(h) ==
    LET less == add1305(h, minusp)
    IN  IF less[Top] >= Radix \div 2 THEN h ELSE less

-----------------------------------------------------------------------------
MacStart(r, s, m) ==
    /\ mac_pc = "idle"
    /\ mac_pc' = "loop"
    /\ mac_in' = [r |-> r, s |-> s, m |-> m]
    /\ mac_h' = [j \in Index |-> 0]
    /\ UNCHANGED mac_pos

\* One round of the while loop.
MacBlock ==
    /\ mac_pc = "loop"
    /\ mac_pos < Len(mac_in.m)
    /\ mac_h' = Squeeze(MultiplyBy(add1305(mac_h, BlockAt(mac_in.m, mac_pos)),
                                   HalfKey(mac_in.r)))
    /\ mac_pos' = IF Len(mac_in.m) - mac_pos < Top THEN Len(mac_in.m) ELSE mac_pos + Top
    /\ UNCHANGED <<mac_in, mac_pc>>

MacFinish ==
    /\ mac_pc = "loop"
    /\ mac_pos = Len(mac_in.m)
    /\ mac_h' = add1305(Freeze(mac_h), HalfKey(mac_in.s))
    /\ mac_pc' = "done"
    /\ UNCHANGED <<mac_in, mac_pos>>

MacReturn ==
    /\ mac_pc = "done"
    /\ mac_pc' = "idle"
    /\ mac_in' = [m |-> <<>>]
    /\ mac_pos' = 0
    /\ mac_h' = [j \in Index |-> 0]

Poly1305Next ==
    \/ \E r \in RKeys, s \in SKeys, m \in MacMessages : MacStart(r, s, m)
    \/ MacBlock \/ MacFinish \/ MacReturn

Poly1305Spec == Poly1305Init /\ [][Poly1305Next]_poly1305Vars
-----------------------------------------------------------------------------
Power[j \in 0 .. Limbs] == IF j = 0 THEN 1 ELSE Radix * Power[j - 1]
Value(x) == SumOver([j \in Index |-> x[j] * Power[j]])
p1305 == 4 * Power[Top] - 5

\* The polynomial of the blocks before pos, evaluated at r.
Polynomial(r, m, pos) ==
    LET count == (pos + Top - 1) \div Top
        h[i \in 0 .. count] ==
            IF i = 0 THEN 0
            ELSE ((h[i - 1] + Value(BlockAt(m, (i - 1) * Top))) * Value(r)) % p1305
    IN  h[count]

(* The partly reduced accumulator stands for the polynomial of the blocks read,
   is less than 2 p, so that one subtraction is enough; the result is the
   polynomial plus s, cut to the size of a tag. *)
MacIsPolynomial ==
    LET r == HalfKey(mac_in.r)
        tag == [j \in Index |-> IF j = Top THEN 0 ELSE mac_h[j]]
    IN  /\ mac_pc = "loop" =>
               /\ Value(mac_h) % p1305 = Polynomial(r, mac_in.m, mac_pos)
               /\ Value(mac_h) < 2 * p1305
        /\ mac_pc = "done" =>
               Value(tag) = (Polynomial(r, mac_in.m, Len(mac_in.m))
                                + Value(HalfKey(mac_in.s))) % Power[Top]
=============================================================================
