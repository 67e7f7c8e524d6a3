--------------------------- MODULE MCSalsa20Lanes ---------------------------
(***************************************************************************)
(* Instance of Salsa20Lanes for TLC; the words are those of MCPrimitives.  *)
(***************************************************************************)
EXTENDS Salsa20Lanes, Bitwise

MCXor(x, y) == x ^^ y
MCRotations == [i \in 0 .. 3 |-> <<8, 2, 2, 4>>[i + 1]]
MCsigma == [i \in 0 .. 3 |-> <<5, 3, 14, 9>>[i + 1]]
MCStreamInputs ==
    {[k |-> [i \in 0 .. 7 |-> (3 * i + 1) % 16], n |-> [i \in 0 .. 5 |-> (7 * i + 2) % 16]],
     [k |-> [i \in 0 .. 7 |-> 0], n |-> [i \in 0 .. 5 |-> 0]]}
=============================================================================
