---------------------------- MODULE MCPrimitives ----------------------------
(***************************************************************************)
(* Instance of Primitives for TLC.                                         *)
(***************************************************************************)
EXTENDS Primitives, MCSignature, Bitwise, TLC

\* Parties and nonces are only ever compared.
MCSymmetry == Permutations(Parties) \union Permutations(Nonces)

\* The halves of an r that reduce most, s at its ends, and messages of one block, of
\* part of one, and of one and a bit.
MCRKeys == [1 .. 4 -> {0, 7}] \union {<<3, 0, 0, 0>>, <<1, 2, 3, 4>>}
MCSKeys == {<<0, 0, 0, 0>>, <<7, 7, 7, 7>>}
MCMacMessages == UNION {[1 .. n -> {0, 7}] : n \in {1, 3, 4, 5}}

\* Zero, one, the numbers at p - 1 and p, the largest, and one in between.
MCNumbers == {<<0, 0, 0, 0>>, <<1, 0, 0, 0>>, <<13, 15, 15, 7>>, <<14, 15, 15, 7>>,
              <<15, 15, 15, 15>>, <<3, 9, 1, 12>>}

\* Words of four bits, in which the code's rotations 7, 9, 13, 18 are 3, 1, 1, 2.
MCXor(x, y) == x ^^ y
MCRotations == [i \in 0 .. 3 |-> <<8, 2, 2, 4>>[i + 1]]
MCsigma == [i \in 0 .. 3 |-> <<5, 3, 14, 9>>[i + 1]]
MCStreamInputs ==
    {[k |-> [i \in 0 .. 7 |-> (3 * i + 1) % 16], n |-> [i \in 0 .. 5 |-> (7 * i + 2) % 16]],
     [k |-> [i \in 0 .. 7 |-> 0], n |-> [i \in 0 .. 5 |-> 0]]}

\* One algorithm of each kind; sizes that have to be told apart differ.
MCTable ==
    [algo \in {"KYBER", "DILITHIUM"} |->
        IF algo = "KYBER" THEN [pk |-> 2, sk |-> 3, ct |-> 2, sig |-> 0, ss |-> 1]
                          ELSE [pk |-> 1, sk |-> 2, ct |-> 0, sig |-> 2, ss |-> 1]]
=============================================================================
