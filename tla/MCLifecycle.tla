---------------------------- MODULE MCLifecycle ----------------------------
(***************************************************************************)
(* Lifecycle on an x86-64 table: the software implementation and the two   *)
(* vector ones, in the order and with the priorities of the code.          *)
(***************************************************************************)
EXTENDS Lifecycle

MCFeatures == {"SSE2", "AVX2"}

MCImplementations ==
    << [name |-> "software", priority |-> 0, required |-> {}],
       [name |-> "sse2", priority |-> 10, required |-> {"SSE2"}],
       [name |-> "avx2", priority |-> 20, required |-> {"AVX2"}] >>

Symmetry == Permutations(Threads)
=============================================================================
