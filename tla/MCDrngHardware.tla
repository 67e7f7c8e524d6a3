--------------------------- MODULE MCDrngHardware ---------------------------
(***************************************************************************)
(* Drng on an x86 processor that has generators, to compare the selection  *)
(* with the order of priorities the repository documents.                  *)
(***************************************************************************)
EXTENDS Drng

CONSTANT Offered   \* the generators of the processor, of "RDSEED" and "RDRAND"

(* What the headers of randombytes.h (line 8), randombytes.c and drng.c say, the
   first priority is the "Hardware DRNG (RDSEED/RDRAND/ARM RNDR)": where the
   processor has one, an initialisation that is about to tell its callers so has
   chosen it.  On x86 drng_init does not ask: x86_has_rdrand and x86_has_rdseed
   have no caller, and what is offered makes no difference. *)
HardwareFirst ==
    Offered # {} => \A t \in Threads : pc[t] \in Publishing => chosen[t] # "NONE"
=============================================================================
