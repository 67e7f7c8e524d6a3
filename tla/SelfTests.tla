----------------------------- MODULE SelfTests -----------------------------
(***************************************************************************)
(* The two services of the library that test it: the core one with         *)
(* nacl_init and the selection of an implementation (Lifecycle), and the   *)
(* FIPS module (FipsModule).                                               *)
(*                                                                         *)
(* Neither calls the other or reads a flag or a counter of the other, so   *)
(* their steps do not interact and a behaviour is one of either.           *)
(***************************************************************************)
EXTENDS Lifecycle, FipsModule

VARIABLE service   \* the one whose functions are called

\* The FIPS module does not look at the processor: one set of features is enough.
SelfTestsInit ==
    /\ service \in {"core", "fips"}
    /\ Init /\ FipsInit
    /\ service = "fips" => features = {}

selfTestsVars == <<service, vars, fipsVars>>

\* The other stays as it is.
CoreStep == service = "core" /\ Next /\ UNCHANGED <<service, fipsVars>>

FipsStep == service = "fips" /\ FipsNext /\ UNCHANGED <<service, vars>>

SelfTestsNext == CoreStep \/ FipsStep

SelfTestsSpec == SelfTestsInit /\ [][SelfTestsNext]_selfTestsVars
=============================================================================
