------------------------------ MODULE OnceInit ------------------------------
(***************************************************************************)
(* What a one-time initialisation promises its callers: the initialiser is *)
(* run at most once, by one caller, and no caller leaves before the value  *)
(* the initialiser computes has been published.  It says nothing of how    *)
(* callers wait; Drng implements it with two atomics.                      *)
(***************************************************************************)
CONSTANT Callers

VARIABLES
    phase,    \* "unstarted", "running" or "decided"
    runner,   \* the callers inside the initialiser, at most one
    pending   \* the callers that asked for the value and have not left

onceVars == <<phase, runner, pending>>

Init ==
    /\ phase = "unstarted"
    /\ runner = {}
    /\ pending = {}

Enter(c) ==
    /\ c \notin pending
    /\ pending' = pending \union {c}
    /\ UNCHANGED <<phase, runner>>

Begin(c) ==
    /\ phase = "unstarted"
    /\ c \in pending
    /\ phase' = "running"
    /\ runner' = {c}
    /\ UNCHANGED pending

Decide ==
    /\ phase = "running"
    /\ phase' = "decided"
    /\ runner' = {}
    /\ UNCHANGED pending

Leave(c) ==
    /\ phase = "decided"
    /\ c \in pending
    /\ pending' = pending \ {c}
    /\ UNCHANGED <<phase, runner>>

Next ==
    \/ Decide
    \/ \E c \in Callers : Enter(c) \/ Begin(c) \/ Leave(c)

Spec == Init /\ [][Next]_onceVars
=============================================================================
