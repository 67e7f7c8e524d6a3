-------------------------------- MODULE Drng --------------------------------
(***************************************************************************)
(* The one-time initialisation of the hardware generator driver,           *)
(* src/src/drivers/rng/drng.c, called concurrently from every entry point  *)
(* of the driver.  One action is one access to a shared atomic.            *)
(*                                                                         *)
(* The body of drng_fill, the continuous health test and drng_mark_failure *)
(* lie behind the location "generate": it has no action, and the theorem   *)
(* HardwareNeverSelected of DrngProofs shows that no thread gets there.    *)
(***************************************************************************)
EXTENDS Naturals

CONSTANTS
    Threads,   \* the threads that call the driver
    Platform   \* the build: "x86", "arm" (HAS_ARM_RNG) or "other"

ASSUME PlatformAssumption == Platform \in {"x86", "arm", "other"}

VARIABLES
    rng_impl,         \* the generator selected for every later call
    initialized,      \* drng_state.initialized
    drng_init_state,  \* 0 not started, 1 in progress, 2 complete
    pc,               \* where each thread is
    chosen,           \* local of drng_init
    nested            \* inside the drng_fill of the power-up self-test

drngVars == <<rng_impl, initialized, drng_init_state, pc, chosen, nested>>

Impls == {"NONE", "ARM_RNDR"}

Choosing == {"probe", "selftest", "publish_impl"}
Publishing == {"publish_initialized", "publish_done"}
Asking == {"init_fast", "init_cas", "init_wait"}
Locations == {"idle", "reload_impl", "reset_impl", "generate"}
                 \union Asking \union Choosing \union Publishing

Init ==
    /\ rng_impl = "NONE"
    /\ initialized = FALSE
    /\ drng_init_state = 0
    /\ pc = [t \in Threads |-> "idle"]
    /\ chosen = [t \in Threads |-> "NONE"]
    /\ nested = [t \in Threads |-> FALSE]

GoTo(t, from, to) ==
    /\ pc[t] = from
    /\ pc' = [pc EXCEPT ![t] = to]

\* Where a thread continues when drng_init returns: in the self-test's
\* drng_fill it generates, elsewhere it reloads rng_impl.
ReturnPoint(t) == IF nested[t] THEN "generate" ELSE "reload_impl"

(* Entry points: randombytes_drng_available, drng_get_drng_support,
   randombytes_implementation_name and _randombytes_drng_fill all load
   rng_impl, initialise if it is RNG_NONE, and load it again. *)
Call(t) ==
    /\ GoTo(t, "idle", IF rng_impl = "NONE" THEN "init_fast" ELSE "reload_impl")
    /\ UNCHANGED <<rng_impl, initialized, drng_init_state, chosen, nested>>

ReloadImpl(t) ==
    /\ GoTo(t, "reload_impl", IF rng_impl = "NONE" THEN "idle" ELSE "generate")
    /\ UNCHANGED <<rng_impl, initialized, drng_init_state, chosen, nested>>

(* drng_init *)
InitFast(t) ==
    /\ GoTo(t, "init_fast", IF initialized THEN ReturnPoint(t) ELSE "init_cas")
    /\ UNCHANGED <<rng_impl, initialized, drng_init_state, chosen, nested>>

\* Variant: the claim is a plain load and store instead of one
\* compare-and-swap.
InitClaimUnguarded(t) ==
    /\ GoTo(t, "init_cas", "probe")
    /\ drng_init_state' = 1
    /\ chosen' = [chosen EXCEPT ![t] = "NONE"]
    /\ UNCHANGED <<rng_impl, initialized, nested>>

InitClaim(t) ==
    /\ drng_init_state = 0
    /\ GoTo(t, "init_cas", "probe")
    /\ drng_init_state' = 1
    /\ chosen' = [chosen EXCEPT ![t] = "NONE"]
    /\ UNCHANGED <<rng_impl, initialized, nested>>

InitLose(t) ==
    /\ drng_init_state # 0
    /\ GoTo(t, "init_cas", "init_wait")
    /\ UNCHANGED <<rng_impl, initialized, drng_init_state, chosen, nested>>

\* Variant: the wait ends as soon as an initialisation has begun.
InitWaitNonZero(t) ==
    /\ drng_init_state # 0
    /\ GoTo(t, "init_wait", ReturnPoint(t))
    /\ UNCHANGED <<rng_impl, initialized, drng_init_state, chosen, nested>>

InitWait(t) ==
    /\ drng_init_state = 2
    /\ GoTo(t, "init_wait", ReturnPoint(t))
    /\ UNCHANGED <<rng_impl, initialized, drng_init_state, chosen, nested>>

\* x86 keeps RNG_NONE whatever CPUID says; the ARM register may or may not
\* deliver a value.
ProbeNone(t) ==
    /\ GoTo(t, "probe", "publish_impl")
    /\ UNCHANGED <<rng_impl, initialized, drng_init_state, chosen, nested>>

\* Variant: the power-up self-test is left out.
ProbeArmUntested(t) ==
    /\ Platform = "arm"
    /\ GoTo(t, "probe", "publish_impl")
    /\ chosen' = [chosen EXCEPT ![t] = "ARM_RNDR"]
    /\ UNCHANGED <<rng_impl, initialized, drng_init_state, nested>>

ProbeArm(t) ==
    /\ Platform = "arm"
    /\ GoTo(t, "probe", "selftest")
    /\ chosen' = [chosen EXCEPT ![t] = "ARM_RNDR"]
    /\ UNCHANGED <<rng_impl, initialized, drng_init_state, nested>>

\* drng_power_up_selftest calls drng_fill, which finds rng_impl still
\* RNG_NONE and calls drng_init again.
SelfTest(t) ==
    /\ GoTo(t, "selftest", IF rng_impl = "NONE" THEN "init_fast" ELSE "generate")
    /\ nested' = [nested EXCEPT ![t] = TRUE]
    /\ UNCHANGED <<rng_impl, initialized, drng_init_state, chosen>>

\* Variant: the waiters are released before initialized is set.
PublishImplReleasesFirst(t) ==
    /\ GoTo(t, "publish_impl", "publish_initialized")
    /\ rng_impl' = chosen[t]
    /\ drng_init_state' = 2
    /\ UNCHANGED <<initialized, chosen, nested>>

PublishImpl(t) ==
    /\ GoTo(t, "publish_impl", "publish_initialized")
    /\ rng_impl' = chosen[t]
    /\ UNCHANGED <<initialized, drng_init_state, chosen, nested>>

PublishInitialized(t) ==
    /\ GoTo(t, "publish_initialized", "publish_done")
    /\ initialized' = TRUE
    /\ UNCHANGED <<rng_impl, drng_init_state, chosen, nested>>

\* Variant: the final store is forgotten.
PublishDoneForgotten(t) ==
    /\ GoTo(t, "publish_done", ReturnPoint(t))
    /\ UNCHANGED <<rng_impl, initialized, drng_init_state, chosen, nested>>

PublishDone(t) ==
    /\ GoTo(t, "publish_done", ReturnPoint(t))
    /\ drng_init_state' = 2
    /\ UNCHANGED <<rng_impl, initialized, chosen, nested>>

(* drng_reset_for_testing: drng_reset_state, then rng_impl.  Neither
   drng_init_state nor catastrophic_failure is reset. *)
ResetState(t) ==
    /\ GoTo(t, "idle", "reset_impl")
    /\ initialized' = FALSE
    /\ UNCHANGED <<rng_impl, drng_init_state, chosen, nested>>

ResetImpl(t) ==
    /\ GoTo(t, "reset_impl", "idle")
    /\ rng_impl' = "NONE"
    /\ UNCHANGED <<initialized, drng_init_state, chosen, nested>>

\* The steps a thread takes once it is inside the driver.
Work(t) ==
    \/ ReloadImpl(t)
    \/ InitFast(t) \/ InitClaim(t) \/ InitLose(t) \/ InitWait(t)
    \/ ProbeNone(t) \/ ProbeArm(t) \/ SelfTest(t)
    \/ PublishImpl(t) \/ PublishInitialized(t) \/ PublishDone(t)
    \/ ResetImpl(t)

Next == \E t \in Threads : Call(t) \/ ResetState(t) \/ Work(t)

Spec == Init /\ [][Next]_drngVars

\* A thread that is inside the driver and can move is scheduled.
FairSpec == Spec /\ \A t \in Threads : WF_drngVars(Work(t))

-----------------------------------------------------------------------------
TypeOK ==
    /\ rng_impl \in Impls
    /\ initialized \in BOOLEAN
    /\ drng_init_state \in 0..2
    /\ pc \in [Threads -> Locations]
    /\ chosen \in [Threads -> Impls]
    /\ nested \in [Threads -> BOOLEAN]

\* The threads that won the compare-and-swap and have not stored 2 yet, and
\* those among them that have not stored rng_impl yet.
InitializerRunning(t) == pc[t] \in Choosing \union Publishing \/ nested[t]
Undecided == {t \in Threads : pc[t] \in Choosing \/ nested[t]}

(* No build ever selects a hardware generator, and no thread ever enters the
   generating code: on x86 drng_init keeps RNG_NONE, and on ARM the thread
   that finds a working RNDR never gets past its own power-up self-test.  The
   headers say the opposite: see HardwareFirst in MCDrngHardware. *)
HardwareNeverSelected ==
    /\ rng_impl = "NONE"
    /\ \A t \in Threads : pc[t] # "generate"

(* drng_reset_for_testing cannot be undone: drng_init_state stays 2, so no
   later call runs the body of drng_init and nothing sets initialized again. *)
ResetSticks ==
    [][drng_init_state = 2 /\ ~initialized => ~initialized']_drngVars

(* drng.c:408 describes the loop a thread enters after losing the
   compare-and-swap: another thread is initialising, or done. *)
WaitsForAnother ==
    \A t \in Threads :
        pc[t] = "init_wait" /\ drng_init_state = 1 =>
            \E u \in Threads \ {t} : InitializerRunning(u)

(* Once the initialising thread waits for its own initialisation it waits for
   ever, and drng_init_state keeps every later caller in the loop with it. *)
SelfWaiting == \E t \in Threads : nested[t] /\ pc[t] = "init_wait"
HangIsPermanent ==
    [][SelfWaiting => SelfWaiting' /\ drng_init_state' = 1]_drngVars

(* Every call of the driver returns, whoever resets it meanwhile, unless the
   initialising thread comes to wait for itself.  On x86 it never does. *)
Returns ==
    \A t \in Threads : pc[t] # "idle" ~> (pc[t] = "idle" \/ SelfWaiting)

-----------------------------------------------------------------------------
(* drng_init implements a one-time initialisation. *)
OncePhase ==
    IF drng_init_state = 0 THEN "unstarted"
    ELSE IF Undecided # {} THEN "running" ELSE "decided"

OncePending == {t \in Threads : pc[t] \in Asking \/ InitializerRunning(t)}

Once == INSTANCE OnceInit WITH
    Callers <- Threads, phase <- OncePhase,
    runner <- Undecided, pending <- OncePending

(* At most one thread runs the body of drng_init, and no caller continues
   before rng_impl has been stored, although initialized, which the fast path
   reads, is stored before drng_init_state. *)
RefinesOnce == Once!Spec
-----------------------------------------------------------------------------
(* The inductive invariant behind the theorems of DrngProofs: the thread that
   moved drng_init_state from 0 to 1 is alone, stays until it stores 2, and a
   thread inside the self-test finds neither the fast path nor state 2. *)
OneInitializer ==
    \A t, u \in Threads :
        InitializerRunning(t) /\ InitializerRunning(u) => t = u

StateTellsInitializer ==
    /\ \A t \in Threads : InitializerRunning(t) => drng_init_state = 1
    /\ drng_init_state = 0 => ~initialized

InitializedIsPublished ==
    initialized => Undecided = {}

ChoiceIsNone ==
    \A t \in Threads :
        /\ pc[t] \in {"probe", "publish_impl"} => chosen[t] = "NONE"
        /\ nested[t] => pc[t] \in Asking

IInv ==
    /\ TypeOK
    /\ HardwareNeverSelected
    /\ OneInitializer
    /\ StateTellsInitializer
    /\ InitializedIsPublished
    /\ ChoiceIsNone
=============================================================================
