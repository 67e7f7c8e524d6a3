---------------------------- MODULE RandomBytes ----------------------------
(***************************************************************************)
(* randombytes.c on POSIX, composed with the hardware driver: automatic    *)
(* initialisation, the periodic self-test, and the /dev/urandom read loop, *)
(* run by several threads.  A thread is either in randombytes.c, at at[t], *)
(* or inside the driver it called, at pc[t] of Drng.                       *)
(***************************************************************************)
EXTENDS Naturals, FiniteSets

CONSTANTS
    Threads,
    Platform,
    WithDrng,          \* the build defines WITH_DRNG
    SelfTestInterval,  \* calls between self-tests, 100 in the code
    Lengths,           \* the lengths callers ask for
    MaxCalls,          \* bound: calls of randombytes_safe
    MaxInterrupts      \* bound: reads that fail with EINTR

ASSUME RandomBytesAssumption ==
    /\ IsFiniteSet(Threads)
    /\ Platform \in {"x86", "arm", "other"}
    /\ WithDrng \in BOOLEAN
    /\ SelfTestInterval \in Nat \ {0}
    /\ Lengths \subseteq Nat
    /\ MaxCalls \in Nat
    /\ MaxInterrupts \in Nat

VARIABLES
    rng_impl, initialized, drng_init_state, pc, chosen, nested,  \* of Drng
    randombytes_initialized,
    randombytes_call_count,
    at,          \* where each thread is in randombytes.c
    in_drng,     \* it has called _randombytes_drng_fill
    back,        \* where its call of randombytes_init returns to
    len,         \* the length it asked for
    call_count,  \* its local copy of the count after the fetch_add
    total_read,  \* bytes of its buffer that have been filled
    result,      \* what its last call returned
    open_fds,    \* the threads whose descriptor is open
    interrupts,  \* reads interrupted so far
    requests,    \* calls of randombytes_safe so far
    self_tests   \* history: self-tests run

drngVars == <<rng_impl, initialized, drng_init_state, pc, chosen, nested>>
callVars == <<len, call_count, total_read, result>>
rngVars == <<randombytes_initialized, randombytes_call_count, self_tests>>
ioVars == <<open_fds, interrupts, requests>>
vars == <<drngVars, rngVars, at, in_drng, back, callVars, ioVars>>

D == INSTANCE Drng

Init ==
    /\ D!Init
    /\ randombytes_initialized = FALSE
    /\ randombytes_call_count = 0
    /\ at = [t \in Threads |-> "idle"]
    /\ in_drng = [t \in Threads |-> FALSE]
    /\ back = [t \in Threads |-> "idle"]
    /\ len = [t \in Threads |-> 0]
    /\ call_count = [t \in Threads |-> 0]
    /\ total_read = [t \in Threads |-> 0]
    /\ result = [t \in Threads |-> "none"]
    /\ open_fds = {}
    /\ interrupts = 0
    /\ requests = 0
    /\ self_tests = 0

\* Locations at which the code calls _randombytes_drng_fill, in a WITH_DRNG
\* build, and where it continues when the driver has failed.
AfterDrng == [init_drng |-> "init_store", selftest |-> "selftest_failed",
              fill |-> "open"]
OnlyWithDrng(location) == IF WithDrng THEN location ELSE AfterDrng[location]

GoTo(t, from, to) ==
    /\ at[t] = from
    /\ at' = [at EXCEPT ![t] = to]

Return(t, from, value) ==
    /\ GoTo(t, from, "idle")
    /\ result' = [result EXCEPT ![t] = value]

-----------------------------------------------------------------------------
(* _randombytes_drng_fill: the calling thread works inside Drng until it
   comes back there; no driver call ever yields bytes (NoHardware). *)
CallDrng(t) ==
    /\ at[t] \in DOMAIN AfterDrng
    /\ ~in_drng[t]
    /\ D!Call(t)
    /\ in_drng' = [in_drng EXCEPT ![t] = TRUE]
    /\ UNCHANGED <<rngVars, at, back, callVars, ioVars>>

WorkInDrng(t) ==
    /\ in_drng[t]
    /\ D!Work(t)
    /\ UNCHANGED <<rngVars, at, in_drng, back, callVars, ioVars>>

\* Variant: the driver is tried again until it succeeds.
DrngRetries(t) ==
    /\ in_drng[t]
    /\ pc[t] = "idle"
    /\ in_drng' = [in_drng EXCEPT ![t] = FALSE]
    /\ UNCHANGED <<drngVars, rngVars, at, back, callVars, ioVars>>

DrngFails(t) ==
    /\ in_drng[t]
    /\ pc[t] = "idle"
    /\ GoTo(t, at[t], AfterDrng[at[t]])
    /\ in_drng' = [in_drng EXCEPT ![t] = FALSE]
    /\ UNCHANGED <<drngVars, rngVars, back, callVars, ioVars>>

-----------------------------------------------------------------------------
(* randombytes_init, called by the program or by randombytes_safe *)
CallInit(t) ==
    /\ GoTo(t, "idle", "init_load")
    /\ back' = [back EXCEPT ![t] = "idle"]
    /\ result' = [result EXCEPT ![t] = "none"]
    /\ UNCHANGED <<drngVars, rngVars, in_drng, len, call_count, total_read,
                   ioVars>>

InitLoad(t) ==
    /\ GoTo(t, "init_load", IF randombytes_initialized THEN back[t]
                            ELSE OnlyWithDrng("init_drng"))
    /\ UNCHANGED <<drngVars, rngVars, in_drng, back, callVars, ioVars>>

InitStore(t) ==
    /\ GoTo(t, "init_store", back[t])
    /\ randombytes_initialized' = TRUE
    /\ UNCHANGED <<drngVars, randombytes_call_count, self_tests, in_drng, back,
                   callVars, ioVars>>

-----------------------------------------------------------------------------
(* randombytes_safe *)
Reject(t) ==
    /\ 0 \in Lengths
    /\ Return(t, "idle", "INVALID_PARAM")
    /\ UNCHANGED <<drngVars, rngVars, in_drng, back, len, call_count,
                   total_read, ioVars>>

Request(t, n) ==
    /\ n > 0
    /\ requests < MaxCalls
    /\ requests' = requests + 1
    /\ GoTo(t, "idle", "check_init")
    /\ len' = [len EXCEPT ![t] = n]
    /\ total_read' = [total_read EXCEPT ![t] = 0]
    /\ result' = [result EXCEPT ![t] = "none"]
    /\ UNCHANGED <<drngVars, rngVars, in_drng, back, call_count, open_fds,
                   interrupts>>

CheckInit(t) ==
    /\ GoTo(t, "check_init",
            IF randombytes_initialized THEN "count" ELSE "init_load")
    /\ back' = [back EXCEPT ![t] = "count"]
    /\ UNCHANGED <<drngVars, rngVars, in_drng, callVars, ioVars>>

Count(t) ==
    /\ GoTo(t, "count", "due")
    /\ randombytes_call_count' = randombytes_call_count + 1
    /\ call_count' = [call_count EXCEPT ![t] = randombytes_call_count + 1]
    /\ UNCHANGED <<drngVars, randombytes_initialized, self_tests, in_drng, back,
                   len, total_read, result, ioVars>>

\* Variant: the test reads the shared counter instead of the local copy.
SelfTestDueShared(t) == randombytes_call_count % SelfTestInterval = 0

SelfTestDue(t) == call_count[t] % SelfTestInterval = 0

Due(t) ==
    /\ GoTo(t, "due", IF SelfTestDue(t) THEN OnlyWithDrng("selftest")
                      ELSE OnlyWithDrng("fill"))
    /\ self_tests' = IF SelfTestDue(t) THEN self_tests + 1 ELSE self_tests
    /\ UNCHANGED <<drngVars, randombytes_initialized, randombytes_call_count,
                   in_drng, back, callVars, ioVars>>

\* Variant: the flag is cleared and nothing initialises again.
SelfTestFailedNoInit(t) ==
    /\ GoTo(t, "selftest_failed", OnlyWithDrng("fill"))
    /\ randombytes_initialized' = FALSE
    /\ UNCHANGED <<drngVars, randombytes_call_count, self_tests, in_drng, back,
                   callVars, ioVars>>

\* The self-test fails in every build: with the driver, whose fill fails, and
\* without it, on a buffer that is all zeros.
SelfTestFailed(t) ==
    /\ GoTo(t, "selftest_failed", "init_load")
    /\ randombytes_initialized' = FALSE
    /\ back' = [back EXCEPT ![t] = OnlyWithDrng("fill")]
    /\ UNCHANGED <<drngVars, randombytes_call_count, self_tests, in_drng,
                   callVars, ioVars>>

OpenFails(t) ==
    /\ Return(t, "open", "RNG_FAILURE")
    /\ UNCHANGED <<drngVars, rngVars, in_drng, back, len, call_count,
                   total_read, ioVars>>

Open(t) ==
    /\ GoTo(t, "open", "fstat")
    /\ open_fds' = open_fds \union {t}
    /\ UNCHANGED <<drngVars, rngVars, in_drng, back, callVars, interrupts,
                   requests>>

\* Variant: the error return after fstat does not close.
NotADeviceKeepsOpen(t) ==
    /\ Return(t, "fstat", "RNG_FAILURE")
    /\ UNCHANGED <<drngVars, rngVars, in_drng, back, len, call_count,
                   total_read, ioVars>>

NotADevice(t) ==
    /\ Return(t, "fstat", "RNG_FAILURE")
    /\ open_fds' = open_fds \ {t}
    /\ UNCHANGED <<drngVars, rngVars, in_drng, back, len, call_count,
                   total_read, interrupts, requests>>

\* fstat reports a character device, or fails, which the code accepts.
Device(t) ==
    /\ GoTo(t, "fstat", "read")
    /\ UNCHANGED <<drngVars, rngVars, in_drng, back, callVars, ioVars>>

ReadSome(t, n) ==
    /\ n \in 1..(len[t] - total_read[t])
    /\ at[t] = "read"
    /\ total_read' = [total_read EXCEPT ![t] = @ + n]
    /\ UNCHANGED <<drngVars, rngVars, at, in_drng, back, len, call_count,
                   result, ioVars>>

ReadInterrupted(t) ==
    /\ at[t] = "read"
    /\ total_read[t] < len[t]
    /\ interrupts < MaxInterrupts
    /\ interrupts' = interrupts + 1
    /\ UNCHANGED <<drngVars, rngVars, at, in_drng, back, callVars, open_fds,
                   requests>>

\* read fails with another errno, or returns 0.
ReadFails(t) ==
    /\ total_read[t] < len[t]
    /\ Return(t, "read", "RNG_FAILURE")
    /\ open_fds' = open_fds \ {t}
    /\ UNCHANGED <<drngVars, rngVars, in_drng, back, len, call_count,
                   total_read, interrupts, requests>>

\* Variant: an end of file ends the loop like a full buffer.
ReadDoneShort(t) ==
    /\ Return(t, "read", "SUCCESS")
    /\ open_fds' = open_fds \ {t}
    /\ UNCHANGED <<drngVars, rngVars, in_drng, back, len, call_count,
                   total_read, interrupts, requests>>

ReadDone(t) ==
    /\ total_read[t] >= len[t]
    /\ Return(t, "read", "SUCCESS")
    /\ open_fds' = open_fds \ {t}
    /\ UNCHANGED <<drngVars, rngVars, in_drng, back, len, call_count,
                   total_read, interrupts, requests>>

-----------------------------------------------------------------------------
Begin(t) ==
    \/ CallInit(t)
    \/ Reject(t)
    \/ \E n \in Lengths : Request(t, n)

Step(t) ==
    \/ CallDrng(t) \/ WorkInDrng(t) \/ DrngFails(t)
    \/ InitLoad(t) \/ InitStore(t)
    \/ CheckInit(t) \/ Count(t) \/ Due(t) \/ SelfTestFailed(t)
    \/ OpenFails(t) \/ Open(t) \/ NotADevice(t) \/ Device(t)
    \/ ReadInterrupted(t) \/ ReadFails(t) \/ ReadDone(t)
    \/ \E n \in 1..len[t] : ReadSome(t, n)

Next == \E t \in Threads : Begin(t) \/ Step(t)

Spec == Init /\ [][Next]_vars

\* A thread inside a call is scheduled, and its system calls return.
FairSpec == Spec /\ \A t \in Threads : WF_vars(Step(t))

-----------------------------------------------------------------------------
Locations == {"idle", "check_init", "init_load", "init_store", "count", "due",
              "selftest_failed", "open", "fstat", "read"}
                 \union DOMAIN AfterDrng

TypeOK ==
    /\ D!TypeOK
    /\ randombytes_initialized \in BOOLEAN
    /\ randombytes_call_count \in Nat
    /\ at \in [Threads -> Locations]
    /\ in_drng \in [Threads -> BOOLEAN]
    /\ back \in [Threads -> {"idle", "count", "fill", "open"}]
    /\ len \in [Threads -> Lengths \union {0}]
    /\ call_count \in [Threads -> Nat]
    /\ total_read \in [Threads -> Nat]
    /\ result \in [Threads -> {"none", "SUCCESS", "INVALID_PARAM", "RNG_FAILURE"}]
    /\ open_fds \subseteq Threads
    /\ interrupts \in 0..MaxInterrupts
    /\ requests \in 0..MaxCalls
    /\ self_tests \in Nat

(* A call reports success only when every byte of the buffer was read, across
   partial reads, interrupted reads and an early end of file; and no read runs
   past the end of the buffer. *)
FilledOnSuccess ==
    \A t \in Threads :
        /\ total_read[t] <= len[t]
        /\ result[t] = "SUCCESS" => total_read[t] = len[t]

(* Every way out of randombytes_safe closes the descriptor it opened. *)
NoDescriptorLeak ==
    open_fds = {t \in Threads : at[t] \in {"fstat", "read"}}

(* Exactly every SelfTestInterval-th call runs the self-test, however the
   threads interleave between the fetch_add and the test of its result. *)
SelfTestsMatchCalls ==
    self_tests + Cardinality({t \in Threads : at[t] = "due"
                                   /\ call_count[t] % SelfTestInterval = 0})
        = randombytes_call_count \div SelfTestInterval

(* A failed self-test clears randombytes_initialized; when no call is in
   progress any more the generator is marked initialised again, also when
   several threads cleared and set the flag at the same time. *)
InitializedWhenQuiet ==
    (\A t \in Threads : at[t] = "idle") /\ randombytes_call_count > 0 =>
        randombytes_initialized

(* No caller reads /dev/urandom before the driver has finished choosing, so
   no caller takes the fallback while another still tries the hardware. *)
FallbackAfterDecision ==
    WithDrng =>
        \A t \in Threads : at[t] \in {"open", "fstat", "read"} =>
            drng_init_state # 0 /\ D!Undecided = {}

(* Every call returns, however the reads are split or interrupted. *)
CallsReturn == \A t \in Threads : at[t] # "idle" ~> at[t] = "idle"
-----------------------------------------------------------------------------
(* The inductive invariant behind the theorems of RandomBytesProofs. *)

\* A thread outside a call of the driver is at rest in it, and one that has
\* returned, or is about to, found the choice made.
Decided == drng_init_state # 0 /\ D!Undecided = {}

DriverCalls ==
    \A t \in Threads :
        /\ ~in_drng[t] => pc[t] = "idle"
        /\ pc[t] # "reset_impl"
        /\ in_drng[t] => at[t] \in DOMAIN AfterDrng
        /\ in_drng[t] /\ pc[t] \in {"idle", "reload_impl"} => Decided
        /\ WithDrng => back[t] # "open"

CallsInProgress ==
    \A t \in Threads : at[t] # "idle" => result[t] = "none"

\* A caller got past the initialisation; a cleared flag is being set again.
Begun == randombytes_call_count > 0 \/ \E t \in Threads : at[t] = "count"
Initializing ==
    \E t \in Threads : at[t] \in {"init_load", "init_drng", "init_store"}
ClearedIsSetAgain == Begun => randombytes_initialized \/ Initializing

RInv ==
    /\ TypeOK
    /\ D!IInv
    /\ FilledOnSuccess
    /\ NoDescriptorLeak
    /\ SelfTestsMatchCalls
    /\ FallbackAfterDecision
    /\ DriverCalls
    /\ CallsInProgress
    /\ ClearedIsSetAgain
=============================================================================
