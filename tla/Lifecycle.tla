----------------------------- MODULE Lifecycle -----------------------------
(***************************************************************************)
(* The life of the library: nacl_init of src/src/core/init.c, the          *)
(* self-tests it runs (src/src/core/fips_selftest.c) and the selection of  *)
(* an implementation (src/src/core/dispatch.c), called by several threads. *)
(* No flag is guarded; one action is one access to a shared variable.      *)
(*                                                                         *)
(* What a test computes is abstract: it passes or fails.                   *)
(***************************************************************************)
EXTENDS Naturals, SequencesExt

CONSTANTS
    Threads,
    implementations,  \* the table: a sequence of [name, priority, required]
    NULL,
    Features,         \* the processor features the table asks for
    Interval,         \* keys between conditional self-tests, 100 in the code
    MaxKeygens,       \* bound: calls of fips_conditional_selftest_keygen
    MaxPowerUps,      \* bound: calls of nacl_init and of the power-up self-tests
    MaxSets           \* bound: calls of nacl_set_implementation

ASSUME LifecycleAssumption ==
    /\ implementations # <<>>
    /\ implementations \in Seq({implementations[i] : i \in DOMAIN implementations})
    /\ \A i \in DOMAIN implementations :
           /\ implementations[i].required \subseteq Features
           /\ implementations[i].priority \in Nat
           /\ implementations[i] # NULL
    /\ implementations[1].required = {}
    /\ Interval \in Nat \ {0}
    /\ MaxKeygens \in Nat /\ MaxPowerUps \in Nat /\ MaxSets \in Nat

Table == {implementations[i] : i \in DOMAIN implementations}

VARIABLES
    nacl_initialized,
    current_impl,
    power_up_tests_passed, last_test_result, keygen_counter,  \* fips_state
    conditional_tests_enabled,
    features,    \* what detect_cpu_features reports on this machine
    pc,
    back,        \* what a self-test or a selection was called from
    loaded,      \* the register of keygen_counter++
    power_ups, sets,
    forced,      \* history: the implementations forced so far
    keygens,     \* history: conditional calls that found the tests enabled
    tests,       \* history: conditional self-tests begun
    outcomes,    \* history: how the power-up runs ended, in order
    ran_alone,   \* history: no two power-up runs have overlapped
    kept_alone   \* history: no two counted conditional calls have overlapped

powerUpVars == <<power_up_tests_passed, power_ups, outcomes, ran_alone>>
selectVars == <<current_impl, features, sets, forced>>
keyVars == <<keygen_counter, conditional_tests_enabled, loaded, keygens, tests,
             kept_alone>>
vars == <<nacl_initialized, last_test_result, powerUpVars, selectVars, keyVars,
          pc, back>>

\* fips_power_up_self_tests runs the tests in this order.
NextTest == [rng |-> "sha512", sha512 |-> "ed25519", ed25519 |-> "x25519",
             x25519 |-> "pass_status"]

PowerUp == DOMAIN NextTest
               \union {"pass_status", "pass_result", "fail_status", "fail_result"}
Counting == {"inc_load", "inc_store", "due"}
Locations == {"idle", "init", "select_load", "select_store", "initialized",
              "use", "keypair_test"} \union PowerUp \union Counting

Init ==
    /\ nacl_initialized = FALSE
    /\ current_impl = NULL
    /\ power_up_tests_passed = FALSE
    /\ last_test_result = "SUCCESS"
    /\ keygen_counter = 0
    /\ conditional_tests_enabled = TRUE
    /\ features \in SUBSET Features
    /\ pc = [t \in Threads |-> "idle"]
    /\ back = [t \in Threads |-> "idle"]
    /\ loaded = [t \in Threads |-> 0]
    /\ power_ups = 0
    /\ sets = 0
    /\ forced = {}
    /\ keygens = 0
    /\ tests = 0
    /\ outcomes = <<>>
    /\ ran_alone = TRUE
    /\ kept_alone = TRUE

GoTo(t, from, to) ==
    /\ pc[t] = from
    /\ pc' = [pc EXCEPT ![t] = to]

\* A step that only moves on.
Move(t, from, to) ==
    /\ GoTo(t, from, to)
    /\ UNCHANGED <<nacl_initialized, last_test_result, powerUpVars, selectVars,
                   keyVars, back>>

\* Where a call came from is of no interest after it has returned.
Forget(t) == back' = [back EXCEPT ![t] = "idle"]

-----------------------------------------------------------------------------
(* nacl_init *)
NaclInit(t) ==
    /\ power_ups < MaxPowerUps
    /\ power_ups' = power_ups + 1
    /\ GoTo(t, "idle", "init")
    /\ UNCHANGED <<nacl_initialized, last_test_result, power_up_tests_passed,
                   outcomes, ran_alone, selectVars, keyVars, back>>

AlreadyInitialized(t) == nacl_initialized /\ Move(t, "init", "idle")

SetInitialized(t) ==
    /\ GoTo(t, "initialized", "idle")
    /\ nacl_initialized' = TRUE
    /\ Forget(t)
    /\ UNCHANGED <<last_test_result, powerUpVars, selectVars, keyVars>>

-----------------------------------------------------------------------------
(* fips_power_up_self_tests, called by nacl_init or by the program *)
StartsRun(t, caller) ==
    /\ back' = [back EXCEPT ![t] = caller]
    /\ ran_alone' = (ran_alone /\ \A u \in Threads : pc[u] \notin PowerUp)
    /\ UNCHANGED <<nacl_initialized, last_test_result, power_up_tests_passed,
                   outcomes, selectVars, keyVars>>

InitTests(t) ==
    /\ ~nacl_initialized
    /\ GoTo(t, "init", "rng")
    /\ StartsRun(t, "select_load")
    /\ UNCHANGED power_ups

StartPowerUp(t) ==
    /\ power_ups < MaxPowerUps
    /\ power_ups' = power_ups + 1
    /\ GoTo(t, "idle", "rng")
    /\ StartsRun(t, "idle")

PassTest(t) == pc[t] \in DOMAIN NextTest /\ Move(t, pc[t], NextTest[pc[t]])

FailTest(t) == pc[t] \in DOMAIN NextTest /\ Move(t, pc[t], "fail_status")

\* The two ends of a run each store the status, then the result.
StoreStatus(t, from, to, status) ==
    /\ GoTo(t, from, to)
    /\ power_up_tests_passed' = status
    /\ UNCHANGED <<nacl_initialized, last_test_result, power_ups, outcomes,
                   ran_alone, selectVars, keyVars, back>>

StoreResult(t, result) ==
    /\ last_test_result' = result
    /\ outcomes' = Append(outcomes, result)
    /\ UNCHANGED <<nacl_initialized, power_up_tests_passed, power_ups, ran_alone,
                   selectVars, keyVars>>

PassStatus(t) == StoreStatus(t, "pass_status", "pass_result", TRUE)

\* nacl_init goes on with the selection.
ReturnPass(t, from) ==
    /\ GoTo(t, from, back[t])
    /\ back' = [back EXCEPT ![t] =
                    IF @ = "select_load" THEN "initialized" ELSE @]

PassResult(t) == ReturnPass(t, "pass_result") /\ StoreResult(t, "SUCCESS")

\* Variant: a failed run stores its result and leaves the status alone.
FailStatusKept(t) == Move(t, "fail_status", "fail_result")

FailStatus(t) == StoreStatus(t, "fail_status", "fail_result", FALSE)

\* Variant: nacl_init ignores what the self-tests return.
FailResultIgnored(t) == ReturnPass(t, "fail_result") /\ StoreResult(t, "FAILED")

\* nacl_init returns -1 in turn, and may be called again.
FailResult(t) ==
    /\ GoTo(t, "fail_result", "idle")
    /\ Forget(t)
    /\ StoreResult(t, "FAILED")

-----------------------------------------------------------------------------
(* nacl_select_implementation, called by nacl_init, by the name query and by
   both dispatch wrappers, which then read current_impl again *)
Supported(impl) == impl.required \subseteq features

\* Variant: the processor's features are not looked at.
BetterUnsupported(best, impl) == IF impl.priority > best.priority THEN impl ELSE best

Better(best, impl) ==
    IF Supported(impl) /\ impl.priority > best.priority THEN impl ELSE best

\* The loop starts from the first entry, the software implementation.
Best ==
    LET best[i \in 0 .. Len(implementations)] ==
            IF i = 0 THEN implementations[1] ELSE Better(best[i - 1], implementations[i])
    IN  best[Len(implementations)]

StartUse(t) ==
    /\ GoTo(t, "idle", "select_load")
    /\ back' = [back EXCEPT ![t] = "use"]
    /\ UNCHANGED <<nacl_initialized, last_test_result, powerUpVars, selectVars,
                   keyVars>>

SelectLoad(t) ==
    Move(t, "select_load",
         IF current_impl = NULL THEN "select_store" ELSE back[t])

SelectStore(t) ==
    /\ GoTo(t, "select_store", back[t])
    /\ current_impl' = Best
    /\ UNCHANGED <<nacl_initialized, last_test_result, powerUpVars, features,
                   sets, forced, keyVars, back>>

Use(t) ==
    /\ GoTo(t, "use", "idle")
    /\ Forget(t)
    /\ UNCHANGED <<nacl_initialized, last_test_result, powerUpVars, selectVars,
                   keyVars>>

ForceChoice(t, impl, choice) ==
    /\ sets < MaxSets
    /\ GoTo(t, "idle", "idle")
    /\ current_impl' = choice
    /\ sets' = sets + 1
    /\ forced' = forced \union {impl}
    /\ UNCHANGED <<nacl_initialized, last_test_result, powerUpVars, features,
                   keyVars, back>>

\* Variant: an implementation the processor lacks resets the selection.
SetImplementationChecks(t, impl) ==
    ForceChoice(t, impl, IF Supported(impl) THEN impl ELSE NULL)

\* Variant: the loop ends on the entry that closes the table.
SetImplementationSentinel(t, impl) ==
    ForceChoice(t, impl, [name |-> "", priority |-> 0, required |-> {}])

\* nacl_set_implementation with a name of the table; another changes nothing.
\* The features of the processor are not looked at.
SetImplementation(t, impl) == ForceChoice(t, impl, impl)

-----------------------------------------------------------------------------
(* fips_conditional_selftest_keygen *)
KeyFrame == UNCHANGED <<nacl_initialized, powerUpVars, selectVars, back>>

EnableTests(t, enable) ==
    /\ GoTo(t, "idle", "idle")
    /\ conditional_tests_enabled' = enable
    /\ UNCHANGED <<keygen_counter, loaded, keygens, tests, kept_alone,
                   last_test_result>> /\ KeyFrame

StartKeygen(t) ==
    /\ conditional_tests_enabled
    /\ keygens < MaxKeygens
    /\ GoTo(t, "idle", "inc_load")
    /\ keygens' = keygens + 1
    /\ kept_alone' = (kept_alone /\ \A u \in Threads : pc[u] \notin Counting)
    /\ UNCHANGED <<keygen_counter, conditional_tests_enabled, loaded, tests,
                   last_test_result>> /\ KeyFrame

IncLoad(t) ==
    /\ GoTo(t, "inc_load", "inc_store")
    /\ loaded' = [loaded EXCEPT ![t] = keygen_counter]
    /\ UNCHANGED <<keygen_counter, conditional_tests_enabled, keygens, tests,
                   kept_alone, last_test_result>> /\ KeyFrame

\* The uint64_t counter does not wrap within the bound.
IncStore(t) ==
    /\ GoTo(t, "inc_store", "due")
    /\ keygen_counter' = loaded[t] + 1
    /\ loaded' = [loaded EXCEPT ![t] = 0]
    /\ UNCHANGED <<conditional_tests_enabled, keygens, tests, kept_alone,
                   last_test_result>> /\ KeyFrame

\* Variant: the test runs one key late.
KeyDueLate == keygen_counter % Interval = 1

\* The counter is read again, not the value just stored.
KeyDue == keygen_counter % Interval = 0

NotDue(t) == ~KeyDue /\ Move(t, "due", "idle")

Due(t) ==
    /\ KeyDue
    /\ GoTo(t, "due", "keypair_test")
    /\ tests' = tests + 1
    /\ UNCHANGED <<keygen_counter, conditional_tests_enabled, loaded, keygens,
                   kept_alone, last_test_result>> /\ KeyFrame

\* A passed test stores nothing, a failed one only its result.
KeypairTestPasses(t) == Move(t, "keypair_test", "idle")

KeypairTestFails(t) ==
    /\ GoTo(t, "keypair_test", "idle")
    /\ last_test_result' = "FAILED"
    /\ UNCHANGED keyVars /\ KeyFrame

-----------------------------------------------------------------------------
Next ==
    \E t \in Threads :
        \/ NaclInit(t) \/ AlreadyInitialized(t) \/ SetInitialized(t)
        \/ InitTests(t) \/ StartPowerUp(t) \/ PassTest(t) \/ FailTest(t)
        \/ PassStatus(t) \/ PassResult(t) \/ FailStatus(t) \/ FailResult(t)
        \/ StartUse(t) \/ SelectLoad(t) \/ SelectStore(t) \/ Use(t)
        \/ \E impl \in Table : SetImplementation(t, impl)
        \/ \E enable \in BOOLEAN : EnableTests(t, enable)
        \/ StartKeygen(t) \/ IncLoad(t) \/ IncStore(t) \/ NotDue(t)
        \/ Due(t) \/ KeypairTestPasses(t) \/ KeypairTestFails(t)

Spec == Init /\ [][Next]_vars
-----------------------------------------------------------------------------
TypeOK ==
    /\ nacl_initialized \in BOOLEAN
    /\ current_impl \in Table \union {NULL}
    /\ power_up_tests_passed \in BOOLEAN
    /\ last_test_result \in {"SUCCESS", "FAILED"}
    /\ keygen_counter \in Nat
    /\ conditional_tests_enabled \in BOOLEAN
    /\ features \subseteq Features
    /\ pc \in [Threads -> Locations]
    /\ back \in [Threads -> {"idle", "select_load", "initialized", "use"}]
    /\ loaded \in [Threads -> Nat]
    /\ power_ups \in Nat /\ sets \in Nat
    /\ forced \subseteq Table
    /\ keygens \in Nat /\ tests \in Nat
    /\ outcomes \in Seq({"SUCCESS", "FAILED"})
    /\ ran_alone \in BOOLEAN /\ kept_alone \in BOOLEAN

(* A dispatch wrapper calls through current_impl, which it reads again after
   the selection: it never finds NULL there, whoever selects or forces an
   implementation meanwhile, and an initialised library has a selection. *)
NeverCallsNull ==
    /\ \A t \in Threads : pc[t] = "use" => current_impl # NULL
    /\ nacl_initialized => current_impl # NULL

(* The automatic choice is a supported implementation that no other supported
   one outranks, and only nacl_set_implementation can put another there. *)
BestUnlessForced ==
    current_impl # NULL /\ current_impl \notin forced =>
        /\ Supported(current_impl)
        /\ \A impl \in Table :
               Supported(impl) => impl.priority <= current_impl.priority

(* As long as runs of the power-up self-tests do not overlap, the status and
   the result, two separate stores, say what the last run found, whatever
   conditional tests store meanwhile. *)
StatusOfLastRun ==
    ran_alone /\ (\A t \in Threads : pc[t] \notin PowerUp) =>
        /\ power_up_tests_passed <=> outcomes # <<>> /\ Last(outcomes) = "SUCCESS"
        /\ outcomes # <<>> /\ Last(outcomes) = "FAILED" =>
               last_test_result = "FAILED"

(* nacl_init succeeds only in a process whose self-tests have passed: a failed
   call leaves the library uninitialised for the next one to test again, and
   the early return on the flag never skips the tests of a first success. *)
InitializedAfterPass ==
    nacl_initialized => \E i \in DOMAIN outcomes : outcomes[i] = "SUCCESS"

(* As long as counted calls do not overlap, every Interval-th of them runs the
   pairwise test, also across failed tests and switching the tests off. *)
SerialKeysTested ==
    kept_alone /\ (\A t \in Threads : pc[t] \notin Counting) =>
        tests = keygens \div Interval

(* dispatch.c:6 says the selection happens once, at the first call, and
   dispatch.h:32 that nacl_set_implementation forces an implementation: once
   there is a selection, only that call changes it. *)
SelectedOnce ==
    [][current_impl # NULL /\ current_impl' # current_impl => sets' # sets]_vars
=============================================================================
