----------------------------- MODULE FipsModule -----------------------------
(***************************************************************************)
(* The FIPS module state of src/src/drivers/crypto/fips/fips_selftest.c:   *)
(* the power-on self-test, run by the thread that initialises the program  *)
(* and again whenever it is asked to, and the conditional self-test, which *)
(* every thread runs after it has generated a key.  Neither takes a lock;  *)
(* one action is one access to a shared variable.                          *)
(*                                                                         *)
(* What a test computes is abstract: it passes or fails.  Names that       *)
(* Lifecycle, the model of the other self-tests, has too begin with Fips.  *)
(***************************************************************************)
EXTENDS Naturals

CONSTANTS
    FipsThreads,
    Main,             \* the thread that calls fips_power_on_selftest
    FipsInterval,     \* FIPS_CONDITIONAL_INTERVAL, 100 in the code
    CounterModulus,   \* 2^32: keygen_counter is a uint32_t
    Samples,          \* what the random source may deliver to fips_crngt
    NoSample,         \* fips_crngt has not drawn yet
    MaxFipsKeygens,   \* bound: calls of fips_conditional_selftest
    MaxPowerOns       \* bound: calls of fips_power_on_selftest

ASSUME FipsAssumption ==
    /\ Main \in FipsThreads
    /\ NoSample \notin Samples
    /\ FipsInterval \in Nat \ {0}
    /\ CounterModulus \in Nat /\ CounterModulus > FipsInterval
    /\ MaxFipsKeygens \in Nat
    /\ MaxPowerOns \in Nat

VARIABLES
    fips_state,
    fips_keygen_counter,
    prev,          \* static in fips_crngt: the last sample, or NoSample
    fips_pc,
    fips_loaded,   \* the register of keygen_counter++
    current,       \* local of fips_crngt
    power_ons,     \* calls of fips_power_on_selftest so far
    fips_keygens,  \* history: calls of fips_conditional_selftest so far
    since_test,    \* history: of those, started since a test last began
    overlapped,    \* history: two conditional calls have been in progress
    drawn          \* history: the last two samples fips_crngt drew

shared == <<fips_state, fips_keygen_counter, prev>>
locals == <<fips_loaded, current>>
history == <<power_ons, fips_keygens, since_test, overlapped, drawn>>
fipsVars == <<shared, fips_pc, locals, history>>

\* fips_power_on_selftest runs the tests in this order.
NextPowerOnTest == [kat_sha512   |-> "kat_ed25519",
                    kat_ed25519  |-> "kat_x25519",
                    kat_x25519   |-> "pct_ed25519",
                    pct_ed25519  |-> "pct_x25519",
                    pct_x25519   |-> "crngt"]

\* fips_conditional_selftest runs these two.
NextConditional == [cond_ed25519 |-> "cond_x25519", cond_x25519 |-> "reset"]

PowerOn == DOMAIN NextPowerOnTest \union {"crngt", "compare", "approve"}
Conditional == {"inc_load", "inc_store", "due", "reset"}
                   \union DOMAIN NextConditional

FipsInit ==
    /\ fips_state = "INITIAL"
    /\ fips_keygen_counter = 0
    /\ prev = NoSample
    /\ fips_pc = [t \in FipsThreads |-> "idle"]
    /\ fips_loaded = [t \in FipsThreads |-> 0]
    /\ current = NoSample
    /\ power_ons = 0
    /\ fips_keygens = 0
    /\ since_test = 0
    /\ overlapped = FALSE
    /\ drawn = <<NoSample, NoSample>>

FipsGoTo(t, from, to) ==
    /\ fips_pc[t] = from
    /\ fips_pc' = [fips_pc EXCEPT ![t] = to]

\* Every failed test stores FIPS_STATE_ERROR and returns -1.
Fail(t, from) ==
    /\ FipsGoTo(t, from, "idle")
    /\ fips_state' = "ERROR"

-----------------------------------------------------------------------------
(* fips_power_on_selftest; the software load test compares the addresses of
   linked functions with NULL and cannot fail *)
StartPowerOn ==
    /\ power_ons < MaxPowerOns
    /\ FipsGoTo(Main, "idle", "kat_sha512")
    /\ fips_state' = "SELFTEST"
    /\ power_ons' = power_ons + 1
    /\ UNCHANGED <<fips_keygen_counter, prev, locals, fips_keygens, since_test,
                   overlapped, drawn>>

PassPowerOnTest ==
    /\ fips_pc[Main] \in DOMAIN NextPowerOnTest
    /\ FipsGoTo(Main, fips_pc[Main], NextPowerOnTest[fips_pc[Main]])
    /\ UNCHANGED <<shared, locals, history>>

\* Variant: a failed test returns without storing the error state.
FailPowerOnTestSilently ==
    /\ fips_pc[Main] \in DOMAIN NextPowerOnTest
    /\ FipsGoTo(Main, fips_pc[Main], "idle")
    /\ UNCHANGED <<shared, locals, history>>

FailPowerOnTest ==
    /\ fips_pc[Main] \in DOMAIN NextPowerOnTest
    /\ Fail(Main, fips_pc[Main])
    /\ UNCHANGED <<fips_keygen_counter, prev, locals, history>>

(* fips_crngt: draw a sample, then compare it with the previous one; the
   first sample ever drawn is only remembered *)
Draw(s) ==
    /\ FipsGoTo(Main, "crngt", "compare")
    /\ current' = s
    /\ drawn' = <<drawn[2], s>>
    /\ UNCHANGED <<shared, fips_loaded, power_ons, fips_keygens, since_test, overlapped>>

DrawFails ==
    /\ Fail(Main, "crngt")
    /\ UNCHANGED <<fips_keygen_counter, prev, locals, history>>

\* Variant: only the first sample is ever remembered.
AcceptFirstOnly ==
    /\ current # prev
    /\ FipsGoTo(Main, "compare", "approve")
    /\ prev' = IF prev = NoSample THEN current ELSE prev
    /\ UNCHANGED <<fips_state, fips_keygen_counter, locals, history>>

Accept ==
    /\ current # prev
    /\ FipsGoTo(Main, "compare", "approve")
    /\ prev' = current
    /\ UNCHANGED <<fips_state, fips_keygen_counter, locals, history>>

Reject ==
    /\ current = prev
    /\ Fail(Main, "compare")
    /\ UNCHANGED <<fips_keygen_counter, prev, locals, history>>

Approve ==
    /\ FipsGoTo(Main, "approve", "idle")
    /\ fips_state' = "APPROVED"
    /\ UNCHANGED <<fips_keygen_counter, prev, locals, history>>

-----------------------------------------------------------------------------
(* fips_conditional_selftest, called after a key generation *)
StartConditional(t) ==
    /\ fips_keygens < MaxFipsKeygens
    /\ FipsGoTo(t, "idle", "inc_load")
    /\ fips_keygens' = fips_keygens + 1
    /\ since_test' = since_test + 1
    /\ overlapped' = (overlapped \/ \E u \in FipsThreads : fips_pc[u] \in Conditional)
    /\ UNCHANGED <<shared, locals, power_ons, drawn>>

\* keygen_counter++ on a volatile: a load and a store.
FipsIncLoad(t) ==
    /\ FipsGoTo(t, "inc_load", "inc_store")
    /\ fips_loaded' = [fips_loaded EXCEPT ![t] = fips_keygen_counter]
    /\ UNCHANGED <<shared, current, history>>

FipsIncStore(t) ==
    /\ FipsGoTo(t, "inc_store", "due")
    /\ fips_keygen_counter' = (fips_loaded[t] + 1) % CounterModulus
    /\ UNCHANGED <<fips_state, prev, locals, history>>

\* Variant: the counter is compared with the interval, not its multiples.
FipsNotDueUnlessEqual(t) ==
    /\ fips_keygen_counter # FipsInterval
    /\ FipsGoTo(t, "due", "idle")
    /\ UNCHANGED <<shared, locals, history>>

\* The counter is read again, not the value just stored.
FipsNotDue(t) ==
    /\ fips_keygen_counter % FipsInterval # 0
    /\ FipsGoTo(t, "due", "idle")
    /\ UNCHANGED <<shared, locals, history>>

FipsDue(t) ==
    /\ fips_keygen_counter % FipsInterval = 0
    /\ FipsGoTo(t, "due", "cond_ed25519")
    /\ since_test' = 0
    /\ UNCHANGED <<shared, locals, power_ons, fips_keygens, overlapped, drawn>>

PassConditional(t) ==
    /\ fips_pc[t] \in DOMAIN NextConditional
    /\ FipsGoTo(t, fips_pc[t], NextConditional[fips_pc[t]])
    /\ UNCHANGED <<shared, locals, history>>

FailConditional(t) ==
    /\ fips_pc[t] \in DOMAIN NextConditional
    /\ Fail(t, fips_pc[t])
    /\ UNCHANGED <<fips_keygen_counter, prev, locals, history>>

\* Variant: a passed conditional self-test approves the module.
ResetCounterApproves(t) ==
    /\ FipsGoTo(t, "reset", "idle")
    /\ fips_keygen_counter' = 0
    /\ fips_state' = "APPROVED"
    /\ UNCHANGED <<prev, locals, history>>

ResetCounter(t) ==
    /\ FipsGoTo(t, "reset", "idle")
    /\ fips_keygen_counter' = 0
    /\ UNCHANGED <<fips_state, prev, locals, history>>

-----------------------------------------------------------------------------
PowerOnStep ==
    \/ StartPowerOn \/ PassPowerOnTest \/ FailPowerOnTest
    \/ DrawFails \/ Accept \/ Reject \/ Approve
    \/ \E s \in Samples : Draw(s)

ConditionalStep(t) ==
    \/ StartConditional(t) \/ FipsIncLoad(t) \/ FipsIncStore(t) \/ FipsNotDue(t) \/ FipsDue(t)
    \/ PassConditional(t) \/ FailConditional(t) \/ ResetCounter(t)

FipsNext == PowerOnStep \/ \E t \in FipsThreads : ConditionalStep(t)

FipsSpec == FipsInit /\ [][FipsNext]_fipsVars
-----------------------------------------------------------------------------
FipsTypeOK ==
    /\ fips_state \in {"INITIAL", "SELFTEST", "ERROR", "APPROVED"}
    /\ fips_keygen_counter \in 0..(CounterModulus - 1)
    /\ prev \in Samples \union {NoSample}
    /\ fips_pc \in [FipsThreads -> {"idle"} \union PowerOn \union Conditional]
    /\ fips_loaded \in [FipsThreads -> 0..(CounterModulus - 1)]
    /\ current \in Samples \union {NoSample}
    /\ power_ons \in Nat
    /\ fips_keygens \in Nat
    /\ since_test \in Nat
    /\ overlapped \in BOOLEAN
    /\ drawn \in (Samples \union {NoSample}) \X (Samples \union {NoSample})

(* FIPS_STATE_SELFTEST is left on every path out of the power-on self-test,
   and while it runs the module is never APPROVED, whatever conditional
   self-tests do meanwhile. *)
StateTracksPowerOn ==
    IF fips_pc[Main] \in PowerOn
    THEN fips_state \in {"SELFTEST", "ERROR"}
    ELSE fips_state # "SELFTEST"

(* ERROR is left only by the power-on self-test: a later conditional self-test
   that passes does not re-enable the module. *)
ErrorLeftByPowerOnOnly ==
    [][fips_state = "ERROR" /\ fips_state' # "ERROR" => PowerOnStep]_fipsVars

(* A module is APPROVED only by the run of the power-on self-test in progress:
   every approval is preceded, in the same call, by a sample that differs from
   the one drawn before it, also across failed runs. *)
ApprovedOnFreshSample ==
    [][fips_state' = "APPROVED" /\ fips_state # "APPROVED" =>
        drawn[1] # drawn[2]]_fipsVars

Quiet == \A t \in FipsThreads : fips_pc[t] \notin Conditional

(* As long as conditional calls do not overlap, at most FipsInterval - 1 keys
   are generated between tests, across failed tests and the wrap of the counter. *)
SerialKeygensTested == Quiet /\ ~overlapped => since_test < FipsInterval

(* fips_selftest.h:64 promises the pairwise tests every FipsInterval key
   generation operations, and fips_selftest.c:304 an atomic increment. *)
KeygensTested == Quiet => since_test < FipsInterval

(* doc/FIPS_140_3_COMPLIANCE.md:101 draws the states: a module in ERROR has no
   way to APPROVED, and line 123 says it cannot recover automatically. *)
NoApprovalFromError ==
    [][fips_state = "ERROR" => fips_state' # "APPROVED"]_fipsVars

-----------------------------------------------------------------------------
(* The inductive invariant behind the theorems of FipsProofs.  fips_crngt
   compares with the last sample drawn, not the last accepted one, because a
   rejected sample equals the previous one. *)
PrevIsLastDrawn ==
    /\ fips_pc[Main] = "compare" => prev = drawn[1] /\ current = drawn[2]
    /\ fips_pc[Main] # "compare" => prev = drawn[2]
    /\ fips_pc[Main] = "approve" => drawn[1] # drawn[2]

\* What since_test is while the one conditional call of t is in progress.
SinceTestInCall(t) ==
    /\ fips_pc[t] \in {"inc_load", "inc_store"} =>
           since_test = (fips_keygen_counter % FipsInterval) + 1
    /\ fips_pc[t] = "inc_store" => fips_loaded[t] = fips_keygen_counter
    /\ fips_pc[t] = "due" /\ fips_keygen_counter % FipsInterval # 0 =>
           since_test = fips_keygen_counter % FipsInterval
    /\ fips_pc[t] \in {"cond_ed25519", "cond_x25519", "reset"} =>
           since_test = 0 /\ fips_keygen_counter % FipsInterval = 0

CounterTracksTests ==
    ~overlapped =>
        /\ \A t, u \in FipsThreads :
               fips_pc[t] \in Conditional /\ fips_pc[u] \in Conditional => t = u
        /\ Quiet => since_test = fips_keygen_counter % FipsInterval
        /\ \A t \in FipsThreads : SinceTestInCall(t)

FipsInv ==
    FipsTypeOK /\ StateTracksPowerOn /\ PrevIsLastDrawn /\ CounterTracksTests
=============================================================================
