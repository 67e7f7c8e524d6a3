----------------------------- MODULE FipsProofs -----------------------------
(***************************************************************************)
(* Theorems about FipsModule for every set of threads, every interval and  *)
(* every width of the counter, and about the composition with Lifecycle.   *)
(***************************************************************************)
EXTENDS SelfTests, NumberLemmas, TLAPS

-----------------------------------------------------------------------------
(* The module starts untested, with an empty counter. *)
LEMMA InitFipsInv == FipsInit => FipsInv
<1> SUFFICES ASSUME FipsInit PROVE FipsInv
  OBVIOUS
<1> USE FipsAssumption
<1>1. FipsTypeOK
  <2>1. overlapped \in BOOLEAN
    BY Zenon DEF FipsInit
  <2> QED
    BY <2>1 DEF FipsInit, FipsTypeOK
<1>2. StateTracksPowerOn /\ PrevIsLastDrawn
  BY DEF FipsInit, StateTracksPowerOn, PrevIsLastDrawn, PowerOn, NextPowerOnTest
<1>3. 0 % FipsInterval = 0
  OBVIOUS
<1>4. CounterTracksTests
  BY <1>3 DEF FipsInit, CounterTracksTests, SinceTestInCall, Conditional,
    NextConditional
<1> QED
  BY <1>1, <1>2, <1>4 DEF FipsInv

(* Every step keeps the state well-formed; the counter wraps. *)
LEMMA NextTypeOK == FipsTypeOK /\ [FipsNext]_fipsVars => FipsTypeOK'
<1> SUFFICES ASSUME FipsTypeOK, [FipsNext]_fipsVars PROVE FipsTypeOK'
  OBVIOUS
<1> USE FipsAssumption DEF FipsTypeOK, PowerOn, Conditional, NextPowerOnTest,
        NextConditional, FipsGoTo, Fail, shared, locals, history
<1>1. CASE StartPowerOn \/ PassPowerOnTest \/ FailPowerOnTest
  BY <1>1 DEF StartPowerOn, PassPowerOnTest, FailPowerOnTest
<1>2. ASSUME NEW s \in Samples, Draw(s) PROVE FipsTypeOK'
  BY <1>2 DEF Draw
<1>3. CASE DrawFails \/ Accept \/ Reject \/ Approve
  BY <1>3 DEF DrawFails, Accept, Reject, Approve
<1>4. ASSUME NEW t \in FipsThreads, StartConditional(t) PROVE FipsTypeOK'
  <2>1. overlapped' \in BOOLEAN
    BY <1>4 DEF StartConditional
  <2> QED
    BY <1>4, <2>1 DEF StartConditional
<1>5. ASSUME NEW t \in FipsThreads, FipsIncLoad(t) PROVE FipsTypeOK'
  BY <1>5 DEF FipsIncLoad
<1>6. ASSUME NEW t \in FipsThreads, FipsIncStore(t) PROVE FipsTypeOK'
  <2>1. (fips_loaded[t] + 1) % CounterModulus \in 0..(CounterModulus - 1)
    OBVIOUS
  <2> QED
    BY <1>6, <2>1 DEF FipsIncStore
<1>7. ASSUME NEW t \in FipsThreads, FipsNotDue(t) \/ FipsDue(t) PROVE FipsTypeOK'
  BY <1>7 DEF FipsNotDue, FipsDue
<1>8. ASSUME NEW t \in FipsThreads, PassConditional(t) \/ FailConditional(t)
      PROVE  FipsTypeOK'
  BY <1>8 DEF PassConditional, FailConditional
<1>9. ASSUME NEW t \in FipsThreads, ResetCounter(t) PROVE FipsTypeOK'
  BY <1>9 DEF ResetCounter
<1>10. CASE UNCHANGED fipsVars
  BY <1>10 DEF fipsVars
<1> QED
  BY <1>1, <1>2, <1>3, <1>4, <1>5, <1>6, <1>7, <1>8, <1>9, <1>10
  DEF FipsNext, PowerOnStep, ConditionalStep

(* SELFTEST is stored when a run begins, and every way out of it stores ERROR
   or APPROVED; a conditional self-test stores only ERROR. *)
LEMMA NextStateTracks ==
  FipsInv /\ [FipsNext]_fipsVars => StateTracksPowerOn'
<1> SUFFICES ASSUME FipsInv, [FipsNext]_fipsVars PROVE StateTracksPowerOn'
  OBVIOUS
<1> USE FipsAssumption DEF FipsInv, FipsTypeOK, StateTracksPowerOn, PowerOn,
        Conditional, NextPowerOnTest, NextConditional, FipsGoTo, Fail, shared
<1>1. CASE StartPowerOn \/ PassPowerOnTest \/ FailPowerOnTest
  BY <1>1 DEF StartPowerOn, PassPowerOnTest, FailPowerOnTest
<1>2. ASSUME NEW s \in Samples, Draw(s) PROVE StateTracksPowerOn'
  BY <1>2 DEF Draw
<1>3. CASE DrawFails \/ Accept \/ Reject \/ Approve
  BY <1>3 DEF DrawFails, Accept, Reject, Approve
<1>4. ASSUME NEW t \in FipsThreads, ConditionalStep(t) PROVE StateTracksPowerOn'
  <2>1. (fips_pc'[Main] \in PowerOn) <=> (fips_pc[Main] \in PowerOn)
    BY <1>4 DEF ConditionalStep, StartConditional, FipsIncLoad, FipsIncStore, FipsNotDue,
      FipsDue, PassConditional, FailConditional, ResetCounter
  <2>2. fips_state' = fips_state \/ fips_state' = "ERROR"
    BY <1>4 DEF ConditionalStep, StartConditional, FipsIncLoad, FipsIncStore, FipsNotDue,
      FipsDue, PassConditional, FailConditional, ResetCounter
  <2> QED
    BY <2>1, <2>2
<1>5. CASE UNCHANGED fipsVars
  BY <1>5 DEF fipsVars
<1> QED
  BY <1>1, <1>2, <1>3, <1>4, <1>5 DEF FipsNext, PowerOnStep

(* A sample that is rejected equals the remembered one, so that the remembered
   sample is always the last one drawn. *)
LEMMA NextPrevIsLastDrawn == FipsInv /\ [FipsNext]_fipsVars => PrevIsLastDrawn'
<1> SUFFICES ASSUME FipsInv, [FipsNext]_fipsVars PROVE PrevIsLastDrawn'
  OBVIOUS
<1> USE FipsAssumption DEF FipsInv, FipsTypeOK, PrevIsLastDrawn, PowerOn,
        Conditional, NextPowerOnTest, NextConditional, FipsGoTo, Fail, shared, locals,
        history
<1>1. CASE StartPowerOn \/ PassPowerOnTest \/ FailPowerOnTest
  BY <1>1 DEF StartPowerOn, PassPowerOnTest, FailPowerOnTest
<1>2. ASSUME NEW s \in Samples, Draw(s) PROVE PrevIsLastDrawn'
  BY <1>2 DEF Draw
<1>3. CASE DrawFails \/ Accept \/ Reject \/ Approve
  BY <1>3 DEF DrawFails, Accept, Reject, Approve
<1>4. ASSUME NEW t \in FipsThreads, ConditionalStep(t) PROVE PrevIsLastDrawn'
  <2>1. /\ fips_pc[Main] # "compare" /\ fips_pc[Main] # "approve" =>
             fips_pc'[Main] # "compare" /\ fips_pc'[Main] # "approve"
        /\ fips_pc[Main] \in {"compare", "approve"} => fips_pc'[Main] = fips_pc[Main]
    BY <1>4 DEF ConditionalStep, StartConditional, FipsIncLoad, FipsIncStore, FipsNotDue,
      FipsDue, PassConditional, FailConditional, ResetCounter
  <2>2. UNCHANGED <<prev, current, drawn>>
    BY <1>4 DEF ConditionalStep, StartConditional, FipsIncLoad, FipsIncStore, FipsNotDue,
      FipsDue, PassConditional, FailConditional, ResetCounter
  <2> QED
    BY <2>1, <2>2
<1>5. CASE UNCHANGED fipsVars
  BY <1>5 DEF fipsVars
<1> QED
  BY <1>1, <1>2, <1>3, <1>4, <1>5 DEF FipsNext, PowerOnStep

-----------------------------------------------------------------------------
(* While one thread at a time is in a conditional call, since_test follows
   the counter modulo the interval; the call that finds a multiple restarts
   both, and the wrap of the counter is such a multiple. *)
LEMMA NextCounterTracks == FipsInv /\ [FipsNext]_fipsVars => CounterTracksTests'
<1> SUFFICES ASSUME FipsInv, [FipsNext]_fipsVars, ~overlapped'
             PROVE  CounterTracksTests'
  BY DEF CounterTracksTests
<1>0. ~overlapped
  BY DEF FipsNext, PowerOnStep, ConditionalStep, StartPowerOn, PassPowerOnTest, FailPowerOnTest,
    Draw, DrawFails, Accept, Reject, Approve, StartConditional, FipsIncLoad,
    FipsIncStore, FipsNotDue, FipsDue, PassConditional, FailConditional, ResetCounter,
    history, fipsVars
<1>a. /\ \A t, u \in FipsThreads :
           fips_pc[t] \in Conditional /\ fips_pc[u] \in Conditional => t = u
      /\ Quiet => since_test = fips_keygen_counter % FipsInterval
      /\ \A t \in FipsThreads : SinceTestInCall(t)
  BY <1>0 DEF FipsInv, CounterTracksTests
<1>b. 0 % FipsInterval = 0
  BY FipsAssumption
<1>1. ASSUME PowerOnStep PROVE CounterTracksTests'
  <2>1. UNCHANGED <<fips_keygen_counter, since_test, overlapped, fips_loaded>>
    BY <1>1 DEF PowerOnStep, StartPowerOn, PassPowerOnTest, FailPowerOnTest, Draw, DrawFails,
      Accept, Reject, Approve, shared, locals, history
  <2>2. \A t \in FipsThreads \ {Main} : fips_pc'[t] = fips_pc[t]
    BY <1>1, FipsAssumption DEF FipsInv, FipsTypeOK, PowerOnStep, StartPowerOn,
      PassPowerOnTest, FailPowerOnTest, Draw, DrawFails, Accept, Reject, Approve, FipsGoTo, Fail
  <2>3. fips_pc[Main] \notin Conditional /\ fips_pc'[Main] \notin Conditional
    BY <1>1, FipsAssumption DEF FipsInv, FipsTypeOK, PowerOnStep, StartPowerOn,
      PassPowerOnTest, FailPowerOnTest, Draw, DrawFails, Accept, Reject, Approve, FipsGoTo, Fail,
      Conditional, NextConditional, NextPowerOnTest
  <2>4. \A t \in FipsThreads : SinceTestInCall(t)'
    BY <1>a, <2>1, <2>2, <2>3 DEF SinceTestInCall, Conditional, NextConditional
  <2> QED
    BY <1>a, <2>1, <2>2, <2>3, <2>4 DEF CounterTracksTests, Quiet
<1>2. ASSUME NEW t \in FipsThreads, ConditionalStep(t) PROVE CounterTracksTests'
  <2> USE DEF FipsGoTo, Fail, FipsInv, FipsTypeOK
  <2>1. \A u \in FipsThreads \ {t} : fips_pc'[u] = fips_pc[u]
    BY <1>2 DEF ConditionalStep, StartConditional, FipsIncLoad, FipsIncStore, FipsNotDue,
      FipsDue, PassConditional, FailConditional, ResetCounter
  <2>2. \A u \in FipsThreads \ {t} : fips_pc[u] \notin Conditional
    <3>1. CASE StartConditional(t)
      BY <1>0, <3>1 DEF StartConditional
    <3>2. CASE ~StartConditional(t)
      BY <1>2, <1>a, <3>2 DEF ConditionalStep, FipsIncLoad, FipsIncStore, FipsNotDue, FipsDue,
        PassConditional, FailConditional, ResetCounter, Conditional,
        NextConditional
    <3> QED
      BY <3>1, <3>2
  <2>3. \A u, w \in FipsThreads :
          fips_pc'[u] \in Conditional /\ fips_pc'[w] \in Conditional => u = w
    BY <2>1, <2>2
  <2>4. \A u \in FipsThreads \ {t} : SinceTestInCall(u)'
    BY <2>1, <2>2 DEF SinceTestInCall, Conditional, NextConditional
  <2>5. SUFFICES /\ SinceTestInCall(t)'
                 /\ fips_pc'[t] \notin Conditional =>
                      since_test' = fips_keygen_counter' % FipsInterval
    BY <2>3, <2>4 DEF CounterTracksTests, Quiet
  <2> USE DEF SinceTestInCall, Conditional, NextConditional, shared, locals,
              history
  <2>6. CASE StartConditional(t)
    <3>1. Quiet
      BY <2>2, <2>6 DEF StartConditional, Quiet
    <3> QED
      BY <1>a, <2>6, <3>1 DEF StartConditional
  <2>7. CASE FipsIncLoad(t)
    BY <1>a, <2>7 DEF FipsIncLoad
  <2>8. CASE FipsIncStore(t)
    <3>1. /\ since_test = (fips_keygen_counter % FipsInterval) + 1
          /\ fips_keygen_counter' = (fips_keygen_counter + 1) % CounterModulus
      BY <1>a, <2>8 DEF FipsIncStore
    <3>2. CASE fips_keygen_counter + 1 = CounterModulus
      <4>1. fips_keygen_counter' = 0
        BY <3>1, <3>2, FipsAssumption
      <4> QED
        BY <1>b, <2>8, <4>1 DEF FipsIncStore
    <3>3. CASE fips_keygen_counter + 1 # CounterModulus
      <4>1. fips_keygen_counter' = fips_keygen_counter + 1
        BY <3>1, <3>3, FipsAssumption
      <4>2. fips_keygen_counter' % FipsInterval # 0 =>
              fips_keygen_counter' % FipsInterval = (fips_keygen_counter % FipsInterval) + 1
        <5>1. fips_keygen_counter \in Nat /\ FipsInterval \in Nat \ {0}
          BY <1>a, FipsAssumption
        <5>2. (fips_keygen_counter + 1) % FipsInterval =
                IF (fips_keygen_counter % FipsInterval) = FipsInterval - 1 THEN 0
                ELSE (fips_keygen_counter % FipsInterval) + 1
          <6> HIDE DEF FipsInv, FipsTypeOK
          <6> QED
            BY ONLY <5>1, ModSucc
        <5> QED
          BY ONLY <4>1, <5>2
      <4> QED
        BY <2>8, <3>1, <4>2 DEF FipsIncStore
    <3> QED
      BY <3>2, <3>3
  <2>9. CASE FipsNotDue(t)
    BY <1>a, <2>9 DEF FipsNotDue
  <2>10. CASE FipsDue(t)
    BY <2>10 DEF FipsDue
  <2>11. CASE PassConditional(t)
    BY <1>a, <2>11 DEF PassConditional
  <2>12. CASE FailConditional(t)
    BY <1>a, <2>12 DEF FailConditional
  <2>13. CASE ResetCounter(t)
    BY <1>a, <1>b, <2>13 DEF ResetCounter
  <2> QED
    BY <1>2, <2>6, <2>7, <2>8, <2>9, <2>10, <2>11, <2>12, <2>13
    DEF ConditionalStep
<1>3. CASE UNCHANGED fipsVars
  BY <1>a, <1>3 DEF fipsVars, shared, locals, history, CounterTracksTests, Quiet,
    SinceTestInCall
<1> QED
  BY <1>1, <1>2, <1>3 DEF FipsNext

-----------------------------------------------------------------------------
(* The inductive invariant holds in every reachable state. *)
THEOREM Invariance == FipsSpec => []FipsInv
<1>1. FipsInv /\ [FipsNext]_fipsVars => FipsInv'
  <2>1. FipsInv => FipsTypeOK
    BY DEF FipsInv
  <2> QED
    BY <2>1, NextTypeOK, NextStateTracks, NextPrevIsLastDrawn,
      NextCounterTracks DEF FipsInv
<1> QED
  BY InitFipsInv, <1>1, PTL DEF FipsSpec

(* Every variable keeps its type; fips_keygen_counter stays below 2^32. *)
THEOREM TypeCorrect == FipsSpec => []FipsTypeOK
<1>1. FipsInv => FipsTypeOK
  BY DEF FipsInv
<1> QED
  BY <1>1, Invariance, PTL

(* The module is never APPROVED during a power-on self-test, and SELFTEST
   never outlives one. *)
THEOREM StateFollowsPowerOn == FipsSpec => []StateTracksPowerOn
<1>1. FipsInv => StateTracksPowerOn
  BY DEF FipsInv
<1> QED
  BY <1>1, Invariance, PTL

(* Key generations that do not overlap are tested at least every FipsInterval. *)
THEOREM SerialTesting == FipsSpec => []SerialKeygensTested
<1>1. FipsInv => SerialKeygensTested
  <2> SUFFICES ASSUME FipsInv, Quiet, ~overlapped PROVE since_test < FipsInterval
    BY DEF SerialKeygensTested
  <2>1. since_test = fips_keygen_counter % FipsInterval /\ fips_keygen_counter \in Nat
    BY FipsAssumption DEF FipsInv, FipsTypeOK, CounterTracksTests
  <2> QED
    BY <2>1, FipsAssumption
<1> QED
  BY <1>1, Invariance, PTL

(* No conditional self-test leaves the error state. *)
THEOREM ErrorSurvivesConditional == FipsSpec => ErrorLeftByPowerOnOnly
<1>1. [FipsNext]_fipsVars =>
        [fips_state = "ERROR" /\ fips_state' # "ERROR" => PowerOnStep]_fipsVars
  <2> SUFFICES ASSUME NEW t \in FipsThreads, ConditionalStep(t),
                      fips_state = "ERROR"
               PROVE  fips_state' = "ERROR"
    BY DEF FipsNext
  <2> QED
    BY DEF ConditionalStep, StartConditional, FipsIncLoad, FipsIncStore, FipsNotDue, FipsDue,
      PassConditional, FailConditional, ResetCounter, Fail, shared
<1> QED
  BY <1>1, PTL DEF FipsSpec, ErrorLeftByPowerOnOnly

(* An approval follows two different samples, across failed runs. *)
THEOREM FreshSample == FipsSpec => ApprovedOnFreshSample
<1>1. FipsInv /\ [FipsNext]_fipsVars =>
        [fips_state' = "APPROVED" /\ fips_state # "APPROVED" =>
           drawn[1] # drawn[2]]_fipsVars
  <2> SUFFICES ASSUME FipsInv, FipsNext, fips_state' = "APPROVED",
                      fips_state # "APPROVED"
               PROVE  drawn[1] # drawn[2]
    OBVIOUS
  <2>1. Approve
    BY DEF FipsNext, PowerOnStep, ConditionalStep, StartPowerOn, PassPowerOnTest, FailPowerOnTest,
      Draw, DrawFails, Accept, Reject, StartConditional, FipsIncLoad, FipsIncStore,
      FipsNotDue, FipsDue, PassConditional, FailConditional, ResetCounter, Fail, shared
  <2> QED
    BY <2>1 DEF Approve, FipsGoTo, FipsInv, PrevIsLastDrawn
<1> QED
  BY <1>1, Invariance, PTL DEF FipsSpec, ApprovedOnFreshSample

(* The two self-test services do not disturb each other: a behaviour of both is one
   of fips_selftest.c of the FIPS module and one of the core, so what is proved of
   each, here and in LifecycleProofs, holds of the library with both. *)
THEOREM ImplementsServices == SelfTestsSpec => Spec /\ FipsSpec
<1>1. SelfTestsInit => Init /\ FipsInit
  BY DEF SelfTestsInit
<1>2. [SelfTestsNext]_selfTestsVars => [Next]_vars /\ [FipsNext]_fipsVars
  <2> SUFFICES ASSUME [SelfTestsNext]_selfTestsVars
               PROVE  [Next]_vars /\ [FipsNext]_fipsVars
    OBVIOUS
  <2>1. CASE CoreStep
    BY <2>1 DEF CoreStep
  <2>2. CASE FipsStep
    BY <2>2 DEF FipsStep
  <2>3. CASE UNCHANGED selfTestsVars
    BY <2>3 DEF selfTestsVars
  <2> QED
    BY <2>1, <2>2, <2>3 DEF SelfTestsNext
<1> QED
  BY <1>1, <1>2, PTL DEF SelfTestsSpec, Spec, FipsSpec
=============================================================================
