-------------------------- MODULE LifecycleProofs --------------------------
(***************************************************************************)
(* Theorems about Lifecycle for every set of threads, every table and      *)
(* every interval.                                                         *)
(***************************************************************************)
EXTENDS Lifecycle, NumberLemmas, TLAPS

-----------------------------------------------------------------------------
(* The parts of the inductive invariant *)

\* TypeOK without the selection.
Typed ==
    /\ nacl_initialized \in BOOLEAN
    /\ power_up_tests_passed \in BOOLEAN
    /\ last_test_result \in {"SUCCESS", "FAILED"}
    /\ keygen_counter \in Nat
    /\ conditional_tests_enabled \in BOOLEAN
    /\ features \subseteq Features
    /\ pc \in [Threads -> Locations]
    /\ back \in [Threads -> {"idle", "select_load", "initialized", "use"}]
    /\ loaded \in [Threads -> Nat]
    /\ power_ups \in Nat /\ sets \in Nat
    /\ forced \subseteq Table
    /\ keygens \in Nat /\ tests \in Nat
    /\ outcomes \in Seq({"SUCCESS", "FAILED"})
    /\ ran_alone \in BOOLEAN /\ kept_alone \in BOOLEAN

SomePass == \E i \in DOMAIN outcomes : outcomes[i] = "SUCCESS"

\* A thread on its way to the flag has a passed run behind it.
PassedBefore ==
    /\ \A t \in Threads : back[t] = "initialized" => SomePass
    /\ \A t \in Threads : pc[t] = "initialized" => back[t] = "initialized"
    /\ nacl_initialized => SomePass

LastIs(result) == outcomes # <<>> /\ outcomes[Len(outcomes)] = result

\* A run's status is stored before its outcome is known.
StatusInv ==
    /\ LastIs("FAILED") => last_test_result = "FAILED"
    /\ ran_alone =>
        /\ \A t, u \in Threads : pc[t] \in PowerUp /\ pc[u] \in PowerUp => t = u
        /\ \A t \in Threads :
               /\ pc[t] = "pass_result" => power_up_tests_passed
               /\ pc[t] = "fail_result" => ~power_up_tests_passed
        /\ (\A t \in Threads : pc[t] \notin {"pass_result", "fail_result"}) =>
               (power_up_tests_passed <=> LastIs("SUCCESS"))

\* Where the only counting thread is, decides how far the counter has come.
KeysInv ==
    kept_alone =>
        /\ \A t, u \in Threads : pc[t] \in Counting /\ pc[u] \in Counting => t = u
        /\ (\A t \in Threads : pc[t] \notin Counting) =>
               keygen_counter = keygens /\ tests = keygens \div Interval
        /\ \A t \in Threads :
               /\ pc[t] \in Counting => keygens > 0 /\ tests = (keygens - 1) \div Interval
               /\ pc[t] \in {"inc_load", "inc_store"} => keygen_counter = keygens - 1
               /\ pc[t] = "inc_store" => loaded[t] = keygens - 1
               /\ pc[t] = "due" => keygen_counter = keygens

\* What stands between a thread and a call through a null pointer.
SelectedInv ==
    /\ \A t \in Threads :
           /\ pc[t] \in PowerUp => back[t] \in {"select_load", "idle"}
           /\ pc[t] \in {"use", "initialized"} => current_impl # NULL
    /\ nacl_initialized => current_impl # NULL

-----------------------------------------------------------------------------
LEMMA InitTyped == Init => Typed
<1> SUFFICES ASSUME Init PROVE Typed
  OBVIOUS
<1>1. ran_alone \in BOOLEAN /\ kept_alone \in BOOLEAN /\ nacl_initialized \in BOOLEAN
      /\ power_up_tests_passed \in BOOLEAN /\ conditional_tests_enabled \in BOOLEAN
  BY DEF Init
<1> QED
  BY <1>1 DEF Init, Typed, Locations

LEMMA NextTyped == Typed /\ [Next]_vars => Typed'
<1> SUFFICES ASSUME Typed, [Next]_vars PROVE Typed'
  OBVIOUS
<1> USE DEF Typed, Locations, PowerUp, NextTest, Counting, GoTo, Forget, Move,
        KeyFrame, powerUpVars, selectVars, keyVars
<1>1. ASSUME NEW t \in Threads,
             NaclInit(t) \/ AlreadyInitialized(t) \/ SetInitialized(t)
      PROVE  Typed'
  <2>1. CASE NaclInit(t)
    BY <2>1 DEF NaclInit
  <2>2. CASE AlreadyInitialized(t)
    BY <2>2 DEF AlreadyInitialized
  <2>3. CASE SetInitialized(t)
    BY <2>3 DEF SetInitialized
  <2> QED
    BY <1>1, <2>1, <2>2, <2>3
<1>2. ASSUME NEW t \in Threads, InitTests(t) \/ StartPowerUp(t) PROVE Typed'
  <2>1. ran_alone' \in BOOLEAN
    <3> ran_alone' = (ran_alone /\ \A u \in Threads : pc[u] \notin PowerUp)
      BY <1>2, Zenon DEF InitTests, StartPowerUp, StartsRun
    <3> QED
      OBVIOUS
  <2>2. CASE InitTests(t)
    BY <2>1, <2>2 DEF InitTests, StartsRun
  <2>3. CASE StartPowerUp(t)
    BY <2>1, <2>3 DEF StartPowerUp, StartsRun
  <2> QED
    BY <1>2, <2>2, <2>3
<1>3. ASSUME NEW t \in Threads, PassTest(t) \/ FailTest(t) PROVE Typed'
  <2>1. CASE PassTest(t)
    BY <2>1 DEF PassTest
  <2>2. CASE FailTest(t)
    BY <2>2 DEF FailTest
  <2> QED
    BY <1>3, <2>1, <2>2
<1>4. ASSUME NEW t \in Threads, PassStatus(t) \/ FailStatus(t) PROVE Typed'
  BY <1>4 DEF PassStatus, FailStatus, StoreStatus
<1>5. ASSUME NEW t \in Threads, PassResult(t) \/ FailResult(t) PROVE Typed'
  <2>1. CASE PassResult(t)
    <3>1. outcomes' = Append(outcomes, "SUCCESS")
      BY <2>1 DEF PassResult, StoreResult
    <3>2. outcomes' \in Seq({"SUCCESS", "FAILED"})
      BY <3>1
    <3>3. pc' \in [Threads -> Locations]
      BY <2>1 DEF PassResult, ReturnPass
    <3>4. back' \in [Threads -> {"idle", "select_load", "initialized", "use"}]
      BY <2>1 DEF PassResult, ReturnPass
    <3> QED
      BY <2>1, <3>2, <3>3, <3>4 DEF PassResult, StoreResult
  <2>2. CASE FailResult(t)
    <3>1. outcomes' = Append(outcomes, "FAILED")
      BY <2>2 DEF FailResult, StoreResult
    <3>2. outcomes' \in Seq({"SUCCESS", "FAILED"})
      BY <3>1
    <3> QED
      BY <2>2, <3>2 DEF FailResult, StoreResult
  <2> QED
    BY <1>5, <2>1, <2>2
<1>6. ASSUME NEW t \in Threads,
             StartUse(t) \/ SelectLoad(t) \/ SelectStore(t) \/ Use(t)
      PROVE  Typed'
  <2>1. CASE StartUse(t)
    BY <2>1 DEF StartUse
  <2>2. CASE SelectLoad(t)
    BY <2>2 DEF SelectLoad
  <2>3. CASE SelectStore(t)
    BY <2>3 DEF SelectStore
  <2>4. CASE Use(t)
    BY <2>4 DEF Use
  <2> QED
    BY <1>6, <2>1, <2>2, <2>3, <2>4
<1>7. ASSUME NEW t \in Threads, NEW impl \in Table, SetImplementation(t, impl)
      PROVE  Typed'
  BY <1>7 DEF SetImplementation, ForceChoice
<1>8. ASSUME NEW t \in Threads, NEW enable \in BOOLEAN, EnableTests(t, enable)
      PROVE  Typed'
  BY <1>8 DEF EnableTests
<1>9. ASSUME NEW t \in Threads, StartKeygen(t) PROVE Typed'
  <2>1. kept_alone' \in BOOLEAN
    BY <1>9 DEF StartKeygen
  <2> QED
    BY <1>9, <2>1 DEF StartKeygen
<1>10. ASSUME NEW t \in Threads, IncLoad(t) \/ IncStore(t) \/ NotDue(t) \/ Due(t)
       PROVE  Typed'
  <2>1. CASE IncLoad(t)
    BY <2>1 DEF IncLoad
  <2>2. CASE IncStore(t)
    BY <2>2 DEF IncStore
  <2>3. CASE NotDue(t)
    BY <2>3 DEF NotDue
  <2>4. CASE Due(t)
    BY <2>4 DEF Due
  <2> QED
    BY <1>10, <2>1, <2>2, <2>3, <2>4
<1>11. ASSUME NEW t \in Threads, KeypairTestPasses(t) \/ KeypairTestFails(t)
       PROVE  Typed'
  BY <1>11 DEF KeypairTestPasses, KeypairTestFails
<1>12. CASE UNCHANGED vars
  BY <1>12 DEF vars
<1> QED
  BY <1>1, <1>2, <1>3, <1>4, <1>5, <1>6, <1>7, <1>8, <1>9, <1>10, <1>11, <1>12
  DEF Next

(* What a further outcome does to the last one and to the passed ones. *)
LEMMA AppendOutcome ==
  ASSUME NEW s \in Seq({"SUCCESS", "FAILED"}), NEW r \in {"SUCCESS", "FAILED"}
  PROVE  /\ Append(s, r) # <<>>
         /\ Append(s, r)[Len(Append(s, r))] = r
         /\ \A i \in DOMAIN s : i \in DOMAIN Append(s, r) /\ Append(s, r)[i] = s[i]
  OBVIOUS

-----------------------------------------------------------------------------
(* Outcomes are only ever added, and the selection follows a passed run. *)
LEMMA NextPassedBefore == Typed /\ PassedBefore /\ [Next]_vars => PassedBefore'
<1> SUFFICES ASSUME Typed, PassedBefore, [Next]_vars PROVE PassedBefore'
  OBVIOUS
<1> USE DEF Typed, GoTo, Forget, Move, KeyFrame, powerUpVars, selectVars, keyVars
<1>1. ASSUME NEW t \in Threads, NEW r \in {"SUCCESS", "FAILED"},
             outcomes' = Append(outcomes, r)
      PROVE  /\ SomePass => SomePass'
             /\ r = "SUCCESS" => SomePass'
  <2>1. Len(outcomes') \in DOMAIN outcomes' /\ outcomes'[Len(outcomes')] = r
    BY <1>1
  <2> QED
    BY <1>1, <2>1, AppendOutcome DEF SomePass
<1>2. ASSUME NEW t \in Threads, PassResult(t) PROVE PassedBefore'
  <2>1. SomePass'
    BY <1>1, <1>2 DEF PassResult, StoreResult
  <2>2. \A u \in Threads : pc'[u] = "initialized" => back'[u] = "initialized"
    BY <1>2 DEF PassResult, ReturnPass, PassedBefore
  <2> QED
    BY <2>1, <2>2 DEF PassedBefore
<1>3. ASSUME NEW t \in Threads, FailResult(t) PROVE PassedBefore'
  <2>1. SomePass => SomePass'
    BY <1>1, <1>3 DEF FailResult, StoreResult
  <2> QED
    BY <1>3, <2>1 DEF FailResult, StoreResult, PassedBefore
<1>4. ASSUME UNCHANGED outcomes PROVE SomePass' = SomePass
  BY <1>4 DEF SomePass
<1>5. ASSUME NEW t \in Threads, SetInitialized(t) PROVE PassedBefore'
  BY <1>4, <1>5 DEF SetInitialized, PassedBefore
<1>6. ASSUME NEW t \in Threads,
             \/ NaclInit(t) \/ AlreadyInitialized(t) \/ PassTest(t) \/ FailTest(t)
             \/ PassStatus(t) \/ FailStatus(t)
      PROVE  PassedBefore'
  BY <1>4, <1>6 DEF NaclInit, AlreadyInitialized, PassTest, FailTest, PassStatus,
    FailStatus, StoreStatus, PassedBefore, NextTest
<1>7. ASSUME NEW t \in Threads, InitTests(t) \/ StartPowerUp(t) PROVE PassedBefore'
  BY <1>4, <1>7 DEF InitTests, StartPowerUp, StartsRun, PassedBefore
<1>8. ASSUME NEW t \in Threads,
             StartUse(t) \/ SelectLoad(t) \/ SelectStore(t) \/ Use(t)
      PROVE  PassedBefore'
  <2>1. CASE StartUse(t)
    BY <1>4, <2>1 DEF StartUse, PassedBefore
  <2>2. CASE SelectLoad(t)
    BY <1>4, <2>2 DEF SelectLoad, PassedBefore
  <2>3. CASE SelectStore(t)
    BY <1>4, <2>3 DEF SelectStore, PassedBefore
  <2>4. CASE Use(t)
    BY <1>4, <2>4 DEF Use, PassedBefore
  <2> QED
    BY <1>8, <2>1, <2>2, <2>3, <2>4
<1>9. ASSUME NEW t \in Threads, NEW impl \in Table, SetImplementation(t, impl)
      PROVE  PassedBefore'
  BY <1>4, <1>9 DEF SetImplementation, ForceChoice, PassedBefore
<1>10. ASSUME NEW t \in Threads, NEW enable \in BOOLEAN, EnableTests(t, enable)
       PROVE  PassedBefore'
  BY <1>4, <1>10 DEF EnableTests, PassedBefore
<1>11. ASSUME NEW t \in Threads,
              \/ StartKeygen(t) \/ IncLoad(t) \/ IncStore(t) \/ NotDue(t) \/ Due(t)
              \/ KeypairTestPasses(t) \/ KeypairTestFails(t)
       PROVE  PassedBefore'
  BY <1>4, <1>11 DEF StartKeygen, IncLoad, IncStore, NotDue, Due,
    KeypairTestPasses, KeypairTestFails, PassedBefore
<1>12. CASE UNCHANGED vars
  BY <1>4, <1>12 DEF vars, PassedBefore
<1> QED
  BY <1>2, <1>3, <1>5, <1>6, <1>7, <1>8, <1>9, <1>10, <1>11, <1>12 DEF Next

-----------------------------------------------------------------------------
(* The selection *)

\* The loop of the selection after i entries, for any values of its variable.
Scan(best, n) ==
    best = [i \in 0 .. n |->
               IF i = 0 THEN implementations[1] ELSE Better(best[i - 1], implementations[i])]

(* There is a function that the equations of the loop define. *)
LEMMA ScanExists == ASSUME NEW n \in Nat PROVE \E best : Scan(best, n)
<1> DEFINE Done == {k \in Nat : \E best : Scan(best, k)}
<1>1. 0 \in Done
  <2> DEFINE b == [i \in 0 .. 0 |-> implementations[1]]
  <2>1. Scan(b, 0)
    BY DEF Scan
  <2> QED
    BY <2>1
<1>2. ASSUME NEW k \in Nat, k \in Done PROVE k + 1 \in Done
  <2>1. PICK b : Scan(b, k)
    BY <1>2
  <2> DEFINE c == [i \in 0 .. k + 1 |->
                      IF i <= k THEN b[i] ELSE Better(b[k], implementations[k + 1])]
  <2>2. ASSUME NEW i \in 0 .. k + 1
        PROVE  c[i] = IF i = 0 THEN implementations[1]
                      ELSE Better(c[i - 1], implementations[i])
    <3>1. CASE i <= k
      <4>1. c[i] = b[i] /\ (i # 0 => c[i - 1] = b[i - 1])
        BY <3>1
      <4>2. b[i] = IF i = 0 THEN implementations[1]
                   ELSE Better(b[i - 1], implementations[i])
        BY <2>1, <3>1 DEF Scan
      <4> HIDE DEF c
      <4> QED
        BY <4>1, <4>2
    <3>2. CASE i = k + 1
      BY <3>2
    <3> QED
      BY <3>1, <3>2
  <2>3. Scan(c, k + 1)
    BY <2>2, Zenon DEF Scan
  <2>4. k + 1 \in Nat
    OBVIOUS
  <2> QED
    BY <2>3, <2>4, Zenon
<1> HIDE DEF Done
<1>3. n \in Done
  BY <1>1, <1>2, UpTo
<1> QED
  BY <1>3 DEF Done

\* The best entry among the first n, first of them when none is supported.
IsBest(impl, n) ==
    /\ impl \in Table
    /\ Supported(impl)
    /\ \A i \in 1 .. n :
           Supported(implementations[i]) => implementations[i].priority <= impl.priority

(* The loop ends on a supported entry that no other supported one outranks. *)
LEMMA BestIsBest == IsBest(Best, Len(implementations))
<1> DEFINE size == Len(implementations)
           best == CHOOSE b : Scan(b, size)
           Good == {k \in 0 .. size : IsBest(best[k], k)}
<1>1. size \in Nat /\ size > 0 /\ DOMAIN implementations = 1 .. size
  BY LifecycleAssumption
<1>2. Best = best[size]
  BY Zenon DEF Best, Scan
<1>3. \E b : Scan(b, size)
  BY <1>1, ScanExists
<1>4. Scan(best, size)
  BY <1>3, Zenon
<1> HIDE DEF best, size
<1>5. \A i \in 1 .. size : implementations[i] \in Table
  BY <1>1 DEF Table
<1>6. 0 \in Good
  <2>1. best[0] = implementations[1]
    BY <1>1, <1>4 DEF Scan
  <2> QED
    BY <1>1, <1>5, <2>1, LifecycleAssumption DEF IsBest, Supported
<1>7. ASSUME NEW k \in 0 .. size - 1, k \in Good PROVE k + 1 \in Good
  <2>1. best[k + 1] = Better(best[k], implementations[k + 1])
    BY <1>1, <1>4 DEF Scan
  <2>2. IsBest(best[k], k)
    BY <1>7
  <2> DEFINE b == best[k]
             impl == implementations[k + 1]
  <2>3. impl \in Table /\ impl.priority \in Nat
    BY <1>1, <1>5, LifecycleAssumption
  <2>4. \A x \in Table : x.priority \in Nat
    BY LifecycleAssumption DEF Table
  <2>5. b.priority \in Nat
    BY <2>2, <2>4 DEF IsBest
  <2> HIDE DEF b
  <2>6. \A i \in 1 .. k : implementations[i].priority \in Nat
    BY <1>1, LifecycleAssumption
  <2>7. IsBest(Better(b, impl), k + 1)
    <3>1. CASE Supported(impl) /\ impl.priority > b.priority
      <4>1. Better(b, impl) = impl
        BY <3>1 DEF Better
      <4>2. \A i \in 1 .. k + 1 : i = k + 1 \/ i \in 1 .. k
        OBVIOUS
      <4>3. ASSUME NEW i \in 1 .. k, Supported(implementations[i])
            PROVE  implementations[i].priority <= impl.priority
        BY <2>2, <2>3, <2>5, <2>6, <3>1, <4>3 DEF IsBest, b
      <4> QED
        BY <2>3, <3>1, <4>1, <4>2, <4>3 DEF IsBest
    <3>2. CASE ~(Supported(impl) /\ impl.priority > b.priority)
      <4>1. Better(b, impl) = b
        BY <3>2 DEF Better
      <4>2. Supported(impl) => impl.priority <= b.priority
        BY <2>3, <2>5, <3>2
      <4>3. \A i \in 1 .. k + 1 : i = k + 1 \/ i \in 1 .. k
        OBVIOUS
      <4> QED
        BY <2>2, <4>1, <4>2, <4>3 DEF IsBest, b
    <3> QED
      BY <3>1, <3>2
  <2> QED
    BY <1>1, <2>1, <2>7 DEF b
<1> HIDE DEF Good
<1>8. size \in Good
  <2>1. \A k \in 0 .. size : k \in Good
    BY <1>1, <1>6, <1>7, UpTo, Zenon
  <2> QED
    BY <1>1, <2>1
<1> QED
  BY <1>2, <1>8 DEF Good, size

(* A pointer that is set stays set, and no thread uses it before. *)
LEMMA NextSelected ==
  Typed /\ SelectedInv /\ [Next]_vars => SelectedInv'
<1> SUFFICES ASSUME Typed, SelectedInv, [Next]_vars PROVE SelectedInv'
  OBVIOUS
<1> USE DEF Typed, SelectedInv, GoTo, Forget, Move, KeyFrame, powerUpVars,
        selectVars, keyVars, PowerUp, NextTest
<1>1. \A impl \in Table : impl # NULL
  BY LifecycleAssumption DEF Table
<1>2. ASSUME NEW t \in Threads, NaclInit(t) \/ AlreadyInitialized(t) PROVE SelectedInv'
  BY <1>2 DEF NaclInit, AlreadyInitialized
<1>3. ASSUME NEW t \in Threads, SetInitialized(t) PROVE SelectedInv'
  BY <1>3 DEF SetInitialized
<1>4. ASSUME NEW t \in Threads, InitTests(t) PROVE SelectedInv'
  BY <1>4 DEF InitTests, StartsRun
<1>5. ASSUME NEW t \in Threads, StartPowerUp(t) PROVE SelectedInv'
  BY <1>5 DEF StartPowerUp, StartsRun
<1>6. ASSUME NEW t \in Threads, PassTest(t) PROVE SelectedInv'
  BY <1>6 DEF PassTest
<1>7. ASSUME NEW t \in Threads, FailTest(t) PROVE SelectedInv'
  BY <1>7 DEF FailTest
<1>8. ASSUME NEW t \in Threads, PassStatus(t) \/ FailStatus(t) PROVE SelectedInv'
  BY <1>8 DEF PassStatus, FailStatus, StoreStatus
<1>9. ASSUME NEW t \in Threads, PassResult(t) PROVE SelectedInv'
  BY <1>9 DEF PassResult, ReturnPass, StoreResult
<1>10. ASSUME NEW t \in Threads, FailResult(t) PROVE SelectedInv'
  BY <1>10 DEF FailResult, StoreResult
<1>11. ASSUME NEW t \in Threads, StartUse(t) \/ Use(t) PROVE SelectedInv'
  <2>1. CASE StartUse(t)
    BY <2>1 DEF StartUse
  <2>2. CASE Use(t)
    BY <2>2 DEF Use
  <2> QED
    BY <1>11, <2>1, <2>2
<1>12. ASSUME NEW t \in Threads, SelectLoad(t) PROVE SelectedInv'
  BY <1>12 DEF SelectLoad
<1>13. ASSUME NEW t \in Threads, SelectStore(t) PROVE SelectedInv'
  <2>1. Best \in Table
    BY BestIsBest DEF IsBest
  <2> QED
    BY <1>1, <1>13, <2>1 DEF SelectStore
<1>14. ASSUME NEW t \in Threads, NEW impl \in Table, SetImplementation(t, impl)
       PROVE  SelectedInv'
  BY <1>1, <1>14 DEF SetImplementation, ForceChoice
<1>15. ASSUME NEW t \in Threads, NEW enable \in BOOLEAN, EnableTests(t, enable)
       PROVE  SelectedInv'
  BY <1>15 DEF EnableTests
<1>16. ASSUME NEW t \in Threads, StartKeygen(t) \/ IncLoad(t) \/ IncStore(t)
       PROVE  SelectedInv'
  BY <1>16 DEF StartKeygen, IncLoad, IncStore
<1>17. ASSUME NEW t \in Threads, NotDue(t) \/ Due(t) PROVE SelectedInv'
  BY <1>17 DEF NotDue, Due
<1>18. ASSUME NEW t \in Threads, KeypairTestPasses(t) \/ KeypairTestFails(t)
       PROVE  SelectedInv'
  BY <1>18 DEF KeypairTestPasses, KeypairTestFails
<1>19. CASE UNCHANGED vars
  BY <1>19 DEF vars
<1> QED
  BY <1>2, <1>3, <1>4, <1>5, <1>6, <1>7, <1>8, <1>9, <1>10, <1>11, <1>12, <1>13,
     <1>14, <1>15, <1>16, <1>17, <1>18, <1>19 DEF Next

(* The status and the result of a run, which are stored one after the other. *)
LEMMA NextStatus == Typed /\ StatusInv /\ [Next]_vars => StatusInv'
<1> SUFFICES ASSUME Typed, StatusInv, [Next]_vars PROVE StatusInv'
  OBVIOUS
<1> USE DEF Typed, GoTo, Forget, Move, KeyFrame, powerUpVars, selectVars, keyVars
<1>1. ASSUME NEW r \in {"SUCCESS", "FAILED"}, outcomes' = Append(outcomes, r),
             NEW x \in {"SUCCESS", "FAILED"}
      PROVE  LastIs(x)' <=> x = r
  BY <1>1, AppendOutcome DEF LastIs
<1>2. ASSUME NEW x, UNCHANGED outcomes PROVE LastIs(x)' <=> LastIs(x)
  BY <1>2 DEF LastIs
<1> DEFINE Others == UNCHANGED <<outcomes, power_up_tests_passed, ran_alone>>
                     /\ (last_test_result' = last_test_result
                           \/ last_test_result' = "FAILED")
(* A step that leaves the runs alone. *)
<1>3. ASSUME NEW t \in Threads, Others, pc[t] \notin PowerUp,
             NEW to \in Locations \ PowerUp, pc' = [pc EXCEPT ![t] = to]
      PROVE  StatusInv'
  BY <1>2, <1>3 DEF StatusInv, PowerUp
<1>4. ASSUME NEW t \in Threads, InitTests(t) \/ StartPowerUp(t) PROVE StatusInv'
  <2>1. /\ UNCHANGED <<outcomes, power_up_tests_passed, last_test_result>>
        /\ pc' = [pc EXCEPT ![t] = "rng"]
    BY <1>4 DEF InitTests, StartPowerUp, StartsRun
  <2>2. ran_alone' = (ran_alone /\ \A u \in Threads : pc[u] \notin PowerUp)
    BY <1>4, Zenon DEF InitTests, StartPowerUp, StartsRun
  <2> QED
    BY <1>2, <2>1, <2>2 DEF StatusInv, PowerUp
<1>5. ASSUME NEW t \in Threads, PassTest(t) PROVE StatusInv'
  <2>1. /\ UNCHANGED <<outcomes, power_up_tests_passed, last_test_result, ran_alone>>
        /\ pc[t] \in DOMAIN NextTest
        /\ pc' = [pc EXCEPT ![t] = NextTest[pc[t]]]
    BY <1>5 DEF PassTest
  <2>2. NextTest[pc[t]] \in PowerUp \ {"pass_result", "fail_result"}
    BY <2>1 DEF NextTest, PowerUp
  <2>3. pc[t] \in PowerUp \ {"pass_result", "fail_result"}
    BY <2>1 DEF NextTest, PowerUp
  <2> QED
    BY <1>2, <2>1, <2>2, <2>3 DEF StatusInv
<1>6. ASSUME NEW t \in Threads, FailTest(t) PROVE StatusInv'
  <2>1. /\ UNCHANGED <<outcomes, power_up_tests_passed, last_test_result, ran_alone>>
        /\ pc[t] \in PowerUp \ {"pass_result", "fail_result"}
        /\ pc' = [pc EXCEPT ![t] = "fail_status"]
    BY <1>6 DEF FailTest, PowerUp, NextTest
  <2>2. "fail_status" \in PowerUp \ {"pass_result", "fail_result"}
    BY DEF PowerUp
  <2> QED
    BY <1>2, <2>1, <2>2 DEF StatusInv
<1>7. ASSUME NEW t \in Threads, PassStatus(t) \/ FailStatus(t) PROVE StatusInv'
  <2>1. CASE PassStatus(t)
    <3>1. /\ UNCHANGED <<outcomes, last_test_result, ran_alone>>
          /\ power_up_tests_passed'
          /\ pc[t] = "pass_status" /\ pc' = [pc EXCEPT ![t] = "pass_result"]
      BY <2>1 DEF PassStatus, StoreStatus
    <3> QED
      BY <1>2, <3>1 DEF StatusInv, PowerUp
  <2>2. CASE FailStatus(t)
    <3>1. /\ UNCHANGED <<outcomes, last_test_result, ran_alone>>
          /\ ~power_up_tests_passed'
          /\ pc[t] = "fail_status" /\ pc' = [pc EXCEPT ![t] = "fail_result"]
      BY <2>2 DEF FailStatus, StoreStatus
    <3> QED
      BY <1>2, <3>1 DEF StatusInv, PowerUp
  <2> QED
    BY <1>7, <2>1, <2>2
<1>8. ASSUME NEW t \in Threads, PassResult(t), back[t] \notin PowerUp
      PROVE  StatusInv'
  <2>1. /\ outcomes' = Append(outcomes, "SUCCESS")
        /\ UNCHANGED <<power_up_tests_passed, ran_alone>>
        /\ pc[t] = "pass_result"
        /\ pc' = [pc EXCEPT ![t] = back[t]]
    BY <1>8 DEF PassResult, ReturnPass, StoreResult
  <2> QED
    BY <1>1, <1>8, <2>1 DEF StatusInv, PowerUp
<1>9. ASSUME NEW t \in Threads, FailResult(t) PROVE StatusInv'
  <2>1. /\ outcomes' = Append(outcomes, "FAILED")
        /\ last_test_result' = "FAILED"
        /\ UNCHANGED <<power_up_tests_passed, ran_alone>>
        /\ pc[t] = "fail_result"
        /\ pc' = [pc EXCEPT ![t] = "idle"]
    BY <1>9 DEF FailResult, StoreResult
  <2> QED
    BY <1>1, <2>1 DEF StatusInv, PowerUp
<1>10. \A t \in Threads : back[t] \in Locations \ PowerUp
  BY DEF PowerUp, Locations, NextTest
<1>11. ASSUME NEW t \in Threads,
              NaclInit(t) \/ AlreadyInitialized(t) \/ SetInitialized(t)
       PROVE  StatusInv'
  <2>1. \E to \in Locations \ PowerUp :
            Others /\ pc[t] \notin PowerUp /\ pc' = [pc EXCEPT ![t] = to]
    BY <1>11 DEF NaclInit, AlreadyInitialized, SetInitialized, PowerUp, NextTest, Locations
  <2> QED
    BY <1>3, <2>1
<1>12. ASSUME NEW t \in Threads,
              StartUse(t) \/ SelectLoad(t) \/ SelectStore(t) \/ Use(t)
       PROVE  StatusInv'
  <2>1. \E to \in Locations \ PowerUp :
            Others /\ pc[t] \notin PowerUp /\ pc' = [pc EXCEPT ![t] = to]
    BY <1>10, <1>12 DEF StartUse, SelectLoad, SelectStore, Use, PowerUp, NextTest, Locations
  <2> QED
    BY <1>3, <2>1
<1>13. ASSUME NEW t \in Threads,
              \/ \E impl \in Table : SetImplementation(t, impl)
              \/ \E enable \in BOOLEAN : EnableTests(t, enable)
       PROVE  StatusInv'
  <2>1. \E to \in Locations \ PowerUp :
            Others /\ pc[t] \notin PowerUp /\ pc' = [pc EXCEPT ![t] = to]
    BY <1>13 DEF SetImplementation, ForceChoice, EnableTests, PowerUp, NextTest, Locations
  <2> QED
    BY <1>3, <2>1
<1>14. ASSUME NEW t \in Threads,
              StartKeygen(t) \/ IncLoad(t) \/ IncStore(t) \/ NotDue(t) \/ Due(t)
       PROVE  StatusInv'
  <2>1. \E to \in Locations \ PowerUp :
            Others /\ pc[t] \notin PowerUp /\ pc' = [pc EXCEPT ![t] = to]
    BY <1>14 DEF StartKeygen, IncLoad, IncStore, NotDue, Due, PowerUp, NextTest,
      Locations, Counting
  <2> QED
    BY <1>3, <2>1
<1>15. ASSUME NEW t \in Threads, KeypairTestPasses(t) \/ KeypairTestFails(t)
       PROVE  StatusInv'
  <2>1. \E to \in Locations \ PowerUp :
            Others /\ pc[t] \notin PowerUp /\ pc' = [pc EXCEPT ![t] = to]
    BY <1>15 DEF KeypairTestPasses, KeypairTestFails, PowerUp, NextTest, Locations
  <2> QED
    BY <1>3, <2>1
<1>16. CASE UNCHANGED vars
  BY <1>2, <1>16 DEF vars, StatusInv
<1> QED
  BY <1>4, <1>5, <1>6, <1>7, <1>8, <1>9, <1>10, <1>11, <1>12, <1>13, <1>14, <1>15,
     <1>16 DEF Next

(* The counter, which each counted call loads, stores and reads again. *)
LEMMA NextKeys == Typed /\ KeysInv /\ [Next]_vars => KeysInv'
<1> SUFFICES ASSUME Typed, KeysInv, [Next]_vars PROVE KeysInv'
  OBVIOUS
<1> USE LifecycleAssumption
    DEF Typed, GoTo, Forget, Move, KeyFrame, powerUpVars, selectVars, keyVars
<1> DEFINE Others == UNCHANGED <<keygen_counter, loaded, keygens, tests, kept_alone>>
           Away == Locations \ Counting
(* A step that leaves the counting alone. *)
<1>1. ASSUME NEW t \in Threads, Others, pc[t] \in Away,
             NEW to \in Away, pc' = [pc EXCEPT ![t] = to]
      PROVE  KeysInv'
  BY <1>1 DEF KeysInv, Counting
<1>2. ASSUME NEW t \in Threads, StartKeygen(t) PROVE KeysInv'
  <2>1. /\ UNCHANGED <<keygen_counter, loaded, tests>>
        /\ keygens' = keygens + 1
        /\ pc[t] = "idle" /\ pc' = [pc EXCEPT ![t] = "inc_load"]
    BY <1>2 DEF StartKeygen
  <2>2. kept_alone' = (kept_alone /\ \A u \in Threads : pc[u] \notin Counting)
    BY <1>2, Zenon DEF StartKeygen
  <2>3. keygens' - 1 = keygens /\ keygens' > 0
    BY <2>1
  <2> QED
    BY <2>1, <2>2, <2>3 DEF KeysInv, Counting
<1>3. ASSUME NEW t \in Threads, IncLoad(t) PROVE KeysInv'
  <2>1. /\ UNCHANGED <<keygen_counter, keygens, tests, kept_alone>>
        /\ pc[t] = "inc_load" /\ pc' = [pc EXCEPT ![t] = "inc_store"]
        /\ loaded' = [loaded EXCEPT ![t] = keygen_counter]
    BY <1>3 DEF IncLoad
  <2> QED
    BY <2>1 DEF KeysInv, Counting
<1>4. ASSUME NEW t \in Threads, IncStore(t) PROVE KeysInv'
  <2>1. /\ UNCHANGED <<keygens, tests, kept_alone>>
        /\ pc[t] = "inc_store" /\ pc' = [pc EXCEPT ![t] = "due"]
        /\ keygen_counter' = loaded[t] + 1
    BY <1>4 DEF IncStore
  <2>2. kept_alone => keygen_counter' = keygens
    BY <2>1 DEF KeysInv
  <2> QED
    BY <2>1, <2>2 DEF KeysInv, Counting
(* The division of the number of keys, when the last of them is looked at. *)
<1>5. ASSUME NEW t \in Threads, kept_alone, pc[t] = "due"
      PROVE  /\ keygen_counter = keygens
             /\ keygens \div Interval = IF KeyDue THEN tests + 1 ELSE tests
  <2>1. keygen_counter = keygens /\ keygens > 0 /\ tests = (keygens - 1) \div Interval
    BY <1>5 DEF KeysInv, Counting
  <2>2. keygens - 1 \in Nat /\ (keygens - 1) + 1 = keygens
    BY <2>1
  <2> QED
    BY <2>1, <2>2, DivSucc DEF KeyDue
<1>6. ASSUME NEW t \in Threads, NotDue(t) PROVE KeysInv'
  <2>1. /\ UNCHANGED <<keygen_counter, loaded, keygens, tests, kept_alone>>
        /\ ~KeyDue /\ pc[t] = "due" /\ pc' = [pc EXCEPT ![t] = "idle"]
    BY <1>6 DEF NotDue
  <2>2. kept_alone => keygen_counter = keygens /\ tests = keygens \div Interval
    BY <1>5, <2>1
  <2> QED
    BY <2>1, <2>2 DEF KeysInv, Counting
<1>7. ASSUME NEW t \in Threads, Due(t) PROVE KeysInv'
  <2>1. /\ UNCHANGED <<keygen_counter, loaded, keygens, kept_alone>>
        /\ tests' = tests + 1
        /\ KeyDue /\ pc[t] = "due" /\ pc' = [pc EXCEPT ![t] = "keypair_test"]
    BY <1>7 DEF Due
  <2>2. kept_alone => keygen_counter = keygens /\ tests' = keygens \div Interval
    BY <1>5, <2>1
  <2> QED
    BY <2>1, <2>2 DEF KeysInv, Counting
<1>8. \A t \in Threads : back[t] \in Away
  BY DEF Counting, Locations, PowerUp, NextTest
<1>9. ASSUME NEW t \in Threads,
             \/ NaclInit(t) \/ AlreadyInitialized(t) \/ SetInitialized(t)
             \/ InitTests(t) \/ StartPowerUp(t)
      PROVE  KeysInv'
  <2>1. \E to \in Away : Others /\ pc[t] \in Away /\ pc' = [pc EXCEPT ![t] = to]
    BY <1>9 DEF NaclInit, AlreadyInitialized, SetInitialized, InitTests, StartPowerUp,
      StartsRun, Counting, Locations, PowerUp, NextTest
  <2> QED
    BY <1>1, <2>1
<1>10. ASSUME NEW t \in Threads, PassTest(t) \/ FailTest(t) PROVE KeysInv'
  <2>1. pc[t] \in DOMAIN NextTest
    BY <1>10 DEF PassTest, FailTest
  <2>2. pc[t] \in Away /\ NextTest[pc[t]] \in Away /\ "fail_status" \in Away
    BY <2>1 DEF Counting, Locations, PowerUp, NextTest
  <2>3. \E to \in Away : Others /\ pc[t] \in Away /\ pc' = [pc EXCEPT ![t] = to]
    BY <1>10, <2>2 DEF PassTest, FailTest
  <2> QED
    BY <1>1, <2>3
<1>11. ASSUME NEW t \in Threads, PassStatus(t) \/ FailStatus(t) PROVE KeysInv'
  <2>1. \E to \in Away : Others /\ pc[t] \in Away /\ pc' = [pc EXCEPT ![t] = to]
    BY <1>11 DEF PassStatus, FailStatus, StoreStatus, Counting, Locations, PowerUp
  <2> QED
    BY <1>1, <2>1
<1>12. ASSUME NEW t \in Threads, PassResult(t) \/ FailResult(t) PROVE KeysInv'
  <2>1. \E to \in Away : Others /\ pc[t] \in Away /\ pc' = [pc EXCEPT ![t] = to]
    BY <1>8, <1>12 DEF PassResult, FailResult, ReturnPass, StoreResult, Counting,
      Locations, PowerUp
  <2> QED
    BY <1>1, <2>1
<1>13. ASSUME NEW t \in Threads,
              StartUse(t) \/ SelectLoad(t) \/ SelectStore(t) \/ Use(t)
       PROVE  KeysInv'
  <2>1. \E to \in Away : Others /\ pc[t] \in Away /\ pc' = [pc EXCEPT ![t] = to]
    BY <1>8, <1>13 DEF StartUse, SelectLoad, SelectStore, Use, Counting, Locations
  <2> QED
    BY <1>1, <2>1
<1>14. ASSUME NEW t \in Threads,
              \/ \E impl \in Table : SetImplementation(t, impl)
              \/ \E enable \in BOOLEAN : EnableTests(t, enable)
       PROVE  KeysInv'
  <2>1. \E to \in Away : Others /\ pc[t] \in Away /\ pc' = [pc EXCEPT ![t] = to]
    BY <1>14 DEF SetImplementation, ForceChoice, EnableTests, Counting, Locations
  <2> QED
    BY <1>1, <2>1
<1>15. ASSUME NEW t \in Threads, KeypairTestPasses(t) \/ KeypairTestFails(t)
       PROVE  KeysInv'
  <2>1. \E to \in Away : Others /\ pc[t] \in Away /\ pc' = [pc EXCEPT ![t] = to]
    BY <1>15 DEF KeypairTestPasses, KeypairTestFails, Counting, Locations
  <2> QED
    BY <1>1, <2>1
<1>16. CASE UNCHANGED vars
  BY <1>16 DEF vars, KeysInv
<1> QED
  BY <1>2, <1>3, <1>4, <1>6, <1>7, <1>9, <1>10, <1>11, <1>12, <1>13, <1>14, <1>15,
     <1>16 DEF Next

-----------------------------------------------------------------------------
LEMMA InitParts == Init => PassedBefore /\ SelectedInv /\ StatusInv /\ KeysInv
<1> SUFFICES ASSUME Init PROVE PassedBefore /\ SelectedInv /\ StatusInv /\ KeysInv
  OBVIOUS
<1>1. PassedBefore /\ SelectedInv
  BY DEF Init, PassedBefore, SelectedInv, PowerUp, NextTest
<1>2. StatusInv
  BY DEF Init, StatusInv, LastIs, PowerUp, NextTest
<1>3. 0 \div Interval = 0
  BY LifecycleAssumption
<1>4. KeysInv
  BY <1>3 DEF Init, KeysInv, Counting
<1> QED
  BY <1>1, <1>2, <1>4

(* nacl_init sets its flag only in a process in which a run of the power-up
   self-tests has passed, however many threads call it and whatever fails. *)
THEOREM InitializedOnlyAfterPass == Spec => []InitializedAfterPass
<1>1. Init => Typed /\ PassedBefore
  BY InitTyped, InitParts
<1>2. (Typed /\ PassedBefore) /\ [Next]_vars => (Typed /\ PassedBefore)'
  BY NextTyped, NextPassedBefore
<1>3. PassedBefore => InitializedAfterPass
  BY DEF PassedBefore, SomePass, InitializedAfterPass
<1> QED
  BY <1>1, <1>2, <1>3, PTL DEF Spec

(* The status and the last result are those of the last run, as long as runs do
   not overlap. *)
THEOREM StatusFollowsRuns == Spec => []StatusOfLastRun
<1>1. Init => Typed /\ StatusInv
  BY InitTyped, InitParts
<1>2. (Typed /\ StatusInv) /\ [Next]_vars => (Typed /\ StatusInv)'
  BY NextTyped, NextStatus
<1>3. Typed /\ StatusInv => StatusOfLastRun
  BY DEF Typed, StatusInv, StatusOfLastRun, LastIs, Last, PowerUp
<1> QED
  BY <1>1, <1>2, <1>3, PTL DEF Spec

(* Every Interval-th counted key is tested, as long as counted calls do not
   overlap. *)
THEOREM SerialKeysAreTested == Spec => []SerialKeysTested
<1>1. Init => Typed /\ KeysInv
  BY InitTyped, InitParts
<1>2. (Typed /\ KeysInv) /\ [Next]_vars => (Typed /\ KeysInv)'
  BY NextTyped, NextKeys
<1>3. KeysInv => SerialKeysTested
  BY DEF KeysInv, SerialKeysTested
<1> QED
  BY <1>1, <1>2, <1>3, PTL DEF Spec

(* A dispatch wrapper never calls through a null pointer. *)
THEOREM NullIsNeverCalled == Spec => []NeverCallsNull
<1>1. Init => Typed /\ SelectedInv
  BY InitTyped, InitParts
<1>2. (Typed /\ SelectedInv) /\ [Next]_vars => (Typed /\ SelectedInv)'
  BY NextTyped, NextSelected
<1>3. SelectedInv => NeverCallsNull
  BY DEF SelectedInv, NeverCallsNull
<1> QED
  BY <1>1, <1>2, <1>3, PTL DEF Spec

(* What a step can do to the selection. *)
LEMMA NextChoice ==
  [Next]_vars =>
      /\ UNCHANGED features
      /\ \/ UNCHANGED <<current_impl, forced>>
         \/ current_impl' = Best /\ UNCHANGED forced
         \/ \E impl \in Table : current_impl' = impl /\ forced' = forced \union {impl}
<1> SUFFICES ASSUME [Next]_vars
             PROVE  /\ UNCHANGED features
                    /\ \/ UNCHANGED <<current_impl, forced>>
                       \/ current_impl' = Best /\ UNCHANGED forced
                       \/ \E impl \in Table :
                              current_impl' = impl /\ forced' = forced \union {impl}
  OBVIOUS
<1>1. \/ UNCHANGED <<features, current_impl, forced>>
      \/ \E t \in Threads :
            SelectStore(t) \/ \E impl \in Table : SetImplementation(t, impl)
  BY DEF Next, vars, selectVars, NaclInit, AlreadyInitialized, SetInitialized, InitTests,
    StartPowerUp, StartsRun, PassTest, FailTest, PassStatus, FailStatus, StoreStatus,
    PassResult, FailResult, ReturnPass, StoreResult, StartUse, SelectLoad, Use, Move,
    EnableTests, StartKeygen, IncLoad, IncStore, NotDue, Due, KeypairTestPasses,
    KeypairTestFails, KeyFrame
<1> QED
  BY <1>1 DEF SelectStore, SetImplementation, ForceChoice

(* The types, the selected implementation included. *)
THEOREM TypeCorrect == Spec => []TypeOK
<1>1. Init => Typed /\ current_impl \in Table \union {NULL}
  BY InitTyped DEF Init
<1>2. /\ Typed /\ current_impl \in Table \union {NULL}
      /\ [Next]_vars
      => (Typed /\ current_impl \in Table \union {NULL})'
  <2>1. Best \in Table
    BY BestIsBest DEF IsBest
  <2> QED
    BY <2>1, NextTyped, NextChoice
<1>3. Typed /\ current_impl \in Table \union {NULL} => TypeOK
  BY DEF Typed, TypeOK
<1> QED
  BY <1>1, <1>2, <1>3, PTL DEF Spec

\* What is selected was forced, or the loop ended on it.
ForcedOrBest ==
    current_impl # NULL /\ current_impl \notin forced =>
        IsBest(current_impl, Len(implementations))

(* An automatic choice is never outranked, for any table and processor, and only
   nacl_set_implementation can put another implementation there. *)
THEOREM ChoiceIsBest == Spec => []BestUnlessForced
<1>1. Init => ForcedOrBest
  BY DEF Init, ForcedOrBest
<1>2. ForcedOrBest /\ [Next]_vars => ForcedOrBest'
  <2> SUFFICES ASSUME ForcedOrBest, [Next]_vars,
                      current_impl' # NULL, current_impl' \notin forced'
               PROVE  IsBest(current_impl, Len(implementations))'
    BY DEF ForcedOrBest
  <2>1. UNCHANGED features
    BY NextChoice
  <2>2. IsBest(current_impl', Len(implementations))
    BY NextChoice, BestIsBest DEF ForcedOrBest
  <2> QED
    BY <2>1, <2>2 DEF IsBest, Supported
<1>3. ForcedOrBest => BestUnlessForced
  <2> SUFFICES ASSUME ForcedOrBest, current_impl # NULL, current_impl \notin forced
               PROVE  /\ Supported(current_impl)
                      /\ \A impl \in Table :
                             Supported(impl) => impl.priority <= current_impl.priority
    BY DEF BestUnlessForced
  <2>1. DOMAIN implementations = 1 .. Len(implementations)
    BY LifecycleAssumption
  <2> QED
    BY <2>1 DEF ForcedOrBest, IsBest, Table
<1> QED
  BY <1>1, <1>2, <1>3, PTL DEF Spec
=============================================================================
