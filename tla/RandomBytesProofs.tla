------------------------- MODULE RandomBytesProofs -------------------------
(***************************************************************************)
(* Theorems about RandomBytes for every finite set of threads, every       *)
(* self-test interval and every length, with the driver or without.        *)
(***************************************************************************)
EXTENDS RandomBytes, NumberLemmas, FiniteSetTheorems, TLAPS

P == INSTANCE DrngProofs

-----------------------------------------------------------------------------
(* What DrngProofs shows of the driver alone holds of the driver below
   randombytes.c. *)
LEMMA DriverInv == D!IInv /\ [D!Next]_drngVars => D!IInv'
<1>1. P!PlatformAssumption
  BY RandomBytesAssumption, Zenon DEF P!PlatformAssumption
<1>2. P!IInv /\ [P!Next]_(P!drngVars) => P!IInv'
  BY <1>1, P!NextTypeOK, P!NextInitializer, P!NextNoHardware DEF P!IInv
<1>3. D!Next <=> P!Next
  BY Zenon DEF
      D!Next, P!Next, D!Call, P!Call, D!ReloadImpl, P!ReloadImpl, D!InitFast,
      P!InitFast, D!InitClaim, P!InitClaim, D!InitLose, P!InitLose,
      D!InitWait, P!InitWait, D!ProbeNone, P!ProbeNone, D!ProbeArm,
      P!ProbeArm, D!SelfTest, P!SelfTest, D!PublishImpl, P!PublishImpl,
      D!PublishInitialized, P!PublishInitialized, D!PublishDone,
      P!PublishDone, D!ResetState, P!ResetState, D!ResetImpl, P!ResetImpl,
      D!Work, P!Work, D!GoTo, P!GoTo, D!ReturnPoint, P!ReturnPoint
<1>4. D!IInv <=> P!IInv
  BY Zenon DEF
      D!IInv, P!IInv, D!TypeOK, P!TypeOK, D!HardwareNeverSelected,
      P!HardwareNeverSelected, D!OneInitializer, P!OneInitializer,
      D!StateTellsInitializer, P!StateTellsInitializer,
      D!InitializedIsPublished, P!InitializedIsPublished, D!ChoiceIsNone,
      P!ChoiceIsNone, D!Impls, P!Impls, D!Locations, P!Locations, D!Choosing,
      P!Choosing, D!Publishing, P!Publishing, D!Asking, P!Asking,
      D!InitializerRunning, P!InitializerRunning, D!Undecided, P!Undecided
<1>5. D!IInv' <=> P!IInv'
  BY Zenon DEF
      D!IInv, P!IInv, D!TypeOK, P!TypeOK, D!HardwareNeverSelected,
      P!HardwareNeverSelected, D!OneInitializer, P!OneInitializer,
      D!StateTellsInitializer, P!StateTellsInitializer,
      D!InitializedIsPublished, P!InitializedIsPublished, D!ChoiceIsNone,
      P!ChoiceIsNone, D!Impls, P!Impls, D!Locations, P!Locations, D!Choosing,
      P!Choosing, D!Publishing, P!Publishing, D!Asking, P!Asking,
      D!InitializerRunning, P!InitializerRunning, D!Undecided, P!Undecided
<1> QED
  BY <1>2, <1>3, <1>4, <1>5 DEF drngVars, P!drngVars

LEMMA InitDriver == D!Init => D!IInv
<1>1. P!PlatformAssumption
  BY RandomBytesAssumption, Zenon DEF P!PlatformAssumption
<1>2. P!Init => P!IInv
  BY <1>1, P!InitIInv
<1>3. D!IInv <=> P!IInv
  BY Zenon DEF
      D!IInv, P!IInv, D!TypeOK, P!TypeOK, D!HardwareNeverSelected,
      P!HardwareNeverSelected, D!OneInitializer, P!OneInitializer,
      D!StateTellsInitializer, P!StateTellsInitializer,
      D!InitializedIsPublished, P!InitializedIsPublished, D!ChoiceIsNone,
      P!ChoiceIsNone, D!Impls, P!Impls, D!Locations, P!Locations, D!Choosing,
      P!Choosing, D!Publishing, P!Publishing, D!Asking, P!Asking,
      D!InitializerRunning, P!InitializerRunning, D!Undecided, P!Undecided
<1> QED
  BY <1>2, <1>3 DEF D!Init, P!Init

(* A call of randombytes.c leaves the driver alone or takes one step of it. *)
LEMMA DriverSteps ==
  [Next]_vars => [\E t \in Threads : D!Call(t) \/ D!Work(t)]_drngVars
  BY DEF Next, Begin, Step, CallDrng, WorkInDrng, DrngFails, CallInit, Reject,
    Request, InitLoad, InitStore, CheckInit, Count, Due, SelfTestFailed,
    OpenFails, Open, NotADevice, Device, ReadSome, ReadInterrupted, ReadFails,
    ReadDone, vars

LEMMA NextDriver == RInv /\ [Next]_vars => D!IInv'
<1>1. [Next]_vars => [D!Next]_drngVars
  BY DriverSteps DEF D!Next
<1> QED
  BY <1>1, DriverInv DEF RInv

-----------------------------------------------------------------------------
(* The program starts with no call in progress. *)
LEMMA InitRInv == Init => RInv
<1> SUFFICES ASSUME Init PROVE RInv
  OBVIOUS
<1>1. D!IInv
  BY InitDriver DEF Init
<1>2. TypeOK
  <2>1. randombytes_initialized \in BOOLEAN /\ in_drng \in [Threads -> BOOLEAN]
    BY Zenon DEF Init
  <2>2. D!TypeOK
    BY <1>1 DEF D!IInv
  <2>3. at \in [Threads -> Locations]
    BY DEF Init, Locations
  <2> QED
    BY <2>1, <2>2, <2>3, RandomBytesAssumption DEF Init, TypeOK
<1>3. SelfTestsMatchCalls
  <2>1. {t \in Threads : at[t] = "due" /\ call_count[t] % SelfTestInterval = 0}
          = {}
    BY DEF Init
  <2>2. 0 \div SelfTestInterval = 0
    BY RandomBytesAssumption
  <2> QED
    BY <2>1, <2>2, FS_EmptySet DEF Init, SelfTestsMatchCalls
<1>4. FilledOnSuccess /\ NoDescriptorLeak /\ FallbackAfterDecision
  BY DEF Init, FilledOnSuccess, NoDescriptorLeak, FallbackAfterDecision
<1>5. DriverCalls /\ CallsInProgress /\ ClearedIsSetAgain
  BY DEF Init, D!Init, DriverCalls, CallsInProgress, ClearedIsSetAgain, Begun
<1> QED
  BY <1>1, <1>2, <1>3, <1>4, <1>5 DEF RInv

(* Every step keeps the variables and locals well-formed. *)
LEMMA NextTypeOK == RInv /\ [Next]_vars => TypeOK'
<1> SUFFICES ASSUME RInv, [Next]_vars PROVE TypeOK'
  OBVIOUS
<1>1. D!TypeOK'
  BY NextDriver DEF D!IInv
<1> USE RandomBytesAssumption
    DEF RInv, TypeOK, Locations, GoTo, AfterDrng, OnlyWithDrng, callVars,
        rngVars, ioVars
<1>2. ASSUME NEW t \in Threads, CallDrng(t) \/ WorkInDrng(t) \/ DrngFails(t)
      PROVE  TypeOK'
  <2>1. CASE CallDrng(t)
    <3>1. in_drng' \in [Threads -> BOOLEAN]
      BY <2>1, Zenon DEF CallDrng
    <3> QED
      BY <1>1, <2>1, <3>1 DEF CallDrng
  <2>2. CASE WorkInDrng(t)
    BY <1>1, <2>2 DEF WorkInDrng
  <2>3. CASE DrngFails(t)
    <3>1. at[t] \in DOMAIN AfterDrng
      BY <2>3 DEF DrngFails, DriverCalls
    <3>2. at' \in [Threads -> Locations]
      BY <2>3, <3>1 DEF DrngFails
    <3>3. in_drng' \in [Threads -> BOOLEAN]
      BY <2>3, Zenon DEF DrngFails
    <3> QED
      BY <1>1, <2>3, <3>2, <3>3 DEF DrngFails
  <2> QED
    BY <1>2, <2>1, <2>2, <2>3
<1>3. ASSUME NEW t \in Threads,
             CallInit(t) \/ InitLoad(t) \/ InitStore(t)
      PROVE  TypeOK'
  <2>1. CASE CallInit(t)
    BY <1>1, <2>1 DEF CallInit
  <2>2. CASE InitLoad(t)
    <3>1. back[t] \in {"idle", "count", "fill", "open"}
      OBVIOUS
    <3>2. at' \in [Threads -> Locations]
      BY <2>2, <3>1 DEF InitLoad
    <3> QED
      BY <1>1, <2>2, <3>2 DEF InitLoad
  <2>3. CASE InitStore(t)
    <3>1. back[t] \in {"idle", "count", "fill", "open"}
      OBVIOUS
    <3>2. at' \in [Threads -> Locations] /\ randombytes_initialized' = TRUE
      BY <2>3, <3>1 DEF InitStore
    <3> QED
      BY <1>1, <2>3, <3>2 DEF InitStore
  <2> QED
    BY <1>3, <2>1, <2>2, <2>3
<1>4. ASSUME NEW t \in Threads,
             Reject(t) \/ \E n \in Lengths : Request(t, n)
      PROVE  TypeOK'
  BY <1>1, <1>4 DEF Reject, Request, Return
<1>5. ASSUME NEW t \in Threads, CheckInit(t) \/ Count(t) \/ Due(t)
      PROVE  TypeOK'
  BY <1>1, <1>5 DEF CheckInit, Count, Due
<1>6. ASSUME NEW t \in Threads, SelfTestFailed(t) PROVE TypeOK'
  BY <1>1, <1>6 DEF SelfTestFailed
<1>7. ASSUME NEW t \in Threads,
             OpenFails(t) \/ Open(t) \/ NotADevice(t) \/ Device(t)
      PROVE  TypeOK'
  BY <1>1, <1>7 DEF OpenFails, Open, NotADevice, Device, Return
<1>8. ASSUME NEW t \in Threads,
             ReadInterrupted(t) \/ ReadFails(t) \/ ReadDone(t)
      PROVE  TypeOK'
  BY <1>1, <1>8 DEF ReadInterrupted, ReadFails, ReadDone, Return
<1>9. ASSUME NEW t \in Threads, NEW n \in 1..len[t], ReadSome(t, n)
      PROVE  TypeOK'
  BY <1>1, <1>9 DEF ReadSome
<1>10. CASE UNCHANGED vars
  BY <1>1, <1>10 DEF vars
<1> QED
  BY <1>2, <1>3, <1>4, <1>5, <1>6, <1>7, <1>8, <1>9, <1>10
  DEF Next, Begin, Step

(* Which variables of a call the other threads' steps leave alone. *)
LEMMA NextCalls ==
  RInv /\ [Next]_vars =>
    FilledOnSuccess' /\ NoDescriptorLeak' /\ CallsInProgress'
<1> SUFFICES ASSUME RInv, [Next]_vars
             PROVE  FilledOnSuccess' /\ NoDescriptorLeak' /\ CallsInProgress'
  OBVIOUS
<1> USE RandomBytesAssumption
    DEF RInv, TypeOK, GoTo, Return, FilledOnSuccess, NoDescriptorLeak,
        CallsInProgress, AfterDrng, OnlyWithDrng, callVars, ioVars
<1>a. \A t \in Threads : len[t] \in Nat /\ total_read[t] \in Nat
  <2>1. len \in [Threads -> Nat] /\ total_read \in [Threads -> Nat]
    <3>1. Lengths \union {0} \subseteq Nat
      OBVIOUS
    <3> QED
      BY <3>1
  <2> QED
    BY ONLY <2>1
<1>1. ASSUME NEW t \in Threads, CallDrng(t) \/ WorkInDrng(t) \/ DrngFails(t)
      PROVE  FilledOnSuccess' /\ NoDescriptorLeak' /\ CallsInProgress'
  <2>1. CASE CallDrng(t)
    BY <2>1 DEF CallDrng
  <2>2. CASE WorkInDrng(t)
    BY <2>2 DEF WorkInDrng
  <2>3. CASE DrngFails(t)
    <3>1. at[t] \in {"init_drng", "selftest", "fill"}
      BY <2>3 DEF DrngFails, DriverCalls
    <3>2. at'[t] \in {"init_store", "selftest_failed", "open"}
      BY <2>3, <3>1 DEF DrngFails
    <3> QED
      BY <2>3, <3>1, <3>2 DEF DrngFails
  <2> QED
    BY <1>1, <2>1, <2>2, <2>3
<1>2. ASSUME NEW t \in Threads, CallInit(t) \/ InitLoad(t) \/ InitStore(t)
      PROVE  FilledOnSuccess' /\ NoDescriptorLeak' /\ CallsInProgress'
  <2>1. CASE CallInit(t)
    BY <2>1 DEF CallInit
  <2>2. CASE InitLoad(t)
    <3>1. at[t] = "init_load" /\ at'[t] \notin {"fstat", "read"}
      BY <2>2 DEF InitLoad
    <3> QED
      BY <2>2, <3>1 DEF InitLoad
  <2>3. CASE InitStore(t)
    <3>1. at[t] = "init_store" /\ at'[t] \notin {"fstat", "read"}
      BY <2>3 DEF InitStore
    <3> QED
      BY <2>3, <3>1 DEF InitStore
  <2> QED
    BY <1>2, <2>1, <2>2, <2>3
<1>3. ASSUME NEW t \in Threads,
             Reject(t) \/ \E n \in Lengths : Request(t, n)
      PROVE  FilledOnSuccess' /\ NoDescriptorLeak' /\ CallsInProgress'
  BY <1>3 DEF Reject, Request
<1>4. ASSUME NEW t \in Threads,
             CheckInit(t) \/ Count(t) \/ Due(t) \/ SelfTestFailed(t)
      PROVE  FilledOnSuccess' /\ NoDescriptorLeak' /\ CallsInProgress'
  BY <1>4 DEF CheckInit, Count, Due, SelfTestFailed
<1>5. ASSUME NEW t \in Threads,
             OpenFails(t) \/ Open(t) \/ NotADevice(t) \/ Device(t)
      PROVE  FilledOnSuccess' /\ NoDescriptorLeak' /\ CallsInProgress'
  BY <1>5 DEF OpenFails, Open, NotADevice, Device
<1>6. ASSUME NEW t \in Threads,
             ReadInterrupted(t) \/ ReadFails(t) \/ ReadDone(t)
      PROVE  FilledOnSuccess' /\ NoDescriptorLeak' /\ CallsInProgress'
  <2>1. CASE ReadInterrupted(t)
    BY <2>1 DEF ReadInterrupted
  <2>2. CASE ReadFails(t)
    BY <2>2 DEF ReadFails
  <2>3. CASE ReadDone(t)
    <3>1. total_read[t] = len[t]
      BY <1>a, <2>3 DEF ReadDone
    <3> QED
      BY <2>3, <3>1 DEF ReadDone
  <2> QED
    BY <1>6, <2>1, <2>2, <2>3
<1>7. ASSUME NEW t \in Threads, NEW n \in 1..len[t], ReadSome(t, n)
      PROVE  FilledOnSuccess' /\ NoDescriptorLeak' /\ CallsInProgress'
  <2>1. n \in Nat /\ total_read[t] + n <= len[t]
    BY <1>a, <1>7 DEF ReadSome
  <2>2. at[t] = "read" /\ result[t] = "none"
    BY <1>7 DEF ReadSome
  <2>3. FilledOnSuccess'
    BY <1>7, <2>1, <2>2 DEF ReadSome
  <2> QED
    BY <1>7, <2>3 DEF ReadSome
<1>8. CASE UNCHANGED vars
  BY <1>8 DEF vars
<1> QED
  BY <1>1, <1>2, <1>3, <1>4, <1>5, <1>6, <1>7, <1>8 DEF Next, Begin, Step

-----------------------------------------------------------------------------
(* Once the choice is made it stays made: the body of drng_init is entered
   only from drng_init_state 0. *)
LEMMA DecidedStays ==
  D!IInv /\ Decided /\ [\E t \in Threads : D!Call(t) \/ D!Work(t)]_drngVars
    => Decided'
<1> SUFFICES ASSUME D!IInv, Decided,
                    NEW t \in Threads, D!Call(t) \/ D!Work(t)
             PROVE  Decided'
  BY DEF Decided, D!Undecided, drngVars
<1> USE DEF Decided, D!Undecided, D!GoTo, D!IInv, D!TypeOK
<1>1. drng_init_state \in {1, 2} /\ t \notin D!Undecided
  OBVIOUS
<1>2. \A u \in Threads \ {t} : pc'[u] = pc[u] /\ nested'[u] = nested[u]
  BY DEF D!Call, D!Work, D!ReloadImpl, D!InitFast, D!InitClaim, D!InitLose,
    D!InitWait, D!ProbeNone, D!ProbeArm, D!SelfTest, D!PublishImpl,
    D!PublishInitialized, D!PublishDone, D!ResetImpl
<1>3. drng_init_state' # 0 /\ pc'[t] \notin D!Choosing /\ ~nested'[t]
  BY <1>1 DEF D!Call, D!Work, D!ReloadImpl, D!InitFast, D!InitClaim, D!InitLose,
    D!InitWait, D!ProbeNone, D!ProbeArm, D!SelfTest, D!PublishImpl,
    D!PublishInitialized, D!PublishDone, D!ResetImpl, D!Choosing, D!ReturnPoint
<1> QED
  BY <1>1, <1>2, <1>3

(* A thread comes back from drng_init with the choice made, through the fast
   path, the waiting loop or its own initialisation. *)
LEMMA ComesBackDecided ==
  ASSUME RInv, D!IInv', NEW t \in Threads, D!Work(t), in_drng[t],
         pc'[t] \in {"idle", "reload_impl"}
  PROVE  Decided'
<1> USE DEF D!GoTo
<1>1. CASE Decided
  BY <1>1, DecidedStays DEF RInv
<1>2. CASE ~Decided
  <2>1. pc[t] \notin {"idle", "reload_impl", "reset_impl"}
    BY <1>2 DEF RInv, DriverCalls
  <2>2. initialized \/ drng_init_state = 2 => Decided
    BY DEF RInv, Decided, D!IInv, D!InitializedIsPublished,
      D!StateTellsInitializer, D!Undecided, D!InitializerRunning
  <2>3. pc[t] = "publish_done" /\ drng_init_state' = 2
    BY <1>2, <2>1, <2>2 DEF RInv, TypeOK, D!TypeOK, D!Work, D!ReloadImpl,
      D!InitFast, D!InitClaim, D!InitLose, D!InitWait, D!ProbeNone, D!ProbeArm,
      D!SelfTest, D!PublishImpl, D!PublishInitialized, D!PublishDone,
      D!ResetImpl
  <2> QED
    BY <2>3 DEF Decided, D!IInv, D!StateTellsInitializer, D!Undecided,
      D!InitializerRunning
<1> QED
  BY <1>1, <1>2

(* The fallback starts after the decision. *)
LEMMA NextFallback ==
  RInv /\ [Next]_vars => DriverCalls' /\ FallbackAfterDecision'
<1> SUFFICES ASSUME RInv, [Next]_vars
             PROVE  DriverCalls' /\ FallbackAfterDecision'
  OBVIOUS
<1>a. Decided => Decided'
  BY DriverSteps, DecidedStays DEF RInv
<1>b. D!IInv'
  BY NextDriver
<1>c. FallbackAfterDecision <=>
        (WithDrng => \A t \in Threads :
            at[t] \in {"open", "fstat", "read"} => Decided)
  BY DEF FallbackAfterDecision, Decided
<1>d. FallbackAfterDecision' <=>
        (WithDrng => \A t \in Threads :
            at'[t] \in {"open", "fstat", "read"} => Decided')
  BY DEF FallbackAfterDecision, Decided
<1> USE DEF GoTo, Return, AfterDrng, OnlyWithDrng, DriverCalls
<1>e. FallbackAfterDecision /\ DriverCalls
  BY DEF RInv
<1>f. /\ pc \in [Threads -> D!Locations] /\ in_drng \in [Threads -> BOOLEAN]
      /\ at \in [Threads -> Locations]
      /\ back \in [Threads -> {"idle", "count", "fill", "open"}]
  BY DEF RInv, TypeOK, D!TypeOK
<1>1. ASSUME NEW t \in Threads, CallDrng(t)
      PROVE  DriverCalls' /\ FallbackAfterDecision'
  <2>1. pc' = [pc EXCEPT ![t] = "init_fast"]
    BY <1>1 DEF CallDrng, D!Call, D!GoTo, RInv, D!IInv, D!HardwareNeverSelected
  <2> QED
    BY <1>1, <1>a, <1>c, <1>d, <1>e, <1>f, <2>1 DEF CallDrng
<1>2. ASSUME NEW t \in Threads, WorkInDrng(t)
      PROVE  DriverCalls' /\ FallbackAfterDecision'
  <2>1. \A u \in Threads \ {t} : pc'[u] = pc[u]
    BY <1>2, <1>f DEF WorkInDrng, D!GoTo, D!Work, D!ReloadImpl, D!InitFast,
      D!InitClaim, D!InitLose, D!InitWait, D!ProbeNone, D!ProbeArm, D!SelfTest,
      D!PublishImpl, D!PublishInitialized, D!PublishDone, D!ResetImpl
  <2>2. pc'[t] \in {"idle", "reload_impl"} => Decided'
    BY <1>2, <1>b, ComesBackDecided DEF WorkInDrng
  <2>3. pc'[t] # "reset_impl"
    BY <1>2, <1>f DEF WorkInDrng, D!GoTo, D!Work, D!ReloadImpl, D!InitFast,
      D!InitClaim, D!InitLose, D!InitWait, D!ProbeNone, D!ProbeArm, D!SelfTest,
      D!PublishImpl, D!PublishInitialized, D!PublishDone, D!ResetImpl,
      D!ReturnPoint
  <2> QED
    BY <1>2, <1>a, <1>c, <1>d, <1>e, <1>f, <2>1, <2>2, <2>3 DEF WorkInDrng
<1>3. ASSUME NEW t \in Threads, DrngFails(t)
      PROVE  DriverCalls' /\ FallbackAfterDecision'
  BY <1>3, <1>a, <1>c, <1>d, <1>e, <1>f DEF DrngFails, drngVars
<1>4. ASSUME UNCHANGED drngVars, UNCHANGED in_drng, NEW t \in Threads,
             ~in_drng[t],
             \A u \in Threads \ {t} : at'[u] = at[u] /\ back'[u] = back[u],
             WithDrng /\ at'[t] \in {"open", "fstat", "read"} =>
                 at[t] \in {"open", "fstat", "read"},
             WithDrng => back'[t] # "open"
      PROVE  DriverCalls' /\ FallbackAfterDecision'
  BY <1>4, <1>a, <1>c, <1>d, <1>e DEF drngVars
<1>5. ASSUME NEW t \in Threads, at[t] \notin DOMAIN AfterDrng PROVE ~in_drng[t]
  BY <1>5, <1>e
<1>6. ASSUME NEW t \in Threads,
             CallInit(t) \/ InitLoad(t) \/ InitStore(t) \/ CheckInit(t)
      PROVE  DriverCalls' /\ FallbackAfterDecision'
  BY <1>4, <1>5, <1>6, <1>e, <1>f DEF CallInit, InitLoad, InitStore, CheckInit
<1>7. ASSUME NEW t \in Threads, Count(t) \/ Due(t) \/ SelfTestFailed(t)
      PROVE  DriverCalls' /\ FallbackAfterDecision'
  BY <1>4, <1>5, <1>7, <1>e, <1>f DEF Count, Due, SelfTestFailed
<1>8. ASSUME NEW t \in Threads,
             Reject(t) \/ OpenFails(t) \/ Open(t) \/ NotADevice(t) \/ Device(t)
      PROVE  DriverCalls' /\ FallbackAfterDecision'
  BY <1>4, <1>5, <1>8, <1>e, <1>f
  DEF Reject, OpenFails, Open, NotADevice, Device
<1>9. ASSUME NEW t \in Threads,
             \/ ReadInterrupted(t) \/ ReadFails(t) \/ ReadDone(t)
             \/ \E n \in Nat : Request(t, n) \/ ReadSome(t, n)
      PROVE  DriverCalls' /\ FallbackAfterDecision'
  BY <1>4, <1>5, <1>9, <1>e, <1>f
  DEF ReadInterrupted, ReadFails, ReadDone, Request, ReadSome
<1>10. CASE UNCHANGED vars
  BY <1>10, <1>a, <1>c, <1>d, <1>e DEF vars, drngVars
<1>11. Lengths \subseteq Nat /\ \A t \in Threads : 1..len[t] \subseteq Nat
  BY RandomBytesAssumption DEF RInv, TypeOK
<1> QED
  BY <1>1, <1>2, <1>3, <1>6, <1>7, <1>8, <1>9, <1>10, <1>11
  DEF Next, Begin, Step

-----------------------------------------------------------------------------
(* The calls that have counted themselves and will run the self-test. *)
DueThreads ==
    {t \in Threads : at[t] = "due" /\ call_count[t] % SelfTestInterval = 0}

(* The fetch_add makes a caller due exactly when it passes a multiple of the
   interval; the test of the local copy takes it off again. *)
LEMMA NextSelfTests == RInv /\ [Next]_vars => SelfTestsMatchCalls'
<1> SUFFICES ASSUME RInv, [Next]_vars PROVE SelfTestsMatchCalls'
  OBVIOUS
<1>a. /\ IsFiniteSet(DueThreads) /\ Cardinality(DueThreads) \in Nat
      /\ self_tests + Cardinality(DueThreads)
           = randombytes_call_count \div SelfTestInterval
  <2>1. IsFiniteSet(DueThreads)
    BY FS_Subset, RandomBytesAssumption DEF DueThreads
  <2> QED
    BY <2>1, FS_CardinalityType DEF RInv, SelfTestsMatchCalls, DueThreads
<1>b. SelfTestsMatchCalls' <=>
        self_tests' + Cardinality(DueThreads')
          = randombytes_call_count' \div SelfTestInterval
  BY DEF SelfTestsMatchCalls, DueThreads
<1>c. /\ at \in [Threads -> Locations] /\ call_count \in [Threads -> Nat]
      /\ back \in [Threads -> {"idle", "count", "fill", "open"}]
      /\ randombytes_call_count \in Nat /\ self_tests \in Nat
      /\ SelfTestInterval \in Nat \ {0}
  BY RandomBytesAssumption DEF RInv, TypeOK
<1> USE DEF GoTo, Return, AfterDrng, OnlyWithDrng
<1>1. ASSUME NEW t \in Threads, Count(t) PROVE SelfTestsMatchCalls'
  <2> DEFINE n == randombytes_call_count + 1
  <2>1. /\ at[t] = "count" /\ at' = [at EXCEPT ![t] = "due"]
        /\ call_count' = [call_count EXCEPT ![t] = n]
        /\ randombytes_call_count' = n /\ self_tests' = self_tests
    BY <1>1 DEF Count
  <2>2. n \div SelfTestInterval =
          IF n % SelfTestInterval = 0
          THEN (randombytes_call_count \div SelfTestInterval) + 1
          ELSE randombytes_call_count \div SelfTestInterval
    BY <1>c, DivSucc
  <2>3. t \notin DueThreads
    BY <2>1 DEF DueThreads
  <2> HIDE DEF n
  <2>4. CASE n % SelfTestInterval = 0
    <3>1. DueThreads' = DueThreads \union {t}
      BY <1>c, <2>1, <2>4 DEF DueThreads
    <3>2. Cardinality(DueThreads') = Cardinality(DueThreads) + 1
      BY <1>a, <2>3, <3>1, FS_AddElement
    <3> QED
      BY <1>a, <1>b, <1>c, <2>1, <2>2, <2>4, <3>2
  <2>5. CASE n % SelfTestInterval # 0
    <3>1. DueThreads' = DueThreads
      BY <1>c, <2>1, <2>5 DEF DueThreads
    <3> QED
      BY <1>a, <1>b, <2>1, <2>2, <2>5, <3>1
  <2> QED
    BY <2>4, <2>5
<1>2. ASSUME NEW t \in Threads, Due(t) PROVE SelfTestsMatchCalls'
  <2>1. /\ at[t] = "due" /\ at'[t] # "due"
        /\ \A u \in Threads \ {t} : at'[u] = at[u]
        /\ call_count' = call_count
        /\ randombytes_call_count' = randombytes_call_count
        /\ self_tests' = IF SelfTestDue(t) THEN self_tests + 1 ELSE self_tests
    BY <1>2, <1>c DEF Due, callVars
  <2>2. DueThreads' = DueThreads \ {t}
    BY <2>1 DEF DueThreads
  <2>3. SelfTestDue(t) <=> t \in DueThreads
    BY <2>1 DEF DueThreads, SelfTestDue
  <2>4. CASE t \in DueThreads
    <3>1. Cardinality(DueThreads') = Cardinality(DueThreads) - 1
      BY <1>a, <2>2, <2>4, FS_RemoveElement
    <3> QED
      BY <1>a, <1>b, <1>c, <2>1, <2>3, <2>4, <3>1
  <2>5. CASE t \notin DueThreads
    <3>1. DueThreads' = DueThreads
      BY <2>2, <2>5
    <3> QED
      BY <1>a, <1>b, <2>1, <2>3, <2>5, <3>1
  <2> QED
    BY <2>4, <2>5
<1>3. ASSUME NEW t \in Threads, at[t] # "due", at'[t] # "due",
             \A u \in Threads \ {t} : at'[u] = at[u],
             UNCHANGED <<call_count, randombytes_call_count, self_tests>>
      PROVE  SelfTestsMatchCalls'
  <2>1. DueThreads' = DueThreads
    BY <1>3 DEF DueThreads
  <2> QED
    BY <1>3, <1>a, <1>b, <2>1
<1> USE DEF rngVars, callVars
<1>4. ASSUME NEW t \in Threads, CallDrng(t) \/ WorkInDrng(t) \/ DrngFails(t)
      PROVE  SelfTestsMatchCalls'
  <2>1. at[t] \in DOMAIN AfterDrng
    BY <1>4 DEF CallDrng, WorkInDrng, DrngFails, RInv, DriverCalls
  <2> QED
    BY <1>3, <1>4, <1>c, <2>1 DEF CallDrng, WorkInDrng, DrngFails
<1>5. ASSUME NEW t \in Threads,
             CallInit(t) \/ InitLoad(t) \/ InitStore(t) \/ CheckInit(t)
      PROVE  SelfTestsMatchCalls'
  BY <1>3, <1>5, <1>c DEF CallInit, InitLoad, InitStore, CheckInit
<1>6. ASSUME NEW t \in Threads, SelfTestFailed(t) PROVE SelfTestsMatchCalls'
  BY <1>3, <1>6, <1>c DEF SelfTestFailed
<1>7. ASSUME NEW t \in Threads,
             Reject(t) \/ OpenFails(t) \/ Open(t) \/ NotADevice(t) \/ Device(t)
      PROVE  SelfTestsMatchCalls'
  BY <1>3, <1>7, <1>c DEF Reject, OpenFails, Open, NotADevice, Device
<1>8. ASSUME NEW t \in Threads,
             \/ ReadInterrupted(t) \/ ReadFails(t) \/ ReadDone(t)
             \/ \E n \in Nat : Request(t, n) \/ ReadSome(t, n)
      PROVE  SelfTestsMatchCalls'
  BY <1>3, <1>8, <1>c
  DEF ReadInterrupted, ReadFails, ReadDone, Request, ReadSome
<1>9. CASE UNCHANGED vars
  <2>1. DueThreads' = DueThreads
    BY <1>9 DEF vars, DueThreads
  <2> QED
    BY <1>9, <1>a, <1>b, <2>1 DEF vars
<1>10. Lengths \subseteq Nat /\ \A t \in Threads : 1..len[t] \subseteq Nat
  BY RandomBytesAssumption DEF RInv, TypeOK
<1> QED
  BY <1>1, <1>2, <1>4, <1>5, <1>6, <1>7, <1>8, <1>9, <1>10
  DEF Next, Begin, Step

-----------------------------------------------------------------------------
(* A thread that clears the flag, or finds it cleared, is on its way to set
   it again. *)
LEMMA NextCleared == RInv /\ [Next]_vars => ClearedIsSetAgain'
<1> SUFFICES ASSUME RInv, [Next]_vars, ~randombytes_initialized', Begun'
             PROVE  Initializing'
  BY DEF ClearedIsSetAgain
<1> DEFINE Setting == {"init_load", "init_drng", "init_store"}
<1>a. Begun => randombytes_initialized \/ \E u \in Threads : at[u] \in Setting
  BY DEF RInv, ClearedIsSetAgain, Initializing
<1>b. Initializing' <=> \E u \in Threads : at'[u] \in Setting
  BY DEF Initializing
<1>c. at \in [Threads -> Locations] /\ randombytes_call_count \in Nat
  BY DEF RInv, TypeOK
<1> USE DEF GoTo, Return, AfterDrng, OnlyWithDrng, rngVars, Begun
<1>1. ASSUME NEW t \in Threads, at'[t] \in Setting PROVE Initializing'
  BY <1>1, <1>b
<1>2. ASSUME NEW t \in Threads, at[t] \notin Setting, at'[t] # "count",
             UNCHANGED rngVars, \A u \in Threads \ {t} : at'[u] = at[u]
      PROVE  Initializing'
  BY <1>2, <1>a, <1>b
<1>3. ASSUME NEW t \in Threads, CallDrng(t) \/ WorkInDrng(t)
      PROVE  Initializing'
  BY <1>3, <1>a, <1>b DEF CallDrng, WorkInDrng
<1>4. ASSUME NEW t \in Threads, DrngFails(t) PROVE Initializing'
  <2>1. at[t] \in {"init_drng", "selftest", "fill"}
    BY <1>4 DEF DrngFails, RInv, DriverCalls
  <2> QED
    BY <1>1, <1>2, <1>4, <1>c, <2>1 DEF DrngFails
<1>5. ASSUME NEW t \in Threads,
             CallInit(t) \/ InitLoad(t) \/ InitStore(t) \/ CheckInit(t)
      PROVE  Initializing'
  BY <1>1, <1>5, <1>c DEF CallInit, InitLoad, InitStore, CheckInit
<1>6. ASSUME NEW t \in Threads, Count(t) PROVE Initializing'
  <2>1. at[t] = "count" /\ randombytes_initialized' = randombytes_initialized
    BY <1>6 DEF Count
  <2>2. PICK u \in Threads : at[u] \in Setting
    BY <1>a, <2>1
  <2>3. at'[u] = at[u]
    BY <1>6, <1>c, <2>1, <2>2 DEF Count
  <2> QED
    BY <1>b, <2>2, <2>3
<1>7. ASSUME NEW t \in Threads, Due(t) PROVE Initializing'
  <2>1. /\ at[t] = "due" /\ at'[t] # "count"
        /\ \A u \in Threads \ {t} : at'[u] = at[u]
        /\ UNCHANGED <<randombytes_initialized, randombytes_call_count>>
    BY <1>7, <1>c DEF Due
  <2> QED
    BY <1>a, <1>b, <2>1
<1>8. ASSUME NEW t \in Threads, SelfTestFailed(t) PROVE Initializing'
  BY <1>1, <1>8, <1>c DEF SelfTestFailed
<1>9. ASSUME NEW t \in Threads,
             Reject(t) \/ OpenFails(t) \/ Open(t) \/ NotADevice(t) \/ Device(t)
      PROVE  Initializing'
  BY <1>2, <1>9, <1>c DEF Reject, OpenFails, Open, NotADevice, Device
<1>10. ASSUME NEW t \in Threads,
             \/ ReadInterrupted(t) \/ ReadFails(t) \/ ReadDone(t)
             \/ \E n \in Nat : Request(t, n) \/ ReadSome(t, n)
      PROVE  Initializing'
  BY <1>2, <1>10, <1>c
  DEF ReadInterrupted, ReadFails, ReadDone, Request, ReadSome
<1>11. CASE UNCHANGED vars
  BY <1>11, <1>a, <1>b DEF vars
<1>12. Lengths \subseteq Nat /\ \A t \in Threads : 1..len[t] \subseteq Nat
  BY RandomBytesAssumption DEF RInv, TypeOK
<1> QED
  BY <1>3, <1>4, <1>5, <1>6, <1>7, <1>8, <1>9, <1>10, <1>11, <1>12
  DEF Next, Begin, Step

-----------------------------------------------------------------------------
(* The inductive invariant holds in every reachable state. *)
THEOREM Invariance == Spec => []RInv
<1>1. RInv /\ [Next]_vars => RInv'
  BY NextTypeOK, NextDriver, NextCalls, NextSelfTests, NextFallback, NextCleared
  DEF RInv
<1> QED
  BY InitRInv, <1>1, PTL DEF Spec

(* The shared state, the locals and the driver stay well-formed. *)
THEOREM TypeCorrect == Spec => []TypeOK
<1>1. RInv => TypeOK
  BY DEF RInv
<1> QED
  BY <1>1, Invariance, PTL

(* Success means a full buffer, however the reads are split. *)
THEOREM SuccessIsFull == Spec => []FilledOnSuccess
<1>1. RInv => FilledOnSuccess
  BY DEF RInv
<1> QED
  BY <1>1, Invariance, PTL

(* The descriptor is open exactly between open and close. *)
THEOREM DescriptorsAreClosed == Spec => []NoDescriptorLeak
<1>1. RInv => NoDescriptorLeak
  BY DEF RInv
<1> QED
  BY <1>1, Invariance, PTL

(* The self-test runs once for every SelfTestInterval calls. *)
THEOREM SelfTestsCounted == Spec => []SelfTestsMatchCalls
<1>1. RInv => SelfTestsMatchCalls
  BY DEF RInv
<1> QED
  BY <1>1, Invariance, PTL

(* A flag cleared by a failed self-test is set again before its call ends. *)
THEOREM InitializedAtRest == Spec => []InitializedWhenQuiet
<1>1. RInv => InitializedWhenQuiet
  BY DEF RInv, InitializedWhenQuiet, ClearedIsSetAgain, Begun, Initializing
<1> QED
  BY <1>1, Invariance, PTL

(* No caller opens /dev/urandom while the driver still chooses. *)
THEOREM FallbackIsLate == Spec => []FallbackAfterDecision
<1>1. RInv => FallbackAfterDecision
  BY DEF RInv
<1> QED
  BY <1>1, Invariance, PTL
=============================================================================
