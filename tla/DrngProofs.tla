----------------------------- MODULE DrngProofs -----------------------------
(***************************************************************************)
(* Theorems about Drng for every set of threads and every platform.        *)
(***************************************************************************)
EXTENDS Drng, TLAPS

(* The initial state satisfies the inductive invariant. *)
LEMMA InitIInv == Init => IInv
<1> SUFFICES ASSUME Init PROVE IInv
  OBVIOUS
<1>1. TypeOK
  <2>1. nested \in [Threads -> BOOLEAN] /\ initialized \in BOOLEAN
    BY Zenon DEF Init
  <2>2. rng_impl \in Impls /\ chosen \in [Threads -> Impls]
    BY DEF Init, Impls
  <2>3. pc \in [Threads -> Locations] /\ drng_init_state \in 0..2
    BY DEF Init, Locations
  <2> QED
    BY <2>1, <2>2, <2>3 DEF TypeOK
<1>2. \A t \in Threads : pc[t] = "idle" /\ ~nested[t]
  BY DEF Init
<1>3. \A t \in Threads : ~InitializerRunning(t)
  BY <1>2 DEF InitializerRunning, Choosing, Publishing
<1>4. Undecided = {}
  BY <1>2 DEF Undecided, Choosing
<1> QED
  BY <1>1, <1>2, <1>3, <1>4
  DEF Init, IInv, HardwareNeverSelected, OneInitializer,
      StateTellsInitializer, InitializedIsPublished, ChoiceIsNone

(* Every step keeps the variables and locals well-formed. *)
LEMMA NextTypeOK == TypeOK /\ [Next]_drngVars => TypeOK'
<1> SUFFICES ASSUME TypeOK, [Next]_drngVars PROVE TypeOK'
  OBVIOUS
<1> USE DEF TypeOK, Impls, Locations, Choosing, Publishing, Asking, GoTo
<1>1. ASSUME NEW t \in Threads, Call(t) \/ ReloadImpl(t) PROVE TypeOK'
  BY <1>1 DEF Call, ReloadImpl
<1>2. ASSUME NEW t \in Threads,
             InitFast(t) \/ InitClaim(t) \/ InitLose(t) \/ InitWait(t)
      PROVE  TypeOK'
  BY <1>2 DEF InitFast, InitClaim, InitLose, InitWait, ReturnPoint
<1>3. ASSUME NEW t \in Threads, ProbeNone(t) \/ ProbeArm(t) \/ SelfTest(t)
      PROVE  TypeOK'
  BY <1>3 DEF ProbeNone, ProbeArm, SelfTest
<1>4. ASSUME NEW t \in Threads,
             PublishImpl(t) \/ PublishInitialized(t) \/ PublishDone(t)
      PROVE  TypeOK'
  <2>1. CASE PublishImpl(t)
    BY <2>1 DEF PublishImpl
  <2>2. CASE PublishInitialized(t)
    BY <2>2 DEF PublishInitialized
  <2>3. CASE PublishDone(t)
    BY <2>3 DEF PublishDone, ReturnPoint
  <2> QED
    BY <1>4, <2>1, <2>2, <2>3
<1>5. ASSUME NEW t \in Threads, ResetState(t) \/ ResetImpl(t) PROVE TypeOK'
  BY <1>5 DEF ResetState, ResetImpl
<1>6. CASE UNCHANGED drngVars
  BY <1>6 DEF drngVars
<1> QED
  BY <1>1, <1>2, <1>3, <1>4, <1>5, <1>6 DEF Next, Work

(* Who initialises: the compare-and-swap admits one thread, and it stays the
   only one until it stores 2.  PublishImpl is the step that ends the choice,
   PublishInitialized the one that opens the fast path. *)
LEMMA NextInitializer ==
  IInv /\ [Next]_drngVars =>
    OneInitializer' /\ StateTellsInitializer' /\ InitializedIsPublished'
<1> SUFFICES ASSUME IInv, [Next]_drngVars
             PROVE  OneInitializer' /\ StateTellsInitializer'
                      /\ InitializedIsPublished'
  OBVIOUS
<1> USE DEF IInv, TypeOK, OneInitializer, StateTellsInitializer,
            InitializedIsPublished, GoTo
<1>q. ASSUME \A u \in Threads : /\ InitializerRunning(u)' <=> InitializerRunning(u)
                                /\ (u \in Undecided)' => u \in Undecided,
             initialized' => initialized, UNCHANGED drng_init_state
      PROVE  OneInitializer' /\ StateTellsInitializer'
               /\ InitializedIsPublished'
  BY <1>q DEF Undecided
<1>1. ASSUME NEW t \in Threads,
             Call(t) \/ ReloadImpl(t) \/ InitFast(t) \/ InitLose(t)
               \/ ResetState(t) \/ ResetImpl(t)
      PROVE  OneInitializer' /\ StateTellsInitializer'
               /\ InitializedIsPublished'
  <2>1. \A u \in Threads : /\ InitializerRunning(u)' <=> InitializerRunning(u)
                           /\ (u \in Undecided)' => u \in Undecided
    BY <1>1 DEF Call, ReloadImpl, InitFast, InitLose, ResetState, ResetImpl,
      ReturnPoint, InitializerRunning, Undecided, Choosing, Publishing
  <2>2. (initialized' => initialized) /\ UNCHANGED drng_init_state
    BY <1>1 DEF Call, ReloadImpl, InitFast, InitLose, ResetState, ResetImpl
  <2> QED
    BY <2>1, <2>2, <1>q
<1>2. ASSUME NEW t \in Threads,
             InitWait(t) \/ ProbeNone(t) \/ ProbeArm(t) \/ SelfTest(t)
      PROVE  OneInitializer' /\ StateTellsInitializer'
               /\ InitializedIsPublished'
  <2>1. \A u \in Threads : /\ InitializerRunning(u)' <=> InitializerRunning(u)
                           /\ (u \in Undecided)' => u \in Undecided
    BY <1>2 DEF InitWait, ProbeNone, ProbeArm, SelfTest, ReturnPoint,
      InitializerRunning, Undecided, Choosing, Publishing
  <2>2. UNCHANGED <<initialized, drng_init_state>>
    BY <1>2 DEF InitWait, ProbeNone, ProbeArm, SelfTest
  <2> QED
    BY <2>1, <2>2, <1>q
<1>3. ASSUME NEW t \in Threads, InitClaim(t)
      PROVE  OneInitializer' /\ StateTellsInitializer'
               /\ InitializedIsPublished'
  <2>1. \A u \in Threads : ~InitializerRunning(u)
    BY <1>3 DEF InitClaim
  <2>2. \A u \in Threads : InitializerRunning(u)' => u = t
    BY <1>3, <2>1 DEF InitClaim, InitializerRunning
  <2>3. ~initialized' /\ drng_init_state' = 1
    BY <1>3 DEF InitClaim
  <2> QED
    BY <2>2, <2>3
<1>4. ASSUME NEW t \in Threads, PublishImpl(t)
      PROVE  OneInitializer' /\ StateTellsInitializer'
               /\ InitializedIsPublished'
  <2>1. \A u \in Threads : /\ InitializerRunning(u)' <=> InitializerRunning(u)
                           /\ (u \in Undecided)' => u \in Undecided
    BY <1>4 DEF PublishImpl, InitializerRunning, Undecided, Choosing, Publishing
  <2> QED
    BY <1>4, <2>1, <1>q DEF PublishImpl
<1>5. ASSUME NEW t \in Threads, PublishInitialized(t)
      PROVE  OneInitializer' /\ StateTellsInitializer'
               /\ InitializedIsPublished'
  <2>1. InitializerRunning(t) /\ ~nested[t]
    BY <1>5 DEF PublishInitialized, InitializerRunning, Publishing,
      ChoiceIsNone, Asking
  <2>2. \A u \in Threads : InitializerRunning(u)' <=> InitializerRunning(u)
    BY <1>5 DEF PublishInitialized, InitializerRunning, Choosing, Publishing
  <2>3. Undecided' = {}
    BY <1>5, <2>1, <2>2 DEF PublishInitialized, InitializerRunning, Undecided,
      Choosing, Publishing
  <2> QED
    BY <1>5, <2>1, <2>2, <2>3 DEF PublishInitialized
<1>6. ASSUME NEW t \in Threads, PublishDone(t)
      PROVE  OneInitializer' /\ StateTellsInitializer'
               /\ InitializedIsPublished'
  <2>1. InitializerRunning(t) /\ ~nested[t] /\ drng_init_state' = 2
    BY <1>6 DEF PublishDone, InitializerRunning, Publishing, ChoiceIsNone,
      Asking
  <2>2. \A u \in Threads : ~InitializerRunning(u)'
    BY <1>6, <2>1 DEF PublishDone, InitializerRunning, Choosing, Publishing,
      ReturnPoint
  <2>3. Undecided' = {}
    BY <2>2 DEF InitializerRunning, Undecided
  <2> QED
    BY <2>1, <2>2, <2>3
<1>7. CASE UNCHANGED drngVars
  BY <1>7, <1>q DEF drngVars, InitializerRunning, Undecided
<1> QED
  BY <1>1, <1>2, <1>3, <1>4, <1>5, <1>6, <1>7 DEF Next, Work

(* No hardware: the only value ever stored in rng_impl is the RNG_NONE of a
   probe that found nothing, and the drng_init a self-test calls never
   returns, because it finds state 1 and initialized unset. *)
LEMMA NextNoHardware ==
  IInv /\ [Next]_drngVars => HardwareNeverSelected' /\ ChoiceIsNone'
<1> SUFFICES ASSUME IInv, [Next]_drngVars
             PROVE  HardwareNeverSelected' /\ ChoiceIsNone'
  OBVIOUS
<1> USE DEF IInv, TypeOK, HardwareNeverSelected, ChoiceIsNone, Asking, GoTo
<1>1. ASSUME NEW t \in Threads,
             Call(t) \/ ReloadImpl(t) \/ ResetState(t) \/ ResetImpl(t)
      PROVE  HardwareNeverSelected' /\ ChoiceIsNone'
  BY <1>1 DEF Call, ReloadImpl, ResetState, ResetImpl
<1>2. ASSUME NEW t \in Threads, InitFast(t) \/ InitWait(t)
      PROVE  HardwareNeverSelected' /\ ChoiceIsNone'
  <2>1. nested[t] => ~initialized /\ drng_init_state = 1
    BY DEF InitializedIsPublished, StateTellsInitializer, InitializerRunning,
      Undecided
  <2>2. InitFast(t) => (nested[t] => pc'[t] = "init_cas")
    BY <2>1 DEF InitFast
  <2>3. InitWait(t) => ~nested[t]
    BY <2>1 DEF InitWait
  <2> QED
    BY <1>2, <2>2, <2>3 DEF InitFast, InitWait, ReturnPoint
<1>3. ASSUME NEW t \in Threads, InitClaim(t)
      PROVE  HardwareNeverSelected' /\ ChoiceIsNone'
  <2>1. ~nested[t]
    BY <1>3 DEF InitClaim, StateTellsInitializer, InitializerRunning
  <2> QED
    BY <1>3, <2>1 DEF InitClaim, Impls
<1>4. ASSUME NEW t \in Threads,
             InitLose(t) \/ ProbeNone(t) \/ ProbeArm(t) \/ SelfTest(t)
      PROVE  HardwareNeverSelected' /\ ChoiceIsNone'
  BY <1>4 DEF InitLose, ProbeNone, ProbeArm, SelfTest
<1>5. ASSUME NEW t \in Threads,
             PublishImpl(t) \/ PublishInitialized(t) \/ PublishDone(t)
      PROVE  HardwareNeverSelected' /\ ChoiceIsNone'
  <2>1. ~nested[t]
    BY <1>5 DEF PublishImpl, PublishInitialized, PublishDone
  <2> QED
    BY <1>5, <2>1 DEF PublishImpl, PublishInitialized, PublishDone, ReturnPoint
<1>6. CASE UNCHANGED drngVars
  BY <1>6 DEF drngVars
<1> QED
  BY <1>1, <1>2, <1>3, <1>4, <1>5, <1>6 DEF Next, Work

(* The inductive invariant holds in every reachable state. *)
THEOREM Invariance == Spec => []IInv
<1>1. IInv /\ [Next]_drngVars => IInv'
  BY NextTypeOK, NextInitializer, NextNoHardware DEF IInv
<1> QED
  BY InitIInv, <1>1, PTL DEF Spec

(* The state of drng_init stays well-formed. *)
THEOREM TypeCorrect == Spec => []TypeOK
<1>1. IInv => TypeOK
  BY DEF IInv
<1> QED
  BY <1>1, Invariance, PTL

(* On every platform and with any number of threads rng_impl stays RNG_NONE
   and the generating code of drng.c is dead: the build never uses a hardware
   generator. *)
THEOREM NoHardware == Spec => []HardwareNeverSelected
<1>1. IInv => HardwareNeverSelected
  BY DEF IInv
<1> QED
  BY <1>1, Invariance, PTL

(* A reset after initialisation is never undone. *)
THEOREM ResetIsFinal == Spec => ResetSticks
<1>1. IInv /\ [Next]_drngVars =>
        [drng_init_state = 2 /\ ~initialized => ~initialized']_drngVars
  <2> SUFFICES ASSUME IInv, Next, drng_init_state = 2, ~initialized
               PROVE  ~initialized'
    OBVIOUS
  <2>1. \A t \in Threads : pc[t] # "publish_initialized"
    <3>1. \A t \in Threads : InitializerRunning(t) => drng_init_state = 1
      BY DEF IInv, StateTellsInitializer
    <3>2. drng_init_state # 1
      OBVIOUS
    <3> QED
      BY <3>1, <3>2 DEF InitializerRunning, Publishing
  <2> QED
    BY <2>1 DEF Next, Work, Call, ReloadImpl, InitFast, InitClaim, InitLose,
      InitWait, ProbeNone, ProbeArm, SelfTest, PublishImpl, PublishInitialized,
      PublishDone, ResetState, ResetImpl, GoTo
<1> QED
  BY <1>1, Invariance, PTL DEF Spec, ResetSticks

(* An ARM thread that waits for its own initialisation never moves again, and
   no other caller gets out of the loop either. *)
THEOREM HangIsForever == Spec => HangIsPermanent
<1>1. IInv /\ [Next]_drngVars =>
        [SelfWaiting => SelfWaiting' /\ drng_init_state' = 1]_drngVars
  <2> SUFFICES ASSUME IInv, Next, SelfWaiting
               PROVE  SelfWaiting' /\ drng_init_state' = 1
    OBVIOUS
  <2>1. PICK w \in Threads : nested[w] /\ pc[w] = "init_wait"
    BY DEF SelfWaiting
  <2>2. drng_init_state = 1
    BY <2>1 DEF IInv, StateTellsInitializer, InitializerRunning
  <2>3. \A t \in Threads : InitializerRunning(t) => t = w
    BY <2>1 DEF IInv, OneInitializer, InitializerRunning
  <2>4. \A t \in Threads : pc[t] # "publish_done" /\ pc[t] # "selftest"
    BY <2>1, <2>3 DEF InitializerRunning, Choosing, Publishing
  <2>5. drng_init_state' = 1
    BY <2>2, <2>4 DEF Next, Work, Call, ReloadImpl, InitFast, InitClaim,
      InitLose, InitWait, ProbeNone, ProbeArm, SelfTest, PublishImpl,
      PublishInitialized, PublishDone, ResetState, ResetImpl, GoTo
  <2>6. nested'[w] /\ pc'[w] = "init_wait"
    BY <2>1, <2>2, <2>4 DEF IInv, TypeOK, Next, Work, Call, ReloadImpl,
      InitFast, InitClaim, InitLose, InitWait, ProbeNone, ProbeArm, SelfTest,
      PublishImpl, PublishInitialized, PublishDone, ResetState, ResetImpl, GoTo
  <2> QED
    BY <2>5, <2>6 DEF SelfWaiting
<1> QED
  BY <1>1, Invariance, PTL DEF Spec, HangIsPermanent

-----------------------------------------------------------------------------
(* What a move of one thread does to the sets the mapping is made of.  P(t)
   and U(t) below are membership of t in OncePending and in Undecided. *)
Pends(t) == pc[t] \in Asking \/ InitializerRunning(t)
Decides(t) == pc[t] \in Choosing \/ nested[t]

LEMMA OneThreadMoves ==
  ASSUME TypeOK, TypeOK', NEW t \in Threads,
         \A u \in Threads \ {t} : pc'[u] = pc[u] /\ nested'[u] = nested[u]
  PROVE  /\ OncePending' = IF Pends(t)' THEN OncePending \union {t}
                                        ELSE OncePending \ {t}
         /\ Undecided' = IF Decides(t)' THEN Undecided \union {t}
                                        ELSE Undecided \ {t}
  BY DEF TypeOK, OncePending, Undecided, Pends, Decides, InitializerRunning

LEMMA OthersStay ==
  ASSUME TypeOK, NEW t \in Threads,
         Call(t) \/ ResetState(t) \/ Work(t)
  PROVE  \A u \in Threads \ {t} : pc'[u] = pc[u] /\ nested'[u] = nested[u]
  BY DEF TypeOK, Work, Call, ReloadImpl, InitFast, InitClaim, InitLose,
    InitWait, ProbeNone, ProbeArm, SelfTest, PublishImpl, PublishInitialized,
    PublishDone, ResetState, ResetImpl, GoTo

(* Every step of the driver is a step of the one-time initialisation, or
   leaves it alone. *)
LEMMA StepRefinesOnce ==
  IInv /\ IInv' /\ [Next]_drngVars => [Once!Next]_(Once!onceVars)
<1> SUFFICES ASSUME IInv, IInv', Next
             PROVE  Once!Next \/ UNCHANGED <<OncePhase, Undecided, OncePending>>
  BY DEF Once!onceVars, drngVars, OncePhase, OncePending, Undecided,
         InitializerRunning
<1>0. PICK t \in Threads : Call(t) \/ ResetState(t) \/ Work(t)
  BY DEF Next
<1>a. /\ OncePending' = IF Pends(t)' THEN OncePending \union {t}
                                     ELSE OncePending \ {t}
      /\ Undecided' = IF Decides(t)' THEN Undecided \union {t}
                                     ELSE Undecided \ {t}
  BY <1>0, OthersStay, OneThreadMoves DEF IInv
<1>b. /\ t \in OncePending <=> Pends(t)
      /\ t \in Undecided <=> Decides(t)
  BY DEF OncePending, Undecided, Pends, Decides
<1> USE DEF Pends, Decides, InitializerRunning, Asking, Choosing, Publishing,
            GoTo, ReturnPoint
<1>1. CASE Call(t)
  <2>1. ~Pends(t) /\ ~Decides(t)
    BY <1>1 DEF Call, IInv, ChoiceIsNone
  <2>2. Pends(t)' /\ ~Decides(t)'
    BY <1>1, <2>1 DEF Call, IInv, TypeOK, HardwareNeverSelected
  <2>3. Once!Enter(t)
    BY <1>1, <1>a, <1>b, <2>1, <2>2 DEF Call, Once!Enter, OncePhase
  <2> QED
    BY <2>3 DEF Once!Next
<1>2. CASE ReloadImpl(t) \/ ResetState(t) \/ ResetImpl(t)
  <2>1. ~Pends(t) /\ ~Decides(t) /\ ~Pends(t)' /\ ~Decides(t)'
    BY <1>2 DEF ReloadImpl, ResetState, ResetImpl, IInv, TypeOK, ChoiceIsNone
  <2>2. UNCHANGED <<drng_init_state, OncePending, Undecided>>
    BY <1>2, <1>a, <1>b, <2>1 DEF ReloadImpl, ResetState, ResetImpl
  <2> QED
    BY <2>2 DEF OncePhase
<1>3. CASE InitFast(t)
  <2>1. CASE initialized
    <3>1. Undecided = {} /\ drng_init_state # 0
      BY <2>1 DEF IInv, InitializedIsPublished, StateTellsInitializer
    <3>2. ~Decides(t) /\ Pends(t)
      BY <1>3, <1>b, <3>1 DEF InitFast
    <3>3. ~Decides(t)' /\ ~Pends(t)'
      BY <1>3, <2>1, <3>2 DEF InitFast, IInv, TypeOK
    <3>4. Once!Leave(t)
      BY <1>3, <1>a, <1>b, <3>1, <3>2, <3>3 DEF InitFast, Once!Leave, OncePhase
    <3> QED
      BY <3>4 DEF Once!Next
  <2>2. CASE ~initialized
    <3>1. Pends(t) /\ Pends(t)' /\ (Decides(t)' <=> Decides(t))
      BY <1>3, <2>2 DEF InitFast, IInv, TypeOK
    <3>2. UNCHANGED <<drng_init_state, OncePending, Undecided>>
      BY <1>3, <1>a, <1>b, <3>1 DEF InitFast
    <3> QED
      BY <3>2 DEF OncePhase
  <2> QED
    BY <2>1, <2>2
<1>4. CASE InitClaim(t)
  <2>1. Undecided = {}
    BY <1>4 DEF InitClaim, IInv, StateTellsInitializer, Undecided
  <2>2. Pends(t) /\ Pends(t)' /\ Decides(t)'
    BY <1>4 DEF InitClaim, IInv, TypeOK
  <2>3. Undecided' = {t} /\ OncePending' = OncePending
    BY <1>a, <1>b, <2>1, <2>2
  <2>4. Once!Begin(t)
    BY <1>4, <1>b, <2>1, <2>2, <2>3 DEF InitClaim, Once!Begin, OncePhase
  <2> QED
    BY <2>4 DEF Once!Next
<1>5. CASE InitLose(t) \/ SelfTest(t) \/ ProbeNone(t) \/ ProbeArm(t)
  <2>1. Pends(t) /\ Pends(t)' /\ (Decides(t)' <=> Decides(t))
    BY <1>5 DEF InitLose, SelfTest, ProbeNone, ProbeArm, IInv, TypeOK,
      HardwareNeverSelected
  <2>2. UNCHANGED <<drng_init_state, OncePending, Undecided>>
    BY <1>5, <1>a, <1>b, <2>1 DEF InitLose, SelfTest, ProbeNone, ProbeArm
  <2> QED
    BY <2>2 DEF OncePhase
<1>6. CASE InitWait(t)
  <2>1. Undecided = {}
    BY <1>6 DEF InitWait, IInv, StateTellsInitializer, Undecided
  <2>2. Pends(t) /\ ~Decides(t)
    BY <1>6, <1>b, <2>1 DEF InitWait
  <2>3. ~Pends(t)' /\ ~Decides(t)'
    BY <1>6, <2>2 DEF InitWait, IInv, TypeOK
  <2>4. Once!Leave(t)
    BY <1>6, <1>a, <1>b, <2>1, <2>2, <2>3 DEF InitWait, Once!Leave, OncePhase
  <2> QED
    BY <2>4 DEF Once!Next
<1>7. CASE PublishImpl(t)
  <2>1. Undecided = {t} /\ drng_init_state = 1
    BY <1>7 DEF PublishImpl, IInv, OneInitializer, StateTellsInitializer,
      Undecided
  <2>2. Pends(t) /\ Pends(t)' /\ ~Decides(t)'
    BY <1>7 DEF PublishImpl, IInv, TypeOK, ChoiceIsNone
  <2>3. Undecided' = {} /\ OncePending' = OncePending
    BY <1>a, <1>b, <2>1, <2>2
  <2>4. Once!Decide
    BY <1>7, <2>1, <2>3 DEF PublishImpl, Once!Decide, OncePhase
  <2> QED
    BY <2>4 DEF Once!Next
<1>8. CASE PublishInitialized(t)
  <2>1. Pends(t) /\ Pends(t)' /\ (Decides(t)' <=> Decides(t))
    BY <1>8 DEF PublishInitialized, IInv, TypeOK
  <2>2. UNCHANGED <<drng_init_state, OncePending, Undecided>>
    BY <1>8, <1>a, <1>b, <2>1 DEF PublishInitialized
  <2> QED
    BY <2>2 DEF OncePhase
<1>9. CASE PublishDone(t)
  <2>1. ~Decides(t) /\ Pends(t)
    BY <1>9 DEF PublishDone, IInv, ChoiceIsNone
  <2>2. ~Decides(t)' /\ ~Pends(t)'
    BY <1>9, <2>1 DEF PublishDone, IInv, TypeOK
  <2>3. Undecided = {} /\ drng_init_state = 1
    BY <1>9, <2>1 DEF PublishDone, IInv, OneInitializer, StateTellsInitializer,
      Undecided
  <2>4. Once!Leave(t)
    BY <1>9, <1>a, <1>b, <2>1, <2>2, <2>3 DEF PublishDone, Once!Leave, OncePhase
  <2> QED
    BY <2>4 DEF Once!Next
<1> QED
  BY <1>0, <1>1, <1>2, <1>3, <1>4, <1>5, <1>6, <1>7, <1>8, <1>9 DEF Work

(* drng_init is a one-time initialisation for any number of threads: its body
   runs at most once, and no caller leaves before rng_impl is stored. *)
THEOREM ImplementsOnce == Spec => RefinesOnce
<1>1. Init => Once!Init
  <2> SUFFICES ASSUME Init PROVE Once!Init
    OBVIOUS
  <2>1. \A t \in Threads : pc[t] = "idle" /\ ~nested[t]
    BY DEF Init
  <2>2. Undecided = {} /\ OncePending = {}
    BY <2>1 DEF Undecided, OncePending, InitializerRunning, Choosing,
      Publishing, Asking
  <2> QED
    BY <2>2 DEF Init, Once!Init, OncePhase
<1> QED
  BY <1>1, StepRefinesOnce, Invariance, PTL DEF Spec, RefinesOnce, Once!Spec
=============================================================================
