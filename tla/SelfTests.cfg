\* The bounds on calls end every behaviour of the FIPS module.
SPECIFICATION SelfTestsSpec
CONSTANTS
    Threads = {t1, t2}
    implementations <- MCImplementations
    NULL = NULL
    Features <- MCFeatures
    Interval = 2
    MaxKeygens = 3
    MaxPowerUps = 2
    MaxSets = 1
    FipsThreads = {main, worker}
    Main = main
    FipsInterval = 2
    CounterModulus = 5
    Samples = {s1, s2}
    NoSample = none
    MaxFipsKeygens = 6
    MaxPowerOns = 3
SYMMETRY Symmetry
CHECK_DEADLOCK FALSE
INVARIANTS
    TypeOK
    NeverCallsNull
    BestUnlessForced
    StatusOfLastRun
    SerialKeysTested
    InitializedAfterPass
    FipsInv
    StateTracksPowerOn
    SerialKeygensTested
PROPERTIES
    ErrorLeftByPowerOnOnly
    ApprovedOnFreshSample
