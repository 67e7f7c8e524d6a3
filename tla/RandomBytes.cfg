SPECIFICATION FairSpec
CONSTANTS
    Threads = {t1, t2}
    Platform = "x86"
    WithDrng = TRUE
    SelfTestInterval = 2
    Lengths <- MCLengths
    MaxCalls = 4
    MaxInterrupts = 1
INVARIANTS
    FilledOnSuccess
    NoDescriptorLeak
    SelfTestsMatchCalls
    InitializedWhenQuiet
    FallbackAfterDecision
    RInv
PROPERTY CallsReturn
