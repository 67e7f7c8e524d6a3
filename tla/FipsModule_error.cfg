SPECIFICATION FipsSpec
CONSTANTS
    FipsThreads = {main, worker}
    Main = main
    FipsInterval = 2
    CounterModulus = 16
    Samples = {s1}
    NoSample = none
    MaxFipsKeygens = 4
    MaxPowerOns = 2
CHECK_DEADLOCK FALSE
PROPERTY NoApprovalFromError
