SPECIFICATION FipsSpec
CONSTANTS
    FipsThreads = {main, worker}
    Main = main
    FipsInterval = 3
    CounterModulus = 16
    Samples = {s1}
    NoSample = none
    MaxFipsKeygens = 4
    MaxPowerOns = 0
CHECK_DEADLOCK FALSE
INVARIANT KeygensTested
