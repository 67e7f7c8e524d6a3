SPECIFICATION Spec
CONSTANTS
    Threads = {t1, t2}
    Platform = "arm"
CHECK_DEADLOCK FALSE
INVARIANT WaitsForAnother
