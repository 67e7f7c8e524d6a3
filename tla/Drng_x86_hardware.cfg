\* An x86 processor with both of its generators.
SPECIFICATION Spec
CONSTANTS
    Threads = {t1, t2}
    Platform = "x86"
    Offered = {"RDSEED", "RDRAND"}
INVARIANT HardwareFirst
