\* The ARM build, whose probe may also find nothing, as x86 always does.  Its threads
\* may stop: once the initialising thread waits for itself all others wait with it.
SPECIFICATION FairSpec
CONSTANTS
    Threads = {t1, t2, t3}
    Platform = "arm"
CHECK_DEADLOCK FALSE
INVARIANTS
    IInv
    HardwareNeverSelected
PROPERTIES
    ResetSticks
    HangIsPermanent
    RefinesOnce
    Returns
