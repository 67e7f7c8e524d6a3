SPECIFICATION Spec
CONSTANTS
    Threads = {t1, t2}
    implementations <- MCImplementations
    NULL = NULL
    Features <- MCFeatures
    Interval = 2
    MaxKeygens = 0
    MaxPowerUps = 0
    MaxSets = 1
PROPERTY SelectedOnce
