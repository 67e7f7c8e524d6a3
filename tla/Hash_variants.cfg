\* The truncated variants against SHA-512 with their own initial values.
SPECIFICATION HashSpec
CONSTANTS
    Block = 4
    LengthField = 2
    HashBytes = {x, y}
    MaxHashed = 9
INVARIANT SameAsSha512ButIv
