\* The vector implementations against the portable core functions.
SPECIFICATION Salsa20LanesSpec
CONSTANTS
    Word = 16
    Byte = 4
    Rotations <- MCRotations
    sigma <- MCsigma
    XorWords <- MCXor
    StreamInputs <- MCStreamInputs
    StreamLengths = {0}
    MaxStream = 0
INVARIANT LanesComputeSalsa20
