\* The functions behind the public interface, each component by itself.
SPECIFICATION PrimitivesSpec
CONSTANTS
    Parties = {p1, p2}
    SymmetricKeys = {k1}
    Nonces = {n1, n2}
    Plaintexts = {t1}
    NULL = NULL
    MaxKeypairs = 3
    MaxSeals = 2
    MaxMisuses = 1
    Texts = {"a", "b"}
    Messages <- MCMessages
    LongContexts <- MCLong
    Absent = Absent
    MaxSignKeypairs = 2
    MaxSigns = 2
    Block = 4
    LengthField = 2
    HashBytes = {x, y}
    MaxHashed = 9
    Limbs = 5
    Radix = 8
    RKeys <- MCRKeys
    SKeys <- MCSKeys
    MacMessages <- MCMacMessages
    Word = 16
    Byte = 4
    Rotations <- MCRotations
    sigma <- MCsigma
    XorWords <- MCXor
    StreamInputs <- MCStreamInputs
    StreamLengths = {0, 15, 16, 17, 290}
    MaxStream = 290
    FieldLimbs = 4
    FieldRadix = 16
    Less = 2
    Numbers <- MCNumbers
    MaxFieldOps = 4
    MaxSums = 2
    Bits = 6
    Algorithms = {"KYBER", "DILITHIUM", "unknown"}
    pqc_params_table <- MCTable
    Curve = 1
    MaxLength = 3
    max_attempts = 3
    INT_MAX = 7
    Half = 8
SYMMETRY MCSymmetry
INVARIANTS
    TypeOK
    OpenedWasSealed
    SealedBoxOpens
    WhatOpenLeaves
    OpenedWasSigned
    SignedOpens
    WhatSignOpenLeaves
    HashIsStandard
    MacIsPolynomial
    StreamIsXSalsa20
    PackIsCanonical
    LadderMultiplies
    SuccessIsComplete
    ValidatedReturn
    RefusedIfNotExact
    MinMaxOrder
