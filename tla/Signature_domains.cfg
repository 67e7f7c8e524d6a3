\* Openings against the domain separation their file claims.
SPECIFICATION SignatureSpec
CONSTANTS
    Texts = {"a", "b"}
    Messages <- MCMessages
    LongContexts <- MCLong
    Absent = Absent
    MaxSignKeypairs = 2
    MaxSigns = 2
INVARIANT DomainSeparated
