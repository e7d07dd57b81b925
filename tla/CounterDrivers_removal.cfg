SPECIFICATION FairSpec
CONSTANTS
    Outcomes = {"ok"}
    Modulus = 2
    MaxWrites = 2
PROPERTY RemovalDone
