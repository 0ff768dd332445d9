SPECIFICATION FairSpec
CONSTANTS
    k1 = k1
    k2 = k2
    Keys = {k1, k2}
    NoFile = NoFile
    MaxEdits = 3
INVARIANT NewestListInForce
PROPERTIES OnlyListed RevocationLands
CHECK_DEADLOCK FALSE
