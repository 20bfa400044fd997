SPECIFICATION FairSpec
CONSTANTS
    Runs = {r1, r2}
    Kinds <- OnlySigned
    MaxVersion = 2
    Faults = {"copy", "dbread", "crash"}
    MaxErrors = 1
PROPERTY Converges
