SPECIFICATION FairSpec
CONSTANTS
    Updaters = {u1}
    Canonical = {c1}
    Legacy = {l1}
    Preload = TRUE
    NFiles = 1
    MaxVersion = 2
    Faults = {}
INVARIANT TypeOK
INVARIANT TornHasWriter
PROPERTY Converges
