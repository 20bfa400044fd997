SPECIFICATION FairSpec
CONSTANTS
    Updaters = {}
    Canonical = {c1, c2}
    Legacy = {}
    Preload = FALSE
    NFiles = 1
    MaxVersion = 2
    Faults = {"version", "empty", "download", "copy", "remove", "crash"}
INVARIANT CheckAtomic
PROPERTY Answered
