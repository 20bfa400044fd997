SPECIFICATION Spec
CONSTANTS
    Updaters = {}
    Canonical = {c1, c2}
    Legacy = {}
    Preload = FALSE
    NFiles = 1
    MaxVersion = 2
    Faults = {}
SYMMETRY RequestSymmetry
INVARIANT NoOlderThanRow
