SPECIFICATION Spec
CONSTANTS
    Updaters = {u1}
    Canonical = {}
    Legacy = {}
    Preload = TRUE
    NFiles = 3
    MaxVersion = 3
    Faults = {"check", "none", "version", "empty", "download", "copy", "mkdir", "db", "crash"}
INVARIANT NoOlderThanRow
