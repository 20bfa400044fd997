SPECIFICATION Spec
CONSTANTS
    Requests = {q1, q2}
    Cleaners = {c1, c2}
    NDirs = 2
    KeepVersions = 1
    MaxBody = 2
    Windows = {2}
    Faults = {"cdn", "get", "cut", "mkdir", "temp", "rename", "remove", "crash"}
SYMMETRY Symmetry
INVARIANT TypeOK
INVARIANT CachedWhole
INVARIANT ServedChecked
INVARIANT IdFresh
INVARIANT ProxiedWhole
PROPERTY NewestKept
