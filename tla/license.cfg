SPECIFICATION FairSpec
CONSTANTS
    Links = {q1}
    Keepers = {k1}
    Admins = {a1}
    Licenses = {A, B}
    Configured = A
    None = None
    Torn = Torn
    MaxForms = 1
    MaxFaults = 1
    Faults = {"get", "dbread", "dbwrite", "save", "crash"}
INVARIANT TypeOK
INVARIANT CdnOfLicense
PROPERTY KeyOrCleared
