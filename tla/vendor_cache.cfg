SPECIFICATION FairSpec
CONSTANTS
    Requests = {q1, q2}
    None = None
    MaxVersion = 2
    Faults = {"get", "missing", "pe", "write", "remove", "crash"}
INVARIANT TypeOK
INVARIANT ServedEngineChecked
INVARIANT ServedPresent
INVARIANT ServedIdRefreshed
PROPERTY Answered
