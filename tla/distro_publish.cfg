SPECIFICATION FairSpec
CONSTANTS
    Uploaders = {p1, p2}
    Uploads = {v1, v2}
    None = None
    Faults = {"stat", "rename", "drop", "crash"}
    MaxErrors = 2
INVARIANT TypeOK
INVARIANT PairMatches
INVARIANT KeptSurvives
INVARIANT FailureRestores
INVARIANT SuccessPublishes
PROPERTY UploadEnds
PROPERTY SignedPairSpec
