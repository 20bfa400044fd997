SPECIFICATION Spec
CONSTANTS
    MaxNumber = 1
    MaxNumbers = 5
    MaxLines = 3
    MaxText = 5
    MaxRetries = 3
CHECK_DEADLOCK FALSE
INVARIANT VersionOrder
INVARIANT ListingsAgree
INVARIANT ContainsIsSubstring
INVARIANT RetriesServe
