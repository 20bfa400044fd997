SPECIFICATION Spec
CONSTANTS
    Runs = {r1}
    Kinds <- GeoAndSnort
    MaxVersion = 2
    Faults = {"list", "stale", "download", "copy", "dbread", "dbwrite", "crash"}
    MaxErrors = 2
INVARIANT TypeOK
INVARIANT AdvertisedServable
INVARIANT LinkNotOlder
PROPERTY RowsAdvance
