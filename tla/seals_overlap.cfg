SPECIFICATION BlobsSpec
CONSTANTS
    Chains = {}
    Bytes = {}
    MaxRows = 0
    MaxRecords = 2
    MaxSealing = 2
    MaxTroubles = 0
INVARIANTS
    RecordsReadable
CHECK_DEADLOCK FALSE
