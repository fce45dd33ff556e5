SPECIFICATION ExportsSpec
CONSTANTS
    Exports = {e1}
    Pages = 2
    MaxPartAttempts = 2
    MaxUploads = 1
    ExportBuilds = {1, 2}
    MaxOutages = 2
INVARIANT
    RunningIsWatched
CHECK_DEADLOCK FALSE
