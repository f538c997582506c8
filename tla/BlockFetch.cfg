CONSTANTS
    Rows = 2
    Cols = 2
    Confidences = {4900, 5000, 7500, 8000, 9990}
    AppRows = {0, 2}
    Partition <- MCPartition
    Threshold = 4
    CrawlModes = {"cells", "rows", "both"}

SPECIFICATION Spec

INVARIANT ConfidenceIsEarned
INVARIANT UploadsAreSound
INVARIANT AppRowsComplete

\* A fetch ends.
CHECK_DEADLOCK FALSE
