SPECIFICATION Spec
CONSTANTS
    clean = clean
    spotty = spotty
    f1 = f1
    r1 = r1
    r2 = r2
    None = None
    Contents <- MCContents
    RecordCount <- MCRecordCount
    InvalidCount <- MCInvalidCount
    FailPercent = 10
    Names = {"train.jsonl"}
    SidecarNames <- MCSidecarNames
    Manifest = Manifest
    Partial = Partial
    Backends <- AnyBackend
    Feedbacks = {f1}
    Requests <- MCRequests
    HfDatasets <- AnyFile
    Runners <- EntryPoint
    MaxUploads = 2
    MaxVersions = 2
    MaxReports = 2
    MaxRuns = 1
INVARIANT TrainedWasExamined
\* The model stops when the bounds are used up.
CHECK_DEADLOCK FALSE
