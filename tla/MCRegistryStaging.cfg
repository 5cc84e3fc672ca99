SPECIFICATION Spec
CONSTANTS
    v1 = v1
    v2 = v2
    v3 = v3
    r1 = r1
    r2 = r2
    r3 = r3
    main = main
    stage = stage
    None = None
    Versions <- MCVersions
    Requests <- MCRequests
    Hosts <- MCHosts
    HostOf <- StagingApart
    Faults <- NoFaults
PROPERTY StagingKeepsPointer
\* The registry stops when every version is rejected and no request runs.
CHECK_DEADLOCK FALSE
