SPECIFICATION FlowSpec
CONSTANTS
    w1 = w1
    w2 = w2
    s1 = s1
    s2 = s2
    t1 = t1
    t2 = t2
    t3 = t3
    None = None
    Nobody = Nobody
    Absent = Absent
    Damaged = Damaged
    Workers <- MCWorkers
    MaxRuns = 2
    Priorities <- MCPriorities
    Routes <- AllRoutes
    RunnerOf <- MCRunnerOf
    MaxStaleRetries = 1
    MaxCrashes = 1
    Faults <- FaultKinds
    Registrars <- EntryWorkers
    Trainings <- MCTrainings
    BaseOf <- MCBaseOf
    Produces <- MCProduces
    MaxNumber = 2
    MaxKills = 2
    MaxDamaged = 1
    Trainers <- MCTrainers
    Controls <- AllControls
    MaxRequests = 5
    MaxMishaps = 2
    HandoffFaults <- CalmFaults
INVARIANTS TypeOK OneVersionPerRun
           ArtifactsTypeOK RegisteredAsTrained ServedAsTrained
           HandoffTypeOK GpuExclusive TrainsUnderLock
PROPERTIES EntryImplementsLedger StreamingRunsEnd ServingComesBack
