SPECIFICATION FairSpec
CONSTANTS
    w1 = w1
    w2 = w2
    golden = golden
    None = None
    Versions <- MCVersions
    Workers <- MCWorkers
    EvalSets <- MCEvalSets
    RecordsOf <- MCRecordsOf
    HasLoss <- FirstHasLoss
    MaxTriggers <- FirstTwice
    MaxFaults = 1
INVARIANTS TypeOK AtMostOncePerTrigger DecidedHasEvidence EvaluationKeepsServed
PROPERTIES QueuedAreEvaluated DecisionsStand
\* The model stops when the triggers are used up.
CHECK_DEADLOCK FALSE
