SPECIFICATION HandoffSpec
CONSTANTS
    w1 = w1
    w2 = w2
    Nobody = Nobody
    Trainers <- MCWorkers
    Controls <- AllControls
    MaxRequests = 6
    MaxMishaps = 2
    HandoffFaults <- AllFaults
INVARIANT GpuExclusive
\* The model stops when the requests are used up.
CHECK_DEADLOCK FALSE
