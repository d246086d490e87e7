CONSTANTS
    Server = {s1, s2, s3}
    Value = {v1}
    HeartbeatLimit = 3
    Stoppable = {s1, s2, s3}
    MaxTerm = 2
    MaxLog = 3
    MaxTasks = 6
    MaxElections = 2
    MaxStops = 1
SYMMETRY Symmetry
SPECIFICATION TimedSpec
INVARIANTS
    ElectionSafety
