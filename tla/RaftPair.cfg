CONSTANTS
    Server = {s1, s2}
    Value = {v1}
    HeartbeatLimit = 2
    Stoppable = {s1, s2}
    MaxTerm = 2
    MaxLog = 3
    MaxTasks = 2
    MaxElections = 1
SYMMETRY Symmetry
SPECIFICATION Spec
INVARIANTS
    TypeOK
    LogIndexed
PROPERTIES
    LeaderAppendOnly
