CONSTANTS
    Server = {s1, s2, s3}
    Boss = s1
    Value = {v1}
    HeartbeatLimit = 1
    Stoppable = {}
    MaxTerm = 1
    MaxLog = 4
    MaxTasks = 4
    MaxElections = 0
SYMMETRY Symmetry
SPECIFICATION SteadySpec
INVARIANTS
    CommitReplicated
