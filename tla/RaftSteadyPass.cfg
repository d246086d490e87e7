CONSTANTS
    Server = {s1, s2, s3}
    Boss = s1
    Value = {v1}
    HeartbeatLimit = 1
    Stoppable = {s1, s2, s3}
    MaxTerm = 1
    MaxLog = 4
    MaxTasks = 3
    MaxElections = 0
SYMMETRY Symmetry
SPECIFICATION SteadySpec
INVARIANTS
    FollowsBoss
PROPERTIES
    CommittedNotTruncated
