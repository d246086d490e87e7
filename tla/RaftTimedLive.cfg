CONSTANTS
    Server = {s1, s2, s3}
    Value = {v1}
    HeartbeatLimit = 6
    Stoppable = {}
    MaxTerm = 3
    MaxLog = 3
    MaxTasks = 6
    MaxElections = 2
    MaxStops = 0
SPECIFICATION FairTimedSpec
PROPERTIES
    LeaderForGood
    EveryEntryApplied
