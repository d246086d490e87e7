CONSTANTS
    Client = {c1}
    Waiter = {c1}
    Task = {t1}
    NoTask = NoTask
    MaxThreads = 1
    FirstThreads = 1
    PauseEnabled = TRUE
    Calls = {"detach_task", "reset"}
SPECIFICATION FairSpec
PROPERTIES
    RunAfterReset
