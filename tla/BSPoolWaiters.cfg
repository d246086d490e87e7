CONSTANTS
    Client = {c1, c2}
    Waiter = {c1, c2}
    Task = {t1}
    NoTask = NoTask
    MaxThreads = 1
    FirstThreads = 1
    PauseEnabled = FALSE
    Calls = {"detach_task", "wait"}
SPECIFICATION Spec
INVARIANT WaitingFlag
