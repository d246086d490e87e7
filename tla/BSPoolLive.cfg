CONSTANTS
    Client = {c1, c2}
    Waiter = {c1}
    Task = {t1, t2, t3}
    NoTask = NoTask
    MaxThreads = 3
    FirstThreads = 2
    PauseEnabled = FALSE
    Calls = {"detach_task", "wait", "reset", "destroy"}
SPECIFICATION FairSpec
CHECK_DEADLOCK FALSE
INVARIANTS
    NoIdleWorker
    DestroyedDone
PROPERTIES
    EveryTaskRuns
    WaitReturns
