CONSTANTS
    Client = {c1, c2}
    Waiter = {c1, c2}
    Task = {t1, t2, t3}
    NoTask = NoTask
    MaxThreads = 3
    FirstThreads = 2
    PauseEnabled = TRUE
    Calls = {"detach_task", "pause", "unpause", "purge", "wait", "wait_for", "reset", "destroy"}
SPECIFICATION Spec
SYMMETRY Symmetry
CHECK_DEADLOCK FALSE
INVARIANTS
    TypeOK
    CountExact
    TaskOnce
