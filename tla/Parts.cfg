CONSTANTS
    Parts = {"lock", "spin", "semaphore", "map", "list", "slot", "pool", "factory", "blocks", "request", "string"}
    Thread = {t1, t2, t3}
    Nobody = nobody
    Spinner = {s1, s2, s3}
    User = {u1, u2, u3}
    Amounts = {0, 1, 2}
    MaxPosted = 4
    Caller = {"t1", "t2"}
    NoCaller = "nobody"
    Key = {"a", "b", "c"}
    hasher <- HashOfKey
    MaxNodes = 5
    Usages <- MapUsages
    Pusher = {"t1", "t2", "t3"}
    Data = {"x", "y"}
    MaxCells = 3
    ListUsages <- PushOrAlone
    Name = {"k1", "k2"}
    Field = {"f"}
    Text = {"v", "w"}
    Ttl <- SmallNumbers
    MaxTime = 2
    Absent = absent
    PoolTask = {p1, p2, p3}
    EndlessTask = {p3}
    PoolWorker = {w1, w2}
    Id = {"i1", "i2"}
    MaxObjects = 3
    MaxRefs = 2
    Index <- SmallIndices
    Threads = {1, 2, 3}
    Requests = {0, 1, 2, 3, 4, 5, 7, 12}
    Words <- SmallTexts
    Numbers <- SmallNumbers
    MaxList = 2
    Char <- FewChars
    separator = 64
    MaxLength = 3
    MaxToken = 2
    SizeBits = 4
SPECIFICATION Spec
CHECK_DEADLOCK FALSE
INVARIANTS
    NoLostPost
    SpinExclusion
    ChainsWhole
    NoStaleAccess
    FindSees
    KeptUnlessTimed
    PoolTaskOnce
    OneAlive
    KeysAreTheirs
    EachIndexOnce
    
    ReadsBack
PROPERTIES
    ImplementsLock
    SomeoneEnters
    PostsTaken
    ImplementsMap
    ImplementsBag
    AnswersChange
    PutIsTaken
    CloseReturns
