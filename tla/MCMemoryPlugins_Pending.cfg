SPECIFICATION Spec
CONSTANTS
    UserPlugins = {"hindsight", "own"}
    Sessions = {"s1", "s2"}  MaxTurn = 3  MaxLife = 3  MaxRecall = 1  RetainEvery = 2
    SyncThreads = {"sync1"}  MaxMessage = 2  MaxStored = 2  MaxQueue = 1  MaxNew = 1
    MaxAsking = 2  Cadence = 1  Depth = 2  StaleFactor = 2  BackoffMax = 8
    Agents = {"a1", "a2"}  MaxTurns = 1  MaxMessages = 1  MaxThreads = 1
    Profiles = {"work"}  Contexts = {"main", "cron"}  CustomTags = {"shared"}
    Processes = {"p1", "p2"}  MaxRow = 2  MaxLives = 3  ReplayLimit = 1
    Callers = {"prefetch", "sync", "tool"}  Threshold = 2
    Contents <- TwoTexts
    Entities <- Named
    Categories = {"k1"}  Dimensions = {1, 2}  MaxFact = 2
INVARIANT VikingPendingCommitted
CHECK_DEADLOCK FALSE
