\* The decode loops, the batch scheduler and the expert cache, each on its own.
\* Each of them ends: a generation is over, no more jobs or passes come.
CONSTANTS
    MaxTokens = 6
    CapStep = 4
    Rooms = {0, 3}
    DraftTokens = 2
    CloseLen = 2
    Distances = {0, 2}
    MaxActs = 1
    Jobs = {1, 2, 3}
    Rows = 2
    Places = 4
    Room = 3
    Chunks = 2
    Between = 2
    Estimate = 2
    Budget = 4
    Spacings = {2}
    Inserts = 1
    Troubles = 1
    CacheLayers = 3
    CacheExperts = 2
    CacheSlots = 4
    PinnedSlots = 1
    TopK = 1
    ReadDepth = 1
    TopPicks = 2
    CutLayers = {1}
    AbandonAfter = {2}
    Predictions = {"none", "start", "replace"}
    CachePasses = 2
    PromoteEvery = 4
    PredictedTokens = 1
SPECIFICATION AllSpec
INVARIANTS GenerationExact BatchSafe CacheSafe
PROPERTIES GenerationEnds BatchServes PassesResolved
CHECK_DEADLOCK FALSE
