\* The expert cache with predictions for two tokens in a row: one the next
\* lookup may take before the last one's reads are published.
CONSTANTS
    CacheLayers = 3
    CacheExperts = 2
    CacheSlots = 4
    PinnedSlots = 1
    TopK = 1
    ReadDepth = 1
    TopPicks = 2
    CutLayers = {1}
    AbandonAfter = {2}
    Predictions = {"start", "cuts", "replace"}
    CachePasses = 2
    PromoteEvery = 4
    PredictedTokens = 2
SPECIFICATION CacheSpec
INVARIANTS ExpertsReady
CHECK_DEADLOCK FALSE
