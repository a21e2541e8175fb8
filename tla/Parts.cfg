\* The disk tier, the checkpoints, prefix matching, the thinking control and the
\* compute passes, each on its own.  All but the first come to an end.
CONSTANTS
    Lineages = {"A", "B"}
    Size <- Sizes
    Budgets = {3}
    Reopenings = {2}
    DurableMax = 1
    FlagAge = 1
    StoredAge = 0
    MayFail = TRUE
    CrashMayHappen = TRUE
    SettleBound = 2
    MaxStores = 3
    MaxTime = 2
    TickLength = 2
    None = None
    Missing = Missing
    Half = Half
    Intervals = {0, 1, 2, 3}
    Maxima = {0, 1, 2, 3, 4, 5}
    Starts = {0, 2}
    Drafts = {0, 2}
    LastPos = 24
    Text = {"a", "u"}
    Images = {"i", "j"}
    Pad = "pad"
    ImageLen <- ImageLens
    MaxCells = 5
    Pieces <- SomePieces
    Levels <- ThirdAndTwo
    Thinkings <- SomeThinkings
    MaxDraws = 6
    Programs <- SomePrograms
    Carried <- Outlives
SPECIFICATION PartsSpec
INVARIANTS VolumeInOrder CheckpointsFit WellSpaced PrefixExact ThinkingActs PassSound
PROPERTIES SurvivesCrash CommitAsTier NothingExpiresEarly SameAnswer
CHECK_DEADLOCK FALSE
