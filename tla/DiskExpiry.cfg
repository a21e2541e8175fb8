SPECIFICATION DiskSpec
CONSTANTS
    Lineages = {"A", "B"}
    Size <- Sizes
    Budgets = {3}
    Reopenings = {2}
    DurableMax = 1
    FlagAge = 1
    StoredAge = 0
    MayFail = FALSE
    CrashMayHappen = FALSE
    SettleBound = 3
    MaxStores = 1
    MaxTime = 2
    TickLength = 1
    None = None
    Missing = Missing
    Half = Half
PROPERTIES StoredAgeKeeps
