CONSTANTS
    Text = {"a", "b", "c", "d", "e", "s", "u", "x", "y", "z"}
    Images = {"i", "j"}
    Pad = "pad"
    DiskBudget = 12
    DurableMax = 1
    MaxAge = 0
    Slots = {r1}
    Prompts <- Pair
    Answers <- ShortAnswer
    Opener <- UserOpener
    Budget = 8
    MaxSessions = 3
    MaxCheckpoints = 2
    DecodeInterval = 0
    MaxDecode = 1
    MinDisk = 2
    DurableMin = 0
    WriteAheadFloor = 4
    RecentNew = 2
    Growth = 2
    MayFail = TRUE
    FaultMayHappen = FALSE
    CrashMayHappen = TRUE
    MaxRequests = 3
    MaxTime = 0
    MaxEntryId = 3
    Garbage = "garbage"
    None = None
SPECIFICATION FairSpec
PROPERTIES
    StoreReturns
