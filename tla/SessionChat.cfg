CONSTANTS
    Text = {"a", "b", "c", "d", "e", "s", "u", "x", "y", "z"}
    Images = {"i", "j"}
    Pad = "pad"
    DiskBudget = 12
    DurableMax = 1
    MaxAge = 0
    Slots = {r1}
    Prompts <- Chat
    Answers <- Generations
    Opener <- UserOpener
    Budget = 12
    MaxSessions = 2
    MaxCheckpoints = 2
    DecodeInterval = 1
    MaxDecode = 1
    MinDisk = 2
    DurableMin = 2
    WriteAheadFloor = 4
    RecentNew = 2
    Growth = 2
    MayFail = FALSE
    FaultMayHappen = FALSE
    CrashMayHappen = FALSE
    MaxRequests = 3
    MaxTime = 0
    MaxEntryId = 4
    Garbage = "garbage"
    None = None
SPECIFICATION Spec
INVARIANTS
    StoreTidy
PROPERTIES
    NoSilentLoss
    FurthestResume
    ImplementsPromptCache
