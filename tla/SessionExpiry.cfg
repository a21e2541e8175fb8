CONSTANTS
    Text = {"a", "b", "c", "d", "e", "s", "u", "x", "y", "z"}
    Images = {"i", "j"}
    Pad = "pad"
    DiskBudget = 12
    DurableMax = 1
    MaxAge = 1
    Slots = {r1}
    Prompts <- Nested
    Answers <- NoAnswer
    Opener <- UserOpener
    Budget = 12
    MaxSessions = 3
    MaxCheckpoints = 2
    DecodeInterval = 0
    MaxDecode = 1
    MinDisk = 2
    DurableMin = 0
    WriteAheadFloor = 12
    RecentNew = 2
    Growth = 2
    MayFail = FALSE
    FaultMayHappen = FALSE
    CrashMayHappen = FALSE
    MaxRequests = 4
    MaxTime = 2
    MaxEntryId = 4
    Garbage = "garbage"
    None = None
SPECIFICATION Spec
PROPERTIES
    FurthestResume
