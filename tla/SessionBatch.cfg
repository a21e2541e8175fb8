CONSTANTS
    Text = {"a", "b", "c", "d", "e", "s", "u", "x", "y", "z"}
    Images = {"i", "j"}
    Pad = "pad"
    DiskBudget = 12
    DurableMax = 1
    MaxAge = 0
    Slots = {r1, r2}
    Prompts <- Unrelated
    Answers <- NoAnswer
    Opener <- UserOpener
    Budget = 7
    MaxSessions = 2
    MaxCheckpoints = 1
    DecodeInterval = 0
    MaxDecode = 1
    MinDisk = 2
    DurableMin = 0
    WriteAheadFloor = 7
    RecentNew = 2
    Growth = 0
    MayFail = TRUE
    FaultMayHappen = TRUE
    CrashMayHappen = TRUE
    MaxRequests = 4
    MaxTime = 0
    MaxEntryId = 2
    Garbage = "garbage"
    None = None
SPECIFICATION Spec
SYMMETRY Symmetry
INVARIANTS
    LineageUnique
    ContentSound
