CONSTANTS
    Text = {"a", "b", "c", "d", "e", "s", "u", "x", "y", "z"}
    Images = {"i", "j"}
    Pad = "pad"
    DiskBudget = 20
    DurableMax = 1
    MaxAge = 1
    Slots = {r1}
    Prompts <- Preamble
    Answers <- NoAnswer
    Opener <- UserOpener
    Budget = 20
    MaxSessions = 3
    MaxCheckpoints = 2
    DecodeInterval = 1
    MaxDecode = 1
    MinDisk = 2
    DurableMin = 1
    WriteAheadFloor = 4
    RecentNew = 2
    Growth = 2
    MayFail = FALSE
    FaultMayHappen = FALSE
    CrashMayHappen = FALSE
    MaxRequests = 3
    MaxTime = 2
    MaxEntryId = 4
    Garbage = "garbage"
    None = None
SPECIFICATION Spec
INVARIANTS
    AdmissionSound
    TierSound
PROPERTIES
    DurableSurvivesHits
