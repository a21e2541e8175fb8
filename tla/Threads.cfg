\* The helper threads, each on its own.
\* Each of them may stop for good: a dropped pin, a closed connection, a
\* recorder asked to stop, no more passes.
CONSTANTS
    Ranges = 2
    MaxRows = 2
    Holds = {TRUE, FALSE}
    Interval = 2
    KeepWarm = 5
    IdleSecs = {0, 3, 7}
    HoldSecs = {0, 3, 6}
    Oldest = 9
    MaxBodies = 2
    ChannelRoom = 2
    BatchRows = 1
    Traffic = 3
    HttpThreads = {h1, h2}
    SettingValues = {v1, v2}
    Misfortunes = 1
    PassWaits <- TwoPasses
SPECIFICATION ThreadsSpec
INVARIANTS PinSafe WaitsWell ConnSafe RecorderSafe QueueSafe
PROPERTIES PinReleases NoSpin ConnLive RecorderStops CallsEnd
CHECK_DEADLOCK FALSE
