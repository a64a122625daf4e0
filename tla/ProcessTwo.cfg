\* Two threads make the first call at once; background notifies init in time.
CONSTANTS
    a = a
    b = b
    i1 = i1
    tick = tick
    once = once
    Nobody = Nobody
    None = None
    NoTimer = NoTimer
    Caller = {a, b}
    Slot = {i1}
    EarlyNotify = FALSE
    Co = {a, b}
    Program <- ReadAndWrite
    MaxFd = 4
    FileLen = 3
    Count = 3
    LateErase = FALSE
    Short = TRUE
    Timer = {tick, once}
    Kind <- TickAndOnce
    Ms <- Delays
    Cleared = {once}
    Asker <- OnceByWriter
SPECIFICATION FairSpec
INVARIANTS
    OneScheduler
    CoBeforeTasks
    FileKept
    CloseCloses
    ReadsAll
    WritesAll
    NotEarly
PROPERTIES
    AllRun
    AllAnswered
    EachFires
