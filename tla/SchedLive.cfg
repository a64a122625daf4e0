\* Every kind of call; an asynchronous one may be answered early.
CONSTANTS
    t1 = t1
    t2 = t2
    t3 = t3
    p1 = p1
    p2 = p2
    m1 = m1
    m2 = m2
    m3 = m3
    Main = Main
    Daemon = Daemon
    None = None
    Task = {t1, t2}
    P = {p1}
    Machine = {m1, m2}
    Boot <- OneP
    Program <- YieldSleep
    MaxQueueLen = 2
    StealRounds = 1
    MaxSpurious = 0
    Windows = {"early"}
SPECIFICATION FairSpec
INVARIANTS
    NoBoundSleeper
    BoundWhereUsed
    ResumedAfterAnswer
    TaskNotLost
PROPERTIES
    DoneUnlessChasing
