\* Two p's: the machines steal from each other.
CONSTANTS
    t1 = t1
    t2 = t2
    t3 = t3
    p1 = p1
    p2 = p2
    m1 = m1
    m2 = m2
    m3 = m3
    Main = Main
    Daemon = Daemon
    None = None
    Task = {t1, t2, t3}
    P = {p1, p2}
    Machine = {m1, m2, m3}
    Boot <- TwoP
    Program <- PlainThree
    MaxQueueLen = 2
    StealRounds = 1
    MaxSpurious = 0
    Windows = {}
SPECIFICATION Spec
INVARIANTS
    TypeOK
    QueueBounded
    ThiefCounted
    OneRunner
SYMMETRY AllTasks
