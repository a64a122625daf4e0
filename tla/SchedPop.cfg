\* Pops overlap each other and pushes; pthread_cond_wait may return without a signal.
CONSTANTS
    t1 = t1
    t2 = t2
    t3 = t3
    p1 = p1
    p2 = p2
    m1 = m1
    m2 = m2
    m3 = m3
    Main = Main
    Daemon = Daemon
    None = None
    Task = {t1, t2}
    P = {p1}
    Machine = {m1, m2}
    Boot <- OneP
    Program <- PlainTwo
    MaxQueueLen = 2
    StealRounds = 1
    MaxSpurious = 1
    Windows = {"pop"}
SPECIFICATION Spec
INVARIANTS
    ControlOK
    ReadsOK
CONSTRAINT FewNodes
\* Two overlapping pops can lose p1, and then no thread has anything to do.
CHECK_DEADLOCK FALSE
