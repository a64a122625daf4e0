\* A coroutine in a system call beside a plain one; join is preempted.
CONSTANTS
    t1 = t1
    t2 = t2
    t3 = t3
    p1 = p1
    p2 = p2
    m1 = m1
    m2 = m2
    m3 = m3
    Main = Main
    Daemon = Daemon
    None = None
    Task = {t1, t2}
    P = {p1}
    Machine = {m1, m2, m3}
    Boot <- OneP
    Program <- SyscallPlain
    MaxQueueLen = 2
    StealRounds = 1
    MaxSpurious = 0
    Windows = {"bind", "park"}
SPECIFICATION Spec
INVARIANTS
    PInOnePlace
    ParkedIsFree
    TaskNotTwice
SYMMETRY NewMachines
