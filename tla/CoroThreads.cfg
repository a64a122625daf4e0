\* One thread calls go, two machines run its tasks; a fourth thread uses libaco itself.
CONSTANTS
    g1 = g1
    m1 = m1
    m2 = m2
    l = l
    t1 = t1
    t2 = t2
    u1 = u1
    u2 = u2
    s1 = s1
    s2 = s2
    s3 = s3
    Shared = Shared
    None = None
    Caller = {g1}
    Machine = {m1, m2}
    LibThread = {l}
    Task = {t1, t2, u1, u2}
    Lib = {u1, u2}
    Stack = {s1, s2, s3}
    StackOf <- Placed
    Depths = {3, 19}
    MaxWords = 19
    Yields = 2
    Sizes = {5000, 268431360}
    Addresses = {8192, 8208}
    Word = 268435456
    Overlap = FALSE
    Nested = FALSE
SPECIFICATION Spec
INVARIANTS
    OwnStack
    AssertionsHold
    FramesKept
    OwnerAlive
    FpuWordsSet
