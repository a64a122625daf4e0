\* A coroutine that a machine runs calls go().
CONSTANTS
    g1 = g1
    m1 = m1
    m2 = m2
    l = l
    t1 = t1
    t2 = t2
    u1 = u1
    u2 = u2
    s1 = s1
    s2 = s2
    s3 = s3
    Shared = Shared
    None = None
    Caller = {g1}
    Machine = {m1}
    LibThread = {}
    Task = {t1, t2}
    Lib = {}
    Stack = {s1, s2}
    StackOf <- PlacedTasks
    Depths = {3}
    MaxWords = 3
    Yields = 2
    Sizes = {}
    Addresses = {8192}
    Word = 268435456
    Overlap = FALSE
    Nested = TRUE
SPECIFICATION Spec
INVARIANT AssertionsHold
