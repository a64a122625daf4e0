SPECIFICATION Spec
CONSTANTS
    p = p
    q = q
    c = c
    d = d
    Producer = {p, q}
    Consumer = {c, d}
    Block = {b1, b2}
    BlockSize = 2
    PoolSize = 1
    IndexSize = 2
    Counts <- CountsOf
    Maxes <- MaxesOf
    Limit <- LimitOf
    Tries <- TriesOf
    Refused = TRUE
    None = None
INVARIANTS
    AssertionsHold
    TakenRight
    OnePlace
    Counted
