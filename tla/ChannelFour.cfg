\* Two writers of three items each and two readers, two places: as many threads
\* as AllRead allows.
CONSTANTS
    w1 = w1
    w2 = w2
    r1 = r1
    r2 = r2
    Writer = {w1, w2}
    Reader = {r1, r2}
    Load = 3
    MaxLen = 2
    Fresh <- AnyNext
SPECIFICATION FairSpec
PROPERTIES
    IsFifo
    AllRead
