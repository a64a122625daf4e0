\* One thread pops while another pushes, deletes and filters.
CONSTANTS
    a = a
    b = b
    v = v
    w = w
    Thread = {a, b}
    Value = {v, w}
    Calls <- OnePopper
    MaxNode = 3
    Fresh <- FreshOrWild
SPECIFICATION FairSpec
INVARIANTS
    Forward
    NoNullHead
    InOrder
PROPERTIES
    CallsReturn
\* The process ends when it uses the next that the constructor left wild.
CHECK_DEADLOCK FALSE
