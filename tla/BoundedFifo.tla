---------------------------- MODULE BoundedFifo ----------------------------
(***************************************************************************)
(* What channel<DATA> promises to all its users together: a queue of at    *)
(* most Cap items, which hands them out in the order in which they came.   *)
(***************************************************************************)
EXTENDS Naturals, Sequences

CONSTANTS Item, Cap

VARIABLES
    items,  \* in the queue
    out     \* handed out

vars == <<items, out>>

Init == items = << >> /\ out = << >>

Put(i) ==
    /\ Len(items) < Cap
    /\ items' = Append(items, i)
    /\ UNCHANGED out

Get ==
    /\ items # << >>
    /\ items' = Tail(items)
    /\ out' = Append(out, Head(items))

Next == Get \/ \E i \in Item : Put(i)

Spec == Init /\ [][Next]_vars
=============================================================================
