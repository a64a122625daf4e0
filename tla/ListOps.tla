------------------------------ MODULE ListOps ------------------------------
(***************************************************************************)
(* The mlist<T> of mlist.h as the scheduler uses it: pushed to and popped  *)
(* from.  A node is never freed and its next pointer, once set, never      *)
(* changes, so such a list is the sequence of its nodes in push order,     *)
(* log, and the index head of its first node, 0 standing for nullptr: node *)
(* i is followed by node i + 1.                                            *)
(*                                                                         *)
(* A push is one step here, and next of a new node is null.  MList.tla has *)
(* the pointers themselves, the wild next that _node's constructor leaves, *)
(* the two accesses of push and the three reads of head in pop.            *)
(***************************************************************************)
EXTENDS Naturals, Sequences

EmptyList == [log |-> << >>, head |-> 0]

\* The elements on the chain from head, in order.
Content(l) == IF l.head = 0 THEN << >> ELSE SubSeq(l.log, l.head, Len(l.log))

\* mlist<T>::len
ListLen(l) == IF l.head = 0 THEN 0 ELSE Len(l.log) - l.head + 1

\* mlist<T>::push: a new last node, and the first one if head was nullptr.
ListPush(l, v) ==
    [log  |-> Append(l.log, v),
     head |-> IF l.head = 0 THEN Len(l.log) + 1 ELSE l.head]

\* What it would be if push left the next pointer of the last node as it is.
NextNodePast(l, i) == IF i = 0 THEN 0 ELSE i + 1

\* head->next as it is now: nullptr for the last node.
NextNode(l, i) == IF i = 0 \/ i >= Len(l.log) THEN 0 ELSE i + 1

\* The last statement of mlist<T>::pop: head = head->next.
StoreHead(l, i) == [l EXCEPT !.head = i]

\* The nodes before head, which only a pop already under way can refer to,
\* dropped: the same list for every later operation.
Compact(l) == [log |-> Content(l), head |-> IF l.head = 0 THEN 0 ELSE 1]

\* mlist<T>::pop as one step; what it hands out is the first of Content(l).
ListPop(l) == Compact(StoreHead(l, NextNode(l, l.head)))

\* Where v is on the chain from head.
Occurrences(l, v) == {i \in 1 .. Len(Content(l)) : Content(l)[i] = v}

Elements(l) == {Content(l)[i] : i \in 1 .. Len(Content(l))}

\* No element is on the list twice.
Distinct(l) ==
    \A i, j \in 1 .. Len(Content(l)) : Content(l)[i] = Content(l)[j] => i = j

ListOf(S) == {l \in [log : Seq(S), head : Nat] : l.head <= Len(l.log)}
=============================================================================
