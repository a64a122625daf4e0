------------------------------- MODULE MList -------------------------------
(***************************************************************************)
(* The class mlist<T> of mlist.h with its pointers.  push, del, len and    *)
(* filter hold the mutex mtx; pop does not, and in the build of the        *)
(* makefile, which asks for no optimisation, it reads head three times:    *)
(* for the test, for head->m and for head->next.  Its steps here are those *)
(* reads and its store; the steps of the others are the accesses that a    *)
(* pop can see and the iterations of their loops.                          *)
(*                                                                         *)
(* Nodes are numbered in the order of push, 0 is nullptr, and no node is   *)
(* ever freed.  The constructor of _node leaves next as new finds it:      *)
(* Fresh says what that may be.  Using an address that is no node ends the *)
(* process.                                                                *)
(***************************************************************************)
EXTENDS Integers, FiniteSets

CONSTANTS
    Thread,   \* threads that share the list
    Value,    \* the elements
    Calls,    \* the operations each thread calls
    MaxNode,  \* bound on calls of push
    Fresh     \* what next of a new node may be

Op == {"push", "pop", "del", "len", "filter"}
Node == 1 .. MaxNode
Wild == MaxNode + 1   \* an address that is no node
Pointer == 0 .. Wild

ASSUME CallsAssumption == Calls \in [Thread -> SUBSET Op]
ASSUME NodeAssumption == MaxNode \in Nat
ASSUME FreshAssumption == Fresh \subseteq {0, Wild} /\ Fresh # {}
ASSUME FreeAssumption == 0 \notin Thread

VARIABLES
    head, tail,  \* the members of mlist
    next, val,   \* the members next and m of every node
    used,        \* nodes allocated so far
    mtx,         \* the thread that holds the mutex, or 0
    that, last,  \* the local variables that and last, n1 of push, head in pop
    src,         \* the node whose element pop has copied
    del,         \* the argument of del
    got,         \* the node whose element the last pop of a thread returned
    crash,       \* "no", or why the process has ended
    pc

locals == <<that, last, src, del, got>>
vars == <<head, tail, next, val, used, mtx, locals, crash, pc>>

Init ==
    /\ head = 0 /\ tail = 0
    /\ next = [i \in Node |-> 0]
    /\ val \in [Node -> Value]
    /\ used = 0
    /\ mtx = 0
    /\ that = [t \in Thread |-> 0]
    /\ last = [t \in Thread |-> 0]
    /\ src = [t \in Thread |-> 0]
    /\ del \in [Thread -> Value]
    /\ got = [t \in Thread |-> 0]
    /\ crash = "no"
    /\ pc = [t \in Thread |-> "idle"]

Goto(t, label) == pc' = [pc EXCEPT ![t] = label]

\* The operation returns, and its local variables are gone.
Return(t) ==
    /\ Goto(t, "idle")
    /\ that' = [that EXCEPT ![t] = 0]
    /\ last' = [last EXCEPT ![t] = 0]
    /\ src' = [src EXCEPT ![t] = 0]

\* The process ends because it uses address i, which is no node.
Fault(i) ==
    /\ crash' = IF i = 0 THEN "null" ELSE "wild"
    /\ UNCHANGED <<head, tail, next, val, used, mtx, locals, pc>>

-----------------------------------------------------------------------------
(* push: lock; new _node; set head if it is null; link; set tail; unlock.  *)

PushLock(t) ==
    /\ pc[t] = "idle" /\ "push" \in Calls[t]
    /\ mtx = 0 /\ used < MaxNode
    /\ mtx' = t
    /\ used' = used + 1
    /\ that' = [that EXCEPT ![t] = used + 1]
    /\ \E f \in Fresh : next' = [next EXCEPT ![used + 1] = f]
    /\ Goto(t, "pushtest")
    /\ UNCHANGED <<head, tail, val, last, src, del, got, crash>>

PushTest(t) ==
    /\ pc[t] = "pushtest"
    /\ Goto(t, IF head = 0 THEN "pushhead" ELSE "pushlink")
    /\ UNCHANGED <<head, tail, next, val, used, mtx, locals, crash>>

PushHead(t) ==
    /\ pc[t] = "pushhead"
    /\ head' = that[t]
    /\ Goto(t, "pushlink")
    /\ UNCHANGED <<tail, next, val, used, mtx, locals, crash>>

\* next of every node once n1 is linked behind the old tail.
LinkedBackwards(n1) == [next EXCEPT ![n1] = tail]
Linked(n1) == IF tail = 0 THEN next ELSE [next EXCEPT ![tail] = n1]

\* Only holders of the mutex see tail, so the unlock is in the same step.
PushLink(t) ==
    /\ pc[t] = "pushlink"
    /\ next' = Linked(that[t])
    /\ tail' = that[t]
    /\ mtx' = 0
    /\ Return(t)
    /\ UNCHANGED <<head, val, used, del, got, crash>>

-----------------------------------------------------------------------------
(* pop, without the mutex. *)

\* if (head != nullptr)
AfterTestUntested(h) == "popvalue"
AfterTest(h) == IF h = 0 THEN "idle" ELSE "popvalue"

PopTest(t) ==
    /\ pc[t] = "idle" /\ "pop" \in Calls[t]
    /\ Goto(t, AfterTest(head))
    /\ UNCHANGED <<head, tail, next, val, used, mtx, locals, crash>>

\* m = head->m
PopValue(t) ==
    /\ pc[t] = "popvalue"
    /\ IF head \in Node
       THEN /\ src' = [src EXCEPT ![t] = head]
            /\ Goto(t, "pophead")
            /\ UNCHANGED <<head, tail, next, val, used, mtx, that, last, del, got, crash>>
       ELSE Fault(head)

\* head = head->next: the load of head ...
PopHead(t) ==
    /\ pc[t] = "pophead"
    /\ that' = [that EXCEPT ![t] = head]
    /\ Goto(t, "popnext")
    /\ UNCHANGED <<head, tail, next, val, used, mtx, last, src, del, got, crash>>

\* ... the load of next ...
PopNext(t) ==
    /\ pc[t] = "popnext"
    /\ IF that[t] \in Node
       THEN /\ last' = [last EXCEPT ![t] = next[that[t]]]
            /\ Goto(t, "popstore")
            /\ UNCHANGED <<head, tail, next, val, used, mtx, that, src, del, got, crash>>
       ELSE Fault(that[t])

\* ... and the store.
StoredAgain(t) == that[t]
Stored(t) == last[t]

PopStore(t) ==
    /\ pc[t] = "popstore"
    /\ head' = Stored(t)
    /\ got' = [got EXCEPT ![t] = src[t]]
    /\ Return(t)
    /\ UNCHANGED <<tail, next, val, used, mtx, del, crash>>

-----------------------------------------------------------------------------
(* del, len and filter: one loop over the chain, under the mutex.  What    *)
(* the callback of filter returns is its caller's affair.                  *)

WalkLabel(op) ==
    CASE op = "del" -> "deling" [] op = "len" -> "counting" [] op = "filter" -> "filtering"

WalkLock(t) ==
    /\ pc[t] = "idle"
    /\ mtx = 0
    /\ mtx' = t
    /\ that' = [that EXCEPT ![t] = head]
    /\ last' = [last EXCEPT ![t] = 0]
    /\ \E op \in Calls[t] \ {"push", "pop"} : Goto(t, WalkLabel(op))
    /\ UNCHANGED <<head, tail, next, val, used, src, del, got, crash>>

Walking == {"deling", "counting", "filtering"}

WalkEnd(t) ==
    /\ pc[t] \in Walking /\ that[t] = 0
    /\ mtx' = 0
    /\ Return(t)
    /\ UNCHANGED <<head, tail, next, val, used, del, got, crash>>

\* Whether del or filter takes out the node i that thread t is at.
Hits(t, i) ==
    CASE pc[t] = "deling"    -> {val[i] = del[t]}
      [] pc[t] = "counting"  -> {FALSE}
      [] pc[t] = "filtering" -> BOOLEAN

\* last->next = that->next, unless that is the first node: head stays.
Unlinked(t) ==
    IF last[t] = 0 THEN next ELSE [next EXCEPT ![last[t]] = next[that[t]]]

\* that = that->next, with hit and without
OnwardsIfKept(t, hit) == IF hit THEN that[t] ELSE next[that[t]]
Onwards(t, hit) == next[that[t]]

WalkStep(t) ==
    /\ pc[t] \in Walking /\ that[t] # 0
    /\ IF that[t] \in Node
       THEN \E hit \in Hits(t, that[t]) :
            /\ next' = IF hit THEN Unlinked(t) ELSE next
            /\ last' = IF hit THEN last ELSE [last EXCEPT ![t] = that[t]]
            /\ that' = [that EXCEPT ![t] = Onwards(t, hit)]
            /\ UNCHANGED <<head, tail, val, used, mtx, src, del, got, crash, pc>>
       ELSE Fault(that[t])

-----------------------------------------------------------------------------
Push(t) == PushLock(t) \/ PushTest(t) \/ PushHead(t) \/ PushLink(t)

Pop(t) == PopTest(t) \/ PopValue(t) \/ PopHead(t) \/ PopNext(t) \/ PopStore(t)

Walk(t) == WalkLock(t) \/ WalkEnd(t) \/ WalkStep(t)

Next == crash = "no" /\ \E t \in Thread : Push(t) \/ Pop(t) \/ Walk(t)

Spec == Init /\ [][Next]_vars

\* A call that has begun, and has its mutex if it needs one, goes on.
Proceed(t) == crash = "no" /\ pc[t] # "idle" /\ (Push(t) \/ Pop(t) \/ Walk(t))

FairSpec == Spec /\ \A t \in Thread : WF_vars(Proceed(t))

-----------------------------------------------------------------------------
(* Properties. *)

Label == {"idle", "pushtest", "pushhead", "pushlink", "popvalue", "pophead",
          "popnext", "popstore"} \cup Walking

TypeOK ==
    /\ head \in Pointer
    /\ tail \in 0 .. MaxNode
    /\ next \in [Node -> Pointer]
    /\ val \in [Node -> Value]
    /\ used \in 0 .. MaxNode
    /\ mtx \in Thread \cup {0}
    /\ that \in [Thread -> Pointer]
    /\ last \in [Thread -> Pointer]
    /\ src \in [Thread -> 0 .. MaxNode]
    /\ del \in [Thread -> Value]
    /\ got \in [Thread -> 0 .. MaxNode]
    /\ crash \in {"no", "null", "wild"}
    /\ pc \in [Thread -> Label]

\* The next of a node is null, no node, or a later node, however many pops
\* overlap each other and the locked operations: the chain has no cycle, and
\* the loops of del, len and filter come to its end.
Forward == \A i \in Node : next[i] = 0 \/ next[i] > i

\* Every locked operation gives the mutex back, and every pop returns.
CallsReturn == \A t \in Thread : pc[t] # "idle" ~> (pc[t] = "idle" \/ crash # "no")

Poppers == {t \in Thread : "pop" \in Calls[t]}

SolePopper == \A s, t \in Poppers : s = t

\* With one thread that pops, pop never uses a null head although it tests it
\* in another access than it uses it in.
NoNullHead == SolePopper => crash # "null"

\* With one thread that pops, the element it returns is that of the node it
\* removes, and the nodes it removes come in the order of push, none twice,
\* whatever push, del and filter do meanwhile.
InOrder ==
    SolePopper => \A t \in Thread :
        pc[t] = "popstore" => src[t] = that[t] /\ got[t] < src[t]
=============================================================================
