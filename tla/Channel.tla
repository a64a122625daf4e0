------------------------------ MODULE Channel ------------------------------
(***************************************************************************)
(* channel<DATA> of channel.h: threads that write to it and threads that   *)
(* read from it, as in channel.cpp, with one mutex and one condition       *)
(* variable for both.  operator<< and operator>> hold the mutex except     *)
(* while they wait, so each turn of their waiting loops is one step.       *)
(*                                                                         *)
(* The constructor of _node leaves next as new finds it, and the last node *)
(* that is read gives its next to head: Fresh says what that may be.  To   *)
(* read from an address that is no node ends the process.                  *)
(***************************************************************************)
EXTENDS Integers, Sequences

CONSTANTS
    Writer, Reader,  \* threads that call << and those that call >>
    Load,            \* how many items each writer writes
    MaxLen,          \* max_len
    Fresh            \* what next of a new node may be

Wild == -1  \* an address that is no node

ASSUME FreshAssumption == Fresh \subseteq {0, Wild} /\ Fresh # {}
ASSUME LoadAssumption == Load \in Nat
ASSUME MaxLenAssumption == MaxLen \in Int
ASSUME ThreadAssumption == Writer \cap Reader = {}

Thread == Writer \cup Reader

\* The k-th last item of a writer.
Item == Writer \X (1 .. Load)

VARIABLES
    log,     \* the items of all nodes in the order of <<; node i is followed by node i + 1
    head,    \* a node, 0 for nullptr, or Wild; tail is the last node of log
    last,    \* next of that node
    idx,     \* idx
    mode,    \* whether a thread waits on cond, or was notified there
    left,    \* items a writer still has to write
    result,  \* what >> has stored in its arguments, in that order
    crashed  \* whether the process has ended

list == <<log, head, last, idx>>
vars == <<list, mode, left, result, crashed>>

Init ==
    /\ log = << >> /\ head = 0 /\ last = 0
    /\ idx = 0
    /\ mode = [t \in Thread |-> "out"]
    /\ left = [t \in Writer |-> Load]
    /\ result = << >>
    /\ crashed = FALSE

\* The predicates of the two waits.
CanWriteOneMore == idx <= MaxLen \/ idx = 0
CanWrite == idx < MaxLen \/ idx = 0
CanRead == idx > 0

\* Thread t goes to sleep on cond.
Sleep(t) ==
    /\ mode' = [mode EXCEPT ![t] = "waiting"]
    /\ UNCHANGED <<list, left, result, crashed>>

Sleepers == {t \in Thread : mode[t] = "waiting"}

\* Those that notify_one by thread t may choose.
Notified(t) == Sleepers

\* cond.notify_one() and return.
NotifyAndReturn(t) ==
    IF Notified(t) = {}
    THEN mode' = [mode EXCEPT ![t] = "out"]
    ELSE \E s \in Notified(t) : mode' = [mode EXCEPT ![s] = "woken", ![t] = "out"]

\* operator<<
Write(t) ==
    /\ mode[t] # "waiting" /\ left[t] > 0
    /\ IF CanWrite
       THEN /\ log' = Append(log, <<t, left[t]>>)
            /\ head' = IF head = 0 THEN Len(log) + 1 ELSE head
            /\ last' \in Fresh
            /\ idx' = idx + 1
            /\ left' = [left EXCEPT ![t] = @ - 1]
            /\ NotifyAndReturn(t)
            /\ UNCHANGED <<result, crashed>>
       ELSE Sleep(t)

\* operator>>, of which the assignment to head and the decrement of idx depend
\* on head and not on idx.
TakenKeepingIdx == idx
Taken == IF head = 0 THEN idx ELSE idx - 1

TakeHead ==
    IF head = 0
    THEN UNCHANGED <<head, result>>
    ELSE /\ result' = Append(result, log[head])
         /\ head' = IF head = Len(log) THEN last ELSE head + 1

Fault ==
    /\ crashed' = TRUE
    /\ UNCHANGED <<list, mode, left, result>>

Read(t) ==
    /\ mode[t] # "waiting"
    /\ \/ ~ CanRead /\ Sleep(t)
       \/ CanRead /\ head = Wild /\ Fault
       \/ /\ CanRead /\ head # Wild
          /\ TakeHead
          /\ idx' = Taken
          /\ NotifyAndReturn(t)
          /\ UNCHANGED <<log, last, left, crashed>>

\* condition_variable::wait may return without a notification.
Spurious(t) ==
    /\ mode[t] = "waiting"
    /\ mode' = [mode EXCEPT ![t] = "woken"]
    /\ UNCHANGED <<list, left, result, crashed>>

Next ==
    \/ /\ ~ crashed
       /\ \/ \E t \in Writer : Write(t)
          \/ \E t \in Reader : Read(t)
          \/ \E t \in Thread : Spurious(t)
    \/ crashed /\ UNCHANGED vars

Spec == Init /\ [][Next]_vars

\* The kernel runs every thread that is not waiting; readers read for ever.
FairSpec ==
    /\ Spec
    /\ \A t \in Writer : WF_vars(~ crashed /\ Write(t))
    /\ \A t \in Reader : WF_vars(~ crashed /\ Read(t))

-----------------------------------------------------------------------------
(* Properties. *)

Cap == IF MaxLen < 1 THEN 1 ELSE MaxLen

\* The last idx items, those that no reader has been given.
Unread == SubSeq(log, Len(log) - idx + 1, Len(log))

Fifo == INSTANCE BoundedFifo WITH items <- Unread, out <- result

\* The channel is a first-in first-out queue bounded by max_len, although the
\* waits look at idx and the transfers at head.  If a wild next gets into head the
\* process ends before anything is handed out in a wrong order.
IsFifo == Fifo!Spec

\* Everything is written and read in the end, if the process does not end, although
\* notify_one may wake a writer when a reader could go on, and the other way round.
\* It takes at most two threads for every place of the channel: channel.cpp has four
\* for eight places.
AllRead == <>[](crashed \/ (idx = 0 /\ \A t \in Writer : left[t] = 0))

\* The readers of channel.cpp go on for ever, on a channel that is empty most of the
\* time: << and >> keep to nodes of the list.  A wild next breaks it, so no run claims it.
NoFault == ~ crashed
=============================================================================
