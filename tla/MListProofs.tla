---------------------------- MODULE MListProofs ----------------------------
(***************************************************************************)
(* The chain of an mlist never turns back, and what one popping thread may *)
(* rely on, for every number of threads and nodes.                         *)
(***************************************************************************)
EXTENDS MList, TLAPS

Pushing == {"pushtest", "pushhead", "pushlink"}

\* A thread inside a locked operation has the mutex, the node being pushed is
\* the newest one, and a walk is at a node after the last one it kept.
ChainInv ==
    /\ TypeOK
    /\ Forward
    /\ tail <= used
    /\ \A t \in Thread :
          /\ pc[t] \in Pushing \cup Walking => mtx = t
          /\ pc[t] \in Pushing => that[t] = used /\ tail < used
          /\ pc[t] \in Walking => last[t] = 0 \/ that[t] = 0 \/ last[t] < that[t]
          /\ pc[t] \in Walking => last[t] \in 0 .. MaxNode

USE DEF Op, Node, Wild, Pointer, Label, Walking, Pushing

LEMMA ChainInit == Init => ChainInv
  <1> SUFFICES ASSUME Init PROVE ChainInv
    OBVIOUS
  <1>1. TypeOK
    BY NodeAssumption DEF Init, TypeOK
  <1>2. Forward
    BY NodeAssumption DEF Init, Forward
  <1> QED
    BY <1>1, <1>2, NodeAssumption DEF Init, ChainInv

\* The part of ChainInv about a thread that stands still.
LEMMA PushKeepsChain ==
  ASSUME ChainInv, NEW t \in Thread, Push(t)
  PROVE  ChainInv'
  <1>1. CASE PushLock(t)
    <2>1. PICK f \in Fresh : next' = [next EXCEPT ![used + 1] = f]
      BY <1>1 DEF PushLock
    <2>2. f \in {0, Wild}
      BY FreshAssumption
    <2>a. used + 1 \in Node /\ used \in 0 .. MaxNode /\ used + 1 \in Pointer
      BY <1>1, NodeAssumption DEF PushLock, ChainInv, TypeOK
    <2>b. next' \in [Node -> Pointer] /\ that' \in [Thread -> Pointer]
      BY <1>1, <2>1, <2>2, <2>a, NodeAssumption DEF PushLock, ChainInv, TypeOK
    <2>c. /\ pc' \in [Thread -> Label] /\ pc'[t] = "pushtest"
          /\ \A s \in Thread \ {t} : pc'[s] = pc[s] /\ that'[s] = that[s]
      BY <1>1 DEF PushLock, Goto, ChainInv, TypeOK
    <2>d. /\ UNCHANGED <<head, tail, val, last, src, del, got, crash>>
          /\ mtx' \in Thread /\ used' \in 0 .. MaxNode
      BY <1>1, <2>a DEF PushLock
    <2>e. TypeOK
      BY DEF ChainInv
    <2>3. TypeOK'
      BY <2>b, <2>c, <2>d, <2>e DEF TypeOK
    <2>4. Forward'
      BY <1>1, <2>1, <2>2, NodeAssumption DEF PushLock, ChainInv, TypeOK, Forward
    <2>5. \A s \in Thread \ {t} : pc[s] \notin Pushing \cup Walking
      BY <1>1, FreeAssumption DEF PushLock, ChainInv, TypeOK
    <2>6. that'[t] = used' /\ tail' < used' /\ tail' <= used' /\ mtx' = t /\ pc'[t] \notin Walking
      BY <1>1, <2>a, <2>c, NodeAssumption DEF PushLock, ChainInv, TypeOK
    <2> QED
      BY <2>c, <2>3, <2>4, <2>5, <2>6 DEF ChainInv
  <1>2. CASE PushTest(t)
    <2>1. TypeOK'
      BY <1>2 DEF PushTest, Goto, locals, ChainInv, TypeOK
    <2> QED
      BY <1>2, <2>1, NodeAssumption DEF PushTest, Goto, locals, ChainInv, TypeOK, Forward
  <1>3. CASE PushHead(t)
    <2>1. TypeOK'
      BY <1>3 DEF PushHead, Goto, locals, ChainInv, TypeOK
    <2> QED
      BY <1>3, <2>1, NodeAssumption, SMTT(30) DEF PushHead, Goto, locals, ChainInv, TypeOK, Forward
  <1>4. CASE PushLink(t)
    <2>0. that[t] = used /\ used \in Node /\ tail < used /\ tail \in 0 .. MaxNode
      BY <1>4, NodeAssumption DEF PushLink, ChainInv, TypeOK
    <2>a. /\ pc' \in [Thread -> Label] /\ pc'[t] = "idle"
          /\ that' \in [Thread -> Pointer] /\ last' \in [Thread -> Pointer]
          /\ src' \in [Thread -> 0 .. MaxNode]
          /\ \A s \in Thread \ {t} : pc'[s] = pc[s] /\ that'[s] = that[s] /\ last'[s] = last[s]
      BY <1>4, NodeAssumption DEF PushLink, Return, Goto, ChainInv, TypeOK
    <2>b. next' \in [Node -> Pointer]
      BY <1>4, <2>0, NodeAssumption DEF PushLink, Linked, ChainInv, TypeOK
    <2>1. TypeOK'
      BY <1>4, <2>0, <2>a, <2>b, NodeAssumption DEF PushLink, ChainInv, TypeOK
    <2>2. Forward'
      BY <1>4, <2>0, NodeAssumption DEF PushLink, Linked, ChainInv, TypeOK, Forward
    <2>5. \A s \in Thread \ {t} : pc[s] \notin Pushing \cup Walking
      BY <1>4, FreeAssumption DEF PushLink, ChainInv, TypeOK
    <2>6. tail' <= used'
      BY <1>4, <2>0, NodeAssumption DEF PushLink
    <2> QED
      BY <2>a, <2>1, <2>2, <2>5, <2>6 DEF ChainInv
  <1> QED
    BY <1>1, <1>2, <1>3, <1>4 DEF Push

LEMMA PopKeepsChain ==
  ASSUME ChainInv, NEW t \in Thread, Pop(t)
  PROVE  ChainInv'
  <1>1. TypeOK'
    <2>1. CASE PopTest(t)
      BY <2>1 DEF PopTest, AfterTest, Goto, locals, ChainInv, TypeOK
    <2>2. CASE PopValue(t)
      <3>1. CASE head \in Node
        <4>1. /\ src' = [src EXCEPT ![t] = head] /\ pc' = [pc EXCEPT ![t] = "pophead"]
              /\ UNCHANGED <<head, tail, next, val, used, mtx, that, last, del, got, crash>>
          BY <2>2, <3>1 DEF PopValue, Goto
        <4> QED
          BY <3>1, <4>1, NodeAssumption, SMTT(30) DEF ChainInv, TypeOK
      <3>2. CASE head \notin Node
        BY <2>2, <3>2 DEF PopValue, Fault, locals, ChainInv, TypeOK
      <3> QED
        BY <3>1, <3>2
    <2>3. CASE PopHead(t)
      BY <2>3 DEF PopHead, Goto, ChainInv, TypeOK
    <2>4. CASE PopNext(t)
      <3>1. CASE that[t] \in Node
        <4>1. /\ last' = [last EXCEPT ![t] = next[that[t]]] /\ pc' = [pc EXCEPT ![t] = "popstore"]
              /\ UNCHANGED <<head, tail, next, val, used, mtx, that, src, del, got, crash>>
          BY <2>4, <3>1 DEF PopNext, Goto
        <4> QED
          BY <3>1, <4>1, NodeAssumption DEF ChainInv, TypeOK
      <3>2. CASE that[t] \notin Node
        BY <2>4, <3>2 DEF PopNext, Fault, locals, ChainInv, TypeOK
      <3> QED
        BY <3>1, <3>2
    <2>5. CASE PopStore(t)
      BY <2>5, NodeAssumption, SMTT(30) DEF PopStore, Stored, Return, Goto, ChainInv, TypeOK
    <2> QED
      BY <2>1, <2>2, <2>3, <2>4, <2>5 DEF Pop
  <1>2. /\ next' = next /\ tail' = tail /\ used' = used /\ mtx' = mtx
        /\ pc[t] \notin Pushing \cup Walking /\ pc'[t] \notin Pushing \cup Walking
        /\ \A s \in Thread \ {t} : pc'[s] = pc[s] /\ that'[s] = that[s] /\ last'[s] = last[s]
    BY SMTT(30) DEF Pop, PopTest, PopValue, PopHead, PopNext, PopStore, AfterTest, Fault,
           Return, Goto, locals, ChainInv, TypeOK
  <1>3. Forward'
    BY <1>2 DEF ChainInv, Forward
  <1> QED
    BY <1>1, <1>2, <1>3 DEF ChainInv

LEMMA WalkKeepsChain ==
  ASSUME ChainInv, NEW t \in Thread, Walk(t)
  PROVE  ChainInv'
  <1>1. CASE WalkLock(t)
    <2>1. PICK op \in Calls[t] \ {"push", "pop"} : Goto(t, WalkLabel(op))
      BY <1>1 DEF WalkLock
    <2>2. WalkLabel(op) \in Walking
      BY CallsAssumption DEF WalkLabel
    <2>a. /\ pc' \in [Thread -> Label] /\ pc'[t] \in Walking
          /\ that' \in [Thread -> Pointer]
          /\ last' \in [Thread -> Pointer] /\ last'[t] = 0
          /\ \A s \in Thread \ {t} : pc'[s] = pc[s] /\ that'[s] = that[s] /\ last'[s] = last[s]
      BY <1>1, <2>1, <2>2, NodeAssumption DEF WalkLock, Goto, ChainInv, TypeOK
    <2>3. TypeOK'
      BY <1>1, <2>a, NodeAssumption DEF WalkLock, ChainInv, TypeOK
    <2>4. Forward'
      BY <1>1 DEF WalkLock, ChainInv, Forward
    <2>5. \A s \in Thread \ {t} : pc[s] \notin Pushing \cup Walking
      BY <1>1, FreeAssumption DEF WalkLock, ChainInv, TypeOK
    <2>6. last'[t] \in 0 .. MaxNode /\ mtx' = t /\ tail' <= used'
      BY <1>1, <2>a, NodeAssumption DEF WalkLock, ChainInv
    <2> QED
      BY <2>a, <2>3, <2>4, <2>5, <2>6 DEF ChainInv
  <1>2. CASE WalkEnd(t)
    <2>1. TypeOK'
      BY <1>2, NodeAssumption DEF WalkEnd, Return, Goto, ChainInv, TypeOK
    <2> QED
      BY <1>2, <2>1, NodeAssumption, FreeAssumption, SMTT(30) DEF WalkEnd, Return, Goto, ChainInv, TypeOK, Forward
  <1>3. CASE WalkStep(t) /\ that[t] \notin Node
    <2>1. TypeOK'
      BY <1>3 DEF WalkStep, Fault, locals, ChainInv, TypeOK
    <2> QED
      BY <1>3, <2>1 DEF WalkStep, Fault, locals, ChainInv, Forward
  <1>4. CASE WalkStep(t) /\ that[t] \in Node
    <2>1. PICK hit \in Hits(t, that[t]) :
            /\ next' = IF hit THEN Unlinked(t) ELSE next
            /\ last' = IF hit THEN last ELSE [last EXCEPT ![t] = that[t]]
            /\ that' = [that EXCEPT ![t] = next[that[t]]]
            /\ UNCHANGED <<head, tail, val, used, mtx, src, del, got, crash, pc>>
      BY <1>4 DEF WalkStep, Onwards
    <2>2. /\ pc[t] \in Walking /\ last[t] \in 0 .. MaxNode
          /\ last[t] = 0 \/ last[t] < that[t]
          /\ next[that[t]] \in Pointer
          /\ next[that[t]] = 0 \/ next[that[t]] > that[t]
      BY <1>4, NodeAssumption DEF WalkStep, ChainInv, TypeOK, Forward
    <2>3. next' \in [Node -> Pointer]
      BY <2>1, <2>2 DEF Unlinked, ChainInv, TypeOK
    <2>4. TypeOK'
      BY <1>4, <2>1, <2>2, <2>3 DEF ChainInv, TypeOK
    <2>5. Forward'
      BY <1>4, <2>1, <2>2, NodeAssumption DEF Unlinked, ChainInv, TypeOK, Forward
    <2>6. last'[t] \in 0 .. MaxNode /\ (last'[t] = 0 \/ that'[t] = 0 \/ last'[t] < that'[t])
      BY <1>4, <2>1, <2>2, NodeAssumption DEF ChainInv, TypeOK
    <2>7. \A s \in Thread \ {t} : that'[s] = that[s] /\ last'[s] = last[s]
      BY <2>1 DEF ChainInv, TypeOK
    <2> QED
      BY <2>1, <2>2, <2>4, <2>5, <2>6, <2>7, FreeAssumption DEF ChainInv, TypeOK
  <1> QED
    BY <1>1, <1>2, <1>3, <1>4 DEF Walk

LEMMA ChainNext == ChainInv /\ [Next]_vars => ChainInv'
  <1> SUFFICES ASSUME ChainInv, [Next]_vars PROVE ChainInv'
    OBVIOUS
  <1>1. CASE UNCHANGED vars
    BY <1>1 DEF vars, locals, ChainInv, TypeOK, Forward
  <1>2. CASE Next
    BY <1>2, PushKeepsChain, PopKeepsChain, WalkKeepsChain DEF Next
  <1> QED
    BY <1>1, <1>2

LEMMA ChainAlways == Spec => []ChainInv
  BY ChainInit, ChainNext, PTL DEF Spec

\* mlist.h: no interleaving of pushes, unlocked pops, dels and filters ever
\* closes the chain to a cycle.
THEOREM AlwaysForward == Spec => []Forward
  <1>1. ChainInv => Forward
    BY DEF ChainInv
  <1> QED
    BY <1>1, ChainAlways, PTL

-----------------------------------------------------------------------------
(* One popping thread. *)

\* The newest node that can be on the chain: a node being pushed is not, until
\* it is linked or becomes head.
Linking == \E t \in Thread : pc[t] \in {"pushtest", "pushhead"}
Limit == IF Linking THEN used - 1 ELSE used
Reach == 0 .. Limit \cup {Wild}

Middle == {"popvalue", "pophead", "popnext", "popstore"}

\* Between its test and its store the popping thread is alone in changing head,
\* because a push that changes it has seen null there.
SoleAt(t) ==
    /\ pc[t] = "pushhead" => head = 0
    /\ pc[t] \in Middle => head # 0 /\ t \in Poppers
    /\ pc[t] \in {"pophead", "popnext", "popstore"} => src[t] = head /\ head \in Node
    /\ pc[t] \in {"popnext", "popstore"} => that[t] = head
    /\ pc[t] = "popstore" => last[t] \in Reach /\ (last[t] = 0 \/ last[t] > head)
    /\ t \notin Poppers => got[t] = 0
    /\ head # 0 => got[t] < head
    /\ got[t] \in 0 .. Limit

SoleInv ==
    /\ ChainInv
    /\ crash # "null"
    /\ head \in Reach
    /\ \A i \in Node : next[i] \in Reach
    /\ \A t \in Thread : SoleAt(t)

USE DEF Middle

LEMMA SoleInit == Init => SoleInv
  <1> SUFFICES ASSUME Init PROVE SoleInv
    OBVIOUS
  <1>1. ChainInv
    BY ChainInit
  <1>2. Limit = 0
    BY DEF Init, Limit, Linking
  <1> QED
    BY <1>1, <1>2, NodeAssumption DEF Init, SoleInv, SoleAt, Reach

\* While one thread has the mutex, or none, no other is in a locked operation.
LEMMA OnlyHolder ==
  ASSUME ChainInv, NEW t \in Thread, mtx \in {0, t}
  PROVE  \A s \in Thread \ {t} : pc[s] \notin Pushing \cup Walking
  BY FreeAssumption DEF ChainInv

LEMMA LimitType == ChainInv => Limit \in -1 .. used /\ used \in 0 .. MaxNode
  BY NodeAssumption DEF ChainInv, TypeOK, Limit

LEMMA PushKeepsSole ==
  ASSUME SolePopper, SoleInv, NEW t \in Thread, Push(t)
  PROVE  SoleInv'
  <1>0. ChainInv' /\ ChainInv
    BY PushKeepsChain DEF SoleInv
  <1>1. CASE PushLock(t)
    <2>1. PICK f \in Fresh : next' = [next EXCEPT ![used + 1] = f]
      BY <1>1 DEF PushLock
    <2>2. f \in {0, Wild}
      BY FreshAssumption
    <2>3. /\ used + 1 \in Node /\ used \in 0 .. MaxNode /\ used' = used + 1
          /\ pc[t] = "idle" /\ pc'[t] = "pushtest"
          /\ that'[t] = used + 1
          /\ \A s \in Thread \ {t} : pc'[s] = pc[s] /\ that'[s] = that[s]
          /\ UNCHANGED <<head, last, src, got, crash>>
      BY <1>0, <1>1, NodeAssumption DEF PushLock, Goto, ChainInv, TypeOK
    <2>4. Linking' /\ ~ Linking
      BY <1>0, <1>1, <2>3, OnlyHolder DEF PushLock, Linking
    <2>5. Limit' = Limit /\ Reach' = Reach
      BY <2>3, <2>4, NodeAssumption DEF Limit, Reach
    <2>6. \A i \in Node : next'[i] \in Reach
      BY <1>0, <2>1, <2>2, <2>3, <2>4 DEF SoleInv, ChainInv, TypeOK, Reach, Limit
    <2>7. ASSUME NEW s \in Thread PROVE SoleAt(s)'
      BY <2>3, <2>5 DEF SoleInv, SoleAt
    <2> QED
      BY <1>0, <2>3, <2>5, <2>6, <2>7 DEF SoleInv
  <1>2. CASE PushTest(t)
    <2>1. /\ pc[t] = "pushtest" /\ pc'[t] = IF head = 0 THEN "pushhead" ELSE "pushlink"
          /\ \A s \in Thread \ {t} : pc'[s] = pc[s]
          /\ UNCHANGED <<head, next, used, that, last, src, got, crash>>
      BY <1>0, <1>2 DEF PushTest, Goto, locals, ChainInv, TypeOK
    <2>2. Limit' \in Int /\ Limit \in Int /\ Limit <= Limit'
      BY <1>0, <2>1, LimitType DEF Limit, Linking
    <2>3. Reach \subseteq Reach'
      BY <2>2, NodeAssumption DEF Reach
    <2>4. ASSUME NEW s \in Thread PROVE SoleAt(s)'
      BY <2>1, <2>2, <2>3 DEF SoleInv, SoleAt
    <2> QED
      BY <1>0, <2>1, <2>3, <2>4 DEF SoleInv
  <1>3. CASE PushHead(t)
    <2>1. /\ pc[t] = "pushhead" /\ pc'[t] = "pushlink" /\ head' = used
          /\ \A s \in Thread \ {t} : pc'[s] = pc[s]
          /\ UNCHANGED <<next, used, that, last, src, got, crash>>
      BY <1>0, <1>3 DEF PushHead, Goto, locals, ChainInv, TypeOK
    <2>2. head = 0
      BY <2>1 DEF SoleInv, SoleAt
    <2>3. used \in 0 .. MaxNode /\ Limit = used - 1
      BY <1>0, <2>1 DEF Limit, Linking, ChainInv, TypeOK
    <2>4. ~ Linking'
      BY <1>0, <1>3, <2>1, OnlyHolder DEF Linking, PushHead, ChainInv
    <2>5. Limit' = used
      BY <2>1, <2>4 DEF Limit
    <2>6. Reach \subseteq Reach' /\ used \in Reach'
      BY <2>3, <2>5, NodeAssumption DEF Reach
    <2>7. ASSUME NEW s \in Thread PROVE SoleAt(s)'
      <3>1. pc[s] \notin Middle /\ got[s] \in 0 .. used - 1
        BY <2>2, <2>3 DEF SoleInv, SoleAt
      <3>2. pc'[s] \notin Middle /\ pc'[s] # "pushhead"
        BY <2>1, <2>4, <3>1 DEF Linking
      <3> QED
        BY <2>1, <2>3, <2>5, <3>1, <3>2 DEF SoleInv, SoleAt
    <2> QED
      BY <1>0, <2>1, <2>6, <2>7 DEF SoleInv
  <1>4. CASE PushLink(t)
    <2>1. /\ pc[t] = "pushlink" /\ pc'[t] = "idle" /\ next' = Linked(used)
          /\ \A s \in Thread \ {t} : /\ pc'[s] = pc[s] /\ that'[s] = that[s]
                                     /\ last'[s] = last[s] /\ src'[s] = src[s]
          /\ UNCHANGED <<head, used, got, crash>>
      BY <1>0, <1>4 DEF PushLink, Return, Goto, ChainInv, TypeOK
    <2>2. ~ Linking /\ ~ Linking'
      BY <1>0, <1>4, <2>1, OnlyHolder DEF Linking, PushLink, ChainInv
    <2>3. used \in 0 .. MaxNode /\ Limit = used /\ Limit' = used /\ Reach' = Reach
      BY <1>0, <2>1, <2>2 DEF Limit, Reach, ChainInv, TypeOK
    <2>4. \A i \in Node : next'[i] \in Reach
      BY <1>0, <2>1, <2>3, NodeAssumption DEF Linked, SoleInv, Reach, ChainInv, TypeOK
    <2>5. ASSUME NEW s \in Thread PROVE SoleAt(s)'
      BY <2>1, <2>3 DEF SoleInv, SoleAt
    <2> QED
      BY <1>0, <2>1, <2>3, <2>4, <2>5 DEF SoleInv
  <1> QED
    BY <1>1, <1>2, <1>3, <1>4 DEF Push

LEMMA PopKeepsSole ==
  ASSUME SolePopper, SoleInv, NEW t \in Thread, Pop(t)
  PROVE  SoleInv'
  <1>0. ChainInv' /\ ChainInv
    BY PopKeepsChain DEF SoleInv
  <1>1. /\ UNCHANGED <<next, used>>
        /\ pc[t] \notin Pushing /\ pc'[t] \notin Pushing
        /\ \A s \in Thread \ {t} : /\ pc'[s] = pc[s] /\ that'[s] = that[s] /\ src'[s] = src[s]
                                   /\ last'[s] = last[s] /\ got'[s] = got[s]
    <2>1. CASE PopTest(t)
      BY <1>0, <2>1 DEF PopTest, AfterTest, Goto, locals, ChainInv, TypeOK
    <2>2. CASE PopValue(t)
      <3>1. CASE head \in Node
        BY <1>0, <2>2, <3>1 DEF PopValue, Goto, ChainInv, TypeOK
      <3>2. CASE head \notin Node
        BY <1>0, <2>2, <3>2 DEF PopValue, Fault, locals, ChainInv, TypeOK
      <3> QED
        BY <3>1, <3>2
    <2>3. CASE PopHead(t)
      BY <1>0, <2>3 DEF PopHead, Goto, ChainInv, TypeOK
    <2>4. CASE PopNext(t)
      <3>1. CASE that[t] \in Node
        BY <1>0, <2>4, <3>1 DEF PopNext, Goto, ChainInv, TypeOK
      <3>2. CASE that[t] \notin Node
        BY <1>0, <2>4, <3>2 DEF PopNext, Fault, locals, ChainInv, TypeOK
      <3> QED
        BY <3>1, <3>2
    <2>5. CASE PopStore(t)
      BY <1>0, <2>5 DEF PopStore, Return, Goto, ChainInv, TypeOK
    <2> QED
      BY <2>1, <2>2, <2>3, <2>4, <2>5 DEF Pop
  <1>2. Linking' <=> Linking
    BY <1>1 DEF Linking
  <1>3. Limit' = Limit /\ Reach' = Reach
    BY <1>1, <1>2 DEF Limit, Reach
  <1>4. \A s \in Thread \ {t} : pc[s] \notin Middle \/ pc[t] \notin Middle
    BY DEF SolePopper, SoleInv, SoleAt
  <1>5. CASE PopTest(t)
    <2>1. /\ pc'[t] \in {"idle", "popvalue"} /\ (head = 0 => pc'[t] = "idle")
          /\ t \in Poppers
          /\ UNCHANGED <<head, that, src, last, got, crash>>
      BY <1>0, <1>5 DEF PopTest, AfterTest, Goto, locals, ChainInv, TypeOK, Poppers
    <2>2. SoleAt(t)'
      BY <1>3, <2>1 DEF SoleInv, SoleAt
    <2>3. ASSUME NEW s \in Thread \ {t} PROVE SoleAt(s)'
      BY <1>1, <1>3, <2>1 DEF SoleInv, SoleAt
    <2> QED
      BY <1>0, <1>1, <1>3, <2>1, <2>2, <2>3 DEF SoleInv
  <1>6. CASE PopValue(t)
    <2>1. CASE head \in Node
      <3>1. /\ pc[t] = "popvalue" /\ pc'[t] = "pophead" /\ src'[t] = head
            /\ UNCHANGED <<head, that, last, got, crash>>
        BY <1>0, <1>6, <2>1 DEF PopValue, Goto, ChainInv, TypeOK
      <3>2. SoleAt(t)'
        BY <1>3, <2>1, <3>1 DEF SoleInv, SoleAt
      <3>3. ASSUME NEW s \in Thread \ {t} PROVE SoleAt(s)'
        BY <1>1, <1>3, <3>1 DEF SoleInv, SoleAt
      <3> QED
        BY <1>0, <1>1, <1>3, <3>1, <3>2, <3>3 DEF SoleInv
    <2>2. CASE head \notin Node
      <3>1. head # 0
        BY <1>6 DEF PopValue, SoleInv, SoleAt
      <3>2. crash' = "wild" /\ UNCHANGED <<head, that, src, last, got, pc>>
        BY <1>6, <2>2, <3>1 DEF PopValue, Fault, locals
      <3> QED
        BY <1>0, <1>1, <1>3, <3>2 DEF SoleInv, SoleAt
    <2> QED
      BY <2>1, <2>2
  <1>7. CASE PopHead(t)
    <2>1. /\ pc[t] = "pophead" /\ pc'[t] = "popnext" /\ that'[t] = head
          /\ UNCHANGED <<head, src, last, got, crash>>
      BY <1>0, <1>7 DEF PopHead, Goto, ChainInv, TypeOK
    <2>2. SoleAt(t)'
      BY <1>3, <2>1 DEF SoleInv, SoleAt
    <2>3. ASSUME NEW s \in Thread \ {t} PROVE SoleAt(s)'
      BY <1>1, <1>3, <2>1 DEF SoleInv, SoleAt
    <2> QED
      BY <1>0, <1>1, <1>3, <2>1, <2>2, <2>3 DEF SoleInv
  <1>8. CASE PopNext(t)
    <2>1. pc[t] = "popnext" /\ that[t] = head /\ head \in Node
      BY <1>8 DEF PopNext, SoleInv, SoleAt
    <2>2. /\ pc'[t] = "popstore" /\ last'[t] = next[head]
          /\ UNCHANGED <<head, that, src, got, crash>>
      BY <1>0, <1>8, <2>1 DEF PopNext, Goto, ChainInv, TypeOK
    <2>3. next[head] \in Reach /\ (next[head] = 0 \/ next[head] > head)
      BY <1>0, <2>1 DEF SoleInv, ChainInv, Forward
    <2>4. SoleAt(t)'
      BY <1>3, <2>1, <2>2, <2>3 DEF SoleInv, SoleAt
    <2>5. ASSUME NEW s \in Thread \ {t} PROVE SoleAt(s)'
      BY <1>1, <1>3, <2>2 DEF SoleInv, SoleAt
    <2> QED
      BY <1>0, <1>1, <1>3, <2>2, <2>4, <2>5 DEF SoleInv
  <1>9. CASE PopStore(t)
    <2>1. /\ pc[t] = "popstore" /\ t \in Poppers /\ src[t] = head /\ head \in Node
          /\ last[t] \in Reach /\ (last[t] = 0 \/ last[t] > head)
      BY <1>9 DEF PopStore, SoleInv, SoleAt
    <2>2. /\ pc'[t] = "idle" /\ head' = last[t] /\ got'[t] = head /\ crash' = crash
      BY <1>0, <1>9, <2>1 DEF PopStore, Stored, Return, Goto, ChainInv, TypeOK
    <2>3. head \in 0 .. Limit
      BY <1>0, <2>1, LimitType, NodeAssumption DEF SoleInv, Reach
    <2>4. SoleAt(t)'
      BY <1>0, <1>3, <2>1, <2>2, <2>3, NodeAssumption DEF SoleInv, SoleAt
    <2>5. ASSUME NEW s \in Thread \ {t} PROVE SoleAt(s)'
      <3>1. s \notin Poppers /\ got[s] = 0 /\ pc[s] # "pushhead"
        BY <2>1 DEF SolePopper, SoleInv, SoleAt
      <3>2. last[t] \in Nat
        BY <1>0, <2>1, LimitType, NodeAssumption DEF Reach
      <3> QED
        BY <1>1, <1>3, <1>4, <2>1, <2>2, <3>1, <3>2 DEF SoleInv, SoleAt
    <2> QED
      BY <1>0, <1>1, <1>3, <2>1, <2>2, <2>4, <2>5 DEF SoleInv
  <1> QED
    BY <1>5, <1>6, <1>7, <1>8, <1>9 DEF Pop

LEMMA WalkKeepsSole ==
  ASSUME SolePopper, SoleInv, NEW t \in Thread, Walk(t)
  PROVE  SoleInv'
  <1>0. ChainInv' /\ ChainInv
    BY WalkKeepsChain DEF SoleInv
  <1>1. /\ UNCHANGED <<head, used, got>> /\ crash' # "null"
        /\ pc[t] \in Walking \cup {"idle"} /\ pc'[t] \in Walking \cup {"idle"}
        /\ \A s \in Thread \ {t} : /\ pc'[s] = pc[s] /\ that'[s] = that[s]
                                   /\ src'[s] = src[s] /\ last'[s] = last[s]
    <2>1. CASE WalkLock(t)
      <3>1. PICK op \in Calls[t] \ {"push", "pop"} : Goto(t, WalkLabel(op))
        BY <2>1 DEF WalkLock
      <3>2. WalkLabel(op) \in Walking
        BY CallsAssumption DEF WalkLabel
      <3> QED
        BY <1>0, <2>1, <3>1, <3>2 DEF WalkLock, Goto, SoleInv, ChainInv, TypeOK
    <2>2. CASE WalkEnd(t)
      BY <1>0, <2>2 DEF WalkEnd, Return, Goto, SoleInv, ChainInv, TypeOK
    <2>3. CASE WalkStep(t)
      <3>1. that[t] # 0 /\ pc[t] \in Walking
        BY <2>3 DEF WalkStep
      <3>2. CASE that[t] \in Node
        <4>1. /\ UNCHANGED <<head, used, src, got, crash, pc>>
              /\ \E x : that' = [that EXCEPT ![t] = x]
              /\ last' \in {last, [last EXCEPT ![t] = that[t]]}
          BY <2>3, <3>2 DEF WalkStep
        <4> QED
          BY <1>0, <3>1, <4>1 DEF SoleInv, ChainInv, TypeOK
      <3>3. CASE that[t] \notin Node
        BY <2>3, <3>1, <3>3 DEF WalkStep, Fault, locals
      <3> QED
        BY <3>2, <3>3
    <2> QED
      BY <2>1, <2>2, <2>3 DEF Walk
  <1>2. Linking' <=> Linking
    BY <1>1 DEF Linking
  <1>3. Limit' = Limit /\ Reach' = Reach
    BY <1>1, <1>2 DEF Limit, Reach
  <1>4. \A i \in Node : next'[i] \in Reach
    <2>1. CASE next' = next
      BY <2>1 DEF SoleInv
    <2>2. CASE next' = Unlinked(t) /\ that[t] \in Node
      BY <1>0, <2>2 DEF Unlinked, SoleInv, ChainInv, TypeOK
    <2> QED
      BY <2>1, <2>2 DEF Walk, WalkLock, WalkEnd, WalkStep, Fault
  <1>5. ASSUME NEW s \in Thread PROVE SoleAt(s)'
    BY <1>1, <1>3 DEF SoleInv, SoleAt
  <1> QED
    BY <1>0, <1>1, <1>3, <1>4, <1>5 DEF SoleInv

LEMMA SoleAlways == SolePopper => (Spec => []SoleInv)
  <1>1. SolePopper /\ SoleInv /\ [Next]_vars => SoleInv'
    <2> SUFFICES ASSUME SolePopper, SoleInv, [Next]_vars PROVE SoleInv'
      OBVIOUS
    <2>1. CASE Next
      BY <2>1, PushKeepsSole, PopKeepsSole, WalkKeepsSole DEF Next
    <2>2. CASE UNCHANGED vars
      <3>1. ChainInv'
        BY <2>2, ChainNext DEF SoleInv
      <3> QED
        BY <2>2, <3>1 DEF vars, locals, SoleInv, SoleAt, Reach, Limit, Linking
    <2> QED
      BY <2>1, <2>2
  <1> SUFFICES ASSUME SolePopper PROVE Spec => []SoleInv
    OBVIOUS
  <1>2. SoleInv /\ [Next]_vars => SoleInv'
    BY <1>1
  <1> QED
    BY <1>2, SoleInit, PTL DEF Spec

\* mlist.h:57-66: with one thread that pops, the head that pop has tested is
\* still not null when it uses it.
THEOREM AlwaysNoNullHead == Spec => []NoNullHead
  <1>1. CASE SolePopper
    <2>1. SoleInv => NoNullHead
      BY DEF SoleInv, NoNullHead
    <2> QED
      BY <1>1, <2>1, SoleAlways, PTL
  <1>2. CASE ~ SolePopper
    <2>1. NoNullHead
      BY <1>2 DEF NoNullHead
    <2> QED
      BY <2>1, PTL
  <1> QED
    BY <1>1, <1>2

\* mlist.h:57-66: with one thread that pops, elements come out in the order of
\* push, none twice.
THEOREM AlwaysInOrder == Spec => []InOrder
  <1>1. CASE SolePopper
    <2>1. SoleInv => InOrder
      BY DEF SoleInv, SoleAt, InOrder
    <2> QED
      BY <1>1, <2>1, SoleAlways, PTL
  <1>2. CASE ~ SolePopper
    <2>1. InOrder
      BY <1>2 DEF InOrder
    <2> QED
      BY <2>1, PTL
  <1> QED
    BY <1>1, <1>2
=============================================================================
