----------------------------- MODULE QueueProofs -----------------------------
(***************************************************************************)
(* The queue of concurrentqueue.h: what the counters of a producer say,    *)
(* the inductive invariant of the whole queue, IInv, and the steps of      *)
(* ConcurrentQueue that leave the block indices alone: the free list, the  *)
(* dequeue up to its claim, the blocks given back.  QueueIndexProofs has   *)
(* the others and the theorems.                                            *)
(***************************************************************************)
EXTENDS ConcurrentQueue, FiniteSetTheorems, SequenceTheorems, WellFoundedInduction, TLAPS

LEMMA Sizes == BlockSize \in Nat \ {0, 1} /\ IndexSize \in Nat \ {0, 1}
BY SizesArePowers

-----------------------------------------------------------------------------
(* The local variables of the threads, as far as the counters depend on them. *)

Putting == {"put", "putCas", "putBack"}

\* Those of a producer: how many elements its call enqueues.
Enqueuing(l) ==
    /\ {"pc", "n"} \subseteq DOMAIN l /\ l.n \in Nat
    /\ l.pc \in {"place", "index", "pool", "malloc", "undo"}
Getting(l) ==
    /\ {"pc", "then"} \subseteq DOMAIN l /\ Enqueuing(l.then)
    /\ l.pc \in {"getHead", "getRef", "getNext", "getCas", "getDone", "unref"}
GivingUp(l) == l = Idle \/ (DOMAIN l = {"pc", "chain"} /\ l.pc = "giveUp")

ProducerAt(l) ==
    \/ Enqueuing(l) \/ Getting(l) \/ GivingUp(l) \/ l \in [pc : {"publish"}, n : Nat]
    \/ /\ {"pc", "node", "then"} \subseteq DOMAIN l /\ l.pc \in Putting
       /\ Getting(l.then) \/ GivingUp(l.then)

\* Those of a consumer: the producers it asks and how many elements it wants of one.
Asking == [todo : Seq(Producer) \ {<<>>}, max : Nat \ {0}, best : ToSet(list) \cup {None}]
Wanting(l) == l.ask \in Asking /\ l.n \in Nat /\ l.n <= l.ask.max

Resting(l) == l = Idle \/ l \in [pc : {"load"}, ask : Asking]
Claiming(l) ==
    \/ l \in [pc : {"claim"}, ask : Asking, over : Nat, n : Nat \ {0}]
    \/ l \in [pc : {"check"}, ask : Asking, n : Nat \ {0}, first : Nat]
    \/ l \in [pc : {"giveBack"}, ask : Asking, n : Nat, back : Nat]
    \/ l \in [pc : {"head"}, ask : Asking, n : Nat \ {0}, back : {0}]
Moving(l) ==
    \/ l.pc \in {"entry", "move", "forget"}
       /\ DOMAIN l = {"pc", "ask", "n", "at", "end", "gen", "slot"}
    \/ l.pc = "find" /\ DOMAIN l = {"pc", "ask", "n", "at", "end"}
Asked(l) == Resting(l) \/ (Moving(l) /\ Wanting(l))

ConsumerAt(l) ==
    \/ Asked(l) \/ (Claiming(l) /\ Wanting(l))
    \/ /\ {"pc", "node", "then"} \subseteq DOMAIN l /\ l.pc \in Putting \cup {"release"}
       /\ Asked(l.then)

-----------------------------------------------------------------------------
(* The counters.  What each consumer has claimed of a producer and not yet  *)
(* taken is summed without recursion, as the number of pairs of a consumer  *)
(* and a number below what it has.                                          *)

Tokens(f) == {x \in Consumer \X Nat : x[2] < f[x[1]]}
Total(f) == Cardinality(Tokens(f))

\* What a consumer has claimed and not yet taken or given back.
Held(c, p) ==
    IF "ask" \notin DOMAIN th[c] THEN 0
    ELSE IF From(c) # p THEN 0
    ELSE CASE At(c, "check") -> th[c].n
           [] At(c, "giveBack") \/ At(c, "head") -> th[c].n + th[c].back
           [] OTHER -> 0

\* What it may take of that, if the tail was at last when it looks.
Gets(c, p, last) ==
    IF "ask" \notin DOMAIN th[c] THEN 0
    ELSE IF From(c) # p THEN 0
    ELSE CASE At(c, "check") /\ th[c].first < last -> Smaller(th[c].n, last - th[c].first)
           [] At(c, "giveBack") \/ At(c, "head") -> th[c].n
           [] OTHER -> 0

AllHeld(p) == [c \in Consumer |-> Held(c, p)]
AllGot(p, last) == [c \in Consumer |-> Gets(c, p, last)]

CountTypes ==
    /\ list \in Seq(Producer)
    /\ tail \in [Producer -> Nat] /\ head \in [Producer -> Nat]
    /\ opt \in [Producer -> Nat] /\ over \in [Producer -> Nat]
    /\ DOMAIN th = Thread
    /\ \A p \in Producer : ProducerAt(th[p])
    /\ \A c \in Consumer : ConsumerAt(th[c])

\* Whatever the tail will be when the consumers look at it, what they take then leaves
\* the head at or before it.
CountInv(p) ==
    /\ opt[p] - over[p] = head[p] + Total(AllHeld(p))
    /\ \A last \in Nat : tail[p] <= last => head[p] + Total(AllGot(p, last)) <= last
    /\ \A c \in Consumer : At(c, "claim") /\ From(c) = p => th[c].over <= over[p]


Counters == <<tail, head, opt, over>>

LEMMA Roles == Producer \cap Consumer = {} /\ None \notin Producer /\ Thread = Producer \cup Consumer
BY RolesDiffer DEF Thread

LEMMA OthersType ==
    ASSUME list \in Seq(Producer), NEW best \in ToSet(list)
    PROVE  Others(best) \in Seq(Producer)
<1> DEFINE j == CHOOSE i \in DOMAIN list : list[i] = best
<1>1. j \in DOMAIN list
  BY DEF ToSet
<1>2. j \in 1 .. Len(list) /\ Len(list) \in Nat
  BY <1>1, LenProperties
<1> HIDE DEF j
<1>3. SubSeq(list, 1, j - 1) \in Seq(Producer)
  <2>1. \A i \in 1 .. j - 1 : list[i] \in Producer
    BY <1>2, ElementOfSeq
  <2> QED
    BY <1>2, <2>1, SubSeqProperties
<1>4. SubSeq(list, j + 1, Len(list)) \in Seq(Producer)
  <2>1. \A i \in j + 1 .. Len(list) : list[i] \in Producer
    BY <1>2, ElementOfSeq
  <2> QED
    BY <1>2, <2>1, SubSeqProperties
<1>5. Others(best) = SubSeq(list, 1, j - 1) \o SubSeq(list, j + 1, Len(list))
  BY DEF Others, RemoveAt, j
<1> QED
  BY <1>3, <1>4, <1>5, ConcatProperties

LEMMA AskType ==
    ASSUME list \in Seq(Producer), NEW todo \in Seq(Producer), NEW max \in Nat,
           NEW best \in ToSet(list) \cup {None}
    PROVE  Resting(Ask(todo, max, best))
<1>1. best # None => Others(best) \in Seq(Producer)
  BY OthersType
<1> QED
  BY <1>1 DEF Ask, Resting, Asking

LEMMA ThenType ==
    ASSUME list \in Seq(Producer), NEW ask \in Asking, NEW n \in Nat, n <= ask.max
    PROVE  Resting(Then(ask, n))
<1>1. Tail(ask.todo) \in Seq(Producer) /\ ask.max - n \in Nat
  BY HeadTailProperties DEF Asking
<1> QED
  BY <1>1, AskType DEF Then, Asking

LEMMA FromType ==
    ASSUME NEW c \in Consumer, th[c].ask \in Asking
    PROVE  From(c) \in Producer
BY HeadTailProperties DEF From, Asking

LEMMA LocalTypes ==
    ASSUME CountTypes, NEW t \in Thread, NEW l, th' = [th EXCEPT ![t] = l],
           UNCHANGED <<list, Counters>>,
           t \in Producer => ProducerAt(l), t \in Consumer => ConsumerAt(l)
    PROVE  CountTypes'
<1>1. \A m : ProducerAt(m) <=> ProducerAt(m)'
  BY DEF ProducerAt, Enqueuing, Getting, GivingUp
<1>2. Asking' = Asking
  BY DEF Asking
<1>3. \A m : ConsumerAt(m) <=> ConsumerAt(m)'
  BY <1>2 DEF ConsumerAt, Asked, Wanting, Claiming, Moving, Resting
<1> QED
  BY <1>1, <1>3, Roles DEF CountTypes, Counters

\* A step that takes thread t, which is not in the middle of a claim, to such a local.
Counting == {"claim", "check", "giveBack", "head"}
Fits(t, l) == (t \in Producer => ProducerAt(l)) /\ (t \in Consumer => ConsumerAt(l))
Stays(t) ==
    /\ ~ th[t].pc \in Counting
    /\ \E l : th' = [th EXCEPT ![t] = l] /\ Fits(t, l) /\ ~ l.pc \in Counting

LEMMA FreeListStays ==
    ASSUME CountTypes, NEW t \in Thread, FreeListStep(t)
    PROVE  Stays(t) /\ UNCHANGED <<list, Counters>>
<1> USE DEF At, Putting, places, Counters, Counting, Go, GoTo
<1> DEFINE Then0 == th[t].then
<1>0. Fits(t, th[t])
  BY Roles DEF CountTypes, Fits
<1>1. CASE th[t].pc \in Putting
  <2>1. /\ {"pc", "node", "then"} \subseteq DOMAIN th[t]
        /\ t \in Producer => Getting(Then0) \/ GivingUp(Then0)
        /\ t \in Consumer => Asked(Then0)
    <3>1. ASSUME t \in Producer
          PROVE  {"pc", "node", "then"} \subseteq DOMAIN th[t] /\ (Getting(Then0) \/ GivingUp(Then0))
      BY <1>0, <1>1, <3>1 DEF Fits, ProducerAt, Enqueuing, Getting, GivingUp, Idle
    <3>2. ASSUME t \in Consumer
          PROVE  {"pc", "node", "then"} \subseteq DOMAIN th[t] /\ Asked(Then0)
      BY <1>0, <1>1, <3>2 DEF Fits, ConsumerAt, Asked, Resting, Moving, Claiming, Idle
    <3> QED
      BY <3>1, <3>2, Roles
  <2>2. Fits(t, Then0) /\ ~ Then0.pc \in Counting
    BY <2>1, Roles DEF Fits, ProducerAt, ConsumerAt, Getting, GivingUp, Asked, Resting, Moving, Idle
  <2>3. ASSUME NEW l, {"pc", "node", "then"} \subseteq DOMAIN l, l.pc \in Putting,
               l.then = Then0
        PROVE  Fits(t, l) /\ ~ l.pc \in Counting
    BY <2>1, <2>3 DEF Fits, ProducerAt, ConsumerAt
  <2>4. CASE Put(t)
    <3> DEFINE l == [pc |-> "putCas", node |-> th[t].node, head |-> free, then |-> th[t].then]
    <3>1. th' = [th EXCEPT ![t] = l] /\ UNCHANGED <<list, Counters>>
      BY <2>4 DEF Put
    <3> QED
      BY <1>1, <2>3, <3>1 DEF Stays
  <2>5. CASE PutCas(t)
    <3> DEFINE l == [th[t] EXCEPT !.pc = "putBack", !.head = free]
    <3>1. UNCHANGED <<list, Counters>> /\ (th' = [th EXCEPT ![t] = Then0] \/ th' = [th EXCEPT ![t] = l])
      BY <2>5 DEF PutCas
    <3>2. {"pc", "node", "then"} \subseteq DOMAIN l /\ l.pc \in Putting /\ l.then = Then0
      BY <2>1
    <3>3. Fits(t, l) /\ ~ l.pc \in Counting
      BY <2>3, <3>2
    <3> HIDE DEF l
    <3> QED
      BY <1>1, <2>2, <3>1, <3>3 DEF Stays
  <2>6. CASE PutBack(t)
    <3> DEFINE l == [th[t] EXCEPT !.pc = "putCas"]
    <3>1. UNCHANGED <<list, Counters>> /\ (th' = [th EXCEPT ![t] = Then0] \/ th' = [th EXCEPT ![t] = l])
      BY <2>6 DEF PutBack
    <3>2. {"pc", "node", "then"} \subseteq DOMAIN l /\ l.pc \in Putting /\ l.then = Then0
      BY <2>1
    <3>3. Fits(t, l) /\ ~ l.pc \in Counting
      BY <2>3, <3>2
    <3> HIDE DEF l
    <3> QED
      BY <1>1, <2>2, <3>1, <3>3 DEF Stays
  <2> QED
    BY <1>1, <2>4, <2>5, <2>6 DEF FreeListStep, GetHead, GetRef, GetNext, GetCas, Unref
<1>2. CASE ~ th[t].pc \in Putting
  <2>1. UNCHANGED <<list, Counters>> /\ t \in Producer /\ t \notin Consumer /\ Getting(th[t])
        /\ (GetHead(t) \/ GetRef(t) \/ GetNext(t) \/ GetCas(t) \/ Unref(t))
    <3>1. GetHead(t) \/ GetRef(t) \/ GetNext(t) \/ GetCas(t) \/ Unref(t)
      BY <1>2, <1>0 DEF FreeListStep, Put, PutCas, PutBack
    <3>2. th[t].pc \in {"getHead", "getRef", "getNext", "getCas", "unref"} /\ UNCHANGED <<list, Counters>>
      BY <3>1 DEF GetHead, GetRef, GetNext, GetCas, Unref
    <3>3. ~ ConsumerAt(th[t])
      BY <3>2 DEF ConsumerAt, Asked, Resting, Moving, Claiming, Idle
    <3>4. t \in Producer /\ t \notin Consumer
      BY <1>0, <3>3, Roles DEF Fits
    <3> QED
      BY <1>0, <1>2, <3>1, <3>2, <3>4 DEF Fits, ProducerAt, Enqueuing, GivingUp, Idle
  <2>2. ASSUME NEW l, l = [Then0 EXCEPT !.pc = "malloc"] PROVE Fits(t, l) /\ ~ l.pc \in Counting
    BY <2>1, <2>2 DEF Fits, ProducerAt, Enqueuing, Getting
  <2>3. ASSUME NEW l, {"pc", "then"} \subseteq DOMAIN l, l.then = Then0,
               l.pc \in {"getHead", "getRef", "getNext", "getCas", "getDone", "unref"}
        PROVE  Fits(t, l) /\ ~ l.pc \in Counting
    BY <2>1, <2>3 DEF Fits, ProducerAt, Getting
  <2>4. ASSUME NEW l, {"pc", "node", "then"} \subseteq DOMAIN l, Getting(l.then), l.pc = "put"
        PROVE  Fits(t, l) /\ ~ l.pc \in Counting
    BY <2>1, <2>4 DEF Fits, ProducerAt
  <2>5. ~ th[t].pc \in Counting
    BY <2>1 DEF Getting
  <2>6. \E l : th' = [th EXCEPT ![t] = l] /\ Fits(t, l) /\ ~ l.pc \in Counting
    <3>1. CASE GetHead(t)
      <4>1. \/ th' = [th EXCEPT ![t] = [Then0 EXCEPT !.pc = "malloc"]]
            \/ th' = [th EXCEPT ![t] = [pc |-> "getRef", head |-> free, then |-> Then0]]
        BY <3>1 DEF GetHead
      <4> QED
        BY <2>2, <2>3, <4>1
    <3>2. CASE GetRef(t)
      <4>1. \/ th' = [th EXCEPT ![t] = [Then0 EXCEPT !.pc = "malloc"]]
            \/ th' = [th EXCEPT ![t] = [pc |-> "getHead", then |-> Then0]]
            \/ th' = [th EXCEPT ![t].pc = "getNext"]
        BY <3>2 DEF GetRef
      <4>2. CASE th' = [th EXCEPT ![t].pc = "getNext"]
        <5> DEFINE l == [th[t] EXCEPT !.pc = "getNext"]
        <5>1. {"pc", "then"} \subseteq DOMAIN l /\ l.then = Then0 /\ l.pc = "getNext"
          BY <2>1 DEF Getting
        <5>2. Fits(t, l) /\ ~ l.pc \in Counting
          BY <2>3, <5>1
        <5>3. th' = [th EXCEPT ![t] = l]
          BY <4>2
        <5> HIDE DEF l
        <5> QED
          BY <5>2, <5>3
      <4> QED
        BY <2>2, <2>3, <4>1, <4>2
    <3>3. CASE GetNext(t)
      <4>1. th' = [th EXCEPT ![t] = [pc |-> "getCas", node |-> th[t].head,
                                     next |-> next[th[t].head], then |-> Then0]]
        BY <3>3 DEF GetNext
      <4> QED
        BY <2>3, <4>1
    <3>4. CASE GetCas(t)
      <4>1. \/ th' = [th EXCEPT ![t] = [pc |-> "getDone", node |-> th[t].node, then |-> Then0]]
            \/ th' = [th EXCEPT ![t] = [pc |-> "unref", node |-> th[t].node, head |-> free,
                                         then |-> Then0]]
        BY <3>4 DEF GetCas
      <4> QED
        BY <2>3, <4>1
    <3>5. CASE Unref(t)
      <4> DEFINE again == [pc |-> "getRef", head |-> th[t].head, then |-> Then0]
      <4>1. \/ th' = [th EXCEPT ![t] = again]
            \/ th' = [th EXCEPT ![t] = [pc |-> "put", node |-> th[t].node, then |-> again]]
        BY <3>5 DEF Unref
      <4>2. Getting(again)
        BY <2>1 DEF Getting
      <4> QED
        BY <2>3, <2>4, <4>1, <4>2
    <3> QED
      BY <2>1, <3>1, <3>2, <3>3, <3>4, <3>5
  <2> QED
    BY <2>1, <2>5, <2>6 DEF Stays
<1> QED
  BY <1>1, <1>2

LEMMA SetBlockStays ==
    ASSUME CountTypes, NEW p \in Producer, NEW local, NEW b, Enqueuing(local),
           SetBlock(p, local, b)
    PROVE  \E l : th' = [th EXCEPT ![p] = l] /\ Fits(p, l) /\ ~ l.pc \in Counting
<1> DEFINE rest == Tail(local.bases)
           l == [local EXCEPT !.pc = IF rest = <<>> THEN "place" ELSE "index",
                              !.bases = rest, !.chain = Append(@, b), !.slot = None]
<1>1. th' = [th EXCEPT ![p] = l]
  BY DEF SetBlock, Go
<1>2. Enqueuing(l)
  BY DEF Enqueuing
<1>3. Fits(p, l) /\ ~ l.pc \in Counting
  BY <1>2, Roles DEF Fits, ProducerAt, Enqueuing, Counting
<1> HIDE DEF l
<1> QED
  BY <1>1, <1>3

\* A producer does nothing to the counters but publish.
LEMMA ProduceStays ==
    ASSUME CountTypes, NEW p \in Producer, Produce(p)
    PROVE  \/ Stays(p) /\ UNCHANGED <<list, Counters>>
           \/ UNCHANGED <<th, Counters>> /\ list' \in {list, <<p>> \o list}
           \/ Publish(p)
<1> USE DEF At, places, Counters, Counting, Go, GoTo
<1>0. ProducerAt(th[p])
  BY DEF CountTypes
<1>1. ASSUME NEW l, Enqueuing(l) \/ GivingUp(l) \/ Getting(l) PROVE Fits(p, l) /\ ~ l.pc \in Counting
  BY <1>1, Roles DEF Fits, ProducerAt, Enqueuing, GivingUp, Getting, Idle
<1>2. ASSUME th[p].pc \in {"index", "pool", "malloc", "undo", "place"}
      PROVE  Enqueuing(th[p])
  BY <1>0, <1>2 DEF ProducerAt, Getting, GivingUp, Idle, Putting
<1>3. ASSUME NEW x, Enqueuing(th[p]),
             x \in {"index", "pool", "malloc", "undo", "place"}, th' = [th EXCEPT ![p].pc = x]
      PROVE  \E l : th' = [th EXCEPT ![p] = l] /\ Fits(p, l) /\ ~ l.pc \in Counting
  <2> DEFINE l == [th[p] EXCEPT !.pc = x]
  <2>1. th' = [th EXCEPT ![p] = l]
    BY <1>3
  <2>2. Enqueuing(l)
    BY <1>3 DEF Enqueuing
  <2> HIDE DEF l
  <2> QED
    BY <1>1, <2>1, <2>2
<1>4. CASE Join(p)
  BY <1>4 DEF Join
<1>5. ASSUME NEW n \in Counts[p], Enqueue(p, n)
      PROVE  Stays(p) /\ UNCHANGED <<list, Counters>>
  <2> DEFINE l == [pc |-> IF NewBases(p, n) = <<>> THEN "place" ELSE "index",
                   n |-> n, bases |-> NewBases(p, n), chain |-> <<>>, slot |-> None]
  <2>1. /\ th' = [th EXCEPT ![p] = l] /\ th[p].pc = "idle"
        /\ UNCHANGED <<list, Counters>>
    BY <1>5 DEF Enqueue
  <2>2. n \in Nat
    BY BoundAssumption
  <2>3. Enqueuing(l)
    BY <2>2 DEF Enqueuing
  <2> HIDE DEF l
  <2> QED
    BY <1>1, <2>1, <2>3 DEF Stays
<1>6. CASE Insert(p)
  <2>1. th[p].pc = "index" /\ UNCHANGED <<list, Counters>> /\ Enqueuing(th[p])
    BY <1>2, <1>6 DEF Insert
  <2> DEFINE local == [th[p] EXCEPT !.pc = "pool", !.slot = NextEntry(p)]
  <2>2. Enqueuing(local)
    BY <2>1 DEF Enqueuing
  <2> HIDE DEF local
  <2> DEFINE get == [pc |-> "getHead", then |-> local]
  <2>3. Getting(get)
    BY <2>2 DEF Getting
  <2> HIDE DEF get
  <2>4. \/ th' = [th EXCEPT ![p] = local] \/ th' = [th EXCEPT ![p] = get]
        \/ th' = [th EXCEPT ![p].pc = "undo"] \/ UNCHANGED th
    BY <1>6 DEF Insert, local, get
  <2>5. CASE ~ UNCHANGED th
    BY <1>1, <1>3, <2>1, <2>2, <2>3, <2>4, <2>5 DEF Stays
  <2> QED
    BY <2>1, <2>5
<1>7. CASE FromPool(p)
  <2>1. th[p].pc = "pool" /\ UNCHANGED <<list, Counters>> /\ Enqueuing(th[p])
    BY <1>2, <1>7 DEF FromPool
  <2> DEFINE get == [pc |-> "getHead", then |-> th[p]]
  <2>2. Getting(get)
    BY <2>1 DEF Getting
  <2> HIDE DEF get
  <2>3. (\E b : SetBlock(p, th[p], b)) \/ th' = [th EXCEPT ![p] = get]
    BY <1>7 DEF FromPool, FreshBlock, get
  <2> QED
    BY <1>1, <2>1, <2>2, <2>3, SetBlockStays DEF Stays
<1>8. CASE FromFreeList(p)
  <2>1. /\ th[p].pc = "getDone" /\ UNCHANGED <<list, Counters>>
        /\ SetBlock(p, th[p].then, th[p].node)
    BY <1>8 DEF FromFreeList
  <2>2. Enqueuing(th[p].then)
    BY <1>0, <2>1 DEF ProducerAt, Enqueuing, Getting, GivingUp, Idle, Putting
  <2> QED
    BY <2>1, <2>2, SetBlockStays DEF Stays
<1>9. CASE Malloc(p)
  <2>1. th[p].pc = "malloc" /\ UNCHANGED <<list, Counters>> /\ Enqueuing(th[p])
    BY <1>2, <1>9 DEF Malloc
  <2>2. (\E b : SetBlock(p, th[p], b)) \/ th' = [th EXCEPT ![p].pc = "undo"]
    BY <1>9 DEF Malloc, FreshBlock
  <2> QED
    BY <1>3, <2>1, <2>2, SetBlockStays DEF Stays
<1>10. CASE Undo(p)
  <2> DEFINE give == [pc |-> "giveUp", chain |-> th[p].chain]
  <2>1. /\ th[p].pc = "undo" /\ UNCHANGED <<list, Counters>>
        /\ th' = [th EXCEPT ![p] = Idle] \/ th' = [th EXCEPT ![p] = give]
    BY <1>10 DEF Undo
  <2>2. GivingUp(Idle) /\ GivingUp(give)
    BY DEF GivingUp
  <2> HIDE DEF give
  <2> QED
    BY <1>1, <2>1, <2>2 DEF Stays
<1>11. CASE GiveUp(p)
  <2> DEFINE b == Head(th[p].chain)
             rest == Tail(th[p].chain)
             then == IF rest = <<>> THEN Idle ELSE [pc |-> "giveUp", chain |-> rest]
             put == [pc |-> "put", node |-> b, then |-> then]
  <2>1. /\ th[p].pc = "giveUp" /\ UNCHANGED <<list, Counters>>
        /\ th' = [th EXCEPT ![p] = put] \/ th' = [th EXCEPT ![p] = then]
    BY <1>11 DEF GiveUp, Add
  <2>2. GivingUp(then)
    BY DEF GivingUp
  <2>3. Fits(p, put) /\ ~ put.pc \in Counting
    BY <2>2, Roles DEF Fits, ProducerAt, Putting
  <2> HIDE DEF put, then
  <2> QED
    BY <1>1, <2>1, <2>2, <2>3 DEF Stays
<1>12. CASE Place(p)
  <2> DEFINE l == [pc |-> "publish", n |-> th[p].n]
  <2>1. /\ th[p].pc = "place" /\ UNCHANGED <<list, Counters>> /\ Enqueuing(th[p])
        /\ th' = [th EXCEPT ![p] = l]
    BY <1>2, <1>12 DEF Place
  <2>2. Fits(p, l) /\ ~ l.pc \in Counting
    BY <2>1, Roles DEF Fits, ProducerAt, Enqueuing
  <2> HIDE DEF l
  <2> QED
    BY <2>1, <2>2 DEF Stays
<1> QED
  BY <1>4, <1>5, <1>6, <1>7, <1>8, <1>9, <1>10, <1>11, <1>12 DEF Produce

LEMMA ConsumeStays ==
    ASSUME CountTypes, NEW c \in Consumer,
           \/ \E max \in Maxes[c] : Dequeue(c, max)
           \/ Find(c) \/ Move(c) \/ Forget(c) \/ Release(c)
    PROVE  (Stays(c) \/ UNCHANGED th) /\ UNCHANGED <<list, Counters>>
<1> USE DEF At, places, Counters, Counting, Go, GoTo
<1>0. ConsumerAt(th[c]) /\ list \in Seq(Producer)
  BY DEF CountTypes
<1>1. ASSUME NEW l, Asked(l) PROVE Fits(c, l) /\ ~ l.pc \in Counting
  BY <1>1, Roles DEF Fits, ConsumerAt, Asked, Resting, Moving, Idle
<1>2. ASSUME th[c].pc \in {"find", "entry", "move", "forget"}
      PROVE  Wanting(th[c]) /\ Moving(th[c])
  BY <1>0, <1>2 DEF ConsumerAt, Asked, Resting, Claiming, Idle, Putting
<1>3. ASSUME Wanting(th[c]), Moving(th[c]), th[c].pc # "find" PROVE Asked(AfterBlock(c))
  <2> DEFINE at == BaseOf(th[c].at) + BlockSize
             l == [th[c] EXCEPT !.pc = "move", !.at = at,
                       !.slot = (Slot(c) + 1) % header[From(c)][th[c].gen].cap]
  <2>1. Wanting(l) /\ Moving(l)
    BY <1>3 DEF Wanting, Moving
  <2> HIDE DEF l
  <2>2. Resting(Then(th[c].ask, th[c].n))
    BY <1>0, <1>3, ThenType DEF Wanting
  <2>3. AfterBlock(c) = l \/ AfterBlock(c) = Then(th[c].ask, th[c].n)
    BY DEF AfterBlock, l
  <2> QED
    BY <2>1, <2>2, <2>3 DEF Asked
<1>4. CASE \E max \in Maxes[c] : Dequeue(c, max)
  <2> PICK max \in Maxes[c] : Dequeue(c, max)
    BY <1>4
  <2>1. th[c].pc = "idle" /\ UNCHANGED <<list, Counters>>
    BY DEF Dequeue
  <2>2. max \in Nat
    BY BoundAssumption
  <2>3. \/ th' = [th EXCEPT ![c] = Ask(list, max, None)]
        \/ th' = [th EXCEPT ![c] = Idle]
        \/ \E best \in ToSet(list) : th' = [th EXCEPT ![c] = Ask(<<best>>, 1, best)]
    BY DEF Dequeue
  <2>4. Asked(Idle)
    BY DEF Asked, Resting
  <2>5. Asked(Ask(list, max, None))
    BY <1>0, <2>2, AskType DEF Asked
  <2>6. ASSUME NEW best \in ToSet(list) PROVE Asked(Ask(<<best>>, 1, best))
    <3>1. best \in Producer
      BY <1>0, ElementOfSeq DEF ToSet
    <3>2. <<best>> \in Seq(Producer)
      BY <3>1
    <3> QED
      BY <1>0, <3>2, AskType DEF Asked
  <2> QED
    BY <1>1, <2>1, <2>3, <2>4, <2>5, <2>6 DEF Stays
<1>5. CASE Find(c)
  <2> DEFINE l == [pc |-> "entry", ask |-> th[c].ask, n |-> th[c].n, at |-> th[c].at,
                   end |-> th[c].end, gen |-> Len(header[From(c)]),
                   slot |-> Last(header[From(c)]).tail]
  <2>1. th[c].pc = "find" /\ UNCHANGED <<list, Counters>> /\ th' = [th EXCEPT ![c] = l]
    BY <1>5 DEF Find
  <2>2. Asked(l)
    BY <1>2, <2>1 DEF Asked, Wanting, Moving
  <2> HIDE DEF l
  <2> QED
    BY <1>1, <2>1, <2>2 DEF Stays
<1>6. CASE Move(c)
  <2>1. th[c].pc \in {"entry", "move"} /\ UNCHANGED <<list, Counters>>
    BY <1>6 DEF Move
  <2> DEFINE l == [th[c] EXCEPT !.pc = "forget", !.slot = Slot(c)]
  <2>2. UNCHANGED th \/ th' = [th EXCEPT ![c] = l] \/ th' = [th EXCEPT ![c] = AfterBlock(c)]
    BY <1>6 DEF Move
  <2>3. Wanting(l) /\ Moving(l)
    BY <1>2, <2>1 DEF Wanting, Moving
  <2> HIDE DEF l
  <2> QED
    BY <1>1, <1>2, <1>3, <2>1, <2>2, <2>3 DEF Stays, Asked
<1>7. CASE Forget(c)
  <2>0. PICK b : /\ th[c].pc = "forget" /\ UNCHANGED <<list, Counters>>
                 /\ th' = [th EXCEPT ![c] = [pc |-> "release", node |-> b,
                                             then |-> AfterBlock(c)]]
    BY <1>7 DEF Forget
  <2> DEFINE l == [pc |-> "release", node |-> b, then |-> AfterBlock(c)]
  <2>1. Asked(AfterBlock(c))
    BY <1>2, <1>3, <2>0
  <2>2. Fits(c, l) /\ ~ l.pc \in Counting
    BY <2>1, Roles DEF Fits, ConsumerAt
  <2> HIDE DEF l
  <2> QED
    BY <2>0, <2>2 DEF Stays, l
<1>8. CASE Release(c)
  <2>1. th[c].pc = "release" /\ UNCHANGED <<list, Counters>>
    BY <1>8 DEF Release
  <2>2. Asked(th[c].then)
    BY <1>0, <2>1 DEF ConsumerAt, Asked, Resting, Moving, Claiming, Idle
  <2> DEFINE l == [pc |-> "put", node |-> th[c].node, then |-> th[c].then]
  <2>3. Fits(c, l) /\ ~ l.pc \in Counting
    BY <2>2, Roles DEF Fits, ConsumerAt, Putting
  <2>4. th' = [th EXCEPT ![c] = l] \/ th' = [th EXCEPT ![c] = th[c].then]
    BY <1>8 DEF Release, Add
  <2> HIDE DEF l
  <2> QED
    BY <1>1, <2>1, <2>2, <2>3, <2>4 DEF Stays
<1> QED
  BY <1>4, <1>5, <1>6, <1>7, <1>8

-----------------------------------------------------------------------------
(* Totals. *)

LEMMA TokensFinite ==
    ASSUME NEW f \in [Consumer -> Nat]
    PROVE  IsFiniteSet(Tokens(f)) /\ Total(f) \in Nat
<1> DEFINE Of(c) == {c} \X (0 .. f[c] - 1)
           g == [c \in Consumer |-> Of(c)]
<1>1. IsFiniteSet(Consumer)
  <2>1. IsFiniteSet(Block \cup Thread) /\ Consumer \subseteq Block \cup Thread
    BY RolesDiffer DEF Thread
  <2> QED
    BY <2>1, FS_Subset
<1>2. \A c \in Consumer : IsFiniteSet(Of(c))
  <2> TAKE c \in Consumer
  <2>1. IsFiniteSet({c})
    BY FS_Singleton
  <2>2. f[c] - 1 \in Int /\ 0 \in Int
    OBVIOUS
  <2>3. IsFiniteSet(0 .. f[c] - 1)
    BY <2>2, FS_Interval
  <2> QED
    BY <2>1, <2>3, FS_Product
<1>3. g \in Surjection(Consumer, {Of(c) : c \in Consumer})
  BY DEF Surjection
<1>4. IsFiniteSet({Of(c) : c \in Consumer})
  BY <1>1, <1>3, FS_Surjection
<1>5. IsFiniteSet(UNION {Of(c) : c \in Consumer})
  BY <1>2, <1>4, FS_UNION
<1>6. Tokens(f) \subseteq UNION {Of(c) : c \in Consumer}
  <2> SUFFICES ASSUME NEW x \in Tokens(f) PROVE x \in UNION {Of(c) : c \in Consumer}
    OBVIOUS
  <2>1. x[1] \in Consumer /\ x[2] \in 0 .. f[x[1]] - 1 /\ x = <<x[1], x[2]>>
    BY DEF Tokens
  <2>2. x \in Of(x[1])
    BY <2>1
  <2> QED
    BY <2>1, <2>2
<1>7. IsFiniteSet(Tokens(f))
  BY <1>5, <1>6, FS_Subset
<1> QED
  BY <1>7, FS_CardinalityType DEF Total

\* Where one number changes, the total changes by as much.
LEMMA TotalMoves ==
    ASSUME NEW f \in [Consumer -> Nat], NEW g \in [Consumer -> Nat], NEW c \in Consumer,
           \A d \in Consumer \ {c} : g[d] = f[d]
    PROVE  Total(g) = Total(f) - f[c] + g[c]
<1> DEFINE A == {c} \X (0 .. f[c] - 1)
           B == {c} \X (0 .. g[c] - 1)
           R == Tokens(f) \ A
<1>1. IsFiniteSet(Tokens(f)) /\ Total(f) \in Nat
  BY TokensFinite
<1>2. /\ IsFiniteSet(A) /\ Cardinality(A) = f[c]
      /\ IsFiniteSet(B) /\ Cardinality(B) = g[c]
  <2>1. IsFiniteSet({c}) /\ Cardinality({c}) = 1
    BY FS_Singleton
  <2>2. \A n \in Nat : IsFiniteSet(0 .. n - 1) /\ Cardinality(0 .. n - 1) = n
    <3> TAKE n \in Nat
    <3>1. 0 \in Int /\ n - 1 \in Int
      OBVIOUS
    <3>2. /\ IsFiniteSet(0 .. n - 1)
          /\ Cardinality(0 .. n - 1) = IF 0 > n - 1 THEN 0 ELSE n - 1 - 0 + 1
      BY <3>1, FS_Interval
    <3> QED
      BY <3>2
  <2>3. ASSUME NEW n \in Nat
        PROVE  /\ IsFiniteSet({c} \X (0 .. n - 1))
               /\ Cardinality({c} \X (0 .. n - 1)) = n
    <3>1. /\ IsFiniteSet({c} \X (0 .. n - 1))
          /\ Cardinality({c} \X (0 .. n - 1)) = Cardinality({c}) * Cardinality(0 .. n - 1)
      BY <2>1, <2>2, FS_Product
    <3> QED
      BY <2>1, <2>2, <3>1
  <2> QED
    BY <2>3
<1>3. A \subseteq Tokens(f) /\ R \cap B = {} /\ Tokens(g) = R \cup B
  BY DEF Tokens
<1>4. IsFiniteSet(R) /\ Cardinality(R) = Total(f) - f[c]
  <2>1. Tokens(f) \cap A = A
    BY <1>3
  <2>2. IsFiniteSet(R) /\ Cardinality(R) = Cardinality(Tokens(f)) - Cardinality(Tokens(f) \cap A)
    BY <1>1, FS_Difference
  <2> QED
    BY <1>2, <2>1, <2>2 DEF Total
<1>5. Cardinality(R \cup B) = Cardinality(R) + Cardinality(B) - Cardinality(R \cap B)
  BY <1>2, <1>4, FS_Union
<1>6. Cardinality(R \cap B) = 0
  BY <1>3, FS_EmptySet
<1> QED
  BY <1>1, <1>2, <1>3, <1>4, <1>5, <1>6 DEF Total

LEMMA TotalGrows ==
    ASSUME NEW f \in [Consumer -> Nat], NEW g \in [Consumer -> Nat],
           \A c \in Consumer : f[c] <= g[c]
    PROVE  Total(f) <= Total(g)
<1>1. Tokens(f) \subseteq Tokens(g)
  BY DEF Tokens
<1> QED
  BY <1>1, TokensFinite, FS_Subset DEF Total

-----------------------------------------------------------------------------
(* Claims. *)

LEMMA HeldTypes ==
    ASSUME CountTypes, NEW p \in Producer, NEW last \in Nat
    PROVE  /\ AllHeld(p) \in [Consumer -> Nat] /\ AllGot(p, last) \in [Consumer -> Nat]
           /\ \A c \in Consumer : AllGot(p, last)[c] <= AllHeld(p)[c]
<1> SUFFICES ASSUME NEW c \in Consumer
             PROVE  Held(c, p) \in Nat /\ Gets(c, p, last) \in Nat /\ Gets(c, p, last) <= Held(c, p)
  BY DEF AllHeld, AllGot
<1>1. ConsumerAt(th[c])
  BY DEF CountTypes
<1>2. ~ Claiming(th[c]) => ~ th[c].pc \in {"check", "giveBack", "head"}
  BY <1>1 DEF ConsumerAt, Asked, Resting, Moving, Idle, Putting
<1>3. CASE ~ Claiming(th[c])
  BY <1>2, <1>3 DEF Held, Gets, At
<1>4. CASE Claiming(th[c])
  BY <1>4 DEF Claiming, Held, Gets, At, Smaller
<1> QED
  BY <1>3, <1>4

LEMMA QuietHolds ==
    ASSUME NEW c, NEW p, NEW last, ~ th[c].pc \in {"check", "giveBack", "head"}
    PROVE  Held(c, p) = 0 /\ Gets(c, p, last) = 0
BY DEF Held, Gets, At

LEMMA QuietHoldsToo ==
    ASSUME NEW c, NEW p, NEW last, ~ th'[c].pc \in {"check", "giveBack", "head"}
    PROVE  Held(c, p)' = 0 /\ Gets(c, p, last)' = 0
BY DEF Held, Gets, At

LEMMA SameHolds ==
    ASSUME NEW c, NEW p, NEW last, th'[c] = th[c]
    PROVE  Held(c, p)' = Held(c, p) /\ Gets(c, p, last)' = Gets(c, p, last)
BY DEF Held, Gets, At, From

LEMMA KeepCount ==
    ASSUME NEW p \in Producer, CountInv(p), CountTypes, UNCHANGED <<head, opt, over>>,
           tail'[p] \in Nat /\ tail'[p] >= tail[p],
           \A c \in Consumer :
              /\ At(c, "claim")' /\ From(c)' = p => th'[c] = th[c]
              /\ Held(c, p)' = Held(c, p)
              /\ \A last \in Nat : Gets(c, p, last)' = Gets(c, p, last)
    PROVE  CountInv(p)'
<1>1. AllHeld(p)' = AllHeld(p)
  BY DEF AllHeld
<1>2. \A last \in Nat : AllGot(p, last)' = AllGot(p, last)
  BY DEF AllGot
<1>3. (opt[p] - over[p] = head[p] + Total(AllHeld(p)))'
  BY <1>1 DEF CountInv, Total, Tokens
<1>4. ASSUME NEW last \in Nat, tail'[p] <= last
      PROVE  head'[p] + Total(AllGot(p, last)') <= last
  <2>1. tail[p] <= last
    BY <1>4 DEF CountTypes
  <2> QED
    BY <1>2, <2>1 DEF CountInv
<1>5. ASSUME NEW c \in Consumer, At(c, "claim")', From(c)' = p PROVE th'[c].over <= over'[p]
  <2>1. th'[c] = th[c]
    BY <1>5
  <2> QED
    BY <1>5, <2>1 DEF CountInv, At, From
<1>6. (\A last \in Nat : tail[p] <= last => head[p] + Total(AllGot(p, last)) <= last)'
  BY <1>4 DEF Total, Tokens
<1> QED
  BY <1>3, <1>5, <1>6 DEF CountInv

LEMMA StaysCounted ==
    ASSUME CountTypes, NEW t \in Thread, Stays(t), UNCHANGED <<list, Counters>>
    PROVE  CountTypes' /\ \A p \in Producer : CountInv(p) => CountInv(p)'
<1> PICK l : th' = [th EXCEPT ![t] = l] /\ Fits(t, l) /\ ~ l.pc \in Counting
  BY DEF Stays
<1>1. CountTypes'
  BY LocalTypes DEF Fits
<1>2. ASSUME NEW p \in Producer, CountInv(p) PROVE CountInv(p)'
  <2>1. ASSUME NEW c \in Consumer
        PROVE  /\ At(c, "claim")' /\ From(c)' = p => th'[c] = th[c]
               /\ Held(c, p)' = Held(c, p)
               /\ \A last \in Nat : Gets(c, p, last)' = Gets(c, p, last)
    <3>1. CASE c = t
      <4>1. th'[c] = l
        BY <3>1, Roles DEF CountTypes
      <4>2. ~ th'[c].pc \in Counting /\ ~ th[c].pc \in Counting
        BY <3>1, <4>1 DEF Stays
      <4> QED
        BY <4>2, QuietHolds, QuietHoldsToo DEF Counting, At
    <3>2. CASE c # t
      <4>1. th'[c] = th[c]
        BY <3>2, Roles DEF CountTypes
      <4> QED
        BY <4>1, SameHolds
    <3> QED
      BY <3>1, <3>2
  <2>2. tail'[p] \in Nat /\ tail'[p] >= tail[p] /\ UNCHANGED <<head, opt, over>>
    BY DEF Counters, CountTypes
  <2> QED
    BY <1>2, <2>1, <2>2, KeepCount
<1> QED
  BY <1>1, <1>2

HeldFit ==
    \A p \in Producer, last \in Nat :
        AllHeld(p) \in [Consumer -> Nat] /\ AllGot(p, last) \in [Consumer -> Nat]

LEMMA HeldLater == CountTypes' => HeldFit'
<1>1. CountTypes => HeldFit
  BY HeldTypes DEF HeldFit
<1> QED
  BY <1>1, PTL

\* A step of one consumer in the middle of a claim.
OneClaims(c, p) ==
    /\ CountTypes /\ CountTypes' /\ UNCHANGED tail
    /\ \A d \in Consumer \ {c} : th'[d] = th[d]
    /\ \A q \in Producer \ {p} : opt'[q] = opt[q] /\ over'[q] = over[q] /\ head'[q] = head[q]
    /\ \A q \in Producer : At(c, "claim")' /\ From(c)' = q => th'[c].over <= over'[q]
    /\ \A q \in Producer \ {p} : \A last : 
          /\ Held(c, q) = 0 /\ Held(c, q)' = 0
          /\ Gets(c, q, last) = 0 /\ Gets(c, q, last)' = 0

LEMMA ClaimMoves ==
    ASSUME NEW c \in Consumer, NEW p \in Producer, OneClaims(c, p)
    PROVE  /\ Held(c, p) \in Nat /\ Held(c, p)' \in Nat
           /\ Total(AllHeld(p)) \in Nat /\ Total(AllHeld(p))' \in Nat
           /\ Total(AllHeld(p))' = Total(AllHeld(p)) - Held(c, p) + Held(c, p)'
           /\ \A last \in Nat :
                 /\ Gets(c, p, last) \in Nat /\ Gets(c, p, last)' \in Nat
                 /\ Total(AllGot(p, last)) \in Nat /\ Total(AllGot(p, last))' \in Nat
                 /\ Total(AllGot(p, last)) <= Total(AllHeld(p))
                 /\ Total(AllGot(p, last))' = Total(AllGot(p, last)) - Gets(c, p, last)
                                                 + Gets(c, p, last)'
<1>1. HeldFit /\ HeldFit'
  BY HeldLater, HeldTypes DEF OneClaims, HeldFit
<1>2. ASSUME NEW d \in Consumer \ {c}, NEW last
      PROVE  Held(d, p)' = Held(d, p) /\ Gets(d, p, last)' = Gets(d, p, last)
  BY SameHolds DEF OneClaims
<1>3. Total(AllHeld(p))' = Total(AllHeld(p)') /\ \A last : Total(AllGot(p, last))' = Total(AllGot(p, last)')
  BY DEF Total, Tokens
<1>4. /\ AllHeld(p) \in [Consumer -> Nat] /\ AllHeld(p)' \in [Consumer -> Nat]
      /\ AllHeld(p)[c] = Held(c, p) /\ AllHeld(p)'[c] = Held(c, p)'
      /\ \A d \in Consumer \ {c} : AllHeld(p)'[d] = AllHeld(p)[d]
  <2>1. AllHeld(p) \in [Consumer -> Nat] /\ AllHeld(p)' \in [Consumer -> Nat]
    BY <1>1 DEF HeldFit
  <2> QED
    BY <1>2, <2>1 DEF AllHeld
<1>5. ASSUME NEW last \in Nat
      PROVE  /\ AllGot(p, last) \in [Consumer -> Nat] /\ AllGot(p, last)' \in [Consumer -> Nat]
             /\ AllGot(p, last)[c] = Gets(c, p, last) /\ AllGot(p, last)'[c] = Gets(c, p, last)'
             /\ \A d \in Consumer \ {c} : AllGot(p, last)'[d] = AllGot(p, last)[d]
             /\ \A d \in Consumer : AllGot(p, last)[d] <= AllHeld(p)[d]
  <2>1. AllGot(p, last) \in [Consumer -> Nat] /\ AllGot(p, last)' \in [Consumer -> Nat]
    BY <1>1 DEF HeldFit
  <2>2. \A d \in Consumer : AllGot(p, last)[d] <= AllHeld(p)[d]
    BY HeldTypes DEF OneClaims
  <2> QED
    BY <1>2, <2>1, <2>2 DEF AllGot
<1>6. /\ Total(AllHeld(p)) \in Nat /\ Total(AllHeld(p)') \in Nat
      /\ Total(AllHeld(p)') = Total(AllHeld(p)) - AllHeld(p)[c] + AllHeld(p)'[c]
  BY <1>4, TokensFinite, TotalMoves
<1>7. ASSUME NEW last \in Nat
      PROVE  /\ Total(AllGot(p, last)) \in Nat /\ Total(AllGot(p, last)') \in Nat
             /\ Total(AllGot(p, last)') = Total(AllGot(p, last)) - AllGot(p, last)[c]
                                            + AllGot(p, last)'[c]
             /\ Total(AllGot(p, last)) <= Total(AllHeld(p))
  BY <1>4, <1>5, TokensFinite, TotalMoves, TotalGrows
<1>8. /\ Held(c, p) \in Nat /\ Held(c, p)' \in Nat
      /\ Total(AllHeld(p)) \in Nat /\ Total(AllHeld(p))' \in Nat
      /\ Total(AllHeld(p))' = Total(AllHeld(p)) - Held(c, p) + Held(c, p)'
  BY <1>3, <1>4, <1>6
<1>9. ASSUME NEW last \in Nat
      PROVE  /\ Gets(c, p, last) \in Nat /\ Gets(c, p, last)' \in Nat
             /\ Total(AllGot(p, last)) \in Nat /\ Total(AllGot(p, last))' \in Nat
             /\ Total(AllGot(p, last)) <= Total(AllHeld(p))
             /\ Total(AllGot(p, last))' = Total(AllGot(p, last)) - Gets(c, p, last)
                                             + Gets(c, p, last)'
  <2>1. Total(AllGot(p, last))' = Total(AllGot(p, last)')
    BY <1>3
  <2> HIDE DEF AllGot, AllHeld
  <2>2. Gets(c, p, last) \in Nat /\ Gets(c, p, last)' \in Nat
    BY <1>5
  <2> QED
    BY <1>5, <1>7, <2>1, <2>2
<1> QED
  BY <1>8, <1>9

LEMMA OthersClaim ==
    ASSUME NEW c \in Consumer, NEW p \in Producer, OneClaims(c, p),
           NEW q \in Producer \ {p}, CountInv(q)
    PROVE  CountInv(q)'
<1>1. ASSUME NEW d \in Consumer \ {c}, NEW last
      PROVE  Held(d, q)' = Held(d, q) /\ Gets(d, q, last)' = Gets(d, q, last) /\ th'[d] = th[d]
  BY SameHolds DEF OneClaims
<1>2. \A d \in Consumer : Held(d, q)' = Held(d, q)
  BY <1>1 DEF OneClaims
<1>3. \A d \in Consumer : \A last : Gets(d, q, last)' = Gets(d, q, last)
  BY <1>1 DEF OneClaims
<1>4. AllHeld(q)' = AllHeld(q) /\ \A last : AllGot(q, last)' = AllGot(q, last)
  BY <1>2, <1>3 DEF AllHeld, AllGot
<1>5. /\ opt'[q] = opt[q] /\ over'[q] = over[q] /\ head'[q] = head[q] /\ tail'[q] = tail[q]
  BY DEF OneClaims
<1>6. \A d \in Consumer : At(d, "claim")' /\ From(d)' = q => th'[d].over <= over'[q]
  <2> SUFFICES ASSUME NEW d \in Consumer, At(d, "claim")', From(d)' = q PROVE th'[d].over <= over'[q]
    OBVIOUS
  <2>1. CASE d = c
    BY <2>1 DEF OneClaims
  <2>2. CASE d # c
    BY <1>1, <1>5, <2>2 DEF CountInv, At, From
  <2> QED
    BY <2>1, <2>2
<1> QED
  BY <1>4, <1>5, <1>6 DEF CountInv, Total, Tokens

LEMMA LocalAt ==
    ASSUME CountTypes, NEW c \in Consumer
    PROVE  /\ th[c].pc = "load" => th[c].ask \in Asking
           /\ th[c].pc = "claim" =>
                 th[c] \in [pc : {"claim"}, ask : Asking, over : Nat, n : Nat \ {0}]
           /\ th[c].pc = "check" =>
                 th[c] \in [pc : {"check"}, ask : Asking, n : Nat \ {0}, first : Nat]
           /\ th[c].pc = "giveBack" =>
                 th[c] \in [pc : {"giveBack"}, ask : Asking, n : Nat, back : Nat]
           /\ th[c].pc = "head" =>
                 th[c] \in [pc : {"head"}, ask : Asking, n : Nat \ {0}, back : {0}]
           /\ th[c].pc \in Counting => Wanting(th[c])
<1>1. ConsumerAt(th[c])
  BY DEF CountTypes
<1>2. CASE Claiming(th[c]) /\ Wanting(th[c])
  BY <1>2 DEF Claiming
<1>3. CASE Resting(th[c])
  BY <1>3 DEF Resting, Idle, Counting
<1>4. CASE ~ (Claiming(th[c]) /\ Wanting(th[c])) /\ ~ Resting(th[c])
  <2>1. ~ th[c].pc \in Counting \cup {"load"}
    BY <1>1, <1>4 DEF ConsumerAt, Asked, Moving, Putting, Counting
  <2> QED
    BY <2>1 DEF Counting
<1> QED
  BY <1>2, <1>3, <1>4

CountedInv == CountTypes /\ \A p \in Producer : CountInv(p)

\* It neither makes nor loses claims, and whatever it may now take is there.
Conserves(c, p) ==
    /\ over'[p] >= over[p]
    /\ opt'[p] - over'[p] - head'[p] - Held(c, p)' = opt[p] - over[p] - head[p] - Held(c, p)
    /\ \A last \in Nat : tail[p] <= last =>
          \/ head'[p] + Gets(c, p, last)' <= head[p] + Gets(c, p, last)
          \/ /\ head'[p] = head[p] /\ Gets(c, p, last) = 0
             /\ head[p] + Total(AllHeld(p)) + Gets(c, p, last)' <= last

LEMMA ClaimEnds ==
    ASSUME CountedInv, NEW c \in Consumer, NEW p \in Producer, OneClaims(c, p),
           Conserves(c, p)
    PROVE  CountedInv'
<1>0. /\ head[p] \in Nat /\ head'[p] \in Nat /\ opt[p] \in Nat /\ opt'[p] \in Nat
      /\ over[p] \in Nat /\ over'[p] \in Nat /\ tail[p] \in Nat /\ tail'[p] = tail[p]
      /\ CountInv(p)
  BY DEF OneClaims, CountTypes, CountedInv
<1>1. opt'[p] - over'[p] = head'[p] + Total(AllHeld(p))'
  BY <1>0, ClaimMoves DEF CountInv, Conserves
<1>2. ASSUME NEW last \in Nat, tail'[p] <= last
      PROVE  head'[p] + Total(AllGot(p, last))' <= last
  <2>1. head[p] + Total(AllGot(p, last)) <= last
    BY <1>0, <1>2 DEF CountInv
  <2>2. /\ Total(AllHeld(p)) \in Nat
        /\ Gets(c, p, last) \in Nat /\ Gets(c, p, last)' \in Nat
        /\ Total(AllGot(p, last)) \in Nat /\ Total(AllGot(p, last))' \in Nat
        /\ Total(AllGot(p, last)) <= Total(AllHeld(p))
        /\ Total(AllGot(p, last))' = Total(AllGot(p, last)) - Gets(c, p, last) + Gets(c, p, last)'
    BY ClaimMoves
  <2> QED
    BY <1>0, <1>2, <2>1, <2>2 DEF Conserves
<1>3. ASSUME NEW d \in Consumer, At(d, "claim")', From(d)' = p PROVE th'[d].over <= over'[p]
  <2>1. CASE d = c
    BY <1>3, <2>1 DEF OneClaims
  <2>2. CASE d # c
    <3>1. th'[d] = th[d]
      BY <2>2 DEF OneClaims
    <3>2. th[d].over <= over[p] /\ At(d, "claim")
      BY <1>0, <1>3, <3>1 DEF CountInv, At, From
    <3>3. th[d].over \in Nat
      BY <3>2, LocalAt DEF CountedInv, At
    <3> QED
        BY <1>0, <3>1, <3>2, <3>3 DEF Conserves
  <2> QED
    BY <2>1, <2>2
<1>4. CountInv(p)'
  BY <1>1, <1>2, <1>3 DEF CountInv
<1> QED
  BY <1>4, OthersClaim DEF CountedInv, OneClaims

LEMMA TestCounted ==
    ASSUME CountedInv, NEW c \in Consumer, Test(c)
    PROVE  CountedInv'
<1> DEFINE p == From(c)
           room == tail[p] - (opt[p] - over[p])
           l == IF room > 0
                THEN [pc |-> "claim", ask |-> th[c].ask, over |-> over[p],
                      n |-> Smaller(room, th[c].ask.max)]
                ELSE Then(th[c].ask, 0)
<1>0. th[c].pc = "load" /\ th' = [th EXCEPT ![c] = l] /\ UNCHANGED <<list, Counters>>
  BY DEF Test, At, Go, places, Counters
<1>1. th[c].ask \in Asking /\ CountTypes
  BY <1>0, LocalAt DEF CountedInv
<1>2. p \in Producer /\ th[c].ask.max \in Nat \ {0}
  BY <1>1, FromType DEF Asking
<1>3. tail[p] \in Nat /\ opt[p] \in Nat /\ over[p] \in Nat /\ head[p] \in Nat
  BY <1>1, <1>2 DEF CountTypes
<1>4. /\ ConsumerAt(l) /\ ~ l.pc \in {"check", "giveBack", "head"}
      /\ l.pc = "claim" => l.over = over[p] /\ l.ask = th[c].ask
  <2>1. CASE room > 0
    <3>1. Smaller(room, th[c].ask.max) \in Nat \ {0} /\ Smaller(room, th[c].ask.max) <= th[c].ask.max
      BY <1>2, <1>3, <2>1 DEF Smaller
    <3> QED
      BY <1>1, <1>3, <2>1, <3>1 DEF ConsumerAt, Claiming, Wanting
  <2>2. CASE ~ room > 0
    <3>0. list \in Seq(Producer) /\ 0 \in Nat /\ 0 <= th[c].ask.max
      BY <1>1, <1>2 DEF CountTypes
    <3>1. Resting(Then(th[c].ask, 0))
      BY <1>1, <3>0, ThenType
    <3> QED
      BY <2>2, <3>1 DEF ConsumerAt, Asked, Resting, Idle
  <2> QED
    BY <2>1, <2>2
<1> HIDE DEF l
<1>5. CountTypes' /\ \A d \in Consumer \ {c} : th'[d] = th[d]
  BY <1>0, <1>1, <1>4, LocalTypes, Roles DEF CountTypes
<1>6. th'[c] = l
  BY <1>0, <1>1, Roles DEF CountTypes
<1>7. \A q : \A last : /\ Held(c, q) = 0 /\ Held(c, q)' = 0
                       /\ Gets(c, q, last) = 0 /\ Gets(c, q, last)' = 0
  BY <1>0, <1>4, <1>6, QuietHolds, QuietHoldsToo
<1>8. At(c, "claim")' => From(c)' = p /\ th'[c].over = over'[p]
  BY <1>0, <1>4, <1>6 DEF At, From, Counters
<1>9. OneClaims(c, p)
  BY <1>0, <1>1, <1>3, <1>5, <1>7, <1>8 DEF OneClaims, Counters
<1>10. UNCHANGED <<opt, over, head, tail>>
  BY <1>0 DEF Counters
<1> HIDE DEF p
<1>11. Conserves(c, p)
  BY <1>2, <1>3, <1>7, <1>10 DEF Conserves
<1> QED
  BY <1>2, <1>9, <1>11, ClaimEnds

\* A counter of the producer that c asks becomes another number.
Alters(f, g, c) ==
    g \in [Producer -> Nat] /\ \A p \in Producer \ {From(c)} : g[p] = f[p]

LEMMA StepsClaim ==
    ASSUME CountedInv, NEW c \in Consumer, NEW l, th' = [th EXCEPT ![c] = l],
           th[c].pc \in {"claim", "check", "giveBack", "head"}, ConsumerAt(l),
           l.pc # "claim", "ask" \in DOMAIN l => l.ask = th[c].ask \/ ~ l.pc \in Counting,
           UNCHANGED <<list, tail>>, Alters(opt, opt', c), Alters(over, over', c),
           Alters(head, head', c)
    PROVE  OneClaims(c, From(c)) /\ From(c) \in Producer /\ th'[c] = l
<1> DEFINE p == From(c)
<1>0. CountTypes /\ c \in Thread /\ c \notin Producer /\ DOMAIN th = Thread
  BY Roles DEF CountedInv, CountTypes
<1>1. th[c].ask \in Asking /\ p \in Producer
  BY <1>0, LocalAt, FromType DEF Wanting, Counting
<1>2. CountTypes'
  <2>1. \A m : ProducerAt(m) <=> ProducerAt(m)'
    BY DEF ProducerAt, Enqueuing, Getting, GivingUp
  <2>2. Asking' = Asking
    BY DEF Asking
  <2>3. \A m : ConsumerAt(m) <=> ConsumerAt(m)'
    BY <2>2 DEF ConsumerAt, Asked, Wanting, Claiming, Moving, Resting
  <2>4. /\ list' \in Seq(Producer) /\ tail' \in [Producer -> Nat] /\ head' \in [Producer -> Nat]
        /\ opt' \in [Producer -> Nat] /\ over' \in [Producer -> Nat] /\ DOMAIN th' = Thread
    BY <1>0 DEF CountTypes, Alters
  <2>5. \A q \in Producer : ProducerAt(th'[q])
    BY <1>0 DEF CountTypes
  <2>6. \A d \in Consumer : ConsumerAt(th'[d])
    BY <1>0, Roles DEF CountTypes
  <2> QED
    BY <2>1, <2>3, <2>4, <2>5, <2>6 DEF CountTypes
<1>3. th'[c] = l /\ \A d \in Consumer \ {c} : th'[d] = th[d]
  BY <1>0
<1>4. /\ \A q \in Producer \ {p} : opt'[q] = opt[q] /\ over'[q] = over[q] /\ head'[q] = head[q]
      /\ ~ At(c, "claim")'
  BY <1>3 DEF Alters, At
<1>5. \A q \in Producer \ {p} : \A last : Held(c, q) = 0 /\ Gets(c, q, last) = 0
  BY DEF Held, Gets
<1>6. \A q \in Producer \ {p} : \A last : Held(c, q)' = 0 /\ Gets(c, q, last)' = 0
  <2>1. CASE "ask" \in DOMAIN l /\ l.ask = th[c].ask
    <3>1. From(c)' = p
      BY <1>3, <2>1 DEF From
    <3> QED
      BY <3>1 DEF Held, Gets
  <2>2. CASE ~ l.pc \in Counting
    BY <1>3, <2>2, QuietHoldsToo DEF Counting
  <2>3. CASE "ask" \notin DOMAIN l
    BY <1>3, <2>3 DEF Held, Gets
  <2> QED
    BY <2>1, <2>2, <2>3
<1> QED
  BY <1>0, <1>1, <1>2, <1>3, <1>4, <1>5, <1>6 DEF OneClaims

LEMMA ClaimCounted ==
    ASSUME CountedInv, NEW c \in Consumer, Claim(c)
    PROVE  CountedInv'
<1> DEFINE p == From(c)
           n == th[c].n
           first == opt[p] - th[c].over
           l == [pc |-> "check", ask |-> th[c].ask, n |-> n, first |-> first]
<1>0. /\ th[c].pc = "claim" /\ th' = [th EXCEPT ![c] = l]
      /\ opt' = [opt EXCEPT ![p] = @ + n] /\ UNCHANGED <<list, tail, over, head>>
  BY DEF Claim, At, Go
<1>1. /\ th[c] \in [pc : {"claim"}, ask : Asking, over : Nat, n : Nat \ {0}]
      /\ Wanting(th[c]) /\ CountTypes
  BY <1>0, LocalAt DEF CountedInv, Counting
<1>2. p \in Producer
  BY <1>1, FromType
<1>3. /\ tail[p] \in Nat /\ opt[p] \in Nat /\ over[p] \in Nat /\ head[p] \in Nat
      /\ n \in Nat \ {0} /\ th[c].over \in Nat /\ CountInv(p)
  BY <1>1, <1>2 DEF CountTypes, CountedInv
<1>4. th[c].over <= over[p]
  BY <1>0, <1>3 DEF CountInv, At
<1>5. Total(AllHeld(p)) \in Nat
  BY <1>1, <1>2, HeldTypes, TokensFinite
<1>6. first \in Nat /\ first >= head[p] + Total(AllHeld(p))
  BY <1>3, <1>4, <1>5 DEF CountInv
<1>7. ConsumerAt(l)
  BY <1>1, <1>3, <1>6 DEF ConsumerAt, Claiming, Wanting
<1>8. Alters(opt, opt', c) /\ Alters(over, over', c) /\ Alters(head, head', c) /\ UNCHANGED <<list, tail>>
  <2>1. opt[p] + n \in Nat
    BY <1>3
  <2> QED
    BY <1>0, <1>1, <1>2, <2>1 DEF CountTypes, Alters
<1>9. l.pc = "check" /\ l.ask = th[c].ask /\ l.n = n /\ l.first = first
      /\ DOMAIN l = {"pc", "ask", "n", "first"}
  OBVIOUS
<1> HIDE DEF l
<1>10. OneClaims(c, p) /\ th'[c] = l
  BY <1>0, <1>3, <1>7, <1>8, <1>9, StepsClaim
<1>11. From(c)' = p
  BY <1>9, <1>10 DEF From
<1>12. Held(c, p) = 0 /\ Held(c, p)' = n
  <2>1. Held(c, p) = 0
    BY <1>0, QuietHolds
  <2>2. Held(c, p)' = n
    BY <1>9, <1>10, <1>11 DEF Held, At
  <2> QED
    BY <2>1, <2>2
<1>13. ASSUME NEW last \in Nat
       PROVE  Gets(c, p, last) = 0
              /\ Gets(c, p, last)' = IF first < last THEN Smaller(n, last - first) ELSE 0
  <2>1. Gets(c, p, last) = 0
    BY <1>0, QuietHolds
  <2>2. Gets(c, p, last)' = IF first < last THEN Smaller(n, last - first) ELSE 0
    BY <1>9, <1>10, <1>11 DEF Gets, At, Smaller
  <2> QED
    BY <2>1, <2>2
<1>14. opt'[p] = opt[p] + n /\ over'[p] = over[p] /\ head'[p] = head[p]
  BY <1>0, <1>1, <1>2 DEF CountTypes
<1>15. ASSUME NEW last \in Nat, tail[p] <= last
       PROVE \/ head'[p] + Gets(c, p, last)' <= head[p] + Gets(c, p, last)
             \/ /\ head'[p] = head[p] /\ Gets(c, p, last) = 0
                /\ head[p] + Total(AllHeld(p)) + Gets(c, p, last)' <= last
  BY <1>3, <1>5, <1>6, <1>13, <1>14 DEF Smaller
<1> HIDE DEF p, n, first
<1>16. opt'[p] - over'[p] - head'[p] - Held(c, p)' = opt[p] - over[p] - head[p] - Held(c, p)
  BY <1>3, <1>12, <1>14
<1>17. Conserves(c, p)
  BY <1>3, <1>14, <1>15, <1>16 DEF Conserves
<1> QED
  BY <1>2, <1>10, <1>17, ClaimEnds

LEMMA CheckCounted ==
    ASSUME CountedInv, NEW c \in Consumer, Check(c)
    PROVE  CountedInv'
<1> DEFINE p == From(c)
           n == IF Actual(c) > 0 THEN Actual(c) ELSE 0
           l == [pc |-> IF n < th[c].n THEN "giveBack" ELSE "head",
                 ask |-> th[c].ask, n |-> n, back |-> th[c].n - n]
<1>0. th[c].pc = "check" /\ th' = [th EXCEPT ![c] = l] /\ UNCHANGED <<list, Counters>>
  BY DEF Check, At, Go, SomeMissing, places, Counters
<1>1. /\ th[c] \in [pc : {"check"}, ask : Asking, n : Nat \ {0}, first : Nat]
      /\ Wanting(th[c]) /\ CountTypes
  BY <1>0, LocalAt DEF CountedInv, Counting
<1>2. p \in Producer
  BY <1>1, FromType
<1>3. /\ tail[p] \in Nat /\ opt[p] \in Nat /\ over[p] \in Nat /\ head[p] \in Nat
      /\ th[c].n \in Nat \ {0} /\ th[c].first \in Nat /\ CountInv(p)
  BY <1>1, <1>2 DEF CountTypes, CountedInv
<1>4. n \in Nat /\ n <= th[c].n /\ n = IF tail[p] <= th[c].first THEN 0
                                       ELSE Smaller(th[c].n, tail[p] - th[c].first)
  BY <1>3 DEF Actual, Smaller
<1>5. /\ l.pc \in {"giveBack", "head"} /\ l.ask = th[c].ask /\ l.n = n /\ l.back = th[c].n - n
      /\ l.pc = "head" => n = th[c].n
      /\ l = [pc |-> l.pc, ask |-> th[c].ask, n |-> n, back |-> th[c].n - n]
  BY <1>3, <1>4
<1> HIDE DEF l, n
<1>6. th[c].n - n \in Nat /\ (n = th[c].n => th[c].n - n = 0 /\ n \in Nat \ {0})
  BY <1>3, <1>4
<1>7. ConsumerAt(l)
  <2>1. Wanting(l)
    <3>1. th[c].ask.max \in Nat
      BY <1>1 DEF Asking
    <3> QED
      BY <1>1, <1>3, <1>4, <1>5, <3>1 DEF Wanting
  <2>2. Claiming(l)
    BY <1>1, <1>4, <1>5, <1>6 DEF Claiming, Wanting
  <2> QED
    BY <2>1, <2>2 DEF ConsumerAt
<1>8. Alters(opt, opt', c) /\ Alters(over, over', c) /\ Alters(head, head', c) /\ UNCHANGED <<list, tail>>
  BY <1>0, <1>1, <1>2 DEF CountTypes, Alters, Counters
<1>10. OneClaims(c, p) /\ th'[c] = l
  BY <1>0, <1>1, <1>3, <1>7, <1>8, <1>5, StepsClaim
<1>11. From(c)' = p
  BY <1>5, <1>10 DEF From
<1>12. Held(c, p) = th[c].n /\ Held(c, p)' = th[c].n
  <2>1. Held(c, p) = th[c].n
    BY <1>0, <1>1 DEF Held, At
  <2>2. Held(c, p)' = n + (th[c].n - n)
    BY <1>5, <1>10, <1>11 DEF Held, At
  <2> QED
    BY <1>3, <1>4, <2>1, <2>2
<1>13. ASSUME NEW last \in Nat
       PROVE  /\ Gets(c, p, last) = IF th[c].first < last
                                    THEN Smaller(th[c].n, last - th[c].first) ELSE 0
              /\ Gets(c, p, last)' = n
  <2>1. Gets(c, p, last) = IF th[c].first < last THEN Smaller(th[c].n, last - th[c].first) ELSE 0
    BY <1>0, <1>1 DEF Gets, At
  <2>2. Gets(c, p, last)' = n
    BY <1>5, <1>10, <1>11 DEF Gets, At
  <2> QED
    BY <2>1, <2>2
<1>14. opt'[p] = opt[p] /\ over'[p] = over[p] /\ head'[p] = head[p]
  BY <1>0 DEF Counters
<1>15. ASSUME NEW last \in Nat, tail[p] <= last
       PROVE  head'[p] + Gets(c, p, last)' <= head[p] + Gets(c, p, last)
  <2>1. n <= Gets(c, p, last)
    BY <1>3, <1>4, <1>13, <1>15 DEF Smaller
  <2> QED
    BY <1>3, <1>4, <1>13, <1>14, <2>1 DEF Smaller
<1> HIDE DEF p
<1>16. opt'[p] - over'[p] - head'[p] - Held(c, p)' = opt[p] - over[p] - head[p] - Held(c, p)
  BY <1>3, <1>12, <1>14
<1>17. Conserves(c, p)
  BY <1>3, <1>14, <1>15, <1>16 DEF Conserves
<1> QED
  BY <1>2, <1>10, <1>17, ClaimEnds

LEMMA GiveBackCounted ==
    ASSUME CountedInv, NEW c \in Consumer, GiveBack(c)
    PROVE  CountedInv'
<1> DEFINE p == From(c)
           n == th[c].n
           l == IF n > 0 THEN [th[c] EXCEPT !.pc = "head", !.back = 0] ELSE Then(th[c].ask, 0)
<1>0. /\ th[c].pc = "giveBack" /\ th' = [th EXCEPT ![c] = l] /\ UNCHANGED <<list, opt, tail, head>>
      /\ over' = [over EXCEPT ![p] = @ + th[c].back]
  BY DEF GiveBack, At, Go
<1>1. /\ th[c] \in [pc : {"giveBack"}, ask : Asking, n : Nat, back : Nat]
      /\ Wanting(th[c]) /\ CountTypes
  BY <1>0, LocalAt DEF CountedInv, Counting
<1>2. p \in Producer
  BY <1>1, FromType
<1>3. /\ tail[p] \in Nat /\ opt[p] \in Nat /\ over[p] \in Nat /\ head[p] \in Nat
      /\ n \in Nat /\ th[c].back \in Nat /\ CountInv(p)
  BY <1>1, <1>2 DEF CountTypes, CountedInv
<1>4. /\ ConsumerAt(l)
      /\ n > 0 => /\ l.pc = "head" /\ l.ask = th[c].ask /\ l.n = n /\ l.back = 0
                  /\ DOMAIN l = {"pc", "ask", "n", "back"}
      /\ n = 0 => l.pc \in {"idle", "load"}
  <2>1. CASE n > 0
    <3>1. l \in [pc : {"head"}, ask : Asking, n : Nat \ {0}, back : {0}]
      <4>1. l = [pc |-> "head", ask |-> th[c].ask, n |-> n, back |-> 0]
        BY <1>1, <2>1
      <4>2. n \in Nat \ {0} /\ th[c].ask \in Asking
        BY <1>1, <1>3, <2>1
      <4> HIDE DEF l
      <4> QED
        BY <4>1, <4>2
    <3>2. l.ask = th[c].ask /\ l.n = n /\ Wanting(l)
      BY <1>1, <2>1 DEF Wanting
    <3> HIDE DEF l
    <3> QED
      BY <1>3, <2>1, <3>1, <3>2 DEF ConsumerAt, Claiming
  <2>2. CASE ~ n > 0
    <3>0. list \in Seq(Producer) /\ 0 \in Nat /\ 0 <= th[c].ask.max
      BY <1>1, <1>2 DEF CountTypes, Asking
    <3>1. Resting(Then(th[c].ask, 0))
      BY <1>1, <3>0, ThenType
    <3> QED
      BY <2>2, <3>1 DEF ConsumerAt, Asked, Resting, Idle
  <2> QED
    BY <1>3, <2>1, <2>2
<1>8. Alters(opt, opt', c) /\ Alters(over, over', c) /\ Alters(head, head', c) /\ UNCHANGED <<list, tail>>
  <2>1. over[p] + th[c].back \in Nat
    BY <1>3
  <2> QED
    BY <1>0, <1>1, <1>2, <2>1 DEF CountTypes, Alters
<1> HIDE DEF l
<1>9. l.pc # "claim" /\ (l.ask = th[c].ask \/ ~ l.pc \in Counting)
  BY <1>3, <1>4 DEF Counting
<1>10. OneClaims(c, p) /\ th'[c] = l
  BY <1>0, <1>1, <1>3, <1>4, <1>8, <1>9, StepsClaim
<1>12. Held(c, p) = n + th[c].back /\ Held(c, p)' = n
  <2>1. Held(c, p) = n + th[c].back
    BY <1>0, <1>1 DEF Held, At
  <2>2. CASE n > 0
    <3>1. From(c)' = p
      BY <1>4, <1>10, <2>2 DEF From
    <3>2. Held(c, p)' = n + 0
      BY <1>4, <1>10, <2>2, <3>1 DEF Held, At
    <3> QED
      BY <1>3, <2>1, <3>2
  <2>3. CASE n = 0
    BY <1>4, <1>10, <2>1, <2>3, QuietHoldsToo
  <2> QED
    BY <1>3, <2>2, <2>3
<1>13. ASSUME NEW last \in Nat
       PROVE  Gets(c, p, last) = n /\ Gets(c, p, last)' = n
  <2>1. Gets(c, p, last) = n
    BY <1>0, <1>1 DEF Gets, At
  <2>2. CASE n > 0
    <3>1. From(c)' = p
      BY <1>4, <1>10, <2>2 DEF From
    <3>2. Gets(c, p, last)' = n
      BY <1>4, <1>10, <2>2, <3>1 DEF Gets, At
    <3> QED
      BY <2>1, <3>2
  <2>3. CASE n = 0
    BY <1>4, <1>10, <2>1, <2>3, QuietHoldsToo
  <2> QED
    BY <1>3, <2>2, <2>3
<1>14. opt'[p] = opt[p] /\ over'[p] = over[p] + th[c].back /\ head'[p] = head[p]
  BY <1>0, <1>1, <1>2 DEF CountTypes
<1> HIDE DEF p, n
<1>15. ASSUME NEW last \in Nat, tail[p] <= last
       PROVE  head'[p] + Gets(c, p, last)' <= head[p] + Gets(c, p, last)
  BY <1>3, <1>13, <1>14
<1>16. opt'[p] - over'[p] - head'[p] - Held(c, p)' = opt[p] - over[p] - head[p] - Held(c, p)
  BY <1>3, <1>12, <1>14
<1>17. over'[p] >= over[p]
  BY <1>3, <1>14
<1>18. Conserves(c, p)
  BY <1>15, <1>16, <1>17 DEF Conserves
<1> QED
  BY <1>2, <1>10, <1>18, ClaimEnds

LEMMA TakeHeadCounted ==
    ASSUME CountedInv, NEW c \in Consumer, TakeHead(c)
    PROVE  CountedInv'
<1> DEFINE p == From(c)
           n == th[c].n
           l == [pc |-> "find", ask |-> th[c].ask, n |-> n, at |-> head[p], end |-> head[p] + n]
<1>0. /\ th[c].pc = "head" /\ th' = [th EXCEPT ![c] = l] /\ UNCHANGED <<list, opt, tail, over>>
      /\ head' = [head EXCEPT ![p] = @ + n]
  BY DEF TakeHead, At, Go
<1>1. /\ th[c] \in [pc : {"head"}, ask : Asking, n : Nat \ {0}, back : {0}]
      /\ Wanting(th[c]) /\ CountTypes
  BY <1>0, LocalAt DEF CountedInv, Counting
<1>2. p \in Producer
  BY <1>1, FromType
<1>3. /\ tail[p] \in Nat /\ opt[p] \in Nat /\ over[p] \in Nat /\ head[p] \in Nat
      /\ n \in Nat \ {0} /\ th[c].back = 0 /\ CountInv(p)
  BY <1>1, <1>2 DEF CountTypes, CountedInv
<1>7. ConsumerAt(l)
  BY <1>1, <1>3 DEF ConsumerAt, Asked, Moving, Wanting
<1>8. Alters(opt, opt', c) /\ Alters(over, over', c) /\ Alters(head, head', c) /\ UNCHANGED <<list, tail>>
  <2>1. head[p] + n \in Nat
    BY <1>3
  <2> QED
    BY <1>0, <1>1, <1>2, <2>1 DEF CountTypes, Alters
<1>9. l.pc = "find"
  OBVIOUS
<1> HIDE DEF l
<1>10. OneClaims(c, p) /\ th'[c] = l
  BY <1>0, <1>3, <1>7, <1>8, <1>9, StepsClaim DEF Counting
<1>12. Held(c, p) = n /\ Held(c, p)' = 0
  <2>1. Held(c, p) = n + 0
    BY <1>0, <1>1, <1>3 DEF Held, At
  <2>2. Held(c, p)' = 0
    BY <1>9, <1>10, QuietHoldsToo
  <2> QED
    BY <1>3, <2>1, <2>2
<1>13. ASSUME NEW last \in Nat
       PROVE  Gets(c, p, last) = n /\ Gets(c, p, last)' = 0
  <2>1. Gets(c, p, last) = n
    BY <1>0, <1>1 DEF Gets, At
  <2>2. Gets(c, p, last)' = 0
    BY <1>9, <1>10, QuietHoldsToo
  <2> QED
    BY <2>1, <2>2
<1>14. opt'[p] = opt[p] /\ over'[p] = over[p] /\ head'[p] = head[p] + n
  BY <1>0, <1>1, <1>2 DEF CountTypes
<1> HIDE DEF p, n
<1>15. ASSUME NEW last \in Nat, tail[p] <= last
       PROVE  head'[p] + Gets(c, p, last)' <= head[p] + Gets(c, p, last)
  BY <1>3, <1>13, <1>14
<1>16. opt'[p] - over'[p] - head'[p] - Held(c, p)' = opt[p] - over[p] - head[p] - Held(c, p)
  BY <1>3, <1>12, <1>14
<1>17. Conserves(c, p)
  BY <1>3, <1>14, <1>15, <1>16 DEF Conserves
<1> QED
  BY <1>2, <1>10, <1>17, ClaimEnds

LEMMA JoinCounted ==
    ASSUME CountedInv, NEW p, UNCHANGED <<th, Counters>>,
           list' = list \/ (p \in Producer /\ list' = <<p>> \o list)
    PROVE  CountedInv'
<1>0. CountTypes
  BY DEF CountedInv
<1>1. list' \in Seq(Producer) /\ ToSet(list) \subseteq ToSet(list')
  <2>0. list \in Seq(Producer)
    BY <1>0 DEF CountTypes
  <2>2. CASE p \in Producer /\ list' = <<p>> \o list
    <3>0. <<p>> \in Seq(Producer) /\ Len(<<p>>) = 1
      BY <2>2
    <3>1. /\ list' \in Seq(Producer) /\ Len(list') = 1 + Len(list)
          /\ \A i \in 1 .. 1 + Len(list) : list'[i] = IF i <= 1 THEN <<p>>[i] ELSE list[i - 1]
      BY <2>0, <2>2, <3>0, ConcatProperties
    <3>2. ASSUME NEW x \in ToSet(list) PROVE x \in ToSet(list')
      <4>1. PICK i \in DOMAIN list : x = list[i]
        BY DEF ToSet
      <4>2. i \in 1 .. Len(list) /\ Len(list) \in Nat
        BY <2>0, <4>1, LenProperties
      <4>3. i + 1 \in 1 .. 1 + Len(list) /\ list'[i + 1] = x
        BY <3>1, <4>1, <4>2
      <4>4. i + 1 \in DOMAIN list'
        BY <3>1, <4>3, LenProperties
      <4> QED
        BY <4>3, <4>4 DEF ToSet
    <3> QED
      BY <3>1, <3>2
  <2> QED
    BY <2>0, <2>2
<1>2. Asking \subseteq Asking'
  BY <1>1 DEF Asking
<1>3. \A m : ProducerAt(m) => ProducerAt(m)'
  BY DEF ProducerAt, Enqueuing, Getting, GivingUp
<1>4. ASSUME NEW m, ConsumerAt(m) PROVE ConsumerAt(m)'
  <2>1. \A x : Resting(x) => Resting(x)'
    BY <1>2 DEF Resting
  <2>2. \A x : (Wanting(x) => Wanting(x)') /\ (Moving(x) <=> Moving(x)')
    BY <1>2 DEF Wanting, Moving
  <2>3. \A x : Asked(x) => Asked(x)'
    BY <2>1, <2>2 DEF Asked
  <2>4. Claiming(m) => Claiming(m)'
    BY <1>2 DEF Claiming
  <2> QED
    BY <1>4, <2>2, <2>3, <2>4 DEF ConsumerAt
<1>5. CountTypes'
  BY <1>0, <1>1, <1>3, <1>4 DEF CountTypes, Counters
<1>6. ASSUME NEW q \in Producer PROVE CountInv(q)'
  <2>1. /\ tail'[q] \in Nat /\ tail'[q] >= tail[q] /\ UNCHANGED <<head, opt, over>>
        /\ CountInv(q)
    BY <1>0 DEF CountTypes, Counters, CountedInv
  <2> QED
    BY <1>0, <2>1, SameHolds, KeepCount
<1> QED
  BY <1>5, <1>6 DEF CountedInv

LEMMA PublishCounted ==
    ASSUME CountedInv, NEW p \in Producer, Publish(p)
    PROVE  CountedInv'
<1>0. /\ th[p].pc = "publish" /\ th' = [th EXCEPT ![p] = Idle]
      /\ tail' = [tail EXCEPT ![p] = @ + th[p].n] /\ UNCHANGED <<list, head, opt, over>>
  BY DEF Publish, At, Go
<1>1. CountTypes
  BY DEF CountedInv
<1>2. th[p].n \in Nat
  <2>1. ~ (Enqueuing(th[p]) \/ Getting(th[p]) \/ GivingUp(th[p]) \/ th[p].pc \in Putting)
    BY <1>0 DEF Enqueuing, Getting, GivingUp, Idle, Putting
  <2>2. ProducerAt(th[p])
    BY <1>1 DEF CountTypes
  <2> QED
    BY <2>1, <2>2 DEF ProducerAt
<1>3. tail[p] + th[p].n \in Nat
  BY <1>1, <1>2 DEF CountTypes
<1>4. /\ tail' \in [Producer -> Nat] /\ \A q \in Producer : tail'[q] >= tail[q]
  BY <1>0, <1>1, <1>2, <1>3 DEF CountTypes
<1>5. \A m : ProducerAt(m) <=> ProducerAt(m)'
  BY DEF ProducerAt, Enqueuing, Getting, GivingUp
<1>6. Asking' = Asking
  BY <1>0 DEF Asking
<1>7. \A m : ConsumerAt(m) <=> ConsumerAt(m)'
  BY <1>6 DEF ConsumerAt, Asked, Wanting, Claiming, Moving, Resting
<1>8. /\ DOMAIN th' = Thread /\ \A c \in Consumer : th'[c] = th[c]
      /\ \A q \in Producer : ProducerAt(th'[q])
  <2>1. ProducerAt(Idle)
    BY DEF ProducerAt, GivingUp
  <2> QED
    BY <1>0, <1>1, <2>1, Roles DEF CountTypes
<1>9. CountTypes'
  BY <1>0, <1>1, <1>4, <1>5, <1>7, <1>8 DEF CountTypes
<1>10. ASSUME NEW q \in Producer PROVE CountInv(q)'
  <2>1. tail'[q] \in Nat /\ tail'[q] >= tail[q] /\ UNCHANGED <<head, opt, over>> /\ CountInv(q)
    BY <1>0, <1>4 DEF CountedInv
  <2> QED
    BY <1>1, <1>8, <2>1, SameHolds, KeepCount
<1> QED
  BY <1>9, <1>10 DEF CountedInv

LEMMA InitCounted == Init => CountedInv
<1> SUFFICES ASSUME Init PROVE CountedInv
  OBVIOUS
<1>1. CountTypes
  BY DEF Init, CountTypes, ProducerAt, GivingUp, ConsumerAt, Asked, Resting, Thread
<1>2. ASSUME NEW p \in Producer PROVE CountInv(p)
  <2>1. \A c \in Consumer : Held(c, p) = 0 /\ \A last : Gets(c, p, last) = 0
    BY DEF Init, Held, Gets, Idle, Thread
  <2>2. ASSUME NEW f \in [Consumer -> Nat], \A c \in Consumer : f[c] = 0 PROVE Total(f) = 0
    <3>1. Tokens(f) = {}
      BY <2>2 DEF Tokens
    <3> QED
      BY <3>1, FS_EmptySet DEF Total
  <2>3. Total(AllHeld(p)) = 0 /\ \A last \in Nat : Total(AllGot(p, last)) = 0
    <3>1. AllHeld(p) \in [Consumer -> Nat] /\ \A last \in Nat : AllGot(p, last) \in [Consumer -> Nat]
      BY <2>1 DEF AllHeld, AllGot
    <3>2. \A c \in Consumer : AllHeld(p)[c] = 0 /\ \A last \in Nat : AllGot(p, last)[c] = 0
      BY <2>1 DEF AllHeld, AllGot
    <3> QED
      BY <2>2, <3>1, <3>2
  <2>4. tail[p] = 0 /\ head[p] = 0 /\ opt[p] = 0 /\ over[p] = 0
    BY DEF Init
  <2>5. \A c \in Consumer : ~ At(c, "claim")
    BY DEF Init, At, Idle, Thread
  <2> QED
    BY <2>3, <2>4, <2>5 DEF CountInv
<1> QED
  BY <1>1, <1>2 DEF CountedInv

LEMMA NextCounted == CountedInv /\ [Next]_vars => CountedInv'
<1> SUFFICES ASSUME CountedInv, [Next]_vars PROVE CountedInv'
  OBVIOUS
<1>0. CountTypes /\ Producer \subseteq Thread /\ Consumer \subseteq Thread
  BY Roles DEF CountedInv
<1>1. ASSUME NEW p \in Producer, Produce(p) PROVE CountedInv'
  <2>1. CASE Stays(p) /\ UNCHANGED <<list, Counters>>
    BY <1>0, <2>1, StaysCounted DEF CountedInv
  <2>2. CASE UNCHANGED <<th, Counters>> /\ list' \in {list, <<p>> \o list}
    BY <2>2, JoinCounted
  <2> QED
    BY <1>0, <1>1, <2>1, <2>2, ProduceStays, PublishCounted
<1>2. ASSUME NEW c \in Consumer, Consume(c) PROVE CountedInv'
  <2>1. CASE \/ \E max \in Maxes[c] : Dequeue(c, max)
             \/ Find(c) \/ Move(c) \/ Forget(c) \/ Release(c)
    <3>1. (Stays(c) \/ UNCHANGED th) /\ UNCHANGED <<list, Counters>>
      BY <1>0, <2>1, ConsumeStays
    <3>2. CASE Stays(c)
      BY <1>0, <3>1, <3>2, StaysCounted DEF CountedInv
    <3>3. CASE UNCHANGED th
      BY <3>1, <3>3, JoinCounted
    <3> QED
      BY <3>1, <3>2, <3>3
  <2> QED
    BY <1>2, <2>1, TestCounted, ClaimCounted, CheckCounted, GiveBackCounted, TakeHeadCounted
       DEF Consume
<1>3. ASSUME NEW t \in Thread, FreeListStep(t) PROVE CountedInv'
  BY <1>0, <1>3, FreeListStays, StaysCounted DEF CountedInv
<1>4. CASE UNCHANGED vars
  BY <1>4, JoinCounted DEF vars, places, Counters
<1> QED
  BY <1>1, <1>2, <1>3, <1>4 DEF Next

\* Theorem: once nobody is asking a producer, what was claimed in vain has been given back
\* exactly, and no more was taken than was published, however the dequeues of
\* ImplicitProducer::dequeue and dequeue_bulk and the enqueues interleave.
THEOREM QueueCounted == Spec => []Counted
<1>1. CountedInv => Counted
  <2> SUFFICES ASSUME CountedInv, NEW p \in Producer,
                      \A c \in Consumer : "ask" \notin DOMAIN th[c] \/ From(c) # p
               PROVE  opt[p] - over[p] = head[p] /\ head[p] <= tail[p]
    BY DEF Counted
  <2>1. \A c \in Consumer : Held(c, p) = 0 /\ \A last : Gets(c, p, last) = 0
    BY DEF Held, Gets
  <2>2. CountTypes /\ tail[p] \in Nat /\ head[p] \in Nat /\ CountInv(p)
    BY DEF CountedInv, CountTypes
  <2>3. AllHeld(p) \in [Consumer -> Nat] /\ AllGot(p, tail[p]) \in [Consumer -> Nat]
    BY <2>2, HeldTypes
  <2>4. Tokens(AllHeld(p)) = {} /\ Tokens(AllGot(p, tail[p])) = {}
    BY <2>1, <2>3 DEF Tokens, AllHeld, AllGot
  <2>5. Total(AllHeld(p)) = 0 /\ Total(AllGot(p, tail[p])) = 0
    BY <2>4, FS_EmptySet DEF Total
  <2> QED
    BY <2>2, <2>5 DEF CountInv
<1> QED
  BY <1>1, InitCounted, NextCounted, PTL DEF Spec

-----------------------------------------------------------------------------
(* The invariant of the queue.  A local says which call of enqueue its      *)
(* thread is in, what a dequeue has claimed, the blocks in the hands of the *)
(* thread and the block of the free list that it reads.                     *)

Calls == {"place", "index", "pool", "malloc", "undo"}
NoCall == [pc |-> "idle", chain |-> <<>>, slot |-> None]
InCall(l) ==
    IF l.pc \in Calls THEN l
    ELSE IF "then" \notin DOMAIN l THEN NoCall
    ELSE IF l.then.pc \in Calls THEN l.then
    ELSE IF l.then.pc = "getRef" THEN l.then.then ELSE NoCall

Takings == {"find", "entry", "move", "forget"}
InClaim(l) ==
    IF l.pc \in Takings THEN l
    ELSE IF "then" \notin DOMAIN l THEN Idle
    ELSE IF l.then.pc \in Takings THEN l.then ELSE Idle

BehindIn(l) == IF "then" \notin DOMAIN l THEN <<>>
              ELSE IF l.then.pc = "giveUp" THEN l.then.chain ELSE <<>>
Hands(l) ==
    CASE l.pc \in Putting \cup {"getDone", "release"} -> {l.node} \cup ToSet(BehindIn(l))
      [] l.pc = "giveUp" -> ToSet(l.chain)
      [] OTHER -> {}

Reads(l) ==
    CASE l.pc = "getNext" -> {l.head}
      [] l.pc \in {"getCas", "unref"} -> {l.node}
      [] OTHER -> {}

-----------------------------------------------------------------------------
(* The types of the state and of the locals of the threads. *)

Link == Block \cup {None}
CallAt(pcs) ==
    [pc : pcs, n : Nat \ {0}, bases : Seq(Nat), chain : Seq(Block), slot : Nat \cup {None}]
GiveUps == {Idle} \cup [pc : {"giveUp"}, chain : Seq(Block) \ {<<>>}]
GetIn(then) ==
    [pc : {"getHead"}, then : then]
    \cup [pc : {"getRef"}, head : Link, then : then]
    \cup [pc : {"getNext"}, head : Block, then : then]
    \cup [pc : {"getCas"}, node : Block, next : Link, then : then]
    \cup [pc : {"getDone"}, node : Block, then : then]
    \cup [pc : {"unref"}, node : Block, head : Link, then : then]
PutIn(then) ==
    [pc : {"put"}, node : Block, then : then]
    \cup [pc : {"putCas", "putBack"}, node : Block, head : Link, then : then]
AfterPut == GiveUps \cup [pc : {"getRef"}, head : Link, then : CallAt({"pool"})]
Enq == CallAt(Calls) \cup GetIn(CallAt({"pool"})) \cup GiveUps
       \cup [pc : {"publish"}, n : Nat \ {0}] \cup PutIn(AfterPut)

Taking(l) ==
    /\ l \in [pc : {"find"}, ask : {l.ask}, n : {l.n}, at : Nat, end : Nat]
             \cup [pc : {"entry", "move", "forget"}, ask : {l.ask}, n : {l.n}, at : Nat,
                   end : Nat, gen : Nat \ {0}, slot : Nat]
    /\ l.at < l.end
NextUp(l) == l.pc \in {"idle", "load"} \/ (l.pc = "move" /\ Taking(l))
Deq(l) ==
    \/ l.pc \in {"idle", "load"} \cup Counting
    \/ l.pc \in Takings /\ Taking(l)
    \/ l.pc \in Putting \cup {"release"} /\ NextUp(l.then)
       /\ l \in [pc : {"release"}, node : Block, then : {l.then}] \cup PutIn({l.then})

Index == UNION {[cap : {n}, tail : 0 .. n - 1, slots : [0 .. n - 1 -> 1 .. n]] : n \in Nat \ {0}}
Types ==
    /\ tailBlock \in [Producer -> Link]
    /\ header \in [Producer -> Seq(Index)]
    /\ entry \in [Producer -> Seq([key : Nat \cup {None}, value : Link])]
    /\ block \in [Block -> [cells : [0 .. BlockSize - 1 -> (Producer \X Nat) \cup {None}],
                            done : Nat]]
    /\ free \in Link /\ next \in [Block -> Link]
    /\ refs \in [Block -> [n : Nat, should : BOOLEAN]]
    /\ fresh \subseteq Block /\ pooled \in Nat
    /\ \A p \in Producer : th[p] \in Enq
    /\ \A c \in Consumer : Deq(th[c])

-----------------------------------------------------------------------------
(* The block index of a producer.  Block number k holds the places from     *)
(* k * BlockSize on.  A phase of an index is what its slots are shifted by: *)
(* block k is named by slot (f + k) % cap, and every index names the blocks *)
(* that are in use by the entries that the newest one names them by.        *)

Num(i) == i \div BlockSize

Local(p) == InCall(th[p])
Chain(p) == Local(p).chain
Tried(p) == Local(p).slot
Written(p) == tail[p] + IF At(p, "publish") THEN th[p].n ELSE 0
Known(p) == Num(Written(p) - 1)
Top(p) == Known(p) + Len(Chain(p)) + IF Tried(p) # None THEN 1 ELSE 0

Injective(s) == \A i, j \in DOMAIN s : s[i] = s[j] => i = j
Named(h, f, k) == h.slots[(f + k) % h.cap]

Gens(p) == Len(header[p])
Now(p, ph, k) == Named(header[p][Gens(p)], ph[Gens(p)], k)

\* What a consumer has claimed, and what of it is still to be taken out.
TakenBy(c) == InClaim(th[c])
Takes(c, p) == TakenBy(c) # Idle /\ Head(TakenBy(c).ask.todo) = p
Start(l) == IF l.pc = "forget" THEN (Num(l.at) + 1) * BlockSize ELSE l.at
Owns(c, p, j) == Takes(c, p) /\ Start(TakenBy(c)) <= j /\ j < TakenBy(c).end
Unread(p, k) ==
    {j \in k * BlockSize .. k * BlockSize + BlockSize - 1 :
        j >= head[p] \/ \E c \in Consumer : Owns(c, p, j)}
Used(p, k, i) ==
    i \in DOMAIN entry[p] /\ entry[p][i].value # None /\ entry[p][i].key = k * BlockSize
Forgets(c, p, k) == Takes(c, p) /\ TakenBy(c).pc = "forget" /\ Num(TakenBy(c).at) = k

\* A consumer in a dequeue is at the slot of the block of its next element, by the index
\* that it has read, which may be an old one.
FindsRight(p, ph, l) ==
    l.pc # "find" =>
       LET h == header[p][l.gen]
           f == ph[l.gen]
       IN /\ l.gen \in 1 .. Gens(p) /\ l.slot \in 0 .. h.cap - 1
          /\ IF l.pc = "entry"
             THEN \E k \in Nat : /\ entry[p][h.slots[l.slot]].key = k * BlockSize
                                 /\ l.slot = (f + k) % h.cap
             ELSE l.slot = (f + Num(l.at)) % h.cap
          /\ \A m \in Num(l.at) .. Num(l.end - 1) : Now(p, ph, m) = Named(h, f, m)

\* Every index names the blocks in use as the newest one does, by entries of its own.
Chained(p, ph) ==
    LET h == header[p][Gens(p)] IN
    /\ \A g \in 1 .. Gens(p) :
          /\ Injective(header[p][g].slots) /\ header[p][g].cap <= h.cap
          /\ \A k \in Nat : \/ Now(p, ph, k) = Named(header[p][g], ph[g], k)
                            \/ Now(p, ph, k) > header[p][g].cap
    /\ IF Gens(p) = 0 THEN entry[p] = <<>> /\ Top(p) = -1
       ELSE Len(entry[p]) = h.cap /\ h.tail = (ph[Gens(p)] + Top(p)) % h.cap
Holds(p, ph, k, b) == entry[p][Now(p, ph, k)] = [key |-> k * BlockSize, value |-> b]
\* An entry with a block has the key of the block that its slot stands for; so have the
\* blocks of a call that is not published yet.
Keyed(p, ph) ==
    /\ \A i \in DOMAIN entry[p] : entry[p][i].value # None =>
          \E k \in 0 .. Top(p) :
             /\ Top(p) - k < header[p][Gens(p)].cap /\ i = Now(p, ph, k)
             /\ \A m \in k .. Top(p) : entry[p][Now(p, ph, m)].key = m * BlockSize
    /\ Tried(p) # None => /\ Tried(p) \in DOMAIN entry[p] /\ Tried(p) = Now(p, ph, Top(p))
                          /\ Holds(p, ph, Top(p), None)
    /\ \A j \in DOMAIN Chain(p) : Holds(p, ph, Known(p) + j, Chain(p)[j])
Phased(p, ph) ==
    /\ Chained(p, ph) /\ Keyed(p, ph)
    /\ \A c \in Consumer : Takes(c, p) => FindsRight(p, ph, TakenBy(c))
IndexInv(p) == \E ph \in [1 .. Gens(p) -> Int] : Phased(p, ph)

\* A call has found a block for each new base before those that are left.
CallInv(p) ==
    LET l == Local(p)
        found == Len(l.chain)
    IN l.pc # "idle" =>
       /\ found + Len(l.bases) = Num(tail[p] + l.n - 1) - Num(tail[p] - 1)
       /\ \A j \in DOMAIN l.bases : l.bases[j] = (Known(p) + found + j) * BlockSize
       /\ l.pc = "place" <=> l.bases = <<>>
       /\ l.pc \in {"index", "place"} => l.slot = None
       /\ l.pc \in {"pool", "malloc"} => l.slot # None

\* A block with an element that somebody will still take is in the index.
Backed(p) ==
    \A k \in 0 .. Known(p) : Unread(p, k) # {} => \E i \in DOMAIN entry[p] : Used(p, k, i)
\* The elements to come of block k are in its cells, the others are counted in done.
Fills(p, k, b) ==
    /\ block[b].done = BlockSize - Cardinality(Unread(p, k))
    /\ \A j \in Unread(p, k) : j < Written(p) => block[b].cells[j % BlockSize] = <<p, j>>
    /\ k = Known(p) => b = tailBlock[p]
Filled(p) ==
    \A k \in Nat : \A i \in DOMAIN entry[p] : Used(p, k, i) => Fills(p, k, entry[p][i].value)
\* A block stays in the index while it has elements to come, or until the one consumer
\* that emptied it takes it out.
Emptied(p) ==
    /\ \A k \in Nat : \A i \in DOMAIN entry[p] :
          Used(p, k, i) /\ Unread(p, k) = {} => \E c \in Consumer : Forgets(c, p, k)
    /\ \A k \in Nat : \A c \in Consumer : Forgets(c, p, k) =>
         /\ Unread(p, k) = {} /\ \E i \in DOMAIN entry[p] : Used(p, k, i)
         /\ \A d \in Consumer : Forgets(d, p, k) => d = c
\* The claims of two consumers do not overlap.
Apart(p) ==
    \A c \in Consumer : Takes(c, p) =>
       /\ TakenBy(c).end <= head[p]
       /\ \A d \in Consumer \ {c} : Takes(d, p) =>
            TakenBy(c).end <= Start(TakenBy(d)) \/ TakenBy(d).end <= Start(TakenBy(c))
LiveInv(p) == head[p] <= tail[p] /\ Backed(p) /\ Filled(p) /\ Emptied(p) /\ Apart(p)

-----------------------------------------------------------------------------
(* The places of a block: it is in just one, and the free list is a stack   *)
(* whose references are those of its readers, one more for a block on it    *)
(* and two for a block that a thread has just taken from it.                *)

LeftOver(b) == refs[b].should /\ refs[b].n > 0
Spot(b, kind, x, i) ==
    \/ kind = "fresh" /\ x = None /\ i = 0 /\ b \in fresh
    \/ kind = "free" /\ x = None /\ i = 0 /\ b \in FreeBlocks
    \/ kind = "left" /\ x = None /\ i = 0 /\ LeftOver(b)
    \/ kind = "index" /\ x \in Producer /\ i \in DOMAIN entry[x] /\ entry[x][i].value = b
    \/ kind = "hand" /\ x \in Thread /\ i = 0 /\ b \in Hands(th[x])
\* b is at this place, and at no other.
IsAt(b, kind, x, i) ==
    /\ Spot(b, kind, x, i)
    /\ \A other, y, j : Spot(b, other, y, j) => other = kind /\ y = x /\ j = i
\* That b is in just one place.
Once(b) == \E kind, x, i : IsAt(b, kind, x, i)

ChainOnce(l) ==
    /\ l.pc = "giveUp" => Injective(l.chain)
    /\ Injective(BehindIn(l))
    /\ l.pc \in Putting => l.node \notin ToSet(BehindIn(l))


\* The free list is a stack.
Stack(s, n) ==
    /\ \A i, j \in 1 .. n : s[i] = s[j] => i = j
    /\ free = IF n = 0 THEN None ELSE s[n]
    /\ \A i \in 1 .. n : next[s[i]] = IF i = 1 THEN None ELSE s[i - 1]
ListInv == \E n \in Nat : \E s \in [1 .. n -> Block] : Stack(s, n)

Readers(b) == {t \in Thread : b \in Reads(th[t])}
Adds(l, b) == l.pc = "put" /\ l.node = b
Returns(l, b) == l.pc \in {"putCas", "putBack"} /\ l.node = b
Obtains(l, b) == l.pc = "getDone" /\ l.node = b
Extra(b) ==
    IF b \in FreeBlocks \/ \E t \in Thread : Returns(th[t], b) THEN 1
    ELSE IF \E t \in Thread : Obtains(th[t], b) THEN 2 ELSE 0
\* freeListRefs of a block counts its readers; one that should be on the list and is read
\* by nobody is being added.
Refs(b) ==
    /\ refs[b].n = Cardinality(Readers(b)) + Extra(b)
    /\ refs[b].should /\ refs[b].n = 0 => \E t \in Thread : Adds(th[t], b)
\* What a thread in the free list has read of the block it is about is still so.
Linked(t) ==
    /\ At(t, "put") => refs[th[t].node].n = 0
    /\ At(t, "getCas") => th[t].next = next[th[t].node]
    /\ At(t, "putCas") => next[th[t].node] = th[t].head

\* A thread goes to the free list only once the initial pool is used up.
PoolInv ==
    /\ Cardinality(fresh) >= PoolSize - pooled
    /\ \A p \in Producer : Local(p).pc \in {"pool", "malloc"} /\ ~ At(p, "pool") => pooled >= PoolSize

PlaceInv ==
    /\ ListInv
    /\ \A b \in Block : Once(b) /\ Refs(b)
    /\ \A t \in Thread : ChainOnce(th[t]) /\ Linked(t)
Owned(p) == CallInv(p) /\ IndexInv(p) /\ LiveInv(p)
Rest == ~ broken /\ Types /\ PlaceInv /\ PoolInv /\ \A p \in Producer : Owned(p)
\* The inductive invariant.
IInv == CountedInv /\ Rest

-----------------------------------------------------------------------------
(* Arithmetic: the number of the block of a place, Num, and remainders, which *)
(* name the slots of an index.                                              *)

LEMMA NumFacts ==
    ASSUME NEW i \in Int
    PROVE  /\ Num(i) \in Int
           /\ i >= 0 => Num(i) \in Nat
           /\ Num(i) * BlockSize <= i /\ i < Num(i) * BlockSize + BlockSize
           /\ i % BlockSize = i - Num(i) * BlockSize
           /\ BaseOf(i) = Num(i) * BlockSize
<1>1. BlockSize \in {2, 4, 8, 16, 32, 64}
  BY SizesArePowers
<1>2. CASE BlockSize = 2
  BY <1>2 DEF Num, BaseOf
<1>3. CASE BlockSize = 4
  BY <1>3 DEF Num, BaseOf
<1>4. CASE BlockSize = 8
  BY <1>4 DEF Num, BaseOf
<1>5. CASE BlockSize = 16
  BY <1>5 DEF Num, BaseOf
<1>6. CASE BlockSize = 32
  BY <1>6 DEF Num, BaseOf
<1>7. CASE BlockSize = 64
  BY <1>7 DEF Num, BaseOf
<1> QED
  BY <1>1, <1>2, <1>3, <1>4, <1>5, <1>6, <1>7

LEMMA NumIs ==
    ASSUME NEW i \in Int, NEW k \in Int, k * BlockSize <= i, i < k * BlockSize + BlockSize
    PROVE  Num(i) = k
<1>1. BlockSize \in {2, 4, 8, 16, 32, 64}
  BY SizesArePowers
<1>2. CASE BlockSize = 2
  BY <1>2 DEF Num, BaseOf
<1>3. CASE BlockSize = 4
  BY <1>3 DEF Num, BaseOf
<1>4. CASE BlockSize = 8
  BY <1>4 DEF Num, BaseOf
<1>5. CASE BlockSize = 16
  BY <1>5 DEF Num, BaseOf
<1>6. CASE BlockSize = 32
  BY <1>6 DEF Num, BaseOf
<1>7. CASE BlockSize = 64
  BY <1>7 DEF Num, BaseOf
<1> QED
  BY <1>1, <1>2, <1>3, <1>4, <1>5, <1>6, <1>7

LEMMA NumMono ==
    ASSUME NEW i \in Int, NEW j \in Int, i <= j
    PROVE  Num(i) <= Num(j)
<1>1. BlockSize \in {2, 4, 8, 16, 32, 64}
  BY SizesArePowers
<1>2. CASE BlockSize = 2
  BY <1>2 DEF Num, BaseOf
<1>3. CASE BlockSize = 4
  BY <1>3 DEF Num, BaseOf
<1>4. CASE BlockSize = 8
  BY <1>4 DEF Num, BaseOf
<1>5. CASE BlockSize = 16
  BY <1>5 DEF Num, BaseOf
<1>6. CASE BlockSize = 32
  BY <1>6 DEF Num, BaseOf
<1>7. CASE BlockSize = 64
  BY <1>7 DEF Num, BaseOf
<1> QED
  BY <1>1, <1>2, <1>3, <1>4, <1>5, <1>6, <1>7

LEMMA DivDiff ==
    ASSUME NEW a \in Int, NEW b \in Int
    PROVE  (a * BlockSize - b * BlockSize) \div BlockSize = a - b
<1>1. BlockSize \in {2, 4, 8, 16, 32, 64}
  BY SizesArePowers
<1>2. CASE BlockSize = 2
  BY <1>2
<1>3. CASE BlockSize = 4
  BY <1>3
<1>4. CASE BlockSize = 8
  BY <1>4
<1>5. CASE BlockSize = 16
  BY <1>5
<1>6. CASE BlockSize = 32
  BY <1>6
<1>7. CASE BlockSize = 64
  BY <1>7
<1> QED
  BY <1>1, <1>2, <1>3, <1>4, <1>5, <1>6, <1>7

LEMMA ModRange ==
    ASSUME NEW a \in Int, NEW n \in Nat \ {0}
    PROVE  a % n \in 0 .. n - 1 /\ a = n * (a \div n) + (a % n) /\ a \div n \in Int
<1>1. a \div n \in Int
  OBVIOUS
<1>2. a % n \in Int /\ 0 <= a % n /\ a % n < n
  OBVIOUS
<1>3. a = n * (a \div n) + (a % n)
  OBVIOUS
<1> QED
  BY <1>1, <1>2, <1>3

LEMMA Distributes ==
    ASSUME NEW n \in Int, NEW q \in Int, NEW t \in Int
    PROVE  n * (q + t) = n * q + n * t
OBVIOUS

LEMMA ModIs ==
    ASSUME NEW n \in Nat \ {0}, NEW q \in Int, NEW r \in 0 .. n - 1, NEW a \in Int, a = n * q + r
    PROVE  a % n = r
<1> DEFINE x == a \div n
           s == a % n
<1>1. s \in 0 .. n - 1 /\ a = n * x + s /\ x \in Int
  BY ModRange
<1> HIDE DEF x, s
<1>2. CASE x > q
  <2>1. n * x >= n * (q + 1)
    BY <1>1, <1>2
  <2> QED
    BY <1>1, <2>1
<1>3. CASE x < q
  <2>1. n * (x + 1) <= n * q
    BY <1>1, <1>3
  <2> QED
    BY <1>1, <2>1
<1> QED
  BY <1>1, <1>2, <1>3 DEF s

LEMMA ModAdd ==
    ASSUME NEW a \in Int, NEW b \in Int, NEW n \in Nat \ {0}
    PROVE  ((a % n) + b) % n = (a + b) % n
<1> DEFINE s == a % n
           q == a \div n
           r == (s + b) % n
           t == (s + b) \div n
<1>1. a = n * q + s /\ q \in Int /\ s \in Int
  BY ModRange
<1> HIDE DEF s, q
<1>2. r \in 0 .. n - 1 /\ s + b = n * t + r /\ t \in Int
  BY <1>1, ModRange
<1> HIDE DEF r, t
<1>3. a + b = n * (q + t) + r
  BY <1>1, <1>2, Distributes
<1> DEFINE x == q + t
           y == a + b
<1>4. x \in Int /\ y \in Int /\ y = n * x + r
  BY <1>1, <1>2, <1>3
<1> HIDE DEF x, y
<1>5. y % n = r
  BY <1>2, <1>4, ModIs
<1> QED
  BY <1>5 DEF r, s, y

LEMMA ModTwice ==
    ASSUME NEW a \in Int, NEW b \in Int, NEW n \in Nat \ {0}
    PROVE  ((a % (2 * n)) + b) % n = (a + b) % n
<1> DEFINE m == 2 * n
           s == a % m
           q == a \div m
           r == (s + b) % n
           t == (s + b) \div n
<1>0. m \in Nat \ {0}
  OBVIOUS
<1> HIDE DEF m
<1>1. a = m * q + s /\ q \in Int /\ s \in Int
  BY <1>0, ModRange
<1> HIDE DEF s, q
<1>2. r \in 0 .. n - 1 /\ s + b = n * t + r /\ t \in Int
  BY <1>1, ModRange
<1> HIDE DEF r, t
<1>3. a + b = n * (2 * q + t) + r
  <2>1. m * q = n * (2 * q)
    BY <1>1 DEF m
  <2>2. n * (2 * q + t) = n * (2 * q) + n * t
    BY <1>1, <1>2, Distributes
  <2> QED
    BY <1>0, <1>1, <1>2, <2>1, <2>2
<1> DEFINE x == 2 * q + t
           y == a + b
<1>4. x \in Int /\ y \in Int /\ y = n * x + r
  BY <1>1, <1>2, <1>3
<1> HIDE DEF x, y
<1>5. y % n = r
  BY <1>2, <1>4, ModIs
<1> QED
  BY <1>5 DEF r, s, y, m

LEMMA ModClose ==
    ASSUME NEW a \in Int, NEW b \in Int, NEW n \in Nat \ {0}, a % n = b % n, a - b < n, b - a < n
    PROVE  a = b
<1> DEFINE q == a \div n
           t == b \div n
<1>1. a = n * q + (a % n) /\ b = n * t + (b % n) /\ q \in Int /\ t \in Int
      /\ a % n \in Int
  BY ModRange
<1> HIDE DEF q, t
<1>2. CASE q > t
  <2>1. n * q >= n * (t + 1)
    BY <1>1, <1>2
  <2> QED
    BY <1>1, <2>1
<1>3. CASE q < t
  <2>1. n * (q + 1) <= n * t
    BY <1>1, <1>3
  <2> QED
    BY <1>1, <2>1
<1> QED
  BY <1>1, <1>2, <1>3

LEMMA ModSmall ==
    ASSUME NEW n \in Nat \ {0}, NEW a \in Int
    PROVE  /\ a \in 0 .. n - 1 => a % n = a
           /\ a \in n .. 2 * n - 1 => a % n = a - n
           /\ -n <= a /\ a < 0 => a % n = a + n
<1>1. a \in 0 .. n - 1 => a % n = a
  <2>1. a = n * 0 + a /\ 0 \in Int
    OBVIOUS
  <2> QED
    BY <2>1, ModIs
<1>2. a \in n .. 2 * n - 1 => a % n = a - n
  <2>1. a = n * 1 + (a - n) /\ 1 \in Int
    OBVIOUS
  <2> QED
    BY <2>1, ModIs
<1>3. -n <= a /\ a < 0 => a % n = a + n
  <2>1. a = n * (-1) + (a + n) /\ -1 \in Int
    OBVIOUS
  <2> QED
    BY <2>1, ModIs
<1> QED
  BY <1>1, <1>2, <1>3

-----------------------------------------------------------------------------
(* The free list is the stack that ListInv says it is.                      *)

LEMMA LeastNat ==
    ASSUME NEW S \in SUBSET Nat, S # {}
    PROVE  \E n \in S : \A m \in S : n <= m
<1>1. PICK n \in S : \A m \in S : ~ (<<m, n>> \in OpToRel(<, Nat))
  BY NatLessThanWellFounded, WFMin, Zenon
<1>2. \A m \in S : ~ (m < n)
  BY <1>1, S \subseteq Nat DEF OpToRel
<1> QED
  BY <1>2

\* FreeBlocks follows next from the head on; it does not stop before the end of the list,
\* which has as many blocks as there are at most.
LEMMA StackFree ==
    ASSUME NEW n \in Nat, NEW s \in [1 .. n -> Block], Stack(s, n)
    PROVE  FreeBlocks = {s[i] : i \in 1 .. n}
<1> DEFINE C == Cardinality(Block)
           Nth(i) == IF i < n THEN s[n - i] ELSE None
           Step(f, k) == IF k = 0 THEN {free}
                         ELSE f[k - 1] \cup {next[b] : b \in f[k - 1] \cap Block}
           f0 == [k \in 0 .. C |-> {Nth(i) : i \in 0 .. k}]
<1>1. None \notin Block /\ IsFiniteSet(Block) /\ C \in Nat
  BY RolesDiffer, FS_Subset, FS_CardinalityType DEF Thread
<1>2. n <= C
  <2>1. s \in Injection(1 .. n, Block)
    BY DEF Stack, Injection, IsInjective
  <2>2. Cardinality(1 .. n) <= C
    BY <1>1, <2>1, FS_Injection
  <2> QED
    BY <2>2, FS_Interval
<1> HIDE DEF C
<1>3. Nth(0) = free
  BY DEF Stack
<1>4. ASSUME NEW i \in Nat PROVE Nth(i) \in Block \cup {None} /\ (Nth(i) \in Block => next[Nth(i)] = Nth(i + 1))
  <2>1. CASE i < n
    <3>1. n - i \in 1 .. n /\ s[n - i] \in Block
      BY <2>1
    <3>2. next[s[n - i]] = IF n - i = 1 THEN None ELSE s[n - i - 1]
      BY <3>1 DEF Stack
    <3>3. Nth(i) = s[n - i] /\ Nth(i + 1) = IF n - i = 1 THEN None ELSE s[n - (i + 1)]
      BY <2>1
    <3>4. n - (i + 1) = n - i - 1
      OBVIOUS
    <3> QED
      BY <3>1, <3>2, <3>3, <3>4
  <2>2. CASE ~ (i < n)
    BY <1>1, <2>2
  <2> QED
    BY <2>1, <2>2
<1>5. ASSUME NEW i \in Nat, Nth(i) \notin Block PROVE Nth(i + 1) = None /\ Nth(i) = None
  BY <1>5
<1> HIDE DEF Nth
<1>6. ASSUME NEW k \in 0 .. C PROVE f0[k] = Step(f0, k)
  <2>1. CASE k = 0
    BY <1>3, <2>1
  <2>2. CASE k # 0
    <3>1. k \in Nat /\ k - 1 \in 0 .. C /\ f0[k] = {Nth(i) : i \in 0 .. k} /\ f0[k - 1] = {Nth(i) : i \in 0 .. k - 1}
      BY <1>1, <2>2
    <3> DEFINE g == f0[k - 1]
               nx == {next[b] : b \in g \cap Block}
    <3>2. ASSUME NEW x \in f0[k] PROVE x \in g \cup nx
      <4>1. PICK i \in 0 .. k : x = Nth(i)
        BY <3>1, <3>2
      <4>2. CASE i < k
        BY <3>1, <4>1, <4>2
      <4>3. CASE i = k
        <5>1. k - 1 \in Nat /\ k - 1 \in 0 .. k - 1 /\ Nth(k - 1) \in g /\ (k - 1) + 1 = k
          BY <3>1, <2>2
        <5>2. CASE Nth(k - 1) \in Block
          BY <1>4, <4>1, <4>3, <5>1, <5>2
        <5>3. CASE Nth(k - 1) \notin Block
          <6>1. x = None /\ Nth(k - 1) = None
            BY <1>5, <4>1, <4>3, <5>1, <5>3
          <6> QED
            BY <5>1, <6>1
        <5> QED
          BY <5>2, <5>3
      <4> QED
        BY <3>1, <4>2, <4>3
    <3>3. ASSUME NEW x \in g \cup nx PROVE x \in f0[k]
      <4>1. CASE x \in g
        BY <3>1, <4>1
      <4>2. CASE x \in nx
        <5>1. PICK b \in g \cap Block : x = next[b]
          BY <4>2
        <5>2. PICK i \in 0 .. k - 1 : b = Nth(i)
          BY <3>1, <5>1
        <5>3. x = Nth(i + 1) /\ i + 1 \in 0 .. k
          BY <1>4, <3>1, <5>1, <5>2
        <5> QED
          BY <3>1, <5>3
      <4> QED
        BY <3>3, <4>1, <4>2
    <3> QED
      BY <2>2, <3>2, <3>3
  <2> QED
    BY <2>1, <2>2
<1> DEFINE reach == CHOOSE f : f = [k \in 0 .. C |-> Step(f, k)]
<1>7. reach = [k \in 0 .. C |-> Step(reach, k)]
  <2>1. f0 = [k \in 0 .. C |-> Step(f0, k)]
    BY <1>6
  <2> HIDE DEF f0
  <2>2. \E f : f = [k \in 0 .. C |-> Step(f, k)]
    BY <2>1
  <2> HIDE DEF Step
  <2> QED
    BY <2>2
<1> HIDE DEF reach
<1>8. ASSUME NEW k \in 0 .. C PROVE reach[k] = f0[k]
  <2> DEFINE Bad == {j \in 0 .. C : reach[j] # f0[j]}
  <2>1. SUFFICES ASSUME Bad # {} PROVE FALSE
    BY <2>1
  <2>2. Bad \in SUBSET Nat
    BY <1>1
  <2>3. PICK j \in Bad : \A i \in Bad : j <= i
    BY <2>1, <2>2, LeastNat
  <2>4. j \in 0 .. C /\ j \in Nat /\ reach[j] # f0[j]
    BY <2>2, <2>3
  <2>5. reach[j] = Step(reach, j)
    BY <1>7, <2>4
  <2>6. f0[j] = Step(f0, j)
    BY <1>6, <2>4
  <2>7. j # 0 => reach[j - 1] = f0[j - 1]
    <3>1. j # 0 => j - 1 \in 0 .. C /\ ~ (j <= j - 1)
      BY <1>1, <2>4
    <3>2. j # 0 => j - 1 \notin Bad
      BY <2>3, <3>1
    <3> HIDE DEF f0
    <3> QED
      BY <3>1, <3>2
  <2> HIDE DEF f0
  <2> QED
    BY <2>4, <2>5, <2>6, <2>7
<1>9. reach[C] = {Nth(i) : i \in 0 .. C}
  BY <1>1, <1>8
<1>10. FreeBlocks = reach[C] \ {None}
  BY Zenon DEF FreeBlocks, reach, C
<1>11. ASSUME NEW x \in {Nth(i) : i \in 0 .. C} \ {None} PROVE x \in {s[i] : i \in 1 .. n}
  <2>1. PICK i \in 0 .. C : x = Nth(i)
    BY <1>11
  <2>2. i < n /\ x = s[n - i]
    BY <1>11, <1>1, <2>1 DEF Nth
  <2> QED
    BY <1>1, <2>1, <2>2
<1>12. ASSUME NEW i \in 1 .. n PROVE s[i] \in {Nth(j) : j \in 0 .. C} \ {None}
  <2>1. n - i \in 0 .. C /\ Nth(n - i) = s[i]
    BY <1>1, <1>2 DEF Nth
  <2> QED
    BY <1>1, <2>1
<1> QED
  BY <1>9, <1>10, <1>11, <1>12

-----------------------------------------------------------------------------
(* Who reads a block of the free list, and where a block is, after a step of *)
(* one thread.                                                              *)

\* What a local says of a block.
SameFor(l, m, b) ==
    /\ b \in Hands(l) <=> b \in Hands(m)
    /\ b \in Reads(l) <=> b \in Reads(m)
    /\ Adds(l, b) <=> Adds(m, b)
    /\ Returns(l, b) <=> Returns(m, b)
    /\ Obtains(l, b) <=> Obtains(m, b)
Indexed(b, x, i) == x \in Producer /\ i \in DOMAIN entry[x] /\ entry[x][i].value = b

LEMMA ReadersFinite ==
    \A b : IsFiniteSet(Readers(b)) /\ Cardinality(Readers(b)) \in Nat
           /\ (Cardinality(Readers(b)) = 0 <=> Readers(b) = {})
<1> SUFFICES ASSUME NEW b PROVE IsFiniteSet(Readers(b)) /\ Cardinality(Readers(b)) \in Nat
           /\ (Cardinality(Readers(b)) = 0 <=> Readers(b) = {})
  OBVIOUS
<1>1. IsFiniteSet(Thread)
  BY RolesDiffer, FS_Subset
<1>2. Readers(b) \in SUBSET Thread
  BY DEF Readers
<1> QED
  BY <1>1, <1>2, FS_Subset, FS_CardinalityType, FS_EmptySet

LEMMA ReadersMove ==
    ASSUME NEW t \in Thread, NEW l, DOMAIN th = Thread, th' = [th EXCEPT ![t] = l], NEW b
    PROVE  /\ Cardinality(Readers(b))' =
              Cardinality(Readers(b)) + (IF b \in Reads(l) THEN 1 ELSE 0)
                                      - (IF b \in Reads(th[t]) THEN 1 ELSE 0)
           /\ Cardinality(Readers(b)) \in Nat /\ Cardinality(Readers(b))' \in Nat
<1>1. th'[t] = l /\ \A u \in Thread : u # t => th'[u] = th[u]
  OBVIOUS
<1>2. IsFiniteSet(Readers(b)) /\ Cardinality(Readers(b)) \in Nat
  BY ReadersFinite
<1>3. t \in Readers(b) <=> b \in Reads(th[t])
  BY DEF Readers
<1>4. CASE b \in Reads(l)
  <2>1. Readers(b)' = Readers(b) \cup {t}
    BY <1>1, <1>4 DEF Readers
  <2>2. Cardinality(Readers(b) \cup {t}) =
           IF t \in Readers(b) THEN Cardinality(Readers(b)) ELSE Cardinality(Readers(b)) + 1
    BY <1>2, FS_AddElement
  <2> QED
    BY <1>2, <1>3, <1>4, <2>1, <2>2
<1>5. CASE b \notin Reads(l)
  <2>1. Readers(b)' = Readers(b) \ {t}
    BY <1>1, <1>5 DEF Readers
  <2>2. IsFiniteSet(Readers(b) \ {t}) /\ Cardinality(Readers(b) \ {t}) =
           IF t \in Readers(b) THEN Cardinality(Readers(b)) - 1 ELSE Cardinality(Readers(b))
    BY <1>2, FS_RemoveElement
  <2>3. Cardinality(Readers(b) \ {t}) \in Nat
    BY <2>2, FS_CardinalityType
  <2> QED
    BY <1>2, <1>3, <1>5, <2>1, <2>2, <2>3
<1> QED
  BY <1>4, <1>5

LEMMA ReadersKeep ==
    ASSUME NEW t \in Thread, NEW l, DOMAIN th = Thread, th' = [th EXCEPT ![t] = l], NEW b,
           b \in Reads(l) <=> b \in Reads(th[t])
    PROVE  Cardinality(Readers(b))' = Cardinality(Readers(b))
<1> DEFINE n == Cardinality(Readers(b))
<1>1. /\ n' = n + (IF b \in Reads(l) THEN 1 ELSE 0) - (IF b \in Reads(th[t]) THEN 1 ELSE 0)
      /\ n \in Nat
  BY ReadersMove
<1> HIDE DEF n
<1>2. n' = n
  BY <1>1
<1> QED
  BY <1>2 DEF n

LEMMA ReadersLess ==
    ASSUME NEW t \in Thread, NEW l, DOMAIN th = Thread, th' = [th EXCEPT ![t] = l], NEW b,
           b \notin Reads(l), b \in Reads(th[t])
    PROVE  /\ Cardinality(Readers(b))' = Cardinality(Readers(b)) - 1
           /\ Cardinality(Readers(b)) \in Nat \ {0}
<1> DEFINE n == Cardinality(Readers(b))
<1>1. /\ n' = n + (IF b \in Reads(l) THEN 1 ELSE 0) - (IF b \in Reads(th[t]) THEN 1 ELSE 0)
      /\ n \in Nat /\ n' \in Nat
  BY ReadersMove
<1> HIDE DEF n
<1>2. n' = n - 1 /\ n \in Nat \ {0}
  BY <1>1
<1> QED
  BY <1>2 DEF n

LEMMA ReadersMore ==
    ASSUME NEW t \in Thread, NEW l, DOMAIN th = Thread, th' = [th EXCEPT ![t] = l], NEW b,
           b \in Reads(l), b \notin Reads(th[t])
    PROVE  /\ Cardinality(Readers(b))' = Cardinality(Readers(b)) + 1
           /\ Cardinality(Readers(b)) \in Nat
<1> DEFINE n == Cardinality(Readers(b))
<1>1. /\ n' = n + (IF b \in Reads(l) THEN 1 ELSE 0) - (IF b \in Reads(th[t]) THEN 1 ELSE 0)
      /\ n \in Nat
  BY ReadersMove
<1> HIDE DEF n
<1>2. n' = n + 1
  BY <1>1
<1> QED
  BY <1>1, <1>2 DEF n

\* A block that a step does not touch.
LEMMA BlockSame ==
    ASSUME NEW t \in Thread, NEW l, DOMAIN th = Thread, th' = [th EXCEPT ![t] = l],
           NEW b, SameFor(th[t], l, b), refs'[b] = refs[b],
           (b \in fresh)' <=> b \in fresh, (b \in FreeBlocks)' <=> b \in FreeBlocks,
           \A x, i : Indexed(b, x, i)' <=> Indexed(b, x, i)
    PROVE  (Once(b)' <=> Once(b)) /\ (Refs(b)' <=> Refs(b))
<1>1. th'[t] = l /\ \A u \in Thread : u # t => th'[u] = th[u]
  OBVIOUS
<1>2. \A kind, x, i : Spot(b, kind, x, i)' <=> Spot(b, kind, x, i)
  <2>1. \A u \in Thread : b \in Hands(th'[u]) <=> b \in Hands(th[u])
    BY <1>1 DEF SameFor
  <2>2. LeftOver(b)' <=> LeftOver(b)
    BY DEF LeftOver
  <2> QED
    BY <2>1, <2>2 DEF Spot, Indexed
<1>3. Once(b)' <=> Once(b)
  BY <1>2 DEF Once, IsAt
<1>4. Cardinality(Readers(b))' = Cardinality(Readers(b))
  BY ReadersKeep DEF SameFor
<1>5. /\ \A u \in Thread : Returns(th'[u], b) <=> Returns(th[u], b)
      /\ \A u \in Thread : Obtains(th'[u], b) <=> Obtains(th[u], b)
      /\ \A u \in Thread : Adds(th'[u], b) <=> Adds(th[u], b)
  BY <1>1 DEF SameFor
<1>6. Extra(b)' = Extra(b)
  BY <1>5 DEF Extra
<1> QED
  BY <1>3, <1>4, <1>5, <1>6 DEF Refs

\* A block that a step takes from one place to another.
LEMMA BlockMoves ==
    ASSUME NEW b, NEW k, NEW x, NEW i, NEW k2, NEW x2, NEW i2,
           Once(b), Spot(b, k, x, i), Spot(b, k2, x2, i2)',
           \A l, y, j : Spot(b, l, y, j)' => \/ l = k2 /\ y = x2 /\ j = i2
                                             \/ Spot(b, l, y, j) /\ ~ (l = k /\ y = x /\ j = i)
    PROVE  Once(b)'
BY DEF Once, IsAt

LEMMA SpotOnly ==
    ASSUME NEW b, NEW k, NEW x, NEW i, Once(b), Spot(b, k, x, i)
    PROVE  \A l, y, j : Spot(b, l, y, j) => l = k /\ y = x /\ j = i
BY DEF Once, IsAt

LEMMA StackNow ==
    \A n \in Nat : \A s \in [1 .. n -> Block] : Stack(s, n) => FreeBlocks = {s[i] : i \in 1 .. n}
BY StackFree

LEMMA StackLater ==
    (\A n \in Nat : \A s \in [1 .. n -> Block] : Stack(s, n) => FreeBlocks = {s[i] : i \in 1 .. n})'
BY StackNow, PTL

LEMMA SameStack ==
    ASSUME ListInv, UNCHANGED free, \A b \in FreeBlocks : next'[b] = next[b]
    PROVE  ListInv' /\ FreeBlocks' = FreeBlocks
<1>1. PICK n \in Nat : \E s \in [1 .. n -> Block] : Stack(s, n)
  BY DEF ListInv
<1>2. PICK s \in [1 .. n -> Block] : Stack(s, n)
  BY <1>1
<1>3. FreeBlocks = {s[i] : i \in 1 .. n}
  BY <1>2, StackFree
<1>4. Stack(s, n)'
  BY <1>2, <1>3 DEF Stack
<1>5. (FreeBlocks = {s[i] : i \in 1 .. n})'
  BY <1>4, StackLater
<1> QED
  BY <1>3, <1>4, <1>5 DEF ListInv

-----------------------------------------------------------------------------
(* The locals of a thread inside the free list: what is left of them when the *)
(* thread is done with it, and the steps that leave a call and a claim as they *)
(* are, Quiet.                                                              *)

\* A step that leaves the call and the claim of its thread as they are.
SameCall(l, m) ==
    LET a == InCall(l)
        b == InCall(m)
    IN a = b \/ (a.pc = "pool" /\ b = [a EXCEPT !.pc = "malloc"])
LocalOk(t, l) == (t \in Producer => l \in Enq) /\ (t \in Consumer => Deq(l))
Same(t, l, m) ==
    /\ t \in Producer => SameCall(l, m) /\ l.pc # "publish" /\ m.pc # "publish"
    /\ t \in Consumer => InClaim(l) = InClaim(m)
Quiet(t) ==
    \E l : th' = [th EXCEPT ![t] = l] /\ LocalOk(t, l) /\ Same(t, th[t], l)

EmptyHanded(l) == Hands(l) = {} /\ Reads(l) = {} /\ \A b : ~ (Adds(l, b) \/ Returns(l, b) \/ Obtains(l, b))

LEMMA PutShape ==
    ASSUME CountTypes, Types, NEW t \in Thread, th[t].pc \in Putting
    PROVE  LET l == th[t]
               n == l.then
           IN /\ l \in PutIn({n}) /\ l.node \in Block
              /\ LocalOk(t, n) /\ Same(t, l, n)
              /\ Hands(n) = ToSet(BehindIn(l)) /\ Reads(n) = {}
              /\ \A b : ~ (Adds(n, b) \/ Returns(n, b) \/ Obtains(n, b))
              /\ n.pc = "giveUp" => n.chain = BehindIn(l)
              /\ n.pc # "giveUp" => BehindIn(l) = <<>>
              /\ BehindIn(n) = <<>> /\ ~ n.pc \in Putting \cup {"getCas"}
<1> DEFINE l == th[t]
           n == l.then
<1> USE DEF Putting
<1>1. CASE t \in Producer
  <2>1. l \in Enq /\ t \notin Consumer
    BY <1>1, Roles DEF Types
  <2>2. l \in PutIn(AfterPut)
    BY <2>1 DEF Enq, CallAt, GetIn, GiveUps, Idle, Calls
  <2>3. l \in PutIn({n}) /\ l.node \in Block /\ n \in AfterPut /\ "then" \in DOMAIN l
    BY <2>2 DEF PutIn
  <2>4. CASE n = Idle
    <3>1. InCall(l) = NoCall /\ InCall(n) = NoCall
      BY <2>3, <2>4 DEF InCall, Idle, Calls
    <3>2. Hands(n) = {} /\ BehindIn(l) = <<>> /\ BehindIn(n) = <<>>
      BY <2>3, <2>4 DEF Hands, BehindIn, Idle
    <3>3. ToSet(<<>>) = {}
      BY DEF ToSet
    <3>4. n.pc = "idle" /\ n \in Enq
      BY <2>4 DEF Idle, Enq, GiveUps
    <3>5. Reads(n) = {} /\ \A b : ~ (Adds(n, b) \/ Returns(n, b) \/ Obtains(n, b))
      BY <3>4 DEF Reads, Adds, Returns, Obtains
    <3>6. LocalOk(t, n) /\ Same(t, l, n)
      BY <2>1, <3>1, <3>4 DEF LocalOk, Same, SameCall
    <3> QED
      BY <2>3, <3>2, <3>3, <3>4, <3>5, <3>6
  <2>5. CASE n \in [pc : {"giveUp"}, chain : Seq(Block) \ {<<>>}]
    <3>1. InCall(l) = NoCall /\ InCall(n) = NoCall
      BY <2>3, <2>5 DEF InCall, Idle, Calls
    <3>2. Hands(n) = ToSet(n.chain) /\ BehindIn(l) = n.chain /\ BehindIn(n) = <<>>
      BY <2>3, <2>5 DEF Hands, BehindIn
    <3> QED
      BY <2>1, <2>3, <2>5, <3>1, <3>2 DEF LocalOk, Same, SameCall, Enq, GiveUps, Reads, Adds, Returns, Obtains
  <2>6. CASE n \in [pc : {"getRef"}, head : Link, then : CallAt({"pool"})]
    <3>1. InCall(l) = n.then /\ InCall(n) = n.then
      BY <2>3, <2>6 DEF InCall, Idle, Calls, CallAt
    <3>2. Hands(n) = {} /\ BehindIn(l) = <<>> /\ BehindIn(n) = <<>>
      BY <2>3, <2>6 DEF Hands, BehindIn, CallAt
    <3>3. ToSet(<<>>) = {}
      BY DEF ToSet
    <3>4. n \in Enq
      BY <2>6 DEF Enq, GetIn
    <3> QED
      BY <2>1, <2>3, <2>6, <3>1, <3>2, <3>3, <3>4 DEF LocalOk, Same, SameCall, Reads, Adds, Returns, Obtains
  <2> QED
    BY <2>3, <2>4, <2>5, <2>6 DEF AfterPut, GiveUps
<1>2. CASE t \in Consumer
  <2>1. Deq(l) /\ t \notin Producer /\ ConsumerAt(l)
    BY <1>2, Roles DEF Types, CountTypes
  <2>2. NextUp(n) /\ l \in PutIn({n})
    BY <2>1 DEF Deq, Counting, Takings
  <2>3. l.node \in Block /\ "then" \in DOMAIN l /\ n.pc \in {"idle", "load", "move"}
    BY <2>2 DEF PutIn, NextUp
  <2>4. Asked(n)
    BY <2>1 DEF ConsumerAt, Asked, Resting, Moving, Claiming, Idle
  <2>5. "then" \notin DOMAIN n
    BY <2>4 DEF Asked, Resting, Moving, Idle
  <2>6. Deq(n)
    BY <2>2 DEF Deq, NextUp, Takings
  <2>7. InClaim(l) = InClaim(n)
    BY <2>3, <2>5 DEF InClaim, Takings, Idle
  <2>8. Hands(n) = {} /\ BehindIn(l) = <<>> /\ BehindIn(n) = <<>>
    BY <2>3, <2>5 DEF Hands, BehindIn
  <2>9. ToSet(<<>>) = {}
    BY DEF ToSet
  <2> QED
    BY <2>1, <2>2, <2>3, <2>6, <2>7, <2>8, <2>9 DEF LocalOk, Same, Reads, Adds, Returns, Obtains
<1> QED
  BY <1>1, <1>2, Roles

LEMMA PutOther ==
    ASSUME CountTypes, Types, NEW t \in Thread, th[t].pc \in Putting, NEW m \in PutIn({th[t].then})
    PROVE  /\ LocalOk(t, m) /\ Same(t, th[t], m)
           /\ BehindIn(m) = BehindIn(th[t]) /\ Reads(m) = {} /\ ~ Obtains(m, m.node)
           /\ Hands(m) = {m.node} \cup ToSet(BehindIn(m))
<1> DEFINE l == th[t]
           n == l.then
<1> USE DEF Putting
<1>1. l \in PutIn({n}) /\ l.node \in Block /\ "then" \in DOMAIN l /\ m.then = n /\ "then" \in DOMAIN m
      /\ m.pc \in Putting
  BY PutShape DEF PutIn
<1>2. BehindIn(m) = BehindIn(l) /\ Reads(m) = {} /\ Hands(m) = {m.node} \cup ToSet(BehindIn(m))
  BY <1>1 DEF BehindIn, Reads, Hands
<1>3. CASE t \in Producer
  <2>1. l \in Enq /\ t \notin Consumer
    BY <1>3, Roles DEF Types
  <2>2. l \in PutIn(AfterPut)
    BY <2>1 DEF Enq, CallAt, GetIn, GiveUps, Idle, Calls
  <2>3. m \in PutIn(AfterPut)
    BY <2>2 DEF PutIn
  <2>4. InCall(l) = InCall(m)
    BY <1>1 DEF InCall, Calls
  <2> QED
    BY <1>1, <1>2, <2>1, <2>3, <2>4 DEF LocalOk, Same, SameCall, Enq, Obtains
<1>4. CASE t \in Consumer
  <2>1. Deq(l) /\ t \notin Producer
    BY <1>4, Roles DEF Types
  <2>2. NextUp(n)
    BY <2>1 DEF Deq, Counting, Takings
  <2>3. Deq(m)
    BY <1>1, <2>2 DEF Deq
  <2>4. InClaim(l) = InClaim(m)
    BY <1>1 DEF InClaim, Takings
  <2> QED
    BY <1>1, <1>2, <2>1, <2>3, <2>4 DEF LocalOk, Same, Obtains
<1> QED
  BY <1>3, <1>4, Roles

LEMMA GetShape ==
    ASSUME Types, NEW t \in Thread,
           th[t].pc \in {"getHead", "getRef", "getNext", "getCas", "getDone", "unref"}
    PROVE  LET l == th[t] IN
           /\ t \in Producer /\ t \notin Consumer /\ l.then \in CallAt({"pool"}) /\ l \in GetIn({l.then})
           /\ \A m \in GetIn({l.then}) :
                 /\ LocalOk(t, m) /\ Same(t, l, m) /\ BehindIn(m) = <<>> /\ ~ m.pc \in {"put", "putCas", "giveUp"}
                 /\ Hands(m) = IF m.pc = "getDone" THEN {m.node} ELSE {}
           /\ LET m == [l.then EXCEPT !.pc = "malloc"] IN
                 /\ LocalOk(t, m) /\ Same(t, l, m) /\ BehindIn(m) = <<>> /\ ~ m.pc \in {"put", "putCas", "giveUp"}
                 /\ Hands(m) = {} /\ Reads(m) = {}
<1> DEFINE l == th[t]
           n == l.then
           m1 == [n EXCEPT !.pc = "malloc"]
<1>1. t \notin Consumer
  BY DEF Types, Deq, Counting, Takings, Putting
<1>2. t \in Producer /\ l \in Enq
  BY <1>1, Roles DEF Types
<1>3. l \in GetIn(CallAt({"pool"}))
  BY <1>2 DEF Enq, CallAt, GiveUps, Idle, Calls, PutIn
<1>4. n \in CallAt({"pool"}) /\ l \in GetIn({n})
  BY <1>3 DEF GetIn
<1>5. n.pc = "pool" /\ InCall(l) = n
  BY <1>4 DEF GetIn, InCall, Calls, CallAt
<1>6. ASSUME NEW m \in GetIn({n})
      PROVE  /\ LocalOk(t, m) /\ Same(t, l, m) /\ BehindIn(m) = <<>> /\ ~ m.pc \in {"put", "putCas", "giveUp"}
             /\ Hands(m) = IF m.pc = "getDone" THEN {m.node} ELSE {}
  <2>1. m.then = n /\ "then" \in DOMAIN m /\ m.pc \in {"getHead", "getRef", "getNext", "getCas", "getDone", "unref"}
    BY DEF GetIn
  <2>2. InCall(m) = n
    BY <1>5, <2>1 DEF InCall, Calls
  <2>3. m \in Enq
    BY <1>4 DEF Enq, GetIn
  <2>4. BehindIn(m) = <<>> /\ Hands(m) = (IF m.pc = "getDone" THEN {m.node} \cup ToSet(<<>>) ELSE {})
    BY <1>5, <2>1 DEF BehindIn, Hands, Putting
  <2>5. ToSet(<<>>) = {}
    BY DEF ToSet
  <2> QED
    BY <1>1, <1>5, <2>1, <2>2, <2>3, <2>4, <2>5 DEF LocalOk, Same, SameCall
<1>7. /\ LocalOk(t, m1) /\ Same(t, l, m1) /\ BehindIn(m1) = <<>> /\ ~ m1.pc \in {"put", "putCas", "giveUp"}
      /\ Hands(m1) = {} /\ Reads(m1) = {}
  <2>1. m1 \in CallAt(Calls) /\ m1.pc = "malloc"
    BY <1>4 DEF CallAt, Calls
  <2>2. "then" \notin DOMAIN m1
    BY <2>1 DEF CallAt
  <2>3. InCall(m1) = m1 /\ m1 \in Enq
    BY <2>1 DEF InCall, Enq, Calls
  <2>4. BehindIn(m1) = <<>> /\ Hands(m1) = {} /\ Reads(m1) = {}
    BY <2>1, <2>2 DEF BehindIn, Hands, Reads, Putting
  <2> HIDE DEF m1
  <2>5. Same(t, l, m1)
    BY <1>1, <1>4, <1>5, <2>1, <2>3 DEF Same, SameCall, m1, CallAt, GetIn
  <2> QED
    BY <1>1, <2>1, <2>3, <2>4, <2>5 DEF LocalOk
<1> QED
  BY <1>1, <1>2, <1>4, <1>6, <1>7

-----------------------------------------------------------------------------
(* Places after a step about one block.                                     *)

LEMMA HandsOf ==
    ASSUME NEW l, NEW b, Adds(l, b) \/ Returns(l, b) \/ Obtains(l, b)
    PROVE  b \in Hands(l)
BY DEF Adds, Returns, Obtains, Hands, Putting

\* A block in somebody's hands is nowhere else.
LEMMA HandOnly ==
    ASSUME NEW b, Once(b), NEW t \in Thread, b \in Hands(th[t])
    PROVE  /\ b \notin fresh /\ b \notin FreeBlocks /\ ~ LeftOver(b) /\ (\A x, i : ~ Indexed(b, x, i))
           /\ \A u \in Thread \ {t} :
                 b \notin Hands(th[u]) /\ ~ Adds(th[u], b) /\ ~ Returns(th[u], b) /\ ~ Obtains(th[u], b)
           /\ Extra(b) = IF Returns(th[t], b) THEN 1 ELSE IF Obtains(th[t], b) THEN 2 ELSE 0
<1>1. \A l, y, j : Spot(b, l, y, j) => l = "hand" /\ y = t
  BY DEF Once, IsAt, Spot
<1>2. b \notin fresh /\ b \notin FreeBlocks /\ ~ LeftOver(b)
  BY <1>1 DEF Spot
<1>3. \A x, i : ~ Indexed(b, x, i)
  BY <1>1 DEF Spot, Indexed
<1>4. \A u \in Thread \ {t} : b \notin Hands(th[u])
  BY <1>1 DEF Spot
<1>5. \A u \in Thread \ {t} : ~ Adds(th[u], b) /\ ~ Returns(th[u], b) /\ ~ Obtains(th[u], b)
  BY <1>4, HandsOf
<1>6. Extra(b) = IF Returns(th[t], b) THEN 1 ELSE IF Obtains(th[t], b) THEN 2 ELSE 0
  BY <1>2, <1>5 DEF Extra
<1> QED
  BY <1>2, <1>3, <1>4, <1>5, <1>6

LEMMA LinkedStays ==
    ASSUME NEW u \in Thread, NEW b0, Linked(u), th'[u] = th[u],
           \A b : b # b0 => next'[b] = next[b] /\ refs'[b].n = refs[b].n,
           Adds(th[u], b0) => refs'[b0].n = refs[b0].n,
           th[u].pc \in {"getCas", "putCas"} /\ th[u].node = b0 => next'[b0] = next[b0]
    PROVE  Linked(u)'
BY DEF Linked, At, Adds

LEMMA AllReaders == ASSUME Types PROVE \A b \in Block : refs[b].n \in Nat
BY DEF Types

\* A step in which no block moves.
LEMMA PlacesSame ==
    ASSUME NEW t \in Thread, NEW l, DOMAIN th = Thread, th' = [th EXCEPT ![t] = l], PlaceInv,
           UNCHANGED freeList, UNCHANGED fresh, UNCHANGED entry,
           \A b : SameFor(th[t], l, b), ChainOnce(l), Linked(t)'
    PROVE  PlaceInv'
<1>1. th'[t] = l /\ \A u \in Thread : u # t => th'[u] = th[u]
  OBVIOUS
<1>2. UNCHANGED <<free, refs, next>>
  BY DEF freeList
<1>3. ListInv' /\ FreeBlocks' = FreeBlocks
  BY <1>2, SameStack DEF PlaceInv
<1>4. ASSUME NEW b \in Block PROVE (Once(b) /\ Refs(b))'
  <2>1. \A x, i : Indexed(b, x, i)' <=> Indexed(b, x, i)
    BY DEF Indexed
  <2> QED
    BY <1>2, <1>3, <2>1, BlockSame DEF PlaceInv
<1>5. ASSUME NEW u \in Thread PROVE (ChainOnce(th[u]) /\ Linked(u))'
  <2>1. CASE u = t
    BY <1>1, <2>1
  <2>2. CASE u # t
    <3>1. Linked(u)'
      BY <1>1, <1>2, <2>2 DEF PlaceInv, Linked, At
    <3> QED
      BY <1>1, <2>2, <3>1 DEF PlaceInv
  <2> QED
    BY <2>1, <2>2
<1> QED
  BY <1>3, <1>4, <1>5 DEF PlaceInv

\* A step about one block, of a thread that leaves the others alone.
OnlyAbout(t, l, b0) ==
    /\ \A b \in Block \ {b0} : /\ SameFor(th[t], l, b) /\ refs'[b] = refs[b]
                               /\ (b \in fresh)' <=> b \in fresh
                               /\ (b \in FreeBlocks)' <=> b \in FreeBlocks
                               /\ \A x, i : Indexed(b, x, i)' <=> Indexed(b, x, i)
    /\ \A b : b # b0 => next'[b] = next[b] /\ refs'[b].n = refs[b].n
\* No other thread relies on what of the block changes.
LinksKept(t, b0) ==
    \A u \in Thread \ {t} :
        /\ Adds(th[u], b0) => refs'[b0].n = refs[b0].n
        /\ th[u].pc \in {"getCas", "putCas"} /\ th[u].node = b0 => next'[b0] = next[b0]

LEMMA PlacesBut ==
    ASSUME NEW t \in Thread, NEW l, DOMAIN th = Thread, th' = [th EXCEPT ![t] = l], PlaceInv,
           NEW b0 \in Block, ListInv', (Once(b0) /\ Refs(b0))', ChainOnce(l), Linked(t)',
           OnlyAbout(t, l, b0), LinksKept(t, b0)
    PROVE  PlaceInv'
<1>1. th'[t] = l /\ \A u \in Thread : u # t => th'[u] = th[u]
  OBVIOUS
<1>2. ASSUME NEW b \in Block PROVE (Once(b) /\ Refs(b))'
  <2>1. CASE b # b0
    <3>1. SameFor(th[t], l, b) /\ refs'[b] = refs[b] /\ ((b \in fresh)' <=> b \in fresh)
          /\ ((b \in FreeBlocks)' <=> b \in FreeBlocks) /\ \A x, i : Indexed(b, x, i)' <=> Indexed(b, x, i)
      BY <2>1 DEF OnlyAbout
    <3>2. Once(b) /\ Refs(b)
      BY DEF PlaceInv
    <3> QED
      BY <3>1, <3>2, BlockSame
  <2> QED
    BY <2>1
<1>3. ASSUME NEW u \in Thread PROVE (ChainOnce(th[u]) /\ Linked(u))'
  <2>1. CASE u = t
    BY <1>1, <2>1
  <2>2. CASE u # t
    <3>1. Linked(u)'
      <4>1. Linked(u) /\ th'[u] = th[u]
        BY <1>1, <2>2 DEF PlaceInv
      <4>2. Adds(th[u], b0) => refs'[b0].n = refs[b0].n
        BY <2>2 DEF LinksKept
      <4>3. th[u].pc \in {"getCas", "putCas"} /\ th[u].node = b0 => next'[b0] = next[b0]
        BY <2>2 DEF LinksKept
      <4>4. \A b : b # b0 => next'[b] = next[b] /\ refs'[b].n = refs[b].n
        BY DEF OnlyAbout
      <4> QED
        BY <4>1, <4>2, <4>3, <4>4, LinkedStays
    <3> QED
      BY <1>1, <2>2, <3>1 DEF PlaceInv
  <2> QED
    BY <2>1, <2>2
<1> QED
  BY <1>2, <1>3 DEF PlaceInv

LEMMA FreeListFields == UNCHANGED freeList => UNCHANGED free /\ UNCHANGED refs /\ UNCHANGED next
BY DEF freeList

-----------------------------------------------------------------------------
(* Each step of the free list (concurrentqueue.h:1438-1517) keeps the blocks in *)
(* their places and the references counted.                                  *)

\* What the steps of the free list need of the invariant.
Safe == CountTypes /\ Types /\ PlaceInv

LEMMA ThreadTypes == CountTypes => DOMAIN th = Thread
BY DEF CountTypes

LEMMA PutPlaces ==
    ASSUME Safe, NEW t \in Thread, Put(t)
    PROVE  PlaceInv' /\ Quiet(t)
<1>0. PICK b0 \in Block : b0 = th[t].node
  BY PutShape DEF Safe, Putting, Put, At
<1> DEFINE l == [pc |-> "putCas", node |-> b0, head |-> free, then |-> th[t].then]
<1>1. /\ th[t].pc = "put" /\ th' = [th EXCEPT ![t] = l] /\ DOMAIN th = Thread
      /\ next' = [next EXCEPT ![b0] = free]
      /\ refs' = [refs EXCEPT ![b0] = [n |-> 1, should |-> FALSE]]
      /\ UNCHANGED <<free, fresh, entry>>
  BY <1>0 DEF Put, At, Go, Safe, CountTypes, memory, index
<1>2. /\ th[t] \in PutIn({th[t].then}) /\ free \in Link
      /\ next \in [Block -> Link] /\ refs \in [Block -> [n : Nat, should : BOOLEAN]]
  BY <1>1, PutShape DEF Safe, Types, Putting
<1>3. l \in PutIn({th[t].then})
  BY <1>2 DEF PutIn
<1>4. /\ LocalOk(t, l) /\ Same(t, th[t], l) /\ BehindIn(l) = BehindIn(th[t]) /\ Reads(l) = {}
      /\ Hands(l) = {b0} \cup ToSet(BehindIn(l))
  BY <1>0, <1>1, <1>3, PutOther DEF Safe, Putting
<1>5. Reads(th[t]) = {} /\ Hands(th[t]) = {b0} \cup ToSet(BehindIn(th[t]))
  BY <1>0, <1>1, <1>2, PutOther DEF Safe, Putting
<1>6. Once(b0) /\ Refs(b0) /\ b0 \in Hands(th[t]) /\ ListInv /\ ChainOnce(th[t]) /\ Linked(t)
  BY <1>2, <1>5 DEF Safe, PlaceInv
<1>7. /\ b0 \notin fresh /\ b0 \notin FreeBlocks /\ (\A x, i : ~ Indexed(b0, x, i))
      /\ \A u \in Thread \ {t} : ~ Adds(th[u], b0) /\ b0 \notin Hands(th[u])
  BY <1>6, HandOnly
<1>8. \A b \in FreeBlocks : next'[b] = next[b]
  BY <1>1, <1>7
<1>9. ListInv' /\ FreeBlocks' = FreeBlocks
  BY <1>1, <1>6, <1>8, SameStack
<1>10. th'[t] = l /\ \A u \in Thread : u # t => th'[u] = th[u]
  BY <1>1
<1>11. Cardinality(Readers(b0)) = 0 /\ Readers(b0) = {}
  <2>1. refs[b0].n = 0
    BY <1>0, <1>1, <1>6 DEF Linked, At
  <2>2. Cardinality(Readers(b0)) \in Nat /\ Extra(b0) \in Nat
    BY ReadersFinite DEF Extra
  <2> QED
    BY <1>6, <2>1, <2>2, ReadersFinite DEF Refs
<1>12. Once(b0)'
  <2>1. Spot(b0, "hand", t, 0)'
    BY <1>4, <1>10 DEF Spot
  <2>2. ~ LeftOver(b0)'
    BY <1>1, <1>2 DEF LeftOver
  <2>3. \A k, y, j : Spot(b0, k, y, j)' => k = "hand" /\ y = t /\ j = 0
    BY <1>1, <1>7, <1>9, <1>10, <2>2 DEF Spot, Indexed
  <2> QED
    BY <2>1, <2>3 DEF Once, IsAt
<1>13. Refs(b0)'
  <2>1. Cardinality(Readers(b0))' = 0
    BY <1>1, <1>4, <1>5, <1>11, ReadersKeep
  <2>2. Returns(l, b0)
    BY DEF Returns
  <2>3. Extra(b0)' = 1
    BY <1>10, <2>2 DEF Extra
  <2>4. refs'[b0].n = 1 /\ ~ refs'[b0].should
    BY <1>1, <1>2
  <2> QED
    BY <2>1, <2>3, <2>4 DEF Refs
<1>14. ChainOnce(l)
  BY <1>0, <1>1, <1>4, <1>6 DEF ChainOnce, Putting
<1>15. Linked(t)'
  BY <1>1, <1>2, <1>10 DEF Linked, At
<1>16. OnlyAbout(t, l, b0)
  <2>1. \A b \in Block \ {b0} : SameFor(th[t], l, b)
    BY <1>0, <1>1, <1>4, <1>5 DEF SameFor, Adds, Returns, Obtains
  <2>2. \A b \in Block \ {b0} : refs'[b] = refs[b]
    BY <1>1, <1>2
  <2>3. \A b, x, i : Indexed(b, x, i)' <=> Indexed(b, x, i)
    BY <1>1 DEF Indexed
  <2> QED
    BY <1>1, <1>9, <2>1, <2>2, <2>3 DEF OnlyAbout
<1>17. LinksKept(t, b0)
  <2>1. \A u \in Thread : th[u].pc = "getCas" /\ th[u].node = b0 => u \in Readers(b0)
    BY DEF Readers, Reads
  <2>2. \A u \in Thread : th[u].pc = "putCas" /\ th[u].node = b0 => b0 \in Hands(th[u])
    BY DEF Hands, Putting
  <2> QED
    BY <1>7, <1>11, <2>1, <2>2 DEF LinksKept
<1> HIDE DEF l
<1>18. PlaceInv'
  BY <1>1, <1>2, <1>9, <1>12, <1>13, <1>14, <1>15, <1>16, <1>17, PlacesBut DEF Safe
<1> QED
  BY <1>1, <1>4, <1>18 DEF Quiet

\* A push on the stack.
LEMMA StackPush ==
    ASSUME ListInv, NEW b0 \in Block, b0 \notin FreeBlocks, next[b0] = free, UNCHANGED next, free' = b0
    PROVE  ListInv' /\ FreeBlocks' = FreeBlocks \cup {b0}
<1>1. PICK n \in Nat : \E s \in [1 .. n -> Block] : Stack(s, n)
  BY DEF ListInv
<1>2. PICK s \in [1 .. n -> Block] : Stack(s, n)
  BY <1>1
<1>3. FreeBlocks = {s[i] : i \in 1 .. n}
  BY <1>2, StackFree
<1> DEFINE r == [i \in 1 .. n + 1 |-> IF i = n + 1 THEN b0 ELSE s[i]]
<1>4. r \in [1 .. n + 1 -> Block] /\ n + 1 \in Nat
  OBVIOUS
<1>5. Stack(r, n + 1)'
  <2>1. \A i, j \in 1 .. n + 1 : r[i] = r[j] => i = j
    BY <1>2, <1>3 DEF Stack
  <2>2. free' = r[n + 1] /\ n + 1 # 0
    OBVIOUS
  <2>3. ASSUME NEW i \in 1 .. n + 1 PROVE next'[r[i]] = IF i = 1 THEN None ELSE r[i - 1]
    <3>1. CASE i = n + 1
      BY <1>2, <3>1 DEF Stack
    <3>2. CASE i # n + 1
      BY <1>2, <3>2 DEF Stack
    <3> QED
      BY <3>1, <3>2
  <2> HIDE DEF r
  <2> QED
    BY <2>1, <2>2, <2>3 DEF Stack
<1>6. FreeBlocks' = {r[i] : i \in 1 .. n + 1}
  BY <1>4, <1>5, StackLater
<1>7. {r[i] : i \in 1 .. n + 1} = {s[i] : i \in 1 .. n} \cup {b0}
  OBVIOUS
<1> HIDE DEF r
<1> QED
  BY <1>3, <1>4, <1>5, <1>6, <1>7 DEF ListInv

\* A pop from the stack.
LEMMA StackPop ==
    ASSUME ListInv, free \in Block, UNCHANGED next, free' = next[free]
    PROVE  /\ ListInv' /\ free \in FreeBlocks /\ FreeBlocks' = FreeBlocks \ {free}
<1>1. PICK n \in Nat : \E s \in [1 .. n -> Block] : Stack(s, n)
  BY DEF ListInv
<1>2. PICK s \in [1 .. n -> Block] : Stack(s, n)
  BY <1>1
<1>3. FreeBlocks = {s[i] : i \in 1 .. n}
  BY <1>2, StackFree
<1>4. n # 0 /\ free = s[n] /\ n - 1 \in Nat /\ n \in 1 .. n
  BY <1>2, RolesDiffer DEF Stack
<1> DEFINE r == [i \in 1 .. n - 1 |-> s[i]]
<1>5. r \in [1 .. n - 1 -> Block]
  BY <1>4
<1>6. Stack(r, n - 1)'
  <2>1. \A i, j \in 1 .. n - 1 : r[i] = r[j] => i = j
    BY <1>2, <1>4 DEF Stack
  <2>2. free' = IF n - 1 = 0 THEN None ELSE r[n - 1]
    BY <1>2, <1>4 DEF Stack
  <2>3. \A i \in 1 .. n - 1 : next'[r[i]] = IF i = 1 THEN None ELSE r[i - 1]
    BY <1>2, <1>4 DEF Stack
  <2> HIDE DEF r
  <2> QED
    BY <2>1, <2>2, <2>3 DEF Stack
<1>7. FreeBlocks' = {r[i] : i \in 1 .. n - 1}
  BY <1>4, <1>5, <1>6, StackLater
<1>8. {r[i] : i \in 1 .. n - 1} = {s[i] : i \in 1 .. n} \ {s[n]}
  BY <1>2, <1>4 DEF Stack
<1> HIDE DEF r
<1> QED
  BY <1>3, <1>4, <1>5, <1>6, <1>7, <1>8 DEF ListInv

\* The push: nobody sees the block before its CAS.
LEMMA PutCasPlaces ==
    ASSUME Safe, NEW t \in Thread, PutCas(t)
    PROVE  PlaceInv' /\ Quiet(t)
<1>0. PICK b0 \in Block : b0 = th[t].node
  BY PutShape DEF Safe, Putting, PutCas, At
<1>1. /\ th[t].pc = "putCas" /\ DOMAIN th = Thread /\ UNCHANGED <<refs, next, fresh, entry>>
  BY DEF PutCas, At, Safe, CountTypes, memory, index
<1>2. /\ th[t] \in PutIn({th[t].then}) /\ free \in Link
      /\ next \in [Block -> Link] /\ refs \in [Block -> [n : Nat, should : BOOLEAN]]
  BY <1>1, PutShape DEF Safe, Types, Putting
<1>3. Reads(th[t]) = {} /\ Hands(th[t]) = {b0} \cup ToSet(BehindIn(th[t]))
  BY <1>0, <1>1, <1>2, PutOther DEF Safe, Putting
<1>4. Once(b0) /\ Refs(b0) /\ b0 \in Hands(th[t]) /\ ListInv /\ ChainOnce(th[t]) /\ Linked(t)
  BY <1>3 DEF Safe, PlaceInv
<1>5. CASE free = th[t].head
  <2> DEFINE n == th[t].then
  <2>1. free' = b0 /\ th' = [th EXCEPT ![t] = n]
    BY <1>0, <1>5 DEF PutCas, Go
  <2>2. /\ LocalOk(t, n) /\ Same(t, th[t], n) /\ Hands(n) = ToSet(BehindIn(th[t])) /\ Reads(n) = {}
        /\ \A b : ~ (Adds(n, b) \/ Returns(n, b) \/ Obtains(n, b))
        /\ n.pc = "giveUp" => n.chain = BehindIn(th[t])
        /\ BehindIn(n) = <<>> /\ ~ n.pc \in Putting \cup {"getCas"}
    BY <1>1, PutShape DEF Safe, Putting
  <2> HIDE DEF n
  <2>3. b0 \notin FreeBlocks /\ b0 \notin fresh /\ ~ LeftOver(b0) /\ (\A x, i : ~ Indexed(b0, x, i))
        /\ Returns(th[t], b0) /\ Extra(b0) = 1 /\ \A u \in Thread \ {t} : b0 \notin Hands(th[u])
    <3>1. Returns(th[t], b0)
      BY <1>0, <1>1 DEF Returns
    <3> QED
      BY <3>1, <1>4, HandOnly
  <2>4. next[b0] = free
    BY <1>0, <1>1, <1>4, <1>5 DEF Linked, At
  <2>5. ListInv' /\ FreeBlocks' = FreeBlocks \cup {b0}
    BY <1>1, <1>4, <2>1, <2>3, <2>4, StackPush
  <2>6. th'[t] = n /\ \A u \in Thread : u # t => th'[u] = th[u]
    BY <1>1, <2>1
  <2>7. b0 \notin Hands(n)
    BY <1>0, <1>1, <1>4, <2>2 DEF ChainOnce, Putting
  <2>8. Once(b0)'
    <3>1. Spot(b0, "free", None, 0)'
      BY <2>5 DEF Spot
    <3>2. ~ LeftOver(b0)' /\ \A x, i : ~ Indexed(b0, x, i)'
      BY <1>1, <2>3 DEF LeftOver, Indexed
    <3>3. \A k, y, j : Spot(b0, k, y, j)' => k = "free" /\ y = None /\ j = 0
      BY <1>1, <2>3, <2>6, <2>7, <3>2 DEF Spot, Indexed
    <3> QED
      BY <3>1, <3>3 DEF Once, IsAt
  <2>9. Refs(b0)'
    <3>1. Cardinality(Readers(b0))' = Cardinality(Readers(b0))
      BY <1>1, <1>3, <2>1, <2>2, ReadersKeep
    <3>2. Extra(b0)' = 1
      BY <2>5 DEF Extra
    <3>3. refs'[b0].n = Cardinality(Readers(b0)) + 1 /\ Cardinality(Readers(b0)) \in Nat
      BY <1>1, <1>4, <2>3, ReadersFinite DEF Refs
    <3> QED
      BY <3>1, <3>2, <3>3 DEF Refs
  <2>10. ChainOnce(n)
    BY <1>4, <2>2 DEF ChainOnce, Injective
  <2>11. Linked(t)'
    BY <2>2, <2>6 DEF Linked, At, Putting
  <2>12. OnlyAbout(t, n, b0)
    <3>1. \A b \in Block \ {b0} : SameFor(th[t], n, b)
      BY <1>0, <1>1, <1>3, <2>2 DEF SameFor, Adds, Returns, Obtains
    <3>2. \A b, x, i : Indexed(b, x, i)' <=> Indexed(b, x, i)
      BY <1>1 DEF Indexed
    <3> QED
      BY <1>1, <2>5, <3>1, <3>2 DEF OnlyAbout
  <2>13. LinksKept(t, b0)
    BY <1>1 DEF LinksKept
  <2>14. PlaceInv'
    BY <1>1, <2>1, <2>5, <2>8, <2>9, <2>10, <2>11, <2>12, <2>13, PlacesBut DEF Safe
  <2> QED
    BY <2>1, <2>2, <2>14 DEF Quiet
<1>6. CASE free # th[t].head
  <2> DEFINE l == [th[t] EXCEPT !.pc = "putBack", !.head = free]
  <2>1. th' = [th EXCEPT ![t] = l] /\ UNCHANGED freeList
    BY <1>1, <1>6 DEF PutCas, Go, freeList
  <2>2. l \in PutIn({th[t].then}) /\ l.pc = "putBack" /\ l.node = b0
    BY <1>0, <1>1, <1>2 DEF PutIn
  <2> HIDE DEF l
  <2>3. /\ LocalOk(t, l) /\ Same(t, th[t], l) /\ BehindIn(l) = BehindIn(th[t]) /\ Reads(l) = {}
        /\ Hands(l) = {b0} \cup ToSet(BehindIn(l))
    BY <1>1, <2>2, PutOther DEF Safe, Putting
  <2>4. \A b : SameFor(th[t], l, b)
    BY <1>0, <1>1, <1>3, <2>2, <2>3 DEF SameFor, Adds, Returns, Obtains
  <2>5. ChainOnce(l)
    BY <1>0, <1>1, <1>4, <2>2, <2>3 DEF ChainOnce, Putting
  <2>6. Linked(t)'
    BY <1>1, <2>1, <2>2 DEF Linked, At
  <2>7. PlaceInv'
    BY <1>1, <2>1, <2>4, <2>5, <2>6, PlacesSame DEF Safe
  <2> QED
    BY <2>1, <2>3, <2>7 DEF Quiet
<1> QED
  BY <1>5, <1>6

LEMMA PutBackPlaces ==
    ASSUME Safe, NEW t \in Thread, PutBack(t)
    PROVE  PlaceInv' /\ Quiet(t)
<1>0. PICK b0 \in Block : b0 = th[t].node
  BY PutShape DEF Safe, Putting, PutBack, At
<1>1. /\ th[t].pc = "putBack" /\ DOMAIN th = Thread /\ UNCHANGED <<free, fresh, entry>>
  BY DEF PutBack, At, Safe, CountTypes, memory, index
<1>2. /\ th[t] \in PutIn({th[t].then}) /\ free \in Link
      /\ next \in [Block -> Link] /\ refs \in [Block -> [n : Nat, should : BOOLEAN]]
  BY <1>1, PutShape DEF Safe, Types, Putting
<1>3. Reads(th[t]) = {} /\ Hands(th[t]) = {b0} \cup ToSet(BehindIn(th[t]))
  BY <1>0, <1>1, <1>2, PutOther DEF Safe, Putting
<1>4. Once(b0) /\ Refs(b0) /\ b0 \in Hands(th[t]) /\ ListInv /\ ChainOnce(th[t]) /\ Linked(t)
  BY <1>3 DEF Safe, PlaceInv
<1>5. b0 \notin FreeBlocks /\ b0 \notin fresh /\ ~ LeftOver(b0) /\ (\A x, i : ~ Indexed(b0, x, i))
      /\ Returns(th[t], b0) /\ Extra(b0) = 1
      /\ \A u \in Thread \ {t} : b0 \notin Hands(th[u]) /\ ~ Adds(th[u], b0) /\ ~ Returns(th[u], b0)
                                 /\ ~ Obtains(th[u], b0)
  <2>1. Returns(th[t], b0)
    BY <1>0, <1>1 DEF Returns
  <2> QED
    BY <2>1, <1>4, HandOnly
<1>6. refs[b0].n = Cardinality(Readers(b0)) + 1 /\ Cardinality(Readers(b0)) \in Nat
  BY <1>4, <1>5, ReadersFinite DEF Refs
<1>7. \A b \in FreeBlocks : b # b0
  BY <1>5
<1>8. CASE refs[b0].n = 1
  <2> DEFINE l == [th[t] EXCEPT !.pc = "putCas"]
  <2>1. th' = [th EXCEPT ![t] = l] /\ next' = [next EXCEPT ![b0] = th[t].head] /\ UNCHANGED refs
    BY <1>0, <1>8 DEF PutBack, GoTo
  <2>2. l \in PutIn({th[t].then}) /\ l.pc = "putCas" /\ l.node = b0 /\ l.head = th[t].head
    BY <1>0, <1>1, <1>2 DEF PutIn
  <2> HIDE DEF l
  <2>3. /\ LocalOk(t, l) /\ Same(t, th[t], l) /\ BehindIn(l) = BehindIn(th[t]) /\ Reads(l) = {}
        /\ Hands(l) = {b0} \cup ToSet(BehindIn(l))
    BY <1>1, <2>2, PutOther DEF Safe, Putting
  <2>4. ListInv' /\ FreeBlocks' = FreeBlocks
    BY <1>1, <1>4, <1>7, <2>1, SameStack
  <2>5. \A b : SameFor(th[t], l, b)
    BY <1>0, <1>1, <1>3, <2>2, <2>3 DEF SameFor, Adds, Returns, Obtains
  <2>6. \A b, x, i : Indexed(b, x, i)' <=> Indexed(b, x, i)
    BY <1>1 DEF Indexed
  <2>7. (Once(b0) /\ Refs(b0))'
    BY <1>1, <1>4, <2>1, <2>4, <2>5, <2>6, BlockSame
  <2>8. ChainOnce(l)
    BY <1>0, <1>1, <1>4, <2>2, <2>3 DEF ChainOnce, Putting
  <2>9. Linked(t)'
    BY <1>1, <1>2, <2>1, <2>2 DEF Linked, At
  <2>10. OnlyAbout(t, l, b0)
    BY <1>1, <2>1, <2>4, <2>5, <2>6 DEF OnlyAbout
  <2>11. LinksKept(t, b0)
    <3>1. Readers(b0) = {}
      BY <1>6, <1>8, ReadersFinite
    <3>2. \A u \in Thread : th[u].pc = "getCas" /\ th[u].node = b0 => u \in Readers(b0)
      BY DEF Readers, Reads
    <3>3. \A u \in Thread : th[u].pc = "putCas" /\ th[u].node = b0 => b0 \in Hands(th[u])
      BY DEF Hands, Putting
    <3> QED
      BY <1>5, <2>1, <3>1, <3>2, <3>3 DEF LinksKept
  <2>12. PlaceInv'
    BY <1>1, <2>1, <2>4, <2>7, <2>8, <2>9, <2>10, <2>11, PlacesBut DEF Safe
  <2> QED
    BY <2>1, <2>3, <2>12 DEF Quiet
<1>9. CASE refs[b0].n # 1
  <2> DEFINE n == th[t].then
  <2>1. /\ th' = [th EXCEPT ![t] = n] /\ UNCHANGED next
        /\ refs' = [refs EXCEPT ![b0] = [n |-> refs[b0].n - 1, should |-> TRUE]]
    BY <1>0, <1>9 DEF PutBack, Go
  <2>2. /\ LocalOk(t, n) /\ Same(t, th[t], n) /\ Hands(n) = ToSet(BehindIn(th[t])) /\ Reads(n) = {}
        /\ \A b : ~ (Adds(n, b) \/ Returns(n, b) \/ Obtains(n, b))
        /\ n.pc = "giveUp" => n.chain = BehindIn(th[t])
        /\ BehindIn(n) = <<>> /\ ~ n.pc \in Putting \cup {"getCas"}
    BY <1>1, PutShape DEF Safe, Putting
  <2> HIDE DEF n
  <2>3. refs'[b0].n = refs[b0].n - 1 /\ refs'[b0].should /\ refs'[b0].n > 0
        /\ \A b \in Block \ {b0} : refs'[b] = refs[b]
    BY <1>2, <1>6, <1>9, <2>1
  <2>4. ListInv' /\ FreeBlocks' = FreeBlocks
    BY <1>1, <1>4, <2>1, SameStack
  <2>6. th'[t] = n /\ \A u \in Thread : u # t => th'[u] = th[u]
    BY <1>1, <2>1
  <2>7. b0 \notin Hands(n)
    BY <1>0, <1>1, <1>4, <2>2 DEF ChainOnce, Putting
  <2>8. Once(b0)'
    <3>1. Spot(b0, "left", None, 0)'
      BY <2>3 DEF Spot, LeftOver
    <3>2. \A x, i : ~ Indexed(b0, x, i)'
      BY <1>1, <1>5 DEF Indexed
    <3>3. \A k, y, j : Spot(b0, k, y, j)' => k = "left" /\ y = None /\ j = 0
      BY <1>1, <1>5, <2>4, <2>6, <2>7, <3>2 DEF Spot, Indexed
    <3> QED
      BY <3>1, <3>3 DEF Once, IsAt
  <2>9. Refs(b0)'
    <3>1. Cardinality(Readers(b0))' = Cardinality(Readers(b0))
      BY <1>1, <1>3, <2>1, <2>2, ReadersKeep
    <3>2. Extra(b0)' = 0
      BY <1>5, <2>2, <2>4, <2>6 DEF Extra
    <3> QED
      BY <1>6, <2>3, <3>1, <3>2 DEF Refs
  <2>10. ChainOnce(n)
    BY <1>4, <2>2 DEF ChainOnce, Injective
  <2>11. Linked(t)'
    BY <2>2, <2>6 DEF Linked, At, Putting
  <2>12. OnlyAbout(t, n, b0)
    <3>1. \A b \in Block \ {b0} : SameFor(th[t], n, b)
      BY <1>0, <1>1, <1>3, <2>2 DEF SameFor, Adds, Returns, Obtains
    <3>2. \A b, x, i : Indexed(b, x, i)' <=> Indexed(b, x, i)
      BY <1>1 DEF Indexed
    <3>3. \A b : b # b0 => refs'[b].n = refs[b].n
      BY <2>1
    <3> QED
      BY <1>1, <2>1, <2>3, <2>4, <3>1, <3>2, <3>3 DEF OnlyAbout
  <2>13. LinksKept(t, b0)
    BY <1>5, <2>1 DEF LinksKept
  <2>14. PlaceInv'
    BY <1>1, <2>1, <2>4, <2>8, <2>9, <2>10, <2>11, <2>12, <2>13, PlacesBut DEF Safe
  <2> QED
    BY <2>1, <2>2, <2>14 DEF Quiet
<1> QED
  BY <1>8, <1>9

\* The steps of try_get that only look.
LEMMA LookPlaces ==
    ASSUME Safe, NEW t \in Thread, UNCHANGED freeList, UNCHANGED fresh, UNCHANGED entry,
           th[t].pc \in {"getHead", "getRef", "getNext", "getCas", "unref"},
           NEW l, th' = [th EXCEPT ![t] = l],
           l \in GetIn({th[t].then}) \/ l = [th[t].then EXCEPT !.pc = "malloc"],
           Reads(l) = Reads(th[t]), l.pc # "getDone", l.pc = "getCas" => l.next = next[l.node]
    PROVE  PlaceInv' /\ Quiet(t)
<1>1. /\ LocalOk(t, l) /\ Same(t, th[t], l) /\ BehindIn(l) = <<>> /\ ~ l.pc \in {"put", "putCas", "giveUp"}
      /\ Hands(l) = {}
  <2>1. \A m : m \in GetIn({th[t].then}) \/ m = [th[t].then EXCEPT !.pc = "malloc"] =>
          (m.pc # "getDone" =>
           /\ LocalOk(t, m) /\ Same(t, th[t], m) /\ BehindIn(m) = <<>>
           /\ ~ m.pc \in {"put", "putCas", "giveUp"} /\ Hands(m) = {})
    BY GetShape DEF Safe
  <2> QED
    BY <2>1
<1>2. ~ l.pc \in Putting
  BY GetShape DEF Safe, GetIn, CallAt, Putting
<1>3. Hands(th[t]) = {}
  BY DEF Hands, Putting
<1>4. \A b : SameFor(th[t], l, b)
  BY <1>1, <1>2, <1>3 DEF SameFor, Adds, Returns, Obtains, Putting
<1>5. ChainOnce(l)
  BY <1>1, <1>2 DEF ChainOnce, Injective
<1>6. DOMAIN th = Thread /\ PlaceInv
  BY DEF Safe, CountTypes
<1>7. Linked(t)'
  <2>1. th'[t] = l /\ next' = next
    BY <1>6 DEF freeList
  <2> QED
    BY <1>1, <2>1 DEF Linked, At
<1>8. PlaceInv'
  BY <1>4, <1>5, <1>6, <1>7, PlacesSame
<1> QED
  BY <1>1, <1>8 DEF Quiet

LEMMA GetHeadPlaces ==
    ASSUME Safe, NEW t \in Thread, GetHead(t)
    PROVE  PlaceInv' /\ Quiet(t)
<1>1. th[t].pc = "getHead" /\ UNCHANGED freeList /\ UNCHANGED fresh /\ UNCHANGED entry /\ free \in Link
  BY DEF GetHead, At, Safe, Types, memory, index
<1> DEFINE l == IF free = None THEN [th[t].then EXCEPT !.pc = "malloc"]
                ELSE [pc |-> "getRef", head |-> free, then |-> th[t].then]
<1>2. th' = [th EXCEPT ![t] = l]
  BY DEF GetHead, Go
<1>3. l \in GetIn({th[t].then}) \/ l = [th[t].then EXCEPT !.pc = "malloc"]
  BY <1>1 DEF GetIn
<1>4. Reads(l) = Reads(th[t]) /\ l.pc # "getDone" /\ l.pc # "getCas"
  <2>1. th[t].then \in CallAt({"pool"})
    BY <1>1, GetShape DEF Safe
  <2>2. l.pc \in {"malloc", "getRef"}
    BY <2>1 DEF CallAt
  <2> HIDE DEF l
  <2> QED
    BY <1>1, <2>2 DEF Reads
<1> HIDE DEF l
<1> QED
  BY <1>1, <1>2, <1>3, <1>4, LookPlaces

LEMMA GetNextPlaces ==
    ASSUME Safe, NEW t \in Thread, GetNext(t)
    PROVE  PlaceInv' /\ Quiet(t)
<1>1. th[t].pc = "getNext" /\ UNCHANGED freeList /\ UNCHANGED fresh /\ UNCHANGED entry
      /\ next \in [Block -> Link]
  BY DEF GetNext, At, Safe, Types, memory, index
<1> DEFINE l == [pc |-> "getCas", node |-> th[t].head, next |-> next[th[t].head], then |-> th[t].then]
<1>2. th' = [th EXCEPT ![t] = l]
  BY DEF GetNext, Go
<1>3. th[t].head \in Block
  BY <1>1, GetShape DEF Safe, GetIn
<1>4. l \in GetIn({th[t].then})
  BY <1>1, <1>3 DEF GetIn
<1>5. Reads(l) = Reads(th[t]) /\ l.pc # "getDone" /\ l.next = next[l.node]
  BY <1>1 DEF Reads
<1> HIDE DEF l
<1> QED
  BY <1>1, <1>2, <1>4, <1>5, LookPlaces

LEMMA GetRefPlaces ==
    ASSUME Safe, NEW t \in Thread, GetRef(t)
    PROVE  PlaceInv' /\ Quiet(t)
<1>1. th[t].pc = "getRef" /\ UNCHANGED free /\ UNCHANGED next /\ UNCHANGED fresh /\ UNCHANGED entry
      /\ refs \in [Block -> [n : Nat, should : BOOLEAN]] /\ DOMAIN th = Thread
  BY DEF GetRef, At, Safe, Types, memory, index, CountTypes
<1>2. th[t].then \in CallAt({"pool"}) /\ th[t] \in GetIn({th[t].then}) /\ th[t].head \in Link
  BY <1>1, GetShape DEF Safe, GetIn
<1>3. CASE th[t].head = None \/ refs[th[t].head].n = 0
  <2> DEFINE l == IF th[t].head = None THEN [th[t].then EXCEPT !.pc = "malloc"]
                  ELSE [pc |-> "getHead", then |-> th[t].then]
  <2>1. th' = [th EXCEPT ![t] = l] /\ UNCHANGED freeList
    BY <1>1, <1>3 DEF GetRef, Go, freeList
  <2>2. l \in GetIn({th[t].then}) \/ l = [th[t].then EXCEPT !.pc = "malloc"]
    BY DEF GetIn
  <2>3. l.pc \in {"malloc", "getHead"}
    BY <1>2 DEF CallAt
  <2> HIDE DEF l
  <2>4. Reads(l) = Reads(th[t]) /\ l.pc # "getDone" /\ l.pc # "getCas"
    BY <1>1, <2>3 DEF Reads
  <2> QED
    BY <1>1, <2>1, <2>2, <2>4, LookPlaces
<1>4. CASE ~ (th[t].head = None \/ refs[th[t].head].n = 0)
  <2>0. PICK b0 \in Block : b0 = th[t].head
    BY <1>2, <1>4 DEF Link
  <2> DEFINE l == [th[t] EXCEPT !.pc = "getNext"]
  <2>1. th' = [th EXCEPT ![t] = l] /\ refs' = [refs EXCEPT ![b0].n = @ + 1]
    BY <1>4, <2>0 DEF GetRef, GoTo
  <2>2. l \in GetIn({th[t].then}) /\ l.pc = "getNext" /\ l.head = b0
    BY <1>1, <1>2, <2>0 DEF GetIn
  <2> HIDE DEF l
  <2>3. LocalOk(t, l) /\ Same(t, th[t], l) /\ BehindIn(l) = <<>> /\ Hands(l) = {}
    BY <1>1, <2>2, GetShape DEF Safe
  <2>4. Hands(th[t]) = {} /\ Reads(th[t]) = {} /\ Reads(l) = {b0}
    BY <1>1, <2>2 DEF Hands, Reads, Putting
  <2>5. Once(b0) /\ Refs(b0) /\ ListInv
    BY DEF Safe, PlaceInv
  <2>6. refs'[b0].n = refs[b0].n + 1 /\ refs'[b0].should = refs[b0].should /\ refs[b0].n \in Nat \ {0}
        /\ \A b \in Block \ {b0} : refs'[b] = refs[b]
    BY <1>1, <1>4, <2>0, <2>1
  <2>7. ListInv' /\ FreeBlocks' = FreeBlocks
    BY <1>1, <2>5, SameStack
  <2>8. th'[t] = l /\ \A u \in Thread : u # t => th'[u] = th[u]
    BY <1>1, <2>1
  <2>9. Once(b0)'
    <3>1. \A u \in Thread : b0 \in Hands(th'[u]) <=> b0 \in Hands(th[u])
      BY <2>3, <2>4, <2>8
    <3>2. LeftOver(b0)' <=> LeftOver(b0)
      BY <2>6 DEF LeftOver
    <3>3. \A k, x, i : Spot(b0, k, x, i)' <=> Spot(b0, k, x, i)
      BY <1>1, <2>7, <3>1, <3>2 DEF Spot
    <3> QED
      BY <2>5, <3>3 DEF Once, IsAt
  <2>10. Refs(b0)'
    <3>1. Cardinality(Readers(b0))' = Cardinality(Readers(b0)) + 1 /\ Cardinality(Readers(b0)) \in Nat
      BY <1>1, <2>1, <2>4, ReadersMore
    <3>2. /\ \A u \in Thread : Returns(th'[u], b0) <=> Returns(th[u], b0)
          /\ \A u \in Thread : Obtains(th'[u], b0) <=> Obtains(th[u], b0)
      BY <1>1, <2>2, <2>8 DEF Returns, Obtains
    <3>3. Extra(b0)' = Extra(b0) /\ Extra(b0) \in Nat
      BY <2>7, <3>2 DEF Extra
    <3> QED
      BY <2>5, <2>6, <3>1, <3>3 DEF Refs
  <2>11. ChainOnce(l)
    BY <2>2, <2>3 DEF ChainOnce, Injective, Putting
  <2>12. Linked(t)'
    BY <2>2, <2>8 DEF Linked, At
  <2>13. OnlyAbout(t, l, b0)
    <3>1. \A b \in Block \ {b0} : SameFor(th[t], l, b)
      BY <1>1, <2>2, <2>3, <2>4 DEF SameFor, Adds, Returns, Obtains
    <3>2. \A b, x, i : Indexed(b, x, i)' <=> Indexed(b, x, i)
      BY <1>1 DEF Indexed
    <3>3. \A b : b # b0 => refs'[b].n = refs[b].n
      BY <2>1
    <3> QED
      BY <1>1, <2>6, <2>7, <3>1, <3>2, <3>3 DEF OnlyAbout
  <2>14. LinksKept(t, b0)
    <3>1. \A u \in Thread : ~ Adds(th[u], b0)
      BY <2>6 DEF Safe, PlaceInv, Linked, At, Adds
    <3> QED
      BY <1>1, <3>1 DEF LinksKept
  <2>15. PlaceInv'
    BY <1>1, <2>1, <2>7, <2>9, <2>10, <2>11, <2>12, <2>13, <2>14, PlacesBut DEF Safe
  <2> QED
    BY <2>1, <2>3, <2>15 DEF Quiet
<1> QED
  BY <1>3, <1>4

\* The pop: next of the head is what the thread has read, because the reference that it
\* holds keeps the head off the list's tail end, so the CAS cannot be fooled by a block
\* that was taken and put back meanwhile.
LEMMA GetCasPlaces ==
    ASSUME Safe, NEW t \in Thread, GetCas(t)
    PROVE  PlaceInv' /\ Quiet(t)
<1>1. th[t].pc = "getCas" /\ UNCHANGED refs /\ UNCHANGED next /\ UNCHANGED fresh /\ UNCHANGED entry
      /\ refs \in [Block -> [n : Nat, should : BOOLEAN]] /\ DOMAIN th = Thread /\ free \in Link
  BY DEF GetCas, At, Safe, Types, memory, index, CountTypes
<1>2. th[t].then \in CallAt({"pool"}) /\ th[t] \in GetIn({th[t].then}) /\ th[t].node \in Block
  BY <1>1, GetShape DEF Safe, GetIn
<1>0. PICK b0 \in Block : b0 = th[t].node
  BY <1>2
<1>3. CASE free # b0
  <2> DEFINE l == [pc |-> "unref", node |-> b0, head |-> free, then |-> th[t].then]
  <2>1. th' = [th EXCEPT ![t] = l] /\ UNCHANGED freeList
    BY <1>0, <1>1, <1>3 DEF GetCas, Go, freeList
  <2>2. l \in GetIn({th[t].then})
    BY <1>1 DEF GetIn
  <2>3. Reads(l) = Reads(th[t]) /\ l.pc = "unref"
    BY <1>0, <1>1 DEF Reads
  <2> HIDE DEF l
  <2> QED
    BY <1>1, <2>1, <2>2, <2>3, LookPlaces
<1>4. CASE free = b0
  <2> DEFINE l == [pc |-> "getDone", node |-> b0, then |-> th[t].then]
  <2>1. th' = [th EXCEPT ![t] = l] /\ free' = th[t].next
    BY <1>0, <1>4 DEF GetCas, Go
  <2>2. l \in GetIn({th[t].then}) /\ l.pc = "getDone" /\ l.node = b0
    BY DEF GetIn
  <2> HIDE DEF l
  <2>3. LocalOk(t, l) /\ Same(t, th[t], l) /\ BehindIn(l) = <<>> /\ Hands(l) = {b0}
    BY <1>1, <2>2, GetShape DEF Safe
  <2>4. Hands(th[t]) = {} /\ Reads(th[t]) = {b0} /\ Reads(l) = {}
    BY <1>0, <1>1, <2>2 DEF Hands, Reads, Putting
  <2>5. Once(b0) /\ Refs(b0) /\ ListInv /\ Linked(t)
    BY DEF Safe, PlaceInv
  <2>6. free' = next[free]
    BY <1>0, <1>1, <1>4, <2>1, <2>5 DEF Linked, At
  <2>7. ListInv' /\ b0 \in FreeBlocks /\ FreeBlocks' = FreeBlocks \ {b0}
    BY <1>1, <1>4, <2>5, <2>6, StackPop
  <2>8. th'[t] = l /\ \A u \in Thread : u # t => th'[u] = th[u]
    BY <1>1, <2>1
  <2>9. b0 \notin fresh /\ ~ LeftOver(b0) /\ (\A x, i : ~ Indexed(b0, x, i))
        /\ \A u \in Thread : b0 \notin Hands(th[u])
    <3>1. Spot(b0, "free", None, 0)
      BY <2>7 DEF Spot
    <3>2. \A k, y, j : Spot(b0, k, y, j) => k = "free"
      BY <2>5, <3>1, SpotOnly
    <3> QED
      BY <3>2 DEF Spot, Indexed
  <2>10. Once(b0)'
    <3>1. Spot(b0, "hand", t, 0)'
      BY <2>3, <2>8 DEF Spot
    <3>2. ~ LeftOver(b0)' /\ \A x, i : ~ Indexed(b0, x, i)'
      BY <1>1, <2>9 DEF LeftOver, Indexed
    <3>3. \A k, y, j : Spot(b0, k, y, j)' => k = "hand" /\ y = t /\ j = 0
      BY <1>1, <2>7, <2>8, <2>9, <3>2 DEF Spot, Indexed
    <3> QED
      BY <3>1, <3>3 DEF Once, IsAt
  <2>11. Refs(b0)'
    <3>1. Cardinality(Readers(b0))' = Cardinality(Readers(b0)) - 1 /\ Cardinality(Readers(b0)) \in Nat \ {0}
      BY <1>1, <2>1, <2>4, ReadersLess
    <3>2. \A u \in Thread : ~ Returns(th'[u], b0)
      BY <2>2, <2>8, <2>9, HandsOf DEF Returns
    <3>3. Obtains(th'[t], b0)
      BY <2>2, <2>8 DEF Obtains
    <3>4. Extra(b0)' = 2 /\ Extra(b0) = 1
      BY <2>7, <3>2, <3>3 DEF Extra
    <3> QED
      BY <1>1, <2>5, <3>1, <3>4 DEF Refs
  <2>12. ChainOnce(l)
    BY <2>2, <2>3 DEF ChainOnce, Injective, Putting
  <2>13. Linked(t)'
    BY <2>2, <2>8 DEF Linked, At
  <2>14. OnlyAbout(t, l, b0)
    <3>1. \A b \in Block \ {b0} : SameFor(th[t], l, b)
      BY <1>1, <2>2, <2>3, <2>4 DEF SameFor, Adds, Returns, Obtains
    <3>2. \A b, x, i : Indexed(b, x, i)' <=> Indexed(b, x, i)
      BY <1>1 DEF Indexed
    <3> QED
      BY <1>1, <2>7, <3>1, <3>2 DEF OnlyAbout
  <2>15. LinksKept(t, b0)
    BY <1>1 DEF LinksKept
  <2>16. PlaceInv'
    BY <1>1, <2>1, <2>7, <2>10, <2>11, <2>12, <2>13, <2>14, <2>15, PlacesBut DEF Safe
  <2> QED
    BY <2>1, <2>3, <2>16 DEF Quiet
<1> QED
  BY <1>3, <1>4

\* The last reader of a block that should be on the list adds it, and nobody else does.
LEMMA UnrefPlaces ==
    ASSUME Safe, NEW t \in Thread, Unref(t)
    PROVE  PlaceInv' /\ Quiet(t)
<1>1. th[t].pc = "unref" /\ UNCHANGED free /\ UNCHANGED next /\ UNCHANGED fresh /\ UNCHANGED entry
      /\ refs \in [Block -> [n : Nat, should : BOOLEAN]] /\ DOMAIN th = Thread
  BY DEF Unref, At, Safe, Types, memory, index, CountTypes
<1>2. /\ th[t].then \in CallAt({"pool"}) /\ th[t] \in GetIn({th[t].then})
      /\ th[t].node \in Block /\ th[t].head \in Link
      /\ t \in Producer /\ t \notin Consumer
  BY <1>1, GetShape DEF Safe, GetIn
<1>0. PICK b0 \in Block : b0 = th[t].node
  BY <1>2
<1> DEFINE again == [pc |-> "getRef", head |-> th[t].head, then |-> th[t].then]
           put == [pc |-> "put", node |-> b0, then |-> again]
           l == IF LastRef(refs[b0]) THEN put ELSE again
<1>3. th' = [th EXCEPT ![t] = l] /\ refs' = [refs EXCEPT ![b0].n = @ - 1]
  BY <1>0 DEF Unref, Go
<1>4. again \in GetIn({th[t].then}) /\ again.pc = "getRef"
  BY <1>2 DEF GetIn
<1>5. LocalOk(t, again) /\ Same(t, th[t], again) /\ BehindIn(again) = <<>> /\ Hands(again) = {}
      /\ Reads(again) = {}
  <2>1. LocalOk(t, again) /\ Same(t, th[t], again) /\ BehindIn(again) = <<>> /\ Hands(again) = {}
    <3> HIDE DEF again
    <3> QED
      BY <1>1, <1>4, GetShape DEF Safe
  <2> QED
    BY <2>1 DEF Reads
<1>6. LocalOk(t, put) /\ Same(t, th[t], put) /\ BehindIn(put) = <<>> /\ Hands(put) = {b0} /\ Reads(put) = {}
  <2>1. put \in PutIn(AfterPut)
    BY <1>2 DEF PutIn, AfterPut
  <2>2. InCall(put) = th[t].then /\ InCall(th[t]) = th[t].then
    BY <1>1, <1>2 DEF InCall, Calls, CallAt, GetIn
  <2>3. BehindIn(put) = <<>> /\ ToSet(<<>>) = {}
    BY DEF BehindIn, ToSet
  <2>4. Hands(put) = {b0} \cup ToSet(BehindIn(put)) /\ Reads(put) = {}
    BY DEF Hands, Reads, Putting
  <2> QED
    BY <1>1, <1>2, <2>1, <2>2, <2>3, <2>4 DEF LocalOk, Same, SameCall, Enq
<1>7. Hands(th[t]) = {} /\ Reads(th[t]) = {b0}
  BY <1>0, <1>1 DEF Hands, Reads, Putting
<1>8. Once(b0) /\ Refs(b0) /\ ListInv
  BY DEF Safe, PlaceInv
<1>9. LocalOk(t, l) /\ Same(t, th[t], l) /\ BehindIn(l) = <<>> /\ Reads(l) = {}
      /\ Hands(l) = (IF LastRef(refs[b0]) THEN {b0} ELSE {})
      /\ l.pc = (IF LastRef(refs[b0]) THEN "put" ELSE "getRef")
      /\ (LastRef(refs[b0]) => l.node = b0)
  BY <1>5, <1>6
<1> HIDE DEF l, put, again
<1>10. Cardinality(Readers(b0))' = Cardinality(Readers(b0)) - 1 /\ Cardinality(Readers(b0)) \in Nat \ {0}
  BY <1>1, <1>3, <1>7, <1>9, ReadersLess
<1>11. Extra(b0) \in Nat
  BY DEF Extra
<1>12. refs'[b0].n = refs[b0].n - 1 /\ refs'[b0].should = refs[b0].should /\ refs[b0].n \in Nat \ {0}
       /\ \A b \in Block \ {b0} : refs'[b] = refs[b]
  BY <1>1, <1>3, <1>8, <1>10, <1>11 DEF Refs
<1>13. ListInv' /\ FreeBlocks' = FreeBlocks
  BY <1>1, <1>8, SameStack
<1>14. th'[t] = l /\ \A u \in Thread : u # t => th'[u] = th[u]
  BY <1>1, <1>3
<1>15. Once(b0)' /\ Refs(b0)' /\ Linked(t)'
  <2>1. CASE LastRef(refs[b0])
    <3>1. refs[b0].n = 1 /\ refs[b0].should /\ Cardinality(Readers(b0)) = 1 /\ Extra(b0) = 0
      BY <1>8, <1>10, <1>11, <2>1 DEF LastRef, Refs
    <3>2. Spot(b0, "left", None, 0)
      BY <3>1 DEF Spot, LeftOver
    <3>3. \A k, y, j : Spot(b0, k, y, j) => k = "left"
      BY <1>8, <3>2, SpotOnly
    <3>4. b0 \notin fresh /\ b0 \notin FreeBlocks /\ (\A x, i : ~ Indexed(b0, x, i))
          /\ \A u \in Thread : b0 \notin Hands(th[u])
      BY <3>3 DEF Spot, Indexed
    <3>5. Spot(b0, "hand", t, 0)'
      BY <1>9, <1>14, <2>1 DEF Spot
    <3>6. ~ LeftOver(b0)' /\ \A x, i : ~ Indexed(b0, x, i)'
      BY <1>1, <1>12, <3>1, <3>4 DEF LeftOver, Indexed
    <3>7. \A k, y, j : Spot(b0, k, y, j)' => k = "hand" /\ y = t /\ j = 0
      BY <1>1, <1>13, <1>14, <3>4, <3>6 DEF Spot, Indexed
    <3>8. Once(b0)'
      BY <3>5, <3>7 DEF Once, IsAt
    <3>9. Extra(b0)' = 0
      <4>1. \A u \in Thread : ~ Returns(th'[u], b0) /\ ~ Obtains(th'[u], b0)
        BY <1>9, <1>14, <2>1, <3>4, HandsOf DEF Returns, Obtains
      <4> QED
        BY <1>13, <3>4, <4>1 DEF Extra
    <3>10. Adds(th'[t], b0)
      BY <1>9, <1>14, <2>1 DEF Adds
    <3>11. Refs(b0)'
      BY <1>10, <1>12, <3>1, <3>9, <3>10 DEF Refs
    <3>12. Linked(t)'
      BY <1>9, <1>12, <1>14, <2>1, <3>1 DEF Linked, At
    <3> QED
      BY <3>8, <3>11, <3>12
  <2>2. CASE ~ LastRef(refs[b0])
    <3>1. ~ (refs[b0].n = 1 /\ refs[b0].should)
      BY <1>1, <2>2 DEF LastRef
    <3>2. \A u \in Thread : b0 \in Hands(th'[u]) <=> b0 \in Hands(th[u])
      BY <1>7, <1>9, <1>14, <2>2
    <3>3. LeftOver(b0)' <=> LeftOver(b0)
      BY <1>12, <3>1 DEF LeftOver
    <3>4. \A k, x, i : Spot(b0, k, x, i)' <=> Spot(b0, k, x, i)
      BY <1>1, <1>13, <3>2, <3>3 DEF Spot
    <3>5. Once(b0)'
      BY <1>8, <3>4 DEF Once, IsAt
    <3>6. /\ \A u \in Thread : Returns(th'[u], b0) <=> Returns(th[u], b0)
          /\ \A u \in Thread : Obtains(th'[u], b0) <=> Obtains(th[u], b0)
      BY <1>1, <1>9, <1>14, <2>2 DEF Returns, Obtains
    <3>7. Extra(b0)' = Extra(b0)
      BY <1>13, <3>6 DEF Extra
    <3>8. Refs(b0)'
      BY <1>8, <1>10, <1>11, <1>12, <3>1, <3>7 DEF Refs
    <3>9. Linked(t)'
      BY <1>9, <1>14, <2>2 DEF Linked, At
    <3> QED
      BY <3>5, <3>8, <3>9
  <2> QED
    BY <2>1, <2>2
<1>16. ChainOnce(l)
  BY <1>9 DEF ChainOnce, Injective, ToSet
<1>17. OnlyAbout(t, l, b0)
  <2>1. \A b \in Block \ {b0} : SameFor(th[t], l, b)
    BY <1>0, <1>1, <1>7, <1>9 DEF SameFor, Adds, Returns, Obtains
  <2>2. \A b, x, i : Indexed(b, x, i)' <=> Indexed(b, x, i)
    BY <1>1 DEF Indexed
  <2>3. \A b : b # b0 => refs'[b].n = refs[b].n
    BY <1>3
  <2> QED
    BY <1>1, <1>12, <1>13, <2>1, <2>2, <2>3 DEF OnlyAbout
<1>18. LinksKept(t, b0)
  <2>1. \A u \in Thread : ~ Adds(th[u], b0)
    BY <1>12 DEF Safe, PlaceInv, Linked, At, Adds
  <2> QED
    BY <1>1, <2>1 DEF LinksKept
<1>19. PlaceInv'
  BY <1>1, <1>3, <1>13, <1>15, <1>16, <1>17, <1>18, PlacesBut DEF Safe
<1> QED
  BY <1>3, <1>9, <1>19 DEF Quiet

LEMMA FreeListPlaces ==
    ASSUME Safe, NEW t \in Thread, FreeListStep(t)
    PROVE  PlaceInv' /\ Quiet(t)
BY PutPlaces, PutCasPlaces, PutBackPlaces, GetHeadPlaces, GetRefPlaces, GetNextPlaces, GetCasPlaces,
   UnrefPlaces DEF FreeListStep

-----------------------------------------------------------------------------
(* A block that enters the index, and the blocks that leave it.             *)

\* Where a block that requisition_block gives comes from.
Comes(p, b) ==
    \/ b \in fresh /\ fresh' = fresh \ {b} /\ UNCHANGED refs /\ th[p].pc \in {"pool", "malloc"}
    \/ Obtains(th[p], b) /\ UNCHANGED fresh /\ refs' = [refs EXCEPT ![b].n = @ - 2]
       /\ th[p].then.pc = "pool"

\* The block that requisition_block gives gets into one entry, and is nowhere else.
LEMMA BlockComes ==
    ASSUME Safe, NEW p \in Producer, NEW b0 \in Block, Comes(p, b0), UNCHANGED <<free, next>>,
           NEW l, th' = [th EXCEPT ![p] = l], l.pc \in {"place", "index"}, "then" \notin DOMAIN l,
           NEW slot \in DOMAIN entry[p], entry[p][slot].value = None,
           entry' = [entry EXCEPT ![p][slot].value = b0]
    PROVE  PlaceInv'
<1>1. /\ refs \in [Block -> [n : Nat, should : BOOLEAN]] /\ DOMAIN th = Thread /\ p \in Thread
      /\ DOMAIN entry = Producer /\ None \notin Block
      /\ "value" \in DOMAIN entry[p][slot]
  <2>1. entry[p][slot] \in [key : Nat \cup {None}, value : Link]
    <3>1. entry[p] \in Seq([key : Nat \cup {None}, value : Link])
      BY DEF Safe, Types
    <3>2. slot \in 1 .. Len(entry[p])
      BY <3>1, LenProperties
    <3> QED
      BY <3>1, <3>2, ElementOfSeq
  <2> QED
    BY <2>1, Roles, RolesDiffer DEF Safe, Types, CountTypes, Thread
<1>2. Once(b0) /\ Refs(b0) /\ ListInv /\ \A b \in Block : refs[b].n \in Nat
  BY <1>1 DEF Safe, PlaceInv
<1>3. Hands(l) = {} /\ Reads(l) = {} /\ BehindIn(l) = <<>> /\ \A b : ~ (Adds(l, b) \/ Returns(l, b) \/ Obtains(l, b))
  BY DEF Hands, Reads, BehindIn, Adds, Returns, Obtains, Putting
<1>4. Reads(th[p]) = {} /\ Hands(th[p]) \subseteq {b0} /\ (\A b : ~ (Adds(th[p], b) \/ Returns(th[p], b)))
      /\ \A b : b # b0 => ~ Obtains(th[p], b)
  <2>1. CASE th[p].pc \in {"pool", "malloc"}
    BY <2>1 DEF Hands, Reads, BehindIn, Adds, Returns, Obtains, Putting
  <2>2. CASE Obtains(th[p], b0) /\ th[p].then.pc = "pool"
    <3>1. BehindIn(th[p]) = <<>> /\ ToSet(<<>>) = {}
      BY <2>2 DEF BehindIn, ToSet
    <3> QED
      BY <2>2, <3>1 DEF Hands, Reads, Adds, Returns, Obtains, Putting
  <2> QED
    BY <2>1, <2>2 DEF Comes
<1>5. \A u \in Thread \ {p} : b0 \notin Hands(th[u]) /\ ~ Adds(th[u], b0) /\ ~ Returns(th[u], b0)
                              /\ ~ Obtains(th[u], b0)
  <2>1. CASE b0 \in fresh
    <3>1. Spot(b0, "fresh", None, 0)
      BY <2>1 DEF Spot
    <3>2. \A k, y, j : Spot(b0, k, y, j) => k = "fresh"
      BY <1>2, <3>1, SpotOnly
    <3>3. \A u \in Thread : b0 \notin Hands(th[u])
      BY <3>2 DEF Spot
    <3> QED
      BY <3>3, HandsOf
  <2>2. CASE Obtains(th[p], b0)
    BY <1>1, <1>2, <2>2, HandOnly, HandsOf
  <2> QED
    BY <2>1, <2>2 DEF Comes
<1>6. b0 \notin fresh' /\ b0 \notin FreeBlocks /\ ~ LeftOver(b0) /\ (\A x, i : ~ Indexed(b0, x, i))
  <2>1. CASE b0 \in fresh /\ fresh' = fresh \ {b0}
    <3>1. Spot(b0, "fresh", None, 0)
      BY <2>1 DEF Spot
    <3>2. \A k, y, j : Spot(b0, k, y, j) => k = "fresh"
      BY <1>2, <3>1, SpotOnly
    <3> QED
      BY <2>1, <3>2 DEF Spot, Indexed
  <2>2. CASE Obtains(th[p], b0) /\ UNCHANGED fresh
    BY <1>1, <1>2, <2>2, HandOnly, HandsOf
  <2> QED
    BY <2>1, <2>2 DEF Comes
<1>7. ListInv' /\ FreeBlocks' = FreeBlocks
  BY <1>2, SameStack
<1>8. th'[p] = l /\ \A u \in Thread : u # p => th'[u] = th[u]
  BY <1>1
<1>9. \A b \in Block : \A x, i : Indexed(b, x, i)' <=> Indexed(b, x, i) \/ (b = b0 /\ x = p /\ i = slot)
  <2>1. ASSUME NEW b \in Block, NEW x, NEW i
        PROVE  Indexed(b, x, i)' <=> Indexed(b, x, i) \/ (b = b0 /\ x = p /\ i = slot)
    <3>1. CASE x = p /\ i = slot
      BY <1>1, <3>1 DEF Indexed
    <3>2. CASE ~ (x = p /\ i = slot)
      BY <1>1, <3>2 DEF Indexed
    <3> QED
      BY <3>1, <3>2
  <2> QED
    BY <2>1
<1>10. refs'[b0].should = refs[b0].should /\ \A b : b # b0 => refs'[b] = refs[b]
  <2>1. CASE UNCHANGED refs
    BY <2>1
  <2>2. CASE refs' = [refs EXCEPT ![b0].n = @ - 2]
    BY <1>1, <2>2
  <2> QED
    BY <2>1, <2>2 DEF Comes
<1>11. ~ LeftOver(b0)'
  <2>1. CASE UNCHANGED refs
    BY <1>6, <2>1 DEF LeftOver
  <2>2. CASE Obtains(th[p], b0) /\ refs' = [refs EXCEPT ![b0].n = @ - 2]
    <3>1. refs'[b0].n = refs[b0].n - 2
      BY <1>1, <2>2
    <3> QED
      BY <1>2, <1>6, <1>10, <3>1 DEF LeftOver
  <2> QED
    BY <2>1, <2>2 DEF Comes
<1>12. Once(b0)'
  <2>1. Spot(b0, "index", p, slot)'
    BY <1>9 DEF Spot, Indexed
  <2>2. \A k, y, j : Spot(b0, k, y, j)' => k = "index" /\ y = p /\ j = slot
    BY <1>3, <1>5, <1>6, <1>7, <1>8, <1>9, <1>11 DEF Spot, Indexed
  <2> QED
    BY <2>1, <2>2 DEF Once, IsAt
<1>13. Refs(b0)'
  <2>1. Cardinality(Readers(b0))' = Cardinality(Readers(b0)) /\ Cardinality(Readers(b0)) \in Nat
    BY <1>1, <1>3, <1>4, ReadersKeep, ReadersFinite
  <2>2. Extra(b0)' = 0
    BY <1>3, <1>5, <1>6, <1>7, <1>8 DEF Extra
  <2>3. CASE UNCHANGED refs /\ ~ Obtains(th[p], b0)
    <3>1. Extra(b0) = 0
      BY <1>4, <1>5, <1>6, <2>3 DEF Extra
    <3>2. ~ (refs[b0].should /\ refs[b0].n = 0)
      BY <1>2, <1>4, <1>5 DEF Refs
    <3> QED
      BY <1>2, <2>1, <2>2, <2>3, <3>1, <3>2 DEF Refs
  <2>4. CASE Obtains(th[p], b0) /\ refs' = [refs EXCEPT ![b0].n = @ - 2]
    <3>1. Extra(b0) = 2
      BY <1>1, <1>4, <1>5, <1>6, <2>4 DEF Extra
    <3>2. refs'[b0].n = refs[b0].n - 2
      BY <1>1, <2>4
    <3>3. ~ refs[b0].should
      BY <1>2, <1>6, <2>1, <3>1 DEF Refs, LeftOver
    <3> QED
      BY <1>2, <1>10, <2>1, <2>2, <3>1, <3>2, <3>3 DEF Refs
  <2> QED
    BY <2>3, <2>4 DEF Comes, Obtains
<1>14. ChainOnce(l)
  BY <1>3 DEF ChainOnce, Injective, Putting
<1>15. Linked(p)'
  BY <1>8 DEF Linked, At
<1>16. OnlyAbout(p, l, b0)
  <2>1. \A b \in Block \ {b0} : SameFor(th[p], l, b)
    BY <1>3, <1>4 DEF SameFor
  <2>2. \A b \in Block \ {b0} : (b \in fresh)' <=> b \in fresh
    BY DEF Comes
  <2>3. \A b \in Block \ {b0} : \A x, i : Indexed(b, x, i)' <=> Indexed(b, x, i)
    BY <1>9
  <2> QED
    BY <1>7, <1>10, <2>1, <2>2, <2>3 DEF OnlyAbout
<1>17. LinksKept(p, b0)
  BY <1>5 DEF LinksKept
<1> QED
  BY <1>1, <1>7, <1>12, <1>13, <1>14, <1>15, <1>16, <1>17, PlacesBut DEF Safe

\* add, for a block that the thread has in its hands.
LEMMA AddPlaces ==
    ASSUME Safe, NEW t \in Thread, UNCHANGED <<free, next, fresh, entry>>, NEW b0 \in Block,
           th[t].pc \in {"giveUp", "release"}, NEW n, ~ n.pc \in Putting \cup {"getCas", "release", "getDone"},
           Hands(th[t]) = {b0} \cup Hands(n), b0 \notin Hands(n), Reads(n) = {},
           ChainOnce(n), BehindIn(n) = <<>>, "then" \notin DOMAIN n,
           n.pc # "giveUp" => Hands(n) = {}, n.pc = "giveUp" => Hands(n) = ToSet(n.chain) /\ Injective(n.chain),
           Add(t, b0, n)
    PROVE  PlaceInv'
<1>1. /\ refs \in [Block -> [n : Nat, should : BOOLEAN]] /\ DOMAIN th = Thread
      /\ UNCHANGED fresh /\ UNCHANGED entry
  BY DEF Safe, Types, CountTypes
<1> DEFINE put == [pc |-> "put", node |-> b0, then |-> n]
           l == IF refs[b0].n = 0 THEN put ELSE n
<1>2. th' = [th EXCEPT ![t] = l] /\ refs' = [refs EXCEPT ![b0].should = TRUE] /\ UNCHANGED free /\ UNCHANGED next
  BY DEF Add, Go
<1>3. Reads(put) = {} /\ Hands(put) = {b0} \cup Hands(n) /\ ChainOnce(put)
      /\ \A b : (Adds(put, b) <=> b = b0) /\ ~ Returns(put, b) /\ ~ Obtains(put, b)
  <2>1. BehindIn(put) = (IF n.pc = "giveUp" THEN n.chain ELSE <<>>) /\ ToSet(<<>>) = {}
    BY DEF BehindIn, ToSet
  <2>2. Hands(put) = {b0} \cup Hands(n)
    BY <2>1 DEF Hands, Putting
  <2>3. ChainOnce(put)
    BY <2>1 DEF ChainOnce, Injective
  <2> QED
    BY <2>2, <2>3 DEF Reads, Adds, Returns, Obtains
<1>4. \A b : ~ Adds(n, b) /\ ~ Returns(n, b) /\ ~ Obtains(n, b)
  BY DEF Adds, Returns, Obtains, Putting
<1>5. Reads(th[t]) = {} /\ \A b : ~ Adds(th[t], b) /\ ~ Returns(th[t], b) /\ ~ Obtains(th[t], b)
  BY DEF Reads, Adds, Returns, Obtains
<1>6. /\ Reads(l) = {} /\ ChainOnce(l) /\ \A b : ~ Returns(l, b) /\ ~ Obtains(l, b)
      /\ \A b : b # b0 => (b \in Hands(l) <=> b \in Hands(th[t])) /\ ~ Adds(l, b)
      /\ b0 \in Hands(l) <=> refs[b0].n = 0
      /\ Adds(l, b0) <=> refs[b0].n = 0
      /\ l.pc = "put" => refs[b0].n = 0 /\ l.node = b0
      /\ ~ l.pc \in {"getCas", "putCas"}
  <2>1. CASE refs[b0].n = 0
    BY <1>3, <2>1
  <2>2. CASE refs[b0].n # 0
    BY <1>4, <2>2 DEF Putting
  <2> QED
    BY <2>1, <2>2
<1> HIDE DEF l, put
<1>7. Once(b0) /\ Refs(b0) /\ ListInv /\ b0 \in Hands(th[t]) /\ refs[b0].n \in Nat
  BY <1>1 DEF Safe, PlaceInv
<1>8. /\ b0 \notin fresh /\ b0 \notin FreeBlocks /\ (\A x, i : ~ Indexed(b0, x, i)) /\ Extra(b0) = 0
      /\ \A u \in Thread \ {t} : b0 \notin Hands(th[u]) /\ ~ Adds(th[u], b0) /\ ~ Returns(th[u], b0)
                                 /\ ~ Obtains(th[u], b0)
  BY <1>5, <1>7, HandOnly
<1>9. refs'[b0].n = refs[b0].n /\ refs'[b0].should /\ (\A b : b # b0 => refs'[b] = refs[b])
      /\ \A b : refs'[b].n = refs[b].n
  BY <1>1, <1>2
<1>10. ListInv' /\ FreeBlocks' = FreeBlocks
  BY <1>2, <1>7, SameStack
<1>11. th'[t] = l /\ \A u \in Thread : u # t => th'[u] = th[u]
  BY <1>1, <1>2
<1>12. Once(b0)'
  <2>1. LeftOver(b0)' <=> refs[b0].n # 0
    BY <1>7, <1>9 DEF LeftOver
  <2>2. CASE refs[b0].n = 0
    <3>1. Spot(b0, "hand", t, 0)'
      BY <1>6, <1>11, <2>2 DEF Spot
    <3>2. \A k, y, j : Spot(b0, k, y, j)' => k = "hand" /\ y = t /\ j = 0
      BY <1>1, <1>8, <1>10, <1>11, <2>1, <2>2 DEF Spot, Indexed
    <3> QED
      BY <3>1, <3>2 DEF Once, IsAt
  <2>3. CASE refs[b0].n # 0
    <3>1. Spot(b0, "left", None, 0)'
      BY <2>1, <2>3 DEF Spot
    <3>2. \A k, y, j : Spot(b0, k, y, j)' => k = "left" /\ y = None /\ j = 0
      BY <1>1, <1>6, <1>8, <1>10, <1>11, <2>3 DEF Spot, Indexed
    <3> QED
      BY <3>1, <3>2 DEF Once, IsAt
  <2> QED
    BY <2>2, <2>3
<1>13. Refs(b0)'
  <2>1. Cardinality(Readers(b0))' = Cardinality(Readers(b0))
    BY <1>1, <1>2, <1>5, <1>6, ReadersKeep
  <2>2. Extra(b0)' = 0
    BY <1>6, <1>8, <1>10, <1>11 DEF Extra
  <2>3. refs[b0].n = 0 => Adds(th'[t], b0)
    BY <1>6, <1>11
  <2> QED
    BY <1>7, <1>8, <1>9, <2>1, <2>2, <2>3 DEF Refs
<1>14. Linked(t)'
  BY <1>6, <1>9, <1>11 DEF Linked, At
<1>15. OnlyAbout(t, l, b0)
  <2>1. \A b \in Block \ {b0} : SameFor(th[t], l, b)
    BY <1>5, <1>6 DEF SameFor
  <2>2. \A b, x, i : Indexed(b, x, i)' <=> Indexed(b, x, i)
    BY <1>1 DEF Indexed
  <2> QED
    BY <1>1, <1>2, <1>9, <1>10, <2>1, <2>2 DEF OnlyAbout
<1>16. LinksKept(t, b0)
  BY <1>2, <1>9 DEF LinksKept
<1> QED
  BY <1>1, <1>2, <1>6, <1>10, <1>12, <1>13, <1>14, <1>15, <1>16, PlacesBut DEF Safe

LEMMA EntryFields ==
    ASSUME Types, NEW p \in Producer, NEW i \in DOMAIN entry[p]
    PROVE  entry[p][i] \in [key : Nat \cup {None}, value : Link] /\ i \in Nat \ {0}
<1>1. entry[p] \in Seq([key : Nat \cup {None}, value : Link])
  BY DEF Types
<1>2. Len(entry[p]) \in Nat /\ i \in 1 .. Len(entry[p])
  BY <1>1, LenProperties
<1>3. entry[p][i] \in [key : Nat \cup {None}, value : Link]
  BY <1>1, <1>2, ElementOfSeq
<1>4. i \in Nat \ {0}
  BY <1>2
<1> QED
  BY <1>3, <1>4

LEMMA BlockLeaves ==
    ASSUME Safe, NEW c \in Consumer, th[c].pc = "forget", UNCHANGED freeList, UNCHANGED fresh,
           NEW p \in Producer, NEW slot \in DOMAIN entry[p],
           NEW b0 \in Block, entry[p][slot].value = b0,
           entry' = [entry EXCEPT ![p][slot].value = None],
           NEW l, th' = [th EXCEPT ![c] = l], l.pc = "release", l.node = b0,
           "then" \in DOMAIN l, l.then.pc # "giveUp"
    PROVE  PlaceInv'
<1>1. /\ DOMAIN th = Thread /\ c \in Thread /\ DOMAIN entry = Producer /\ None \notin Block
      /\ "value" \in DOMAIN entry[p][slot] /\ UNCHANGED free /\ UNCHANGED refs /\ UNCHANGED next
  <2>1. DOMAIN th = Thread /\ c \in Thread /\ None \notin Block
    BY Roles, RolesDiffer DEF Safe, CountTypes
  <2>2. DOMAIN entry = Producer
    BY DEF Safe, Types
  <2>3. "value" \in DOMAIN entry[p][slot]
    BY EntryFields DEF Safe
  <2>4. UNCHANGED free /\ UNCHANGED refs /\ UNCHANGED next
    BY DEF freeList
  <2> QED
    BY <2>1, <2>2, <2>3, <2>4
<1>2. Once(b0) /\ Refs(b0) /\ ListInv
  BY DEF Safe, PlaceInv
<1>3. /\ Hands(l) = {b0} /\ Reads(l) = {} /\ ChainOnce(l)
      /\ \A b : ~ (Adds(l, b) \/ Returns(l, b) \/ Obtains(l, b))
  <2>1. BehindIn(l) = <<>> /\ ToSet(<<>>) = {}
    BY DEF BehindIn, ToSet
  <2> QED
    BY <2>1 DEF Hands, Reads, Adds, Returns, Obtains, Putting, ChainOnce, Injective
<1>4. Hands(th[c]) = {} /\ Reads(th[c]) = {} /\ \A b : ~ (Adds(th[c], b) \/ Returns(th[c], b) \/ Obtains(th[c], b))
  BY DEF Hands, Reads, Adds, Returns, Obtains, Putting
<1>5. ListInv' /\ FreeBlocks' = FreeBlocks
  BY <1>1, <1>2, SameStack
<1>6. th'[c] = l /\ \A u \in Thread : u # c => th'[u] = th[u]
  BY <1>1
<1>7. \A b \in Block : \A x, i : Indexed(b, x, i)' <=> Indexed(b, x, i) /\ ~ (x = p /\ i = slot)
  <2>1. ASSUME NEW b \in Block, NEW x, NEW i
        PROVE  Indexed(b, x, i)' <=> Indexed(b, x, i) /\ ~ (x = p /\ i = slot)
    <3>1. CASE x = p /\ i = slot
      BY <1>1, <3>1 DEF Indexed
    <3>2. CASE ~ (x = p /\ i = slot)
      BY <1>1, <3>2 DEF Indexed
    <3> QED
      BY <3>1, <3>2
  <2> QED
    BY <2>1
<1>8. \A k, y, j : Spot(b0, k, y, j) => k = "index" /\ y = p /\ j = slot
  <2>1. Spot(b0, "index", p, slot)
    BY DEF Spot
  <2> QED
    BY <1>2, <2>1, SpotOnly
<1>9. Once(b0)'
  <2>1. Spot(b0, "hand", c, 0)'
    BY <1>1, <1>3, <1>6 DEF Spot
  <2>2. b0 \notin fresh /\ b0 \notin FreeBlocks /\ ~ LeftOver(b0) /\ \A u \in Thread : b0 \notin Hands(th[u])
    BY <1>8 DEF Spot
  <2>0. \A x, i : Indexed(b0, x, i) => x = p /\ i = slot
    <3>1. \A x, i : Indexed(b0, x, i) => Spot(b0, "index", x, i)
      BY DEF Spot, Indexed
    <3> QED
      BY <1>8, <3>1
  <2>3. \A x, i : ~ Indexed(b0, x, i)'
    BY <1>7, <2>0
  <2>4. ~ LeftOver(b0)'
    BY <1>1, <2>2 DEF LeftOver
  <2>5. \A k, y, j : Spot(b0, k, y, j)' => k = "hand" /\ y = c /\ j = 0
    BY <1>5, <1>6, <2>2, <2>3, <2>4 DEF Spot, Indexed
  <2> QED
    BY <2>1, <2>5 DEF Once, IsAt
<1>10. Refs(b0)'
  <2>1. Cardinality(Readers(b0))' = Cardinality(Readers(b0))
    BY <1>1, <1>3, <1>4, ReadersKeep
  <2>2. /\ \A u \in Thread : Returns(th'[u], b0) <=> Returns(th[u], b0)
        /\ \A u \in Thread : Obtains(th'[u], b0) <=> Obtains(th[u], b0)
        /\ \A u \in Thread : Adds(th'[u], b0) <=> Adds(th[u], b0)
    BY <1>3, <1>4, <1>6
  <2>3. Extra(b0)' = Extra(b0)
    BY <1>5, <2>2 DEF Extra
  <2> QED
    BY <1>1, <1>2, <2>1, <2>2, <2>3 DEF Refs
<1>11. Linked(c)'
  BY <1>6 DEF Linked, At
<1>12. OnlyAbout(c, l, b0)
  <2>1. \A b \in Block \ {b0} : SameFor(th[c], l, b)
    BY <1>3, <1>4 DEF SameFor
  <2>2. \A b \in Block \ {b0} : \A x, i : Indexed(b, x, i)' <=> Indexed(b, x, i)
    <3>1. \A b \in Block \ {b0} : ~ Indexed(b, p, slot)
      BY DEF Indexed
    <3> QED
      BY <1>7, <3>1
  <2> QED
    BY <1>1, <1>5, <2>1, <2>2 DEF OnlyAbout
<1>13. LinksKept(c, b0)
  BY <1>1 DEF LinksKept
<1> QED
  BY <1>1, <1>3, <1>5, <1>9, <1>10, <1>11, <1>12, <1>13, PlacesBut DEF Safe

\* The entry of slot and those of the blocks of chain get no block.
Emptying(p, chain, slot) ==
    entry' = [entry EXCEPT ![p] = [i \in DOMAIN @ |->
                 IF i = slot \/ @[i].value \in ToSet(chain)
                 THEN [@[i] EXCEPT !.value = None] ELSE @[i]]]

\* The blocks of a call that gives up are in its hands, and no longer in the index.
LEMMA BlocksLeave ==
    ASSUME Safe, NEW p \in Producer, th[p].pc = "undo", UNCHANGED freeList, UNCHANGED fresh,
           NEW chain \in Seq(Block), Injective(chain), NEW slot,
           \A b \in ToSet(chain) : \E i : Indexed(b, p, i),
           slot \in DOMAIN entry[p] => entry[p][slot].value = None,
           Emptying(p, chain, slot),
           NEW l, th' = [th EXCEPT ![p] = l],
           l = (IF ToSet(chain) = {} THEN Idle ELSE [pc |-> "giveUp", chain |-> chain])
    PROVE  PlaceInv'
<1> DEFINE mine == ToSet(chain)
<1>1. /\ DOMAIN th = Thread /\ p \in Thread /\ DOMAIN entry = Producer /\ None \notin Block
      /\ UNCHANGED free /\ UNCHANGED refs /\ UNCHANGED next
  BY Roles, RolesDiffer DEF Safe, Types, CountTypes, Thread, freeList
<1>2. mine \subseteq Block /\ l.pc \in {"idle", "giveUp"}
  BY SeqDef DEF ToSet, Idle
<1>3. /\ Hands(l) = mine /\ Reads(l) = {} /\ ChainOnce(l)
      /\ \A b : ~ (Adds(l, b) \/ Returns(l, b) \/ Obtains(l, b))
  <2>1. "then" \notin DOMAIN l /\ (l.pc = "giveUp" => l.chain = chain) /\ (l.pc = "idle" => mine = {})
    BY DEF Idle
  <2>2. BehindIn(l) = <<>>
    BY <2>1 DEF BehindIn
  <2> QED
    BY <1>2, <2>1, <2>2 DEF Hands, Reads, Adds, Returns, Obtains, Putting, ChainOnce, Injective
<1>4. Hands(th[p]) = {} /\ Reads(th[p]) = {} /\ \A b : ~ (Adds(th[p], b) \/ Returns(th[p], b) \/ Obtains(th[p], b))
  BY DEF Hands, Reads, Adds, Returns, Obtains, Putting
<1>5. ListInv' /\ FreeBlocks' = FreeBlocks
  BY <1>1, SameStack DEF Safe, PlaceInv
<1>6. th'[p] = l /\ \A u \in Thread : u # p => th'[u] = th[u]
  BY <1>1
<1>7. \A b \in Block : \A x, i : Indexed(b, x, i)' <=> Indexed(b, x, i) /\ ~ (x = p /\ b \in mine)
  <2>1. ASSUME NEW b \in Block, NEW x, NEW i
        PROVE  Indexed(b, x, i)' <=> Indexed(b, x, i) /\ ~ (x = p /\ b \in mine)
    <3>1. CASE x = p /\ i \in DOMAIN entry[p]
      <4>1. DOMAIN entry'[p] = DOMAIN entry[p]
            /\ entry'[p][i] = IF i = slot \/ entry[p][i].value \in mine
                              THEN [entry[p][i] EXCEPT !.value = None] ELSE entry[p][i]
        BY <1>1, <3>1 DEF Emptying
      <4>2. "value" \in DOMAIN entry[p][i]
        BY <3>1, EntryFields DEF Safe
      <4>3. CASE i = slot \/ entry[p][i].value \in mine
        <5>1. entry'[p][i].value = None /\ (i = slot => entry[p][i].value = None)
          BY <3>1, <4>1, <4>2, <4>3
        <5> QED
          BY <1>1, <3>1, <4>1, <4>3, <5>1 DEF Indexed
      <4>4. CASE ~ (i = slot \/ entry[p][i].value \in mine)
        BY <3>1, <4>1, <4>4 DEF Indexed
      <4> QED
        BY <4>3, <4>4
    <3>2. CASE x # p
      BY <1>1, <3>2 DEF Indexed, Emptying
    <3>3. CASE x = p /\ i \notin DOMAIN entry[p]
      <4>1. DOMAIN entry'[p] = DOMAIN entry[p]
        BY <1>1 DEF Emptying
      <4> QED
        BY <3>3, <4>1 DEF Indexed
    <3> QED
      BY <3>1, <3>2, <3>3
  <2> QED
    BY <2>1
<1> HIDE DEF mine
<1>8. ASSUME NEW b \in Block PROVE Once(b)' /\ Refs(b)'
  <2>0. Once(b) /\ Refs(b)
    BY DEF Safe, PlaceInv
  <2>1. CASE b \notin mine
    <3>1. \A x, i : Indexed(b, x, i)' <=> Indexed(b, x, i)
      BY <1>7, <2>1
    <3>2. SameFor(th[p], l, b)
      BY <1>3, <1>4, <2>1 DEF SameFor
    <3> QED
      BY <1>1, <1>5, <2>0, <3>1, <3>2, BlockSame
  <2>2. CASE b \in mine
    <3>1. PICK i : Indexed(b, p, i)
      BY <2>2 DEF mine
    <3>2. \A k, y, j : Spot(b, k, y, j) => k = "index" /\ y = p /\ j = i
      <4>1. Spot(b, "index", p, i)
        BY <3>1 DEF Spot, Indexed
      <4> QED
        BY <2>0, <4>1, SpotOnly
    <3>3. b \notin fresh /\ b \notin FreeBlocks /\ ~ LeftOver(b) /\ \A u \in Thread : b \notin Hands(th[u])
      <4>1. ~ Spot(b, "fresh", None, 0) /\ ~ Spot(b, "free", None, 0) /\ ~ Spot(b, "left", None, 0)
            /\ \A u : ~ Spot(b, "hand", u, 0)
        BY <3>2
      <4>2. b \notin fresh
        BY <4>1 DEF Spot
      <4>3. b \notin FreeBlocks
        BY <4>1 DEF Spot
      <4>4. ~ LeftOver(b)
        BY <4>1 DEF Spot
      <4>5. \A u \in Thread : b \notin Hands(th[u])
        BY <4>1 DEF Spot
      <4> QED
        BY <4>2, <4>3, <4>4, <4>5
    <3>4. \A x, j : ~ Indexed(b, x, j)'
      <4>0. \A x, j : Indexed(b, x, j) => Spot(b, "index", x, j)
        BY DEF Spot, Indexed
      <4>1. \A x, j : Indexed(b, x, j) => x = p
        BY <3>2, <4>0
      <4> QED
        BY <1>7, <2>2, <4>1
    <3>5. ~ LeftOver(b)'
      BY <1>1, <3>3 DEF LeftOver
    <3>6. Spot(b, "hand", p, 0)'
      BY <1>1, <1>3, <1>6, <2>2 DEF Spot
    <3>7. \A k, y, j : Spot(b, k, y, j)' => k = "hand" /\ y = p /\ j = 0
      BY <1>5, <1>6, <3>3, <3>4, <3>5 DEF Spot, Indexed
    <3>8. Once(b)'
      BY <3>6, <3>7 DEF Once, IsAt
    <3>9. Cardinality(Readers(b))' = Cardinality(Readers(b))
      BY <1>1, <1>3, <1>4, ReadersKeep
    <3>10. /\ \A u \in Thread : Returns(th'[u], b) <=> Returns(th[u], b)
           /\ \A u \in Thread : Obtains(th'[u], b) <=> Obtains(th[u], b)
           /\ \A u \in Thread : Adds(th'[u], b) <=> Adds(th[u], b)
      BY <1>3, <1>4, <1>6
    <3>11. Extra(b)' = Extra(b)
      BY <1>5, <3>10 DEF Extra
    <3> QED
      BY <1>1, <2>0, <3>8, <3>9, <3>10, <3>11 DEF Refs
  <2> QED
    BY <2>1, <2>2
<1>9. ASSUME NEW u \in Thread PROVE (ChainOnce(th[u]) /\ Linked(u))'
  <2>1. CASE u = p
    BY <1>2, <1>3, <1>6, <2>1 DEF Linked, At
  <2>2. CASE u # p
    BY <1>1, <1>6, <2>2 DEF Safe, PlaceInv, Linked, At
  <2> QED
    BY <2>1, <2>2
<1> QED
  BY <1>5, <1>8, <1>9 DEF PlaceInv

-----------------------------------------------------------------------------
(* What of the index and of the elements does not change when the entries, the *)
(* call and the claims of a producer do not.                                *)

\* A step that changes nothing of the index of a producer, its call or what is claimed of it.
Frame(p) ==
    /\ header'[p] = header[p] /\ entry'[p] = entry[p]
    /\ Chain(p)' = Chain(p) /\ Tried(p)' = Tried(p) /\ Written(p)' = Written(p)
    /\ \A c \in Consumer : /\ Takes(c, p)' <=> Takes(c, p)
                           /\ Takes(c, p) => TakenBy(c)' = TakenBy(c)

LEMMA FrameNames ==
    ASSUME NEW p, header'[p] = header[p], entry'[p] = entry[p],
           Chain(p)' = Chain(p), Tried(p)' = Tried(p), Written(p)' = Written(p)
    PROVE  /\ Gens(p)' = Gens(p) /\ Known(p)' = Known(p) /\ Top(p)' = Top(p)
           /\ \A ph, k : Now(p, ph, k)' = Now(p, ph, k)
           /\ \A ph : Chained(p, ph)' <=> Chained(p, ph)
           /\ \A ph, k, b : Holds(p, ph, k, b)' <=> Holds(p, ph, k, b)
           /\ \A ph : Keyed(p, ph)' <=> Keyed(p, ph)
           /\ \A ph, l : FindsRight(p, ph, l)' <=> FindsRight(p, ph, l)
           /\ \A k, i : Used(p, k, i)' <=> Used(p, k, i)
<1>1. Gens(p)' = Gens(p)
  BY DEF Gens
<1>2. Known(p)' = Known(p)
  BY DEF Known, Num
<1>3. Top(p)' = Top(p)
  BY <1>2 DEF Top
<1>4. \A ph, k : Now(p, ph, k)' = Now(p, ph, k)
  BY <1>1 DEF Now, Named
<1>5. \A ph : Chained(p, ph)' <=> Chained(p, ph)
  BY <1>1, <1>3, <1>4 DEF Chained, Injective, Named
<1>6. \A ph, k, b : Holds(p, ph, k, b)' <=> Holds(p, ph, k, b)
  BY <1>4 DEF Holds
<1>7. \A ph : Keyed(p, ph)' <=> Keyed(p, ph)
  BY <1>1, <1>2, <1>3, <1>4, <1>6 DEF Keyed
<1>8. \A ph, l : FindsRight(p, ph, l)' <=> FindsRight(p, ph, l)
  <2> SUFFICES ASSUME NEW ph, NEW l PROVE FindsRight(p, ph, l)' <=> FindsRight(p, ph, l)
    OBVIOUS
  <2>1. \A m : Now(p, ph, m)' = Now(p, ph, m)
    BY <1>4
  <2>2. \A i : Num(i)' = Num(i)
    BY DEF Num
  <2>3. \A h, f, k : Named(h, f, k)' = Named(h, f, k)
    BY DEF Named
  <2>4. header'[p] = header[p] /\ entry'[p] = entry[p] /\ Gens(p)' = Gens(p)
    BY <1>1
  <2> QED
    BY <2>1, <2>2, <2>3, <2>4 DEF FindsRight
<1>9. \A k, i : Used(p, k, i)' <=> Used(p, k, i)
  BY DEF Used
<1> QED
  BY <1>1, <1>2, <1>3, <1>4, <1>5, <1>6, <1>7, <1>8, <1>9

LEMMA IndexFrame ==
    ASSUME NEW p, Frame(p), IndexInv(p)
    PROVE  IndexInv(p)'
<1>1. Gens(p)' = Gens(p) /\ (\A ph : Chained(p, ph)' <=> Chained(p, ph))
      /\ (\A ph : Keyed(p, ph)' <=> Keyed(p, ph))
      /\ (\A ph, l : FindsRight(p, ph, l)' <=> FindsRight(p, ph, l))
  BY FrameNames DEF Frame
<1>2. PICK ph \in [1 .. Gens(p) -> Int] : Phased(p, ph)
  BY DEF IndexInv
<1>3. Chained(p, ph)' /\ Keyed(p, ph)'
  BY <1>1, <1>2 DEF Phased
<1>4. \A c \in Consumer : (Takes(c, p) => FindsRight(p, ph, TakenBy(c)))'
  <2>1. SUFFICES ASSUME NEW c \in Consumer, Takes(c, p)' PROVE FindsRight(p, ph, TakenBy(c))'
    OBVIOUS
  <2>2. Takes(c, p) /\ TakenBy(c)' = TakenBy(c)
    BY <2>1 DEF Frame
  <2>3. PICK l : l = TakenBy(c)
    OBVIOUS
  <2>4. FindsRight(p, ph, l)
    BY <1>2, <2>2, <2>3 DEF Phased
  <2>5. FindsRight(p, ph, l)' /\ TakenBy(c)' = l
    BY <1>1, <2>2, <2>3, <2>4
  <2> QED
    BY <2>5 DEF FindsRight
<1>5. Phased(p, ph)'
  BY <1>3, <1>4 DEF Phased
<1> QED
  BY <1>1, <1>2, <1>5 DEF IndexInv

LEMMA FrameOwns ==
    ASSUME NEW p, Frame(p)
    PROVE  /\ \A c \in Consumer : \A j : Owns(c, p, j)' <=> Owns(c, p, j)
           /\ \A c \in Consumer : \A k : Forgets(c, p, k)' <=> Forgets(c, p, k)
           /\ Apart(p) /\ head'[p] = head[p] => Apart(p)'
<1>1. \A c \in Consumer : \A j : Owns(c, p, j)' <=> Owns(c, p, j)
  BY DEF Frame, Owns, Start, Num
<1>2. \A c \in Consumer : \A k : Forgets(c, p, k)' <=> Forgets(c, p, k)
  BY DEF Frame, Forgets, Num
<1>3. Apart(p) /\ head'[p] = head[p] => Apart(p)'
  BY DEF Frame, Apart, Start, Num
<1> QED
  BY <1>1, <1>2, <1>3

LEMMA FrameUnread ==
    ASSUME NEW p, Frame(p), head'[p] = head[p]
    PROVE  \A k : Unread(p, k)' = Unread(p, k)
BY FrameOwns DEF Unread

LEMMA LiveKeeps ==
    ASSUME NEW p, LiveInv(p), head'[p] <= tail'[p], tailBlock'[p] = tailBlock[p],
           Known(p)' = Known(p), Written(p)' = Written(p),
           \A k : Unread(p, k)' = Unread(p, k),
           \A c \in Consumer : \A k : Forgets(c, p, k)' <=> Forgets(c, p, k),
           Apart(p)', \A k, i : Used(p, k, i)' <=> Used(p, k, i),
           \A k, i : Used(p, k, i) => /\ entry'[p][i].value = entry[p][i].value
                                      /\ block'[entry[p][i].value] = block[entry[p][i].value]
    PROVE  LiveInv(p)'
<1>1. \A k, i : Used(p, k, i) => i \in DOMAIN entry[p]
  BY DEF Used
<1>2. \A k, i : Used(p, k, i) => i \in DOMAIN entry'[p]
  BY DEF Used
<1>3. Backed(p)'
  BY <1>2 DEF Backed, LiveInv
<1>4. Filled(p)'
  <2> SUFFICES ASSUME NEW k \in Nat, NEW i, Used(p, k, i)
               PROVE  Fills(p, k, entry[p][i].value)'
    BY DEF Filled
  <2>1. PICK b : b = entry[p][i].value
    OBVIOUS
  <2>2. Fills(p, k, b) /\ entry'[p][i].value = b /\ block'[b] = block[b]
    BY <1>1, <2>1 DEF LiveInv, Filled
  <2>3. Unread(p, k)' = Unread(p, k)
    OBVIOUS
  <2>4. Fills(p, k, b)'
    BY <2>2, <2>3 DEF Fills
  <2> QED
    BY <2>2, <2>4 DEF Fills
<1>5. Emptied(p)'
  <2>1. \A k \in Nat : \A i : Used(p, k, i) /\ Unread(p, k) = {} => \E c \in Consumer : Forgets(c, p, k)
    BY <1>1 DEF LiveInv, Emptied
  <2>2. \A k \in Nat : \A c \in Consumer : Forgets(c, p, k) =>
         /\ Unread(p, k) = {} /\ \E i : Used(p, k, i)
         /\ \A d \in Consumer : Forgets(d, p, k) => d = c
    BY DEF LiveInv, Emptied
  <2> QED
    BY <1>2, <2>1, <2>2 DEF Emptied
<1> QED
  BY <1>3, <1>4, <1>5 DEF LiveInv

\* The elements of a producer whose index, call and claims stay.
LEMMA LiveFrame ==
    ASSUME NEW p, Frame(p), LiveInv(p), UNCHANGED head[p], UNCHANGED tailBlock[p], head'[p] <= tail'[p],
           \A i \in DOMAIN entry[p] : entry[p][i].value # None =>
               block'[entry[p][i].value] = block[entry[p][i].value]
    PROVE  LiveInv(p)'
<1>1. Known(p)' = Known(p) /\ (\A k, i : Used(p, k, i)' <=> Used(p, k, i))
      /\ UNCHANGED entry[p] /\ UNCHANGED head[p] /\ Written(p)' = Written(p)
  BY FrameNames DEF Frame
<1>2. (\A k : Unread(p, k)' = Unread(p, k)) /\ (\A c \in Consumer : \A k : Forgets(c, p, k)' <=> Forgets(c, p, k))
      /\ Apart(p)'
  BY FrameUnread, FrameOwns DEF LiveInv
<1>3. \A k, i : Used(p, k, i) => block'[entry[p][i].value] = block[entry[p][i].value]
  BY DEF Used
<1> QED
  BY <1>1, <1>2, <1>3, LiveKeeps

LEMMA LocalCall ==
    ASSUME Types, NEW p \in Producer
    PROVE  /\ Local(p) \in CallAt(Calls) \cup {NoCall}
           /\ th[p].pc \in Calls => Local(p) = th[p] /\ th[p] \in CallAt(Calls)
           /\ th[p].pc \in {"getHead", "getRef", "getNext", "getCas", "getDone", "unref"} =>
                 Local(p) = th[p].then /\ Local(p).pc = "pool"
           /\ th[p].pc \in {"idle", "giveUp", "publish"} => Local(p) = NoCall
<1>1. th[p] \in Enq
  BY DEF Types
<1>2. PICK l : l = th[p]
  OBVIOUS
<1>3. CASE l \in CallAt(Calls)
  BY <1>2, <1>3 DEF Local, InCall, CallAt, Calls
<1>4. CASE l \in GetIn(CallAt({"pool"}))
  <2>1. "then" \in DOMAIN l /\ l.then \in CallAt({"pool"})
        /\ l.pc \in {"getHead", "getRef", "getNext", "getCas", "getDone", "unref"}
    BY <1>4 DEF GetIn
  <2>2. l.then.pc = "pool" /\ l.then \in CallAt(Calls)
    BY <2>1 DEF CallAt, Calls
  <2>3. InCall(l) = l.then
    BY <2>1, <2>2 DEF InCall, Calls
  <2> QED
    BY <1>2, <2>1, <2>2, <2>3 DEF Local, Calls
<1>5. CASE l \in GiveUps \cup [pc : {"publish"}, n : Nat \ {0}]
  BY <1>2, <1>5 DEF Local, InCall, GiveUps, Idle, Calls
<1>6. CASE l \in PutIn(AfterPut)
  <2>1. "then" \in DOMAIN l /\ l.then \in AfterPut /\ l.pc \in Putting
    BY <1>6 DEF PutIn, Putting
  <2>2. CASE l.then \in GiveUps
    <3>1. ~ l.then.pc \in Calls \cup {"getRef"}
      BY <2>2 DEF GiveUps, Idle, Calls
    <3>2. InCall(l) = NoCall
      BY <2>1, <3>1 DEF InCall, Calls, Putting
    <3> QED
      BY <1>2, <2>1, <3>2 DEF Local, Calls, Putting
  <2>3. CASE l.then \in [pc : {"getRef"}, head : Link, then : CallAt({"pool"})]
    <3>1. InCall(l) = l.then.then /\ l.then.then \in CallAt({"pool"})
      BY <2>1, <2>3 DEF InCall, Calls, Putting
    <3>2. l.then.then \in CallAt(Calls)
      BY <3>1 DEF CallAt, Calls
    <3> QED
      BY <1>2, <2>1, <3>1, <3>2 DEF Local, Calls, Putting
  <2> QED
    BY <2>1, <2>2, <2>3 DEF AfterPut
<1> QED
  BY <1>1, <1>2, <1>3, <1>4, <1>5, <1>6 DEF Enq

LEMMA CallFrame ==
    ASSUME NEW p, CallInv(p), Local(p) \in CallAt(Calls) \cup {NoCall}, UNCHANGED tail[p], Written(p)' = Written(p),
           \/ Local(p)' = Local(p)
           \/ Local(p).pc = "pool" /\ Local(p)' = [Local(p) EXCEPT !.pc = "malloc"]
    PROVE  CallInv(p)'
<1>1. Known(p)' = Known(p)
  BY DEF Known, Num
<1>2. CASE Local(p)' = Local(p)
  BY <1>1, <1>2 DEF CallInv, Num
<1>3. CASE Local(p).pc = "pool" /\ Local(p)' = [Local(p) EXCEPT !.pc = "malloc"]
  <2>1. PICK l : l = Local(p)
    OBVIOUS
  <2>2. PICK m : m = Local(p)'
    OBVIOUS
  <2>3. l \in CallAt(Calls) /\ l.pc = "pool" /\ m = [l EXCEPT !.pc = "malloc"]
    BY <1>3, <2>1, <2>2 DEF NoCall
  <2>4. m.pc = "malloc" /\ m.chain = l.chain /\ m.bases = l.bases /\ m.slot = l.slot /\ m.n = l.n
    BY <2>3 DEF CallAt
  <2>5. l.pc # "idle" /\ ~ l.pc \in {"index", "place"} /\ ~ m.pc \in {"index", "place"}
    BY <2>3, <2>4
  <2>6. /\ Len(l.chain) + Len(l.bases) = Num(tail[p] + l.n - 1) - Num(tail[p] - 1)
        /\ \A j \in DOMAIN l.bases : l.bases[j] = (Known(p) + Len(l.chain) + j) * BlockSize
        /\ l.bases # <<>> /\ l.slot # None
    BY <2>1, <2>3, <2>5 DEF CallInv
  <2>7. /\ Len(m.chain) + Len(m.bases) = Num(tail[p] + m.n - 1)' - Num(tail[p] - 1)'
        /\ \A j \in DOMAIN m.bases : m.bases[j] = (Known(p)' + Len(m.chain) + j) * BlockSize
        /\ m.bases # <<>> /\ m.slot # None
    BY <1>1, <2>4, <2>6 DEF Num
  <2> QED
    BY <2>2, <2>4, <2>5, <2>7 DEF CallInv
<1> QED
  BY <1>2, <1>3

-----------------------------------------------------------------------------
(* A quiet step keeps every part of the invariant but the places.           *)

LEMMA QuietLocal ==
    ASSUME Types, CountTypes, NEW t \in Thread, Quiet(t), NEW p \in Producer
    PROVE  /\ \/ Local(p)' = Local(p)
              \/ Local(p).pc = "pool" /\ Local(p)' = [Local(p) EXCEPT !.pc = "malloc"]
           /\ Chain(p)' = Chain(p) /\ Tried(p)' = Tried(p)
           /\ tail'[p] = tail[p] => Written(p)' = Written(p)
           /\ \A c \in Consumer : TakenBy(c)' = TakenBy(c)
<1>1. PICK l : th' = [th EXCEPT ![t] = l] /\ LocalOk(t, l) /\ Same(t, th[t], l)
  BY DEF Quiet
<1>2. DOMAIN th = Thread
  BY DEF CountTypes
<1>3. th'[t] = l /\ \A u \in Thread : u # t => th'[u] = th[u]
  BY <1>1, <1>2
<1>4. p \in Thread /\ Consumer \subseteq Thread /\ p \notin Consumer
  BY Roles DEF Thread
<1>5. \/ Local(p)' = Local(p)
      \/ Local(p).pc = "pool" /\ Local(p)' = [Local(p) EXCEPT !.pc = "malloc"]
  <2>1. CASE t = p
    BY <1>1, <1>3, <2>1 DEF Same, SameCall, Local
  <2>2. CASE t # p
    BY <1>3, <1>4, <2>2 DEF Local
  <2> QED
    BY <2>1, <2>2
<1>6. Chain(p)' = Chain(p) /\ Tried(p)' = Tried(p)
  <2>1. CASE Local(p)' = Local(p)
    BY <2>1 DEF Chain, Tried
  <2>2. CASE Local(p).pc = "pool" /\ Local(p)' = [Local(p) EXCEPT !.pc = "malloc"]
    <3>1. PICK l1 : l1 = Local(p)
      OBVIOUS
    <3>2. PICK m : m = Local(p)'
      OBVIOUS
    <3>3. l1 \in CallAt(Calls) /\ m = [l1 EXCEPT !.pc = "malloc"]
      BY <2>2, <3>1, <3>2, LocalCall DEF NoCall
    <3>4. m.chain = l1.chain /\ m.slot = l1.slot
      BY <3>3 DEF CallAt
    <3> QED
      BY <3>1, <3>2, <3>4 DEF Chain, Tried
  <2> QED
    BY <1>5, <2>1, <2>2
<1>7. ASSUME tail'[p] = tail[p] PROVE Written(p)' = Written(p)
  <2>1. CASE t = p
    BY <1>1, <1>3, <1>7, <2>1 DEF Same, Written, At
  <2>2. CASE t # p
    BY <1>3, <1>4, <1>7, <2>2 DEF Written, At
  <2> QED
    BY <2>1, <2>2
<1>8. \A c \in Consumer : TakenBy(c)' = TakenBy(c)
  BY <1>1, <1>3, <1>4 DEF TakenBy, Same
<1> QED
  BY <1>5, <1>6, <1>7, <1>8

LEMMA QuietOwned ==
    ASSUME Types, CountTypes, NEW t \in Thread, Quiet(t),
           UNCHANGED index, UNCHANGED tailBlock, UNCHANGED block, UNCHANGED head, UNCHANGED tail,
           NEW p \in Producer, Owned(p)
    PROVE  Owned(p)'
<1>1. Frame(p)
  <2>1. \A c \in Consumer : (Takes(c, p)' <=> Takes(c, p)) /\ TakenBy(c)' = TakenBy(c)
    BY QuietLocal DEF Takes
  <2> QED
    BY <2>1, QuietLocal DEF Frame, index
<1>2. IndexInv(p)'
  BY <1>1, IndexFrame DEF Owned
<1>3. LiveInv(p)'
  BY <1>1, LiveFrame DEF Owned, LiveInv
<1>4. CallInv(p)'
  <2>1. Local(p) \in CallAt(Calls) \cup {NoCall} /\ CallInv(p) /\ UNCHANGED tail[p]
    BY LocalCall DEF Owned
  <2> QED
    BY <2>1, QuietLocal, CallFrame
<1> QED
  BY <1>2, <1>3, <1>4 DEF Owned

LEMMA QuietTypes ==
    ASSUME Types, CountTypes, NEW t \in Thread, Quiet(t),
           UNCHANGED index, UNCHANGED tailBlock, UNCHANGED block, UNCHANGED memory,
           free' \in Link, next' \in [Block -> Link], refs' \in [Block -> [n : Nat, should : BOOLEAN]]
    PROVE  Types'
<1>1. PICK l : th' = [th EXCEPT ![t] = l] /\ LocalOk(t, l) /\ Same(t, th[t], l)
  BY DEF Quiet
<1>2. DOMAIN th = Thread
  BY DEF CountTypes
<1>3. th'[t] = l /\ \A u \in Thread : u # t => th'[u] = th[u]
  BY <1>1, <1>2
<1>4. \A p \in Producer : th'[p] \in Enq
  BY <1>1, <1>3, Roles DEF Types, LocalOk
<1>5. \A c \in Consumer : Deq(th'[c])
  BY <1>1, <1>3, Roles DEF Types, LocalOk
<1>6. UNCHANGED <<header, entry, fresh, pooled>>
  BY DEF index, memory
<1> QED
  BY <1>4, <1>5, <1>6 DEF Types

LEMMA QuietPool ==
    ASSUME Types, CountTypes, NEW t \in Thread, Quiet(t), UNCHANGED memory, PoolInv,
           th[t].pc = "pool" => pooled >= PoolSize
    PROVE  PoolInv'
<1>1. UNCHANGED fresh /\ UNCHANGED pooled
  BY DEF memory
<1>2. ASSUME NEW p \in Producer, (Local(p).pc \in {"pool", "malloc"} /\ ~ At(p, "pool"))'
      PROVE  pooled >= PoolSize
  <2>1. Local(p).pc \in {"pool", "malloc"}
    BY <1>2, QuietLocal
  <2>2. CASE ~ At(p, "pool")
    BY <2>1, <2>2 DEF PoolInv
  <2>3. CASE At(p, "pool")
    <3>1. th' # th \/ ~ At(p, "pool")'
      BY <1>2
    <3>2. p = t
      <4>1. PICK l : th' = [th EXCEPT ![t] = l]
        BY DEF Quiet
      <4> QED
        BY <1>2, <2>3, <4>1, Roles DEF CountTypes, At, Thread
    <3> QED
      BY <2>3, <3>2 DEF At
  <2> QED
    BY <2>2, <2>3
<1> QED
  BY <1>1, <1>2 DEF PoolInv

-----------------------------------------------------------------------------
(* So the steps of the free list keep the invariant.                        *)

\* A quiet step that keeps the places keeps the rest.
LEMMA QuietStep ==
    ASSUME IInv, NEW t \in Thread, Quiet(t), th[t].pc = "pool" => pooled >= PoolSize,
           UNCHANGED index, UNCHANGED tailBlock, UNCHANGED block, UNCHANGED head, UNCHANGED tail,
           UNCHANGED memory, UNCHANGED broken, PlaceInv',
           free' \in Link, next' \in [Block -> Link], refs' \in [Block -> [n : Nat, should : BOOLEAN]]
    PROVE  Rest'
<1>1. Types /\ CountTypes /\ PoolInv /\ ~ broken /\ \A p \in Producer : Owned(p)
  BY DEF IInv, Rest, CountedInv
<1>2. Types' /\ PoolInv'
  BY <1>1, QuietTypes, QuietPool
<1>3. \A p \in Producer : Owned(p)'
  BY <1>1, QuietOwned
<1> QED
  BY <1>1, <1>2, <1>3 DEF Rest

\* A thread that reads or returns a block holds a reference to it.
LEMMA RefsLeft ==
    ASSUME Safe, NEW t \in Thread, NEW b \in Block,
           Returns(th[t], b) \/ b \in Reads(th[t])
    PROVE  refs[b].n - 1 \in Nat
<1>1. Refs(b) /\ refs[b].n \in Nat
  BY DEF Safe, PlaceInv, Types
<1>2. Cardinality(Readers(b)) \in Nat /\ (Cardinality(Readers(b)) = 0 => Readers(b) = {})
  BY ReadersFinite
<1>3. CASE Returns(th[t], b)
  BY <1>1, <1>2, <1>3 DEF Refs, Extra
<1>4. CASE b \in Reads(th[t])
  <2>1. Readers(b) # {}
    BY <1>4 DEF Readers
  <2>2. Extra(b) \in Nat
    BY DEF Extra
  <2> QED
    BY <1>1, <1>2, <2>1, <2>2 DEF Refs
<1> QED
  BY <1>3, <1>4

LEMMA FreeListTypes ==
    ASSUME Safe, NEW t \in Thread, FreeListStep(t)
    PROVE  free' \in Link /\ next' \in [Block -> Link] /\ refs' \in [Block -> [n : Nat, should : BOOLEAN]]
<1>0. /\ free \in Link /\ next \in [Block -> Link] /\ refs \in [Block -> [n : Nat, should : BOOLEAN]]
      /\ Block \subseteq Link
  BY DEF Safe, Types, Link
<1>1. CASE th[t].pc \in Putting
  <2>1. th[t] \in PutIn({th[t].then}) /\ th[t].node \in Block
    BY <1>1, PutShape DEF Safe
  <2>2. th[t].pc # "put" => th[t].head \in Link
    BY <2>1 DEF PutIn
  <2>3. CASE Put(t)
    BY <1>0, <2>1, <2>3 DEF Put
  <2>4. CASE PutCas(t)
    BY <1>0, <2>1, <2>4 DEF PutCas
  <2>5. CASE PutBack(t)
    <3>1. refs[th[t].node].n - 1 \in Nat
      BY <2>1, <2>5, RefsLeft DEF Returns, PutBack, At
    <3>2. /\ UNCHANGED free
          /\ \/ next' = [next EXCEPT ![th[t].node] = th[t].head] /\ UNCHANGED refs
             \/ UNCHANGED next
                /\ refs' = [refs EXCEPT ![th[t].node] = [n |-> refs[th[t].node].n - 1, should |-> TRUE]]
      BY <1>0, <2>1, <2>5 DEF PutBack
    <3>3. next' \in [Block -> Link]
      BY <1>0, <2>1, <2>2, <2>5, <3>2 DEF PutBack, At
    <3>4. refs' \in [Block -> [n : Nat, should : BOOLEAN]]
      <4>1. PICK r : r = [n |-> refs[th[t].node].n - 1, should |-> TRUE]
        OBVIOUS
      <4>2. r \in [n : Nat, should : BOOLEAN]
        BY <3>1, <4>1
      <4>3. UNCHANGED refs \/ refs' = [refs EXCEPT ![th[t].node] = r]
        BY <3>2, <4>1
      <4> QED
        BY <1>0, <4>2, <4>3
    <3> QED
      BY <1>0, <3>2, <3>3, <3>4
  <2> QED
    BY <1>1, <2>3, <2>4, <2>5 DEF FreeListStep, GetHead, GetRef, GetNext, GetCas, Unref, At, Putting
<1>2. CASE th[t].pc \in {"getHead", "getRef", "getNext", "getCas", "unref"}
  <2>1. th[t] \in GetIn({th[t].then})
    BY <1>2, GetShape DEF Safe
  <2>2. CASE GetHead(t) \/ GetNext(t)
    BY <1>0, <2>2 DEF GetHead, GetNext, freeList
  <2>3. CASE GetRef(t)
    <3>1. th[t].head \in Link
      BY <2>1, <2>3 DEF GetIn, GetRef, At
    <3>2. CASE th[t].head = None
      BY <1>0, <2>3, <3>2 DEF GetRef
    <3>3. CASE th[t].head \in Block
      BY <1>0, <2>3, <3>3 DEF GetRef
    <3> QED
      BY <3>1, <3>2, <3>3 DEF Link
  <2>4. CASE GetCas(t)
    <3>1. th[t].next \in Link
      BY <2>1, <2>4 DEF GetIn, GetCas, At
    <3> QED
      BY <1>0, <2>4, <3>1 DEF GetCas
  <2>5. CASE Unref(t)
    <3>1. th[t].node \in Block
      BY <2>1, <2>5 DEF GetIn, Unref, At
    <3>2. refs[th[t].node].n - 1 \in Nat
      BY <2>5, <3>1, RefsLeft DEF Unref, At, Reads
    <3> QED
      BY <1>0, <2>5, <3>1, <3>2 DEF Unref
  <2> QED
    BY <1>2, <2>2, <2>3, <2>4, <2>5 DEF FreeListStep, Put, PutCas, PutBack, At
<1> QED
  BY <1>1, <1>2 DEF FreeListStep, Put, PutCas, PutBack, GetHead, GetRef, GetNext, GetCas, Unref, At, Putting

LEMMA IsSafe == IInv => Safe /\ CountTypes /\ Types /\ DOMAIN th = Thread
BY DEF IInv, Rest, CountedInv, Safe, CountTypes

\* A step of the free list is quiet, and keeps the places.
LEMMA FreeListRest ==
    ASSUME IInv, NEW t \in Thread, FreeListStep(t)
    PROVE  Rest'
<1>1. /\ UNCHANGED index /\ UNCHANGED tailBlock /\ UNCHANGED block /\ UNCHANGED head /\ UNCHANGED tail
      /\ UNCHANGED memory /\ UNCHANGED broken /\ th[t].pc # "pool"
  BY DEF FreeListStep, Put, PutCas, PutBack, GetHead, GetRef, GetNext, GetCas, Unref, At, places, index, freeList
<1>2. PlaceInv' /\ Quiet(t)
  BY FreeListPlaces, IsSafe
<1>3. free' \in Link /\ next' \in [Block -> Link] /\ refs' \in [Block -> [n : Nat, should : BOOLEAN]]
  BY FreeListTypes, IsSafe
<1> QED
  BY <1>1, <1>2, <1>3, QuietStep

-----------------------------------------------------------------------------
(* So do the steps of a dequeue up to its claim.                            *)

\* The steps of a dequeue up to its claim.
Calm(l) == l.pc \in {"idle", "load"} \cup Counting /\ "then" \notin DOMAIN l

LEMMA CalmLocal ==
    ASSUME NEW l, Calm(l)
    PROVE  /\ Hands(l) = {} /\ Reads(l) = {} /\ \A b : ~ (Adds(l, b) \/ Returns(l, b) \/ Obtains(l, b))
           /\ ChainOnce(l) /\ InClaim(l) = Idle /\ Deq(l) /\ InCall(l) = NoCall
<1>1. Hands(l) = {} /\ Reads(l) = {} /\ \A b : ~ (Adds(l, b) \/ Returns(l, b) \/ Obtains(l, b))
  BY DEF Calm, Counting, Hands, Reads, Adds, Returns, Obtains, Putting
<1>2. BehindIn(l) = <<>>
  BY DEF Calm, BehindIn
<1>3. ChainOnce(l)
  BY <1>2 DEF ChainOnce, Injective, Calm, Counting, Putting
<1> QED
  BY <1>1, <1>3 DEF Calm, Counting, InClaim, Takings, Deq, InCall, Calls

LEMMA AskCalm ==
    ASSUME NEW todo, NEW max, NEW best
    PROVE  Calm(Ask(todo, max, best))
BY DEF Calm, Ask, Idle, Counting

\* A step of a dequeue before its claim keeps the invariant.
LEMMA CalmRest ==
    ASSUME IInv, NEW c \in Consumer, Calm(th[c]), NEW l, Calm(l), th' = [th EXCEPT ![c] = l],
           UNCHANGED <<head, tail, tailBlock, index, block, freeList, memory, broken>>
    PROVE  Rest'
<1>1. c \in Thread /\ c \notin Producer
  BY Roles DEF Thread
<1>2. /\ UNCHANGED index /\ UNCHANGED tailBlock /\ UNCHANGED block /\ UNCHANGED head /\ UNCHANGED tail
      /\ UNCHANGED memory /\ UNCHANGED broken /\ UNCHANGED freeList /\ th[c].pc # "pool"
  BY DEF Calm, Counting
<1>3. Quiet(c)
  BY <1>1, CalmLocal DEF Quiet, LocalOk, Same
<1>4. th'[c] = l
  BY <1>1, IsSafe
<1>5. Linked(c)'
  BY <1>4 DEF Linked, At, Calm, Counting
<1>6. \A b : SameFor(th[c], l, b)
  BY CalmLocal DEF SameFor
<1>7. UNCHANGED fresh /\ UNCHANGED entry /\ PlaceInv /\ ChainOnce(l)
  BY <1>2, CalmLocal DEF memory, index, IInv, Rest
<1>8. PlaceInv'
  BY <1>1, <1>2, <1>5, <1>6, <1>7, IsSafe, PlacesSame
<1>9. free' \in Link /\ next' \in [Block -> Link] /\ refs' \in [Block -> [n : Nat, should : BOOLEAN]]
  BY <1>2, IsSafe, FreeListFields DEF Types
<1> QED
  BY <1>1, <1>2, <1>3, <1>8, <1>9, QuietStep

LEMMA CalmSteps ==
    ASSUME IInv, NEW c \in Consumer,
           (\E max \in Maxes[c] : Dequeue(c, max)) \/ Test(c) \/ Claim(c) \/ Check(c) \/ GiveBack(c)
    PROVE  Rest'
<1> USE DEF At, Go, places, Then
<1>1. th[c].pc \in {"idle", "load", "claim", "check", "giveBack"}
      /\ UNCHANGED <<head, tail, tailBlock, index, block, freeList, memory, broken>>
  BY DEF Dequeue, Test, Claim, Check, GiveBack
<1>2. Calm(th[c])
  <2>1. ConsumerAt(th[c])
    BY IsSafe DEF CountTypes
  <2> QED
    BY <1>1, <2>1 DEF ConsumerAt, Asked, Resting, Moving, Claiming, Putting, Idle, Calm, Counting
<1>3. \E l : Calm(l) /\ th' = [th EXCEPT ![c] = l]
  <2>1. CASE \E max \in Maxes[c] : Dequeue(c, max)
    <3>1. PICK max \in Maxes[c] : Dequeue(c, max)
      BY <2>1
    <3>2. \/ th' = [th EXCEPT ![c] = Ask(list, max, None)]
          \/ th' = [th EXCEPT ![c] = Idle]
          \/ \E best : th' = [th EXCEPT ![c] = Ask(<<best>>, 1, best)]
      BY <3>1 DEF Dequeue
    <3>3. Calm(Idle)
      BY DEF Idle, Calm
    <3> QED
      BY <3>2, <3>3, AskCalm
  <2>2. CASE Test(c)
    <3>1. \E l : th' = [th EXCEPT ![c] = l]
                 /\ \/ \E x, y, z : l = [pc |-> "claim", ask |-> x, over |-> y, n |-> z]
                    \/ \E x, y, z : l = Ask(x, y, z)
      BY <2>2 DEF Test
    <3>2. \A x, y, z : Calm([pc |-> "claim", ask |-> x, over |-> y, n |-> z])
      BY DEF Calm, Counting
    <3> QED
      BY <3>1, <3>2, AskCalm
  <2>3. CASE Claim(c)
    <3>1. \E x, y, z : th' = [th EXCEPT ![c] = [pc |-> "check", ask |-> x, n |-> y, first |-> z]]
      BY <2>3 DEF Claim
    <3>2. \A x, y, z : Calm([pc |-> "check", ask |-> x, n |-> y, first |-> z])
      BY DEF Calm, Counting
    <3> QED
      BY <3>1, <3>2
  <2>4. CASE Check(c)
    <3>1. \E x, y, z, w : w \in {"giveBack", "head"}
                          /\ th' = [th EXCEPT ![c] = [pc |-> w, ask |-> x, n |-> y, back |-> z]]
      BY <2>4 DEF Check
    <3>2. \A x, y, z, w : w \in {"giveBack", "head"} => Calm([pc |-> w, ask |-> x, n |-> y, back |-> z])
      BY DEF Calm, Counting
    <3> QED
      BY <3>1, <3>2
  <2>5. CASE GiveBack(c)
    <3> DEFINE l == [th[c] EXCEPT !.pc = "head", !.back = 0]
    <3>1. th' = [th EXCEPT ![c] = l] \/ \E x, y, z : th' = [th EXCEPT ![c] = Ask(x, y, z)]
      BY <2>5 DEF GiveBack
    <3>2. Calm(l)
      <4>1. DOMAIN l = DOMAIN th[c] /\ "pc" \in DOMAIN th[c]
        BY <1>1, <2>5, LocalAt, IsSafe DEF GiveBack
      <4> QED
        BY <1>2, <4>1 DEF Calm, Counting
    <3> HIDE DEF l
    <3> QED
      BY <3>1, <3>2, AskCalm
  <2> QED
    BY <2>1, <2>2, <2>3, <2>4, <2>5
<1>4. PICK l : Calm(l) /\ th' = [th EXCEPT ![c] = l]
  BY <1>3
<1> QED
  BY <1>1, <1>2, <1>4, CalmRest

-----------------------------------------------------------------------------
(* And those that begin and end a use of the free list: a thread that gives a *)
(* block back or several, and one that found the list empty.                *)

LEMMA ChainParts ==
    ASSUME NEW chain \in Seq(Block), chain # <<>>, Injective(chain)
    PROVE  /\ Head(chain) \in Block /\ Tail(chain) \in Seq(Block) /\ Injective(Tail(chain))
           /\ ToSet(chain) = {Head(chain)} \cup ToSet(Tail(chain)) /\ Head(chain) \notin ToSet(Tail(chain))
<1>1. /\ Len(chain) \in Nat \ {0} /\ DOMAIN chain = 1 .. Len(chain) /\ Head(chain) = chain[1]
      /\ Head(chain) \in Block
      /\ Tail(chain) \in Seq(Block) /\ Len(Tail(chain)) = Len(chain) - 1
      /\ \A i \in 1 .. Len(chain) - 1 : Tail(chain)[i] = chain[i + 1]
  BY HeadTailProperties, LenProperties, EmptySeq
<1>2. DOMAIN Tail(chain) = 1 .. Len(chain) - 1
  BY <1>1, LenProperties
<1>3. Injective(Tail(chain))
  BY <1>1, <1>2 DEF Injective
<1>4. \A i \in 2 .. Len(chain) : chain[i] = Tail(chain)[i - 1] /\ i - 1 \in 1 .. Len(chain) - 1
  BY <1>1
<1>5. ToSet(chain) = {chain[1]} \cup ToSet(Tail(chain))
  <2>1. ASSUME NEW x, x \in ToSet(chain) PROVE x \in {chain[1]} \cup ToSet(Tail(chain))
    <3>1. PICK i \in 1 .. Len(chain) : x = chain[i]
      BY <1>1, <2>1 DEF ToSet
    <3>2. CASE i # 1
      <4>1. x = Tail(chain)[i - 1] /\ i - 1 \in DOMAIN Tail(chain)
        BY <1>1, <1>2, <1>4, <3>1, <3>2
      <4> QED
        BY <4>1 DEF ToSet
    <3> QED
      BY <3>1, <3>2
  <2>2. chain[1] \in ToSet(chain)
    BY <1>1 DEF ToSet
  <2>3. ASSUME NEW x, x \in ToSet(Tail(chain)) PROVE x \in ToSet(chain)
    <3>1. PICK i \in 1 .. Len(chain) - 1 : x = Tail(chain)[i]
      BY <1>2, <2>3 DEF ToSet
    <3>2. x = chain[i + 1] /\ i + 1 \in DOMAIN chain
      BY <1>1, <3>1
    <3> QED
      BY <3>2 DEF ToSet
  <2> QED
    BY <2>1, <2>2, <2>3
<1>6. chain[1] \notin ToSet(Tail(chain))
  BY <1>1, <1>2 DEF ToSet, Injective
<1> QED
  BY <1>1, <1>3, <1>5, <1>6

LEMMA AddRest ==
    ASSUME IInv, NEW t \in Thread, UNCHANGED <<free, next>>, NEW b0 \in Block,
           th[t].pc \in {"giveUp", "release"}, NEW n, ~ n.pc \in Putting \cup {"getCas", "release", "getDone"},
           Hands(th[t]) = {b0} \cup Hands(n), b0 \notin Hands(n), Reads(n) = {},
           ChainOnce(n), BehindIn(n) = <<>>, "then" \notin DOMAIN n,
           n.pc # "giveUp" => Hands(n) = {}, n.pc = "giveUp" => Hands(n) = ToSet(n.chain) /\ Injective(n.chain),
           UNCHANGED <<head, tail, tailBlock, index, block, memory, broken>>,
           Add(t, b0, n), LocalOk(t, n), Same(t, th[t], n),
           LocalOk(t, [pc |-> "put", node |-> b0, then |-> n]),
           Same(t, th[t], [pc |-> "put", node |-> b0, then |-> n])
    PROVE  Rest'
<1>1. UNCHANGED free /\ UNCHANGED next /\ UNCHANGED fresh /\ UNCHANGED entry
  BY DEF memory, index
<1>2. PlaceInv'
  BY <1>1, IsSafe, AddPlaces
<1>3. Quiet(t)
  BY DEF Quiet, Add, Go
<1>4. refs' = [refs EXCEPT ![b0].should = TRUE] /\ free \in Link /\ next \in [Block -> Link]
      /\ refs \in [Block -> [n : Nat, should : BOOLEAN]]
  BY IsSafe DEF Add, Types
<1>5. refs' \in [Block -> [n : Nat, should : BOOLEAN]]
  BY <1>4
<1> QED
  BY <1>1, <1>2, <1>3, <1>4, <1>5, QuietStep

LEMMA GiveUpRest ==
    ASSUME IInv, NEW p \in Producer, GiveUp(p)
    PROVE  Rest'
<1>1. p \in Thread /\ p \notin Consumer /\ th[p] \in Enq /\ th[p].pc = "giveUp" /\ Types /\ ChainOnce(th[p])
  BY Roles, IsSafe DEF Thread, Types, GiveUp, At, IInv, Rest, PlaceInv
<1>2. th[p] \in [pc : {"giveUp"}, chain : Seq(Block) \ {<<>>}]
  BY <1>1 DEF Enq, CallAt, Calls, GetIn, GiveUps, Idle, PutIn
<1> DEFINE chain == th[p].chain
           b0 == Head(chain)
           rest == Tail(chain)
           n == IF rest = <<>> THEN Idle ELSE [pc |-> "giveUp", chain |-> rest]
           put == [pc |-> "put", node |-> b0, then |-> n]
<1>3. /\ b0 \in Block /\ rest \in Seq(Block) /\ Injective(rest)
      /\ ToSet(chain) = {b0} \cup ToSet(rest) /\ b0 \notin ToSet(rest)
  BY <1>1, <1>2, ChainParts DEF ChainOnce
<1>4. Add(p, b0, n) /\ UNCHANGED free /\ UNCHANGED next
      /\ UNCHANGED <<head, tail, tailBlock, index, block, memory, broken>>
  BY DEF GiveUp, Add, places
<1>5. n \in GiveUps /\ n.pc \in {"idle", "giveUp"} /\ "then" \notin DOMAIN n
      /\ (n.pc = "giveUp" => n.chain = rest) /\ (n.pc = "idle" => rest = <<>>)
  BY <1>3 DEF GiveUps, Idle
<1>6. ToSet(<<>>) = {}
  BY DEF ToSet
<1>7. put \in PutIn(AfterPut) /\ put.pc = "put" /\ put.then = n /\ "then" \in DOMAIN put
  BY <1>3, <1>5 DEF PutIn, AfterPut
<1>8. Hands(th[p]) = ToSet(chain)
  BY <1>2 DEF Hands, Putting
<1>9. InCall(th[p]) = NoCall
  BY <1>2 DEF InCall, Calls
<1> HIDE DEF n, put, rest, chain, b0
<1>10. Hands(n) = ToSet(rest) /\ Reads(n) = {} /\ BehindIn(n) = <<>> /\ ChainOnce(n) /\ InCall(n) = NoCall
  <2>1. BehindIn(n) = <<>>
    BY <1>5 DEF BehindIn
  <2>2. Hands(n) = ToSet(rest)
    BY <1>5, <1>6 DEF Hands, Putting
  <2> QED
    BY <1>3, <1>5, <2>1, <2>2 DEF Reads, ChainOnce, Injective, Putting, InCall, Calls
<1>11. InCall(put) = NoCall
  BY <1>5, <1>7 DEF InCall, Calls
<1>12. LocalOk(p, n) /\ Same(p, th[p], n) /\ LocalOk(p, put) /\ Same(p, th[p], put)
  BY <1>1, <1>5, <1>7, <1>9, <1>10, <1>11 DEF LocalOk, Same, SameCall, Enq
<1>13. /\ ~ n.pc \in Putting \cup {"getCas", "release", "getDone"}
       /\ Hands(th[p]) = {b0} \cup Hands(n) /\ b0 \notin Hands(n)
       /\ n.pc # "giveUp" => Hands(n) = {}
       /\ n.pc = "giveUp" => Hands(n) = ToSet(n.chain) /\ Injective(n.chain)
  BY <1>3, <1>5, <1>6, <1>8, <1>10 DEF Putting
<1>14. LocalOk(p, [pc |-> "put", node |-> b0, then |-> n])
       /\ Same(p, th[p], [pc |-> "put", node |-> b0, then |-> n])
  BY <1>12 DEF put
<1> QED
  BY <1>1, <1>3, <1>4, <1>5, <1>10, <1>12, <1>13, <1>14, AddRest

LEMMA ReleaseRest ==
    ASSUME IInv, NEW c \in Consumer, Release(c)
    PROVE  Rest'
<1>1. c \in Thread /\ c \notin Producer /\ Deq(th[c]) /\ ConsumerAt(th[c]) /\ th[c].pc = "release"
  BY Roles, IsSafe DEF Thread, Types, Release, At, CountTypes
<1> DEFINE n == th[c].then
           b0 == th[c].node
           put == [pc |-> "put", node |-> b0, then |-> n]
<1>2. th[c] \in [pc : {"release"}, node : Block, then : {n}] \cup PutIn({n}) /\ NextUp(n)
  BY <1>1 DEF Deq, Counting, Takings, Putting
<1>3. b0 \in Block /\ "then" \in DOMAIN th[c] /\ n.pc \in {"idle", "load", "move"}
  BY <1>1, <1>2 DEF PutIn, NextUp
<1>4. Asked(n)
  BY <1>1 DEF ConsumerAt, Asked, Resting, Moving, Claiming, Idle, Putting
<1>5. "then" \notin DOMAIN n
  BY <1>4 DEF Asked, Resting, Moving, Idle
<1>6. ToSet(<<>>) = {} /\ BehindIn(th[c]) = <<>> /\ BehindIn(n) = <<>>
  BY <1>3, <1>5 DEF ToSet, BehindIn
<1>7. Hands(th[c]) = {b0} /\ Hands(n) = {} /\ Reads(n) = {} /\ ChainOnce(n)
  BY <1>1, <1>3, <1>6 DEF Hands, Reads, ChainOnce, Injective, Putting
<1>8. Deq(n)
  BY <1>2 DEF Deq, NextUp, Takings
<1>9. put \in PutIn({n}) /\ put.pc = "put" /\ put.then = n /\ "then" \in DOMAIN put
  BY <1>3 DEF PutIn
<1>10. Deq(put)
  BY <1>2, <1>9 DEF Deq, Putting
<1>11. InClaim(th[c]) = InClaim(n)
  BY <1>1, <1>3, <1>5 DEF InClaim, Takings
<1>12. InClaim(put) = InClaim(n)
  BY <1>3, <1>5, <1>9 DEF InClaim, Takings
<1>13. Add(c, b0, n) /\ UNCHANGED free /\ UNCHANGED next
       /\ UNCHANGED <<head, tail, tailBlock, index, block, memory, broken>>
  BY DEF Release, Add, places
<1>14. LocalOk(c, put) /\ Same(c, th[c], put) /\ LocalOk(c, n) /\ Same(c, th[c], n)
  BY <1>1, <1>8, <1>10, <1>11, <1>12 DEF LocalOk, Same
<1> HIDE DEF n, b0
<1>15. ~ n.pc \in Putting \cup {"getCas", "release", "getDone", "giveUp"}
  BY <1>3 DEF Putting
<1>16. n.pc = "giveUp" => Hands(n) = ToSet(n.chain) /\ Injective(n.chain)
  BY <1>15
<1> QED
  BY <1>1, <1>3, <1>5, <1>6, <1>7, <1>13, <1>14, <1>15, <1>16, AddRest

LEMMA PoolEmptyRest ==
    ASSUME IInv, NEW p \in Producer, FromPool(p), ~ pooled < PoolSize
    PROVE  Rest'
<1>1. p \in Thread /\ p \notin Consumer /\ th[p] \in Enq /\ th[p].pc = "pool"
  BY Roles, IsSafe DEF Thread, Types, FromPool, At
<1>2. th[p] \in CallAt({"pool"})
  BY <1>1 DEF Enq, CallAt, GetIn, GiveUps, Idle, PutIn
<1> DEFINE l == [pc |-> "getHead", then |-> th[p]]
<1>3. th' = [th EXCEPT ![p] = l]
      /\ UNCHANGED <<head, tail, tailBlock, index, block, freeList, memory, broken>>
  BY DEF FromPool, Go, places, index, memory
<1>4. l \in Enq /\ l.pc = "getHead" /\ "then" \in DOMAIN l /\ l.then = th[p]
  BY <1>2 DEF Enq, GetIn
<1>5. InCall(th[p]) = th[p] /\ InCall(l) = th[p]
  BY <1>1, <1>4 DEF InCall, Calls
<1>6. LocalOk(p, l) /\ Same(p, th[p], l)
  BY <1>1, <1>4, <1>5 DEF LocalOk, Same, SameCall
<1>7. Quiet(p)
  BY <1>3, <1>6 DEF Quiet
<1>8. "then" \notin DOMAIN th[p]
  BY <1>2 DEF CallAt
<1>9. Hands(th[p]) = {} /\ Reads(th[p]) = {} /\ \A b : ~ (Adds(th[p], b) \/ Returns(th[p], b) \/ Obtains(th[p], b))
  BY <1>1 DEF Hands, Reads, Adds, Returns, Obtains, Putting
<1>10. Hands(l) = {} /\ Reads(l) = {} /\ \A b : ~ (Adds(l, b) \/ Returns(l, b) \/ Obtains(l, b))
  BY <1>4 DEF Hands, Reads, Adds, Returns, Obtains, Putting
<1>11. BehindIn(l) = <<>>
  BY <1>1, <1>4 DEF BehindIn
<1>12. ChainOnce(l)
  BY <1>4, <1>11 DEF ChainOnce, Injective, Putting
<1> HIDE DEF l
<1>13. \A b : SameFor(th[p], l, b)
  BY <1>9, <1>10 DEF SameFor
<1>14. th'[p] = l
  BY <1>1, <1>3, IsSafe
<1>15. Linked(p)'
  BY <1>4, <1>14 DEF Linked, At
<1>16. /\ UNCHANGED index /\ UNCHANGED tailBlock /\ UNCHANGED block /\ UNCHANGED head /\ UNCHANGED tail
       /\ UNCHANGED memory /\ UNCHANGED broken /\ UNCHANGED freeList /\ UNCHANGED fresh /\ UNCHANGED entry
  BY <1>3 DEF memory, index
<1>17. PlaceInv'
  BY <1>1, <1>3, <1>12, <1>13, <1>15, <1>16, IsSafe, PlacesSame DEF Safe
<1>18. free' \in Link /\ next' \in [Block -> Link] /\ refs' \in [Block -> [n : Nat, should : BOOLEAN]]
  BY <1>16, IsSafe, FreeListFields DEF Types
<1>19. pooled >= PoolSize
  BY BoundAssumption, RolesDiffer, FS_Subset, FS_CardinalityType, IsSafe DEF Types
<1> QED
  BY <1>1, <1>7, <1>16, <1>17, <1>18, <1>19, QuietStep

-----------------------------------------------------------------------------
(* Indices: a phase says which slot of an index is the slot of block number k. *)

LEMMA IndexFields ==
    ASSUME NEW h \in Index
    PROVE  /\ h.cap \in Nat \ {0} /\ h.tail \in 0 .. h.cap - 1
           /\ h.slots \in [0 .. h.cap - 1 -> 1 .. h.cap] /\ DOMAIN h = {"cap", "tail", "slots"}
<1>1. PICK n \in Nat \ {0} : h \in [cap : {n}, tail : 0 .. n - 1, slots : [0 .. n - 1 -> 1 .. n]]
  BY DEF Index
<1> QED
  BY <1>1

LEMMA HeaderFields ==
    ASSUME Types, NEW p \in Producer
    PROVE  /\ Gens(p) \in Nat /\ DOMAIN header[p] = 1 .. Gens(p) /\ header[p] \in Seq(Index)
           /\ \A g \in 1 .. Gens(p) : header[p][g] \in Index
           /\ Gens(p) # 0 => header[p] # <<>> /\ Last(header[p]) = header[p][Gens(p)]
           /\ Gens(p) = 0 => header[p] = <<>>
<1>1. header[p] \in Seq(Index)
  BY DEF Types
<1>2. Gens(p) \in Nat /\ DOMAIN header[p] = 1 .. Gens(p)
  BY <1>1, LenProperties DEF Gens
<1>3. \A g \in 1 .. Gens(p) : header[p][g] \in Index
  BY <1>1, ElementOfSeq DEF Gens
<1>4. Gens(p) # 0 => header[p] # <<>> /\ Last(header[p]) = header[p][Gens(p)]
  BY <1>1, <1>2, EmptySeq DEF Gens, Last
<1>5. Gens(p) = 0 => header[p] = <<>>
  BY <1>1, EmptySeq DEF Gens
<1> QED
  BY <1>1, <1>2, <1>3, <1>4, <1>5

LEMMA NamedIn ==
    ASSUME NEW h \in Index, NEW f \in Int, NEW k \in Int
    PROVE  /\ (f + k) % h.cap \in 0 .. h.cap - 1 /\ Named(h, f, k) \in 1 .. h.cap
           /\ Named(h, f, k) = h.slots[(f + k) % h.cap]
<1>1. h.cap \in Nat \ {0} /\ h.slots \in [0 .. h.cap - 1 -> 1 .. h.cap] /\ f + k \in Int
  BY IndexFields
<1>2. (f + k) % h.cap \in 0 .. h.cap - 1
  BY <1>1, ModRange
<1> QED
  BY <1>1, <1>2 DEF Named

\* Two blocks fewer than cap apart have different slots.
LEMMA NamedOnce ==
    ASSUME NEW h \in Index, NEW f \in Int, NEW k \in Int, NEW m \in Int, Injective(h.slots),
           Named(h, f, k) = Named(h, f, m), k - m < h.cap, m - k < h.cap
    PROVE  k = m
<1>1. h.cap \in Nat \ {0} /\ DOMAIN h.slots = 0 .. h.cap - 1
  BY IndexFields
<1>2. (f + k) % h.cap = (f + m) % h.cap
  <2>1. PICK a : a = (f + k) % h.cap
    OBVIOUS
  <2>2. PICK b : b = (f + m) % h.cap
    OBVIOUS
  <2>3. a \in DOMAIN h.slots /\ Named(h, f, k) = h.slots[a]
    BY <1>1, <2>1, NamedIn
  <2>4. b \in DOMAIN h.slots /\ Named(h, f, m) = h.slots[b]
    BY <1>1, <2>2, NamedIn
  <2>5. a = b
    BY <2>3, <2>4 DEF Injective
  <2> QED
    BY <2>1, <2>2, <2>5
<1>3. f + k \in Int /\ f + m \in Int /\ (f + k) - (f + m) < h.cap /\ (f + m) - (f + k) < h.cap
  BY <1>1
<1>4. f + k = f + m
  BY <1>1, <1>2, <1>3, ModClose
<1> QED
  BY <1>4

Cap(p) == header[p][Gens(p)].cap
Phases(p) == [1 .. Gens(p) -> Int]

\* The newest index has an entry of its own for each block in use.
LEMMA NowFacts ==
    ASSUME Types, NEW p \in Producer, NEW ph \in Phases(p), Chained(p, ph), Gens(p) # 0
    PROVE  /\ Cap(p) \in Nat \ {0} /\ DOMAIN entry[p] = 1 .. Cap(p) /\ ph[Gens(p)] \in Int
           /\ header[p][Gens(p)] \in Index /\ Injective(header[p][Gens(p)].slots)
           /\ \A k \in Int : Now(p, ph, k) \in 1 .. Cap(p)
           /\ \A k, m \in Int :
                 Now(p, ph, k) = Now(p, ph, m) /\ k - m < Cap(p) /\ m - k < Cap(p) => k = m
<1>1. Gens(p) \in 1 .. Gens(p) /\ header[p][Gens(p)] \in Index
  BY HeaderFields
<1>2. ph[Gens(p)] \in Int
  BY <1>1 DEF Phases
<1>3. Cap(p) \in Nat \ {0}
  BY <1>1, IndexFields DEF Cap
<1>4. DOMAIN entry[p] = 1 .. Cap(p)
  <2>1. Len(entry[p]) = Cap(p) /\ entry[p] \in Seq([key : Nat \cup {None}, value : Link])
    BY DEF Types, Chained, Cap
  <2> QED
    BY <2>1, LenProperties
<1>5. Injective(header[p][Gens(p)].slots)
  BY <1>1 DEF Chained
<1>6. \A k \in Int : Now(p, ph, k) \in 1 .. Cap(p)
  BY <1>1, <1>2, NamedIn DEF Now, Cap
<1>7. \A k, m \in Int :
         Now(p, ph, k) = Now(p, ph, m) /\ k - m < Cap(p) /\ m - k < Cap(p) => k = m
  BY <1>1, <1>2, <1>5, NamedOnce DEF Now, Cap
<1> QED
  BY <1>1, <1>2, <1>3, <1>4, <1>5, <1>6, <1>7

LEMMA NumTypes ==
    ASSUME CountTypes, Types, NEW p \in Producer
    PROVE  /\ Written(p) \in Nat /\ Known(p) \in Int /\ Known(p) >= -1 /\ Top(p) \in Int
           /\ tail[p] \in Nat /\ head[p] \in Nat /\ tail[p] <= Written(p)
           /\ Chain(p) \in Seq(Block) /\ Len(Chain(p)) \in Nat /\ Tried(p) \in Nat \cup {None}
           /\ DOMAIN Chain(p) = 1 .. Len(Chain(p))
           /\ Top(p) >= Known(p) + Len(Chain(p)) /\ Top(p) <= Known(p) + Len(Chain(p)) + 1
           /\ Tried(p) = None => Top(p) = Known(p) + Len(Chain(p))
           /\ Tried(p) # None => Top(p) = Known(p) + Len(Chain(p)) + 1
           /\ Written(p) <= (Known(p) + 1) * BlockSize
<1>1. tail[p] \in Nat /\ head[p] \in Nat
  BY DEF CountTypes
<1>2. Written(p) \in Nat /\ tail[p] <= Written(p)
  <2>1. th[p].pc = "publish" => th[p] \in [pc : {"publish"}, n : Nat \ {0}]
    <3>1. th[p] \in Enq
      BY DEF Types
    <3> QED
      BY <3>1 DEF Enq, CallAt, Calls, GetIn, GiveUps, Idle, PutIn
  <2>2. th[p].pc = "publish" => th[p].n \in Nat
    BY <2>1
  <2> QED
    BY <1>1, <2>2 DEF Written, At
<1>3. Written(p) - 1 \in Int /\ Known(p) \in Int /\ Written(p) - 1 < Known(p) * BlockSize + BlockSize
  <2>1. PICK w \in Int : w = Written(p) - 1
    BY <1>2
  <2>2. Num(w) \in Int /\ w < Num(w) * BlockSize + BlockSize
    BY NumFacts
  <2> QED
    BY <2>1, <2>2 DEF Known
<1>4. BlockSize \in Nat \ {0}
  BY Sizes
<1>5. Known(p) >= -1
  <2>1. CASE Written(p) = 0
    <3>1. Num(-1) = -1
      BY <1>4, NumIs
    <3> QED
      BY <2>1, <3>1 DEF Known
  <2>2. CASE Written(p) # 0
    <3>1. Written(p) - 1 \in Nat
      BY <1>2, <2>2
    <3>2. Num(Written(p) - 1) \in Nat
      <4>1. \A w \in Nat : Num(w) \in Nat
        BY NumFacts
      <4> QED
        BY <3>1, <4>1
    <3> QED
      BY <3>2 DEF Known
  <2> QED
    BY <2>1, <2>2
<1>6. Chain(p) \in Seq(Block) /\ Tried(p) \in Nat \cup {None}
  <2>1. PICK l : l = Local(p)
    OBVIOUS
  <2>2. l \in CallAt(Calls) \/ l = NoCall
    BY <2>1, LocalCall
  <2>3. l.chain \in Seq(Block) /\ l.slot \in Nat \cup {None}
    <3>1. <<>> \in Seq(Block)
      BY EmptySeq
    <3>2. CASE l \in CallAt(Calls)
      BY <3>2 DEF CallAt
    <3>3. CASE l = NoCall
      BY <3>1, <3>3 DEF NoCall
    <3> QED
      BY <2>2, <3>2, <3>3
  <2> QED
    BY <2>1, <2>3 DEF Chain, Tried
<1>7. Len(Chain(p)) \in Nat /\ DOMAIN Chain(p) = 1 .. Len(Chain(p))
  BY <1>6, LenProperties
<1>8. (Known(p) + 1) * BlockSize = Known(p) * BlockSize + BlockSize
  BY <1>3, <1>4
<1>9. Known(p) * BlockSize \in Int
  BY <1>3, <1>4
<1>10. Written(p) <= (Known(p) + 1) * BlockSize
  BY <1>2, <1>3, <1>4, <1>8, <1>9
<1> QED
  BY <1>1, <1>2, <1>3, <1>5, <1>6, <1>7, <1>10 DEF Top

LEMMA Scale ==
    ASSUME NEW k \in Int, NEW m \in Int
    PROVE  /\ k * BlockSize = m * BlockSize => k = m
           /\ k <= m => k * BlockSize <= m * BlockSize
           /\ k < m => k * BlockSize + BlockSize <= m * BlockSize
           /\ k * BlockSize \in Int /\ (k + 1) * BlockSize = k * BlockSize + BlockSize
<1>1. BlockSize \in {2, 4, 8, 16, 32, 64}
  BY SizesArePowers
<1> QED
  BY <1>1

\* An entry in use is the one that the index names for the block it is of.
LEMMA UsedAt ==
    ASSUME CountTypes, Types, NEW p \in Producer, NEW ph \in Phases(p), Chained(p, ph), Keyed(p, ph),
           NEW k \in Int, NEW i, Used(p, k, i)
    PROVE  /\ Gens(p) # 0 /\ i = Now(p, ph, k) /\ 0 <= k /\ k <= Top(p) /\ Top(p) - k < Cap(p)
           /\ \A m \in k .. Top(p) : entry[p][Now(p, ph, m)].key = m * BlockSize
<1>1. i \in DOMAIN entry[p] /\ entry[p][i].value # None /\ entry[p][i].key = k * BlockSize
  BY DEF Used
<1>2. PICK n \in 0 .. Top(p) :
         /\ Top(p) - n < Cap(p) /\ i = Now(p, ph, n)
         /\ \A m \in n .. Top(p) : entry[p][Now(p, ph, m)].key = m * BlockSize
  BY <1>1 DEF Keyed, Cap
<1>3. Top(p) \in Int /\ n \in Int /\ n \in n .. Top(p)
  BY <1>2, NumTypes
<1>4. n * BlockSize = k * BlockSize
  BY <1>1, <1>2, <1>3
<1>5. n = k
  BY <1>3, <1>4, Scale
<1>6. Gens(p) # 0
  <2>1. Gens(p) = 0 => entry[p] = <<>>
    BY DEF Chained
  <2> QED
    BY <1>1, <2>1
<1> QED
  BY <1>2, <1>3, <1>5, <1>6

-----------------------------------------------------------------------------
(* Claims: the blocks a consumer has to visit are in the index.             *)

LEMMA ClaimLocal ==
    ASSUME CountTypes, Types, NEW c \in Consumer, NEW l, l = TakenBy(c), l # Idle
    PROVE  /\ l.pc \in Takings /\ Taking(l) /\ Wanting(l) /\ Head(l.ask.todo) \in Producer
           /\ l.at \in Nat /\ l.end \in Nat /\ l.at < l.end
           /\ l.pc # "find" => l.gen \in Nat \ {0} /\ l.slot \in Nat
           /\ l = th[c] \/ (l = th[c].then /\ l.pc = "move")
<1>1. Deq(th[c]) /\ ConsumerAt(th[c])
  BY DEF Types, CountTypes
<1>2. PICK t : t = th[c]
  OBVIOUS
<1>3. Deq(t) /\ ConsumerAt(t) /\ l = InClaim(t)
  BY <1>1, <1>2 DEF TakenBy
<1>4. l.pc \in Takings /\ Taking(l) /\ Asked(l) /\ (l = t \/ (l = t.then /\ l.pc = "move"))
  <2>1. CASE t.pc \in Takings
    <3>1. l = t
      BY <1>3, <2>1 DEF InClaim
    <3>2. Taking(t)
      BY <1>3, <2>1 DEF Deq, Takings, Counting, Putting
    <3>3. Asked(t)
      BY <1>3, <2>1 DEF ConsumerAt, Asked, Claiming, Takings, Putting
    <3> QED
      BY <2>1, <3>1, <3>2, <3>3
  <2>2. CASE ~ t.pc \in Takings
    <3>1. "then" \in DOMAIN t /\ t.then.pc \in Takings /\ l = t.then
      BY <1>3, <2>2 DEF InClaim
    <3>2. t.pc \in Putting \cup {"release"}
      BY <1>3, <2>2, <3>1 DEF ConsumerAt, Asked, Resting, Moving, Claiming, Idle, Takings
    <3>3. NextUp(t.then)
      BY <1>3, <3>2 DEF Deq, Takings, Counting, Putting
    <3>4. Asked(t.then)
      BY <1>3, <3>2 DEF ConsumerAt, Asked, Resting, Moving, Claiming, Idle, Putting
    <3> QED
      BY <3>1, <3>3, <3>4 DEF NextUp, Takings
  <2> QED
    BY <2>1, <2>2
<1>5. Wanting(l)
  BY <1>4 DEF Asked, Resting, Takings, Idle
<1>6. Head(l.ask.todo) \in Producer
  BY <1>5, HeadTailProperties DEF Wanting, Asking
<1>7. l.at \in Nat /\ l.end \in Nat /\ l.at < l.end
      /\ (l.pc # "find" => l.gen \in Nat \ {0} /\ l.slot \in Nat)
  BY <1>4 DEF Taking
<1> QED
  BY <1>2, <1>4, <1>5, <1>6, <1>7

LEMMA TakesLocal ==
    ASSUME CountTypes, Types, NEW c \in Consumer, NEW p, Takes(c, p)
    PROVE  LET l == TakenBy(c) IN
           /\ l.pc \in Takings /\ Taking(l) /\ Wanting(l) /\ p \in Producer
           /\ l.at \in Nat /\ l.end \in Nat /\ l.at < l.end
           /\ l.pc # "find" => l.gen \in Nat \ {0} /\ l.slot \in Nat
           /\ Num(l.at) \in Nat /\ Num(l.end - 1) \in Nat /\ Num(l.at) <= Num(l.end - 1)
           /\ Start(l) \in Nat /\ l.at <= Start(l)
<1>1. PICK l : l = TakenBy(c)
  OBVIOUS
<1>2. /\ l.pc \in Takings /\ Taking(l) /\ Wanting(l) /\ Head(l.ask.todo) \in Producer
      /\ l.at \in Nat /\ l.end \in Nat /\ l.at < l.end
      /\ l.pc # "find" => l.gen \in Nat \ {0} /\ l.slot \in Nat
  BY <1>1, ClaimLocal DEF Takes
<1>3. \A w \in Nat : Num(w) \in Nat
  BY NumFacts
<1>4. \A w \in Nat : w < Num(w) * BlockSize + BlockSize
  BY NumFacts
<1>5. Num(l.at) \in Nat /\ l.end - 1 \in Nat /\ l.at <= l.end - 1
  BY <1>2, <1>3
<1>6. Num(l.end - 1) \in Nat /\ Num(l.at) <= Num(l.end - 1)
  BY <1>2, <1>3, <1>5, NumMono
<1>7. Num(l.at) * BlockSize + BlockSize = (Num(l.at) + 1) * BlockSize /\ (Num(l.at) + 1) * BlockSize \in Nat
  <2>1. PICK a \in Nat : a = Num(l.at)
    BY <1>5
  <2>2. (a + 1) * BlockSize = a * BlockSize + BlockSize /\ a * BlockSize \in Nat /\ BlockSize \in Nat
    BY Sizes, Scale
  <2> QED
    BY <2>1, <2>2
<1>8. Start(l) \in Nat /\ l.at <= Start(l)
  BY <1>2, <1>4, <1>7 DEF Start
<1> QED
  BY <1>1, <1>2, <1>5, <1>6, <1>8 DEF Takes

\* The block of an element that is claimed and not yet taken is in the index.
LEMMA ClaimUsed ==
    ASSUME CountTypes, Types, NEW p \in Producer, LiveInv(p), NEW c \in Consumer, Takes(c, p),
           NEW m \in Num(TakenBy(c).at) .. Num(TakenBy(c).end - 1)
    PROVE  /\ m \in Nat /\ m <= Known(p) /\ \E i \in DOMAIN entry[p] : Used(p, m, i)
           /\ ~ Forgets(c, p, m) => Unread(p, m) # {}
<1>1. PICK l : l = TakenBy(c)
  OBVIOUS
<1>2. /\ l.at \in Nat /\ l.end \in Nat /\ l.at < l.end /\ p \in Producer
      /\ Num(l.at) \in Nat /\ Num(l.end - 1) \in Nat /\ m \in Nat
      /\ Num(l.at) <= m /\ m <= Num(l.end - 1)
  BY <1>1, TakesLocal
<1>3. l.end <= head[p] /\ head[p] <= tail[p] /\ tail[p] <= Written(p) /\ head[p] \in Nat /\ tail[p] \in Nat
      /\ Written(p) \in Nat
  BY <1>1, NumTypes DEF LiveInv, Apart
<1>4. m <= Known(p)
  <2>1. PICK v \in Int : v = l.end - 1
    BY <1>2
  <2>2. PICK w \in Int : w = Written(p) - 1
    BY <1>3
  <2>3. Num(v) <= Num(w) /\ Num(v) \in Int /\ Num(w) \in Int
    BY <1>2, <1>3, <2>1, <2>2, NumMono, NumFacts
  <2> QED
    BY <1>2, <2>1, <2>2, <2>3 DEF Known
<1>5. CASE Forgets(c, p, m)
  BY <1>2, <1>4, <1>5 DEF LiveInv, Emptied
<1>6. CASE ~ Forgets(c, p, m)
  <2>1. PICK b \in Int : b = m * BlockSize
    BY <1>2, Sizes
  <2>2. b \in Nat /\ b <= l.end - 1 /\ BlockSize \in Nat \ {0}
    <3>1. PICK v \in Int : v = l.end - 1
      BY <1>2
    <3>2. Num(v) * BlockSize <= v /\ m <= Num(v) /\ Num(v) \in Int
      BY <1>2, <3>1, NumFacts
    <3>3. m * BlockSize <= Num(v) * BlockSize /\ Num(v) * BlockSize \in Int
      BY <1>2, <3>2, Scale
    <3> QED
      BY <1>2, <2>1, <3>1, <3>2, <3>3, Sizes
  <2>3. \E j \in b .. b + BlockSize - 1 : Start(l) <= j /\ j < l.end
    <3>1. CASE m = Num(l.at)
      <4>1. Start(l) = l.at
        BY <1>1, <1>6, <3>1 DEF Start, Forgets
      <4>2. b <= l.at /\ l.at < b + BlockSize
        BY <1>2, <2>1, <3>1, NumFacts
      <4>3. l.at \in b .. b + BlockSize - 1
        BY <1>2, <2>2, <4>2
      <4> QED
        BY <1>2, <4>1, <4>3
    <3>2. CASE m # Num(l.at)
      <4>1. PICK a \in Nat : a = Num(l.at)
        BY <1>2
      <4>2. a < m /\ a + 1 <= m
        BY <1>2, <3>2, <4>1
      <4>3. (a + 1) * BlockSize <= b /\ (a + 1) * BlockSize = a * BlockSize + BlockSize /\ a * BlockSize \in Int
        <5>1. PICK x \in Int : x = a + 1
          OBVIOUS
        <5>2. x * BlockSize <= m * BlockSize
          BY <1>2, <4>2, <5>1, Scale
        <5>3. (a + 1) * BlockSize = a * BlockSize + BlockSize /\ a * BlockSize \in Int
          BY Scale
        <5> QED
          BY <2>1, <5>1, <5>2, <5>3
      <4>4. l.at < a * BlockSize + BlockSize
        BY <1>2, <4>1, NumFacts
      <4>5. Start(l) <= b
        BY <1>2, <2>2, <4>1, <4>3, <4>4 DEF Start
      <4>6. b \in b .. b + BlockSize - 1 /\ b < l.end
        BY <1>2, <2>2
      <4> QED
        BY <4>5, <4>6
    <3> QED
      BY <3>1, <3>2
  <2>4. Unread(p, m) # {}
    BY <1>1, <2>1, <2>3 DEF Unread, Owns
  <2>5. \E i \in DOMAIN entry[p] : Used(p, m, i)
    <3>1. m \in 0 .. Known(p)
      BY <1>2, <1>4, NumTypes
    <3>2. Backed(p)
      BY DEF LiveInv
    <3> QED
      BY <2>4, <3>1, <3>2 DEF Backed
  <2> QED
    BY <1>2, <1>4, <2>4, <2>5
<1> QED
  BY <1>5, <1>6

-----------------------------------------------------------------------------
(* What a step of a producer leaves alone.                                  *)

\* The producers that a step is not about.
LEMMA OtherOwned ==
    ASSUME Types, NEW q \in Producer, Owned(q), th'[q] = th[q],
           header'[q] = header[q], entry'[q] = entry[q], head'[q] = head[q], tail'[q] = tail[q],
           tailBlock'[q] = tailBlock[q],
           \A c \in Consumer : /\ Takes(c, q)' <=> Takes(c, q)
                               /\ Takes(c, q) => TakenBy(c)' = TakenBy(c),
           \A i \in DOMAIN entry[q] : entry[q][i].value # None =>
               block'[entry[q][i].value] = block[entry[q][i].value]
    PROVE  Owned(q)'
<1>1. Local(q)' = Local(q)
  BY DEF Local
<1>2. Chain(q)' = Chain(q) /\ Tried(q)' = Tried(q) /\ Written(q)' = Written(q)
  BY <1>1 DEF Chain, Tried, Written, At
<1>3. Frame(q)
  BY <1>2 DEF Frame
<1>4. CallInv(q)'
  <2>1. Local(q) \in CallAt(Calls) \cup {NoCall} /\ CallInv(q)
    BY LocalCall DEF Owned
  <2> QED
    BY <1>1, <1>2, <2>1, CallFrame
<1>5. head'[q] <= tail'[q]
  BY DEF Owned, LiveInv
<1>6. IndexInv(q)' /\ LiveInv(q)'
  BY <1>3, <1>5, IndexFrame, LiveFrame DEF Owned
<1> QED
  BY <1>4, <1>6 DEF Owned

\* Those of a step of a producer that leaves their blocks alone.
LEMMA OthersOwned ==
    ASSUME IInv, NEW p \in Producer, NEW l, th' = [th EXCEPT ![p] = l], UNCHANGED head,
           NEW q \in Producer, q # p, header'[q] = header[q], entry'[q] = entry[q], tail'[q] = tail[q],
           tailBlock'[q] = tailBlock[q],
           \A i \in DOMAIN entry[q] : entry[q][i].value # None =>
               block'[entry[q][i].value] = block[entry[q][i].value]
    PROVE  Owned(q)'
<1>1. \A t \in Thread : t # p => th'[t] = th[t]
  BY IsSafe
<1>2. th'[q] = th[q] /\ \A c \in Consumer : th'[c] = th[c]
  BY <1>1, Roles DEF Thread
<1>3. \A c \in Consumer : TakenBy(c)' = TakenBy(c) /\ (Takes(c, q)' <=> Takes(c, q))
  BY <1>2 DEF TakenBy, Takes
<1> QED
  BY <1>2, <1>3, OtherOwned, IsSafe DEF IInv, Rest

LEMMA ProducerFrame ==
    ASSUME IInv, NEW p \in Producer, NEW l, th' = [th EXCEPT ![p] = l]
    PROVE  /\ Local(p)' = InCall(l)
           /\ \A c \in Consumer : TakenBy(c)' = TakenBy(c) /\ th'[c] = th[c]
           /\ \A c \in Consumer : \A q : Takes(c, q)' <=> Takes(c, q)
           /\ \A c \in Consumer : \A q, k : Forgets(c, q, k)' <=> Forgets(c, q, k)
           /\ \A c \in Consumer : \A q, j : Owns(c, q, j)' <=> Owns(c, q, j)
           /\ th'[p] = l /\ \A t \in Thread : t # p => th'[t] = th[t]
<1>1. th'[p] = l /\ \A t \in Thread : t # p => th'[t] = th[t]
  BY IsSafe, Roles DEF Thread
<1>2. Local(p)' = InCall(l)
  BY <1>1 DEF Local
<1>3. \A c \in Consumer : TakenBy(c)' = TakenBy(c) /\ th'[c] = th[c]
  BY <1>1, Roles DEF TakenBy, Thread
<1>4. \A c \in Consumer : \A q : Takes(c, q)' <=> Takes(c, q)
  BY <1>3 DEF Takes
<1>5. \A c \in Consumer : \A q, k : Forgets(c, q, k)' <=> Forgets(c, q, k)
  BY <1>3, <1>4 DEF Forgets, Num
<1>6. \A c \in Consumer : \A q, j : Owns(c, q, j)' <=> Owns(c, q, j)
  BY <1>3, <1>4 DEF Owns, Start, Num
<1> QED
  BY <1>1, <1>2, <1>3, <1>4, <1>5, <1>6

LEMMA ProducerUnread ==
    ASSUME IInv, NEW p \in Producer, NEW l, th' = [th EXCEPT ![p] = l], UNCHANGED head
    PROVE  /\ \A q, k : Unread(q, k)' = Unread(q, k)
           /\ \A q : Apart(q) => Apart(q)'
<1>1. /\ \A c \in Consumer : \A q, j : Owns(c, q, j)' <=> Owns(c, q, j)
      /\ \A c \in Consumer : TakenBy(c)' = TakenBy(c)
      /\ \A c \in Consumer : \A q : Takes(c, q)' <=> Takes(c, q)
  BY ProducerFrame
<1>2. \A q, k : Unread(q, k)' = Unread(q, k)
  BY <1>1 DEF Unread
<1>3. \A q : Apart(q) => Apart(q)'
  BY <1>1 DEF Apart, Start, Num
<1> QED
  BY <1>2, <1>3

\* A producer's step that does not touch a block index or a block.
LEMMA ProducerKeeps ==
    ASSUME IInv, NEW p \in Producer, NEW l, th' = [th EXCEPT ![p] = l], UNCHANGED head,
           UNCHANGED index, UNCHANGED block, UNCHANGED tailBlock,
           \A q \in Producer : q # p => tail'[q] = tail[q],
           Chain(p)' = Chain(p), Tried(p)' = Tried(p), Written(p)' = Written(p), head[p] <= tail'[p],
           CallInv(p)'
    PROVE  \A q \in Producer : Owned(q)'
<1>1. UNCHANGED header /\ UNCHANGED entry
  BY DEF index
<1>2. \A q \in Producer : q # p => Owned(q)'
  BY <1>1, OthersOwned
<1>3. Frame(p)
  BY <1>1, ProducerFrame DEF Frame
<1>4. IndexInv(p)' /\ LiveInv(p)'
  BY <1>1, <1>3, IndexFrame, LiveFrame DEF IInv, Rest, Owned
<1> QED
  BY <1>2, <1>4 DEF Owned

-----------------------------------------------------------------------------
(* A step of a thread that holds no block, and what is left to show of it.  *)

\* A local that holds no block.
Plain(l) ==
    /\ ~ l.pc \in Putting \cup {"getDone", "release", "giveUp", "getNext", "getCas", "unref"}
    /\ "then" \in DOMAIN l => l.then.pc # "giveUp"

LEMMA PlainLocal ==
    ASSUME NEW l, Plain(l)
    PROVE  /\ Hands(l) = {} /\ Reads(l) = {} /\ \A b : ~ (Adds(l, b) \/ Returns(l, b) \/ Obtains(l, b))
           /\ ChainOnce(l)
<1>1. Hands(l) = {} /\ Reads(l) = {} /\ \A b : ~ (Adds(l, b) \/ Returns(l, b) \/ Obtains(l, b))
  BY DEF Plain, Hands, Reads, Adds, Returns, Obtains, Putting
<1>2. BehindIn(l) = <<>>
  BY DEF Plain, BehindIn
<1> QED
  BY <1>1, <1>2 DEF ChainOnce, Injective, Plain, Putting

\* The types of the blocks and of the entries, by themselves.
BlockType == [cells : [0 .. BlockSize - 1 -> (Producer \X Nat) \cup {None}], done : Nat]
EntryType == [key : Nat \cup {None}, value : Link]
IndexTyped == header \in [Producer -> Seq(Index)] /\ entry \in [Producer -> Seq(EntryType)]
BlocksTyped == block \in [Block -> BlockType] /\ tailBlock \in [Producer -> Link]
IndexKept == \A b \in Block : \A x, i : Indexed(b, x, i)' <=> Indexed(b, x, i)

LEMMA Typed == Types => IndexTyped /\ BlocksTyped
BY DEF Types, IndexTyped, BlocksTyped, BlockType, EntryType

LEMMA PlainPlaces ==
    ASSUME IInv, NEW t \in Thread, NEW l, th' = [th EXCEPT ![t] = l], Plain(th[t]), Plain(l),
           UNCHANGED freeList, UNCHANGED fresh, IndexKept
    PROVE  PlaceInv'
<1>1. th'[t] = l /\ \A u \in Thread : u # t => th'[u] = th[u]
  BY IsSafe
<1>2. UNCHANGED <<free, refs, next>> /\ PlaceInv /\ DOMAIN th = Thread
  BY IsSafe DEF freeList, IInv, Rest
<1>3. ListInv' /\ FreeBlocks' = FreeBlocks
  BY <1>2, SameStack DEF PlaceInv
<1>4. ASSUME NEW b \in Block PROVE (Once(b) /\ Refs(b))'
  <2>1. \A x, i : Indexed(b, x, i)' <=> Indexed(b, x, i)
    BY DEF IndexKept
  <2>2. SameFor(th[t], l, b)
    BY PlainLocal DEF SameFor
  <2> QED
    BY <1>2, <1>3, <2>1, <2>2, BlockSame DEF PlaceInv
<1>5. ASSUME NEW u \in Thread PROVE (ChainOnce(th[u]) /\ Linked(u))'
  <2>1. CASE u = t
    BY <1>1, <2>1, PlainLocal DEF Linked, At, Plain, Putting
  <2>2. CASE u # t
    <3>1. Linked(u)'
      BY <1>1, <1>2, <2>2 DEF PlaceInv, Linked, At
    <3> QED
      BY <1>1, <1>2, <2>2, <3>1 DEF PlaceInv
  <2> QED
    BY <2>1, <2>2
<1> QED
  BY <1>3, <1>4, <1>5 DEF PlaceInv

LEMMA StepTypes ==
    ASSUME IInv, NEW t \in Thread, NEW l, th' = [th EXCEPT ![t] = l], LocalOk(t, l),
           UNCHANGED freeList, UNCHANGED memory, IndexTyped', BlocksTyped'
    PROVE  Types'
<1>1. th'[t] = l /\ \A u \in Thread : u # t => th'[u] = th[u]
  BY IsSafe
<1>2. \A p \in Producer : th'[p] \in Enq
  BY <1>1, Roles, IsSafe DEF Types, LocalOk
<1>3. \A c \in Consumer : Deq(th'[c])
  BY <1>1, Roles, IsSafe DEF Types, LocalOk
<1>4. UNCHANGED <<free, refs, next>> /\ UNCHANGED <<fresh, pooled>>
  BY DEF freeList, memory
<1> QED
  BY <1>2, <1>3, <1>4, IsSafe DEF Types, IndexTyped, BlocksTyped, BlockType, EntryType

LEMMA StepPool ==
    ASSUME IInv, NEW t \in Thread, NEW l, th' = [th EXCEPT ![t] = l], UNCHANGED memory,
           t \in Producer /\ InCall(l).pc \in {"pool", "malloc"} /\ l.pc # "pool" => pooled >= PoolSize
    PROVE  PoolInv'
<1>1. th'[t] = l /\ \A u \in Thread : u # t => th'[u] = th[u]
  BY IsSafe
<1>2. ASSUME NEW p \in Producer, (Local(p).pc \in {"pool", "malloc"} /\ ~ At(p, "pool"))'
      PROVE  pooled >= PoolSize
  <2>1. CASE p = t
    BY <1>1, <1>2, <2>1 DEF Local, At
  <2>2. CASE p # t
    <3>1. th'[p] = th[p]
      BY <1>1, <2>2, Roles DEF Thread
    <3> QED
      BY <1>2, <3>1 DEF IInv, Rest, PoolInv, Local, At
  <2> QED
    BY <2>1, <2>2
<1>3. UNCHANGED fresh /\ UNCHANGED pooled
  BY DEF memory
<1> QED
  BY <1>2, <1>3 DEF IInv, Rest, PoolInv

\* What a step of a thread that holds no block, before or after, has to show.
LEMMA PlainRest ==
    ASSUME IInv, NEW t \in Thread, NEW l, th' = [th EXCEPT ![t] = l], Plain(th[t]), Plain(l),
           LocalOk(t, l), UNCHANGED freeList, UNCHANGED memory, IndexKept, IndexTyped', BlocksTyped',
           t \in Producer /\ InCall(l).pc \in {"pool", "malloc"} /\ l.pc # "pool" => pooled >= PoolSize,
           ~ broken', \A q \in Producer : Owned(q)'
    PROVE  Rest'
<1>1. UNCHANGED fresh
  BY DEF memory
<1> QED
  BY <1>1, PlainPlaces, StepTypes, StepPool DEF Rest

LEMMA SameIndex ==
    ASSUME IInv, UNCHANGED index
    PROVE  IndexKept /\ IndexTyped'
<1>1. UNCHANGED header /\ UNCHANGED entry
  BY DEF index
<1> QED
  BY <1>1, Typed, IsSafe DEF IndexKept, Indexed, IndexTyped

LEMMA SameBlocks ==
    ASSUME IInv, UNCHANGED block, UNCHANGED tailBlock
    PROVE  BlocksTyped'
BY Typed, IsSafe DEF BlocksTyped

-----------------------------------------------------------------------------
(* The calls of a producer: they begin, they give up, they publish.         *)

LEMMA CallLocal ==
    ASSUME NEW l \in CallAt(Calls)
    PROVE  InCall(l) = l /\ Plain(l) /\ l \in Enq
           /\ \A p \in Producer : p \notin Consumer => LocalOk(p, l)
BY DEF CallAt, Calls, InCall, Plain, Enq, LocalOk, Putting

LEMMA BasesAre ==
    ASSUME NEW p \in Producer, tail[p] \in Nat, NEW n \in Nat \ {0}
    PROVE  LET bases == NewBases(p, n) IN
           /\ bases \in Seq(Nat) /\ Len(bases) = Num(tail[p] + n - 1) - Num(tail[p] - 1)
           /\ \A j \in DOMAIN bases : bases[j] = (Num(tail[p] - 1) + j) * BlockSize
<1>1. PICK v \in Int : v = tail[p] + n - 1
  OBVIOUS
<1>2. PICK w \in Int : w = tail[p] - 1
  OBVIOUS
<1>3. /\ Num(v) \in Int /\ Num(w) \in Int /\ w <= v
      /\ BaseOf(v) = Num(v) * BlockSize /\ BaseOf(w) = Num(w) * BlockSize
  BY <1>1, <1>2, NumFacts
<1>4. Num(w) <= Num(v)
  BY <1>3, NumMono
<1>5. PICK m \in Nat : m = Num(v) - Num(w)
  BY <1>3, <1>4
<1>6. (BaseOf(v) - BaseOf(w)) \div BlockSize = m
  BY <1>3, <1>5, DivDiff
<1>7. Num(w) >= -1
  <2>1. CASE w >= 0
    <3>1. Num(w) \in Nat
      BY <2>1, NumFacts
    <3> QED
      BY <3>1
  <2>2. CASE w = -1
    <3>1. Num(-1) = -1
      BY NumIs, Sizes
    <3> QED
      BY <2>2, <3>1
  <2> QED
    BY <1>2, <2>1, <2>2
<1>8. PICK a \in Int : a = Num(w)
  BY <1>3
<1>9. \A k \in 1 .. m : (a + k) * BlockSize = a * BlockSize + k * BlockSize /\ (a + k) * BlockSize \in Nat
  <2>1. BlockSize \in {2, 4, 8, 16, 32, 64}
    BY SizesArePowers
  <2> QED
    BY <1>7, <1>8, <2>1
<1>10. NewBases(p, n) = [k \in 1 .. m |-> a * BlockSize + k * BlockSize]
  BY <1>1, <1>2, <1>3, <1>6, <1>8 DEF NewBases
<1>11. \A k \in 1 .. m : a * BlockSize + k * BlockSize \in Nat
  BY <1>9
<1>12. NewBases(p, n) \in [1 .. m -> Nat]
  BY <1>10, <1>11
<1>13. NewBases(p, n) \in Seq(Nat) /\ Len(NewBases(p, n)) = m /\ DOMAIN NewBases(p, n) = 1 .. m
  <2>1. NewBases(p, n) \in Seq(Nat)
    BY <1>12, SeqDef
  <2> QED
    BY <1>12, <2>1, LenProperties
<1> QED
  BY <1>1, <1>2, <1>5, <1>8, <1>9, <1>10, <1>13

LEMMA EnqueueRest ==
    ASSUME IInv, NEW p \in Producer, NEW n \in Counts[p], Enqueue(p, n)
    PROVE  Rest'
<1>1. p \in Thread /\ p \notin Consumer /\ th[p].pc = "idle" /\ tail[p] \in Nat /\ n \in Nat \ {0}
  <2>1. tail[p] \in Nat
    BY IsSafe DEF CountTypes
  <2>2. Counts[p] \subseteq Nat \ {0}
    BY BoundAssumption
  <2>3. n \in Nat \ {0}
    BY <2>2
  <2> QED
    BY <2>1, <2>3, Roles DEF Thread, Enqueue, At
<1> DEFINE bases == NewBases(p, n)
           l == [pc |-> IF bases = <<>> THEN "place" ELSE "index",
                 n |-> n, bases |-> bases, chain |-> <<>>, slot |-> None]
<1>2. th' = [th EXCEPT ![p] = l] /\ UNCHANGED freeList /\ UNCHANGED memory /\ UNCHANGED index
      /\ UNCHANGED block /\ UNCHANGED tailBlock /\ UNCHANGED head /\ UNCHANGED tail /\ UNCHANGED broken
  BY DEF Enqueue, Go, places
<1>3. /\ bases \in Seq(Nat) /\ Len(bases) = Num(tail[p] + n - 1) - Num(tail[p] - 1)
      /\ \A j \in DOMAIN bases : bases[j] = (Num(tail[p] - 1) + j) * BlockSize
  BY <1>1, BasesAre
<1> HIDE DEF bases
<1>4. l \in CallAt(Calls) /\ l.n = n /\ l.bases = bases /\ l.chain = <<>> /\ l.slot = None
      /\ l.pc = (IF bases = <<>> THEN "place" ELSE "index")
  BY <1>1, <1>3, EmptySeq DEF CallAt, Calls
<1> HIDE DEF l
<1>5. InCall(l) = l /\ Plain(l) /\ LocalOk(p, l)
  BY <1>1, <1>4, CallLocal
<1>6. Local(p) = NoCall /\ Plain(th[p])
  <2>1. th[p] \in Enq
    BY IsSafe DEF Types
  <2>2. th[p] = Idle
    BY <1>1, <2>1 DEF Enq, CallAt, Calls, GetIn, GiveUps, Idle, PutIn
  <2> QED
    BY <2>2, LocalCall, IsSafe DEF Plain, Idle, Putting
<1>7. Local(p)' = l /\ th'[p] = l
  <2>1. Local(p)' = InCall(l) /\ th'[p] = l
    BY <1>2, ProducerFrame
  <2> QED
    BY <1>5, <2>1
<1>8. Chain(p)' = Chain(p) /\ Tried(p)' = Tried(p) /\ Written(p)' = Written(p) /\ Written(p) = tail[p]
  BY <1>1, <1>2, <1>4, <1>6, <1>7 DEF Chain, Tried, Written, At, NoCall
<1>9. head[p] <= tail'[p]
  BY <1>2 DEF IInv, Rest, Owned, LiveInv
<1>10. CallInv(p)'
  <2>1. Known(p)' = Num(tail[p] - 1) /\ Len(l.chain) = 0
    BY <1>4, <1>8, EmptySeq DEF Known, Num
  <2>2. PICK a \in Int : a = Num(tail[p] - 1)
    <3>1. tail[p] - 1 \in Int
      BY <1>1
    <3> QED
      BY <3>1, NumFacts
  <2>3. /\ 0 + Len(l.bases) = Num(tail[p] + l.n - 1) - a
        /\ \A j \in DOMAIN l.bases : l.bases[j] = (a + 0 + j) * BlockSize
    <3>1. \A j \in DOMAIN l.bases : j \in Nat
      BY <1>3, <1>4, LenProperties
    <3>2. Len(l.bases) \in Nat
      BY <1>3, <1>4, LenProperties
    <3> QED
      BY <1>3, <1>4, <2>2, <3>1, <3>2
  <2>4. l.pc \in {"index", "place"} /\ (l.pc = "place" <=> l.bases = <<>>) /\ l.slot = None
    BY <1>4
  <2> QED
    BY <1>2, <1>7, <2>1, <2>2, <2>3, <2>4 DEF CallInv, Num
<1>11. \A q \in Producer : Owned(q)'
  BY <1>2, <1>8, <1>9, <1>10, ProducerKeeps
<1>12. ~ broken'
  BY <1>2 DEF IInv, Rest
<1>13. IndexKept /\ IndexTyped' /\ BlocksTyped'
  BY <1>2, SameIndex, SameBlocks
<1>14. ~ l.pc \in {"pool", "malloc"}
  BY <1>4
<1> QED
  BY <1>1, <1>2, <1>5, <1>6, <1>11, <1>12, <1>13, <1>14, PlainRest

\* malloc has refused: the call is to be undone.
LEMMA ToUndoRest ==
    ASSUME IInv, NEW p \in Producer, th[p].pc \in {"index", "malloc"}, GoTo(p, "undo"),
           UNCHANGED <<freeList, memory, index, block, tailBlock, head, tail>>, ~ broken'
    PROVE  Rest'
<1>1. p \in Thread /\ p \notin Consumer
  BY Roles DEF Thread
<1>2. PICK l0 : l0 = th[p]
  OBVIOUS
<1>3. l0 \in CallAt(Calls) /\ Local(p) = l0 /\ l0.pc \in {"index", "malloc"}
  BY <1>2, LocalCall, IsSafe DEF Calls
<1>4. PICK l : l = [l0 EXCEPT !.pc = "undo"]
  OBVIOUS
<1>5. l \in CallAt(Calls) /\ l.pc = "undo" /\ l.n = l0.n /\ l.bases = l0.bases /\ l.chain = l0.chain
      /\ l.slot = l0.slot
  BY <1>3, <1>4 DEF CallAt, Calls
<1>6. th' = [th EXCEPT ![p] = l] /\ UNCHANGED freeList /\ UNCHANGED memory /\ UNCHANGED index
      /\ UNCHANGED block /\ UNCHANGED tailBlock /\ UNCHANGED head /\ UNCHANGED tail
  <2>1. th' = [th EXCEPT ![p].pc = "undo"]
    BY DEF GoTo
  <2>2. th' = [th EXCEPT ![p] = [th[p] EXCEPT !.pc = "undo"]]
    BY <2>1
  <2> QED
    BY <1>2, <1>4, <2>2
<1>7. InCall(l) = l /\ Plain(l) /\ LocalOk(p, l) /\ Plain(l0)
  BY <1>1, <1>3, <1>5, CallLocal
<1>8. Local(p)' = l /\ th'[p] = l
  <2>1. Local(p)' = InCall(l) /\ th'[p] = l
    BY <1>6, ProducerFrame
  <2> QED
    BY <1>7, <2>1
<1>9. Chain(p)' = Chain(p) /\ Tried(p)' = Tried(p) /\ Written(p)' = Written(p)
  BY <1>2, <1>3, <1>5, <1>6, <1>8 DEF Chain, Tried, Written, At
<1>10. head[p] <= tail'[p]
  BY <1>6 DEF IInv, Rest, Owned, LiveInv
<1>11. CallInv(p)'
  <2>1. Known(p)' = Known(p) /\ tail'[p] = tail[p]
    BY <1>6, <1>9 DEF Known, Num
  <2>2. /\ Len(l0.chain) + Len(l0.bases) = Num(tail[p] + l0.n - 1) - Num(tail[p] - 1)
        /\ \A j \in DOMAIN l0.bases : l0.bases[j] = (Known(p) + Len(l0.chain) + j) * BlockSize
        /\ l0.bases # <<>>
    BY <1>3 DEF IInv, Rest, Owned, CallInv
  <2> QED
    BY <1>5, <1>8, <2>1, <2>2 DEF CallInv, Num
<1>12. \A q \in Producer : Owned(q)'
  BY <1>6, <1>9, <1>10, <1>11, ProducerKeeps
<1>13. IndexKept /\ IndexTyped' /\ BlocksTyped'
  BY <1>6, SameIndex, SameBlocks
<1> QED
  BY <1>1, <1>2, <1>5, <1>6, <1>7, <1>12, <1>13, PlainRest

\* The new tail publishes what Place has constructed.
LEMMA PublishRest ==
    ASSUME IInv, NEW p \in Producer, Publish(p)
    PROVE  Rest'
<1>1. p \in Thread /\ p \notin Consumer /\ th[p].pc = "publish"
  BY Roles DEF Thread, Publish, At
<1>2. th[p] \in [pc : {"publish"}, n : Nat \ {0}]
  <2>1. th[p] \in Enq
    BY IsSafe DEF Types
  <2> QED
    BY <1>1, <2>1 DEF Enq, CallAt, Calls, GetIn, GiveUps, Idle, PutIn
<1>3. th' = [th EXCEPT ![p] = Idle] /\ UNCHANGED freeList /\ UNCHANGED memory /\ UNCHANGED index
      /\ UNCHANGED block /\ UNCHANGED tailBlock /\ UNCHANGED head /\ UNCHANGED broken
      /\ tail' = [tail EXCEPT ![p] = @ + th[p].n]
  BY DEF Publish, Go
<1>4. Plain(th[p]) /\ Plain(Idle) /\ LocalOk(p, Idle) /\ InCall(Idle) = NoCall
  BY <1>1, <1>2 DEF Plain, Idle, Putting, LocalOk, Enq, GiveUps, InCall, Calls
<1>5. Local(p) = NoCall
  BY <1>1, LocalCall, IsSafe
<1>6. Local(p)' = NoCall /\ th'[p] = Idle
  BY <1>3, <1>4, ProducerFrame
<1>7. DOMAIN tail = Producer /\ tail[p] \in Nat
  BY IsSafe DEF CountTypes
<1>8. tail'[p] = tail[p] + th[p].n /\ \A q \in Producer : q # p => tail'[q] = tail[q]
  BY <1>3, <1>7
<1>9. Chain(p)' = Chain(p) /\ Tried(p)' = Tried(p)
  BY <1>5, <1>6 DEF Chain, Tried
<1>10. Written(p)' = Written(p)
  BY <1>1, <1>2, <1>6, <1>7, <1>8 DEF Written, At, Idle
<1>11. head[p] <= tail'[p]
  <2>1. head[p] <= tail[p] /\ head[p] \in Nat
    BY IsSafe DEF IInv, Rest, Owned, LiveInv, CountTypes
  <2> QED
    BY <1>2, <1>7, <1>8, <2>1
<1>12. CallInv(p)'
  BY <1>6 DEF CallInv, NoCall
<1>13. \A q \in Producer : Owned(q)'
  BY <1>3, <1>8, <1>9, <1>10, <1>11, <1>12, ProducerKeeps
<1>14. ~ broken'
  BY <1>3 DEF IInv, Rest
<1>15. IndexKept /\ IndexTyped' /\ BlocksTyped'
  BY <1>3, SameIndex, SameBlocks
<1>16. ~ NoCall.pc \in {"pool", "malloc"}
  BY DEF NoCall
<1> QED
  BY <1>1, <1>3, <1>4, <1>13, <1>14, <1>15, <1>16, PlainRest
=============================================================================
