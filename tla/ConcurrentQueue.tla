--------------------------- MODULE ConcurrentQueue --------------------------
(***************************************************************************)
(* concurrentqueue.h, the queue that uv_timer.h declares for timers: the   *)
(* implicit producers (one per enqueuing thread), their blocks and block   *)
(* index, the lock-free list of free blocks, and the dequeues that walk    *)
(* the producers.  A call of enqueue is one of enqueue_bulk with one       *)
(* element; elements are timer pointers, which are copied and destroyed    *)
(* without exceptions.  A step is one access to a shared atomic variable,  *)
(* with those to memory that no other thread may use meanwhile; accesses   *)
(* that follow one another are one step where any schedule of them has the *)
(* outcome of a schedule of whole steps.  Memory is sequentially           *)
(* consistent, and no index wraps around.                                  *)
(***************************************************************************)
EXTENDS Integers, FiniteSets, SequencesExt

CONSTANTS
    Producer,    \* threads that enqueue, each with its ImplicitProducer
    Consumer,    \* threads that dequeue
    Block,       \* blocks that memory has room for
    BlockSize,   \* BLOCK_SIZE
    PoolSize,    \* initialBlockPoolSize
    IndexSize,   \* IMPLICIT_INITIAL_INDEX_SIZE
    Counts,      \* how many elements one call of each producer may enqueue
    Limit,       \* bound on the elements of each producer
    Maxes,       \* how many elements one call of each consumer may ask for
    Tries,       \* bound on the calls of each consumer
    Refused,     \* may malloc refuse a block, or a block index?
    None         \* nullptr

Thread == Producer \cup Consumer

ASSUME RolesDiffer ==
    /\ Producer \cap Consumer = {} /\ None \notin Block \cup Thread \cup Int
    /\ IsFiniteSet(Block \cup Thread)
ASSUME SizesArePowers == {BlockSize, IndexSize} \subseteq {2, 4, 8, 16, 32, 64}
ASSUME BoundAssumption ==
    /\ PoolSize \in 0 .. Cardinality(Block) /\ Refused \in BOOLEAN
    /\ Counts \in [Producer -> SUBSET (Nat \ {0})] /\ Limit \in [Producer -> Nat]
    /\ Maxes \in [Consumer -> SUBSET (Nat \ {0})] /\ Tries \in [Consumer -> Nat]

VARIABLES
    list,     \* the producers, the one created last first
    tail, head, opt, over,  \* the indices of each producer
    tailBlock,              \* its tailBlock
    header,   \* its block indices, each with a prev pointer to the one before
    entry,    \* its BlockIndexEntry objects
    block,    \* the elements of each block, and how many are completely dequeued
    free,     \* freeListHead
    refs,     \* freeListRefs of each block, and the bit SHOULD_BE_ON_FREELIST
    next,     \* freeListNext of each block
    fresh,    \* blocks that neither the pool nor malloc has handed out
    pooled,   \* initialBlockPoolIndex
    th,       \* where each thread is, and its local variables
    calls,    \* calls that each consumer has made
    broken    \* whether an assert has failed

places == <<tail, head, opt, over>>
index == <<header, entry>>
freeList == <<free, refs, next>>
memory == <<fresh, pooled>>
vars == <<list, places, tailBlock, index, block, freeList, memory, th, calls, broken>>

\* A definition that nothing uses, just before another with the same parameters, is a
\* slip that the properties are checked to notice.

\* index & ~(BLOCK_SIZE - 1)
BaseOf(i) == (i \div BlockSize) * BlockSize

Idle == [pc |-> "idle"]
NoBlock == [cells |-> [i \in 0 .. BlockSize - 1 |-> None], done |-> 0]
NoEntry == [key |-> None, value |-> None]

Init ==
    /\ list = <<>>
    /\ tail = [p \in Producer |-> 0] /\ head = tail /\ opt = tail /\ over = tail
    /\ tailBlock = [p \in Producer |-> None]
    /\ header = [p \in Producer |-> <<>>]
    /\ entry = [p \in Producer |-> <<>>]
    /\ block = [b \in Block |-> NoBlock]
    /\ free = None
    /\ refs = [b \in Block |-> [n |-> 0, should |-> FALSE]]
    /\ next = [b \in Block |-> None]
    /\ fresh = Block
    /\ pooled = 0
    /\ th = [t \in Thread |-> Idle]
    /\ calls = [c \in Consumer |-> 0]
    /\ broken = FALSE

At(t, pc) == th[t].pc = pc
Go(t, local) == th' = [th EXCEPT ![t] = local]
GoTo(t, pc) == th' = [th EXCEPT ![t].pc = pc]

-----------------------------------------------------------------------------
(* The block index. *)

\* new_block_index: twice the capacity, the entries so far from the oldest on and
\* as many new ones; a producer's first index has IndexSize of them.
Grown(h) ==
    IF h = <<>> THEN [cap |-> IndexSize, tail |-> IndexSize - 1,
                      slots |-> [i \in 0 .. IndexSize - 1 |-> i + 1]]
    ELSE LET old == Last(h) IN
         [cap |-> 2 * old.cap, tail |-> old.cap - 1,
          slots |-> [i \in 0 .. 2 * old.cap - 1 |->
                        IF i < old.cap THEN old.slots[(old.tail + 1 + i) % old.cap]
                        ELSE i + 1]]

NewEntries(h) ==
    [i \in 1 .. IF h = <<>> THEN IndexSize ELSE Last(h).cap |-> NoEntry]

NewIndex(p) ==
    /\ header' = [header EXCEPT ![p] = Append(@, Grown(@))]
    /\ entry' = [entry EXCEPT ![p] = @ \o NewEntries(header[p])]

\* The slot of the current index that insert_block_index_entry tries, its entry, and
\* whether that entry is in use.
TailSlot(p) == (Last(header[p]).tail + 1) % Last(header[p]).cap
NextEntry(p) == Last(header[p]).slots[TailSlot(p)]
InUse(e) == e.key # None /\ e.value # None

WithTail(h, slot) == [h EXCEPT ![Len(h)].tail = slot]

\* get_block_index_index_for_index: from the key of the entry at the tail.
SlotOf(h, slot, entries, base) ==
    (slot + (base - entries[h.slots[slot]].key) \div BlockSize) % h.cap

-----------------------------------------------------------------------------
(* FreeList.  A thread in it keeps what it does next in the local then.      *)

\* add: a block with no references is put on the list by this thread.
Add(t, b, local) ==
    /\ refs' = [refs EXCEPT ![b].should = TRUE]
    /\ Go(t, IF refs[b].n = 0 THEN [pc |-> "put", node |-> b, then |-> local] ELSE local)
    /\ UNCHANGED <<free, next>>

\* add_knowing_refcount_is_zero: the head is loaded, the block linked to it and given
\* the reference of the list; nobody can look at it before that.
Put(t) ==
    /\ At(t, "put")
    /\ next' = [next EXCEPT ![th[t].node] = free]
    /\ refs' = [refs EXCEPT ![th[t].node] = [n |-> 1, should |-> FALSE]]
    /\ Go(t, [pc |-> "putCas", node |-> th[t].node, head |-> free, then |-> th[t].then])
    /\ UNCHANGED <<list, places, tailBlock, index, block, free, memory, calls, broken>>

PutCas(t) ==
    /\ At(t, "putCas")
    /\ IF free = th[t].head
       THEN free' = th[t].node /\ Go(t, th[t].then)
       ELSE UNCHANGED free /\ Go(t, [th[t] EXCEPT !.pc = "putBack", !.head = free])
    /\ UNCHANGED <<list, places, tailBlock, index, block, refs, next, memory, calls, broken>>

\* The list has changed meanwhile: the thread tries again with the head it has seen,
\* unless another thread holds a reference, which then puts the block there.
PutBack(t) ==
    /\ At(t, "putBack")
    /\ LET b == th[t].node IN
       IF refs[b].n = 1
       THEN /\ next' = [next EXCEPT ![b] = th[t].head]
            /\ GoTo(t, "putCas")
            /\ UNCHANGED refs
       ELSE /\ refs' = [refs EXCEPT ![b] = [n |-> @.n - 1, should |-> TRUE]]
            /\ Go(t, th[t].then)
            /\ UNCHANGED next
    /\ UNCHANGED <<list, places, tailBlock, index, block, free, memory, calls, broken>>

\* try_get, called by requisition_block with the locals of the enqueue in then.
GetHead(t) ==
    /\ At(t, "getHead")
    /\ Go(t, IF free = None THEN [th[t].then EXCEPT !.pc = "malloc"]
             ELSE [pc |-> "getRef", head |-> free, then |-> th[t].then])
    /\ UNCHANGED <<list, places, tailBlock, index, block, freeList, memory, calls, broken>>

GetRef(t) ==
    /\ At(t, "getRef")
    /\ LET b == th[t].head IN
       IF b = None
       THEN Go(t, [th[t].then EXCEPT !.pc = "malloc"]) /\ UNCHANGED refs
       ELSE IF refs[b].n = 0
       THEN Go(t, [pc |-> "getHead", then |-> th[t].then]) /\ UNCHANGED refs
       ELSE GoTo(t, "getNext") /\ refs' = [refs EXCEPT ![b].n = @ + 1]
    /\ UNCHANGED <<list, places, tailBlock, index, block, free, next, memory, calls, broken>>

GetNext(t) ==
    /\ At(t, "getNext")
    /\ Go(t, [pc |-> "getCas", node |-> th[t].head, next |-> next[th[t].head],
              then |-> th[t].then])
    /\ UNCHANGED <<list, places, tailBlock, index, block, freeList, memory, calls, broken>>

GetCas(t) ==
    /\ At(t, "getCas")
    /\ IF free = th[t].node
       THEN /\ free' = th[t].next
            /\ Go(t, [pc |-> "getDone", node |-> th[t].node, then |-> th[t].then])
       ELSE /\ Go(t, [pc |-> "unref", node |-> th[t].node, head |-> free,
                      then |-> th[t].then])
            /\ UNCHANGED free
    /\ UNCHANGED <<list, places, tailBlock, index, block, refs, next, memory, calls, broken>>

LastRefAny(r) == r.n = 1
LastRef(r) == r = [n |-> 1, should |-> TRUE]

\* The reference is dropped; whoever drops the last one of a block that should be on
\* the list puts it there.
Unref(t) ==
    /\ At(t, "unref")
    /\ LET b == th[t].node
           again == [pc |-> "getRef", head |-> th[t].head, then |-> th[t].then]
       IN /\ refs' = [refs EXCEPT ![b].n = @ - 1]
          /\ IF LastRef(refs[b])
             THEN Go(t, [pc |-> "put", node |-> b, then |-> again])
             ELSE Go(t, again)
    /\ UNCHANGED <<list, places, tailBlock, index, block, free, next, memory, calls, broken>>

FreeListStep(t) ==
    \/ Put(t) \/ PutCas(t) \/ PutBack(t)
    \/ GetHead(t) \/ GetRef(t) \/ GetNext(t) \/ GetCas(t) \/ Unref(t)

-----------------------------------------------------------------------------
(* ImplicitProducer::enqueue and enqueue_bulk.  The local variable n counts *)
(* the elements, bases the blocks still to be found for them, chain those   *)
(* found, from firstAllocatedBlock on, and entry is idxEntry.               *)

\* get_or_add_implicit_producer, for a thread that has none yet.
Join(p) ==
    /\ p \notin ToSet(list)
    /\ list' = <<p>> \o list
    /\ \/ NewIndex(p)
       \/ Refused /\ UNCHANGED index
    /\ UNCHANGED <<places, tailBlock, block, freeList, memory, th, calls, broken>>

\* The first indices of the blocks that start among n more elements.
NewBases(p, n) ==
    [k \in 1 .. (BaseOf(tail[p] + n - 1) - BaseOf(tail[p] - 1)) \div BlockSize |->
        BaseOf(tail[p] - 1) + k * BlockSize]

Enqueue(p, n) ==
    /\ At(p, "idle") /\ p \in ToSet(list)
    /\ n \in Counts[p] /\ tail[p] + n <= Limit[p]
    /\ LET bases == NewBases(p, n) IN
       Go(p, [pc |-> IF bases = <<>> THEN "place" ELSE "index",
              n |-> n, bases |-> bases, chain |-> <<>>, slot |-> None])
    /\ UNCHANGED <<list, places, tailBlock, index, block, freeList, memory, calls, broken>>

\* insert_block_index_entry; then the pool is asked if it does not look empty.
Insert(p) ==
    /\ At(p, "index")
    /\ broken' = (broken \/ Head(th[p].bases) < head[p])
    /\ IF header[p] = <<>> THEN GoTo(p, "undo") /\ UNCHANGED index
       ELSE IF ~InUse(entry[p][NextEntry(p)])
       THEN /\ entry' = [entry EXCEPT ![p][NextEntry(p)].key = Head(th[p].bases)]
            /\ header' = [header EXCEPT ![p] = WithTail(@, TailSlot(p))]
            /\ LET local == [th[p] EXCEPT !.pc = "pool", !.slot = NextEntry(p)] IN
               Go(p, IF pooled < PoolSize THEN local ELSE [pc |-> "getHead", then |-> local])
       ELSE \/ NewIndex(p) /\ UNCHANGED th
            \/ Refused /\ GoTo(p, "undo") /\ UNCHANGED index
    /\ UNCHANGED <<list, places, tailBlock, block, freeList, memory, calls>>

\* requisition_block, from the initial pool, the free list or malloc; then the block is
\* emptied and put into its index entry.
SetBlock(p, local, b) ==
    LET rest == Tail(local.bases) IN
    /\ block' = [block EXCEPT ![b].done = 0]
    /\ entry' = [entry EXCEPT ![p][local.slot].value = b]
    /\ Go(p, [local EXCEPT !.pc = IF rest = <<>> THEN "place" ELSE "index",
                           !.bases = rest, !.chain = Append(@, b), !.slot = None])

FreshBlock(p) ==
    LET b == CHOOSE b \in fresh : TRUE IN fresh' = fresh \ {b} /\ SetBlock(p, th[p], b)

FromPool(p) ==
    /\ At(p, "pool")
    /\ IF pooled < PoolSize
       THEN pooled' = pooled + 1 /\ FreshBlock(p)
       ELSE /\ Go(p, [pc |-> "getHead", then |-> th[p]])
            /\ UNCHANGED <<pooled, fresh, block, entry>>
    /\ UNCHANGED <<list, places, tailBlock, header, freeList, calls, broken>>

\* The end of try_get: the references of the list and of the thread are dropped.
FromFreeList(p) ==
    /\ At(p, "getDone")
    /\ LET b == th[p].node IN
       /\ broken' = (broken \/ refs[b].should)
       /\ refs' = [refs EXCEPT ![b].n = @ - 2]
       /\ SetBlock(p, th[p].then, b)
    /\ UNCHANGED <<list, places, tailBlock, header, free, next, memory, calls>>

Malloc(p) ==
    /\ At(p, "malloc")
    /\ \/ fresh # {} /\ FreshBlock(p)
       \/ /\ fresh = {} \/ Refused
          /\ GoTo(p, "undo") /\ UNCHANGED <<fresh, block, entry>>
    /\ UNCHANGED <<list, places, tailBlock, header, freeList, pooled, calls, broken>>

\* An allocation has failed: the index entries of this call are emptied and its tail
\* goes back; the blocks are added to the free list.
BackChain(p) == Len(th[p].chain)
Back(p) == Len(th[p].chain) + IF th[p].slot # None THEN 1 ELSE 0

Undo(p) ==
    /\ At(p, "undo")
    /\ LET mine == ToSet(th[p].chain)
           h == Last(header[p])
       IN /\ entry' = [entry EXCEPT ![p] = [i \in DOMAIN @ |->
                          IF i = th[p].slot \/ @[i].value \in mine
                          THEN [@[i] EXCEPT !.value = None] ELSE @[i]]]
          /\ header' = IF header[p] = <<>> THEN header
                       ELSE [header EXCEPT ![p] = WithTail(@, (h.tail - Back(p)) % h.cap)]
          /\ Go(p, IF mine = {} THEN Idle ELSE [pc |-> "giveUp", chain |-> th[p].chain])
    /\ UNCHANGED <<list, places, tailBlock, block, freeList, memory, calls, broken>>

\* add_blocks_to_free_list
GiveUp(p) ==
    /\ At(p, "giveUp")
    /\ LET rest == Tail(th[p].chain) IN
       Add(p, Head(th[p].chain),
           IF rest = <<>> THEN Idle ELSE [pc |-> "giveUp", chain |-> rest])
    /\ UNCHANGED <<list, places, tailBlock, index, block, memory, calls, broken>>

\* The elements are written, from the place after the last one on, and then published.
BlockForTail(p, i) ==
    LET b0 == BaseOf(tail[p]) IN
    IF BaseOf(i) = b0 THEN tailBlock[p]
    ELSE th[p].chain[(BaseOf(i) - b0) \div BlockSize]
BlockFor(p, i) ==
    LET b0 == BaseOf(tail[p] - 1) IN
    IF BaseOf(i) = b0 THEN tailBlock[p]
    ELSE th[p].chain[(BaseOf(i) - b0) \div BlockSize]

Place(p) ==
    /\ At(p, "place")
    /\ LET new == tail[p] .. tail[p] + th[p].n - 1 IN
       block' = [b \in Block |-> [block[b] EXCEPT !.cells = [k \in DOMAIN @ |->
                    IF \E i \in new : BlockFor(p, i) = b /\ i % BlockSize = k
                    THEN <<p, CHOOSE i \in new : BlockFor(p, i) = b /\ i % BlockSize = k>>
                    ELSE @[k]]]]
    /\ tailBlock' = [tailBlock EXCEPT ![p] = BlockFor(p, tail[p] + th[p].n - 1)]
    /\ Go(p, [pc |-> "publish", n |-> th[p].n])
    /\ UNCHANGED <<list, places, index, freeList, memory, calls, broken>>

Publish(p) ==
    /\ At(p, "publish")
    /\ tail' = [tail EXCEPT ![p] = @ + th[p].n]
    /\ Go(p, Idle)
    /\ UNCHANGED <<list, head, opt, over, tailBlock, index, block, freeList, memory, calls, broken>>

Produce(p) ==
    \/ Join(p) \/ (\E n \in Counts[p] : Enqueue(p, n)) \/ Insert(p)
    \/ FromPool(p) \/ FromFreeList(p) \/ Malloc(p) \/ Undo(p) \/ GiveUp(p) \/ Place(p) \/ Publish(p)

-----------------------------------------------------------------------------
(* try_dequeue and try_dequeue_bulk.  ask is what the call has still to do: *)
(* todo, the producers to be asked, max, how many elements are wanted, and  *)
(* best, the one that try_dequeue asks before it walks through the others.  *)

Others(best) == RemoveAt(list, CHOOSE i \in DOMAIN list : list[i] = best)

Ask(todo, max, best) ==
    IF max = 0 THEN Idle
    ELSE IF todo # <<>> THEN [pc |-> "load", ask |-> [todo |-> todo, max |-> max, best |-> best]]
    ELSE LET others == IF best = None THEN <<>> ELSE Others(best) IN
         IF others = <<>> THEN Idle
         ELSE [pc |-> "load", ask |-> [todo |-> others, max |-> max, best |-> None]]

\* What follows when the producer just asked has given n elements.
Then(ask, n) == Ask(Tail(ask.todo), ask.max - n, ask.best)

\* try_dequeue first asks one that was seen not to be empty: the one that seemed to
\* have most elements when each was looked at.
Dequeue(c, max) ==
    /\ At(c, "idle") /\ calls[c] < Tries[c]
    /\ calls' = [calls EXCEPT ![c] = @ + 1]
    /\ LET nonEmpty == {p \in ToSet(list) : head[p] < tail[p]} IN
       IF max > 1 THEN Go(c, Ask(list, max, None))
       ELSE IF nonEmpty = {} THEN Go(c, Idle)
       ELSE \E best \in nonEmpty : Go(c, Ask(<<best>>, 1, best))
    /\ UNCHANGED <<list, places, tailBlock, index, block, freeList, memory, broken>>

\* ImplicitProducer::dequeue and dequeue_bulk.  opt counts the elements that were
\* claimed, over those that were claimed in vain.
From(c) == Head(th[c].ask.todo)

Smaller(a, b) == IF a < b THEN a ELSE b

Test(c) ==
    /\ At(c, "load")
    /\ LET room == tail[From(c)] - (opt[From(c)] - over[From(c)]) IN
       Go(c, IF room > 0
             THEN [pc |-> "claim", ask |-> th[c].ask, over |-> over[From(c)],
                   n |-> Smaller(room, th[c].ask.max)]
             ELSE Then(th[c].ask, 0))
    /\ UNCHANGED <<list, places, tailBlock, index, block, freeList, memory, calls, broken>>

Claim(c) ==
    /\ At(c, "claim")
    /\ opt' = [opt EXCEPT ![From(c)] = @ + th[c].n]
    /\ Go(c, [pc |-> "check", ask |-> th[c].ask, n |-> th[c].n,
              first |-> opt[From(c)] - th[c].over])
    /\ UNCHANGED <<list, tail, head, over, tailBlock, index, block, freeList, memory, calls, broken>>

\* How many of the claimed elements are there.
Actual(c) == Smaller(th[c].n, tail[From(c)] - th[c].first)

NoneThere(n, wanted) == n = 0
SomeMissing(n, wanted) == n < wanted

Check(c) ==
    /\ At(c, "check")
    /\ LET n == IF Actual(c) > 0 THEN Actual(c) ELSE 0 IN
       Go(c, [pc |-> IF SomeMissing(n, th[c].n) THEN "giveBack" ELSE "head",
              ask |-> th[c].ask, n |-> n, back |-> th[c].n - n])
    /\ UNCHANGED <<list, places, tailBlock, index, block, freeList, memory, calls, broken>>

GiveBack(c) ==
    /\ At(c, "giveBack")
    /\ over' = [over EXCEPT ![From(c)] = @ + th[c].back]
    /\ Go(c, IF th[c].n > 0 THEN [th[c] EXCEPT !.pc = "head", !.back = 0]
             ELSE Then(th[c].ask, 0))
    /\ UNCHANGED <<list, tail, head, opt, tailBlock, index, block, freeList, memory, calls, broken>>

TakeHead(c) ==
    /\ At(c, "head")
    /\ head' = [head EXCEPT ![From(c)] = @ + th[c].n]
    /\ Go(c, [pc |-> "find", ask |-> th[c].ask, n |-> th[c].n,
              at |-> head[From(c)], end |-> head[From(c)] + th[c].n])
    /\ UNCHANGED <<list, tail, opt, over, tailBlock, index, block, freeList, memory, calls, broken>>

\* The current block index and its tail are loaded, later the key of its entry there.
Find(c) ==
    /\ At(c, "find")
    /\ Go(c, [pc |-> "entry", ask |-> th[c].ask, n |-> th[c].n, at |-> th[c].at,
              end |-> th[c].end, gen |-> Len(header[From(c)]),
              slot |-> Last(header[From(c)]).tail])
    /\ UNCHANGED <<list, places, tailBlock, index, block, freeList, memory, calls, broken>>

EntryAt(c, slot) == header[From(c)][th[c].gen].slots[slot]

\* The slot of the block, for the first one by the key of the entry at the tail.
Slot(c) ==
    IF At(c, "move") THEN th[c].slot
    ELSE SlotOf(header[From(c)][th[c].gen], th[c].slot, entry[From(c)], BaseOf(th[c].at))

\* The elements claimed of the block at a slot are moved out; set_many_empty tells
\* whether the block is now empty.  The next block of the claim is at the next slot.
Claimed(c) == th[c].at .. Smaller(th[c].end, BaseOf(th[c].at) + BlockSize) - 1

AfterBlock(c) ==
    LET at == BaseOf(th[c].at) + BlockSize IN
    IF at < th[c].end
    THEN [th[c] EXCEPT !.pc = "move", !.at = at,
                       !.slot = (Slot(c) + 1) % header[From(c)][th[c].gen].cap]
    ELSE Then(th[c].ask, th[c].n)

Move(c) ==
    /\ At(c, "entry") \/ At(c, "move")
    /\ LET e == entry[From(c)][EntryAt(c, Slot(c))]
           gone == {i % BlockSize : i \in Claimed(c)}
           done == block[e.value].done + Cardinality(gone)
           right == At(c, "entry") => e.key = BaseOf(th[c].at) /\ e.value # None
       IN /\ broken' = (broken \/ ~right \/ done > BlockSize)
          /\ IF ~right THEN UNCHANGED <<block, th>>
             ELSE /\ block' = [block EXCEPT ![e.value].done = done, ![e.value].cells =
                                  [k \in DOMAIN @ |-> IF k \in gone THEN None ELSE @[k]]]
                  /\ Go(c, IF done = BlockSize
                           THEN [th[c] EXCEPT !.pc = "forget", !.slot = Slot(c)]
                           ELSE AfterBlock(c))
    /\ UNCHANGED <<list, places, tailBlock, index, freeList, memory, calls>>

Forget(c) ==
    /\ At(c, "forget")
    /\ LET i == EntryAt(c, th[c].slot) IN
       /\ entry' = [entry EXCEPT ![From(c)][i].value = None]
       /\ Go(c, [pc |-> "release", node |-> entry[From(c)][i].value, then |-> AfterBlock(c)])
    /\ UNCHANGED <<list, places, tailBlock, header, block, freeList, memory, calls, broken>>

Release(c) ==
    /\ At(c, "release")
    /\ Add(c, th[c].node, th[c].then)
    /\ UNCHANGED <<list, places, tailBlock, index, block, memory, calls, broken>>

Consume(c) ==
    \/ (\E max \in Maxes[c] : Dequeue(c, max)) \/ Test(c) \/ Claim(c) \/ Check(c) \/ GiveBack(c)
    \/ TakeHead(c) \/ Find(c) \/ Move(c) \/ Forget(c) \/ Release(c)

Over ==
    /\ \A t \in Thread : At(t, "idle")
    /\ \A c \in Consumer : calls[c] = Tries[c]

Next ==
    \/ \E p \in Producer : Produce(p)
    \/ \E c \in Consumer : Consume(c)
    \/ \E t \in Thread : FreeListStep(t)
    \/ Over /\ UNCHANGED vars

Spec == Init /\ [][Next]_vars

-----------------------------------------------------------------------------
(* Properties. *)

\* Property: no assert of the header fails: an enqueue does not start a block that is
\* already being dequeued (2479, 2643), a block taken off the free list is not about to be
\* put there (1472), a dequeue finds its index in the block index with a block there
\* (2940, 2945), and no block is emptied of more elements than it has (1587, 1610).
AssertionsHold == ~broken

\* Property: a dequeue that has passed the three counters finds, in the block that the
\* index names, the elements that were enqueued at the places it has claimed: they are
\* written, nobody has taken them and the block is not used for anything else.
TakenRight ==
    \A c \in Consumer : At(c, "entry") \/ At(c, "move") =>
        LET b == entry[From(c)][EntryAt(c, Slot(c))].value IN
        \A i \in Claimed(c) : b # None /\ block[b].cells[i % BlockSize] = <<From(c), i>>

\* The blocks on the free list: freeListHead and what freeListNext leads to from there.
FreeBlocks ==
    LET reach[k \in 0 .. Cardinality(Block)] ==
            IF k = 0 THEN {free}
            ELSE reach[k - 1] \cup {next[b] : b \in reach[k - 1] \cap Block}
    IN reach[Cardinality(Block)] \ {None}

\* The blocks that t is moving, and those that it will give up next.
InHands(t) ==
    CASE th[t].pc \in {"put", "putCas", "putBack", "getDone", "release"} -> {th[t].node}
      [] th[t].pc = "giveUp" -> ToSet(th[t].chain)
      [] OTHER -> {}
Behind(t) ==
    IF "then" \in DOMAIN th[t] /\ th[t].then.pc = "giveUp" THEN ToSet(th[t].then.chain) ELSE {}

\* Where b is.
PlacesOf(b) ==
    {"fresh" : x \in fresh \cap {b}} \cup {"free" : x \in FreeBlocks \cap {b}}
    \cup {"left" : x \in {r \in {refs[b]} : r.should /\ r.n > 0}}
    \cup (UNION {{<<p, i>> : i \in {j \in DOMAIN entry[p] : entry[p][j].value = b}}
                   : p \in Producer})
    \cup {t \in Thread : b \in InHands(t) \cup Behind(t)}

\* Property: a block is always in one place, and so neither lost nor used twice: not
\* yet handed out, on the free list, in an entry of one producer's index, held by the
\* one thread that is moving it, or left to whoever still has a reference to it.
OnePlace == \A b \in Block : Cardinality(PlacesOf(b)) = 1

\* Property: when no consumer is asking a producer, the claims that were given back
\* leave opt - over equal to head, which is not past tail: every element that is left
\* can be claimed, and only those.
Counted ==
    \A p \in Producer :
        (\A c \in Consumer : "ask" \notin DOMAIN th[c] \/ From(c) # p) =>
            opt[p] - over[p] = head[p] /\ head[p] <= tail[p]
=============================================================================
