--------------------------- MODULE ChannelProofs ---------------------------
(***************************************************************************)
(* The channel implements the bounded first-in first-out queue, for any    *)
(* number of threads and items and any max_len, whatever next of a new     *)
(* node may be.                                                            *)
(***************************************************************************)
EXTENDS Channel, SequenceTheorems, TLAPS

\* idx is the number of items from head on, unless head is no node.  An empty list
\* leaves head null or wild, as the next of its last node was.
ChannelInv ==
    /\ log \in Seq(Item)
    /\ idx \in 0 .. Len(log)
    /\ head \in Nat \cup {Wild}
    /\ last \in Fresh \cup {0}
    /\ head = 0 => idx = 0
    /\ head \in Nat \ {0} => head + idx = Len(log) + 1 /\ idx > 0
    /\ left \in [Writer -> 0 .. Load]

\* The last k items of a sequence, and what a push and a pop do to them.
Suffix(s, k) == SubSeq(s, Len(s) - k + 1, Len(s))

LEMMA SuffixType ==
  ASSUME NEW S, NEW s \in Seq(S), NEW k \in 0 .. Len(s)
  PROVE  /\ Suffix(s, k) \in Seq(S) /\ Len(Suffix(s, k)) = k
         /\ \A i \in 1 .. k : Suffix(s, k)[i] = s[Len(s) - k + i]
  <1> DEFINE from == Len(s) - k + 1
  <1>1. from \in 1 .. Len(s) + 1
    OBVIOUS
  <1>2. /\ SubSeq(s, from, Len(s)) \in Seq(S)
        /\ Len(SubSeq(s, from, Len(s))) = k
        /\ \A i \in 1 .. k : SubSeq(s, from, Len(s))[i] = s[from + i - 1]
    BY <1>1, SubSeqProperties
  <1> QED
    BY <1>2 DEF Suffix

LEMMA SuffixPush ==
  ASSUME NEW S, NEW s \in Seq(S), NEW k \in 0 .. Len(s), NEW v \in S
  PROVE  Suffix(Append(s, v), k + 1) = Append(Suffix(s, k), v)
  <1> DEFINE u == Append(s, v)
             r == Suffix(s, k)
             p == Suffix(u, k + 1)
             q == Append(r, v)
  <1>1. /\ u \in Seq(S) /\ Len(u) = Len(s) + 1 /\ u[Len(s) + 1] = v
        /\ \A i \in 1 .. Len(s) : u[i] = s[i]
    OBVIOUS
  <1>2. r \in Seq(S) /\ Len(r) = k /\ \A i \in 1 .. k : r[i] = s[Len(s) - k + i]
    BY SuffixType
  <1> HIDE DEF u, r
  <1>3. k + 1 \in 0 .. Len(u)
    BY <1>1
  <1>4. p \in Seq(S) /\ Len(p) = k + 1 /\ \A i \in 1 .. k + 1 : p[i] = u[Len(u) - (k + 1) + i]
    BY <1>1, <1>3, SuffixType
  <1>5. /\ q \in Seq(S) /\ Len(q) = k + 1 /\ q[k + 1] = v
        /\ \A i \in 1 .. k : q[i] = r[i]
    BY <1>2
  <1> HIDE DEF p, q
  <1>6. ASSUME NEW i \in 1 .. k + 1
        PROVE  p[i] = q[i]
    <2>1. Len(u) - (k + 1) + i = Len(s) - k + i
      BY <1>1
    <2>2. CASE i = k + 1
      BY <1>1, <1>4, <1>5, <2>1, <2>2
    <2>3. CASE i \in 1 .. k
      <3>1. Len(s) - k + i \in 1 .. Len(s)
        BY <2>3
      <3>2. p[i] = u[Len(s) - k + i]
        BY <1>4, <2>1
      <3>3. q[i] = s[Len(s) - k + i]
        BY <1>2, <1>5, <2>3
      <3>4. u[Len(s) - k + i] = s[Len(s) - k + i]
        BY <1>1, <3>1
      <3> QED
        BY <3>2, <3>3, <3>4
    <2> QED
      BY <2>2, <2>3
  <1>7. p = q
    BY <1>4, <1>5, <1>6
  <1> QED
    BY <1>7 DEF p, q, u, r

LEMMA SuffixPop ==
  ASSUME NEW S, NEW s \in Seq(S), NEW k \in 1 .. Len(s)
  PROVE  /\ Suffix(s, k) # << >>
         /\ Head(Suffix(s, k)) = s[Len(s) - k + 1]
         /\ Suffix(s, k - 1) = Tail(Suffix(s, k))
  <1> DEFINE p == Suffix(s, k - 1)
             q == Suffix(s, k)
  <1>1. p \in Seq(S) /\ Len(p) = k - 1 /\ \A i \in 1 .. k - 1 : p[i] = s[Len(s) - (k - 1) + i]
    BY SuffixType
  <1>2. q \in Seq(S) /\ Len(q) = k /\ \A i \in 1 .. k : q[i] = s[Len(s) - k + i]
    BY SuffixType
  <1> HIDE DEF p, q
  <1>3. q # << >> /\ Head(q) = q[1]
    BY <1>2
  <1>4. Tail(q) \in Seq(S) /\ Len(Tail(q)) = k - 1 /\ \A i \in 1 .. k - 1 : Tail(q)[i] = q[i + 1]
    BY <1>2
  <1>5. ASSUME NEW i \in 1 .. k - 1
        PROVE  p[i] = Tail(q)[i]
    <2>1. i + 1 \in 1 .. k /\ Len(s) - k + (i + 1) = Len(s) - (k - 1) + i
      OBVIOUS
    <2> QED
      BY <1>1, <1>2, <1>4, <2>1
  <1>6. p = Tail(q)
    BY <1>1, <1>4, <1>5
  <1> QED
    BY <1>2, <1>3, <1>6 DEF p, q

LEMMA ChannelInit == Init => ChannelInv /\ Fifo!Init
  <1> SUFFICES ASSUME Init PROVE ChannelInv /\ Fifo!Init
    OBVIOUS
  <1>1. ChannelInv
    BY LoadAssumption DEF Init, ChannelInv, Item
  <1>2. Unread = << >>
    BY DEF Init, Unread
  <1> QED
    BY <1>1, <1>2 DEF Fifo!Init, Init

\* A write is a Put, or a thread goes to sleep.
LEMMA WriteStep ==
  ASSUME ChannelInv, NEW t \in Writer, Write(t)
  PROVE  /\ ChannelInv'
         /\ Fifo!Next \/ UNCHANGED Fifo!vars
  <1>1. CASE ~ CanWrite
    BY <1>1 DEF Write, Sleep, list, ChannelInv, Fifo!vars, Unread
  <1>2. CASE CanWrite
    <2> DEFINE item == <<t, left[t]>>
    <2>1. /\ log' = Append(log, item)
          /\ head' = IF head = 0 THEN Len(log) + 1 ELSE head
          /\ last' \in Fresh
          /\ idx' = idx + 1
          /\ left' = [left EXCEPT ![t] = left[t] - 1]
          /\ left[t] > 0
          /\ result' = result
      BY <1>2 DEF Write
    <2>2. item \in Item
      BY <2>1, LoadAssumption DEF ChannelInv, Item
    <2> HIDE DEF item
    <2>3. log' \in Seq(Item) /\ Len(log') = Len(log) + 1 /\ Len(log) \in Nat /\ idx \in Nat
      BY <2>1, <2>2 DEF ChannelInv
    <2>4. left' \in [Writer -> 0 .. Load]
      BY <2>1, LoadAssumption DEF ChannelInv
    <2>5. ChannelInv'
      <3>1. idx' \in 0 .. Len(log')
        BY <2>1, <2>3 DEF ChannelInv
      <3>2. /\ head' \in Nat \cup {Wild}
            /\ head' # 0
            /\ head' \in Nat \ {0} => head' + idx' = Len(log') + 1 /\ idx' > 0
        <4>1. CASE head = 0
          BY <2>1, <2>3, <4>1 DEF ChannelInv
        <4>2. CASE head = Wild
          BY <2>1, <4>2 DEF Wild
        <4>3. CASE head \in Nat \ {0}
          <5>1. head' = head /\ head + idx = Len(log) + 1
            BY <2>1, <4>3 DEF ChannelInv
          <5>2. idx' = idx + 1 /\ Len(log') = Len(log) + 1
            BY <2>1, <2>3
          <5> QED
            BY <2>3, <4>3, <5>1, <5>2
        <4> QED
          BY <4>1, <4>2, <4>3 DEF ChannelInv
      <3> QED
        BY <2>1, <2>3, <2>4, <3>1, <3>2 DEF ChannelInv
    <2>6. Unread' = Append(Unread, item)
      BY <2>1, <2>2, SuffixPush DEF Unread, Suffix, ChannelInv
    <2>7. Len(Unread) < Cap
      BY <1>2, SuffixType, MaxLenAssumption DEF CanWrite, ChannelInv, Cap, Unread, Suffix
    <2>8. Fifo!Put(item)
      BY <2>1, <2>6, <2>7 DEF Fifo!Put
    <2> QED
      BY <2>2, <2>5, <2>8 DEF Fifo!Next
  <1> QED
    BY <1>1, <1>2

\* A read is a Get, or a thread goes to sleep, or the process ends.
LEMMA ReadStep ==
  ASSUME ChannelInv, NEW t \in Reader, Read(t)
  PROVE  /\ ChannelInv'
         /\ Fifo!Next \/ UNCHANGED Fifo!vars
  <1>1. CASE Sleep(t) \/ Fault
    BY <1>1 DEF Sleep, Fault, list, ChannelInv, Fifo!vars, Unread
  <1>2. CASE CanRead /\ head # Wild /\ ~ Sleep(t) /\ ~ Fault
    <2>1. head \in 1 .. Len(log) /\ head + idx = Len(log) + 1
      BY <1>2 DEF CanRead, ChannelInv
    <2>2. /\ result' = Append(result, log[head])
          /\ head' = IF head = Len(log) THEN last ELSE head + 1
          /\ idx' = idx - 1
          /\ log' = log /\ last' = last /\ left' = left
      BY <1>2, <2>1 DEF Read, TakeHead, Taken
    <2>3. ChannelInv'
      <3>1. idx' \in 0 .. Len(log') /\ idx = idx' + 1
        BY <2>1, <2>2 DEF ChannelInv
      <3>2. CASE head = Len(log)
        BY <2>1, <2>2, <3>1, <3>2, FreshAssumption DEF ChannelInv, Wild
      <3>3. CASE head < Len(log)
        <4>1. head' = head + 1 /\ head \in Nat /\ idx \in Nat /\ Len(log) \in Nat
          BY <2>1, <2>2, <3>3 DEF ChannelInv
        <4>2. head' \in Nat \ {0} /\ head' + idx' = Len(log') + 1 /\ idx' > 0
          BY <2>1, <2>2, <3>1, <3>3, <4>1
        <4> QED
          BY <2>2, <3>1, <4>2 DEF ChannelInv
      <3> QED
        BY <2>1, <3>2, <3>3 DEF ChannelInv
    <2>4. Unread # << >> /\ log[head] = Head(Unread) /\ Unread' = Tail(Unread)
      <3>1. idx \in 1 .. Len(log) /\ head = Len(log) - idx + 1
        BY <2>1 DEF ChannelInv
      <3> QED
        BY <2>2, <3>1, SuffixPop DEF ChannelInv, Unread, Suffix
    <2> QED
      BY <2>2, <2>3, <2>4 DEF Fifo!Next, Fifo!Get
  <1> QED
    BY <1>1, <1>2 DEF Read

LEMMA ChannelNext == ChannelInv /\ [Next]_vars => ChannelInv' /\ [Fifo!Next]_(Fifo!vars)
  <1> SUFFICES ASSUME ChannelInv, [Next]_vars
               PROVE  ChannelInv' /\ [Fifo!Next]_(Fifo!vars)
    OBVIOUS
  <1>1. ASSUME NEW t \in Thread, Spurious(t)
        PROVE  ChannelInv' /\ UNCHANGED Fifo!vars
    BY <1>1 DEF Spurious, list, ChannelInv, Fifo!vars, Unread
  <1>2. CASE UNCHANGED vars
    BY <1>2 DEF vars, list, ChannelInv, Fifo!vars, Unread
  <1> QED
    BY <1>1, <1>2, WriteStep, ReadStep DEF Next

\* channel.h:35-80: what << and >> do to head, tail and idx is what a bounded
\* first-in first-out queue does, whoever is waiting and whoever is notified, as long
\* as the process runs: a next that is no address stops it, and disorders nothing.
THEOREM ImplementsFifo == Spec => IsFifo
  <1> QED
    BY ChannelInit, ChannelNext, PTL DEF Spec, IsFifo, Fifo!Spec
=============================================================================
