--------------------------- MODULE ListOpsProofs ---------------------------
(***************************************************************************)
(* What the operations of ListOps do to Content, the elements of a list:   *)
(* they are those of a first-in first-out queue.                           *)
(***************************************************************************)
EXTENDS ListOps, SequenceTheorems, TLAPS

\* The chain is the part of log from head on, and len counts it.
LEMMA ContentType ==
    ASSUME NEW S, NEW l \in ListOf(S)
    PROVE  /\ Content(l) \in Seq(S)
           /\ Len(Content(l)) = ListLen(l)
           /\ l.head = 0 <=> Content(l) = << >>
           /\ \A i \in 1 .. Len(Content(l)) : Content(l)[i] = l.log[l.head + i - 1]
<1>1. CASE l.head = 0
  BY <1>1 DEF Content, ListLen, ListOf
<1>2. CASE l.head # 0
  <2>1. /\ l.log \in Seq(S)
        /\ l.head \in 1 .. Len(l.log)
    BY <1>2 DEF ListOf
  <2>2. \A i \in l.head .. Len(l.log) : l.log[i] \in S
    BY <2>1
  <2>3. /\ Content(l) \in Seq(S)
        /\ Len(Content(l)) = Len(l.log) - l.head + 1
        /\ \A i \in 1 .. Len(l.log) - l.head + 1 : Content(l)[i] = l.log[l.head + i - 1]
    BY <1>2, <2>1, <2>2, SubSeqProperties DEF Content
  <2> QED
    BY <1>2, <2>1, <2>3 DEF ListLen
<1> QED
  BY <1>1, <1>2

\* push adds its argument at the end.
LEMMA PushContent ==
    ASSUME NEW S, NEW l \in ListOf(S), NEW v \in S
    PROVE  /\ ListPush(l, v) \in ListOf(S)
           /\ Content(ListPush(l, v)) = Append(Content(l), v)
<1> DEFINE k == ListPush(l, v)
<1>1. k \in ListOf(S)
  BY DEF ListPush, ListOf
<1>2. Len(Content(k)) = Len(Content(l)) + 1
  <2>1. /\ l.log \in Seq(S) /\ l.head \in 0 .. Len(l.log)
        /\ k.log = Append(l.log, v)
        /\ k.head = IF l.head = 0 THEN Len(l.log) + 1 ELSE l.head
    BY DEF ListPush, ListOf
  <2>2. ListLen(k) = ListLen(l) + 1
    BY <2>1 DEF ListLen
  <2> QED
    BY <1>1, <2>2, ContentType
<1>3. Content(k) \in Seq(S) /\ Content(l) \in Seq(S)
  BY <1>1, ContentType
<1>4. ASSUME NEW i \in 1 .. Len(Content(k))
      PROVE  Content(k)[i] = Append(Content(l), v)[i]
  <2>1. Content(k)[i] = k.log[k.head + i - 1]
    BY <1>1, ContentType
  <2>2. CASE i <= Len(Content(l))
    <3>1. l.head # 0 /\ l.log \in Seq(S) /\ l.head + i - 1 \in 1 .. Len(l.log)
      BY <2>2, ContentType DEF ListLen, ListOf
    <3>2. Content(l)[i] = l.log[l.head + i - 1]
      BY <2>2, ContentType
    <3> QED
      BY <1>3, <2>1, <2>2, <3>1, <3>2 DEF ListPush
  <2>3. CASE i = Len(Content(l)) + 1
    <3>1. k.head + i - 1 = Len(l.log) + 1
      BY <2>3, ContentType DEF ListLen, ListPush, ListOf
    <3> QED
      BY <1>3, <2>1, <2>3, <3>1 DEF ListPush, ListOf
  <2> QED
    BY <1>2, <1>3, <2>2, <2>3
<1>5. Append(Content(l), v) \in Seq(S) /\ Len(Append(Content(l), v)) = Len(Content(k))
  BY <1>2, <1>3
<1> HIDE DEF k
<1>6. Content(k) = Append(Content(l), v)
  BY <1>3, <1>4, <1>5
<1> QED
  BY <1>1, <1>6 DEF k

\* pop hands out the first element and leaves the others.
LEMMA PopContent ==
    ASSUME NEW S, NEW l \in ListOf(S), l.head # 0
    PROVE  /\ ListPop(l) \in ListOf(S)
           /\ Content(l) # << >>
           /\ l.log[l.head] = Head(Content(l))
           /\ l.log[l.head] \in S
           /\ Content(ListPop(l)) = Tail(Content(l))
<1> DEFINE k == StoreHead(l, NextNode(l, l.head))
<1>1. /\ l.log \in Seq(S) /\ l.head \in 1 .. Len(l.log)
      /\ Content(l) \in Seq(S)
      /\ Len(Content(l)) = Len(l.log) - l.head + 1
      /\ Content(l) # << >>
  BY ContentType DEF ListOf, ListLen
<1>2. l.log[l.head] = Head(Content(l)) /\ l.log[l.head] \in S
  <2>1. Content(l)[1] = l.log[l.head + 1 - 1]
    BY <1>1, ContentType
  <2> QED
    BY <1>1, <2>1
<1>3. k \in ListOf(S)
  BY <1>1 DEF NextNode, StoreHead, ListOf
<1>4. /\ Content(k) \in Seq(S)
      /\ Len(Content(k)) = Len(Content(l)) - 1
  <2>1. /\ k.log = l.log
        /\ k.head = IF l.head = Len(l.log) THEN 0 ELSE l.head + 1
    BY <1>1 DEF NextNode, StoreHead, ListOf
  <2>2. ListLen(k) = Len(Content(l)) - 1
    BY <1>1, <2>1 DEF ListLen
  <2> QED
    BY <1>3, <2>2, ContentType
<1>5. ASSUME NEW i \in 1 .. Len(Content(k))
      PROVE  Content(k)[i] = Tail(Content(l))[i]
  <2>1. k.head = l.head + 1 /\ k.log = l.log
    BY <1>1, <1>4, <1>5 DEF NextNode, StoreHead, ListOf
  <2>2. Content(k)[i] = k.log[k.head + i - 1]
    BY <1>3, ContentType
  <2>3. Content(l)[i + 1] = l.log[l.head + (i + 1) - 1]
    <3>1. i + 1 \in 1 .. Len(Content(l))
      BY <1>1, <1>4, <1>5
    <3> QED
      BY <3>1, ContentType
  <2>4. k.head + i - 1 = l.head + (i + 1) - 1
    BY <1>1, <1>4, <2>1
  <2>5. Tail(Content(l))[i] = Content(l)[i + 1]
    BY <1>1, <1>4
  <2> QED
    BY <2>1, <2>2, <2>3, <2>4, <2>5
<1>6. Tail(Content(l)) \in Seq(S) /\ Len(Tail(Content(l))) = Len(Content(k))
  BY <1>1, <1>4
<1>7. ListPop(l) = [log |-> Content(k), head |-> IF k.head = 0 THEN 0 ELSE 1]
  BY DEF ListPop, Compact
<1>8. k.head = 0 <=> Content(k) = << >>
  BY <1>3, ContentType
<1> HIDE DEF k
<1>9. Content(k) = Tail(Content(l))
  BY <1>4, <1>5, <1>6
<1>10. ListPop(l) \in ListOf(S)
  BY <1>4, <1>7, <1>8 DEF ListOf
<1>11. Content(ListPop(l)) = Content(k)
  <2>1. CASE k.head = 0
    BY <1>7, <1>8, <2>1 DEF Content
  <2>2. CASE k.head # 0
    <3>1. /\ ListPop(l).head = 1 /\ ListPop(l).log = Content(k)
      BY <1>7, <2>2
    <3> HIDE DEF ListPop
    <3>2. Content(ListPop(l)) = SubSeq(Content(k), 1, Len(Content(k)))
      BY <3>1 DEF Content
    <3> QED
      BY <1>4, <3>2, SubSeqFull
  <2> QED
    BY <2>1, <2>2
<1> QED
  BY <1>1, <1>2, <1>9, <1>10, <1>11

\* What is on a list is of the list's type.
LEMMA ElementsType ==
    ASSUME NEW S, NEW l \in ListOf(S)
    PROVE  Elements(l) \subseteq S
BY ContentType DEF Elements

\* A push adds its argument to the elements, and a new one keeps them distinct.
LEMMA PushElements ==
    ASSUME NEW S, NEW l \in ListOf(S), NEW v \in S
    PROVE  /\ Elements(ListPush(l, v)) = Elements(l) \cup {v}
           /\ Distinct(l) /\ v \notin Elements(l) => Distinct(ListPush(l, v))
<1> DEFINE c == Content(l)
<1>1. c \in Seq(S) /\ Content(ListPush(l, v)) = Append(c, v)
  BY ContentType, PushContent
<1> HIDE DEF c
<1>2. /\ Len(Append(c, v)) = Len(c) + 1
      /\ \A i \in 1 .. Len(c) : Append(c, v)[i] = c[i]
      /\ Append(c, v)[Len(c) + 1] = v
      /\ Len(c) \in Nat
  BY <1>1
<1>3. 1 .. Len(c) + 1 = (1 .. Len(c)) \cup {Len(c) + 1}
  BY <1>2
<1>4. Elements(ListPush(l, v)) = {Append(c, v)[i] : i \in 1 .. Len(Append(c, v))}
  BY <1>1 DEF Elements
<1>5. Elements(l) = {c[i] : i \in 1 .. Len(c)}
  BY DEF c, Elements
<1>6. Elements(ListPush(l, v)) = Elements(l) \cup {v}
  BY <1>2, <1>3, <1>4, <1>5
<1>7. ASSUME Distinct(l), v \notin Elements(l)
      PROVE  Distinct(ListPush(l, v))
  <2>1. \A i, j \in 1 .. Len(c) : c[i] = c[j] => i = j
    BY <1>7 DEF Distinct, c
  <2>2. \A i \in 1 .. Len(c) : c[i] # v
    BY <1>5, <1>7
  <2> SUFFICES ASSUME NEW i \in 1 .. Len(c) + 1, NEW j \in 1 .. Len(c) + 1,
                      Append(c, v)[i] = Append(c, v)[j]
               PROVE  i = j
    BY <1>1, <1>2 DEF Distinct
  <2> QED
    BY <1>2, <1>3, <2>1, <2>2
<1> QED
  BY <1>6, <1>7

\* A pop takes the element it hands out, and no other, off a list of distinct
\* elements.
LEMMA PopElements ==
    ASSUME NEW S, NEW l \in ListOf(S), l.head # 0, Distinct(l)
    PROVE  /\ l.log[l.head] \in Elements(l)
           /\ Elements(ListPop(l)) = Elements(l) \ {l.log[l.head]}
           /\ Distinct(ListPop(l))
<1> DEFINE c == Content(l)
           v == l.log[l.head]
<1>1. c \in Seq(S) /\ c # << >> /\ v = Head(c) /\ Content(ListPop(l)) = Tail(c)
  BY ContentType, PopContent
<1>2. \A i, j \in 1 .. Len(c) : c[i] = c[j] => i = j
  BY DEF Distinct
<1>3. Elements(l) = {c[i] : i \in 1 .. Len(c)}
  BY DEF Elements
<1> HIDE DEF c, v
<1>4. /\ Len(c) \in Nat \ {0} /\ v = c[1]
      /\ Len(Tail(c)) = Len(c) - 1
      /\ \A i \in 1 .. Len(c) - 1 : Tail(c)[i] = c[i + 1]
  BY <1>1
<1>5. Elements(ListPop(l)) = {Tail(c)[i] : i \in 1 .. Len(Tail(c))}
  BY <1>1 DEF Elements
<1>6. v \in Elements(l)
  BY <1>3, <1>4
<1>7. ASSUME NEW x PROVE x \in Elements(ListPop(l)) <=> x \in Elements(l) /\ x # v
  <2>1. ASSUME NEW i \in 1 .. Len(c) - 1, x = c[i + 1]
        PROVE  x \in Elements(l) /\ x # v
    <3>1. i + 1 \in 1 .. Len(c) /\ i + 1 # 1 /\ 1 \in 1 .. Len(c)
      BY <1>4
    <3> QED
      BY <1>2, <1>3, <1>4, <2>1, <3>1
  <2>2. ASSUME NEW j \in 1 .. Len(c), x = c[j], x # v
        PROVE  x \in Elements(ListPop(l))
    <3>1. j - 1 \in 1 .. Len(c) - 1 /\ (j - 1) + 1 = j
      BY <1>4, <2>2
    <3>2. Tail(c)[j - 1] = x
      BY <1>4, <2>2, <3>1
    <3> QED
      BY <1>4, <1>5, <3>1, <3>2
  <2> QED
    BY <1>3, <1>4, <1>5, <2>1, <2>2
<1>8. Distinct(ListPop(l))
  <2> SUFFICES ASSUME NEW i \in 1 .. Len(c) - 1, NEW j \in 1 .. Len(c) - 1,
                      Tail(c)[i] = Tail(c)[j]
               PROVE  i = j
    BY <1>1, <1>4 DEF Distinct
  <2>1. i + 1 \in 1 .. Len(c) /\ j + 1 \in 1 .. Len(c) /\ c[i + 1] = c[j + 1]
    BY <1>4
  <2>2. i + 1 = j + 1
    BY <1>2, <2>1
  <2> QED
    BY <2>2
<1> QED
  BY <1>6, <1>7, <1>8 DEF v
=============================================================================
