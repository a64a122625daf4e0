-------------------------- MODULE QueueIndexProofs --------------------------
(***************************************************************************)
(* The steps of the queue of concurrentqueue.h that write a block index or *)
(* a block keep IInv, the invariant of QueueProofs: new_block_index,       *)
(* insert_block_index_entry, requisition_block, the construction of the    *)
(* elements, the rewind of a failed call, the claim of a dequeue and what  *)
(* it takes out.  So IInv holds in every state, and with it what           *)
(* ConcurrentQueue promises.                                               *)
(***************************************************************************)
EXTENDS QueueProofs

-----------------------------------------------------------------------------
(* new_block_index (concurrentqueue.h:2949-2991): the new index names the blocks *)
(* that the old one named, by the same entries.                               *)

\* The new index has the old slots from the oldest on, so it names block k as the old one
\* did, or by a slot that the old one did not have.
LEMMA GrownNamed ==
    ASSUME NEW old \in Index, NEW new, NEW f \in Int, NEW top \in Int, NEW k \in Int,
           new.cap = 2 * old.cap, old.tail = (f + top) % old.cap,
           new.slots = [i \in 0 .. 2 * old.cap - 1 |->
                           IF i < old.cap THEN old.slots[(old.tail + 1 + i) % old.cap] ELSE i + 1]
    PROVE  /\ \/ Named(new, old.cap - 1 - top, k) = Named(old, f, k)
              \/ Named(new, old.cap - 1 - top, k) > old.cap
           /\ k <= top /\ top - k < old.cap => Named(new, old.cap - 1 - top, k) = Named(old, f, k)
<1>1. PICK n \in Nat \ {0} : n = old.cap
  BY IndexFields
<1>2. PICK a \in Int : a = n - 1 - top + k
  OBVIOUS
<1>3. PICK j \in 0 .. 2 * n - 1 : j = a % (2 * n)
  <2>1. 2 * n \in Nat \ {0}
    OBVIOUS
  <2> QED
    BY <2>1, ModRange
<1>4. Named(new, n - 1 - top, k) = new.slots[j]
  BY <1>1, <1>2, <1>3 DEF Named
<1>5. j < n => new.slots[j] = Named(old, f, k)
  <2>1. (old.tail + 1 + j) % n = (f + k) % n
    <3>1. PICK b \in Int : b = f + top + 1
      OBVIOUS
    <3>2. ((a % (2 * n)) + b) % n = (a + b) % n
      BY ModTwice
    <3>3. (((f + top) % n) + (1 + j)) % n = (f + top + (1 + j)) % n
      <4>1. PICK c \in Int : c = f + top
        OBVIOUS
      <4>2. PICK d \in Int : d = 1 + j
        OBVIOUS
      <4>3. ((c % n) + d) % n = (c + d) % n
        BY ModAdd
      <4> QED
        BY <4>1, <4>2, <4>3
    <3>4. old.tail = (f + top) % n /\ old.tail \in Int
      BY <1>1, IndexFields
    <3>5. (old.tail + 1 + j) % n = (a + b) % n
      <4>1. old.tail + 1 + j = ((f + top) % n) + (1 + j)
        BY <3>4
      <4>2. f + top + (1 + j) = (a % (2 * n)) + b
        BY <1>3, <3>1
      <4> QED
        BY <3>2, <3>3, <4>1, <4>2
    <3>6. a + b = n + (f + k)
      BY <1>2, <3>1
    <3>7. ((n % n) + (f + k)) % n = (n + (f + k)) % n
      <4>1. PICK c \in Int : c = f + k
        OBVIOUS
      <4>2. PICK e \in Int : e = n
        OBVIOUS
      <4>3. ((e % n) + c) % n = (e + c) % n
        BY ModAdd
      <4> QED
        BY <4>1, <4>2, <4>3
    <3>8. n % n = 0
      BY ModSmall
    <3>9. (0 + (f + k)) % n = (n + (f + k)) % n
      BY <3>7, <3>8
    <3>10. 0 + (f + k) = f + k
      OBVIOUS
    <3> QED
      BY <3>5, <3>6, <3>9, <3>10
  <2> QED
    BY <1>1, <2>1 DEF Named
<1>6. j >= n => new.slots[j] > n
  BY <1>1
<1>7. k <= top /\ top - k < n => j = a /\ j < n
  <2>1. 2 * n \in Nat \ {0}
    OBVIOUS
  <2>2. k <= top /\ top - k < n => a \in 0 .. 2 * n - 1 /\ a < n
    BY <1>2
  <2> QED
    BY <1>3, <2>1, <2>2, ModSmall
<1>8. Named(new, n - 1 - top, k) = Named(old, f, k) \/ Named(new, n - 1 - top, k) > n
  BY <1>4, <1>5, <1>6
<1>9. k <= top /\ top - k < n => Named(new, n - 1 - top, k) = Named(old, f, k)
  BY <1>4, <1>5, <1>7
<1> QED
  BY <1>1, <1>8, <1>9

LEMMA GrownIndex ==
    ASSUME NEW hs \in Seq(Index)
    PROVE  /\ Grown(hs) \in Index
           /\ (hs # <<>> => Injective(Last(hs).slots)) => Injective(Grown(hs).slots)
           /\ hs = <<>> => /\ Grown(hs).cap = IndexSize /\ Grown(hs).tail = IndexSize - 1
           /\ hs # <<>> => /\ Last(hs) \in Index
                           /\ Grown(hs).cap = 2 * Last(hs).cap /\ Grown(hs).tail = Last(hs).cap - 1
                           /\ Grown(hs).slots =
                                [i \in 0 .. 2 * Last(hs).cap - 1 |->
                                    IF i < Last(hs).cap
                                    THEN Last(hs).slots[(Last(hs).tail + 1 + i) % Last(hs).cap] ELSE i + 1]
<1>1. CASE hs = <<>>
  <2>1. PICK g : g = Grown(hs)
    OBVIOUS
  <2>2. g = [cap |-> IndexSize, tail |-> IndexSize - 1, slots |-> [i \in 0 .. IndexSize - 1 |-> i + 1]]
    BY <1>1, <2>1 DEF Grown
  <2>3. IndexSize \in Nat \ {0}
    BY Sizes
  <2>4. [i \in 0 .. IndexSize - 1 |-> i + 1] \in [0 .. IndexSize - 1 -> 1 .. IndexSize]
    BY <2>3
  <2>5. g \in [cap : {IndexSize}, tail : 0 .. IndexSize - 1, slots : [0 .. IndexSize - 1 -> 1 .. IndexSize]]
    BY <2>2, <2>3, <2>4
  <2>6. g \in Index
    BY <2>3, <2>5 DEF Index
  <2>7. Injective(g.slots)
    BY <2>2, <2>3 DEF Injective
  <2> QED
    BY <1>1, <2>1, <2>2, <2>6, <2>7
<1>2. CASE hs # <<>>
  <2>1. PICK old : old = Last(hs)
    OBVIOUS
  <2>2. old \in Index
    <3>1. Len(hs) \in Nat \ {0} /\ Last(hs) = hs[Len(hs)]
      BY <1>2, LenProperties, EmptySeq DEF Last
    <3> QED
      BY <2>1, <3>1, ElementOfSeq
  <2>3. PICK n \in Nat \ {0} : n = old.cap
    BY <2>2, IndexFields
  <2>4. old.tail \in 0 .. n - 1 /\ old.slots \in [0 .. n - 1 -> 1 .. n]
    BY <2>2, <2>3, IndexFields
  <2>5. PICK s : s = [i \in 0 .. 2 * n - 1 |-> IF i < n THEN old.slots[(old.tail + 1 + i) % n] ELSE i + 1]
    OBVIOUS
  <2>6. PICK g : g = Grown(hs)
    OBVIOUS
  <2>7. g = [cap |-> 2 * n, tail |-> n - 1, slots |-> s]
    BY <1>2, <2>1, <2>3, <2>5, <2>6 DEF Grown
  <2>8. \A i \in 0 .. n - 1 : /\ (old.tail + 1 + i) % n \in 0 .. n - 1
                              /\ s[i] = old.slots[(old.tail + 1 + i) % n] /\ s[i] \in 1 .. n
    <3> SUFFICES ASSUME NEW i \in 0 .. n - 1
                 PROVE  /\ (old.tail + 1 + i) % n \in 0 .. n - 1
                        /\ s[i] = old.slots[(old.tail + 1 + i) % n] /\ s[i] \in 1 .. n
      OBVIOUS
    <3>1. old.tail + 1 + i \in Int
      BY <2>4
    <3>2. (old.tail + 1 + i) % n \in 0 .. n - 1
      BY <3>1, ModRange
    <3>3. i \in 0 .. 2 * n - 1 /\ i < n
      OBVIOUS
    <3>4. s[i] = old.slots[(old.tail + 1 + i) % n]
      BY <2>5, <3>3
    <3> QED
      BY <2>4, <3>2, <3>4
  <2>9. \A i \in n .. 2 * n - 1 : s[i] = i + 1
    BY <2>5
  <2>10. s \in [0 .. 2 * n - 1 -> 1 .. 2 * n]
    <3>1. \A i \in 0 .. 2 * n - 1 : s[i] \in 1 .. 2 * n
      <4>1. \A i \in 0 .. 2 * n - 1 : i \in 0 .. n - 1 \/ i \in n .. 2 * n - 1
        OBVIOUS
      <4>2. \A x \in 1 .. n : x \in 1 .. 2 * n
        OBVIOUS
      <4>3. \A i \in n .. 2 * n - 1 : i + 1 \in 1 .. 2 * n
        OBVIOUS
      <4> QED
        BY <2>8, <2>9, <4>1, <4>2, <4>3
    <3> QED
      BY <2>5, <3>1
  <2>11. g \in Index
    BY <2>7, <2>10 DEF Index
  <2>12. ASSUME Injective(old.slots) PROVE Injective(s)
    <3>1. DOMAIN s = 0 .. 2 * n - 1 /\ DOMAIN old.slots = 0 .. n - 1
      BY <2>4, <2>5
    <3>2. ASSUME NEW i \in 0 .. n - 1, NEW j \in 0 .. n - 1, s[i] = s[j] PROVE i = j
      <4>1. (old.tail + 1 + i) % n = (old.tail + 1 + j) % n
        BY <2>8, <2>12, <3>1, <3>2 DEF Injective
      <4>2. old.tail + 1 + i \in Int /\ old.tail + 1 + j \in Int
            /\ (old.tail + 1 + i) - (old.tail + 1 + j) < n /\ (old.tail + 1 + j) - (old.tail + 1 + i) < n
        <5>1. PICK x \in 0 .. n - 1 : x = old.tail
          BY <2>4
        <5>2. x \in Int /\ i \in Int /\ j \in Int /\ i - j < n /\ j - i < n
          OBVIOUS
        <5>3. x + 1 + i \in Int /\ x + 1 + j \in Int
              /\ (x + 1 + i) - (x + 1 + j) < n /\ (x + 1 + j) - (x + 1 + i) < n
          BY <5>2
        <5> QED
          BY <5>1, <5>3
      <4>3. old.tail + 1 + i = old.tail + 1 + j
        BY <4>1, <4>2, ModClose
      <4> QED
        BY <2>4, <4>3
    <3>3. ASSUME NEW i \in 0 .. 2 * n - 1, NEW j \in 0 .. 2 * n - 1, s[i] = s[j] PROVE i = j
      <4>1. CASE i < n /\ j < n
        BY <3>2, <3>3, <4>1
      <4>2. CASE ~ (i < n /\ j < n)
        <5>1. i \in 0 .. n - 1 \/ i \in n .. 2 * n - 1
          OBVIOUS
        <5>2. j \in 0 .. n - 1 \/ j \in n .. 2 * n - 1
          OBVIOUS
        <5>3. i \in 0 .. n - 1 => s[i] \in 1 .. n
          BY <2>8
        <5>4. j \in 0 .. n - 1 => s[j] \in 1 .. n
          BY <2>8
        <5> QED
          BY <2>9, <3>3, <4>2, <5>1, <5>2, <5>3, <5>4
      <4> QED
        BY <4>1, <4>2
    <3> QED
      BY <3>1, <3>3 DEF Injective
  <2> QED
    BY <1>2, <2>1, <2>2, <2>3, <2>5, <2>6, <2>7, <2>11, <2>12
<1> QED
  BY <1>1, <1>2

-----------------------------------------------------------------------------
(* The entries after new_block_index: the old ones, and free ones.          *)

LEMMA GrowEntries ==
    ASSUME Types, NEW p \in Producer, NewIndex(p)
    PROVE  LET m == Len(entry[p])
               x == IF header[p] = <<>> THEN IndexSize ELSE Last(header[p]).cap
           IN /\ header'[p] = Append(header[p], Grown(header[p]))
              /\ Gens(p)' = Gens(p) + 1 /\ header'[p][Gens(p) + 1] = Grown(header[p])
              /\ \A g \in 1 .. Gens(p) : header'[p][g] = header[p][g]
              /\ m \in Nat /\ x \in Nat \ {0} /\ DOMAIN entry[p] = 1 .. m
              /\ Len(entry'[p]) = m + x /\ DOMAIN entry'[p] = 1 .. m + x
              /\ \A i \in 1 .. m : entry'[p][i] = entry[p][i]
              /\ \A i \in m + 1 .. m + x : entry'[p][i] = NoEntry
              /\ header' \in [Producer -> Seq(Index)] /\ entry' \in [Producer -> Seq(EntryType)]
              /\ \A q \in Producer : q # p => header'[q] = header[q] /\ entry'[q] = entry[q]
<1>1. /\ header \in [Producer -> Seq(Index)] /\ entry \in [Producer -> Seq(EntryType)]
      /\ header[p] \in Seq(Index) /\ entry[p] \in Seq(EntryType)
  BY Typed DEF IndexTyped
<1>2. PICK new \in Index : new = Grown(header[p])
  BY <1>1, GrownIndex
<1>3. header' = [header EXCEPT ![p] = Append(header[p], new)]
      /\ entry' = [entry EXCEPT ![p] = entry[p] \o NewEntries(header[p])]
  BY <1>2 DEF NewIndex
<1>4. header'[p] = Append(header[p], new) /\ entry'[p] = entry[p] \o NewEntries(header[p])
      /\ \A q \in Producer : q # p => header'[q] = header[q] /\ entry'[q] = entry[q]
  BY <1>1, <1>3
<1>5. PICK hs \in Seq(Index) : hs = header[p]
  BY <1>1
<1>6. /\ Append(hs, new) \in Seq(Index) /\ Len(Append(hs, new)) = Len(hs) + 1
      /\ \A g \in 1 .. Len(hs) : Append(hs, new)[g] = hs[g]
      /\ Append(hs, new)[Len(hs) + 1] = new
  BY AppendProperties
<1>7. PICK x \in Nat \ {0} : x = IF header[p] = <<>> THEN IndexSize ELSE Last(header[p]).cap
  <2>1. header[p] # <<>> => Last(header[p]) \in Index
    BY <1>1, GrownIndex
  <2> QED
    BY <2>1, IndexFields, Sizes
<1>8. NewEntries(header[p]) = [i \in 1 .. x |-> NoEntry]
  BY <1>7 DEF NewEntries
<1>9. PICK ns : ns = [i \in 1 .. x |-> NoEntry]
  OBVIOUS
<1>10. NoEntry \in EntryType
  BY DEF NoEntry, EntryType, Link
<1>11. ns \in Seq(EntryType) /\ Len(ns) = x /\ \A i \in 1 .. x : ns[i] = NoEntry
  <2>1. ns \in [1 .. x -> EntryType]
    BY <1>9, <1>10
  <2>2. ns \in Seq(EntryType)
    BY <2>1, SeqDef
  <2> QED
    BY <1>9, <2>1, <2>2, LenProperties
<1>12. PICK es \in Seq(EntryType) : es = entry[p]
  BY <1>1
<1>13. /\ es \o ns \in Seq(EntryType) /\ Len(es \o ns) = Len(es) + Len(ns)
       /\ \A i \in 1 .. Len(es) + Len(ns) :
             (es \o ns)[i] = IF i <= Len(es) THEN es[i] ELSE ns[i - Len(es)]
  BY <1>11, ConcatProperties
<1>14. Len(es) \in Nat /\ DOMAIN es = 1 .. Len(es)
  BY LenProperties
<1>15. DOMAIN (es \o ns) = 1 .. Len(es) + x
  BY <1>11, <1>13, LenProperties
<1>16. \A i \in 1 .. Len(es) : (es \o ns)[i] = es[i]
  BY <1>11, <1>13, <1>14
<1>17. \A i \in Len(es) + 1 .. Len(es) + x : (es \o ns)[i] = NoEntry
  <2> SUFFICES ASSUME NEW i \in Len(es) + 1 .. Len(es) + x PROVE (es \o ns)[i] = NoEntry
    OBVIOUS
  <2>1. i \in 1 .. Len(es) + Len(ns) /\ ~ i <= Len(es) /\ i - Len(es) \in 1 .. x
    BY <1>11, <1>14
  <2> QED
    BY <1>11, <1>13, <2>1
<1>18. entry'[p] = es \o ns
  BY <1>4, <1>8, <1>9, <1>12
<1>19. header' \in [Producer -> Seq(Index)] /\ entry' \in [Producer -> Seq(EntryType)]
  <2>1. header'[p] \in Seq(Index) /\ entry'[p] \in Seq(EntryType)
    BY <1>4, <1>5, <1>6, <1>13, <1>18
  <2> QED
    BY <1>1, <1>3, <1>4, <2>1
<1>20. Gens(p)' = Gens(p) + 1 /\ header'[p][Gens(p) + 1] = new
       /\ \A g \in 1 .. Gens(p) : header'[p][g] = header[p][g]
  BY <1>4, <1>5, <1>6 DEF Gens
<1>21. /\ Len(entry'[p]) = Len(es) + x /\ DOMAIN entry'[p] = 1 .. Len(es) + x
       /\ \A i \in 1 .. Len(es) : entry'[p][i] = es[i]
       /\ \A i \in Len(es) + 1 .. Len(es) + x : entry'[p][i] = NoEntry
  BY <1>11, <1>13, <1>15, <1>16, <1>17, <1>18
<1> QED
  BY <1>2, <1>4, <1>7, <1>12, <1>14, <1>19, <1>20, <1>21

LEMMA GrowUsed ==
    ASSUME Types, NEW p \in Producer, NewIndex(p)
    PROVE  /\ \A k, i : Used(p, k, i)' <=> Used(p, k, i)
           /\ \A b \in Block : \A i : Indexed(b, p, i)' <=> Indexed(b, p, i)
           /\ \A k, i : Used(p, k, i) => entry'[p][i] = entry[p][i]
<1>1. PICK m \in Nat, x \in Nat \ {0} :
        /\ DOMAIN entry[p] = 1 .. m /\ DOMAIN entry'[p] = 1 .. m + x
        /\ \A i \in 1 .. m : entry'[p][i] = entry[p][i]
        /\ \A i \in m + 1 .. m + x : entry'[p][i] = NoEntry
  <2>1. PICK m : m = Len(entry[p])
    OBVIOUS
  <2>2. PICK x : x = IF header[p] = <<>> THEN IndexSize ELSE Last(header[p]).cap
    OBVIOUS
  <2>3. /\ m \in Nat /\ x \in Nat \ {0}
        /\ DOMAIN entry[p] = 1 .. m /\ DOMAIN entry'[p] = 1 .. m + x
        /\ \A i \in 1 .. m : entry'[p][i] = entry[p][i]
        /\ \A i \in m + 1 .. m + x : entry'[p][i] = NoEntry
    BY <2>1, <2>2, GrowEntries
  <2> QED
    BY <2>3
<1>2. \A i : i \in 1 .. m + x <=> i \in 1 .. m \/ i \in m + 1 .. m + x
  BY <1>1
<1>3. NoEntry.value = None /\ None \notin Block
  BY RolesDiffer DEF NoEntry
<1>4. \A k, i : Used(p, k, i)' <=> Used(p, k, i)
  BY <1>1, <1>2, <1>3 DEF Used
<1>5. \A b \in Block : \A i : Indexed(b, p, i)' <=> Indexed(b, p, i)
  BY <1>1, <1>2, <1>3 DEF Indexed
<1>6. \A k, i : Used(p, k, i) => entry'[p][i] = entry[p][i]
  BY <1>1 DEF Used
<1> QED
  BY <1>4, <1>5, <1>6

-----------------------------------------------------------------------------
(* The phase of the new index.                                              *)

LEMMA StillNames ==
    ASSUME NEW p, th'[p] = th[p], tail'[p] = tail[p]
    PROVE  /\ Local(p)' = Local(p) /\ Chain(p)' = Chain(p) /\ Tried(p)' = Tried(p)
           /\ Written(p)' = Written(p) /\ Known(p)' = Known(p) /\ Top(p)' = Top(p)
<1>1. Local(p)' = Local(p)
  BY DEF Local
<1>2. Chain(p)' = Chain(p) /\ Tried(p)' = Tried(p) /\ Written(p)' = Written(p)
  BY <1>1 DEF Chain, Tried, Written, At
<1>3. Known(p)' = Known(p)
  BY <1>2 DEF Known, Num
<1> QED
  BY <1>1, <1>2, <1>3 DEF Top

\* In a grown index the blocks have the entries they had.
LEMMA GrowNow ==
    ASSUME CountTypes, Types, NEW p \in Producer, NEW ph \in Phases(p), Chained(p, ph),
           NewIndex(p), UNCHANGED th, UNCHANGED tail
    PROVE  \E ph2 \in Phases(p)' :
              /\ \A g \in 1 .. Gens(p) : ph2[g] = ph[g]
              /\ Gens(p) # 0 => \A k \in Int : \/ Now(p, ph2, k)' = Now(p, ph, k)
                                               \/ Now(p, ph2, k)' > Cap(p) /\ ~ (k <= Top(p) /\ Top(p) - k < Cap(p))
              /\ Chained(p, ph2)' /\ (Gens(p) # 0 => Cap(p)' = 2 * Cap(p))
<1>1. PICK n \in Nat : n = Gens(p)
  BY HeaderFields
<1>2. PICK new : new = Grown(header[p])
  OBVIOUS
<1>3. /\ Gens(p)' = n + 1 /\ header'[p][n + 1] = new /\ \A g \in 1 .. n : header'[p][g] = header[p][g]
  BY <1>1, <1>2, GrowEntries
<1>4. PICK top \in Int : top = Top(p)
  BY NumTypes
<1>5. Top(p)' = top
  BY <1>4, StillNames
<1>6. header[p] \in Seq(Index) /\ (\A g \in 1 .. n : header[p][g] \in Index)
      /\ (n # 0 => header[p] # <<>> /\ Last(header[p]) = header[p][n]) /\ (n = 0 => header[p] = <<>>)
  BY <1>1, HeaderFields
<1>7. PICK f2 \in Int : f2 = (IF n = 0 THEN IndexSize ELSE header[p][n].cap) - 1 - top
  <2>1. n # 0 => header[p][n].cap \in Nat
    BY <1>6, IndexFields
  <2>2. (IF n = 0 THEN IndexSize ELSE header[p][n].cap) \in Int
    BY <2>1, Sizes
  <2> QED
    BY <2>2
<1>8. PICK ph2 : ph2 = [g \in 1 .. n + 1 |-> IF g <= n THEN ph[g] ELSE f2]
  OBVIOUS
<1>9. /\ ph2 \in [1 .. n + 1 -> Int] /\ ph2[n + 1] = f2 /\ \A g \in 1 .. n : ph2[g] = ph[g]
      /\ ph2 \in Phases(p)'
  <2>1. \A g \in 1 .. n : ph[g] \in Int
    BY <1>1 DEF Phases
  <2>2. ph2 \in [1 .. n + 1 -> Int]
    BY <1>8, <2>1
  <2> QED
    BY <1>3, <1>8, <2>2 DEF Phases
<1>10. \A k : Now(p, ph2, k)' = Named(new, f2, k)
  BY <1>3, <1>9 DEF Now, Named
<1>11. new \in Index
  BY <1>2, <1>6, GrownIndex
<1>15. n = 0 => new.cap = IndexSize /\ new.tail = IndexSize - 1 /\ IndexSize \in Nat \ {0}
  <2>1. header[p] = <<>> => Grown(header[p]).cap = IndexSize /\ Grown(header[p]).tail = IndexSize - 1
    BY <1>6, GrownIndex
  <2> QED
    BY <1>2, <1>6, <2>1, Sizes
<1>12. ASSUME n # 0
       PROVE  /\ \A k \in Int : \/ Named(new, f2, k) = Now(p, ph, k)
                                \/ Named(new, f2, k) > Cap(p) /\ ~ (k <= top /\ top - k < Cap(p))
              /\ new.cap = 2 * Cap(p) /\ new.tail = Cap(p) - 1 /\ Cap(p) \in Nat \ {0}
  <2>1. PICK old : old = header[p][n]
    OBVIOUS
  <2>2. old \in Index /\ old.cap = Cap(p) /\ f2 = old.cap - 1 - top /\ ph[n] \in Int /\ old = Last(header[p])
        /\ header[p] # <<>> /\ n \in 1 .. n
    BY <1>1, <1>6, <1>7, <1>12, <2>1 DEF Cap, Phases
  <2>3. old.tail = (ph[n] + top) % old.cap
    BY <1>1, <1>4, <1>12, <2>1 DEF Chained
  <2>4. /\ new.cap = 2 * old.cap /\ new.tail = old.cap - 1
        /\ new.slots = [i \in 0 .. 2 * old.cap - 1 |->
                           IF i < old.cap THEN old.slots[(old.tail + 1 + i) % old.cap] ELSE i + 1]
    BY <1>2, <1>6, <2>2, GrownIndex
  <2>5. ASSUME NEW k \in Int
        PROVE  \/ Named(new, f2, k) = Now(p, ph, k)
               \/ Named(new, f2, k) > Cap(p) /\ ~ (k <= top /\ top - k < Cap(p))
    <3>1. Now(p, ph, k) = Named(old, ph[n], k)
      BY <1>1, <2>1 DEF Now
    <3>2. PICK f \in Int : f = ph[n]
      BY <2>2
    <3>3. old.tail = (f + top) % old.cap
      BY <2>3, <3>2
    <3>4. /\ \/ Named(new, old.cap - 1 - top, k) = Named(old, f, k)
             \/ Named(new, old.cap - 1 - top, k) > old.cap
          /\ k <= top /\ top - k < old.cap => Named(new, old.cap - 1 - top, k) = Named(old, f, k)
      <4>1. old \in Index /\ f \in Int /\ top \in Int /\ k \in Int
        BY <2>2, <3>2
      <4> QED
        BY <4>1, <2>4, <3>3, GrownNamed
    <3> QED
      BY <2>2, <3>1, <3>2, <3>4
  <2> QED
    BY <2>2, <2>4, <2>5, IndexFields
<1>13. Chained(p, ph2)'
  <2>1. Injective(new.slots)
    <3>1. n # 0 => Injective(header[p][n].slots)
      BY <1>1 DEF Chained
    <3> QED
      BY <1>2, <1>6, <3>1, GrownIndex
  <2>2. \A g \in 1 .. n : header[p][g].cap <= new.cap /\ header[p][g].cap \in Nat
                          /\ (n # 0 => header[p][g].cap <= Cap(p))
    <3> SUFFICES ASSUME NEW g \in 1 .. n PROVE header[p][g].cap <= new.cap /\ header[p][g].cap \in Nat
                          /\ (n # 0 => header[p][g].cap <= Cap(p))
      OBVIOUS
    <3>1. n # 0 /\ header[p][g].cap <= Cap(p)
      BY <1>1 DEF Chained, Cap
    <3>2. header[p][g].cap \in Nat
      BY <1>6, IndexFields
    <3> QED
      BY <1>12, <3>1, <3>2
  <2>3. ASSUME NEW g \in 1 .. n + 1, NEW k \in Nat
        PROVE  \/ Named(new, f2, k) = Named(header'[p][g], ph2[g], k)
               \/ Named(new, f2, k) > header'[p][g].cap
    <3>1. CASE g = n + 1
      BY <1>3, <1>9, <3>1
    <3>2. CASE g \in 1 .. n
      <4>1. n # 0 /\ header'[p][g] = header[p][g] /\ ph2[g] = ph[g]
        BY <1>3, <1>9, <3>2
      <4>2. Now(p, ph, k) = Named(header[p][g], ph[g], k) \/ Now(p, ph, k) > header[p][g].cap
        BY <1>1, <3>2, <4>1 DEF Chained
      <4>3. Named(new, f2, k) = Now(p, ph, k) \/ Named(new, f2, k) > Cap(p)
        BY <1>12, <4>1
      <4>4. Named(new, f2, k) \in Int
        BY <1>11, NamedIn
      <4>5. Cap(p) \in Int /\ header[p][g].cap \in Int /\ header[p][g].cap <= Cap(p)
        BY <1>12, <2>2, <3>2, <4>1
      <4> QED
        BY <4>1, <4>2, <4>3, <4>4, <4>5
    <3> QED
      BY <3>1, <3>2
  <2>4. new.tail = (f2 + top) % new.cap
    <3>1. PICK c \in Nat \ {0} : c = new.cap
      BY <1>11, IndexFields
    <3>2. PICK d \in Nat \ {0} : d = IF n = 0 THEN IndexSize ELSE Cap(p)
      BY <1>12, Sizes
    <3>3. new.tail = d - 1 /\ d <= c
      BY <1>12, <1>15, <3>1, <3>2
    <3>4. f2 + top = d - 1 /\ f2 + top \in 0 .. c - 1
      BY <1>1, <1>7, <3>2, <3>3 DEF Cap
    <3>5. (f2 + top) % c = f2 + top
      BY <3>4, ModSmall
    <3> QED
      BY <3>1, <3>3, <3>4, <3>5
  <2>5. Len(entry'[p]) = new.cap
    <3>1. Len(entry'[p]) = Len(entry[p]) + (IF header[p] = <<>> THEN IndexSize ELSE Last(header[p]).cap)
          /\ Len(entry[p]) \in Nat
      BY GrowEntries
    <3>2. CASE n = 0
      <4>1. Len(entry[p]) = 0
        BY <1>1, <3>2, EmptySeq DEF Chained
      <4> QED
        BY <1>6, <1>15, <3>1, <3>2, <4>1
    <3>3. CASE n # 0
      <4>1. Len(entry[p]) = Cap(p) /\ Last(header[p]).cap = Cap(p)
        BY <1>1, <1>6, <3>3 DEF Chained, Cap
      <4> QED
        BY <1>6, <1>12, <3>1, <3>3, <4>1
    <3> QED
      BY <3>2, <3>3
  <2>6. \A g \in 1 .. n + 1 : Injective(header'[p][g].slots) /\ header'[p][g].cap <= new.cap
    <3>1. \A g \in 1 .. n : Injective(header[p][g].slots)
      BY <1>1 DEF Chained
    <3>2. new.cap \in Nat
      BY <1>11, IndexFields
    <3>3. \A g \in 1 .. n + 1 : g = n + 1 \/ g \in 1 .. n
      OBVIOUS
    <3> QED
      BY <1>3, <2>1, <2>2, <3>1, <3>2, <3>3
  <2>7. n + 1 # 0
    OBVIOUS
  <2> QED
    BY <1>3, <1>5, <1>9, <1>10, <2>3, <2>4, <2>5, <2>6, <2>7 DEF Chained, Injective
<1>14. n # 0 => Cap(p)' = 2 * Cap(p)
  BY <1>3, <1>12 DEF Cap
<1> QED
  BY <1>1, <1>4, <1>9, <1>10, <1>12, <1>13, <1>14

-----------------------------------------------------------------------------
(* new_block_index keeps the invariant of the index.                        *)

\* A grown index holds what it held.
LEMMA GrowIndex ==
    ASSUME IInv, NEW p \in Producer, NewIndex(p), UNCHANGED th, UNCHANGED tail
    PROVE  IndexInv(p)'
<1>0. Types /\ CountTypes /\ LiveInv(p) /\ IndexInv(p)
  BY DEF IInv, Rest, CountedInv, Owned
<1>1. PICK ph \in Phases(p) : Phased(p, ph)
  BY <1>0 DEF IndexInv, Phases
<1>2. Chained(p, ph) /\ Keyed(p, ph) /\ \A c \in Consumer : Takes(c, p) => FindsRight(p, ph, TakenBy(c))
  BY <1>1 DEF Phased
<1>3. PICK ph2 \in Phases(p)' :
              /\ \A g \in 1 .. Gens(p) : ph2[g] = ph[g]
              /\ Gens(p) # 0 => \A k \in Int : \/ Now(p, ph2, k)' = Now(p, ph, k)
                                               \/ Now(p, ph2, k)' > Cap(p) /\ ~ (k <= Top(p) /\ Top(p) - k < Cap(p))
              /\ Chained(p, ph2)' /\ (Gens(p) # 0 => Cap(p)' = 2 * Cap(p))
  BY <1>0, <1>2, GrowNow
<1>4. PICK m \in Nat, x \in Nat :
        /\ DOMAIN entry[p] = 1 .. m /\ DOMAIN entry'[p] = 1 .. m + x
        /\ \A i \in 1 .. m : entry'[p][i] = entry[p][i]
        /\ \A i \in m + 1 .. m + x : entry'[p][i] = NoEntry
        /\ Gens(p)' = Gens(p) + 1 /\ \A g \in 1 .. Gens(p) : header'[p][g] = header[p][g]
  <2>1. PICK m : m = Len(entry[p])
    OBVIOUS
  <2>2. PICK x : x = IF header[p] = <<>> THEN IndexSize ELSE Last(header[p]).cap
    OBVIOUS
  <2>3. /\ m \in Nat /\ x \in Nat \ {0}
        /\ DOMAIN entry[p] = 1 .. m /\ DOMAIN entry'[p] = 1 .. m + x
        /\ \A i \in 1 .. m : entry'[p][i] = entry[p][i]
        /\ \A i \in m + 1 .. m + x : entry'[p][i] = NoEntry
        /\ Gens(p)' = Gens(p) + 1 /\ \A g \in 1 .. Gens(p) : header'[p][g] = header[p][g]
    BY <1>0, <2>1, <2>2, GrowEntries
  <2> QED
    BY <2>3
<1>5. /\ Chain(p)' = Chain(p) /\ Tried(p)' = Tried(p) /\ Known(p)' = Known(p) /\ Top(p)' = Top(p)
  BY StillNames
<1>6. /\ Known(p) \in Int /\ Known(p) >= -1 /\ Top(p) \in Int /\ Len(Chain(p)) \in Nat
      /\ Chain(p) \in Seq(Block) /\ DOMAIN Chain(p) = 1 .. Len(Chain(p))
      /\ Top(p) >= Known(p) + Len(Chain(p)) /\ (Tried(p) # None => Top(p) = Known(p) + Len(Chain(p)) + 1)
  BY <1>0, NumTypes
<1>7. \A i \in 1 .. m + x : entry'[p][i].value # None => i \in 1 .. m
  <2>1. \A i \in 1 .. m + x : i \in 1 .. m \/ i \in m + 1 .. m + x
    OBVIOUS
  <2> QED
    BY <1>4, <2>1 DEF NoEntry
<1>8. \A c \in Consumer : Takes(c, p)' <=> Takes(c, p)
  BY DEF Takes, TakenBy
<1>9. Gens(p) \in Nat /\ \A g \in 1 .. Gens(p) : header[p][g] \in Index
  BY <1>0, HeaderFields
<1>10. CASE Gens(p) = 0
  <2>1. entry[p] = <<>> /\ Top(p) = -1
    BY <1>2, <1>10 DEF Chained
  <2>2. m = 0
    BY <1>4, <2>1, EmptySeq
  <2>3. Tried(p) = None /\ DOMAIN Chain(p) = {}
    BY <1>6, <2>1
  <2>4. Keyed(p, ph2)'
    <3>1. \A i \in DOMAIN entry'[p] : entry'[p][i].value = None
      BY <1>4, <1>7, <2>2
    <3> QED
      BY <1>5, <2>3, <3>1 DEF Keyed
  <2>5. \A c \in Consumer : ~ Takes(c, p)
    <3> SUFFICES ASSUME NEW c \in Consumer, Takes(c, p) PROVE FALSE
      OBVIOUS
    <3>1. Num(TakenBy(c).at) \in Num(TakenBy(c).at) .. Num(TakenBy(c).end - 1)
      BY <1>0, TakesLocal
    <3>2. \E i \in DOMAIN entry[p] : TRUE
      BY <1>0, <3>1, ClaimUsed
    <3> QED
      BY <1>4, <2>2, <3>2
  <2>6. Phased(p, ph2)'
    BY <1>3, <1>8, <2>4, <2>5 DEF Phased
  <2> QED
    BY <2>6 DEF IndexInv, Phases
<1>11. CASE Gens(p) # 0
  <2>1. Cap(p) \in Nat \ {0} /\ m = Cap(p) /\ \A k \in Int : Now(p, ph, k) \in 1 .. Cap(p)
    <3>1. Cap(p) \in Nat \ {0} /\ DOMAIN entry[p] = 1 .. Cap(p) /\ \A k \in Int : Now(p, ph, k) \in 1 .. Cap(p)
      BY <1>0, <1>2, <1>11, NowFacts
    <3> QED
      BY <1>4, <3>1
  <2>2. \A k \in Int : k <= Top(p) /\ Top(p) - k < Cap(p) =>
           /\ Now(p, ph2, k)' = Now(p, ph, k) /\ entry'[p][Now(p, ph, k)] = entry[p][Now(p, ph, k)]
    BY <1>3, <1>4, <1>11, <2>1
  <2>3. header'[p][Gens(p)'].cap = 2 * Cap(p)
    BY <1>3, <1>11 DEF Cap
  <2>4. \A i \in DOMAIN entry'[p] : entry'[p][i].value # None =>
          \E k \in 0 .. Top(p) :
             /\ Top(p) - k < 2 * Cap(p) /\ i = Now(p, ph2, k)'
             /\ \A n \in k .. Top(p) : entry'[p][Now(p, ph2, n)'].key = n * BlockSize
    <3> SUFFICES ASSUME NEW i \in DOMAIN entry'[p], entry'[p][i].value # None
                 PROVE  \E k \in 0 .. Top(p) :
                           /\ Top(p) - k < 2 * Cap(p) /\ i = Now(p, ph2, k)'
                           /\ \A n \in k .. Top(p) : entry'[p][Now(p, ph2, n)'].key = n * BlockSize
      OBVIOUS
    <3>1. i \in DOMAIN entry[p] /\ entry[p][i].value # None
      BY <1>4, <1>7
    <3>2. PICK k \in 0 .. Top(p) :
             /\ Top(p) - k < Cap(p) /\ i = Now(p, ph, k)
             /\ \A n \in k .. Top(p) : entry[p][Now(p, ph, n)].key = n * BlockSize
      BY <1>2, <3>1 DEF Keyed, Cap
    <3>5. PICK top \in Int : top = Top(p)
      BY <1>6
    <3>6. PICK cap \in Nat \ {0} : cap = Cap(p)
      BY <2>1
    <3>7. k \in 0 .. top /\ top - k < cap
      BY <3>2, <3>5, <3>6
    <3>8. (\A n \in k .. top : n \in Int /\ n <= top /\ top - n < cap) /\ k \in k .. top /\ top - k < 2 * cap
      BY <3>7
    <3>3. \A n \in k .. Top(p) : n \in Int /\ n <= Top(p) /\ Top(p) - n < Cap(p)
      BY <3>5, <3>6, <3>8
    <3>4. k \in k .. Top(p) /\ Top(p) - k < 2 * Cap(p)
      BY <3>5, <3>6, <3>8
    <3> QED
      BY <2>2, <3>2, <3>3, <3>4
  <2>5. Tried(p) # None => /\ Tried(p) \in DOMAIN entry'[p] /\ Tried(p) = Now(p, ph2, Top(p))'
                           /\ entry'[p][Tried(p)] = [key |-> Top(p) * BlockSize, value |-> None]
    <3>4. PICK top \in Int : top = Top(p)
      BY <1>6
    <3>5. PICK cap \in Nat \ {0} : cap = Cap(p)
      BY <2>1
    <3>6. top <= top /\ top - top < cap
      OBVIOUS
    <3>1. Top(p) \in Int /\ Top(p) <= Top(p) /\ Top(p) - Top(p) < Cap(p)
      BY <3>4, <3>5, <3>6
    <3>7. /\ Now(p, ph2, Top(p))' = Now(p, ph, Top(p))
          /\ entry'[p][Now(p, ph, Top(p))] = entry[p][Now(p, ph, Top(p))]
      BY <1>5, <2>2, <3>1
    <3>2. Tried(p) # None => /\ Tried(p) \in DOMAIN entry[p] /\ Tried(p) = Now(p, ph, Top(p))
                             /\ entry[p][Tried(p)] = [key |-> Top(p) * BlockSize, value |-> None]
      BY <1>2 DEF Keyed, Holds
    <3>3. Tried(p) \in 1 .. m => Tried(p) \in 1 .. m + x
      OBVIOUS
    <3> QED
      BY <1>4, <3>2, <3>3, <3>7
  <2>6. \A j \in DOMAIN Chain(p) :
           entry'[p][Now(p, ph2, Known(p) + j)'] = [key |-> (Known(p) + j) * BlockSize, value |-> Chain(p)[j]]
    <3> SUFFICES ASSUME NEW j \in DOMAIN Chain(p)
                 PROVE  entry'[p][Now(p, ph2, Known(p) + j)'] = [key |-> (Known(p) + j) * BlockSize, value |-> Chain(p)[j]]
      OBVIOUS
    <3>1. PICK k \in Int : k = Known(p) + j
      BY <1>6
    <3>2. entry[p][Now(p, ph, k)] = [key |-> k * BlockSize, value |-> Chain(p)[j]]
      BY <1>2, <3>1 DEF Keyed, Holds
    <3>3. Chain(p)[j] # None
      BY <1>6, RolesDiffer, ElementOfSeq
    <3>4. Used(p, k, Now(p, ph, k))
      BY <1>4, <2>1, <3>2, <3>3 DEF Used
    <3>5. k <= Top(p) /\ Top(p) - k < Cap(p)
      BY <1>0, <1>2, <3>4, UsedAt
    <3>6. Now(p, ph2, k)' = Now(p, ph, k) /\ entry'[p][Now(p, ph, k)] = entry[p][Now(p, ph, k)]
      BY <2>2, <3>5
    <3> QED
      BY <1>5, <3>1, <3>2, <3>6
  <2>7. Keyed(p, ph2)'
    BY <1>5, <2>3, <2>4, <2>5, <2>6 DEF Keyed, Holds
  <2>8. ASSUME NEW c \in Consumer, Takes(c, p)' PROVE FindsRight(p, ph2, TakenBy(c))'
    <3>1. PICK l : l = TakenBy(c)
      OBVIOUS
    <3>2. Takes(c, p) /\ TakenBy(c)' = l
      BY <1>8, <2>8, <3>1 DEF TakenBy
    <3>3. FindsRight(p, ph, l)
      BY <1>2, <3>1, <3>2
    <3>4. ASSUME l.pc # "find"
          PROVE  /\ l.gen \in 1 .. Gens(p)' /\ l.slot \in 0 .. header'[p][l.gen].cap - 1
                 /\ IF l.pc = "entry"
                    THEN \E k \in Nat : /\ entry'[p][header'[p][l.gen].slots[l.slot]].key = k * BlockSize
                                        /\ l.slot = (ph2[l.gen] + k) % header'[p][l.gen].cap
                    ELSE l.slot = (ph2[l.gen] + Num(l.at)) % header'[p][l.gen].cap
                 /\ \A k \in Num(l.at) .. Num(l.end - 1) : Now(p, ph2, k)' = Named(header'[p][l.gen], ph2[l.gen], k)
      <4>1. PICK g \in 1 .. Gens(p) : g = l.gen
        BY <3>3, <3>4 DEF FindsRight
      <4>2. PICK h \in Index : h = header[p][g]
        BY <1>9
      <4>3. g \in 1 .. Gens(p)' /\ header'[p][g] = h /\ ph2[g] = ph[g]
        BY <1>3, <1>4, <1>9, <4>2
      <4>4. /\ l.slot \in 0 .. h.cap - 1
            /\ IF l.pc = "entry"
               THEN \E k \in Nat : /\ entry[p][h.slots[l.slot]].key = k * BlockSize
                                   /\ l.slot = (ph[g] + k) % h.cap
               ELSE l.slot = (ph[g] + Num(l.at)) % h.cap
            /\ \A k \in Num(l.at) .. Num(l.end - 1) : Now(p, ph, k) = Named(h, ph[g], k)
        BY <3>3, <3>4, <4>1, <4>2 DEF FindsRight
      <4>5. h.slots[l.slot] \in 1 .. m
        <5>1. h.cap <= Cap(p) /\ h.cap \in Nat /\ h.slots[l.slot] \in 1 .. h.cap
          BY <1>2, <4>2, <4>4, IndexFields DEF Chained, Cap
        <5> QED
          BY <2>1, <5>1
      <4>6. \A k \in Num(l.at) .. Num(l.end - 1) : Now(p, ph2, k)' = Now(p, ph, k)
        <5> SUFFICES ASSUME NEW k \in Num(l.at) .. Num(l.end - 1) PROVE Now(p, ph2, k)' = Now(p, ph, k)
          OBVIOUS
        <5>1. k \in Nat /\ \E i \in DOMAIN entry[p] : Used(p, k, i)
          BY <1>0, <3>1, <3>2, ClaimUsed
        <5>2. k \in Int /\ k <= Top(p) /\ Top(p) - k < Cap(p)
          BY <1>0, <1>2, <5>1, UsedAt
        <5> QED
          BY <2>2, <5>2
      <4> QED
        BY <1>4, <4>1, <4>2, <4>3, <4>4, <4>5, <4>6
    <3>5. FindsRight(p, ph2, l)'
      BY <3>4 DEF FindsRight, Named, Num
    <3> QED
      BY <3>2, <3>5 DEF FindsRight
  <2>9. Phased(p, ph2)'
    BY <1>3, <2>7, <2>8 DEF Phased
  <2> QED
    BY <2>9 DEF IndexInv, Phases
<1> QED
  BY <1>10, <1>11

-----------------------------------------------------------------------------
(* So the steps that grow an index, Join and NewIndex, keep the whole.      *)

\* A step of no thread that leaves the blocks where they are.
LEMMA StillPlaces ==
    ASSUME IInv, UNCHANGED th, UNCHANGED freeList, UNCHANGED fresh, IndexKept
    PROVE  PlaceInv'
<1>1. UNCHANGED <<free, refs, next>> /\ PlaceInv
  BY DEF freeList, IInv, Rest
<1>2. ListInv' /\ FreeBlocks' = FreeBlocks
  BY <1>1, SameStack DEF PlaceInv
<1>3. ASSUME NEW b \in Block PROVE (Once(b) /\ Refs(b))'
  <2>1. \A kind, x, i : Spot(b, kind, x, i)' <=> Spot(b, kind, x, i)
    BY <1>1, <1>2 DEF Spot, LeftOver, IndexKept, Indexed
  <2>2. Once(b)'
    BY <1>1, <2>1 DEF Once, IsAt, PlaceInv
  <2>3. Readers(b)' = Readers(b)
    BY DEF Readers
  <2>4. Extra(b)' = Extra(b)
    BY <1>2 DEF Extra
  <2>5. Refs(b)'
    BY <1>1, <2>3, <2>4 DEF Refs, PlaceInv
  <2> QED
    BY <2>2, <2>5
<1>4. \A u \in Thread : (ChainOnce(th[u]) /\ Linked(u))'
  BY <1>1 DEF PlaceInv, Linked, At
<1> QED
  BY <1>2, <1>3, <1>4 DEF PlaceInv

LEMMA GrowRest ==
    ASSUME IInv, NEW p \in Producer, NewIndex(p), UNCHANGED th, UNCHANGED head, UNCHANGED tail,
           UNCHANGED tailBlock, UNCHANGED block, UNCHANGED freeList, UNCHANGED memory, ~ broken'
    PROVE  Rest'
<1>0. Types /\ CountTypes /\ Owned(p)
  BY DEF IInv, Rest, CountedInv
<1>1. /\ header' \in [Producer -> Seq(Index)] /\ entry' \in [Producer -> Seq(EntryType)]
      /\ \A q \in Producer : q # p => header'[q] = header[q] /\ entry'[q] = entry[q]
  BY <1>0, GrowEntries
<1>2. /\ \A k, i : Used(p, k, i)' <=> Used(p, k, i)
      /\ \A b \in Block : \A i : Indexed(b, p, i)' <=> Indexed(b, p, i)
      /\ \A k, i : Used(p, k, i) => entry'[p][i] = entry[p][i]
  BY <1>0, GrowUsed
<1>3. /\ Local(p)' = Local(p) /\ Chain(p)' = Chain(p) /\ Tried(p)' = Tried(p)
      /\ Written(p)' = Written(p) /\ Known(p)' = Known(p)
  BY StillNames
<1>4. /\ \A c \in Consumer : TakenBy(c)' = TakenBy(c)
      /\ \A c \in Consumer : \A q : Takes(c, q)' <=> Takes(c, q)
  BY DEF TakenBy, Takes
<1>5. /\ \A c \in Consumer : \A q, k : Forgets(c, q, k)' <=> Forgets(c, q, k)
      /\ \A c \in Consumer : \A q, j : Owns(c, q, j)' <=> Owns(c, q, j)
  BY <1>4 DEF Forgets, Owns, Start, Num
<1>6. \A k : Unread(p, k)' = Unread(p, k)
  BY <1>5 DEF Unread
<1>7. Apart(p)' /\ head'[p] <= tail'[p]
  BY <1>0, <1>4 DEF Apart, Start, Num, Owned, LiveInv
<1>8. LiveInv(p)'
  BY <1>0, <1>2, <1>3, <1>5, <1>6, <1>7, LiveKeeps DEF Owned
<1>9. CallInv(p)'
  BY <1>0, <1>3, LocalCall, CallFrame DEF Owned
<1>10. IndexInv(p)'
  BY GrowIndex
<1>11. ASSUME NEW q \in Producer PROVE Owned(q)'
  <2>1. CASE q = p
    BY <1>8, <1>9, <1>10, <2>1 DEF Owned
  <2>2. CASE q # p
    BY <1>0, <1>1, <1>4, <2>2, OtherOwned DEF IInv, Rest
  <2> QED
    BY <2>1, <2>2
<1>12. IndexKept
  BY <1>1, <1>2 DEF IndexKept, Indexed
<1>13. UNCHANGED fresh /\ UNCHANGED pooled /\ UNCHANGED <<free, refs, next>>
  BY DEF memory, freeList
<1>14. PlaceInv'
  BY <1>12, <1>13, StillPlaces
<1>15. PoolInv'
  BY <1>13 DEF PoolInv, IInv, Rest, At, Local
<1>16. Types'
  BY <1>0, <1>1, <1>13 DEF Types, EntryType
<1> QED
  BY <1>11, <1>14, <1>15, <1>16 DEF Rest

LEMMA JoinRest ==
    ASSUME IInv, NEW p \in Producer, Join(p)
    PROVE  Rest'
<1>1. /\ UNCHANGED head /\ UNCHANGED tail /\ UNCHANGED th /\ UNCHANGED tailBlock /\ UNCHANGED block
      /\ UNCHANGED freeList /\ UNCHANGED memory /\ ~ broken'
  BY DEF Join, places, IInv, Rest
<1>2. CASE NewIndex(p)
  BY <1>1, <1>2, GrowRest
<1>3. CASE UNCHANGED index
  <2>1. UNCHANGED header /\ UNCHANGED entry
    BY <1>3 DEF index
  <2>2. \A c \in Consumer : \A q : (Takes(c, q)' <=> Takes(c, q)) /\ TakenBy(c)' = TakenBy(c)
    BY <1>1 DEF TakenBy, Takes
  <2>3. \A q \in Producer : Owned(q)'
    BY <1>1, <2>1, <2>2, OtherOwned DEF IInv, Rest
  <2>4. UNCHANGED fresh /\ UNCHANGED pooled /\ UNCHANGED <<free, refs, next>>
    BY <1>1 DEF memory, freeList
  <2>5. IndexKept
    BY <1>3, SameIndex
  <2>6. PlaceInv'
    BY <1>1, <2>4, <2>5, StillPlaces
  <2>7. PoolInv'
    BY <1>1, <2>4 DEF PoolInv, IInv, Rest, At, Local
  <2>8. Types'
    BY <1>1, <2>1, <2>4 DEF Types, IInv, Rest
  <2> QED
    BY <1>1, <2>3, <2>6, <2>7, <2>8 DEF Rest
<1> QED
  BY <1>2, <1>3 DEF Join

-----------------------------------------------------------------------------
(* A step that leaves the slots of the indices as they are, and an entry its *)
(* key unless it writes that of its slot.                                   *)

\* A step that leaves the slots of the indices as they are.
SlotsKept(p) ==
    /\ Gens(p)' = Gens(p)
    /\ \A g \in 1 .. Gens(p) : /\ header'[p][g].cap = header[p][g].cap
                               /\ header'[p][g].slots = header[p][g].slots
KeysKept(p, ph) ==
    \A i \in DOMAIN entry[p] : \/ entry'[p][i].key = entry[p][i].key
                               \/ \E n \in Nat : entry'[p][i].key = n * BlockSize /\ i = Now(p, ph, n)

LEMMA SlotsNow ==
    ASSUME Types, NEW p \in Producer, SlotsKept(p), NEW ph
    PROVE  /\ \A g \in 1 .. Gens(p) : \A f, k : Named(header'[p][g], f, k) = Named(header[p][g], f, k)
           /\ Gens(p) # 0 => Cap(p)' = Cap(p) /\ \A k : Now(p, ph, k)' = Now(p, ph, k)
<1>1. \A g \in 1 .. Gens(p) : \A f, k : Named(header'[p][g], f, k) = Named(header[p][g], f, k)
  BY DEF SlotsKept, Named
<1>2. ASSUME Gens(p) # 0 PROVE Cap(p)' = Cap(p) /\ \A k : Now(p, ph, k)' = Now(p, ph, k)
  <2>1. Gens(p) \in 1 .. Gens(p) /\ Gens(p)' = Gens(p)
    BY <1>2, HeaderFields DEF SlotsKept
  <2>2. Cap(p)' = Cap(p)
    BY <2>1 DEF SlotsKept, Cap
  <2>3. \A k : Now(p, ph, k)' = Now(p, ph, k)
    BY <2>1 DEF SlotsKept, Now, Named
  <2> QED
    BY <2>2, <2>3
<1> QED
  BY <1>1, <1>2

LEMMA ChainedKept ==
    ASSUME Types, NEW p \in Producer, SlotsKept(p), NEW ph \in Phases(p), Chained(p, ph), Gens(p) # 0,
           Len(entry'[p]) = Len(entry[p]), header'[p][Gens(p)].tail = (ph[Gens(p)] + Top(p)') % Cap(p)
    PROVE  Chained(p, ph)' /\ ph \in Phases(p)'
<1>1. Gens(p)' = Gens(p) /\ Gens(p) \in 1 .. Gens(p)
  BY HeaderFields DEF SlotsKept
<1>2. /\ \A g \in 1 .. Gens(p) : \A f, k : Named(header'[p][g], f, k) = Named(header[p][g], f, k)
      /\ \A k : Now(p, ph, k)' = Now(p, ph, k)
  BY SlotsNow
<1>3. \A g \in 1 .. Gens(p) : /\ header'[p][g].cap = header[p][g].cap
                               /\ header'[p][g].slots = header[p][g].slots
  BY DEF SlotsKept
<1>4. /\ \A g \in 1 .. Gens(p) :
          /\ Injective(header[p][g].slots) /\ header[p][g].cap <= header[p][Gens(p)].cap
          /\ \A k \in Nat : \/ Now(p, ph, k) = Named(header[p][g], ph[g], k)
                            \/ Now(p, ph, k) > header[p][g].cap
      /\ Len(entry[p]) = Cap(p)
  BY DEF Chained, Cap
<1>5. \A g \in 1 .. Gens(p) :
          /\ Injective(header'[p][g].slots) /\ header'[p][g].cap <= header'[p][Gens(p)].cap
          /\ \A k \in Nat : \/ Now(p, ph, k)' = Named(header'[p][g], ph[g], k)
                            \/ Now(p, ph, k)' > header'[p][g].cap
  <2> TAKE g \in 1 .. Gens(p)
  <2>1. header'[p][g].slots = header[p][g].slots /\ header'[p][g].cap = header[p][g].cap
        /\ header'[p][Gens(p)].cap = header[p][Gens(p)].cap
    BY <1>1, <1>3
  <2>2. Injective(header'[p][g].slots) /\ header'[p][g].cap <= header'[p][Gens(p)].cap
    BY <1>4, <2>1
  <2>3. ASSUME NEW k \in Nat
        PROVE  \/ Now(p, ph, k)' = Named(header'[p][g], ph[g], k)
               \/ Now(p, ph, k)' > header'[p][g].cap
    <3>1. Now(p, ph, k)' = Now(p, ph, k) /\ Named(header'[p][g], ph[g], k) = Named(header[p][g], ph[g], k)
      BY <1>2
    <3>2. Now(p, ph, k) = Named(header[p][g], ph[g], k) \/ Now(p, ph, k) > header[p][g].cap
      BY <1>4
    <3> QED
      BY <2>1, <3>1, <3>2
  <2> QED
    BY <2>2, <2>3
<1>6. Len(entry'[p]) = header'[p][Gens(p)].cap
      /\ header'[p][Gens(p)].tail = (ph[Gens(p)] + Top(p)') % header'[p][Gens(p)].cap
  BY <1>1, <1>3, <1>4 DEF Cap
<1> QED
  BY <1>1, <1>5, <1>6 DEF Chained, Phases, Injective

LEMMA FindsKept ==
    ASSUME CountTypes, Types, NEW p \in Producer, SlotsKept(p), NEW ph \in Phases(p), Chained(p, ph),
           KeysKept(p, ph), Gens(p) # 0, NEW l, FindsRight(p, ph, l), l.pc # "find" => l.slot \in Nat
    PROVE  FindsRight(p, ph, l)'
<1>1. CASE l.pc = "find"
  BY <1>1 DEF FindsRight
<1>2. CASE l.pc # "find"
  <2>1. PICK g \in 1 .. Gens(p) : g = l.gen
    BY <1>2 DEF FindsRight
  <2>2. PICK h \in Index : h = header[p][g]
    BY HeaderFields
  <2>3. PICK f \in Int : f = ph[g]
    BY DEF Phases
  <2>4. PICK s \in 0 .. h.cap - 1 : s = l.slot
    BY <1>2, <2>1, <2>2 DEF FindsRight
  <2>5. /\ IF l.pc = "entry"
           THEN \E k \in Nat : /\ entry[p][h.slots[s]].key = k * BlockSize
                               /\ s = (f + k) % h.cap
           ELSE s = (f + Num(l.at)) % h.cap
        /\ \A m \in Num(l.at) .. Num(l.end - 1) : Now(p, ph, m) = Named(h, f, m)
    BY <1>2, <2>1, <2>2, <2>3, <2>4 DEF FindsRight
  <2>6. /\ Gens(p)' = Gens(p) /\ header'[p][g].cap = h.cap /\ header'[p][g].slots = h.slots
        /\ \A k : Named(header'[p][g], f, k) = Named(h, f, k)
        /\ \A k : Now(p, ph, k)' = Now(p, ph, k)
    BY <2>2, SlotsNow DEF SlotsKept
  <2>7. ASSUME l.pc = "entry"
        PROVE  \E k \in Nat : /\ entry'[p][h.slots[s]].key = k * BlockSize
                              /\ s = (f + k) % h.cap
    <3>1. PICK i : i = h.slots[s]
      OBVIOUS
    <3>2. h.cap \in Nat \ {0} /\ h.slots \in [0 .. h.cap - 1 -> 1 .. h.cap] /\ Injective(h.slots) /\ h.cap <= Cap(p)
      BY <2>2, IndexFields DEF Chained, Cap
    <3>3. i \in DOMAIN entry[p] /\ i \in 1 .. h.cap
      <4>1. DOMAIN entry[p] = 1 .. Cap(p) /\ Cap(p) \in Nat
        BY NowFacts
      <4>2. i \in 1 .. h.cap
        BY <3>1, <3>2
      <4> QED
        BY <3>2, <4>1, <4>2
    <3>4. CASE entry'[p][i].key = entry[p][i].key
      BY <2>5, <2>7, <3>1, <3>4
    <3>5. CASE \E n \in Nat : entry'[p][i].key = n * BlockSize /\ i = Now(p, ph, n)
      <4>1. PICK n \in Nat : entry'[p][i].key = n * BlockSize /\ i = Now(p, ph, n)
        BY <3>5
      <4>2. Now(p, ph, n) = Named(h, f, n) \/ Now(p, ph, n) > h.cap
        BY <2>2, <2>3 DEF Chained
      <4>3. i = Named(h, f, n)
        BY <3>2, <3>3, <4>1, <4>2
      <4>4. PICK a : a = (f + n) % h.cap
        OBVIOUS
      <4>5. a \in 0 .. h.cap - 1 /\ i = h.slots[a]
        BY <4>3, <4>4, NamedIn
      <4>6. a = s
        BY <3>1, <3>2, <4>5 DEF Injective
      <4> QED
        BY <3>1, <4>1, <4>4, <4>6
    <3> QED
      BY <3>3, <3>4, <3>5 DEF KeysKept
  <2>8. g \in 1 .. Gens(p)' /\ s \in 0 .. header'[p][g].cap - 1
    BY <2>6
  <2>9. IF l.pc = "entry"
        THEN \E k \in Nat : /\ entry'[p][header'[p][g].slots[s]].key = k * BlockSize
                             /\ s = (f + k) % header'[p][g].cap
        ELSE s = (f + Num(l.at)) % header'[p][g].cap
    BY <2>5, <2>6, <2>7
  <2>10. \A m \in Num(l.at) .. Num(l.end - 1) : Now(p, ph, m)' = Named(header'[p][g], f, m)
    BY <2>5, <2>6
  <2> QED
    BY <2>1, <2>3, <2>4, <2>8, <2>9, <2>10 DEF FindsRight, Named, Num
<1> QED
  BY <1>1, <1>2

-----------------------------------------------------------------------------
(* insert_block_index_entry (concurrentqueue.h:2885-2916): the slot it tries is *)
(* the next, and free when its block is.                                     *)

LEMMA NowAgain ==
    ASSUME CountTypes, Types, NEW p \in Producer, NEW ph \in Phases(p), Chained(p, ph), Gens(p) # 0,
           NEW k \in Int
    PROVE  Now(p, ph, k + Cap(p)) = Now(p, ph, k)
<1>1. Cap(p) \in Nat \ {0} /\ ph[Gens(p)] \in Int
  BY NowFacts
<1>2. PICK n \in Nat \ {0} : n = Cap(p)
  BY <1>1
<1>3. PICK f \in Int : f = ph[Gens(p)]
  BY <1>1
<1>4. PICK a \in Int : a = f + k
  OBVIOUS
<1>5. PICK q \in Int, r \in 0 .. n - 1 : a = n * q + r /\ r = a % n
  BY ModRange
<1>6. a + n = n * (q + 1) + r
  <2>1. n * (q + 1) = n * q + n * 1
    BY Distributes
  <2>2. n * q \in Int
    OBVIOUS
  <2> QED
    BY <1>5, <2>1, <2>2
<1>7. (a + n) % n = r
  <2>1. PICK b \in Int : b = a + n
    OBVIOUS
  <2>2. PICK t \in Int : t = q + 1
    OBVIOUS
  <2>3. b = n * t + r
    BY <1>6, <2>1, <2>2
  <2>4. b % n = r
    BY <2>3, ModIs
  <2> QED
    BY <2>1, <2>4
<1>8. f + (k + n) = a + n /\ f + k = a
  BY <1>4
<1>9. header[p][Gens(p)].cap = n
  BY <1>2 DEF Cap
<1> QED
  BY <1>2, <1>3, <1>5, <1>7, <1>8, <1>9 DEF Now, Named

LEMMA TailNamed ==
    ASSUME CountTypes, Types, NEW p \in Producer, NEW ph \in Phases(p), Chained(p, ph), Gens(p) # 0
    PROVE  /\ TailSlot(p) \in 0 .. Cap(p) - 1 /\ NextEntry(p) = Now(p, ph, Top(p) + 1)
           /\ TailSlot(p) = (ph[Gens(p)] + (Top(p) + 1)) % Cap(p)
<1>1. Cap(p) \in Nat \ {0} /\ ph[Gens(p)] \in Int
  BY NowFacts
<1>2. PICK n \in Nat \ {0} : n = Cap(p)
  BY <1>1
<1>3. PICK f \in Int : f = ph[Gens(p)]
  BY <1>1
<1>4. PICK top \in Int : top = Top(p)
  BY NumTypes
<1>5. Last(header[p]) = header[p][Gens(p)] /\ header[p][Gens(p)].cap = n
      /\ header[p][Gens(p)].tail = (f + top) % n
  BY <1>2, <1>3, <1>4, HeaderFields DEF Cap, Chained
<1>6. PICK a \in Int : a = f + top
  OBVIOUS
<1>7. ((a % n) + 1) % n = (a + 1) % n /\ (a + 1) % n \in 0 .. n - 1
  <2>1. PICK d \in Int : d = 1
    OBVIOUS
  <2>2. PICK b \in Int : b = a + d
    OBVIOUS
  <2>3. ((a % n) + d) % n = (a + d) % n
    BY ModAdd
  <2>4. b % n \in 0 .. n - 1
    BY ModRange
  <2> QED
    BY <2>1, <2>2, <2>3, <2>4
<1>8. a + 1 = f + (top + 1)
  BY <1>6
<1>9. TailSlot(p) = (f + (top + 1)) % n
  BY <1>5, <1>6, <1>7, <1>8 DEF TailSlot
<1> QED
  BY <1>2, <1>3, <1>4, <1>5, <1>7, <1>8, <1>9 DEF NextEntry, Now, Named

\* What insert_block_index_entry has found.
LEMMA InsertFree ==
    ASSUME CountTypes, Types, NEW p \in Producer, NEW ph \in Phases(p), Chained(p, ph), Keyed(p, ph), Gens(p) # 0,
           ~ InUse(entry[p][NextEntry(p)])
    PROVE  NextEntry(p) \in DOMAIN entry[p] /\ entry[p][NextEntry(p)].value = None
<1>1. NextEntry(p) \in DOMAIN entry[p]
  <2>1. Top(p) + 1 \in Int /\ NextEntry(p) = Now(p, ph, Top(p) + 1)
    BY NumTypes, TailNamed
  <2> QED
    BY <2>1, NowFacts
<1>2. ASSUME entry[p][NextEntry(p)].value # None PROVE FALSE
  <2>1. PICK e : e = NextEntry(p)
    OBVIOUS
  <2>2. PICK k \in 0 .. Top(p) :
             /\ Top(p) - k < header[p][Gens(p)].cap /\ e = Now(p, ph, k)
             /\ \A m \in k .. Top(p) : entry[p][Now(p, ph, m)].key = m * BlockSize
    BY <1>1, <1>2, <2>1 DEF Keyed
  <2>3. k \in Int /\ k \in k .. Top(p)
    BY <2>2, NumTypes
  <2>4. entry[p][e].key = k * BlockSize /\ k * BlockSize \in Int
    BY <2>2, <2>3, Scale
  <2>5. entry[p][e].key # None
    BY <2>4, RolesDiffer
  <2> QED
    BY <1>2, <2>1, <2>5 DEF InUse
<1> QED
  BY <1>1, <1>2

-----------------------------------------------------------------------------
(* The tail of an index moves, an entry is written.                         *)

\* What WithTail does.
LEMMA TailSet ==
    ASSUME Types, NEW p \in Producer, Gens(p) # 0, NEW s \in 0 .. Cap(p) - 1,
           header' = [header EXCEPT ![p] = WithTail(@, s)]
    PROVE  /\ header' \in [Producer -> Seq(Index)] /\ SlotsKept(p) /\ header'[p][Gens(p)].tail = s
           /\ \A q \in Producer : q # p => header'[q] = header[q]
<1>1. header \in [Producer -> Seq(Index)]
  BY Typed DEF IndexTyped
<1>2. PICK hs \in Seq(Index) : hs = header[p]
  BY <1>1
<1>3. PICK n \in Nat : n = Gens(p)
  BY HeaderFields
<1>4. n \in 1 .. n /\ Len(hs) = n /\ DOMAIN hs = 1 .. n /\ \A g \in 1 .. n : hs[g] \in Index
  BY <1>2, <1>3, HeaderFields DEF Gens
<1>5. PICK h \in Index : h = hs[n]
  BY <1>4
<1>6. s \in 0 .. h.cap - 1
  BY <1>2, <1>3, <1>5 DEF Cap
<1>7. PICK new : new = [h EXCEPT !.tail = s]
  OBVIOUS
<1>8. new \in Index /\ new.cap = h.cap /\ new.slots = h.slots /\ new.tail = s
  <2>1. PICK m \in Nat \ {0} : h \in [cap : {m}, tail : 0 .. m - 1, slots : [0 .. m - 1 -> 1 .. m]]
    BY DEF Index
  <2>2. s \in 0 .. m - 1
    BY <1>6, <2>1
  <2>3. new \in [cap : {m}, tail : 0 .. m - 1, slots : [0 .. m - 1 -> 1 .. m]]
    BY <1>7, <2>1, <2>2
  <2> QED
    BY <1>7, <2>1, <2>3 DEF Index
<1>9. PICK ws : ws = [hs EXCEPT ![n] = new]
  OBVIOUS
<1>10. WithTail(hs, s) = ws
  BY <1>4, <1>5, <1>7, <1>9 DEF WithTail
<1>11. ws \in Seq(Index) /\ Len(ws) = n /\ ws[n] = new /\ \A g \in 1 .. n : g # n => ws[g] = hs[g]
  BY <1>4, <1>8, <1>9, ExceptSeq
<1>12. header' = [header EXCEPT ![p] = ws]
  BY <1>2, <1>10
<1>13. header'[p] = ws /\ \A q \in Producer : q # p => header'[q] = header[q]
  BY <1>1, <1>12
<1>14. header' \in [Producer -> Seq(Index)]
  BY <1>1, <1>11, <1>12
<1>15. Gens(p)' = n
  BY <1>11, <1>13 DEF Gens
<1>16. SlotsKept(p)
  BY <1>2, <1>3, <1>5, <1>8, <1>11, <1>13, <1>15 DEF SlotsKept
<1> QED
  BY <1>3, <1>8, <1>11, <1>13, <1>14, <1>16

\* Changes of the entries of one producer.
EntryNow(p, e, v) == entry' = [entry EXCEPT ![p] = [entry[p] EXCEPT ![e] = v]]

LEMMA EntrySet ==
    ASSUME Types, NEW p \in Producer, NEW e \in DOMAIN entry[p], NEW v \in EntryType,
           EntryNow(p, e, v)
    PROVE  /\ entry' \in [Producer -> Seq(EntryType)] /\ \A q \in Producer : q # p => entry'[q] = entry[q]
           /\ DOMAIN entry'[p] = DOMAIN entry[p] /\ Len(entry'[p]) = Len(entry[p])
           /\ entry'[p][e] = v /\ \A i \in DOMAIN entry[p] : i # e => entry'[p][i] = entry[p][i]
<1>1. entry \in [Producer -> Seq(EntryType)]
  BY Typed DEF IndexTyped
<1>2. PICK es \in Seq(EntryType) : es = entry[p]
  BY <1>1
<1>3. PICK ws : ws = [es EXCEPT ![e] = v]
  OBVIOUS
<1>4. Len(es) \in Nat /\ DOMAIN es = 1 .. Len(es)
  BY LenProperties
<1>5. ws \in Seq(EntryType) /\ Len(ws) = Len(es) /\ DOMAIN ws = DOMAIN es /\ ws[e] = v
      /\ \A i \in DOMAIN es : i # e => ws[i] = es[i]
  <2>1. ws \in Seq(EntryType) /\ Len(ws) = Len(es)
    BY <1>2, <1>3, <1>4, ExceptSeq
  <2> QED
    BY <1>2, <1>3, <2>1
<1>6. entry' = [entry EXCEPT ![p] = ws]
  BY <1>2, <1>3 DEF EntryNow
<1>7. entry'[p] = ws /\ \A q \in Producer : q # p => entry'[q] = entry[q]
  BY <1>1, <1>6
<1>8. entry' \in [Producer -> Seq(EntryType)]
  BY <1>1, <1>5, <1>6
<1> QED
  BY <1>2, <1>5, <1>7, <1>8

-----------------------------------------------------------------------------
(* The key is written, the block is still to come.                          *)

\* The key that insert_block_index_entry writes.
LEMMA NextBase ==
    ASSUME IInv, NEW p \in Producer, th[p].pc = "index"
    PROVE  /\ Local(p) = th[p] /\ th[p] \in CallAt(Calls) /\ th[p].bases # <<>>
           /\ Tried(p) = None /\ Top(p) = Known(p) + Len(Chain(p))
           /\ Head(th[p].bases) = (Top(p) + 1) * BlockSize /\ Head(th[p].bases) \in Nat
           /\ Head(th[p].bases) >= head[p] /\ head[p] \in Nat
<1>0. Types /\ CountTypes /\ Owned(p)
  BY DEF IInv, Rest, CountedInv
<1>1. PICK l : l = th[p]
  OBVIOUS
<1>2. Local(p) = l /\ l \in CallAt(Calls) /\ l.pc = "index"
  BY <1>0, <1>1, LocalCall DEF Calls
<1>3. /\ l.bases # <<>> /\ l.slot = None /\ l.bases \in Seq(Nat)
      /\ \A j \in DOMAIN l.bases : l.bases[j] = (Known(p) + Len(l.chain) + j) * BlockSize
  BY <1>0, <1>2 DEF CallInv, Owned, CallAt
<1>4. Tried(p) = None /\ Chain(p) = l.chain
  BY <1>2, <1>3 DEF Tried, Chain
<1>5. Top(p) = Known(p) + Len(Chain(p)) /\ Top(p) \in Int /\ Known(p) \in Int /\ Len(Chain(p)) \in Nat
      /\ Written(p) <= (Known(p) + 1) * BlockSize /\ tail[p] <= Written(p) /\ Written(p) \in Nat /\ tail[p] \in Nat
      /\ head[p] \in Nat
  BY <1>0, <1>4, NumTypes
<1>6. Head(l.bases) = l.bases[1] /\ 1 \in DOMAIN l.bases /\ Head(l.bases) \in Nat
  <2>1. Head(l.bases) = l.bases[1] /\ Head(l.bases) \in Nat
    BY <1>3, HeadTailProperties
  <2>2. Len(l.bases) \in Nat \ {0} /\ DOMAIN l.bases = 1 .. Len(l.bases)
    BY <1>3, LenProperties, EmptySeq
  <2> QED
    BY <2>1, <2>2
<1>7. Head(l.bases) = (Top(p) + 1) * BlockSize
  BY <1>3, <1>4, <1>5, <1>6
<1>8. (Known(p) + 1) * BlockSize <= (Top(p) + 1) * BlockSize
  <2>1. PICK a \in Int : a = Known(p) + 1
    BY <1>5
  <2>2. PICK b \in Int : b = Top(p) + 1
    BY <1>5
  <2>3. a <= b
    BY <1>5, <2>1, <2>2
  <2>4. a * BlockSize <= b * BlockSize
    BY <2>3, Scale
  <2> QED
    BY <2>1, <2>2, <2>4
<1>9. head[p] <= tail[p]
  BY <1>0 DEF Owned, LiveInv
<1>10. PICK x \in Int, y \in Int : x = (Known(p) + 1) * BlockSize /\ y = (Top(p) + 1) * BlockSize
  <2>1. Known(p) + 1 \in Int /\ Top(p) + 1 \in Int
    BY <1>5
  <2>2. \A i \in Int : i * BlockSize \in Int
    BY Scale
  <2> QED
    BY <2>1, <2>2
<1>11. Head(l.bases) >= head[p]
  BY <1>5, <1>6, <1>7, <1>8, <1>9, <1>10
<1> QED
  BY <1>1, <1>2, <1>3, <1>4, <1>5, <1>6, <1>7, <1>11

\* The statements of insert_block_index_entry that write the key and the tail.
KeyWritten(p) ==
    /\ entry' = [entry EXCEPT ![p][NextEntry(p)].key = Head(th[p].bases)]
    /\ header' = [header EXCEPT ![p] = WithTail(@, TailSlot(p))]

\* The index after it; no block was named by the entry that is written over.
LEMMA InsertKeyed ==
    ASSUME IInv, NEW p \in Producer, th[p].pc = "index", header[p] # <<>>, ~ InUse(entry[p][NextEntry(p)]),
           KeyWritten(p), Chain(p)' = Chain(p), Tried(p)' = NextEntry(p), Known(p)' = Known(p),
           \A c \in Consumer : TakenBy(c)' = TakenBy(c) /\ (Takes(c, p)' <=> Takes(c, p))
    PROVE  /\ IndexInv(p)' /\ IndexTyped' /\ IndexKept /\ \A k, i : Used(p, k, i)' <=> Used(p, k, i)
           /\ \A k, i : Used(p, k, i) => entry'[p][i] = entry[p][i]
           /\ \A q \in Producer : q # p => header'[q] = header[q] /\ entry'[q] = entry[q]
           /\ NextEntry(p) \in Nat
<1>0. Types /\ CountTypes /\ LiveInv(p) /\ IndexInv(p)
  BY DEF IInv, Rest, CountedInv, Owned
<1>1. PICK ph \in Phases(p) : Phased(p, ph)
  BY <1>0 DEF IndexInv, Phases
<1>2. Chained(p, ph) /\ Keyed(p, ph) /\ \A c \in Consumer : Takes(c, p) => FindsRight(p, ph, TakenBy(c))
  BY <1>1 DEF Phased
<1>3. Gens(p) # 0
  BY <1>0, HeaderFields
<1>4. PICK top \in Int : top = Top(p)
  BY <1>0, NumTypes
<1>5. PICK e : e = NextEntry(p)
  OBVIOUS
<1>6. e \in DOMAIN entry[p] /\ entry[p][e].value = None /\ e = Now(p, ph, top + 1)
      /\ TailSlot(p) \in 0 .. Cap(p) - 1 /\ TailSlot(p) = (ph[Gens(p)] + (top + 1)) % Cap(p)
  BY <1>0, <1>2, <1>3, <1>4, <1>5, InsertFree, TailNamed
<1>7. PICK base \in Nat : base = Head(th[p].bases) /\ base = (top + 1) * BlockSize
  BY <1>4, NextBase
<1>8. Tried(p) = None /\ top = Known(p) + Len(Chain(p))
  BY <1>4, NextBase
<1>9. PICK v : v = [key |-> base, value |-> None]
  OBVIOUS
<1>10. v \in EntryType
  BY <1>9 DEF EntryType, Link
<1>11. EntryNow(p, e, v)
  <2>1. entry[p][e] \in EntryType
    BY <1>0, <1>6, Typed, ElementOfSeq, LenProperties DEF IndexTyped
  <2>2. [entry[p][e] EXCEPT !.key = base] = v
    BY <1>6, <1>9, <2>1 DEF EntryType
  <2>3. entry' = [entry EXCEPT ![p] = [@ EXCEPT ![e] = [entry[p][e] EXCEPT !.key = base]]]
    BY <1>5, <1>7 DEF KeyWritten
  <2> QED
    BY <2>2, <2>3 DEF EntryNow
<1>12. /\ entry' \in [Producer -> Seq(EntryType)] /\ \A q \in Producer : q # p => entry'[q] = entry[q]
       /\ DOMAIN entry'[p] = DOMAIN entry[p] /\ Len(entry'[p]) = Len(entry[p])
       /\ entry'[p][e] = v /\ \A i \in DOMAIN entry[p] : i # e => entry'[p][i] = entry[p][i]
  BY <1>0, <1>6, <1>10, <1>11, EntrySet
<1>13. /\ header' \in [Producer -> Seq(Index)] /\ SlotsKept(p) /\ header'[p][Gens(p)].tail = TailSlot(p)
       /\ \A q \in Producer : q # p => header'[q] = header[q]
  <2>1. PICK s \in 0 .. Cap(p) - 1 : s = TailSlot(p)
    BY <1>6
  <2>2. header' = [header EXCEPT ![p] = WithTail(@, s)]
    BY <2>1 DEF KeyWritten
  <2> QED
    BY <1>0, <1>3, <2>1, <2>2, TailSet
<1>14. e \in Nat /\ e # None
  <2>1. DOMAIN entry[p] = 1 .. Cap(p) /\ Cap(p) \in Nat
    BY <1>0, <1>2, <1>3, NowFacts
  <2> QED
    BY <1>6, <2>1, RolesDiffer
<1>15. Top(p)' = top + 1
  <2>1. Top(p)' = Known(p)' + Len(Chain(p)') + 1
    BY <1>5, <1>14 DEF Top
  <2> QED
    BY <1>8, <2>1
<1>16. Chained(p, ph)' /\ ph \in Phases(p)'
  BY <1>0, <1>2, <1>3, <1>6, <1>12, <1>13, <1>15, ChainedKept
<1>17. Cap(p)' = Cap(p) /\ \A k : Now(p, ph, k)' = Now(p, ph, k)
  BY <1>0, <1>3, <1>13, SlotsNow
<1>18. /\ Cap(p) \in Nat \ {0}
       /\ \A k \in Int : Now(p, ph, k) \in DOMAIN entry[p]
       /\ \A k, m \in Int :
                 Now(p, ph, k) = Now(p, ph, m) /\ k - m < Cap(p) /\ m - k < Cap(p) => k = m
  BY <1>0, <1>2, <1>3, NowFacts
<1>19. \A i \in DOMAIN entry[p] : /\ entry'[p][i].value = entry[p][i].value
                                  /\ entry[p][i].value # None => i # e /\ entry'[p][i] = entry[p][i]
  BY <1>6, <1>9, <1>12
<1>20. Keyed(p, ph)'
  <2>1. \A i \in DOMAIN entry'[p] : entry'[p][i].value # None =>
          \E k \in 0 .. top + 1 :
             /\ top + 1 - k < Cap(p) /\ i = Now(p, ph, k)
             /\ \A m \in k .. top + 1 : entry'[p][Now(p, ph, m)].key = m * BlockSize
    <3> SUFFICES ASSUME NEW i \in DOMAIN entry'[p], entry'[p][i].value # None
                 PROVE  \E k \in 0 .. top + 1 :
                           /\ top + 1 - k < Cap(p) /\ i = Now(p, ph, k)
                           /\ \A m \in k .. top + 1 : entry'[p][Now(p, ph, m)].key = m * BlockSize
      OBVIOUS
    <3>1. i \in DOMAIN entry[p] /\ entry[p][i].value # None /\ i # e
      BY <1>12, <1>19
    <3>2. PICK k \in 0 .. top :
             /\ top - k < Cap(p) /\ i = Now(p, ph, k)
             /\ \A m \in k .. top : entry[p][Now(p, ph, m)].key = m * BlockSize
      BY <1>2, <1>4, <3>1 DEF Keyed, Cap
    <3>3. PICK cap \in Nat \ {0} : cap = Cap(p)
      BY <1>18
    <3>4. k \in Int /\ k <= top /\ top - k < cap
      BY <3>2, <3>3
    <3>5. top + 1 - k # cap
      <4>1. ASSUME top + 1 - k = cap PROVE FALSE
        <5>1. k + cap = top + 1
          BY <3>4, <4>1
        <5>2. Now(p, ph, k + cap) = Now(p, ph, k)
          BY <1>0, <1>2, <1>3, <3>3, <3>4, NowAgain
        <5> QED
          BY <1>6, <3>1, <3>2, <5>1, <5>2
      <4> QED
        BY <4>1
    <3>6. ASSUME NEW m \in k .. top + 1 PROVE entry'[p][Now(p, ph, m)].key = m * BlockSize
      <4>1. CASE m = top + 1
        BY <1>6, <1>7, <1>9, <1>12, <4>1
      <4>2. CASE m # top + 1
        <5>1. m \in k .. top /\ m \in Int /\ top + 1 \in Int /\ m - (top + 1) < cap /\ (top + 1) - m < cap
          BY <3>4, <3>5, <4>2
        <5>2. Now(p, ph, m) # e /\ Now(p, ph, m) \in DOMAIN entry[p]
          BY <1>6, <1>18, <3>3, <4>2, <5>1
        <5> QED
          BY <1>12, <3>2, <5>1, <5>2
      <4> QED
        BY <4>1, <4>2
    <3>7. k \in 0 .. top + 1 /\ top + 1 - k < cap
      BY <3>2, <3>4, <3>5
    <3> QED
      BY <3>2, <3>3, <3>6, <3>7
  <2>2. \A j \in DOMAIN Chain(p) : entry'[p][Now(p, ph, Known(p) + j)] = [key |-> (Known(p) + j) * BlockSize, value |-> Chain(p)[j]]
    <3> SUFFICES ASSUME NEW j \in DOMAIN Chain(p)
                 PROVE entry'[p][Now(p, ph, Known(p) + j)] = [key |-> (Known(p) + j) * BlockSize, value |-> Chain(p)[j]]
      OBVIOUS
    <3>1. Known(p) + j \in Int /\ Chain(p)[j] # None
      <4>1. Known(p) \in Int /\ Chain(p) \in Seq(Block) /\ DOMAIN Chain(p) = 1 .. Len(Chain(p))
        BY <1>0, NumTypes
      <4> QED
        BY <4>1, RolesDiffer, ElementOfSeq
    <3>2. entry[p][Now(p, ph, Known(p) + j)] = [key |-> (Known(p) + j) * BlockSize, value |-> Chain(p)[j]]
      BY <1>2 DEF Keyed, Holds
    <3> QED
      BY <1>18, <1>19, <3>1, <3>2
  <2>3. header'[p][Gens(p)'].cap = Cap(p)
    BY <1>17 DEF Cap
  <2>4. top + 1 \in Int /\ e \in DOMAIN entry'[p] /\ e = Now(p, ph, top + 1)'
    BY <1>6, <1>12, <1>17
  <2>5. \A i \in DOMAIN entry'[p] : entry'[p][i].value # None =>
          \E k \in 0 .. Top(p)' :
             /\ Top(p)' - k < header'[p][Gens(p)'].cap /\ i = Now(p, ph, k)'
             /\ \A m \in k .. Top(p)' : entry'[p][Now(p, ph, m)'].key = m * BlockSize
    BY <1>15, <1>17, <2>1, <2>3
  <2>6. Holds(p, ph, Top(p), None)' /\ Tried(p)' \in DOMAIN entry'[p] /\ Tried(p)' = Now(p, ph, Top(p))'
    BY <1>5, <1>6, <1>7, <1>9, <1>12, <1>15, <1>17 DEF Holds
  <2>7. \A j \in DOMAIN Chain(p)' : Holds(p, ph, Known(p) + j, Chain(p)[j])'
    BY <1>17, <2>2 DEF Holds
  <2> QED
    BY <2>5, <2>6, <2>7 DEF Keyed
<1>21. KeysKept(p, ph)
  <2>1. ASSUME NEW i \in DOMAIN entry[p], i = e PROVE \E n \in Nat : entry'[p][i].key = n * BlockSize /\ i = Now(p, ph, n)
    <3>1. top + 1 \in Nat
      BY <1>0, <1>4, <1>8, NumTypes
    <3> QED
      BY <1>6, <1>7, <1>9, <1>12, <2>1, <3>1
  <2> QED
    BY <1>12, <2>1 DEF KeysKept
<1>22. ASSUME NEW c \in Consumer, Takes(c, p)' PROVE FindsRight(p, ph, TakenBy(c))'
  <2>1. PICK l : l = TakenBy(c)
    OBVIOUS
  <2>2. Takes(c, p) /\ TakenBy(c)' = l
    BY <1>22, <2>1
  <2>3. FindsRight(p, ph, l) /\ (l.pc # "find" => l.slot \in Nat)
    BY <1>0, <1>2, <2>1, <2>2, TakesLocal
  <2>4. FindsRight(p, ph, l)'
    BY <1>0, <1>2, <1>3, <1>13, <1>21, <2>3, FindsKept
  <2> QED
    BY <2>2, <2>4 DEF FindsRight
<1>23. IndexInv(p)'
  BY <1>16, <1>20, <1>22 DEF IndexInv, Phased, Phases
<1>24. IndexTyped' /\ IndexKept
  BY <1>12, <1>13, <1>19 DEF IndexTyped, IndexKept, Indexed
<1>25. \A k, i : Used(p, k, i)' <=> Used(p, k, i)
  BY <1>12, <1>19 DEF Used
<1>26. \A k, i : Used(p, k, i) => entry'[p][i] = entry[p][i]
  BY <1>19 DEF Used
<1> QED
  BY <1>5, <1>12, <1>13, <1>14, <1>23, <1>24, <1>25, <1>26

-----------------------------------------------------------------------------
(* So insert_block_index_entry keeps the invariant.                         *)

LEMMA WrapLocal ==
    ASSUME NEW l \in CallAt({"pool"}), NEW p \in Producer
    PROVE  LET m == [pc |-> "getHead", then |-> l] IN
           InCall(m) = l /\ Plain(m) /\ LocalOk(p, m)
<1>1. PICK m : m = [pc |-> "getHead", then |-> l]
  OBVIOUS
<1>2. l.pc = "pool" /\ m.pc = "getHead" /\ m.then = l /\ "then" \in DOMAIN m
  BY <1>1 DEF CallAt
<1>3. m \in Enq
  BY <1>1 DEF Enq, GetIn
<1>4. p \notin Consumer
  BY Roles
<1> QED
  BY <1>1, <1>2, <1>3, <1>4 DEF InCall, Plain, LocalOk, Calls, Putting

LEMMA PoolFull ==
    ASSUME IInv
    PROVE  pooled \in Nat /\ PoolSize \in Nat
BY BoundAssumption, RolesDiffer, FS_Subset, FS_CardinalityType, IsSafe DEF Types

LEMMA InsertRest ==
    ASSUME IInv, NEW p \in Producer, Insert(p)
    PROVE  Rest'
<1>0. /\ UNCHANGED head /\ UNCHANGED tail /\ UNCHANGED tailBlock /\ UNCHANGED block /\ UNCHANGED freeList
      /\ UNCHANGED memory /\ th[p].pc = "index" /\ broken' = (broken \/ Head(th[p].bases) < head[p])
      /\ Types /\ CountTypes /\ Owned(p) /\ ~ broken /\ \A q \in Producer : Owned(q)
  BY DEF Insert, places, At, IInv, Rest, CountedInv
<1>1. /\ Local(p) = th[p] /\ th[p] \in CallAt(Calls) /\ th[p].bases # <<>>
      /\ Tried(p) = None /\ Top(p) = Known(p) + Len(Chain(p))
      /\ Head(th[p].bases) \in Nat /\ Head(th[p].bases) >= head[p] /\ head[p] \in Nat
  BY <1>0, NextBase
<1>2. ~ broken'
  <2>1. ~ Head(th[p].bases) < head[p]
    BY <1>1
  <2> QED
    BY <1>0, <2>1, Zenon
<1>3. CASE GoTo(p, "undo") /\ UNCHANGED index
  BY <1>0, <1>2, <1>3, ToUndoRest
<1>4. CASE NewIndex(p) /\ UNCHANGED th
  BY <1>0, <1>2, <1>4, GrowRest
<1>5. CASE header[p] # <<>> /\ ~ InUse(entry[p][NextEntry(p)])
  <2>1. KeyWritten(p)
    BY <1>5 DEF Insert, KeyWritten
  <2>2. PICK l0 : l0 = th[p]
    OBVIOUS
  <2>3. PICK m : m = [l0 EXCEPT !.pc = "pool", !.slot = NextEntry(p)]
    OBVIOUS
  <2>4. PICK l : l = IF pooled < PoolSize THEN m ELSE [pc |-> "getHead", then |-> m]
    OBVIOUS
  <2>5. th' = [th EXCEPT ![p] = l]
    BY <1>5, <2>2, <2>3, <2>4 DEF Insert, Go
  <2>6. InCall(l) = InCall(m)
    <3>1. m.pc = "pool"
      BY <1>1, <2>2, <2>3 DEF CallAt
    <3> QED
      BY <2>4, <3>1 DEF InCall, Calls
  <2>7. m.pc = "pool" /\ InCall(m) = m
    BY <1>1, <2>2, <2>3 DEF CallAt, InCall, Calls
  <2>8. m.chain = l0.chain /\ m.bases = l0.bases /\ m.n = l0.n /\ m.slot = NextEntry(p)
    BY <1>1, <2>2, <2>3 DEF CallAt
  <2>9. /\ Local(p)' = m /\ th'[p] = l
        /\ \A c \in Consumer : TakenBy(c)' = TakenBy(c)
        /\ \A c \in Consumer : \A q : Takes(c, q)' <=> Takes(c, q)
        /\ \A c \in Consumer : \A q, k : Forgets(c, q, k)' <=> Forgets(c, q, k)
    <3>1. Local(p)' = InCall(l)
      BY <2>5, ProducerFrame
    <3> QED
      BY <2>5, <2>6, <2>7, <3>1, ProducerFrame
  <2>10. Chain(p)' = Chain(p) /\ Tried(p)' = NextEntry(p)
    BY <1>1, <2>2, <2>8, <2>9 DEF Chain, Tried
  <2>11. Written(p)' = Written(p) /\ Known(p)' = Known(p)
    <3>1. l.pc # "publish"
      BY <2>4, <2>7
    <3>2. Written(p)' = Written(p)
      BY <1>0, <2>9, <3>1 DEF Written, At
    <3> QED
      BY <3>2 DEF Known, Num
  <2>12. /\ IndexInv(p)' /\ IndexTyped' /\ IndexKept /\ \A k, i : Used(p, k, i)' <=> Used(p, k, i)
         /\ \A k, i : Used(p, k, i) => entry'[p][i] = entry[p][i]
         /\ \A q \in Producer : q # p => header'[q] = header[q] /\ entry'[q] = entry[q]
         /\ NextEntry(p) \in Nat
    BY <1>0, <1>5, <2>1, <2>9, <2>10, <2>11, InsertKeyed
  <2>13. m \in CallAt({"pool"})
    BY <1>1, <2>2, <2>3, <2>12 DEF CallAt
  <2>14. CallInv(p)'
    <3>1. /\ Len(l0.chain) + Len(l0.bases) = Num(tail[p] + l0.n - 1) - Num(tail[p] - 1)
          /\ \A j \in DOMAIN l0.bases : l0.bases[j] = (Known(p) + Len(l0.chain) + j) * BlockSize
          /\ l0.bases # <<>>
      BY <1>0, <1>1, <2>2 DEF CallInv, Owned
    <3>2. m.slot # None
      BY <2>8, <2>12, RolesDiffer
    <3> QED
      BY <1>0, <2>7, <2>8, <2>9, <2>11, <3>1, <3>2 DEF CallInv, Num
  <2>15. LiveInv(p)'
    <3>1. (\A k : Unread(p, k)' = Unread(p, k)) /\ Apart(p)' /\ head'[p] <= tail'[p]
      BY <1>0, <2>5, ProducerUnread DEF Owned, LiveInv
    <3> QED
      BY <1>0, <2>9, <2>11, <2>12, <3>1, LiveKeeps DEF Owned
  <2>16. ASSUME NEW q \in Producer PROVE Owned(q)'
    <3>1. CASE q = p
      BY <2>12, <2>14, <2>15, <3>1 DEF Owned
    <3>2. CASE q # p
      BY <1>0, <2>5, <2>12, <3>2, OthersOwned
    <3> QED
      BY <3>1, <3>2
  <2>17. BlocksTyped'
    BY <1>0, SameBlocks
  <2>18. Plain(l) /\ LocalOk(p, l) /\ (l.pc # "pool" => pooled >= PoolSize)
    <3>1. CASE pooled < PoolSize
      <4>1. m \in CallAt(Calls) /\ p \notin Consumer
        BY <2>13, Roles DEF CallAt, Calls
      <4> QED
        BY <2>4, <2>7, <3>1, <4>1, CallLocal
    <3>2. CASE ~ pooled < PoolSize
      BY <2>4, <2>13, <3>2, WrapLocal, PoolFull
    <3> QED
      BY <3>1, <3>2
  <2>19. Plain(th[p]) /\ p \in Thread
    BY <1>1, CallLocal, Roles DEF Thread
  <2> QED
    BY <1>0, <1>2, <2>5, <2>12, <2>16, <2>17, <2>18, <2>19, PlainRest
<1> QED
  BY <1>3, <1>4, <1>5 DEF Insert

-----------------------------------------------------------------------------
(* requisition_block found a block: its entry gets it.                      *)

\* requisition_block has found a block; the rest of the step of SetBlock.
ValueSet(p, e, b) == entry' = [entry EXCEPT ![p][e].value = b]
Found(l0, b) ==
    LET rest == Tail(l0.bases) IN
    [l0 EXCEPT !.pc = IF rest = <<>> THEN "place" ELSE "index",
               !.bases = rest, !.chain = Append(@, b), !.slot = None]
Unplaced(b) == \A x, i : ~ Indexed(b, x, i)
SetStep(p, b) ==
    /\ UNCHANGED <<header, tailBlock>> /\ UNCHANGED head /\ UNCHANGED tail
    /\ ValueSet(p, Tried(p), b) /\ block' = [block EXCEPT ![b].done = 0]
    /\ th' = [th EXCEPT ![p] = Found(Local(p), b)]

LEMMA FoundFields ==
    ASSUME IInv, NEW p \in Producer, Local(p).pc \in {"pool", "malloc"}, NEW b \in Block
    PROVE  LET l0 == Local(p)
               l == Found(l0, b)
           IN /\ l \in CallAt({"place", "index"}) /\ l0 \in CallAt(Calls) /\ l.n = l0.n
              /\ l.chain = Append(l0.chain, b) /\ l.slot = None /\ l.bases = Tail(l0.bases)
              /\ Len(l.chain) = Len(l0.chain) + 1 /\ Len(l.bases) = Len(l0.bases) - 1 /\ l0.bases # <<>>
              /\ \A j \in DOMAIN l0.chain : l.chain[j] = l0.chain[j]
              /\ l.chain[Len(l0.chain) + 1] = b /\ DOMAIN l.chain = 1 .. Len(l0.chain) + 1
              /\ \A j \in DOMAIN l.bases : j \in Nat /\ j + 1 \in DOMAIN l0.bases /\ l.bases[j] = l0.bases[j + 1]
              /\ l.pc = (IF l.bases = <<>> THEN "place" ELSE "index") /\ Len(l0.chain) \in Nat
<1>1. PICK l0 : l0 = Local(p)
  OBVIOUS
<1>2. l0 \in CallAt(Calls) /\ l0.pc \in {"pool", "malloc"} /\ l0.bases # <<>>
  <2>1. Local(p) \in CallAt(Calls)
    BY LocalCall, IsSafe DEF NoCall
  <2> QED
    BY <1>1, <2>1 DEF IInv, Rest, Owned, CallInv
<1>3. l0.bases \in Seq(Nat) /\ l0.chain \in Seq(Block)
  BY <1>2 DEF CallAt
<1>4. PICK rest : rest = Tail(l0.bases)
  OBVIOUS
<1>5. PICK chain : chain = Append(l0.chain, b)
  OBVIOUS
<1>6. /\ rest \in Seq(Nat) /\ Len(rest) = Len(l0.bases) - 1 /\ Len(l0.bases) \in Nat
      /\ DOMAIN rest = 1 .. Len(l0.bases) - 1 /\ DOMAIN l0.bases = 1 .. Len(l0.bases)
      /\ \A j \in 1 .. Len(l0.bases) - 1 : rest[j] = l0.bases[j + 1]
  <2>1. rest \in Seq(Nat) /\ Len(rest) = Len(l0.bases) - 1
        /\ \A j \in 1 .. Len(l0.bases) - 1 : rest[j] = l0.bases[j + 1]
    BY <1>2, <1>3, <1>4, HeadTailProperties
  <2> QED
    BY <1>3, <2>1, LenProperties
<1>7. /\ chain \in Seq(Block) /\ Len(chain) = Len(l0.chain) + 1 /\ Len(l0.chain) \in Nat
      /\ DOMAIN chain = 1 .. Len(l0.chain) + 1 /\ DOMAIN l0.chain = 1 .. Len(l0.chain)
      /\ \A j \in 1 .. Len(l0.chain) : chain[j] = l0.chain[j]
      /\ chain[Len(l0.chain) + 1] = b
  BY <1>3, <1>5, AppendProperties, LenProperties
<1>8. PICK l : l = Found(l0, b)
  OBVIOUS
<1>9. l = [l0 EXCEPT !.pc = IF rest = <<>> THEN "place" ELSE "index", !.bases = rest, !.chain = chain, !.slot = None]
  BY <1>4, <1>5, <1>8 DEF Found
<1>10. /\ l \in CallAt({"place", "index"}) /\ l.n = l0.n
       /\ l.chain = chain /\ l.slot = None /\ l.bases = rest
       /\ l.pc = (IF rest = <<>> THEN "place" ELSE "index")
  BY <1>2, <1>6, <1>7, <1>9 DEF CallAt
<1>11. \A j \in 1 .. Len(l0.bases) - 1 : j \in Nat /\ j + 1 \in 1 .. Len(l0.bases)
  BY <1>6
<1> QED
  BY <1>1, <1>2, <1>4, <1>5, <1>6, <1>7, <1>8, <1>10, <1>11

LEMMA SetNames ==
    ASSUME IInv, NEW p \in Producer, Local(p).pc \in {"pool", "malloc"}, NEW b \in Block, SetStep(p, b)
    PROVE  /\ Local(p)' = Found(Local(p), b) /\ Tried(p)' = None /\ Known(p)' = Known(p) /\ Top(p)' = Top(p)
           /\ Written(p)' = Written(p) /\ Chain(p)' = Append(Chain(p), b) /\ Written(p) = tail[p]
           /\ Tried(p) # None /\ Top(p) = Known(p) + Len(Chain(p)) + 1 /\ CallInv(p)'
<1>0. Types /\ CountTypes /\ CallInv(p) /\ LocalOk(p, th[p])
  BY Roles DEF IInv, Rest, CountedInv, Owned, LocalOk, Types
<1>1. PICK l0 : l0 = Local(p)
  OBVIOUS
<1>2. PICK l : l = Found(l0, b)
  OBVIOUS
<1>3. /\ l \in CallAt({"place", "index"}) /\ l0 \in CallAt(Calls) /\ l.n = l0.n
      /\ l.chain = Append(l0.chain, b) /\ l.slot = None /\ l.bases = Tail(l0.bases)
      /\ Len(l.chain) = Len(l0.chain) + 1 /\ Len(l.bases) = Len(l0.bases) - 1 /\ l0.bases # <<>>
      /\ \A j \in DOMAIN l.bases : j \in Nat /\ j + 1 \in DOMAIN l0.bases /\ l.bases[j] = l0.bases[j + 1]
      /\ l.pc = (IF l.bases = <<>> THEN "place" ELSE "index") /\ Len(l0.chain) \in Nat
  BY <1>1, <1>2, FoundFields
<1>4. th' = [th EXCEPT ![p] = l] /\ UNCHANGED tail
  BY <1>1, <1>2 DEF SetStep
<1>5. InCall(l) = l /\ l.pc \in {"place", "index"}
  BY <1>3 DEF CallAt, InCall, Calls
<1>6. Local(p)' = l /\ th'[p] = l
  <2>1. Local(p)' = InCall(l) /\ th'[p] = l
    BY <1>4, ProducerFrame
  <2> QED
    BY <1>5, <2>1
<1>7. th[p].pc # "publish"
  BY <1>0, LocalCall DEF NoCall
<1>8. Written(p)' = Written(p) /\ Written(p) = tail[p]
  <2>1. tail[p] \in Nat
    BY <1>0 DEF CountTypes
  <2> QED
    BY <1>4, <1>5, <1>6, <1>7, <2>1 DEF Written, At
<1>9. Known(p)' = Known(p)
  BY <1>8 DEF Known, Num
<1>10. Tried(p)' = None /\ Chain(p)' = Append(l0.chain, b) /\ Chain(p) = l0.chain /\ Tried(p) = l0.slot
  BY <1>1, <1>3, <1>6 DEF Tried, Chain
<1>11. l0.slot # None
  BY <1>0, <1>1 DEF CallInv
<1>12. Top(p) = Known(p) + Len(Chain(p)) + 1 /\ Known(p) \in Int
  BY <1>0, <1>10, <1>11, NumTypes
<1>13. Top(p)' = Top(p)
  <2>1. Top(p)' = Known(p)' + Len(Chain(p)') + 0
    BY <1>10 DEF Top
  <2> QED
    BY <1>3, <1>9, <1>10, <1>12, <2>1
<1>14. CallInv(p)'
  <2>1. l0.pc # "idle" /\ tail[p] \in Nat
    BY <1>0, <1>1 DEF CountTypes
  <2>2. /\ Len(l0.chain) + Len(l0.bases) = Num(tail[p] + l0.n - 1) - Num(tail[p] - 1)
        /\ \A j \in DOMAIN l0.bases : l0.bases[j] = (Known(p) + Len(l0.chain) + j) * BlockSize
    BY <1>0, <1>1, <2>1 DEF CallInv
  <2>3. Len(l.chain) + Len(l.bases) = Len(l0.chain) + Len(l0.bases)
    <3>1. PICK x \in Nat : x = Len(l0.bases)
      BY <1>3, LenProperties DEF CallAt
    <3>2. PICK y \in Nat : y = Len(l0.chain)
      BY <1>3
    <3> QED
      <4>1. Len(l.chain) = y + 1 /\ Len(l.bases) = x - 1
        BY <1>3, <3>1, <3>2
      <4>2. y + 1 + (x - 1) = y + x
        OBVIOUS
      <4> QED
        BY <3>1, <3>2, <4>1, <4>2
  <2>4. \A j \in DOMAIN l.bases : l.bases[j] = (Known(p) + Len(l.chain) + j) * BlockSize
    <3> SUFFICES ASSUME NEW j \in DOMAIN l.bases PROVE l.bases[j] = (Known(p) + Len(l.chain) + j) * BlockSize
      OBVIOUS
    <3>1. l.bases[j] = (Known(p) + Len(l0.chain) + (j + 1)) * BlockSize /\ j \in Nat
      BY <1>3, <2>2
    <3>3. PICK x \in Int : x = Known(p)
      BY <1>12
    <3>4. PICK y \in Nat : y = Len(l0.chain)
      BY <1>3
    <3>5. Len(l.chain) = y + 1
      BY <1>3, <3>4
    <3>2. Known(p) + Len(l0.chain) + (j + 1) = Known(p) + Len(l.chain) + j
      <4>1. PICK k \in Nat : k = j
        BY <3>1
      <4>2. x + y + (k + 1) = x + (y + 1) + k
        OBVIOUS
      <4> QED
        BY <3>3, <3>4, <3>5, <4>1, <4>2
    <3> QED
      BY <3>1, <3>2
  <2> QED
    BY <1>3, <1>4, <1>5, <1>6, <1>9, <2>2, <2>3, <2>4 DEF CallInv, Num
<1> QED
  BY <1>1, <1>2, <1>6, <1>8, <1>9, <1>10, <1>11, <1>12, <1>13, <1>14

-----------------------------------------------------------------------------
(* The index with the new block in it.                                      *)

LEMMA ProducerTakes ==
    ASSUME IInv, NEW p \in Producer, NEW l, th' = [th EXCEPT ![p] = l], NEW q, NEW c \in Consumer
    PROVE  TakenBy(c)' = TakenBy(c) /\ (Takes(c, q)' <=> Takes(c, q))
BY ProducerFrame

\* A block goes into the entry that was inserted for it.
LEMMA SetIndex ==
    ASSUME IInv, NEW p \in Producer, Local(p).pc \in {"pool", "malloc"}, NEW b \in Block, SetStep(p, b)
    PROVE  /\ IndexInv(p)' /\ IndexTyped' /\ Tried(p) \in DOMAIN entry[p] /\ entry[p][Tried(p)].value = None
           /\ entry[p][Tried(p)].key = Top(p) * BlockSize /\ 0 <= Top(p)
           /\ DOMAIN entry'[p] = DOMAIN entry[p]
           /\ entry'[p][Tried(p)] = [key |-> Top(p) * BlockSize, value |-> b]
           /\ \A i \in DOMAIN entry[p] : i # Tried(p) => entry'[p][i] = entry[p][i]
           /\ \A q \in Producer : q # p => entry'[q] = entry[q]
<1>0. Types /\ CountTypes /\ LiveInv(p) /\ IndexInv(p)
  BY DEF IInv, Rest, CountedInv, Owned
<1>1. PICK ph \in Phases(p) : Phased(p, ph)
  BY <1>0 DEF IndexInv, Phases
<1>2. Chained(p, ph) /\ Keyed(p, ph) /\ \A c \in Consumer : Takes(c, p) => FindsRight(p, ph, TakenBy(c))
  BY <1>1 DEF Phased
<1>3. PICK top \in Int : top = Top(p)
  BY <1>0, NumTypes
<1>4. PICK e : e = Tried(p)
  OBVIOUS
<1>5. /\ Tried(p)' = None /\ Known(p)' = Known(p) /\ Top(p)' = top
      /\ Chain(p)' = Append(Chain(p), b) /\ e # None /\ top = Known(p) + Len(Chain(p)) + 1
  BY <1>3, <1>4, SetNames
<1>6. e \in DOMAIN entry[p] /\ e = Now(p, ph, top) /\ entry[p][e] = [key |-> top * BlockSize, value |-> None]
  <2>1. Tried(p) # None /\ Top(p) = top
    BY <1>3, <1>4, <1>5
  <2>2. Tried(p) \in DOMAIN entry[p] /\ Tried(p) = Now(p, ph, Top(p)) /\ Holds(p, ph, Top(p), None)
    BY <1>2, <2>1 DEF Keyed
  <2> QED
    BY <1>3, <1>4, <2>2 DEF Holds
<1>7. Gens(p) # 0
  BY <1>2, <1>6 DEF Chained
<1>8. UNCHANGED header
  BY DEF SetStep
<1>9. /\ Known(p) \in Int /\ Known(p) >= -1 /\ Len(Chain(p)) \in Nat /\ Chain(p) \in Seq(Block)
      /\ DOMAIN Chain(p) = 1 .. Len(Chain(p))
  BY <1>0, NumTypes
<1>10. top >= 0
  BY <1>5, <1>9
<1>11. PICK v : v = [key |-> top * BlockSize, value |-> b]
  OBVIOUS
<1>12. v \in EntryType
  <2>1. entry[p][e] \in EntryType
    BY <1>0, <1>6, Typed, ElementOfSeq, LenProperties DEF IndexTyped
  <2>2. top * BlockSize \in Nat \cup {None}
    BY <1>6, <2>1 DEF EntryType
  <2> QED
    BY <1>11, <2>2 DEF EntryType, Link
<1>13. EntryNow(p, e, v)
  <2>1. [entry[p][e] EXCEPT !.value = b] = v
    BY <1>6, <1>11
  <2>2. entry' = [entry EXCEPT ![p] = [@ EXCEPT ![e] = [entry[p][e] EXCEPT !.value = b]]]
    BY <1>4 DEF SetStep, ValueSet
  <2> QED
    BY <2>1, <2>2 DEF EntryNow
<1>14. /\ entry' \in [Producer -> Seq(EntryType)] /\ \A q \in Producer : q # p => entry'[q] = entry[q]
       /\ DOMAIN entry'[p] = DOMAIN entry[p] /\ Len(entry'[p]) = Len(entry[p])
       /\ entry'[p][e] = v /\ \A i \in DOMAIN entry[p] : i # e => entry'[p][i] = entry[p][i]
  BY <1>0, <1>6, <1>12, <1>13, EntrySet
<1>15. \A i \in DOMAIN entry[p] : entry'[p][i].key = entry[p][i].key
  BY <1>6, <1>11, <1>14
<1>16. SlotsKept(p)
  BY <1>8 DEF SlotsKept, Gens
<1>17. Cap(p)' = Cap(p) /\ \A k : Now(p, ph, k)' = Now(p, ph, k)
  BY <1>0, <1>7, <1>16, SlotsNow
<1>18. Chained(p, ph)' /\ ph \in Phases(p)'
  <2>1. header'[p][Gens(p)].tail = (ph[Gens(p)] + Top(p)') % Cap(p)
    BY <1>2, <1>3, <1>5, <1>7, <1>8 DEF Chained, Cap
  <2> QED
    BY <1>0, <1>2, <1>7, <1>14, <1>16, <2>1, ChainedKept
<1>19. /\ Cap(p) \in Nat \ {0}
       /\ \A k \in Int : Now(p, ph, k) \in DOMAIN entry[p]
  BY <1>0, <1>2, <1>7, NowFacts
<1>20. Keyed(p, ph)'
  <2>1. \A i \in DOMAIN entry'[p] : entry'[p][i].value # None =>
          \E k \in 0 .. top :
             /\ top - k < Cap(p) /\ i = Now(p, ph, k)
             /\ \A m \in k .. top : entry'[p][Now(p, ph, m)].key = m * BlockSize
    <3> SUFFICES ASSUME NEW i \in DOMAIN entry'[p], entry'[p][i].value # None
                 PROVE  \E k \in 0 .. top :
                           /\ top - k < Cap(p) /\ i = Now(p, ph, k)
                           /\ \A m \in k .. top : entry'[p][Now(p, ph, m)].key = m * BlockSize
      OBVIOUS
    <3>1. CASE i = e
      <4>1. PICK cap \in Nat \ {0} : cap = Cap(p)
        BY <1>19
      <4>2. top \in 0 .. top /\ top - top < cap /\ \A m \in top .. top : m = top
        BY <1>10
      <4>3. entry'[p][Now(p, ph, top)].key = top * BlockSize
        BY <1>6, <1>11, <1>14
      <4> QED
        BY <1>6, <3>1, <4>1, <4>2, <4>3
    <3>2. CASE i # e
      <4>1. i \in DOMAIN entry[p] /\ entry[p][i].value # None
        BY <1>14, <3>2
      <4>2. PICK k \in 0 .. top :
               /\ top - k < Cap(p) /\ i = Now(p, ph, k)
               /\ \A m \in k .. top : entry[p][Now(p, ph, m)].key = m * BlockSize
        BY <1>2, <1>3, <4>1 DEF Keyed, Cap
      <4>3. \A m \in k .. top : m \in Int
        BY <4>2
      <4>4. \A m \in k .. top : entry'[p][Now(p, ph, m)].key = m * BlockSize
        BY <1>15, <1>19, <4>2, <4>3
      <4> QED
        BY <4>2, <4>4
    <3> QED
      BY <3>1, <3>2
  <2>2. ASSUME NEW j \in 1 .. Len(Chain(p)) + 1
        PROVE  entry'[p][Now(p, ph, Known(p) + j)] = [key |-> (Known(p) + j) * BlockSize, value |-> Append(Chain(p), b)[j]]
    <3>1. CASE j = Len(Chain(p)) + 1
      <4>1. Known(p) + j = top
        BY <1>5, <1>9, <3>1
      <4>2. Append(Chain(p), b)[j] = b
        BY <1>9, <3>1, AppendProperties
      <4> QED
        BY <1>6, <1>11, <1>14, <4>1, <4>2
    <3>2. CASE j # Len(Chain(p)) + 1
      <4>1. j \in 1 .. Len(Chain(p)) /\ Known(p) + j \in Int
        BY <1>9, <3>2
      <4>2. Append(Chain(p), b)[j] = Chain(p)[j] /\ Chain(p)[j] # None
        BY <1>9, <4>1, AppendProperties, ElementOfSeq, RolesDiffer
      <4>3. entry[p][Now(p, ph, Known(p) + j)] = [key |-> (Known(p) + j) * BlockSize, value |-> Chain(p)[j]]
        BY <1>2, <1>9, <4>1 DEF Keyed, Holds
      <4>4. Now(p, ph, Known(p) + j) # e
        BY <1>6, <4>2, <4>3
      <4> QED
        BY <1>14, <1>19, <4>1, <4>2, <4>3, <4>4
    <3> QED
      BY <3>1, <3>2
  <2>3. header'[p][Gens(p)'].cap = Cap(p)
    BY <1>17 DEF Cap
  <2>4. DOMAIN Chain(p)' = 1 .. Len(Chain(p)) + 1
    <3>1. Append(Chain(p), b) \in Seq(Block) /\ Len(Append(Chain(p), b)) = Len(Chain(p)) + 1
      BY <1>9, AppendProperties
    <3> QED
      BY <1>5, <3>1, LenProperties
  <2>5. \A i \in DOMAIN entry'[p] : entry'[p][i].value # None =>
          \E k \in 0 .. Top(p)' :
             /\ Top(p)' - k < header'[p][Gens(p)'].cap /\ i = Now(p, ph, k)'
             /\ \A m \in k .. Top(p)' : entry'[p][Now(p, ph, m)'].key = m * BlockSize
    BY <1>5, <1>17, <2>1, <2>3
  <2>6. \A j \in DOMAIN Chain(p)' : Holds(p, ph, Known(p) + j, Chain(p)[j])'
    BY <1>5, <1>17, <2>2, <2>4 DEF Holds
  <2> QED
    BY <1>5, <2>5, <2>6 DEF Keyed
<1>21. KeysKept(p, ph)
  BY <1>15 DEF KeysKept
<1>22. ASSUME NEW c \in Consumer, Takes(c, p)' PROVE FindsRight(p, ph, TakenBy(c))'
  <2>1. PICK l : l = TakenBy(c)
    OBVIOUS
  <2>2. Takes(c, p) /\ TakenBy(c)' = l
    BY <1>22, <2>1, ProducerTakes DEF SetStep
  <2>3. FindsRight(p, ph, l) /\ (l.pc # "find" => l.slot \in Nat)
    BY <1>0, <1>2, <2>1, <2>2, TakesLocal
  <2>4. FindsRight(p, ph, l)'
    BY <1>0, <1>2, <1>7, <1>16, <1>21, <2>3, FindsKept
  <2> QED
    BY <2>2, <2>4 DEF FindsRight
<1>23. IndexInv(p)'
  BY <1>18, <1>20, <1>22 DEF IndexInv, Phased, Phases
<1>24. IndexTyped'
  BY <1>0, <1>8, <1>14, Typed DEF IndexTyped
<1> QED
  BY <1>3, <1>4, <1>6, <1>10, <1>11, <1>14, <1>23, <1>24

-----------------------------------------------------------------------------
(* The elements: all those of the new block are still to come.              *)

\* Nothing is read yet of a block that starts behind the last element.
LEMMA UnreadNew ==
    ASSUME CountTypes, Types, NEW p \in Producer, head[p] <= tail[p], NEW k \in Int, Known(p) < k
    PROVE  /\ Unread(p, k) = k * BlockSize .. k * BlockSize + BlockSize - 1
           /\ Cardinality(Unread(p, k)) = BlockSize /\ Unread(p, k) # {}
           /\ \A j \in Unread(p, k) : ~ j < Written(p)
<1>1. /\ Known(p) \in Int /\ Written(p) \in Nat /\ tail[p] <= Written(p) /\ tail[p] \in Nat /\ head[p] \in Nat
      /\ Written(p) <= (Known(p) + 1) * BlockSize
  BY NumTypes
<1>2. PICK x \in Int : x = (Known(p) + 1) * BlockSize
  BY <1>1, Scale
<1>3. PICK y \in Int : y = k * BlockSize
  BY Scale
<1>4. x <= y
  <2>1. PICK a \in Int : a = Known(p) + 1
    BY <1>1
  <2>2. a <= k
    BY <1>1, <2>1
  <2> QED
    BY <1>2, <1>3, <2>1, <2>2, Scale
<1>5. BlockSize \in Nat \ {0}
  BY Sizes
<1>6. \A j \in y .. y + BlockSize - 1 : j \in Int /\ j >= head[p] /\ ~ j < Written(p)
  BY <1>1, <1>2, <1>4, <1>5
<1>7. Unread(p, k) = y .. y + BlockSize - 1
  BY <1>3, <1>6 DEF Unread
<1>8. Cardinality(y .. y + BlockSize - 1) = BlockSize
  <2>1. PICK z \in Int : z = y + BlockSize - 1
    BY <1>5
  <2>2. y <= z /\ z - y + 1 = BlockSize
    BY <1>5, <2>1
  <2>3. Cardinality(y .. z) = IF y > z THEN 0 ELSE z - y + 1
    BY FS_Interval
  <2> QED
    BY <2>1, <2>2, <2>3
<1>9. y \in y .. y + BlockSize - 1
  BY <1>5
<1> QED
  BY <1>3, <1>6, <1>7, <1>8, <1>9

LEMMA SetLive ==
    ASSUME IInv, NEW p \in Producer, Local(p).pc \in {"pool", "malloc"}, NEW b \in Block, SetStep(p, b),
           Unplaced(b)
    PROVE  LiveInv(p)'
<1>0. Types /\ CountTypes /\ LiveInv(p)
  BY DEF IInv, Rest, CountedInv, Owned
<1>1. PICK top \in Int : top = Top(p)
  BY <1>0, NumTypes
<1>2. PICK e : e = Tried(p)
  OBVIOUS
<1>3. /\ Known(p)' = Known(p) /\ Written(p)' = Written(p) /\ Known(p) < top
      /\ UNCHANGED head /\ UNCHANGED tail /\ UNCHANGED tailBlock
  <2>1. Known(p)' = Known(p) /\ Written(p)' = Written(p) /\ top = Known(p) + Len(Chain(p)) + 1
    BY <1>1, SetNames
  <2>2. Known(p) \in Int /\ Len(Chain(p)) \in Nat
    BY <1>0, NumTypes
  <2> QED
    BY <2>1, <2>2 DEF SetStep
<1>4. /\ e \in DOMAIN entry[p] /\ entry[p][e].value = None
      /\ DOMAIN entry'[p] = DOMAIN entry[p]
      /\ entry'[p][e] = [key |-> top * BlockSize, value |-> b]
      /\ \A i \in DOMAIN entry[p] : i # e => entry'[p][i] = entry[p][i]
  BY <1>1, <1>2, SetIndex
<1>5. PICK l : th' = [th EXCEPT ![p] = l]
  BY DEF SetStep
<1>6. /\ \A k : Unread(p, k)' = Unread(p, k)
      /\ Apart(p)'
      /\ \A c \in Consumer : \A k : Forgets(c, p, k)' <=> Forgets(c, p, k)
  BY <1>0, <1>3, <1>5, ProducerFrame, ProducerUnread DEF LiveInv
<1>7. b # None /\ block \in [Block -> BlockType]
  BY <1>0, RolesDiffer, Typed DEF BlocksTyped
<1>8. \A k \in Int : \A i : Used(p, k, i)' <=> Used(p, k, i) \/ (k = top /\ i = e)
  <2> SUFFICES ASSUME NEW k \in Int, NEW i PROVE Used(p, k, i)' <=> Used(p, k, i) \/ (k = top /\ i = e)
    OBVIOUS
  <2>1. CASE i = e
    <3>1. Used(p, k, i)' <=> top * BlockSize = k * BlockSize
      BY <1>4, <1>7, <2>1 DEF Used
    <3>2. ~ Used(p, k, i)
      BY <1>4, <2>1 DEF Used
    <3> QED
      BY <2>1, <3>1, <3>2, Scale
  <2>2. CASE i # e
    BY <1>4, <2>2 DEF Used
  <2> QED
    BY <2>1, <2>2
<1>9. \A k, i : Used(p, k, i) => i \in DOMAIN entry[p] /\ i # e /\ entry[p][i].value # b
  BY <1>4 DEF Used, Unplaced, Indexed
<1>10. head'[p] <= tail'[p] /\ head[p] <= tail[p]
  BY <1>0, <1>3 DEF LiveInv
<1>11. Backed(p)'
  <2>1. \A k \in 0 .. Known(p) : Unread(p, k) # {} => \E i \in DOMAIN entry'[p] : Used(p, k, i)'
    <3> SUFFICES ASSUME NEW k \in 0 .. Known(p), Unread(p, k) # {} PROVE \E i \in DOMAIN entry'[p] : Used(p, k, i)'
      OBVIOUS
    <3>1. PICK i \in DOMAIN entry[p] : Used(p, k, i)
      BY <1>0 DEF LiveInv, Backed
    <3>2. k \in Int
      BY <1>0, NumTypes
    <3>3. Used(p, k, i)' /\ i \in DOMAIN entry'[p]
      BY <1>4, <1>8, <3>1, <3>2
    <3> QED
      BY <3>3
  <2> QED
    BY <1>3, <1>6, <2>1 DEF Backed
<1>12. Filled(p)'
  <2> SUFFICES ASSUME NEW k \in Nat, NEW i, Used(p, k, i)' PROVE Fills(p, k, entry[p][i].value)'
    BY DEF Filled
  <2>1. CASE Used(p, k, i)
    <3>1. PICK v : v = entry[p][i].value
      OBVIOUS
    <3>2. Fills(p, k, v) /\ v # b
      BY <1>0, <1>9, <2>1, <3>1 DEF LiveInv, Filled
    <3>3. block'[v] = block[v] /\ entry'[p][i].value = v
      BY <1>4, <1>7, <1>9, <2>1, <3>1, <3>2 DEF SetStep
    <3>4. Fills(p, k, v)'
      BY <1>3, <1>6, <3>2, <3>3 DEF Fills
    <3> QED
      BY <3>3, <3>4 DEF Fills
  <2>2. CASE ~ Used(p, k, i)
    <3>1. k = top /\ i = e
      BY <1>8, <2>2
    <3>2. Cardinality(Unread(p, k)) = BlockSize /\ \A j \in Unread(p, k) : ~ j < Written(p)
      BY <1>0, <1>3, <1>10, <3>1, UnreadNew
    <3>3. block'[b].done = 0 /\ 0 = BlockSize - BlockSize
      BY <1>7, Sizes DEF SetStep, BlockType
    <3>4. k # Known(p)
      BY <1>0, <1>3, <3>1, NumTypes
    <3>5. Fills(p, k, b)'
      BY <1>3, <1>6, <3>2, <3>3, <3>4 DEF Fills
    <3>6. entry'[p][i].value = b
      BY <1>4, <3>1
    <3> QED
      BY <3>5, <3>6 DEF Fills
  <2> QED
    BY <2>1, <2>2
<1>13. Emptied(p)'
  <2>1. \A k \in Nat : \A i : Used(p, k, i)' /\ Unread(p, k) = {} => \E c \in Consumer : Forgets(c, p, k)
    <3> SUFFICES ASSUME NEW k \in Nat, NEW i, Used(p, k, i)', Unread(p, k) = {} PROVE \E c \in Consumer : Forgets(c, p, k)
      OBVIOUS
    <3>1. k # top
      BY <1>0, <1>3, <1>10, UnreadNew
    <3>2. Used(p, k, i)
      BY <1>8, <3>1
    <3> QED
      BY <1>0, <1>9, <3>2 DEF LiveInv, Emptied
  <2>2. \A k \in Nat : \A c \in Consumer : Forgets(c, p, k) =>
         /\ Unread(p, k) = {} /\ \E i \in DOMAIN entry'[p] : Used(p, k, i)'
         /\ \A d \in Consumer : Forgets(d, p, k) => d = c
    BY <1>0, <1>4, <1>8 DEF LiveInv, Emptied
  <2> QED
    BY <1>6, <2>1, <2>2 DEF Emptied
<1> QED
  BY <1>6, <1>10, <1>11, <1>12, <1>13 DEF LiveInv

LEMMA SetOwned ==
    ASSUME IInv, NEW p \in Producer, Local(p).pc \in {"pool", "malloc"}, NEW b \in Block, SetStep(p, b),
           Unplaced(b)
    PROVE  IndexTyped' /\ BlocksTyped' /\ \A q \in Producer : Owned(q)'
<1>0. Types /\ CountTypes
  BY DEF IInv, Rest, CountedInv
<1>1. Owned(p)' /\ IndexTyped'
  BY SetNames, SetIndex, SetLive DEF Owned
<1>2. block \in [Block -> BlockType] /\ tailBlock \in [Producer -> Link]
  BY <1>0, Typed DEF BlocksTyped
<1>3. BlocksTyped'
  BY <1>2 DEF SetStep, BlocksTyped, BlockType
<1>4. ASSUME NEW q \in Producer, q # p PROVE Owned(q)'
  <2>1. entry'[q] = entry[q] /\ UNCHANGED header /\ UNCHANGED tail /\ UNCHANGED tailBlock /\ UNCHANGED head
    BY <1>4, SetIndex DEF SetStep
  <2>2. PICK l : th' = [th EXCEPT ![p] = l]
    BY DEF SetStep
  <2>3. \A i \in DOMAIN entry[q] : entry[q][i].value # None => block'[entry[q][i].value] = block[entry[q][i].value]
    <3>1. \A i \in DOMAIN entry[q] : entry[q][i].value # b
      BY DEF Unplaced, Indexed
    <3> QED
      BY <1>2, <3>1 DEF SetStep
  <2> QED
    BY <1>4, <2>1, <2>2, <2>3, OthersOwned
<1> QED
  BY <1>1, <1>3, <1>4

-----------------------------------------------------------------------------
(* So each way to find a block (concurrentqueue.h:3050-3092) keeps the      *)
(* invariant: the pool, malloc, the free list.                              *)

\* A step that finds a block and puts it into the entry of the call.
LEMMA SetRest ==
    ASSUME IInv, NEW p \in Producer, Local(p).pc \in {"pool", "malloc"}, NEW b \in Block, SetStep(p, b),
           Comes(p, b), UNCHANGED <<free, next>>, refs' \in [Block -> [n : Nat, should : BOOLEAN]],
           fresh' \subseteq Block, pooled' \in Nat, Cardinality(fresh') >= PoolSize - pooled', pooled' >= pooled,
           ~ broken'
    PROVE  Rest'
<1>0. Types /\ CountTypes /\ Safe /\ DOMAIN th = Thread /\ PoolInv /\ p \in Thread /\ p \notin Consumer
  BY IsSafe, Roles DEF IInv, Rest, Thread
<1>1. Unplaced(b)
  <2>1. Once(b)
    BY DEF IInv, Rest, PlaceInv
  <2>2. CASE b \in fresh
    <3>1. Spot(b, "fresh", None, 0)
      BY <2>2 DEF Spot
    <3>2. \A l, y, j : Spot(b, l, y, j) => l = "fresh"
      BY <2>1, <3>1, SpotOnly
    <3>3. \A x, i : Indexed(b, x, i) => Spot(b, "index", x, i)
      BY DEF Spot, Indexed
    <3> QED
      BY <3>2, <3>3 DEF Unplaced
  <2>3. CASE Obtains(th[p], b)
    <3>1. b \in Hands(th[p])
      BY <2>3 DEF Obtains, Hands, Putting
    <3>2. Spot(b, "hand", p, 0)
      BY <1>0, <3>1 DEF Spot
    <3>3. \A l, y, j : Spot(b, l, y, j) => l = "hand"
      BY <2>1, <3>2, SpotOnly
    <3>4. \A x, i : Indexed(b, x, i) => Spot(b, "index", x, i)
      BY DEF Spot, Indexed
    <3> QED
      BY <3>3, <3>4 DEF Unplaced
  <2> QED
    BY <2>2, <2>3 DEF Comes
<1>2. IndexTyped' /\ BlocksTyped' /\ \A q \in Producer : Owned(q)'
  BY <1>1, SetOwned
<1>3. PICK l : l = Found(Local(p), b)
  OBVIOUS
<1>4. l \in CallAt({"place", "index"}) /\ th' = [th EXCEPT ![p] = l]
  <2>1. Found(Local(p), b) \in CallAt({"place", "index"})
    BY FoundFields
  <2> QED
    BY <1>3, <2>1 DEF SetStep
<1>5. l.pc \in {"place", "index"} /\ "then" \notin DOMAIN l /\ l \in CallAt(Calls)
  BY <1>4 DEF CallAt, Calls
<1>6. PICK e : e = Tried(p)
  OBVIOUS
<1>7. e \in DOMAIN entry[p] /\ entry[p][e].value = None /\ entry' = [entry EXCEPT ![p][e].value = b]
  BY <1>6, SetIndex DEF SetStep, ValueSet
<1>8. PlaceInv'
  BY <1>0, <1>4, <1>5, <1>7, BlockComes
<1>9. th'[p] = l /\ \A t \in Thread : t # p => th'[t] = th[t]
  BY <1>0, <1>4
<1>10. l \in Enq
  BY <1>5, CallLocal
<1>11. (\A q \in Producer : th'[q] \in Enq) /\ (\A c \in Consumer : Deq(th'[c]))
  <2>1. ASSUME NEW q \in Producer PROVE th'[q] \in Enq
    BY <1>0, <1>9, <1>10 DEF Types, Thread
  <2>2. ASSUME NEW c \in Consumer PROVE Deq(th'[c])
    BY <1>0, <1>9 DEF Types, Thread
  <2> QED
    BY <2>1, <2>2
<1>12. Types'
  BY <1>0, <1>2, <1>11 DEF Types, IndexTyped, BlocksTyped, BlockType, EntryType
<1>13. PoolInv'
  <2>1. ASSUME NEW q \in Producer, (Local(q).pc \in {"pool", "malloc"} /\ ~ At(q, "pool"))' PROVE pooled' >= PoolSize
    <3>1. q # p
      <4>1. Local(p)' = l
        BY <1>3, SetNames
      <4> QED
        BY <1>5, <2>1, <4>1
    <3>2. th'[q] = th[q]
      BY <1>9, <3>1 DEF Thread
    <3>3. pooled >= PoolSize
      BY <1>0, <2>1, <3>2 DEF PoolInv, Local, At
    <3> QED
      BY <3>3, PoolFull
  <2> QED
    BY <2>1 DEF PoolInv
<1> QED
  BY <1>2, <1>8, <1>12, <1>13 DEF Rest

LEMMA CallIs ==
    ASSUME IInv, NEW p \in Producer, th[p].pc \in {"pool", "malloc"}
    PROVE  Local(p) = th[p]
BY IsSafe, LocalCall DEF Calls

LEMMA FreshRest ==
    ASSUME IInv, NEW p \in Producer, th[p].pc \in {"pool", "malloc"}, fresh # {}, FreshBlock(p),
           \/ th[p].pc = "pool" /\ pooled < PoolSize /\ pooled' = pooled + 1
           \/ th[p].pc = "malloc" /\ UNCHANGED pooled,
           UNCHANGED <<header, tailBlock, free, refs, next, broken>>, UNCHANGED head, UNCHANGED tail
    PROVE  Rest'
<1>1. PICK b : b = CHOOSE x \in fresh : TRUE
  OBVIOUS
<1>2. b \in fresh /\ b \in Block /\ Local(p) = th[p]
  BY <1>1, IsSafe, CallIs DEF Types
<1>3. SetStep(p, b) /\ fresh' = fresh \ {b}
  BY <1>1, <1>2 DEF FreshBlock, SetBlock, SetStep, ValueSet, Found, Go, Tried
<1>4. Comes(p, b)
  BY <1>2, <1>3 DEF Comes
<1>5. IsFiniteSet(fresh) /\ Cardinality(fresh) \in Nat /\ Cardinality(fresh') = Cardinality(fresh) - 1
      /\ Cardinality(fresh') \in Nat
  <2>1. IsFiniteSet(Block) /\ fresh \subseteq Block
    BY RolesDiffer, FS_Subset, IsSafe DEF Types
  <2>2. IsFiniteSet(fresh)
    BY <2>1, FS_Subset
  <2>3. IsFiniteSet(fresh \ {b}) /\ Cardinality(fresh \ {b}) = Cardinality(fresh) - 1
    BY <1>2, <2>2, FS_RemoveElement
  <2> QED
    BY <1>3, <2>2, <2>3, FS_CardinalityType
<1>6. pooled \in Nat /\ PoolSize \in Nat /\ Cardinality(fresh) >= PoolSize - pooled
  BY PoolFull DEF IInv, Rest, PoolInv
<1>7. pooled' \in Nat /\ pooled' >= pooled /\ Cardinality(fresh') >= PoolSize - pooled'
  <2>1. CASE th[p].pc = "pool"
    BY <1>5, <1>6, <2>1
  <2>2. CASE th[p].pc = "malloc"
    <3>1. pooled >= PoolSize
      BY <1>2, <2>2 DEF IInv, Rest, PoolInv, At
    <3> QED
      BY <1>5, <1>6, <2>2, <3>1
  <2> QED
    BY <2>1, <2>2
<1>8. fresh' \subseteq Block /\ refs' \in [Block -> [n : Nat, should : BOOLEAN]] /\ ~ broken'
  BY <1>3, IsSafe DEF Types, IInv, Rest
<1> QED
  BY <1>2, <1>3, <1>4, <1>7, <1>8, SetRest

LEMMA FromPoolRest ==
    ASSUME IInv, NEW p \in Producer, FromPool(p)
    PROVE  Rest'
<1>1. th[p].pc = "pool" /\ UNCHANGED <<header, tailBlock, free, refs, next, broken>> /\ UNCHANGED head /\ UNCHANGED tail
  BY DEF FromPool, At, places, freeList
<1>2. CASE pooled < PoolSize
  <2>1. pooled' = pooled + 1 /\ FreshBlock(p)
    BY <1>2 DEF FromPool
  <2>2. fresh # {}
    <3>1. Cardinality(fresh) >= PoolSize - pooled /\ pooled \in Nat /\ PoolSize \in Nat
      BY PoolFull DEF IInv, Rest, PoolInv
    <3>2. Cardinality({}) = 0
      BY FS_EmptySet
    <3> QED
      BY <1>2, <3>1, <3>2
  <2> QED
    BY <1>1, <1>2, <2>1, <2>2, FreshRest
<1>3. CASE ~ pooled < PoolSize
  BY <1>3, PoolEmptyRest
<1> QED
  BY <1>2, <1>3

LEMMA MallocRest ==
    ASSUME IInv, NEW p \in Producer, Malloc(p)
    PROVE  Rest'
<1>1. th[p].pc = "malloc" /\ UNCHANGED <<header, tailBlock, free, refs, next, broken>> /\ UNCHANGED head /\ UNCHANGED tail
      /\ UNCHANGED pooled /\ UNCHANGED freeList
  BY DEF Malloc, At, places, freeList
<1>2. CASE fresh # {} /\ FreshBlock(p)
  BY <1>1, <1>2, FreshRest
<1>3. CASE GoTo(p, "undo") /\ UNCHANGED <<fresh, block, entry>>
  BY <1>1, <1>3, ToUndoRest DEF Malloc, memory, index, IInv, Rest
<1> QED
  BY <1>2, <1>3 DEF Malloc

LEMMA FromFreeListRest ==
    ASSUME IInv, NEW p \in Producer, FromFreeList(p)
    PROVE  Rest'
<1>1. /\ th[p].pc = "getDone" /\ UNCHANGED <<header, tailBlock, free, next, fresh, pooled>> /\ UNCHANGED head /\ UNCHANGED tail
      /\ broken' = (broken \/ refs[th[p].node].should) /\ refs' = [refs EXCEPT ![th[p].node].n = @ - 2]
      /\ SetBlock(p, th[p].then, th[p].node)
  BY DEF FromFreeList, At, places, memory
<1>2. Local(p) = th[p].then /\ Local(p).pc = "pool" /\ p \in Thread
  BY <1>1, IsSafe, LocalCall, Roles DEF Thread
<1>3. PICK b : b = th[p].node
  OBVIOUS
<1>4. b \in Block
  BY <1>1, <1>3, IsSafe, GetShape, <1>2 DEF GetIn
<1>5. Obtains(th[p], b) /\ b \in Hands(th[p])
  BY <1>1, <1>3 DEF Obtains, Hands, Putting
<1>6. Once(b) /\ Refs(b) /\ refs[b].n \in Nat /\ refs[b].should \in BOOLEAN
  BY <1>4, IsSafe DEF IInv, Rest, PlaceInv, Types
<1>7. Spot(b, "hand", p, 0)
  BY <1>2, <1>5 DEF Spot
<1>8. \A k, y, j : Spot(b, k, y, j) => k = "hand" /\ y = p
  BY <1>6, <1>7, SpotOnly
<1>9. ~ LeftOver(b) /\ b \notin FreeBlocks
  <2>1. LeftOver(b) => Spot(b, "left", None, 0)
    BY DEF Spot
  <2>2. b \in FreeBlocks => Spot(b, "free", None, 0)
    BY DEF Spot
  <2> QED
    BY <1>8, <2>1, <2>2
<1>10. refs[b].n >= 2
  <2>1. \A t \in Thread : ~ Returns(th[t], b)
    <3> SUFFICES ASSUME NEW t \in Thread, Returns(th[t], b) PROVE FALSE
      OBVIOUS
    <3>1. b \in Hands(th[t])
      BY DEF Returns, Hands, Putting
    <3>2. Spot(b, "hand", t, 0)
      BY <3>1 DEF Spot
    <3>3. t = p
      BY <1>8, <3>2
    <3> QED
      BY <1>1, <3>3 DEF Returns
  <2>2. Extra(b) = 2
    BY <1>2, <1>5, <1>9, <2>1 DEF Extra
  <2>3. Cardinality(Readers(b)) \in Nat
    BY ReadersFinite
  <2> QED
    BY <1>6, <2>2, <2>3 DEF Refs
<1>11. ~ refs[b].should
  BY <1>6, <1>9, <1>10 DEF LeftOver
<1>12. ~ broken'
  BY <1>1, <1>3, <1>11, Zenon DEF IInv, Rest
<1>13. refs' = [refs EXCEPT ![b].n = @ - 2] /\ SetBlock(p, th[p].then, b)
  BY <1>1, <1>3
<1>14. refs' \in [Block -> [n : Nat, should : BOOLEAN]]
  <2>1. refs \in [Block -> [n : Nat, should : BOOLEAN]] /\ refs[b].n - 2 \in Nat
    BY <1>6, <1>10, IsSafe DEF Types
  <2> QED
    BY <1>13, <2>1
<1>15. SetStep(p, b)
  BY <1>1, <1>2, <1>13 DEF SetBlock, SetStep, ValueSet, Found, Go, Tried
<1>16. Comes(p, b)
  BY <1>1, <1>2, <1>5, <1>13 DEF Comes
<1>17. fresh' \subseteq Block /\ pooled' \in Nat /\ Cardinality(fresh') >= PoolSize - pooled' /\ pooled' >= pooled
  BY <1>1, IsSafe DEF Types, IInv, Rest, PoolInv
<1> QED
  BY <1>1, <1>2, <1>4, <1>12, <1>14, <1>15, <1>16, <1>17, SetRest

-----------------------------------------------------------------------------
(* A call that fails rewinds the tail of the index (concurrentqueue.h:2642-2664). *)

\* undo empties the entries of the blocks of the call and the one it was trying.
Undone(p) == Emptying(p, Chain(p), Tried(p))

LEMMA UndoneFields ==
    ASSUME Types, NEW p \in Producer, Undone(p)
    PROVE  /\ entry' \in [Producer -> Seq(EntryType)] /\ \A q \in Producer : q # p => entry'[q] = entry[q]
           /\ DOMAIN entry'[p] = DOMAIN entry[p] /\ Len(entry'[p]) = Len(entry[p])
           /\ \A i \in DOMAIN entry[p] :
                 /\ entry'[p][i].key = entry[p][i].key
                 /\ IF i = Tried(p) \/ entry[p][i].value \in ToSet(Chain(p))
                    THEN entry'[p][i].value = None ELSE entry'[p][i] = entry[p][i]
<1>0. entry \in [Producer -> Seq(EntryType)]
  BY Typed DEF IndexTyped
<1>1. PICK m \in Nat : m = Len(entry[p]) /\ DOMAIN entry[p] = 1 .. m
  BY <1>0, LenProperties
<1>2. PICK f : f = [i \in 1 .. m |->
                 IF i = Tried(p) \/ entry[p][i].value \in ToSet(Chain(p))
                 THEN [entry[p][i] EXCEPT !.value = None] ELSE entry[p][i]]
  OBVIOUS
<1>3. entry' = [entry EXCEPT ![p] = f]
  BY <1>0, <1>1, <1>2 DEF Undone, Emptying
<1>4. \A i \in 1 .. m : entry[p][i] \in EntryType
  BY <1>0, <1>1
<1>5. ASSUME NEW i \in 1 .. m
      PROVE  /\ f[i] \in EntryType /\ f[i].key = entry[p][i].key
             /\ IF i = Tried(p) \/ entry[p][i].value \in ToSet(Chain(p))
                THEN f[i].value = None ELSE f[i] = entry[p][i]
  <2>1. PICK e \in EntryType : e = entry[p][i]
    BY <1>4, <1>5
  <2>2. /\ [e EXCEPT !.value = None] \in EntryType /\ [e EXCEPT !.value = None].key = e.key
        /\ [e EXCEPT !.value = None].value = None
    BY <2>1 DEF EntryType, Link
  <2> QED
    BY <1>2, <1>5, <2>1, <2>2
<1>6. f \in Seq(EntryType) /\ Len(f) = m /\ DOMAIN f = 1 .. m
  <2>1. DOMAIN f = 1 .. m /\ \A i \in 1 .. m : f[i] \in EntryType
    BY <1>2, <1>5
  <2>2. f \in [1 .. m -> EntryType]
    BY <1>2, <1>5
  <2> QED
    BY <1>1, <2>1, <2>2, IsASeq, LenProperties
<1>7. entry'[p] = f /\ \A q \in Producer : q # p => entry'[q] = entry[q]
  BY <1>0, <1>3
<1> QED
  BY <1>0, <1>1, <1>3, <1>5, <1>6, <1>7

\* The blocks of a call are in the entries after those of its tail.
LEMMA ChainHeld ==
    ASSUME IInv, NEW p \in Producer, NEW ph \in Phases(p), Phased(p, ph)
    PROVE  /\ Injective(Chain(p)) /\ Chain(p) \in Seq(Block)
           /\ \A j \in DOMAIN Chain(p) : Gens(p) # 0 /\ Indexed(Chain(p)[j], p, Now(p, ph, Known(p) + j))
           /\ \A b \in ToSet(Chain(p)) : \E i : Indexed(b, p, i)
           /\ Tried(p) \in DOMAIN entry[p] => entry[p][Tried(p)].value = None
           /\ Gens(p) = 0 => Chain(p) = <<>> /\ Tried(p) = None
<1>0. Types /\ CountTypes /\ PlaceInv
  BY DEF IInv, Rest, CountedInv
<1>1. Chained(p, ph) /\ Keyed(p, ph)
  BY DEF Phased
<1>2. Chain(p) \in Seq(Block) /\ DOMAIN Chain(p) = 1 .. Len(Chain(p)) /\ Len(Chain(p)) \in Nat /\ Known(p) \in Int
      /\ Known(p) >= -1
  BY <1>0, NumTypes
<1>3. ASSUME Gens(p) = 0 PROVE Chain(p) = <<>> /\ Tried(p) = None
  <2>1. Top(p) = -1 /\ entry[p] = <<>>
    BY <1>1, <1>3 DEF Chained
  <2>2. Tried(p) = None /\ Top(p) >= Known(p) + Len(Chain(p))
    <3>1. DOMAIN entry[p] = {}
      BY <2>1
    <3> QED
      BY <1>0, <1>1, <3>1, NumTypes DEF Keyed
  <2>3. Len(Chain(p)) = 0
    BY <1>2, <2>1, <2>2
  <2> QED
    BY <1>2, <2>2, <2>3, EmptySeq
<1>4. ASSUME NEW j \in DOMAIN Chain(p)
      PROVE  /\ Gens(p) # 0 /\ Indexed(Chain(p)[j], p, Now(p, ph, Known(p) + j)) /\ Chain(p)[j] \in Block
             /\ entry[p][Now(p, ph, Known(p) + j)].key = (Known(p) + j) * BlockSize
  <2>1. Gens(p) # 0
    <3>1. Chain(p) # <<>>
      BY <1>4
    <3> QED
      BY <1>3, <3>1
  <2>2. Known(p) + j \in Int /\ Chain(p)[j] \in Block
    BY <1>2, <1>4, ElementOfSeq
  <2>3. Now(p, ph, Known(p) + j) \in DOMAIN entry[p]
    BY <1>0, <1>1, <2>1, <2>2, NowFacts
  <2>4. entry[p][Now(p, ph, Known(p) + j)] = [key |-> (Known(p) + j) * BlockSize, value |-> Chain(p)[j]]
    BY <1>1, <1>4 DEF Keyed, Holds
  <2> QED
    BY <2>1, <2>2, <2>3, <2>4 DEF Indexed
<1>5. Injective(Chain(p))
  <2> SUFFICES ASSUME NEW i \in DOMAIN Chain(p), NEW j \in DOMAIN Chain(p), Chain(p)[i] = Chain(p)[j]
               PROVE  i = j
    BY DEF Injective
  <2>1. PICK b \in Block : b = Chain(p)[i]
    BY <1>4
  <2>2. PICK x, y : x = Now(p, ph, Known(p) + i) /\ y = Now(p, ph, Known(p) + j)
    OBVIOUS
  <2>3. Indexed(b, p, x) /\ Indexed(b, p, y)
    BY <1>4, <2>1, <2>2
  <2>4. Spot(b, "index", p, x) /\ Spot(b, "index", p, y)
    BY <2>3 DEF Spot, Indexed
  <2>5. Once(b)
    BY <1>0, <2>1 DEF PlaceInv
  <2>6. y = x
    BY <2>4, <2>5, SpotOnly
  <2>7. (Known(p) + i) * BlockSize = (Known(p) + j) * BlockSize
    BY <1>4, <2>2, <2>6
  <2>8. i \in Int /\ j \in Int /\ Known(p) + i \in Int /\ Known(p) + j \in Int
    BY <1>2
  <2>9. Known(p) + i = Known(p) + j
    BY <2>7, <2>8, Scale
  <2> QED
    BY <1>2, <2>8, <2>9
<1>6. \A b \in ToSet(Chain(p)) : \E i : Indexed(b, p, i)
  <2> SUFFICES ASSUME NEW b \in ToSet(Chain(p)) PROVE \E i : Indexed(b, p, i)
    OBVIOUS
  <2>1. PICK j \in DOMAIN Chain(p) : b = Chain(p)[j]
    BY DEF ToSet
  <2> QED
    BY <1>4, <2>1
<1>7. Tried(p) \in DOMAIN entry[p] => entry[p][Tried(p)].value = None
  <2>1. DOMAIN entry[p] \subseteq Int
    BY <1>0, EntryFields
  <2>2. ASSUME Tried(p) \in DOMAIN entry[p] PROVE entry[p][Tried(p)].value = None
    <3>1. Tried(p) # None
      BY <2>1, <2>2, RolesDiffer
    <3> QED
      BY <1>1, <3>1 DEF Keyed, Holds
  <2> QED
    BY <2>2
<1> QED
  BY <1>2, <1>3, <1>4, <1>5, <1>6, <1>7

-----------------------------------------------------------------------------
(* The blocks of the call leave the index, those of earlier calls stay.     *)

\* What undo leaves in use.
LEMMA UndoLeft ==
    ASSUME IInv, NEW p \in Producer, NEW ph \in Phases(p), Phased(p, ph), Undone(p),
           NEW i \in DOMAIN entry[p], entry'[p][i].value # None, NEW k \in Int, k <= Top(p), i = Now(p, ph, k)
    PROVE  k <= Known(p) /\ entry'[p][i] = entry[p][i]
<1>0. Types /\ CountTypes /\ Chained(p, ph) /\ Keyed(p, ph)
  BY DEF IInv, Rest, CountedInv, Phased
<1>1. i # Tried(p) /\ entry[p][i].value \notin ToSet(Chain(p)) /\ entry'[p][i] = entry[p][i]
  BY <1>0, UndoneFields
<1>2. ASSUME Known(p) < k PROVE FALSE
  <2>1. Known(p) \in Int /\ Top(p) \in Int /\ Len(Chain(p)) \in Nat /\ DOMAIN Chain(p) = 1 .. Len(Chain(p))
        /\ (Tried(p) = None => Top(p) = Known(p) + Len(Chain(p)))
        /\ (Tried(p) # None => Top(p) = Known(p) + Len(Chain(p)) + 1)
    BY <1>0, NumTypes
  <2>2. CASE k <= Known(p) + Len(Chain(p))
    <3>1. PICK j \in Int : j = k - Known(p)
      BY <2>1
    <3>2. j \in DOMAIN Chain(p) /\ Known(p) + j = k
      BY <1>2, <2>1, <2>2, <3>1
    <3>3. Indexed(Chain(p)[j], p, Now(p, ph, Known(p) + j))
      BY <3>2, ChainHeld
    <3>4. entry[p][i].value = Chain(p)[j]
      BY <3>2, <3>3 DEF Indexed
    <3> QED
      BY <1>1, <3>2, <3>4 DEF ToSet
  <2>3. CASE ~ k <= Known(p) + Len(Chain(p))
    <3>1. Tried(p) # None /\ k = Top(p)
      BY <2>1, <2>3
    <3>2. Tried(p) = i
      BY <1>0, <3>1 DEF Keyed
    <3> QED
      BY <1>1, <3>2
  <2> QED
    BY <2>2, <2>3
<1>3. Known(p) \in Int
  BY <1>0, NumTypes
<1> QED
  BY <1>1, <1>2, <1>3

LEMMA UndoUsed ==
    ASSUME IInv, NEW p \in Producer, NEW ph \in Phases(p), Phased(p, ph), Undone(p)
    PROVE  \A k \in Int : \A i : /\ Used(p, k, i)' <=> Used(p, k, i) /\ k <= Known(p)
                                 /\ Used(p, k, i)' => entry'[p][i] = entry[p][i]
<1>0. Types /\ CountTypes /\ Chained(p, ph) /\ Keyed(p, ph) /\ PlaceInv
  BY DEF IInv, Rest, CountedInv, Phased
<1>1. /\ DOMAIN entry'[p] = DOMAIN entry[p]
      /\ \A i \in DOMAIN entry[p] :
            IF i = Tried(p) \/ entry[p][i].value \in ToSet(Chain(p))
            THEN entry'[p][i].value = None ELSE entry'[p][i] = entry[p][i]
  BY <1>0, UndoneFields
<1>2. ASSUME NEW k \in Int, NEW i, Used(p, k, i)'
      PROVE  Used(p, k, i) /\ k <= Known(p) /\ entry'[p][i] = entry[p][i]
  <2>1. i \in DOMAIN entry[p] /\ entry'[p][i].value # None
    BY <1>1, <1>2 DEF Used
  <2>2. entry'[p][i] = entry[p][i] /\ Used(p, k, i)
    BY <1>1, <1>2, <2>1 DEF Used
  <2>3. i = Now(p, ph, k) /\ k <= Top(p)
    BY <1>0, <2>2, UsedAt
  <2>4. k <= Known(p)
    BY <2>1, <2>3, UndoLeft
  <2> QED
    BY <2>2, <2>4
<1>3. ASSUME NEW k \in Int, NEW i, Used(p, k, i), k <= Known(p) PROVE Used(p, k, i)'
  <2>1. i \in DOMAIN entry[p] /\ entry[p][i].value # None /\ entry[p][i].key = k * BlockSize
    BY <1>3 DEF Used
  <2>2. ASSUME i = Tried(p) PROVE FALSE
    BY <2>1, <2>2, ChainHeld
  <2>3. ASSUME entry[p][i].value \in ToSet(Chain(p)) PROVE FALSE
    <3>1. PICK j \in DOMAIN Chain(p) : entry[p][i].value = Chain(p)[j]
      BY <2>3 DEF ToSet
    <3>2. PICK b \in Block : b = Chain(p)[j]
      BY <3>1, ChainHeld, ElementOfSeq
    <3>3. PICK x : x = Now(p, ph, Known(p) + j)
      OBVIOUS
    <3>4. Spot(b, "index", p, x) /\ Spot(b, "index", p, i) /\ Once(b)
      <4>1. Indexed(b, p, x) /\ Indexed(b, p, i)
        BY <2>1, <3>1, <3>2, <3>3, ChainHeld DEF Indexed
      <4> QED
        BY <1>0, <3>2, <4>1 DEF Spot, Indexed, PlaceInv
    <3>5. x = i
      BY <3>4, SpotOnly
    <3>6. entry[p][x].key = (Known(p) + j) * BlockSize
      <4>1. Holds(p, ph, Known(p) + j, Chain(p)[j])
        BY <1>0, <3>1 DEF Keyed
      <4> QED
        BY <3>3, <4>1 DEF Holds
    <3>7. Known(p) \in Int /\ j \in Nat \ {0}
      BY <1>0, NumTypes
    <3>8. k = Known(p) + j
      <4>1. PICK m \in Int : m = Known(p) + j
        BY <3>7
      <4>2. k * BlockSize = m * BlockSize
        BY <2>1, <3>5, <3>6, <4>1
      <4> QED
        BY <4>1, <4>2, Scale
    <3> QED
      BY <1>3, <3>7, <3>8
  <2> QED
    BY <1>1, <1>3, <2>1, <2>2, <2>3 DEF Used
<1> QED
  BY <1>2, <1>3

\* The names of a producer that gives its call up.
UndoStep(p) ==
    /\ Local(p).pc # "idle" /\ ~ At(p, "publish") /\ Undone(p)
    /\ header' = IF header[p] = <<>> THEN header
                 ELSE [header EXCEPT ![p] =
                          WithTail(@, (Last(header[p]).tail - Back(p)) % Last(header[p]).cap)]
    /\ Back(p) = Len(Chain(p)) + IF Tried(p) # None THEN 1 ELSE 0
    /\ \E l : l \in GiveUps /\ th' = [th EXCEPT ![p] = l]
    /\ UNCHANGED tail /\ UNCHANGED head

LEMMA UndoNames ==
    ASSUME IInv, NEW p \in Producer, UndoStep(p)
    PROVE  /\ Local(p)' = NoCall /\ Chain(p)' = <<>> /\ Tried(p)' = None
           /\ Written(p)' = Written(p) /\ Known(p)' = Known(p) /\ Top(p)' = Known(p)
           /\ Top(p) = Known(p) + Back(p) /\ Back(p) \in Nat /\ CallInv(p)'
<1>0. Types /\ CountTypes
  BY DEF IInv, Rest, CountedInv
<1>1. PICK l : l \in GiveUps /\ th' = [th EXCEPT ![p] = l]
  BY DEF UndoStep
<1>2. Local(p)' = InCall(l) /\ th'[p] = l
  BY <1>1, ProducerFrame
<1>3. InCall(l) = NoCall /\ l.pc # "publish"
  BY <1>1 DEF GiveUps, Idle, InCall, Calls, NoCall
<1>4. Chain(p)' = <<>> /\ Tried(p)' = None /\ Local(p)' = NoCall
  BY <1>2, <1>3 DEF Chain, Tried, NoCall
<1>5. Written(p)' = Written(p)
  BY <1>2, <1>3 DEF Written, At, UndoStep
<1>6. Known(p)' = Known(p)
  BY <1>5 DEF Known, Num
<1>7. Known(p) \in Int /\ Len(Chain(p)) \in Nat
  BY <1>0, NumTypes
<1>8. Top(p)' = Known(p)
  <2>1. Len(Chain(p)') = 0
    BY <1>4, EmptySeq
  <2>2. Top(p)' = Known(p)' + Len(Chain(p)') + 0
    BY <1>4 DEF Top
  <2> QED
    BY <1>6, <1>7, <2>1, <2>2
<1>9. Top(p) = Known(p) + Back(p) /\ Back(p) \in Nat
  BY <1>7 DEF Top, UndoStep
<1>10. CallInv(p)'
  BY <1>4 DEF CallInv, NoCall
<1> QED
  BY <1>4, <1>5, <1>6, <1>8, <1>9, <1>10

-----------------------------------------------------------------------------
(* The index after the rewind.                                              *)

LEMMA UndoTail ==
    ASSUME IInv, NEW p \in Producer, UndoStep(p), Gens(p) # 0, NEW ph \in Phases(p), Chained(p, ph)
    PROVE  /\ SlotsKept(p) /\ header' \in [Producer -> Seq(Index)]
           /\ header'[p][Gens(p)].tail = (ph[Gens(p)] + Known(p)) % Cap(p)
           /\ \A q \in Producer : q # p => header'[q] = header[q]
<1>0. Types /\ CountTypes
  BY DEF IInv, Rest, CountedInv
<1>1. header[p] # <<>> /\ Last(header[p]) = header[p][Gens(p)]
  BY <1>0, HeaderFields
<1>2. PICK cap \in Nat \ {0} : cap = Cap(p)
  BY <1>0, NowFacts
<1>3. PICK f \in Int : f = ph[Gens(p)]
  BY <1>0, NowFacts
<1>4. PICK top \in Int, known \in Int, back \in Int :
         top = Top(p) /\ known = Known(p) /\ back = -Back(p) /\ top + back = known
  <2>1. Top(p) = Known(p) + Back(p) /\ Back(p) \in Nat
    BY UndoNames
  <2>2. Top(p) \in Int /\ Known(p) \in Int
    BY <1>0, NumTypes
  <2> QED
    BY <2>1, <2>2
<1>5. Last(header[p]).tail = (f + top) % cap /\ Last(header[p]).cap = cap
  BY <1>1, <1>2, <1>3, <1>4 DEF Chained, Cap
<1>6. PICK a \in Int : a = f + top
  OBVIOUS
<1>7. ((a % cap) + back) % cap = (a + back) % cap
  BY ModAdd
<1>8. a + back = f + known
  BY <1>4, <1>6
<1>9. PICK s : s = (Last(header[p]).tail - Back(p)) % Last(header[p]).cap
  OBVIOUS
<1>10. s = ((a % cap) + back) % cap
  <2>1. a % cap \in Int
    BY ModRange
  <2>2. Last(header[p]).tail = a % cap
    BY <1>5, <1>6
  <2>3. PICK x \in Int : x = a % cap
    BY <2>1
  <2>4. Back(p) \in Nat
    BY UndoNames
  <2>5. x - Back(p) = x + back
    BY <1>4, <2>3, <2>4
  <2> QED
    BY <1>5, <1>9, <2>2, <2>3, <2>5
<1>11. s = (f + known) % cap
  BY <1>7, <1>8, <1>10
<1>12. s \in 0 .. cap - 1
  BY <1>11, ModRange
<1>13. header' = [header EXCEPT ![p] = WithTail(@, s)]
  BY <1>1, <1>9 DEF UndoStep
<1>14. /\ header' \in [Producer -> Seq(Index)] /\ SlotsKept(p) /\ header'[p][Gens(p)].tail = s
       /\ \A q \in Producer : q # p => header'[q] = header[q]
  BY <1>0, <1>2, <1>12, <1>13, TailSet
<1> QED
  BY <1>2, <1>3, <1>4, <1>11, <1>14

LEMMA UndoNone ==
    ASSUME IInv, NEW p \in Producer, UndoStep(p), Gens(p) = 0
    PROVE  IndexInv(p)' /\ header' = header
<1>0. Types /\ CountTypes /\ IndexInv(p)
  BY DEF IInv, Rest, CountedInv, Owned
<1>1. header' = header
  BY <1>0, HeaderFields DEF UndoStep
<1>2. PICK ph \in Phases(p) : Phased(p, ph)
  BY <1>0 DEF IndexInv, Phases
<1>3. entry[p] = <<>>
  BY <1>2 DEF Phased, Chained
<1>4. entry' \in [Producer -> Seq(EntryType)] /\ DOMAIN entry'[p] = DOMAIN entry[p] /\ Len(entry'[p]) = Len(entry[p])
  BY <1>0, UndoneFields DEF UndoStep
<1>5. entry'[p] = entry[p]
  BY <1>3, <1>4, EmptySeq
<1>6. /\ Chain(p)' = Chain(p) /\ Tried(p)' = Tried(p) /\ Written(p)' = Written(p)
  BY <1>2, UndoNames, ChainHeld
<1>7. PICK l : th' = [th EXCEPT ![p] = l]
  BY DEF UndoStep
<1>8. Frame(p)
  BY <1>1, <1>5, <1>6, <1>7, ProducerFrame DEF Frame
<1> QED
  BY <1>0, <1>1, <1>8, IndexFrame

LEMMA UndoKeyed ==
    ASSUME IInv, NEW p \in Producer, UndoStep(p), Gens(p) # 0, NEW ph \in Phases(p), Phased(p, ph)
    PROVE  Keyed(p, ph)'
<1>0. Types /\ CountTypes /\ Chained(p, ph) /\ Keyed(p, ph) /\ Undone(p)
  BY DEF IInv, Rest, CountedInv, Phased, UndoStep
<1>1. Gens(p)' = Gens(p) /\ Cap(p)' = Cap(p) /\ \A k : Now(p, ph, k)' = Now(p, ph, k)
  BY <1>0, UndoTail, SlotsNow DEF SlotsKept
<1>2. PICK known \in Int : known = Known(p) /\ known <= Top(p)
  <2>1. Known(p) \in Int /\ Top(p) = Known(p) + Back(p) /\ Back(p) \in Nat
    BY <1>0, NumTypes, UndoNames
  <2> QED
    BY <2>1
<1>3. PICK top \in Int : top = Top(p)
  BY <1>0, NumTypes
<1>4. DOMAIN entry'[p] = DOMAIN entry[p] /\ \A i \in DOMAIN entry[p] : entry'[p][i].key = entry[p][i].key
  BY <1>0, UndoneFields
<1>5. ASSUME NEW i \in DOMAIN entry'[p], entry'[p][i].value # None
      PROVE  \E k \in 0 .. known :
                /\ known - k < Cap(p) /\ i = Now(p, ph, k)
                /\ \A m \in k .. known : entry'[p][Now(p, ph, m)].key = m * BlockSize
  <2>0. i \in DOMAIN entry[p]
    BY <1>4, <1>5
  <2>1. entry[p][i].value # None
    BY <1>0, <1>5, <2>0, UndoneFields
  <2>2. PICK k \in 0 .. top :
             /\ top - k < Cap(p) /\ i = Now(p, ph, k)
             /\ \A m \in k .. top : entry[p][Now(p, ph, m)].key = m * BlockSize
    BY <1>0, <1>3, <2>0, <2>1 DEF Keyed, Cap
  <2>3. k <= known
    <3>1. k \in Int /\ k <= Top(p)
      BY <1>3, <2>2
    <3> QED
      BY <1>0, <1>2, <1>5, <2>0, <2>2, <3>1, UndoLeft
  <2>4. k \in 0 .. known /\ known - k < Cap(p)
    <3>1. PICK cap \in Nat \ {0} : cap = Cap(p)
      BY <1>0, NowFacts
    <3> QED
      BY <1>2, <1>3, <2>2, <2>3, <3>1
  <2>5. ASSUME NEW m \in k .. known PROVE entry'[p][Now(p, ph, m)].key = m * BlockSize
    <3>1. m \in k .. top /\ m \in Int
      BY <1>2, <1>3, <2>4
    <3>2. Now(p, ph, m) \in DOMAIN entry[p]
      BY <1>0, <3>1, NowFacts
    <3> QED
      BY <1>4, <2>2, <3>1, <3>2
  <2> QED
    BY <2>2, <2>4, <2>5
<1>6. Tried(p)' = None /\ Chain(p)' = <<>> /\ Top(p)' = known
  BY <1>2, UndoNames
<1>7. header'[p][Gens(p)'].cap = Cap(p)
  BY <1>1 DEF Cap
<1>8. \A i \in DOMAIN entry'[p] : entry'[p][i].value # None =>
          \E k \in 0 .. Top(p)' :
             /\ Top(p)' - k < header'[p][Gens(p)'].cap /\ i = Now(p, ph, k)'
             /\ \A m \in k .. Top(p)' : entry'[p][Now(p, ph, m)'].key = m * BlockSize
  BY <1>1, <1>5, <1>6, <1>7
<1>9. DOMAIN Chain(p)' = {}
  BY <1>6
<1> QED
  BY <1>6, <1>8, <1>9 DEF Keyed

LEMMA UndoIndex ==
    ASSUME IInv, NEW p \in Producer, UndoStep(p)
    PROVE  /\ IndexInv(p)' /\ IndexTyped'
           /\ \A q \in Producer : q # p => header'[q] = header[q] /\ entry'[q] = entry[q]
<1>0. Types /\ CountTypes /\ IndexInv(p) /\ Undone(p)
  BY DEF IInv, Rest, CountedInv, Owned, UndoStep
<1>1. PICK ph \in Phases(p) : Phased(p, ph)
  BY <1>0 DEF IndexInv, Phases
<1>2. Chained(p, ph) /\ Keyed(p, ph) /\ \A c \in Consumer : Takes(c, p) => FindsRight(p, ph, TakenBy(c))
  BY <1>1 DEF Phased
<1>3. /\ entry' \in [Producer -> Seq(EntryType)] /\ \A q \in Producer : q # p => entry'[q] = entry[q]
      /\ DOMAIN entry'[p] = DOMAIN entry[p] /\ Len(entry'[p]) = Len(entry[p])
      /\ \A i \in DOMAIN entry[p] : entry'[p][i].key = entry[p][i].key
  BY <1>0, UndoneFields
<1>4. CASE Gens(p) = 0
  <2>1. IndexInv(p)' /\ header' = header
    BY <1>4, UndoNone
  <2> QED
    BY <1>0, <1>3, <2>1, Typed DEF IndexTyped
<1>5. CASE Gens(p) # 0
  <2>1. /\ SlotsKept(p) /\ header' \in [Producer -> Seq(Index)]
        /\ header'[p][Gens(p)].tail = (ph[Gens(p)] + Known(p)) % Cap(p)
        /\ \A q \in Producer : q # p => header'[q] = header[q]
    BY <1>2, <1>5, UndoTail
  <2>2. Top(p)' = Known(p)
    BY UndoNames
  <2>3. Chained(p, ph)' /\ ph \in Phases(p)'
    BY <1>0, <1>2, <1>3, <1>5, <2>1, <2>2, ChainedKept
  <2>4. Keyed(p, ph)'
    BY <1>1, <1>5, UndoKeyed
  <2>5. KeysKept(p, ph)
    BY <1>3 DEF KeysKept
  <2>6. ASSUME NEW c \in Consumer, Takes(c, p)' PROVE FindsRight(p, ph, TakenBy(c))'
    <3>0. PICK l0 : th' = [th EXCEPT ![p] = l0]
      BY DEF UndoStep
    <3>1. PICK l : l = TakenBy(c)
      OBVIOUS
    <3>2. Takes(c, p) /\ TakenBy(c)' = l
      BY <2>6, <3>0, <3>1, ProducerTakes
    <3>3. FindsRight(p, ph, l) /\ (l.pc # "find" => l.slot \in Nat)
      BY <1>0, <1>2, <3>1, <3>2, TakesLocal
    <3>4. FindsRight(p, ph, l)'
      BY <1>0, <1>2, <1>5, <2>1, <2>5, <3>3, FindsKept
    <3> QED
      BY <3>2, <3>4 DEF FindsRight
  <2>7. IndexInv(p)'
    BY <2>3, <2>4, <2>6 DEF IndexInv, Phased, Phases
  <2> QED
    BY <1>3, <2>1, <2>7 DEF IndexTyped
<1> QED
  BY <1>4, <1>5

-----------------------------------------------------------------------------
(* So a call that fails keeps the invariant.                                *)

LEMMA UndoLive ==
    ASSUME IInv, NEW p \in Producer, UndoStep(p), UNCHANGED block, UNCHANGED tailBlock
    PROVE  LiveInv(p)'
<1>0. Types /\ CountTypes /\ IndexInv(p) /\ Undone(p) /\ LiveInv(p) /\ UNCHANGED head /\ UNCHANGED tail
  BY DEF IInv, Rest, CountedInv, Owned, UndoStep
<1>1. PICK ph \in Phases(p) : Phased(p, ph)
  BY <1>0 DEF IndexInv, Phases
<1>2. \A k \in Int : \A i : /\ Used(p, k, i)' <=> Used(p, k, i) /\ k <= Known(p)
                            /\ Used(p, k, i)' => entry'[p][i] = entry[p][i]
  BY <1>0, <1>1, UndoUsed
<1>3. Written(p)' = Written(p) /\ Known(p)' = Known(p) /\ Known(p) \in Int
  BY <1>0, UndoNames, NumTypes
<1>4. PICK l : th' = [th EXCEPT ![p] = l]
  BY DEF UndoStep
<1>5. (\A k : Unread(p, k)' = Unread(p, k)) /\ Apart(p)'
  BY <1>0, <1>4, ProducerUnread DEF LiveInv
<1>6. \A c \in Consumer : \A k : Forgets(c, p, k)' <=> Forgets(c, p, k)
  BY <1>4, ProducerFrame
<1>7. DOMAIN entry'[p] = DOMAIN entry[p]
  BY <1>0, UndoneFields
<1>8. \A k \in 0 .. Known(p) : k \in Int /\ k <= Known(p)
  BY <1>3
<1>9. Backed(p)'
  <2> SUFFICES ASSUME NEW k \in 0 .. Known(p), Unread(p, k) # {} PROVE \E i \in DOMAIN entry[p] : Used(p, k, i)'
    BY <1>3, <1>5, <1>7 DEF Backed
  <2>1. PICK i \in DOMAIN entry[p] : Used(p, k, i)
    BY <1>0 DEF LiveInv, Backed
  <2> QED
    BY <1>2, <1>8, <2>1
<1>10. Filled(p)'
  <2> SUFFICES ASSUME NEW k \in Nat, NEW i \in DOMAIN entry[p], Used(p, k, i)'
               PROVE  Fills(p, k, entry[p][i].value)'
    BY <1>7 DEF Filled
  <2>1. Used(p, k, i) /\ entry'[p][i] = entry[p][i]
    BY <1>2
  <2>2. PICK b : b = entry[p][i].value
    OBVIOUS
  <2>3. Fills(p, k, b)
    BY <1>0, <2>1, <2>2 DEF LiveInv, Filled
  <2>4. Fills(p, k, b)'
    BY <1>3, <1>5, <2>3 DEF Fills
  <2> QED
    BY <2>1, <2>2, <2>4 DEF Fills
<1>11. Emptied(p)'
  <2>1. ASSUME NEW k \in Nat, NEW i \in DOMAIN entry[p], Used(p, k, i)', Unread(p, k)' = {}
        PROVE  \E c \in Consumer : Forgets(c, p, k)'
    <3>1. Used(p, k, i) /\ Unread(p, k) = {}
      BY <1>2, <1>5, <2>1
    <3> QED
      BY <1>0, <1>6, <3>1 DEF LiveInv, Emptied
  <2>2. ASSUME NEW k \in Nat, NEW c \in Consumer, Forgets(c, p, k)'
        PROVE  /\ Unread(p, k)' = {} /\ \E i \in DOMAIN entry[p] : Used(p, k, i)'
               /\ \A d \in Consumer : Forgets(d, p, k)' => d = c
    <3>1. Forgets(c, p, k)
      BY <1>6, <2>2
    <3>2. Takes(c, p) /\ k = Num(TakenBy(c).at)
      BY <3>1 DEF Forgets
    <3>3. k \in Num(TakenBy(c).at) .. Num(TakenBy(c).end - 1)
      <4>1. Num(TakenBy(c).at) \in Nat /\ Num(TakenBy(c).end - 1) \in Nat
            /\ Num(TakenBy(c).at) <= Num(TakenBy(c).end - 1)
        BY <1>0, <3>2, TakesLocal
      <4> QED
        BY <3>2, <4>1
    <3>4. k <= Known(p)
      BY <1>0, <3>2, <3>3, ClaimUsed
    <3>5. /\ Unread(p, k) = {} /\ \E i \in DOMAIN entry[p] : Used(p, k, i)
          /\ \A d \in Consumer : Forgets(d, p, k) => d = c
      BY <1>0, <3>1 DEF LiveInv, Emptied
    <3> QED
      BY <1>2, <1>5, <1>6, <3>4, <3>5
  <2> QED
    BY <1>7, <2>1, <2>2 DEF Emptied
<1> QED
  BY <1>0, <1>5, <1>9, <1>10, <1>11 DEF LiveInv

LEMMA UndoIs ==
    ASSUME IInv, NEW p \in Producer, Undo(p)
    PROVE  /\ UndoStep(p) /\ Local(p) = th[p] /\ th[p] \in CallAt(Calls)
           /\ th' = [th EXCEPT ![p] = IF ToSet(Chain(p)) = {} THEN Idle ELSE [pc |-> "giveUp", chain |-> Chain(p)]]
           /\ (IF ToSet(Chain(p)) = {} THEN Idle ELSE [pc |-> "giveUp", chain |-> Chain(p)]) \in GiveUps
<1>0. Types /\ CountTypes /\ th[p].pc = "undo"
  BY DEF IInv, Rest, CountedInv, Undo, At
<1>1. PICK l : l = th[p]
  OBVIOUS
<1>2. Local(p) = l /\ l \in CallAt(Calls) /\ l.pc = "undo"
  BY <1>0, <1>1, LocalCall DEF Calls
<1>3. Chain(p) = l.chain /\ Tried(p) = l.slot /\ l.chain \in Seq(Block)
  BY <1>2 DEF Chain, Tried, CallAt
<1>4. PICK chain \in Seq(Block) : chain = Chain(p)
  BY <1>3
<1>5. PICK n : n = IF ToSet(Chain(p)) = {} THEN Idle ELSE [pc |-> "giveUp", chain |-> Chain(p)]
  OBVIOUS
<1>6. n \in GiveUps
  <2>1. CASE ToSet(chain) = {}
    BY <1>4, <1>5, <2>1 DEF GiveUps
  <2>2. CASE ToSet(chain) # {}
    <3>1. chain # <<>>
      BY <2>2 DEF ToSet
    <3> QED
      BY <1>4, <1>5, <2>2, <3>1 DEF GiveUps
  <2> QED
    BY <2>1, <2>2
<1>7. th' = [th EXCEPT ![p] = n]
  BY <1>1, <1>3, <1>5 DEF Undo, Go
<1>8. Undone(p)
  BY <1>1, <1>3 DEF Undo, Undone, Emptying
<1>9. Back(p) = Len(Chain(p)) + IF Tried(p) # None THEN 1 ELSE 0
  BY <1>1, <1>3 DEF Back
<1>10. header' = IF header[p] = <<>> THEN header
                 ELSE [header EXCEPT ![p] =
                          WithTail(@, (Last(header[p]).tail - Back(p)) % Last(header[p]).cap)]
  BY DEF Undo
<1>11. Local(p).pc # "idle" /\ ~ At(p, "publish") /\ UNCHANGED tail /\ UNCHANGED head
  BY <1>0, <1>2 DEF Undo, At, places
<1>12. UndoStep(p)
  BY <1>6, <1>7, <1>8, <1>9, <1>10, <1>11 DEF UndoStep
<1> QED
  BY <1>1, <1>2, <1>5, <1>6, <1>7, <1>12

LEMMA UndoRest ==
    ASSUME IInv, NEW p \in Producer, Undo(p)
    PROVE  Rest'
<1>0. Types /\ CountTypes /\ Safe /\ IndexInv(p) /\ p \in Thread /\ p \notin Consumer /\ ~ broken
  BY IsSafe, Roles DEF IInv, Rest, Owned
<1>1. UndoStep(p) /\ Undone(p) /\ th[p].pc = "undo"
  BY UndoIs DEF UndoStep, Undo, At
<1>2. PICK l : l = IF ToSet(Chain(p)) = {} THEN Idle ELSE [pc |-> "giveUp", chain |-> Chain(p)]
  OBVIOUS
<1>3. th' = [th EXCEPT ![p] = l] /\ l \in GiveUps
  BY <1>2, UndoIs
<1>4. /\ UNCHANGED freeList /\ UNCHANGED memory /\ UNCHANGED fresh /\ UNCHANGED block /\ UNCHANGED tailBlock
      /\ UNCHANGED head /\ UNCHANGED tail /\ UNCHANGED broken
  BY DEF Undo, memory, places
<1>5. PlaceInv'
  <2>1. PICK ph \in Phases(p) : Phased(p, ph)
    BY <1>0 DEF IndexInv, Phases
  <2>2. PICK chain \in Seq(Block) : chain = Chain(p)
    BY <2>1, ChainHeld
  <2>3. PICK slot : slot = Tried(p)
    OBVIOUS
  <2>4. /\ Injective(chain) /\ \A b \in ToSet(chain) : \E i : Indexed(b, p, i)
        /\ slot \in DOMAIN entry[p] => entry[p][slot].value = None
    BY <2>1, <2>2, <2>3, ChainHeld
  <2>5. Emptying(p, chain, slot)
    BY <1>1, <2>2, <2>3 DEF Undone
  <2>6. l = (IF ToSet(chain) = {} THEN Idle ELSE [pc |-> "giveUp", chain |-> chain])
    BY <1>2, <2>2
  <2> QED
    BY <1>0, <1>1, <1>3, <1>4, <2>4, <2>5, <2>6, BlocksLeave
<1>6. LocalOk(p, l)
  BY <1>0, <1>3 DEF LocalOk, Enq
<1>7. IndexInv(p)' /\ IndexTyped' /\ \A q \in Producer : q # p => header'[q] = header[q] /\ entry'[q] = entry[q]
  BY <1>1, UndoIndex
<1>8. BlocksTyped'
  BY <1>4, SameBlocks
<1>9. Types'
  BY <1>0, <1>3, <1>4, <1>6, <1>7, <1>8, StepTypes
<1>10. PoolInv'
  <2>1. ~ InCall(l).pc \in {"pool", "malloc"}
    BY <1>3 DEF GiveUps, Idle, InCall, Calls, NoCall
  <2> QED
    BY <1>0, <1>3, <1>4, <2>1, StepPool
<1>11. ASSUME NEW q \in Producer PROVE Owned(q)'
  <2>1. CASE q = p
    BY <1>1, <1>4, <1>7, <2>1, UndoNames, UndoLive DEF Owned
  <2>2. CASE q # p
    <3>1. tail'[q] = tail[q] /\ tailBlock'[q] = tailBlock[q] /\ UNCHANGED head
      BY <1>4
    <3>2. \A i \in DOMAIN entry[q] : entry[q][i].value # None =>
               block'[entry[q][i].value] = block[entry[q][i].value]
      BY <1>4
    <3> QED
      BY <1>3, <1>7, <2>2, <3>1, <3>2, OthersOwned
  <2> QED
    BY <2>1, <2>2
<1> QED
  BY <1>0, <1>4, <1>5, <1>9, <1>10, <1>11 DEF Rest

-----------------------------------------------------------------------------
(* A call that has its blocks constructs its elements: which block each gets. *)

\* The places of the elements of a call.
NewPlaces(p) == tail[p] .. tail[p] + th[p].n - 1

LEMMA PlaceFacts ==
    ASSUME IInv, NEW p \in Producer, th[p].pc = "place"
    PROVE  /\ Local(p) = th[p] /\ th[p] \in CallAt(Calls) /\ th[p].n \in Nat \ {0}
           /\ Written(p) = tail[p] /\ tail[p] \in Nat /\ Known(p) = Num(tail[p] - 1)
           /\ Tried(p) = None /\ Chain(p) = th[p].chain /\ Top(p) = Known(p) + Len(Chain(p))
           /\ Top(p) = Num(tail[p] + th[p].n - 1) /\ Known(p) \in Int /\ Top(p) \in Nat
           /\ \A i \in NewPlaces(p) : i \in Nat /\ Num(i) \in Nat /\ Known(p) <= Num(i) /\ Num(i) <= Top(p)
           /\ tail[p] + th[p].n - 1 \in NewPlaces(p)
<1>0. Types /\ CountTypes /\ CallInv(p)
  BY DEF IInv, Rest, CountedInv, Owned
<1>1. PICK l : l = th[p]
  OBVIOUS
<1>2. Local(p) = l /\ l \in CallAt(Calls) /\ l.pc = "place" /\ l.n \in Nat \ {0} /\ tail[p] \in Nat
  <2>1. Local(p) = l /\ l \in CallAt(Calls) /\ l.pc = "place"
    BY <1>0, <1>1, LocalCall DEF Calls
  <2> QED
    BY <1>0, <2>1 DEF CallAt, CountTypes
<1>3. Tried(p) = None /\ Chain(p) = l.chain /\ l.bases = <<>>
  BY <1>0, <1>2 DEF CallInv, Tried, Chain
<1>4. Written(p) = tail[p]
  BY <1>1, <1>2 DEF Written, At
<1>5. Known(p) = Num(tail[p] - 1)
  BY <1>4 DEF Known
<1>6. Top(p) = Known(p) + Len(Chain(p)) /\ Known(p) \in Int /\ Len(Chain(p)) \in Nat /\ Top(p) \in Int
  BY <1>0, <1>3, NumTypes
<1>7. Len(l.chain) + Len(l.bases) = Num(tail[p] + l.n - 1) - Num(tail[p] - 1) /\ Len(l.bases) = 0
  BY <1>0, <1>2, <1>3, EmptySeq DEF CallInv
<1>8. PICK a \in Nat : a = tail[p] + l.n - 1
  BY <1>2
<1>9. Num(a) \in Nat
  BY NumFacts
<1>10. Top(p) = Num(a)
  <2>1. PICK x \in Int : x = Known(p)
    BY <1>6
  <2>2. PICK y \in Nat : y = Len(l.chain)
    BY <1>3, <1>6
  <2>3. PICK z \in Nat : z = Num(a)
    BY <1>9
  <2>4. y + 0 = z - x
    BY <1>5, <1>7, <1>8, <2>1, <2>2, <2>3
  <2> QED
    BY <1>3, <1>6, <2>1, <2>2, <2>3, <2>4
<1>11. ASSUME NEW i \in NewPlaces(p) PROVE i \in Nat /\ Num(i) \in Nat /\ Known(p) <= Num(i) /\ Num(i) <= Top(p)
  <2>1. i \in Nat /\ tail[p] <= i /\ i <= a
    BY <1>1, <1>2, <1>8 DEF NewPlaces
  <2>2. PICK c \in Int : c = tail[p] - 1
    BY <1>2
  <2>3. c <= i
    BY <1>2, <2>1, <2>2
  <2>4. Num(c) <= Num(i) /\ Num(i) <= Num(a) /\ Num(i) \in Nat
    BY <2>1, <2>3, NumMono, NumFacts
  <2> QED
    BY <1>5, <1>10, <2>1, <2>2, <2>4
<1>12. tail[p] + l.n - 1 \in NewPlaces(p)
  BY <1>1, <1>2 DEF NewPlaces
<1> QED
  BY <1>1, <1>2, <1>3, <1>4, <1>5, <1>6, <1>8, <1>9, <1>10, <1>11, <1>12

\* Each of the new elements goes into the block of the entry for its place.
LEMMA PlaceBlock ==
    ASSUME IInv, NEW p \in Producer, th[p].pc = "place", NEW i \in NewPlaces(p)
    PROVE  \E e \in DOMAIN entry[p] :
              Used(p, Num(i), e) /\ entry[p][e].value = BlockFor(p, i) /\ BlockFor(p, i) \in Block
<1>0. Types /\ CountTypes /\ IndexInv(p) /\ LiveInv(p)
  BY DEF IInv, Rest, CountedInv, Owned
<1>1. PICK ph \in Phases(p) : Phased(p, ph)
  BY <1>0 DEF IndexInv, Phases
<1>2. /\ tail[p] \in Nat /\ Known(p) = Num(tail[p] - 1) /\ Chain(p) = th[p].chain
      /\ Top(p) = Known(p) + Len(Chain(p)) /\ Known(p) \in Int
      /\ i \in Nat /\ Num(i) \in Nat /\ Known(p) <= Num(i) /\ Num(i) <= Top(p)
  BY PlaceFacts
<1>3. PICK k \in Nat : k = Num(i)
  BY <1>2
<1>4. BaseOf(i) = k * BlockSize /\ BaseOf(tail[p] - 1) = Known(p) * BlockSize
  <2>1. PICK c \in Int : c = tail[p] - 1
    BY <1>2
  <2>2. BaseOf(c) = Num(c) * BlockSize
    BY NumFacts
  <2>3. BaseOf(i) = Num(i) * BlockSize
    BY <1>2, NumFacts
  <2> QED
    BY <1>2, <1>3, <2>1, <2>2, <2>3
<1>5. CASE k = Known(p)
  <2>1. BlockFor(p, i) = tailBlock[p]
    BY <1>4, <1>5 DEF BlockFor
  <2>2. i \in Unread(p, k)
    <3>1. i >= tail[p] /\ head[p] <= tail[p] /\ head[p] \in Nat
      BY <1>0, <1>2 DEF NewPlaces, LiveInv, CountTypes
    <3>2. k * BlockSize <= i /\ i < k * BlockSize + BlockSize /\ k * BlockSize \in Int /\ BlockSize \in Nat
      <4>1. k * BlockSize <= i /\ i < k * BlockSize + BlockSize
        BY <1>2, <1>3, NumFacts
      <4>2. k * BlockSize \in Int
        BY Scale
      <4>3. BlockSize \in Nat
        BY SizesArePowers
      <4> QED
        BY <4>1, <4>2, <4>3
    <3> QED
      BY <1>2, <3>1, <3>2 DEF Unread
  <2>3. PICK e \in DOMAIN entry[p] : Used(p, k, e)
    BY <1>0, <1>5, <2>2 DEF LiveInv, Backed
  <2>4. Fills(p, k, entry[p][e].value)
    BY <1>0, <2>3 DEF LiveInv, Filled
  <2>5. entry[p][e].value = tailBlock[p] /\ tailBlock[p] \in Block
    BY <1>0, <1>5, <2>3, <2>4 DEF Fills, Used, Types, Link
  <2> QED
    BY <1>3, <2>1, <2>3, <2>5
<1>6. CASE k # Known(p)
  <2>1. PICK j \in Int : j = k - Known(p)
    BY <1>2
  <2>2. j \in DOMAIN Chain(p) /\ Known(p) + j = k /\ Chain(p)[j] \in Block
    <3>1. Chain(p) \in Seq(Block) /\ DOMAIN Chain(p) = 1 .. Len(Chain(p)) /\ Len(Chain(p)) \in Nat
      BY <1>0, NumTypes
    <3>2. j \in 1 .. Len(Chain(p)) /\ Known(p) + j = k
      <4>1. PICK x \in Int, n \in Nat : x = Known(p) /\ n = Len(Chain(p))
        BY <1>2, <3>1
      <4>2. x <= k /\ k <= x + n /\ k # x /\ j = k - x
        BY <1>2, <1>3, <1>6, <2>1, <4>1
      <4>3. j \in 1 .. n /\ x + j = k
        BY <4>2
      <4> QED
        BY <4>1, <4>3
    <3> QED
      BY <3>1, <3>2, ElementOfSeq
  <2>3. BlockFor(p, i) = Chain(p)[j]
    <3>1. (k * BlockSize - Known(p) * BlockSize) \div BlockSize = j
      BY <1>2, <2>1, DivDiff
    <3>2. k * BlockSize # Known(p) * BlockSize
      BY <1>2, <1>6, Scale
    <3> QED
      BY <1>2, <1>4, <3>1, <3>2 DEF BlockFor
  <2>4. Gens(p) # 0 /\ Indexed(Chain(p)[j], p, Now(p, ph, k))
    BY <1>1, <2>2, ChainHeld
  <2>5. entry[p][Now(p, ph, k)].key = k * BlockSize
    <3>1. Holds(p, ph, k, Chain(p)[j])
      BY <1>1, <2>2 DEF Phased, Keyed
    <3> QED
      BY <3>1 DEF Holds
  <2>6. Used(p, k, Now(p, ph, k)) /\ Now(p, ph, k) \in DOMAIN entry[p]
    BY <2>2, <2>4, <2>5, RolesDiffer DEF Indexed, Used
  <2> QED
    BY <1>3, <2>2, <2>3, <2>4, <2>6 DEF Indexed
<1> QED
  BY <1>5, <1>6

\* No other entry has that block.
LEMMA PlaceOnly ==
    ASSUME IInv, NEW p \in Producer, th[p].pc = "place", NEW i \in NewPlaces(p), NEW q \in Producer, NEW e,
           Indexed(BlockFor(p, i), q, e)
    PROVE  q = p /\ Used(p, Num(i), e)
<1>1. PICK x \in DOMAIN entry[p] :
         Used(p, Num(i), x) /\ entry[p][x].value = BlockFor(p, i) /\ BlockFor(p, i) \in Block
  BY PlaceBlock
<1>2. PICK b \in Block : b = BlockFor(p, i)
  BY <1>1
<1>3. Spot(b, "index", p, x) /\ Spot(b, "index", q, e)
  BY <1>1, <1>2 DEF Spot, Indexed
<1>4. Once(b)
  BY DEF IInv, Rest, PlaceInv
<1>5. q = p /\ e = x
  BY <1>3, <1>4, SpotOnly
<1> QED
  BY <1>1, <1>5

-----------------------------------------------------------------------------
(* The cells after the construction.                                        *)

\* The elements of the call are constructed in the blocks that BlockFor says.
CellsPut(p) ==
    block' = [b \in Block |-> [block[b] EXCEPT !.cells = [k \in DOMAIN @ |->
                 IF \E i \in NewPlaces(p) : BlockFor(p, i) = b /\ i % BlockSize = k
                 THEN <<p, CHOOSE i \in NewPlaces(p) : BlockFor(p, i) = b /\ i % BlockSize = k>>
                 ELSE @[k]]]]
Receives(p, b, k) == \E i \in NewPlaces(p) : BlockFor(p, i) = b /\ i % BlockSize = k

LEMMA CellsPutFields ==
    ASSUME IInv, NEW p \in Producer, th[p].pc = "place", CellsPut(p)
    PROVE  /\ block' \in [Block -> BlockType]
           /\ \A b \in Block : block'[b].done = block[b].done
           /\ \A b \in Block, k \in 0 .. BlockSize - 1 :
                 /\ Receives(p, b, k) => \E i \in NewPlaces(p) : /\ BlockFor(p, i) = b /\ i % BlockSize = k
                                                       /\ block'[b].cells[k] = <<p, i>>
                 /\ ~ Receives(p, b, k) => block'[b].cells[k] = block[b].cells[k]
           /\ \A b \in Block : (\A k : ~ Receives(p, b, k)) => block'[b] = block[b]
<1>0. Types /\ CountTypes /\ block \in [Block -> BlockType] /\ p \in Producer
  BY Typed DEF IInv, Rest, CountedInv, BlocksTyped
<1>1. \A i \in NewPlaces(p) : i \in Nat
  BY PlaceFacts
<1>2. ASSUME NEW b \in Block
      PROVE  /\ block'[b] \in BlockType /\ block'[b].done = block[b].done
             /\ \A k \in 0 .. BlockSize - 1 :
                 /\ Receives(p, b, k) => \E i \in NewPlaces(p) : /\ BlockFor(p, i) = b /\ i % BlockSize = k
                                                       /\ block'[b].cells[k] = <<p, i>>
                 /\ ~ Receives(p, b, k) => block'[b].cells[k] = block[b].cells[k]
             /\ (\A k : ~ Receives(p, b, k)) => block'[b] = block[b]
  <2>1. PICK r \in BlockType : r = block[b]
    BY <1>0
  <2>2. /\ DOMAIN r.cells = 0 .. BlockSize - 1 /\ r.cells \in [0 .. BlockSize - 1 -> (Producer \X Nat) \cup {None}]
        /\ r.done \in Nat
    BY <2>1 DEF BlockType
  <2>3. PICK f : f = [k \in 0 .. BlockSize - 1 |->
                 IF Receives(p, b, k)
                 THEN <<p, CHOOSE i \in NewPlaces(p) : BlockFor(p, i) = b /\ i % BlockSize = k>>
                 ELSE r.cells[k]]
    OBVIOUS
  <2>4. block'[b] = [r EXCEPT !.cells = f]
    <3>1. block'[b] = [block[b] EXCEPT !.cells = [k \in DOMAIN @ |->
                 IF \E i \in NewPlaces(p) : BlockFor(p, i) = b /\ i % BlockSize = k
                 THEN <<p, CHOOSE i \in NewPlaces(p) : BlockFor(p, i) = b /\ i % BlockSize = k>>
                 ELSE @[k]]]
      BY DEF CellsPut
    <3>2. [k \in DOMAIN r.cells |->
                 IF \E i \in NewPlaces(p) : BlockFor(p, i) = b /\ i % BlockSize = k
                 THEN <<p, CHOOSE i \in NewPlaces(p) : BlockFor(p, i) = b /\ i % BlockSize = k>>
                 ELSE r.cells[k]] = f
      BY <2>2, <2>3 DEF Receives
    <3> QED
      BY <2>1, <3>1, <3>2
  <2>5. ASSUME NEW k \in 0 .. BlockSize - 1, Receives(p, b, k)
        PROVE  \E i \in NewPlaces(p) : BlockFor(p, i) = b /\ i % BlockSize = k /\ f[k] = <<p, i>>
    <3>1. PICK i : i = CHOOSE x \in NewPlaces(p) : BlockFor(p, x) = b /\ x % BlockSize = k
      OBVIOUS
    <3>2. i \in NewPlaces(p) /\ BlockFor(p, i) = b /\ i % BlockSize = k
      BY <2>5, <3>1 DEF Receives
    <3>3. f[k] = <<p, i>>
      BY <2>3, <2>5, <3>1
    <3> QED
      BY <3>2, <3>3
  <2>6. ASSUME NEW k \in 0 .. BlockSize - 1, ~ Receives(p, b, k) PROVE f[k] = r.cells[k]
    BY <2>3, <2>6
  <2>7. ASSUME NEW k \in 0 .. BlockSize - 1 PROVE f[k] \in (Producer \X Nat) \cup {None}
    <3>1. CASE Receives(p, b, k)
      <4>1. PICK i \in NewPlaces(p) : f[k] = <<p, i>>
        BY <2>5, <3>1
      <4> QED
        BY <1>0, <1>1, <4>1
    <3>2. CASE ~ Receives(p, b, k)
      BY <2>2, <2>6, <3>2
    <3> QED
      BY <3>1, <3>2
  <2>8. f \in [0 .. BlockSize - 1 -> (Producer \X Nat) \cup {None}]
    BY <2>3, <2>7
  <2>9. block'[b] \in BlockType /\ block'[b].done = r.done /\ block'[b].cells = f
    BY <2>1, <2>4, <2>8 DEF BlockType
  <2>10. ASSUME \A k : ~ Receives(p, b, k) PROVE block'[b] = r
    <3>1. f = r.cells
      <4>1. \A k \in 0 .. BlockSize - 1 : f[k] = r.cells[k]
        BY <2>6, <2>10
      <4>2. f = [k \in 0 .. BlockSize - 1 |-> f[k]]
        BY <2>8
      <4>3. r.cells = [k \in 0 .. BlockSize - 1 |-> r.cells[k]]
        BY <2>2
      <4>4. [k \in 0 .. BlockSize - 1 |-> f[k]] = [k \in 0 .. BlockSize - 1 |-> r.cells[k]]
        BY <4>1
      <4> QED
        BY <4>2, <4>3, <4>4
    <3> QED
      BY <2>1, <2>4, <3>1 DEF BlockType
  <2> QED
    BY <2>1, <2>5, <2>6, <2>9, <2>10
<1>3. block' \in [Block -> BlockType]
  <2>1. block' = [b \in Block |-> block'[b]]
    BY DEF CellsPut
  <2> QED
    BY <1>2, <2>1
<1> QED
  BY <1>2, <1>3

\* Each cell is written once, and only those of the new places.
LEMMA PlaceCells ==
    ASSUME IInv, NEW p \in Producer, th[p].pc = "place", CellsPut(p)
    PROVE  /\ \A i \in NewPlaces(p) : block'[BlockFor(p, i)].cells[i % BlockSize] = <<p, i>>
           /\ \A q \in Producer, e, k \in Nat, j \in Nat :
                 Used(q, k, e) /\ Num(j) = k /\ (q = p => j < tail[p]) =>
                     block'[entry[q][e].value].cells[j % BlockSize] = block[entry[q][e].value].cells[j % BlockSize]
           /\ \A q \in Producer : \A e : q # p /\ e \in DOMAIN entry[q] /\ entry[q][e].value # None =>
                 block'[entry[q][e].value] = block[entry[q][e].value]
<1>0. Types /\ CountTypes /\ \A j \in Nat : j % BlockSize \in 0 .. BlockSize - 1
  BY ModRange, Sizes DEF IInv, Rest, CountedInv
<1>1. ASSUME NEW i \in NewPlaces(p), NEW j \in NewPlaces(p), BlockFor(p, i) = BlockFor(p, j), i % BlockSize = j % BlockSize
      PROVE  i = j
  <2>1. PICK e \in DOMAIN entry[p] : Used(p, Num(i), e) /\ entry[p][e].value = BlockFor(p, i)
    BY PlaceBlock
  <2>2. Indexed(BlockFor(p, j), p, e)
    BY <1>1, <2>1 DEF Indexed
  <2>3. Used(p, Num(j), e)
    BY <2>2, PlaceOnly
  <2>4. Num(i) = Num(j) /\ i \in Nat /\ j \in Nat
    <3>1. Num(i) \in Int /\ Num(j) \in Int /\ i \in Nat /\ j \in Nat
      BY PlaceFacts
    <3>2. Num(i) * BlockSize = Num(j) * BlockSize
      BY <2>1, <2>3 DEF Used
    <3> QED
      BY <3>1, <3>2, Scale
  <2>5. PICK x \in Int : x = Num(i) * BlockSize
    BY <2>4, NumFacts, Scale
  <2>6. i % BlockSize = i - x /\ j % BlockSize = j - x
    BY <2>4, <2>5, NumFacts
  <2> QED
    BY <1>1, <2>4, <2>5, <2>6
<1>2. ASSUME NEW i \in NewPlaces(p) PROVE block'[BlockFor(p, i)].cells[i % BlockSize] = <<p, i>>
  <2>1. PICK b \in Block : b = BlockFor(p, i)
    BY PlaceBlock
  <2>2. PICK k \in 0 .. BlockSize - 1 : k = i % BlockSize
    BY <1>0, PlaceFacts
  <2>3. Receives(p, b, k)
    BY <2>1, <2>2 DEF Receives
  <2>4. PICK j \in NewPlaces(p) : BlockFor(p, j) = b /\ j % BlockSize = k /\ block'[b].cells[k] = <<p, j>>
    BY <2>3, CellsPutFields
  <2>5. i = j
    BY <1>1, <2>1, <2>2, <2>4
  <2> QED
    BY <2>1, <2>2, <2>4, <2>5
<1>3. ASSUME NEW q \in Producer, NEW e, NEW k \in Nat, NEW j \in Nat,
             Used(q, k, e), Num(j) = k, q = p => j < tail[p]
      PROVE  block'[entry[q][e].value].cells[j % BlockSize] = block[entry[q][e].value].cells[j % BlockSize]
  <2>1. PICK b \in Block : b = entry[q][e].value
    BY <1>0, <1>3, EntryFields DEF Used, Link
  <2>2. PICK s \in 0 .. BlockSize - 1 : s = j % BlockSize
    BY <1>0
  <2>3. ASSUME Receives(p, b, s) PROVE FALSE
    <3>1. PICK i \in NewPlaces(p) : BlockFor(p, i) = b /\ i % BlockSize = s
      BY <2>3 DEF Receives
    <3>2. Indexed(BlockFor(p, i), q, e)
      BY <1>3, <2>1, <3>1 DEF Indexed, Used
    <3>3. q = p /\ Used(p, Num(i), e)
      BY <3>2, PlaceOnly
    <3>4. Num(i) * BlockSize = k * BlockSize /\ Num(i) \in Int /\ i \in Nat
      BY <1>3, <3>3, PlaceFacts DEF Used
    <3>5. Num(i) = Num(j)
      BY <1>3, <3>4, Scale
    <3>6. PICK x \in Int : x = Num(i) * BlockSize
      BY <3>4, Scale
    <3>7. i % BlockSize = i - x /\ j % BlockSize = j - x
      BY <3>4, <3>5, <3>6, NumFacts
    <3>8. i = j
      BY <2>2, <3>1, <3>4, <3>6, <3>7
    <3>9. tail[p] \in Nat /\ tail[p] <= i
      BY PlaceFacts DEF NewPlaces
    <3> QED
      BY <1>3, <3>3, <3>4, <3>8, <3>9
  <2> QED
    BY <2>1, <2>2, <2>3, CellsPutFields
<1>4. ASSUME NEW q \in Producer, NEW e, q # p, e \in DOMAIN entry[q], entry[q][e].value # None
      PROVE  block'[entry[q][e].value] = block[entry[q][e].value]
  <2>1. PICK b \in Block : b = entry[q][e].value
    BY <1>0, <1>4, EntryFields DEF Link
  <2>2. ASSUME NEW k, Receives(p, b, k) PROVE FALSE
    <3>1. PICK i \in NewPlaces(p) : BlockFor(p, i) = b
      BY <2>2 DEF Receives
    <3>2. Indexed(BlockFor(p, i), q, e)
      BY <1>4, <2>1, <3>1 DEF Indexed
    <3> QED
      BY <1>4, <3>2, PlaceOnly
  <2> QED
    BY <2>1, <2>2, CellsPutFields
<1> QED
  BY <1>2, <1>3, <1>4

-----------------------------------------------------------------------------
(* The index and the elements after it.                                     *)

LEMMA PlaceNames ==
    ASSUME IInv, NEW p \in Producer, Place(p)
    PROVE  /\ th[p].pc = "place" /\ th' = [th EXCEPT ![p] = [pc |-> "publish", n |-> th[p].n]] /\ CellsPut(p)
           /\ tailBlock' = [tailBlock EXCEPT ![p] = BlockFor(p, tail[p] + th[p].n - 1)]
           /\ UNCHANGED head /\ UNCHANGED tail /\ UNCHANGED index /\ UNCHANGED <<header, entry>>
           /\ UNCHANGED freeList /\ UNCHANGED memory /\ UNCHANGED broken
           /\ Chain(p)' = <<>> /\ Tried(p)' = None /\ Written(p)' = tail[p] + th[p].n
           /\ Known(p)' = Top(p) /\ Top(p)' = Top(p) /\ CallInv(p)'
<1>0. Types /\ CountTypes
  BY DEF IInv, Rest, CountedInv
<1>1. th[p].pc = "place" /\ CellsPut(p)
  BY DEF Place, At, CellsPut, NewPlaces
<1>2. /\ th' = [th EXCEPT ![p] = [pc |-> "publish", n |-> th[p].n]]
      /\ tailBlock' = [tailBlock EXCEPT ![p] = BlockFor(p, tail[p] + th[p].n - 1)]
      /\ UNCHANGED head /\ UNCHANGED tail /\ UNCHANGED index /\ UNCHANGED <<header, entry>>
      /\ UNCHANGED freeList /\ UNCHANGED memory /\ UNCHANGED broken
  BY DEF Place, Go, places, index
<1>3. PICK l : l = [pc |-> "publish", n |-> th[p].n]
  OBVIOUS
<1>4. Local(p)' = InCall(l) /\ th'[p] = l
  <2>1. th' = [th EXCEPT ![p] = l]
    BY <1>2, <1>3
  <2> QED
    BY <2>1, ProducerFrame
<1>5. InCall(l) = NoCall /\ l.pc = "publish" /\ l.n = th[p].n
  BY <1>3 DEF InCall, Calls
<1>6. Local(p)' = NoCall /\ Chain(p)' = <<>> /\ Tried(p)' = None
  BY <1>4, <1>5 DEF Chain, Tried, NoCall
<1>7. Written(p)' = tail[p] + th[p].n
  BY <1>2, <1>4, <1>5 DEF Written, At
<1>8. Known(p)' = Top(p) /\ Top(p) \in Nat
  BY <1>1, <1>7, PlaceFacts DEF Known, Num
<1>9. Top(p)' = Top(p)
  <2>1. Len(Chain(p)') = 0
    BY <1>6, EmptySeq
  <2>2. Top(p)' = Known(p)' + Len(Chain(p)') + 0
    BY <1>6 DEF Top
  <2> QED
    BY <1>8, <2>1, <2>2
<1>10. CallInv(p)'
  BY <1>6 DEF CallInv, NoCall
<1> QED
  BY <1>1, <1>2, <1>6, <1>7, <1>8, <1>9, <1>10

LEMMA PlaceIndex ==
    ASSUME IInv, NEW p \in Producer, Place(p)
    PROVE  IndexInv(p)'
<1>0. Types /\ CountTypes /\ IndexInv(p)
  BY DEF IInv, Rest, CountedInv, Owned
<1>1. PICK ph \in Phases(p) : Phased(p, ph)
  BY <1>0 DEF IndexInv, Phases
<1>2. Chained(p, ph) /\ Keyed(p, ph) /\ \A c \in Consumer : Takes(c, p) => FindsRight(p, ph, TakenBy(c))
  BY <1>1 DEF Phased
<1>3. UNCHANGED <<header, entry>> /\ Chain(p)' = <<>> /\ Tried(p)' = None /\ Top(p)' = Top(p)
  BY PlaceNames
<1>4. Gens(p)' = Gens(p) /\ \A k : Now(p, ph, k)' = Now(p, ph, k)
  BY <1>3 DEF Gens, Now, Named
<1>5. Chained(p, ph)'
  BY <1>2, <1>3, <1>4 DEF Chained, Named
<1>6. Keyed(p, ph)'
  <2>1. \A i \in DOMAIN entry[p] : entry[p][i].value # None =>
          \E k \in 0 .. Top(p) :
             /\ Top(p) - k < header[p][Gens(p)].cap /\ i = Now(p, ph, k)
             /\ \A m \in k .. Top(p) : entry[p][Now(p, ph, m)].key = m * BlockSize
    BY <1>2 DEF Keyed
  <2>2. \A i \in DOMAIN entry'[p] : entry'[p][i].value # None =>
          \E k \in 0 .. Top(p)' :
             /\ Top(p)' - k < header'[p][Gens(p)'].cap /\ i = Now(p, ph, k)'
             /\ \A m \in k .. Top(p)' : entry'[p][Now(p, ph, m)'].key = m * BlockSize
    BY <1>3, <1>4, <2>1
  <2>3. DOMAIN Chain(p)' = {}
    BY <1>3
  <2> QED
    BY <1>3, <2>2, <2>3 DEF Keyed
<1>7. ASSUME NEW c \in Consumer, Takes(c, p)' PROVE FindsRight(p, ph, TakenBy(c))'
  <2>0. PICK l0 : th' = [th EXCEPT ![p] = l0]
    BY PlaceNames
  <2>1. PICK l : l = TakenBy(c)
    OBVIOUS
  <2>2. Takes(c, p) /\ TakenBy(c)' = l
    BY <1>7, <2>0, <2>1, ProducerTakes
  <2>3. FindsRight(p, ph, l)
    BY <1>2, <2>1, <2>2
  <2>4. FindsRight(p, ph, l)'
    BY <1>3, <1>4, <2>3 DEF FindsRight, Named
  <2> QED
    BY <2>2, <2>4 DEF FindsRight
<1>8. Phases(p)' = Phases(p)
  BY <1>4 DEF Phases
<1> QED
  BY <1>5, <1>6, <1>7, <1>8 DEF IndexInv, Phased, Phases

\* The elements of the call are in the cells of their blocks, those of others stay.
LEMMA PlaceFills ==
    ASSUME IInv, NEW p \in Producer, Place(p), NEW k \in Nat, NEW e, Used(p, k, e)
    PROVE  Fills(p, k, entry[p][e].value)'
<1>0. Types /\ CountTypes /\ LiveInv(p) /\ IndexInv(p)
  BY DEF IInv, Rest, CountedInv, Owned
<1>1. PICK ph \in Phases(p) : Phased(p, ph)
  BY <1>0 DEF IndexInv, Phases
<1>2. PICK b \in Block : b = entry[p][e].value
  BY <1>0, EntryFields DEF Used, Link
<1>3. Fills(p, k, b)
  BY <1>0, <1>2 DEF LiveInv, Filled, Used
<1>4. th[p].pc = "place" /\ CellsPut(p) /\ Written(p)' = tail[p] + th[p].n /\ Known(p)' = Top(p) /\ Written(p) = tail[p]
      /\ tailBlock'[p] = BlockFor(p, tail[p] + th[p].n - 1) /\ tail[p] \in Nat /\ th[p].n \in Nat \ {0}
      /\ tail[p] + th[p].n - 1 \in NewPlaces(p) /\ Top(p) = Num(tail[p] + th[p].n - 1)
  <2>1. tailBlock' = [tailBlock EXCEPT ![p] = BlockFor(p, tail[p] + th[p].n - 1)] /\ th[p].pc = "place"
    BY PlaceNames
  <2>2. DOMAIN tailBlock = Producer
    BY <1>0 DEF Types
  <2> QED
    BY <2>1, <2>2, PlaceNames, PlaceFacts
<1>5. Unread(p, k)' = Unread(p, k)
  <2>1. PICK l0 : th' = [th EXCEPT ![p] = l0] /\ UNCHANGED head
    BY PlaceNames
  <2> QED
    BY <2>1, ProducerUnread
<1>6. ASSUME NEW i \in NewPlaces(p), Num(i) = k PROVE b = BlockFor(p, i)
  <2>1. PICK x \in DOMAIN entry[p] : Used(p, k, x) /\ entry[p][x].value = BlockFor(p, i)
    BY <1>4, <1>6, PlaceBlock
  <2>2. x = Now(p, ph, k) /\ e = Now(p, ph, k)
    BY <1>0, <1>1, <2>1, UsedAt DEF Phased
  <2> QED
    BY <1>2, <2>1, <2>2
<1>7. block'[b].done = block[b].done
  BY <1>4, CellsPutFields
<1>8. ASSUME NEW j \in Unread(p, k), j < tail[p] + th[p].n PROVE block'[b].cells[j % BlockSize] = <<p, j>>
  <2>1. j \in Nat /\ Num(j) = k
    <3>1. PICK a \in Nat : a = k * BlockSize
      BY Sizes
    <3>2. j \in a .. a + BlockSize - 1
      BY <1>8, <3>1 DEF Unread
    <3>3. j \in Nat /\ a <= j /\ j < a + BlockSize
      BY <3>1, <3>2, Sizes
    <3> QED
      BY <3>1, <3>3, NumIs
  <2>2. CASE j < tail[p]
    <3>1. block'[b].cells[j % BlockSize] = block[b].cells[j % BlockSize]
      <4>1. \A i \in Nat : Used(p, k, e) /\ Num(i) = k /\ (p = p => i < tail[p]) =>
               block'[entry[p][e].value].cells[i % BlockSize] = block[entry[p][e].value].cells[i % BlockSize]
        <5>1. p \in Producer /\ e \in Nat
          BY <1>0, EntryFields DEF Used
        <5> QED
          BY <1>4, <5>1, PlaceCells
      <4> QED
        BY <1>2, <2>1, <2>2, <4>1
    <3> QED
      BY <1>3, <1>4, <1>8, <2>2, <3>1 DEF Fills
  <2>3. CASE ~ j < tail[p]
    <3>1. j \in NewPlaces(p)
      BY <1>4, <1>8, <2>1, <2>3 DEF NewPlaces
    <3> QED
      BY <1>4, <1>6, <2>1, <3>1, PlaceCells
  <2> QED
    BY <2>2, <2>3
<1>9. k = Top(p) => b = tailBlock'[p]
  BY <1>4, <1>6
<1>10. Fills(p, k, b)'
  BY <1>3, <1>4, <1>5, <1>7, <1>8, <1>9 DEF Fills
<1>11. entry'[p] = entry[p]
  BY PlaceNames
<1> QED
  BY <1>2, <1>10, <1>11 DEF Fills

-----------------------------------------------------------------------------
(* So Place keeps the invariant.                                            *)

LEMMA PlaceLive ==
    ASSUME IInv, NEW p \in Producer, Place(p)
    PROVE  LiveInv(p)'
<1>0. Types /\ CountTypes /\ IndexInv(p) /\ LiveInv(p)
  BY DEF IInv, Rest, CountedInv, Owned
<1>1. PICK ph \in Phases(p) : Phased(p, ph)
  BY <1>0 DEF IndexInv, Phases
<1>2. /\ th[p].pc = "place" /\ UNCHANGED head /\ UNCHANGED tail /\ UNCHANGED <<header, entry>>
      /\ Known(p)' = Top(p)
  BY PlaceNames
<1>3. PICK l : th' = [th EXCEPT ![p] = l]
  BY PlaceNames
<1>4. (\A k : Unread(p, k)' = Unread(p, k)) /\ Apart(p)'
  BY <1>0, <1>2, <1>3, ProducerUnread DEF LiveInv
<1>5. \A c \in Consumer : \A k : Forgets(c, p, k)' <=> Forgets(c, p, k)
  BY <1>3, ProducerFrame
<1>6. \A k, i : Used(p, k, i)' <=> Used(p, k, i)
  BY <1>2 DEF Used
<1>7. Backed(p)'
  <2> SUFFICES ASSUME NEW k \in 0 .. Top(p), Unread(p, k) # {} PROVE \E i \in DOMAIN entry[p] : Used(p, k, i)
    BY <1>2, <1>4, <1>6 DEF Backed
  <2>1. Known(p) \in Int /\ Top(p) \in Nat /\ Top(p) = Known(p) + Len(Chain(p)) /\ Tried(p) = None
    BY <1>2, PlaceFacts
  <2>2. CASE k <= Known(p)
    <3>1. k \in 0 .. Known(p)
      BY <2>1, <2>2
    <3> QED
      BY <1>0, <3>1 DEF LiveInv, Backed
  <2>3. CASE ~ k <= Known(p)
    <3>1. PICK j \in Int : j = k - Known(p)
      BY <2>1
    <3>2. j \in DOMAIN Chain(p) /\ Known(p) + j = k /\ Chain(p)[j] \in Block
      <4>1. Chain(p) \in Seq(Block) /\ DOMAIN Chain(p) = 1 .. Len(Chain(p)) /\ Len(Chain(p)) \in Nat
        BY <1>0, NumTypes
      <4>2. j \in 1 .. Len(Chain(p)) /\ Known(p) + j = k
        BY <2>1, <2>3, <3>1, <4>1
      <4> QED
        BY <4>1, <4>2, ElementOfSeq
    <3>3. Indexed(Chain(p)[j], p, Now(p, ph, k))
      BY <1>1, <3>2, ChainHeld
    <3>4. Holds(p, ph, k, Chain(p)[j])
      BY <1>1, <3>2 DEF Phased, Keyed
    <3>5. Used(p, k, Now(p, ph, k)) /\ Now(p, ph, k) \in DOMAIN entry[p]
      BY <3>2, <3>3, <3>4, RolesDiffer DEF Indexed, Holds, Used
    <3> QED
      BY <3>5
  <2> QED
    BY <2>2, <2>3
<1>8. Filled(p)'
  <2> SUFFICES ASSUME NEW k \in Nat, NEW i \in DOMAIN entry[p], Used(p, k, i) PROVE Fills(p, k, entry[p][i].value)'
    BY <1>2, <1>6 DEF Filled
  <2> QED
    BY PlaceFills
<1>9. Emptied(p)'
  BY <1>0, <1>2, <1>4, <1>5, <1>6 DEF LiveInv, Emptied
<1> QED
  BY <1>0, <1>2, <1>4, <1>7, <1>8, <1>9 DEF LiveInv

LEMMA PlaceRest ==
    ASSUME IInv, NEW p \in Producer, Place(p)
    PROVE  Rest'
<1>0. Types /\ CountTypes /\ p \in Thread /\ p \notin Consumer /\ ~ broken
  BY Roles, IsSafe DEF IInv, Rest
<1>1. PICK l : l = [pc |-> "publish", n |-> th[p].n]
  OBVIOUS
<1>2. th' = [th EXCEPT ![p] = l] /\ CellsPut(p) /\ th[p].pc = "place"
  BY <1>1, PlaceNames
<1>3. /\ tailBlock' = [tailBlock EXCEPT ![p] = BlockFor(p, tail[p] + th[p].n - 1)]
      /\ UNCHANGED head /\ UNCHANGED tail /\ UNCHANGED index /\ UNCHANGED <<header, entry>>
      /\ UNCHANGED freeList /\ UNCHANGED memory /\ UNCHANGED broken
  BY PlaceNames
<1>4. th[p].n \in Nat \ {0} /\ Local(p) = th[p] /\ th[p] \in CallAt(Calls) /\ tail[p] + th[p].n - 1 \in NewPlaces(p)
  BY <1>2, PlaceFacts
<1>5. Plain(th[p])
  BY <1>4, CallLocal
<1>6. Plain(l) /\ LocalOk(p, l) /\ InCall(l) = NoCall
  BY <1>0, <1>1, <1>4 DEF Plain, Putting, LocalOk, Enq, InCall, Calls
<1>7. IndexKept /\ IndexTyped'
  BY <1>3, SameIndex
<1>8. BlocksTyped'
  <2>1. block' \in [Block -> BlockType]
    BY <1>2, CellsPutFields
  <2>2. BlockFor(p, tail[p] + th[p].n - 1) \in Block
    BY <1>2, <1>4, PlaceBlock
  <2>3. tailBlock \in [Producer -> Link]
    BY <1>0 DEF Types
  <2>4. tailBlock' \in [Producer -> Link]
    BY <1>3, <2>2, <2>3 DEF Link
  <2> QED
    BY <2>1, <2>4 DEF BlocksTyped
<1>9. ASSUME NEW q \in Producer PROVE Owned(q)'
  <2>1. CASE q = p
    BY <2>1, PlaceNames, PlaceIndex, PlaceLive DEF Owned
  <2>2. CASE q # p
    <3>1. header'[q] = header[q] /\ entry'[q] = entry[q] /\ tail'[q] = tail[q] /\ tailBlock'[q] = tailBlock[q]
      BY <1>0, <1>3, <2>2 DEF Types
    <3>2. \A i \in DOMAIN entry[q] : entry[q][i].value # None =>
               block'[entry[q][i].value] = block[entry[q][i].value]
      <4> SUFFICES ASSUME NEW i \in DOMAIN entry[q], entry[q][i].value # None
                   PROVE  block'[entry[q][i].value] = block[entry[q][i].value]
        OBVIOUS
      <4>1. i \in Nat
        BY <1>0, EntryFields
      <4> QED
        BY <1>2, <2>2, <4>1, PlaceCells
    <3> QED
      BY <1>2, <1>3, <2>2, <3>1, <3>2, OthersOwned
  <2> QED
    BY <2>1, <2>2
<1>10. ~ InCall(l).pc \in {"pool", "malloc"}
  BY <1>6 DEF NoCall
<1>11. ~ broken'
  BY <1>0, <1>3
<1> QED
  BY <1>0, <1>2, <1>3, <1>5, <1>6, <1>7, <1>8, <1>9, <1>10, <1>11, PlainRest

-----------------------------------------------------------------------------
(* A step of a consumer: what it leaves alone.                              *)

LEMMA ConsumerFrame ==
    ASSUME IInv, NEW c \in Consumer, NEW l, th' = [th EXCEPT ![c] = l]
    PROVE  /\ \A q \in Producer : th'[q] = th[q] /\ Local(q)' = Local(q)
           /\ \A d \in Consumer : d # c =>
                 /\ th'[d] = th[d] /\ TakenBy(d)' = TakenBy(d)
                 /\ \A q : Takes(d, q)' <=> Takes(d, q)
                 /\ \A q, k : Forgets(d, q, k)' <=> Forgets(d, q, k)
                 /\ \A q, j : Owns(d, q, j)' <=> Owns(d, q, j)
           /\ TakenBy(c)' = InClaim(l) /\ th'[c] = l
<1>1. th'[c] = l /\ \A t \in Thread : t # c => th'[t] = th[t]
  BY IsSafe, Roles
<1>2. \A q \in Producer : th'[q] = th[q]
  BY <1>1, Roles
<1>3. \A d \in Consumer : d # c => th'[d] = th[d]
  BY <1>1, Roles
<1>4. \A d \in Consumer : d # c => TakenBy(d)' = TakenBy(d)
  BY <1>3 DEF TakenBy
<1>5. ASSUME NEW d \in Consumer, d # c
      PROVE  /\ \A q : Takes(d, q)' <=> Takes(d, q)
             /\ \A q, k : Forgets(d, q, k)' <=> Forgets(d, q, k)
             /\ \A q, j : Owns(d, q, j)' <=> Owns(d, q, j)
  <2>1. TakenBy(d)' = TakenBy(d)
    BY <1>4, <1>5
  <2>2. \A q : Takes(d, q)' <=> Takes(d, q)
    BY <2>1 DEF Takes
  <2> QED
    BY <2>1, <2>2 DEF Forgets, Owns, Start, Num
<1>6. \A q \in Producer : Local(q)' = Local(q)
  BY <1>2 DEF Local
<1>7. TakenBy(c)' = InClaim(l)
  BY <1>1 DEF TakenBy
<1> QED
  BY <1>1, <1>2, <1>3, <1>4, <1>5, <1>6, <1>7

LEMMA ConsumerNames ==
    ASSUME IInv, NEW c \in Consumer, NEW l, th' = [th EXCEPT ![c] = l], NEW q \in Producer, tail'[q] = tail[q]
    PROVE  /\ Chain(q)' = Chain(q) /\ Tried(q)' = Tried(q) /\ Written(q)' = Written(q) /\ Known(q)' = Known(q)
           /\ Top(q)' = Top(q) /\ CallInv(q)'
<1>1. th'[q] = th[q] /\ Local(q)' = Local(q)
  BY ConsumerFrame
<1>2. Chain(q)' = Chain(q) /\ Tried(q)' = Tried(q) /\ Written(q)' = Written(q)
  BY <1>1 DEF Chain, Tried, Written, At
<1>3. Known(q)' = Known(q)
  BY <1>2 DEF Known, Num
<1>4. Top(q)' = Top(q)
  BY <1>2, <1>3 DEF Top
<1>5. CallInv(q)'
  <2>1. CallInv(q) /\ Local(q) \in CallAt(Calls) \cup {NoCall}
    BY LocalCall DEF IInv, Rest, Owned
  <2> QED
    BY <1>1, <1>2, <2>1, CallFrame
<1> QED
  BY <1>2, <1>3, <1>4, <1>5

\* The producers of which a consumer claims nothing.
LEMMA UnclaimedOwned ==
    ASSUME IInv, NEW c \in Consumer, NEW l, th' = [th EXCEPT ![c] = l], NEW q \in Producer,
           ~ Takes(c, q), ~ Takes(c, q)',
           header'[q] = header[q], entry'[q] = entry[q], head'[q] = head[q], tail'[q] = tail[q],
           tailBlock'[q] = tailBlock[q],
           \A i \in DOMAIN entry[q] : entry[q][i].value # None =>
               block'[entry[q][i].value] = block[entry[q][i].value]
    PROVE  Owned(q)'
<1>1. th'[q] = th[q]
  BY ConsumerFrame
<1>2. ASSUME NEW d \in Consumer
      PROVE  (Takes(d, q)' <=> Takes(d, q)) /\ (Takes(d, q) => TakenBy(d)' = TakenBy(d))
  <2>1. CASE d = c
    BY <2>1
  <2>2. CASE d # c
    BY <2>2, ConsumerFrame
  <2> QED
    BY <2>1, <2>2
<1>3. Types /\ Owned(q)
  BY DEF IInv, Rest
<1> QED
  BY <1>1, <1>2, <1>3, OtherOwned

LEMMA HeadTail == CountedInv => \A p \in Producer : head[p] <= tail[p]
<1> SUFFICES ASSUME CountedInv, NEW p \in Producer PROVE head[p] <= tail[p]
  OBVIOUS
<1>1. CountTypes /\ CountInv(p) /\ tail[p] \in Nat /\ head[p] \in Nat
  BY DEF CountedInv, CountTypes
<1>2. AllGot(p, tail[p]) \in [Consumer -> Nat]
  BY <1>1, HeldTypes
<1>3. Total(AllGot(p, tail[p])) \in Nat
  BY <1>2, TokensFinite
<1>4. head[p] + Total(AllGot(p, tail[p])) <= tail[p]
  BY <1>1 DEF CountInv
<1> QED
  BY <1>1, <1>3, <1>4

LEMMA HeadTailLater == CountedInv' => \A p \in Producer : head'[p] <= tail'[p]
<1>1. (CountedInv => \A p \in Producer : head[p] <= tail[p])'
  BY HeadTail, PTL
<1> QED
  BY <1>1

-----------------------------------------------------------------------------
(* head.fetch_add (concurrentqueue.h:2784-2786): the claim gets its places, apart *)
(* from those of every other claim.                                            *)

LEMMA TakeHeadIs ==
    ASSUME IInv, NEW c \in Consumer, TakeHead(c)
    PROVE  \E p \in Producer : \E l :
              /\ p = From(c) /\ th' = [th EXCEPT ![c] = l] /\ Calm(th[c]) /\ Wanting(th[c])
              /\ l = [pc |-> "find", ask |-> th[c].ask, n |-> th[c].n, at |-> head[p], end |-> head[p] + th[c].n]
              /\ th[c].n \in Nat \ {0} /\ head[p] \in Nat
              /\ head' = [head EXCEPT ![p] = head[p] + th[c].n] /\ head'[p] = head[p] + th[c].n
              /\ Head(l.ask.todo) = p /\ InClaim(l) = l /\ Taking(l) /\ Deq(l) /\ Plain(l)
              /\ \A q \in Producer : q # p => head'[q] = head[q]
<1>0. CountTypes /\ th[c].pc = "head"
  BY DEF IInv, CountedInv, TakeHead, At
<1>1. th[c] \in [pc : {"head"}, ask : Asking, n : Nat \ {0}, back : {0}] /\ Wanting(th[c])
  BY <1>0, LocalAt DEF Counting
<1>2. PICK p \in Producer : p = From(c)
  BY <1>1, FromType
<1>3. PICK l : l = [pc |-> "find", ask |-> th[c].ask, n |-> th[c].n, at |-> head[p], end |-> head[p] + th[c].n]
  OBVIOUS
<1>4. th' = [th EXCEPT ![c] = l] /\ head' = [head EXCEPT ![p] = head[p] + th[c].n]
  BY <1>2, <1>3 DEF TakeHead, Go
<1>5. head \in [Producer -> Nat] /\ th[c].n \in Nat \ {0}
  BY <1>0, <1>1 DEF CountTypes
<1>6. head'[p] = head[p] + th[c].n /\ \A q \in Producer : q # p => head'[q] = head[q]
  BY <1>4, <1>5
<1>7. Calm(th[c])
  BY <1>1 DEF Calm, Counting
<1>8. Head(l.ask.todo) = p
  BY <1>2, <1>3 DEF From
<1>9. InClaim(l) = l
  BY <1>3 DEF InClaim, Takings
<1>10. Taking(l)
  <2>1. l \in [pc : {"find"}, ask : {l.ask}, n : {l.n}, at : Nat, end : Nat]
    BY <1>3, <1>5
  <2>2. l.at < l.end
    BY <1>3, <1>5
  <2> QED
    BY <2>1, <2>2 DEF Taking
<1>11. Deq(l) /\ Plain(l)
  BY <1>3, <1>10 DEF Deq, Takings, Plain, Putting
<1> QED
  BY <1>1, <1>2, <1>3, <1>4, <1>5, <1>6, <1>7, <1>8, <1>9, <1>10, <1>11

LEMMA TakeHeadLive ==
    ASSUME IInv, NEW c \in Consumer, TakeHead(c), NEW p \in Producer, p = From(c)
    PROVE  Owned(p)'
<1>0. CountTypes /\ Types /\ IndexInv(p) /\ LiveInv(p) /\ CountedInv
  BY DEF IInv, Rest, CountedInv, Owned
<1>1. PICK l :
              /\ th' = [th EXCEPT ![c] = l] /\ Calm(th[c])
              /\ l = [pc |-> "find", ask |-> th[c].ask, n |-> th[c].n, at |-> head[p], end |-> head[p] + th[c].n]
              /\ th[c].n \in Nat \ {0} /\ head[p] \in Nat /\ head'[p] = head[p] + th[c].n
              /\ Head(l.ask.todo) = p /\ InClaim(l) = l
  BY TakeHeadIs
<1>2. UNCHANGED tail /\ UNCHANGED tailBlock /\ UNCHANGED index /\ UNCHANGED block /\ UNCHANGED <<header, entry>>
  BY DEF TakeHead, index
<1>3. /\ Chain(p)' = Chain(p) /\ Tried(p)' = Tried(p) /\ Written(p)' = Written(p) /\ Known(p)' = Known(p)
      /\ CallInv(p)'
  BY <1>1, <1>2, ConsumerNames
<1>4. /\ \A ph : Chained(p, ph)' <=> Chained(p, ph)
      /\ \A ph : Keyed(p, ph)' <=> Keyed(p, ph)
      /\ \A ph, m : FindsRight(p, ph, m)' <=> FindsRight(p, ph, m)
      /\ \A k, i : Used(p, k, i)' <=> Used(p, k, i)
      /\ Gens(p)' = Gens(p)
  BY <1>2, <1>3, FrameNames
<1>5. TakenBy(c) = Idle /\ ~ Takes(c, p) /\ (\A j : ~ Owns(c, p, j)) /\ (\A k : ~ Forgets(c, p, k))
  <2>1. TakenBy(c) = Idle
    BY <1>1, CalmLocal DEF TakenBy
  <2> QED
    BY <2>1 DEF Takes, Owns, Forgets
<1>6. TakenBy(c)' = l /\ l.pc = "find"
  <2>1. th' = [th EXCEPT ![c] = l] /\ InClaim(l) = l /\ l.pc = "find"
    BY <1>1
  <2>2. TakenBy(c)' = InClaim(l)
    BY <2>1, ConsumerFrame
  <2> QED
    BY <2>1, <2>2
<1>7. Takes(c, p)' /\ \A k : ~ Forgets(c, p, k)'
  BY <1>1, <1>6 DEF Takes, Idle, Forgets
<1>8. \A j : Owns(c, p, j)' <=> head[p] <= j /\ j < head'[p]
  <2>1. Start(l) = head[p] /\ l.end = head'[p]
    BY <1>1 DEF Start
  <2> QED
    BY <1>6, <1>7, <2>1 DEF Owns, Start, Num
<1>9. \A d \in Consumer : d # c =>
         /\ TakenBy(d)' = TakenBy(d) /\ (Takes(d, p)' <=> Takes(d, p))
         /\ \A k : Forgets(d, p, k)' <=> Forgets(d, p, k)
         /\ \A j : Owns(d, p, j)' <=> Owns(d, p, j)
  BY <1>1, ConsumerFrame
<1>10. IndexInv(p)'
  <2>1. PICK ph \in Phases(p) : Phased(p, ph)
    BY <1>0 DEF IndexInv, Phases
  <2>2. Chained(p, ph)' /\ Keyed(p, ph)'
    BY <1>4, <2>1 DEF Phased
  <2>3. ASSUME NEW d \in Consumer, Takes(d, p)' PROVE FindsRight(p, ph, TakenBy(d))'
    <3>1. CASE d = c
      BY <1>6, <3>1 DEF FindsRight
    <3>2. CASE d # c
      <4>1. PICK m : m = TakenBy(d)
        OBVIOUS
      <4>2. FindsRight(p, ph, m)
        BY <1>9, <2>1, <2>3, <3>2, <4>1 DEF Phased
      <4>3. FindsRight(p, ph, m)' /\ TakenBy(d)' = m
        BY <1>4, <1>9, <3>2, <4>1, <4>2
      <4> QED
        BY <4>3 DEF FindsRight
    <3> QED
      BY <3>1, <3>2
  <2>4. ph \in Phases(p)'
    BY <1>4 DEF Phases
  <2> QED
    BY <2>2, <2>3, <2>4 DEF IndexInv, Phased, Phases
<1>11. head'[p] <= tail'[p]
  BY <1>0, TakeHeadCounted, HeadTailLater
<1>12. ASSUME NEW k PROVE Unread(p, k)' = Unread(p, k)
  <2>1. Unread(p, k)' = {j \in k * BlockSize .. k * BlockSize + BlockSize - 1 :
                           j >= head'[p] \/ \E d \in Consumer : Owns(d, p, j)'}
    BY DEF Unread
  <2>2. ASSUME NEW j \in k * BlockSize .. k * BlockSize + BlockSize - 1
        PROVE  (j >= head'[p] \/ \E d \in Consumer : Owns(d, p, j)')
                  <=> (j >= head[p] \/ \E d \in Consumer : Owns(d, p, j))
    <3>1. (\E d \in Consumer : Owns(d, p, j)') <=>
             (head[p] <= j /\ j < head'[p]) \/ \E d \in Consumer : Owns(d, p, j)
      BY <1>5, <1>8, <1>9
    <3>2. j >= head'[p] \/ (head[p] <= j /\ j < head'[p]) <=> j >= head[p]
      BY <1>1
    <3> QED
      BY <3>1, <3>2
  <2> QED
    BY <2>1, <2>2 DEF Unread
<1>13. Apart(p)'
  <2>1. l.end = head'[p] /\ Start(l) = head[p]
    BY <1>1 DEF Start
  <2>2. ASSUME NEW d \in Consumer, Takes(d, p), d # c
        PROVE  TakenBy(d)' = TakenBy(d) /\ TakenBy(d).end <= head[p] /\ TakenBy(d).end \in Nat
    BY <1>0, <1>9, <2>2, TakesLocal DEF LiveInv, Apart
  <2>3. ASSUME NEW d \in Consumer, Takes(d, p)' PROVE TakenBy(d)'.end <= head'[p]
    <3>1. CASE d = c
      BY <1>1, <1>6, <2>1, <3>1
    <3>2. CASE d # c
      BY <1>1, <1>9, <2>2, <2>3, <3>2
    <3> QED
      BY <3>1, <3>2
  <2>4. ASSUME NEW d \in Consumer, Takes(d, p)', NEW e \in Consumer \ {d}, Takes(e, p)'
        PROVE  TakenBy(d)'.end <= Start(TakenBy(e)') \/ TakenBy(e)'.end <= Start(TakenBy(d)')
    <3>1. CASE d = c
      BY <1>6, <1>9, <2>1, <2>2, <2>4, <3>1
    <3>2. CASE e = c
      BY <1>6, <1>9, <2>1, <2>2, <2>4, <3>2
    <3>3. CASE d # c /\ e # c
      BY <1>0, <1>9, <2>4, <3>3 DEF LiveInv, Apart
    <3> QED
      BY <3>1, <3>2, <3>3
  <2> QED
    BY <2>3, <2>4 DEF Apart, Start, Num
<1>14. \A d \in Consumer : \A k : Forgets(d, p, k)' <=> Forgets(d, p, k)
  BY <1>5, <1>7, <1>9
<1>15. LiveInv(p)'
  BY <1>0, <1>2, <1>3, <1>4, <1>11, <1>12, <1>13, <1>14, LiveKeeps
<1> QED
  BY <1>3, <1>10, <1>15 DEF Owned

\* The claim is below the tail that was published, as the counters say.
LEMMA TakeHeadRest ==
    ASSUME IInv, NEW c \in Consumer, TakeHead(c)
    PROVE  Rest'
<1>0. c \in Thread /\ c \notin Producer /\ ~ broken
  BY Roles DEF IInv, Rest
<1>10. PICK p \in Producer : \E l :
              /\ p = From(c) /\ th' = [th EXCEPT ![c] = l] /\ Calm(th[c])
              /\ Head(l.ask.todo) = p /\ InClaim(l) = l /\ Deq(l) /\ Plain(l)
              /\ \A q \in Producer : q # p => head'[q] = head[q]
  BY TakeHeadIs
<1>1. PICK l :
              /\ p = From(c) /\ th' = [th EXCEPT ![c] = l] /\ Calm(th[c])
              /\ Head(l.ask.todo) = p /\ InClaim(l) = l /\ Deq(l) /\ Plain(l)
              /\ \A q \in Producer : q # p => head'[q] = head[q]
  BY <1>10
<1>2. /\ UNCHANGED tail /\ UNCHANGED tailBlock /\ UNCHANGED index /\ UNCHANGED block /\ UNCHANGED <<header, entry>>
      /\ UNCHANGED freeList /\ UNCHANGED memory /\ UNCHANGED broken
  BY DEF TakeHead, index
<1>3. Plain(th[c])
  BY <1>1 DEF Calm, Counting, Plain, Putting
<1>4. IndexKept /\ IndexTyped' /\ BlocksTyped'
  BY <1>2, SameIndex, SameBlocks
<1>5. ASSUME NEW q \in Producer PROVE Owned(q)'
  <2>1. CASE q = p
    BY <1>1, <2>1, TakeHeadLive
  <2>2. CASE q # p
    <3>1. ~ Takes(c, q)
      BY <1>1, CalmLocal DEF Takes, TakenBy
    <3>2. ~ Takes(c, q)'
      <4>1. TakenBy(c)' = l
        BY <1>1, ConsumerFrame
      <4> QED
        BY <1>1, <2>2, <4>1 DEF Takes
    <3> QED
      BY <1>1, <1>2, <2>2, <3>1, <3>2, UnclaimedOwned
  <2> QED
    BY <2>1, <2>2
<1>6. LocalOk(c, l)
  BY <1>0, <1>1 DEF LocalOk
<1>7. ~ broken'
  BY <1>0, <1>2
<1> QED
  BY <1>0, <1>1, <1>2, <1>3, <1>4, <1>5, <1>6, <1>7, PlainRest

-----------------------------------------------------------------------------
(* get_block_index_index_for_index (concurrentqueue.h:2931-2947): the claim finds *)
(* the slot of its first block.                                                *)

\* A consumer at its claim.
LEMMA ClaimIs ==
    ASSUME IInv, NEW c \in Consumer, th[c].pc \in Takings
    PROVE  /\ TakenBy(c) = th[c] /\ Plain(th[c]) /\ Taking(th[c]) /\ Wanting(th[c])
           /\ From(c) \in Producer /\ \A q : Takes(c, q) <=> q = From(c)
           /\ th[c].at \in Nat /\ th[c].end \in Nat /\ th[c].at < th[c].end
           /\ th[c].pc # "find" => th[c].gen \in Nat \ {0} /\ th[c].slot \in Nat
           /\ DOMAIN th[c] = IF th[c].pc = "find" THEN {"pc", "ask", "n", "at", "end"}
                             ELSE {"pc", "ask", "n", "at", "end", "gen", "slot"}
<1>0. CountTypes /\ Types
  BY DEF IInv, Rest, CountedInv
<1>1. TakenBy(c) = th[c]
  BY DEF TakenBy, InClaim
<1>2. th[c] # Idle
  BY DEF Idle, Takings
<1>3. /\ Taking(th[c]) /\ Wanting(th[c]) /\ Head(th[c].ask.todo) \in Producer
      /\ th[c].at \in Nat /\ th[c].end \in Nat /\ th[c].at < th[c].end
      /\ th[c].pc # "find" => th[c].gen \in Nat \ {0} /\ th[c].slot \in Nat
  BY <1>0, <1>1, <1>2, ClaimLocal
<1>4. From(c) = Head(th[c].ask.todo)
  BY DEF From
<1>5. \A q : Takes(c, q) <=> q = From(c)
  BY <1>1, <1>2, <1>4 DEF Takes
<1>6. DOMAIN th[c] = IF th[c].pc = "find" THEN {"pc", "ask", "n", "at", "end"}
                             ELSE {"pc", "ask", "n", "at", "end", "gen", "slot"}
  BY <1>3 DEF Taking
<1>7. Plain(th[c])
  BY <1>6 DEF Plain, Takings, Putting
<1> QED
  BY <1>1, <1>3, <1>4, <1>5, <1>6, <1>7

LEMMA FindIs ==
    ASSUME IInv, NEW c \in Consumer, Find(c), NEW p, p = From(c)
    PROVE  \E l : /\ th' = [th EXCEPT ![c] = l] /\ th[c].pc = "find" /\ l.pc = "entry" /\ l.ask = th[c].ask
                  /\ l.at = th[c].at /\ l.end = th[c].end
                  /\ l.gen = Gens(p) /\ l.slot = header[p][Gens(p)].tail /\ l.slot \in 0 .. Cap(p) - 1 /\ Gens(p) # 0
                  /\ InClaim(l) = l /\ Plain(l) /\ Deq(l)
<1>0. CountTypes /\ Types /\ th[c].pc = "find"
  BY DEF IInv, Rest, CountedInv, Find, At
<1>1. PICK t : t = th[c]
  OBVIOUS
<1>2. p \in Producer /\ Takes(c, p) /\ TakenBy(c) = t /\ t.at \in Nat /\ t.end \in Nat /\ t.at < t.end
  BY <1>0, <1>1, ClaimIs DEF Takings
<1>3. Gens(p) # 0
  <2>1. LiveInv(p) /\ IndexInv(p)
    BY <1>2 DEF IInv, Rest, Owned
  <2>2. PICK ph \in Phases(p) : Chained(p, ph) /\ Keyed(p, ph)
    BY <2>1 DEF IndexInv, Phased, Phases
  <2>3. PICK m \in Nat : m = Num(t.at)
    BY <1>2, NumFacts
  <2>4. m \in Num(TakenBy(c).at) .. Num(TakenBy(c).end - 1)
    BY <1>0, <1>2, <2>3, TakesLocal
  <2>5. PICK i \in DOMAIN entry[p] : Used(p, m, i)
    BY <1>0, <1>2, <2>1, <2>4, ClaimUsed
  <2> QED
    BY <1>0, <1>2, <2>2, <2>5, UsedAt
<1>4. Last(header[p]) = header[p][Gens(p)] /\ header[p][Gens(p)] \in Index /\ Gens(p) \in Nat
  BY <1>0, <1>2, <1>3, HeaderFields
<1>5. header[p][Gens(p)].tail \in 0 .. Cap(p) - 1 /\ header[p][Gens(p)].tail \in Nat
  BY <1>4, IndexFields DEF Cap
<1>6. PICK l : l = [pc |-> "entry", ask |-> t.ask, n |-> t.n, at |-> t.at, end |-> t.end,
                    gen |-> Gens(p), slot |-> header[p][Gens(p)].tail]
  OBVIOUS
<1>7. th' = [th EXCEPT ![c] = l]
  <2>1. l = [pc |-> "entry", ask |-> th[c].ask, n |-> th[c].n, at |-> th[c].at,
              end |-> th[c].end, gen |-> Len(header[From(c)]),
              slot |-> Last(header[From(c)]).tail]
    BY <1>1, <1>4, <1>6 DEF Gens
  <2>2. th' = [th EXCEPT ![c] = [pc |-> "entry", ask |-> th[c].ask, n |-> th[c].n, at |-> th[c].at,
              end |-> th[c].end, gen |-> Len(header[From(c)]),
              slot |-> Last(header[From(c)]).tail]]
    BY DEF Find, Go
  <2> QED
    BY <2>1, <2>2
<1>8. Taking(l)
  <2>1. l \in [pc : {"entry", "move", "forget"}, ask : {l.ask}, n : {l.n}, at : Nat,
                   end : Nat, gen : Nat \ {0}, slot : Nat]
    BY <1>2, <1>3, <1>4, <1>5, <1>6
  <2>2. l.at < l.end
    BY <1>2, <1>6
  <2> QED
    BY <2>1, <2>2 DEF Taking
<1>9. InClaim(l) = l /\ Plain(l) /\ Deq(l)
  BY <1>6, <1>8 DEF InClaim, Takings, Plain, Putting, Deq
<1> QED
  BY <1>0, <1>1, <1>3, <1>5, <1>6, <1>7, <1>9

LEMMA FindOwned ==
    ASSUME IInv, NEW c \in Consumer, Find(c), NEW p \in Producer, p = From(c)
    PROVE  Owned(p)'
<1>0. CountTypes /\ Types /\ IndexInv(p) /\ LiveInv(p)
  BY DEF IInv, Rest, CountedInv, Owned
<1>1. PICK l : /\ th' = [th EXCEPT ![c] = l] /\ th[c].pc = "find" /\ l.pc = "entry" /\ l.ask = th[c].ask
               /\ l.at = th[c].at /\ l.end = th[c].end
               /\ l.gen = Gens(p) /\ l.slot = header[p][Gens(p)].tail /\ l.slot \in 0 .. Cap(p) - 1 /\ Gens(p) # 0
               /\ InClaim(l) = l
  BY FindIs
<1>2. UNCHANGED tail /\ UNCHANGED tailBlock /\ UNCHANGED block /\ UNCHANGED <<header, entry>> /\ UNCHANGED head
  BY DEF Find, index, places
<1>3. /\ Chain(p)' = Chain(p) /\ Tried(p)' = Tried(p) /\ Written(p)' = Written(p) /\ Known(p)' = Known(p)
      /\ CallInv(p)'
  BY <1>1, <1>2, ConsumerNames
<1>4. /\ \A ph : Chained(p, ph)' <=> Chained(p, ph)
      /\ \A ph : Keyed(p, ph)' <=> Keyed(p, ph)
      /\ \A ph, m : FindsRight(p, ph, m)' <=> FindsRight(p, ph, m)
      /\ \A k, i : Used(p, k, i)' <=> Used(p, k, i)
      /\ Gens(p)' = Gens(p)
  BY <1>2, <1>3, FrameNames
<1>5. TakenBy(c) = th[c] /\ Takes(c, p) /\ th[c].at \in Nat /\ th[c].end \in Nat /\ th[c].at < th[c].end
  BY <1>1, ClaimIs DEF Takings
<1>6. TakenBy(c)' = l
  <2>1. th' = [th EXCEPT ![c] = l] /\ InClaim(l) = l
    BY <1>1
  <2>2. TakenBy(c)' = InClaim(l)
    BY <2>1, ConsumerFrame
  <2> QED
    BY <2>1, <2>2
<1>7. Takes(c, p)'
  BY <1>1, <1>5, <1>6 DEF Takes, Idle
<1>8. Start(l) = Start(th[c]) /\ l.end = th[c].end
  BY <1>1 DEF Start
<1>9. (\A j : Owns(c, p, j)' <=> Owns(c, p, j)) /\ (\A k : Forgets(c, p, k)' <=> Forgets(c, p, k))
  <2>1. \A j : Owns(c, p, j)' <=> Start(l) <= j /\ j < l.end
    BY <1>6, <1>7 DEF Owns, Start, Num
  <2>2. \A j : Owns(c, p, j) <=> Start(th[c]) <= j /\ j < th[c].end
    BY <1>5 DEF Owns
  <2>3. \A k : ~ Forgets(c, p, k)' /\ ~ Forgets(c, p, k)
    BY <1>1, <1>5, <1>6 DEF Forgets
  <2> QED
    BY <1>8, <2>1, <2>2, <2>3
<1>10. \A d \in Consumer : d # c =>
         /\ TakenBy(d)' = TakenBy(d) /\ (Takes(d, p)' <=> Takes(d, p))
         /\ \A k : Forgets(d, p, k)' <=> Forgets(d, p, k)
         /\ \A j : Owns(d, p, j)' <=> Owns(d, p, j)
  BY <1>1, ConsumerFrame
<1>11. \A d \in Consumer : /\ \A k : Forgets(d, p, k)' <=> Forgets(d, p, k)
                           /\ \A j : Owns(d, p, j)' <=> Owns(d, p, j)
                           /\ Takes(d, p)' <=> Takes(d, p)
                           /\ Start(TakenBy(d)') = Start(TakenBy(d)) /\ TakenBy(d)'.end = TakenBy(d).end
  BY <1>5, <1>6, <1>7, <1>8, <1>9, <1>10
<1>12. \A k : Unread(p, k)' = Unread(p, k)
  BY <1>2, <1>11 DEF Unread
<1>13. Apart(p)'
  <2>1. Apart(p)
    BY <1>0 DEF LiveInv
  <2>2. \A d \in Consumer : Takes(d, p) =>
       /\ TakenBy(d)'.end <= head[p]
       /\ \A e \in Consumer \ {d} : Takes(e, p) =>
            TakenBy(d)'.end <= Start(TakenBy(e)') \/ TakenBy(e)'.end <= Start(TakenBy(d)')
    BY <1>11, <2>1 DEF Apart
  <2> QED
    BY <1>2, <1>11, <2>2 DEF Apart, Start, Num
<1>14. head'[p] <= tail'[p]
  BY <1>0, <1>2 DEF LiveInv
<1>15. LiveInv(p)'
  BY <1>0, <1>2, <1>3, <1>4, <1>11, <1>12, <1>13, <1>14, LiveKeeps
<1>16. IndexInv(p)'
  <2>1. PICK ph \in Phases(p) : Phased(p, ph)
    BY <1>0 DEF IndexInv, Phases
  <2>2. Chained(p, ph)' /\ Keyed(p, ph)'
    BY <1>4, <2>1 DEF Phased
  <2>3. FindsRight(p, ph, l)
    <3>1. PICK g \in Nat : g = Gens(p) /\ g \in 1 .. Gens(p)
      BY <1>0, <1>1, HeaderFields
    <3>2. PICK h \in Index : h = header[p][g]
      BY <1>0, <3>1, HeaderFields
    <3>3. PICK top \in Int : top = Top(p)
      BY <1>0, NumTypes
    <3>4. l.slot = (ph[g] + top) % h.cap /\ l.slot \in 0 .. h.cap - 1
      BY <1>1, <2>1, <3>1, <3>2, <3>3 DEF Phased, Chained, Cap
    <3>5. PICK m \in Nat : m = Num(th[c].at) /\ m \in Num(TakenBy(c).at) .. Num(TakenBy(c).end - 1)
      <4>1. PICK m \in Nat : m = Num(th[c].at)
        BY <1>5, NumFacts
      <4>2. m \in Num(TakenBy(c).at) .. Num(TakenBy(c).end - 1)
        BY <1>0, <1>5, <4>1, TakesLocal
      <4> QED
        BY <4>1, <4>2
    <3>6. PICK i \in DOMAIN entry[p] : Used(p, m, i)
      BY <1>0, <1>5, <3>5, ClaimUsed
    <3>7. 0 <= m /\ m <= top /\ \A x \in m .. top : entry[p][Now(p, ph, x)].key = x * BlockSize
      BY <1>0, <2>1, <3>3, <3>6, UsedAt DEF Phased
    <3>8. top \in Nat /\ top \in m .. top
      BY <3>7
    <3>9. \A x : Now(p, ph, x) = Named(h, ph[g], x)
      BY <3>1, <3>2 DEF Now
    <3>10. entry[p][h.slots[l.slot]].key = top * BlockSize
      BY <3>4, <3>7, <3>8, <3>9 DEF Named
    <3> QED
      BY <1>1, <3>1, <3>2, <3>4, <3>8, <3>9, <3>10 DEF FindsRight
  <2>4. ASSUME NEW d \in Consumer, Takes(d, p)' PROVE FindsRight(p, ph, TakenBy(d))'
    <3>1. PICK m : m = TakenBy(d)'
      OBVIOUS
    <3>2. FindsRight(p, ph, m)
      <4>1. CASE d = c
        BY <1>6, <2>3, <3>1, <4>1
      <4>2. CASE d # c
        BY <1>10, <2>1, <2>4, <3>1, <4>2 DEF Phased
      <4> QED
        BY <4>1, <4>2
    <3>3. FindsRight(p, ph, m)'
      BY <1>4, <3>2
    <3> QED
      BY <3>1, <3>3 DEF FindsRight
  <2>5. ph \in Phases(p)'
    BY <1>4 DEF Phases
  <2> QED
    BY <2>2, <2>4, <2>5 DEF IndexInv, Phased, Phases
<1> QED
  BY <1>3, <1>15, <1>16 DEF Owned

\* The index found is the newest, its slot that of the first block claimed.
LEMMA FindRest ==
    ASSUME IInv, NEW c \in Consumer, Find(c)
    PROVE  Rest'
<1>0. c \in Thread /\ c \notin Producer /\ ~ broken
  BY Roles DEF IInv, Rest
<1>1. PICK p : p = From(c)
  OBVIOUS
<1>2. PICK l : /\ th' = [th EXCEPT ![c] = l] /\ th[c].pc = "find" /\ l.ask = th[c].ask
               /\ InClaim(l) = l /\ Plain(l) /\ Deq(l)
  BY <1>1, FindIs
<1>3. /\ UNCHANGED tail /\ UNCHANGED tailBlock /\ UNCHANGED index /\ UNCHANGED block /\ UNCHANGED <<header, entry>>
      /\ UNCHANGED freeList /\ UNCHANGED memory /\ UNCHANGED broken /\ UNCHANGED head
  BY DEF Find, index, places
<1>4. Plain(th[c]) /\ p \in Producer /\ \A q : Takes(c, q) <=> q = p
  BY <1>1, <1>2, ClaimIs DEF Takings
<1>5. IndexKept /\ IndexTyped' /\ BlocksTyped'
  BY <1>3, SameIndex, SameBlocks
<1>6. ASSUME NEW q \in Producer PROVE Owned(q)'
  <2>1. CASE q = p
    BY <1>1, <2>1, FindOwned
  <2>2. CASE q # p
    <3>1. ~ Takes(c, q)
      BY <1>4, <2>2
    <3>2. ~ Takes(c, q)'
      <4>1. th' = [th EXCEPT ![c] = l]
        BY <1>2
      <4>2. TakenBy(c)' = InClaim(l)
        BY <4>1, ConsumerFrame
      <4> QED
        BY <1>1, <1>2, <2>2, <4>2 DEF Takes, From
    <3> QED
      BY <1>2, <1>3, <2>2, <3>1, <3>2, UnclaimedOwned
  <2> QED
    BY <2>1, <2>2
<1>7. LocalOk(c, l) /\ ~ broken'
  BY <1>0, <1>2, <1>3 DEF LocalOk
<1> QED
  BY <1>0, <1>2, <1>3, <1>4, <1>5, <1>6, <1>7, PlainRest

-----------------------------------------------------------------------------
(* The slot that a claim is at is that of the block of its elements, and the *)
(* next slot that of the next block.                                        *)

LEMMA SlotNext ==
    ASSUME NEW f \in Int, NEW k \in Int, NEW k1 \in Int, NEW cap \in Nat \ {0}, NEW slot, slot = (f + k1) % cap
    PROVE  (slot + (k * BlockSize - k1 * BlockSize) \div BlockSize) % cap = (f + k) % cap
<1>1. (k * BlockSize - k1 * BlockSize) \div BlockSize = k - k1
  BY DivDiff
<1>2. PICK a \in Int, b \in Int : a = f + k1 /\ b = k - k1
  OBVIOUS
<1>3. ((a % cap) + b) % cap = (a + b) % cap
  BY ModAdd
<1>4. a + b = f + k
  BY <1>2
<1> QED
  BY <1>1, <1>2, <1>3, <1>4

\* Where a consumer that has found the index is: at the slot and the entry of its block.
Placed(c, p, ph, k, i, h, f) ==
    /\ h = header[p][th[c].gen] /\ h \in Index /\ f = ph[th[c].gen] /\ f \in Int /\ k = Num(th[c].at) /\ k \in Nat
    /\ Slot(c) = (f + k) % h.cap /\ EntryAt(c, Slot(c)) = i /\ i = Now(p, ph, k) /\ Used(p, k, i)
    /\ th[c].gen \in 1 .. Gens(p) /\ BaseOf(th[c].at) = k * BlockSize
    /\ th[c].pc # "entry" => th[c].slot = Slot(c)

\* The entry that a claim reads holds its block.
LEMMA ClaimSlot ==
    ASSUME IInv, NEW c \in Consumer, th[c].pc \in {"entry", "move", "forget"}, NEW p, p = From(c),
           NEW ph \in Phases(p), Phased(p, ph)
    PROVE  \E h, f, k, i : Placed(c, p, ph, k, i, h, f)
<1>0. CountTypes /\ Types
  BY DEF IInv, Rest, CountedInv
<1>1. PICK t : t = th[c]
  OBVIOUS
<1>2. p \in Producer /\ Takes(c, p) /\ TakenBy(c) = t /\ t.at \in Nat /\ t.slot \in Nat /\ t.pc # "find"
  BY <1>1, ClaimIs DEF Takings
<1>3. FindsRight(p, ph, t) /\ Chained(p, ph) /\ Keyed(p, ph) /\ LiveInv(p)
  BY <1>2 DEF Phased, IInv, Rest, Owned
<1>4. PICK g \in 1 .. Gens(p) : g = t.gen
  BY <1>2, <1>3 DEF FindsRight
<1>5. PICK h \in Index : h = header[p][g]
  BY <1>0, <1>2, <1>4, HeaderFields
<1>6. PICK f \in Int : f = ph[g]
  BY <1>4 DEF Phases
<1>7. PICK k \in Nat : k = Num(t.at) /\ BaseOf(t.at) = k * BlockSize
  BY <1>2, NumFacts
<1>8. k \in Num(TakenBy(c).at) .. Num(TakenBy(c).end - 1)
  BY <1>0, <1>2, <1>7, TakesLocal
<1>9. PICK i \in DOMAIN entry[p] : Used(p, k, i)
  BY <1>0, <1>2, <1>3, <1>8, ClaimUsed
<1>10. i = Now(p, ph, k)
  BY <1>0, <1>2, <1>3, <1>9, UsedAt
<1>11. i = h.slots[(f + k) % h.cap]
  BY <1>2, <1>3, <1>4, <1>5, <1>6, <1>8, <1>10 DEF FindsRight, Named
<1>12. h.cap \in Nat \ {0}
  BY <1>5, IndexFields
<1>13. PICK k1 \in Nat : entry[p][h.slots[t.slot]].key = k1 * BlockSize /\ t.slot = (f + k1) % h.cap
                         /\ (t.pc # "entry" => k1 = k)
  <2>1. CASE t.pc = "entry"
    BY <1>2, <1>3, <1>4, <1>5, <1>6, <2>1 DEF FindsRight
  <2>2. CASE t.pc # "entry"
    <3>1. t.slot = (f + k) % h.cap
      BY <1>2, <1>3, <1>4, <1>5, <1>6, <1>7, <2>2 DEF FindsRight
    <3>2. entry[p][h.slots[t.slot]].key = k * BlockSize
      BY <1>9, <1>11, <3>1 DEF Used
    <3> QED
      BY <3>1, <3>2
  <2> QED
    BY <2>1, <2>2
<1>14. SlotOf(h, t.slot, entry[p], k * BlockSize) = (f + k) % h.cap
  <2>1. PICK cap \in Nat \ {0} : cap = h.cap
    BY <1>12
  <2>2. PICK slot : slot = t.slot /\ slot = (f + k1) % cap
    BY <1>13, <2>1
  <2>3. (slot + (k * BlockSize - k1 * BlockSize) \div BlockSize) % cap = (f + k) % cap
    <3>1. k \in Int /\ k1 \in Int
      BY <1>7, <1>13
    <3>2. \A s : s = (f + k1) % cap => (s + (k * BlockSize - k1 * BlockSize) \div BlockSize) % cap = (f + k) % cap
      BY <3>1, SlotNext
    <3> QED
      BY <2>2, <3>2
  <2>4. PICK key : key = entry[p][h.slots[slot]].key /\ key = k1 * BlockSize
    BY <1>13, <2>2
  <2>5. SlotOf(h, slot, entry[p], k * BlockSize) = (slot + (k * BlockSize - key) \div BlockSize) % cap
    BY <2>1, <2>4 DEF SlotOf
  <2> QED
    BY <2>1, <2>2, <2>3, <2>4, <2>5
<1>15. Slot(c) = (f + k) % h.cap
  <2>1. CASE t.pc = "move"
    <3>1. Slot(c) = t.slot
      BY <1>1, <2>1 DEF Slot, At
    <3> QED
      BY <1>13, <2>1, <3>1
  <2>2. CASE t.pc # "move"
    BY <1>1, <1>4, <1>5, <1>7, <1>14, <2>2 DEF Slot, At
  <2> QED
    BY <2>1, <2>2
<1>16. EntryAt(c, Slot(c)) = i
  BY <1>1, <1>4, <1>5, <1>11, <1>15 DEF EntryAt
<1>17. t.pc # "entry" => t.slot = Slot(c)
  BY <1>13, <1>15
<1> QED
  BY <1>1, <1>4, <1>5, <1>6, <1>7, <1>9, <1>10, <1>15, <1>16, <1>17 DEF Placed

\* What is left of a claim after the block that it is at.
After(c) == (Num(th[c].at) + 1) * BlockSize
Onward(l, c, p, ph) ==
    LET m == InClaim(l) IN
    \/ m = Idle /\ th[c].end <= After(c)
    \/ /\ m # Idle /\ m.ask = th[c].ask /\ Start(m) = After(c) /\ m.end = th[c].end
       /\ m.pc = "forget" => Num(m.at) = Num(th[c].at)
       /\ FindsRight(p, ph, m)

\* The slot after the block is right for the rest of the claim.
LEMMA AfterOnward ==
    ASSUME IInv, NEW c \in Consumer, th[c].pc \in {"entry", "move", "forget"}, NEW p, p = From(c),
           NEW ph \in Phases(p), Phased(p, ph)
    PROVE  LET l == AfterBlock(c) IN
           /\ Onward(l, c, p, ph) /\ Plain(l) /\ Deq(l) /\ NextUp(l) /\ Hands(l) = {} /\ InClaim(l).pc # "forget"
           /\ l.pc \in {"idle", "load", "move"} /\ (l.pc = "move" => InClaim(l) = l) /\ "then" \notin DOMAIN l
<1>0. CountTypes /\ Types
  BY DEF IInv, Rest, CountedInv
<1>1. PICK t : t = th[c]
  OBVIOUS
<1>2. /\ p \in Producer /\ Takes(c, p) /\ TakenBy(c) = t /\ t.at \in Nat /\ t.end \in Nat /\ Taking(t) /\ t.gen \in Nat \ {0}
      /\ DOMAIN t = {"pc", "ask", "n", "at", "end", "gen", "slot"} /\ t.slot \in Nat
  BY <1>1, ClaimIs DEF Takings
<1>3. PICK h, f, k, i : Placed(c, p, ph, k, i, h, f)
  BY ClaimSlot
<1>4. /\ h = header[p][t.gen] /\ h \in Index /\ f = ph[t.gen] /\ f \in Int /\ k = Num(t.at) /\ k \in Nat
      /\ Slot(c) = (f + k) % h.cap /\ t.gen \in 1 .. Gens(p) /\ BaseOf(t.at) = k * BlockSize
  BY <1>1, <1>3 DEF Placed
<1>5. PICK at \in Nat : at = BaseOf(t.at) + BlockSize /\ at = (k + 1) * BlockSize
  <2>1. (k + 1) * BlockSize = k * BlockSize + BlockSize
    BY <1>4, Scale
  <2>2. BlockSize \in Nat
    BY Sizes
  <2>3. (k + 1) * BlockSize \in Nat
    BY <1>4, <2>2, Sizes
  <2> QED
    BY <1>4, <2>1, <2>3
<1>6. After(c) = at
  BY <1>1, <1>4, <1>5 DEF After
<1>7. PICK l : l = AfterBlock(c)
  OBVIOUS
<1>8. CASE at < t.end
  <2>1. l = [t EXCEPT !.pc = "move", !.at = at, !.slot = (Slot(c) + 1) % h.cap]
    BY <1>1, <1>2, <1>4, <1>5, <1>7, <1>8 DEF AfterBlock
  <2>2. PICK slot \in 0 .. h.cap - 1 : slot = (Slot(c) + 1) % h.cap /\ slot = (f + (k + 1)) % h.cap
    <3>1. h.cap \in Nat \ {0}
      BY <1>4, IndexFields
    <3>2. PICK a \in Int : a = f + k
      BY <1>4
    <3>3. ((a % h.cap) + 1) % h.cap = (a + 1) % h.cap
      BY <3>1, ModAdd
    <3>4. a + 1 = f + (k + 1)
      BY <1>4, <3>2
    <3>5. (a + 1) % h.cap \in 0 .. h.cap - 1
      <4>1. PICK cap \in Nat \ {0}, a1 \in Int : cap = h.cap /\ a1 = a + 1
        BY <3>1
      <4>2. a1 % cap \in 0 .. cap - 1
        BY ModRange
      <4> QED
        BY <4>1, <4>2
    <3> QED
      BY <1>4, <3>2, <3>3, <3>4, <3>5
  <2>3. /\ l.pc = "move" /\ l.at = at /\ l.slot = slot /\ l.ask = t.ask /\ l.end = t.end /\ l.gen = t.gen /\ l.n = t.n
        /\ DOMAIN l = {"pc", "ask", "n", "at", "end", "gen", "slot"}
    BY <1>2, <2>1, <2>2
  <2>4. slot \in Nat
    <3>1. h.cap \in Nat \ {0}
      BY <1>4, IndexFields
    <3> QED
      BY <2>2, <3>1
  <2>5. Taking(l)
    <3>1. l = [pc |-> "move", ask |-> l.ask, n |-> l.n, at |-> at, end |-> l.end, gen |-> l.gen, slot |-> slot]
      <4>1. l = [x \in {"pc", "ask", "n", "at", "end", "gen", "slot"} |-> l[x]]
        BY <2>1, <2>3
      <4> QED
        BY <2>3, <4>1
    <3>2. l \in [pc : {"entry", "move", "forget"}, ask : {l.ask}, n : {l.n}, at : Nat,
                   end : Nat, gen : Nat \ {0}, slot : Nat]
      BY <1>2, <2>3, <2>4, <3>1
    <3>3. l.at < l.end
      BY <1>8, <2>3
    <3> QED
      BY <3>2, <3>3 DEF Taking
  <2>6. InClaim(l) = l /\ l # Idle
    BY <2>3 DEF InClaim, Takings, Idle
  <2>7. Plain(l) /\ Deq(l) /\ NextUp(l)
    BY <2>3, <2>5 DEF Plain, Putting, Deq, Takings, NextUp
  <2>8. Hands(l) = {}
    BY <2>7, PlainLocal
  <2>9. Num(at) = k + 1
    <3>1. k + 1 \in Int /\ BlockSize \in Nat \ {0} /\ at < (k + 1) * BlockSize + BlockSize /\ (k + 1) * BlockSize <= at
      BY <1>4, <1>5, Sizes
    <3> QED
      BY <3>1, NumIs
  <2>10. FindsRight(p, ph, l)
    <3>1. FindsRight(p, ph, t)
      BY <1>2 DEF Phased
    <3>2. \A m \in k .. Num(t.end - 1) : Now(p, ph, m) = Named(h, f, m)
      BY <1>1, <1>4, <3>1 DEF FindsRight, Takings
    <3>3. \A m \in k + 1 .. Num(t.end - 1) : Now(p, ph, m) = Named(h, f, m)
      <4>1. Num(t.end - 1) \in Int
        BY <1>2, NumFacts
      <4> QED
        BY <1>4, <3>2, <4>1
    <3> QED
      BY <1>4, <2>2, <2>3, <2>9, <3>3 DEF FindsRight
  <2>11. Start(l) = at
    BY <2>3 DEF Start
  <2>12. Onward(l, c, p, ph)
    BY <1>1, <1>6, <2>3, <2>6, <2>10, <2>11 DEF Onward
  <2> QED
    BY <1>7, <2>3, <2>6, <2>7, <2>8, <2>12
<1>9. CASE ~ at < t.end
  <2>1. l = Then(t.ask, t.n)
    BY <1>1, <1>5, <1>7, <1>9 DEF AfterBlock
  <2>2. l.pc \in {"idle", "load"} /\ "then" \notin DOMAIN l
    BY <2>1 DEF Then, Ask, Idle
  <2>3. InClaim(l) = Idle
    BY <2>2 DEF InClaim, Takings
  <2>4. t.end <= at
    BY <1>2, <1>9
  <2>5. Onward(l, c, p, ph)
    BY <1>1, <1>6, <2>3, <2>4 DEF Onward
  <2>6. Plain(l) /\ Deq(l) /\ NextUp(l)
    BY <2>2 DEF Plain, Putting, Deq, NextUp
  <2>7. Hands(l) = {}
    BY <2>6, PlainLocal
  <2>8. InClaim(l).pc # "forget"
    BY <2>3 DEF Idle
  <2> QED
    BY <1>7, <2>2, <2>5, <2>6, <2>7, <2>8
<1> QED
  BY <1>8, <1>9

-----------------------------------------------------------------------------
(* The claim moves on to the next block.                                    *)

LEMMA OnwardOwns ==
    ASSUME IInv, NEW c \in Consumer, th[c].pc \in {"entry", "move", "forget"}, NEW p, p = From(c),
           NEW ph, NEW l, th' = [th EXCEPT ![c] = l], Onward(l, c, p, ph), UNCHANGED head
    PROVE  /\ \A q : Takes(c, q)' => q = p
           /\ Takes(c, p)' => TakenBy(c)' = InClaim(l) /\ FindsRight(p, ph, InClaim(l))
           /\ \A j \in Int : Owns(c, p, j)' <=> Owns(c, p, j) /\ After(c) <= j
           /\ \A m : Forgets(c, p, m)' => m = Num(th[c].at)
           /\ Apart(p)' /\ After(c) \in Int /\ Start(th[c]) \in Nat /\ Start(th[c]) <= After(c)
<1>0. CountTypes /\ Types
  BY DEF IInv, Rest, CountedInv
<1>1. PICK t : t = th[c]
  OBVIOUS
<1>2. p \in Producer /\ Takes(c, p) /\ TakenBy(c) = t /\ t.at \in Nat /\ t.end \in Nat /\ (\A q : Takes(c, q) => q = p)
      /\ t.at < t.end /\ p = Head(t.ask.todo)
  BY <1>1, ClaimIs DEF Takings, From
<1>3. PICK m : m = InClaim(l)
  OBVIOUS
<1>4. TakenBy(c)' = m
  BY <1>3, ConsumerFrame
<1>5. \/ m = Idle /\ t.end <= After(c)
      \/ /\ m # Idle /\ m.ask = t.ask /\ Start(m) = After(c) /\ m.end = t.end
         /\ m.pc = "forget" => Num(m.at) = Num(t.at)
         /\ FindsRight(p, ph, m)
  BY <1>1, <1>3 DEF Onward
<1>6. PICK a \in Nat : a = After(c) /\ t.at <= a /\ Start(t) <= a /\ Start(t) \in Nat
  <2>1. PICK n \in Nat : n = Num(t.at) /\ t.at < n * BlockSize + BlockSize
    BY <1>2, NumFacts
  <2>2. (n + 1) * BlockSize = n * BlockSize + BlockSize /\ (n + 1) * BlockSize \in Int
    <3>1. n + 1 \in Int
      OBVIOUS
    <3> QED
      BY <2>1, <3>1, Scale
  <2>3. PICK a \in Int : a = (n + 1) * BlockSize /\ t.at < a
    BY <2>1, <2>2
  <2>4. a \in Nat
    BY <1>2, <2>3
  <2>5. a = After(c)
    BY <1>1, <2>1, <2>3 DEF After
  <2>6. Start(t) = a \/ Start(t) = t.at
    BY <2>1, <2>3 DEF Start
  <2> QED
    BY <1>2, <2>3, <2>4, <2>5, <2>6
<1>7. \A q : Takes(c, q)' => q = p
  <2>1. \A q : Takes(c, q)' <=> m # Idle /\ Head(m.ask.todo) = q
    BY <1>4 DEF Takes
  <2> QED
    BY <1>2, <1>5, <2>1
<1>8. Takes(c, p)' <=> m # Idle
  <2>1. Takes(c, p)' <=> m # Idle /\ Head(m.ask.todo) = p
    BY <1>4 DEF Takes
  <2> QED
    BY <1>2, <1>5, <2>1
<1>9. \A j \in Int : Owns(c, p, j)' <=> Owns(c, p, j) /\ a <= j
  <2> TAKE j \in Int
  <2>1. Owns(c, p, j)' <=> m # Idle /\ Start(m) <= j /\ j < m.end
    <3>1. Owns(c, p, j)' <=> Takes(c, p)' /\ Start(m) <= j /\ j < m.end
      <4>1. Start(TakenBy(c))' = Start(m)
        BY <1>4 DEF Start, Num
      <4> QED
        BY <1>4, <4>1 DEF Owns
    <3> QED
      BY <1>8, <3>1
  <2>2. Owns(c, p, j) <=> Start(t) <= j /\ j < t.end
    BY <1>2 DEF Owns
  <2>3. CASE m = Idle
    <3>1. t.end <= a
      BY <1>5, <1>6, <2>3
    <3> QED
      BY <1>2, <2>1, <2>2, <2>3, <3>1
  <2>4. CASE m # Idle
    <3>1. Start(m) = a /\ m.end = t.end
      BY <1>5, <1>6, <2>4
    <3>2. PICK st \in Nat, en \in Nat : st = Start(t) /\ en = t.end /\ st <= a
      BY <1>2, <1>6
    <3>3. (a <= j /\ j < en) <=> (st <= j /\ j < en /\ a <= j)
      BY <3>2
    <3> QED
      BY <2>1, <2>2, <2>4, <3>1, <3>2, <3>3
  <2> QED
    BY <2>3, <2>4
<1>10. \A k : Forgets(c, p, k)' => k = Num(t.at)
  <2>1. \A k : Forgets(c, p, k)' => m # Idle /\ m.pc = "forget" /\ Num(m.at) = k
    BY <1>4, <1>8 DEF Forgets, Num
  <2> QED
    BY <1>5, <2>1
<1>11. Apart(p)'
  <2>1. Apart(p)
    BY <1>2 DEF IInv, Rest, Owned, LiveInv
  <2>2. head'[p] = head[p]
    OBVIOUS
  <2>3. \A d \in Consumer : d # c => /\ TakenBy(d)' = TakenBy(d) /\ (Takes(d, p)' <=> Takes(d, p))
                                     /\ Start(TakenBy(d))' = Start(TakenBy(d))
    <3>1. \A d \in Consumer : d # c => TakenBy(d)' = TakenBy(d) /\ (Takes(d, p)' <=> Takes(d, p))
      BY ConsumerFrame
    <3> QED
      BY <3>1 DEF Start, Num
  <2>4. Takes(c, p)' => /\ TakenBy(c)' = m /\ m.end = t.end /\ m.end <= head[p] /\ Start(TakenBy(c))' = Start(m) /\ Start(m) = a
    <3>1. t.end <= head[p]
      BY <1>2, <2>1 DEF Apart
    <3>2. Start(TakenBy(c))' = Start(m)
      BY <1>4 DEF Start, Num
    <3> QED
      BY <1>4, <1>5, <1>6, <1>8, <3>1, <3>2
  <2>5. \A d \in Consumer : d # c /\ Takes(d, p) => TakenBy(d).end <= a \/ t.end <= Start(TakenBy(d))
    <3> TAKE d \in Consumer
    <3> HAVE d # c /\ Takes(d, p)
    <3>1. TakenBy(d).end <= Start(t) \/ t.end <= Start(TakenBy(d))
      BY <1>2, <2>1 DEF Apart
    <3>2. TakenBy(d).end \in Nat
      BY <1>0, TakesLocal
    <3> QED
      BY <1>6, <3>1, <3>2
  <2>6. SUFFICES ASSUME NEW d \in Consumer, Takes(d, p)'
                 PROVE  /\ TakenBy(d)'.end <= head[p]
                        /\ \A e \in Consumer \ {d} : Takes(e, p)' =>
                              TakenBy(d)'.end <= Start(TakenBy(e))' \/ TakenBy(e)'.end <= Start(TakenBy(d))'
    BY <2>2 DEF Apart
  <2>7. CASE d = c
    <3>1. TakenBy(d)'.end <= head[p]
      BY <2>4, <2>6, <2>7
    <3>2. ASSUME NEW e \in Consumer \ {d}, Takes(e, p)'
          PROVE  TakenBy(d)'.end <= Start(TakenBy(e))' \/ TakenBy(e)'.end <= Start(TakenBy(d))'
      <4>1. Takes(e, p) /\ TakenBy(e)' = TakenBy(e) /\ Start(TakenBy(e))' = Start(TakenBy(e))
        BY <2>3, <2>7, <3>2
      <4>2. TakenBy(e).end <= a \/ t.end <= Start(TakenBy(e))
        BY <2>5, <2>7, <4>1
      <4> QED
        BY <2>4, <2>6, <2>7, <4>1, <4>2
    <3> QED
      BY <3>1, <3>2
  <2>8. CASE d # c
    <3>1. Takes(d, p) /\ TakenBy(d)' = TakenBy(d) /\ Start(TakenBy(d))' = Start(TakenBy(d))
      BY <2>3, <2>6, <2>8
    <3>2. TakenBy(d)'.end <= head[p]
      BY <2>1, <3>1 DEF Apart
    <3>3. ASSUME NEW e \in Consumer \ {d}, Takes(e, p)'
          PROVE  TakenBy(d)'.end <= Start(TakenBy(e))' \/ TakenBy(e)'.end <= Start(TakenBy(d))'
      <4>1. CASE e = c
        BY <2>4, <2>5, <2>8, <3>1, <3>3, <4>1
      <4>2. CASE e # c
        <5>1. Takes(e, p) /\ TakenBy(e)' = TakenBy(e) /\ Start(TakenBy(e))' = Start(TakenBy(e))
          BY <2>3, <3>3, <4>2
        <5>2. TakenBy(d).end <= Start(TakenBy(e)) \/ TakenBy(e).end <= Start(TakenBy(d))
          BY <2>1, <3>1, <5>1 DEF Apart
        <5> QED
          BY <3>1, <5>1, <5>2
      <4> QED
        BY <4>1, <4>2
    <3> QED
      BY <3>2, <3>3
  <2> QED
    BY <2>7, <2>8
<1>12. Takes(c, p)' => TakenBy(c)' = InClaim(l) /\ FindsRight(p, ph, InClaim(l))
  BY <1>3, <1>4, <1>5, <1>8
<1> QED
  BY <1>1, <1>6, <1>7, <1>9, <1>10, <1>11, <1>12

\* The elements of its block that a consumer has claimed, and not yet taken out.
Mine(c, p) == {j \in Nat : Owns(c, p, j) /\ j < After(c)}

LEMMA UnreadOnward ==
    ASSUME IInv, NEW c \in Consumer, th[c].pc \in {"entry", "move", "forget"}, NEW p, p = From(c),
           NEW ph, NEW l, th' = [th EXCEPT ![c] = l], Onward(l, c, p, ph), UNCHANGED head
    PROVE  \A k \in Nat : Unread(p, k)' = Unread(p, k) \ Mine(c, p)
<1>0. CountTypes /\ Types
  BY DEF IInv, Rest, CountedInv
<1>1. p \in Producer /\ Takes(c, p) /\ head[p] \in Nat /\ TakenBy(c).end \in Nat /\ TakenBy(c).end <= head[p]
  <2>1. p \in Producer /\ Takes(c, p)
    BY ClaimIs DEF Takings
  <2>2. Apart(p)
    BY <2>1 DEF IInv, Rest, Owned, LiveInv
  <2>3. head[p] \in Nat
    BY <1>0, <2>1, NumTypes
  <2>4. TakenBy(c).end \in Nat
    BY <1>0, <2>1, TakesLocal
  <2>5. TakenBy(c).end <= head[p]
    BY <2>1, <2>2 DEF Apart
  <2> QED
    BY <2>1, <2>3, <2>4, <2>5
<1>2. \A j \in Int : Owns(c, p, j)' <=> Owns(c, p, j) /\ After(c) <= j
  BY OnwardOwns
<1>3. After(c) \in Int
  BY OnwardOwns
<1>4. \A d \in Consumer : \A j : d # c => (Owns(d, p, j)' <=> Owns(d, p, j))
  BY ConsumerFrame
<1>5. \A j \in Int : Owns(c, p, j) => ~ j >= head[p] /\ \A d \in Consumer : d # c => ~ Owns(d, p, j)
  <2> TAKE j \in Int
  <2> HAVE Owns(c, p, j)
  <2>1. Start(TakenBy(c)) <= j /\ j < TakenBy(c).end
    BY DEF Owns
  <2>2. ~ j >= head[p]
    BY <1>1, <2>1
  <2>3. ASSUME NEW d \in Consumer, d # c, Owns(d, p, j)
        PROVE  FALSE
    <3>1. Takes(d, p) /\ Start(TakenBy(d)) <= j /\ j < TakenBy(d).end
      BY <2>3 DEF Owns
    <3>2. Apart(p)
      BY <1>1 DEF IInv, Rest, Owned, LiveInv
    <3>3. TakenBy(c).end <= Start(TakenBy(d)) \/ TakenBy(d).end <= Start(TakenBy(c))
      BY <1>1, <2>3, <3>1, <3>2 DEF Apart
    <3>4. Start(TakenBy(d)) \in Nat /\ TakenBy(d).end \in Nat
      BY <1>0, <3>1, TakesLocal
    <3>5. Start(TakenBy(c)) \in Nat
      BY <1>0, <1>1, TakesLocal
    <3> QED
      BY <1>1, <2>1, <3>1, <3>3, <3>4, <3>5
  <2> QED
    BY <2>2, <2>3
<1>6. ASSUME NEW k \in Nat
      PROVE  Unread(p, k)' = Unread(p, k) \ Mine(c, p)
  <2>1. PICK R : R = k * BlockSize .. k * BlockSize + BlockSize - 1
    OBVIOUS
  <2>2. R \subseteq Nat
    <3>1. BlockSize \in Nat
      BY Sizes
    <3>2. k * BlockSize \in Nat
      BY <3>1
    <3> QED
      BY <2>1, <3>1, <3>2
  <2>3. Unread(p, k) = {j \in R : j >= head[p] \/ \E d \in Consumer : Owns(d, p, j)}
    BY <2>1 DEF Unread
  <2>4. Unread(p, k)' = {j \in R : j >= head[p] \/ \E d \in Consumer : Owns(d, p, j)'}
    BY <2>1 DEF Unread
  <2>5. \A j \in R : j \in Mine(c, p) <=> Owns(c, p, j) /\ ~ After(c) <= j
    BY <1>3, <2>2 DEF Mine
  <2>6. ASSUME NEW j \in R
        PROVE  (j >= head[p] \/ \E d \in Consumer : Owns(d, p, j)')
               <=> ((j >= head[p] \/ \E d \in Consumer : Owns(d, p, j)) /\ ~ j \in Mine(c, p))
    <3>1. j \in Int
      BY <2>2
    <3>2. CASE Owns(c, p, j)
      <4>1. ~ j >= head[p] /\ \A d \in Consumer : d # c => ~ Owns(d, p, j)'
        BY <1>4, <1>5, <3>1, <3>2
      <4>2. (\E d \in Consumer : Owns(d, p, j)') <=> Owns(c, p, j)'
        BY <4>1
      <4>3. Owns(c, p, j)' <=> ~ j \in Mine(c, p)
        BY <1>2, <2>5, <3>1, <3>2
      <4> QED
        BY <3>2, <4>1, <4>2, <4>3
    <3>3. CASE ~ Owns(c, p, j)
      <4>1. ~ Owns(c, p, j)' /\ j \notin Mine(c, p)
        BY <1>2, <2>5, <3>1, <3>3
      <4>2. \A d \in Consumer : Owns(d, p, j)' <=> Owns(d, p, j)
        BY <1>4, <3>3, <4>1
      <4> QED
        BY <4>1, <4>2
    <3> QED
      BY <3>2, <3>3
  <2> QED
    BY <2>3, <2>4, <2>6
<1> QED
  BY <1>6

-----------------------------------------------------------------------------
(* The elements that a consumer takes out of a block.                       *)

LEMMA MineIs ==
    ASSUME IInv, NEW c \in Consumer, th[c].pc \in {"entry", "move"}, NEW p, p = From(c),
           NEW k, k = Num(th[c].at)
    PROVE  \E a \in Nat, e \in Nat :
              /\ a = th[c].at /\ a < e /\ k * BlockSize <= a /\ e <= k * BlockSize + BlockSize /\ e <= th[c].end
              /\ k \in Nat /\ Claimed(c) = a .. e - 1 /\ Mine(c, p) = a .. e - 1
              /\ After(c) = k * BlockSize + BlockSize /\ k * BlockSize \in Nat /\ BaseOf(a) = k * BlockSize
<1>1. PICK t : t = th[c]
  OBVIOUS
<1>2. p \in Producer /\ Takes(c, p) /\ TakenBy(c) = t /\ t.at \in Nat /\ t.end \in Nat /\ t.at < t.end
  BY <1>1, ClaimIs DEF Takings
<1>3. PICK a \in Nat, en \in Nat : a = t.at /\ en = t.end /\ a < en
  BY <1>2
<1>4. k \in Nat /\ k * BlockSize <= a /\ a < k * BlockSize + BlockSize /\ BaseOf(a) = k * BlockSize
  BY <1>1, <1>3, NumFacts
<1>5. (k + 1) * BlockSize = k * BlockSize + BlockSize
  BY <1>4, Scale
<1>6. PICK s \in Nat : s = k * BlockSize /\ s + BlockSize \in Nat
  <2>1. BlockSize \in Nat
    BY Sizes
  <2> QED
    BY <1>4, <2>1
<1>7. PICK e \in Nat : e = Smaller(en, s + BlockSize) /\ (e = en \/ e = s + BlockSize) /\ e <= en /\ e <= s + BlockSize
  BY <1>6 DEF Smaller
<1>8. a < e
  BY <1>3, <1>4, <1>6, <1>7
<1>9. Claimed(c) = a .. e - 1
  BY <1>1, <1>3, <1>4, <1>6, <1>7 DEF Claimed
<1>10. After(c) = s + BlockSize
  BY <1>1, <1>5, <1>6 DEF After
<1>11. Mine(c, p) = a .. e - 1
  <2>1. Start(t) = a
    BY <1>1, <1>3 DEF Start
  <2>2. \A j \in Nat : Owns(c, p, j) <=> a <= j /\ j < en
    BY <1>2, <1>3, <2>1 DEF Owns
  <2>3. \A j \in Nat : j \in Mine(c, p) <=> a <= j /\ j < en /\ j < s + BlockSize
    BY <1>10, <2>2 DEF Mine
  <2>4. \A j \in Nat : (a <= j /\ j < en /\ j < s + BlockSize) <=> j \in a .. e - 1
    BY <1>6, <1>7
  <2>5. Mine(c, p) \subseteq Nat
    BY DEF Mine
  <2>6. a .. e - 1 \subseteq Nat
    OBVIOUS
  <2> QED
    BY <2>3, <2>4, <2>5, <2>6
<1> QED
  BY <1>1, <1>3, <1>4, <1>6, <1>7, <1>8, <1>9, <1>10, <1>11

\* The places of a block that a consumer takes the elements from.
TakenCells(c) == {i % BlockSize : i \in Claimed(c)}

\* They are all still unread, and nobody else takes them.
LEMMA MineFacts ==
    ASSUME IInv, NEW c \in Consumer, th[c].pc \in {"entry", "move"}, NEW p, p = From(c),
           NEW k, k = Num(th[c].at)
    PROVE  /\ k \in Nat /\ Mine(c, p) \subseteq Unread(p, k) /\ Mine(c, p) # {} /\ Mine(c, p) = Claimed(c)
           /\ Cardinality(TakenCells(c)) = Cardinality(Mine(c, p)) /\ IsFiniteSet(Mine(c, p))
           /\ \A j \in Unread(p, k) : j % BlockSize \in TakenCells(c) => j \in Mine(c, p)
           /\ \A m \in Nat : m # k => Unread(p, m) \cap Mine(c, p) = {}
<1>1. PICK a \in Nat, e \in Nat :
              /\ a = th[c].at /\ a < e /\ k * BlockSize <= a /\ e <= k * BlockSize + BlockSize /\ e <= th[c].end
              /\ k \in Nat /\ Claimed(c) = a .. e - 1 /\ Mine(c, p) = a .. e - 1
              /\ After(c) = k * BlockSize + BlockSize /\ k * BlockSize \in Nat
  BY MineIs
<1>2. PICK s \in Nat : s = k * BlockSize
  BY <1>1
<1>3. \A j \in Int : s <= j /\ j < s + BlockSize => j % BlockSize = j - s
  <2> TAKE j \in Int
  <2> HAVE s <= j /\ j < s + BlockSize
  <2>1. Num(j) = k
    BY <1>1, <1>2, NumIs
  <2> QED
    BY <1>2, <2>1, NumFacts
<1>4. BlockSize \in Nat
  BY Sizes
<1>13. \A j \in a .. e - 1 : j \in Int /\ s <= j /\ j < s + BlockSize
  <2>1. PICK z \in Nat : z = BlockSize
    BY <1>4
  <2>2. s <= a /\ e <= s + z
    BY <1>1, <1>2, <2>1
  <2>3. \A j \in a .. e - 1 : j \in Int /\ s <= j /\ j < s + z
    BY <2>2
  <2> QED
    BY <2>1, <2>3
<1>5. \A j \in a .. e - 1 : j % BlockSize = j - s
  BY <1>13, <1>3
<1>6. TakenCells(c) = a - s .. e - 1 - s
  <2>1. TakenCells(c) = {j - s : j \in a .. e - 1}
    BY <1>1, <1>5 DEF TakenCells
  <2>2. \A x \in a - s .. e - 1 - s : x + s \in a .. e - 1 /\ x = (x + s) - s
    BY <1>2
  <2>3. \A j \in a .. e - 1 : j - s \in a - s .. e - 1 - s
    BY <1>2
  <2> QED
    BY <2>1, <2>2, <2>3
<1>7. Cardinality(TakenCells(c)) = Cardinality(Mine(c, p)) /\ IsFiniteSet(Mine(c, p))
  <2>1. \A x, y \in Int : IsFiniteSet(x .. y) /\ Cardinality(x .. y) = IF x > y THEN 0 ELSE y - x + 1
    BY FS_Interval
  <2>2. IsFiniteSet(a .. e - 1) /\ Cardinality(a .. e - 1) = IF a > e - 1 THEN 0 ELSE e - 1 - a + 1
    <3>1. e - 1 \in Int
      OBVIOUS
    <3> QED
      BY <2>1, <3>1
  <2>3. Cardinality(a - s .. e - 1 - s) = IF a - s > e - 1 - s THEN 0 ELSE e - 1 - s - (a - s) + 1
    <3>1. PICK x \in Int, y \in Int : x = a - s /\ y = e - 1 - s
      BY <1>2
    <3> QED
      BY <2>1, <3>1
  <2>4. Cardinality(a .. e - 1) = e - a
    <3>1. a <= e - 1 /\ e - 1 - a + 1 = e - a
      BY <1>1
    <3> QED
      BY <2>2, <3>1
  <2>5. Cardinality(a - s .. e - 1 - s) = e - a
    <3>1. ~ a - s > e - 1 - s /\ e - 1 - s - (a - s) + 1 = e - a
      BY <1>1, <1>2
    <3> QED
      BY <2>3, <3>1
  <2>6. IsFiniteSet(Mine(c, p)) /\ Cardinality(Mine(c, p)) = e - a
    BY <1>1, <2>2, <2>4
  <2> QED
    BY <1>6, <2>5, <2>6
<1>8. Mine(c, p) \subseteq Unread(p, k)
  <2> SUFFICES ASSUME NEW j \in Mine(c, p) PROVE j \in Unread(p, k)
    OBVIOUS
  <2>1. Owns(c, p, j)
    BY DEF Mine
  <2>2. j \in Int /\ s <= j /\ j < s + BlockSize
    BY <1>13, <1>1
  <2>3. j \in s .. s + BlockSize - 1
    BY <1>4, <2>2
  <2> QED
    BY <1>2, <2>1, <2>3 DEF Unread
<1>9. a \in Mine(c, p)
  BY <1>1
<1>10. \A j \in Unread(p, k) : j % BlockSize \in TakenCells(c) => j \in Mine(c, p)
  <2> TAKE j \in Unread(p, k)
  <2> HAVE j % BlockSize \in TakenCells(c)
  <2>1. j \in Int /\ s <= j /\ j < s + BlockSize
    BY <1>2, <1>4 DEF Unread
  <2>2. j % BlockSize = j - s
    BY <1>3, <2>1
  <2>3. j - s \in a - s .. e - 1 - s
    BY <1>6, <2>2
  <2>4. j \in a .. e - 1
    BY <1>2, <2>1, <2>3
  <2> QED
    BY <1>1, <2>4
<1>11. ASSUME NEW m \in Nat, m # k, NEW j \in Unread(p, m) \cap Mine(c, p)
       PROVE  FALSE
  <2>1. m * BlockSize \in Int
    BY <1>11, Scale
  <2>2. j \in Int /\ m * BlockSize <= j /\ j < m * BlockSize + BlockSize
    BY <1>4, <2>1 DEF Unread
  <2>3. Num(j) = m
    BY <2>2, NumIs
  <2>4. j \in Int /\ k * BlockSize <= j /\ j < k * BlockSize + BlockSize
    BY <1>13, <1>1, <1>2
  <2>5. Num(j) = k
    BY <1>1, <2>4, NumIs
  <2> QED
    BY <1>11, <2>3, <2>5
<1>12. \A m \in Nat : m # k => Unread(p, m) \cap Mine(c, p) = {}
  BY <1>11
<1> QED
  BY <1>1, <1>7, <1>8, <1>9, <1>10, <1>12

-----------------------------------------------------------------------------
(* The block without them, set_many_empty (concurrentqueue.h:1592-1613).    *)

\* The cells in gone are destroyed and done is n.
BlockTaken(b, n, gone) ==
    block' = [block EXCEPT ![b].done = n, ![b].cells = [k \in DOMAIN @ |-> IF k \in gone THEN None ELSE @[k]]]

LEMMA BlockTakenFields ==
    ASSUME IInv, NEW b \in Block, NEW n \in Nat, NEW gone, BlockTaken(b, n, gone)
    PROVE  /\ block' \in [Block -> BlockType] /\ block'[b].done = n
           /\ \A a \in Block : a # b => block'[a] = block[a]
           /\ \A k \in 0 .. BlockSize - 1 : ~ k \in gone => block'[b].cells[k] = block[b].cells[k]
<1>1. block \in [Block -> BlockType]
  BY Typed DEF IInv, Rest, BlocksTyped
<1>2. PICK o \in BlockType : o = block[b]
  BY <1>1
<1>3. o.cells \in [0 .. BlockSize - 1 -> (Producer \X Nat) \cup {None}] /\ DOMAIN o = {"cells", "done"}
  BY <1>2 DEF BlockType
<1>4. PICK w : w = [k \in DOMAIN o.cells |-> IF k \in gone THEN None ELSE o.cells[k]]
  OBVIOUS
<1>5. w \in [0 .. BlockSize - 1 -> (Producer \X Nat) \cup {None}] /\ \A k \in 0 .. BlockSize - 1 : ~ k \in gone => w[k] = o.cells[k]
  BY <1>3, <1>4
<1>6. PICK v : v = [[o EXCEPT !.done = n] EXCEPT !.cells = w]
  OBVIOUS
<1>7. v.done = n /\ v.cells = w /\ v = [cells |-> w, done |-> n]
  BY <1>2, <1>3, <1>6 DEF BlockType
<1>8. v \in BlockType
  BY <1>5, <1>7 DEF BlockType
<1>9. block' = [block EXCEPT ![b] = v]
  BY <1>1, <1>2, <1>3, <1>4, <1>6 DEF BlockTaken, BlockType
<1>10. block' \in [Block -> BlockType] /\ block'[b] = v /\ \A a \in Block : a # b => block'[a] = block[a]
  BY <1>1, <1>8, <1>9
<1> QED
  BY <1>2, <1>5, <1>7, <1>10

LEMMA UnreadSize ==
    ASSUME NEW p, NEW k \in Nat
    PROVE  IsFiniteSet(Unread(p, k)) /\ Cardinality(Unread(p, k)) \in Nat /\ Cardinality(Unread(p, k)) <= BlockSize
<1>1. PICK s \in Nat, n \in Nat : s = k * BlockSize /\ n = BlockSize
  BY Sizes
<1>2. Unread(p, k) \in SUBSET (s .. s + n - 1)
  BY <1>1 DEF Unread
<1>3. IsFiniteSet(s .. s + n - 1) /\ Cardinality(s .. s + n - 1) = IF s > s + n - 1 THEN 0 ELSE s + n - 1 - s + 1
  BY FS_Interval
<1>4. Cardinality(s .. s + n - 1) = n
  BY <1>3
<1>5. IsFiniteSet(Unread(p, k)) /\ Cardinality(Unread(p, k)) <= Cardinality(s .. s + n - 1)
  BY <1>2, <1>3, FS_Subset
<1>6. Cardinality(Unread(p, k)) \in Nat
  BY <1>5, FS_CardinalityType
<1> QED
  BY <1>1, <1>4, <1>5, <1>6

\* done reaches BlockSize when nobody has an element left in the block.
LEMMA MoveCounts ==
    ASSUME IInv, NEW c \in Consumer, th[c].pc \in {"entry", "move"}, NEW p, p = From(c),
           NEW k, k = Num(th[c].at), NEW b, Fills(p, k, b)
    PROVE  \E n \in Nat :
              /\ n = block[b].done + Cardinality(TakenCells(c)) /\ n <= BlockSize
              /\ n = BlockSize - Cardinality(Unread(p, k) \ Mine(c, p))
              /\ n = BlockSize <=> Unread(p, k) \ Mine(c, p) = {}
<1>1. /\ k \in Nat /\ Mine(c, p) \subseteq Unread(p, k) /\ Cardinality(TakenCells(c)) = Cardinality(Mine(c, p))
      /\ IsFiniteSet(Mine(c, p))
  BY MineFacts
<1>2. IsFiniteSet(Unread(p, k)) /\ Cardinality(Unread(p, k)) \in Nat /\ Cardinality(Unread(p, k)) <= BlockSize
  BY <1>1, UnreadSize
<1>3. PICK U : U = Unread(p, k)
  OBVIOUS
<1>4. PICK M : M = Mine(c, p)
  OBVIOUS
<1>5. IsFiniteSet(U \ M) /\ Cardinality(U \ M) = Cardinality(U) - Cardinality(U \cap M)
  BY <1>2, <1>3, FS_Difference
<1>6. U \cap M = M
  BY <1>1, <1>3, <1>4
<1>7. PICK u \in Nat, m \in Nat, r \in Nat, bs \in Nat :
         u = Cardinality(U) /\ m = Cardinality(M) /\ r = Cardinality(U \ M) /\ bs = BlockSize
  BY <1>1, <1>2, <1>3, <1>4, <1>5, FS_CardinalityType, Sizes
<1>8. r = u - m /\ u <= bs
  BY <1>2, <1>3, <1>5, <1>6, <1>7
<1>9. r = 0 <=> U \ M = {}
  BY <1>5, <1>7, FS_EmptySet
<1>10. block[b].done = bs - u
  BY <1>3, <1>7 DEF Fills
<1>11. Cardinality(TakenCells(c)) = m
  BY <1>1, <1>4, <1>7
<1>12. PICK n \in Nat : n = bs - r
  BY <1>7, <1>8
<1>13. n = (bs - u) + m /\ n <= bs /\ (n = bs <=> r = 0)
  BY <1>8, <1>12
<1>14. n = block[b].done + Cardinality(TakenCells(c))
  BY <1>10, <1>11, <1>13
<1> QED
  BY <1>3, <1>4, <1>7, <1>9, <1>12, <1>13, <1>14

LEMMA ForgetOnward ==
    ASSUME IInv, NEW c \in Consumer, th[c].pc \in {"entry", "move"}, NEW p, p = From(c),
           NEW ph \in Phases(p), Phased(p, ph)
    PROVE  LET l == [th[c] EXCEPT !.pc = "forget", !.slot = Slot(c)] IN
           Onward(l, c, p, ph) /\ Plain(l) /\ Deq(l) /\ InClaim(l) = l /\ l.pc = "forget" /\ l # Idle
<1>1. PICK t : t = th[c]
  OBVIOUS
<1>2. /\ p \in Producer /\ Takes(c, p) /\ TakenBy(c) = t /\ t.at \in Nat /\ t.end \in Nat /\ Taking(t) /\ t.gen \in Nat \ {0}
      /\ DOMAIN t = {"pc", "ask", "n", "at", "end", "gen", "slot"} /\ t.slot \in Nat /\ t.pc # "find"
  BY <1>1, ClaimIs DEF Takings
<1>3. PICK h, f, k, i : Placed(c, p, ph, k, i, h, f)
  BY ClaimSlot
<1>4. /\ h = header[p][t.gen] /\ h \in Index /\ f = ph[t.gen] /\ f \in Int /\ k = Num(t.at) /\ k \in Nat
      /\ Slot(c) = (f + k) % h.cap /\ t.gen \in 1 .. Gens(p)
  BY <1>1, <1>3 DEF Placed
<1>5. PICK slot \in 0 .. h.cap - 1 : slot = Slot(c) /\ slot \in Nat
  <2>1. (f + k) % h.cap \in 0 .. h.cap - 1
    <3>1. k \in Int
      BY <1>4
    <3> QED
      BY <1>4, <3>1, NamedIn
  <2>2. h.cap \in Nat \ {0}
    BY <1>4, IndexFields
  <2> QED
    BY <1>4, <2>1, <2>2
<1>6. PICK l : l = [t EXCEPT !.pc = "forget", !.slot = slot]
  OBVIOUS
<1>7. /\ l.pc = "forget" /\ l.at = t.at /\ l.slot = slot /\ l.ask = t.ask /\ l.end = t.end /\ l.gen = t.gen /\ l.n = t.n
      /\ DOMAIN l = {"pc", "ask", "n", "at", "end", "gen", "slot"}
  BY <1>2, <1>6
<1>8. Taking(l)
  <2>1. l = [pc |-> "forget", ask |-> l.ask, n |-> l.n, at |-> l.at, end |-> l.end, gen |-> l.gen, slot |-> slot]
    <3>1. l = [x \in {"pc", "ask", "n", "at", "end", "gen", "slot"} |-> l[x]]
      BY <1>6, <1>7
    <3> QED
      BY <1>7, <3>1
  <2>2. l \in [pc : {"entry", "move", "forget"}, ask : {l.ask}, n : {l.n}, at : Nat,
                 end : Nat, gen : Nat \ {0}, slot : Nat]
    BY <1>2, <1>5, <1>7, <2>1
  <2>3. l.at < l.end
    BY <1>2, <1>7 DEF Taking
  <2> QED
    BY <2>2, <2>3 DEF Taking
<1>9. InClaim(l) = l /\ l # Idle
  BY <1>7 DEF InClaim, Takings, Idle
<1>10. Plain(l) /\ Deq(l)
  BY <1>7, <1>8 DEF Plain, Putting, Deq, Takings
<1>11. FindsRight(p, ph, l)
  <2>1. FindsRight(p, ph, t)
    BY <1>2 DEF Phased
  <2>2. \A m \in k .. Num(t.end - 1) : Now(p, ph, m) = Named(h, f, m)
    BY <1>2, <1>4, <2>1 DEF FindsRight
  <2> QED
    BY <1>4, <1>5, <1>7, <2>2 DEF FindsRight
<1>12. Start(l) = After(c)
  BY <1>1, <1>7 DEF Start, After
<1>13. Onward(l, c, p, ph)
  BY <1>1, <1>7, <1>9, <1>11, <1>12 DEF Onward
<1> QED
  BY <1>1, <1>5, <1>6, <1>7, <1>9, <1>10, <1>13

-----------------------------------------------------------------------------
(* A consumer takes the elements out of one block, Move.                    *)

\* What a step of Move does, for block k of p, which is b and in entry i.
Moved(c, p, ph, k, i, b, n, l) ==
    /\ k = Num(th[c].at) /\ k \in Nat /\ Used(p, k, i) /\ b = entry[p][i].value /\ b \in Block
    /\ n \in Nat /\ n <= BlockSize /\ n = BlockSize - Cardinality(Unread(p, k) \ Mine(c, p))
    /\ n = BlockSize <=> Unread(p, k) \ Mine(c, p) = {}
    /\ BlockTaken(b, n, TakenCells(c)) /\ th' = [th EXCEPT ![c] = l] /\ Onward(l, c, p, ph)
    /\ Plain(l) /\ Deq(l)
    /\ n = BlockSize => InClaim(l) # Idle /\ InClaim(l).pc = "forget"
    /\ InClaim(l).pc = "forget" => n = BlockSize

LEMMA MoveIs ==
    ASSUME IInv, NEW c \in Consumer, Move(c), NEW p, p = From(c), NEW ph \in Phases(p), Phased(p, ph)
    PROVE  ~ broken' /\ \E k, i, b, n, l : Moved(c, p, ph, k, i, b, n, l)
<1>0. Types /\ ~ broken
  BY DEF IInv, Rest
<1>1. th[c].pc \in {"entry", "move"}
  BY DEF Move, At
<1>2. PICK h, f, k, i : Placed(c, p, ph, k, i, h, f)
  BY <1>1, ClaimSlot
<1>3. k = Num(th[c].at) /\ k \in Nat /\ EntryAt(c, Slot(c)) = i /\ Used(p, k, i) /\ BaseOf(th[c].at) = k * BlockSize
  BY <1>2 DEF Placed
<1>4. p \in Producer
  BY <1>1, ClaimIs DEF Takings
<1>5. PICK b : b = entry[p][i].value
  OBVIOUS
<1>6. i \in DOMAIN entry[p] /\ b # None /\ entry[p][i].key = k * BlockSize
  BY <1>3, <1>5 DEF Used
<1>7. b \in Block
  <2>1. b \in Link
    BY <1>0, <1>4, <1>5, <1>6, EntryFields
  <2> QED
    BY <1>6, <2>1 DEF Link
<1>8. Fills(p, k, b)
  BY <1>3, <1>4, <1>5, <1>6 DEF IInv, Rest, Owned, LiveInv, Filled
<1>9. PICK n \in Nat : /\ n = block[b].done + Cardinality(TakenCells(c)) /\ n <= BlockSize
                       /\ n = BlockSize - Cardinality(Unread(p, k) \ Mine(c, p))
                       /\ n = BlockSize <=> Unread(p, k) \ Mine(c, p) = {}
  <2>1. k = Num(th[c].at)
    BY <1>3
  <2> QED
    BY <1>1, <1>8, <2>1, MoveCounts
<1>10. entry[From(c)][EntryAt(c, Slot(c))] = entry[p][i]
  BY <1>3
<1>11. PICK l : l = IF n = BlockSize THEN [th[c] EXCEPT !.pc = "forget", !.slot = Slot(c)] ELSE AfterBlock(c)
  OBVIOUS
<1>12. ~ n > BlockSize
  <2>1. PICK bs \in Nat : bs = BlockSize
    BY Sizes
  <2> QED
    BY <1>9, <2>1
<1>13. /\ ~ broken'
       /\ block' = [block EXCEPT ![b].done = n, ![b].cells = [x \in DOMAIN @ |-> IF x \in TakenCells(c) THEN None ELSE @[x]]]
       /\ Go(c, l)
  <2>1. PICK e : e = entry[From(c)][EntryAt(c, Slot(c))] /\ e.key = BaseOf(th[c].at) /\ e.value = b /\ e.value # None
    BY <1>3, <1>5, <1>6, <1>10
  <2>2. LET done == block[e.value].done + Cardinality(TakenCells(c))
            right == At(c, "entry") => e.key = BaseOf(th[c].at) /\ e.value # None
        IN /\ broken' = (broken \/ ~right \/ done > BlockSize)
           /\ IF ~right THEN UNCHANGED <<block, th>>
              ELSE /\ block' = [block EXCEPT ![e.value].done = done, ![e.value].cells =
                                   [x \in DOMAIN @ |-> IF x \in TakenCells(c) THEN None ELSE @[x]]]
                   /\ Go(c, IF done = BlockSize
                            THEN [th[c] EXCEPT !.pc = "forget", !.slot = Slot(c)]
                            ELSE AfterBlock(c))
    BY <2>1 DEF Move, TakenCells
  <2>3. block[e.value].done + Cardinality(TakenCells(c)) = n
    BY <1>9, <2>1
  <2>4. At(c, "entry") => e.key = BaseOf(th[c].at) /\ e.value # None
    BY <2>1
  <2>5. /\ broken' = (broken \/ n > BlockSize)
        /\ block' = [block EXCEPT ![e.value].done = n, ![e.value].cells =
                                   [x \in DOMAIN @ |-> IF x \in TakenCells(c) THEN None ELSE @[x]]]
        /\ Go(c, IF n = BlockSize THEN [th[c] EXCEPT !.pc = "forget", !.slot = Slot(c)] ELSE AfterBlock(c))
    BY <2>2, <2>3, <2>4
  <2>7. Go(c, l)
    BY <1>11, <2>5
  <2>8. ~ broken'
    <3>1. ~ (broken \/ n > BlockSize)
      BY <1>0, <1>12
    <3>2. broken' = (broken \/ n > BlockSize)
      BY <2>5
    <3> QED
      BY <3>1, <3>2
  <2> QED
    BY <2>1, <2>5, <2>7, <2>8
<1>14. BlockTaken(b, n, TakenCells(c))
  BY <1>13 DEF BlockTaken
<1>15. th' = [th EXCEPT ![c] = l]
  BY <1>13 DEF Go
<1>16. /\ Onward(l, c, p, ph) /\ Plain(l) /\ Deq(l)
       /\ n = BlockSize => InClaim(l) # Idle /\ InClaim(l).pc = "forget"
       /\ InClaim(l).pc = "forget" => n = BlockSize
  <2>1. CASE n = BlockSize
    <3>1. l = [th[c] EXCEPT !.pc = "forget", !.slot = Slot(c)]
      BY <1>11, <2>1
    <3>2. Onward(l, c, p, ph) /\ Plain(l) /\ Deq(l) /\ InClaim(l) = l /\ l.pc = "forget" /\ l # Idle
      BY <1>1, <3>1, ForgetOnward
    <3> QED
      BY <2>1, <3>2
  <2>2. CASE n # BlockSize
    <3>1. l = AfterBlock(c)
      BY <1>11, <2>2
    <3>2. Onward(l, c, p, ph) /\ Plain(l) /\ Deq(l) /\ InClaim(l).pc # "forget"
      BY <1>1, <3>1, AfterOnward
    <3> QED
      BY <2>2, <3>2
  <2> QED
    BY <2>1, <2>2
<1>17. Moved(c, p, ph, k, i, b, n, l)
  BY <1>3, <1>5, <1>7, <1>9, <1>14, <1>15, <1>16 DEF Moved
<1> QED
  BY <1>0, <1>13, <1>17

LEMMA MoveSame ==
    ASSUME NEW c, Move(c)
    PROVE  UNCHANGED <<head, tail, tailBlock, index, header, entry, freeList, memory>>
BY DEF Move, places, index

-----------------------------------------------------------------------------
(* The other blocks and the index after Move.                               *)

\* Two entries never hold the same block.
LEMMA IndexedOnce ==
    ASSUME IInv, NEW b \in Block, NEW p, NEW i, Indexed(b, p, i), NEW q, NEW x, Indexed(b, q, x)
    PROVE  q = p /\ x = i
<1>1. Once(b)
  BY DEF IInv, Rest, PlaceInv
<1>2. Spot(b, "index", p, i) /\ Spot(b, "index", q, x)
  BY DEF Spot, Indexed
<1> QED
  BY <1>1, <1>2, SpotOnly

LEMMA OnwardIndex ==
    ASSUME IInv, NEW c \in Consumer, th[c].pc \in {"entry", "move", "forget"}, NEW p, p = From(c),
           NEW ph \in Phases(p), Phased(p, ph), NEW l, th' = [th EXCEPT ![c] = l], Onward(l, c, p, ph),
           UNCHANGED head, Gens(p)' = Gens(p), Chained(p, ph)', Keyed(p, ph)',
           \A d \in Consumer : \A m : FindsRight(p, ph, m) /\ ((m = TakenBy(d) /\ Takes(d, p)) \/ (m = InClaim(l) /\ m # Idle))
                                  => FindsRight(p, ph, m)'
    PROVE  IndexInv(p)'
<1>1. Takes(c, p)' => TakenBy(c)' = InClaim(l) /\ FindsRight(p, ph, InClaim(l))
  BY OnwardOwns
<1>2. \A d \in Consumer : d # c => TakenBy(d)' = TakenBy(d) /\ (Takes(d, p)' <=> Takes(d, p))
  BY ConsumerFrame
<1>3. ASSUME NEW d \in Consumer, Takes(d, p)' PROVE FindsRight(p, ph, TakenBy(d))'
  <2>1. PICK m : m = TakenBy(d)'
    OBVIOUS
  <2>2. FindsRight(p, ph, m) /\ ((m = TakenBy(d) /\ Takes(d, p)) \/ (m = InClaim(l) /\ m # Idle))
    <3>1. CASE d = c
      <4>1. m # Idle
        BY <1>3, <2>1 DEF Takes
      <4> QED
        BY <1>1, <1>3, <2>1, <3>1, <4>1
    <3>2. CASE d # c
      <4>1. Takes(d, p) /\ m = TakenBy(d)
        BY <1>2, <1>3, <2>1, <3>2
      <4>2. FindsRight(p, ph, TakenBy(d))
        BY <4>1 DEF Phased
      <4>3. FindsRight(p, ph, m)
        BY <4>1, <4>2
      <4> QED
        BY <4>1, <4>3
    <3> QED
      BY <3>1, <3>2
  <2>3. FindsRight(p, ph, m)'
    BY <2>2
  <2> QED
    BY <2>1, <2>3 DEF FindsRight
<1>4. ph \in Phases(p)'
  BY DEF Phases
<1> QED
  BY <1>3, <1>4 DEF IndexInv, Phased, Phases

LEMMA MoveNames ==
    ASSUME IInv, NEW c \in Consumer, Move(c), NEW p, p = From(c), NEW ph \in Phases(p), Phased(p, ph),
           NEW k, NEW i, NEW b, NEW n, NEW l, Moved(c, p, ph, k, i, b, n, l)
    PROVE  /\ p \in Producer /\ Written(p)' = Written(p) /\ Known(p)' = Known(p) /\ CallInv(p)' /\ IndexInv(p)'
           /\ \A m, x : Used(p, m, x)' <=> Used(p, m, x)
           /\ \A m \in Nat : Unread(p, m)' = Unread(p, m) \ Mine(c, p) /\ (m # k => Unread(p, m)' = Unread(p, m))
           /\ Takes(c, p) /\ (\A q : Takes(c, q) => q = p) /\ (\A q : Takes(c, q)' => q = p)
           /\ th[c].pc \in {"entry", "move"} /\ ~ (\E m : Forgets(c, p, m))
<1>1. /\ th' = [th EXCEPT ![c] = l] /\ Onward(l, c, p, ph) /\ k = Num(th[c].at) /\ k \in Nat
  BY DEF Moved
<1>2. UNCHANGED <<header, entry>> /\ UNCHANGED tail /\ UNCHANGED head
  BY MoveSame
<1>3. th[c].pc \in {"entry", "move"}
  BY DEF Move, At
<1>4. p \in Producer /\ Takes(c, p) /\ (\A q : Takes(c, q) => q = p) /\ TakenBy(c) = th[c]
  BY <1>3, ClaimIs DEF Takings
<1>5. /\ Chain(p)' = Chain(p) /\ Tried(p)' = Tried(p) /\ Written(p)' = Written(p) /\ Known(p)' = Known(p)
      /\ CallInv(p)'
  BY <1>1, <1>2, <1>4, ConsumerNames
<1>6. /\ Chained(p, ph)' <=> Chained(p, ph)
      /\ Keyed(p, ph)' <=> Keyed(p, ph)
      /\ \A m : FindsRight(p, ph, m)' <=> FindsRight(p, ph, m)
      /\ \A m, x : Used(p, m, x)' <=> Used(p, m, x)
      /\ Gens(p)' = Gens(p)
  BY <1>2, <1>5, FrameNames
<1>7. IndexInv(p)'
  <2>1. Chained(p, ph)' /\ Keyed(p, ph)'
    BY <1>6 DEF Phased
  <2> QED
    BY <1>1, <1>2, <1>3, <1>6, <2>1, OnwardIndex
<1>8. \A m \in Nat : Unread(p, m)' = Unread(p, m) \ Mine(c, p)
  BY <1>1, <1>2, <1>3, UnreadOnward
<1>9. \A m \in Nat : m # k => Unread(p, m) \cap Mine(c, p) = {}
  BY <1>1, <1>3, MineFacts
<1>10. \A m \in Nat : m # k => Unread(p, m)' = Unread(p, m)
  BY <1>8, <1>9
<1>11. \A q : Takes(c, q)' => q = p
  BY <1>1, <1>2, <1>3, OnwardOwns
<1>12. ~ (\E m : Forgets(c, p, m))
  BY <1>3, <1>4 DEF Forgets
<1> QED
  BY <1>3, <1>4, <1>5, <1>6, <1>7, <1>8, <1>10, <1>11, <1>12

LEMMA MoveFills ==
    ASSUME IInv, NEW c \in Consumer, Move(c), NEW p, p = From(c), NEW ph \in Phases(p), Phased(p, ph),
           NEW k, NEW i, NEW b, NEW n, NEW l, Moved(c, p, ph, k, i, b, n, l),
           NEW m \in Nat, NEW x, Used(p, m, x)
    PROVE  Fills(p, m, entry[p][x].value)'
<1>0. CountTypes /\ Types
  BY DEF IInv, Rest, CountedInv
<1>1. /\ k \in Nat /\ Used(p, k, i) /\ b = entry[p][i].value /\ b \in Block /\ k = Num(th[c].at)
      /\ n \in Nat /\ n = BlockSize - Cardinality(Unread(p, k) \ Mine(c, p)) /\ BlockTaken(b, n, TakenCells(c))
  BY DEF Moved
<1>2. /\ p \in Producer /\ Written(p)' = Written(p) /\ Known(p)' = Known(p) /\ th[c].pc \in {"entry", "move"}
      /\ \A y \in Nat : Unread(p, y)' = Unread(p, y) \ Mine(c, p) /\ (y # k => Unread(p, y)' = Unread(p, y))
  BY MoveNames
<1>3. UNCHANGED <<header, entry>> /\ UNCHANGED tailBlock
  BY MoveSame
<1>4. PICK v : v = entry[p][x].value
  OBVIOUS
<1>5. Fills(p, m, v) /\ v \in Block
  <2>1. x \in DOMAIN entry[p] /\ v # None
    BY <1>4 DEF Used
  <2>2. v \in Link
    BY <1>0, <1>2, <1>4, <2>1, EntryFields
  <2>3. Fills(p, m, v)
    BY <1>2, <1>4, <2>1 DEF IInv, Rest, Owned, LiveInv, Filled
  <2> QED
    BY <2>1, <2>2, <2>3 DEF Link
<1>6. /\ block'[b].done = n /\ \A a \in Block : a # b => block'[a] = block[a]
      /\ \A y \in 0 .. BlockSize - 1 : ~ y \in TakenCells(c) => block'[b].cells[y] = block[b].cells[y]
  BY <1>1, BlockTakenFields
<1>7. m = Known(p)' => v = tailBlock'[p]
  BY <1>2, <1>3, <1>5 DEF Fills
<1>8. CASE m = k
  <2>1. v = b
    <3>1. m \in Int /\ Chained(p, ph) /\ Keyed(p, ph)
      BY DEF Phased
    <3>2. x = Now(p, ph, m) /\ i = Now(p, ph, m)
      BY <1>0, <1>1, <1>2, <1>8, <3>1, UsedAt
    <3> QED
      BY <1>1, <1>4, <3>2
  <2>2. Unread(p, m)' = Unread(p, m) \ Mine(c, p)
    BY <1>2
  <2>3. block'[v].done = BlockSize - Cardinality(Unread(p, m)')
    BY <1>1, <1>6, <1>8, <2>1, <2>2
  <2>4. ASSUME NEW j \in Unread(p, m)', j < Written(p)'
        PROVE  block'[v].cells[j % BlockSize] = <<p, j>>
    <3>1. j \in Unread(p, m) /\ j \notin Mine(c, p) /\ j < Written(p)
      BY <1>2, <2>2, <2>4
    <3>2. ~ j % BlockSize \in TakenCells(c)
      BY <1>1, <1>2, <1>8, <3>1, MineFacts
    <3>3. j % BlockSize \in 0 .. BlockSize - 1
      <4>1. PICK bs \in Nat \ {0} : bs = BlockSize
        BY Sizes
      <4>2. j \in Int
        <5>1. m * BlockSize \in Int
          BY Scale
        <5> QED
          BY <3>1, <4>1, <5>1 DEF Unread
      <4>3. j % bs \in 0 .. bs - 1
        BY <4>2, ModRange
      <4> QED
        BY <4>1, <4>3
    <3>4. block[v].cells[j % BlockSize] = <<p, j>>
      BY <1>5, <3>1 DEF Fills
    <3> QED
      BY <1>6, <2>1, <3>2, <3>3, <3>4
  <2>5. Fills(p, m, v)'
    BY <1>7, <2>3, <2>4 DEF Fills
  <2> QED
    BY <1>3, <1>4, <2>5
<1>9. CASE m # k
  <2>1. v # b
    <3>1. ASSUME v = b PROVE FALSE
      <4>1. Indexed(b, p, i) /\ Indexed(b, p, x)
        BY <1>1, <1>2, <1>4, <3>1 DEF Used, Indexed
      <4>2. x = i
        BY <1>1, <4>1, IndexedOnce
      <4>3. m * BlockSize = k * BlockSize
        BY <1>1, <4>2 DEF Used
      <4>4. m = k
        BY <1>1, <4>3, Scale
      <4> QED
        BY <1>9, <4>4
    <3> QED
      BY <3>1
  <2>2. block'[v] = block[v] /\ Unread(p, m)' = Unread(p, m)
    BY <1>2, <1>5, <1>6, <1>9, <2>1
  <2>3. Fills(p, m, v)'
    BY <1>2, <1>5, <1>7, <2>2 DEF Fills
  <2> QED
    BY <1>3, <1>4, <2>3
<1> QED
  BY <1>8, <1>9

-----------------------------------------------------------------------------
(* So Move keeps the invariant: the consumer that empties a block is the only *)
(* one to forget it.                                                        *)

\* Just one consumer finds the block emptied.
LEMMA MoveForgets ==
    ASSUME IInv, NEW c \in Consumer, Move(c), NEW p, p = From(c), NEW ph \in Phases(p), Phased(p, ph),
           NEW k, NEW i, NEW b, NEW n, NEW l, Moved(c, p, ph, k, i, b, n, l)
    PROVE  /\ Unread(p, k) # {} /\ (\A m : Forgets(c, p, m)' => m = k /\ Unread(p, k)' = {})
           /\ Unread(p, k)' = {} => Forgets(c, p, k)'
           /\ \A d \in Consumer : \A m : d # c => (Forgets(d, p, m)' <=> Forgets(d, p, m))
<1>1. /\ th' = [th EXCEPT ![c] = l] /\ Onward(l, c, p, ph) /\ k = Num(th[c].at) /\ k \in Nat
      /\ n = BlockSize <=> Unread(p, k) \ Mine(c, p) = {}
      /\ n = BlockSize => InClaim(l) # Idle /\ InClaim(l).pc = "forget"
      /\ InClaim(l).pc = "forget" => n = BlockSize
  BY DEF Moved
<1>2. /\ th[c].pc \in {"entry", "move"} /\ Unread(p, k)' = Unread(p, k) \ Mine(c, p) /\ Takes(c, p)
  BY <1>1, MoveNames
<1>3. UNCHANGED head
  BY MoveSame
<1>4. TakenBy(c)' = InClaim(l)
  BY <1>1, ConsumerFrame
<1>5. \A d \in Consumer : \A m : d # c => (Forgets(d, p, m)' <=> Forgets(d, p, m))
  BY <1>1, ConsumerFrame
<1>6. Unread(p, k) # {}
  BY <1>1, <1>2, MineFacts
<1>7. \A m : Forgets(c, p, m)' => m = k
  BY <1>1, <1>2, <1>3, OnwardOwns
<1>8. \A m : Forgets(c, p, m)' => InClaim(l).pc = "forget"
  BY <1>4 DEF Forgets
<1>9. \A m : Forgets(c, p, m)' => Unread(p, k)' = {}
  BY <1>1, <1>2, <1>8
<1>10. ASSUME Unread(p, k)' = {} PROVE Forgets(c, p, k)'
  <2>1. PICK m : m = InClaim(l)
    OBVIOUS
  <2>2. m # Idle /\ m.pc = "forget"
    BY <1>1, <1>2, <1>10, <2>1
  <2>3. m.ask = th[c].ask /\ Num(m.at) = k
    BY <1>1, <2>1, <2>2 DEF Onward
  <2>4. Takes(c, p)'
    <3>1. Head(m.ask.todo) = p
      BY <2>3 DEF From
    <3> QED
      BY <1>4, <2>1, <2>2, <3>1 DEF Takes
  <2>5. TakenBy(c)' = m
    BY <1>4, <2>1
  <2> QED
    BY <2>2, <2>3, <2>4, <2>5 DEF Forgets, Num
<1> QED
  BY <1>5, <1>6, <1>7, <1>9, <1>10

LEMMA MoveLive ==
    ASSUME IInv, NEW c \in Consumer, Move(c), NEW p, p = From(c), NEW ph \in Phases(p), Phased(p, ph),
           NEW k, NEW i, NEW b, NEW n, NEW l, Moved(c, p, ph, k, i, b, n, l)
    PROVE  LiveInv(p)'
<1>1. /\ th' = [th EXCEPT ![c] = l] /\ Onward(l, c, p, ph) /\ k = Num(th[c].at) /\ k \in Nat /\ Used(p, k, i)
  BY DEF Moved
<1>2. /\ p \in Producer /\ Written(p)' = Written(p) /\ Known(p)' = Known(p)
      /\ \A m, x : Used(p, m, x)' <=> Used(p, m, x)
      /\ \A m \in Nat : Unread(p, m)' = Unread(p, m) \ Mine(c, p) /\ (m # k => Unread(p, m)' = Unread(p, m))
      /\ th[c].pc \in {"entry", "move"} /\ ~ (\E m : Forgets(c, p, m))
  BY MoveNames
<1>3. UNCHANGED <<header, entry>> /\ UNCHANGED head /\ UNCHANGED tail
  BY MoveSame
<1>4. /\ Unread(p, k) # {} /\ (\A m : Forgets(c, p, m)' => m = k /\ Unread(p, k)' = {})
      /\ Unread(p, k)' = {} => Forgets(c, p, k)'
      /\ \A d \in Consumer : \A m : d # c => (Forgets(d, p, m)' <=> Forgets(d, p, m))
  BY MoveForgets
<1>5. head[p] <= tail[p] /\ Backed(p) /\ Emptied(p)
  BY <1>2 DEF IInv, Rest, Owned, LiveInv
<1>6. head'[p] <= tail'[p]
  BY <1>3, <1>5
<1>7. Backed(p)'
  <2> SUFFICES ASSUME NEW m \in 0 .. Known(p)', Unread(p, m)' # {}
               PROVE  \E x \in DOMAIN entry'[p] : Used(p, m, x)'
    BY DEF Backed
  <2>1. m \in 0 .. Known(p) /\ m \in Nat
    BY <1>2
  <2>2. Unread(p, m) # {}
    BY <1>2, <2>1
  <2>3. PICK x \in DOMAIN entry[p] : Used(p, m, x)
    BY <1>5, <2>1, <2>2 DEF Backed
  <2> QED
    BY <1>2, <1>3, <2>3
<1>8. Filled(p)'
  <2> SUFFICES ASSUME NEW m \in Nat, NEW x \in DOMAIN entry'[p], Used(p, m, x)'
               PROVE  Fills(p, m, entry[p][x].value)'
    BY DEF Filled
  <2>1. Used(p, m, x)
    BY <1>2
  <2> QED
    BY <2>1, MoveFills
<1>9. Emptied(p)'
  <2>1. ASSUME NEW m \in Nat, NEW x \in DOMAIN entry'[p], Used(p, m, x)', Unread(p, m)' = {}
        PROVE  \E d \in Consumer : Forgets(d, p, m)'
    <3>1. CASE m = k
      BY <1>4, <2>1, <3>1
    <3>2. CASE m # k
      <4>1. Used(p, m, x) /\ Unread(p, m) = {} /\ x \in DOMAIN entry[p]
        BY <1>2, <1>3, <2>1, <3>2
      <4>2. PICK d \in Consumer : Forgets(d, p, m)
        BY <1>5, <4>1 DEF Emptied
      <4>3. d # c
        BY <1>2, <4>2
      <4> QED
        BY <1>4, <4>2, <4>3
    <3> QED
      BY <3>1, <3>2
  <2>2. ASSUME NEW m \in Nat, NEW d \in Consumer, Forgets(d, p, m)'
        PROVE  /\ Unread(p, m)' = {} /\ \E x \in DOMAIN entry'[p] : Used(p, m, x)'
               /\ \A e \in Consumer : Forgets(e, p, m)' => e = d
    <3>1. CASE d = c
      <4>1. m = k /\ Unread(p, m)' = {}
        BY <1>4, <2>2, <3>1
      <4>2. i \in DOMAIN entry[p] /\ Used(p, m, i)'
        BY <1>1, <1>2, <4>1 DEF Used
      <4>3. ASSUME NEW e \in Consumer, Forgets(e, p, m)', e # c PROVE FALSE
        <5>1. Forgets(e, p, m)
          BY <1>4, <4>3
        <5>2. Unread(p, m) = {}
          BY <1>5, <5>1 DEF Emptied
        <5> QED
          BY <1>4, <4>1, <5>2
      <4> QED
        BY <1>3, <3>1, <4>1, <4>2, <4>3
    <3>2. CASE d # c
      <4>1. Forgets(d, p, m)
        BY <1>4, <2>2, <3>2
      <4>2. /\ Unread(p, m) = {} /\ (\E x \in DOMAIN entry[p] : Used(p, m, x))
            /\ \A e \in Consumer : Forgets(e, p, m) => e = d
        BY <1>5, <4>1 DEF Emptied
      <4>3. m # k
        BY <1>4, <4>2
      <4>4. Unread(p, m)' = {}
        BY <1>2, <4>2, <4>3
      <4>5. \E x \in DOMAIN entry'[p] : Used(p, m, x)'
        BY <1>2, <1>3, <4>2
      <4>6. \A e \in Consumer : Forgets(e, p, m)' => e = d
        BY <1>4, <4>2, <4>3
      <4> QED
        BY <4>4, <4>5, <4>6
    <3> QED
      BY <3>1, <3>2
  <2> QED
    BY <2>1, <2>2 DEF Emptied
<1>10. Apart(p)'
  BY <1>1, <1>2, <1>3, OnwardOwns
<1> QED
  BY <1>6, <1>7, <1>8, <1>9, <1>10 DEF LiveInv

LEMMA MoveRest ==
    ASSUME IInv, NEW c \in Consumer, Move(c)
    PROVE  Rest'
<1>0. c \in Thread /\ c \notin Producer /\ Types
  BY Roles DEF IInv, Rest
<1>1. PICK p : p = From(c)
  OBVIOUS
<1>2. th[c].pc \in {"entry", "move"}
  BY DEF Move, At
<1>3. p \in Producer /\ Plain(th[c])
  BY <1>1, <1>2, ClaimIs DEF Takings
<1>4. PICK ph \in Phases(p) : Phased(p, ph)
  BY <1>3 DEF IInv, Rest, Owned, IndexInv, Phases
<1>5. ~ broken' /\ \E k, i, b, n, l : Moved(c, p, ph, k, i, b, n, l)
  BY <1>1, <1>4, MoveIs
<1>6. PICK k, i, b, n, l : Moved(c, p, ph, k, i, b, n, l)
  BY <1>5
<1>7. /\ th' = [th EXCEPT ![c] = l] /\ Plain(l) /\ Deq(l) /\ n \in Nat /\ b \in Block
      /\ BlockTaken(b, n, TakenCells(c)) /\ Used(p, k, i) /\ b = entry[p][i].value
  BY <1>6 DEF Moved
<1>8. UNCHANGED <<head, tail, tailBlock, index, header, entry, freeList, memory>>
  BY MoveSame
<1>9. CallInv(p)' /\ IndexInv(p)' /\ (\A q : Takes(c, q) => q = p) /\ (\A q : Takes(c, q)' => q = p)
  BY <1>1, <1>4, <1>6, MoveNames
<1>10. LiveInv(p)'
  BY <1>1, <1>4, <1>6, MoveLive
<1>11. block' \in [Block -> BlockType] /\ \A a \in Block : a # b => block'[a] = block[a]
  BY <1>7, BlockTakenFields
<1>12. ASSUME NEW q \in Producer PROVE Owned(q)'
  <2>1. CASE q = p
    BY <1>9, <1>10, <2>1 DEF Owned
  <2>2. CASE q # p
    <3>1. ~ Takes(c, q) /\ ~ Takes(c, q)'
      BY <1>9, <2>2
    <3>2. ASSUME NEW x \in DOMAIN entry[q], entry[q][x].value # None
          PROVE  block'[entry[q][x].value] = block[entry[q][x].value]
      <4>1. entry[q][x].value \in Block
        <5>1. entry[q][x].value \in Link
          BY <1>0, EntryFields
        <5> QED
          BY <3>2, <5>1 DEF Link
      <4>2. entry[q][x].value # b
        <5>1. ASSUME entry[q][x].value = b PROVE FALSE
          <6>1. Indexed(b, p, i) /\ Indexed(b, q, x)
            BY <1>3, <1>7, <5>1 DEF Used, Indexed
          <6> QED
            BY <1>7, <2>2, <6>1, IndexedOnce
        <5> QED
          BY <5>1
      <4> QED
        BY <1>11, <4>1, <4>2
    <3> QED
      BY <1>7, <1>8, <3>1, <3>2, UnclaimedOwned
  <2> QED
    BY <2>1, <2>2
<1>13. IndexKept /\ IndexTyped'
  BY <1>8, SameIndex
<1>14. BlocksTyped'
  <2>1. tailBlock \in [Producer -> Link]
    BY Typed DEF IInv, Rest, BlocksTyped
  <2> QED
    BY <1>8, <1>11, <2>1 DEF BlocksTyped
<1>15. LocalOk(c, l)
  BY <1>0, <1>7 DEF LocalOk
<1> QED
  BY <1>0, <1>3, <1>5, <1>7, <1>8, <1>12, <1>13, <1>14, <1>15, PlainRest

-----------------------------------------------------------------------------
(* The empty block leaves the index (concurrentqueue.h:2842-2850), Forget.  *)

\* What a step of Forget does, for block k of p, which is b and in entry i.
Forgot(c, p, ph, k, i, b, l) ==
    /\ k = Num(th[c].at) /\ k \in Nat /\ Used(p, k, i) /\ b = entry[p][i].value /\ b \in Block /\ i = Now(p, ph, k)
    /\ EntryNow(p, i, [key |-> k * BlockSize, value |-> None]) /\ ValueSet(p, i, None)
    /\ th' = [th EXCEPT ![c] = l] /\ l = [pc |-> "release", node |-> b, then |-> AfterBlock(c)]
    /\ Onward(l, c, p, ph) /\ Deq(l) /\ l.then.pc # "giveUp" /\ InClaim(l).pc # "forget"

LEMMA ForgetIs ==
    ASSUME IInv, NEW c \in Consumer, Forget(c), NEW p, p = From(c), NEW ph \in Phases(p), Phased(p, ph)
    PROVE  \E k, i, b, l : Forgot(c, p, ph, k, i, b, l)
<1>0. Types
  BY DEF IInv, Rest
<1>1. th[c].pc = "forget"
  BY DEF Forget, At
<1>2. PICK h, f, k, i : Placed(c, p, ph, k, i, h, f)
  BY <1>1, ClaimSlot
<1>3. k = Num(th[c].at) /\ k \in Nat /\ EntryAt(c, th[c].slot) = i /\ Used(p, k, i) /\ i = Now(p, ph, k)
  BY <1>1, <1>2 DEF Placed
<1>4. p \in Producer
  BY <1>1, ClaimIs DEF Takings
<1>5. PICK b : b = entry[p][i].value
  OBVIOUS
<1>6. i \in DOMAIN entry[p] /\ b # None /\ entry[p][i].key = k * BlockSize
  BY <1>3, <1>5 DEF Used
<1>7. entry[p][i] \in [key : Nat \cup {None}, value : Link]
  BY <1>0, <1>4, <1>6, EntryFields
<1>8. b \in Block
  BY <1>5, <1>6, <1>7 DEF Link
<1>9. PICK m : m = AfterBlock(c)
  OBVIOUS
<1>10. /\ Onward(m, c, p, ph) /\ NextUp(m) /\ InClaim(m).pc # "forget" /\ m.pc \in {"idle", "load", "move"}
       /\ m.pc = "move" => InClaim(m) = m
       /\ "then" \notin DOMAIN m
  BY <1>1, <1>9, AfterOnward
<1>11. PICK l : l = [pc |-> "release", node |-> b, then |-> m]
  OBVIOUS
<1>12. l.pc = "release" /\ l.node = b /\ l.then = m /\ DOMAIN l = {"pc", "node", "then"}
  BY <1>11
<1>13. InClaim(l) = InClaim(m)
  <2>1. CASE m.pc = "move"
    BY <1>10, <1>12, <2>1 DEF InClaim, Takings
  <2>2. CASE m.pc # "move"
    BY <1>10, <1>12, <2>2 DEF InClaim, Takings
  <2> QED
    BY <2>1, <2>2
<1>14. Onward(l, c, p, ph)
  BY <1>10, <1>13 DEF Onward
<1>15. Deq(l)
  <2>1. l \in [pc : {"release"}, node : Block, then : {l.then}]
    BY <1>8, <1>11, <1>12
  <2> QED
    BY <1>10, <1>12, <2>1 DEF Deq
<1>16. entry' = [entry EXCEPT ![p][i].value = None] /\ Go(c, l)
  BY <1>3, <1>5, <1>9, <1>11 DEF Forget
<1>17. EntryNow(p, i, [key |-> k * BlockSize, value |-> None])
  <2>1. [entry[p][i] EXCEPT !.value = None] = [key |-> k * BlockSize, value |-> None]
    BY <1>6, <1>7
  <2>2. entry' = [entry EXCEPT ![p] = [@ EXCEPT ![i] = [entry[p][i] EXCEPT !.value = None]]]
    BY <1>16
  <2> QED
    BY <2>1, <2>2 DEF EntryNow
<1>18. l.then.pc # "giveUp" /\ InClaim(l).pc # "forget"
  BY <1>10, <1>12, <1>13
<1>19. Forgot(c, p, ph, k, i, b, l)
  BY <1>3, <1>5, <1>8, <1>9, <1>11, <1>14, <1>15, <1>16, <1>17, <1>18 DEF Forgot, ValueSet, Go
<1> QED
  BY <1>19

LEMMA ForgetSame ==
    ASSUME NEW c, Forget(c)
    PROVE  UNCHANGED <<head, tail, tailBlock, header, block, freeList, memory, broken>> /\ th[c].pc = "forget"
BY DEF Forget, places, At

LEMMA ForgetFields ==
    ASSUME IInv, NEW c \in Consumer, Forget(c), NEW p, p = From(c), NEW ph \in Phases(p), Phased(p, ph),
           NEW k, NEW i, NEW b, NEW l, Forgot(c, p, ph, k, i, b, l)
    PROVE  /\ entry' \in [Producer -> Seq(EntryType)] /\ \A q \in Producer : q # p => entry'[q] = entry[q]
           /\ DOMAIN entry'[p] = DOMAIN entry[p] /\ Len(entry'[p]) = Len(entry[p]) /\ i \in DOMAIN entry[p]
           /\ entry'[p][i] = [key |-> k * BlockSize, value |-> None]
           /\ entry[p][i].key = k * BlockSize /\ p \in Producer
           /\ \A x \in DOMAIN entry[p] : x # i => entry'[p][x] = entry[p][x]
           /\ \A m, x : Used(p, m, x)' <=> Used(p, m, x) /\ x # i
<1>0. Types
  BY DEF IInv, Rest
<1>1. p \in Producer
  <2>1. th[c].pc = "forget"
    BY ForgetSame
  <2> QED
    BY <2>1, ClaimIs DEF Takings
<1>2. k \in Nat /\ Used(p, k, i)
  BY DEF Forgot
<1>3. i \in DOMAIN entry[p] /\ entry[p][i].key = k * BlockSize
  BY <1>2 DEF Used
<1>4. PICK v : v = [key |-> k * BlockSize, value |-> None]
  OBVIOUS
<1>5. v \in EntryType
  <2>1. BlockSize \in Nat
    BY Sizes
  <2>2. k * BlockSize \in Nat
    BY <1>2, <2>1
  <2> QED
    BY <1>4, <2>2 DEF EntryType, Link
<1>6. EntryNow(p, i, v)
  BY <1>4 DEF Forgot
<1>7. /\ entry' \in [Producer -> Seq(EntryType)] /\ \A q \in Producer : q # p => entry'[q] = entry[q]
      /\ DOMAIN entry'[p] = DOMAIN entry[p] /\ Len(entry'[p]) = Len(entry[p])
      /\ entry'[p][i] = v /\ \A x \in DOMAIN entry[p] : x # i => entry'[p][x] = entry[p][x]
  BY <1>0, <1>1, <1>3, <1>5, <1>6, EntrySet
<1>8. ASSUME NEW m, NEW x
      PROVE  Used(p, m, x)' <=> Used(p, m, x) /\ x # i
  <2>1. CASE x = i
    BY <1>4, <1>7, <2>1 DEF Used
  <2>2. CASE x # i
    BY <1>7, <2>2 DEF Used
  <2> QED
    BY <2>1, <2>2
<1> QED
  BY <1>1, <1>3, <1>4, <1>7, <1>8

LEMMA ForgetIndex ==
    ASSUME IInv, NEW c \in Consumer, Forget(c), NEW p, p = From(c), NEW ph \in Phases(p), Phased(p, ph),
           NEW k, NEW i, NEW b, NEW l, Forgot(c, p, ph, k, i, b, l)
    PROVE  IndexInv(p)' /\ CallInv(p)' /\ Written(p)' = Written(p) /\ Known(p)' = Known(p)
<1>0. CountTypes /\ Types
  BY DEF IInv, Rest, CountedInv
<1>1. /\ k = Num(th[c].at) /\ k \in Nat /\ Used(p, k, i) /\ i = Now(p, ph, k)
      /\ th' = [th EXCEPT ![c] = l] /\ Onward(l, c, p, ph) /\ Deq(l)
  BY DEF Forgot
<1>2. UNCHANGED <<head, tail, tailBlock, header, block>> /\ th[c].pc = "forget"
  BY ForgetSame
<1>3. /\ DOMAIN entry'[p] = DOMAIN entry[p] /\ Len(entry'[p]) = Len(entry[p]) /\ i \in DOMAIN entry[p]
      /\ entry'[p][i] = [key |-> k * BlockSize, value |-> None]
      /\ entry[p][i].key = k * BlockSize /\ p \in Producer
      /\ \A x \in DOMAIN entry[p] : x # i => entry'[p][x] = entry[p][x]
  BY ForgetFields
<1>4. /\ Chain(p)' = Chain(p) /\ Tried(p)' = Tried(p) /\ Written(p)' = Written(p) /\ Known(p)' = Known(p)
      /\ Top(p)' = Top(p) /\ CallInv(p)'
  BY <1>1, <1>2, <1>3, ConsumerNames
<1>5. Chained(p, ph) /\ Keyed(p, ph) /\ \A d \in Consumer : Takes(d, p) => FindsRight(p, ph, TakenBy(d))
  BY DEF Phased
<1>6. Gens(p) # 0
  BY <1>3, <1>5 DEF Chained
<1>7. SlotsKept(p)
  BY <1>2 DEF SlotsKept, Gens
<1>8. Cap(p)' = Cap(p) /\ (\A x : Now(p, ph, x)' = Now(p, ph, x)) /\ Gens(p)' = Gens(p)
  <2>1. Cap(p)' = Cap(p) /\ \A x : Now(p, ph, x)' = Now(p, ph, x)
    BY <1>0, <1>3, <1>6, <1>7, SlotsNow
  <2> QED
    BY <1>2, <2>1 DEF Gens
<1>9. PICK top \in Int : top = Top(p)
  BY <1>0, <1>3, NumTypes
<1>10. Chained(p, ph)'
  <2>1. header'[p][Gens(p)].tail = (ph[Gens(p)] + Top(p)') % Cap(p)
    BY <1>2, <1>4, <1>5, <1>6 DEF Chained, Cap
  <2> QED
    BY <1>0, <1>3, <1>5, <1>6, <1>7, <2>1, ChainedKept
<1>11. \A x \in DOMAIN entry[p] : entry'[p][x].key = entry[p][x].key
  BY <1>3
<1>12. Keyed(p, ph)'
  <2>1. \A x \in DOMAIN entry'[p] : entry'[p][x].value # None =>
          \E m \in 0 .. top :
             /\ top - m < Cap(p) /\ x = Now(p, ph, m)
             /\ \A y \in m .. top : entry'[p][Now(p, ph, y)].key = y * BlockSize
    <3> SUFFICES ASSUME NEW x \in DOMAIN entry'[p], entry'[p][x].value # None
                 PROVE  \E m \in 0 .. top :
                           /\ top - m < Cap(p) /\ x = Now(p, ph, m)
                           /\ \A y \in m .. top : entry'[p][Now(p, ph, y)].key = y * BlockSize
      OBVIOUS
    <3>1. x \in DOMAIN entry[p] /\ entry[p][x].value # None
      BY <1>3
    <3>2. PICK m \in 0 .. top : /\ top - m < Cap(p) /\ x = Now(p, ph, m)
                                /\ \A y \in m .. top : entry[p][Now(p, ph, y)].key = y * BlockSize
      BY <1>5, <1>9, <3>1 DEF Keyed, Cap
    <3>3. \A y \in m .. top : Now(p, ph, y) \in DOMAIN entry[p]
      <4>1. \A y \in Int : Now(p, ph, y) \in 1 .. Cap(p)
        BY <1>0, <1>3, <1>5, <1>6, NowFacts
      <4>2. DOMAIN entry[p] = 1 .. Cap(p)
        BY <1>0, <1>3, <1>5, <1>6, NowFacts
      <4> QED
        BY <4>1, <4>2
    <3> QED
      BY <1>11, <3>2, <3>3
  <2>2. Tried(p) # None => /\ Tried(p) \in DOMAIN entry[p] /\ Tried(p) = Now(p, ph, top)
                           /\ entry'[p][Now(p, ph, top)] = [key |-> top * BlockSize, value |-> None]
    <3> HAVE Tried(p) # None
    <3>1. /\ Tried(p) \in DOMAIN entry[p] /\ Tried(p) = Now(p, ph, top)
          /\ entry[p][Now(p, ph, top)] = [key |-> top * BlockSize, value |-> None]
      BY <1>5, <1>9 DEF Keyed, Holds
    <3>2. Now(p, ph, top) # i
      BY <1>1, <3>1 DEF Used
    <3> QED
      BY <1>3, <3>1, <3>2
  <2>3. \A j \in DOMAIN Chain(p) :
           entry'[p][Now(p, ph, Known(p) + j)] = [key |-> (Known(p) + j) * BlockSize, value |-> Chain(p)[j]]
    <3> TAKE j \in DOMAIN Chain(p)
    <3>1. j \in Nat \ {0} /\ Known(p) \in Int
      BY <1>0, <1>3, NumTypes
    <3>2. PICK m \in Int : m = Known(p) + j /\ Known(p) < m
      BY <3>1
    <3>3. entry[p][Now(p, ph, m)] = [key |-> m * BlockSize, value |-> Chain(p)[j]]
      BY <1>5, <3>2 DEF Keyed, Holds
    <3>4. Now(p, ph, m) # i
      <4>1. ASSUME Now(p, ph, m) = i PROVE FALSE
        <5>1. m * BlockSize = k * BlockSize
          BY <1>3, <3>3, <4>1
        <5>2. m = k
          BY <1>1, <5>1, Scale
        <5>3. k <= Known(p)
          <6>1. Takes(c, p) /\ TakenBy(c) = th[c]
            BY <1>2, ClaimIs DEF Takings
          <6>2. k \in Num(TakenBy(c).at) .. Num(TakenBy(c).end - 1)
            BY <1>0, <1>1, <6>1, TakesLocal
          <6>3. LiveInv(p)
            BY <1>3 DEF IInv, Rest, Owned
          <6> QED
            BY <1>0, <1>3, <6>1, <6>2, <6>3, ClaimUsed
        <5> QED
          BY <1>1, <3>1, <3>2, <5>2, <5>3
      <4> QED
        BY <4>1
    <3>5. Now(p, ph, m) \in DOMAIN entry[p]
      BY <1>0, <1>3, <1>5, <1>6, NowFacts
    <3> QED
      BY <1>3, <3>2, <3>3, <3>4, <3>5
  <2> QED
    BY <1>3, <1>4, <1>8, <1>9, <2>1, <2>2, <2>3 DEF Keyed, Holds, Cap
<1>13. KeysKept(p, ph)
  BY <1>11 DEF KeysKept
<1>14. ASSUME NEW d \in Consumer, NEW m, FindsRight(p, ph, m),
              (m = TakenBy(d) /\ Takes(d, p)) \/ (m = InClaim(l) /\ m # Idle)
       PROVE  FindsRight(p, ph, m)'
  <2>1. m.pc # "find" => m.slot \in Nat
    <3>1. CASE m = TakenBy(d) /\ Takes(d, p)
      BY <1>0, <3>1, TakesLocal
    <3>2. CASE m = InClaim(l) /\ m # Idle
      <4>1. ASSUME m.pc # "find" PROVE m.slot \in Nat
        <5>1. m.slot \in 0 .. header[p][m.gen].cap - 1 /\ m.gen \in 1 .. Gens(p)
          BY <1>14, <4>1 DEF FindsRight
        <5>2. header[p][m.gen].cap \in Nat \ {0}
          BY <1>0, <1>3, <5>1, HeaderFields, IndexFields
        <5> QED
          BY <5>1, <5>2
      <4> QED
        BY <4>1
    <3> QED
      BY <1>14, <3>1, <3>2
  <2> QED
    BY <1>0, <1>3, <1>5, <1>6, <1>7, <1>13, <1>14, <2>1, FindsKept
<1>15. IndexInv(p)'
  BY <1>1, <1>2, <1>8, <1>10, <1>12, <1>14, OnwardIndex
<1> QED
  BY <1>4, <1>15

-----------------------------------------------------------------------------
(* So Forget keeps the invariant: nobody has an element in the block it gives *)
(* back.                                                                    *)

LEMMA ForgetLive ==
    ASSUME IInv, NEW c \in Consumer, Forget(c), NEW p, p = From(c), NEW ph \in Phases(p), Phased(p, ph),
           NEW k, NEW i, NEW b, NEW l, Forgot(c, p, ph, k, i, b, l)
    PROVE  LiveInv(p)'
<1>0. CountTypes /\ Types
  BY DEF IInv, Rest, CountedInv
<1>1. /\ k = Num(th[c].at) /\ k \in Nat /\ Used(p, k, i) /\ i = Now(p, ph, k)
      /\ th' = [th EXCEPT ![c] = l] /\ Onward(l, c, p, ph) /\ InClaim(l).pc # "forget"
  BY DEF Forgot
<1>2. UNCHANGED head /\ UNCHANGED tail /\ UNCHANGED tailBlock /\ UNCHANGED block /\ th[c].pc = "forget"
  BY ForgetSame
<1>3. /\ DOMAIN entry'[p] = DOMAIN entry[p] /\ p \in Producer
      /\ \A x \in DOMAIN entry[p] : x # i => entry'[p][x] = entry[p][x]
      /\ \A m, x : Used(p, m, x)' <=> Used(p, m, x) /\ x # i
      /\ i \in DOMAIN entry[p] /\ entry[p][i].key = k * BlockSize
  <2>1. /\ entry' \in [Producer -> Seq(EntryType)] /\ \A q \in Producer : q # p => entry'[q] = entry[q]
        /\ DOMAIN entry'[p] = DOMAIN entry[p] /\ Len(entry'[p]) = Len(entry[p]) /\ i \in DOMAIN entry[p]
        /\ entry'[p][i] = [key |-> k * BlockSize, value |-> None]
        /\ entry[p][i].key = k * BlockSize /\ p \in Producer
        /\ \A x \in DOMAIN entry[p] : x # i => entry'[p][x] = entry[p][x]
        /\ \A m, x : Used(p, m, x)' <=> Used(p, m, x) /\ x # i
    BY ForgetFields
  <2> QED
    BY <2>1
<1>4. Written(p)' = Written(p) /\ Known(p)' = Known(p)
  BY ForgetIndex
<1>5. head[p] <= tail[p] /\ Backed(p) /\ Filled(p) /\ Emptied(p)
  BY <1>3 DEF IInv, Rest, Owned, LiveInv
<1>6. Takes(c, p) /\ TakenBy(c) = th[c] /\ Forgets(c, p, k)
  <2>1. Takes(c, p) /\ TakenBy(c) = th[c]
    BY <1>2, ClaimIs DEF Takings
  <2> QED
    BY <1>1, <1>2, <2>1 DEF Forgets
<1>7. Unread(p, k) = {} /\ \A d \in Consumer : Forgets(d, p, k) => d = c
  BY <1>1, <1>5, <1>6 DEF Emptied
<1>8. \A m \in Nat : Unread(p, m)' = Unread(p, m)
  <2>1. Mine(c, p) = {}
    <3>1. \A j \in Nat : Owns(c, p, j) => After(c) <= j
      BY <1>2, <1>6 DEF Owns, Start, After
    <3>2. After(c) \in Int
      BY <1>1, <1>2, OnwardOwns
    <3> QED
      BY <3>1, <3>2 DEF Mine
  <2>2. \A m \in Nat : Unread(p, m)' = Unread(p, m) \ Mine(c, p)
    BY <1>1, <1>2, UnreadOnward
  <2> QED
    BY <2>1, <2>2
<1>9. \A m \in Nat : Used(p, m, i) => m = k
  <2> TAKE m \in Nat
  <2> HAVE Used(p, m, i)
  <2>1. m * BlockSize = k * BlockSize
    BY <1>3 DEF Used
  <2> QED
    BY <1>1, <2>1, Scale
<1>10. \A d \in Consumer : \A m : d # c => (Forgets(d, p, m)' <=> Forgets(d, p, m))
  BY <1>1, ConsumerFrame
<1>11. \A m : ~ Forgets(c, p, m)'
  <2>1. TakenBy(c)' = InClaim(l)
    BY <1>1, ConsumerFrame
  <2> QED
    BY <1>1, <2>1 DEF Forgets
<1>12. head'[p] <= tail'[p]
  BY <1>2, <1>5
<1>13. Backed(p)'
  <2> SUFFICES ASSUME NEW m \in 0 .. Known(p)', Unread(p, m)' # {}
               PROVE  \E x \in DOMAIN entry'[p] : Used(p, m, x)'
    BY DEF Backed
  <2>1. m \in 0 .. Known(p) /\ m \in Nat
    BY <1>4
  <2>2. Unread(p, m) # {}
    BY <1>8, <2>1
  <2>3. PICK x \in DOMAIN entry[p] : Used(p, m, x)
    BY <1>5, <2>1, <2>2 DEF Backed
  <2>4. x # i
    BY <1>7, <1>9, <2>1, <2>2, <2>3
  <2> QED
    BY <1>3, <2>3, <2>4
<1>14. Filled(p)'
  <2> SUFFICES ASSUME NEW m \in Nat, NEW x \in DOMAIN entry'[p], Used(p, m, x)'
               PROVE  Fills(p, m, entry[p][x].value)'
    BY DEF Filled
  <2>1. Used(p, m, x) /\ x # i /\ entry'[p][x] = entry[p][x] /\ x \in DOMAIN entry[p]
    BY <1>3
  <2>2. PICK v : v = entry[p][x].value
    OBVIOUS
  <2>3. Fills(p, m, v)
    BY <1>5, <2>1, <2>2 DEF Filled
  <2>4. Fills(p, m, v)'
    BY <1>2, <1>4, <1>8, <2>3 DEF Fills
  <2> QED
    BY <2>1, <2>2, <2>4
<1>15. Emptied(p)'
  <2>1. ASSUME NEW m \in Nat, NEW x \in DOMAIN entry'[p], Used(p, m, x)', Unread(p, m)' = {}
        PROVE  \E d \in Consumer : Forgets(d, p, m)'
    <3>1. Used(p, m, x) /\ x # i /\ Unread(p, m) = {} /\ x \in DOMAIN entry[p]
      BY <1>3, <1>8, <2>1
    <3>2. PICK d \in Consumer : Forgets(d, p, m)
      BY <1>5, <3>1 DEF Emptied
    <3>3. d # c
      <4>1. ASSUME d = c PROVE FALSE
        <5>1. m = k
          BY <1>1, <1>6, <3>2, <4>1 DEF Forgets
        <5>2. IndexInv(p) /\ Chained(p, ph) /\ Keyed(p, ph) /\ m \in Int
          BY <1>3 DEF Phased, IInv, Rest, Owned
        <5>3. x = Now(p, ph, m)
          BY <1>0, <1>3, <3>1, <5>2, UsedAt
        <5> QED
          BY <1>1, <3>1, <5>1, <5>3
      <4> QED
        BY <4>1
    <3> QED
      BY <1>10, <3>2, <3>3
  <2>2. ASSUME NEW m \in Nat, NEW d \in Consumer, Forgets(d, p, m)'
        PROVE  /\ Unread(p, m)' = {} /\ \E x \in DOMAIN entry'[p] : Used(p, m, x)'
               /\ \A e \in Consumer : Forgets(e, p, m)' => e = d
    <3>1. d # c /\ Forgets(d, p, m)
      BY <1>10, <1>11, <2>2
    <3>2. /\ Unread(p, m) = {} /\ (\E x \in DOMAIN entry[p] : Used(p, m, x))
          /\ \A e \in Consumer : Forgets(e, p, m) => e = d
      BY <1>5, <3>1 DEF Emptied
    <3>3. PICK x \in DOMAIN entry[p] : Used(p, m, x)
      BY <3>2
    <3>4. x # i
      BY <1>7, <1>9, <3>1, <3>3
    <3>5. \A e \in Consumer : Forgets(e, p, m)' => e = d
      BY <1>10, <1>11, <3>2
    <3>6. Unread(p, m)' = {}
      BY <1>8, <3>2
    <3>7. Used(p, m, x)' /\ x \in DOMAIN entry'[p]
      BY <1>3, <3>3, <3>4
    <3> QED
      BY <3>5, <3>6, <3>7
  <2> QED
    BY <2>1, <2>2 DEF Emptied
<1>16. Apart(p)'
  BY <1>1, <1>2, OnwardOwns
<1> QED
  BY <1>12, <1>13, <1>14, <1>15, <1>16 DEF LiveInv

LEMMA ForgetRest ==
    ASSUME IInv, NEW c \in Consumer, Forget(c)
    PROVE  Rest'
<1>0. c \in Thread /\ c \notin Producer /\ Types /\ ~ broken /\ Safe
  BY Roles, IsSafe DEF IInv, Rest
<1>1. PICK p : p = From(c)
  OBVIOUS
<1>2. UNCHANGED <<head, tail, tailBlock, header, block, freeList, memory, broken>> /\ th[c].pc = "forget"
  BY ForgetSame
<1>3. p \in Producer
  BY <1>1, <1>2, ClaimIs DEF Takings
<1>4. PICK ph \in Phases(p) : Phased(p, ph)
  BY <1>3 DEF IInv, Rest, Owned, IndexInv, Phases
<1>5. PICK k, i, b, l : Forgot(c, p, ph, k, i, b, l)
  BY <1>1, <1>4, ForgetIs
<1>6. /\ th' = [th EXCEPT ![c] = l] /\ l = [pc |-> "release", node |-> b, then |-> AfterBlock(c)] /\ b \in Block
      /\ Deq(l) /\ l.then.pc # "giveUp" /\ b = entry[p][i].value /\ ValueSet(p, i, None) /\ Onward(l, c, p, ph)
  BY <1>5 DEF Forgot
<1>7. /\ entry' \in [Producer -> Seq(EntryType)] /\ \A q \in Producer : q # p => entry'[q] = entry[q]
      /\ i \in DOMAIN entry[p]
  <2>1. entry' \in [Producer -> Seq(EntryType)]
    BY <1>1, <1>4, <1>5, ForgetFields
  <2>2. \A q \in Producer : q # p => entry'[q] = entry[q]
    <3> TAKE q \in Producer
    <3> HAVE q # p
    <3>1. entry' = [entry EXCEPT ![p][i].value = None]
      BY <1>6 DEF ValueSet
    <3>2. DOMAIN entry = Producer
      BY <1>0 DEF Types
    <3> QED
      BY <3>1, <3>2
  <2>3. i \in DOMAIN entry[p]
    BY <1>1, <1>4, <1>5, ForgetFields
  <2> QED
    BY <2>1, <2>2, <2>3
<1>8. l.pc = "release" /\ l.node = b /\ "then" \in DOMAIN l
  BY <1>6
<1>9. PlaceInv'
  <2>1. UNCHANGED freeList /\ UNCHANGED fresh
    BY <1>2 DEF memory
  <2>2. entry' = [entry EXCEPT ![p][i].value = None]
    BY <1>6 DEF ValueSet
  <2> QED
    BY <1>0, <1>2, <1>3, <1>6, <1>7, <1>8, <2>1, <2>2, BlockLeaves
<1>10. IndexTyped'
  <2>1. header \in [Producer -> Seq(Index)]
    BY <1>0, Typed DEF IndexTyped
  <2> QED
    BY <1>2, <1>7, <2>1 DEF IndexTyped
<1>11. BlocksTyped'
  BY <1>2, SameBlocks
<1>12. Types'
  BY <1>0, <1>2, <1>6, <1>10, <1>11, StepTypes DEF LocalOk
<1>13. PoolInv'
  BY <1>0, <1>2, <1>6, StepPool
<1>14. ASSUME NEW q \in Producer PROVE Owned(q)'
  <2>1. CASE q = p
    <3>1. IndexInv(p)' /\ CallInv(p)'
      BY <1>1, <1>4, <1>5, ForgetIndex
    <3>2. LiveInv(p)'
      BY <1>1, <1>4, <1>5, ForgetLive
    <3> QED
      BY <2>1, <3>1, <3>2 DEF Owned
  <2>2. CASE q # p
    <3>1. ~ Takes(c, q)
      BY <1>1, <1>2, <2>2, ClaimIs DEF Takings
    <3>2. ~ Takes(c, q)'
      BY <1>1, <1>2, <1>6, <2>2, OnwardOwns
    <3> QED
      BY <1>2, <1>6, <1>7, <2>2, <3>1, <3>2, UnclaimedOwned
  <2> QED
    BY <2>1, <2>2
<1> QED
  BY <1>0, <1>2, <1>9, <1>12, <1>13, <1>14 DEF Rest

-----------------------------------------------------------------------------
(* The invariant holds in every state.                                      *)

\* A step that changes nothing.
LEMMA StillRest ==
    ASSUME IInv, UNCHANGED <<head, tail, th, tailBlock, block, index, freeList, memory, broken>>
    PROVE  Rest'
<1>1. /\ UNCHANGED head /\ UNCHANGED tail /\ UNCHANGED th /\ UNCHANGED tailBlock /\ UNCHANGED block
      /\ UNCHANGED freeList /\ UNCHANGED memory /\ ~ broken' /\ UNCHANGED index
  BY DEF IInv, Rest
<1>2. UNCHANGED header /\ UNCHANGED entry
  BY <1>1 DEF index
<1>3. \A c \in Consumer : \A q : (Takes(c, q)' <=> Takes(c, q)) /\ TakenBy(c)' = TakenBy(c)
  BY <1>1 DEF TakenBy, Takes
<1>4. \A q \in Producer : Owned(q)'
  BY <1>1, <1>2, <1>3, OtherOwned DEF IInv, Rest
<1>5. UNCHANGED fresh /\ UNCHANGED pooled /\ UNCHANGED <<free, refs, next>>
  BY <1>1 DEF memory, freeList
<1>6. IndexKept
  BY <1>1, SameIndex
<1>7. PlaceInv'
  BY <1>1, <1>5, <1>6, StillPlaces
<1>8. PoolInv'
  BY <1>1, <1>5 DEF PoolInv, IInv, Rest, At, Local
<1>9. Types'
  BY <1>1, <1>2, <1>5 DEF Types, IInv, Rest
<1> QED
  BY <1>1, <1>4, <1>7, <1>8, <1>9 DEF Rest

LEMMA InitTypes == Init => Types
<1> SUFFICES ASSUME Init PROVE Types
  OBVIOUS
<1>1. \A t \in Thread : th[t] = Idle
  BY DEF Init
<1>2. Idle \in Enq /\ Deq(Idle)
  BY DEF Enq, GiveUps, Deq, Idle
<1>3. (\A p \in Producer : th[p] \in Enq) /\ \A c \in Consumer : Deq(th[c])
  BY <1>1, <1>2, Roles
<1>4. block \in [Block -> [cells : [0 .. BlockSize - 1 -> (Producer \X Nat) \cup {None}], done : Nat]]
  BY DEF Init, NoBlock
<1>5. header \in [Producer -> Seq(Index)] /\ entry \in [Producer -> Seq([key : Nat \cup {None}, value : Link])]
  <2>1. \A S : <<>> \in Seq(S)
    OBVIOUS
  <2> QED
    BY <2>1 DEF Init
<1>6. tailBlock \in [Producer -> Link] /\ free \in Link /\ next \in [Block -> Link]
  BY DEF Init, Link
<1>7. refs \in [Block -> [n : Nat, should : BOOLEAN]] /\ fresh \subseteq Block /\ pooled \in Nat
  BY DEF Init
<1> QED
  BY <1>3, <1>4, <1>5, <1>6, <1>7 DEF Types

LEMMA InitPlaces == Init => PlaceInv /\ PoolInv
<1> SUFFICES ASSUME Init PROVE PlaceInv /\ PoolInv
  OBVIOUS
<1>1. \A t \in Thread : th[t] = Idle
  BY DEF Init
<1>2. Plain(Idle)
  BY DEF Plain, Putting, Idle
<1>3. \A t \in Thread : /\ Hands(th[t]) = {} /\ Reads(th[t]) = {} /\ ChainOnce(th[t])
                        /\ \A b : ~ (Adds(th[t], b) \/ Returns(th[t], b) \/ Obtains(th[t], b))
  BY <1>1, <1>2, PlainLocal
<1>4. ListInv /\ FreeBlocks = {}
  <2>1. PICK n \in Nat : n = 0
    OBVIOUS
  <2>2. PICK s \in [1 .. n -> Block] : TRUE
    <3>1. 1 .. n = {}
      BY <2>1
    <3>2. [x \in 1 .. n |-> CHOOSE b \in Block : TRUE] \in [1 .. n -> Block]
      BY <3>1
    <3> QED
      BY <3>2
  <2>3. Stack(s, n)
    BY <2>1 DEF Stack, Init
  <2>4. FreeBlocks = {s[i] : i \in 1 .. n}
    BY <2>3, StackFree
  <2>5. 1 .. n = {}
    BY <2>1
  <2> QED
    BY <2>3, <2>4, <2>5 DEF ListInv
<1>5. ASSUME NEW b \in Block PROVE Once(b) /\ Refs(b)
  <2>1. b \in fresh /\ ~ LeftOver(b) /\ refs[b].n = 0 /\ ~ refs[b].should
    BY DEF Init, LeftOver
  <2>2. \A x \in Producer : DOMAIN entry[x] = {}
    BY DEF Init
  <2>3. Spot(b, "fresh", None, 0)
    BY <2>1 DEF Spot
  <2>4. \A kind, x, i : Spot(b, kind, x, i) => kind = "fresh" /\ x = None /\ i = 0
    BY <1>3, <1>4, <2>1, <2>2 DEF Spot
  <2>5. Once(b)
    <3>1. IsAt(b, "fresh", None, 0)
      BY <2>3, <2>4 DEF IsAt
    <3> QED
      BY <3>1 DEF Once
  <2>6. Readers(b) = {}
    BY <1>3 DEF Readers
  <2>7. Cardinality(Readers(b)) = 0
    BY <2>6, FS_EmptySet
  <2>8. Extra(b) = 0
    BY <1>3, <1>4 DEF Extra
  <2>9. Refs(b)
    BY <2>1, <2>7, <2>8 DEF Refs
  <2> QED
    BY <2>5, <2>9
<1>6. \A t \in Thread : Linked(t)
  BY <1>1 DEF Linked, At, Idle
<1>7. PoolInv
  <2>1. PoolSize \in Nat /\ PoolSize <= Cardinality(Block)
    <3>1. PoolSize \in 0 .. Cardinality(Block)
      BY BoundAssumption
    <3>2. Block \subseteq Block \cup Thread /\ IsFiniteSet(Block \cup Thread)
      BY RolesDiffer
    <3>3. Cardinality(Block) \in Nat
      BY <3>2, FS_Subset, FS_CardinalityType
    <3> QED
      BY <3>1, <3>3
  <2>2. fresh = Block /\ pooled = 0
    BY DEF Init
  <2>3. Cardinality(fresh) >= PoolSize - pooled
    <3>1. Cardinality(Block) \in Nat
      <4>1. Block \subseteq Block \cup Thread /\ IsFiniteSet(Block \cup Thread)
        BY RolesDiffer
      <4> QED
        BY <4>1, FS_Subset, FS_CardinalityType
    <3> QED
      BY <2>1, <2>2, <3>1
  <2>4. \A p \in Producer : ~ Local(p).pc \in {"pool", "malloc"}
    BY <1>1, Roles DEF Local, InCall, Idle, NoCall, Calls
  <2> QED
    BY <2>3, <2>4 DEF PoolInv
<1> QED
  BY <1>3, <1>4, <1>5, <1>6, <1>7 DEF PlaceInv

LEMMA InitOwned == Init => \A p \in Producer : Owned(p)
<1> SUFFICES ASSUME Init, NEW p \in Producer PROVE Owned(p)
  OBVIOUS
<1>1. th[p] = Idle /\ tail[p] = 0 /\ head[p] = 0 /\ header[p] = <<>> /\ entry[p] = <<>>
  BY Roles DEF Init
<1>2. Local(p) = NoCall
  BY <1>1 DEF Local, InCall, Idle, Calls
<1>3. \A c \in Consumer : ~ Takes(c, p)
  <2>1. \A c \in Consumer : th[c] = Idle
    BY Roles DEF Init
  <2>2. InClaim(Idle) = Idle
    BY DEF InClaim, Takings, Idle
  <2> QED
    BY <2>1, <2>2 DEF Takes, TakenBy
<1>4. Written(p) = 0
  <2>1. ~ At(p, "publish")
    BY <1>1 DEF At, Idle
  <2> QED
    BY <1>1, <2>1 DEF Written
<1>5. Known(p) = -1
  <2>1. PICK x \in Int, y \in Int : x = -1 /\ y = -1
    OBVIOUS
  <2>2. y * BlockSize <= x /\ x < y * BlockSize + BlockSize
    BY <2>1, Sizes
  <2>3. Num(x) = y
    BY <2>2, NumIs
  <2>4. 0 - 1 = -1
    OBVIOUS
  <2> QED
    BY <1>4, <2>1, <2>3, <2>4 DEF Known
<1>6. Chain(p) = <<>> /\ Tried(p) = None
  BY <1>2 DEF Chain, Tried, NoCall
<1>7. Top(p) = -1
  BY <1>5, <1>6 DEF Top
<1>8. Gens(p) = 0 /\ DOMAIN entry[p] = {} /\ DOMAIN Chain(p) = {}
  BY <1>1, <1>6 DEF Gens
<1>9. CallInv(p)
  BY <1>2 DEF CallInv, NoCall
<1>10. IndexInv(p)
  <2>1. PICK ph \in [1 .. Gens(p) -> Int] : TRUE
    <3>1. [g \in 1 .. Gens(p) |-> 0] \in [1 .. Gens(p) -> Int]
      OBVIOUS
    <3> QED
      BY <3>1
  <2>2. 1 .. Gens(p) = {}
    BY <1>8
  <2>3. Chained(p, ph)
    BY <1>1, <1>7, <1>8, <2>2 DEF Chained
  <2>4. Keyed(p, ph)
    BY <1>6, <1>8 DEF Keyed
  <2> QED
    BY <1>3, <2>1, <2>3, <2>4 DEF IndexInv, Phased
<1>11. LiveInv(p)
  <2>1. head[p] <= tail[p]
    BY <1>1
  <2>2. Backed(p)
    <3>1. 0 .. Known(p) = {}
      BY <1>5
    <3> QED
      BY <3>1 DEF Backed
  <2>3. Filled(p)
    BY <1>8 DEF Filled
  <2>4. Emptied(p)
    BY <1>3, <1>8 DEF Emptied, Forgets
  <2>5. Apart(p)
    BY <1>3 DEF Apart
  <2> QED
    BY <2>1, <2>2, <2>3, <2>4, <2>5 DEF LiveInv
<1> QED
  BY <1>9, <1>10, <1>11 DEF Owned

LEMMA InitIInv == Init => IInv
BY InitCounted, InitTypes, InitPlaces, InitOwned DEF IInv, Rest, Init

\* Every step of Next keeps the invariant.
LEMMA NextRest == IInv /\ [Next]_vars => Rest'
<1> SUFFICES ASSUME IInv, [Next]_vars PROVE Rest'
  OBVIOUS
<1>1. ASSUME NEW p \in Producer, Produce(p) PROVE Rest'
  <2>1. CASE Join(p)
    BY <2>1, JoinRest
  <2>2. CASE \E n \in Counts[p] : Enqueue(p, n)
    BY <2>2, EnqueueRest
  <2>3. CASE Insert(p)
    BY <2>3, InsertRest
  <2>4. CASE FromPool(p)
    BY <2>4, FromPoolRest
  <2>5. CASE FromFreeList(p)
    BY <2>5, FromFreeListRest
  <2>6. CASE Malloc(p)
    BY <2>6, MallocRest
  <2>7. CASE Undo(p)
    BY <2>7, UndoRest
  <2>8. CASE GiveUp(p)
    BY <2>8, GiveUpRest
  <2>9. CASE Place(p)
    BY <2>9, PlaceRest
  <2>10. CASE Publish(p)
    BY <2>10, PublishRest
  <2> QED
    BY <1>1, <2>1, <2>2, <2>3, <2>4, <2>5, <2>6, <2>7, <2>8, <2>9, <2>10 DEF Produce
<1>2. ASSUME NEW c \in Consumer, Consume(c) PROVE Rest'
  <2>1. CASE (\E max \in Maxes[c] : Dequeue(c, max)) \/ Test(c) \/ Claim(c) \/ Check(c) \/ GiveBack(c)
    BY <2>1, CalmSteps
  <2>2. CASE TakeHead(c)
    BY <2>2, TakeHeadRest
  <2>3. CASE Find(c)
    BY <2>3, FindRest
  <2>4. CASE Move(c)
    BY <2>4, MoveRest
  <2>5. CASE Forget(c)
    BY <2>5, ForgetRest
  <2>6. CASE Release(c)
    BY <2>6, ReleaseRest
  <2> QED
    BY <1>2, <2>1, <2>2, <2>3, <2>4, <2>5, <2>6 DEF Consume
<1>3. ASSUME NEW t \in Thread, FreeListStep(t) PROVE Rest'
  BY <1>3, FreeListRest
<1>4. CASE UNCHANGED vars
  <2>1. UNCHANGED <<head, tail, th, tailBlock, block, index, freeList, memory, broken>>
    BY <1>4 DEF vars, places
  <2> QED
    BY <2>1, StillRest
<1> QED
  BY <1>1, <1>2, <1>3, <1>4 DEF Next

LEMMA NextIInv == IInv /\ [Next]_vars => IInv'
BY NextRest, NextCounted DEF IInv

LEMMA AlwaysIInv == Spec => []IInv
BY InitIInv, NextIInv, PTL DEF Spec

\* Theorem: no assert that AssertionsHold stands for fails: an enqueue does not start a block
\* that is being dequeued (concurrentqueue.h:2479, 2643), a block off the free list is not about
\* to be put there (1472), a dequeue finds its block in the index (2940, 2945) and none is
\* emptied of more than it has (1587, 1610), however the calls of all threads interleave and
\* whether or not malloc refuses.
THEOREM QueueAsserts == Spec => []AssertionsHold
<1>1. IInv => AssertionsHold
  BY DEF IInv, Rest, AssertionsHold
<1> QED
  BY <1>1, AlwaysIInv, PTL

-----------------------------------------------------------------------------
(* What the invariant says of the steps and of the places.                  *)

\* Theorem: a dequeue finds every element that it has claimed in the cell that its index
\* leads it to (concurrentqueue.h:2787-2848), though the index it reads may be an old one, its
\* entries are used again and blocks go through the free list to other producers meanwhile.
THEOREM QueueTakes == Spec => []TakenRight
<1>1. IInv => TakenRight
  <2> SUFFICES ASSUME IInv, NEW c \in Consumer, th[c].pc \in {"entry", "move"}, NEW i \in Claimed(c)
               PROVE  /\ entry[From(c)][EntryAt(c, Slot(c))].value # None
                      /\ block[entry[From(c)][EntryAt(c, Slot(c))].value].cells[i % BlockSize] = <<From(c), i>>
    BY DEF TakenRight, At
  <2>0. CountTypes /\ Types
    BY DEF IInv, Rest, CountedInv
  <2>1. PICK p : p = From(c)
    OBVIOUS
  <2>2. p \in Producer /\ Takes(c, p) /\ TakenBy(c) = th[c] /\ th[c].end \in Nat
    BY <2>1, ClaimIs DEF Takings
  <2>3. LiveInv(p) /\ IndexInv(p)
    BY <2>2 DEF IInv, Rest, Owned
  <2>4. PICK ph \in Phases(p) : Phased(p, ph)
    BY <2>3 DEF IndexInv, Phases
  <2>5. PICK h, f, k, e : Placed(c, p, ph, k, e, h, f)
    BY <2>1, <2>4, ClaimSlot
  <2>6. k = Num(th[c].at) /\ k \in Nat /\ EntryAt(c, Slot(c)) = e /\ Used(p, k, e)
    BY <2>5 DEF Placed
  <2>7. PICK b : b = entry[p][e].value
    OBVIOUS
  <2>8. b # None /\ e \in DOMAIN entry[p]
    BY <2>6, <2>7 DEF Used
  <2>9. Fills(p, k, b)
    BY <2>3, <2>6, <2>7, <2>8 DEF LiveInv, Filled
  <2>10. i \in Unread(p, k)
    BY <2>1, <2>6, MineFacts
  <2>11. i < Written(p)
    <3>1. PICK a \in Nat, en \in Nat : a < en /\ en <= th[c].end /\ Claimed(c) = a .. en - 1
      BY <2>1, <2>6, MineIs
    <3>2. i \in Nat /\ i < en
      BY <3>1
    <3>3. th[c].end <= head[p]
      BY <2>2, <2>3 DEF LiveInv, Apart
    <3>4. head[p] <= tail[p]
      BY <2>3 DEF LiveInv
    <3>5. head[p] \in Nat /\ tail[p] \in Nat /\ Written(p) \in Nat /\ tail[p] <= Written(p)
      BY <2>0, <2>2, NumTypes
    <3> QED
      BY <2>2, <3>1, <3>2, <3>3, <3>4, <3>5
  <2>12. block[b].cells[i % BlockSize] = <<p, i>>
    BY <2>9, <2>10, <2>11 DEF Fills
  <2> QED
    BY <2>1, <2>6, <2>7, <2>8, <2>12
<1> QED
  BY <1>1, AlwaysIInv, PTL

\* The blocks in the hands of a thread, as ConcurrentQueue names them.
LEMMA HandsNamed ==
    ASSUME IInv, NEW t \in Thread
    PROVE  InHands(t) \cup Behind(t) = Hands(th[t])
<1>0. CountTypes /\ Types
  BY DEF IInv, Rest, CountedInv
<1>1. PICK l : l = th[t]
  OBVIOUS
<1>2. Behind(t) = ToSet(BehindIn(l))
  <2>1. ToSet(<<>>) = {}
    BY DEF ToSet
  <2> QED
    BY <1>1, <2>1 DEF Behind, BehindIn
<1>3. CASE l.pc \in Putting \cup {"getDone", "release"}
  <2>1. InHands(t) = {l.node}
    BY <1>1, <1>3 DEF InHands, Putting
  <2>2. Hands(l) = {l.node} \cup ToSet(BehindIn(l))
    BY <1>3 DEF Hands, Putting
  <2> QED
    BY <1>1, <1>2, <2>1, <2>2
<1>4. CASE ~ l.pc \in Putting \cup {"getDone", "release"}
  <2>1. BehindIn(l) = <<>>
    <3>1. CASE t \in Producer
      <4>1. l \in Enq
        BY <1>0, <1>1, <3>1 DEF Types
      <4>2. "then" \in DOMAIN l => l.then.pc # "giveUp"
        BY <1>4, <4>1 DEF Enq, CallAt, GetIn, GiveUps, PutIn, Putting, Idle
      <4> QED
        BY <4>2 DEF BehindIn
    <3>2. CASE t \in Consumer
      <4>1. Deq(l)
        BY <1>0, <1>1, <3>2 DEF Types
      <4>2. ConsumerAt(l)
        BY <1>0, <1>1, <3>2 DEF CountTypes
      <4>3. "then" \notin DOMAIN l
        BY <1>4, <4>2 DEF ConsumerAt, Asked, Resting, Moving, Claiming, Idle
      <4> QED
        BY <4>3 DEF BehindIn
    <3> QED
      BY <3>1, <3>2 DEF Thread
  <2>2. ToSet(<<>>) = {}
    BY DEF ToSet
  <2>3. CASE l.pc = "giveUp"
    <3>1. InHands(t) = ToSet(l.chain)
      BY <1>1, <2>3 DEF InHands
    <3>2. Hands(l) = ToSet(l.chain)
      BY <2>3 DEF Hands, Putting
    <3> QED
      BY <1>1, <1>2, <2>1, <2>2, <3>1, <3>2
  <2>4. CASE l.pc # "giveUp"
    <3>1. InHands(t) = {}
      BY <1>1, <1>4, <2>4 DEF InHands, Putting
    <3>2. Hands(l) = {}
      BY <1>4, <2>4 DEF Hands, Putting
    <3> QED
      BY <1>1, <1>2, <2>1, <2>2, <3>1, <3>2
  <2> QED
    BY <2>3, <2>4
<1> QED
  BY <1>3, <1>4

\* The places that PlacesOf counts are those of the invariant.
LEMMA PlacesAre ==
    ASSUME IInv, NEW b \in Block
    PROVE  \A z : z \in PlacesOf(b) <=>
              \/ z = "fresh" /\ Spot(b, "fresh", None, 0)
              \/ z = "free" /\ Spot(b, "free", None, 0)
              \/ z = "left" /\ Spot(b, "left", None, 0)
              \/ \E p, i : z = <<p, i>> /\ Spot(b, "index", p, i)
              \/ Spot(b, "hand", z, 0)
<1>1. \A t \in Thread : b \in InHands(t) \cup Behind(t) <=> b \in Hands(th[t])
  BY HandsNamed
<1> SUFFICES ASSUME NEW z
             PROVE  z \in PlacesOf(b) <=>
                       \/ z = "fresh" /\ Spot(b, "fresh", None, 0)
                       \/ z = "free" /\ Spot(b, "free", None, 0)
                       \/ z = "left" /\ Spot(b, "left", None, 0)
                       \/ \E p, i : z = <<p, i>> /\ Spot(b, "index", p, i)
                       \/ Spot(b, "hand", z, 0)
  OBVIOUS
<1>2. z \in {"fresh" : x \in fresh \cap {b}} <=> z = "fresh" /\ Spot(b, "fresh", None, 0)
  BY DEF Spot
<1>3. z \in {"free" : x \in FreeBlocks \cap {b}} <=> z = "free" /\ Spot(b, "free", None, 0)
  BY DEF Spot
<1>4. z \in {"left" : x \in {r \in {refs[b]} : r.should /\ r.n > 0}} <=> z = "left" /\ Spot(b, "left", None, 0)
  BY DEF Spot, LeftOver
<1>5. z \in UNION {{<<p, i>> : i \in {j \in DOMAIN entry[p] : entry[p][j].value = b}} : p \in Producer}
         <=> \E p, i : z = <<p, i>> /\ Spot(b, "index", p, i)
  BY DEF Spot
<1>6. z \in {t \in Thread : b \in InHands(t) \cup Behind(t)} <=> Spot(b, "hand", z, 0)
  BY <1>1 DEF Spot
<1>7. z \in PlacesOf(b) <=>
         \/ z \in {"fresh" : x \in fresh \cap {b}} \/ z \in {"free" : x \in FreeBlocks \cap {b}}
         \/ z \in {"left" : x \in {r \in {refs[b]} : r.should /\ r.n > 0}}
         \/ z \in UNION {{<<p, i>> : i \in {j \in DOMAIN entry[p] : entry[p][j].value = b}} : p \in Producer}
         \/ z \in {t \in Thread : b \in InHands(t) \cup Behind(t)}
  BY DEF PlacesOf
<1> QED
  BY <1>2, <1>3, <1>4, <1>5, <1>6, <1>7

\* Theorem: a block is never in two places and never lost: in the pool, on the free list, left
\* to the last reader of it, in one entry of one index, or in the hands of one thread
\* (concurrentqueue.h:1438-1517, 3050-3092).
THEOREM QueueOnePlace == Spec => []OnePlace
<1>1. IInv => OnePlace
  <2> SUFFICES ASSUME IInv, NEW b \in Block PROVE Cardinality(PlacesOf(b)) = 1
    BY DEF OnePlace
  <2>1. PICK kind, x, i : IsAt(b, kind, x, i)
    BY DEF Once, IInv, Rest, PlaceInv
  <2>2. Spot(b, kind, x, i) /\ \A other, y, j : Spot(b, other, y, j) => other = kind /\ y = x /\ j = i
    BY <2>1 DEF IsAt
  <2>3. \E z : PlacesOf(b) = {z}
    <3>1. CASE kind \in {"fresh", "free", "left"}
      <4>1. x = None /\ i = 0
        BY <2>2, <3>1 DEF Spot
      <4>2. \A z : z \in PlacesOf(b) <=> z = kind
        BY <2>2, <3>1, <4>1, PlacesAre
      <4> QED
        BY <4>2
    <3>2. CASE kind = "index"
      <4>1. \A z : z \in PlacesOf(b) <=> z = <<x, i>>
        BY <2>2, <3>2, PlacesAre
      <4>2. PICK w : w = <<x, i>>
        OBVIOUS
      <4>3. \A z : z \in PlacesOf(b) <=> z = w
        BY <4>1, <4>2
      <4> QED
        BY <4>3
    <3>3. CASE kind = "hand"
      <4>1. i = 0
        BY <2>2, <3>3 DEF Spot
      <4>2. \A z : z \in PlacesOf(b) <=> z = x
        BY <2>2, <3>3, <4>1, PlacesAre
      <4> QED
        BY <4>2
    <3> QED
      BY <2>2, <3>1, <3>2, <3>3 DEF Spot
  <2> QED
    BY <2>3, FS_Singleton
<1> QED
  BY <1>1, AlwaysIInv, PTL
=============================================================================
