--------------------------- MODULE CoroutineProofs ---------------------------
(***************************************************************************)
(* Proofs about Coroutine, for any threads, coroutines, stacks, sizes and  *)
(* bounds.  The conditions on how libaco is used are premises, not         *)
(* assumptions of the module: runs show what happens without them.         *)
(***************************************************************************)
EXTENDS Coroutine, TLAPS

\* Tasks are made by native code, one constructor at a time, and the coroutines that
\* may share a stack belong to one thread.
OneAtATime == ~ Overlap /\ ~ Nested /\ \A x, y \in LibThread : x = y

-----------------------------------------------------------------------------
(* Who executes what. *)

Place == Thread \cup Task \cup {None}
Life == {"absent", "unborn", "live", "freed"}
RegType == [stk : Place, fpu : BOOLEAN, sp : Nat, res : Task \cup {None}]
CoType == [life : Life, main : Main \cup {None}, end : BOOLEAN, age : Nat]

CoTypeOK ==
    /\ sched \in BOOLEAN /\ fpu \subseteq Thread
    /\ gco \in [Thread -> Task \cup Main \cup {None}]
    /\ at \in [Thread -> [stk : Place, fpu : BOOLEAN]]
    /\ reg \in [Task \cup Main -> RegType]
    /\ co \in [Task -> CoType]
    /\ ready \subseteq Task

\* The main coroutine whose registers thread x, which executes coroutine t, has saved.
MainOf(x, t) == IF t \notin Lib /\ co[t].age = 0 THEN Shared ELSE x

\* Who may execute t.
Runs(x, t) ==
    IF t \in Lib THEN x \in LibThread
    ELSE IF co[t].age = 0 THEN x \in Caller ELSE x \in Machine

\* x executes t, its thread-local pointer says so, and the way back leads to x's stack.
InOrder(x, t) ==
    /\ Runs(x, t)
    /\ gco[x] = t
    /\ co[t].main = MainOf(x, t)
    /\ reg[MainOf(x, t)].res = t
    /\ reg[MainOf(x, t)].stk = x
    /\ co[t].life = "live" /\ t \notin ready

CallInv ==
    /\ CoTypeOK
    /\ \A x \in Thread : at[x].stk \in {x} \cup Task
    /\ \A x \in Thread : at[x].stk \in Task => InOrder(x, at[x].stk)
    /\ \A x, y \in Thread : Constructing(x) /\ Constructing(y) => x = y
    /\ \A t \in ready : t \in Lib \/ co[t].age > 0
    /\ \A t \in Task : co[t].life = "unborn" => co[t].age = 0 /\ t \notin ready

LEMMA Names ==
    /\ Caller \cap Machine = {} /\ LibThread \cap (Caller \cup Machine) = {}
    /\ Thread \cap Task = {} /\ Main \cap Task = {} /\ Shared \notin Thread
    /\ None \notin Thread \cup Task \cup Main
BY NamesDiffer DEF Thread, Main

LEMMA InitCall == Init => CallInv
<1> SUFFICES ASSUME Init PROVE CallInv
  OBVIOUS
<1>1. CoTypeOK
  <2>1. [stk |-> None, fpu |-> FALSE, sp |-> 0, res |-> None] \in RegType
    BY DEF RegType, Place
  <2>2. reg \in [Task \cup Main -> RegType]
    BY <2>1 DEF Init
  <2>3. co \in [Task -> CoType]
    BY DEF Init, CoType, Life
  <2>4. at \in [Thread -> [stk : Place, fpu : BOOLEAN]]
    BY DEF Init, Place
  <2> QED
    BY <2>2, <2>3, <2>4 DEF Init, CoTypeOK
<1>2. \A x \in Thread : at[x].stk = x /\ x \notin Task
  BY Names DEF Init
<1>3. ready = {} /\ \A t \in Task : co[t].age = 0
  BY DEF Init
<1> QED
  BY <1>1, <1>2, <1>3 DEF CallInv, Constructing

\* Two threads do not execute one coroutine.
LEMMA OneThread ==
    ASSUME CallInv, NEW x \in Thread, NEW y \in Thread,
           at[x].stk \in Task, at[x].stk = at[y].stk
    PROVE  x = y
<1>1. InOrder(x, at[x].stk) /\ InOrder(y, at[x].stk)
  BY DEF CallInv
<1> QED
  BY <1>1 DEF InOrder, MainOf

\* Nor coroutines on one stack.
LEMMA OneOnStack ==
    ASSUME OneAtATime, CallInv, NEW x \in Thread, NEW y \in Thread,
           at[x].stk \in Task, at[y].stk \in Task, StackOf[at[x].stk] = StackOf[at[y].stk]
    PROVE  x = y
<1>1. InOrder(x, at[x].stk) /\ InOrder(y, at[y].stk)
  BY DEF CallInv
<1>2. CASE at[x].stk = at[y].stk
  BY <1>2, OneThread
<1>3. CASE at[x].stk # at[y].stk
  <2>1. at[x].stk \in Lib /\ at[y].stk \in Lib
    BY <1>3, OwnStacks
  <2> QED
    BY <1>1, <2>1 DEF InOrder, Runs, OneAtATime
<1> QED
  BY <1>2, <1>3

-----------------------------------------------------------------------------
(* What the actions do. *)

\* Thread x, which executes t, goes back to its own stack.
Leaves(x, t, depth) ==
    LET main == MainOf(x, t)
    IN /\ at[x].stk = t
       /\ at' = [at EXCEPT ![x] = [stk |-> x, fpu |-> reg[main].fpu]]
       /\ gco' = [gco EXCEPT ![x] = main]
       /\ reg' = [reg EXCEPT ![t] = [stk |-> t, fpu |-> at[x].fpu, sp |-> depth, res |-> None]]
       /\ UNCHANGED <<sched, fpu, save, abort>>

Worked(t, depth) ==
    [stack EXCEPT ![StackOf[t]].words = [i \in Words |-> IF i <= depth THEN <<t, co[t].age + 1>> ELSE @[i]]]

LEMMA YieldDoes ==
    ASSUME CallInv, NEW x \in Thread, Yield(x)
    PROVE  \E t \in Task, depth \in Depths :
              /\ Leaves(x, t, depth)
              /\ co' = [co EXCEPT ![t].age = @ + 1]
              /\ stack' = Worked(t, depth)
              /\ ready' = IF co[t].end THEN ready ELSE ready \cup {t}
<1> DEFINE t == at[x].stk
<1>1. t \in Task /\ InOrder(x, t)
  BY DEF Yield, InCoroutine, CallInv
<1>2. gco[x] = t
  BY <1>1 DEF InOrder
<1>3. PICK depth \in Depths :
        /\ co' = [co EXCEPT ![t].age = @ + 1]
        /\ stack' = [stack EXCEPT ![StackOf[t]].words =
              [i \in Words |-> IF i <= depth THEN <<t, co[t].age + 1>> ELSE @[i]]]
        /\ Land(x, co[t].main)
        /\ reg' = Leave(x, t, depth)
        /\ UNCHANGED <<sched, fpu, save, abort>>
  BY <1>1, <1>2 DEF Yield
<1>4. co[t].main = MainOf(x, t) /\ reg[MainOf(x, t)].res = t /\ reg[MainOf(x, t)].stk = x
  BY <1>1 DEF InOrder
<1>5. co'[t].end = co[t].end
  BY <1>1, <1>3 DEF CallInv, CoTypeOK, CoType
<1>6. /\ at' = [at EXCEPT ![x] = [stk |-> x, fpu |-> reg[MainOf(x, t)].fpu]]
      /\ gco' = [gco EXCEPT ![x] = MainOf(x, t)]
      /\ ready' = IF co[t].end THEN ready ELSE ready \cup {t}
  BY <1>3, <1>4, <1>5 DEF Land
<1> QED
  BY <1>1, <1>3, <1>6 DEF Leaves, Leave, Worked

LEMMA ExitDoes ==
    ASSUME CallInv, NEW x \in Thread, Exit(x)
    PROVE  \E t \in Task :
              \/ at[x].stk = t /\ stack[StackOf[t]].owner # t /\ Abort("co")
              \/ /\ Leaves(x, t, 1)
                 /\ stack[StackOf[t]].owner = t
                 /\ co[t].age > 0 /\ co' = [co EXCEPT ![t].end = TRUE]
                 /\ stack' = [stack EXCEPT ![StackOf[t]].owner = None]
                 /\ UNCHANGED ready
<1> DEFINE t == at[x].stk
<1>1. t \in Task /\ InOrder(x, t)
  BY DEF Exit, InCoroutine, CallInv
<1>2. gco[x] = t
  BY <1>1 DEF InOrder
<1>3. CASE stack[StackOf[t]].owner # t
  BY <1>1, <1>2, <1>3 DEF Exit
<1>4. CASE stack[StackOf[t]].owner = t
  <2>1. /\ co' = [co EXCEPT ![t].end = TRUE]
        /\ stack' = [stack EXCEPT ![StackOf[t]].owner = None]
        /\ Land(x, co[t].main)
        /\ reg' = Leave(x, t, 1)
        /\ UNCHANGED <<sched, fpu, save, abort>>
    BY <1>1, <1>2, <1>4 DEF Exit, OwnerGone
  <2>2. co[t].main = MainOf(x, t) /\ reg[MainOf(x, t)].res = t /\ reg[MainOf(x, t)].stk = x
    BY <1>1 DEF InOrder
  <2>3. co'[t].end
    BY <1>1, <2>1 DEF CallInv, CoTypeOK, CoType
  <2>4. /\ at' = [at EXCEPT ![x] = [stk |-> x, fpu |-> reg[MainOf(x, t)].fpu]]
        /\ gco' = [gco EXCEPT ![x] = MainOf(x, t)]
        /\ ready' = ready
    BY <2>1, <2>2, <2>3 DEF Land
  <2> QED
    BY <1>1, <1>4, <2>1, <2>4 DEF Leaves, Leave, Exit
<1> QED
  BY <1>3, <1>4

\* Native thread x resumes t, which takes its stack.
Enters(x, t, word, area) ==
    LET main == MainOf(x, t)
    IN /\ at[x].stk = x /\ Fits(t, area) /\ TakeStack(t, area)
       /\ at' = [at EXCEPT ![x] = [stk |-> t, fpu |-> word]]
       /\ gco' = [gco EXCEPT ![x] = t]
       /\ reg' = [reg EXCEPT ![main] = [stk |-> x, fpu |-> at[x].fpu, sp |-> 0, res |-> t]]
       /\ co' = [co EXCEPT ![t].main = main, ![t].life = "live"]
       /\ ready' = ready \ {t}
       /\ UNCHANGED <<sched, fpu, abort>>
       /\ Runs(x, t) /\ word \in BOOLEAN
       /\ t \in Lib \/ co[t].age > 0 \/ \A y \in Thread : ~ Constructing(y)

LEMMA ConstructDoes ==
    ASSUME OneAtATime, CallInv, NEW x \in Thread, NEW t \in Task, Construct(x, t)
    PROVE  /\ at[x].stk = x /\ co[t].life = "unborn"
           /\ \/ \E area \in Areas(t) : ~ Fits(t, area) /\ Abort("co")
              \/ \E area \in Areas(t) : Enters(x, t, x \in fpu, area)
           /\ t \in Lib => x \in fpu
           /\ t \notin Lib => sched /\ x \in Caller
<1>1. co[t].life = "unborn" /\ co[t].age = 0
  BY DEF Construct, CallInv
<1>2. /\ IF t \in Lib THEN x \in LibThread /\ x \in fpu
         ELSE sched /\ x \in Caller /\ \A y \in Thread : ~ Constructing(y)
      /\ at[x].stk = x
  BY DEF Construct, MayConstruct, Native, OneAtATime
<1>3. Runs(x, t) /\ MainOf(x, t) = IF t \in Lib THEN x ELSE Shared
  BY <1>1, <1>2 DEF Runs, MainOf
<1>4. (x \in fpu) \in BOOLEAN
  OBVIOUS
<1>5. ASSUME NEW area \in Areas(t), Fits(t, area), TakeStack(t, area),
             SwitchTo(x, t, IF t \in Lib THEN x ELSE Shared, x \in fpu),
             UNCHANGED <<sched, fpu, abort>>
      PROVE  Enters(x, t, x \in fpu, area)
  BY <1>2, <1>3, <1>4, <1>5, Zenon DEF SwitchTo, Enters
<1>6. \E area \in Areas(t) : \/ ~ Fits(t, area) /\ Abort("co")
                             \/ /\ Fits(t, area) /\ TakeStack(t, area)
                                /\ SwitchTo(x, t, IF t \in Lib THEN x ELSE Shared, x \in fpu)
                                /\ UNCHANGED <<sched, fpu, abort>>
  BY DEF Construct
<1> QED
  BY <1>1, <1>2, <1>5, <1>6

LEMMA RunDoes ==
    ASSUME CallInv, NEW x \in Thread, NEW t \in Task, Run(x, t)
    PROVE  LET area == stack[StackOf[t]].area
           IN /\ at[x].stk = x /\ t \in ready
              /\ (~ Fits(t, area) /\ Abort("co")) \/ Enters(x, t, reg[t].fpu, area)
<1>1. /\ at[x].stk = x /\ t \in ready /\ (t \in Lib \/ co[t].age > 0)
      /\ IF t \in Lib THEN x \in LibThread ELSE x \in Machine
  BY DEF Run, Native, CallInv
<1>2. Runs(x, t) /\ MainOf(x, t) = x /\ reg[t].fpu \in BOOLEAN
  BY <1>1 DEF Runs, MainOf, CallInv, CoTypeOK, CoType, RegType
<1>3. \/ ~ Fits(t, stack[StackOf[t]].area) /\ Abort("co")
      \/ /\ Fits(t, stack[StackOf[t]].area)
         /\ TakeStack(t, stack[StackOf[t]].area) /\ SwitchTo(x, t, x, reg[t].fpu)
         /\ UNCHANGED <<sched, fpu, abort>>
  BY DEF Run, MainOfThread
<1> QED
  BY <1>1, <1>2, <1>3, Zenon DEF SwitchTo, Enters

LEMMA NotTask ==
    ASSUME CallInv, NEW x \in Thread
    PROVE  at[x].stk = x => at[x].stk \notin Task
BY Names

\* Whoever executes is left alone by what another thread does.
LEMMA Undisturbed ==
    ASSUME CallInv, NEW y \in Thread, at[y].stk \in Task, NEW u \in Task, at[y].stk = u,
           at'[y] = at[y], gco'[y] = gco[y], co'[u] = co[u],
           reg'[MainOf(y, u)] = reg[MainOf(y, u)], u \notin ready'
    PROVE  InOrder(y, u)'
<1>1. InOrder(y, u)
  BY DEF CallInv
<1> QED
  BY <1>1 DEF InOrder, MainOf, Runs

LEMMA Mains ==
    ASSUME CallInv, NEW x \in Thread, NEW t \in Task, Runs(x, t)
    PROVE  MainOf(x, t) \in Main
BY DEF Runs, MainOf, Main, CallInv, CoTypeOK, CoType

LEMMA LeaveKeepsCall ==
    ASSUME CallInv, NEW x \in Thread, NEW t \in Task, NEW depth \in Nat, Leaves(x, t, depth),
           \/ co' = [co EXCEPT ![t].age = @ + 1] /\ ready' \in {ready, ready \cup {t}}
           \/ co' = [co EXCEPT ![t].end = TRUE] /\ ready' = ready
    PROVE  CallInv'
<1>1. t = at[x].stk /\ InOrder(x, t)
  BY DEF Leaves, CallInv
<1>2. MainOf(x, t) \in Main
  BY <1>1, Mains DEF InOrder
<1>3. /\ co[t] \in CoType /\ co'[t] \in CoType /\ co'[t].age >= co[t].age
      /\ co'[t].life = "live" /\ co' \in [Task -> CoType]
      /\ ready' # ready => co'[t].age > 0
      /\ \A u \in Task \ {t} : co'[u] = co[u]
  <2>1. co[t] \in CoType /\ co[t].life = "live" /\ t \notin ready
    BY <1>1 DEF CallInv, CoTypeOK, InOrder
  <2>2. /\ co'[t] \in CoType /\ co'[t].age >= co[t].age /\ co'[t].life = "live"
        /\ ready' # ready => co'[t].age > 0
    <3>1. CASE co' = [co EXCEPT ![t].age = @ + 1]
      <4>1. co'[t] = [co[t] EXCEPT !.age = co[t].age + 1]
        BY <3>1 DEF CallInv, CoTypeOK
      <4> QED
        BY <2>1, <4>1 DEF CoType
    <3>2. CASE co' = [co EXCEPT ![t].end = TRUE] /\ ready' = ready
      <4>1. co'[t] = [co[t] EXCEPT !.end = TRUE]
        BY <3>2 DEF CallInv, CoTypeOK
      <4>2. co'[t].age = co[t].age /\ co'[t].life = "live"
        BY <2>1, <4>1 DEF CoType
      <4>3. co'[t] \in CoType
        BY <2>1, <4>1 DEF CoType
      <4>4. co[t].age \in Nat
        BY <2>1 DEF CoType
      <4> QED
        BY <3>2, <4>2, <4>3, <4>4
    <3> QED
      BY <3>1, <3>2
  <2> QED
    BY <2>1, <2>2 DEF CallInv, CoTypeOK
<1>4. CoTypeOK'
  <2>1. reg[MainOf(x, t)].fpu \in BOOLEAN /\ at[x].fpu \in BOOLEAN
    BY <1>2 DEF CallInv, CoTypeOK, RegType
  <2>2. [stk |-> t, fpu |-> at[x].fpu, sp |-> depth, res |-> None] \in RegType
    BY <2>1 DEF RegType, Place
  <2>3. reg' \in [Task \cup Main -> RegType]
    BY <2>2 DEF Leaves, CallInv, CoTypeOK
  <2>4. at' \in [Thread -> [stk : Place, fpu : BOOLEAN]]
    BY <2>1 DEF Leaves, CallInv, CoTypeOK, Place
  <2>5. gco' \in [Thread -> Task \cup Main \cup {None}]
    BY <1>2 DEF Leaves, CallInv, CoTypeOK
  <2> QED
    BY <1>3, <2>3, <2>4, <2>5 DEF Leaves, CallInv, CoTypeOK
<1>5. /\ at'[x].stk = x /\ x \notin Task
      /\ \A y \in Thread \ {x} : at'[y] = at[y] /\ gco'[y] = gco[y]
      /\ \A k \in Main : reg'[k] = reg[k]
  BY Names DEF Leaves, CallInv, CoTypeOK
<1>6. ASSUME NEW y \in Thread \ {x}, at[y].stk \in Task
      PROVE  at[y].stk # t /\ InOrder(y, at[y].stk)'
  <2>1. at[y].stk # t
    BY <1>1, <1>6, OneThread
  <2>2. MainOf(y, at[y].stk) \in Main /\ at[y].stk \notin ready
    BY <1>6, Mains DEF CallInv, InOrder
  <2> QED
    BY <1>3, <1>5, <1>6, <2>1, <2>2, Undisturbed
<1>7. \A y \in Thread : Constructing(y)' => Constructing(y) /\ y # x
  BY <1>3, <1>5, <1>6 DEF Constructing
<1>8. \A u \in ready' : u \in Lib \/ co'[u].age > 0
  <2>1. \A u \in Task : co[u].age \in Nat /\ co'[u].age \in Nat
    BY <1>3 DEF CallInv, CoTypeOK, CoType
  <2>2. \A u \in ready' \ {t} : u \in ready /\ co'[u].age = co[u].age
    BY <1>3 DEF CallInv, CoTypeOK
  <2>3. t \notin ready
    BY <1>1 DEF InOrder
  <2> QED
    BY <1>3, <2>1, <2>2, <2>3 DEF CallInv
<1>9. \A u \in Task : co'[u].life = "unborn" => co'[u].age = 0 /\ u \notin ready'
  BY <1>3 DEF CallInv
<1> QED
  BY <1>4, <1>5, <1>6, <1>7, <1>8, <1>9 DEF CallInv

LEMMA EnterKeepsCall ==
    ASSUME CallInv, NEW x \in Thread, NEW t \in Task, NEW word, NEW area,
           Enters(x, t, word, area), co[t].life = "unborn" \/ t \in ready
    PROVE  CallInv'
<1> DEFINE main == MainOf(x, t)
<1>1. main \in Main /\ Runs(x, t) /\ x \notin Task
  BY Mains, Names DEF Enters
<1>2. /\ co' = [co EXCEPT ![t].main = main, ![t].life = "live"]
      /\ at'[x] = [stk |-> t, fpu |-> word] /\ gco'[x] = t
      /\ reg'[main] = [stk |-> x, fpu |-> at[x].fpu, sp |-> 0, res |-> t]
      /\ \A y \in Thread \ {x} : at'[y] = at[y] /\ gco'[y] = gco[y]
      /\ \A k \in Main \ {main} : reg'[k] = reg[k]
      /\ ready' = ready \ {t}
  BY <1>1 DEF Enters, CallInv, CoTypeOK
<1>3. /\ co'[t] \in CoType /\ co'[t].age = co[t].age /\ co'[t].main = main
      /\ co'[t].life = "live" /\ co' \in [Task -> CoType]
      /\ \A u \in Task \ {t} : co'[u] = co[u]
  <2>1. co'[t] = [co[t] EXCEPT !.main = main, !.life = "live"] /\ co[t] \in CoType
    BY <1>2 DEF CallInv, CoTypeOK
  <2>2. co'[t] \in CoType /\ co'[t].age = co[t].age /\ co'[t].main = main /\ co'[t].life = "live"
    BY <1>1, <2>1 DEF CoType, Life
  <2> QED
    BY <1>2, <2>2 DEF CallInv, CoTypeOK
<1>4. CoTypeOK'
  <2>1. word \in BOOLEAN /\ at[x].fpu \in BOOLEAN
    BY DEF Enters, CallInv, CoTypeOK
  <2>2. [stk |-> x, fpu |-> at[x].fpu, sp |-> 0, res |-> t] \in RegType
    BY <2>1 DEF RegType, Place
  <2>3. reg' \in [Task \cup Main -> RegType]
    BY <2>2 DEF Enters, CallInv, CoTypeOK
  <2>4. at' \in [Thread -> [stk : Place, fpu : BOOLEAN]]
    BY <2>1 DEF Enters, CallInv, CoTypeOK, Place
  <2>5. gco' \in [Thread -> Task \cup Main \cup {None}]
    BY DEF Enters, CallInv, CoTypeOK
  <2> QED
    BY <1>2, <1>3, <2>3, <2>4, <2>5 DEF Enters, CallInv, CoTypeOK
<1>5. InOrder(x, t)'
  <2>1. MainOf(x, t)' = main /\ Runs(x, t)'
    BY <1>1, <1>3 DEF MainOf, Runs
  <2> QED
    BY <1>2, <1>3, <2>1 DEF InOrder
<1>6. ASSUME NEW y \in Thread \ {x}, at[y].stk \in Task
      PROVE  at[y].stk # t /\ InOrder(y, at[y].stk)'
  <2>1. InOrder(y, at[y].stk)
    BY <1>6 DEF CallInv
  <2>2. at[y].stk # t
    BY <2>1 DEF InOrder
  <2>3. MainOf(y, at[y].stk) \in Main
    BY <1>6, <2>1, Mains DEF InOrder
  <2>4. MainOf(y, at[y].stk) # main
    <3>1. CASE t \in Lib \/ co[t].age > 0
      <4>1. main = x /\ x # Shared
        BY <3>1, Names DEF MainOf
      <4> QED
        BY <4>1 DEF MainOf
    <3>2. CASE ~ Constructing(y)
      <4>1. MainOf(y, at[y].stk) = y /\ y # Shared
        BY <1>6, <3>2, Names DEF MainOf, Constructing
      <4> QED
        BY <4>1 DEF MainOf
    <3> QED
      BY <3>1, <3>2 DEF Enters
  <2> QED
    BY <1>2, <1>3, <1>6, <2>1, <2>2, <2>3, <2>4, Undisturbed DEF InOrder
<1>7. \A y \in Thread \ {x} : Constructing(y)' <=> Constructing(y)
  BY <1>2, <1>3, <1>6 DEF Constructing
<1>8. Constructing(x)' => \A y \in Thread \ {x} : ~ Constructing(y)
  <2>1. co[t].age \in Nat
    BY DEF CallInv, CoTypeOK, CoType
  <2> QED
    BY <1>2, <1>3, <2>1 DEF Constructing, Enters
<1>9. /\ \A u \in ready' : u \in Lib \/ co'[u].age > 0
      /\ \A u \in Task : co'[u].life = "unborn" => co'[u].age = 0 /\ u \notin ready'
  BY <1>2, <1>3 DEF CallInv, CoTypeOK
<1>10. \A y \in Thread : at'[y].stk \in {y} \cup Task
  BY <1>2 DEF CallInv
<1>11. \A y, z \in Thread : Constructing(y)' /\ Constructing(z)' => y = z
  BY <1>7, <1>8 DEF CallInv
<1>12. ASSUME NEW y \in Thread, at'[y].stk \in Task PROVE InOrder(y, at[y].stk)'
  <2>1. CASE y = x
    <3>1. at'[y].stk = t
      BY <1>2, <2>1
    <3> QED
      BY <1>5, <2>1, <3>1 DEF InOrder
  <2>2. CASE y # x
    BY <1>2, <1>6, <1>12, <2>2
  <2> QED
    BY <2>1, <2>2
<1> QED
  BY <1>4, <1>9, <1>10, <1>11, <1>12 DEF CallInv

LEMMA SameKeepsCall ==
    ASSUME CallInv, UNCHANGED <<gco, at, reg, co, ready>>, sched' \in BOOLEAN,
           fpu' \subseteq Thread
    PROVE  CallInv'
<1>1. CoTypeOK'
  BY DEF CallInv, CoTypeOK
<1>2. \A x \in Thread : (Constructing(x)' <=> Constructing(x))
  BY DEF Constructing
<1>3. ASSUME NEW x \in Thread, at'[x].stk \in Task PROVE InOrder(x, at[x].stk)'
  BY <1>3 DEF CallInv, InOrder, MainOf, Runs
<1> QED
  BY <1>1, <1>2, <1>3 DEF CallInv

LEMMA DestroyKeepsCall ==
    ASSUME OneAtATime, CallInv, NEW x \in Thread, NEW t \in Task, Destroy(x, t)
    PROVE  CallInv' /\ \A y \in Thread : at[y].stk # t
<1>1. ASSUME NEW y \in Thread, at[y].stk \in Task PROVE at[y].stk # t
  <2>1. at[x].stk = x /\ x \in LibThread /\ t \in Lib
    BY DEF Destroy, Native
  <2>2. Runs(y, at[y].stk)
    BY <1>1 DEF CallInv, InOrder
  <2>3. at[y].stk = t => y = x
    BY <2>1, <2>2 DEF Runs, OneAtATime
  <2> QED
    BY <1>1, <2>1, <2>3, Names
<1>2. /\ co' = [co EXCEPT ![t].life = "freed"] /\ ready' = ready \ {t}
      /\ UNCHANGED <<sched, fpu, gco, at, reg>>
  BY DEF Destroy
<1>3. co' \in [Task -> CoType] /\ co'[t].life = "freed" /\ co'[t].age = co[t].age
  <2>1. co'[t] = [co[t] EXCEPT !.life = "freed"] /\ co[t] \in CoType
    BY <1>2 DEF CallInv, CoTypeOK
  <2> QED
    BY <1>2, <2>1 DEF CallInv, CoTypeOK, CoType, Life
<1>4. \A u \in Task \ {t} : co'[u] = co[u]
  BY <1>2 DEF CallInv, CoTypeOK
<1>5. CoTypeOK'
  BY <1>2, <1>3 DEF CallInv, CoTypeOK
<1>6. ASSUME NEW y \in Thread, at'[y].stk \in Task PROVE InOrder(y, at[y].stk)'
  <2>1. at[y].stk # t /\ at[y].stk \in Task /\ InOrder(y, at[y].stk)
    BY <1>1, <1>2, <1>6 DEF CallInv
  <2> QED
    BY <1>2, <1>4, <1>6, <2>1, Undisturbed DEF InOrder
<1>7. \A y \in Thread : Constructing(y)' <=> Constructing(y)
  BY <1>1, <1>2, <1>4 DEF Constructing
<1>8. /\ \A u \in ready' : u \in Lib \/ co'[u].age > 0
      /\ \A u \in Task : co'[u].life = "unborn" => co'[u].age = 0 /\ u \notin ready'
  BY <1>2, <1>3, <1>4 DEF CallInv
<1> QED
  BY <1>1, <1>2, <1>5, <1>6, <1>7, <1>8, Names DEF CallInv

\* A step of the whole, in the words of the lemmas above.
Stays == UNCHANGED <<gco, at, reg, co, stack, save, ready>>

Inits ==
    /\ Stays /\ UNCHANGED abort
    /\ sched' \in BOOLEAN /\ fpu' \subseteq Thread /\ fpu \subseteq fpu'
    /\ sched' = sched \/ \E x \in Caller : x \in fpu'

TooLargeStep == Stays /\ UNCHANGED <<sched, fpu>> /\ abort' = "size"

Yielded(x, t, depth) ==
    /\ Leaves(x, t, depth)
    /\ co' = [co EXCEPT ![t].age = @ + 1]
    /\ stack' = Worked(t, depth)
    /\ ready' = IF co[t].end THEN ready ELSE ready \cup {t}

Exited(x, t) ==
    /\ Leaves(x, t, 1)
    /\ stack[StackOf[t]].owner = t
    /\ co[t].age > 0 /\ co' = [co EXCEPT ![t].end = TRUE]
    /\ stack' = [stack EXCEPT ![StackOf[t]].owner = None]
    /\ UNCHANGED ready

Constructed(x, t, area) ==
    /\ co[t].life = "unborn" /\ area \in Areas(t)
    /\ Enters(x, t, x \in fpu, area)
    /\ t \in Lib => x \in fpu
    /\ t \notin Lib => sched /\ x \in Caller

Resumed(x, t) == t \in ready /\ Enters(x, t, reg[t].fpu, stack[StackOf[t]].area)

Asserts(x, t) ==
    /\ Abort("co")
    /\ \/ at[x].stk = t /\ stack[StackOf[t]].owner # t
       \/ co[t].life = "unborn" /\ \E area \in Areas(t) : ~ Fits(t, area)
       \/ t \in ready /\ ~ Fits(t, stack[StackOf[t]].area)

LEMMA StepDoes ==
    ASSUME OneAtATime, CallInv, [Next]_vars
    PROVE  \/ Inits \/ TooLargeStep
           \/ \E x \in Thread, t \in Task :
                \/ Exited(x, t) \/ Resumed(x, t) \/ Destroy(x, t) \/ Asserts(x, t)
                \/ \E depth \in Depths : Yielded(x, t, depth)
                \/ \E area \in Areas(t) : Constructed(x, t, area)
           \/ \E x \in Thread, s \in Stack : DestroyStack(x, s)
<1>1. ASSUME NEW x \in Caller, FirstGo(x) PROVE Inits
  BY <1>1 DEF FirstGo, Inited, Inits, Stays, CallInv, CoTypeOK, Thread
<1>2. ASSUME NEW x \in Machine \cup LibThread, ThreadInit(x) PROVE Inits
  BY <1>2 DEF ThreadInit, Inits, Stays, CallInv, CoTypeOK, Thread
<1>3. CASE UNCHANGED vars
  BY <1>3 DEF vars, Inits, Stays, CallInv, CoTypeOK
<1>4. CASE Over
  BY <1>3, <1>4 DEF Over
<1>5. ASSUME NEW x \in Thread, NEW t \in Task, NewTooLarge(x, t) PROVE TooLargeStep
  BY <1>5 DEF NewTooLarge, Abort, TooLargeStep, Stays
<1>6. ASSUME NEW x \in Thread, Yield(x)
      PROVE  \E t \in Task, depth \in Depths : Yielded(x, t, depth)
  BY <1>6, YieldDoes DEF Yielded
<1>7. ASSUME NEW x \in Thread, Exit(x) PROVE \E t \in Task : Exited(x, t) \/ Asserts(x, t)
  BY <1>7, ExitDoes DEF Exited, Asserts
<1>8. ASSUME NEW x \in Thread, NEW t \in Task, Construct(x, t)
      PROVE  Asserts(x, t) \/ \E area \in Areas(t) : Constructed(x, t, area)
  BY <1>8, ConstructDoes DEF Constructed, Asserts
<1>9. ASSUME NEW x \in Thread, NEW t \in Task, Run(x, t) PROVE Asserts(x, t) \/ Resumed(x, t)
  BY <1>9, RunDoes DEF Resumed, Asserts
<1> QED
  BY <1>1, <1>2, <1>3, <1>4, <1>5, <1>6, <1>7, <1>8, <1>9 DEF Next

LEMMA StepCall ==
    ASSUME OneAtATime, CallInv, [Next]_vars
    PROVE  CallInv'
<1>1. CASE Inits \/ TooLargeStep
  BY <1>1, SameKeepsCall DEF Inits, TooLargeStep, Stays, CallInv, CoTypeOK
<1>2. ASSUME NEW x \in Thread, NEW t \in Task, NEW depth \in Depths, Yielded(x, t, depth)
      PROVE  CallInv'
  <2>1. depth \in Nat
    BY BoundAssumption
  <2> QED
    BY <1>2, <2>1, LeaveKeepsCall DEF Yielded
<1>3. ASSUME NEW x \in Thread, NEW t \in Task, Exited(x, t) PROVE CallInv'
  BY <1>3, LeaveKeepsCall DEF Exited
<1>4. ASSUME NEW x \in Thread, NEW t \in Task, NEW area, Constructed(x, t, area) PROVE CallInv'
  BY <1>4, EnterKeepsCall DEF Constructed
<1>5. ASSUME NEW x \in Thread, NEW t \in Task, Resumed(x, t) PROVE CallInv'
  BY <1>5, EnterKeepsCall DEF Resumed
<1>6. ASSUME NEW x \in Thread, NEW t \in Task, Asserts(x, t) PROVE CallInv'
  BY <1>6, SameKeepsCall DEF Asserts, Abort, CallInv, CoTypeOK
<1>7. ASSUME NEW x \in Thread, NEW s \in Stack, DestroyStack(x, s) PROVE CallInv'
  BY <1>7, SameKeepsCall DEF DestroyStack, CallInv, CoTypeOK
<1> QED
  BY <1>1, <1>2, <1>3, <1>4, <1>5, <1>6, <1>7, StepDoes, DestroyKeepsCall

\* No two threads execute on one stack, and outside coroutines each thread is on its
\* own: acosw takes a thread back to its own aco_resume, although _co and the tasks go
\* from thread to thread (aco.c:380-493, aco.h:190-203, task.cpp:17-35).
THEOREM OwnStackAlways == OneAtATime => (Spec => []OwnStack)
<1> SUFFICES ASSUME OneAtATime PROVE Spec => []OwnStack
  OBVIOUS
<1>1. Init => CallInv
  BY InitCall
<1>2. CallInv /\ [Next]_vars => CallInv'
  BY StepCall
<1>3. CallInv => OwnStack
  BY OneOnStack DEF CallInv, OwnStack
<1> QED
  BY <1>1, <1>2, <1>3, PTL DEF Spec

-----------------------------------------------------------------------------
(* The FPU words. *)

\* go() is called on one thread that is not a machine's.
OneCaller == \A x, y \in Caller : x = y

\* Whatever x can go back to has the words of a thread that has set them.
FpuInv ==
    /\ sched => \A x \in Caller : x \in fpu
    /\ \A x \in Thread : at[x].fpu
    /\ \A x \in Thread : at[x].stk \in Task => reg[MainOf(x, at[x].stk)].fpu
    /\ \A t \in ready : reg[t].fpu

LEMMA StepFpu ==
    ASSUME OneAtATime, OneCaller, CallInv, FpuInv, [Next]_vars
    PROVE  FpuInv'
<1>1. CASE Inits \/ TooLargeStep
  <2>1. UNCHANGED <<at, reg, co, ready>>
    BY <1>1 DEF Inits, TooLargeStep, Stays
  <2>2. sched' => \A x \in Caller : x \in fpu'
    BY <1>1 DEF Inits, TooLargeStep, OneCaller, FpuInv
  <2> QED
    BY <2>1, <2>2 DEF FpuInv, MainOf
<1>2. ASSUME NEW x \in Thread, NEW t \in Task, NEW depth, Leaves(x, t, depth),
             ready' \subseteq ready \cup {t},
             \A u \in Task \ {t} : co'[u] = co[u]
      PROVE  FpuInv'
  <2>1. InOrder(x, t) /\ at[x].stk = t
    BY <1>2 DEF CallInv, Leaves
  <2>2. /\ at'[x].fpu = reg[MainOf(x, t)].fpu /\ at'[x].stk = x /\ x \notin Task
        /\ \A y \in Thread \ {x} : at'[y] = at[y]
        /\ \A k \in (Task \cup Main) \ {t} : reg'[k] = reg[k]
        /\ reg'[t].fpu = at[x].fpu
        /\ UNCHANGED <<sched, fpu>>
    BY <1>2, Names DEF Leaves, CallInv, CoTypeOK
  <2>3. ASSUME NEW y \in Thread, at'[y].stk \in Task PROVE reg'[MainOf(y, at[y].stk)'].fpu
    <3>1. y # x /\ at[y].stk # t /\ at[y].stk \in Task
      BY <2>1, <2>2, <2>3, OneThread
    <3>2. MainOf(y, at[y].stk) \in Main
      BY <3>1, Mains DEF CallInv, InOrder
    <3>3. MainOf(y, at[y].stk)' = MainOf(y, at[y].stk)
      BY <1>2, <2>2, <3>1 DEF MainOf
    <3> QED
      BY <2>2, <3>1, <3>2, <3>3, Names DEF FpuInv
  <2>4. \A y \in Thread : at'[y].fpu
    BY <2>1, <2>2 DEF FpuInv
  <2>5. \A u \in ready' : reg'[u].fpu
    BY <1>2, <2>2 DEF FpuInv, CallInv, CoTypeOK
  <2> QED
    BY <2>2, <2>3, <2>4, <2>5 DEF FpuInv
<1>3. ASSUME NEW x \in Thread, NEW t \in Task, NEW word, NEW area, word,
             Enters(x, t, word, area), co[t].life = "unborn" \/ t \in ready
      PROVE  FpuInv'
  <2>1. MainOf(x, t) \in Main
    BY <1>3, Mains DEF Enters
  <2>2. /\ at'[x].fpu = word /\ at'[x].stk = t
        /\ \A y \in Thread \ {x} : at'[y] = at[y]
        /\ \A k \in (Task \cup Main) \ {MainOf(x, t)} : reg'[k] = reg[k]
        /\ reg'[MainOf(x, t)].fpu = at[x].fpu
        /\ ready' = ready \ {t} /\ UNCHANGED <<sched, fpu>>
    BY <1>3, <2>1 DEF Enters, CallInv, CoTypeOK
  <2>3. \A u \in Task : co'[u].age = co[u].age
    BY <1>3 DEF Enters, CallInv, CoTypeOK, CoType
  <2>4. ASSUME NEW y \in Thread, at'[y].stk \in Task PROVE reg'[MainOf(y, at[y].stk)'].fpu
    <3>1. MainOf(y, at[y].stk)' = MainOf(y, at'[y].stk)
      BY <2>3, <2>4 DEF MainOf
    <3>2. CASE y = x
      BY <2>2, <3>1, <3>2 DEF FpuInv
    <3>3. CASE y # x
      <4>1. MainOf(y, at[y].stk) \in Main /\ reg[MainOf(y, at[y].stk)].fpu
        BY <2>2, <2>4, <3>3, Mains DEF CallInv, InOrder, FpuInv
      <4> QED
        BY <2>2, <3>1, <3>3, <4>1 DEF FpuInv
    <3> QED
      BY <3>2, <3>3
  <2>5. \A u \in ready' : reg'[u].fpu
    BY <2>1, <2>2, Names DEF FpuInv, CallInv, CoTypeOK
  <2> QED
    BY <1>3, <2>2, <2>4, <2>5 DEF FpuInv
<1>4. ASSUME NEW x \in Thread, NEW t \in Task, NEW depth \in Depths, Yielded(x, t, depth)
      PROVE  FpuInv'
  BY <1>2, <1>4 DEF Yielded, CallInv, CoTypeOK
<1>5. ASSUME NEW x \in Thread, NEW t \in Task, Exited(x, t) PROVE FpuInv'
  BY <1>2, <1>5 DEF Exited, CallInv, CoTypeOK
<1>6. ASSUME NEW x \in Thread, NEW t \in Task, NEW area, Constructed(x, t, area) PROVE FpuInv'
  <2>1. x \in fpu
    BY <1>6 DEF Constructed, FpuInv
  <2> QED
    BY <1>3, <1>6, <2>1 DEF Constructed
<1>7. ASSUME NEW x \in Thread, NEW t \in Task, Resumed(x, t) PROVE FpuInv'
  BY <1>3, <1>7 DEF Resumed, FpuInv
<1>8. ASSUME NEW x \in Thread, NEW t \in Task, Asserts(x, t) PROVE FpuInv'
  BY <1>8 DEF Asserts, Abort, FpuInv, MainOf
<1>9. ASSUME NEW x \in Thread, NEW s \in Stack, DestroyStack(x, s) PROVE FpuInv'
  BY <1>9 DEF DestroyStack, FpuInv, MainOf
<1>10. ASSUME NEW x \in Thread, NEW t \in Task, Destroy(x, t) PROVE FpuInv'
  <2>1. UNCHANGED <<sched, fpu, at, reg>> /\ ready' \subseteq ready
    BY <1>10 DEF Destroy
  <2>2. \A u \in Task : co'[u].age = co[u].age
    BY <1>10 DEF Destroy, CallInv, CoTypeOK, CoType
  <2>3. \A y \in Thread : at[y].stk \in Task => MainOf(y, at[y].stk)' = MainOf(y, at[y].stk)
    BY <2>1, <2>2 DEF MainOf
  <2> QED
    BY <2>1, <2>3 DEF FpuInv
<1> QED
  BY <1>1, <1>4, <1>5, <1>6, <1>7, <1>8, <1>9, <1>10, StepDoes

\* No thread executes with an x87 control word and an MXCSR that nobody has set, if go()
\* is called on one thread: the first go() has called aco_thread_init there
\* (scheduler.cpp:137, machine.cpp:133, aco.c:196-205).
THEOREM FpuWordsSetAlways == OneAtATime /\ OneCaller => (Spec => []FpuWordsSet)
<1> SUFFICES ASSUME OneAtATime, OneCaller PROVE Spec => []FpuWordsSet
  OBVIOUS
<1>1. Init => CallInv /\ FpuInv
  <2>1. Init => \A x \in Thread : at[x].stk \notin Task /\ at[x].fpu
    BY Names DEF Init
  <2> QED
    BY <2>1, InitCall DEF Init, FpuInv
<1>2. CallInv /\ FpuInv /\ [Next]_vars => (CallInv /\ FpuInv)'
  BY StepCall, StepFpu
<1>3. CallInv /\ FpuInv => FpuWordsSet
  BY DEF FpuInv, FpuWordsSet
<1> QED
  BY <1>1, <1>2, <1>3, PTL DEF Spec

-----------------------------------------------------------------------------
(* Who owns the stacks. *)

AreaType == [real : Int, ptr : Int, sz : Int, high : Int, ret : Int, limit : Int]
Content == [Words -> (Task \X Nat) \cup {None}]
StackType == [owner : Task \cup {None}, words : Content, area : AreaType \cup {None}]

\* An owner is a coroutine of its stack that exists and has not ended; whoever executes
\* owns its stack.
OwnInv ==
    /\ stack \in [Stack -> StackType]
    /\ save = [t \in Task |-> save[t]]
    /\ \A t \in Task : DOMAIN save[t] = {"sz", "valid", "words"} /\ save[t].words \in Content
    /\ \A s \in Stack : stack[s].owner # None =>
          /\ StackOf[stack[s].owner] = s
          /\ co[stack[s].owner].life = "live" /\ ~ co[stack[s].owner].end
    /\ \A x \in Thread : at[x].stk \in Task => stack[StackOf[at[x].stk]].owner = at[x].stk
    /\ \A t \in ready : co[t].life = "live" /\ ~ co[t].end
    /\ \A t \in Task : co[t].life = "unborn" => ~ co[t].end

LEMMA AreaTyped ==
    ASSUME NEW sz \in Nat, NEW guard \in BOOLEAN, NEW a \in Nat
    PROVE  Area(sz, guard, a) \in AreaType
<1>1. \A n \in Nat : RoundDown(n, PageSz) \in Int /\ Padded(n) \in Int
  BY SizeAssumption DEF RoundDown, PageSz, Padded
<1>2. AtLeast(sz) \in Nat
  BY DEF AtLeast
<1> DEFINE whole == IF guard THEN Padded(AtLeast(sz)) ELSE AtLeast(sz)
           p == a + IF guard THEN PageSz ELSE 0
           size == whole - IF guard THEN PageSz ELSE 0
<1>3. whole \in Int
  BY <1>1, <1>2
<1>4. p \in Int /\ size \in Int
  BY <1>3 DEF PageSz
<1>5. Area(sz, guard, a) =
        [real |-> a, ptr |-> p, sz |-> size, high |-> RoundDown(size - 16 + p, 16),
         ret |-> RoundDown(size - 16 + p, 16) - 8, limit |-> size - 16 - 16]
  BY DEF Area
<1> HIDE DEF p, size
<1>6. RoundDown(size - 16 + p, 16) \in Int
  BY <1>4 DEF RoundDown
<1> QED
  BY <1>4, <1>5, <1>6 DEF AreaType

Guarded(sz, a) == Area(sz, TRUE, a)
Plain(sz, a) == Area(sz, FALSE, a)

\* What mmap or malloc makes of a stack.
LEMMA AreasAre ==
    ASSUME NEW t \in Task, NEW area \in Areas(t)
    PROVE  \/ area = stack[StackOf[t]].area /\ area # None
           \/ \E a \in Addresses : area = Guarded(0, a)
           \/ \E sz \in Sizes, a \in Addresses : ~ TooLarge(sz, TRUE) /\ area = Guarded(sz, a)
           \/ \E sz \in Sizes, a \in Addresses : area = Plain(sz, a)
<1> DEFINE A == {n \in Sizes : ~ TooLarge(n, TRUE)}
           B == {b \in Addresses : b % PageSz = 0}
           C == {b \in Addresses : b % 16 = 0}
<1>2. B \subseteq Addresses /\ C \subseteq Addresses /\ A \subseteq Sizes
  OBVIOUS
<1>3. \A sz \in A : ~ TooLarge(sz, TRUE)
  OBVIOUS
<1> HIDE DEF A, B, C
<1>4. CASE stack[StackOf[t]].area # None
  <2>1. Areas(t) = {stack[StackOf[t]].area}
    BY <1>4 DEF Areas
  <2> QED
    BY <1>4, <2>1
<1>5. CASE stack[StackOf[t]].area = None /\ t \notin Lib
  <2>1. Areas(t) = {Guarded(0, a) : a \in B}
    BY <1>5 DEF Areas, Guarded, B
  <2> QED
    BY <1>2, <2>1
<1>6. CASE stack[StackOf[t]].area = None /\ t \in Lib
  <2>1. Areas(t) = {Guarded(sz, a) : sz \in A, a \in B} \cup {Plain(sz, a) : sz \in Sizes, a \in C}
    BY <1>6 DEF Areas, Guarded, Plain, A, B, C
  <2>2. (\E sz \in A, a \in B : area = Guarded(sz, a)) \/ \E sz \in Sizes, a \in C : area = Plain(sz, a)
    BY <2>1
  <2> QED
    BY <1>2, <1>3, <2>2
<1> QED
  BY <1>4, <1>5, <1>6

LEMMA AreasTyped ==
    ASSUME OwnInv, NEW t \in Task
    PROVE  Areas(t) \subseteq AreaType
<1> SUFFICES ASSUME NEW area \in Areas(t) PROVE area \in AreaType
  OBVIOUS
<1>1. stack[StackOf[t]].area \in AreaType \cup {None}
  BY TasksHaveStacks DEF OwnInv, StackType
<1>2. ASSUME NEW sz \in Nat, NEW a \in Nat
      PROVE  Guarded(sz, a) \in AreaType /\ Plain(sz, a) \in AreaType
  BY AreaTyped, Zenon DEF Guarded, Plain
<1>3. Sizes \subseteq Nat /\ Addresses \subseteq Nat
  BY SizeAssumption
<1>4. CASE \E a \in Addresses : area = Guarded(0, a)
  BY <1>2, <1>3, <1>4
<1>5. CASE \E sz \in Sizes, a \in Addresses : area = Guarded(sz, a)
  BY <1>2, <1>3, <1>5
<1>6. CASE \E sz \in Sizes, a \in Addresses : area = Plain(sz, a)
  BY <1>2, <1>3, <1>6
<1> QED
  BY <1>1, <1>4, <1>5, <1>6, AreasAre

LEMMA OverlaidTyped ==
    ASSUME NEW old \in Content, NEW new \in Content, NEW n
    PROVE  Overlaid(old, new, n) \in Content
BY DEF Overlaid, Content

\* A stack that a native thread may resume a coroutine on is not executed on.
LEMMA FreeStack ==
    ASSUME OneAtATime, CallInv, NEW x \in Thread, NEW y \in Thread, x # y, NEW t \in Task,
           Runs(x, t), co[t].life = "unborn" \/ t \in ready, at[y].stk \in Task
    PROVE  StackOf[at[y].stk] # StackOf[t]
<1>1. InOrder(y, at[y].stk)
  BY DEF CallInv
<1>2. at[y].stk # t
  BY <1>1 DEF InOrder
<1>3. ~ (at[y].stk \in Lib /\ t \in Lib)
  BY <1>1 DEF InOrder, Runs, OneAtATime
<1> QED
  BY <1>2, <1>3, OwnStacks

\* What taking a stack does to it.
LEMMA Taken ==
    ASSUME OwnInv, NEW t \in Task, NEW area, TakeStack(t, area)
    PROVE  LET s == StackOf[t]
               o == stack[s].owner
           IN /\ o = t => UNCHANGED <<stack, save>>
              /\ o # t =>
                   /\ stack' = [stack EXCEPT ![s] =
                          [owner |-> t, area |-> area,
                           words |-> Overlaid(stack[s].words, save[t].words, save[t].valid)]]
                   /\ o = None => UNCHANGED save
                   /\ o # None => save' = [save EXCEPT ![o] = Saved(o, s)]
<1> DEFINE s == StackOf[t]
           o == stack[s].owner
<1>1. s \in Stack
  BY TasksHaveStacks
<1>2. CASE o = t
  <2>1. stack' = [stack EXCEPT ![s] = stack[s]] /\ save' = save
    BY <1>2 DEF TakeStack
  <2> QED
    BY <1>1, <1>2, <2>1 DEF OwnInv
<1>3. CASE o # t
  BY <1>3 DEF TakeStack, Owner
<1> QED
  BY <1>2, <1>3

LEMMA LeaveKeepsOwners ==
    ASSUME OneAtATime, CallInv, OwnInv, NEW x \in Thread, NEW t \in Task,
           Exited(x, t) \/ \E depth \in Depths : Yielded(x, t, depth)
    PROVE  OwnInv'
<1>1. t = at[x].stk /\ InOrder(x, t) /\ StackOf[t] \in Stack
  BY TasksHaveStacks DEF Exited, Yielded, Leaves, CallInv
<1>2. stack[StackOf[t]].owner = t /\ co[t].life = "live" /\ ~ co[t].end /\ t \notin ready
  BY <1>1, Names DEF OwnInv, InOrder
<1>3. /\ UNCHANGED save /\ at'[x].stk = x /\ x \notin Task
      /\ \A y \in Thread \ {x} : at'[y] = at[y]
      /\ \A u \in Task \ {t} : co'[u] = co[u]
  <2>1. PICK depth : Leaves(x, t, depth)
    BY DEF Exited, Yielded
  <2>2. UNCHANGED save /\ at'[x].stk = x /\ \A y \in Thread \ {x} : at'[y] = at[y]
    BY <2>1 DEF Leaves, CallInv, CoTypeOK
  <2>3. \A u \in Task \ {t} : co'[u] = co[u]
    BY DEF Exited, Yielded, CallInv, CoTypeOK
  <2> QED
    BY <2>2, <2>3, Names
<1>4. \A y \in Thread : at'[y].stk \in Task =>
        at'[y] = at[y] /\ at[y].stk # t /\ StackOf[at[y].stk] # StackOf[t]
  BY <1>1, <1>3, OneOnStack
<1>0. /\ \A u \in ready : u \in Task /\ u # t /\ co[u].life = "live" /\ ~ co[u].end
      /\ \A u \in Task : co[u].life = "unborn" => ~ co[u].end
  BY <1>2 DEF OwnInv, CallInv, CoTypeOK
<1>5. ASSUME NEW depth \in Depths, Yielded(x, t, depth) PROVE OwnInv'
  <2>1. co'[t].life = "live" /\ ~ co'[t].end
    BY <1>2, <1>5 DEF Yielded, CallInv, CoTypeOK, CoType
  <2>2. ready' = ready \cup {t} /\ stack' = Worked(t, depth)
    BY <1>2, <1>5 DEF Yielded
  <2> DEFINE w == [i \in Words |-> IF i <= depth THEN <<t, co[t].age + 1>> ELSE stack[StackOf[t]].words[i]]
  <2>3. w \in Content
    <3>1. <<t, co[t].age + 1>> \in Task \X Nat
      BY DEF CallInv, CoTypeOK, CoType
    <3>2. stack[StackOf[t]].words \in Content
      BY <1>1 DEF OwnInv, StackType
    <3> QED
      BY <3>1, <3>2 DEF Content
  <2>4. stack'[StackOf[t]] = [stack[StackOf[t]] EXCEPT !.words = w] /\ stack[StackOf[t]] \in StackType
    BY <1>1, <2>2 DEF Worked, OwnInv
  <2> HIDE DEF w
  <2>5. stack'[StackOf[t]] \in StackType /\ stack'[StackOf[t]].owner = t
    BY <1>2, <2>3, <2>4 DEF StackType
  <2>6. /\ stack' \in [Stack -> StackType]
        /\ \A s \in Stack : stack'[s].owner = stack[s].owner
    BY <1>2, <2>2, <2>5 DEF Worked, OwnInv
  <2>7. \A y \in Thread : at'[y].stk \in Task => stack'[StackOf[at'[y].stk]].owner = at'[y].stk
    BY <1>4, <2>6, TasksHaveStacks DEF OwnInv
  <2>8. \A s \in Stack : stack'[s].owner # None =>
          /\ StackOf[stack'[s].owner] = s
          /\ co'[stack'[s].owner].life = "live" /\ ~ co'[stack'[s].owner].end
    <3>1. \A s \in Stack : stack[s].owner \in Task \cup {None}
      BY DEF OwnInv, StackType
    <3> QED
      BY <1>3, <2>1, <2>6, <3>1 DEF OwnInv
  <2>9. /\ \A u \in ready' : co'[u].life = "live" /\ ~ co'[u].end
        /\ \A u \in Task : co'[u].life = "unborn" => ~ co'[u].end
    BY <1>0, <1>3, <2>1, <2>2
  <2> QED
    BY <1>3, <2>6, <2>7, <2>8, <2>9 DEF OwnInv
<1>6. ASSUME Exited(x, t) PROVE OwnInv'
  <2>1. stack'[StackOf[t]] = [stack[StackOf[t]] EXCEPT !.owner = None] /\ stack[StackOf[t]] \in StackType
    BY <1>1, <1>6 DEF Exited, OwnInv
  <2>2. stack'[StackOf[t]] \in StackType /\ stack'[StackOf[t]].owner = None
    BY <2>1 DEF StackType
  <2>3. /\ stack' \in [Stack -> StackType]
        /\ \A s \in Stack \ {StackOf[t]} : stack'[s] = stack[s]
    BY <1>6, <2>2 DEF Exited, OwnInv
  <2>4. \A s \in Stack : stack'[s].owner # None =>
          stack'[s].owner = stack[s].owner /\ stack[s].owner # t
    BY <2>2, <2>3 DEF OwnInv
  <2>5. UNCHANGED ready /\ co'[t].life = "live"
    BY <1>2, <1>6 DEF Exited, CallInv, CoTypeOK, CoType
  <2>6. \A s \in Stack : stack[s].owner \in Task \cup {None}
    BY DEF OwnInv, StackType
  <2>7. \A y \in Thread : at'[y].stk \in Task => stack'[StackOf[at'[y].stk]].owner = at'[y].stk
    BY <1>4, <2>3, TasksHaveStacks DEF OwnInv
  <2>8. \A s \in Stack : stack'[s].owner # None =>
          /\ StackOf[stack'[s].owner] = s
          /\ co'[stack'[s].owner].life = "live" /\ ~ co'[stack'[s].owner].end
    BY <1>3, <2>4, <2>6 DEF OwnInv
  <2>9. /\ \A u \in ready' : co'[u].life = "live" /\ ~ co'[u].end
        /\ \A u \in Task : co'[u].life = "unborn" => ~ co'[u].end
    BY <1>0, <1>3, <2>5
  <2> QED
    BY <1>3, <2>3, <2>7, <2>8, <2>9 DEF OwnInv
<1> QED
  BY <1>5, <1>6

\* The save stacks, whoever takes a stack.
LEMMA SavedTyped ==
    ASSUME OwnInv, NEW s \in Stack, stack[s].owner # None
    PROVE  LET o == stack[s].owner
           IN DOMAIN Saved(o, s) = {"sz", "valid", "words"} /\ Saved(o, s).words \in Content
              /\ Saved(o, s).valid = reg[o].sp
<1> DEFINE o == stack[s].owner
<1>1. o \in Task /\ stack[s].words \in Content /\ save[o].words \in Content
  BY DEF OwnInv, StackType
<1>2. NoWords \in Content
  BY DEF NoWords, Content
<1> DEFINE n == reg[o].sp
           old == IF save[o].sz < n THEN NoWords ELSE save[o].words
           z == IF save[o].sz < n THEN Doubled(save[o].sz, n) ELSE save[o].sz
<1>3. old \in Content
  BY <1>1, <1>2
<1>4. Overlaid(old, stack[s].words, n) \in Content
  BY <1>1, <1>3, OverlaidTyped
<1>5. Saved(o, s) = [sz |-> z, valid |-> n, words |-> Overlaid(old, stack[s].words, n)]
  BY DEF Saved
<1> HIDE DEF z, n, old
<1>6. DOMAIN Saved(o, s) = {"sz", "valid", "words"}
  BY <1>5
<1> QED
  BY <1>4, <1>5, <1>6 DEF n

LEMMA EnterKeepsOwners ==
    ASSUME OneAtATime, CallInv, OwnInv, NEW x \in Thread, NEW t \in Task, NEW word,
           NEW area \in AreaType \cup {None},
           Enters(x, t, word, area), co[t].life = "unborn" \/ t \in ready
    PROVE  OwnInv'
<1> DEFINE s == StackOf[t]
           o == stack[s].owner
<1>1. s \in Stack /\ o \in Task \cup {None} /\ stack[s] \in StackType /\ TakeStack(t, area)
  BY TasksHaveStacks DEF OwnInv, StackType, Enters
<1>2. /\ at'[x].stk = t /\ \A y \in Thread \ {x} : at'[y] = at[y]
      /\ ready' = ready \ {t}
      /\ \A u \in Task \ {t} : co'[u] = co[u]
      /\ co'[t].life = "live" /\ co'[t].end = co[t].end /\ ~ co[t].end
  BY DEF Enters, CallInv, CoTypeOK, CoType, OwnInv
<1>3. /\ stack' \in [Stack -> StackType] /\ stack'[s].owner = t
      /\ \A r \in Stack \ {s} : stack'[r] = stack[r]
  <2>1. CASE o = t
    BY <1>1, <2>1, Taken DEF OwnInv
  <2>2. CASE o # t
    <3> DEFINE w == Overlaid(stack[s].words, save[t].words, save[t].valid)
    <3>1. w \in Content
      <4>1. stack[s].words \in Content /\ save[t].words \in Content
        BY <1>1 DEF OwnInv, StackType
      <4> QED
        BY <4>1, OverlaidTyped
    <3>2. stack' = [stack EXCEPT ![s] = [owner |-> t, area |-> area, words |-> w]]
      BY <1>1, <2>2, Taken
    <3> HIDE DEF w
    <3>3. [owner |-> t, area |-> area, words |-> w] \in StackType
      BY <3>1 DEF StackType
    <3> QED
      BY <1>1, <3>2, <3>3 DEF OwnInv
  <2> QED
    BY <2>1, <2>2
<1>4. /\ save' = [u \in Task |-> save'[u]]
      /\ \A u \in Task : DOMAIN save'[u] = {"sz", "valid", "words"} /\ save'[u].words \in Content
  <2>1. CASE UNCHANGED save
    BY <2>1 DEF OwnInv
  <2>2. CASE o # t /\ o # None /\ save' = [save EXCEPT ![o] = Saved(o, s)]
    <3>1. DOMAIN Saved(o, s) = {"sz", "valid", "words"} /\ Saved(o, s).words \in Content
      BY <1>1, <2>2, SavedTyped
    <3>2. \A u \in Task : save'[u] = IF u = o THEN Saved(o, s) ELSE save[u]
      BY <2>2 DEF OwnInv
    <3>3. save' = [u \in Task |-> save'[u]]
      BY <2>2 DEF OwnInv
    <3> QED
      BY <3>1, <3>2, <3>3 DEF OwnInv
  <2> QED
    BY <1>1, <2>1, <2>2, Taken
<1>5. ASSUME NEW r \in Stack, stack'[r].owner # None
      PROVE  /\ StackOf[stack'[r].owner] = r
             /\ co'[stack'[r].owner].life = "live" /\ ~ co'[stack'[r].owner].end
  <2>1. CASE r = s
    BY <1>2, <1>3, <2>1
  <2>2. CASE r # s
    <3>1. stack'[r].owner = stack[r].owner /\ stack[r].owner \in Task
      BY <1>3, <1>5, <2>2 DEF OwnInv, StackType
    <3> QED
      BY <1>2, <1>5, <2>2, <3>1 DEF OwnInv
  <2> QED
    BY <2>1, <2>2
<1>6. ASSUME NEW y \in Thread, at'[y].stk \in Task
      PROVE  stack'[StackOf[at'[y].stk]].owner = at'[y].stk
  <2>1. CASE y = x
    BY <1>2, <1>3, <2>1
  <2>2. CASE y # x
    <3>1. at'[y] = at[y] /\ StackOf[at[y].stk] # s
      BY <1>2, <1>6, <2>2, FreeStack DEF Enters
    <3> QED
      BY <1>3, <1>6, <3>1, TasksHaveStacks DEF OwnInv
  <2> QED
    BY <2>1, <2>2
<1>7. /\ \A u \in ready' : co'[u].life = "live" /\ ~ co'[u].end
      /\ \A u \in Task : co'[u].life = "unborn" => ~ co'[u].end
  BY <1>2 DEF OwnInv, CallInv, CoTypeOK
<1> QED
  BY <1>3, <1>4, <1>5, <1>6, <1>7 DEF OwnInv

LEMMA DestroyDoes ==
    ASSUME OneAtATime, CallInv, OwnInv, NEW x \in Thread, NEW t \in Task, Destroy(x, t)
    PROVE  /\ UNCHANGED <<at, reg>> /\ ready' = ready \ {t}
           /\ co'[t].life = "freed"
           /\ \A u \in Task \ {t} : co'[u] = co[u] /\ save'[u] = save[u]
           /\ save' = [u \in Task |-> save'[u]]
           /\ DOMAIN save'[t] = {"sz", "valid", "words"} /\ save'[t].words \in Content
           /\ stack' \in [Stack -> StackType]
           /\ \A s \in Stack :
                /\ stack'[s].words = stack[s].words /\ stack'[s].area = stack[s].area
                /\ stack'[s].owner = IF stack[s].owner = t THEN None ELSE stack[s].owner
<1>1. /\ UNCHANGED <<at, reg>> /\ ready' = ready \ {t}
      /\ co' = [co EXCEPT ![t].life = "freed"]
      /\ save' = [save EXCEPT ![t].words = NoWords]
      /\ stack' = [stack EXCEPT ![StackOf[t]].owner = IF @ = t THEN None ELSE @]
      /\ StackOf[t] \in Stack
  BY TasksHaveStacks DEF Destroy
<1>2. co'[t].life = "freed" /\ \A u \in Task \ {t} : co'[u] = co[u] /\ save'[u] = save[u]
  BY <1>1 DEF CallInv, CoTypeOK, CoType, OwnInv
<1>3. NoWords \in Content
  BY DEF NoWords, Content
<1>4. save'[t] = [save[t] EXCEPT !.words = NoWords] /\ save' = [u \in Task |-> save'[u]]
  BY <1>1 DEF OwnInv
<1>5. DOMAIN save'[t] = {"sz", "valid", "words"} /\ save'[t].words \in Content
  BY <1>3, <1>4 DEF OwnInv
<1> DEFINE r == StackOf[t]
           w == IF stack[r].owner = t THEN None ELSE stack[r].owner
<1>6. stack'[r] = [stack[r] EXCEPT !.owner = w] /\ stack[r] \in StackType
  BY <1>1 DEF OwnInv
<1>7. /\ stack'[r] \in StackType /\ stack'[r].words = stack[r].words
      /\ stack'[r].area = stack[r].area /\ stack'[r].owner = w
  BY <1>6 DEF StackType
<1>8. /\ stack' \in [Stack -> StackType]
      /\ \A s \in Stack \ {r} : stack'[s] = stack[s]
  BY <1>1, <1>7 DEF OwnInv
<1>9. \A s \in Stack \ {r} : stack[s].owner # t
  BY Names DEF OwnInv
<1> QED
  BY <1>1, <1>2, <1>4, <1>5, <1>7, <1>8, <1>9

LEMMA DestroyKeepsOwners ==
    ASSUME OneAtATime, CallInv, OwnInv, NEW x \in Thread, NEW t \in Task, Destroy(x, t)
    PROVE  OwnInv'
<1>1. \A y \in Thread : at[y].stk # t
  BY DestroyKeepsCall
<1>2. \A s \in Stack : stack'[s].owner # None =>
        stack'[s].owner = stack[s].owner /\ stack[s].owner \in Task \ {t}
  BY DestroyDoes DEF OwnInv, StackType
<1>3. \A y \in Thread : at'[y].stk \in Task => stack'[StackOf[at'[y].stk]].owner = at'[y].stk
  BY <1>1, DestroyDoes, TasksHaveStacks DEF OwnInv
<1>4. \A s \in Stack : stack'[s].owner # None =>
        /\ StackOf[stack'[s].owner] = s
        /\ co'[stack'[s].owner].life = "live" /\ ~ co'[stack'[s].owner].end
  BY <1>2, DestroyDoes DEF OwnInv
<1>5. \A u \in Task : DOMAIN save'[u] = {"sz", "valid", "words"} /\ save'[u].words \in Content
  BY DestroyDoes DEF OwnInv
<1>6. /\ \A u \in ready' : co'[u].life = "live" /\ ~ co'[u].end
      /\ \A u \in Task : co'[u].life = "unborn" => ~ co'[u].end
  BY DestroyDoes DEF OwnInv, CallInv, CoTypeOK
<1> QED
  BY <1>3, <1>4, <1>5, <1>6, DestroyDoes DEF OwnInv

LEMMA DestroyStackKeepsOwners ==
    ASSUME OneAtATime, CallInv, OwnInv, NEW x \in Thread, NEW s \in Stack, DestroyStack(x, s)
    PROVE  OwnInv'
<1>1. /\ UNCHANGED <<at, co, save, ready>>
      /\ stack' = [stack EXCEPT ![s] = [owner |-> None, words |-> NoWords, area |-> None]]
      /\ \A t \in Task : StackOf[t] = s => co[t].life # "live"
  BY DEF DestroyStack
<1>2. [owner |-> None, words |-> NoWords, area |-> None] \in StackType
  BY DEF StackType, NoWords, Content
<1>3. /\ stack' \in [Stack -> StackType] /\ stack'[s].owner = None
      /\ \A r \in Stack \ {s} : stack'[r] = stack[r]
  BY <1>1, <1>2 DEF OwnInv
<1>4. \A y \in Thread : at[y].stk \in Task => StackOf[at[y].stk] # s
  BY <1>1 DEF CallInv, InOrder
<1> QED
  BY <1>1, <1>3, <1>4, TasksHaveStacks DEF OwnInv

LEMMA StepOwners ==
    ASSUME OneAtATime, CallInv, OwnInv, [Next]_vars
    PROVE  OwnInv'
<1>1. CASE Inits \/ TooLargeStep
  BY <1>1 DEF Inits, TooLargeStep, Stays, OwnInv
<1>2. ASSUME NEW x \in Thread, NEW t \in Task, Asserts(x, t) PROVE OwnInv'
  BY <1>2 DEF Asserts, Abort, OwnInv
<1>3. ASSUME NEW x \in Thread, NEW t \in Task, NEW area \in Areas(t), Constructed(x, t, area)
      PROVE  OwnInv'
  BY <1>3, AreasTyped, EnterKeepsOwners DEF Constructed
<1>4. ASSUME NEW x \in Thread, NEW t \in Task, Resumed(x, t) PROVE OwnInv'
  <2>1. stack[StackOf[t]].area \in AreaType \cup {None}
    BY TasksHaveStacks DEF OwnInv, StackType
  <2> QED
    BY <1>4, <2>1, EnterKeepsOwners DEF Resumed
<1> QED
  BY <1>1, <1>2, <1>3, <1>4, StepDoes, LeaveKeepsOwners, DestroyKeepsOwners, DestroyStackKeepsOwners

LEMMA InitOwners == Init => OwnInv
<1> SUFFICES ASSUME Init PROVE OwnInv
  OBVIOUS
<1>1. NoWords \in Content
  BY DEF NoWords, Content
<1>2. [owner |-> None, words |-> NoWords, area |-> None] \in StackType
  BY <1>1 DEF StackType
<1>3. stack \in [Stack -> StackType] /\ \A s \in Stack : stack[s].owner = None
  BY <1>2 DEF Init
<1>4. save = [t \in Task |-> [sz |-> 8, valid |-> 0, words |-> NoWords]]
  BY DEF Init
<1>5. \A t \in Task : DOMAIN save[t] = {"sz", "valid", "words"} /\ save[t].words \in Content
  BY <1>1, <1>4
<1>6. save = [t \in Task |-> save[t]]
  BY <1>4
<1>7. /\ \A x \in Thread : at[x].stk \notin Task
      /\ ready = {} /\ \A t \in Task : ~ co[t].end
  BY Names DEF Init
<1> QED
  BY <1>3, <1>5, <1>6, <1>7 DEF OwnInv

\* The owner of a share stack, whose frames the next aco_resume there will copy, is a
\* coroutine that exists and has not ended (aco.c:384-486, aco.h:210-217).
THEOREM OwnerAliveAlways == OneAtATime => (Spec => []OwnerAlive)
<1> SUFFICES ASSUME OneAtATime PROVE Spec => []OwnerAlive
  OBVIOUS
<1>1. Init => CallInv /\ OwnInv
  BY InitCall, InitOwners
<1>2. CallInv /\ OwnInv /\ [Next]_vars => (CallInv /\ OwnInv)'
  BY StepCall, StepOwners
<1>3. CallInv /\ OwnInv => OwnerAlive
  BY DEF OwnInv, OwnerAlive
<1> QED
  BY <1>1, <1>2, <1>3, PTL DEF Spec

-----------------------------------------------------------------------------
(* The frames. *)

\* The words of n frames of t, written before its last yield.
Written(words, t) == \A i \in 1 .. reg[t].sp : words[i] = <<t, co[t].age>>

\* A coroutine's frames are in one of two places.
InPlace(t) ==
    /\ reg[t].sp <= MaxWords
    /\ stack[StackOf[t]].owner = t => Written(stack[StackOf[t]].words, t)
    /\ stack[StackOf[t]].owner # t => save[t].valid = reg[t].sp /\ Written(save[t].words, t)

FrameInv ==
    /\ \A t \in Task : co[t].life = "live" /\ ~ co[t].end => InPlace(t)
    /\ \A t \in Task : co[t].life = "unborn" => reg[t].sp = 0 /\ save[t].valid = 0

\* A copy of n words moves all of them.
LEMMA AllCopied ==
    ASSUME NEW n \in Nat
    PROVE  1 .. n \subseteq Copied(n)
<1>1. CASE ~ InPairs(n)
  BY <1>1 DEF Copied
<1>2. CASE InPairs(n)
  <2>1. n % 2 = 1
    BY <1>2 DEF InPairs
  <2>2. n = 2 * (n \div 2) + 1
    BY <2>1
  <2>3. n \div 2 \in Nat
    OBVIOUS
  <2> DEFINE k == n \div 2
  <2> HIDE DEF k
  <2>4. ASSUME NEW i \in 1 .. n, i # 1 PROVE \E o \in 0 .. 2 * k - 1 : i = n - o
    <3>1. n - i \in 0 .. 2 * k - 1 /\ i = n - (n - i)
      BY <2>2, <2>3, <2>4 DEF k
    <3> QED
      BY <3>1
  <2> QED
    BY <1>2, <2>4 DEF Copied, k
<1> QED
  BY <1>1, <1>2

LEMMA OverlaidWritten ==
    ASSUME NEW old, NEW new, NEW t \in Task, reg[t].sp \in Nat, reg[t].sp <= MaxWords,
           Written(new, t)
    PROVE  Written(Overlaid(old, new, reg[t].sp), t)
<1>1. MaxWords \in Nat
  BY BoundAssumption
<1>2. ASSUME NEW i \in 1 .. reg[t].sp PROVE Overlaid(old, new, reg[t].sp)[i] = new[i]
  <2>1. i \in Words /\ i \in Copied(reg[t].sp)
    BY <1>1, AllCopied DEF Words
  <2> QED
    BY <2>1 DEF Overlaid
<1> QED
  BY <1>2 DEF Written

\* A coroutine whose frames a step leaves where they are.
LEMMA SameFrames ==
    ASSUME NEW u \in Task, InPlace(u), co'[u] = co[u], reg'[u].sp = reg[u].sp,
           \/ /\ stack'[StackOf[u]].owner = u /\ stack[StackOf[u]].owner = u
              /\ stack'[StackOf[u]].words = stack[StackOf[u]].words
           \/ /\ stack'[StackOf[u]].owner # u /\ stack[StackOf[u]].owner # u
              /\ save'[u] = save[u]
    PROVE  InPlace(u)'
BY DEF InPlace, Written

LEMMA EnterKeepsFrames ==
    ASSUME CallInv, OwnInv, FrameInv, NEW x \in Thread, NEW t \in Task, NEW word,
           NEW area, Enters(x, t, word, area), co[t].life = "unborn" \/ t \in ready
    PROVE  FrameInv'
<1> DEFINE s == StackOf[t]
           o == stack[s].owner
<1>1. /\ s \in Stack /\ TakeStack(t, area) /\ o \in Task \cup {None}
      /\ \A u \in Task : StackOf[u] \in Stack
  BY TasksHaveStacks DEF Enters, OwnInv, StackType
<1>2. /\ \A u \in Task \ {t} : co'[u] = co[u]
      /\ co'[t].life = "live" /\ co'[t].end = co[t].end /\ ~ co[t].end /\ co'[t].age = co[t].age
  BY DEF Enters, CallInv, CoTypeOK, CoType, OwnInv
<1>3. \A u \in Task : reg'[u] = reg[u] /\ reg[u].sp \in Nat
  <2>1. MainOf(x, t) \in Main
    BY Mains DEF Enters
  <2> QED
    BY <2>1, Names DEF Enters, CallInv, CoTypeOK, RegType
<1>4. o # t => /\ reg[t].sp <= MaxWords
               /\ save[t].valid = reg[t].sp /\ Written(save[t].words, t)
  <2>1. CASE co[t].life = "unborn"
    BY <2>1, BoundAssumption DEF FrameInv, Written
  <2>2. CASE t \in ready
    <3>1. InPlace(t)
      BY <2>2 DEF OwnInv, FrameInv
    <3> QED
      BY <3>1 DEF InPlace
  <2> QED
    BY <2>1, <2>2
<1>8. /\ o = t => UNCHANGED <<stack, save>>
      /\ o # t => /\ stack'[s].owner = t
                  /\ stack'[s].words = Overlaid(stack[s].words, save[t].words, save[t].valid)
                  /\ \A r \in Stack \ {s} : stack'[r] = stack[r]
      /\ \A u \in Task : u # o => save'[u] = save[u]
      /\ o \notin {t, None} => save'[o] = Saved(o, s)
  <2>1. CASE o = t
    BY <1>1, <2>1, Taken
  <2>2. CASE o # t
    <3>1. stack' = [stack EXCEPT ![s] =
             [owner |-> t, area |-> area,
              words |-> Overlaid(stack[s].words, save[t].words, save[t].valid)]]
      BY <1>1, <2>2, Taken
    <3>2. save' = IF o = None THEN save ELSE [save EXCEPT ![o] = Saved(o, s)]
      BY <1>1, <2>2, Taken
    <3> QED
      BY <1>1, <2>2, <3>1, <3>2 DEF OwnInv
  <2> QED
    BY <2>1, <2>2
<1>5. InPlace(t)'
  <2>1. CASE o = t
    <3>1. InPlace(t) /\ UNCHANGED <<stack, save>>
      <4>1. co[t].life = "live"
        BY <1>1, <2>1, Names DEF OwnInv
      <4> QED
        BY <1>2, <1>8, <2>1, <4>1 DEF FrameInv
    <3> QED
      BY <1>2, <1>3, <2>1, <3>1 DEF InPlace, Written
  <2>2. CASE o # t
    <3> DEFINE w == Overlaid(stack[s].words, save[t].words, reg[t].sp)
    <3>1. Written(w, t)
      BY <1>3, <1>4, <2>2, OverlaidWritten
    <3>3. stack'[s].owner = t /\ stack'[s].words = w
      BY <1>4, <1>8, <2>2
    <3> HIDE DEF w
    <3> QED
      BY <1>2, <1>3, <1>4, <2>2, <3>1, <3>3 DEF InPlace, Written
  <2> QED
    BY <2>1, <2>2
<1>6. ASSUME NEW u \in Task \ {t}, co[u].life = "live", ~ co[u].end PROVE InPlace(u)'
  <2>1. InPlace(u)
    BY <1>6 DEF FrameInv
  <2>2. CASE o = t
    BY <1>2, <1>3, <1>8, <2>1, <2>2, SameFrames
  <2>3. CASE o # t /\ u # o
    <3>1. save'[u] = save[u]
      BY <1>8, <2>3
    <3>2. /\ stack'[s].owner = t
          /\ \A r \in Stack \ {s} : stack'[r] = stack[r]
      BY <1>8, <2>3
    <3>3. CASE StackOf[u] = s
      BY <1>2, <1>3, <2>1, <2>3, <3>1, <3>2, <3>3, SameFrames
    <3>4. CASE StackOf[u] # s
      BY <1>1, <1>2, <1>3, <2>1, <3>1, <3>2, <3>4, SameFrames
    <3> QED
      BY <3>3, <3>4
  <2>4. CASE o # t /\ u = o
    <3>1. o # None /\ StackOf[u] = s
      BY <1>1, <2>4, Names DEF OwnInv
    <3>2. stack'[s].owner = t /\ save'[u] = Saved(u, s)
      BY <1>8, <2>4, <3>1
    <3>3. Written(stack[s].words, u) /\ reg[u].sp <= MaxWords
      BY <2>1, <2>4, <3>1 DEF InPlace
    <3> DEFINE old == IF save[u].sz < reg[u].sp THEN NoWords ELSE save[u].words
    <3>4. save'[u].valid = reg[u].sp /\ save'[u].words = Overlaid(old, stack[s].words, reg[u].sp)
      BY <3>2 DEF Saved
    <3> HIDE DEF old
    <3>5. Written(save'[u].words, u)
      BY <1>3, <3>3, <3>4, OverlaidWritten
    <3> QED
      BY <1>2, <1>3, <3>1, <3>2, <3>3, <3>4, <3>5 DEF InPlace, Written
  <2> QED
    BY <2>2, <2>3, <2>4
<1>7. ASSUME NEW u \in Task, co'[u].life = "unborn" PROVE reg'[u].sp = 0 /\ save'[u].valid = 0
  <2>1. co[u].life = "unborn" /\ reg[u].sp = 0 /\ save[u].valid = 0
    BY <1>2, <1>3, <1>7 DEF FrameInv
  <2>2. u # o
    BY <1>1, <2>1, Names DEF OwnInv
  <2>3. save'[u] = save[u]
    BY <1>8, <2>2
  <2> QED
    BY <1>3, <2>1, <2>3
<1> QED
  BY <1>2, <1>5, <1>6, <1>7 DEF FrameInv

LEMMA YieldKeepsFrames ==
    ASSUME OneAtATime, CallInv, OwnInv, FrameInv, NEW x \in Thread, NEW t \in Task,
           NEW depth \in Depths, Yielded(x, t, depth)
    PROVE  FrameInv'
<1>1. /\ t = at[x].stk /\ InOrder(x, t) /\ StackOf[t] \in Stack
      /\ \A u \in Task : StackOf[u] \in Stack
  BY TasksHaveStacks DEF Yielded, Leaves, CallInv
<1>2. stack[StackOf[t]].owner = t /\ stack[StackOf[t]] \in StackType
  BY <1>1 DEF OwnInv
<1>3. /\ UNCHANGED save /\ reg'[t].sp = depth
      /\ \A u \in Task \ {t} : co'[u] = co[u] /\ reg'[u] = reg[u]
      /\ co'[t].age = co[t].age + 1 /\ co'[t].life = "live"
  BY <1>1 DEF Yielded, Leaves, CallInv, CoTypeOK, CoType, InOrder
<1> DEFINE w == [i \in Words |-> IF i <= depth THEN <<t, co[t].age + 1>> ELSE stack[StackOf[t]].words[i]]
<1>4. /\ stack'[StackOf[t]] = [stack[StackOf[t]] EXCEPT !.words = w]
      /\ \A r \in Stack \ {StackOf[t]} : stack'[r] = stack[r]
  BY <1>1 DEF Yielded, Worked, OwnInv
<1>5. depth \in Nat /\ depth <= MaxWords /\ MaxWords \in Nat
  BY BoundAssumption
<1>6. \A i \in 1 .. depth : w[i] = <<t, co[t].age + 1>>
  BY <1>5 DEF Words
<1> HIDE DEF w
<1>7. stack'[StackOf[t]].owner = t /\ stack'[StackOf[t]].words = w
  BY <1>2, <1>4 DEF StackType
<1>8. InPlace(t)'
  BY <1>3, <1>5, <1>6, <1>7 DEF InPlace, Written
<1>9. ASSUME NEW u \in Task \ {t}, co[u].life = "live", ~ co[u].end PROVE InPlace(u)'
  <2>1. InPlace(u)
    BY <1>9 DEF FrameInv
  <2>2. CASE StackOf[u] = StackOf[t]
    BY <1>2, <1>3, <1>7, <2>1, <2>2, SameFrames
  <2>3. CASE StackOf[u] # StackOf[t]
    BY <1>1, <1>3, <1>4, <2>1, <2>3, SameFrames
  <2> QED
    BY <2>2, <2>3
<1> QED
  BY <1>3, <1>8, <1>9 DEF FrameInv

LEMMA ExitKeepsFrames ==
    ASSUME OneAtATime, CallInv, OwnInv, FrameInv, NEW x \in Thread, NEW t \in Task,
           Exited(x, t)
    PROVE  FrameInv'
<1>1. /\ t = at[x].stk /\ InOrder(x, t) /\ StackOf[t] \in Stack
      /\ \A u \in Task : StackOf[u] \in Stack
  BY TasksHaveStacks DEF Exited, Leaves, CallInv
<1>2. stack[StackOf[t]].owner = t /\ stack[StackOf[t]] \in StackType
  BY <1>1 DEF OwnInv
<1>3. /\ UNCHANGED save
      /\ \A u \in Task \ {t} : co'[u] = co[u] /\ reg'[u] = reg[u]
      /\ co'[t].end /\ co'[t].life = "live"
  BY <1>1 DEF Exited, Leaves, CallInv, CoTypeOK, CoType, InOrder
<1>4. /\ stack'[StackOf[t]].owner = None
      /\ \A r \in Stack \ {StackOf[t]} : stack'[r] = stack[r]
  BY <1>1, <1>2 DEF Exited, OwnInv, StackType
<1>5. ASSUME NEW u \in Task \ {t}, co[u].life = "live", ~ co[u].end PROVE InPlace(u)'
  <2>1. InPlace(u)
    BY <1>5 DEF FrameInv
  <2>2. CASE StackOf[u] = StackOf[t]
    BY <1>2, <1>3, <1>4, <2>1, <2>2, SameFrames, Names
  <2>3. CASE StackOf[u] # StackOf[t]
    BY <1>1, <1>3, <1>4, <2>1, <2>3, SameFrames
  <2> QED
    BY <2>2, <2>3
<1> QED
  BY <1>3, <1>5 DEF FrameInv

LEMMA StepFrames ==
    ASSUME OneAtATime, CallInv, OwnInv, FrameInv, [Next]_vars
    PROVE  FrameInv'
<1>1. CASE Inits \/ TooLargeStep
  BY <1>1 DEF Inits, TooLargeStep, Stays, FrameInv, InPlace, Written
<1>2. ASSUME NEW x \in Thread, NEW t \in Task, Asserts(x, t) PROVE FrameInv'
  BY <1>2 DEF Asserts, Abort, FrameInv, InPlace, Written
<1>3. ASSUME NEW x \in Thread, NEW t \in Task, NEW area, Constructed(x, t, area) PROVE FrameInv'
  BY <1>3, EnterKeepsFrames DEF Constructed
<1>4. ASSUME NEW x \in Thread, NEW t \in Task, Resumed(x, t) PROVE FrameInv'
  BY <1>4, EnterKeepsFrames DEF Resumed
<1>5. ASSUME NEW x \in Thread, NEW t \in Task, Destroy(x, t) PROVE FrameInv'
  <2>1. ASSUME NEW u \in Task \ {t}, co[u].life = "live", ~ co[u].end PROVE InPlace(u)'
    <3>1. InPlace(u) /\ StackOf[u] \in Stack /\ co'[u] = co[u] /\ reg' = reg /\ save'[u] = save[u]
      BY <1>5, <2>1, DestroyDoes, TasksHaveStacks DEF FrameInv
    <3>2. /\ stack'[StackOf[u]].words = stack[StackOf[u]].words
          /\ stack'[StackOf[u]].owner = u <=> stack[StackOf[u]].owner = u
      BY <1>5, <3>1, DestroyDoes, Names
    <3> QED
      BY <3>1, <3>2, SameFrames
  <2> QED
    BY <1>5, <2>1, DestroyDoes DEF FrameInv
<1>6. ASSUME NEW x \in Thread, NEW s \in Stack, DestroyStack(x, s) PROVE FrameInv'
  <2>1. /\ UNCHANGED <<reg, co, save>>
        /\ \A r \in Stack \ {s} : stack'[r] = stack[r]
        /\ \A t \in Task : StackOf[t] = s => co[t].life # "live"
    BY <1>6 DEF DestroyStack, OwnInv
  <2> QED
    BY <2>1, TasksHaveStacks DEF FrameInv, InPlace, Written
<1> QED
  BY <1>1, <1>2, <1>3, <1>4, <1>5, <1>6, StepDoes, YieldKeepsFrames, ExitKeepsFrames

\* The frames that a coroutine had at its last aco_yield are on its stack while it
\* executes or owns the stack, and else on its save stack, whole, whatever the others
\* that share the stack do (aco.c:60-174, 384-486).
THEOREM FramesKeptAlways == OneAtATime => (Spec => []FramesKept)
<1> SUFFICES ASSUME OneAtATime PROVE Spec => []FramesKept
  OBVIOUS
<1>1. Init => CallInv /\ OwnInv /\ FrameInv
  <2>1. Init => FrameInv
    BY DEF Init, FrameInv
  <2> QED
    BY <2>1, InitCall, InitOwners
<1>2. CallInv /\ OwnInv /\ FrameInv /\ [Next]_vars => (CallInv /\ OwnInv /\ FrameInv)'
  BY StepCall, StepOwners, StepFrames
<1>3. CallInv /\ OwnInv /\ FrameInv => FramesKept
  <2> SUFFICES ASSUME OwnInv, FrameInv, NEW t \in Task, co[t].life = "live", ~ co[t].end,
                      NEW i \in 1 .. reg[t].sp
               PROVE  (IF Executing(t) \/ stack[StackOf[t]].owner = t
                       THEN stack[StackOf[t]].words ELSE save[t].words)[i] = <<t, co[t].age>>
    BY DEF FramesKept
  <2>1. Executing(t) => stack[StackOf[t]].owner = t
    BY DEF Executing, OwnInv
  <2>2. InPlace(t)
    BY DEF FrameInv
  <2> QED
    BY <2>1, <2>2 DEF InPlace, Written
<1> QED
  BY <1>1, <1>2, <1>3, PTL DEF Spec

-----------------------------------------------------------------------------
(* The assertions. *)

\* The frames that a coroutine has when it yields fit into the smallest area that
\* aco_share_stack_new2 makes, which is a page less what its ends take; sizes are of
\* size_t, which is wider than the default size.
FramesFit == MaxWords <= 507 /\ Sizes \subseteq 0 .. Word - 1 /\ Word > 2101248

Roomy(area) == area.limit >= 4064

RoomInv ==
    /\ abort # "co"
    /\ \A t \in Task : reg[t].sp <= 507
    /\ \A s \in Stack : stack[s].area = None \/ Roomy(stack[s].area)
    /\ \A t \in Task : co[t].life = "live" =>
          stack[StackOf[t]].area \in AreaType /\ Roomy(stack[StackOf[t]].area)

\* An area has its guard page and whole pages, or the computation has wrapped around
\* and the assertion has noticed.
LEMMA PaddedEnough ==
    ASSUME FramesFit, NEW n \in Nat, 4096 <= n, n < Word, ~ (Padded(n) < n)
    PROVE  Padded(n) >= 8192
<1>1. CASE n <= PageSz
  BY <1>1 DEF Padded, PageSz
<1>2. CASE ~ (n <= PageSz)
  <2>0. n \div 4096 \in Nat /\ n % 4096 \in 0 .. 4095 /\ n = 4096 * (n \div 4096) + (n % 4096)
    OBVIOUS
  <2> DEFINE k == n \div 4096
             X == k * 4096 + (IF n % 4096 # 0 THEN 2 ELSE 1) * 4096
  <2>1. k \in Nat /\ n % 4096 \in 0 .. 4095 /\ n = k * 4096 + (n % 4096)
    BY <2>0
  <2>2. k >= 1
    BY <1>2, <2>1 DEF PageSz
  <2>3. X \in Nat /\ X >= 8192 /\ X > n /\ X <= n + 8192
    BY <2>1, <2>2
  <2>4. Padded(n) = X % Word
    BY <1>2 DEF Padded, RoundDown, PageSz
  <2> HIDE DEF X
  <2>5. Word \in Nat /\ Word > 2101248
    BY SizeAssumption DEF FramesFit
  <2>6. CASE X < Word
    BY <2>3, <2>4, <2>5, <2>6
  <2>7. CASE ~ (X < Word)
    <3>1. X % Word = X - Word
      <4>1. X = 1 * Word + (X - Word) /\ X - Word \in 0 .. Word - 1
        BY <2>3, <2>5, <2>7
      <4> QED
        BY <2>3, <2>5, <4>1
    <3>2. X - Word < n
      BY <2>3, <2>5
    <3> QED
      BY <2>4, <3>1, <3>2
  <2> QED
    BY <2>3, <2>5, <2>6, <2>7
<1> QED
  BY <1>1, <1>2

LEMMA AtLeastIs ==
    ASSUME FramesFit, NEW sz \in Sizes \cup {0}
    PROVE  AtLeast(sz) \in Nat /\ 4096 <= AtLeast(sz) /\ AtLeast(sz) < Word
BY SizeAssumption DEF AtLeast, FramesFit

LEMMA AreasRoomy ==
    ASSUME FramesFit, RoomInv, NEW t \in Task, NEW area \in Areas(t)
    PROVE  Roomy(area)
<1>1. CASE area = stack[StackOf[t]].area /\ area # None
  BY <1>1, TasksHaveStacks DEF RoomInv
<1>2. ASSUME NEW sz \in Sizes \cup {0}, NEW a \in Addresses, area = Guarded(sz, a),
             ~ (Padded(AtLeast(sz)) < AtLeast(sz))
      PROVE  Roomy(area)
  <2>1. area.limit = Padded(AtLeast(sz)) - PageSz - 16 - 16
    BY <1>2 DEF Guarded, Area
  <2>2. Padded(AtLeast(sz)) >= 8192 /\ Padded(AtLeast(sz)) \in Int
    <3>1. \A n \in Nat : Padded(n) \in Int
      BY SizeAssumption DEF RoundDown, PageSz, Padded
    <3> QED
      BY <1>2, <3>1, AtLeastIs, PaddedEnough
  <2> QED
    BY <2>1, <2>2 DEF Roomy, PageSz
<1>3. ASSUME NEW sz \in Sizes, NEW a \in Addresses, area = Plain(sz, a)
      PROVE  Roomy(area)
  <2>1. area.limit = AtLeast(sz) - 0 - 16 - 16
    BY <1>3 DEF Plain, Area
  <2> QED
    BY <2>1, AtLeastIs DEF Roomy
<1>4. ~ (Padded(AtLeast(0)) < AtLeast(0))
  <2>1. AtLeast(0) = 2097152 /\ Word \in Nat /\ Word > 2101248
    BY SizeAssumption DEF AtLeast, FramesFit
  <2>2. RoundDown(2097152, 4096) = 2097152 /\ 2097152 % 4096 = 0
    BY DEF RoundDown
  <2>3. Padded(2097152) = (2097152 + 4096) % Word
    BY <2>2 DEF Padded, PageSz
  <2>4. 2101248 % Word = 2101248
    BY <2>1
  <2> QED
    BY <2>1, <2>3, <2>4
<1>5. ASSUME NEW a \in Addresses, area = Guarded(0, a) PROVE Roomy(area)
  BY <1>2, <1>4, <1>5
<1>6. ASSUME NEW sz \in Sizes, NEW a \in Addresses, ~ TooLarge(sz, TRUE), area = Guarded(sz, a)
      PROVE  Roomy(area)
  <2>1. ~ (Padded(AtLeast(sz)) < AtLeast(sz))
    BY <1>6 DEF TooLarge
  <2> QED
    BY <1>2, <1>6, <2>1
<1> QED
  BY <1>1, <1>3, <1>5, <1>6, AreasAre

LEMMA NothingAsserts ==
    ASSUME FramesFit, CallInv, OwnInv, FrameInv, RoomInv, NEW x \in Thread, NEW t \in Task
    PROVE  ~ Asserts(x, t)
<1>1. \A u \in Task : reg[u].sp \in Nat /\ reg[u].sp <= 507
  BY DEF CallInv, CoTypeOK, RegType, RoomInv
<1>2. stack[StackOf[t]].owner \in Task \cup {None}
  BY TasksHaveStacks DEF OwnInv, StackType
<1>3. ASSUME NEW area, Roomy(area), area.limit \in Int,
             co[t].life = "unborn" \/ t \in ready
      PROVE  Fits(t, area)
  <2>1. stack[StackOf[t]].owner \notin {None, t} => 8 * reg[stack[StackOf[t]].owner].sp <= area.limit - 8
    BY <1>1, <1>2, <1>3 DEF Roomy
  <2>2. stack[StackOf[t]].owner # t => save[t].valid \in Nat /\ save[t].valid <= 507
    <3>1. CASE co[t].life = "unborn"
      BY <3>1 DEF FrameInv
    <3>2. CASE t \in ready
      BY <1>1, <3>2 DEF OwnInv, FrameInv, InPlace
    <3> QED
      BY <1>3, <3>1, <3>2
  <2>3. stack[StackOf[t]].owner # t => 8 * save[t].valid <= area.limit - 8
    BY <1>3, <2>2 DEF Roomy
  <2> QED
    BY <2>1, <2>3 DEF Fits
<1>4. ~ (at[x].stk = t /\ stack[StackOf[t]].owner # t)
  BY DEF OwnInv
<1>5. ~ (co[t].life = "unborn" /\ \E area \in Areas(t) : ~ Fits(t, area))
  <2>1. \A area \in Areas(t) : Roomy(area) /\ area.limit \in Int
    BY AreasRoomy, AreasTyped DEF AreaType
  <2> QED
    BY <1>3, <2>1
<1>6. ~ (t \in ready /\ ~ Fits(t, stack[StackOf[t]].area))
  <2>1. t \in ready => stack[StackOf[t]].area \in AreaType /\ Roomy(stack[StackOf[t]].area)
    BY DEF OwnInv, RoomInv
  <2> QED
    BY <1>3, <2>1 DEF AreaType
<1> QED
  BY <1>4, <1>5, <1>6 DEF Asserts

LEMMA EnterKeepsRoom ==
    ASSUME OwnInv, RoomInv, CallInv, NEW x \in Thread, NEW t \in Task, NEW word,
           NEW area \in AreaType, Roomy(area), Enters(x, t, word, area),
           co[t].life = "unborn" \/ t \in ready
    PROVE  RoomInv'
<1> DEFINE s == StackOf[t]
<1>1. s \in Stack /\ TakeStack(t, area)
  BY TasksHaveStacks DEF Enters
<1>2. /\ \A u \in Task : reg'[u] = reg[u]
      /\ \A u \in Task \ {t} : co'[u] = co[u]
      /\ UNCHANGED abort
  <2>1. MainOf(x, t) \in Main
    BY Mains DEF Enters
  <2> QED
    BY <2>1, Names DEF Enters, CallInv, CoTypeOK
<1>3. /\ stack'[s].area = area \/ (stack'[s].area = stack[s].area /\ co[t].life = "live")
      /\ \A r \in Stack \ {s} : stack'[r] = stack[r]
  <2>1. CASE stack[s].owner = t
    <3>1. UNCHANGED stack
      BY <1>1, <2>1, Taken DEF OwnInv
    <3>2. co[t].life = "live"
      BY <1>1, <2>1, Names DEF OwnInv
    <3> QED
      BY <3>1, <3>2
  <2>2. CASE stack[s].owner # t
    <3>1. stack' = [stack EXCEPT ![s] =
             [owner |-> t, area |-> area,
              words |-> Overlaid(stack[s].words, save[t].words, save[t].valid)]]
      BY <1>1, <2>2, Taken
    <3> QED
      BY <1>1, <3>1 DEF OwnInv
  <2> QED
    BY <2>1, <2>2
<1>4. stack'[s].area \in AreaType /\ Roomy(stack'[s].area)
  BY <1>3 DEF RoomInv
<1> QED
  BY <1>2, <1>3, <1>4, TasksHaveStacks DEF RoomInv

LEMMA StepRoom ==
    ASSUME FramesFit, OneAtATime, CallInv, OwnInv, FrameInv, RoomInv, [Next]_vars
    PROVE  RoomInv'
<1>1. CASE Inits \/ TooLargeStep
  BY <1>1 DEF Inits, TooLargeStep, Stays, RoomInv
<1>2. ASSUME NEW x \in Thread, NEW t \in Task, NEW area \in Areas(t), Constructed(x, t, area)
      PROVE  RoomInv'
  BY <1>2, AreasTyped, AreasRoomy, EnterKeepsRoom DEF Constructed
<1>3. ASSUME NEW x \in Thread, NEW t \in Task, Resumed(x, t) PROVE RoomInv'
  <2>1. stack[StackOf[t]].area \in AreaType /\ Roomy(stack[StackOf[t]].area)
    BY <1>3 DEF Resumed, OwnInv, RoomInv
  <2> QED
    BY <1>3, <2>1, EnterKeepsRoom DEF Resumed
<1>4. ASSUME NEW x \in Thread, NEW t \in Task, NEW depth, Leaves(x, t, depth),
             depth <= 507, depth \in Nat,
             \A s \in Stack : stack'[s].area = stack[s].area,
             \A u \in Task : co'[u].life = co[u].life
      PROVE  RoomInv'
  <2>1. \A u \in Task : reg'[u].sp <= 507
    BY <1>4 DEF Leaves, RoomInv, CallInv, CoTypeOK
  <2> QED
    BY <1>4, <2>1, TasksHaveStacks DEF Leaves, RoomInv
<1>5. ASSUME NEW x \in Thread, NEW t \in Task, NEW depth \in Depths, Yielded(x, t, depth)
      PROVE  RoomInv'
  <2>1. depth \in Nat /\ depth <= 507
    BY BoundAssumption DEF FramesFit
  <2>2. \A s \in Stack : stack'[s].area = stack[s].area
    BY <1>5 DEF Yielded, Worked, OwnInv, StackType
  <2>3. \A u \in Task : co'[u].life = co[u].life
    BY <1>5 DEF Yielded, CallInv, CoTypeOK, CoType
  <2> QED
    BY <1>4, <1>5, <2>1, <2>2, <2>3 DEF Yielded
<1>6. ASSUME NEW x \in Thread, NEW t \in Task, Exited(x, t) PROVE RoomInv'
  <2>1. \A s \in Stack : stack'[s].area = stack[s].area
    BY <1>6 DEF Exited, OwnInv, StackType
  <2>2. \A u \in Task : co'[u].life = co[u].life
    BY <1>6 DEF Exited, CallInv, CoTypeOK, CoType
  <2> QED
    BY <1>4, <1>6, <2>1, <2>2 DEF Exited
<1>7. ASSUME NEW x \in Thread, NEW t \in Task, Destroy(x, t) PROVE RoomInv'
  <2>1. UNCHANGED <<reg, abort>>
    BY <1>7 DEF Destroy
  <2> QED
    BY <1>7, <2>1, DestroyDoes, TasksHaveStacks DEF RoomInv
<1>8. ASSUME NEW x \in Thread, NEW s \in Stack, DestroyStack(x, s) PROVE RoomInv'
  <2>1. /\ UNCHANGED <<reg, co, abort>> /\ stack'[s].area = None
        /\ \A r \in Stack \ {s} : stack'[r] = stack[r]
        /\ \A t \in Task : StackOf[t] = s => co[t].life # "live"
    BY <1>8 DEF DestroyStack, OwnInv
  <2> QED
    BY <2>1, TasksHaveStacks DEF RoomInv
<1> QED
  BY <1>1, <1>2, <1>3, <1>5, <1>6, <1>7, <1>8, StepDoes, NothingAsserts

\* The assertions of aco_resume, aco_yield and aco_exit hold: a thread that yields is in
\* a coroutine, which owns its stack when it exits, and frames that are copied fit
\* (aco.c:381-454, aco.h:190-216, 224-304).
THEOREM AssertionsAlwaysHold == OneAtATime /\ FramesFit => (Spec => []AssertionsHold)
<1> SUFFICES ASSUME OneAtATime, FramesFit PROVE Spec => []AssertionsHold
  OBVIOUS
<1>1. Init => CallInv /\ OwnInv /\ FrameInv /\ RoomInv
  <2>1. Init => FrameInv /\ RoomInv
    BY DEF Init, FrameInv, RoomInv
  <2> QED
    BY <2>1, InitCall, InitOwners
<1>2. /\ CallInv /\ OwnInv /\ FrameInv /\ RoomInv /\ [Next]_vars
      => (CallInv /\ OwnInv /\ FrameInv /\ RoomInv)'
  BY StepCall, StepOwners, StepFrames, StepRoom
<1>3. RoomInv => AssertionsHold
  BY DEF RoomInv, AssertionsHold
<1> QED
  BY <1>1, <1>2, <1>3, PTL DEF Spec
=============================================================================
