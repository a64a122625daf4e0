-------------------------- MODULE SchedulerProofs --------------------------
(***************************************************************************)
(* Theorems about Scheduler, for any number of tasks, machines and p's,    *)
(* any programs and any choice of windows unless a theorem says otherwise. *)
(* First types, control and the p's; then where the tasks are: what the    *)
(* machines steal, which machine may be without a p, how long the queues   *)
(* get, and that a task is in one place.                                   *)
(***************************************************************************)
EXTENDS Scheduler, ListOpsProofs, FiniteSetTheorems

IInv == TypeOK /\ ControlOK /\ ReadsOK

USE DEF Woken, WithP, DrainTurns, OneThiefLess, Stolen, InSyscall, LetGo, Queued, Onto,
        WorkWaits

-----------------------------------------------------------------------------
(* Lists by name, and what a pop does to the types. *)

LEMMA ListNames ==
    /\ ListAt("p_idle") = pIdle
    /\ ListAt("m_idle") = mIdle
    /\ ListAt("global") = global
    /\ \A q \in P : ListAt(q) = local[q]
BY SetAssumption DEF ListAt

LEMMA PopType ==
    ASSUME ReadsOK, NEW t \in Thread, HasRead(t), NEW S, NEW l \in ListOf(S),
           l = ListAt(Target(t)), snap \in [Thread -> Reading \cup {None}]
    PROVE  /\ Rest(t, l) \in ListOf(S)
           /\ Taken(t, l) \in S \cup {None}
           /\ Split => Rest(t, l).log = l.log
           /\ ~ Split => Content(Rest(t, l)) =
                            IF Content(l) = << >> THEN << >> ELSE Tail(Content(l))
           /\ ~ Split => Taken(t, l) =
                            IF Content(l) = << >> THEN None ELSE Head(Content(l))
<1>1. CASE ~ Split
  BY <1>1, ContentType, PopContent DEF Rest, Taken, First
<1>2. CASE Split
  <2>1. /\ snap[t] # None
        /\ snap[t].head \in Nat /\ snap[t].next \in Nat
        /\ snap[t].head <= Len(l.log) /\ snap[t].next <= Len(l.log)
    BY <1>2 DEF HasRead, ReadsOK, ReadOK, Target, Reading
  <2>2. l.log \in Seq(S) /\ Len(l.log) \in Nat
    BY DEF ListOf
  <2>3. Rest(t, l) \in ListOf(S) /\ Rest(t, l).log = l.log
    BY <1>2, <2>1, <2>2 DEF Rest, First, StoreHead, ListOf
  <2>4. Taken(t, l) \in S \cup {None}
    BY <1>2, <2>1, <2>2 DEF Taken, First
  <2> QED
    BY <1>2, <2>3, <2>4
<1> QED
  BY <1>1, <1>2

LEMMA Targets ==
    ASSUME ReadsOK, NEW t \in Thread
    PROVE  /\ pc[t] \in {"gopop", "wake", "unblock"} => Target(t) = "p_idle"
           /\ pc[t] \in {"gojoin", "wakejoin", "freeze"} => Target(t) = "m_idle"
           /\ pc[t] = "drain" => Target(t) = "global"
           /\ pc[t] = "stealpop" => Target(t) = reg[t].vict
BY DEF ReadsOK, ReadOK, RightList, Target

-----------------------------------------------------------------------------
(* Every step keeps every variable in its set. *)

LEMMA TakePType ==
    ASSUME IInv, NEW m \in Machine, TakeP(m)
    PROVE  TypeOK'
<1>1. Rest(m, pIdle) \in ListOf(P) /\ Taken(m, pIdle) \in P \cup {None}
  BY ListNames, PopType DEF TakeP, TypeOK, Thread, IInv
<1> QED
  BY <1>1 DEF TakeP, TypeOK, PopDone, machs, lists, tasks, calls, Label, IInv

LEMMA GetLocalType ==
    ASSUME IInv, NEW m \in Machine, GetLocal(m)
    PROVE  TypeOK'
<1> DEFINE q == Target(m)
<1>1. q \in P
  BY DEF GetLocal
<1>2. Rest(m, local[q]) \in ListOf(Task) /\ Taken(m, local[q]) \in Task \cup {None}
  BY <1>1, ListNames, PopType DEF GetLocal, TypeOK, Thread, IInv
<1> QED
  BY <1>1, <1>2 DEF GetLocal, TypeOK, PopDone, machs, lists, tasks, calls, Label, IInv

LEMMA DrainType ==
    ASSUME IInv, NEW m \in Machine, Drain(m)
    PROVE  TypeOK'
<1> DEFINE t == Taken(m, global)
<1>1. Rest(m, global) \in ListOf(Task) /\ t \in Task \cup {None}
  BY ListNames, PopType, Targets DEF Drain, TypeOK, Thread, IInv
<1>2. local' \in [P -> ListOf(Task)]
  <2>1. CASE t = None
    BY <2>1 DEF Drain, IInv, TypeOK
  <2>2. CASE t # None
    <3>1. mp[m] \in P /\ local[mp[m]] \in ListOf(Task)
      BY DEF Drain, IInv, TypeOK
    <3>2. ListPush(local[mp[m]], t) \in ListOf(Task)
      BY <1>1, <2>2, <3>1, PushContent
    <3>3. local' = [local EXCEPT ![mp[m]] = ListPush(local[mp[m]], t)]
      BY <2>2 DEF Drain
    <3> QED
      BY <3>1, <3>2, <3>3 DEF IInv, TypeOK
  <2> QED
    BY <2>1, <2>2
<1>3. reg' \in [Machine -> Registers]
  <2>1. reg[m] \in Registers /\ reg[m].n \in Nat \ {0}
    BY DEF Drain, IInv, TypeOK, ControlOK, Registers
  <2>2. NoLoop \in Registers
    BY DEF NoLoop, Registers
  <2>3. ASSUME NEW hit \in {0, 1}, reg[m].n # 1
        PROVE  NextTurn(m, hit) \in Registers
    <3>1. reg[m].n - 1 \in Nat
      BY <2>1, <2>3
    <3> HIDE <2>3
    <3> QED
      BY <2>1, <3>1 DEF NextTurn, Registers
  <2>4. (IF t = None THEN reg[m].hit ELSE 1) \in {0, 1}
    BY <2>1 DEF Registers
  <2> QED
    BY <2>1, <2>2, <2>3, <2>4 DEF Drain, IInv, TypeOK
<1> QED
  BY <1>1, <1>2, <1>3 DEF Drain, TypeOK, PopDone, machs, lists, tasks, calls, Label, IInv

LEMMA LookGlobalType ==
    ASSUME IInv, NEW m \in Machine, LookGlobal(m)
    PROVE  TypeOK'
<1>1. [NoLoop EXCEPT !.n = MaxQueueLen] \in Registers
  BY BoundAssumption DEF NoLoop, Registers
<1>2. pc' \in [Thread -> Label]
  <2>1. \E l \in {"drain", "idlecheck"} : pc' = [pc EXCEPT ![m] = l]
    BY DEF LookGlobal
  <2> QED
    BY <2>1 DEF TypeOK, Label, IInv
<1>3. reg' \in [Machine -> Registers]
  BY <1>1 DEF LookGlobal, TypeOK, IInv
<1>4. UNCHANGED <<lists, mp, mco, mst, thief, spur, tasks, calls, snap>>
  BY DEF LookGlobal
<1> QED
  BY <1>2, <1>3, <1>4 DEF TypeOK, lists, tasks, calls, IInv

LEMMA DispatchType ==
    ASSUME IInv, NEW m \in Machine, Dispatch(m)
    PROVE  TypeOK'
<1>1. /\ mco[m] \in Task
      /\ \A q \in P : ListPush(local[q], mco[m]) \in ListOf(Task)
  BY PushContent DEF Dispatch, TypeOK, IInv, ControlOK, HoldsTask
<1>2. local' \in [P -> ListOf(Task)]
  BY <1>1 DEF Dispatch, TypeOK, IInv
<1>3. pc' \in [Thread -> Label]
  BY DEF Dispatch, TypeOK, IInv, Label
<1> QED
  BY <1>2, <1>3 DEF Dispatch, TypeOK, machs, lists, tasks, calls, IInv

LEMMA ThiefIncType ==
    ASSUME IInv, NEW m \in Machine, ThiefInc(m)
    PROVE  TypeOK'
<1>1. [NoLoop EXCEPT !.rounds = StealRounds, !.left = P] \in Registers
  BY BoundAssumption DEF NoLoop, Registers
<1> QED
  BY <1>1 DEF ThiefInc, TypeOK, machs, lists, tasks, calls, Label, IInv, Thread

LEMMA MissedType ==
    ASSUME IInv, NEW m \in Machine, NEW v, Missed(m, v)
    PROVE  reg' \in [Machine -> Registers] /\ pc' \in [Thread -> Label]
<1> DEFINE left == reg[m].left \ {v}
<1>1. reg[m] \in Registers /\ reg[m].rounds \in Nat /\ left \in SUBSET P
  BY DEF IInv, TypeOK, Registers
<1>2. /\ [NoLoop EXCEPT !.rounds = reg[m].rounds, !.left = left] \in Registers
      /\ NoLoop \in Registers
  BY <1>1 DEF NoLoop, Registers
<1>3. ASSUME reg[m].rounds > 1
      PROVE  [NoLoop EXCEPT !.rounds = reg[m].rounds - 1, !.left = P] \in Registers
  <2>1. reg[m].rounds - 1 \in Nat
    BY <1>1, <1>3
  <2> HIDE <1>3
  <2> QED
    BY <2>1 DEF NoLoop, Registers
<1>4. reg' \in [Machine -> Registers]
  BY <1>2, <1>3 DEF Missed, IInv, TypeOK
<1>5. pc' \in [Thread -> Label]
  BY DEF Missed, IInv, TypeOK, Label
<1> QED
  BY <1>4, <1>5

LEMMA StealType ==
    ASSUME IInv, NEW m \in Machine, Steal(m)
    PROVE  TypeOK'
<1>1. PICK v \in reg[m].left :
         LET len == ListLen(local[v])
         IN IF len = 0
            THEN Missed(m, v)
            ELSE /\ reg' = [reg EXCEPT ![m] =
                               [reg[m] EXCEPT !.n = len - (len \div 2), !.vict = v]]
                 /\ pc' = [pc EXCEPT ![m] = "stealpop"]
  BY DEF Steal
<1>2. v \in P /\ reg[m] \in Registers
  BY <1>1 DEF IInv, TypeOK, Registers
<1>3. ListLen(local[v]) \in Nat
  BY <1>2, ContentType DEF IInv, TypeOK, ListLen, ListOf
<1>4. reg' \in [Machine -> Registers] /\ pc' \in [Thread -> Label]
  <2>1. CASE ListLen(local[v]) = 0
    BY <1>1, <2>1, MissedType
  <2>2. CASE ListLen(local[v]) # 0
    <3> DEFINE n == ListLen(local[v]) - (ListLen(local[v]) \div 2)
    <3>1. n \in Nat
      BY <1>3
    <3>2. /\ reg' = [reg EXCEPT ![m] = [reg[m] EXCEPT !.n = n, !.vict = v]]
          /\ pc' = [pc EXCEPT ![m] = "stealpop"]
      BY <1>1, <2>2
    <3> HIDE DEF n
    <3>3. [reg[m] EXCEPT !.n = n, !.vict = v] \in Registers
      BY <1>2, <3>1 DEF Registers
    <3> QED
      BY <3>2, <3>3 DEF IInv, TypeOK, Label
  <2> QED
    BY <2>1, <2>2
<1> QED
  BY <1>4 DEF Steal, IInv, TypeOK, lists, machs, tasks, calls

LEMMA StealPopType ==
    ASSUME IInv, NEW m \in Machine, StealPop(m)
    PROVE  TypeOK'
<1> DEFINE v == reg[m].vict
           t == Taken(m, local[v])
           hit == IF t = None THEN reg[m].hit ELSE 1
           cut == [local EXCEPT ![v] = Rest(m, local[v])]
<1>1. v \in P /\ reg[m] \in Registers /\ reg[m].n \in Nat \ {0}
  BY DEF StealPop, IInv, TypeOK, ControlOK, Registers
<1>2. Rest(m, local[v]) \in ListOf(Task) /\ t \in Task \cup {None}
  BY <1>1, ListNames, PopType, Targets DEF StealPop, TypeOK, Thread, IInv
<1>3. cut \in [P -> ListOf(Task)]
  BY <1>2 DEF IInv, TypeOK
<1>4. local' \in [P -> ListOf(Task)]
  <2>1. local' = IF t = None THEN cut
                 ELSE [cut EXCEPT ![mp[m]] = ListPush(cut[mp[m]], t)]
    BY DEF StealPop
  <2>2. mp[m] \in P
    BY DEF StealPop, IInv, TypeOK
  <2> HIDE DEF cut, t
  <2>3. t # None => ListPush(cut[mp[m]], t) \in ListOf(Task)
    BY <1>2, <1>3, <2>2, PushContent
  <2> QED
    BY <1>3, <2>1, <2>2, <2>3
<1>5. hit \in {0, 1}
  BY <1>1 DEF Registers
<1>6. reg' \in [Machine -> Registers] /\ pc' \in [Thread -> Label] /\ thief' \in Int
  <2>1. CASE reg[m].n > 1
    <3>1. /\ reg' = [reg EXCEPT ![m] = NextTurn(m, hit)]
          /\ UNCHANGED <<pc, thief>>
      BY <2>1 DEF StealPop
    <3>2. reg[m].n - 1 \in Nat
      BY <1>1, <2>1
    <3> HIDE DEF hit
    <3>3. NextTurn(m, hit) \in Registers
      BY <1>1, <1>5, <3>2 DEF NextTurn, Registers
    <3> QED
      BY <3>1, <3>3 DEF IInv, TypeOK
  <2>2. CASE reg[m].n <= 1 /\ hit = 1
    <3>1. /\ reg' = [reg EXCEPT ![m] = NoLoop]
          /\ thief' = thief - 1
          /\ pc' = [pc EXCEPT ![m] = "loop"]
      BY <1>1, <2>2 DEF StealPop
    <3>2. reg' \in [Machine -> Registers]
      <4>1. NoLoop \in Registers
        BY DEF NoLoop, Registers
      <4> QED
        BY <3>1, <4>1 DEF IInv, TypeOK
    <3>3. pc' \in [Thread -> Label]
      BY <3>1 DEF IInv, TypeOK, Label
    <3>4. thief' \in Int
      BY <3>1 DEF IInv, TypeOK
    <3> QED
      BY <3>2, <3>3, <3>4
  <2>3. CASE reg[m].n <= 1 /\ hit # 1
    <3>1. Missed(m, v) /\ UNCHANGED thief
      BY <1>1, <2>3 DEF StealPop
    <3> QED
      BY <3>1, MissedType DEF IInv, TypeOK
  <2> QED
    BY <1>1, <2>1, <2>2, <2>3
<1> QED
  BY <1>4, <1>6 DEF StealPop, PopDone, IInv, TypeOK, lists, machs, tasks, calls

LEMMA ExecuteType ==
    ASSUME IInv, NEW m \in Machine, Execute(m)
    PROVE  TypeOK'
<1>1. mco[m] \in Task
  BY DEF Execute, IInv, TypeOK, ControlOK, HoldsTask
<1> DEFINE t == mco[m]
           op == IF pos[t] < Len(Program[t]) THEN Program[t][pos[t] + 1] ELSE "return"
<1>2. op \in Op \cup {"return"}
  BY <1>1, ProgramAssumption DEF IInv, TypeOK
<1>3. /\ pos' = IF op = "return" THEN pos ELSE [pos EXCEPT ![t] = pos[t] + 1]
      /\ tst' = [tst EXCEPT ![t] = CASE op = "return"  -> "deathed"
                                     [] op = "syscall" -> "freezed"
                                     [] op = "sleep"   -> "polling"
                                     [] op = "yield"   -> tst[t]]
      /\ pend' = IF op = "sleep" THEN pend \cup {t} ELSE pend
      /\ on' = IF op = "sleep" THEN on ELSE [on EXCEPT ![t] = on[t] \ {m}]
      /\ pc' = [pc EXCEPT ![m] = IF op = "sleep" THEN "issued" ELSE "after"]
  BY DEF Execute
<1> HIDE DEF op
<1>4. pos' \in [Task -> Nat]
  BY <1>1, <1>3 DEF IInv, TypeOK
<1>5. tst' \in [Task -> {"actived", "freezed", "polling", "deathed"}]
  BY <1>1, <1>2, <1>3 DEF IInv, TypeOK, Op
<1>6. pend' \in SUBSET Task /\ on' \in [Task -> SUBSET Machine]
  BY <1>1, <1>3 DEF IInv, TypeOK
<1>7. pc' \in [Thread -> Label]
  BY <1>3 DEF IInv, TypeOK, Label
<1> QED
  BY <1>4, <1>5, <1>6, <1>7 DEF Execute, IInv, TypeOK, lists, machs, calls

LEMMA UnblockType ==
    ASSUME IInv, NEW m \in Machine, Unblock(m)
    PROVE  TypeOK'
<1>1. Rest(m, pIdle) \in ListOf(P) /\ Taken(m, pIdle) \in P \cup {None}
  BY ListNames, PopType, Targets DEF Unblock, TypeOK, Thread, IInv
<1> QED
  BY <1>1 DEF Unblock, PopDone, IInv, TypeOK, lists, machs, tasks, calls, Label

LEMMA BindType ==
    ASSUME IInv, NEW t \in Thread, NEW m \in Machine, NEW q \in P \cup {None},
           NEW label \in Label, NEW next \in Label, Bind(t, m, q, label, next)
    PROVE  /\ mp' \in [Machine -> P \cup {None}]
           /\ pc' \in [Thread -> Label]
           /\ late' \in [Thread -> Machine \cup {None}]
           /\ mst' \in [Machine -> {"wait", "start", "block"}]
BY DEF Bind, IInv, TypeOK

LEMMA JoinType ==
    ASSUME IInv, NEW t \in Thread, NEW q \in P \cup {None}, NEW next \in Label,
           pc[t] \in {"gojoin", "wakejoin", "freeze"}, Join(t, q, next)
    PROVE  TypeOK'
<1>1. Rest(t, mIdle) \in ListOf(Machine) /\ Taken(t, mIdle) \in Machine \cup {None}
  BY ListNames, PopType, Targets DEF Join, TypeOK, IInv
<1>2. PICK m \in Machine, label \in Label : Bind(t, m, q, label, next)
  <2>1. CASE Taken(t, mIdle) # None
    <3> DEFINE n == Taken(t, mIdle)
    <3>1. n \in Machine /\ pc[n] \in Label
      BY <1>1, <2>1 DEF IInv, TypeOK, Thread
    <3>2. Bind(t, n, q, IF pc[n] = "waiting" THEN "loop" ELSE pc[n], next)
      BY <2>1 DEF Join
    <3> QED
      BY <3>1, <3>2 DEF Label
  <2>2. CASE Taken(t, mIdle) = None
    BY <2>2 DEF Join, Label
  <2> QED
    BY <2>1, <2>2
<1>3. /\ mp' \in [Machine -> P \cup {None}]
      /\ pc' \in [Thread -> Label]
      /\ late' \in [Thread -> Machine \cup {None}]
      /\ mst' \in [Machine -> {"wait", "start", "block"}]
  BY <1>2, BindType
<1> QED
  BY <1>1, <1>3 DEF Join, PopDone, IInv, TypeOK, tasks

LEMMA PopBeginType ==
    ASSUME IInv, NEW t \in Thread, PopBegin(t)
    PROVE  TypeOK'
<1> DEFINE name == Target(t)
           l == ListAt(name)
<1>1. snap' = [snap EXCEPT ![t] = [list |-> name, head |-> l.head,
                                   next |-> NextNode(l, l.head)]]
  BY DEF PopBegin
<1>2. name \in P \cup {"global", "p_idle", "m_idle"}
  <2>1. snap[t] = None /\ AtPop(t)
    BY DEF PopBegin
  <2>2. CASE pc[t] = "loop"
    <3>1. t \in Machine
      BY <2>2 DEF IInv, ControlOK, Thread
    <3>2. mp[t] \in P \cup {None}
      BY <3>1 DEF IInv, TypeOK
    <3> QED
      BY <2>1, <2>2, <3>2 DEF Target
  <2>3. CASE pc[t] = "stealpop"
    <3>1. t \in Machine
      BY <2>3 DEF IInv, ControlOK, Thread
    <3>2. reg[t].vict \in P
      BY <2>3, <3>1 DEF IInv, ControlOK, TypeOK, Registers
    <3> QED
      BY <2>1, <2>3, <3>2 DEF Target
  <2>4. CASE pc[t] \notin {"loop", "stealpop"}
    BY <2>1, <2>4 DEF AtPop, Target
  <2> QED
    BY <2>2, <2>3, <2>4
<1>3. /\ l \in ListOf(Task) \cup ListOf(P) \cup ListOf(Machine)
      /\ l.head \in Nat /\ NextNode(l, l.head) \in Nat
  <2>1. l \in ListOf(Task) \cup ListOf(P) \cup ListOf(Machine)
    BY <1>2, ListNames DEF IInv, TypeOK
  <2> QED
    BY <2>1 DEF ListOf, NextNode
<1> HIDE DEF l, name
<1>4. snap' \in [Thread -> Reading \cup {None}]
  BY <1>1, <1>2, <1>3 DEF IInv, TypeOK, Reading
<1> QED
  BY <1>4 DEF PopBegin, IInv, TypeOK, lists, machs, tasks, calls

LEMMA GoPopType ==
    ASSUME IInv, NEW c \in Caller, GoPop(c)
    PROVE  TypeOK'
<1>1. Rest(c, pIdle) \in ListOf(P) /\ Taken(c, pIdle) \in P \cup {None}
  BY ListNames, PopType, Targets DEF GoPop, TypeOK, Thread, IInv
<1>2. pc' \in [Thread -> Label] /\ snap' \in [Thread -> Reading \cup {None}]
  BY DEF GoPop, PopDone, Onto, IInv, TypeOK, Label
<1>3. /\ arg' = [arg EXCEPT ![c].p = Taken(c, pIdle)] /\ pIdle' = Rest(c, pIdle)
      /\ UNCHANGED <<global, local, mIdle, machs, tasks, todo, late>>
  BY DEF GoPop
<1>4. arg' \in [Caller -> [co : Task \cup {None}, p : P \cup {None}]]
  BY <1>1, <1>3 DEF IInv, TypeOK, Caller
<1> QED
  BY <1>1, <1>2, <1>3, <1>4 DEF IInv, TypeOK, machs, tasks

LEMMA GoPushType ==
    ASSUME IInv, NEW c \in Caller, GoPush(c)
    PROVE  TypeOK'
<1>1. arg[c].co \in Task /\ arg[c].p \in P
  BY DEF GoPush, IInv, TypeOK, ControlOK
<1>2. ListPush(local[arg[c].p], arg[c].co) \in ListOf(Task)
  BY <1>1, PushContent DEF IInv, TypeOK
<1> QED
  BY <1>1, <1>2 DEF GoPush, IInv, TypeOK, machs, tasks, calls, Label

LEMMA GoGlobalType ==
    ASSUME IInv, NEW c \in Caller, GoGlobal(c)
    PROVE  TypeOK'
<1>1. arg[c].co \in Task
  BY DEF GoGlobal, IInv, TypeOK, ControlOK
<1>2. ListPush(global, arg[c].co) \in ListOf(Task)
  BY <1>1, PushContent DEF IInv, TypeOK
<1> QED
  BY <1>1, <1>2 DEF GoGlobal, IInv, TypeOK, machs, tasks, calls, Label

LEMMA WakePopType ==
    ASSUME IInv, WakePop
    PROVE  TypeOK'
<1>0. Daemon \in Thread
  BY DEF Thread, Caller
<1>1. Rest(Daemon, pIdle) \in ListOf(P) /\ Taken(Daemon, pIdle) \in P \cup {None}
  BY <1>0, ListNames, PopType, Targets DEF WakePop, TypeOK, IInv
<1>2. pc' \in [Thread -> Label] /\ snap' \in [Thread -> Reading \cup {None}]
  BY DEF WakePop, PopDone, Onto, IInv, TypeOK, Label
<1>3. /\ arg' = [arg EXCEPT ![Daemon].p = Taken(Daemon, pIdle)] /\ pIdle' = Rest(Daemon, pIdle)
      /\ UNCHANGED <<global, local, mIdle, machs, tasks, todo, late>>
  BY DEF WakePop
<1>4. arg' \in [Caller -> [co : Task \cup {None}, p : P \cup {None}]]
  BY <1>1, <1>3 DEF IInv, TypeOK, Caller
<1> QED
  BY <1>1, <1>2, <1>3, <1>4 DEF IInv, TypeOK, machs, tasks

\* One step of a machine, and one of go or of the loop thread.
LEMMA MachineType ==
    ASSUME IInv, NEW m \in Machine, MachineStep(m) \/ SpuriousWake(m)
    PROVE  TypeOK'
<1> USE DEF IInv, TypeOK, ControlOK, lists, machs, tasks, calls, Thread, HoldsTask, Label
<1>1. CASE TakeP(m)
  BY <1>1, TakePType
<1>2. CASE GetLocal(m)
  BY <1>2, GetLocalType
<1>3. CASE LookGlobal(m)
  BY <1>3, LookGlobalType
<1>4. CASE Drain(m)
  BY <1>4, DrainType
<1>5. CASE IdleCheck(m)
  BY <1>5 DEF IdleCheck
<1>6. CASE ThiefCheck(m)
  BY <1>6 DEF ThiefCheck
<1>7. CASE ThiefInc(m)
  BY <1>7, ThiefIncType
<1>8. CASE Steal(m)
  BY <1>8, StealType
<1>9. CASE StealPop(m)
  BY <1>9, StealPopType
<1>10. CASE ThiefDec(m)
  BY <1>10 DEF ThiefDec
<1>11. CASE GetStop(m)
  BY <1>11 DEF GetStop
<1>12. CASE ReleaseP(m)
  BY <1>12, PushContent DEF ReleaseP
<1>13. CASE Resume(m)
  BY <1>13 DEF Resume
<1>14. CASE Execute(m)
  BY <1>14, ExecuteType
<1>15. CASE YieldAsync(m)
  BY <1>15 DEF YieldAsync
<1>16. CASE AfterRun(m)
  BY <1>16 DEF AfterRun
<1>17. CASE Unblock(m)
  BY <1>17, UnblockType
<1>18. CASE ToGlobal(m)
  BY <1>18, PushContent DEF ToGlobal
<1>19. CASE Dispatch(m)
  BY <1>19, DispatchType
<1>20. CASE Freeze(m)
  BY <1>20, JoinType DEF Freeze
<1>21. CASE HandOff(m)
  BY <1>21 DEF HandOff
<1>22. CASE StopRelease(m)
  BY <1>22, PushContent DEF StopRelease
<1>23. CASE Park(m)
  BY <1>23, PushContent DEF Park
<1>24. CASE Wait(m)
  BY <1>24 DEF Wait
<1>25. CASE SpuriousWake(m)
  BY <1>25 DEF SpuriousWake
<1> QED
  BY <1>1, <1>2, <1>3, <1>4, <1>5, <1>6, <1>7, <1>8, <1>9, <1>10, <1>11, <1>12, <1>13, <1>14, <1>15, <1>16, <1>17, <1>18, <1>19, <1>20, <1>21, <1>22, <1>23, <1>24, <1>25 DEF MachineStep

LEMMA CallerType ==
    ASSUME IInv,
           \/ \E c \in Caller : GoStep(c)
           \/ \E t \in Task : Submit(t) \/ Callback(t)
           \/ LoopStep
    PROVE  TypeOK'
<1>0. ASSUME NEW c \in Caller, NEW t \in Task
      PROVE  [arg EXCEPT ![c].co = t] \in [Caller -> [co : Task \cup {None}, p : P \cup {None}]]
  BY DEF IInv, TypeOK
<1> USE DEF IInv, TypeOK, ControlOK, lists, machs, tasks, calls, Thread, HoldsTask, Label, Caller
<1>1. ASSUME NEW c \in Caller, GoPop(c) PROVE TypeOK'
  BY <1>1, GoPopType
<1>2. ASSUME NEW c \in Caller, GoPush(c) PROVE TypeOK'
  BY <1>2, GoPushType
<1>3. ASSUME NEW c \in Caller, GoJoin(c) PROVE TypeOK'
  BY <1>3, JoinType DEF GoJoin
<1>4. ASSUME NEW c \in Caller, GoGlobal(c) PROVE TypeOK'
  BY <1>4, GoGlobalType
<1>5. ASSUME NEW t \in Task, Submit(t) PROVE TypeOK'
  <2>1. arg' \in [Caller -> [co : Task \cup {None}, p : P \cup {None}]]
    BY <1>0, <1>5 DEF Submit
  <2>2. pc' = [pc EXCEPT ![Main] = "gopop"] /\ todo' = todo \ {t}
        /\ UNCHANGED <<lists, machs, tasks, late, snap>>
    BY <1>5 DEF Submit
  <2> QED
    BY <2>1, <2>2
<1>6. ASSUME NEW t \in Task, Callback(t) PROVE TypeOK'
  <2>1. arg' \in [Caller -> [co : Task \cup {None}, p : P \cup {None}]]
    BY <1>0, <1>6 DEF Callback
  <2>2. pc' = [pc EXCEPT ![Daemon] = "gopop"] /\ pend' = pend \ {t}
        /\ UNCHANGED <<lists, machs, tst, pos, on, todo, late, snap>>
    BY <1>6 DEF Callback
  <2> QED
    BY <2>1, <2>2
<1>7. ASSUME Tick PROVE TypeOK'
  BY <1>7 DEF Tick
<1>8. ASSUME WakePop PROVE TypeOK'
  BY <1>8, WakePopType
<1>9. ASSUME WakeJoin PROVE TypeOK'
  BY <1>9, JoinType DEF WakeJoin
<1> QED
  BY <1>1, <1>2, <1>3, <1>4, <1>5, <1>6, <1>7, <1>8, <1>9 DEF GoStep, LoopStep

LEMMA JoinStoreType ==
    ASSUME IInv, NEW t \in Thread, JoinStore(t)
    PROVE  TypeOK'
BY DEF JoinStore, IInv, TypeOK, lists, tasks

-----------------------------------------------------------------------------
(* Every step keeps ControlOK. *)

LEMMA DrainControl ==
    ASSUME IInv, NEW m \in Machine, Drain(m)
    PROVE  ControlOK'
<1>1. reg[m] \in Registers /\ reg[m].n \in Nat \ {0}
  BY DEF Drain, IInv, TypeOK, ControlOK, Registers
<1>2. \A hit \in {0, 1} : reg[m].n # 1 => NextTurn(m, hit).n > 0
  BY <1>1 DEF NextTurn, Registers
<1>3. pc'[m] = "drain" => reg'[m].n > 0
  <2>1. (IF Taken(m, global) = None THEN reg[m].hit ELSE 1) \in {0, 1}
    BY <1>1 DEF Registers
  <2> QED
    BY <1>2, <2>1 DEF Drain, IInv, TypeOK, Thread
<1>4. pc'[m] \in {"drain", "loop", "idlecheck"}
  BY DEF Drain, IInv, TypeOK, Thread
<1>5. /\ UNCHANGED <<mco, arg>>
      /\ \A u \in Thread \ {m} : pc'[u] = pc[u]
      /\ \A u \in Machine \ {m} : reg'[u] = reg[u]
      /\ mco[m] = None
  BY DEF Drain, IInv, TypeOK, ControlOK, HoldsTask, calls, Thread
<1> QED
  BY <1>3, <1>4, <1>5, SetAssumption DEF IInv, ControlOK, HoldsTask, Thread, Caller

LEMMA MissedControl ==
    ASSUME IInv, NEW m \in Machine, NEW v, Missed(m, v)
    PROVE  /\ pc'[m] \in {"steal", "thiefdec"}
           /\ \A u \in Thread \ {m} : pc'[u] = pc[u]
           /\ \A u \in Machine \ {m} : reg'[u] = reg[u]
BY DEF Missed, IInv, TypeOK, Thread

LEMMA StealControl ==
    ASSUME IInv, NEW m \in Machine, Steal(m)
    PROVE  ControlOK'
<1>1. PICK v \in reg[m].left :
         LET len == ListLen(local[v])
         IN IF len = 0
            THEN Missed(m, v)
            ELSE /\ reg' = [reg EXCEPT ![m] =
                               [reg[m] EXCEPT !.n = len - (len \div 2), !.vict = v]]
                 /\ pc' = [pc EXCEPT ![m] = "stealpop"]
  BY DEF Steal
<1>2. v \in P /\ reg[m] \in Registers
  BY <1>1 DEF IInv, TypeOK, Registers
<1>3. UNCHANGED <<mco, arg>> /\ mco[m] = None
  BY DEF Steal, IInv, ControlOK, HoldsTask, calls
<1>4. /\ pc'[m] \in {"steal", "thiefdec", "stealpop"}
      /\ \A u \in Thread \ {m} : pc'[u] = pc[u]
      /\ \A u \in Machine \ {m} : reg'[u] = reg[u]
      /\ pc'[m] = "stealpop" => reg'[m].n > 0 /\ reg'[m].vict # None
  <2>1. CASE ListLen(local[v]) = 0
    BY <1>1, <2>1, MissedControl
  <2>2. CASE ListLen(local[v]) # 0
    <3> DEFINE n == ListLen(local[v]) - (ListLen(local[v]) \div 2)
    <3>1. n > 0
      <4>1. ListLen(local[v]) \in Nat
        BY <1>2 DEF IInv, TypeOK, ListLen, ListOf
      <4> QED
        BY <2>2, <4>1
    <3>2. /\ reg' = [reg EXCEPT ![m] = [reg[m] EXCEPT !.n = n, !.vict = v]]
          /\ pc' = [pc EXCEPT ![m] = "stealpop"]
      BY <1>1, <2>2
    <3> HIDE DEF n
    <3>3. /\ [reg[m] EXCEPT !.n = n, !.vict = v].n = n
          /\ [reg[m] EXCEPT !.n = n, !.vict = v].vict = v
      BY <1>2 DEF Registers
    <3> QED
      BY <1>2, <3>1, <3>2, <3>3, SetAssumption DEF IInv, TypeOK, Thread
  <2> QED
    BY <2>1, <2>2
<1> QED
  BY <1>3, <1>4, SetAssumption DEF IInv, ControlOK, HoldsTask, Thread, Caller

LEMMA StealPopControl ==
    ASSUME IInv, NEW m \in Machine, StealPop(m)
    PROVE  ControlOK'
<1>1. reg[m] \in Registers /\ reg[m].n \in Nat \ {0} /\ reg[m].vict # None
  BY DEF StealPop, IInv, TypeOK, ControlOK, Registers
<1>2. UNCHANGED <<mco, arg>> /\ mco[m] = None
  BY DEF StealPop, IInv, ControlOK, HoldsTask, calls
<1> DEFINE v == reg[m].vict
           hit == IF Taken(m, local[v]) = None THEN reg[m].hit ELSE 1
<1>3. /\ pc'[m] \in {"steal", "thiefdec", "stealpop", "loop"}
      /\ \A u \in Thread \ {m} : pc'[u] = pc[u]
      /\ \A u \in Machine \ {m} : reg'[u] = reg[u]
      /\ pc'[m] = "stealpop" => reg'[m].n > 0 /\ reg'[m].vict # None
  <2>1. CASE reg[m].n > 1
    <3>1. reg' = [reg EXCEPT ![m] = NextTurn(m, hit)] /\ pc' = pc
      BY <2>1 DEF StealPop
    <3> HIDE DEF hit
    <3>2. NextTurn(m, hit).n = reg[m].n - 1 /\ NextTurn(m, hit).vict = reg[m].vict
      BY <1>1 DEF NextTurn, Registers
    <3> QED
      BY <1>1, <2>1, <3>1, <3>2 DEF StealPop, IInv, TypeOK
  <2>2. CASE reg[m].n <= 1 /\ hit = 1
    <3>1. reg' = [reg EXCEPT ![m] = NoLoop] /\ pc' = [pc EXCEPT ![m] = "loop"]
      BY <1>1, <2>2 DEF StealPop
    <3> QED
      BY <3>1 DEF IInv, TypeOK, Thread
  <2>3. CASE reg[m].n <= 1 /\ hit # 1
    <3>1. Missed(m, v)
      BY <1>1, <2>3 DEF StealPop
    <3> QED
      BY <3>1, MissedControl
  <2> QED
    BY <1>1, <2>1, <2>2, <2>3
<1> QED
  BY <1>2, <1>3, SetAssumption DEF IInv, ControlOK, HoldsTask, Thread, Caller

\* Whom a join moves: the thread itself and at most one machine, which was
\* asleep or did not exist.
LEMMA JoinMoves ==
    ASSUME IInv, NEW t \in Thread, NEW q, NEW next, Join(t, q, next),
           pc[t] \in {"gojoin", "wakejoin", "freeze"}
    PROVE  /\ pc'[t] = next
           /\ \A u \in Thread \ {t} :
                 \/ pc'[u] = pc[u]
                 \/ u \in Machine /\ pc[u] \in {"waiting", "unborn"} /\ pc'[u] = "loop"
<1>1. Taken(t, mIdle) \in Machine \cup {None}
  BY ListNames, PopType, Targets DEF Join, TypeOK, IInv
<1>2. PICK m \in Machine, label \in Label :
         /\ Bind(t, m, q, label, next)
         /\ label = pc[m] \/ (pc[m] \in {"waiting", "unborn"} /\ label = "loop")
  <2>0. "loop" \in Label /\ \A m \in Machine : pc[m] \in Label
    BY DEF IInv, TypeOK, Thread, Label
  <2>1. CASE Taken(t, mIdle) # None
    BY <1>1, <2>0, <2>1 DEF Join
  <2>2. CASE Taken(t, mIdle) = None
    BY <2>0, <2>2 DEF Join
  <2> QED
    BY <2>1, <2>2
<1> QED
  BY <1>2 DEF Bind, IInv, TypeOK, Thread

LEMMA JoinControl ==
    ASSUME IInv, NEW t \in Thread, NEW q, NEW next, Join(t, q, next),
           \/ t \in Machine /\ next = "handoff" /\ pc[t] = "freeze"
           \/ t = Daemon /\ next = "wake" /\ pc[t] = "wakejoin"
           \/ t \in Caller /\ next = "idle" /\ pc[t] = "gojoin"
    PROVE  ControlOK'
<1>1. UNCHANGED <<mco, reg, arg>>
  BY DEF Join
<1> QED
  BY <1>1, JoinMoves, SetAssumption DEF IInv, ControlOK, HoldsTask, Thread, Caller

\* One step of a machine, and one of go or of the loop thread.
LEMMA MachineControl ==
    ASSUME IInv, NEW m \in Machine, MachineStep(m) \/ SpuriousWake(m)
    PROVE  ControlOK'
<1> USE DEF IInv, TypeOK, ControlOK, lists, machs, tasks, calls, Thread, HoldsTask, Caller
<1>1. CASE TakeP(m)
  BY <1>1, SetAssumption, BoundAssumption DEF TakeP
<1>2. CASE GetLocal(m)
  BY <1>2, SetAssumption, BoundAssumption DEF GetLocal
<1>3. CASE LookGlobal(m)
  BY <1>3, SetAssumption, BoundAssumption DEF LookGlobal, NoLoop
<1>4. CASE Drain(m)
  BY <1>4, DrainControl
<1>5. CASE IdleCheck(m)
  BY <1>5, SetAssumption, BoundAssumption DEF IdleCheck
<1>6. CASE ThiefCheck(m)
  BY <1>6, SetAssumption, BoundAssumption DEF ThiefCheck
<1>7. CASE ThiefInc(m)
  BY <1>7, SetAssumption, BoundAssumption DEF ThiefInc, NoLoop
<1>8. CASE Steal(m)
  BY <1>8, StealControl
<1>9. CASE StealPop(m)
  BY <1>9, StealPopControl
<1>10. CASE ThiefDec(m)
  BY <1>10, SetAssumption, BoundAssumption DEF ThiefDec
<1>11. CASE GetStop(m)
  BY <1>11, SetAssumption, BoundAssumption DEF GetStop
<1>12. CASE ReleaseP(m)
  BY <1>12, SetAssumption, BoundAssumption DEF ReleaseP
<1>13. CASE Resume(m)
  BY <1>13, SetAssumption, BoundAssumption DEF Resume
<1>14. CASE Execute(m)
  BY <1>14, SetAssumption, BoundAssumption DEF Execute
<1>15. CASE YieldAsync(m)
  BY <1>15, SetAssumption, BoundAssumption DEF YieldAsync
<1>16. CASE AfterRun(m)
  BY <1>16, SetAssumption, BoundAssumption DEF AfterRun
<1>17. CASE Unblock(m)
  BY <1>17, SetAssumption, BoundAssumption DEF Unblock
<1>18. CASE ToGlobal(m)
  BY <1>18, SetAssumption, BoundAssumption DEF ToGlobal
<1>19. CASE Dispatch(m)
  BY <1>19, SetAssumption, BoundAssumption DEF Dispatch
<1>20. CASE Freeze(m)
  BY <1>20, JoinControl DEF Freeze
<1>21. CASE HandOff(m)
  BY <1>21, SetAssumption, BoundAssumption DEF HandOff
<1>22. CASE StopRelease(m)
  BY <1>22, SetAssumption, BoundAssumption DEF StopRelease
<1>23. CASE Park(m)
  BY <1>23, SetAssumption, BoundAssumption DEF Park
<1>24. CASE Wait(m)
  BY <1>24, SetAssumption, BoundAssumption DEF Wait
<1>25. CASE SpuriousWake(m)
  BY <1>25, SetAssumption, BoundAssumption DEF SpuriousWake
<1> QED
  BY <1>1, <1>2, <1>3, <1>4, <1>5, <1>6, <1>7, <1>8, <1>9, <1>10, <1>11, <1>12, <1>13, <1>14, <1>15, <1>16, <1>17, <1>18, <1>19, <1>20, <1>21, <1>22, <1>23, <1>24, <1>25 DEF MachineStep

LEMMA CallerControl ==
    ASSUME IInv,
           \/ \E c \in Caller : GoStep(c)
           \/ \E t \in Task : Submit(t) \/ Callback(t)
           \/ LoopStep
    PROVE  ControlOK'
<1> USE DEF IInv, TypeOK, ControlOK, lists, machs, tasks, calls, Thread, HoldsTask, Caller
<1>1. ASSUME NEW c \in Caller, GoPop(c) PROVE ControlOK'
  BY <1>1, SetAssumption DEF GoPop
<1>2. ASSUME NEW c \in Caller, GoPush(c) PROVE ControlOK'
  BY <1>2, SetAssumption DEF GoPush
<1>3. ASSUME NEW c \in Caller, GoJoin(c) PROVE ControlOK'
  BY <1>3, JoinControl DEF GoJoin
<1>4. ASSUME NEW c \in Caller, GoGlobal(c) PROVE ControlOK'
  BY <1>4, SetAssumption DEF GoGlobal
<1>5. ASSUME NEW t \in Task, Submit(t) PROVE ControlOK'
  BY <1>5, SetAssumption DEF Submit
<1>6. ASSUME NEW t \in Task, Callback(t) PROVE ControlOK'
  BY <1>6, SetAssumption DEF Callback
<1>7. ASSUME Tick PROVE ControlOK'
  BY <1>7, SetAssumption DEF Tick
<1>8. ASSUME WakePop PROVE ControlOK'
  BY <1>8, SetAssumption DEF WakePop
<1>9. ASSUME WakeJoin PROVE ControlOK'
  BY <1>9, JoinControl DEF WakeJoin
<1> QED
  BY <1>1, <1>2, <1>3, <1>4, <1>5, <1>6, <1>7, <1>8, <1>9 DEF GoStep, LoopStep

LEMMA JoinStoreControl ==
    ASSUME IInv, NEW t \in Thread, JoinStore(t)
    PROVE  ControlOK'
BY DEF JoinStore, IInv, ControlOK

LEMMA PopBeginControl ==
    ASSUME IInv, NEW t \in Thread, PopBegin(t)
    PROVE  ControlOK'
BY DEF PopBegin, IInv, ControlOK, machs, calls, tasks

-----------------------------------------------------------------------------
(* Every step keeps ReadsOK: while a pop is under way nothing moves its     *)
(* thread, and with pops in two halves no list loses a node.               *)

Longer(k, l) == Len(k.log) <= Len(l.log)

LEMMA ReadsKept ==
    ASSUME IInv, TypeOK', NEW t \in Thread, snap' = [snap EXCEPT ![t] = None],
           \A u \in Thread \ {t} : pc'[u] = pc[u] \/ ~ AtPop(u),
           \A u \in Machine \ {t} : mco'[u] = mco[u] /\ reg'[u] = reg[u],
           Split => /\ Longer(global, global') /\ Longer(pIdle, pIdle')
                    /\ Longer(mIdle, mIdle')
                    /\ \A q \in P : Longer(local[q], local'[q])
    PROVE  ReadsOK'
<1> SUFFICES ASSUME NEW u \in Thread, snap'[u] # None
             PROVE  ReadOK(u)'
  BY DEF ReadsOK
<1>1. u # t /\ snap'[u] = snap[u] /\ snap[u] # None
  BY DEF IInv, TypeOK
<1>2. Split /\ AtPop(u) /\ pc'[u] = pc[u]
  BY <1>1 DEF IInv, ReadsOK, ReadOK
<1>3. pc[u] \in {"loop", "stealpop"} => u \in Machine /\ mco'[u] = mco[u] /\ reg'[u] = reg[u]
  BY <1>1 DEF IInv, ControlOK, Thread
<1>4. AtPop(u)'
  BY <1>2, <1>3 DEF AtPop
<1> DEFINE name == snap[u].list
<1>5. name \in P \cup {"global", "p_idle", "m_idle"}
  BY <1>1 DEF IInv, TypeOK, Reading
<1>6. Longer(ListAt(name), ListAt(name)')
  BY <1>2, <1>5, SetAssumption DEF ListAt
<1>7. /\ snap[u].head \in Nat /\ snap[u].next \in Nat
      /\ snap[u].head <= Len(ListAt(name).log)
      /\ snap[u].next <= Len(ListAt(name).log)
  BY <1>1 DEF IInv, TypeOK, ReadsOK, ReadOK, Reading
<1>8. Len(ListAt(name).log) \in Nat /\ Len(ListAt(name)'.log) \in Nat
  <2>1. ListAt(name) \in ListOf(Task) \cup ListOf(P) \cup ListOf(Machine)
    BY <1>5, SetAssumption DEF ListAt, IInv, TypeOK
  <2>2. ListAt(name)' \in ListOf(Task) \cup ListOf(P) \cup ListOf(Machine)
    BY <1>5, SetAssumption DEF ListAt, TypeOK
  <2> QED
    BY <2>1, <2>2 DEF ListOf
<1>9. snap[u].head <= Len(ListAt(name)'.log) /\ snap[u].next <= Len(ListAt(name)'.log)
  BY <1>6, <1>7, <1>8 DEF Longer
<1>10. RightList(u)'
  BY <1>1, <1>2, <1>3 DEF IInv, ReadsOK, ReadOK, RightList
<1>11. ListAt(snap[u].list)' = ListAt(name)'
  BY <1>1 DEF ListAt
<1> QED
  BY <1>1, <1>2, <1>4, <1>9, <1>10, <1>11 DEF ReadOK, Split

LEMMA QuietReads ==
    ASSUME IInv, TypeOK', NEW t \in Thread, ~ AtPop(t), UNCHANGED <<snap, lists>>,
           \A u \in Thread \ {t} : pc'[u] = pc[u] \/ ~ AtPop(u),
           \A u \in Machine \ {t} : mco'[u] = mco[u] /\ reg'[u] = reg[u]
    PROVE  ReadsOK'
<1>1. snap[t] = None
  BY DEF IInv, ReadsOK, ReadOK
<1>2. snap' = [snap EXCEPT ![t] = None]
  BY <1>1 DEF IInv, TypeOK
<1>3. /\ Longer(global, global') /\ Longer(pIdle, pIdle')
      /\ Longer(mIdle, mIdle')
      /\ \A q \in P : Longer(local[q], local'[q])
  BY DEF lists, Longer, IInv, TypeOK, ListOf
<1> QED
  BY <1>2, <1>3, ReadsKept

LEMMA PushLonger ==
    ASSUME NEW S, NEW l \in ListOf(S), NEW v
    PROVE  Longer(l, ListPush(l, v)) /\ Longer(l, l)
BY DEF Longer, ListPush, ListOf

LEMMA QuietMachineReads ==
    ASSUME IInv, TypeOK', NEW m \in Machine,
           \/ LookGlobal(m) \/ IdleCheck(m) \/ ThiefCheck(m) \/ ThiefInc(m) \/ Steal(m)
           \/ ThiefDec(m) \/ GetStop(m) \/ Resume(m) \/ Execute(m) \/ YieldAsync(m)
           \/ AfterRun(m) \/ HandOff(m) \/ Wait(m) \/ SpuriousWake(m)
    PROVE  ReadsOK'
<1>0. /\ m \in Thread /\ pc \in [Thread -> Label]
      /\ mco \in [Machine -> Task \cup {None}] /\ reg \in [Machine -> Registers]
  BY DEF IInv, TypeOK, Thread
<1> USE <1>0 DEF lists, machs, tasks, calls
<1>1. CASE LookGlobal(m)
  BY <1>1, QuietReads DEF LookGlobal, AtPop
<1>2. CASE IdleCheck(m)
  BY <1>2, QuietReads DEF IdleCheck, AtPop
<1>3. CASE ThiefCheck(m)
  BY <1>3, QuietReads DEF ThiefCheck, AtPop
<1>4. CASE ThiefInc(m)
  BY <1>4, QuietReads DEF ThiefInc, AtPop
<1>5. CASE Steal(m)
  <2>1. /\ \A u \in Thread \ {m} : pc'[u] = pc[u]
        /\ \A u \in Machine \ {m} : reg'[u] = reg[u]
    BY <1>5, MissedControl DEF Steal
  <2> QED
    BY <1>5, <2>1, QuietReads DEF Steal, AtPop
<1>6. CASE ThiefDec(m)
  BY <1>6, QuietReads DEF ThiefDec, AtPop
<1>7. CASE GetStop(m)
  BY <1>7, QuietReads DEF GetStop, AtPop
<1>8. CASE Resume(m)
  <2>1. /\ m \in Thread /\ ~ AtPop(m)
        /\ UNCHANGED <<snap, lists>> /\ UNCHANGED <<mco, reg>>
    BY <1>8 DEF Resume, AtPop
  <2>2. \A u \in Thread \ {m} : pc'[u] = pc[u]
    BY <1>8 DEF Resume
  <2> QED
    BY <2>1, <2>2, QuietReads
<1>9. CASE Execute(m)
  BY <1>9, QuietReads DEF Execute, AtPop
<1>10. CASE YieldAsync(m)
  BY <1>10, QuietReads DEF YieldAsync, AtPop
<1>11. CASE AfterRun(m)
  BY <1>11, QuietReads DEF AfterRun, AtPop
<1>12. CASE HandOff(m)
  BY <1>12, QuietReads DEF HandOff, AtPop
<1>13. CASE Wait(m)
  BY <1>13, QuietReads DEF Wait, AtPop
<1>14. CASE SpuriousWake(m)
  BY <1>14, QuietReads DEF SpuriousWake, AtPop
<1> QED
  BY <1>1, <1>2, <1>3, <1>4, <1>5, <1>6, <1>7, <1>8, <1>9, <1>10, <1>11, <1>12, <1>13, <1>14

\* The steps that push to a list.
LEMMA PushReads ==
    ASSUME IInv, TypeOK', NEW t \in Thread, ~ AtPop(t), UNCHANGED <<snap, reg>>,
           \A u \in Thread \ {t} : pc'[u] = pc[u],
           \A u \in Machine \ {t} : mco'[u] = mco[u],
           \/ UNCHANGED global \/ \E v : global' = ListPush(global, v),
           \/ UNCHANGED pIdle \/ \E v : pIdle' = ListPush(pIdle, v),
           \/ UNCHANGED mIdle \/ \E v : mIdle' = ListPush(mIdle, v),
           \/ UNCHANGED local
           \/ \E q \in P : \E v : local' = [local EXCEPT ![q] = ListPush(local[q], v)]
    PROVE  ReadsOK'
<1>1. snap[t] = None
  BY DEF IInv, ReadsOK, ReadOK
<1>2. snap' = [snap EXCEPT ![t] = None]
  BY <1>1 DEF IInv, TypeOK
<1>3. Longer(global, global') /\ Longer(pIdle, pIdle') /\ Longer(mIdle, mIdle')
  <2>1. global \in ListOf(Task) /\ pIdle \in ListOf(P) /\ mIdle \in ListOf(Machine)
    BY DEF IInv, TypeOK
  <2>2. \A v : /\ Longer(global, ListPush(global, v)) /\ Longer(global, global)
               /\ Longer(pIdle, ListPush(pIdle, v)) /\ Longer(pIdle, pIdle)
               /\ Longer(mIdle, ListPush(mIdle, v)) /\ Longer(mIdle, mIdle)
    BY <2>1, PushLonger
  <2> QED
    BY <2>2
<1>4. ASSUME NEW r \in P PROVE Longer(local[r], local'[r])
  <2>1. local[r] \in ListOf(Task) /\ local \in [P -> ListOf(Task)]
    BY DEF IInv, TypeOK
  <2>2. \A v : Longer(local[r], ListPush(local[r], v)) /\ Longer(local[r], local[r])
    BY <2>1, PushLonger
  <2> QED
    BY <2>1, <2>2
<1> QED
  BY <1>2, <1>3, <1>4, ReadsKept

\* The steps that complete a pop, which may push what it gave elsewhere.
LEMMA PopReads ==
    ASSUME IInv, TypeOK', NEW t \in Thread, PopDone(t),
           \A u \in Thread \ {t} : pc'[u] = pc[u] \/ ~ AtPop(u),
           \A u \in Machine \ {t} : mco'[u] = mco[u] /\ reg'[u] = reg[u],
           Split => /\ global'.log = global.log
                    /\ pIdle'.log = pIdle.log
                    /\ mIdle'.log = mIdle.log
                    /\ \A q \in P : Longer(local[q], local'[q])
    PROVE  ReadsOK'
<1>1. Split => Longer(global, global') /\ Longer(pIdle, pIdle') /\ Longer(mIdle, mIdle')
  BY DEF Longer, IInv, TypeOK, ListOf
<1> QED
  BY <1>1, ReadsKept DEF PopDone

LEMMA PushMachineReads ==
    ASSUME IInv, TypeOK', NEW m \in Machine,
           ReleaseP(m) \/ ToGlobal(m) \/ StopRelease(m) \/ Park(m) \/ Dispatch(m)
    PROVE  ReadsOK'
<1>1. m \in Thread /\ ~ AtPop(m)
  BY DEF ReleaseP, ToGlobal, StopRelease, Park, Dispatch, AtPop, Thread
<1>2. \A u \in Thread \ {m} : pc'[u] = pc[u]
  BY DEF ReleaseP, ToGlobal, StopRelease, Park, Dispatch, IInv, TypeOK
<1>3. UNCHANGED <<snap, reg>> /\ \A u \in Machine \ {m} : mco'[u] = mco[u]
  BY DEF ReleaseP, ToGlobal, StopRelease, Park, Dispatch, IInv, TypeOK
<1>4. /\ UNCHANGED global \/ \E v : global' = ListPush(global, v)
      /\ UNCHANGED pIdle \/ \E v : pIdle' = ListPush(pIdle, v)
      /\ UNCHANGED mIdle \/ \E v : mIdle' = ListPush(mIdle, v)
  BY DEF ReleaseP, ToGlobal, StopRelease, Park, Dispatch
<1>5. \/ UNCHANGED local
      \/ \E q \in P : \E v : local' = [local EXCEPT ![q] = ListPush(local[q], v)]
  <2>1. CASE Dispatch(m)
    <3>1. \/ UNCHANGED local
          \/ mp[m] # None /\ local' = [local EXCEPT ![mp[m]] = ListPush(@, mco[m])]
      BY <2>1 DEF Dispatch
    <3>2. mp[m] \in P \cup {None}
      BY DEF IInv, TypeOK
    <3> QED
      BY <3>1, <3>2
  <2>2. CASE ~ Dispatch(m)
    BY <2>2 DEF ReleaseP, ToGlobal, StopRelease, Park
  <2> QED
    BY <2>1, <2>2
<1> QED
  BY <1>1, <1>2, <1>3, <1>4, <1>5, PushReads

LEMMA PushCallerReads ==
    ASSUME IInv, TypeOK', NEW c \in Caller, GoPush(c) \/ GoGlobal(c)
    PROVE  ReadsOK'
<1>1. c \in Thread /\ ~ AtPop(c)
  BY DEF GoPush, GoGlobal, AtPop, Thread
<1>2. \A u \in Thread \ {c} : pc'[u] = pc[u]
  BY DEF GoPush, GoGlobal, IInv, TypeOK
<1>3. UNCHANGED <<snap, reg, mco>>
  BY DEF GoPush, GoGlobal, machs
<1>4. /\ UNCHANGED <<pIdle, mIdle>>
      /\ UNCHANGED global \/ \E v : global' = ListPush(global, v)
  BY DEF GoPush, GoGlobal
<1>5. \/ UNCHANGED local
      \/ \E q \in P : \E v : local' = [local EXCEPT ![q] = ListPush(local[q], v)]
  <2>1. pc[c] = "gopush" => arg[c].p \in P
    BY DEF IInv, TypeOK, ControlOK
  <2> QED
    BY <2>1 DEF GoPush, GoGlobal
<1> QED
  BY <1>1, <1>2, <1>3, <1>4, <1>5, PushReads

LEMMA PopPIdleReads ==
    ASSUME IInv, TypeOK',
           \/ \E m \in Machine : TakeP(m) \/ Unblock(m)
           \/ \E c \in Caller : GoPop(c)
           \/ WakePop
    PROVE  ReadsOK'
<1>1. PICK t \in Thread :
         /\ HasRead(t) /\ PopDone(t) /\ Target(t) = "p_idle" /\ pIdle' = Rest(t, pIdle)
         /\ \A u \in Thread \ {t} : pc'[u] = pc[u]
  BY Targets DEF TakeP, Unblock, GoPop, WakePop, IInv, TypeOK, Thread, Caller
<1>2. UNCHANGED <<global, mIdle, local, mco, reg>>
  BY DEF TakeP, Unblock, GoPop, WakePop, machs
<1>3. Split => pIdle'.log = pIdle.log
  BY <1>1, ListNames, PopType DEF IInv, TypeOK
<1>4. \A q \in P : Longer(local[q], local'[q])
  BY <1>2 DEF Longer, IInv, TypeOK, ListOf
<1> QED
  BY <1>1, <1>2, <1>3, <1>4, PopReads

LEMMA PopTaskReads ==
    ASSUME IInv, TypeOK', NEW m \in Machine, GetLocal(m) \/ Drain(m) \/ StealPop(m)
    PROVE  ReadsOK'
<1>1. m \in Thread /\ HasRead(m) /\ PopDone(m) /\ UNCHANGED <<pIdle, mIdle>>
  BY DEF GetLocal, Drain, StealPop, Thread
<1>2. /\ \A u \in Thread \ {m} : pc'[u] = pc[u]
      /\ \A u \in Machine \ {m} : mco'[u] = mco[u] /\ reg'[u] = reg[u]
  BY MissedControl DEF GetLocal, Drain, StealPop, IInv, TypeOK
<1>3. CASE GetLocal(m)
  <2>1. Target(m) \in P /\ UNCHANGED global
        /\ local' = [local EXCEPT ![Target(m)] = Rest(m, local[Target(m)])]
    BY <1>3 DEF GetLocal
  <2>2. Split => Rest(m, local[Target(m)]).log = local[Target(m)].log
    BY <1>1, <2>1, ListNames, PopType DEF IInv, TypeOK
  <2>3. Split => \A q \in P : Longer(local[q], local'[q])
    <3>1. \A q \in P : local[q] \in ListOf(Task) /\ local'[q] \in ListOf(Task)
      BY DEF IInv, TypeOK
    <3>2. \A q \in P \ {Target(m)} : local'[q] = local[q]
      BY <2>1 DEF IInv, TypeOK
    <3>3. Split => local'[Target(m)].log = local[Target(m)].log
      BY <2>1, <2>2 DEF IInv, TypeOK
    <3> QED
      BY <3>1, <3>2, <3>3 DEF Longer, ListOf
  <2> QED
    BY <1>1, <1>2, <2>1, <2>3, PopReads
<1>4. CASE Drain(m)
  <2>1. Target(m) = "global" /\ global' = Rest(m, global)
    BY <1>1, <1>4, Targets DEF Drain, IInv
  <2>2. Split => global'.log = global.log
    BY <1>1, <2>1, ListNames, PopType DEF IInv, TypeOK
  <2>3. \A q \in P : Longer(local[q], local'[q])
    <3>1. mp[m] \in P
      BY <1>4 DEF Drain, IInv, TypeOK
    <3>2. \A q \in P : \A v : Longer(local[q], ListPush(local[q], v)) /\ Longer(local[q], local[q])
      BY PushLonger DEF IInv, TypeOK
    <3> QED
      BY <1>4, <3>1, <3>2 DEF Drain, IInv, TypeOK
  <2> QED
    BY <1>1, <1>2, <2>2, <2>3, PopReads
<1>5. CASE StealPop(m)
  <2> DEFINE v == reg[m].vict
             t == Taken(m, local[v])
             cut == [local EXCEPT ![v] = Rest(m, local[v])]
  <2>1. v \in P /\ Target(m) = v /\ mp[m] \in P /\ UNCHANGED global
    BY <1>1, <1>5, Targets DEF StealPop, IInv, TypeOK, ControlOK, Registers
  <2>2. /\ Rest(m, local[v]) \in ListOf(Task)
        /\ Split => Rest(m, local[v]).log = local[v].log
    <3>1. local[v] = ListAt(Target(m)) /\ local[v] \in ListOf(Task)
      BY <2>1, ListNames DEF IInv, TypeOK
    <3> HIDE DEF v
    <3> QED
      BY <1>1, <3>1, PopType DEF IInv, TypeOK
  <2>3. cut \in [P -> ListOf(Task)] /\ Split => \A q \in P : cut[q].log = local[q].log
    BY <2>1, <2>2 DEF IInv, TypeOK
  <2>4. local' = IF t = None THEN cut
                 ELSE [cut EXCEPT ![mp[m]] = ListPush(cut[mp[m]], t)]
    BY <1>5 DEF StealPop
  <2>5. cut \in [P -> ListOf(Task)]
    BY <2>1, <2>2 DEF IInv, TypeOK
  <2> HIDE DEF cut, t
  <2>6. \A q \in P : \A w : Longer(cut[q], ListPush(cut[q], w)) /\ Longer(cut[q], cut[q])
    BY <2>5, PushLonger
  <2>7. \A q \in P : Longer(cut[q], local'[q])
    BY <2>1, <2>4, <2>5, <2>6
  <2>8. Split => \A q \in P : Longer(local[q], local'[q])
    BY <2>3, <2>5, <2>7 DEF Longer
  <2> QED
    BY <1>1, <1>2, <2>1, <2>8, PopReads
<1> QED
  BY <1>3, <1>4, <1>5

LEMMA JoinReads ==
    ASSUME IInv, TypeOK', NEW t \in Thread, NEW q, NEW next, Join(t, q, next),
           pc[t] \in {"gojoin", "wakejoin", "freeze"}
    PROVE  ReadsOK'
<1>1. PopDone(t) /\ HasRead(t) /\ mIdle' = Rest(t, mIdle)
      /\ UNCHANGED <<global, local, pIdle, mco, reg>>
  BY DEF Join
<1>2. Split => mIdle'.log = mIdle.log
  BY <1>1, ListNames, PopType, Targets DEF IInv, TypeOK
<1>3. \A u \in Thread \ {t} : pc'[u] = pc[u] \/ ~ AtPop(u)
  BY JoinMoves DEF AtPop
<1>4. \A r \in P : Longer(local[r], local'[r])
  BY <1>1 DEF Longer, IInv, TypeOK, ListOf
<1> QED
  BY <1>1, <1>2, <1>3, <1>4, PopReads

LEMMA PopBeginReads ==
    ASSUME IInv, TypeOK', NEW t \in Thread, PopBegin(t)
    PROVE  ReadsOK'
<1> SUFFICES ASSUME NEW u \in Thread, snap'[u] # None
             PROVE  ReadOK(u)'
  BY DEF ReadsOK
<1>1. UNCHANGED <<lists, machs, tasks, calls, pc>>
  BY DEF PopBegin
<1>2. CASE u # t
  <2>1. snap'[u] = snap[u] /\ ReadOK(u)
    BY <1>2 DEF PopBegin, IInv, TypeOK, ReadsOK
  <2> QED
    BY <1>1, <2>1 DEF ReadOK, Split, AtPop, RightList, ListAt, lists, machs
<1>3. CASE u = t
  <2> DEFINE l == ListAt(Target(t))
  <2>1. snap'[t] = [list |-> Target(t), head |-> l.head, next |-> NextNode(l, l.head)]
    BY DEF PopBegin, IInv, TypeOK
  <2>2. Split /\ AtPop(t) /\ snap[t] = None
    BY DEF PopBegin
  <2>3. Target(t) \in P \cup {"global", "p_idle", "m_idle"}
    BY <1>3, <2>1 DEF TypeOK, Reading
  <2>4. l \in ListOf(Task) \cup ListOf(P) \cup ListOf(Machine)
    BY <2>3, ListNames DEF IInv, TypeOK
  <2>5. l.head <= Len(l.log) /\ NextNode(l, l.head) <= Len(l.log)
    BY <2>4 DEF ListOf, NextNode
  <2>6. ListAt(snap[t].list)' = l
    BY <1>1, <2>1 DEF ListAt, lists
  <2>7. RightList(t)'
    <3>1. pc'[t] = pc[t] /\ reg' = reg /\ snap'[t].list = Target(t)
      BY <1>1, <2>1 DEF machs
    <3>2. pc[t] = "loop" => Target(t) \in P \cup {"p_idle"}
      BY <2>2 DEF Target, AtPop, IInv, TypeOK, ControlOK, Thread
    <3> QED
      BY <1>3, <3>1, <3>2, Targets DEF RightList, IInv
  <2> HIDE DEF l
  <2> QED
    BY <1>1, <1>3, <2>1, <2>2, <2>5, <2>6, <2>7 DEF ReadOK, Split, AtPop, machs
<1> QED
  BY <1>2, <1>3

LEMMA MachineReads ==
    ASSUME IInv, TypeOK', NEW m \in Machine, MachineStep(m) \/ SpuriousWake(m)
    PROVE  ReadsOK'
<1>1. CASE Freeze(m)
  BY <1>1, JoinReads DEF Freeze, Thread
<1>2. CASE TakeP(m) \/ Unblock(m)
  BY <1>2, PopPIdleReads
<1>3. CASE GetLocal(m) \/ Drain(m) \/ StealPop(m)
  BY <1>3, PopTaskReads
<1>4. CASE ReleaseP(m) \/ ToGlobal(m) \/ StopRelease(m) \/ Park(m) \/ Dispatch(m)
  BY <1>4, PushMachineReads
<1> QED
  BY <1>1, <1>2, <1>3, <1>4, QuietMachineReads DEF MachineStep

LEMMA CallerReads ==
    ASSUME IInv, TypeOK',
           \/ \E c \in Caller : GoStep(c)
           \/ \E t \in Task : Submit(t) \/ Callback(t)
           \/ LoopStep
    PROVE  ReadsOK'
<1>1. Main \in Thread /\ Daemon \in Thread
  BY DEF Thread, Caller
<1>2. ASSUME NEW c \in Caller, GoPop(c) PROVE ReadsOK'
  BY <1>2, PopPIdleReads
<1>3. ASSUME NEW c \in Caller, GoPush(c) \/ GoGlobal(c) PROVE ReadsOK'
  BY <1>3, PushCallerReads
<1>4. ASSUME NEW c \in Caller, GoJoin(c) PROVE ReadsOK'
  BY <1>4, JoinReads DEF GoJoin, Thread
<1>5. ASSUME NEW t \in Task, Submit(t) PROVE ReadsOK'
  BY <1>1, <1>5, QuietReads DEF Submit, AtPop, lists, machs, IInv, TypeOK
<1>6. ASSUME NEW t \in Task, Callback(t) PROVE ReadsOK'
  BY <1>1, <1>6, QuietReads DEF Callback, AtPop, lists, machs, IInv, TypeOK
<1>7. CASE Tick
  BY <1>1, <1>7, QuietReads DEF Tick, AtPop, lists, machs, IInv, TypeOK
<1>8. CASE WakePop
  BY <1>8, PopPIdleReads
<1>9. CASE WakeJoin
  BY <1>1, <1>9, JoinReads DEF WakeJoin
<1> QED
  BY <1>2, <1>3, <1>4, <1>5, <1>6, <1>7, <1>8, <1>9 DEF GoStep, LoopStep

LEMMA JoinStoreReads ==
    ASSUME IInv, NEW t \in Thread, JoinStore(t)
    PROVE  ReadsOK'
BY DEF JoinStore, IInv, ReadsOK, ReadOK, RightList, AtPop, ListAt, lists

LEMMA StutterInv ==
    ASSUME IInv, UNCHANGED vars
    PROVE  IInv'
BY DEF IInv, vars, lists, machs, tasks, calls, TypeOK, ControlOK, ReadsOK,
       ReadOK, RightList, AtPop, ListAt

-----------------------------------------------------------------------------
(* The invariant, and what it gives of the specification. *)

LEMMA InitInv ==
    ASSUME Init
    PROVE  IInv
<1>1. EmptyList \in ListOf(Task) /\ EmptyList \in ListOf(P) /\ EmptyList \in ListOf(Machine)
  BY DEF EmptyList, ListOf
<1>2. mp \in [Machine -> P \cup {None}]
  BY BootAssumption DEF Init, Booted
<1>3. NoLoop \in Registers
  BY DEF NoLoop, Registers
<1>4. TypeOK
  BY <1>1, <1>2, <1>3 DEF Init, TypeOK, Label, Thread, Caller
<1>5. ControlOK
  BY SetAssumption DEF Init, ControlOK, HoldsTask, Thread, Caller
<1>6. ReadsOK
  BY DEF Init, ReadsOK
<1> QED
  BY <1>4, <1>5, <1>6 DEF IInv

LEMMA NextInv ==
    ASSUME IInv, [Next]_vars
    PROVE  IInv'
<1>1. ASSUME NEW m \in Machine, MachineStep(m) \/ SpuriousWake(m) PROVE IInv'
  BY <1>1, MachineType, MachineControl, MachineReads DEF IInv
<1>2. CASE \/ \E c \in Caller : GoStep(c)
           \/ \E t \in Task : Submit(t) \/ Callback(t)
           \/ LoopStep
  BY <1>2, CallerType, CallerControl, CallerReads DEF IInv
<1>3. ASSUME NEW t \in Thread, PopBegin(t) PROVE IInv'
  BY <1>3, PopBeginType, PopBeginControl, PopBeginReads DEF IInv
<1>4. ASSUME NEW t \in Thread, JoinStore(t) PROVE IInv'
  BY <1>4, JoinStoreType, JoinStoreControl, JoinStoreReads DEF IInv
<1> QED
  BY <1>1, <1>2, <1>3, <1>4, StutterInv
  DEF Next, MachineNext, CallerNext, SubmitNext, Thread

\* Every variable stays in its set, whatever the threads do and wherever they
\* are preempted: the queues of tasks hold tasks, p_idle p's, m_idle machines.
THEOREM TypeCorrect == Spec => []TypeOK
<1>1. Init => IInv
  BY InitInv
<1>2. IInv /\ [Next]_vars => IInv'
  BY NextInv
<1>3. IInv => TypeOK
  BY DEF IInv
<1> QED
  BY <1>1, <1>2, <1>3, PTL DEF Spec

\* m_loop, get_task, work_stealing and go never use a coroutine, a victim or a
\* p that is null where they do not look, even with unlocked pops.
THEOREM ControlCorrect == Spec => []ControlOK
<1>1. Init => IInv
  BY InitInv
<1>2. IInv /\ [Next]_vars => IInv'
  BY NextInv
<1>3. IInv => ControlOK
  BY DEF IInv
<1> QED
  BY <1>1, <1>2, <1>3, PTL DEF Spec

\* An mlist::pop, which takes no lock, follows no pointer that is not one of
\* the list's nodes, however many other pops and pushes overlap it.
THEOREM ReadsCorrect == Spec => []ReadsOK
<1>1. Init => IInv
  BY InitInv
<1>2. IInv /\ [Next]_vars => IInv'
  BY NextInv
<1>3. IInv => ReadsOK
  BY DEF IInv
<1> QED
  BY <1>1, <1>2, <1>3, PTL DEF Spec

-----------------------------------------------------------------------------
(* Where the p's are.  When mlist::pop is not preempted between its read   *)
(* and its store and condx::wait returns only for a signal, every p is in  *)
(* one place, for any number of tasks, machines, p's and calls to go(),    *)
(* whether or not the "park", "bind" and "early" windows are open.         *)

\* The schedules that the theorems of this module are about.
Orderly == ~ Split /\ MaxSpurious = 0

FullInv == IInv /\ BindInv

USE DEF Woken, WithP, InSyscall, LetGo, Onto

LEMMA TheHolder ==
    ASSUME OneHolder
    PROVE  \A q \in P : \E x : Has(x, q) /\ \A y : Has(y, q) => y = x
BY DEF OneHolder, Has, Thread

-----------------------------------------------------------------------------
(* The two kinds of step: nobody's p changes, or one p changes hands. *)

LEMMA KeepHolders ==
    ASSUME OneHolder, \A x, q : q \in P => (Has(x, q)' <=> Has(x, q))
    PROVE  OneHolder'
BY TheHolder DEF OneHolder, Has, Thread

LEMMA MoveP ==
    ASSUME OneHolder, NEW r \in P, NEW to, \A x : Has(x, r)' <=> x = to,
           \A x, q : q \in P /\ q # r => (Has(x, q)' <=> Has(x, q))
    PROVE  OneHolder'
BY TheHolder DEF OneHolder, Has, Thread

LEMMA QuietBind ==
    ASSUME FullInv, TypeOK', NEW t \in Thread, UNCHANGED <<pIdle, mIdle, mp, mst>>,
           \A u \in Thread \ {t} : pc'[u] = pc[u],
           \A u \in Machine \ {t} : mco'[u] = mco[u],
           \A c \in Caller : arg'[c].p = arg[c].p,
           pc[t] # "handoff", pc'[t] \notin {"handoff", "unborn", "unblock", "park"},
           pc[t] \in {"towait", "waiting"} => pc'[t] \in {"towait", "waiting"},
           t \in Machine /\ mst[t] = "block" =>
              mco'[t] # None /\ pc'[t] \in {"loop", "running", "issued", "after"},
           t \in Caller => (pc[t] \in Binding <=> pc'[t] \in Binding)
    PROVE  BindInv'
<1>1. Elements(mIdle) \subseteq Machine
  BY ElementsType DEF FullInv, IInv, TypeOK
<1>2. Distinct(pIdle)' /\ Distinct(mIdle)'
  BY DEF FullInv, BindInv, Distinct
<1>3. \A m \in Elements(mIdle) : pc'[m] \in {"towait", "waiting"}
  BY <1>1 DEF FullInv, BindInv, Thread
<1>4. \A m \in Machine : Unbound(m)' => mp[m] = None
  BY DEF FullInv, BindInv, Unbound, Thread, Elements
<1>5. \A m \in Machine : mst[m] = "block" =>
         mco'[m] # None /\ pc'[m] \in {"loop", "running", "issued", "after"}
  BY DEF FullInv, BindInv, Thread
<1>6. \A x, q : Has(x, q)' <=> Has(x, q)
  BY SetAssumption DEF Has, Thread, Elements
<1>7. OneHolder'
  BY <1>6, KeepHolders DEF FullInv, BindInv
<1> QED
  BY <1>2, <1>3, <1>4, <1>5, <1>7 DEF BindInv, Elements

-----------------------------------------------------------------------------
(* The steps that leave every p where it is. *)

LEMMA QuietMachineBind ==
    ASSUME FullInv, TypeOK', NEW m \in Machine,
           \/ LookGlobal(m) \/ IdleCheck(m) \/ ThiefCheck(m) \/ ThiefInc(m) \/ Steal(m)
           \/ ThiefDec(m) \/ GetStop(m) \/ Resume(m) \/ Execute(m) \/ YieldAsync(m)
           \/ GetLocal(m) \/ Drain(m) \/ StealPop(m) \/ ToGlobal(m) \/ Dispatch(m)
           \/ Wait(m)
    PROVE  BindInv'
<1> USE DEF FullInv, BindInv, IInv, TypeOK, lists, machs, tasks, calls, Thread, Caller
<1>0. m \notin Caller /\ m \in Thread
  BY SetAssumption
<1>1. CASE LookGlobal(m)
  <2>1. /\ pc[m] = "global" /\ pc'[m] \in {"drain", "idlecheck"}
        /\ \A u \in Thread \ {m} : pc'[u] = pc[u]
        /\ UNCHANGED <<pIdle, mIdle, mp, mst, mco, arg>>
    BY <1>0, <1>1 DEF LookGlobal
  <2> QED
    BY <1>0, <2>1, QuietBind
<1>2. CASE IdleCheck(m)
  BY <1>0, <1>2, QuietBind DEF IdleCheck
<1>3. CASE ThiefCheck(m)
  BY <1>0, <1>3, QuietBind DEF ThiefCheck
<1>4. CASE ThiefInc(m)
  BY <1>0, <1>4, QuietBind DEF ThiefInc
<1>5. CASE Steal(m)
  <2>1. PICK v : Missed(m, v) \/ pc' = [pc EXCEPT ![m] = "stealpop"]
    BY <1>5 DEF Steal
  <2>2. pc[m] = "steal" /\ UNCHANGED <<pIdle, mIdle, mp, mst, mco, arg>>
    BY <1>5 DEF Steal
  <2>3. /\ pc'[m] \in {"steal", "stealpop", "thiefdec"}
        /\ \A u \in Thread \ {m} : pc'[u] = pc[u]
    BY <2>1, MissedControl
  <2> QED
    BY <1>0, <2>2, <2>3, QuietBind
<1>6. CASE ThiefDec(m)
  BY <1>0, <1>6, QuietBind DEF ThiefDec
<1>7. CASE GetStop(m)
  BY <1>0, <1>7, QuietBind DEF GetStop
<1>8. CASE Resume(m)
  BY <1>0, <1>8, QuietBind DEF Resume
<1>9. CASE Execute(m)
  <2>1. pc[m] = "running" /\ pc'[m] \in {"issued", "after"}
        /\ \A u \in Thread \ {m} : pc'[u] = pc[u]
    BY <1>0, <1>9 DEF Execute
  <2>2. UNCHANGED <<pIdle, mIdle, mp, mst, mco, arg>>
    BY <1>9 DEF Execute, lists, machs, calls
  <2> QED
    BY <1>0, <2>1, <2>2, QuietBind
<1>10. CASE YieldAsync(m)
  BY <1>0, <1>10, QuietBind DEF YieldAsync
<1>11. CASE GetLocal(m)
  BY <1>0, <1>11, QuietBind DEF GetLocal
<1>12. CASE Drain(m)
  BY <1>0, <1>12, QuietBind DEF Drain
<1>13. CASE StealPop(m)
  <2>1. /\ pc[m] = "stealpop" /\ pc'[m] \in {"steal", "stealpop", "thiefdec", "loop"}
        /\ \A u \in Thread \ {m} : pc'[u] = pc[u]
        /\ UNCHANGED <<pIdle, mIdle, mp, mst, mco, arg>>
    BY <1>13, MissedControl DEF StealPop
  <2> QED
    BY <1>0, <2>1, QuietBind
<1>14. CASE ToGlobal(m)
  BY <1>0, <1>14, QuietBind DEF ToGlobal
<1>15. CASE Dispatch(m)
  <2>1. /\ pc[m] = "dispatch" /\ pc'[m] \in {"freeze", "loop"}
        /\ \A u \in Thread \ {m} : pc'[u] = pc[u]
    BY <1>0, <1>15 DEF Dispatch
  <2>2. /\ UNCHANGED <<pIdle, mIdle, mp, mst, arg>>
        /\ \A u \in Machine \ {m} : mco'[u] = mco[u]
    BY <1>0, <1>15 DEF Dispatch
  <2>3. mst[m] # "block"
    BY <1>0, <2>1
  <2> QED
    BY <1>0, <2>1, <2>2, <2>3, QuietBind
<1>16. CASE Wait(m)
  BY <1>0, <1>16, QuietBind DEF Wait
<1> QED
  BY <1>1, <1>2, <1>3, <1>4, <1>5, <1>6, <1>7, <1>8, <1>9, <1>10, <1>11, <1>12,
     <1>13, <1>14, <1>15, <1>16

LEMMA QuietCallerBind ==
    ASSUME FullInv, TypeOK',
           \/ \E c \in Caller : GoPush(c) \/ GoGlobal(c)
           \/ \E t \in Task : Submit(t) \/ Callback(t)
           \/ Tick
    PROVE  BindInv'
<1>1. PICK c \in Caller :
         /\ UNCHANGED <<pIdle, mIdle, mp, mst, mco>>
         /\ pc[c] \in {"gopush", "goglobal", "idle"}
         /\ pc'[c] \in {"gojoin", "gopop", "idle", "wake"}
         /\ pc[c] = "gopush" <=> pc'[c] = "gojoin"
         /\ \A u \in Thread \ {c} : pc'[u] = pc[u]
         /\ \A d \in Caller : arg'[d].p = arg[d].p
  <2> USE DEF FullInv, IInv, TypeOK, lists, machs, calls, Thread, Caller
  <2>1. ASSUME NEW c \in Caller, GoPush(c) \/ GoGlobal(c)
        PROVE  /\ UNCHANGED <<pIdle, mIdle, mp, mst, mco, arg>>
               /\ pc[c] \in {"gopush", "goglobal"}
               /\ pc' = [pc EXCEPT ![c] = IF pc[c] = "gopush" THEN "gojoin" ELSE "idle"]
    BY <2>1 DEF GoPush, GoGlobal
  <2>2. ASSUME NEW t \in Task, Submit(t)
        PROVE  /\ UNCHANGED <<pIdle, mIdle, mp, mst, mco>>
               /\ arg' = [arg EXCEPT ![Main].co = t]
               /\ pc[Main] = "idle" /\ pc' = [pc EXCEPT ![Main] = "gopop"]
    BY <2>2 DEF Submit
  <2>3. ASSUME NEW t \in Task, Callback(t)
        PROVE  /\ UNCHANGED <<pIdle, mIdle, mp, mst, mco>>
               /\ arg' = [arg EXCEPT ![Daemon].co = t]
               /\ pc[Daemon] = "idle" /\ pc' = [pc EXCEPT ![Daemon] = "gopop"]
    BY <2>3 DEF Callback
  <2>4. CASE Tick
    BY <2>4 DEF Tick
  <2>5. Main \in Caller /\ Daemon \in Caller
    OBVIOUS
  <2> QED
    BY <2>1, <2>2, <2>3, <2>4, <2>5, SMTT(30)
<1>2. c \in Thread /\ c \notin Machine
  BY SetAssumption DEF Thread, Caller
<1>3. \A u \in Machine \ {c} : mco'[u] = mco[u]
  BY <1>1
<1> QED
  BY <1>1, <1>2, <1>3, QuietBind DEF Binding

-----------------------------------------------------------------------------
(* The steps that move a p. *)

\* What a pop of p_idle or of m_idle does.
LEMMA OrderlyPop ==
    ASSUME ~ Split, NEW t, NEW S, NEW l \in ListOf(S), None \notin S, Distinct(l)
    PROVE  /\ Taken(t, l) \in S \cup {None}
           /\ Taken(t, l) = None => Rest(t, l) = l
           /\ Taken(t, l) # None => Taken(t, l) \in Elements(l)
           /\ Elements(Rest(t, l)) = Elements(l) \ {Taken(t, l)}
           /\ Distinct(Rest(t, l))
<1>1. Elements(l) \subseteq S
  BY ElementsType
<1>2. CASE l.head = 0
  BY <1>1, <1>2 DEF Taken, Rest, First
<1>3. CASE l.head # 0
  <2>1. Taken(t, l) = l.log[l.head] /\ Rest(t, l) = ListPop(l)
    BY <1>3 DEF Taken, Rest, First
  <2> QED
    BY <1>1, <1>3, <2>1, PopElements
<1> QED
  BY <1>2, <1>3

\* Before a join binds p q, only thread t has it, and afterwards only machine m.
LEMMA HandJoin ==
    ASSUME FullInv, ~ Split, NEW t \in Thread, NEW q \in P \cup {None}, NEW next,
           Join(t, q, next),
           \/ t \in Machine /\ pc[t] = "freeze" /\ next = "handoff" /\ q = mp[t]
           \/ t \in Caller /\ pc[t] \in {"gojoin", "wakejoin"} /\ next \in {"idle", "wake"}
                           /\ q = arg[t].p
    PROVE  BindInv'
<1>1. /\ Distinct(mIdle') /\ Elements(mIdle') = Elements(mIdle) \ {Taken(t, mIdle)}
      /\ Taken(t, mIdle) \in Elements(mIdle) \cup {None}
  BY OrderlyPop, SetAssumption DEF Join, FullInv, BindInv, IInv, TypeOK, Thread
<1>2. PICK m \in Machine, label \in {"towait", "loop"} :
         /\ Bind(t, m, q, label, next)
         /\ m \notin Elements(mIdle')
         /\ \/ pc[m] = "towait" /\ label = "towait"
            \/ pc[m] \in {"waiting", "unborn"} /\ label = "loop"
         /\ m \in Elements(mIdle) \/ pc[m] = "unborn"
  <2>1. Elements(mIdle) \subseteq Machine
    BY ElementsType DEF FullInv, IInv, TypeOK
  <2>2. CASE Taken(t, mIdle) # None
    BY <1>1, <2>1, <2>2 DEF Join, FullInv, BindInv
  <2>3. CASE Taken(t, mIdle) = None
    BY <1>1, <2>3 DEF Join, FullInv, BindInv
  <2> QED
    BY <2>2, <2>3
<1>3. /\ m # t /\ m \in Thread /\ m \notin Caller /\ t \notin {None}
      /\ mp[m] = None /\ mst[m] # "block"
  BY <1>2, SetAssumption DEF FullInv, BindInv, Unbound, Thread, Caller
<1>4. /\ pc' = [pc EXCEPT ![m] = label, ![t] = next]
      /\ mp' = [mp EXCEPT ![m] = q]
      /\ mst' \in {mst, [mst EXCEPT ![m] = "start"]}
      /\ UNCHANGED <<pIdle, mco, arg>>
  BY <1>2 DEF Bind, Join
<1>5. /\ mp'[m] = q /\ pc'[m] = label /\ pc'[t] = next
      /\ \A u \in Thread \ {m, t} : pc'[u] = pc[u]
      /\ \A u \in Machine \ {m} : mp'[u] = mp[u] /\ mst'[u] = mst[u]
      /\ mst'[m] # "block"
  BY <1>3, <1>4 DEF FullInv, IInv, TypeOK, Thread
<1>6. Elements(mIdle') \subseteq Machine
  BY <1>1, ElementsType DEF FullInv, IInv, TypeOK
<1>7. \A u \in Elements(mIdle') : pc'[u] \in {"towait", "waiting"}
  BY <1>1, <1>2, <1>5, <1>6 DEF FullInv, BindInv, Thread
<1>8. \A u \in Machine : Unbound(u)' => mp'[u] = None
  <2> SUFFICES ASSUME NEW u \in Machine, Unbound(u)' PROVE mp'[u] = None
    OBVIOUS
  <2>1. u # m
    BY <1>2, <1>5 DEF Unbound, Elements
  <2>2. CASE u = t
    BY <1>5, <1>6, <1>7, <2>1, <2>2, SetAssumption DEF Unbound, Elements, FullInv, BindInv, Thread, Caller
  <2>3. CASE u # t
    <3>1. Unbound(u)
      BY <1>1, <1>5, <2>1, <2>3 DEF Unbound, Elements, Thread
    <3> QED
      BY <1>5, <2>1, <3>1 DEF FullInv, BindInv
  <2> QED
    BY <2>2, <2>3
<1>9. \A u \in Machine : mst'[u] = "block" =>
         mco'[u] # None /\ pc'[u] \in {"loop", "running", "issued", "after"}
  BY <1>3, <1>4, <1>5, SetAssumption DEF FullInv, BindInv, Thread, Caller
<1>10. OneHolder'
  <2>1. \A x, r : r \in P /\ r # q => (Has(x, r)' <=> Has(x, r))
    <3> SUFFICES ASSUME NEW x, NEW r \in P, r # q
                 PROVE  Has(x, r)' <=> Has(x, r)
      OBVIOUS
    <3>1. CASE x = m
      BY <1>3, <1>5, <3>1, SetAssumption DEF Has, Thread
    <3>2. CASE x = t
      BY <1>3, <1>4, <1>5, <3>2, SetAssumption DEF Has, Binding, Thread, Caller, Elements
    <3>3. CASE x # m /\ x # t
      BY <1>4, <1>5, <3>3 DEF Has, Thread, Elements
    <3> QED
      BY <3>1, <3>2, <3>3
  <2>2. CASE q = None
    <3>1. \A r \in P : r # q
      BY <2>2, SetAssumption
    <3> QED
      BY <2>1, <3>1, KeepHolders DEF FullInv, BindInv
  <2>3. CASE q # None
    <3>1. Has(t, q)
      BY SetAssumption, <2>3 DEF Has, Binding, Thread
    <3>2. \A x : Has(x, q) => x = t
      BY <2>3, <3>1, TheHolder DEF FullInv, BindInv
    <3>3. Has(m, q)'
      BY <1>2, <1>5 DEF Has
    <3>4. ~ Has(t, q)'
      BY <1>3, <1>5, SetAssumption DEF Has, Binding, Thread, Caller
    <3>5. ASSUME NEW x, x # m, x # t, Has(x, q)' PROVE FALSE
      <4>1. Has(x, q)
        BY <1>4, <1>5, <3>5 DEF Has, Thread, Elements
      <4> QED
        BY <3>2, <3>5, <4>1
    <3>6. \A x : Has(x, q)' <=> x = m
      BY <3>3, <3>4, <3>5
    <3> QED
      BY <2>1, <2>3, <3>6, MoveP DEF FullInv, BindInv
  <2> QED
    BY <2>2, <2>3
<1>11. Distinct(pIdle)'
  BY <1>4 DEF FullInv, BindInv, Distinct
<1> QED
  BY <1>1, <1>7, <1>8, <1>9, <1>10, <1>11 DEF BindInv, Distinct, Elements

\* Thread t takes a p off p_idle, if there is one.
LEMMA PopHolders ==
    ASSUME FullInv, ~ Split, NEW t \in Thread, pIdle' = Rest(t, pIdle),
           \A q \in P : ~ Has(t, q),
           \A q \in P : Has(t, q)' <=> q = Taken(t, pIdle),
           \A x, q : x \notin {t, None} /\ q \in P => (Has(x, q)' <=> Has(x, q))
    PROVE  OneHolder' /\ Distinct(pIdle')
<1>0. PICK r : r = Taken(t, pIdle)
  OBVIOUS
<1>1. /\ r \in P \cup {None}
      /\ r = None => pIdle' = pIdle
      /\ r # None => r \in Elements(pIdle)
      /\ Elements(pIdle') = Elements(pIdle) \ {r}
      /\ Distinct(pIdle')
  BY <1>0, OrderlyPop, SetAssumption DEF FullInv, BindInv, IInv, TypeOK
<1>2. None \notin Machine /\ None \notin Caller /\ t # None /\ \A q \in P : q # None
  BY SetAssumption DEF Thread
<1>3. \A q : Has(None, q) <=> q \in Elements(pIdle)
  BY <1>2 DEF Has
<1>4. \A q : Has(None, q)' <=> q \in Elements(pIdle')
  BY <1>2 DEF Has, Elements
<1>5. CASE r = None
  <2>1. \A x, q : q \in P => (Has(x, q)' <=> Has(x, q))
    BY <1>1, <1>2, <1>3, <1>4, <1>0, <1>5
  <2> QED
    BY <1>1, <2>1, KeepHolders DEF FullInv, BindInv
<1>6. CASE r # None
  <2>1. Has(None, r) /\ \A x : Has(x, r) => x = None
    BY <1>1, <1>3, <1>6, TheHolder DEF FullInv, BindInv
  <2>2. \A x : Has(x, r)' <=> x = t
    BY <1>1, <1>2, <1>4, <1>6, <1>0, <2>1
  <2>3. \A x, q : q \in P /\ q # r => (Has(x, q)' <=> Has(x, q))
    BY <1>1, <1>2, <1>3, <1>4, <1>0
  <2>4. r \in P /\ OneHolder
    BY <1>1, <1>6 DEF FullInv, BindInv
  <2>5. OneHolder'
    BY <2>2, <2>3, <2>4, MoveP
  <2> QED
    BY <1>1, <2>5
<1> QED
  BY <1>5, <1>6

\* Thread t puts its p on p_idle.
LEMMA PushHolders ==
    ASSUME FullInv, NEW t \in Thread, NEW r \in P, Has(t, r), pIdle' = ListPush(pIdle, r),
           \A q \in P : ~ Has(t, q)',
           \A q \in P : Has(t, q) => q = r,
           \A x, q : x \notin {t, None} /\ q \in P => (Has(x, q)' <=> Has(x, q))
    PROVE  OneHolder' /\ Distinct(pIdle')
<1>1. None \notin Machine /\ None \notin Caller /\ t # None
  BY SetAssumption DEF Thread
<1>2. \A q : Has(None, q) <=> q \in Elements(pIdle)
  BY <1>1 DEF Has
<1>3. \A q : Has(None, q)' <=> q \in Elements(pIdle')
  BY <1>1 DEF Has, Elements
<1>4. \A x : Has(x, r) => x = t
  BY TheHolder DEF FullInv, BindInv
<1>5. /\ Elements(pIdle') = Elements(pIdle) \cup {r}
      /\ Distinct(pIdle')
  BY <1>1, <1>2, <1>4, PushElements DEF FullInv, BindInv, IInv, TypeOK
<1>6. \A x : Has(x, r)' <=> x = None
  BY <1>3, <1>4, <1>5
<1>7. \A x, q : q \in P /\ q # r => (Has(x, q)' <=> Has(x, q))
  BY <1>2, <1>3, <1>5
<1>8. OneHolder'
  <2>1. OneHolder
    BY DEF FullInv, BindInv
  <2> QED
    BY <1>6, <1>7, <2>1, MoveP
<1> QED
  BY <1>5, <1>8

\* What is left to show of a step of a machine that changes its p or parks.
LEMMA MachineBind ==
    ASSUME FullInv, TypeOK', NEW m \in Machine, UNCHANGED mIdle, pc[m] \notin {"towait", "waiting"},
           \A u \in Thread \ {m} : pc'[u] = pc[u],
           \A u \in Machine \ {m} : mp'[u] = mp[u] /\ mst'[u] = mst[u] /\ mco'[u] = mco[u],
           mst'[m] = "block" \/ pc'[m] \in {"unborn", "unblock", "park"} => mp'[m] = None,
           mst'[m] = "block" =>
              mco'[m] # None /\ pc'[m] \in {"loop", "running", "issued", "after"},
           OneHolder' /\ Distinct(pIdle')
    PROVE  BindInv'
<1>1. Elements(mIdle) \subseteq Machine
  BY ElementsType DEF FullInv, IInv, TypeOK
<1>2. m \notin Elements(mIdle)
  BY DEF FullInv, BindInv
<1>3. \A u \in Elements(mIdle) : pc'[u] \in {"towait", "waiting"}
  BY <1>1, <1>2 DEF FullInv, BindInv, Thread
<1>4. \A u \in Machine : Unbound(u)' => mp'[u] = None
  BY <1>2 DEF FullInv, BindInv, Unbound, Thread, Elements
<1>5. \A u \in Machine : mst'[u] = "block" =>
         mco'[u] # None /\ pc'[u] \in {"loop", "running", "issued", "after"}
  BY DEF FullInv, BindInv, Thread
<1>6. Distinct(mIdle)'
  BY DEF FullInv, BindInv, Distinct
<1> QED
  BY <1>3, <1>4, <1>5, <1>6 DEF BindInv, Elements, Distinct

LEMMA TakePBind ==
    ASSUME FullInv, TypeOK', ~ Split, NEW m \in Machine, TakeP(m)
    PROVE  BindInv'
<1>1. Target(m) = "p_idle" /\ snap[m] = None
  BY DEF TakeP, FullInv, IInv, ReadsOK, ReadOK, Thread
<1>2. mp[m] = None
  BY <1>1, SetAssumption DEF TakeP, Target, FullInv, IInv, TypeOK
<1>3. /\ pIdle' = Rest(m, pIdle) /\ mp' = [mp EXCEPT ![m] = Taken(m, pIdle)]
      /\ pc[m] = "loop" /\ pc' \in {[pc EXCEPT ![m] = "loop"], [pc EXCEPT ![m] = "stop"]}
      /\ mco[m] = None /\ mst' \in {mst, [mst EXCEPT ![m] = "start"]}
      /\ UNCHANGED <<mIdle, mco, arg>>
  BY DEF TakeP, calls
<1>4. /\ \A u \in Thread \ {m} : pc'[u] = pc[u]
      /\ \A u \in Machine \ {m} : mp'[u] = mp[u] /\ mst'[u] = mst[u] /\ mco'[u] = mco[u]
      /\ mp'[m] = Taken(m, pIdle) /\ pc'[m] \in {"loop", "stop"}
      /\ m \in Thread /\ m \notin Caller /\ m # None
  <2>1. m \in Thread /\ m \notin Caller /\ m # None
    BY SetAssumption DEF Thread, Caller
  <2>2. \A u \in Thread \ {m} : pc'[u] = pc[u]
    BY <1>3 DEF FullInv, IInv, TypeOK, Thread
  <2>3. pc'[m] \in {"loop", "stop"}
    BY <1>3, <2>1 DEF FullInv, IInv, TypeOK
  <2>4. \A u \in Machine \ {m} : mp'[u] = mp[u] /\ mst'[u] = mst[u] /\ mco'[u] = mco[u]
    BY <1>3 DEF FullInv, IInv, TypeOK
  <2>5. mp'[m] = Taken(m, pIdle)
    BY <1>3 DEF FullInv, IInv, TypeOK
  <2> QED
    BY <2>1, <2>2, <2>3, <2>4, <2>5
<1>9. mst'[m] # "block"
  BY <1>3 DEF FullInv, BindInv, IInv, TypeOK
<1>5. \A q \in P : ~ Has(m, q)
  BY <1>2, <1>4, SetAssumption DEF Has
<1>6. \A q \in P : Has(m, q)' <=> q = Taken(m, pIdle)
  BY <1>4 DEF Has
<1>7. \A x, q : x \notin {m, None} /\ q \in P => (Has(x, q)' <=> Has(x, q))
  BY <1>3, <1>4 DEF Has, Thread
<1>8. OneHolder' /\ Distinct(pIdle')
  BY <1>3, <1>4, <1>5, <1>6, <1>7, PopHolders
<1> QED
  BY <1>3, <1>4, <1>8, <1>9, MachineBind

LEMMA UnblockBind ==
    ASSUME FullInv, TypeOK', ~ Split, NEW m \in Machine, Unblock(m)
    PROVE  BindInv'
<1>1. /\ pc[m] = "unblock" /\ mp[m] = None /\ mst[m] # "block"
      /\ m \in Thread /\ m \notin Caller /\ m # None
  BY SetAssumption DEF Unblock, FullInv, BindInv, Unbound, Thread, Caller
<1>2. /\ pIdle' = Rest(m, pIdle) /\ mp' = [mp EXCEPT ![m] = Taken(m, pIdle)]
      /\ pc' = [pc EXCEPT ![m] = "toglobal"] \/ pc' = [pc EXCEPT ![m] = "dispatch"]
      /\ UNCHANGED <<mIdle, mco, mst, arg>>
  BY DEF Unblock, calls
<1>3. /\ \A u \in Thread \ {m} : pc'[u] = pc[u]
      /\ \A u \in Machine \ {m} : mp'[u] = mp[u]
      /\ mp'[m] = Taken(m, pIdle) /\ pc'[m] \in {"toglobal", "dispatch"}
  BY <1>1, <1>2 DEF FullInv, IInv, TypeOK
<1>4. \A q \in P : ~ Has(m, q)
  BY <1>1, SetAssumption DEF Has
<1>5. \A q \in P : Has(m, q)' <=> q = Taken(m, pIdle)
  BY <1>1, <1>3 DEF Has
<1>6. \A x, q : x \notin {m, None} /\ q \in P => (Has(x, q)' <=> Has(x, q))
  BY <1>2, <1>3 DEF Has, Thread
<1>7. OneHolder' /\ Distinct(pIdle')
  BY <1>1, <1>2, <1>4, <1>5, <1>6, PopHolders
<1> QED
  BY <1>1, <1>2, <1>3, <1>7, MachineBind

LEMMA ReleaseBind ==
    ASSUME FullInv, TypeOK', NEW m \in Machine, ReleaseP(m) \/ StopRelease(m)
    PROVE  BindInv'
<1>1. /\ pc[m] \in {"pidle", "stop"} /\ mst[m] # "block"
      /\ m \in Thread /\ m \notin Caller /\ m # None
  BY SetAssumption DEF ReleaseP, StopRelease, FullInv, BindInv, Thread, Caller
<1>2. PICK r : r = mp[m]
  OBVIOUS
<1>3. /\ mp' = [mp EXCEPT ![m] = None]
      /\ pc' = [pc EXCEPT ![m] = "stop"] \/ pc' = [pc EXCEPT ![m] = "park"]
      /\ pIdle' = IF r = None THEN pIdle ELSE ListPush(pIdle, r)
      /\ UNCHANGED <<mIdle, mco, mst, arg>>
  BY <1>2 DEF ReleaseP, StopRelease, calls
<1>4. /\ \A u \in Thread \ {m} : pc'[u] = pc[u]
      /\ \A u \in Machine \ {m} : mp'[u] = mp[u]
      /\ mp'[m] = None /\ pc'[m] \in {"stop", "park"}
      /\ r \in P \cup {None}
  BY <1>1, <1>2, <1>3 DEF FullInv, IInv, TypeOK
<1>5. \A q \in P : ~ Has(m, q)'
  BY <1>1, <1>4, SetAssumption DEF Has
<1>6. \A x, q : x \notin {m, None} /\ q \in P => (Has(x, q)' <=> Has(x, q))
  BY <1>3, <1>4 DEF Has, Thread
<1>7. OneHolder' /\ Distinct(pIdle')
  <2>1. CASE r = None
    <3>1. pIdle' = pIdle /\ \A q \in P : ~ Has(m, q)
      BY <1>1, <1>2, <1>3, <2>1, SetAssumption DEF Has
    <3>2. \A q : Has(None, q)' <=> Has(None, q)
      BY <3>1, SetAssumption DEF Has, Elements, Thread
    <3>3. \A x, q : q \in P => (Has(x, q)' <=> Has(x, q))
      BY <1>5, <1>6, <3>1, <3>2
    <3> QED
      BY <3>1, <3>3, KeepHolders DEF FullInv, BindInv
  <2>2. CASE r # None
    <3>1. Has(m, r) /\ \A q \in P : Has(m, q) => q = r
      BY <1>1, <1>2, <1>4, SetAssumption DEF Has
    <3> QED
      BY <1>1, <1>3, <1>4, <1>5, <1>6, <2>2, <3>1, PushHolders
  <2> QED
    BY <2>1, <2>2
<1> QED
  BY <1>1, <1>3, <1>4, <1>7, MachineBind

\* A step of a machine without a p, or with one it has handed over.
LEMMA LetGoBind ==
    ASSUME FullInv, TypeOK', NEW m \in Machine, AfterRun(m) \/ HandOff(m)
    PROVE  BindInv'
<1>1. /\ pc[m] \in {"after", "handoff"} /\ m \in Thread /\ m \notin Caller /\ m # None
  BY SetAssumption DEF AfterRun, HandOff, Thread, Caller
<1>2. UNCHANGED <<pIdle, mIdle, mco, arg>>
  BY DEF AfterRun, HandOff, lists, calls
<1>3. /\ \A u \in Thread \ {m} : pc'[u] = pc[u]
      /\ \A u \in Machine \ {m} : mp'[u] = mp[u] /\ mst'[u] = mst[u]
      /\ pc[m] = "handoff" => mp'[m] = None /\ mst'[m] = "block" /\ pc'[m] = "loop"
      /\ pc[m] = "after" /\ mst[m] = "block" =>
            mp'[m] = None /\ mst'[m] = "start" /\ pc'[m] = "unblock"
      /\ pc[m] = "after" /\ mst[m] # "block" =>
            mp'[m] = mp[m] /\ mst'[m] = mst[m] /\ pc'[m] = "dispatch"
  BY <1>1 DEF AfterRun, HandOff, FullInv, IInv, TypeOK
<1>4. pc[m] = "handoff" => mco[m] # None
  BY DEF FullInv, IInv, ControlOK, HoldsTask
<1>5. pc[m] = "after" /\ mst[m] = "block" => mp[m] = None
  BY DEF FullInv, BindInv, Unbound
<1>6. \A x, q : q \in P => (Has(x, q)' <=> Has(x, q))
  <2> SUFFICES ASSUME NEW x, NEW q \in P PROVE Has(x, q)' <=> Has(x, q)
    OBVIOUS
  <2>1. CASE x = m
    BY <1>1, <1>3, <1>5, <2>1, SetAssumption DEF Has
  <2>2. CASE x # m
    BY <1>2, <1>3, <2>2 DEF Has, Thread, Elements
  <2> QED
    BY <2>1, <2>2
<1>7. OneHolder' /\ Distinct(pIdle')
  BY <1>2, <1>6, KeepHolders DEF FullInv, BindInv
<1> QED
  BY <1>1, <1>2, <1>3, <1>4, <1>7, MachineBind

LEMMA ParkBind ==
    ASSUME FullInv, TypeOK', NEW m \in Machine, Park(m)
    PROVE  BindInv'
<1>1. /\ pc[m] = "park" /\ m \in Thread /\ m \notin Caller /\ m # None
      /\ mp[m] = None /\ m \notin Elements(mIdle)
  BY SetAssumption DEF Park, FullInv, BindInv, Unbound, Thread, Caller
<1>2. /\ mIdle' = ListPush(mIdle, m) /\ pc' = [pc EXCEPT ![m] = "towait"]
      /\ mst' = [mst EXCEPT ![m] = "wait"] /\ UNCHANGED <<pIdle, mp, mco, arg>>
  BY DEF Park, calls
<1>3. Elements(mIdle') = Elements(mIdle) \cup {m} /\ Distinct(mIdle')
  BY <1>1, <1>2, PushElements DEF FullInv, BindInv, IInv, TypeOK
<1>4. /\ pc'[m] = "towait" /\ mst'[m] = "wait"
      /\ \A u \in Thread \ {m} : pc'[u] = pc[u]
      /\ \A u \in Machine \ {m} : mst'[u] = mst[u]
  BY <1>1, <1>2 DEF FullInv, IInv, TypeOK
<1>5. Elements(mIdle) \subseteq Machine
  BY ElementsType DEF FullInv, IInv, TypeOK
<1>6. \A u \in Elements(mIdle') : pc'[u] \in {"towait", "waiting"}
  BY <1>3, <1>4, <1>5 DEF FullInv, BindInv, Thread
<1>7. \A u \in Machine : Unbound(u)' => mp'[u] = None
  BY <1>1, <1>2, <1>3, <1>4 DEF FullInv, BindInv, Unbound, Thread, Elements
<1>8. \A u \in Machine : mst'[u] = "block" =>
         mco'[u] # None /\ pc'[u] \in {"loop", "running", "issued", "after"}
  BY <1>2, <1>4 DEF FullInv, BindInv, Thread
<1>9. \A x, q : q \in P => (Has(x, q)' <=> Has(x, q))
  BY <1>1, <1>2, <1>4, SetAssumption DEF Has, Thread, Elements
<1>10. OneHolder' /\ Distinct(pIdle)'
  BY <1>2, <1>9, KeepHolders DEF FullInv, BindInv, Distinct
<1> QED
  BY <1>3, <1>6, <1>7, <1>8, <1>10 DEF BindInv, Elements, Distinct

LEMMA CallerPopBind ==
    ASSUME FullInv, TypeOK', ~ Split, (\E c \in Caller : GoPop(c)) \/ WakePop
    PROVE  BindInv'
<1>1. PICK c \in Caller :
         /\ pc[c] \in {"gopop", "wake"}
         /\ pIdle' = Rest(c, pIdle) /\ arg' = [arg EXCEPT ![c].p = Taken(c, pIdle)]
         /\ \E y \in {"gopush", "wakejoin", "goglobal", "idle"} :
               /\ pc' = [pc EXCEPT ![c] = y]
               /\ y \in {"gopush", "wakejoin"} <=> Taken(c, pIdle) # None
         /\ UNCHANGED <<mIdle, mp, mst, mco>>
  BY DEF GoPop, WakePop, machs, Caller
<1>2. c \in Thread /\ c \notin Machine /\ c # None
  BY SetAssumption DEF Thread, Caller
<1>3. /\ \A u \in Thread \ {c} : pc'[u] = pc[u]
      /\ pc'[c] \in {"gopush", "wakejoin", "goglobal", "idle"}
      /\ pc'[c] \in {"gopush", "wakejoin"} <=> Taken(c, pIdle) # None
  BY <1>1, <1>2 DEF FullInv, IInv, TypeOK
<1>4. arg'[c].p = Taken(c, pIdle) /\ \A d \in Caller \ {c} : arg'[d].p = arg[d].p
  BY <1>1 DEF FullInv, IInv, TypeOK
<1>5. \A q \in P : ~ Has(c, q)
  BY <1>1, <1>2 DEF Has, Binding
<1>6. \A q \in P : Has(c, q)' <=> q = Taken(c, pIdle)
  BY <1>2, <1>3, <1>4, SetAssumption DEF Has, Binding
<1>7. \A x, q : x \notin {c, None} /\ q \in P => (Has(x, q)' <=> Has(x, q))
  BY <1>1, <1>3, <1>4 DEF Has, Thread
<1>8. OneHolder' /\ Distinct(pIdle')
  BY <1>1, <1>2, <1>5, <1>6, <1>7, PopHolders
<1>9. Elements(mIdle) \subseteq Machine /\ \A m \in Machine : pc'[m] = pc[m]
  BY <1>2, <1>3, ElementsType DEF FullInv, IInv, TypeOK, Thread
<1> QED
  BY <1>1, <1>8, <1>9 DEF FullInv, BindInv, Unbound, Elements, Distinct

LEMMA JoinStoreBind ==
    ASSUME FullInv, NEW t \in Thread, JoinStore(t)
    PROVE  BindInv'
<1>1. /\ \A m \in Machine : mst'[m] = "block" => mst[m] = "block"
      /\ UNCHANGED <<pIdle, mIdle, mp, mco, arg, pc>>
  BY DEF JoinStore, lists, FullInv, IInv, TypeOK
<1>2. \A x, q : q \in P => (Has(x, q)' <=> Has(x, q))
  BY <1>1 DEF Has, Elements
<1>3. OneHolder'
  BY <1>2, KeepHolders DEF FullInv, BindInv
<1> QED
  BY <1>1, <1>3 DEF FullInv, BindInv, Unbound, Elements, Distinct

LEMMA StutterBind ==
    ASSUME FullInv, UNCHANGED vars
    PROVE  BindInv'
<1>1. UNCHANGED <<pIdle, mIdle, mp, mst, mco, arg, pc>>
  BY DEF vars, lists, machs, calls
<1>2. \A x, q : q \in P => (Has(x, q)' <=> Has(x, q))
  BY <1>1 DEF Has, Elements
<1>3. OneHolder'
  BY <1>2, KeepHolders DEF FullInv, BindInv
<1> QED
  BY <1>1, <1>3 DEF FullInv, BindInv, Unbound, Elements, Distinct

-----------------------------------------------------------------------------
(* The invariant, and what it gives of the specification. *)

LEMMA MachineStepBind ==
    ASSUME Orderly, FullInv, TypeOK', NEW m \in Machine, MachineStep(m) \/ SpuriousWake(m)
    PROVE  BindInv'
<1>1. CASE TakeP(m)
  BY <1>1, TakePBind DEF Orderly
<1>2. CASE Unblock(m)
  BY <1>2, UnblockBind DEF Orderly
<1>3. CASE ReleaseP(m) \/ StopRelease(m)
  BY <1>3, ReleaseBind
<1>4. CASE AfterRun(m) \/ HandOff(m)
  BY <1>4, LetGoBind
<1>5. CASE Park(m)
  BY <1>5, ParkBind
<1>6. CASE Freeze(m)
  BY <1>6, HandJoin DEF Freeze, Orderly, FullInv, IInv, TypeOK, Thread
<1>7. CASE SpuriousWake(m)
  BY <1>7 DEF SpuriousWake, Orderly, FullInv, IInv, TypeOK
<1> QED
  BY <1>1, <1>2, <1>3, <1>4, <1>5, <1>6, <1>7, QuietMachineBind DEF MachineStep

LEMMA CallerBind ==
    ASSUME Orderly, FullInv, TypeOK',
           \/ \E c \in Caller : GoStep(c)
           \/ \E t \in Task : Submit(t) \/ Callback(t)
           \/ LoopStep
    PROVE  BindInv'
<1>1. ASSUME NEW c \in Caller, GoJoin(c) PROVE BindInv'
  <2>1. arg[c].p \in P \cup {None}
    BY DEF FullInv, IInv, TypeOK
  <2> QED
    BY <1>1, <2>1, HandJoin DEF GoJoin, Orderly, Thread
<1>2. CASE WakeJoin
  <2>1. Daemon \in Caller /\ arg[Daemon].p \in P \cup {None}
    BY DEF FullInv, IInv, TypeOK, Caller
  <2> QED
    BY <1>2, <2>1, HandJoin DEF WakeJoin, Orderly, Thread
<1>3. CASE (\E c \in Caller : GoPop(c)) \/ WakePop
  BY <1>3, CallerPopBind DEF Orderly
<1> QED
  BY <1>1, <1>2, <1>3, QuietCallerBind DEF GoStep, LoopStep

LEMMA InitBind ==
    ASSUME Init
    PROVE  BindInv
<1>1. Content(EmptyList) = << >>
  BY DEF EmptyList, Content
<1>2. Elements(EmptyList) = {} /\ Distinct(EmptyList)
  BY <1>1 DEF Elements, Distinct
<1>3. \A m \in Machine : pc[m] # "handoff" /\ mst[m] = "start"
  BY DEF Init, Thread
<1>4. \A m \in Machine : m \in Booted <=> pc[m] = "loop"
  BY SetAssumption DEF Init, Thread, Caller
<1>5. \A m \in Machine : m \notin Booted => mp[m] = None
  BY DEF Init
<1>6. \A q \in P : mp[Boot[q]] = q
  BY BootAssumption DEF Init, Booted
<1>7. \A m \in Machine, q \in P : mp[m] = q => m = Boot[q]
  <2> SUFFICES ASSUME NEW m \in Machine, NEW q \in P, mp[m] = q PROVE m = Boot[q]
    OBVIOUS
  <2>1. m \in Booted
    BY <1>5, SetAssumption
  <2>2. PICK r \in P : m = Boot[r]
    BY <2>1 DEF Booted
  <2> QED
    BY <1>6, <2>2
<1>8. \A c \in Caller : pc[c] = "idle"
  BY DEF Init, Thread
<1>9. OneHolder
  <2> SUFFICES ASSUME NEW q \in P PROVE Has(Boot[q], q) /\ \A y : Has(y, q) => y = Boot[q]
    BY BootAssumption DEF OneHolder, Thread
  <2>1. Boot[q] \in Machine
    BY BootAssumption
  <2>2. Has(Boot[q], q)
    BY <1>3, <1>6, <2>1 DEF Has
  <2> QED
    BY <1>2, <1>7, <1>8, <2>2 DEF Has, Binding, Init
<1>10. \A m \in Machine : Unbound(m) => mp[m] = None
  BY <1>2, <1>3, <1>4, <1>5 DEF Unbound, Init, Thread
<1> QED
  BY <1>2, <1>3, <1>9, <1>10 DEF BindInv, Init

LEMMA NextBind ==
    ASSUME Orderly, FullInv, [Next]_vars
    PROVE  FullInv'
<1>1. IInv'
  BY NextInv DEF FullInv
<1>2. TypeOK'
  BY <1>1 DEF IInv
<1>3. ASSUME NEW m \in Machine, MachineStep(m) \/ SpuriousWake(m) PROVE BindInv'
  BY <1>2, <1>3, MachineStepBind
<1>4. ASSUME \/ \E c \in Caller : GoStep(c)
             \/ \E t \in Task : Submit(t) \/ Callback(t)
             \/ LoopStep
      PROVE  BindInv'
  BY <1>2, <1>4, CallerBind
<1>5. ASSUME NEW t \in Thread, PopBegin(t) PROVE FALSE
  BY <1>5 DEF PopBegin, Orderly
<1>6. ASSUME NEW t \in Thread, JoinStore(t) PROVE BindInv'
  BY <1>6, JoinStoreBind
<1>7. BindInv'
  BY <1>3, <1>4, <1>5, <1>6, StutterBind
  DEF Next, MachineNext, CallerNext, SubmitNext, Thread
<1> QED
  BY <1>1, <1>7 DEF FullInv

\* What BindInv says of the places of PInOnePlace.
LEMMA OnePlace ==
    ASSUME FullInv
    PROVE  PInOnePlace
<1> SUFFICES ASSUME NEW q \in P PROVE \E x \in PlacesOfP(q) : PlacesOfP(q) = {x}
  BY DEF PInOnePlace
<1>1. PICK h : Has(h, q) /\ \A y : Has(y, q) => y = h
  BY TheHolder DEF FullInv, BindInv
<1>2. None \notin Machine /\ None \notin Caller /\ Machine \cap Caller = {}
  BY SetAssumption DEF Thread, Caller
<1>3. \A i \in Occurrences(pIdle, q) : Has(None, q)
  BY DEF Occurrences, Elements, Has
<1>4. \A i, j \in Occurrences(pIdle, q) : i = j
  BY DEF FullInv, BindInv, Distinct, Occurrences
<1>5. CASE h = None
  <2>1. PICK i \in 1 .. Len(Content(pIdle)) : Content(pIdle)[i] = q
    BY <1>1, <1>2, <1>5 DEF Has, Elements
  <2>2. Occurrences(pIdle, q) = {i}
    BY <1>4, <2>1 DEF Occurrences
  <2>3. {n \in Machine : mp[n] = q /\ pc[n] # "handoff"} = {}
    BY <1>1, <1>2, <1>5 DEF Has
  <2>4. {d \in Caller : arg[d].p = q /\ pc[d] \in {"gopush", "gojoin", "wakejoin"}} = {}
    BY <1>1, <1>2, <1>5 DEF Has, Binding
  <2>5. PlacesOfP(q) = {<<"p_idle", i>>}
    BY <2>2, <2>3, <2>4 DEF PlacesOfP
  <2> QED
    BY <2>5
<1>6. CASE h \in Machine
  <2>1. Occurrences(pIdle, q) = {}
    BY <1>1, <1>2, <1>3, <1>6
  <2>2. {n \in Machine : mp[n] = q /\ pc[n] # "handoff"} = {h}
    BY <1>1, <1>2, <1>6 DEF Has
  <2>3. {d \in Caller : arg[d].p = q /\ pc[d] \in {"gopush", "gojoin", "wakejoin"}} = {}
    BY <1>1, <1>2, <1>6 DEF Has, Binding
  <2>4. PlacesOfP(q) = {<<"bound", h>>}
    BY <2>1, <2>2, <2>3 DEF PlacesOfP
  <2> QED
    BY <2>4
<1>7. CASE h \in Caller
  <2>1. Occurrences(pIdle, q) = {}
    BY <1>1, <1>2, <1>3, <1>7
  <2>2. {n \in Machine : mp[n] = q /\ pc[n] # "handoff"} = {}
    BY <1>1, <1>2, <1>7 DEF Has
  <2>3. {d \in Caller : arg[d].p = q /\ pc[d] \in {"gopush", "gojoin", "wakejoin"}} = {h}
    BY <1>1, <1>2, <1>7 DEF Has, Binding
  <2>4. PlacesOfP(q) = {<<"arg", h>>}
    BY <2>1, <2>2, <2>3 DEF PlacesOfP
  <2> QED
    BY <2>4
<1> QED
  BY <1>1, <1>5, <1>6, <1>7 DEF Has

\* go, join, step_loop, get_task and m_loop never lose a p and never bind one
\* to two machines, if no pop of an mlist overlaps another operation on it and
\* pthread_cond_wait has no spurious returns.
THEOREM PNeverShared == Orderly => (Spec => []PInOnePlace)
<1> SUFFICES ASSUME Orderly PROVE Spec => []PInOnePlace
  OBVIOUS
<1>1. Init => FullInv
  BY InitInv, InitBind DEF FullInv
<1>2. FullInv /\ [Next]_vars => FullInv'
  BY NextBind
<1>3. FullInv => PInOnePlace
  BY OnePlace
<1> QED
  BY <1>1, <1>2, <1>3, PTL DEF Spec

\* Under the same conditions join finds on m_idle only machines that are parked
\* or about to be, with no p that it would overwrite and no coroutine.
THEOREM ParkedNeverBusy == Orderly => (Spec => []ParkedIsFree)
<1> SUFFICES ASSUME Orderly PROVE Spec => []ParkedIsFree
  OBVIOUS
<1>1. Init => FullInv
  BY InitInv, InitBind DEF FullInv
<1>2. FullInv /\ [Next]_vars => FullInv'
  BY NextBind
<1>3. ASSUME FullInv PROVE ParkedIsFree
  <2>1. Elements(mIdle) \subseteq Machine
    BY <1>3, ElementsType DEF FullInv, IInv, TypeOK
  <2>2. \A m \in Elements(mIdle) : mp[m] = None /\ pc[m] \in {"towait", "waiting"}
    BY <1>3, <2>1 DEF FullInv, BindInv, Unbound
  <2> QED
    BY <1>3, <2>1, <2>2 DEF ParkedIsFree, FullInv, IInv, ControlOK, HoldsTask
<1> QED
  BY <1>1, <1>2, <1>3, PTL DEF Spec

\* WorkWaits is named in what follows where it is needed.
HIDE DEF WorkWaits

-----------------------------------------------------------------------------
(* thief_work_len. *)

Stealing == {"steal", "stealpop", "thiefdec"}
Thieves == {m \in Machine : pc[m] \in Stealing}

ThiefInv == IsFiniteSet(Thieves) /\ thief = Cardinality(Thieves)

LEMMA SameThieves ==
    ASSUME ThiefInv, thief' = thief,
           \A m \in Machine : pc'[m] \in Stealing <=> pc[m] \in Stealing
    PROVE  ThiefInv'
<1>1. Thieves' = Thieves
  BY DEF Thieves
<1> QED
  BY <1>1 DEF ThiefInv

LEMMA ThiefMore ==
    ASSUME ThiefInv, NEW m \in Machine, thief' = thief + 1, pc[m] \notin Stealing,
           pc'[m] \in Stealing, \A u \in Machine \ {m} : pc'[u] = pc[u]
    PROVE  ThiefInv'
<1>1. Thieves' = Thieves \cup {m} /\ m \notin Thieves
  BY DEF Thieves
<1> QED
  BY <1>1, FS_AddElement DEF ThiefInv

LEMMA ThiefLess ==
    ASSUME ThiefInv, NEW m \in Machine, thief' = thief - 1, pc[m] \in Stealing,
           pc'[m] \notin Stealing, \A u \in Machine \ {m} : pc'[u] = pc[u]
    PROVE  ThiefInv'
<1>1. Thieves' = Thieves \ {m} /\ m \in Thieves
  BY DEF Thieves
<1> QED
  BY <1>1, FS_RemoveElement DEF ThiefInv

LEMMA MachineThieves ==
    ASSUME IInv, ThiefInv, NEW m \in Machine, MachineStep(m) \/ SpuriousWake(m)
    PROVE  ThiefInv'
<1> USE DEF IInv, TypeOK, lists, machs, tasks, calls, Thread, Stealing
<1>0. m \notin Caller /\ m \in Thread
  BY SetAssumption DEF Caller
<1>1. CASE TakeP(m)
  BY <1>1, SameThieves DEF TakeP
<1>2. CASE GetLocal(m)
  BY <1>2, SameThieves DEF GetLocal
<1>3. CASE LookGlobal(m)
  BY <1>3, SameThieves DEF LookGlobal
<1>4. CASE Drain(m)
  BY <1>4, SameThieves DEF Drain
<1>5. CASE IdleCheck(m)
  BY <1>5, SameThieves DEF IdleCheck
<1>6. CASE ThiefCheck(m)
  BY <1>6, SameThieves DEF ThiefCheck
<1>7. CASE ThiefInc(m)
  BY <1>7, ThiefMore DEF ThiefInc
<1>8. CASE Steal(m)
  <2>1. PICK v : Missed(m, v) \/ pc' = [pc EXCEPT ![m] = "stealpop"]
    BY <1>8 DEF Steal
  <2>2. pc[m] = "steal" /\ UNCHANGED thief
    BY <1>8 DEF Steal
  <2>3. pc'[m] \in Stealing /\ \A u \in Thread \ {m} : pc'[u] = pc[u]
    BY <2>1, MissedControl
  <2> QED
    BY <2>2, <2>3, SameThieves
<1>9. CASE StealPop(m)
  <2>1. pc[m] = "stealpop"
    BY <1>9 DEF StealPop
  <2>2. \/ UNCHANGED <<pc, thief>>
        \/ thief' = thief - 1 /\ pc' = [pc EXCEPT ![m] = "loop"]
        \/ UNCHANGED thief /\ Missed(m, reg[m].vict)
    BY <1>9 DEF StealPop
  <2>3. CASE UNCHANGED <<pc, thief>>
    BY <2>3, SameThieves
  <2>4. CASE thief' = thief - 1 /\ pc' = [pc EXCEPT ![m] = "loop"]
    BY <2>1, <2>4, ThiefLess
  <2>5. CASE UNCHANGED thief /\ Missed(m, reg[m].vict)
    BY <2>1, <2>5, MissedControl, SameThieves
  <2> QED
    BY <2>2, <2>3, <2>4, <2>5
<1>10. CASE ThiefDec(m)
  BY <1>10, ThiefLess DEF ThiefDec
<1>11. CASE GetStop(m) \/ ReleaseP(m) \/ StopRelease(m) \/ Park(m) \/ Wait(m) \/ SpuriousWake(m)
  BY <1>11, SameThieves DEF GetStop, ReleaseP, StopRelease, Park, Wait, SpuriousWake
<1>12. CASE Resume(m) \/ Execute(m) \/ YieldAsync(m) \/ AfterRun(m)
  BY <1>12, SameThieves DEF Resume, Execute, YieldAsync, AfterRun
<1>13. CASE Unblock(m) \/ ToGlobal(m) \/ Dispatch(m) \/ HandOff(m)
  BY <1>13, SameThieves DEF Unblock, ToGlobal, Dispatch, HandOff
<1>14. CASE Freeze(m)
  <2>1. pc[m] = "freeze" /\ Join(m, mp[m], "handoff") /\ UNCHANGED thief
    BY <1>14 DEF Freeze, Join
  <2> QED
    BY <1>0, <2>1, JoinMoves, SameThieves
<1> QED
  BY <1>1, <1>2, <1>3, <1>4, <1>5, <1>6, <1>7, <1>8, <1>9, <1>10, <1>11, <1>12, <1>13, <1>14
  DEF MachineStep

LEMMA CallerThieves ==
    ASSUME IInv, ThiefInv,
           \/ \E c \in Caller : GoStep(c)
           \/ \E t \in Task : Submit(t) \/ Callback(t)
           \/ LoopStep
    PROVE  ThiefInv'
<1>0. Main \in Caller /\ Daemon \in Caller /\ \A c \in Caller : c \notin Machine /\ c \in Thread
  BY SetAssumption DEF Thread, Caller
<1>1. ASSUME NEW c \in Caller, NEW q, NEW next, pc[c] \in {"gojoin", "wakejoin"}, Join(c, q, next)
      PROVE  ThiefInv'
  <2>1. UNCHANGED thief
    BY <1>1 DEF Join
  <2>2. c \in Thread /\ \A m \in Machine : m \in Thread \ {c}
    BY <1>0 DEF Thread
  <2>3. \A u \in Thread \ {c} : pc'[u] = pc[u] \/ (pc[u] \in {"waiting", "unborn"} /\ pc'[u] = "loop")
    BY <1>1, <2>2, JoinMoves
  <2> QED
    BY <2>1, <2>2, <2>3, SameThieves DEF Stealing
<1>2. ASSUME NEW c \in Caller, GoJoin(c) \/ WakeJoin PROVE ThiefInv'
  BY <1>0, <1>1, <1>2 DEF GoJoin, WakeJoin
<1> USE DEF IInv, TypeOK, lists, machs, tasks, calls, Thread, Stealing
<1>3. ASSUME NEW c \in Caller, GoPop(c) \/ GoPush(c) \/ GoGlobal(c) PROVE ThiefInv'
  BY <1>0, <1>3, SameThieves DEF GoPop, GoPush, GoGlobal
<1>4. ASSUME NEW t \in Task, Submit(t) \/ Callback(t) PROVE ThiefInv'
  BY <1>0, <1>4, SameThieves DEF Submit, Callback
<1>5. CASE Tick \/ WakePop
  BY <1>0, <1>5, SameThieves DEF Tick, WakePop
<1> QED
  BY <1>0, <1>2, <1>3, <1>4, <1>5 DEF GoStep, LoopStep

LEMMA NextThieves ==
    ASSUME IInv, ThiefInv, [Next]_vars
    PROVE  ThiefInv'
<1>1. ASSUME NEW t \in Thread, PopBegin(t) \/ JoinStore(t) PROVE ThiefInv'
  BY <1>1, SameThieves DEF PopBegin, JoinStore, machs
<1>2. CASE UNCHANGED vars
  BY <1>2, SameThieves DEF vars, machs
<1> QED
  BY <1>1, <1>2, MachineThieves, CallerThieves
  DEF Next, MachineNext, CallerNext, SubmitNext, Thread

\* thief_work_len is the number of machines between its increment and its decrement in
\* get_task, on every way out of it (machine.cpp:64-107), whatever pops overlap.
THEOREM ThievesCounted == Spec => []ThiefCounted
<1>1. Init => IInv /\ ThiefInv
  <2>1. Init => Thieves = {}
    BY DEF Init, Thieves, Stealing, Thread
  <2> QED
    BY <2>1, InitInv, FS_EmptySet DEF ThiefInv, Init
<1>2. IInv /\ ThiefInv /\ [Next]_vars => (IInv /\ ThiefInv)'
  BY NextInv, NextThieves
<1>3. ThiefInv => ThiefCounted
  BY DEF ThiefInv, ThiefCounted, Thieves, Stealing
<1> QED
  BY <1>1, <1>2, <1>3, PTL DEF Spec

-----------------------------------------------------------------------------
(* Machines without a p. *)

Running == {"running", "issued", "after"}

UnboundInv ==
    /\ \A t \in Thread : late[t] = None
    /\ \A m \in Machine : mp[m] = None =>
          /\ pc[m] \in Running \/ (pc[m] = "loop" /\ mco[m] # None) => mst[m] = "block"
          /\ pc[m] \notin UsesP
          /\ pc[m] = "loop" /\ snap[m] # None => snap[m].list \notin P

\* What a join does to the machines.
LEMMA JoinBinds ==
    ASSUME IInv, NEW t \in Thread, NEW q \in P \cup {None}, NEW next, Join(t, q, next),
           pc[t] \in {"gojoin", "wakejoin", "freeze"}
    PROVE  \E m \in Machine :
              /\ Taken(t, mIdle) = m \/ (Taken(t, mIdle) = None /\ pc[m] = "unborn")
              /\ mp' = [mp EXCEPT ![m] = q]
              /\ pc'[t] = next
              /\ \A u \in Thread \ {m, t} : pc'[u] = pc[u]
              /\ m # t => pc'[m] = pc[m] \/
                          (pc[m] \in {"waiting", "unborn"} /\ pc'[m] = "loop")
              /\ \A u \in Machine \ {m} : mst'[u] = mst[u]
              /\ mst'[m] \in {mst[m], "start"}
              /\ "bind" \notin Windows => UNCHANGED late
              /\ UNCHANGED <<global, local, pIdle, mco, reg, thief, spur, tasks, todo, arg>>
<1>0. \A m \in Machine : pc[m] \in Label /\ "loop" \in Label /\ Woken(pc[m]) \in Label
  BY DEF IInv, TypeOK, Thread, Label, Woken
<1>1. Taken(t, mIdle) \in Machine \cup {None}
  BY ListNames, PopType, Targets DEF Join, TypeOK, IInv
<1>2. PICK m \in Machine, label \in Label :
         /\ Bind(t, m, q, label, next)
         /\ Taken(t, mIdle) = m \/ (Taken(t, mIdle) = None /\ pc[m] = "unborn")
         /\ label = pc[m] \/ (pc[m] \in {"waiting", "unborn"} /\ label = "loop")
  <2>1. CASE Taken(t, mIdle) # None
    BY <1>0, <1>1, <2>1 DEF Join
  <2>2. CASE Taken(t, mIdle) = None
    BY <1>0, <2>2 DEF Join
  <2> QED
    BY <2>1, <2>2
<1>3. m \in Thread
  BY DEF Thread
<1>4. /\ mp' = [mp EXCEPT ![m] = q] /\ pc' = [pc EXCEPT ![m] = label, ![t] = next]
      /\ mst' = mst \/ mst' = [mst EXCEPT ![m] = "start"]
      /\ "bind" \notin Windows => UNCHANGED late
  BY <1>2 DEF Bind
<1>5. UNCHANGED <<global, local, pIdle, mco, reg, thief, spur, tasks, todo, arg>>
  BY DEF Join
<1> QED
  BY <1>2, <1>3, <1>4, <1>5 DEF IInv, TypeOK

\* Freeze gives its p to a machine, and the machine that called goes on to hand off.
LEMMA FreezeBinds ==
    ASSUME "bind" \notin Windows, IInv, NEW m \in Thread, mp[m] \in P, pc[m] = "freeze",
           Join(m, mp[m], "handoff")
    PROVE  \E n \in Machine :
              /\ mp' = [mp EXCEPT ![n] = mp[m]] /\ pc'[m] = "handoff"
              /\ \A u \in Thread \ {n, m} : pc'[u] = pc[u]
              /\ \A u \in Machine \ {n} : mst'[u] = mst[u]
              /\ UNCHANGED late /\ UNCHANGED mco
<1>1. mp[m] \in P \cup {None} /\ pc[m] \in {"gojoin", "wakejoin", "freeze"}
  OBVIOUS
<1> QED
  BY <1>1, JoinBinds

LEMMA MachineUnbound ==
    ASSUME "bind" \notin Windows, IInv, UnboundInv, NEW m \in Machine,
           MachineStep(m) \/ SpuriousWake(m), IInv'
    PROVE  UnboundInv'
<1> USE DEF IInv, TypeOK, UnboundInv, Running, UsesP, Thread
<1>0. m \notin Caller /\ m \in Thread /\ \A q \in P : q # None
  BY SetAssumption DEF Caller
<1>1. ASSUME UNCHANGED late, UNCHANGED <<mp, mst>>,
             \A u \in Machine \ {m} : pc'[u] = pc[u] /\ snap'[u] = snap[u] /\ mco'[u] = mco[u],
             mp[m] = None =>
                /\ pc'[m] \in Running \/ (pc'[m] = "loop" /\ mco'[m] # None) => mst[m] = "block"
                /\ pc'[m] \notin UsesP
                /\ pc'[m] = "loop" /\ snap'[m] # None => snap'[m].list \notin P
      PROVE  UnboundInv'
  BY <1>1
<1>2. ASSUME UNCHANGED late,
             \A u \in Machine \ {m} : /\ pc'[u] = pc[u] /\ snap'[u] = snap[u] /\ mco'[u] = mco[u]
                                      /\ mp'[u] = mp[u] /\ mst'[u] = mst[u],
             mp'[m] = None =>
                /\ pc'[m] \in Running \/ (pc'[m] = "loop" /\ mco'[m] # None) => mst'[m] = "block"
                /\ pc'[m] \notin UsesP
                /\ pc'[m] = "loop" /\ snap'[m] # None => snap'[m].list \notin P
      PROVE  UnboundInv'
  BY <1>2
<1>3. pc[m] # "loop" \/ mco[m] # None => snap[m] = None \/ AtPop(m)
  BY <1>0 DEF ReadsOK, ReadOK
<1> USE DEF lists, machs, tasks, calls
<1>4. CASE TakeP(m)
  BY <1>0, <1>2, <1>4 DEF TakeP, PopDone
<1>5. CASE GetLocal(m)
  <2>1. mp[m] # None
    <3>1. pc[m] = "loop" /\ mco[m] = None /\ Target(m) \in P
      BY <1>5 DEF GetLocal
    <3>2. CASE snap[m] # None
      BY <3>1, <3>2 DEF Target
    <3>3. CASE snap[m] = None
      BY <3>1, <3>3, SetAssumption DEF Target
    <3> QED
      BY <3>2, <3>3
  <2> QED
    BY <1>1, <1>5, <2>1 DEF GetLocal, PopDone
<1>6. CASE LookGlobal(m) \/ IdleCheck(m) \/ ThiefCheck(m) \/ ThiefInc(m) \/ GetStop(m) \/ ThiefDec(m)
  BY <1>1, <1>3, <1>6
  DEF LookGlobal, IdleCheck, ThiefCheck, ThiefInc, GetStop, ThiefDec, ControlOK, HoldsTask, AtPop
<1>7. CASE Drain(m)
  BY <1>1, <1>7 DEF Drain, PopDone
<1>8. CASE Steal(m)
  <2>1. PICK v : Missed(m, v) \/ pc' = [pc EXCEPT ![m] = "stealpop"]
    BY <1>8 DEF Steal
  <2>2. pc[m] = "steal" /\ UNCHANGED <<mp, mst, mco, late, snap>>
    BY <1>8 DEF Steal
  <2>3. pc'[m] \in Stealing /\ \A u \in Thread \ {m} : pc'[u] = pc[u]
    BY <2>1, MissedControl DEF Stealing
  <2> QED
    BY <1>1, <2>2, <2>3 DEF Stealing
<1>9. CASE StealPop(m)
  <2>1. mp[m] # None /\ UNCHANGED <<mp, mst, mco, late>> /\ PopDone(m)
    BY <1>9 DEF StealPop
  <2>2. \A u \in Thread \ {m} : pc'[u] = pc[u]
    BY <1>9, MissedControl DEF StealPop
  <2> QED
    BY <1>1, <2>1, <2>2 DEF PopDone
<1>10. CASE ReleaseP(m) \/ StopRelease(m) \/ HandOff(m)
  <2>1. snap[m] = None
    BY <1>10, <1>3 DEF ReleaseP, StopRelease, HandOff, AtPop
  <2> QED
    BY <1>2, <1>10, <2>1 DEF ReleaseP, StopRelease, HandOff, ControlOK, HoldsTask
<1>11. CASE Park(m) \/ Wait(m) \/ SpuriousWake(m)
  BY <1>2, <1>3, <1>11 DEF Park, Wait, SpuriousWake, AtPop, ControlOK, HoldsTask
<1>12. CASE Resume(m) \/ Execute(m) \/ YieldAsync(m)
  <2>1. CASE Resume(m)
    BY <1>1, <2>1 DEF Resume
  <2>2. CASE Execute(m)
    <3>1. /\ pc[m] = "running" /\ pc'[m] \in {"issued", "after"}
          /\ UNCHANGED <<mp, mst, mco, late, snap>>
      BY <2>2 DEF Execute
    <3>2. \A u \in Thread \ {m} : pc'[u] = pc[u]
      BY <2>2 DEF Execute
    <3> QED
      BY <1>1, <3>1, <3>2
  <2>3. CASE YieldAsync(m)
    BY <1>1, <2>3 DEF YieldAsync
  <2> QED
    BY <1>12, <2>1, <2>2, <2>3
<1>13. CASE AfterRun(m)
  BY <1>2, <1>13 DEF AfterRun
<1>14. CASE Unblock(m)
  BY <1>2, <1>14 DEF Unblock, PopDone
<1>15. CASE ToGlobal(m) \/ Dispatch(m)
  BY <1>1, <1>15 DEF ToGlobal, Dispatch
<1>16. CASE Freeze(m)
  <2>1. pc[m] = "freeze" /\ Join(m, mp[m], "handoff") /\ mp[m] \in P
    BY <1>16 DEF Freeze
  <2>2. PICK n \in Machine :
         /\ mp' = [mp EXCEPT ![n] = mp[m]] /\ pc'[m] = "handoff"
         /\ \A u \in Thread \ {n, m} : pc'[u] = pc[u]
         /\ \A u \in Machine \ {n} : mst'[u] = mst[u]
         /\ UNCHANGED late /\ UNCHANGED mco
    BY <1>0, <2>1, FreezeBinds
  <2>3. \A u \in Thread \ {m} : snap'[u] = snap[u]
    BY <2>1 DEF Join, PopDone
  <2>4. mp'[m] # None
    BY <1>0, <2>1, <2>2
  <2>5. ASSUME NEW u \in Machine \ {m}, u # n
        PROVE  /\ pc'[u] = pc[u] /\ snap'[u] = snap[u] /\ mco'[u] = mco[u]
               /\ mp'[u] = mp[u] /\ mst'[u] = mst[u]
    BY <1>0, <2>2, <2>3, <2>5
  <2>6. mp'[n] # None
    BY <1>0, <2>1, <2>2
  <2> QED
    BY <1>0, <2>2, <2>4, <2>5, <2>6
<1> QED
  BY <1>4, <1>5, <1>6, <1>7, <1>8, <1>9, <1>10, <1>11, <1>12, <1>13, <1>14, <1>15, <1>16
  DEF MachineStep

LEMMA CallerUnbound ==
    ASSUME "bind" \notin Windows, IInv, UnboundInv,
           \/ \E c \in Caller : GoStep(c)
           \/ \E t \in Task : Submit(t) \/ Callback(t)
           \/ LoopStep
    PROVE  UnboundInv'
<1>0. Main \in Caller /\ Daemon \in Caller /\ \A c \in Caller : c \notin Machine /\ c \in Thread
  BY SetAssumption DEF Thread, Caller
<1>1. ASSUME UNCHANGED <<late, mp, mst, mco>>,
             \A u \in Machine : pc'[u] = pc[u] /\ snap'[u] = snap[u]
      PROVE  UnboundInv'
  BY <1>1 DEF UnboundInv
<1>2. ASSUME NEW c \in Caller, NEW q \in P, NEW next, pc[c] \in {"gojoin", "wakejoin"},
             Join(c, q, next)
      PROVE  UnboundInv'
  <2>1. c \in Thread /\ q \in P \cup {None}
    BY <1>0
  <2>2. PICK n \in Machine :
         /\ mp' = [mp EXCEPT ![n] = q]
         /\ \A u \in Thread \ {n, c} : pc'[u] = pc[u]
         /\ \A u \in Machine \ {n} : mst'[u] = mst[u]
         /\ UNCHANGED late /\ UNCHANGED mco
    BY <1>2, <2>1, JoinBinds
  <2>3. \A u \in Thread \ {c} : snap'[u] = snap[u]
    BY <1>2 DEF Join, PopDone
  <2> QED
    BY <1>0, <2>2, <2>3, SetAssumption DEF UnboundInv, Running, IInv, TypeOK, Thread
<1>3. ASSUME NEW c \in Caller, GoJoin(c) \/ WakeJoin PROVE UnboundInv'
  BY <1>0, <1>2, <1>3 DEF GoJoin, WakeJoin, ControlOK, IInv, TypeOK
<1> USE DEF lists, machs, tasks, calls, IInv, TypeOK, Thread
<1>4. ASSUME NEW c \in Caller, GoPop(c) \/ GoPush(c) \/ GoGlobal(c) PROVE UnboundInv'
  BY <1>0, <1>1, <1>4 DEF GoPop, GoPush, GoGlobal, PopDone
<1>5. ASSUME NEW t \in Task, Submit(t) \/ Callback(t) PROVE UnboundInv'
  BY <1>0, <1>1, <1>5 DEF Submit, Callback
<1>6. CASE Tick \/ WakePop
  BY <1>0, <1>1, <1>6 DEF Tick, WakePop, PopDone
<1> QED
  BY <1>0, <1>3, <1>4, <1>5, <1>6 DEF GoStep, LoopStep

LEMMA NextUnbound ==
    ASSUME "bind" \notin Windows, IInv, UnboundInv, [Next]_vars
    PROVE  UnboundInv'
<1>1. ASSUME NEW t \in Thread, PopBegin(t) PROVE UnboundInv'
  <2>1. UNCHANGED <<late, mp, mst, mco, pc>> /\ snap[t] = None
    BY <1>1 DEF PopBegin, machs, calls
  <2>2. /\ \A u \in Thread \ {t} : snap'[u] = snap[u]
        /\ snap'[t].list = Target(t)
    BY <1>1 DEF PopBegin, IInv, TypeOK
  <2>3. pc[t] = "loop" /\ mp[t] = None => Target(t) \notin P
    BY <2>1, SetAssumption DEF Target
  <2> QED
    BY <2>1, <2>2, <2>3 DEF UnboundInv, Thread
<1>2. ASSUME NEW t \in Thread, JoinStore(t) PROVE UnboundInv'
  BY <1>2 DEF JoinStore, UnboundInv
<1>3. CASE UNCHANGED vars
  BY <1>3 DEF vars, machs, calls, UnboundInv
<1> QED
  BY <1>1, <1>2, <1>3, MachineUnbound, CallerUnbound, NextInv
  DEF Next, MachineNext, CallerNext, SubmitNext, Thread

\* A machine that goes through its p without a test has one: what comes out of a
\* coroutine without a p was in a system call and is marked so (machine.cpp:172-201),
\* unless join is preempted before it stores the state, however pops overlap.
THEOREM BoundAlwaysWhereUsed == "bind" \notin Windows => (Spec => []BoundWhereUsed)
<1> SUFFICES ASSUME "bind" \notin Windows PROVE Spec => []BoundWhereUsed
  OBVIOUS
<1>1. Init => IInv /\ UnboundInv
  <2>1. ASSUME Init PROVE UnboundInv
    BY <2>1, SetAssumption DEF Init, UnboundInv, Running, UsesP, Thread, Caller
  <2> QED
    BY <2>1, InitInv
<1>2. IInv /\ UnboundInv /\ [Next]_vars => (IInv /\ UnboundInv)'
  BY NextInv, NextUnbound
<1>3. UnboundInv => BoundWhereUsed
  BY DEF UnboundInv, BoundWhereUsed
<1> QED
  BY <1>1, <1>2, <1>3, PTL DEF Spec

-----------------------------------------------------------------------------
(* Machines that sleep. *)

SleepInv == \A m \in Machine : pc[m] \in {"towait", "waiting"} => mp[m] = None

\* Whom a join wakes, if no machine is preempted on its way to pthread_cond_wait.
LEMMA JoinWakes ==
    ASSUME FullInv, ~ Split, NEW t \in Thread, NEW q \in P \cup {None}, NEW next, Join(t, q, next),
           pc[t] \in {"gojoin", "wakejoin", "freeze"}
    PROVE  \E m \in Machine, label \in {"towait", "loop"} :
              /\ m # t /\ mco[m] = None
              /\ pc[m] \in {"towait", "waiting", "unborn"}
              /\ "park" \notin Windows => label = "loop"
              /\ mp' = [mp EXCEPT ![m] = q]
              /\ pc' = [pc EXCEPT ![m] = label, ![t] = next]
              /\ UNCHANGED <<local, pIdle, mco, reg, arg>>
<1>1. Taken(t, mIdle) \in Elements(mIdle) \cup {None} /\ Elements(mIdle) \subseteq Machine
  BY OrderlyPop, ElementsType, SetAssumption DEF FullInv, BindInv, IInv, TypeOK, Thread
<1>2. PICK m \in Machine, label \in {"towait", "loop"} :
         /\ Bind(t, m, q, label, next)
         /\ pc[m] \in {"towait", "waiting", "unborn"}
         /\ "park" \notin Windows => label = "loop"
  <2>1. CASE Taken(t, mIdle) # None
    BY <1>1, <2>1 DEF Join, FullInv, BindInv
  <2>2. CASE Taken(t, mIdle) = None
    BY <2>2 DEF Join
  <2> QED
    BY <2>1, <2>2
<1>3. m # t /\ mco[m] = None
  BY <1>2 DEF FullInv, IInv, ControlOK, HoldsTask
<1>4. mp' = [mp EXCEPT ![m] = q] /\ pc' = [pc EXCEPT ![m] = label, ![t] = next]
  BY <1>2 DEF Bind
<1>5. UNCHANGED <<local, pIdle, mco, reg, arg>>
  BY DEF Join
<1> QED
  BY <1>2, <1>3, <1>4, <1>5

LEMMA JoinSleeps ==
    ASSUME FullInv, Orderly, "park" \notin Windows, SleepInv, NEW t \in Thread,
           NEW q \in P \cup {None}, NEW next, Join(t, q, next),
           pc[t] \in {"gojoin", "wakejoin", "freeze"}, next \notin {"towait", "waiting"}
    PROVE  SleepInv'
<1>1. PICK m \in Machine :
         /\ m # t
         /\ mp' = [mp EXCEPT ![m] = q]
         /\ pc' = [pc EXCEPT ![m] = "loop", ![t] = next]
  BY JoinWakes DEF Orderly
<1>2. /\ \A u \in Machine \ {m} : mp'[u] = mp[u]
      /\ pc'[m] = "loop" /\ pc'[t] = next
      /\ \A u \in Thread \ {m, t} : pc'[u] = pc[u]
  BY <1>1 DEF FullInv, IInv, TypeOK, Thread
<1> QED
  BY <1>2 DEF SleepInv, Thread

LEMMA MachineSleeps ==
    ASSUME FullInv, Orderly, "park" \notin Windows, SleepInv, NEW m \in Machine,
           MachineStep(m) \/ SpuriousWake(m)
    PROVE  SleepInv'
<1>0. m \in Thread /\ mp[m] \in P \cup {None}
  BY DEF FullInv, IInv, TypeOK, Thread
<1>1. ASSUME Freeze(m) PROVE SleepInv'
  BY <1>0, <1>1, JoinSleeps DEF Freeze
<1>2. ASSUME \A u \in Machine \ {m} : pc'[u] = pc[u] /\ mp'[u] = mp[u],
             pc'[m] \in {"towait", "waiting"} => mp'[m] = None
      PROVE  SleepInv'
  BY <1>2 DEF SleepInv
<1> USE DEF FullInv, IInv, TypeOK, Thread, lists, machs, tasks, calls
<1>3. CASE TakeP(m) \/ GetLocal(m) \/ LookGlobal(m) \/ Drain(m) \/ IdleCheck(m)
  BY <1>2, <1>3 DEF TakeP, GetLocal, LookGlobal, Drain, IdleCheck
<1>4. CASE ThiefCheck(m) \/ ThiefInc(m) \/ ThiefDec(m) \/ GetStop(m) \/ ReleaseP(m)
  BY <1>2, <1>4 DEF ThiefCheck, ThiefInc, ThiefDec, GetStop, ReleaseP
<1>5. CASE Steal(m) \/ StealPop(m)
  <2>1. \/ \E v : Missed(m, v)
        \/ pc' = [pc EXCEPT ![m] = "stealpop"]
        \/ pc' = [pc EXCEPT ![m] = "loop"]
        \/ UNCHANGED pc /\ pc[m] = "stealpop"
    BY <1>5 DEF Steal, StealPop
  <2>2. pc'[m] \in {"steal", "thiefdec", "stealpop", "loop"} /\ \A u \in Thread \ {m} : pc'[u] = pc[u]
    BY <2>1, MissedControl
  <2>3. UNCHANGED mp
    BY <1>5 DEF Steal, StealPop
  <2> QED
    BY <1>2, <2>2, <2>3
<1>6. CASE Resume(m) \/ Execute(m) \/ YieldAsync(m) \/ AfterRun(m) \/ Unblock(m)
  BY <1>2, <1>6 DEF Resume, Execute, YieldAsync, AfterRun, Unblock
<1>7. CASE ToGlobal(m) \/ Dispatch(m) \/ HandOff(m) \/ StopRelease(m) \/ SpuriousWake(m)
  BY <1>2, <1>7 DEF ToGlobal, Dispatch, HandOff, StopRelease, SpuriousWake
<1>8. CASE Park(m)
  BY <1>2, <1>8 DEF Park, BindInv, Unbound
<1>9. CASE Wait(m)
  BY <1>2, <1>9 DEF Wait, SleepInv
<1> QED
  BY <1>1, <1>3, <1>4, <1>5, <1>6, <1>7, <1>8, <1>9 DEF MachineStep

LEMMA CallerSleeps ==
    ASSUME FullInv, Orderly, "park" \notin Windows, SleepInv,
           \/ \E c \in Caller : GoStep(c)
           \/ \E t \in Task : Submit(t) \/ Callback(t)
           \/ LoopStep
    PROVE  SleepInv'
<1>0. /\ Main \in Caller /\ Daemon \in Caller
      /\ \A c \in Caller : c \notin Machine /\ c \in Thread /\ arg[c].p \in P \cup {None}
  BY SetAssumption DEF Thread, Caller, FullInv, IInv, TypeOK
<1>1. ASSUME NEW c \in Caller, GoJoin(c) PROVE SleepInv'
  BY <1>0, <1>1, JoinSleeps DEF GoJoin
<1>2. CASE WakeJoin
  BY <1>0, <1>2, JoinSleeps DEF WakeJoin
<1>3. ASSUME UNCHANGED mp, \A u \in Machine : pc'[u] = pc[u] PROVE SleepInv'
  BY <1>3 DEF SleepInv
<1> USE DEF FullInv, IInv, TypeOK, Thread, machs
<1>4. ASSUME NEW c \in Caller, GoPop(c) \/ GoPush(c) \/ GoGlobal(c) PROVE SleepInv'
  BY <1>0, <1>3, <1>4 DEF GoPop, GoPush, GoGlobal
<1>5. ASSUME NEW t \in Task, Submit(t) \/ Callback(t) PROVE SleepInv'
  BY <1>0, <1>3, <1>5 DEF Submit, Callback
<1>6. CASE Tick \/ WakePop
  BY <1>0, <1>3, <1>6 DEF Tick, WakePop
<1> QED
  BY <1>1, <1>2, <1>4, <1>5, <1>6 DEF GoStep, LoopStep

LEMMA NextSleeps ==
    ASSUME FullInv, Orderly, "park" \notin Windows, SleepInv, [Next]_vars
    PROVE  SleepInv'
<1>1. ASSUME NEW t \in Thread, PopBegin(t) PROVE FALSE
  BY <1>1 DEF PopBegin, Orderly
<1>2. ASSUME NEW t \in Thread, JoinStore(t) PROVE SleepInv'
  BY <1>2 DEF JoinStore, SleepInv
<1>3. CASE UNCHANGED vars
  BY <1>3 DEF vars, machs, SleepInv
<1> QED
  BY <1>1, <1>2, <1>3, MachineSleeps, CallerSleeps
  DEF Next, MachineNext, CallerNext, SubmitNext, Thread

\* join has woken every machine that it has bound a p to (scheduler.cpp:109-124), if no
\* machine is preempted between m_idle.push and pthread_cond_wait (machine.cpp:224-226).
THEOREM NeverAsleepWithP == Orderly /\ "park" \notin Windows => (Spec => []NoBoundSleeper)
<1> SUFFICES ASSUME Orderly, "park" \notin Windows PROVE Spec => []NoBoundSleeper
  OBVIOUS
<1>1. Init => FullInv /\ SleepInv
  <2>1. ASSUME Init PROVE SleepInv
    BY <2>1, SetAssumption DEF Init, SleepInv, Thread, Caller
  <2> QED
    BY <2>1, InitInv, InitBind DEF FullInv
<1>2. FullInv /\ SleepInv /\ [Next]_vars => (FullInv /\ SleepInv)'
  BY NextBind, NextSleeps
<1>3. SleepInv => NoBoundSleeper
  BY DEF SleepInv, NoBoundSleeper
<1> QED
  BY <1>1, <1>2, <1>3, PTL DEF Spec

-----------------------------------------------------------------------------
(* How long the queues of the p's get. *)

Len1(q) == ListLen(local[q])

\* What the place of a machine says of the queue of its p: nothing is on it when the
\* machine looks elsewhere for tasks, what it may still move there fits, and so does
\* the task that it runs.
MachineLen(m) ==
    /\ pc[m] \in {"global", "idlecheck", "thiefcheck", "thiefinc", "steal", "pidle"} => Len1(mp[m]) = 0
    /\ pc[m] \in {"drain", "stealpop"} =>
          /\ Len1(mp[m]) + reg[m].n <= MaxQueueLen
          /\ reg[m].hit = 0 => Len1(mp[m]) = 0
    /\ pc[m] = "stealpop" => reg[m].vict # mp[m]
    /\ mco[m] # None /\ pc[m] # "handoff" => Len1(mp[m]) < MaxQueueLen
    /\ pc[m] \notin {"stop", "toglobal"}

CallerLen(c) == pc[c] \in {"gopush", "wakejoin"} => Len1(arg[c].p) = 0

LenInv ==
    /\ \A q \in P : Len1(q) <= MaxQueueLen
    /\ \A q \in Elements(pIdle) : Len1(q) = 0
    /\ \A m \in Machine : mp[m] # None => MachineLen(m)
    /\ \A c \in Caller : CallerLen(c)

LEMMA ListLenNat ==
    ASSUME NEW S, NEW l \in ListOf(S)
    PROVE  ListLen(l) \in Nat
<1>1. Content(l) \in Seq(S) /\ ListLen(l) = Len(Content(l))
  BY ContentType
<1> QED
  BY <1>1

LEMMA Lens ==
    ASSUME TypeOK
    PROVE  \A q \in P : Len1(q) \in Nat /\ (Len1(q) = 0 <=> local[q].head = 0)
<1> SUFFICES ASSUME NEW q \in P PROVE Len1(q) \in Nat /\ (Len1(q) = 0 <=> local[q].head = 0)
  OBVIOUS
<1>1. local[q] \in ListOf(Task)
  BY DEF TypeOK
<1>2. local[q].log \in Seq(Task) /\ local[q].head \in Nat /\ local[q].head <= Len(local[q].log)
  BY <1>1 DEF ListOf
<1>3. Len(local[q].log) \in Nat
  BY <1>2
<1> QED
  BY <1>2, <1>3 DEF Len1, ListLen

LEMMA PushLen ==
    ASSUME NEW l \in ListOf(Task), NEW t \in Task
    PROVE  ListLen(ListPush(l, t)) = ListLen(l) + 1
<1>1. Len(Content(ListPush(l, t))) = Len(Content(l)) + 1
  BY PushContent, ContentType
<1> QED
  BY <1>1, PushContent, ContentType

LEMMA PopLen ==
    ASSUME ~ Split, NEW m, NEW l \in ListOf(Task)
    PROVE  /\ Rest(m, l) \in ListOf(Task)
           /\ Taken(m, l) \in Task \cup {None}
           /\ Taken(m, l) = None => ListLen(Rest(m, l)) = ListLen(l)
           /\ Taken(m, l) = None <=> ListLen(l) = 0
           /\ Taken(m, l) # None => ListLen(Rest(m, l)) = ListLen(l) - 1
<1>1. CASE l.head = 0
  BY <1>1 DEF Taken, Rest, First, ListLen
<1>2. CASE l.head # 0
  <2>1. Taken(m, l) = l.log[l.head] /\ Rest(m, l) = ListPop(l)
    BY <1>2 DEF Taken, Rest, First
  <2>2. l.log[l.head] \in Task /\ None \notin Task
    BY <1>2, PopContent, SetAssumption
  <2>3. ListPop(l) \in ListOf(Task) /\ Content(ListPop(l)) = Tail(Content(l)) /\ Content(l) # << >>
    BY <1>2, PopContent
  <2>4. Len(Tail(Content(l))) = Len(Content(l)) - 1
    BY <2>3, ContentType
  <2> QED
    BY <2>1, <2>2, <2>3, <2>4, ContentType
<1> QED
  BY <1>1, <1>2

\* Only thread t does something, and only the queue of a p that it has gets longer.
LEMMA LenStep ==
    ASSUME FullInv, LenInv, TypeOK', NEW t \in Thread, t # None,
           \A q \in P : Len1(q)' <= Len1(q) \/ Has(t, q),
           \A q \in P : Len1(q)' <= MaxQueueLen,
           \A u \in Thread \ {t} : pc'[u] = pc[u],
           \A u \in Machine \ {t} : mp'[u] = mp[u] /\ mco'[u] = mco[u] /\ reg'[u] = reg[u],
           \A c \in Caller \ {t} : arg'[c].p = arg[c].p,
           \A q \in Elements(pIdle') : q \in Elements(pIdle) \/ Len1(q)' = 0,
           t \in Machine => (mp'[t] # None => MachineLen(t)'),
           t \in Caller => CallerLen(t)'
    PROVE  LenInv'
<1>1. /\ \A q \in P : Len1(q) \in Nat /\ Len1(q)' \in Nat
      /\ Elements(pIdle) \subseteq P
      /\ Machine \cap Caller = {} /\ None \notin Machine \cup Caller
  <2>1. \A q \in P : Len1(q) \in Nat
    BY Lens DEF FullInv, IInv
  <2>2. \A q \in P : (Len1(q) \in Nat)'
    BY ListLenNat DEF Len1, TypeOK
  <2> QED
    BY <2>1, <2>2, ElementsType, SetAssumption DEF Thread, Caller, FullInv, IInv, TypeOK
<1>2. \A x, q : q \in P /\ Has(x, q) /\ x # t => Len1(q)' <= Len1(q)
  BY TheHolder DEF FullInv, BindInv
<1>3. \A q \in Elements(pIdle') : Len1(q)' = 0
  <2> SUFFICES ASSUME NEW q \in Elements(pIdle), NEW q2 \in {q} PROVE Len1(q)' = 0
    BY DEF Elements
  <2>1. Has(None, q) /\ q \in P /\ Len1(q) = 0
    BY <1>1 DEF Has, LenInv
  <2> QED
    BY <1>1, <1>2, <2>1
<1>4. ASSUME NEW u \in Machine, u # t, mp'[u] # None PROVE MachineLen(u)'
  <2>1. /\ mp'[u] = mp[u] /\ mco'[u] = mco[u] /\ reg'[u] = reg[u] /\ pc'[u] = pc[u]
        /\ mp[u] \in P
    BY <1>4 DEF Thread, FullInv, IInv, TypeOK
  <2>2. MachineLen(u)
    BY <1>4, <2>1 DEF LenInv
  <2>3. CASE pc[u] = "handoff"
    BY <2>1, <2>3 DEF MachineLen
  <2>4. CASE pc[u] # "handoff"
    <3>1. Has(u, mp[u])
      BY <2>4 DEF Has
    <3>2. Len1(mp[u])' <= Len1(mp[u]) /\ Len1(mp[u]) \in Nat /\ Len1(mp[u])' \in Nat
      BY <1>1, <1>2, <1>4, <2>1, <3>1
    <3>3. MaxQueueLen \in Nat /\ reg[u].n \in Nat
      BY BoundAssumption DEF FullInv, IInv, TypeOK, Registers
    <3> QED
      BY <2>1, <2>2, <3>2, <3>3 DEF MachineLen, Len1
  <2> QED
    BY <2>3, <2>4
<1>5. ASSUME NEW c \in Caller, c # t PROVE CallerLen(c)'
  <2>1. arg'[c].p = arg[c].p /\ pc'[c] = pc[c]
    BY <1>5 DEF Thread
  <2>2. CASE pc[c] \in {"gopush", "wakejoin"}
    <3>1. arg[c].p \in P
      BY <2>2 DEF FullInv, IInv, ControlOK, TypeOK
    <3>2. Has(c, arg[c].p) /\ Len1(arg[c].p) = 0
      BY <2>2 DEF Has, Binding, LenInv, CallerLen
    <3>3. Len1(arg[c].p)' <= 0 /\ Len1(arg[c].p)' \in Nat
      BY <1>1, <1>2, <1>5, <3>1, <3>2
    <3> QED
      BY <2>1, <3>3 DEF CallerLen, Len1
  <2>3. CASE pc[c] \notin {"gopush", "wakejoin"}
    BY <2>1, <2>3 DEF CallerLen
  <2> QED
    BY <2>2, <2>3
<1> QED
  BY <1>3, <1>4, <1>5 DEF LenInv

LEMMA LenQuiet ==
    ASSUME FullInv, LenInv, TypeOK', NEW m \in Machine, UNCHANGED <<local, pIdle, arg>>,
           \A u \in Thread \ {m} : pc'[u] = pc[u],
           \A u \in Machine \ {m} : mp'[u] = mp[u] /\ mco'[u] = mco[u] /\ reg'[u] = reg[u],
           mp'[m] # None => MachineLen(m)'
    PROVE  LenInv'
<1>1. m \in Thread /\ m \notin Caller /\ m # None
  BY SetAssumption DEF Thread, Caller
<1>2. \A q : Len1(q)' = Len1(q)
  BY DEF Len1
<1>3. \A q \in P : Len1(q)' \in Nat /\ Len1(q) \in Nat
  BY <1>2, Lens DEF FullInv, IInv
<1>4. \A q \in P : Len1(q)' <= Len1(q) /\ Len1(q)' <= MaxQueueLen
  BY <1>2, <1>3 DEF LenInv
<1>5. \A q \in Elements(pIdle') : q \in Elements(pIdle)
  BY DEF Elements
<1> QED
  BY <1>1, <1>4, <1>5, LenStep

LEMMA TakePLen ==
    ASSUME FullInv, LenInv, TypeOK', ~ Split, NEW m \in Machine, TakeP(m) \/ Unblock(m)
    PROVE  LenInv'
<1> PICK q : q = Taken(m, pIdle)
  OBVIOUS
<1>1. /\ q \in P \cup {None} /\ (q # None => q \in Elements(pIdle))
      /\ Elements(pIdle') = Elements(pIdle) \ {q}
  BY OrderlyPop, SetAssumption DEF FullInv, BindInv, IInv, TypeOK, TakeP, Unblock
<1>2. /\ m \in Thread /\ m \notin Caller /\ m # None
  BY SetAssumption DEF Thread, Caller
<1>3. /\ mp' = [mp EXCEPT ![m] = q]
      /\ UNCHANGED <<local, mco, reg, arg>>
      /\ \/ pc[m] = "loop" /\ mco[m] = None /\ pc' = [pc EXCEPT ![m] = WithP(q)]
         \/ /\ pc[m] = "unblock"
            /\ pc' = [pc EXCEPT ![m] = IF q = None \/ ListLen(local[q]) >= MaxQueueLen
                                       THEN "toglobal" ELSE "dispatch"]
  BY DEF TakeP, Unblock, calls
<1>4. \A p \in P : Len1(p)' = Len1(p) /\ Len1(p) \in Nat /\ Len1(p) <= MaxQueueLen
  BY <1>3, Lens DEF Len1, FullInv, IInv, LenInv
<1>5. ASSUME q # None PROVE MachineLen(m)'
  <2>1. q \in P /\ Len1(q) = 0 /\ MaxQueueLen \in Nat /\ MaxQueueLen > 0
    BY <1>1, <1>5, BoundAssumption DEF LenInv
  <2>2. ~ (ListLen(local[q]) >= MaxQueueLen)
    BY <2>1 DEF Len1
  <2>3. mp'[m] = q /\ pc'[m] \in {"loop", "dispatch"} /\ (pc'[m] = "loop" => mco'[m] = None)
    BY <1>2, <1>3, <1>5, <2>2 DEF FullInv, IInv, TypeOK
  <2>4. Len1(q)' = 0
    BY <1>4, <2>1
  <2> QED
    BY <2>1, <2>3, <2>4 DEF MachineLen, Len1
<1>6. /\ \A u \in Thread \ {m} : pc'[u] = pc[u]
      /\ \A u \in Machine \ {m} : mp'[u] = mp[u] /\ mco'[u] = mco[u] /\ reg'[u] = reg[u]
      /\ mp'[m] = q
  BY <1>3 DEF FullInv, IInv, TypeOK
<1>7. \A p \in P : Len1(p)' <= Len1(p) /\ Len1(p)' <= MaxQueueLen
  BY <1>4, BoundAssumption
<1> QED
  BY <1>1, <1>2, <1>3, <1>5, <1>6, <1>7, LenStep

LEMMA GetLocalLen ==
    ASSUME FullInv, LenInv, TypeOK', ~ Split, NEW m \in Machine, GetLocal(m)
    PROVE  LenInv'
<1>1. m \in Thread /\ m \notin Caller /\ m # None
  BY SetAssumption DEF Thread, Caller
<1>2. /\ pc[m] = "loop" /\ mco[m] = None /\ mp[m] \in P /\ Target(m) = mp[m]
  <2>1. pc[m] = "loop" /\ mco[m] = None /\ Target(m) \in P /\ snap[m] = None
    BY <1>1 DEF GetLocal, FullInv, IInv, ReadsOK, ReadOK
  <2> QED
    BY <2>1, SetAssumption DEF Target, FullInv, IInv, TypeOK
<1> PICK q \in P : q = mp[m]
  BY <1>2
<1> PICK t : t = Taken(m, local[q])
  OBVIOUS
<1>3. /\ local' = [local EXCEPT ![q] = Rest(m, local[q])]
      /\ mco' = [mco EXCEPT ![m] = t]
      /\ pc' = [pc EXCEPT ![m] = IF t = None THEN "global" ELSE "loop"]
      /\ UNCHANGED <<pIdle, mp, reg, arg>>
  BY <1>2 DEF GetLocal, calls
<1>4. local[q] \in ListOf(Task)
  BY DEF FullInv, IInv, TypeOK
<1>5. /\ t = None => ListLen(Rest(m, local[q])) = Len1(q) /\ Len1(q) = 0
      /\ t # None => ListLen(Rest(m, local[q])) = Len1(q) - 1
  BY <1>4, PopLen DEF Len1
<1>6. \A p \in P : /\ p # q => Len1(p)' = Len1(p)
                   /\ Len1(p) \in Nat /\ Len1(p) <= MaxQueueLen
  BY <1>3, Lens DEF Len1, FullInv, IInv, LenInv, TypeOK
<1>7. Len1(q)' = ListLen(Rest(m, local[q]))
  BY <1>3 DEF Len1, FullInv, IInv, TypeOK
<1>8. /\ \A u \in Thread \ {m} : pc'[u] = pc[u]
      /\ \A u \in Machine \ {m} : mp'[u] = mp[u] /\ mco'[u] = mco[u] /\ reg'[u] = reg[u]
      /\ mp'[m] = q /\ mco'[m] = t /\ pc'[m] = IF t = None THEN "global" ELSE "loop"
  BY <1>1, <1>3 DEF FullInv, IInv, TypeOK
<1>9. MaxQueueLen \in Nat
  BY BoundAssumption
<1>10. Len1(q)' <= Len1(q) /\ Len1(q)' <= MaxQueueLen
       /\ (t = None => Len1(q)' = 0) /\ (t # None => Len1(q)' < MaxQueueLen)
  <2>1. Len1(q) \in Nat /\ Len1(q) <= MaxQueueLen
    BY <1>6
  <2> QED
    BY <1>5, <1>7, <1>9, <2>1
<1>11. MachineLen(m)'
  BY <1>8, <1>10 DEF MachineLen, Len1
<1>12. \A p \in P : Len1(p)' <= Len1(p) /\ Len1(p)' <= MaxQueueLen
  <2> SUFFICES ASSUME NEW p \in P PROVE Len1(p)' <= Len1(p) /\ Len1(p)' <= MaxQueueLen
    OBVIOUS
  <2>1. CASE p = q
    BY <1>10, <2>1
  <2>2. CASE p # q
    <3>1. Len1(p)' = Len1(p) /\ Len1(p) \in Nat /\ Len1(p) <= MaxQueueLen
      BY <1>6, <2>2
    <3> QED
      BY <1>9, <3>1
  <2> QED
    BY <2>1, <2>2
<1>13. Elements(pIdle') = Elements(pIdle)
  BY <1>3
<1> QED
  BY <1>1, <1>3, <1>8, <1>11, <1>12, <1>13, LenStep

LEMMA DrainLen ==
    ASSUME FullInv, LenInv, TypeOK', ~ Split, NEW m \in Machine, Drain(m)
    PROVE  LenInv'
<1>1. m \in Thread /\ m \notin Caller /\ m # None
  BY SetAssumption DEF Thread, Caller
<1>2. pc[m] = "drain" /\ mp[m] \in P /\ mco[m] = None /\ mp[m] # None
  <2>1. pc[m] = "drain" /\ mp[m] # None
    BY DEF Drain
  <2>2. mp[m] \in P \cup {None}
    BY DEF FullInv, IInv, TypeOK
  <2>3. mco[m] = None
    BY <2>1 DEF FullInv, IInv, ControlOK, HoldsTask
  <2> QED
    BY <2>1, <2>2, <2>3
<1> PICK q \in P : q = mp[m]
  BY <1>2
<1> PICK t : t = Taken(m, global)
  OBVIOUS
<1> PICK hit : hit = IF t = None THEN reg[m].hit ELSE 1
  OBVIOUS
<1>3. /\ local' = IF t = None THEN local ELSE [local EXCEPT ![q] = ListPush(local[q], t)]
      /\ reg' = [reg EXCEPT ![m] = IF reg[m].n = 1 THEN NoLoop ELSE NextTurn(m, hit)]
      /\ pc' = [pc EXCEPT ![m] = IF reg[m].n # 1 THEN "drain"
                                 ELSE IF hit = 1 THEN "loop" ELSE "idlecheck"]
      /\ UNCHANGED <<pIdle, mp, mco, arg>>
  BY DEF Drain, calls
<1>4. t \in Task \cup {None} /\ local[q] \in ListOf(Task)
  BY <1>2, PopLen DEF FullInv, IInv, TypeOK
<1>5. /\ reg[m].n \in Nat \ {0} /\ reg[m].hit \in {0, 1}
      /\ NextTurn(m, hit).n = reg[m].n - 1 /\ NextTurn(m, hit).hit = hit
  BY <1>2 DEF FullInv, IInv, TypeOK, ControlOK, Registers, NextTurn
<1>6. \A p \in P : /\ p # q => Len1(p)' = Len1(p)
                   /\ Len1(p) \in Nat /\ Len1(p) <= MaxQueueLen
  BY <1>3, Lens DEF Len1, FullInv, IInv, LenInv, TypeOK
<1>7. Len1(q)' = IF t = None THEN Len1(q) ELSE Len1(q) + 1
  BY <1>3, <1>4, PushLen DEF Len1, FullInv, IInv, TypeOK
<1>8. Len1(q) + reg[m].n <= MaxQueueLen /\ (reg[m].hit = 0 => Len1(q) = 0)
  BY <1>2 DEF LenInv, MachineLen
<1>9. /\ \A u \in Thread \ {m} : pc'[u] = pc[u]
      /\ \A u \in Machine \ {m} : mp'[u] = mp[u] /\ mco'[u] = mco[u] /\ reg'[u] = reg[u]
      /\ mp'[m] = q /\ mco'[m] = None
      /\ reg'[m] = IF reg[m].n = 1 THEN NoLoop ELSE NextTurn(m, hit)
      /\ pc'[m] = IF reg[m].n # 1 THEN "drain" ELSE IF hit = 1 THEN "loop" ELSE "idlecheck"
  BY <1>1, <1>2, <1>3 DEF FullInv, IInv, TypeOK
<1>10. /\ Len1(q)' + (reg[m].n - 1) <= MaxQueueLen
       /\ Len1(q)' <= MaxQueueLen
       /\ hit = 0 => Len1(q)' = 0
  <2>1. MaxQueueLen \in Nat /\ Len1(q) \in Nat
    BY <1>6, BoundAssumption
  <2> QED
    BY <1>5, <1>7, <1>8, <2>1
<1>11. MachineLen(m)'
  <2>1. CASE reg[m].n = 1
    <3>1. hit \in {0, 1}
      BY <1>5
    <3> QED
      BY <1>9, <1>10, <2>1, <3>1 DEF MachineLen, Len1
  <2>2. CASE reg[m].n # 1
    <3>1. /\ pc'[m] = "drain" /\ reg'[m].n = reg[m].n - 1 /\ reg'[m].hit = hit
          /\ mp'[m] = q /\ mco'[m] = None
      BY <1>5, <1>9, <2>2
    <3> QED
      BY <1>10, <3>1 DEF MachineLen, Len1
  <2> QED
    BY <2>1, <2>2
<1>12. Has(m, q)
  BY <1>2 DEF Has
<1>13. \A p \in P : (Len1(p)' <= Len1(p) \/ Has(m, p)) /\ Len1(p)' <= MaxQueueLen
  <2> SUFFICES ASSUME NEW p \in P, p # q PROVE Len1(p)' <= Len1(p) /\ Len1(p)' <= MaxQueueLen
    BY <1>10, <1>12
  <2>1. Len1(p)' = Len1(p) /\ Len1(p) \in Nat /\ Len1(p) <= MaxQueueLen /\ MaxQueueLen \in Nat
    BY <1>6, BoundAssumption
  <2> QED
    BY <2>1
<1>14. Elements(pIdle') = Elements(pIdle)
  BY <1>3
<1> QED
  BY <1>1, <1>3, <1>9, <1>11, <1>13, <1>14, LenStep

\* The steps of a machine that leave every queue of tasks as it is.
LEMMA StillLen ==
    ASSUME FullInv, LenInv, TypeOK', Orderly, NEW m \in Machine,
           \/ LookGlobal(m) \/ IdleCheck(m) \/ ThiefCheck(m) \/ ThiefInc(m) \/ ThiefDec(m)
           \/ GetStop(m) \/ Resume(m) \/ Execute(m) \/ YieldAsync(m) \/ AfterRun(m)
           \/ ToGlobal(m) \/ HandOff(m) \/ Park(m) \/ Wait(m) \/ SpuriousWake(m)
    PROVE  LenInv'
<1>0. m \in Thread /\ m \notin Caller /\ m # None
  BY SetAssumption DEF Thread, Caller
<1>1. /\ mp[m] # None => MachineLen(m) /\ mp[m] \in P /\ Len1(mp[m]) \in Nat
                         /\ Len1(mp[m]) <= MaxQueueLen
      /\ pc[m] \in HoldsTask => mco[m] # None
      /\ pc[m] \notin HoldsTask \cup {"loop"} => mco[m] = None
      /\ MaxQueueLen \in Nat
  BY Lens, BoundAssumption DEF LenInv, FullInv, IInv, ControlOK, TypeOK
<1>2. /\ UNCHANGED <<local, pIdle, arg>>
      /\ \A u \in Thread \ {m} : pc'[u] = pc[u]
      /\ \A u \in Machine \ {m} : mp'[u] = mp[u] /\ mco'[u] = mco[u] /\ reg'[u] = reg[u]
  BY DEF LookGlobal, IdleCheck, ThiefCheck, ThiefInc, ThiefDec, GetStop, Resume, Execute,
         YieldAsync, AfterRun, ToGlobal, HandOff, Park, Wait, SpuriousWake,
         lists, machs, tasks, calls, FullInv, IInv, TypeOK
<1>3. mp'[m] # None => MachineLen(m)'
  <2> SUFFICES ASSUME mp'[m] # None PROVE MachineLen(m)'
    OBVIOUS
  <2> USE DEF MachineLen, Len1, lists, machs, calls, HoldsTask, FullInv, IInv, TypeOK
  <2>1. CASE LookGlobal(m)
    <3>1. mp'[m] = mp[m] /\ mco'[m] = mco[m] /\ UNCHANGED local /\ pc[m] = "global"
      BY <2>1 DEF LookGlobal
    <3>2. \/ pc'[m] = "idlecheck"
          \/ pc'[m] = "drain" /\ reg'[m].n = MaxQueueLen
      BY <1>0, <2>1 DEF LookGlobal, NoLoop
    <3> QED
      BY <1>1, <3>1, <3>2
  <2>2. CASE IdleCheck(m) \/ ThiefCheck(m)
    BY <1>0, <1>1, <2>2 DEF IdleCheck, ThiefCheck
  <2>3. CASE ThiefInc(m) \/ ThiefDec(m)
    BY <1>0, <1>1, <2>3 DEF ThiefInc, ThiefDec
  <2>4. CASE GetStop(m)
    BY <1>0, <1>1, <2>4 DEF GetStop
  <2>5. CASE Resume(m)
    BY <1>0, <1>1, <2>5 DEF Resume
  <2>6. CASE Execute(m) \/ YieldAsync(m)
    <3>1. mp'[m] = mp[m] /\ mco'[m] = mco[m] /\ UNCHANGED local
          /\ pc[m] \in {"running", "issued"} /\ pc'[m] \in {"issued", "after"}
      BY <1>0, <2>6 DEF Execute, YieldAsync
    <3> QED
      BY <1>1, <3>1
  <2>7. CASE AfterRun(m)
    BY <1>0, <1>1, <2>7 DEF AfterRun
  <2>8. CASE ToGlobal(m)
    BY <1>1, <2>8 DEF ToGlobal
  <2>9. CASE HandOff(m)
    BY <2>9 DEF HandOff
  <2>10. CASE Park(m) \/ Wait(m)
    BY <1>0, <1>1, <2>10 DEF Park, Wait
  <2>11. CASE SpuriousWake(m)
    BY <1>0, <1>1, <2>11 DEF SpuriousWake
  <2> QED
    BY <2>1, <2>2, <2>3, <2>4, <2>5, <2>6, <2>7, <2>8, <2>9, <2>10, <2>11
<1> QED
  BY <1>2, <1>3, LenQuiet

\* A machine that looks for a victim has an empty queue, and so robs somebody else.
LEMMA StealLen ==
    ASSUME FullInv, LenInv, TypeOK', NEW m \in Machine, Steal(m)
    PROVE  LenInv'
<1>0. m \in Thread /\ m \notin Caller /\ m # None
  BY SetAssumption DEF Thread, Caller
<1>1. PICK v \in reg[m].left :
         LET len == ListLen(local[v])
         IN IF len = 0
            THEN Missed(m, v)
            ELSE /\ reg' = [reg EXCEPT ![m] =
                               [reg[m] EXCEPT !.n = len - (len \div 2), !.vict = v]]
                 /\ pc' = [pc EXCEPT ![m] = "stealpop"]
  BY DEF Steal
<1>2. v \in P /\ reg[m] \in Registers
  BY DEF FullInv, IInv, TypeOK, Registers
<1>3. UNCHANGED <<local, pIdle, arg, mp, mco>> /\ mco[m] = None /\ pc[m] = "steal"
  BY DEF Steal, lists, calls, FullInv, IInv, ControlOK, HoldsTask
<1>4. /\ \A u \in Thread \ {m} : pc'[u] = pc[u]
      /\ \A u \in Machine \ {m} : reg'[u] = reg[u]
  BY <1>1, MissedControl DEF FullInv, IInv, TypeOK
<1>5. ASSUME mp[m] # None PROVE MachineLen(m)'
  <2>1. Len1(mp[m]) = 0
    BY <1>3, <1>5 DEF LenInv, MachineLen
  <2>2. CASE ListLen(local[v]) = 0
    <3>1. pc'[m] \in {"steal", "thiefdec"}
      BY <1>1, <2>2, MissedControl DEF FullInv
    <3> QED
      BY <1>3, <2>1, <3>1 DEF MachineLen, Len1
  <2>3. CASE ListLen(local[v]) # 0
    <3> PICK n : n = ListLen(local[v]) - (ListLen(local[v]) \div 2)
      OBVIOUS
    <3>1. Len1(v) \in Nat /\ Len1(v) <= MaxQueueLen /\ MaxQueueLen \in Nat
      BY <1>2, Lens, BoundAssumption DEF FullInv, IInv, LenInv
    <3>2. n <= MaxQueueLen /\ n \in Nat
      BY <3>1 DEF Len1
    <3>3. pc'[m] = "stealpop" /\ reg'[m].n = n /\ reg'[m].vict = v
      <4>1. /\ reg' = [reg EXCEPT ![m] = [reg[m] EXCEPT !.n = n, !.vict = v]]
            /\ pc' = [pc EXCEPT ![m] = "stealpop"]
        BY <1>1, <2>3
      <4>2. reg'[m] = [reg[m] EXCEPT !.n = n, !.vict = v] /\ pc'[m] = "stealpop"
        BY <1>0, <4>1 DEF FullInv, IInv, TypeOK
      <4> QED
        BY <1>2, <4>2 DEF Registers
    <3>4. v # mp[m]
      BY <2>1, <2>3 DEF Len1
    <3> QED
      BY <1>3, <2>1, <3>2, <3>3, <3>4 DEF MachineLen, Len1
  <2> QED
    BY <2>2, <2>3
<1> QED
  BY <1>3, <1>4, <1>5, LenQuiet

\* What a turn of work_stealing leaves in the registers.
LEMMA StealPopTurn ==
    ASSUME FullInv, NEW m \in Machine, StealPop(m), NEW hit,
           hit = IF Taken(m, local[reg[m].vict]) = None THEN reg[m].hit ELSE 1
    PROVE  /\ \A u \in Thread \ {m} : pc'[u] = pc[u]
           /\ \A u \in Machine \ {m} : reg'[u] = reg[u]
           /\ \/ /\ reg[m].n > 1 /\ pc'[m] = "stealpop" /\ reg'[m].n = reg[m].n - 1
                 /\ reg'[m].hit = hit /\ reg'[m].vict = reg[m].vict
              \/ hit = 1 /\ pc'[m] = "loop"
              \/ hit # 1 /\ pc'[m] \in {"steal", "thiefdec"}
<1>0. m \in Thread /\ pc[m] = "stealpop" /\ reg[m] \in Registers
  BY DEF StealPop, Thread, FullInv, IInv, TypeOK
<1>1. CASE reg[m].n > 1
  <2>1. UNCHANGED pc /\ reg' = [reg EXCEPT ![m] = NextTurn(m, hit)]
    BY <1>1 DEF StealPop
  <2>2. /\ NextTurn(m, hit).n = reg[m].n - 1 /\ NextTurn(m, hit).hit = hit
        /\ NextTurn(m, hit).vict = reg[m].vict
    BY <1>0 DEF NextTurn, Registers
  <2> QED
    BY <1>0, <1>1, <2>1, <2>2 DEF FullInv, IInv, TypeOK
<1>2. CASE ~ (reg[m].n > 1) /\ hit = 1
  BY <1>0, <1>2 DEF StealPop, FullInv, IInv, TypeOK
<1>3. CASE ~ (reg[m].n > 1) /\ hit # 1
  BY <1>3, MissedControl DEF StealPop, FullInv
<1> QED
  BY <1>1, <1>2, <1>3

\* A turn of work_stealing takes from the victim what it puts on the own queue.
LEMMA StealPopLen ==
    ASSUME FullInv, LenInv, TypeOK', ~ Split, NEW m \in Machine, StealPop(m)
    PROVE  LenInv'
<1>0. m \in Thread /\ m \notin Caller /\ m # None
  BY SetAssumption DEF Thread, Caller
<1>1. /\ pc[m] = "stealpop" /\ mp[m] \in P /\ mp[m] # None /\ mco[m] = None
      /\ reg[m] \in Registers /\ reg[m].n > 0 /\ reg[m].vict \in P
  BY DEF StealPop, FullInv, IInv, TypeOK, ControlOK, HoldsTask, Registers
<1> PICK q \in P : q = mp[m]
  BY <1>1
<1> PICK v \in P : v = reg[m].vict
  BY <1>1
<1> PICK t : t = Taken(m, local[v])
  OBVIOUS
<1> PICK hit : hit = IF t = None THEN reg[m].hit ELSE 1
  OBVIOUS
<1>2. /\ Len1(q) + reg[m].n <= MaxQueueLen
      /\ reg[m].hit = 0 => Len1(q) = 0
      /\ v # q
  BY <1>1 DEF LenInv, MachineLen
<1>3. UNCHANGED <<pIdle, mp, mco, arg>>
  BY DEF StealPop, calls
<1>4. local' = IF t = None THEN [local EXCEPT ![v] = Rest(m, local[v])]
               ELSE [local EXCEPT ![v] = Rest(m, local[v]), ![q] = ListPush(local[q], t)]
  <2>1. local' = Stolen(m, v, t)
    BY DEF StealPop
  <2> QED
    BY <1>2, <2>1 DEF FullInv, IInv, TypeOK
<1>5. local[v] \in ListOf(Task) /\ local[q] \in ListOf(Task) /\ t \in Task \cup {None}
  BY PopLen DEF FullInv, IInv, TypeOK
<1>6. \A p \in P : Len1(p) \in Nat /\ Len1(p) <= MaxQueueLen /\ MaxQueueLen \in Nat
  BY Lens, BoundAssumption DEF FullInv, IInv, LenInv
<1>7. Len1(v)' <= Len1(v)
  <2>1. Len1(v)' = ListLen(Rest(m, local[v]))
    BY <1>2, <1>4 DEF Len1, FullInv, IInv, TypeOK
  <2>2. ListLen(Rest(m, local[v])) \in {ListLen(local[v]), ListLen(local[v]) - 1}
    BY <1>5, PopLen
  <2>3. ListLen(local[v]) \in Nat
    BY <1>6 DEF Len1
  <2> QED
    BY <2>1, <2>2, <2>3 DEF Len1
<1>8. Len1(q)' = IF t = None THEN Len1(q) ELSE Len1(q) + 1
  BY <1>2, <1>4, <1>5, PushLen DEF Len1, FullInv, IInv, TypeOK
<1>9. \A p \in P \ {q, v} : Len1(p)' = Len1(p)
  BY <1>4 DEF Len1, FullInv, IInv, TypeOK
<1>10. Has(m, q)
  BY <1>1 DEF Has
<1>11. /\ Len1(q)' + (reg[m].n - 1) <= MaxQueueLen
       /\ Len1(q)' <= MaxQueueLen
       /\ hit # 1 => Len1(q)' = 0
  <2>1. reg[m].n \in Nat /\ reg[m].hit \in {0, 1} /\ Len1(q) \in Nat
    BY <1>1, <1>6 DEF Registers
  <2> QED
    BY <1>1, <1>2, <1>6, <1>8, <2>1
<1>12. \A p \in P : (Len1(p)' <= Len1(p) \/ Has(m, p)) /\ Len1(p)' <= MaxQueueLen
  <2> SUFFICES ASSUME NEW p \in P, p # q PROVE Len1(p)' <= Len1(p) /\ Len1(p)' <= MaxQueueLen
    BY <1>10, <1>11
  <2>1. Len1(p)' <= Len1(p) /\ Len1(p) \in Nat /\ Len1(p) <= MaxQueueLen /\ MaxQueueLen \in Nat
    BY <1>6, <1>7, <1>9
  <2>2. Len1(p)' \in Nat
    BY ListLenNat DEF TypeOK, Len1
  <2> QED
    BY <2>1, <2>2
<1>13. /\ MachineLen(m)'
       /\ \A u \in Thread \ {m} : pc'[u] = pc[u]
       /\ \A u \in Machine \ {m} : reg'[u] = reg[u]
  <2>1. /\ \A u \in Thread \ {m} : pc'[u] = pc[u]
        /\ \A u \in Machine \ {m} : reg'[u] = reg[u]
        /\ \/ /\ reg[m].n > 1 /\ pc'[m] = "stealpop" /\ reg'[m].n = reg[m].n - 1
              /\ reg'[m].hit = hit /\ reg'[m].vict = reg[m].vict
           \/ hit = 1 /\ pc'[m] = "loop"
           \/ hit # 1 /\ pc'[m] \in {"steal", "thiefdec"}
    BY StealPopTurn
  <2>2. mp'[m] = q /\ mco'[m] = None
    BY <1>1, <1>3
  <2>3. MachineLen(m)'
    BY <1>2, <1>11, <2>1, <2>2 DEF MachineLen, Len1
  <2> QED
    BY <2>1, <2>3
<1>14. Elements(pIdle') = Elements(pIdle)
  BY <1>3
<1>15. \A u \in Machine \ {m} : mp'[u] = mp[u] /\ mco'[u] = mco[u] /\ reg'[u] = reg[u]
  BY <1>3, <1>13
<1>16. \A c \in Caller \ {m} : arg'[c].p = arg[c].p
  BY <1>3
<1>17. \A x \in Elements(pIdle') : x \in Elements(pIdle) \/ Len1(x)' = 0
  BY <1>14
<1> QED
  BY <1>0, <1>12, <1>13, <1>15, <1>16, <1>17, LenStep

\* The machine that m_loop puts the task back with took it off the same queue.
LEMMA DispatchLen ==
    ASSUME FullInv, LenInv, TypeOK', NEW m \in Machine, Dispatch(m)
    PROVE  LenInv'
<1>0. m \in Thread /\ m \notin Caller /\ m # None
  BY SetAssumption DEF Thread, Caller
<1>1. /\ pc[m] = "dispatch" /\ UNCHANGED <<pIdle, mp, reg, arg>>
      /\ \A u \in Thread \ {m} : pc'[u] = pc[u]
      /\ \A u \in Machine \ {m} : mco'[u] = mco[u]
      /\ mco[m] \in Task
  BY DEF Dispatch, calls, FullInv, IInv, TypeOK, ControlOK, HoldsTask
<1>2. \A p \in P : Len1(p) \in Nat /\ Len1(p) <= MaxQueueLen /\ MaxQueueLen \in Nat
  BY Lens, BoundAssumption DEF FullInv, IInv, LenInv
<1>3. CASE UNCHANGED local
  <2>1. \/ pc'[m] = "freeze" /\ mco'[m] = mco[m]
        \/ pc'[m] = "loop" /\ mco'[m] = None
    BY <1>0 DEF Dispatch, FullInv, IInv, TypeOK
  <2>2. ASSUME mp'[m] # None PROVE MachineLen(m)'
    <3>1. MachineLen(m)
      BY <1>1, <2>2 DEF LenInv
    <3> QED
      BY <1>1, <1>3, <2>1, <2>2, <3>1 DEF MachineLen, Len1
  <2> QED
    BY <1>1, <1>3, <2>2, LenQuiet
<1>4. CASE /\ mp[m] # None
           /\ local' = [local EXCEPT ![mp[m]] = ListPush(local[mp[m]], mco[m])]
           /\ mco' = [mco EXCEPT ![m] = None]
           /\ pc' = [pc EXCEPT ![m] = "loop"]
  <2> PICK q \in P : q = mp[m]
    BY <1>4 DEF FullInv, IInv, TypeOK
  <2>1. Len1(q) < MaxQueueLen
    BY <1>1, <1>4, SetAssumption DEF LenInv, MachineLen
  <2>2. Len1(q)' = Len1(q) + 1
    BY <1>1, <1>4, PushLen DEF Len1, FullInv, IInv, TypeOK
  <2>3. \A p \in P \ {q} : Len1(p)' = Len1(p)
    BY <1>4 DEF Len1, FullInv, IInv, TypeOK
  <2>4. Has(m, q)
    BY <1>1 DEF Has
  <2>5. Len1(q)' <= MaxQueueLen
    BY <1>2, <2>1, <2>2
  <2>6. \A p \in P : (Len1(p)' <= Len1(p) \/ Has(m, p)) /\ Len1(p)' <= MaxQueueLen
    BY <1>2, <2>3, <2>4, <2>5
  <2>7. MachineLen(m)'
    BY <1>0, <1>1, <1>4, <2>5 DEF MachineLen, FullInv, IInv, TypeOK
  <2>8. Elements(pIdle') = Elements(pIdle)
    BY <1>1
  <2> QED
    BY <1>0, <1>1, <2>6, <2>7, <2>8, LenStep
<1> QED
  BY <1>3, <1>4 DEF Dispatch

\* join passes a p on: its queue stays as it is, and the machine it goes to runs no task.
LEMMA JoinLen ==
    ASSUME FullInv, LenInv, ~ Split, NEW t \in Thread, NEW q \in P \cup {None}, NEW next,
           Join(t, q, next),
           \/ t \in Machine /\ pc[t] = "freeze" /\ next = "handoff" /\ q = mp[t]
           \/ t \in Caller /\ pc[t] \in {"gojoin", "wakejoin"} /\ next \in {"idle", "wake"}
    PROVE  LenInv'
<1>0. Machine \cap Caller = {} /\ t # None
  BY SetAssumption DEF Thread, Caller
<1>1. Taken(t, mIdle) # None => Taken(t, mIdle) \in Elements(mIdle)
  BY OrderlyPop, SetAssumption DEF FullInv, BindInv, IInv, TypeOK, Thread
<1>2. PICK n \in Machine :
         /\ Taken(t, mIdle) = n \/ (Taken(t, mIdle) = None /\ pc[n] = "unborn")
         /\ mp' = [mp EXCEPT ![n] = q]
         /\ pc'[t] = next
         /\ \A u \in Thread \ {n, t} : pc'[u] = pc[u]
         /\ n # t => pc'[n] = pc[n] \/ (pc[n] \in {"waiting", "unborn"} /\ pc'[n] = "loop")
         /\ UNCHANGED <<local, pIdle, mco, reg, arg>>
  BY JoinBinds DEF FullInv
<1>3. pc[n] \in {"unborn", "towait", "waiting"} /\ n # t /\ n \in Thread
  BY <1>0, <1>1, <1>2, SetAssumption DEF FullInv, BindInv, Thread
<1>4. mco[n] = None /\ pc'[n] \in {"unborn", "towait", "waiting", "loop"}
  BY <1>2, <1>3 DEF FullInv, IInv, ControlOK, HoldsTask
<1>5. ASSUME NEW u \in Machine, mp'[u] # None PROVE MachineLen(u)'
  <2>1. CASE u = n
    BY <1>2, <1>4, <2>1 DEF MachineLen
  <2>2. CASE u # n
    <3>1. mp'[u] = mp[u] /\ MachineLen(u)
      BY <1>2, <1>5, <2>2 DEF LenInv, FullInv, IInv, TypeOK
    <3>2. pc'[u] = pc[u] \/ pc'[u] = "handoff"
      BY <1>0, <1>2, <1>5, <2>2 DEF Thread
    <3> QED
      BY <1>2, <3>1, <3>2 DEF MachineLen, Len1
  <2> QED
    BY <2>1, <2>2
<1>6. ASSUME NEW c \in Caller PROVE CallerLen(c)'
  <2>1. c # n /\ c \in Thread
    BY <1>0 DEF Thread
  <2>2. pc'[c] = pc[c] \/ pc'[c] \notin {"gopush", "wakejoin"}
    BY <1>0, <1>2, <2>1
  <2>3. CallerLen(c)
    BY DEF LenInv
  <2> QED
    BY <1>2, <2>2, <2>3 DEF CallerLen, Len1
<1> QED
  BY <1>2, <1>5, <1>6 DEF LenInv, Len1

\* A p goes on p_idle with an empty queue.
LEMMA ReleaseLen ==
    ASSUME FullInv, LenInv, TypeOK', NEW m \in Machine, ReleaseP(m) \/ StopRelease(m)
    PROVE  LenInv'
<1>0. m \in Thread /\ m \notin Caller /\ m # None
  BY SetAssumption DEF Thread, Caller
<1>1. CASE mp[m] = None
  <2>1. UNCHANGED pIdle
    BY <1>1 DEF ReleaseP, StopRelease
  <2>2. /\ UNCHANGED <<local, arg>>
        /\ \A u \in Thread \ {m} : pc'[u] = pc[u]
        /\ \A u \in Machine \ {m} : mp'[u] = mp[u] /\ mco'[u] = mco[u] /\ reg'[u] = reg[u]
        /\ mp'[m] = None
    BY <1>0 DEF ReleaseP, StopRelease, calls, FullInv, IInv, TypeOK
  <2> QED
    BY <2>1, <2>2, LenQuiet
<1>2. CASE mp[m] # None
  <2>1. PICK q \in P : q = mp[m]
    BY <1>2 DEF FullInv, IInv, TypeOK
  <2>2. Len1(q) = 0
    BY <1>2, <2>1 DEF ReleaseP, StopRelease, LenInv, MachineLen
  <2>3. /\ pIdle' = ListPush(pIdle, q) /\ mp'[m] = None
        /\ UNCHANGED <<local, arg>>
        /\ \A u \in Thread \ {m} : pc'[u] = pc[u]
        /\ \A u \in Machine \ {m} : mp'[u] = mp[u] /\ mco'[u] = mco[u] /\ reg'[u] = reg[u]
    BY <1>0, <1>2, <2>1 DEF ReleaseP, StopRelease, calls, FullInv, IInv, TypeOK
  <2>4. Elements(pIdle') = Elements(pIdle) \cup {q}
    BY <2>3, PushElements DEF FullInv, IInv, TypeOK
  <2>5. \A p \in P : Len1(p)' = Len1(p) /\ Len1(p) \in Nat /\ Len1(p) <= MaxQueueLen
    BY <2>3, Lens DEF Len1, FullInv, IInv, LenInv
  <2>6. \A p \in P : Len1(p)' <= Len1(p) /\ Len1(p)' <= MaxQueueLen
    BY <2>5, BoundAssumption
  <2>7. \A x \in Elements(pIdle') : x \in Elements(pIdle) \/ Len1(x)' = 0
    BY <2>2, <2>4, <2>5
  <2> QED
    BY <1>0, <2>3, <2>6, <2>7, LenStep
<1> QED
  BY <1>1, <1>2

\* The steps of go and of step_loop.
LEMMA GoPushLen ==
    ASSUME FullInv, LenInv, TypeOK', NEW c \in Caller, GoPush(c)
    PROVE  LenInv'
<1>0. c \in Thread /\ c \notin Machine /\ c # None
  BY SetAssumption DEF Thread, Caller
<1>1. pc[c] = "gopush" /\ arg[c].co \in Task /\ arg[c].p \in P
  BY DEF GoPush, FullInv, IInv, ControlOK, TypeOK
<1> PICK q \in P : q = arg[c].p
  BY <1>1
<1>2. Len1(q) = 0 /\ Has(c, q)
  BY <1>1 DEF LenInv, CallerLen, Has, Binding
<1>3. /\ local' = [local EXCEPT ![q] = ListPush(local[q], arg[c].co)]
      /\ pc' = [pc EXCEPT ![c] = "gojoin"]
      /\ UNCHANGED <<pIdle, mp, mco, reg, arg>>
  BY DEF GoPush, machs, calls
<1>4. Len1(q)' = 1
  BY <1>1, <1>2, <1>3, PushLen DEF Len1, FullInv, IInv, TypeOK
<1>5. \A p \in P : /\ p # q => Len1(p)' = Len1(p)
                   /\ Len1(p) \in Nat /\ Len1(p) <= MaxQueueLen
                   /\ MaxQueueLen \in Nat \ {0}
  BY <1>3, Lens, BoundAssumption DEF Len1, FullInv, IInv, LenInv, TypeOK
<1>6. \A p \in P : (Len1(p)' <= Len1(p) \/ Has(c, p)) /\ Len1(p)' <= MaxQueueLen
  BY <1>2, <1>4, <1>5
<1>7. pc'[c] = "gojoin" /\ \A u \in Thread \ {c} : pc'[u] = pc[u]
  BY <1>0, <1>3 DEF FullInv, IInv, TypeOK
<1>8. CallerLen(c)'
  BY <1>7 DEF CallerLen
<1>9. \A x \in Elements(pIdle') : x \in Elements(pIdle)
  BY <1>3
<1> QED
  BY <1>0, <1>3, <1>6, <1>7, <1>8, <1>9, LenStep

LEMMA CallerPopLen ==
    ASSUME FullInv, LenInv, TypeOK', ~ Split, NEW c \in Caller,
           GoPop(c) \/ (c = Daemon /\ WakePop)
    PROVE  LenInv'
<1>0. c \in Thread /\ c \notin Machine /\ c # None
  BY SetAssumption DEF Thread, Caller
<1> PICK q : q = Taken(c, pIdle)
  OBVIOUS
<1>1. /\ q \in P \cup {None} /\ (q # None => q \in Elements(pIdle))
      /\ Elements(pIdle') = Elements(pIdle) \ {q}
  BY OrderlyPop, SetAssumption DEF FullInv, BindInv, IInv, TypeOK, GoPop, WakePop
<1>2. /\ arg' = [arg EXCEPT ![c].p = q]
      /\ UNCHANGED <<local, mp, mco, reg>>
      /\ pc' \in {[pc EXCEPT ![c] = "idle"], [pc EXCEPT ![c] = "goglobal"],
                  [pc EXCEPT ![c] = "gopush"], [pc EXCEPT ![c] = "wakejoin"]}
      /\ q = None => pc' \in {[pc EXCEPT ![c] = "idle"], [pc EXCEPT ![c] = "goglobal"]}
  BY DEF GoPop, WakePop, machs
<1>3. /\ \A u \in Thread \ {c} : pc'[u] = pc[u]
      /\ \A d \in Caller \ {c} : arg'[d].p = arg[d].p
      /\ arg'[c].p = q
      /\ q = None => pc'[c] \in {"idle", "goglobal"}
  BY <1>0, <1>2 DEF FullInv, IInv, TypeOK
<1>4. \A p \in P : Len1(p)' = Len1(p) /\ Len1(p) \in Nat /\ Len1(p) <= MaxQueueLen
  BY <1>2, Lens DEF Len1, FullInv, IInv, LenInv
<1>5. \A p \in P : Len1(p)' <= Len1(p) /\ Len1(p)' <= MaxQueueLen
  BY <1>4, BoundAssumption
<1>6. CallerLen(c)'
  <2>1. CASE q = None
    BY <1>3, <2>1 DEF CallerLen
  <2>2. CASE q # None
    <3>1. Len1(q) = 0 /\ q \in P
      BY <1>1, <2>2 DEF LenInv
    <3>2. Len1(q)' = 0
      BY <1>4, <3>1
    <3> QED
      BY <1>3, <3>2 DEF CallerLen, Len1
  <2> QED
    BY <2>1, <2>2
<1> QED
  BY <1>0, <1>1, <1>2, <1>3, <1>5, <1>6, LenStep

LEMMA CallerStillLen ==
    ASSUME FullInv, LenInv, TypeOK', NEW c \in Caller,
           GoGlobal(c) \/ (c = Daemon /\ Tick)
           \/ \E t \in Task : (c = Main /\ Submit(t)) \/ (c = Daemon /\ Callback(t))
    PROVE  LenInv'
<1>0. c \in Thread /\ c \notin Machine /\ c # None
  BY SetAssumption DEF Thread, Caller
<1>1. /\ UNCHANGED <<local, pIdle, mp, mco, reg>>
      /\ pc' \in {[pc EXCEPT ![c] = "idle"], [pc EXCEPT ![c] = "wake"],
                  [pc EXCEPT ![c] = "gopop"]}
      /\ arg' = arg \/ \E t \in Task : arg' = [arg EXCEPT ![c].co = t]
  BY DEF GoGlobal, Tick, Submit, Callback, lists, machs, calls
<1>2. /\ \A u \in Thread \ {c} : pc'[u] = pc[u]
      /\ \A d \in Caller \ {c} : arg'[d].p = arg[d].p
      /\ pc'[c] \in {"idle", "wake", "gopop"}
  BY <1>0, <1>1 DEF FullInv, IInv, TypeOK
<1>3. \A p \in P : Len1(p)' = Len1(p) /\ Len1(p) \in Nat /\ Len1(p) <= MaxQueueLen
  BY <1>1, Lens DEF Len1, FullInv, IInv, LenInv
<1>4. \A p \in P : Len1(p)' <= Len1(p) /\ Len1(p)' <= MaxQueueLen
  BY <1>3, BoundAssumption
<1>5. CallerLen(c)' /\ \A x \in Elements(pIdle') : x \in Elements(pIdle)
  BY <1>1, <1>2 DEF CallerLen
<1> QED
  BY <1>0, <1>1, <1>2, <1>4, <1>5, LenStep

LEMMA NextLen ==
    ASSUME Orderly, FullInv, LenInv, [Next]_vars
    PROVE  LenInv'
<1>0. TypeOK' /\ ~ Split /\ Main \in Caller /\ Daemon \in Caller
  BY NextInv DEF FullInv, IInv, Orderly, Caller
<1>1. ASSUME NEW m \in Machine, MachineStep(m) \/ SpuriousWake(m) PROVE LenInv'
  <2>1. CASE Freeze(m)
    <3>1. mp[m] \in P \cup {None} /\ m \in Thread
      BY DEF FullInv, IInv, TypeOK, Thread
    <3> QED
      BY <1>0, <2>1, <3>1, JoinLen DEF Freeze
  <2> QED
    BY <1>0, <1>1, <2>1, StillLen, TakePLen, GetLocalLen, DrainLen, StealLen, StealPopLen,
       DispatchLen, ReleaseLen DEF MachineStep
<1>2. ASSUME NEW c \in Caller, GoStep(c) PROVE LenInv'
  <2>1. CASE GoJoin(c)
    <3>1. arg[c].p \in P \cup {None} /\ c \in Thread
      BY DEF FullInv, IInv, TypeOK, Thread
    <3> QED
      BY <1>0, <2>1, <3>1, JoinLen DEF GoJoin
  <2> QED
    BY <1>0, <1>2, <2>1, GoPushLen, CallerPopLen, CallerStillLen DEF GoStep
<1>3. ASSUME LoopStep PROVE LenInv'
  <2>1. CASE WakeJoin
    <3>1. arg[Daemon].p \in P \cup {None} /\ Daemon \in Thread
      BY <1>0 DEF FullInv, IInv, TypeOK, Thread
    <3> QED
      BY <1>0, <2>1, <3>1, JoinLen DEF WakeJoin
  <2> QED
    BY <1>0, <1>3, <2>1, CallerPopLen, CallerStillLen DEF LoopStep
<1>4. ASSUME NEW t \in Task, Submit(t) \/ Callback(t) PROVE LenInv'
  BY <1>0, <1>4, CallerStillLen
<1>5. ASSUME NEW t \in Thread, PopBegin(t) PROVE FALSE
  BY <1>0, <1>5 DEF PopBegin
<1>6. ASSUME UNCHANGED <<local, pIdle, mp, mco, reg, arg, pc>> PROVE LenInv'
  BY <1>6 DEF LenInv, MachineLen, CallerLen, Len1
<1>7. ASSUME NEW t \in Thread, JoinStore(t) PROVE LenInv'
  <2>1. UNCHANGED <<local, pIdle, mp, mco, reg, arg, pc>>
    BY <1>7 DEF JoinStore, lists
  <2> QED
    BY <1>6, <2>1
<1>8. CASE UNCHANGED vars
  BY <1>6, <1>8 DEF vars, lists, machs, calls
<1> QED
  BY <1>1, <1>2, <1>3, <1>4, <1>5, <1>7, <1>8
  DEF Next, MachineNext, CallerNext, SubmitNext, Thread

\* No queue of a p gets longer than max_queue_len, although get_task, work_stealing, m_loop
\* and go (machine.cpp:14-57, 202-204, scheduler.cpp:160-169) push without a look at its
\* length: what each of them may add fits whenever it starts.
THEOREM QueuesBounded == Orderly => (Spec => []QueueBounded)
<1> SUFFICES ASSUME Orderly PROVE Spec => []QueueBounded
  OBVIOUS
<1>1. Init => FullInv /\ LenInv
  <2> SUFFICES ASSUME Init PROVE LenInv
    BY InitInv, InitBind DEF FullInv
  <2>1. \A q \in P : Len1(q) = 0
    BY DEF Init, Len1, EmptyList, ListLen
  <2>2. Elements(pIdle) = {}
    BY DEF Init, Elements, EmptyList, Content
  <2>3. /\ \A m \in Machine : mco[m] = None /\ pc[m] \in {"loop", "unborn"}
        /\ \A c \in Caller : pc[c] = "idle"
    BY SetAssumption DEF Init, Thread, Caller
  <2> QED
    BY <2>1, <2>2, <2>3, BoundAssumption DEF LenInv, MachineLen, CallerLen
<1>2. FullInv /\ LenInv /\ [Next]_vars => (FullInv /\ LenInv)'
  BY NextBind, NextLen
<1>3. LenInv => QueueBounded
  BY DEF LenInv, QueueBounded, Len1
<1> QED
  BY <1>1, <1>2, <1>3, PTL DEF Spec

-----------------------------------------------------------------------------
(* That a task is in one place. *)

Kind == {"global", "queue", "machine", "arg"}
Going == {"gopop", "gopush", "goglobal"}
Yielding == {"issued", "after", "dispatch"}

\* The place of kind k at x holds task t.
Holds(k, x, t) ==
    \/ k = "global" /\ x = None /\ t \in Elements(global)
    \/ k = "queue" /\ x \in P /\ t \in Elements(local[x])
    \/ k = "machine" /\ x \in Machine /\ mco[x] = t
    \/ k = "arg" /\ x \in Caller /\ arg[x].co = t /\ pc[x] \in Going

\* Task t has made the call op.
Called(t, op) == \E i \in 1 .. pos[t] : Program[t][i] = op

\* No coroutine makes an asynchronous call after a system call: a machine that comes back
\* from a system call may put the coroutine on global_tasks while its request is pending.
SleepsFirst ==
    \A t \in Task : \A i, j \in 1 .. Len(Program[t]) :
        i < j /\ Program[t][i] = "syscall" => Program[t][j] # "sleep"

\* A callback waits until the machine has let go of the coroutine.
Calm == ~ Split /\ "early" \notin Windows /\ SleepsFirst

Lists == Distinct(global) /\ \A q \in P : Distinct(local[q])

Once == \A t \in Task : \A k, x, j, y : Holds(k, x, t) /\ Holds(j, y, t) => k = j /\ x = y

\* What the main thread still has is nowhere else, and what libuv has is at most on the
\* machine that is about to let go of it.
Apart ==
    /\ \A t \in todo : t \notin pend /\ \A k, x : ~ Holds(k, x, t)
    /\ \A t \in pend : tst[t] = "polling" /\ \A k, x : Holds(k, x, t) => k = "machine"

Calls == \A t \in Task : /\ tst[t] = "freezed" => Called(t, "syscall")
                         /\ pos[t] <= Len(Program[t])

OnRun == \A t \in Task : \A m \in on[t] : mco[m] = t /\ pc[m] \in {"running", "issued"}

MachineTask(m) ==
    /\ mst[m] = "block" => mco[m] # None /\ pc[m] \in {"loop", "running", "issued", "after"}
    /\ mst[m] = "block" \/ pc[m] \in {"freeze", "handoff", "unblock"} =>
          Called(mco[m], "syscall")
    /\ mco[m] \in pend => pc[m] \in Yielding /\ mst[m] # "block"

TaskInv ==
    /\ Lists
    /\ Once
    /\ Apart
    /\ Calls
    /\ OnRun
    /\ \A m \in Machine : MachineTask(m)

\* A step takes task s, if it is one, to the place of kind k1 at x1, or to none if k1 is no
\* kind, and leaves the others where they are.
Moves(s, k1, x1) ==
    \A t \in Task : \A k, x :
        Holds(k, x, t)' <=> IF t = s THEN k \in Kind /\ k = k1 /\ x = x1 ELSE Holds(k, x, t)

LEMMA OnceMoved ==
    ASSUME Once, NEW s, NEW k1, NEW x1, Moves(s, k1, x1)
    PROVE  Once'
<1> SUFFICES ASSUME NEW t \in Task, NEW k, NEW x, NEW j, NEW y,
                    Holds(k, x, t)', Holds(j, y, t)'
             PROVE  k = j /\ x = y
  BY DEF Once
<1>1. CASE t = s
  BY <1>1 DEF Moves
<1>2. CASE t # s
  BY <1>2 DEF Moves, Once
<1> QED
  BY <1>1, <1>2

LEMMA ApartMoved ==
    ASSUME Apart, NEW s, NEW k1, NEW x1, Moves(s, k1, x1),
           todo' \subseteq todo, pend' \subseteq pend, todo \subseteq Task, pend \subseteq Task,
           UNCHANGED tst,
           s \in Task => s \notin todo' /\ (s \in pend' => k1 \notin {"global", "queue", "arg"})
    PROVE  Apart'
<1>1. ASSUME NEW t \in todo' PROVE t \notin pend' /\ \A k, x : ~ Holds(k, x, t)'
  BY <1>1 DEF Apart, Moves
<1>2. ASSUME NEW t \in pend'
      PROVE  tst'[t] = "polling" /\ \A k, x : Holds(k, x, t)' => k = "machine"
  <2>1. tst'[t] = "polling"
    BY <1>2 DEF Apart
  <2>2. ASSUME NEW k, NEW x, Holds(k, x, t)' PROVE k = "machine"
    <3>1. CASE t = s
      BY <1>2, <2>2, <3>1 DEF Moves, Kind
    <3>2. CASE t # s
      BY <1>2, <2>2, <3>2 DEF Moves, Apart
    <3> QED
      BY <3>1, <3>2
  <2> QED
    BY <2>1, <2>2
<1> QED
  BY <1>1, <1>2 DEF Apart

\* A step of machine m that is not a call of the coroutine.
LEMMA MachineTaskStep ==
    ASSUME IInv, TaskInv, NEW m \in Machine, NEW s, NEW k1, NEW x1, Moves(s, k1, x1), Lists',
           UNCHANGED <<todo, pend, tst, pos>>,
           s \in Task => s \notin todo /\ (s \in pend => k1 \notin {"global", "queue", "arg"}),
           \A u \in Machine \ {m} : mco'[u] = mco[u] /\ mst'[u] = mst[u] /\ pc'[u] = pc[u],
           \A t \in Task : \A u \in on'[t] : u # m => u \in on[t],
           \A t \in Task : m \in on'[t] => mco'[m] = t /\ pc'[m] \in {"running", "issued"},
           on' \in [Task -> SUBSET Machine],
           MachineTask(m)'
    PROVE  TaskInv'
<1>1. Once'
  BY OnceMoved DEF TaskInv
<1>2. Apart'
  BY ApartMoved DEF TaskInv, IInv, TypeOK
<1>3. Calls'
  BY DEF TaskInv, Calls, Called
<1>4. OnRun'
  <2> SUFFICES ASSUME NEW t \in Task, NEW u \in on'[t]
               PROVE  mco'[u] = t /\ pc'[u] \in {"running", "issued"}
    BY DEF OnRun
  <2>1. u \in Machine
    OBVIOUS
  <2> QED
    BY <2>1 DEF TaskInv, OnRun
<1>5. \A u \in Machine : MachineTask(u)'
  BY DEF TaskInv, MachineTask, Called
<1> QED
  BY <1>1, <1>2, <1>3, <1>4, <1>5 DEF TaskInv

\* What a join may do to machine m, if anything.
Joined(m) ==
    /\ \/ pc'[m] = pc[m]
       \/ pc[m] \in {"waiting", "unborn"} /\ pc'[m] = "loop"
       \/ pc[m] = "freeze" /\ pc'[m] = "handoff"
    /\ mst'[m] \in {mst[m], "start"}

\* A step of a thread that is not a machine, or a join.
LEMMA CallerTaskStep ==
    ASSUME IInv, TaskInv, NEW s, NEW k1, NEW x1, Moves(s, k1, x1), Lists',
           UNCHANGED <<mco, on, tst, pos>>,
           todo' \subseteq todo, pend' \subseteq pend,
           s \in Task => s \notin todo' \cup pend',
           \A m \in Machine : Joined(m)
    PROVE  TaskInv'
<1>1. Once'
  BY OnceMoved DEF TaskInv
<1>2. Apart'
  BY ApartMoved DEF TaskInv, IInv, TypeOK
<1>3. Calls'
  BY DEF TaskInv, Calls, Called
<1>4. OnRun'
  BY DEF Joined, TaskInv, OnRun, IInv, TypeOK
<1>5. ASSUME NEW m \in Machine PROVE MachineTask(m)'
  BY DEF Joined, TaskInv, MachineTask, Called, Yielding
<1> QED
  BY <1>1, <1>2, <1>3, <1>4, <1>5 DEF TaskInv

\* The machine's steps that move no task.
LEMMA NothingMoves ==
    ASSUME UNCHANGED <<global, local, mco>>,
           \A c \in Caller : arg'[c].co = arg[c].co /\ (pc'[c] \in Going <=> pc[c] \in Going)
    PROVE  Moves(None, "gone", None)
BY SetAssumption DEF Moves, Holds

LEMMA GetLocalMoves ==
    ASSUME ~ Split, IInv, TaskInv, NEW m \in Machine, GetLocal(m)
    PROVE  /\ Lists'
           /\ mco'[m] \in Task \cup {None} /\ Moves(mco'[m], "machine", m)
           /\ mco'[m] \in Task => mco'[m] \notin todo \cup pend
<1>1. m \in Thread /\ m \notin Caller
  BY SetAssumption DEF Thread, Caller
<1> PICK q : q = Target(m)
  OBVIOUS
<1> PICK t : t = Taken(m, local[q])
  OBVIOUS
<1>2. /\ q \in P /\ mco[m] = None
      /\ local' = [local EXCEPT ![q] = Rest(m, local[q])]
      /\ mco' = [mco EXCEPT ![m] = t]
      /\ UNCHANGED <<global, arg>>
      /\ \A c \in Caller : pc'[c] = pc[c]
  BY <1>1 DEF GetLocal, calls, IInv, TypeOK, Thread
<1>3. local[q] \in ListOf(Task) /\ Distinct(local[q]) /\ None \notin Task
  BY <1>2, SetAssumption DEF IInv, TypeOK, TaskInv, Lists
<1>4. /\ t \in Task \cup {None}
      /\ t # None => t \in Elements(local[q])
      /\ Elements(Rest(m, local[q])) = Elements(local[q]) \ {t}
      /\ Distinct(Rest(m, local[q]))
  BY <1>3, OrderlyPop
<1>5. /\ \A p \in P \ {q} : local'[p] = local[p]
      /\ local'[q] = Rest(m, local[q])
      /\ mco'[m] = t
      /\ \A u \in Machine \ {m} : mco'[u] = mco[u]
  BY <1>2 DEF IInv, TypeOK
<1>6. Lists'
  BY <1>2, <1>4, <1>5 DEF Lists, TaskInv
<1>7. t \in Task => Holds("queue", q, t)
  BY <1>2, <1>3, <1>4 DEF Holds
<1>8. t \in Task => t \notin todo \cup pend
  BY <1>7 DEF TaskInv, Apart
<1>9. ASSUME NEW s \in Task, NEW k, NEW x
      PROVE  Holds(k, x, s)' <=> IF s = t THEN k \in Kind /\ k = "machine" /\ x = m
                                 ELSE Holds(k, x, s)
  <2>1. CASE s = t
    <3>1. Holds(k, x, s) => k = "queue" /\ x = q
      BY <1>7, <2>1 DEF TaskInv, Once
    <3>2. s \notin Elements(global) /\ \A p \in P \ {q} : s \notin Elements(local[p])
      BY <1>7, <2>1 DEF TaskInv, Once, Holds
    <3>3. /\ \A u \in Machine : mco[u] # s
          /\ \A c \in Caller : ~ (arg[c].co = s /\ pc[c] \in Going)
      BY <1>7, <2>1 DEF TaskInv, Once, Holds
    <3>4. \A p \in P : s \notin Elements(local'[p])
      BY <1>4, <1>5, <2>1, <3>2
    <3>5. \A u \in Machine : mco'[u] = s <=> u = m
      BY <1>5, <2>1, <3>3
    <3> QED
      BY <1>2, <2>1, <3>2, <3>3, <3>4, <3>5 DEF Holds, Kind, Elements
  <2>2. CASE s # t
    <3>1. \A p \in P : s \in Elements(local'[p]) <=> s \in Elements(local[p])
      BY <1>4, <1>5, <2>2
    <3>2. \A u \in Machine : mco'[u] = s <=> mco[u] = s
      BY <1>2, <1>5, <1>3, <2>2
    <3> QED
      BY <1>2, <2>2, <3>1, <3>2 DEF Holds, Elements
  <2> QED
    BY <2>1, <2>2
<1> QED
  BY <1>4, <1>5, <1>6, <1>8, <1>9 DEF Moves

LEMMA DrainMoves ==
    ASSUME ~ Split, IInv, TaskInv, NEW m \in Machine, Drain(m)
    PROVE  /\ Lists'
           /\ \E t \in Task \cup {None} : /\ Moves(t, "queue", mp[m])
                                          /\ t \in Task => t \notin todo \cup pend
<1>1. m \in Thread /\ m \notin Caller
  BY SetAssumption DEF Thread, Caller
<1> PICK q : q = mp[m]
  OBVIOUS
<1> PICK t : t = Taken(m, global)
  OBVIOUS
<1>2. /\ q \in P
      /\ global' = Rest(m, global)
      /\ local' = IF t = None THEN local ELSE [local EXCEPT ![q] = ListPush(local[q], t)]
      /\ UNCHANGED <<mco, arg>>
      /\ \A c \in Caller : pc'[c] = pc[c]
  BY <1>1 DEF Drain, calls, IInv, TypeOK, Thread
<1>3. /\ global \in ListOf(Task) /\ Distinct(global) /\ None \notin Task
      /\ local[q] \in ListOf(Task) /\ Distinct(local[q])
  BY <1>2, SetAssumption DEF IInv, TypeOK, TaskInv, Lists
<1>4. /\ t \in Task \cup {None}
      /\ t # None => t \in Elements(global)
      /\ Elements(Rest(m, global)) = Elements(global) \ {t}
      /\ Distinct(Rest(m, global))
  BY <1>3, OrderlyPop
<1>5. t \in Task => Holds("global", None, t)
  BY <1>3, <1>4 DEF Holds
<1>6. t \in Task => t \notin todo \cup pend
  BY <1>5 DEF TaskInv, Apart
<1>7. t \in Task => /\ \A p \in P : t \notin Elements(local[p])
                    /\ \A u \in Machine : mco[u] # t
                    /\ \A c \in Caller : ~ (arg[c].co = t /\ pc[c] \in Going)
  BY <1>5 DEF TaskInv, Once, Holds
<1>8. /\ \A p \in P \ {q} : local'[p] = local[p]
      /\ t = None => local'[q] = local[q]
      /\ t # None => local'[q] = ListPush(local[q], t)
  BY <1>2 DEF IInv, TypeOK
<1>9. t # None => /\ Elements(ListPush(local[q], t)) = Elements(local[q]) \cup {t}
                  /\ Distinct(ListPush(local[q], t))
  BY <1>2, <1>3, <1>4, <1>7, PushElements
<1>10. Lists'
  <2>1. Distinct(local'[q])
    BY <1>3, <1>8, <1>9
  <2> QED
    BY <1>2, <1>4, <1>8, <2>1 DEF Lists, TaskInv
<1>11. ASSUME NEW s \in Task, NEW k, NEW x
       PROVE  Holds(k, x, s)' <=> IF s = t THEN k \in Kind /\ k = "queue" /\ x = q
                                  ELSE Holds(k, x, s)
  <2>1. CASE s = t
    <3>1. s \notin Elements(global') /\ \A p \in P : s \in Elements(local'[p]) <=> p = q
      BY <1>2, <1>3, <1>4, <1>7, <1>8, <1>9, <2>1
    <3> QED
      BY <1>2, <1>7, <2>1, <3>1 DEF Holds, Kind, Elements
  <2>2. CASE s # t
    <3>1. /\ s \in Elements(global') <=> s \in Elements(global)
          /\ \A p \in P : s \in Elements(local'[p]) <=> s \in Elements(local[p])
      BY <1>2, <1>4, <1>8, <1>9, <2>2
    <3> QED
      BY <1>2, <2>2, <3>1 DEF Holds, Elements
  <2> QED
    BY <2>1, <2>2
<1> QED
  BY <1>4, <1>6, <1>10, <1>11 DEF Moves

LEMMA StealPopMoves ==
    ASSUME ~ Split, IInv, TaskInv, NEW m \in Machine, StealPop(m)
    PROVE  /\ Lists'
           /\ \E t \in Task \cup {None} : /\ Moves(t, "queue", mp[m])
                                          /\ t \in Task => t \notin todo \cup pend
<1>1. m \in Thread /\ m \notin Caller
  BY SetAssumption DEF Thread, Caller
<1> PICK q : q = mp[m]
  OBVIOUS
<1> PICK v : v = reg[m].vict
  OBVIOUS
<1> PICK t : t = Taken(m, local[v])
  OBVIOUS
<1> PICK cut : cut = [local EXCEPT ![v] = Rest(m, local[v])]
  OBVIOUS
<1>2. /\ q \in P /\ v \in P
      /\ local' = IF t = None THEN cut ELSE [cut EXCEPT ![q] = ListPush(cut[q], t)]
      /\ UNCHANGED <<global, mco, arg>>
      /\ \A c \in Caller : pc'[c] = pc[c]
  <2>1. pc[m] = "stealpop" /\ mp[m] # None /\ Stolen(m, v, t) = local'
        /\ UNCHANGED <<global, mco, arg>>
    BY DEF StealPop, calls
  <2>2. \A c \in Caller : pc'[c] = pc[c]
    BY <1>1, MissedControl DEF StealPop, IInv, TypeOK, Thread
  <2> QED
    BY <2>1, <2>2 DEF IInv, TypeOK, ControlOK, Registers
<1>3. /\ local[v] \in ListOf(Task) /\ Distinct(local[v]) /\ None \notin Task
      /\ \A p \in P : local[p] \in ListOf(Task) /\ Distinct(local[p])
  BY <1>2, SetAssumption DEF IInv, TypeOK, TaskInv, Lists
<1>4. /\ t \in Task \cup {None}
      /\ t # None => t \in Elements(local[v])
      /\ Elements(Rest(m, local[v])) = Elements(local[v]) \ {t}
      /\ Distinct(Rest(m, local[v]))
  BY <1>3, OrderlyPop
<1>5. t \in Task => Holds("queue", v, t)
  BY <1>2, <1>3, <1>4 DEF Holds
<1>6. t \in Task => t \notin todo \cup pend
  BY <1>5 DEF TaskInv, Apart
<1>7. t \in Task => /\ t \notin Elements(global)
                    /\ \A p \in P \ {v} : t \notin Elements(local[p])
                    /\ \A u \in Machine : mco[u] # t
                    /\ \A c \in Caller : ~ (arg[c].co = t /\ pc[c] \in Going)
  BY <1>2, <1>5 DEF TaskInv, Once, Holds
<1>8. /\ \A p \in P \ {v} : cut[p] = local[p]
      /\ cut[v] = Rest(m, local[v])
      /\ cut \in [P -> ListOf(Task)]
  <2>1. Rest(m, local[v]) \in ListOf(Task)
    BY <1>3, PopLen
  <2> QED
    BY <1>2, <2>1 DEF IInv, TypeOK
<1>9. /\ \A p \in P : cut[p] \in ListOf(Task) /\ Distinct(cut[p])
      /\ \A p \in P : Elements(cut[p]) = Elements(local[p]) \ {t}
  BY <1>3, <1>4, <1>7, <1>8, ElementsType
<1>10. /\ \A p \in P \ {q} : local'[p] = cut[p]
       /\ t = None => local'[q] = cut[q]
       /\ t # None => local'[q] = ListPush(cut[q], t)
  BY <1>2, <1>8
<1>11. t # None => /\ Elements(ListPush(cut[q], t)) = Elements(cut[q]) \cup {t}
                   /\ Distinct(ListPush(cut[q], t))
  BY <1>2, <1>4, <1>9, PushElements
<1>12. Lists'
  <2>1. Distinct(local'[q])
    BY <1>2, <1>9, <1>10, <1>11
  <2> QED
    BY <1>2, <1>9, <1>10, <2>1 DEF Lists, TaskInv
<1>13. ASSUME NEW s \in Task, NEW k, NEW x
       PROVE  Holds(k, x, s)' <=> IF s = t THEN k \in Kind /\ k = "queue" /\ x = q
                                  ELSE Holds(k, x, s)
  <2>1. CASE s = t
    <3>1. t # None /\ s \notin Elements(global)
      BY <1>3, <1>7, <2>1
    <3>2. s \notin Elements(global')
      BY <1>2, <3>1 DEF Elements
    <3>3. \A p \in P : s \notin Elements(cut[p])
      BY <1>9, <2>1
    <3>4. \A p \in P : s \in Elements(local'[p]) <=> p = q
      <4>1. s \in Elements(local'[q])
        BY <1>10, <1>11, <2>1, <3>1
      <4>2. \A p \in P \ {q} : s \notin Elements(local'[p])
        BY <1>10, <3>3
      <4> QED
        BY <4>1, <4>2
    <3>5. /\ \A u \in Machine : mco'[u] # s
          /\ \A c \in Caller : ~ (arg'[c].co = s /\ pc'[c] \in Going)
      BY <1>2, <1>7, <2>1
    <3>6. Holds(k, x, s)' <=> k = "queue" /\ x \in P /\ s \in Elements(local'[x])
      BY <3>2, <3>5 DEF Holds
    <3> QED
      BY <1>2, <2>1, <3>4, <3>6 DEF Kind
  <2>2. CASE s # t
    <3>1. ASSUME NEW p \in P
          PROVE  s \in Elements(local'[p]) <=> s \in Elements(local[p])
      <4>1. s \in Elements(cut[p]) <=> s \in Elements(local[p])
        BY <1>9, <2>2
      <4>2. s \in Elements(local'[p]) <=> s \in Elements(cut[p])
        BY <1>10, <1>11, <2>2
      <4> QED
        BY <4>1, <4>2
    <3> QED
      BY <1>2, <2>2, <3>1 DEF Holds, Elements
  <2> QED
    BY <2>1, <2>2
<1> QED
  BY <1>4, <1>6, <1>12, <1>13 DEF Moves

\* The task of machine m goes to the back of the queue of its p, or nowhere.
LEMMA LetGoMoves ==
    ASSUME IInv, TaskInv, NEW m \in Machine, NEW s \in Task, mco[m] = s,
           mco' = [mco EXCEPT ![m] = None], UNCHANGED <<global, arg>>,
           \A c \in Caller : pc'[c] = pc[c],
           NEW k1,
           \/ UNCHANGED local /\ k1 = "gone"
           \/ /\ mp[m] \in P /\ k1 = "queue"
              /\ local' = [local EXCEPT ![mp[m]] = ListPush(local[mp[m]], s)]
    PROVE  Lists' /\ Moves(s, k1, mp[m]) /\ s \notin todo
<1> PICK q : q = mp[m]
  OBVIOUS
<1>1. Holds("machine", m, s) /\ s # None
  BY SetAssumption DEF Holds
<1>2. s \notin todo
  BY <1>1 DEF TaskInv, Apart
<1>3. /\ s \notin Elements(global)
      /\ \A p \in P : s \notin Elements(local[p])
      /\ \A u \in Machine \ {m} : mco[u] # s
      /\ \A c \in Caller : ~ (arg[c].co = s /\ pc[c] \in Going)
  BY <1>1 DEF TaskInv, Once, Holds
<1>4. mco'[m] = None /\ \A u \in Machine \ {m} : mco'[u] = mco[u]
  BY DEF IInv, TypeOK
<1>5. \A p \in P : local[p] \in ListOf(Task) /\ Distinct(local[p])
  BY DEF IInv, TypeOK, TaskInv, Lists
<1>6. /\ \A p \in P : Distinct(local'[p])
      /\ \A p \in P, t \in Task \ {s} : t \in Elements(local'[p]) <=> t \in Elements(local[p])
      /\ \A p \in P : s \in Elements(local'[p]) <=> k1 = "queue" /\ p = q
  <2>1. CASE UNCHANGED local /\ k1 = "gone"
    BY <1>3, <1>5, <2>1 DEF Elements, Distinct
  <2>2. CASE /\ q \in P /\ k1 = "queue"
             /\ local' = [local EXCEPT ![q] = ListPush(local[q], s)]
    <3>1. /\ local'[q] = ListPush(local[q], s)
          /\ \A p \in P \ {q} : local'[p] = local[p]
      BY <2>2 DEF IInv, TypeOK
    <3>2. /\ Elements(local'[q]) = Elements(local[q]) \cup {s}
          /\ Distinct(local'[q])
      BY <1>3, <1>5, <2>2, <3>1, PushElements
    <3> QED
      BY <1>3, <1>5, <2>2, <3>1, <3>2
  <2> QED
    BY <2>1, <2>2
<1>7. Lists'
  BY <1>6 DEF Lists, TaskInv, Distinct
<1>8. ASSUME NEW t \in Task, NEW k, NEW x
      PROVE  Holds(k, x, t)' <=> IF t = s THEN k \in Kind /\ k = k1 /\ x = q ELSE Holds(k, x, t)
  <2>1. CASE t = s
    <3>1. s \notin Elements(global') /\ \A u \in Machine : mco'[u] # s
      BY <1>1, <1>3, <1>4 DEF Elements
    <3>2. k1 = "queue" => q \in P
      OBVIOUS
    <3>3. \A c \in Caller : ~ (arg'[c].co = s /\ pc'[c] \in Going)
      BY <1>3
    <3> QED
      BY <1>6, <2>1, <3>1, <3>2, <3>3 DEF Holds, Kind
  <2>2. CASE t # s
    <3>1. \A u \in Machine : mco'[u] = t <=> mco[u] = t
      BY <1>4, <2>2, SetAssumption
    <3>2. t \in Elements(global') <=> t \in Elements(global)
      BY DEF Elements
    <3> QED
      BY <1>6, <2>2, <3>1, <3>2 DEF Holds
  <2> QED
    BY <2>1, <2>2
<1> QED
  BY <1>2, <1>7, <1>8 DEF Moves

LEMMA ToGlobalMoves ==
    ASSUME IInv, TaskInv, NEW m \in Machine, ToGlobal(m)
    PROVE  Lists' /\ Moves(mco[m], "global", None) /\ mco[m] \in Task \ todo
<1>0. m \in Thread /\ m \notin Caller
  BY SetAssumption DEF Thread, Caller
<1> PICK s \in Task : s = mco[m]
  BY DEF ToGlobal, IInv, TypeOK, ControlOK, HoldsTask
<1>1. Holds("machine", m, s) /\ s # None
  BY SetAssumption DEF Holds
<1>2. s \notin todo
  BY <1>1 DEF TaskInv, Apart
<1>3. /\ s \notin Elements(global)
      /\ \A p \in P : s \notin Elements(local[p])
      /\ \A u \in Machine \ {m} : mco[u] # s
      /\ \A c \in Caller : ~ (arg[c].co = s /\ pc[c] \in Going)
  BY <1>1 DEF TaskInv, Once, Holds
<1>4. /\ global' = ListPush(global, s) /\ mco' = [mco EXCEPT ![m] = None]
      /\ UNCHANGED <<local, arg>> /\ \A c \in Caller : pc'[c] = pc[c]
  BY <1>0 DEF ToGlobal, calls, IInv, TypeOK, Thread
<1>5. mco'[m] = None /\ \A u \in Machine \ {m} : mco'[u] = mco[u]
  BY <1>4 DEF IInv, TypeOK
<1>6. Elements(global') = Elements(global) \cup {s} /\ Distinct(global')
  BY <1>3, <1>4, PushElements DEF IInv, TypeOK, TaskInv, Lists
<1>7. Lists'
  BY <1>4, <1>6 DEF Lists, TaskInv
<1>8. ASSUME NEW t \in Task, NEW k, NEW x
      PROVE  Holds(k, x, t)' <=> IF t = s THEN k \in Kind /\ k = "global" /\ x = None
                                 ELSE Holds(k, x, t)
  <2>1. CASE t = s
    <3>1. \A u \in Machine : mco'[u] # s
      BY <1>1, <1>3, <1>5
    <3>2. \A c \in Caller : ~ (arg'[c].co = s /\ pc'[c] \in Going)
      BY <1>3, <1>4
    <3>3. \A p \in P : s \notin Elements(local'[p])
      BY <1>3, <1>4
    <3> QED
      BY <1>6, <2>1, <3>1, <3>2, <3>3 DEF Holds, Kind
  <2>2. CASE t # s
    <3>1. \A u \in Machine : mco'[u] = t <=> mco[u] = t
      BY <1>5, <2>2, SetAssumption
    <3>2. t \in Elements(global') <=> t \in Elements(global)
      BY <1>6, <2>2
    <3> QED
      BY <1>4, <2>2, <3>1, <3>2 DEF Holds
  <2> QED
    BY <2>1, <2>2
<1> QED
  BY <1>2, <1>7, <1>8 DEF Moves

\* go puts its task on the queue of the p that it got, or on global_tasks.
LEMMA GoMoves ==
    ASSUME IInv, TaskInv, NEW c \in Caller, GoPush(c) \/ GoGlobal(c)
    PROVE  /\ Lists'
           /\ \/ Moves(arg[c].co, "queue", arg[c].p)
              \/ Moves(arg[c].co, "global", None)
           /\ arg[c].co \in Task /\ arg[c].co \notin todo \cup pend
<1>0. c \in Thread /\ c \notin Machine
  BY SetAssumption DEF Thread, Caller
<1> PICK s \in Task : s = arg[c].co
  BY DEF GoPush, GoGlobal, IInv, TypeOK, ControlOK
<1> PICK q : q = arg[c].p
  OBVIOUS
<1>1. Holds("arg", c, s)
  BY DEF Holds, Going, GoPush, GoGlobal
<1>2. s \notin todo \cup pend
  BY <1>1 DEF TaskInv, Apart
<1>3. /\ s \notin Elements(global)
      /\ \A p \in P : s \notin Elements(local[p])
      /\ \A u \in Machine : mco[u] # s
      /\ \A d \in Caller \ {c} : ~ (arg[d].co = s /\ pc[d] \in Going)
  BY <1>1 DEF TaskInv, Once, Holds
<1>4. /\ UNCHANGED <<mco, arg>>
      /\ pc'[c] \notin Going /\ \A d \in Caller \ {c} : pc'[d] = pc[d]
      /\ \/ /\ q \in P /\ local' = [local EXCEPT ![q] = ListPush(local[q], s)]
            /\ UNCHANGED global
         \/ /\ UNCHANGED local /\ global' = ListPush(global, s)
  BY <1>0 DEF GoPush, GoGlobal, machs, calls, Going, IInv, TypeOK, ControlOK, Thread
<1>5. /\ \A p \in P : local[p] \in ListOf(Task) /\ Distinct(local[p])
      /\ global \in ListOf(Task) /\ Distinct(global)
  BY DEF IInv, TypeOK, TaskInv, Lists
<1>6. \A d \in Caller, t \in Task :
         (arg'[d].co = t /\ pc'[d] \in Going) <=> (arg[d].co = t /\ pc[d] \in Going /\ t # s)
  <2>1. \A d \in Caller \ {c}, t \in Task :
           (arg'[d].co = t /\ pc'[d] \in Going) <=> (arg[d].co = t /\ pc[d] \in Going /\ t # s)
    BY <1>3, <1>4
  <2> QED
    BY <1>4, <2>1
<1>7. CASE /\ q \in P /\ local' = [local EXCEPT ![q] = ListPush(local[q], s)]
           /\ UNCHANGED global
  <2>1. local'[q] = ListPush(local[q], s) /\ \A p \in P \ {q} : local'[p] = local[p]
    BY <1>7 DEF IInv, TypeOK
  <2>2. Elements(local'[q]) = Elements(local[q]) \cup {s} /\ Distinct(local'[q])
    BY <1>3, <1>5, <1>7, <2>1, PushElements
  <2>3. Lists'
    BY <1>5, <1>7, <2>1, <2>2 DEF Lists
  <2>4. \A p \in P, t \in Task :
           t \in Elements(local'[p]) <=> IF t = s THEN p = q ELSE t \in Elements(local[p])
    <3>1. \A p \in P \ {q}, t \in Task :
             t \in Elements(local'[p]) <=> IF t = s THEN p = q ELSE t \in Elements(local[p])
      BY <1>3, <2>1
    <3> QED
      BY <2>2, <3>1
  <2>5. Elements(global') = Elements(global)
    BY <1>7
  <2>6. Moves(s, "queue", q)
    BY <1>3, <1>4, <1>6, <1>7, <2>4, <2>5 DEF Moves, Holds, Kind
  <2> QED
    BY <1>2, <2>3, <2>6
<1>8. CASE UNCHANGED local /\ global' = ListPush(global, s)
  <2>1. Elements(global') = Elements(global) \cup {s} /\ Distinct(global')
    BY <1>3, <1>5, <1>8, PushElements
  <2>2. Lists'
    BY <1>5, <1>8, <2>1 DEF Lists
  <2>3. Moves(s, "global", None)
    BY <1>3, <1>4, <1>6, <1>8, <2>1 DEF Moves, Holds, Kind
  <2> QED
    BY <1>2, <2>2, <2>3
<1> QED
  BY <1>4, <1>7, <1>8

\* The main thread, and a callback, pass a task to go that nobody else has.
LEMMA NewMoves ==
    ASSUME Calm, IInv, TaskInv, NEW t \in Task, NEW c \in Caller,
           (c = Main /\ Submit(t)) \/ (c = Daemon /\ Callback(t))
    PROVE  Lists' /\ Moves(t, "arg", c) /\ t \notin todo' \cup pend'
<1>0. c \in Thread /\ c \notin Machine
  BY SetAssumption DEF Thread, Caller
<1>1. \A k, x : ~ Holds(k, x, t)
  <2>1. CASE Submit(t)
    BY <2>1 DEF Submit, TaskInv, Apart
  <2>2. CASE Callback(t)
    <3>1. t \in pend /\ \A m \in Machine : mco[m] # t
      BY <2>2 DEF Callback, Calm
    <3> QED
      BY <3>1 DEF TaskInv, Apart, Holds
  <2> QED
    BY <2>1, <2>2
<1>2. t \notin todo' \cup pend'
  BY DEF Submit, Callback, tasks, TaskInv, Apart
<1>3. /\ UNCHANGED <<global, local, mco>> /\ arg' = [arg EXCEPT ![c].co = t]
      /\ pc' = [pc EXCEPT ![c] = "gopop"] /\ pc[c] = "idle"
  BY DEF Submit, Callback, lists, machs
<1>4. /\ arg'[c].co = t /\ pc'[c] \in Going /\ pc[c] \notin Going
      /\ \A d \in Caller \ {c} : arg'[d].co = arg[d].co /\ pc'[d] = pc[d]
  BY <1>0, <1>3 DEF IInv, TypeOK, Going, Thread
<1>5. Lists'
  BY <1>3 DEF TaskInv, Lists, Distinct
<1>6. ASSUME NEW s \in Task, NEW k, NEW x
      PROVE  Holds(k, x, s)' <=> IF s = t THEN k \in Kind /\ k = "arg" /\ x = c
                                 ELSE Holds(k, x, s)
  <2>1. Elements(global') = Elements(global) /\ \A p : Elements(local'[p]) = Elements(local[p])
    BY <1>3
  <2>2. k # "arg" => (Holds(k, x, s)' <=> Holds(k, x, s))
    BY <1>3, <2>1 DEF Holds
  <2>3. x \in Caller => (arg'[x].co = s /\ pc'[x] \in Going <=>
                            IF x = c THEN s = t ELSE arg[x].co = s /\ pc[x] \in Going)
    BY <1>4
  <2>4. CASE k = "arg"
    <3>1. Holds(k, x, s)' <=> x \in Caller /\ arg'[x].co = s /\ pc'[x] \in Going
      BY <2>4 DEF Holds
    <3>2. Holds(k, x, s) <=> x \in Caller /\ arg[x].co = s /\ pc[x] \in Going
      BY <2>4 DEF Holds
    <3>3. s = t => ~ Holds(k, x, s)
      BY <1>1
    <3> QED
      BY <1>4, <2>3, <2>4, <3>1, <3>2, <3>3 DEF Kind
  <2>5. CASE k # "arg"
    BY <1>1, <2>2, <2>5 DEF Kind
  <2> QED
    BY <2>4, <2>5
<1> QED
  BY <1>2, <1>5, <1>6 DEF Moves

LEMMA StillMoves ==
    ASSUME IInv, NEW m \in Machine,
           \/ TakeP(m) \/ LookGlobal(m) \/ IdleCheck(m) \/ ThiefCheck(m) \/ ThiefInc(m)
           \/ Steal(m) \/ ThiefDec(m) \/ GetStop(m) \/ ReleaseP(m) \/ Resume(m)
           \/ YieldAsync(m) \/ AfterRun(m) \/ Unblock(m) \/ HandOff(m) \/ StopRelease(m)
           \/ Park(m) \/ Wait(m) \/ SpuriousWake(m)
    PROVE  /\ UNCHANGED <<global, local, mco, arg, todo, pend, tst, pos>>
           /\ \A u \in Thread \ {m} : pc'[u] = pc[u]
           /\ Moves(None, "gone", None)
<1>0. m \in Thread /\ m \notin Caller
  BY SetAssumption DEF Thread, Caller
<1>1. UNCHANGED <<global, local, mco, arg, todo, pend, tst, pos>>
  BY DEF TakeP, LookGlobal, IdleCheck, ThiefCheck, ThiefInc, Steal, ThiefDec, GetStop,
         ReleaseP, Resume, YieldAsync, AfterRun, Unblock, HandOff, StopRelease, Park, Wait,
         SpuriousWake, lists, machs, tasks, calls
<1>2. \A u \in Thread \ {m} : pc'[u] = pc[u]
  <2>1. CASE Steal(m)
    BY <2>1, MissedControl DEF Steal, IInv, TypeOK
  <2> QED
    BY <2>1 DEF TakeP, LookGlobal, IdleCheck, ThiefCheck, ThiefInc, ThiefDec, GetStop,
       ReleaseP, Resume, YieldAsync, AfterRun, Unblock, HandOff, StopRelease, Park, Wait,
       SpuriousWake, IInv, TypeOK
<1>3. Moves(None, "gone", None)
  <2>1. \A c \in Caller : arg'[c].co = arg[c].co /\ (pc'[c] \in Going <=> pc[c] \in Going)
    BY <1>0, <1>1, <1>2 DEF Thread
  <2> QED
    BY <1>1, <2>1, NothingMoves
<1> QED
  BY <1>1, <1>2, <1>3

\* The steps of a machine that move no task and no coroutine's state.
LEMMA StillTask ==
    ASSUME IInv, TypeOK', TaskInv, NEW m \in Machine,
           \/ TakeP(m) \/ LookGlobal(m) \/ IdleCheck(m) \/ ThiefCheck(m) \/ ThiefInc(m)
           \/ Steal(m) \/ ThiefDec(m) \/ GetStop(m) \/ ReleaseP(m) \/ Resume(m)
           \/ YieldAsync(m) \/ AfterRun(m) \/ Unblock(m) \/ HandOff(m) \/ StopRelease(m)
           \/ Park(m) \/ Wait(m) \/ SpuriousWake(m)
    PROVE  TaskInv'
<1>0. m \in Thread /\ m \notin Caller /\ None \notin Task
  BY SetAssumption DEF Thread, Caller
<1>1. UNCHANGED <<global, local, mco, arg, todo, pend, tst, pos>>
  BY StillMoves
<1>2. \A u \in Thread \ {m} : pc'[u] = pc[u]
  BY StillMoves
<1>3. \A u \in Machine \ {m} : mst'[u] = mst[u]
  <2>1. CASE Unblock(m) \/ StopRelease(m) \/ Park(m) \/ HandOff(m)
    BY <2>1 DEF Unblock, StopRelease, Park, HandOff, machs, IInv, TypeOK
  <2>2. CASE Wait(m) \/ SpuriousWake(m) \/ TakeP(m) \/ GetStop(m) \/ ReleaseP(m)
    BY <2>2 DEF Wait, SpuriousWake, TakeP, GetStop, ReleaseP, machs, IInv, TypeOK
  <2>3. CASE Steal(m)
    BY <2>3 DEF Steal
  <2>4. CASE AfterRun(m)
    BY <2>4 DEF AfterRun, IInv, TypeOK
  <2>5. CASE LookGlobal(m) \/ ThiefInc(m) \/ ThiefDec(m)
    BY <2>5 DEF LookGlobal, ThiefInc, ThiefDec
  <2>6. CASE IdleCheck(m) \/ ThiefCheck(m) \/ Resume(m) \/ YieldAsync(m)
    BY <2>6 DEF IdleCheck, ThiefCheck, Resume, YieldAsync, machs
  <2> QED
    BY <2>1, <2>2, <2>3, <2>4, <2>5, <2>6
<1>4. Lists'
  BY <1>1 DEF TaskInv, Lists, Distinct
<1>5. Moves(None, "gone", None)
  BY StillMoves
<1>6. /\ MachineTask(m)
      /\ pc[m] \notin HoldsTask \cup {"loop"} => mco[m] = None
      /\ pc[m] \in HoldsTask => mco[m] \in Task
      /\ None \notin pend
      /\ \A t \in Task : m \in on[t] => mco[m] = t /\ pc[m] \in {"running", "issued"}
  BY <1>0 DEF TaskInv, OnRun, IInv, TypeOK, ControlOK
<1>7. ASSUME UNCHANGED on, pc[m] \notin {"running", "issued"}, mst'[m] = mst[m],
             pc[m] = "loop" => mco[m] = None,
             pc[m] \notin HoldsTask,
             pc'[m] \notin {"freeze", "handoff", "unblock"}
      PROVE  TaskInv'
  <2>1. mco[m] = None /\ mst[m] # "block"
    BY <1>6, <1>7 DEF MachineTask
  <2>2. MachineTask(m)'
    BY <1>1, <1>6, <1>7, <2>1 DEF MachineTask
  <2> QED
    BY <1>0, <1>1, <1>2, <1>3, <1>4, <1>5, <1>6, <1>7, <2>2, MachineTaskStep
    DEF IInv, TypeOK, Thread
<1>8. ASSUME UNCHANGED on, pc[m] \notin {"running", "issued"}, MachineTask(m)'
      PROVE  TaskInv'
  BY <1>0, <1>1, <1>2, <1>3, <1>4, <1>5, <1>6, <1>8, MachineTaskStep DEF IInv, TypeOK, Thread
<1>9. CASE \/ LookGlobal(m) \/ IdleCheck(m) \/ ThiefCheck(m) \/ ThiefInc(m)
           \/ ThiefDec(m) \/ GetStop(m) \/ Wait(m) \/ SpuriousWake(m)
           \/ ReleaseP(m) \/ StopRelease(m)
  BY <1>0, <1>7, <1>9 DEF LookGlobal, IdleCheck, ThiefCheck, ThiefInc, ThiefDec, GetStop, Wait,
     SpuriousWake, ReleaseP, StopRelease, lists, machs, tasks, HoldsTask, IInv, TypeOK
<1>10. CASE Steal(m)
  <2>1. UNCHANGED <<on, mst>> /\ pc[m] = "steal"
    BY <1>10 DEF Steal, tasks
  <2>2. pc'[m] \in {"steal", "stealpop", "thiefdec"}
    BY <1>0, <1>10, MissedControl DEF Steal, IInv, TypeOK
  <2> QED
    BY <1>7, <2>1, <2>2 DEF HoldsTask
<1>11. CASE TakeP(m) \/ Park(m)
  <2>1. /\ UNCHANGED on /\ mco[m] = None /\ pc[m] \in {"loop", "park"}
        /\ pc'[m] \in {"loop", "stop", "towait"} /\ mst'[m] \in {mst[m], "start", "wait"}
    BY <1>0, <1>6, <1>11 DEF TakeP, Park, tasks, IInv, TypeOK, HoldsTask
  <2>2. MachineTask(m)'
    BY <1>1, <1>6, <2>1 DEF MachineTask
  <2> QED
    BY <1>8, <2>1, <2>2
<1>12. CASE AfterRun(m) \/ Unblock(m) \/ HandOff(m)
  <2>1. /\ UNCHANGED on /\ mco[m] \in Task
        /\ \/ /\ pc[m] = "after" /\ mst[m] = "block" /\ mst'[m] = "start" /\ pc'[m] = "unblock"
           \/ /\ pc[m] = "after" /\ mst[m] # "block" /\ mst'[m] = mst[m] /\ pc'[m] = "dispatch"
           \/ /\ pc[m] = "unblock" /\ mst'[m] = mst[m] /\ pc'[m] \in {"toglobal", "dispatch"}
           \/ /\ pc[m] = "handoff" /\ mst'[m] = "block" /\ pc'[m] = "loop"
    BY <1>0, <1>6, <1>12 DEF AfterRun, Unblock, HandOff, tasks, IInv, TypeOK, HoldsTask
  <2>2. MachineTask(m)'
    BY <1>0, <1>1, <1>6, <2>1 DEF MachineTask, Called, Yielding
  <2> QED
    BY <1>8, <2>1, <2>2
<1>13. CASE Resume(m) \/ YieldAsync(m)
  <2>1. /\ mst'[m] = mst[m]
        /\ \/ /\ pc[m] = "loop" /\ pc'[m] = "after" /\ UNCHANGED on
           \/ /\ pc[m] = "loop" /\ pc'[m] = "running"
              /\ on' = [on EXCEPT ![mco[m]] = @ \cup {m}]
           \/ /\ pc[m] = "issued" /\ pc'[m] = "after"
              /\ on' = [on EXCEPT ![mco[m]] = @ \ {m}]
        /\ mco[m] \in Task
    BY <1>0, <1>6, <1>13 DEF Resume, YieldAsync, machs, IInv, TypeOK, HoldsTask
  <2>2. MachineTask(m)'
    BY <1>0, <1>1, <1>6, <2>1 DEF MachineTask, Called, Yielding
  <2>3. \A t \in Task : \A u \in on'[t] : u # m => u \in on[t]
    <3> SUFFICES ASSUME NEW t \in Task PROVE on'[t] \subseteq on[t] \cup {m}
      OBVIOUS
    <3>1. on \in [Task -> SUBSET Machine]
      BY DEF IInv, TypeOK
    <3>2. CASE UNCHANGED on
      BY <3>2
    <3>3. CASE on' = [on EXCEPT ![mco[m]] = on[mco[m]] \cup {m}]
      BY <3>1, <3>3
    <3>4. CASE on' = [on EXCEPT ![mco[m]] = on[mco[m]] \ {m}]
      BY <3>1, <3>4
    <3> QED
      BY <2>1, <3>2, <3>3, <3>4
  <2>4. \A t \in Task : m \in on'[t] => mco'[m] = t /\ pc'[m] \in {"running", "issued"}
    BY <1>1, <1>6, <2>1 DEF IInv, TypeOK
  <2> QED
    BY <1>0, <1>1, <1>2, <1>3, <1>4, <1>5, <2>2, <2>3, <2>4, MachineTaskStep
    DEF TypeOK, Thread
<1> QED
  BY <1>9, <1>10, <1>11, <1>12, <1>13

\* The steps of a machine that take a task, put it somewhere or let go of it.
LEMMA MovingTask ==
    ASSUME ~ Split, IInv, TypeOK', TaskInv, NEW m \in Machine,
           GetLocal(m) \/ Drain(m) \/ StealPop(m) \/ ToGlobal(m) \/ Dispatch(m)
    PROVE  TaskInv'
<1>0. m \in Thread /\ m \notin Caller /\ None \notin Task
  BY SetAssumption DEF Thread, Caller
<1>1. UNCHANGED <<mst, arg, todo, pend, tst, pos, on>>
  BY DEF GetLocal, Drain, StealPop, ToGlobal, Dispatch, tasks, calls
<1>2. \A u \in Thread \ {m} : pc'[u] = pc[u]
  <2>1. CASE StealPop(m)
    BY <2>1, MissedControl DEF StealPop, IInv, TypeOK
  <2> QED
    BY <2>1 DEF GetLocal, Drain, ToGlobal, Dispatch, IInv, TypeOK
<1>3. \A u \in Machine \ {m} : mco'[u] = mco[u]
  BY DEF GetLocal, Drain, StealPop, ToGlobal, Dispatch, IInv, TypeOK
<1>4. /\ MachineTask(m)
      /\ pc[m] \notin HoldsTask \cup {"loop"} => mco[m] = None
      /\ pc[m] \in HoldsTask => mco[m] \in Task
      /\ None \notin pend
      /\ \A t \in Task : m \in on[t] => mco[m] = t /\ pc[m] \in {"running", "issued"}
  BY <1>0 DEF TaskInv, OnRun, IInv, TypeOK, ControlOK
<1>5. ASSUME NEW s, NEW k1, NEW x1, Moves(s, k1, x1), Lists',
             s \in Task => s \notin todo /\ (s \in pend => k1 \notin {"global", "queue", "arg"}),
             pc[m] \notin {"running", "issued"},
             MachineTask(m)'
      PROVE  TaskInv'
  BY <1>0, <1>1, <1>2, <1>3, <1>4, <1>5, MachineTaskStep DEF TypeOK, Thread
<1>6. CASE GetLocal(m)
  <2>1. /\ Lists'
        /\ mco'[m] \in Task \cup {None} /\ Moves(mco'[m], "machine", m)
        /\ mco'[m] \in Task => mco'[m] \notin todo \cup pend
    BY <1>6, GetLocalMoves
  <2>2. pc[m] = "loop" /\ mco[m] = None /\ pc'[m] \in {"loop", "global"}
    BY <1>0, <1>6 DEF GetLocal, IInv, TypeOK
  <2>3. mst'[m] # "block" /\ mco'[m] \notin pend'
    BY <1>1, <1>4, <2>1, <2>2 DEF MachineTask
  <2>4. MachineTask(m)'
    BY <2>2, <2>3 DEF MachineTask
  <2> QED
    BY <1>5, <2>1, <2>2, <2>4
<1>7. CASE Drain(m) \/ StealPop(m)
  <2>1. /\ Lists'
        /\ \E t \in Task \cup {None} : /\ Moves(t, "queue", mp[m])
                                       /\ t \in Task => t \notin todo \cup pend
    BY <1>7, DrainMoves, StealPopMoves
  <2>2. /\ pc[m] \in {"drain", "stealpop"} /\ UNCHANGED mco
        /\ pc'[m] \in {"drain", "loop", "idlecheck", "stealpop", "steal", "thiefdec"}
    <3>1. CASE Drain(m)
      BY <1>0, <3>1 DEF Drain, IInv, TypeOK
    <3>2. CASE StealPop(m)
      BY <1>0, <3>2, MissedControl DEF StealPop, IInv, TypeOK
    <3> QED
      BY <1>7, <3>1, <3>2
  <2>3. mco[m] = None /\ mst[m] # "block"
    BY <1>4, <2>2 DEF MachineTask, HoldsTask
  <2>4. MachineTask(m)'
    BY <1>1, <1>4, <2>2, <2>3 DEF MachineTask
  <2> QED
    BY <1>5, <2>1, <2>2, <2>4
<1>8. CASE ToGlobal(m)
  <2>1. Lists' /\ Moves(mco[m], "global", None) /\ mco[m] \in Task \ todo
    BY <1>8, ToGlobalMoves
  <2>2. pc[m] = "toglobal" /\ mco'[m] = None /\ pc'[m] = "stop"
    BY <1>0, <1>8 DEF ToGlobal, IInv, TypeOK
  <2>3. mco[m] \notin pend /\ mst[m] # "block"
    BY <1>4, <2>2 DEF MachineTask, Yielding
  <2>4. MachineTask(m)'
    BY <1>1, <1>4, <2>2, <2>3 DEF MachineTask
  <2> QED
    BY <1>5, <2>1, <2>2, <2>3, <2>4
<1>9. CASE Dispatch(m)
  <2>1. /\ pc[m] = "dispatch" /\ mco[m] \in Task /\ mst[m] # "block"
        /\ UNCHANGED <<global, arg>> /\ \A c \in Caller : pc'[c] = pc[c]
    BY <1>0, <1>1, <1>2, <1>4, <1>9 DEF Dispatch, MachineTask, HoldsTask, Thread
  <2>2. CASE tst[mco[m]] = "freezed" /\ UNCHANGED <<local, mco>> /\ pc' = [pc EXCEPT ![m] = "freeze"]
    <3>1. Moves(None, "gone", None)
      BY <2>1, <2>2, NothingMoves
    <3>2. Lists'
      BY <2>1, <2>2 DEF TaskInv, Lists, Distinct
    <3>3. Called(mco[m], "syscall") /\ mco[m] \notin pend
      BY <2>1, <2>2 DEF TaskInv, Calls, Apart
    <3>4. pc'[m] = "freeze"
      BY <1>0, <2>2 DEF IInv, TypeOK
    <3>5. MachineTask(m)'
      BY <1>1, <2>1, <2>2, <3>3, <3>4 DEF MachineTask, Called
    <3> QED
      BY <1>0, <1>5, <2>1, <3>1, <3>2, <3>5
  <2>3. CASE tst[mco[m]] # "freezed"
    <3>1. /\ mco' = [mco EXCEPT ![m] = None] /\ pc' = [pc EXCEPT ![m] = "loop"]
          /\ \/ UNCHANGED local /\ tst[mco[m]] \in {"polling", "deathed"}
             \/ /\ mp[m] \in P /\ tst[mco[m]] = "actived"
                /\ local' = [local EXCEPT ![mp[m]] = ListPush(local[mp[m]], mco[m])]
      BY <1>9, <2>3 DEF Dispatch, IInv, TypeOK
    <3>2. mco'[m] = None /\ pc'[m] = "loop"
      BY <1>0, <3>1 DEF IInv, TypeOK
    <3>3. MachineTask(m)'
      BY <1>1, <1>4, <2>1, <3>2 DEF MachineTask
    <3>4. CASE UNCHANGED local
      <4>1. Lists' /\ Moves(mco[m], "gone", mp[m]) /\ mco[m] \notin todo
        BY <2>1, <3>1, <3>4, LetGoMoves
      <4> QED
        BY <1>5, <2>1, <3>3, <4>1
    <3>5. CASE /\ mp[m] \in P /\ tst[mco[m]] = "actived"
               /\ local' = [local EXCEPT ![mp[m]] = ListPush(local[mp[m]], mco[m])]
      <4>1. Lists' /\ Moves(mco[m], "queue", mp[m]) /\ mco[m] \notin todo
        BY <2>1, <3>1, <3>5, LetGoMoves
      <4>2. mco[m] \notin pend
        BY <3>5 DEF TaskInv, Apart
      <4> QED
        BY <1>5, <2>1, <3>3, <4>1, <4>2
    <3> QED
      BY <3>1, <3>4, <3>5
  <2> QED
    BY <1>9, <2>2, <2>3 DEF Dispatch
<1> QED
  BY <1>6, <1>7, <1>8, <1>9

\* The coroutine t on machine m makes the call op, or returns.
Makes(m, t, op) ==
    /\ op # "return" => /\ pos[t] + 1 \in 1 .. Len(Program[t])
                        /\ Program[t][pos[t] + 1] = op
    /\ pos'[t] = IF op = "return" THEN pos[t] ELSE pos[t] + 1
    /\ \A s \in Task \ {t} : pos'[s] = pos[s] /\ tst'[s] = tst[s] /\ on'[s] = on[s]
    /\ tst'[t] = CASE op = "return"  -> "deathed"
                   [] op = "syscall" -> "freezed"
                   [] op = "sleep"   -> "polling"
                   [] op = "yield"   -> tst[t]
    /\ pend' = IF op = "sleep" THEN pend \cup {t} ELSE pend
    /\ on'[t] = IF op = "sleep" THEN on[t] ELSE on[t] \ {m}
    /\ pc' = [pc EXCEPT ![m] = IF op = "sleep" THEN "issued" ELSE "after"]
    /\ UNCHANGED <<global, local, mco, mst, arg, todo>>

\* What the coroutine that runs on machine m does, as Execute has it.
LEMMA ExecuteCall ==
    ASSUME IInv, NEW m \in Machine, Execute(m), NEW t, t = mco[m], pos[t] <= Len(Program[t])
    PROVE  \E op \in Op \cup {"return"} : Makes(m, t, op)
<1>1. t \in Task /\ Program[t] \in Seq(Op) /\ pos[t] \in Nat
  <2>1. mco[m] # None
    BY DEF Execute, IInv, ControlOK, HoldsTask
  <2>2. mco[m] \in Task \cup {None} /\ pos \in [Task -> Nat]
    BY DEF IInv, TypeOK
  <2> QED
    BY <2>1, <2>2, ProgramAssumption
<1> PICK op : op = IF pos[t] < Len(Program[t]) THEN Program[t][pos[t] + 1] ELSE "return"
  OBVIOUS
<1>2. /\ op \in Op \cup {"return"}
      /\ op # "return" => /\ pos[t] + 1 \in 1 .. Len(Program[t])
                          /\ Program[t][pos[t] + 1] = op
  <2>1. CASE pos[t] < Len(Program[t])
    BY <1>1, <2>1
  <2>2. CASE ~ (pos[t] < Len(Program[t]))
    BY <2>2
  <2> QED
    BY <2>1, <2>2
<1>3. /\ pos' = IF op = "return" THEN pos ELSE [pos EXCEPT ![t] = pos[t] + 1]
      /\ tst' = [tst EXCEPT ![t] = CASE op = "return"  -> "deathed"
                                     [] op = "syscall" -> "freezed"
                                     [] op = "sleep"   -> "polling"
                                     [] op = "yield"   -> tst[t]]
      /\ pend' = IF op = "sleep" THEN pend \cup {t} ELSE pend
      /\ on' = IF op = "sleep" THEN on ELSE [on EXCEPT ![t] = on[t] \ {m}]
      /\ pc' = [pc EXCEPT ![m] = IF op = "sleep" THEN "issued" ELSE "after"]
  BY DEF Execute
<1>4. UNCHANGED <<global, local, mco, mst, arg, todo>>
  BY DEF Execute, lists, machs, calls
<1> QED
  BY <1>1, <1>2, <1>3, <1>4 DEF Makes, IInv, TypeOK

LEMMA ExecuteTask ==
    ASSUME Calm, IInv, TypeOK', TaskInv, NEW m \in Machine, Execute(m)
    PROVE  TaskInv'
<1>0. m \in Thread /\ m \notin Caller /\ pc[m] = "running" /\ None \notin Task
  BY SetAssumption DEF Thread, Caller, Execute
<1> PICK t \in Task : t = mco[m]
  BY <1>0 DEF IInv, TypeOK, ControlOK, HoldsTask
<1>1. /\ Holds("machine", m, t) /\ t \notin pend
      /\ pos[t] <= Len(Program[t]) /\ pos[t] \in Nat
      /\ mst[m] = "block" => Called(t, "syscall")
  BY <1>0 DEF Holds, TaskInv, MachineTask, Calls, Yielding, IInv, TypeOK
<1> PICK op \in Op \cup {"return"} : Makes(m, t, op)
  BY <1>1, ExecuteCall
<1>2. /\ op # "return" => /\ pos[t] + 1 \in 1 .. Len(Program[t])
                          /\ Program[t][pos[t] + 1] = op
      /\ pos'[t] = IF op = "return" THEN pos[t] ELSE pos[t] + 1
      /\ \A s \in Task \ {t} : pos'[s] = pos[s] /\ tst'[s] = tst[s] /\ on'[s] = on[s]
      /\ tst'[t] = CASE op = "return"  -> "deathed"
                     [] op = "syscall" -> "freezed"
                     [] op = "sleep"   -> "polling"
                     [] op = "yield"   -> tst[t]
      /\ pend' = IF op = "sleep" THEN pend \cup {t} ELSE pend
      /\ on'[t] = IF op = "sleep" THEN on[t] ELSE on[t] \ {m}
      /\ pc' = [pc EXCEPT ![m] = IF op = "sleep" THEN "issued" ELSE "after"]
      /\ UNCHANGED <<global, local, mco, mst, arg, todo>>
  BY DEF Makes
<1>3. /\ \A u \in Thread \ {m} : pc'[u] = pc[u]
      /\ pc'[m] = IF op = "sleep" THEN "issued" ELSE "after"
  BY <1>0, <1>2 DEF IInv, TypeOK
<1>4. Moves(None, "gone", None)
  BY <1>0, <1>2, <1>3, NothingMoves DEF Thread
<1>5. \A s \in Task : \A o : Called(s, o) => Called(s, o)'
  <2> SUFFICES ASSUME NEW s \in Task, NEW o, Called(s, o) PROVE Called(s, o)'
    OBVIOUS
  <2>1. PICK i \in 1 .. pos[s] : Program[s][i] = o
    BY DEF Called
  <2>2. i \in 1 .. pos'[s]
    <3>1. pos[s] \in Nat /\ pos'[s] \in {pos[s], pos[s] + 1}
      BY <1>2 DEF IInv, TypeOK
    <3> QED
      BY <3>1
  <2> QED
    BY <2>1, <2>2 DEF Called
<1>6. op = "syscall" => Called(t, "syscall")'
  <2> SUFFICES ASSUME op = "syscall" PROVE \E i \in 1 .. pos'[t] : Program[t][i] = "syscall"
    BY DEF Called
  <2>1. pos'[t] \in 1 .. pos'[t] /\ Program[t][pos'[t]] = "syscall"
    BY <1>1, <1>2
  <2> QED
    BY <2>1
<1>7. op = "sleep" => mst[m] # "block"
  <2> SUFFICES ASSUME op = "sleep", mst[m] = "block" PROVE FALSE
    OBVIOUS
  <2>1. PICK i \in 1 .. pos[t] : Program[t][i] = "syscall"
    BY <1>1 DEF Called
  <2>2. i \in 1 .. Len(Program[t]) /\ i < pos[t] + 1
    BY <1>1, <1>2
  <2> QED
    BY <1>2, <2>1, <2>2 DEF Calm, SleepsFirst
<1>8. Lists' /\ Once'
  BY <1>2, <1>4, OnceMoved DEF TaskInv, Lists, Distinct
<1>9. Apart'
  <2>1. ASSUME NEW s \in todo' PROVE s \notin pend' /\ \A k, x : ~ Holds(k, x, s)'
    <3>1. s \in todo /\ s \in Task /\ s # t
      BY <1>1, <1>2, <2>1 DEF TaskInv, Apart, IInv, TypeOK
    <3> QED
      BY <1>0, <1>2, <1>4, <3>1 DEF TaskInv, Apart, Moves
  <2>2. ASSUME NEW s \in pend'
        PROVE  tst'[s] = "polling" /\ \A k, x : Holds(k, x, s)' => k = "machine"
    <3>1. CASE s = t
      <4>1. op = "sleep"
        BY <1>1, <1>2, <2>2, <3>1
      <4>2. \A k, x : Holds(k, x, t)' => Holds(k, x, t)
        BY <1>0, <1>4 DEF Moves
      <4> QED
        BY <1>1, <1>2, <3>1, <4>1, <4>2 DEF TaskInv, Once
    <3>2. CASE s # t
      <4>1. s \in pend /\ s \in Task
        BY <1>2, <2>2, <3>2 DEF IInv, TypeOK
      <4> QED
        BY <1>0, <1>2, <1>4, <3>2, <4>1 DEF TaskInv, Apart, Moves
    <3> QED
      BY <3>1, <3>2
  <2> QED
    BY <2>1, <2>2 DEF Apart
<1>10. Calls'
  <2> SUFFICES ASSUME NEW s \in Task
               PROVE  /\ tst'[s] = "freezed" => Called(s, "syscall")'
                      /\ pos'[s] <= Len(Program[s])
    BY DEF Calls
  <2>1. CASE s = t
    <3>1. pos'[t] <= Len(Program[t])
      BY <1>1, <1>2
    <3>2. tst'[t] = "freezed" => op = "syscall" \/ tst[t] = "freezed"
      BY <1>2 DEF Op
    <3> QED
      BY <1>5, <1>6, <2>1, <3>1, <3>2 DEF TaskInv, Calls
  <2>2. CASE s # t
    BY <1>2, <1>5, <2>2 DEF TaskInv, Calls
  <2> QED
    BY <2>1, <2>2
<1>11. OnRun'
  <2> SUFFICES ASSUME NEW s \in Task, NEW u \in on'[s]
               PROVE  mco'[u] = s /\ pc'[u] \in {"running", "issued"}
    BY DEF OnRun
  <2>1. u \in on[s] /\ u \in Machine
    BY <1>2 DEF IInv, TypeOK
  <2>2. mco[u] = s /\ pc[u] \in {"running", "issued"}
    BY <2>1 DEF TaskInv, OnRun
  <2>3. u = m => op = "sleep"
    BY <1>2, <2>2
  <2> QED
    BY <1>2, <1>3, <2>1, <2>2, <2>3 DEF Thread
<1>12. ASSUME NEW u \in Machine PROVE MachineTask(u)'
  <2>1. CASE u = m
    <3>1. mst'[m] = "block" => Called(t, "syscall")'
      BY <1>1, <1>2, <1>5
    <3>2. t \in pend' => op = "sleep"
      BY <1>1, <1>2
    <3>3. mco'[m] = t /\ mst'[m] = mst[m] /\ t # None
      BY <1>0, <1>2
    <3> QED
      BY <1>3, <1>7, <2>1, <3>1, <3>2, <3>3 DEF MachineTask, Called, Yielding
  <2>2. CASE u # m
    <3>1. MachineTask(u) /\ pc'[u] = pc[u] /\ mco'[u] = mco[u] /\ mst'[u] = mst[u]
      BY <1>2, <1>3, <2>2 DEF TaskInv, Thread
    <3>2. mco[u] # t
      BY <1>1, <2>2 DEF TaskInv, Once, Holds
    <3>3. mst[u] = "block" \/ pc[u] \in {"freeze", "handoff", "unblock"} => mco[u] \in Task
      BY <3>1 DEF MachineTask, IInv, TypeOK, ControlOK, HoldsTask
    <3>4. mst[u] = "block" \/ pc[u] \in {"freeze", "handoff", "unblock"} =>
             Called(mco[u], "syscall")'
      BY <1>5, <3>1, <3>3 DEF MachineTask
    <3>5. mco[u] \in pend' => mco[u] \in pend
      BY <1>2, <3>2
    <3> QED
      BY <3>1, <3>4, <3>5 DEF MachineTask, Called
  <2> QED
    BY <2>1, <2>2
<1> QED
  BY <1>8, <1>9, <1>10, <1>11, <1>12 DEF TaskInv

\* join moves no task, and touches machines that are not about to let go of one.
LEMMA JoinKeepsTasks ==
    ASSUME IInv, NEW t \in Thread, NEW q \in P \cup {None}, NEW next, Join(t, q, next),
           \/ t \in Machine /\ pc[t] = "freeze" /\ next = "handoff"
           \/ t \in Caller /\ pc[t] \in {"gojoin", "wakejoin"} /\ next \in {"idle", "wake"}
    PROVE  /\ UNCHANGED <<global, local, mco, on, tst, pos, pend, todo, arg>>
           /\ Moves(None, "gone", None)
           /\ \A m \in Machine : Joined(m)
<1>0. Machine \cap Caller = {}
  BY SetAssumption DEF Caller
<1>1. UNCHANGED <<global, local, mco, on, tst, pos, pend, todo, arg>>
  BY JoinBinds DEF tasks
<1>2. /\ \A u \in Caller : u # t => pc'[u] = pc[u]
      /\ pc'[t] = next
  BY <1>0, JoinBinds DEF Thread
<1>3. \A m \in Machine : Joined(m)
  BY <1>0, JoinBinds DEF Thread, Joined
<1>4. Moves(None, "gone", None)
  <2>1. \A c \in Caller : pc'[c] \in Going <=> pc[c] \in Going
    BY <1>0, <1>2 DEF Thread, Going
  <2> QED
    BY <1>1, <2>1, NothingMoves
<1> QED
  BY <1>1, <1>3, <1>4

LEMMA JoinTask ==
    ASSUME IInv, TypeOK', TaskInv, NEW t \in Thread, NEW q \in P \cup {None}, NEW next,
           Join(t, q, next),
           \/ t \in Machine /\ pc[t] = "freeze" /\ next = "handoff"
           \/ t \in Caller /\ pc[t] \in {"gojoin", "wakejoin"} /\ next \in {"idle", "wake"}
    PROVE  TaskInv'
<1>1. UNCHANGED <<global, local, mco, on, tst, pos, pend, todo, arg>>
  BY JoinKeepsTasks
<1>3. Moves(None, "gone", None) /\ \A m \in Machine : Joined(m)
  BY JoinKeepsTasks
<1>2. Lists'
  BY <1>1 DEF TaskInv, Lists, Distinct
<1>4. None \notin Task
  BY SetAssumption
<1> QED
  BY <1>1, <1>2, <1>3, <1>4, CallerTaskStep

\* The steps of go and step_loop that take a p or look at the lists.
LEMMA CallerStillMoves ==
    ASSUME IInv, NEW c \in Caller, GoPop(c) \/ (c = Daemon /\ (Tick \/ WakePop))
    PROVE  UNCHANGED <<global, local>> /\ Moves(None, "gone", None)
<1>1. /\ UNCHANGED <<global, local, mco>>
      /\ \A d \in Caller : arg'[d].co = arg[d].co /\ (pc'[d] \in Going <=> pc[d] \in Going)
  <2>1. c \in Thread
    BY DEF Thread
  <2>2. CASE GoPop(c)
    BY <2>1, <2>2 DEF GoPop, machs, IInv, TypeOK, Going
  <2>3. CASE c = Daemon /\ Tick
    BY <2>1, <2>3 DEF Tick, lists, machs, calls, IInv, TypeOK, Going
  <2>4. CASE c = Daemon /\ WakePop
    BY <2>1, <2>4 DEF WakePop, machs, IInv, TypeOK, Going
  <2> QED
    BY <2>2, <2>3, <2>4
<1> QED
  BY <1>1, NothingMoves

LEMMA CallerTask ==
    ASSUME Calm, IInv, TypeOK', TaskInv,
           \/ \E c \in Caller : GoPop(c) \/ GoPush(c) \/ GoGlobal(c)
           \/ \E t \in Task : Submit(t) \/ Callback(t)
           \/ Tick \/ WakePop
    PROVE  TaskInv'
<1>0. /\ Machine \cap Caller = {} /\ None \notin Task
      /\ Main \in Caller /\ Daemon \in Caller
  BY SetAssumption DEF Caller
<1>1. /\ UNCHANGED <<mco, on, tst, pos, mst>>
      /\ todo' \subseteq todo /\ pend' \subseteq pend
      /\ \A m \in Machine : Joined(m)
  BY <1>0 DEF Joined, GoPop, GoPush, GoGlobal, Submit, Callback, Tick, WakePop, lists, machs, tasks,
              calls, IInv, TypeOK, Thread
<1>2. ASSUME NEW s, NEW k1, NEW x1, Moves(s, k1, x1), Lists', s \in Task => s \notin todo' \cup pend'
      PROVE  TaskInv'
  BY <1>1, <1>2, CallerTaskStep
<1>3. ASSUME NEW c \in Caller, GoPush(c) \/ GoGlobal(c) PROVE TaskInv'
  BY <1>1, <1>2, <1>3, GoMoves
<1>4. ASSUME NEW t \in Task, Submit(t) \/ Callback(t) PROVE TaskInv'
  BY <1>0, <1>2, <1>4, NewMoves
<1>5. ASSUME NEW c \in Caller, GoPop(c) \/ (c = Daemon /\ (Tick \/ WakePop)) PROVE TaskInv'
  <2>1. Moves(None, "gone", None)
    BY <1>5, CallerStillMoves
  <2>2. Lists'
    BY <1>5, CallerStillMoves DEF TaskInv, Lists, Distinct
  <2> QED
    BY <1>0, <1>2, <2>1, <2>2
<1> QED
  BY <1>0, <1>3, <1>4, <1>5

LEMMA SameTask ==
    ASSUME TaskInv, UNCHANGED <<global, local, mco, arg, pc, todo, pend, tst, pos, on>>,
           \A m \in Machine : mst'[m] \in {mst[m], "start"}
    PROVE  TaskInv'
<1>1. Lists'
  BY DEF TaskInv, Lists, Distinct
<1>2. \A k, x, t : Holds(k, x, t)' <=> Holds(k, x, t)
  BY DEF Holds, Elements
<1>3. Once' /\ Apart'
  BY <1>2 DEF TaskInv, Once, Apart
<1>4. Calls' /\ OnRun'
  BY DEF TaskInv, Calls, Called, OnRun
<1>5. ASSUME NEW m \in Machine PROVE MachineTask(m)'
  BY DEF TaskInv, MachineTask, Called
<1> QED
  BY <1>1, <1>3, <1>4, <1>5 DEF TaskInv

LEMMA NextTask ==
    ASSUME Calm, IInv, TaskInv, [Next]_vars
    PROVE  TaskInv'
<1>0. TypeOK' /\ ~ Split /\ Main \in Caller /\ Daemon \in Caller
  BY NextInv DEF IInv, Calm, Caller
<1>1. ASSUME NEW m \in Machine, MachineStep(m) \/ SpuriousWake(m) PROVE TaskInv'
  <2>1. CASE Freeze(m)
    <3>1. mp[m] \in P \cup {None} /\ m \in Thread
      BY DEF IInv, TypeOK, Thread
    <3> QED
      BY <1>0, <2>1, <3>1, JoinTask DEF Freeze
  <2> QED
    BY <1>0, <1>1, <2>1, StillTask, MovingTask, ExecuteTask DEF MachineStep
<1>2. ASSUME NEW c \in Caller, GoStep(c) PROVE TaskInv'
  <2>1. CASE GoJoin(c)
    <3>1. arg[c].p \in P \cup {None} /\ c \in Thread
      BY DEF IInv, TypeOK, Thread
    <3> QED
      BY <1>0, <2>1, <3>1, JoinTask DEF GoJoin
  <2> QED
    BY <1>0, <1>2, <2>1, CallerTask DEF GoStep
<1>3. ASSUME LoopStep PROVE TaskInv'
  <2>1. CASE WakeJoin
    <3>1. arg[Daemon].p \in P \cup {None} /\ Daemon \in Thread
      BY <1>0 DEF IInv, TypeOK, Thread
    <3> QED
      BY <1>0, <2>1, <3>1, JoinTask DEF WakeJoin
  <2> QED
    BY <1>0, <1>3, <2>1, CallerTask DEF LoopStep
<1>4. ASSUME NEW t \in Task, Submit(t) \/ Callback(t) PROVE TaskInv'
  BY <1>0, <1>4, CallerTask
<1>5. ASSUME NEW t \in Thread, PopBegin(t) PROVE FALSE
  BY <1>0, <1>5 DEF PopBegin
<1>6. ASSUME NEW t \in Thread, JoinStore(t) PROVE TaskInv'
  <2>1. UNCHANGED <<global, local, mco, arg, pc, todo, pend, tst, pos, on>>
    BY <1>6 DEF JoinStore, lists, tasks
  <2>2. \A m \in Machine : mst'[m] \in {mst[m], "start"}
    BY <1>6 DEF JoinStore, IInv, TypeOK
  <2> QED
    BY <2>1, <2>2, SameTask
<1>7. CASE UNCHANGED vars
  BY <1>7, SameTask DEF vars, lists, machs, tasks, calls
<1> QED
  BY <1>1, <1>2, <1>3, <1>4, <1>6, <1>5, <1>7
  DEF Next, MachineNext, CallerNext, SubmitNext, Thread

LEMMA InitTask ==
    ASSUME Init
    PROVE  TaskInv
<1>1. Elements(global) = {} /\ \A q \in P : Elements(local[q]) = {}
  BY DEF Init, Elements, EmptyList, Content
<1>2. Lists
  BY DEF Init, Lists, Distinct, EmptyList, Content
<1>3. \A t \in Task : \A k, x : ~ Holds(k, x, t)
  BY <1>1, SetAssumption DEF Init, Holds
<1>4. Once /\ Apart
  BY <1>3 DEF Once, Apart, Init
<1>5. \A t \in Task : Len(Program[t]) \in Nat
  BY ProgramAssumption
<1>6. Calls /\ OnRun
  BY <1>5 DEF Init, Calls, OnRun
<1>7. ASSUME NEW m \in Machine PROVE MachineTask(m)
  <2>1. pc[m] \in {"loop", "unborn"}
    BY SetAssumption DEF Init, Thread, Caller
  <2> QED
    BY <2>1 DEF Init, MachineTask
<1> QED
  BY <1>2, <1>4, <1>6, <1>7 DEF TaskInv

LEMMA TaskInvariant ==
    ASSUME Calm
    PROVE  Spec => [](IInv /\ TaskInv)
<1>1. Init => IInv /\ TaskInv
  BY InitInv, InitTask
<1>2. IInv /\ TaskInv /\ [Next]_vars => (IInv /\ TaskInv)'
  BY NextInv, NextTask
<1> QED
  BY <1>1, <1>2, PTL DEF Spec

\* However often get_task, work_stealing, m_loop and go (machine.cpp:14-57, 141-211,
\* scheduler.cpp:160-169) move a task, it is on one queue or with one machine, once.
THEOREM TasksNeverTwice == Calm => (Spec => []TaskNotTwice)
<1> SUFFICES ASSUME Calm PROVE Spec => []TaskNotTwice
  OBVIOUS
<1>1. TaskInv => TaskNotTwice
  <2> SUFFICES ASSUME TaskInv, NEW t \in Task, NEW x \in PlacesOfTask(t), NEW y \in PlacesOfTask(t)
               PROVE  x = y
    BY DEF TaskNotTwice
  <2> DEFINE At(k, a, z) ==
          \/ /\ k = "global" /\ a = None
             /\ \E i \in Occurrences(global, t) : z = <<"global", i>>
          \/ /\ k = "queue" /\ a \in P
             /\ \E i \in Occurrences(local[a], t) : z = <<a, i>>
          \/ k = "machine" /\ a \in Machine /\ mco[a] = t /\ z = <<"machine", a>>
          \/ k = "arg" /\ a \in Caller /\ arg[a].co = t /\ pc[a] \in Going /\ z = <<"arg", a>>
  <2>1. \A z \in PlacesOfTask(t) : \E k, a : At(k, a, z)
    <3> SUFFICES ASSUME NEW z \in PlacesOfTask(t) PROVE \E k, a : At(k, a, z)
      OBVIOUS
    <3>1. CASE z \in {<<"global", i>> : i \in Occurrences(global, t)}
      <4>1. At("global", None, z)
        BY <3>1
      <4> QED
        BY <4>1
    <3>2. ASSUME NEW q \in P, z \in {<<q, i>> : i \in Occurrences(local[q], t)}
          PROVE  \E k, a : At(k, a, z)
      <4>1. At("queue", q, z)
        BY <3>2
      <4> QED
        BY <4>1
    <3>3. ASSUME NEW m \in Machine, mco[m] = t, z = <<"machine", m>>
          PROVE  \E k, a : At(k, a, z)
      <4>1. At("machine", m, z)
        BY <3>3
      <4> QED
        BY <4>1
    <3>4. ASSUME NEW c \in Caller, arg[c].co = t, pc[c] \in Going, z = <<"arg", c>>
          PROVE  \E k, a : At(k, a, z)
      <4>1. At("arg", c, z)
        BY <3>4
      <4> QED
        BY <4>1
    <3> HIDE DEF At
    <3>5. \/ z \in {<<"global", i>> : i \in Occurrences(global, t)}
          \/ z \in (UNION {{<<q, i>> : i \in Occurrences(local[q], t)} : q \in P})
          \/ z \in {<<"machine", m>> : m \in {n \in Machine : mco[n] = t}}
          \/ z \in {<<"arg", c>> : c \in {d \in Caller : arg[d].co = t
                                        /\ pc[d] \in {"gopop", "gopush", "goglobal"}}}
      BY DEF PlacesOfTask
    <3>6. CASE z \in (UNION {{<<q, i>> : i \in Occurrences(local[q], t)} : q \in P})
      BY <3>2, <3>6
    <3>7. CASE z \in {<<"machine", m>> : m \in {n \in Machine : mco[n] = t}}
      BY <3>3, <3>7
    <3>8. CASE z \in {<<"arg", c>> : c \in {d \in Caller : arg[d].co = t
                                         /\ pc[d] \in {"gopop", "gopush", "goglobal"}}}
      BY <3>4, <3>8 DEF Going
    <3> QED
      BY <3>1, <3>5, <3>6, <3>7, <3>8
  <2>2. \A k, a, z : At(k, a, z) => Holds(k, a, t)
    BY DEF Holds, Occurrences, Elements
  <2>3. PICK k, a : At(k, a, x)
    BY <2>1
  <2>4. PICK j, b : At(j, b, y)
    BY <2>1
  <2>5. k = j /\ a = b
    BY <2>2, <2>3, <2>4 DEF TaskInv, Once
  <2>6. CASE k = "global"
    BY <2>3, <2>4, <2>5, <2>6 DEF TaskInv, Lists, Distinct, Occurrences
  <2>7. CASE k = "queue"
    BY <2>3, <2>4, <2>5, <2>7 DEF TaskInv, Lists, Distinct, Occurrences
  <2>8. CASE k \in {"machine", "arg"}
    BY <2>3, <2>4, <2>5, <2>8
  <2>9. k \in Kind
    BY <2>3 DEF Kind
  <2> QED
    BY <2>6, <2>7, <2>8, <2>9 DEF Kind
<1> QED
  BY <1>1, TaskInvariant, PTL

\* No coroutine executes on two machines, which would share its stack (task.cpp:25-34).
THEOREM RunsOnOne == Calm => (Spec => []OneRunner)
<1> SUFFICES ASSUME Calm PROVE Spec => []OneRunner
  OBVIOUS
<1>1. IInv /\ TaskInv => OneRunner
  <2> SUFFICES ASSUME IInv, TaskInv, NEW t \in Task, NEW m \in on[t], NEW n \in on[t]
               PROVE  m = n
    BY DEF OneRunner
  <2>1. Holds("machine", m, t) /\ Holds("machine", n, t)
    BY DEF TaskInv, OnRun, Holds, IInv, TypeOK
  <2> QED
    BY <2>1 DEF TaskInv, Once
<1> QED
  BY <1>1, TaskInvariant, PTL

\* co_sleep and the file calls return after libuv has answered: nothing resumes a coroutine
\* whose request is pending (co_io.cpp:38-48, machine.cpp:172-211).
THEOREM ResumedWhenAnswered == Calm => (Spec => []ResumedAfterAnswer)
<1> SUFFICES ASSUME Calm PROVE Spec => []ResumedAfterAnswer
  OBVIOUS
<1>1. IInv /\ TaskInv => ResumedAfterAnswer
  <2> SUFFICES ASSUME IInv, TaskInv, NEW t \in pend, NEW m \in on[t] PROVE pc[m] = "issued"
    BY DEF ResumedAfterAnswer
  <2>1. m \in Machine /\ mco[m] = t /\ pc[m] \in {"running", "issued"}
    BY DEF TaskInv, OnRun, IInv, TypeOK
  <2>2. pc[m] \in Yielding
    BY <2>1 DEF TaskInv, MachineTask
  <2> QED
    BY <2>1, <2>2 DEF Yielding
<1> QED
  BY <1>1, TaskInvariant, PTL

-----------------------------------------------------------------------------
(* That a task is in some place. *)

\* A coroutine that yields to nobody after an asynchronous call makes a system call between:
\* until then its state says polling, and the machine would let go of it.
NoBareYield ==
    \A t \in Task : \A i, j \in 1 .. Len(Program[t]) :
        i < j /\ Program[t][i] = "sleep" /\ Program[t][j] = "yield" =>
            \E k \in i .. j : Program[t][k] = "syscall"

SomeWhere ==
    \A t \in Task : t \in todo \cup pend \/ tst[t] = "deathed" \/ \E k, x : Holds(k, x, t)

\* The last call of t that changed its state was asynchronous.
Slept(t) == \E i \in 1 .. pos[t] : /\ Program[t][i] = "sleep"
                                   /\ \A j \in i .. pos[t] : Program[t][j] # "syscall"

\* Machine m lets go of a polling task only while its request is pending.
Asked(m) == pc[m] \in Yielding /\ mco[m] \in Task /\ tst[mco[m]] = "polling" => mco[m] \in pend

LostInv ==
    /\ SomeWhere
    /\ \A t \in Task : tst[t] = "polling" => Slept(t)
    /\ \A m \in Machine : Asked(m)

LEMMA SomeWhereMoved ==
    ASSUME SomeWhere, NEW s, NEW k1, NEW x1, Moves(s, k1, x1), UNCHANGED tst,
           \A t \in Task : t \in todo \cup pend => t \in todo' \cup pend' \/ (t = s /\ k1 \in Kind),
           s \in Task /\ k1 \notin Kind => s \in pend' \/ tst[s] = "deathed"
    PROVE  SomeWhere'
<1> SUFFICES ASSUME NEW t \in Task, t \notin todo' \cup pend', tst[t] # "deathed"
             PROVE  \E k, x : Holds(k, x, t)'
  BY DEF SomeWhere
<1>1. CASE t = s
  <2>1. Holds(k1, x1, t)'
    BY <1>1 DEF Moves
  <2> QED
    BY <2>1
<1>2. CASE t # s
  <2>1. PICK k, x : Holds(k, x, t)
    BY <1>2 DEF SomeWhere
  <2>2. Holds(k, x, t)'
    BY <1>2, <2>1 DEF Moves
  <2> QED
    BY <2>2
<1> QED
  BY <1>1, <1>2

LEMMA MachineLostStep ==
    ASSUME LostInv, NEW m \in Machine, NEW s, NEW k1, NEW x1, Moves(s, k1, x1),
           UNCHANGED <<todo, pend, tst, pos>>,
           s \in Task /\ k1 \notin Kind => s \in pend \/ tst[s] = "deathed",
           \A u \in Machine \ {m} : mco'[u] = mco[u] /\ pc'[u] = pc[u],
           Asked(m)'
    PROVE  LostInv'
<1>1. SomeWhere'
  BY SomeWhereMoved DEF LostInv
<1>2. ASSUME NEW t \in Task, tst'[t] = "polling" PROVE Slept(t)'
  BY <1>2 DEF LostInv, Slept
<1>3. ASSUME NEW u \in Machine PROVE Asked(u)'
  <2>1. CASE u # m
    BY <2>1 DEF LostInv, Asked
  <2> QED
    BY <2>1
<1> QED
  BY <1>1, <1>2, <1>3 DEF LostInv

LEMMA CallerLostStep ==
    ASSUME LostInv, NEW s, NEW k1, NEW x1, Moves(s, k1, x1),
           UNCHANGED <<mco, tst, pos>>,
           \A t \in Task : t \in todo \cup pend => t \in todo' \cup pend' \/ (t = s /\ k1 \in Kind),
           s \in Task => k1 \in Kind,
           \A m \in Machine : Joined(m) /\ (mco[m] \in pend => mco[m] \in pend')
    PROVE  LostInv'
<1>1. SomeWhere'
  BY SomeWhereMoved DEF LostInv
<1>2. ASSUME NEW t \in Task, tst'[t] = "polling" PROVE Slept(t)'
  BY <1>2 DEF LostInv, Slept
<1>3. ASSUME NEW m \in Machine PROVE Asked(m)'
  BY DEF LostInv, Asked, Joined, Yielding
<1> QED
  BY <1>1, <1>2, <1>3 DEF LostInv

\* Of a coroutine that is between an asynchronous call and the next, the system calls are past.
LEMMA NoCallAfterSleep ==
    ASSUME Calm, TypeOK, TaskInv, NEW t \in Task, Slept(t), Called(t, "syscall")
    PROVE  FALSE
<1>1. PICK i \in 1 .. pos[t] : /\ Program[t][i] = "sleep"
                               /\ \A j \in i .. pos[t] : Program[t][j] # "syscall"
  BY DEF Slept
<1>2. PICK j \in 1 .. pos[t] : Program[t][j] = "syscall"
  BY DEF Called
<1>3. pos[t] \in Nat /\ Len(Program[t]) \in Nat /\ pos[t] <= Len(Program[t])
  BY ProgramAssumption DEF TypeOK, TaskInv, Calls
<1>4. j < i /\ i \in 1 .. Len(Program[t]) /\ j \in 1 .. Len(Program[t])
  BY <1>1, <1>2, <1>3
<1> QED
  BY <1>1, <1>2, <1>4 DEF Calm, SleepsFirst

LEMMA MachineLost ==
    ASSUME Calm, IInv, TypeOK', TaskInv, LostInv, NEW m \in Machine,
           \/ GetLocal(m) \/ Drain(m) \/ StealPop(m) \/ ToGlobal(m) \/ Dispatch(m)
           \/ TakeP(m) \/ LookGlobal(m) \/ IdleCheck(m) \/ ThiefCheck(m) \/ ThiefInc(m)
           \/ Steal(m) \/ ThiefDec(m) \/ GetStop(m) \/ ReleaseP(m) \/ Resume(m)
           \/ YieldAsync(m) \/ AfterRun(m) \/ Unblock(m) \/ HandOff(m) \/ StopRelease(m)
           \/ Park(m) \/ Wait(m) \/ SpuriousWake(m)
    PROVE  LostInv'
<1>0. m \in Thread /\ m \notin Caller /\ None \notin Task /\ ~ Split
  BY SetAssumption DEF Thread, Caller, Calm
<1>1. Kind = {"global", "queue", "machine", "arg"} /\ Yielding = {"issued", "after", "dispatch"}
  BY DEF Kind, Yielding
<1>2. CASE GetLocal(m) \/ Drain(m) \/ StealPop(m) \/ ToGlobal(m) \/ Dispatch(m)
  <2>1. UNCHANGED <<todo, pend, tst, pos, arg>>
    BY <1>2 DEF GetLocal, Drain, StealPop, ToGlobal, Dispatch, tasks, calls
  <2>2. \A u \in Thread \ {m} : pc'[u] = pc[u]
    <3>1. CASE StealPop(m)
      BY <1>0, <3>1, MissedControl DEF StealPop, IInv, TypeOK
    <3> QED
      BY <1>0, <1>2, <3>1 DEF GetLocal, Drain, ToGlobal, Dispatch, IInv, TypeOK
  <2>3. \A u \in Machine \ {m} : mco'[u] = mco[u]
    BY <1>2 DEF GetLocal, Drain, StealPop, ToGlobal, Dispatch, IInv, TypeOK
  <2>4. pc'[m] \notin Yielding
    <3>1. CASE StealPop(m)
      BY <1>0, <1>1, <3>1, MissedControl DEF StealPop, IInv, TypeOK
    <3> QED
      BY <1>0, <1>1, <1>2, <3>1 DEF GetLocal, Drain, ToGlobal, Dispatch, IInv, TypeOK
  <2>5. ASSUME NEW s, NEW k1, NEW x1, Moves(s, k1, x1),
               s \in Task /\ k1 \notin Kind => s \in pend \/ tst[s] = "deathed"
        PROVE  LostInv'
    <3>1. Asked(m)'
      BY <2>4 DEF Asked
    <3> QED
      BY <2>1, <2>2, <2>3, <2>5, <3>1, MachineLostStep DEF Thread
  <2>6. CASE GetLocal(m)
    BY <1>0, <1>1, <2>5, <2>6, GetLocalMoves
  <2>7. CASE Drain(m) \/ StealPop(m)
    BY <1>0, <1>1, <2>5, <2>7, DrainMoves, StealPopMoves
  <2>8. CASE ToGlobal(m)
    BY <1>1, <2>5, <2>8, ToGlobalMoves
  <2>9. CASE Dispatch(m)
    <3>1. pc[m] = "dispatch" /\ mco[m] \in Task /\ UNCHANGED <<global, arg>>
      BY <1>0, <2>1, <2>9 DEF Dispatch, HoldsTask, IInv, TypeOK, ControlOK
    <3>2. tst[mco[m]] = "polling" => mco[m] \in pend
      BY <1>1, <3>1 DEF LostInv, Asked
    <3>3. \A c \in Caller : pc'[c] = pc[c]
      BY <1>0, <2>2 DEF Thread
    <3>4. CASE UNCHANGED <<local, mco>>
      BY <1>0, <2>5, <3>1, <3>3, <3>4, NothingMoves
    <3>5. CASE mco' = [mco EXCEPT ![m] = None] /\ UNCHANGED local /\
               tst[mco[m]] \in {"polling", "deathed"}
      <4>1. Moves(mco[m], "gone", mp[m])
        BY <3>1, <3>3, <3>5, LetGoMoves
      <4> QED
        BY <2>5, <3>2, <3>5, <4>1
    <3>6. CASE /\ mco' = [mco EXCEPT ![m] = None] /\ mp[m] \in P
               /\ local' = [local EXCEPT ![mp[m]] = ListPush(local[mp[m]], mco[m])]
      <4>1. Moves(mco[m], "queue", mp[m])
        BY <3>1, <3>3, <3>6, LetGoMoves
      <4> QED
        BY <1>1, <2>5, <4>1
    <3>7. mp[m] # None => mp[m] \in P
      BY DEF IInv, TypeOK
    <3> QED
      BY <2>9, <3>4, <3>5, <3>6, <3>7 DEF Dispatch, LetGo
  <2> QED
    BY <1>2, <2>6, <2>7, <2>8, <2>9
<1>3. CASE \/ TakeP(m) \/ LookGlobal(m) \/ IdleCheck(m) \/ ThiefCheck(m) \/ ThiefInc(m)
           \/ Steal(m) \/ ThiefDec(m) \/ GetStop(m) \/ ReleaseP(m) \/ Resume(m)
           \/ YieldAsync(m) \/ AfterRun(m) \/ Unblock(m) \/ HandOff(m) \/ StopRelease(m)
           \/ Park(m) \/ Wait(m) \/ SpuriousWake(m)
  <2>1. /\ UNCHANGED <<global, local, mco, arg, todo, pend, tst, pos>>
        /\ \A u \in Thread \ {m} : pc'[u] = pc[u]
        /\ Moves(None, "gone", None)
    BY <1>3, StillMoves
  <2>2. Asked(m)'
    <3>1. CASE YieldAsync(m) \/ AfterRun(m)
      <4>1. pc[m] \in Yielding
        BY <1>1, <3>1 DEF YieldAsync, AfterRun
      <4> QED
        BY <2>1, <4>1 DEF LostInv, Asked
    <3>2. CASE Resume(m)
      <4>1. pc'[m] \in Yielding => tst[mco[m]] = "deathed"
        BY <1>0, <1>1, <3>2 DEF Resume, IInv, TypeOK
      <4> QED
        BY <2>1, <4>1 DEF Asked
    <3>3. CASE Unblock(m)
      <4> SUFFICES ASSUME mco[m] \in Task, tst[mco[m]] = "polling" PROVE FALSE
        BY <2>1 DEF Asked
      <4>1. Called(mco[m], "syscall")
        BY <3>3 DEF Unblock, TaskInv, MachineTask
      <4> QED
        BY <4>1, NoCallAfterSleep DEF LostInv, IInv
    <3>4. CASE \/ TakeP(m) \/ LookGlobal(m) \/ IdleCheck(m) \/ ThiefCheck(m) \/ ThiefInc(m)
               \/ Steal(m) \/ ThiefDec(m) \/ GetStop(m) \/ ReleaseP(m) \/ HandOff(m)
               \/ StopRelease(m) \/ Park(m) \/ Wait(m) \/ SpuriousWake(m)
      <4>1. pc'[m] \notin Yielding
        <5>1. CASE Steal(m)
          BY <1>0, <1>1, <5>1, MissedControl DEF Steal, IInv, TypeOK
        <5> QED
          BY <1>0, <1>1, <3>4, <5>1 DEF TakeP, LookGlobal, IdleCheck, ThiefCheck, ThiefInc,
             ThiefDec, GetStop, ReleaseP, HandOff, StopRelease, Park, Wait, SpuriousWake,
             WithP, IInv, TypeOK
      <4> QED
        BY <4>1 DEF Asked
    <3> QED
      BY <1>3, <3>1, <3>2, <3>3, <3>4
  <2> QED
    BY <1>0, <2>1, <2>2, MachineLostStep DEF Thread
<1> QED
  BY <1>2, <1>3

LEMMA ExecuteLost ==
    ASSUME NoBareYield, IInv, TaskInv, LostInv, NEW m \in Machine, Execute(m)
    PROVE  LostInv'
<1>0. m \in Thread /\ m \notin Caller /\ pc[m] = "running" /\ None \notin Task
  BY SetAssumption DEF Thread, Caller, Execute
<1> PICK t \in Task : t = mco[m]
  BY <1>0 DEF IInv, TypeOK, ControlOK, HoldsTask
<1>1. /\ Holds("machine", m, t) /\ pos[t] \in Nat
      /\ pos[t] <= Len(Program[t]) /\ Len(Program[t]) \in Nat
  BY ProgramAssumption DEF Holds, TaskInv, Calls, IInv, TypeOK
<1> PICK op \in Op \cup {"return"} : Makes(m, t, op)
  BY <1>1, ExecuteCall
<1>2. /\ op # "return" => /\ pos[t] + 1 \in 1 .. Len(Program[t])
                          /\ Program[t][pos[t] + 1] = op
      /\ pos'[t] = IF op = "return" THEN pos[t] ELSE pos[t] + 1
      /\ \A s \in Task \ {t} : pos'[s] = pos[s] /\ tst'[s] = tst[s]
      /\ tst'[t] = CASE op = "return"  -> "deathed"
                     [] op = "syscall" -> "freezed"
                     [] op = "sleep"   -> "polling"
                     [] op = "yield"   -> tst[t]
      /\ pend' = IF op = "sleep" THEN pend \cup {t} ELSE pend
      /\ pc' = [pc EXCEPT ![m] = IF op = "sleep" THEN "issued" ELSE "after"]
      /\ UNCHANGED <<global, local, mco, arg, todo>>
  BY DEF Makes
<1>3. \A u \in Thread \ {m} : pc'[u] = pc[u]
  BY <1>0, <1>2 DEF IInv, TypeOK
<1>4. Moves(None, "gone", None)
  BY <1>0, <1>2, <1>3, NothingMoves DEF Thread
<1>5. op = "yield" => tst[t] # "polling"
  <2> SUFFICES ASSUME op = "yield", tst[t] = "polling" PROVE FALSE
    OBVIOUS
  <2>1. PICK i \in 1 .. pos[t] : /\ Program[t][i] = "sleep"
                                 /\ \A j \in i .. pos[t] : Program[t][j] # "syscall"
    BY DEF LostInv, Slept
  <2>2. i \in 1 .. Len(Program[t]) /\ i < pos[t] + 1
    BY <1>1
  <2>3. PICK k \in i .. pos[t] + 1 : Program[t][k] = "syscall"
    BY <1>2, <2>1, <2>2 DEF NoBareYield
  <2>4. k \notin i .. pos[t]
    BY <2>1, <2>3
  <2>5. k = pos[t] + 1
    BY <1>1, <2>2, <2>3, <2>4
  <2> QED
    BY <1>2, <2>3, <2>5
<1>6. SomeWhere'
  <2> SUFFICES ASSUME NEW s \in Task, s \notin todo' \cup pend', tst'[s] # "deathed"
               PROVE  \E k, x : Holds(k, x, s)'
    BY DEF SomeWhere
  <2>1. \E k, x : Holds(k, x, s)
    <3>1. CASE s = t
      BY <1>1, <3>1
    <3>2. CASE s # t
      BY <1>2, <3>2 DEF LostInv, SomeWhere
    <3> QED
      BY <3>1, <3>2
  <2>2. PICK k, x : Holds(k, x, s)
    BY <2>1
  <2>3. Holds(k, x, s)'
    BY <1>0, <1>4, <2>2 DEF Moves
  <2> QED
    BY <2>3
<1>7. ASSUME NEW s \in Task, tst'[s] = "polling" PROVE Slept(s)'
  <2>1. CASE s = t
    <3>1. op = "sleep"
      BY <1>2, <1>5, <1>7, <2>1 DEF Op
    <3>2. pos'[t] \in 1 .. pos'[t] /\ Program[t][pos'[t]] = "sleep"
      BY <1>1, <1>2, <3>1
    <3>3. \A j \in pos'[t] .. pos'[t] : Program[t][j] # "syscall"
      BY <1>1, <1>2, <3>1, <3>2
    <3> QED
      BY <2>1, <3>2, <3>3 DEF Slept
  <2>2. CASE s # t
    <3>1. tst[s] = "polling" /\ pos'[s] = pos[s]
      BY <1>2, <1>7, <2>2
    <3> QED
      BY <3>1 DEF LostInv, Slept
  <2> QED
    BY <2>1, <2>2
<1>8. ASSUME NEW u \in Machine PROVE Asked(u)'
  <2>1. CASE u = m
    <3>1. tst'[t] = "polling" => t \in pend'
      BY <1>2, <1>5 DEF Op
    <3> QED
      BY <1>2, <2>1, <3>1 DEF Asked
  <2>2. CASE u # m
    <3>1. mco[u] # t
      BY <1>1, <2>2 DEF TaskInv, Once, Holds
    <3>2. pc'[u] = pc[u] /\ mco'[u] = mco[u]
      BY <1>2, <1>3, <2>2 DEF Thread
    <3>3. mco[u] \in Task => tst'[mco[u]] = tst[mco[u]]
      BY <1>2, <3>1
    <3>4. mco[u] \in pend => mco[u] \in pend'
      BY <1>2
    <3>5. Asked(u)
      BY DEF LostInv
    <3> QED
      BY <3>2, <3>3, <3>4, <3>5 DEF Asked
  <2> QED
    BY <2>1, <2>2
<1> QED
  BY <1>6, <1>7, <1>8 DEF LostInv

LEMMA CallerLost ==
    ASSUME Calm, IInv, TaskInv, LostInv,
           \/ \E c \in Caller : GoPop(c) \/ GoPush(c) \/ GoGlobal(c)
           \/ \E t \in Task : Submit(t) \/ Callback(t)
           \/ Tick \/ WakePop
    PROVE  LostInv'
<1>0. /\ Machine \cap Caller = {} /\ None \notin Task
      /\ Main \in Caller /\ Daemon \in Caller
      /\ Kind = {"global", "queue", "machine", "arg"}
  BY SetAssumption DEF Caller, Kind
<1>1. /\ UNCHANGED <<mco, tst, pos>>
      /\ \A m \in Machine : Joined(m)
  BY <1>0 DEF Joined, GoPop, GoPush, GoGlobal, Submit, Callback, Tick, WakePop, lists, machs, tasks,
              calls, IInv, TypeOK, Thread
<1>2. ASSUME NEW c \in Caller, GoPush(c) \/ GoGlobal(c) PROVE LostInv'
  <2>1. UNCHANGED <<todo, pend>>
    BY <1>2 DEF GoPush, GoGlobal, tasks, calls
  <2> QED
    BY <1>0, <1>1, <1>2, <2>1, GoMoves, CallerLostStep
<1>3. ASSUME NEW t \in Task, Submit(t) \/ Callback(t) PROVE LostInv'
  <2>1. Moves(t, "arg", Main) \/ Moves(t, "arg", Daemon)
    BY <1>0, <1>3, NewMoves
  <2>2. /\ \A s \in Task : s \in todo \cup pend => s \in todo' \cup pend' \/ s = t
        /\ \A m \in Machine : mco[m] \in pend => mco[m] \in pend'
    BY <1>3 DEF Submit, Callback, tasks, Calm
  <2> QED
    BY <1>0, <1>1, <2>1, <2>2, CallerLostStep
<1>4. ASSUME NEW c \in Caller, GoPop(c) \/ (c = Daemon /\ (Tick \/ WakePop)) PROVE LostInv'
  <2>1. Moves(None, "gone", None)
    BY <1>4, CallerStillMoves
  <2>2. UNCHANGED <<todo, pend>>
    BY <1>4 DEF GoPop, Tick, WakePop, tasks, calls
  <2> QED
    BY <1>0, <1>1, <2>1, <2>2, CallerLostStep
<1> QED
  BY <1>0, <1>2, <1>3, <1>4

LEMMA JoinLost ==
    ASSUME IInv, TaskInv, LostInv, NEW t \in Thread, NEW q \in P \cup {None}, NEW next,
           Join(t, q, next),
           \/ t \in Machine /\ pc[t] = "freeze" /\ next = "handoff"
           \/ t \in Caller /\ pc[t] \in {"gojoin", "wakejoin"} /\ next \in {"idle", "wake"}
    PROVE  LostInv'
<1>1. /\ UNCHANGED <<mco, tst, pos, pend, todo>>
      /\ Moves(None, "gone", None)
      /\ \A m \in Machine : Joined(m)
  BY JoinKeepsTasks
<1>2. None \notin Task
  BY SetAssumption
<1> QED
  BY <1>1, <1>2, CallerLostStep

LEMMA SameLost ==
    ASSUME LostInv, UNCHANGED <<global, local, mco, arg, pc, todo, pend, tst, pos>>
    PROVE  LostInv'
<1>1. Moves(None, "gone", None) /\ None \notin Task
  BY NothingMoves, SetAssumption
<1>2. SomeWhere'
  BY <1>1, SomeWhereMoved DEF LostInv
<1> QED
  BY <1>2 DEF LostInv, Asked, Slept

LEMMA NextLost ==
    ASSUME Calm, NoBareYield, IInv, TaskInv, LostInv, [Next]_vars
    PROVE  LostInv'
<1>0. TypeOK' /\ ~ Split /\ Main \in Caller /\ Daemon \in Caller
  BY NextInv DEF IInv, Calm, Caller
<1>1. ASSUME NEW m \in Machine, MachineStep(m) \/ SpuriousWake(m) PROVE LostInv'
  <2>1. CASE Freeze(m)
    <3>1. mp[m] \in P \cup {None} /\ m \in Thread
      BY DEF IInv, TypeOK, Thread
    <3> QED
      BY <2>1, <3>1, JoinLost DEF Freeze
  <2> QED
    BY <1>0, <1>1, <2>1, MachineLost, ExecuteLost DEF MachineStep
<1>2. ASSUME NEW c \in Caller, GoStep(c) PROVE LostInv'
  <2>1. CASE GoJoin(c)
    <3>1. arg[c].p \in P \cup {None} /\ c \in Thread
      BY DEF IInv, TypeOK, Thread
    <3> QED
      BY <2>1, <3>1, JoinLost DEF GoJoin
  <2> QED
    BY <1>2, <2>1, CallerLost DEF GoStep
<1>3. ASSUME LoopStep PROVE LostInv'
  <2>1. CASE WakeJoin
    <3>1. arg[Daemon].p \in P \cup {None} /\ Daemon \in Thread
      BY <1>0 DEF IInv, TypeOK, Thread
    <3> QED
      BY <1>0, <2>1, <3>1, JoinLost DEF WakeJoin
  <2> QED
    BY <1>3, <2>1, CallerLost DEF LoopStep
<1>4. ASSUME NEW t \in Task, Submit(t) \/ Callback(t) PROVE LostInv'
  BY <1>4, CallerLost
<1>5. ASSUME NEW t \in Thread, PopBegin(t) PROVE FALSE
  BY <1>0, <1>5 DEF PopBegin
<1>6. ASSUME NEW t \in Thread, JoinStore(t) PROVE LostInv'
  BY <1>6, SameLost DEF JoinStore, lists, tasks
<1>7. CASE UNCHANGED vars
  BY <1>7, SameLost DEF vars, lists, machs, tasks, calls
<1> QED
  BY <1>1, <1>2, <1>3, <1>4, <1>6, <1>5, <1>7
  DEF Next, MachineNext, CallerNext, SubmitNext, Thread

\* What m_loop lets go of is with libuv, whose callback passes it to go
\* (machine.cpp:172-211, co_io.cpp:38-48): no task that has not ended is forgotten.
THEOREM TasksNeverLost == Calm /\ NoBareYield => (Spec => []TaskNotLost)
<1> SUFFICES ASSUME Calm, NoBareYield PROVE Spec => []TaskNotLost
  OBVIOUS
<1>1. Init => LostInv
  <2> SUFFICES ASSUME Init PROVE LostInv
    OBVIOUS
  <2>1. SomeWhere
    BY DEF Init, SomeWhere
  <2> QED
    BY <2>1, SetAssumption DEF Init, LostInv, Asked
<1>2. IInv /\ TaskInv /\ LostInv /\ [Next]_vars => LostInv'
  BY NextLost
<1>3. LostInv => TaskNotLost
  <2> SUFFICES ASSUME LostInv, NEW t \in Task, NEW k, NEW x, Holds(k, x, t)
               PROVE  PlacesOfTask(t) # {}
    BY DEF TaskNotLost, LostInv, SomeWhere
  <2>1. \E z : z \in PlacesOfTask(t)
    <3>1. CASE k = "global"
      <4>1. PICK i \in Occurrences(global, t) : TRUE
        BY <3>1 DEF Holds, Elements, Occurrences
      <4>2. <<"global", i>> \in PlacesOfTask(t)
        BY <4>1 DEF PlacesOfTask
      <4> QED
        BY <4>2
    <3>2. CASE k = "queue"
      <4>1. x \in P /\ \E i : i \in Occurrences(local[x], t)
        BY <3>2 DEF Holds, Elements, Occurrences
      <4>2. PICK i \in Occurrences(local[x], t) : TRUE
        BY <4>1
      <4>3. <<x, i>> \in PlacesOfTask(t)
        BY <4>1, <4>2 DEF PlacesOfTask
      <4> QED
        BY <4>3
    <3>3. CASE k = "machine"
      <4>1. <<"machine", x>> \in PlacesOfTask(t)
        BY <3>3 DEF Holds, PlacesOfTask
      <4> QED
        BY <4>1
    <3>4. CASE k = "arg"
      <4>1. <<"arg", x>> \in PlacesOfTask(t)
        BY <3>4 DEF Holds, Going, PlacesOfTask
      <4> QED
        BY <4>1
    <3> QED
      BY <3>1, <3>2, <3>3, <3>4 DEF Holds
  <2> QED
    BY <2>1
<1> QED
  BY <1>1, <1>2, <1>3, TaskInvariant, PTL DEF Spec
=============================================================================
