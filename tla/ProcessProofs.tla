---------------------------- MODULE ProcessProofs ----------------------------
(***************************************************************************)
(* Proofs about Process: for any callers, slots, files, programs, timers   *)
(* and bounds, what the invariants of Startup, Timer and FileIo say.  The  *)
(* parts share no variable but thrown, so each has an invariant of its     *)
(* own, and the lemma StepOfParts tells what a step of the whole does to   *)
(* each part.                                                              *)
(***************************************************************************)
EXTENDS Process, WellFoundedInduction, TLAPS

StartStep == (\E c \in Caller : Go(c) \/ WaitReturns(c) \/ RunTask(c)) \/ OpenLoop \/ Notify

TimerStep ==
    \/ \E t \in Timer :
          \/ MainAdd(t) \/ MainHandler(t) \/ TimeCb(t) \/ Clear(t)
          \/ Kind[t] # "main" /\ Ask(t)
    \/ CloseAfterTask \/ TimePasses \/ EndIteration \/ UseDeleted

FileStep ==
    /\ ~ thrown
    /\ (\E c \in Co : Call(c) \/ FsClose(c) \/ Perform(c) \/ Answer(c)) \/ LoopClose

\* A step of the process is a step of each part, or leaves the part alone.
LEMMA StepOfParts ==
    ASSUME [Next]_vars
    PROVE  /\ StartStep \/ UNCHANGED startVars
           /\ TimerStep \/ UNCHANGED timerVars
           /\ FileStep \/ UNCHANGED fileVars
<1>1. CASE UNCHANGED vars
  BY <1>1 DEF vars, startVars, timerVars, fileVars
<1>2. CASE ~ Ended /\ DaemonStarts
  BY <1>2 DEF DaemonStarts, StartStep, TimerStep, OpenLoop
<1>3. ASSUME ~ Ended, NEW c \in Caller, Serves(c) \/ WakesUnasked(c)
      PROVE  /\ StartStep \/ UNCHANGED startVars
             /\ TimerStep \/ UNCHANGED timerVars
             /\ FileStep \/ UNCHANGED fileVars
  BY <1>3 DEF Ended, Serves, WakesUnasked, Starts, TaskCalls, Performs, Answers, StartStep, FileStep
<1>4. ASSUME ~ Ended, NEW t \in Timer, Times(t) \/ TaskClears(t)
      PROVE  /\ StartStep \/ UNCHANGED startVars
             /\ TimerStep \/ UNCHANGED timerVars
             /\ FileStep \/ UNCHANGED fileVars
  BY <1>4 DEF Times, TaskClears, TaskAsks, Handles, TimerStep
<1>5. CASE ~ Ended /\ (EndsCallback \/ Passes)
  BY <1>5 DEF Ended, EndsCallback, Passes, TimerStep, FileStep
<1> QED
  BY <1>1, <1>2, <1>3, <1>4, <1>5 DEF Next

-----------------------------------------------------------------------------
(* Startup. *)

Label == {"check", "lock", "createco", "construct", "spawn", "towait", "waiting",
          "machines", "unlock", "task", "done"}

Locked(c) == pc[c] \notin {"check", "lock", "task", "done"}

\* One caller at a time is in the locked part of go(), and it finds the scheduler
\* made exactly if it is past construct.
StartInv ==
    /\ made \in {0, 1} /\ mainCo \in BOOLEAN
    /\ machines \in [Slot -> Nat] /\ pc \in [Caller -> Label]
    /\ \A c, d \in Caller : Locked(c) /\ Locked(d) => c = d
    /\ \A c \in Caller : Locked(c) => mtx = c
    /\ \A c \in Caller : pc[c] \in {"createco", "construct"} => made = 0
    /\ \A c \in Caller : pc[c] \in {"spawn", "towait", "waiting", "machines", "unlock", "task"}
          => made = 1
    /\ \A c \in Caller : pc[c] = "construct" => mainCo
    /\ made = 1 => mainCo
    /\ \A i \in Slot : machines[i] <= made

LEMMA InitStart == StartInit => StartInv
<1> SUFFICES ASSUME StartInit PROVE StartInv
  OBVIOUS
<1>1. /\ pc \in [Caller -> Label] /\ machines \in [Slot -> Nat]
      /\ \A c \in Caller : pc[c] = "check"
      /\ \A i \in Slot : machines[i] = 0
  BY DEF StartInit, Label
<1>2. mainCo \in BOOLEAN
  BY Zenon DEF StartInit
<1>3. made = 0
  BY DEF StartInit
<1> QED
  BY <1>1, <1>2, <1>3 DEF StartInv, Locked

LEMMA StepStart ==
    ASSUME StartInv, StartStep \/ UNCHANGED startVars
    PROVE  StartInv'
<1> USE DEF StartInv, Locked, Label
<1>1. ASSUME NEW c \in Caller, Check(c) PROVE StartInv'
  BY <1>1 DEF Check, Step
<1>2. ASSUME NEW c \in Caller, LockAndCheck(c) PROVE StartInv'
  BY <1>2, NobodyAssumption DEF LockAndCheck, Step, CheckedAgain, Order
<1>3. ASSUME NEW c \in Caller, CreateCo(c) PROVE StartInv'
  BY <1>3 DEF CreateCo, Step, Order
<1>4. ASSUME NEW c \in Caller, Construct(c) PROVE StartInv'
  BY <1>4 DEF Construct, Step, Order
<1>5. ASSUME NEW c \in Caller, Spawn(c) PROVE StartInv'
  BY <1>5 DEF Spawn, Step
<1>6. ASSUME NEW c \in Caller, Wait(c) PROVE StartInv'
  BY <1>6 DEF Wait, Step, Waits
<1>7. ASSUME NEW c \in Caller, NewMachine(c) PROVE StartInv'
  BY <1>7 DEF NewMachine
<1>8. ASSUME NEW c \in Caller, InitDone(c) PROVE StartInv'
  BY <1>8 DEF InitDone, Step
<1>9. ASSUME NEW c \in Caller, Unlock(c) PROVE StartInv'
  BY <1>9 DEF Unlock, Step, Unlocked
<1>10. ASSUME NEW c \in Caller, Enqueue(c) PROVE StartInv'
  BY <1>10 DEF Enqueue, Step
<1>11. ASSUME NEW c \in Caller, RunTask(c) PROVE StartInv'
  BY <1>11 DEF RunTask
<1>12. CASE OpenLoop
  BY <1>12 DEF OpenLoop
<1>13. CASE Notify
  BY <1>13 DEF Notify
<1>14. ASSUME NEW c \in Caller, WaitReturns(c) PROVE StartInv'
  BY <1>14 DEF WaitReturns, Step
<1>15. CASE UNCHANGED startVars
  BY <1>15 DEF startVars
<1> QED
  BY <1>1, <1>2, <1>3, <1>4, <1>5, <1>6, <1>7, <1>8, <1>9, <1>10, <1>11, <1>12, <1>13, <1>14, <1>15
  DEF StartStep, Go

\* However many threads make the first call of go() at once, one scheduler and one
\* machine for each of its p's are made (scheduler.cpp:134-144).
THEOREM OneSchedulerAlways == Spec => []OneScheduler
<1>1. Init => StartInv
  BY InitStart DEF Init
<1>2. StartInv /\ [Next]_vars => StartInv'
  BY StepOfParts, StepStart
<1>3. StartInv => OneScheduler
  BY DEF StartInv, OneScheduler
<1> QED
  BY <1>1, <1>2, <1>3, PTL DEF Spec

\* No caller makes a task before _co is set, although sched is read without the lock
\* (scheduler.cpp:134-147).
THEOREM CoBeforeTasksAlways == Spec => []CoBeforeTasks
<1>1. Init => StartInv
  BY InitStart DEF Init
<1>2. StartInv /\ [Next]_vars => StartInv'
  BY StepOfParts, StepStart
<1>3. StartInv => CoBeforeTasks
  BY DEF StartInv, CoBeforeTasks
<1> QED
  BY <1>1, <1>2, <1>3, PTL DEF Spec

-----------------------------------------------------------------------------
(* Timer. *)

TimerType ==
    /\ adding \in [Timer -> {"none", "init", "data", "send", "done"}]
    /\ async \in [Timer -> [state : {"none", "open", "closing", "closed"}, data : Timer \cup {NoTimer}, pending : BOOLEAN]]
    /\ due \in [Timer -> [active : BOOLEAN, left : Nat, repeat : Nat]]
    /\ waited \in [Timer -> Nat] /\ fired \in [Timer -> BOOLEAN]
    /\ freed \subseteq Cleared

\* What is left of a timer's ms, and what has passed of them.
Timed(t) ==
    /\ async[t].state = "open" => adding[t] \notin {"none", "init"}
    /\ Kind[t] # "main" /\ due[t].active => adding[t] # "none"
    /\ Kind[t] # "main" /\ due[t].active /\ ~ fired[t] => due[t].left + waited[t] >= Ms[t]
    /\ waited[t] <= Ms[t]
    /\ Kind[t] # "main" /\ fired[t] => waited[t] = Ms[t]

TimerInv == TimerType /\ \A t \in Timer : Timed(t)

LEMMA InitTimer == TimerInit => TimerInv
<1> SUFFICES ASSUME TimerInit PROVE TimerInv
  OBVIOUS
<1>1. TimerType
  BY DEF TimerInit, TimerType
<1>2. \A t \in Timer : /\ async[t].state = "none" /\ ~ due[t].active
                       /\ waited[t] = 0 /\ ~ fired[t] /\ adding[t] = "none"
  BY DEF TimerInit
<1> QED
  BY <1>1, <1>2, MsAssumption DEF TimerInv, Timed

LEMMA StepTimer ==
    ASSUME TimerInv, TimerStep \/ UNCHANGED timerVars
    PROVE  TimerInv'
<1> USE KindAssumption, MsAssumption DEF TimerType
<1>1. ASSUME NEW t \in Timer, MainAdd(t) PROVE TimerInv'
  <2>1. TimerType'
    BY <1>1 DEF TimerInv, MainAdd, Start
  <2>2. ASSUME NEW u \in Timer PROVE Timed(u)'
    BY <1>1 DEF TimerInv, Timed, MainAdd, Start
  <2> QED
    BY <2>1, <2>2 DEF TimerInv
<1>2. ASSUME NEW t \in Timer, MainHandler(t) PROVE TimerInv'
  <2>1. TimerType'
    BY <1>2 DEF TimerInv, MainHandler, Start, Started, Stored
  <2>2. ASSUME NEW u \in Timer PROVE Timed(u)'
    BY <1>2 DEF TimerInv, Timed, MainHandler, Start, Started, Stored
  <2> QED
    BY <2>1, <2>2 DEF TimerInv
<1>3. ASSUME NEW t \in Timer, TimeCb(t) PROVE TimerInv'
  <2>3. (due[t].repeat > 0) \in BOOLEAN /\ due[t].repeat \in Nat
    BY DEF TimerInv
  <2>4. due' \in [Timer -> [active : BOOLEAN, left : Nat, repeat : Nat]]
    <3>1. ASSUME NEW b \in BOOLEAN
          PROVE  [due EXCEPT ![t].active = b, ![t].left = due[t].repeat]
                    \in [Timer -> [active : BOOLEAN, left : Nat, repeat : Nat]]
      <4>1. [due EXCEPT ![t].active = b] \in [Timer -> [active : BOOLEAN, left : Nat, repeat : Nat]]
        BY DEF TimerInv
      <4> QED
        BY <2>3, <4>1, Zenon
    <3> QED
      BY <1>3, <2>3, <3>1 DEF TimeCb
  <2>1. TimerType'
    BY <1>3, <2>4 DEF TimerInv, TimeCb
  <2>2. ASSUME NEW u \in Timer PROVE Timed(u)'
    BY <1>3 DEF TimerInv, Timed, TimeCb
  <2> QED
    BY <2>1, <2>2 DEF TimerInv
<1>4. ASSUME NEW t \in Timer, Clear(t) PROVE TimerInv'
  <2>1. TimerType'
    BY <1>4 DEF TimerInv, Clear
  <2>2. ASSUME NEW u \in Timer PROVE Timed(u)'
    BY <1>4 DEF TimerInv, Timed, Clear
  <2> QED
    BY <2>1, <2>2 DEF TimerInv
<1>5. ASSUME NEW t \in Timer, Kind[t] # "main", Ask(t) PROVE TimerInv'
  <2>1. adding' \in [Timer -> {"none", "init", "data", "send", "done"}]
    BY <1>5 DEF TimerInv, Ask, SetTimer, InitAsync, SetData, Send, Adds, Statements
  <2>2. async' \in [Timer -> [state : {"none", "open", "closing", "closed"}, data : Timer \cup {NoTimer}, pending : BOOLEAN]]
    <3>1. async[t] \in [state : {"none", "open", "closing", "closed"}, data : Timer \cup {NoTimer}, pending : BOOLEAN]
      BY DEF TimerInv
    <3>2. /\ [async[t] EXCEPT !.state = "open"] \in
                [state : {"none", "open", "closing", "closed"}, data : Timer \cup {NoTimer}, pending : BOOLEAN]
          /\ [async[t] EXCEPT !.data = t] \in
                [state : {"none", "open", "closing", "closed"}, data : Timer \cup {NoTimer}, pending : BOOLEAN]
          /\ [async[t] EXCEPT !.pending = TRUE] \in
                [state : {"none", "open", "closing", "closed"}, data : Timer \cup {NoTimer}, pending : BOOLEAN]
      BY <3>1
    <3> QED
      BY <1>5, <3>2 DEF TimerInv, Ask, SetTimer, InitAsync, SetData, Send
  <2>3. UNCHANGED <<due, waited, fired, freed, running>>
    BY <1>5 DEF Ask, SetTimer, InitAsync, SetData, Send, Adds
  <2>4. ASSUME NEW u \in Timer PROVE Timed(u)'
    <3>1. CASE SetTimer(t)
      BY <2>3, <3>1 DEF TimerInv, Timed, SetTimer, Adds, Statements
    <3>2. CASE InitAsync(t)
      BY <2>3, <3>2 DEF TimerInv, Timed, InitAsync, Adds, Statements
    <3>3. CASE SetData(t)
      BY <2>3, <3>3 DEF TimerInv, Timed, SetData, Adds, Statements
    <3>4. CASE Send(t)
      BY <2>3, <3>4 DEF TimerInv, Timed, Send, Adds, Statements
    <3> QED
      BY <1>5, <3>1, <3>2, <3>3, <3>4 DEF Ask
  <2> QED
    BY <2>1, <2>2, <2>3, <2>4 DEF TimerInv
<1>6. CASE CloseAfterTask
  <2>1. TimerType'
    <3>1. due' \in [Timer -> [active : BOOLEAN, left : Nat, repeat : Nat]]
      <4>1. [due[running] EXCEPT !.active = FALSE]
              \in [active : BOOLEAN, left : Nat, repeat : Nat] \/ running \notin Timer
        <5>1. CASE running \in Timer
          <6>1. due[running] \in [active : BOOLEAN, left : Nat, repeat : Nat]
            BY <5>1 DEF TimerInv, TimerType
          <6> QED
            BY <6>1
        <5> QED
          BY <5>1
      <4> QED
        BY <1>6, <4>1 DEF CloseAfterTask, TimerInv, TimerType
    <3> QED
      BY <1>6, <3>1 DEF CloseAfterTask, TimerInv, TimerType
  <2>2. ASSUME NEW u \in Timer PROVE Timed(u)'
    BY <1>6 DEF TimerInv, Timed, CloseAfterTask
  <2> QED
    BY <2>1, <2>2 DEF TimerInv
<1>7. CASE TimePasses
  <2>1. ASSUME NEW u \in Timer
        PROVE  /\ due'[u] \in [active : BOOLEAN, left : Nat, repeat : Nat]
               /\ due'[u].active = due[u].active
               /\ due'[u].left = IF due[u].left > 0 THEN due[u].left - 1 ELSE due[u].left
    BY <1>7 DEF TimerInv, TimePasses
  <2>2. due' \in [Timer -> [active : BOOLEAN, left : Nat, repeat : Nat]]
    BY <1>7, <2>1 DEF TimePasses
  <2>3. waited' \in [Timer -> Nat]
    BY <1>7 DEF TimerInv, TimePasses
  <2>4. UNCHANGED <<adding, async, fired, freed>>
    BY <1>7 DEF TimePasses
  <2>5. ASSUME NEW u \in Timer PROVE Timed(u)'
    <3>1. waited'[u] = IF Waiting(u) THEN waited[u] + 1 ELSE waited[u]
      BY <1>7 DEF TimePasses
    <3> QED
      BY <2>1, <2>4, <3>1 DEF TimerInv, Timed, Waiting
  <2> QED
    BY <2>2, <2>3, <2>4, <2>5 DEF TimerInv
<1>8. CASE EndIteration
  <2>1. ASSUME NEW u \in Timer
        PROVE  /\ async'[u] \in [state : {"none", "open", "closing", "closed"},
                                 data : Timer \cup {NoTimer}, pending : BOOLEAN]
               /\ async'[u].state = "open" => async[u].state = "open"
    <3>1. async[u] \in [state : {"none", "open", "closing", "closed"},
                        data : Timer \cup {NoTimer}, pending : BOOLEAN]
      BY DEF TimerInv
    <3> QED
      BY <1>8, <3>1 DEF EndIteration
  <2>2. async' \in [Timer -> [state : {"none", "open", "closing", "closed"},
                              data : Timer \cup {NoTimer}, pending : BOOLEAN]]
    BY <1>8, <2>1 DEF EndIteration
  <2>3. UNCHANGED <<adding, due, waited, fired, freed>>
    BY <1>8 DEF EndIteration
  <2> QED
    BY <2>1, <2>2, <2>3 DEF TimerInv, Timed
<1>9. CASE UseDeleted
  BY <1>9 DEF UseDeleted, TimerInv, Timed
<1>10. CASE UNCHANGED timerVars
  BY <1>10 DEF timerVars, TimerInv, Timed
<1> QED
  BY <1>1, <1>2, <1>3, <1>4, <1>5, <1>6, <1>7, <1>8, <1>9, <1>10 DEF TimerStep

\* No callback of setTimeout or setInterval runs before its ms are over, whoever
\* clears what (uv_timer.cpp:14, 26, 54-61).
THEOREM NeverEarly == Spec => []NotEarly
<1>1. Init => TimerInv
  BY InitTimer DEF Init
<1>2. TimerInv /\ [Next]_vars => TimerInv'
  BY StepOfParts, StepTimer
<1>3. TimerInv => NotEarly
  BY DEF TimerInv, Timed, NotEarly
<1> QED
  BY <1>1, <1>2, <1>3, PTL DEF Spec

-----------------------------------------------------------------------------
(* The lowest number of a set, which the kernel gives a new descriptor. *)

LEMMA LeastNat ==
    ASSUME NEW S \in SUBSET Nat, S # {}
    PROVE  \E n \in S : \A m \in S : n <= m
<1>1. PICK n \in S : \A m \in S : ~ (<<m, n>> \in OpToRel(<, Nat))
  BY NatLessThanWellFounded, WFMin, Zenon
<1>2. \A m \in S : ~ (m < n)
  BY <1>1, S \subseteq Nat DEF OpToRel
<1> QED
  BY <1>2

-----------------------------------------------------------------------------
(* FileIo. *)

\* A program uses a file between its open and its close.
UsesOpenFiles ==
    \A c \in Co : \A i \in 2 .. Len(Program[c]) :
        Program[c][i - 1] = "close" => Program[c][i] = "open"

\* It reads a file once, and at once.
ReadsFromStart ==
    \A c \in Co : \A i \in 2 .. Len(Program[c]) :
        Program[c][i] = "read" => Program[c][i - 1] = "open"

Place == {"run", "submitted", "performed", "look", "close0", "erase0", "close", "erase"}

\* The files that coroutines open.
Opened == Co \X (Nat \ {0})

CoType == [pc : Place, step : Nat, fd : Fd \cup {None}, file : Opened \cup {None}, ret : Int]
FileReq == [chunk : Int, result : Int, moved : Seq(Nat)]

FileType ==
    /\ kernel \in [Fd -> {None, Std} \cup Opened]
    /\ pos \in [Fd -> Nat]
    /\ cache \subseteq Fd /\ loop \in {None, 0}
    /\ co \in [Co -> CoType] /\ req \in [Co -> FileReq]

\* A coroutine is where its call takes it; it has a descriptor and a file once its first
\* open is answered.
Placed(c) ==
    /\ co[c].step <= Len(Program[c])
    /\ co[c].pc # "run" => co[c].step > 0
    /\ co[c].step = 0 => co[c].fd = None
    /\ co[c].pc \in {"submitted", "performed"} => Calling(c) \in {"open", "read", "write"}
    /\ co[c].pc \notin {"run", "submitted", "performed"} => Calling(c) = "close"
    /\ co[c].step > 0 /\ ~ (Calling(c) = "open" /\ co[c].pc # "run") =>
          co[c].fd # None /\ co[c].file \in {c} \X (Nat \ {0})

\* c has the file behind f, a descriptor other than 0.
Holds(c, f) ==
    /\ f # 0 /\ f = co[c].fd
    /\ \/ Calling(c) = "open" /\ co[c].pc = "run"
       \/ Calling(c) \in {"read", "write"}
       \/ Calling(c) = "close" /\ co[c].pc \in {"look", "close0", "erase0", "close"}

Receives(c, f) ==
    /\ f # 0 /\ f = req[c].result
    /\ Calling(c) = "open" /\ co[c].pc = "performed"

\* What the coroutine relies on, and what its fs::close has done.
Kept(c) ==
    /\ \A f \in Fd : Holds(c, f) => kernel[f] = co[c].file /\ f \in cache
    /\ \A f \in Fd : Receives(c, f) =>
          kernel[f] = co[c].file /\ co[c].file \in {c} \X (Nat \ {0})
    /\ Calling(c) = "open" /\ co[c].pc = "performed" =>
          req[c].result \in Fd \cup {-1} /\ co[c].file \in {c} \X (Nat \ {0})
    /\ co[c].pc = "erase" /\ co[c].fd # 0 => kernel[co[c].fd] = None
    /\ Calling(c) = "close" /\ co[c].pc \in {"erase", "run"} /\ co[c].fd # 0 =>
          \A f \in Fd : kernel[f] # co[c].file

\* A file is behind one descriptor, and its number is that of a call that has been made.
Numbered ==
    /\ \A f, g \in Fd : kernel[f] = kernel[g] /\ kernel[f] # None => f = g
    /\ \A f \in Fd, c \in Co, n \in Nat \ {0} : kernel[f] = <<c, n>> =>
          /\ n <= co[c].step
          /\ Calling(c) = "open" /\ co[c].pc = "submitted" => n < co[c].step

FileInv ==
    /\ FileType /\ Numbered
    /\ \A c \in Co : Placed(c) /\ Kept(c)

LEMMA LowestFree ==
    ASSUME NEW S \in SUBSET Fd, S # {}
    PROVE  Lowest(S) \in S
<1>1. S \subseteq Nat
  BY DEF Fd
<1>2. \E n \in S : \A m \in S : n <= m
  BY <1>1, LeastNat
<1> QED
  BY <1>2 DEF Lowest

LEMMA InitFile == FileInit => FileInv
<1> SUFFICES ASSUME FileInit PROVE FileInv
  OBVIOUS
<1>1. /\ \A f \in Fd : kernel[f] = IF f = 0 THEN Std ELSE None
      /\ \A c \in Co : co[c] = [pc |-> "run", step |-> 0, fd |-> None, file |-> None, ret |-> 0]
  BY DEF FileInit
<1>2. FileType
  <2>1. [chunk |-> 0, result |-> 0, moved |-> << >>] \in FileReq
    BY DEF FileReq
  <2>2. req \in [Co -> FileReq]
    BY <2>1 DEF FileInit, NewFile
  <2>3. co \in [Co -> CoType]
    BY DEF FileInit, Place, CoType
  <2> QED
    BY <2>2, <2>3 DEF FileInit, FileType
<1>3. ASSUME NEW c \in Co PROVE Calling(c) = "none" /\ co[c].pc = "run"
  BY <1>1, <1>3 DEF Calling
<1>4. Numbered
  BY <1>1, NoneAssumption DEF Numbered, Std
<1>5. ASSUME NEW c \in Co PROVE Placed(c)
  <2>1. Len(Program[c]) \in Nat
    BY ProgramAssumption
  <2> QED
    BY <1>1, <1>3, <2>1 DEF Placed
<1>6. ASSUME NEW c \in Co PROVE Kept(c)
  BY <1>3 DEF Kept, Holds, Receives
<1> QED
  BY <1>2, <1>4, <1>5, <1>6 DEF FileInv

\* What a coroutine relies on is a file of its own.
LEMMA HoldsOpen ==
    ASSUME FileInv, NEW e \in Co, NEW f \in Fd, Holds(e, f) \/ Receives(e, f)
    PROVE  kernel[f] \in {e} \X (Nat \ {0}) /\ kernel[f] # None
<1>1. CASE Receives(e, f)
  BY <1>1, NoneAssumption DEF FileInv, Kept
<1>2. CASE Holds(e, f)
  <2>1. co[e].step > 0 /\ ~ (Calling(e) = "open" /\ co[e].pc # "run")
    BY <1>2 DEF Holds, FileInv, FileType, CoType, Calling
  <2> QED
    BY <1>2, <2>1, NoneAssumption DEF FileInv, Kept, Placed
<1> QED
  BY <1>1, <1>2

\* Two coroutines do not rely on one descriptor.
LEMMA Apart ==
    ASSUME FileInv, NEW c \in Co, NEW d \in Co, NEW f \in Fd,
           Holds(c, f) \/ Receives(c, f), Holds(d, f) \/ Receives(d, f)
    PROVE  c = d
<1>1. kernel[f] \in {c} \X (Nat \ {0}) /\ kernel[f] \in {d} \X (Nat \ {0})
  BY HoldsOpen
<1> QED
  BY <1>1

\* What a step of c leaves true of another coroutine.
LEMMA Others ==
    ASSUME FileInv, NEW d \in Co, co'[d] = co[d], req'[d] = req[d],
           \A f \in Fd : Holds(d, f) \/ Receives(d, f) => kernel'[f] = kernel[f],
           \A f \in Fd : Holds(d, f) => f \in cache',
           \A f \in Fd : kernel'[f] # kernel[f] => kernel'[f] = None \/ kernel'[f] \notin {d} \X Nat,
           co[d].pc = "erase" /\ co[d].fd # 0 => kernel'[co[d].fd] = kernel[co[d].fd]
    PROVE  Placed(d)' /\ Kept(d)'
<1>1. Calling(d)' = Calling(d)
  BY DEF Calling
<1>2. /\ \A f : Holds(d, f)' <=> Holds(d, f)
      /\ \A f : Receives(d, f)' <=> Receives(d, f)
  BY <1>1 DEF Holds, Receives
<1>3. Placed(d)'
  BY <1>1 DEF FileInv, Placed
<1>4. /\ \A f \in Fd : Holds(d, f)' => kernel'[f] = co'[d].file /\ f \in cache'
      /\ \A f \in Fd : Receives(d, f)' =>
           kernel'[f] = co'[d].file /\ co'[d].file \in {d} \X (Nat \ {0})
      /\ Calling(d)' = "open" /\ co'[d].pc = "performed" =>
          req'[d].result \in Fd \cup {-1} /\ co'[d].file \in {d} \X (Nat \ {0})
      /\ co'[d].pc = "erase" /\ co'[d].fd # 0 => kernel'[co'[d].fd] = None
  BY <1>1, <1>2 DEF FileInv, Kept
<1>5. ASSUME Calling(d) = "close", co[d].pc \in {"erase", "run"}, co[d].fd # 0, NEW f \in Fd
      PROVE  kernel'[f] # co[d].file
  <2>1. co[d].file \in {d} \X (Nat \ {0})
    BY <1>5 DEF FileInv, FileType, CoType, Placed, Calling
  <2>2. kernel[f] # co[d].file
    BY <1>5 DEF FileInv, Kept
  <2>3. None \notin {d} \X Nat
    BY NoneAssumption
  <2> QED
    BY <2>1, <2>2, <2>3
<1> QED
  BY <1>1, <1>3, <1>4, <1>5 DEF Kept

\* What a step of c has to show.
LEMMA Combine ==
    ASSUME FileInv, NEW c \in Co, FileType', Numbered', Placed(c)', Kept(c)',
           \A d \in Co \ {c} :
              /\ co'[d] = co[d] /\ req'[d] = req[d]
              /\ \A f \in Fd : Holds(d, f) \/ Receives(d, f) => kernel'[f] = kernel[f]
              /\ \A f \in Fd : Holds(d, f) => f \in cache'
              /\ \A f \in Fd : kernel'[f] # kernel[f] => kernel'[f] = None \/ kernel'[f] \notin {d} \X Nat
              /\ co[d].pc = "erase" /\ co[d].fd # 0 => kernel'[co[d].fd] = kernel[co[d].fd]
    PROVE  FileInv'
<1>1. ASSUME NEW d \in Co \ {c} PROVE Placed(d)' /\ Kept(d)'
  BY Others
<1> QED
  BY <1>1 DEF FileInv

\* Nothing happens to a descriptor, and the entries stay.
LEMMA SameFiles ==
    ASSUME FileInv, NEW c \in Co, FileType', Placed(c)', Kept(c)',
           UNCHANGED kernel, cache \subseteq cache',
           \A d \in Co \ {c} : co'[d] = co[d] /\ req'[d] = req[d],
           co'[c].step >= co[c].step,
           Calling(c)' = "open" /\ co'[c].pc = "submitted" => co'[c].step > co[c].step
    PROVE  FileInv'
<1>1. Numbered'
  <2>1. \A d \in Co \ {c} : Calling(d)' = Calling(d)
    BY DEF Calling
  <2>2. \A d \in Co : co[d].step \in Nat /\ co'[d].step \in Nat
    BY DEF FileInv, FileType, CoType
  <2>3. \A f \in Fd, n \in Nat \ {0} : kernel[f] = <<c, n>> => n <= co[c].step
    BY DEF FileInv, Numbered
  <2>4. \A f \in Fd, n \in Nat \ {0} : kernel'[f] = <<c, n>> =>
          /\ n <= co'[c].step
          /\ Calling(c)' = "open" /\ co'[c].pc = "submitted" => n < co'[c].step
    BY <2>2, <2>3
  <2>5. \A d \in Co \ {c}, f \in Fd, n \in Nat \ {0} : kernel'[f] = <<d, n>> =>
          /\ n <= co'[d].step
          /\ Calling(d)' = "open" /\ co'[d].pc = "submitted" => n < co'[d].step
    BY <2>1 DEF FileInv, Numbered
  <2> QED
    BY <2>4, <2>5 DEF FileInv, Numbered
<1> QED
  BY <1>1, Combine DEF FileInv, Kept

\* The calls of c before and after the next one.
LEMMA NextCall ==
    ASSUME UsesOpenFiles, FileInv, NEW c \in Co, Call(c)
    PROVE  /\ Calling(c)' \in Op
           /\ Calling(c)' # "open" => co[c].step > 0 /\ Calling(c) \in {"open", "read", "write"}
           /\ co'[c] = [co[c] EXCEPT !.step = @ + 1,
                                     !.pc = IF Calling(c)' = "close" THEN "look" ELSE "submitted"]
<1> DEFINE n == co[c].step + 1
<1>7. co[c] \in CoType /\ Program[c] \in Seq(Op) /\ Len(Program[c]) \in Nat
  BY ProgramAssumption DEF FileInv, FileType
<1>1. co[c].step \in Nat /\ n \in 1 .. Len(Program[c]) /\ Program[c] \in Seq(Op)
  BY <1>7 DEF Call, CoType
<1>2. co'[c] = [co[c] EXCEPT !.step = n,
                             !.pc = IF Program[c][n] = "close" THEN "look" ELSE "submitted"]
  BY DEF Call, FileInv, FileType
<1>3. Calling(c)' = Program[c][n]
  BY <1>1, <1>2 DEF Calling, FileInv, FileType
<1>4. Program[c][n] \in Op
  BY <1>1
<1>5. ASSUME Program[c][n] # "open" PROVE co[c].step > 0
  BY <1>1, <1>5, ProgramAssumption
<1>6. ASSUME Program[c][n] # "open" PROVE Calling(c) \in {"open", "read", "write"}
  <2>1. n \in 2 .. Len(Program[c]) /\ n - 1 = co[c].step /\ Calling(c) = Program[c][n - 1]
    BY <1>1, <1>5, <1>6 DEF Calling
  <2>2. Program[c][n - 1] \in Op /\ Program[c][n - 1] # "close"
    BY <1>1, <1>6, <2>1 DEF UsesOpenFiles
  <2> QED
    BY <2>1, <2>2 DEF Op
<1> QED
  BY <1>2, <1>3, <1>4, <1>5, <1>6

LEMMA CallKeeps ==
    ASSUME UsesOpenFiles, FileInv, NEW c \in Co, Call(c)
    PROVE  FileInv'
<1>1. /\ co'[c].step = co[c].step + 1 /\ co[c].step \in Nat
      /\ co'[c].pc = IF Calling(c)' = "close" THEN "look" ELSE "submitted"
      /\ co'[c].fd = co[c].fd /\ co'[c].file = co[c].file
      /\ co[c].pc = "run" /\ co[c].step < Len(Program[c])
  <2>1. co[c] \in CoType
    BY DEF FileInv, FileType
  <2>2. co[c].pc = "run" /\ co[c].step < Len(Program[c])
    BY DEF Call
  <2> QED
    BY <2>1, <2>2, NextCall DEF CoType
<1>2. \A d \in Co \ {c} : co'[d] = co[d] /\ req'[d] = req[d]
  BY DEF Call, FileInv, FileType
<1>3. UNCHANGED <<kernel, pos, cache, loop, thrown>>
  BY DEF Call
<1>4. FileType'
  <2>1. co'[c] \in CoType
    <3>1. co[c] \in CoType
      BY DEF FileInv, FileType
    <3>2. PICK n \in Nat, p \in Place : co'[c] = [co[c] EXCEPT !.step = n, !.pc = p]
      <4> DEFINE p == IF Calling(c)' = "close" THEN "look" ELSE "submitted"
      <4>1. co[c].step + 1 \in Nat /\ p \in Place
        BY <3>1 DEF CoType, Place
      <4>2. co'[c] = [co[c] EXCEPT !.step = co[c].step + 1, !.pc = p]
        BY NextCall
      <4> HIDE DEF p
      <4> QED
        BY <4>1, <4>2
    <3> QED
      BY <3>1, <3>2 DEF CoType
  <2>2. NewFile \in FileReq
    BY DEF NewFile, FileReq
  <2>3. req' \in [Co -> FileReq]
    BY <2>2 DEF Call, FileInv, FileType
  <2>4. co' \in [Co -> CoType]
    BY <1>2, <2>1 DEF Call, FileInv, FileType
  <2> QED
    BY <1>3, <2>3, <2>4 DEF FileInv, FileType
<1>5. Calling(c)' \in {"open", "read", "write", "close"}
  BY NextCall DEF Op
<1>6. Calling(c)' # "open" => co[c].step > 0 /\ Calling(c) \in {"open", "read", "write"}
  BY NextCall
<1>7. Placed(c)'
  <2>1. Len(Program[c]) \in Nat
    BY ProgramAssumption
  <2> QED
    BY <1>1, <1>5, <1>6, <2>1 DEF FileInv, Placed
<1>8. Kept(c)'
  <2>1. \A f \in Fd : Holds(c, f)' => Holds(c, f)
    BY <1>1, <1>5, <1>6 DEF Holds
  <2> QED
    BY <1>1, <1>3, <1>5, <2>1 DEF FileInv, Kept, Receives
<1> QED
  BY <1>1, <1>2, <1>3, <1>4, <1>7, <1>8, SameFiles

\* Steps in which c stays in its call, and no descriptor is opened, closed or erased.
LEMMA InCallKeeps ==
    ASSUME FileInv, NEW c \in Co, FileType',
           UNCHANGED <<kernel, cache>>,
           \A d \in Co \ {c} : co'[d] = co[d] /\ req'[d] = req[d],
           co'[c].step = co[c].step, co'[c].fd = co[c].fd, co'[c].file = co[c].file,
           Calling(c) \in {"read", "write"}, co'[c].pc \in {"run", "submitted", "performed"}
    PROVE  FileInv'
<1>1. Calling(c)' = Calling(c)
  BY DEF Calling
<1>2. Placed(c)'
  <2>1. co[c].step > 0
    BY DEF Calling, FileInv, FileType, CoType
  <2> QED
    BY <1>1, <2>1 DEF FileInv, Placed
<1>3. Kept(c)'
  BY <1>1 DEF FileInv, Kept, Holds, Receives
<1>4. co[c].step \in Nat
  BY DEF FileInv, FileType, CoType
<1> QED
  BY <1>1, <1>2, <1>3, <1>4, SameFiles

LEMMA PerformOpenKeeps ==
    ASSUME ~ LateErase, FileInv, NEW c \in Co, PerformOpen(c)
    PROVE  FileInv'
<1> DEFINE free == {f \in Fd : kernel[f] = None}
           g == IF free = {} THEN -1 ELSE Lowest(free)
           file == <<c, co[c].step>>
<1>1. co[c] \in CoType /\ req[c] \in FileReq /\ co[c].pc = "submitted" /\ Calling(c) = "open"
  BY DEF FileInv, FileType, PerformOpen
<1>2. co[c].step \in Nat \ {0}
  BY <1>1 DEF CoType, FileInv, Placed
<1>3. file \in {c} \X (Nat \ {0}) /\ file \in Opened /\ file # None
  BY <1>2, NoneAssumption DEF Opened
<1>4. g \in Fd \cup {-1} /\ (g # -1 => g \in Fd /\ kernel[g] = None)
  <2>1. CASE free = {}
    BY <2>1
  <2>2. CASE free # {}
    BY <2>2, LowestFree
  <2> QED
    BY <2>1, <2>2
<1>5. -1 \notin Fd
  BY DEF Fd
<1>6. /\ kernel' = IF g = -1 THEN kernel ELSE [kernel EXCEPT ![g] = file]
      /\ pos' = IF g = -1 THEN pos ELSE [pos EXCEPT ![g] = 0]
      /\ req' = [req EXCEPT ![c].result = g]
      /\ co' = [co EXCEPT ![c].pc = "performed", ![c].file = file]
      /\ UNCHANGED <<cache, loop, thrown>>
  BY DEF PerformOpen
<1>7. /\ co'[c] = [co[c] EXCEPT !.pc = "performed", !.file = file]
      /\ req'[c] = [req[c] EXCEPT !.result = g]
      /\ \A d \in Co \ {c} : co'[d] = co[d] /\ req'[d] = req[d]
  BY <1>6 DEF FileInv, FileType
<1>8. co'[c].pc = "performed" /\ co'[c].file = file /\ co'[c].step = co[c].step /\ req'[c].result = g
  BY <1>1, <1>7 DEF CoType, FileReq
<1>9. Calling(c)' = "open"
  BY <1>1, <1>8 DEF Calling
<1>10. \A f \in Fd : kernel'[f] = IF g # -1 /\ f = g THEN file ELSE kernel[f]
  BY <1>4, <1>6 DEF FileInv, FileType
<1>11. FileType'
  <2>1. co'[c] \in CoType
    BY <1>1, <1>3, <1>7 DEF CoType, Place
  <2>2. req'[c] \in FileReq
    <3>1. g \in Int
      BY <1>4 DEF Fd
    <3> QED
      BY <1>1, <1>7, <3>1 DEF FileReq
  <2>3. co' \in [Co -> CoType] /\ req' \in [Co -> FileReq]
    BY <1>6, <1>7, <2>1, <2>2 DEF FileInv, FileType
  <2>4. kernel' \in [Fd -> {None, Std} \cup Opened]
    BY <1>3, <1>4, <1>6 DEF FileInv, FileType
  <2>5. pos' \in [Fd -> Nat]
    BY <1>4, <1>6 DEF FileInv, FileType
  <2> QED
    BY <1>6, <2>3, <2>4, <2>5 DEF FileInv, FileType
<1>12. Numbered'
  <2>1. \A f \in Fd : kernel[f] # file
    BY <1>1, <1>2 DEF FileInv, Numbered
  <2>2. \A f, h \in Fd : kernel'[f] = kernel'[h] /\ kernel'[f] # None => f = h
    BY <1>10, <2>1 DEF FileInv, Numbered
  <2>3. ASSUME NEW f \in Fd, NEW d \in Co, NEW n \in Nat \ {0}, kernel'[f] = <<d, n>>
        PROVE  /\ n <= co'[d].step
               /\ Calling(d)' = "open" /\ co'[d].pc = "submitted" => n < co'[d].step
    <3>1. CASE d = c
      <4>1. kernel'[f] = file => n = co[c].step
        BY <2>3, <3>1
      <4>2. kernel'[f] = kernel[f] => n <= co[c].step
        BY <2>3, <3>1 DEF FileInv, Numbered
      <4> QED
        BY <1>2, <1>8, <1>10, <3>1, <4>1, <4>2
    <3>2. CASE d # c
      <4>1. kernel[f] = <<d, n>> /\ co'[d] = co[d]
        BY <1>7, <1>10, <2>3, <3>2
      <4> QED
        BY <4>1 DEF FileInv, Numbered, Calling
    <3> QED
      BY <3>1, <3>2
  <2> QED
    BY <2>2, <2>3 DEF Numbered
<1>13. Placed(c)'
  BY <1>2, <1>8, <1>9 DEF FileInv, Placed
<1>14. Kept(c)'
  <2>1. \A f \in Fd : ~ Holds(c, f)'
    BY <1>8, <1>9 DEF Holds
  <2>2. \A f \in Fd : Receives(c, f)' => kernel'[f] = file
    BY <1>5, <1>8, <1>10 DEF Receives
  <2> QED
    BY <1>3, <1>4, <1>8, <1>9, <2>1, <2>2 DEF Kept
<1>15. ASSUME NEW d \in Co \ {c}
       PROVE  /\ co'[d] = co[d] /\ req'[d] = req[d]
              /\ \A f \in Fd : Holds(d, f) \/ Receives(d, f) => kernel'[f] = kernel[f]
              /\ \A f \in Fd : Holds(d, f) => f \in cache'
              /\ \A f \in Fd : kernel'[f] # kernel[f] => kernel'[f] = None \/ kernel'[f] \notin {d} \X Nat
              /\ co[d].pc = "erase" /\ co[d].fd # 0 => kernel'[co[d].fd] = kernel[co[d].fd]
  <2>1. ASSUME NEW f \in Fd, Holds(d, f) \/ Receives(d, f) PROVE kernel[f] # None
    BY <2>1, HoldsOpen
  <2>2. \A f \in Fd : Holds(d, f) => f \in cache'
    BY <1>6 DEF FileInv, Kept
  <2>3. co[d].pc # "erase"
    BY DEF PerformOpen, Erasing
  <2> QED
    BY <1>4, <1>7, <1>10, <2>1, <2>2, <2>3
<1> QED
  BY <1>11, <1>12, <1>13, <1>14, <1>15, Combine

\* How many blocks a request moves.
LEMMA MovesSome ==
    ASSUME FileInv, NEW c \in Co, co[c].fd # None
    PROVE  /\ Readable(c) \subseteq Int /\ Writable(c) \subseteq Int
           /\ \A n \in Readable(c) : n > 0 /\ kernel[co[c].fd] # Std => pos[co[c].fd] + n \in Nat
           /\ co[c].fd \in Fd
<1>1. co[c].fd \in Fd
  BY DEF FileInv, FileType, CoType
<1>2. pos[co[c].fd] \in Nat /\ Count \in Nat /\ FileLen \in Nat
  BY <1>1, BoundAssumption DEF FileInv, FileType
<1>3. Writable(c) \subseteq Int
  BY <1>2 DEF Writable
<1>4. Readable(c) \subseteq Int
  BY <1>2 DEF Readable
<1> QED
  BY <1>1, <1>2, <1>3, <1>4

LEMMA PerformReadKeeps ==
    ASSUME FileInv, NEW c \in Co, PerformRead(c)
    PROVE  FileInv'
<1>1. co[c] \in CoType /\ req[c] \in FileReq /\ co[c].pc = "submitted" /\ Calling(c) = "read"
  BY DEF FileInv, FileType, PerformRead
<1>2. co[c].fd # None
  BY <1>1 DEF CoType, FileInv, Placed
<1>3. PICK n \in Readable(c) :
        /\ req' = [req EXCEPT ![c].result = n]
        /\ pos' = IF n <= 0 \/ kernel[co[c].fd] = Std THEN pos
                  ELSE [pos EXCEPT ![co[c].fd] = @ + n]
  BY DEF PerformRead
<1>4. /\ co'[c] = [co[c] EXCEPT !.pc = "performed"]
      /\ req'[c] = [req[c] EXCEPT !.result = n]
      /\ \A d \in Co \ {c} : co'[d] = co[d] /\ req'[d] = req[d]
      /\ UNCHANGED <<kernel, cache, loop, thrown>>
  BY <1>3 DEF FileInv, FileType, PerformRead, Goto
<1>5. /\ co'[c].pc = "performed" /\ co'[c].step = co[c].step /\ co'[c].fd = co[c].fd
      /\ co'[c].file = co[c].file
  BY <1>1, <1>4 DEF CoType
<1>6. FileType'
  <2>1. /\ n \in Int /\ co[c].fd \in Fd
        /\ n > 0 /\ kernel[co[c].fd] # Std => pos[co[c].fd] + n \in Nat
    BY <1>2, MovesSome
  <2>2. co'[c] \in CoType /\ req'[c] \in FileReq
    BY <1>1, <1>4, <2>1 DEF CoType, FileReq, Place
  <2>3. co' \in [Co -> CoType] /\ req' \in [Co -> FileReq]
    BY <1>3, <1>4, <2>2 DEF FileInv, FileType, PerformRead, Goto
  <2>4. pos' \in [Fd -> Nat]
    BY <1>3, <2>1 DEF FileInv, FileType
  <2> QED
    BY <1>4, <2>3, <2>4 DEF FileInv, FileType
<1> QED
  BY <1>1, <1>4, <1>5, <1>6, InCallKeeps

LEMMA BlocksType ==
    ASSUME FileInv, NEW c \in Co, co[c].fd # None, NEW n \in Writable(c)
    PROVE  /\ Blocks(c, n) \in Seq(Nat)
           /\ n \in Nat /\ kernel[co[c].fd] = co[c].file => Len(Blocks(c, n)) = n
<1>1. n \in Nat \/ n = -1
  BY BoundAssumption DEF Writable
<1>2. PICK k \in Nat : 1 .. n = 1 .. k /\ (n \in Nat => k = n)
  <2>1. CASE n = -1
    <3>1. 1 .. n = 1 .. 0
      BY <2>1
    <3> QED
      BY <2>1, <3>1
  <2> QED
    BY <1>1, <2>1
<1>3. [i \in 1 .. k |-> i] \in Seq(Nat) /\ Len([i \in 1 .. k |-> i]) = k
  OBVIOUS
<1>4. [i \in 1 .. n |-> i] = [i \in 1 .. k |-> i]
  BY <1>2, Zenon
<1>5. << >> \in Seq(Nat)
  OBVIOUS
<1> QED
  BY <1>2, <1>3, <1>4, <1>5 DEF Blocks

LEMMA PerformWriteKeeps ==
    ASSUME FileInv, NEW c \in Co, PerformWrite(c)
    PROVE  FileInv'
<1>1. co[c] \in CoType /\ req[c] \in FileReq /\ co[c].pc = "submitted" /\ Calling(c) = "write"
  BY DEF FileInv, FileType, PerformWrite
<1>2. co[c].fd # None
  BY <1>1 DEF CoType, FileInv, Placed
<1>3. PICK n \in Writable(c) :
        req' = [req EXCEPT ![c].result = n, ![c].moved = @ \o Blocks(c, n)]
  BY DEF PerformWrite
<1> DEFINE w == req[c].moved \o Blocks(c, n)
<1>4. /\ co'[c] = [co[c] EXCEPT !.pc = "performed"]
      /\ req'[c] = [req[c] EXCEPT !.result = n, !.moved = w]
      /\ \A d \in Co \ {c} : co'[d] = co[d] /\ req'[d] = req[d]
      /\ UNCHANGED <<kernel, pos, cache, loop, thrown>>
  BY <1>3 DEF FileInv, FileType, PerformWrite, Goto
<1>5. /\ co'[c].pc = "performed" /\ co'[c].step = co[c].step /\ co'[c].fd = co[c].fd
      /\ co'[c].file = co[c].file
  BY <1>1, <1>4 DEF CoType
<1>6. FileType'
  <2>1. n \in Int
    BY <1>2, MovesSome
  <2>2. w \in Seq(Nat)
    <3>1. Blocks(c, n) \in Seq(Nat)
      BY <1>2, BlocksType
    <3> QED
      BY <1>1, <3>1 DEF FileReq
  <2> HIDE DEF w
  <2>3. co'[c] \in CoType /\ req'[c] \in FileReq
    BY <1>1, <1>4, <2>1, <2>2 DEF CoType, FileReq, Place
  <2>4. co' \in [Co -> CoType] /\ req' \in [Co -> FileReq]
    BY <1>3, <1>4, <2>3 DEF FileInv, FileType, PerformWrite, Goto
  <2> QED
    BY <1>4, <2>4 DEF FileInv, FileType
<1> QED
  BY <1>1, <1>4, <1>5, <1>6, InCallKeeps

\* What on_read and on_write do: an error, another request, or the end of the call, after
\* which the loop thread closes the descriptor 0 or nothing.
LEMMA MoveAnswered ==
    ASSUME FileInv, NEW c \in Co, OnRead(c) \/ OnWrite(c)
    PROVE  /\ co[c] \in CoType /\ req[c] \in FileReq
           /\ co[c].pc = "performed" /\ Calling(c) \in {"read", "write"}
           /\ UNCHANGED <<kernel, pos, cache>> /\ loop = None /\ loop' \in {None, 0}
           /\ \/ UNCHANGED <<co, req>>
              \/ /\ req' = [req EXCEPT ![c].chunk = Moved(c)]
                 /\ co' = [co EXCEPT ![c].pc = "submitted"]
              \/ \E r \in Int : co' = [co EXCEPT ![c].pc = "run", ![c].ret = r] /\ UNCHANGED req
<1>1. co[c] \in CoType /\ req[c] \in FileReq /\ req[c].chunk \in Int /\ Moved(c) \in Int
  BY DEF FileInv, FileType, FileReq, Moved
<1>2. loop = None
  BY DEF OnRead, OnWrite, Answering
<1>3. CASE OnRead(c)
  BY <1>1, <1>2, <1>3 DEF OnRead, Answering, Throw, Resubmit, Goto, AtEnd, ClosedResult
<1>4. CASE OnWrite(c)
  BY <1>1, <1>2, <1>4 DEF OnWrite, Answering, Throw, Resubmit, Goto
<1> QED
  BY <1>3, <1>4

LEMMA MoveAnsweredKeeps ==
    ASSUME FileInv, NEW c \in Co, OnRead(c) \/ OnWrite(c)
    PROVE  FileInv'
<1>1. /\ co[c] \in CoType /\ req[c] \in FileReq
      /\ co[c].pc = "performed" /\ Calling(c) \in {"read", "write"}
      /\ UNCHANGED <<kernel, pos, cache>> /\ loop' \in {None, 0}
  BY MoveAnswered
<1>2. \A d \in Co \ {c} : co'[d] = co[d] /\ req'[d] = req[d]
  <2>1. co \in [Co -> CoType] /\ req \in [Co -> FileReq]
    BY DEF FileInv, FileType
  <2>2. CASE UNCHANGED <<co, req>>
    BY <2>2
  <2>3. CASE /\ req' = [req EXCEPT ![c].chunk = Moved(c)]
             /\ co' = [co EXCEPT ![c].pc = "submitted"]
    BY <2>1, <2>3
  <2>4. CASE \E r \in Int : co' = [co EXCEPT ![c].pc = "run", ![c].ret = r] /\ UNCHANGED req
    BY <2>1, <2>4
  <2> QED
    BY <2>2, <2>3, <2>4, MoveAnswered
<1>3. PICK p \in {"performed", "submitted", "run"}, r \in Int :
        co'[c] = [co[c] EXCEPT !.pc = p, !.ret = r] /\ co' \in [Co -> CoType]
  <2>1. CASE UNCHANGED co
    <3>1. co'[c] = [co[c] EXCEPT !.pc = "performed", !.ret = co[c].ret] /\ co[c].ret \in Int
      BY <1>1, <2>1 DEF CoType
    <3> QED
      BY <2>1, <3>1 DEF FileInv, FileType, CoType
  <2>2. CASE co' = [co EXCEPT ![c].pc = "submitted"]
    <3>1. co'[c] = [co[c] EXCEPT !.pc = "submitted", !.ret = co[c].ret] /\ co[c].ret \in Int
      BY <1>1, <2>2 DEF CoType, FileInv, FileType
    <3>2. co'[c] \in CoType
      BY <1>1, <3>1 DEF CoType, Place
    <3> QED
      BY <2>2, <3>1, <3>2 DEF FileInv, FileType, CoType
  <2>3. ASSUME NEW r \in Int, co' = [co EXCEPT ![c].pc = "run", ![c].ret = r]
        PROVE  co'[c] = [co[c] EXCEPT !.pc = "run", !.ret = r] /\ co' \in [Co -> CoType]
    <3>1. co'[c] = [co[c] EXCEPT !.pc = "run", !.ret = r]
      BY <2>3 DEF FileInv, FileType
    <3>2. co'[c] \in CoType
      BY <1>1, <3>1 DEF CoType, Place
    <3> QED
      BY <2>3, <3>1, <3>2 DEF FileInv, FileType
  <2> QED
    BY <2>1, <2>2, <2>3, MoveAnswered DEF CoType
<1>4. /\ co'[c].pc \in {"run", "submitted", "performed"} /\ co'[c].step = co[c].step
      /\ co'[c].fd = co[c].fd /\ co'[c].file = co[c].file
  BY <1>1, <1>3 DEF CoType
<1>5. req' \in [Co -> FileReq]
  <2>1. [req[c] EXCEPT !.chunk = Moved(c)] \in FileReq
    BY <1>1 DEF FileReq, Moved
  <2>2. req \in [Co -> FileReq]
    BY DEF FileInv, FileType
  <2>3. UNCHANGED req \/ req' = [req EXCEPT ![c].chunk = Moved(c)]
    BY MoveAnswered
  <2> QED
    BY <2>1, <2>2, <2>3
<1>6. FileType'
  BY <1>1, <1>3, <1>5 DEF FileInv, FileType, CoType
<1> QED
  BY <1>1, <1>2, <1>4, <1>6, InCallKeeps

LEMMA Unchanged ==
    ASSUME FileInv, UNCHANGED <<kernel, pos, cache, loop, co, req>>
    PROVE  FileInv'
<1>1. \A c \in Co : Calling(c)' = Calling(c)
  BY DEF Calling
<1>2. FileType' /\ Numbered'
  BY <1>1 DEF FileInv, FileType, Numbered
<1>3. ASSUME NEW c \in Co PROVE Placed(c)' /\ Kept(c)'
  BY Others DEF FileInv, Kept
<1> QED
  BY <1>2, <1>3 DEF FileInv

LEMMA OnOpenKeeps ==
    ASSUME FileInv, NEW c \in Co, OnOpen(c)
    PROVE  FileInv'
<1> DEFINE f == req[c].result
<1>1. CASE f < 0
  BY <1>1, Unchanged DEF OnOpen, Throw
<1>2. CASE ~ (f < 0)
  <2>1. co[c] \in CoType /\ co[c].pc = "performed" /\ Calling(c) = "open"
    BY DEF OnOpen, Answering, FileInv, FileType
  <2>2. f \in Fd /\ co[c].file \in {c} \X (Nat \ {0}) /\ f # None /\ co[c].step > 0
    <3>1. f \in Fd \cup {-1} /\ co[c].file \in {c} \X (Nat \ {0}) /\ co[c].step > 0
      BY <2>1 DEF FileInv, Kept, Placed
    <3>2. f \in Fd
      BY <1>2, <3>1
    <3> QED
      BY <3>1, <3>2, NoneAssumption DEF Fd
  <2>3. /\ cache' = cache \cup {f} /\ UNCHANGED <<kernel, pos, loop, req, thrown>>
        /\ co' = [co EXCEPT ![c].pc = "run", ![c].fd = f]
    BY <1>2 DEF OnOpen, Cached
  <2>4. /\ co'[c] = [co[c] EXCEPT !.pc = "run", !.fd = f]
        /\ \A d \in Co \ {c} : co'[d] = co[d] /\ req'[d] = req[d]
    BY <2>3 DEF FileInv, FileType
  <2>5. /\ co'[c].pc = "run" /\ co'[c].fd = f /\ co'[c].step = co[c].step
        /\ co'[c].file = co[c].file /\ co'[c] \in CoType
    BY <2>1, <2>2, <2>4 DEF CoType, Place
  <2>6. Calling(c)' = "open"
    BY <2>1, <2>5 DEF Calling
  <2>7. FileType'
    <3>1. co' \in [Co -> CoType]
      BY <2>3, <2>5, <2>4 DEF FileInv, FileType
    <3> QED
      BY <2>2, <2>3, <3>1 DEF FileInv, FileType
  <2>8. Placed(c)'
    BY <2>2, <2>5, <2>6 DEF FileInv, Placed
  <2>9. Kept(c)'
    <3>1. ASSUME NEW g \in Fd, Holds(c, g)' PROVE kernel'[g] = co'[c].file /\ g \in cache'
      <4>1. Receives(c, g)
        BY <2>1, <2>5, <3>1 DEF Holds, Receives
      <4>2. kernel[g] = co[c].file
        BY <4>1 DEF FileInv, Kept
      <4> QED
        BY <2>3, <2>5, <3>1, <4>2 DEF Holds
    <3> QED
      BY <2>5, <2>6, <3>1 DEF Kept, Receives
  <2>10. /\ co'[c].step >= co[c].step /\ UNCHANGED kernel /\ cache \subseteq cache'
         /\ co'[c].pc # "submitted"
    BY <2>1, <2>3, <2>5 DEF CoType
  <2> QED
    BY <2>4, <2>7, <2>8, <2>9, <2>10, SameFiles
<1> QED
  BY <1>1, <1>2

\* A step of fs::close takes the coroutine to another place and changes nothing else of it.
LEMMA Goes ==
    ASSUME FileInv, NEW c \in Co, NEW p \in Place, Goto(c, p), UNCHANGED req
    PROVE  /\ co' \in [Co -> CoType]
           /\ co'[c].pc = p /\ co'[c].step = co[c].step /\ co'[c].fd = co[c].fd
           /\ co'[c].file = co[c].file
           /\ \A d \in Co \ {c} : co'[d] = co[d] /\ req'[d] = req[d]
           /\ \A d \in Co : Calling(d)' = Calling(d) /\ co'[d].step = co[d].step
<1>1. co[c] \in CoType /\ co'[c] = [co[c] EXCEPT !.pc = p]
  BY DEF FileInv, FileType, Goto
<1>2. co'[c] \in CoType
  BY <1>1 DEF CoType
<1>3. co' \in [Co -> CoType] /\ \A d \in Co \ {c} : co'[d] = co[d] /\ req'[d] = req[d]
  BY <1>2 DEF FileInv, FileType, Goto
<1>4. /\ co'[c].pc = p /\ co'[c].step = co[c].step /\ co'[c].fd = co[c].fd
      /\ co'[c].file = co[c].file
  BY <1>1 DEF CoType
<1>5. \A d \in Co : co'[d].step = co[d].step
  BY <1>3, <1>4
<1>6. \A d \in Co : Calling(d)' = Calling(d)
  BY <1>5 DEF Calling
<1> QED
  BY <1>3, <1>4, <1>5, <1>6

\* In a close the coroutine has a descriptor and a file.
LEMMA InClose ==
    ASSUME FileInv, NEW c \in Co, co[c].pc \in {"look", "close0", "erase0", "close", "erase"}
    PROVE  /\ Calling(c) = "close" /\ co[c].step > 0 /\ co[c].fd \in Fd /\ co[c].fd # None
           /\ co[c].file \in {c} \X (Nat \ {0})
           /\ co[c].pc # "erase" /\ co[c].fd # 0 => Holds(c, co[c].fd)
<1>1. co[c] \in CoType /\ co[c].step > 0 /\ Calling(c) = "close"
  BY DEF FileInv, FileType, Placed
<1>2. co[c].fd # None /\ co[c].file \in {c} \X (Nat \ {0}) /\ co[c].fd \in Fd
  BY <1>1 DEF FileInv, Placed, CoType
<1> QED
  BY <1>1, <1>2 DEF Holds

LEMMA LookKeeps ==
    ASSUME FileInv, NEW c \in Co, Look(c)
    PROVE  FileInv'
<1>1. co[c].pc = "look"
  BY DEF Look
<1>2. PICK p \in {"run", "close0", "close"} : Goto(c, p) /\ (p = "run" => co[c].fd \notin cache)
  BY DEF Look
<1>3. UNCHANGED <<kernel, pos, cache, loop, req, thrown>> /\ p \in Place
  BY DEF Look, Place
<1>4. FileType'
  BY <1>2, <1>3, Goes DEF FileInv, FileType
<1>5. Placed(c)'
  BY <1>1, <1>2, <1>3, Goes, InClose DEF FileInv, Placed
<1>6. p = "run" => co[c].fd = 0
  BY <1>1, <1>2, InClose DEF FileInv, Kept
<1>7. Kept(c)'
  <2>1. \A f \in Fd : Holds(c, f)' => Holds(c, f)
    BY <1>1, <1>2, <1>3, Goes, InClose DEF Holds
  <2> QED
    BY <1>1, <1>2, <1>3, <1>6, <2>1, Goes, InClose DEF FileInv, Kept, Receives
<1>8. co[c].step \in Nat
  BY DEF FileInv, FileType, CoType
<1> QED
  BY <1>1, <1>2, <1>3, <1>4, <1>5, <1>7, <1>8, Goes, InClose, SameFiles

\* A descriptor that is closed takes no number away.
LEMMA Released ==
    ASSUME FileInv, \A f \in Fd : kernel'[f] \in {kernel[f], None},
           \A c \in Co : /\ Calling(c)' = Calling(c) /\ co'[c].step = co[c].step
                         /\ co'[c].pc = "submitted" => co[c].pc = "submitted"
    PROVE  Numbered'
<1>1. ASSUME NEW f \in Fd, NEW c \in Co, NEW n \in Nat \ {0}, kernel'[f] = <<c, n>>
      PROVE  kernel[f] = <<c, n>>
  <2>1. <<c, n>> \in Co \X Int
    OBVIOUS
  <2> QED
    BY <1>1, <2>1, NoneAssumption
<1>2. \A f, g \in Fd : kernel'[f] = kernel'[g] /\ kernel'[f] # None => f = g
  BY DEF FileInv, Numbered
<1>3. ASSUME NEW f \in Fd, NEW c \in Co, NEW n \in Nat \ {0}, kernel'[f] = <<c, n>>
      PROVE  /\ n <= co'[c].step
             /\ Calling(c)' = "open" /\ co'[c].pc = "submitted" => n < co'[c].step
  <2>1. kernel[f] = <<c, n>>
    BY <1>1, <1>3
  <2> QED
    BY <2>1 DEF FileInv, Numbered
<1> QED
  BY <1>2, <1>3 DEF Numbered

LEMMA Close0Keeps ==
    ASSUME FileInv, NEW c \in Co, Close(c, "close0", 0, "erase0")
    PROVE  FileInv'
<1>1. /\ co[c].pc = "close0" /\ Goto(c, "erase0") /\ "erase0" \in Place
      /\ UNCHANGED <<pos, cache, loop, req, thrown>>
      /\ \A f \in Fd : kernel'[f] = IF f = 0 THEN None ELSE kernel[f]
      /\ kernel' \in [Fd -> {None, Std} \cup Opened]
  BY DEF Close, Place, FileInv, FileType
<1>2. FileType'
  BY <1>1, Goes DEF FileInv, FileType
<1>3. Numbered'
  BY <1>1, Goes, Released
<1>4. Placed(c)'
  BY <1>1, Goes, InClose DEF FileInv, Placed
<1>5. Kept(c)'
  <2>1. \A f \in Fd : Holds(c, f)' => Holds(c, f) /\ f # 0
    BY <1>1, Goes, InClose DEF Holds
  <2> QED
    BY <1>1, <2>1, Goes, InClose DEF FileInv, Kept, Receives
<1>6. ASSUME NEW d \in Co \ {c}
      PROVE  /\ co'[d] = co[d] /\ req'[d] = req[d]
             /\ \A f \in Fd : Holds(d, f) \/ Receives(d, f) => kernel'[f] = kernel[f]
             /\ \A f \in Fd : Holds(d, f) => f \in cache'
             /\ \A f \in Fd : kernel'[f] # kernel[f] => kernel'[f] = None \/ kernel'[f] \notin {d} \X Nat
             /\ co[d].pc = "erase" /\ co[d].fd # 0 => kernel'[co[d].fd] = kernel[co[d].fd]
  <2>1. \A f \in Fd : Holds(d, f) \/ Receives(d, f) => f # 0
    BY DEF Holds, Receives
  <2>2. co[d].pc = "erase" => co[d].fd \in Fd
    BY InClose
  <2>3. \A f \in Fd : Holds(d, f) => f \in cache
    BY DEF FileInv, Kept
  <2> QED
    BY <1>1, <2>1, <2>2, <2>3, Goes
<1> QED
  BY <1>2, <1>3, <1>4, <1>5, <1>6, Combine

LEMMA CloseFdKeeps ==
    ASSUME FileInv, NEW c \in Co, Close(c, "close", co[c].fd, "erase")
    PROVE  FileInv'
<1> DEFINE g == co[c].fd
<1>1. /\ co[c].pc = "close" /\ Goto(c, "erase") /\ "erase" \in Place
      /\ UNCHANGED <<pos, cache, loop, req, thrown>>
      /\ \A f \in Fd : kernel'[f] = IF f = g THEN None ELSE kernel[f]
      /\ kernel' \in [Fd -> {None, Std} \cup Opened]
  BY DEF Close, Place, FileInv, FileType
<1>2. FileType'
  BY <1>1, Goes DEF FileInv, FileType
<1>3. Numbered'
  BY <1>1, Goes, Released
<1>4. Placed(c)'
  BY <1>1, Goes, InClose DEF FileInv, Placed
<1>5. Kept(c)'
  <2>1. \A f \in Fd : ~ Holds(c, f)'
    BY <1>1, Goes, InClose DEF Holds
  <2>2. ASSUME g # 0, NEW f \in Fd PROVE kernel'[f] # co[c].file
    <3>1. kernel[g] = co[c].file /\ co[c].file # None /\ g \in Fd
      BY <1>1, <2>2, InClose, NoneAssumption DEF FileInv, Kept
    <3> QED
      BY <1>1, <3>1 DEF FileInv, Numbered
  <2> QED
    BY <1>1, <2>1, <2>2, Goes, InClose DEF FileInv, Kept, Receives
<1>6. ASSUME NEW d \in Co \ {c}
      PROVE  /\ co'[d] = co[d] /\ req'[d] = req[d]
             /\ \A f \in Fd : Holds(d, f) \/ Receives(d, f) => kernel'[f] = kernel[f]
             /\ \A f \in Fd : Holds(d, f) => f \in cache'
             /\ \A f \in Fd : kernel'[f] # kernel[f] => kernel'[f] = None \/ kernel'[f] \notin {d} \X Nat
             /\ co[d].pc = "erase" /\ co[d].fd # 0 => kernel'[co[d].fd] = kernel[co[d].fd]
  <2>1. ASSUME NEW f \in Fd, Holds(d, f) \/ Receives(d, f) PROVE f # g
    <3>1. f # 0
      BY <2>1 DEF Holds, Receives
    <3> QED
      BY <1>1, <2>1, <3>1, Apart, InClose
  <2>2. co[d].pc = "erase" /\ co[d].fd # 0 => co[d].fd \in Fd /\ kernel[co[d].fd] = None
    BY InClose DEF FileInv, Kept
  <2>3. \A f \in Fd : Holds(d, f) => f \in cache
    BY DEF FileInv, Kept
  <2> QED
    BY <1>1, <2>1, <2>2, <2>3, Goes
<1> QED
  BY <1>2, <1>3, <1>4, <1>5, <1>6, Combine

LEMMA EraseKeeps ==
    ASSUME FileInv, NEW c \in Co,
           Erase(c, "erase0", 0, "close") \/ Erase(c, "erase", co[c].fd, "run")
    PROVE  FileInv'
<1>1. PICK g \in {0, co[c].fd}, p \in {"close", "run"} :
        /\ Goto(c, p) /\ cache' = cache \ {g}
        /\ \/ p = "close" /\ g = 0 /\ co[c].pc = "erase0"
           \/ p = "run" /\ g = co[c].fd /\ co[c].pc = "erase"
  BY DEF Erase
<1>2. UNCHANGED <<kernel, pos, loop, req, thrown>> /\ p \in Place
  BY DEF Erase, Place
<1>3. FileType'
  BY <1>1, <1>2, Goes DEF FileInv, FileType
<1>4. Numbered'
  BY <1>1, <1>2, Goes, Released
<1>5. Placed(c)'
  BY <1>1, <1>2, Goes, InClose DEF FileInv, Placed
<1>6. Kept(c)'
  <2>1. \A f \in Fd : Holds(c, f)' => Holds(c, f) /\ f # g
    BY <1>1, <1>2, Goes, InClose DEF Holds
  <2> QED
    BY <1>1, <1>2, <2>1, Goes, InClose DEF FileInv, Kept, Receives
<1>7. ASSUME NEW d \in Co \ {c}
      PROVE  /\ co'[d] = co[d] /\ req'[d] = req[d]
             /\ \A f \in Fd : Holds(d, f) \/ Receives(d, f) => kernel'[f] = kernel[f]
             /\ \A f \in Fd : Holds(d, f) => f \in cache'
             /\ \A f \in Fd : kernel'[f] # kernel[f] => kernel'[f] = None \/ kernel'[f] \notin {d} \X Nat
             /\ co[d].pc = "erase" /\ co[d].fd # 0 => kernel'[co[d].fd] = kernel[co[d].fd]
  <2>1. ASSUME NEW f \in Fd, Holds(d, f) PROVE f # g
    <3>1. f # 0
      BY <2>1 DEF Holds
    <3>2. co[c].pc = "erase" /\ co[c].fd # 0 => kernel[co[c].fd] = None
      BY DEF FileInv, Kept
    <3>3. kernel[f] # None
      BY <2>1, HoldsOpen
    <3> QED
      BY <1>1, <3>1, <3>2, <3>3
  <2>2. \A f \in Fd : Holds(d, f) => f \in cache
    BY DEF FileInv, Kept
  <2> QED
    BY <1>1, <1>2, <2>1, <2>2, Goes
<1> QED
  BY <1>3, <1>4, <1>5, <1>6, <1>7, Combine

LEMMA LoopCloseKeeps ==
    ASSUME FileInv, LoopClose
    PROVE  FileInv'
<1>1. /\ \A f \in Fd : kernel'[f] = IF f = 0 THEN None ELSE kernel[f]
      /\ kernel' \in [Fd -> {None, Std} \cup Opened]
      /\ loop' = None /\ UNCHANGED <<pos, cache, co, req, thrown>>
  BY DEF LoopClose, FileInv, FileType
<1>2. \A c \in Co : Calling(c)' = Calling(c)
  BY <1>1 DEF Calling
<1>3. FileType'
  BY <1>1 DEF FileInv, FileType
<1>4. Numbered'
  BY <1>1, <1>2, Released
<1>5. ASSUME NEW d \in Co PROVE Placed(d)' /\ Kept(d)'
  <2>1. \A f \in Fd : Holds(d, f) \/ Receives(d, f) => f # 0
    BY DEF Holds, Receives
  <2>2. co[d].pc = "erase" => co[d].fd \in Fd
    BY InClose
  <2>3. \A f \in Fd : Holds(d, f) => f \in cache
    BY DEF FileInv, Kept
  <2> QED
    BY <1>1, <2>1, <2>2, <2>3, Others
<1> QED
  BY <1>3, <1>4, <1>5 DEF FileInv

LEMMA StepFile ==
    ASSUME ~ LateErase, UsesOpenFiles, FileInv, FileStep
    PROVE  FileInv'
<1>1. ASSUME NEW c \in Co, FsClose(c) PROVE FileInv'
  BY <1>1, LookKeeps, Close0Keeps, CloseFdKeeps, EraseKeeps DEF FsClose
<1>2. ASSUME NEW c \in Co, Perform(c) PROVE FileInv'
  BY <1>2, PerformOpenKeeps, PerformReadKeeps, PerformWriteKeeps DEF Perform
<1>3. ASSUME NEW c \in Co, Answer(c) PROVE FileInv'
  BY <1>3, OnOpenKeeps, MoveAnsweredKeeps DEF Answer
<1> QED
  BY <1>1, <1>2, <1>3, CallKeeps, LoopCloseKeeps DEF FileStep

\* What the invariant says of the two properties.
LEMMA FileInvSuffices == FileInv => FileKept /\ CloseCloses
<1> SUFFICES ASSUME FileInv PROVE FileKept /\ CloseCloses
  OBVIOUS
<1>1. ASSUME NEW c \in Co, HasFile(c) PROVE kernel[co[c].fd] = co[c].file
  <2>1. co[c] \in CoType /\ co[c].step > 0 /\ co[c].step <= Len(Program[c])
    BY <1>1 DEF HasFile, FileInv, FileType, Placed, CoType
  <2>2. Program[c] \in Seq(Op)
    BY ProgramAssumption
  <2>3. Calling(c) \in Op
    BY <2>1, <2>2 DEF Calling, CoType
  <2>4. co[c].fd \in Fd /\ Holds(c, co[c].fd)
    BY <1>1, <2>1, <2>3 DEF HasFile, Holds, Op, CoType
  <2> QED
    BY <2>4 DEF FileInv, Kept
<1>2. CloseCloses
  BY DEF CloseCloses, FileInv, Kept
<1> QED
  BY <1>1, <1>2 DEF FileKept

-----------------------------------------------------------------------------
(* How far a file has been read. *)

\* In a call that reads, what has been read is what its requests have answered; a file
\* that has been opened and not read yet is at its start.
Progress(c) ==
    /\ \A f \in Fd : Receives(c, f) => pos[f] = 0
    /\ \A f \in Fd : Holds(c, f) =>
          /\ Calling(c) = "open" => pos[f] = 0
          /\ Calling(c) = "read" /\ co[c].pc = "submitted" =>
                req[c].chunk = pos[f] /\ pos[f] <= FileLen
          /\ Calling(c) = "read" /\ co[c].pc = "performed" =>
                /\ req[c].result >= 0 /\ pos[f] = req[c].chunk + req[c].result
                /\ pos[f] <= FileLen
                /\ req[c].result = 0 => pos[f] = FileLen
          /\ Calling(c) = "read" /\ co[c].pc = "run" => co[c].ret = FileLen /\ pos[f] = FileLen

ReadInv == FileInv /\ \A c \in Co : Progress(c)

\* Another coroutine's call is where it was.
LEMMA ProgressOfOthers ==
    ASSUME NEW d \in Co, Progress(d), co'[d] = co[d], req'[d] = req[d],
           \A f \in Fd : Holds(d, f) \/ Receives(d, f) => pos'[f] = pos[f]
    PROVE  Progress(d)'
<1>1. Calling(d)' = Calling(d)
  BY DEF Calling
<1>2. \A f : (Holds(d, f)' <=> Holds(d, f)) /\ (Receives(d, f)' <=> Receives(d, f))
  BY <1>1 DEF Holds, Receives
<1> QED
  BY <1>1, <1>2 DEF Progress

\* A call other than open and read says nothing.
LEMMA NoProgress ==
    ASSUME NEW c \in Co, Calling(c)' \notin {"open", "read"}
    PROVE  Progress(c)'
BY DEF Progress, Receives

LEMMA CallProgress ==
    ASSUME UsesOpenFiles, ReadsFromStart, ReadInv, NEW c \in Co, Call(c)
    PROVE  Progress(c)'
<1>1. co[c] \in CoType /\ Program[c] \in Seq(Op) /\ Len(Program[c]) \in Nat
  BY ProgramAssumption DEF ReadInv, FileInv, FileType
<1>2. /\ co'[c].step = co[c].step + 1 /\ co[c].step \in Nat /\ co'[c].fd = co[c].fd
      /\ co'[c].pc = IF Calling(c)' = "close" THEN "look" ELSE "submitted"
  BY <1>1, NextCall DEF CoType, ReadInv
<1>3. UNCHANGED pos /\ req'[c].chunk = 0 /\ co[c].pc = "run"
  BY DEF Call, NewFile, ReadInv, FileInv, FileType
<1>4. CASE Calling(c)' = "read"
  <2>1. co[c].step > 0 /\ Calling(c) = "open"
    <3>1. co[c].step > 0
      BY <1>4, NextCall DEF ReadInv
    <3>2. co[c].step + 1 \in 2 .. Len(Program[c])
      BY <1>1, <1>2, <3>1 DEF Call
    <3>3. Program[c][co[c].step + 1] = "read"
      BY <1>2, <1>4 DEF Calling
    <3>4. Program[c][(co[c].step + 1) - 1] = "open"
      BY <3>2, <3>3 DEF ReadsFromStart
    <3> QED
      BY <1>2, <3>1, <3>4 DEF Calling
  <2>2. ASSUME NEW f \in Fd, Holds(c, f)' PROVE pos[f] = 0
    <3>1. Holds(c, f)
      BY <1>2, <1>3, <2>1, <2>2 DEF Holds
    <3> QED
      BY <2>1, <3>1 DEF ReadInv, Progress
  <2>3. \A f \in Fd : ~ Receives(c, f)'
    BY <1>4 DEF Receives
  <2> QED
    BY <1>2, <1>3, <1>4, <2>2, <2>3, BoundAssumption DEF Progress
<1>5. CASE Calling(c)' = "open"
  BY <1>2, <1>5 DEF Progress, Holds, Receives
<1> QED
  BY <1>4, <1>5, NoProgress

LEMMA PerformOpenProgress ==
    ASSUME ~ LateErase, ReadInv, NEW c \in Co, PerformOpen(c)
    PROVE  /\ Progress(c)'
           /\ \A d \in Co \ {c}, f \in Fd : Holds(d, f) \/ Receives(d, f) => pos'[f] = pos[f]
<1> DEFINE free == {f \in Fd : kernel[f] = None}
           g == IF free = {} THEN -1 ELSE Lowest(free)
<1>1. co[c] \in CoType /\ req[c] \in FileReq /\ co[c].pc = "submitted" /\ Calling(c) = "open"
  BY DEF ReadInv, FileInv, FileType, PerformOpen
<1>2. g = -1 \/ (g \in Fd /\ kernel[g] = None)
  BY LowestFree
<1>3. /\ pos' = IF g = -1 THEN pos ELSE [pos EXCEPT ![g] = 0]
      /\ req'[c].result = g /\ co'[c].pc = "performed" /\ co'[c].step = co[c].step
  BY <1>1 DEF PerformOpen, ReadInv, FileInv, FileType, CoType, FileReq
<1>4. \A f \in Fd : pos'[f] = IF g # -1 /\ f = g THEN 0 ELSE pos[f]
  BY <1>2, <1>3 DEF ReadInv, FileInv, FileType
<1>5. Calling(c)' = "open" /\ -1 \notin Fd
  BY <1>1, <1>3 DEF Calling, Fd
<1>6. Progress(c)'
  BY <1>3, <1>4, <1>5 DEF Progress, Holds, Receives
<1>7. ASSUME NEW d \in Co \ {c}, NEW f \in Fd, Holds(d, f) \/ Receives(d, f) PROVE pos'[f] = pos[f]
  <2>1. kernel[f] # None
    BY <1>7, HoldsOpen DEF ReadInv
  <2> QED
    BY <1>2, <1>4, <2>1
<1> QED
  BY <1>6, <1>7

LEMMA PerformReadProgress ==
    ASSUME ReadInv, NEW c \in Co, PerformRead(c)
    PROVE  /\ Progress(c)'
           /\ \A d \in Co \ {c}, f \in Fd : Holds(d, f) \/ Receives(d, f) => pos'[f] = pos[f]
<1> DEFINE g == co[c].fd
<1>1. co[c] \in CoType /\ req[c] \in FileReq /\ co[c].pc = "submitted" /\ Calling(c) = "read"
  BY DEF ReadInv, FileInv, FileType, PerformRead
<1>2. g # None /\ g \in Fd /\ pos[g] \in Nat
  BY <1>1, MovesSome DEF CoType, ReadInv, FileInv, FileType, Placed
<1>3. PICK n \in Readable(c) :
        /\ req' = [req EXCEPT ![c].result = n]
        /\ pos' = IF n <= 0 \/ kernel[g] = Std THEN pos ELSE [pos EXCEPT ![g] = @ + n]
  BY DEF PerformRead
<1>4. /\ req'[c].result = n /\ req'[c].chunk = req[c].chunk /\ n \in Int
      /\ co'[c].pc = "performed" /\ co'[c].step = co[c].step /\ co'[c].fd = g
      /\ Calling(c)' = "read"
  BY <1>1, <1>2, <1>3, MovesSome DEF PerformRead, Goto, ReadInv, FileInv, FileType, CoType, FileReq, Calling
<1>5. \A f \in Fd : pos'[f] = IF n <= 0 \/ kernel[g] = Std \/ f # g THEN pos[f] ELSE pos[f] + n
  BY <1>2, <1>3 DEF ReadInv, FileInv, FileType
<1>6. CASE g = 0
  <2>1. \A f \in Fd : ~ Holds(c, f)'
    BY <1>4, <1>6 DEF Holds
  <2>2. \A d \in Co \ {c}, f \in Fd : Holds(d, f) \/ Receives(d, f) => f # g
    BY <1>6 DEF Holds, Receives
  <2> QED
    BY <1>4, <1>5, <2>1, <2>2 DEF Progress, Receives
<1>7. CASE g # 0
  <2>1. Holds(c, g)
    BY <1>1, <1>7 DEF Holds
  <2>2. kernel[g] # None /\ kernel[g] # Std
    <3>1. kernel[g] \in {c} \X (Nat \ {0})
      BY <1>2, <2>1, HoldsOpen DEF ReadInv
    <3> QED
      BY <1>2, <2>1, <3>1, HoldsOpen DEF Std, ReadInv
  <2>3. pos[g] <= FileLen /\ req[c].chunk = pos[g]
    BY <1>1, <1>2, <2>1 DEF ReadInv, Progress
  <2>4. /\ n >= 0 /\ pos[g] + n <= FileLen
        /\ n = 0 => pos[g] = FileLen
    BY <1>2, <2>2, <2>3, BoundAssumption DEF Readable
  <2>5. pos'[g] = pos[g] + n
    BY <1>2, <1>4, <1>5, <2>2, <2>4
  <2>6. Progress(c)'
    BY <1>1, <1>2, <1>4, <2>3, <2>4, <2>5 DEF Progress, Receives, Holds
  <2>7. \A d \in Co \ {c}, f \in Fd : Holds(d, f) \/ Receives(d, f) => f # g
    BY <2>1, Apart DEF ReadInv
  <2> QED
    BY <1>5, <2>6, <2>7
<1> QED
  BY <1>6, <1>7

LEMMA OnReadProgress ==
    ASSUME ReadInv, NEW c \in Co, OnRead(c)
    PROVE  Progress(c)'
<1>1. /\ co[c] \in CoType /\ req[c] \in FileReq /\ co[c].pc = "performed" /\ Calling(c) = "read"
      /\ UNCHANGED pos
  BY MoveAnswered DEF OnRead, Answering, ReadInv
<1>2. /\ co'[c].fd = co[c].fd /\ Calling(c)' = "read"
      /\ \A f : Holds(c, f)' <=> Holds(c, f)
  <2>1. co'[c].fd = co[c].fd /\ co'[c].step = co[c].step
    BY <1>1 DEF OnRead, Throw, Resubmit, Goto, ReadInv, FileInv, FileType, CoType
  <2>2. Calling(c)' = "read"
    BY <1>1, <2>1 DEF Calling
  <2> QED
    BY <1>1, <2>1, <2>2 DEF Holds
<1>3. CASE req[c].result < 0
  BY <1>1, <1>2, <1>3 DEF OnRead, Throw, ReadInv, Progress, Receives
<1>4. CASE req[c].result = 0
  <2>1. co'[c].pc = "run" /\ co'[c].ret = req[c].chunk
    BY <1>1, <1>4 DEF OnRead, AtEnd, ReadInv, FileInv, FileType, CoType
  <2> QED
    BY <1>1, <1>2, <1>4, <2>1 DEF ReadInv, Progress, Receives, FileReq
<1>5. CASE req[c].result > 0
  <2>1. co'[c].pc = "submitted" /\ req'[c].chunk = req[c].chunk + req[c].result
    BY <1>1, <1>5 DEF OnRead, AtEnd, Resubmit, Goto, Moved, ReadInv, FileInv, FileType, CoType, FileReq
  <2> QED
    BY <1>1, <1>2, <2>1 DEF ReadInv, Progress, Receives
<1> QED
  BY <1>1, <1>3, <1>4, <1>5 DEF FileReq

LEMMA StepRead ==
    ASSUME ~ LateErase, UsesOpenFiles, ReadsFromStart, ReadInv, FileStep
    PROVE  ReadInv'
<1>1. FileInv'
  BY StepFile DEF ReadInv
<1>2. ASSUME NEW c \in Co, Progress(c)',
             \A d \in Co \ {c} : co'[d] = co[d] /\ req'[d] = req[d],
             \A d \in Co \ {c}, f \in Fd : Holds(d, f) \/ Receives(d, f) => pos'[f] = pos[f]
      PROVE  ReadInv'
  BY <1>1, <1>2, ProgressOfOthers DEF ReadInv
<1>3. ASSUME NEW c \in Co, Call(c) \/ FsClose(c) \/ Perform(c) \/ Answer(c)
      PROVE  \A d \in Co \ {c} : co'[d] = co[d] /\ req'[d] = req[d]
  <2>1. CASE Call(c) \/ FsClose(c)
    BY <2>1 DEF Call, FsClose, Look, Close, Erase, Goto, ReadInv, FileInv, FileType
  <2>2. CASE Perform(c)
    BY <2>2 DEF Perform, PerformOpen, PerformRead, PerformWrite, Goto, ReadInv, FileInv, FileType
  <2>3. CASE Answer(c)
    BY <2>3 DEF Answer, OnOpen, OnRead, OnWrite, Throw, Resubmit, Goto, ReadInv, FileInv, FileType
  <2> QED
    BY <1>3, <2>1, <2>2, <2>3
<1>4. ASSUME NEW c \in Co, Call(c) PROVE ReadInv'
  <2>1. UNCHANGED pos
    BY <1>4 DEF Call
  <2> QED
    BY <1>2, <1>3, <1>4, <2>1, CallProgress
<1>5. ASSUME NEW c \in Co, FsClose(c) PROVE ReadInv'
  <2>1. UNCHANGED pos /\ co[c].pc \in {"look", "close0", "erase0", "close", "erase"}
    BY <1>5 DEF FsClose, Look, Close, Erase
  <2>2. Calling(c)' = "close"
    <3>1. Calling(c) = "close"
      BY <2>1, InClose DEF ReadInv
    <3>2. co'[c].step = co[c].step
      BY <1>5 DEF FsClose, Look, Close, Erase, Goto, ReadInv, FileInv, FileType, CoType
    <3> QED
      BY <3>1, <3>2 DEF Calling
  <2> QED
    BY <1>2, <1>3, <1>5, <2>1, <2>2, NoProgress
<1>6. ASSUME NEW c \in Co, PerformWrite(c) \/ OnWrite(c) PROVE ReadInv'
  <2>1. UNCHANGED pos /\ Calling(c) = "write"
    BY <1>6 DEF PerformWrite, OnWrite, Answering, Throw, Resubmit
  <2>2. co'[c].step = co[c].step
    BY <1>6 DEF PerformWrite, OnWrite, Throw, Resubmit, Goto, ReadInv, FileInv, FileType, CoType
  <2>3. Calling(c)' = "write"
    BY <2>1, <2>2 DEF Calling
  <2> QED
    BY <1>2, <1>3, <1>6, <2>1, <2>3, NoProgress DEF Perform, Answer
<1>7. ASSUME NEW c \in Co, PerformOpen(c) \/ PerformRead(c) PROVE ReadInv'
  BY <1>2, <1>3, <1>7, PerformOpenProgress, PerformReadProgress DEF Perform
<1>8. ASSUME NEW c \in Co, OnRead(c) PROVE ReadInv'
  BY <1>2, <1>3, <1>8, OnReadProgress, MoveAnswered DEF Answer, ReadInv
<1>9. ASSUME NEW c \in Co, OnOpen(c) PROVE ReadInv'
  <2>1. UNCHANGED pos
    BY <1>9 DEF OnOpen, Throw
  <2>2. CASE req[c].result < 0
    <3>1. UNCHANGED <<co, req>>
      BY <1>9, <2>2 DEF OnOpen, Throw
    <3> QED
      BY <1>1, <2>1, <3>1, ProgressOfOthers DEF ReadInv
  <2>3. CASE ~ (req[c].result < 0)
    <3>1. /\ co[c] \in CoType /\ co[c].pc = "performed" /\ Calling(c) = "open"
          /\ co'[c].pc = "run" /\ co'[c].fd = req[c].result /\ co'[c].step = co[c].step
      BY <1>9, <2>3 DEF OnOpen, Answering, ReadInv, FileInv, FileType, CoType
    <3>2. Calling(c)' = "open"
      BY <3>1 DEF Calling
    <3>3. \A f \in Fd : Holds(c, f)' => Receives(c, f)
      BY <3>1 DEF Holds, Receives
    <3>4. Progress(c)'
      BY <2>1, <3>1, <3>2, <3>3 DEF ReadInv, Progress, Receives
    <3> QED
      BY <1>2, <1>3, <1>9, <2>1, <3>4 DEF Answer
  <2> QED
    BY <2>2, <2>3
<1>10. ASSUME LoopClose PROVE ReadInv'
  <2>1. UNCHANGED <<pos, co, req>>
    BY <1>10 DEF LoopClose
  <2> QED
    BY <1>1, <2>1, ProgressOfOthers DEF ReadInv
<1> QED
  BY <1>4, <1>5, <1>6, <1>7, <1>8, <1>9, <1>10 DEF FileStep, Perform, Answer

LEMMA InitRead == FileInit => ReadInv
<1> SUFFICES ASSUME FileInit PROVE ReadInv
  OBVIOUS
<1>1. \A c \in Co : Calling(c) = "none"
  BY DEF FileInit, Calling
<1> QED
  BY <1>1, InitFile DEF ReadInv, Progress, Holds, Receives

LEMMA ReadInvSuffices == ReadInv => ReadsAll
<1> SUFFICES ASSUME ReadInv, NEW c \in Co,
                    Calling(c) = "read", co[c].pc = "run", co[c].fd # 0
             PROVE  co[c].ret = FileLen /\ pos[co[c].fd] = FileLen
  BY DEF ReadsAll
<1>1. co[c].fd \in Fd
  BY DEF Calling, ReadInv, FileInv, FileType, Placed, CoType
<1> QED
  BY <1>1 DEF ReadInv, Progress, Holds

-----------------------------------------------------------------------------
(* What a write has given to its file.                                     *)

\* In a call that writes, the file has been given what the requests have answered.
Given(c) ==
    Calling(c) = "write" /\ co[c].fd # 0 =>
        /\ co[c].pc = "submitted" => Len(req[c].moved) = req[c].chunk
        /\ co[c].pc = "performed" => Len(req[c].moved) = req[c].chunk + req[c].result
        /\ co[c].pc = "run" => co[c].ret = Count /\ Len(req[c].moved) = Count

WriteInv == FileInv /\ \A c \in Co : Given(c)

\* Another coroutine's call is where it was.
LEMMA GivenByOthers ==
    ASSUME NEW d \in Co, Given(d), co'[d] = co[d], req'[d] = req[d]
    PROVE  Given(d)'
BY DEF Given, Calling

LEMMA InitWrite == FileInit => WriteInv
<1> SUFFICES ASSUME FileInit PROVE WriteInv
  OBVIOUS
<1>1. \A c \in Co : Calling(c) = "none"
  BY DEF FileInit, Calling
<1> QED
  BY <1>1, InitFile DEF WriteInv, Given

LEMMA PerformWriteGiven ==
    ASSUME WriteInv, NEW c \in Co, PerformWrite(c)
    PROVE  Given(c)'
<1>1. /\ co[c] \in CoType /\ req[c] \in FileReq /\ co[c].pc = "submitted"
      /\ Calling(c) = "write" /\ co[c].fd # None
  BY DEF WriteInv, FileInv, FileType, PerformWrite, CoType, Placed
<1>2. PICK n \in Writable(c) :
        req' = [req EXCEPT ![c].result = n, ![c].moved = @ \o Blocks(c, n)]
  BY DEF PerformWrite
<1>3. /\ req'[c].chunk = req[c].chunk /\ req'[c].result = n
      /\ req'[c].moved = req[c].moved \o Blocks(c, n)
      /\ co'[c].pc = "performed" /\ co'[c].fd = co[c].fd
  BY <1>1, <1>2 DEF PerformWrite, Goto, WriteInv, FileInv, FileType, CoType, FileReq
<1>4. CASE co[c].fd # 0
  <2>1. co[c].fd \in Fd /\ Holds(c, co[c].fd)
    BY <1>1, <1>4 DEF CoType, Holds
  <2>2. kernel[co[c].fd] = co[c].file /\ kernel[co[c].fd] # None
    BY <2>1, HoldsOpen DEF WriteInv, FileInv, Kept
  <2>3. n \in Nat
    BY <2>2, BoundAssumption DEF Writable
  <2>4. Blocks(c, n) \in Seq(Nat) /\ Len(Blocks(c, n)) = n
    BY <1>1, <2>2, <2>3, BlocksType DEF WriteInv
  <2>5. Len(req[c].moved) = req[c].chunk /\ req[c].moved \in Seq(Nat)
    BY <1>1, <1>4 DEF WriteInv, Given, FileReq
  <2>6. Len(req'[c].moved) = req'[c].chunk + req'[c].result
    <3>1. \A u, v \in Seq(Nat) : Len(u \o v) = Len(u) + Len(v)
      OBVIOUS
    <3>2. Len(req[c].moved \o Blocks(c, n)) = Len(req[c].moved) + Len(Blocks(c, n))
      BY <2>4, <2>5, <3>1
    <3> QED
      BY <1>3, <2>4, <2>5, <3>2
  <2> QED
    BY <1>3, <2>6 DEF Given
<1> QED
  BY <1>3, <1>4 DEF Given

LEMMA OnWriteGiven ==
    ASSUME WriteInv, NEW c \in Co, OnWrite(c)
    PROVE  Given(c)'
<1>1. co[c] \in CoType /\ req[c] \in FileReq /\ co[c].pc = "performed" /\ Calling(c) = "write"
  BY DEF OnWrite, Answering, WriteInv, FileInv, FileType
<1>2. co'[c].fd = co[c].fd
  BY <1>1 DEF OnWrite, Throw, Resubmit, Goto, WriteInv, FileInv, FileType, CoType
<1>3. co[c].fd # 0 => Len(req[c].moved) = req[c].chunk + req[c].result
  BY <1>1 DEF WriteInv, Given
<1>4. CASE req[c].result < 0
  BY <1>4, GivenByOthers DEF OnWrite, Throw, WriteInv
<1>5. CASE ~ (req[c].result < 0) /\ Written(Moved(c))
  <2>1. co'[c].pc = "run" /\ co'[c].ret = Moved(c) /\ req'[c] = req[c]
    BY <1>1, <1>5 DEF OnWrite, WriteInv, FileInv, FileType, CoType
  <2> QED
    BY <1>2, <1>3, <1>5, <2>1 DEF Given, Written, Moved
<1>6. CASE ~ (req[c].result < 0) /\ ~ Written(Moved(c))
  <2>1. /\ co'[c].pc = "submitted" /\ req'[c].chunk = Moved(c)
        /\ req'[c].moved = req[c].moved
    BY <1>1, <1>6 DEF OnWrite, Resubmit, Goto, WriteInv, FileInv, FileType, CoType, FileReq
  <2> QED
    BY <1>2, <1>3, <2>1 DEF Given, Moved
<1> QED
  BY <1>4, <1>5, <1>6

LEMMA CallGiven ==
    ASSUME WriteInv, NEW c \in Co, Call(c)
    PROVE  Given(c)'
<1>1. co'[c].pc \in {"look", "submitted"}
  BY DEF Call, WriteInv, FileInv, FileType, CoType
<1>2. req'[c].chunk = 0 /\ req'[c].moved = << >>
  BY DEF Call, NewFile, WriteInv, FileInv, FileType
<1> QED
  BY <1>1, <1>2 DEF Given

LEMMA StepWrite ==
    ASSUME ~ LateErase, UsesOpenFiles, WriteInv, FileStep
    PROVE  WriteInv'
<1>1. FileInv'
  BY StepFile DEF WriteInv
<1>2. ASSUME NEW c \in Co, Given(c)', Call(c) \/ FsClose(c) \/ Perform(c) \/ Answer(c)
      PROVE  WriteInv'
  <2>1. \A d \in Co \ {c} : co'[d] = co[d] /\ req'[d] = req[d]
    <3>1. CASE Call(c) \/ FsClose(c)
      BY <3>1 DEF Call, FsClose, Look, Close, Erase, Goto, WriteInv, FileInv, FileType
    <3>2. CASE Perform(c)
      BY <3>2 DEF Perform, PerformOpen, PerformRead, PerformWrite, Goto, WriteInv, FileInv, FileType
    <3>3. CASE Answer(c)
      BY <3>3 DEF Answer, OnOpen, OnRead, OnWrite, Throw, Resubmit, Goto, WriteInv, FileInv, FileType
    <3> QED
      BY <1>2, <3>1, <3>2, <3>3
  <2> QED
    BY <1>1, <1>2, <2>1, GivenByOthers DEF WriteInv
<1>3. ASSUME NEW c \in Co, Call(c) \/ PerformWrite(c) \/ OnWrite(c) PROVE WriteInv'
  BY <1>2, <1>3, CallGiven, PerformWriteGiven, OnWriteGiven DEF Perform, Answer
<1>4. ASSUME NEW c \in Co, FsClose(c) PROVE WriteInv'
  <2>1. Calling(c) = "close"
    <3>1. co[c].pc \in {"look", "close0", "erase0", "close", "erase"}
      BY <1>4 DEF FsClose, Look, Close, Erase
    <3> QED
      BY <3>1, InClose DEF WriteInv
  <2>2. co'[c].step = co[c].step
    BY <1>4 DEF FsClose, Look, Close, Erase, Goto, WriteInv, FileInv, FileType, CoType
  <2>3. Given(c)'
    BY <2>1, <2>2 DEF Given, Calling
  <2> QED
    BY <1>2, <1>4, <2>3
<1>5. ASSUME NEW c \in Co, PerformOpen(c) \/ PerformRead(c) \/ OnOpen(c) \/ OnRead(c) PROVE WriteInv'
  <2>1. Calling(c) \in {"open", "read"}
    BY <1>5 DEF PerformOpen, PerformRead, OnOpen, OnRead, Answering
  <2>2. co'[c].step = co[c].step
    <3>1. CASE PerformOpen(c) \/ PerformRead(c)
      BY <3>1 DEF PerformOpen, PerformRead, Goto, WriteInv, FileInv, FileType, CoType
    <3>2. CASE OnOpen(c) \/ OnRead(c)
      BY <3>2 DEF OnOpen, OnRead, Throw, Resubmit, Goto, WriteInv, FileInv, FileType, CoType
    <3> QED
      BY <1>5, <3>1, <3>2
  <2>3. Given(c)'
    BY <2>1, <2>2 DEF Given, Calling
  <2> QED
    BY <1>2, <1>5, <2>3 DEF Perform, Answer
<1>6. ASSUME LoopClose PROVE WriteInv'
  BY <1>1, <1>6, GivenByOthers DEF LoopClose, WriteInv
<1> QED
  BY <1>3, <1>4, <1>5, <1>6 DEF FileStep, Perform, Answer

LEMMA WriteInvSuffices == WriteInv => WritesAll
BY DEF WriteInv, Given, WritesAll

-----------------------------------------------------------------------------
(* The theorems about files.  UsesOpenFiles and ReadsFromStart are about    *)
(* the tasks, which libgco does not write; LateErase is what the schedule    *)
(* may do.  Writes may be partial in all of them.                            *)

\* An open file stays behind its descriptor until the coroutine that opened it closes
\* it, whatever the others open, read and close (uv_fs.cpp:25-43, 149-162), unless a
\* thread stops between the close and the erase of fs::close.
THEOREM FileKeptAlways == ~ LateErase /\ UsesOpenFiles => (Spec => []FileKept)
<1> SUFFICES ASSUME ~ LateErase, UsesOpenFiles PROVE Spec => []FileKept
  OBVIOUS
<1>1. Init => FileInv
  BY InitFile DEF Init
<1>2. FileInv /\ [Next]_vars => FileInv'
  BY StepOfParts, StepFile, Unchanged DEF fileVars
<1>3. FileInv => FileKept
  BY FileInvSuffices
<1> QED
  BY <1>1, <1>2, <1>3, PTL DEF Spec

\* When fs::close has returned, no descriptor refers to the file any more: it has found
\* the File that open put into cache_fd (uv_fs.cpp:149-162).
THEOREM CloseClosesAlways == ~ LateErase /\ UsesOpenFiles => (Spec => []CloseCloses)
<1> SUFFICES ASSUME ~ LateErase, UsesOpenFiles PROVE Spec => []CloseCloses
  OBVIOUS
<1>1. Init => FileInv
  BY InitFile DEF Init
<1>2. FileInv /\ [Next]_vars => FileInv'
  BY StepOfParts, StepFile, Unchanged DEF fileVars
<1>3. FileInv => CloseCloses
  BY FileInvSuffices
<1> QED
  BY <1>1, <1>2, <1>3, PTL DEF Spec

\* A read returns the length of its file, having read it to the end, in however many
\* requests on_read has made of it (uv_fs.cpp:46-76), if it is the first of the file.
THEOREM ReadsAllAlways ==
    ~ LateErase /\ UsesOpenFiles /\ ReadsFromStart => (Spec => []ReadsAll)
<1> SUFFICES ASSUME ~ LateErase, UsesOpenFiles, ReadsFromStart PROVE Spec => []ReadsAll
  OBVIOUS
<1>1. Init => ReadInv
  BY InitRead DEF Init
<1>2. ReadInv /\ UNCHANGED fileVars => ReadInv'
  BY Unchanged, ProgressOfOthers DEF ReadInv, fileVars
<1>3. ReadInv /\ [Next]_vars => ReadInv'
  BY <1>2, StepOfParts, StepRead
<1>4. ReadInv => ReadsAll
  BY ReadInvSuffices
<1> QED
  BY <1>1, <1>3, <1>4, PTL DEF Spec

\* A write returns when its file, and no other, has been given as many blocks as the call
\* asked for, in however many requests on_write has made of it (uv_fs.cpp:79-110).
THEOREM WritesAllAlways == ~ LateErase /\ UsesOpenFiles => (Spec => []WritesAll)
<1> SUFFICES ASSUME ~ LateErase, UsesOpenFiles PROVE Spec => []WritesAll
  OBVIOUS
<1>1. Init => WriteInv
  BY InitWrite DEF Init
<1>2. WriteInv /\ UNCHANGED fileVars => WriteInv'
  BY Unchanged, GivenByOthers DEF WriteInv, fileVars
<1>3. WriteInv /\ [Next]_vars => WriteInv'
  BY <1>2, StepOfParts, StepWrite
<1>4. WriteInv => WritesAll
  BY WriteInvSuffices
<1> QED
  BY <1>1, <1>3, <1>4, PTL DEF Spec
=============================================================================
