------------------------------ MODULE Startup ------------------------------
(***************************************************************************)
(* The first calls of go(): double-checked creation of the scheduler, its  *)
(* constructor and init, the thread background that opens libuv's loop,    *)
(* and the condition variable back_cond by which that thread lets init go  *)
(* on.  A step is what another thread can see: sched and _co are read      *)
(* without the lock.  How machines find tasks is the matter of Scheduler;  *)
(* here a machine that exists may run any task that is queued.             *)
(*                                                                         *)
(* EarlyNotify says whether a run's schedules may preempt init between     *)
(* pthread_create and the wait until background has notified.              *)
(***************************************************************************)
EXTENDS Naturals

CONSTANTS
    Caller,  \* threads that call go(), each once; also names their tasks
    Slot,    \* indices of local_tasks, p_count of them
    EarlyNotify,
    Nobody     \* nobody

ASSUME NotifyAssumption == EarlyNotify \in BOOLEAN
ASSUME NobodyAssumption == Nobody \notin Caller

VARIABLES
    made,      \* schedulers constructed; sched is null while there is none
    mainCo,    \* whether _co is set
    mtx,       \* the thread that holds sched_mtx
    daemon,    \* where background is
    machines,  \* how many machines have been created with local_tasks[i]
    queued,    \* tasks on a queue
    ran,       \* tasks that a machine has run
    pc

startVars == <<made, mainCo, mtx, daemon, machines, queued, ran, pc>>

StartInit ==
    /\ made = 0 /\ mainCo = FALSE /\ mtx = Nobody
    /\ daemon = "unborn"
    /\ machines = [i \in Slot |-> 0]
    /\ queued = {} /\ ran = {}
    /\ pc = [c \in Caller |-> "check"]

Step(c, from, to) == pc[c] = from /\ pc' = [pc EXCEPT ![c] = to]

\* if (sched == nullptr), without the lock.
Check(c) ==
    /\ Step(c, "check", IF made = 0 THEN "lock" ELSE "task")
    /\ UNCHANGED <<made, mainCo, mtx, daemon, machines, queued, ran>>

\* What a definition just before another one with the same parameters says, and
\* nothing uses, is a slip that the properties are checked to notice.

\* The statements under the lock, in the order of the code.
SchedFirst == [lock |-> "construct", construct |-> "createco", createco |-> "spawn"]
Order == [lock |-> "createco", createco |-> "construct", construct |-> "spawn"]

\* The same test with the lock, and where it leads.
NotChecked == Order.lock
CheckedAgain == IF made = 0 THEN Order.lock ELSE "unlock"

LockAndCheck(c) ==
    /\ Step(c, "lock", CheckedAgain)
    /\ mtx = Nobody /\ mtx' = c
    /\ UNCHANGED <<made, mainCo, daemon, machines, queued, ran>>

\* _co = aco_create(...).
CreateCo(c) ==
    /\ Step(c, "createco", Order.createco)
    /\ mainCo' = TRUE
    /\ UNCHANGED <<made, mtx, daemon, machines, queued, ran>>

\* sched = new scheduler(): the other callers see it before its init.
Construct(c) ==
    /\ Step(c, "construct", Order.construct)
    /\ made' = made + 1
    /\ UNCHANGED <<mainCo, mtx, daemon, machines, queued, ran>>

Spawn(c) ==
    /\ Step(c, "spawn", "towait")
    /\ daemon' = "start"
    /\ UNCHANGED <<made, mainCo, mtx, machines, queued, ran>>

\* back_cond.wait() begins.
Waits == "waiting"

Wait(c) ==
    /\ Step(c, "towait", Waits)
    /\ UNCHANGED <<made, mainCo, mtx, daemon, machines, queued, ran>>

\* condx::wait has no predicate, and pthread_cond_wait may return without a signal.
WaitReturns(c) ==
    /\ Step(c, "waiting", "machines")
    /\ UNCHANGED <<made, mainCo, mtx, daemon, machines, queued, ran>>

\* init: a machine, with a running thread, for every p.
NewMachine(c) ==
    /\ pc[c] = "machines"
    /\ \E i \in Slot : /\ machines[i] < made
                       /\ machines' = [machines EXCEPT ![i] = @ + 1]
    /\ UNCHANGED <<made, mainCo, mtx, daemon, queued, ran, pc>>

InitDone(c) ==
    /\ Step(c, "machines", "unlock")
    /\ \A i \in Slot : machines[i] = made
    /\ UNCHANGED <<made, mainCo, mtx, daemon, machines, queued, ran>>

KeptLocked == mtx
Unlocked == Nobody

Unlock(c) ==
    /\ Step(c, "unlock", "task")
    /\ mtx' = Unlocked
    /\ UNCHANGED <<made, mainCo, daemon, machines, queued, ran>>

\* The rest of go(): new task(_co, func), put on a queue.
Enqueue(c) ==
    /\ Step(c, "task", "done")
    /\ queued' = queued \cup {c}
    /\ UNCHANGED <<made, mainCo, mtx, daemon, machines, ran>>

\* background: start the timer of step_loop on the default loop ...
OpenLoop ==
    /\ daemon = "start"
    /\ daemon' = "opened"
    /\ UNCHANGED <<made, mainCo, mtx, machines, queued, ran, pc>>

\* ... notify, which reaches only a thread that waits already, and run the loop.
Notify ==
    /\ daemon = "opened"
    /\ EarlyNotify \/ \A c \in Caller : pc[c] # "towait"
    /\ daemon' = "loop"
    /\ pc' = [c \in Caller |-> IF pc[c] = "waiting" THEN "machines" ELSE pc[c]]
    /\ UNCHANGED <<made, mainCo, mtx, machines, queued, ran>>

RunTask(t) ==
    /\ \E i \in Slot : machines[i] > 0
    /\ t \in queued
    /\ queued' = queued \ {t}
    /\ ran' = ran \cup {t}
    /\ UNCHANGED <<made, mainCo, mtx, daemon, machines, pc>>

Go(c) ==
    \/ Check(c) \/ LockAndCheck(c) \/ CreateCo(c) \/ Construct(c) \/ Spawn(c)
    \/ Wait(c) \/ NewMachine(c) \/ InitDone(c) \/ Unlock(c) \/ Enqueue(c)

-----------------------------------------------------------------------------
(* Properties. *)

\* However many threads make the first call at once, there is one scheduler, and
\* one machine for each of its p's.
OneScheduler == made <= 1 /\ \A i \in Slot : machines[i] <= 1

\* A caller that finds sched set, without the lock and perhaps before init is over,
\* finds _co set too: its task would else be a main coroutine.
CoBeforeTasks == \A c \in Caller : pc[c] = "task" => mainCo

\* What scheduler.cpp:100 says that its wait is for: no machine runs before background
\* has opened the loop, which setTimeout and the file calls would open else.  A wait
\* that returns without a signal breaks it, so no run claims it.
LoopBeforeMachines == (\E i \in Slot : machines[i] > 0) => daemon = "loop"
=============================================================================
