----------------------------- MODULE Scheduler -----------------------------
(***************************************************************************)
(* The g|m|p scheduler of libgco: tasks (task.cpp), the machines that run  *)
(* them (machine.cpp: m_loop, get_task, work_stealing), the queues p they  *)
(* are bound to, and scheduler.cpp's go, join and step_loop, which the     *)
(* main thread and the libuv thread call.  Every pop, push, len, wake-up   *)
(* and store of a machine's state is a step of its own wherever another    *)
(* thread can see the state in between.                                    *)
(*                                                                         *)
(* Windows names the preemption points that the schedules of a run may     *)
(* use; the program is the same whatever its value:                        *)
(*   "pop"    between reading head->next and storing head in mlist::pop,   *)
(*            which takes no lock (mlist.h:57-66);                         *)
(*   "park"   between m_idle.push(local_m) and pthread_cond_wait           *)
(*            (machine.cpp:224-226);                                       *)
(*   "bind"   between waking or creating a machine and storing its state   *)
(*            in join (scheduler.cpp:115-121);                             *)
(*   "early"  between starting an asynchronous call and the machine        *)
(*            letting go of the coroutine that yields (co_io.cpp:38-48).   *)
(***************************************************************************)
EXTENDS ListOps, Integers, FiniteSets

CONSTANTS
    Task,          \* coroutines the main thread will pass to go()
    P,             \* scheduler::local_tasks; p_count is their number
    Machine,       \* the machines there can ever be (bounds new machine)
    Main, Daemon,  \* the thread that calls go() and the libuv loop thread
    None,          \* nullptr
    Boot,          \* the machine that scheduler::init creates for each p
    Program,       \* what each coroutine calls before it returns
    MaxQueueLen,   \* max_queue_len, 8 in the code
    StealRounds,   \* rounds of stealing in get_task, 4 in the code
    MaxSpurious,   \* bound on spurious returns of pthread_cond_wait
    Windows

Op == {"yield", "sleep", "syscall"}
Caller == {Main, Daemon}
Thread == Machine \cup Caller

ASSUME SetAssumption ==
    /\ IsFiniteSet(P) /\ P # {}
    /\ Main # Daemon /\ Main \notin Machine /\ Daemon \notin Machine
    /\ None \notin P \cup Task \cup Thread
    /\ P \cap {"global", "p_idle", "m_idle"} = {}
ASSUME BootAssumption ==
    /\ Boot \in [P -> Machine]
    /\ \A q, r \in P : Boot[q] = Boot[r] => q = r
ASSUME ProgramAssumption == Program \in [Task -> Seq(Op)]
ASSUME BoundAssumption ==
    /\ MaxQueueLen \in Nat \ {0}
    /\ StealRounds \in Nat \ {0}
    /\ MaxSpurious \in Nat
    /\ Windows \subseteq {"pop", "park", "bind", "early"}

VARIABLES
    global,  \* scheduler::global_tasks
    local,   \* scheduler::local_tasks
    pIdle,   \* scheduler::p_idle
    mIdle,   \* scheduler::m_idle
    thief,   \* thief_work_len
    mp,      \* machine::p
    mco,     \* machine::co
    mst,     \* machine::state
    reg,     \* the loop variables of get_task and work_stealing
    tst,     \* task::state
    pos,     \* calls of its Program a task has made
    on,      \* machines on whose thread the coroutine is executing
    pend,    \* tasks whose asynchronous call the loop has not answered
    todo,    \* tasks the main thread has not passed to go() yet
    arg,     \* the co and p of the go() or step_loop in progress
    late,    \* the machine whose state store in join is still to come
    snap,    \* what a pop under way has read: its list, head and head->next
    spur,    \* spurious wake-ups so far
    pc

lists == <<global, local, pIdle, mIdle>>
machs == <<mp, mco, mst, reg, thief, spur>>
tasks == <<tst, pos, on, pend>>
calls == <<todo, arg, late>>
vars  == <<lists, machs, tasks, calls, snap, pc>>

\* Here and below, a definition directly before another with the same
\* parameters, which nothing uses, is the same code with a plausible slip: an
\* assignment forgotten, a test dropped, an index off by one.  The properties
\* are checked to notice it.

\* Turns left of a loop of pops, whether one of them found a task, rounds of
\* stealing left, p's left to try in this round, and the one being robbed.
Registers ==
    [n : Nat, hit : {0, 1}, rounds : Nat, left : SUBSET P, vict : P \cup {None}]

NoLoop == [n |-> 0, hit |-> 0, rounds |-> 0, left |-> {}, vict |-> None]

(***************************************************************************)
(* scheduler::init has created one machine for every p, bound to it; the   *)
(* loop thread runs; nothing has been passed to go() yet.                  *)
(***************************************************************************)
Booted == {Boot[q] : q \in P}

Init ==
    /\ global = EmptyList
    /\ local = [q \in P |-> EmptyList]
    /\ pIdle = EmptyList
    /\ mIdle = EmptyList
    /\ thief = 0
    /\ mp = [m \in Machine |->
                IF m \in Booted THEN CHOOSE q \in P : Boot[q] = m ELSE None]
    /\ mco = [m \in Machine |-> None]
    /\ mst = [m \in Machine |-> "start"]
    /\ reg = [m \in Machine |-> NoLoop]
    /\ tst = [t \in Task |-> "actived"]
    /\ pos = [t \in Task |-> 0]
    /\ on = [t \in Task |-> {}]
    /\ pend = {}
    /\ todo = Task
    /\ arg = [c \in Caller |-> [co |-> None, p |-> None]]
    /\ late = [t \in Thread |-> None]
    /\ snap = [t \in Thread |-> None]
    /\ spur = 0
    /\ pc = [t \in Thread |->
                IF t \in Caller THEN "idle"
                ELSE IF t \in Booted THEN "loop" ELSE "unborn"]

(***************************************************************************)
(* mlist::pop in two halves.  PopBegin reads head and head->next and is a  *)
(* step only when the window is open; the caller's action does the rest:   *)
(* Taken is the element it gets, None if head was nullptr, Rest the list   *)
(* it leaves.                                                              *)
(***************************************************************************)
Split == "pop" \in Windows

\* The list that thread t is popping, or is about to pop.
Target(t) ==
    IF snap[t] # None THEN snap[t].list
    ELSE CASE pc[t] \in {"gopop", "wake", "unblock"}     -> "p_idle"
           [] pc[t] \in {"gojoin", "wakejoin", "freeze"} -> "m_idle"
           [] pc[t] = "drain"                            -> "global"
           [] pc[t] = "stealpop"                         -> reg[t].vict
           [] pc[t] = "loop" /\ mp[t] = None             -> "p_idle"
           [] pc[t] = "loop" /\ mp[t] # None             -> mp[t]

ListAt(name) ==
    CASE name = "p_idle" -> pIdle
      [] name = "m_idle" -> mIdle
      [] name = "global" -> global
      [] OTHER           -> local[name]

AtPop(t) ==
    \/ pc[t] \in {"gopop", "wake", "unblock", "gojoin", "wakejoin", "freeze",
                  "drain", "stealpop"}
    \/ pc[t] = "loop" /\ mco[t] = None

PopBegin(t) ==
    /\ Split
    /\ AtPop(t)
    /\ snap[t] = None
    /\ LET l == ListAt(Target(t))
       IN snap' = [snap EXCEPT ![t] = [list |-> Target(t), head |-> l.head,
                                       next |-> NextNode(l, l.head)]]
    /\ UNCHANGED <<lists, machs, tasks, calls, pc>>

HasRead(t) == Split => snap[t] # None

First(t, l) == IF Split THEN snap[t].head ELSE l.head

Taken(t, l) == IF First(t, l) = 0 THEN None ELSE l.log[First(t, l)]

Rest(t, l) ==
    IF First(t, l) = 0 THEN l
    ELSE IF Split THEN StoreHead(l, snap[t].next)
    ELSE ListPop(l)

PopDone(t) == snap' = [snap EXCEPT ![t] = None]

(***************************************************************************)
(* scheduler::join(q): bind q to a machine from m_idle and wake it, or to  *)
(* a new machine; then store its state.  Signalling a machine that is not  *)
(* in pthread_cond_wait does nothing.  Thread t goes on at next.           *)
(***************************************************************************)
Bind(t, m, q, label, next) ==
    /\ mp' = [mp EXCEPT ![m] = q]
    /\ pc' = [pc EXCEPT ![m] = label, ![t] = next]
    /\ IF "bind" \in Windows
       THEN late' = [late EXCEPT ![t] = m] /\ UNCHANGED mst
       ELSE mst' = [mst EXCEPT ![m] = "start"] /\ UNCHANGED late

\* m->wakeup(): where a machine that was at label l goes on.
WokenNot(l) == l
Woken(l) == IF l = "waiting" THEN "loop" ELSE l

Join(t, q, next) ==
    /\ HasRead(t)
    /\ PopDone(t)
    /\ mIdle' = Rest(t, mIdle)
    /\ IF Taken(t, mIdle) # None
       THEN LET m == Taken(t, mIdle)
            IN /\ "park" \in Windows \/ pc[m] # "towait"
               /\ Bind(t, m, q, Woken(pc[m]), next)
       ELSE \E m \in Machine : /\ pc[m] = "unborn"
                               /\ Bind(t, m, q, "loop", next)
    /\ UNCHANGED <<global, local, pIdle, mco, reg, thief, spur, tasks, todo, arg>>

\* m->state = M_STATE::start in join, after m may already be running.
JoinStore(t) ==
    /\ late[t] # None
    /\ mst' = [mst EXCEPT ![late[t]] = "start"]
    /\ late' = [late EXCEPT ![t] = None]
    /\ UNCHANGED <<lists, mp, mco, reg, thief, spur, tasks, todo, arg, snap, pc>>

-----------------------------------------------------------------------------
(* m_loop with nothing to run: get a p, then a task. *)

\* p_idle.pop(local_m->p) and join(p, local_m); with no p, goto Stop.
WithP(q) == IF q = None THEN "stop" ELSE "loop"

TakeP(m) ==
    /\ pc[m] = "loop" /\ mco[m] = None /\ Target(m) = "p_idle"
    /\ HasRead(m)
    /\ PopDone(m)
    /\ pIdle' = Rest(m, pIdle)
    /\ mp' = [mp EXCEPT ![m] = Taken(m, pIdle)]
    /\ mst' = IF Taken(m, pIdle) = None THEN mst ELSE [mst EXCEPT ![m] = "start"]
    /\ pc' = [pc EXCEPT ![m] = WithP(Taken(m, pIdle))]
    /\ UNCHANGED <<global, local, mIdle, mco, reg, thief, spur, tasks, calls>>

\* get_task: this->p->pop(co).
GetLocal(m) ==
    /\ pc[m] = "loop" /\ mco[m] = None /\ Target(m) \in P
    /\ HasRead(m)
    /\ PopDone(m)
    /\ LET q == Target(m)
       IN /\ local' = [local EXCEPT ![q] = Rest(m, @)]
          /\ mco' = [mco EXCEPT ![m] = Taken(m, local[q])]
          /\ pc' = [pc EXCEPT ![m] = IF Taken(m, local[q]) = None THEN "global" ELSE "loop"]
    /\ UNCHANGED <<global, pIdle, mIdle, mp, mst, reg, thief, spur, tasks, calls>>

\* get_task: if global_tasks is not empty, max_queue_len pops of it.
DrainTurnsOneMore == [NoLoop EXCEPT !.n = MaxQueueLen + 1]
DrainTurns == [NoLoop EXCEPT !.n = MaxQueueLen]

LookGlobal(m) ==
    /\ pc[m] = "global"
    /\ IF ListLen(global) # 0
       THEN /\ pc' = [pc EXCEPT ![m] = "drain"]
            /\ reg' = [reg EXCEPT ![m] = DrainTurns]
       ELSE /\ pc' = [pc EXCEPT ![m] = "idlecheck"]
            /\ UNCHANGED reg
    /\ UNCHANGED <<lists, mp, mco, mst, thief, spur, tasks, calls, snap>>

\* The registers after one turn of a loop of pops.
NextTurn(m, hit) == [reg[m] EXCEPT !.n = reg[m].n - 1, !.hit = hit]

\* One turn of that loop; at its end, goto Start if anything was found.
Drain(m) ==
    /\ pc[m] = "drain" /\ mp[m] # None
    /\ HasRead(m)
    /\ PopDone(m)
    /\ LET t   == Taken(m, global)
           hit == IF t = None THEN reg[m].hit ELSE 1
           end == reg[m].n = 1
       IN /\ global' = Rest(m, global)
          /\ local' = IF t = None THEN local
                      ELSE [local EXCEPT ![mp[m]] = ListPush(@, t)]
          /\ reg' = [reg EXCEPT ![m] = IF end THEN NoLoop ELSE NextTurn(m, hit)]
          /\ pc' = [pc EXCEPT ![m] = IF ~ end THEN "drain"
                                     ELSE IF hit = 1 THEN "loop" ELSE "idlecheck"]
    /\ UNCHANGED <<pIdle, mIdle, mp, mco, mst, thief, spur, tasks, calls>>

\* p_idle.len() == p_count - 1: every other p is idle, so there is nobody
\* to steal from.
IdleCheck(m) ==
    /\ pc[m] = "idlecheck"
    /\ pc' = [pc EXCEPT ![m] = IF ListLen(pIdle) + 1 = Cardinality(P)
                               THEN "gstop" ELSE "thiefcheck"]
    /\ UNCHANGED <<lists, machs, tasks, calls, snap>>

\* thief_work_len >= p_count: too many machines are stealing already.
ThiefCheck(m) ==
    /\ pc[m] = "thiefcheck"
    /\ pc' = [pc EXCEPT ![m] = IF thief >= Cardinality(P) THEN "gstop" ELSE "thiefinc"]
    /\ UNCHANGED <<lists, machs, tasks, calls, snap>>

ThiefInc(m) ==
    /\ pc[m] = "thiefinc"
    /\ thief' = thief + 1
    /\ reg' = [reg EXCEPT ![m] = [NoLoop EXCEPT !.rounds = StealRounds, !.left = P]]
    /\ pc' = [pc EXCEPT ![m] = "steal"]
    /\ UNCHANGED <<lists, mp, mco, mst, spur, tasks, calls, snap>>

\* The victim v gave nothing: the next one of the round, or the next round
\* over every p, or give up.
Missed(m, v) ==
    LET left == reg[m].left \ {v}
    IN IF left # {}
       THEN /\ reg' = [reg EXCEPT ![m] = [NoLoop EXCEPT !.rounds = reg[m].rounds, !.left = left]]
            /\ pc' = [pc EXCEPT ![m] = "steal"]
       ELSE IF reg[m].rounds > 1
       THEN /\ reg' = [reg EXCEPT ![m] = [NoLoop EXCEPT !.rounds = reg[m].rounds - 1, !.left = P]]
            /\ pc' = [pc EXCEPT ![m] = "steal"]
       ELSE /\ reg' = [reg EXCEPT ![m] = NoLoop]
            /\ pc' = [pc EXCEPT ![m] = "thiefdec"]

\* work_stealing(v) up to the computation of get_len, half of v's queue.
\* The random offset and stride of get_task visit every p once per round.
Steal(m) ==
    /\ pc[m] = "steal"
    /\ \E v \in reg[m].left :
          LET len == ListLen(local[v])
          IN IF len = 0
             THEN Missed(m, v)
             ELSE /\ reg' = [reg EXCEPT ![m] =
                                [reg[m] EXCEPT !.n = len - (len \div 2), !.vict = v]]
                  /\ pc' = [pc EXCEPT ![m] = "stealpop"]
    /\ UNCHANGED <<lists, mp, mco, mst, thief, spur, tasks, calls, snap>>

AsManyThieves == thief
OneThiefLess == thief - 1

\* The queues after m has taken t, or nothing, from v and put it on its own.
Copied(m, v, t) ==
    IF t = None THEN local ELSE [local EXCEPT ![mp[m]] = ListPush(@, t)]
StolenUntested(m, v, t) ==
    LET cut == [local EXCEPT ![v] = Rest(m, @)]
    IN [cut EXCEPT ![mp[m]] = ListPush(@, t)]
Stolen(m, v, t) ==
    LET cut == [local EXCEPT ![v] = Rest(m, @)]
    IN IF t = None THEN cut ELSE [cut EXCEPT ![mp[m]] = ListPush(@, t)]

\* One turn of work_stealing's loop: pop of the victim, push to the own p.
StealPop(m) ==
    /\ pc[m] = "stealpop" /\ mp[m] # None
    /\ HasRead(m)
    /\ PopDone(m)
    /\ LET v   == reg[m].vict
           t   == Taken(m, local[v])
           hit == IF t = None THEN reg[m].hit ELSE 1
       IN /\ local' = Stolen(m, v, t)
          /\ IF reg[m].n > 1
             THEN /\ reg' = [reg EXCEPT ![m] = NextTurn(m, hit)]
                  /\ UNCHANGED <<pc, thief>>
             ELSE IF hit = 1
             THEN /\ reg' = [reg EXCEPT ![m] = NoLoop]
                  /\ thief' = OneThiefLess
                  /\ pc' = [pc EXCEPT ![m] = "loop"]
             ELSE Missed(m, v) /\ UNCHANGED thief
    /\ UNCHANGED <<global, pIdle, mIdle, mp, mco, mst, spur, tasks, calls>>

ThiefDec(m) ==
    /\ pc[m] = "thiefdec"
    /\ thief' = OneThiefLess
    /\ pc' = [pc EXCEPT ![m] = "gstop"]
    /\ UNCHANGED <<lists, mp, mco, mst, reg, spur, tasks, calls, snap>>

\* The label Stop of get_task: if the own queue is still empty ...
GetStop(m) ==
    /\ pc[m] = "gstop" /\ mp[m] # None
    /\ pc' = [pc EXCEPT ![m] = IF ListLen(local[mp[m]]) = 0 THEN "pidle" ELSE "loop"]
    /\ UNCHANGED <<lists, machs, tasks, calls, snap>>

\* ... p becomes idle and the machine stops.
ReleaseP(m) ==
    /\ pc[m] = "pidle" /\ mp[m] # None
    /\ pIdle' = ListPush(pIdle, mp[m])
    /\ mp' = [mp EXCEPT ![m] = None]
    /\ pc' = [pc EXCEPT ![m] = "stop"]
    /\ UNCHANGED <<global, local, mIdle, mco, mst, reg, thief, spur, tasks, calls, snap>>

-----------------------------------------------------------------------------
(* m_loop with a coroutine: resume it, and see how it came back. *)

\* task::run: a coroutine that has ended is not resumed.
Resume(m) ==
    /\ pc[m] = "loop" /\ mco[m] # None
    /\ IF tst[mco[m]] = "deathed"
       THEN /\ pc' = [pc EXCEPT ![m] = "after"]
            /\ UNCHANGED on
       ELSE /\ pc' = [pc EXCEPT ![m] = "running"]
            /\ on' = [on EXCEPT ![mco[m]] = @ \cup {m}]
    /\ UNCHANGED <<lists, machs, tst, pos, pend, calls, snap>>

\* The coroutine runs to its next call and yields, except that after an
\* asynchronous call is started (state polling, request with the loop) the
\* yield is a step of its own.  A bare aco_yield leaves task::state alone.
Execute(m) ==
    /\ pc[m] = "running"
    /\ LET t  == mco[m]
           op == IF pos[t] < Len(Program[t]) THEN Program[t][pos[t] + 1] ELSE "return"
       IN /\ pos' = IF op = "return" THEN pos ELSE [pos EXCEPT ![t] = @ + 1]
          /\ tst' = [tst EXCEPT ![t] = CASE op = "return"  -> "deathed"
                                         [] op = "syscall" -> "freezed"
                                         [] op = "sleep"   -> "polling"
                                         [] op = "yield"   -> @]
          /\ pend' = IF op = "sleep" THEN pend \cup {t} ELSE pend
          /\ on' = IF op = "sleep" THEN on ELSE [on EXCEPT ![t] = @ \ {m}]
          /\ pc' = [pc EXCEPT ![m] = IF op = "sleep" THEN "issued" ELSE "after"]
    /\ UNCHANGED <<lists, machs, calls, snap>>

YieldAsync(m) ==
    /\ pc[m] = "issued"
    /\ on' = [on EXCEPT ![mco[m]] = @ \ {m}]
    /\ pc' = [pc EXCEPT ![m] = "after"]
    /\ UNCHANGED <<lists, machs, tst, pos, pend, calls, snap>>

\* A machine that was in a system call needs a p again.
InSyscall(m) == mst[m] = "block"

AfterRun(m) ==
    /\ pc[m] = "after"
    /\ IF InSyscall(m)
       THEN /\ mst' = [mst EXCEPT ![m] = "start"]
            /\ mp' = [mp EXCEPT ![m] = None]
            /\ pc' = [pc EXCEPT ![m] = "unblock"]
       ELSE /\ pc' = [pc EXCEPT ![m] = "dispatch"]
            /\ UNCHANGED <<mst, mp>>
    /\ UNCHANGED <<lists, mco, reg, thief, spur, tasks, calls, snap>>

Unblock(m) ==
    /\ pc[m] = "unblock"
    /\ HasRead(m)
    /\ PopDone(m)
    /\ LET q == Taken(m, pIdle)
           full == q # None /\ ListLen(local[q]) >= MaxQueueLen
       IN /\ mp' = [mp EXCEPT ![m] = q]
          /\ pc' = [pc EXCEPT ![m] = IF q = None \/ full THEN "toglobal" ELSE "dispatch"]
    /\ pIdle' = Rest(m, pIdle)
    /\ UNCHANGED <<global, local, mIdle, mco, mst, reg, thief, spur, tasks, calls>>

\* What the machines run once m has let go of its task.
Kept(m) == mco
LetGo(m) == [mco EXCEPT ![m] = None]

\* No p to be had: the task goes to the global queue, whatever its state.
ToGlobal(m) ==
    /\ pc[m] = "toglobal"
    /\ global' = ListPush(global, mco[m])
    /\ mco' = LetGo(m)
    /\ pc' = [pc EXCEPT ![m] = "stop"]
    /\ UNCHANGED <<local, pIdle, mIdle, mp, mst, reg, thief, spur, tasks, calls, snap>>

\* The states in which a task goes to the back of the queue.
QueuedOrPolling == {"actived", "polling"}
Queued == {"actived"}

\* freezed: hand p over; actived: back of the queue; polling and deathed:
\* let go of it.
Dispatch(m) ==
    /\ pc[m] = "dispatch"
    /\ \/ /\ tst[mco[m]] = "freezed"
          /\ pc' = [pc EXCEPT ![m] = "freeze"]
          /\ UNCHANGED <<local, mco>>
       \/ /\ tst[mco[m]] \in Queued /\ mp[m] # None
          /\ local' = [local EXCEPT ![mp[m]] = ListPush(@, mco[m])]
          /\ mco' = LetGo(m)
          /\ pc' = [pc EXCEPT ![m] = "loop"]
       \/ /\ tst[mco[m]] \in {"polling", "deathed"}
          /\ mco' = LetGo(m)
          /\ pc' = [pc EXCEPT ![m] = "loop"]
          /\ UNCHANGED local
    /\ UNCHANGED <<global, pIdle, mIdle, mp, mst, reg, thief, spur, tasks, calls, snap>>

Freeze(m) == pc[m] = "freeze" /\ Join(m, mp[m], "handoff")

\* Here p would not be cleared, or state not set.
HandOffKeepingP(m) ==
    /\ pc[m] = "handoff"
    /\ mst' = [mst EXCEPT ![m] = "block"]
    /\ pc' = [pc EXCEPT ![m] = "loop"]
    /\ UNCHANGED <<lists, mp, mco, reg, thief, spur, tasks, calls, snap>>

HandOffUnmarked(m) ==
    /\ pc[m] = "handoff"
    /\ mp' = [mp EXCEPT ![m] = None]
    /\ pc' = [pc EXCEPT ![m] = "loop"]
    /\ UNCHANGED <<lists, mco, mst, reg, thief, spur, tasks, calls, snap>>

\* state = block, p = nullptr, and on with the system call.
HandOff(m) ==
    /\ pc[m] = "handoff"
    /\ mst' = [mst EXCEPT ![m] = "block"]
    /\ mp' = [mp EXCEPT ![m] = None]
    /\ pc' = [pc EXCEPT ![m] = "loop"]
    /\ UNCHANGED <<lists, mco, reg, thief, spur, tasks, calls, snap>>

-----------------------------------------------------------------------------
(* The label Stop of m_loop. *)

StopRelease(m) ==
    /\ pc[m] = "stop"
    /\ pIdle' = IF mp[m] = None THEN pIdle ELSE ListPush(pIdle, mp[m])
    /\ mp' = [mp EXCEPT ![m] = None]
    /\ pc' = [pc EXCEPT ![m] = "park"]
    /\ UNCHANGED <<global, local, mIdle, mco, mst, reg, thief, spur, tasks, calls, snap>>

Park(m) ==
    /\ pc[m] = "park"
    /\ mst' = [mst EXCEPT ![m] = "wait"]
    /\ mIdle' = ListPush(mIdle, m)
    /\ pc' = [pc EXCEPT ![m] = "towait"]
    /\ UNCHANGED <<global, local, pIdle, mp, mco, reg, thief, spur, tasks, calls, snap>>

\* condx::wait has no predicate: a signal sent before it is lost.
Wait(m) ==
    /\ pc[m] = "towait"
    /\ pc' = [pc EXCEPT ![m] = "waiting"]
    /\ UNCHANGED <<lists, machs, tasks, calls, snap>>

SpuriousWake(m) ==
    /\ pc[m] = "waiting"
    /\ spur < MaxSpurious
    /\ spur' = spur + 1
    /\ pc' = [pc EXCEPT ![m] = "loop"]
    /\ UNCHANGED <<lists, mp, mco, mst, reg, thief, tasks, calls, snap>>

-----------------------------------------------------------------------------
(* go(), called by the main thread with a new coroutine and by the loop    *)
(* thread with one whose call is complete; local_m is null on both.        *)

Submit(t) ==
    /\ pc[Main] = "idle"
    /\ t \in todo
    /\ todo' = todo \ {t}
    /\ arg' = [arg EXCEPT ![Main].co = t]
    /\ pc' = [pc EXCEPT ![Main] = "gopop"]
    /\ UNCHANGED <<lists, machs, tasks, late, snap>>

\* The timer or file callback of co_io.cpp: go(NULL, co).
Callback(t) ==
    /\ pc[Daemon] = "idle"
    /\ t \in pend
    /\ "early" \in Windows \/ \A m \in Machine : mco[m] # t
    /\ pend' = pend \ {t}
    /\ arg' = [arg EXCEPT ![Daemon].co = t]
    /\ pc' = [pc EXCEPT ![Daemon] = "gopop"]
    /\ UNCHANGED <<lists, machs, tst, pos, on, todo, late, snap>>

\* Where go continues with the p it got from p_idle, or none.
Dropped(q) == IF q = None THEN "idle" ELSE "gopush"
Untested(q) == "gopush"
Onto(q) == IF q = None THEN "goglobal" ELSE "gopush"

GoPop(c) ==
    /\ pc[c] = "gopop"
    /\ HasRead(c)
    /\ PopDone(c)
    /\ pIdle' = Rest(c, pIdle)
    /\ arg' = [arg EXCEPT ![c].p = Taken(c, pIdle)]
    /\ pc' = [pc EXCEPT ![c] = Onto(Taken(c, pIdle))]
    /\ UNCHANGED <<global, local, mIdle, machs, tasks, todo, late>>

GoPush(c) ==
    /\ pc[c] = "gopush"
    /\ local' = [local EXCEPT ![arg[c].p] = ListPush(@, arg[c].co)]
    /\ pc' = [pc EXCEPT ![c] = "gojoin"]
    /\ UNCHANGED <<global, pIdle, mIdle, machs, tasks, calls, snap>>

GoJoin(c) == pc[c] = "gojoin" /\ Join(c, arg[c].p, "idle")

GoGlobal(c) ==
    /\ pc[c] = "goglobal"
    /\ global' = ListPush(global, arg[c].co)
    /\ pc' = [pc EXCEPT ![c] = "idle"]
    /\ UNCHANGED <<local, pIdle, mIdle, machs, tasks, calls, snap>>

-----------------------------------------------------------------------------
(* step_loop, every millisecond on the loop thread.  No thread of the      *)
(* model ends, so its first half (m_run.filter, m_death) finds no machine. *)

\* p_idle.len() != 0 && global_tasks.len() != 0
WorkWaitsLate == ListLen(pIdle) > 1 /\ ListLen(global) # 0
WorkWaits == ListLen(pIdle) # 0 /\ ListLen(global) # 0

Tick ==
    /\ pc[Daemon] = "idle"
    /\ pc' = [pc EXCEPT ![Daemon] =
                 IF WorkWaits THEN "wake" ELSE "idle"]
    /\ UNCHANGED <<lists, machs, tasks, calls, snap>>

WakePop ==
    /\ pc[Daemon] = "wake"
    /\ HasRead(Daemon)
    /\ PopDone(Daemon)
    /\ pIdle' = Rest(Daemon, pIdle)
    /\ arg' = [arg EXCEPT ![Daemon].p = Taken(Daemon, pIdle)]
    /\ pc' = [pc EXCEPT ![Daemon] = IF Taken(Daemon, pIdle) = None THEN "idle" ELSE "wakejoin"]
    /\ UNCHANGED <<global, local, mIdle, machs, tasks, todo, late>>

WakeJoin == pc[Daemon] = "wakejoin" /\ Join(Daemon, arg[Daemon].p, "wake")

-----------------------------------------------------------------------------
MachineStep(m) ==
    \/ TakeP(m) \/ GetLocal(m) \/ LookGlobal(m) \/ Drain(m) \/ IdleCheck(m)
    \/ ThiefCheck(m) \/ ThiefInc(m) \/ Steal(m) \/ StealPop(m) \/ ThiefDec(m)
    \/ GetStop(m) \/ ReleaseP(m)
    \/ Resume(m) \/ Execute(m) \/ YieldAsync(m) \/ AfterRun(m) \/ Unblock(m)
    \/ ToGlobal(m) \/ Dispatch(m) \/ Freeze(m) \/ HandOff(m)
    \/ StopRelease(m) \/ Park(m) \/ Wait(m)

GoStep(c) == GoPop(c) \/ GoPush(c) \/ GoJoin(c) \/ GoGlobal(c)

LoopStep == Tick \/ WakePop \/ WakeJoin

\* A thread whose state store is still to come does nothing else.
Free(t) == late[t] = None

MachineNext(m) ==
    \/ Free(m) /\ (MachineStep(m) \/ PopBegin(m))
    \/ JoinStore(m)

CallerNext(c) ==
    \/ Free(c) /\ (GoStep(c) \/ PopBegin(c))
    \/ JoinStore(c)

SubmitNext == Free(Main) /\ \E t \in Task : Submit(t)

Next ==
    \/ \E m \in Machine : MachineNext(m)
    \/ \E m \in Machine : Free(m) /\ SpuriousWake(m)
    \/ \E c \in Caller : CallerNext(c)
    \/ SubmitNext
    \/ Free(Daemon) /\ LoopStep
    \/ \E t \in Task : Free(Daemon) /\ Callback(t)

Spec == Init /\ [][Next]_vars

(***************************************************************************)
(* The kernel runs every thread; the main thread calls go() for every      *)
(* task; libuv runs the callback of every completed request, however often *)
(* the 1 ms timer fires in between (strong fairness: a callback is enabled *)
(* whenever the loop is between two callbacks).                            *)
(***************************************************************************)
Fairness ==
    /\ \A m \in Machine : WF_vars(MachineNext(m))
    /\ \A c \in Caller : WF_vars(CallerNext(c))
    /\ WF_vars(SubmitNext)
    /\ WF_vars(Free(Daemon) /\ LoopStep)
    /\ \A t \in Task : SF_vars(Free(Daemon) /\ Callback(t))

FairSpec == Spec /\ Fairness

-----------------------------------------------------------------------------
(* Properties. *)

Label == {"idle", "gopop", "gopush", "gojoin", "goglobal", "wake",
          "wakejoin", "unborn", "loop", "global", "drain", "idlecheck",
          "thiefcheck", "thiefinc", "steal", "stealpop", "thiefdec", "gstop",
          "pidle", "running", "issued", "after", "unblock", "toglobal",
          "dispatch", "freeze", "handoff", "stop", "park", "towait",
          "waiting"}

Reading ==
    [list : P \cup {"global", "p_idle", "m_idle"}, head : Nat, next : Nat]

\* Every variable stays in its set: no queue of tasks ever holds a p or a
\* machine, no register a task.
TypeOK ==
    /\ global \in ListOf(Task)
    /\ local \in [P -> ListOf(Task)]
    /\ pIdle \in ListOf(P)
    /\ mIdle \in ListOf(Machine)
    /\ thief \in Int
    /\ mp \in [Machine -> P \cup {None}]
    /\ mco \in [Machine -> Task \cup {None}]
    /\ mst \in [Machine -> {"wait", "start", "block"}]
    /\ reg \in [Machine -> Registers]
    /\ tst \in [Task -> {"actived", "freezed", "polling", "deathed"}]
    /\ pos \in [Task -> Nat]
    /\ on \in [Task -> SUBSET Machine]
    /\ pend \in SUBSET Task
    /\ todo \in SUBSET Task
    /\ arg \in [Caller -> [co : Task \cup {None}, p : P \cup {None}]]
    /\ late \in [Thread -> Machine \cup {None}]
    /\ snap \in [Thread -> Reading \cup {None}]
    /\ spur \in Nat
    /\ pc \in [Thread -> Label]

\* What the code relies on where it does not look: m_loop has a coroutine
\* from co->run to the label Stop or Start, work_stealing a victim, go a task
\* and a p to put it on.
HoldsTask == {"running", "issued", "after", "unblock", "toglobal", "dispatch",
              "freeze", "handoff"}

ControlOK ==
    /\ \A m \in Machine :
          /\ pc[m] \notin {"idle", "gopop", "gopush", "gojoin", "goglobal", "wake", "wakejoin"}
          /\ pc[m] \in HoldsTask => mco[m] # None
          /\ pc[m] \notin HoldsTask \cup {"loop"} => mco[m] = None
          /\ pc[m] \in {"drain", "stealpop"} => reg[m].n > 0
          /\ pc[m] = "stealpop" => reg[m].vict # None
    /\ \A c \in Caller :
          /\ pc[c] \in {"idle", "gopop", "gopush", "gojoin", "goglobal", "wake", "wakejoin"}
          /\ pc[c] \in {"gopop", "gopush", "goglobal"} => arg[c].co # None
          /\ pc[c] \in {"gopush", "gojoin", "wakejoin"} => arg[c].p # None

\* The list that pc says t is popping is the one it has read.
RightList(t) ==
    /\ pc[t] \in {"gopop", "wake", "unblock"} => snap[t].list = "p_idle"
    /\ pc[t] \in {"gojoin", "wakejoin", "freeze"} => snap[t].list = "m_idle"
    /\ pc[t] = "drain" => snap[t].list = "global"
    /\ pc[t] = "stealpop" => snap[t].list = reg[t].vict
    /\ pc[t] = "loop" => snap[t].list \in P \cup {"p_idle"}

\* A pop under way is one that its thread's code is at, and the nodes it has
\* read are nodes of the list it pops: mlist::pop follows no stale pointer.
ReadOK(t) ==
    /\ Split /\ AtPop(t) /\ RightList(t)
    /\ LET nodes == Len(ListAt(snap[t].list).log)
       IN snap[t].head <= nodes /\ snap[t].next <= nodes

ReadsOK == \A t \in Thread : snap[t] # None => ReadOK(t)

\* Where p is: on p_idle, bound to a machine that has not handed it over, or
\* in the hands of a go() or step_loop that is about to bind it.
PlacesOfP(q) ==
    {<<"p_idle", i>> : i \in Occurrences(pIdle, q)}
    \cup {<<"bound", m>> : m \in {n \in Machine : mp[n] = q /\ pc[n] # "handoff"}}
    \cup {<<"arg", c>> : c \in {d \in Caller : arg[d].p = q
                              /\ pc[d] \in {"gopush", "gojoin", "wakejoin"}}}

\* Every p is in exactly one place: go, join, step_loop, get_task and the
\* block and Stop paths of m_loop pass it on without losing it (its tasks
\* would never run) and without binding it to two machines (both would pop
\* its queue).
PInOnePlace == \A q \in P : \E x \in PlacesOfP(q) : PlacesOfP(q) = {x}

\* Where the scheduler can still reach task t from, or t runs.
PlacesOfTask(t) ==
    {<<"global", i>> : i \in Occurrences(global, t)}
    \cup (UNION {{<<q, i>> : i \in Occurrences(local[q], t)} : q \in P})
    \cup {<<"machine", m>> : m \in {n \in Machine : mco[n] = t}}
    \cup {<<"arg", c>> : c \in {d \in Caller : arg[d].co = t
                              /\ pc[d] \in {"gopop", "gopush", "goglobal"}}}

\* A task is on one queue or with one machine at a time, however often
\* Drain, work_stealing, Dispatch, ToGlobal and go move it.
TaskNotTwice ==
    \A t \in Task : \A x, y \in PlacesOfTask(t) : x = y

\* A task that has not ended is with the main thread, with libuv, on a queue
\* or with a machine: what m_loop lets go of will come back to go().
TaskNotLost ==
    \A t \in Task : \/ t \in todo \cup pend
                    \/ tst[t] = "deathed"
                    \/ PlacesOfTask(t) # {}

\* No coroutine executes on two machines: they would share one stack.
OneRunner == \A t \in Task : \A m, n \in on[t] : m = n

\* The call of an asynchronous function returns after libuv has answered:
\* nothing resumes a coroutine whose request is still pending.
ResumedAfterAnswer ==
    \A t \in pend : \A m \in on[t] : pc[m] = "issued"

\* No local queue ever holds more than max_queue_len tasks, although only
\* two of the five places that push to one look at its length first.
QueueBounded == \A q \in P : ListLen(local[q]) <= MaxQueueLen

\* thief_work_len counts exactly the machines between the increment and the
\* decrement of get_task, on every way out of it.
ThiefCounted ==
    thief = Cardinality({m \in Machine : pc[m] \in {"steal", "stealpop", "thiefdec"}})

\* A machine on m_idle is at pthread_cond_wait, or one step from it, with no
\* p and no task: join may overwrite its p.
ParkedIsFree ==
    \A m \in Elements(mIdle) : /\ pc[m] \in {"towait", "waiting"}
                               /\ mp[m] = None /\ mco[m] = None

\* A caller of join, from the pop of its p on.
Binding == {"gopush", "gojoin", "wakejoin"}

\* Holder x has p q: x is p_idle, for which None stands, a machine that has not
\* handed q over, or a caller that will bind it.
Has(x, q) ==
    \/ x = None /\ q \in Elements(pIdle)
    \/ x \in Machine /\ mp[x] = q /\ pc[x] # "handoff"
    \/ x \in Caller /\ arg[x].p = q /\ pc[x] \in Binding

OneHolder ==
    \A q \in P : \E x \in Thread \cup {None} :
        Has(x, q) /\ \A y \in Thread \cup {None} : Has(y, q) => y = x

\* A machine that has no p: on m_idle, not created yet, or in a system call.
Unbound(m) == m \in Elements(mIdle) \/ pc[m] \in {"unborn", "unblock", "park"}
                                    \/ mst[m] = "block"

\* What keeps PInOnePlace and ParkedIsFree true (SchedulerProofs): no p and no machine
\* is idle twice, what has no p is marked so, and a machine in a system call
\* has a coroutine to run.
BindInv ==
    /\ Distinct(pIdle)
    /\ Distinct(mIdle)
    /\ \A m \in Elements(mIdle) : pc[m] \in {"towait", "waiting"}
    /\ \A m \in Machine : Unbound(m) => mp[m] = None
    /\ \A m \in Machine : mst[m] = "block" =>
          mco[m] # None /\ pc[m] \in {"loop", "running", "issued", "after"}
    /\ OneHolder

\* join has woken every machine it has bound a p to.
NoBoundSleeper == \A m \in Machine : pc[m] = "waiting" => mp[m] = None

\* Where m_loop and get_task take it for granted that the machine has a p: from the
\* pop of its queue to p_idle.push(p), and from the switch on the state of a task
\* that has come out to join(p).
UsesP == {"global", "drain", "idlecheck", "thiefcheck", "thiefinc", "steal", "stealpop",
          "thiefdec", "gstop", "pidle", "dispatch", "freeze"}

\* No machine is there without a p: one that comes out of a coroutine without a p
\* was in a system call, still has the mark it made then, and takes another p or
\* gives the task up before it looks at the task's state.
BoundWhereUsed == \A m \in Machine : pc[m] \in UsesP => mp[m] # None

\* The loop thread inside the while loop of step_loop.
Chasing == pc[Daemon] \in {"wake", "wakejoin"}

\* Every task runs to its end, unless the loop thread never leaves the while
\* loop of step_loop, because each machine it wakes puts its p back on p_idle
\* before the next p_idle.pop: no callback runs then.
DoneUnlessChasing ==
    \/ <>[]Chasing
    \/ \A t \in Task : <>(tst[t] = "deathed")
=============================================================================
