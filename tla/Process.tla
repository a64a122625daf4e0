------------------------------ MODULE Process -------------------------------
(***************************************************************************)
(* The threads of a process that uses libgco, from the first go() on:      *)
(* callers make tasks (Startup), a machine runs a task once there are      *)
(* machines, and what it runs calls the file functions (FileIo) and        *)
(* setTimeout (Timer), whose requests all end on the one thread that       *)
(* background has put into uv_run.  That thread does one thing at a time;  *)
(* an exception on it ends the process, and so may a deleted timer.        *)
(***************************************************************************)
EXTENDS Startup, FileIo, Timer

CONSTANT Asker  \* the task that asks for each timer other than background's

ASSUME AskerAssumption == Asker \in [{t \in Timer : Kind[t] # "main"} -> Caller]
ASSUME CoAssumption == Co \subseteq Caller

vars == <<startVars, fileVars, timerVars>>

Init == StartInit /\ FileInit /\ TimerInit

Starts(c) ==
    /\ Go(c) \/ RunTask(c)
    /\ UNCHANGED <<fileVars, timerVars>>

WakesUnasked(c) == WaitReturns(c) /\ UNCHANGED <<fileVars, timerVars>>

\* background starts the timer of step_loop before it says that the loop is open.
DaemonStarts ==
    /\ \/ OpenLoop /\ \E t \in Timer : MainAdd(t)
       \/ Notify /\ UNCHANGED timerVars
    /\ UNCHANGED fileVars

\* What coroutines do on their machines' threads, and the thread pool for them.
TaskCalls(c) ==
    /\ c \in ran
    /\ Call(c) \/ FsClose(c)
    /\ UNCHANGED <<startVars, timerVars>>

Performs(c) == Perform(c) /\ UNCHANGED <<startVars, timerVars>>

\* A task asks for its timers after its file calls, one at a time.
TaskAsks(t) ==
    /\ Kind[t] # "main" /\ Asker[t] \in ran
    /\ Asker[t] \in Co => Finished(Asker[t])
    /\ \A u \in DOMAIN Asker \ {t} : Asker[u] = Asker[t] => adding[u] \in {"none", "done"}
    /\ Ask(t)
    /\ UNCHANGED <<startVars, fileVars>>

TaskClears(t) == Clear(t) /\ UNCHANGED <<startVars, fileVars>>

\* uv_run calls one callback at a time.
BetweenCallbacks == daemon = "loop" /\ loop = None /\ running = NoTimer

Answers(c) ==
    /\ BetweenCallbacks
    /\ Answer(c)
    /\ UNCHANGED <<startVars, timerVars>>

Handles(t) ==
    /\ BetweenCallbacks
    /\ MainHandler(t) \/ TimeCb(t)
    /\ UNCHANGED <<startVars, fileVars>>

EndsCallback ==
    \/ LoopClose /\ UNCHANGED <<startVars, timerVars>>
    \/ CloseAfterTask /\ UNCHANGED <<startVars, fileVars>>
    \/ daemon = "loop" /\ loop = None /\ (EndIteration \/ UseDeleted)
       /\ UNCHANGED <<startVars, fileVars>>

Passes == TimePasses /\ UNCHANGED <<startVars, fileVars>>

\* What is done for a task and for a timer: one thing after the other, so that weak
\* fairness of the whole is weak fairness of each.
Serves(c) ==
    \/ Starts(c)
    \/ c \in Co /\ (TaskCalls(c) \/ Performs(c) \/ Answers(c))
Times(t) == TaskAsks(t) \/ Handles(t)

\* Nothing more is said of a process after an exception or the use of deleted memory.
Ended == thrown \/ stray

Next ==
    \/ /\ ~ Ended
       /\ \/ DaemonStarts
          \/ \E c \in Caller : Serves(c) \/ WakesUnasked(c)
          \/ \E t \in Timer : Times(t) \/ TaskClears(t)
          \/ EndsCallback
          \/ Passes
    \/ Ended /\ UNCHANGED vars

Spec == Init /\ [][Next]_vars

\* Every thread runs, and time passes; nobody has to clear a timer,
\* and no wait has to return by itself.  A thread takes
\* sched_mtx only once, so weak fairness gives it to every caller in the end; the
\* loop thread comes back to BetweenCallbacks after every callback, and answers
\* every request, however often timers fire.
FairSpec ==
    /\ Spec
    /\ WF_vars(~ Ended /\ DaemonStarts)
    /\ WF_vars(~ Ended /\ EndsCallback)
    /\ WF_vars(~ Ended /\ Passes)
    /\ \A c \in Caller : WF_vars(~ Ended /\ Serves(c))
    /\ \A t \in Timer : WF_vars(~ Ended /\ Times(t))

-----------------------------------------------------------------------------
(* Properties of the whole. *)

\* The task of every caller runs, also when it was queued before there was a
\* machine, unless an error ends the process.
AllRun == \A c \in Caller : <>(c \in ran \/ Ended)

\* Every call of a coroutine is answered in the end, whatever timers do meanwhile,
\* except a write whose partial writes step over the end of its buffer.
AllAnswered == <>(Ended \/ \A c \in Co : Finished(c) \/ Overshot(c))

\* Every timer that is asked for fires, unless it is cleared or an error ends the
\* process.
EachFires ==
    \A t \in Timer : [](adding[t] # "none" => <>(fired[t] \/ t \in freed \/ Ended))
=============================================================================
