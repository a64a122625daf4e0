------------------------------- MODULE Timer --------------------------------
(***************************************************************************)
(* uv_timer.cpp: threads ask the loop thread for timers through a          *)
(* uv_async_t in each timer.  add fills the timer in, starts the async,    *)
(* gives it a pointer to the timer and sends it, one step each since the   *)
(* loop runs meanwhile; main_handler, on the loop thread, starts the       *)
(* uv_timer_t and closes the async, which stays with the loop until the    *)
(* end of the iteration; time_cb runs the callback.  The timer of          *)
(* background is added by main_add, on the loop thread itself.             *)
(*                                                                         *)
(* libuv keeps its handles in a list that is linked through them.  Nobody  *)
(* closes a uv_timer_t, so that a timer which clearTimeout deletes stays   *)
(* on that list: once the loop has used deleted memory, stray, anything    *)
(* may happen, and the model stops.                                        *)
(*                                                                         *)
(* Time is counted in ticks, which pass at any moment.  What happens to    *)
(* libuv's lists when uv_async_init runs during the loop is not here.      *)
(***************************************************************************)
EXTENDS Integers, FiniteSets, SequencesExt

CONSTANTS
    Timer,
    Kind,      \* what makes each of them: setTimeout, setInterval or background
    Ms,        \* the argument ms of that call
    Cleared,   \* timers that somebody passes to clearTimeout or clearInterval
    NoTimer

ASSUME KindAssumption == Kind \in [Timer -> {"timeout", "interval", "main"}]
ASSUME MsAssumption == Ms \in [Timer -> Nat \ {0}]
ASSUME ClearedAssumption == Cleared \subseteq {t \in Timer : Kind[t] # "main"}
ASSUME NoTimerAssumption == NoTimer \notin Timer

VARIABLES
    adding,   \* the statement of add that each timer has reached
    async,    \* its uv_async_t: open, closing or neither, its data, sent and not handled
    due,      \* its uv_timer_t: active, ticks left, and the repeat
    waited,   \* ticks since it was asked for, up to ms
    fired,    \* whether its callback has been called
    freed,    \* timers that have been deleted
    running,  \* the timer whose task() has returned inside time_cb
    handles,  \* the loop's list of handles, known by their timers
    stray     \* whether the loop has used a deleted timer

timerVars == <<adding, async, due, waited, fired, freed, running, handles, stray>>

TimerInit ==
    /\ adding = [t \in Timer |-> "none"]
    /\ async = [t \in Timer |-> [state |-> "none", data |-> NoTimer, pending |-> FALSE]]
    /\ due = [t \in Timer |-> [active |-> FALSE, left |-> 0, repeat |-> 0]]
    /\ waited = [t \in Timer |-> 0]
    /\ fired = [t \in Timer |-> FALSE]
    /\ freed = {}
    /\ running = NoTimer
    /\ handles = << >>
    /\ stray = FALSE

\* uv_async_init and uv_timer_init link a new handle behind the last one.
Link(kind, t) ==
    /\ handles' = Append(handles, [kind |-> kind, timer |-> t])
    /\ stray' = (handles # << >> /\ Last(handles).timer \in freed)

\* Whether the uv_timer_t of t has been initialised.
Inited(t) == [kind |-> "req", timer |-> t] \in ToSet(handles)

\* A definition that nothing uses, just before another with the same parameters,
\* is a slip that the properties are checked to notice.

-----------------------------------------------------------------------------
(* setTimeout and setInterval, on any thread. *)

\* What add stores: the lambda of setTimeout goes with (0, ms), a task with (ms, ms).
Stored(t) == [ms |-> IF Kind[t] = "timeout" THEN 0 ELSE Ms[t], repeat |-> Ms[t]]

\* The order of add's statements.
SendFirst == [none |-> "init", init |-> "send", send |-> "data", data |-> "done"]
Statements == [none |-> "init", init |-> "data", data |-> "send", send |-> "done"]

Adds(t, statement) ==
    /\ adding[t] = statement
    /\ adding' = [adding EXCEPT ![t] = Statements[statement]]
    /\ UNCHANGED <<due, waited, fired, freed, running>>

SetTimer(t) == Kind[t] # "main" /\ Adds(t, "none") /\ UNCHANGED <<async, handles, stray>>

InitAsync(t) ==
    /\ Adds(t, "init")
    /\ async' = [async EXCEPT ![t].state = "open"]
    /\ Link("async", t)

SetData(t) ==
    /\ Adds(t, "data")
    /\ async' = [async EXCEPT ![t].data = t]
    /\ UNCHANGED <<handles, stray>>

Send(t) ==
    /\ Adds(t, "send")
    /\ async' = [async EXCEPT ![t].pending = TRUE]
    /\ UNCHANGED <<handles, stray>>

\* clearTimeout and clearInterval: timer::close and delete, whatever the loop thread is
\* doing with the timer.  uv_timer_stop looks at a req that nobody may have initialised.
Clear(t) ==
    /\ t \in Cleared \ freed /\ adding[t] = "done"
    /\ due' = [due EXCEPT ![t].active = FALSE]
    /\ freed' = freed \cup {t}
    /\ stray' \in IF Inited(t) THEN {FALSE} ELSE BOOLEAN
    /\ UNCHANGED <<adding, async, waited, fired, running, handles>>

-----------------------------------------------------------------------------
(* The loop thread. *)

Start(timeout, repeat) == [active |-> TRUE, left |-> timeout, repeat |-> repeat]

\* timer::main_add(step_loop, 1, 1)
MainAdd(t) ==
    /\ Kind[t] = "main" /\ adding[t] = "none"
    /\ adding' = [adding EXCEPT ![t] = "done"]
    /\ due' = [due EXCEPT ![t] = Start(Ms[t], Ms[t])]
    /\ Link("req", t)
    /\ UNCHANGED <<async, waited, fired, freed, running>>

\* uv_timer_start(&t->req, time_cb, t->repeat, t->ms)
StartedInOrder(t) == Start(Stored(t).ms, Stored(t).repeat)
Started(t) == Start(Stored(t).repeat, Stored(t).ms)

MainHandler(t) ==
    /\ running = NoTimer
    /\ async[t].state = "open" /\ async[t].pending /\ t \notin freed
    /\ IF async[t].data = NoTimer
       THEN UNCHANGED <<due, handles, stray>>
       ELSE due' = [due EXCEPT ![t] = Started(t)] /\ Link("req", t)
    /\ async' = [async EXCEPT ![t].state = "closing", ![t].pending = FALSE]
    /\ UNCHANGED <<adding, waited, fired, freed, running>>

\* The end of an iteration: closed handles are unlinked from their neighbours.
Closing(h) == h.kind = "async" /\ async[h.timer].state = "closing"

EndIteration ==
    /\ running = NoTimer
    /\ \E t \in Timer : async[t].state = "closing"
    /\ handles' = SelectSeq(handles, LAMBDA h : ~ Closing(h))
    /\ stray' = \E i, j \in DOMAIN handles :
                   /\ Closing(handles[i]) /\ j \in i - 1 .. i + 1
                   /\ handles[j].timer \in freed
    /\ async' = [t \in Timer |-> IF async[t].state = "closing"
                                THEN [async[t] EXCEPT !.state = "closed"] ELSE async[t]]
    /\ UNCHANGED <<adding, due, waited, fired, freed, running>>

\* The async of a deleted timer has a request, or the lambda of setTimeout returns to one.
UseDeleted ==
    /\ \E t \in freed : \/ async[t].state = "open" /\ async[t].pending /\ running = NoTimer
                        \/ running = t
    /\ stray' = TRUE
    /\ UNCHANGED <<adding, async, due, waited, fired, freed, running, handles>>

\* libuv has stopped the timer, or started it again if it repeats, when it calls
\* time_cb.  The lambda of setTimeout closes it after the task.
TimeCb(t) ==
    /\ running = NoTimer
    /\ due[t].active /\ due[t].left = 0
    /\ due' = [due EXCEPT ![t].active = due[t].repeat > 0, ![t].left = due[t].repeat]
    /\ fired' = [fired EXCEPT ![t] = TRUE]
    /\ running' = IF Kind[t] = "timeout" THEN t ELSE NoTimer
    /\ UNCHANGED <<adding, async, waited, freed, handles, stray>>

CloseAfterTask ==
    /\ running # NoTimer /\ running \notin freed
    /\ due' = [due EXCEPT ![running].active = FALSE]
    /\ running' = NoTimer
    /\ UNCHANGED <<adding, async, waited, fired, freed, handles, stray>>

-----------------------------------------------------------------------------
Waiting(t) == Kind[t] # "main" /\ adding[t] # "none" /\ ~ fired[t] /\ waited[t] < Ms[t]

TimePasses ==
    /\ \E t \in Timer : Waiting(t) \/ (due[t].active /\ due[t].left > 0)
    /\ due' = [t \in Timer |-> IF due[t].left > 0 THEN [due[t] EXCEPT !.left = @ - 1] ELSE due[t]]
    /\ waited' = [t \in Timer |-> IF Waiting(t) THEN waited[t] + 1 ELSE waited[t]]
    /\ UNCHANGED <<adding, async, fired, freed, running, handles, stray>>

Ask(t) == SetTimer(t) \/ InitAsync(t) \/ SetData(t) \/ Send(t)

-----------------------------------------------------------------------------
(* Properties. *)

\* No callback runs before its ms are over: add takes (timeout, repeat), setTimeout
\* passes (0, ms), and main_handler starts the timer with the two exchanged.
NotEarly == \A t \in Timer : Kind[t] # "main" /\ fired[t] => waited[t] = Ms[t]
=============================================================================
