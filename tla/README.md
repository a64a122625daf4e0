# A verification project for libgco

libgco runs n coroutines on m threads, after the g|m|p model of Go: a *task* (g)
is a coroutine made with libaco, a *machine* (m) is a thread that runs tasks, a
*p* is a queue of tasks that a machine must hold to take tasks from it. Sleeping
and file operations of a coroutine become libuv requests, served by one more
thread. This directory holds TLA+ modules translated from that code, the TLC
configurations that check them, and proofs that TLAPS checks.

## The system

| component | state | operations | who calls it |
|---|---|---|---|
| task (`task.cpp`, `task.h`) | `aco_t co`, `state`: actived, freezed, polling, deathed | constructor, `run` | `go`, `m_loop` |
| machine (`machine.cpp`) | `p`, `co`, `state`: start, wait, block; its condition variable; global `thief_work_len` | `m_loop`, `get_task`, `work_stealing` | one thread per machine |
| scheduler (`scheduler.cpp`) | `global_tasks`, `local_tasks` (the p's), `p_idle`, `m_idle`, `m_run`; globals `sched`, `_co`, `back_cond` | `go`, `join`, `step_loop`, `init`, `background` | any thread; `step_loop` on the libuv thread |
| mlist (`mlist.h`) | `head`, `tail`, nodes, `mtx` | `push`, `pop`, `del`, `len`, `filter` | every queue above is one |
| co_io (`co_io.cpp`) | the task's `state`, results on the coroutine's stack | `_syscall`, `co_sleep`, `co_open`, `co_read`, `co_write`, `co_close` | coroutines; their callbacks run on the libuv thread |
| uv_timer (`uv_timer.cpp`) | per timer a `uv_async_t`, a `uv_timer_t`, `ms`, `repeat` | `setTimeout`, `setInterval`, `clearTimeout`, `clearInterval`; `main_handler`, `time_cb` on the libuv thread | co_io, `background`, a program |
| uv_fs (`uv_fs.cpp`) | a `File` per call, `File::cache_fd` | `fs::open/read/write/close`; `on_open`, `on_read`, `on_write` on the libuv thread | co_io |
| libaco (`aco.c`, `aco.h`) | share stacks with an owner, save stacks, the registers in each `aco_t`, thread-local `aco_gtls_co` | `aco_share_stack_new2`, `aco_create`, `aco_resume`, `aco_yield`, `aco_exit`, `aco_destroy` | task, machine |
| channel (`channel.h`) | a list, `idx`, `mtx`, `cond` | `<<`, `>>` | threads |
| utils | `condx`: a mutex and a condition variable, no predicate | `wait`, `notify`, random numbers | machine, scheduler |
| concurrentqueue (`concurrentqueue.h`) | producers with their indices, blocks and block index; a list of free blocks | `enqueue`, `enqueue_bulk`, `try_dequeue`, `try_dequeue_bulk` | declared as uv_timer's `time_q`, which nothing uses |
| uv_net | a TCP wrapper | | not built |

How they interact. `go` puts a new task on the queue of an idle p and calls
`join`, which binds the p to a machine from `m_idle` (and signals it) or to a
new machine; with no idle p the task goes to `global_tasks`. A machine takes
tasks from its p, then from `global_tasks`, then steals from other p's, then
puts its p on `p_idle`, itself on `m_idle`, and waits. A task that makes a
system call yields first; its machine passes the p to another machine and then
runs on, without a p, marked blocked. A task that starts a libuv request yields
and is dropped by its machine; the callback passes it to `go` again. Every
millisecond `step_loop` looks for tasks on `global_tasks` and wakes machines.
Every task has a stack of its own; its constructor resumes it once, from the
calling thread and with the process-wide main coroutine `_co`, and `run` from a
machine's thread with that machine's main coroutine. All callbacks of timers
and files, and `step_loop` itself, share the one libuv thread.

What is hard in it: every queue is shared by all threads and `pop` takes no
lock; a machine's `p` and `state` are written by other threads; condition
variables have no predicate; tests and the actions they guard are in different
critical sections; a coroutine's request can be answered while it still runs; one
`_co` receives the registers of every thread that makes a task; timers are filled
in by one thread while the loop of another may already look at them; the queue of
concurrentqueue.h is lock-free throughout.
`PROJECT.json` lists each such place under "hazards" with the properties about it.

## Modules

| module | models | proofs |
|---|---|---|
| `ListOps` | an mlist as the scheduler sees it: operators on a sequence of nodes and the index of its head | `ListOpsProofs` |
| `MList` | mlist with its pointers, access by access | `MListProofs` |
| `Scheduler` | task::run, m_loop, get_task, work_stealing, join, go, step_loop, what co_io does to a task | `SchedulerProofs` |
| `Startup` | the first go(): scheduler's constructor, init, background | `ProcessProofs` |
| `FileIo` | fs::open, read, write, close on the libuv thread, `cache_fd` | `ProcessProofs` |
| `Timer` | setTimeout, setInterval and the clear functions; main_handler and time_cb | `ProcessProofs` |
| `Process` | Startup, FileIo and Timer together: callers, machines and the one libuv thread | `ProcessProofs` |
| `Coroutine` | libaco's stacks and registers, under task.cpp, `go` and `m_loop` | `CoroutineProofs` |
| `ConcurrentQueue` | the queue of concurrentqueue.h with implicit producers | `QueueProofs`, `QueueIndexProofs` |
| `BoundedFifo`, `Channel` | what channel.h promises, and its code | `ChannelProofs` |
| `MC*` | constants for TLC | |

**ListOps and MList.** A node is never freed and is numbered in push order, 0 is
`nullptr`. ListOps is for lists that are only pushed to and popped from, which
are all but `m_run`; push is one step and a new node's `next` is null. MList has
what that leaves out: `next` of a new node as the constructor leaves it
(`Fresh`: null, or an address that is no node), the test of `head` in `push`
apart from the store, the three reads of `head` in `pop` (the makefile asks for
no optimisation), and the loops of `del`, `len` and `filter`, one iteration a
step. MListProofs does not derive ListOps from MList: where several threads pop,
the code has no such abstraction, and Scheduler splits pop itself (below).

**Scheduler.** One variable per member: `global`, `local`, `pIdle`, `mIdle`,
`thief` (thief_work_len), and for each machine `mp`, `mco`, `mst` (p, co,
state); `pc` is the place of each thread in the code, `reg` the loop variables of
get_task, `arg` the local variables of a go or step_loop in progress, `tst` the
task states, `pend` the requests libuv has not answered, `on` the machines on
which a coroutine is executing. An action is the code between two accesses that
another thread can see: pop, push, len, a wake-up, a test of `thief_work_len`.
A coroutine is the sequence `Program[t]` of its calls: "syscall" is `_syscall`,
"sleep" stands for the four calls that wait for libuv, "yield" for a bare
`aco_yield`. The threads are the machines, `Main`, which passes every task to go
once, and `Daemon`, the libuv thread, which runs callbacks and step_loop. Where the
code goes through `local_m->p`, an action has the guard `mp[m] # None`; BoundWhereUsed
says that it never holds a machine back. The pop of p_idle after a system call and the
look at the length of the p it gives are one step: no other thread has that p.

`Windows` says where the schedules of a run may preempt a thread: "pop" between
the load of `head->next` and the store of `head` in pop; "park" between
`m_idle.push` and `pthread_cond_wait`; "bind" between waking a machine in join
and storing its state; "early" between starting a request and the machine letting
go of the coroutine. Everything else is always interleaved. The windows are what
breaks the scheduler, so a property is checked with all the windows that it
survives, and the theorems say which they need.

Not in Scheduler: `m_run`, which is written by join and m_loop and read only by
the filter in step_loop; that filter's search for dead threads (m_loop never
returns); `go` on a machine's thread (a coroutine that starts another); the
printing.

**Startup, FileIo, Timer, Process.** The three are written as parts: each has its
variables, an initial predicate (StartInit, FileInit, TimerInit) and its actions,
and Process puts them into one state machine.

Startup's `pc` is the place of each caller between the test of `sched` and the
enqueueing of its task; `Slot` are the p's. `EarlyNotify` says whether
`background` may notify `back_cond` before `init` waits on it; the wait may also
return by itself at any moment (WaitReturns). A machine that
exists may run any queued task here; how it finds it is in Scheduler.

FileIo's `co` has each coroutine's place and call, `req` the File of that call
(`chunk`, `fs_req.result`, and as history what its writes have put into the file that
its coroutine opened),
`cache` the keys of cache_fd, `kernel` the open file behind each descriptor and `pos`
how far it has been read. A
request is performed by libuv's thread pool (Perform*, external) and answered on
the loop thread (OnOpen, OnRead, OnWrite); fs::close runs on the coroutine's own
thread, one access to cache_fd or to the kernel a step. `thrown` is the exception
of `File::_error`, which leaves libuv's C frames and ends the process.
`LateErase` and `Short` say whether fs::close may be preempted before it erases an
entry, and whether a write may be partial. Descriptors 1 and 2 are never closed and
left out.

Timer has the statements of `timer::add` one by one (`adding`), since the loop
runs meanwhile; `async` and `due` are the two libuv objects in a timer, which
libuv's documentation and not this repository defines, and time passes in ticks at
any moment (TimePasses). `handles` is libuv's list of handles: main_handler's uv_close
leaves the async on it until the end of the iteration (EndIteration), and a
uv_timer_t, which nothing closes, stays on it when its timer is deleted. Clear may come
at any moment after `add` has returned. `stray` says that the loop has used a
deleted timer, through a neighbour on that list, a request that was already sent
or the lambda of setTimeout; what follows is undefined, and the model stops there.
`main_add`, by which background starts step_loop's timer, runs on the loop thread
itself.

Process says who does what. `BetweenCallbacks` is the loop thread in uv_run with
no callback under way; every answer, `main_handler` and `time_cb` needs it, and
the two halves of the callbacks that another thread can see between (LoopClose,
CloseAfterTask) keep it busy. `Asker` gives the task that asks for each timer.

**Coroutine.** `at` says for each thread on which stack it executes, `gco` is
aco_gtls_co, `reg` the registers that acosw saves in each aco_t: the stack, the
depth, the FPU words, and (`res`) the coroutine that the aco_resume in that frame
has resumed, a local variable of it. `Shared` is `_co`; the main coroutine of a
thread is named by the thread. `Construct` is the constructor of a task, its
allocation of a share stack included, up to the first instructions of co_box; the
yield there and every later one is `Yield`. A program that uses libaco itself has
the coroutines in `Lib`, several of which may be given one stack: it is there for
aco_resume's copying, which libgco's tasks never need. Frames are words with the
writer's name and age, so that FramesKept can tell a word that was not copied.
`Abort` is a failed assertion.

**ConcurrentQueue.** `list` has the producers, `tail`, `head`, `opt` and `over`
are tailIndex, headIndex, dequeueOptimisticCount and dequeueOvercommit, `header`
the block indices of each producer, old ones included, `entry` their entries. `th`
has the place and the local variables of each thread; a thread that works on the
list of free blocks keeps in `then` what it was doing. A step is one access to a
shared atomic variable with the accesses to unshared memory that go with it;
neighbouring accesses are one step where no schedule can tell them apart, and the
comment of the action says which.

**Channel.** `log` has the items of all nodes ever, `head` the node that will be read
next, `last` the `next` of the last node, which is what the constructor of `_node`
left there (`Fresh`: null, or an address that is no node); `idx` is the code's
counter, which is not derived from the list; `mode` says who waits on `cond`. Each
turn of a waiting loop is one step since the mutex is held except in wait.
`notify_one` wakes any waiter, reader or writer. To read through a wild head ends the
process (`crashed`). `BoundedFifo` is the promise, and `IsFifo` the refinement with the
last idx items as the queue: the code's waits go by idx and its transfers by head.

In the modules, a definition directly before another with the same parameters
and used nowhere (`InitedNot` before `Inited`) is a slip one could make in that
line. PROJECT.json "mutants" pairs each with the property that notices it.

## Runs

| run | instance | checks |
|---|---|---|
| SchedSyscall | 1 p, 3 machines, 2 tasks, one makes a system call; windows bind, park; 1.2 million states | PInOnePlace, ParkedIsFree, TaskNotTwice: who has which p, while join and parking are preempted |
| SchedSteal | 2 p's, 3 machines, 3 plain tasks; 1.3 million states | TypeOK, QueueBounded, ThiefCounted, OneRunner: stealing |
| SchedPop | 1 p, 2 machines, 2 tasks; window pop, one spurious wake-up; 0.5 million states | ControlOK, ReadsOK: what is still true when pops overlap |
| SchedLive | 1 p, 2 machines, a system call, a yield and an asynchronous call; window early; fairness | NoBoundSleeper, BoundWhereUsed, ResumedAfterAnswer, TaskNotLost, DoneUnlessChasing |
| SchedLostWakeup (violation) | window park | NoBoundSleeper |
| SchedEarlyAnswer (violation) | 1 p, a system call and then an asynchronous one; window early | OneRunner |
| MListOnePopper | a thread that pops and reads the length, one that pushes, deletes and filters; 3 nodes; fairness | Forward, NoNullHead, InOrder, CallsReturn |
| ChannelFour | 2 writers of 3 items, 2 readers, max_len 2; next of a node null or wild; fairness; 12 thousand states | IsFifo, AllRead |
| ProcessTwo | 2 first callers, 1 p, their tasks read and write files of 3 blocks, in parts; one asks for a timeout of 2, which may be cleared, beside step_loop's interval of 1; fairness; 27 thousand states | OneScheduler, CoBeforeTasks, FileKept, CloseCloses, ReadsAll, WritesAll, NotEarly, AllRun, AllAnswered, EachFires |
| CoroThreads | 1 calling thread, 2 machines, 2 tasks; or a thread of its own with 2 coroutines on one stack; 0.46 million states | OwnStack, AssertionsHold, FramesKept, OwnerAlive, FpuWordsSet |
| CoroNested (violation) | a coroutine calls go() | AssertionsHold |
| QueueTwo | 2 producers, one of up to 6 elements in calls of 3, the other of 2; 2 consumers, one call each of 1 to 3 elements; 2 blocks of 2; any allocation may fail; 1.5 million states | AssertionsHold, TakenRight, OnePlace, Counted |

Each property is stated in words above its definition.

Why these bounds. Two tasks are one that moves and one that is left behind; a
third is added where machines steal. One p is what the code runs with
(scheduler.cpp:89 sets `p_count = 1`); two are needed for stealing, so that SchedSteal
is about a p_count that the code computes and then overwrites. The
violations have one. Three machines are one that runs, one in a system call or parked, and
one that join creates or wakes meanwhile. `MaxQueueLen` is 2, so that queues
fill, where the code has 8; `StealRounds` is 1 for 4, the rounds being equal.
Symmetry is used in safety runs only: over tasks with the same program, and over
machines that init has not created. `FewNodes` (run SchedPop) bounds to two the nodes
ever pushed on a list: when a pop is split the popped nodes have to stay in the
state, because another pop may still hold them. CHECK_DEADLOCK is FALSE in
SchedPop, where two overlapping pops can lose the only p and then nothing is left
to do, and in MListOnePopper, where the use of a wild `next` ends the process.

ProcessTwo has two callers, so that one finds the scheduler half made, and two
programs that open, close and open again while the other is at it. Files and buffers
have 3 blocks, so that a request may be the second of three, and a write that is
repeated from the start may step over the end of its buffer. A timeout of 2 lasts
longer than the interval of 1, may come before or behind it on libuv's list of handles,
and may be cleared at any moment; a task's setInterval, which differs from
step_loop's in who adds it, is left to the proofs.
In ChannelFour six items pass through two places, so that the channel is emptied and
filled again.
CoroThreads lets frames be 3 or 19 words deep: 3 is copied by pairs and a last
word, 19 is past the 8 pairs and goes to memcpy. `Word` is 2^28 for 2^64, with a
size just below it so that the overflow test of new2 is met. QueueTwo has two
blocks for producers that fill four between them, so that a block goes through the
free list and from one producer to another, and both an enqueue and an index
allocation fail in some behaviours (no call of the run starts at a block boundary
with an earlier block behind it, concurrentqueue.h:2623: the theorems have that); BlockSize 2 stands for 32, and the first index
of 2 entries for 32, which makes it grow.

Fairness. Each thread is weakly fair: the kernel runs it. libuv runs the callback
of every completed request although the timer of step_loop keeps firing, hence
strong fairness of `Callback`. In Process and MList a thread that wants the mutex
gets it; in Process each takes it once, in MList only calls that have begun are
fair. Process has weak fairness for what is done for each caller and for each timer,
one thing after the other, for the loop thread's start and the end of each callback,
and for time; nothing makes a program clear a timer, or a condition variable's wait
return by itself (WakesUnasked and SpuriousWake have no fairness). The loop thread is back in
uv_run after each callback of FileIo and Timer (none of them waits), so weak
fairness is enough there; that step_loop's own callback can loop is checked in
SchedLive. Channel is fair to every thread that is not waiting, and not to spurious
wake-ups, so that AllRead does not lean on them.
All fairness of Process and Channel ends with the process (`Ended`, `crashed`).

## What the runs show

* With the places named by the windows closed, the scheduler keeps its p's and
  tasks: SchedLive checks that none is lost and that every task ends, except in
  one way: step_loop's `while (p_idle.pop(p))` can go on for ever, when each
  machine it wakes finds nothing and puts its p back in time (`Chasing`).
  `DoneUnlessChasing` excludes only that.
* With join and parking preempted (SchedSyscall) the p's still have one holder
  each. SchedLive has no machine without a p where one is needed; with join preempted
  (SchedLive's invariant BoundWhereUsed with Windows = {"bind"} and Program <- SyscallPlain)
  its late store overwrites the mark of a system call, and the machine comes out of it
  without a p, up to a join(nullptr) (scheduler.cpp:121). A machine never pushes
  through a null p even then: a task that has made a system call is not actived again.
* NoBoundSleeper (SchedLostWakeup), OneRunner (SchedEarlyAnswer) and libaco's
  assertions (CoroNested) fail, each in one window or under one use of the code.
  SchedEarlyAnswer needs no second p: the coroutine has made a system call before, so that
  its p is with another machine.
  All three are under "findings" in PROJECT.json, with the words of the repository that
  they contradict.
* The instances of other runs show four more places where the code does not do what it
  says; each is one constant or one property away:
  * ProcessTwo with EarlyNotify = TRUE: AllRun fails. A notification that comes before the
    wait is lost and the first go() hangs, where scheduler.cpp:74 says that the main thread
    is told to go on.
  * ProcessTwo with the invariant LoopBeforeMachines: a wait that returns by itself lets
    machines run before background has opened the loop, which is what scheduler.cpp:100 waits
    for. _co is set before any task is made in every case.
  * ProcessTwo with the invariant WritesInOrder: a partial write starts again from the
    buffer's first byte (uv_fs.cpp:107), where uv_fs.cpp:105 speaks of the next piece. A
    write that returns has written as many blocks as it was asked to, and into its own
    file; one that steps over the end of its buffer (`Overshot`) never returns, which
    AllAnswered excepts.
  * ChannelFour with the invariant NoFault: the next of the last node, uninitialised
    (channel.h:15), becomes head (channel.h:72), and a reader follows it. ChannelFour shows
    what is left: until the process ends at such a head, items come out in order, and if
    every next happens to be null everything is read.
* With one thread that makes tasks, a task's way from `_co` to the machines' main
  coroutines and from machine to machine always leads back to the thread that
  resumed it (CoroThreads), and frames on a shared stack survive any order of
  resumes, exits and destructions.
* In ProcessTwo one thread serves timers and files without starving either.
* The queue of concurrentqueue.h keeps its blocks and its counts when allocations
  fail halfway: on the instance of QueueTwo, and by proof on every other.
* Met on the way and not kept as runs: with a spurious return of
  pthread_cond_wait a machine runs while it is on `m_idle`, join can bind a second
  p to it, and NoBoundSleeper fails; with overlapping pops
  PInOnePlace and TaskNotLost fail; a bare `aco_yield` after an asynchronous call
  loses the task, since nothing sets `state` back to actived; a coroutine that makes
  an asynchronous call after a system call goes to `global_tasks` when no p is idle
  and is resumed before its answer (ResumedAfterAnswer).
* Channel's AllRead needs at most 2 * max_len threads: with more a writer's
  notify_one can go to another writer, and TLC finds all of them asleep (max_len 1,
  two writers, two readers).
* The end of every read closes descriptor 0 (`_close` uses `fs_req.result`, which is
  0 then), the next open gets 0, and fs::close closes the File cached under 0 along
  with its own. ProcessTwo shows that files under other descriptors are safe.
* ProcessTwo with LateErase = TRUE: CloseCloses fails, fs::close erases the
  entry of a file that was opened between its two statements (uv_fs.cpp:160).
* CoroThreads with two callers and Overlap = TRUE: OwnStack fails, the yield of one
  constructor goes to the aco_resume of the other's thread (task.cpp:22). With a
  second caller FpuWordsSet fails: only the thread of the first go() calls
  aco_thread_init (scheduler.cpp:137), so another thread's task starts with control
  words that are zero (aco.c:348).
* clearTimeout frees a timer whose uv_timer_t nobody has closed (uv_timer.cpp:63), so that
  the next handle that is linked or unlinked beside it writes to freed memory, and a
  request or a callback under way reads it. Timer has this as `stray`; no property is about it
  because nothing in the repository says when a timer may be cleared. co_sleep's timers are
  never freed.

## What is proved

| theorem | states | how |
|---|---|---|
| TypeCorrect, ControlCorrect, ReadsCorrect | `Spec => []TypeOK`, `[]ControlOK`, `[]ReadsOK` | their conjunction `IInv` is inductive; one lemma per action and conjunct |
| PNeverShared, ParkedNeverBusy | `Orderly => (Spec => []PInOnePlace)`, `[]ParkedIsFree` | `FullInv == IInv /\ BindInv` is inductive |
| ThievesCounted | `Spec => []ThiefCounted` | `ThiefInv`: thief is the Cardinality of the finite set of machines that steal |
| BoundAlwaysWhereUsed | `"bind" \notin Windows => (Spec => []BoundWhereUsed)` | `UnboundInv` over `IInv` |
| NeverAsleepWithP | `Orderly /\ "park" \notin Windows => (Spec => []NoBoundSleeper)` | `SleepInv` over `FullInv` |
| QueuesBounded | `Orderly => (Spec => []QueueBounded)` | `LenInv` over `FullInv` |
| TasksNeverTwice, RunsOnOne, ResumedWhenAnswered | `Calm => (Spec => []TaskNotTwice)`, `[]OneRunner`, `[]ResumedAfterAnswer` | `TaskInv` over `IInv` |
| TasksNeverLost | `Calm /\ NoBareYield => (Spec => []TaskNotLost)` | `LostInv` over `TaskInv` |
| OneSchedulerAlways, CoBeforeTasksAlways | `Spec => []OneScheduler`, `[]CoBeforeTasks` | `StartInv` |
| NeverEarly | `Spec => []NotEarly` | `TimerInv` |
| FileKeptAlways, CloseClosesAlways | `~ LateErase /\ UsesOpenFiles => (Spec => []FileKept)`, `[]CloseCloses` | `FileInv` |
| ReadsAllAlways | the same and `ReadsFromStart => (Spec => []ReadsAll)` | `ReadInv` over `FileInv` |
| WritesAllAlways | `~ LateErase /\ UsesOpenFiles => (Spec => []WritesAll)` | `WriteInv` over `FileInv` |
| OwnStackAlways | `OneAtATime => (Spec => []OwnStack)` | `CallInv` |
| FpuWordsSetAlways | `OneAtATime /\ OneCaller => (Spec => []FpuWordsSet)` | `FpuInv` over `CallInv` |
| OwnerAliveAlways | `OneAtATime => (Spec => []OwnerAlive)` | `OwnInv` over `CallInv` |
| FramesKeptAlways | `OneAtATime => (Spec => []FramesKept)` | `FrameInv` over both |
| AssertionsAlwaysHold | `OneAtATime /\ FramesFit => (Spec => []AssertionsHold)` | `RoomInv` over both |
| AlwaysForward | `Spec => []Forward` | `ChainInv` |
| AlwaysNoNullHead, AlwaysInOrder | `Spec => []NoNullHead`, `[]InOrder` | an invariant about the one popping thread over `ChainInv` |
| QueueCounted | `Spec => []Counted` | `CountInv`, over the types of the threads' locals |
| QueueAsserts, QueueTakes, QueueOnePlace | `Spec => []AssertionsHold`, `[]TakenRight`, `[]OnePlace` | `IInv == CountedInv /\ Rest` of QueueProofs is inductive |
| ImplementsFifo | `Spec => IsFifo` | `ChannelInv` relates head, idx and the nodes, a wild head included; the initial state and each step map to the abstract one |

They hold for every value of the constants, under the ASSUMEs of the modules
(finite P, distinct names, positive bounds). Each invariant was checked by TLC on
small instances before it was proved. The premises of a theorem are about constants:
which schedules a run may have, or what programs do. Each is met by a run's instance, or
by one with its window closed, and each is there for a reason: what TLC finds without it
is under "What the runs show" or below.

**SchedulerProofs.** TypeOK and ControlOK need each other:
that `local[mp[m]]` is a queue of tasks after a push needs that the machine has a
p there (the guard), and what pop returns has its type because the node that it has read is one
of the list it pops, which is ReadsOK. UnboundInv is about
machines without a p alone: where they are, and that those with a task are marked blocked;
only a machine itself gives its p away, and join is given one. `Orderly` says that pops are not
split and that pthread_cond_wait returns for a signal only; "park", "bind" and "early"
may be open. PInOnePlace is not
inductive: BindInv adds that p_idle and m_idle have no element twice, that machines
on m_idle are at the wait, that a machine marked blocked, parked or unborn has no
p, and that a blocked machine has a task. It is stated with `OneHolder`, a holder
of each p being p_idle, a machine or a caller of join; a step leaves holders alone
(`KeepHolders`) or moves one p (`MoveP`). ListOpsProofs has the lemmas about lists:
what push and pop do to `Content`, and that the operators keep their types.

*How long a queue is* (the second half of SchedulerProofs). Few of the pushes look at a length first. `LenInv` says for every place in the code that may still push
what is true of the queue there: a machine that drains global_tasks or
robs another queue came with an empty queue of its own and its counter says how many more
it may add; a machine that holds a task has left room for it; the p that go or
step_loop holds came from p_idle, where every p's queue is empty. The holders of a p are
one at a time by PNeverShared, so that two such promises never meet on one queue.

*Where a task is.* `Holds(k, x, t)` says that t is on global_tasks, on the queue of
p x, with machine x or in the argument of go on thread x. `TaskInv` has: no
queue has a task twice (Lists), at most one place holds t (Once), what the main
thread still has is nowhere and what libuv has is at most on the machine that issued it
(Apart), and what the coroutine's past calls say of its machine (Calls, OnRun,
MachineTask). Each step is a `Moves(s, k, x)`: s goes to one place and every other task
stays; nineteen of the machine's twenty-four actions move nothing. `Calm` has three premises.
Pops are not split, else two threads pop one task. A callback waits until the machine has
let go of its coroutine ("early" closed): SchedEarlyAnswer shows two machines running one
coroutine otherwise. And no coroutine makes an asynchronous call after a system
call (`SleepsFirst`): its machine comes back without a p, and if none is idle it
puts the task on global_tasks whatever its state (machine.cpp:178-186), from where
it is resumed before the answer. Spurious wake-ups and the preemption of join and of
parking are allowed. TasksNeverLost needs one more, `NoBareYield`: after an asynchronous call
`state` says polling until a system call sets it, and a bare aco_yield in between has the
machine drop a task that nobody will bring back. `LostInv` keeps, beside the claim,
that a task in state polling has made an asynchronous call since its last system call, and that a
machine about to let go of a polling task has its request with libuv.

**ProcessProofs** is about Process, whose steps are those of Startup, FileIo and
Timer: a step of one part leaves the variables of the others alone. `StartInv` has one
caller at a time in the locked part of go(). `TimerInv` adds up, for each timer, what
it has waited and what is left. `FileInv` follows each open file from the kernel through cache_fd to
the coroutine that opened it; it needs that fs::close is not preempted between its two
statements, when another open may get its descriptor (`LateErase`), and that programs
use a file between its open and its close (`UsesOpenFiles`), since a
descriptor that has been closed may be another coroutine's. `ReadsFromStart` says
that a read follows its open: a second read starts where the first has stopped and
returns what is left. `WriteInv` says that what a write's file has been given is what
`chunk` has counted and the request has moved, whether requests are partial or not;
it needs FileInv, since the blocks must go to the coroutine's own file.

**CoroutineProofs.** `OneAtATime` says that no two constructors overlap, that
coroutines call no go(), and that a program that uses libaco itself does so on one thread.
`CallInv` has the thread that executes t find t in aco_gtls_co, and its own stack in the
registers of t's main coroutine, which names t as the one it has resumed; then acosw leads
back to where aco_resume was called. `OneCaller` is needed for the FPU words, which only
the first caller's thread sets. `OwnInv` ties a
stack's owner to its coroutines, `FrameInv` says where the frames of a suspended
coroutine are and that all its words are there, for frames of any depth: aco_resume's
copy by pairs and the memcpy beyond it are one lemma (`AllCopied`). `FramesFit` is what the
assertions of aco_yield need: frames of at most 507 words, which is a
page of 4096 bytes less what new2 keeps at the ends; new2 rounds smaller sizes up
to it.

**QueueProofs.** The counters of a producer are shared by any number of consumers
between their three accesses, so that opt - over is not head until the last of them
is through: `CountInv` adds what each of them has claimed and not yet taken or given
back (`Held`). How much of its claim a consumer takes depends on where the tail is
when it looks, which may be later than now; `CountInv` therefore says of every
`last` from the tail on that head plus what is taken if the tail is then at `last`
does not pass it. Sums over the consumers are numbers of pairs (`Total`), which needs no
recursion, and a step moves one consumer's share (`Conserves`). Overflow is
never subtracted twice because `over` only grows: the one read before the claim is at
most the present one.

The other three properties of ConcurrentQueue need one another and are proved from one
inductive invariant, `IInv`. A consumer finds its element only if the index names the right
block, the block is there only if nobody else has it, and nobody else has it only if the one
who freed it knew that all of its elements had been taken, which is what the counters say. Beside
CountInv, IInv has these parts.

* `IndexInv`: an index is a ring of slots, each naming an entry, and several generations of it
  are in use at once, as a consumer may have loaded one before new_block_index doubled it.
  A phase for each generation says which slot is that of the block number k. All generations
  name the blocks in use by the same entries (`Chained`), an entry with a block has the key of
  the one block that its slot can stand for, less than `cap` behind the newest
  (`Keyed`), and a consumer in a dequeue is at the slot of the block it is to read
  (`FindsRight`). The phase is under an \E: it is nowhere in the code, and
  new_block_index starts the new one so that both agree (`GrowNow`).
* `LiveInv`: a block with an element that somebody will still take is in the index (`Backed`);
  its cells hold those elements and elementsCompletelyDequeued counts the others (`Filled`); a
  block without any stays until the one consumer that emptied it takes it out (`Emptied`);
  claims do not overlap and stay below head (`Apart`). `Unread` is the set of the elements to
  come: those from head on, and those claimed and not yet taken out.
* `CallInv`: what an enqueue_bulk that is under way has found and has still to find.
* `PlaceInv`: each block is in exactly one place (`Once`); the list of free blocks is a stack
  (`ListInv`); freeListRefs is the number of readers of a block, with one for being on the
  list and two for a block just taken (`Refs`). What a thread in try_get has
  read of a block stays true while it holds a reference (`Linked`), so that its CAS is not fooled by a
  block that has been taken and put back meanwhile.
* `PoolInv`: threads go to the free list only when the pool is used up, and as many
  blocks are fresh as the pool has left.

QueueProofs has these definitions, arithmetic (blocks and remainders), and the steps that leave
the indices alone; QueueIndexProofs has the others, in the order of the code: a new index, an
entry inserted, a block found, a call that fails, the elements constructed, then the claim
of a dequeue, the elements taken and the block forgotten. Each is a lemma
`IInv /\ <action> => Rest'`; most are in two steps, what is named where after the
action (`SetNames`, `MoveNames`) and what follows for the elements (`SetLive`, `MoveLive`).
The quantifiers of IInv over phases, stacks and places have no bounds. TLC has checked it on the
instance of QueueTwo with bounds put in (phases from 0 to 7), in the 380609 states in which
malloc has refused no block while there was one.

These theorems hold for any number of producers, consumers, blocks and calls, calls of
any size, and whether or not malloc refuses. `SizesArePowers` has the sizes of blocks and indices powers
of two from 2 to 64: the header's static_asserts say powers of two, libgco uses the default of 32, and
the bound of 64 is there because the solvers divide only by numbers that they are given.

Where a fact needs induction on a number (the least free descriptor of the
kernel), it is had from the least element of a set of naturals (`LeastNat`, from the
library's well-foundedness of < on Nat), which needs no operator as a parameter.

Only model-checked: everything under fairness (DoneUnlessChasing, CallsReturn, AllRead,
AllRun, AllAnswered, EachFires), since TLAPS has no ENABLED. Every invariant of
a passing run is stated by a theorem. SchedLive checks ResumedAfterAnswer and TaskNotLost with the window "early" open on a
program of one asynchronous call, where they hold too; for all programs they are
proved with it closed.

## Not modelled

* Scheduler: `m_run` and the filter of step_loop that reads it; `go` on a machine's
  thread as far as queues go (Coroutine has what it does to the thread);
  get_coprimes and the order in which p's are robbed.
* libuv: its timers, asyncs and thread pool are modelled from how src/ uses them.
  That uv_async_init and uv_fs_open are called off the loop thread is a race
  inside libuv, and has no model here.
* uv_fs: kernel errors other than a closed descriptor or too many open ones, what
  the buffer of a read holds, the race inside the std::map.
* libaco: the start-up test of structure layouts, and the protector for a coroutine
  that returns without aco_exit, which co_box never does.
* concurrentqueue.h: explicit producers and tokens, the hash from thread to
  producer, moving and destroying a queue, elements whose copies throw,
  MAX_SUBQUEUE_SIZE (not set), the wrap-around of indices, and memory orders weaker
  than sequential consistency: a TLA+ state has one value for each variable, so an
  error that needs a reordered load is out of reach of QueueTwo. The blocks that a call
  has linked through `Block::next` are a sequence of the thread's own, so that a write to the
  next of another's block would not show; the three loads of a dequeue's first test are
  one step, which leaves out claims smaller than the ones it makes.
* uv_net: the makefile does not build it and nothing calls it. Its callbacks keep
  references to parameters of calls that have returned and use a client that was
  never constructed; there is no behaviour to be faithful to.
* `__test.cpp` is a benchmark; `_t1.cpp` is written for an older mlist and does not
  compile.

## Plan

1. An abstract task pool (a task is waiting, running or done) that Scheduler
   implements when the windows are closed, by the steps of TaskInv.
2. RunList: `m_run` with its pushes, del and the filter of step_loop; Coprime: that
   the strides of get_task visit every p.
