----------------------------- MODULE Coroutine ------------------------------
(***************************************************************************)
(* libaco under task.cpp and go(): which stack a thread executes on, the   *)
(* registers that acosw saves in an aco_t, the thread-local aco_gtls_co,   *)
(* and the frames of coroutines that share a stack, copied to a save       *)
(* stack and back.  A thread also names its own stack and, if it runs      *)
(* coroutines, its main coroutine; Shared is _co, the main coroutine that  *)
(* the constructor of every task uses, on whatever thread.                 *)
(*                                                                         *)
(* libgco gives every task a stack of its own.  The coroutines in Lib are  *)
(* those of a thread that uses libaco by itself, with its own main         *)
(* coroutine, and may share one.  Memory is counted in words of 8 bytes;   *)
(* the word below align_retptr is word 1 of a stack.                       *)
(***************************************************************************)
EXTENDS Integers, FiniteSets

CONSTANTS
    Caller,      \* threads that call go, the first one included
    Machine,     \* threads of machines
    LibThread,   \* threads that use libaco directly
    Task,        \* coroutines
    Lib,         \* those that LibThread creates, runs and destroys
    Stack,       \* share stacks
    StackOf,     \* the stack that each coroutine is given
    Depths,      \* how many words of frames a coroutine may have when it yields
    MaxWords,    \* bound on Depths
    Yields,      \* bound on the calls of aco_yield in a coroutine
    Sizes,       \* arguments of aco_share_stack_new2 for the stacks of Lib
    Addresses,   \* what mmap and malloc may return for them
    Word,        \* 2^64, the number of values of size_t
    Overlap,     \* may the constructors of two tasks overlap?
    Nested,      \* may a coroutine call go?
    Shared,      \* _co
    None         \* NULL

Thread == Caller \cup Machine \cup LibThread
Main == {Shared} \cup Machine \cup LibThread

ASSUME NamesDiffer ==
    /\ Caller \cap Machine = {} /\ LibThread \cap (Caller \cup Machine) = {}
    /\ Thread \cap Task = {} /\ Shared \notin Thread \cup Task
    /\ None \notin Thread \cup Task \cup {Shared}
ASSUME TasksHaveStacks == Lib \subseteq Task /\ StackOf \in [Task -> Stack]
ASSUME OwnStacks ==
    \A t \in Task \ Lib : \A u \in Task : StackOf[t] = StackOf[u] => t = u
ASSUME BoundAssumption ==
    MaxWords \in Nat /\ Depths \subseteq 1 .. MaxWords /\ Yields \in Nat
ASSUME SizeAssumption ==
    Sizes \subseteq Nat /\ Addresses \subseteq Nat /\ Word \in Nat \ {0}
ASSUME WindowAssumption == Overlap \in BOOLEAN /\ Nested \in BOOLEAN

VARIABLES
    sched,   \* whether the first go() has made _co
    fpu,     \* threads that aco_thread_init has saved the FPU words of
    gco,     \* aco_gtls_co of each thread
    at,      \* the stack each thread executes on, and whether its FPU words are good
    reg,     \* the registers in each aco_t, and resume_co of the frame they are in
    co,      \* main_co, is_end and age of each coroutine; age counts its yields
    stack,   \* owner and words of each share stack, and its measures
    save,    \* the save stack of each coroutine
    ready,   \* coroutines that some queue or variable of the program holds
    abort    \* which kind of assertion has ended the process

vars == <<sched, fpu, gco, at, reg, co, stack, save, ready, abort>>

Words == 1 .. MaxWords
NoWords == [i \in Words |-> None]

\* The process is one of libgco, or one that uses libaco itself.
Init ==
    /\ sched = FALSE
    /\ fpu = {}
    /\ gco = [x \in Thread |-> None]
    /\ at = [x \in Thread |-> [stk |-> x, fpu |-> TRUE]]
    /\ reg = [k \in Task \cup Main |-> [stk |-> None, fpu |-> FALSE, sp |-> 0, res |-> None]]
    /\ \E used \in {Lib, Task \ Lib} :
          co = [t \in Task |-> [life |-> IF t \in used THEN "unborn" ELSE "absent",
                               main |-> None, end |-> FALSE, age |-> 0]]
    /\ stack = [s \in Stack |-> [owner |-> None, words |-> NoWords, area |-> None]]
    /\ save = [t \in Task |-> [sz |-> 8, valid |-> 0, words |-> NoWords]]
    /\ ready = {}
    /\ abort = "no"

Abort(kind) ==
    /\ abort' = kind
    /\ UNCHANGED <<sched, fpu, gco, at, reg, co, stack, save, ready>>

\* What a definition just before another one with the same parameters says, and
\* nothing uses, is a slip that the properties are checked to notice.

-----------------------------------------------------------------------------
(* aco_share_stack_new2: sizes in bytes. *)

PageSz == 4096

RoundDown(n, unit) == (n \div unit) * unit

\* The size with a guard page and whole pages, or an assertion.
Padded(sz) ==
    IF sz <= PageSz THEN 2 * PageSz
    ELSE (RoundDown(sz, PageSz) + (IF sz % PageSz # 0 THEN 2 ELSE 1) * PageSz) % Word

AtLeast(sz) == IF sz = 0 THEN 1024 * 1024 * 2 ELSE IF sz < 4096 THEN 4096 ELSE sz

TooLarge(sz, guard) == guard /\ Padded(AtLeast(sz)) < AtLeast(sz)

\* real_ptr is where mmap or malloc puts the area, ptr what is used of it.
Area(sz, guard, address) ==
    LET whole == IF guard THEN Padded(AtLeast(sz)) ELSE AtLeast(sz)
        ptr == address + IF guard THEN PageSz ELSE 0
        size == whole - IF guard THEN PageSz ELSE 0
        high == RoundDown(size - 16 + ptr, 16)
    IN [real |-> address, ptr |-> ptr, sz |-> size,
        high |-> high, ret |-> high - 8, limit |-> size - 16 - 16]

\* The words that a copy of n words moves: 16 bytes at a time from the far end and
\* then word 1 when there are 16k + 8 bytes of them, k at most 8; otherwise memcpy.
InPairs(n) == n % 2 = 1 /\ n \div 2 <= 8
CopiedPairs(n) == IF InPairs(n) THEN {n - o : o \in 0 .. 2 * (n \div 2) - 1} ELSE 1 .. n
Copied(n) == IF InPairs(n) THEN {n - o : o \in 0 .. 2 * (n \div 2) - 1} \cup {1} ELSE 1 .. n

Overlaid(old, new, n) == [i \in Words |-> IF i \in Copied(n) THEN new[i] ELSE old[i]]

\* save_stack.sz, in words, shifted until it is large enough.
Doubled(sz, n) ==
    LET enough == {m \in {sz * 2 ^ k : k \in 0 .. MaxWords} : m >= n}
    IN CHOOSE m \in enough : \A o \in enough : m <= o

-----------------------------------------------------------------------------
(* aco_resume, aco_yield and aco_exit. *)

Saved(o, s) ==
    LET n == reg[o].sp
        small == save[o].sz < n
    IN [sz |-> IF small THEN Doubled(save[o].sz, n) ELSE save[o].sz,
        valid |-> n,
        words |-> Overlaid(IF small THEN NoWords ELSE save[o].words, stack[s].words, n)]

\* The assertions on the depth of the frames that are copied.
Fits(c, area) ==
    LET o == stack[StackOf[c]].owner
    IN /\ o \notin {None, c} => 8 * reg[o].sp <= area.limit - 8
       /\ o # c => 8 * save[c].valid <= area.limit - 8

\* The frames of the owner of c's stack go to its save stack, and c's come from its
\* own; c is then the owner.
NotOwner(c) == None
Owner(c) == c

TakeStack(c, area) ==
    LET s == StackOf[c]
        o == stack[s].owner
    IN /\ save' = IF o \in {None, c} THEN save ELSE [save EXCEPT ![o] = Saved(o, s)]
       /\ stack' = [stack EXCEPT ![s] =
              IF o = c THEN @
              ELSE [owner |-> Owner(c), area |-> area,
                    words |-> Overlaid(@.words, save[c].words, save[c].valid)]]

\* acosw(main, c) by thread x in aco_resume(c): main's registers are those of x,
\* and x goes on where c has been, or at its start.
SwitchTo(x, c, main, word) ==
    /\ reg' = [reg EXCEPT ![main] = [stk |-> at[x].stk, fpu |-> at[x].fpu, sp |-> 0, res |-> c]]
    /\ at' = [at EXCEPT ![x] = [stk |-> c, fpu |-> word]]
    /\ gco' = [gco EXCEPT ![x] = c]
    /\ co' = [co EXCEPT ![c].main = main, ![c].life = "live"]
    /\ ready' = ready \ {c}

\* x is in acosw(c, main): it goes on in the aco_resume that saved main's registers,
\* which sets aco_gtls_co and returns the coroutine to whoever resumed it.
Land(x, main) ==
    LET resumed == reg[main].res
    IN /\ at' = [at EXCEPT ![x] = [stk |-> reg[main].stk, fpu |-> reg[main].fpu]]
       /\ gco' = [gco EXCEPT ![x] = co[resumed].main]
       /\ ready' = IF co'[resumed].end THEN ready ELSE ready \cup {resumed}

\* What acosw saves in the aco_t of c.
Leave(x, c, depth) == [reg EXCEPT ![c] =
    [stk |-> at[x].stk, fpu |-> at[x].fpu, sp |-> depth, res |-> None]]

Executing(t) == \E x \in Thread : at[x].stk = t

\* Thread x executes coroutine code, for which aco_yield and aco_exit use gco[x].
InCoroutine(x) == abort = "no" /\ at[x].stk \in Task

Yield(x) ==
    /\ InCoroutine(x)
    /\ LET c == gco[x]
           e == at[x].stk
       IN /\ co[e].age <= Yields
          /\ IF c \notin Task THEN Abort("co")
             ELSE \E depth \in Depths :
                 /\ co' = [co EXCEPT ![e].age = @ + 1]
                 /\ stack' = [stack EXCEPT ![StackOf[e]].words =
                       [i \in Words |-> IF i <= depth THEN <<e, co[e].age + 1>> ELSE @[i]]]
                 /\ Land(x, co[c].main)
                 /\ reg' = Leave(x, c, depth)
                 /\ UNCHANGED <<sched, fpu, save, abort>>

OwnerStays(c) == stack[StackOf[c]].owner
OwnerGone(c) == None

Exit(x) ==
    /\ InCoroutine(x)
    /\ LET c == gco[x]
       IN /\ co[at[x].stk].age > 0
          /\ IF c \notin Task \/ stack[StackOf[c]].owner # c THEN Abort("co")
             ELSE /\ co' = [co EXCEPT ![c].end = TRUE]
                  /\ stack' = [stack EXCEPT ![StackOf[c]].owner = OwnerGone(c)]
                  /\ Land(x, co[c].main)
                  /\ reg' = Leave(x, c, 1)
                  /\ UNCHANGED <<sched, fpu, save, abort>>

-----------------------------------------------------------------------------
(* What libgco, and a program that uses libaco itself, do with it. *)

Native(x) == abort = "no" /\ at[x].stk = x

\* aco_thread_init, in the first go(), in m_loop, and by a user of libaco.
InitedNot(x) == fpu
Inited(x) == fpu \cup {x}

FirstGo(x) ==
    /\ Native(x) /\ ~ sched /\ \E t \in Task \ Lib : co[t].life = "unborn"
    /\ sched' = TRUE /\ fpu' = Inited(x)
    /\ UNCHANGED <<gco, at, reg, co, stack, save, ready, abort>>

ThreadInit(x) ==
    /\ Native(x) /\ x \notin fpu
    /\ x \in Machine => sched
    /\ fpu' = fpu \cup {x}
    /\ UNCHANGED <<sched, gco, at, reg, co, stack, save, ready, abort>>

\* A thread that runs co_box for the first time is in the constructor of a task.
Constructing(y) == at[y].stk \in Task \ Lib /\ co[at[y].stk].age = 0

MayConstruct(x, t) ==
    IF t \in Lib THEN x \in LibThread \cap fpu /\ Native(x)
    ELSE /\ sched
         /\ \/ x \in Caller /\ Native(x)
            \/ Nested /\ x \in Machine /\ InCoroutine(x)
         /\ Overlap \/ \A y \in Thread : ~ Constructing(y)

Areas(t) ==
    LET s == StackOf[t]
    IN IF stack[s].area # None THEN {stack[s].area}
       ELSE IF t \notin Lib THEN {Area(0, TRUE, a) : a \in {b \in Addresses : b % PageSz = 0}}
       ELSE {Area(sz, TRUE, a) : sz \in {n \in Sizes : ~ TooLarge(n, TRUE)},
                                 a \in {b \in Addresses : b % PageSz = 0}}
            \cup {Area(sz, FALSE, a) : sz \in Sizes, a \in {b \in Addresses : b % 16 = 0}}

\* aco_share_stack_new, aco_create and the first aco_resume, as in the constructor
\* of a task: co_box takes its function and yields.
Construct(x, t) ==
    /\ MayConstruct(x, t) /\ co[t].life = "unborn"
    /\ \E area \in Areas(t) :
          IF ~ Fits(t, area) THEN Abort("co")
          ELSE /\ TakeStack(t, area)
               /\ SwitchTo(x, t, IF t \in Lib THEN x ELSE Shared, x \in fpu)
               /\ UNCHANGED <<sched, fpu, abort>>

NewTooLarge(x, t) ==
    /\ MayConstruct(x, t) /\ t \in Lib /\ stack[StackOf[t]].area = None
    /\ \E sz \in Sizes : TooLarge(sz, TRUE)
    /\ Abort("size")

\* task::run, with the main coroutine of the machine's thread.
MainAsMade(x, t) == co[t].main
MainOfThread(x, t) == x

Run(x, t) ==
    /\ Native(x) /\ x \in fpu /\ t \in ready
    /\ IF t \in Lib THEN x \in LibThread ELSE x \in Machine
    /\ IF ~ Fits(t, stack[StackOf[t]].area) THEN Abort("co")
       ELSE /\ TakeStack(t, stack[StackOf[t]].area)
            /\ SwitchTo(x, t, MainOfThread(x, t), reg[t].fpu)
            /\ UNCHANGED <<sched, fpu, abort>>

Destroy(x, t) ==
    /\ Native(x) /\ x \in LibThread /\ t \in Lib
    /\ co[t].life = "live"
    /\ co' = [co EXCEPT ![t].life = "freed"]
    /\ stack' = [stack EXCEPT ![StackOf[t]].owner = IF @ = t THEN None ELSE @]
    /\ save' = [save EXCEPT ![t].words = NoWords]
    /\ ready' = ready \ {t}
    /\ UNCHANGED <<sched, fpu, gco, at, reg, abort>>

DestroyStack(x, s) ==
    /\ Native(x) /\ x \in LibThread
    /\ stack[s].area # None
    /\ \A t \in Task : StackOf[t] = s => t \in Lib /\ co[t].life # "live"
    /\ stack' = [stack EXCEPT ![s] = [owner |-> None, words |-> NoWords, area |-> None]]
    /\ UNCHANGED <<sched, fpu, gco, at, reg, co, save, ready, abort>>

-----------------------------------------------------------------------------
Over ==
    /\ abort # "no" \/ \A t \in Task : co[t].end \/ co[t].life \in {"absent", "freed"}
    /\ UNCHANGED vars

Next ==
    \/ \E x \in Caller : FirstGo(x)
    \/ \E x \in Machine \cup LibThread : ThreadInit(x)
    \/ \E x \in Thread : Yield(x) \/ Exit(x)
    \/ \E x \in Thread, t \in Task :
          Construct(x, t) \/ NewTooLarge(x, t) \/ Run(x, t) \/ Destroy(x, t)
    \/ \E x \in Thread, s \in Stack : DestroyStack(x, s)
    \/ Over

Spec == Init /\ [][Next]_vars

-----------------------------------------------------------------------------
(* Properties. *)

\* No two threads execute on one stack, and outside coroutines each thread is on
\* its own: what aco_yield switches to is the aco_resume of the same thread,
\* although _co and the tasks go from thread to thread.
OwnStack ==
    \A x, y \in Thread :
        /\ at[x].stk \in {x} \cup Task
        /\ x # y /\ at[x].stk \in Task /\ at[y].stk \in Task
              => StackOf[at[x].stk] # StackOf[at[y].stk]

\* The assertions of aco_resume, aco_yield and aco_exit hold.
AssertionsHold == abort # "co"

\* The frames that a coroutine had at its last aco_yield are on its stack while it
\* executes or owns the stack, and else on its save stack, whole.
FramesKept ==
    \A t \in Task : co[t].life = "live" /\ ~ co[t].end =>
        LET s == StackOf[t]
            kept == IF Executing(t) \/ stack[s].owner = t THEN stack[s].words ELSE save[t].words
        IN \A i \in 1 .. reg[t].sp : kept[i] = <<t, co[t].age>>

\* The owner of a share stack, whose frames the next aco_resume there will copy, is
\* a coroutine that exists and has not ended.
OwnerAlive ==
    \A s \in Stack : LET o == stack[s].owner
                     IN o # None => co[o].life = "live" /\ ~ co[o].end

\* No thread executes with an x87 control word and an MXCSR that nobody has set,
\* which would unmask every floating-point exception.
FpuWordsSet == \A x \in Thread : at[x].fpu
=============================================================================
