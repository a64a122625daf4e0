---------------------------- MODULE MCScheduler ----------------------------
(***************************************************************************)
(* Instances of Scheduler for TLC.  Every run has one or two p's, the      *)
(* machines init creates for them and one or two more, and at most three   *)
(* tasks whose programs are one of those below.                            *)
(***************************************************************************)
EXTENDS Scheduler, TLC

CONSTANTS t1, t2, t3, p1, p2, m1, m2, m3

OneP == p1 :> m1
TwoP == (p1 :> m1) @@ (p2 :> m2)

\* Coroutines that only return.
Plain(ts) == [t \in ts |-> << >>]
PlainTwo  == Plain({t1, t2})
PlainThree == Plain({t1, t2, t3})

\* A system call beside a plain coroutine, both kinds of call, and a
\* system call followed by an asynchronous one.
SyscallPlain == (t1 :> <<"syscall", "yield">>) @@ (t2 :> << >>)
YieldSleep == (t1 :> <<"syscall">>) @@ (t2 :> <<"yield", "sleep">>)
SyscallSleep == (t1 :> <<"syscall", "sleep">>) @@ (t2 :> << >>)

\* Nodes ever on a list, where pops in two halves keep the popped ones.
FewNodes == \A name \in {"global", "p_idle", "m_idle"} \cup P : Len(ListAt(name).log) <= 2

AllTasks == Permutations({t1, t2, t3})
NewMachines == Permutations({m2, m3})
=============================================================================
