---------------------------- MODULE MCCoroutine -----------------------------
(* Two tasks made by one thread and run by two machines; a thread of libaco's own. *)
EXTENDS Coroutine, TLC

CONSTANTS g1, m1, m2, l, t1, t2, u1, u2, s1, s2, s3

Placed == (t1 :> s1) @@ (t2 :> s2) @@ (u1 :> s3) @@ (u2 :> s3)
PlacedTasks == (t1 :> s1) @@ (t2 :> s2)
=============================================================================
