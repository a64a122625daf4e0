-------------------------- MODULE MCConcurrentQueue -------------------------
(* Instances of ConcurrentQueue for TLC. *)
EXTENDS ConcurrentQueue, TLC

CONSTANTS p, q, c, d

CountsOf == p :> {3} @@ q :> {2}
LimitOf == p :> 6 @@ q :> 2
MaxesOf == c :> {1, 2} @@ d :> {3}
TriesOf == c :> 1 @@ d :> 1
=============================================================================
