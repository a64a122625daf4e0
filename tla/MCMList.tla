------------------------------ MODULE MCMList ------------------------------
(***************************************************************************)
(* A thread that pops, and one that calls everything that takes the mutex: *)
(* two of those would only wait for each other.                            *)
(***************************************************************************)
EXTENDS MList, TLC

CONSTANTS a, b, v, w

OnePopper == (a :> {"pop", "len"}) @@ (b :> {"push", "del", "filter"})
FreshOrWild == {0, Wild}
=============================================================================
