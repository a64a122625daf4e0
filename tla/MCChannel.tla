----------------------------- MODULE MCChannel -----------------------------
(* Two writers and two readers, as in channel.cpp. *)
EXTENDS Channel, TLC

CONSTANTS w1, w2, r1, r2

AnyNext == {0, Wild}
=============================================================================
