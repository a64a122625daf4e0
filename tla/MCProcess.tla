----------------------------- MODULE MCProcess ------------------------------
(* Two first callers, whose tasks use files; the one that writes also asks for a timeout. *)
EXTENDS Process, TLC

CONSTANTS a, b, i1, tick, once

ReadAndWrite ==
    (a :> <<"open", "read", "close">>)
    @@ (b :> <<"open", "write", "close", "open">>)

\* step_loop's timer and a timeout.
TickAndOnce == (tick :> "main") @@ (once :> "timeout")
Delays == (tick :> 1) @@ (once :> 2)
OnceByWriter == once :> b
=============================================================================
