-------------------------- MODULE MCRecoveringFeed --------------------------
(* RecoveringFeed for TLC: a session of Messages frames, each with a body of  *)
(* its own, and a window smaller than the session, so that buffered frames    *)
(* evict one another.                                                         *)
EXTENDS RecoveringFeed

CONSTANT Messages

SessionNumbers == 0 .. Messages

MCBody == 1 .. Messages

MCSession == [s \in 1 .. Messages |-> [seq |-> s, body |-> s]]
=============================================================================
