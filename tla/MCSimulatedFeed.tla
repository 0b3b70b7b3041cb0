--------------------------- MODULE MCSimulatedFeed ---------------------------
(* SimulatedFeed for TLC: a session of Count frames, each with a body of its  *)
(* own.                                                                       *)
EXTENDS SimulatedFeed

SessionNumbers == 0 .. Count

MCBody == 1 .. Count

MCSession == [s \in 1 .. Count |-> [seq |-> s, body |-> s]]
=============================================================================
