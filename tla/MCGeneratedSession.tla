------------------------- MODULE MCGeneratedSession -------------------------
(* GeneratedSession for TLC: a pool that a session can fill, and a symbol    *)
(* more than the book has.                                                    *)
EXTENDS GeneratedSession

MCOrderIds == 1 .. messages

OneTrade == {<<1, 1>>}
=============================================================================
