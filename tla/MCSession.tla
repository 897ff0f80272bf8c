--------------------------- MODULE MCSession ---------------------------
(* A session in memory that any other object has used before, for TLC. *)
EXTENDS Session

MCSlots == 1 .. 3
MCGarbage == [live : {FALSE}, state : States, sent : {Never, 0, SentMax}, idle : {IdleMax}]
===========================================================================
