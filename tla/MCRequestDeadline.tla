------------------------- MODULE MCRequestDeadline -------------------------
(***************************************************************************)
(* Small instances of RequestDeadline for TLC; a tick is five seconds.     *)
(* The margin is 30 s, the cold start up to 20 s.  Transit is one tick,    *)
(* the most that stays below the 10 s left for it: with the whole 10 s the *)
(* answer and the timer of the deadline would be due at the same instant.  *)
(***************************************************************************)
EXTENDS RequestDeadline

MCPerCalls == {0, 1, 4}
MCManuals == {0, 1, 3}
MCClientDefaults == {0, 2}
MCOpDefaults == {0, 1, 2}
MCTimeouts == {2, 12}
=============================================================================
