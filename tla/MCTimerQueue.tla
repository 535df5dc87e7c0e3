---------------------------- MODULE MCTimerQueue ----------------------------
(* Instance of TimerQueue: two clients, which may get the same descriptor. *)
EXTENDS TimerQueue, TLC
CONSTANTS c1, c2
MCConns == {c1, c2}
Symm == Permutations(MCConns)
=============================================================================
