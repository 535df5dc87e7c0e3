---------------------------- MODULE MCConnPool ----------------------------
(* Instance of ConnPool: one user admitted at a time, one object more than *)
(* the surge test lets the pool grow to, and one logic thread beside the   *)
(* timer thread.                                                           *)
EXTENDS ConnPool
CONSTANTS l, a, b, d, logic, timer
MCConns == {l, a, b, d}
MCInitPool == {l}
MCListeners == {l}
MCLogic == {logic}
=============================================================================
