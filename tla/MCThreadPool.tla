--------------------------- MODULE MCThreadPool ---------------------------
(* Instance of ThreadPool: three logic threads.                            *)
EXTENDS ThreadPool
CONSTANTS w1, w2, w3
MCWorkers == {w1, w2, w3}
=============================================================================
