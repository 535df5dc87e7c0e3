------------------------------ MODULE WorkPool ------------------------------
(***************************************************************************)
(* What the logic thread pool promises its caller: the messages, numbered  *)
(* in the order they were handed over, are started in that order, each by  *)
(* one worker, and each is finished (and its memory released) once.        *)
(* ThreadPool implements this with a mutex and a condition variable.       *)
(***************************************************************************)
EXTENDS Naturals

CONSTANTS Workers, MaxMsgs

VARIABLES
  posted,    \* how many messages were handed over
  started,   \* how many of them were started
  serving,   \* the message each worker is busy with, or 0
  finished   \* the messages that are done

Init == /\ posted = 0 /\ started = 0
        /\ serving = [w \in Workers |-> 0] /\ finished = {}

Post == /\ posted < MaxMsgs
        /\ posted' = posted + 1
        /\ UNCHANGED <<started, serving, finished>>

Start(w) == /\ serving[w] = 0 /\ started < posted
            /\ started' = started + 1
            /\ serving' = [serving EXCEPT ![w] = started + 1]
            /\ UNCHANGED <<posted, finished>>

Finish(w) == /\ serving[w] # 0
             /\ finished' = finished \cup {serving[w]}
             /\ serving' = [serving EXCEPT ![w] = 0]
             /\ UNCHANGED <<posted, started>>

Next == Post \/ \E w \in Workers : Start(w) \/ Finish(w)

Spec == Init /\ [][Next]_<<posted, started, serving, finished>>

=============================================================================
