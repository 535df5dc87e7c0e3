----------------------------- MODULE ThreadPool -----------------------------
(***************************************************************************)
(* CThreadPool (misc/ngx_c_threadpool.cxx): the logic threads of a worker  *)
(* process.  The epoll thread, Main here, creates them, hands every        *)
(* complete message to them through m_MsgRecvQueue, and would stop them.   *)
(* A condition variable is the set of the threads that wait on it.         *)
(* Messages are numbered in the order they are handed over.                *)
(***************************************************************************)
EXTENDS Integers, Sequences, FiniteSets

CONSTANTS
  Workers,       \* the threads of m_threadVector
  Main, Nobody,  \* the other values of the mutex's owner
  MaxMsgs,       \* bound on the messages handed over
  Stops          \* TRUE: StopAll() may be called

ASSUME ThreadAssumption ==
  /\ IsFiniteSet(Workers) /\ Main \notin Workers /\ Nobody \notin Workers \cup {Main}
  /\ MaxMsgs \in Nat /\ Stops \in BOOLEAN

VARIABLES
  queue,     \* m_MsgRecvQueue
  count,     \* m_iRecvMsgQueueCount
  running,   \* m_iRunningThreadNum
  shutdown,  \* m_shutdown
  up,        \* ifrunning of each thread
  mutex,     \* the owner of m_pthreadMutex
  waiting,   \* the threads blocked on m_pthreadCond
  pc,        \* where each worker is in ThreadFunc
  job,       \* jobbuf of each worker, 0 when it has none
  pcM,       \* where Main is
  posted, taken, done  \* history: handed over, taken off, processed and freed

mainVars == <<pcM, posted>>
vars == <<queue, count, running, shutdown, up, mutex, waiting, pc, job, pcM,
          posted, taken, done>>

Init ==
  /\ queue = <<>> /\ count = 0 /\ running = 0 /\ shutdown = FALSE
  /\ up = [w \in Workers |-> FALSE] /\ mutex = Nobody /\ waiting = {}
  /\ pc = [w \in Workers |-> "none"] /\ job = [w \in Workers |-> 0]
  /\ pcM = "create" /\ posted = 0 /\ taken = 0 /\ done = {}

-----------------------------------------------------------------------------
(* Create(): start the threads, then poll until each has reached its wait. *)

CreateThread(w) ==
  /\ pcM = "create" /\ pc[w] = "none"
  /\ pc' = [pc EXCEPT ![w] = "lock"]
  /\ UNCHANGED <<queue, count, running, shutdown, up, mutex, waiting, job,
                 mainVars, taken, done>>

AwaitRunning ==
  /\ pcM = "create" /\ \A w \in Workers : up[w]
  /\ pcM' = "idle"
  /\ UNCHANGED <<queue, count, running, shutdown, up, mutex, waiting, pc, job,
                 posted, taken, done>>

-----------------------------------------------------------------------------
(* ThreadFunc.                                                             *)

WLock(w) ==
  /\ pc[w] = "lock" /\ mutex = Nobody
  /\ mutex' = w
  /\ pc' = [pc EXCEPT ![w] = "test"]
  /\ UNCHANGED <<queue, count, running, shutdown, up, waiting, job, mainVars,
                 taken, done>>

(* The condition of the while loop.                                        *)
WTest(w) ==
  /\ pc[w] = "test"
  /\ pc' = [pc EXCEPT ![w] = IF queue = <<>> /\ ~shutdown THEN "sleep" ELSE "out"]
  /\ UNCHANGED <<queue, count, running, shutdown, up, mutex, waiting, job,
                 mainVars, taken, done>>

(* pthread_cond_wait: releases the mutex and waits in one step.            *)
WSleep(w) ==
  /\ pc[w] = "sleep"
  /\ up' = [up EXCEPT ![w] = TRUE]
  /\ waiting' = waiting \cup {w} /\ mutex' = Nobody
  /\ pc' = [pc EXCEPT ![w] = "waiting"]
  /\ UNCHANGED <<queue, count, running, shutdown, job, mainVars, taken, done>>

(* It may also return without a signal.                                    *)
WSpurious(w) ==
  /\ w \in waiting
  /\ waiting' = waiting \ {w}
  /\ UNCHANGED <<queue, count, running, shutdown, up, mutex, pc, job, mainVars,
                 taken, done>>

(* Mutant: "if" for "while", the condition is not tested again.            *)
WWakeUntested(w) ==
  /\ pc[w] = "waiting" /\ w \notin waiting /\ mutex = Nobody
  /\ mutex' = w
  /\ pc' = [pc EXCEPT ![w] = "out"]
  /\ UNCHANGED <<queue, count, running, shutdown, up, waiting, job, mainVars,
                 taken, done>>

WWake(w) ==
  /\ pc[w] = "waiting" /\ w \notin waiting /\ mutex = Nobody
  /\ mutex' = w
  /\ pc' = [pc EXCEPT ![w] = "test"]
  /\ UNCHANGED <<queue, count, running, shutdown, up, waiting, job, mainVars,
                 taken, done>>

WExit(w) ==
  /\ pc[w] = "out" /\ shutdown
  /\ mutex' = Nobody
  /\ pc' = [pc EXCEPT ![w] = "gone"]
  /\ UNCHANGED <<queue, count, running, shutdown, up, waiting, job, mainVars,
                 taken, done>>

(* Mutant: front() without pop_front().                                    *)
WTakeNoPop(w) ==
  /\ pc[w] = "out" /\ ~shutdown
  /\ job' = [job EXCEPT ![w] = Head(queue)]
  /\ count' = count - 1 /\ taken' = taken + 1
  /\ mutex' = Nobody
  /\ pc' = [pc EXCEPT ![w] = "begin"]
  /\ UNCHANGED <<queue, running, shutdown, up, waiting, mainVars, done>>

WTake(w) ==
  /\ pc[w] = "out" /\ ~shutdown
  /\ job' = [job EXCEPT ![w] = Head(queue)]
  /\ queue' = Tail(queue) /\ count' = count - 1 /\ taken' = taken + 1
  /\ mutex' = Nobody
  /\ pc' = [pc EXCEPT ![w] = "begin"]
  /\ UNCHANGED <<running, shutdown, up, waiting, mainVars, done>>

WBegin(w) ==
  /\ pc[w] = "begin"
  /\ running' = running + 1
  /\ pc' = [pc EXCEPT ![w] = "run"]
  /\ UNCHANGED <<queue, count, shutdown, up, mutex, waiting, job, mainVars,
                 taken, done>>

(* threadRecvProcFunc() and FreeMemory().                                  *)
WRun(w) ==
  /\ pc[w] = "run"
  /\ done' = done \cup {job[w]}
  /\ job' = [job EXCEPT ![w] = 0]
  /\ pc' = [pc EXCEPT ![w] = "end"]
  /\ UNCHANGED <<queue, count, running, shutdown, up, mutex, waiting, mainVars,
                 taken>>

WEnd(w) ==
  /\ pc[w] = "end"
  /\ running' = running - 1
  /\ pc' = [pc EXCEPT ![w] = "lock"]
  /\ UNCHANGED <<queue, count, shutdown, up, mutex, waiting, job, mainVars,
                 taken, done>>

-----------------------------------------------------------------------------
(* inMsgRecvQueueAndSignal().                                              *)

MLock ==
  /\ pcM = "idle" /\ posted < MaxMsgs /\ mutex = Nobody
  /\ mutex' = Main
  /\ pcM' = "push"
  /\ UNCHANGED <<queue, count, running, shutdown, up, waiting, pc, job, posted,
                 taken, done>>

(* Mutant: ++m_iRecvMsgQueueCount left out.                                *)
MPushUncounted ==
  /\ pcM = "push"
  /\ posted' = posted + 1 /\ queue' = Append(queue, posted + 1)
  /\ mutex' = Nobody
  /\ pcM' = "signal"
  /\ UNCHANGED <<count, running, shutdown, up, waiting, pc, job, taken, done>>

MPush ==
  /\ pcM = "push"
  /\ posted' = posted + 1 /\ queue' = Append(queue, posted + 1)
  /\ count' = count + 1
  /\ mutex' = Nobody
  /\ pcM' = "signal"
  /\ UNCHANGED <<running, shutdown, up, waiting, pc, job, taken, done>>

(* Mutants: a signal only for the message that ends an empty queue, and a  *)
(* signal left out while a thread is at work.                              *)
MSignalFirst ==
  /\ pcM = "signal"
  /\ IF waiting = {} \/ Len(queue) # 1 THEN waiting' = waiting
     ELSE \E w \in waiting : waiting' = waiting \ {w}
  /\ pcM' = "idle"
  /\ UNCHANGED <<queue, count, running, shutdown, up, mutex, pc, job, posted,
                 taken, done>>
MSignalNobody ==
  /\ pcM = "signal"
  /\ pcM' = "idle"
  /\ UNCHANGED <<queue, count, running, shutdown, up, mutex, waiting, pc, job,
                 posted, taken, done>>

(* Call(): pthread_cond_signal, after the mutex was released.              *)
MSignal ==
  /\ pcM = "signal"
  /\ IF waiting = {} THEN waiting' = waiting
     ELSE \E w \in waiting : waiting' = waiting \ {w}
  /\ pcM' = "idle"
  /\ UNCHANGED <<queue, count, running, shutdown, up, mutex, pc, job, posted,
                 taken, done>>

-----------------------------------------------------------------------------
(* StopAll(), which takes no mutex, and the destructor.                    *)

MStop ==
  /\ Stops /\ pcM = "idle"
  /\ shutdown' = TRUE
  /\ pcM' = "broadcast"
  /\ UNCHANGED <<queue, count, running, up, mutex, waiting, pc, job, posted,
                 taken, done>>

MBroadcast ==
  /\ pcM = "broadcast"
  /\ waiting' = {}
  /\ pcM' = "join"
  /\ UNCHANGED <<queue, count, running, shutdown, up, mutex, pc, job, posted,
                 taken, done>>

MJoin ==
  /\ pcM = "join" /\ \A w \in Workers : pc[w] = "gone"
  /\ pcM' = "stopped"
  /\ UNCHANGED <<queue, count, running, shutdown, up, mutex, waiting, pc, job,
                 posted, taken, done>>

MClear ==
  /\ pcM = "stopped"
  /\ queue' = <<>>
  /\ pcM' = "exit"
  /\ UNCHANGED <<count, running, shutdown, up, mutex, waiting, pc, job, posted,
                 taken, done>>

WStep(w) ==
  \/ WLock(w) \/ WTest(w) \/ WSleep(w) \/ WWake(w) \/ WExit(w)
  \/ WTake(w) \/ WBegin(w) \/ WRun(w) \/ WEnd(w)

(* The steps of Main inside a call, which it does not choose to take.      *)
MStep == AwaitRunning \/ MPush \/ MSignal \/ MBroadcast \/ MJoin \/ MClear

Next == \/ \E w \in Workers : CreateThread(w) \/ WStep(w) \/ WSpurious(w)
        \/ MStep \/ MLock \/ MStop

Spec == Init /\ [][Next]_vars

(* Threads that can run do; nobody is obliged to post or to stop.          *)
FairSpec ==
  /\ Spec /\ WF_vars(MStep)
  /\ \A w \in Workers : WF_vars(WStep(w)) /\ WF_vars(CreateThread(w))

-----------------------------------------------------------------------------
(* Properties.                                                             *)

Locals == {"none", "lock", "test", "sleep", "waiting", "out", "begin", "run",
           "end", "gone"}

(* Types; m_iRecvMsgQueueCount and m_iRunningThreadNum never go below 0.   *)
TypeOK ==
  /\ queue \in Seq(1..MaxMsgs) /\ count \in Nat /\ running \in Nat
  /\ shutdown \in BOOLEAN /\ up \in [Workers -> BOOLEAN]
  /\ mutex \in Workers \cup {Main, Nobody} /\ waiting \in SUBSET Workers
  /\ pc \in [Workers -> Locals] /\ job \in [Workers -> 0..MaxMsgs]
  /\ pcM \in {"create", "idle", "push", "signal", "broadcast", "join",
              "stopped", "exit"}
  /\ posted \in 0..MaxMsgs /\ taken \in 0..MaxMsgs /\ done \in SUBSET (1..MaxMsgs)

(* front() is never called on an empty queue, however the threads race for *)
(* a message and whatever wakes them.                                      *)
TakesNonEmpty == \A w \in Workers : pc[w] = "out" => queue # <<>> \/ shutdown

(* m_iRecvMsgQueueCount, which other threads read without the mutex, and   *)
(* m_iRunningThreadNum, which Call() compares with the number of threads,  *)
(* are exact.                                                              *)
Busy == {w \in Workers : pc[w] \in {"run", "end"}}
CountsExact ==
  /\ pcM # "exit" => count = Len(queue)
  /\ running = Cardinality(Busy)

(* Workers that will look at the queue before they wait.                   *)
Heading == {w \in Workers : \/ pc[w] \in {"lock", "test", "out"}
                            \/ pc[w] = "waiting" /\ w \notin waiting}

(* Signalling after the unlock loses no wakeup, and one signal for each    *)
(* message is enough: while a thread waits, every message on the queue has *)
(* a thread of its own on the way to it, or the signal still to come.      *)
WorkConserving ==
  ~shutdown /\ waiting # {} =>
    Len(queue) <= Cardinality(Heading) + (IF pcM = "signal" THEN 1 ELSE 0)

(* The inductive invariant.  The mutex is held exactly where ThreadFunc    *)
(* and Main hold it, what was read under it stays true until it is         *)
(* released, and the queue is the messages posted and not yet taken.       *)
LockInv ==
  /\ \A w \in Workers : pc[w] \in {"test", "sleep", "out"} <=> mutex = w
  /\ pcM = "push" <=> mutex = Main
  /\ pcM = "push" => posted < MaxMsgs
  /\ pcM \in {"broadcast", "join", "stopped", "exit"} => shutdown
  /\ \A w \in waiting : pc[w] = "waiting"
  /\ \A w \in Workers : pc[w] = "sleep" => queue = <<>>
  /\ TakesNonEmpty

QueueInv ==
  /\ taken <= posted
  /\ pcM # "exit" =>
       /\ Len(queue) = posted - taken
       /\ \A i \in 1..Len(queue) : queue[i] = taken + i

JobInv == \A w \in Workers : job[w] # 0 <=> pc[w] \in {"begin", "run"}

Inv == TypeOK /\ LockInv /\ QueueInv /\ JobInv /\ CountsExact /\ WorkConserving

(* The pool implements the abstract one.                                   *)
Abstract == INSTANCE WorkPool
  WITH started <- taken, serving <- job, finished <- done
ImplementsWorkPool == Abstract!Spec

(* Every message handed over is processed, unless the pool is stopped.     *)
EachProcessed ==
  \A m \in 1..MaxMsgs : (m <= posted) ~> (m \in done \/ shutdown)

=============================================================================
