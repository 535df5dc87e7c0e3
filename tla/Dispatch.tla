------------------------------ MODULE Dispatch ------------------------------
(***************************************************************************)
(* From a complete message to the reply on the send queue.  The epoll      *)
(* thread E hands messages to the logic threads, each of which verifies    *)
(* its message, runs the handler under the client's logicPorcMutex and     *)
(* calls msgSend() in it; msgSend() may close the client in turn.  With E, *)
(* the timer thread T, the recycle thread R and the send thread S these    *)
(* are all the threads of a worker process that take a mutex, and this     *)
(* module has every mutex they take.  One under which nothing else is      *)
(* locked is taken and released in one step, which waits for an owner all  *)
(* the same; holder has those that are kept while others are asked for.    *)
(* (logic/ngx_c_slogic.cxx, net/ngx_c_socket.cxx, ngx_c_socket_conn.cxx,   *)
(* ngx_c_socket_time.cxx, misc/ngx_c_threadpool.cxx.)                      *)
(*                                                                         *)
(* The receive queue is handed over to and taken from in one step each, as *)
(* WorkPool has it, which ThreadPool is shown to implement.  A connection  *)
(* object serves one client, and what a mutex protects is kept only as far *)
(* as the replies depend on it: the lists themselves are ConnPool's,       *)
(* SendQueue's and TimerQueue's subject.                                   *)
(***************************************************************************)
EXTENDS Crc32, FiniteSets

CONSTANTS
  Workers, Conns, NoConn,
  E, S, T, R,    \* the other threads
  Nobody,        \* no owner of a mutex
  Kinds, Packet, \* the messages of clients, and what each consists of
  SizeRegister, SizeLogin,  \* sizeof(STRUCT_REGISTER), sizeof(STRUCT_LOGIN)
  MaxMsgs,       \* bound on the messages handed over
  Leavers,       \* bound on the clients that E and T close
  QueueMax,      \* the literal 50000 of msgSend()
  BacklogMax     \* the literal 400 of msgSend()

(* The mutexes: one logicPorcMutex for each connection, and four others.   *)
Shared == {"send", "time", "recy", "conn"}
Mutexes == Conns \cup Shared
Threads == Workers \cup {E, S, T, R}

(* body is what arrived of the body that was sent with the checksum crc32. *)
ASSUME DispatchAssumption ==
  /\ IsFiniteSet(Workers) /\ Workers # {} /\ Workers \cap {E, S, T, R} = {}
  /\ Cardinality({E, S, T, R}) = 4
  /\ Nobody \notin Threads /\ NoConn \notin Conns /\ Conns \cap Shared = {}
  /\ Packet \in [Kinds -> [conn : Conns, code : Nat, body : Seq(SUBSET Byte),
                           crc32 : SUBSET Word, sent : Seq(SUBSET Byte)]]
  /\ MaxMsgs \in Nat /\ Leavers \subseteq Conns /\ QueueMax \in Nat /\ BacklogMax \in Nat

VARIABLES
  msgs,      \* history: every message handed over
  taken,     \* history: how many of them were taken
  done,      \* history: the messages processed and freed
  job,       \* the message of each worker, 0 when it has none
  holder,    \* owner of each mutex
  pc, tgt,   \* each thread: where it is, and the connection it closes
  state,     \* "live", "parked" (sequence number moved on) or "pooled"
  backlog,   \* iSendCount
  sendq,     \* m_MsgSendQueue: the messages the packages on it reply to
  sem,       \* m_semEventSendQueue
  replied,   \* history: the messages whose reply was put on the send queue
  dropped    \* history: those whose reply msgSend() freed instead

poolVars == <<msgs, taken, done, job>>
sendVars == <<backlog, sendq, sem, replied, dropped>>
vars == <<poolVars, holder, pc, tgt, state, sendVars>>

Start == [t \in Threads |->
            CASE t = S -> "wait" [] t = T -> "look" [] t = R -> "scan" [] OTHER -> "idle"]

Init ==
  /\ msgs = <<>> /\ taken = 0 /\ done = {} /\ job = [w \in Workers |-> 0]
  /\ holder = [l \in Mutexes |-> Nobody]
  /\ pc = Start /\ tgt = [t \in Threads |-> NoConn]
  /\ state = [c \in Conns |-> "live"] /\ backlog = [c \in Conns |-> 0]
  /\ sendq = <<>> /\ sem = 0 /\ replied = {} /\ dropped = {}

-----------------------------------------------------------------------------
(* CLock, pthread_mutex_lock and their ends.                               *)

Goto(t, to) == pc' = [pc EXCEPT ![t] = to]
Step(t, from, to) == pc[t] = from /\ Goto(t, to)
Lock(t, l) == holder[l] = Nobody /\ holder' = [holder EXCEPT ![l] = t]
Unlock(l) == holder' = [holder EXCEPT ![l] = Nobody]
Pass(l) == holder[l] = Nobody /\ UNCHANGED holder

-----------------------------------------------------------------------------
(* threadRecvProcFunc(): what a message must be to reach its handler, and  *)
(* what the handlers themselves send away.                                 *)

(* A message without a body must have the checksum 0.                      *)
Intact == {k \in Kinds :
  Packet[k].crc32 = IF Packet[k].body = <<>> THEN {} ELSE Get_CRC(Packet[k].body)}

HasHandler(k) ==
  <<Packet[k].code, Len(Packet[k].body)>> \in {<<0, 0>>, <<5, SizeRegister>>, <<6, SizeLogin>>}

Handled(k) == k \in Intact /\ HasHandler(k)

ConnOf(m) == Packet[msgs[m]].conn
Conn(w) == ConnOf(job[w])

(* E hands over a message of a client it has not seen close.               *)
Post(k) ==
  /\ pc[E] = "idle" /\ state[Packet[k].conn] = "live" /\ Len(msgs) < MaxMsgs
  /\ msgs' = Append(msgs, k)
  /\ UNCHANGED <<taken, done, job, holder, pc, tgt, state, sendVars>>

(* Mutant: pop_back() for pop_front().                                     *)
TakeNewest(w) ==
  /\ Step(w, "idle", "check") /\ taken < Len(msgs)
  /\ \E i \in 1..Len(msgs) :
       /\ i \notin done /\ \A v \in Workers : job[v] # i
       /\ \A j \in i + 1..Len(msgs) : j \in done \/ \E v \in Workers : job[v] = j
       /\ job' = [job EXCEPT ![w] = i]
  /\ taken' = taken + 1
  /\ UNCHANGED <<msgs, done, holder, tgt, state, sendVars>>

Take(w) ==
  /\ Step(w, "idle", "check") /\ taken < Len(msgs)
  /\ taken' = taken + 1
  /\ job' = [job EXCEPT ![w] = taken + 1]
  /\ UNCHANGED <<msgs, done, holder, tgt, state, sendVars>>

(* FreeMemory(jobbuf), and back to the receive queue.                      *)
Free(w) == done' = done \cup {job[w]} /\ job' = [job EXCEPT ![w] = 0]

(* The checksum, the sequence number, the message code and the length.     *)
Accepted(w) == Handled(msgs[job[w]]) /\ state[Conn(w)] = "live"
Check(w) ==
  /\ \/ Step(w, "check", "logic") /\ Accepted(w) /\ UNCHANGED poolVars
     \/ Step(w, "check", "idle") /\ ~Accepted(w) /\ Free(w) /\ UNCHANGED <<msgs, taken>>
  /\ UNCHANGED <<holder, tgt, state, sendVars>>

(* The handler: CLock lock(&pConn->logicPorcMutex), then the reply is put  *)
(* together from a copy of the message's header.                           *)
LockLogic(w) ==
  /\ Step(w, "logic", "send") /\ Lock(w, Conn(w))
  /\ UNCHANGED <<poolVars, tgt, state, sendVars>>

LockSend(w) ==
  /\ Step(w, "send", "queue") /\ Lock(w, "send")
  /\ UNCHANGED <<poolVars, tgt, state, sendVars>>

-----------------------------------------------------------------------------
(* msgSend(), as SendQueue has it.                                         *)
TooLong == Len(sendq) > QueueMax
TooSlow(c) == backlog[c] > BacklogMax

ReplyDropped(w) ==
  /\ Step(w, "queue", "unlock") /\ TooLong
  /\ dropped' = dropped \cup {job[w]} /\ Unlock("send")
  /\ UNCHANGED <<poolVars, tgt, state, backlog, sendq, sem, replied>>

(* Mutant: the package is queued, and freed, before the client is cut off. *)
ReplyCutsOffLate(w) ==
  /\ Step(w, "queue", "close") /\ ~TooLong /\ TooSlow(Conn(w))
  /\ dropped' = dropped \cup {job[w]}
  /\ sendq' = Append(sendq, job[w]) /\ replied' = replied \cup {job[w]}
  /\ tgt' = [tgt EXCEPT ![w] = Conn(w)]
  /\ UNCHANGED <<poolVars, holder, state, backlog, sem>>

ReplyCutsOff(w) ==
  /\ Step(w, "queue", "close") /\ ~TooLong /\ TooSlow(Conn(w))
  /\ dropped' = dropped \cup {job[w]}
  /\ tgt' = [tgt EXCEPT ![w] = Conn(w)]
  /\ UNCHANGED <<poolVars, holder, state, backlog, sendq, sem, replied>>

(* Mutant: iSendCount is not raised.                                       *)
ReplyUncounted(w) ==
  /\ Step(w, "queue", "unlock") /\ ~TooLong /\ ~TooSlow(Conn(w))
  /\ sendq' = Append(sendq, job[w]) /\ replied' = replied \cup {job[w]}
  /\ sem' = sem + 1 /\ Unlock("send")
  /\ UNCHANGED <<poolVars, tgt, state, backlog, dropped>>

ReplyQueued(w) ==
  /\ Step(w, "queue", "unlock") /\ ~TooLong /\ ~TooSlow(Conn(w))
  /\ backlog' = [backlog EXCEPT ![Conn(w)] = @ + 1]
  /\ sendq' = Append(sendq, job[w]) /\ replied' = replied \cup {job[w]}
  /\ sem' = sem + 1 /\ Unlock("send")
  /\ UNCHANGED <<poolVars, tgt, state, dropped>>

(* The client was cut off: msgSend() returns.                              *)
ReplyReturns(w) ==
  /\ Step(w, "closed", "unlock") /\ Unlock("send")
  /\ UNCHANGED <<poolVars, tgt, state, sendVars>>

(* Mutant: the handler returns without releasing the client's mutex.       *)
ReturnLocked(w) ==
  /\ Step(w, "unlock", "idle") /\ Free(w)
  /\ UNCHANGED <<msgs, taken, holder, tgt, state, sendVars>>

Return(w) ==
  /\ Step(w, "unlock", "idle") /\ Unlock(Conn(w)) /\ Free(w)
  /\ UNCHANGED <<msgs, taken, tgt, state, sendVars>>

-----------------------------------------------------------------------------
(* zdClosesocketProc() in thread t.  A worker is in msgSend() then and     *)
(* goes on there; E and T start over.                                      *)

DeleteFromTimerQueue(t) ==
  /\ Step(t, "close", "park") /\ Pass("time")
  /\ UNCHANGED <<poolVars, tgt, state, sendVars>>

InRecyConnectQueue(t) ==
  /\ Step(t, "park", IF t \in Workers THEN "closed" ELSE Start[t]) /\ Pass("recy")
  /\ state' = [state EXCEPT ![tgt[t]] = IF @ = "live" THEN "parked" ELSE @]
  /\ tgt' = [tgt EXCEPT ![t] = NoConn]
  /\ UNCHANGED <<poolVars, sendVars>>

(* E: the client is gone.                                                  *)
EClose(c) ==
  /\ c \in Leavers /\ Step(E, "idle", "close") /\ state[c] = "live"
  /\ tgt' = [tgt EXCEPT ![E] = c]
  /\ UNCHANGED <<poolVars, holder, state, sendVars>>

(* T: the timers that are due are taken off under the mutex; a client is   *)
(* checked, and closed, after it is released.                              *)
TCheckWith(held) ==
  /\ holder["time"] = Nobody
  /\ \E c \in Leavers :
       /\ Step(T, "look", "close") /\ state[c] = "live"
       /\ tgt' = [tgt EXCEPT ![T] = c]
  /\ holder' = [holder EXCEPT !["time"] = held]
  /\ UNCHANGED <<poolVars, state, sendVars>>

(* Mutant: it is checked before m_timequeueMutex is released.              *)
TCheckLocked == TCheckWith(T)

TCheck == TCheckWith(Nobody)

-----------------------------------------------------------------------------
(* R: ServerRecyConnectionThread frees the parked connections whose time   *)
(* has come with the recycle list's mutex held; ngx_free_connection()      *)
(* takes m_connectionMutex.                                                *)
RLock ==
  /\ Step(R, "scan", "free") /\ Lock(R, "recy")
  /\ \E c \in Conns : state[c] = "parked" /\ tgt' = [tgt EXCEPT ![R] = c]
  /\ UNCHANGED <<poolVars, state, sendVars>>

RFree ==
  /\ pc[R] = "free" /\ holder["conn"] = Nobody
  /\ state' = [state EXCEPT ![tgt[R]] = "pooled"]
  /\ \/ /\ Goto(R, "scan") /\ Unlock("recy")
        /\ tgt' = [tgt EXCEPT ![R] = NoConn]
     \/ \E c \in Conns : /\ c # tgt[R] /\ state[c] = "parked"
                         /\ tgt' = [tgt EXCEPT ![R] = c] /\ UNCHANGED <<pc, holder>>
  /\ UNCHANGED <<poolVars, sendVars>>

-----------------------------------------------------------------------------
(* S: one scan of the send queue for each post of the semaphore.           *)
SWake ==
  /\ Step(S, "wait", IF sendq = <<>> THEN "wait" ELSE "lock") /\ sem > 0
  /\ sem' = sem - 1
  /\ UNCHANGED <<poolVars, holder, tgt, state, backlog, sendq, replied, dropped>>

(* The packages are sent, or freed if their connection has moved on.       *)
SScan ==
  /\ Step(S, "lock", "wait") /\ Pass("send")
  /\ sendq' = <<>>
  /\ backlog' = [c \in Conns |->
       IF state[c] # "live" THEN backlog[c]
       ELSE backlog[c] - Cardinality({i \in 1..Len(sendq) : ConnOf(sendq[i]) = c})]
  /\ UNCHANGED <<poolVars, tgt, state, sem, replied, dropped>>

-----------------------------------------------------------------------------
WStep(w) ==
  \/ Take(w) \/ Check(w) \/ LockLogic(w) \/ LockSend(w) \/ ReplyDropped(w)
  \/ ReplyCutsOff(w) \/ ReplyQueued(w) \/ ReplyReturns(w) \/ Return(w)
CloseStep(t) == DeleteFromTimerQueue(t) \/ InRecyConnectQueue(t)

Next ==
  \/ \E w \in Workers : WStep(w) \/ CloseStep(w)
  \/ CloseStep(E) \/ CloseStep(T) \/ TCheck \/ RLock \/ RFree \/ SWake \/ SScan
  \/ \E c \in Conns : EClose(c)
  \/ \E k \in Kinds : Post(k)

Spec == Init /\ [][Next]_vars

(* The logic threads run, and get a mutex they wait for in the end: nobody *)
(* holds one for longer than a scan, and R sleeps between two.             *)
FairSpec ==
  /\ Spec /\ WF_vars(RFree)
  /\ \A w \in Workers : SF_vars(WStep(w) \/ CloseStep(w))

-----------------------------------------------------------------------------
(* Properties.                                                             *)

Locals == {"idle", "check", "logic", "send", "queue", "close", "park", "closed",
           "unlock", "look", "scan", "free", "wait", "lock"}

(* Types; a client never has less than no package on the queue.            *)
TypeOK ==
  /\ msgs \in Seq(Kinds) /\ Len(msgs) <= MaxMsgs
  /\ taken \in 0..Len(msgs) /\ done \in SUBSET (1..taken)
  /\ job \in [Workers -> 0..taken]
  /\ holder \in [Mutexes -> Threads \cup {Nobody}]
  /\ pc \in [Threads -> Locals] /\ tgt \in [Threads -> Conns \cup {NoConn}]
  /\ state \in [Conns -> {"live", "parked", "pooled"}]
  /\ backlog \in [Conns -> Nat] /\ sem \in Nat
  /\ sendq \in Seq(1..taken)
  /\ replied \in SUBSET (1..taken) /\ dropped \in SUBSET (1..taken)

(* Which mutex a thread asks for where it is, and which it has.            *)
Wants(t) ==
  CASE pc[t] = "logic" -> {Conn(t)}
    [] pc[t] \in {"send", "lock"} -> {"send"}
    [] pc[t] \in {"close", "look"} -> {"time"}
    [] pc[t] \in {"park", "scan"} -> {"recy"}
    [] pc[t] = "free" -> {"conn"}
    [] OTHER -> {}

Blocked == {t \in Threads : \E l \in Wants(t) : holder[l] # Nobody}

(* No deadlock: never do some threads all wait for one another, or one for *)
(* itself, although a handler holds its client's mutex and the send        *)
(* queue's while it closes a connection, which takes two more.             *)
NoCircularWait ==
  \A D \in SUBSET Blocked :
    D # {} => \E t \in D : \E l \in Wants(t) : holder[l] \notin D

(* README problem 4 says that the replies of a client may leave in another *)
(* order than its requests.  How far: a message at a worker has at most as *)
(* many earlier ones unfinished as there are other workers.                *)
OvertakingBounded ==
  \A w \in Workers : job[w] # 0 =>
    Cardinality({m \in 1..job[w] - 1 : m \notin done}) <= Cardinality(Workers) - 1

(* A reply is queued or dropped, never both; and a message with a handler, *)
(* from a client that is still there, is left without an answer only if    *)
(* msgSend() dropped it.                                                   *)
AnsweredOnce ==
  /\ replied \cap dropped = {}
  /\ \A m \in done : Handled(msgs[m]) /\ state[ConnOf(m)] = "live" =>
       m \in replied \cup dropped

(* A client that uses CRC-32 as it is defined is understood, and a body    *)
(* that was damaged on its way never reaches a handler.                    *)
Sound(k) == Packet[k].body = Packet[k].sent /\ HasHandler(k)
SoundAnswered ==
  /\ \A m \in replied \cup dropped : Sound(msgs[m])
  /\ \A m \in done : state[ConnOf(m)] = "live" /\ Sound(msgs[m]) => m \in replied \cup dropped

(* Every message handed over is finished, no handler is stuck on a mutex:  *)
(* at most MaxMsgs come, and again and again all so far are done.          *)
EachFinished == []<>(done = 1..Len(msgs))

=============================================================================
