------------------------------ MODULE ConnPool ------------------------------
(***************************************************************************)
(* The connection pool of one worker process and the life of a connection  *)
(* object: taken from the free list (or created) by accept, referred to by *)
(* queued messages and timer entries, closed by any thread, parked on the  *)
(* recycle list for RecyWait seconds, and only then put back on the free   *)
(* list (net/ngx_c_socket_conn.cxx, net/ngx_c_socket_accept.cxx and the    *)
(* sequence checks of logic/ngx_c_slogic.cxx).                             *)
(*                                                                         *)
(* Threads: E runs the epoll loop (accept, read, close); the members of    *)
(* Logic run CThreadPool::ThreadFunc; Timer is the heartbeat monitor; R is *)
(* ServerRecyConnectionThread.  The two std::lists are kept as sets: every *)
(* order of the free list is allowed, the code's FIFO order among them.    *)
(***************************************************************************)
EXTENDS Integers, FiniteSets

CONSTANTS
  Conns,       \* the connection objects this worker can ever allocate
  NoConn,      \* the null pointer
  InitPool,    \* the objects initconnection() allocates
  Listeners,   \* the ones ngx_epoll_init() gives to the listening sockets
  Logic,       \* threads of the logic pool
  Timer,       \* the heartbeat monitor thread
  MaxOnline,   \* m_worker_connections
  PoolFactor,  \* the literal 5 of the surge test in ngx_event_accept
  RecyWait,    \* m_RecyConnectionWaitTime
  TimeOutKick, \* m_ifTimeOutKick = 1
  MaxHold,     \* ticks a thread may go on using a connection it looked at
  MaxQueue,    \* ticks a message may stay in the receive queue
  MaxArrivals, \* bound: clients that connect
  MaxNow       \* bound: the clock

Threads == Logic \cup {Timer}

ASSUME PoolAssumption ==
  /\ IsFiniteSet(Conns) /\ NoConn \notin Conns
  /\ Listeners \subseteq InitPool /\ InitPool \subseteq Conns
  /\ MaxOnline \in Nat \ {0} /\ Cardinality(InitPool) = MaxOnline
  /\ PoolFactor \in Nat \ {0}
  /\ RecyWait \in Nat /\ MaxHold \in Nat /\ MaxQueue \in Nat
  /\ MaxArrivals \in Nat /\ MaxNow \in Nat
  /\ TimeOutKick \in BOOLEAN
  /\ Timer \notin Logic

VARIABLES
  created,    \* m_connectionList
  free,       \* m_freeconnectionList
  recy,       \* m_recyconnectionList
  totalRecy,  \* m_totol_recyconnection_n
  online,     \* m_onlineUserCount
  seq,        \* iCurrsequence of each object
  fdOpen,     \* fd # -1
  inRecyTime, \* inRecyTime of each object
  owner,      \* history: the client an object was last given to
  arrivals,   \* history: clients accepted so far
  now,        \* time(NULL)
  pcE, newc,  \* E: program counter, the object being set up by accept
  batch,      \* E: events of the last epoll_wait not yet handled
  batchAt,    \* E: when that epoll_wait returned
  cur,        \* E: the event being handled
  refs,       \* headers (pConn, iCurrsequence) in queued messages, in timers
              \* ("timer") and in the list of those T has collected ("due")
  pcT, hold,  \* Logic and Timer: program counter, the connection in use
  pcR, rTime, rConn \* R: program counter, currtime, p_Conn

eVars == <<pcE, newc, batch, batchAt, cur>>
tVars == <<pcT, hold>>
rVars == <<pcR, rTime, rConn>>
vars == <<created, free, recy, totalRecy, online, seq, fdOpen, inRecyTime,
          owner, arrivals, now, eVars, refs, tVars, rVars>>

NoEvent == [conn |-> NoConn, client |-> 0]
NoHold  == [conn |-> NoConn, client |-> 0, since |-> 0]

-----------------------------------------------------------------------------
(* The constructor leaves iCurrsequence at 0 and GetOneToUse adds one, once *)
(* in initconnection() and once more for the objects of listening sockets.  *)
Init ==
  /\ created = InitPool
  /\ free = InitPool \ Listeners
  /\ recy = {} /\ totalRecy = 0 /\ online = 0
  /\ seq = [c \in Conns |-> IF c \in Listeners THEN 2
                            ELSE IF c \in InitPool THEN 1 ELSE 0]
  /\ fdOpen = [c \in Conns |-> c \in Listeners]
  /\ inRecyTime = [c \in Conns |-> 0]
  /\ owner = [c \in Conns |-> 0] /\ arrivals = 0
  /\ now = 0
  /\ pcE = "wait" /\ newc = NoConn
  /\ batch = {} /\ batchAt = 0 /\ cur = NoEvent
  /\ refs = {}
  /\ pcT = [t \in Threads |-> "idle"] /\ hold = [t \in Threads |-> NoHold]
  /\ pcR = "sleep" /\ rTime = 0 /\ rConn = NoConn

-----------------------------------------------------------------------------
(* Operations of the pool, shared by the threads below.                    *)

(* GetOneToUse(): a new user of the object, so a new sequence number.      *)
GetOneToUse(c) ==
  /\ seq' = [seq EXCEPT ![c] = @ + 1]
  /\ fdOpen' = [fdOpen EXCEPT ![c] = TRUE]
  /\ arrivals' = arrivals + 1
  /\ owner' = [owner EXCEPT ![c] = arrivals + 1]

(* PutOneToFree() and the push_back of ngx_free_connection(), under        *)
(* m_connectionMutex.                                                      *)
FreeConnection(c) ==
  /\ seq' = [seq EXCEPT ![c] = @ + 1]
  /\ free' = free \cup {c}

(* The first half of zdClosesocketProc(): the timer entries of the         *)
(* connection go, and its socket is closed.                                *)
ShutSocket(c) ==
  /\ refs' = {r \in refs : r.kind # "timer" \/ r.conn # c}
  /\ fdOpen' = [fdOpen EXCEPT ![c] = FALSE]

(* Mutant: the search for an earlier entry is left out.                    *)
InRecyWithoutSearch(c) ==
  /\ pcR \notin {"scan", "put"}
  /\ inRecyTime' = [inRecyTime EXCEPT ![c] = now]
  /\ seq' = [seq EXCEPT ![c] = @ + 1]
  /\ recy' = recy \cup {c}
  /\ totalRecy' = totalRecy + 1
  /\ online' = online - 1

(* Mutant: pthread_mutex_trylock, and nothing done when R has the lock.    *)
InRecyTryLock(c) ==
  IF pcR \in {"scan", "put"} \/ c \in recy
  THEN UNCHANGED <<recy, totalRecy, online, seq, inRecyTime>>
  ELSE /\ inRecyTime' = [inRecyTime EXCEPT ![c] = now]
       /\ seq' = [seq EXCEPT ![c] = @ + 1]
       /\ recy' = recy \cup {c}
       /\ totalRecy' = totalRecy + 1
       /\ online' = online - 1

(* inRecyConnectQueue(), under m_recyconnqueueMutex, which R holds while   *)
(* it scans.  A connection already on the list is left alone.              *)
InRecyConnectQueue(c) ==
  /\ pcR \notin {"scan", "put"}
  /\ IF c \in recy
     THEN UNCHANGED <<recy, totalRecy, online, seq, inRecyTime>>
     ELSE /\ inRecyTime' = [inRecyTime EXCEPT ![c] = now]
          /\ seq' = [seq EXCEPT ![c] = @ + 1]
          /\ recy' = recy \cup {c}
          /\ totalRecy' = totalRecy + 1
          /\ online' = online - 1

-----------------------------------------------------------------------------
(* E: ngx_event_accept, on an event of a listening socket.  accept4() has  *)
(* returned a socket.                                                      *)

(* Mutant: the surge test is missing.                                      *)
RefusedByUsersOnly == online >= MaxOnline

(* Too many users, or a surge of short-lived ones: close(s).               *)
Refused ==
  \/ online >= MaxOnline
  \/ /\ Cardinality(created) > MaxOnline * PoolFactor
     /\ Cardinality(free) < MaxOnline

Accept ==
  /\ pcE = "wait" /\ arrivals < MaxArrivals
  /\ IF Refused THEN arrivals' = arrivals + 1 /\ UNCHANGED pcE
                ELSE pcE' = "get" /\ UNCHANGED arrivals
  /\ batchAt' = IF batch = {} THEN now ELSE batchAt
  /\ UNCHANGED <<created, free, recy, totalRecy, online, seq, fdOpen, owner,
                 inRecyTime, now, newc, batch, cur, refs, tVars, rVars>>

(* ngx_get_connection(): a free object if there is one, else a new one.    *)
GetConnection ==
  /\ pcE = "get"
  /\ \E c \in IF free # {} THEN free ELSE Conns \ created :
       /\ free' = free \ {c}
       /\ created' = created \cup {c}
       /\ newc' = c
       /\ GetOneToUse(c)
  /\ pcE' = "add"
  /\ UNCHANGED <<recy, totalRecy, online, inRecyTime, now, batch, batchAt,
                 cur, refs, tVars, rVars>>

(* ngx_epoll_oper_event(EPOLL_CTL_ADD) succeeds, or fails and the object   *)
(* goes straight back to the free list (ngx_close_connection).             *)
EpollAdd ==
  /\ pcE = "add"
  /\ pcE' \in {"timer", "undo"}
  /\ UNCHANGED <<created, free, recy, totalRecy, online, seq, fdOpen, owner,
                 inRecyTime, arrivals, now, newc, batch, batchAt, cur, refs,
                 tVars, rVars>>

CloseConnectionFree ==
  /\ pcE = "undo"
  /\ FreeConnection(newc)
  /\ pcE' = "undofd"
  /\ UNCHANGED <<created, recy, totalRecy, online, fdOpen, owner, inRecyTime,
                 arrivals, now, newc, batch, batchAt, cur, refs, tVars, rVars>>

CloseConnectionFd ==
  /\ pcE = "undofd"
  /\ fdOpen' = [fdOpen EXCEPT ![newc] = FALSE]
  /\ pcE' = "wait" /\ newc' = NoConn
  /\ UNCHANGED <<created, free, recy, totalRecy, online, seq, owner,
                 inRecyTime, arrivals, now, batch, batchAt, cur, refs, tVars,
                 rVars>>

(* AddToTimerQueue(): a header with the sequence number of this moment.    *)
AddToTimerQueue ==
  /\ pcE = "timer"
  /\ refs' = refs \cup {[kind |-> "timer", conn |-> newc, seq |-> seq[newc],
                         client |-> owner[newc], at |-> 0]}
  /\ pcE' = "count"
  /\ UNCHANGED <<created, free, recy, totalRecy, online, seq, fdOpen, owner,
                 inRecyTime, arrivals, now, newc, batch, batchAt, cur, tVars,
                 rVars>>

CountUser ==
  /\ pcE = "count"
  /\ online' = online + 1
  /\ pcE' = "wait" /\ newc' = NoConn
  /\ UNCHANGED <<created, free, recy, totalRecy, seq, fdOpen, owner,
                 inRecyTime, arrivals, now, batch, batchAt, cur, refs, tVars,
                 rVars>>

-----------------------------------------------------------------------------
(* E: ngx_epoll_process_events and ngx_read_request_handler.               *)

(* epoll_wait() returns events of sockets that are open at that moment;    *)
(* the pointers it returns are used without any sequence check.            *)
EpollWait ==
  /\ pcE = "wait" /\ batch = {}
  /\ \E cs \in SUBSET {c \in created \ Listeners : fdOpen[c]} :
       /\ cs # {}
       /\ batch' = {[conn |-> c, client |-> owner[c]] : c \in cs}
  /\ batchAt' = now
  /\ UNCHANGED <<created, free, recy, totalRecy, online, seq, fdOpen, owner,
                 inRecyTime, arrivals, now, pcE, newc, cur, refs, tVars, rVars>>

(* recv() returned data that does not complete a package.                  *)
ReadPartial ==
  /\ pcE = "wait"
  /\ \E e \in batch : fdOpen[e.conn] /\ batch' = batch \ {e}
  /\ UNCHANGED <<created, free, recy, totalRecy, online, seq, fdOpen, owner,
                 inRecyTime, arrivals, now, pcE, newc, batchAt, cur, refs,
                 tVars, rVars>>

(* recv() returned the last byte of a package.                             *)
ReadComplete ==
  /\ pcE = "wait"
  /\ \E e \in batch : fdOpen[e.conn] /\ cur' = e
  /\ pcE' = "capture"
  /\ UNCHANGED <<created, free, recy, totalRecy, online, seq, fdOpen, owner,
                 inRecyTime, arrivals, now, newc, batch, batchAt, refs, tVars,
                 rVars>>

(* The header of the package takes the sequence number the connection has  *)
(* by now, which is not the one it had at recv() if another thread closed  *)
(* it in between; the message goes to the receive queue.                   *)
Capture ==
  /\ pcE = "capture"
  /\ refs' = refs \cup {[kind |-> "msg", conn |-> cur.conn,
                         seq |-> seq[cur.conn], client |-> cur.client,
                         at |-> now]}
  /\ pcE' = "wait" /\ batch' = batch \ {cur} /\ cur' = NoEvent
  /\ UNCHANGED <<created, free, recy, totalRecy, online, seq, fdOpen, owner,
                 inRecyTime, arrivals, now, newc, batchAt, tVars, rVars>>

(* The package made TestFlood() true: the connection is closed instead.    *)
FloodKick ==
  /\ pcE = "capture"
  /\ pcE' = "shut"
  /\ UNCHANGED <<created, free, recy, totalRecy, online, seq, fdOpen, owner,
                 inRecyTime, arrivals, now, newc, batch, batchAt, cur, refs,
                 tVars, rVars>>

(* recv() returned 0 or an error (EBADF when another thread closed it).    *)
ReadClosed ==
  /\ pcE = "wait"
  /\ \E e \in batch : cur' = e
  /\ pcE' = "shut"
  /\ UNCHANGED <<created, free, recy, totalRecy, online, seq, fdOpen, owner,
                 inRecyTime, arrivals, now, newc, batch, batchAt, refs, tVars,
                 rVars>>

EShut ==
  /\ pcE = "shut"
  /\ ShutSocket(cur.conn)
  /\ pcE' = "recy"
  /\ UNCHANGED <<created, free, recy, totalRecy, online, seq, owner,
                 inRecyTime, arrivals, now, newc, batch, batchAt, cur, tVars,
                 rVars>>

ERecy ==
  /\ pcE = "recy"
  /\ InRecyConnectQueue(cur.conn)
  /\ pcE' = "wait" /\ batch' = batch \ {cur} /\ cur' = NoEvent
  /\ UNCHANGED <<created, free, fdOpen, owner, arrivals, now, newc, batchAt,
                 refs, tVars, rVars>>

-----------------------------------------------------------------------------
(* Logic threads and the timer thread: threadRecvProcFunc and              *)
(* procPingTimeOutChecking compare the header's sequence number with the   *)
(* connection's, then use the connection, and may close it.                *)

SequenceMatches(r) == seq[r.conn] = r.seq

(* The timer thread collects the entries that are due; closing their       *)
(* connection does not take them back.  GetOverTimeTimer() leaves a copy   *)
(* on the queue unless the server kicks on the first timeout.              *)
Collect ==
  /\ pcT[Timer] = "idle" /\ \A r \in refs : r.kind # "due"
  /\ \E rs \in SUBSET {r \in refs : r.kind = "timer"} :
       refs' = (IF TimeOutKick THEN refs \ rs ELSE refs)
                 \cup {[r EXCEPT !.kind = "due"] : r \in rs}
  /\ UNCHANGED <<created, free, recy, totalRecy, online, seq, fdOpen, owner,
                 inRecyTime, arrivals, now, eVars, tVars, rVars>>

(* The timer thread takes one of those it has collected, a logic thread a  *)
(* message out of the queue.                                               *)
Take(t) ==
  /\ pcT[t] = "idle"
  /\ \E r \in refs :
       /\ r.kind = IF t = Timer THEN "due" ELSE "msg"
       /\ refs' = refs \ {r}
       /\ IF SequenceMatches(r)
          THEN /\ pcT' = [pcT EXCEPT ![t] = "use"]
               /\ hold' = [hold EXCEPT ![t] =
                    [conn |-> r.conn, client |-> r.client, since |-> now]]
          ELSE UNCHANGED tVars
  /\ UNCHANGED <<created, free, recy, totalRecy, online, seq, fdOpen, owner,
                 inRecyTime, arrivals, now, eVars, rVars>>

Finish(t) ==
  /\ pcT[t] = "use"
  /\ pcT' = [pcT EXCEPT ![t] = "idle"]
  /\ hold' = [hold EXCEPT ![t] = NoHold]
  /\ UNCHANGED <<created, free, recy, totalRecy, online, seq, fdOpen, owner,
                 inRecyTime, arrivals, now, eVars, refs, rVars>>

(* zdClosesocketProc() by msgSend() (a client that does not read) or by    *)
(* procPingTimeOutChecking().                                              *)
TShut(t) ==
  /\ pcT[t] = "use"
  /\ ShutSocket(hold[t].conn)
  /\ pcT' = [pcT EXCEPT ![t] = "recy"]
  /\ UNCHANGED <<created, free, recy, totalRecy, online, seq, owner,
                 inRecyTime, arrivals, now, eVars, hold, rVars>>

TRecy(t) ==
  /\ pcT[t] = "recy"
  /\ InRecyConnectQueue(hold[t].conn)
  /\ pcT' = [pcT EXCEPT ![t] = "idle"]
  /\ hold' = [hold EXCEPT ![t] = NoHold]
  /\ UNCHANGED <<created, free, fdOpen, owner, arrivals, now, eVars, refs,
                 rVars>>

-----------------------------------------------------------------------------
(* R: one pass of ServerRecyConnectionThread every 200 ms.  g_stopEvent is *)
(* never set in this program, so the forced release is not reachable.      *)

(* Mutants: released a tick early; a single parked object is overlooked;   *)
(* p_Conn is not kept when its list node is erased.                        *)
DueEarly(c) == inRecyTime[c] + RecyWait - 1 <= rTime

RWakeAboveOne ==
  /\ pcR = "sleep"
  /\ IF totalRecy > 1 THEN pcR' = "lock" /\ rTime' = now
                      ELSE UNCHANGED <<pcR, rTime>>
  /\ UNCHANGED <<created, free, recy, totalRecy, online, seq, fdOpen, owner,
                 inRecyTime, arrivals, now, eVars, refs, tVars, rConn>>

Due(c) == inRecyTime[c] + RecyWait <= rTime

RWake ==
  /\ pcR = "sleep"
  /\ IF totalRecy > 0 THEN pcR' = "lock" /\ rTime' = now
                      ELSE UNCHANGED <<pcR, rTime>>
  /\ UNCHANGED <<created, free, recy, totalRecy, online, seq, fdOpen, owner,
                 inRecyTime, arrivals, now, eVars, refs, tVars, rConn>>

RLock ==
  /\ pcR = "lock"
  /\ pcR' = "scan"
  /\ UNCHANGED <<created, free, recy, totalRecy, online, seq, fdOpen, owner,
                 inRecyTime, arrivals, now, eVars, refs, tVars, rTime, rConn>>

RErasePointerLost ==
  /\ pcR = "scan"
  /\ \E c \in recy : inRecyTime[c] + RecyWait <= rTime /\ recy' = recy \ {c}
  /\ totalRecy' = totalRecy - 1
  /\ pcR' = "put"
  /\ UNCHANGED <<created, free, online, seq, fdOpen, owner, inRecyTime,
                 arrivals, now, eVars, refs, tVars, rTime, rConn>>

RErase ==
  /\ pcR = "scan"
  /\ \E c \in recy :
       /\ Due(c)
       /\ recy' = recy \ {c}
       /\ rConn' = c
  /\ totalRecy' = totalRecy - 1
  /\ pcR' = "put"
  /\ UNCHANGED <<created, free, online, seq, fdOpen, owner, inRecyTime,
                 arrivals, now, eVars, refs, tVars, rTime>>

RPut ==
  /\ pcR = "put"
  /\ FreeConnection(rConn)
  /\ pcR' = "scan" /\ rConn' = NoConn
  /\ UNCHANGED <<created, recy, totalRecy, online, fdOpen, owner, inRecyTime,
                 arrivals, now, eVars, refs, tVars, rTime>>

RUnlock ==
  /\ pcR = "scan" /\ \A c \in recy : ~Due(c)
  /\ pcR' = "sleep" /\ rTime' = 0
  /\ UNCHANGED <<created, free, recy, totalRecy, online, seq, fdOpen, owner,
                 inRecyTime, arrivals, now, eVars, refs, tVars, rConn>>

-----------------------------------------------------------------------------
(* The clock.  It may not run past the time a thread is assumed to need:   *)
(* MaxHold for a batch of events and for a connection in use, MaxQueue for *)
(* a message that waits for a logic thread.                                *)
Tick ==
  /\ now < MaxNow
  /\ batch # {} \/ pcE # "wait" => now < batchAt + MaxHold
  /\ \A t \in Threads : pcT[t] # "idle" => now < hold[t].since + MaxHold
  /\ \A r \in refs : r.kind = "msg" => now < r.at + MaxQueue
  /\ now' = now + 1
  /\ UNCHANGED <<created, free, recy, totalRecy, online, seq, fdOpen, owner,
                 inRecyTime, arrivals, eVars, refs, tVars, rVars>>

EAccept == Accept \/ GetConnection \/ EpollAdd \/ CloseConnectionFree
             \/ CloseConnectionFd \/ AddToTimerQueue \/ CountUser
ERead == EpollWait \/ ReadPartial \/ ReadComplete \/ Capture \/ FloodKick
           \/ ReadClosed \/ EShut \/ ERecy
TStep(t) == Take(t) \/ Finish(t) \/ TShut(t) \/ TRecy(t)
RStep == RWake \/ RLock \/ RErase \/ RPut \/ RUnlock

Next == EAccept \/ ERead \/ Collect \/ (\E t \in Threads : TStep(t)) \/ RStep \/ Tick

Spec == Init /\ [][Next]_vars

(* R is a thread of an infinite loop that nothing blocks for long: the     *)
(* other holders of m_recyconnqueueMutex do one list insertion.            *)
Fairness == WF_vars(RStep)

FairSpec == Spec /\ Fairness

-----------------------------------------------------------------------------
(* Properties.                                                             *)

Event == [conn : Conns, client : Nat]
Ref   == [kind : {"msg", "timer", "due"}, conn : Conns, seq : Nat, client : Nat, at : Nat]
Held  == [conn : Conns \cup {NoConn}, client : Nat, since : Nat]

(* Types; the free list and the recycle list hold created objects.         *)
TypeOK ==
  /\ created \in SUBSET Conns /\ free \in SUBSET created /\ recy \in SUBSET created
  /\ totalRecy \in Int /\ online \in Int
  /\ seq \in [Conns -> Nat] /\ fdOpen \in [Conns -> BOOLEAN]
  /\ inRecyTime \in [Conns -> Nat]
  /\ owner \in [Conns -> Nat] /\ arrivals \in Nat /\ now \in Nat
  /\ pcE \in {"wait", "get", "add", "undo", "undofd", "timer", "count",
              "capture", "shut", "recy"}
  /\ newc \in Conns \cup {NoConn}
  /\ batch \in SUBSET Event /\ batchAt \in Nat /\ cur \in Event \cup {NoEvent}
  /\ refs \in SUBSET Ref
  /\ pcT \in [Threads -> {"idle", "use", "recy"}] /\ hold \in [Threads -> Held]
  /\ pcR \in {"sleep", "lock", "scan", "put"} /\ rTime \in Nat
  /\ rConn \in Conns \cup {NoConn}

(* Objects handed to a client whose accept is complete up to epoll ADD and *)
(* that nobody has put on the recycle list yet.                            *)
Accepting == IF pcE \in {"add", "undo", "undofd"} THEN {newc} ELSE {}
InUse == created \ (free \cup recy \cup {rConn} \cup Listeners \cup Accepting)

(* An object is in one place at a time: free, parked, in R's hand, being   *)
(* set up by accept, serving a listening socket, or in use; and an object  *)
(* that left use has no open socket, but for the one instant in which      *)
(* ngx_close_connection() frees first and closes second.                   *)
OnePlace ==
  /\ free \cap recy = {} /\ rConn \notin free \cup recy
  /\ Listeners \cap (free \cup recy \cup {rConn, newc}) = {}
  /\ newc \in free => pcE = "undofd"
  /\ newc \in recy => pcE = "count"
  /\ newc = rConn => newc = NoConn
  /\ \A c \in free \cup recy \cup ({rConn} \ {NoConn}) :
        fdOpen[c] => c = newc /\ pcE = "undofd"

(* No object is lost: one whose socket is closed is free, parked, in R's   *)
(* hand, or some thread is about to park it.                               *)
NoLeak ==
  \A c \in InUse : fdOpen[c] \/ (pcE = "recy" /\ cur.conn = c)
                    \/ \E t \in Threads : pcT[t] = "recy" /\ hold[t].conn = c

(* Both: an object is neither in two places nor in none.                   *)
InExactlyOnePlace == OnePlace /\ NoLeak

(* m_onlineUserCount counts the objects in use, from the last line of      *)
(* accept to inRecyConnectQueue(), however many threads close the same     *)
(* connection, and never exceeds m_worker_connections.                     *)
OnlineIsInUse ==
  /\ online + (IF pcE \in {"timer", "count"} THEN 1 ELSE 0) = Cardinality(InUse)
  /\ totalRecy = Cardinality(recy)
  /\ Cardinality(InUse) <= MaxOnline

(* However fast clients come and go, the pool stops growing one object     *)
(* above PoolFactor times the admitted users.                              *)
PoolBounded == Cardinality(created) <= MaxOnline * PoolFactor + 1

(* Crosstalk: an object that a thread got hold of through a message, a     *)
(* timer entry or an epoll event belongs to the client that message, entry *)
(* or event came from for as long as the thread uses it; that is, the      *)
(* delay before reuse outlasts every user that passed the sequence check.  *)
NoCrosstalk ==
  /\ \A t \in Threads : pcT[t] # "idle" =>
       owner[hold[t].conn] = hold[t].client /\ hold[t].conn \notin free
  /\ \A e \in batch : owner[e.conn] = e.client /\ e.conn \notin free
  /\ \A r \in refs : SequenceMatches(r) =>
       owner[r.conn] = r.client /\ r.conn \notin free

-----------------------------------------------------------------------------
(* The inductive invariant behind OnePlace, NoLeak and NoCrosstalk.        *)

(* What each program counter says of the thread's own variables.           *)
ControlInv ==
  /\ newc # NoConn <=> pcE \in {"add", "undo", "undofd", "timer", "count"}
  /\ Listeners \subseteq created /\ (newc # NoConn => newc \in created)
  /\ rConn # NoConn <=> pcR = "put"
  /\ rConn # NoConn => rConn \in created
  /\ pcE \in {"capture", "shut", "recy"} => cur \in batch
  /\ pcE \in {"add", "undo"} => fdOpen[newc]
  /\ pcE = "undofd" => newc \in free
  /\ pcE = "recy" => ~fdOpen[cur.conn]
  /\ \A t \in Threads : pcT[t] = "recy" => ~fdOpen[hold[t].conn]

(* Somebody may refer to the object: a client was given it, it is not free *)
(* and accept is not still setting it up.                                  *)
Referable(c) ==
  /\ c \in created \ (free \cup Listeners)
  /\ c = newc => pcE = "count"

(* A connection in use has not been erased by R, and if it is parked, it   *)
(* was parked late enough: its time comes after the user is done.          *)
Kept(c, from) ==
  /\ Referable(c) /\ c # rConn
  /\ c \in recy => inRecyTime[c] >= from

(* Nobody is later than the clock assumed of Tick lets them be.            *)
TimeInv ==
  /\ batchAt <= now /\ rTime <= now
  /\ batch # {} \/ pcE # "wait" => now <= batchAt + MaxHold
  /\ \A t \in Threads : pcT[t] # "idle" =>
       hold[t].since <= now /\ now <= hold[t].since + MaxHold
  /\ \A r \in refs : r.kind = "msg" => r.at <= now /\ now <= r.at + MaxQueue
  /\ pcR = "put" => inRecyTime[rConn] + RecyWait <= rTime

(* Whatever a thread is using is kept for it.                              *)
UseInv ==
  /\ \A e \in batch : owner[e.conn] = e.client /\ Kept(e.conn, batchAt)
  /\ pcE = "count" => Kept(newc, batchAt)
  /\ \A t \in Threads : pcT[t] # "idle" =>
       /\ hold[t].conn \in Conns
       /\ owner[hold[t].conn] = hold[t].client
       /\ Kept(hold[t].conn, hold[t].since - MaxHold - MaxQueue)

(* A header whose sequence number matches names the client it came from;   *)
(* a timer entry then names a connection in use, a message one that is in  *)
(* use or was parked while the message's epoll event was being handled.    *)
RefInv ==
  \A r \in refs :
    /\ r.conn \in created /\ r.seq <= seq[r.conn]
    /\ SequenceMatches(r) =>
         /\ owner[r.conn] = r.client /\ Referable(r.conn)
         /\ r.conn \in recy \cup {rConn} =>
              r.kind = "msg" /\ inRecyTime[r.conn] + MaxHold >= r.at

(* The whole of it, proved inductive in ConnPoolProofs.                    *)
Inv == TypeOK /\ OnePlace /\ NoLeak /\ ControlInv /\ TimeInv /\ UseInv /\ RefInv

(* What makes the two bounds inductive: the tests of ngx_event_accept()    *)
(* still hold when its connection is taken and counted.                    *)
AdmitInv ==
  /\ pcE \in {"get", "add"} => online < MaxOnline
  /\ pcE = "get" => free # {} \/ Cardinality(created) <= MaxOnline * PoolFactor

(* The bounds, with what makes them inductive.                             *)
CountInv == OnlineIsInUse /\ PoolBounded /\ AdmitInv

(* A parked object whose time has come is freed.                           *)
ParkedIsFreed ==
  \A c \in Conns \ Listeners :
    (c \in recy /\ inRecyTime[c] + RecyWait <= now) ~> (c \in free)

=============================================================================
