------------------------------ MODULE SendQueue ------------------------------
(***************************************************************************)
(* The path of an outgoing package: msgSend() puts it on the send queue    *)
(* and posts a semaphore, the send thread S takes it off and calls send(), *)
(* and what the socket does not take at once the epoll thread E finishes   *)
(* in ngx_write_request_handler().  E also closes connections; so do       *)
(* msgSend() for a client that lets too many packages pile up, and the     *)
(* timer thread T for a silent one.                                        *)
(* (net/ngx_c_socket.cxx, net/ngx_c_socket_request.cxx.)                   *)
(*                                                                         *)
(* A package is a member of Msgs, Size units long; a connection is used    *)
(* for one client only (its reuse is ConnPool's subject), so its sequence  *)
(* number matches a package's exactly while it is "live".                  *)
(***************************************************************************)
EXTENDS Integers, Sequences, FiniteSets

CONSTANTS
  Conns, Msgs,
  NoConn, NoMsg,   \* null pointers
  ConnOf,          \* the connection each package is for
  Size,            \* pkgLen, in units
  Room,            \* capacity of a socket's send buffer, in units
  QueueMax,        \* the literal 50000 of msgSend()
  BacklogMax,      \* the literal 400 of msgSend()
  UnreadAtClose,   \* TRUE: a client may close with data the server has not read
  Leavers          \* bound: the clients that send, are found silent or leave

ASSUME SendAssumption ==
  /\ NoConn \notin Conns /\ NoMsg \notin Msgs /\ ConnOf \in [Msgs -> Conns]
  /\ Size \in Nat \ {0} /\ Room \in Nat \ {0}
  /\ QueueMax \in Nat /\ BacklogMax \in Nat /\ UnreadAtClose \in BOOLEAN
  /\ Leavers \subseteq Conns

VARIABLES
  queue,     \* m_MsgSendQueue; its length is m_iSendMsgQueueCount
  sem,       \* m_semEventSendQueue
  lock,      \* holder of m_sendMessageQueueMutex: "S", "W", "none" ("dead": the
             \* process is gone, as in pcS, pcE and pcC)
  posted,    \* history: packages msgSend() was called with
  freed,     \* history: packages whose memory was released
  twice,     \* history: those released more than once
  state,     \* "live", "parked" (on the recycle list) or "pooled"
  fdOpen,    \* fd # -1
  throw,     \* iThrowsendCount
  backlog,   \* iSendCount
  psend,     \* psendMemPointer
  left,      \* isendlen
  armed,     \* EPOLLOUT is in events
  pcS, pos, cS,   \* S: program counter, iterator, p_Conn
  pcE, cE, mask,  \* E: program counter, connection and mask of the event
  pcC, cC,        \* the same of the other threads that close connections: W,
                  \* which is in msgSend(), and T
  wire,      \* environment: the units handed to the kernel, by connection
  inbuf,     \* environment: how many of them the client has not read yet
  peer,      \* environment: "up", "shut" (sent its FIN), "reset" (and the
             \* error not reported yet) or "gone"
  unread     \* environment: the client has sent data the server has not read

connVars == <<state, fdOpen, throw, backlog, psend, left, armed>>
envVars == <<wire, inbuf, peer, unread>>
sVars == <<pcS, pos, cS>>
eVars == <<pcE, cE, mask>>
cVars == <<pcC, cC>>
Closers == {"W", "T"}
vars == <<queue, sem, lock, posted, freed, twice, connVars, sVars, eVars, cVars, envVars>>

Init ==
  /\ queue = <<>> /\ sem = 0 /\ lock = "none" /\ posted = {} /\ freed = {} /\ twice = {}
  /\ state = [c \in Conns |-> "live"] /\ fdOpen = [c \in Conns |-> TRUE]
  /\ throw = [c \in Conns |-> 0] /\ backlog = [c \in Conns |-> 0]
  /\ psend = [c \in Conns |-> NoMsg] /\ left = [c \in Conns |-> 0]
  /\ armed = [c \in Conns |-> FALSE]
  /\ pcS = "wait" /\ pos = 1 /\ cS = NoConn
  /\ pcE = "wait" /\ cE = NoConn /\ mask = {}
  /\ pcC = [k \in Closers |-> "idle"] /\ cC = [k \in Closers |-> NoConn]
  /\ wire = [c \in Conns |-> <<>>] /\ inbuf = [c \in Conns |-> 0]
  /\ peer = [c \in Conns |-> "up"] /\ unread = [c \in Conns |-> FALSE]

-----------------------------------------------------------------------------
(* send() of the rest of psend[c]: how many units it took, 0 for EAGAIN    *)
(* and -2 for a closed or reset socket.  Once the reset was reported, or   *)
(* the client had sent its FIN before, send() raises SIGPIPE, which        *)
(* nothing in the program handles, blocks or turns off.                    *)
Raises(c) == fdOpen[c] /\ peer[c] = "gone"

SendResults(c) ==
  IF Raises(c) THEN {} ELSE
  IF ~fdOpen[c] \/ peer[c] = "reset" THEN {-2}
  ELSE LET room == Room - inbuf[c]
       IN {IF left[c] <= room THEN left[c] ELSE room}

Transmit(c, n) ==
  IF n > 0
  THEN /\ wire' = [wire EXCEPT ![c] = @ \o [i \in 1..n |-> psend[c]]]
       /\ inbuf' = [inbuf EXCEPT ![c] = @ + n]
       /\ UNCHANGED <<peer, unread>>
  ELSE /\ peer' = [peer EXCEPT ![c] = IF @ = "reset" /\ fdOpen[c] THEN "gone" ELSE @]
       /\ UNCHANGED <<wire, inbuf, unread>>

(* isendlen; of a package that is sent it is not read any more.            *)
TakeOff(c, n) == left' = [left EXCEPT ![c] = IF n >= 0 THEN @ - n ELSE @]

(* FreeMemory(psendMemPointer), which does nothing to a null pointer.      *)
FreePsend(c) ==
  /\ freed' = freed \cup ({psend[c]} \ {NoMsg})
  /\ twice' = twice \cup (freed \cap {psend[c]})

(* Thread k calls zdClosesocketProc() on c.                                *)
CloseBegin(k, c) ==
  /\ pcC[k] = "idle"
  /\ pcC' = [pcC EXCEPT ![k] = "close"] /\ cC' = [cC EXCEPT ![k] = c]

-----------------------------------------------------------------------------
(* msgSend(), under m_sendMessageQueueMutex.                               *)

Post(m) ==
  /\ lock = "none" /\ m \notin posted
  /\ posted' = posted \cup {m}

(* The queue as a whole is too long: the package is dropped.               *)
MsgDropped(m) ==
  /\ Post(m) /\ Len(queue) > QueueMax
  /\ freed' = freed \cup {m}
  /\ UNCHANGED <<queue, sem, lock, twice, connVars, sVars, eVars, cVars, envVars>>

(* Too many packages wait for this client: it is cut off, with the queue's *)
(* mutex still held.                                                       *)
MsgCutsOff(m) ==
  /\ Post(m) /\ Len(queue) <= QueueMax /\ backlog[ConnOf[m]] > BacklogMax
  /\ freed' = freed \cup {m}
  /\ lock' = "W" /\ CloseBegin("W", ConnOf[m])
  /\ UNCHANGED <<queue, sem, twice, connVars, sVars, eVars, envVars>>

(* Mutant: ++iSendCount left out.                                          *)
MsgQueuedUncounted(m) ==
  /\ Post(m) /\ Len(queue) <= QueueMax /\ backlog[ConnOf[m]] <= BacklogMax
  /\ queue' = Append(queue, m)
  /\ sem' = sem + 1
  /\ UNCHANGED <<lock, freed, twice, connVars, sVars, eVars, cVars, envVars>>

MsgQueued(m) ==
  /\ Post(m) /\ Len(queue) <= QueueMax /\ backlog[ConnOf[m]] <= BacklogMax
  /\ backlog' = [backlog EXCEPT ![ConnOf[m]] = @ + 1]
  /\ queue' = Append(queue, m)
  /\ sem' = sem + 1
  /\ UNCHANGED <<lock, freed, twice, state, fdOpen, throw, psend, left, armed, sVars,
                 eVars, cVars, envVars>>

-----------------------------------------------------------------------------
(* zdClosesocketProc() on connection c, step by step: close the socket,    *)
(* test iThrowsendCount, take one off it, park the connection.             *)

CloseFd(c) ==
  /\ fdOpen' = [fdOpen EXCEPT ![c] = FALSE]
  /\ armed' = [armed EXCEPT ![c] = FALSE]  \* close() removes it from epoll
  /\ UNCHANGED <<state, throw, backlog, psend, left>>

ThrowOff(c) ==
  /\ throw' = [throw EXCEPT ![c] = @ - 1]
  /\ UNCHANGED <<state, fdOpen, backlog, psend, left, armed>>

Park(c) ==
  /\ state' = [state EXCEPT ![c] = IF @ = "live" THEN "parked" ELSE @]
  /\ UNCHANGED <<fdOpen, throw, backlog, psend, left, armed>>

KStep(k, from, to) == pcC[k] = from /\ pcC' = [pcC EXCEPT ![k] = to]
KClose(k) ==
  \/ /\ KStep(k, "close", "test") /\ CloseFd(cC[k]) /\ UNCHANGED <<lock, cC>>
  \/ /\ KStep(k, "test", IF throw[cC[k]] > 0 THEN "dec" ELSE "park")
     /\ UNCHANGED <<connVars, lock, cC>>
  \/ /\ KStep(k, "dec", "park") /\ ThrowOff(cC[k]) /\ UNCHANGED <<lock, cC>>
  \/ /\ KStep(k, "park", "idle") /\ Park(cC[k])
     /\ lock' = IF k = "W" THEN "none" ELSE lock
     /\ cC' = [cC EXCEPT ![k] = NoConn]

KCloses(k) == KClose(k) /\ UNCHANGED <<queue, sem, posted, freed, twice, sVars, eVars, envVars>>

(* procPingTimeOutChecking(): the client of c has been silent.             *)
TimeOut(c) ==
  /\ c \in Leavers /\ state[c] = "live" /\ CloseBegin("T", c)
  /\ UNCHANGED <<queue, sem, lock, posted, freed, twice, connVars, sVars, eVars, envVars>>

-----------------------------------------------------------------------------
(* S: ServerSendQueueThread.                                               *)

(* sem_wait(), which also returns when the thread handled a signal.        *)
SemReturns ==
  /\ pcS = "wait" /\ pcS' = IF queue # <<>> THEN "lock" ELSE "wait"
  /\ UNCHANGED <<queue, lock, posted, freed, twice, connVars, pos, cS, eVars, cVars, envVars>>
SemWait == sem > 0 /\ sem' = sem - 1 /\ SemReturns
SemInterrupted == SemReturns /\ UNCHANGED sem

ScanBegin ==
  /\ pcS = "lock" /\ lock = "none"
  /\ lock' = "S" /\ pcS' = "scan" /\ pos' = 1
  /\ UNCHANGED <<queue, sem, posted, freed, twice, connVars, cS, eVars, cVars, envVars>>

ScanEnd ==
  /\ pcS = "scan" /\ pos > Len(queue)
  /\ lock' = "none" /\ pcS' = "wait" /\ pos' = 1
  /\ UNCHANGED <<queue, sem, posted, freed, twice, connVars, cS, eVars, cVars, envVars>>

Erase(i) == SubSeq(queue, 1, i - 1) \o SubSeq(queue, i + 1, Len(queue))

(* The package's sequence number is out of date: dropped.                  *)
ScanStale ==
  /\ pcS = "scan" /\ pos <= Len(queue)
  /\ state[ConnOf[queue[pos]]] # "live"
  /\ freed' = freed \cup {queue[pos]}
  /\ queue' = Erase(pos)
  /\ UNCHANGED <<sem, lock, posted, twice, connVars, sVars, eVars, cVars, envVars>>

(* An earlier package of the connection is left to E: passed over.         *)
ScanSkip ==
  /\ pcS = "scan" /\ pos <= Len(queue)
  /\ state[ConnOf[queue[pos]]] = "live" /\ throw[ConnOf[queue[pos]]] > 0
  /\ pos' = pos + 1
  /\ UNCHANGED <<queue, sem, lock, posted, freed, twice, connVars, pcS, cS, eVars,
                 cVars, envVars>>

TakePackage(counted, mayTake(_)) ==
  /\ pcS = "scan" /\ pos <= Len(queue)
  /\ LET m == queue[pos]
         c == ConnOf[m]
     IN /\ state[c] = "live" /\ mayTake(c)
        /\ backlog' = [backlog EXCEPT ![c] = IF counted THEN @ - 1 ELSE @]
        /\ psend' = [psend EXCEPT ![c] = m]
        /\ left' = [left EXCEPT ![c] = Size]
        /\ cS' = c
  /\ queue' = Erase(pos)
  /\ pcS' = "send"
  /\ UNCHANGED <<sem, lock, posted, freed, twice, state, fdOpen, throw, armed, pos,
                 eVars, cVars, envVars>>
Unpending(c) == throw[c] <= 0

(* Mutants: the test of iThrowsendCount left out; --iSendCount left out.   *)
ScanTakeAlways == TakePackage(TRUE, LAMBDA c : TRUE)
ScanTakeUncounted == TakePackage(FALSE, Unpending)
ScanTake == TakePackage(TRUE, Unpending)

(* send(): all of it, or an error, ends the package; else E will go on.    *)
SSend ==
  /\ pcS = "send"
  /\ \E n \in SendResults(cS) :
       /\ Transmit(cS, n) /\ TakeOff(cS, n)
       /\ pcS' = IF n \in {left[cS], -2} THEN "free" ELSE "inc"
  /\ UNCHANGED <<queue, sem, lock, posted, freed, twice, state, fdOpen, throw,
                 backlog, psend, armed, pos, cS, eVars, cVars>>

(* The end of a package, in three statements: its memory is released, the  *)
(* pointer cleared, the count set to 0.  E and the threads that close the  *)
(* connection do not ask for S's mutex.                                    *)
SFree ==
  /\ pcS = "free" /\ pcS' = "clear"
  /\ FreePsend(cS)
  /\ UNCHANGED <<queue, sem, lock, posted, connVars, pos, cS, eVars, cVars, envVars>>

SClear ==
  /\ pcS = "clear" /\ pcS' = "zero"
  /\ psend' = [psend EXCEPT ![cS] = NoMsg]
  /\ UNCHANGED <<queue, sem, lock, posted, freed, twice, state, fdOpen, throw,
                 backlog, left, armed, pos, cS, eVars, cVars, envVars>>

SZero ==
  /\ pcS = "zero" /\ pcS' = "scan" /\ cS' = NoConn
  /\ throw' = [throw EXCEPT ![cS] = 0]
  /\ UNCHANGED <<queue, sem, lock, posted, freed, twice, state, fdOpen, backlog,
                 psend, left, armed, pos, eVars, cVars, envVars>>

SThrow ==
  /\ pcS = "inc"
  /\ throw' = [throw EXCEPT ![cS] = @ + 1]
  /\ pcS' = "arm"
  /\ UNCHANGED <<queue, sem, lock, posted, freed, twice, state, fdOpen, backlog, psend,
                 left, armed, pos, cS, eVars, cVars, envVars>>

(* Mutant: the write event is not asked for.                               *)
SArmNot ==
  /\ pcS = "arm"
  /\ pcS' = "scan" /\ cS' = NoConn
  /\ UNCHANGED <<queue, sem, lock, posted, freed, twice, connVars, pos, eVars, cVars, envVars>>

(* epoll_ctl(MOD, EPOLLOUT), which fails on a closed socket.               *)
SArm ==
  /\ pcS = "arm"
  /\ armed' = [armed EXCEPT ![cS] = fdOpen[cS]]
  /\ pcS' = "scan" /\ cS' = NoConn
  /\ UNCHANGED <<queue, sem, lock, posted, freed, twice, state, fdOpen, throw, backlog,
                 psend, left, pos, eVars, cVars, envVars>>

-----------------------------------------------------------------------------
(* E: ngx_epoll_process_events, one event at a time.                       *)

(* What epoll reports of a socket, level triggered.                        *)
Ready(c) ==
  (IF unread[c] \/ peer[c] # "up" THEN {"IN"} ELSE {})
  \cup (IF armed[c] /\ (inbuf[c] < Room \/ peer[c] \in {"reset", "gone"}) THEN {"OUT"} ELSE {})
  \cup (IF peer[c] # "up" THEN {"HUP"} ELSE {})

EpollWait(c) ==
  /\ pcE = "wait"
  /\ fdOpen[c] /\ Ready(c) \cap {"IN", "OUT"} # {}
  /\ cE' = c /\ mask' = Ready(c)
  /\ pcE' = IF "IN" \in Ready(c) THEN "in" ELSE "out"
  /\ UNCHANGED <<queue, sem, lock, posted, freed, twice, connVars, sVars, cVars, envVars>>

AfterIn == IF "OUT" \in mask THEN "out" ELSE "wait"

EDone(pc) ==
  /\ pcE' = pc
  /\ IF pc = "wait" THEN cE' = NoConn /\ mask' = {} ELSE UNCHANGED <<cE, mask>>

(* ngx_read_request_handler: one recv() of what the client sent, which may *)
(* leave some of it unread; 0, an error or a flood closes the connection.  *)
ERead ==
  /\ pcE = "in"
  /\ \/ /\ fdOpen[cE] /\ unread[cE]
        /\ \E rest \in BOOLEAN : unread' = [unread EXCEPT ![cE] = rest]
        /\ EDone(AfterIn) \/ EDone("close")
     \/ /\ ~fdOpen[cE] \/ ~unread[cE] \/ peer[cE] \in {"reset", "gone"}
        /\ EDone("close") /\ UNCHANGED unread
  /\ peer' = [peer EXCEPT ![cE] = IF @ = "reset" /\ fdOpen[cE] THEN "gone" ELSE @]
  /\ UNCHANGED <<queue, sem, lock, posted, freed, twice, connVars, sVars, cVars, wire,
                 inbuf>>

EClose ==
  \/ /\ pcE = "close" /\ CloseFd(cE) /\ EDone("test")
  \/ /\ pcE = "test" /\ EDone(IF throw[cE] > 0 THEN "dec" ELSE "park")
     /\ UNCHANGED connVars
  \/ /\ pcE = "dec" /\ ThrowOff(cE) /\ EDone("park")
  \/ /\ pcE = "park" /\ Park(cE) /\ EDone(AfterIn)

ECloses == EClose /\ UNCHANGED <<queue, sem, lock, posted, freed, twice, sVars, cVars, envVars>>

(* A write event of a connection whose client is closing: the count is     *)
(* taken back, and nothing else is done.                                   *)
EOutHup ==
  /\ pcE = "out" /\ "HUP" \in mask
  /\ ThrowOff(cE)
  /\ EDone("wait")
  /\ UNCHANGED <<queue, sem, lock, posted, freed, twice, sVars, cVars, envVars>>

WriteOn(next(_)) ==
  /\ pcE = "out" /\ "HUP" \notin mask
  /\ \E n \in SendResults(cE) :
       /\ Transmit(cE, n) /\ TakeOff(cE, n)
       /\ EDone(next(n))
  /\ UNCHANGED <<queue, sem, lock, posted, freed, twice, state, fdOpen, throw, backlog,
                 psend, armed, sVars, cVars>>

(* Mutant: a partial send() ends the package.                              *)
EWritePartialEnds == WriteOn(LAMBDA n : IF n = -2 THEN "free" ELSE "disarm")

(* ngx_write_request_handler.                                              *)
EWrite ==
  WriteOn(LAMBDA n : IF n = left[cE] THEN "disarm" ELSE IF n = -2 THEN "free" ELSE "wait")

EDisarm ==
  /\ pcE = "disarm"
  /\ armed' = [armed EXCEPT ![cE] = FALSE]
  /\ EDone("free")
  /\ UNCHANGED <<queue, sem, lock, posted, freed, twice, state, fdOpen, throw, backlog,
                 psend, left, sVars, cVars, envVars>>

(* The end of the package, also in three statements.                       *)
EFree ==
  /\ pcE = "free"
  /\ FreePsend(cE)
  /\ EDone("clear")
  /\ UNCHANGED <<queue, sem, lock, posted, connVars, sVars, cVars, envVars>>

EClear ==
  /\ pcE = "clear"
  /\ psend' = [psend EXCEPT ![cE] = NoMsg]
  /\ EDone("dec2")
  /\ UNCHANGED <<queue, sem, lock, posted, freed, twice, state, fdOpen, throw,
                 backlog, left, armed, sVars, cVars, envVars>>

EThrow ==
  /\ pcE = "dec2"
  /\ ThrowOff(cE)
  /\ EDone("post")
  /\ UNCHANGED <<queue, sem, lock, posted, freed, twice, sVars, cVars, envVars>>

(* Mutant: S is not told.                                                  *)
EPostNot ==
  /\ pcE = "post"
  /\ EDone("wait")
  /\ UNCHANGED <<queue, sem, lock, posted, freed, twice, connVars, sVars, cVars, envVars>>

EPost ==
  /\ pcE = "post"
  /\ sem' = sem + 1
  /\ EDone("wait")
  /\ UNCHANGED <<queue, lock, posted, freed, twice, connVars, sVars, cVars, envVars>>

-----------------------------------------------------------------------------
(* R returns a parked connection to the pool (PutOneToFree), by ConnPool's *)
(* theorem only when no thread uses it any more.                           *)
Pool(c) ==
  /\ state[c] = "parked" /\ c \notin {cS, cE, cC["W"], cC["T"]} /\ pcE # "dead"
  /\ state' = [state EXCEPT ![c] = "pooled"]
  /\ FreePsend(c)
  /\ psend' = [psend EXCEPT ![c] = NoMsg]
  /\ throw' = [throw EXCEPT ![c] = 0]
  /\ UNCHANGED <<queue, sem, lock, posted, fdOpen, backlog, left, armed, sVars,
                 eVars, cVars, envVars>>

-----------------------------------------------------------------------------
(* The client.                                                             *)
ClientReads(c) ==
  /\ inbuf[c] > 0 /\ peer[c] \in {"up", "shut"}
  /\ inbuf' = [inbuf EXCEPT ![c] = @ - 1]
  /\ UNCHANGED <<queue, sem, lock, posted, freed, twice, connVars, sVars, eVars, cVars,
                 wire, peer, unread>>

ClientSends(c) ==
  /\ c \in Leavers /\ peer[c] = "up" /\ ~unread[c] /\ fdOpen[c]
  /\ unread' = [unread EXCEPT ![c] = TRUE]
  /\ UNCHANGED <<queue, sem, lock, posted, freed, twice, connVars, sVars, eVars, cVars,
                 wire, inbuf, peer>>

ClientCloses(c) ==
  /\ c \in Leavers /\ peer[c] = "up" /\ (UnreadAtClose \/ ~unread[c])
  /\ \E how \in {"shut", "reset"} : peer' = [peer EXCEPT ![c] = how]
  /\ UNCHANGED <<queue, sem, lock, posted, freed, twice, connVars, sVars, eVars, cVars,
                 wire, inbuf, unread>>

(* A client that has closed its socket answers data with a reset.          *)
ClientResets(c) ==
  /\ peer[c] = "shut" /\ inbuf[c] > 0
  /\ peer' = [peer EXCEPT ![c] = "gone"]
  /\ UNCHANGED <<queue, sem, lock, posted, freed, twice, connVars, sVars, eVars, cVars,
                 wire, inbuf, unread>>

(* S or E is in send() when SIGPIPE ends the process.                      *)
SigPipe ==
  /\ \/ pcS = "send" /\ Raises(cS)
     \/ pcE = "out" /\ "HUP" \notin mask /\ Raises(cE)
  /\ pcS' = "dead" /\ pcE' = "dead" /\ lock' = "dead"
  /\ pcC' = [k \in Closers |-> "dead"]
  /\ UNCHANGED <<queue, sem, posted, freed, twice, connVars, pos, cS, cE, mask, cC, envVars>>

SStep == SemWait \/ ScanBegin \/ ScanEnd \/ ScanStale \/ ScanSkip \/ ScanTake
           \/ SSend \/ SFree \/ SClear \/ SZero \/ SThrow \/ SArm
EStep == ERead \/ ECloses \/ EOutHup \/ EWrite \/ EDisarm
           \/ EFree \/ EClear \/ EThrow \/ EPost

Next ==
  \/ \E m \in Msgs : MsgDropped(m) \/ MsgCutsOff(m) \/ MsgQueued(m)
  \/ KCloses("W") \/ KCloses("T") \/ SStep \/ SemInterrupted \/ EStep \/ SigPipe
  \/ \E c \in Conns : \/ EpollWait(c) \/ TimeOut(c) \/ Pool(c) \/ ClientReads(c)
                      \/ ClientSends(c) \/ ClientCloses(c) \/ ClientResets(c)

Spec == Init /\ [][Next]_vars

-----------------------------------------------------------------------------
(* Properties.                                                             *)

(* Types; a client never has less than no package on the queue, and what  *)
(* is left to send is part of one package.                                 *)
TypeOK ==
  /\ queue \in Seq(Msgs) /\ sem \in Nat /\ lock \in {"S", "W", "none", "dead"}
  /\ posted \in SUBSET Msgs /\ freed \in SUBSET posted
  /\ twice \in SUBSET freed
  /\ state \in [Conns -> {"live", "parked", "pooled"}]
  /\ fdOpen \in [Conns -> BOOLEAN] /\ armed \in [Conns -> BOOLEAN]
  /\ throw \in [Conns -> Int] /\ backlog \in [Conns -> Nat]
  /\ psend \in [Conns -> Msgs \cup {NoMsg}] /\ left \in [Conns -> 0..Size]
  /\ pcS \in {"wait", "lock", "scan", "send", "free", "clear", "zero", "inc", "arm", "dead"}
  /\ pos \in Nat
  /\ pcE \in {"wait", "in", "out", "close", "test", "dec", "park", "disarm",
              "free", "clear", "dec2", "post", "dead"}
  /\ pcC \in [Closers -> {"idle", "close", "test", "dec", "park", "dead"}]
  /\ {cS, cE} \subseteq Conns \cup {NoConn} /\ cC \in [Closers -> Conns \cup {NoConn}]
  /\ mask \subseteq {"IN", "OUT", "HUP"}
  /\ inbuf \in [Conns -> 0..Room] /\ peer \in [Conns -> {"up", "shut", "reset", "gone"}]
  /\ unread \in [Conns -> BOOLEAN] /\ wire \in [Conns -> Seq(Msgs)]

InQueue(m) == \E i \in 1..Len(queue) : queue[i] = m

(* On an open connection the memory of a package has one owner: the queue, *)
(* or the connection it is being sent on, which gives it back once.  It is *)
(* not lost, and psendMemPointer points to memory that was given back only *)
(* while the thread that gave it back is about to clear it.  Of a closed   *)
(* connection only this remains: what is on the queue belongs to nobody    *)
(* else (DoubleFree.cfg shows what does not).                              *)
Clearing(c) == (cE = c /\ pcE \in {"clear", "dead"}) \/ (cS = c /\ pcS \in {"clear", "dead"})
OneOwner ==
  \A m \in posted : LET c == ConnOf[m] IN
    /\ InQueue(m) => m \notin freed /\ psend[c] # m
    /\ fdOpen[c] =>
         /\ InQueue(m) \/ psend[c] = m \/ m \in freed
         /\ psend[c] = m /\ m \in freed => Clearing(c)
         /\ m \notin twice

(* What the comment on zdClosesocketProc() says, that several threads may  *)
(* close a connection and the program stays right, asks of the memory of a *)
(* package: also when its connection was closed it is released only once.  *)
ReleasedOnce == twice = {}

(* What a client reads is whole packages one after the other: a package    *)
(* starts only after all the units of the one before it.                   *)
Units(w, m) == Cardinality({i \in DOMAIN w : w[i] = m})
WireFraming ==
  \A c \in Conns : LET w == wire[c] IN
    /\ \A i \in 1..Len(w) - 1 :
         w[i] # w[i + 1] => \A j \in i + 1..Len(w) : w[j] # w[i]
    /\ \A i \in DOMAIN w : w[i] # w[Len(w)] => Units(w, w[i]) = Size
    /\ \A m \in Msgs : Units(w, m) <= Size

(* iSendCount is the number of the client's packages on the queue, so the  *)
(* test in msgSend() bounds them.                                          *)
BacklogExact ==
  \A c \in Conns : state[c] = "live" =>
    /\ backlog[c] = Cardinality({i \in 1..Len(queue) : ConnOf[queue[i]] = c})
    /\ backlog[c] <= BacklogMax + 1

(* A package left to E is never forgotten: on an open connection the count *)
(* is 1 exactly while one is unfinished, and then EPOLLOUT is armed or a   *)
(* thread is on its way to arm it or to finish the package.                *)
PendingIsDriven ==
  pcE # "dead" => \A c \in Conns : state[c] = "live" /\ fdOpen[c] =>
    /\ throw[c] \in {0, 1}
    /\ throw[c] = 1 => psend[c] # NoMsg \/ (cE = c /\ pcE = "dec2")
    /\ psend[c] # NoMsg =>
         \/ throw[c] = 1 /\ armed[c]
         \/ cS = c
         \/ cE = c /\ pcE \in {"free", "clear"}

(* No wakeup of S is lost, although a package that was passed over has no  *)
(* count of its own in the semaphore: S is going to look at it in this     *)
(* scan or the next, or E will post when it has finished the one before,   *)
(* or is about to.  What S sends at once is followed by no post.           *)
WillLook(i) == pcS = "lock" \/ (pcS # "wait" /\ pos <= i)
WakeupOwed ==
  pcE # "dead" => \A i \in 1..Len(queue) : LET c == ConnOf[queue[i]] IN
    state[c] = "live" /\ fdOpen[c] =>
      \/ sem > 0 \/ WillLook(i)
      \/ cE = c /\ pcE \in {"dec2", "post"}
      \/ psend[c] # NoMsg /\ ~(cS = c /\ pcS \in {"send", "free", "clear"})

(* The comments on a failed send(), that the other end is gone and the     *)
(* package can be dropped: the process goes on.                            *)
SurvivesPeers == pcE # "dead"

=============================================================================
