----------------------------- MODULE TimerQueue -----------------------------
(***************************************************************************)
(* Who watches the clients and who closes their sockets.  The epoll thread *)
(* E puts each accepted connection on the timer queue; the timer thread T  *)
(* looks at the queue twice a second and closes the clients that sent no   *)
(* ping for too long; E, T and a logic thread W may all call               *)
(* zdClosesocketProc() on one connection at the same time, and the send    *)
(* thread S may be about to use its descriptor.                            *)
(* (net/ngx_c_socket_time.cxx, net/ngx_c_socket.cxx,                       *)
(* net/ngx_c_socket_accept.cxx, logic/ngx_c_slogic.cxx.)                   *)
(*                                                                         *)
(* A connection object serves one client (ConnPool shows that the reuse of *)
(* objects is delayed); descriptors are reused at once.  Every function on *)
(* the timer queue runs under m_timequeueMutex and is one step.  The kick  *)
(* switch Sock_WaitTimeEnable is on.                                       *)
(***************************************************************************)
EXTENDS Integers, Sequences, FiniteSets

CONSTANTS
  Conns, NoConn,
  MaxFd,         \* descriptors are 1..MaxFd
  WaitTime,      \* m_iWaitTime
  Grace,         \* the literal 10 of procPingTimeOutChecking()
  MaxNow         \* bound on the clock

ASSUME TimerAssumption ==
  /\ NoConn \notin Conns /\ MaxFd \in Nat /\ WaitTime \in Nat \ {0}
  /\ Grace \in Nat /\ MaxNow \in Nat

NoFd == -1
Closers == {"E", "T", "W"}

VARIABLES
  now,
  timeOutKick,   \* m_ifTimeOutKick: close without looking at the pings
  timers,        \* m_timerQueuemap: [at, conn] in the order of the multimap
  curSize,       \* m_cur_size_
  timerValue,    \* m_timer_value_
  state,         \* "unused", "live" or "parked" (sequence number moved on)
  cfd,           \* fd of each connection
  owner,         \* kernel: whose socket each descriptor is, or NoConn
  lastPing,      \* lastPingTime
  pcE, newc,     \* E inside ngx_event_accept
  pcT, curTime, idle, looked,  \* T: cur_time, m_lsIdleList, seen this second
  pc, tgt, fdv,  \* zdClosesocketProc in each closer: step, p_Conn, descriptor
  sConn, sFd     \* S: p_Conn, and its fd as sendproc() passes it to send()

timerVars == <<timers, curSize, timerValue>>
sockVars == <<state, cfd, owner, lastPing>>
tVars == <<pcT, curTime, idle, looked>>
closeVars == <<pc, tgt, fdv>>
clockVars == <<now, timeOutKick>>
sendVars == <<sConn, sFd>>
vars == <<now, timeOutKick, timerVars, sockVars, pcE, newc, tVars, closeVars, sendVars>>

Init ==
  /\ now = 0 /\ timeOutKick \in BOOLEAN
  /\ timers = <<>> /\ curSize = 0 /\ timerValue = 0
  /\ state = [c \in Conns |-> "unused"] /\ cfd = [c \in Conns |-> NoFd]
  /\ owner = [f \in 1..MaxFd |-> NoConn] /\ lastPing = [c \in Conns |-> 0]
  /\ pcE = "idle" /\ newc = NoConn
  /\ pcT = "sleep" /\ curTime = 0 /\ idle = <<>> /\ looked = FALSE
  /\ pc = [t \in Closers |-> "none"] /\ tgt = [t \in Closers |-> NoConn]
  /\ fdv = [t \in Closers |-> NoFd]
  /\ sConn = NoConn /\ sFd = NoFd

-----------------------------------------------------------------------------
(* The multimap.  How many timers at its front are not later than at, and  *)
(* insert(): an element goes behind those with the same key.               *)
UpperBound(q, at) ==
  CHOOSE k \in 0..Len(q) :
    /\ \A i \in 1..k : q[i].at <= at
    /\ k < Len(q) => q[k + 1].at > at

Insert(q, at, cs) ==
  LET k == UpperBound(q, at)
  IN SubSeq(q, 1, k) \o [i \in 1..Len(cs) |-> [at |-> at, conn |-> cs[i]]]
       \o SubSeq(q, k + 1, Len(q))

(* The queue becomes q, of which n timers are new or, below 0, are gone;   *)
(* m_timer_value_ = GetEarliestTime() unless it is empty.                  *)
SetTimers(q, n) ==
  /\ timers' = q /\ curSize' = curSize + n
  /\ timerValue' = IF curSize' > 0 THEN q[1].at ELSE timerValue

-----------------------------------------------------------------------------
(* E: accept() gives the lowest free descriptor; the connection is set up  *)
(* and added to epoll, then to the timer queue.                            *)
Accept(c) ==
  /\ pcE = "idle" /\ pc["E"] = "none" /\ state[c] = "unused"
  /\ \E f \in 1..MaxFd :
       /\ owner[f] = NoConn /\ \A g \in 1..f - 1 : owner[g] # NoConn
       /\ owner' = [owner EXCEPT ![f] = c]
       /\ cfd' = [cfd EXCEPT ![c] = f]
  /\ state' = [state EXCEPT ![c] = "live"]
  /\ lastPing' = [lastPing EXCEPT ![c] = now]
  /\ newc' = c /\ pcE' = "timer"
  /\ UNCHANGED <<clockVars, timerVars, tVars, closeVars, sendVars>>

(* Mutant: m_timer_value_ is not refreshed.                                *)
AddUnnoticed ==
  /\ pcE = "timer"
  /\ timers' = Insert(timers, now + WaitTime, <<newc>>)
  /\ curSize' = curSize + 1
  /\ newc' = NoConn /\ pcE' = "idle"
  /\ UNCHANGED <<clockVars, timerValue, sockVars, tVars, closeVars, sendVars>>

AddToTimerQueue ==
  /\ pcE = "timer"
  /\ SetTimers(Insert(timers, now + WaitTime, <<newc>>), 1)
  /\ newc' = NoConn /\ pcE' = "idle"
  /\ UNCHANGED <<clockVars, sockVars, tVars, closeVars, sendVars>>

-----------------------------------------------------------------------------
(* zdClosesocketProc() in thread t, for the connection tgt[t].             *)
BeginClose(t, c) ==
  /\ pc[t] = "none"
  /\ pc' = [pc EXCEPT ![t] = "del"] /\ tgt' = [tgt EXCEPT ![t] = c]
  /\ UNCHANGED fdv

(* E got 0 or an error from recv(); W's msgSend() cuts the client off,     *)
(* with m_sendMessageQueueMutex held, which S has while it sends.          *)
ReadClosed(c) ==
  /\ pcE = "idle" /\ \E f \in 1..MaxFd : owner[f] = c
  /\ BeginClose("E", c)
  /\ UNCHANGED <<clockVars, timerVars, sockVars, pcE, newc, tVars, sendVars>>

CutOff(c) ==
  /\ state[c] = "live" /\ newc # c /\ sConn = NoConn
  /\ BeginClose("W", c)
  /\ UNCHANGED <<clockVars, timerVars, sockVars, pcE, newc, tVars, sendVars>>

Go(t, from, to) == pc[t] = from /\ pc' = [pc EXCEPT ![t] = to]

(* One pass through the queue, which leaves out the timers of c.           *)
Without(q, c) ==
  LET kept[i \in 0..Len(q)] ==
        IF i = 0 THEN <<>>
        ELSE IF q[i].conn = c THEN kept[i - 1] ELSE Append(kept[i - 1], q[i])
  IN kept[Len(q)]

DeleteTimers(t, c) ==
  /\ Go(t, "del", "test")
  /\ LET rest == Without(timers, c) IN SetTimers(rest, Len(rest) - Len(timers))
  /\ UNCHANGED <<clockVars, sockVars, pcE, newc, tVars, tgt, fdv, sendVars>>

(* Mutant: a connection that is closed keeps its timer.                    *)
DeleteNone(t) == DeleteTimers(t, NoConn)

DeleteFromTimerQueue(t) == DeleteTimers(t, tgt[t])

TestFd(t) ==
  /\ Go(t, "test", IF cfd[tgt[t]] # NoFd THEN "load" ELSE "park")
  /\ UNCHANGED <<clockVars, timerVars, sockVars, pcE, newc, tVars, tgt, fdv, sendVars>>

(* Mutant: fd is set to -1 before it is passed to close().                 *)
ClearThenLoad(t) ==
  /\ Go(t, "load", "close")
  /\ cfd' = [cfd EXCEPT ![tgt[t]] = NoFd]
  /\ fdv' = [fdv EXCEPT ![t] = NoFd]
  /\ UNCHANGED <<clockVars, timerVars, state, owner, lastPing, pcE, newc, tVars, tgt,
                 sendVars>>

LoadFd(t) ==
  /\ Go(t, "load", "close")
  /\ fdv' = [fdv EXCEPT ![t] = cfd[tgt[t]]]
  /\ UNCHANGED <<clockVars, timerVars, sockVars, pcE, newc, tVars, tgt, sendVars>>

(* close() of whatever the descriptor is by now; -1 is EBADF.              *)
CloseFd(t) ==
  /\ Go(t, "close", "clear")
  /\ owner' = [f \in 1..MaxFd |-> IF f = fdv[t] THEN NoConn ELSE owner[f]]
  /\ UNCHANGED <<clockVars, timerVars, state, cfd, lastPing, pcE, newc, tVars, tgt,
                 fdv, sendVars>>

ClearFd(t) ==
  /\ Go(t, "clear", "park")
  /\ cfd' = [cfd EXCEPT ![tgt[t]] = NoFd]
  /\ fdv' = [fdv EXCEPT ![t] = NoFd]
  /\ UNCHANGED <<clockVars, timerVars, state, owner, lastPing, pcE, newc, tVars, tgt,
                 sendVars>>

(* inRecyConnectQueue(): ++iCurrsequence, unless it is parked already.     *)
Park(t) ==
  /\ Go(t, "park", "none")
  /\ state' = [state EXCEPT ![tgt[t]] = "parked"]
  /\ tgt' = [tgt EXCEPT ![t] = NoConn]
  /\ UNCHANGED <<clockVars, timerVars, cfd, owner, lastPing, pcE, newc, tVars, fdv,
                 sendVars>>

CloseStep(t) == DeleteFromTimerQueue(t) \/ TestFd(t) \/ LoadFd(t) \/ CloseFd(t)
                  \/ ClearFd(t) \/ Park(t)

-----------------------------------------------------------------------------
(* T: ServerTimerQueueMonitorThread.                                       *)

(* The unlocked look at m_cur_size_ and m_timer_value_.                    *)
TLook ==
  /\ pcT = "sleep"
  /\ looked' = TRUE /\ curTime' = now
  /\ pcT' = IF curSize > 0 /\ timerValue < now THEN "collect" ELSE "sleep"
  /\ UNCHANGED <<clockVars, timerVars, sockVars, pcE, newc, idle, closeVars, sendVars>>

(* GetOverTimeTimer() until it returns NULL: the timers that are due come  *)
(* off, and go back on for the next check unless it closes anyway; that is *)
(* later than any due one, so that none comes off twice.                   *)
CollectDue(again, counted) ==
  /\ pcT = "collect"
  /\ LET n == UpperBound(timers, curTime)
         due == [i \in 1..n |-> timers[i].conn]
         rest == SubSeq(timers, n + 1, Len(timers))
     IN /\ idle' = due
        /\ SetTimers(IF again THEN Insert(rest, curTime + WaitTime, due) ELSE rest,
                     IF again /\ counted THEN 0 ELSE -n)
  /\ pcT' = "check"
  /\ UNCHANGED <<clockVars, sockVars, pcE, newc, curTime, looked, closeVars, sendVars>>

(* Mutants: a timer that ran out is never put back; it is put back without *)
(* ++m_cur_size_.                                                          *)
CollectOnce == CollectDue(FALSE, TRUE)
CollectUncounted == CollectDue(~timeOutKick, FALSE)

TCollect == CollectDue(~timeOutKick, TRUE)

(* procPingTimeOutChecking() on the first of the list.                     *)
Silent(c) == curTime - lastPing[c] > 3 * WaitTime + Grace
TCheck ==
  /\ pcT = "check" /\ idle # <<>> /\ pc["T"] = "none"
  /\ \E c \in Conns :
       /\ c = idle[1]
       /\ IF state[c] = "live" /\ (timeOutKick \/ Silent(c))
          THEN BeginClose("T", c)
          ELSE UNCHANGED closeVars
  /\ idle' = Tail(idle)
  /\ UNCHANGED <<clockVars, timerVars, sockVars, pcE, newc, pcT, curTime, looked,
                 sendVars>>

TSleep ==
  /\ pcT = "check" /\ idle = <<>> /\ pc["T"] = "none"
  /\ pcT' = "sleep"
  /\ UNCHANGED <<clockVars, timerVars, sockVars, pcE, newc, curTime, idle, looked,
                 closeVars, sendVars>>

-----------------------------------------------------------------------------
(* S: ServerSendQueueThread, with that mutex, has a package whose sequence *)
(* number is still its connection's, and reads the connection's fd; with   *)
(* -1 send() does nothing.  E and T do not need the mutex to close it.     *)
STake(c) ==
  /\ sConn = NoConn /\ pc["W"] = "none"
  /\ state[c] = "live" /\ newc # c /\ cfd[c] # NoFd
  /\ sConn' = c /\ sFd' = cfd[c]
  /\ UNCHANGED <<clockVars, timerVars, sockVars, pcE, newc, tVars, closeVars>>

(* send() to whatever socket the descriptor is by now.                     *)
SSend ==
  /\ sConn # NoConn
  /\ sConn' = NoConn /\ sFd' = NoFd
  /\ UNCHANGED <<clockVars, timerVars, sockVars, pcE, newc, tVars, closeVars>>

-----------------------------------------------------------------------------
(* A logic thread handles a ping of the client (_HandlePing).              *)
Ping(c) ==
  /\ state[c] = "live" /\ newc # c
  /\ lastPing' = [lastPing EXCEPT ![c] = now]
  /\ UNCHANGED <<clockVars, timerVars, state, cfd, owner, pcE, newc, tVars,
                 closeVars, sendVars>>

(* A second passes; T, which sleeps 500 ms at a time, has looked in it and *)
(* has dealt with what it found, and no accept took longer.                *)
Tick ==
  /\ now < MaxNow /\ looked /\ pcT = "sleep" /\ pcE = "idle"
  /\ now' = now + 1 /\ looked' = FALSE
  /\ UNCHANGED <<timeOutKick, timerVars, sockVars, pcE, newc, pcT, curTime, idle,
                 closeVars, sendVars>>

Next ==
  \/ \E c \in Conns : Accept(c) \/ ReadClosed(c) \/ CutOff(c) \/ Ping(c) \/ STake(c)
  \/ \E t \in Closers : CloseStep(t)
  \/ AddToTimerQueue \/ TLook \/ TCollect \/ TCheck \/ TSleep \/ Tick \/ SSend

Spec == Init /\ [][Next]_vars

-----------------------------------------------------------------------------
(* Properties.                                                             *)

(* Types of what the closing threads share, and of the whole state.        *)
SocketTypes ==
  /\ state \in [Conns -> {"unused", "live", "parked"}]
  /\ cfd \in [Conns -> 1..MaxFd \cup {NoFd}]
  /\ owner \in [1..MaxFd -> Conns \cup {NoConn}]
  /\ pc \in [Closers -> {"none", "del", "test", "load", "close", "clear", "park"}]
  /\ tgt \in [Closers -> Conns \cup {NoConn}]
  /\ fdv \in [Closers -> 1..MaxFd \cup {NoFd}]

TypeOK ==
  /\ now \in 0..MaxNow /\ timeOutKick \in BOOLEAN
  /\ timers \in Seq([at : Nat, conn : Conns]) /\ curSize \in Nat /\ timerValue \in Nat
  /\ pcE \in {"idle", "timer"} /\ newc \in Conns \cup {NoConn}
  /\ pcT \in {"sleep", "collect", "check"} /\ curTime \in 0..MaxNow
  /\ idle \in Seq(Conns) /\ looked \in BOOLEAN
  /\ lastPing \in [Conns -> 0..MaxNow] /\ SocketTypes
  /\ sConn \in Conns \cup {NoConn} /\ sFd \in 1..MaxFd \cup {NoFd}

Entries(c) == Cardinality({i \in 1..Len(timers) : timers[i].conn = c})
Closing(c) == \E t \in Closers : tgt[t] = c

(* Every client is watched: a live connection that nobody is closing has   *)
(* exactly one timer, or T holds the one that just ran out; a parked one   *)
(* has none, so no timer outlives its client.                              *)
Watched ==
  \A c \in Conns :
    /\ Entries(c) <= (IF state[c] = "live" THEN 1 ELSE 0)
    /\ state[c] = "live" /\ newc # c /\ ~Closing(c) =>
         \/ Entries(c) = 1
         \/ timeOutKick /\ \E i \in 1..Len(idle) : idle[i] = c

(* What T reads without the mutex: m_cur_size_ is the size of the queue,   *)
(* and m_timer_value_ the earliest time on it; the queue stays in order.   *)
EarliestKnown ==
  /\ curSize = Len(timers)
  /\ \A i \in 1..Len(timers) - 1 : timers[i].at <= timers[i + 1].at
  /\ timers # <<>> => timerValue = timers[1].at

(* A client that sends no ping is closed in bounded time: the limit, one   *)
(* interval until the next check, and a second because m_timer_value_ must *)
(* lie in the past.                                                        *)
KickDeadline ==
  ~timeOutKick =>
    \A c \in Conns : state[c] = "live" /\ newc # c /\ ~Closing(c) =>
      now - lastPing[c] <= 3 * WaitTime + Grace + WaitTime + 1

(* No descriptor leaks: an open socket belongs to a connection whose fd    *)
(* names it, and which is not parked.                                      *)
NoFdLeak ==
  \A f \in 1..MaxFd : owner[f] # NoConn =>
    cfd[owner[f]] = f /\ state[owner[f]] = "live"

(* The inductive invariant for NoFdLeak: between its test of fd and its    *)
(* last step a thread that closes a connection has the descriptor that is  *)
(* open, or none is.                                                       *)
Shut(c) == \A f \in 1..MaxFd : owner[f] # c

FdInv ==
  /\ SocketTypes /\ NoFdLeak
  /\ \A t \in Closers : pc[t] # "none" => tgt[t] \in Conns /\ state[tgt[t]] # "unused"
  /\ \A t \in Closers : pc[t] = "close" => fdv[t] = cfd[tgt[t]] \/ Shut(tgt[t])
  /\ \A t \in Closers : pc[t] \in {"clear", "park"} => Shut(tgt[t])

(* The inductive invariant for Watched and EarliestKnown.  A timer is a    *)
(* live client's that has been set up, and the only one it has; a thread   *)
(* that closes a connection has taken its timer off and nobody puts it     *)
(* back, as T has forgotten the timers it took off, and so has E.          *)
HasTimer(q, c) == \E i \in 1..Len(q) : q[i].conn = c
Listed(s, c) == \E i \in 1..Len(s) : s[i] = c
Timed(c) == HasTimer(timers, c)
InIdle(c) == Listed(idle, c)

Ordered(q) == \A i, j \in 1..Len(q) : i <= j => q[i].at <= q[j].at
Distinct(q) == \A i, j \in 1..Len(q) : q[i].conn = q[j].conn => i = j

QueueInv ==
  /\ Ordered(timers) /\ Distinct(timers) /\ curSize = Len(timers)
  /\ timers # <<>> => timerValue = timers[1].at

NewInv ==
  /\ newc # NoConn <=> pcE = "timer"
  /\ \A c \in Conns : newc = c => state[c] = "live" /\ ~Closing(c) /\ ~Timed(c)

CloseInv ==
  \A t \in Closers :
    /\ pc[t] = "none" <=> tgt[t] = NoConn
    /\ \A c \in Conns : tgt[t] = c /\ pc[t] # "del" => ~Timed(c)

IdleInv ==
  /\ pcT # "check" => idle = <<>>
  /\ \A c \in Conns : InIdle(c) => state[c] # "unused" /\ newc # c

ClientInv ==
  \A c \in Conns :
    /\ Timed(c) => state[c] = "live"
    /\ state[c] = "live" /\ newc # c /\ ~Closing(c) =>
         Timed(c) \/ (timeOutKick /\ InIdle(c))

WatchInv ==
  /\ TypeOK /\ FdInv /\ QueueInv /\ NewInv /\ CloseInv /\ IdleInv /\ ClientInv

(* And for KickDeadline: T has looked at the timers in every second, so    *)
(* that none is overdue by more than one; what it took off it puts back    *)
(* for one interval later; a timer stands for a ping, or an accept, that   *)
(* was recent enough one interval before.                                  *)
ClockInv ==
  /\ pcT # "sleep" => curTime = now /\ looked
  /\ \A c \in Conns : lastPing[c] <= now /\ (newc = c => lastPing[c] = now)

InTime(e) ==
  /\ e.at \in now - 1..now + WaitTime
  /\ looked /\ pcT # "collect" => e.at >= now
  /\ InIdle(e.conn) => e.at = now + WaitTime

Recent(c) ==
  \/ InIdle(c) /\ now - lastPing[c] <= 4 * WaitTime + Grace + 1
  \/ \E i \in 1..Len(timers) :
       timers[i].conn = c /\ timers[i].at - lastPing[c] <= 4 * WaitTime + Grace

DeadlineInv ==
  /\ WatchInv /\ ClockInv
  /\ \A i \in 1..Len(timers) : InTime(timers[i])
  /\ ~timeOutKick =>
       \A c \in Conns : state[c] = "live" /\ newc # c /\ ~Closing(c) => Recent(c)

(* The comment of zdClosesocketProc(), that several threads may call it at *)
(* once without harm: a connection that nobody is closing keeps its socket.*)
KeepsSocket ==
  \A c \in Conns : cfd[c] # NoFd /\ ~Closing(c) => owner[cfd[c]] = c

(* The comment on S's test of the sequence number, that it needs no mutex  *)
(* with the connection's, and README's claim that the number keeps clients *)
(* apart: what S is about to send goes to its client's socket, or nowhere. *)
SendsToClient == sConn # NoConn => owner[sFd] \in {sConn, NoConn}

=============================================================================
