--------------------------- MODULE ConnPoolProofs ---------------------------
(***************************************************************************)
(* Theorems about ConnPool, for every set of connection objects, every     *)
(* number of logic threads and every value of the limits and delays.       *)
(*                                                                         *)
(* Inv is inductive.  Each of its parts has a lemma that says one step     *)
(* preserves it, with one case per action.                                 *)
(***************************************************************************)
EXTENDS ConnPool, FiniteSetTheorems, TLAPS

(* The delay before a closed connection object is reused outlasts the      *)
(* handling of an epoll event, the time its message may be queued and the  *)
(* handling of that message.                                               *)
DelayOutlastsUse == RecyWait > 2 * MaxHold + MaxQueue

(* The initial state satisfies every part of the invariant.                *)
LEMMA InitInv == Init => Inv
<1> SUFFICES ASSUME Init PROVE Inv
  OBVIOUS
<1> USE PoolAssumption DEF PoolAssumption, Init, NoEvent, NoHold, Threads
<1>1. TypeOK
  BY DEF TypeOK, Event, Held, Ref
<1>2. OnePlace
  BY DEF OnePlace
<1>3. NoLeak
  BY DEF NoLeak, InUse, Accepting
<1>4. ControlInv
  BY DEF ControlInv
<1>5. TimeInv
  BY DEF TimeInv
<1>6. UseInv /\ RefInv
  BY DEF UseInv, RefInv
<1>7. QED
  BY <1>1, <1>2, <1>3, <1>4, <1>5, <1>6 DEF Inv

(* Types: a freed or parked object is one the pool has created.            *)
LEMMA TypeStep == Inv /\ [Next]_vars => TypeOK'
<1> SUFFICES ASSUME Inv, [Next]_vars PROVE TypeOK'
  OBVIOUS
<1> USE PoolAssumption DEF PoolAssumption, Inv, TypeOK, ControlInv, UseInv,
         Kept, Referable, Event, Ref, Held, NoEvent, NoHold, eVars, tVars,
         rVars
<1>1. CASE Accept
  BY <1>1 DEF Accept
<1>2. CASE GetConnection
  BY <1>2 DEF GetConnection, GetOneToUse
<1>3. CASE EpollAdd
  BY <1>3 DEF EpollAdd
<1>4. CASE CloseConnectionFree
  BY <1>4 DEF CloseConnectionFree, FreeConnection
<1>5. CASE CloseConnectionFd
  BY <1>5 DEF CloseConnectionFd
<1>6. CASE AddToTimerQueue
  BY <1>6 DEF AddToTimerQueue
<1>7. CASE CountUser
  BY <1>7 DEF CountUser
<1>8. CASE EpollWait
  BY <1>8 DEF EpollWait
<1>9. CASE ReadPartial
  BY <1>9 DEF ReadPartial
<1>10. CASE ReadComplete
  BY <1>10 DEF ReadComplete
<1>11. CASE Capture
  BY <1>11 DEF Capture
<1>12. CASE FloodKick
  BY <1>12 DEF FloodKick
<1>13. CASE ReadClosed
  BY <1>13 DEF ReadClosed
<1>14. CASE EShut
  BY <1>14 DEF EShut, ShutSocket
<1>15. CASE ERecy
  BY <1>15 DEF ERecy, InRecyConnectQueue
<1>16. ASSUME NEW t \in Threads, Take(t) PROVE TypeOK'
  <2>1. PICK r \in refs : /\ refs' \in {refs, refs \ {r}}
                          /\ \/ hold' = [hold EXCEPT ![t] = [conn |-> r.conn,
                                         client |-> r.client, since |-> now]]
                                /\ pcT' = [pcT EXCEPT ![t] = "use"]
                             \/ UNCHANGED tVars
    BY <1>16 DEF Take
  <2>2. [conn |-> r.conn, client |-> r.client, since |-> now] \in Held
    BY <2>1
  <2>3. hold' \in [Threads -> Held] /\ pcT' \in [Threads -> {"idle", "use", "recy"}]
    BY <2>1, <2>2, SMTT(40)
  <2>4. QED
    BY <1>16, <2>1, <2>3 DEF Take
<1>17. ASSUME NEW t \in Threads, Finish(t) PROVE TypeOK'
  BY <1>17 DEF Finish
<1>18. ASSUME NEW t \in Threads, TShut(t) PROVE TypeOK'
  BY <1>18 DEF TShut, ShutSocket
<1>19. ASSUME NEW t \in Threads, TRecy(t) PROVE TypeOK'
  BY <1>19 DEF TRecy, InRecyConnectQueue
<1>20. CASE RWake
  BY <1>20 DEF RWake
<1>21. CASE RLock
  BY <1>21 DEF RLock
<1>22. CASE RErase
  BY <1>22 DEF RErase, Due
<1>23. CASE RPut
  BY <1>23 DEF RPut, FreeConnection
<1>24. CASE RUnlock
  BY <1>24 DEF RUnlock, Due
<1>25. CASE Tick
  BY <1>25 DEF Tick
<1>26. CASE UNCHANGED vars
  BY <1>26 DEF vars
<1>27. CASE Collect
  BY <1>27 DEF Collect
<1>28. QED
    BY <1>1, <1>2, <1>3, <1>4, <1>5, <1>6, <1>7, <1>8, <1>9, <1>10, <1>11,
     <1>12, <1>13, <1>14, <1>15, <1>16, <1>17, <1>18, <1>19, <1>20, <1>21,
     <1>22, <1>23, <1>24, <1>25, <1>26, <1>27 DEF Next, EAccept, ERead, TStep,
     RStep

(* Program counters agree with the variables of their thread.              *)
LEMMA ControlStep == Inv /\ [Next]_vars => ControlInv'
<1> SUFFICES ASSUME Inv, [Next]_vars PROVE ControlInv'
  OBVIOUS
<1> USE PoolAssumption DEF PoolAssumption, Inv, TypeOK, ControlInv,
         OnePlace, UseInv, Kept, Referable, Event, Held, NoEvent, NoHold,
         eVars, tVars, rVars
<1>1. CASE Accept
  BY <1>1 DEF Accept
<1>2. CASE GetConnection
  BY <1>2 DEF GetConnection, GetOneToUse
<1>3. CASE EpollAdd
  BY <1>3 DEF EpollAdd
<1>4. CASE CloseConnectionFree
  BY <1>4 DEF CloseConnectionFree, FreeConnection
<1>5. CASE CloseConnectionFd
  BY <1>5 DEF CloseConnectionFd
<1>6. CASE AddToTimerQueue
  BY <1>6 DEF AddToTimerQueue
<1>7. CASE CountUser
  BY <1>7 DEF CountUser
<1>8. CASE EpollWait
  BY <1>8 DEF EpollWait
<1>9. CASE ReadPartial
  BY <1>9 DEF ReadPartial
<1>10. CASE ReadComplete
  BY <1>10 DEF ReadComplete
<1>11. CASE Capture
  BY <1>11 DEF Capture
<1>12. CASE FloodKick
  BY <1>12 DEF FloodKick
<1>13. CASE ReadClosed
  BY <1>13 DEF ReadClosed
<1>14. CASE EShut
  BY <1>14 DEF EShut, ShutSocket
<1>15. CASE ERecy
  BY <1>15 DEF ERecy, InRecyConnectQueue
<1>16. ASSUME NEW t \in Threads, Take(t) PROVE ControlInv'
  BY <1>16 DEF Take, SequenceMatches
<1>17. ASSUME NEW t \in Threads, Finish(t) PROVE ControlInv'
  BY <1>17 DEF Finish
<1>18. ASSUME NEW t \in Threads, TShut(t) PROVE ControlInv'
  BY <1>18 DEF TShut, ShutSocket
<1>19. ASSUME NEW t \in Threads, TRecy(t) PROVE ControlInv'
  BY <1>19 DEF TRecy, InRecyConnectQueue
<1>20. CASE RWake
  BY <1>20 DEF RWake
<1>21. CASE RLock
  BY <1>21 DEF RLock
<1>22. CASE RErase
  BY <1>22 DEF RErase, Due
<1>23. CASE RPut
  BY <1>23 DEF RPut, FreeConnection
<1>24. CASE RUnlock
  BY <1>24 DEF RUnlock, Due
<1>25. CASE Tick
  BY <1>25 DEF Tick
<1>26. CASE UNCHANGED vars
  BY <1>26 DEF vars
<1>27. CASE Collect
  BY <1>27 DEF Collect
<1>28. QED
    BY <1>1, <1>2, <1>3, <1>4, <1>5, <1>6, <1>7, <1>8, <1>9, <1>10, <1>11,
     <1>12, <1>13, <1>14, <1>15, <1>16, <1>17, <1>18, <1>19, <1>20, <1>21,
     <1>22, <1>23, <1>24, <1>25, <1>26, <1>27 DEF Next, EAccept, ERead, TStep,
     RStep

(* An object is in one place: R's delay keeps it from freeing the object   *)
(* that accept has just added to epoll and not yet counted.                *)
LEMMA OnePlaceStep == Inv /\ DelayOutlastsUse /\ [Next]_vars => OnePlace'
<1> SUFFICES ASSUME Inv, DelayOutlastsUse, [Next]_vars PROVE OnePlace'
  OBVIOUS
<1> USE PoolAssumption DEF PoolAssumption, Inv, TypeOK, ControlInv,
         OnePlace, UseInv, Kept, Referable, Event, Held, eVars, tVars, rVars
<1>1. CASE Accept
  BY <1>1 DEF Accept
<1>2. CASE GetConnection
  <2>1. PICK c \in Conns : /\ c \in free \/ c \notin created
                           /\ free' = free \ {c} /\ newc' = c
                           /\ created' = created \cup {c}
                           /\ fdOpen' = [fdOpen EXCEPT ![c] = TRUE]
    BY <1>2 DEF GetConnection, GetOneToUse
  <2>2. c \notin recy /\ c # rConn /\ c \notin Listeners /\ newc = NoConn
    BY <1>2, <2>1 DEF GetConnection
  <2>3. QED
    BY <1>2, <2>1, <2>2 DEF GetConnection
<1>3. CASE EpollAdd
  BY <1>3 DEF EpollAdd
<1>4. CASE CloseConnectionFree
  BY <1>4 DEF CloseConnectionFree, FreeConnection
<1>5. CASE CloseConnectionFd
  BY <1>5 DEF CloseConnectionFd
<1>6. CASE AddToTimerQueue
  BY <1>6 DEF AddToTimerQueue
<1>7. CASE CountUser
  BY <1>7 DEF CountUser
<1>8. CASE EpollWait
  BY <1>8 DEF EpollWait
<1>9. CASE ReadPartial
  BY <1>9 DEF ReadPartial
<1>10. CASE ReadComplete
  BY <1>10 DEF ReadComplete
<1>11. CASE Capture
  BY <1>11 DEF Capture
<1>12. CASE FloodKick
  BY <1>12 DEF FloodKick
<1>13. CASE ReadClosed
  BY <1>13 DEF ReadClosed
<1>14. CASE EShut
  BY <1>14 DEF EShut, ShutSocket
<1>15. CASE ERecy
  BY <1>15 DEF ERecy, InRecyConnectQueue
<1>16. ASSUME NEW t \in Threads, Take(t) PROVE OnePlace'
  BY <1>16 DEF Take, SequenceMatches
<1>17. ASSUME NEW t \in Threads, Finish(t) PROVE OnePlace'
  BY <1>17 DEF Finish
<1>18. ASSUME NEW t \in Threads, TShut(t) PROVE OnePlace'
  BY <1>18 DEF TShut, ShutSocket
<1>19. ASSUME NEW t \in Threads, TRecy(t) PROVE OnePlace'
  BY <1>19 DEF TRecy, InRecyConnectQueue
<1>20. CASE RWake
  BY <1>20 DEF RWake
<1>21. CASE RLock
  BY <1>21 DEF RLock
<1>22. CASE RErase
  <2>1. PICK c \in recy : Due(c) /\ recy' = recy \ {c} /\ rConn' = c
    BY <1>22 DEF RErase
  <2>2. newc # c
    BY <1>22, <2>1 DEF RErase, Due, TimeInv, DelayOutlastsUse
  <2>3. QED
    BY <1>22, <2>1, <2>2 DEF RErase
<1>23. CASE RPut
  BY <1>23 DEF RPut, FreeConnection
<1>24. CASE RUnlock
  BY <1>24 DEF RUnlock, Due
<1>25. CASE Tick
  BY <1>25 DEF Tick
<1>26. CASE UNCHANGED vars
  BY <1>26 DEF vars
<1>27. CASE Collect
  BY <1>27 DEF Collect
<1>28. QED
    BY <1>1, <1>2, <1>3, <1>4, <1>5, <1>6, <1>7, <1>8, <1>9, <1>10, <1>11,
     <1>12, <1>13, <1>14, <1>15, <1>16, <1>17, <1>18, <1>19, <1>20, <1>21,
     <1>22, <1>23, <1>24, <1>25, <1>26, <1>27 DEF Next, EAccept, ERead, TStep,
     RStep

(* An object in use whose socket is closed has a thread about to park it.  *)
LEMMA NoLeakStep == Inv /\ [Next]_vars => NoLeak'
<1> SUFFICES ASSUME Inv, [Next]_vars PROVE NoLeak'
  OBVIOUS
<1> USE PoolAssumption DEF PoolAssumption, Inv, TypeOK, ControlInv,
         OnePlace, NoLeak, InUse, Accepting, Event, Held, eVars, tVars,
         rVars
<1>1. CASE Accept
  BY <1>1 DEF Accept
<1>2. CASE GetConnection
  BY <1>2 DEF GetConnection, GetOneToUse
<1>3. CASE EpollAdd
  BY <1>3 DEF EpollAdd
<1>4. CASE CloseConnectionFree
  BY <1>4 DEF CloseConnectionFree, FreeConnection
<1>5. CASE CloseConnectionFd
  BY <1>5 DEF CloseConnectionFd
<1>6. CASE AddToTimerQueue
  BY <1>6 DEF AddToTimerQueue
<1>7. CASE CountUser
  BY <1>7 DEF CountUser
<1>8. CASE EpollWait
  BY <1>8 DEF EpollWait
<1>9. CASE ReadPartial
  BY <1>9 DEF ReadPartial
<1>10. CASE ReadComplete
  BY <1>10 DEF ReadComplete
<1>11. CASE Capture
  BY <1>11 DEF Capture
<1>12. CASE FloodKick
  BY <1>12 DEF FloodKick
<1>13. CASE ReadClosed
  BY <1>13 DEF ReadClosed
<1>14. CASE EShut
  BY <1>14 DEF EShut, ShutSocket
<1>15. CASE ERecy
  BY <1>15 DEF ERecy, InRecyConnectQueue
<1>16. ASSUME NEW t \in Threads, Take(t) PROVE NoLeak'
  BY <1>16 DEF Take, SequenceMatches
<1>17. ASSUME NEW t \in Threads, Finish(t) PROVE NoLeak'
  BY <1>17 DEF Finish
<1>18. ASSUME NEW t \in Threads, TShut(t) PROVE NoLeak'
  BY <1>18 DEF TShut, ShutSocket
<1>19. ASSUME NEW t \in Threads, TRecy(t) PROVE NoLeak'
  BY <1>19 DEF TRecy, InRecyConnectQueue
<1>20. CASE RWake
  BY <1>20 DEF RWake
<1>21. CASE RLock
  BY <1>21 DEF RLock
<1>22. CASE RErase
  BY <1>22 DEF RErase, Due
<1>23. CASE RPut
  BY <1>23 DEF RPut, FreeConnection
<1>24. CASE RUnlock
  BY <1>24 DEF RUnlock, Due
<1>25. CASE Tick
  BY <1>25 DEF Tick
<1>26. CASE UNCHANGED vars
  BY <1>26 DEF vars
<1>27. CASE Collect
  BY <1>27 DEF Collect
<1>28. QED
    BY <1>1, <1>2, <1>3, <1>4, <1>5, <1>6, <1>7, <1>8, <1>9, <1>10, <1>11,
     <1>12, <1>13, <1>14, <1>15, <1>16, <1>17, <1>18, <1>19, <1>20, <1>21,
     <1>22, <1>23, <1>24, <1>25, <1>26, <1>27 DEF Next, EAccept, ERead, TStep,
     RStep

(* No thread and no message outlives its time.                             *)
LEMMA TimeStep == Inv /\ [Next]_vars => TimeInv'
<1> SUFFICES ASSUME Inv, [Next]_vars PROVE TimeInv'
  OBVIOUS
<1> USE PoolAssumption DEF PoolAssumption, Inv, TypeOK, ControlInv, TimeInv,
         Event, Held, eVars, tVars, rVars
<1>1. CASE Accept
  BY <1>1 DEF Accept
<1>2. CASE GetConnection
  BY <1>2 DEF GetConnection, GetOneToUse
<1>3. CASE EpollAdd
  BY <1>3 DEF EpollAdd
<1>4. CASE CloseConnectionFree
  BY <1>4 DEF CloseConnectionFree, FreeConnection
<1>5. CASE CloseConnectionFd
  BY <1>5 DEF CloseConnectionFd
<1>6. CASE AddToTimerQueue
  BY <1>6 DEF AddToTimerQueue
<1>7. CASE CountUser
  BY <1>7 DEF CountUser
<1>8. CASE EpollWait
  BY <1>8 DEF EpollWait
<1>9. CASE ReadPartial
  BY <1>9 DEF ReadPartial
<1>10. CASE ReadComplete
  BY <1>10 DEF ReadComplete
<1>11. CASE Capture
  BY <1>11 DEF Capture
<1>12. CASE FloodKick
  BY <1>12 DEF FloodKick
<1>13. CASE ReadClosed
  BY <1>13 DEF ReadClosed
<1>14. CASE EShut
  BY <1>14 DEF EShut, ShutSocket
<1>15. CASE ERecy
  BY <1>15 DEF ERecy, InRecyConnectQueue
<1>16. ASSUME NEW t \in Threads, Take(t) PROVE TimeInv'
  BY <1>16, SMTT(40) DEF Take, SequenceMatches
<1>17. ASSUME NEW t \in Threads, Finish(t) PROVE TimeInv'
  BY <1>17 DEF Finish
<1>18. ASSUME NEW t \in Threads, TShut(t) PROVE TimeInv'
  BY <1>18 DEF TShut, ShutSocket
<1>19. ASSUME NEW t \in Threads, TRecy(t) PROVE TimeInv'
  BY <1>19 DEF TRecy, InRecyConnectQueue
<1>20. CASE RWake
  BY <1>20 DEF RWake
<1>21. CASE RLock
  BY <1>21 DEF RLock
<1>22. CASE RErase
  BY <1>22 DEF RErase, Due
<1>23. CASE RPut
  BY <1>23 DEF RPut, FreeConnection
<1>24. CASE RUnlock
  BY <1>24 DEF RUnlock, Due
<1>25. CASE Tick
  <2>1. now' = now + 1 /\ now' \in Nat
    BY <1>25 DEF Tick
  <2>2. ASSUME NEW t \in Threads, pcT[t] # "idle"
        PROVE hold[t].since <= now' /\ now' <= hold[t].since + MaxHold
    <3>1. hold[t].since \in Nat /\ hold[t].since <= now
      BY <2>2
    <3>2. QED
      BY <1>25, <2>1, <2>2, <3>1 DEF Tick
  <2>3. ASSUME NEW r \in refs, r.kind = "msg"
        PROVE r.at <= now' /\ now' <= r.at + MaxQueue
    <3>1. r.at \in Nat /\ r.at <= now
      BY <2>3 DEF Ref
    <3>2. QED
      BY <1>25, <2>1, <2>3, <3>1 DEF Tick
  <2>4. batch # {} \/ pcE # "wait" => now' <= batchAt + MaxHold
    BY <1>25, <2>1 DEF Tick
  <2>5. QED
    BY <1>25, <2>1, <2>2, <2>3, <2>4 DEF Tick
<1>26. CASE UNCHANGED vars
  BY <1>26, SMTT(40) DEF vars
<1>27. CASE Collect
  <2>1. \A r \in refs' : r.kind = "msg" => r \in refs
    <3>1. PICK rs \in SUBSET {r \in refs : r.kind = "timer"} :
            refs' = (IF TimeOutKick THEN refs \ rs ELSE refs)
                      \cup {[r EXCEPT !.kind = "due"] : r \in rs}
      BY <1>27 DEF Collect
    <3>2. \A q \in Ref : [q EXCEPT !.kind = "due"].kind = "due"
      OBVIOUS
    <3>3. rs \subseteq Ref
      BY <3>1
    <3>4. ASSUME NEW r \in refs', r.kind = "msg" PROVE r \in refs
      BY <3>1, <3>2, <3>3, <3>4
    <3>5. QED
      BY <3>4
  <2>2. UNCHANGED <<now, batchAt, rTime, batch, pcE, pcT, hold, inRecyTime,
                    rConn, pcR>>
    BY <1>27 DEF Collect
  <2>3. QED
    BY <2>1, <2>2
<1>28. QED
    BY <1>1, <1>2, <1>3, <1>4, <1>5, <1>6, <1>7, <1>8, <1>9, <1>10, <1>11,
     <1>12, <1>13, <1>14, <1>15, <1>16, <1>17, <1>18, <1>19, <1>20, <1>21,
     <1>22, <1>23, <1>24, <1>25, <1>26, <1>27 DEF Next, EAccept, ERead, TStep,
     RStep

(* What a thread uses is kept for it.  The two interesting cases are RErase, *)
(* where the delay is compared with the age of every use, and Take, where  *)
(* a message read from an object already parked passes the sequence check. *)
LEMMA UseStep == Inv /\ DelayOutlastsUse /\ [Next]_vars => UseInv'
<1> SUFFICES ASSUME Inv, DelayOutlastsUse, [Next]_vars PROVE UseInv'
  OBVIOUS
<1> USE PoolAssumption DEF PoolAssumption, Inv, TypeOK, ControlInv,
         OnePlace, UseInv, TimeInv, RefInv, Kept, Referable,
         SequenceMatches, Event, Held, Ref, eVars, tVars, rVars
<1>1. CASE Accept
  BY <1>1 DEF Accept
<1>2. CASE GetConnection
  BY <1>2 DEF GetConnection, GetOneToUse
<1>3. CASE EpollAdd
  BY <1>3 DEF EpollAdd
<1>4. CASE CloseConnectionFree
  BY <1>4 DEF CloseConnectionFree, FreeConnection
<1>5. CASE CloseConnectionFd
  BY <1>5 DEF CloseConnectionFd
<1>6. CASE AddToTimerQueue
  BY <1>6 DEF AddToTimerQueue
<1>7. CASE CountUser
  BY <1>7 DEF CountUser
<1>8. CASE EpollWait
  BY <1>8 DEF EpollWait
<1>9. CASE ReadPartial
  BY <1>9 DEF ReadPartial
<1>10. CASE ReadComplete
  BY <1>10 DEF ReadComplete
<1>11. CASE Capture
  BY <1>11 DEF Capture
<1>12. CASE FloodKick
  BY <1>12 DEF FloodKick
<1>13. CASE ReadClosed
  BY <1>13 DEF ReadClosed
<1>14. CASE EShut
  BY <1>14 DEF EShut, ShutSocket
<1>15. CASE ERecy
  BY <1>15 DEF ERecy, InRecyConnectQueue
<1>16. ASSUME NEW t \in Threads, Take(t) PROVE UseInv'
  <2>1. PICK r \in refs :
          /\ r.kind = IF t = Timer THEN "due" ELSE "msg"
          /\ refs' = refs \ {r}
          /\ IF SequenceMatches(r)
             THEN /\ pcT' = [pcT EXCEPT ![t] = "use"]
                  /\ hold' = [hold EXCEPT ![t] =
                       [conn |-> r.conn, client |-> r.client, since |-> now]]
             ELSE UNCHANGED tVars
    BY <1>16 DEF Take
  <2>2. CASE ~SequenceMatches(r)
    BY <1>16, <2>1, <2>2 DEF Take
  <2>3. CASE SequenceMatches(r)
    <3>1. r.conn \in Conns /\ r.at \in Nat /\ owner[r.conn] = r.client
          /\ Referable(r.conn)
      BY <2>3
    <3>2. r.conn # rConn
      <4>1. SUFFICES ASSUME r.conn = rConn PROVE FALSE
        OBVIOUS
      <4>2. r.kind = "msg" /\ inRecyTime[rConn] + MaxHold >= r.at
        BY <2>3, <4>1
      <4>3. inRecyTime[rConn] + RecyWait <= rTime /\ rTime <= now
        BY <3>1, <4>1
      <4>4. now <= r.at + MaxQueue
        BY <4>2
      <4>5. QED
        BY <3>1, <4>1, <4>2, <4>3, <4>4 DEF DelayOutlastsUse
    <3>3. r.conn \in recy => inRecyTime[r.conn] >= now - MaxHold - MaxQueue
      BY <2>3, <3>1
    <3>4. hold'[t] = [conn |-> r.conn, client |-> r.client, since |-> now]
          /\ \A u \in Threads : u # t => hold'[u] = hold[u] /\ pcT'[u] = pcT[u]
      BY <2>1, <2>3
    <3>5. QED
      BY <1>16, <3>1, <3>2, <3>3, <3>4 DEF Take
  <2>4. QED
    BY <2>2, <2>3
<1>17. ASSUME NEW t \in Threads, Finish(t) PROVE UseInv'
  BY <1>17 DEF Finish
<1>18. ASSUME NEW t \in Threads, TShut(t) PROVE UseInv'
  BY <1>18 DEF TShut, ShutSocket
<1>19. ASSUME NEW t \in Threads, TRecy(t) PROVE UseInv'
  BY <1>19 DEF TRecy, InRecyConnectQueue
<1>20. CASE RWake
  BY <1>20 DEF RWake
<1>21. CASE RLock
  BY <1>21 DEF RLock
<1>22. CASE RErase
  <2>1. PICK c \in recy : Due(c) /\ recy' = recy \ {c} /\ rConn' = c
    BY <1>22 DEF RErase
  <2>2. inRecyTime[c] \in Nat /\ inRecyTime[c] + RecyWait <= now
    BY <2>1 DEF Due
  <2>3. \A e \in batch : e.conn # c
    BY <2>1, <2>2 DEF DelayOutlastsUse
  <2>4. pcE = "count" => newc # c
    BY <2>1, <2>2 DEF DelayOutlastsUse
  <2>5. ASSUME NEW t \in Threads, pcT[t] # "idle" PROVE hold[t].conn # c
    <3>1. hold[t].since \in Nat /\ now <= hold[t].since + MaxHold
      BY <2>5
    <3>2. QED
      BY <2>1, <2>2, <2>5, <3>1 DEF DelayOutlastsUse
  <2>6. QED
    BY <1>22, <2>1, <2>3, <2>4, <2>5 DEF RErase
<1>23. CASE RPut
  BY <1>23 DEF RPut, FreeConnection
<1>24. CASE RUnlock
  BY <1>24 DEF RUnlock, Due
<1>25. CASE Tick
  BY <1>25 DEF Tick
<1>26. CASE UNCHANGED vars
  BY <1>26 DEF vars
<1>27. CASE Collect
  BY <1>27 DEF Collect
<1>28. QED
    BY <1>1, <1>2, <1>3, <1>4, <1>5, <1>6, <1>7, <1>8, <1>9, <1>10, <1>11,
     <1>12, <1>13, <1>14, <1>15, <1>16, <1>17, <1>18, <1>19, <1>20, <1>21,
     <1>22, <1>23, <1>24, <1>25, <1>26, <1>27 DEF Next, EAccept, ERead, TStep,
     RStep

(* A matching sequence number identifies the client: every change of hands *)
(* adds to it, so older headers cannot match again.                        *)
LEMMA RefStep == Inv /\ [Next]_vars => RefInv'
<1> SUFFICES ASSUME Inv, [Next]_vars PROVE RefInv'
  OBVIOUS
<1> USE PoolAssumption DEF PoolAssumption, Inv, TypeOK, ControlInv,
         OnePlace, UseInv, TimeInv, RefInv, Kept, Referable,
         SequenceMatches, Event, Held, Ref, eVars, tVars, rVars
<1>1. CASE Accept
  BY <1>1 DEF Accept
<1>2. CASE GetConnection
  BY <1>2 DEF GetConnection, GetOneToUse
<1>3. CASE EpollAdd
  BY <1>3 DEF EpollAdd
<1>4. CASE CloseConnectionFree
  BY <1>4 DEF CloseConnectionFree, FreeConnection
<1>5. CASE CloseConnectionFd
  BY <1>5 DEF CloseConnectionFd
<1>6. CASE AddToTimerQueue
  BY <1>6 DEF AddToTimerQueue
<1>7. CASE CountUser
  BY <1>7 DEF CountUser
<1>8. CASE EpollWait
  BY <1>8 DEF EpollWait
<1>9. CASE ReadPartial
  BY <1>9 DEF ReadPartial
<1>10. CASE ReadComplete
  BY <1>10 DEF ReadComplete
<1>11. CASE Capture
  BY <1>11 DEF Capture
<1>12. CASE FloodKick
  BY <1>12 DEF FloodKick
<1>13. CASE ReadClosed
  BY <1>13 DEF ReadClosed
<1>14. CASE EShut
  BY <1>14 DEF EShut, ShutSocket
<1>15. CASE ERecy
  BY <1>15 DEF ERecy, InRecyConnectQueue
<1>16. ASSUME NEW t \in Threads, Take(t) PROVE RefInv'
  BY <1>16 DEF Take, SequenceMatches
<1>17. ASSUME NEW t \in Threads, Finish(t) PROVE RefInv'
  BY <1>17 DEF Finish
<1>18. ASSUME NEW t \in Threads, TShut(t) PROVE RefInv'
  BY <1>18 DEF TShut, ShutSocket
<1>19. ASSUME NEW t \in Threads, TRecy(t) PROVE RefInv'
  BY <1>19 DEF TRecy, InRecyConnectQueue
<1>20. CASE RWake
  BY <1>20 DEF RWake
<1>21. CASE RLock
  BY <1>21 DEF RLock
<1>22. CASE RErase
  BY <1>22 DEF RErase, Due
<1>23. CASE RPut
  BY <1>23 DEF RPut, FreeConnection
<1>24. CASE RUnlock
  BY <1>24 DEF RUnlock, Due
<1>25. CASE Tick
  BY <1>25 DEF Tick
<1>26. CASE UNCHANGED vars
  BY <1>26 DEF vars
<1>27. CASE Collect
  BY <1>27 DEF Collect
<1>28. QED
    BY <1>1, <1>2, <1>3, <1>4, <1>5, <1>6, <1>7, <1>8, <1>9, <1>10, <1>11,
     <1>12, <1>13, <1>14, <1>15, <1>16, <1>17, <1>18, <1>19, <1>20, <1>21,
     <1>22, <1>23, <1>24, <1>25, <1>26, <1>27 DEF Next, EAccept, ERead, TStep,
     RStep

-----------------------------------------------------------------------------
(* A step keeps the whole invariant.                                      *)
LEMMA InvStep == Inv /\ DelayOutlastsUse /\ [Next]_vars => Inv'
<1>1. SUFFICES ASSUME Inv, DelayOutlastsUse, [Next]_vars PROVE Inv'
  OBVIOUS
<1>2. QED
  BY <1>1, TypeStep, ControlStep, OnePlaceStep, NoLeakStep, TimeStep, UseStep,
     RefStep DEF Inv

(* In every reachable state, if the delay outlasts the uses, the whole     *)
(* invariant holds.                                                        *)
THEOREM PoolInvariant == DelayOutlastsUse /\ Spec => []Inv
<1>1. DelayOutlastsUse /\ [Next]_vars => DelayOutlastsUse'
  BY DEF DelayOutlastsUse
<1>2. QED
  BY <1>1, InitInv, InvStep, PTL DEF Spec

(* Types; what is freed or parked was created by the pool.                 *)
THEOREM TypeCorrect == DelayOutlastsUse /\ Spec => []TypeOK
<1>1. Inv => TypeOK
  BY DEF Inv
<1>2. QED
  BY <1>1, PoolInvariant, PTL

(* ngx_free_connection, ngx_get_connection and inRecyConnectQueue keep an  *)
(* object on one list at a time, with its socket closed, and lose none.    *)
THEOREM ObjectInOnePlace == DelayOutlastsUse /\ Spec => []InExactlyOnePlace
<1>1. Inv => InExactlyOnePlace
  BY DEF Inv, InExactlyOnePlace
<1>2. QED
  BY <1>1, PoolInvariant, PTL

(* The sequence numbers and the delayed release together keep every thread *)
(* from using an object on behalf of a client it no longer belongs to.     *)
THEOREM CrosstalkPrevented == DelayOutlastsUse /\ Spec => []NoCrosstalk
<1>1. Inv => NoCrosstalk
  BY DEF Inv, NoCrosstalk, UseInv, RefInv, Kept, Referable
<1>2. QED
  BY <1>1, PoolInvariant, PTL

-----------------------------------------------------------------------------
(* Cardinalities of the lists.                                             *)
LEMMA Finite == TypeOK => IsFiniteSet(created) /\ IsFiniteSet(recy)
                          /\ IsFiniteSet(InUse) /\ IsFiniteSet(free)
BY PoolAssumption, FS_Subset DEF PoolAssumption, TypeOK, InUse

(* The size of a finite set is a number,                                   *)
LEMMA CardNat == ASSUME NEW S, IsFiniteSet(S) PROVE Cardinality(S) \in Nat
BY FS_CardinalityType

(* one more with a new element,                                            *)
LEMMA CardAdd ==
  ASSUME NEW S, IsFiniteSet(S), NEW x, x \notin S
  PROVE  Cardinality(S \cup {x}) = Cardinality(S) + 1
BY FS_AddElement

(* and one less without one of its elements.                               *)
LEMMA CardRemove ==
  ASSUME NEW S, IsFiniteSet(S), NEW x \in S
  PROVE  Cardinality(S \ {x}) = Cardinality(S) - 1
BY FS_RemoveElement

(* At first nobody is connected and the pool has its initial size.         *)
LEMMA InitCount == Init => CountInv
<1> SUFFICES ASSUME Init PROVE CountInv
  OBVIOUS
<1>1. InUse = {} /\ recy = {}
  BY DEF Init, InUse, Accepting
<1>2. Cardinality({}) = 0
  BY FS_EmptySet
<1>3. MaxOnline <= MaxOnline * PoolFactor
  BY PoolAssumption DEF PoolAssumption
<1>4. QED
  BY <1>1, <1>2, <1>3, PoolAssumption DEF CountInv, OnlineIsInUse, PoolBounded,
     AdmitInv, Init, PoolAssumption

(* Steps that leave the lists alone.                                       *)
LEMMA CountsUntouched ==
  ASSUME CountInv,
         UNCHANGED <<created, free, recy, totalRecy, online, newc, rConn>>,
         \/ pcE' = pcE
         \/ {pcE, pcE'} \subseteq {"timer", "count"}
         \/ {pcE, pcE'} \subseteq {"wait", "capture", "shut", "recy"}
  PROVE  CountInv'
<1>1. InUse' = InUse
  BY DEF InUse, Accepting
<1>2. QED
  BY <1>1 DEF CountInv, OnlineIsInUse, PoolBounded, AdmitInv

(* inRecyConnectQueue() of a connection some thread uses takes it out of   *)
(* use and counts it once, or finds it parked already.                     *)
LEMMA ParkCounts ==
  ASSUME Inv, CountInv, NEW c \in created \ (free \cup Listeners), c # rConn,
         c = newc => pcE = "count",
         InRecyConnectQueue(c), UNCHANGED <<created, free, newc, rConn>>,
         pcE' = pcE \/ (pcE = "recy" /\ pcE' = "wait")
  PROVE  CountInv'
<1> USE PoolAssumption DEF PoolAssumption
<1>0. TypeOK /\ IsFiniteSet(recy) /\ IsFiniteSet(InUse)
  BY Finite DEF Inv
<1>1. CASE c \in recy
  <2>1. InUse' = InUse /\ recy' = recy /\ online' = online /\ totalRecy' = totalRecy
    BY <1>1, <1>0 DEF InUse, Accepting, InRecyConnectQueue, Inv, ControlInv
  <2>2. QED
    BY <2>1 DEF CountInv, OnlineIsInUse, PoolBounded, AdmitInv
<1>2. CASE c \notin recy
  <2>1. c \in InUse
    BY <1>2 DEF InUse, Accepting
  <2>2. InUse' = InUse \ {c} /\ recy' = recy \cup {c}
    BY <1>2, <1>0 DEF InUse, Accepting, InRecyConnectQueue, Inv, ControlInv
  <2>3. online' = online - 1 /\ totalRecy' = totalRecy + 1
    BY <1>2 DEF InRecyConnectQueue
  <2>4. Cardinality(InUse') = Cardinality(InUse) - 1
        /\ Cardinality(recy') = Cardinality(recy) + 1
    BY <1>0, <1>2, <2>1, <2>2, CardAdd, CardRemove
  <2>5. Cardinality(InUse) \in Nat /\ Cardinality(recy) \in Nat /\ online \in Int
    BY <1>0, CardNat DEF TypeOK
  <2>6. QED
    BY <2>3, <2>4, <2>5 DEF CountInv, OnlineIsInUse, PoolBounded, AdmitInv
<1>3. QED
  BY <1>1, <1>2

(* The counters follow the lists.                                          *)
LEMMA CountStep == Inv /\ CountInv /\ [Next]_vars => CountInv'
<1> SUFFICES ASSUME Inv, CountInv, [Next]_vars PROVE CountInv'
  OBVIOUS
<1> USE PoolAssumption DEF PoolAssumption, Inv, TypeOK, ControlInv,
         OnePlace, CountInv, OnlineIsInUse, PoolBounded, AdmitInv, eVars,
         tVars, rVars
<1>1. CASE Accept
  <2>1. InUse' = InUse
    BY <1>1 DEF Accept, InUse, Accepting
  <2>2. ~Refused => free # {} \/ Cardinality(created) <= MaxOnline * PoolFactor
    <3>1. Cardinality(created) \in Nat /\ Cardinality({}) = 0
      BY Finite, CardNat, FS_EmptySet
    <3>2. MaxOnline * PoolFactor \in Nat
      OBVIOUS
    <3>3. SUFFICES ASSUME ~Refused, free = {}
                   PROVE  Cardinality(created) <= MaxOnline * PoolFactor
      OBVIOUS
    <3>4. Cardinality(free) < MaxOnline
      BY <3>1, <3>3
    <3>5. ~(Cardinality(created) > MaxOnline * PoolFactor)
      BY <3>3, <3>4 DEF Refused
    <3>6. QED
      BY <3>1, <3>2, <3>5
  <2>3. ~Refused => online < MaxOnline
    BY DEF Refused
  <2>4. QED
    BY <1>1, <2>1, <2>2, <2>3 DEF Accept
<1>2. CASE GetConnection
  <2>1. PICK c \in Conns : /\ c \in IF free # {} THEN free ELSE Conns \ created
                           /\ free' = free \ {c} /\ newc' = c
                           /\ created' = created \cup {c}
    BY <1>2 DEF GetConnection
  <2>2. InUse' = InUse
    BY <1>2, <2>1 DEF GetConnection, InUse, Accepting
  <2>3. Cardinality(created') <= MaxOnline * PoolFactor + 1
    <3>1. CASE free # {}
      <4>1. created' = created
        BY <2>1, <3>1
      <4>2. QED
        BY <4>1
    <3>2. CASE free = {}
      <4>1. Cardinality(created') = Cardinality(created) + 1
        BY <2>1, <3>2, Finite, CardAdd
      <4>2. Cardinality(created) <= MaxOnline * PoolFactor
        BY <1>2, <3>2 DEF GetConnection
      <4>3. Cardinality(created) \in Nat /\ MaxOnline * PoolFactor \in Nat
        BY Finite, CardNat
      <4>4. QED
        BY <4>1, <4>2, <4>3
    <3>3. QED
      BY <3>1, <3>2
  <2>4. QED
    BY <1>2, <2>1, <2>2, <2>3 DEF GetConnection
<1>3. CASE EpollAdd
  <2>1. CASE pcE' = "undo"
    <3>1. InUse' = InUse
      BY <1>3, <2>1 DEF EpollAdd, InUse, Accepting
    <3>2. QED
      BY <1>3, <2>1, <3>1 DEF EpollAdd
  <2>2. CASE pcE' = "timer"
    <3>1. InUse' = InUse \cup {newc} /\ newc \notin InUse
      BY <1>3, <2>2 DEF EpollAdd, InUse, Accepting
    <3>2. Cardinality(InUse') = Cardinality(InUse) + 1
      BY <3>1, Finite, CardAdd
    <3>3. Cardinality(InUse) \in Nat
      BY Finite, CardNat
    <3>4. QED
      BY <1>3, <2>2, <3>2, <3>3 DEF EpollAdd
  <2>3. QED
    BY <1>3, <2>1, <2>2 DEF EpollAdd
<1>4. CASE CloseConnectionFree
  <2>1. InUse' = InUse
    BY <1>4 DEF CloseConnectionFree, FreeConnection, InUse, Accepting
  <2>2. QED
    BY <1>4, <2>1 DEF CloseConnectionFree, FreeConnection
<1>5. CASE CloseConnectionFd
  <2>1. InUse' = InUse
    BY <1>5 DEF CloseConnectionFd, InUse, Accepting
  <2>2. QED
    BY <1>5, <2>1 DEF CloseConnectionFd
<1>6. CASE AddToTimerQueue
  BY <1>6, CountsUntouched DEF AddToTimerQueue
<1>7. CASE CountUser
  <2>1. InUse' = InUse
    BY <1>7 DEF CountUser, InUse, Accepting
  <2>2. QED
    BY <1>7, <2>1 DEF CountUser
<1>8. CASE EpollWait
  BY <1>8, CountsUntouched DEF EpollWait
<1>9. CASE ReadPartial
  BY <1>9, CountsUntouched DEF ReadPartial
<1>10. CASE ReadComplete
  BY <1>10, CountsUntouched DEF ReadComplete
<1>11. CASE Capture
  BY <1>11, CountsUntouched DEF Capture
<1>12. CASE FloodKick
  BY <1>12, CountsUntouched DEF FloodKick
<1>13. CASE ReadClosed
  BY <1>13, CountsUntouched DEF ReadClosed
<1>14. CASE EShut
  BY <1>14, CountsUntouched DEF EShut, ShutSocket
<1>15. CASE ERecy
  <2>1. cur.conn \in created \ (free \cup Listeners) /\ cur.conn # rConn
    BY <1>15 DEF ERecy, UseInv, Kept, Referable, Event
  <2>2. cur.conn # newc
    BY <1>15, <2>1 DEF ERecy
  <2>3. QED
    BY <1>15, <2>1, <2>2, ParkCounts DEF ERecy
<1>16. ASSUME NEW t \in Threads, Take(t) PROVE CountInv'
  BY <1>16, CountsUntouched DEF Take, SequenceMatches
<1>17. ASSUME NEW t \in Threads, Finish(t) PROVE CountInv'
  BY <1>17, CountsUntouched DEF Finish
<1>18. ASSUME NEW t \in Threads, TShut(t) PROVE CountInv'
  BY <1>18, CountsUntouched DEF TShut, ShutSocket
<1>19. ASSUME NEW t \in Threads, TRecy(t) PROVE CountInv'
  <2>1. /\ hold[t].conn \in created \ (free \cup Listeners)
        /\ hold[t].conn # rConn
        /\ hold[t].conn = newc => pcE = "count"
    BY <1>19 DEF TRecy, UseInv, Kept, Referable
  <2>2. QED
    BY <1>19, <2>1, ParkCounts DEF TRecy
<1>20. CASE RWake
  BY <1>20, CountsUntouched DEF RWake
<1>21. CASE RLock
  BY <1>21, CountsUntouched DEF RLock
<1>22. CASE RErase
  <2>1. PICK c \in recy : recy' = recy \ {c} /\ rConn' = c
    BY <1>22 DEF RErase
  <2>2. InUse' = InUse
    BY <1>22, <2>1 DEF RErase, InUse, Accepting
  <2>3. Cardinality(recy') = Cardinality(recy) - 1
    BY <2>1, Finite, CardRemove
  <2>4. QED
    BY <1>22, <2>1, <2>2, <2>3 DEF RErase
<1>23. CASE RPut
  <2>1. InUse' = InUse
    BY <1>23 DEF RPut, FreeConnection, InUse, Accepting
  <2>2. QED
    BY <1>23, <2>1 DEF RPut, FreeConnection
<1>24. CASE RUnlock
  BY <1>24, CountsUntouched DEF RUnlock, Due
<1>25. CASE Tick
  BY <1>25, CountsUntouched DEF Tick
<1>26. CASE UNCHANGED vars
  BY <1>26, CountsUntouched DEF vars
<1>27. CASE Collect
  BY <1>27, CountsUntouched DEF Collect
<1>28. QED
    BY <1>1, <1>2, <1>3, <1>4, <1>5, <1>6, <1>7, <1>8, <1>9, <1>10, <1>11,
     <1>12, <1>13, <1>14, <1>15, <1>16, <1>17, <1>18, <1>19, <1>20, <1>21,
     <1>22, <1>23, <1>24, <1>25, <1>26, <1>27 DEF Next, EAccept, ERead, TStep,
     RStep

(* m_onlineUserCount, the sizes of the lists and the tests of accept.      *)
THEOREM CountInvariant == DelayOutlastsUse /\ Spec => []CountInv
<1>1. Inv /\ CountInv /\ [Next]_vars => CountInv'
  BY CountStep
<1>2. QED
  BY <1>1, InitCount, PoolInvariant, PTL DEF Spec

(* m_onlineUserCount is exact and at most m_worker_connections.            *)
THEOREM CountersExact == DelayOutlastsUse /\ Spec => []OnlineIsInUse
<1>1. CountInv => OnlineIsInUse
  BY DEF CountInv
<1>2. QED
  BY <1>1, CountInvariant, PTL

(* The pool never holds more than PoolFactor * m_worker_connections + 1    *)
(* objects.                                                                *)
THEOREM PoolStaysBounded == DelayOutlastsUse /\ Spec => []PoolBounded
<1>1. CountInv => PoolBounded
  BY DEF CountInv
<1>2. QED
  BY <1>1, CountInvariant, PTL

=============================================================================
