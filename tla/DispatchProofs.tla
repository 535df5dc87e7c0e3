--------------------------- MODULE DispatchProofs ---------------------------
(***************************************************************************)
(* Theorems about Dispatch, for any number of workers, clients and         *)
(* messages, and any limits.  Inv is inductive: each of its parts has a    *)
(* lemma that says a step preserves it, one case per action.               *)
(***************************************************************************)
EXTENDS Dispatch, NatInduction, FiniteSetTheorems, SequenceTheorems, TLAPS

(* Where each thread can be, and what it closes.                           *)
PlaceInv ==
  /\ \A w \in Workers :
       pc[w] \in {"idle", "check", "logic", "send", "queue", "close", "park", "closed", "unlock"}
  /\ pc[E] \in {"idle", "close", "park"} /\ pc[T] \in {"look", "close", "park"}
  /\ pc[R] \in {"scan", "free"} /\ pc[S] \in {"wait", "lock"}

(* Who has a mutex is where it holds it; two are never kept.               *)
LockInv ==
  /\ \A c \in Conns : holder[c] # Nobody =>
       /\ holder[c] \in Workers /\ Conn(holder[c]) = c
       /\ pc[holder[c]] \in {"send", "queue", "close", "park", "closed", "unlock"}
  /\ holder["send"] # Nobody =>
       holder["send"] \in Workers /\ pc[holder["send"]] \in {"queue", "close", "park", "closed"}
  /\ holder["recy"] # Nobody => holder["recy"] = R /\ pc[R] = "free"
  /\ holder["time"] = Nobody /\ holder["conn"] = Nobody

(* Every message taken is done or at one worker.                           *)
WorkInv ==
  /\ \A w \in Workers : (job[w] = 0 <=> pc[w] = "idle") /\ job[w] \notin done
  /\ \A v, w \in Workers : job[v] = job[w] /\ job[v] # 0 => v = w
  /\ \A m \in 1..taken : m \in done \/ \E w \in Workers : job[w] = m

(* msgSend() has disposed of a reply exactly when its handler is past it.  *)
After == {"close", "park", "closed", "unlock"}
ReplyInv ==
  /\ AnsweredOnce
  /\ \A m \in replied \cup dropped : m \in done \/ \E w \in Workers : job[w] = m /\ pc[w] \in After
  /\ \A w \in Workers : pc[w] \in After => job[w] \in replied \cup dropped

(* iSendCount of a client is the number of its packages on the queue.      *)
Queued(c) == {i \in 1..Len(sendq) : ConnOf(sendq[i]) = c}
BacklogInv == \A c \in Conns : state[c] = "live" => backlog[c] = Cardinality(Queued(c))

Inv == TypeOK /\ PlaceInv /\ LockInv /\ WorkInv /\ ReplyInv /\ BacklogInv

-----------------------------------------------------------------------------
(* E, S, T and R are four threads.                                         *)
LEMMA Three == ASSUME NEW a, NEW b, NEW c PROVE Cardinality({a, b, c}) # 4
<1>1. IsFiniteSet({a}) /\ Cardinality({a}) = 1
  BY FS_Singleton
<1>2. IsFiniteSet({a} \cup {b}) /\ Cardinality({a} \cup {b}) \in {1, 2}
  BY <1>1, FS_AddElement
<1>3. Cardinality({a} \cup {b} \cup {c}) \in {1, 2, 3}
  BY <1>2, FS_AddElement
<1>4. {a, b, c} = {a} \cup {b} \cup {c}
  OBVIOUS
<1>5. QED
  BY <1>3, <1>4

(* The threads, the mutexes and what they stand for are told apart.        *)
LEMMA Distinct ==
  /\ E # S /\ E # T /\ E # R /\ S # T /\ S # R /\ T # R
  /\ Workers \cap {E, S, T, R} = {} /\ Nobody \notin Threads
  /\ NoConn \notin Conns /\ Conns \cap Shared = {}
  /\ MaxMsgs \in Nat /\ Leavers \subseteq Conns
<1>1. E = S => {E, S, T, R} = {E, T, R}
  OBVIOUS
<1>2. E = T => {E, S, T, R} = {E, S, R}
  OBVIOUS
<1>3. E = R => {E, S, T, R} = {E, S, T}
  OBVIOUS
<1>4. S = T => {E, S, T, R} = {E, T, R}
  OBVIOUS
<1>5. S = R => {E, S, T, R} = {E, T, R}
  OBVIOUS
<1>6. T = R => {E, S, T, R} = {E, S, R}
  OBVIOUS
<1>7. QED
  BY <1>1, <1>2, <1>3, <1>4, <1>5, <1>6, Three, DispatchAssumption DEF DispatchAssumption

WorkTypes ==
  /\ msgs \in Seq(Kinds) /\ Len(msgs) <= MaxMsgs
  /\ taken \in 0..Len(msgs) /\ done \in SUBSET (1..taken)
  /\ job \in [Workers -> 0..taken]
PlaceTypes ==
  /\ holder \in [Mutexes -> Threads \cup {Nobody}]
  /\ pc \in [Threads -> Locals] /\ tgt \in [Threads -> Conns \cup {NoConn}]
  /\ state \in [Conns -> {"live", "parked", "pooled"}]
SendTypes ==
  /\ backlog \in [Conns -> Nat] /\ sem \in Nat
  /\ sendq \in Seq(1..taken)
  /\ replied \in SUBSET (1..taken) /\ dropped \in SUBSET (1..taken)

(* A worker lays its message down; the set of dropped ones grows by it.    *)
LEMMA FreeTypes ==
  ASSUME NEW n \in Nat, NEW j \in [Workers -> 0..n], NEW w \in Workers, j[w] # 0,
         NEW d \in SUBSET (1..n)
  PROVE  [j EXCEPT ![w] = 0] \in [Workers -> 0..n] /\ d \cup {j[w]} \in SUBSET (1..n)
<1>1. j[w] \in 1..n
  OBVIOUS
<1>2. d \cup {j[w]} \in SUBSET (1..n)
  BY <1>1, Zenon
<1>3. 0 \in 0..n
  OBVIOUS
<1>4. [j EXCEPT ![w] = 0] \in [Workers -> 0..n]
  BY <1>3, Zenon
<1>5. QED
  BY <1>2, <1>4

(* TypeOK in three parts, each with a lemma of its own.                    *)
LEMMA TypeParts == TypeOK <=> WorkTypes /\ PlaceTypes /\ SendTypes
BY Zenon DEF TypeOK, WorkTypes, PlaceTypes, SendTypes

(* Which steps hand over, take or finish a message.                        *)
LEMMA PoolSteps ==
  [Next]_vars => \/ \E k \in Kinds : Post(k)
                 \/ \E w \in Workers : Take(w) \/ Check(w) \/ Return(w)
                 \/ UNCHANGED poolVars
<1>1. ASSUME NEW w \in Workers,
             LockLogic(w) \/ LockSend(w) \/ ReplyDropped(w) \/ ReplyCutsOff(w)
      PROVE  UNCHANGED poolVars
  BY <1>1, Zenon DEF LockLogic, LockSend, ReplyDropped, ReplyCutsOff
<1>2. ASSUME NEW w \in Workers, ReplyQueued(w) \/ ReplyReturns(w) PROVE UNCHANGED poolVars
  BY <1>2, Zenon DEF ReplyQueued, ReplyReturns
<1>3. ASSUME NEW t, CloseStep(t) PROVE UNCHANGED poolVars
  BY <1>3, Zenon DEF CloseStep, DeleteFromTimerQueue, InRecyConnectQueue
<1>4. ASSUME NEW c \in Conns, EClose(c) PROVE UNCHANGED poolVars
  BY <1>4, Zenon DEF EClose
<1>5. ASSUME TCheck \/ RLock PROVE UNCHANGED poolVars
  BY <1>5, Zenon DEF TCheck, TCheckWith, RLock
<1>6. ASSUME RFree \/ SWake \/ SScan PROVE UNCHANGED poolVars
  BY <1>6, Zenon DEF RFree, SWake, SScan
<1>7. ASSUME UNCHANGED vars PROVE UNCHANGED poolVars
  BY <1>7 DEF vars
<1>8. QED
  BY <1>1, <1>2, <1>3, <1>4, <1>5, <1>6, <1>7, Zenon DEF Next, WStep

(* A message that was taken stays what it was, and belongs to a client.    *)
LEMMA MsgsStay == TypeOK /\ [Next]_vars => \A m \in 1..taken : msgs'[m] = msgs[m]
<1> SUFFICES ASSUME TypeOK, [Next]_vars PROVE \A m \in 1..taken : msgs'[m] = msgs[m]
  OBVIOUS
<1>1. ASSUME NEW k \in Kinds, Post(k) PROVE \A m \in 1..taken : msgs'[m] = msgs[m]
  BY <1>1 DEF TypeOK, Post
<1>2. ASSUME NEW w \in Workers, Take(w) \/ Check(w) \/ Return(w) PROVE msgs' = msgs
  BY <1>2, Zenon DEF Take, Check, Return, poolVars
<1>3. QED
  BY <1>1, <1>2, PoolSteps DEF poolVars

(* Every message taken in has a kind and a connection.                     *)
LEMMA MsgsTyped ==
  TypeOK => \A m \in 1..taken : msgs[m] \in Kinds /\ ConnOf(m) \in Conns
BY DispatchAssumption, ElementOfSeq, SMTT(40) DEF DispatchAssumption, TypeOK, ConnOf

(* A step keeps to the types.                                              *)
LEMMA WorkTypesStep == Inv /\ [Next]_vars => WorkTypes'
<1> SUFFICES ASSUME Inv, [Next]_vars PROVE WorkTypes'
  OBVIOUS
<1> USE Distinct DEF poolVars, Inv, TypeOK, WorkInv, WorkTypes
<1>1. ASSUME NEW k \in Kinds, Post(k) PROVE WorkTypes'
  <2>1. /\ msgs' \in Seq(Kinds) /\ Len(msgs') = Len(msgs) + 1 /\ Len(msgs') <= MaxMsgs
        /\ taken' = taken /\ done' = done /\ job' = job
    BY <1>1 DEF Post
  <2>2. QED
    BY <2>1
<1>2. ASSUME NEW w \in Workers, Take(w) PROVE WorkTypes'
  <2>1. /\ msgs' = msgs /\ taken' = taken + 1 /\ taken < Len(msgs)
        /\ done' = done /\ job' = [job EXCEPT ![w] = taken + 1]
    BY <1>2 DEF Take, Step, Goto
  <2>2. job' \in [Workers -> 0..taken']
    BY <2>1
  <2>3. done' \in SUBSET (1..taken') /\ taken' \in 0..Len(msgs')
    BY <2>1
  <2>4. QED
    BY <2>1, <2>2, <2>3
<1>3. ASSUME NEW w \in Workers, Check(w) PROVE WorkTypes'
  <2>1. CASE UNCHANGED poolVars
    BY <2>1
  <2>2. CASE pc[w] = "check" /\ Free(w) /\ UNCHANGED <<msgs, taken>>
    <3>1. /\ job[w] \in 1..taken
          /\ done' = done \cup {job[w]} /\ job' = [job EXCEPT ![w] = 0]
      BY <2>2 DEF Free
    <3>2. job' \in [Workers -> 0..taken] /\ done' \in SUBSET (1..taken)
      <4>1. /\ taken \in Nat /\ job[w] # 0 /\ job \in [Workers -> 0..taken]
            /\ done \in SUBSET (1..taken)
        BY <3>1
      <4>2. QED
        BY <4>1, <3>1, FreeTypes, Zenon
    <3>3. QED
      BY <2>2, <3>2
  <2>3. QED
    BY <1>3, <2>1, <2>2 DEF Check, Step
<1>4. ASSUME NEW w \in Workers, LockLogic(w) PROVE WorkTypes'
  BY <1>4 DEF LockLogic, Step, Goto, Lock
<1>5. ASSUME NEW w \in Workers, LockSend(w) PROVE WorkTypes'
  BY <1>5 DEF LockSend, Step, Goto, Lock
<1>6. ASSUME NEW w \in Workers, ReplyDropped(w) PROVE WorkTypes'
  BY <1>6 DEF ReplyDropped, Step, Goto, Unlock
<1>7. ASSUME NEW w \in Workers, ReplyCutsOff(w) PROVE WorkTypes'
  BY <1>7 DEF ReplyCutsOff, Step, Goto
<1>8. ASSUME NEW w \in Workers, ReplyQueued(w) PROVE WorkTypes'
  BY <1>8 DEF ReplyQueued, Step, Goto, Unlock
<1>9. ASSUME NEW w \in Workers, ReplyReturns(w) PROVE WorkTypes'
  BY <1>9 DEF ReplyReturns, Step, Goto, Unlock
<1>10. ASSUME NEW w \in Workers, Return(w) PROVE WorkTypes'
  <2>1. /\ msgs' = msgs /\ taken' = taken /\ job[w] \in 1..taken
        /\ done' = done \cup {job[w]} /\ job' = [job EXCEPT ![w] = 0]
    BY <1>10 DEF Return, Step, Goto, Unlock, Free
  <2>2. job' \in [Workers -> 0..taken] /\ done' \in SUBSET (1..taken)
    <3>1. /\ taken \in Nat /\ job[w] # 0 /\ job \in [Workers -> 0..taken]
          /\ done \in SUBSET (1..taken)
      BY <2>1
    <3>2. QED
      BY <3>1, <2>1, FreeTypes, Zenon
  <2>3. QED
    BY <2>1, <2>2
<1>11. ASSUME NEW t \in Workers \cup {E, T}, DeleteFromTimerQueue(t) PROVE
   WorkTypes'
  BY <1>11 DEF DeleteFromTimerQueue, Step, Goto, Pass
<1>12. ASSUME NEW t \in Workers \cup {E, T}, InRecyConnectQueue(t) PROVE
   WorkTypes'
  BY <1>12 DEF InRecyConnectQueue, Step, Goto, Pass, Start
<1>13. ASSUME NEW c \in Conns, EClose(c) PROVE WorkTypes'
  BY <1>13 DEF EClose, Step, Goto
<1>14. CASE TCheck
  BY <1>14 DEF TCheck, TCheckWith, Step, Goto
<1>15. CASE RLock
  BY <1>15 DEF RLock, Step, Goto, Lock
<1>16. CASE RFree
  BY <1>16 DEF RFree, Goto, Unlock
<1>17. CASE SWake
  BY <1>17 DEF SWake, Step, Goto
<1>18. CASE SScan
  BY <1>18 DEF SScan, Step, Goto, Pass
<1>19. CASE UNCHANGED vars
  BY <1>19 DEF vars
<1>20. QED
  BY <1>1, <1>2, <1>3, <1>4, <1>5, <1>6, <1>7, <1>8, <1>9, <1>10, <1>11,
     <1>12, <1>13, <1>14, <1>15, <1>16, <1>17, <1>18, <1>19 DEF Next, WStep,
     CloseStep

(* The types of program counters, mutexes and connections.                 *)
LEMMA PlaceTypesStep == Inv /\ [Next]_vars => PlaceTypes'
<1> SUFFICES ASSUME Inv, [Next]_vars PROVE PlaceTypes'
  OBVIOUS
<1> USE Distinct DEF poolVars, sendVars, Inv, TypeOK, PlaceInv, WorkInv,
   Mutexes, Shared, Threads, Locals, PlaceTypes, Conn
<1>0. \A m \in 1..taken : ConnOf(m) \in Conns
  BY MsgsTyped
<1>1. ASSUME NEW k \in Kinds, Post(k) PROVE PlaceTypes'
  BY <1>1, <1>0 DEF Post
<1>2. ASSUME NEW w \in Workers, Take(w) PROVE PlaceTypes'
  BY <1>2, <1>0 DEF Take, Step, Goto
<1>3. ASSUME NEW w \in Workers, Check(w) PROVE PlaceTypes'
  <2>1. pc' = [pc EXCEPT ![w] = "logic"] \/ pc' = [pc EXCEPT ![w] = "idle"]
    BY <1>3, Zenon DEF Check, Step, Goto
  <2>2. UNCHANGED <<holder, tgt, state>>
    BY <1>3 DEF Check
  <2>3. QED
    BY <2>1, <2>2
<1>4. ASSUME NEW w \in Workers, LockLogic(w) PROVE PlaceTypes'
  BY <1>4, <1>0 DEF LockLogic, Step, Goto, Lock
<1>5. ASSUME NEW w \in Workers, LockSend(w) PROVE PlaceTypes'
  BY <1>5, <1>0 DEF LockSend, Step, Goto, Lock
<1>6. ASSUME NEW w \in Workers, ReplyDropped(w) PROVE PlaceTypes'
  BY <1>6, <1>0 DEF ReplyDropped, Step, Goto, Unlock
<1>7. ASSUME NEW w \in Workers, ReplyCutsOff(w) PROVE PlaceTypes'
  <2>1. job[w] \in 1..taken /\ Conn(w) \in Conns
    BY <1>7, <1>0 DEF ReplyCutsOff, Step, Goto
  <2>2. tgt' \in [Threads -> Conns \cup {NoConn}]
    BY <1>7, <2>1 DEF ReplyCutsOff
  <2>3. pc' \in [Threads -> Locals]
    BY <1>7 DEF ReplyCutsOff, Step, Goto
  <2>4. holder' = holder /\ state' = state
    BY <1>7 DEF ReplyCutsOff
  <2>5. QED
    BY <2>2, <2>3, <2>4
<1>8. ASSUME NEW w \in Workers, ReplyQueued(w) PROVE PlaceTypes'
  BY <1>8, <1>0 DEF ReplyQueued, Step, Goto, Unlock
<1>9. ASSUME NEW w \in Workers, ReplyReturns(w) PROVE PlaceTypes'
  BY <1>9, <1>0 DEF ReplyReturns, Step, Goto, Unlock
<1>10. ASSUME NEW w \in Workers, Return(w) PROVE PlaceTypes'
  BY <1>10, <1>0 DEF Return, Step, Goto, Unlock, Free
<1>11. ASSUME NEW t \in Workers \cup {E, T}, DeleteFromTimerQueue(t) PROVE
   PlaceTypes'
  BY <1>11, <1>0 DEF DeleteFromTimerQueue, Step, Goto, Pass
<1>12. ASSUME NEW t \in Workers \cup {E, T}, InRecyConnectQueue(t) PROVE
   PlaceTypes'
  BY <1>12, <1>0 DEF InRecyConnectQueue, Step, Goto, Pass, Start
<1>13. ASSUME NEW c \in Conns, EClose(c) PROVE PlaceTypes'
  BY <1>13, <1>0 DEF EClose, Step, Goto
<1>14. CASE TCheck
  BY <1>14, <1>0 DEF TCheck, TCheckWith, Step, Goto
<1>15. CASE RLock
  BY <1>15, <1>0 DEF RLock, Step, Goto, Lock
<1>16. CASE RFree
  <2>1. state' \in [Conns -> {"live", "parked", "pooled"}]
    BY <1>16 DEF RFree
  <2>2. tgt' \in [Threads -> Conns \cup {NoConn}]
    BY <1>16 DEF RFree
  <2>3. pc' \in [Threads -> Locals]
    BY <1>16 DEF RFree, Goto
  <2>4. holder' \in [Mutexes -> Threads \cup {Nobody}]
    BY <1>16 DEF RFree, Unlock
  <2>5. QED
    BY <2>1, <2>2, <2>3, <2>4
<1>17. CASE SWake
  BY <1>17, <1>0 DEF SWake, Step, Goto
<1>18. CASE SScan
  BY <1>18, <1>0 DEF SScan, Step, Goto, Pass
<1>19. CASE UNCHANGED vars
  BY <1>19, <1>0 DEF vars
<1>20. QED
  BY <1>1, <1>2, <1>3, <1>4, <1>5, <1>6, <1>7, <1>8, <1>9, <1>10, <1>11,
     <1>12, <1>13, <1>14, <1>15, <1>16, <1>17, <1>18, <1>19 DEF Next, WStep,
     CloseStep

(* The types of the send queue, where no backlog goes below 0.             *)
LEMMA SendTypesStep == Inv /\ [Next]_vars => SendTypes'
<1> SUFFICES ASSUME Inv, [Next]_vars PROVE SendTypes'
  OBVIOUS
<1> USE Distinct DEF poolVars, sendVars, Inv, TypeOK, SendTypes, WorkInv,
   PlaceInv
<1>0. \A m \in 1..taken : ConnOf(m) \in Conns
  BY MsgsTyped
<1>1. ASSUME NEW k \in Kinds, Post(k) PROVE SendTypes'
  BY <1>1, <1>0 DEF Post
<1>2. ASSUME NEW w \in Workers, Take(w) PROVE SendTypes'
  <2>1. taken' = taken + 1 /\ UNCHANGED sendVars
    BY <1>2 DEF Take
  <2>2. sendq \in Seq(1..taken')
    <3>1. 1..taken \subseteq 1..taken'
      BY <2>1
    <3>2. QED
      BY <3>1, SeqMonotonic
  <2>3. QED
    BY <2>1, <2>2
<1>3. ASSUME NEW w \in Workers, Check(w) PROVE SendTypes'
  BY <1>3, <1>0 DEF Check, Step, Goto, Free
<1>4. ASSUME NEW w \in Workers, LockLogic(w) PROVE SendTypes'
  BY <1>4, <1>0 DEF LockLogic, Step, Goto, Lock
<1>5. ASSUME NEW w \in Workers, LockSend(w) PROVE SendTypes'
  BY <1>5, <1>0 DEF LockSend, Step, Goto, Lock
<1>6. ASSUME NEW w \in Workers, ReplyDropped(w) PROVE SendTypes'
  <2>1. job[w] \in 1..taken
    BY <1>6 DEF ReplyDropped, Step
  <2>2. /\ dropped' = dropped \cup {job[w]} /\ taken' = taken
        /\ UNCHANGED <<backlog, sendq, sem, replied>>
    BY <1>6 DEF ReplyDropped
  <2>3. QED
    BY <2>1, <2>2
<1>7. ASSUME NEW w \in Workers, ReplyCutsOff(w) PROVE SendTypes'
  <2>1. job[w] \in 1..taken
    BY <1>7 DEF ReplyCutsOff, Step
  <2>2. /\ dropped' = dropped \cup {job[w]} /\ taken' = taken
        /\ UNCHANGED <<backlog, sendq, sem, replied>>
    BY <1>7 DEF ReplyCutsOff
  <2>3. QED
    BY <2>1, <2>2
<1>8. ASSUME NEW w \in Workers, ReplyQueued(w) PROVE SendTypes'
  <2>1. job[w] \in 1..taken
    BY <1>8 DEF ReplyQueued, Step
  <2>2. /\ sendq' = Append(sendq, job[w]) /\ replied' = replied \cup {job[w]}
        /\ taken' = taken /\ sem' = sem + 1 /\ dropped' = dropped
    BY <1>8 DEF ReplyQueued
  <2>3. backlog' \in [Conns -> Nat]
    <3>1. backlog' = [backlog EXCEPT ![Conn(w)] = backlog[Conn(w)] + 1] /\ ConnOf(job[w]) \in Conns
      BY <1>8, <1>0, <2>1 DEF ReplyQueued
    <3>2. QED
      BY <3>1 DEF Conn
  <2>4. sendq' \in Seq(1..taken)
    BY <2>1, <2>2
  <2>5. sendq' \in Seq(1..taken') /\ sem' \in Nat
    BY <2>2, <2>4
  <2>7. replied' \in SUBSET (1..taken') /\ dropped' \in SUBSET (1..taken')
    BY <2>1, <2>2
  <2>6. QED
    BY <2>3, <2>5, <2>7
<1>9. ASSUME NEW w \in Workers, ReplyReturns(w) PROVE SendTypes'
  BY <1>9, <1>0 DEF ReplyReturns, Step, Goto, Unlock
<1>10. ASSUME NEW w \in Workers, Return(w) PROVE SendTypes'
  BY <1>10, <1>0 DEF Return, Step, Goto, Unlock, Free
<1>11. ASSUME NEW t \in Workers \cup {E, T}, DeleteFromTimerQueue(t) PROVE
   SendTypes'
  BY <1>11, <1>0 DEF DeleteFromTimerQueue, Step, Goto, Pass
<1>12. ASSUME NEW t \in Workers \cup {E, T}, InRecyConnectQueue(t) PROVE
   SendTypes'
  BY <1>12, <1>0 DEF InRecyConnectQueue, Step, Goto, Pass, Start
<1>13. ASSUME NEW c \in Conns, EClose(c) PROVE SendTypes'
  BY <1>13, <1>0 DEF EClose, Step, Goto
<1>14. CASE TCheck
  BY <1>14, <1>0 DEF TCheck, TCheckWith, Step, Goto
<1>15. CASE RLock
  BY <1>15, <1>0 DEF RLock, Step, Goto, Lock
<1>16. CASE RFree
  BY <1>16, <1>0 DEF RFree, Goto, Unlock
<1>17. CASE SWake
  <2>1. sem' = sem - 1 /\ sem > 0
    BY <1>17 DEF SWake
  <2>2. taken' = taken /\ UNCHANGED <<backlog, sendq, replied, dropped>>
    BY <1>17 DEF SWake
  <2>3. QED
    BY <2>1, <2>2
<1>18. CASE SScan
  <2>1. \A c \in Conns : backlog[c] \in Nat /\ (state[c] = "live" =>
           backlog[c] = Cardinality({i \in 1..Len(sendq) : ConnOf(sendq[i]) = c}))
    BY DEF BacklogInv, Queued
  <2>2. backlog' = [c \in Conns |->
          IF state[c] # "live" THEN backlog[c]
          ELSE backlog[c] - Cardinality({i \in 1..Len(sendq) : ConnOf(sendq[i]) = c})]
    BY <1>18 DEF SScan
  <2>3. \A c \in Conns : IF state[c] # "live" THEN TRUE
          ELSE backlog[c] - Cardinality({i \in 1..Len(sendq) : ConnOf(sendq[i]) = c}) = 0
    BY <2>1, SMTT(40)
  <2>4. backlog' \in [Conns -> Nat]
    BY <2>1, <2>2, <2>3
  <2>5. sendq' = <<>> /\ sendq' \in Seq(1..taken)
    BY <1>18, EmptySeq DEF SScan
  <2>6. taken' = taken /\ UNCHANGED <<sem, replied, dropped>>
    BY <1>18 DEF SScan
  <2>7. QED
    BY <2>4, <2>5, <2>6
<1>19. CASE UNCHANGED vars
  BY <1>19, <1>0 DEF vars
<1>20. QED
  BY <1>1, <1>2, <1>3, <1>4, <1>5, <1>6, <1>7, <1>8, <1>9, <1>10, <1>11,
     <1>12, <1>13, <1>14, <1>15, <1>16, <1>17, <1>18, <1>19 DEF Next, WStep,
     CloseStep

(* Each thread stays in its own code.                                      *)
LEMMA PlaceStep == Inv /\ [Next]_vars => PlaceInv'
<1> SUFFICES ASSUME Inv, [Next]_vars PROVE PlaceInv'
  OBVIOUS
<1> USE Distinct DEF poolVars, Inv, TypeOK, PlaceInv, Threads
<1>1. ASSUME NEW k \in Kinds, Post(k) PROVE PlaceInv'
  BY <1>1 DEF Post
<1>2. ASSUME NEW w \in Workers, Take(w) PROVE PlaceInv'
  BY <1>2 DEF Take, Step, Goto
<1>3. ASSUME NEW w \in Workers, Check(w) PROVE PlaceInv'
  BY <1>3 DEF Check, Step, Goto, Free
<1>4. ASSUME NEW w \in Workers, LockLogic(w) PROVE PlaceInv'
  BY <1>4 DEF LockLogic, Step, Goto, Lock
<1>5. ASSUME NEW w \in Workers, LockSend(w) PROVE PlaceInv'
  BY <1>5 DEF LockSend, Step, Goto, Lock
<1>6. ASSUME NEW w \in Workers, ReplyDropped(w) PROVE PlaceInv'
  BY <1>6 DEF ReplyDropped, Step, Goto, Unlock
<1>7. ASSUME NEW w \in Workers, ReplyCutsOff(w) PROVE PlaceInv'
  BY <1>7 DEF ReplyCutsOff, Step, Goto
<1>8. ASSUME NEW w \in Workers, ReplyQueued(w) PROVE PlaceInv'
  BY <1>8 DEF ReplyQueued, Step, Goto, Unlock
<1>9. ASSUME NEW w \in Workers, ReplyReturns(w) PROVE PlaceInv'
  BY <1>9 DEF ReplyReturns, Step, Goto, Unlock
<1>10. ASSUME NEW w \in Workers, Return(w) PROVE PlaceInv'
  BY <1>10 DEF Return, Step, Goto, Unlock, Free
<1>11. ASSUME NEW t \in Workers \cup {E, T}, DeleteFromTimerQueue(t) PROVE
   PlaceInv'
  BY <1>11 DEF DeleteFromTimerQueue, Step, Goto, Pass
<1>12. ASSUME NEW t \in Workers \cup {E, T}, InRecyConnectQueue(t) PROVE
   PlaceInv'
  BY <1>12 DEF InRecyConnectQueue, Step, Goto, Pass, Start
<1>13. ASSUME NEW c \in Conns, EClose(c) PROVE PlaceInv'
  BY <1>13 DEF EClose, Step, Goto
<1>14. CASE TCheck
  BY <1>14 DEF TCheck, TCheckWith, Step, Goto
<1>15. CASE RLock
  BY <1>15 DEF RLock, Step, Goto, Lock
<1>16. CASE RFree
  BY <1>16 DEF RFree, Goto, Unlock
<1>17. CASE SWake
  BY <1>17 DEF SWake, Step, Goto
<1>18. CASE SScan
  BY <1>18 DEF SScan, Step, Goto, Pass
<1>19. CASE UNCHANGED vars
  BY <1>19, SMTT(40) DEF vars
<1>20. QED
  BY <1>1, <1>2, <1>3, <1>4, <1>5, <1>6, <1>7, <1>8, <1>9, <1>10, <1>11,
     <1>12, <1>13, <1>14, <1>15, <1>16, <1>17, <1>18, <1>19 DEF Next, WStep,
     CloseStep

(* A step keeps to the mutexes.                                            *)
LEMMA LockStep == Inv /\ [Next]_vars => LockInv'
<1> SUFFICES ASSUME Inv, [Next]_vars PROVE LockInv'
  OBVIOUS
<1> USE Distinct DEF poolVars, Inv, TypeOK, PlaceInv, WorkInv, Threads,
   Mutexes, Shared, LockInv, Conn, ConnOf
<1>0. \A w \in Workers : job[w] # 0 => msgs'[job[w]] = msgs[job[w]]
  BY MsgsStay
<1>1. ASSUME NEW k \in Kinds, Post(k) PROVE LockInv'
  BY <1>1, <1>0 DEF Post
<1>2. ASSUME NEW w \in Workers, Take(w) PROVE LockInv'
  BY <1>2, <1>0 DEF Take, Step, Goto
<1>3. ASSUME NEW w \in Workers, Check(w) PROVE LockInv'
  <2>1. CASE Step(w, "check", "logic") /\ UNCHANGED poolVars /\ UNCHANGED holder
    BY <2>1, <1>0 DEF Step, Goto
  <2>2. CASE /\ Step(w, "check", "idle") /\ Free(w)
             /\ UNCHANGED <<msgs, taken>> /\ UNCHANGED holder
    BY <2>2, <1>0, SMTT(40) DEF Step, Goto, Free
  <2>3. QED
    BY <1>3, <2>1, <2>2, Zenon DEF Check
<1>4. ASSUME NEW w \in Workers, LockLogic(w) PROVE LockInv'
  <2>1. Packet[msgs[job[w]]].conn \in Conns /\ job[w] \in 1..taken
    BY <1>4, MsgsTyped DEF LockLogic, Step
  <2>2. QED
    BY <1>4, <1>0, <2>1, SMTT(40) DEF LockLogic, Step, Goto, Lock
<1>5. ASSUME NEW w \in Workers, LockSend(w) PROVE LockInv'
  BY <1>5, <1>0 DEF LockSend, Step, Goto, Lock
<1>6. ASSUME NEW w \in Workers, ReplyDropped(w) PROVE LockInv'
  BY <1>6, <1>0 DEF ReplyDropped, Step, Goto, Unlock
<1>7. ASSUME NEW w \in Workers, ReplyCutsOff(w) PROVE LockInv'
  BY <1>7, <1>0 DEF ReplyCutsOff, Step, Goto
<1>8. ASSUME NEW w \in Workers, ReplyQueued(w) PROVE LockInv'
  BY <1>8, <1>0 DEF ReplyQueued, Step, Goto, Unlock
<1>9. ASSUME NEW w \in Workers, ReplyReturns(w) PROVE LockInv'
  BY <1>9, <1>0, SMTT(40) DEF ReplyReturns, Step, Goto, Unlock
<1>10. ASSUME NEW w \in Workers, Return(w) PROVE LockInv'
  BY <1>10, <1>0, SMTT(40) DEF Return, Step, Goto, Unlock, Free
<1>11. ASSUME NEW t \in Workers \cup {E, T}, DeleteFromTimerQueue(t) PROVE
   LockInv'
  BY <1>11, <1>0 DEF DeleteFromTimerQueue, Step, Goto, Pass
<1>12. ASSUME NEW t \in Workers \cup {E, T}, InRecyConnectQueue(t) PROVE
   LockInv'
  BY <1>12, <1>0 DEF InRecyConnectQueue, Step, Goto, Pass, Start
<1>13. ASSUME NEW c \in Conns, EClose(c) PROVE LockInv'
  BY <1>13, <1>0 DEF EClose, Step, Goto
<1>14. CASE TCheck
  BY <1>14, <1>0 DEF TCheck, TCheckWith, Step, Goto
<1>15. CASE RLock
  BY <1>15, <1>0 DEF RLock, Step, Goto, Lock
<1>16. CASE RFree
  <2>1. CASE /\ pc[R] = "free" /\ Goto(R, "scan") /\ Unlock("recy") /\ UNCHANGED poolVars
    BY <2>1, <1>0 DEF Goto, Unlock
  <2>2. CASE UNCHANGED <<pc, holder>> /\ UNCHANGED poolVars
    BY <2>2, <1>0
  <2>3. QED
    BY <1>16, <2>1, <2>2, Zenon DEF RFree
<1>17. CASE SWake
  BY <1>17, <1>0 DEF SWake, Step, Goto
<1>18. CASE SScan
  BY <1>18, <1>0 DEF SScan, Step, Goto, Pass
<1>19. CASE UNCHANGED vars
  BY <1>19, <1>0 DEF vars
<1>20. QED
  BY <1>1, <1>2, <1>3, <1>4, <1>5, <1>6, <1>7, <1>8, <1>9, <1>10, <1>11,
     <1>12, <1>13, <1>14, <1>15, <1>16, <1>17, <1>18, <1>19 DEF Next, WStep,
     CloseStep

(* Every message that was taken is done or at one worker.                  *)
LEMMA WorkStep == Inv /\ [Next]_vars => WorkInv'
<1> SUFFICES ASSUME Inv, [Next]_vars PROVE WorkInv'
  OBVIOUS
<1> USE Distinct DEF poolVars, Inv, TypeOK, PlaceInv, WorkInv, Threads
<1>1. ASSUME NEW k \in Kinds, Post(k) PROVE WorkInv'
  BY <1>1 DEF Post
<1>2. ASSUME NEW w \in Workers, Take(w) PROVE WorkInv'
  BY <1>2 DEF Take, Step, Goto
<1>3. ASSUME NEW w \in Workers, Check(w) PROVE WorkInv'
  <2>1. CASE Step(w, "check", "logic") /\ UNCHANGED poolVars /\ UNCHANGED holder
    BY <2>1 DEF Step, Goto
  <2>2. CASE /\ Step(w, "check", "idle") /\ Free(w)
             /\ UNCHANGED <<msgs, taken>> /\ UNCHANGED holder
    BY <2>2 DEF Step, Goto, Free
  <2>3. QED
    BY <1>3, <2>1, <2>2, Zenon DEF Check
<1>4. ASSUME NEW w \in Workers, LockLogic(w) PROVE WorkInv'
  BY <1>4 DEF LockLogic, Step, Goto, Lock
<1>5. ASSUME NEW w \in Workers, LockSend(w) PROVE WorkInv'
  BY <1>5 DEF LockSend, Step, Goto, Lock
<1>6. ASSUME NEW w \in Workers, ReplyDropped(w) PROVE WorkInv'
  BY <1>6 DEF ReplyDropped, Step, Goto, Unlock
<1>7. ASSUME NEW w \in Workers, ReplyCutsOff(w) PROVE WorkInv'
  BY <1>7 DEF ReplyCutsOff, Step, Goto
<1>8. ASSUME NEW w \in Workers, ReplyQueued(w) PROVE WorkInv'
  BY <1>8 DEF ReplyQueued, Step, Goto, Unlock
<1>9. ASSUME NEW w \in Workers, ReplyReturns(w) PROVE WorkInv'
  BY <1>9 DEF ReplyReturns, Step, Goto, Unlock
<1>10. ASSUME NEW w \in Workers, Return(w) PROVE WorkInv'
  BY <1>10 DEF Return, Step, Goto, Unlock, Free
<1>11. ASSUME NEW t \in Workers \cup {E, T}, DeleteFromTimerQueue(t) PROVE
   WorkInv'
  BY <1>11 DEF DeleteFromTimerQueue, Step, Goto, Pass
<1>12. ASSUME NEW t \in Workers \cup {E, T}, InRecyConnectQueue(t) PROVE
   WorkInv'
  BY <1>12 DEF InRecyConnectQueue, Step, Goto, Pass, Start
<1>13. ASSUME NEW c \in Conns, EClose(c) PROVE WorkInv'
  BY <1>13 DEF EClose, Step, Goto
<1>14. CASE TCheck
  BY <1>14 DEF TCheck, TCheckWith, Step, Goto
<1>15. CASE RLock
  BY <1>15 DEF RLock, Step, Goto, Lock
<1>16. CASE RFree
  BY <1>16 DEF RFree, Goto, Unlock
<1>17. CASE SWake
  BY <1>17 DEF SWake, Step, Goto
<1>18. CASE SScan
  BY <1>18 DEF SScan, Step, Goto, Pass
<1>19. CASE UNCHANGED vars
  BY <1>19 DEF vars
<1>20. QED
  BY <1>1, <1>2, <1>3, <1>4, <1>5, <1>6, <1>7, <1>8, <1>9, <1>10, <1>11,
     <1>12, <1>13, <1>14, <1>15, <1>16, <1>17, <1>18, <1>19 DEF Next, WStep,
     CloseStep

(* No message is answered twice, and none is forgotten.                    *)
LEMMA ReplyStep == Inv /\ [Next]_vars => ReplyInv'
<1> SUFFICES ASSUME Inv, [Next]_vars PROVE ReplyInv'
  OBVIOUS
<1> USE Distinct DEF poolVars, sendVars, Inv, TypeOK, PlaceInv, WorkInv,
   Threads, ReplyInv, AnsweredOnce, After, ConnOf
<1>0. \A m \in 1..taken : msgs'[m] = msgs[m]
  BY MsgsStay
<1>1. ASSUME NEW k \in Kinds, Post(k) PROVE ReplyInv'
  BY <1>1, <1>0 DEF Post
<1>2. ASSUME NEW w \in Workers, Take(w) PROVE ReplyInv'
  <2>1. replied' \cap dropped' = {}
    BY <1>2, <1>0 DEF Take, Step, Goto
  <2>2. \A m \in done' : Handled(msgs'[m]) /\ state'[Packet[msgs'[m]].conn] = "live" =>
         m \in replied' \cup dropped'
    BY <1>2, <1>0 DEF Take, Step, Goto
  <2>3. \A m \in replied' \cup dropped' :
         m \in done' \/ \E v \in Workers : job'[v] = m /\ pc'[v] \in After
    <3>1. ASSUME NEW v \in Workers, pc[v] \in After
        PROVE  job'[v] = job[v] /\ pc'[v] \in After
    BY <1>2, <3>1 DEF Take, Step, Goto
    <3>2. replied' = replied /\ dropped' = dropped /\ done' = done
      BY <1>2 DEF Take
    <3>3. QED
      BY <3>1, <3>2, SMTT(40)
  <2>4. \A v \in Workers : pc'[v] \in After => job'[v] \in replied' \cup dropped'
    BY <1>2, <1>0 DEF Take, Step, Goto
  <2>5. QED
    BY <2>1, <2>2, <2>3, <2>4
<1>3. ASSUME NEW w \in Workers, Check(w) PROVE ReplyInv'
  <2>1. CASE Step(w, "check", "logic") /\ UNCHANGED <<poolVars, state, replied, dropped>>
    <3>1. replied' \cap dropped' = {}
      BY <2>1, <1>0 DEF Step, Goto
    <3>2. \A m \in done' : Handled(msgs'[m]) /\ state'[Packet[msgs'[m]].conn] = "live" =>
           m \in replied' \cup dropped'
      BY <2>1, <1>0 DEF Step, Goto
    <3>3. \A m \in replied' \cup dropped' :
           m \in done' \/ \E v \in Workers : job'[v] = m /\ pc'[v] \in After
      <4>1. ASSUME NEW v \in Workers, pc[v] \in After
          PROVE  job'[v] = job[v] /\ pc'[v] \in After
      BY <2>1, <4>1 DEF Step, Goto
      <4>2. replied' = replied /\ dropped' = dropped /\ done' = done
        BY <2>1 DEF poolVars
      <4>3. QED
        BY <4>1, <4>2, SMTT(40)
    <3>4. \A v \in Workers : pc'[v] \in After => job'[v] \in replied' \cup dropped'
      BY <2>1, <1>0 DEF Step, Goto
    <3>5. QED
      BY <3>1, <3>2, <3>3, <3>4
  <2>2. CASE /\ Step(w, "check", "idle") /\ ~Accepted(w) /\ Free(w)
             /\ UNCHANGED <<msgs, taken, state, replied, dropped>>
    <3>0. Handled(msgs[job[w]]) => state[Packet[msgs[job[w]]].conn] # "live"
      BY <2>2 DEF Accepted, Conn
    <3>1. replied' \cap dropped' = {}
      BY <2>2, <1>0, <3>0 DEF Step, Goto, Free
    <3>2. \A m \in done' : Handled(msgs'[m]) /\ state'[Packet[msgs'[m]].conn] = "live" =>
           m \in replied' \cup dropped'
      BY <2>2, <1>0, <3>0 DEF Step, Goto, Free
    <3>3. \A m \in replied' \cup dropped' :
           m \in done' \/ \E v \in Workers : job'[v] = m /\ pc'[v] \in After
      BY <2>2, <1>0, <3>0 DEF Step, Goto, Free
    <3>4. \A v \in Workers : pc'[v] \in After => job'[v] \in replied' \cup dropped'
      BY <2>2, <1>0, <3>0 DEF Step, Goto, Free
    <3>5. QED
      BY <3>1, <3>2, <3>3, <3>4
  <2>3. QED
    BY <1>3, <2>1, <2>2, Zenon DEF Check, sendVars
<1>4. ASSUME NEW w \in Workers, LockLogic(w) PROVE ReplyInv'
  <2>1. replied' \cap dropped' = {}
    BY <1>4, <1>0 DEF LockLogic, Step, Goto, Lock
  <2>2. \A m \in done' : Handled(msgs'[m]) /\ state'[Packet[msgs'[m]].conn] = "live" =>
         m \in replied' \cup dropped'
    BY <1>4, <1>0 DEF LockLogic, Step, Goto, Lock
  <2>3. \A m \in replied' \cup dropped' :
         m \in done' \/ \E v \in Workers : job'[v] = m /\ pc'[v] \in After
    <3>1. ASSUME NEW v \in Workers, pc[v] \in After
        PROVE  job'[v] = job[v] /\ pc'[v] \in After
    BY <1>4, <3>1 DEF LockLogic, Step, Goto, Lock
    <3>2. replied' = replied /\ dropped' = dropped /\ done' = done
      BY <1>4 DEF LockLogic
    <3>3. QED
      BY <3>1, <3>2, SMTT(40)
  <2>4. \A v \in Workers : pc'[v] \in After => job'[v] \in replied' \cup dropped'
    BY <1>4, <1>0 DEF LockLogic, Step, Goto, Lock
  <2>5. QED
    BY <2>1, <2>2, <2>3, <2>4
<1>5. ASSUME NEW w \in Workers, LockSend(w) PROVE ReplyInv'
  <2>1. replied' \cap dropped' = {}
    BY <1>5, <1>0 DEF LockSend, Step, Goto, Lock
  <2>2. \A m \in done' : Handled(msgs'[m]) /\ state'[Packet[msgs'[m]].conn] = "live" =>
         m \in replied' \cup dropped'
    BY <1>5, <1>0 DEF LockSend, Step, Goto, Lock
  <2>3. \A m \in replied' \cup dropped' :
         m \in done' \/ \E v \in Workers : job'[v] = m /\ pc'[v] \in After
    <3>1. ASSUME NEW v \in Workers, pc[v] \in After
        PROVE  job'[v] = job[v] /\ pc'[v] \in After
    BY <1>5, <3>1 DEF LockSend, Step, Goto, Lock
    <3>2. replied' = replied /\ dropped' = dropped /\ done' = done
      BY <1>5 DEF LockSend
    <3>3. QED
      BY <3>1, <3>2, SMTT(40)
  <2>4. \A v \in Workers : pc'[v] \in After => job'[v] \in replied' \cup dropped'
    BY <1>5, <1>0 DEF LockSend, Step, Goto, Lock
  <2>5. QED
    BY <2>1, <2>2, <2>3, <2>4
<1>6. ASSUME NEW w \in Workers, ReplyDropped(w) PROVE ReplyInv'
  <2>0. job[w] \notin replied \cup dropped
    <3>1. pc[w] = "queue" /\ job[w] # 0 /\ job[w] \notin done
      BY <1>6 DEF ReplyDropped, Step, Goto, Unlock
    <3>2. ASSUME NEW v \in Workers, job[v] = job[w] PROVE pc[v] \notin After
      <4>1. v = w
        BY <3>1, <3>2
      <4>2. QED
        BY <3>1, <4>1
    <3>3. QED
      BY <3>1, <3>2
  <2>1. replied' \cap dropped' = {}
    <3>1. dropped' = dropped \cup {job[w]} /\ replied' = replied
      BY <1>6 DEF ReplyDropped
    <3>2. replied \cap dropped = {}
      BY DEF ReplyInv, AnsweredOnce
    <3>3. (dropped \cup {job[w]}) \cap replied = {} /\ replied \cap (dropped \cup {job[w]}) = {}
      <4> HIDE DEF poolVars, sendVars, Inv, TypeOK, PlaceInv, WorkInv, Threads,
               ReplyInv, AnsweredOnce, After, ConnOf
      <4>1. QED
        BY <3>2, <2>0
    <3>4. QED
      BY <3>1, <3>3
  <2>2. \A m \in done' : Handled(msgs'[m]) /\ state'[Packet[msgs'[m]].conn] = "live" =>
         m \in replied' \cup dropped'
    BY <1>6, <1>0, <2>0 DEF ReplyDropped, Step, Goto, Unlock
  <2>3. \A m \in replied' \cup dropped' :
         m \in done' \/ \E v \in Workers : job'[v] = m /\ pc'[v] \in After
    BY <1>6, <1>0, <2>0 DEF ReplyDropped, Step, Goto, Unlock
  <2>4. \A v \in Workers : pc'[v] \in After => job'[v] \in replied' \cup dropped'
    BY <1>6, <1>0, <2>0 DEF ReplyDropped, Step, Goto, Unlock
  <2>5. QED
    BY <2>1, <2>2, <2>3, <2>4
<1>7. ASSUME NEW w \in Workers, ReplyCutsOff(w) PROVE ReplyInv'
  <2>0. job[w] \notin replied \cup dropped
    <3>1. pc[w] = "queue" /\ job[w] # 0 /\ job[w] \notin done
      BY <1>7 DEF ReplyCutsOff, Step, Goto
    <3>2. ASSUME NEW v \in Workers, job[v] = job[w] PROVE pc[v] \notin After
      <4>1. v = w
        BY <3>1, <3>2
      <4>2. QED
        BY <3>1, <4>1
    <3>3. QED
      BY <3>1, <3>2
  <2>1. replied' \cap dropped' = {}
    <3>1. dropped' = dropped \cup {job[w]} /\ replied' = replied
      BY <1>7 DEF ReplyCutsOff
    <3>2. replied \cap dropped = {}
      BY DEF ReplyInv, AnsweredOnce
    <3>3. (dropped \cup {job[w]}) \cap replied = {} /\ replied \cap (dropped \cup {job[w]}) = {}
      <4> HIDE DEF poolVars, sendVars, Inv, TypeOK, PlaceInv, WorkInv, Threads,
               ReplyInv, AnsweredOnce, After, ConnOf
      <4>1. QED
        BY <3>2, <2>0
    <3>4. QED
      BY <3>1, <3>3
  <2>2. \A m \in done' : Handled(msgs'[m]) /\ state'[Packet[msgs'[m]].conn] = "live" =>
         m \in replied' \cup dropped'
    BY <1>7, <1>0, <2>0 DEF ReplyCutsOff, Step, Goto
  <2>3. \A m \in replied' \cup dropped' :
         m \in done' \/ \E v \in Workers : job'[v] = m /\ pc'[v] \in After
    BY <1>7, <1>0, <2>0 DEF ReplyCutsOff, Step, Goto
  <2>4. \A v \in Workers : pc'[v] \in After => job'[v] \in replied' \cup dropped'
    BY <1>7, <1>0, <2>0 DEF ReplyCutsOff, Step, Goto
  <2>5. QED
    BY <2>1, <2>2, <2>3, <2>4
<1>8. ASSUME NEW w \in Workers, ReplyQueued(w) PROVE ReplyInv'
  <2>0. job[w] \notin replied \cup dropped
    <3>1. pc[w] = "queue" /\ job[w] # 0 /\ job[w] \notin done
      BY <1>8 DEF ReplyQueued, Step, Goto, Unlock
    <3>2. ASSUME NEW v \in Workers, job[v] = job[w] PROVE pc[v] \notin After
      <4>1. v = w
        BY <3>1, <3>2
      <4>2. QED
        BY <3>1, <4>1
    <3>3. QED
      BY <3>1, <3>2
  <2>1. replied' \cap dropped' = {}
    <3>1. replied' = replied \cup {job[w]} /\ dropped' = dropped
      BY <1>8 DEF ReplyQueued
    <3>2. replied \cap dropped = {}
      BY DEF ReplyInv, AnsweredOnce
    <3>3. (replied \cup {job[w]}) \cap dropped = {} /\ dropped \cap (replied \cup {job[w]}) = {}
      <4> HIDE DEF poolVars, sendVars, Inv, TypeOK, PlaceInv, WorkInv, Threads,
               ReplyInv, AnsweredOnce, After, ConnOf
      <4>1. QED
        BY <3>2, <2>0
    <3>4. QED
      BY <3>1, <3>3
  <2>2. \A m \in done' : Handled(msgs'[m]) /\ state'[Packet[msgs'[m]].conn] = "live" =>
         m \in replied' \cup dropped'
    BY <1>8, <1>0, <2>0 DEF ReplyQueued, Step, Goto, Unlock
  <2>3. \A m \in replied' \cup dropped' :
         m \in done' \/ \E v \in Workers : job'[v] = m /\ pc'[v] \in After
    BY <1>8, <1>0, <2>0 DEF ReplyQueued, Step, Goto, Unlock
  <2>4. \A v \in Workers : pc'[v] \in After => job'[v] \in replied' \cup dropped'
    BY <1>8, <1>0, <2>0 DEF ReplyQueued, Step, Goto, Unlock
  <2>5. QED
    BY <2>1, <2>2, <2>3, <2>4
<1>9. ASSUME NEW w \in Workers, ReplyReturns(w) PROVE ReplyInv'
  BY <1>9, <1>0 DEF ReplyReturns, Step, Goto, Unlock
<1>10. ASSUME NEW w \in Workers, Return(w) PROVE ReplyInv'
  <2>1. replied' \cap dropped' = {}
    BY <1>10, <1>0 DEF Return, Step, Goto, Unlock, Free
  <2>2. \A m \in done' : Handled(msgs'[m]) /\ state'[Packet[msgs'[m]].conn] = "live" =>
         m \in replied' \cup dropped'
    BY <1>10, <1>0 DEF Return, Step, Goto, Unlock, Free
  <2>3. \A m \in replied' \cup dropped' :
         m \in done' \/ \E v \in Workers : job'[v] = m /\ pc'[v] \in After
    BY <1>10, <1>0, SMTT(40) DEF Return, Step, Goto, Unlock, Free
  <2>4. \A v \in Workers : pc'[v] \in After => job'[v] \in replied' \cup dropped'
    BY <1>10, <1>0 DEF Return, Step, Goto, Unlock, Free
  <2>5. QED
    BY <2>1, <2>2, <2>3, <2>4
<1>11. ASSUME NEW t \in Workers \cup {E, T}, DeleteFromTimerQueue(t) PROVE
   ReplyInv'
  BY <1>11, <1>0 DEF DeleteFromTimerQueue, Step, Goto, Pass
<1>12. ASSUME NEW t \in Workers \cup {E, T}, InRecyConnectQueue(t) PROVE
   ReplyInv'
  BY <1>12, <1>0 DEF InRecyConnectQueue, Step, Goto, Pass, Start
<1>13. ASSUME NEW c \in Conns, EClose(c) PROVE ReplyInv'
  BY <1>13, <1>0 DEF EClose, Step, Goto
<1>14. CASE TCheck
  BY <1>14, <1>0 DEF TCheck, TCheckWith, Step, Goto
<1>15. CASE RLock
  BY <1>15, <1>0 DEF RLock, Step, Goto, Lock
<1>16. CASE RFree
  BY <1>16, <1>0 DEF RFree, Goto, Unlock
<1>17. CASE SWake
  BY <1>17, <1>0 DEF SWake, Step, Goto
<1>18. CASE SScan
  BY <1>18, <1>0 DEF SScan, Step, Goto, Pass
<1>19. CASE UNCHANGED vars
  BY <1>19, <1>0 DEF vars
<1>20. QED
  BY <1>1, <1>2, <1>3, <1>4, <1>5, <1>6, <1>7, <1>8, <1>9, <1>10, <1>11,
     <1>12, <1>13, <1>14, <1>15, <1>16, <1>17, <1>18, <1>19 DEF Next, WStep,
     CloseStep

(* The packages of a client on the send queue can be counted.              *)
LEMMA QueuedFinite ==
  ASSUME TypeOK, NEW c \in Conns
  PROVE  IsFiniteSet(Queued(c)) /\ Cardinality(Queued(c)) \in Nat
<1>1. Len(sendq) \in Nat /\ Queued(c) \in SUBSET (1..Len(sendq))
  BY DEF TypeOK, Queued
<1>2. IsFiniteSet(1..Len(sendq))
  BY <1>1, FS_Interval
<1>3. IsFiniteSet(Queued(c))
  BY <1>1, <1>2, FS_Subset
<1>4. QED
  BY <1>3, FS_CardinalityType

(* iSendCount stays exact.                                                 *)
LEMMA BacklogStep == Inv /\ [Next]_vars => BacklogInv'
<1> SUFFICES ASSUME Inv, [Next]_vars PROVE BacklogInv'
  OBVIOUS
<1> USE Distinct DEF poolVars, sendVars, Inv, TypeOK, PlaceInv, WorkInv,
   Threads, BacklogInv
<1>0. sendq' = sendq => \A c \in Conns : Queued(c)' = Queued(c)
  <2>1. \A m \in 1..taken : msgs'[m] = msgs[m]
    BY MsgsStay
  <2>2. \A i \in 1..Len(sendq) : sendq[i] \in 1..taken
    BY ElementOfSeq
  <2>3. QED
    BY <2>1, <2>2 DEF Queued, ConnOf
<1>1. ASSUME NEW k \in Kinds, Post(k) PROVE BacklogInv'
  <2>1. sendq' = sendq /\ backlog' = backlog /\ state' = state
    BY <1>1 DEF Post
  <2>2. QED
    BY <2>1, <1>0
<1>2. ASSUME NEW w \in Workers, Take(w) PROVE BacklogInv'
  <2>1. sendq' = sendq /\ backlog' = backlog /\ state' = state
    BY <1>2 DEF Take, Step, Goto
  <2>2. QED
    BY <2>1, <1>0
<1>3. ASSUME NEW w \in Workers, Check(w) PROVE BacklogInv'
  <2>1. sendq' = sendq /\ backlog' = backlog /\ state' = state
    BY <1>3 DEF Check
  <2>2. QED
    BY <2>1, <1>0
<1>4. ASSUME NEW w \in Workers, LockLogic(w) PROVE BacklogInv'
  <2>1. sendq' = sendq /\ backlog' = backlog /\ state' = state
    BY <1>4 DEF LockLogic, Step, Goto, Lock
  <2>2. QED
    BY <2>1, <1>0
<1>5. ASSUME NEW w \in Workers, LockSend(w) PROVE BacklogInv'
  <2>1. sendq' = sendq /\ backlog' = backlog /\ state' = state
    BY <1>5 DEF LockSend, Step, Goto, Lock
  <2>2. QED
    BY <2>1, <1>0
<1>6. ASSUME NEW w \in Workers, ReplyDropped(w) PROVE BacklogInv'
  <2>1. sendq' = sendq /\ backlog' = backlog /\ state' = state
    BY <1>6 DEF ReplyDropped, Step, Goto, Unlock
  <2>2. QED
    BY <2>1, <1>0
<1>7. ASSUME NEW w \in Workers, ReplyCutsOff(w) PROVE BacklogInv'
  <2>1. sendq' = sendq /\ backlog' = backlog /\ state' = state
    BY <1>7 DEF ReplyCutsOff, Step, Goto
  <2>2. QED
    BY <2>1, <1>0
<1>8. ASSUME NEW w \in Workers, ReplyQueued(w) PROVE BacklogInv'
  <2>1. /\ state' = state /\ sendq' = Append(sendq, job[w]) /\ msgs' = msgs /\ taken' = taken
        /\ backlog' = [backlog EXCEPT ![Conn(w)] = backlog[Conn(w)] + 1]
        /\ job[w] \in 1..taken /\ ConnOf(job[w]) \in Conns
    BY <1>8, MsgsTyped DEF ReplyQueued, Step, Goto, Unlock
  <2>2. /\ Len(sendq') = Len(sendq) + 1 /\ Len(sendq) \in Nat
        /\ \A i \in 1..Len(sendq) : sendq'[i] = sendq[i]
        /\ sendq'[Len(sendq) + 1] = job[w]
    BY <2>1
  <2>3. ASSUME NEW c \in Conns, state[c] = "live"
        PROVE  backlog'[c] = Cardinality(Queued(c)')
    <3>1. CASE c = ConnOf(job[w])
      <4>1. Queued(c)' = Queued(c) \cup {Len(sendq) + 1}
        BY <3>1, <2>1, <2>2 DEF Queued, ConnOf
      <4>2. Len(sendq) + 1 \notin Queued(c)
        BY <2>2 DEF Queued
      <4>3. Cardinality(Queued(c)') = Cardinality(Queued(c)) + 1
        <5>1. IsFiniteSet(Queued(c))
          BY QueuedFinite
        <5>2. Cardinality(Queued(c) \cup {Len(sendq) + 1}) = Cardinality(Queued(c)) + 1
          BY <5>1, <4>2, FS_AddElement
        <5>3. QED
          BY <4>1, <5>2, Zenon
      <4>4. backlog'[c] = backlog[c] + 1
        BY <3>1, <2>1 DEF Conn
      <4>5. QED
        BY <4>3, <4>4, <2>3
    <3>2. CASE c # ConnOf(job[w])
      <4>1. Queued(c)' = Queued(c)
        BY <3>2, <2>1, <2>2 DEF Queued, ConnOf
      <4>2. backlog'[c] = backlog[c]
        BY <3>2, <2>1 DEF Conn
      <4>3. QED
        BY <4>1, <4>2, <2>3
    <3>3. QED
      BY <3>1, <3>2
  <2>4. QED
    BY <2>1, <2>3
<1>9. ASSUME NEW w \in Workers, ReplyReturns(w) PROVE BacklogInv'
  <2>1. sendq' = sendq /\ backlog' = backlog /\ state' = state
    BY <1>9 DEF ReplyReturns, Step, Goto, Unlock
  <2>2. QED
    BY <2>1, <1>0
<1>10. ASSUME NEW w \in Workers, Return(w) PROVE BacklogInv'
  <2>1. sendq' = sendq /\ backlog' = backlog /\ state' = state
    BY <1>10 DEF Return, Step, Goto, Unlock, Free
  <2>2. QED
    BY <2>1, <1>0
<1>11. ASSUME NEW t \in Workers \cup {E, T}, DeleteFromTimerQueue(t) PROVE
   BacklogInv'
  <2>1. sendq' = sendq /\ backlog' = backlog /\ state' = state
    BY <1>11 DEF DeleteFromTimerQueue, Step, Goto, Pass
  <2>2. QED
    BY <2>1, <1>0
<1>12. ASSUME NEW t \in Workers \cup {E, T}, InRecyConnectQueue(t) PROVE
   BacklogInv'
  <2>1. sendq' = sendq /\ backlog' = backlog /\ \A c \in Conns : state'[c] = "live" => state[c] = "live"
    BY <1>12 DEF InRecyConnectQueue, Step, Goto, Pass, Start
  <2>2. QED
    BY <2>1, <1>0
<1>13. ASSUME NEW c \in Conns, EClose(c) PROVE BacklogInv'
  <2>1. sendq' = sendq /\ backlog' = backlog /\ state' = state
    BY <1>13 DEF EClose
  <2>2. QED
    BY <2>1, <1>0
<1>14. CASE TCheck
  <2>1. sendq' = sendq /\ backlog' = backlog /\ state' = state
    BY <1>14 DEF TCheck, TCheckWith, Step, Goto
  <2>2. QED
    BY <2>1, <1>0
<1>15. CASE RLock
  <2>1. sendq' = sendq /\ backlog' = backlog /\ state' = state
    BY <1>15 DEF RLock, Step, Goto, Lock
  <2>2. QED
    BY <2>1, <1>0
<1>16. CASE RFree
  <2>1. sendq' = sendq /\ backlog' = backlog /\ \A c \in Conns : state'[c] = "live" => state[c] = "live"
    BY <1>16 DEF RFree, Goto, Unlock
  <2>2. QED
    BY <2>1, <1>0
<1>17. CASE SWake
  <2>1. sendq' = sendq /\ backlog' = backlog /\ state' = state
    BY <1>17 DEF SWake, Step, Goto
  <2>2. QED
    BY <2>1, <1>0
<1>18. CASE SScan
  <2>1. /\ sendq' = <<>> /\ state' = state
        /\ backlog' = [c \in Conns |->
             IF state[c] # "live" THEN backlog[c] ELSE backlog[c] - Cardinality(Queued(c))]
    BY <1>18 DEF SScan, Queued
  <2>2. ASSUME NEW c \in Conns, state[c] = "live"
        PROVE  backlog'[c] = Cardinality(Queued(c)')
    <3>1. Queued(c)' = {}
      BY <2>1 DEF Queued
    <3>2. backlog'[c] = backlog[c] - backlog[c]
      BY <2>1, <2>2
    <3>3. QED
      BY <3>1, <3>2, FS_EmptySet
  <2>3. QED
    BY <2>1, <2>2
<1>19. CASE UNCHANGED vars
  <2>1. sendq' = sendq /\ backlog' = backlog /\ state' = state
    BY <1>19 DEF vars
  <2>2. QED
    BY <2>1, <1>0
<1>20. QED
  BY <1>1, <1>2, <1>3, <1>4, <1>5, <1>6, <1>7, <1>8, <1>9, <1>10, <1>11,
     <1>12, <1>13, <1>14, <1>15, <1>16, <1>17, <1>18, <1>19 DEF Next, WStep,
     CloseStep

-----------------------------------------------------------------------------
(* The initial state satisfies the invariant.                              *)
LEMMA InitInv == Init => Inv
<1> SUFFICES ASSUME Init PROVE Inv
  OBVIOUS
<1> USE Distinct DEF Init, Start, Threads
<1>1. WorkTypes
  BY EmptySeq DEF WorkTypes
<1>2. PlaceTypes
  BY DEF PlaceTypes, Mutexes, Shared, Locals
<1>3. SendTypes
  BY EmptySeq DEF SendTypes
<1>4. TypeOK
  BY <1>1, <1>2, <1>3, TypeParts
<1>5. PlaceInv
  BY DEF PlaceInv
<1>6. LockInv
  BY DEF LockInv, Mutexes, Shared
<1>7. WorkInv
  BY DEF WorkInv
<1>8. ReplyInv
  BY DEF ReplyInv, AnsweredOnce, After
<1>9. BacklogInv
  <2>1. ASSUME NEW c \in Conns PROVE Queued(c) = {}
    BY DEF Queued
  <2>2. QED
    BY <2>1, FS_EmptySet DEF BacklogInv
<1>10. QED
  BY <1>4, <1>5, <1>6, <1>7, <1>8, <1>9 DEF Inv

(* Inv holds in every state.                                               *)
THEOREM DispatchInvariant == Spec => []Inv
<1>1. Inv /\ [Next]_vars => Inv'
  <2> SUFFICES ASSUME Inv, [Next]_vars PROVE Inv'
    OBVIOUS
  <2>1. WorkTypes' /\ PlaceTypes' /\ SendTypes'
    BY WorkTypesStep, PlaceTypesStep, SendTypesStep
  <2>2. TypeOK'
    BY <2>1, TypeParts, Zenon DEF TypeOK, WorkTypes, PlaceTypes, SendTypes
  <2>3. QED
    BY <2>2, PlaceStep, LockStep, WorkStep, ReplyStep, BacklogStep DEF Inv
<1>2. QED
  BY <1>1, InitInv, PTL DEF Spec

(* Types, for any number of workers, clients and messages; a client never  *)
(* has less than no package on the send queue.                             *)
THEOREM TypeCorrect == Spec => []TypeOK
<1>1. Inv => TypeOK
  BY DEF Inv
<1>2. QED
  BY <1>1, DispatchInvariant, PTL

(* A reply is queued or dropped, never both, and the message of a client   *)
(* that is still there is not finished without.                            *)
THEOREM NoReplyForgotten == Spec => []AnsweredOnce
<1>1. Inv => AnsweredOnce
  BY DEF Inv, ReplyInv
<1>2. QED
  BY <1>1, DispatchInvariant, PTL

-----------------------------------------------------------------------------
(* R never waits: nobody else has a mutex that it asks for.                *)
LEMMA RecycleRuns == Inv => R \notin Blocked
<1> SUFFICES ASSUME Inv, R \in Blocked PROVE FALSE
  OBVIOUS
<1>1. pc[R] \in {"scan", "free"}
  BY DEF Inv, PlaceInv
<1>2. CASE pc[R] = "scan"
  BY <1>2 DEF Blocked, Wants, Inv, LockInv
<1>3. CASE pc[R] = "free"
  BY <1>3 DEF Blocked, Wants, Inv, LockInv
<1>4. QED
  BY <1>1, <1>2, <1>3

(* Who waits while it closes a connection waits for R.                     *)
LEMMA WaitsForRecycle ==
  ASSUME Inv, NEW t \in Blocked, pc[t] \in {"close", "look", "park", "scan", "free"}
  PROVE  "recy" \in Wants(t) /\ holder["recy"] = R
<1> USE DEF Blocked, Wants, Inv, LockInv
<1>1. pc[t] \notin {"close", "look", "free"}
  OBVIOUS
<1>2. pc[t] \in {"park", "scan"}
  BY <1>1
<1>3. Wants(t) = {"recy"}
  BY <1>2
<1>4. QED
  BY <1>3

(* No deadlock.  From any thread that waits the owners lead, over the send *)
(* queue's mutex if need be, to one that runs.                             *)
THEOREM NeverCircular == Spec => []NoCircularWait
<1>1. Inv => NoCircularWait
  <2> SUFFICES ASSUME Inv, NEW D \in SUBSET Blocked, NEW t \in D,
                      \A u \in D : \A l \in Wants(u) : holder[l] \in D
               PROVE  FALSE
    BY DEF NoCircularWait
  <2>1. R \notin D
    BY RecycleRuns
  <2>2. ASSUME NEW u \in D PROVE pc[u] \notin {"close", "look", "park", "scan", "free"}
    BY <2>1, <2>2, WaitsForRecycle
  <2>3. ASSUME NEW u \in D, pc[u] \in {"send", "lock"} PROVE FALSE
    <3>1. "send" \in Wants(u) /\ holder["send"] \in D
      BY <2>3 DEF Wants
    <3>2. holder["send"] # Nobody
      BY <3>1, Distinct DEF Blocked
    <3>3. pc[holder["send"]] \in {"queue", "closed"}
      BY <2>2, <3>1, <3>2 DEF Inv, LockInv
    <3>4. Wants(holder["send"]) = {}
      BY <3>3 DEF Wants
    <3>5. QED
      BY <3>1, <3>4 DEF Blocked
  <2>4. ASSUME NEW u \in D, pc[u] = "logic" PROVE FALSE
    <3>1. Conn(u) \in Wants(u) /\ holder[Conn(u)] \in D
      BY <2>4 DEF Wants
    <3>2. Conn(u) \in Conns /\ holder[Conn(u)] # Nobody
      <4>1. u \in Workers
        BY <2>4 DEF Blocked, Threads, Inv, PlaceInv
      <4>2. job[u] \in 1..taken
        BY <2>4, <4>1 DEF Inv, TypeOK, WorkInv
      <4>3. QED
        BY <3>1, <4>2, MsgsTyped, Distinct DEF Blocked, Conn, Inv
    <3>3. pc[holder[Conn(u)]] \in {"queue", "closed", "unlock"}
      BY <2>2, <2>3, <3>1, <3>2 DEF Inv, LockInv
    <3>4. Wants(holder[Conn(u)]) = {}
      BY <3>3 DEF Wants
    <3>5. QED
      BY <3>1, <3>4 DEF Blocked
  <2>5. pc[t] \notin {"logic", "send", "lock"}
    BY <2>3, <2>4
  <2>6. Wants(t) = {}
    BY <2>2, <2>5 DEF Wants
  <2>7. QED
    BY <2>6 DEF Blocked
<1>2. QED
  BY <1>1, DispatchInvariant, PTL

-----------------------------------------------------------------------------
(* A message is overtaken by no more than the other workers can hold.      *)
THEOREM OvertakingLimited == Spec => []OvertakingBounded
<1>1. Inv => OvertakingBounded
  <2> SUFFICES ASSUME Inv, NEW w \in Workers, job[w] # 0
               PROVE  Cardinality({m \in 1..job[w] - 1 : m \notin done})
                        <= Cardinality(Workers) - 1
    BY DEF OvertakingBounded
  <2> DEFINE Earlier == {m \in 1..job[w] - 1 : m \notin done}
             Others == {v \in Workers : job[v] \in Earlier}
             f == [v \in Others |-> job[v]]
  <2>1. \A m \in Earlier : m \in 1..taken /\ m # job[w] /\ m \notin done
    BY DEF Inv, TypeOK
  <2>2. \A m \in Earlier : \E v \in Others : f[v] = m
    BY <2>1 DEF Inv, WorkInv
  <2>3. f \in Surjection(Others, Earlier)
    BY <2>2 DEF Surjection
  <2>4. IsFiniteSet(Workers \ {w}) /\ Cardinality(Workers \ {w}) = Cardinality(Workers) - 1
    BY DispatchAssumption, FS_RemoveElement DEF DispatchAssumption
  <2>5. Others \in SUBSET (Workers \ {w})
    BY <2>1
  <2> HIDE DEF Earlier, Others, f
  <2>6. IsFiniteSet(Others) /\ Cardinality(Others) <= Cardinality(Workers \ {w})
    BY <2>4, <2>5, FS_Subset
  <2>7. IsFiniteSet(Earlier) /\ Cardinality(Earlier) <= Cardinality(Others)
    BY <2>3, <2>6, FS_Surjection
  <2>8. Cardinality(Earlier) \in Nat /\ Cardinality(Others) \in Nat /\ Cardinality(Workers) \in Nat
    BY <2>6, <2>7, DispatchAssumption, FS_CardinalityType DEF DispatchAssumption
  <2>9. Cardinality(Earlier) <= Cardinality(Workers) - 1
    BY <2>4, <2>6, <2>7, <2>8
  <2>10. QED
    BY <2>9 DEF Earlier
<1>2. QED
  BY <1>1, DispatchInvariant, PTL

-----------------------------------------------------------------------------
(* Bits, shifts and sums of words.                                         *)
LEMMA InSum == ASSUME NEW a, NEW b, NEW x PROVE x \in SymDiff(a, b) <=> ~(x \in a <=> x \in b)
BY DEF SymDiff

(* A sum of words is a word.                                               *)
LEMMA SumWord == ASSUME NEW a \in SUBSET Word, NEW b \in SUBSET Word
                 PROVE  SymDiff(a, b) \in SUBSET Word
BY DEF SymDiff

(* A word reflected, bit by bit; it is a word, and is reflected back.      *)
LEMMA InReflect ==
  ASSUME NEW w, NEW b \in Word
  PROVE  b \in Reflect(w, 32) <=> 31 - b \in w
BY DEF Reflect, Word

LEMMA ReflectWord == ASSUME NEW w PROVE Reflect(w, 32) \in SUBSET Word
BY DEF Reflect, Word

LEMMA ReflectBack == ASSUME NEW w \in SUBSET Word PROVE Reflect(Reflect(w, 32), 32) = w
<1>1. ASSUME NEW b \in Word PROVE b \in Reflect(Reflect(w, 32), 32) <=> b \in w
  <2>1. 31 - b \in Word /\ 31 - (31 - b) = b
    BY DEF Word
  <2>2. QED
    BY <2>1, InReflect
<1>2. QED
  BY <1>1, ReflectWord

(* The reflected sum is the sum of the reflected.                          *)
LEMMA ReflectSum ==
  ASSUME NEW a \in SUBSET Word, NEW b \in SUBSET Word
  PROVE  Reflect(SymDiff(a, b), 32) = SymDiff(Reflect(a, 32), Reflect(b, 32))
<1>1. ASSUME NEW x \in Word
      PROVE  x \in Reflect(SymDiff(a, b), 32) <=> x \in SymDiff(Reflect(a, 32), Reflect(b, 32))
  BY InReflect, InSum
<1>2. SymDiff(Reflect(a, 32), Reflect(b, 32)) \in SUBSET Word
  BY ReflectWord, SumWord
<1>3. QED
  BY <1>1, <1>2, ReflectWord

(* A shift to the left, bit by bit.                                        *)
LEMMA InShl ==
  ASSUME NEW e \in SUBSET Int, NEW n \in Int, NEW x \in Word
  PROVE  x \in Shl(e, n) <=> x - n \in e
BY DEF Shl, Word

(* One shift, bit by bit.                                                  *)
LEMMA InShift ==
  ASSUME NEW e \in SUBSET Word, NEW x
  PROVE  x \in ShiftOne(e) <=>
           /\ x \in Word
           /\ ~(x - 1 \in e <=> 31 \in e /\ x \in ulPolynomial)
<1>1. ulPolynomial \in SUBSET Word
  BY DEF ulPolynomial, Word
<1>2. x \in Shl(e, 1) <=> x \in Word /\ x - 1 \in e
  BY DEF Shl, Word
<1>3. x \in (IF 31 \in e THEN ulPolynomial ELSE {}) <=> 31 \in e /\ x \in ulPolynomial
  OBVIOUS
<1>4. QED
  BY <1>1, <1>2, <1>3, InSum DEF ShiftOne

(* It leaves a word.                                                       *)
LEMMA ShiftWord == ASSUME NEW e \in SUBSET Word PROVE ShiftOne(e) \in SUBSET Word
BY InShift

(* The shift is linear.                                                    *)
LEMMA ShiftSum ==
  ASSUME NEW a \in SUBSET Word, NEW b \in SUBSET Word
  PROVE  ShiftOne(SymDiff(a, b)) = SymDiff(ShiftOne(a), ShiftOne(b))
<1>1. SymDiff(a, b) \in SUBSET Word
  BY SumWord
<1>2. ASSUME NEW x PROVE x \in ShiftOne(SymDiff(a, b)) <=> x \in SymDiff(ShiftOne(a), ShiftOne(b))
  <2>1. x \in ShiftOne(SymDiff(a, b)) <=>
           /\ x \in Word
           /\ ~(x - 1 \in SymDiff(a, b) <=> 31 \in SymDiff(a, b) /\ x \in ulPolynomial)
    BY <1>1, InShift
  <2>2. QED
    BY <2>1, InShift, InSum
<1>3. QED
  BY <1>2

(* Eight of them.                                                          *)
Shift8(e) ==
  ShiftOne(ShiftOne(ShiftOne(ShiftOne(ShiftOne(ShiftOne(ShiftOne(ShiftOne(e))))))))

(* They leave a word, and are linear too.                                  *)
LEMMA Shift8Word == ASSUME NEW e \in SUBSET Word PROVE Shift8(e) \in SUBSET Word
BY ShiftWord DEF Shift8

LEMMA Shift8Sum ==
  ASSUME NEW a \in SUBSET Word, NEW b \in SUBSET Word
  PROVE  Shift8(SymDiff(a, b)) = SymDiff(Shift8(a), Shift8(b))
BY ShiftSum, ShiftWord DEF Shift8

(* A bit that is not lost in eight shifts just moves up.                   *)
LEMMA Shift8Low ==
  ASSUME NEW e \in SUBSET (0..23)
  PROVE  Shift8(e) = Shl(e, 8)
<1> DEFINE Up(k) == {b + k : b \in e}
<1>1. ASSUME NEW k \in 0..7 PROVE ShiftOne(Up(k)) = Up(k + 1)
  <2>1. Up(k) \in SUBSET Word /\ 31 \notin Up(k)
    BY DEF Word
  <2>2. ASSUME NEW x PROVE x \in ShiftOne(Up(k)) <=> x \in Up(k + 1)
    <3>1. x \in ShiftOne(Up(k)) <=> x \in Word /\ x - 1 \in Up(k)
      BY <2>1, InShift
    <3>2. QED
      BY <3>1 DEF Word
  <2>3. QED
    BY <2>2
<1>2. Up(0) = e
  <2>1. \A b \in e : b + 0 = b
    OBVIOUS
  <2>2. QED
    BY <2>1, Zenon
<1>3. Up(8) = Shl(e, 8)
  BY DEF Shl, Word
<1> HIDE DEF Up
<1>4. /\ ShiftOne(Up(0)) = Up(1) /\ ShiftOne(Up(1)) = Up(2) /\ ShiftOne(Up(2)) = Up(3)
      /\ ShiftOne(Up(3)) = Up(4) /\ ShiftOne(Up(4)) = Up(5) /\ ShiftOne(Up(5)) = Up(6)
      /\ ShiftOne(Up(6)) = Up(7) /\ ShiftOne(Up(7)) = Up(8)
  BY <1>1
<1>5. QED
  BY <1>2, <1>3, <1>4 DEF Shift8

(* An entry of the table is made by eight shifts.                          *)
IsEntry(i, f) == f = [j \in 0..8 |-> IF j = 0 THEN Shl(Reflect(i, 8), 24) ELSE ShiftOne(f[j - 1])]

LEMMA ShiftedIsShift8 ==
  ASSUME NEW i
  PROVE  Shifted(i) = Shift8(Shl(Reflect(i, 8), 24))
<1> DEFINE a == Shl(Reflect(i, 8), 24)
           g == [j \in 1..8 |-> [x \in SUBSET Word |-> ShiftOne(x)]]
<1>1. a \in SUBSET Word
  BY DEF Shl
<1>2. g \in [1..8 -> [SUBSET Word -> SUBSET Word]]
  BY ShiftWord
<1>3. PICK f \in [0..8 -> SUBSET Word] : Course(f, a, 8, g)
  <2> HIDE DEF a, g
  <2>1. QED
    BY <1>1, <1>2, CourseExists
<1>4. \A j \in 1..8 : g[j][f[j - 1]] = ShiftOne(f[j - 1])
  OBVIOUS
<1>5. IsEntry(i, f)
  <2> HIDE DEF g
  <2>1. QED
    BY <1>3, <1>4 DEF IsEntry, Course
<1>6. PICK e : e = CHOOSE h : IsEntry(i, h)
  OBVIOUS
<1>7. IsEntry(i, e)
  BY <1>5, <1>6
<1>8. Shifted(i) = e[8]
  BY <1>6 DEF Shifted, IsEntry
<1>9. /\ e[0] = a /\ e[1] = ShiftOne(e[0]) /\ e[2] = ShiftOne(e[1]) /\ e[3] = ShiftOne(e[2])
      /\ e[4] = ShiftOne(e[3]) /\ e[5] = ShiftOne(e[4]) /\ e[6] = ShiftOne(e[5])
      /\ e[7] = ShiftOne(e[6]) /\ e[8] = ShiftOne(e[7])
  BY <1>7 DEF IsEntry
<1>10. QED
  BY <1>8, <1>9, Zenon DEF Shift8

(* One byte is eight shifts of the register it was added to.               *)
LEMMA NextCrcShifts ==
  ASSUME NEW crc \in SUBSET Word, NEW byte \in SUBSET Byte
  PROVE  /\ NextCrc(crc, byte) \in SUBSET Word
         /\ Reflect(NextCrc(crc, byte), 32) = Shift8(Reflect(SymDiff(crc, byte), 32))
<1> DEFINE idx == SymDiff(crc \cap Byte, byte)
           hi == crc \ Byte
<1>1. idx \in SUBSET Byte /\ hi \in SUBSET (8..31)
  BY DEF SymDiff, Byte, Word
<1>2. Byte \subseteq Word /\ 8..31 \subseteq Word
  BY DEF Byte, Word
<1>3. SymDiff(crc, byte) = SymDiff(hi, idx)
  BY <1>2 DEF SymDiff
<1>4. NextCrc(crc, byte) = SymDiff(Shr(crc, 8), crc32_table[idx])
  BY DEF NextCrc
<1> HIDE DEF idx
<1>5. Shift8(Reflect(hi, 32)) = Reflect(Shr(crc, 8), 32)
  <2>1. Reflect(hi, 32) \in SUBSET (0..23)
    BY <1>1 DEF Reflect
  <2>2. ASSUME NEW x \in Word PROVE x \in Shl(Reflect(hi, 32), 8) <=> x \in Reflect(Shr(crc, 8), 32)
    <3>1. x \in Shl(Reflect(hi, 32), 8) <=> x - 8 \in Reflect(hi, 32)
      <4>1. Reflect(hi, 32) \in SUBSET Int
        BY <2>1
      <4>2. QED
        BY <4>1, InShl
    <3>2. x - 8 \in Reflect(hi, 32) <=> 31 - (x - 8) \in hi
      BY <1>1 DEF Reflect, Word
    <3>3. x \in Reflect(Shr(crc, 8), 32) <=> 31 - x \in Shr(crc, 8)
      BY InReflect
    <3>4. 31 - x \in Shr(crc, 8) <=> (31 - x) + 8 \in crc
      BY DEF Shr, Word
    <3>5. 31 - (x - 8) = (31 - x) + 8
      BY DEF Word
    <3>6. (31 - x) + 8 \in crc <=> (31 - x) + 8 \in hi
      BY DEF Word, Byte
    <3>7. QED
      BY <3>1, <3>2, <3>3, <3>4, <3>5, <3>6
  <2>3. Shl(Reflect(hi, 32), 8) \in SUBSET Word /\ Reflect(Shr(crc, 8), 32) \in SUBSET Word
    BY ReflectWord DEF Shl
  <2>4. Shl(Reflect(hi, 32), 8) = Reflect(Shr(crc, 8), 32)
    BY <2>2, <2>3
  <2>5. QED
    BY <2>1, <2>4, Shift8Low
<1>6. Shl(Reflect(idx, 8), 24) = Reflect(idx, 32)
  <2>1. Reflect(idx, 8) \in SUBSET Int
    BY <1>1 DEF Reflect, Byte
  <2>2. ASSUME NEW x \in Word PROVE x \in Shl(Reflect(idx, 8), 24) <=> x \in Reflect(idx, 32)
    <3>1. x \in Shl(Reflect(idx, 8), 24) <=> x - 24 \in Reflect(idx, 8)
      BY <2>1, InShl
    <3>2. x - 24 \in Reflect(idx, 8) <=> 31 - x \in idx
      BY <1>1 DEF Reflect, Byte, Word
    <3>3. QED
      BY <3>1, <3>2, InReflect
  <2>3. Shl(Reflect(idx, 8), 24) \in SUBSET Word
    BY DEF Shl
  <2>4. QED
    BY <2>2, <2>3, ReflectWord
<1>7. crc32_table[idx] \in SUBSET Word /\ Reflect(crc32_table[idx], 32) = Shift8(Reflect(idx, 32))
  <2>1. crc32_table[idx] = Reflect(Shifted(idx), 32)
    BY <1>1 DEF crc32_table
  <2>2. Shifted(idx) = Shift8(Reflect(idx, 32))
    BY <1>6, ShiftedIsShift8
  <2>3. Shifted(idx) \in SUBSET Word
    BY <2>2, ReflectWord, Shift8Word
  <2>4. QED
    BY <2>1, <2>2, <2>3, ReflectWord, ReflectBack
<1>8. Shr(crc, 8) \in SUBSET Word
  BY DEF Shr
<1>9. NextCrc(crc, byte) \in SUBSET Word
  BY <1>4, <1>7, <1>8, SumWord
<1>10. Reflect(NextCrc(crc, byte), 32) = SymDiff(Shift8(Reflect(hi, 32)), Shift8(Reflect(idx, 32)))
  BY <1>4, <1>5, <1>7, <1>8, ReflectSum
<1>11. hi \in SUBSET Word /\ idx \in SUBSET Word
  BY <1>1, <1>2
<1> HIDE DEF hi
<1>12. Shift8(Reflect(SymDiff(crc, byte), 32))
         = SymDiff(Shift8(Reflect(hi, 32)), Shift8(Reflect(idx, 32)))
  <2>1. Reflect(SymDiff(crc, byte), 32) = SymDiff(Reflect(hi, 32), Reflect(idx, 32))
    BY <1>3, <1>11, ReflectSum
  <2>2. Reflect(hi, 32) \in SUBSET Word /\ Reflect(idx, 32) \in SUBSET Word
    BY ReflectWord
  <2>3. QED
    BY <2>1, <2>2, Shift8Sum
<1>13. QED
  BY <1>9, <1>10, <1>12

-----------------------------------------------------------------------------
(* A word as the coefficients from m on of a polynomial.                   *)
At(m, w) == {m + b : b \in w}

(* One step of the division shifts the word at the top, and leaves alone   *)
(* what is left of the message below it.                                   *)
LEMMA ReduceShifts ==
  ASSUME NEW m \in Int, NEW w \in SUBSET Word, NEW t \in SUBSET Int, m + 31 \notin t
  PROVE  Reduce(SymDiff(At(m, w), t), m + 31) = SymDiff(At(m - 1, ShiftOne(w)), t)
<1> DEFINE all == SymDiff(At(m, w), t)
           poly == {m + 31} \cup {(m + 31) - 32 + b : b \in ulPolynomial}
<1>1. ulPolynomial \in SUBSET Word /\ ulPolynomial \in SUBSET (0..30)
  BY DEF ulPolynomial, Word
<1>2. \A x \in Int : x \in At(m, w) <=> x - m \in w
  BY DEF At, Word
<1>3. \A x \in Int : x \in At(m - 1, ShiftOne(w)) <=> x - (m - 1) \in ShiftOne(w)
  BY ShiftWord DEF At, Word
<1>4. \A x \in Int : x \in poly <=> x = m + 31 \/ x - (m - 1) \in ulPolynomial
  BY <1>1 DEF Word
<1>5. all \in SUBSET Int /\ poly \in SUBSET Int
  <2>1. At(m, w) \in SUBSET Int
    BY DEF At, Word
  <2>2. all \in SUBSET Int
    BY <2>1 DEF SymDiff
  <2>3. poly \in SUBSET Int
    BY <1>1 DEF Word
  <2>4. QED
    BY <2>2, <2>3
<1>6. SymDiff(At(m - 1, ShiftOne(w)), t) \in SUBSET Int
  <2>1. ShiftOne(w) \in SUBSET Int
    BY ShiftWord DEF Word
  <2>2. At(m - 1, ShiftOne(w)) \in SUBSET Int
    BY <2>1 DEF At
  <2>3. QED
    BY <2>2 DEF SymDiff
<1>7. m + 31 \in all <=> 31 \in w
  BY <1>2, InSum
<1>8. Reduce(all, m + 31) = IF m + 31 \in all THEN SymDiff(all, poly) ELSE all
  BY DEF Reduce
<1> HIDE DEF all, poly
<1>9. Reduce(all, m + 31) \in SUBSET Int
  BY <1>5, <1>8 DEF SymDiff
<1>10. ASSUME NEW x \in Int
       PROVE  x \in Reduce(all, m + 31) <=> x \in SymDiff(At(m - 1, ShiftOne(w)), t)
  <2>1. x \in all <=> ~(x - m \in w <=> x \in t)
    BY <1>2, InSum DEF all
  <2>2. x \in Reduce(all, m + 31) <=> ~(x \in all <=> 31 \in w /\ x \in poly)
    BY <1>7, <1>8, InSum
  <2>3. x - (m - 1) \in ShiftOne(w) <=>
          /\ x - (m - 1) \in Word
          /\ ~(x - m \in w <=> 31 \in w /\ x - (m - 1) \in ulPolynomial)
    <3>1. (x - (m - 1)) - 1 = x - m
      OBVIOUS
    <3>2. QED
      BY <3>1, InShift
  <2>4. CASE x = m + 31
    <3>1. x - (m - 1) = 32 /\ x - m = 31 /\ 32 \notin Word /\ x \notin t
      BY <2>4 DEF Word
    <3>2. x \notin SymDiff(At(m - 1, ShiftOne(w)), t)
      BY <1>3, <2>3, <3>1, InSum
    <3>3. QED
      BY <1>4, <2>1, <2>2, <3>1, <3>2
  <2>5. CASE x # m + 31
    <3>1. x - m \in w => x - (m - 1) \in Word
      BY <2>5 DEF Word
    <3>2. x - (m - 1) \in ulPolynomial => x - (m - 1) \in Word
      BY <1>1
    <3>3. QED
      BY <1>3, <1>4, <2>1, <2>2, <2>3, <2>5, <3>1, <3>2, InSum
  <2>6. QED
    BY <2>4, <2>5
<1>11. QED
  BY <1>6, <1>9, <1>10 DEF all

-----------------------------------------------------------------------------
(* The registers of Get_CRC(), by the number of bytes it has read, and the *)
(* rests of the division, by the number of coefficients it has taken away. *)
Bodies == Seq(SUBSET Byte)
Size(body) == 8 * Len(body)

IsCrc(body, f) ==
  f = [n \in 0..Len(body) |-> IF n = 0 THEN Word ELSE NextCrc(f[n - 1], body[n])]
IsRest(body, f) ==
  f = [j \in 0..Size(body) |->
        IF j = 0 THEN Dividend(body) ELSE Reduce(f[j - 1], Size(body) + 32 - j)]

(* A body's bytes.                                                         *)
LEMMA BodyTyped ==
  ASSUME NEW body \in Bodies
  PROVE  Len(body) \in Nat /\ Size(body) \in Nat /\ \A n \in 1..Len(body) : body[n] \in SUBSET Byte
BY DEF Bodies, Size

(* The function by which Get_CRC() is defined exists; its values are words.*)
LEMMA CrcCourse ==
  ASSUME NEW body \in Bodies
  PROVE  \E f : /\ IsCrc(body, f) /\ Get_CRC(body) = SymDiff(Word, f[Len(body)])
                /\ \A n \in 0..Len(body) : f[n] \in SUBSET Word
<1> DEFINE g == [n \in 1..Len(body) |-> [x \in SUBSET Word |-> NextCrc(x, body[n])]]
<1>1. g \in [1..Len(body) -> [SUBSET Word -> SUBSET Word]]
  BY BodyTyped, NextCrcShifts
<1>2. PICK f \in [0..Len(body) -> SUBSET Word] : Course(f, Word, Len(body), g)
  <2> HIDE DEF g
  <2>1. Word \in SUBSET Word
    OBVIOUS
  <2>2. QED
    BY <1>1, <2>1, BodyTyped, CourseExists
<1>3. \A n \in 1..Len(body) : g[n][f[n - 1]] = NextCrc(f[n - 1], body[n])
  BY BodyTyped
<1>4. IsCrc(body, f)
  <2> HIDE DEF g
  <2>1. \A n \in 0..Len(body) : n # 0 => n \in 1..Len(body)
    BY BodyTyped
  <2>2. QED
    BY <1>2, <1>3, <2>1 DEF IsCrc, Course
<1>5. PICK e : e = CHOOSE h : IsCrc(body, h)
  OBVIOUS
<1>6. IsCrc(body, e)
  BY <1>4, <1>5
<1>7. Get_CRC(body) = SymDiff(Word, e[Len(body)])
  BY <1>5 DEF Get_CRC, IsCrc
<1> DEFINE X == {n \in 0..Len(body) : e[n] \in SUBSET Word}
<1>8. 0 \in X
  BY <1>6, BodyTyped DEF IsCrc
<1>9. ASSUME NEW n \in 1..Len(body), n - 1 \in X PROVE n \in X
  <2>1. e[n] = NextCrc(e[n - 1], body[n])
    BY <1>6, BodyTyped DEF IsCrc
  <2>2. QED
    BY <1>9, <2>1, BodyTyped, NextCrcShifts
<1> HIDE DEF X
<1>10. \A n \in 0..Len(body) : n \in X
  BY <1>8, <1>9, BodyTyped, BoundedInduction
<1>11. QED
  BY <1>6, <1>7, <1>10 DEF X

(* The division keeps to whole numbers.                                    *)
LEMMA ReduceInt ==
  ASSUME NEW r \in SUBSET Int, NEW top \in Int PROVE Reduce(r, top) \in SUBSET Int
<1>1. {top} \cup {top - 32 + b : b \in ulPolynomial} \in SUBSET Int
  BY DEF ulPolynomial
<1>2. QED
  BY <1>1 DEF Reduce, SymDiff

(* They are at whole numbers.                                              *)
LEMMA CoefficientsInt == ASSUME NEW body \in Bodies PROVE Coefficients(body) \in SUBSET Int
<1>1. ASSUME NEW x \in Coefficients(body) PROVE x \in Int
  <2>1. DOMAIN body = 1..Len(body)
    BY DEF Bodies
  <2>2. PICK i \in 1..Len(body) : \E b \in body[i] : x = 8 * Len(body) + 31 - (8 * (i - 1) + b)
    BY <1>1, <2>1 DEF Coefficients
  <2>3. PICK b \in body[i] : x = 8 * Len(body) + 31 - (8 * (i - 1) + b)
    BY <2>2
  <2>4. b \in Int
    BY BodyTyped DEF Byte
  <2>5. QED
    BY <2>3, <2>4, BodyTyped
<1>2. QED
  BY <1>1

LEMMA DividendInt == ASSUME NEW body \in Bodies PROVE Dividend(body) \in SUBSET Int
BY CoefficientsInt, BodyTyped DEF Dividend, SymDiff

(* The function by which Remainder() is defined exists.                    *)
LEMMA RestCourse ==
  ASSUME NEW body \in Bodies
  PROVE  \E f : /\ IsRest(body, f)
                /\ Remainder(body) = SymDiff(Word, Reflect(f[Size(body)], 32))
                /\ \A j \in 0..Size(body) : f[j] \in SUBSET Int
<1> DEFINE g == [j \in 1..Size(body) |-> [x \in SUBSET Int |-> Reduce(x, Size(body) + 32 - j)]]
<1>1. g \in [1..Size(body) -> [SUBSET Int -> SUBSET Int]]
  BY BodyTyped, ReduceInt
<1>2. PICK f \in [0..Size(body) -> SUBSET Int] : Course(f, Dividend(body), Size(body), g)
  <2> HIDE DEF g
  <2>1. QED
    BY <1>1, BodyTyped, DividendInt, CourseExists
<1>3. \A j \in 1..Size(body) : g[j][f[j - 1]] = Reduce(f[j - 1], Size(body) + 32 - j)
  BY BodyTyped
<1>4. IsRest(body, f)
  <2> HIDE DEF g
  <2>1. \A j \in 0..Size(body) : j # 0 => j \in 1..Size(body)
    BY BodyTyped
  <2>2. QED
    BY <1>2, <1>3, <2>1 DEF IsRest, Course
<1>5. PICK e : e = CHOOSE h : IsRest(body, h)
  OBVIOUS
<1>6. IsRest(body, e)
  BY <1>4, <1>5
<1>7. Remainder(body) = SymDiff(Word, Reflect(e[Size(body)], 32))
  BY <1>5 DEF Remainder, IsRest, Size
<1> DEFINE X == {j \in 0..Size(body) : e[j] \in SUBSET Int}
<1>8. 0 \in X
  BY <1>6, BodyTyped, DividendInt DEF IsRest
<1>9. ASSUME NEW j \in 1..Size(body), j - 1 \in X PROVE j \in X
  <2>1. e[j] = Reduce(e[j - 1], Size(body) + 32 - j)
    BY <1>6, BodyTyped DEF IsRest
  <2>2. QED
    BY <1>9, <2>1, BodyTyped, ReduceInt
<1> HIDE DEF X
<1>10. \A j \in 0..Size(body) : j \in X
  BY <1>8, <1>9, BodyTyped, BoundedInduction
<1>11. QED
  BY <1>6, <1>7, <1>10 DEF X

(* The coefficients of the bytes after the first i.                        *)
Position(body, k, b) == Size(body) + 31 - (8 * (k - 1) + b)
Unread(body, i) ==
  {x \in Int : \E k \in i + 1..Len(body) : \E b \in body[k] : x = Position(body, k, b)}

(* At first all are unread.                                                *)
LEMMA UnreadAll == ASSUME NEW body \in Bodies PROVE Unread(body, 0) = Coefficients(body)
<1>1. DOMAIN body = 0 + 1..Len(body)
  BY BodyTyped DEF Bodies
<1>2. Coefficients(body) \in SUBSET Int
  BY CoefficientsInt
<1>3. ASSUME NEW x \in Int PROVE x \in Unread(body, 0) <=> x \in Coefficients(body)
  BY <1>1 DEF Unread, Position, Size, Coefficients
<1>4. QED
  BY <1>2, <1>3 DEF Unread

(* A word at its place, coefficient by coefficient.                        *)
LEMMA InAt ==
  ASSUME NEW m \in Int, NEW w \in SUBSET Word, NEW x \in Int
  PROVE  x \in At(m, w) <=> x - m \in w
BY DEF At, Word

LEMMA AtInt ==
  ASSUME NEW m \in Int, NEW w \in SUBSET Word
  PROVE  At(m, w) \in SUBSET Int
BY DEF At, Word

(* The next byte's are on top of the others.                               *)
LEMMA UnreadSplit ==
  ASSUME NEW body \in Bodies, NEW i \in Nat, i < Len(body)
  PROVE  Unread(body, i)
           = SymDiff(At(Size(body) - 8 * i, Reflect(body[i + 1], 32)), Unread(body, i + 1))
<1> DEFINE m == Size(body) - 8 * i
<1>1. m \in Int /\ i + 1 \in 1..Len(body) /\ body[i + 1] \in SUBSET Byte
  BY BodyTyped
<1>10. Size(body) \in Int /\ m = Size(body) - 8 * i /\ \A b \in body[i + 1] : b \in 0..7
  BY <1>1, BodyTyped DEF Byte
<1>11. ASSUME NEW b \in body[i + 1] PROVE b \in 0..7 /\ Position(body, i + 1, b) = m + 31 - b
  <2>1. b \in Int /\ b \in 0..7
    BY <1>10
  <2>2. PICK s \in Int : s = Size(body)
    BY <1>10
  <2>3. Position(body, i + 1, b) = s + 31 - (8 * ((i + 1) - 1) + b) /\ m = s - 8 * i
    BY <2>2 DEF Position
  <2> HIDE DEF m
  <2>4. QED
    BY <2>1, <2>3
<1>2. ASSUME NEW x \in Int PROVE x \in At(m, Reflect(body[i + 1], 32)) <=>
                                   \E b \in body[i + 1] : x = Position(body, i + 1, b)
  <2>1. x \in At(m, Reflect(body[i + 1], 32)) <=> x - m \in Reflect(body[i + 1], 32)
    BY <1>1, ReflectWord, InAt
  <2>2. x - m \in Reflect(body[i + 1], 32) <=> \E b \in body[i + 1] : x - m = 31 - b
    BY <1>1 DEF Reflect, Byte
  <2>3. ASSUME NEW b \in body[i + 1]
        PROVE  x - m = 31 - b <=> x = Position(body, i + 1, b)
    <3>1. b \in Int /\ m \in Int /\ Position(body, i + 1, b) = m + 31 - b
      BY <1>1, <1>11
    <3> HIDE DEF m
    <3>2. QED
      BY <3>1
  <2>4. QED
    BY <2>1, <2>2, <2>3
<1>3. ASSUME NEW x \in Int PROVE x \in Unread(body, i) <=>
                                   \/ x \in Unread(body, i + 1)
                                   \/ \E b \in body[i + 1] : x = Position(body, i + 1, b)
  <2>1. i + 1..Len(body) = {i + 1} \cup ((i + 1) + 1..Len(body))
    BY BodyTyped
  <2>2. QED
    BY <2>1 DEF Unread
<1>4. ASSUME NEW x \in Unread(body, i + 1) PROVE x < m + 24
  <2>1. PICK k \in (i + 1) + 1..Len(body) : \E b \in body[k] : x = Position(body, k, b)
    BY <1>4 DEF Unread
  <2>2. PICK b \in body[k] : x = Position(body, k, b)
    BY <2>1
  <2>3. k \in 1..Len(body) /\ k \in Nat /\ b \in Nat /\ k >= i + 2
    BY BodyTyped DEF Byte
  <2>4. QED
    BY <2>2, <2>3, BodyTyped DEF Position
<1>5. ASSUME NEW b \in body[i + 1] PROVE Position(body, i + 1, b) >= m + 24
  <2> HIDE DEF m
  <2>1. QED
    BY <1>1, <1>5, <1>11
<1>6. ASSUME NEW x \in Int PROVE x \in Unread(body, i) <=>
                                   x \in SymDiff(At(m, Reflect(body[i + 1], 32)), Unread(body, i + 1))
  <2>1. x \in Unread(body, i + 1) => x \notin At(m, Reflect(body[i + 1], 32))
    BY <1>1, <1>2, <1>4, <1>5
  <2>2. QED
    BY <1>2, <1>3, <2>1, InSum
<1>7. SymDiff(At(m, Reflect(body[i + 1], 32)), Unread(body, i + 1)) \in SUBSET Int
  <2>1. At(m, Reflect(body[i + 1], 32)) \in SUBSET Int
    BY <1>1, ReflectWord, AtInt
  <2>2. QED
    BY <2>1 DEF SymDiff, Unread
<1>8. Unread(body, i) \in SUBSET Int
  BY DEF Unread
<1>9. QED
  BY <1>6, <1>7, <1>8

(* The bytes after the next are below its 8 coefficients.                  *)
LEMMA UnreadBelow ==
  ASSUME NEW body \in Bodies, NEW i \in Nat, i < Len(body), NEW x \in Unread(body, i + 1)
  PROVE  x < Size(body) - 8 * i + 24
<1>1. PICK k \in (i + 1) + 1..Len(body) : \E b \in body[k] : x = Position(body, k, b)
  BY DEF Unread
<1>2. PICK b \in body[k] : x = Position(body, k, b)
  BY <1>1
<1>3. k \in 1..Len(body) /\ k \in Nat /\ b \in Nat /\ k >= i + 2
  BY BodyTyped DEF Byte
<1>4. QED
  BY <1>2, <1>3, BodyTyped DEF Position

(* A sum at its place is the sum of what is there.                         *)
LEMMA AtSum ==
  ASSUME NEW m \in Int, NEW a \in SUBSET Word, NEW b \in SUBSET Word
  PROVE  At(m, SymDiff(a, b)) = SymDiff(At(m, a), At(m, b))
BY DEF At, SymDiff, Word

LEMMA SumAssociates == ASSUME NEW a, NEW b, NEW c
  PROVE SymDiff(a, SymDiff(b, c)) = SymDiff(SymDiff(a, b), c)
BY DEF SymDiff

(* Eight steps of the division take one byte away.                         *)
LEMMA ByteDivided ==
  ASSUME NEW body \in Bodies, NEW f, IsRest(body, f), NEW i \in Nat, i < Len(body),
         NEW w \in SUBSET Word,
         f[8 * i] = SymDiff(At(Size(body) - 8 * i, w), Unread(body, i + 1))
  PROVE  f[8 * (i + 1)] = SymDiff(At(Size(body) - 8 * (i + 1), Shift8(w)), Unread(body, i + 1))
<1> DEFINE m == Size(body) - 8 * i
           t == Unread(body, i + 1)
           Rest(k, v) == f[8 * i + k] = SymDiff(At(m - k, v), t)
<1>1. m \in Int /\ t \in SUBSET Int
  BY BodyTyped DEF Unread
<1>2. ASSUME NEW k \in 0..7, NEW v \in SUBSET Word, Rest(k, v) PROVE Rest(k + 1, ShiftOne(v))
  <2>1. (m - k) + 31 \notin t
    BY <1>1, UnreadBelow
  <2>2. Reduce(SymDiff(At(m - k, v), t), (m - k) + 31) = SymDiff(At((m - k) - 1, ShiftOne(v)), t)
    BY <1>1, <2>1, ReduceShifts
  <2>3. f[8 * i + (k + 1)] = Reduce(f[8 * i + k], (m - k) + 31)
    <3> DEFINE j == 8 * i + (k + 1)
    <3>1. j \in 0..Size(body) /\ j # 0 /\ j - 1 = 8 * i + k /\ Size(body) + 32 - j = (m - k) + 31
      <4>1. PICK l \in Nat : l = Len(body)
        BY BodyTyped
      <4>2. Size(body) = 8 * l /\ i < l
        BY <4>1 DEF Size
      <4>3. QED
        BY <4>2
    <3> HIDE DEF j
    <3>2. f[j] = Reduce(f[j - 1], Size(body) + 32 - j)
      BY <3>1 DEF IsRest
    <3>3. QED
      BY <3>1, <3>2 DEF j
  <2>4. (m - k) - 1 = m - (k + 1)
    BY <1>1
  <2>5. QED
    BY <1>2, <2>2, <2>3, <2>4
<1>3. Rest(0, w)
  <2>1. 8 * i + 0 = 8 * i /\ m - 0 = m
    BY <1>1
  <2>2. QED
    BY <2>1
<1> HIDE DEF Rest
<1>4. PICK w1 \in SUBSET Word : w1 = ShiftOne(w) /\ Rest(1, w1)
  BY <1>2, <1>3, ShiftWord
<1>5. PICK w2 \in SUBSET Word : w2 = ShiftOne(w1) /\ Rest(2, w2)
  BY <1>2, <1>4, ShiftWord
<1>6. PICK w3 \in SUBSET Word : w3 = ShiftOne(w2) /\ Rest(3, w3)
  BY <1>2, <1>5, ShiftWord
<1>7. PICK w4 \in SUBSET Word : w4 = ShiftOne(w3) /\ Rest(4, w4)
  BY <1>2, <1>6, ShiftWord
<1>8. PICK w5 \in SUBSET Word : w5 = ShiftOne(w4) /\ Rest(5, w5)
  BY <1>2, <1>7, ShiftWord
<1>9. PICK w6 \in SUBSET Word : w6 = ShiftOne(w5) /\ Rest(6, w6)
  BY <1>2, <1>8, ShiftWord
<1>10. PICK w7 \in SUBSET Word : w7 = ShiftOne(w6) /\ Rest(7, w7)
  BY <1>2, <1>9, ShiftWord
<1>11. PICK w8 \in SUBSET Word : w8 = ShiftOne(w7) /\ Rest(8, w8)
  BY <1>2, <1>10, ShiftWord
<1>12. w8 = Shift8(w)
  BY <1>4, <1>5, <1>6, <1>7, <1>8, <1>9, <1>10, <1>11, Zenon DEF Shift8
<1>13. 8 * i + 8 = 8 * (i + 1) /\ m - 8 = Size(body) - 8 * (i + 1)
  BY BodyTyped
<1>14. QED
  BY <1>11, <1>12, <1>13 DEF Rest

(* Get_CRC() is the remainder of the division, whatever the body.          *)
THEOREM CrcIsRemainder == \A body \in Bodies : Get_CRC(body) = Remainder(body)
<1> SUFFICES ASSUME NEW body \in Bodies PROVE Get_CRC(body) = Remainder(body)
  OBVIOUS
<1>1. PICK crc : /\ IsCrc(body, crc) /\ Get_CRC(body) = SymDiff(Word, crc[Len(body)])
                 /\ \A n \in 0..Len(body) : crc[n] \in SUBSET Word
  BY CrcCourse
<1>2. PICK rest : /\ IsRest(body, rest)
                  /\ Remainder(body) = SymDiff(Word, Reflect(rest[Size(body)], 32))
  BY RestCourse
<1> DEFINE Left(i) == SymDiff(At(Size(body) - 8 * i, Reflect(crc[i], 32)), Unread(body, i))
           X == {i \in 0..Len(body) : rest[8 * i] = Left(i)}
<1>3. 0 \in X
  <2>1. Reflect(crc[0], 32) = Word
    <3>1. crc[0] = Word
      BY <1>1, BodyTyped DEF IsCrc
    <3>2. \A b \in Word : b \in Reflect(Word, 32)
      BY InReflect DEF Word
    <3>3. QED
      BY <3>1, <3>2, ReflectWord
  <2>2. At(Size(body), Word) = Size(body)..Size(body) + 31
    <3>1. PICK s \in Int : s = Size(body)
      BY BodyTyped
    <3>2. \A x \in Int : x \in At(s, Word) <=> x \in s..s + 31
      BY InAt DEF Word
    <3>3. At(s, Word) \in SUBSET Int
      BY <3>1, AtInt
    <3>4. At(s, Word) = s..s + 31
      <4>1. s..s + 31 \in SUBSET Int
        OBVIOUS
      <4>2. QED
        BY <3>2, <3>3, <4>1
    <3>5. QED
      BY <3>1, <3>4
  <2>3. rest[0] = Dividend(body)
    BY <1>2, BodyTyped DEF IsRest
  <2>4. Dividend(body) = SymDiff(Coefficients(body), At(Size(body), Word))
    BY <2>2 DEF Dividend, Size
  <2>5. Size(body) - 8 * 0 = Size(body) /\ 8 * 0 = 0
    BY BodyTyped
  <2>6. Left(0) = SymDiff(At(Size(body), Word), Coefficients(body))
    BY <2>1, <2>5, UnreadAll
  <2>7. SymDiff(At(Size(body), Word), Coefficients(body))
          = SymDiff(Coefficients(body), At(Size(body), Word))
    BY DEF SymDiff
  <2>8. QED
    BY <2>3, <2>4, <2>5, <2>6, <2>7, BodyTyped
<1>4. ASSUME NEW n \in 1..Len(body), n - 1 \in X PROVE n \in X
  <2>1. PICK i \in Nat : i = n - 1 /\ n = i + 1 /\ i < Len(body)
    BY BodyTyped
  <2>2. crc[i] \in SUBSET Word /\ body[n] \in SUBSET Byte /\ body[n] \in SUBSET Word
    <3>1. Byte \subseteq Word
      BY DEF Byte, Word
    <3>2. QED
      BY <1>1, <2>1, <3>1, BodyTyped
  <2>3. crc[n] = NextCrc(crc[i], body[n])
    BY <1>1, <2>1, BodyTyped DEF IsCrc
  <2> DEFINE w == Reflect(SymDiff(crc[i], body[n]), 32)
             m == Size(body) - 8 * i
  <2>4. m \in Int /\ w \in SUBSET Word
    BY BodyTyped, ReflectWord
  <2>5. rest[8 * i] = SymDiff(At(m, w), Unread(body, i + 1))
    <3>1. rest[8 * i] = SymDiff(At(m, Reflect(crc[i], 32)), Unread(body, i))
      BY <1>4, <2>1
    <3>2. Unread(body, i) = SymDiff(At(m, Reflect(body[n], 32)), Unread(body, i + 1))
      BY <2>1, UnreadSplit
    <3>3. w = SymDiff(Reflect(crc[i], 32), Reflect(body[n], 32))
      BY <2>2, ReflectSum
    <3>4. At(m, w) = SymDiff(At(m, Reflect(crc[i], 32)), At(m, Reflect(body[n], 32)))
      BY <2>4, <3>3, ReflectWord, AtSum
    <3>5. QED
      BY <3>1, <3>2, <3>4, SumAssociates
  <2>6. rest[8 * (i + 1)] = SymDiff(At(Size(body) - 8 * (i + 1), Shift8(w)), Unread(body, i + 1))
    <3> HIDE DEF w
    <3>1. QED
      BY <1>2, <2>1, <2>4, <2>5, ByteDivided
  <2>7. Shift8(w) = Reflect(crc[n], 32)
    BY <2>2, <2>3, NextCrcShifts
  <2>8. QED
    BY <2>1, <2>6, <2>7, BodyTyped
<1> HIDE DEF X
<1>5. Len(body) \in X
  <2>1. \A n \in 0..Len(body) : n \in X
    BY <1>3, <1>4, BodyTyped, BoundedInduction
  <2>2. QED
    BY <2>1, BodyTyped
<1>6. Reflect(rest[Size(body)], 32) = crc[Len(body)]
  <2> DEFINE c == crc[Len(body)]
  <2>1. c \in SUBSET Word
    BY <1>1, BodyTyped
  <2>2. rest[8 * Len(body)] = Left(Len(body))
    BY <1>5 DEF X
  <2>3. Unread(body, Len(body)) = {}
    BY BodyTyped DEF Unread
  <2>4. Size(body) - 8 * Len(body) = 0 /\ 8 * Len(body) = Size(body)
    BY BodyTyped DEF Size
  <2>5. At(0, Reflect(c, 32)) = Reflect(c, 32)
    <3>1. Reflect(c, 32) \in SUBSET Word
      BY ReflectWord
    <3>2. PICK w \in SUBSET Word : w = Reflect(c, 32)
      BY <3>1
    <3>3. \A b \in w : 0 + b = b
      BY DEF Word
    <3>4. At(0, w) = w
      BY <3>3 DEF At
    <3>5. QED
      BY <3>2, <3>4
  <2>6. rest[Size(body)] = SymDiff(Reflect(c, 32), {})
    BY <2>2, <2>3, <2>4, <2>5
  <2>7. rest[Size(body)] = Reflect(c, 32)
    BY <2>6 DEF SymDiff
  <2>8. QED
    BY <2>1, <2>7, ReflectBack
<1>7. QED
  BY <1>1, <1>2, <1>6

-----------------------------------------------------------------------------
(* Bit b of byte i is damaged on the way from one body to the other; all   *)
(* the damage is in 32 consecutive bits.                                   *)
Damaged(sent, body, i, b) == ~(b \in sent[i] <=> b \in body[i])
InBurst(sent, body, q) ==
  \A i \in 1..Len(sent) : \A b \in Byte :
    Damaged(sent, body, i, b) => 8 * (i - 1) + b \in q..q + 31
ShortDamage(sent, body) == Len(body) = Len(sent) /\ \E q \in Nat : InBurst(sent, body, q)

(* The division is linear.                                                 *)
LEMMA ReduceSum ==
  ASSUME NEW r, NEW s, NEW top
  PROVE  SymDiff(Reduce(r, top), Reduce(s, top)) = Reduce(SymDiff(r, s), top)
<1> DEFINE p == {top} \cup {top - 32 + b : b \in ulPolynomial}
<1>1. \A a : Reduce(a, top) = IF top \in a THEN SymDiff(a, p) ELSE a
  BY DEF Reduce
<1> HIDE DEF p
<1>2. ASSUME NEW x, NEW a PROVE x \in Reduce(a, top) <=> ~(x \in a <=> top \in a /\ x \in p)
  BY <1>1, InSum
<1>3. ASSUME NEW x
      PROVE  x \in SymDiff(Reduce(r, top), Reduce(s, top)) <=> x \in Reduce(SymDiff(r, s), top)
  BY <1>2, InSum
<1>4. QED
  BY <1>3

(* What differs in a window of 32 coefficients still differs when the      *)
(* highest is taken away: the lowest term of the polynomial is 1.          *)
LEMMA WindowMoves ==
  ASSUME NEW lo \in Int, NEW d \in SUBSET (lo..lo + 31), d # {}
  PROVE  Reduce(d, lo + 31) \in SUBSET (lo - 1..lo + 30) /\ Reduce(d, lo + 31) # {}
<1> DEFINE top == lo + 31
           p == {top} \cup {top - 32 + b : b \in ulPolynomial}
<1>1. CASE top \notin d
  <2>1. Reduce(d, top) = d
    BY <1>1 DEF Reduce
  <2>2. ASSUME NEW x \in d PROVE x \in lo - 1..lo + 30
    <3>1. x \in lo..lo + 31 /\ x # lo + 31
      BY <1>1
    <3>2. QED
      BY <3>1
  <2>3. QED
    BY <2>1, <2>2
<1>2. CASE top \in d
  <2>1. ulPolynomial \in SUBSET (0..30) /\ 0 \in ulPolynomial
    BY DEF ulPolynomial
  <2>2. \A x \in p : x = top \/ x \in lo - 1..lo + 29
    BY <2>1
  <2>3. lo - 1 \in p /\ top \in p
    <3>1. lo - 1 = top - 32 + 0
      OBVIOUS
    <3>2. QED
      BY <2>1, <3>1
  <2>4. Reduce(d, top) = SymDiff(d, p)
    BY <1>2 DEF Reduce
  <2> HIDE DEF p
  <2>5. \A x : x \in Reduce(d, top) <=> ~(x \in d <=> x \in p)
    BY <2>4, InSum
  <2>6. lo - 1 \in Reduce(d, top)
    BY <2>3, <2>5
  <2>7. ASSUME NEW x \in Reduce(d, top) PROVE x \in lo - 1..lo + 30
    <3>1. x # top
      BY <1>2, <2>3, <2>5, <2>7
    <3>2. x \in d \/ x \in p
      BY <2>5, <2>7
    <3>3. x \in lo..lo + 31 \/ x \in lo - 1..lo + 29
      BY <2>2, <3>1, <3>2
    <3>4. x # lo + 31
      BY <3>1
    <3>5. QED
      BY <3>3, <3>4
  <2>8. QED
    BY <2>6, <2>7
<1>3. QED
  BY <1>1, <1>2

(* The coefficients of a body are those of its bits.                       *)
LEMMA InCoefficients ==
  ASSUME NEW body \in Bodies, NEW x
  PROVE  x \in Coefficients(body) <=>
           \E i \in 1..Len(body) : \E b \in body[i] : x = Position(body, i, b)
<1>1. DOMAIN body = 1..Len(body)
  BY DEF Bodies
<1>2. QED
  BY <1>1 DEF Coefficients, Position, Size

(* Two bits have two positions.                                            *)
LEMMA PositionOnce ==
  ASSUME NEW body \in Bodies, NEW i \in Nat, NEW j \in Nat, NEW b \in Byte, NEW c \in Byte,
         Position(body, i, b) = Position(body, j, c)
  PROVE  i = j /\ b = c
<1>1. PICK s \in Int : s = Size(body)
  BY BodyTyped
<1>2. s + 31 - (8 * (i - 1) + b) = s + 31 - (8 * (j - 1) + c)
  BY <1>1 DEF Position
<1>3. QED
  BY <1>1, <1>2 DEF Byte

(* The difference of the dividends is where the damage is.                 *)
LEMMA DividendsDiffer ==
  ASSUME NEW sent \in Bodies, NEW body \in Bodies, Len(body) = Len(sent), body # sent,
         NEW q \in Nat, InBurst(sent, body, q)
  PROVE  LET d == SymDiff(Dividend(sent), Dividend(body))
         IN /\ d # {} /\ q < Size(sent)
            /\ d \in SUBSET (Size(sent) - q..Size(sent) - q + 31)
<1> DEFINE d == SymDiff(Dividend(sent), Dividend(body))
           Hit(x) == \E i \in 1..Len(sent) : \E b \in Byte :
                       Damaged(sent, body, i, b) /\ x = Position(sent, i, b)
<1>1. \A i, b : Position(body, i, b) = Position(sent, i, b)
  BY DEF Position, Size
<1>2. ASSUME NEW x PROVE x \in d <=> ~(x \in Coefficients(sent) <=> x \in Coefficients(body))
  <2>1. Dividend(sent) = SymDiff(Coefficients(sent), Size(sent)..Size(sent) + 31)
    BY DEF Dividend, Size
  <2>2. Dividend(body) = SymDiff(Coefficients(body), Size(sent)..Size(sent) + 31)
    BY DEF Dividend, Size
  <2>3. QED
    BY <2>1, <2>2, InSum
<1>3. /\ \A x : x \in Coefficients(sent) <=>
           \E i \in 1..Len(sent) : \E b \in sent[i] : x = Position(sent, i, b)
      /\ \A x : x \in Coefficients(body) <=>
           \E i \in 1..Len(sent) : \E b \in body[i] : x = Position(sent, i, b)
  BY <1>1, InCoefficients
<1>4. \A i \in 1..Len(sent) : i \in Nat /\ sent[i] \in SUBSET Byte /\ body[i] \in SUBSET Byte
  BY BodyTyped
<1>5. ASSUME NEW x \in d PROVE Hit(x)
  BY <1>2, <1>3, <1>4 DEF Damaged
<1>6. \A i \in 1..Len(sent) : \A b \in Byte : \A j \in 1..Len(sent) : \A c \in Byte :
        Position(sent, i, b) = Position(sent, j, c) => i = j /\ b = c
  BY <1>4, PositionOnce
<1>7. ASSUME NEW i \in 1..Len(sent), NEW b \in Byte, Damaged(sent, body, i, b)
      PROVE  Position(sent, i, b) \in d
  <2>1. Position(sent, i, b) \in Coefficients(sent) <=> b \in sent[i]
    BY <1>3, <1>4, <1>6
  <2>2. Position(sent, i, b) \in Coefficients(body) <=> b \in body[i]
    BY <1>3, <1>4, <1>6
  <2>3. QED
    BY <1>2, <1>7, <2>1, <2>2 DEF Damaged
<1>8. PICK i \in 1..Len(sent), b \in Byte : Damaged(sent, body, i, b)
  <2>1. PICK i \in 1..Len(sent) : sent[i] # body[i]
    BY DEF Bodies
  <2>2. QED
    BY <1>4, <2>1 DEF Damaged
<1>9. PICK s \in Nat : s = Size(sent)
  BY BodyTyped
<1>10. ASSUME NEW x \in d PROVE x \in s - q..s - q + 31
  <2>1. PICK j \in 1..Len(sent), c \in Byte : Damaged(sent, body, j, c) /\ x = Position(sent, j, c)
    BY <1>5, <1>10
  <2>2. 8 * (j - 1) + c \in q..q + 31 /\ x = s + 31 - (8 * (j - 1) + c)
    BY <1>9, <2>1 DEF InBurst, Position
  <2>3. QED
    BY <2>2
<1>11. q < s
  <2>1. 8 * (i - 1) + b \in q..q + 31
    BY <1>8 DEF InBurst
  <2>2. PICK l \in Nat : l = Len(sent)
    BY BodyTyped
  <2>3. s = 8 * l /\ i \in 1..l /\ b \in 0..7
    BY <1>9, <2>2 DEF Size, Byte
  <2>4. QED
    BY <2>1, <2>3
<1>12. QED
  BY <1>7, <1>8, <1>9, <1>10, <1>11

(* No damage within 32 consecutive bits leaves the checksum as it was.     *)
THEOREM BurstNoticed ==
  \A sent, body \in Bodies :
    ShortDamage(sent, body) /\ body # sent => Get_CRC(body) # Get_CRC(sent)
<1> SUFFICES ASSUME NEW sent \in Bodies, NEW body \in Bodies, ShortDamage(sent, body), body # sent
             PROVE  Remainder(body) # Remainder(sent)
  BY CrcIsRemainder
<1>1. PICK q \in Nat : InBurst(sent, body, q)
  BY DEF ShortDamage
<1>2. Len(body) = Len(sent) /\ Size(body) = Size(sent)
  BY DEF ShortDamage, Size
<1>3. PICK s \in Nat : s = Size(sent)
  BY BodyTyped
<1>4. PICK e : IsRest(sent, e) /\ Remainder(sent) = SymDiff(Word, Reflect(e[s], 32))
  BY <1>3, RestCourse
<1>5. PICK f : IsRest(body, f) /\ Remainder(body) = SymDiff(Word, Reflect(f[s], 32))
  BY <1>2, <1>3, RestCourse
<1> DEFINE d(j) == SymDiff(e[j], f[j])
           Low(j) == IF j <= q THEN s - q ELSE s - j
           X == {j \in 0..s : d(j) # {} /\ d(j) \in SUBSET (Low(j)..Low(j) + 31)}
<1>6. q < s /\ 0 \in X
  <2>1. e[0] = Dividend(sent) /\ f[0] = Dividend(body)
    BY <1>2, <1>3, <1>4, <1>5 DEF IsRest
  <2>2. d(0) # {} /\ q < s /\ d(0) \in SUBSET (s - q..s - q + 31)
    BY <1>1, <1>2, <1>3, <2>1, DividendsDiffer
  <2>3. QED
    BY <2>2
<1>7. ASSUME NEW n \in 1..s, n - 1 \in X PROVE n \in X
  <2>1. PICK j \in 0..s : j = n - 1 /\ n = j + 1 /\ n # 0 /\ s + 32 - n = s + 31 - j
    OBVIOUS
  <2>2. e[n] = Reduce(e[j], s + 31 - j) /\ f[n] = Reduce(f[j], s + 31 - j)
    BY <1>2, <1>3, <1>4, <1>5, <2>1 DEF IsRest
  <2>3. d(n) = Reduce(d(j), s + 31 - j)
    BY <2>2, ReduceSum
  <2>4. d(j) # {} /\ d(j) \in SUBSET (Low(j)..Low(j) + 31)
    BY <1>7, <2>1
  <2> HIDE DEF d
  <2>5. CASE j < q
    <3>1. Low(j) = s - q /\ Low(n) = s - q
      BY <2>1, <2>5
    <3>2. s + 31 - j \notin d(j)
      BY <2>4, <2>5, <3>1
    <3>3. d(n) = d(j)
      BY <2>3, <3>2 DEF Reduce
    <3>4. QED
      BY <2>4, <3>1, <3>3
  <2>6. CASE j >= q
    <3>1. PICK lo \in Int : lo = Low(j) /\ lo = s - j /\ lo + 31 = s + 31 - j
      BY <2>6
    <3>2. Low(n) = lo - 1 /\ Low(n) + 31 = lo + 30
      BY <2>1, <2>6, <3>1
    <3>3. d(n) \in SUBSET (lo - 1..lo + 30) /\ d(n) # {}
      <4>1. d(j) \in SUBSET (lo..lo + 31)
        BY <2>4, <3>1
      <4>2. QED
        BY <2>3, <2>4, <3>1, <4>1, WindowMoves
    <3> HIDE DEF Low
    <3>4. QED
      BY <3>2, <3>3
  <2>7. QED
    BY <2>1, <2>5, <2>6
<1> HIDE DEF X
<1>8. s \in X
  <2>1. \A n \in 0..s : n \in X
    BY <1>6, <1>7, BoundedInduction
  <2>2. QED
    BY <2>1
<1>9. PICK x \in Word : ~(x \in e[s] <=> x \in f[s])
  <2>1. Low(s) = 0 /\ d(s) # {} /\ d(s) \in SUBSET (Low(s)..Low(s) + 31)
    BY <1>6, <1>8 DEF X
  <2>2. QED
    BY <2>1, InSum DEF Word
<1>10. PICK y \in Word : y = 31 - x /\ x = 31 - y
  BY DEF Word
<1>11. ~(y \in Remainder(sent) <=> y \in Remainder(body))
  BY <1>4, <1>5, <1>9, <1>10, InReflect, InSum
<1>12. QED
  BY <1>11

-----------------------------------------------------------------------------
(* A handler runs for a message that it is for, and replies to no other.   *)
Busy == {"logic", "send", "queue"} \cup After
HandledInv ==
  /\ \A w \in Workers : pc[w] \in Busy => Handled(msgs[job[w]])
  /\ \A m \in replied \cup dropped : Handled(msgs[m])

(* A worker comes to a handler by Accepted(), and stays with its message;  *)
(* it puts its reply on the send queue, or drops it, in the handler.       *)
Comes(w) == job'[w] = job[w] /\ (pc[w] \in Busy \/ (pc[w] = "check" /\ Accepted(w)))
Replies(m) == m \in replied \cup dropped \/ \E w \in Workers : pc[w] \in Busy /\ job[w] = m
Moves ==
  /\ \A w \in Workers : pc'[w] \in Busy => Comes(w)
  /\ \A m \in replied' \cup dropped' : Replies(m)

(* Every step is so.                                                       *)
LEMMA HandlerMoves == Inv /\ [Next]_vars => Moves
<1> SUFFICES ASSUME Inv, [Next]_vars PROVE Moves
  OBVIOUS
<1> USE Distinct DEF poolVars, sendVars, Inv, TypeOK, PlaceInv, Threads, After, Busy, Moves,
                     Comes, Replies
<1>1. ASSUME NEW k \in Kinds, Post(k) PROVE Moves
  BY <1>1 DEF Post
<1>2. ASSUME NEW w \in Workers, Take(w) PROVE Moves
  BY <1>2 DEF Take, Step, Goto
<1>3. ASSUME NEW w \in Workers, Check(w) PROVE Moves
  <2>1. UNCHANGED <<replied, dropped>>
    BY <1>3, Zenon DEF Check
  <2>2. CASE Step(w, "check", "logic") /\ Accepted(w) /\ UNCHANGED poolVars
    BY <2>1, <2>2 DEF Step, Goto
  <2>3. CASE Step(w, "check", "idle") /\ Free(w)
    BY <2>1, <2>3 DEF Step, Goto, Free
  <2>4. QED
    BY <1>3, <2>2, <2>3, Zenon DEF Check
<1>4. ASSUME NEW w \in Workers, LockLogic(w) PROVE Moves
  BY <1>4 DEF LockLogic, Step, Goto, Lock
<1>5. ASSUME NEW w \in Workers, LockSend(w) PROVE Moves
  BY <1>5 DEF LockSend, Step, Goto, Lock
<1>6. ASSUME NEW w \in Workers, ReplyDropped(w) PROVE Moves
  BY <1>6 DEF ReplyDropped, Step, Goto, Unlock
<1>7. ASSUME NEW w \in Workers, ReplyCutsOff(w) PROVE Moves
  BY <1>7 DEF ReplyCutsOff, Step, Goto
<1>8. ASSUME NEW w \in Workers, ReplyQueued(w) PROVE Moves
  BY <1>8 DEF ReplyQueued, Step, Goto, Unlock
<1>9. ASSUME NEW w \in Workers, ReplyReturns(w) PROVE Moves
  BY <1>9 DEF ReplyReturns, Step, Goto, Unlock
<1>10. ASSUME NEW w \in Workers, Return(w) PROVE Moves
  BY <1>10 DEF Return, Step, Goto, Unlock, Free
<1>11. ASSUME NEW t \in Workers \cup {E, T}, DeleteFromTimerQueue(t) PROVE Moves
  BY <1>11 DEF DeleteFromTimerQueue, Step, Goto, Pass
<1>12. ASSUME NEW t \in Workers \cup {E, T}, InRecyConnectQueue(t) PROVE Moves
  BY <1>12 DEF InRecyConnectQueue, Step, Goto, Pass, Start
<1>13. ASSUME NEW c \in Conns, EClose(c) PROVE Moves
  BY <1>13 DEF EClose, Step, Goto
<1>14. CASE TCheck
  BY <1>14 DEF TCheck, TCheckWith, Step, Goto
<1>15. CASE RLock
  BY <1>15 DEF RLock, Step, Goto, Lock
<1>16. CASE RFree
  <2>1. \A w \in Workers : pc'[w] = pc[w]
    BY <1>16 DEF RFree, Goto
  <2>2. UNCHANGED poolVars /\ UNCHANGED sendVars
    BY <1>16, Zenon DEF RFree
  <2>3. QED
    BY <2>1, <2>2
<1>17. CASE SWake
  BY <1>17 DEF SWake, Step, Goto
<1>18. CASE SScan
  BY <1>18 DEF SScan, Step, Goto, Pass
<1>19. CASE UNCHANGED vars
  BY <1>19 DEF vars
<1>20. QED
  BY <1>1, <1>2, <1>3, <1>4, <1>5, <1>6, <1>7, <1>8, <1>9, <1>10, <1>11,
     <1>12, <1>13, <1>14, <1>15, <1>16, <1>17, <1>18, <1>19 DEF Next, WStep,
     CloseStep

(* So a step keeps to the handlers that are meant.                         *)
LEMMA HandledStep == Inv /\ HandledInv /\ [Next]_vars => HandledInv'
<1> SUFFICES ASSUME Inv, HandledInv, [Next]_vars PROVE HandledInv'
  OBVIOUS
<1>1. Moves /\ \A m \in 1..taken : msgs'[m] = msgs[m]
  BY HandlerMoves, MsgsStay DEF Inv
<1>2. ASSUME NEW w \in Workers, pc[w] \in Busy \cup {"check"} PROVE job[w] \in 1..taken
  BY <1>2 DEF Inv, TypeOK, WorkInv, Busy, After
<1>3. ASSUME NEW w \in Workers, pc'[w] \in Busy PROVE Handled(msgs'[job'[w]])
  <2>1. Comes(w)
    BY <1>1, <1>3 DEF Moves
  <2>2. Handled(msgs[job[w]])
    BY <2>1 DEF Comes, HandledInv, Accepted
  <2>3. job'[w] = job[w] /\ msgs'[job[w]] = msgs[job[w]]
    BY <1>1, <1>2, <2>1 DEF Comes
  <2>4. QED
    BY <2>2, <2>3
<1>4. ASSUME NEW m \in replied' \cup dropped' PROVE Handled(msgs'[m])
  <2>1. Replies(m)
    BY <1>1 DEF Moves
  <2>2. CASE m \in replied \cup dropped
    <3>1. m \in 1..taken
      BY <2>2 DEF Inv, TypeOK
    <3>2. QED
      BY <1>1, <2>2, <3>1 DEF HandledInv
  <2>3. CASE \E w \in Workers : pc[w] \in Busy /\ job[w] = m
    BY <1>1, <1>2, <2>3 DEF HandledInv
  <2>4. QED
    BY <2>1, <2>2, <2>3 DEF Replies
<1>5. QED
  BY <1>3, <1>4 DEF HandledInv

(* What SoundAnswered asks of the clients: they use CRC-32 as it is         *)
(* defined, and the network damages a message, if at all, in a burst.      *)
ClientsUseCrc32 ==
  \A k \in Kinds : HasHandler(k) =>
    LET p == Packet[k]
    IN /\ p.crc32 = IF p.sent = <<>> THEN {} ELSE Remainder(p.sent)
       /\ ShortDamage(p.sent, p.body)

(* The server has a message handled exactly when it is as it was sent.     *)
LEMMA DamageNoticed == ASSUME ClientsUseCrc32, NEW k \in Kinds PROVE Handled(k) <=> Sound(k)
<1> SUFFICES ASSUME HasHandler(k) PROVE k \in Intact <=> Packet[k].body = Packet[k].sent
  BY DEF Handled, Sound
<1>1. PICK sent, body : sent = Packet[k].sent /\ body = Packet[k].body
  OBVIOUS
<1>2. sent \in Bodies /\ body \in Bodies
  BY <1>1, DispatchAssumption DEF DispatchAssumption, Bodies
<1>3. Packet[k].crc32 = (IF sent = <<>> THEN {} ELSE Remainder(sent)) /\ ShortDamage(sent, body)
  BY <1>1 DEF ClientsUseCrc32
<1>4. k \in Intact <=> Packet[k].crc32 = IF body = <<>> THEN {} ELSE Get_CRC(body)
  BY <1>1 DEF Intact
<1>5. sent = <<>> <=> body = <<>>
  BY <1>2, <1>3 DEF ShortDamage, Bodies
<1>6. sent # <<>> => (Remainder(sent) = Get_CRC(body) <=> body = sent)
  BY <1>2, <1>3, CrcIsRemainder, BurstNoticed
<1>7. QED
  BY <1>1, <1>3, <1>4, <1>5, <1>6

(* A reply goes to messages that arrived as they were sent, and to no      *)
(* other; and every such message of a client that is still there is        *)
(* answered, or its reply dropped, before it is freed.                     *)
THEOREM OnlySoundAnswered == ClientsUseCrc32 => (Spec => []SoundAnswered)
<1> SUFFICES ASSUME ClientsUseCrc32 PROVE Spec => []SoundAnswered
  OBVIOUS
<1>1. Init => HandledInv
  BY DEF Init, Start, HandledInv, Busy, After, Threads
<1>2. Inv /\ HandledInv => SoundAnswered
  <2>1. \A k \in Kinds : Handled(k) <=> Sound(k)
    BY DamageNoticed
  <2>2. Inv => done \subseteq 1..taken /\ replied \cup dropped \subseteq 1..taken
    BY DEF Inv, TypeOK
  <2>3. Inv => \A m \in 1..taken : msgs[m] \in Kinds
    BY MsgsTyped DEF Inv
  <2>4. QED
    BY <2>1, <2>2, <2>3 DEF HandledInv, SoundAnswered, Inv, ReplyInv, AnsweredOnce
<1>3. QED
  BY <1>1, <1>2, HandledStep, DispatchInvariant, PTL DEF Spec

=============================================================================
