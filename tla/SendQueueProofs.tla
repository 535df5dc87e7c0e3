-------------------------- MODULE SendQueueProofs --------------------------
(***************************************************************************)
(* Theorems about SendQueue, for any number of clients and packages, any   *)
(* sizes and any limits.  BaseInv is inductive by itself; the rest of Inv  *)
(* needs clients that do not close before the server has read what they    *)
(* sent.  Each part has a lemma that says a step preserves it.             *)
(***************************************************************************)
EXTENDS SendQueue, FiniteSetTheorems, FunctionTheorems, SequenceTheorems, TLAPS

Sends == {"send", "free", "clear", "zero", "inc", "arm"}
Holds == {"scan"} \cup Sends
Closed == {"test", "dec", "park"}

(* Who has the mutex where, and who is at work on which connection.        *)
ControlInv ==
  /\ lock = "S" <=> pcS \in Holds
  /\ lock = "W" <=> pcC["W"] \notin {"idle", "dead"}
  /\ lock = "dead" <=> pcS = "dead"
  /\ lock = "dead" <=> pcE = "dead"
  /\ \A k \in Closers : lock = "dead" <=> pcC[k] = "dead"
  /\ pcS \in Sends => cS \in Conns
  /\ pcS \in {"wait", "lock", "scan"} => cS = NoConn
  /\ pcE \notin {"wait", "dead"} => cE \in Conns
  /\ \A k \in Closers : pcC[k] \notin {"idle", "dead"} => cC[k] \in Conns

(* iSendCount of a client is the number of its packages on the queue.      *)
QueuedFor(q, c) == {i \in 1..Len(q) : ConnOf[q[i]] = c}
BaseTypes ==
  /\ queue \in Seq(Msgs) /\ pos \in Nat \ {0} /\ lock \in {"S", "W", "none", "dead"}
  /\ state \in [Conns -> {"live", "parked", "pooled"}] /\ backlog \in [Conns -> Nat]
  /\ pcS \in {"wait", "lock", "scan", "send", "free", "clear", "zero", "inc", "arm", "dead"}
  /\ pcE \in {"wait", "in", "out", "close", "test", "dec", "park", "disarm",
              "free", "clear", "dec2", "post", "dead"}
  /\ pcC \in [Closers -> {"idle", "close", "test", "dec", "park", "dead"}]
  /\ cC \in [Closers -> Conns \cup {NoConn}]
BaseInv == BaseTypes /\ ControlInv /\ BacklogExact

(* A connection that is being parked, or was, has no socket.               *)
ClosedInv ==
  /\ \A c \in Conns : state[c] # "live" => ~fdOpen[c]
  /\ pcE \in Closed => ~fdOpen[cE]
  /\ \A k \in Closers : pcC[k] \in Closed => ~fdOpen[cC[k]]

(* Orderly clients: an event that reports their end has nothing to read,   *)
(* so the connection is closed before its write branch.                    *)
PeerInv ==
  /\ \A c \in Conns : peer[c] # "up" => ~unread[c]
  /\ pcE \notin {"wait", "dead"} /\ "HUP" \in mask => peer[cE] # "up"
  /\ pcE = "out" => "OUT" \in mask
  /\ pcE = "out" /\ "HUP" \in mask => ~fdOpen[cE]

(* Whose turn an unfinished package of an open connection is.              *)
InFlight == "HUP" \notin mask /\ (pcE = "out" \/ (pcE = "in" /\ "OUT" \in mask))
Pending(c) ==
  /\ throw[c] \in {0, 1}
  /\ psend[c] = NoMsg /\ throw[c] = 1 => cE = c /\ pcE = "dec2"
  /\ psend[c] # NoMsg =>
       (throw[c] = 1 /\ armed[c]) \/ cS = c \/ (cE = c /\ pcE \in {"free", "clear"})
  /\ psend[c] # NoMsg /\ throw[c] = 0 => cS = c /\ pcS \in {"send", "free", "clear", "inc"}
  /\ armed[c] => (throw[c] = 1 /\ psend[c] # NoMsg) \/ peer[c] = "gone"
  /\ cS = c =>
       /\ pcS \in {"send", "free", "clear", "inc"} => throw[c] = 0 /\ psend[c] # NoMsg
       /\ pcS = "zero" => throw[c] = 0 /\ psend[c] = NoMsg
       /\ pcS = "arm" => throw[c] = 1 /\ psend[c] # NoMsg
       /\ pcS \in {"inc", "arm"} => ~armed[c]
  /\ cE = c =>
       /\ InFlight \/ pcE \in {"disarm", "free", "clear"} =>
            throw[c] = 1 /\ psend[c] # NoMsg /\ cS # c
       /\ pcE = "dec2" => throw[c] = 1 /\ psend[c] = NoMsg /\ cS # c
       /\ pcE \in {"free", "clear", "dec2"} /\ armed[c] => peer[c] = "gone"
PendInv == pcE # "dead" => \A c \in Conns : fdOpen[c] => Pending(c)

(* A package is on the queue once, or pending, or freed, or its connection *)
(* is closed.                                                              *)
OwnInv ==
  /\ \A i, j \in 1..Len(queue) : queue[i] = queue[j] => i = j
  /\ \A i \in 1..Len(queue) : queue[i] \in posted \ freed
  /\ \A c \in Conns : psend[c] # NoMsg =>
       /\ psend[c] \in posted /\ ConnOf[psend[c]] = c
       /\ \A i \in 1..Len(queue) : queue[i] # psend[c]
  /\ \A m \in posted : fdOpen[ConnOf[m]] =>
       m \in freed \/ InQueue(m) \/ psend[ConnOf[m]] = m

(* On an open connection the pending package is freed exactly between the  *)
(* two statements that free it and clear the pointer.                      *)
ReleaseInv ==
  /\ \A c \in Conns : fdOpen[c] =>
       /\ psend[c] \in freed => Clearing(c)
       /\ pcE # "dead" /\ Clearing(c) => psend[c] \in freed
  /\ \A m \in Msgs : fdOpen[ConnOf[m]] => m \notin twice

(* On a connection that can still be written to, every package but the     *)
(* pending one has been sent whole or not at all.                          *)
Writable(c) == fdOpen[c] /\ peer[c] \notin {"reset", "gone"}
Whole(c) ==
  /\ \A m \in Msgs : m # psend[c] => Units(wire[c], m) \in {0, Size}
  /\ psend[c] # NoMsg =>
       /\ Units(wire[c], psend[c]) = Size - left[c]
       /\ \A i \in 1..Len(wire[c]) : wire[c][i] = psend[c] => wire[c][Len(wire[c])] = psend[c]
WireInv ==
  /\ WireFraming
  /\ \A c \in Conns :
       /\ \A i \in 1..Len(wire[c]) : wire[c][i] \in posted /\ ~InQueue(wire[c][i])
       /\ Writable(c) => Whole(c)
  /\ pcE \in {"disarm", "free", "clear"} => (Writable(cE) => left[cE] = 0)
  /\ pcS \in {"free", "clear"} => (Writable(cS) => left[cS] = 0)

(* The rest of the types.                                                  *)
RestTypes ==
  /\ sem \in Nat /\ fdOpen \in [Conns -> BOOLEAN] /\ armed \in [Conns -> BOOLEAN]
  /\ throw \in [Conns -> Int]
  /\ {cS, cE} \subseteq Conns \cup {NoConn} /\ mask \subseteq {"IN", "OUT", "HUP"}
MemTypes ==
  /\ posted \in SUBSET Msgs /\ freed \in SUBSET posted /\ twice \in SUBSET freed
  /\ psend \in [Conns -> Msgs \cup {NoMsg}]
NetTypes ==
  /\ left \in [Conns -> 0..Size] /\ inbuf \in [Conns -> 0..Room]
  /\ peer \in [Conns -> {"up", "shut", "reset", "gone"}]
  /\ unread \in [Conns -> BOOLEAN] /\ wire \in [Conns -> Seq(Msgs)]

Inv ==
  /\ BaseInv /\ RestTypes /\ MemTypes /\ NetTypes
  /\ ClosedInv /\ PeerInv /\ PendInv /\ OwnInv /\ ReleaseInv /\ WireInv

-----------------------------------------------------------------------------
(* Erase(k) closes the gap: the packages behind the k-th move up.          *)
LEMMA EraseFacts ==
  ASSUME queue \in Seq(Msgs), NEW k \in 1..Len(queue)
  PROVE  /\ Erase(k) \in Seq(Msgs) /\ Len(Erase(k)) = Len(queue) - 1
         /\ \A i \in 1..Len(queue) - 1 :
              Erase(k)[i] = IF i < k THEN queue[i] ELSE queue[i + 1]
<1> DEFINE n == Len(queue)
           front == SubSeq(queue, 1, k - 1)
           back == SubSeq(queue, k + 1, n)
<1>1. n \in Nat /\ k - 1 \in Nat /\ n - k \in Nat /\ \A i \in 1..n : queue[i] \in Msgs
  OBVIOUS
<1>2. /\ front \in Seq(Msgs) /\ Len(front) = k - 1
      /\ \A i \in 1..k - 1 : front[i] = queue[i]
  BY <1>1, SubSeqProperties
<1>3. /\ back \in Seq(Msgs) /\ Len(back) = n - k
      /\ \A i \in 1..n - k : back[i] = queue[k + i]
  <2>1. \A i \in k + 1..n : queue[i] \in Msgs
    BY <1>1
  <2>2. /\ back \in Seq(Msgs) /\ Len(back) = IF k + 1 <= n THEN n - (k + 1) + 1 ELSE 0
        /\ \A i \in 1..n - (k + 1) + 1 : back[i] = queue[k + 1 + i - 1]
    BY <1>1, <2>1, SubSeqProperties
  <2>3. QED
    BY <1>1, <2>2
<1> HIDE DEF front, back
<1>4. /\ front \o back \in Seq(Msgs) /\ Len(front \o back) = n - 1
      /\ \A i \in 1..n - 1 :
           (front \o back)[i] = IF i <= k - 1 THEN front[i] ELSE back[i - (k - 1)]
  <2>1. /\ front \o back \in Seq(Msgs) /\ Len(front \o back) = Len(front) + Len(back)
        /\ \A i \in 1..Len(front) + Len(back) :
             (front \o back)[i] = IF i <= Len(front) THEN front[i] ELSE back[i - Len(front)]
    BY <1>2, <1>3, ConcatProperties
  <2>2. Len(front) + Len(back) = n - 1
    BY <1>1, <1>2, <1>3
  <2>3. QED
    BY <1>2, <2>1, <2>2
<1>5. ASSUME NEW i \in 1..n - 1
      PROVE  (front \o back)[i] = IF i < k THEN queue[i] ELSE queue[i + 1]
  <2>1. CASE i < k
    BY <1>1, <1>2, <1>4, <2>1
  <2>2. CASE ~(i < k)
    <3>1. (front \o back)[i] = back[i - (k - 1)] /\ i - (k - 1) \in 1..n - k
      BY <1>1, <1>4, <2>2
    <3>2. k + (i - (k - 1)) = i + 1
      BY <1>1
    <3>3. QED
      BY <1>3, <2>2, <3>1, <3>2
  <2>3. QED
    BY <2>1, <2>2
<1>6. QED
  BY <1>4, <1>5 DEF Erase, front, back

(* The packages of a client on the queue can be counted: none at first,    *)
LEMMA CountFinite ==
  ASSUME NEW q \in Seq(Msgs), NEW c
  PROVE  IsFiniteSet(QueuedFor(q, c)) /\ Cardinality(QueuedFor(q, c)) \in Nat
<1>1. IsFiniteSet(1..Len(q))
  BY FS_Interval
<1>2. QED
  BY <1>1, FS_Subset, FS_CardinalityType DEF QueuedFor

(* one more when it is appended,                                           *)
LEMMA CountAppend ==
  ASSUME NEW q \in Seq(Msgs), NEW m \in Msgs, NEW c
  PROVE  Cardinality(QueuedFor(Append(q, m), c))
           = Cardinality(QueuedFor(q, c)) + IF ConnOf[m] = c THEN 1 ELSE 0
<1> DEFINE n == Len(q) + 1
<1>1. QueuedFor(Append(q, m), c) = QueuedFor(q, c) \cup (IF ConnOf[m] = c THEN {n} ELSE {})
  BY DEF QueuedFor
<1>2. n \notin QueuedFor(q, c)
  BY DEF QueuedFor
<1>3. CASE ConnOf[m] = c
  BY <1>1, <1>2, <1>3, CountFinite, FS_AddElement, ZenonT(60)
<1>4. CASE ConnOf[m] # c
  BY <1>1, <1>4, CountFinite
<1>5. QED
  BY <1>3, <1>4

(* and one less when it is erased.                                         *)
LEMMA CountErase ==
  ASSUME queue \in Seq(Msgs), NEW k \in 1..Len(queue), NEW c
  PROVE  Cardinality(QueuedFor(Erase(k), c))
           = Cardinality(QueuedFor(queue, c)) - IF ConnOf[queue[k]] = c THEN 1 ELSE 0
<1> DEFINE Old == QueuedFor(queue, c) \ {k}
           New == QueuedFor(Erase(k), c)
           up == [i \in Old |-> IF i < k THEN i ELSE i - 1]
<1>0. /\ Len(queue) \in Nat /\ Len(Erase(k)) = Len(queue) - 1
      /\ \A i \in 1..Len(queue) - 1 :
           Erase(k)[i] = IF i < k THEN queue[i] ELSE queue[i + 1]
  <2>1. Len(queue) \in Nat
    OBVIOUS
  <2>2. QED
    BY <2>1, EraseFacts, Zenon
<1>1. \A i \in Old : up[i] \in New
  <2>1. TAKE i \in Old
  <2>2. i \in 1..Len(queue) /\ i # k /\ ConnOf[queue[i]] = c
    BY <2>1 DEF QueuedFor
  <2>3. CASE i < k
    <3>1. up[i] = i /\ i \in 1..Len(queue) - 1
      BY <1>0, <2>2, <2>3
    <3>2. Erase(k)[i] = queue[i]
      BY <1>0, <2>3, <3>1
    <3>3. QED
      BY <1>0, <2>2, <3>1, <3>2 DEF QueuedFor
  <2>4. CASE ~(i < k)
    <3>1. up[i] = i - 1 /\ i - 1 \in 1..Len(queue) - 1 /\ ~(i - 1 < k)
      BY <1>0, <2>2, <2>4
    <3>2. Erase(k)[i - 1] = queue[i]
      BY <1>0, <2>2, <3>1
    <3>3. QED
      BY <1>0, <2>2, <3>1, <3>2 DEF QueuedFor
  <2>5. QED
    BY <2>3, <2>4
<1>2. \A i, j \in Old : up[i] = up[j] => i = j
  BY DEF QueuedFor
<1>3. ASSUME NEW j \in New PROVE \E i \in Old : up[i] = j
  <2>1. CASE j < k
    <3>1. j \in Old /\ up[j] = j
      BY <1>0, <2>1 DEF QueuedFor
    <3>2. QED
      BY <3>1
  <2>2. CASE ~(j < k)
    <3>1. j + 1 \in Old /\ up[j + 1] = j
      BY <1>0, <2>2 DEF QueuedFor
    <3>2. QED
      BY <3>1
  <2>3. QED
    BY <2>1, <2>2
<1>4. IsFiniteSet(QueuedFor(queue, c)) /\ Cardinality(QueuedFor(queue, c)) \in Nat
  BY CountFinite
<1>5. IsFiniteSet(Old)
  BY <1>4, FS_Subset
<1>6. ExistsBijection(Old, New)
  <2>1. up \in [Old -> New]
    BY <1>1
  <2> HIDE DEF up, Old, New
  <2>2. up \in Bijection(Old, New)
    BY <1>2, <1>3, <2>1, Zenon DEF Bijection, Injection, Surjection, IsInjective
  <2>3. QED
    BY <2>2 DEF ExistsBijection
<1>7. Cardinality(New) = Cardinality(Old)
  <2> HIDE DEF Old, New
  <2>1. QED
    BY <1>5, <1>6, FS_Bijection
<1>8. k \in QueuedFor(queue, c) <=> ConnOf[queue[k]] = c
  BY DEF QueuedFor
<1>9. Cardinality(Old) = IF k \in QueuedFor(queue, c) THEN Cardinality(QueuedFor(queue, c)) - 1
                         ELSE Cardinality(QueuedFor(queue, c))
  <2> HIDE DEF QueuedFor
  <2>1. QED
    BY <1>4, FS_RemoveElement
<1>10. QED
  BY <1>4, <1>7, <1>8, <1>9

-----------------------------------------------------------------------------
(* The types of the queue and of the program counters.                     *)
LEMMA BaseTypesStep == BaseInv /\ [Next]_vars => BaseTypes'
<1> SUFFICES ASSUME BaseInv, [Next]_vars PROVE BaseTypes'
  OBVIOUS
<1> USE DEF BaseInv, BaseTypes, ControlInv
<1>1. ASSUME NEW m \in Msgs, MsgDropped(m) PROVE BaseTypes'
  BY <1>1, SendAssumption DEF SendAssumption, MsgDropped, Post, connVars, envVars, sVars,
     eVars, cVars
<1>2. ASSUME NEW m \in Msgs, MsgCutsOff(m) PROVE BaseTypes'
  BY <1>2, SendAssumption DEF SendAssumption, MsgCutsOff, CloseBegin, Post, connVars,
     envVars, sVars, eVars, cVars
<1>3. ASSUME NEW m \in Msgs, MsgQueued(m) PROVE BaseTypes'
  BY <1>3, SendAssumption DEF SendAssumption, MsgQueued, Post, connVars, envVars, sVars,
     eVars, cVars
<1>4. ASSUME NEW k \in Closers, KCloses(k) PROVE BaseTypes'
  BY <1>4, ZenonT(60) DEF KCloses, KClose, KStep, CloseFd, ThrowOff, Park, connVars,
     envVars, sVars, eVars, cVars
<1>5. ASSUME SemWait PROVE BaseTypes'
  BY <1>5 DEF SemWait, SemReturns, connVars, envVars, sVars, eVars, cVars
<1>6. ASSUME SemInterrupted PROVE BaseTypes'
  BY <1>6 DEF SemInterrupted, SemReturns, connVars, envVars, sVars, eVars, cVars
<1>7. ASSUME ScanBegin PROVE BaseTypes'
  BY <1>7 DEF ScanBegin, connVars, envVars, sVars, eVars, cVars
<1>8. ASSUME ScanEnd PROVE BaseTypes'
  BY <1>8 DEF ScanEnd, connVars, envVars, sVars, eVars, cVars
<1>9. ASSUME ScanStale PROVE BaseTypes'
  <2>1. pos \in 1..Len(queue)
    BY <1>9 DEF ScanStale
  <2>2. Erase(pos) \in Seq(Msgs)
    BY <2>1, EraseFacts
  <2>3. QED
    BY <1>9, <2>2, Zenon DEF ScanStale, sVars, connVars, eVars, cVars
<1>10. ASSUME ScanSkip PROVE BaseTypes'
  BY <1>10 DEF ScanSkip, connVars, envVars, sVars, eVars, cVars
<1>11. ASSUME ScanTake PROVE BaseTypes'
  <2>1. pos \in 1..Len(queue) /\ queue[pos] \in Msgs
    BY <1>11 DEF ScanTake, TakePackage
  <2>2. Erase(pos) \in Seq(Msgs) /\ ConnOf[queue[pos]] \in Conns
    BY <2>1, EraseFacts, SendAssumption DEF SendAssumption
  <2>3. state[ConnOf[queue[pos]]] = "live" /\ throw[ConnOf[queue[pos]]] <= 0
    BY <1>11 DEF ScanTake, TakePackage, Unpending
  <2>4. pos \in QueuedFor(queue, ConnOf[queue[pos]])
    BY <2>1 DEF QueuedFor
  <2>5. backlog[ConnOf[queue[pos]]] # 0
    <3> DEFINE c == ConnOf[queue[pos]]
    <3>1. backlog[c] = Cardinality(QueuedFor(queue, c))
      BY <2>2, <2>3 DEF BacklogExact, QueuedFor
    <3>2. IsFiniteSet(QueuedFor(queue, c)) /\ QueuedFor(queue, c) # {}
      BY <2>4, CountFinite
    <3>3. QED
      BY <3>1, <3>2, FS_EmptySet
  <2>6. backlog' \in [Conns -> Nat]
    <3>1. backlog' = [backlog EXCEPT ![ConnOf[queue[pos]]] = @ - 1]
      BY <1>11 DEF ScanTake, TakePackage
    <3>2. QED
      BY <2>2, <2>5, <3>1
  <2>7. QED
    BY <1>11, <2>2, <2>6, Zenon DEF ScanTake, TakePackage, eVars, cVars
<1>12. ASSUME SSend PROVE BaseTypes'
  BY <1>12 DEF SSend, TakeOff, Transmit, connVars, envVars, sVars, eVars, cVars
<1>13. ASSUME SFree PROVE BaseTypes'
  BY <1>13 DEF SFree, FreePsend, connVars, envVars, sVars, eVars, cVars
<1>14. ASSUME SClear PROVE BaseTypes'
  BY <1>14 DEF SClear, connVars, envVars, sVars, eVars, cVars
<1>15. ASSUME SZero PROVE BaseTypes'
  BY <1>15 DEF SZero, connVars, envVars, sVars, eVars, cVars
<1>16. ASSUME SThrow PROVE BaseTypes'
  BY <1>16 DEF SThrow, connVars, envVars, sVars, eVars, cVars
<1>17. ASSUME SArm PROVE BaseTypes'
  BY <1>17 DEF SArm, connVars, envVars, sVars, eVars, cVars
<1>18. ASSUME ERead PROVE BaseTypes'
  BY <1>18 DEF ERead, EDone, AfterIn, connVars, envVars, sVars, eVars, cVars
<1>19. ASSUME ECloses PROVE BaseTypes'
  BY <1>19 DEF ECloses, EClose, CloseFd, ThrowOff, Park, EDone, AfterIn, connVars,
     envVars, sVars, eVars, cVars
<1>20. ASSUME EOutHup PROVE BaseTypes'
  BY <1>20 DEF EOutHup, ThrowOff, EDone, connVars, envVars, sVars, eVars, cVars
<1>21. ASSUME EWrite PROVE BaseTypes'
  BY <1>21 DEF EWrite, WriteOn, TakeOff, Transmit, EDone, connVars, envVars, sVars, eVars,
     cVars
<1>22. ASSUME EDisarm PROVE BaseTypes'
  BY <1>22 DEF EDisarm, EDone, connVars, envVars, sVars, eVars, cVars
<1>23. ASSUME EFree PROVE BaseTypes'
  BY <1>23 DEF EFree, FreePsend, EDone, connVars, envVars, sVars, eVars, cVars
<1>24. ASSUME EClear PROVE BaseTypes'
  BY <1>24 DEF EClear, EDone, connVars, envVars, sVars, eVars, cVars
<1>25. ASSUME EThrow PROVE BaseTypes'
  BY <1>25 DEF EThrow, ThrowOff, EDone, connVars, envVars, sVars, eVars, cVars
<1>26. ASSUME EPost PROVE BaseTypes'
  BY <1>26 DEF EPost, EDone, connVars, envVars, sVars, eVars, cVars
<1>27. ASSUME SigPipe PROVE BaseTypes'
  BY <1>27 DEF SigPipe, connVars, envVars, sVars, eVars, cVars
<1>28. ASSUME NEW c \in Conns, EpollWait(c) PROVE BaseTypes'
  BY <1>28 DEF EpollWait, connVars, envVars, sVars, eVars, cVars
<1>29. ASSUME NEW c \in Conns, TimeOut(c) PROVE BaseTypes'
  BY <1>29 DEF TimeOut, CloseBegin, connVars, envVars, sVars, eVars, cVars
<1>30. ASSUME NEW c \in Conns, Pool(c) PROVE BaseTypes'
  BY <1>30 DEF Pool, FreePsend, connVars, envVars, sVars, eVars, cVars
<1>31. ASSUME NEW c \in Conns, ClientReads(c) PROVE BaseTypes'
  BY <1>31 DEF ClientReads, connVars, envVars, sVars, eVars, cVars
<1>32. ASSUME NEW c \in Conns, ClientSends(c) PROVE BaseTypes'
  BY <1>32 DEF ClientSends, connVars, envVars, sVars, eVars, cVars
<1>33. ASSUME NEW c \in Conns, ClientCloses(c) PROVE BaseTypes'
  BY <1>33 DEF ClientCloses, connVars, envVars, sVars, eVars, cVars
<1>34. ASSUME NEW c \in Conns, ClientResets(c) PROVE BaseTypes'
  BY <1>34 DEF ClientResets, connVars, envVars, sVars, eVars, cVars
<1>35. ASSUME UNCHANGED vars PROVE BaseTypes'
  BY <1>35 DEF vars, connVars, envVars, sVars, eVars, cVars, connVars, envVars, sVars,
     eVars, cVars
<1>36. QED
  BY <1>1, <1>2, <1>3, <1>4, <1>5, <1>6, <1>7, <1>8, <1>9, <1>10, <1>11, <1>12, <1>13,
     <1>14, <1>15, <1>16, <1>17, <1>18, <1>19, <1>20, <1>21, <1>22, <1>23, <1>24, <1>25,
     <1>26, <1>27, <1>28, <1>29, <1>30, <1>31, <1>32, <1>33, <1>34, <1>35 DEF Next, SStep,
     EStep, Closers

(* Who has the mutex stays where it is held.                               *)
LEMMA ControlStep == BaseInv /\ [Next]_vars => ControlInv'
<1> SUFFICES ASSUME BaseInv, [Next]_vars PROVE ControlInv'
  OBVIOUS
<1>0. /\ pcC \in [Closers -> {"idle", "close", "test", "dec", "park", "dead"}]
      /\ cC \in [Closers -> Conns \cup {NoConn}] /\ ConnOf \in [Msgs -> Conns]
      /\ queue \in Seq(Msgs) /\ pos \in Nat \ {0}
  BY SendAssumption DEF BaseInv, BaseTypes, SendAssumption
<1>1. ASSUME NEW m \in Msgs, MsgDropped(m) PROVE ControlInv'
  BY <1>1, <1>0 DEF MsgDropped, Post, ControlInv, BaseInv, Holds, Sends, connVars,
     envVars, sVars, eVars, cVars, Closers
<1>2. ASSUME NEW m \in Msgs, MsgCutsOff(m) PROVE ControlInv'
  BY <1>2, <1>0 DEF MsgCutsOff, CloseBegin, Post, ControlInv, BaseInv, Holds, Sends,
     connVars, envVars, sVars, eVars, cVars, Closers
<1>3. ASSUME NEW m \in Msgs, MsgQueued(m) PROVE ControlInv'
  BY <1>3, <1>0 DEF MsgQueued, Post, ControlInv, BaseInv, Holds, Sends, connVars, envVars,
     sVars, eVars, cVars, Closers
<1>4. ASSUME NEW k \in Closers, KCloses(k) PROVE ControlInv'
  BY <1>0, <1>4 DEF KCloses, KClose, KStep, ControlInv, BaseInv, Holds, Sends, Closers,
     sVars, eVars
<1>5. ASSUME SemWait PROVE ControlInv'
  BY <1>5, <1>0 DEF SemWait, SemReturns, ControlInv, BaseInv, Holds, Sends, connVars,
     envVars, sVars, eVars, cVars, Closers
<1>6. ASSUME SemInterrupted PROVE ControlInv'
  BY <1>6, <1>0 DEF SemInterrupted, SemReturns, ControlInv, BaseInv, Holds, Sends,
     connVars, envVars, sVars, eVars, cVars, Closers
<1>7. ASSUME ScanBegin PROVE ControlInv'
  BY <1>7, <1>0 DEF ScanBegin, ControlInv, BaseInv, Holds, Sends, connVars, envVars,
     sVars, eVars, cVars, Closers
<1>8. ASSUME ScanEnd PROVE ControlInv'
  BY <1>8, <1>0 DEF ScanEnd, ControlInv, BaseInv, Holds, Sends, connVars, envVars, sVars,
     eVars, cVars, Closers
<1>9. ASSUME ScanStale PROVE ControlInv'
  BY <1>9, <1>0 DEF ScanStale, ControlInv, BaseInv, Holds, Sends, connVars, envVars,
     sVars, eVars, cVars, Closers
<1>10. ASSUME ScanSkip PROVE ControlInv'
  BY <1>10, <1>0 DEF ScanSkip, ControlInv, BaseInv, Holds, Sends, connVars, envVars,
     sVars, eVars, cVars, Closers
<1>11. ASSUME ScanTake PROVE ControlInv'
  BY <1>11, <1>0 DEF ScanTake, TakePackage, Unpending, ControlInv, BaseInv, Holds, Sends,
     connVars, envVars, sVars, eVars, cVars, Closers
<1>12. ASSUME SSend PROVE ControlInv'
  BY <1>12, <1>0 DEF SSend, TakeOff, Transmit, ControlInv, BaseInv, Holds, Sends,
     connVars, envVars, sVars, eVars, cVars, Closers
<1>13. ASSUME SFree PROVE ControlInv'
  BY <1>13, <1>0 DEF SFree, FreePsend, ControlInv, BaseInv, Holds, Sends, connVars,
     envVars, sVars,
     eVars, cVars, Closers
<1>14. ASSUME SClear PROVE ControlInv'
  BY <1>14, <1>0 DEF SClear, ControlInv, BaseInv, Holds, Sends, connVars, envVars, sVars,
     eVars, cVars, Closers
<1>15. ASSUME SZero PROVE ControlInv'
  BY <1>15, <1>0 DEF SZero, ControlInv, BaseInv, Holds, Sends, connVars, envVars, sVars,
     eVars, cVars, Closers
<1>16. ASSUME SThrow PROVE ControlInv'
  BY <1>16, <1>0 DEF SThrow, ControlInv, BaseInv, Holds, Sends, connVars, envVars, sVars,
     eVars, cVars, Closers
<1>17. ASSUME SArm PROVE ControlInv'
  BY <1>17, <1>0 DEF SArm, ControlInv, BaseInv, Holds, Sends, connVars, envVars, sVars,
     eVars, cVars, Closers
<1>18. ASSUME ERead PROVE ControlInv'
  BY <1>18, <1>0 DEF ERead, EDone, AfterIn, ControlInv, BaseInv, Holds, Sends, connVars,
     envVars, sVars, eVars, cVars, Closers
<1>19. ASSUME ECloses PROVE ControlInv'
  BY <1>19, <1>0 DEF ECloses, EClose, CloseFd, ThrowOff, Park, EDone, AfterIn, ControlInv,
     BaseInv, Holds, Sends, connVars, envVars, sVars, eVars, cVars, Closers
<1>20. ASSUME EOutHup PROVE ControlInv'
  BY <1>20, <1>0 DEF EOutHup, ThrowOff, EDone, ControlInv, BaseInv, Holds, Sends,
     connVars, envVars, sVars, eVars, cVars, Closers
<1>21. ASSUME EWrite PROVE ControlInv'
  BY <1>21, <1>0 DEF EWrite, WriteOn, TakeOff, Transmit, EDone, ControlInv, BaseInv,
     Holds, Sends,
     connVars, envVars, sVars, eVars, cVars, Closers
<1>22. ASSUME EDisarm PROVE ControlInv'
  BY <1>22, <1>0 DEF EDisarm, EDone, ControlInv, BaseInv, Holds, Sends, connVars, envVars,
     sVars, eVars, cVars, Closers
<1>23. ASSUME EFree PROVE ControlInv'
  BY <1>23, <1>0 DEF EFree, FreePsend, EDone, ControlInv, BaseInv, Holds, Sends, connVars,
     envVars, sVars, eVars, cVars, Closers
<1>24. ASSUME EClear PROVE ControlInv'
  BY <1>24, <1>0 DEF EClear, EDone, ControlInv, BaseInv, Holds, Sends, connVars,
     envVars, sVars, eVars, cVars, Closers
<1>25. ASSUME EThrow PROVE ControlInv'
  BY <1>25, <1>0 DEF EThrow, ThrowOff, EDone, ControlInv, BaseInv, Holds, Sends, connVars,
     envVars, sVars, eVars, cVars, Closers
<1>26. ASSUME EPost PROVE ControlInv'
  BY <1>26, <1>0 DEF EPost, EDone, ControlInv, BaseInv, Holds, Sends, connVars, envVars,
     sVars, eVars, cVars, Closers
<1>27. ASSUME SigPipe PROVE ControlInv'
  BY <1>27, <1>0 DEF SigPipe, ControlInv, BaseInv, Holds, Sends, connVars, envVars, sVars,
     eVars, cVars, Closers
<1>28. ASSUME NEW c \in Conns, EpollWait(c) PROVE ControlInv'
  BY <1>28, <1>0 DEF EpollWait, ControlInv, BaseInv, Holds, Sends, connVars, envVars,
     sVars, eVars, cVars, Closers
<1>29. ASSUME NEW c \in Conns, TimeOut(c) PROVE ControlInv'
  BY <1>29, <1>0 DEF TimeOut, CloseBegin, ControlInv, BaseInv, Holds, Sends, connVars,
     envVars, sVars, eVars, cVars, Closers
<1>30. ASSUME NEW c \in Conns, Pool(c) PROVE ControlInv'
  BY <1>30, <1>0 DEF Pool, FreePsend, ControlInv, BaseInv, Holds, Sends, connVars,
     envVars, sVars, eVars, cVars, Closers
<1>31. ASSUME NEW c \in Conns, ClientReads(c) PROVE ControlInv'
  BY <1>31, <1>0 DEF ClientReads, ControlInv, BaseInv, Holds, Sends, connVars, envVars,
     sVars, eVars, cVars, Closers
<1>32. ASSUME NEW c \in Conns, ClientSends(c) PROVE ControlInv'
  BY <1>32, <1>0 DEF ClientSends, ControlInv, BaseInv, Holds, Sends, connVars, envVars,
     sVars, eVars, cVars, Closers
<1>33. ASSUME NEW c \in Conns, ClientCloses(c) PROVE ControlInv'
  BY <1>33, <1>0 DEF ClientCloses, ControlInv, BaseInv, Holds, Sends, connVars, envVars,
     sVars, eVars, cVars, Closers
<1>34. ASSUME NEW c \in Conns, ClientResets(c) PROVE ControlInv'
  BY <1>34, <1>0 DEF ClientResets, ControlInv, BaseInv, Holds, Sends, connVars, envVars,
     sVars, eVars, cVars, Closers
<1>35. ASSUME UNCHANGED vars PROVE ControlInv'
  BY <1>35 DEF vars, connVars, envVars, sVars, eVars, cVars, ControlInv, BaseInv, Holds,
     Sends, connVars, envVars, sVars, eVars, cVars, Closers
<1>36. QED
  BY <1>1, <1>2, <1>3, <1>4, <1>5, <1>6, <1>7, <1>8, <1>9, <1>10, <1>11, <1>12, <1>13,
     <1>14, <1>15, <1>16, <1>17, <1>18, <1>19, <1>20, <1>21, <1>22, <1>23, <1>24, <1>25,
     <1>26, <1>27, <1>28, <1>29, <1>30, <1>31, <1>32, <1>33, <1>34, <1>35 DEF Next, SStep,
     EStep, Closers

(* Steps that leave the queue and the counts of packages on it alone.      *)
Quiet ==
  /\ UNCHANGED <<queue, backlog>>
  /\ \A c \in Conns : state'[c] = "live" => state[c] = "live"

(* All steps but the three that put a package on the queue or take one off.*)
LEMMA QuietSteps ==
  ASSUME state \in [Conns -> {"live", "parked", "pooled"}], [Next]_vars
  PROVE  Quiet \/ (\E n \in Msgs : MsgQueued(n)) \/ ScanStale \/ ScanTake
<1>1. ASSUME NEW m \in Msgs, MsgDropped(m) PROVE Quiet \/ (\E n \in Msgs : MsgQueued(n)) \/ ScanStale \/ ScanTake
  BY <1>1 DEF MsgDropped, Post, Quiet, connVars, envVars, sVars, eVars, cVars
<1>2. ASSUME NEW m \in Msgs, MsgCutsOff(m) PROVE Quiet \/ (\E n \in Msgs : MsgQueued(n)) \/ ScanStale \/ ScanTake
  BY <1>2 DEF MsgCutsOff, CloseBegin, Post, Quiet, connVars, envVars, sVars, eVars, cVars
<1>3. ASSUME NEW m \in Msgs, MsgQueued(m) PROVE Quiet \/ (\E n \in Msgs : MsgQueued(n)) \/ ScanStale \/ ScanTake
  BY <1>3
<1>4. ASSUME NEW k \in Closers, KCloses(k) PROVE Quiet \/ (\E n \in Msgs : MsgQueued(n)) \/ ScanStale \/ ScanTake
  BY <1>4 DEF KCloses, KClose, KStep, CloseFd, ThrowOff, Park, Quiet, connVars, envVars,
     sVars, eVars, cVars
<1>5. ASSUME SemWait PROVE Quiet \/ (\E n \in Msgs : MsgQueued(n)) \/ ScanStale \/ ScanTake
  BY <1>5 DEF SemWait, SemReturns, Quiet, connVars, envVars, sVars, eVars, cVars
<1>6. ASSUME SemInterrupted PROVE Quiet \/ (\E n \in Msgs : MsgQueued(n)) \/ ScanStale \/ ScanTake
  BY <1>6 DEF SemInterrupted, SemReturns, Quiet, connVars, envVars, sVars, eVars, cVars
<1>7. ASSUME ScanBegin PROVE Quiet \/ (\E n \in Msgs : MsgQueued(n)) \/ ScanStale \/ ScanTake
  BY <1>7 DEF ScanBegin, Quiet, connVars, envVars, sVars, eVars, cVars
<1>8. ASSUME ScanEnd PROVE Quiet \/ (\E n \in Msgs : MsgQueued(n)) \/ ScanStale \/ ScanTake
  BY <1>8 DEF ScanEnd, Quiet, connVars, envVars, sVars, eVars, cVars
<1>9. ASSUME ScanStale PROVE Quiet \/ (\E n \in Msgs : MsgQueued(n)) \/ ScanStale \/ ScanTake
  BY <1>9
<1>10. ASSUME ScanSkip PROVE Quiet \/ (\E n \in Msgs : MsgQueued(n)) \/ ScanStale \/ ScanTake
  BY <1>10 DEF ScanSkip, Quiet, connVars, envVars, sVars, eVars, cVars
<1>11. ASSUME ScanTake PROVE Quiet \/ (\E n \in Msgs : MsgQueued(n)) \/ ScanStale \/ ScanTake
  BY <1>11
<1>12. ASSUME SSend PROVE Quiet \/ (\E n \in Msgs : MsgQueued(n)) \/ ScanStale \/ ScanTake
  BY <1>12 DEF SSend, TakeOff, Transmit, Quiet, connVars, envVars, sVars, eVars, cVars
<1>13. ASSUME SFree PROVE Quiet \/ (\E n \in Msgs : MsgQueued(n)) \/ ScanStale \/ ScanTake
  BY <1>13 DEF SFree, FreePsend, Quiet, connVars, envVars, sVars, eVars, cVars
<1>14. ASSUME SClear PROVE Quiet \/ (\E n \in Msgs : MsgQueued(n)) \/ ScanStale \/ ScanTake
  BY <1>14 DEF SClear, Quiet, connVars, envVars, sVars, eVars, cVars
<1>15. ASSUME SZero PROVE Quiet \/ (\E n \in Msgs : MsgQueued(n)) \/ ScanStale \/ ScanTake
  BY <1>15 DEF SZero, Quiet, connVars, envVars, sVars, eVars, cVars
<1>16. ASSUME SThrow PROVE Quiet \/ (\E n \in Msgs : MsgQueued(n)) \/ ScanStale \/ ScanTake
  BY <1>16 DEF SThrow, Quiet, connVars, envVars, sVars, eVars, cVars
<1>17. ASSUME SArm PROVE Quiet \/ (\E n \in Msgs : MsgQueued(n)) \/ ScanStale \/ ScanTake
  BY <1>17 DEF SArm, Quiet, connVars, envVars, sVars, eVars, cVars
<1>18. ASSUME ERead PROVE Quiet \/ (\E n \in Msgs : MsgQueued(n)) \/ ScanStale \/ ScanTake
  BY <1>18 DEF ERead, EDone, AfterIn, Quiet, connVars, envVars, sVars, eVars, cVars
<1>19. ASSUME ECloses PROVE Quiet \/ (\E n \in Msgs : MsgQueued(n)) \/ ScanStale \/ ScanTake
  BY <1>19 DEF ECloses, EClose, CloseFd, ThrowOff, Park, EDone, AfterIn, Quiet, connVars,
     envVars, sVars, eVars, cVars
<1>20. ASSUME EOutHup PROVE Quiet \/ (\E n \in Msgs : MsgQueued(n)) \/ ScanStale \/ ScanTake
  BY <1>20 DEF EOutHup, ThrowOff, EDone, Quiet, connVars, envVars, sVars, eVars, cVars
<1>21. ASSUME EWrite PROVE Quiet \/ (\E n \in Msgs : MsgQueued(n)) \/ ScanStale \/ ScanTake
  BY <1>21 DEF EWrite, WriteOn, TakeOff, Transmit, EDone, Quiet, connVars, envVars, sVars,
     eVars,
     cVars
<1>22. ASSUME EDisarm PROVE Quiet \/ (\E n \in Msgs : MsgQueued(n)) \/ ScanStale \/ ScanTake
  BY <1>22 DEF EDisarm, EDone, Quiet, connVars, envVars, sVars, eVars, cVars
<1>23. ASSUME EFree PROVE Quiet \/ (\E n \in Msgs : MsgQueued(n)) \/ ScanStale \/ ScanTake
  BY <1>23 DEF EFree, FreePsend, EDone, Quiet, connVars, envVars, sVars, eVars, cVars
<1>24. ASSUME EClear PROVE Quiet \/ (\E n \in Msgs : MsgQueued(n)) \/ ScanStale \/ ScanTake
  BY <1>24 DEF EClear, EDone, Quiet, connVars, envVars, sVars, eVars, cVars
<1>25. ASSUME EThrow PROVE Quiet \/ (\E n \in Msgs : MsgQueued(n)) \/ ScanStale \/ ScanTake
  BY <1>25 DEF EThrow, ThrowOff, EDone, Quiet, connVars, envVars, sVars, eVars, cVars
<1>26. ASSUME EPost PROVE Quiet \/ (\E n \in Msgs : MsgQueued(n)) \/ ScanStale \/ ScanTake
  BY <1>26 DEF EPost, EDone, Quiet, connVars, envVars, sVars, eVars, cVars
<1>27. ASSUME SigPipe PROVE Quiet \/ (\E n \in Msgs : MsgQueued(n)) \/ ScanStale \/ ScanTake
  BY <1>27 DEF SigPipe, Quiet, connVars, envVars, sVars, eVars, cVars
<1>28. ASSUME NEW c \in Conns, EpollWait(c) PROVE Quiet \/ (\E n \in Msgs : MsgQueued(n)) \/ ScanStale \/ ScanTake
  BY <1>28 DEF EpollWait, Quiet, connVars, envVars, sVars, eVars, cVars
<1>29. ASSUME NEW c \in Conns, TimeOut(c) PROVE Quiet \/ (\E n \in Msgs : MsgQueued(n)) \/ ScanStale \/ ScanTake
  BY <1>29 DEF TimeOut, CloseBegin, Quiet, connVars, envVars, sVars, eVars, cVars
<1>30. ASSUME NEW c \in Conns, Pool(c) PROVE Quiet \/ (\E n \in Msgs : MsgQueued(n)) \/ ScanStale \/ ScanTake
  BY <1>30 DEF Pool, FreePsend, Quiet, connVars, envVars, sVars, eVars, cVars
<1>31. ASSUME NEW c \in Conns, ClientReads(c) PROVE Quiet \/ (\E n \in Msgs : MsgQueued(n)) \/ ScanStale \/ ScanTake
  BY <1>31 DEF ClientReads, Quiet, connVars, envVars, sVars, eVars, cVars
<1>32. ASSUME NEW c \in Conns, ClientSends(c) PROVE Quiet \/ (\E n \in Msgs : MsgQueued(n)) \/ ScanStale \/ ScanTake
  BY <1>32 DEF ClientSends, Quiet, connVars, envVars, sVars, eVars, cVars
<1>33. ASSUME NEW c \in Conns, ClientCloses(c) PROVE Quiet \/ (\E n \in Msgs : MsgQueued(n)) \/ ScanStale \/ ScanTake
  BY <1>33 DEF ClientCloses, Quiet, connVars, envVars, sVars, eVars, cVars
<1>34. ASSUME NEW c \in Conns, ClientResets(c) PROVE Quiet \/ (\E n \in Msgs : MsgQueued(n)) \/ ScanStale \/ ScanTake
  BY <1>34 DEF ClientResets, Quiet, connVars, envVars, sVars, eVars, cVars
<1>35. ASSUME UNCHANGED vars PROVE Quiet \/ (\E n \in Msgs : MsgQueued(n)) \/ ScanStale \/ ScanTake
  BY <1>35 DEF vars, connVars, envVars, sVars, eVars, cVars, Quiet, connVars, envVars,
     sVars, eVars, cVars
<1>36. QED
  BY <1>1, <1>2, <1>3, <1>4, <1>5, <1>6, <1>7, <1>8, <1>9, <1>10, <1>11, <1>12, <1>13,
     <1>14, <1>15, <1>16, <1>17, <1>18, <1>19, <1>20, <1>21, <1>22, <1>23, <1>24, <1>25,
     <1>26, <1>27, <1>28, <1>29, <1>30, <1>31, <1>32, <1>33, <1>34, <1>35 DEF Next, SStep,
     EStep, Closers

(* iSendCount stays exact: it follows the queue while the connection is    *)
(* live, and nobody reads it afterwards.                                   *)
LEMMA BacklogStep == BaseInv /\ [Next]_vars => BacklogExact'
<1> SUFFICES ASSUME BaseInv, [Next]_vars PROVE BacklogExact'
  OBVIOUS
<1> DEFINE Exact(c) == state[c] = "live" =>
             backlog[c] = Cardinality(QueuedFor(queue, c)) /\ backlog[c] <= BacklogMax + 1
<1>0. /\ \A c \in Conns : Exact(c)
      /\ queue \in Seq(Msgs) /\ pos \in Nat \ {0} /\ ConnOf \in [Msgs -> Conns]
      /\ state \in [Conns -> {"live", "parked", "pooled"}] /\ backlog \in [Conns -> Nat]
      /\ BacklogMax \in Nat
  BY SendAssumption DEF BaseInv, BaseTypes, BacklogExact, QueuedFor, SendAssumption
<1>a. SUFFICES ASSUME NEW c \in Conns, state'[c] = "live" PROVE Exact(c)'
  BY DEF BacklogExact, QueuedFor
<1>1. CASE Quiet
  BY <1>0, <1>a, <1>1 DEF Quiet
<1>2. ASSUME NEW m \in Msgs, MsgQueued(m) PROVE Exact(c)'
  <2>1. /\ queue' = Append(queue, m) /\ state' = state
        /\ backlog' = [backlog EXCEPT ![ConnOf[m]] = @ + 1] /\ backlog[ConnOf[m]] <= BacklogMax
    BY <1>2 DEF MsgQueued
  <2>2. Cardinality(QueuedFor(queue, c)) \in Nat
        /\ Cardinality(QueuedFor(queue', c))
             = Cardinality(QueuedFor(queue, c)) + IF ConnOf[m] = c THEN 1 ELSE 0
    BY <1>0, <2>1, CountAppend, CountFinite
  <2>3. backlog'[c] = backlog[c] + IF ConnOf[m] = c THEN 1 ELSE 0
    BY <1>0, <2>1
  <2>4. QED
    BY <1>0, <1>a, <2>1, <2>2, <2>3
<1>3. CASE ScanStale
  <2>1. pos \in 1..Len(queue) /\ queue' = Erase(pos) /\ ConnOf[queue[pos]] # c
        /\ UNCHANGED <<state, backlog>>
    BY <1>0, <1>3, <1>a DEF ScanStale, connVars
  <2>2. Cardinality(QueuedFor(queue', c)) = Cardinality(QueuedFor(queue, c))
    BY <1>0, <2>1, CountErase, CountFinite
  <2>3. QED
    BY <1>0, <1>a, <2>1, <2>2
<1>4. CASE ScanTake
  <2>1. /\ pos \in 1..Len(queue) /\ queue' = Erase(pos) /\ state' = state
        /\ backlog' = [backlog EXCEPT ![ConnOf[queue[pos]]] = @ - 1]
    BY <1>0, <1>4 DEF ScanTake, TakePackage
  <2>2. Cardinality(QueuedFor(queue, c)) \in Nat
        /\ Cardinality(QueuedFor(queue', c))
             = Cardinality(QueuedFor(queue, c)) - IF ConnOf[queue[pos]] = c THEN 1 ELSE 0
    BY <1>0, <2>1, CountErase, CountFinite
  <2>3. backlog'[c] = backlog[c] - IF ConnOf[queue[pos]] = c THEN 1 ELSE 0
    BY <1>0, <2>1
  <2>4. QED
    BY <1>0, <1>a, <2>1, <2>2, <2>3
<1>5. QED
  BY <1>0, <1>1, <1>2, <1>3, <1>4, QuietSteps

(* At first the queue is empty and everybody is idle.                      *)
LEMMA InitBase == Init => BaseInv
<1> SUFFICES ASSUME Init PROVE BaseInv
  OBVIOUS
<1>1. BaseTypes /\ ControlInv
  BY DEF Init, BaseTypes, ControlInv, Holds, Sends, Closers
<1>2. ASSUME NEW c \in Conns PROVE Cardinality({i \in 1..Len(queue) : ConnOf[queue[i]] = c}) = 0
  <2>1. {i \in 1..Len(queue) : ConnOf[queue[i]] = c} = {}
    BY DEF Init
  <2>2. QED
    BY <2>1, FS_EmptySet
<1>3. BacklogExact
  BY <1>2, SendAssumption DEF Init, BacklogExact, SendAssumption
<1>4. QED
  BY <1>1, <1>3 DEF BaseInv

(* BaseInv holds in every state, whatever the clients do.                  *)
THEOREM BaseInvariant == Spec => []BaseInv
<1>1. BaseInv /\ [Next]_vars => BaseInv'
  BY BaseTypesStep, ControlStep, BacklogStep DEF BaseInv
<1>2. QED
  BY <1>1, InitBase, PTL DEF Spec

(* iSendCount of a live connection is the number of its packages on the    *)
(* queue, and at most one above the limit of msgSend().                    *)
THEOREM BacklogNeverDrifts == Spec => []BacklogExact
<1>1. BaseInv => BacklogExact
  BY DEF BaseInv
<1>2. QED
  BY <1>1, BaseInvariant, PTL

-----------------------------------------------------------------------------
(* A connection that is being parked has no socket any more.               *)
LEMMA ClosedStep ==
  BaseInv /\ ClosedInv /\ fdOpen \in [Conns -> BOOLEAN] /\ [Next]_vars => ClosedInv'
<1> SUFFICES ASSUME BaseInv, ClosedInv, fdOpen \in [Conns -> BOOLEAN], [Next]_vars
             PROVE  ClosedInv'
  OBVIOUS
<1>0. /\ pcC \in [Closers -> {"idle", "close", "test", "dec", "park", "dead"}]
      /\ cC \in [Closers -> Conns \cup {NoConn}]
      /\ state \in [Conns -> {"live", "parked", "pooled"}] /\ fdOpen \in [Conns -> BOOLEAN]
      /\ pcE \notin {"wait", "dead"} => cE \in Conns
      /\ \A k \in Closers : pcC[k] \notin {"idle", "dead"} => cC[k] \in Conns
  BY DEF BaseInv, BaseTypes, ControlInv
<1>1. ASSUME NEW m \in Msgs, MsgDropped(m) PROVE ClosedInv'
  BY <1>1, <1>0 DEF MsgDropped, Post, ClosedInv, Closed, connVars, envVars, sVars, eVars,
     cVars
<1>2. ASSUME NEW m \in Msgs, MsgCutsOff(m) PROVE ClosedInv'
  BY <1>2, <1>0 DEF MsgCutsOff, CloseBegin, Post, ClosedInv, Closed, connVars, envVars,
     sVars, eVars, cVars
<1>3. ASSUME NEW m \in Msgs, MsgQueued(m) PROVE ClosedInv'
  BY <1>3, <1>0 DEF MsgQueued, Post, ClosedInv, Closed, connVars, envVars, sVars, eVars,
     cVars
<1>4. ASSUME NEW k \in Closers, KCloses(k) PROVE ClosedInv'
  BY <1>4, <1>0 DEF KCloses, KClose, KStep, CloseFd, ThrowOff, Park, ClosedInv, Closed,
     connVars, envVars, sVars, eVars, cVars
<1>5. ASSUME SemWait PROVE ClosedInv'
  BY <1>5, <1>0 DEF SemWait, SemReturns, ClosedInv, Closed, connVars, envVars, sVars,
     eVars, cVars
<1>6. ASSUME SemInterrupted PROVE ClosedInv'
  BY <1>6, <1>0 DEF SemInterrupted, SemReturns, ClosedInv, Closed, connVars, envVars,
     sVars, eVars, cVars
<1>7. ASSUME ScanBegin PROVE ClosedInv'
  BY <1>7, <1>0 DEF ScanBegin, ClosedInv, Closed, connVars, envVars, sVars, eVars, cVars
<1>8. ASSUME ScanEnd PROVE ClosedInv'
  BY <1>8, <1>0 DEF ScanEnd, ClosedInv, Closed, connVars, envVars, sVars, eVars, cVars
<1>9. ASSUME ScanStale PROVE ClosedInv'
  BY <1>9, <1>0 DEF ScanStale, ClosedInv, Closed, connVars, envVars, sVars, eVars, cVars
<1>10. ASSUME ScanSkip PROVE ClosedInv'
  BY <1>10, <1>0 DEF ScanSkip, ClosedInv, Closed, connVars, envVars, sVars, eVars, cVars
<1>11. ASSUME ScanTake PROVE ClosedInv'
  BY <1>11, <1>0 DEF ScanTake, TakePackage, Unpending, ClosedInv, Closed, connVars,
     envVars, sVars, eVars, cVars
<1>12. ASSUME SSend PROVE ClosedInv'
  BY <1>12, <1>0 DEF SSend, TakeOff, Transmit, ClosedInv, Closed, connVars, envVars,
     sVars, eVars, cVars
<1>13. ASSUME SFree PROVE ClosedInv'
  BY <1>13, <1>0 DEF SFree, FreePsend, ClosedInv, Closed, connVars, envVars, sVars, eVars,
     cVars
<1>14. ASSUME SClear PROVE ClosedInv'
  BY <1>14, <1>0 DEF SClear, ClosedInv, Closed, connVars, envVars, sVars, eVars, cVars
<1>15. ASSUME SZero PROVE ClosedInv'
  BY <1>15, <1>0 DEF SZero, ClosedInv, Closed, connVars, envVars, sVars, eVars, cVars
<1>16. ASSUME SThrow PROVE ClosedInv'
  BY <1>16, <1>0 DEF SThrow, ClosedInv, Closed, connVars, envVars, sVars, eVars, cVars
<1>17. ASSUME SArm PROVE ClosedInv'
  BY <1>17, <1>0 DEF SArm, ClosedInv, Closed, connVars, envVars, sVars, eVars, cVars
<1>18. ASSUME ERead PROVE ClosedInv'
  BY <1>18, <1>0 DEF ERead, EDone, AfterIn, ClosedInv, Closed, connVars, envVars, sVars,
     eVars, cVars
<1>19. ASSUME ECloses PROVE ClosedInv'
  BY <1>19, <1>0 DEF ECloses, EClose, CloseFd, ThrowOff, Park, EDone, AfterIn, ClosedInv,
     Closed, connVars, envVars, sVars, eVars, cVars
<1>20. ASSUME EOutHup PROVE ClosedInv'
  BY <1>20, <1>0 DEF EOutHup, ThrowOff, EDone, ClosedInv, Closed, connVars, envVars,
     sVars, eVars, cVars
<1>21. ASSUME EWrite PROVE ClosedInv'
  BY <1>21, <1>0 DEF EWrite, WriteOn, TakeOff, Transmit, EDone, ClosedInv, Closed, connVars,
     envVars, sVars, eVars, cVars
<1>22. ASSUME EDisarm PROVE ClosedInv'
  BY <1>22, <1>0 DEF EDisarm, EDone, ClosedInv, Closed, connVars, envVars, sVars, eVars,
     cVars
<1>23. ASSUME EFree PROVE ClosedInv'
  BY <1>23, <1>0 DEF EFree, FreePsend, EDone, ClosedInv, Closed, connVars, envVars, sVars,
     eVars, cVars
<1>24. ASSUME EClear PROVE ClosedInv'
  BY <1>24, <1>0 DEF EClear, EDone, ClosedInv, Closed, connVars, envVars, sVars,
     eVars, cVars
<1>25. ASSUME EThrow PROVE ClosedInv'
  BY <1>25, <1>0 DEF EThrow, ThrowOff, EDone, ClosedInv, Closed, connVars, envVars, sVars,
     eVars, cVars
<1>26. ASSUME EPost PROVE ClosedInv'
  BY <1>26, <1>0 DEF EPost, EDone, ClosedInv, Closed, connVars, envVars, sVars, eVars, cVars
<1>27. ASSUME SigPipe PROVE ClosedInv'
  BY <1>27, <1>0 DEF SigPipe, ClosedInv, Closed, connVars, envVars, sVars, eVars, cVars
<1>28. ASSUME NEW c \in Conns, EpollWait(c) PROVE ClosedInv'
  BY <1>28, <1>0 DEF EpollWait, ClosedInv, Closed, connVars, envVars, sVars, eVars, cVars
<1>29. ASSUME NEW c \in Conns, TimeOut(c) PROVE ClosedInv'
  BY <1>29, <1>0 DEF TimeOut, CloseBegin, ClosedInv, Closed, connVars, envVars, sVars,
     eVars, cVars
<1>30. ASSUME NEW c \in Conns, Pool(c) PROVE ClosedInv'
  BY <1>30, <1>0 DEF Pool, FreePsend, ClosedInv, Closed, connVars, envVars, sVars, eVars,
     cVars
<1>31. ASSUME NEW c \in Conns, ClientReads(c) PROVE ClosedInv'
  BY <1>31, <1>0 DEF ClientReads, ClosedInv, Closed, connVars, envVars, sVars, eVars, cVars
<1>32. ASSUME NEW c \in Conns, ClientSends(c) PROVE ClosedInv'
  BY <1>32, <1>0 DEF ClientSends, ClosedInv, Closed, connVars, envVars, sVars, eVars, cVars
<1>33. ASSUME NEW c \in Conns, ClientCloses(c) PROVE ClosedInv'
  BY <1>33, <1>0 DEF ClientCloses, ClosedInv, Closed, connVars, envVars, sVars, eVars, cVars
<1>34. ASSUME NEW c \in Conns, ClientResets(c) PROVE ClosedInv'
  BY <1>34, <1>0 DEF ClientResets, ClosedInv, Closed, connVars, envVars, sVars, eVars, cVars
<1>35. ASSUME UNCHANGED vars PROVE ClosedInv'
  BY <1>35 DEF vars, connVars, envVars, sVars, eVars, cVars, ClosedInv, Closed, connVars,
     envVars, sVars, eVars, cVars
<1>36. QED
  BY <1>1, <1>2, <1>3, <1>4, <1>5, <1>6, <1>7, <1>8, <1>9, <1>10, <1>11, <1>12, <1>13,
     <1>14, <1>15, <1>16, <1>17, <1>18, <1>19, <1>20, <1>21, <1>22, <1>23, <1>24, <1>25,
     <1>26, <1>27, <1>28, <1>29, <1>30, <1>31, <1>32, <1>33, <1>34, <1>35 DEF Next, SStep,
     EStep, Closers

(* What epoll reported of an orderly client.                               *)
LEMMA PeerStep ==
  ASSUME BaseInv, ClosedInv, PeerInv, ~UnreadAtClose, [Next]_vars,
         peer \in [Conns -> {"up", "shut", "reset", "gone"}], unread \in [Conns -> BOOLEAN],
         fdOpen \in [Conns -> BOOLEAN]
  PROVE  PeerInv'
<1>0. /\ pcE \notin {"wait", "dead"} => cE \in Conns
      /\ pcE \in {"wait", "in", "out", "close", "test", "dec", "park", "disarm",
                  "free", "clear", "dec2", "post", "dead"}
  BY DEF BaseInv, BaseTypes, ControlInv
<1>1. ASSUME NEW m \in Msgs, MsgDropped(m) PROVE PeerInv'
  BY <1>1, <1>0 DEF MsgDropped, Post, PeerInv, connVars, envVars, sVars, eVars, cVars
<1>2. ASSUME NEW m \in Msgs, MsgCutsOff(m) PROVE PeerInv'
  BY <1>2, <1>0 DEF MsgCutsOff, CloseBegin, Post, PeerInv, connVars, envVars, sVars,
     eVars, cVars
<1>3. ASSUME NEW m \in Msgs, MsgQueued(m) PROVE PeerInv'
  BY <1>3, <1>0 DEF MsgQueued, Post, PeerInv, connVars, envVars, sVars, eVars, cVars
<1>4. ASSUME NEW k \in Closers, KCloses(k) PROVE PeerInv'
  BY <1>4, <1>0 DEF KCloses, KClose, KStep, CloseFd, ThrowOff, Park, PeerInv, connVars,
     envVars, sVars, eVars, cVars
<1>5. ASSUME SemWait PROVE PeerInv'
  BY <1>5, <1>0 DEF SemWait, SemReturns, PeerInv, connVars, envVars, sVars, eVars, cVars
<1>6. ASSUME SemInterrupted PROVE PeerInv'
  BY <1>6, <1>0 DEF SemInterrupted, SemReturns, PeerInv, connVars, envVars, sVars, eVars,
     cVars
<1>7. ASSUME ScanBegin PROVE PeerInv'
  BY <1>7, <1>0 DEF ScanBegin, PeerInv, connVars, envVars, sVars, eVars, cVars
<1>8. ASSUME ScanEnd PROVE PeerInv'
  BY <1>8, <1>0 DEF ScanEnd, PeerInv, connVars, envVars, sVars, eVars, cVars
<1>9. ASSUME ScanStale PROVE PeerInv'
  BY <1>9, <1>0 DEF ScanStale, PeerInv, connVars, envVars, sVars, eVars, cVars
<1>10. ASSUME ScanSkip PROVE PeerInv'
  BY <1>10, <1>0 DEF ScanSkip, PeerInv, connVars, envVars, sVars, eVars, cVars
<1>11. ASSUME ScanTake PROVE PeerInv'
  BY <1>11, <1>0 DEF ScanTake, TakePackage, Unpending, PeerInv, connVars, envVars, sVars,
     eVars, cVars
<1>12. ASSUME SSend PROVE PeerInv'
  BY <1>12, <1>0 DEF SSend, TakeOff, Transmit, PeerInv, connVars, envVars, sVars, eVars,
     cVars
<1>13. ASSUME SFree PROVE PeerInv'
  BY <1>13, <1>0 DEF SFree, FreePsend, PeerInv, connVars, envVars, sVars, eVars, cVars
<1>14. ASSUME SClear PROVE PeerInv'
  BY <1>14, <1>0 DEF SClear, PeerInv, connVars, envVars, sVars, eVars, cVars
<1>15. ASSUME SZero PROVE PeerInv'
  BY <1>15, <1>0 DEF SZero, PeerInv, connVars, envVars, sVars, eVars, cVars
<1>16. ASSUME SThrow PROVE PeerInv'
  BY <1>16, <1>0 DEF SThrow, PeerInv, connVars, envVars, sVars, eVars, cVars
<1>17. ASSUME SArm PROVE PeerInv'
  BY <1>17, <1>0 DEF SArm, PeerInv, connVars, envVars, sVars, eVars, cVars
<1>18. ASSUME ERead PROVE PeerInv'
  BY <1>18, <1>0 DEF ERead, EDone, AfterIn, PeerInv, connVars, envVars, sVars, eVars, cVars
<1>19. ASSUME ECloses PROVE PeerInv'
  BY <1>19, <1>0 DEF ECloses, EClose, CloseFd, ThrowOff, Park, EDone, AfterIn, ClosedInv,
     Closed, PeerInv, connVars, envVars, sVars, eVars, cVars
<1>20. ASSUME EOutHup PROVE PeerInv'
  BY <1>20, <1>0 DEF EOutHup, ThrowOff, EDone, PeerInv, connVars, envVars, sVars, eVars,
     cVars
<1>21. ASSUME EWrite PROVE PeerInv'
  BY <1>21, <1>0 DEF EWrite, WriteOn, TakeOff, Transmit, EDone, PeerInv, connVars,
     envVars, sVars,
     eVars, cVars
<1>22. ASSUME EDisarm PROVE PeerInv'
  BY <1>22, <1>0 DEF EDisarm, EDone, PeerInv, connVars, envVars, sVars, eVars, cVars
<1>23. ASSUME EFree PROVE PeerInv'
  BY <1>23, <1>0 DEF EFree, FreePsend, EDone, PeerInv, connVars, envVars, sVars, eVars,
     cVars
<1>24. ASSUME EClear PROVE PeerInv'
  BY <1>24, <1>0 DEF EClear, EDone, PeerInv, connVars, envVars, sVars, eVars,
     cVars
<1>25. ASSUME EThrow PROVE PeerInv'
  BY <1>25, <1>0 DEF EThrow, ThrowOff, EDone, PeerInv, connVars, envVars, sVars, eVars,
     cVars
<1>26. ASSUME EPost PROVE PeerInv'
  BY <1>26, <1>0 DEF EPost, EDone, PeerInv, connVars, envVars, sVars, eVars, cVars
<1>27. ASSUME SigPipe PROVE PeerInv'
  BY <1>27, <1>0 DEF SigPipe, PeerInv, connVars, envVars, sVars, eVars, cVars
<1>28. ASSUME NEW c \in Conns, EpollWait(c) PROVE PeerInv'
  BY <1>28, <1>0 DEF EpollWait, Ready, PeerInv, connVars, envVars, sVars, eVars, cVars
<1>29. ASSUME NEW c \in Conns, TimeOut(c) PROVE PeerInv'
  BY <1>29, <1>0 DEF TimeOut, CloseBegin, PeerInv, connVars, envVars, sVars, eVars, cVars
<1>30. ASSUME NEW c \in Conns, Pool(c) PROVE PeerInv'
  BY <1>30, <1>0 DEF Pool, FreePsend, PeerInv, connVars, envVars, sVars, eVars, cVars
<1>31. ASSUME NEW c \in Conns, ClientReads(c) PROVE PeerInv'
  BY <1>31, <1>0 DEF ClientReads, PeerInv, connVars, envVars, sVars, eVars, cVars
<1>32. ASSUME NEW c \in Conns, ClientSends(c) PROVE PeerInv'
  BY <1>32, <1>0 DEF ClientSends, PeerInv, connVars, envVars, sVars, eVars, cVars
<1>33. ASSUME NEW c \in Conns, ClientCloses(c) PROVE PeerInv'
  BY <1>33, <1>0, ~UnreadAtClose DEF ClientCloses, PeerInv, connVars, envVars, sVars,
     eVars, cVars
<1>34. ASSUME NEW c \in Conns, ClientResets(c) PROVE PeerInv'
  BY <1>34, <1>0 DEF ClientResets, PeerInv, connVars, envVars, sVars, eVars, cVars
<1>35. ASSUME UNCHANGED vars PROVE PeerInv'
  BY <1>35 DEF vars, connVars, envVars, sVars, eVars, cVars, PeerInv, connVars, envVars,
     sVars, eVars, cVars
<1>36. QED
  BY <1>1, <1>2, <1>3, <1>4, <1>5, <1>6, <1>7, <1>8, <1>9, <1>10, <1>11, <1>12, <1>13,
     <1>14, <1>15, <1>16, <1>17, <1>18, <1>19, <1>20, <1>21, <1>22, <1>23, <1>24, <1>25,
     <1>26, <1>27, <1>28, <1>29, <1>30, <1>31, <1>32, <1>33, <1>34, <1>35 DEF Next, SStep,
     EStep, Closers

-----------------------------------------------------------------------------
(* What send() does to the socket of c: n units of the pending package go  *)
(* out on one that can be written to, or it fails; a failure on an open    *)
(* socket is the report of a reset.                                        *)
Sent(c, n) ==
  /\ n = -2 \/ (n \in 0..left[c] /\ Writable(c) /\ peer' = peer)
  /\ n = -2 /\ fdOpen[c] => peer'[c] = "gone"
  /\ \A d \in Conns : d # c => wire'[d] = wire[d] /\ peer'[d] = peer[d]
  /\ peer[c] \in {"reset", "gone"} => peer'[c] \in {"reset", "gone"}
  /\ n <= 0 => wire' = wire
  /\ n > 0 => wire' = [wire EXCEPT ![c] = @ \o [i \in 1..n |-> psend[c]]]
  /\ inbuf' \in [Conns -> 0..Room] /\ unread' = unread
  /\ peer' \in [Conns -> {"up", "shut", "reset", "gone"}]

(* That is what a send() that returns does.                                *)
LEMMA SendFacts ==
  ASSUME MemTypes, NetTypes, RestTypes, NEW c \in Conns, NEW n \in SendResults(c), Transmit(c, n)
  PROVE  Sent(c, n)
<1>1. /\ left[c] \in 0..Size /\ inbuf[c] \in 0..Room /\ Size \in Nat /\ Room \in Nat
      /\ inbuf \in [Conns -> 0..Room] /\ peer \in [Conns -> {"up", "shut", "reset", "gone"}]
      /\ wire \in [Conns -> Seq(Msgs)] /\ fdOpen[c] \in BOOLEAN
  BY SendAssumption DEF NetTypes, RestTypes, SendAssumption
<1>2. CASE n = -2
  <2>1. ~fdOpen[c] \/ peer[c] = "reset"
    BY <1>1, <1>2 DEF SendResults
  <2>2. /\ UNCHANGED <<wire, inbuf, unread>>
        /\ peer' = [peer EXCEPT ![c] = IF @ = "reset" /\ fdOpen[c] THEN "gone" ELSE @]
    BY <1>2 DEF Transmit
  <2>3. peer' \in [Conns -> {"up", "shut", "reset", "gone"}] /\ inbuf' \in [Conns -> 0..Room]
    BY <1>1, <2>2
  <2>4. \A d \in Conns : d # c => peer'[d] = peer[d]
    BY <1>1, <2>2
  <2>5. (fdOpen[c] => peer'[c] = "gone") /\ (peer[c] \in {"reset", "gone"} => peer'[c] \in {"reset", "gone"})
    BY <1>1, <2>1, <2>2
  <2>6. QED
    BY <1>2, <2>2, <2>3, <2>4, <2>5 DEF Sent
<1>3. CASE n # -2
  <2>1. fdOpen[c] /\ peer[c] \notin {"reset", "gone"} /\ n \in 0..left[c] /\ n <= Room - inbuf[c]
    BY <1>1, <1>3 DEF SendResults, Raises
  <2>2. n \in Int
    BY <1>1, <2>1
  <2>3. CASE n > 0
    <3>1. /\ wire' = [wire EXCEPT ![c] = @ \o [i \in 1..n |-> psend[c]]]
          /\ inbuf' = [inbuf EXCEPT ![c] = @ + n] /\ UNCHANGED <<peer, unread>>
      BY <2>3 DEF Transmit
    <3>2. inbuf[c] + n \in 0..Room
      BY <1>1, <2>1, <2>2, <2>3
    <3>3. inbuf' \in [Conns -> 0..Room]
      BY <1>1, <3>1, <3>2
    <3>4. \A d \in Conns : d # c => wire'[d] = wire[d]
      BY <1>1, <3>1
    <3>5. ~(n <= 0)
      BY <2>2, <2>3
    <3>6. QED
      BY <1>1, <1>3, <2>1, <3>1, <3>3, <3>4, <3>5 DEF Sent, Writable
  <2>4. CASE ~(n > 0)
    <3>1. UNCHANGED <<wire, inbuf, unread, peer>>
      BY <1>1, <2>1, <2>4 DEF Transmit
    <3>2. QED
      BY <1>1, <1>3, <2>1, <2>4, <3>1 DEF Sent, Writable
  <2>5. QED
    BY <2>3, <2>4
<1>4. QED
  BY <1>2, <1>3

(* Who calls send() on an open connection has a package to send.           *)
LEMMA HasPackage ==
  ASSUME Inv
  PROVE  /\ (pcS = "send" /\ fdOpen[cS]) => psend[cS] \in Msgs
         /\ (pcE = "out" /\ "HUP" \notin mask /\ fdOpen[cE]) => psend[cE] \in Msgs
<1>1. pcS = "send" => cS \in Conns /\ pcE # "dead"
  BY DEF Inv, BaseInv, ControlInv, Sends, Holds
<1>2. pcE = "out" => cE \in Conns /\ pcE # "dead"
  BY DEF Inv, BaseInv, ControlInv
<1>3. psend \in [Conns -> Msgs \cup {NoMsg}]
  BY DEF Inv, MemTypes
<1>4. QED
  BY <1>1, <1>2, <1>3 DEF Inv, PendInv, Pending, InFlight

-----------------------------------------------------------------------------
(* The count of a connection remains a number.                             *)
LEMMA ThrowNumber ==
  ASSUME throw \in [Conns -> Int], NEW c
  PROVE  ThrowOff(c) => throw' \in [Conns -> Int]
<1>1. CASE c \in Conns
  BY <1>1 DEF ThrowOff
<1>2. CASE c \notin Conns
  <2>1. ThrowOff(c) => throw' = throw
    BY <1>2 DEF ThrowOff
  <2>2. QED
    BY <2>1
<1>3. QED
  BY <1>1, <1>2

(* The types of what the threads share.                                    *)
LEMMA RestTypesStep == Inv /\ [Next]_vars => RestTypes'
<1> SUFFICES ASSUME Inv, [Next]_vars PROVE RestTypes'
  OBVIOUS
<1>0. /\ RestTypes /\ ConnOf \in [Msgs -> Conns] /\ queue \in Seq(Msgs) /\ pos \in Nat \ {0}
      /\ pcS \in Sends => cS \in Conns
      /\ pcE \notin {"wait", "dead"} => cE \in Conns
  BY SendAssumption DEF Inv, BaseInv, BaseTypes, ControlInv, SendAssumption
<1>1. ASSUME NEW m \in Msgs, MsgDropped(m) PROVE RestTypes'
  BY <1>1, <1>0 DEF MsgDropped, Post, RestTypes, Sends, connVars, envVars, sVars, eVars,
     cVars
<1>2. ASSUME NEW m \in Msgs, MsgCutsOff(m) PROVE RestTypes'
  BY <1>2, <1>0 DEF MsgCutsOff, CloseBegin, Post, RestTypes, Sends, connVars, envVars,
     sVars, eVars, cVars
<1>3. ASSUME NEW m \in Msgs, MsgQueued(m) PROVE RestTypes'
  BY <1>3, <1>0 DEF MsgQueued, Post, RestTypes, Sends, connVars, envVars, sVars, eVars,
     cVars
<1>4. ASSUME NEW k \in Closers, KCloses(k) PROVE RestTypes'
  <2>1. throw' \in [Conns -> Int]
    BY <1>4, <1>0, ThrowNumber DEF KCloses, KClose, KStep, CloseFd, Park, RestTypes,
       connVars
  <2>2. QED
    BY <1>4, <1>0, <2>1 DEF KCloses, KClose, KStep, CloseFd, ThrowOff, Park, RestTypes,
       connVars, sVars, eVars
<1>5. ASSUME SemWait PROVE RestTypes'
  BY <1>5, <1>0 DEF SemWait, SemReturns, RestTypes, Sends, connVars, envVars, sVars,
     eVars, cVars
<1>6. ASSUME SemInterrupted PROVE RestTypes'
  BY <1>6, <1>0 DEF SemInterrupted, SemReturns, RestTypes, Sends, connVars, envVars,
     sVars, eVars, cVars
<1>7. ASSUME ScanBegin PROVE RestTypes'
  BY <1>7, <1>0 DEF ScanBegin, RestTypes, Sends, connVars, envVars, sVars, eVars, cVars
<1>8. ASSUME ScanEnd PROVE RestTypes'
  BY <1>8, <1>0 DEF ScanEnd, RestTypes, Sends, connVars, envVars, sVars, eVars, cVars
<1>9. ASSUME ScanStale PROVE RestTypes'
  BY <1>9, <1>0 DEF ScanStale, RestTypes, Sends, connVars, envVars, sVars, eVars, cVars
<1>10. ASSUME ScanSkip PROVE RestTypes'
  BY <1>10, <1>0 DEF ScanSkip, RestTypes, Sends, connVars, envVars, sVars, eVars, cVars
<1>11. ASSUME ScanTake PROVE RestTypes'
  BY <1>11, <1>0 DEF ScanTake, TakePackage, Unpending, RestTypes, Sends, connVars,
     envVars, sVars, eVars, cVars
<1>12. ASSUME SSend PROVE RestTypes'
  BY <1>12, <1>0 DEF SSend, TakeOff, Transmit, RestTypes, Sends, connVars, envVars,
     sVars, eVars, cVars
<1>13. ASSUME SFree PROVE RestTypes'
  BY <1>13, <1>0 DEF SFree, FreePsend, RestTypes, Sends, connVars, envVars, sVars, eVars,
     cVars
<1>14. ASSUME SClear PROVE RestTypes'
  BY <1>14, <1>0 DEF SClear, RestTypes, Sends, connVars, envVars, sVars, eVars, cVars
<1>15. ASSUME SZero PROVE RestTypes'
  BY <1>15, <1>0 DEF SZero, RestTypes, Sends, connVars, envVars, sVars, eVars, cVars
<1>16. ASSUME SThrow PROVE RestTypes'
  BY <1>16, <1>0 DEF SThrow, RestTypes, Sends, connVars, envVars, sVars, eVars, cVars
<1>17. ASSUME SArm PROVE RestTypes'
  BY <1>17, <1>0 DEF SArm, RestTypes, Sends, connVars, envVars, sVars, eVars, cVars
<1>18. ASSUME ERead PROVE RestTypes'
  BY <1>18, <1>0 DEF ERead, EDone, AfterIn, RestTypes, Sends, connVars, envVars, sVars,
     eVars, cVars
<1>19. ASSUME ECloses PROVE RestTypes'
  <2>1. throw' \in [Conns -> Int]
    BY <1>19, <1>0, ThrowNumber DEF ECloses, EClose, EDone, CloseFd, Park, RestTypes,
       connVars
  <2>2. QED
    BY <1>19, <1>0, <2>1 DEF ECloses, EClose, EDone, AfterIn, CloseFd, ThrowOff, Park,
       RestTypes, connVars, sVars
<1>20. ASSUME EOutHup PROVE RestTypes'
  BY <1>20, <1>0 DEF EOutHup, ThrowOff, EDone, RestTypes, Sends, connVars, envVars, sVars,
     eVars, cVars
<1>21. ASSUME EWrite PROVE RestTypes'
  BY <1>21, <1>0 DEF EWrite, WriteOn, TakeOff, Transmit, EDone, RestTypes, Sends, connVars,
     envVars, sVars, eVars, cVars
<1>22. ASSUME EDisarm PROVE RestTypes'
  BY <1>22, <1>0 DEF EDisarm, EDone, RestTypes, Sends, connVars, envVars, sVars, eVars,
     cVars
<1>23. ASSUME EFree PROVE RestTypes'
  BY <1>23, <1>0 DEF EFree, FreePsend, EDone, RestTypes, Sends, connVars, envVars, sVars,
     eVars, cVars
<1>24. ASSUME EClear PROVE RestTypes'
  BY <1>24, <1>0 DEF EClear, EDone, RestTypes, Sends, connVars, envVars, sVars,
     eVars, cVars
<1>25. ASSUME EThrow PROVE RestTypes'
  <2>1. throw' \in [Conns -> Int]
    BY <1>25, <1>0, ThrowNumber DEF EThrow, RestTypes
  <2>2. QED
    BY <1>25, <1>0, <2>1 DEF EThrow, ThrowOff, EDone, RestTypes, sVars
<1>26. ASSUME EPost PROVE RestTypes'
  BY <1>26, <1>0 DEF EPost, EDone, RestTypes, Sends, connVars, envVars, sVars, eVars, cVars
<1>27. ASSUME SigPipe PROVE RestTypes'
  BY <1>27, <1>0 DEF SigPipe, RestTypes, Sends, connVars, envVars, sVars, eVars, cVars
<1>28. ASSUME NEW c \in Conns, EpollWait(c) PROVE RestTypes'
  BY <1>28, <1>0 DEF EpollWait, Ready, RestTypes, Sends, connVars, envVars, sVars, eVars,
     cVars
<1>29. ASSUME NEW c \in Conns, TimeOut(c) PROVE RestTypes'
  BY <1>29, <1>0 DEF TimeOut, CloseBegin, RestTypes, Sends, connVars, envVars, sVars,
     eVars, cVars
<1>30. ASSUME NEW c \in Conns, Pool(c) PROVE RestTypes'
  BY <1>30, <1>0 DEF Pool, FreePsend, RestTypes, Sends, connVars, envVars, sVars, eVars,
     cVars
<1>31. ASSUME NEW c \in Conns, ClientReads(c) PROVE RestTypes'
  BY <1>31, <1>0 DEF ClientReads, RestTypes, Sends, connVars, envVars, sVars, eVars, cVars
<1>32. ASSUME NEW c \in Conns, ClientSends(c) PROVE RestTypes'
  BY <1>32, <1>0 DEF ClientSends, RestTypes, Sends, connVars, envVars, sVars, eVars, cVars
<1>33. ASSUME NEW c \in Conns, ClientCloses(c) PROVE RestTypes'
  BY <1>33, <1>0 DEF ClientCloses, RestTypes, Sends, connVars, envVars, sVars, eVars, cVars
<1>34. ASSUME NEW c \in Conns, ClientResets(c) PROVE RestTypes'
  BY <1>34, <1>0 DEF ClientResets, RestTypes, Sends, connVars, envVars, sVars, eVars, cVars
<1>35. ASSUME UNCHANGED vars PROVE RestTypes'
  BY <1>35, <1>0 DEF vars, RestTypes, Sends, connVars, envVars, sVars, eVars, cVars
<1>36. QED
  BY <1>1, <1>2, <1>3, <1>4, <1>5, <1>6, <1>7, <1>8, <1>9, <1>10, <1>11, <1>12, <1>13,
     <1>14, <1>15, <1>16, <1>17, <1>18, <1>19, <1>20, <1>21, <1>22, <1>23, <1>24, <1>25,
     <1>26, <1>27, <1>28, <1>29, <1>30, <1>31, <1>32, <1>33, <1>34, <1>35 DEF Next, SStep,
     EStep, Closers

(* What is freed was posted.                                               *)
LEMMA MemTypesStep == Inv /\ [Next]_vars => MemTypes'
<1> SUFFICES ASSUME Inv, [Next]_vars PROVE MemTypes'
  OBVIOUS
<1>0. /\ MemTypes /\ ConnOf \in [Msgs -> Conns] /\ queue \in Seq(Msgs) /\ pos \in Nat \ {0}
      /\ \A i \in 1..Len(queue) : queue[i] \in posted
      /\ \A c \in Conns : psend[c] # NoMsg => psend[c] \in posted
      /\ pcS \in Sends => cS \in Conns
      /\ pcE \notin {"wait", "dead"} => cE \in Conns
  BY SendAssumption DEF Inv, BaseInv, BaseTypes, ControlInv, OwnInv, SendAssumption
<1>1. ASSUME NEW m \in Msgs, MsgDropped(m) PROVE MemTypes'
  BY <1>1, <1>0 DEF MsgDropped, Post, MemTypes, Sends, connVars, envVars, sVars, eVars,
     cVars
<1>2. ASSUME NEW m \in Msgs, MsgCutsOff(m) PROVE MemTypes'
  BY <1>2, <1>0 DEF MsgCutsOff, CloseBegin, Post, MemTypes, Sends, connVars, envVars,
     sVars, eVars, cVars
<1>3. ASSUME NEW m \in Msgs, MsgQueued(m) PROVE MemTypes'
  BY <1>3, <1>0 DEF MsgQueued, Post, MemTypes, Sends, connVars, envVars, sVars, eVars, cVars
<1>4. ASSUME NEW k \in Closers, KCloses(k) PROVE MemTypes'
  BY <1>4, <1>0 DEF KCloses, KClose, KStep, CloseFd, ThrowOff, Park, MemTypes, Sends,
     connVars, envVars, sVars, eVars, cVars
<1>5. ASSUME SemWait PROVE MemTypes'
  BY <1>5, <1>0 DEF SemWait, SemReturns, MemTypes, Sends, connVars, envVars, sVars, eVars,
     cVars
<1>6. ASSUME SemInterrupted PROVE MemTypes'
  BY <1>6, <1>0 DEF SemInterrupted, SemReturns, MemTypes, Sends, connVars, envVars, sVars,
     eVars, cVars
<1>7. ASSUME ScanBegin PROVE MemTypes'
  BY <1>7, <1>0 DEF ScanBegin, MemTypes, Sends, connVars, envVars, sVars, eVars, cVars
<1>8. ASSUME ScanEnd PROVE MemTypes'
  BY <1>8, <1>0 DEF ScanEnd, MemTypes, Sends, connVars, envVars, sVars, eVars, cVars
<1>9. ASSUME ScanStale PROVE MemTypes'
  BY <1>9, <1>0 DEF ScanStale, MemTypes, Sends, connVars, envVars, sVars, eVars, cVars
<1>10. ASSUME ScanSkip PROVE MemTypes'
  BY <1>10, <1>0 DEF ScanSkip, MemTypes, Sends, connVars, envVars, sVars, eVars, cVars
<1>11. ASSUME ScanTake PROVE MemTypes'
  BY <1>11, <1>0 DEF ScanTake, TakePackage, Unpending, MemTypes, Sends, connVars, envVars,
     sVars, eVars, cVars
<1>12. ASSUME SSend PROVE MemTypes'
  BY <1>12, <1>0 DEF SSend, TakeOff, Transmit, MemTypes, Sends, connVars, envVars,
     sVars, eVars, cVars
<1>13. ASSUME SFree PROVE MemTypes'
  BY <1>13, <1>0 DEF SFree, FreePsend, MemTypes, Sends, connVars, envVars, sVars, eVars,
     cVars
<1>14. ASSUME SClear PROVE MemTypes'
  BY <1>14, <1>0 DEF SClear, MemTypes, Sends, connVars, envVars, sVars, eVars, cVars
<1>15. ASSUME SZero PROVE MemTypes'
  BY <1>15, <1>0 DEF SZero, MemTypes, Sends, connVars, envVars, sVars, eVars, cVars
<1>16. ASSUME SThrow PROVE MemTypes'
  BY <1>16, <1>0 DEF SThrow, MemTypes, Sends, connVars, envVars, sVars, eVars, cVars
<1>17. ASSUME SArm PROVE MemTypes'
  BY <1>17, <1>0 DEF SArm, MemTypes, Sends, connVars, envVars, sVars, eVars, cVars
<1>18. ASSUME ERead PROVE MemTypes'
  BY <1>18, <1>0 DEF ERead, EDone, AfterIn, MemTypes, Sends, connVars, envVars, sVars,
     eVars, cVars
<1>19. ASSUME ECloses PROVE MemTypes'
  BY <1>19, <1>0 DEF ECloses, EClose, CloseFd, ThrowOff, Park, EDone, AfterIn, MemTypes,
     Sends, connVars, envVars, sVars, eVars, cVars
<1>20. ASSUME EOutHup PROVE MemTypes'
  BY <1>20, <1>0 DEF EOutHup, ThrowOff, EDone, MemTypes, Sends, connVars, envVars, sVars,
     eVars, cVars
<1>21. ASSUME EWrite PROVE MemTypes'
  BY <1>21, <1>0 DEF EWrite, WriteOn, TakeOff, Transmit, EDone, MemTypes, Sends, connVars,
     envVars,
     sVars, eVars, cVars
<1>22. ASSUME EDisarm PROVE MemTypes'
  BY <1>22, <1>0 DEF EDisarm, EDone, MemTypes, Sends, connVars, envVars, sVars, eVars, cVars
<1>23. ASSUME EFree PROVE MemTypes'
  BY <1>23, <1>0 DEF EFree, FreePsend, EDone, MemTypes, Sends, connVars, envVars, sVars,
     eVars, cVars
<1>24. ASSUME EClear PROVE MemTypes'
  BY <1>24, <1>0 DEF EClear, EDone, MemTypes, Sends, connVars, envVars, sVars,
     eVars, cVars
<1>25. ASSUME EThrow PROVE MemTypes'
  BY <1>25, <1>0 DEF EThrow, ThrowOff, EDone, MemTypes, Sends, connVars, envVars, sVars,
     eVars, cVars
<1>26. ASSUME EPost PROVE MemTypes'
  BY <1>26, <1>0 DEF EPost, EDone, MemTypes, Sends, connVars, envVars, sVars, eVars, cVars
<1>27. ASSUME SigPipe PROVE MemTypes'
  BY <1>27, <1>0 DEF SigPipe, MemTypes, Sends, connVars, envVars, sVars, eVars, cVars
<1>28. ASSUME NEW c \in Conns, EpollWait(c) PROVE MemTypes'
  BY <1>28, <1>0 DEF EpollWait, MemTypes, Sends, connVars, envVars, sVars, eVars, cVars
<1>29. ASSUME NEW c \in Conns, TimeOut(c) PROVE MemTypes'
  BY <1>29, <1>0 DEF TimeOut, CloseBegin, MemTypes, Sends, connVars, envVars, sVars,
     eVars, cVars
<1>30. ASSUME NEW c \in Conns, Pool(c) PROVE MemTypes'
  BY <1>30, <1>0 DEF Pool, FreePsend, MemTypes, Sends, connVars, envVars, sVars, eVars,
     cVars
<1>31. ASSUME NEW c \in Conns, ClientReads(c) PROVE MemTypes'
  BY <1>31, <1>0 DEF ClientReads, MemTypes, Sends, connVars, envVars, sVars, eVars, cVars
<1>32. ASSUME NEW c \in Conns, ClientSends(c) PROVE MemTypes'
  BY <1>32, <1>0 DEF ClientSends, MemTypes, Sends, connVars, envVars, sVars, eVars, cVars
<1>33. ASSUME NEW c \in Conns, ClientCloses(c) PROVE MemTypes'
  BY <1>33, <1>0 DEF ClientCloses, MemTypes, Sends, connVars, envVars, sVars, eVars, cVars
<1>34. ASSUME NEW c \in Conns, ClientResets(c) PROVE MemTypes'
  BY <1>34, <1>0 DEF ClientResets, MemTypes, Sends, connVars, envVars, sVars, eVars, cVars
<1>35. ASSUME UNCHANGED vars PROVE MemTypes'
  BY <1>35, <1>0 DEF vars, MemTypes, Sends, connVars, envVars, sVars, eVars, cVars
<1>36. QED
  BY <1>1, <1>2, <1>3, <1>4, <1>5, <1>6, <1>7, <1>8, <1>9, <1>10, <1>11, <1>12, <1>13,
     <1>14, <1>15, <1>16, <1>17, <1>18, <1>19, <1>20, <1>21, <1>22, <1>23, <1>24, <1>25,
     <1>26, <1>27, <1>28, <1>29, <1>30, <1>31, <1>32, <1>33, <1>34, <1>35 DEF Next, SStep,
     EStep, Closers

(* What is left to send is part of one package, and fits the buffers.      *)
LEMMA NetTypesStep == Inv /\ [Next]_vars => NetTypes'
<1> SUFFICES ASSUME Inv, [Next]_vars PROVE NetTypes'
  OBVIOUS
<1>0. /\ NetTypes /\ ConnOf \in [Msgs -> Conns] /\ queue \in Seq(Msgs) /\ pos \in Nat \ {0}
      /\ pcS \in Sends => cS \in Conns
      /\ pcE \notin {"wait", "dead"} => cE \in Conns
      /\ Size \in Nat /\ Room \in Nat
  BY SendAssumption DEF Inv, BaseInv, BaseTypes, ControlInv, SendAssumption
<1>a. ASSUME NEW c \in Conns, NEW n, Sent(c, n), fdOpen[c] => psend[c] \in Msgs
      PROVE  wire' \in [Conns -> Seq(Msgs)] /\ inbuf' \in [Conns -> 0..Room]
             /\ peer' \in [Conns -> {"up", "shut", "reset", "gone"}] /\ unread' = unread
             /\ (n = -2 \/ n \in 0..left[c])
  <2>1. wire \in [Conns -> Seq(Msgs)] /\ left[c] \in 0..Size
    BY <1>0 DEF NetTypes
  <2>2. CASE n > 0
    <3>1. n \in Nat /\ psend[c] \in Msgs
      BY <1>a, <2>1, <2>2 DEF Sent, Writable
    <3>2. [i \in 1..n |-> psend[c]] \in Seq(Msgs)
      BY <3>1
    <3>3. wire[c] \o [i \in 1..n |-> psend[c]] \in Seq(Msgs)
      BY <2>1, <3>2, ConcatProperties
    <3>4. QED
      BY <1>a, <2>1, <2>2, <3>3 DEF Sent
  <2>3. CASE ~(n > 0)
    BY <1>a, <2>1, <2>3 DEF Sent
  <2>4. QED
    BY <2>2, <2>3
<1>1. ASSUME NEW m \in Msgs, MsgDropped(m) PROVE NetTypes'
  BY <1>1, <1>0 DEF MsgDropped, Post, NetTypes, Sends, connVars, envVars, sVars, eVars,
     cVars
<1>2. ASSUME NEW m \in Msgs, MsgCutsOff(m) PROVE NetTypes'
  BY <1>2, <1>0 DEF MsgCutsOff, CloseBegin, Post, NetTypes, Sends, connVars, envVars,
     sVars, eVars, cVars
<1>3. ASSUME NEW m \in Msgs, MsgQueued(m) PROVE NetTypes'
  BY <1>3, <1>0 DEF MsgQueued, Post, NetTypes, Sends, connVars, envVars, sVars, eVars, cVars
<1>4. ASSUME NEW k \in Closers, KCloses(k) PROVE NetTypes'
  BY <1>4, <1>0 DEF KCloses, KClose, KStep, CloseFd, ThrowOff, Park, NetTypes, Sends,
     connVars, envVars, sVars, eVars, cVars
<1>5. ASSUME SemWait PROVE NetTypes'
  BY <1>5, <1>0 DEF SemWait, SemReturns, NetTypes, Sends, connVars, envVars, sVars, eVars,
     cVars
<1>6. ASSUME SemInterrupted PROVE NetTypes'
  BY <1>6, <1>0 DEF SemInterrupted, SemReturns, NetTypes, Sends, connVars, envVars, sVars,
     eVars, cVars
<1>7. ASSUME ScanBegin PROVE NetTypes'
  BY <1>7, <1>0 DEF ScanBegin, NetTypes, Sends, connVars, envVars, sVars, eVars, cVars
<1>8. ASSUME ScanEnd PROVE NetTypes'
  BY <1>8, <1>0 DEF ScanEnd, NetTypes, Sends, connVars, envVars, sVars, eVars, cVars
<1>9. ASSUME ScanStale PROVE NetTypes'
  BY <1>9, <1>0 DEF ScanStale, NetTypes, Sends, connVars, envVars, sVars, eVars, cVars
<1>10. ASSUME ScanSkip PROVE NetTypes'
  BY <1>10, <1>0 DEF ScanSkip, NetTypes, Sends, connVars, envVars, sVars, eVars, cVars
<1>11. ASSUME ScanTake PROVE NetTypes'
  BY <1>11, <1>0, SMTT(40) DEF ScanTake, TakePackage, Unpending, NetTypes, Sends,
     connVars, envVars, sVars, eVars, cVars
<1>12. ASSUME SSend PROVE NetTypes'
  <2>1. cS \in Conns /\ (fdOpen[cS] => psend[cS] \in Msgs)
    BY <1>12, <1>0, HasPackage DEF SSend, Sends
  <2>2. PICK n \in SendResults(cS) :
          Transmit(cS, n) /\ left' = [left EXCEPT ![cS] = IF n >= 0 THEN @ - n ELSE @]
    BY <1>12 DEF SSend, TakeOff
  <2>3. Sent(cS, n)
    BY <2>1, <2>2, SendFacts DEF Inv
  <2>4. /\ wire' \in [Conns -> Seq(Msgs)] /\ inbuf' \in [Conns -> 0..Room]
        /\ peer' \in [Conns -> {"up", "shut", "reset", "gone"}] /\ unread' = unread
        /\ (n = -2 \/ n \in 0..left[cS])
    BY <1>a, <2>1, <2>3
  <2>5. left' \in [Conns -> 0..Size]
    BY <1>0, <2>1, <2>2, <2>4 DEF NetTypes
  <2>6. QED
    BY <1>0, <2>4, <2>5 DEF NetTypes
<1>13. ASSUME SFree PROVE NetTypes'
  BY <1>13, <1>0 DEF SFree, FreePsend, NetTypes, Sends, connVars, envVars, sVars, eVars,
     cVars
<1>14. ASSUME SClear PROVE NetTypes'
  BY <1>14, <1>0 DEF SClear, NetTypes, Sends, connVars, envVars, sVars, eVars, cVars
<1>15. ASSUME SZero PROVE NetTypes'
  BY <1>15, <1>0 DEF SZero, NetTypes, Sends, connVars, envVars, sVars, eVars, cVars
<1>16. ASSUME SThrow PROVE NetTypes'
  BY <1>16, <1>0 DEF SThrow, NetTypes, Sends, connVars, envVars, sVars, eVars, cVars
<1>17. ASSUME SArm PROVE NetTypes'
  BY <1>17, <1>0 DEF SArm, NetTypes, Sends, connVars, envVars, sVars, eVars, cVars
<1>18. ASSUME ERead PROVE NetTypes'
  BY <1>18, <1>0 DEF ERead, EDone, AfterIn, NetTypes, Sends, connVars, envVars, sVars,
     eVars, cVars
<1>19. ASSUME ECloses PROVE NetTypes'
  BY <1>19, <1>0 DEF ECloses, EClose, CloseFd, ThrowOff, Park, EDone, AfterIn, NetTypes,
     Sends, connVars, envVars, sVars, eVars, cVars
<1>20. ASSUME EOutHup PROVE NetTypes'
  BY <1>20, <1>0 DEF EOutHup, ThrowOff, EDone, NetTypes, Sends, connVars, envVars, sVars,
     eVars, cVars
<1>21. ASSUME EWrite PROVE NetTypes'
  <2>1. cE \in Conns /\ (fdOpen[cE] => psend[cE] \in Msgs)
    BY <1>21, <1>0, HasPackage DEF EWrite, WriteOn
  <2>2. PICK n \in SendResults(cE) :
          Transmit(cE, n) /\ left' = [left EXCEPT ![cE] = IF n >= 0 THEN @ - n ELSE @]
    BY <1>21 DEF EWrite, WriteOn, TakeOff
  <2>3. Sent(cE, n)
    BY <2>1, <2>2, SendFacts DEF Inv
  <2>4. /\ wire' \in [Conns -> Seq(Msgs)] /\ inbuf' \in [Conns -> 0..Room]
        /\ peer' \in [Conns -> {"up", "shut", "reset", "gone"}] /\ unread' = unread
        /\ (n = -2 \/ n \in 0..left[cE])
    BY <1>a, <2>1, <2>3
  <2>5. left' \in [Conns -> 0..Size]
    BY <1>0, <2>1, <2>2, <2>4 DEF NetTypes
  <2>6. QED
    BY <1>0, <2>4, <2>5 DEF NetTypes
<1>22. ASSUME EDisarm PROVE NetTypes'
  BY <1>22, <1>0 DEF EDisarm, EDone, NetTypes, Sends, connVars, envVars, sVars, eVars, cVars
<1>23. ASSUME EFree PROVE NetTypes'
  BY <1>23, <1>0 DEF EFree, FreePsend, EDone, NetTypes, Sends, connVars, envVars, sVars,
     eVars, cVars
<1>24. ASSUME EClear PROVE NetTypes'
  BY <1>24, <1>0 DEF EClear, EDone, NetTypes, Sends, connVars, envVars, sVars,
     eVars, cVars
<1>25. ASSUME EThrow PROVE NetTypes'
  BY <1>25, <1>0 DEF EThrow, ThrowOff, EDone, NetTypes, Sends, connVars, envVars, sVars,
     eVars, cVars
<1>26. ASSUME EPost PROVE NetTypes'
  BY <1>26, <1>0 DEF EPost, EDone, NetTypes, Sends, connVars, envVars, sVars, eVars, cVars
<1>27. ASSUME SigPipe PROVE NetTypes'
  BY <1>27, <1>0 DEF SigPipe, NetTypes, Sends, connVars, envVars, sVars, eVars, cVars
<1>28. ASSUME NEW c \in Conns, EpollWait(c) PROVE NetTypes'
  BY <1>28, <1>0 DEF EpollWait, NetTypes, Sends, connVars, envVars, sVars, eVars, cVars
<1>29. ASSUME NEW c \in Conns, TimeOut(c) PROVE NetTypes'
  BY <1>29, <1>0 DEF TimeOut, CloseBegin, NetTypes, Sends, connVars, envVars, sVars,
     eVars, cVars
<1>30. ASSUME NEW c \in Conns, Pool(c) PROVE NetTypes'
  BY <1>30, <1>0 DEF Pool, FreePsend, NetTypes, Sends, connVars, envVars, sVars, eVars,
     cVars
<1>31. ASSUME NEW c \in Conns, ClientReads(c) PROVE NetTypes'
  BY <1>31, <1>0 DEF ClientReads, NetTypes, Sends, connVars, envVars, sVars, eVars, cVars
<1>32. ASSUME NEW c \in Conns, ClientSends(c) PROVE NetTypes'
  BY <1>32, <1>0 DEF ClientSends, NetTypes, Sends, connVars, envVars, sVars, eVars, cVars
<1>33. ASSUME NEW c \in Conns, ClientCloses(c) PROVE NetTypes'
  BY <1>33, <1>0 DEF ClientCloses, NetTypes, Sends, connVars, envVars, sVars, eVars, cVars
<1>34. ASSUME NEW c \in Conns, ClientResets(c) PROVE NetTypes'
  BY <1>34, <1>0 DEF ClientResets, NetTypes, Sends, connVars, envVars, sVars, eVars, cVars
<1>35. ASSUME UNCHANGED vars PROVE NetTypes'
  BY <1>35, <1>0 DEF vars, NetTypes, Sends, connVars, envVars, sVars, eVars, cVars
<1>36. QED
  BY <1>1, <1>2, <1>3, <1>4, <1>5, <1>6, <1>7, <1>8, <1>9, <1>10, <1>11, <1>12, <1>13,
     <1>14, <1>15, <1>16, <1>17, <1>18, <1>19, <1>20, <1>21, <1>22, <1>23, <1>24, <1>25,
     <1>26, <1>27, <1>28, <1>29, <1>30, <1>31, <1>32, <1>33, <1>34, <1>35 DEF Next, SStep,
     EStep, Closers

-----------------------------------------------------------------------------
(* How S and E get to the statements that end a package, and away.         *)
Tracks ==
  /\ pcE' \in {"disarm", "free", "clear"} =>
       EWrite \/ (pcE \in {"disarm", "free", "clear"} /\ cE' = cE)
  /\ pcS' \in {"free", "clear"} => SSend \/ (pcS \in {"free", "clear"} /\ cS' = cS)
  /\ pcE' = "clear" => EFree \/ (pcE = "clear" /\ cE' = cE)
  /\ pcS' = "clear" => SFree \/ (pcS = "clear" /\ cS' = cS)
  /\ pcE \in {"clear", "dead"} => EClear \/ (pcE' \in {"clear", "dead"} /\ cE' = cE)
  /\ pcS \in {"clear", "dead"} => SClear \/ (pcS' \in {"clear", "dead"} /\ cS' = cS)

(* No socket is opened again, a reset is for good, nobody comes back to    *)
(* life, and only send() brings a thread to the end of a package.          *)
LEMMA OneWay ==
  ASSUME BaseInv, RestTypes, NetTypes, [Next]_vars
  PROVE  /\ \A c \in Conns : fdOpen'[c] => fdOpen[c]
         /\ \A c \in Conns : peer[c] \in {"reset", "gone"} => peer'[c] \in {"reset", "gone"}
         /\ pcE' # "dead" => pcE # "dead"
         /\ Tracks
<1> DEFINE Goal ==
      /\ \A d \in Conns : fdOpen'[d] => fdOpen[d]
      /\ \A d \in Conns : peer[d] \in {"reset", "gone"} => peer'[d] \in {"reset", "gone"}
      /\ pcE' # "dead" => pcE # "dead"
      /\ Tracks
<1>0. /\ fdOpen \in [Conns -> BOOLEAN] /\ peer \in [Conns -> {"up", "shut", "reset", "gone"}]
      /\ pcE \in {"wait", "in", "out", "close", "test", "dec", "park", "disarm",
                  "free", "clear", "dec2", "post", "dead"}
      /\ pcS \in {"wait", "lock", "scan", "send", "free", "clear", "zero", "inc", "arm", "dead"}
      /\ (lock = "dead" <=> pcS = "dead") /\ (lock = "dead" <=> pcE = "dead")
  BY DEF BaseInv, BaseTypes, ControlInv, RestTypes, NetTypes
<1>1. ASSUME NEW m \in Msgs, MsgDropped(m) PROVE Goal
  BY <1>1, <1>0 DEF Tracks, MsgDropped, Post, connVars, envVars, sVars, eVars, cVars
<1>2. ASSUME NEW m \in Msgs, MsgCutsOff(m) PROVE Goal
  BY <1>2, <1>0 DEF Tracks, MsgCutsOff, CloseBegin, Post, connVars, envVars, sVars, eVars,
     cVars
<1>3. ASSUME NEW m \in Msgs, MsgQueued(m) PROVE Goal
  BY <1>3, <1>0 DEF Tracks, MsgQueued, Post, connVars, envVars, sVars, eVars, cVars
<1>4. ASSUME NEW k \in Closers, KCloses(k) PROVE Goal
  BY <1>4, <1>0 DEF Tracks, KCloses, KClose, KStep, CloseFd, ThrowOff, Park, connVars,
     envVars,
     sVars, eVars, cVars
<1>5. ASSUME SemWait PROVE Goal
  BY <1>5, <1>0 DEF Tracks, SemWait, SemReturns, connVars, envVars, sVars, eVars, cVars
<1>6. ASSUME SemInterrupted PROVE Goal
  BY <1>6, <1>0 DEF Tracks, SemInterrupted, SemReturns, connVars, envVars, sVars, eVars,
     cVars
<1>7. ASSUME ScanBegin PROVE Goal
  BY <1>7, <1>0 DEF Tracks, ScanBegin, connVars, envVars, sVars, eVars, cVars
<1>8. ASSUME ScanEnd PROVE Goal
  BY <1>8, <1>0 DEF Tracks, ScanEnd, connVars, envVars, sVars, eVars, cVars
<1>9. ASSUME ScanStale PROVE Goal
  BY <1>9, <1>0 DEF Tracks, ScanStale, connVars, envVars, sVars, eVars, cVars
<1>10. ASSUME ScanSkip PROVE Goal
  BY <1>10, <1>0 DEF Tracks, ScanSkip, connVars, envVars, sVars, eVars, cVars
<1>11. ASSUME ScanTake PROVE Goal
  BY <1>11, <1>0 DEF Tracks, ScanTake, TakePackage, Unpending, connVars, envVars, sVars,
     eVars,
     cVars
<1>12. ASSUME SSend PROVE Goal
  BY <1>12, <1>0 DEF Tracks, SSend, TakeOff, Transmit, connVars, envVars, sVars, eVars,
     cVars
<1>13. ASSUME SFree PROVE Goal
  BY <1>13, <1>0 DEF Tracks, SFree, FreePsend, connVars, envVars, sVars, eVars, cVars
<1>14. ASSUME SClear PROVE Goal
  BY <1>14, <1>0 DEF Tracks, SClear, connVars, envVars, sVars, eVars, cVars
<1>15. ASSUME SZero PROVE Goal
  BY <1>15, <1>0 DEF Tracks, SZero, connVars, envVars, sVars, eVars, cVars
<1>16. ASSUME SThrow PROVE Goal
  BY <1>16, <1>0 DEF Tracks, SThrow, connVars, envVars, sVars, eVars, cVars
<1>17. ASSUME SArm PROVE Goal
  BY <1>17, <1>0 DEF Tracks, SArm, connVars, envVars, sVars, eVars, cVars
<1>18. ASSUME ERead PROVE Goal
  BY <1>18, <1>0 DEF Tracks, ERead, EDone, AfterIn, connVars, envVars, sVars, eVars, cVars
<1>19. ASSUME ECloses PROVE Goal
  BY <1>19, <1>0 DEF Tracks, ECloses, EClose, CloseFd, ThrowOff, Park, EDone, AfterIn,
     connVars,
     envVars, sVars, eVars, cVars
<1>20. ASSUME EOutHup PROVE Goal
  BY <1>20, <1>0 DEF Tracks, EOutHup, ThrowOff, EDone, connVars, envVars, sVars, eVars,
     cVars
<1>21. ASSUME EWrite PROVE Goal
  BY <1>21, <1>0 DEF Tracks, EWrite, WriteOn, TakeOff, Transmit, EDone, connVars, envVars,
     sVars,
     eVars,
     cVars
<1>22. ASSUME EDisarm PROVE Goal
  BY <1>22, <1>0 DEF Tracks, EDisarm, EDone, connVars, envVars, sVars, eVars, cVars
<1>23. ASSUME EFree PROVE Goal
  BY <1>23, <1>0 DEF Tracks, EFree, FreePsend, EDone, connVars, envVars, sVars, eVars, cVars
<1>24. ASSUME EClear PROVE Goal
  BY <1>24, <1>0 DEF Tracks, EClear, EDone, connVars, envVars, sVars, eVars, cVars
<1>25. ASSUME EThrow PROVE Goal
  BY <1>25, <1>0 DEF Tracks, EThrow, ThrowOff, EDone, connVars, envVars, sVars, eVars, cVars
<1>26. ASSUME EPost PROVE Goal
  BY <1>26, <1>0 DEF Tracks, EPost, EDone, connVars, envVars, sVars, eVars, cVars
<1>27. ASSUME SigPipe PROVE Goal
  BY <1>27, <1>0 DEF Tracks, SigPipe, connVars, envVars, sVars, eVars, cVars
<1>28. ASSUME NEW c \in Conns, EpollWait(c) PROVE Goal
  BY <1>28, <1>0 DEF Tracks, EpollWait, connVars, envVars, sVars, eVars, cVars
<1>29. ASSUME NEW c \in Conns, TimeOut(c) PROVE Goal
  BY <1>29, <1>0 DEF Tracks, TimeOut, CloseBegin, connVars, envVars, sVars, eVars, cVars
<1>30. ASSUME NEW c \in Conns, Pool(c) PROVE Goal
  BY <1>30, <1>0 DEF Tracks, Pool, FreePsend, connVars, envVars, sVars, eVars, cVars
<1>31. ASSUME NEW c \in Conns, ClientReads(c) PROVE Goal
  BY <1>31, <1>0 DEF Tracks, ClientReads, connVars, envVars, sVars, eVars, cVars
<1>32. ASSUME NEW c \in Conns, ClientSends(c) PROVE Goal
  BY <1>32, <1>0 DEF Tracks, ClientSends, connVars, envVars, sVars, eVars, cVars
<1>33. ASSUME NEW c \in Conns, ClientCloses(c) PROVE Goal
  BY <1>33, <1>0 DEF Tracks, ClientCloses, connVars, envVars, sVars, eVars, cVars
<1>34. ASSUME NEW c \in Conns, ClientResets(c) PROVE Goal
  BY <1>34, <1>0 DEF Tracks, ClientResets, connVars, envVars, sVars, eVars, cVars
<1>35. ASSUME UNCHANGED vars PROVE Goal
  BY <1>35, <1>0 DEF Tracks, vars, connVars, envVars, sVars, eVars, cVars
<1>36. QED
  BY <1>1, <1>2, <1>3, <1>4, <1>5, <1>6, <1>7, <1>8, <1>9, <1>10, <1>11, <1>12, <1>13,
     <1>14, <1>15, <1>16, <1>17, <1>18, <1>19, <1>20, <1>21, <1>22, <1>23, <1>24, <1>25,
     <1>26, <1>27, <1>28, <1>29, <1>30, <1>31, <1>32, <1>33, <1>34, <1>35 DEF Next, SStep,
     EStep, Closers

(* A pending package on an open connection stays somebody's business.      *)
LEMMA PendStep == Inv /\ ~UnreadAtClose /\ [Next]_vars => PendInv'
<1> SUFFICES ASSUME Inv, ~UnreadAtClose, [Next]_vars PROVE PendInv'
  OBVIOUS
<1>a. SUFFICES ASSUME NEW d \in Conns, fdOpen'[d], fdOpen[d], pcE # "dead", pcE' # "dead",
                      Pending(d)
               PROVE  Pending(d)'
  BY OneWay DEF Inv, PendInv
<1>0. /\ throw \in [Conns -> Int] /\ psend \in [Conns -> Msgs \cup {NoMsg}]
      /\ armed \in [Conns -> BOOLEAN] /\ fdOpen \in [Conns -> BOOLEAN]
      /\ state \in [Conns -> {"live", "parked", "pooled"}]
      /\ peer \in [Conns -> {"up", "shut", "reset", "gone"}] /\ NoMsg \notin Msgs /\ NoConn \notin Conns
      /\ ConnOf \in [Msgs -> Conns] /\ queue \in Seq(Msgs) /\ pos \in Nat \ {0}
      /\ pcS \in {"wait", "lock", "scan", "send", "free", "clear", "zero", "inc", "arm", "dead"}
      /\ pcE \in {"wait", "in", "out", "close", "test", "dec", "park", "disarm",
                  "free", "clear", "dec2", "post", "dead"}
  BY SendAssumption DEF Inv, BaseInv, BaseTypes, RestTypes, MemTypes, NetTypes,
     SendAssumption
<1>b. /\ pcS \in {"send", "free", "clear", "zero", "inc", "arm"} => cS \in Conns
      /\ pcS \in {"wait", "lock", "scan"} => cS = NoConn
      /\ pcE \notin {"wait", "dead"} => cE \in Conns
      /\ pcS # "dead"
  BY <1>a DEF Inv, BaseInv, ControlInv, Sends
<1>c. /\ \A c \in Conns : state[c] # "live" => ~fdOpen[c]
      /\ pcE \in {"test", "dec", "park"} => ~fdOpen[cE]
      /\ \A k \in Closers : pcC[k] \in {"test", "dec", "park"} => ~fdOpen[cC[k]]
  BY DEF Inv, ClosedInv, Closed
<1>d. /\ \A c \in Conns : peer[c] # "up" => ~unread[c]
      /\ (pcE \notin {"wait", "dead"} /\ "HUP" \in mask) => peer[cE] # "up"
      /\ pcE = "out" => "OUT" \in mask
      /\ pcE = "out" /\ "HUP" \in mask => ~fdOpen[cE]
  BY DEF Inv, PeerInv
<1>1. ASSUME NEW m \in Msgs, MsgDropped(m) PROVE Pending(d)'
  BY <1>1, <1>a, <1>0, <1>b, <1>c, <1>d DEF MsgDropped, Post, Pending, InFlight, connVars,
     envVars, sVars, eVars, cVars
<1>2. ASSUME NEW m \in Msgs, MsgCutsOff(m) PROVE Pending(d)'
  BY <1>2, <1>a, <1>0, <1>b, <1>c, <1>d DEF MsgCutsOff, CloseBegin, Post, Pending,
     InFlight, connVars, envVars, sVars, eVars, cVars
<1>3. ASSUME NEW m \in Msgs, MsgQueued(m) PROVE Pending(d)'
  BY <1>3, <1>a, <1>0, <1>b, <1>c, <1>d DEF MsgQueued, Post, Pending, InFlight, connVars,
     envVars, sVars, eVars, cVars
<1>4. ASSUME NEW k \in Closers, KCloses(k) PROVE Pending(d)'
  BY <1>4, <1>a, <1>0, <1>b, <1>c, <1>d, ZenonT(60) DEF KCloses, KClose, KStep, CloseFd,
     ThrowOff, Park, Pending, InFlight, connVars, envVars, sVars, eVars, cVars
<1>5. ASSUME SemWait PROVE Pending(d)'
  BY <1>5, <1>a, <1>0, <1>b, <1>c, <1>d DEF SemWait, SemReturns, Pending, InFlight,
     connVars, envVars, sVars, eVars, cVars
<1>6. ASSUME SemInterrupted PROVE Pending(d)'
  BY <1>6, <1>a, <1>0, <1>b, <1>c, <1>d DEF SemInterrupted, SemReturns, Pending, InFlight,
     connVars, envVars, sVars, eVars, cVars
<1>7. ASSUME ScanBegin PROVE Pending(d)'
  BY <1>7, <1>a, <1>0, <1>b, <1>c, <1>d DEF ScanBegin, Pending, InFlight, connVars,
     envVars, sVars, eVars, cVars
<1>8. ASSUME ScanEnd PROVE Pending(d)'
  BY <1>8, <1>a, <1>0, <1>b, <1>c, <1>d DEF ScanEnd, Pending, InFlight, connVars, envVars,
     sVars, eVars, cVars
<1>9. ASSUME ScanStale PROVE Pending(d)'
  BY <1>9, <1>a, <1>0, <1>b, <1>c, <1>d DEF ScanStale, Pending, InFlight, connVars,
     envVars, sVars, eVars, cVars
<1>10. ASSUME ScanSkip PROVE Pending(d)'
  BY <1>10, <1>a, <1>0, <1>b, <1>c, <1>d DEF ScanSkip, Pending, InFlight, connVars,
     envVars, sVars, eVars, cVars
<1>11. ASSUME ScanTake PROVE Pending(d)'
  BY <1>11, <1>a, <1>0, <1>b, <1>c, <1>d DEF ScanTake, TakePackage, Unpending, Pending,
     InFlight, connVars, envVars, sVars, eVars, cVars
<1>12. ASSUME SSend PROVE Pending(d)'
  <2>1. pcS = "send" /\ cS \in Conns
    BY <1>12, <1>b DEF SSend
  <2>2. PICK n \in SendResults(cS) :
          Transmit(cS, n) /\ pcS' = IF n \in {left[cS], -2} THEN "free" ELSE "inc"
    BY <1>12 DEF SSend
  <2>3. Sent(cS, n) /\ UNCHANGED <<armed, fdOpen, psend, throw, cS, eVars>>
    BY <1>12, <2>1, <2>2, SendFacts DEF SSend, Inv
  <2>4. cS = d => n = -2 \/ peer[d] # "gone"
    BY <2>3 DEF Sent, Writable
  <2>5. cS # d => peer'[d] = peer[d]
    BY <2>1, <2>3 DEF Sent
  <2>6. peer[d] = "gone" => peer'[d] = "gone"
    BY <2>3, <2>4, <2>5, <1>a DEF Sent
  <2>7. CASE n \in {left[cS], -2}
    BY <1>0, <1>a, <1>b, <2>1, <2>2, <2>3, <2>6, <2>7 DEF Pending, InFlight, eVars
  <2>8. CASE n \notin {left[cS], -2}
    BY <1>0, <1>a, <1>b, <2>1, <2>2, <2>3, <2>4, <2>6, <2>8 DEF Pending, InFlight, eVars
  <2>9. QED
    BY <2>7, <2>8
<1>13. ASSUME SFree PROVE Pending(d)'
  BY <1>13, <1>a, <1>0, <1>b, <1>c, <1>d DEF SFree, FreePsend, Pending, InFlight,
     connVars, envVars,
     sVars, eVars, cVars
<1>14. ASSUME SClear PROVE Pending(d)'
  BY <1>14, <1>a, <1>0, <1>b, <1>c, <1>d DEF SClear, Pending, InFlight, connVars, envVars,
     sVars, eVars, cVars
<1>15. ASSUME SZero PROVE Pending(d)'
  BY <1>15, <1>a, <1>0, <1>b, <1>c, <1>d DEF SZero, Pending, InFlight, connVars, envVars,
     sVars, eVars, cVars
<1>16. ASSUME SThrow PROVE Pending(d)'
  BY <1>16, <1>a, <1>0, <1>b, <1>c, <1>d DEF SThrow, Pending, InFlight, connVars, envVars,
     sVars, eVars, cVars
<1>17. ASSUME SArm PROVE Pending(d)'
  BY <1>17, <1>a, <1>0, <1>b, <1>c, <1>d DEF SArm, Pending, InFlight, connVars, envVars,
     sVars, eVars, cVars
<1>18. ASSUME ERead PROVE Pending(d)'
  BY <1>18, <1>a, <1>0, <1>b, <1>c, <1>d DEF ERead, EDone, AfterIn, Pending, InFlight,
     connVars, envVars, sVars, eVars, cVars
<1>19. ASSUME ECloses PROVE Pending(d)'
  BY <1>19, <1>a, <1>0, <1>b, <1>c, <1>d DEF ECloses, EClose, CloseFd, ThrowOff, Park,
     EDone, AfterIn, Pending, InFlight, connVars, envVars, sVars, eVars, cVars
<1>20. ASSUME EOutHup PROVE Pending(d)'
  BY <1>20, <1>a, <1>0, <1>b, <1>c, <1>d DEF EOutHup, ThrowOff, EDone, Pending, InFlight,
     connVars, envVars, sVars, eVars, cVars
<1>21. ASSUME EWrite PROVE Pending(d)'
  <2>1. pcE = "out" /\ cE \in Conns /\ "HUP" \notin mask
    BY <1>21, <1>b DEF EWrite, WriteOn
  <2>2. PICK n \in SendResults(cE) :
          Transmit(cE, n) /\ EDone(IF n = left[cE] THEN "disarm" ELSE IF n = -2 THEN "free" ELSE "wait")
    BY <1>21 DEF EWrite, WriteOn
  <2>3. Sent(cE, n) /\ UNCHANGED <<armed, throw, psend, sVars>>
    BY <1>21, <2>1, <2>2, SendFacts DEF EWrite, WriteOn, Inv
  <2>4. cE # d => peer'[d] = peer[d]
    BY <2>1, <2>3 DEF Sent
  <2>5. peer[d] = "gone" => peer'[d] = "gone"
    BY <2>3, <2>4, <1>a DEF Sent, Writable
  <2>6. cE = d => throw[d] = 1 /\ psend[d] # NoMsg /\ cS # d /\ armed[d]
    BY <1>a, <2>1 DEF Pending, InFlight
  <2>7. cE = d /\ n = -2 => peer'[d] = "gone"
    BY <1>a, <2>3 DEF Sent
  <2>8. left[cE] # -2 /\ n \in Int /\ left[cE] \in Int
    BY <1>0, <2>1, <2>3, SendAssumption DEF Inv, NetTypes, Sent, SendAssumption
  <2>9. CASE cE = d
    BY <1>0, <1>a, <2>1, <2>2, <2>3, <2>5, <2>6, <2>7, <2>8, <2>9 DEF Pending, InFlight,
       EDone, sVars
  <2>10. CASE cE # d
    BY <1>0, <1>a, <1>b, <2>1, <2>2, <2>3, <2>4, <2>10 DEF Pending, InFlight, EDone, sVars
  <2>11. QED
    BY <2>9, <2>10
<1>22. ASSUME EDisarm PROVE Pending(d)'
  BY <1>22, <1>a, <1>0, <1>b, <1>c, <1>d DEF EDisarm, EDone, Pending, InFlight, connVars,
     envVars, sVars, eVars, cVars
<1>23. ASSUME EFree PROVE Pending(d)'
  BY <1>23, <1>a, <1>0, <1>b, <1>c, <1>d DEF EFree, FreePsend, EDone, Pending, InFlight,
     connVars, envVars, sVars, eVars, cVars
<1>24. ASSUME EClear PROVE Pending(d)'
  BY <1>24, <1>a, <1>0, <1>b, <1>c, <1>d DEF EClear, EDone, Pending, InFlight,
     connVars, envVars, sVars, eVars, cVars
<1>25. ASSUME EThrow PROVE Pending(d)'
  BY <1>25, <1>a, <1>0, <1>b, <1>c, <1>d DEF EThrow, ThrowOff, EDone, Pending, InFlight,
     connVars, envVars, sVars, eVars, cVars
<1>26. ASSUME EPost PROVE Pending(d)'
  BY <1>26, <1>a, <1>0, <1>b, <1>c, <1>d DEF EPost, EDone, Pending, InFlight, connVars,
     envVars, sVars, eVars, cVars
<1>27. ASSUME SigPipe PROVE Pending(d)'
  BY <1>27, <1>a, <1>0, <1>b, <1>c, <1>d DEF SigPipe, Pending, InFlight, connVars,
     envVars, sVars, eVars, cVars
<1>28. ASSUME NEW c \in Conns, EpollWait(c) PROVE Pending(d)'
  BY <1>28, <1>a, <1>0, <1>b, <1>c, <1>d DEF EpollWait, Ready, Pending, InFlight,
     connVars, envVars, sVars, eVars, cVars
<1>29. ASSUME NEW c \in Conns, TimeOut(c) PROVE Pending(d)'
  BY <1>29, <1>a, <1>0, <1>b, <1>c, <1>d DEF TimeOut, CloseBegin, Pending, InFlight,
     connVars, envVars, sVars, eVars, cVars
<1>30. ASSUME NEW c \in Conns, Pool(c) PROVE Pending(d)'
  BY <1>30, <1>a, <1>0, <1>b, <1>c, <1>d DEF Pool, FreePsend, Pending, InFlight, connVars,
     envVars, sVars, eVars, cVars
<1>31. ASSUME NEW c \in Conns, ClientReads(c) PROVE Pending(d)'
  BY <1>31, <1>a, <1>0, <1>b, <1>c, <1>d DEF ClientReads, Pending, InFlight, connVars,
     envVars, sVars, eVars, cVars
<1>32. ASSUME NEW c \in Conns, ClientSends(c) PROVE Pending(d)'
  BY <1>32, <1>a, <1>0, <1>b, <1>c, <1>d DEF ClientSends, Pending, InFlight, connVars,
     envVars, sVars, eVars, cVars
<1>33. ASSUME NEW c \in Conns, ClientCloses(c) PROVE Pending(d)'
  BY <1>33, <1>a, <1>0, <1>b, <1>c, <1>d, ~UnreadAtClose DEF ClientCloses, Pending,
     InFlight, connVars, envVars, sVars, eVars, cVars
<1>34. ASSUME NEW c \in Conns, ClientResets(c) PROVE Pending(d)'
  BY <1>34, <1>a, <1>0, <1>b, <1>c, <1>d DEF ClientResets, Pending, InFlight, connVars,
     envVars, sVars, eVars, cVars
<1>35. ASSUME UNCHANGED vars PROVE Pending(d)'
  BY <1>35, <1>a, <1>0, <1>b, <1>c, <1>d DEF vars, Pending, InFlight, connVars, envVars,
     sVars, eVars, cVars
<1>36. QED
  BY <1>1, <1>2, <1>3, <1>4, <1>5, <1>6, <1>7, <1>8, <1>9, <1>10, <1>11, <1>12, <1>13,
     <1>14, <1>15, <1>16, <1>17, <1>18, <1>19, <1>20, <1>21, <1>22, <1>23, <1>24, <1>25,
     <1>26, <1>27, <1>28, <1>29, <1>30, <1>31, <1>32, <1>33, <1>34, <1>35 DEF Next, SStep,
     EStep, Closers

-----------------------------------------------------------------------------
(* Most steps touch no package: neither its memory nor what is on the wire.*)
Calm == UNCHANGED <<queue, posted, freed, twice, psend, left, wire>>
Busy ==
  \/ \E m \in Msgs : MsgDropped(m) \/ MsgCutsOff(m) \/ MsgQueued(m)
  \/ ScanStale \/ ScanTake \/ SSend \/ SFree \/ SClear
  \/ EWrite \/ EFree \/ EClear
  \/ \E c \in Conns : Pool(c)

(* Every step is one or the other.                                         *)
LEMMA CalmSteps == [Next]_vars => Calm \/ Busy
<1> SUFFICES ASSUME [Next]_vars PROVE Calm \/ Busy
  OBVIOUS
<1>1. ASSUME NEW k \in Closers, KCloses(k) PROVE Calm
  BY <1>1 DEF KCloses, KClose, KStep, CloseFd, ThrowOff, Park, Calm, connVars, envVars
<1>2. ASSUME SemWait PROVE Calm
  BY <1>2 DEF SemWait, SemReturns, Calm, connVars, envVars
<1>3. ASSUME SemInterrupted PROVE Calm
  BY <1>3 DEF SemInterrupted, SemReturns, Calm, connVars, envVars
<1>4. ASSUME ScanBegin PROVE Calm
  BY <1>4 DEF ScanBegin, Calm, connVars, envVars
<1>5. ASSUME ScanEnd PROVE Calm
  BY <1>5 DEF ScanEnd, Calm, connVars, envVars
<1>6. ASSUME ScanSkip PROVE Calm
  BY <1>6 DEF ScanSkip, Calm, connVars, envVars
<1>7. ASSUME SZero PROVE Calm
  BY <1>7 DEF SZero, Calm, connVars, envVars
<1>8. ASSUME SThrow PROVE Calm
  BY <1>8 DEF SThrow, Calm, connVars, envVars
<1>9. ASSUME SArm PROVE Calm
  BY <1>9 DEF SArm, Calm, connVars, envVars
<1>10. ASSUME ERead PROVE Calm
  BY <1>10 DEF ERead, EDone, AfterIn, Calm, connVars, envVars
<1>11. ASSUME ECloses PROVE Calm
  BY <1>11 DEF ECloses, EClose, CloseFd, ThrowOff, Park, EDone, AfterIn, Calm, connVars,
     envVars
<1>12. ASSUME EOutHup PROVE Calm
  BY <1>12 DEF EOutHup, ThrowOff, EDone, Calm, connVars, envVars
<1>13. ASSUME EDisarm PROVE Calm
  BY <1>13 DEF EDisarm, EDone, Calm, connVars, envVars
<1>14. ASSUME EThrow PROVE Calm
  BY <1>14 DEF EThrow, ThrowOff, EDone, Calm, connVars, envVars
<1>15. ASSUME EPost PROVE Calm
  BY <1>15 DEF EPost, EDone, Calm, connVars, envVars
<1>16. ASSUME SigPipe PROVE Calm
  BY <1>16 DEF SigPipe, Calm, connVars, envVars
<1>17. ASSUME NEW c \in Conns, EpollWait(c) PROVE Calm
  BY <1>17 DEF EpollWait, Calm, connVars, envVars
<1>18. ASSUME NEW c \in Conns, TimeOut(c) PROVE Calm
  BY <1>18 DEF TimeOut, CloseBegin, Calm, connVars, envVars
<1>19. ASSUME NEW c \in Conns, ClientReads(c) PROVE Calm
  BY <1>19 DEF ClientReads, Calm, connVars, envVars
<1>20. ASSUME NEW c \in Conns, ClientSends(c) PROVE Calm
  BY <1>20 DEF ClientSends, Calm, connVars, envVars
<1>21. ASSUME NEW c \in Conns, ClientCloses(c) PROVE Calm
  BY <1>21 DEF ClientCloses, Calm, connVars, envVars
<1>22. ASSUME NEW c \in Conns, ClientResets(c) PROVE Calm
  BY <1>22 DEF ClientResets, Calm, connVars, envVars
<1>23. ASSUME UNCHANGED vars PROVE Calm
  BY <1>23 DEF vars, Calm, connVars, envVars
<1>24. QED
  BY <1>1, <1>2, <1>3, <1>4, <1>5, <1>6, <1>7, <1>8, <1>9, <1>10, <1>11, <1>12, <1>13,
     <1>14,
     <1>15, <1>16, <1>17, <1>18, <1>19, <1>20, <1>21, <1>22, <1>23 DEF Next, SStep, EStep,
     Closers, Busy

(* A package is freed by who has it, and then                              *)
LEMMA FreeKeepsOwners ==
  ASSUME OwnInv, MemTypes, NEW c \in Conns, FreePsend(c), UNCHANGED <<queue, posted, psend>>,
         \A d \in Conns : fdOpen'[d] => fdOpen[d]
  PROVE  OwnInv'
<1>1. freed' = freed \cup ({psend[c]} \ {NoMsg})
  BY DEF FreePsend
<1>2. psend \in [Conns -> Msgs \cup {NoMsg}] /\ posted \subseteq Msgs /\ ConnOf \in [Msgs -> Conns]
      /\ NoMsg \notin Msgs
  BY SendAssumption DEF MemTypes, SendAssumption
<1>3. \A i \in 1..Len(queue) : queue[i] \in posted \ freed'
  BY <1>1, <1>2 DEF OwnInv
<1>4. QED
  BY <1>1, <1>2, <1>3 DEF OwnInv, InQueue

(* the pointer cleared: on an open connection, of a freed package.         *)
LEMMA ClearKeepsOwners ==
  ASSUME OwnInv, ReleaseInv, MemTypes, NEW c \in Conns, pcE # "dead", Clearing(c),
         psend' = [psend EXCEPT ![c] = NoMsg], UNCHANGED <<queue, posted, freed>>,
         \A d \in Conns : fdOpen'[d] => fdOpen[d]
  PROVE  OwnInv'
<1>1. psend \in [Conns -> Msgs \cup {NoMsg}] /\ posted \subseteq Msgs /\ ConnOf \in [Msgs -> Conns]
      /\ NoMsg \notin Msgs
  BY SendAssumption DEF MemTypes, SendAssumption
<1>2. fdOpen[c] => psend[c] \in freed
  BY DEF ReleaseInv
<1>3. ASSUME NEW m \in posted, fdOpen'[ConnOf[m]]
      PROVE  m \in freed \/ InQueue(m) \/ psend'[ConnOf[m]] = m
  BY <1>1, <1>2, <1>3 DEF OwnInv
<1>4. QED
  BY <1>1, <1>3 DEF OwnInv, InQueue

(* What is on the queue after the k-th package was taken off.              *)
LEMMA EraseOwners ==
  ASSUME OwnInv, queue \in Seq(Msgs), NEW k \in 1..Len(queue), queue' = Erase(k)
  PROVE  /\ \A i, j \in 1..Len(queue') : queue'[i] = queue'[j] => i = j
         /\ \A m : InQueue(m)' <=> InQueue(m) /\ m # queue[k]
<1> DEFINE old(i) == IF i < k THEN i ELSE i + 1
<1>1. /\ Len(queue) \in Nat /\ Len(queue') = Len(queue) - 1
      /\ \A i \in 1..Len(queue') : queue'[i] = queue[old(i)] /\ old(i) \in 1..Len(queue) \ {k}
  BY EraseFacts
<1>2. \A i, j \in 1..Len(queue) : queue[i] = queue[j] => i = j
  BY DEF OwnInv
<1>3. ASSUME NEW i \in 1..Len(queue'), NEW j \in 1..Len(queue'), queue'[i] = queue'[j]
      PROVE  i = j
  <2>1. old(i) = old(j)
    BY <1>1, <1>2, <1>3
  <2>2. QED
    BY <1>1, <2>1
<1>4. ASSUME NEW m PROVE InQueue(m)' <=> InQueue(m) /\ m # queue[k]
  <2>1. ASSUME NEW i \in 1..Len(queue'), queue'[i] = m PROVE InQueue(m) /\ m # queue[k]
    BY <1>1, <1>2, <2>1 DEF InQueue
  <2>2. ASSUME NEW i \in 1..Len(queue), queue[i] = m, m # queue[k]
        PROVE  \E j \in 1..Len(queue') : queue'[j] = m
    <3>1. CASE i < k
      <4>1. i \in 1..Len(queue') /\ old(i) = i
        BY <1>1, <3>1
      <4>2. QED
        BY <1>1, <2>2, <4>1
    <3>2. CASE ~(i < k)
      <4>1. i - 1 \in 1..Len(queue') /\ old(i - 1) = i
        BY <1>1, <2>2, <3>2
      <4>2. QED
        BY <1>1, <2>2, <4>1
    <3>3. QED
      BY <3>1, <3>2
  <2>3. QED
    BY <2>1, <2>2 DEF InQueue
<1>5. QED
  BY <1>3, <1>4

(* S takes a package only for a connection that has none.                  *)
LEMMA TakesOneAtATime ==
  ASSUME Inv, ScanTake
  PROVE  /\ pos \in 1..Len(queue) /\ queue' = Erase(pos) /\ queue[pos] \in Msgs
         /\ ConnOf[queue[pos]] \in Conns /\ pcE # "dead"
         /\ fdOpen[ConnOf[queue[pos]]] => psend[ConnOf[queue[pos]]] = NoMsg
         /\ fdOpen[ConnOf[queue[pos]]] => throw[ConnOf[queue[pos]]] = 0
<1> DEFINE c == ConnOf[queue[pos]]
<1>1. queue \in Seq(Msgs) /\ pos \in Nat \ {0} /\ ConnOf \in [Msgs -> Conns] /\ NoConn \notin Conns
  BY SendAssumption DEF Inv, BaseInv, BaseTypes, SendAssumption
<1>2. pcS = "scan" /\ pos <= Len(queue) /\ queue' = Erase(pos) /\ throw[c] <= 0
  BY DEF ScanTake, TakePackage, Unpending
<1>3. pos \in 1..Len(queue) /\ queue[pos] \in Msgs /\ c \in Conns
  BY <1>1, <1>2
<1>4. cS = NoConn /\ pcE # "dead"
  BY <1>2 DEF Inv, BaseInv, ControlInv, Holds
<1>5. ASSUME fdOpen[c] PROVE psend[c] = NoMsg /\ throw[c] = 0
  BY <1>1, <1>2, <1>3, <1>4, <1>5 DEF Inv, PendInv, Pending
<1>6. QED
  BY <1>2, <1>3, <1>4, <1>5

(* No step gives a package a second owner, or lets one of an open          *)
(* connection go.                                                          *)
LEMMA OwnStep == Inv /\ [Next]_vars => OwnInv'
<1> SUFFICES ASSUME Inv, [Next]_vars PROVE OwnInv'
  OBVIOUS
<1>0. /\ OwnInv /\ MemTypes /\ queue \in Seq(Msgs) /\ pos \in Nat \ {0}
      /\ psend \in [Conns -> Msgs \cup {NoMsg}] /\ posted \subseteq Msgs /\ freed \subseteq posted
      /\ ConnOf \in [Msgs -> Conns] /\ NoMsg \notin Msgs
  BY SendAssumption DEF Inv, BaseInv, BaseTypes, MemTypes, SendAssumption
<1>a. \A c \in Conns : fdOpen'[c] => fdOpen[c]
  BY OneWay DEF Inv
<1>1. CASE Calm
  BY <1>0, <1>1, <1>a DEF Calm, OwnInv, InQueue
<1>2. ASSUME NEW m \in Msgs, MsgDropped(m) \/ MsgCutsOff(m) PROVE OwnInv'
  <2>1. /\ posted' = posted \cup {m} /\ freed' = freed \cup {m} /\ m \notin posted
        /\ UNCHANGED <<queue, psend>>
    BY <1>2 DEF MsgDropped, MsgCutsOff, Post, connVars
  <2>2. QED
    BY <1>0, <1>a, <2>1 DEF OwnInv, InQueue
<1>3. ASSUME NEW m \in Msgs, MsgQueued(m) PROVE OwnInv'
  <2>1. /\ posted' = posted \cup {m} /\ m \notin posted /\ queue' = Append(queue, m)
        /\ UNCHANGED <<freed, psend>>
    BY <1>3 DEF MsgQueued, Post
  <2>2. /\ Len(queue') = Len(queue) + 1 /\ Len(queue) \in Nat /\ queue'[Len(queue) + 1] = m
        /\ \A i \in 1..Len(queue) : queue'[i] = queue[i]
    BY <1>0, <2>1, AppendProperties
  <2>3. \A i, j \in 1..Len(queue') : queue'[i] = queue'[j] => i = j
    BY <1>0, <2>1, <2>2 DEF OwnInv
  <2>4. \A i \in 1..Len(queue') : queue'[i] \in posted' \ freed'
    BY <1>0, <2>1, <2>2 DEF OwnInv
  <2>5. ASSUME NEW d \in Conns, psend[d] # NoMsg
        PROVE  \A i \in 1..Len(queue') : queue'[i] # psend[d]
    BY <1>0, <2>1, <2>2, <2>5 DEF OwnInv
  <2>6. ASSUME NEW x \in posted', fdOpen'[ConnOf[x]]
        PROVE  x \in freed \/ (\E i \in 1..Len(queue') : queue'[i] = x) \/ psend[ConnOf[x]] = x
    <3>1. CASE x = m
      BY <2>2, <3>1
    <3>2. CASE x # m
      BY <1>0, <1>a, <2>1, <2>2, <2>6, <3>2 DEF OwnInv, InQueue
    <3>3. QED
      BY <3>1, <3>2
  <2>7. QED
    BY <1>0, <2>1, <2>3, <2>4, <2>5, <2>6 DEF OwnInv, InQueue
<1>4. CASE ScanStale
  <2> DEFINE m == queue[pos]
  <2>1. /\ pos \in 1..Len(queue) /\ queue' = Erase(pos) /\ freed' = freed \cup {m}
        /\ UNCHANGED <<posted, psend>>
    BY <1>0, <1>4 DEF ScanStale, connVars
  <2>2. /\ \A i, j \in 1..Len(queue') : queue'[i] = queue'[j] => i = j
        /\ \A x : InQueue(x)' <=> InQueue(x) /\ x # m
    BY <1>0, <2>1, EraseOwners
  <2>3. \A i \in 1..Len(queue') : InQueue(queue'[i]) /\ queue'[i] # m
    BY <2>2 DEF InQueue
  <2>4. \A i \in 1..Len(queue') : queue'[i] \in posted \ freed'
    BY <1>0, <2>1, <2>3 DEF OwnInv, InQueue
  <2>5. ASSUME NEW d \in Conns, psend[d] # NoMsg
        PROVE  \A i \in 1..Len(queue') : queue'[i] # psend[d]
    BY <1>0, <2>1, <2>3, <2>5 DEF OwnInv, InQueue
  <2>6. ASSUME NEW x \in posted, fdOpen'[ConnOf[x]]
        PROVE  x \in freed' \/ InQueue(x)' \/ psend[ConnOf[x]] = x
    BY <1>0, <1>a, <2>1, <2>2, <2>6 DEF OwnInv
  <2>7. QED
    BY <1>0, <2>1, <2>2, <2>4, <2>5, <2>6 DEF OwnInv
<1>5. CASE ScanTake
  <2> DEFINE m == queue[pos]
             c == ConnOf[m]
  <2>1. /\ pos \in 1..Len(queue) /\ queue' = Erase(pos) /\ m \in Msgs /\ c \in Conns
        /\ fdOpen[c] => psend[c] = NoMsg
    BY <1>5, TakesOneAtATime
  <2>2. psend' = [psend EXCEPT ![c] = m] /\ UNCHANGED <<posted, freed>>
    BY <1>5 DEF ScanTake, TakePackage
  <2>3. /\ \A i, j \in 1..Len(queue') : queue'[i] = queue'[j] => i = j
        /\ \A x : InQueue(x)' <=> InQueue(x) /\ x # m
    BY <1>0, <2>1, EraseOwners
  <2>4. \A i \in 1..Len(queue') : InQueue(queue'[i]) /\ queue'[i] # m
    BY <2>3 DEF InQueue
  <2>5. \A i \in 1..Len(queue') : queue'[i] \in posted \ freed
    BY <1>0, <2>4 DEF OwnInv, InQueue
  <2>6. ASSUME NEW d \in Conns, psend'[d] # NoMsg
        PROVE  /\ psend'[d] \in posted /\ ConnOf[psend'[d]] = d
               /\ \A i \in 1..Len(queue') : queue'[i] # psend'[d]
    <3>1. CASE d = c
      BY <1>0, <2>1, <2>2, <2>4, <3>1 DEF OwnInv
    <3>2. CASE d # c
      BY <1>0, <2>1, <2>2, <2>4, <2>6, <3>2, SMTT(40) DEF OwnInv, InQueue
    <3>3. QED
      BY <3>1, <3>2
  <2>7. ASSUME NEW x \in posted, fdOpen'[ConnOf[x]]
        PROVE  x \in freed \/ InQueue(x)' \/ psend'[ConnOf[x]] = x
    <3>1. x \in freed \/ InQueue(x) \/ psend[ConnOf[x]] = x
      BY <1>0, <1>a, <2>7 DEF OwnInv
    <3>2. CASE x = m
      BY <1>0, <2>1, <2>2, <3>2
    <3>3. CASE x # m
      BY <1>0, <1>a, <2>1, <2>2, <2>3, <2>7, <3>1, <3>3
    <3>4. QED
      BY <3>2, <3>3
  <2>8. QED
    BY <1>0, <2>2, <2>3, <2>5, <2>6, <2>7 DEF OwnInv
<1>6. CASE SSend
  BY <1>0, <1>6, <1>a DEF SSend, OwnInv, InQueue
<1>7. CASE EWrite
  BY <1>0, <1>7, <1>a DEF EWrite, WriteOn, OwnInv, InQueue
<1>8. CASE SFree
  BY <1>0, <1>8, <1>a, FreeKeepsOwners DEF SFree, connVars, Inv, BaseInv, ControlInv, Sends
<1>9. CASE EFree
  BY <1>0, <1>9, <1>a, FreeKeepsOwners DEF EFree, connVars, Inv, BaseInv, ControlInv
<1>10. CASE SClear
  <2>1. /\ cS \in Conns /\ psend' = [psend EXCEPT ![cS] = NoMsg] /\ UNCHANGED <<queue, posted, freed>>
        /\ pcE # "dead" /\ Clearing(cS)
    BY <1>10 DEF SClear, Inv, BaseInv, ControlInv, Sends, Holds, Clearing
  <2>2. QED
    BY <1>0, <1>a, <2>1, ClearKeepsOwners DEF Inv
<1>11. CASE EClear
  <2>1. /\ cE \in Conns /\ psend' = [psend EXCEPT ![cE] = NoMsg] /\ UNCHANGED <<queue, posted, freed>>
        /\ pcE # "dead" /\ Clearing(cE)
    BY <1>11 DEF EClear, Inv, BaseInv, ControlInv, Clearing
  <2>2. QED
    BY <1>0, <1>a, <2>1, ClearKeepsOwners DEF Inv
<1>12. ASSUME NEW c \in Conns, Pool(c) PROVE OwnInv'
  <2>1. /\ psend' = [psend EXCEPT ![c] = NoMsg] /\ UNCHANGED <<queue, posted>>
        /\ freed' = freed \cup ({psend[c]} \ {NoMsg}) /\ ~fdOpen[c]
    BY <1>12 DEF Pool, FreePsend, Inv, ClosedInv
  <2>2. QED
    BY <1>0, <1>a, <2>1 DEF OwnInv, InQueue
<1>13. QED
  BY <1>1, <1>2, <1>3, <1>4, <1>5, <1>6, <1>7, <1>8, <1>9, <1>10, <1>11, <1>12, CalmSteps
  DEF Busy

(* Who calls FreeMemory() on an open connection is alone in ending its     *)
(* package, and has one.                                                   *)
LEMMA AloneAtTheEnd ==
  ASSUME Inv, NEW c \in Conns, fdOpen[c],
         (cS = c /\ pcS \in {"free", "clear"}) \/ (cE = c /\ pcE \in {"free", "clear"})
  PROVE  /\ ~(cS = c /\ cE = c /\ pcE \in {"free", "clear"}) /\ psend[c] # NoMsg
         /\ pcE # "dead" /\ pcS # "dead"
         /\ psend[c] \in freed => pcS = "clear" \/ pcE = "clear"
<1>1. pcE # "dead" /\ pcS # "dead"
  BY DEF Inv, BaseInv, ControlInv, Holds, Sends
<1>2. Pending(c) /\ throw \in [Conns -> Int]
  BY <1>1 DEF Inv, PendInv, RestTypes
<1>3. psend[c] \in freed => Clearing(c)
  BY DEF Inv, ReleaseInv
<1>4. QED
  BY <1>1, <1>2, <1>3 DEF Pending, Clearing

(* What FreeMemory(), called for connection c, does to ReleaseInv.         *)
LEMMA FreeReleases ==
  ASSUME Inv, NEW c \in Conns, FreePsend(c), UNCHANGED <<psend, fdOpen>>,
         fdOpen[c] => psend[c] # NoMsg /\ psend[c] \notin freed /\ Clearing(c)',
         \A d \in Conns \ {c} : fdOpen[d] => (Clearing(d)' <=> Clearing(d)), pcE # "dead"
  PROVE  ReleaseInv'
<1>0. /\ freed' = freed \cup ({psend[c]} \ {NoMsg}) /\ twice' = twice \cup (freed \cap {psend[c]})
      /\ freed \subseteq Msgs /\ NoMsg \notin Msgs /\ psend \in [Conns -> Msgs \cup {NoMsg}]
      /\ \A d \in Conns : psend[d] # NoMsg => ConnOf[psend[d]] = d
  BY SendAssumption DEF FreePsend, Inv, MemTypes, OwnInv, SendAssumption
<1>1. ASSUME NEW d \in Conns, fdOpen[d]
      PROVE  (psend[d] \in freed' => Clearing(d)') /\ (Clearing(d)' => psend[d] \in freed')
  <2>1. CASE d = c
    BY <1>0, <1>1, <2>1
  <2>2. CASE d # c
    <3>1. psend[d] \in freed' <=> psend[d] \in freed
      BY <1>0, <2>2
    <3>2. psend[d] \in freed <=> Clearing(d)
      BY <1>1 DEF Inv, ReleaseInv
    <3>3. QED
      BY <1>1, <2>2, <3>1, <3>2
  <2>3. QED
    BY <2>1, <2>2
<1>2. ASSUME NEW m \in Msgs, fdOpen[ConnOf[m]] PROVE m \notin twice'
  BY <1>0, <1>2 DEF Inv, ReleaseInv
<1>3. QED
  BY <1>1, <1>2 DEF ReleaseInv

(* On an open connection memory is given back once, and cleared at once.   *)
LEMMA ReleaseStep == Inv /\ [Next]_vars => ReleaseInv'
<1> SUFFICES ASSUME Inv, [Next]_vars PROVE ReleaseInv'
  OBVIOUS
<1>0. /\ OwnInv /\ MemTypes /\ queue \in Seq(Msgs) /\ pos \in Nat \ {0}
      /\ psend \in [Conns -> Msgs \cup {NoMsg}] /\ posted \subseteq Msgs /\ freed \subseteq posted
      /\ twice \subseteq freed /\ ConnOf \in [Msgs -> Conns] /\ NoMsg \notin Msgs
  BY SendAssumption DEF Inv, BaseInv, BaseTypes, MemTypes, SendAssumption
<1>a. (\A c \in Conns : fdOpen'[c] => fdOpen[c]) /\ Tracks /\ (pcE' # "dead" => pcE # "dead")
  BY OneWay DEF Inv
<1>b. pcS' = "dead" <=> pcE' = "dead"
  BY ControlStep DEF Inv, ControlInv
<1>c. ASSUME ~SFree, ~EFree, ~SClear, ~EClear, NEW c
      PROVE  /\ Clearing(c) => Clearing(c)'
             /\ pcE' # "dead" /\ Clearing(c)' => Clearing(c)
  BY <1>a, <1>b, <1>c DEF Tracks, Clearing
<1>1. ASSUME ~SFree, ~EFree, ~SClear, ~EClear, UNCHANGED <<psend, twice>>,
             \A c \in Conns : psend[c] \in freed' <=> psend[c] \in freed
      PROVE  ReleaseInv'
  <2>1. ASSUME NEW c \in Conns, fdOpen'[c]
        PROVE  (psend'[c] \in freed' => Clearing(c)') /\ (pcE' # "dead" /\ Clearing(c)' => psend'[c] \in freed')
    <3>1. (Clearing(c) => Clearing(c)') /\ (pcE' # "dead" /\ Clearing(c)' => Clearing(c))
      BY <1>c, <1>1
    <3>2. (psend[c] \in freed => Clearing(c)) /\ (pcE # "dead" /\ Clearing(c) => psend[c] \in freed)
      BY <1>a, <2>1 DEF Inv, ReleaseInv
    <3>3. QED
      BY <1>a, <1>1, <3>1, <3>2
  <2>2. \A m \in Msgs : fdOpen'[ConnOf[m]] => m \notin twice'
    BY <1>0, <1>a, <1>1 DEF Inv, ReleaseInv
  <2>3. QED
    BY <2>1, <2>2 DEF ReleaseInv
<1> DEFINE Ends == SFree \/ EFree \/ SClear \/ EClear
<1>2. CASE ~Ends /\ Calm
  BY <1>1, <1>2 DEF Calm
<1>3. ASSUME ~Ends, NEW m \in Msgs, MsgDropped(m) \/ MsgCutsOff(m) PROVE ReleaseInv'
  <2>1. freed' = freed \cup {m} /\ m \notin posted /\ UNCHANGED <<psend, twice>>
    BY <1>3 DEF MsgDropped, MsgCutsOff, Post, connVars
  <2>2. \A c \in Conns : psend[c] # m
    BY <1>0, <2>1 DEF OwnInv
  <2>3. QED
    BY <1>1, <1>3, <2>1, <2>2
<1>4. ASSUME ~Ends, NEW m \in Msgs, MsgQueued(m) PROVE ReleaseInv'
  BY <1>1, <1>4 DEF MsgQueued
<1>5. CASE ~Ends /\ ScanStale
  <2>1. /\ freed' = freed \cup {queue[pos]} /\ UNCHANGED <<psend, twice>>
        /\ pos \in 1..Len(queue) /\ queue[pos] \in Msgs
    BY <1>0, <1>5 DEF ScanStale, connVars
  <2>2. \A c \in Conns : psend[c] # queue[pos]
    BY <1>0, <2>1 DEF OwnInv
  <2>3. QED
    BY <1>1, <1>5, <2>1, <2>2
<1>6. CASE ~Ends /\ ScanTake
  <2> DEFINE m == queue[pos]
             c == ConnOf[m]
  <2>1. /\ pos \in 1..Len(queue) /\ m \in Msgs /\ c \in Conns /\ pcE # "dead"
        /\ fdOpen[c] => psend[c] = NoMsg
    BY <1>6, TakesOneAtATime
  <2>2. psend' = [psend EXCEPT ![c] = m] /\ UNCHANGED <<freed, twice, fdOpen>> /\ m \notin freed
    BY <1>0, <1>6, <2>1 DEF ScanTake, TakePackage, OwnInv
  <2>3. fdOpen[c] => ~Clearing(c)
    BY <1>0, <2>1 DEF Inv, ReleaseInv
  <2> HIDE DEF m, c
  <2>4. ASSUME NEW d \in Conns, fdOpen'[d]
        PROVE  /\ psend'[d] \in freed => Clearing(d)'
               /\ pcE' # "dead" /\ Clearing(d)' => psend'[d] \in freed
    <3>1. CASE d = c
      BY <1>0, <1>c, <1>6, <2>1, <2>2, <2>3, <2>4, <3>1
    <3>2. CASE d # c
      BY <1>0, <1>a, <1>c, <1>6, <2>1, <2>2, <2>4, <3>2 DEF Inv, ReleaseInv
    <3>3. QED
      BY <3>1, <3>2
  <2>5. QED
    BY <1>a, <2>2, <2>4 DEF Inv, ReleaseInv
<1>7. CASE ~Ends /\ (SSend \/ EWrite)
  BY <1>1, <1>7 DEF SSend, EWrite, WriteOn
<1>8. CASE SFree
  <2>1. /\ pcS = "free" /\ pcS' = "clear" /\ cS' = cS /\ cS \in Conns /\ FreePsend(cS)
        /\ UNCHANGED <<psend, fdOpen, pcE, cE>> /\ pcE # "dead"
    BY <1>8 DEF SFree, connVars, eVars, Inv, BaseInv, ControlInv, Sends, Holds
  <2>2. fdOpen[cS] => psend[cS] # NoMsg /\ psend[cS] \notin freed /\ Clearing(cS)'
    <3> SUFFICES ASSUME fdOpen[cS] PROVE psend[cS] # NoMsg /\ psend[cS] \notin freed /\ Clearing(cS)'
      OBVIOUS
    <3>1. psend[cS] # NoMsg /\ ~(cE = cS /\ pcE \in {"free", "clear"})
      BY <2>1, AloneAtTheEnd
    <3>2. ~Clearing(cS) /\ Clearing(cS)'
      BY <2>1, <3>1 DEF Clearing
    <3>3. QED
      BY <2>1, <3>1, <3>2 DEF Inv, ReleaseInv
  <2>3. \A d \in Conns \ {cS} : Clearing(d)' <=> Clearing(d)
    BY <2>1 DEF Clearing
  <2>4. QED
    BY <2>1, <2>2, <2>3, FreeReleases
<1>9. CASE EFree
  <2>1. /\ pcE = "free" /\ pcE' = "clear" /\ cE' = cE /\ cE \in Conns /\ FreePsend(cE)
        /\ UNCHANGED <<psend, fdOpen, pcS, cS>> /\ pcE # "dead"
    BY <1>9 DEF EFree, EDone, connVars, sVars, Inv, BaseInv, ControlInv
  <2>2. fdOpen[cE] => psend[cE] # NoMsg /\ psend[cE] \notin freed /\ Clearing(cE)'
    <3> SUFFICES ASSUME fdOpen[cE] PROVE psend[cE] # NoMsg /\ psend[cE] \notin freed /\ Clearing(cE)'
      OBVIOUS
    <3>1. psend[cE] # NoMsg /\ cS # cE
      BY <2>1, AloneAtTheEnd
    <3>2. ~Clearing(cE) /\ Clearing(cE)'
      BY <2>1, <3>1 DEF Clearing
    <3>3. QED
      BY <2>1, <3>1, <3>2 DEF Inv, ReleaseInv
  <2>3. \A d \in Conns \ {cE} : Clearing(d)' <=> Clearing(d)
    BY <2>1 DEF Clearing
  <2>4. QED
    BY <2>1, <2>2, <2>3, FreeReleases
<1>10. CASE SClear
  <2>1. /\ pcS = "clear" /\ pcS' = "zero" /\ cS' = cS /\ cS \in Conns
        /\ psend' = [psend EXCEPT ![cS] = NoMsg]
        /\ UNCHANGED <<freed, twice, fdOpen, pcE, cE>> /\ pcE # "dead"
    BY <1>10 DEF SClear, eVars, Inv, BaseInv, ControlInv, Sends, Holds
  <2>2. fdOpen[cS] => ~Clearing(cS)'
    BY <2>1, AloneAtTheEnd DEF Clearing
  <2>3. \A d \in Conns \ {cS} : Clearing(d)' <=> Clearing(d)
    BY <2>1 DEF Clearing
  <2>4. QED
    BY <1>0, <2>1, <2>2, <2>3 DEF Inv, ReleaseInv
<1>11. CASE EClear
  <2>1. /\ pcE = "clear" /\ pcE' = "dec2" /\ cE' = cE /\ cE \in Conns
        /\ psend' = [psend EXCEPT ![cE] = NoMsg]
        /\ UNCHANGED <<freed, twice, fdOpen, pcS, cS>> /\ pcE # "dead" /\ pcS # "dead"
    BY <1>11 DEF EClear, EDone, sVars, Inv, BaseInv, ControlInv
  <2>2. fdOpen[cE] => ~Clearing(cE)'
    BY <2>1, AloneAtTheEnd DEF Clearing
  <2>3. \A d \in Conns \ {cE} : Clearing(d)' <=> Clearing(d)
    BY <2>1 DEF Clearing
  <2>4. QED
    BY <1>0, <2>1, <2>2, <2>3 DEF Inv, ReleaseInv
<1>12. ASSUME ~Ends, NEW c \in Conns, Pool(c) PROVE ReleaseInv'
  <2>1. /\ psend' = [psend EXCEPT ![c] = NoMsg] /\ UNCHANGED fdOpen /\ ~fdOpen[c] /\ FreePsend(c)
    BY <1>12 DEF Pool, Inv, ClosedInv
  <2>2. psend[c] # NoMsg => ConnOf[psend[c]] = c
    BY <1>0 DEF OwnInv
  <2>3. ASSUME NEW d \in Conns, fdOpen[d]
        PROVE  d # c /\ psend'[d] = psend[d] /\ (psend[d] \in freed' <=> psend[d] \in freed)
    BY <1>0, <2>1, <2>2, <2>3 DEF OwnInv, FreePsend
  <2>4. ASSUME NEW m \in Msgs, fdOpen[ConnOf[m]] PROVE m \notin twice'
    BY <1>0, <2>1, <2>2, <2>4 DEF Inv, ReleaseInv, FreePsend
  <2>5. ASSUME NEW d \in Conns, fdOpen[d]
        PROVE  (psend'[d] \in freed' => Clearing(d)') /\ (pcE' # "dead" /\ Clearing(d)' => psend'[d] \in freed')
    <3>1. (Clearing(d) => Clearing(d)') /\ (pcE' # "dead" /\ Clearing(d)' => Clearing(d))
      BY <1>c, <1>12
    <3>2. (psend[d] \in freed => Clearing(d)) /\ (pcE # "dead" /\ Clearing(d) => psend[d] \in freed)
      BY <2>5 DEF Inv, ReleaseInv
    <3>3. QED
      BY <1>a, <2>3, <2>5, <3>1, <3>2
  <2>6. QED
    BY <2>1, <2>4, <2>5 DEF ReleaseInv
<1>13. QED
  BY <1>2, <1>3, <1>4, <1>5, <1>6, <1>7, <1>8, <1>9, <1>10, <1>11, <1>12, CalmSteps DEF Busy

-----------------------------------------------------------------------------
(* n more units of a package on the wire.                                  *)
LEMMA UnitsAdded ==
  ASSUME NEW w \in Seq(Msgs), NEW p \in Msgs, NEW n \in Nat, NEW m \in Msgs,
         NEW v \in Seq(Msgs), Len(v) = Len(w) + n,
         \A i \in 1..Len(v) : v[i] = IF i <= Len(w) THEN w[i] ELSE p
  PROVE  /\ Units(w, m) \in Nat
         /\ m = p => Units(v, m) = Units(w, m) + n
         /\ m # p => Units(v, m) = Units(w, m)
<1> DEFINE Old == {i \in 1..Len(w) : w[i] = m}
           New == IF m = p THEN Len(w) + 1..Len(w) + n ELSE {}
<1>1. Len(w) \in Nat
  OBVIOUS
<1>3. Units(w, m) = Cardinality(Old) /\ Units(v, m) = Cardinality({i \in 1..Len(v) : v[i] = m})
  <2>1. DOMAIN w = 1..Len(w) /\ DOMAIN v = 1..Len(v)
    OBVIOUS
  <2>2. QED
    BY <2>1 DEF Units
<1>4. {i \in 1..Len(v) : v[i] = m} = Old \cup New
  BY <1>1
<1>5. IsFiniteSet(Old) /\ Cardinality(Old) \in Nat
  <2>1. IsFiniteSet(1..Len(w))
    BY <1>1, FS_Interval
  <2>2. QED
    BY <2>1, FS_Subset, FS_CardinalityType
<1>6. IsFiniteSet(New) /\ Cardinality(New) = IF m = p THEN n ELSE 0
  <2>1. /\ IsFiniteSet(Len(w) + 1..Len(w) + n)
        /\ Cardinality(Len(w) + 1..Len(w) + n) = n
    <3> DEFINE a == Len(w) + 1
               b == Len(w) + n
    <3>1. a \in Int /\ b \in Int /\ (IF a > b THEN 0 ELSE b - a + 1) = n
      BY <1>1
    <3> HIDE DEF a, b
    <3>2. IsFiniteSet(a..b) /\ Cardinality(a..b) = IF a > b THEN 0 ELSE b - a + 1
      BY <3>1, FS_Interval
    <3>3. QED
      BY <3>1, <3>2 DEF a, b
  <2>2. QED
    BY <2>1, FS_EmptySet
<1>7. Cardinality(Old \cap New) = 0
  <2>1. Old \cap New = {}
    BY <1>1
  <2>2. QED
    BY <2>1, FS_EmptySet
<1>8. Cardinality(Old \cup New) = Cardinality(Old) + Cardinality(New)
  <2>1. Cardinality(New) \in Nat
    BY <1>6
  <2> HIDE DEF Old, New
  <2>2. Cardinality(Old \cup New) = Cardinality(Old) + Cardinality(New) - Cardinality(Old \cap New)
    BY <1>5, <1>6, FS_Union, Zenon
  <2>3. QED
    BY <1>5, <1>7, <2>1, <2>2
<1>9. QED
  BY <1>3, <1>4, <1>5, <1>6, <1>8

(* A package that is on the wire has a unit there.                         *)
LEMMA UnitsSeen ==
  ASSUME NEW w \in Seq(Msgs), NEW m
  PROVE  Units(w, m) # 0 <=> \E i \in 1..Len(w) : w[i] = m
<1> DEFINE On == {i \in DOMAIN w : w[i] = m}
<1>1. DOMAIN w = 1..Len(w) /\ IsFiniteSet(1..Len(w))
  <2>1. DOMAIN w = 1..Len(w) /\ Len(w) \in Nat
    OBVIOUS
  <2>2. QED
    BY <2>1, FS_Interval
<1>2. IsFiniteSet(On)
  BY <1>1, FS_Subset
<1>3. Cardinality(On) = 0 <=> On = {}
  BY <1>2, FS_EmptySet
<1>4. QED
  BY <1>1, <1>3 DEF Units

(* WireInv of one connection.                                              *)
Framed(w) ==
  /\ \A i \in 1..Len(w) - 1 :
       w[i] # w[i + 1] => \A j \in i + 1..Len(w) : w[j] # w[i]
  /\ \A i \in 1..Len(w) : w[i] # w[Len(w)] => Units(w, w[i]) = Size
  /\ \A m \in Msgs : Units(w, m) <= Size

(* WireFraming says that of every connection.                              *)
LEMMA FramedDef ==
  ASSUME wire \in [Conns -> Seq(Msgs)]
  PROVE  WireFraming <=> \A c \in Conns : Framed(wire[c])
<1>1. \A c \in Conns : DOMAIN wire[c] = 1..Len(wire[c])
  OBVIOUS
<1>2. QED
  BY <1>1 DEF WireFraming, Framed

(* send() of the pending package keeps the stream framed: everything       *)
(* before it is whole.                                                     *)
LEMMA SendKeepsFraming ==
  ASSUME Inv, NEW c \in Conns, NEW n \in Nat, Sent(c, n), psend[c] \in Msgs
  PROVE  /\ Framed(wire'[c])
         /\ \A i \in 1..Len(wire'[c]) :
              wire'[c][i] \in posted /\ ~InQueue(wire'[c][i])
         /\ \A m \in Msgs : m # psend[c] => Units(wire'[c], m) \in {0, Size}
         /\ Units(wire'[c], psend[c]) = Size - (left[c] - n)
         /\ \A i \in 1..Len(wire'[c]) :
              wire'[c][i] = psend[c] => wire'[c][Len(wire'[c])] = psend[c]
<1> DEFINE w == wire[c]
           p == psend[c]
           more == [i \in 1..n |-> p]
           v == w \o more
<1>a. n # -2
  OBVIOUS
<1>1. /\ w \in Seq(Msgs) /\ Len(w) \in Nat /\ left[c] \in 0..Size /\ Size \in Nat
      /\ wire \in [Conns -> Seq(Msgs)] /\ p # NoMsg /\ n \in 0..left[c]
  <2>1. n \in 0..left[c]
    BY <1>a DEF Sent
  <2>2. wire \in [Conns -> Seq(Msgs)] /\ left[c] \in 0..Size /\ Size \in Nat /\ p # NoMsg
    BY SendAssumption DEF Inv, NetTypes, SendAssumption
  <2>3. QED
    BY <2>1, <2>2
<1>2. /\ Framed(w) /\ Whole(c)
      /\ \A i \in 1..Len(w) : w[i] \in posted /\ ~InQueue(w[i])
      /\ p \in posted /\ ~InQueue(p)
  <2>1. Writable(c)
    BY <1>a DEF Sent
  <2>2. QED
    BY <1>1, <2>1, FramedDef DEF Inv, WireInv, OwnInv, InQueue
<1>3. /\ \A m \in Msgs : m # p => Units(w, m) \in {0, Size}
      /\ Units(w, p) = Size - left[c]
      /\ \A i \in 1..Len(w) : w[i] = p => w[Len(w)] = p
  BY <1>1, <1>2 DEF Whole
<1>4. CASE n = 0
  <2>1. wire' = wire
    BY <1>4 DEF Sent
  <2>2. QED
    BY <1>1, <1>2, <1>3, <1>4, <2>1
<1>5. CASE n # 0
  <2>1. n > 0 /\ wire'[c] = v
    <3>1. n > 0
      BY <1>5
    <3>2. wire' = [wire EXCEPT ![c] = @ \o [i \in 1..n |-> psend[c]]]
      BY <3>1 DEF Sent
    <3>3. QED
      BY <1>1, <3>1, <3>2
  <2>2. /\ v \in Seq(Msgs) /\ Len(v) = Len(w) + n
        /\ \A i \in 1..Len(v) : v[i] = IF i <= Len(w) THEN w[i] ELSE p
    <3>1. more \in Seq(Msgs) /\ Len(more) = n /\ \A i \in 1..n : more[i] = p
      OBVIOUS
    <3> HIDE DEF more
    <3>2. /\ v \in Seq(Msgs) /\ Len(v) = Len(w) + Len(more)
          /\ \A i \in 1..Len(w) + Len(more) : v[i] = IF i <= Len(w) THEN w[i] ELSE more[i - Len(w)]
      BY <1>1, <3>1, ConcatProperties, ZenonT(60)
    <3>3. \A i \in 1..Len(w) + n : ~(i <= Len(w)) => i - Len(w) \in 1..n
      BY <1>1
    <3>4. QED
      BY <1>1, <3>1, <3>2, <3>3
  <2> HIDE DEF v
  <2>a. /\ \A m \in Msgs : m # p => Units(v, m) = Units(w, m)
        /\ Units(v, p) = Units(w, p) + n
    <3>1. /\ w \in Seq(Msgs) /\ v \in Seq(Msgs) /\ Len(v) = Len(w) + n /\ p \in Msgs
          /\ \A i \in 1..Len(v) : v[i] = IF i <= Len(w) THEN w[i] ELSE p
      BY <1>1, <2>2
    <3> HIDE DEF w, p
    <3>2. QED
      BY <3>1, UnitsAdded
  <2>3. v[Len(v)] = p
    BY <1>1, <2>1, <2>2
  <2>4. \A m \in Msgs : m # p => Units(v, m) \in {0, Size}
    BY <1>1, <1>3, <2>2, <2>a
  <2>5. Units(v, p) = Size - (left[c] - n)
    BY <1>1, <1>3, <2>2, <2>a
  <2>6. \A i \in 1..Len(v) : v[i] \in posted /\ ~InQueue(v[i])
    BY <1>1, <1>2, <2>2
  <2>7. \A i \in 1..Len(v) - 1 : v[i] # v[i + 1] => \A j \in i + 1..Len(v) : v[j] # v[i]
    <3>1. SUFFICES ASSUME NEW i \in 1..Len(v) - 1, v[i] # v[i + 1], NEW j \in i + 1..Len(v)
                   PROVE  v[j] # v[i]
      OBVIOUS
    <3>2. CASE i < Len(w)
      <4>1. /\ v[i] = w[i] /\ v[i + 1] = w[i + 1] /\ i \in 1..Len(w) - 1 /\ i \in 1..Len(w)
            /\ Len(w) \in i + 1..Len(w)
        BY <1>1, <2>2, <3>2
      <4>2. \A k \in i + 1..Len(w) : w[k] # w[i]
        BY <1>2, <3>1, <4>1 DEF Framed
      <4>3. w[i] # p
        BY <1>3, <4>1, <4>2
      <4>4. v[j] = (IF j <= Len(w) THEN w[j] ELSE p) /\ (j <= Len(w) => j \in i + 1..Len(w))
        BY <1>1, <2>2
      <4>5. QED
        BY <4>1, <4>2, <4>3, <4>4
    <3>3. CASE i = Len(w)
      <4>1. v[i] = w[i] /\ v[i + 1] = p /\ v[j] = p
        BY <1>1, <2>2, <3>3
      <4>2. QED
        BY <3>1, <4>1
    <3>4. CASE i > Len(w)
      <4>1. v[i] = p /\ v[i + 1] = p
        BY <1>1, <2>2, <3>4
      <4>2. QED
        BY <3>1, <4>1
    <3>5. QED
      BY <1>1, <2>2, <3>2, <3>3, <3>4
  <2>8. \A i \in 1..Len(v) : v[i] # v[Len(v)] => Units(v, v[i]) = Size
    <3>1. SUFFICES ASSUME NEW i \in 1..Len(v), v[i] # p PROVE Units(v, v[i]) = Size
      BY <2>3
    <3>2. i \in 1..Len(w) /\ v[i] = w[i] /\ v[i] \in Msgs
      BY <1>1, <2>2, <3>1
    <3>3. Units(w, v[i]) # 0
      BY <1>1, <3>2, UnitsSeen
    <3>4. QED
      BY <1>1, <1>3, <2>a, <3>1, <3>2, <3>3
  <2>9. \A m \in Msgs : Units(v, m) <= Size
    BY <1>1, <2>4, <2>5
  <2>10. QED
    BY <2>1, <2>3, <2>4, <2>5, <2>6, <2>7, <2>8, <2>9 DEF Framed
<1>6. QED
  BY <1>4, <1>5

(* WireInv, one connection at a time.                                      *)
DoneE == pcE \in {"disarm", "free", "clear"} => (Writable(cE) => left[cE] = 0)
DoneS == pcS \in {"free", "clear"} => (Writable(cS) => left[cS] = 0)
Done == DoneE /\ DoneS
WireOk(c) ==
  /\ Framed(wire[c])
  /\ \A i \in 1..Len(wire[c]) : wire[c][i] \in posted /\ ~InQueue(wire[c][i])
  /\ Writable(c) => Whole(c)

(* Together these are WireInv.                                             *)
LEMMA WireOkDef ==
  ASSUME wire \in [Conns -> Seq(Msgs)]
  PROVE  WireInv <=> Done /\ \A c \in Conns : WireOk(c)
BY FramedDef DEF WireInv, WireOk, Done, DoneE, DoneS

(* What happens to other connections, or to none, leaves the stream of c   *)
(* as it is.                                                               *)
LEMMA WireKept ==
  ASSUME NEW c \in Conns, WireOk(c), wire'[c] = wire[c],
         \A m \in posted : m \in posted' /\ (InQueue(m)' => InQueue(m)),
         Writable(c)' => Writable(c) /\ psend'[c] = psend[c] /\ left'[c] = left[c]
  PROVE  WireOk(c)'
BY DEF WireOk, Framed, Whole

(* The stream of a connection that is being written to.                    *)
LEMMA WireSent ==
  ASSUME Inv, NEW c \in Conns, NEW n, Sent(c, n), fdOpen[c] => psend[c] \in Msgs,
         UNCHANGED <<queue, posted, fdOpen>>,
         n = -2 \/ (psend'[c] = psend[c] /\ left'[c] = left[c] - n)
  PROVE  WireOk(c)'
<1>0. /\ wire \in [Conns -> Seq(Msgs)] /\ left[c] \in 0..Size /\ Size \in Nat /\ NoMsg \notin Msgs
      /\ WireOk(c)
  BY WireOkDef, SendAssumption DEF Inv, NetTypes, SendAssumption
<1>1. CASE n = -2
  <2>1. wire' = wire /\ ~Writable(c)'
    BY <1>1 DEF Sent, Writable
  <2>2. QED
    BY <1>0, <2>1 DEF WireOk, Framed, InQueue
<1>2. CASE n # -2
  <2>1. n \in Nat /\ n <= left[c] /\ psend[c] \in Msgs
    BY <1>0, <1>2 DEF Sent, Writable
  <2>2. /\ Framed(wire'[c])
        /\ \A i \in 1..Len(wire'[c]) : wire'[c][i] \in posted /\ ~InQueue(wire'[c][i])
        /\ \A m \in Msgs : m # psend[c] => Units(wire'[c], m) \in {0, Size}
        /\ Units(wire'[c], psend[c]) = Size - (left[c] - n)
        /\ \A i \in 1..Len(wire'[c]) :
             wire'[c][i] = psend[c] => wire'[c][Len(wire'[c])] = psend[c]
    BY <2>1, SendKeepsFraming
  <2>3. Whole(c)'
    BY <1>2, <2>2 DEF Whole
  <2>4. Framed(wire[c])'
    BY <2>2 DEF Framed
  <2>5. QED
    BY <2>2, <2>3, <2>4 DEF WireOk, InQueue
<1>3. QED
  BY <1>1, <1>2

(* A package that is sent whole needs no pointer any more.                 *)
LEMMA WireCleared ==
  ASSUME Inv, NEW c \in Conns, psend' = [psend EXCEPT ![c] = NoMsg],
         UNCHANGED <<queue, posted, left, wire>>, Writable(c)' => Writable(c) /\ left[c] = 0
  PROVE  WireOk(c)'
<1>0. /\ WireOk(c) /\ Size \in Nat /\ NoMsg \notin Msgs /\ psend \in [Conns -> Msgs \cup {NoMsg}]
  BY WireOkDef, SendAssumption DEF Inv, MemTypes, NetTypes, SendAssumption
<1>1. CASE ~Writable(c)'
  BY <1>0, <1>1, WireKept DEF InQueue
<1>2. CASE Writable(c)'
  <2>1. Whole(c) /\ left[c] = 0
    BY <1>0, <1>2 DEF WireOk
  <2>2. psend[c] # NoMsg => Units(wire[c], psend[c]) = Size
    BY <1>0, <2>1 DEF Whole
  <2>3. \A x \in Msgs : Units(wire[c], x) \in {0, Size}
    BY <1>0, <2>1, <2>2 DEF Whole
  <2>4. Whole(c)'
    BY <1>0, <2>3 DEF Whole
  <2>5. QED
    BY <1>0, <2>4 DEF WireOk, Framed, InQueue
<1>3. QED
  BY <1>1, <1>2

(* No step tears a package apart.                                          *)
LEMMA WireStep == Inv /\ [Next]_vars => WireInv'
<1> SUFFICES ASSUME Inv, [Next]_vars PROVE WireInv'
  OBVIOUS
<1>0. /\ OwnInv /\ MemTypes /\ queue \in Seq(Msgs) /\ pos \in Nat \ {0}
      /\ wire \in [Conns -> Seq(Msgs)] /\ left \in [Conns -> 0..Size]
      /\ psend \in [Conns -> Msgs \cup {NoMsg}] /\ posted \subseteq Msgs
      /\ Size \in Nat /\ NoMsg \notin Msgs /\ ConnOf \in [Msgs -> Conns]
      /\ (pcE \notin {"wait", "dead"} => cE \in Conns) /\ (pcS \in Sends => cS \in Conns)
      /\ (pcS \in Holds => pcE # "dead")
      /\ fdOpen \in [Conns -> BOOLEAN]
      /\ (\A c \in Conns : state[c] # "live" => ~fdOpen[c])
  BY SendAssumption
  DEF Inv, BaseInv, BaseTypes, ControlInv, MemTypes, NetTypes, RestTypes, ClosedInv, SendAssumption
<1>1. Done /\ \A c \in Conns : WireOk(c)
  BY <1>0, WireOkDef DEF Inv
<1>2. SUFFICES Done' /\ \A c \in Conns : WireOk(c)'
  <2>1. wire' \in [Conns -> Seq(Msgs)]
    BY NetTypesStep DEF NetTypes
  <2>2. \A c \in Conns : DOMAIN wire'[c] = 1..Len(wire'[c])
    BY <2>1
  <2>3. WireFraming'
    BY <1>2, <2>2 DEF WireFraming, WireOk, Framed
  <2>4. QED
    BY <1>2, <2>3 DEF WireInv, WireOk, Done, DoneE, DoneS
<1>3. \A c \in Conns : Writable(c)' => Writable(c) /\ fdOpen[c]
  BY OneWay DEF Inv, Writable
<1>4. Tracks
  BY OneWay DEF Inv
<1>5. ASSUME ~EWrite, cE \in Conns /\ Writable(cE)' => left'[cE] = left[cE] PROVE DoneE'
  BY <1>0, <1>1, <1>3, <1>4, <1>5 DEF Done, DoneE, Tracks
<1>a. ASSUME ~SSend, cS \in Conns /\ Writable(cS)' => left'[cS] = left[cS] PROVE DoneS'
  BY <1>0, <1>1, <1>3, <1>4, <1>a DEF Done, DoneS, Tracks, Sends
<1>b. ASSUME ~EWrite, ~SSend, left' = left PROVE Done'
  BY <1>5, <1>a, <1>b DEF Done
<1>6. CASE Calm /\ ~EWrite /\ ~SSend
  <2>1. Done'
    BY <1>b, <1>6 DEF Calm
  <2>2. QED
    BY <1>1, <1>3, <1>6, <2>1, WireKept DEF Calm, InQueue
<1>7. ASSUME NEW m \in Msgs, MsgDropped(m) \/ MsgCutsOff(m), ~EWrite, ~SSend PROVE Done' /\ \A c \in Conns : WireOk(c)'
  <2>1. posted' = posted \cup {m} /\ UNCHANGED <<queue, psend, left, wire>>
    BY <1>7 DEF MsgDropped, MsgCutsOff, Post, connVars, envVars
  <2>2. Done'
    BY <1>b, <1>7, <2>1
  <2>3. QED
    BY <1>1, <1>3, <2>1, <2>2, WireKept DEF InQueue
<1>8. ASSUME NEW m \in Msgs, MsgQueued(m), ~EWrite, ~SSend PROVE Done' /\ \A c \in Conns : WireOk(c)'
  <2>1. posted' = posted \cup {m} /\ m \notin posted /\ queue' = Append(queue, m)
        /\ UNCHANGED <<psend, left, wire>>
    BY <1>8 DEF MsgQueued, Post, envVars
  <2>2. \A x \in posted : InQueue(x)' => InQueue(x)
    <3>1. /\ Len(queue') = Len(queue) + 1 /\ Len(queue) \in Nat /\ queue'[Len(queue) + 1] = m
          /\ \A i \in 1..Len(queue) : queue'[i] = queue[i]
      BY <1>0, <2>1, AppendProperties
    <3>2. QED
      BY <2>1, <3>1 DEF InQueue
  <2>3. Done'
    BY <1>b, <1>8, <2>1
  <2>4. QED
    BY <1>1, <1>3, <2>1, <2>2, <2>3, WireKept
<1>9. CASE ScanStale /\ ~EWrite /\ ~SSend
  <2>1. pos \in 1..Len(queue) /\ queue' = Erase(pos) /\ UNCHANGED <<posted, psend, left, wire>>
    BY <1>0, <1>9 DEF ScanStale, connVars, envVars
  <2>2. \A x : InQueue(x)' => InQueue(x)
    BY <1>0, <2>1, EraseOwners
  <2>3. Done'
    BY <1>b, <1>9, <2>1
  <2>4. QED
    BY <1>1, <1>3, <2>1, <2>2, <2>3, WireKept
<1>10. CASE ScanTake /\ ~EWrite /\ ~SSend
  <2> DEFINE m == queue[pos]
             c == ConnOf[m]
  <2>1. /\ pos \in 1..Len(queue) /\ queue' = Erase(pos) /\ m \in Msgs /\ c \in Conns /\ pcE # "dead"
        /\ fdOpen[c] => psend[c] = NoMsg
        /\ fdOpen[c] => throw[c] = 0
    BY <1>10, TakesOneAtATime
  <2>2. /\ psend' = [psend EXCEPT ![c] = m] /\ left' = [left EXCEPT ![c] = Size]
        /\ UNCHANGED <<posted, wire, eVars>>
    BY <1>10 DEF ScanTake, TakePackage, envVars
  <2>3. \A x : InQueue(x)' => InQueue(x)
    BY <1>0, <2>1, EraseOwners
  <2>4. pcE \in {"disarm", "free", "clear"} /\ fdOpen[cE] => cE # c
    BY <1>0, <2>1 DEF Inv, PendInv, Pending
  <2>5. Done'
    <3>1. pcS' = "send"
      BY <1>10 DEF ScanTake, TakePackage
    <3>2. QED
      BY <1>0, <1>1, <1>3, <2>2, <2>4, <3>1 DEF Done, DoneE, DoneS, eVars
  <2>6. ASSUME NEW d \in Conns, d # c PROVE WireOk(d)'
    BY <1>0, <1>1, <1>3, <2>2, <2>3, <2>6, WireKept
  <2>7. ASSUME NEW d \in Conns, d = c PROVE WireOk(d)'
    <3>1. CASE ~Writable(d)'
      BY <1>1, <2>2, <2>3, <3>1, WireKept
    <3>2. CASE Writable(d)'
      <4>1. Writable(d) /\ psend[d] = NoMsg /\ Whole(d) /\ WireOk(d)
        BY <1>1, <1>3, <2>1, <2>7, <3>2 DEF WireOk
      <4>2. \A x \in Msgs : Units(wire[d], x) \in {0, Size}
        BY <1>0, <4>1 DEF Whole
      <4>3. InQueue(m)
        BY <2>1 DEF InQueue
      <4>4. \A i \in 1..Len(wire[d]) : wire[d][i] # m
        BY <4>1, <4>3 DEF WireOk
      <4>5. Units(wire[d], m) = 0 /\ Size - Size = 0
        <5>1. wire[d] \in Seq(Msgs)
          BY <1>0
        <5> HIDE DEF m
        <5>2. Units(wire[d], m) = 0
          BY <4>4, <5>1, UnitsSeen
        <5>3. QED
          BY <1>0, <5>2
      <4>6. psend'[d] = m /\ left'[d] = Size /\ wire' = wire
        BY <1>0, <2>1, <2>2, <2>7
      <4>7. Whole(d)'
        BY <4>2, <4>4, <4>5, <4>6 DEF Whole
      <4>8. QED
        BY <2>2, <2>3, <4>1, <4>7 DEF WireOk, Framed
    <3>3. QED
      BY <3>1, <3>2
  <2>8. QED
    BY <2>5, <2>6, <2>7
<1>11. CASE SSend /\ ~EWrite
  <2>1. pcS = "send" /\ cS \in Conns /\ (fdOpen[cS] => psend[cS] \in Msgs)
    BY <1>11, HasPackage DEF SSend, Inv, BaseInv, ControlInv, Sends
  <2>2. PICK n \in SendResults(cS) :
          /\ Transmit(cS, n) /\ left' = [left EXCEPT ![cS] = IF n >= 0 THEN @ - n ELSE @]
          /\ pcS' = IF n \in {left[cS], -2} THEN "free" ELSE "inc"
    BY <1>11 DEF SSend, TakeOff
  <2>3. Sent(cS, n) /\ UNCHANGED <<queue, posted, fdOpen, psend, cS, eVars>>
    BY <1>11, <2>1, <2>2, SendFacts DEF SSend, Inv
  <2>4. \A d \in Conns : d # cS => wire'[d] = wire[d] /\ left'[d] = left[d]
    BY <1>0, <2>1, <2>2, <2>3 DEF Sent
  <2>5. ASSUME NEW d \in Conns, d # cS PROVE WireOk(d)'
    BY <1>1, <1>3, <2>3, <2>4, <2>5, WireKept DEF InQueue
  <2>6. left[cS] \in Nat /\ (n = -2 \/ n \in 0..left[cS]) /\ (n # -2 => left'[cS] = left[cS] - n)
    BY <1>0, <2>1, <2>2, <2>3 DEF Sent
  <2>7. ASSUME NEW d \in Conns, d = cS PROVE WireOk(d)'
    <3>1. Sent(d, n) /\ (fdOpen[d] => psend[d] \in Msgs) /\ psend' = psend
          /\ (n # -2 => left'[d] = left[d] - n)
      BY <2>1, <2>3, <2>6, <2>7
    <3>2. QED
      BY <2>3, <3>1, WireSent
  <2>8. pcE \in {"disarm", "free", "clear"} /\ fdOpen[cE] => cE # cS
    BY <1>0, <2>1 DEF Inv, PendInv, Pending, Holds, Sends
  <2>9. DoneE'
    BY <1>0, <1>1, <1>3, <2>3, <2>4, <2>8 DEF Done, DoneE, eVars
  <2>10. DoneS'
    <3>1. CASE n = -2
      BY <1>3, <2>3, <3>1 DEF DoneS, Sent, Writable
    <3>2. CASE n # -2 /\ pcS' \in {"free", "clear"}
      BY <2>2, <2>3, <2>6, <3>2 DEF DoneS
    <3>3. QED
      BY <3>1, <3>2 DEF DoneS
  <2>11. QED
    BY <2>5, <2>7, <2>9, <2>10 DEF Done
<1>12. CASE EWrite
  <2>1. pcE = "out" /\ "HUP" \notin mask /\ cE \in Conns /\ (fdOpen[cE] => psend[cE] \in Msgs)
    BY <1>0, <1>12, HasPackage DEF EWrite, WriteOn
  <2>2. PICK n \in SendResults(cE) :
          /\ Transmit(cE, n) /\ left' = [left EXCEPT ![cE] = IF n >= 0 THEN @ - n ELSE @]
          /\ EDone(IF n = left[cE] THEN "disarm" ELSE IF n = -2 THEN "free" ELSE "wait")
    BY <1>12 DEF EWrite, WriteOn, TakeOff
  <2>3. Sent(cE, n) /\ UNCHANGED <<queue, posted, fdOpen, psend, sVars>>
    BY <1>12, <2>1, <2>2, SendFacts DEF EWrite, WriteOn, Inv
  <2>4. \A d \in Conns : d # cE => wire'[d] = wire[d] /\ left'[d] = left[d]
    BY <1>0, <2>1, <2>2, <2>3 DEF Sent
  <2>5. ASSUME NEW d \in Conns, d # cE PROVE WireOk(d)'
    BY <1>1, <1>3, <2>3, <2>4, <2>5, WireKept DEF InQueue
  <2>6. left[cE] \in Nat /\ (n = -2 \/ n \in 0..left[cE]) /\ (n # -2 => left'[cE] = left[cE] - n)
    BY <1>0, <2>1, <2>2, <2>3 DEF Sent
  <2>7. ASSUME NEW d \in Conns, d = cE PROVE WireOk(d)'
    <3>1. Sent(d, n) /\ (fdOpen[d] => psend[d] \in Msgs) /\ psend' = psend
          /\ (n # -2 => left'[d] = left[d] - n)
      BY <2>1, <2>3, <2>6, <2>7
    <3>2. QED
      BY <2>3, <3>1, WireSent
  <2>8. DoneE'
    <3>1. CASE n = -2
      <4>1. ~(fdOpen'[cE] /\ peer'[cE] \notin {"reset", "gone"}) /\ left[cE] # -2
        BY <2>3, <2>6, <3>1 DEF Sent
      <4>2. pcE' = "free" /\ cE' = cE
        BY <2>2, <3>1, <4>1 DEF EDone
      <4>3. QED
        BY <4>1, <4>2 DEF DoneE, Writable
    <3>2. CASE n # -2
      <4>1. pcE' \in {"disarm", "free", "clear"} => n = left[cE] /\ cE' = cE
        BY <2>2, <3>2 DEF EDone
      <4>2. n = left[cE] => left'[cE] = 0
        BY <2>6, <3>2
      <4>3. QED
        BY <4>1, <4>2 DEF DoneE
    <3>3. QED
      BY <3>1, <3>2
  <2>9. DoneS'
    <3>1. pcS \in {"free", "clear"} /\ fdOpen[cS] => cS # cE
      BY <1>0, <2>1 DEF Inv, PendInv, Pending, InFlight, Holds, Sends
    <3>2. pcS \in {"free", "clear"} => cS \in Conns
      BY <1>0 DEF Sends
    <3>3. QED
      BY <1>1, <1>3, <2>3, <2>4, <3>1, <3>2 DEF Done, DoneS, sVars
  <2>10. QED
    BY <2>5, <2>7, <2>8, <2>9 DEF Done
<1>13. CASE (EFree \/ SFree) /\ ~EWrite /\ ~SSend
  <2>1. UNCHANGED <<queue, posted, psend, left, wire>>
    BY <1>13 DEF EFree, SFree, connVars, envVars
  <2>2. Done'
    BY <1>b, <1>13, <2>1
  <2>3. QED
    BY <1>1, <1>3, <2>1, <2>2, WireKept DEF InQueue
<1>14. CASE EClear /\ ~EWrite /\ ~SSend
  <2>1. /\ pcE = "clear" /\ cE \in Conns /\ psend' = [psend EXCEPT ![cE] = NoMsg]
        /\ UNCHANGED <<queue, posted, left, wire>>
    BY <1>0, <1>14 DEF EClear, envVars
  <2>2. Done'
    BY <1>b, <1>14, <2>1
  <2>3. ASSUME NEW d \in Conns, d # cE PROVE WireOk(d)'
    BY <1>0, <1>1, <1>3, <2>1, <2>3, WireKept DEF InQueue
  <2>4. ASSUME NEW d \in Conns, d = cE PROVE WireOk(d)'
    <3>1. Writable(d)' => Writable(d) /\ left[d] = 0
      BY <1>1, <1>3, <2>1, <2>4 DEF Done, DoneE
    <3>2. psend' = [psend EXCEPT ![d] = NoMsg]
      BY <2>1, <2>4
    <3>3. QED
      BY <2>1, <3>1, <3>2, WireCleared
  <2>5. QED
    BY <2>2, <2>3, <2>4
<1>15. CASE SClear /\ ~EWrite /\ ~SSend
  <2>1. /\ pcS = "clear" /\ cS \in Conns /\ psend' = [psend EXCEPT ![cS] = NoMsg]
        /\ UNCHANGED <<queue, posted, left, wire>>
    BY <1>0, <1>15 DEF SClear, envVars, Sends
  <2>2. Done'
    BY <1>b, <1>15, <2>1
  <2>3. ASSUME NEW d \in Conns, d # cS PROVE WireOk(d)'
    BY <1>0, <1>1, <1>3, <2>1, <2>3, WireKept DEF InQueue
  <2>4. ASSUME NEW d \in Conns, d = cS PROVE WireOk(d)'
    <3>1. Writable(d)' => Writable(d) /\ left[d] = 0
      BY <1>1, <1>3, <2>1, <2>4 DEF Done, DoneS
    <3>2. psend' = [psend EXCEPT ![d] = NoMsg]
      BY <2>1, <2>4
    <3>3. QED
      BY <2>1, <3>1, <3>2, WireCleared
  <2>5. QED
    BY <2>2, <2>3, <2>4
<1>16. ASSUME NEW c \in Conns, Pool(c), ~EWrite, ~SSend PROVE Done' /\ \A d \in Conns : WireOk(d)'
  <2>1. /\ ~fdOpen[c] /\ psend' = [psend EXCEPT ![c] = NoMsg]
        /\ UNCHANGED <<queue, posted, left, wire>>
    BY <1>0, <1>16 DEF Pool, FreePsend, envVars
  <2>2. Done'
    BY <1>b, <1>16, <2>1
  <2>3. \A d \in Conns : Writable(d)' => d # c
    BY <1>3, <2>1
  <2>4. QED
    BY <1>0, <1>1, <1>3, <2>1, <2>2, <2>3, WireKept DEF InQueue
<1>17. QED
  BY <1>6, <1>7, <1>8, <1>9, <1>10, <1>11, <1>12, <1>13, <1>14, <1>15, <1>16, CalmSteps
     DEF Busy

-----------------------------------------------------------------------------
(* The wakeups of S.  Package i on the queue, for client d, is somebody's  *)
(* concern.                                                                *)
Looked(d, i) ==
  \/ sem > 0 \/ WillLook(i)
  \/ cE = d /\ pcE \in {"dec2", "post"}
  \/ psend[d] # NoMsg /\ ~(cS = d /\ pcS \in {"send", "free", "clear"})

(* What stands before an erased package stays where it is.                 *)
LEMMA EraseKeepsFront ==
  ASSUME queue \in Seq(Msgs), NEW k \in 1..Len(queue), queue' = Erase(k),
         NEW i \in 1..Len(queue'), i < k
  PROVE  i \in 1..Len(queue) /\ queue'[i] = queue[i]
<1>1. Len(queue) \in Nat /\ i \in 1..Len(queue) - 1
  BY EraseFacts
<1>2. Erase(k)[i] = IF i < k THEN queue[i] ELSE queue[i + 1]
  BY <1>1, EraseFacts, Zenon
<1>3. QED
  BY <1>1, <1>2

(* S leaves a package behind only where the count of its client is above   *)
(* 0, and then E is at an earlier one and will post.                       *)
LEMMA WakeStep == Inv /\ ~UnreadAtClose /\ WakeupOwed /\ [Next]_vars => WakeupOwed'
<1> SUFFICES ASSUME Inv, ~UnreadAtClose, WakeupOwed, [Next]_vars PROVE WakeupOwed'
  OBVIOUS
<1>0. /\ sem \in Nat /\ throw \in [Conns -> Int] /\ psend \in [Conns -> Msgs \cup {NoMsg}]
      /\ fdOpen \in [Conns -> BOOLEAN]
      /\ state \in [Conns -> {"live", "parked", "pooled"}]
      /\ NoMsg \notin Msgs /\ NoConn \notin Conns
      /\ ConnOf \in [Msgs -> Conns] /\ queue \in Seq(Msgs) /\ pos \in Nat \ {0}
      /\ pcS \in {"wait", "lock", "scan", "send", "free", "clear", "zero", "inc", "arm", "dead"}
      /\ pcE \in {"wait", "in", "out", "close", "test", "dec", "park", "disarm",
                  "free", "clear", "dec2", "post", "dead"}
  BY SendAssumption DEF Inv, BaseInv, BaseTypes, RestTypes, MemTypes, NetTypes,
     SendAssumption
<1>q. queue' \in Seq(Msgs)
  BY BaseTypesStep DEF Inv, BaseTypes
<1>a. SUFFICES ASSUME NEW i \in 1..Len(queue'), NEW d \in Conns, d = ConnOf[queue'[i]],
                      state'[d] = "live", fdOpen'[d], fdOpen[d], pcE # "dead", pcE' # "dead"
               PROVE  Looked(d, i)'
  <2>1. \A i \in 1..Len(queue') : ConnOf[queue'[i]] \in Conns
    BY <1>0, <1>q
  <2>2. QED
    BY <2>1, OneWay DEF WakeupOwed, Looked, WillLook, Inv
<1>x. i \in 1..Len(queue) /\ queue'[i] = queue[i] /\ state[d] = "live" => Looked(d, i)
  BY <1>a DEF WakeupOwed, Looked
<1>p. Pending(d)
  BY <1>a DEF Inv, PendInv
<1>b. /\ pcS \in {"send", "free", "clear", "zero", "inc", "arm"} => cS \in Conns
      /\ pcS \in {"wait", "lock", "scan"} => cS = NoConn
      /\ pcE \notin {"wait", "dead"} => cE \in Conns
      /\ pcS # "dead"
  BY <1>a DEF Inv, BaseInv, ControlInv, Sends
<1>c. \A k \in Closers : pcC[k] = "park" => cC[k] \in Conns
  BY DEF Inv, BaseInv, ControlInv
<1>d. pcE = "out" /\ "HUP" \in mask => ~fdOpen[cE]
  BY DEF Inv, PeerInv
<1>1. ASSUME NEW m \in Msgs, MsgDropped(m) PROVE Looked(d, i)'
  BY <1>1, <1>a, <1>x, <1>0, <1>b, <1>c, <1>d DEF MsgDropped, Post, Looked, WillLook,
     connVars, envVars, sVars, eVars, cVars
<1>2. ASSUME NEW m \in Msgs, MsgCutsOff(m) PROVE Looked(d, i)'
  BY <1>2, <1>a, <1>x, <1>0, <1>b, <1>c, <1>d DEF MsgCutsOff, CloseBegin, Post, Looked,
     WillLook, connVars, envVars, sVars, eVars, cVars
<1>3. ASSUME NEW m \in Msgs, MsgQueued(m) PROVE Looked(d, i)'
  BY <1>3, <1>a, <1>0 DEF MsgQueued, Looked
<1>4. ASSUME NEW k \in Closers, KCloses(k) PROVE Looked(d, i)'
  BY <1>4, <1>a, <1>x, <1>0, <1>b, <1>c, <1>d DEF KCloses, KClose, KStep, CloseFd,
     ThrowOff, Park, Looked, WillLook, connVars, envVars, sVars, eVars, cVars
<1>5. ASSUME SemWait PROVE Looked(d, i)'
  BY <1>5, <1>a, <1>x, <1>0, <1>b, <1>c, <1>d DEF SemWait, SemReturns, Looked, WillLook,
     connVars, envVars, sVars, eVars, cVars
<1>6. ASSUME SemInterrupted PROVE Looked(d, i)'
  BY <1>6, <1>a, <1>x, <1>0, <1>b, <1>c, <1>d DEF SemInterrupted, SemReturns, Looked,
     WillLook, connVars, envVars, sVars, eVars, cVars
<1>7. ASSUME ScanBegin PROVE Looked(d, i)'
  BY <1>7, <1>a, <1>x, <1>0, <1>b, <1>c, <1>d DEF ScanBegin, Looked, WillLook, connVars,
     envVars, sVars, eVars, cVars
<1>8. ASSUME ScanEnd PROVE Looked(d, i)'
  BY <1>8, <1>a, <1>x, <1>0, <1>b, <1>c, <1>d DEF ScanEnd, Looked, WillLook, connVars,
     envVars, sVars, eVars, cVars
<1>9. ASSUME ScanStale PROVE Looked(d, i)'
  <2>1. pos \in 1..Len(queue) /\ queue' = Erase(pos) /\ pcS = "scan"
    BY <1>9, <1>0 DEF ScanStale
  <2>2. UNCHANGED <<sem, connVars, sVars, eVars>>
    BY <1>9 DEF ScanStale
  <2>3. CASE i < pos
    <3>1. i \in 1..Len(queue) /\ queue'[i] = queue[i]
      BY <1>0, <1>a, <2>1, <2>3, EraseKeepsFront
    <3>2. Looked(d, i)
      BY <1>a, <1>x, <2>2, <3>1 DEF connVars
    <3>3. QED
      BY <2>2, <3>2 DEF Looked, WillLook, connVars, sVars, eVars
  <2>4. CASE i >= pos
    BY <2>1, <2>2, <2>4 DEF Looked, WillLook, sVars
  <2>5. QED
    BY <1>0, <2>3, <2>4
<1>10. ASSUME ScanSkip PROVE Looked(d, i)'
  BY <1>10, <1>a, <1>p, <1>x, <1>0, <1>b, <1>c, <1>d DEF Pending, ScanSkip, Looked,
     WillLook, connVars, envVars, sVars, eVars, cVars
<1>11. ASSUME ScanTake PROVE Looked(d, i)'
  <2>1. PICK c \in Conns :
          /\ pos \in 1..Len(queue) /\ queue' = Erase(pos)
          /\ c = ConnOf[queue[pos]] /\ (fdOpen[c] => psend[c] = NoMsg)
    BY <1>11, TakesOneAtATime
  <2>2. /\ UNCHANGED <<sem, state, fdOpen, pos, eVars>> /\ pcS = "scan" /\ pcS' = "send"
        /\ psend' = [psend EXCEPT ![c] = queue[pos]] /\ cS' = c
    BY <1>11, <2>1 DEF ScanTake, TakePackage
  <2>3. CASE i < pos
    <3>1. i \in 1..Len(queue) /\ queue'[i] = queue[i]
      BY <1>0, <1>a, <2>1, <2>3, EraseKeepsFront
    <3>2. Looked(d, i)
      BY <1>a, <1>x, <2>2, <3>1
    <3>3. d = c => psend[d] = NoMsg
      BY <1>a, <2>1
    <3>4. d # c => psend'[d] = psend[d]
      BY <1>0, <2>2
    <3>5. QED
      BY <2>1, <2>2, <2>3, <3>2, <3>3, <3>4 DEF Looked, WillLook, eVars
  <2>4. CASE i >= pos
    BY <2>1, <2>2, <2>4 DEF Looked, WillLook
  <2>5. QED
    BY <1>0, <2>3, <2>4
<1>12. ASSUME SSend PROVE Looked(d, i)'
  BY <1>12, <1>a, <1>x, <1>0, <1>b DEF SSend, TakeOff, Transmit, Looked, WillLook,
     connVars, envVars, sVars, eVars, cVars
<1>13. ASSUME SFree PROVE Looked(d, i)'
  BY <1>13, <1>a, <1>x, <1>0, <1>b, <1>c, <1>d DEF SFree, FreePsend, Looked, WillLook,
     connVars, envVars, sVars, eVars, cVars
<1>14. ASSUME SClear PROVE Looked(d, i)'
  BY <1>14, <1>a, <1>x, <1>0, <1>b, <1>c, <1>d DEF SClear, Looked, WillLook, connVars,
     envVars, sVars, eVars, cVars
<1>15. ASSUME SZero PROVE Looked(d, i)'
  BY <1>15, <1>a, <1>x, <1>0, <1>b, <1>c, <1>d DEF SZero, Looked, WillLook, connVars,
     envVars, sVars, eVars, cVars
<1>16. ASSUME SThrow PROVE Looked(d, i)'
  BY <1>16, <1>a, <1>x, <1>0, <1>b, <1>c, <1>d DEF SThrow, Looked, WillLook, connVars,
     envVars, sVars, eVars, cVars
<1>17. ASSUME SArm PROVE Looked(d, i)'
  BY <1>17, <1>a, <1>x, <1>0, <1>b, <1>c, <1>d DEF SArm, Looked, WillLook, connVars,
     envVars, sVars, eVars, cVars
<1>18. ASSUME ERead PROVE Looked(d, i)'
  BY <1>18, <1>a, <1>x, <1>0, <1>b, <1>c, <1>d DEF ERead, EDone, AfterIn, Looked,
     WillLook, connVars, envVars, sVars, eVars, cVars
<1>19. ASSUME ECloses PROVE Looked(d, i)'
  BY <1>19, <1>a, <1>x, <1>0, <1>b, <1>c, <1>d DEF ECloses, EClose, CloseFd, ThrowOff,
     Park, EDone, AfterIn, Looked, WillLook, connVars, envVars, sVars, eVars, cVars
<1>20. ASSUME EOutHup PROVE Looked(d, i)'
  BY <1>20, <1>a, <1>x, <1>0, <1>b, <1>c, <1>d DEF EOutHup, ThrowOff, EDone, Looked,
     WillLook, connVars, envVars, sVars, eVars, cVars
<1>21. ASSUME EWrite PROVE Looked(d, i)'
  BY <1>21, <1>a, <1>x, <1>0, <1>b DEF EWrite, WriteOn, TakeOff, Transmit, EDone, Looked,
     WillLook, connVars, envVars, sVars, eVars, cVars
<1>22. ASSUME EDisarm PROVE Looked(d, i)'
  BY <1>22, <1>a, <1>x, <1>0, <1>b, <1>c, <1>d DEF EDisarm, EDone, Looked, WillLook,
     connVars, envVars, sVars, eVars, cVars
<1>23. ASSUME EFree PROVE Looked(d, i)'
  BY <1>23, <1>a, <1>x, <1>0, <1>b, <1>c, <1>d DEF EFree, FreePsend, EDone, Looked,
     WillLook, connVars, envVars, sVars, eVars, cVars
<1>24. ASSUME EClear PROVE Looked(d, i)'
  BY <1>24, <1>a, <1>x, <1>0, <1>b, <1>c, <1>d DEF EClear, EDone, Looked, WillLook,
     connVars, envVars, sVars, eVars, cVars
<1>25. ASSUME EThrow PROVE Looked(d, i)'
  BY <1>25, <1>a, <1>x, <1>0, <1>b, <1>c, <1>d DEF EThrow, ThrowOff, EDone, Looked,
     WillLook, connVars, envVars, sVars, eVars, cVars
<1>26. ASSUME EPost PROVE Looked(d, i)'
  BY <1>26, <1>a, <1>x, <1>0, <1>b, <1>c, <1>d DEF EPost, EDone, Looked, WillLook,
     connVars, envVars, sVars, eVars, cVars
<1>27. ASSUME SigPipe PROVE Looked(d, i)'
  BY <1>27, <1>a, <1>x, <1>0, <1>b, <1>c, <1>d DEF SigPipe, Looked, WillLook, connVars,
     envVars, sVars, eVars, cVars
<1>28. ASSUME NEW c \in Conns, EpollWait(c) PROVE Looked(d, i)'
  BY <1>28, <1>a, <1>x, <1>0, <1>b, <1>c, <1>d DEF EpollWait, Ready, Looked, WillLook,
     connVars, envVars, sVars, eVars, cVars
<1>29. ASSUME NEW c \in Conns, TimeOut(c) PROVE Looked(d, i)'
  BY <1>29, <1>a, <1>x, <1>0, <1>b, <1>c, <1>d DEF TimeOut, CloseBegin, Looked, WillLook,
     connVars, envVars, sVars, eVars, cVars
<1>30. ASSUME NEW c \in Conns, Pool(c) PROVE Looked(d, i)'
  BY <1>30, <1>a, <1>x, <1>0, <1>b, <1>c, <1>d DEF Pool, FreePsend, Looked, WillLook,
     connVars, envVars, sVars, eVars, cVars
<1>31. ASSUME NEW c \in Conns, ClientReads(c) PROVE Looked(d, i)'
  BY <1>31, <1>a, <1>x, <1>0, <1>b, <1>c, <1>d DEF ClientReads, Looked, WillLook,
     connVars, envVars, sVars, eVars, cVars
<1>32. ASSUME NEW c \in Conns, ClientSends(c) PROVE Looked(d, i)'
  BY <1>32, <1>a, <1>x, <1>0, <1>b, <1>c, <1>d DEF ClientSends, Looked, WillLook,
     connVars, envVars, sVars, eVars, cVars
<1>33. ASSUME NEW c \in Conns, ClientCloses(c) PROVE Looked(d, i)'
  BY <1>33, <1>a, <1>x, <1>0, <1>b, <1>c, <1>d DEF ClientCloses, Looked, WillLook,
     connVars, envVars, sVars, eVars, cVars
<1>34. ASSUME NEW c \in Conns, ClientResets(c) PROVE Looked(d, i)'
  BY <1>34, <1>a, <1>x, <1>0, <1>b, <1>c, <1>d DEF ClientResets, Looked, WillLook,
     connVars, envVars, sVars, eVars, cVars
<1>35. ASSUME UNCHANGED vars PROVE Looked(d, i)'
  BY <1>35, <1>a, <1>x, <1>0, <1>b, <1>c, <1>d DEF vars, Looked, WillLook, connVars,
     envVars, sVars, eVars, cVars
<1>36. QED
  BY <1>1, <1>2, <1>3, <1>4, <1>5, <1>6, <1>7, <1>8, <1>9, <1>10, <1>11, <1>12, <1>13,
     <1>14, <1>15, <1>16, <1>17, <1>18, <1>19, <1>20, <1>21, <1>22, <1>23, <1>24, <1>25,
     <1>26, <1>27, <1>28, <1>29, <1>30, <1>31, <1>32, <1>33, <1>34, <1>35 DEF Next, SStep,
     EStep, Closers

-----------------------------------------------------------------------------
(* Nothing is on the queue or on the wire at first.                        *)
LEMMA InitInv == Init => Inv
<1> SUFFICES ASSUME Init PROVE Inv
  OBVIOUS
<1>0. NoConn \notin Conns /\ NoMsg \notin Msgs /\ Size \in Nat /\ Room \in Nat
  BY SendAssumption DEF SendAssumption
<1>1. RestTypes /\ MemTypes /\ NetTypes /\ ClosedInv /\ PeerInv /\ OwnInv /\ ReleaseInv
  BY <1>0 DEF Init, RestTypes, MemTypes, NetTypes, ClosedInv, Closed, PeerInv, OwnInv,
     ReleaseInv, Clearing, Closers
<1>2. PendInv
  BY <1>0 DEF Init, PendInv, Pending, InFlight
<1>3. WireInv
  <2>1. \A m : Units(<<>>, m) = 0
    <3>1. ASSUME NEW m PROVE {i \in DOMAIN <<>> : <<>>[i] = m} = {}
      OBVIOUS
    <3>2. QED
      BY <3>1, FS_EmptySet DEF Units
  <2>2. \A c \in Conns : wire[c] = <<>> /\ psend[c] = NoMsg
    BY DEF Init
  <2>3. \A c \in Conns : WireOk(c)
    BY <1>0, <2>1, <2>2 DEF WireOk, Framed, Whole
  <2>4. Done
    BY DEF Init, Done, DoneE, DoneS
  <2>5. QED
    BY <1>1, <2>3, <2>4, WireOkDef DEF NetTypes
<1>4. QED
  BY <1>1, <1>2, <1>3, InitBase DEF Inv

(* With clients that do not close before the server has read what they     *)
(* sent, every state satisfies Inv.                                        *)
THEOREM SendInvariant == ASSUME ~UnreadAtClose PROVE Spec => []Inv
<1>1. Inv /\ [Next]_vars => BaseInv' /\ ClosedInv' /\ PeerInv'
  <2> SUFFICES ASSUME Inv, [Next]_vars PROVE BaseInv' /\ ClosedInv' /\ PeerInv'
    OBVIOUS
  <2>1. BaseInv'
    BY BaseTypesStep, ControlStep, BacklogStep DEF Inv, BaseInv
  <2>2. ClosedInv'
    BY ClosedStep DEF Inv, RestTypes
  <2>3. PeerInv'
    BY PeerStep DEF Inv, RestTypes, NetTypes
  <2>4. QED
    BY <2>1, <2>2, <2>3
<1>2. Inv /\ [Next]_vars => Inv'
  BY <1>1, RestTypesStep, MemTypesStep, NetTypesStep, PendStep, OwnStep, ReleaseStep,
     WireStep DEF Inv
<1>3. QED
  BY <1>2, InitInv, PTL DEF Spec

(* Types: what is left to send is part of one package, and no client's     *)
(* count of packages goes below none.                                      *)
THEOREM TypeCorrect == ASSUME ~UnreadAtClose PROVE Spec => []TypeOK
<1>1. Inv => TypeOK
  BY DEF Inv, BaseInv, BaseTypes, RestTypes, MemTypes, NetTypes, TypeOK
<1>2. QED
  BY <1>1, SendInvariant, PTL

(* On an open connection a package is on the queue, or being sent, or      *)
(* given back, once; what psendMemPointer points to was given back only    *)
(* where the next statement clears it.                                     *)
THEOREM NoPackageLost == ASSUME ~UnreadAtClose PROVE Spec => []OneOwner
<1>1. Inv => OneOwner
  <2> SUFFICES ASSUME Inv, NEW m \in posted
               PROVE  /\ InQueue(m) => m \notin freed /\ psend[ConnOf[m]] # m
                      /\ fdOpen[ConnOf[m]] =>
                           /\ InQueue(m) \/ psend[ConnOf[m]] = m \/ m \in freed
                           /\ psend[ConnOf[m]] = m /\ m \in freed => Clearing(ConnOf[m])
                           /\ m \notin twice
    BY DEF OneOwner
  <2>1. OwnInv /\ ReleaseInv /\ m \in Msgs /\ ConnOf[m] \in Conns /\ m # NoMsg
    BY SendAssumption DEF Inv, MemTypes, SendAssumption
  <2>2. InQueue(m) => m \notin freed /\ psend[ConnOf[m]] # m
    BY <2>1 DEF OwnInv, InQueue
  <2>3. fdOpen[ConnOf[m]] =>
          /\ InQueue(m) \/ psend[ConnOf[m]] = m \/ m \in freed
          /\ psend[ConnOf[m]] = m /\ m \in freed => Clearing(ConnOf[m])
          /\ m \notin twice
    BY <2>1 DEF OwnInv, ReleaseInv
  <2>4. QED
    BY <2>2, <2>3
<1>2. QED
  BY <1>1, SendInvariant, PTL

(* An unfinished package of an open connection is always some thread's     *)
(* business, and iThrowsendCount tells S so.                               *)
THEOREM PendingDriven == ASSUME ~UnreadAtClose PROVE Spec => []PendingIsDriven
<1>1. Inv => PendingIsDriven
  BY DEF Inv, PendInv, Pending, PendingIsDriven
<1>2. QED
  BY <1>1, SendInvariant, PTL

(* Every client reads whole packages one after the other.                  *)
THEOREM StreamIsFramed == ASSUME ~UnreadAtClose PROVE Spec => []WireFraming
<1>1. Inv => WireFraming
  BY DEF Inv, WireInv
<1>2. QED
  BY <1>1, SendInvariant, PTL

(* No wakeup of S is lost, though a package it passes over has no count of *)
(* its own in the semaphore.                                               *)
THEOREM NoWakeupLost == ASSUME ~UnreadAtClose PROVE Spec => []WakeupOwed
<1>1. Init => WakeupOwed
  BY DEF Init, WakeupOwed
<1>2. Inv /\ WakeupOwed /\ [Next]_vars => WakeupOwed'
  BY WakeStep
<1>3. QED
  BY <1>1, <1>2, SendInvariant, PTL DEF Spec

=============================================================================
