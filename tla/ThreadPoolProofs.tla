-------------------------- MODULE ThreadPoolProofs --------------------------
(***************************************************************************)
(* Theorems about ThreadPool, for any number of threads and messages.  Inv *)
(* is inductive: each of its parts has a lemma that says a step preserves  *)
(* it, one case per action.                                                *)
(***************************************************************************)
EXTENDS ThreadPool, FiniteSetTheorems, SequenceTheorems, TLAPS

(* Sets of workers can be counted.                                         *)
LEMMA Finite ==
  ASSUME NEW S \in SUBSET Workers
  PROVE  IsFiniteSet(S) /\ Cardinality(S) \in Nat
BY ThreadAssumption, FS_Subset, FS_CardinalityType DEF ThreadAssumption

(* Adding a worker to such a set counts it once.                           *)
LEMMA OneMore ==
  ASSUME NEW S \in SUBSET Workers, NEW w \in Workers
  PROVE  Cardinality(S \cup {w}) = IF w \in S THEN Cardinality(S) ELSE Cardinality(S) + 1
BY Finite, FS_AddElement

(* Taking one out of it counts one less.                                   *)
LEMMA OneLess ==
  ASSUME NEW S \in SUBSET Workers, NEW w \in S
  PROVE  Cardinality(S \ {w}) = Cardinality(S) - 1
BY Finite, FS_RemoveElement

(* The initial state satisfies the invariant.                              *)
LEMMA InitInv == Init => Inv
<1> SUFFICES ASSUME Init PROVE Inv
  OBVIOUS
<1> USE ThreadAssumption DEF ThreadAssumption, Init
<1>1. TypeOK
  <2>1. queue \in Seq(1..MaxMsgs)
    BY EmptySeq
  <2>2. /\ up \in [Workers -> BOOLEAN] /\ pc \in [Workers -> Locals]
        /\ job \in [Workers -> 0..MaxMsgs]
    BY DEF Locals
  <2>3. shutdown \in BOOLEAN
    BY Zenon
  <2>4. /\ count \in Nat /\ running \in Nat
        /\ mutex \in Workers \cup {Main, Nobody} /\ waiting \in SUBSET Workers
        /\ posted \in 0..MaxMsgs /\ taken \in 0..MaxMsgs
        /\ done \in SUBSET (1..MaxMsgs)
    OBVIOUS
  <2>5. QED
    BY <2>1, <2>2, <2>3, <2>4, Zenon DEF TypeOK
<1>2. LockInv
  BY DEF LockInv, TakesNonEmpty
<1>3. QueueInv /\ JobInv
  BY DEF QueueInv, JobInv
<1>4. Busy = {}
  BY DEF Busy
<1>5. CountsExact
  BY <1>4, FS_EmptySet DEF CountsExact
<1>6. WorkConserving
  BY DEF WorkConserving
<1>7. QED
  BY <1>1, <1>2, <1>3, <1>5, <1>6 DEF Inv

(* A step keeps to the mutex.                                              *)
LEMMA LockStep == Inv /\ [Next]_vars => LockInv'
<1> SUFFICES ASSUME Inv, [Next]_vars PROVE LockInv'
  OBVIOUS
<1> USE ThreadAssumption DEF ThreadAssumption, mainVars, Inv, TypeOK,
         LockInv, TakesNonEmpty
<1>1. ASSUME NEW w \in Workers, CreateThread(w) PROVE LockInv'
  BY <1>1 DEF CreateThread
<1>2. ASSUME NEW w \in Workers, WLock(w) PROVE LockInv'
  BY <1>2 DEF WLock
<1>3. ASSUME NEW w \in Workers, WTest(w) PROVE LockInv'
  BY <1>3 DEF WTest
<1>4. ASSUME NEW w \in Workers, WSleep(w) PROVE LockInv'
  BY <1>4 DEF WSleep
<1>5. ASSUME NEW w \in Workers, WSpurious(w) PROVE LockInv'
  BY <1>5 DEF WSpurious
<1>6. ASSUME NEW w \in Workers, WWake(w) PROVE LockInv'
  BY <1>6 DEF WWake
<1>7. ASSUME NEW w \in Workers, WExit(w) PROVE LockInv'
  BY <1>7 DEF WExit
<1>8. ASSUME NEW w \in Workers, WTake(w) PROVE LockInv'
  BY <1>8 DEF WTake
<1>9. ASSUME NEW w \in Workers, WBegin(w) PROVE LockInv'
  BY <1>9 DEF WBegin
<1>10. ASSUME NEW w \in Workers, WRun(w) PROVE LockInv'
  BY <1>10 DEF WRun
<1>11. ASSUME NEW w \in Workers, WEnd(w) PROVE LockInv'
  BY <1>11 DEF WEnd
<1>12. CASE AwaitRunning
  BY <1>12 DEF AwaitRunning
<1>13. CASE MLock
  BY <1>13 DEF MLock
<1>14. CASE MPush
  BY <1>14 DEF MPush
<1>15. CASE MSignal
  BY <1>15 DEF MSignal
<1>16. CASE MStop
  BY <1>16 DEF MStop
<1>17. CASE MBroadcast
  BY <1>17 DEF MBroadcast
<1>18. CASE MJoin
  BY <1>18 DEF MJoin
<1>19. CASE MClear
  BY <1>19 DEF MClear
<1>20. CASE UNCHANGED vars
  BY <1>20 DEF vars
<1>21. QED
    BY <1>1, <1>2, <1>3, <1>4, <1>5, <1>6, <1>7, <1>8, <1>9, <1>10, <1>11,
     <1>12, <1>13, <1>14, <1>15, <1>16, <1>17, <1>18, <1>19, <1>20 DEF Next,
     WStep, MStep

(* The queue stays the messages posted and not taken, in their order.      *)
LEMMA QueueStep == Inv /\ [Next]_vars => QueueInv'
<1> SUFFICES ASSUME Inv, [Next]_vars PROVE QueueInv'
  OBVIOUS
<1> USE ThreadAssumption DEF ThreadAssumption, mainVars, Inv, TypeOK,
         LockInv, QueueInv, TakesNonEmpty
<1>1. ASSUME NEW w \in Workers, CreateThread(w) PROVE QueueInv'
  BY <1>1 DEF CreateThread
<1>2. ASSUME NEW w \in Workers, WLock(w) PROVE QueueInv'
  BY <1>2 DEF WLock
<1>3. ASSUME NEW w \in Workers, WTest(w) PROVE QueueInv'
  BY <1>3 DEF WTest
<1>4. ASSUME NEW w \in Workers, WSleep(w) PROVE QueueInv'
  BY <1>4 DEF WSleep
<1>5. ASSUME NEW w \in Workers, WSpurious(w) PROVE QueueInv'
  BY <1>5 DEF WSpurious
<1>6. ASSUME NEW w \in Workers, WWake(w) PROVE QueueInv'
  BY <1>6 DEF WWake
<1>7. ASSUME NEW w \in Workers, WExit(w) PROVE QueueInv'
  BY <1>7 DEF WExit
<1>8. ASSUME NEW w \in Workers, WTake(w) PROVE QueueInv'
  <2>1. queue # <<>> /\ pcM # "exit"
    BY <1>8 DEF WTake
  <2>2. /\ Len(Tail(queue)) = Len(queue) - 1
        /\ \A i \in 1..Len(Tail(queue)) : Tail(queue)[i] = queue[i + 1]
    BY <2>1, HeadTailProperties
  <2>3. QED
    BY <1>8, <2>1, <2>2 DEF WTake
<1>9. ASSUME NEW w \in Workers, WBegin(w) PROVE QueueInv'
  BY <1>9 DEF WBegin
<1>10. ASSUME NEW w \in Workers, WRun(w) PROVE QueueInv'
  BY <1>10 DEF WRun
<1>11. ASSUME NEW w \in Workers, WEnd(w) PROVE QueueInv'
  BY <1>11 DEF WEnd
<1>12. CASE AwaitRunning
  BY <1>12 DEF AwaitRunning
<1>13. CASE MLock
  BY <1>13 DEF MLock
<1>14. CASE MPush
  <2>1. /\ Len(queue') = Len(queue) + 1
        /\ \A i \in 1..Len(queue') :
             queue'[i] = IF i = Len(queue) + 1 THEN posted + 1 ELSE queue[i]
    BY <1>14 DEF MPush
  <2>2. QED
    BY <1>14, <2>1 DEF MPush
<1>15. CASE MSignal
  BY <1>15 DEF MSignal
<1>16. CASE MStop
  BY <1>16 DEF MStop
<1>17. CASE MBroadcast
  BY <1>17 DEF MBroadcast
<1>18. CASE MJoin
  BY <1>18 DEF MJoin
<1>19. CASE MClear
  BY <1>19 DEF MClear
<1>20. CASE UNCHANGED vars
  BY <1>20 DEF vars
<1>21. QED
    BY <1>1, <1>2, <1>3, <1>4, <1>5, <1>6, <1>7, <1>8, <1>9, <1>10, <1>11,
     <1>12, <1>13, <1>14, <1>15, <1>16, <1>17, <1>18, <1>19, <1>20 DEF Next,
     WStep, MStep

(* A worker has a message exactly while it processes one.                  *)
LEMMA JobStep == Inv /\ [Next]_vars => JobInv'
<1> SUFFICES ASSUME Inv, [Next]_vars PROVE JobInv'
  OBVIOUS
<1> USE ThreadAssumption DEF ThreadAssumption, mainVars, Inv, TypeOK,
         JobInv, LockInv, TakesNonEmpty, QueueInv
<1>1. ASSUME NEW w \in Workers, CreateThread(w) PROVE JobInv'
  BY <1>1 DEF CreateThread
<1>2. ASSUME NEW w \in Workers, WLock(w) PROVE JobInv'
  BY <1>2 DEF WLock
<1>3. ASSUME NEW w \in Workers, WTest(w) PROVE JobInv'
  BY <1>3 DEF WTest
<1>4. ASSUME NEW w \in Workers, WSleep(w) PROVE JobInv'
  BY <1>4 DEF WSleep
<1>5. ASSUME NEW w \in Workers, WSpurious(w) PROVE JobInv'
  BY <1>5 DEF WSpurious
<1>6. ASSUME NEW w \in Workers, WWake(w) PROVE JobInv'
  BY <1>6 DEF WWake
<1>7. ASSUME NEW w \in Workers, WExit(w) PROVE JobInv'
  BY <1>7 DEF WExit
<1>8. ASSUME NEW w \in Workers, WTake(w) PROVE JobInv'
  <2>1. queue # <<>> /\ pcM # "exit"
    BY <1>8 DEF WTake
  <2>2. Head(queue) \in 1..MaxMsgs
    BY <2>1, HeadTailProperties
  <2>3. QED
    BY <1>8, <2>2 DEF WTake
<1>9. ASSUME NEW w \in Workers, WBegin(w) PROVE JobInv'
  BY <1>9 DEF WBegin
<1>10. ASSUME NEW w \in Workers, WRun(w) PROVE JobInv'
  BY <1>10 DEF WRun
<1>11. ASSUME NEW w \in Workers, WEnd(w) PROVE JobInv'
  BY <1>11 DEF WEnd
<1>12. CASE AwaitRunning
  BY <1>12 DEF AwaitRunning
<1>13. CASE MLock
  BY <1>13 DEF MLock
<1>14. CASE MPush
  BY <1>14 DEF MPush
<1>15. CASE MSignal
  BY <1>15 DEF MSignal
<1>16. CASE MStop
  BY <1>16 DEF MStop
<1>17. CASE MBroadcast
  BY <1>17 DEF MBroadcast
<1>18. CASE MJoin
  BY <1>18 DEF MJoin
<1>19. CASE MClear
  BY <1>19 DEF MClear
<1>20. CASE UNCHANGED vars
  BY <1>20 DEF vars
<1>21. QED
    BY <1>1, <1>2, <1>3, <1>4, <1>5, <1>6, <1>7, <1>8, <1>9, <1>10, <1>11,
     <1>12, <1>13, <1>14, <1>15, <1>16, <1>17, <1>18, <1>19, <1>20 DEF Next,
     WStep, MStep

(* The two counters stay exact.                                            *)
LEMMA CountsStep == Inv /\ [Next]_vars => CountsExact'
<1> SUFFICES ASSUME Inv, [Next]_vars PROVE CountsExact'
  OBVIOUS
<1> USE ThreadAssumption DEF ThreadAssumption, mainVars, Inv, TypeOK,
         LockInv, CountsExact, TakesNonEmpty
<1>1. ASSUME NEW w \in Workers, CreateThread(w) PROVE CountsExact'
  <2>1. Busy' = Busy
    BY <1>1 DEF CreateThread, Busy
  <2>2. QED
    BY <1>1, <2>1 DEF CreateThread
<1>2. ASSUME NEW w \in Workers, WLock(w) PROVE CountsExact'
  <2>1. Busy' = Busy
    BY <1>2 DEF WLock, Busy
  <2>2. QED
    BY <1>2, <2>1 DEF WLock
<1>3. ASSUME NEW w \in Workers, WTest(w) PROVE CountsExact'
  <2>1. Busy' = Busy
    BY <1>3 DEF WTest, Busy
  <2>2. QED
    BY <1>3, <2>1 DEF WTest
<1>4. ASSUME NEW w \in Workers, WSleep(w) PROVE CountsExact'
  <2>1. Busy' = Busy
    BY <1>4 DEF WSleep, Busy
  <2>2. QED
    BY <1>4, <2>1 DEF WSleep
<1>5. ASSUME NEW w \in Workers, WSpurious(w) PROVE CountsExact'
  <2>1. Busy' = Busy
    BY <1>5 DEF WSpurious, Busy
  <2>2. QED
    BY <1>5, <2>1 DEF WSpurious
<1>6. ASSUME NEW w \in Workers, WWake(w) PROVE CountsExact'
  <2>1. Busy' = Busy
    BY <1>6 DEF WWake, Busy
  <2>2. QED
    BY <1>6, <2>1 DEF WWake
<1>7. ASSUME NEW w \in Workers, WExit(w) PROVE CountsExact'
  <2>1. Busy' = Busy
    BY <1>7 DEF WExit, Busy
  <2>2. QED
    BY <1>7, <2>1 DEF WExit
<1>8. ASSUME NEW w \in Workers, WTake(w) PROVE CountsExact'
  <2>1. Busy' = Busy
    BY <1>8 DEF WTake, Busy
  <2>2. queue # <<>> /\ pcM # "exit"
    BY <1>8 DEF WTake
  <2>3. Len(Tail(queue)) = Len(queue) - 1
    BY <2>2, HeadTailProperties
  <2>4. QED
    BY <1>8, <2>1, <2>2, <2>3 DEF WTake
<1>9. ASSUME NEW w \in Workers, WBegin(w) PROVE CountsExact'
  <2>1. Busy' = Busy \cup {w} /\ w \notin Busy /\ Busy \in SUBSET Workers
    BY <1>9 DEF WBegin, Busy
  <2>2. Cardinality(Busy') = Cardinality(Busy) + 1
    BY <2>1, OneMore
  <2>3. QED
    BY <1>9, <2>2 DEF WBegin
<1>10. ASSUME NEW w \in Workers, WRun(w) PROVE CountsExact'
  <2>1. Busy' = Busy
    BY <1>10 DEF WRun, Busy
  <2>2. QED
    BY <1>10, <2>1 DEF WRun
<1>11. ASSUME NEW w \in Workers, WEnd(w) PROVE CountsExact'
  <2>1. Busy' = Busy \ {w} /\ w \in Busy /\ Busy \in SUBSET Workers
    BY <1>11 DEF WEnd, Busy
  <2>2. Cardinality(Busy') = Cardinality(Busy) - 1
    BY <2>1, OneLess
  <2>3. QED
    BY <1>11, <2>2 DEF WEnd
<1>12. CASE AwaitRunning
  <2>1. Busy' = Busy
    BY <1>12 DEF AwaitRunning, Busy
  <2>2. QED
    BY <1>12, <2>1 DEF AwaitRunning
<1>13. CASE MLock
  <2>1. Busy' = Busy
    BY <1>13 DEF MLock, Busy
  <2>2. QED
    BY <1>13, <2>1 DEF MLock
<1>14. CASE MPush
  <2>1. Busy' = Busy
    BY <1>14 DEF MPush, Busy
  <2>2. QED
    BY <1>14, <2>1 DEF MPush
<1>15. CASE MSignal
  <2>1. Busy' = Busy
    BY <1>15 DEF MSignal, Busy
  <2>2. QED
    BY <1>15, <2>1 DEF MSignal
<1>16. CASE MStop
  <2>1. Busy' = Busy
    BY <1>16 DEF MStop, Busy
  <2>2. QED
    BY <1>16, <2>1 DEF MStop
<1>17. CASE MBroadcast
  <2>1. Busy' = Busy
    BY <1>17 DEF MBroadcast, Busy
  <2>2. QED
    BY <1>17, <2>1 DEF MBroadcast
<1>18. CASE MJoin
  <2>1. Busy' = Busy
    BY <1>18 DEF MJoin, Busy
  <2>2. QED
    BY <1>18, <2>1 DEF MJoin
<1>19. CASE MClear
  <2>1. Busy' = Busy
    BY <1>19 DEF MClear, Busy
  <2>2. QED
    BY <1>19, <2>1 DEF MClear
<1>20. CASE UNCHANGED vars
  <2>1. Busy' = Busy
    BY <1>20 DEF vars, Busy
  <2>2. QED
    BY <1>20, <2>1 DEF vars
<1>21. QED
    BY <1>1, <1>2, <1>3, <1>4, <1>5, <1>6, <1>7, <1>8, <1>9, <1>10, <1>11,
     <1>12, <1>13, <1>14, <1>15, <1>16, <1>17, <1>18, <1>19, <1>20 DEF Next,
     WStep, MStep

(* Types: no counter goes below zero.                                      *)
LEMMA TypeStep == Inv /\ [Next]_vars => TypeOK'
<1> SUFFICES ASSUME Inv, [Next]_vars PROVE TypeOK'
  OBVIOUS
<1> USE ThreadAssumption DEF ThreadAssumption, mainVars, Inv, TypeOK,
         Locals, LockInv, QueueInv, TakesNonEmpty, CountsExact
<1>1. ASSUME NEW w \in Workers, CreateThread(w) PROVE TypeOK'
  BY <1>1 DEF CreateThread
<1>2. ASSUME NEW w \in Workers, WLock(w) PROVE TypeOK'
  BY <1>2 DEF WLock
<1>3. ASSUME NEW w \in Workers, WTest(w) PROVE TypeOK'
  BY <1>3 DEF WTest
<1>4. ASSUME NEW w \in Workers, WSleep(w) PROVE TypeOK'
  BY <1>4 DEF WSleep
<1>5. ASSUME NEW w \in Workers, WSpurious(w) PROVE TypeOK'
  BY <1>5 DEF WSpurious
<1>6. ASSUME NEW w \in Workers, WWake(w) PROVE TypeOK'
  BY <1>6 DEF WWake
<1>7. ASSUME NEW w \in Workers, WExit(w) PROVE TypeOK'
  BY <1>7 DEF WExit
<1>8. ASSUME NEW w \in Workers, WTake(w) PROVE TypeOK'
  <2>1. queue # <<>> /\ pcM # "exit"
    BY <1>8 DEF WTake
  <2>2. /\ Head(queue) \in 1..MaxMsgs /\ Tail(queue) \in Seq(1..MaxMsgs)
        /\ Len(queue) \in Nat \ {0}
    BY <2>1, HeadTailProperties, EmptySeq
  <2>3. QED
    BY <1>8, <2>1, <2>2 DEF WTake
<1>9. ASSUME NEW w \in Workers, WBegin(w) PROVE TypeOK'
  BY <1>9 DEF WBegin
<1>10. ASSUME NEW w \in Workers, WRun(w) PROVE TypeOK'
  <2>1. job[w] \in 1..MaxMsgs
    BY <1>10 DEF WRun, JobInv
  <2>2. done' \in SUBSET (1..MaxMsgs)
    BY <1>10, <2>1 DEF WRun
  <2>3. job' \in [Workers -> 0..MaxMsgs]
    BY <1>10 DEF WRun
  <2>4. QED
    BY <1>10, <2>2, <2>3 DEF WRun
<1>11. ASSUME NEW w \in Workers, WEnd(w) PROVE TypeOK'
  <2>1. w \in Busy /\ Busy \in SUBSET Workers
    BY <1>11 DEF WEnd, Busy
  <2>2. Cardinality(Busy \ {w}) = running - 1 /\ Cardinality(Busy \ {w}) \in Nat
    BY <2>1, OneLess, Finite
  <2>3. QED
    BY <1>11, <2>2 DEF WEnd
<1>12. CASE AwaitRunning
  BY <1>12 DEF AwaitRunning
<1>13. CASE MLock
  BY <1>13 DEF MLock
<1>14. CASE MPush
  BY <1>14 DEF MPush
<1>15. CASE MSignal
  BY <1>15 DEF MSignal
<1>16. CASE MStop
  BY <1>16 DEF MStop
<1>17. CASE MBroadcast
  BY <1>17 DEF MBroadcast
<1>18. CASE MJoin
  BY <1>18 DEF MJoin
<1>19. CASE MClear
  BY <1>19 DEF MClear
<1>20. CASE UNCHANGED vars
  BY <1>20 DEF vars
<1>21. QED
    BY <1>1, <1>2, <1>3, <1>4, <1>5, <1>6, <1>7, <1>8, <1>9, <1>10, <1>11,
     <1>12, <1>13, <1>14, <1>15, <1>16, <1>17, <1>18, <1>19, <1>20 DEF Next,
     WStep, MStep

(* The workers that will look at the queue are workers.                    *)
LEMMA HeadingIsSet == Heading \in SUBSET Workers
BY DEF Heading

(* While a thread waits, every queued message has a thread on its way.     *)
LEMMA WorkStep == Inv /\ [Next]_vars => WorkConserving'
<1> SUFFICES ASSUME Inv, [Next]_vars PROVE WorkConserving'
  OBVIOUS
<1> USE ThreadAssumption DEF ThreadAssumption, mainVars, Inv, TypeOK,
         LockInv, TakesNonEmpty, WorkConserving
<1>1. ASSUME NEW w \in Workers, CreateThread(w) PROVE WorkConserving'
  <2>1. Heading' = Heading \cup {w}
    BY <1>1 DEF CreateThread, Heading
  <2>2. Cardinality(Heading') = IF w \in Heading THEN Cardinality(Heading)
                                ELSE Cardinality(Heading) + 1
    BY <2>1, HeadingIsSet, OneMore
  <2>3. Cardinality(Heading) \in Nat
    BY HeadingIsSet, Finite
  <2>4. QED
    BY <1>1, <2>2, <2>3 DEF CreateThread
<1>2. ASSUME NEW w \in Workers, WLock(w) PROVE WorkConserving'
  <2>1. Heading' = Heading
    BY <1>2 DEF WLock, Heading
  <2>2. QED
    BY <1>2, <2>1 DEF WLock
<1>3. ASSUME NEW w \in Workers, WTest(w) PROVE WorkConserving'
  <2>1. CASE queue = <<>> /\ ~shutdown
    <3>1. Cardinality(Heading') \in Nat
      BY Finite DEF Heading
    <3>2. QED
      BY <1>3, <2>1, <3>1 DEF WTest
  <2>2. CASE ~(queue = <<>> /\ ~shutdown)
    <3>1. Heading' = Heading
      BY <1>3, <2>2 DEF WTest, Heading
    <3>2. QED
      BY <1>3, <3>1 DEF WTest
  <2>3. QED
    BY <2>1, <2>2
<1>4. ASSUME NEW w \in Workers, WSleep(w) PROVE WorkConserving'
  <2>1. queue' = <<>>
    BY <1>4 DEF WSleep
  <2>2. Cardinality(Heading') \in Nat
    BY Finite DEF Heading
  <2>3. QED
    BY <2>1, <2>2
<1>5. ASSUME NEW w \in Workers, WSpurious(w) PROVE WorkConserving'
  <2>1. Heading' = Heading \cup {w}
    BY <1>5 DEF WSpurious, Heading
  <2>2. Cardinality(Heading') = IF w \in Heading THEN Cardinality(Heading)
                                ELSE Cardinality(Heading) + 1
    BY <2>1, HeadingIsSet, OneMore
  <2>3. Cardinality(Heading) \in Nat
    BY HeadingIsSet, Finite
  <2>4. QED
    BY <1>5, <2>2, <2>3 DEF WSpurious
<1>6. ASSUME NEW w \in Workers, WWake(w) PROVE WorkConserving'
  <2>1. Heading' = Heading
    BY <1>6 DEF WWake, Heading
  <2>2. QED
    BY <1>6, <2>1 DEF WWake
<1>7. ASSUME NEW w \in Workers, WExit(w) PROVE WorkConserving'
  <2>1. shutdown'
    BY <1>7 DEF WExit
  <2>2. QED
    BY <2>1
<1>8. ASSUME NEW w \in Workers, WTake(w) PROVE WorkConserving'
  <2>1. Heading' = Heading \ {w} /\ w \in Heading
    BY <1>8 DEF WTake, Heading
  <2>2. Cardinality(Heading') = Cardinality(Heading) - 1
    BY <2>1, HeadingIsSet, OneLess
  <2>3. Len(queue') = Len(queue) - 1
    BY <1>8, HeadTailProperties DEF WTake
  <2>4. Cardinality(Heading) \in Nat
    BY HeadingIsSet, Finite
  <2>5. QED
    BY <1>8, <2>2, <2>3, <2>4 DEF WTake
<1>9. ASSUME NEW w \in Workers, WBegin(w) PROVE WorkConserving'
  <2>1. Heading' = Heading
    BY <1>9 DEF WBegin, Heading
  <2>2. QED
    BY <1>9, <2>1 DEF WBegin
<1>10. ASSUME NEW w \in Workers, WRun(w) PROVE WorkConserving'
  <2>1. Heading' = Heading
    BY <1>10 DEF WRun, Heading
  <2>2. QED
    BY <1>10, <2>1 DEF WRun
<1>11. ASSUME NEW w \in Workers, WEnd(w) PROVE WorkConserving'
  <2>1. Heading' = Heading \cup {w}
    BY <1>11 DEF WEnd, Heading
  <2>2. Cardinality(Heading') = IF w \in Heading THEN Cardinality(Heading)
                                ELSE Cardinality(Heading) + 1
    BY <2>1, HeadingIsSet, OneMore
  <2>3. Cardinality(Heading) \in Nat
    BY HeadingIsSet, Finite
  <2>4. QED
    BY <1>11, <2>2, <2>3 DEF WEnd
<1>12. CASE AwaitRunning
  <2>1. Heading' = Heading
    BY <1>12 DEF AwaitRunning, Heading
  <2>2. QED
    BY <1>12, <2>1 DEF AwaitRunning
<1>13. CASE MLock
  <2>1. Heading' = Heading
    BY <1>13 DEF MLock, Heading
  <2>2. QED
    BY <1>13, <2>1 DEF MLock
<1>14. CASE MPush
  <2>1. Heading' = Heading
    BY <1>14 DEF MPush, Heading
  <2>2. Len(queue') = Len(queue) + 1
    BY <1>14 DEF MPush
  <2>3. Cardinality(Heading) \in Nat
    BY HeadingIsSet, Finite
  <2>4. QED
    BY <1>14, <2>1, <2>2, <2>3 DEF MPush
<1>15. CASE MSignal
  <2>1. CASE waiting = {}
    BY <1>15, <2>1 DEF MSignal
  <2>2. ASSUME NEW w \in waiting, waiting' = waiting \ {w} PROVE WorkConserving'
    <3>1. Heading' = Heading \cup {w} /\ w \notin Heading
      BY <1>15, <2>2 DEF MSignal, Heading
    <3>2. Cardinality(Heading') = Cardinality(Heading) + 1
      BY <3>1, HeadingIsSet, OneMore
    <3>3. Cardinality(Heading) \in Nat
      BY HeadingIsSet, Finite
    <3>4. QED
      BY <1>15, <3>2, <3>3 DEF MSignal
  <2>3. QED
    BY <1>15, <2>1, <2>2 DEF MSignal
<1>16. CASE MStop
  <2>1. shutdown'
    BY <1>16 DEF MStop
  <2>2. QED
    BY <2>1
<1>17. CASE MBroadcast
  <2>1. shutdown'
    BY <1>17 DEF MBroadcast
  <2>2. QED
    BY <2>1
<1>18. CASE MJoin
  <2>1. shutdown'
    BY <1>18 DEF MJoin
  <2>2. QED
    BY <2>1
<1>19. CASE MClear
  <2>1. shutdown'
    BY <1>19 DEF MClear
  <2>2. QED
    BY <2>1
<1>20. CASE UNCHANGED vars
  <2>1. Heading' = Heading
    BY <1>20 DEF vars, Heading
  <2>2. QED
    BY <1>20, <2>1 DEF vars
<1>21. QED
    BY <1>1, <1>2, <1>3, <1>4, <1>5, <1>6, <1>7, <1>8, <1>9, <1>10, <1>11,
     <1>12, <1>13, <1>14, <1>15, <1>16, <1>17, <1>18, <1>19, <1>20 DEF Next,
     WStep, MStep

(* The invariant holds in every reachable state.                           *)
THEOREM PoolInvariant == Spec => []Inv
<1>1. Inv /\ [Next]_vars => Inv'
  BY TypeStep, LockStep, QueueStep, JobStep, CountsStep, WorkStep DEF Inv
<1>2. QED
  BY <1>1, InitInv, PTL DEF Spec

(* Types: in particular the counters, read by other threads, are never     *)
(* negative.                                                               *)
THEOREM TypeCorrect == Spec => []TypeOK
BY PoolInvariant, PTL DEF Inv

(* No thread calls front() on an empty queue.                              *)
THEOREM NeverTakesFromEmpty == Spec => []TakesNonEmpty
<1>1. Inv => TakesNonEmpty
  BY DEF Inv, LockInv
<1>2. QED
  BY <1>1, PoolInvariant, PTL

(* m_iRecvMsgQueueCount and m_iRunningThreadNum are exact.                 *)
THEOREM CountersExact == Spec => []CountsExact
BY PoolInvariant, PTL DEF Inv

(* No wakeup is lost: while a thread waits, every message on the queue has *)
(* a thread on its way to it.                                              *)
THEOREM NoLostWakeup == Spec => []WorkConserving
BY PoolInvariant, PTL DEF Inv

(* The pool implements WorkPool: every step is a step of the abstract pool *)
(* or changes nothing of it.                                               *)
THEOREM Refinement == Spec => ImplementsWorkPool
<1>1. Init => Abstract!Init
  BY DEF Init, Abstract!Init
<1>2. Inv /\ [Next]_vars => [Abstract!Next]_<<posted, taken, job, done>>
  <2> SUFFICES ASSUME Inv, [Next]_vars
               PROVE  [Abstract!Next]_<<posted, taken, job, done>>
    OBVIOUS
  <2> USE DEF mainVars
  <2>1. ASSUME NEW w \in Workers, CreateThread(w)
        PROVE  [Abstract!Next]_<<posted, taken, job, done>>
    BY <2>1 DEF CreateThread
  <2>2. ASSUME NEW w \in Workers, WLock(w)
        PROVE  [Abstract!Next]_<<posted, taken, job, done>>
    BY <2>2 DEF WLock
  <2>3. ASSUME NEW w \in Workers, WTest(w)
        PROVE  [Abstract!Next]_<<posted, taken, job, done>>
    BY <2>3 DEF WTest
  <2>4. ASSUME NEW w \in Workers, WSleep(w)
        PROVE  [Abstract!Next]_<<posted, taken, job, done>>
    BY <2>4 DEF WSleep
  <2>5. ASSUME NEW w \in Workers, WSpurious(w)
        PROVE  [Abstract!Next]_<<posted, taken, job, done>>
    BY <2>5 DEF WSpurious
  <2>6. ASSUME NEW w \in Workers, WWake(w)
        PROVE  [Abstract!Next]_<<posted, taken, job, done>>
    BY <2>6 DEF WWake
  <2>7. ASSUME NEW w \in Workers, WExit(w)
        PROVE  [Abstract!Next]_<<posted, taken, job, done>>
    BY <2>7 DEF WExit
  <2>8. ASSUME NEW w \in Workers, WTake(w)
        PROVE  [Abstract!Next]_<<posted, taken, job, done>>
    <3>1. queue # <<>> /\ pcM # "exit"
      BY <2>8 DEF WTake, Inv, LockInv, TakesNonEmpty
    <3>2. 1 \in 1..Len(queue) /\ Head(queue) = queue[1] /\ Len(queue) = posted - taken
      BY <3>1, EmptySeq DEF Inv, TypeOK, QueueInv
    <3>3. Head(queue) = taken + 1 /\ taken < posted
      BY <3>1, <3>2 DEF Inv, TypeOK, QueueInv
    <3>4. job[w] = 0
      BY <2>8 DEF WTake, Inv, JobInv
    <3>5. Abstract!Start(w)
      BY <2>8, <3>3, <3>4 DEF WTake, Abstract!Start
    <3>6. QED
      BY <3>5 DEF Abstract!Next
  <2>9. ASSUME NEW w \in Workers, WBegin(w)
        PROVE  [Abstract!Next]_<<posted, taken, job, done>>
    BY <2>9 DEF WBegin
  <2>10. ASSUME NEW w \in Workers, WRun(w)
        PROVE  [Abstract!Next]_<<posted, taken, job, done>>
    <3>1. Abstract!Finish(w)
      BY <2>10 DEF WRun, Abstract!Finish, Inv, JobInv
    <3>2. QED
      BY <3>1 DEF Abstract!Next
  <2>11. ASSUME NEW w \in Workers, WEnd(w)
        PROVE  [Abstract!Next]_<<posted, taken, job, done>>
    BY <2>11 DEF WEnd
  <2>12. CASE AwaitRunning
    BY <2>12 DEF AwaitRunning
  <2>13. CASE MLock
    BY <2>13 DEF MLock
  <2>14. CASE MPush
    <3>1. Abstract!Post
      BY <2>14 DEF MPush, Abstract!Post, Inv, LockInv
    <3>2. QED
      BY <3>1 DEF Abstract!Next
  <2>15. CASE MSignal
    BY <2>15 DEF MSignal
  <2>16. CASE MStop
    BY <2>16 DEF MStop
  <2>17. CASE MBroadcast
    BY <2>17 DEF MBroadcast
  <2>18. CASE MJoin
    BY <2>18 DEF MJoin
  <2>19. CASE MClear
    BY <2>19 DEF MClear
  <2>20. CASE UNCHANGED vars
    BY <2>20 DEF vars
  <2>21. QED
    BY <2>1, <2>2, <2>3, <2>4, <2>5, <2>6, <2>7, <2>8, <2>9, <2>10, <2>11,
       <2>12, <2>13, <2>14, <2>15, <2>16, <2>17, <2>18, <2>19, <2>20 DEF
       Next, WStep, MStep
<1>3. QED
  BY <1>1, <1>2, PoolInvariant, PTL DEF Spec, ImplementsWorkPool, Abstract!Spec

=============================================================================
