---------------------------- MODULE MasterProofs ----------------------------
(***************************************************************************)
(* Theorems about Master, for any number of processes and of signals and   *)
(* any configuration files.  Inv is inductive: each of its parts has a     *)
(* lemma that says a step preserves it, one case per action.               *)
(***************************************************************************)
EXTENDS Master, NatInduction, FiniteSetTheorems, SequenceTheorems, TLAPS

(* Only a process that runs is in a handler, which is in localtime_r() only *)
(* where it logs.                                                          *)
Logging == {"log", "status", "failed"}
Heeding == {"log", "wait", "status"}
StackInv == \A p \in Pids :
  /\ stack[p] # <<>> => Alive(p)
  /\ \A i \in 1..Len(stack[p]) : stack[p][i].busy => stack[p][i].at \in Logging

(* While the configuration is read there is no other process.              *)
LoadInv == \A p \in Pids : pc[p] = "load" =>
  inum = 0 /\ \A q \in Pids : q # p => pc[q] = "none"

(* A child that has ended has a parent that can collect it, and will.      *)
ZombieInv == \A q \in Pids :
  /\ parent[q] # q
  /\ pc[q] = "zombie" => Alive(parent[q]) /\ Watching(parent[q])

(* The one process that is or will be the master, its workers, and the     *)
(* mask they inherit from it.                                              *)
Single == (MainPlaces \ {"leave"}) \cup MasterPlaces
RoleInv ==
  /\ \A p, q \in Pids : pc[p] \in Single /\ pc[q] \in Single => p = q
  /\ \A p \in Pids :
       /\ pc[p] \in MainPlaces \cup MasterPlaces => role[p] = "MASTER"
       /\ pc[p] \in MasterPlaces => blocked[p]
       /\ pc[p] = "forked" => blocked[p] /\ stack[p] = <<>>
       /\ pc[p] \in WorkerPlaces \ {"forked"} => role[p] = "WORKER"
       /\ pc[p] \in WorkerPlaces => parent[p] \in Pids /\ pc[parent[p]] \in MasterPlaces

Inv == TypeOK /\ StackInv /\ LoadInv /\ ZombieInv /\ RoleInv

-----------------------------------------------------------------------------
(* What the steps of a handler do to the frames of p: the last is replaced,*)
TopReplaced(p) ==
  /\ stack' \in [Pids -> Seq(Frames)]
  /\ \A q \in Pids : q # p => stack'[q] = stack[q]
  /\ Len(stack'[p]) = Len(stack[p]) /\ stack[p] # <<>> /\ stack'[p] # <<>>
  /\ Len(stack[p]) \in 1..Len(stack[p])
  /\ \A i \in 1..Len(stack[p]) - 1 : stack'[p][i] = stack[p][i]
  /\ stack'[p][Len(stack[p])].sig = Top(p).sig
  /\ stack'[p][Len(stack[p])].busy => stack'[p][Len(stack[p])].at \in Logging
  /\ \/ NoneLeft(p)
     \/ Top(p).sig = CHLD /\ Top(p).at \in Heeding =>
          stack'[p][Len(stack[p])].at \in Heeding

(* one for s is put on top of them,                                        *)
Pushed(p, s) ==
  /\ stack' \in [Pids -> Seq(Frames)]
  /\ \A q \in Pids : q # p => stack'[q] = stack[q]
  /\ Len(stack'[p]) = Len(stack[p]) + 1 /\ stack'[p] # <<>> /\ Len(stack[p]) \in Nat
  /\ stack'[p][Len(stack[p]) + 1].sig = s
  /\ stack'[p][Len(stack[p]) + 1].at = "log"
  /\ ~stack'[p][Len(stack[p]) + 1].busy
  /\ \A i \in 1..Len(stack[p]) : stack'[p][i] = stack[p][i]

(* or the last is taken off.                                               *)
Popped(p) ==
  /\ stack' \in [Pids -> Seq(Frames)]
  /\ stack[p] # <<>> /\ Len(stack[p]) \in Nat \ {0}
  /\ \A q \in Pids : q # p => stack'[q] = stack[q]
  /\ Len(stack'[p]) = Len(stack[p]) - 1
  /\ \A i \in 1..Len(stack[p]) - 1 : stack'[p][i] = stack[p][i]

(* A number that atoi() has read, or the default, is an integer.           *)
LEMMA Number == WorkProcess \in Nat
<1>1. ASSUME NEW s PROVE atoi(s) \in Nat
  <2>1. CASE s # <<>> /\ s[1] \in {"1", "2", "3"}
    <3>1. \E n \in 1..3 : s[1] = <<"1", "2", "3">>[n]
      BY <2>1
    <3>2. QED
      BY <2>1, <3>1 DEF atoi
  <2>2. CASE ~(s # <<>> /\ s[1] \in {"1", "2", "3"})
    BY <2>2 DEF atoi
  <2>3. QED
    BY <2>1, <2>2
<1>2. QED
  BY <1>1 DEF WorkProcess, GetIntDefault

(* The frames of a process when the last is replaced ...                   *)
LEMMA TopFrame ==
  ASSUME TypeOK, NEW p \in Pids, stack[p] # <<>>, NEW f \in Frames,
         stack' = [stack EXCEPT ![p][Len(stack[p])] = f]
  PROVE  /\ stack' \in [Pids -> Seq(Frames)]
         /\ \A q \in Pids : q # p => stack'[q] = stack[q]
         /\ Len(stack'[p]) = Len(stack[p]) /\ stack'[p] # <<>>
         /\ Len(stack[p]) \in 1..Len(stack[p])
         /\ stack'[p][Len(stack[p])] = f
         /\ \A i \in 1..Len(stack[p]) - 1 : stack'[p][i] = stack[p][i]
<1>1. stack[p] \in Seq(Frames) /\ stack \in [Pids -> Seq(Frames)]
  BY DEF TypeOK
<1>2. Len(stack[p]) \in 1..Len(stack[p])
  BY <1>1
<1> DEFINE s == [stack[p] EXCEPT ![Len(stack[p])] = f]
<1>3. stack' = [stack EXCEPT ![p] = s]
  OBVIOUS
<1>4. /\ s \in Seq(Frames) /\ Len(s) = Len(stack[p])
      /\ s[Len(stack[p])] = f
      /\ \A i \in 1..Len(stack[p]) - 1 : s[i] = stack[p][i]
  BY <1>1, <1>2
<1> HIDE DEF s
<1>5. s # <<>>
  BY <1>2, <1>4
<1>6. QED
  BY <1>1, <1>2, <1>3, <1>4, <1>5

(* ... as it is in four actions, which go on to log, wait or return.       *)
LEMMA HandlerFrame ==
  ASSUME TypeOK, StackInv, NEW p \in Pids,
         LogLock(p) \/ LogUnlock(p) \/ Collect(p) \/ NoneLeft(p)
  PROVE  TopReplaced(p)
<1>1. stack[p] # <<>> /\ stack[p] \in Seq(Frames)
  BY DEF LogLock, LogUnlock, Collect, CollectWith, NoneLeft, TypeOK
<1>2. Len(stack[p]) \in 1..Len(stack[p]) /\ Top(p) \in Frames /\ Top(p) = stack[p][Len(stack[p])]
  BY <1>1 DEF Top
<1>3. CASE LogLock(p)
  <2> DEFINE to == Top(p).at
  <2> DEFINE f == [sig |-> Top(p).sig, at |-> to, busy |-> TRUE, one |-> Top(p).one]
  <2>1. stack' = [stack EXCEPT ![p][Len(stack[p])] = f]
    BY <1>3 DEF LogLock, Becomes
  <2>2. f \in Frames
    BY <1>2 DEF Frames
  <2>3. to \in Logging
    BY <1>3 DEF LogLock, Logging
  <2>4. f.sig = Top(p).sig /\ f.at = to /\ f.busy = TRUE
    OBVIOUS
  <2> HIDE DEF f
  <2>6. QED
    BY <1>1, <1>2, <1>3, <2>1, <2>2, <2>3, <2>4, TopFrame DEF TopReplaced, Heeding
<1>4. CASE LogUnlock(p)
  <2> DEFINE to == IF Top(p).at = "status" \/ (Top(p).at = "log" /\ Top(p).sig = CHLD)
                   THEN "wait" ELSE "return"
  <2> DEFINE f == [sig |-> Top(p).sig, at |-> to, busy |-> FALSE, one |-> Top(p).one]
  <2>1. stack' = [stack EXCEPT ![p][Len(stack[p])] = f]
    BY <1>4 DEF LogUnlock, Becomes
  <2>2. f \in Frames
    BY <1>2 DEF Frames
  <2>3. Top(p).sig = CHLD /\ Top(p).at \in Heeding => to = "wait"
    BY <1>2, <1>4 DEF LogUnlock, StackInv, Logging, Heeding
  <2>4. f.sig = Top(p).sig /\ f.at = to /\ f.busy = FALSE
    OBVIOUS
  <2> HIDE DEF f, to
  <2>6. QED
    BY <1>1, <1>2, <1>4, <2>1, <2>2, <2>3, <2>4, TopFrame DEF TopReplaced, Heeding
<1>5. CASE Collect(p)
  <2> DEFINE to == "status"
  <2> DEFINE f == [sig |-> Top(p).sig, at |-> to, busy |-> FALSE, one |-> TRUE]
  <2>3. to \in Heeding
    BY DEF Heeding
  <2>1. stack' = [stack EXCEPT ![p][Len(stack[p])] = f]
    BY <1>5 DEF Collect, CollectWith, Becomes
  <2>2. f \in Frames
    BY <1>2 DEF Frames
  <2>4. f.sig = Top(p).sig /\ f.at = to /\ f.busy = FALSE
    OBVIOUS
  <2> HIDE DEF f, to
  <2>6. QED
    BY <1>1, <1>2, <1>5, <2>1, <2>2, <2>3, <2>4, TopFrame, ZenonT(60) DEF TopReplaced
<1>6. CASE NoneLeft(p)
  <2> DEFINE to == IF Children(p) = {} /\ ~Top(p).one THEN "failed" ELSE "return"
  <2> DEFINE f == [sig |-> Top(p).sig, at |-> to, busy |-> FALSE, one |-> Top(p).one]
  <2>1. stack' = [stack EXCEPT ![p][Len(stack[p])] = f]
    BY <1>6 DEF NoneLeft, Becomes
  <2>2. f \in Frames
    BY <1>2 DEF Frames
  <2>4. f.sig = Top(p).sig /\ f.at = to /\ f.busy = FALSE
    OBVIOUS
  <2> HIDE DEF f, to
  <2>6. QED
    BY <1>1, <1>2, <1>6, <2>1, <2>2, <2>4, TopFrame, ZenonT(60) DEF TopReplaced
<1>7. QED
  BY <1>3, <1>4, <1>5, <1>6

(* Deliver puts a frame on them ...                                        *)
LEMMA DeliverFrame ==
  ASSUME TypeOK, NEW p \in Pids, NEW s \in Signals, Deliver(p, s)
  PROVE  Pushed(p, s)
<1> DEFINE f == [sig |-> s, at |-> "log", busy |-> FALSE, one |-> FALSE]
<1>1. f \in Frames
  BY DEF Frames
<1>2. stack' = [stack EXCEPT ![p] = Append(@, f)]
  BY DEF Deliver
<1>3. f.sig = s /\ f.at = "log" /\ ~f.busy
  OBVIOUS
<1> HIDE DEF f
<1>4. stack[p] \in Seq(Frames) /\ stack \in [Pids -> Seq(Frames)]
  BY DEF TypeOK
<1>5. stack'[p] = Append(stack[p], f)
  BY <1>2, <1>4
<1>6. QED
  BY <1>1, <1>2, <1>3, <1>4, <1>5 DEF Pushed

(* ... and Return takes one off.                                           *)
LEMMA ReturnFrame ==
  ASSUME TypeOK, NEW p \in Pids, Return(p)
  PROVE  Popped(p)
<1>1. stack[p] \in Seq(Frames) /\ stack \in [Pids -> Seq(Frames)] /\ stack[p] # <<>>
  BY DEF TypeOK, Return
<1>2. Len(stack[p]) \in Nat \ {0} /\ stack'[p] = SubSeq(stack[p], 1, Len(stack[p]) - 1)
  BY <1>1 DEF Return
<1>3. \A i \in 1..Len(stack[p]) - 1 : stack[p][i] \in Frames
  BY <1>1
<1>4. /\ SubSeq(stack[p], 1, Len(stack[p]) - 1) \in Seq(Frames)
      /\ Len(SubSeq(stack[p], 1, Len(stack[p]) - 1)) = Len(stack[p]) - 1
      /\ \A i \in 1..Len(stack[p]) - 1 :
           SubSeq(stack[p], 1, Len(stack[p]) - 1)[i] = stack[p][i]
  BY <1>2, <1>3, SubSeqProperties
<1>5. QED
  BY <1>1, <1>2, <1>4 DEF Return, Popped

FrameFacts == \A p \in Pids :
  /\ LogLock(p) \/ LogUnlock(p) \/ Collect(p) \/ NoneLeft(p) => TopReplaced(p)
  /\ \A s \in Signals : Deliver(p, s) => Pushed(p, s)
  /\ Return(p) => Popped(p)

(* All of this together.                                                   *)
LEMMA FrameSteps == TypeOK /\ StackInv => FrameFacts
BY HandlerFrame, DeliverFrame, ReturnFrame DEF FrameFacts

(* p will call waitpid(), if only when the signal is delivered.            *)
Heeds(p) == \E i \in 1..Len(stack[p]) : stack[p][i].sig = CHLD /\ stack[p][i].at \in Heeding

(* Watching, said with frames counted from 1.                              *)
LEMMA Watches == ASSUME TypeOK, NEW p \in Pids
                 PROVE  Watching(p) <=> CHLD \in pending[p] \/ Heeds(p)
<1>1. stack[p] \in Seq(Frames)
  BY DEF TypeOK
<1>2. DOMAIN stack[p] = 1..Len(stack[p])
  BY <1>1
<1>3. QED
  BY <1>2 DEF Watching, Heeds, Heeding

(* A frame that will call waitpid() stays until its handler has done so.   *)
LEMMA HeedsKept ==
  ASSUME TypeOK, NEW p \in Pids, NEW q \in Pids, Heeds(q),
         \/ TopReplaced(p) /\ ~NoneLeft(p)
         \/ Popped(p) /\ Top(p).at = "return"
         \/ \E s \in Signals : Pushed(p, s)
  PROVE  Heeds(q)'
<1>1. PICK i \in 1..Len(stack[q]) : stack[q][i].sig = CHLD /\ stack[q][i].at \in Heeding
  BY DEF Heeds
<1>2. CASE q # p
  <2>1. stack'[q] = stack[q]
    BY <1>2 DEF TopReplaced, Popped, Pushed
  <2>2. QED
    BY <1>1, <2>1 DEF Heeds
<1>3. CASE q = p /\ TopReplaced(p) /\ ~NoneLeft(p)
  <2>1. CASE i = Len(stack[p])
    BY <1>1, <1>3, <2>1 DEF TopReplaced, Heeds, Top
  <2>2. CASE i # Len(stack[p])
    <3>1. i \in 1..Len(stack[p]) - 1 /\ i \in 1..Len(stack'[p])
      BY <1>3, <2>2 DEF TopReplaced
    <3>2. QED
      BY <1>1, <1>3, <3>1 DEF TopReplaced, Heeds
  <2>3. QED
    BY <2>1, <2>2
<1>4. CASE q = p /\ Popped(p) /\ Top(p).at = "return"
  <2>1. i # Len(stack[p])
    BY <1>1, <1>4 DEF Top, Heeding
  <2>2. i \in 1..Len(stack[p]) - 1 /\ i \in 1..Len(stack'[p])
    BY <1>4, <2>1 DEF Popped
  <2>3. QED
    BY <1>1, <1>4, <2>2 DEF Popped, Heeds
<1>5. CASE q = p /\ \E s \in Signals : Pushed(p, s)
  <2>1. i \in 1..Len(stack'[p]) /\ stack'[p][i] = stack[p][i]
    BY <1>5 DEF Pushed
  <2>2. QED
    BY <1>1, <1>5, <2>1 DEF Heeds
<1>6. QED
  BY <1>2, <1>3, <1>4, <1>5

(* A handler is in localtime_r() only where it logs.                       *)
LEMMA LogsWhereItLogs ==
  ASSUME TypeOK, StackInv, NEW p \in Pids,
         TopReplaced(p) \/ Popped(p) \/ \E s \in Signals : Pushed(p, s)
  PROVE  \A q \in Pids : \A i \in 1..Len(stack'[q]) :
           stack'[q][i].busy => stack'[q][i].at \in Logging
<1> SUFFICES ASSUME NEW q \in Pids, NEW i \in 1..Len(stack'[q]), stack'[q][i].busy
             PROVE  stack'[q][i].at \in Logging
  OBVIOUS
<1>1. CASE q # p
  <2>1. stack'[q] = stack[q]
    BY <1>1 DEF TopReplaced, Popped, Pushed
  <2>2. QED
    BY <2>1 DEF StackInv
<1>2. CASE q = p /\ i \in 1..Len(stack[p]) /\ stack'[p][i] = stack[p][i]
  BY <1>2 DEF StackInv
<1>3. CASE q = p /\ TopReplaced(p)
  <2>1. i = Len(stack[p]) \/ i \in 1..Len(stack[p]) - 1
    BY <1>3 DEF TopReplaced
  <2>2. QED
    BY <1>2, <1>3, <2>1 DEF TopReplaced
<1>4. CASE q = p /\ Popped(p)
  BY <1>2, <1>4 DEF Popped
<1>5. CASE q = p /\ \E s \in Signals : Pushed(p, s)
  <2>1. i = Len(stack[p]) + 1 \/ i \in 1..Len(stack[p])
    BY <1>5 DEF Pushed
  <2>2. QED
    BY <1>2, <1>5, <2>1 DEF Pushed
<1>6. QED
  BY <1>1, <1>3, <1>4, <1>5

(* fork() keeps to the types,                                              *)
LEMMA ForkTypes ==
  ASSUME TypeOK, NEW p \in Pids, NEW q \in Pids,
         NEW to \in MainPlaces \cup MasterPlaces, NEW l \in MainPlaces \cup WorkerPlaces,
         Fork(p, to, q, l)
  PROVE  /\ pc' \in [Pids -> MainPlaces \cup MasterPlaces \cup WorkerPlaces
                             \cup {"none", "zombie", "gone"}]
         /\ parent' \in [Pids -> Pids \cup {Outside}]
         /\ role' \in [Pids -> {"MASTER", "WORKER"}] /\ blocked' \in [Pids -> BOOLEAN]
<1>1. pc' = [pc EXCEPT ![p] = to, ![q] = l]
  BY DEF Fork
<1>2. pc' \in [Pids -> MainPlaces \cup MasterPlaces \cup WorkerPlaces
                       \cup {"none", "zombie", "gone"}]
  BY <1>1 DEF TypeOK
<1>3. QED
  BY <1>2 DEF Fork, TypeOK

(* and so does the end of a process.                                       *)
LEMMA ExitTypes ==
  ASSUME TypeOK, NEW p \in Pids, Exit(p)
  PROVE  /\ pc' \in [Pids -> MainPlaces \cup MasterPlaces \cup WorkerPlaces
                             \cup {"none", "zombie", "gone"}]
         /\ parent' \in [Pids -> Pids \cup {Outside}]
         /\ pending' \in [Pids -> SUBSET Signals] /\ stack' \in [Pids -> Seq(Frames)]
<1>1. pc' \in [Pids -> MainPlaces \cup MasterPlaces \cup WorkerPlaces
                       \cup {"none", "zombie", "gone"}]
  BY DEF Exit, TypeOK
<1>2. parent' \in [Pids -> Pids \cup {Outside}]
  BY DEF Exit, TypeOK
<1>3. pending' \in [Pids -> SUBSET Signals]
  <2>1. CHLD \in Signals
    BY DEF CHLD, Signals
  <2>2. QED
    BY <2>1 DEF Exit, TypeOK
<1>4. stack' \in [Pids -> Seq(Frames)]
  BY DEF Exit, TypeOK
<1>5. QED
  BY <1>1, <1>2, <1>3, <1>4

(* The initial state satisfies the invariant.                              *)
LEMMA InitInv == Init => Inv
<1> SUFFICES ASSUME Init PROVE Inv
  OBVIOUS
<1> USE MasterAssumption DEF MasterAssumption, Init, CHLD
<1>1. TypeOK
  BY DEF TypeOK, MainPlaces
<1>2. StackInv /\ LoadInv /\ ZombieInv
  BY DEF StackInv, LoadInv, ZombieInv
<1>3. RoleInv
  BY DEF RoleInv, Single, MainPlaces, MasterPlaces, WorkerPlaces
<1>4. QED
  BY <1>1, <1>2, <1>3 DEF Inv

(* Types: no more workers are started than the program has read.           *)
LEMMA TypeStep == Inv /\ [Next]_vars => TypeOK'
<1> SUFFICES ASSUME Inv, [Next]_vars PROVE TypeOK'
  OBVIOUS
<1>0. FrameFacts
  BY FrameSteps DEF Inv
<1> USE MasterAssumption DEF MasterAssumption
<1>a. WorkProcess \in Nat /\ (items' = items => WorkProcess' = WorkProcess)
  BY Number DEF WorkProcess
<1>b. TypeOK /\ LoadInv
  BY DEF Inv
<1>1. ASSUME NEW p \in Pids, NEW s \in Signals, Deliver(p, s) PROVE TypeOK'
  <2>1. Pushed(p, s)
    BY <1>1, <1>0 DEF FrameFacts
  <2>2. QED
    BY <1>1, <2>1, <1>a, <1>b DEF Deliver, Open, TypeOK, MainPlaces, MasterPlaces,
       WorkerPlaces, Pushed
<1>2. ASSUME NEW p \in Pids, NEW s \in Signals, Send(p, s) PROVE TypeOK'
  BY <1>2, <1>a, <1>b DEF Send, TypeOK, MainPlaces, MasterPlaces,
     WorkerPlaces
<1>3. ASSUME NEW p \in Pids, LogLock(p) PROVE TypeOK'
  <2>1. TopReplaced(p)
    BY <1>3, <1>0 DEF FrameFacts
  <2>2. QED
    BY <1>3, <2>1, <1>a, <1>b DEF LogLock, TypeOK, MainPlaces, MasterPlaces, WorkerPlaces,
       TopReplaced
<1>4. ASSUME NEW p \in Pids, LogUnlock(p) PROVE TypeOK'
  <2>1. TopReplaced(p)
    BY <1>4, <1>0 DEF FrameFacts
  <2>2. QED
    BY <1>4, <2>1, <1>a, <1>b DEF LogUnlock, TypeOK, MainPlaces, MasterPlaces,
       WorkerPlaces, TopReplaced
<1>5. ASSUME NEW p \in Pids, Collect(p) PROVE TypeOK'
  <2>1. TopReplaced(p)
    BY <1>5, <1>0 DEF FrameFacts
  <2>2. PICK q \in Pids : pc[q] = "zombie" /\ pc' = [pc EXCEPT ![q] = "gone"]
    BY <1>5 DEF Collect, CollectWith, Children, Goto
  <2>3. QED
    BY <1>5, <1>a, <1>b, <2>1, <2>2 DEF TypeOK, Collect, CollectWith, TopReplaced
<1>6. ASSUME NEW p \in Pids, NoneLeft(p) PROVE TypeOK'
  <2>1. TopReplaced(p)
    BY <1>6, <1>0 DEF FrameFacts
  <2>2. QED
    BY <1>6, <2>1, <1>a, <1>b DEF NoneLeft, TypeOK, MainPlaces, MasterPlaces,
       WorkerPlaces, TopReplaced
<1>7. ASSUME NEW p \in Pids, Return(p) PROVE TypeOK'
  <2>1. Popped(p)
    BY <1>7, <1>0 DEF FrameFacts
  <2>2. QED
    BY <1>7, <2>1, <1>a, <1>b DEF Return, TypeOK, MainPlaces, MasterPlaces, WorkerPlaces,
       Popped
<1>8. ASSUME NEW p \in Pids, LoadConfig(p) PROVE TypeOK'
  <2>1. inum = 0 /\ pc' = [pc EXCEPT ![p] = "signals"] /\ "signals" \in MainPlaces
    BY <1>8, <1>b DEF LoadConfig, LoadInv, Step, At, Goto, MainPlaces
  <2>2. UNCHANGED <<conf, parent, role, blocked, pending, stack, inum, sent>>
    BY <1>8 DEF LoadConfig
  <2>3. QED
    BY <1>b, <2>1, <2>2 DEF TypeOK
<1>9. ASSUME NEW p \in Pids, InitSignals(p) PROVE TypeOK'
  BY <1>9, <1>a, <1>b DEF InitSignals, Step, At, Goto, TypeOK, MainPlaces,
     MasterPlaces, WorkerPlaces
<1>10. ASSUME NEW p \in Pids, Listen(p) PROVE TypeOK'
  BY <1>10, <1>a, <1>b DEF Listen, Step, At, Goto, TypeOK, MainPlaces,
     MasterPlaces, WorkerPlaces
<1>11. ASSUME NEW p \in Pids, Daemonize(p) PROVE TypeOK'
  <2>1. CASE \E q \in Pids : Fork(p, "leave", q, "session")
    <3>1. PICK q \in Pids : Fork(p, "leave", q, "session")
      BY <2>1
    <3>2. "leave" \in MainPlaces \cup MasterPlaces /\ "session" \in MainPlaces \cup WorkerPlaces
      BY DEF MainPlaces, MasterPlaces, WorkerPlaces
    <3>3. /\ pc' \in [Pids -> MainPlaces \cup MasterPlaces \cup WorkerPlaces
                              \cup {"none", "zombie", "gone"}]
          /\ parent' \in [Pids -> Pids \cup {Outside}]
          /\ role' \in [Pids -> {"MASTER", "WORKER"}] /\ blocked' \in [Pids -> BOOLEAN]
      BY <1>b, <3>1, <3>2, ForkTypes
    <3>4. inum' \in Nat /\ (inum' > 0 => inum' <= WorkProcess')
      BY <1>11, <1>a, <1>b DEF TypeOK, Daemonize
    <3>5. UNCHANGED <<conf, pending, stack, sent>>
      BY <1>11 DEF Daemonize
    <3>6. QED
      BY <1>b, <3>3, <3>4, <3>5 DEF TypeOK
  <2>2. QED
    BY <1>11, <2>1 DEF Daemonize
<1>12. ASSUME NEW p \in Pids, Session(p) PROVE TypeOK'
  BY <1>12, <1>a, <1>b DEF Session, Step, At, Goto, TypeOK, MainPlaces,
     MasterPlaces, WorkerPlaces
<1>13. ASSUME NEW p \in Pids, LeaveMain(p) PROVE TypeOK'
  <2>1. Exit(p)
    BY <1>13 DEF LeaveMain
  <2>2. QED
    BY <1>a, <1>b, <2>1, ExitTypes DEF Exit, TypeOK
<1>14. ASSUME NEW p \in Pids, Mask(p) PROVE TypeOK'
  BY <1>14, <1>a, <1>b DEF Mask, Step, At, Goto, TypeOK, MainPlaces,
     MasterPlaces, WorkerPlaces
<1>15. ASSUME NEW p \in Pids, Spawn(p) PROVE TypeOK'
  <2>1. CASE \E q \in Pids : Fork(p, "spawn", q, "forked")
    <3>1. PICK q \in Pids : Fork(p, "spawn", q, "forked")
      BY <2>1
    <3>2. "spawn" \in MainPlaces \cup MasterPlaces /\ "forked" \in MainPlaces \cup WorkerPlaces
      BY DEF MainPlaces, MasterPlaces, WorkerPlaces
    <3>3. /\ pc' \in [Pids -> MainPlaces \cup MasterPlaces \cup WorkerPlaces
                              \cup {"none", "zombie", "gone"}]
          /\ parent' \in [Pids -> Pids \cup {Outside}]
          /\ role' \in [Pids -> {"MASTER", "WORKER"}] /\ blocked' \in [Pids -> BOOLEAN]
      BY <1>b, <3>1, <3>2, ForkTypes
    <3>4. inum' \in Nat /\ (inum' > 0 => inum' <= WorkProcess')
      BY <1>15, <1>a, <1>b DEF TypeOK, Spawn, SpawnUpTo
    <3>5. UNCHANGED <<conf, pending, stack, sent>>
      BY <1>15 DEF Spawn, SpawnUpTo
    <3>6. QED
      BY <1>b, <3>3, <3>4, <3>5 DEF TypeOK
  <2>2. CASE UNCHANGED <<pc, parent, role, blocked>>
    <3>1. inum' \in Nat /\ (inum' > 0 => inum' <= WorkProcess')
      BY <1>15, <1>a, <1>b DEF TypeOK, Spawn, SpawnUpTo
    <3>2. UNCHANGED <<conf, pc, parent, role, blocked, pending, stack, sent>>
      BY <1>15, <2>2 DEF Spawn, SpawnUpTo
    <3>3. QED
      BY <1>b, <3>1, <3>2 DEF TypeOK
  <2>3. QED
    BY <1>15, <2>1, <2>2 DEF Spawn, SpawnUpTo
<1>16. ASSUME NEW p \in Pids, Suspend(p) PROVE TypeOK'
  BY <1>16, <1>a, <1>b DEF Suspend, Step, At, Goto, TypeOK, MainPlaces,
     MasterPlaces, WorkerPlaces
<1>17. ASSUME NEW p \in Pids, BecomeWorker(p) PROVE TypeOK'
  BY <1>17, <1>a, <1>b DEF BecomeWorker, Step, At, Goto, TypeOK, MainPlaces,
     MasterPlaces, WorkerPlaces
<1>18. ASSUME NEW p \in Pids, Unmask(p) PROVE TypeOK'
  BY <1>18, <1>a, <1>b DEF Unmask, Step, At, Goto, TypeOK, MainPlaces,
     MasterPlaces, WorkerPlaces
<1>19. ASSUME NEW p \in Pids, WorkerStep(p) PROVE TypeOK'
  BY <1>19, <1>a, <1>b DEF WorkerStep, Step, At, Goto, TypeOK, MainPlaces,
     MasterPlaces, WorkerPlaces
<1>20. ASSUME NEW p \in Pids, InitFails(p) PROVE TypeOK'
  <2>1. Exit(p)
    BY <1>20 DEF InitFails
  <2>2. QED
    BY <1>a, <1>b, <2>1, ExitTypes DEF Exit, TypeOK
<1>21. ASSUME NEW p \in Pids, Killed(p) PROVE TypeOK'
  <2>1. Exit(p)
    BY <1>21 DEF Killed
  <2>2. QED
    BY <1>a, <1>b, <2>1, ExitTypes DEF Exit, TypeOK
<1>22. CASE UNCHANGED vars
  BY <1>22, <1>a, <1>b DEF vars, TypeOK, MainPlaces, MasterPlaces,
     WorkerPlaces
<1>23. QED
  BY <1>1, <1>2, <1>3, <1>4, <1>5, <1>6, <1>7, <1>8, <1>9, <1>10, <1>11,
     <1>12, <1>13, <1>14, <1>15, <1>16, <1>17, <1>18, <1>19, <1>20, <1>21,
     <1>22 DEF Next, HandlerStep, MainStep

(* Who ends has no handlers left.                                          *)
LEMMA StackStep == Inv /\ [Next]_vars => StackInv'
<1> SUFFICES ASSUME Inv, [Next]_vars PROVE StackInv'
  OBVIOUS
<1>0. FrameFacts
  BY FrameSteps DEF Inv
<1> USE MasterAssumption DEF MasterAssumption, Inv, CHLD, TypeOK, StackInv,
         Alive
<1>b. TypeOK /\ StackInv
  BY DEF Inv
<1>1. ASSUME NEW p \in Pids, NEW s \in Signals, Deliver(p, s) PROVE StackInv'
  <2>1. Pushed(p, s)
    BY <1>1, <1>0 DEF FrameFacts
  <2>2. \A q \in Pids : \A i \in 1..Len(stack'[q]) :
          stack'[q][i].busy => stack'[q][i].at \in Logging
    BY <2>1, <1>b, LogsWhereItLogs
  <2>3. pc' = pc
    BY <1>1 DEF Deliver
  <2>4. pc[p] \notin {"none", "zombie", "gone"}
    BY <1>1 DEF Deliver, Open
  <2>5. \A q \in Pids : stack'[q] # <<>> => Alive(q)'
    BY <2>1, <2>3, <2>4 DEF Pushed
  <2>6. QED
    BY <2>2, <2>5
<1>2. ASSUME NEW p \in Pids, NEW s \in Signals, Send(p, s) PROVE StackInv'
  BY <1>2 DEF Send
<1>3. ASSUME NEW p \in Pids, LogLock(p) PROVE StackInv'
  <2>1. TopReplaced(p)
    BY <1>3, <1>0 DEF FrameFacts
  <2>2. \A q \in Pids : \A i \in 1..Len(stack'[q]) :
          stack'[q][i].busy => stack'[q][i].at \in Logging
    BY <2>1, <1>b, LogsWhereItLogs
  <2>3. \A q \in Pids : stack'[q] # <<>> => Alive(q)'
    BY <1>3, <2>1 DEF LogLock, TopReplaced
  <2>4. QED
    BY <2>2, <2>3
<1>4. ASSUME NEW p \in Pids, LogUnlock(p) PROVE StackInv'
  <2>1. TopReplaced(p)
    BY <1>4, <1>0 DEF FrameFacts
  <2>2. \A q \in Pids : \A i \in 1..Len(stack'[q]) :
          stack'[q][i].busy => stack'[q][i].at \in Logging
    BY <2>1, <1>b, LogsWhereItLogs
  <2>3. \A q \in Pids : stack'[q] # <<>> => Alive(q)'
    BY <1>4, <2>1 DEF LogUnlock, TopReplaced
  <2>4. QED
    BY <2>2, <2>3
<1>5. ASSUME NEW p \in Pids, Collect(p) PROVE StackInv'
  <2>1. TopReplaced(p)
    BY <1>5, <1>0 DEF FrameFacts
  <2>2. \A q \in Pids : \A i \in 1..Len(stack'[q]) :
          stack'[q][i].busy => stack'[q][i].at \in Logging
    BY <2>1, <1>b, LogsWhereItLogs
  <2>3. PICK z \in Pids : pc[z] = "zombie" /\ pc' = [pc EXCEPT ![z] = "gone"]
    BY <1>5 DEF Collect, CollectWith, Children, Goto
  <2>4. \A q \in Pids : stack'[q] # <<>> => Alive(q)'
    BY <1>5, <2>1, <2>3 DEF Collect, CollectWith, TopReplaced
  <2>5. QED
    BY <2>2, <2>4
<1>6. ASSUME NEW p \in Pids, NoneLeft(p) PROVE StackInv'
  <2>1. TopReplaced(p)
    BY <1>6, <1>0 DEF FrameFacts
  <2>2. \A q \in Pids : \A i \in 1..Len(stack'[q]) :
          stack'[q][i].busy => stack'[q][i].at \in Logging
    BY <2>1, <1>b, LogsWhereItLogs
  <2>3. \A q \in Pids : stack'[q] # <<>> => Alive(q)'
    BY <1>6, <2>1 DEF NoneLeft, TopReplaced
  <2>4. QED
    BY <2>2, <2>3
<1>7. ASSUME NEW p \in Pids, Return(p) PROVE StackInv'
  <2>1. Popped(p)
    BY <1>7, <1>0 DEF FrameFacts
  <2>2. \A q \in Pids : \A i \in 1..Len(stack'[q]) :
          stack'[q][i].busy => stack'[q][i].at \in Logging
    BY <2>1, <1>b, LogsWhereItLogs
  <2>3. \A q \in Pids : stack'[q] # <<>> => Alive(q)'
    BY <1>7, <2>1 DEF Return, Popped
  <2>4. QED
    BY <2>2, <2>3
<1>8. ASSUME NEW p \in Pids, LoadConfig(p) PROVE StackInv'
  BY <1>8 DEF LoadConfig, Step, At, Goto
<1>9. ASSUME NEW p \in Pids, InitSignals(p) PROVE StackInv'
  BY <1>9 DEF InitSignals, Step, At, Goto
<1>10. ASSUME NEW p \in Pids, Listen(p) PROVE StackInv'
  BY <1>10 DEF Listen, Step, At, Goto
<1>11. ASSUME NEW p \in Pids, Daemonize(p) PROVE StackInv'
  BY <1>11 DEF Daemonize, Fork, At
<1>12. ASSUME NEW p \in Pids, Session(p) PROVE StackInv'
  BY <1>12 DEF Session, Step, At, Goto
<1>13. ASSUME NEW p \in Pids, LeaveMain(p) PROVE StackInv'
  BY <1>13 DEF LeaveMain, Fails, Exit, At
<1>14. ASSUME NEW p \in Pids, Mask(p) PROVE StackInv'
  BY <1>14 DEF Mask, Step, At, Goto
<1>15. ASSUME NEW p \in Pids, Spawn(p) PROVE StackInv'
  <2>1. CASE \E q \in Pids : Fork(p, "spawn", q, "forked")
    <3>1. PICK q \in Pids : Fork(p, "spawn", q, "forked")
      BY <2>1
    <3>2. QED
      BY <1>15, <3>1 DEF Spawn, SpawnUpTo, At, Fork
  <2>2. CASE UNCHANGED <<pc, parent, role, blocked>>
    BY <1>15, <2>2 DEF Spawn, SpawnUpTo, At
  <2>3. QED
    BY <1>15, <2>1, <2>2 DEF Spawn, SpawnUpTo
<1>16. ASSUME NEW p \in Pids, Suspend(p) PROVE StackInv'
  BY <1>16 DEF Suspend, Step, At, Goto
<1>17. ASSUME NEW p \in Pids, BecomeWorker(p) PROVE StackInv'
  BY <1>17 DEF BecomeWorker, Step, At, Goto
<1>18. ASSUME NEW p \in Pids, Unmask(p) PROVE StackInv'
  BY <1>18 DEF Unmask, Step, At, Goto
<1>19. ASSUME NEW p \in Pids, WorkerStep(p) PROVE StackInv'
  BY <1>19 DEF WorkerStep, Step, At, Goto
<1>20. ASSUME NEW p \in Pids, InitFails(p) PROVE StackInv'
  BY <1>20 DEF InitFails, Exit, At
<1>21. ASSUME NEW p \in Pids, Killed(p) PROVE StackInv'
  BY <1>21 DEF Killed, Exit
<1>22. CASE UNCHANGED vars
  BY <1>22 DEF vars
<1>23. QED
  BY <1>1, <1>2, <1>3, <1>4, <1>5, <1>6, <1>7, <1>8, <1>9, <1>10, <1>11,
     <1>12, <1>13, <1>14, <1>15, <1>16, <1>17, <1>18, <1>19, <1>20, <1>21,
     <1>22 DEF Next, HandlerStep, MainStep

(* The launcher is alone until it has read the file.                       *)
LEMMA LoadStep == Inv /\ [Next]_vars => LoadInv'
<1> SUFFICES ASSUME Inv, [Next]_vars PROVE LoadInv'
  OBVIOUS
<1> USE MasterAssumption DEF MasterAssumption, Inv, CHLD, TypeOK, StackInv,
         LoadInv, Alive, MainPlaces, MasterPlaces, WorkerPlaces
<1>1. ASSUME NEW p \in Pids, NEW s \in Signals, Deliver(p, s) PROVE LoadInv'
  BY <1>1 DEF Deliver, Open
<1>2. ASSUME NEW p \in Pids, NEW s \in Signals, Send(p, s) PROVE LoadInv'
  BY <1>2 DEF Send
<1>3. ASSUME NEW p \in Pids, LogLock(p) PROVE LoadInv'
  BY <1>3 DEF LogLock
<1>4. ASSUME NEW p \in Pids, LogUnlock(p) PROVE LoadInv'
  BY <1>4 DEF LogUnlock
<1>5. ASSUME NEW p \in Pids, Collect(p) PROVE LoadInv'
  <2>2. PICK q \in Pids : pc[q] = "zombie" /\ pc' = [pc EXCEPT ![q] = "gone"]
    BY <1>5 DEF Collect, CollectWith, Children, Goto
  <2>3. QED
    BY <1>5, <2>2 DEF Collect, CollectWith
<1>6. ASSUME NEW p \in Pids, NoneLeft(p) PROVE LoadInv'
  BY <1>6 DEF NoneLeft
<1>7. ASSUME NEW p \in Pids, Return(p) PROVE LoadInv'
  BY <1>7 DEF Return
<1>8. ASSUME NEW p \in Pids, LoadConfig(p) PROVE LoadInv'
  BY <1>8 DEF LoadConfig, Step, At, Goto
<1>9. ASSUME NEW p \in Pids, InitSignals(p) PROVE LoadInv'
  BY <1>9 DEF InitSignals, Step, At, Goto
<1>10. ASSUME NEW p \in Pids, Listen(p) PROVE LoadInv'
  BY <1>10 DEF Listen, Step, At, Goto
<1>11. ASSUME NEW p \in Pids, Daemonize(p) PROVE LoadInv'
  <2>1. PICK q \in Pids : At(p, "daemon") /\ Fork(p, "leave", q, "session")
    BY <1>11 DEF Daemonize
  <2>2. pc[p] = "daemon" /\ pc' = [pc EXCEPT ![p] = "leave", ![q] = "session"]
    BY <2>1 DEF Fork, At
  <2>3. \A x \in Pids : pc'[x] = "load" => x # p /\ pc[x] = "load"
    BY <2>2
  <2>4. \A x \in Pids : pc[x] # "load"
    BY <2>2
  <2>5. QED
    BY <2>3, <2>4
<1>12. ASSUME NEW p \in Pids, Session(p) PROVE LoadInv'
  BY <1>12 DEF Session, Step, At, Goto
<1>13. ASSUME NEW p \in Pids, LeaveMain(p) PROVE LoadInv'
  BY <1>13 DEF LeaveMain, Fails, Exit, At
<1>14. ASSUME NEW p \in Pids, Mask(p) PROVE LoadInv'
  BY <1>14 DEF Mask, Step, At, Goto
<1>15. ASSUME NEW p \in Pids, Spawn(p) PROVE LoadInv'
  <2>1. CASE \E q \in Pids : Fork(p, "spawn", q, "forked")
    <3>1. PICK q \in Pids : Fork(p, "spawn", q, "forked")
      BY <2>1
    <3>2. QED
      BY <1>15, <3>1 DEF Spawn, SpawnUpTo, At, Fork
  <2>2. CASE UNCHANGED <<pc, parent, role, blocked>>
    BY <1>15, <2>2 DEF Spawn, SpawnUpTo, At
  <2>3. QED
    BY <1>15, <2>1, <2>2 DEF Spawn, SpawnUpTo
<1>16. ASSUME NEW p \in Pids, Suspend(p) PROVE LoadInv'
  <2>1. pc[p] \in MasterPlaces /\ Goto(p, "suspend")
    BY <1>16 DEF Suspend, Step, At
  <2>2. QED
    BY <1>16, <2>1 DEF Suspend, Goto
<1>17. ASSUME NEW p \in Pids, BecomeWorker(p) PROVE LoadInv'
  BY <1>17 DEF BecomeWorker, Step, At, Goto
<1>18. ASSUME NEW p \in Pids, Unmask(p) PROVE LoadInv'
  BY <1>18 DEF Unmask, Step, At, Goto
<1>19. ASSUME NEW p \in Pids, WorkerStep(p) PROVE LoadInv'
  <2>1. PICK l \in WorkerPlaces : pc[p] \in WorkerPlaces /\ Goto(p, l)
    BY <1>19 DEF WorkerStep, Step, At
  <2>2. QED
    BY <1>19, <2>1 DEF WorkerStep, Goto
<1>20. ASSUME NEW p \in Pids, InitFails(p) PROVE LoadInv'
  BY <1>20 DEF InitFails, Exit, At
<1>21. ASSUME NEW p \in Pids, Killed(p) PROVE LoadInv'
  BY <1>21 DEF Killed, Exit
<1>22. CASE UNCHANGED vars
  BY <1>22 DEF vars
<1>23. QED
  BY <1>1, <1>2, <1>3, <1>4, <1>5, <1>6, <1>7, <1>8, <1>9, <1>10, <1>11,
     <1>12, <1>13, <1>14, <1>15, <1>16, <1>17, <1>18, <1>19, <1>20, <1>21,
     <1>22 DEF Next, HandlerStep, MainStep

(* No SIGCHLD is lost.                                                     *)
LEMMA ZombieStep == Inv /\ [Next]_vars => ZombieInv'
<1> SUFFICES ASSUME Inv, [Next]_vars PROVE ZombieInv'
  OBVIOUS
<1>0. FrameFacts
  BY FrameSteps DEF Inv
<1> USE MasterAssumption DEF MasterAssumption, Inv, CHLD, TypeOK, StackInv,
         ZombieInv, Alive
<1>b. TypeOK /\ StackInv /\ TypeOK'
  BY TypeStep DEF Inv
<1>c. /\ \A q \in Pids : Watching(q) <=> CHLD \in pending[q] \/ Heeds(q)
      /\ \A q \in Pids : Watching(q)' <=> CHLD \in pending'[q] \/ Heeds(q)'
      /\ \A q \in Pids : stack'[q] = stack[q] => (Heeds(q)' <=> Heeds(q))
  <2>1. \A q \in Pids : stack'[q] \in Seq(Frames)
    BY <1>b DEF TypeOK
  <2>2. \A q \in Pids : DOMAIN (stack'[q]) = 1..Len(stack'[q])
    BY <2>1
  <2>3. \A q \in Pids : Watching(q)' <=> CHLD \in pending'[q] \/ Heeds(q)'
    BY <2>2 DEF Watching, Heeds, Heeding
  <2>4. QED
    BY <1>b, <2>3, Watches DEF Heeds
<1>d. \A q \in Pids : stack[q] # <<>> /\ Top(q).busy => Top(q).at \in Logging
  <2>1. \A q \in Pids : stack[q] # <<>> => Len(stack[q]) \in 1..Len(stack[q])
    BY <1>b DEF TypeOK
  <2>2. QED
    BY <1>b, <2>1 DEF StackInv, Top
<1>1. ASSUME NEW p \in Pids, NEW s \in Signals, Deliver(p, s) PROVE ZombieInv'
  <2>1. Pushed(p, s)
    BY <1>1, <1>0 DEF FrameFacts
  <2>2. \A q \in Pids : Heeds(q) => Heeds(q)'
    BY <1>b, <2>1, HeedsKept
  <2>3. s = CHLD => Heeds(p)'
    <3>1. Len(stack[p]) + 1 \in 1..Len(stack'[p])
      BY <2>1 DEF Pushed
    <3>2. QED
      BY <2>1, <3>1 DEF Pushed, Heeds, Heeding
  <2>4. QED
    BY <1>1, <1>c, <2>2, <2>3 DEF Deliver
<1>2. ASSUME NEW p \in Pids, NEW s \in Signals, Send(p, s) PROVE ZombieInv'
  BY <1>2, <1>c DEF Send
<1>3. ASSUME NEW p \in Pids, LogLock(p) PROVE ZombieInv'
  <2>1. TopReplaced(p) /\ ~NoneLeft(p)
    BY <1>3, <1>0 DEF FrameFacts, LogLock, NoneLeft
  <2>2. \A q \in Pids : Heeds(q) => Heeds(q)'
    BY <1>b, <2>1, HeedsKept
  <2>3. QED
    BY <1>3, <1>c, <2>2 DEF LogLock
<1>4. ASSUME NEW p \in Pids, LogUnlock(p) PROVE ZombieInv'
  <2>1. TopReplaced(p) /\ ~NoneLeft(p)
    BY <1>4, <1>0, <1>d DEF FrameFacts, LogUnlock, NoneLeft, Logging, Top
  <2>2. \A q \in Pids : Heeds(q) => Heeds(q)'
    BY <1>b, <2>1, HeedsKept
  <2>3. QED
    BY <1>4, <1>c, <2>2 DEF LogUnlock
<1>5. ASSUME NEW p \in Pids, Collect(p) PROVE ZombieInv'
  <2>1. TopReplaced(p)
    BY <1>5, <1>0 DEF FrameFacts
  <2>2. ~NoneLeft(p)
    BY <1>5 DEF Collect, CollectWith, NoneLeft, Children
  <2>3. \A q \in Pids : Heeds(q) => Heeds(q)'
    BY <1>b, <2>1, <2>2, HeedsKept
  <2>4. PICK q \in Pids : pc[q] = "zombie" /\ pc' = [pc EXCEPT ![q] = "gone"]
    BY <1>5 DEF Collect, CollectWith, Children, Goto
  <2>5. QED
    BY <1>5, <1>c, <2>3, <2>4 DEF Collect, CollectWith
<1>6. ASSUME NEW p \in Pids, NoneLeft(p) PROVE ZombieInv'
  <2>1. TopReplaced(p)
    BY <1>6, <1>0 DEF FrameFacts
  <2>2. \A q \in Pids : q # p /\ Heeds(q) => Heeds(q)'
    BY <2>1 DEF Heeds, TopReplaced
  <2>3. \A q \in Pids : pc[q] = "zombie" => parent[q] # p
    BY <1>6 DEF NoneLeft, Children
  <2>4. QED
    BY <1>6, <1>c, <2>2, <2>3 DEF NoneLeft
<1>7. ASSUME NEW p \in Pids, Return(p) PROVE ZombieInv'
  <2>1. Popped(p)
    BY <1>7, <1>0 DEF FrameFacts
  <2>2. Top(p).at = "return"
    BY <1>7 DEF Return
  <2>3. \A q \in Pids : Heeds(q) => Heeds(q)'
    BY <1>b, <2>1, <2>2, HeedsKept
  <2>4. QED
    BY <1>7, <1>c, <2>3 DEF Return
<1>8. ASSUME NEW p \in Pids, LoadConfig(p) PROVE ZombieInv'
  BY <1>8, <1>c DEF LoadConfig, Step, At, Goto
<1>9. ASSUME NEW p \in Pids, InitSignals(p) PROVE ZombieInv'
  BY <1>9, <1>c DEF InitSignals, Step, At, Goto
<1>10. ASSUME NEW p \in Pids, Listen(p) PROVE ZombieInv'
  BY <1>10, <1>c DEF Listen, Step, At, Goto
<1>11. ASSUME NEW p \in Pids, Daemonize(p) PROVE ZombieInv'
  BY <1>11, <1>c DEF Daemonize, Fork, At
<1>12. ASSUME NEW p \in Pids, Session(p) PROVE ZombieInv'
  BY <1>12, <1>c DEF Session, Step, At, Goto
<1>13. ASSUME NEW p \in Pids, LeaveMain(p) PROVE ZombieInv'
  BY <1>13, <1>c DEF LeaveMain, Fails, Exit, At
<1>14. ASSUME NEW p \in Pids, Mask(p) PROVE ZombieInv'
  BY <1>14, <1>c DEF Mask, Step, At, Goto
<1>15. ASSUME NEW p \in Pids, Spawn(p) PROVE ZombieInv'
  <2>1. CASE \E q \in Pids : Fork(p, "spawn", q, "forked")
    <3>1. PICK q \in Pids : Fork(p, "spawn", q, "forked")
      BY <2>1
    <3>2. QED
      BY <1>15, <1>c, <3>1, SMTT(40) DEF Spawn, SpawnUpTo, At, Fork
  <2>2. CASE UNCHANGED <<pc, parent, role, blocked>>
    BY <1>15, <1>c, <2>2 DEF Spawn, SpawnUpTo, At
  <2>3. QED
    BY <1>15, <1>c, <2>1, <2>2 DEF Spawn, SpawnUpTo
<1>16. ASSUME NEW p \in Pids, Suspend(p) PROVE ZombieInv'
  BY <1>16, <1>c DEF Suspend, Step, At, Goto
<1>17. ASSUME NEW p \in Pids, BecomeWorker(p) PROVE ZombieInv'
  BY <1>17, <1>c DEF BecomeWorker, Step, At, Goto
<1>18. ASSUME NEW p \in Pids, Unmask(p) PROVE ZombieInv'
  BY <1>18, <1>c DEF Unmask, Step, At, Goto
<1>19. ASSUME NEW p \in Pids, WorkerStep(p) PROVE ZombieInv'
  BY <1>19, <1>c DEF WorkerStep, Step, At, Goto
<1>20. ASSUME NEW p \in Pids, InitFails(p) PROVE ZombieInv'
  BY <1>20, <1>c DEF InitFails, Exit, At
<1>21. ASSUME NEW p \in Pids, Killed(p) PROVE ZombieInv'
  BY <1>21, <1>c DEF Killed, Exit
<1>22. CASE UNCHANGED vars
  BY <1>22, <1>c DEF vars
<1>23. QED
  BY <1>1, <1>2, <1>3, <1>4, <1>5, <1>6, <1>7, <1>8, <1>9, <1>10, <1>11,
     <1>12, <1>13, <1>14, <1>15, <1>16, <1>17, <1>18, <1>19, <1>20, <1>21,
     <1>22 DEF Next, HandlerStep, MainStep

(* Who is the master and who is a worker.                                  *)
LEMMA RoleStep == Inv /\ [Next]_vars => RoleInv'
<1> SUFFICES ASSUME Inv, [Next]_vars PROVE RoleInv'
  OBVIOUS
<1>0. FrameFacts
  BY FrameSteps DEF Inv
<1> USE MasterAssumption DEF MasterAssumption, Inv, CHLD, TypeOK, StackInv,
         RoleInv, Single, Alive, Open, MainPlaces, MasterPlaces,
         WorkerPlaces
<1>1. ASSUME NEW p \in Pids, NEW s \in Signals, Deliver(p, s) PROVE RoleInv'
  <2>1. Pushed(p, s)
    BY <1>1, <1>0 DEF FrameFacts
  <2>2. QED
    BY <1>1, <2>1 DEF Deliver, Open, Pushed
<1>2. ASSUME NEW p \in Pids, NEW s \in Signals, Send(p, s) PROVE RoleInv'
  BY <1>2 DEF Send
<1>3. ASSUME NEW p \in Pids, LogLock(p) PROVE RoleInv'
  <2>1. TopReplaced(p)
    BY <1>3, <1>0 DEF FrameFacts
  <2>2. QED
    BY <1>3, <2>1 DEF LogLock, TopReplaced
<1>4. ASSUME NEW p \in Pids, LogUnlock(p) PROVE RoleInv'
  <2>1. TopReplaced(p)
    BY <1>4, <1>0 DEF FrameFacts
  <2>2. QED
    BY <1>4, <2>1 DEF LogUnlock, TopReplaced
<1>5. ASSUME NEW p \in Pids, Collect(p) PROVE RoleInv'
  <2>1. TopReplaced(p)
    BY <1>5, <1>0 DEF FrameFacts
  <2>2. PICK q \in Pids : pc[q] = "zombie" /\ pc' = [pc EXCEPT ![q] = "gone"]
    BY <1>5 DEF Collect, CollectWith, Children, Goto
  <2>3. QED
    BY <1>5, <2>1, <2>2 DEF Collect, CollectWith, TopReplaced
<1>6. ASSUME NEW p \in Pids, NoneLeft(p) PROVE RoleInv'
  <2>1. TopReplaced(p)
    BY <1>6, <1>0 DEF FrameFacts
  <2>2. QED
    BY <1>6, <2>1 DEF NoneLeft, TopReplaced
<1>7. ASSUME NEW p \in Pids, Return(p) PROVE RoleInv'
  <2>1. Popped(p)
    BY <1>7, <1>0 DEF FrameFacts
  <2>2. QED
    BY <1>7, <2>1 DEF Return, Popped
<1>8. ASSUME NEW p \in Pids, LoadConfig(p) PROVE RoleInv'
  BY <1>8 DEF LoadConfig, Step, At, Goto
<1>9. ASSUME NEW p \in Pids, InitSignals(p) PROVE RoleInv'
  BY <1>9 DEF InitSignals, Step, At, Goto
<1>10. ASSUME NEW p \in Pids, Listen(p) PROVE RoleInv'
  BY <1>10 DEF Listen, Step, At, Goto
<1>11. ASSUME NEW p \in Pids, Daemonize(p) PROVE RoleInv'
  <2>1. PICK q \in Pids : At(p, "daemon") /\ Fork(p, "leave", q, "session")
    BY <1>11 DEF Daemonize
  <2>2. \A x \in Pids : pc[x] \notin WorkerPlaces /\ (pc[x] \in Single => x = p)
    BY <2>1 DEF At
  <2>3. /\ pc[p] = "daemon" /\ pc[q] = "none" /\ pc' = [pc EXCEPT ![p] = "leave", ![q] = "session"]
        /\ role' = [role EXCEPT ![q] = role[p]] /\ blocked' = [blocked EXCEPT ![q] = blocked[p]]
        /\ stack' = stack
    BY <1>11, <2>1 DEF Daemonize, Fork, At
  <2>4. \A x \in Pids :
          /\ pc'[x] \in Single => x = q
          /\ pc'[x] \notin WorkerPlaces \cup MasterPlaces
    BY <2>2, <2>3, ZenonT(60)
  <2>5. \A x \in Pids :
          /\ pc'[x] \in MainPlaces => role'[x] = "MASTER"
          /\ pc'[x] # "forked"
    BY <2>3, <2>4
  <2> HIDE DEF MainPlaces, MasterPlaces, WorkerPlaces, Single
  <2>6. \A x, y \in Pids : pc'[x] \in Single /\ pc'[y] \in Single => x = y
    BY <2>4
  <2>7. \A x \in Pids :
          /\ pc'[x] \in MainPlaces \cup MasterPlaces => role'[x] = "MASTER"
          /\ pc'[x] \in MasterPlaces => blocked'[x]
          /\ pc'[x] = "forked" => blocked'[x] /\ stack'[x] = <<>>
          /\ pc'[x] \in WorkerPlaces \ {"forked"} => role'[x] = "WORKER"
    BY <2>4, <2>5
  <2>8. \A x \in Pids : pc'[x] \in WorkerPlaces =>
          parent'[x] \in Pids /\ pc'[parent'[x]] \in MasterPlaces
    BY <2>4
  <2>9. QED
    BY <2>6, <2>7, <2>8
<1>12. ASSUME NEW p \in Pids, Session(p) PROVE RoleInv'
  BY <1>12 DEF Session, Step, At, Goto
<1>13. ASSUME NEW p \in Pids, LeaveMain(p) PROVE RoleInv'
  BY <1>13 DEF LeaveMain, Fails, Exit, At
<1>14. ASSUME NEW p \in Pids, Mask(p) PROVE RoleInv'
  BY <1>14 DEF Mask, Step, At, Goto
<1>15. ASSUME NEW p \in Pids, Spawn(p) PROVE RoleInv'
  <2>1. CASE \E q \in Pids : Fork(p, "spawn", q, "forked")
    <3>1. PICK q \in Pids : Fork(p, "spawn", q, "forked")
      BY <2>1
    <3>2. /\ pc[p] = "spawn" /\ pc[q] = "none"
          /\ pc' = [pc EXCEPT ![p] = "spawn", ![q] = "forked"]
          /\ role' = [role EXCEPT ![q] = role[p]] /\ blocked' = [blocked EXCEPT ![q] = blocked[p]]
          /\ parent' = [parent EXCEPT ![q] = p] /\ stack' = stack
      BY <1>15, <3>1 DEF Spawn, SpawnUpTo, Fork, At
    <3>3. \A x \in Pids : x # q => pc'[x] = pc[x] /\ role'[x] = role[x]
                                   /\ blocked'[x] = blocked[x] /\ parent'[x] = parent[x]
      BY <3>2
    <3>4. /\ pc'[q] = "forked" /\ blocked'[q] /\ stack'[q] = <<>> /\ parent'[q] = p
          /\ pc'[p] = "spawn" /\ p # q
      BY <3>2
    <3>7. /\ "forked" \notin Single /\ "spawn" \in MasterPlaces /\ "forked" \in WorkerPlaces
          /\ "forked" \notin MainPlaces \cup MasterPlaces /\ "none" \notin MasterPlaces
      OBVIOUS
    <3> HIDE DEF MainPlaces, MasterPlaces, WorkerPlaces, Single
    <3>5. \A x, y \in Pids : pc'[x] \in Single /\ pc'[y] \in Single => x = y
      BY <3>7, <3>3, <3>4, SMTT(40)
    <3>6. ASSUME NEW x \in Pids, pc'[x] \in WorkerPlaces
          PROVE  parent'[x] \in Pids /\ pc'[parent'[x]] \in MasterPlaces
      <4>1. CASE x = q
        BY <3>7, <3>4, <4>1
      <4>2. CASE x # q
        <5>1. parent'[x] = parent[x] /\ parent[x] \in Pids /\ pc[parent[x]] \in MasterPlaces
          BY <3>3, <3>6, <4>2
        <5>2. parent[x] # q
          BY <3>7, <3>2, <5>1
        <5>3. QED
          BY <3>3, <5>1, <5>2
      <4>3. QED
        BY <4>1, <4>2
    <3>8. ASSUME NEW x \in Pids
          PROVE  /\ pc'[x] \in MainPlaces \cup MasterPlaces => role'[x] = "MASTER"
                 /\ pc'[x] \in MasterPlaces => blocked'[x]
                 /\ pc'[x] = "forked" => blocked'[x] /\ stack'[x] = <<>>
                 /\ pc'[x] \in WorkerPlaces \ {"forked"} => role'[x] = "WORKER"
      <4>1. CASE x = q
        BY <3>4, <3>7, <4>1
      <4>2. CASE x # q
        <5>1. /\ pc'[x] = pc[x] /\ role'[x] = role[x] /\ stack'[x] = stack[x]
              /\ blocked'[x] = blocked[x]
          BY <3>2, <3>3, <4>2
        <5>2. QED
          BY <5>1
      <4>3. QED
        BY <4>1, <4>2
    <3>9. QED
      BY <3>5, <3>6, <3>8
  <2>2. CASE UNCHANGED <<pc, parent, role, blocked>>
    BY <1>15, <2>2 DEF Spawn, SpawnUpTo, At
  <2>3. QED
    BY <1>15, <2>1, <2>2 DEF Spawn, SpawnUpTo
<1>16. ASSUME NEW p \in Pids, Suspend(p) PROVE RoleInv'
  <2>1. pc[p] \in MasterPlaces /\ Goto(p, "suspend")
    BY <1>16 DEF Suspend, Step, At
  <2>2. QED
    BY <1>16, <2>1 DEF Suspend, Goto
<1>17. ASSUME NEW p \in Pids, BecomeWorker(p) PROVE RoleInv'
  BY <1>17 DEF BecomeWorker, Step, At, Goto
<1>18. ASSUME NEW p \in Pids, Unmask(p) PROVE RoleInv'
  BY <1>18 DEF Unmask, Step, At, Goto
<1>19. ASSUME NEW p \in Pids, WorkerStep(p) PROVE RoleInv'
  <2>1. PICK l \in WorkerPlaces \ {"forked"} : pc[p] \in WorkerPlaces \ {"forked"} /\ Goto(p, l)
    BY <1>19 DEF WorkerStep, Step, At
  <2>2. QED
    BY <1>19, <2>1 DEF WorkerStep, Goto
<1>20. ASSUME NEW p \in Pids, InitFails(p) PROVE RoleInv'
  BY <1>20 DEF InitFails, Exit, At
<1>21. ASSUME NEW p \in Pids, Killed(p) PROVE RoleInv'
  BY <1>21 DEF Killed, Exit
<1>22. CASE UNCHANGED vars
  BY <1>22 DEF vars
<1>23. QED
  BY <1>1, <1>2, <1>3, <1>4, <1>5, <1>6, <1>7, <1>8, <1>9, <1>10, <1>11,
     <1>12, <1>13, <1>14, <1>15, <1>16, <1>17, <1>18, <1>19, <1>20, <1>21,
     <1>22 DEF Next, HandlerStep, MainStep

(* The invariant holds in every reachable state.                           *)
THEOREM MasterInvariant == Spec => []Inv
<1>1. Inv /\ [Next]_vars => Inv'
  BY TypeStep, StackStep, LoadStep, ZombieStep, RoleStep DEF Inv
<1>2. QED
  BY <1>1, InitInv, PTL DEF Spec

(* Types: in particular no more workers are started than configured.       *)
THEOREM TypeCorrect == Spec => []TypeOK
BY MasterInvariant, PTL DEF Inv

(* A child that has ended is collected as long as its parent's handlers    *)
(* return: a SIGCHLD is pending or in work, however many ended at once.    *)
THEOREM NoZombieForgotten == Spec => []ZombieWatched
<1>1. Inv => ZombieWatched
  BY DEF Inv, ZombieInv, ZombieWatched
<1>2. QED
  BY <1>1, MasterInvariant, PTL

(* There is one master, and every worker is its child.                     *)
THEOREM OneMasterOnly == Spec => []OneMaster
<1>1. ASSUME Inv PROVE OneMaster
  <2> DEFINE Masters == {p \in Pids : pc[p] \in MasterPlaces}
  <2>1. Masters = {} \/ \E p \in Pids : Masters = {p}
    BY <1>1 DEF Inv, RoleInv, Single
  <2>2. Cardinality(Masters) <= 1
    BY <2>1, FS_EmptySet, FS_Singleton
  <2>3. QED
    BY <1>1, <2>2 DEF Inv, RoleInv, OneMaster
<1>2. QED
  BY <1>1, MasterInvariant, PTL

(* No handler of a worker takes it for the master.                         *)
THEOREM RoleKnown == Spec => []KnowsItsRole
<1>1. Inv => KnowsItsRole
  BY DEF Inv, StackInv, RoleInv, KnowsItsRole, TypeOK, Alive
<1>2. QED
  BY <1>1, MasterInvariant, PTL

(* What the program goes by is what is in the file, who goes on has left   *)
(* main()'s process if the file says so, and no fork is left to be done    *)
(* when the master sleeps.                                                 *)
Daemon == GetIntDefault(items, "Daemon", 0) = 1
ConfInv ==
  \A p \in Pids :
    /\ pc[p] \in (MainPlaces \ {"load"}) \cup MasterPlaces =>
         conf.text # NoFile /\ items = Load(conf.text)
    /\ pc[p] \in {"load", "signals", "listen", "daemon"} => p = Launcher
    /\ pc[p] = "daemon" => Daemon
    /\ pc[p] \in {"session", "mask"} \cup MasterPlaces => (p # Launcher <=> Daemon)
    /\ pc[p] \in {"suspend", "sleep"} => inum = WorkProcess

(* Whoever changes place only to become a worker, or to end, or from       *)
(* sigsuspend() to where it is called again, changes nothing of this.      *)
Drifts ==
  /\ UNCHANGED <<conf, items, inum>>
  /\ \A p \in Pids :
       \/ pc'[p] = pc[p] \/ pc'[p] \in WorkerPlaces \cup {"zombie", "gone"}
       \/ pc[p] \in {"suspend", "sleep"} /\ pc'[p] \in {"suspend", "sleep"}

(* Such a step keeps it,                                                   *)
LEMMA DriftKeeps == ConfInv /\ Drifts => ConfInv'
<1> SUFFICES ASSUME ConfInv, Drifts PROVE ConfInv'
  OBVIOUS
<1>1. /\ items' = items /\ conf' = conf /\ inum' = inum
      /\ (Daemon' <=> Daemon) /\ WorkProcess' = WorkProcess
  BY DEF Drifts, Daemon, WorkProcess
<1>2. ASSUME NEW p \in Pids
      PROVE  /\ pc'[p] \in (MainPlaces \ {"load"}) \cup MasterPlaces =>
                  conf.text # NoFile /\ items = Load(conf.text)
             /\ pc'[p] \in {"load", "signals", "listen", "daemon"} => p = Launcher
             /\ pc'[p] = "daemon" => Daemon
             /\ pc'[p] \in {"session", "mask"} \cup MasterPlaces => (p # Launcher <=> Daemon)
             /\ pc'[p] \in {"suspend", "sleep"} => inum = WorkProcess
  <2>1. CASE pc'[p] = pc[p]
    BY <2>1 DEF ConfInv
  <2>2. CASE pc'[p] \in WorkerPlaces \cup {"zombie", "gone"}
    BY <2>2 DEF WorkerPlaces, MainPlaces, MasterPlaces
  <2>3. CASE pc[p] \in {"suspend", "sleep"} /\ pc'[p] \in {"suspend", "sleep"}
    BY <2>3 DEF ConfInv, MainPlaces, MasterPlaces
  <2>4. QED
    BY <2>1, <2>2, <2>3 DEF Drifts
<1>3. QED
  BY <1>1, <1>2 DEF ConfInv

(* and so does every other.                                                *)
LEMMA ConfStep ==
  ASSUME TypeOK, TypeOK', RoleInv, LoadInv, ConfInv, [Next]_vars
  PROVE  ConfInv'
<1>a. /\ pc \in [Pids -> MainPlaces \cup MasterPlaces \cup WorkerPlaces \cup {"none", "zombie", "gone"}]
      /\ inum \in Nat /\ (inum > 0 => inum <= WorkProcess)
      /\ \A p, q \in Pids : pc[p] \in Single /\ pc[q] \in Single => p = q
      /\ \A p \in Pids : pc[p] = "load" => \A q \in Pids : q # p => pc[q] = "none"
  BY DEF TypeOK, RoleInv, LoadInv
<1>b. ASSUME UNCHANGED items PROVE (Daemon' <=> Daemon) /\ WorkProcess' = WorkProcess
  BY <1>b DEF Daemon, WorkProcess
<1> DEFINE Fine == \A p \in Pids :
             \/ pc'[p] = pc[p] \/ pc'[p] \in WorkerPlaces \cup {"zombie", "gone"}
             \/ pc[p] \in {"suspend", "sleep"} /\ pc'[p] \in {"suspend", "sleep"}
<1>c. ASSUME UNCHANGED <<conf, items, inum>>, Fine PROVE ConfInv'
  BY <1>c, DriftKeeps DEF Drifts
<1> HIDE DEF Fine
<1>1. ASSUME NEW p \in Pids, HandlerStep(p) \/ Killed(p) \/ \E s \in Signals : Send(p, s)
      PROVE  ConfInv'
  <2>1. UNCHANGED <<conf, items, inum>>
    BY <1>1 DEF HandlerStep, Deliver, LogLock, LogUnlock, Collect, CollectWith, NoneLeft,
       Return,
                Killed, Exit, Send
  <2>2. Fine
    <3>1. CASE UNCHANGED pc
      BY <3>1 DEF Fine
    <3>2. CASE Collect(p)
      BY <1>a, <3>2 DEF Collect, CollectWith, Goto, Children, Fine
    <3>3. CASE Return(p)
      BY <1>a, <3>3 DEF Return, Fine
    <3>4. CASE Killed(p)
      BY <1>a, <3>4 DEF Killed, Exit, Fine
    <3>5. QED
      BY <1>1, <3>1, <3>2, <3>3, <3>4
         DEF HandlerStep, Deliver, LogLock, LogUnlock, NoneLeft, Send
  <2>3. QED
    BY <1>c, <2>1, <2>2
<1>2. ASSUME NEW p \in Pids, LeaveMain(p) \/ InitFails(p) PROVE ConfInv'
  <2>1. Exit(p)
    BY <1>2 DEF LeaveMain, InitFails
  <2>2. UNCHANGED <<conf, items, inum>> /\ Fine
    BY <1>a, <2>1 DEF Exit, Fine
  <2>3. QED
    BY <1>c, <2>2
<1>3. ASSUME NEW p \in Pids, BecomeWorker(p) \/ Unmask(p) \/ WorkerStep(p) PROVE ConfInv'
  <2>1. UNCHANGED <<conf, items, inum>> /\ \E l \in WorkerPlaces : Goto(p, l)
    BY <1>3 DEF BecomeWorker, Unmask, WorkerStep, Step, WorkerPlaces
  <2>2. Fine
    BY <1>a, <2>1 DEF Goto, Fine
  <2>3. QED
    BY <1>c, <2>1, <2>2
<1>4. CASE UNCHANGED vars
  <2>1. UNCHANGED <<conf, items, inum>> /\ Fine
    BY <1>4 DEF vars, Fine
  <2>2. QED
    BY <1>c, <2>1
<1>5. ASSUME NEW p \in Pids, LoadConfig(p) PROVE ConfInv'
  <2>1. /\ pc[p] = "load" /\ pc' = [pc EXCEPT ![p] = "signals"]
        /\ conf.text # NoFile /\ items' = Load(conf.text) /\ conf' = conf
    BY <1>5 DEF LoadConfig, Step, At, Goto
  <2>2. p = Launcher
    BY <2>1 DEF ConfInv
  <2>3. pc'[p] = "signals" /\ \A q \in Pids : q # p => pc'[q] = "none"
    BY <1>a, <2>1
  <2>4. QED
    BY <2>1, <2>2, <2>3 DEF ConfInv, MainPlaces, MasterPlaces
<1>6. ASSUME NEW p \in Pids, InitSignals(p) \/ Listen(p) \/ Session(p) \/ Mask(p) PROVE ConfInv'
  <2>1. PICK l \in {"listen", "daemon", "mask", "spawn"} :
          /\ pc' = [pc EXCEPT ![p] = l] /\ UNCHANGED <<conf, items, inum>>
          /\ pc[p] \in MainPlaces \ {"load"}
          /\ l \in {"listen", "daemon"} => pc[p] \in {"signals", "listen"}
          /\ l = "daemon" => Daemon
          /\ l \in {"mask", "spawn"} => \/ pc[p] = "listen" /\ ~Daemon
                                        \/ pc[p] \in {"session", "mask"}
    <3>1. CASE InitSignals(p)
      BY <3>1 DEF InitSignals, Step, At, Goto, MainPlaces
    <3>2. CASE Listen(p)
      BY <3>2 DEF Listen, Step, At, Goto, MainPlaces, Daemon
    <3>3. CASE Session(p)
      BY <3>3 DEF Session, Step, At, Goto, MainPlaces
    <3>4. CASE Mask(p)
      BY <3>4 DEF Mask, Step, At, Goto, MainPlaces
    <3>5. QED
      BY <1>6, <3>1, <3>2, <3>3, <3>4
  <2>2. pc'[p] = l /\ \A q \in Pids : q # p => pc'[q] = pc[q]
    BY <1>a, <2>1
  <2>3. QED
    BY <1>b, <2>1, <2>2 DEF ConfInv, MainPlaces, MasterPlaces
<1>7. ASSUME NEW p \in Pids, Daemonize(p) PROVE ConfInv'
  <2>1. PICK q \in Pids :
          /\ pc[p] = "daemon" /\ pc[q] = "none" /\ pc' = [pc EXCEPT ![p] = "leave", ![q] = "session"]
          /\ UNCHANGED <<conf, items, inum>>
    BY <1>7 DEF Daemonize, Fork, At
  <2>2. p = Launcher /\ q # p /\ Daemon /\ conf.text # NoFile /\ items = Load(conf.text)
    BY <2>1 DEF ConfInv, MainPlaces
  <2>3. /\ pc'[p] = "leave" /\ pc'[q] = "session"
        /\ \A x \in Pids : x # p /\ x # q => pc'[x] = pc[x]
    BY <1>a, <2>1, <2>2
  <2>4. QED
    BY <1>b, <2>1, <2>2, <2>3 DEF ConfInv, MainPlaces, MasterPlaces
<1>8. ASSUME NEW p \in Pids, Spawn(p) PROVE ConfInv'
  <2>1. pc[p] = "spawn" /\ UNCHANGED <<conf, items>>
    BY <1>8 DEF Spawn, SpawnUpTo, At
  <2>2. \A x \in Pids : pc'[x] = pc[x] \/ pc'[x] = "forked"
    BY <1>8, <1>a, <2>1 DEF Spawn, SpawnUpTo, Fork
  <2>3. \A x \in Pids : pc[x] \notin {"suspend", "sleep"}
    BY <1>a, <2>1 DEF Single, MasterPlaces
  <2>4. QED
    BY <1>b, <2>1, <2>2, <2>3 DEF ConfInv, MainPlaces, MasterPlaces
<1>9. ASSUME NEW p \in Pids, Suspend(p) PROVE ConfInv'
  <2>1. /\ pc' = [pc EXCEPT ![p] = "suspend"] /\ UNCHANGED <<conf, items, inum>>
        /\ (pc[p] = "spawn" /\ inum >= WorkProcess) \/ pc[p] = "sleep"
    BY <1>9 DEF Suspend, Step, At, Goto
  <2>2. CASE pc[p] = "sleep"
    <3>1. Fine
      BY <1>a, <2>1, <2>2 DEF Fine
    <3>2. QED
      BY <1>c, <2>1, <3>1
  <2>3. CASE pc[p] = "spawn" /\ inum >= WorkProcess
    <3>1. inum = WorkProcess
      BY <1>a, <2>3, Number
    <3>2. pc'[p] = "suspend" /\ \A q \in Pids : q # p => pc'[q] = pc[q]
      BY <1>a, <2>1
    <3>3. QED
      BY <1>b, <2>1, <2>3, <3>1, <3>2 DEF ConfInv, MainPlaces, MasterPlaces
  <2>4. QED
    BY <2>1, <2>2, <2>3
<1>10. QED
  BY <1>1, <1>2, <1>3, <1>4, <1>5, <1>6, <1>7, <1>8, <1>9 DEF Next, MainStep

-----------------------------------------------------------------------------
(* What a line of nginx.conf says, by its comments: a name, an equals sign *)
(* and a value, with blanks around the sign and at the end; or nothing.    *)
Blanks == {LF, CR, " "}
Marks == {";", " ", "#", TAB, LF, "["}
Says(line, name, value) ==
  \E a, eq, c, d \in 1..Len(line) :
    /\ a < eq /\ eq < c /\ c <= d
    /\ name = SubSeq(line, 1, a) /\ value = SubSeq(line, c, d)
    /\ line[eq] = "=" /\ \A i \in 1..eq - 1 : line[i] # "="
    /\ \A i \in a + 1..eq - 1 : line[i] = " "
    /\ \A i \in eq + 1..c - 1 : line[i] = " "
    /\ \A i \in d + 1..Len(line) : line[i] \in Blanks
    /\ line[1] \notin Marks /\ line[a] # " " /\ line[c] # " " /\ line[d] \notin Blanks
SaysNothing(line) ==
  line = <<>> \/ line[1] \in Marks \/ \A i \in 1..Len(line) : line[i] # "="

(* The greatest and the least of a set.                                    *)
LEMMA MaxIs == ASSUME NEW X \in SUBSET Int, NEW x \in X, \A y \in X : y <= x PROVE Max(X) = x
<1>1. PICK m : m = CHOOSE z \in X : \A y \in X : z >= y
  OBVIOUS
<1>2. m \in X /\ m >= x
  BY <1>1
<1>3. m <= x /\ m \in Int /\ x \in Int
  BY <1>2
<1>4. QED
  BY <1>1, <1>2, <1>3 DEF Max

LEMMA MinIs == ASSUME NEW X \in SUBSET Int, NEW x \in X, \A y \in X : x <= y PROVE Min(X) = x
<1>1. PICK m : m = CHOOSE z \in X : \A y \in X : z =< y
  OBVIOUS
<1>2. m \in X /\ m <= x
  BY <1>1
<1>3. x <= m /\ m \in Int /\ x \in Int
  BY <1>2
<1>4. QED
  BY <1>1, <1>2, <1>3 DEF Min

(* TrimEnd() and Ltrim(), when it is known which characters they stop at.  *)
LEMMA TrimEndIs ==
  ASSUME NEW A, NEW s \in Seq(A), NEW cs, NEW n \in 1..Len(s), s[n] \notin cs,
         \A i \in n + 1..Len(s) : s[i] \in cs
  PROVE  TrimEnd(s, cs) = SubSeq(s, 1, n)
<1> DEFINE X == {0} \cup {i \in DOMAIN s : s[i] \notin cs}
<1>1. X \in SUBSET Int /\ n \in X /\ \A y \in X : y <= n
  OBVIOUS
<1>2. Max(X) = n
  BY <1>1, MaxIs
<1>3. QED
  BY <1>2 DEF TrimEnd

LEMMA LeastOutside ==
  ASSUME NEW A, NEW s \in Seq(A), NEW cs, NEW n \in 1..Len(s), s[n] \notin cs,
         \A i \in 1..n - 1 : s[i] \in cs
  PROVE  Min({Len(s) + 1} \cup {i \in DOMAIN s : s[i] \notin cs}) = n
<1> DEFINE X == {Len(s) + 1} \cup {i \in DOMAIN s : s[i] \notin cs}
<1>1. X \in SUBSET Int /\ n \in X
  OBVIOUS
<1>2. \A y \in X : n <= y
  OBVIOUS
<1> HIDE DEF X
<1>3. Min(X) = n
  BY <1>1, <1>2, MinIs
<1>4. QED
  BY <1>3 DEF X

LEMMA LtrimIs ==
  ASSUME NEW A, NEW s \in Seq(A), NEW n \in 1..Len(s), s[n] \notin {" "},
         \A i \in 1..n - 1 : s[i] \in {" "}
  PROVE  Ltrim(s) = SubSeq(s, n, Len(s))
<1>1. {i \in DOMAIN s : s[i] # " "} = {i \in DOMAIN s : s[i] \notin {" "}}
  BY Zenon
<1>2. Min({Len(s) + 1} \cup {i \in DOMAIN s : s[i] \notin {" "}}) = n
  BY LeastOutside
<1>3. QED
  BY <1>1, <1>2 DEF Ltrim

(* A part of a part.                                                       *)
LEMMA SubSeqTwice ==
  ASSUME NEW A, NEW s \in Seq(A), NEW m \in 1..Len(s), NEW n \in m..Len(s),
         NEW j \in 1..n - m + 1, NEW k \in j..n - m + 1
  PROVE  /\ SubSeq(s, m, n) \in Seq(A) /\ Len(SubSeq(s, m, n)) = n - m + 1
         /\ SubSeq(SubSeq(s, m, n), j, k) = SubSeq(s, m + j - 1, m + k - 1)
         /\ \A i \in 1..n - m + 1 : SubSeq(s, m, n)[i] = s[m + i - 1]
<1>1. /\ SubSeq(s, m, n) \in Seq(A) /\ Len(SubSeq(s, m, n)) = n - m + 1
      /\ \A i \in 1..n - m + 1 : SubSeq(s, m, n)[i] = s[m + i - 1]
  OBVIOUS
<1> DEFINE t == SubSeq(s, m, n)
           u == SubSeq(t, j, k)
           v == SubSeq(s, m + j - 1, m + k - 1)
<1>2. Len(u) = k - j + 1 /\ u \in Seq(A) /\ \A i \in 1..k - j + 1 : u[i] = t[j + i - 1]
  BY <1>1
<1>3. Len(v) = k - j + 1 /\ v \in Seq(A) /\ \A i \in 1..k - j + 1 : v[i] = s[(m + j - 1) + i - 1]
  OBVIOUS
<1>4. \A i \in 1..k - j + 1 : u[i] = v[i]
  BY <1>1, <1>2, <1>3
<1> HIDE DEF t, u, v
<1>5. u = v
  BY <1>2, <1>3, <1>4, SeqEqual
<1>6. QED
  BY <1>1, <1>5 DEF t, u, v

(* An item is read as it is meant, however it is laid out.                 *)
LEMMA SaysRead ==
  ASSUME NEW A, NEW line \in Seq(A), NEW name, NEW value, Says(line, name, value)
  PROVE  IsItem(line) /\ Item(line) = [ItemName |-> name, ItemContent |-> value]
<1>1. PICK a, eq, c, d \in 1..Len(line) :
         /\ a < eq /\ eq < c /\ c <= d
         /\ name = SubSeq(line, 1, a) /\ value = SubSeq(line, c, d)
         /\ line[eq] = "=" /\ \A i \in 1..eq - 1 : line[i] # "="
         /\ \A i \in a + 1..eq - 1 : line[i] = " "
         /\ \A i \in eq + 1..c - 1 : line[i] = " "
         /\ \A i \in d + 1..Len(line) : line[i] \in Blanks
         /\ line[1] \notin Marks /\ line[a] # " " /\ line[c] # " " /\ line[d] \notin Blanks
  BY DEF Says
<1>2. PICK n \in Nat : n = Len(line) /\ DOMAIN line = 1..n
  OBVIOUS
<1>3. a \in Nat /\ eq \in Nat /\ c \in Nat /\ d \in Nat
  OBVIOUS
<1>4. 1 <= a /\ a < eq /\ eq < c /\ c <= d /\ d <= n
  <2>1. 1 <= a /\ d <= n
    BY <1>2
  <2>2. QED
    BY <1>1, <2>1
<1>5. name = SubSeq(line, 1, a) /\ value = SubSeq(line, c, d)
  BY <1>1
<1>6. line[eq] = "=" /\ \A i \in 1..eq - 1 : line[i] # "="
  BY <1>1
<1>7. line[a] # " " /\ \A i \in a + 1..eq - 1 : line[i] = " "
  BY <1>1
<1>8. line[c] # " " /\ \A i \in eq + 1..c - 1 : line[i] = " "
  BY <1>1
<1>9. line[d] \notin {LF, CR, " "} /\ \A i \in d + 1..n : line[i] \in {LF, CR, " "}
  BY <1>1, <1>2 DEF Blanks
<1>10. line[1] \notin {";", " ", "#", TAB, LF} /\ line[1] # "[" /\ line[1] # " "
  BY <1>1 DEF Marks
<1> DEFINE text == SubSeq(line, 1, d)
<1>11. TrimEnd(line, {LF, CR, " "}) = text
  BY <1>2, <1>3, <1>4, <1>9, TrimEndIs
<1>12. text \in Seq(A) /\ Len(text) = d /\ \A i \in 1..d : text[i] = line[i]
  BY <1>2, <1>3, <1>4
<1> HIDE DEF text
<1>13. SelectInSeq(text, LAMBDA ch : ch = "=") = eq
  <2> DEFINE X == {i \in 1..Len(text) : text[i] = "="}
  <2>1. eq \in X
    BY <1>3, <1>4, <1>6, <1>12
  <2>2. ASSUME NEW y \in X PROVE y \in Int /\ eq <= y
    <3>1. y \in 1..d /\ line[y] = "="
      BY <1>12
    <3>2. y \notin 1..eq - 1
      BY <1>6, <3>1
    <3>3. QED
      BY <1>3, <3>1, <3>2
  <2>3. Min(X) = eq /\ X # {}
    <3> HIDE DEF X
    <3>1. QED
      BY <2>1, <2>2, MinIs
  <2>4. QED
    BY <2>3 DEF SelectInSeq
<1>14. IsItem(line)
  <2>1. line # <<>>
    BY <1>2, <1>3, <1>4
  <2>2. text # <<>> /\ text[1] # "["
    <3>1. 1 \in 1..d
      BY <1>3, <1>4
    <3>2. text # <<>> /\ text[1] = line[1]
      BY <1>12, <3>1
    <3>3. QED
      BY <1>10, <3>2, Zenon
  <2>3. Contains(text, "=")
    BY <1>3, <1>4, <1>6, <1>12 DEF Contains
  <2>4. QED
    BY <1>10, <1>11, <2>1, <2>2, <2>3 DEF IsItem
<1>15. Ltrim(Rtrim(SubSeq(text, 1, eq - 1))) = name
  <2> DEFINE left == SubSeq(text, 1, eq - 1)
  <2>1. left = SubSeq(line, 1, eq - 1)
    <3>1. 1 \in 1..Len(line) /\ d \in 1..Len(line) /\ 1 \in 1..d - 1 + 1 /\ eq - 1 \in 1..d - 1 + 1
      BY <1>2, <1>3, <1>4
    <3>2. 1 + 1 - 1 = 1 /\ 1 + (eq - 1) - 1 = eq - 1
      BY <1>3
    <3>3. QED
      BY <3>1, <3>2, SubSeqTwice DEF text
  <2>2. left \in Seq(A) /\ Len(left) = eq - 1 /\ \A i \in 1..eq - 1 : left[i] = line[i]
    BY <1>2, <1>3, <1>4, <2>1
  <2> HIDE DEF left
  <2>3. Rtrim(left) = SubSeq(left, 1, a)
    <3>0. a \in 1..eq - 1 /\ \A i \in a + 1..eq - 1 : i \in 1..eq - 1
      BY <1>3, <1>4
    <3>1. a \in 1..Len(left) /\ left[a] \notin {" "}
      BY <1>7, <2>2, <3>0
    <3>2. \A i \in a + 1..Len(left) : left[i] \in {" "}
      BY <1>7, <2>2, <3>0
    <3>3. QED
      BY <2>2, <3>1, <3>2, TrimEndIs DEF Rtrim
  <2>4. SubSeq(left, 1, a) = name
    <3>1. 1 \in 1..Len(line) /\ eq - 1 \in 1..Len(line) /\ 1 \in 1..(eq - 1) - 1 + 1
          /\ a \in 1..(eq - 1) - 1 + 1
      BY <1>2, <1>3, <1>4
    <3>2. 1 + 1 - 1 = 1 /\ 1 + a - 1 = a
      BY <1>3
    <3>3. QED
      BY <1>5, <2>1, <3>1, <3>2, SubSeqTwice
  <2>5. name \in Seq(A) /\ Len(name) = a /\ name[1] = line[1]
    BY <1>2, <1>3, <1>4, <1>5
  <2>6. Ltrim(name) = SubSeq(name, 1, Len(name))
    <3>1. 1 \in 1..Len(name)
      BY <1>3, <1>4, <2>5
    <3>2. name[1] # " "
      BY <1>10, <2>5
    <3>3. 1..1 - 1 = {}
      OBVIOUS
    <3>4. name[1] \notin {" "} /\ \A i \in 1..1 - 1 : name[i] \in {" "}
      BY <3>2, <3>3, Zenon
    <3>5. QED
      BY <2>5, <3>1, <3>4, LtrimIs
  <2>7. SubSeq(name, 1, Len(name)) = name
    BY <2>5, SubSeqFull
  <2>8. QED
    BY <2>3, <2>4, <2>6, <2>7 DEF left
<1>16. Ltrim(Rtrim(SubSeq(text, eq + 1, Len(text)))) = value
  <2> DEFINE right == SubSeq(text, eq + 1, Len(text))
  <2>1. right = SubSeq(line, eq + 1, d)
    <3>1. 1 \in 1..Len(line) /\ d \in 1..Len(line) /\ eq + 1 \in 1..d - 1 + 1 /\ d \in eq + 1..d - 1 + 1
      BY <1>2, <1>3, <1>4
    <3>2. 1 + (eq + 1) - 1 = eq + 1 /\ 1 + d - 1 = d
      BY <1>3
    <3>3. QED
      BY <1>12, <3>1, <3>2, SubSeqTwice DEF text
  <2>2. PICK m \in Nat : m = d - eq /\ c - eq \in 1..m /\ d = eq + m
    BY <1>3, <1>4
  <2>3. right \in Seq(A) /\ Len(right) = m /\ \A i \in 1..m : right[i] = line[eq + i]
    <3>1. \A i \in 1..m : (eq + 1) + i - 1 = eq + i
      BY <1>3
    <3>2. /\ eq + 1 \in 1..Len(line) /\ d \in eq + 1..Len(line) /\ d - (eq + 1) + 1 = m
          /\ 1 \in 1..m
      BY <1>2, <1>3, <1>4, <2>2
    <3>3. QED
      BY <2>1, <3>1, <3>2, SubSeqTwice
  <2> HIDE DEF right
  <2>4. Rtrim(right) = right
    <3>1. m \in 1..Len(right) /\ m + 1..Len(right) = {}
      BY <2>2, <2>3
    <3>2. right[m] = line[d]
      BY <2>2, <2>3, <3>1
    <3>3. Rtrim(right) = SubSeq(right, 1, m)
      BY <1>9, <2>3, <3>1, <3>2, TrimEndIs DEF Rtrim
    <3>4. QED
      BY <2>3, <3>3, SubSeqFull
  <2>5. Ltrim(right) = SubSeq(right, c - eq, m)
    <3>1. eq + (c - eq) = c /\ c - eq \in 1..Len(right)
      BY <1>3, <2>2, <2>3
    <3>2. right[c - eq] \notin {" "}
      BY <1>8, <2>2, <2>3, <3>1
    <3>3. ASSUME NEW i \in 1..(c - eq) - 1 PROVE right[i] \in {" "}
      <4>1. i \in 1..m /\ eq + i \in eq + 1..c - 1
        BY <1>3, <1>4, <2>2
      <4>2. QED
        BY <1>8, <2>3, <4>1
    <3>4. QED
      BY <2>3, <3>1, <3>2, <3>3, LtrimIs
  <2>6. SubSeq(right, c - eq, m) = SubSeq(line, c, d)
    <3>1. /\ eq + 1 \in 1..Len(line) /\ d \in eq + 1..Len(line) /\ d - (eq + 1) + 1 = m
          /\ c - eq \in 1..m /\ m \in c - eq..m
          /\ (eq + 1) + (c - eq) - 1 = c /\ (eq + 1) + m - 1 = d
      BY <1>2, <1>3, <1>4, <2>2
    <3>2. QED
      BY <2>1, <3>1, SubSeqTwice
  <2>7. QED
    BY <1>5, <2>4, <2>5, <2>6 DEF right
<1>17. QED
  BY <1>11, <1>13, <1>14, <1>15, <1>16 DEF Item

(* The greatest number of a set that has a bound.                          *)
LEMMA MaxIn == ASSUME NEW l \in Nat, NEW X \in SUBSET (0..l), 0 \in X PROVE Max(X) \in X
<1> DEFINE Y == {l - x : x \in X}
<1>1. Y \subseteq Nat /\ Y # {}
  OBVIOUS
<1>2. PICK y \in Y : \A z \in Y : y <= z
  <2> HIDE DEF Y
  <2>1. QED
    BY <1>1, LeastElement
<1>3. PICK x \in X : y = l - x
  BY <1>2
<1>4. ASSUME NEW z \in X PROVE z <= x
  <2>1. y <= l - z
    BY <1>2
  <2>2. z \in 0..l /\ x \in 0..l
    BY Zenon
  <2>3. QED
    BY <1>3, <2>1, <2>2
<1>5. QED
  BY <1>4, MaxIs

(* What is left of a line is its beginning.                                *)
LEMMA TrimEndPart ==
  ASSUME NEW A, NEW s \in Seq(A), NEW cs
  PROVE  \E m \in 0..Len(s) : /\ TrimEnd(s, cs) \in Seq(A) /\ Len(TrimEnd(s, cs)) = m
                              /\ \A i \in 1..m : TrimEnd(s, cs)[i] = s[i]
<1> DEFINE X == {0} \cup {i \in DOMAIN s : s[i] \notin cs}
<1>1. PICK l \in Nat : l = Len(s) /\ DOMAIN s = 1..l
  OBVIOUS
<1>2. X \in SUBSET (0..l) /\ 0 \in X
  BY <1>1
<1>3. PICK m : m = Max(X)
  OBVIOUS
<1>4. m \in 0..l
  <2> HIDE DEF X
  <2>1. QED
    BY <1>2, <1>3, MaxIn
<1>5. TrimEnd(s, cs) = SubSeq(s, 1, m)
  BY <1>3 DEF TrimEnd
<1>6. SubSeq(s, 1, m) \in Seq(A) /\ Len(SubSeq(s, 1, m)) = m /\ \A i \in 1..m : SubSeq(s, 1, m)[i] = s[i]
  BY <1>1, <1>4
<1>7. QED
  BY <1>1, <1>4, <1>5, <1>6

(* Nothing is read from a line that says nothing.                          *)
LEMMA NothingRead ==
  ASSUME NEW A, NEW line \in Seq(A), SaysNothing(line) PROVE ~IsItem(line)
<1> DEFINE text == TrimEnd(line, {LF, CR, " "})
<1>1. PICK m \in 0..Len(line) : /\ text \in Seq(A) /\ Len(text) = m
                                /\ \A i \in 1..m : text[i] = line[i]
  BY TrimEndPart
<1> HIDE DEF text
<1>2. text # <<>> => 1 \in 1..m
  BY <1>1
<1>3. CASE line = <<>> \/ line[1] \in Marks
  <2>1. line[1] = "[" => text = <<>> \/ text[1] = "["
    BY <1>1, <1>2, Zenon
  <2>2. QED
    BY <1>3, <2>1, Zenon DEF IsItem, Marks, text
<1>4. CASE \A i \in 1..Len(line) : line[i] # "="
  <2>1. \A i \in 1..m : i \in 1..Len(line)
    BY <1>1
  <2>2. \A i \in 1..Len(text) : text[i] # "="
    BY <1>1, <1>4, <2>1, Zenon
  <2>3. ~Contains(text, "=")
    BY <2>2 DEF Contains
  <2>4. QED
    BY <2>3 DEF IsItem, text
<1>5. QED
  BY <1>3, <1>4 DEF SaysNothing

-----------------------------------------------------------------------------
(* What a file means for a setting: the first line that sets it decides,   *)
(* whatever the lines after it say, and if there is none the default.      *)
Sets(line, name, n) ==
  \E m, v : Says(line, m, v) /\ SameName(m, <<name>>) /\ n = atoi(v)
Skips(line, name) ==
  SaysNothing(line) \/ \E m, v : Says(line, m, v) /\ ~SameName(m, <<name>>)
Meant(file, name, def, n) ==
  \/ \E i \in 1..Len(file) :
       Sets(file[i], name, n) /\ \A j \in 1..i - 1 : Skips(file[j], name)
  \/ n = def /\ \A j \in 1..Len(file) : Skips(file[j], name)

Named(item, name) == SameName(item.ItemName, <<name>>)
IsList(file, f) ==
  f = [n \in 0..Len(file) |->
        IF n = 0 THEN <<>>
        ELSE IF IsItem(file[n]) THEN Append(f[n - 1], Item(file[n]))
        ELSE f[n - 1]]
Items(file) == {Item(file[n]) : n \in 1..Len(file)}

(* The function by which Load() is defined exists.                         *)
LEMMA LoadCourse ==
  ASSUME NEW S, NEW file \in Seq(S)
  PROVE  \E f \in [0..Len(file) -> Seq(Items(file))] :
           IsList(file, f) /\ Load(file) = f[Len(file)]
<1> DEFINE T == Seq(Items(file))
           g == [n \in 1..Len(file) |->
                  [l \in T |-> IF IsItem(file[n]) THEN Append(l, Item(file[n])) ELSE l]]
<1>1. Len(file) \in Nat /\ <<>> \in T
  OBVIOUS
<1>2. \A n \in 1..Len(file) : \A l \in T : Append(l, Item(file[n])) \in T
  <2>1. \A n \in 1..Len(file) : Item(file[n]) \in Items(file)
    BY DEF Items
  <2>2. QED
    BY <2>1
<1>3. g \in [1..Len(file) -> [T -> T]]
  <2> HIDE DEF T
  <2>1. QED
    BY <1>2
<1>4. PICK f \in [0..Len(file) -> T] : Course(f, <<>>, Len(file), g)
  <2> HIDE DEF g, T
  <2>1. QED
    BY <1>1, <1>3, CourseExists
<1>5. \A n \in 1..Len(file) : f[n - 1] \in T
  <2> HIDE DEF g, T
  <2>1. QED
    BY <1>1, <1>4
<1>6. \A n \in 1..Len(file) :
        g[n][f[n - 1]] = IF IsItem(file[n]) THEN Append(f[n - 1], Item(file[n])) ELSE f[n - 1]
  <2> HIDE DEF T
  <2>1. QED
    BY <1>5
<1>7. IsList(file, f)
  <2> HIDE DEF g, T
  <2>1. \A n \in 0..Len(file) : n # 0 => n \in 1..Len(file)
    BY <1>1
  <2>2. QED
    BY <1>4, <1>6, <2>1 DEF IsList, Course
<1>8. PICK e : e = CHOOSE h : IsList(file, h)
  OBVIOUS
<1>9. IsList(file, e)
  BY <1>7, <1>8
<1>10. Load(file) = e[Len(file)]
  BY <1>8 DEF Load, IsList
<1> DEFINE X == {n \in 0..Len(file) : e[n] = f[n]}
<1>11. 0 \in X
  BY <1>1, <1>7, <1>9 DEF IsList
<1>12. ASSUME NEW n \in 1..Len(file), n - 1 \in X PROVE n \in X
  <2>1. n \in 0..Len(file) /\ n # 0 /\ e[n - 1] = f[n - 1]
    BY <1>1, <1>12
  <2>2. QED
    BY <2>1, <1>7, <1>9 DEF IsList
<1>13. \A n \in 0..Len(file) : n \in X
  <2> HIDE DEF X
  <2>1. QED
    BY <1>1, <1>11, <1>12, BoundedInduction
<1>14. e[Len(file)] = f[Len(file)]
  BY <1>1, <1>13
<1>15. QED
  BY <1>4, <1>7, <1>10, <1>14

(* No item of a list has the name, or the first that has it is number k.   *)
NoneNamed(list, name) == \A x \in 1..Len(list) : ~Named(list[x], name)
FirstNamed(list, name, k) ==
  k \in 1..Len(list) /\ Named(list[k], name) /\ \A x \in 1..k - 1 : ~Named(list[x], name)

(* What is appended to a list changes nothing of what it says.             *)
LEMMA AppendNamed ==
  ASSUME NEW T, NEW list \in Seq(T), NEW item \in T, NEW name
  PROVE  /\ NoneNamed(list, name) /\ ~Named(item, name) => NoneNamed(Append(list, item), name)
         /\ NoneNamed(list, name) /\ Named(item, name) =>
              FirstNamed(Append(list, item), name, Len(list) + 1)
         /\ \A k : FirstNamed(list, name, k) => FirstNamed(Append(list, item), name, k)
<1> DEFINE longer == Append(list, item)
<1>1. /\ longer \in Seq(T) /\ Len(longer) = Len(list) + 1 /\ Len(list) \in Nat
      /\ longer[Len(list) + 1] = item
      /\ \A x \in 1..Len(list) : longer[x] = list[x]
  OBVIOUS
<1> HIDE DEF longer
<1>2. \A x \in 1..Len(longer) : x \in 1..Len(list) \/ x = Len(list) + 1
  BY <1>1
<1>3. ASSUME NoneNamed(list, name), ~Named(item, name) PROVE NoneNamed(longer, name)
  BY <1>1, <1>2, <1>3, Zenon DEF NoneNamed
<1>4. ASSUME NoneNamed(list, name), Named(item, name) PROVE FirstNamed(longer, name, Len(list) + 1)
  <2>1. Len(list) + 1 \in 1..Len(longer) /\ (Len(list) + 1) - 1 = Len(list)
    BY <1>1
  <2>2. \A x \in 1..Len(list) : ~Named(longer[x], name)
    BY <1>1, <1>4, Zenon DEF NoneNamed
  <2>3. QED
    BY <1>1, <1>4, <2>1, <2>2 DEF FirstNamed
<1>5. ASSUME NEW k, FirstNamed(list, name, k) PROVE FirstNamed(longer, name, k)
  <2>1. k \in 1..Len(list) /\ k \in 1..Len(longer) /\ \A x \in 1..k - 1 : x \in 1..Len(list)
    BY <1>1, <1>5 DEF FirstNamed
  <2>2. QED
    BY <1>1, <1>5, <2>1, Zenon DEF FirstNamed
<1>6. QED
  BY <1>3, <1>4, <1>5 DEF longer

(* What GetIntDefault() finds in a list.                                   *)
LEMMA FoundNone ==
  ASSUME NEW T, NEW list \in Seq(T), NEW name, NEW def, NoneNamed(list, name)
  PROVE  GetIntDefault(list, name, def) = def
<1>1. {x \in 1..Len(list) : SameName(list[x].ItemName, <<name>>)} = {}
  BY DEF NoneNamed, Named
<1>2. SelectInSeq(list, LAMBDA item : SameName(item.ItemName, <<name>>)) = 0
  BY <1>1 DEF SelectInSeq
<1>3. QED
  BY <1>2 DEF GetIntDefault

LEMMA FoundFirst ==
  ASSUME NEW T, NEW list \in Seq(T), NEW name, NEW def, NEW k, FirstNamed(list, name, k)
  PROVE  GetIntDefault(list, name, def) = atoi(list[k].ItemContent)
<1> DEFINE X == {x \in 1..Len(list) : SameName(list[x].ItemName, <<name>>)}
<1>1. k \in X /\ X \in SUBSET Int
  BY DEF FirstNamed, Named
<1>2. ASSUME NEW x \in X PROVE k <= x
  <2>1. x \in 1..Len(list) /\ Named(list[x], name)
    BY DEF Named
  <2>2. x \notin 1..k - 1 /\ k \in 1..Len(list)
    BY <2>1 DEF FirstNamed
  <2>3. QED
    BY <2>1, <2>2
<1> HIDE DEF X
<1>3. Min(X) = k /\ X # {}
  BY <1>1, <1>2, MinIs
<1>4. SelectInSeq(list, LAMBDA item : SameName(item.ItemName, <<name>>)) = k
  BY <1>3 DEF SelectInSeq, X
<1>5. k # 0
  BY DEF FirstNamed
<1>6. QED
  BY <1>4, <1>5 DEF GetIntDefault

(* A line that is passed over adds no item of the name; one that sets it   *)
(* adds one with the value.                                                *)
LEMMA SkipsRead ==
  ASSUME NEW S, NEW line \in Seq(S), NEW name, Skips(line, name), IsItem(line)
  PROVE  ~Named(Item(line), name)
<1>1. ~SaysNothing(line)
  BY NothingRead
<1>2. PICK m, v : Says(line, m, v) /\ ~SameName(m, <<name>>)
  BY <1>1 DEF Skips
<1>3. Item(line) = [ItemName |-> m, ItemContent |-> v]
  BY <1>2, SaysRead
<1>4. QED
  BY <1>2, <1>3 DEF Named

LEMMA SetsRead ==
  ASSUME NEW S, NEW line \in Seq(S), NEW name, NEW n, Sets(line, name, n)
  PROVE  IsItem(line) /\ Named(Item(line), name) /\ atoi(Item(line).ItemContent) = n
<1>1. PICK m, v : Says(line, m, v) /\ SameName(m, <<name>>) /\ n = atoi(v)
  BY DEF Sets
<1>2. IsItem(line) /\ Item(line) = [ItemName |-> m, ItemContent |-> v]
  BY <1>1, SaysRead
<1>3. QED
  BY <1>1, <1>2 DEF Named

(* While lines are passed over, the list has no item of the name.          *)
LEMMA SkipsList ==
  ASSUME NEW S, NEW file \in Seq(Seq(S)), NEW name, NEW N \in 0..Len(file),
         NEW f \in [0..Len(file) -> Seq(Items(file))], IsList(file, f),
         \A j \in 1..N : Skips(file[j], name)
  PROVE  NoneNamed(f[N], name)
<1> DEFINE X == {n \in 0..N : NoneNamed(f[n], name)}
<1>1. 0 \in X
  <2>1. f[0] = <<>>
    BY DEF IsList
  <2>2. NoneNamed(<<>>, name)
    BY DEF NoneNamed
  <2>3. QED
    BY <2>1, <2>2
<1>2. ASSUME NEW n \in 1..N, n - 1 \in X PROVE n \in X
  <2>1. n \in 1..Len(file) /\ n \in 0..Len(file) /\ n - 1 \in 0..Len(file) /\ n # 0 /\ n \in 0..N
    OBVIOUS
  <2>2. f[n] = IF IsItem(file[n]) THEN Append(f[n - 1], Item(file[n])) ELSE f[n - 1]
    BY <2>1 DEF IsList
  <2>3. /\ f[n - 1] \in Seq(Items(file)) /\ NoneNamed(f[n - 1], name)
        /\ file[n] \in Seq(S) /\ Item(file[n]) \in Items(file)
    <3>1. NoneNamed(f[n - 1], name)
      BY <1>2
    <3>2. Item(file[n]) \in Items(file)
      BY <2>1 DEF Items
    <3>3. f[n - 1] \in Seq(Items(file))
      BY <2>1, Zenon
    <3>4. file[n] \in Seq(S)
      BY <2>1, ElementOfSeq, Zenon
    <3>5. QED
      BY <3>1, <3>2, <3>3, <3>4
  <2>4. IsItem(file[n]) => ~Named(Item(file[n]), name)
    BY <2>3, SkipsRead
  <2>5. NoneNamed(f[n], name)
    BY <2>2, <2>3, <2>4, AppendNamed
  <2>6. QED
    BY <2>1, <2>5
<1>3. N \in Nat /\ N \in 0..N
  OBVIOUS
<1>4. \A n \in 0..N : n \in X
  <2> HIDE DEF X
  <2>1. QED
    BY <1>1, <1>2, <1>3, BoundedInduction
<1>5. QED
  BY <1>3, <1>4

(* A setting is read as the file means it.                                 *)
THEOREM ReadRight ==
  ASSUME NEW S, NEW file \in Seq(Seq(S)), NEW name, NEW def, NEW n, Meant(file, name, def, n)
  PROVE  GetIntDefault(Load(file), name, def) = n
<1>1. PICK f \in [0..Len(file) -> Seq(Items(file))] : IsList(file, f) /\ Load(file) = f[Len(file)]
  BY LoadCourse
<1>2. Len(file) \in Nat /\ Len(file) \in 0..Len(file) /\ Load(file) \in Seq(Items(file))
  BY <1>1
<1>3. CASE n = def /\ \A j \in 1..Len(file) : Skips(file[j], name)
  BY <1>1, <1>2, <1>3, SkipsList, FoundNone
<1>4. CASE \E i \in 1..Len(file) :
             Sets(file[i], name, n) /\ \A j \in 1..i - 1 : Skips(file[j], name)
  <2>1. PICK i \in 1..Len(file) :
               Sets(file[i], name, n) /\ \A j \in 1..i - 1 : Skips(file[j], name)
    BY <1>4
  <2>2. i \in 0..Len(file) /\ i - 1 \in 0..Len(file) /\ i # 0 /\ file[i] \in Seq(S)
    BY <1>2
  <2>3. NoneNamed(f[i - 1], name)
    BY <1>1, <2>1, <2>2, SkipsList
  <2>4. IsItem(file[i]) /\ Named(Item(file[i]), name) /\ atoi(Item(file[i]).ItemContent) = n
    BY <2>1, <2>2, SetsRead
  <2>5. f[i] = Append(f[i - 1], Item(file[i]))
    BY <1>1, <2>2, <2>4 DEF IsList
  <2>6. f[i - 1] \in Seq(Items(file)) /\ Item(file[i]) \in Items(file)
    BY <2>2 DEF Items
  <2>7. PICK k : k = Len(f[i - 1]) + 1
    OBVIOUS
  <2> DEFINE Kept(l) == FirstNamed(l, name, k) /\ l[k] = Item(file[i])
  <2>8. Kept(f[i])
    BY <2>3, <2>4, <2>5, <2>6, <2>7, AppendNamed
  <2> DEFINE X == {j \in 0..Len(file) : j >= i => Kept(f[j])}
  <2>9. 0 \in X
    BY <1>2
  <2>10. ASSUME NEW j \in 1..Len(file), j - 1 \in X PROVE j \in X
    <3>1. SUFFICES ASSUME j > i PROVE Kept(f[j])
      <4> HIDE DEF Kept
      <4>1. j \in 0..Len(file) /\ i \in Int /\ j \in Int
        OBVIOUS
      <4>2. QED
        BY <2>8, <3>1, <4>1
    <3>2. j \in 0..Len(file) /\ j - 1 \in 0..Len(file) /\ j # 0 /\ j - 1 >= i
      BY <3>1
    <3>3. Kept(f[j - 1]) /\ f[j - 1] \in Seq(Items(file)) /\ Item(file[j]) \in Items(file)
      BY <2>10, <3>2 DEF Items
    <3>4. f[j] = IF IsItem(file[j]) THEN Append(f[j - 1], Item(file[j])) ELSE f[j - 1]
      BY <1>1, <3>2 DEF IsList
    <3>5. Kept(Append(f[j - 1], Item(file[j])))
      <4>1. FirstNamed(Append(f[j - 1], Item(file[j])), name, k)
        BY <3>3, AppendNamed
      <4>2. k \in 1..Len(f[j - 1])
        BY <3>3 DEF FirstNamed
      <4>3. Append(f[j - 1], Item(file[j]))[k] = f[j - 1][k]
        BY <3>3, <4>2
      <4>4. QED
        BY <3>3, <4>1, <4>3
    <3> HIDE DEF Kept
    <3>6. QED
      BY <3>3, <3>4, <3>5
  <2>11. \A j \in 0..Len(file) : j \in X
    <3> HIDE DEF X
    <3>1. QED
      BY <1>2, <2>9, <2>10, BoundedInduction
  <2>12. Kept(Load(file))
    <3> HIDE DEF Kept
    <3>1. Len(file) >= i
      BY <1>2
    <3>2. QED
      BY <1>1, <1>2, <2>11, <3>1
  <2>13. QED
    BY <1>2, <2>4, <2>12, FoundFirst
<1>5. QED
  BY <1>3, <1>4 DEF Meant

-----------------------------------------------------------------------------
(* Every file asks for the workers and for the daemon that its settings    *)
(* say, by the lines in it and not by what Load() makes of them.           *)
AsWritten ==
  \A s \in Settings : s.text # NoFile =>
    /\ s.text \in Seq(Seq(STRING))
    /\ Meant(s.text, "WorkerProcesses", 1, s.workers)
    /\ \E n : Meant(s.text, "Daemon", 0, n) /\ (s.daemon <=> n = 1)

(* However the lines are laid out, and whatever else happens to the        *)
(* processes meanwhile, the program starts the workers that its file asks  *)
(* for, from a daemon if and only if the file asks for one.                *)
THEOREM StartsAsConfigured == AsWritten => (Spec => []AsConfigured)
<1>1. Init => ConfInv
  BY DEF Init, ConfInv, MainPlaces, MasterPlaces
<1>2. Inv /\ Inv' /\ ConfInv /\ [Next]_vars => ConfInv'
  BY ConfStep DEF Inv
<1>3. ASSUME AsWritten, Inv, ConfInv PROVE AsConfigured
  <2>1. conf \in Settings
    BY <1>3 DEF Inv, TypeOK
  <2>2. ASSUME NEW p \in Pids, pc[p] \in MasterPlaces
        PROVE  /\ p # Launcher <=> conf.daemon
               /\ pc[p] \in {"suspend", "sleep"} => inum = conf.workers
    <3>1. conf.text # NoFile /\ items = Load(conf.text)
      BY <1>3, <2>2 DEF ConfInv
    <3>2. /\ p # Launcher <=> Daemon
          /\ pc[p] \in {"suspend", "sleep"} => inum = WorkProcess
      BY <1>3, <2>2 DEF ConfInv
    <3>3. (conf.daemon <=> Daemon) /\ conf.workers = WorkProcess
      <4>1. conf.text \in Seq(Seq(STRING)) /\ Meant(conf.text, "WorkerProcesses", 1, conf.workers)
        BY <1>3, <2>1, <3>1 DEF AsWritten
      <4>2. PICK n : Meant(conf.text, "Daemon", 0, n) /\ (conf.daemon <=> n = 1)
        BY <1>3, <2>1, <3>1 DEF AsWritten
      <4>3. GetIntDefault(Load(conf.text), "Daemon", 0) = n
        BY <4>1, <4>2, ReadRight
      <4>4. conf.workers = WorkProcess
        BY <3>1, <4>1, ReadRight DEF WorkProcess
      <4>5. QED
        BY <3>1, <4>2, <4>3, <4>4 DEF Daemon
    <3>4. QED
      BY <3>2, <3>3
  <2>3. QED
    BY <2>2 DEF AsConfigured, MasterPlaces
<1>4. Spec => []ConfInv
  BY <1>1, <1>2, MasterInvariant, PTL DEF Spec
<1>5. SUFFICES ASSUME AsWritten PROVE Spec => []AsConfigured
  OBVIOUS
<1>6. Inv /\ ConfInv => AsConfigured
  BY <1>3, <1>5
<1>7. QED
  BY <1>4, <1>6, MasterInvariant, PTL

=============================================================================
