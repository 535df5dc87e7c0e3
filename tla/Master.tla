------------------------------- MODULE Master -------------------------------
(***************************************************************************)
(* The processes of the server: main() reads the configuration, installs   *)
(* the signal handlers and may become a daemon; the master blocks the      *)
(* signals, forks the workers and lives in sigsuspend() from then on;      *)
(* every process runs the same handler, which logs and, on SIGCHLD,        *)
(* collects the children that have ended.                                  *)
(* (app/nginx.cxx, proc/ngx_process_cycle.cxx, proc/ngx_daemon.cxx,        *)
(* signal/ngx_signal.cxx; Config has the configuration file.)              *)
(*                                                                         *)
(* A handler runs in the main thread, as the kernel prefers.  A signal     *)
(* before init_signals() ends the program as it ends any other, and a      *)
(* master that is killed leaves its workers alone: neither is modelled.    *)
(***************************************************************************)
EXTENDS Config, FiniteSets

CONSTANTS
  Pids, Launcher,  \* process numbers, and the one that main() starts in
  Outside,         \* the parent of a process that is none of Pids
  NoFile,          \* in place of the lines: there is no nginx.conf
  Settings,        \* [text, workers, daemon]: the lines of a file and what
                   \* its author means by them
  Others,          \* the signals that others may send
  MaxSent          \* bound on the signals sent

CHLD == "SIGCHLD"
Signals == {CHLD, "SIGHUP", "SIGINT", "SIGTERM", "SIGQUIT", "SIGIO"}

ASSUME MasterAssumption ==
  /\ Launcher \in Pids /\ Outside \notin Pids
  /\ Others \subseteq Signals /\ MaxSent \in Nat

VARIABLES
  conf,      \* the setting the program is started with
  items,     \* m_ConfigItemList, which the children inherit
  pc,        \* where the main thread of each process is
  parent,    \* of each process
  role,      \* ngx_process
  blocked,   \* the mask of ngx_master_process_cycle() is in force
  pending,   \* the signals that wait for each process
  stack,     \* the handlers it is in, the one that runs last
  inum,      \* the workers the master has tried to start
  sent       \* signals sent so far

vars == <<conf, items, pc, parent, role, blocked, pending, stack, inum, sent>>

Init ==
  /\ conf \in Settings /\ items = <<>> /\ inum = 0 /\ sent = 0
  /\ pc = [p \in Pids |-> IF p = Launcher THEN "load" ELSE "none"]
  /\ parent = [p \in Pids |-> Outside] /\ role = [p \in Pids |-> "MASTER"]
  /\ blocked = [p \in Pids |-> FALSE] /\ pending = [p \in Pids |-> {}]
  /\ stack = [p \in Pids |-> <<>>]

Alive(p) == p \in Pids /\ pc[p] \notin {"none", "zombie", "gone"}

-----------------------------------------------------------------------------
(* fork(2), exit(3) and pause of the main thread while a handler runs.     *)

At(p, l) == pc[p] = l /\ stack[p] = <<>>
Goto(p, l) == pc' = [pc EXCEPT ![p] = l]
Step(p, from, to) == At(p, from) /\ Goto(p, to)

(* The child starts at l, with no pending signal; it has its parent's      *)
(* mask, handlers and memory.                                              *)
Fork(p, to, q, l) ==
  /\ pc[q] = "none"
  /\ pc' = [pc EXCEPT ![p] = to, ![q] = l]
  /\ parent' = [parent EXCEPT ![q] = p]
  /\ role' = [role EXCEPT ![q] = role[p]]
  /\ blocked' = [blocked EXCEPT ![q] = blocked[p]]

(* The parent gets SIGCHLD and keeps the status; who has no parent left is *)
(* init's, and so are the children it leaves.                              *)
Exit(p) ==
  /\ pc' = [q \in Pids |->
       CASE q = p -> IF Alive(parent[p]) THEN "zombie" ELSE "gone"
         [] q # p /\ parent[q] = p /\ pc[q] = "zombie" -> "gone"
         [] OTHER -> pc[q]]
  /\ parent' = [q \in Pids |-> IF parent[q] = p THEN Outside ELSE parent[q]]
  /\ pending' = [q \in Pids |->
       CASE q = p -> {}
         [] q # p /\ q = parent[p] /\ Alive(q) -> pending[q] \cup {CHLD}
         [] OTHER -> pending[q]]
  /\ stack' = [stack EXCEPT ![p] = <<>>]
  /\ UNCHANGED <<conf, items, role, blocked, inum, sent>>

-----------------------------------------------------------------------------
(* main().                                                                 *)

LoadConfig(p) ==
  /\ conf.text # NoFile /\ Step(p, "load", "signals") /\ items' = Load(conf.text)
  /\ UNCHANGED <<conf, parent, role, blocked, pending, stack, inum, sent>>

InitSignals(p) ==
  /\ Step(p, "signals", "listen")
  /\ UNCHANGED <<conf, items, parent, role, blocked, pending, stack, inum, sent>>

(* g_socket.Initialize().                                                  *)
Listen(p) ==
  /\ Step(p, "listen", IF GetIntDefault(items, "Daemon", 0) = 1 THEN "daemon" ELSE "mask")
  /\ UNCHANGED <<conf, items, parent, role, blocked, pending, stack, inum, sent>>

(* ngx_daemon(): the child goes on, the parent returns from main().        *)
Daemonize(p) ==
  /\ At(p, "daemon") /\ \E q \in Pids : Fork(p, "leave", q, "session")
  /\ UNCHANGED <<conf, items, pending, stack, inum, sent>>

Session(p) ==
  /\ Step(p, "session", "mask")
  /\ UNCHANGED <<conf, items, parent, role, blocked, pending, stack, inum, sent>>

(* No file, no handlers, no socket, no fork, no session: goto lblexit.     *)
Fails(p) ==
  \/ At(p, "load") /\ conf.text = NoFile
  \/ \E l \in {"signals", "listen", "daemon", "session"} : At(p, l)
LeaveMain(p) == (Fails(p) \/ At(p, "leave")) /\ Exit(p)

-----------------------------------------------------------------------------
(* ngx_master_process_cycle().                                             *)

(* Mutant: the signals are not blocked.                                    *)
MaskNothing(p) ==
  /\ Step(p, "mask", "spawn")
  /\ UNCHANGED <<conf, items, parent, role, blocked, pending, stack, inum, sent>>

Mask(p) ==
  /\ Step(p, "mask", "spawn") /\ blocked' = [blocked EXCEPT ![p] = TRUE]
  /\ UNCHANGED <<conf, items, parent, role, pending, stack, inum, sent>>

WorkProcess == GetIntDefault(items, "WorkerProcesses", 1)

(* A failing fork() is logged and forgotten.                               *)
SpawnUpTo(p, threadnums) ==
  /\ At(p, "spawn") /\ inum < threadnums /\ inum' = inum + 1
  /\ \/ \E q \in Pids : Fork(p, "spawn", q, "forked")
     \/ UNCHANGED <<pc, parent, role, blocked>>
  /\ UNCHANGED <<conf, items, pending, stack, sent>>

(* Mutant: <= for <.                                                       *)
SpawnOneMore(p) == SpawnUpTo(p, WorkProcess + 1)

Spawn(p) == SpawnUpTo(p, WorkProcess)

Suspend(p) ==
  /\ \/ Step(p, "spawn", "suspend") /\ inum >= WorkProcess
     \/ Step(p, "sleep", "suspend")
  /\ UNCHANGED <<conf, items, parent, role, blocked, pending, stack, inum, sent>>

-----------------------------------------------------------------------------
(* ngx_worker_process_cycle() and ngx_worker_process_init().               *)

BecomeWorker(p) ==
  /\ Step(p, "forked", "unmask") /\ role' = [role EXCEPT ![p] = "WORKER"]
  /\ UNCHANGED <<conf, items, parent, blocked, pending, stack, inum, sent>>

Unmask(p) ==
  /\ Step(p, "unmask", "pool") /\ blocked' = [blocked EXCEPT ![p] = FALSE]
  /\ UNCHANGED <<conf, items, parent, role, pending, stack, inum, sent>>

(* Thread pool, connections and their threads, epoll; then the endless     *)
(* loop, which logs now and then.                                          *)
WorkerStep(p) ==
  /\ \/ Step(p, "pool", "subproc") \/ Step(p, "subproc", "epoll") \/ Step(p, "epoll", "serve")
     \/ Step(p, "serve", "report") \/ Step(p, "report", "serve")
  /\ UNCHANGED <<conf, items, parent, role, blocked, pending, stack, inum, sent>>

(* Mutant: a step of the set-up that fails only returns.                   *)
InitReturns(p) ==
  /\ \E l \in {"pool", "subproc", "epoll"} : Step(p, l, "spawn")
  /\ UNCHANGED <<conf, items, parent, role, blocked, pending, stack, inum, sent>>

InitFails(p) == (\E l \in {"pool", "subproc", "epoll"} : At(p, l)) /\ Exit(p)

(* A worker is killed, by a signal without a handler (SIGPIPE of           *)
(* SendQueue, for one) or from outside.                                    *)
Killed(p) == role[p] = "WORKER" /\ Alive(p) /\ Exit(p)

-----------------------------------------------------------------------------
(* Signals.  The mask holds outside sigsuspend(); a signal is blocked      *)
(* while its own handler runs.                                             *)

Send(p, s) ==
  /\ sent < MaxSent /\ s \in Others /\ Alive(p) /\ pc[p] \notin {"load", "signals"}
  /\ sent' = sent + 1 /\ pending' = [pending EXCEPT ![p] = @ \cup {s}]
  /\ UNCHANGED <<conf, items, pc, parent, role, blocked, stack, inum>>

Open(p, s) ==
  /\ Alive(p) /\ (blocked[p] => pc[p] = "suspend")
  /\ \A i \in DOMAIN stack[p] : stack[p][i].sig # s

(* A frame: the signal, where its handler is, whether it is in the C       *)
(* library's localtime_r(), and whether it has collected a child (one).    *)
Deliver(p, s) ==
  /\ s \in pending[p] /\ Open(p, s)
  /\ pending' = [pending EXCEPT ![p] = @ \ {s}]
  /\ stack' = [stack EXCEPT ![p] =
       Append(@, [sig |-> s, at |-> "log", busy |-> FALSE, one |-> FALSE])]
  /\ UNCHANGED <<conf, items, pc, parent, role, blocked, inum, sent>>

Top(p) == stack[p][Len(stack[p])]
Becomes(p, at, busy, one) ==
  stack' = [stack EXCEPT ![p][Len(stack[p])] =
    [sig |-> Top(p).sig, at |-> at, busy |-> busy, one |-> one]]

(* localtime_r() locks the time zone; what was interrupted in it keeps the *)
(* lock.  A worker's own log lines are "report".                           *)
ZoneLocked(p) ==
  \/ pc[p] = "report"
  \/ \E i \in DOMAIN stack[p] : stack[p][i].busy

LogLock(p) ==
  /\ stack[p] # <<>> /\ ~Top(p).busy /\ Top(p).at \in {"log", "status", "failed"}
  /\ ~ZoneLocked(p)
  /\ Becomes(p, Top(p).at, TRUE, Top(p).one)
  /\ UNCHANGED <<conf, items, pc, parent, role, blocked, pending, inum, sent>>

LogUnlock(p) ==
  /\ stack[p] # <<>> /\ Top(p).busy
  /\ Becomes(p, IF Top(p).at = "status" \/ (Top(p).at = "log" /\ Top(p).sig = CHLD)
                THEN "wait" ELSE "return", FALSE, Top(p).one)
  /\ UNCHANGED <<conf, items, pc, parent, role, blocked, pending, inum, sent>>

(* ngx_process_get_status(): waitpid(-1, WNOHANG) until nothing is left.   *)
Children(p) == {q \in Pids : parent[q] = p /\ pc[q] \notin {"none", "gone"}}

CollectWith(p, next) ==
  /\ stack[p] # <<>> /\ Top(p).at = "wait"
  /\ \E q \in Children(p) : pc[q] = "zombie" /\ Goto(q, "gone")
  /\ Becomes(p, next, FALSE, TRUE)
  /\ UNCHANGED <<conf, items, parent, role, blocked, pending, inum, sent>>

(* Mutant: one waitpid() for each signal.                                  *)
CollectOne(p) == CollectWith(p, "return")

Collect(p) == CollectWith(p, "status")

NoneLeft(p) ==
  /\ stack[p] # <<>> /\ Top(p).at = "wait"
  /\ \A q \in Children(p) : pc[q] # "zombie"
  /\ Becomes(p, IF Children(p) = {} /\ ~Top(p).one THEN "failed" ELSE "return",
             FALSE, Top(p).one)
  /\ UNCHANGED <<conf, items, pc, parent, role, blocked, pending, inum, sent>>

(* sigsuspend() returns with the last handler.                             *)
Return(p) ==
  /\ stack[p] # <<>> /\ Top(p).at = "return"
  /\ stack' = [stack EXCEPT ![p] = SubSeq(@, 1, Len(@) - 1)]
  /\ pc' = [pc EXCEPT ![p] = IF @ = "suspend" /\ Len(stack[p]) = 1 THEN "sleep" ELSE @]
  /\ UNCHANGED <<conf, items, parent, role, blocked, pending, inum, sent>>

-----------------------------------------------------------------------------
HandlerStep(p) ==
  \/ \E s \in Signals : Deliver(p, s)
  \/ LogLock(p) \/ LogUnlock(p) \/ Collect(p) \/ NoneLeft(p) \/ Return(p)
MainStep(p) ==
  \/ LoadConfig(p) \/ InitSignals(p) \/ Listen(p) \/ Daemonize(p) \/ Session(p)
  \/ LeaveMain(p) \/ Mask(p) \/ Spawn(p) \/ Suspend(p)
  \/ BecomeWorker(p) \/ Unmask(p) \/ WorkerStep(p) \/ InitFails(p)

Next == \E p \in Pids :
  HandlerStep(p) \/ MainStep(p) \/ Killed(p) \/ \E s \in Signals : Send(p, s)

Spec == Init /\ [][Next]_vars

(* Every process is scheduled.                                             *)
FairSpec == Spec /\ \A p \in Pids : WF_vars(HandlerStep(p) \/ MainStep(p))

-----------------------------------------------------------------------------
(* Properties.                                                             *)

MainPlaces == {"load", "signals", "listen", "daemon", "session", "leave", "mask"}
MasterPlaces == {"spawn", "suspend", "sleep"}
WorkerPlaces == {"forked", "unmask", "pool", "subproc", "epoll", "serve", "report"}

Frames == [sig : Signals, at : {"log", "status", "failed", "wait", "return"},
           busy : BOOLEAN, one : BOOLEAN]

(* Types; no more workers are started than the program read.               *)
TypeOK ==
  /\ conf \in Settings
  /\ pc \in [Pids -> MainPlaces \cup MasterPlaces \cup WorkerPlaces
                     \cup {"none", "zombie", "gone"}]
  /\ parent \in [Pids -> Pids \cup {Outside}]
  /\ role \in [Pids -> {"MASTER", "WORKER"}] /\ blocked \in [Pids -> BOOLEAN]
  /\ pending \in [Pids -> SUBSET Signals] /\ stack \in [Pids -> Seq(Frames)]
  /\ inum \in Nat /\ (inum > 0 => inum <= WorkProcess)
  /\ sent \in 0..MaxSent

(* While a child's status waits to be collected, its parent has a SIGCHLD  *)
(* pending or is in a handler that will still call waitpid(): however many *)
(* children end at once, and signals of one kind are not counted.          *)
Watching(p) ==
  \/ CHLD \in pending[p]
  \/ \E i \in DOMAIN stack[p] :
       stack[p][i].sig = CHLD /\ stack[p][i].at \in {"log", "wait", "status"}
ZombieWatched == \A q \in Pids : pc[q] = "zombie" => Watching(parent[q])

(* There is one master, it does not become a worker's child, and no worker *)
(* starts processes of its own.                                            *)
OneMaster ==
  /\ Cardinality({p \in Pids : pc[p] \in MasterPlaces}) <= 1
  /\ \A p \in Pids : pc[p] \in WorkerPlaces =>
       pc[parent[p]] \in MasterPlaces /\ role[parent[p]] = "MASTER"

(* No handler runs in a process that the master has forked before it knows *)
(* that it is a worker.                                                    *)
KnowsItsRole ==
  \A p \in Pids : stack[p] # <<>> /\ pc[p] \notin MainPlaces \cup MasterPlaces =>
    role[p] = "WORKER"

(* The comments of nginx.conf: however an item is laid out, the master     *)
(* starts as many workers as the file says, as a daemon if it says so.     *)
AsConfigured ==
  \A p \in Pids :
    /\ pc[p] \in MasterPlaces => (p # Launcher <=> conf.daemon)
    /\ pc[p] \in {"suspend", "sleep"} => inum = conf.workers

(* README: the parent collects the resources of its children.  As many end *)
(* as there are Pids: again and again all that have ended are collected,   *)
(* but for those of a parent one of whose handlers has interrupted another *)
(* in localtime_r() and wants to write a log line itself: it waits for its *)
(* own lock for ever.  Nothing else leaves a child uncollected.            *)
WaitsForItself(p) ==
  /\ stack[p] # <<>> /\ ~Top(p).busy /\ Top(p).at \in {"log", "status", "failed"}
  /\ \E i \in DOMAIN stack[p] : stack[p][i].busy
CollectedUnlessStuck ==
  []<>(\A q \in Pids : pc[q] = "zombie" => WaitsForItself(parent[q]))

=============================================================================
