# A TLA+ model of simple_high_performance_server

The server is a small epoll server in C++: a master process, worker processes, and in
each worker one epoll thread, a pool of logic threads, a send thread, a recycle thread
and a timer thread that share connection objects under a handful of mutexes and
atomics. This directory models the places where those processes and threads meet,
checks them with TLC and proves the main results with TLAPS. Paths below are relative
to `src/server/`; the repository's own description is `src/README.md`.

## 1. The system

### Threads of a worker process

| Name | Code | What it does |
| --- | --- | --- |
| E | `ngx_epoll_process_events`, called for ever by `ngx_worker_process_cycle` | accepts, reads, cuts packages, finishes pending writes, closes |
| W | `CThreadPool::ThreadFunc`, as many as configured | runs `threadRecvProcFunc` on each message; replies with `msgSend`, which may close |
| S | `CSocekt::ServerSendQueueThread` | takes packages off the send queue and sends them |
| R | `CSocekt::ServerRecyConnectionThread`, every 200 ms | returns closed connection objects to the pool after a delay |
| T | `CSocekt::ServerTimerQueueMonitorThread`, every 500 ms | checks heartbeats; closes silent clients |

### Components: state, operations, what makes them correct

**Connection pool** (`net/ngx_c_socket_conn.cxx`, `net/ngx_c_socket_accept.cxx`).
State: all objects, the free list, the recycle list and its counter, the user count,
and in each object `fd`, `iCurrsequence` and `inRecyTime`. Operations: get, free, close
after a failed registration, park (`inRecyConnectQueue`), the pass of R, and
`ngx_event_accept` with its two refusals. Everything that refers to a connection (an
epoll event, a message, a package, a timer) holds a bare pointer; messages, packages
and timers also hold the sequence number of the moment they were made, and are ignored
when it has moved on. Correct if: an object is in one place; none is lost; counters
match lists; the pool is bounded; nobody serves a client with an object that belongs to
another one ("crosstalk").

**Receiving** (`net/ngx_c_socket_request.cxx`, `TestFlood`). State per connection: the
parser's state, what it still wants, the header so far, the block being filled, the
flood count. Correct if: whatever way `recv()` cuts the stream, the logic threads get
exactly the legal packages, in order; blocks have one owner; the flood count concerns
this client's packages in a row; nothing of a former client is left in a reused object.

**Logic thread pool** (`misc/ngx_c_threadpool.cxx`). State: the message queue, two
counters, a mutex, a condition variable. Correct if: each message is started once, in
order, and finished; no wakeup is lost although the signal comes after the unlock; no
`front()` of an empty queue; the counters are exact; `StopAll()` returns.

**Sending** (`net/ngx_c_socket.cxx`, `ngx_write_request_handler`). State: the send
queue, a semaphore, the queue's mutex, and per connection `iThrowsendCount` (a package is
pending), `iSendCount` (its packages on the queue), `psendMemPointer`, `isendlen` and
the EPOLLOUT registration. S sends; what the socket does not take, E finishes. Correct
if: a package's memory has one owner; the client reads whole packages; the backlog
count is exact; a pending package is always driven by someone; what is queued is sent.

**Heartbeat timers and closing** (`net/ngx_c_socket_time.cxx`, `zdClosesocketProc`,
`procPingTimeOutChecking`). State: a multimap from time to connection, its size and its
earliest time, which T reads without the lock; `lastPingTime`; the descriptor table of
the process. Correct if: every connected client has exactly one timer, T's unlocked
reads are not stale, a silent client is closed within a known time, no descriptor
leaks, and closing one connection twice does not hurt another.

**Dispatch and handlers** (`logic/ngx_c_slogic.cxx`, `misc/ngx_c_lockmutex.h`).
State: every mutex a worker's threads take, the message each logic thread has, what
`msgSend` counts. Operations: `threadRecvProcFunc` with its tests (checksum, sequence
number, table of handlers), ping, register and log in under the client's
`logicPorcMutex`, the reply. Correct if: no threads wait for one another; a handled
message is answered once, unless `msgSend` drops the reply; nothing damaged is handled
and nothing sound refused; a message overtakes only a few others.

**CRC32** (`misc/ngx_c_crc32.cxx`). A table and a loop over it. Correct if it computes
the checksum that CRC-32 is defined to be.

**Process layer** (`app/nginx.cxx`, `proc/`, `signal/`). State of each process: where
its main thread is, its parent, its role in `ngx_process`, its signal mask, pending
signals, and the handlers it is in. Operations: start, daemon, fork of the workers,
`sigsuspend`, the handler with its log line and its `waitpid` loop. Correct if: there is
one master; a worker knows that it is one before a handler runs in it; as many workers
start as configured; every child that ends is collected.

**Configuration** (`app/ngx_c_conf.cxx`, `app/ngx_string.cxx`): lines of text to items,
items to numbers. **Listening sockets, epoll set-up, statistics, logging, formatting,
process title, memory wrapper**: set-up and output.

### How the components meet

The master reads the configuration and forks; workers inherit it. In a worker, E calls
the thread pool with complete messages; W's handlers call `msgSend`; S and E share the
write state of a connection; E, W and T call `zdClosesocketProc`, which removes the
timers, closes the socket, lowers `iThrowsendCount` and parks the object; R frees it
later and E's next accept takes it again. Locks are nested in the order logicPorcMutex,
send queue, then timer queue or recycle list, then connection list.

The behaviours that are hard to test are listed under "hazards" in `PROJECT.json`, each
at its line with the properties that cover it, or the reason why none does.

## 2. Modules

| Module | Models | Runs |
| --- | --- | --- |
| `ConnPool`, `ConnPoolProofs` | connection objects from accept to reuse, all threads that hold one | `conn_pool` |
| `SendQueue`, `SendQueueProofs` | msgSend, S, the write handler, three closing threads against all of them | `send_queue`, `send_pipe`, `double_free`, `send_framing` |
| `ThreadPool`, `ThreadPoolProofs` | mutex, condition variable, queue, workers | `thread_pool` |
| `WorkPool` | what a pool of workers promises (abstract) | refined by `ThreadPool` |
| `TimerQueue`, `TimerQueueProofs` | timers, T, the descriptor table, closing step by step, S's use of a descriptor | `timer_queue`, `double_close`, `stale_send` |
| `RecvPacket`, `RecvPacketProofs` | the receive state machine and the flood test | `recv_packet` |
| `Dispatch`, `DispatchProofs` | from a message to its reply, with every mutex of a worker | `dispatch` |
| `Crc32` | the checksum, and CRC-32 as it is defined | with `dispatch`, proved in `DispatchProofs` |
| `Master`, `MasterProofs` | main(), daemon, fork, signals, reaping | `master` |
| `Config` | the configuration file | with `master`, proved in `MasterProofs` |
| `NatInduction` | induction and recursive functions over the naturals, for the proofs | - |
| `MC...` | instances for TLC | |

Every variable's comment names the member or local it stands for, every action the
function or lines; `PROJECT.json` "map" has the line numbers. A variable marked
*history* or *environment* is not in the program: it records what a property needs, or
stands for the kernel and the clients. Operators whose comment begins with "Mutant" are
plausible mistakes in the code; no specification uses them, and each property is shown
to fail when one replaces the definition it was made from.

### ConnPool

One step is what a thread does between two points where another thread matters: accept
is refuse-or-get-or-create, epoll ADD, timer, user count; closing is "socket and timers"
and then "park", which waits while R holds the list's mutex; R is wake, lock, erase,
put, unlock. `refs` holds the (pointer, sequence number) pairs in queued messages, in
timers and, as `"due"`, in the list of the timers that T has collected: closing a
connection takes back its timer but not that, so the check of the number may come after
the object has gone to another client. `batch` holds the pointers of one `epoll_wait`,
which have no sequence number at all. `owner` (history) says which client an object was
last given to, and a message or event remembers the client whose bytes or socket it came
from. The lists are sets, so the free list may hand out any object, its FIFO order
included.

Time matters here: the code is safe because R waits `m_RecyConnectionWaitTime`
(150 s in `nginx.conf`). `MaxHold` bounds the time a thread uses one batch of events or
one connection, `MaxQueue` the time a message waits for a logic thread; `Tick` does not
let the clock pass a deadline while someone is inside it. These two are assumptions
about speed that the code does not enforce.

### SendQueue

`iThrowsendCount` is changed by S, by E and by three closing threads in separate atomic
steps, and so it is here: send, then count and arm, or free, clear and set to 0, in S;
write, disarm, free, clear, count, post in E; close, test, count, park in a closer,
which is E on an event, W inside `msgSend` with the queue's mutex held, or T. A
connection serves one client (its reuse is ConnPool's subject) and a package is out of
date when its connection is parked. The end of a package is three statements that share
no lock with the other thread's, and three steps here: release the memory of
`psendMemPointer`, clear the pointer, change the count. `freed` (history) has the
packages whose memory was released, `twice` those for which it was released again. The
kernel is a send buffer of `Room` units, level-triggered readiness, and a client that
reads, sends, closes its sending side or resets; `Leavers` are the clients that may
leave or time out. The first `recv()` or `send()` after a reset is told of it, and a
`send()` after that raises SIGPIPE, which nobody handles: the action `SigPipe` ends the
process, and `pcE = "dead"` says so. With `UnreadAtClose = FALSE` a client does not
close while data it sent is unread. That is the normal protocol (a request, a reply, a
close); the other case is the run `send_framing`.

### ThreadPool and WorkPool

The condition variable is the set of waiting threads; `pthread_cond_wait` gives up the
mutex and joins it in one step, may return spuriously, and a signal takes one member
out. Creating the threads, `StopAll` and the destructor are there too, although the
server's endless loop never reaches the latter. `WorkPool` knows only how many messages
were posted and started, what each worker serves and what is finished; `ThreadPool`
implements it with `started <- taken`, `serving <- job`, `finished <- done`.

### TimerQueue

The multimap is a sequence in key order with insertion behind equal keys. T's look at
the earliest time, its collection of due timers (with re-insertion unless
`m_ifTimeOutKick`), and its check of each of them are separate steps; between them E
and W may close connections. The two unlocked reads are one step. Closing goes down to
test, load of `fd`, `close()`, store of -1, because the descriptor table gives the
lowest free number to the next accept. S has `p_Conn` and the descriptor it has loaded
for `send()`; it takes a connection only while W is not closing, since W closes with the
send queue's mutex held and S uses that mutex. `Grace` is the literal 10 of
`procPingTimeOutChecking`. Seconds pass only when T has looked in this one.

### RecvPacket

A byte is (package, place), so a byte in the wrong package cannot go unnoticed. The
body of the read handler is one step per `recv()`; no other thread touches the parser.
Other threads may close the connection between any two steps, and the object may then
be reused. Clients announce legal and illegal lengths; after an illegal one they send no
body (see section 6). `Framing` compares what reached the pool with what was sent by the
numbers of the packages: whole, in increasing order, no legal one skipped.

### Dispatch, Crc32

A worker's step ends where it asks for a mutex or gives one up. A mutex under which
nothing else is locked is taken and released in one step, which still waits for an
owner; `holder` has those that are kept while others are asked for. The receive queue is
only its order here, as the pool's own lock and wakeups are ThreadPool's. A message is a
`Kind` whose `Packet` says whose it is, its code, and body and checksum as sent and as
arrived, as bytes; `Crc32` has the table as the code builds it (`Reflect` included) and,
beside it, the remainder of the division of polynomials over GF(2) that defines CRC-32.
A word is the set of its 1 bits.

### Master, Config

A process is its main thread and the stack of handlers that interrupt it; a signal is
pending at most once. The handlers of different signals do not mask each other, as
`sa_mask` is empty. A handler's log line calls `localtime_r`, which takes a lock of the
C library: `busy` marks a frame that is inside it. A child is forked with the mask, the
pending set empty and its parent's items. The start of a worker may fail at each place
where the code exits. `Config` reads lines of characters as `Load`, `Ltrim`, `Rtrim` and
`GetIntDefault` do, oddities included (an item stands at its first occurrence, names
compare without case).

## 3. What the runs show

| Run | Instance and bounds | Result |
| --- | --- | --- |
| `conn_pool` | 1 listener, 3 client objects, 1 user at a time, surge factor 2, delay 1, hold 0, first timeout may close, 3 arrivals, clock to 1 | 739,654 states; all hold, every parked object is freed |
| `send_queue` | 2 packages of 3 units for one client, 1 for another, buffer of 1, queue limit 1, backlog limit 0 | 3,465,067 states; all hold |
| `send_pipe` | 3 packages, one client that may reset | violation: E's `recv()` is told of a reset, and a `send()` of S before E's `close()` ends the worker |
| `double_free` | 2 packages of 2 units, one client that is timed out | violation: S and E free one package twice |
| `send_framing` | 3 packages, one client, half-close with unread data | violation: a package starts in the middle of another |
| `thread_pool` | 3 workers, 3 messages, spurious wakeups, `StopAll` | 15,558 states; all hold, `WorkPool` is implemented |
| `timer_queue` | 2 clients, 2 descriptors, 3 closing threads and S, interval 1, clock to 6 | 3,108,299 states; all hold |
| `double_close` | the same | violation: a second `close()` takes another client's socket |
| `stale_send` | the same | violation: a package goes to another client's socket |
| `recv_packet` | header 2, lengths 1, 2, 4, 5 (2 to 4 legal), 4 packages, 2 clients, flood limit 2 | 290,600 states; all hold, every package is delivered |
| `dispatch` | 2 workers, 2 clients, 3 messages, each a registration, a ping or a damaged registration | 464,258 states; all hold, every message is finished |
| `master` | 4 processes, 4 configurations (one of them no file), workers killed at any point, one SIGCHLD or SIGTERM from outside | 267,364 states; all hold, all children are collected, but by a master that waits for its own lock |

The five runs that end in a violation are disagreements between the code and its own
comments or README; "findings" quotes both sides.

Why the bounds are enough to see the interesting cases. In `conn_pool` an object can be
closed by all three closers, parked, freed and given to a second and a third client
within the clock, and one more object exists than the surge test admits, so the bound on
the pool is a real one. The delay of 1 is the smallest that satisfies `RecyWait > 2 *
MaxHold + MaxQueue` for a hold of 0; with 0 an object is freed while a thread still uses
it. With a hold of 1 and the clock to 4 (1,171,544 states, the clients interchangeable
and `ParkedIsFreed` left out) a delay of 3 is enough, and with 2 a late message reaches
another client, so the theorem's hypothesis has the right 2. T's list of collected timers
outlives the reuse of their object: without the sequence check `NoCrosstalk` fails. In
`send_queue` a package never fits the buffer, so each goes through both S and E, more
than once, and both limits of `msgSend` are hit. In `thread_pool` there are as many
messages as workers, enough for a worker to steal another's message. In `timer_queue`
the deadline of `KickDeadline` is reached, and lowering it by one fails. In
`recv_packet` every cut of every package happens; two clients show what a reused object
keeps; four packages let the flood count rise, fall and rise. In `dispatch` two handlers
of one client compete for its mutex while a third thread closes it, and the damage is a
burst of 32 bits, the longest that CRC-32 always notices. In `master` two workers, or
three with no daemon, may end in every order, at once, and before the master has reached
`sigsuspend`; the configurations are laid out as in `nginx.conf`, with spaces,
repetitions and comments.

Deadlock is checked in `conn_pool`. Elsewhere the bounded clients run
dry and the system may stop; `EachFinished`, `EachProcessed` and `CollectedUnlessStuck`
say that it does not stop too early.

### Fairness

* `ConnPool`: weak fairness of R alone, a loop with a sleep; the mutex it needs is held
  by others for one list insertion.
* `SendQueue`: none. That no wakeup is lost is the invariant `WakeupOwed`: for every
  package on the queue of an open connection there is a semaphore count, a scan that
  will come to it, or an earlier package whose end E will post.
* `ThreadPool`: weak fairness of each worker and of Main inside a call. The mutex is
  never held for ever; nobody is obliged to post or to stop.
* `RecvPacket`: weak fairness of the read handler, as the socket is level triggered.
* `Dispatch`: strong fairness of each logic thread, as a waiting thread gets a mutex
  that is released again and again, and weak fairness of R's release of its list, which
  the logic threads wait for. E, S and T owe nothing.
* `Master`: weak fairness of every process. Nobody is obliged to send a signal or to end.

## 4. What is proved

All theorems hold for every value of the constants that satisfies the `ASSUME` of the
module, in particular for any number of objects, threads, messages and clients.

**ConnPool** (hypothesis `DelayOutlastsUse`: `RecyWait > 2 * MaxHold + MaxQueue`).
`NoCrosstalk` is not inductive. The invariant `Inv` adds: what each program counter says
of its thread's variables (`ControlInv`); that nobody is later than assumed
(`TimeInv`); that whatever a thread uses is neither free nor in R's hand and, if it is
parked, was parked no earlier than `MaxHold + MaxQueue` before the use began (`UseInv`);
and that a header whose number matches names the right client and an object that is in
use, or that was parked while the epoll event of that message was being handled
(`RefInv`). The delay is used twice, in `RErase`: R cannot have reached an object still
in use, nor one whose messages can still match. The 2 is the late reading of the
sequence number (`net/ngx_c_socket_request.cxx:177`): an event's connection may have been
closed while the event waited in its batch. From `Inv` follow `TypeCorrect`,
`ObjectInOnePlace` and `CrosstalkPrevented`. `CountersExact` and `PoolStaysBounded` add
`CountInv`: the user count is the number of objects in use and at most
`m_worker_connections`, and the pool is at most `PoolFactor * m_worker_connections + 1`.
The refusals are tested before the object is taken, and `AdmitInv` carries them over the
steps in between.

**SendQueue**. `BaseInv` is typing, `ControlInv` (who holds the queue's mutex where, and
which connection each thread works on) and `BacklogExact`; it needs no hypothesis. The
rest is proved under `~UnreadAtClose`, without which `WireFraming` is false: `ClosedInv`
(who is past `close()`, and what is parked, has no open socket), `PeerInv` (a client
that is gone left nothing unread, so E closes before its write branch), `PendInv` (the
count is 1 exactly while a package is unfinished, and who drives it), `OwnInv` (one
owner for each package), `ReleaseInv` (the pending package is a released one exactly
while S or E is between the two statements that free it and clear the pointer, and none
is released twice) and `WireInv`, where the units a client has been given of the package
under way and `isendlen` add up to a whole one. Three closers of one connection may
lower `iThrowsendCount` below 0; the invariants speak of open sockets. Of closed
connections `OneOwner` keeps only that what is queued belongs to nobody else;
`double_free` shows that more would be false, as a closer that has lowered the count
lets S start a package while E ends the one before. `NoWakeupLost` adds `WakeupOwed`,
inductive together with `Inv`: S passes over a package only where the count is 1, and by
`PendInv` an earlier one of that client is then E's, which will post when it is done.

**ThreadPool**. `Inv` is typing, `LockInv` (who holds the mutex where, and that what
was read under it still holds), `QueueInv` (the queue is the messages posted and not
taken, in order), `JobInv`, `CountsExact` and `WorkConserving`. The last says why
signalling after the unlock is enough: while a thread waits, there are at least as many
workers on their way to the queue as messages, counting the signal still to come.
`Refinement` shows that every step is one of `WorkPool` or changes nothing of it.

**TimerQueue**. `NoDescriptorLeaks` from `FdInv`: a closing thread between its test and
its last step holds the descriptor that is open, or none is open. This is the half of
the double close that is harmless; `double_close` and `stale_send` are the other half.

`WatchInv` adds that the queue is in order, that no connection is on it twice, that
`m_cur_size_` and `m_timer_value_` are what T takes them for (`QueueInv`), and who may
still add a timer: E for the connection it is accepting, which nobody else knows yet
(`NewInv`), and nobody for one that a closing thread has taken off (`CloseInv`). `Watched`
alone is not inductive, since T collects a timer and closes its client in two steps;
`IdleInv` and `ClientInv` say what T's list may hold in between. From it follow
`TypeCorrect`, `EarliestIsKnown` and `EveryClientWatched`, and they rest on lemmas about
the multimap: where an insertion puts things, what a pass that leaves out one
connection keeps, what the front and the rest of an ordered queue are.

`SilentClosed` adds time. T has looked in every second that is over (`ClockInv`), so no
timer lies more than a second in the past; and the timer of a client is at most
`4 * WaitTime + Grace` later than its last ping (`Recent`), since T puts it back for one
interval later and then closes the client unless the ping is no older than three
intervals and the grace. Between these two steps the client is in T's hand and the timer
may be late by one interval more, so `Recent` keeps the two cases apart.

**RecvPacket**. The stream invariant avoids induction over the bytes: `RunsOn` says of
*each* byte in the receive buffer that the rest of its package follows it, and then the
first byte of the next package or nothing. Reading any part keeps that, because it is
said of every place. `Receiving(cur)` says which package the server is at and that
header and body hold its first bytes; `Delivered(cur)` that the legal packages before it
are out. With `ParserInv` (received and wanted make up a header or a package),
`BlockInv` and `FloodInv` (the count is the length of the run of close gaps at the end)
this gives `NeverOverrun`, which bounds every `recv()` by the room there is,
`PackagesWhole`, `BlockHasOneOwner` and `FloodCountExact`, for every header length,
limit and cut of the stream.

**Dispatch**. `PlaceInv` and `LockInv` say where each thread is and what it holds,
`WorkInv` what has been taken and finished, `ReplyInv` and `BacklogInv` what became of
the replies. `NeverCircular` orders the threads by what they can wait for: R, holding
the recycle list, waits for nobody; who closes waits for R at most; who holds or wants
the send queue's mutex waits for a closer; a handler waits for those. A thread of the
lowest rank in a set of waiting threads waits for one outside the set.
`OvertakingLimited` counts: the earlier messages unfinished are at other workers.

`OnlySoundAnswered` has a hypothesis, `ClientsUseCrc32`: a client sends the CRC-32 of its
body, 0 if there is none, and the network changes at most bits that lie within 32
consecutive ones, the damage CRC-32 is made to notice. The packets of the run satisfy
it. Without it the property is false: a client with another checksum is refused, and a
body can be damaged into another with the same sum. The proof has three parts.
`CrcIsRemainder`: `Get_CRC`, byte by byte through a table that reflects twice, gives the
remainder of the division bit by bit; the invariant relates the register after *n* bytes
to the rest after *8n* divisions, and one byte is eight of them because a table entry
is. `BurstNoticed`: two bodies that differ within 32 bits differ in the remainder, as a
division step never turns two different rests into the same one. `HandledInv`: a
handler runs only for a message that passed the test, until its reply is queued or
dropped.

**Master**. `StackInv` (who is in a handler is alive, and only log lines hold the lock),
`LoadInv` (nothing else runs while the configuration is read), `ZombieInv` (a child that
has ended has a parent that can collect it, and will) and `RoleInv` (one process is not
yet or no longer somebody's child, who is masked, who knows its role). From them
`NoZombieForgotten`, `OneMasterOnly` and `RoleKnown`, for any number of processes.

`StartsAsConfigured` says that the workers and the daemon are those the file asks for.
What a file asks for is stated of its lines, without `Load`: `Says` is a name, an equals
sign and a value with blanks around them, `SaysNothing` a comment, a group, an empty
line or a line without an equals sign, and `Meant` that the first line that sets a
name decides, or the default if there is none. `AsWritten` is the hypothesis that the
instance's `workers` and `daemon` are what its files mean in this sense; those of the
run are. `ReadRight` proves that `GetIntDefault` after `Load` returns exactly that,
for files of any length. `ConfInv` carries it on: the items are those of the file in
every process that uses them, and the count of forks is complete when the master sleeps.

**Induction over data** is by `NatInduction`: the library's induction theorems take an
operator, which the provers cannot instantiate, so the induction is proved once more for
a *set* of numbers, from the well-foundedness of `<`. `CourseExists` adds that a function
defined by recursion over `0..N` exists, without which nothing is known of the `CHOOSE`
it stands for. `Without`, `Shifted`, `Get_CRC`, `Remainder` and `Load` are written as such
functions for this reason.

## 5. What is only model-checked

* Liveness (`ParkedIsFreed`, `EachProcessed`, `AllDelivered`,
  `EachFinished`, `CollectedUnlessStuck`) is beyond the prover.
* The five violations, which are counterexamples.

## 6. What is not modelled, and why

* A client that sends a body after a header with an illegal length: the server skips
  the header only and reads the body as headers. Neither code nor docs say what such a
  client is due.
* A wall clock that is set. Set back, the flood test misses one package; set forward,
  the delay of R and the heartbeat are shortened by as much. Nothing in the repository
  says what should happen.
* `accept4` with no descriptor left (`net/ngx_c_socket_accept.cxx:71`): E spins on the
  listening socket until one is closed. It harms no property of the models.
* Packages of a closed connection are freed only when S next scans the queue
  (`net/ngx_c_socket.cxx:871`): with no further package they stay. `OneOwner` counts
  them as the queue's.
* What follows a double free: the run `double_free` stops at the second release, and what
  the allocator does with it is not modelled. `OneOwner` and its theorem are about open
  connections, where it does not happen.
* What `epoll_ctl` of S does with a descriptor that was given away: `stale_send` has
  the same race at `send()`.
* Contents of replies; sizes of lists that `printTDInfo` reads without a lock, only to
  print them; failures of `pthread_create`, of mutex calls and of allocation; lines of
  500 characters and more in the configuration; `GetString`.
* Anything after `g_stopEvent` or after the loop of `proc/ngx_process_cycle.cxx:109`:
  never reached. `StopAll()` is modelled all the same, being complete in itself.
* More than one signal from outside in a run of `Master`, and other signals than SIGCHLD
  and SIGTERM: their handlers differ in the number they log. The theorems about `Master`
  allow every signal and any number of them.
* What comes after the deadlock that `CollectedUnlessStuck` excepts. In a run of two
  processes, a worker that dies and a SIGTERM, without the exception: the master is in
  `sigsuspend` and in the handler of one signal, inside `localtime_r`
  (`signal/ngx_signal.cxx:100`); the handlers do not mask each other (`:56`), so that of
  the other signal interrupts it, wants to write its own log line and waits for the lock
  that the interrupted one holds. `waitpid` is never called again and the dead worker is
  never collected. The comment at `app/ngx_log.cxx:160` has the functions with `_r` for
  safe; they are safe between threads, and not in a handler.
* A master that is killed: its workers go on, without a parent.
* Listening sockets, `ngx_epoll_init`, logging, `ngx_printf`, addresses, process title,
  memory wrapper: straight-line set-up and output.

## 7. Plan

*Done*: `ConnPool`, `SendQueue`, `ThreadPool` with `WorkPool`, `TimerQueue`,
`RecvPacket`, `Dispatch` with `Crc32`, `Master` with `Config`; the inductive invariants
of all seven and the refinement of `WorkPool`.

*Left*:
1. An abstract stream of packages per client that `SendQueue` and `RecvPacket` each
   implement, so that both ends promise the same thing.
2. Sending over the descriptor table: `SendQueue` and `TimerQueue` in one module.
3. A clock that is set, once it is decided what the server should do then.
