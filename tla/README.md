# OFconnect: TLA+ models, model checking and proofs

OFconnect is a C library that carries OpenFlow connections for a controller or
a switch. An application registers devices, opens or accepts channels, and is
called back when data arrives; inside, a few *poll threads* run `poll()` over
sets of descriptors that other threads change while they run. Nearly everything
that can go wrong lies there: pipes and condition variables between threads,
three hash tables that have to tell the same story, a pool of threads that
grows, and locks held while waiting for another thread.

This directory models that core. Paths below are relative to the repository as
it lies under `src/` (so `src/src/cc_pollthr_mgr.c` is the poll thread).

## 1. Inventory

| Component | State | Operations | Talks to |
|---|---|---|---|
| Poll thread and manager (`cc_pollthr_mgr.c`) | manager: `num_sockets`, `pipes_arr`, mutex and condition; thread: `fd_list`, `pollfd_arr`, `num_pollfds`, `send_msg_htbl` | `adp_thr_mgr_new`, `adp_thr_mgr_add_del_fd`, `adp_thr_mgr_free`; the loop, the callbacks of the two pipes, `poll_fd_process` | callers over the primary pipe (answered by a condition) and the data pipe (never answered); sockets through callbacks |
| Start-up of a poll thread (same file) | the start-up block, both condition variables | `adp_thr_mgr_new` against the beginning of the thread | its creator |
| Pool of read-write threads (`cc_of_util.c` 834-1096) | `ofrw_pollthr_list`, ordered by free capacity | find or create, add a socket, delete a socket and re-sort | the poll threads; `ofrw_htbl` |
| Global hash tables (`cc_of_util.c`) | `ofdev_htbl`, `ofrw_htbl`, `ofchannel_htbl`, a lock each | the `add_*`, `del_*`, `find_*` functions | every thread |
| Library API (`cc_of_lib.c`) | none of its own | register and free a device, create and destroy a channel, send, set the real identifiers, initialise, free | tables, pool, net services |
| TCP services (`cc_tcp_conn.c`) | sockets | listen, accept, connect, receive, send, close | listen thread, read-write threads, application callbacks |
| UDP services (`cc_udp_conn.c`) | sockets; the number of the last dummy socket | client and server sockets, receive, send, close | read-write threads, tables, application callbacks |
| Log file (`cc_log.c`) | `oflog_enable`, `oflog_file`, `oflog_fd`, a lock | switch on and off, write, read, clear | every thread |
| Hash, equality, print functions; SWIG glue; tests | - | - | - |

**Hard behaviours.** Requests to a poll thread are answered through a condition
variable without a predicate, shared by all callers. The thread's two tables
(`fd_list`, `pollfd_arr`) are edited by a callback of the very sweep that walks
one of them. Counters are changed without a lock. Requests and messages travel
on different pipes and overtake one another. The tables are updated before the
thread is told of a socket. Some functions wait for a poll thread with the table
locks held, and that thread takes these locks; callbacks of the application run
with locks held; the data pipe is written with a lock held. The peers of a UDP
server socket are told apart by addresses compared in different byte orders. The
log's stream is closed and reopened under its writers. Memory is used after it
was freed at three places. `PROJECT.json` lists these hazards at their lines.

**What makes the parts correct.**

- *Poll thread*: list and array describe the same descriptors; the
  administrative pipes stay reachable; the sweep stays inside the list; a call
  takes effect once, between its start and its return; no wait is left without a
  signal; a message leaves once, in order, on its own socket.
- *Start-up*: the administrative pipes get slots 0 and 1, by which `DELETE_FD`
  recognises them, and whoever waits is answered.
- *Pool*: the list is complete and ordered, no thread is overfilled, a socket is
  polled by the thread the table names.
- *Tables and channels*: the tables agree, each socket has one key, a controller
  hears from a channel only after it was announced, tear-down comes to an end.
- *UDP*: the tables agree for sockets and dummies alike, dummy numbers and
  descriptors never meet, data is attributed to its sender.
- *Locks and waits*: no threads wait only for one another, every return path
  gives its locks back, every call returns.
- *Log*: what is logged is kept, in order; the stream is writable whenever the
  log is on; no stream is lost.

## 2. Modules

| Module | Models | Used by |
|---|---|---|
| `PollThread` | one manager, its callers and its thread | `MCPollThread`, `PollThreadProofs` |
| `FdRegistry` | what `adp_thr_mgr_add_del_fd` promises: a set of served descriptors, calls that take effect once | refined by `PollThread` |
| `PollThreadStart` | several managers coming up | `MCPollThreadStart`, `PollThreadStartProofs` |
| `RwPool` | the pool, each thread reduced to `FdRegistry`'s promise | `MCRwPool`, `RwPoolProofs` |
| `Channels` | devices, channels, tables, listen and read-write thread | `MCChannels`, `ChannelsProofs` |
| `UdpChannels` | the UDP services: sockets, dummy sockets, tables, receive path | `MCUdpChannels`, `UdpChannelsProofs` |
| `LibLocks` | who waits for whom: locks, requests to poll threads, data pipe, callbacks, for every API call and poll thread callback | `MCLibLocks`, `LibLocksProofs` |
| `LogFile` | the log file and its stream | `MCLogFile`, `LogFileProofs` |
| `*Proofs` | the theorems about the module they are named after (section 4) | - |
| `ListLemmas` | lemmas about lists: removing an element, distinct elements, first places | four of the `*Proofs` modules |

`MC*` modules only define small sets of model values. Operators introduced by
"Seeded fault" are wrong versions of the definition that follows each of them;
they belong to no specification, and `PROJECT.json` ("mutants") says which
property notices which.

### PollThread

The variables have the names of the C fields. `tpc` and `pos` are the program
counter of the thread and the position of `g_list_foreach`; `call[c]` is the
call caller `c` is in. `owned`, `sends` and `wire` belong to the environment:
descriptors in use, messages handed over, messages written.

| Action | Code (`cc_pollthr_mgr.c`) |
|---|---|
| `AddSocketCheck`, `AddSocketMaxOut`, `AddSocketRequest` | ADD of a socket: unlocked test, unlocked increment, request and wait |
| `AddPipe`, `AddPipeMaxOut` | ADD of a pipe |
| `DeleteFd`, `ReturnDeletePipe`, `LoadCount`, `StoreCount` | DELETE, the part after the wait included; the unlocked decrement is a load and a store |
| `ReturnAdd`, `SpuriousWakeup` | leaving `g_cond_wait` |
| `Free`, `ReturnFree`, `Join` | `adp_thr_mgr_free` |
| `Send` | the write of `cc_of_send_pkt` to the data pipe |
| `Poll`, `SelfDestruct`, `PollError`, `Exit` | the loop of `adp_thr_mgr_poll_thread_func` |
| `PriPipe` (with `AddFd`, `RemoveFd`), `Signal` | `pollthr_pri_pipe_process_func` |
| `DataPipe` | `pollthr_data_pipe_process_func` |
| `PollinOnly`, `Pollout` | `poll_fd_process` |

Failed assertions and the write behind the array are thread states
(`abort_add`, `abort_data`, `abort_pollout`, `overflow`) without a successor in
the thread. A data race on `num_sockets` is a choice between the value loaded
by the test and a fresh one. The `revents` of a new slot are what its last user
or `malloc` left. `g_cond_signal` wakes one or more waiters.

### PollThreadStart

`Create`, `WaitInit`, `AddDataPipe`, `UserAdd` are the creator; `Setup`,
`SignalInit`, `ServeAdd`, `SignalAdd` the thread. The signal of the first
handshake reaches its condition variable through a block freed a few lines
earlier: `SignalThroughGarbage` is the outcome when the block was reused.

### RwPool

`Find`, `Create`, `Tables`, `TablesFail`, `AddPoll` are the steps of
`cc_add_sockfd_rw_pollthr_safe` between its locks, `DelPoll` and `Resort` those
of `cc_del_sockfd_rw_pollthr_lockfree`. `num_sockets` wraps at `CountMod`, the
free capacity (an unsigned difference) at `AvailMod`. Re-sorting frees the
manager it puts back into the list: `freed` records it, and `UseFreed` is the
crash that may follow. `overlapped` remembers whether two workers have been inside
at once; some properties hold only until then.

### Channels

One lock variable stands for the three table locks, which every function of the
module takes in the same order (`LibLocks` has them apart). `ofdev_type` is the
argument of `cc_of_lib_init`. Each critical section is an action; the operations that keep
the locks while they wait for a poll thread (`cc_of_destroy_channel`,
`cc_of_dev_free`) are split at the wait. `reader` is the socket the read-write
thread has read from before it takes the locks, and while it is set that thread
answers no request. `onStack` marks the entries `cc_of_set_real_dpid_auxid`
makes of its local variables, which `Overwrite` may change at any time;
`dangling` the device entries freed by a failed registration. `told`, `rcvd` and
`crash` are for the properties.

### UdpChannels

A switch has a connected socket per channel (`Open`, `OpenTables`, `OpenAdd`:
`udp_open_clientfd`). A controller has one server socket (the same actions:
`udp_open_serverfd`); each sender it does not know gets the next number above
`MAX_OPEN_FILES` and table entries under that *dummy socket*. The receive callback
is `Read`, which reads before it takes the locks, then `Classify` (an old peer, a new
peer, or on a switch the socket itself), `LookUp`, `AcceptFunc`, `Up`, `Deliver`,
all with the locks held. `Swap` is the byte order conversion that
the code applies to the sender and not to the stored address. Memory that was
never written, the `client_addr` of the server socket, is any address.
`cc_of_dev_register` does not open the server socket in this commit (`#if 0`);
the module models the code as it would run.

### LibLocks

Every API call and every callback of a poll thread is a sequence of steps: take a
lock, release locks, a critical section without a wait inside, ask a poll thread,
write to the data pipe, edit or look up the tables, call the application. `todo[t]` is what
thread `t` has still to do; the actions execute its head. Early returns replace the
rest of the sequence by the release of the locks they hold. `CallBack` returns or puts a
call of the library in front, with the locks of the callback held. `WaitsFor` is
the thread that has to move next, and `Deadlocks` are the sets of threads that
wait only for one another or for a thread that has ended. The data is reduced to
what decides an early return: `registered`, `tabled`, `polled`.

### LogFile

`Enable`, `Disable`, `ToggleAgain` (`cc_of_log_toggle`), `Write` (the end of every
`CC_LOG` macro), `Read`, `ReadOpen`, `ReadContents`, `ReadEnd` (`cc_of_log_read`), `Clear`
(`cc_of_log_clear`), `LibInit` and `LibFree`. The stream has a buffer, which goes to the file
when it is full or the stream is closed; `fopen` may fail; a file is named after
the second of its creation.

## 3. Runs

| Run | Instance | States | Properties |
|---|---|---|---|
| `poll_two` | 2 callers, 2 sockets, 1 message, deletions, spurious wake-ups, `poll()` errors; symmetric | 703 k | `TypeOK ListArrayAgree AdminPipesFirst DriftsForwardOnly SweepInside NoDuplicateAdd NoLostWakeup` |
| `poll_one` | 1 caller, 3 sockets with room for 2, 2 pipes with room for 1, `FairSpec` | 64 k | `NoOverflow ImplementsRegistry` |
| `poll_send` | 1 caller, 2 sockets, 3 messages, reads that take two messages, a peer that is gone, no deletions, `FairSendSpec` | 33 k | `SendInfoPresent MessageFdPolled SentOnOwnSocket OrderedOnce HeldIsTaken` |
| `poll_drift` | 2 sockets, deletions | violated | `CorrectFd` |
| `start_up` | 2 managers, one with spurious wake-ups, block reused, `FairSpec` | 610 | `AdminPlaces ReturnedComplete HandsOver PastInitReturns` |
| `start_init` | 1 manager, `FairSpec` | violated | `NewReturns` |
| `pool` | 2 workers, 4 sockets, 3 threads of 2; symmetric | 543 k | `SortedPool AddedIsPolled PoolComplete PolledIsTabled GrowsOnlyWhenFull` |
| `channels` | controller or switch, 2 application threads, 2 sockets, 2 keys, the wait for the listen thread may end early; symmetric | 2.3 M | `RwDevAgree OneKeyPerSocket ToldBeforeData` |
| `chan_teardown` | switch, 1 socket, `FairSpec` | violated | `TeardownReturns` |
| `locks` | controller or switch, 2 application threads and 2 poll threads, 2 sockets, 3 calls, 2 events, room for 1 message in the pipe | 457 k | `KnownDeadlocksOnly FreeAloneOrdered CallsReturn` |
| `udp` | controller or switch, 2 application threads, 1 socket, 3 datagrams from 3 addresses | 180 k | `TablesAgree EntryStays NumbersApart ToldBeforeData SenderOrReverse DummyCloseReturns` |
| `log` | 2 threads, 4 messages, 2 seconds | 23 k | `LogComplete Writable OneStream ReadsAll ReadReturns` |

Every module has a type invariant, `TypeOK`. `PollThread`'s is checked and proved;
those of the other modules document their variables, and hold when they are added
to the invariants of `start_up`, `pool`, `channels`, `locks`, `udp` and `log`.

What they show:

- **`poll_two`**. Whatever two callers do, list and array hold the same
  descriptors in the same order and the sweep stays inside the list, although
  ADD and DELETE edit both from a callback of the sweep. What goes stale with a
  deletion is `pollfd_entry_p`, and it drifts in one direction only
  (`DriftsForwardOnly`), never to uninitialised memory (`PointsToWritten`, proved
  in section 4). No
  caller is left without a signal (`NoLostWakeup`), although signals may go to
  the wrong one. A descriptor number that is reused while requests for it are
  queued does not fail the assertion of `ADD_FD` (`NoDuplicateAdd`).
- **`poll_one`**. With one caller the pair is a correct implementation of
  `FdRegistry`, liveness included; the manager's counters are the only thing
  that keeps the thread from writing behind its array.
- **`poll_send`**. As long as nothing is deleted the send path keeps its
  assertions and the order of messages, and nothing waits for ever.
- **`start_up`**. Wherever the creator's waits end early, the two administrative
  pipes get their slots. Without spurious wake-ups the state handed over is the
  initial state of `PollThread`.
- **`pool`**. The list holds every manager once, and a socket that is polled is
  polled by the thread the table names, whatever two workers do. ADD never sorts; the order
  survives because the last manager with room is the one that loses a place. As
  long as workers come one at a time this holds for every sequence of additions and
  deletions.
- **`channels`**. `ofdev_htbl` and `ofrw_htbl` agree inside and between the long
  operations, which `cc_of_dev_free` needs: a listed socket without an entry
  makes its loop spin for ever. A controller is told of a channel before it
  receives from it, also when the wait for the listen thread ends early. On a switch every socket has
  one key.
- **`locks`**. The library does deadlock, and the run says exactly where: every
  set of threads that wait for one another contains a tear-down call that awaits a
  poll thread with locks held, the reversed locks of `cc_of_lib_free`, a callback
  that called the library, a writer before a full data pipe, or somebody who waits
  for a thread that `cc_of_lib_free` has ended (`KnownDeadlocksOnly`). Outside these
  every call and callback returns (`CallsReturn`). An application that makes
  one call at a time never meets the reversed locks: when `cc_of_lib_free` comes to
  them, the devices are gone and no callback can start (`FreeAloneOrdered`).
- **`udp`**. The tables agree for sockets and dummies under every
  interleaving. The error path that returns with the locks held
  (`cc_udp_conn.c:247`) cannot be reached, because the locks are never given up
  since the entry was found. What the mixed byte orders can confuse is one peer
  with the peer of the reversed address, and nobody else. Closing a dummy ends,
  while closing a socket may not (`chan_teardown`).
- **`log`**. Nothing is lost but by clearing, although the stream is closed and
  reopened under its writers, and a reader sees all that was logged before. A
  failed `fopen` breaks it: writers meet a NULL stream, and a reader that cannot
  read locks itself out.

### Statements the code does not keep

Three are runs of their own, with a finding each:

- `CorrectFd` (`poll_drift`): after a deletion the entries behind it look at the
  events of another descriptor.
- `NewReturns` (`start_init`): the thread may signal before its creator waits.
- `TeardownReturns` (`chan_teardown`): `cc_of_destroy_channel` holds the locks
  and waits for a thread that waits for the locks.

The others follow from a small change to a configuration that is here:

| Statement | Configuration and change | What happens |
|---|---|---|
| `SendInfoPresent`, `SentOnOwnSocket` | `MCPollThread_send`: 3 sockets, all in `Deletable`, `MaxSockets` 3, `MaxSends` 1 | a stale `pollfd_entry_p` sets or finds POLLOUT in another descriptor's slot: the assertion at line 435 fails, or a message leaves on another connection |
| `MessageFdPolled` | `MCPollThread_send`: `Deletable <- TwoSockets` | a DELETE overtakes a message (assertion at line 697) |
| `NoMessageLost` (`cc_pollthr_mgr.h:157`) | `MCPollThread_send` | a second message replaces the first one, or one read takes two and handles one |
| `SyncAdd` | `MCPollThread_two` | a signal wakes the wrong caller, whose ADD returns too early |
| `AddedIsPolled`, `SortedPool`, `GrowsOnlyWhenFull` | `MCRwPool`, the properties without `~overlapped` | two workers find the same last place; the refused socket stays in the table, and its DELETE lowers the counter of a full thread |
| `PolledIsTabled` | `MCRwPool`: `DeletesEarly = TRUE` | a socket deleted between its tables and its ADD is polled for ever |
| `AscendingPool` (`README:266`), `EmptyThreadDeleted` (`README:270`), `NoFreedInPool` | `MCRwPool` | the order is descending, empty threads stay, and a re-sorted manager is freed memory |
| `NoDuplicateAdd`, `KeyFreedOnce`, `AcceptedForPolled` of `Channels` | `MCChannels` | a channel destroyed before its ADD; a key used twice; a message sent before the ADD |
| `ReleasesOneOfMany` (`cc_of_lib.h:197`) | `MCChannels`: `Devs <- TwoDevs` | `cc_of_dev_free` asserts that one device exists |
| `OneKeyPerSocket` | `MCChannels`, the property without its condition on `ofdev_type` | on a controller the entry under the real identifiers lies in a dead stack frame |
| `AcceptNotForSwitch` (`cc_of_lib.h:95`) | `MCUdpChannels` | on a switch every datagram calls the accept callback: `new_conn` is never reset there |
| `OneChannelPerSender` (`cc_udp_conn.c:97`) | `MCUdpChannels` | a known sender is not recognised, because only one side of the comparison is converted, and gets another channel |
| `CanAnswer` (`cc_of_lib.h:299`) | `MCUdpChannels` | `cc_of_send_pkt` refuses the channel of a dummy, which has no thread |
| `ClearEmpties` (`cc_of_lib.h:385`) | `MCLogFile` | what the stream has buffered is written after the truncation |
| `NewFileEachTime` (`cc_of_lib.h:363`) | `MCLogFile` | within one second the old file is continued |

This is why the passing runs are limited as they are: `poll_one` to one caller,
`poll_send` to no deletions, `pool` to no early deletions and, for three properties,
to workers that come one at a time. The deadlocks that `KnownDeadlocksOnly` names
are all reached in `locks`: without any one of its disjuncts the property fails.

### Bounds

- *Callers, workers, application threads* 1 or 2: every interaction here is
  between two threads and the poll thread.
- *Sockets* 2 or 3: a deletion needs a descriptor behind it to shift, and
  `poll_one` one socket more than there is room for.
- `PipeCap` 2: two requests queued at once; the third writer blocks, as on a
  full pipe. `MaxSends` 1 to 3: a message to be overtaken, a second to be
  replaced, a third to follow a read that took two.
- `CountMod` 4 for 2^16 and `AvailMod` 16 for 2^32: greater than the number of
  sockets, so that wrap-around happens only where the code would wrap.
- `MsgsPerRead` stands for the ratio of `SEND_MSG_BUF_SIZE` and what is queued.
- `MaxMgrs` 3: a full, a part-full and an empty thread at once.
- `LibLocks`: `PipeCap` 1, so that two messages fill the pipe and its reader; `MaxCalls` 3
  (a registration and two calls that meet), `MaxEvents` 2 (an accepted
  connection and a message on it).
- `UdpChannels`: `MaxDatagrams` 3 from three addresses, one that reads the same in
  both byte orders and two that are the reverse of each other; `MaxOpenFiles` 1 puts the
  first dummy right behind the descriptors.
- `LogFile`: `MaxMsgs` 4 and `MaxTime` 1: messages before and after a reopening, in
  the same second and in the next.
- Symmetry only in runs without liveness, over sets the specification treats
  alike.

### Deadlock and fairness

`CHECK_DEADLOCK FALSE` everywhere: a program that has freed its manager, has
crashed in an assertion, or whose application calls nothing any more may stop.
The waits that must end are liveness properties instead.

`FairSpec` asks that each thread is scheduled and that a caller inside a call
goes on with it; nobody has to begin a call. That is what an operating system
gives threads that are not blocked. `FairSendSpec` adds that a socket polled
again and again for POLLOUT is reported ready at some time: its peer, or the
error that `poll()` then reports, sees to that. `LibLocks` asks only that the process
does not stop while some thread inside the library can move, since `GMutex` is
not fair; the bounds on calls and events end any competition for a lock.
`UdpChannels` and `LogFile` ask that a thread inside the library is scheduled. Nothing is assumed about locks
or signals beyond what the actions say. `ImplementsRegistry` is checked without
`poll()` errors: an interrupted `poll()` ends the thread for good and later
calls wait for ever.

## 4. Proofs

Every safety property that a run checks is a theorem: it holds for every value
of the constants that satisfies the
`ASSUME` of the module, not only for the instances of section 3. The theorems are
named after the property (`NoLostWakeupHolds` states `NoLostWakeup`), and each
rests on an inductive invariant that TLC checked first on the instance of the run.

**Assumptions.** The `ASSUME`s say that capacities are naturals, that a manager's
counter can hold its capacity, that the sets of threads and descriptors do not
overlap, and that `None` (NULL, no owner, no entry) is none of the values it stands
for. `PipesAssumption` says that either the pipes of a manager are managed by one thread or
there are none, as in the library. Some theorems have a hypothesis on the
constants instead; without it the property is false, and section 3 names the
behaviour that breaks it:

| Hypothesis | Theorems | Why |
|---|---|---|
| one caller | `NoOverflowHolds` | two callers pass the unlocked test of `num_sockets` together |
| one caller, `~Spurious` | `SyncAddHolds` | a signal or a spurious wake-up returns the wrong ADD |
| one caller, `~Spurious`, `~PollErrors` | `RefinesRegistry` | the same, and a failed `poll()` ends the thread |
| `Deletable = {}` | `SendInfoPresentHolds`, `SentOnOwnSocketHolds`, `CorrectFdHolds` | a deletion leaves `pollfd_entry_p` stale |
| one caller, `~Spurious`, `Deletable = {}` | `MessageFdPolledHolds` | a message overtakes the ADD, or a DELETE the message |
| `~DeletesEarly` | `PolledIsTabledHolds` | a socket deleted before its ADD is polled for ever |

### PollThread

| Theorem | States | Invariant |
|---|---|---|
| `Invariance`, `TypeCorrect`, `TablesAgree`, `AdminStays`, `StaleButSound`, `SweepSound` | `TypeOK`, `ListArrayAgree`, `AdminPipesFirst`, `DriftsForwardOnly`, `PointsToWritten`, `SweepInside`, `DestructIsLast` | `Inv` |
| `OrderedOnceHolds` | `OrderedOnce` | `InOrder` |
| `NoLostWakeupHolds` | `NoLostWakeup` | `Covered` |
| `NoDuplicateAddHolds` | `NoDuplicateAdd` | `QueueInv` |
| `NoOverflowHolds` | `NoOverflow` | `RoomInv` |
| `SendInfoPresentHolds`, `SentOnOwnSocketHolds`, `CorrectFdHolds` | the properties of these names | `SendInv` |
| `SyncAddHolds`, `MessageFdPolledHolds` | a descriptor whose ADD has returned is polled; `MessageFdPolled` | `InStep` |
| `RefinesRegistry` | `Spec => Registry!Spec` | `InStep`, `Closing` |

- `Inv` is `TypeOK` with `Shape`, the conjunction of the shape properties. None of
  them is inductive alone. That `DELETE_FD` removes the same place from list and
  array needs the descriptors to be distinct; that it never removes the entry the
  sweep stands on or has fetched needs the administrative pipes in front; and that
  ADD never writes over the primary pipe's slot needs the sweep to have left that
  pipe once `num_pollfds` is 0.
- `InOrder`: `OrderedOnce` speaks of the wire only; messages come there from the
  data pipe by way of the hash table, and each was handed over before all that are
  still at an earlier stage.
- `QueueInv`: for each descriptor the queued requests alternate, from what the
  thread polls now to what its users want (`Alternates`), and no two users
  have the same descriptor (`OneUser`). So an ADD that is handled finds the
  descriptor gone, although numbers are reused while requests are queued.
- `RoomInv`: the counters count what is wanted and what is being deleted
  (`Counted`), and there is a sequence of sizes, one for each queued request, that
  leads from `num_pollfds` to the number of descriptors wanted and stays inside
  the array (`Room`).
- `InStep`: one caller and the thread take turns, so there is at most one request,
  and it is queued, or handled and not yet signalled.
- `RefinesRegistry` is the safety part of `ImplementsRegistry`. The caller's steps
  map to begin, return or stutter (`CallerImplements`), and the one step of
  the thread that handles a request to the point where the call takes effect, every
  other step of the thread to a stutter (`ThreadImplements`).

### The other modules

| Module | Theorems | Invariant and why it is needed |
|---|---|---|
| `PollThreadStart` | `AdminPlacesHold`, `ReturnedCompleteHolds`, `HandsOverHolds` | `Stage`: how far a creator and its thread have come fixes the contents of list and pipe exactly. The creator may be ahead by all its requests. |
| `RwPool` | `PoolCompleteHolds`, `PolledIsTabledHolds`, `SortedPoolHolds`, `AddedIsPolledHolds`, `GrowsOnlyWhenFullHolds` | `Managers` for the list, `Apart` for sockets and table. The order needs `Alone`: the counters are exact, and behind a manager that was found all are full, so it may lose a place and keep its place in the list. |
| `Channels` | `RwDevAgreeHolds`, `OneKeyPerSocketHolds`, `ToldBeforeDataHolds` | `Lists` restates the agreement, `CallersOK` and `ListenerOK` what a thread holds between its critical sections (a socket on its way to the tables is open and has no entry), `UpTold` that only an announced socket is UP. |
| `UdpChannels` | `TablesAgreeHolds`, `EntryStaysHolds`, `NumbersApartHolds`, `ToldBeforeDataHolds`, `SenderOrReverseHolds` | `ReaderOK`: the callback has the locks from its lookup on, and its entry is one of the sender or of the reversed address; `Numbers`: dummies lie between `MAX_OPEN_FILES` and the last number given. |
| `LibLocks` | `KnownDeadlocksOnlyHolds`, `FreeAloneOrderedHolds` | `LockInv`: what a thread still has to do is a sequence of steps that keeps to the order of the locks, beginning with the locks it holds (`Good`). A deadlock without one of the five causes would be a ring of threads that all wait for locks in order; the argument takes the thread that wants the last lock. `AloneInv`: see below. |
| `LogFile` | `LogCompleteHolds`, `WritableHolds`, `OneStreamHolds`, `ReadsAllHolds` | `Stream`: what `oflog_fd` is follows from where the reader is and whether the log is on; something is buffered only in a stream opened for appending. |

`FreeAloneOrderedHolds` is about the reversed locks of `cc_of_lib_free`, which wants
the channel lock while it has the rw lock. It needs to know that nobody can have
the channel lock then, and that takes the whole history of the device: the
tables were emptied, the sockets no longer polled, the listening socket no longer
polled. `AloneInv` follows it. Each call of the application is in one of a
few phases, told by what it has left to do (`Registers`, `Creates`, `Destroys`,
`Frees`, `Ends`, `BeforeDevices`, `AfterDevices`, `Returns`), and each phase says what
the tables and the poll threads can be; without a device nothing is served
(`World`). What is polled is in the tables, with one exception that the proof
brought to light: the loop that frees a device can take a socket out of the
tables between the entry and the ADD of the listen thread, so that the socket is
polled without an entry. But the listen thread then wants the device lock, which
the loop has (`Trapped`, `AtDev`), and the loop ends with a request to the listen
thread: the two wait for each other for ever, a deadlock of the first kind, and
`cc_of_lib_free` never comes to its reversed locks.

The five action properties (`ReadsAll`, `GrowsOnlyWhenFull`, both
`ToldBeforeData`, `SenderOrReverse`) follow from the invariant and one step.

**Only model-checked**:

- liveness: `HeldIsTaken`, the fairness of `ImplementsRegistry`, `PastInitReturns`,
  `CallsReturn`, `DummyCloseReturns`, `ReadReturns` (fairness and `ENABLED` are
  outside the prover).

## 5. Not modelled

- In `PollThread`: a user's DELETE of the data pipe or of an unknown pipe, two
  threads that manage pipes of one manager (the library adds none), and
  POLLHUP/POLLERR, which the code does not look at.
- In `Channels`: the handshake with the read-write thread is `FdRegistry`'s
  promise, although `SyncAdd` fails with several callers; the pool has one
  thread; the listen callback's iteration over the device table, which goes on
  after the lock was released, is reduced to the lookup; `cc_of_create_channel`
  called on a controller.
- In `LibLocks`: several devices, several read-write threads, a second
  `cc_of_lib_init` after `cc_of_lib_free`, and callbacks that destroy channels
  (the read-write thread would wait for itself, as with every request from inside
  a callback).
- In `UdpChannels`: `cc_of_set_real_dpid_auxid` and the assertions on devices,
  which `Channels` has.
- In `LogFile`: the text of messages, `cc_of_log_clear` before the log was ever
  on, and messages that are logged while `cc_of_lib_free` ends the log.
- Descriptor 0: on a switch `cc_of_dev_free` closes it, because `main_sockfd_tcp`
  was never set.
- `cc_of_send_pkt` and `cc_of_set_real_dpid_auxid` look a key that is not found up
  again with the DP-ID as Aux-ID; the models take the key that is found.
- Failures inside `cc_of_lib_init`, which end the process.
- Addresses, socket options, hash and equality functions, printing and the SWIG
  glue: data without influence on the control modelled here, or text output.
  `cc_of_get_conn_stats` is declared and nowhere defined.

## 6. Plan

1. Done: all modules of section 2; every safety property of the runs as a theorem; the
   step simulation of `FdRegistry`.
2. Models: a composition of `RwPool` with the counters of `PollThread`.
