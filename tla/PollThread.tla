----------------------------- MODULE PollThread -----------------------------
(***************************************************************************)
(* The asynchronous dynamic poll thread of OFconnect (cc_pollthr_mgr.c):   *)
(* one thread that runs poll() over an array of descriptors, and the       *)
(* manager object through which any other thread adds or deletes a         *)
(* descriptor (primary pipe, answered by a condition variable) or hands    *)
(* over a message to be sent (data pipe, never answered).                  *)
(*                                                                         *)
(* The model starts where adp_thr_mgr_new returns: both administrative     *)
(* pipes are polled (PollThreadStart models how that state is reached).    *)
(*                                                                         *)
(* Abstractions.  A descriptor is a member of a set, a message is the      *)
(* descriptor it is for and its rank among the sends.  POLLIN and POLLOUT  *)
(* are the strings "IN" and "OUT".  The mutex of the handshake is not a    *)
(* variable: a caller holds it from before its write until g_cond_wait     *)
(* releases it, so the write and the start of the wait are one step, and   *)
(* the thread's lock / signal / unlock is one step.                        *)
(*                                                                         *)
(* An operator whose comment begins with "Seeded fault" is not part of the *)
(* model: it is a wrong version of the definition that follows it, put in  *)
(* its place to see that a property notices (PROJECT.json lists them).     *)
(***************************************************************************)
EXTENDS Integers, Sequences, FiniteSets, SequencesExt

CONSTANTS
  Callers,        \* threads that call the manager
  Sockets,        \* socket descriptors the callers may have open
  Pipes,          \* read ends of the pipes the callers may create
  PriFd, DataFd,  \* read ends of the primary and of the data pipe
  NoFd,           \* content of an array slot that was never written
  NoMsg,          \* absence of an entry in send_msg_htbl
  MaxSockets,     \* max_sockets given to adp_thr_mgr_new
  MaxAppPipes,    \* max_pipes given to adp_thr_mgr_new
  Deletable,      \* descriptors the callers delete again
  Readable,       \* descriptors on which data may come in
  FailingFds,     \* sockets whose peer is gone: the write fails
  MsgsPerRead,    \* queued messages one read() of the data pipe takes
  CountMod,       \* 2^16: num_sockets is a uint16_t
  PipeCap,        \* bound: requests the primary pipe holds before write() blocks
  MaxSends,       \* bound: messages handed over in a behaviour
  PollErrors,     \* may poll() return -1 (EINTR)?
  Spurious        \* may g_cond_wait return without a signal?

Fds == Sockets \cup Pipes \cup {PriFd, DataFd}

\* max_pipes of the manager counts descriptors, two per pipe, four of its own.
max_pipes == 2 * MaxAppPipes + 4
\* Seeded fault: the array has no room for the administrative pipes.
MaxPollfdsAppOnly == MaxSockets + MaxAppPipes
max_pollfds == MaxSockets + max_pipes
Slots == 0 .. max_pollfds - 1

ASSUME ConstantsAssumption ==
  /\ CountMod \in Nat /\ MaxSockets \in Nat /\ MaxSockets < CountMod
  /\ MaxAppPipes \in Nat
  /\ PipeCap \in Nat \ {0}
  /\ MaxSends \in Nat
  /\ MsgsPerRead \in Nat \ {0}
  /\ PollErrors \in BOOLEAN /\ Spurious \in BOOLEAN
  /\ Deletable \subseteq Sockets \cup Pipes
  /\ Readable \subseteq Sockets \cup Pipes
  /\ FailingFds \subseteq Sockets
  /\ PriFd # DataFd
  /\ {PriFd, DataFd} \cap (Sockets \cup Pipes) = {}
  /\ Sockets \cap Pipes = {}
  /\ NoFd \notin Fds
  /\ NoMsg \notin Nat

\* The library itself adds no pipes (MAX_PER_THREAD_PIPES is 0); a program that
\* does adds and deletes them from one thread: pipes_arr has no lock.
ASSUME PipesAssumption == Pipes = {} \/ \A c, d \in Callers : c = d

VARIABLES
  \* manager object
  num_sockets,    \* uint16 count of sockets, updated without a lock
  pipes_arr,      \* its pipes, by read end; num_pipes = 2 * Len(pipes_arr)
  mgr,            \* "live", then "freeing" and "freed" by adp_thr_mgr_free
  call,           \* the call each caller is in
  owned,          \* descriptors whose ADD returned and whose DELETE did not begin
  \* pipes to the thread
  pri_pipe, data_pipe,
  \* thread-private data
  num_pollfds, pollfd_arr, fd_list, send_msg_htbl,
  tpc,            \* where the thread is
  pos,            \* position of g_list_foreach in fd_list, 0 outside a sweep
  \* the environment
  sends,          \* messages handed over so far
  wire            \* messages written, in order, with the socket they left on

mgrVars  == <<num_sockets, pipes_arr, mgr, call, owned>>
thrVars  == <<num_pollfds, pollfd_arr, fd_list, send_msg_htbl, tpc, pos>>
vars == <<num_sockets, pipes_arr, mgr, call, owned, pri_pipe, data_pipe,
          num_pollfds, pollfd_arr, fd_list, send_msg_htbl, tpc, pos,
          sends, wire>>

Events == {"IN", "OUT"}
Slot == [fd : Fds \cup {NoFd}, events : SUBSET Events, revents : SUBSET Events]
Entry == [fd : Fds, slot : Slots]                 \* adpoll_fd_info_t
ThrMsg == [fd : Fds, act : {"ADD", "DELETE"}]     \* adpoll_thr_msg_t
SendMsg == [fd : Sockets, n : 1 .. MaxSends]      \* adpoll_send_msg_t

Call == [pc : {"idle", "checked", "waiting", "woken", "loaded", "joining"},
         act : {"ADD", "DELETE"}, fd : Fds, reg : 0 .. CountMod - 1]
Idle == [pc |-> "idle", act |-> "ADD", fd |-> PriFd, reg |-> 0]

FreshSlot == [fd |-> NoFd, events |-> {}, revents |-> {}]
AdminSlot(fd) == [fd |-> fd, events |-> {"IN"}, revents |-> {}]

-----------------------------------------------------------------------------
(* State functions *)

Polled == {fd_list[i].fd : i \in DOMAIN fd_list}
Waiting == {c \in Callers : call[c].pc = "waiting"}
Busy(c) == call[c].pc # "idle"
\* Descriptors some call in progress is about.
InCall == {call[c].fd : c \in {d \in Callers : Busy(d)}}

\* Seeded fault: the position counts from 0.
FirstWithFromZero(list, fd) ==
  (CHOOSE i \in DOMAIN list :
     list[i].fd = fd /\ \A j \in 1 .. i - 1 : list[j].fd # fd) - 1

\* First position of fd in a list of records with a field fd.
FirstWith(list, fd) ==
  CHOOSE i \in DOMAIN list :
    list[i].fd = fd /\ \A j \in 1 .. i - 1 : list[j].fd # fd

\* Seeded fault: the copying stops one slot early.
ShiftDownOneShort(arr, n, k) ==
  [j \in Slots |-> IF j \in k .. n - 3 THEN arr[j + 1] ELSE arr[j]]

\* The array after slot k of its first n is deleted: later slots are copied
\* one place down, the last one keeps its content.
ShiftDown(arr, n, k) ==
  [j \in Slots |-> IF j \in k .. n - 2 THEN arr[j + 1] ELSE arr[j]]

\* Seeded fault: a signed counter.
DecSigned(v) == v - 1

\* += 1 and -- on an unsigned integer that wraps at CountMod.
Inc(v) == IF v = CountMod - 1 THEN 0 ELSE v + 1
Dec(v) == IF v = 0 THEN CountMod - 1 ELSE v - 1

-----------------------------------------------------------------------------
Init ==
  /\ num_sockets = 0
  /\ pipes_arr = <<PriFd, DataFd>>
  /\ mgr = "live"
  /\ call = [c \in Callers |-> Idle]
  /\ owned = {}
  /\ pri_pipe = <<>> /\ data_pipe = <<>>
  /\ num_pollfds = 2
  /\ pollfd_arr = [k \in Slots |-> IF k = 0 THEN AdminSlot(PriFd)
                                   ELSE IF k = 1 THEN AdminSlot(DataFd)
                                   ELSE FreshSlot]
  /\ fd_list = <<[fd |-> PriFd, slot |-> 0], [fd |-> DataFd, slot |-> 1]>>
  /\ send_msg_htbl = [fd \in Fds |-> NoMsg]
  /\ tpc = "poll" /\ pos = 0
  /\ sends = 0 /\ wire = <<>>

-----------------------------------------------------------------------------
(* The manager: adp_thr_mgr_add_del_fd and adp_thr_mgr_free *)

\* Lock, write the request to the primary pipe, wait on the condition.
Request(c, fd, act) ==
  /\ Len(pri_pipe) < PipeCap
  /\ call' = [call EXCEPT ![c] =
                [pc |-> "waiting", act |-> act, fd |-> fd, reg |-> 0]]
  /\ pri_pipe' = Append(pri_pipe, [fd |-> fd, act |-> act])

\* The kernel hands out a descriptor number that is not open.
Unused(fd) == fd \notin owned \cup InCall

\* ADD of a socket: the unlocked test of num_sockets.
AddSocketCheck(c, fd) ==
  /\ mgr = "live" /\ ~Busy(c) /\ Unused(fd)
  /\ num_sockets # MaxSockets
  /\ call' = [call EXCEPT ![c] = [pc |-> "checked", act |-> "ADD",
                                  fd |-> fd, reg |-> num_sockets]]
  /\ UNCHANGED <<num_sockets, pipes_arr, mgr, owned, pri_pipe, data_pipe,
                 thrVars, sends, wire>>

\* The same test failing: the call returns -1 and has no effect.
AddSocketMaxOut(c, fd) ==
  /\ mgr = "live" /\ ~Busy(c) /\ Unused(fd)
  /\ num_sockets = MaxSockets
  /\ UNCHANGED vars

\* The unlocked increment, of the value the test loaded or of a fresh one
\* (a data race: the build decides), then the request.
AddSocketRequest(c) ==
  /\ call[c].pc = "checked"
  /\ \E v \in {call[c].reg, num_sockets} : num_sockets' = Inc(v)
  /\ Request(c, call[c].fd, "ADD")
  /\ UNCHANGED <<pipes_arr, mgr, owned, data_pipe, thrVars, sends, wire>>

\* ADD of a pipe: pipe() creates it, num_pipes grows, the read end is polled.
AddPipe(c, fd) ==
  /\ mgr = "live" /\ ~Busy(c) /\ Unused(fd)
  /\ 2 * Len(pipes_arr) < max_pipes
  /\ pipes_arr' = Append(pipes_arr, fd)
  /\ Request(c, fd, "ADD")
  /\ UNCHANGED <<num_sockets, mgr, owned, data_pipe, thrVars, sends, wire>>

AddPipeMaxOut(c, fd) ==
  /\ mgr = "live" /\ ~Busy(c) /\ Unused(fd)
  /\ 2 * Len(pipes_arr) >= max_pipes
  /\ UNCHANGED vars

\* DELETE of a socket or of one of the callers' pipes.
DeleteFd(c, fd) ==
  /\ mgr = "live" /\ ~Busy(c)
  /\ fd \in owned \cap Deletable
  /\ owned' = owned \ {fd}
  /\ Request(c, fd, "DELETE")
  /\ UNCHANGED <<num_sockets, pipes_arr, mgr, data_pipe, thrVars, sends, wire>>

\* g_cond_wait is left without a signal.
SpuriousWakeup(c) ==
  /\ Spurious
  /\ call[c].pc = "waiting"
  /\ call' = [call EXCEPT ![c].pc = "woken"]
  /\ UNCHANGED <<num_sockets, pipes_arr, mgr, owned, pri_pipe, data_pipe,
                 thrVars, sends, wire>>

\* The part after g_cond_wait.  An ADD returns at once ...
ReturnAdd(c) ==
  /\ call[c].pc = "woken" /\ call[c].act = "ADD"
  /\ owned' = owned \cup {call[c].fd}
  /\ call' = [call EXCEPT ![c] = Idle]
  /\ UNCHANGED <<num_sockets, pipes_arr, mgr, pri_pipe, data_pipe, thrVars,
                 sends, wire>>

\* ... the DELETE of a pipe closes it and closes the gap in pipes_arr, at the
\* place found before the wait: only one caller moves pipes, it still holds ...
ReturnDeletePipe(c) ==
  /\ call[c].pc = "woken" /\ call[c].act = "DELETE"
  /\ call[c].fd \in Pipes
  /\ \E i \in DOMAIN pipes_arr :
       pipes_arr[i] = call[c].fd /\ pipes_arr' = RemoveAt(pipes_arr, i)
  /\ call' = [call EXCEPT ![c] = Idle]
  /\ UNCHANGED <<num_sockets, mgr, owned, pri_pipe, data_pipe, thrVars,
                 sends, wire>>

\* ... the DELETE of a socket decrements num_sockets, again without a lock:
\* a load and a store other callers can come between.
LoadCount(c) ==
  /\ call[c].pc = "woken" /\ call[c].act = "DELETE"
  /\ call[c].fd \in Sockets
  /\ call' = [call EXCEPT ![c].pc = "loaded", ![c].reg = num_sockets]
  /\ UNCHANGED <<num_sockets, pipes_arr, mgr, owned, pri_pipe, data_pipe,
                 thrVars, sends, wire>>

StoreCount(c) ==
  /\ call[c].pc = "loaded"
  /\ num_sockets' = Dec(call[c].reg)
  /\ call' = [call EXCEPT ![c] = Idle]
  /\ UNCHANGED <<pipes_arr, mgr, owned, pri_pipe, data_pipe, thrVars,
                 sends, wire>>

\* adp_thr_mgr_free, called by the last user of the manager: DELETE of the
\* primary pipe, join, close of all the pipes.
Free(c) ==
  /\ mgr = "live" /\ \A d \in Callers : ~Busy(d)
  /\ mgr' = "freeing"
  /\ Request(c, PriFd, "DELETE")
  /\ UNCHANGED <<num_sockets, pipes_arr, owned, data_pipe, thrVars, sends, wire>>

ReturnFree(c) ==
  /\ call[c].pc = "woken" /\ call[c].act = "DELETE" /\ call[c].fd = PriFd
  /\ call' = [call EXCEPT ![c].pc = "joining"]
  /\ UNCHANGED <<num_sockets, pipes_arr, mgr, owned, pri_pipe, data_pipe,
                 thrVars, sends, wire>>

Join(c) ==
  /\ call[c].pc = "joining" /\ tpc = "dead"
  /\ call' = [call EXCEPT ![c] = Idle]
  /\ pipes_arr' = <<>>
  /\ mgr' = "freed"
  /\ UNCHANGED <<num_sockets, owned, pri_pipe, data_pipe, thrVars, sends, wire>>

\* Seeded fault: sending begins before the ADD has returned.
SendableEarly(fd) == fd \in owned \cup InCall

\* The senders know the sockets whose ADD returned.
Sendable(fd) == fd \in owned

\* A sender writes a message for an open socket to the data pipe
\* (cc_of_send_pkt); nobody tells it what becomes of the message.
Send(fd) ==
  /\ mgr = "live" /\ Sendable(fd) /\ sends < MaxSends
  /\ sends' = sends + 1
  /\ data_pipe' = Append(data_pipe, [fd |-> fd, n |-> sends + 1])
  /\ UNCHANGED <<mgrVars, pri_pipe, thrVars, wire>>

-----------------------------------------------------------------------------
(* The thread: adp_thr_mgr_poll_thread_func *)

\* What poll() may report for a slot: the administrative pipes from their
\* content, any readiness of a socket or of a callers' pipe.
Reports(s) ==
  {r \in SUBSET s.events :
     /\ s.fd = PriFd => ("IN" \in r <=> pri_pipe # <<>>)
     /\ s.fd = DataFd => ("IN" \in r <=> data_pipe # <<>>)
     /\ "IN" \in r => s.fd \in Readable \cup {PriFd, DataFd}}

\* poll() returns a positive number: revents of the polled slots are written,
\* the slots behind them keep theirs, and the sweep begins.  (A time-out only
\* logs and has no action.)
Poll ==
  /\ tpc = "poll" /\ num_pollfds # 0
  /\ \E rev \in [0 .. num_pollfds - 1 -> SUBSET Events] :
       /\ \A k \in 0 .. num_pollfds - 1 : rev[k] \in Reports(pollfd_arr[k])
       /\ \E k \in 0 .. num_pollfds - 1 : rev[k] # {}
       /\ pollfd_arr' = [k \in Slots |->
                           IF k < num_pollfds
                           THEN [pollfd_arr[k] EXCEPT !.revents = rev[k]]
                           ELSE pollfd_arr[k]]
  /\ tpc' = "sweep" /\ pos' = 1
  /\ UNCHANGED <<mgrVars, pri_pipe, data_pipe, num_pollfds, fd_list,
                 send_msg_htbl, sends, wire>>

\* The loop ends: the private data is freed and a waiter is told.
LeaveLoop ==
  /\ tpc' = "exit"
  /\ fd_list' = <<>>
  /\ send_msg_htbl' = [fd \in Fds |-> NoMsg]
  /\ UNCHANGED <<mgrVars, pri_pipe, data_pipe, num_pollfds, pollfd_arr, pos,
                 sends, wire>>

SelfDestruct == tpc = "poll" /\ num_pollfds = 0 /\ LeaveLoop

PollError == PollErrors /\ tpc = "poll" /\ num_pollfds # 0 /\ LeaveLoop

\* Seeded fault: the sweep goes one entry too far.
AdvanceTooFar ==
  IF pos <= Len(fd_list) THEN pos' = pos + 1 /\ tpc' = "sweep"
                         ELSE pos' = 0 /\ tpc' = "poll"

\* g_list_foreach takes the next entry, or goes back to poll().
Advance ==
  IF pos < Len(fd_list) THEN pos' = pos + 1 /\ tpc' = "sweep"
                        ELSE pos' = 0 /\ tpc' = "poll"

\* The slot the entry at the current position points to, and what
\* poll_fd_process sees in it.
CurEntry == fd_list[pos]
CurSlot == pollfd_arr[CurEntry.slot]
Fires(ev) == ev \in CurSlot.revents /\ ev \in CurSlot.events

\* Seeded fault: the entry points to the slot before its own.
NewEntryOneBefore(fd) == [fd |-> fd, slot |-> num_pollfds - 1]

\* The fd_info of a new descriptor points to the slot that was written.
NewEntry(fd) == [fd |-> fd, slot |-> num_pollfds]

\* pollthr_pri_pipe_process_func, ADD_FD.  revents of the slot is not
\* initialised: it keeps what an earlier user of the slot left, or what
\* malloc returned.
AddFd(fd) ==
  IF fd \in Polled THEN tpc' = "abort_add" /\ UNCHANGED <<num_pollfds, pollfd_arr, fd_list>>
  ELSE IF num_pollfds \notin Slots
       THEN tpc' = "overflow" /\ UNCHANGED <<num_pollfds, pollfd_arr, fd_list>>
  ELSE
    /\ \E left \in IF pollfd_arr[num_pollfds].fd = NoFd
                   THEN SUBSET Events
                   ELSE {pollfd_arr[num_pollfds].revents} :
         pollfd_arr' = [pollfd_arr EXCEPT ![num_pollfds] =
                          [fd |-> fd, events |-> {"IN"}, revents |-> left]]
    /\ fd_list' = Append(fd_list, NewEntry(fd))
    /\ num_pollfds' = num_pollfds + 1
    /\ tpc' = "signal"

\* Seeded fault: the descriptor's entry stays in the list.
DropEntryNot(fd) == UNCHANGED fd_list

\* The descriptor's entry leaves fd_list.
DropEntry(fd) ==
  fd_list' = IF fd \in Polled THEN RemoveAt(fd_list, FirstWith(fd_list, fd))
                              ELSE fd_list

\* Seeded fault: the search leaves out the last slot.
SearchedAllButLast == 1 .. num_pollfds - 2

\* DELETE_FD searches the slots behind the primary pipe's.
Searched == 1 .. num_pollfds - 1

\* DELETE_FD of a descriptor other than the administrative pipes: the slots
\* behind it move down, the entries that point to them are not told.
RemoveFd(fd) ==
  /\ tpc' = "signal"
  /\ IF \E k \in Searched : pollfd_arr[k].fd = fd
     THEN \E k \in Searched :
            /\ pollfd_arr[k].fd = fd
            /\ \A j \in 1 .. k - 1 : pollfd_arr[j].fd # fd
            /\ pollfd_arr' = ShiftDown(pollfd_arr, num_pollfds, k)
            /\ num_pollfds' = num_pollfds - 1
            /\ DropEntry(fd)
     ELSE UNCHANGED <<num_pollfds, pollfd_arr, fd_list>>

\* The primary pipe's callback, up to the signal.
PriPipe ==
  /\ tpc = "sweep" /\ CurEntry.fd = PriFd /\ Fires("IN") /\ pri_pipe # <<>>
  /\ pri_pipe' = Tail(pri_pipe)
  /\ LET msg == Head(pri_pipe) IN
     \/ msg.act = "ADD" /\ AddFd(msg.fd) /\ UNCHANGED pos
     \/ /\ msg.act = "DELETE"
        /\ msg.fd \in {pollfd_arr[0].fd, pollfd_arr[1].fd}
        /\ num_pollfds' = 0
        /\ Advance                        \* returns without a signal
        /\ UNCHANGED <<pollfd_arr, fd_list>>
     \/ /\ msg.act = "DELETE"
        /\ msg.fd \notin {pollfd_arr[0].fd, pollfd_arr[1].fd}
        /\ RemoveFd(msg.fd) /\ UNCHANGED pos
  /\ UNCHANGED <<mgrVars, data_pipe, send_msg_htbl, sends, wire>>

\* Seeded fault: the signal is missing.
WakeNobody == UNCHANGED call

\* g_cond_signal unblocks at least one of the waiters.
WakeSome ==
  \/ Waiting = {} /\ UNCHANGED call
  \/ \E W \in SUBSET Waiting :
       /\ W # {}
       /\ call' = [c \in Callers |-> IF c \in W
                                     THEN [call[c] EXCEPT !.pc = "woken"]
                                     ELSE call[c]]

\* The end of the primary pipe's callback: lock, signal, unlock.
Signal ==
  /\ tpc = "signal"
  /\ WakeSome
  /\ Advance
  /\ UNCHANGED <<num_sockets, pipes_arr, mgr, owned, pri_pipe, data_pipe,
                 num_pollfds, pollfd_arr, fd_list, send_msg_htbl, sends, wire>>

\* The end of the thread: the same signal.
Exit ==
  /\ tpc = "exit"
  /\ WakeSome
  /\ tpc' = "dead"
  /\ UNCHANGED <<num_sockets, pipes_arr, mgr, owned, pri_pipe, data_pipe,
                 num_pollfds, pollfd_arr, fd_list, send_msg_htbl, pos, sends,
                 wire>>

\* Seeded fault: the buffer is read from its end.
NextMessageLast == Last(data_pipe)

\* The message the callback handles.
NextMessage == Head(data_pipe)

\* Seeded fault: POLLOUT is not requested.
ArmNot(fd) == UNCHANGED pollfd_arr

\* POLLOUT is requested on the slot the entry of fd points to.
Arm(fd) ==
  pollfd_arr' = [pollfd_arr EXCEPT
    ![fd_list[FirstWith(fd_list, fd)].slot].events = @ \cup {"OUT"}]

\* The data pipe's callback: one read takes every message that fits the
\* buffer, the first is stored under its descriptor (replacing one that is
\* already there) and POLLOUT is requested.
DataPipe ==
  /\ tpc = "sweep" /\ CurEntry.fd = DataFd /\ Fires("IN") /\ data_pipe # <<>>
  /\ data_pipe' = SubSeq(data_pipe, MsgsPerRead + 1, Len(data_pipe))
  /\ LET msg == NextMessage IN
       /\ send_msg_htbl' = [send_msg_htbl EXCEPT ![msg.fd] = msg.n]
       /\ \/ /\ msg.fd \in Polled
             /\ Arm(msg.fd)
             /\ Advance
          \/ /\ msg.fd \notin Polled        \* g_assert(rdfd_info_list != NULL)
             /\ tpc' = "abort_data"
             /\ UNCHANGED <<pollfd_arr, pos>>
  /\ UNCHANGED <<mgrVars, pri_pipe, num_pollfds, fd_list, sends, wire>>

\* poll_fd_process on any other entry, or on an administrative pipe that has
\* nothing: pollin_func, which runs the network services, changes nothing here.
PollinOnly ==
  /\ tpc = "sweep"
  /\ CurEntry.fd \in {PriFd, DataFd} => ~Fires("IN")
  /\ ~Fires("OUT")
  /\ Advance
  /\ UNCHANGED <<mgrVars, pri_pipe, data_pipe, num_pollfds, pollfd_arr, fd_list,
                 send_msg_htbl, sends, wire>>

\* Seeded fault: any message that waits is taken.
MessageKeyAny ==
  IF \E fd \in Fds : send_msg_htbl[fd] # NoMsg
  THEN CHOOSE fd \in Fds : send_msg_htbl[fd] # NoMsg ELSE CurSlot.fd

\* The key under which the message is looked up.
MessageKey == CurSlot.fd

\* Seeded fault: POLLOUT is not reset.
DisarmNot == UNCHANGED pollfd_arr

\* POLLOUT is reset in the slot the entry points to.
Disarm ==
  pollfd_arr' = [pollfd_arr EXCEPT ![CurEntry.slot].events = @ \ {"OUT"}]

\* poll_fd_process with POLLOUT: the message is looked up under the descriptor
\* in the slot and written by pollout_func to the descriptor of the entry.
Pollout ==
  /\ tpc = "sweep" /\ CurEntry.fd \notin {PriFd, DataFd} /\ Fires("OUT")
  /\ LET key == MessageKey IN
     \/ /\ send_msg_htbl[key] = NoMsg       \* g_assert(send_msg_info != NULL)
        /\ tpc' = "abort_pollout"
        /\ UNCHANGED <<pos, pollfd_arr, send_msg_htbl, wire>>
     \/ /\ send_msg_htbl[key] # NoMsg
        /\ wire' = IF CurEntry.fd \in Sockets \ FailingFds
                   THEN Append(wire, [on |-> CurEntry.fd, fd |-> key,
                                      n |-> send_msg_htbl[key]])
                   ELSE wire
        /\ send_msg_htbl' = [send_msg_htbl EXCEPT ![key] = NoMsg]
        /\ Disarm
        /\ Advance
  /\ UNCHANGED <<mgrVars, pri_pipe, data_pipe, num_pollfds, fd_list, sends>>

-----------------------------------------------------------------------------
Thread == \/ Poll \/ SelfDestruct \/ PollError \/ PriPipe \/ Signal \/ Exit
          \/ DataPipe \/ PollinOnly \/ Pollout

Caller(c) ==
  \/ \E fd \in Sockets : AddSocketCheck(c, fd) \/ AddSocketMaxOut(c, fd)
  \/ AddSocketRequest(c)
  \/ \E fd \in Pipes : AddPipe(c, fd) \/ AddPipeMaxOut(c, fd)
  \/ \E fd \in Deletable : DeleteFd(c, fd)
  \/ SpuriousWakeup(c)
  \/ ReturnAdd(c) \/ ReturnDeletePipe(c) \/ LoadCount(c) \/ StoreCount(c)
  \/ Free(c) \/ ReturnFree(c) \/ Join(c)

Next == Thread \/ (\E c \in Callers : Caller(c)) \/ (\E fd \in Sockets : Send(fd))

Spec == Init /\ [][Next]_vars

\* The poll thread is scheduled; a caller that is inside a call goes on with
\* it.  Nobody has to begin a call.
Goes(c) == \/ AddSocketRequest(c) \/ ReturnAdd(c) \/ ReturnDeletePipe(c)
           \/ LoadCount(c) \/ StoreCount(c) \/ ReturnFree(c) \/ Join(c)
FairSpec == Spec /\ WF_vars(Thread) /\ \A c \in Callers : WF_vars(Goes(c))

\* A socket on which POLLOUT is requested again and again is reported ready
\* at some time: its peer reads.
PollReportsOut(fd) ==
  /\ Poll
  /\ \E k \in 0 .. num_pollfds - 1 :
       pollfd_arr[k].fd = fd /\ "OUT" \in pollfd_arr'[k].revents
FairSendSpec == FairSpec /\ \A fd \in Sockets : SF_vars(PollReportsOut(fd))

-----------------------------------------------------------------------------
(* Properties *)

\* Every variable has its type.
TypeOK ==
  /\ num_sockets \in 0 .. CountMod - 1
  /\ pipes_arr \in Seq(Pipes \cup {PriFd, DataFd})
  /\ mgr \in {"live", "freeing", "freed"}
  /\ call \in [Callers -> Call]
  /\ owned \subseteq Fds
  /\ pri_pipe \in Seq(ThrMsg)
  /\ data_pipe \in Seq(SendMsg)
  /\ num_pollfds \in 0 .. max_pollfds
  /\ pollfd_arr \in [Slots -> Slot]
  /\ fd_list \in Seq(Entry)
  /\ send_msg_htbl \in [Fds -> 1 .. MaxSends \cup {NoMsg}]
  /\ tpc \in {"poll", "sweep", "signal", "exit", "dead", "overflow",
              "abort_add", "abort_data", "abort_pollout"}
  /\ pos \in Nat
  /\ sends \in 0 .. MaxSends
  /\ wire \in Seq([on : Sockets, fd : Fds, n : 1 .. MaxSends])

\* The thread still has its private data; it is not tearing itself down.
HasData == tpc \notin {"exit", "dead"}
Serving == HasData /\ num_pollfds # 0

\* fd_list and the polled part of pollfd_arr hold the same descriptors in the
\* same order, although ADD_FD and DELETE_FD update them separately and the
\* two searches of DELETE_FD are independent.
ListArrayAgree ==
  Serving =>
    /\ Len(fd_list) = num_pollfds
    /\ \A i \in 1 .. Len(fd_list) : pollfd_arr[i - 1].fd = fd_list[i].fd

\* The two administrative pipes stay the first two entries and keep their own
\* slots, whatever is deleted: the requests keep arriving, and the entry that
\* g_list_foreach has already fetched when the primary pipe's callback edits
\* the list is never the one removed.
AdminPipesFirst ==
  HasData =>
    /\ Len(fd_list) >= 2
    /\ fd_list[1] = [fd |-> PriFd, slot |-> 0]
    /\ fd_list[2] = [fd |-> DataFd, slot |-> 1]
    /\ pollfd_arr[0].fd = PriFd /\ pollfd_arr[1].fd = DataFd
    /\ \A i \in 3 .. Len(fd_list) : fd_list[i].slot >= 2

\* An entry that has lost its slot always points behind its own: pollfd_entry_p
\* may be stale, it is never a pointer to an older descriptor's slot.
DriftsForwardOnly ==
  Serving => \A i \in 1 .. Len(fd_list) : fd_list[i].slot >= i - 1

\* A stale entry points to a slot that some descriptor was written to: what
\* poll_fd_process reads through it is old, never uninitialised memory.
PointsToWritten ==
  HasData => \A i \in 1 .. Len(fd_list) : pollfd_arr[fd_list[i].slot].fd # NoFd

\* After the request for self-destruction no other request is handled: the
\* sweep has left the primary pipe, which is in the list once, like every
\* descriptor, and poll() is not called again.  ADD_FD with num_pollfds = 0
\* would write over the primary pipe's slot.
DestructIsLast ==
  HasData =>
    /\ \A i, j \in 1 .. Len(fd_list) : fd_list[i].fd = fd_list[j].fd => i = j
    /\ num_pollfds = 0 /\ tpc = "sweep" => pos >= 2

\* The sweep stays inside fd_list while callbacks append to it and remove
\* from it.
SweepInside ==
  tpc \in {"sweep", "signal"} => pos \in 1 .. Len(fd_list)

\* A descriptor closed by one caller may be handed out again to another while
\* the first request is still queued; the primary pipe's order keeps the
\* assertion of ADD_FD ("check for existing entry") true.
NoDuplicateAdd == tpc # "abort_add"

\* Signals the thread still has to give: one for every queued request, for the
\* one it handles, and for the self-destruction.
Outstanding == Len(pri_pipe) + (IF tpc = "signal" THEN 1 ELSE 0)
                             + (IF num_pollfds = 0 /\ tpc # "dead" THEN 1 ELSE 0)

\* Whoever waits in adp_thr_mgr_add_del_fd has a signal coming: at least as
\* many requests and signals are outstanding as callers wait, so no wake-up
\* is lost although the wait has no predicate.
NoLostWakeup ==
  tpc \in {"poll", "sweep", "signal"} => Cardinality(Waiting) <= Outstanding

\* The messages for one socket leave in the order they were handed over, and
\* none leaves twice, also when descriptors are deleted meanwhile.
OrderedOnce ==
  \A i, j \in 1 .. Len(wire) :
    i < j /\ wire[i].fd = wire[j].fd => wire[i].n < wire[j].n

\* ADD_FD never writes behind the pollfd array that was allocated for
\* max_sockets + max_pipes descriptors; only the manager's counters, kept by
\* other threads, prevent it.
NoOverflow == tpc # "overflow"

\* poll_fd_process "processes the specific event on the correct fd": the slot
\* whose event makes it call an entry's function is the entry's own.
CorrectFd ==
  tpc = "sweep" /\ (Fires("IN") \/ Fires("OUT")) => CurSlot.fd = CurEntry.fd

\* The assertion of poll_fd_process: a socket that is ready for sending has a
\* message waiting.
SendInfoPresent == tpc # "abort_pollout"

\* The assertion of the data pipe's callback: the socket of a message that was
\* handed over while the socket was open is polled.
MessageFdPolled == tpc # "abort_data"

\* A message leaves on the socket it was handed over for.
SentOnOwnSocket == \A i \in 1 .. Len(wire) : wire[i].on = wire[i].fd

\* A message that waits in the hash table is taken out by a POLLOUT, if its
\* socket is reported ready again and again.
HeldIsTaken ==
  \A fd \in Sockets : send_msg_htbl[fd] # NoMsg ~> send_msg_htbl[fd] = NoMsg

-----------------------------------------------------------------------------
(* The manager and its thread implement the registry. *)

AppPolled == Polled \ {PriFd, DataFd}

\* The request of c has not been taken from the primary pipe, or for the
\* self-destruction, the thread still has its tables.
Pending(c) == IF call[c].fd = PriFd THEN HasData
              ELSE Contains(pri_pipe, [fd |-> call[c].fd, act |-> call[c].act])

RegistryReq(c) ==
  IF call[c].pc \in {"idle", "checked"}
  THEN [st |-> "idle", act |-> "CLOSE", fds |-> {}]
  ELSE [st  |-> IF Pending(c) THEN "asked" ELSE "done",
        act |-> IF call[c].fd = PriFd THEN "CLOSE" ELSE call[c].act,
        fds |-> {call[c].fd} \ {PriFd}]

Registry == INSTANCE FdRegistry WITH
              Fds <- Sockets \cup Pipes,
              served <- AppPolled,
              req <- [c \in Callers |-> RegistryReq(c)]

\* Every call takes effect on the set of polled descriptors exactly once,
\* between its beginning and its return, nothing else changes that set, and
\* every call returns.
ImplementsRegistry == Registry!FairSpec

-----------------------------------------------------------------------------
(* Statements of the code and its documents that fail on small instances   *)
(* (README, "Statements the code does not keep").                          *)

\* "The polling thread saves it in its hash table until a POLLOUT signal is
\* received on the specific fd": a message handed over is in the data pipe, in
\* the hash table, or was sent.
NoMessageLost ==
  Serving => \A m \in 1 .. sends :
    \/ \E i \in 1 .. Len(data_pipe) : data_pipe[i].n = m
    \/ \E fd \in Fds : send_msg_htbl[fd] = m
    \/ \E i \in 1 .. Len(wire) : wire[i].n = m

\* When an ADD has returned, the thread polls the descriptor.
SyncAdd == Serving => owned \subseteq Polled
=============================================================================
