------------------------------ MODULE LibLocks ------------------------------
(***************************************************************************)
(* Who waits for whom inside the library.  Every API call and every        *)
(* callback of a poll thread is the sequence of its steps that take a      *)
(* lock, release locks, wait for a poll thread, write to the data pipe or  *)
(* call back into the application (cc_of_lib.c, cc_of_util.c,              *)
(* cc_tcp_conn.c, the receive path of cc_udp_conn.c has the same shape).   *)
(* A thread keeps the rest of its sequence in todo and executes its head;  *)
(* two threads interleave at every step.                                   *)
(*                                                                         *)
(* One device, the listen thread and one read-write thread.  A critical    *)
(* section without any wait inside is one step ("pass").  The data is      *)
(* reduced to what decides an early return: is the device registered,      *)
(* which sockets are in the tables.  oflog_lock is left to LogFile: it is  *)
(* taken last everywhere and nothing is awaited under it.                  *)
(*                                                                         *)
(* "Seeded fault": a wrong version of the definition that follows, used    *)
(* only to see that a property notices.                                    *)
(***************************************************************************)
EXTENDS Naturals, Sequences, FiniteSets, SequencesExt

CONSTANTS
  DevTypes,       \* arguments of cc_of_lib_init to look at
  Apps,           \* threads of the application
  Listener,       \* oflisten_pollthr_p's thread
  Reader,         \* the read-write thread
  Fds,            \* numbers of connected sockets
  CallbackCalls,  \* calls the application makes from inside its callbacks
  PipeCap,        \* messages the data pipe has room for
  MaxCalls,       \* bound: calls of the application in a behaviour
  MaxEvents,      \* bound: connections accepted and messages received
  None

ASSUME LocksAssumption ==
  /\ DevTypes \subseteq {"CONTROLLER", "SWITCH"}
  /\ CallbackCalls \subseteq {"send", "set_real", "destroy"}
  /\ Fds \subseteq Nat
  /\ PipeCap \in Nat \ {0} /\ MaxCalls \in Nat /\ MaxEvents \in Nat
  /\ Listener # Reader /\ Listener \notin Apps /\ Reader \notin Apps
  /\ None \notin Apps \cup Fds \cup {Listener, Reader}

\* The locks, named in the order in which all calls but one take them.
Locks == {"dev", "chan", "rw", "list"}

PollThreads == {Listener, Reader}
Threads == Apps \cup PollThreads

VARIABLES
  ofdev_type, \* set by cc_of_lib_init
  owner,      \* of each lock
  todo,       \* what each thread still has to do before it returns
  call,       \* the call or callback each thread is in
  registered, \* is the device in ofdev_htbl?
  listening,  \* does the listen thread poll the device's socket?
  tabled,     \* sockets in the device's list and in the other two tables
  polled,     \* sockets the read-write thread polls
  pipe,       \* the data pipe: the socket of each message
  held,       \* sockets with a message that waits for POLLOUT
  ended,      \* poll threads that were joined
  freeing,    \* has cc_of_lib_free begun?
  overlapped, \* were two threads of the application in the library at once?
  aborted,    \* an assertion ended the process
  calls, events

vars == <<ofdev_type, owner, todo, call, registered, listening, tabled, polled, pipe,
          held, ended, freeing, overlapped, aborted, calls, events>>
-----------------------------------------------------------------------------
(* Steps and sequences of steps *)

Do(what, arg) == [what |-> what, arg |-> arg]
Lock(l) == Do("lock", l)
Release(ls) == Do("release", ls)
Pass(l) == Do("pass", l)

Three == {"dev", "chan", "rw"}
LockThree == <<Lock("dev"), Lock("chan"), Lock("rw")>>

\* Seeded fault: the tables stay locked until the thread has the socket.
AddSocketLocked(fd) ==
  <<Pass("list")>> \o LockThree \o <<Do("table", fd), Do("add", fd), Release(Three)>>

\* cc_add_sockfd_rw_pollthr_safe: find or create a thread, enter the socket
\* into the tables, have it polled.
AddSocket(fd) ==
  <<Pass("list")>> \o LockThree \o <<Do("table", fd), Release(Three), Do("add", fd)>>

\* tcp_close, with the three locks held by the caller: DELETE, the order of the
\* pool, the tables.
CloseConn(fd) == <<Do("delete", fd), Pass("list"), Do("untable", fd)>>

\* cc_of_dev_register; only a controller listens, and it may fail to.
Register == {<<Lock("dev"), Do("register", None), Release({"dev"})>>
              \o (IF ofdev_type = "CONTROLLER" /\ ok THEN <<Do("listen", None)>> ELSE <<>>) :
               ok \in BOOLEAN}

\* cc_of_dev_free.
DevFree == LockThree \o <<Do("assert", None), Do("walk", None), Do("unlisten", None),
                          Do("unregister", None), Release(Three)>>

\* cc_of_dev_free_lockfree, called with the device lock held.
DevFreeLockfree == <<Lock("chan"), Lock("rw"), Do("assert", None), Do("walk", None),
                     Do("unlisten", None), Release({"chan", "rw"}),
                     Do("unregister", None)>>

\* Seeded fault: the tables are destroyed before the devices.
LibFreeTablesFirst ==
  <<Lock("rw"), Lock("chan"), Do("clear", None), Release({"chan", "rw"}),
    Lock("dev"), Do("devices", None), Release({"dev"}),
    Do("end", Listener), Lock("list"), Do("end", Reader), Release({"list"})>>

\* cc_of_lib_free: the devices, then what is left in the tables (these two
\* locks are taken the other way round), then the threads.
LibFree ==
  <<Lock("dev"), Do("devices", None), Release({"dev"}),
    Lock("rw"), Lock("chan"), Do("clear", None), Release({"chan", "rw"}),
    Do("end", Listener), Lock("list"), Do("end", Reader), Release({"list"})>>

\* cc_of_destroy_channel.
Destroy(fd) ==
  <<Lock("dev"), Lock("chan"), Do("find", fd), Lock("rw"), Do("find", fd)>>
  \o CloseConn(fd) \o <<Release(Three)>>

\* Seeded fault: the lock is not released after the write.
SendKept(fd) == <<Lock("chan"), Do("find", fd), Pass("rw"), Do("put", fd)>>

\* cc_of_send_pkt: the write to the pipe is made with the channel lock.
Send(fd) ==
  <<Lock("chan"), Do("find", fd), Pass("rw"), Do("put", fd), Release({"chan"})>>

\* cc_of_set_real_dpid_auxid.
SetReal == <<Pass("chan")>>

\* process_listenfd_pollin_func and tcp_accept: accept_func is called with the
\* device lock.
Accept(fd) ==
  <<Lock("dev"), Do("finddev", None), Release({"dev"})>> \o AddSocket(fd)
  \o <<Lock("dev"), Do("finddev", None), Do("callback", fd), Release({"dev"}),
       Pass("rw")>>

\* process_tcpfd_pollin_func after the read; process_udpfd_pollin_func:
\* recv_func is called with the three locks.
Receive(fd) == LockThree \o <<Do("find", fd), Do("callback", fd), Release(Three)>>

\* process_tcpfd_pollout_func takes no lock, process_udpfd_pollout_func two.
Pollout == {<<>>, <<Lock("chan"), Pass("rw"), Release({"chan"})>>}

\* What an application may call, with the sequences of the call.
Paths(name, fd) ==
  CASE name = "register" -> Register
    [] name = "dev_free" -> {DevFree}
    [] name = "lib_free" -> {LibFree}
    [] name = "create"   -> {AddSocket(fd)}
    [] name = "destroy"  -> {Destroy(fd)}
    [] name = "send"     -> {Send(fd)}
    [] name = "set_real" -> {SetReal}

TearDown == {"destroy", "dev_free", "lib_free"}
-----------------------------------------------------------------------------
Init ==
  /\ ofdev_type \in DevTypes
  /\ owner = [l \in Locks |-> None]
  /\ todo = [t \in Threads |-> <<>>]
  /\ call = [t \in Threads |-> "idle"]
  /\ registered = FALSE /\ listening = FALSE
  /\ tabled = {} /\ polled = {}
  /\ pipe = <<>> /\ held = {}
  /\ ended = {} /\ freeing = FALSE /\ overlapped = FALSE /\ aborted = FALSE
  /\ calls = 0 /\ events = 0

Idle(t) == todo[t] = <<>>
Serves(t) == Idle(t) /\ t \notin ended

\* The kernel gives a new socket the lowest number that is not in use.
Concerns(step, fd) ==
  /\ step.what \in {"table", "untable", "add", "delete", "find", "put", "callback"}
  /\ step.arg = fd
InUse == tabled \cup polled \cup
         {fd \in Fds : \E t \in Threads : \E i \in DOMAIN todo[t] : Concerns(todo[t][i], fd)}
Fresh(fd) == fd \notin InUse /\ \A e \in Fds : e < fd => e \in InUse

\* An application thread enters the library.  Nothing is called any more once
\* cc_of_lib_free has been; a call that is in progress may still be.  A channel
\* is named when its creation has returned or the application was told of it,
\* which is after the ADD (Channels has the calls that come too early).
Begin(a, name, fd) ==
  /\ ~aborted /\ Idle(a) /\ ~freeing /\ calls < MaxCalls
  /\ CASE name = "register" -> ~registered
       [] name = "dev_free" -> registered
       [] name = "lib_free" -> TRUE
       [] name = "create"   -> ofdev_type = "SWITCH" /\ Fresh(fd)
       [] name = "set_real" -> ofdev_type = "CONTROLLER"
       [] name \in {"destroy", "send"} -> fd \in tabled \cap polled
  /\ \E p \in Paths(name, fd) : todo' = [todo EXCEPT ![a] = p]
  /\ call' = [call EXCEPT ![a] = name]
  /\ freeing' = (name = "lib_free")
  /\ overlapped' = (overlapped \/ \E b \in Apps : ~Idle(b))
  /\ calls' = calls + 1
  /\ UNCHANGED <<ofdev_type, owner, registered, listening, tabled, polled, pipe, held,
                 ended, aborted, events>>

\* A poll thread enters a callback: a connection, a message from a peer.
Event(t, name, path) ==
  /\ ~aborted /\ Serves(t) /\ events < MaxEvents
  /\ todo' = [todo EXCEPT ![t] = path]
  /\ call' = [call EXCEPT ![t] = name]
  /\ events' = events + 1
  /\ UNCHANGED <<ofdev_type, owner, registered, listening, tabled, polled, pipe, held,
                 ended, freeing, overlapped, aborted, calls>>

ListenPollin(fd) == listening /\ Fresh(fd) /\ Event(Listener, "accept", Accept(fd))
RwPollin(fd) == fd \in polled /\ Event(Reader, "receive", Receive(fd))

\* The data pipe's callback takes a message, and asserts that its socket is
\* polled; the message is written when the socket can take it.
TakeMessage ==
  /\ ~aborted /\ Serves(Reader) /\ pipe # <<>>
  /\ pipe' = Tail(pipe) /\ held' = held \cup {Head(pipe)}
  /\ aborted' = (Head(pipe) \notin polled)
  /\ UNCHANGED <<ofdev_type, owner, todo, call, registered, listening, tabled, polled,
                 ended, freeing, overlapped, calls, events>>

RwPollout(fd) ==
  /\ ~aborted /\ Serves(Reader) /\ fd \in held \cap polled
  /\ held' = held \ {fd}
  /\ \E p \in Pollout : todo' = [todo EXCEPT ![Reader] = p]
  /\ call' = [call EXCEPT ![Reader] = "pollout"]
  /\ UNCHANGED <<ofdev_type, owner, registered, listening, tabled, polled, pipe, ended,
                 freeing, overlapped, aborted, calls, events>>
-----------------------------------------------------------------------------
(* The step at the head of todo *)

At(t, what) == ~aborted /\ ~Idle(t) /\ Head(todo[t]).what = what
Arg(t) == Head(todo[t]).arg
Goes(t) == todo' = [todo EXCEPT ![t] = Tail(@)]
data == <<registered, listening, tabled, polled, pipe, held>>
rest == <<ofdev_type, call, ended, freeing, overlapped, calls, events>>

\* g_mutex_lock.
TakeLock(t) ==
  /\ At(t, "lock") /\ owner[Arg(t)] = None
  /\ owner' = [owner EXCEPT ![Arg(t)] = t]
  /\ Goes(t)
  /\ UNCHANGED <<data, rest, aborted>>

PassLock(t) ==
  /\ At(t, "pass") /\ owner[Arg(t)] = None
  /\ Goes(t)
  /\ UNCHANGED <<owner, data, rest, aborted>>

\* g_mutex_unlock, once or in a row.
ReleaseLocks(t) ==
  /\ At(t, "release")
  /\ owner' = [l \in Locks |-> IF l \in Arg(t) THEN None ELSE owner[l]]
  /\ Goes(t)
  /\ UNCHANGED <<data, rest, aborted>>

\* adp_thr_mgr_add_del_fd: the thread answers when it is in no callback.
AskReader(t) ==
  /\ At(t, "add") \/ At(t, "delete")
  /\ Serves(Reader)
  /\ polled' = IF At(t, "add") THEN polled \cup {Arg(t)} ELSE polled \ {Arg(t)}
  /\ Goes(t)
  /\ UNCHANGED <<owner, registered, listening, tabled, pipe, held, rest, aborted>>

AskListener(t) ==
  /\ At(t, "listen") \/ At(t, "unlisten")
  /\ Serves(Listener)
  /\ listening' = At(t, "listen")
  /\ Goes(t)
  /\ UNCHANGED <<owner, registered, tabled, polled, pipe, held, rest, aborted>>

\* adp_thr_mgr_free: the thread ends itself and is joined.
EndThread(t) ==
  /\ At(t, "end") /\ Serves(Arg(t))
  /\ ended' = ended \cup {Arg(t)}
  /\ Goes(t)
  /\ UNCHANGED <<owner, data, ofdev_type, call, freeing, overlapped, calls, events, aborted>>

\* write() to the data pipe blocks when the pipe is full.
Put(t) ==
  /\ At(t, "put") /\ Len(pipe) < PipeCap
  /\ pipe' = Append(pipe, Arg(t))
  /\ Goes(t)
  /\ UNCHANGED <<owner, registered, listening, tabled, polled, held, rest, aborted>>

\* The functions that edit the tables.
EditTables(t) ==
  /\ \/ /\ At(t, "register") \/ At(t, "unregister")
        /\ registered' = At(t, "register")
        /\ UNCHANGED tabled
     \/ /\ At(t, "table") /\ registered
        /\ tabled' = tabled \cup {Arg(t)}
        /\ UNCHANGED registered
     \/ /\ At(t, "untable")
        /\ tabled' = tabled \ {Arg(t)}
        /\ UNCHANGED registered
     \/ /\ At(t, "clear")
        /\ tabled' = {}
        /\ UNCHANGED registered
  /\ Goes(t)
  /\ UNCHANGED <<owner, listening, polled, pipe, held, rest, aborted>>

\* The device is gone: the locks are released, taken again for a clean-up that
\* is refused for its action code, and released.
TableFails(t) ==
  /\ At(t, "table") /\ ~registered
  /\ todo' = [todo EXCEPT ![t] = <<Release(Three)>> \o LockThree \o <<Release(Three)>>]
  /\ UNCHANGED <<owner, data, rest, aborted>>

\* A lookup; the functions that do not find what they look for release their
\* locks and return.
Found(t) == \/ At(t, "find") /\ Arg(t) \in tabled
            \/ At(t, "finddev") /\ registered

Lookup(t) ==
  /\ At(t, "find") \/ At(t, "finddev")
  /\ LET mine == {l \in Locks : owner[l] = t} IN
     todo' = [todo EXCEPT ![t] = IF Found(t) THEN Tail(@) ELSE <<Release(mine)>>]
  /\ UNCHANGED <<owner, data, rest, aborted>>

\* g_assert that the device is registered.
AssertDevice(t) ==
  /\ At(t, "assert")
  /\ aborted' = ~registered
  /\ Goes(t)
  /\ UNCHANGED <<owner, data, rest>>

\* The loops over the sockets of a device and over the devices.
Walk(t) ==
  /\ \/ /\ At(t, "walk") /\ tabled = {}
        /\ Goes(t)
     \/ /\ At(t, "walk")
        /\ \E fd \in tabled : todo' = [todo EXCEPT ![t] = CloseConn(fd) \o @]
     \/ /\ At(t, "devices")
        /\ todo' = [todo EXCEPT ![t] = IF registered THEN DevFreeLockfree \o Tail(@)
                                       ELSE Tail(@)]
  /\ UNCHANGED <<owner, data, rest, aborted>>

\* accept_func and recv_func return, or first call the library.
CallBack(t) ==
  /\ At(t, "callback")
  /\ \/ Goes(t)
     \/ \E name \in CallbackCalls : \E p \in Paths(name, Arg(t)) :
          todo' = [todo EXCEPT ![t] = p \o Tail(@)]
  /\ UNCHANGED <<owner, data, rest, aborted>>

Step(t) == \/ TakeLock(t) \/ PassLock(t) \/ ReleaseLocks(t)
           \/ AskReader(t) \/ AskListener(t) \/ EndThread(t) \/ Put(t)
           \/ EditTables(t) \/ TableFails(t) \/ Lookup(t) \/ AssertDevice(t)
           \/ Walk(t) \/ CallBack(t)

Names == {"register", "dev_free", "lib_free", "create", "destroy", "send", "set_real"}

Inside == TakeMessage \/ \E t \in Threads : Step(t)

Next == \/ \E a \in Apps, name \in Names, fd \in Fds : Begin(a, name, fd)
        \/ \E fd \in Fds : ListenPollin(fd) \/ RwPollin(fd) \/ RwPollout(fd)
        \/ Inside

\* The process does not stop while some thread inside the library, or the
\* read-write thread with a message in its pipe, can move; nobody has to enter
\* the library.  No more is assumed (g_mutex is not fair): the bounds end any
\* competition for a lock.
Spec == Init /\ [][Next]_vars /\ WF_vars(Inside)
-----------------------------------------------------------------------------
(* Waiting *)

\* The thread that has to move before t can: None if t can move itself.
WaitsFor(t) ==
  IF At(t, "lock") \/ At(t, "pass") THEN owner[Arg(t)]
  ELSE IF At(t, "add") \/ At(t, "delete") \/ (At(t, "put") /\ Len(pipe) = PipeCap)
       THEN IF Serves(Reader) THEN None ELSE Reader
  ELSE IF At(t, "listen") \/ At(t, "unlisten")
       THEN IF Serves(Listener) THEN None ELSE Listener
  ELSE IF At(t, "end") THEN IF Serves(Arg(t)) THEN None ELSE Arg(t)
  ELSE None

Holds(t) == {l \in Locks : owner[l] = t}
Waiting == {t \in Threads : WaitsFor(t) # None}

\* A set of threads that wait only for one another, or for threads that ended,
\* and therefore for ever.
Deadlocks ==
  {S \in SUBSET Waiting : /\ S # {}
                          /\ \A t \in S : WaitsFor(t) \in S \cup {e \in ended : Idle(e)}}
Stuck == UNION Deadlocks

\* Tear-down asks a poll thread with table locks held.
AsksLocked(t) == call[t] \in TearDown /\ Holds(t) # {} /\ WaitsFor(t) \in PollThreads
\* cc_of_lib_free has the rw lock and wants the channel lock.
Reversed(t) == call[t] = "lib_free" /\ At(t, "lock") /\ Arg(t) = "chan" /\ "rw" \in Holds(t)
\* The pipe is full and its reader wants a lock.
PipeFull(t) == At(t, "put") /\ Len(pipe) = PipeCap
-----------------------------------------------------------------------------
(* Properties *)

\* Every variable has its type.
TypeOK ==
  /\ owner \in [Locks -> Threads \cup {None}]
  /\ \A t \in Threads : call[t] \in Names \cup {"idle", "accept", "receive", "pollout"}
  /\ registered \in BOOLEAN /\ listening \in BOOLEAN
  /\ tabled \subseteq Fds /\ polled \subseteq Fds /\ held \subseteq Fds
  /\ pipe \in Seq(Fds) /\ Len(pipe) <= PipeCap /\ ended \subseteq PollThreads
  /\ freeing \in BOOLEAN /\ overlapped \in BOOLEAN /\ aborted \in BOOLEAN
  /\ calls \in 0 .. MaxCalls /\ events \in 0 .. MaxEvents

\* Every deadlock of the library is one of five: a tear-down call that awaits a
\* poll thread with locks held, the reversed locks of cc_of_lib_free, a
\* callback that calls back into the library, a full data pipe, or a wait for
\* a thread that cc_of_lib_free has ended.
KnownDeadlocksOnly ==
  \A S \in Deadlocks :
    \E t \in S : \/ AsksLocked(t) \/ Reversed(t) \/ PipeFull(t)
                 \/ WaitsFor(t) = t
                 \/ WaitsFor(t) \in ended

\* The reversed locks of cc_of_lib_free are harmless to an application that
\* makes its calls one at a time: when it comes to them, the devices are gone
\* and no poll thread can be in a callback any more.
FreeAloneOrdered ==
  ~overlapped => \A t \in Stuck : ~Reversed(t)

\* Every call and every callback returns, unless a deadlock stops it: once the
\* application and its peers have had their turns, nobody is left inside.
CallsReturn ==
  <>[](aborted \/ \A t \in Threads : Idle(t) \/ t \in Stuck)
=============================================================================
