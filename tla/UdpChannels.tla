----------------------------- MODULE UdpChannels -----------------------------
(***************************************************************************)
(* The UDP services (cc_udp_conn.c).  A switch has a connected socket per  *)
(* channel.  A controller has one server socket for all its peers: each    *)
(* peer gets a number above every descriptor, the dummy socket, and with   *)
(* it its entries in the tables.  In this commit cc_of_dev_register does   *)
(* not open the server socket (#if 0); the model does what it would do.    *)
(*                                                                         *)
(* One device, one read-write thread.  The three table locks are one, as   *)
(* in Channels; cc_of_set_real_dpid_auxid is left to that module.          *)
(*                                                                         *)
(* "Seeded fault": a wrong version of the definition that follows, used    *)
(* only to see that a property notices.                                    *)
(***************************************************************************)
EXTENDS Naturals, Sequences, FiniteSets, SequencesExt

CONSTANTS
  DevTypes,      \* arguments of cc_of_lib_init to look at
  Apps,          \* threads of the application
  Fds,           \* descriptors
  Ids,           \* keys a switch gives its channels
  Addrs,         \* addresses of peers
  Swap,          \* ntohl and ntohs: the address with its bytes reversed
  MaxOpenFiles,  \* MAX_OPEN_FILES
  MaxDatagrams,  \* bound: datagrams received in a behaviour
  Reader,        \* the read-write thread
  None

\* Sockets and dummy sockets.
Nums == 0 .. MaxOpenFiles + MaxDatagrams
\* On a controller the key of a socket is its number.
Keys == Nums \cup Ids
\* What ofrw_htbl says of a number.
Entry == [state : {"DOWN", "UP"}, client : Addrs \cup {None}, thr : BOOLEAN]
Crashes == {"double free of a key", "ADD of a polled descriptor",
            "message for an unpolled socket"}

ASSUME UdpAssumption ==
  /\ DevTypes \subseteq {"CONTROLLER", "SWITCH"}
  /\ MaxOpenFiles \in Nat /\ MaxDatagrams \in Nat
  /\ Fds \subseteq 0 .. MaxOpenFiles
  /\ Swap \in [Addrs -> Addrs] /\ \A a \in Addrs : Swap[Swap[a]] = a
  /\ Reader \notin Apps
  /\ None \notin Apps \cup Addrs \cup Ids \cup {Reader} \cup Nums
  /\ None \notin Crashes /\ None \notin Entry /\ None \notin Seq(Nums)

VARIABLES
  ofdev_type,
  list,       \* the device's ofrw_socket_list, or None: not registered
  ofrw,       \* ofrw_htbl: state, client_addr and thr_mgr_p of each number
  ofchannel,  \* ofchannel_htbl: the number of each key
  open,       \* open descriptors
  polled,     \* sockets of the read-write thread
  outq,       \* sockets with a message for POLLOUT
  random,     \* the last dummy number given
  lock,       \* holder of the table locks
  app,        \* where each application thread is
  reader,     \* where the read-write thread is: socket, sender, number, new_conn
  told,       \* numbers announced by accept_chann_func
  rcvd,       \* the last call of recv_func
  crash,      \* the assertion or memory error that ended the process
  datagrams

vars == <<ofdev_type, list, ofrw, ofchannel, open, polled, outq, random, lock, app,
          reader, told, rcvd, crash, datagrams>>
tables == <<list, ofrw, ofchannel>>

Thread(pc, fd, key) == [pc |-> pc, fd |-> fd, key |-> key]
Idle == Thread("idle", None, None)
Callback(pc, fd, src) == [pc |-> pc, fd |-> fd, src |-> src, num |-> None, new |-> TRUE]
Polling == Callback("idle", None, None)

\* Seeded fault: the numbers begin where the descriptors do.
FirstDummyZero == 0

\* static uint32_t random = MAX_OPEN_FILES.
FirstDummy == MaxOpenFiles

Init ==
  /\ ofdev_type \in DevTypes
  /\ list = None
  /\ ofrw = [n \in Nums |-> None] /\ ofchannel = [k \in Keys |-> None]
  /\ open = {} /\ polled = {} /\ outq = {}
  /\ random = FirstDummy
  /\ lock = None
  /\ app = [a \in Apps |-> Idle] /\ reader = Polling
  /\ told = {} /\ rcvd = None /\ crash = None
  /\ datagrams = 0

Runs == crash = None
Unlocked == Runs /\ lock = None
Controller == ofdev_type = "CONTROLLER"
KeysOf(n) == {k \in Keys : ofchannel[k] = n}

\* Keys an application knows: of channels it has created or was told of, and on
\* a controller the server socket's, which is its number.
Usable(k) == /\ ofchannel[k] # None /\ ofrw[ofchannel[k]] # None
             /\ ofchannel[k] \in told \cup polled
-----------------------------------------------------------------------------
(* The tables *)

\* atomic_add_upd_htbls_with_rwsocket_lockfree for a registered device.
AddToTables(n, client, thr, key) ==
  /\ ofrw' = [ofrw EXCEPT ![n] = [state |-> "DOWN", client |-> client, thr |-> thr]]
  /\ list' = Append(list, n)
  /\ ofchannel' = [ofchannel EXCEPT ![key] = n]

\* Seeded fault: the device's list is left alone when there is no thread.
UnlistPolled(n) == IF ofrw[n].thr THEN RemoveFirst(list, n) ELSE list

\* del_ofdev_rwsocket_lockfree.
Unlist(n) == RemoveFirst(list, n)

\* Seeded fault: close waits for the thread in any case.
AnswersAlways(n) == reader.pc = "idle"

\* Dummy sockets belong to no thread: there is nothing to delete there.  (The
\* name of the NULL manager is printed before the test; it is the first member,
\* and printf shows "(null)".)
Answers(n) == ofrw[n].thr => reader.pc = "idle"

\* udp_close: the thread, the tables, and close(), which fails for a dummy.
UdpClose(n) ==
  /\ Answers(n)
  /\ polled' = polled \ {n}
  /\ list' = Unlist(n)
  /\ ofrw' = [ofrw EXCEPT ![n] = None]
  /\ ofchannel' = [k \in Keys |-> IF ofchannel[k] = n THEN None ELSE ofchannel[k]]
  /\ open' = open \ {n}
  /\ told' = told \ {n}
-----------------------------------------------------------------------------
(* The application's calls *)

\* cc_of_dev_register, up to the sockets.
Register(a) ==
  /\ Unlocked /\ app[a] = Idle /\ list = None
  /\ list' = <<>>
  /\ UNCHANGED <<ofdev_type, ofrw, ofchannel, open, polled, outq, random, lock, app,
                 reader, told, rcvd, crash, datagrams>>

\* udp_open_serverfd, which cc_of_dev_register would call, and
\* udp_open_clientfd: socket(), bind() and connect().
Open(a, fd, key) ==
  /\ Runs /\ app[a] = Idle /\ fd \notin open
  /\ IF Controller THEN key = fd ELSE key \in Ids
  /\ open' = open \cup {fd}
  /\ app' = [app EXCEPT ![a] = Thread("tables", fd, key)]
  /\ UNCHANGED <<ofdev_type, tables, polled, outq, random, lock, reader, told, rcvd,
                 crash, datagrams>>

\* One of them fails: the socket stays open, known to nobody.
OpenFail(a, fd) ==
  /\ Runs /\ app[a] = Idle /\ fd \notin open
  /\ open' = open \cup {fd}
  /\ UNCHANGED <<ofdev_type, tables, polled, outq, random, lock, app, reader, told,
                 rcvd, crash, datagrams>>

\* cc_add_sockfd_rw_pollthr_safe: client_addr is whatever malloc returned; a
\* key that is in use is freed twice; without the device the socket is closed.
OpenTables(a) ==
  /\ Unlocked /\ app[a].pc = "tables"
  /\ \/ /\ list # None
        /\ \E junk \in Addrs \cup {None} :
             AddToTables(app[a].fd, junk, TRUE, app[a].key)
        /\ crash' = IF ofchannel[app[a].key] = None THEN None ELSE "double free of a key"
        /\ app' = [app EXCEPT ![a].pc = "add"]
        /\ UNCHANGED open
     \/ /\ list = None
        /\ open' = open \ {app[a].fd}
        /\ app' = [app EXCEPT ![a] = Idle]
        /\ UNCHANGED <<tables, crash>>
  /\ UNCHANGED <<ofdev_type, polled, outq, random, lock, reader, told, rcvd, datagrams>>

\* The thread adds the socket, and asserts that it does not have it.
OpenAdd(a) ==
  /\ Runs /\ app[a].pc = "add" /\ reader.pc = "idle"
  /\ polled' = polled \cup {app[a].fd}
  /\ crash' = IF app[a].fd \in polled THEN "ADD of a polled descriptor" ELSE None
  /\ app' = [app EXCEPT ![a] = Idle]
  /\ UNCHANGED <<ofdev_type, tables, open, outq, random, lock, reader, told, rcvd,
                 datagrams>>

\* cc_of_destroy_channel, which closes with the locks held.
Destroy(a, key) ==
  /\ Unlocked /\ app[a] = Idle /\ Usable(key)
  /\ lock' = a
  /\ app' = [app EXCEPT ![a] = Thread("destroy", ofchannel[key], key)]
  /\ UNCHANGED <<ofdev_type, tables, open, polled, outq, random, reader, told, rcvd,
                 crash, datagrams>>

DestroyClose(a) ==
  /\ Runs /\ app[a].pc = "destroy"
  /\ UdpClose(app[a].fd)
  /\ lock' = None
  /\ app' = [app EXCEPT ![a] = Idle]
  /\ UNCHANGED <<ofdev_type, outq, random, reader, rcvd, crash, datagrams>>

\* cc_of_dev_free: "the udp port for this device is also closed by this walk".
DevFree(a) ==
  /\ Unlocked /\ app[a] = Idle /\ list # None
  /\ lock' = a
  /\ app' = [app EXCEPT ![a] = Thread("devfree", None, None)]
  /\ UNCHANGED <<ofdev_type, tables, open, polled, outq, random, reader, told, rcvd,
                 crash, datagrams>>

DevFreeClose(a) ==
  /\ Runs /\ app[a].pc = "devfree" /\ list # <<>>
  /\ ofrw[Head(list)] # None
  /\ UdpClose(Head(list))
  /\ UNCHANGED <<ofdev_type, outq, random, lock, app, reader, rcvd, crash, datagrams>>

DevFreeEnd(a) ==
  /\ Runs /\ app[a].pc = "devfree" /\ list = <<>>
  /\ list' = None
  /\ lock' = None
  /\ app' = [app EXCEPT ![a] = Idle]
  /\ UNCHANGED <<ofdev_type, ofrw, ofchannel, open, polled, outq, random, reader, told,
                 rcvd, crash, datagrams>>

\* cc_of_send_pkt: a number without a thread is refused.
Accepted(key) == Usable(key) /\ ofrw[ofchannel[key]].thr
Send(a, key) ==
  /\ Unlocked /\ app[a] = Idle /\ Accepted(key)
  /\ outq' = outq \cup {ofchannel[key]}
  /\ UNCHANGED <<ofdev_type, tables, open, polled, random, lock, app, reader, told, rcvd,
                 crash, datagrams>>
-----------------------------------------------------------------------------
(* The read-write thread *)

\* The thread takes the message, asserts that it polls the socket, and enters
\* process_udpfd_pollout_func ...
Pollout(fd) ==
  /\ Runs /\ reader.pc = "idle" /\ fd \in outq
  /\ outq' = outq \ {fd}
  /\ reader' = Callback("out", fd, None)
  /\ crash' = IF fd \in polled THEN None ELSE "message for an unpolled socket"
  /\ UNCHANGED <<ofdev_type, tables, open, polled, random, lock, app, told, rcvd,
                 datagrams>>

\* ... which needs the locks whether or not it finds the peer (on a controller
\* the dp_id that it looks for was never written).
PolloutEnd ==
  /\ Unlocked /\ reader.pc = "out"
  /\ reader' = Polling
  /\ UNCHANGED <<ofdev_type, tables, open, polled, outq, random, lock, app, told, rcvd,
                 crash, datagrams>>

\* process_udpfd_pollin_func: recvfrom() before any lock.  addrlen was never
\* set, so the sender may be one that an earlier call left on the stack.
Read(fd, src) ==
  /\ Runs /\ reader.pc = "idle" /\ fd \in polled \cap open
  /\ datagrams < MaxDatagrams
  /\ datagrams' = datagrams + 1
  /\ reader' = Callback("read", fd, src)
  /\ UNCHANGED <<ofdev_type, tables, open, polled, outq, random, lock, app, told, rcvd,
                 crash>>

\* Seeded fault: any peer will do.
MatchesAny(src) == {n \in Nums : ofrw[n] # None /\ ~ofrw[n].thr}

\* "Look up ofrw_htbl to see if this src_addr is an old/new connection": the
\* sender is converted, what is stored is not.
Matches(src) == {n \in Nums : ofrw[n] # None /\ ofrw[n].client = Swap[src]}

Returns == lock' = None /\ reader' = Polling
Goes(pc, num, new) ==
  lock' = Reader /\ reader' = [reader EXCEPT !.pc = pc, !.num = num, !.new = new]

\* With the locks: on a controller an old connection, or a new one that gets
\* the next number; on a switch the socket itself, always as new_conn.
OldPeer ==
  /\ Controller
  /\ \E n \in Matches(reader.src) : Goes("lookup", n, FALSE)
  /\ UNCHANGED <<tables, random>>

NewPeer ==
  /\ Controller /\ Matches(reader.src) = {}
  /\ random' = random + 1
  /\ \/ /\ ofrw[reader.fd] = None \/ list = None
        /\ Returns
        /\ UNCHANGED tables
     \/ /\ ofrw[reader.fd] # None /\ list # None
        /\ AddToTables(random + 1, reader.src, FALSE, random + 1)
        /\ Goes("lookup", random + 1, TRUE)

Peer ==
  /\ ~Controller
  /\ Goes("lookup", reader.fd, TRUE)
  /\ UNCHANGED <<tables, random>>

Classify ==
  /\ Unlocked /\ reader.pc = "read"
  /\ OldPeer \/ NewPeer \/ Peer
  /\ UNCHANGED <<ofdev_type, open, polled, outq, app, told, rcvd, crash, datagrams>>

\* Its key, its entry and its device are looked up.
Known(n) == KeysOf(n) # {} /\ ofrw[n] # None /\ list # None
LookUp ==
  /\ Runs /\ reader.pc = "lookup"
  /\ \/ ~Known(reader.num) /\ Returns
     \/ /\ Known(reader.num)
        /\ Goes(IF reader.new THEN "notify" ELSE "deliver", reader.num, reader.new)
  /\ UNCHANGED <<ofdev_type, tables, open, polled, outq, random, app, told, rcvd, crash,
                 datagrams>>

\* Seeded fault: the locks are released for the callback.
AcceptFuncUnlocked ==
  /\ Runs /\ reader.pc = "notify"
  /\ told' = told \cup {reader.num}
  /\ lock' = None
  /\ reader' = [reader EXCEPT !.pc = "up"]
  /\ UNCHANGED <<ofdev_type, tables, open, polled, outq, random, app, rcvd, crash,
                 datagrams>>

\* accept_chann_func, whatever the type of the device ...
AcceptFunc ==
  /\ Runs /\ reader.pc = "notify"
  /\ told' = told \cup {reader.num}
  /\ Goes(IF Controller THEN "up" ELSE "deliver", reader.num, TRUE)
  /\ UNCHANGED <<ofdev_type, tables, open, polled, outq, random, app, rcvd, crash,
                 datagrams>>

\* ... and the channel of a controller is UP.
Up ==
  /\ Runs /\ reader.pc = "up"
  /\ IF ofrw[reader.num] = None
     THEN Returns /\ UNCHANGED ofrw
     ELSE /\ ofrw' = [ofrw EXCEPT ![reader.num].state = "UP"]
          /\ Goes("deliver", reader.num, TRUE)
  /\ UNCHANGED <<ofdev_type, list, ofchannel, open, polled, outq, random, app, told,
                 rcvd, crash, datagrams>>

\* Seeded fault: the state is not looked at.
ReadyAlways(n) == TRUE

\* A controller wants the channel UP.
Ready(n) == Controller => ofrw[n].state = "UP"

\* recv_func, or the datagram is dropped.  If the entry were gone by now, the
\* function would return with the locks.
Deliver ==
  /\ Runs /\ reader.pc = "deliver"
  /\ LET gone == Controller /\ ofrw[reader.num] = None IN
     /\ IF ~gone /\ Ready(reader.num)
        THEN \E k \in KeysOf(reader.num) :
               rcvd' = [num |-> reader.num, key |-> k, src |-> reader.src]
        ELSE UNCHANGED rcvd
     /\ lock' = IF gone THEN lock ELSE None
     /\ reader' = Polling
  /\ UNCHANGED <<ofdev_type, tables, open, polled, outq, random, app, told, crash,
                 datagrams>>
-----------------------------------------------------------------------------
Begins(a) == \/ Register(a) \/ DevFree(a)
             \/ \E fd \in Fds : OpenFail(a, fd) \/ \E key \in Keys : Open(a, fd, key)
             \/ \E key \in Keys : Destroy(a, key) \/ Send(a, key)
Continues(a) == \/ OpenTables(a) \/ OpenAdd(a) \/ DestroyClose(a)
                \/ DevFreeClose(a) \/ DevFreeEnd(a)
Pollin == Classify \/ LookUp \/ AcceptFunc \/ Up \/ Deliver
Arrives == \E fd \in Fds : Pollout(fd) \/ \E src \in Addrs : Read(fd, src)

Next == \/ \E a \in Apps : Begins(a) \/ Continues(a)
        \/ Arrives \/ PolloutEnd \/ Pollin

\* Threads inside the library are scheduled; nobody has to begin a call.
Spec == /\ Init /\ [][Next]_vars
        /\ \A a \in Apps : WF_vars(Continues(a))
        /\ WF_vars(PolloutEnd \/ Pollin)
-----------------------------------------------------------------------------
(* Properties *)

\* Every variable has its type.
TypeOK ==
  /\ ofdev_type \in DevTypes
  /\ list = None \/ list \in Seq(Nums)
  /\ ofrw \in [Nums -> Entry \cup {None}]
  /\ ofchannel \in [Keys -> Nums \cup {None}]
  /\ open \subseteq Fds /\ polled \subseteq Fds /\ outq \subseteq Fds
  /\ random \in Nums /\ lock \in Apps \cup {Reader, None}
  /\ app \in [Apps -> [pc : {"idle", "tables", "add", "destroy", "devfree"},
                       fd : Nums \cup {None}, key : Keys \cup {None}]]
  /\ reader \in [pc : {"idle", "out", "read", "lookup", "notify", "up", "deliver"},
                 fd : Fds \cup {None}, src : Addrs \cup {None}, num : Nums \cup {None},
                 new : BOOLEAN]
  /\ told \subseteq Nums /\ crash \in Crashes \cup {None}
  /\ datagrams \in 0 .. MaxDatagrams

\* The three tables tell the same story of sockets and dummies, also while the
\* poll thread makes dummies and an application closes them: a number is in the
\* device's list, once, iff it has an entry, and has exactly one key then.
TablesAgree ==
  Runs =>
    /\ list = None => \A n \in Nums : ofrw[n] = None
    /\ list # None => \A n \in Nums : (ofrw[n] # None) <=> Contains(list, n)
    /\ list # None => Cardinality(ToSet(list)) = Len(list)
    /\ \A n \in Nums : Cardinality(KeysOf(n)) = IF ofrw[n] = None THEN 0 ELSE 1

\* The entry that the poll thread has made or found is there when it comes back
\* to it after the accept callback.  The code looks it up again, and its error
\* path at that place returns with the three locks held.
EntryStays == Controller /\ reader.pc = "deliver" => ofrw[reader.num] # None

\* A number that belongs to no thread is nobody's descriptor, although
\* udp_close gives it to close(), and one that belongs to a thread is open.
NumbersApart ==
  \A n \in Nums : ofrw[n] # None => (ofrw[n].thr <=> n \in open)

\* "Drop this pkt as the controller is not ready": data comes only from
\* channels the controller was told of, also when the sender happens to match
\* the entry of the server socket, whose address was never written.
ToldBeforeData ==
  [][Controller /\ rcvd' # rcvd => rcvd'.num \in told /\ ofrw[rcvd'.num] # None]_vars

\* What the lookup may confuse: a channel's data comes from the peer that
\* opened it or from the one whose address and port are the reverse of it.
SenderOrReverse ==
  [][Controller /\ rcvd' # rcvd =>
       rcvd'.src \in {ofrw[rcvd'.num].client, Swap[ofrw[rcvd'.num].client]}]_vars

\* Closing the channel of a dummy comes to an end even while the poll thread
\* waits for the locks, because the thread is not asked (Channels!
\* TeardownReturns is the same for sockets, and fails).
DummyCloseReturns ==
  \A a \in Apps :
    (app[a].pc = "destroy" /\ ~ofrw[app[a].fd].thr) ~> (app[a].pc = "idle" \/ ~Runs)
-----------------------------------------------------------------------------
(* Statements of the documents that fail on small instances (README,       *)
(* "Statements the code does not keep").                                   *)

\* cc_of_lib.h, cc_of_accept_channel: "Not supported for switch device type".
AcceptNotForSwitch == ~Controller => told = {}

\* cc_udp_conn.c: "see if this src_addr is an old/new connection".
OneChannelPerSender ==
  \A m, n \in told : ofrw[m] # None /\ ofrw[n] # None /\ ofrw[m].client = ofrw[n].client
                       => m = n

\* cc_of_lib.h, cc_of_send_pkt: "Send the OF packet to the library to send it
\* to the peering SDN device".
CanAnswer == Controller => \A k \in Keys : ofchannel[k] \in told => Accepted(k)
=============================================================================
