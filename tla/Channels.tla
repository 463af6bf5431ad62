------------------------------ MODULE Channels ------------------------------
(***************************************************************************)
(* The library's devices and TCP channels (cc_of_lib.c, cc_tcp_conn.c, the *)
(* table functions of cc_of_util.c): what the application's threads, the   *)
(* listen poll thread and the read-write poll thread do to the three       *)
(* global hash tables, on a controller and on a switch.                    *)
(*                                                                         *)
(* The locks are always taken in the order device, channel, rw.  Only two  *)
(* operations keep them across a wait, cc_of_destroy_channel and           *)
(* cc_of_dev_free, and both keep all three: one variable says who.  Every  *)
(* other critical section is one action that needs the locks to be free.   *)
(* A poll thread answers a request to add or delete a descriptor only when *)
(* it is not inside a callback.  The pool has one read-write thread        *)
(* (RwPool models more), with room for every socket.                       *)
(*                                                                         *)
(* A call that only returns an error because a key or a device is unknown  *)
(* changes nothing and has no action.                                      *)
(*                                                                         *)
(* "Seeded fault": a wrong version of the definition that follows, used    *)
(* only to see that a property notices.                                    *)
(***************************************************************************)
EXTENDS Naturals, Sequences, FiniteSets, SequencesExt

CONSTANTS
  DevTypes,   \* arguments of cc_of_lib_init to look at
  Apps,       \* threads of the application
  Devs,       \* devices: combinations of addresses and port
  Fds,        \* connected sockets
  Ids,        \* real (DP-ID, Aux-ID) pairs
  Spurious,   \* may the wait for the listen thread end without a signal?
  None        \* absence of an entry, of a holder, of a crash

\* What ofrw_htbl says of a socket.
Entry == [dev : Devs, state : {"DOWN", "UP"}]
Crashes == {"free of a stack address", "use of an uninitialized pointer",
            "use of a freed device", "ADD of a polled descriptor", "double free of a key",
            "more than one device", "message for an unpolled socket"}

ASSUME ChannelsAssumption ==
  /\ DevTypes \subseteq {"CONTROLLER", "SWITCH"} /\ Spurious \in BOOLEAN
  /\ Fds \cap Ids = {}
  /\ None \notin Apps \cup Devs \cup Fds \cup Ids
  /\ None \notin Crashes /\ None \notin Entry /\ None \notin Seq(Fds)

\* Until the real pair is known a controller uses the socket's number as both
\* parts of the pair: the dummy key of fd is fd.
Keys == Fds \cup Ids

VARIABLES
  ofdev_type, \* "CONTROLLER" or "SWITCH"
  ofdev,      \* ofdev_htbl: ofrw_socket_list of each device, or None
  listening,  \* devices whose listen socket is polled
  ofrw,       \* ofrw_htbl: device and state of each socket, or None
  ofchannel,  \* ofchannel_htbl: the socket of each key, or None
  onStack,    \* keys whose entry points into a stack frame that is gone
  open,       \* open sockets
  polled,     \* sockets the read-write thread polls
  outq,       \* sockets with a message in the data pipe
  lock,       \* the application thread that keeps the table locks
  app,        \* where each application thread is
  listener,   \* where the listen thread is
  reader,     \* the socket the read-write thread has read from, or None
  told,       \* sockets announced to the controller since they were opened
  rcvd,       \* the application's last message: its socket and key, or None
  dangling,   \* devices whose table entry was freed and not removed
  crash       \* the assertion or the memory error that ended the process

tables == <<ofdev, ofrw, ofchannel, onStack>>
vars == <<ofdev_type, ofdev, listening, ofrw, ofchannel, onStack, open, polled, outq, lock,
          app, listener, reader, told, rcvd, dangling, crash>>

Thread(pc, dev, fd, key) == [pc |-> pc, dev |-> dev, fd |-> fd, key |-> key]
Idle == Thread("idle", None, None, None)

Init ==
  /\ ofdev_type \in DevTypes
  /\ ofdev = [d \in Devs |-> None]
  /\ listening = {}
  /\ ofrw = [fd \in Fds |-> None]
  /\ ofchannel = [k \in Keys |-> None]
  /\ onStack = {}
  /\ open = {} /\ polled = {} /\ outq = {}
  /\ lock = None
  /\ app = [a \in Apps |-> Idle]
  /\ listener = Idle
  /\ reader = None
  /\ told = {} /\ rcvd = None
  /\ dangling = {} /\ crash = None

\* The process has not crashed; nobody keeps the table locks.
Runs == crash = None
Unlocked == Runs /\ lock = None

Registered(d) == ofdev[d] # None
KeysOf(fd) == {k \in Keys : ofchannel[k] = fd}

\* The keys an application can name: a controller learns of a channel by the
\* accept callback, a switch has chosen the key itself.
Usable(key) == /\ ofchannel[key] # None /\ ofrw[ofchannel[key]] # None
               /\ ofdev_type = "CONTROLLER" => ofchannel[key] \in told

-----------------------------------------------------------------------------
(* The tables *)

\* Seeded fault: a new entry is UP at once.
NewRwUp(d) == [dev |-> d, state |-> "UP"]

\* add_upd_ofrw_rwsocket_lockfree: a new entry is DOWN.
NewRw(d) == [dev |-> d, state |-> "DOWN"]

\* atomic_add_upd_htbls_with_rwsocket_lockfree for a registered device: the
\* socket goes to ofrw_htbl in state DOWN, to the end of the device's list,
\* and under its key to ofchannel_htbl.
AddToTables(d, fd, key) ==
  /\ ofrw' = [ofrw EXCEPT ![fd] = NewRw(d)]
  /\ ofdev' = [ofdev EXCEPT ![d] = Append(@, fd)]
  /\ ofchannel' = [ofchannel EXCEPT ![key] = fd]
  /\ onStack' = onStack \ {key}

\* Seeded fault: the device's list keeps the socket.
UnlistNot(fd) == UNCHANGED ofdev

\* del_ofdev_rwsocket_lockfree.
Unlist(fd) ==
  ofdev' = [ofdev EXCEPT ![ofrw[fd].dev] = IF @ = None THEN @ ELSE RemoveFirst(@, fd)]

\* Seeded fault: the keys keep leading to the socket.
UnkeyNot(fd) == UNCHANGED ofchannel

\* del_ofchann_rwsocket_lockfree.
Unkey(fd) ==
  ofchannel' = [k \in Keys |-> IF ofchannel[k] = fd THEN None ELSE ofchannel[k]]

\* adp_thr_mgr_add_del_fd, DELETE_FD.
Unpoll(fd) == polled' = polled \ {fd}

\* The end of cc_del_sockfd_rw_pollthr_lockfree, and close(): the socket leaves
\* the list of its device, ofrw_htbl, and ofchannel_htbl under all its keys.
\* Removing an entry frees its key, which a stack address does not survive; if
\* the device is unknown, its list is taken from an uninitialized pointer.
DeleteFromTables(fd) ==
  /\ Unlist(fd)
  /\ ofrw' = [ofrw EXCEPT ![fd] = None]
  /\ Unkey(fd)
  /\ open' = open \ {fd}
  /\ Unpoll(fd)
  /\ told' = told \ {fd}
  /\ \/ crash' = IF KeysOf(fd) \cap onStack = {} THEN None ELSE "free of a stack address"
     \/ ~Registered(ofrw[fd].dev) /\ crash' = "use of an uninitialized pointer"
  /\ UNCHANGED onStack

-----------------------------------------------------------------------------
(* cc_of_dev_register *)

\* The device is put into its table ("register once for each combination":
\* again only after a failure) ...
Register(a, d) ==
  /\ app[a].pc = "idle" /\ Unlocked
  /\ ofdev[d] = None \/ d \in dangling \ listening
  /\ ofdev' = [ofdev EXCEPT ![d] = <<>>]
  /\ app' = IF ofdev_type = "CONTROLLER"
            THEN [app EXCEPT ![a] = Thread("listen", d, None, None)] ELSE app
  /\ UNCHANGED <<ofdev_type, listening, ofrw, ofchannel, onStack, open, polled, outq,
                 lock, listener, reader, told, rcvd, dangling, crash>>

\* ... before a controller opens its listen socket and has it polled.
RegisterListen(a) ==
  /\ Runs /\ app[a].pc = "listen" /\ listener.pc = "idle"
  /\ listening' = listening \cup {app[a].dev}
  /\ app' = [app EXCEPT ![a] = Idle]
  /\ UNCHANGED <<ofdev_type, tables, open, polled, outq, lock, listener, reader, told,
                 rcvd, crash, dangling>>

\* The listen socket cannot be opened: key and information are freed, the
\* table keeps them.
RegisterFail(a) ==
  /\ Runs /\ app[a].pc = "listen"
  /\ dangling' = dangling \cup {app[a].dev}
  /\ app' = [app EXCEPT ![a] = Idle]
  /\ UNCHANGED <<ofdev_type, tables, listening, open, polled, outq, lock, listener,
                 reader, told, rcvd, crash>>

\* Freed memory may still hold the entry (then the other actions describe its
\* use) or not: any lookup in ofdev_htbl may crash, and so may whatever comes
\* after the second free of the entry.
UseDangling ==
  /\ dangling # {} /\ Unlocked
  /\ crash' = "use of a freed device"
  /\ UNCHANGED <<ofdev_type, tables, listening, open, polled, outq, lock, app,
                 listener, reader, told, rcvd, dangling>>

-----------------------------------------------------------------------------
(* The listen thread: process_listenfd_pollin_func and tcp_accept *)

\* The device of the listen socket is looked up, the lock released, and the
\* connection accepted.
Accept(d, fd) ==
  /\ listener.pc = "idle" /\ Unlocked
  /\ d \in listening /\ Registered(d) /\ fd \notin open
  /\ open' = open \cup {fd} /\ told' = told \ {fd}
  /\ listener' = Thread("tables", d, fd, fd)
  /\ UNCHANGED <<ofdev_type, tables, listening, polled, outq, lock, app, reader, rcvd,
                 crash, dangling>>

\* cc_add_sockfd_rw_pollthr_safe: the tables, if the device is still there.
AcceptTables ==
  /\ listener.pc = "tables" /\ Unlocked
  /\ \/ /\ Registered(listener.dev)
        /\ AddToTables(listener.dev, listener.fd, listener.key)
        /\ listener' = [listener EXCEPT !.pc = "add"]
        /\ UNCHANGED open
     \/ /\ ~Registered(listener.dev)
        /\ open' = open \ {listener.fd}
        /\ listener' = Idle
        /\ UNCHANGED tables
  /\ UNCHANGED <<ofdev_type, listening, polled, outq, lock, app, reader, told, rcvd,
                 crash, dangling>>

\* The read-write thread adds fd, and asserts that it does not have it.
AddToThread(fd) ==
  /\ reader = None
  /\ polled' = polled \cup {fd}
  /\ crash' = IF fd \in polled THEN "ADD of a polled descriptor" ELSE None

AcceptAdd ==
  /\ Runs /\ listener.pc = "add"
  /\ AddToThread(listener.fd)
  /\ listener' = [listener EXCEPT !.pc = "notify"]
  /\ UNCHANGED <<ofdev_type, tables, listening, open, outq, lock, app, reader, told,
                 rcvd, dangling>>

\* The accept callback, with the device lock held; the device may be gone.
AcceptNotify ==
  /\ listener.pc = "notify" /\ Unlocked
  /\ \/ /\ Registered(listener.dev)
        /\ told' = told \cup {listener.fd}
        /\ listener' = [listener EXCEPT !.pc = "up"]
        /\ UNCHANGED open
     \/ /\ ~Registered(listener.dev)
        /\ open' = open \ {listener.fd}
        /\ listener' = Idle
        /\ UNCHANGED told
  /\ UNCHANGED <<ofdev_type, tables, listening, polled, outq, lock, app, reader, rcvd,
                 crash, dangling>>

\* The socket's state becomes CC_OF_RW_UP, if it still has an entry.
AcceptUp ==
  /\ listener.pc = "up" /\ Unlocked
  /\ ofrw' = IF ofrw[listener.fd] = None THEN ofrw
             ELSE [ofrw EXCEPT ![listener.fd].state = "UP"]
  /\ listener' = Idle
  /\ UNCHANGED <<ofdev_type, ofdev, ofchannel, onStack, listening, open, polled, outq,
                 lock, app, reader, told, rcvd, crash, dangling>>

-----------------------------------------------------------------------------
(* cc_of_create_channel, tcp_open_clientfd: a switch connects *)

\* The socket is connected.
CreateConnect(a, d, fd, key) ==
  /\ Runs /\ ofdev_type = "SWITCH"
  /\ app[a].pc = "idle" /\ fd \notin open
  /\ open' = open \cup {fd}
  /\ app' = [app EXCEPT ![a] = Thread("tables", d, fd, key)]
  /\ UNCHANGED <<ofdev_type, tables, listening, polled, outq, lock, listener, reader,
                 told, rcvd, crash, dangling>>

\* bind() fails, or connect() does not finish at once: the call returns the
\* error and the socket stays open, known to nobody.
CreateConnectFail(a, fd) ==
  /\ Runs /\ ofdev_type = "SWITCH"
  /\ app[a].pc = "idle" /\ fd \notin open
  /\ open' = open \cup {fd}
  /\ UNCHANGED <<ofdev_type, tables, listening, polled, outq, lock, app, listener,
                 reader, told, rcvd, crash, dangling>>

\* A key that is in use already: the entry is replaced, and the new key freed
\* by g_hash_table_insert and again by add_upd_ofchann_rwsocket_lockfree.
CreateTables(a) ==
  /\ app[a].pc = "tables" /\ Unlocked
  /\ LET d == app[a].dev  fd == app[a].fd  key == app[a].key IN
     \/ /\ Registered(d)
        /\ AddToTables(d, fd, key)
        /\ crash' = IF ofchannel[key] = None THEN None ELSE "double free of a key"
        /\ app' = [app EXCEPT ![a].pc = "add"]
        /\ UNCHANGED open
     \/ /\ ~Registered(d)
        /\ open' = open \ {fd}
        /\ app' = [app EXCEPT ![a] = Idle]
        /\ UNCHANGED <<tables, crash>>
  /\ UNCHANGED <<ofdev_type, listening, polled, outq, lock, listener, reader, told,
                 rcvd, dangling>>

CreateAdd(a) ==
  /\ Runs /\ app[a].pc = "add"
  /\ AddToThread(app[a].fd)
  /\ app' = [app EXCEPT ![a] = Idle]
  /\ UNCHANGED <<ofdev_type, tables, listening, open, outq, lock, listener, reader,
                 told, rcvd, dangling>>

-----------------------------------------------------------------------------
(* cc_of_destroy_channel *)

\* The locks are taken, the key and its socket looked up.
Destroy(a, key) ==
  /\ app[a].pc = "idle" /\ Unlocked /\ Usable(key)
  /\ lock' = a
  /\ app' = [app EXCEPT ![a] = Thread("destroy", None, ofchannel[key], key)]
  /\ UNCHANGED <<ofdev_type, tables, listening, open, polled, outq, listener, reader,
                 told, rcvd, crash, dangling>>

\* tcp_close: DELETE is answered by the read-write thread; then the tables,
\* close() and the locks.
DestroyClose(a) ==
  /\ Runs /\ app[a].pc = "destroy" /\ reader = None
  /\ DeleteFromTables(app[a].fd)
  /\ lock' = None
  /\ app' = [app EXCEPT ![a] = Idle]
  /\ UNCHANGED <<ofdev_type, listening, outq, listener, reader, rcvd, dangling>>

-----------------------------------------------------------------------------
(* cc_of_dev_free *)

\* The locks are taken; g_assert that there is one device.
DevFree(a, d) ==
  /\ app[a].pc = "idle" /\ Unlocked /\ Registered(d)
  /\ lock' = a
  /\ app' = [app EXCEPT ![a] = Thread("devfree", d, None, None)]
  /\ crash' = IF \E e \in Devs \ {d} : Registered(e)
              THEN "more than one device" ELSE None
  /\ UNCHANGED <<ofdev_type, tables, listening, open, polled, outq, listener, reader,
                 told, rcvd, dangling>>

\* One round of the walk over the device's sockets.
DevFreeClose(a) ==
  /\ Runs /\ app[a].pc = "devfree" /\ reader = None
  /\ LET list == ofdev[app[a].dev] IN
       /\ list # <<>>
       /\ ofrw[Head(list)] # None
       /\ DeleteFromTables(Head(list))
  /\ UNCHANGED <<ofdev_type, listening, outq, lock, app, listener, reader, rcvd,
                 dangling>>

\* The listen socket is deleted by the listen thread and closed, the device
\* leaves its table, the locks are released.  If the wait ends too early, the
\* listen thread comes to the DELETE when it is done with its callback, before
\* anything else can be added.
DevFreeEnd(a) ==
  /\ Runs /\ app[a].pc = "devfree" /\ ofdev[app[a].dev] = <<>>
  /\ listener.pc = "idle" \/ Spurious
  /\ listening' = listening \ {app[a].dev}
  /\ ofdev' = [ofdev EXCEPT ![app[a].dev] = None]
  /\ lock' = None
  /\ app' = [app EXCEPT ![a] = Idle]
  /\ UNCHANGED <<ofdev_type, ofrw, ofchannel, onStack, open, polled, outq, listener,
                 reader, told, rcvd, crash, dangling>>

-----------------------------------------------------------------------------
(* cc_of_send_pkt, cc_of_set_real_dpid_auxid, process_tcpfd_pollin_func *)

\* With the channel lock: the key's socket gets a message into the data pipe.
\* A key that is not found is tried again with the dp_id as its aux_id, which
\* is the step of the key that is found then.
Send(a, key) ==
  /\ app[a].pc = "idle" /\ Unlocked /\ Usable(key)
  /\ outq' = outq \cup {ofchannel[key]}
  /\ UNCHANGED <<ofdev_type, tables, listening, open, polled, lock, app, listener,
                 reader, told, rcvd, crash, dangling>>

\* The read-write thread takes it, and asserts that it polls the socket.
TakeMessage(fd) ==
  /\ Runs /\ reader = None /\ fd \in outq
  /\ outq' = outq \ {fd}
  /\ crash' = IF fd \in polled THEN None ELSE "message for an unpolled socket"
  /\ UNCHANGED <<ofdev_type, tables, listening, open, polled, lock, app, listener,
                 reader, told, rcvd, dangling>>

\* The entries of the dummy key's socket are removed and one under the real
\* key is inserted whose key and value are locals of the function.  If the
\* real key is in use, the insertion frees the address of the new key.
SetReal(a, fd, id) ==
  /\ ofdev_type = "CONTROLLER"
  /\ app[a].pc = "idle" /\ Unlocked
  /\ ofchannel[fd] # None /\ ofchannel[fd] \in told
  /\ LET removed == KeysOf(fd)
         left == [k \in Keys |-> IF k \in removed THEN None ELSE ofchannel[k]] IN
       /\ ofchannel' = [left EXCEPT ![id] = ofchannel[fd]]
       /\ onStack' = (onStack \ removed) \cup {id}
       /\ crash' = IF removed \cap onStack # {} \/ left[id] # None
                   THEN "free of a stack address" ELSE None
  /\ UNCHANGED <<ofdev_type, ofdev, ofrw, listening, open, polled, outq, lock, app,
                 listener, reader, told, rcvd, dangling>>

\* The frame of an entry that lies on the stack is used by somebody else: the
\* entry shows another socket, or none that is known.
Overwrite(k) ==
  /\ Runs /\ k \in onStack
  /\ \E v \in Fds \cup {None} : ofchannel' = [ofchannel EXCEPT ![k] = v]
  /\ UNCHANGED <<ofdev_type, ofdev, ofrw, onStack, listening, open, polled, outq, lock,
                 app, listener, reader, told, rcvd, crash, dangling>>

\* The read-write thread reads from a socket, before it takes the locks ...
Read(fd) ==
  /\ Runs /\ reader = None /\ fd \in polled \cap open
  /\ reader' = fd
  /\ UNCHANGED <<ofdev_type, tables, listening, open, polled, outq, lock, app,
                 listener, told, rcvd, crash, dangling>>

\* ... and with the locks looks up the key, the state and the device of the
\* socket; recv_func is called, or the data dropped.
Deliverable(fd) ==
  /\ KeysOf(fd) # {} /\ ofrw[fd] # None
  /\ ofdev_type = "CONTROLLER" => ofrw[fd].state = "UP"
  /\ Registered(ofrw[fd].dev)

Receive ==
  /\ reader # None /\ Unlocked
  /\ \/ /\ Deliverable(reader)
        /\ \E k \in KeysOf(reader) : rcvd' = [fd |-> reader, key |-> k]
     \/ /\ ~Deliverable(reader)
        /\ UNCHANGED rcvd
  /\ reader' = None
  /\ UNCHANGED <<ofdev_type, tables, listening, open, polled, outq, lock, app,
                 listener, told, crash, dangling>>

-----------------------------------------------------------------------------
Listener == \/ \E d \in Devs, fd \in Fds : Accept(d, fd)
            \/ AcceptTables \/ AcceptAdd \/ AcceptNotify \/ AcceptUp
Reader == Receive \/ \E fd \in Fds : Read(fd) \/ TakeMessage(fd)
Begins(a) ==
  \/ \E d \in Devs : Register(a, d) \/ DevFree(a, d)
  \/ \E d \in Devs, fd \in Fds, key \in Ids : CreateConnect(a, d, fd, key)
  \/ \E fd \in Fds : CreateConnectFail(a, fd)
  \/ \E key \in Keys : Destroy(a, key) \/ Send(a, key)
  \/ \E fd \in Fds, id \in Ids : SetReal(a, fd, id)
Goes(a) == \/ RegisterListen(a) \/ RegisterFail(a)
           \/ CreateTables(a) \/ CreateAdd(a)
           \/ DestroyClose(a) \/ DevFreeClose(a) \/ DevFreeEnd(a)

Next == \/ Listener \/ Reader \/ UseDangling
        \/ \E a \in Apps : Begins(a) \/ Goes(a)
        \/ \E k \in Keys : Overwrite(k)

Spec == Init /\ [][Next]_vars

\* The poll threads are scheduled, and an application thread inside the
\* library goes on; nobody has to begin a call.
FairSpec == /\ Spec
            /\ WF_vars(Listener)
            /\ WF_vars(Receive)
            /\ \A a \in Apps : WF_vars(Goes(a))
-----------------------------------------------------------------------------
(* Properties *)

ThreadState == [pc : {"idle", "listen", "tables", "add", "notify", "up",
                      "destroy", "devfree"},
                dev : Devs \cup {None}, fd : Fds \cup {None}, key : Keys \cup {None}]

\* Every variable has its type.
TypeOK ==
  /\ ofdev_type \in DevTypes
  /\ ofdev \in [Devs -> Seq(Fds) \cup {None}]
  /\ listening \subseteq Devs /\ dangling \subseteq Devs
  /\ ofrw \in [Fds -> Entry \cup {None}]
  /\ ofchannel \in [Keys -> Fds \cup {None}]
  /\ onStack \subseteq Keys
  /\ open \subseteq Fds /\ polled \subseteq Fds /\ outq \subseteq Fds /\ told \subseteq Fds
  /\ lock \in Apps \cup {None}
  /\ app \in [Apps -> ThreadState]
  /\ listener \in ThreadState
  /\ reader \in Fds \cup {None}
  /\ rcvd = None \/ rcvd \in [fd : Fds, key : Keys]
  /\ crash \in Crashes \cup {None}

\* ofdev_htbl and ofrw_htbl tell the same story, also inside the long
\* operations: a socket is in the list of exactly the device its entry names,
\* once.  cc_of_dev_free relies on it: a socket in the list without an entry
\* makes its loop spin for ever.  Nothing is claimed once a registration has
\* failed: its freed entry stays, and registering again drops its list.
RwDevAgree ==
  crash = None /\ dangling = {} =>
    /\ \A d \in Devs : Registered(d) =>
         \A i \in 1 .. Len(ofdev[d]) :
           /\ ofrw[ofdev[d][i]] # None /\ ofrw[ofdev[d][i]].dev = d
           /\ \A j \in 1 .. Len(ofdev[d]) : ofdev[d][i] = ofdev[d][j] => i = j
    /\ \A fd \in Fds : ofrw[fd] # None =>
         Registered(ofrw[fd].dev) /\ Contains(ofdev[ofrw[fd].dev], fd)

\* "Drop this pkt as the controller is not ready to recv mesgs on this channel
\* yet": the application hears from a channel only after it was told of it,
\* although three threads handle the socket in between.
ToldBeforeData ==
  [][ofdev_type = "CONTROLLER" /\ rcvd' # rcvd /\ rcvd' # None
       => rcvd'.fd \in told /\ rcvd'.fd \in open]_vars

\* "Each socket is uniquely mapped to its Aux-ID and DP-ID pair": on a switch, a
\* socket that has an entry in ofrw_htbl has exactly one key, and a key leads
\* to a socket that has an entry.  (On a controller the entry under the real
\* pair lies in a dead stack frame.)
OneKeyPerSocket ==
  crash = None /\ ofdev_type = "SWITCH" =>
                  /\ \A fd \in Fds : ofrw[fd] # None => Cardinality(KeysOf(fd)) = 1
                  /\ \A k \in Keys : ofchannel[k] # None => ofrw[ofchannel[k]] # None

\* cc_of_destroy_channel "brings down the OF connection" and returns.
TeardownReturns ==
  \A a \in Apps : app[a].pc = "destroy" ~> app[a].pc = "idle"

-----------------------------------------------------------------------------
(* Statements of the code and its documents that fail on small instances   *)
(* (README, "Statements the code does not keep").                          *)

\* The assertion of ADD_FD ("check for existing entry").
NoDuplicateAdd == crash # "ADD of a polled descriptor"

\* A key of ofchannel_htbl is freed once, by the table.
KeyFreedOnce == crash # "double free of a key"

\* The assertion of the data pipe's callback: a message that cc_of_send_pkt
\* accepted is for a polled socket.
AcceptedForPolled == crash # "message for an unpolled socket"

\* cc_of_dev_free "releases the specific device registration".
ReleasesOneOfMany == crash # "more than one device"
=============================================================================
