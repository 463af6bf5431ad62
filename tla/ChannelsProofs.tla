--------------------------- MODULE ChannelsProofs ---------------------------
(***************************************************************************)
(* Theorems about Channels, for any number of application threads, devices,*)
(* sockets and keys, on a controller and on a switch.                      *)
(***************************************************************************)
EXTENDS Channels, TLAPS, SequenceTheorems, FiniteSetTheorems, ListLemmas

-----------------------------------------------------------------------------
(* The inductive invariant *)

Controller == ofdev_type = "CONTROLLER"
Has(d, fd) == Registered(d) /\ Contains(ofdev[d], fd)

\* Only a controller listens, accepts, and learns real keys; only a switch
\* connects.
Roles ==
  /\ Controller => \A a \in Apps : app[a].pc \notin {"tables", "add"}
  /\ ~Controller => /\ listening = {} /\ dangling = {} /\ onStack = {}
                    /\ listener.pc = "idle"
                    /\ \A a \in Apps : app[a].pc # "listen"

\* A device's list holds open sockets that name the device, each once; as long
\* as no registration has failed it holds all of them.
Lists ==
  /\ \A d \in Devs : Registered(d) => Distinct(ofdev[d])
  /\ \A d \in Devs, fd \in Fds :
       Has(d, fd) => ofrw[fd] # None /\ ofrw[fd].dev = d /\ fd \in open
  /\ dangling = {} => \A d \in Devs, fd \in Fds :
                        ofrw[fd] # None /\ ofrw[fd].dev = d => Has(d, fd)

\* What a thread of the application has in hand.
CallersOK ==
  \A a \in Apps :
    /\ app[a].pc = "listen" => app[a].dev \in Devs
    /\ app[a].pc \in {"tables", "add"} =>
         app[a].dev \in Devs /\ app[a].fd \in Fds /\ app[a].key \in Ids
    /\ app[a].pc = "tables" =>
         /\ app[a].fd \in open /\ ofrw[app[a].fd] = None
         /\ \A b \in Apps : app[b].pc = "tables" /\ app[b].fd = app[a].fd => b = a
    /\ app[a].pc = "destroy" =>
         /\ lock = a /\ app[a].fd \in Fds /\ ofrw[app[a].fd] # None
         /\ Controller => app[a].fd \in told
    /\ app[a].pc = "devfree" => lock = a /\ app[a].dev \in Devs /\ Registered(app[a].dev)

\* What the listen thread has in hand.  Its socket may be closed under it by
\* cc_of_dev_free, and its device may go and come back; but no entry of the
\* socket is UP before the listen thread has announced it.
ListenerOK ==
  listener.pc # "idle" =>
    /\ listener.pc \in {"tables", "add", "notify", "up"}
    /\ listener.dev \in Devs /\ listener.fd \in Fds /\ listener.key = listener.fd
    /\ listener.pc = "tables" =>
         listener.fd \in open /\ \A d \in Devs : ~Has(d, listener.fd)
    /\ listener.pc # "up" => listener.fd \notin told
    /\ ofrw[listener.fd] # None =>
         /\ ofrw[listener.fd].state = "DOWN"
         /\ listener.pc # "tables" =>
              ofrw[listener.fd].dev = listener.dev /\ listener.fd \in open
         /\ listener.pc = "up" => listener.fd \in told

\* On a controller a socket that is UP was announced and is open.
UpTold ==
  Controller => \A fd \in Fds : ofrw[fd] # None /\ ofrw[fd].state = "UP" =>
                  fd \in told /\ fd \in open

\* OneKeyPerSocket without cardinalities.
SwitchKeys ==
  ~Controller =>
    /\ \A fd \in Fds : ofrw[fd] = None => \A k \in Keys : ofchannel[k] # fd
    /\ \A fd \in Fds : ofrw[fd] # None =>
         \E k \in Keys : \A j \in Keys : ofchannel[j] = fd <=> j = k

Good == Roles /\ Lists /\ CallersOK /\ ListenerOK /\ UpTold /\ SwitchKeys

Inv == TypeOK /\ (Runs => Good)

\* None is none of the values it stands for.
LEMMA Constants ==
  /\ None \notin Apps /\ None \notin Devs /\ None \notin Fds /\ None \notin Keys
  /\ None \notin Entry /\ None \notin Seq(Fds) /\ None \notin Crashes
  /\ Fds \subseteq Keys /\ Ids \subseteq Keys
  /\ DevTypes \subseteq {"CONTROLLER", "SWITCH"}
BY ChannelsAssumption DEF Keys

\* Nothing is registered, open or polled.
LEMMA InitInv == Init => Inv
<1> SUFFICES ASSUME Init PROVE Inv
  OBVIOUS
<1> USE DEF Idle, Thread
<1>1. TypeOK
  BY Constants DEF Init, TypeOK, ThreadState
<1>2. Roles /\ CallersOK /\ ListenerOK /\ UpTold
  BY DEF Init, Roles, CallersOK, ListenerOK, UpTold
<1>3. Lists
  BY DEF Init, Lists, Has, Registered
<1>4. SwitchKeys
  BY Constants DEF Init, SwitchKeys
<1> QED BY <1>1, <1>2, <1>3, <1>4 DEF Inv, Good

-----------------------------------------------------------------------------
(* The two operations on the tables *)

\* A socket that is in no list goes to the list of a registered device.
LEMMA AddKeepsLists ==
  ASSUME TypeOK, Lists, NEW d \in Devs, Registered(d), NEW fd \in Fds, fd \in open,
         \A e \in Devs : ~Has(e, fd), NEW key \in Keys, AddToTables(d, fd, key),
         UNCHANGED <<open, dangling>>
  PROVE  /\ Lists'
         /\ ofdev' \in [Devs -> Seq(Fds) \cup {None}]
         /\ ofrw' \in [Fds -> Entry \cup {None}]
         /\ ofchannel' \in [Keys -> Fds \cup {None}] /\ onStack' \subseteq Keys
         /\ \A e \in Devs : Registered(e)' <=> Registered(e)
         /\ ofrw'[fd] # None /\ ofrw'[fd].dev = d /\ ofrw'[fd].state = "DOWN"
         /\ \A g \in Fds : g # fd => ofrw'[g] = ofrw[g]
<1>1. ofdev[d] \in Seq(Fds) /\ Distinct(ofdev[d]) /\ ~Contains(ofdev[d], fd)
  BY DEF TypeOK, Registered, Lists, Has
<1> DEFINE l == Append(ofdev[d], fd)
<1>2. l \in Seq(Fds) /\ Distinct(l) /\ \A x : Contains(l, x) <=> Contains(ofdev[d], x) \/ x = fd
  BY <1>1, AppendDistinct, AppendProperties
<1>3. /\ ofdev' = [ofdev EXCEPT ![d] = l]
      /\ ofrw' = [ofrw EXCEPT ![fd] = NewRw(d)]
      /\ ofchannel' = [ofchannel EXCEPT ![key] = fd]
      /\ onStack' = onStack \ {key}
  BY DEF AddToTables, TypeOK
<1> HIDE DEF l
<1>4. /\ ofdev' \in [Devs -> Seq(Fds) \cup {None}] /\ l # None
      /\ ofdev'[d] = l /\ \A e \in Devs : e # d => ofdev'[e] = ofdev[e]
      /\ ofchannel' \in [Keys -> Fds \cup {None}] /\ onStack' \subseteq Keys
  BY <1>2, <1>3, Constants DEF TypeOK
<1>5. NewRw(d) \in Entry /\ NewRw(d).dev = d /\ NewRw(d).state = "DOWN"
  BY DEF NewRw, Entry
<1>6. /\ ofrw' \in [Fds -> Entry \cup {None}]
      /\ ofrw'[fd] = NewRw(d) /\ ofrw'[fd] # None
      /\ \A g \in Fds : g # fd => ofrw'[g] = ofrw[g]
  BY <1>3, <1>5, Constants DEF TypeOK
<1>7. \A e \in Devs : Registered(e)' <=> Registered(e)
  BY <1>4 DEF Registered
<1>8. \A e \in Devs, g \in Fds : Has(e, g)' <=> Has(e, g) \/ (e = d /\ g = fd)
  BY <1>2, <1>4, <1>7 DEF Has
<1>9. \A e \in Devs : Registered(e)' => Distinct(ofdev'[e])
  BY <1>2, <1>4, <1>7 DEF Lists
<1>10. \A e \in Devs, g \in Fds : Has(e, g)' => ofrw'[g] # None /\ ofrw'[g].dev = e /\ g \in open'
  BY <1>5, <1>6, <1>8 DEF Lists
<1>11. dangling' = {} => \A e \in Devs, g \in Fds :
         ofrw'[g] # None /\ ofrw'[g].dev = e => Has(e, g)'
  BY <1>5, <1>6, <1>8 DEF Lists
<1> QED BY <1>4, <1>5, <1>6, <1>7, <1>9, <1>10, <1>11 DEF Lists

\* A socket leaves the tables and is closed.
LEMMA DeleteKeepsLists ==
  ASSUME TypeOK, Lists, NEW fd \in Fds, ofrw[fd] # None, DeleteFromTables(fd),
         UNCHANGED dangling
  PROVE  /\ Lists'
         /\ ofdev' \in [Devs -> Seq(Fds) \cup {None}]
         /\ ofrw' \in [Fds -> Entry \cup {None}]
         /\ ofchannel' \in [Keys -> Fds \cup {None}] /\ crash' \in Crashes \cup {None}
         /\ \A e \in Devs : Registered(e)' <=> Registered(e)
         /\ \A e \in Devs, g \in Fds : Has(e, g)' => Has(e, g)
         /\ ofrw'[fd] = None /\ \A g \in Fds : g # fd => ofrw'[g] = ofrw[g]
         /\ \A k \in Keys : ofchannel'[k] = IF ofchannel[k] = fd THEN None ELSE ofchannel[k]
<1> DEFINE d == ofrw[fd].dev
           l == IF ofdev[d] = None THEN None ELSE RemoveFirst(ofdev[d], fd)
<1>1. d \in Devs
  BY DEF TypeOK, Entry
<1>2. /\ ofdev' = [ofdev EXCEPT ![d] = l]
      /\ ofrw' = [ofrw EXCEPT ![fd] = None]
      /\ ofchannel' = [k \in Keys |-> IF ofchannel[k] = fd THEN None ELSE ofchannel[k]]
      /\ open' = open \ {fd}
  BY <1>1 DEF DeleteFromTables, Unlist, Unkey, TypeOK
<1>3. Registered(d) => /\ l \in Seq(Fds) /\ Distinct(l)
                       /\ \A x : Contains(l, x) <=> Contains(ofdev[d], x) /\ x # fd
  <2> SUFFICES ASSUME Registered(d)
               PROVE  /\ l \in Seq(Fds) /\ Distinct(l)
                      /\ \A x : Contains(l, x) <=> Contains(ofdev[d], x) /\ x # fd
    OBVIOUS
  <2>1. ofdev[d] \in Seq(Fds) /\ Distinct(ofdev[d]) /\ l = RemoveFirst(ofdev[d], fd)
    BY <1>1 DEF TypeOK, Registered, Lists
  <2> HIDE DEF l, d
  <2> QED BY <2>1, RemoveFirstDistinct
<1>4. ~Registered(d) => l = None
  BY DEF Registered
<1>5. \A g \in Fds : \A e \in Devs : Has(e, g) /\ g = fd => e = d
  BY DEF Lists
<1>6. crash' \in Crashes \cup {None}
  BY DEF DeleteFromTables, Crashes
<1> HIDE DEF d, l
<1>8. /\ ofdev' \in [Devs -> Seq(Fds) \cup {None}] /\ (Registered(d) => l # None)
      /\ ofdev'[d] = l /\ \A e \in Devs : e # d => ofdev'[e] = ofdev[e]
  BY <1>1, <1>2, <1>3, <1>4, Constants DEF TypeOK
<1>9. /\ ofrw' \in [Fds -> Entry \cup {None}] /\ ofrw'[fd] = None
      /\ \A g \in Fds : g # fd => ofrw'[g] = ofrw[g]
  BY <1>2 DEF TypeOK
<1>10. /\ ofchannel' \in [Keys -> Fds \cup {None}]
       /\ \A k \in Keys : ofchannel'[k] = IF ofchannel[k] = fd THEN None ELSE ofchannel[k]
  BY <1>2 DEF TypeOK
<1>11. \A e \in Devs : Registered(e)' <=> Registered(e)
  BY <1>1, <1>4, <1>8 DEF Registered
<1>12. \A e \in Devs, g \in Fds : Has(e, g)' <=> Has(e, g) /\ g # fd
  BY <1>1, <1>3, <1>5, <1>8, <1>11 DEF Has
<1>13. \A e \in Devs : Registered(e)' => Distinct(ofdev'[e])
  BY <1>3, <1>8, <1>11 DEF Lists
<1>14. \A e \in Devs, g \in Fds : Has(e, g)' => ofrw'[g] # None /\ ofrw'[g].dev = e /\ g \in open'
  BY <1>2, <1>9, <1>12 DEF Lists
<1>15. dangling' = {} => \A e \in Devs, g \in Fds :
         ofrw'[g] # None /\ ofrw'[g].dev = e => Has(e, g)'
  BY <1>9, <1>12 DEF Lists
<1> QED BY <1>6, <1>8, <1>9, <1>10, <1>11, <1>12, <1>13, <1>14, <1>15 DEF Lists

-----------------------------------------------------------------------------
(* The steps that leave the tables alone *)

\* They keep what is said of the lists, if they close no socket that is in one.
LEMMA SameLists ==
  ASSUME Lists, UNCHANGED <<ofdev, ofrw>>, dangling \subseteq dangling',
         \A d \in Devs, fd \in Fds : Has(d, fd) => fd \in open'
  PROVE  Lists'
<1>1. \A d \in Devs, fd \in Fds : Has(d, fd)' <=> Has(d, fd)
  BY DEF Has, Registered
<1> QED BY <1>1 DEF Lists, Registered

\* They keep what is said of a switch's keys.
LEMMA SameKeys ==
  ASSUME SwitchKeys, UNCHANGED <<ofdev_type, ofchannel>>,
         \A fd \in Fds : ofrw'[fd] = None <=> ofrw[fd] = None
  PROVE  SwitchKeys'
BY DEF SwitchKeys, Controller

\* The threads of the application begin a call.
LEMMA CallSteps ==
  ASSUME Inv, NEW a \in Apps,
         \/ \E d \in Devs : DevFree(a, d)
         \/ \E fd \in Fds : CreateConnectFail(a, fd)
         \/ \E d \in Devs, fd \in Fds, key \in Ids : CreateConnect(a, d, fd, key)
         \/ \E key \in Keys : Destroy(a, key) \/ Send(a, key)
  PROVE  Inv'
<1> USE Constants DEF Inv, Good, Thread, ThreadState, Controller, Registered
<1>1. /\ UNCHANGED <<ofdev_type, ofdev, ofrw, ofchannel, onStack, dangling, listening>>
      /\ open \subseteq open' /\ Runs /\ Good
  BY DEF CreateConnectFail, CreateConnect, Destroy, Send, DevFree, Unlocked, tables
<1>2. SwitchKeys'
  BY <1>1, SameKeys
<1>3. Lists'
  BY <1>1, SameLists DEF Lists
<1>4. ASSUME NEW d \in Devs, DevFree(a, d) PROVE Inv'
  <2>1. TypeOK'
    BY <1>4 DEF DevFree, tables, TypeOK, Crashes
  <2>2. /\ app[a].pc = "idle" /\ lock = None /\ ofdev[d] # None /\ lock' = a
        /\ app' = [app EXCEPT ![a] = Thread("devfree", d, None, None)]
        /\ UNCHANGED <<open, told, listener>>
    BY <1>4 DEF DevFree, Unlocked
  <2>3. Roles' /\ UpTold'
    BY <1>1, <2>2 DEF Roles, UpTold, TypeOK
  <2>4. CallersOK'
    BY <1>1, <2>2 DEF CallersOK, TypeOK
  <2>5. ListenerOK'
    BY <1>1, <2>2 DEF ListenerOK, Has
  <2> QED BY <1>2, <1>3, <2>1, <2>3, <2>4, <2>5
<1>5. ASSUME NEW fd \in Fds, CreateConnectFail(a, fd) PROVE Inv'
  <2>1. TypeOK'
    BY <1>5 DEF CreateConnectFail, tables, TypeOK
  <2>2. Roles' /\ UpTold' /\ CallersOK'
    BY <1>1, <1>5 DEF CreateConnectFail, Roles, UpTold, CallersOK
  <2>3. ListenerOK'
    BY <1>1, <1>5 DEF CreateConnectFail, ListenerOK, Has
  <2> QED BY <1>2, <1>3, <2>1, <2>2, <2>3
<1>6. ASSUME NEW d \in Devs, NEW fd \in Fds, NEW key \in Ids, CreateConnect(a, d, fd, key)
      PROVE  Inv'
  <2>1. TypeOK'
    BY <1>6 DEF CreateConnect, tables, TypeOK
  <2>2. Roles' /\ UpTold'
    BY <1>1, <1>6 DEF CreateConnect, Roles, UpTold, TypeOK
  <2>3. ofrw[fd] = None
    <3>1. ofdev_type = "SWITCH" /\ fd \notin open
      BY <1>6 DEF CreateConnect
    <3>2. dangling = {}
      BY <1>1, <3>1 DEF Roles
    <3> QED BY <1>1, <3>1, <3>2 DEF Lists, TypeOK, Entry
  <2>4. CallersOK'
    BY <1>1, <1>6, <2>3 DEF CreateConnect, CallersOK, TypeOK
  <2>5. ListenerOK'
    BY <1>1, <1>6 DEF CreateConnect, ListenerOK, Has
  <2> QED BY <1>2, <1>3, <2>1, <2>2, <2>4, <2>5
<1>7. ASSUME NEW key \in Keys, Destroy(a, key) PROVE Inv'
  <2>1. TypeOK'
    BY <1>7 DEF Destroy, tables, TypeOK, Usable
  <2>2. Roles' /\ UpTold'
    BY <1>1, <1>7 DEF Destroy, Roles, UpTold, TypeOK
  <2>3. CallersOK'
    BY <1>1, <1>7 DEF Destroy, Unlocked, Usable, CallersOK, TypeOK
  <2>4. ListenerOK'
    BY <1>1, <1>7 DEF Destroy, ListenerOK, Has
  <2> QED BY <1>2, <1>3, <2>1, <2>2, <2>3, <2>4
<1>8. ASSUME NEW key \in Keys, Send(a, key) PROVE Inv'
  <2>1. TypeOK'
    BY <1>8 DEF Send, tables, TypeOK, Usable
  <2>2. Roles' /\ UpTold' /\ CallersOK'
    BY <1>1, <1>8 DEF Send, Roles, UpTold, CallersOK
  <2>3. ListenerOK'
    BY <1>1, <1>8 DEF Send, ListenerOK, Has
  <2> QED BY <1>2, <1>3, <2>1, <2>2, <2>3
<1> QED BY <1>4, <1>5, <1>6, <1>7, <1>8

\* The threads of the application go on.
LEMMA GoSteps ==
  ASSUME Inv, NEW a \in Apps, RegisterListen(a) \/ RegisterFail(a) \/ CreateAdd(a)
  PROVE  Inv'
<1> USE Constants DEF Inv, Good, Idle, Thread, ThreadState, Controller, Registered
<1>1. /\ UNCHANGED <<ofdev_type, ofdev, ofrw, ofchannel, onStack, open, told, lock, listener>>
      /\ Runs /\ Good /\ app' = [app EXCEPT ![a] = Idle] /\ dangling \subseteq dangling'
      /\ UNCHANGED <<outq, reader, rcvd>>
  BY DEF RegisterListen, RegisterFail, CreateAdd, tables
<1>2. SwitchKeys'
  BY <1>1, SameKeys
<1>3. Lists'
  BY <1>1, SameLists DEF Lists
<1>4. UpTold' /\ ListenerOK'
  BY <1>1 DEF UpTold, ListenerOK, Has
<1>5. CallersOK'
  BY <1>1 DEF CallersOK, TypeOK
<1>6. CASE RegisterListen(a)
  <2>1. app[a].dev \in Devs /\ ofdev_type = "CONTROLLER"
    BY <1>1, <1>6 DEF RegisterListen, CallersOK, Roles
  <2>2. TypeOK'
    BY <1>1, <1>6, <2>1 DEF RegisterListen, TypeOK
  <2>3. Roles'
    BY <1>1, <1>6, <2>1 DEF RegisterListen, Roles, TypeOK
  <2> QED BY <1>2, <1>3, <1>4, <1>5, <2>2, <2>3
<1>7. CASE RegisterFail(a)
  <2>1. app[a].dev \in Devs /\ ofdev_type = "CONTROLLER"
    BY <1>1, <1>7 DEF RegisterFail, CallersOK, Roles
  <2>2. TypeOK'
    BY <1>1, <1>7, <2>1 DEF RegisterFail, TypeOK
  <2>3. Roles'
    BY <1>1, <1>7, <2>1 DEF RegisterFail, Roles, TypeOK
  <2> QED BY <1>2, <1>3, <1>4, <1>5, <2>2, <2>3
<1>8. CASE CreateAdd(a)
  <2>1. app[a].fd \in Fds
    BY <1>1, <1>8 DEF CreateAdd, CallersOK
  <2>2. TypeOK'
    <3>1. /\ crash' \in Crashes \cup {None} /\ polled' = polled \cup {app[a].fd}
          /\ UNCHANGED <<listening, dangling>>
      BY <1>8 DEF CreateAdd, AddToThread, Crashes
    <3> QED BY <1>1, <2>1, <3>1 DEF TypeOK
  <2>3. Roles'
    BY <1>1, <1>8 DEF CreateAdd, Roles, TypeOK
  <2> QED BY <1>2, <1>3, <1>4, <1>5, <2>2, <2>3
<1> QED BY <1>6, <1>7, <1>8

\* The listen thread, where it leaves the tables alone.
LEMMA ListenerSteps ==
  ASSUME Inv, \/ \E d \in Devs, fd \in Fds : Accept(d, fd)
              \/ AcceptAdd \/ AcceptNotify
  PROVE  Inv'
<1> USE Constants DEF Inv, Good, Idle, Thread, ThreadState, Controller, Registered
<1>1. /\ UNCHANGED <<ofdev_type, ofdev, ofrw, ofchannel, onStack, listening, lock, app>>
      /\ UNCHANGED <<outq, reader, rcvd, dangling>> /\ Runs /\ Good
  BY DEF Accept, AcceptAdd, AcceptNotify, Unlocked, tables
<1>2. SwitchKeys'
  BY <1>1, SameKeys
<1>3. ASSUME NEW d \in Devs, NEW fd \in Fds, Accept(d, fd) PROVE Inv'
  <2>1. ofdev_type = "CONTROLLER" /\ fd \notin open /\ lock = None
    BY <1>1, <1>3 DEF Accept, Roles, Unlocked
  <2>2. TypeOK'
    BY <1>1, <1>3 DEF Accept, TypeOK
  <2>3. Lists'
    BY <1>1, <1>3, SameLists DEF Accept, Lists
  <2>4. UpTold'
    BY <1>1, <1>3, <2>1 DEF Accept, UpTold
  <2>5. Roles'
    BY <1>1, <1>3, <2>1 DEF Accept, Roles
  <2>6. CallersOK'
    BY <1>1, <1>3, <2>1 DEF Accept, CallersOK, Roles
  <2>7. ListenerOK'
    <3>1. ofrw[fd] # None => ofrw[fd].state = "DOWN"
      BY <1>1, <2>1 DEF UpTold, TypeOK, Entry
    <3>2. \A e \in Devs : ~Has(e, fd)
      BY <1>1, <2>1 DEF Lists
    <3>3. \A e \in Devs : ~Has(e, fd)'
      BY <1>1, <3>2 DEF Has
    <3>4. /\ listener'.pc = "tables" /\ listener'.dev = d /\ listener'.fd = fd
          /\ listener'.key = fd /\ fd \in open' /\ fd \notin told'
      BY <1>3 DEF Accept
    <3> QED BY <1>1, <3>1, <3>3, <3>4 DEF ListenerOK, Has
  <2> QED BY <1>2, <2>2, <2>3, <2>4, <2>5, <2>6, <2>7
<1>4. CASE AcceptAdd
  <2>1. listener.fd \in Fds /\ UNCHANGED <<open, told>> /\ ofdev_type = "CONTROLLER"
    BY <1>1, <1>4 DEF AcceptAdd, ListenerOK, Roles
  <2>2. TypeOK'
    BY <1>1, <1>4, <2>1, ZenonT(60) DEF AcceptAdd, AddToThread, Crashes, TypeOK
  <2>3. Lists'
    BY <1>1, <2>1, SameLists DEF Lists
  <2>4. UpTold' /\ CallersOK'
    BY <1>1, <2>1 DEF UpTold, CallersOK
  <2>5. Roles'
    BY <1>1, <2>1 DEF Roles
  <2>6. listener.pc = "add" /\ listener' = [listener EXCEPT !.pc = "notify"]
    BY <1>4 DEF AcceptAdd
  <2>7. /\ listener'.pc = "notify" /\ listener'.dev = listener.dev
        /\ listener'.fd = listener.fd /\ listener'.key = listener.key
    BY <2>6 DEF TypeOK
  <2>8. ListenerOK'
    BY <1>1, <2>1, <2>6, <2>7 DEF ListenerOK
  <2> QED BY <1>2, <2>2, <2>3, <2>4, <2>5, <2>8
<1>5. CASE AcceptNotify
  <2>1. /\ listener.fd \in Fds /\ ofdev_type = "CONTROLLER" /\ lock = None
        /\ listener.dev \in Devs /\ listener.pc = "notify"
    BY <1>1, <1>5 DEF AcceptNotify, ListenerOK, Roles, Unlocked
  <2>2. CASE Registered(listener.dev)
    <3>1. /\ told' = told \cup {listener.fd} /\ listener' = [listener EXCEPT !.pc = "up"]
          /\ open' = open /\ UNCHANGED <<polled, crash>>
      BY <1>5, <2>2 DEF AcceptNotify
    <3>2. TypeOK'
      BY <1>1, <2>1, <3>1 DEF TypeOK
    <3>3. Lists'
      BY <1>1, <3>1, SameLists DEF Lists
    <3>4. UpTold' /\ CallersOK'
      BY <1>1, <3>1 DEF UpTold, CallersOK
    <3>5. Roles'
      BY <1>1, <2>1 DEF Roles
    <3>6. /\ listener'.pc = "up" /\ listener'.dev = listener.dev
          /\ listener'.fd = listener.fd /\ listener'.key = listener.key
      BY <3>1 DEF TypeOK
    <3>7. ListenerOK'
      BY <1>1, <2>1, <3>1, <3>6 DEF ListenerOK
    <3> QED BY <1>2, <3>2, <3>3, <3>4, <3>5, <3>7
  <2>3. CASE ~Registered(listener.dev)
    <3>1. /\ told' = told /\ listener' = Idle
          /\ open' = open \ {listener.fd} /\ UNCHANGED <<polled, crash>>
      BY <1>5, <2>3 DEF AcceptNotify
    <3>2. TypeOK'
      BY <1>1, <2>1, <3>1 DEF TypeOK
    <3>3. \A d \in Devs : ~Has(d, listener.fd)
      BY <1>1, <2>1, <2>3 DEF Lists, ListenerOK, Has
    <3>4. Lists'
      BY <1>1, <3>1, <3>3, SameLists DEF Lists
    <3>5. UpTold' /\ CallersOK'
      BY <1>1, <2>1, <3>1 DEF UpTold, CallersOK, ListenerOK, Roles
    <3>6. Roles'
      BY <1>1, <2>1 DEF Roles
    <3>7. ListenerOK'
      BY <3>1 DEF ListenerOK
    <3> QED BY <1>2, <3>2, <3>4, <3>5, <3>6, <3>7
  <2> QED BY <2>2, <2>3
<1> QED BY <1>3, <1>4, <1>5

\* The read-write thread, the use of a freed device entry, and what a
\* controller does to its keys.
LEMMA OtherSteps ==
  ASSUME Inv, \/ UseDangling \/ Receive
              \/ \E fd \in Fds : Read(fd) \/ TakeMessage(fd)
              \/ \E k \in Keys : Overwrite(k)
              \/ \E a \in Apps, fd \in Fds, id \in Ids : SetReal(a, fd, id)
  PROVE  Inv'
<1> USE Constants DEF Inv, Good, Controller
<1>1. /\ UNCHANGED <<ofdev_type, ofdev, ofrw, open, listening, lock, app, listener, told, dangling>>
      /\ UNCHANGED polled /\ Runs /\ Good
  BY DEF UseDangling, Receive, Read, TakeMessage, Overwrite, SetReal, Unlocked, tables
<1>2. ofdev_type # "CONTROLLER" => UNCHANGED <<ofchannel, onStack>>
  BY <1>1 DEF UseDangling, Receive, Read, TakeMessage, Overwrite, SetReal, tables, Roles
<1>3. SwitchKeys'
  BY <1>1, <1>2, SameKeys DEF SwitchKeys
<1>4. Lists'
  BY <1>1, SameLists DEF Lists
<1>5. Roles' /\ UpTold' /\ CallersOK' /\ ListenerOK'
  BY <1>1, <1>2 DEF Roles, UpTold, CallersOK, ListenerOK, Has, Registered
<1>6. TypeOK'
  <2>1. CASE UseDangling
    BY <1>1, <2>1 DEF UseDangling, tables, TypeOK, Crashes
  <2>2. CASE Receive
    BY <1>1, <2>2 DEF Receive, KeysOf, tables, TypeOK
  <2>3. ASSUME NEW fd \in Fds, Read(fd) PROVE TypeOK'
    BY <1>1, <2>3 DEF Read, tables, TypeOK
  <2>4. ASSUME NEW fd \in Fds, TakeMessage(fd) PROVE TypeOK'
    BY <1>1, <2>4 DEF TakeMessage, tables, TypeOK, Crashes
  <2>5. ASSUME NEW k \in Keys, Overwrite(k) PROVE TypeOK'
    BY <1>1, <2>5 DEF Overwrite, TypeOK
  <2>6. ASSUME NEW a \in Apps, NEW fd \in Fds, NEW id \in Ids, SetReal(a, fd, id) PROVE TypeOK'
    <3> DEFINE left == [k \in Keys |-> IF k \in KeysOf(fd) THEN None ELSE ofchannel[k]]
    <3>1. /\ ofchannel' = [left EXCEPT ![id] = ofchannel[fd]] /\ ofchannel[fd] # None
          /\ onStack' = (onStack \ KeysOf(fd)) \cup {id} /\ crash' \in Crashes \cup {None}
          /\ UNCHANGED <<outq, reader, rcvd>>
      BY <2>6 DEF SetReal, Crashes
    <3>2. left \in [Keys -> Fds \cup {None}] /\ ofchannel[fd] \in Fds
      BY <3>1 DEF TypeOK
    <3> HIDE DEF left
    <3> QED BY <1>1, <3>1, <3>2 DEF TypeOK
  <2> QED BY <2>1, <2>2, <2>3, <2>4, <2>5, <2>6
<1> QED BY <1>3, <1>4, <1>5, <1>6

-----------------------------------------------------------------------------
(* The steps that change the tables *)

\* cc_of_dev_register and the end of cc_of_dev_free.
LEMMA DeviceSteps ==
  ASSUME Inv, NEW a \in Apps, DevFreeEnd(a) \/ \E d \in Devs : Register(a, d)
  PROVE  Inv'
<1> USE Constants DEF Inv, Good, Idle, Thread, ThreadState, Controller
<1>1. /\ UNCHANGED <<ofdev_type, ofrw, ofchannel, onStack, open, polled, outq, listener, reader>>
      /\ UNCHANGED <<told, rcvd, crash, dangling>> /\ Runs /\ Good
  BY DEF DevFreeEnd, Register, Unlocked
<1>2. SwitchKeys' /\ UpTold'
  BY <1>1, SameKeys DEF UpTold
<1>3. ASSUME NEW d \in Devs, Register(a, d) PROVE Inv'
  <2> DEFINE e == <<>>
  <2>1. e \in Seq(Fds) /\ Len(e) = 0
    OBVIOUS
  <2>2. ofdev' = [ofdev EXCEPT ![d] = e] /\ UNCHANGED <<lock, listening>> /\ lock = None
    BY <1>3 DEF Register, Unlocked
  <2> HIDE DEF e
  <2>3. Distinct(e) /\ \A x : ~Contains(e, x)
    BY <2>1 DEF Distinct, Contains
  <2>4. /\ ofdev' \in [Devs -> Seq(Fds) \cup {None}]
        /\ ofdev'[d] = e /\ e # None /\ \A f \in Devs : f # d => ofdev'[f] = ofdev[f]
    BY <2>1, <2>2 DEF TypeOK
  <2>5. \A f \in Devs, g \in Fds : Has(f, g)' <=> Has(f, g) /\ f # d
    BY <2>3, <2>4 DEF Has, Registered
  <2>6. dangling = {} => \A g \in Fds : ~Has(d, g)
    BY <1>3 DEF Register, Has, Registered
  <2>7. Lists'
    BY <1>1, <2>3, <2>4, <2>5, <2>6 DEF Lists, Registered
  <2>8. ListenerOK'
    BY <1>1, <2>5 DEF ListenerOK
  <2>9. \/ app' = app
        \/ /\ app' = [app EXCEPT ![a] = Thread("listen", d, None, None)]
           /\ ofdev_type = "CONTROLLER"
    BY <1>3 DEF Register
  <2>10. TypeOK'
    BY <1>1, <2>2, <2>4, <2>9 DEF TypeOK
  <2>11. Roles'
    BY <1>1, <2>2, <2>9 DEF Roles, TypeOK
  <2>12. CallersOK'
    BY <1>1, <2>2, <2>9 DEF CallersOK, TypeOK
  <2> QED BY <1>2, <2>7, <2>8, <2>10, <2>11, <2>12
<1>4. CASE DevFreeEnd(a)
  <2> DEFINE d == app[a].dev
  <2>1. /\ lock = a /\ d \in Devs /\ lock' = None
        /\ ofdev[d] = <<>> /\ ofdev' = [ofdev EXCEPT ![d] = None]
        /\ listening' \subseteq listening /\ app' = [app EXCEPT ![a] = Idle]
    BY <1>1, <1>4 DEF DevFreeEnd, CallersOK
  <2>2. \A x : ~Contains(ofdev[d], x)
    <3>1. Len(ofdev[d]) = 0
      BY <2>1
    <3> QED BY <3>1 DEF Contains
  <2> HIDE DEF d
  <2>3. /\ ofdev' \in [Devs -> Seq(Fds) \cup {None}]
        /\ ofdev'[d] = None /\ \A f \in Devs : f # d => ofdev'[f] = ofdev[f]
    BY <2>1 DEF TypeOK
  <2>4. \A f \in Devs, g \in Fds : Has(f, g)' <=> Has(f, g)
    BY <2>2, <2>3 DEF Has, Registered
  <2>5. Lists'
    BY <1>1, <2>3, <2>4 DEF Lists, Registered
  <2>6. ListenerOK'
    BY <1>1, <2>4 DEF ListenerOK
  <2>7. TypeOK'
    BY <1>1, <2>1, <2>3 DEF TypeOK
  <2>8. Roles'
    BY <1>1, <2>1 DEF Roles, TypeOK
  <2>9. CallersOK'
    BY <1>1, <2>1 DEF CallersOK, TypeOK
  <2> QED BY <1>2, <2>5, <2>6, <2>7, <2>8, <2>9
<1> QED BY <1>3, <1>4

\* An accepted socket goes to the tables, and its state becomes UP.
LEMMA AcceptSteps ==
  ASSUME Inv, AcceptTables \/ AcceptUp
  PROVE  Inv'
<1> USE Constants DEF Inv, Good, Idle, Thread, ThreadState, Controller
<1> DEFINE d == listener.dev
           fd == listener.fd
<1>1. /\ Runs /\ Good /\ lock = None /\ ofdev_type = "CONTROLLER" /\ listener.pc \in {"tables", "up"}
      /\ d \in Devs /\ fd \in Fds /\ fd \in Keys /\ listener.key = fd
      /\ UNCHANGED <<ofdev_type, listening, polled, outq, lock, app, reader, told, rcvd, crash,
                     dangling>>
  BY DEF AcceptTables, AcceptUp, Unlocked, ListenerOK, Roles
<1>2. SwitchKeys'
  BY <1>1 DEF SwitchKeys
<1>3. /\ \A a \in Apps : app[a].pc \notin {"tables", "add", "destroy", "devfree"}
      /\ CallersOK'
  BY <1>1 DEF CallersOK, Roles
<1>4. CASE AcceptTables /\ Registered(d)
  <2>1. /\ AddToTables(d, fd, fd) /\ listener' = [listener EXCEPT !.pc = "add"] /\ open' = open
        /\ listener.pc = "tables"
    BY <1>1, <1>4 DEF AcceptTables
  <2>2. /\ fd \in open /\ fd \notin told /\ \A e \in Devs : ~Has(e, fd)
    BY <1>1, <2>1 DEF ListenerOK
  <2>3. /\ listener'.pc = "add" /\ listener'.dev = d /\ listener'.fd = fd /\ listener'.key = fd
        /\ listener' \in ThreadState
    BY <1>1, <2>1 DEF TypeOK
  <2> HIDE DEF d, fd
  <2>4. /\ Lists'
        /\ ofdev' \in [Devs -> Seq(Fds) \cup {None}]
        /\ ofrw' \in [Fds -> Entry \cup {None}]
        /\ ofchannel' \in [Keys -> Fds \cup {None}] /\ onStack' \subseteq Keys
        /\ ofrw'[fd] # None /\ ofrw'[fd].dev = d /\ ofrw'[fd].state = "DOWN"
        /\ \A g \in Fds : g # fd => ofrw'[g] = ofrw[g]
    BY <1>1, <1>4, <2>1, <2>2, AddKeepsLists
  <2>5. TypeOK'
    BY <1>1, <2>1, <2>3, <2>4 DEF TypeOK
  <2>6. Roles'
    BY <1>1 DEF Roles
  <2>7. UpTold'
    BY <1>1, <2>1, <2>4 DEF UpTold
  <2>8. ListenerOK'
    BY <1>1, <2>1, <2>2, <2>3, <2>4 DEF ListenerOK
  <2> QED BY <1>2, <1>3, <2>4, <2>5, <2>6, <2>7, <2>8
<1>5. CASE AcceptTables /\ ~Registered(d)
  <2>1. /\ open' = open \ {fd} /\ listener' = Idle /\ listener.pc = "tables"
        /\ UNCHANGED <<ofdev, ofrw, ofchannel, onStack>>
    BY <1>1, <1>5 DEF AcceptTables, tables
  <2>2. Lists'
    BY <1>1, <2>1, SameLists DEF Lists, ListenerOK
  <2>3. UpTold'
    BY <1>1, <2>1 DEF UpTold, ListenerOK
  <2>4. Roles' /\ ListenerOK'
    BY <1>1, <2>1 DEF Roles, ListenerOK
  <2>5. TypeOK'
    BY <1>1, <2>1 DEF TypeOK
  <2> QED BY <1>2, <1>3, <2>2, <2>3, <2>4, <2>5
<1>6. CASE AcceptUp
  <2>1. /\ listener' = Idle /\ listener.pc = "up" /\ UNCHANGED <<open, ofdev, ofchannel, onStack>>
        /\ ofrw' = IF ofrw[fd] = None THEN ofrw ELSE [ofrw EXCEPT ![fd].state = "UP"]
        /\ ofrw[fd] # None => fd \in told /\ fd \in open
    BY <1>1, <1>6 DEF AcceptUp, ListenerOK
  <2> HIDE DEF fd, d
  <2>2. /\ ofrw' \in [Fds -> Entry \cup {None}]
        /\ \A g \in Fds : ofrw'[g] = None <=> ofrw[g] = None
        /\ \A g \in Fds : ofrw[g] # None => ofrw'[g].dev = ofrw[g].dev
        /\ \A g \in Fds : g # fd => ofrw'[g] = ofrw[g]
    <3>1. CASE ofrw[fd] = None
      BY <1>1, <2>1, <3>1 DEF TypeOK
    <3>2. CASE ofrw[fd] # None
      <4> DEFINE r == [ofrw[fd] EXCEPT !.state = "UP"]
      <4>1. r \in Entry /\ r.dev = ofrw[fd].dev
        BY <1>1, <3>2 DEF TypeOK, Entry
      <4>2. ofrw' = [ofrw EXCEPT ![fd] = r]
        BY <2>1, <3>2
      <4> HIDE DEF r
      <4> QED BY <1>1, <3>2, <4>1, <4>2 DEF TypeOK
    <3> QED BY <3>1, <3>2
  <2>3. \A e \in Devs, g \in Fds : Has(e, g)' <=> Has(e, g)
    BY <2>1 DEF Has, Registered
  <2>4. Lists'
    BY <1>1, <2>1, <2>2, <2>3 DEF Lists, Registered
  <2>5. UpTold'
    BY <1>1, <2>1, <2>2 DEF UpTold
  <2>6. Roles' /\ ListenerOK'
    BY <1>1, <2>1 DEF Roles, ListenerOK
  <2>7. TypeOK'
    BY <1>1, <2>1, <2>2 DEF TypeOK
  <2> QED BY <1>2, <1>3, <2>4, <2>5, <2>6, <2>7
<1> QED BY <1>4, <1>5, <1>6

\* A connected socket of a switch goes to the tables.
LEMMA CreateTablesStep ==
  ASSUME Inv, NEW a \in Apps, CreateTables(a)
  PROVE  Inv'
<1> USE Constants DEF Inv, Good, Controller
<1> DEFINE d == app[a].dev
           fd == app[a].fd
           key == app[a].key
<1>1. /\ Runs /\ Good /\ lock = None /\ app[a].pc = "tables" /\ ofdev_type # "CONTROLLER"
      /\ d \in Devs /\ fd \in Fds /\ key \in Keys /\ fd \in open /\ ofrw[fd] = None
      /\ \A b \in Apps : app[b].pc = "tables" /\ app[b].fd = fd => b = a
      /\ UNCHANGED <<ofdev_type, listening, polled, outq, lock, listener, reader, told, rcvd,
                     dangling>>
  BY DEF CreateTables, Unlocked, CallersOK, Roles
<1>2. listener.pc = "idle" /\ ListenerOK' /\ UpTold'
  BY <1>1 DEF Roles, ListenerOK, UpTold
<1>3. /\ \A b \in Apps : app[b].pc \notin {"destroy", "devfree"}
  BY <1>1 DEF CallersOK
<1>4. CASE Registered(d)
  <2> DEFINE r == [app[a] EXCEPT !.pc = "add"]
  <2>1. /\ AddToTables(d, fd, key) /\ UNCHANGED open
        /\ crash' = IF ofchannel[key] = None THEN None ELSE "double free of a key"
        /\ app' = [app EXCEPT ![a] = r]
    BY <1>4 DEF CreateTables
  <2>2. r \in ThreadState /\ r.pc = "add" /\ r.dev = d /\ r.fd = fd /\ r.key = key
    BY DEF TypeOK, ThreadState
  <2>3. \A e \in Devs : ~Has(e, fd)
    BY <1>1 DEF Lists
  <2>4. key \in Ids
    BY <1>1 DEF CallersOK
  <2>5. ofchannel'[key] = fd /\ \A k \in Keys : k # key => ofchannel'[k] = ofchannel[k]
    BY <1>1, <2>1 DEF AddToTables, TypeOK
  <2>6. onStack' \subseteq onStack /\ crash' \in Crashes \cup {None}
    BY <2>1 DEF AddToTables, Crashes
  <2> HIDE DEF r, d, fd, key
  <2>7. /\ Lists'
        /\ ofdev' \in [Devs -> Seq(Fds) \cup {None}]
        /\ ofrw' \in [Fds -> Entry \cup {None}]
        /\ ofchannel' \in [Keys -> Fds \cup {None}] /\ onStack' \subseteq Keys
        /\ ofrw'[fd] # None
        /\ \A g \in Fds : g # fd => ofrw'[g] = ofrw[g]
    BY <1>1, <1>4, <2>1, <2>3, AddKeepsLists, ZenonT(60)
  <2>8. app'[a] = r /\ \A b \in Apps : b # a => app'[b] = app[b]
    BY <2>1 DEF TypeOK
  <2>9. TypeOK'
    BY <1>1, <2>1, <2>2, <2>6, <2>7 DEF TypeOK
  <2>10. Roles'
    BY <1>1, <1>2, <2>2, <2>6, <2>8 DEF Roles
  <2>11. CallersOK'
    <3> SUFFICES ASSUME NEW b \in Apps
                 PROVE  /\ app'[b].pc = "listen" => app'[b].dev \in Devs
                        /\ app'[b].pc \in {"tables", "add"} =>
                             app'[b].dev \in Devs /\ app'[b].fd \in Fds /\ app'[b].key \in Ids
                        /\ app'[b].pc = "tables" =>
                             /\ app'[b].fd \in open' /\ ofrw'[app'[b].fd] = None
                             /\ \A c \in Apps : app'[c].pc = "tables" /\ app'[c].fd = app'[b].fd
                                                  => c = b
                        /\ app'[b].pc \notin {"destroy", "devfree"}
      BY DEF CallersOK
    <3>1. CASE b = a
      BY <1>1, <2>2, <2>4, <2>8, <3>1
    <3>2. CASE b # a
      <4>1. app'[b] = app[b] /\ app[b].pc \notin {"destroy", "devfree"}
        BY <1>3, <2>8, <3>2
      <4>2. app[b].pc = "tables" =>
              /\ app[b].fd \in Fds /\ app[b].fd # fd /\ app[b].fd \in open
              /\ ofrw'[app[b].fd] = None
        BY <1>1, <2>7, <3>2 DEF CallersOK
      <4>3. \A c \in Apps : app'[c].pc = "tables" => app'[c] = app[c]
        BY <2>2, <2>8
      <4>4. /\ app[b].pc = "listen" => app[b].dev \in Devs
            /\ app[b].pc \in {"tables", "add"} =>
                 app[b].dev \in Devs /\ app[b].fd \in Fds /\ app[b].key \in Ids
            /\ app[b].pc = "tables" => \A c \in Apps :
                 app[c].pc = "tables" /\ app[c].fd = app[b].fd => c = b
        BY <1>1 DEF CallersOK
      <4>5. open' = open
        BY <2>1
      <4> QED BY <4>1, <4>2, <4>3, <4>4, <4>5
    <3> QED BY <3>1, <3>2
  <2>12. Runs' => SwitchKeys'
    <3> SUFFICES ASSUME Runs' PROVE SwitchKeys'
      OBVIOUS
    <3>1. ofchannel[key] = None
      BY <2>1 DEF Runs, Crashes
    <3>2. \A g \in Fds : ofrw'[g] = None => \A k \in Keys : ofchannel'[k] # g
      BY <1>1, <2>5, <2>7 DEF SwitchKeys
    <3>3. ASSUME NEW g \in Fds, ofrw'[g] # None
          PROVE  \E k \in Keys : \A j \in Keys : ofchannel'[j] = g <=> j = k
      <4>1. CASE g = fd
        <5>1. \A j \in Keys : ofchannel'[j] = fd <=> j = key
          BY <1>1, <2>5 DEF SwitchKeys
        <5> QED BY <1>1, <4>1, <5>1
      <4>2. CASE g # fd
        <5>1. ofrw[g] # None
          BY <2>7, <3>3, <4>2
        <5>2. PICK k \in Keys : \A j \in Keys : ofchannel[j] = g <=> j = k
          BY <1>1, <5>1 DEF SwitchKeys
        <5>3. k # key
          BY <3>1, <5>2
        <5>4. \A j \in Keys : ofchannel'[j] = g <=> j = k
          BY <2>5, <4>2, <5>2, <5>3
        <5> QED BY <5>4
      <4> QED BY <4>1, <4>2
    <3> QED BY <3>2, <3>3 DEF SwitchKeys
  <2> QED BY <1>2, <2>7, <2>9, <2>10, <2>11, <2>12
<1>5. CASE ~Registered(d)
  <2>1. /\ open' = open \ {fd} /\ app' = [app EXCEPT ![a] = Idle]
        /\ UNCHANGED <<ofdev, ofrw, ofchannel, onStack, crash>>
    BY <1>5 DEF CreateTables, tables
  <2>2. Lists'
    BY <1>1, <2>1, SameLists DEF Lists
  <2>3. SwitchKeys'
    BY <1>1, <2>1, SameKeys
  <2>4. Idle \in ThreadState /\ Idle.pc = "idle"
    BY DEF Idle, Thread, ThreadState
  <2> HIDE DEF d, fd, key
  <2>5. app'[a] = Idle /\ \A b \in Apps : b # a => app'[b] = app[b]
    BY <2>1 DEF TypeOK
  <2>6. TypeOK'
    BY <1>1, <2>1, <2>4 DEF TypeOK
  <2>7. Roles'
    BY <1>1, <1>2, <2>1, <2>4, <2>5 DEF Roles
  <2>8. CallersOK'
    BY <1>1, <1>3, <2>1, <2>4, <2>5 DEF CallersOK, Registered
  <2> QED BY <1>2, <2>2, <2>3, <2>6, <2>7, <2>8
<1> QED BY <1>4, <1>5

\* What closing a socket under the locks keeps, whatever becomes of the
\* thread that does it.
LEMMA CloseKeeps ==
  ASSUME Inv, Runs, NEW a \in Apps, lock = a, NEW fd \in Fds, ofrw[fd] # None,
         DeleteFromTables(fd), listener.pc = "tables" => listener.fd # fd,
         UNCHANGED <<ofdev_type, listening, outq, listener, reader, rcvd, dangling>>
  PROVE  /\ Lists' /\ ListenerOK' /\ UpTold' /\ SwitchKeys'
         /\ app' \in [Apps -> ThreadState] /\ lock' \in Apps \cup {None} => TypeOK'
         /\ UNCHANGED onStack
         /\ \A d \in Devs : Registered(d)' <=> Registered(d)
         /\ \A g \in Fds : g # fd => ofrw'[g] = ofrw[g]
         /\ open' = open \ {fd}
<1> USE Constants DEF Inv, Good, Controller
<1>1. /\ Lists'
      /\ ofdev' \in [Devs -> Seq(Fds) \cup {None}]
      /\ ofrw' \in [Fds -> Entry \cup {None}]
      /\ ofchannel' \in [Keys -> Fds \cup {None}] /\ crash' \in Crashes \cup {None}
      /\ \A e \in Devs : Registered(e)' <=> Registered(e)
      /\ \A e \in Devs, g \in Fds : Has(e, g)' => Has(e, g)
      /\ ofrw'[fd] = None /\ \A g \in Fds : g # fd => ofrw'[g] = ofrw[g]
      /\ \A k \in Keys : ofchannel'[k] = IF ofchannel[k] = fd THEN None ELSE ofchannel[k]
  BY DeleteKeepsLists
<1>2. /\ open' = open \ {fd} /\ polled' = polled \ {fd} /\ told' = told \ {fd}
      /\ UNCHANGED onStack
  BY DEF DeleteFromTables, Unpoll
<1>3. UpTold'
  BY <1>1, <1>2 DEF UpTold
<1>4. ListenerOK'
  BY <1>1, <1>2 DEF ListenerOK
<1>5. SwitchKeys'
  <2> SUFFICES ASSUME ofdev_type # "CONTROLLER" PROVE SwitchKeys'
    BY DEF SwitchKeys
  <2>1. \A g \in Fds : ofrw'[g] = None => \A k \in Keys : ofchannel'[k] # g
    BY <1>1 DEF SwitchKeys
  <2>2. ASSUME NEW g \in Fds, ofrw'[g] # None
        PROVE  \E k \in Keys : \A j \in Keys : ofchannel'[j] = g <=> j = k
    <3>1. g # fd /\ ofrw[g] # None
      BY <1>1, <2>2
    <3>2. PICK k \in Keys : \A j \in Keys : ofchannel[j] = g <=> j = k
      BY <3>1 DEF SwitchKeys
    <3>3. \A j \in Keys : ofchannel'[j] = g <=> j = k
      BY <1>1, <3>1, <3>2
    <3> QED BY <3>3
  <2> QED BY <2>1, <2>2 DEF SwitchKeys
<1>6. ASSUME app' \in [Apps -> ThreadState], lock' \in Apps \cup {None} PROVE TypeOK'
  BY <1>1, <1>2, <1>6 DEF TypeOK
<1> QED BY <1>1, <1>2, <1>3, <1>4, <1>5, <1>6

\* cc_of_destroy_channel and the walk of cc_of_dev_free close a socket.
LEMMA CloseSteps ==
  ASSUME Inv, NEW a \in Apps, DestroyClose(a) \/ DevFreeClose(a)
  PROVE  Inv'
<1> USE Constants DEF Inv, Good, Controller
<1>1. Runs /\ Good /\ lock = a
  BY DEF DestroyClose, DevFreeClose, CallersOK
<1>2. \A b \in Apps : b # a => app[b].pc \notin {"destroy", "devfree"}
  BY <1>1 DEF CallersOK
<1>3. CASE DestroyClose(a)
  <2> DEFINE fd == app[a].fd
  <2>1. /\ DeleteFromTables(fd) /\ fd \in Fds /\ ofrw[fd] # None /\ app' = [app EXCEPT ![a] = Idle]
        /\ lock' = None /\ (ofdev_type = "CONTROLLER" => fd \in told)
        /\ UNCHANGED <<ofdev_type, listening, outq, listener, reader, rcvd, dangling>>
    BY <1>1, <1>3 DEF DestroyClose, CallersOK
  <2>2. listener.pc = "tables" => listener.fd # fd
    BY <1>1, <2>1 DEF ListenerOK, Roles
  <2>3. Idle \in ThreadState /\ Idle.pc = "idle"
    BY DEF Idle, Thread, ThreadState
  <2> HIDE DEF fd
  <2>4. /\ app'[a] = Idle /\ \A b \in Apps : b # a => app'[b] = app[b]
        /\ app' \in [Apps -> ThreadState]
    BY <2>1, <2>3 DEF TypeOK
  <2>5. /\ Lists' /\ ListenerOK' /\ UpTold' /\ SwitchKeys' /\ UNCHANGED onStack
        /\ \A d \in Devs : Registered(d)' <=> Registered(d)
        /\ \A g \in Fds : g # fd => ofrw'[g] = ofrw[g]
        /\ open' = open \ {fd}
    BY <1>1, <2>1, <2>2, CloseKeeps
  <2>6. TypeOK'
    BY <1>1, <2>1, <2>2, <2>4, CloseKeeps
  <2>7. Roles'
    BY <1>1, <2>1, <2>3, <2>4, <2>5 DEF Roles
  <2>8. CallersOK'
    BY <1>1, <1>2, <2>1, <2>3, <2>4, <2>5 DEF CallersOK
  <2> QED BY <2>5, <2>6, <2>7, <2>8
<1>4. CASE DevFreeClose(a)
  <2> DEFINE d == app[a].dev
             fd == Head(ofdev[d])
  <2>1. /\ DeleteFromTables(fd) /\ ofrw[fd] # None /\ UNCHANGED <<app, lock>> /\ ofdev[d] # <<>>
        /\ UNCHANGED <<ofdev_type, listening, outq, listener, reader, rcvd, dangling>>
        /\ d \in Devs /\ Registered(d) /\ app[a].pc = "devfree"
    BY <1>1, <1>4 DEF DevFreeClose, CallersOK
  <2>2. fd \in Fds /\ Has(d, fd)
    <3>1. ofdev[d] \in Seq(Fds)
      BY <2>1 DEF TypeOK, Registered
    <3>2. 1 \in 1 .. Len(ofdev[d]) /\ fd = ofdev[d][1] /\ fd \in Fds
      BY <2>1, <3>1
    <3> QED BY <2>1, <3>2 DEF Has, Contains
  <2>3. listener.pc = "tables" => listener.fd # fd
    BY <1>1, <2>1, <2>2 DEF ListenerOK
  <2> HIDE DEF d, fd
  <2>4. /\ Lists' /\ ListenerOK' /\ UpTold' /\ SwitchKeys' /\ UNCHANGED onStack
        /\ \A e \in Devs : Registered(e)' <=> Registered(e)
        /\ \A g \in Fds : g # fd => ofrw'[g] = ofrw[g]
        /\ open' = open \ {fd}
    BY <1>1, <2>1, <2>2, <2>3, CloseKeeps
  <2>5. TypeOK'
    <3>1. app' \in [Apps -> ThreadState] /\ lock' \in Apps \cup {None}
      BY <2>1 DEF TypeOK
    <3> QED BY <1>1, <2>1, <2>2, <2>3, <3>1, CloseKeeps
  <2>6. Roles'
    BY <1>1, <2>1, <2>4 DEF Roles
  <2>7. CallersOK'
    BY <1>1, <1>2, <2>1, <2>4 DEF CallersOK
  <2> QED BY <2>4, <2>5, <2>6, <2>7
<1> QED BY <1>3, <1>4

-----------------------------------------------------------------------------
(* The theorems *)

\* The invariant is inductive.
LEMMA StepInv == Inv /\ [Next]_vars => Inv'
<1> SUFFICES ASSUME Inv, [Next]_vars PROVE Inv'
  OBVIOUS
<1>1. CASE Listener
  BY <1>1, ListenerSteps, AcceptSteps DEF Listener
<1>2. CASE Reader \/ UseDangling \/ \E k \in Keys : Overwrite(k)
  BY <1>2, OtherSteps DEF Reader
<1>3. ASSUME NEW a \in Apps, Begins(a) PROVE Inv'
  BY <1>3, CallSteps, DeviceSteps, OtherSteps DEF Begins
<1>4. ASSUME NEW a \in Apps, Goes(a) PROVE Inv'
  BY <1>4, GoSteps, CreateTablesStep, CloseSteps, DeviceSteps DEF Goes
<1>5. CASE UNCHANGED vars
  <2>1. TypeOK' /\ (Runs' <=> Runs)
    BY <1>5 DEF Inv, vars, TypeOK, Runs
  <2>2. Good => Roles' /\ Lists' /\ CallersOK' /\ ListenerOK' /\ UpTold' /\ SwitchKeys'
    BY <1>5 DEF Good, vars, Roles, Lists, CallersOK, ListenerOK, UpTold, SwitchKeys, Has,
                Registered, Controller
  <2> QED BY <2>1, <2>2 DEF Inv, Good
<1> QED BY <1>1, <1>2, <1>3, <1>4, <1>5 DEF Next

\* The invariant holds in every behaviour.
THEOREM Invariance == Spec => []Inv
BY InitInv, StepInv, PTL DEF Spec

\* The device lists and the socket table tell the same story, while the listen
\* thread adds sockets and the application closes sockets and devices.
THEOREM RwDevAgreeHolds == Spec => []RwDevAgree
<1>1. Inv => RwDevAgree
  <2> SUFFICES ASSUME Inv, crash = None, dangling = {} PROVE RwDevAgree
    BY DEF RwDevAgree
  <2>1. TypeOK /\ Lists
    BY DEF Inv, Good, Runs
  <2>2. ASSUME NEW d \in Devs, Registered(d), NEW i \in 1 .. Len(ofdev[d])
        PROVE  /\ ofrw[ofdev[d][i]] # None /\ ofrw[ofdev[d][i]].dev = d
               /\ \A j \in 1 .. Len(ofdev[d]) : ofdev[d][i] = ofdev[d][j] => i = j
    <3>1. ofdev[d] \in Seq(Fds)
      BY <2>1, <2>2 DEF TypeOK, Registered
    <3>2. ofdev[d][i] \in Fds /\ Has(d, ofdev[d][i])
      BY <2>2, <3>1 DEF Has, Contains
    <3> QED BY <2>1, <2>2, <3>2 DEF Lists, Distinct
  <2>3. ASSUME NEW fd \in Fds, ofrw[fd] # None
        PROVE  Registered(ofrw[fd].dev) /\ Contains(ofdev[ofrw[fd].dev], fd)
    <3>1. ofrw[fd].dev \in Devs
      BY <2>1, <2>3 DEF TypeOK, Entry
    <3> QED BY <2>1, <2>3, <3>1 DEF Lists, Has
  <2> QED BY <2>2, <2>3 DEF RwDevAgree
<1> QED BY <1>1, Invariance, PTL

\* On a switch every socket of the tables has exactly one key, and every key
\* leads to a socket of the tables.
THEOREM OneKeyPerSocketHolds == Spec => []OneKeyPerSocket
<1>1. Inv => OneKeyPerSocket
  <2> SUFFICES ASSUME Inv, crash = None, ofdev_type = "SWITCH" PROVE OneKeyPerSocket
    BY DEF OneKeyPerSocket
  <2>1. TypeOK /\ SwitchKeys /\ ~Controller
    BY DEF Inv, Good, Runs, Controller
  <2>2. ASSUME NEW fd \in Fds, ofrw[fd] # None PROVE Cardinality(KeysOf(fd)) = 1
    <3>1. PICK k \in Keys : \A j \in Keys : ofchannel[j] = fd <=> j = k
      BY <2>1, <2>2 DEF SwitchKeys
    <3>2. KeysOf(fd) = {k}
      BY <3>1 DEF KeysOf
    <3> QED BY <3>2, FS_Singleton
  <2>3. \A k \in Keys : ofchannel[k] # None => ofrw[ofchannel[k]] # None
    BY <2>1 DEF SwitchKeys, TypeOK
  <2> QED BY <2>2, <2>3 DEF OneKeyPerSocket
<1> QED BY <1>1, Invariance, PTL

\* A controller gets no data from a connection before its accept callback, and
\* none from a closed one.
THEOREM ToldBeforeDataHolds == Spec => ToldBeforeData
<1>1. Inv /\ [Next]_vars =>
        [ofdev_type = "CONTROLLER" /\ rcvd' # rcvd /\ rcvd' # None
           => rcvd'.fd \in told /\ rcvd'.fd \in open]_vars
  <2> SUFFICES ASSUME Inv, [Next]_vars, ofdev_type = "CONTROLLER", rcvd' # rcvd
               PROVE  rcvd'.fd \in told /\ rcvd'.fd \in open
    OBVIOUS
  <2>1. Receive
    BY ZenonT(60) DEF Next, vars, Listener, Accept, AcceptTables, AcceptAdd, AcceptNotify, AcceptUp,
           Reader, Read, TakeMessage, UseDangling, Overwrite, Begins, Register, DevFree,
           CreateConnect, CreateConnectFail, Destroy, Send, SetReal, Goes, RegisterListen,
           RegisterFail, CreateTables, CreateAdd, DestroyClose, DevFreeClose, DevFreeEnd
  <2>2. Deliverable(reader) /\ rcvd'.fd = reader /\ reader \in Fds /\ Runs
    BY <2>1 DEF Receive, Unlocked, Inv, TypeOK
  <2>3. ofrw[reader] # None /\ ofrw[reader].state = "UP"
    BY <2>2 DEF Deliverable
  <2> QED BY <2>2, <2>3 DEF Inv, Good, UpTold, Controller
<1> QED BY <1>1, Invariance, PTL DEF Spec, ToldBeforeData
=============================================================================
