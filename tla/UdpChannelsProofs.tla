------------------------- MODULE UdpChannelsProofs -------------------------
(***************************************************************************)
(* Theorems about UdpChannels, for any number of application threads,      *)
(* descriptors, keys, senders and datagrams, on a controller and on a      *)
(* switch.                                                                 *)
(***************************************************************************)
EXTENDS UdpChannels, TLAPS, SequenceTheorems, FiniteSetTheorems, ListLemmas

-----------------------------------------------------------------------------
(* The inductive invariant *)

\* What a thread of the application has in hand.  A socket on its way to the
\* tables is open, its own, and has no entry; a socket or device that is being
\* closed is protected by the locks.
CallersOK ==
  \A a \in Apps :
    /\ app[a].pc \in {"tables", "add"} =>
         /\ app[a].fd \in Fds /\ app[a].key \in Keys
         /\ Controller => app[a].key = app[a].fd
    /\ app[a].pc = "tables" =>
         /\ app[a].fd \in open /\ ofrw[app[a].fd] = None
         /\ \A b \in Apps : app[b].pc = "tables" /\ app[b].fd = app[a].fd => b = a
    /\ app[a].pc = "destroy" =>
         lock = a /\ app[a].fd \in Nums /\ ofrw[app[a].fd] # None
    /\ app[a].pc = "devfree" => lock = a /\ list # None

\* The callback of the read-write thread has the locks from its lookup on.
Inside == reader.pc \in {"lookup", "notify", "up", "deliver"}

\* What the callback has in hand: from its lookup on the entry it found or made
\* stays, and on a controller it is an entry of the sender or of its reverse.
ReaderOK ==
  /\ reader.pc = "read" => reader.fd \in Fds /\ reader.src \in Addrs
  /\ Inside => lock = Reader /\ reader.num \in Nums /\ reader.src \in Addrs
  /\ Inside /\ Controller =>
       /\ ofrw[reader.num] # None
       /\ reader.src \in {ofrw[reader.num].client, Swap[ofrw[reader.num].client]}
  /\ reader.pc \in {"notify", "up", "deliver"} => ofrw[reader.num] # None
  /\ reader.pc = "up" => reader.num \in told

\* TablesAgree without cardinalities, and the keys of a controller.
Tables ==
  /\ list = None => \A n \in Nums : ofrw[n] = None
  /\ list # None => Distinct(list) /\ \A n \in Nums : ofrw[n] # None <=> Contains(list, n)
  /\ \A n \in Nums : ofrw[n] = None => \A k \in Keys : ofchannel[k] # n
  /\ \A n \in Nums : ofrw[n] # None =>
       \E k \in Keys : \A j \in Keys : ofchannel[j] = n <=> j = k
  /\ Controller => \A k \in Keys : ofchannel[k] # None => ofchannel[k] = k

\* Dummies lie above the descriptors and up to the last number given; that the
\* numbers do not run out needs the datagrams that are still to be classified.
\* A channel that is UP was announced.
Numbers ==
  /\ NumbersApart
  /\ \A n \in Nums : ofrw[n] # None =>
       /\ n <= random
       /\ ~ofrw[n].thr => n > MaxOpenFiles
       /\ Controller /\ ofrw[n].state = "UP" => n \in told
  /\ random >= MaxOpenFiles
  /\ random + (IF reader.pc = "read" THEN 1 ELSE 0) <= MaxOpenFiles + datagrams

Inv == TypeOK /\ CallersOK /\ ReaderOK /\ (Runs => Tables) /\ Numbers

\* Descriptors are numbers, and None is none of the values it stands for.
LEMMA Constants ==
  /\ Fds \subseteq Nums /\ Nums \subseteq Keys /\ Nums \subseteq Nat
  /\ \A fd \in Fds : fd <= MaxOpenFiles
  /\ None \notin Nums /\ None \notin Fds /\ None \notin Keys /\ None \notin Apps
  /\ None # Reader /\ Reader \notin Apps /\ None \notin Addrs
  /\ None \notin Entry /\ None \notin Seq(Nums) /\ None \notin Crashes
  /\ MaxOpenFiles \in Nums /\ MaxOpenFiles \in Nat /\ MaxDatagrams \in Nat
<1>1. /\ MaxOpenFiles \in Nat /\ MaxDatagrams \in Nat /\ Fds \subseteq 0 .. MaxOpenFiles
      /\ None \notin Apps \cup Addrs \cup Ids \cup {Reader} \cup Nums /\ Reader \notin Apps
      /\ None \notin Entry /\ None \notin Seq(Nums) /\ None \notin Crashes
  BY UdpAssumption
<1>2. Nums \subseteq Nat /\ 0 .. MaxOpenFiles \subseteq Nums /\ MaxOpenFiles \in Nums
  BY <1>1 DEF Nums
<1>3. Fds \subseteq Nums /\ \A fd \in Fds : fd <= MaxOpenFiles
  BY <1>1, <1>2
<1> QED BY <1>1, <1>2, <1>3 DEF Keys

\* Nothing is registered, open or polled.
LEMMA InitInv == Init => Inv
<1> SUFFICES ASSUME Init PROVE Inv
  OBVIOUS
<1>1. TypeOK
  BY Constants DEF Init, TypeOK, FirstDummy, Idle, Thread, Polling, Callback
<1>2. CallersOK /\ ReaderOK
  BY DEF Init, CallersOK, ReaderOK, Inside, Idle, Thread, Polling, Callback
<1>3. Tables
  BY Constants DEF Init, Tables
<1>4. Numbers
  BY Constants DEF Init, Numbers, NumbersApart, FirstDummy, Polling, Callback
<1> QED BY <1>1, <1>2, <1>3, <1>4 DEF Inv

-----------------------------------------------------------------------------
(* The two operations on the tables *)

\* A number without an entry goes into the three tables under a free key.
LEMMA AddKeepsTables ==
  ASSUME TypeOK, Tables, list # None, ofdev_type' = ofdev_type,
         NEW n \in Nums, ofrw[n] = None, NEW client, NEW thr,
         client \in Addrs \cup {None}, thr \in BOOLEAN,
         NEW key \in Keys, ofchannel[key] = None, Controller => key = n,
         AddToTables(n, client, thr, key)
  PROVE  Tables'
<1>1. list \in Seq(Nums) /\ list' = Append(list, n) /\ list' \in Seq(Nums) /\ list' # None
  <2>1. list \in Seq(Nums) /\ list' = Append(list, n)
    BY DEF TypeOK, AddToTables
  <2>2. list' \in Seq(Nums)
    BY <2>1, AppendProperties
  <2> QED BY <2>1, <2>2, Constants
<1>2. /\ \A m \in Nums : m # n => ofrw'[m] = ofrw[m]
      /\ ofrw'[n] \in Entry /\ ofrw'[n] # None
  BY Constants DEF TypeOK, AddToTables, Entry
<1>3. /\ ofchannel'[key] = n
      /\ \A k \in Keys : k # key => ofchannel'[k] = ofchannel[k]
  BY DEF TypeOK, AddToTables
<1>4. ~Contains(list, n)
  BY DEF Tables
<1>5. Distinct(list') /\ \A m \in Nums : ofrw'[m] # None <=> Contains(list', m)
  <2>1. Distinct(list') /\ \A x : Contains(list', x) <=> Contains(list, x) \/ x = n
    BY <1>1, <1>4, AppendDistinct DEF Tables
  <2> QED BY <1>2, <2>1 DEF Tables
<1>6. \A m \in Nums : ofrw'[m] = None => \A k \in Keys : ofchannel'[k] # m
  BY <1>2, <1>3 DEF Tables
<1>7. ASSUME NEW m \in Nums, ofrw'[m] # None
      PROVE  \E k \in Keys : \A j \in Keys : ofchannel'[j] = m <=> j = k
  <2>1. CASE m = n
    <3>1. \A j \in Keys : ofchannel'[j] = n <=> j = key
      BY <1>3 DEF Tables
    <3> QED BY <2>1, <3>1
  <2>2. CASE m # n
    <3>1. PICK k \in Keys : \A j \in Keys : ofchannel[j] = m <=> j = k
      BY <1>2, <1>7, <2>2 DEF Tables
    <3>2. k # key
      BY <3>1, Constants
    <3>3. \A j \in Keys : ofchannel'[j] = m <=> j = k
      BY <1>3, <2>2, <3>1, <3>2
    <3> QED BY <3>3
  <2> QED BY <2>1, <2>2
<1>8. Controller' => \A k \in Keys : ofchannel'[k] # None => ofchannel'[k] = k
  BY <1>3 DEF Tables, Controller
<1> QED BY <1>1, <1>5, <1>6, <1>7, <1>8 DEF Tables

\* udp_close takes a number out of all of them.
LEMMA CloseKeepsTables ==
  ASSUME TypeOK, Tables, ofdev_type' = ofdev_type,
         NEW n \in Nums, ofrw[n] # None, UdpClose(n)
  PROVE  Tables' /\ list' \in Seq(Nums)
<1>1. list \in Seq(Nums) /\ list # None /\ Distinct(list) /\ Contains(list, n)
  BY DEF TypeOK, Tables
<1>2. /\ list' \in Seq(Nums) /\ Distinct(list')
      /\ \A x : Contains(list', x) <=> Contains(list, x) /\ x # n
  BY <1>1, RemoveFirstDistinct DEF UdpClose, Unlist
<1>3. ofrw'[n] = None /\ \A m \in Nums : m # n => ofrw'[m] = ofrw[m]
  BY DEF TypeOK, UdpClose
<1>4. \A k \in Keys : ofchannel'[k] = IF ofchannel[k] = n THEN None ELSE ofchannel[k]
  BY DEF UdpClose
<1>5. list' # None
  BY <1>2, Constants
<1>6. \A m \in Nums : ofrw'[m] # None <=> Contains(list', m)
  BY <1>1, <1>2, <1>3 DEF Tables
<1>7. \A m \in Nums : ofrw'[m] = None => \A k \in Keys : ofchannel'[k] # m
  BY <1>3, <1>4, Constants DEF Tables
<1>8. ASSUME NEW m \in Nums, ofrw'[m] # None
      PROVE  \E k \in Keys : \A j \in Keys : ofchannel'[j] = m <=> j = k
  <2>1. m # n
    BY <1>3, <1>8
  <2>2. PICK k \in Keys : \A j \in Keys : ofchannel[j] = m <=> j = k
    BY <1>3, <1>8, <2>1 DEF Tables
  <2>3. \A j \in Keys : ofchannel'[j] = m <=> j = k
    BY <1>4, <2>1, <2>2, Constants
  <2> QED BY <2>3
<1>9. Controller' => \A k \in Keys : ofchannel'[k] # None => ofchannel'[k] = k
  BY <1>4 DEF Tables, Controller
<1> QED BY <1>2, <1>5, <1>6, <1>7, <1>8, <1>9 DEF Tables

-----------------------------------------------------------------------------
(* The steps that leave the tables alone *)

\* They do.
LEMMA SameTables ==
  ASSUME Tables, UNCHANGED <<tables, ofdev_type>>
  PROVE  Tables'
BY DEF Tables, tables, Controller

\* The calls of the application.
LEMMA CallSteps ==
  ASSUME Inv, NEW a \in Apps,
         \/ \E fd \in Fds : OpenFail(a, fd) \/ \E key \in Keys : Open(a, fd, key)
         \/ \E key \in Keys : Destroy(a, key) \/ Send(a, key)
         \/ OpenAdd(a) \/ DevFree(a)
  PROVE  Inv'
<1> USE Constants DEF Inv, Idle, Thread
<1>1. UNCHANGED <<tables, ofdev_type>> /\ Runs
  BY DEF OpenFail, Open, Destroy, Send, OpenAdd, DevFree, Unlocked
<1>2. Tables'
  BY <1>1, SameTables
<1>3. ASSUME NEW fd \in Fds, OpenFail(a, fd) PROVE TypeOK' /\ CallersOK' /\ ReaderOK' /\ Numbers'
  BY <1>3 DEF OpenFail, tables, TypeOK, CallersOK, ReaderOK, Numbers, NumbersApart, Inside, Controller
<1>4. ASSUME NEW fd \in Fds, NEW key \in Keys, Open(a, fd, key)
      PROVE  TypeOK' /\ CallersOK' /\ ReaderOK' /\ Numbers'
  BY <1>4 DEF Open, tables, TypeOK, CallersOK, ReaderOK, Numbers, NumbersApart, Inside, Controller
<1>5. ASSUME NEW key \in Keys, Destroy(a, key)
      PROVE  TypeOK' /\ CallersOK' /\ ReaderOK' /\ Numbers'
  BY <1>5 DEF Destroy, Unlocked, Usable, tables, TypeOK, CallersOK, ReaderOK, Numbers, NumbersApart, Inside, Controller
<1>6. ASSUME NEW key \in Keys, Send(a, key)
      PROVE  TypeOK' /\ CallersOK' /\ ReaderOK' /\ Numbers'
  <2>1. ofchannel[key] \in Fds
    BY <1>6 DEF Send, Accepted, Usable, TypeOK, Numbers, NumbersApart
  <2>2. TypeOK'
    BY <1>6, <2>1, ZenonT(60) DEF Send, tables, TypeOK
  <2>3. CallersOK' /\ ReaderOK' /\ Numbers'
    BY <1>6 DEF Send, tables, CallersOK, ReaderOK, Numbers, NumbersApart, Inside, Controller
  <2> QED BY <2>2, <2>3
<1>7. CASE OpenAdd(a)
  <2>1. crash' \in Crashes \cup {None} /\ app[a].fd \in Fds
    BY <1>7 DEF OpenAdd, Crashes, CallersOK
  <2>2. TypeOK'
    BY <1>7, <2>1, ZenonT(60) DEF OpenAdd, tables, TypeOK
  <2>3. CallersOK'
    <3>1. /\ app'[a].pc = "idle" /\ \A b \in Apps : b # a => app'[b] = app[b]
          /\ UNCHANGED <<ofdev_type, ofrw, list, open, lock>>
      BY <1>7 DEF OpenAdd, tables, TypeOK
    <3> QED BY <3>1 DEF CallersOK, Controller
  <2>4. ReaderOK' /\ Numbers'
    BY <1>7 DEF OpenAdd, tables, ReaderOK, Numbers, NumbersApart, Inside, Controller
  <2> QED BY <1>2, <2>2, <2>3, <2>4
<1>8. CASE DevFree(a)
  BY <1>2, <1>8 DEF DevFree, Unlocked, tables, TypeOK, CallersOK, ReaderOK, Numbers, NumbersApart, Inside, Controller
<1> QED BY <1>2, <1>3, <1>4, <1>5, <1>6, <1>7, <1>8

\* The callbacks of the read-write thread, where they add nothing.
LEMMA ReaderSteps ==
  ASSUME Inv, \/ Arrives \/ PolloutEnd \/ LookUp \/ AcceptFunc \/ Deliver
  PROVE  Inv'
<1> USE Constants DEF Inv, Callback, Polling
<1>1. UNCHANGED <<tables, ofdev_type>> /\ Runs
  BY DEF Arrives, Pollout, Read, PolloutEnd, LookUp, AcceptFunc, Deliver, Unlocked
<1>2. Tables'
  BY <1>1, SameTables
<1>3. ASSUME NEW fd \in Fds, Pollout(fd) PROVE TypeOK' /\ CallersOK' /\ ReaderOK' /\ Numbers'
  <2>1. TypeOK'
    BY <1>3 DEF Pollout, Crashes, tables, TypeOK
  <2>2. CallersOK' /\ Numbers'
    BY <1>3 DEF Pollout, tables, CallersOK, Numbers, NumbersApart, Controller
  <2>3. ReaderOK'
    BY <1>3 DEF Pollout, tables, TypeOK, ReaderOK, Inside
  <2> QED BY <2>1, <2>2, <2>3
<1>4. ASSUME NEW fd \in Fds, NEW src \in Addrs, Read(fd, src)
      PROVE  TypeOK' /\ CallersOK' /\ ReaderOK' /\ Numbers'
  BY <1>4 DEF Read, tables, TypeOK, CallersOK, ReaderOK, Numbers, NumbersApart, Inside, Controller
<1>5. CASE PolloutEnd
  BY <1>2, <1>5 DEF PolloutEnd, tables, TypeOK, CallersOK, ReaderOK, Numbers, NumbersApart, Inside, Controller
<1>6. CASE LookUp
  <2>1. Inside /\ UNCHANGED <<random, app, told, open, datagrams, polled, outq, crash>>
    BY <1>6 DEF LookUp, Inside
  <2>2. CASE Returns
    BY <1>1, <1>2, <2>1, <2>2 DEF Returns, tables, TypeOK, CallersOK, ReaderOK, Numbers, NumbersApart, Inside, Controller
  <2>3. CASE /\ Known(reader.num)
             /\ Goes(IF reader.new THEN "notify" ELSE "deliver", reader.num, reader.new)
    <3>1. /\ reader'.pc \in {"notify", "deliver"} /\ reader'.num = reader.num
          /\ reader'.src = reader.src /\ lock' = Reader /\ ofrw[reader.num] # None
          /\ lock = Reader /\ reader.pc = "lookup"
      BY <1>6, <2>3 DEF Goes, Known, TypeOK, LookUp, ReaderOK, Inside
    <3>2. TypeOK'
      BY <1>1, <2>1, <2>3 DEF Goes, tables, TypeOK
    <3>3. CallersOK'
      BY <1>1, <2>1, <3>1 DEF tables, CallersOK, Controller
    <3>4. ReaderOK'
      BY <1>1, <2>1, <3>1 DEF tables, ReaderOK, Inside, Controller
    <3>5. Numbers'
      BY <1>1, <2>1, <3>1 DEF tables, Numbers, NumbersApart, Controller
    <3> QED BY <1>2, <3>2, <3>3, <3>4, <3>5
  <2> QED BY <1>6, <2>2, <2>3 DEF LookUp
<1>7. CASE AcceptFunc
  <2>1. /\ UNCHANGED <<random, app, open, datagrams, polled, outq, crash>>
        /\ reader.pc = "notify" /\ lock = Reader /\ told' = told \cup {reader.num}
        /\ reader'.pc \in {"up", "deliver"} /\ reader'.num = reader.num
        /\ reader'.src = reader.src /\ lock' = Reader /\ reader.num \in Nums
    BY <1>7 DEF AcceptFunc, Goes, TypeOK, ReaderOK, Inside
  <2>2. TypeOK'
    BY <1>1, <1>7, <2>1, ZenonT(60) DEF AcceptFunc, Goes, tables, TypeOK
  <2>3. CallersOK'
    BY <1>1, <2>1 DEF tables, CallersOK, Controller
  <2>4. ReaderOK'
    BY <1>1, <2>1 DEF tables, ReaderOK, Inside, Controller
  <2>5. Numbers'
    BY <1>1, <2>1 DEF tables, Numbers, NumbersApart, Controller
  <2> QED BY <1>2, <2>2, <2>3, <2>4, <2>5
<1>8. CASE Deliver
  BY <1>2, <1>8 DEF Deliver, tables, TypeOK, CallersOK, ReaderOK, Numbers, NumbersApart, Inside, Controller
<1> QED BY <1>2, <1>3, <1>4, <1>5, <1>6, <1>7, <1>8 DEF Arrives

-----------------------------------------------------------------------------
(* The steps that change the tables *)

\* cc_of_dev_register and the end of cc_of_dev_free.
LEMMA DeviceSteps ==
  ASSUME Inv, NEW a \in Apps, Register(a) \/ DevFreeEnd(a)
  PROVE  Inv'
<1> USE Constants DEF Inv
<1>1. Tables /\ \A n \in Nums : ofrw[n] = None
  BY DEF Register, DevFreeEnd, Unlocked, Tables, Contains
<1>2. CASE Register(a)
  <2>1. list' = <<>> /\ UNCHANGED <<ofrw, ofchannel, ofdev_type>>
    BY <1>2 DEF Register
  <2>2. <<>> \in Seq(Nums)
    OBVIOUS
  <2>3. list' # None /\ Distinct(list') /\ \A n : ~Contains(list', n)
    <3>1. list' # None
      BY <2>1, <2>2
    <3>2. Len(list') = 0
      BY <2>1
    <3> QED BY <3>1, <3>2 DEF Distinct, Contains
  <2>4. Tables'
    BY <1>1, <2>1, <2>3 DEF Tables, Controller
  <2>5. TypeOK' /\ CallersOK' /\ ReaderOK' /\ Numbers'
    BY <1>2, <2>2, <2>3 DEF Register, Unlocked, TypeOK, CallersOK, ReaderOK, Numbers, NumbersApart,
                     Inside, Controller
  <2> QED BY <2>4, <2>5
<1>3. CASE DevFreeEnd(a)
  <2>1. list' = None /\ UNCHANGED <<ofrw, ofchannel, ofdev_type>>
    BY <1>3 DEF DevFreeEnd
  <2>2. Tables'
    BY <1>1, <2>1 DEF Tables, Controller
  <2>3. lock = a /\ lock' = None /\ ~Inside
    BY <1>3 DEF DevFreeEnd, CallersOK, ReaderOK
  <2>4. TypeOK' /\ ReaderOK' /\ Numbers'
    BY <1>3, <2>3 DEF DevFreeEnd, Idle, Thread, TypeOK, ReaderOK, Numbers, NumbersApart, Inside,
                      Controller
  <2>5. CallersOK'
    BY <1>3, <2>3 DEF DevFreeEnd, Idle, Thread, TypeOK, CallersOK, Controller
  <2> QED BY <2>2, <2>4, <2>5
<1> QED BY <1>2, <1>3

\* cc_add_sockfd_rw_pollthr_safe.
LEMMA OpenTablesStep ==
  ASSUME Inv, NEW a \in Apps, OpenTables(a)
  PROVE  Inv'
<1> USE Constants DEF Inv
<1> DEFINE fd == app[a].fd
           key == app[a].key
<1>1. /\ Runs /\ lock = None /\ app[a].pc = "tables" /\ Tables /\ ~Inside
      /\ fd \in Fds /\ fd \in Nums /\ fd \in open /\ ofrw[fd] = None /\ key \in Keys
      /\ Controller => key = fd
      /\ \A b \in Apps : app[b].pc = "tables" /\ app[b].fd = fd => b = a
      /\ UNCHANGED <<ofdev_type, polled, outq, random, lock, reader, told, datagrams>>
  BY DEF OpenTables, Unlocked, CallersOK, ReaderOK
<1> HIDE DEF fd, key
<1>2. CASE list = None
  <2>1. /\ open' = open \ {fd} /\ app' = [app EXCEPT ![a] = Idle]
        /\ UNCHANGED <<tables, ofdev_type, crash>>
    BY <1>2 DEF OpenTables, fd
  <2>2. Tables'
    BY <1>1, <2>1, SameTables
  <2>3. TypeOK' /\ ReaderOK'
    BY <1>1, <2>1 DEF Idle, Thread, tables, TypeOK, ReaderOK, Inside, Controller
  <2>4. CallersOK'
    BY <1>1, <2>1 DEF Idle, Thread, tables, TypeOK, CallersOK, Controller
  <2>5. Numbers'
    BY <1>1, <1>2, <2>1 DEF tables, Tables, Numbers, NumbersApart, Controller
  <2> QED BY <2>2, <2>3, <2>4, <2>5
<1>3. CASE list # None
  <2>1. PICK junk \in Addrs \cup {None} : AddToTables(fd, junk, TRUE, key)
    BY <1>3 DEF OpenTables, fd, key
  <2>2. /\ crash' = IF ofchannel[key] = None THEN None ELSE "double free of a key"
        /\ app' = [app EXCEPT ![a].pc = "add"] /\ open' = open
    BY <1>3 DEF OpenTables, key
  <2> DEFINE Rec == [pc : {"idle", "tables", "add", "destroy", "devfree"},
                     fd : Nums \cup {None}, key : Keys \cup {None}]
  <2>0. /\ app' \in [Apps -> Rec]
        /\ app'[a].pc = "add" /\ app'[a].fd = fd /\ app'[a].key = key
        /\ \A b \in Apps : b # a => app'[b] = app[b]
    <3> DEFINE r == [app[a] EXCEPT !.pc = "add"]
    <3>1. app \in [Apps -> Rec] /\ app[a] \in Rec
      BY DEF TypeOK
    <3>2. r \in Rec /\ r.pc = "add" /\ r.fd = fd /\ r.key = key
      BY <3>1 DEF fd, key
    <3>3. app' = [app EXCEPT ![a] = r]
      BY <2>2
    <3> HIDE DEF r, Rec
    <3> QED BY <3>1, <3>2, <3>3
  <2>3. /\ ofrw'[fd] = [state |-> "DOWN", client |-> junk, thr |-> TRUE] /\ ofrw'[fd] \in Entry
        /\ \A n \in Nums : n # fd => ofrw'[n] = ofrw[n]
        /\ ofrw' \in [Nums -> Entry \cup {None}]
    BY <1>1, <2>1 DEF AddToTables, TypeOK, Entry
  <2>4. list' \in Seq(Nums) /\ list' # None
    <3>1. list \in Seq(Nums) /\ list' = Append(list, fd)
      BY <1>3, <2>1 DEF AddToTables, TypeOK
    <3>2. list' \in Seq(Nums)
      BY <1>1, <3>1, AppendProperties
    <3> QED BY <3>2
  <2>5. crash' \in Crashes \cup {None} /\ (Runs' => ofchannel[key] = None)
    BY <2>2 DEF Crashes, Runs
  <2>6. Runs' => Tables'
    BY <1>1, <1>3, <2>1, <2>5, AddKeepsTables
  <2>7. TypeOK'
    <3>1. ofchannel' \in [Keys -> Nums \cup {None}]
      BY <1>1, <2>1 DEF AddToTables, TypeOK
    <3> QED BY <1>1, <2>2, <2>3, <2>4, <2>5, <2>0, <3>1 DEF TypeOK
  <2>8. CallersOK'
    <3>1. \A b \in Apps : app[b].pc \notin {"destroy", "devfree"}
      BY <1>1 DEF CallersOK
    <3>2. ASSUME NEW b \in Apps, b # a, app[b].pc = "tables"
          PROVE  ofrw'[app[b].fd] = None /\ app[b].fd # fd
      <4>1. app[b].fd \in Fds /\ ofrw[app[b].fd] = None
        BY <3>2 DEF CallersOK
      <4>2. app[b].fd # fd
        BY <1>1, <3>2
      <4> QED BY <2>3, <4>1, <4>2
    <3>3. ASSUME NEW b \in Apps
          PROVE  app'[b].pc \in {"tables", "add"} =>
                   /\ app'[b].fd \in Fds /\ app'[b].key \in Keys
                   /\ Controller' => app'[b].key = app'[b].fd
      BY <1>1, <2>0 DEF CallersOK, Controller
    <3>4. ASSUME NEW b \in Apps, app'[b].pc = "tables"
          PROVE  /\ app'[b].fd \in open' /\ ofrw'[app'[b].fd] = None
                 /\ \A c \in Apps : app'[c].pc = "tables" /\ app'[c].fd = app'[b].fd => c = b
      <4>1. b # a /\ app'[b] = app[b]
        BY <2>0, <3>4
      <4>2. app[b].fd \in open' /\ ofrw'[app[b].fd] = None
        BY <2>0, <2>2, <3>2, <3>4, <4>1 DEF CallersOK
      <4>3. \A c \in Apps : app'[c].pc = "tables" => c # a /\ app'[c] = app[c]
        BY <2>0
      <4>4. \A c \in Apps : app[c].pc = "tables" /\ app[c].fd = app[b].fd => c = b
        BY <3>4, <4>1 DEF CallersOK
      <4> QED BY <4>1, <4>2, <4>3, <4>4
    <3>5. \A b \in Apps : app'[b].pc \notin {"destroy", "devfree"}
      BY <2>0, <3>1
    <3> QED BY <3>3, <3>4, <3>5 DEF CallersOK
  <2>9. ReaderOK'
    BY <1>1 DEF ReaderOK, Inside
  <2>10. Numbers'
    <3>1. /\ ofrw'[fd].thr /\ ofrw'[fd].state # "UP" /\ fd <= random
      <4>1. fd <= MaxOpenFiles /\ MaxOpenFiles <= random /\ fd \in Nat /\ random \in Nat
        BY <1>1 DEF Numbers, TypeOK
      <4> QED BY <2>3, <4>1
    <3> QED BY <1>1, <2>2, <2>3, <3>1 DEF Numbers, NumbersApart, Controller
  <2> QED BY <2>6, <2>7, <2>8, <2>9, <2>10
<1> QED BY <1>2, <1>3

\* udp_close, under the locks of cc_of_destroy_channel or cc_of_dev_free.
LEMMA CloseSteps ==
  ASSUME Inv, NEW a \in Apps, DestroyClose(a) \/ DevFreeClose(a)
  PROVE  Inv'
<1> USE Constants DEF Inv
<1>1. /\ lock = a /\ ~Inside /\ Tables /\ Runs /\ Runs'
      /\ UNCHANGED <<ofdev_type, outq, random, reader, crash, datagrams>>
  BY DEF DestroyClose, DevFreeClose, CallersOK, ReaderOK, Runs
<1>2. PICK n \in Nums : ofrw[n] # None /\ UdpClose(n)
  <2>1. CASE DestroyClose(a)
    BY <2>1 DEF DestroyClose, CallersOK
  <2>2. CASE DevFreeClose(a)
    <3>1. list \in Seq(Nums) /\ list # <<>>
      BY <2>2 DEF DevFreeClose, CallersOK, TypeOK
    <3>2. Head(list) \in Nums
      BY <3>1
    <3> QED BY <2>2, <3>2 DEF DevFreeClose
  <2> QED BY <2>1, <2>2
<1>3. Tables' /\ list' \in Seq(Nums) /\ list' # None
  BY <1>1, <1>2, CloseKeepsTables
<1>4. /\ ofrw'[n] = None /\ \A m \in Nums : m # n => ofrw'[m] = ofrw[m]
      /\ ofrw' \in [Nums -> Entry \cup {None}]
      /\ open' = open \ {n} /\ told' = told \ {n} /\ polled' = polled \ {n}
      /\ ofchannel' \in [Keys -> Nums \cup {None}]
  BY <1>2 DEF UdpClose, TypeOK
<1>5. /\ lock' \in {a, None}
      /\ app' \in [Apps -> [pc : {"idle", "tables", "add", "destroy", "devfree"},
                            fd : Nums \cup {None}, key : Keys \cup {None}]]
      /\ app'[a].pc = "idle" \/ (app'[a].pc = "devfree" /\ lock' = a)
      /\ \A b \in Apps : b # a => app'[b] = app[b]
  <2>1. CASE DestroyClose(a)
    BY <2>1 DEF DestroyClose, TypeOK, Idle, Thread
  <2>2. CASE DevFreeClose(a)
    BY <1>1, <2>2 DEF DevFreeClose, TypeOK
  <2> QED BY <2>1, <2>2
<1>6. TypeOK'
  BY <1>1, <1>3, <1>4, <1>5 DEF TypeOK
<1>7. CallersOK'
  <2>1. \A b \in Apps : b # a => app[b].pc \notin {"destroy", "devfree"}
    BY <1>1 DEF CallersOK
  <2>2. \A b \in Apps : b # a /\ app[b].pc = "tables" =>
          /\ app[b].fd \in Nums /\ app[b].fd # n /\ app[b].fd \in open'
          /\ ofrw'[app[b].fd] = None
    BY <1>2, <1>4, ZenonT(60) DEF CallersOK
  <2>3. ASSUME NEW b \in Apps
        PROVE  app'[b].pc \in {"tables", "add"} =>
                 /\ app'[b].fd \in Fds /\ app'[b].key \in Keys
                 /\ Controller' => app'[b].key = app'[b].fd
    BY <1>1, <1>5 DEF CallersOK, Controller
  <2>4. ASSUME NEW b \in Apps, app'[b].pc = "tables"
        PROVE  /\ app'[b].fd \in open' /\ ofrw'[app'[b].fd] = None
               /\ \A c \in Apps : app'[c].pc = "tables" /\ app'[c].fd = app'[b].fd => c = b
    <3>1. \A c \in Apps : app'[c].pc = "tables" => c # a /\ app'[c] = app[c]
      BY <1>5
    <3>2. app[b].pc = "tables" /\ app'[b] = app[b] /\ b # a
      BY <2>4, <3>1
    <3>3. \A c \in Apps : app[c].pc = "tables" /\ app[c].fd = app[b].fd => c = b
      BY <3>2 DEF CallersOK
    <3> QED BY <2>2, <3>1, <3>2, <3>3
  <2>5. ASSUME NEW b \in Apps PROVE app'[b].pc # "destroy" /\ (app'[b].pc = "devfree" => lock' = b /\ list' # None)
    BY <1>3, <1>5, <2>1
  <2> QED BY <2>3, <2>4, <2>5 DEF CallersOK
<1>8. ReaderOK'
  BY <1>1 DEF ReaderOK, Inside
<1>9. Numbers'
  BY <1>1, <1>4 DEF Numbers, NumbersApart, Controller
<1> QED BY <1>3, <1>6, <1>7, <1>8, <1>9

\* The lookup of the sender, and the dummy socket of a new one.
LEMMA ClassifyStep == ASSUME Inv, Classify PROVE Inv'
<1> USE Constants DEF Inv
<1> DEFINE Rec == [pc : {"idle", "out", "read", "lookup", "notify", "up", "deliver"},
                   fd : Fds \cup {None}, src : Addrs \cup {None}, num : Nums \cup {None},
                   new : BOOLEAN]
           n == random + 1
<1>1. /\ Runs /\ Runs' /\ lock = None /\ Tables
      /\ reader.pc = "read" /\ reader.fd \in Fds /\ reader.src \in Addrs /\ reader \in Rec
      /\ UNCHANGED <<ofdev_type, open, polled, outq, app, told, crash, datagrams>>
      /\ \A a \in Apps : app[a].pc \notin {"destroy", "devfree"}
  BY DEF Classify, Unlocked, ReaderOK, CallersOK, Runs, TypeOK
<1>2. n \in Nums /\ n > random /\ n > MaxOpenFiles /\ n <= MaxOpenFiles + datagrams
  <2>1. /\ random \in Nat /\ random >= MaxOpenFiles /\ datagrams \in 0 .. MaxDatagrams
        /\ random + 1 <= MaxOpenFiles + datagrams
    BY <1>1 DEF Numbers, TypeOK
  <2> QED BY <2>1 DEF Nums
<1>3. ASSUME NEW pc \in {"lookup"}, NEW m \in Nums, NEW new \in BOOLEAN, Goes(pc, m, new)
      PROVE  /\ lock' = Reader /\ reader' \in Rec /\ reader'.pc = "lookup"
             /\ reader'.num = m /\ reader'.src = reader.src
  BY <1>1, <1>3 DEF Goes
<1> HIDE DEF n, Rec
<1>4. CASE OldPeer \/ Peer
  <2>1. UNCHANGED <<tables, ofdev_type, random>>
    BY <1>1, <1>4 DEF OldPeer, Peer
  <2>2. PICK m \in Nums : /\ lock' = Reader /\ reader' \in Rec /\ reader'.pc = "lookup"
                          /\ reader'.num = m /\ reader'.src = reader.src
                          /\ Controller => ofrw[m] # None /\ ofrw[m].client = Swap[reader.src]
    <3>1. CASE OldPeer
      <4>1. PICK m \in Matches(reader.src) : Goes("lookup", m, FALSE)
        BY <3>1 DEF OldPeer
      <4>2. m \in Nums /\ ofrw[m] # None /\ ofrw[m].client = Swap[reader.src]
        BY DEF Matches
      <4> QED BY <1>3, <4>1, <4>2
    <3>2. CASE Peer
      <4>1. ~Controller /\ Goes("lookup", reader.fd, TRUE) /\ reader.fd \in Nums
        BY <1>1, <3>2 DEF Peer
      <4> QED BY <1>3, <4>1
    <3> QED BY <1>4, <3>1, <3>2
  <2>3. Tables'
    BY <1>1, <2>1, SameTables
  <2>4. TypeOK'
    BY <1>1, <2>1, <2>2 DEF TypeOK, Rec, tables
  <2>5. CallersOK'
    BY <1>1, <2>1 DEF CallersOK, tables, Controller
  <2>6. ReaderOK'
    <3>1. Swap[Swap[reader.src]] = reader.src
      BY <1>1, UdpAssumption
    <3> QED BY <1>1, <2>1, <2>2, <3>1 DEF ReaderOK, Inside, tables, Controller
  <2>7. Numbers'
    BY <1>1, <2>1, <2>2 DEF Numbers, NumbersApart, tables, Controller, TypeOK
  <2> QED BY <2>3, <2>4, <2>5, <2>6, <2>7
<1>5. CASE NewPeer /\ ~(ofrw[reader.fd] # None /\ list # None)
  <2>1. UNCHANGED <<tables, ofdev_type>> /\ random' = n /\ lock' = None /\ reader' = Polling
    BY <1>1, <1>5 DEF NewPeer, Returns, n
  <2>2. Tables'
    BY <1>1, <2>1, SameTables
  <2>3. reader' \in Rec /\ reader'.pc = "idle"
    BY <2>1 DEF Polling, Callback, Rec
  <2>4. TypeOK' /\ CallersOK'
    BY <1>1, <1>2, <2>1, <2>3 DEF TypeOK, Rec, tables, CallersOK, Controller
  <2>5. ReaderOK'
    BY <2>3 DEF ReaderOK, Inside
  <2>6. Numbers'
    <3>1. \A m \in Nums : m <= random => m <= n
      BY <1>2 DEF TypeOK
    <3>2. n >= MaxOpenFiles /\ n + 0 <= MaxOpenFiles + datagrams
      BY <1>2
    <3> QED BY <1>1, <2>1, <2>3, <3>1, <3>2 DEF Numbers, NumbersApart, tables, Controller
  <2> QED BY <2>2, <2>4, <2>5, <2>6
<1>6. CASE NewPeer /\ ofrw[reader.fd] # None /\ list # None
  <2>1. /\ Controller /\ random' = n /\ AddToTables(n, reader.src, FALSE, n)
        /\ Goes("lookup", n, TRUE)
    BY <1>6 DEF NewPeer, n
  <2>2. /\ lock' = Reader /\ reader' \in Rec /\ reader'.pc = "lookup"
        /\ reader'.num = n /\ reader'.src = reader.src
    BY <1>2, <1>3, <2>1
  <2>3. n \in Keys /\ ofrw[n] = None /\ ofchannel[n] = None
    <3>1. ofrw[n] = None
      BY <1>2 DEF Numbers, TypeOK
    <3> QED BY <1>1, <1>2, <2>1, <3>1 DEF Tables
  <2>4. Tables'
    BY <1>1, <1>2, <1>6, <2>1, <2>3, AddKeepsTables
  <2>5. /\ ofrw'[n] = [state |-> "DOWN", client |-> reader.src, thr |-> FALSE]
        /\ \A m \in Nums : m # n => ofrw'[m] = ofrw[m]
        /\ ofrw' \in [Nums -> Entry \cup {None}]
        /\ ofchannel' \in [Keys -> Nums \cup {None}]
    BY <1>1, <1>2, <2>1, <2>3 DEF AddToTables, TypeOK, Entry
  <2>6. list' \in Seq(Nums) /\ ofrw'[n] # None
    <3>1. list \in Seq(Nums) /\ list' = Append(list, n)
      BY <1>6, <2>1 DEF AddToTables, TypeOK
    <3>2. ofrw'[n] \in Entry
      BY <1>1, <2>5 DEF Entry
    <3> QED BY <1>2, <3>1, <3>2, AppendProperties
  <2>7. TypeOK'
    BY <1>1, <1>2, <2>1, <2>2, <2>5, <2>6 DEF TypeOK, Rec
  <2>8. CallersOK'
    <3>1. \A fd \in Fds : fd # n /\ fd \in Nums
      BY <1>2
    <3>2. \A fd \in Fds : ofrw'[fd] = ofrw[fd]
      BY <2>5, <3>1
    <3>3. app' = app /\ open' = open /\ (Controller' <=> Controller)
      BY <1>1 DEF Controller
    <3>4. ASSUME NEW a \in Apps, app[a].pc \in {"tables", "add"}
          PROVE  /\ app[a].fd \in Fds /\ app[a].key \in Keys
                 /\ Controller => app[a].key = app[a].fd
      BY <3>4 DEF CallersOK
    <3>5. ASSUME NEW a \in Apps, app[a].pc = "tables"
          PROVE  /\ app[a].fd \in open /\ ofrw'[app[a].fd] = None
                 /\ \A b \in Apps : app[b].pc = "tables" /\ app[b].fd = app[a].fd => b = a
      BY <3>2, <3>4, <3>5 DEF CallersOK
    <3> QED BY <1>1, <3>3, <3>4, <3>5 DEF CallersOK
  <2>9. ReaderOK'
    BY <1>1, <1>2, <2>2, <2>5, <2>6 DEF ReaderOK, Inside, Controller
  <2>10. Numbers'
    <3>1. n \notin open
      BY <1>2 DEF TypeOK
    <3>2. \A m \in Nums : m <= random => m <= n
      BY <1>2 DEF TypeOK
    <3>3. n >= MaxOpenFiles /\ n + 0 <= MaxOpenFiles + datagrams /\ n <= n
      BY <1>2
    <3> QED BY <1>1, <1>2, <2>1, <2>2, <2>5, <3>1, <3>2, <3>3
            DEF Numbers, NumbersApart, Controller
  <2> QED BY <2>4, <2>7, <2>8, <2>9, <2>10
<1> QED BY <1>4, <1>5, <1>6 DEF Classify

\* The channel is UP, after the callback that announced it.
LEMMA UpStep == ASSUME Inv, Up PROVE Inv'
<1> USE Constants DEF Inv
<1> DEFINE n == reader.num
           e == [ofrw[n] EXCEPT !.state = "UP"]
<1>1. /\ Runs /\ Runs' /\ lock = Reader /\ Tables /\ reader.pc = "up" /\ n \in Nums
      /\ ofrw[n] # None /\ ofrw[n] \in Entry /\ n \in told
      /\ UNCHANGED <<ofdev_type, list, ofchannel, open, polled, outq, random, app, told, crash,
                     datagrams>>
  BY DEF Up, ReaderOK, Inside, TypeOK, Runs
<1>2. /\ ofrw' = [ofrw EXCEPT ![n] = e] /\ lock' = Reader
      /\ reader' = [reader EXCEPT !.pc = "deliver", !.num = n, !.new = TRUE]
  BY <1>1 DEF Up, Goes
<1>3. /\ e \in Entry /\ e # None /\ e.client = ofrw[n].client /\ e.thr = ofrw[n].thr
  BY <1>1 DEF Entry
<1>4. /\ reader' \in [pc : {"idle", "out", "read", "lookup", "notify", "up", "deliver"},
                      fd : Fds \cup {None}, src : Addrs \cup {None}, num : Nums \cup {None},
                      new : BOOLEAN]
      /\ reader'.pc = "deliver" /\ reader'.num = n /\ reader'.src = reader.src
  BY <1>1, <1>2 DEF TypeOK
<1> HIDE DEF n, e
<1>5. /\ ofrw'[n] = e /\ \A m \in Nums : m # n => ofrw'[m] = ofrw[m]
      /\ ofrw' \in [Nums -> Entry \cup {None}]
      /\ \A m \in Nums : ofrw'[m] = None <=> ofrw[m] = None
  BY <1>1, <1>2, <1>3 DEF TypeOK
<1>6. Tables'
  <2>1. \A m \in Nums : ofrw'[m] # None <=> ofrw[m] # None
    BY <1>5
  <2>2. /\ list' = None => \A m \in Nums : ofrw'[m] = None
        /\ list' # None => /\ Distinct(list')
                           /\ \A m \in Nums : ofrw'[m] # None <=> Contains(list', m)
    BY <1>1, <2>1 DEF Tables
  <2>3. /\ \A m \in Nums : ofrw'[m] = None => \A k \in Keys : ofchannel'[k] # m
    BY <1>1, <2>1 DEF Tables
  <2>4. ASSUME NEW m \in Nums, ofrw'[m] # None
        PROVE  \E k \in Keys : \A j \in Keys : ofchannel'[j] = m <=> j = k
    <3>1. PICK k \in Keys : \A j \in Keys : ofchannel[j] = m <=> j = k
      BY <1>1, <2>1, <2>4 DEF Tables
    <3>2. \A j \in Keys : ofchannel'[j] = m <=> j = k
      BY <1>1, <3>1
    <3> QED BY <3>2
  <2>5. Controller' => \A k \in Keys : ofchannel'[k] # None => ofchannel'[k] = k
    BY <1>1 DEF Tables, Controller
  <2> QED BY <2>2, <2>3, <2>4, <2>5 DEF Tables
<1>7. TypeOK'
  BY <1>1, <1>2, <1>4, <1>5 DEF TypeOK
<1>8. CallersOK'
  <2>1. \A a \in Apps : app[a].pc \notin {"destroy", "devfree"}
    BY <1>1 DEF CallersOK
  <2> QED BY <1>1, <1>5, <2>1 DEF CallersOK, Controller
<1>9. ReaderOK'
  <2>1. Controller => reader.src \in {ofrw[n].client, Swap[ofrw[n].client]}
    BY <1>1 DEF ReaderOK, Inside, n
  <2>2. reader.src \in Addrs
    BY <1>1 DEF ReaderOK, Inside
  <2> QED BY <1>1, <1>2, <1>3, <1>4, <1>5, <2>1, <2>2 DEF ReaderOK, Inside, Controller
<1>10. Numbers'
  BY <1>1, <1>3, <1>4, <1>5 DEF Numbers, NumbersApart, Controller
<1> QED BY <1>6, <1>7, <1>8, <1>9, <1>10

-----------------------------------------------------------------------------
(* The theorems *)

\* The invariant is inductive.
LEMMA StepInv == Inv /\ [Next]_vars => Inv'
<1> SUFFICES ASSUME Inv, [Next]_vars PROVE Inv'
  OBVIOUS
<1>1. ASSUME NEW a \in Apps, Begins(a) \/ Continues(a) PROVE Inv'
  BY <1>1, CallSteps, DeviceSteps, OpenTablesStep, CloseSteps DEF Begins, Continues
<1>2. CASE Arrives \/ PolloutEnd \/ Pollin
  BY <1>2, ReaderSteps, ClassifyStep, UpStep DEF Pollin
<1>3. CASE UNCHANGED vars
  <2>1. TypeOK'
    BY <1>3 DEF Inv, vars, TypeOK
  <2>2. CallersOK' /\ ReaderOK' /\ Numbers'
    BY <1>3 DEF Inv, vars, CallersOK, ReaderOK, Inside, Numbers, NumbersApart, Controller
  <2>3. Runs' => Tables'
    BY <1>3 DEF Inv, vars, Runs, Tables, Controller
  <2> QED BY <2>1, <2>2, <2>3 DEF Inv
<1> QED BY <1>1, <1>2, <1>3 DEF Next

\* The invariant holds in every behaviour.
THEOREM Invariance == Spec => []Inv
BY InitInv, StepInv, PTL DEF Spec

\* Device list, socket table and channel table tell the same story, while the
\* read-write thread makes dummy sockets and applications close them.
THEOREM TablesAgreeHolds == Spec => []TablesAgree
<1>1. Inv => TablesAgree
  <2> SUFFICES ASSUME Inv, Runs PROVE TablesAgree
    BY DEF TablesAgree
  <2>1. Tables /\ TypeOK
    BY DEF Inv
  <2>2. list # None => Cardinality(ToSet(list)) = Len(list)
    BY <2>1, DistinctCardinality DEF Tables, TypeOK
  <2>3. ASSUME NEW n \in Nums, ofrw[n] = None PROVE Cardinality(KeysOf(n)) = 0
    <3>1. KeysOf(n) = {}
      BY <2>1, <2>3 DEF Tables, KeysOf
    <3> QED BY <3>1, FS_EmptySet
  <2>4. ASSUME NEW n \in Nums, ofrw[n] # None PROVE Cardinality(KeysOf(n)) = 1
    <3>1. PICK k \in Keys : \A j \in Keys : ofchannel[j] = n <=> j = k
      BY <2>1, <2>4 DEF Tables
    <3>2. KeysOf(n) = {k}
      BY <3>1 DEF KeysOf
    <3> QED BY <3>2, FS_Singleton
  <2> QED BY <2>1, <2>2, <2>3, <2>4 DEF Tables, TablesAgree
<1> QED BY <1>1, Invariance, PTL

\* The error path of process_udpfd_pollin_func that keeps the locks is not
\* reached: the entry is still there after the accept callback.
THEOREM EntryStaysHolds == Spec => []EntryStays
<1>1. Inv => EntryStays
  BY DEF Inv, ReaderOK, EntryStays
<1> QED BY <1>1, Invariance, PTL

\* The numbers given to UDP peers are no descriptors.
THEOREM NumbersApartHolds == Spec => []NumbersApart
<1>1. Inv => NumbersApart
  BY DEF Inv, Numbers
<1> QED BY <1>1, Invariance, PTL

\* Only Deliver calls recv_func.
LEMMA OnlyDeliver ==
  ASSUME Inv, [Next]_vars, Controller, rcvd' # rcvd
  PROVE  /\ reader.pc = "deliver" /\ Ready(reader.num)
         /\ rcvd'.num = reader.num /\ rcvd'.src = reader.src
<1>1. Deliver
  BY DEF Next, vars, Begins, Continues, Register, DevFree, OpenFail, Open, Destroy, Send,
         OpenTables, OpenAdd, DestroyClose, DevFreeClose, DevFreeEnd, Arrives, Pollout, Read,
         PolloutEnd, Pollin, Classify, LookUp, AcceptFunc, Up
<1> QED BY <1>1 DEF Deliver

\* A controller gets no data from a channel it was not told of.
THEOREM ToldBeforeDataHolds == Spec => ToldBeforeData
<1>1. Inv /\ [Next]_vars =>
        [Controller /\ rcvd' # rcvd => rcvd'.num \in told /\ ofrw[rcvd'.num] # None]_vars
  <2> SUFFICES ASSUME Inv, [Next]_vars, Controller, rcvd' # rcvd
               PROVE  rcvd'.num \in told /\ ofrw[rcvd'.num] # None
    OBVIOUS
  <2>1. /\ reader.pc = "deliver" /\ Ready(reader.num) /\ rcvd'.num = reader.num
    BY OnlyDeliver
  <2>2. ofrw[reader.num] # None /\ reader.num \in Nums
    BY <2>1 DEF Inv, ReaderOK, Inside
  <2> QED BY <2>1, <2>2 DEF Inv, Ready, Numbers
<1> QED BY <1>1, Invariance, PTL DEF Spec, ToldBeforeData

\* The data of a channel comes from its peer or from the peer whose address is
\* the reverse of it, from nobody else.
THEOREM SenderOrReverseHolds == Spec => SenderOrReverse
<1>1. Inv /\ [Next]_vars =>
        [Controller /\ rcvd' # rcvd =>
           rcvd'.src \in {ofrw[rcvd'.num].client, Swap[ofrw[rcvd'.num].client]}]_vars
  BY OnlyDeliver DEF Inv, ReaderOK, Inside
<1> QED BY <1>1, Invariance, PTL DEF Spec, SenderOrReverse
=============================================================================
