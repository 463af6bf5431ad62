---------------------------- MODULE RwPoolProofs ----------------------------
(***************************************************************************)
(* Theorems about RwPool, for any number of workers, sockets and managers  *)
(* and any capacity of a thread.                                           *)
(***************************************************************************)
EXTENDS RwPool, TLAPS, SequenceTheorems, FiniteSetTheorems, ListLemmas

-----------------------------------------------------------------------------
(* The inductive invariant *)

Inside(i) == w[i].pc # "idle"

\* The list has the managers created so far, each once; whoever names a
\* manager names one of them; the locks protect a deletion.
Managers ==
  /\ Distinct(pool)
  /\ \A m \in Mgrs : Contains(pool, m) <=> m <= created
  /\ \A fd \in Fds : ofrw[fd] <= created
  /\ \A i \in Workers :
       /\ Inside(i) => w[i].fd \in Fds
       /\ w[i].pc \in {"found", "tabled", "deleted"} => w[i].mgr \in 1 .. created
       /\ w[i].pc = "deleted" => lock = i

\* Every worker has a socket of its own, and a thread polls only what the table
\* gives it.  This needs that no socket is deleted while its ADD is in
\* progress, which workers that come one at a time cannot do.
Apart ==
  /\ \A fd \in Fds : ofrw[fd] # 0 => fd \in open
  /\ \A m \in Mgrs, fd \in Fds : fd \in polled[m] => ofrw[fd] = m
  /\ \A i \in Workers :
       /\ w[i].pc \in {"create", "found"} => w[i].fd \in open /\ ofrw[w[i].fd] = 0
       /\ w[i].pc \in {"tabled", "deleted"} =>
            ofrw[w[i].fd] = w[i].mgr /\ w[i].fd \notin polled[w[i].mgr]
       /\ \A j \in Workers : Inside(i) /\ Inside(j) /\ w[i].fd = w[j].fd => i = j

\* The counters are exact: a thread has as many sockets as it counts, and no
\* more than it may have.
Counts ==
  \A m \in Mgrs : /\ IsFiniteSet(polled[m])
                  /\ num_sockets[m] = Cardinality(polled[m])
                  /\ num_sockets[m] <= MaxSockets
                  /\ m > created => polled[m] = {}

\* What is in the table is polled, but for the sockets of workers on their way.
Served ==
  \A fd \in Fds : ofrw[fd] # 0 =>
    \/ fd \in polled[ofrw[fd]]
    \/ \E i \in Workers : w[i].fd = fd /\ w[i].pc \in {"tabled", "deleted"}

\* The emptier managers come first: everywhere, and leaving one out.
Ordered == \A j, k \in 1 .. Len(pool) : j < k => num_sockets[pool[j]] <= num_sockets[pool[k]]
OrderedBut(m) ==
  \A j, k \in 1 .. Len(pool) : j < k /\ pool[j] # m /\ pool[k] # m
                                => num_sockets[pool[j]] <= num_sockets[pool[k]]

\* Where the order stands for each place of a worker.  A manager that was found
\* has room, and all behind it are full: it may lose a place without losing
\* its place in the list.
Order(i) ==
  /\ w[i].pc \in {"idle", "create", "found", "tabled"} => Ordered
  /\ w[i].pc = "create" => \A k \in 1 .. Len(pool) : num_sockets[pool[k]] = MaxSockets
  /\ w[i].pc \in {"found", "tabled"} =>
       /\ num_sockets[w[i].mgr] < MaxSockets
       /\ \A j, k \in 1 .. Len(pool) : pool[j] = w[i].mgr /\ j < k
                                        => num_sockets[pool[k]] = MaxSockets
  /\ w[i].pc = "deleted" => OrderedBut(w[i].mgr)

\* As long as workers came one at a time.
Alone ==
  /\ \A i, j \in Workers : Inside(i) /\ Inside(j) => i = j
  /\ Counts /\ Served
  /\ Quiet => Ordered
  /\ \A i \in Workers : Inside(i) => Order(i)

Inv == /\ TypeOK /\ Managers
       /\ ~DeletesEarly \/ ~overlapped => Apart
       /\ ~overlapped => Alone

-----------------------------------------------------------------------------
(* The operators of the model *)

\* Capacities and managers are numbers.
LEMMA Constants ==
  /\ MaxSockets \in Nat /\ MaxSockets > 0 /\ CountMod \in Nat /\ MaxSockets < CountMod
  /\ AvailMod \in Nat /\ CountMod <= AvailMod /\ MaxMgrs \in Nat /\ MaxMgrs > 0
  /\ NoWorker \notin Workers /\ 0 \notin Mgrs /\ Mgrs \subseteq Nat /\ DeletesEarly \in BOOLEAN
  /\ \A m \in Mgrs : m \in 1 .. MaxMgrs
BY PoolAssumption DEF Mgrs

\* The free capacity is exact unless the counter has run over the limit.
LEMMA AvailValue ==
  ASSUME TypeOK, NEW m \in Mgrs
  PROVE  /\ Avail(m) \in Nat
         /\ Avail(m) = 0 <=> num_sockets[m] = MaxSockets
         /\ num_sockets[m] <= MaxSockets => Avail(m) = MaxSockets - num_sockets[m]
<1>1. num_sockets[m] \in 0 .. CountMod - 1
  BY DEF TypeOK
<1> QED BY <1>1, Constants DEF Avail

\* With exact counters, more room is fewer sockets.
LEMMA AvailOrder ==
  ASSUME TypeOK, Counts
  PROVE  /\ \A m \in Mgrs : num_sockets[m] \in Nat /\ Avail(m) \in Nat
         /\ \A m, n \in Mgrs : Avail(m) >= Avail(n) <=> num_sockets[m] <= num_sockets[n]
<1>1. \A m \in Mgrs : num_sockets[m] \in Nat /\ num_sockets[m] <= MaxSockets
  BY Constants DEF TypeOK, Counts
<1>2. \A m \in Mgrs : Avail(m) \in Nat /\ Avail(m) = MaxSockets - num_sockets[m]
  BY <1>1, AvailValue
<1>3. ASSUME NEW m \in Mgrs, NEW n \in Mgrs
      PROVE  Avail(m) >= Avail(n) <=> num_sockets[m] <= num_sockets[n]
  <2>1. /\ Avail(m) = MaxSockets - num_sockets[m] /\ num_sockets[m] \in Nat
        /\ Avail(n) = MaxSockets - num_sockets[n] /\ num_sockets[n] \in Nat
    BY <1>1, <1>2
  <2> QED BY <2>1, Constants
<1> QED BY <1>1, <1>2, <1>3

\* The walk of cc_find_or_create_rw_pollthr_safe ends in the list, at the end of
\* its leading part that has room.
LEMMA LastPlace ==
  ASSUME TypeOK, Len(pool) >= 1, ~NoRoom
  PROVE  \E k \in 1 .. Len(pool) :
           /\ LastWithRoom = pool[k] /\ Avail(pool[k]) # 0
           /\ k < Len(pool) => Avail(pool[k + 1]) = 0
<1> DEFINE T == {j \in 1 .. Len(pool) : Avail(pool[j]) = 0}
           ends == {k \in 1 .. Len(pool) : /\ \A j \in 1 .. k : Avail(pool[j]) # 0
                                           /\ k < Len(pool) => Avail(pool[k + 1]) = 0}
<1>1. pool \in Seq(Mgrs) /\ Len(pool) \in Nat /\ Head(pool) = pool[1]
  BY DEF TypeOK
<1>2. \E k \in ends : TRUE
  <2>1. CASE T = {}
    BY <1>1, <2>1
  <2>2. CASE T # {}
    <3>1. T \subseteq Nat
      OBVIOUS
    <3> HIDE DEF T
    <3>2. PICK x \in T : \A y \in T : x <= y
      BY <2>2, <3>1, LeastNatural
    <3>3. x \in 1 .. Len(pool) /\ Avail(pool[x]) = 0 /\ x # 1
      BY <1>1, <3>2 DEF T, NoRoom
    <3>4. \A j \in 1 .. x - 1 : Avail(pool[j]) # 0
      BY <3>2, <3>3 DEF T
    <3>5. x - 1 \in ends
      BY <1>1, <3>3, <3>4
    <3> QED BY <3>5
  <2> QED BY <2>1, <2>2
<1> DEFINE c == CHOOSE k \in ends : TRUE
<1>3. LastWithRoom = pool[c]
  BY DEF LastWithRoom
<1>4. c \in ends
  BY <1>2
<1> HIDE DEF c
<1>5. c \in 1 .. Len(pool) /\ c \in 1 .. c
  BY <1>4
<1> QED BY <1>3, <1>4, <1>5

\* g_list_insert_sorted finds a place: behind managers with more room, in front
\* of the first that has no more.
LEMMA SortedPlace ==
  ASSUME TypeOK, NEW l \in Seq(Mgrs), NEW m \in Mgrs
  PROVE  \E k \in 0 .. Len(l) :
           /\ InsertSorted(l, m) = InsertAt(l, k + 1, m)
           /\ \A j \in 1 .. k : Avail(l[j]) > Avail(m)
           /\ k < Len(l) => Avail(l[k + 1]) <= Avail(m)
<1> DEFINE T == {j \in 1 .. Len(l) : Avail(l[j]) <= Avail(m)}
           P(k) == /\ \A j \in 1 .. k : Avail(l[j]) > Avail(m)
                   /\ k < Len(l) => Avail(l[k + 1]) <= Avail(m)
<1>1. Len(l) \in Nat /\ Avail(m) \in Nat /\ \A j \in 1 .. Len(l) : Avail(l[j]) \in Nat
  BY AvailValue
<1>2. \E k \in 0 .. Len(l) : P(k)
  <2>1. CASE T = {}
    <3>1. Len(l) \in 0 .. Len(l) /\ \A j \in 1 .. Len(l) : Avail(l[j]) > Avail(m)
      BY <1>1, <2>1
    <3>2. P(Len(l))
      BY <1>1, <3>1
    <3> HIDE DEF P
    <3> QED BY <3>1, <3>2
  <2>2. CASE T # {}
    <3>1. T \subseteq Nat
      OBVIOUS
    <3> HIDE DEF T
    <3>2. PICK x \in T : \A y \in T : x <= y
      BY <2>2, <3>1, LeastNatural
    <3>3. x \in 1 .. Len(l) /\ Avail(l[x]) <= Avail(m)
      BY <3>2 DEF T
    <3>4. \A j \in 1 .. x - 1 : j \in 1 .. Len(l) /\ j \notin T
      BY <1>1, <3>2, <3>3
    <3>5. \A j \in 1 .. x - 1 : Avail(l[j]) > Avail(m)
      BY <1>1, <3>4 DEF T
    <3>6. x - 1 \in 0 .. Len(l) /\ x - 1 + 1 = x
      BY <1>1, <3>3
    <3>7. P(x - 1)
      BY <3>3, <3>5, <3>6
    <3> HIDE DEF P
    <3> QED BY <3>6, <3>7
  <2> QED BY <2>1, <2>2
<1> DEFINE c == CHOOSE k \in 0 .. Len(l) : P(k)
<1>3. InsertSorted(l, m) = InsertAt(l, c + 1, m)
  BY DEF InsertSorted
<1>4. c \in 0 .. Len(l) /\ P(c)
  <2> HIDE DEF P
  <2> QED BY <1>2
<1> HIDE DEF c
<1> QED BY <1>3, <1>4

\* A worker that comes alone, has come alone.
LEMMA EntersAlone ==
  ASSUME overlapped \in BOOLEAN, NEW i \in Workers, Enters(i)
  PROVE  /\ overlapped' \in BOOLEAN
         /\ ~overlapped' => ~overlapped /\ \A j \in Workers : j # i => ~Inside(j)
<1> DEFINE E == \E j \in Workers \ {i} : w[j].pc # "idle"
<1>1. overlapped' = (overlapped \/ E)
  BY DEF Enters
<1>2. CASE overlapped \/ E
  BY <1>1, <1>2
<1>3. CASE ~(overlapped \/ E)
  BY <1>1, <1>3 DEF Inside
<1> QED BY <1>2, <1>3

\* One manager, no socket, nobody inside.
LEMMA InitInv == Init => Inv
<1> SUFFICES ASSUME Init PROVE Inv
  OBVIOUS
<1> USE Constants
<1>1. pool = <<1>> /\ Len(pool) = 1 /\ pool[1] = 1 /\ pool \in Seq(Mgrs) /\ 1 \in Mgrs
  <2>1. 1 \in Mgrs
    BY DEF Mgrs
  <2> QED BY <2>1 DEF Init
<1>2. TypeOK
  <2>1. 0 \in 0 .. CountMod - 1 /\ 0 \in 0 .. MaxMgrs
    OBVIOUS
  <2>2. Idle \in WorkerState
    BY <2>1 DEF Idle, WorkerState
  <2> QED BY <1>1, <2>1, <2>2 DEF Init, TypeOK
<1>3. Managers
  BY <1>1 DEF Init, Managers, Distinct, Contains, Inside, Idle, Mgrs
<1>4. Apart
  BY DEF Init, Apart, Inside, Idle
<1>5. Counts
  BY FS_EmptySet DEF Init, Counts
<1>6. Alone
  BY <1>1, <1>5 DEF Init, Alone, Inside, Idle, Served, Ordered
<1> QED BY <1>2, <1>3, <1>4, <1>6 DEF Inv

-----------------------------------------------------------------------------
(* The steps *)

\* The list is never empty, and its elements are managers that exist.
LEMMA PoolFacts ==
  ASSUME TypeOK, Managers
  PROVE  /\ pool \in Seq(Mgrs) /\ Len(pool) \in Nat /\ Len(pool) >= 1
         /\ created \in Nat /\ created >= 1 /\ created <= MaxMgrs
         /\ \A k \in 1 .. Len(pool) : pool[k] \in Mgrs /\ pool[k] \in 1 .. created
<1>1. pool \in Seq(Mgrs) /\ Len(pool) \in Nat /\ created \in Mgrs
  BY DEF TypeOK
<1>2. 1 \in Mgrs /\ 1 <= created /\ created \in Nat /\ created <= MaxMgrs
  BY <1>1, Constants DEF Mgrs
<1>3. Contains(pool, 1)
  BY <1>2 DEF Managers
<1>4. \A k \in 1 .. Len(pool) : pool[k] \in Mgrs /\ Contains(pool, pool[k])
  BY <1>1 DEF Contains
<1>5. \A k \in 1 .. Len(pool) : pool[k] \in 1 .. created
  BY <1>2, <1>4, Constants DEF Managers, Mgrs
<1>6. Len(pool) >= 1
  <2>1. PICK k \in 1 .. Len(pool) : pool[k] = 1
    BY <1>3 DEF Contains
  <2> QED BY <1>1, <2>1
<1> QED BY <1>1, <1>2, <1>4, <1>5, <1>6

\* A worker looks for a manager.
LEMMA FindStep ==
  ASSUME Inv, NEW i \in Workers, NEW fd \in Fds, Find(i, fd)
  PROVE  Inv'
<1> USE Constants DEF Inv
<1> DEFINE r == IF NoRoom THEN [pc |-> "create", fd |-> fd, mgr |-> 0]
                ELSE [pc |-> "found", fd |-> fd, mgr |-> LastWithRoom]
<1>1. /\ w[i].pc = "idle" /\ fd \notin open /\ open' = open \cup {fd}
      /\ w' = [w EXCEPT ![i] = r]
      /\ UNCHANGED <<created, pool, num_sockets, polled, freed, ofrw, lock, crashed>>
  BY DEF Find
<1>2. /\ pool \in Seq(Mgrs) /\ Len(pool) \in Nat /\ Len(pool) >= 1
      /\ created \in Nat /\ created <= MaxMgrs
      /\ \A k \in 1 .. Len(pool) : pool[k] \in Mgrs /\ pool[k] \in 1 .. created
  BY PoolFacts
<1>3. /\ overlapped' \in BOOLEAN
      /\ ~overlapped' => ~overlapped /\ \A j \in Workers : j # i => ~Inside(j)
  <2>1. Enters(i) /\ overlapped \in BOOLEAN
    BY DEF Find, TypeOK
  <2> QED BY <2>1, EntersAlone
<1>4. ~NoRoom => \E k \in 1 .. Len(pool) :
                   /\ LastWithRoom = pool[k] /\ Avail(pool[k]) # 0
                   /\ k < Len(pool) => Avail(pool[k + 1]) = 0
  BY <1>2, LastPlace
<1>5. /\ r.fd = fd /\ r.pc \in {"create", "found"} /\ r \in WorkerState
      /\ r.pc = "create" => NoRoom
      /\ r.pc = "found" => r.mgr = LastWithRoom /\ ~NoRoom /\ r.mgr \in 1 .. created
  BY <1>2, <1>4 DEF WorkerState
<1> HIDE DEF r
<1>6. w'[i] = r /\ \A j \in Workers : j # i => w'[j] = w[j]
  BY <1>1 DEF TypeOK
<1>7. TypeOK'
  BY <1>1, <1>3, <1>5 DEF TypeOK
<1>8. Managers'
  BY <1>1, <1>5, <1>6 DEF Managers, Inside
<1>9. Apart => Apart'
  <2> SUFFICES ASSUME Apart PROVE Apart'
    OBVIOUS
  <2>1. ofrw[fd] = 0
    BY <1>1 DEF Apart
  <2>2. \A j \in Workers : Inside(j) => w[j].fd # fd
    <3>1. ASSUME NEW j \in Workers, w[j].pc \in {"tabled", "deleted"} PROVE w[j].fd # fd
      BY <1>2, <2>1, <3>1 DEF Apart, Managers
    <3>2. ASSUME NEW j \in Workers, w[j].pc \in {"create", "found"} PROVE w[j].fd # fd
      BY <1>1, <3>2 DEF Apart
    <3> QED BY <3>1, <3>2 DEF Inside, TypeOK, WorkerState
  <2> QED BY <1>1, <1>5, <1>6, <2>1, <2>2 DEF Apart, Inside
<1>10. ASSUME ~overlapped' PROVE Alone'
  <2>1. Alone /\ \A j \in Workers : ~Inside(j)
    BY <1>1, <1>3, <1>10 DEF Inside
  <2>2. Ordered
    BY <2>1 DEF Alone, Quiet, Inside
  <2>3. \A k \in 1 .. Len(pool) : /\ num_sockets[pool[k]] \in Nat
                                  /\ num_sockets[pool[k]] <= MaxSockets
                                  /\ Avail(pool[k]) = 0 <=> num_sockets[pool[k]] = MaxSockets
    <3>1. \A m \in Mgrs : num_sockets[m] \in Nat /\ num_sockets[m] <= MaxSockets
      BY <2>1 DEF TypeOK, Alone, Counts
    <3>2. \A m \in Mgrs : Avail(m) = 0 <=> num_sockets[m] = MaxSockets
      BY AvailValue
    <3> QED BY <1>2, <3>1, <3>2
  <2>4. ASSUME NoRoom PROVE \A k \in 1 .. Len(pool) : num_sockets[pool[k]] = MaxSockets
    <3>1. Head(pool) = pool[1] /\ 1 \in 1 .. Len(pool)
      BY <1>2
    <3>2. num_sockets[pool[1]] = MaxSockets
      BY <2>3, <2>4, <3>1 DEF NoRoom
    <3>3. ASSUME NEW k \in 1 .. Len(pool), k # 1 PROVE num_sockets[pool[k]] = MaxSockets
      <4>1. num_sockets[pool[1]] <= num_sockets[pool[k]]
        BY <2>2, <3>1, <3>3 DEF Ordered
      <4> QED BY <2>3, <3>2, <4>1
    <3> QED BY <3>2, <3>3
  <2>5. ASSUME ~NoRoom
        PROVE  /\ num_sockets[LastWithRoom] < MaxSockets
               /\ \A j, k \in 1 .. Len(pool) : pool[j] = LastWithRoom /\ j < k
                                                => num_sockets[pool[k]] = MaxSockets
    <3>1. PICK p \in 1 .. Len(pool) : /\ LastWithRoom = pool[p] /\ Avail(pool[p]) # 0
                                      /\ p < Len(pool) => Avail(pool[p + 1]) = 0
      BY <1>4, <2>5
    <3>2. num_sockets[LastWithRoom] < MaxSockets
      BY <2>3, <3>1
    <3>3. ASSUME NEW j \in 1 .. Len(pool), NEW k \in 1 .. Len(pool),
                 pool[j] = LastWithRoom, j < k
          PROVE  num_sockets[pool[k]] = MaxSockets
      <4>1. j = p
        BY <3>1, <3>3 DEF Managers, Distinct
      <4>2. p + 1 \in 1 .. Len(pool) /\ p + 1 <= k /\ p < Len(pool)
        BY <1>2, <3>3, <4>1
      <4>3. num_sockets[pool[p + 1]] = MaxSockets
        BY <2>3, <3>1, <4>2
      <4>4. k = p + 1 \/ num_sockets[pool[p + 1]] <= num_sockets[pool[k]]
        BY <2>2, <4>2 DEF Ordered
      <4> QED BY <2>3, <4>3, <4>4
    <3> QED BY <3>2, <3>3
  <2>6. Order(i)'
    <3>1. Ordered'
      BY <1>1, <2>2 DEF Ordered
    <3>2. r.pc = "create" => \A k \in 1 .. Len(pool) : num_sockets[pool[k]] = MaxSockets
      BY <1>5, <2>4
    <3>3. r.pc = "found" => /\ num_sockets[r.mgr] < MaxSockets
                            /\ \A j, k \in 1 .. Len(pool) : pool[j] = r.mgr /\ j < k
                                                => num_sockets[pool[k]] = MaxSockets
      BY <1>5, <2>5
    <3> QED BY <1>1, <1>5, <1>6, <3>1, <3>2, <3>3 DEF Order
  <2>7. \A j \in Workers : Inside(j)' => j = i
    BY <1>6, <2>1 DEF Inside
  <2>8. Counts'
    BY <1>1, <2>1 DEF Alone, Counts
  <2>9. Served'
    BY <1>1, <2>1 DEF Alone, Served, Inside
  <2>10. ~Quiet'
    BY <1>5, <1>6 DEF Quiet
  <2> QED BY <2>6, <2>7, <2>8, <2>9, <2>10 DEF Alone
<1> QED BY <1>3, <1>7, <1>8, <1>9, <1>10

\* A worker creates a manager.
LEMMA CreateStep ==
  ASSUME Inv, NEW i \in Workers, Create(i)
  PROVE  Inv'
<1> USE Constants DEF Inv
<1> DEFINE n == created + 1
           r == [w[i] EXCEPT !.pc = "found", !.mgr = n]
<1>1. /\ w[i].pc = "create" /\ created < MaxMgrs /\ created' = n /\ pool' = <<n>> \o pool
      /\ w' = [w EXCEPT ![i] = r]
      /\ UNCHANGED <<num_sockets, polled, freed, ofrw, open, lock, overlapped, crashed>>
  BY DEF Create
<1>2. /\ pool \in Seq(Mgrs) /\ Len(pool) \in Nat /\ Len(pool) >= 1
      /\ created \in Nat /\ created >= 1 /\ created <= MaxMgrs
      /\ \A k \in 1 .. Len(pool) : pool[k] \in Mgrs /\ pool[k] \in 1 .. created
  BY PoolFacts
<1>3. n \in Mgrs /\ n > created /\ n \in 0 .. MaxMgrs
  BY <1>1, <1>2 DEF Mgrs
<1>4. r \in WorkerState /\ r.pc = "found" /\ r.fd = w[i].fd /\ r.mgr = n
  BY <1>3 DEF TypeOK, WorkerState
<1> HIDE DEF n, r
<1>5. /\ pool' \in Seq(Mgrs) /\ Len(pool') = Len(pool) + 1 /\ pool'[1] = n
      /\ \A j \in 2 .. Len(pool) + 1 : pool'[j] = pool[j - 1]
      /\ Distinct(pool) /\ ~Contains(pool, n) => Distinct(pool')
      /\ \A x : Contains(pool', x) <=> Contains(pool, x) \/ x = n
  BY <1>1, <1>2, <1>3, PrependDistinct
<1>6. w'[i] = r /\ \A j \in Workers : j # i => w'[j] = w[j]
  BY <1>1 DEF TypeOK
<1>7. TypeOK'
  BY <1>1, <1>3, <1>4, <1>5 DEF TypeOK
<1>8. Managers'
  <2>1. ~Contains(pool, n)
    BY <1>2, <1>3 DEF Managers
  <2>2. \A m \in Mgrs : Contains(pool', m) <=> m <= n
    BY <1>2, <1>3, <1>5 DEF Managers, n
  <2>3. \A fd \in Fds : ofrw[fd] <= n
    BY <1>2, <1>3 DEF Managers, TypeOK
  <2>4. \A j \in Workers : w'[j].pc \in {"found", "tabled", "deleted"} => w'[j].mgr \in 1 .. n
    <3>1. n \in 1 .. n /\ \A x \in 1 .. created : x \in 1 .. n
      BY <1>2 DEF n
    <3>2. \A j \in Workers :
            w[j].pc \in {"found", "tabled", "deleted"} => w[j].mgr \in 1 .. created
      BY DEF Managers
    <3> QED BY <1>4, <1>6, <3>1, <3>2
  <2>5. \A j \in Workers : /\ w'[j].pc # "idle" => w'[j].fd \in Fds
                           /\ w'[j].pc = "deleted" => lock = j
    BY <1>1, <1>4, <1>6 DEF Managers, Inside
  <2> QED BY <1>1, <1>5, <2>1, <2>2, <2>3, <2>4, <2>5 DEF Managers, Inside
<1>9. Apart => Apart'
  BY <1>1, <1>4, <1>6 DEF Apart, Inside
<1>10. ASSUME ~overlapped' PROVE Alone'
  <2>1. Alone /\ Inside(i) /\ Order(i)
    BY <1>1, <1>10 DEF Alone, Inside
  <2>2. \A j \in Workers : Inside(j) => j = i
    BY <2>1 DEF Alone
  <2>3. /\ num_sockets[n] = 0 /\ \A k \in 1 .. Len(pool) : num_sockets[pool[k]] = MaxSockets
    BY <1>1, <1>3, <2>1, FS_EmptySet DEF Alone, Counts, Order
  <2>4. \A k \in 1 .. Len(pool') : k > 1 => num_sockets[pool'[k]] = MaxSockets
    <3>1. \A k \in 1 .. Len(pool') : k > 1 => k \in 2 .. Len(pool) + 1 /\ k - 1 \in 1 .. Len(pool)
      BY <1>2, <1>5
    <3> QED BY <1>5, <2>3, <3>1
  <2>5. Ordered'
    BY <1>1, <1>2, <1>5, <2>3, <2>4 DEF Ordered
  <2>6. Order(i)'
    BY <1>1, <1>4, <1>5, <1>6, <2>3, <2>4, <2>5 DEF Order
  <2>7. \A j \in Workers : Inside(j)' => j = i
    BY <1>6, <2>2 DEF Inside
  <2>8. Counts'
    <3>1. \A m \in Mgrs : m > created' => m > created
      BY <1>1, <1>2, <1>3
    <3> QED BY <1>1, <2>1, <3>1 DEF Alone, Counts
  <2>9. Served'
    BY <1>1, <1>6, <2>1 DEF Alone, Served
  <2> QED BY <2>5, <2>6, <2>7, <2>8, <2>9 DEF Alone
<1> QED BY <1>1, <1>7, <1>8, <1>9, <1>10

\* The tables are updated, or refuse.
LEMMA TablesStep ==
  ASSUME Inv, NEW i \in Workers, Tables(i)
  PROVE  Inv'
<1> USE Constants DEF Inv
<1> DEFINE fd == w[i].fd
           m == w[i].mgr
           r == [w[i] EXCEPT !.pc = "tabled"]
<1>1. /\ w[i].pc = "found" /\ ofrw' = [ofrw EXCEPT ![fd] = m] /\ w' = [w EXCEPT ![i] = r]
      /\ UNCHANGED <<created, pool, num_sockets, polled, freed, open, lock, overlapped, crashed>>
  BY DEF Tables
<1>2. fd \in Fds /\ m \in 1 .. created /\ m \in Mgrs /\ m \in 0 .. MaxMgrs /\ created \in Nat
  BY <1>1, PoolFacts DEF Managers, Inside, Mgrs
<1>3. r \in WorkerState /\ r.pc = "tabled" /\ r.fd = fd /\ r.mgr = m
  BY DEF TypeOK, WorkerState
<1>4. w[i].fd = fd /\ w[i].mgr = m
  OBVIOUS
<1> HIDE DEF fd, m, r
<1>5. w'[i] = r /\ \A j \in Workers : j # i => w'[j] = w[j]
  BY <1>1 DEF TypeOK
<1>6. ofrw'[fd] = m /\ \A g \in Fds : g # fd => ofrw'[g] = ofrw[g]
  BY <1>1, <1>2 DEF TypeOK
<1>7. TypeOK'
  BY <1>1, <1>2, <1>3 DEF TypeOK
<1>8. Managers'
  BY <1>1, <1>2, <1>3, <1>5, <1>6 DEF Managers, Inside
<1>9. Apart => Apart'
  <2> SUFFICES ASSUME Apart PROVE Apart'
    OBVIOUS
  <2>1. fd \in open /\ ofrw[fd] = 0 /\ Inside(i)
    BY <1>1, <1>4 DEF Apart, Inside
  <2>2. \A k \in Mgrs : fd \notin polled[k]
    BY <1>2, <2>1 DEF Apart
  <2>3. \A j \in Workers : j # i /\ Inside(j) => w[j].fd # fd /\ w[j].fd \in Fds
    BY <1>4, <2>1 DEF Apart, Managers
  <2>4. \A g \in Fds : ofrw'[g] # 0 => g \in open'
    BY <1>1, <1>6, <2>1 DEF Apart
  <2>5. \A k \in Mgrs, g \in Fds : g \in polled'[k] => ofrw'[g] = k
    BY <1>1, <1>6, <2>2 DEF Apart
  <2>6. ASSUME NEW j \in Workers
        PROVE  /\ w'[j].pc \in {"create", "found"} => w'[j].fd \in open' /\ ofrw'[w'[j].fd] = 0
               /\ w'[j].pc \in {"tabled", "deleted"} =>
                    ofrw'[w'[j].fd] = w'[j].mgr /\ w'[j].fd \notin polled'[w'[j].mgr]
    <3>1. CASE j = i
      BY <1>1, <1>2, <1>3, <1>5, <1>6, <2>2, <3>1
    <3>2. CASE j # i
      BY <1>1, <1>5, <1>6, <2>3, <3>2 DEF Apart, Inside
    <3> QED BY <3>1, <3>2
  <2>7. \A j, k \in Workers : Inside(j)' /\ Inside(k)' /\ w'[j].fd = w'[k].fd => j = k
    BY <1>3, <1>4, <1>5, <2>1 DEF Apart, Inside
  <2> QED BY <2>4, <2>5, <2>6, <2>7 DEF Apart
<1>10. ASSUME ~overlapped' PROVE Alone'
  <2>1. Alone /\ Inside(i) /\ Order(i)
    BY <1>1, <1>10 DEF Alone, Inside
  <2>2. \A j \in Workers : Inside(j) => j = i
    BY <2>1 DEF Alone
  <2>3. Ordered'
    BY <1>1, <2>1 DEF Ordered, Order
  <2>4. Order(i)'
    BY <1>1, <1>3, <1>4, <1>5, <2>1, <2>3 DEF Order
  <2>5. \A j \in Workers : Inside(j)' => j = i
    BY <1>5, <2>2 DEF Inside
  <2>6. Counts'
    BY <1>1, <2>1 DEF Alone, Counts
  <2>7. Served'
    <3> SUFFICES ASSUME NEW g \in Fds, ofrw'[g] # 0
                 PROVE  \/ g \in polled'[ofrw'[g]]
                        \/ \E j \in Workers : w'[j].fd = g /\ w'[j].pc \in {"tabled", "deleted"}
      BY DEF Served
    <3>1. CASE g = fd
      BY <1>3, <1>5, <3>1
    <3>2. CASE g # fd
      <4>1. \/ g \in polled[ofrw[g]]
            \/ \E j \in Workers : w[j].fd = g /\ w[j].pc \in {"tabled", "deleted"}
        BY <1>6, <2>1, <3>2 DEF Alone, Served
      <4> QED BY <1>1, <1>5, <1>6, <3>2, <4>1
    <3> QED BY <3>1, <3>2
  <2> QED BY <2>3, <2>4, <2>5, <2>6, <2>7 DEF Alone
<1> QED BY <1>1, <1>7, <1>8, <1>9, <1>10

LEMMA TablesFailStep ==
  ASSUME Inv, NEW i \in Workers, TablesFail(i)
  PROVE  Inv'
<1> USE Constants DEF Inv
<1> DEFINE fd == w[i].fd
<1>1. /\ w[i].pc = "found" /\ open' = open \ {fd} /\ w' = [w EXCEPT ![i] = Idle]
      /\ UNCHANGED <<created, pool, num_sockets, polled, freed, ofrw, lock, overlapped, crashed>>
  BY DEF TablesFail
<1>2. Idle \in WorkerState /\ Idle.pc = "idle"
  BY DEF Idle, WorkerState
<1>3. w'[i] = Idle /\ \A j \in Workers : j # i => w'[j] = w[j]
  BY <1>1 DEF TypeOK
<1>4. TypeOK'
  BY <1>1, <1>2 DEF TypeOK
<1>5. Managers'
  BY <1>1, <1>2, <1>3 DEF Managers, Inside
<1>6. Apart => Apart'
  BY <1>1, <1>2, <1>3 DEF Apart, Inside
<1>7. ASSUME ~overlapped' PROVE Alone'
  <2>1. Alone /\ Inside(i) /\ Order(i)
    BY <1>1, <1>7 DEF Alone, Inside
  <2>2. Ordered'
    BY <1>1, <2>1 DEF Ordered, Order
  <2>3. \A j \in Workers : ~Inside(j)'
    BY <1>2, <1>3, <2>1 DEF Alone, Inside
  <2>4. Counts'
    BY <1>1, <2>1 DEF Alone, Counts
  <2>5. Served'
    BY <1>1, <1>3, <2>1 DEF Alone, Served
  <2> QED BY <2>2, <2>3, <2>4, <2>5 DEF Alone
<1> QED BY <1>1, <1>4, <1>5, <1>6, <1>7

\* The thread is told, and refuses or adds the socket.
LEMMA AddPollStep ==
  ASSUME Inv, NEW i \in Workers, AddPoll(i)
  PROVE  Inv'
<1> USE Constants DEF Inv
<1> DEFINE fd == w[i].fd
           m == w[i].mgr
           p == polled[m] \cup {fd}
           v == (num_sockets[m] + 1) % CountMod
<1>1. /\ w[i].pc = "tabled" /\ w' = [w EXCEPT ![i] = Idle]
      /\ UNCHANGED <<created, pool, freed, ofrw, open, lock, overlapped, crashed>>
  BY DEF AddPoll
<1>2. \/ num_sockets[m] = MaxSockets /\ UNCHANGED <<num_sockets, polled>>
      \/ /\ num_sockets[m] # MaxSockets
         /\ num_sockets' = [num_sockets EXCEPT ![m] = v]
         /\ polled' = [polled EXCEPT ![m] = p]
  BY DEF AddPoll, AddsTo
<1>3. fd \in Fds /\ m \in 1 .. created /\ m \in Mgrs /\ created \in Nat
  BY <1>1, PoolFacts DEF Managers, Inside, Mgrs
<1>4. /\ num_sockets[m] \in Nat /\ v \in 0 .. CountMod - 1
      /\ num_sockets[m] < MaxSockets => v = num_sockets[m] + 1
  <2>1. num_sockets[m] \in 0 .. CountMod - 1
    BY <1>3 DEF TypeOK
  <2> QED BY <2>1
<1>5. Idle \in WorkerState /\ Idle.pc = "idle"
  BY DEF Idle, WorkerState
<1>6. w[i].fd = fd /\ w[i].mgr = m
  OBVIOUS
<1>7. p = polled[m] \cup {fd} /\ p \subseteq Fds
  BY <1>3 DEF TypeOK
<1> HIDE DEF fd, m, p, v
<1>8. w'[i] = Idle /\ \A j \in Workers : j # i => w'[j] = w[j]
  BY <1>1 DEF TypeOK
<1>9. TypeOK'
  BY <1>1, <1>2, <1>3, <1>4, <1>5, <1>7, ZenonT(60) DEF TypeOK
<1>10. Managers'
  BY <1>1, <1>5, <1>8 DEF Managers, Inside
<1>11. /\ polled'[m] \in {polled[m], p}
       /\ \A k \in Mgrs : k # m => polled'[k] = polled[k] /\ num_sockets'[k] = num_sockets[k]
  BY <1>2, <1>3 DEF TypeOK
<1>12. Apart => Apart'
  <2> SUFFICES ASSUME Apart PROVE Apart'
    OBVIOUS
  <2>1. ofrw[fd] = m /\ Inside(i)
    BY <1>1, <1>6 DEF Apart, Inside
  <2>2. \A j \in Workers : j # i /\ Inside(j) => w[j].fd # fd /\ w[j].fd \in Fds
    BY <1>6, <2>1 DEF Apart, Managers
  <2>3. \A k \in Mgrs, g \in Fds : g # fd => (g \in polled'[k] <=> g \in polled[k])
    BY <1>3, <1>7, <1>11
  <2>4. \A k \in Mgrs, g \in Fds : g \in polled'[k] => ofrw'[g] = k
    BY <1>1, <1>7, <1>11, <2>1 DEF Apart
  <2>5. ASSUME NEW j \in Workers
        PROVE  /\ w'[j].pc \in {"create", "found"} => w'[j].fd \in open' /\ ofrw'[w'[j].fd] = 0
               /\ w'[j].pc \in {"tabled", "deleted"} =>
                    ofrw'[w'[j].fd] = w'[j].mgr /\ w'[j].fd \notin polled'[w'[j].mgr]
    <3>1. CASE j = i
      BY <1>5, <1>8, <3>1
    <3>2. CASE j # i
      <4>1. w[j].pc \in {"tabled", "deleted"} => w[j].mgr \in Mgrs
        BY <1>3 DEF Managers, TypeOK, Mgrs
      <4>2. w'[j] = w[j] /\ (Inside(j) => w[j].fd # fd /\ w[j].fd \in Fds)
        BY <1>8, <2>2, <3>2
      <4>3. /\ w[j].pc \in {"create", "found"} => w[j].fd \in open /\ ofrw[w[j].fd] = 0
            /\ w[j].pc \in {"tabled", "deleted"} =>
                 /\ ofrw[w[j].fd] = w[j].mgr /\ w[j].fd \notin polled[w[j].mgr]
                 /\ Inside(j)
        BY DEF Apart, Inside
      <4>4. w[j].pc \in {"tabled", "deleted"} => w[j].fd \notin polled'[w[j].mgr]
        BY <2>3, <4>1, <4>2, <4>3
      <4> QED BY <1>1, <4>2, <4>3, <4>4
    <3> QED BY <3>1, <3>2
  <2>6. \A j, k \in Workers : Inside(j)' /\ Inside(k)' /\ w'[j].fd = w'[k].fd => j = k
    BY <1>5, <1>8 DEF Apart, Inside
  <2> QED BY <1>1, <2>4, <2>5, <2>6 DEF Apart
<1>13. ASSUME ~overlapped' PROVE Alone'
  <2>1. Alone /\ Apart /\ Inside(i) /\ Order(i)
    BY <1>1, <1>13 DEF Alone, Inside
  <2>2. \A j \in Workers : ~Inside(j)'
    BY <1>5, <1>8, <2>1 DEF Alone, Inside
  <2>3. /\ num_sockets[m] < MaxSockets /\ Ordered
        /\ \A j, k \in 1 .. Len(pool) : pool[j] = m /\ j < k
                                          => num_sockets[pool[k]] = MaxSockets
    BY <1>1, <1>6, <2>1 DEF Order
  <2>4. /\ num_sockets'[m] = num_sockets[m] + 1 /\ polled'[m] = polled[m] \cup {fd}
    BY <1>2, <1>3, <1>4, <1>7, <2>3 DEF TypeOK
  <2>5. fd \notin polled[m] /\ ofrw[fd] = m
    BY <1>1, <1>6, <2>1 DEF Apart
  <2>6. Counts'
    <3>1. /\ IsFiniteSet(polled[m]) /\ num_sockets[m] = Cardinality(polled[m])
      BY <1>3, <2>1 DEF Alone, Counts
    <3>2. /\ IsFiniteSet(polled[m] \cup {fd})
          /\ Cardinality(polled[m] \cup {fd}) = Cardinality(polled[m]) + 1
      BY <2>5, <3>1, FS_AddElement
    <3>3. ~(m > created)
      BY <1>3
    <3>4. num_sockets'[m] <= MaxSockets
      BY <1>4, <2>3, <2>4
    <3> QED BY <1>1, <1>11, <2>1, <2>4, <3>1, <3>2, <3>3, <3>4 DEF Alone, Counts
  <2>7. Served'
    <3> SUFFICES ASSUME NEW g \in Fds, ofrw[g] # 0
                 PROVE  g \in polled'[ofrw[g]]
      BY <1>1 DEF Served
    <3>1. CASE g = fd
      BY <2>4, <2>5, <3>1
    <3>2. CASE g # fd
      <4>1. \A j \in Workers : Inside(j) => w[j].fd # g
        BY <1>6, <2>1, <3>2 DEF Alone
      <4>2. g \in polled[ofrw[g]]
        BY <2>1, <4>1 DEF Alone, Served, Inside
      <4>3. ofrw[g] \in Mgrs
        BY DEF TypeOK, Mgrs
      <4> QED BY <1>11, <2>4, <4>2, <4>3
    <3> QED BY <3>1, <3>2
  <2>8. Ordered'
    <3> SUFFICES ASSUME NEW j \in 1 .. Len(pool), NEW k \in 1 .. Len(pool), j < k
                 PROVE  num_sockets'[pool[j]] <= num_sockets'[pool[k]]
      BY <1>1 DEF Ordered
    <3>1. /\ pool[j] \in Mgrs /\ pool[k] \in Mgrs /\ Len(pool) \in Nat
          /\ num_sockets[pool[j]] \in Nat /\ num_sockets[pool[k]] \in Nat
      BY PoolFacts DEF TypeOK
    <3>2. pool[j] # pool[k]
      BY DEF Managers, Distinct
    <3>3. num_sockets[pool[j]] <= num_sockets[pool[k]]
      BY <2>3 DEF Ordered
    <3>4. CASE pool[j] = m
      <4>1. num_sockets'[pool[k]] = MaxSockets
        BY <1>11, <2>3, <3>1, <3>2, <3>4
      <4> QED BY <1>4, <2>3, <2>4, <3>4, <4>1
    <3>5. CASE pool[k] = m
      <4>1. /\ num_sockets'[pool[j]] = num_sockets[pool[j]]
            /\ num_sockets'[pool[k]] = num_sockets[pool[k]] + 1
        BY <1>11, <2>4, <3>1, <3>2, <3>5
      <4> QED BY <3>1, <3>3, <4>1
    <3>6. CASE pool[j] # m /\ pool[k] # m
      BY <1>11, <3>1, <3>3, <3>6
    <3> QED BY <3>4, <3>5, <3>6
  <2> QED BY <2>2, <2>6, <2>7, <2>8 DEF Alone
<1> QED BY <1>1, <1>9, <1>10, <1>12, <1>13

\* A socket is taken off its thread.
LEMMA DelPollStep ==
  ASSUME Inv, NEW i \in Workers, NEW fd \in Fds, DelPoll(i, fd)
  PROVE  Inv'
<1> USE Constants DEF Inv
<1> DEFINE m == ofrw[fd]
           r == [pc |-> "deleted", fd |-> fd, mgr |-> m]
           v == OneLess(num_sockets[m])
           p == polled[m] \ {fd}
<1>1. /\ w[i].pc = "idle" /\ lock = NoWorker /\ m # 0 /\ lock' = i
      /\ fd \in InAdd => DeletesEarly
      /\ w' = [w EXCEPT ![i] = r] /\ polled' = [polled EXCEPT ![m] = p]
      /\ num_sockets' = [num_sockets EXCEPT ![m] = v]
      /\ UNCHANGED <<created, pool, freed, ofrw, open, crashed>>
  BY DEF DelPoll
<1>2. m \in Mgrs /\ m \in 1 .. created /\ created \in Nat /\ m \in 0 .. MaxMgrs
  <2>1. m \in 0 .. MaxMgrs /\ m # 0 /\ m <= created /\ created \in Nat
    BY <1>1, PoolFacts DEF TypeOK, Managers
  <2> QED BY <2>1 DEF Mgrs
<1>3. /\ overlapped' \in BOOLEAN
      /\ ~overlapped' => ~overlapped /\ \A j \in Workers : j # i => ~Inside(j)
  <2>1. Enters(i) /\ overlapped \in BOOLEAN
    BY DEF DelPoll, TypeOK
  <2> QED BY <2>1, EntersAlone
<1>4. /\ num_sockets[m] \in Nat /\ v \in 0 .. CountMod - 1
      /\ num_sockets[m] > 0 => v = num_sockets[m] - 1
  <2>1. num_sockets[m] \in 0 .. CountMod - 1
    BY <1>2 DEF TypeOK
  <2> QED BY <2>1 DEF OneLess
<1>5. r \in WorkerState /\ r.pc = "deleted" /\ r.fd = fd /\ r.mgr = m
  BY <1>2 DEF WorkerState
<1>6. p = polled[m] \ {fd} /\ p \subseteq Fds /\ ofrw[fd] = m
  BY <1>2 DEF TypeOK
<1> HIDE DEF m, p, v, r
<1>7. w'[i] = r /\ \A j \in Workers : j # i => w'[j] = w[j]
  BY <1>1 DEF TypeOK
<1>8. TypeOK'
  BY <1>1, <1>2, <1>3, <1>4, <1>5, <1>6 DEF TypeOK
<1>9. \A j \in Workers : w[j].pc # "deleted"
  BY <1>1 DEF Managers
<1>10. Managers'
  BY <1>1, <1>2, <1>5, <1>7, <1>9 DEF Managers, Inside
<1>11. /\ polled'[m] = p /\ num_sockets'[m] = v
       /\ \A k \in Mgrs : k # m => polled'[k] = polled[k] /\ num_sockets'[k] = num_sockets[k]
  BY <1>1, <1>2 DEF TypeOK
<1>12. ASSUME ~DeletesEarly \/ ~overlapped' PROVE Apart'
  <2>1. Apart
    BY <1>3, <1>12
  <2>2. \A j \in Workers : w[j].pc = "tabled" => w[j].fd # fd
    <3>1. CASE ~DeletesEarly
      BY <1>1, <3>1 DEF InAdd
    <3>2. CASE ~overlapped'
      BY <1>1, <1>3, <3>2 DEF Inside
    <3> QED BY <1>12, <3>1, <3>2
  <2>3. \A j \in Workers : Inside(j) => w[j].fd # fd /\ w[j].fd \in Fds
    <3>1. \A j \in Workers : w[j].pc \in {"create", "found"} => w[j].fd # fd
      BY <1>1, <1>6, <2>1 DEF Apart
    <3> QED BY <1>9, <2>2, <3>1 DEF Inside, Managers, TypeOK, WorkerState
  <2>4. \A k \in Mgrs, g \in Fds : g \in polled'[k] => g \in polled[k]
    BY <1>6, <1>11
  <2>5. fd \notin polled'[m]
    BY <1>6, <1>11
  <2>6. ASSUME NEW j \in Workers
        PROVE  /\ w'[j].pc \in {"create", "found"} => w'[j].fd \in open' /\ ofrw'[w'[j].fd] = 0
               /\ w'[j].pc \in {"tabled", "deleted"} =>
                    ofrw'[w'[j].fd] = w'[j].mgr /\ w'[j].fd \notin polled'[w'[j].mgr]
    <3>1. CASE j = i
      BY <1>1, <1>5, <1>6, <1>7, <2>5, <3>1
    <3>2. CASE j # i
      <4>1. w[j].pc \in {"tabled", "deleted"} => w[j].mgr \in Mgrs /\ w[j].fd \in Fds
        BY <2>3, PoolFacts DEF Managers, Mgrs, Inside
      <4>2. w'[j] = w[j]
        BY <1>7, <3>2
      <4>3. /\ w[j].pc \in {"create", "found"} => w[j].fd \in open /\ ofrw[w[j].fd] = 0
            /\ w[j].pc \in {"tabled", "deleted"} =>
                 ofrw[w[j].fd] = w[j].mgr /\ w[j].fd \notin polled[w[j].mgr]
        BY <2>1 DEF Apart
      <4>4. w[j].pc \in {"tabled", "deleted"} => w[j].fd \notin polled'[w[j].mgr]
        BY <2>4, <4>1, <4>3
      <4> QED BY <1>1, <4>2, <4>3, <4>4
    <3> QED BY <3>1, <3>2
  <2>7. \A j, k \in Workers : Inside(j)' /\ Inside(k)' /\ w'[j].fd = w'[k].fd => j = k
    BY <1>5, <1>7, <2>1, <2>3 DEF Apart, Inside
  <2> QED BY <1>1, <2>1, <2>4, <2>6, <2>7 DEF Apart
<1>13. ASSUME ~overlapped' PROVE Alone'
  <2>1. Alone /\ Apart /\ \A j \in Workers : ~Inside(j)
    BY <1>1, <1>3, <1>13 DEF Inside
  <2>2. Ordered
    BY <2>1 DEF Alone, Quiet, Inside
  <2>3. \A j \in Workers : Inside(j)' => j = i
    BY <1>7, <2>1 DEF Inside
  <2>4. \A g \in Fds : ofrw[g] # 0 => g \in polled[ofrw[g]] /\ ofrw[g] \in Mgrs
    <3>1. \A g \in Fds : ofrw[g] # 0 => ofrw[g] \in Mgrs
      BY DEF TypeOK, Mgrs
    <3>2. \A g \in Fds : ofrw[g] # 0 => g \in polled[ofrw[g]]
      BY <2>1 DEF Alone, Served, Inside
    <3> QED BY <3>1, <3>2
  <2>5. fd \in polled[m]
    BY <1>1, <1>6, <2>4
  <2>6. Counts'
    <3>1. IsFiniteSet(polled[m]) /\ num_sockets[m] = Cardinality(polled[m])
      BY <1>2, <2>1 DEF Alone, Counts
    <3>2. /\ IsFiniteSet(polled[m] \ {fd})
          /\ Cardinality(polled[m] \ {fd}) = Cardinality(polled[m]) - 1
      BY <2>5, <3>1, FS_RemoveElement
    <3>3. Cardinality(polled[m] \ {fd}) \in Nat
      BY <3>2, FS_CardinalityType
    <3>4. v = Cardinality(p) /\ IsFiniteSet(p) /\ v <= MaxSockets
      <4>1. num_sockets[m] > 0 /\ num_sockets[m] <= MaxSockets
        BY <1>2, <1>4, <2>1, <3>1, <3>2, <3>3 DEF Alone, Counts
      <4> QED BY <1>4, <1>6, <3>1, <3>2, <4>1
    <3>5. ~(m > created)
      BY <1>2
    <3> QED BY <1>1, <1>11, <2>1, <3>4, <3>5 DEF Alone, Counts
  <2>7. Served'
    <3> SUFFICES ASSUME NEW g \in Fds, ofrw[g] # 0, g # fd
                 PROVE  g \in polled'[ofrw[g]]
      BY <1>1, <1>5, <1>7 DEF Served
    <3> QED BY <1>6, <1>11, <2>4
  <2>8. OrderedBut(m)'
    <3> SUFFICES ASSUME NEW j \in 1 .. Len(pool), NEW k \in 1 .. Len(pool), j < k,
                        pool[j] # m, pool[k] # m
                 PROVE  num_sockets'[pool[j]] <= num_sockets'[pool[k]]
      BY <1>1, <1>6 DEF OrderedBut, m
    <3>1. pool[j] \in Mgrs /\ pool[k] \in Mgrs
      BY PoolFacts
    <3> QED BY <1>11, <2>2, <3>1 DEF Ordered
  <2>9. Order(i)'
    BY <1>1, <1>5, <1>6, <1>7, <2>8 DEF Order, OrderedBut, m
  <2>10. ~Quiet'
    BY <1>5, <1>7 DEF Quiet
  <2> QED BY <2>3, <2>6, <2>7, <2>9, <2>10 DEF Alone
<1> QED BY <1>3, <1>8, <1>10, <1>12, <1>13

\* The list is put in order again, and the tables forget the socket.
LEMMA ResortStep ==
  ASSUME Inv, NEW i \in Workers, Resort(i)
  PROVE  Inv'
<1> USE Constants DEF Inv
<1> DEFINE fd == w[i].fd
           m == w[i].mgr
           l == Without(m)
<1>1. /\ w[i].pc = "deleted" /\ w' = [w EXCEPT ![i] = Idle] /\ lock' = NoWorker
      /\ ofrw' = [ofrw EXCEPT ![fd] = 0] /\ open' = open \ {fd}
      /\ UNCHANGED <<created, num_sockets, polled, overlapped, crashed>>
  BY DEF Resort
<1>2. \/ Len(pool) = 1 /\ UNCHANGED <<pool, freed>>
      \/ Len(pool) # 1 /\ pool' = InsertSorted(l, m) /\ freed' = freed \cup {m}
  BY DEF Resort
<1>3. fd \in Fds /\ m \in 1 .. created /\ m \in Mgrs /\ created \in Nat
  BY <1>1, PoolFacts DEF Managers, Inside, Mgrs
<1>4. Idle \in WorkerState /\ Idle.pc = "idle"
  BY DEF Idle, WorkerState
<1>5. w[i].fd = fd /\ w[i].mgr = m /\ l = RemoveFirst(pool, m) /\ lock = i
  BY <1>1 DEF Without, Managers
<1> HIDE DEF fd, m, l
<1>6. PICK q \in 1 .. Len(pool) : pool[q] = m
  <2>1. Contains(pool, m)
    BY <1>3 DEF Managers
  <2> QED BY <2>1 DEF Contains
<1>7. /\ l \in Seq(Mgrs) /\ Distinct(l) /\ \A x : Contains(l, x) <=> Contains(pool, x) /\ x # m
  BY <1>5, PoolFacts, RemoveFirstDistinct DEF Managers
<1>8. PICK k \in 0 .. Len(l) :
        /\ InsertSorted(l, m) = InsertAt(l, k + 1, m)
        /\ \A j \in 1 .. k : Avail(l[j]) > Avail(m)
        /\ k < Len(l) => Avail(l[k + 1]) <= Avail(m)
  BY <1>3, <1>7, SortedPlace
<1>9. k + 1 \in 1 .. Len(l) + 1 /\ ~Contains(l, m) /\ Len(l) \in Nat
  BY <1>7
<1>10. /\ pool' \in Seq(Mgrs) /\ Distinct(pool')
       /\ \A x \in Mgrs : Contains(pool', x) <=> Contains(pool, x)
  <2>1. CASE Len(pool) = 1
    BY <1>2, <2>1 DEF TypeOK, Managers
  <2>2. CASE Len(pool) # 1
    <3>1. pool' = InsertAt(l, k + 1, m)
      BY <1>2, <1>8, <2>2
    <3>2. pool' \in Seq(Mgrs)
      BY <1>3, <1>7, <1>9, <3>1, InsertAtElements
    <3>3. Distinct(pool') /\ \A x : Contains(pool', x) <=> Contains(l, x) \/ x = m
      BY <1>3, <1>7, <1>9, <3>1, InsertAtDistinct
    <3>4. Contains(pool, m)
      BY <1>6 DEF Contains
    <3> QED BY <1>7, <3>2, <3>3, <3>4
  <2> QED BY <2>1, <2>2
<1>11. w'[i] = Idle /\ \A j \in Workers : j # i => w'[j] = w[j]
  BY <1>1 DEF TypeOK
<1>12. /\ ofrw' \in [Fds -> 0 .. MaxMgrs] /\ ofrw'[fd] = 0
       /\ \A g \in Fds : g # fd => ofrw'[g] = ofrw[g]
  BY <1>1, <1>3 DEF TypeOK
<1>13. TypeOK'
  BY <1>1, <1>2, <1>3, <1>4, <1>10, <1>12 DEF TypeOK
<1>14. Managers'
  <2>1. \A j \in Workers : j # i => w[j].pc # "deleted"
    BY <1>5 DEF Managers
  <2>2. \A g \in Fds : ofrw'[g] <= created
    BY <1>3, <1>12 DEF Managers
  <2> QED BY <1>1, <1>4, <1>10, <1>11, <2>1, <2>2 DEF Managers, Inside
<1>15. Apart => Apart'
  <2> SUFFICES ASSUME Apart PROVE Apart'
    OBVIOUS
  <2>1. ofrw[fd] = m /\ fd \notin polled[m] /\ Inside(i)
    BY <1>1, <1>5 DEF Apart, Inside
  <2>2. \A j \in Workers : j # i /\ Inside(j) => w[j].fd # fd /\ w[j].fd \in Fds
    BY <1>5, <2>1 DEF Apart, Managers
  <2>3. \A n \in Mgrs, g \in Fds : g \in polled'[n] => ofrw'[g] = n
    <3> SUFFICES ASSUME NEW n \in Mgrs, NEW g \in Fds, g \in polled'[n]
                 PROVE  ofrw'[g] = n
      OBVIOUS
    <3>1. g \in polled[n]
      BY <1>1
    <3>2. ofrw[g] = n
      BY <3>1 DEF Apart
    <3>3. g # fd
      BY <2>1, <3>1, <3>2
    <3> QED BY <1>12, <3>2, <3>3
  <2>4. \A g \in Fds : ofrw'[g] # 0 => g \in open'
    BY <1>1, <1>12 DEF Apart
  <2>5. ASSUME NEW j \in Workers
        PROVE  /\ w'[j].pc \in {"create", "found"} => w'[j].fd \in open' /\ ofrw'[w'[j].fd] = 0
               /\ w'[j].pc \in {"tabled", "deleted"} =>
                    ofrw'[w'[j].fd] = w'[j].mgr /\ w'[j].fd \notin polled'[w'[j].mgr]
    <3>1. CASE j = i
      BY <1>4, <1>11, <3>1
    <3>2. CASE j # i
      BY <1>1, <1>11, <1>12, <2>2, <3>2 DEF Apart, Inside
    <3> QED BY <3>1, <3>2
  <2>6. \A j, n \in Workers : Inside(j)' /\ Inside(n)' /\ w'[j].fd = w'[n].fd => j = n
    BY <1>4, <1>11 DEF Apart, Inside
  <2> QED BY <2>3, <2>4, <2>5, <2>6 DEF Apart
<1>16. ASSUME ~overlapped' PROVE Alone'
  <2>1. Alone /\ Inside(i) /\ OrderedBut(m)
    BY <1>1, <1>5, <1>16 DEF Alone, Inside, Order
  <2>2. \A j \in Workers : ~Inside(j)'
    BY <1>4, <1>11, <2>1 DEF Alone, Inside
  <2>3. Counts'
    BY <1>1, <2>1 DEF Alone, Counts
  <2>4. Served'
    <3> SUFFICES ASSUME NEW g \in Fds, ofrw'[g] # 0 PROVE g \in polled[ofrw'[g]]
      BY <1>1 DEF Served
    <3>1. g # fd /\ ofrw'[g] = ofrw[g]
      BY <1>12
    <3>2. \A j \in Workers : Inside(j) => w[j].fd # g
      BY <1>5, <2>1, <3>1 DEF Alone
    <3> QED BY <2>1, <3>1, <3>2 DEF Alone, Served, Inside
  <2>5. Ordered'
    <3>1. CASE Len(pool) = 1
      <4>1. Len(pool') = 1
        BY <1>2, <3>1
      <4>2. \A x, y \in 1 .. Len(pool') : ~(x < y)
        BY <4>1
      <4> QED BY <4>2 DEF Ordered
    <3>2. CASE Len(pool) # 1
      <4>1. pool' = InsertAt(l, k + 1, m)
        BY <1>2, <1>8, <3>2
      <4>2. /\ Len(l) = Len(pool) - 1 /\ Len(pool) \in Nat
            /\ \A j \in 1 .. Len(pool) - 1 : l[j] = IF j < q THEN pool[j] ELSE pool[j + 1]
        <5>1. pool \in Seq(Mgrs) /\ Len(pool) \in Nat /\ Distinct(pool)
          BY PoolFacts DEF Managers
        <5>2. l = RemoveAt(pool, q)
          BY <1>5, <1>6, <5>1, RemoveFirstPlace
        <5> QED BY <5>1, <5>2, RemoveAtElements
      <4>3. \A x, y \in 1 .. Len(l) : x < y => num_sockets[l[x]] <= num_sockets[l[y]]
        <5> SUFFICES ASSUME NEW x \in 1 .. Len(l), NEW y \in 1 .. Len(l), x < y
                     PROVE  num_sockets[l[x]] <= num_sockets[l[y]]
          OBVIOUS
        <5> DEFINE u == IF x < q THEN x ELSE x + 1
                   v == IF y < q THEN y ELSE y + 1
        <5>1. /\ u \in 1 .. Len(pool) /\ v \in 1 .. Len(pool) /\ u < v /\ u # q /\ v # q
              /\ l[x] = pool[u] /\ l[y] = pool[v]
          BY <1>6, <4>2
        <5>2. pool[u] # m /\ pool[v] # m
          BY <1>6, <5>1 DEF Managers, Distinct
        <5> HIDE DEF u, v
        <5> QED BY <2>1, <5>1, <5>2 DEF OrderedBut
      <4>4. /\ \A n \in Mgrs : num_sockets[n] \in Nat
            /\ \A n, o \in Mgrs : Avail(n) >= Avail(o) <=> num_sockets[n] <= num_sockets[o]
            /\ \A n \in Mgrs : Avail(n) \in Nat
        <5>1. Counts
          BY <2>1 DEF Alone
        <5> QED BY <5>1, AvailOrder
      <4>5. \A x \in 1 .. Len(l) : l[x] \in Mgrs
        BY <1>7
      <4>6. ASSUME NEW x \in 1 .. Len(l)
            PROVE  /\ x < k + 1 => num_sockets[l[x]] <= num_sockets[m]
                   /\ x >= k + 1 => num_sockets[m] <= num_sockets[l[x]]
        <5>1. CASE x < k + 1
          <6>1. x \in 1 .. k /\ l[x] \in Mgrs
            BY <1>9, <4>5, <5>1
          <6>2. Avail(l[x]) > Avail(m)
            BY <1>8, <6>1
          <6>3. Avail(l[x]) >= Avail(m)
            <7>1. Avail(l[x]) \in Nat /\ Avail(m) \in Nat
              BY <1>3, <4>4, <6>1
            <7> QED BY <6>2, <7>1
          <6>4. num_sockets[l[x]] <= num_sockets[m]
            BY <1>3, <4>4, <6>1, <6>3
          <6>5. ~(x >= k + 1)
            BY <1>9, <5>1
          <6> QED BY <6>4, <6>5
        <5>2. CASE x >= k + 1
          <6>1. k < Len(l) /\ k + 1 \in 1 .. Len(l) /\ l[k + 1] \in Mgrs /\ l[x] \in Mgrs
            BY <1>9, <4>5, <5>2
          <6>2. num_sockets[m] <= num_sockets[l[k + 1]]
            <7>1. Avail(m) >= Avail(l[k + 1])
              BY <1>3, <1>8, <4>4, <6>1
            <7> QED BY <1>3, <4>4, <6>1, <7>1
          <6>3. x = k + 1 \/ num_sockets[l[k + 1]] <= num_sockets[l[x]]
            BY <4>3, <5>2, <6>1
          <6>4. /\ num_sockets[m] \in Nat /\ num_sockets[l[k + 1]] \in Nat
                /\ num_sockets[l[x]] \in Nat
            BY <1>3, <4>4, <6>1
          <6> QED BY <5>2, <6>2, <6>3, <6>4
        <5> QED BY <5>1, <5>2
      <4>7. \A x \in 1 .. Len(pool') :
              \/ x = k + 1 /\ pool'[x] = m
              \/ x < k + 1 /\ x \in 1 .. Len(l) /\ pool'[x] = l[x]
              \/ x > k + 1 /\ x - 1 \in 1 .. Len(l) /\ pool'[x] = l[x - 1]
        BY <1>3, <1>7, <1>9, <4>1, InsertAtPlaces, SMTT(30)
      <4> SUFFICES ASSUME NEW x \in 1 .. Len(pool'), NEW y \in 1 .. Len(pool'), x < y
                   PROVE  num_sockets[pool'[x]] <= num_sockets[pool'[y]]
        BY <1>1 DEF Ordered
      <4>8. num_sockets[m] \in Nat
        BY <1>3, <4>4
      <4>9. CASE x = k + 1
        <5>1. y > k + 1 /\ y - 1 \in 1 .. Len(l) /\ pool'[y] = l[y - 1] /\ y - 1 >= k + 1
          BY <4>7, <4>9
        <5> QED BY <4>6, <4>7, <4>9, <5>1
      <4>10. CASE y = k + 1
        <5>1. x < k + 1 /\ x \in 1 .. Len(l) /\ pool'[x] = l[x]
          BY <4>7, <4>10
        <5> QED BY <4>6, <4>7, <4>10, <5>1
      <4>11. CASE x # k + 1 /\ y # k + 1
        <5> DEFINE u == IF x < k + 1 THEN x ELSE x - 1
                   v == IF y < k + 1 THEN y ELSE y - 1
        <5>1. pool'[x] = l[u] /\ pool'[y] = l[v] /\ u \in 1 .. Len(l) /\ v \in 1 .. Len(l) /\ u < v
          BY <4>7, <4>11
        <5> HIDE DEF u, v
        <5> QED BY <4>3, <5>1
      <4> QED BY <4>9, <4>10, <4>11
    <3> QED BY <3>1, <3>2
  <2> QED BY <2>2, <2>3, <2>4, <2>5 DEF Alone
<1> QED BY <1>1, <1>13, <1>14, <1>15, <1>16

-----------------------------------------------------------------------------
(* The theorems *)

\* The invariant is inductive.
LEMMA StepInv == Inv /\ [Next]_vars => Inv'
<1> SUFFICES ASSUME Inv, [Next]_vars PROVE Inv'
  OBVIOUS
<1>1. ASSUME NEW i \in Workers, Worker(i) PROVE Inv'
  BY <1>1, FindStep, CreateStep, TablesStep, TablesFailStep, AddPollStep, DelPollStep, ResortStep
     DEF Worker
<1>2. CASE UseFreed \/ UNCHANGED vars
  <2>1. /\ UNCHANGED <<created, pool, num_sockets, polled, freed, ofrw, open, lock, w, overlapped>>
        /\ crashed' \in BOOLEAN
    BY <1>2 DEF UseFreed, vars, Inv, TypeOK
  <2>2. TypeOK'
    BY <2>1 DEF Inv, TypeOK
  <2>3. Managers' /\ (Apart => Apart')
    BY <2>1 DEF Inv, Managers, Apart, Inside
  <2>4. Alone => Alone'
    BY <2>1 DEF Alone, Counts, Served, Quiet, Order, Ordered, OrderedBut, Inside
  <2> QED BY <2>1, <2>2, <2>3, <2>4 DEF Inv
<1> QED BY <1>1, <1>2 DEF Next

\* The invariant holds in every behaviour.
THEOREM Invariance == Spec => []Inv
BY InitInv, StepInv, PTL DEF Spec

\* The list holds every manager once, under every interleaving of the workers.
THEOREM PoolCompleteHolds == Spec => []PoolComplete
<1>1. Inv => PoolComplete
  <2> SUFFICES ASSUME Inv PROVE PoolComplete
    OBVIOUS
  <2>1. \A m \in 1 .. created : m \in Mgrs /\ m <= created
    BY Constants DEF Inv, TypeOK, Mgrs
  <2> QED BY <2>1 DEF Inv, Managers, PoolComplete, Contains, Distinct
<1> QED BY <1>1, Invariance, PTL

\* A thread polls only open sockets that the table gives it, if no socket is
\* deleted while its ADD is in progress.
THEOREM PolledIsTabledHolds ==
  ASSUME ~DeletesEarly
  PROVE  Spec => []PolledIsTabled
<1>1. Inv => PolledIsTabled
  <2> SUFFICES ASSUME Inv, NEW m \in Mgrs, NEW fd \in polled[m]
               PROVE  fd \in open /\ ofrw[fd] = m
    BY DEF PolledIsTabled
  <2>1. fd \in Fds /\ Apart
    BY DEF Inv, TypeOK
  <2>2. ofrw[fd] = m
    BY <2>1 DEF Apart
  <2> QED BY <2>1, <2>2, Constants DEF Apart
<1> QED BY <1>1, Invariance, PTL

\* Workers that come one at a time keep the list in order, although only a
\* deletion sorts it.
THEOREM SortedPoolHolds == Spec => []SortedPool
<1>1. Inv => SortedPool
  <2> SUFFICES ASSUME Inv, Quiet, ~overlapped,
                      NEW j \in 1 .. Len(pool), NEW k \in 1 .. Len(pool), j < k
               PROVE  Avail(pool[j]) >= Avail(pool[k])
    BY DEF SortedPool
  <2>1. pool[j] \in Mgrs /\ pool[k] \in Mgrs
    BY PoolFacts DEF Inv
  <2>2. num_sockets[pool[j]] <= num_sockets[pool[k]]
    BY DEF Inv, Alone, Ordered
  <2>3. TypeOK /\ Counts
    BY DEF Inv, Alone
  <2> QED BY <2>1, <2>2, <2>3, AvailOrder
<1> QED BY <1>1, Invariance, PTL

\* They never find their manager full, so what is in the table is polled.
THEOREM AddedIsPolledHolds == Spec => []AddedIsPolled
<1>1. Inv => AddedIsPolled
  BY DEF Inv, Alone, Served, AddedIsPolled
<1> QED BY <1>1, Invariance, PTL

\* They create a thread only when every thread is full.
THEOREM GrowsOnlyWhenFullHolds == Spec => GrowsOnlyWhenFull
<1>1. Inv /\ [Next]_vars =>
        [created' > created /\ ~overlapped =>
           \A m \in 1 .. created : Cardinality(polled[m]) = MaxSockets]_vars
  <2> SUFFICES ASSUME Inv, [Next]_vars, created' > created, ~overlapped,
                      NEW m \in 1 .. created
               PROVE  Cardinality(polled[m]) = MaxSockets
    OBVIOUS
  <2>1. created \in Nat /\ m \in Mgrs /\ m <= created
    BY PoolFacts, Constants DEF Inv, Mgrs
  <2>2. \E i \in Workers : Create(i)
    <3>1. created' # created
      BY <2>1
    <3> QED BY <3>1 DEF Next, vars, UseFreed, Worker, Find, DelPoll, Tables, TablesFail,
                        AddPoll, Resort
  <2>3. \A k \in 1 .. Len(pool) : num_sockets[pool[k]] = MaxSockets
    BY <2>2 DEF Create, Inv, Alone, Inside, Order
  <2>4. Contains(pool, m)
    BY <2>1 DEF Inv, Managers
  <2> QED BY <2>1, <2>3, <2>4 DEF Inv, Alone, Counts, Contains
<1> QED BY <1>1, Invariance, PTL DEF Spec, GrowsOnlyWhenFull
=============================================================================
