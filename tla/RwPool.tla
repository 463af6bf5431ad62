------------------------------- MODULE RwPool -------------------------------
(***************************************************************************)
(* The elastic pool of read-write poll threads (cc_of_util.c): the global  *)
(* list of thread managers ordered by free capacity, and the two wrappers  *)
(* that put a socket on a thread and take it off again, with the entry of  *)
(* ofrw_htbl that says which thread serves the socket.                     *)
(*                                                                         *)
(* A thread is reduced to what FdRegistry promises of it: a set of served  *)
(* descriptors, and calls that take effect at once.  The locks of the      *)
(* three tables are always taken together here and are one lock; the list  *)
(* lock never outlives an action.  The model starts where cc_of_lib_init   *)
(* returns: one manager in the list.                                       *)
(*                                                                         *)
(* "Seeded fault": a wrong version of the definition that follows, used    *)
(* only to see that a property notices.                                    *)
(***************************************************************************)
EXTENDS Integers, Sequences, FiniteSets, SequencesExt

CONSTANTS
  Workers,      \* threads inside the library: the listen thread, the application
  Fds,          \* socket descriptors
  NoWorker,     \* nobody holds the table locks
  MaxSockets,   \* MAX_PER_THREAD_RWSOCKETS
  CountMod,     \* 2^16: num_sockets is a uint16_t
  AvailMod,     \* 2^32: the free capacity is a uint32_t
  MaxMgrs,      \* bound: managers created in a behaviour
  DeletesEarly  \* may a socket be deleted while its ADD is in progress?

ASSUME PoolAssumption ==
  /\ MaxSockets \in Nat \ {0}
  /\ CountMod \in Nat /\ MaxSockets < CountMod
  /\ AvailMod \in Nat /\ CountMod <= AvailMod
  /\ MaxMgrs \in Nat \ {0}
  /\ DeletesEarly \in BOOLEAN
  /\ NoWorker \notin Workers

\* Managers, in the order of their creation; 0 is the null pointer.
Mgrs == 1 .. MaxMgrs

VARIABLES
  created,      \* managers created so far
  pool,         \* ofrw_pollthr_list
  num_sockets,  \* of each manager
  polled,       \* descriptors each manager's thread polls
  freed,        \* managers whose memory was given back
  ofrw,         \* ofrw_htbl: the manager of each socket, 0 for no entry
  open,         \* descriptors that are open
  lock,         \* holder of the three table locks
  w,            \* where each worker is, with its socket and its manager
  overlapped,   \* have two workers been inside at once?
  crashed       \* a freed manager was used and its memory was gone

vars == <<created, pool, num_sockets, polled, freed, ofrw, open, lock, w, overlapped,
          crashed>>

WorkerState == [pc : {"idle", "create", "found", "tabled", "deleted"},
                fd : Fds \cup {0}, mgr : 0 .. MaxMgrs]
Idle == [pc |-> "idle", fd |-> 0, mgr |-> 0]

Init ==
  /\ created = 1
  /\ pool = <<1>>
  /\ num_sockets = [m \in Mgrs |-> 0]
  /\ polled = [m \in Mgrs |-> {}]
  /\ freed = {}
  /\ ofrw = [fd \in Fds |-> 0]
  /\ open = {}
  /\ lock = NoWorker
  /\ w = [i \in Workers |-> Idle]
  /\ overlapped = FALSE
  /\ crashed = FALSE

-----------------------------------------------------------------------------
\* adp_thr_mgr_get_num_avail_sockfd: unsigned subtraction.
Avail(m) == IF num_sockets[m] <= MaxSockets
            THEN MaxSockets - num_sockets[m]
            ELSE MaxSockets - num_sockets[m] + AvailMod

\* Seeded fault: the last manager of the list, full or not.
LastOfAll == pool[Len(pool)]

\* The walk of cc_find_or_create_rw_pollthr_safe: the last manager of the
\* leading part of the list that has capacity.
LastWithRoom ==
  LET ends == {k \in 1 .. Len(pool) :
                 /\ \A j \in 1 .. k : Avail(pool[j]) # 0
                 /\ k < Len(pool) => Avail(pool[k + 1]) = 0}
  IN  pool[CHOOSE k \in ends : TRUE]

\* Seeded fault: the manager goes to the end of the list.
InsertLast(list, m) == Append(list, m)

\* g_list_insert_sorted with cc_pollthr_list_compare_func: in front of the
\* first manager that has no more room than m.
InsertSorted(list, m) ==
  LET k == CHOOSE k \in 0 .. Len(list) :
             /\ \A j \in 1 .. k : Avail(list[j]) > Avail(m)
             /\ k < Len(list) => Avail(list[k + 1]) <= Avail(m)
  IN  InsertAt(list, k + 1, m)

-----------------------------------------------------------------------------
(* cc_add_sockfd_rw_pollthr_safe, called with a socket just opened *)

\* Seeded fault: the manager with the least room decides.
NoRoomAtEnd == Avail(pool[Len(pool)]) = 0

\* The manager with the most room, the first of the list, has none.
NoRoom == Avail(Head(pool)) = 0

\* A worker comes while another is inside.
Enters(i) == overlapped' = (overlapped \/ \E j \in Workers \ {i} : w[j].pc # "idle")

\* cc_find_or_create_rw_pollthr_safe up to the unlock of the list.
Find(i, fd) ==
  /\ ~crashed /\ w[i].pc = "idle" /\ fd \notin open
  /\ open' = open \cup {fd}
  /\ Enters(i)
  /\ w' = [w EXCEPT ![i] =
             IF NoRoom
             THEN [pc |-> "create", fd |-> fd, mgr |-> 0]
             ELSE [pc |-> "found", fd |-> fd, mgr |-> LastWithRoom]]
  /\ UNCHANGED <<created, pool, num_sockets, polled, freed, ofrw, lock, crashed>>

\* cc_create_rw_pollthr_safe: a new manager at the head of the list.
Create(i) ==
  /\ ~crashed /\ w[i].pc = "create" /\ created < MaxMgrs
  /\ created' = created + 1
  /\ pool' = <<created + 1>> \o pool
  /\ w' = [w EXCEPT ![i].pc = "found", ![i].mgr = created + 1]
  /\ UNCHANGED <<num_sockets, polled, freed, ofrw, open, lock, overlapped, crashed>>

\* The tables are updated before the thread is told.
Tables(i) ==
  /\ ~crashed /\ w[i].pc = "found" /\ lock = NoWorker
  /\ ofrw' = [ofrw EXCEPT ![w[i].fd] = w[i].mgr]
  /\ w' = [w EXCEPT ![i].pc = "tabled"]
  /\ UNCHANGED <<created, pool, num_sockets, polled, freed, open, lock, overlapped, crashed>>

\* The device is gone: the update is refused, the clean-up call is refused for
\* its action code, and the caller closes the socket.
TablesFail(i) ==
  /\ ~crashed /\ w[i].pc = "found" /\ lock = NoWorker
  /\ open' = open \ {w[i].fd}
  /\ w' = [w EXCEPT ![i] = Idle]
  /\ UNCHANGED <<created, pool, num_sockets, polled, freed, ofrw, lock, overlapped, crashed>>

\* Seeded fault: the first manager of the list, which may have changed.
AddsToFirst(i) == Head(pool)

\* The thread that is told: the manager found before the tables were updated.
AddsTo(i) == w[i].mgr

\* adp_thr_mgr_add_del_fd, ADD_FD.  Its result is not looked at.
AddPoll(i) ==
  /\ ~crashed /\ w[i].pc = "tabled"
  /\ LET m == AddsTo(i) IN
     \/ /\ num_sockets[m] = MaxSockets
        /\ UNCHANGED <<num_sockets, polled>>
     \/ /\ num_sockets[m] # MaxSockets
        /\ num_sockets' = [num_sockets EXCEPT ![m] = (@ + 1) % CountMod]
        /\ polled' = [polled EXCEPT ![m] = @ \cup {w[i].fd}]
  /\ w' = [w EXCEPT ![i] = Idle]
  /\ UNCHANGED <<created, pool, freed, ofrw, open, lock, overlapped, crashed>>

-----------------------------------------------------------------------------
(* tcp_close and cc_del_sockfd_rw_pollthr_lockfree *)

InAdd == {w[i].fd : i \in {j \in Workers : w[j].pc = "tabled"}}

\* num_sockets--, unsigned.
OneLess(v) == IF v = 0 THEN CountMod - 1 ELSE v - 1

\* With the table locks held: adp_thr_mgr_add_del_fd, DELETE_FD.
DelPoll(i, fd) ==
  /\ ~crashed /\ w[i].pc = "idle" /\ lock = NoWorker
  /\ ofrw[fd] # 0 /\ (fd \in InAdd => DeletesEarly)
  /\ lock' = i /\ Enters(i)
  /\ w' = [w EXCEPT ![i] = [pc |-> "deleted", fd |-> fd, mgr |-> ofrw[fd]]]
  /\ polled' = [polled EXCEPT ![ofrw[fd]] = @ \ {fd}]
  /\ num_sockets' = [num_sockets EXCEPT ![ofrw[fd]] = OneLess(@)]
  /\ UNCHANGED <<created, pool, freed, ofrw, open, crashed>>

\* Seeded fault: the manager's old place in the list stays.
WithoutNot(m) == pool

\* g_list_find and g_list_delete_link.
Without(m) == RemoveFirst(pool, m)

\* The list is put in order again unless it has one element, the memory of
\* the manager is freed although it stays in the list, the tables forget the
\* socket, the locks are released and the socket is closed.
Resort(i) ==
  /\ ~crashed /\ w[i].pc = "deleted"
  /\ LET m == w[i].mgr IN
     \/ Len(pool) = 1 /\ UNCHANGED <<pool, freed>>
     \/ /\ Len(pool) # 1
        /\ pool' = InsertSorted(Without(m), m)
        /\ freed' = freed \cup {m}
  /\ ofrw' = [ofrw EXCEPT ![w[i].fd] = 0]
  /\ open' = open \ {w[i].fd}
  /\ lock' = NoWorker
  /\ w' = [w EXCEPT ![i] = Idle]
  /\ UNCHANGED <<created, num_sockets, polled, overlapped, crashed>>

\* Memory that was freed may still hold the manager (then the other actions
\* describe its use) or not: any of its users may crash.
UseFreed ==
  /\ ~crashed /\ freed # {}
  /\ crashed' = TRUE
  /\ UNCHANGED <<created, pool, num_sockets, polled, freed, ofrw, open, lock, w,
                 overlapped>>

Worker(i) ==
  \/ \E fd \in Fds : Find(i, fd) \/ DelPoll(i, fd)
  \/ Create(i) \/ Tables(i) \/ TablesFail(i) \/ AddPoll(i) \/ Resort(i)

Next == UseFreed \/ \E i \in Workers : Worker(i)

Spec == Init /\ [][Next]_vars

-----------------------------------------------------------------------------
(* Properties *)

Quiet == \A i \in Workers : w[i].pc = "idle"

\* Every variable has its type.
TypeOK ==
  /\ created \in Mgrs
  /\ pool \in Seq(Mgrs)
  /\ num_sockets \in [Mgrs -> 0 .. CountMod - 1]
  /\ polled \in [Mgrs -> SUBSET Fds]
  /\ freed \subseteq Mgrs
  /\ ofrw \in [Fds -> 0 .. MaxMgrs]
  /\ open \subseteq Fds
  /\ lock \in Workers \cup {NoWorker}
  /\ w \in [Workers -> WorkerState]
  /\ overlapped \in BOOLEAN /\ crashed \in BOOLEAN

\* "Sorted based on num available socket fds - largest availability first", as
\* long as workers come one at a time: only DELETE sorts; ADD relies on
\* cc_find_or_create choosing a manager whose loss of a place cannot disturb
\* the order.
SortedPool ==
  Quiet /\ ~overlapped => \A j, k \in 1 .. Len(pool) : j < k => Avail(pool[j]) >= Avail(pool[k])

\* Workers that come one at a time never find their manager full when they come
\* to add the socket, so every socket in ofrw_htbl is polled by the manager
\* named there.
AddedIsPolled ==
  ~overlapped => \A fd \in Fds : ofrw[fd] # 0 =>
    \/ fd \in polled[ofrw[fd]]
    \/ \E i \in Workers : w[i].fd = fd /\ w[i].pc \in {"tabled", "deleted"}

\* Workers that come one at a time create a thread only when every thread is
\* full, although they look at the first manager of the list only.
GrowsOnlyWhenFull ==
  [][created' > created /\ ~overlapped =>
       \A m \in 1 .. created : Cardinality(polled[m]) = MaxSockets]_vars

\* The list holds every manager once, also while workers prepend and re-sort.
PoolComplete ==
  /\ \A m \in 1 .. created : \E k \in 1 .. Len(pool) : pool[k] = m
  /\ \A j, k \in 1 .. Len(pool) : pool[j] = pool[k] => j = k

\* A thread polls only open sockets, and those that the table says it serves;
\* in particular no socket is polled by two threads.
PolledIsTabled ==
  \A m \in Mgrs : \A fd \in polled[m] : fd \in open /\ ofrw[fd] = m

-----------------------------------------------------------------------------
(* Statements of the documents that fail on small instances (README,       *)
(* "Statements the code does not keep").                                   *)

\* README: "sorted by ascending order of available number of sockets".
AscendingPool ==
  Quiet => \A j, k \in 1 .. Len(pool) : j < k => Avail(pool[j]) <= Avail(pool[k])

\* README: "when a thread is freed up of all sockets it is deleted" (the first
\* manager is created before there is any socket).
EmptyThreadDeleted ==
  Quiet => \A k \in 1 .. Len(pool) : pool[k] # 1 => num_sockets[pool[k]] # 0

\* README: "The full list of pollthread managers for read-write sockets is
\* maintained globally": its elements are managers, not freed memory.
NoFreedInPool == \A k \in 1 .. Len(pool) : pool[k] \notin freed
=============================================================================
