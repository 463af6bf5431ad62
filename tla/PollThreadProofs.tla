-------------------------- MODULE PollThreadProofs --------------------------
(***************************************************************************)
(* Theorems about PollThread, for any number of callers, sockets, pipes    *)
(* and messages: the thread's two tables keep their shape under every      *)
(* interleaving of additions, deletions, sends and sweeps; the messages of *)
(* a socket stay in order; no request waits without a wake-up; the queue   *)
(* of requests never asks for what is polled already; and, with one        *)
(* caller, the array of pollfds has room for every request.  When nothing  *)
(* is deleted, the assertions of the sending side hold.  With one caller   *)
(* that only the signal wakes, the caller and the thread take turns, and   *)
(* the manager and its thread implement FdRegistry.                        *)
(***************************************************************************)
EXTENDS PollThread, TLAPS, SequenceTheorems, FiniteSetTheorems, ListLemmas

-----------------------------------------------------------------------------
(* Lemmas about the operators of the model *)

\* The slots exist for the two administrative pipes.
LEMMA SlotFacts ==
  /\ max_pollfds \in Nat /\ max_pollfds >= 4
  /\ Slots = 0 .. max_pollfds - 1
  /\ 0 \in Slots /\ 1 \in Slots
BY ConstantsAssumption DEF max_pollfds, max_pipes, Slots

\* Deleting slot k of the first n keeps the array's type and moves the
\* slots behind k down by one.
LEMMA ShiftDownSlots ==
  ASSUME NEW arr \in [Slots -> Slot], NEW n \in 0 .. max_pollfds, NEW k \in 1 .. n - 1
  PROVE  /\ ShiftDown(arr, n, k) \in [Slots -> Slot]
         /\ \A j \in Slots : ShiftDown(arr, n, k)[j] =
              IF j \in k .. n - 2 THEN arr[j + 1] ELSE arr[j]
BY SlotFacts DEF ShiftDown

\* In a list of records with distinct descriptors, FirstWith finds the place.
LEMMA FirstWithPlace ==
  ASSUME NEW list \in Seq(Entry), NEW fd,
         \A i, j \in 1 .. Len(list) : list[i].fd = list[j].fd => i = j,
         NEW k \in 1 .. Len(list), list[k].fd = fd
  PROVE  FirstWith(list, fd) = k
<1>1. DOMAIN list = 1 .. Len(list) /\ Len(list) \in Nat
  OBVIOUS
<1>2. k \in DOMAIN list /\ list[k].fd = fd /\ \A j \in 1 .. k - 1 : list[j].fd # fd
  BY <1>1
<1>3. \A i \in DOMAIN list : list[i].fd = fd => i = k
  BY <1>1
<1> QED BY <1>2, <1>3 DEF FirstWith

-----------------------------------------------------------------------------
(* The inductive invariant *)

\* ListArrayAgree alone is not inductive.  That DELETE_FD removes the same
\* descriptor from both tables needs the administrative pipes to be in front
\* (its search of the array skips slot 0) and the descriptors to be distinct;
\* that needs the primary pipe's callback not to run again once num_pollfds
\* is 0, which needs the place of the sweep.
Shape ==
  /\ ListArrayAgree
  /\ AdminPipesFirst
  /\ DriftsForwardOnly
  /\ PointsToWritten
  /\ DestructIsLast
  /\ SweepInside

Inv == TypeOK /\ Shape

\* The state adp_thr_mgr_new leaves behind satisfies the invariant.
LEMMA InitInv == Init => Inv
<1> SUFFICES ASSUME Init PROVE Inv
  OBVIOUS
<1> USE DEF Init
<1>1. TypeOK
  <2>1. pipes_arr \in Seq(Pipes \cup {PriFd, DataFd})
    OBVIOUS
  <2>2. call \in [Callers -> Call]
    BY ConstantsAssumption DEF Idle, Call, Fds
  <2>3. pollfd_arr \in [Slots -> Slot]
    BY DEF AdminSlot, FreshSlot, Slot, Events, Fds
  <2>4. fd_list \in Seq(Entry)
    BY SlotFacts DEF Entry, Fds
  <2>5. /\ pri_pipe \in Seq(ThrMsg) /\ data_pipe \in Seq(SendMsg)
        /\ wire \in Seq([on : Sockets, fd : Fds, n : 1 .. MaxSends])
    BY EmptySeq
  <2>6. /\ num_sockets \in 0 .. CountMod - 1 /\ num_pollfds \in 0 .. max_pollfds
        /\ sends \in 0 .. MaxSends /\ pos \in Nat
    BY SlotFacts, ConstantsAssumption
  <2> QED BY <2>1, <2>2, <2>3, <2>4, <2>5, <2>6 DEF TypeOK
<1>2. /\ Len(fd_list) = 2
      /\ fd_list[1] = [fd |-> PriFd, slot |-> 0]
      /\ fd_list[2] = [fd |-> DataFd, slot |-> 1]
  OBVIOUS
<1>3. pollfd_arr[0].fd = PriFd /\ pollfd_arr[1].fd = DataFd
  BY SlotFacts DEF AdminSlot
<1>4. PriFd # DataFd /\ PriFd # NoFd /\ DataFd # NoFd
  BY ConstantsAssumption DEF Fds
<1>5. ListArrayAgree
  <2>1. \A i \in 1 .. 2 : pollfd_arr[i - 1].fd = fd_list[i].fd
    <3> SUFFICES ASSUME NEW i \in 1 .. 2 PROVE pollfd_arr[i - 1].fd = fd_list[i].fd
      OBVIOUS
    <3>1. i = 1 \/ i = 2
      OBVIOUS
    <3> QED BY <3>1, <1>2, <1>3
  <2> QED BY <2>1, <1>2 DEF ListArrayAgree
<1>6. AdminPipesFirst
  BY <1>2, <1>3 DEF AdminPipesFirst
<1>7. DriftsForwardOnly /\ PointsToWritten /\ DestructIsLast /\ SweepInside
  <2> HIDE DEF Init
  <2> SUFFICES ASSUME NEW i \in 1 .. 2
               PROVE  /\ fd_list[i].slot = i - 1
                      /\ pollfd_arr[fd_list[i].slot].fd # NoFd
                      /\ \A j \in 1 .. 2 : fd_list[i].fd = fd_list[j].fd => i = j
    BY <1>2 DEF Init, DriftsForwardOnly, PointsToWritten, DestructIsLast, SweepInside
  <2>1. \A j \in 1 .. 2 : j = 1 \/ j = 2
    OBVIOUS
  <2> QED BY <2>1, <1>2, <1>3, <1>4
<1> QED BY <1>1, <1>5, <1>6, <1>7 DEF Inv, Shape

-----------------------------------------------------------------------------
(* The steps of the callers *)

\* A step that leaves the thread's private data alone keeps its shape.
LEMMA ShapeUnchanged == Shape /\ UNCHANGED thrVars => Shape'
BY DEF Shape, ListArrayAgree, AdminPipesFirst, DriftsForwardOnly, PointsToWritten,
       DestructIsLast, SweepInside, Serving, HasData, thrVars

\* The 16-bit arithmetic of num_sockets stays in its range.
LEMMA CountRange ==
  ASSUME NEW v \in 0 .. CountMod - 1
  PROVE  Inc(v) \in 0 .. CountMod - 1 /\ Dec(v) \in 0 .. CountMod - 1
BY ConstantsAssumption DEF Inc, Dec

\* Writing a request for a descriptor keeps the types of calls and pipe.
LEMMA RequestType ==
  ASSUME TypeOK, NEW c \in Callers, NEW fd \in Fds, NEW act \in {"ADD", "DELETE"},
         Request(c, fd, act)
  PROVE  call' \in [Callers -> Call] /\ pri_pipe' \in Seq(ThrMsg)
<1>1. [pc |-> "waiting", act |-> act, fd |-> fd, reg |-> 0] \in Call
  BY ConstantsAssumption DEF Call
<1>2. [fd |-> fd, act |-> act] \in ThrMsg
  BY DEF ThrMsg
<1> QED BY <1>1, <1>2 DEF TypeOK, Request

\* Every step of a caller keeps the types.
LEMMA CallerType ==
  ASSUME TypeOK, NEW c \in Callers, Caller(c)
  PROVE  TypeOK'
<1> USE DEF thrVars
<1>0. /\ Idle \in Call /\ Sockets \subseteq Fds /\ Pipes \subseteq Fds /\ PriFd \in Fds
      /\ call[c] \in Call
  BY ConstantsAssumption DEF TypeOK, Idle, Call, Fds
<1>1. ASSUME NEW fd \in Sockets, AddSocketCheck(c, fd) PROVE TypeOK'
  <2>1. [pc |-> "checked", act |-> "ADD", fd |-> fd, reg |-> num_sockets] \in Call
    BY <1>0 DEF Call, TypeOK
  <2>2. call' \in [Callers -> Call]
    BY <1>1, <2>1 DEF AddSocketCheck, TypeOK
  <2> QED BY <1>1, <2>2 DEF AddSocketCheck, TypeOK
<1>2. ASSUME NEW fd \in Sockets, AddSocketMaxOut(c, fd) PROVE TypeOK'
  BY <1>2 DEF AddSocketMaxOut, TypeOK, vars
<1>3. ASSUME AddSocketRequest(c) PROVE TypeOK'
  <2>1. call[c].fd \in Fds /\ call[c].reg \in 0 .. CountMod - 1
    BY <1>0 DEF Call
  <2>2. num_sockets' \in 0 .. CountMod - 1
    BY <1>3, <2>1, CountRange DEF AddSocketRequest, TypeOK
  <2>3. call' \in [Callers -> Call] /\ pri_pipe' \in Seq(ThrMsg)
    BY <1>3, <2>1, RequestType DEF AddSocketRequest
  <2> QED BY <1>3, <2>2, <2>3 DEF AddSocketRequest, TypeOK
<1>4. ASSUME NEW fd \in Pipes, AddPipe(c, fd) PROVE TypeOK'
  <2>1. pipes_arr' \in Seq(Pipes \cup {PriFd, DataFd})
    BY <1>4 DEF AddPipe, TypeOK
  <2>2. call' \in [Callers -> Call] /\ pri_pipe' \in Seq(ThrMsg)
    BY <1>4, <1>0, RequestType DEF AddPipe
  <2> QED BY <1>4, <2>1, <2>2 DEF AddPipe, TypeOK
<1>5. ASSUME NEW fd \in Pipes, AddPipeMaxOut(c, fd) PROVE TypeOK'
  BY <1>5 DEF AddPipeMaxOut, TypeOK, vars
<1>6. ASSUME NEW fd \in Deletable, DeleteFd(c, fd) PROVE TypeOK'
  <2>1. call' \in [Callers -> Call] /\ pri_pipe' \in Seq(ThrMsg)
    BY <1>6, <1>0, RequestType, ConstantsAssumption DEF DeleteFd
  <2> QED BY <1>6, <2>1 DEF DeleteFd, TypeOK
<1>7. ASSUME SpuriousWakeup(c) PROVE TypeOK'
  <2>1. call' \in [Callers -> Call]
    BY <1>7, <1>0 DEF SpuriousWakeup, TypeOK, Call
  <2> QED BY <1>7, <2>1 DEF SpuriousWakeup, TypeOK
<1>8. ASSUME ReturnAdd(c) PROVE TypeOK'
  <2>1. call' \in [Callers -> Call]
    BY <1>8, <1>0 DEF ReturnAdd, TypeOK
  <2>2. call[c].fd \in Fds
    BY <1>0 DEF Call
  <2> QED BY <1>8, <2>1, <2>2 DEF ReturnAdd, TypeOK
<1>9. ASSUME ReturnDeletePipe(c) PROVE TypeOK'
  <2>1. call' \in [Callers -> Call]
    BY <1>9, <1>0 DEF ReturnDeletePipe, TypeOK
  <2>2. pipes_arr' \in Seq(Pipes \cup {PriFd, DataFd})
    BY <1>9, RemoveAtElements DEF ReturnDeletePipe, TypeOK
  <2> QED BY <1>9, <2>1, <2>2 DEF ReturnDeletePipe, TypeOK
<1>10. ASSUME LoadCount(c) PROVE TypeOK'
  <2>1. call' \in [Callers -> Call]
    BY <1>10, <1>0 DEF LoadCount, TypeOK, Call
  <2> QED BY <1>10, <2>1 DEF LoadCount, TypeOK
<1>11. ASSUME StoreCount(c) PROVE TypeOK'
  <2>1. call' \in [Callers -> Call]
    BY <1>11, <1>0 DEF StoreCount, TypeOK
  <2>2. num_sockets' \in 0 .. CountMod - 1
    BY <1>11, <1>0, CountRange DEF StoreCount, Call
  <2> QED BY <1>11, <2>1, <2>2 DEF StoreCount, TypeOK
<1>12. ASSUME Free(c) PROVE TypeOK'
  <2>1. call' \in [Callers -> Call] /\ pri_pipe' \in Seq(ThrMsg)
    BY <1>12, <1>0, RequestType DEF Free
  <2> QED BY <1>12, <2>1 DEF Free, TypeOK
<1>13. ASSUME ReturnFree(c) PROVE TypeOK'
  <2>1. call' \in [Callers -> Call]
    BY <1>13, <1>0 DEF ReturnFree, TypeOK, Call
  <2> QED BY <1>13, <2>1 DEF ReturnFree, TypeOK
<1>14. ASSUME Join(c) PROVE TypeOK'
  <2>1. call' \in [Callers -> Call]
    BY <1>14, <1>0 DEF Join, TypeOK
  <2>2. pipes_arr' \in Seq(Pipes \cup {PriFd, DataFd})
    BY <1>14, EmptySeq DEF Join
  <2> QED BY <1>14, <2>1, <2>2 DEF Join, TypeOK
<1> QED BY <1>1, <1>2, <1>3, <1>4, <1>5, <1>6, <1>7, <1>8, <1>9, <1>10, <1>11,
           <1>12, <1>13, <1>14 DEF Caller

\* Handing over a message keeps the types.
LEMMA SendType ==
  ASSUME TypeOK, NEW fd \in Sockets, Send(fd)
  PROVE  TypeOK'
<1>1. sends' \in 1 .. MaxSends
  BY ConstantsAssumption DEF Send, TypeOK
<1>2. [fd |-> fd, n |-> sends'] \in SendMsg
  BY <1>1 DEF SendMsg
<1>3. data_pipe' \in Seq(SendMsg)
  BY <1>2 DEF Send, TypeOK
<1> QED BY <1>1, <1>3 DEF Send, TypeOK, mgrVars, thrVars

-----------------------------------------------------------------------------
(* The steps of the thread *)

\* Waking waiters keeps the type of the calls.
LEMMA WakeSomeType ==
  ASSUME TypeOK, WakeSome
  PROVE  call' \in [Callers -> Call]
<1>1. CASE UNCHANGED call
  BY <1>1 DEF TypeOK
<1>2. ASSUME NEW W \in SUBSET Waiting,
             call' = [c \in Callers |-> IF c \in W
                                        THEN [call[c] EXCEPT !.pc = "woken"]
                                        ELSE call[c]]
      PROVE  call' \in [Callers -> Call]
  <2>1. ASSUME NEW c \in Callers
        PROVE  call[c] \in Call /\ [call[c] EXCEPT !.pc = "woken"] \in Call
    BY DEF TypeOK, Call
  <2> QED BY <1>2, <2>1
<1> QED BY <1>1, <1>2 DEF WakeSome

\* What the type of fd_list says of its entries.
LEMMA EntryFacts ==
  ASSUME TypeOK
  PROVE  /\ fd_list \in Seq(Entry) /\ Len(fd_list) \in Nat
         /\ DOMAIN fd_list = 1 .. Len(fd_list)
         /\ \A i \in 1 .. Len(fd_list) :
              fd_list[i] \in Entry /\ fd_list[i].fd \in Fds /\ fd_list[i].slot \in Slots
<1>1. fd_list \in Seq(Entry)
  BY DEF TypeOK
<1>2. Len(fd_list) \in Nat /\ DOMAIN fd_list = 1 .. Len(fd_list)
  BY <1>1, LenProperties
<1>3. \A i \in 1 .. Len(fd_list) : fd_list[i] \in Entry
  BY <1>1, ElementOfSeq
<1>4. \A e \in Entry : e.fd \in Fds /\ e.slot \in Slots
  BY DEF Entry
<1> QED BY <1>1, <1>2, <1>3, <1>4

\* A step that keeps the list and the descriptors in the slots, and puts the
\* sweep at a sound place, keeps the shape.
LEMMA ShapeKept ==
  ASSUME Inv, HasData, UNCHANGED <<fd_list, num_pollfds>>,
         \A k \in Slots : pollfd_arr'[k].fd = pollfd_arr[k].fd,
         num_pollfds = 0 /\ tpc' = "sweep" => pos' >= 2,
         tpc' \in {"sweep", "signal"} => pos' \in 1 .. Len(fd_list)
  PROVE  Shape'
<1>1. /\ fd_list \in Seq(Entry) /\ Len(fd_list) \in Nat
      /\ \A i \in 1 .. Len(fd_list) : fd_list[i].slot \in Slots
  BY EntryFacts DEF Inv
<1>2. ListArrayAgree'
  <2>1. num_pollfds # 0 => \A i \in 1 .. Len(fd_list) : i - 1 \in Slots
    BY <1>1, SlotFacts DEF Inv, Shape, TypeOK, ListArrayAgree, Serving
  <2> QED BY <2>1 DEF Inv, Shape, ListArrayAgree, Serving, HasData
<1>3. AdminPipesFirst'
  BY SlotFacts DEF Inv, Shape, AdminPipesFirst, HasData
<1>4. DriftsForwardOnly'
  BY DEF Inv, Shape, DriftsForwardOnly, Serving, HasData
<1>5. PointsToWritten'
  BY <1>1 DEF Inv, Shape, PointsToWritten, HasData
<1>6. DestructIsLast'
  BY DEF Inv, Shape, DestructIsLast, HasData
<1>7. SweepInside'
  BY DEF SweepInside
<1> QED BY <1>2, <1>3, <1>4, <1>5, <1>6, <1>7 DEF Shape

\* The place after an entry of the sweep is sound.
LEMMA AdvancePlace ==
  ASSUME Inv, tpc \in {"sweep", "signal"}, Advance
  PROVE  /\ tpc' \in {"sweep", "poll"} /\ pos' \in Nat
         /\ tpc' = "sweep" => pos' \in 2 .. Len(fd_list)
<1>1. pos \in 1 .. Len(fd_list) /\ Len(fd_list) \in Nat
  BY DEF Inv, Shape, SweepInside, TypeOK
<1> QED BY <1>1 DEF Advance

\* poll() writes revents only.
LEMMA PollInv ==
  ASSUME Inv, Poll
  PROVE  Inv'
<1> USE DEF Inv
<1>1. PICK rev \in [0 .. num_pollfds - 1 -> SUBSET Events] :
        pollfd_arr' = [k \in Slots |->
                           IF k < num_pollfds
                           THEN [pollfd_arr[k] EXCEPT !.revents = rev[k]]
                           ELSE pollfd_arr[k]]
  BY DEF Poll
<1>2. \A k \in Slots : pollfd_arr'[k] \in Slot /\ pollfd_arr'[k].fd = pollfd_arr[k].fd
  <2> SUFFICES ASSUME NEW k \in Slots
               PROVE  pollfd_arr'[k] \in Slot /\ pollfd_arr'[k].fd = pollfd_arr[k].fd
    OBVIOUS
  <2>1. pollfd_arr[k] \in Slot
    BY DEF TypeOK
  <2>2. CASE k < num_pollfds
    <3>1. rev[k] \in SUBSET Events
      BY <2>2, SlotFacts DEF TypeOK
    <3> QED BY <1>1, <2>1, <2>2, <3>1 DEF Slot
  <2>3. CASE ~(k < num_pollfds)
    BY <1>1, <2>1, <2>3
  <2> QED BY <2>2, <2>3
<1>3. TypeOK'
  <2>1. pollfd_arr' \in [Slots -> Slot]
    BY <1>1, <1>2
  <2> QED BY <2>1 DEF Poll, TypeOK, mgrVars
<1>4. Shape'
  <2>1. Len(fd_list) >= 2 /\ Len(fd_list) \in Nat
    BY DEF Poll, Shape, AdminPipesFirst, HasData, TypeOK
  <2> QED BY <1>2, <2>1, ShapeKept DEF Poll, HasData
<1> QED BY <1>3, <1>4

\* The end of the loop gives the tables up.
LEMMA LeaveLoopInv ==
  ASSUME Inv, LeaveLoop
  PROVE  Inv'
<1>1. TypeOK'
  <2>1. fd_list' \in Seq(Entry)
    BY EmptySeq DEF LeaveLoop
  <2> QED BY <2>1 DEF LeaveLoop, Inv, TypeOK, mgrVars
<1>2. Shape'
  BY DEF LeaveLoop, Shape, ListArrayAgree, AdminPipesFirst, DriftsForwardOnly, PointsToWritten,
         DestructIsLast, SweepInside, Serving, HasData
<1> QED BY <1>1, <1>2 DEF Inv

\* The signal wakes callers and moves the sweep.
LEMMA SignalInv ==
  ASSUME Inv, Signal
  PROVE  Inv'
<1>1. /\ tpc' \in {"sweep", "poll"} /\ pos' \in Nat
      /\ tpc' = "sweep" => pos' \in 2 .. Len(fd_list)
  BY AdvancePlace DEF Signal
<1>2. call' \in [Callers -> Call]
  BY WakeSomeType DEF Signal, Inv
<1>3. TypeOK'
  BY <1>1, <1>2 DEF Signal, Inv, TypeOK
<1>4. Shape'
  BY <1>1, ShapeKept DEF Signal, HasData, Inv, TypeOK
<1> QED BY <1>3, <1>4 DEF Inv

\* An entry without an event to handle moves the sweep only.
LEMMA PollinOnlyInv ==
  ASSUME Inv, PollinOnly
  PROVE  Inv'
<1>1. /\ tpc' \in {"sweep", "poll"} /\ pos' \in Nat
      /\ tpc' = "sweep" => pos' \in 2 .. Len(fd_list)
  BY AdvancePlace DEF PollinOnly
<1>2. TypeOK'
  BY <1>1 DEF PollinOnly, Inv, TypeOK, mgrVars
<1>3. Shape'
  BY <1>1, ShapeKept DEF PollinOnly, HasData, Inv, TypeOK
<1> QED BY <1>2, <1>3 DEF Inv

\* The end of the thread.
LEMMA ExitInv ==
  ASSUME Inv, Exit
  PROVE  Inv'
<1>1. call' \in [Callers -> Call]
  BY WakeSomeType DEF Exit, Inv
<1>2. TypeOK'
  BY <1>1 DEF Exit, Inv, TypeOK
<1>3. Shape'
  BY DEF Exit, Shape, ListArrayAgree, AdminPipesFirst, DriftsForwardOnly, PointsToWritten,
         DestructIsLast, SweepInside, Serving, HasData
<1> QED BY <1>2, <1>3 DEF Inv

\* Changing the events of one slot keeps the array's type and descriptors.
LEMMA EventsOnly ==
  ASSUME TypeOK, NEW k \in Slots, NEW ev \in SUBSET Events,
         pollfd_arr' = [pollfd_arr EXCEPT ![k].events = ev]
  PROVE  /\ pollfd_arr' \in [Slots -> Slot]
         /\ \A j \in Slots : pollfd_arr'[j].fd = pollfd_arr[j].fd
<1>1. pollfd_arr \in [Slots -> Slot] /\ pollfd_arr[k] \in Slot
  BY DEF TypeOK
<1>2. [pollfd_arr[k] EXCEPT !.events = ev] \in Slot
  BY <1>1 DEF Slot
<1>3. [pollfd_arr[k] EXCEPT !.events = ev].fd = pollfd_arr[k].fd
  BY <1>1 DEF Slot
<1>4. pollfd_arr' = [pollfd_arr EXCEPT ![k] = [pollfd_arr[k] EXCEPT !.events = ev]]
  OBVIOUS
<1> QED BY <1>1, <1>2, <1>3, <1>4

\* What the sweep sees at its place.
LEMMA CurFacts ==
  ASSUME Inv, tpc = "sweep"
  PROVE  /\ pos \in 1 .. Len(fd_list)
         /\ CurEntry.fd \in Fds /\ CurEntry.slot \in Slots
         /\ CurSlot \in Slot /\ CurSlot.fd \in Fds
<1>1. pos \in 1 .. Len(fd_list)
  BY DEF Inv, Shape, SweepInside
<1>2. CurEntry.fd \in Fds /\ CurEntry.slot \in Slots
  BY <1>1, EntryFacts DEF Inv, CurEntry
<1>3. CurSlot \in Slot
  BY <1>2 DEF Inv, TypeOK, CurSlot
<1>4. CurSlot.fd # NoFd
  BY <1>1 DEF Inv, Shape, PointsToWritten, HasData, CurSlot, CurEntry
<1> QED BY <1>1, <1>2, <1>3, <1>4 DEF Slot

\* Storing a message and requesting POLLOUT keeps the invariant.
LEMMA DataPipeInv ==
  ASSUME Inv, DataPipe
  PROVE  Inv'
<1> DEFINE msg == NextMessage
<1>1. /\ data_pipe \in Seq(SendMsg) /\ data_pipe # <<>> /\ Len(data_pipe) \in Nat
      /\ tpc = "sweep"
  BY DEF DataPipe, Inv, TypeOK
<1>2. msg \in SendMsg
  BY <1>1, HeadTailProperties DEF NextMessage
<1>3. msg.fd \in Fds /\ msg.n \in 1 .. MaxSends
  BY <1>2 DEF SendMsg, Fds
<1>4. data_pipe' \in Seq(SendMsg)
  <2>1. \A i \in MsgsPerRead + 1 .. Len(data_pipe) : data_pipe[i] \in SendMsg
    BY <1>1, ElementOfSeq, ConstantsAssumption
  <2> QED BY <1>1, <2>1, SubSeqProperties, ConstantsAssumption DEF DataPipe
<1>5. send_msg_htbl' \in [Fds -> 1 .. MaxSends \cup {NoMsg}]
  BY <1>3 DEF DataPipe, Inv, TypeOK
<1>6. CASE msg.fd \in Polled
  <2>1. PICK k \in 1 .. Len(fd_list) : fd_list[k].fd = msg.fd
    BY <1>6, EntryFacts DEF Inv, Polled
  <2>2. FirstWith(fd_list, msg.fd) = k
    BY <2>1, <1>1, FirstWithPlace, EntryFacts DEF Inv, Shape, DestructIsLast, HasData
  <2>3. fd_list[k].slot \in Slots
    BY EntryFacts DEF Inv
  <2>4. Arm(msg.fd) /\ Advance
    BY <1>6 DEF DataPipe
  <2>5. pollfd_arr' = [pollfd_arr EXCEPT ![fd_list[k].slot].events =
                          pollfd_arr[fd_list[k].slot].events \cup {"OUT"}]
    BY <2>2, <2>4 DEF Arm
  <2>6. pollfd_arr[fd_list[k].slot].events \cup {"OUT"} \in SUBSET Events
    <3>1. pollfd_arr[fd_list[k].slot] \in Slot
      BY <2>3 DEF Inv, TypeOK
    <3> QED BY <3>1 DEF Slot, Events
  <2>7. /\ pollfd_arr' \in [Slots -> Slot]
        /\ \A j \in Slots : pollfd_arr'[j].fd = pollfd_arr[j].fd
    BY <2>3, <2>5, <2>6, EventsOnly DEF Inv
  <2>8. /\ tpc' \in {"sweep", "poll"} /\ pos' \in Nat
        /\ tpc' = "sweep" => pos' \in 2 .. Len(fd_list)
    BY <1>1, <2>4, AdvancePlace
  <2>9. TypeOK'
    BY <1>4, <1>5, <2>7, <2>8 DEF DataPipe, Inv, TypeOK, mgrVars
  <2>10. Shape'
    BY <1>1, <2>7, <2>8, ShapeKept DEF DataPipe, HasData, Inv, TypeOK
  <2> QED BY <2>9, <2>10 DEF Inv
<1>7. CASE msg.fd \notin Polled
  <2>1. tpc' = "abort_data" /\ UNCHANGED <<pollfd_arr, pos>>
    BY <1>7 DEF DataPipe
  <2>2. TypeOK'
    BY <1>4, <1>5, <2>1 DEF DataPipe, Inv, TypeOK, mgrVars
  <2>3. Shape'
    BY <1>1, <2>1, ShapeKept DEF DataPipe, HasData, Inv, TypeOK
  <2> QED BY <2>2, <2>3 DEF Inv
<1> QED BY <1>6, <1>7

\* Sending on POLLOUT, or failing the assertion, keeps the invariant.
LEMMA PolloutInv ==
  ASSUME Inv, Pollout
  PROVE  Inv'
<1>1. tpc = "sweep" /\ MessageKey \in Fds
  BY CurFacts DEF Pollout, MessageKey
<1>2. CASE send_msg_htbl[MessageKey] = NoMsg
  <2>1. tpc' = "abort_pollout" /\ UNCHANGED <<pos, pollfd_arr, send_msg_htbl, wire>>
    BY <1>2 DEF Pollout
  <2>2. TypeOK'
    BY <2>1 DEF Pollout, Inv, TypeOK, mgrVars
  <2>3. Shape'
    BY <1>1, <2>1, ShapeKept DEF Pollout, HasData, Inv, TypeOK
  <2> QED BY <2>2, <2>3 DEF Inv
<1>3. CASE send_msg_htbl[MessageKey] # NoMsg
  <2>1. send_msg_htbl[MessageKey] \in 1 .. MaxSends
    BY <1>1, <1>3 DEF Inv, TypeOK
  <2>2. wire' \in Seq([on : Sockets, fd : Fds, n : 1 .. MaxSends])
    <3>1. CASE CurEntry.fd \in Sockets \ FailingFds
      <4> DEFINE W == [on : Sockets, fd : Fds, n : 1 .. MaxSends]
                 m == [on |-> CurEntry.fd, fd |-> MessageKey,
                       n |-> send_msg_htbl[MessageKey]]
      <4>1. m \in W
        BY <1>1, <2>1, <3>1
      <4>2. wire' = Append(wire, m)
        BY <1>3, <3>1 DEF Pollout
      <4>3. wire \in Seq(W)
        BY DEF Inv, TypeOK
      <4> HIDE DEF m, W
      <4>4. Append(wire, m) \in Seq(W)
        BY <4>1, <4>3
      <4> QED BY <4>2, <4>4 DEF W
    <3>2. CASE ~(CurEntry.fd \in Sockets \ FailingFds)
      BY <1>3, <3>2 DEF Pollout, Inv, TypeOK
    <3> QED BY <3>1, <3>2
  <2>3. send_msg_htbl' \in [Fds -> 1 .. MaxSends \cup {NoMsg}]
    BY <1>1, <1>3 DEF Pollout, Inv, TypeOK
  <2>4. pollfd_arr' = [pollfd_arr EXCEPT ![CurEntry.slot].events =
                          pollfd_arr[CurEntry.slot].events \ {"OUT"}]
    BY <1>3 DEF Pollout, Disarm
  <2>5. pollfd_arr[CurEntry.slot].events \ {"OUT"} \in SUBSET Events
    BY <1>1, CurFacts DEF CurSlot, Slot
  <2>6. /\ pollfd_arr' \in [Slots -> Slot]
        /\ \A j \in Slots : pollfd_arr'[j].fd = pollfd_arr[j].fd
    BY <1>1, <2>4, <2>5, CurFacts, EventsOnly DEF Inv
  <2>7. /\ tpc' \in {"sweep", "poll"} /\ pos' \in Nat
        /\ tpc' = "sweep" => pos' \in 2 .. Len(fd_list)
    BY <1>1, <1>3, AdvancePlace DEF Pollout
  <2>8. TypeOK'
    BY <2>2, <2>3, <2>6, <2>7 DEF Pollout, Inv, TypeOK, mgrVars
  <2>9. Shape'
    BY <1>1, <2>6, <2>7, ShapeKept DEF Pollout, HasData, Inv, TypeOK
  <2> QED BY <2>8, <2>9 DEF Inv
<1> QED BY <1>2, <1>3

\* The descriptors of the list are those of Polled.
LEMMA PolledPlace ==
  ASSUME TypeOK, NEW fd
  PROVE  fd \in Polled <=> \E k \in 1 .. Len(fd_list) : fd_list[k].fd = fd
BY EntryFacts DEF Polled

\* While the primary pipe's callback runs, the thread serves: the list and
\* the array agree and the sweep is at the first entry.
LEMMA PriPipeServes ==
  ASSUME Inv, PriPipe
  PROVE  /\ tpc = "sweep" /\ pos = 1 /\ Serving /\ HasData
         /\ Len(fd_list) = num_pollfds /\ num_pollfds >= 2
         /\ Head(pri_pipe) \in ThrMsg /\ pri_pipe' \in Seq(ThrMsg)
<1>1. tpc = "sweep" /\ HasData /\ pri_pipe # <<>> /\ pri_pipe' = Tail(pri_pipe)
  BY DEF PriPipe, HasData
<1>2. /\ pos \in 1 .. Len(fd_list) /\ fd_list[pos].fd = PriFd
      /\ Len(fd_list) \in Nat /\ Len(fd_list) >= 2 /\ fd_list[1].fd = PriFd
  BY <1>1, CurFacts, EntryFacts DEF PriPipe, CurEntry, Inv, Shape, AdminPipesFirst
<1>3. pos = 1
  BY <1>1, <1>2 DEF Inv, Shape, DestructIsLast
<1>4. num_pollfds # 0
  BY <1>1, <1>3 DEF Inv, Shape, DestructIsLast
<1>5. Len(fd_list) = num_pollfds
  BY <1>1, <1>4 DEF Inv, Shape, ListArrayAgree, Serving
<1>6. Head(pri_pipe) \in ThrMsg /\ pri_pipe' \in Seq(ThrMsg)
  BY <1>1, HeadTailProperties DEF Inv, TypeOK
<1> QED BY <1>1, <1>2, <1>3, <1>4, <1>5, <1>6 DEF Serving

\* ADD_FD appends one entry and one slot.
LEMMA AddFdInv ==
  ASSUME Inv, PriPipe, NEW fd \in Fds, AddFd(fd), UNCHANGED pos
  PROVE  Inv'
<1>0. /\ tpc = "sweep" /\ pos = 1 /\ Serving /\ HasData
      /\ Len(fd_list) = num_pollfds /\ num_pollfds >= 2
      /\ pri_pipe' \in Seq(ThrMsg)
  BY PriPipeServes
<1>1. CASE \/ fd \in Polled /\ tpc' = "abort_add"
           \/ num_pollfds \notin Slots /\ tpc' = "overflow"
  <2>1. tpc' \in {"abort_add", "overflow"} /\ UNCHANGED <<num_pollfds, pollfd_arr, fd_list>>
    BY <1>1 DEF AddFd
  <2>2. TypeOK'
    BY <1>0, <2>1 DEF PriPipe, Inv, TypeOK, mgrVars
  <2>3. Shape'
    BY <1>0, <2>1, ShapeKept
  <2> QED BY <2>2, <2>3 DEF Inv
<1>2. CASE fd \notin Polled /\ num_pollfds \in Slots
  <2>1. PICK left \in SUBSET Events :
          /\ pollfd_arr' = [pollfd_arr EXCEPT ![num_pollfds] =
                              [fd |-> fd, events |-> {"IN"}, revents |-> left]]
          /\ fd_list' = Append(fd_list, [fd |-> fd, slot |-> num_pollfds])
          /\ num_pollfds' = num_pollfds + 1
          /\ tpc' = "signal"
    <3>1. pollfd_arr[num_pollfds].revents \in SUBSET Events
      BY <1>2 DEF Inv, TypeOK, Slot
    <3> QED BY <1>2, <3>1 DEF AddFd, NewEntry
  <2>2. [fd |-> fd, events |-> {"IN"}, revents |-> left] \in Slot
    BY DEF Slot, Events
  <2>3. pollfd_arr' \in [Slots -> Slot]
    BY <2>1, <2>2 DEF Inv, TypeOK
  <2>4. \A k \in Slots : pollfd_arr'[k].fd =
                           IF k = num_pollfds THEN fd ELSE pollfd_arr[k].fd
    BY <2>1 DEF Inv, TypeOK
  <2>5. [fd |-> fd, slot |-> num_pollfds] \in Entry
    BY <1>2 DEF Entry
  <2>6. /\ fd_list' \in Seq(Entry)
        /\ Len(fd_list') = num_pollfds + 1
        /\ \A i \in 1 .. num_pollfds : fd_list'[i] = fd_list[i]
        /\ fd_list'[num_pollfds + 1] = [fd |-> fd, slot |-> num_pollfds]
    BY <1>0, <2>1, <2>5, EntryFacts DEF Inv
  <2>7. num_pollfds \in Nat /\ num_pollfds' \in 0 .. max_pollfds
    BY <1>2, <2>1, SlotFacts DEF Inv, TypeOK
  <2>8. TypeOK'
    BY <1>0, <2>1, <2>3, <2>6, <2>7 DEF PriPipe, Inv, TypeOK, mgrVars
  <2> DEFINE old == 1 .. num_pollfds
  <2>9. \A i \in old : fd_list[i].fd # fd /\ fd_list[i].slot \in Slots
    BY <1>0, <1>2, PolledPlace, EntryFacts DEF Inv
  <2>10. ListArrayAgree'
    <3> SUFFICES ASSUME NEW i \in 1 .. num_pollfds + 1
                 PROVE  pollfd_arr'[i - 1].fd = fd_list'[i].fd
      BY <2>1, <2>6 DEF ListArrayAgree
    <3>1. CASE i = num_pollfds + 1
      BY <3>1, <1>2, <2>4, <2>6, <2>7
    <3>2. CASE i \in old
      <4>1. i - 1 \in Slots /\ i - 1 # num_pollfds
        BY <3>2, <1>2, <2>7, SlotFacts
      <4>2. pollfd_arr[i - 1].fd = fd_list[i].fd
        BY <3>2, <1>0 DEF Inv, Shape, ListArrayAgree
      <4> QED BY <3>2, <4>1, <4>2, <2>4, <2>6
    <3> QED BY <3>1, <3>2, <2>7
  <2>11. AdminPipesFirst'
    <3>1. /\ 1 \in old /\ 2 \in old /\ 0 # num_pollfds /\ 1 # num_pollfds
      BY <1>0, <2>7
    <3>2. /\ fd_list[1] = [fd |-> PriFd, slot |-> 0]
          /\ fd_list[2] = [fd |-> DataFd, slot |-> 1]
          /\ pollfd_arr[0].fd = PriFd /\ pollfd_arr[1].fd = DataFd
          /\ \A i \in 3 .. num_pollfds : fd_list[i].slot >= 2
      BY <1>0 DEF Inv, Shape, AdminPipesFirst
    <3>3. pollfd_arr'[0].fd = PriFd /\ pollfd_arr'[1].fd = DataFd
      BY <3>1, <3>2, <2>4, SlotFacts
    <3>4. \A i \in 3 .. num_pollfds + 1 : fd_list'[i].slot >= 2
      <4> TAKE i \in 3 .. num_pollfds + 1
      <4>1. CASE i = num_pollfds + 1
        BY <4>1, <1>0, <2>6
      <4>2. CASE i \in 3 .. num_pollfds
        BY <4>2, <3>2, <2>6
      <4> QED BY <4>1, <4>2, <2>7
    <3> QED BY <1>0, <3>1, <3>2, <3>3, <3>4, <2>6 DEF AdminPipesFirst
  <2>12. DriftsForwardOnly'
    <3> SUFFICES ASSUME NEW i \in 1 .. num_pollfds + 1
                 PROVE  fd_list'[i].slot >= i - 1
      BY <2>6 DEF DriftsForwardOnly
    <3>1. CASE i = num_pollfds + 1
      BY <3>1, <2>6, <2>7
    <3>2. CASE i \in old
      BY <3>2, <1>0, <2>6 DEF Inv, Shape, DriftsForwardOnly
    <3> QED BY <3>1, <3>2, <2>7
  <2>13. PointsToWritten'
    <3> SUFFICES ASSUME NEW i \in 1 .. num_pollfds + 1
                 PROVE  pollfd_arr'[fd_list'[i].slot].fd # NoFd
      BY <2>6 DEF PointsToWritten
    <3>0. fd # NoFd
      BY ConstantsAssumption
    <3>1. CASE i = num_pollfds + 1
      BY <3>0, <3>1, <1>2, <2>4, <2>6
    <3>2. CASE i \in old
      <4>1. pollfd_arr[fd_list[i].slot].fd # NoFd
        BY <3>2, <1>0 DEF Inv, Shape, PointsToWritten
      <4> QED BY <3>0, <3>2, <4>1, <2>4, <2>6, <2>9
    <3> QED BY <3>1, <3>2, <2>7
  <2>14. DestructIsLast'
    <3> SUFFICES ASSUME NEW i \in 1 .. num_pollfds + 1, NEW j \in 1 .. num_pollfds + 1,
                        fd_list'[i].fd = fd_list'[j].fd
                 PROVE  i = j
      BY <2>1, <2>6 DEF DestructIsLast
    <3>1. \A l \in 1 .. num_pollfds + 1 : l = num_pollfds + 1 \/ l \in old
      BY <2>7
    <3>2. \A l, m \in old : fd_list[l].fd = fd_list[m].fd => l = m
      BY <1>0 DEF Inv, Shape, DestructIsLast
    <3>3. \A l \in old : fd_list'[l].fd = fd_list[l].fd
      BY <2>6
    <3>4. fd_list'[num_pollfds + 1].fd = fd
      BY <2>6
    <3> QED BY <3>1, <3>2, <3>3, <3>4, <2>9
  <2>15. SweepInside'
    BY <1>0, <2>6, <2>7 DEF SweepInside
  <2> QED BY <2>8, <2>10, <2>11, <2>12, <2>13, <2>14, <2>15 DEF Inv, Shape
<1>3. fd \in Polled => tpc' = "abort_add"
  BY DEF AddFd
<1>4. fd \notin Polled /\ num_pollfds \notin Slots => tpc' = "overflow"
  BY DEF AddFd
<1> QED BY <1>1, <1>2, <1>3, <1>4

\* DELETE_FD takes the descriptor out of the list and out of the array, at the
\* same place.
LEMMA RemoveFdInv ==
  ASSUME Inv, PriPipe, NEW fd \in Fds, fd \notin {pollfd_arr[0].fd, pollfd_arr[1].fd},
         RemoveFd(fd), UNCHANGED pos
  PROVE  Inv'
<1> DEFINE n == num_pollfds
<1>0. /\ tpc = "sweep" /\ pos = 1 /\ Serving /\ HasData
      /\ Len(fd_list) = n /\ n >= 2
      /\ pri_pipe' \in Seq(ThrMsg) /\ tpc' = "signal"
  BY PriPipeServes DEF RemoveFd
<1>1. CASE ~\E k \in Searched : pollfd_arr[k].fd = fd
  <2>1. UNCHANGED <<num_pollfds, pollfd_arr, fd_list>>
    BY <1>1 DEF RemoveFd
  <2>2. TypeOK'
    BY <1>0, <2>1 DEF PriPipe, Inv, TypeOK, mgrVars
  <2>3. 1 \in 1 .. Len(fd_list)
    BY <1>0, EntryFacts DEF Inv
  <2>4. Shape'
    BY <1>0, <2>1, <2>3, ShapeKept
  <2> QED BY <2>2, <2>4 DEF Inv
<1>2. CASE \E k \in Searched : pollfd_arr[k].fd = fd
  <2>1. PICK k \in 1 .. n - 1 :
          /\ pollfd_arr[k].fd = fd
          /\ pollfd_arr' = ShiftDown(pollfd_arr, n, k)
          /\ num_pollfds' = n - 1
          /\ DropEntry(fd)
    BY <1>2 DEF RemoveFd, Searched
  <2>2. n \in 0 .. max_pollfds /\ n \in Nat
    BY SlotFacts DEF Inv, TypeOK
  <2>3. k >= 2
    BY <2>1, <2>2
  <2>4. /\ pollfd_arr' \in [Slots -> Slot]
        /\ \A j \in Slots : pollfd_arr'[j] =
                              IF j \in k .. n - 2 THEN pollfd_arr[j + 1] ELSE pollfd_arr[j]
    <3>1. pollfd_arr \in [Slots -> Slot]
      BY DEF Inv, TypeOK
    <3> QED BY ONLY <3>1, <2>1, <2>2, ShiftDownSlots
  <2>5. \A i \in 1 .. n : i - 1 \in Slots /\ pollfd_arr[i - 1].fd = fd_list[i].fd
    BY <1>0, <2>2, SlotFacts DEF Inv, Shape, ListArrayAgree
  <2>6. k + 1 \in 1 .. n /\ fd_list[k + 1].fd = fd
    <3>1. k + 1 \in 1 .. n /\ (k + 1) - 1 = k
      BY <2>2
    <3> QED BY <3>1, <2>1, <2>5
  <2>7. fd \in Polled /\ FirstWith(fd_list, fd) = k + 1
    <3>1. fd \in Polled
      BY <1>0, <2>6, PolledPlace DEF Inv
    <3>2. FirstWith(fd_list, fd) = k + 1
      BY <1>0, <2>6, FirstWithPlace, EntryFacts DEF Inv, Shape, DestructIsLast
    <3> QED BY <3>1, <3>2
  <2>8. fd_list' = RemoveAt(fd_list, k + 1)
    BY <2>1, <2>7 DEF DropEntry
  <2>9. /\ fd_list' \in Seq(Entry) /\ Len(fd_list') = n - 1
        /\ \A j \in 1 .. n - 1 : fd_list'[j] = IF j < k + 1 THEN fd_list[j]
                                                            ELSE fd_list[j + 1]
    BY <1>0, <2>6, <2>8, RemoveAtElements, EntryFacts DEF Inv
  <2>10. TypeOK'
    <3>1. num_pollfds' \in 0 .. max_pollfds
      BY <1>0, <2>1, <2>2, SlotFacts
    <3> QED BY <1>0, <2>4, <2>9, <3>1 DEF PriPipe, Inv, TypeOK, mgrVars
  <2>11. ListArrayAgree'
    <3> SUFFICES ASSUME NEW i \in 1 .. n - 1
                 PROVE  pollfd_arr'[i - 1].fd = fd_list'[i].fd
      BY <2>1, <2>9 DEF ListArrayAgree
    <3>0. i \in 1 .. n /\ i + 1 \in 1 .. n /\ (i + 1) - 1 = i /\ i - 1 \in Slots
      BY <2>2, <2>5
    <3>1. CASE i < k + 1
      <4>1. pollfd_arr'[i - 1] = pollfd_arr[i - 1]
        BY <3>0, <3>1, <2>2, <2>4
      <4> QED BY <3>0, <3>1, <4>1, <2>5, <2>9
    <3>2. CASE ~(i < k + 1)
      <4>1. i - 1 \in k .. n - 2 /\ (i - 1) + 1 = i
        BY <3>2, <2>2
      <4>2. pollfd_arr'[i - 1] = pollfd_arr[i]
        BY <3>0, <4>1, <2>4
      <4>3. pollfd_arr[i].fd = fd_list[i + 1].fd
        BY <3>0, <2>5
      <4> QED BY <3>2, <4>2, <4>3, <2>9
    <3> QED BY <3>1, <3>2
  <2>12. AdminPipesFirst'
    <3>1. /\ fd_list[1] = [fd |-> PriFd, slot |-> 0]
          /\ fd_list[2] = [fd |-> DataFd, slot |-> 1]
          /\ pollfd_arr[0].fd = PriFd /\ pollfd_arr[1].fd = DataFd
          /\ \A i \in 3 .. n : fd_list[i].slot >= 2
      BY <1>0 DEF Inv, Shape, AdminPipesFirst
    <3>2. n - 1 >= 2 /\ 1 \in 1 .. n - 1 /\ 2 \in 1 .. n - 1
      BY <2>2, <2>3
    <3>3. fd_list'[1] = fd_list[1] /\ fd_list'[2] = fd_list[2]
      BY <2>3, <2>9, <3>2
    <3>4. pollfd_arr'[0].fd = PriFd /\ pollfd_arr'[1].fd = DataFd
      BY <2>2, <2>3, <2>4, <3>1, SlotFacts
    <3>5. \A i \in 3 .. n - 1 : fd_list'[i].slot >= 2
      <4> TAKE i \in 3 .. n - 1
      <4>1. i \in 3 .. n /\ i + 1 \in 3 .. n /\ i \in 1 .. n - 1
        BY <2>2
      <4> QED BY <4>1, <2>9, <3>1
    <3> QED BY <2>9, <3>1, <3>2, <3>3, <3>4, <3>5 DEF AdminPipesFirst
  <2>13. DriftsForwardOnly'
    <3> SUFFICES ASSUME NEW i \in 1 .. n - 1
                 PROVE  fd_list'[i].slot >= i - 1
      BY <2>9 DEF DriftsForwardOnly
    <3>1. /\ i \in 1 .. n /\ i + 1 \in 1 .. n
          /\ fd_list[i].slot >= i - 1 /\ fd_list[i + 1].slot >= (i + 1) - 1
      BY <1>0, <2>2 DEF Inv, Shape, DriftsForwardOnly
    <3>2. fd_list[i + 1].slot \in Int
      BY <1>0, <3>1, EntryFacts, SlotFacts DEF Inv
    <3> QED BY <3>1, <3>2, <2>9
  <2>14. PointsToWritten'
    <3>1. \A j \in Slots : pollfd_arr[j].fd # NoFd => pollfd_arr'[j].fd # NoFd
      <4> SUFFICES ASSUME NEW j \in Slots, pollfd_arr[j].fd # NoFd
                   PROVE  pollfd_arr'[j].fd # NoFd
        OBVIOUS
      <4>1. CASE j \in k .. n - 2
        <5>1. j + 2 \in 1 .. n /\ (j + 2) - 1 = j + 1
          BY <4>1, <2>2
        <5>2. pollfd_arr[j + 1].fd = fd_list[j + 2].fd
          BY <5>1, <2>5
        <5>3. fd_list[j + 2].fd \in Fds
          BY <1>0, <5>1, EntryFacts DEF Inv
        <5> QED BY <4>1, <5>2, <5>3, <2>4, ConstantsAssumption
      <4>2. CASE j \notin k .. n - 2
        BY <4>2, <2>4
      <4> QED BY <4>1, <4>2
    <3> SUFFICES ASSUME NEW i \in 1 .. n - 1
                 PROVE  pollfd_arr'[fd_list'[i].slot].fd # NoFd
      BY <2>9 DEF PointsToWritten
    <3>2. PICK l \in 1 .. n : fd_list'[i] = fd_list[l]
      BY <2>2, <2>9
    <3>3. fd_list[l].slot \in Slots /\ pollfd_arr[fd_list[l].slot].fd # NoFd
      BY <1>0, EntryFacts DEF Inv, Shape, PointsToWritten
    <3> QED BY <3>1, <3>2, <3>3
  <2>15. DestructIsLast'
    <3> SUFFICES ASSUME NEW i \in 1 .. n - 1, NEW j \in 1 .. n - 1,
                        fd_list'[i].fd = fd_list'[j].fd
                 PROVE  i = j
      BY <1>0, <2>9 DEF DestructIsLast
    <3>1. \A l, m \in 1 .. n : fd_list[l].fd = fd_list[m].fd => l = m
      BY <1>0 DEF Inv, Shape, DestructIsLast
    <3>2. /\ i \in 1 .. n /\ i + 1 \in 1 .. n
          /\ j \in 1 .. n /\ j + 1 \in 1 .. n
      BY <2>2
    <3>3. CASE i < k + 1 /\ j < k + 1
      BY <3>1, <3>2, <3>3, <2>9
    <3>4. CASE i < k + 1 /\ ~(j < k + 1)
      <4>1. fd_list[i].fd = fd_list[j + 1].fd
        BY <3>4, <2>9
      <4> QED BY <3>1, <3>2, <3>4, <4>1
    <3>5. CASE ~(i < k + 1) /\ j < k + 1
      <4>1. fd_list[i + 1].fd = fd_list[j].fd
        BY <3>5, <2>9
      <4> QED BY <3>1, <3>2, <3>5, <4>1
    <3>6. CASE ~(i < k + 1) /\ ~(j < k + 1)
      <4>1. fd_list[i + 1].fd = fd_list[j + 1].fd
        BY <3>6, <2>9
      <4> QED BY <3>1, <3>2, <4>1
    <3> QED BY <3>3, <3>4, <3>5, <3>6
  <2>16. SweepInside'
    BY <1>0, <2>2, <2>3, <2>9 DEF SweepInside
  <2> QED BY <2>10, <2>11, <2>12, <2>13, <2>14, <2>15, <2>16 DEF Inv, Shape
<1> QED BY <1>1, <1>2

\* The primary pipe's callback, with its three cases.
LEMMA PriPipeInv ==
  ASSUME Inv, PriPipe
  PROVE  Inv'
<1> DEFINE msg == Head(pri_pipe)
<1>0. /\ tpc = "sweep" /\ pos = 1 /\ Serving /\ HasData
      /\ Len(fd_list) = num_pollfds /\ num_pollfds >= 2
      /\ msg \in ThrMsg /\ pri_pipe' \in Seq(ThrMsg)
  BY PriPipeServes
<1>1. msg.fd \in Fds
  BY <1>0 DEF ThrMsg
<1>2. CASE msg.act = "ADD" /\ AddFd(msg.fd) /\ UNCHANGED pos
  BY <1>1, <1>2, AddFdInv
<1>3. CASE /\ msg.act = "DELETE" /\ num_pollfds' = 0 /\ Advance
           /\ UNCHANGED <<pollfd_arr, fd_list>>
  <2>1. /\ tpc' \in {"sweep", "poll"} /\ pos' \in Nat
        /\ tpc' = "sweep" => pos' \in 2 .. Len(fd_list)
    BY <1>0, <1>3, AdvancePlace
  <2>2. TypeOK'
    BY <1>0, <1>3, <2>1, SlotFacts DEF PriPipe, Inv, TypeOK, mgrVars
  <2>3. /\ AdminPipesFirst /\ PointsToWritten /\ DestructIsLast
        /\ Len(fd_list) \in Nat
    BY EntryFacts DEF Inv, Shape
  <2>4. ~Serving' /\ HasData'
    BY <1>3, <2>1 DEF Serving, HasData
  <2>5. AdminPipesFirst' /\ PointsToWritten'
    BY <1>0, <1>3, <2>3 DEF AdminPipesFirst, PointsToWritten
  <2>6. DestructIsLast' /\ SweepInside'
    BY <1>0, <1>3, <2>1, <2>3 DEF DestructIsLast, SweepInside
  <2>7. ListArrayAgree' /\ DriftsForwardOnly'
    BY <2>4 DEF ListArrayAgree, DriftsForwardOnly
  <2> QED BY <2>2, <2>5, <2>6, <2>7 DEF Inv, Shape
<1>4. CASE /\ msg.fd \notin {pollfd_arr[0].fd, pollfd_arr[1].fd}
           /\ RemoveFd(msg.fd) /\ UNCHANGED pos
  BY <1>1, <1>4, RemoveFdInv
<1> QED BY <1>2, <1>3, <1>4 DEF PriPipe

\* Every step keeps the invariant.
LEMMA NextInv == Inv /\ [Next]_vars => Inv'
<1> SUFFICES ASSUME Inv, [Next]_vars PROVE Inv'
  OBVIOUS
<1>1. CASE Thread
  <2>1. CASE Poll
    BY <2>1, PollInv
  <2>2. CASE SelfDestruct \/ PollError
    BY <2>2, LeaveLoopInv DEF SelfDestruct, PollError
  <2>3. CASE PriPipe
    BY <2>3, PriPipeInv
  <2>4. CASE Signal \/ Exit
    BY <2>4, SignalInv, ExitInv
  <2>5. CASE DataPipe
    BY <2>5, DataPipeInv
  <2>6. CASE PollinOnly \/ Pollout
    BY <2>6, PollinOnlyInv, PolloutInv
  <2> QED BY <1>1, <2>1, <2>2, <2>3, <2>4, <2>5, <2>6 DEF Thread
<1>2. ASSUME NEW c \in Callers, Caller(c) PROVE Inv'
  <2>1. TypeOK'
    BY <1>2, CallerType DEF Inv
  <2>2. UNCHANGED thrVars
    BY <1>2 DEF Caller, AddSocketCheck, AddSocketMaxOut, AddSocketRequest, AddPipe,
       AddPipeMaxOut, DeleteFd, SpuriousWakeup, ReturnAdd, ReturnDeletePipe, LoadCount,
       StoreCount, Free, ReturnFree, Join, vars, thrVars
  <2> QED BY <2>1, <2>2, ShapeUnchanged DEF Inv
<1>3. ASSUME NEW fd \in Sockets, Send(fd) PROVE Inv'
  BY <1>3, SendType, ShapeUnchanged DEF Inv, Send
<1>4. CASE UNCHANGED vars
  <2>1. TypeOK'
    BY <1>4 DEF Inv, TypeOK, vars
  <2> QED BY <2>1, <1>4, ShapeUnchanged DEF Inv, vars, thrVars
<1> QED BY <1>1, <1>2, <1>3, <1>4 DEF Next

-----------------------------------------------------------------------------
(* The theorems *)

\* The inductive invariant holds in every reachable state.
THEOREM Invariance == Spec => []Inv
BY InitInv, NextInv, PTL DEF Spec

\* Every variable keeps its type: the slot every fd_info points to exists in the
\* pollfd array, and num_pollfds does not pass its end, up to the write behind
\* the array (tpc = "overflow") that a race on num_sockets could cause.
THEOREM TypeCorrect == Spec => []TypeOK
<1>1. Inv => TypeOK
  BY DEF Inv
<1> QED BY <1>1, Invariance, PTL

\* ADD_FD and DELETE_FD keep fd_list and pollfd_arr in step.
THEOREM TablesAgree == Spec => []ListArrayAgree
<1>1. Inv => ListArrayAgree
  BY DEF Inv, Shape
<1> QED BY <1>1, Invariance, PTL

\* The administrative pipes keep their places and their slots.
THEOREM AdminStays == Spec => []AdminPipesFirst
<1>1. Inv => AdminPipesFirst
  BY DEF Inv, Shape
<1> QED BY <1>1, Invariance, PTL

\* The pointers DELETE_FD leaves stale point forward, to written slots only.
THEOREM StaleButSound == Spec => [](DriftsForwardOnly /\ PointsToWritten)
<1>1. Inv => DriftsForwardOnly /\ PointsToWritten
  BY DEF Inv, Shape
<1> QED BY <1>1, Invariance, PTL

\* g_list_foreach never leaves the list its callbacks edit, and handles no
\* request after the one for self-destruction.
THEOREM SweepSound == Spec => [](SweepInside /\ DestructIsLast)
<1>1. Inv => SweepInside /\ DestructIsLast
  BY DEF Inv, Shape
<1> QED BY <1>1, Invariance, PTL
-----------------------------------------------------------------------------
(* The order of the messages *)

\* OrderedOnce is about the wire only.  Messages move from the data pipe to the
\* hash table and from there to the wire; the order is kept because a message
\* was handed over before every message that is still at an earlier stage, in
\* the data pipe whatever its socket, in the hash table under its own key.
InOrder ==
  /\ \A i, j \in 1 .. Len(data_pipe) : i < j => data_pipe[i].n < data_pipe[j].n
  /\ \A i \in 1 .. Len(data_pipe) : data_pipe[i].n <= sends
  /\ \A fd \in Fds : send_msg_htbl[fd] # NoMsg =>
       /\ send_msg_htbl[fd] <= sends
       /\ \A i \in 1 .. Len(data_pipe) : send_msg_htbl[fd] < data_pipe[i].n
  /\ \A w \in 1 .. Len(wire) :
       /\ wire[w].n <= sends
       /\ \A i \in 1 .. Len(data_pipe) : wire[w].n < data_pipe[i].n
       /\ send_msg_htbl[wire[w].fd] # NoMsg => wire[w].n < send_msg_htbl[wire[w].fd]
  /\ OrderedOnce

\* What the types say of the three stages.
LEMMA StageFacts ==
  ASSUME TypeOK
  PROVE  /\ Len(data_pipe) \in Nat /\ Len(wire) \in Nat /\ sends \in Nat
         /\ \A i \in 1 .. Len(data_pipe) : data_pipe[i].fd \in Fds /\ data_pipe[i].n \in Nat
         /\ \A fd \in Fds : send_msg_htbl[fd] # NoMsg => send_msg_htbl[fd] \in Nat
         /\ \A w \in 1 .. Len(wire) : wire[w].fd \in Fds /\ wire[w].n \in Nat
<1> DEFINE W == [on : Sockets, fd : Fds, n : 1 .. MaxSends]
<1>1. data_pipe \in Seq(SendMsg) /\ wire \in Seq(W)
  BY DEF TypeOK
<1>2. /\ \A m \in SendMsg : m.fd \in Fds /\ m.n \in Nat
      /\ \A m \in W : m.fd \in Fds /\ m.n \in Nat
  BY ConstantsAssumption DEF SendMsg, Fds
<1>3. \A i \in 1 .. Len(data_pipe) : data_pipe[i] \in SendMsg
  BY <1>1, ElementOfSeq
<1> HIDE DEF W
<1>4. \A w \in 1 .. Len(wire) : wire[w] \in W
  BY <1>1, ElementOfSeq
<1>5. Len(data_pipe) \in Nat /\ Len(wire) \in Nat
  BY <1>1, LenProperties
<1>6. sends \in Nat /\ \A fd \in Fds : send_msg_htbl[fd] # NoMsg => send_msg_htbl[fd] \in Nat
  BY ConstantsAssumption DEF TypeOK
<1> QED BY <1>2, <1>3, <1>4, <1>5, <1>6

\* A step that touches none of the stages keeps their order.
LEMMA InOrderUnchanged ==
  InOrder /\ UNCHANGED <<data_pipe, send_msg_htbl, wire, sends>> => InOrder'
BY DEF InOrder, OrderedOnce

\* A message that is handed over is younger than all others.
LEMMA SendInOrder ==
  ASSUME Inv, InOrder, NEW fd \in Sockets, Send(fd)
  PROVE  InOrder'
<1> DEFINE m == [fd |-> fd, n |-> sends + 1]
           l == Len(data_pipe)
<1>1. /\ sends' = sends + 1 /\ data_pipe' = Append(data_pipe, m)
      /\ UNCHANGED <<send_msg_htbl, wire>>
  BY DEF Send, thrVars
<1>2. m.n = sends + 1
  OBVIOUS
<1>3. data_pipe \in Seq(SendMsg) /\ l \in Nat
  BY DEF Inv, TypeOK
<1> HIDE DEF m
<1>4. /\ Len(data_pipe') = l + 1
      /\ \A i \in 1 .. l : data_pipe'[i] = data_pipe[i]
      /\ data_pipe'[l + 1] = m
  BY <1>1, <1>3
<1>5. \A i \in 1 .. l + 1 : i = l + 1 \/ i \in 1 .. l
  BY <1>3
<1> HIDE DEF l
<1>6. /\ sends \in Nat
      /\ \A i \in 1 .. l : data_pipe[i].n \in Nat
      /\ \A k \in Fds : send_msg_htbl[k] # NoMsg => send_msg_htbl[k] \in Nat
      /\ \A w \in 1 .. Len(wire) : wire[w].fd \in Fds /\ wire[w].n \in Nat
  BY StageFacts DEF Inv, l
<1>7. \A i \in 1 .. l : data_pipe[i].n <= sends
  BY DEF InOrder, l
<1>8. \A i, j \in 1 .. l + 1 : i < j => data_pipe'[i].n < data_pipe'[j].n
  <2> SUFFICES ASSUME NEW i \in 1 .. l + 1, NEW j \in 1 .. l + 1, i < j
               PROVE  data_pipe'[i].n < data_pipe'[j].n
    OBVIOUS
  <2>1. i \in 1 .. l
    BY <1>3, <1>5 DEF l
  <2>2. CASE j = l + 1
    BY <2>1, <2>2, <1>2, <1>4, <1>6, <1>7
  <2>3. CASE j \in 1 .. l
    BY <2>1, <2>3, <1>4 DEF InOrder, l
  <2> QED BY <2>2, <2>3, <1>5
<1>9. \A i \in 1 .. l + 1 : data_pipe'[i].n <= sends'
  BY <1>1, <1>2, <1>4, <1>5, <1>6, <1>7
<1>10. \A k \in Fds : send_msg_htbl[k] # NoMsg =>
         /\ send_msg_htbl[k] <= sends'
         /\ \A i \in 1 .. l + 1 : send_msg_htbl[k] < data_pipe'[i].n
  <2> SUFFICES ASSUME NEW k \in Fds, send_msg_htbl[k] # NoMsg
               PROVE  /\ send_msg_htbl[k] <= sends'
                      /\ \A i \in 1 .. l + 1 : send_msg_htbl[k] < data_pipe'[i].n
    OBVIOUS
  <2>1. /\ send_msg_htbl[k] <= sends
        /\ \A i \in 1 .. l : send_msg_htbl[k] < data_pipe[i].n
    BY DEF InOrder, l
  <2> QED BY <2>1, <1>1, <1>2, <1>4, <1>5, <1>6
<1>11. \A w \in 1 .. Len(wire) :
         /\ wire[w].n <= sends'
         /\ \A i \in 1 .. l + 1 : wire[w].n < data_pipe'[i].n
  <2> SUFFICES ASSUME NEW w \in 1 .. Len(wire)
               PROVE  /\ wire[w].n <= sends'
                      /\ \A i \in 1 .. l + 1 : wire[w].n < data_pipe'[i].n
    OBVIOUS
  <2>1. /\ wire[w].n <= sends
        /\ \A i \in 1 .. l : wire[w].n < data_pipe[i].n
    BY DEF InOrder, l
  <2> QED BY <2>1, <1>1, <1>2, <1>4, <1>5, <1>6
<1> QED BY <1>1, <1>4, <1>8, <1>9, <1>10, <1>11 DEF InOrder, OrderedOnce

\* The callback stores the oldest message of the data pipe, and drops some.
LEMMA DataPipeInOrder ==
  ASSUME Inv, InOrder, DataPipe
  PROVE  InOrder'
<1> DEFINE msg == NextMessage
           l == Len(data_pipe)
           r == MsgsPerRead
<1>1. /\ data_pipe \in Seq(SendMsg) /\ data_pipe # <<>> /\ l \in Nat /\ l # 0
      /\ data_pipe' = SubSeq(data_pipe, r + 1, l)
      /\ send_msg_htbl' = [send_msg_htbl EXCEPT ![msg.fd] = msg.n]
      /\ UNCHANGED <<sends, wire>>
  BY DEF DataPipe, Inv, TypeOK
<1>2. r \in Nat /\ r >= 1
  BY ConstantsAssumption
<1>3. msg = data_pipe[1] /\ 1 \in 1 .. l
  BY <1>1, HeadTailProperties DEF NextMessage
<1> HIDE DEF msg
<1>4. /\ Len(data_pipe') = IF r + 1 <= l THEN l - r ELSE 0
      /\ \A i \in 1 .. Len(data_pipe') : data_pipe'[i] = data_pipe[i + r]
  <2>1. \A i \in r + 1 .. l : data_pipe[i] \in SendMsg
    BY <1>1, <1>2, ElementOfSeq
  <2> QED BY <1>1, <1>2, <2>1, SubSeqProperties
<1>5. \A i \in 1 .. Len(data_pipe') : i + r \in 1 .. l /\ i + r > 1
  BY <1>1, <1>2, <1>4
<1> HIDE DEF l, r
<1>6. /\ sends \in Nat /\ msg.fd \in Fds /\ msg.n \in Nat
      /\ \A i \in 1 .. l : data_pipe[i].n \in Nat
      /\ \A k \in Fds : send_msg_htbl[k] # NoMsg => send_msg_htbl[k] \in Nat
      /\ \A w \in 1 .. Len(wire) : wire[w].fd \in Fds /\ wire[w].n \in Nat
      /\ send_msg_htbl \in [Fds -> 1 .. MaxSends \cup {NoMsg}]
  BY <1>3, StageFacts DEF Inv, l, TypeOK
<1>7. /\ \A i, j \in 1 .. l : i < j => data_pipe[i].n < data_pipe[j].n
      /\ \A i \in 1 .. l : data_pipe[i].n <= sends
  BY DEF InOrder, l
<1>8. \A i \in 1 .. Len(data_pipe') : msg.n < data_pipe'[i].n
  BY <1>3, <1>4, <1>5, <1>7
<1>9. \A i, j \in 1 .. Len(data_pipe') : i < j => data_pipe'[i].n < data_pipe'[j].n
  <2> SUFFICES ASSUME NEW i \in 1 .. Len(data_pipe'), NEW j \in 1 .. Len(data_pipe'), i < j
               PROVE  data_pipe'[i].n < data_pipe'[j].n
    OBVIOUS
  <2>1. i + r < j + r
    BY <1>2 DEF r
  <2> QED BY <2>1, <1>4, <1>5, <1>7
<1>10. \A i \in 1 .. Len(data_pipe') : data_pipe'[i].n <= sends'
  BY <1>1, <1>4, <1>5, <1>7
<1>11. /\ send_msg_htbl'[msg.fd] = msg.n
       /\ \A k \in Fds : k # msg.fd => send_msg_htbl'[k] = send_msg_htbl[k]
  BY <1>1, <1>6
<1>12. \A k \in Fds : send_msg_htbl'[k] # NoMsg =>
         /\ send_msg_htbl'[k] <= sends'
         /\ \A i \in 1 .. Len(data_pipe') : send_msg_htbl'[k] < data_pipe'[i].n
  <2> SUFFICES ASSUME NEW k \in Fds, send_msg_htbl'[k] # NoMsg
               PROVE  /\ send_msg_htbl'[k] <= sends'
                      /\ \A i \in 1 .. Len(data_pipe') : send_msg_htbl'[k] < data_pipe'[i].n
    OBVIOUS
  <2>1. CASE k = msg.fd
    BY <2>1, <1>1, <1>3, <1>7, <1>8, <1>11
  <2>2. CASE k # msg.fd
    <3>1. /\ send_msg_htbl[k] <= sends
          /\ \A i \in 1 .. l : send_msg_htbl[k] < data_pipe[i].n
      BY <2>2, <1>11 DEF InOrder, l
    <3> QED BY <3>1, <2>2, <1>1, <1>4, <1>5, <1>11
  <2> QED BY <2>1, <2>2
<1>13. \A w \in 1 .. Len(wire) :
         /\ wire[w].n <= sends'
         /\ \A i \in 1 .. Len(data_pipe') : wire[w].n < data_pipe'[i].n
         /\ send_msg_htbl'[wire[w].fd] # NoMsg => wire[w].n < send_msg_htbl'[wire[w].fd]
  <2> SUFFICES ASSUME NEW w \in 1 .. Len(wire)
               PROVE  /\ wire[w].n <= sends'
                      /\ \A i \in 1 .. Len(data_pipe') : wire[w].n < data_pipe'[i].n
                      /\ send_msg_htbl'[wire[w].fd] # NoMsg =>
                           wire[w].n < send_msg_htbl'[wire[w].fd]
    OBVIOUS
  <2>1. /\ wire[w].n <= sends
        /\ \A i \in 1 .. l : wire[w].n < data_pipe[i].n
        /\ send_msg_htbl[wire[w].fd] # NoMsg => wire[w].n < send_msg_htbl[wire[w].fd]
    BY DEF InOrder, l
  <2>2. wire[w].n < msg.n
    BY <2>1, <1>3
  <2> QED BY <2>1, <2>2, <1>1, <1>4, <1>5, <1>6, <1>11
<1> QED BY <1>1, <1>9, <1>10, <1>12, <1>13 DEF InOrder, OrderedOnce

\* A message that leaves is younger than those of its socket that have left.
LEMMA PolloutInOrder ==
  ASSUME Inv, InOrder, Pollout
  PROVE  InOrder'
<1> DEFINE key == MessageKey
           l == Len(wire)
           W == [on : Sockets, fd : Fds, n : 1 .. MaxSends]
<1>1. key \in Fds /\ UNCHANGED <<data_pipe, sends>>
  BY CurFacts DEF Pollout, MessageKey
<1>2. /\ sends \in Nat /\ l \in Nat
      /\ \A i \in 1 .. Len(data_pipe) : data_pipe[i].n \in Nat
      /\ \A k \in Fds : send_msg_htbl[k] # NoMsg => send_msg_htbl[k] \in Nat
      /\ \A w \in 1 .. l : wire[w].fd \in Fds /\ wire[w].n \in Nat
      /\ send_msg_htbl \in [Fds -> 1 .. MaxSends \cup {NoMsg}]
      /\ wire \in Seq(W)
  BY StageFacts DEF Inv, TypeOK
<1>3. CASE send_msg_htbl[key] = NoMsg
  BY <1>1, <1>3, InOrderUnchanged DEF Pollout
<1>4. CASE send_msg_htbl[key] # NoMsg
  <2> DEFINE m == [on |-> CurEntry.fd, fd |-> key, n |-> send_msg_htbl[key]]
  <2>1. /\ send_msg_htbl' = [send_msg_htbl EXCEPT ![key] = NoMsg]
        /\ wire' = Append(wire, m) \/ wire' = wire
    BY <1>4 DEF Pollout
  <2>2. m.fd = key /\ m.n = send_msg_htbl[key]
    OBVIOUS
  <2>3. /\ send_msg_htbl'[key] = NoMsg
        /\ \A k \in Fds : k # key => send_msg_htbl'[k] = send_msg_htbl[k]
    BY <2>1, <1>1, <1>2
  <2> HIDE DEF key, m
  <2>4. \A k \in Fds : send_msg_htbl'[k] # NoMsg => send_msg_htbl'[k] = send_msg_htbl[k]
    BY <2>3
  <2>5. CASE wire' = wire
    BY <2>4, <2>5, <1>1, <1>2 DEF InOrder, OrderedOnce
  <2>6. CASE wire' = Append(wire, m)
    <3>1. /\ Len(wire') = l + 1 /\ wire'[l + 1] = m
          /\ \A w \in 1 .. l : wire'[w] = wire[w]
      BY <2>6, <1>2
    <3>2. \A w \in 1 .. l + 1 : w = l + 1 \/ w \in 1 .. l
      BY <1>2
    <3>3. /\ m.n <= sends
          /\ \A i \in 1 .. Len(data_pipe) : m.n < data_pipe[i].n
      BY <1>1, <1>4, <2>2 DEF InOrder
    <3>4. \A w \in 1 .. l : wire[w].fd = m.fd => wire[w].n < m.n
      BY <1>4, <2>2 DEF InOrder
    <3>5. \A w \in 1 .. l :
            /\ wire[w].n <= sends
            /\ \A i \in 1 .. Len(data_pipe) : wire[w].n < data_pipe[i].n
            /\ send_msg_htbl[wire[w].fd] # NoMsg => wire[w].n < send_msg_htbl[wire[w].fd]
      BY DEF InOrder
    <3> HIDE DEF l
    <3>6. \A w \in 1 .. l + 1 :
            /\ wire'[w].n <= sends
            /\ \A i \in 1 .. Len(data_pipe) : wire'[w].n < data_pipe[i].n
            /\ send_msg_htbl'[wire'[w].fd] # NoMsg => wire'[w].n < send_msg_htbl'[wire'[w].fd]
      <4> SUFFICES ASSUME NEW w \in 1 .. l + 1
                   PROVE  /\ wire'[w].n <= sends
                          /\ \A i \in 1 .. Len(data_pipe) : wire'[w].n < data_pipe[i].n
                          /\ send_msg_htbl'[wire'[w].fd] # NoMsg =>
                               wire'[w].n < send_msg_htbl'[wire'[w].fd]
        OBVIOUS
      <4>1. CASE w = l + 1
        BY <4>1, <3>1, <3>3, <2>2, <2>3
      <4>2. CASE w \in 1 .. l
        BY <4>2, <3>1, <3>5, <2>4, <1>2 DEF l
      <4> QED BY <4>1, <4>2, <3>2
    <3>7. OrderedOnce'
      <4> SUFFICES ASSUME NEW i \in 1 .. l + 1, NEW j \in 1 .. l + 1,
                          i < j, wire'[i].fd = wire'[j].fd
                   PROVE  wire'[i].n < wire'[j].n
        BY <3>1 DEF OrderedOnce
      <4>1. i \in 1 .. l
        BY <1>2 DEF l
      <4>2. CASE j = l + 1
        BY <4>1, <4>2, <3>1, <3>4
      <4>3. CASE j \in 1 .. l
        BY <4>1, <4>3, <3>1 DEF InOrder, OrderedOnce, l
      <4> QED BY <4>2, <4>3, <3>2
    <3> QED BY <3>1, <3>6, <3>7, <2>4, <1>1 DEF InOrder
  <2> QED BY <2>1, <2>5, <2>6
<1> QED BY <1>3, <1>4

\* Every step keeps the order.
LEMMA NextInOrder == Inv /\ InOrder /\ [Next]_vars => InOrder'
<1> SUFFICES ASSUME Inv, InOrder, [Next]_vars PROVE InOrder'
  OBVIOUS
<1>1. CASE Poll \/ PriPipe \/ Signal \/ Exit \/ PollinOnly
  BY <1>1, InOrderUnchanged DEF Poll, PriPipe, Signal, Exit, PollinOnly
<1>2. CASE SelfDestruct \/ PollError
  <2>1. /\ \A fd \in Fds : send_msg_htbl'[fd] = NoMsg
        /\ UNCHANGED <<data_pipe, wire, sends>>
    BY <1>2 DEF SelfDestruct, PollError, LeaveLoop
  <2>2. \A w \in 1 .. Len(wire) : wire[w].fd \in Fds
    BY StageFacts DEF Inv
  <2> QED BY <2>1, <2>2 DEF InOrder, OrderedOnce
<1>3. CASE DataPipe
  BY <1>3, DataPipeInOrder
<1>4. CASE Pollout
  BY <1>4, PolloutInOrder
<1>5. ASSUME NEW c \in Callers, Caller(c) PROVE InOrder'
  <2>1. UNCHANGED <<data_pipe, send_msg_htbl, wire, sends>>
    BY <1>5 DEF Caller, AddSocketCheck, AddSocketMaxOut, AddSocketRequest, AddPipe,
       AddPipeMaxOut, DeleteFd, SpuriousWakeup, ReturnAdd, ReturnDeletePipe, LoadCount,
       StoreCount, Free, ReturnFree, Join, vars, thrVars
  <2> QED BY <2>1, InOrderUnchanged
<1>6. ASSUME NEW fd \in Sockets, Send(fd) PROVE InOrder'
  BY <1>6, SendInOrder
<1>7. CASE UNCHANGED vars
  BY <1>7, InOrderUnchanged DEF vars
<1> QED BY <1>1, <1>2, <1>3, <1>4, <1>5, <1>6, <1>7 DEF Next, Thread

\* The messages for one socket leave in the order cc_of_send_pkt handed them
\* over and none leaves twice, also after the loss of messages in the data
\* pipe's callback and the deletion of descriptors.
THEOREM OrderedOnceHolds == Spec => []OrderedOnce
<1>1. Init => InOrder
  BY DEF Init, InOrder, OrderedOnce
<1>2. InOrder => OrderedOnce
  BY DEF InOrder
<1> QED BY <1>1, <1>2, NextInOrder, Invariance, PTL DEF Spec
-----------------------------------------------------------------------------
(* The handshake *)

\* NoLostWakeup counts the waiters, so they have to be finitely many: every
\* request adds one.
Covered == IsFiniteSet(Waiting) /\ NoLostWakeup

\* Outstanding as a function of what it depends on.
Due(l, t, n) == l + (IF t = "signal" THEN 1 ELSE 0)
                  + (IF n = 0 /\ t # "dead" THEN 1 ELSE 0)

\* Its values.
LEMMA DueValue ==
  ASSUME NEW l \in Nat, NEW t, NEW n
  PROVE  /\ t = "signal" /\ n = 0 => Due(l, t, n) = l + 2
         /\ t = "signal" /\ n # 0 => Due(l, t, n) = l + 1
         /\ t \notin {"signal", "dead"} /\ n = 0 => Due(l, t, n) = l + 1
         /\ t # "signal" /\ n # 0 => Due(l, t, n) = l
         /\ t = "dead" => Due(l, t, n) = l
         /\ Due(l, t, n) \in Nat
<1>1. t = "signal" /\ n = 0 => Due(l, t, n) = l + 2
  BY DEF Due
<1>2. t = "signal" /\ n # 0 => Due(l, t, n) = l + 1
  BY DEF Due
<1>3. t \notin {"signal", "dead"} /\ n = 0 => Due(l, t, n) = l + 1
  BY DEF Due
<1>4. t # "signal" /\ n # 0 => Due(l, t, n) = l
  BY DEF Due
<1>5. t = "dead" => Due(l, t, n) = l
  BY DEF Due
<1> QED BY <1>1, <1>2, <1>3, <1>4, <1>5

\* What is outstanding, before and after a step.
LEMMA OutstandingDue ==
  /\ Outstanding = Due(Len(pri_pipe), tpc, num_pollfds)
  /\ Outstanding' = Due(Len(pri_pipe'), tpc', num_pollfds')
BY DEF Outstanding, Due

\* What is outstanding is a number.
LEMMA OutstandingNat == TypeOK => Len(pri_pipe) \in Nat /\ Outstanding \in Nat
BY OutstandingDue, DueValue DEF TypeOK

\* A request is one more waiter, and one more signal to come.
LEMMA RequestCovered ==
  ASSUME Inv, Covered, NEW c \in Callers, NEW fd, NEW act, Request(c, fd, act),
         UNCHANGED <<tpc, num_pollfds>>
  PROVE  Covered'
<1> DEFINE r == [pc |-> "waiting", act |-> act, fd |-> fd, reg |-> 0]
           m == [fd |-> fd, act |-> act]
<1>1. /\ call' = [call EXCEPT ![c] = r] /\ pri_pipe' = Append(pri_pipe, m)
      /\ call \in [Callers -> Call] /\ pri_pipe \in Seq(ThrMsg)
  BY DEF Request, Inv, TypeOK
<1>2. r.pc = "waiting"
  OBVIOUS
<1> HIDE DEF r, m
<1>3. Waiting' = Waiting \cup {c}
  <2>1. \A d \in Callers : call'[d].pc = "waiting" <=> d = c \/ call[d].pc = "waiting"
    BY <1>1, <1>2
  <2> QED BY <2>1 DEF Waiting
<1>4. Len(pri_pipe') = Len(pri_pipe) + 1 /\ Len(pri_pipe) \in Nat
  BY <1>1
<1>5. /\ Outstanding' = Outstanding + 1 /\ Outstanding \in Nat
  BY <1>4, OutstandingDue, DueValue
<1>6. /\ IsFiniteSet(Waiting') /\ Cardinality(Waiting) \in Nat
      /\ Cardinality(Waiting') \in {Cardinality(Waiting), Cardinality(Waiting) + 1}
  BY <1>3, FS_AddElement, FS_CardinalityType DEF Covered
<1> QED BY <1>5, <1>6 DEF Covered, NoLostWakeup

\* A step after which fewer callers wait and no fewer signals are to come.
LEMMA FewerCovered ==
  ASSUME Inv, Covered, Waiting' \subseteq Waiting,
         Outstanding' \in Nat,
         tpc' \in {"poll", "sweep", "signal"} =>
           tpc \in {"poll", "sweep", "signal"} /\ Outstanding' >= Outstanding
  PROVE  Covered'
<1>1. /\ IsFiniteSet(Waiting') /\ Cardinality(Waiting') <= Cardinality(Waiting)
  BY FS_Subset DEF Covered
<1>2. Cardinality(Waiting) \in Nat /\ Cardinality(Waiting') \in Nat /\ Outstanding \in Nat
  BY <1>1, FS_CardinalityType, OutstandingNat DEF Covered, Inv
<1> QED BY <1>1, <1>2 DEF Covered, NoLostWakeup

\* g_cond_signal: a waiter less, if there is one.
LEMMA WakeSomeWaiting ==
  ASSUME Inv, IsFiniteSet(Waiting), WakeSome
  PROVE  /\ Waiting' \subseteq Waiting
         /\ IsFiniteSet(Waiting') /\ Cardinality(Waiting') \in Nat
         /\ Waiting = {} \/ Cardinality(Waiting') <= Cardinality(Waiting) - 1
<1>1. CASE Waiting = {} /\ UNCHANGED call
  <2>1. Waiting' = Waiting
    BY <1>1 DEF Waiting
  <2> QED BY <1>1, <2>1, FS_EmptySet, FS_CardinalityType
<1>2. ASSUME NEW W \in SUBSET Waiting, W # {},
             call' = [c \in Callers |-> IF c \in W
                                        THEN [call[c] EXCEPT !.pc = "woken"]
                                        ELSE call[c]]
      PROVE  /\ Waiting' \subseteq Waiting
             /\ IsFiniteSet(Waiting') /\ Cardinality(Waiting') \in Nat
             /\ Cardinality(Waiting') <= Cardinality(Waiting) - 1
  <2>1. PICK w \in W : TRUE
    BY <1>2
  <2>2. \A c \in Callers : call'[c].pc = "waiting" => c \notin W /\ call[c].pc = "waiting"
    <3> SUFFICES ASSUME NEW c \in Callers, call'[c].pc = "waiting"
                 PROVE  c \notin W /\ call[c].pc = "waiting"
      OBVIOUS
    <3>1. CASE c \in W
      <4>1. call[c] \in Call
        BY DEF Inv, TypeOK
      <4>2. [call[c] EXCEPT !.pc = "woken"].pc = "woken"
        BY <4>1 DEF Call
      <4> QED BY <1>2, <3>1, <4>2
    <3>2. CASE c \notin W
      BY <1>2, <3>2
    <3> QED BY <3>1, <3>2
  <2>3. Waiting' \subseteq Waiting \ {w} /\ w \in Waiting
    BY <2>1, <2>2 DEF Waiting
  <2>4. /\ IsFiniteSet(Waiting \ {w})
        /\ Cardinality(Waiting \ {w}) = Cardinality(Waiting) - 1
    BY <2>3, FS_RemoveElement
  <2>5. IsFiniteSet(Waiting') /\ Cardinality(Waiting') <= Cardinality(Waiting \ {w})
    BY <2>3, <2>4, FS_Subset
  <2> QED BY <2>3, <2>4, <2>5, FS_CardinalityType
<1> QED BY <1>1, <1>2 DEF WakeSome

\* Taking a request turns it into the signal that follows, or into the one at
\* the end of the thread.
LEMMA PriPipeCovered ==
  ASSUME Inv, Covered, PriPipe
  PROVE  Covered'
<1>1. /\ tpc = "sweep" /\ num_pollfds >= 2 /\ num_pollfds \in Nat
      /\ pri_pipe' = Tail(pri_pipe) /\ pri_pipe # <<>> /\ pri_pipe \in Seq(ThrMsg)
      /\ UNCHANGED call
  BY PriPipeServes DEF PriPipe, mgrVars, Inv, TypeOK, SlotFacts
<1>2. Len(pri_pipe') = Len(pri_pipe) - 1 /\ Len(pri_pipe) \in Nat /\ Len(pri_pipe') \in Nat
  BY <1>1
<1>3. Outstanding = Len(pri_pipe)
  BY <1>1, <1>2, OutstandingDue, DueValue
<1>4. Waiting' = Waiting
  BY <1>1 DEF Waiting
<1>5. Outstanding' \in Nat
  BY <1>2, OutstandingDue, DueValue
<1>6. \/ tpc' \in {"signal", "abort_add", "overflow"}
      \/ tpc' \in {"sweep", "poll"} /\ num_pollfds' = 0
  BY <1>1 DEF PriPipe, AddFd, RemoveFd, Advance
<1>7. tpc' \in {"poll", "sweep", "signal"} => Outstanding' >= Outstanding
  <2> DEFINE l == Len(pri_pipe')
             t == tpc'
             n == num_pollfds'
  <2>0. Outstanding' = Due(l, t, n)
    BY OutstandingDue
  <2>1. l \in Nat /\ Outstanding = l + 1
    BY <1>2, <1>3
  <2>2. t = "signal" \/ (t \in {"sweep", "poll"} /\ n = 0) \/ t \in {"abort_add", "overflow"}
    BY <1>6
  <2> HIDE DEF l, t, n
  <2>3. t = "signal" => Due(l, t, n) >= l + 1
    <3>1. CASE n = 0
      BY <2>1, <3>1, DueValue
    <3>2. CASE n # 0
      BY <2>1, <3>2, DueValue
    <3> QED BY <3>1, <3>2
  <2>4. t \in {"sweep", "poll"} /\ n = 0 => Due(l, t, n) = l + 1
    BY <2>1, DueValue
  <2>5. t \in {"poll", "sweep", "signal"} => Outstanding' >= Outstanding
    BY <2>0, <2>1, <2>2, <2>3, <2>4
  <2> QED BY <2>5 DEF t
<1> QED BY <1>1, <1>4, <1>5, <1>7, FewerCovered

\* Every step keeps the waiters covered.
LEMMA NextCovered == Inv /\ Covered /\ [Next]_vars => Covered'
<1> SUFFICES ASSUME Inv, Covered, [Next]_vars PROVE Covered'
  OBVIOUS
<1>0. Inv'
  BY NextInv
<1>a. Outstanding \in Nat /\ Outstanding' \in Nat /\ Len(pri_pipe) \in Nat
  <2>1. Len(pri_pipe') \in Nat
    BY <1>0 DEF Inv, TypeOK
  <2> QED BY <2>1, OutstandingDue, DueValue, OutstandingNat DEF Inv
<1>b. ASSUME UNCHANGED <<call, pri_pipe, num_pollfds>>, tpc \notin {"signal", "exit", "dead"},
             tpc' \notin {"signal", "exit", "dead"}, tpc \in {"poll", "sweep"}
      PROVE  Covered'
  <2>1. Waiting' = Waiting
    BY <1>b DEF Waiting
  <2>2. Outstanding' = Outstanding
    BY <1>b DEF Outstanding
  <2> QED BY <1>a, <1>b, <2>1, <2>2, FewerCovered
<1>c. ASSUME UNCHANGED <<pri_pipe, num_pollfds, tpc>>, Waiting' \subseteq Waiting
      PROVE  Covered'
  <2>1. Outstanding' = Outstanding
    BY <1>c DEF Outstanding
  <2> QED BY <1>a, <1>c, <2>1, FewerCovered
<1>d. ASSUME tpc' \in {"exit", "dead"}, Waiting' \subseteq Waiting PROVE Covered'
  BY <1>a, <1>d, FewerCovered
<1>1. CASE Poll \/ DataPipe \/ PollinOnly \/ Pollout
  <2>1. UNCHANGED <<call, pri_pipe, num_pollfds>>
    BY <1>1 DEF Poll, DataPipe, PollinOnly, Pollout, mgrVars
  <2>2. /\ tpc \in {"poll", "sweep"}
        /\ tpc' \in {"poll", "sweep", "abort_data", "abort_pollout"}
    BY <1>1 DEF Poll, DataPipe, PollinOnly, Pollout, Advance
  <2> QED BY <1>b, <2>1, <2>2
<1>2. CASE SelfDestruct \/ PollError
  <2>1. tpc' = "exit" /\ UNCHANGED call
    BY <1>2 DEF SelfDestruct, PollError, LeaveLoop, mgrVars
  <2> QED BY <1>d, <2>1 DEF Waiting
<1>3. CASE PriPipe
  BY <1>3, PriPipeCovered
<1>4. CASE Signal
  <2>1. /\ Waiting' \subseteq Waiting /\ IsFiniteSet(Waiting')
        /\ Cardinality(Waiting') \in Nat
        /\ Waiting = {} \/ Cardinality(Waiting') <= Cardinality(Waiting) - 1
    BY <1>4, WakeSomeWaiting DEF Signal, Covered
  <2>2. tpc = "signal" /\ tpc' \in {"sweep", "poll"} /\ UNCHANGED <<pri_pipe, num_pollfds>>
    BY <1>4 DEF Signal, Advance
  <2>3. Outstanding' = Outstanding - 1
    BY <1>a, <2>2, OutstandingDue, DueValue
  <2>4. Cardinality(Waiting) \in Nat /\ Cardinality(Waiting) <= Outstanding
    BY <2>2, FS_CardinalityType DEF Covered, NoLostWakeup
  <2>5. Cardinality(Waiting') <= Outstanding'
    <3>1. CASE Waiting = {}
      <4>1. Waiting' = {}
        BY <2>1, <3>1
      <4> QED BY <1>a, <4>1, FS_EmptySet
    <3>2. CASE Waiting # {}
      BY <1>a, <2>1, <2>3, <2>4, <3>2
    <3> QED BY <3>1, <3>2
  <2> QED BY <2>1, <2>5 DEF Covered, NoLostWakeup
<1>5. CASE Exit
  <2>1. Waiting' \subseteq Waiting
    BY <1>5, WakeSomeWaiting DEF Exit, Covered
  <2> QED BY <1>5, <1>d, <2>1 DEF Exit
<1>6. ASSUME NEW c \in Callers, Caller(c) PROVE Covered'
  <2>0. /\ UNCHANGED <<num_pollfds, tpc>>
        /\ call \in [Callers -> Call] /\ call[c] \in Call
    BY <1>6 DEF Caller, AddSocketCheck, AddSocketMaxOut, AddSocketRequest, AddPipe,
       AddPipeMaxOut, DeleteFd, SpuriousWakeup, ReturnAdd, ReturnDeletePipe, LoadCount,
       StoreCount, Free, ReturnFree, Join, vars, thrVars, Inv, TypeOK
  <2>1. ASSUME NEW fd, NEW act, Request(c, fd, act) PROVE Covered'
    BY <2>0, <2>1, RequestCovered
  <2>2. ASSUME UNCHANGED pri_pipe, \A d \in Callers : d # c => call'[d] = call[d],
               call'[c].pc # "waiting" \/ call' = call
        PROVE  Covered'
    <3>1. Waiting' \subseteq Waiting
      BY <2>2 DEF Waiting
    <3> QED BY <1>c, <2>0, <2>2, <3>1
  <2>3. CASE \/ AddSocketRequest(c) \/ Free(c)
             \/ \E fd \in Pipes : AddPipe(c, fd)
             \/ \E fd \in Deletable : DeleteFd(c, fd)
    BY <2>1, <2>3 DEF AddSocketRequest, Free, AddPipe, DeleteFd
  <2>4. CASE \/ \E fd \in Sockets : AddSocketMaxOut(c, fd)
             \/ \E fd \in Pipes : AddPipeMaxOut(c, fd)
    BY <2>2, <2>4 DEF AddSocketMaxOut, AddPipeMaxOut, vars
  <2>5. CASE \E fd \in Sockets : AddSocketCheck(c, fd)
    BY <2>0, <2>2, <2>5 DEF AddSocketCheck
  <2>6. CASE ReturnAdd(c) \/ ReturnDeletePipe(c) \/ StoreCount(c) \/ Join(c)
    <3>1. call' = [call EXCEPT ![c] = Idle] /\ UNCHANGED pri_pipe
      BY <2>6 DEF ReturnAdd, ReturnDeletePipe, StoreCount, Join
    <3>2. Idle.pc = "idle"
      BY DEF Idle
    <3> QED BY <2>0, <2>2, <3>1, <3>2
  <2>7. CASE SpuriousWakeup(c) \/ LoadCount(c) \/ ReturnFree(c)
    <3>1. /\ UNCHANGED pri_pipe /\ call'[c].pc \in {"woken", "loaded", "joining"}
          /\ \A d \in Callers : d # c => call'[d] = call[d]
      BY <2>0, <2>7 DEF SpuriousWakeup, LoadCount, ReturnFree, Call
    <3> QED BY <2>2, <3>1
  <2> QED BY <1>6, <2>3, <2>4, <2>5, <2>6, <2>7 DEF Caller
<1>7. CASE UNCHANGED vars \/ \E fd \in Sockets : Send(fd)
  <2>1. UNCHANGED <<pri_pipe, num_pollfds, tpc, call>>
    BY <1>7 DEF vars, Send, mgrVars, thrVars
  <2> QED BY <1>c, <2>1 DEF Waiting
<1> QED BY <1>1, <1>2, <1>3, <1>4, <1>5, <1>6, <1>7 DEF Next, Thread

\* Whoever waits for the thread's answer has a signal coming, although
\* g_cond_wait is called without a predicate, a signal may wake several
\* callers, and a caller may wake up by itself.
THEOREM NoLostWakeupHolds == Spec => []NoLostWakeup
<1>1. Init => Covered
  <2> SUFFICES ASSUME Init PROVE Covered
    OBVIOUS
  <2>1. Waiting = {}
    BY DEF Init, Waiting, Idle
  <2>2. Outstanding = 0
    BY DEF Init, Outstanding
  <2> QED BY <2>1, <2>2, FS_EmptySet DEF Covered, NoLostWakeup
<1>2. Covered => NoLostWakeup
  BY DEF Covered
<1> QED BY <1>1, <1>2, NextCovered, Invariance, PTL DEF Spec
-----------------------------------------------------------------------------
(* The queue of requests *)

\* The descriptors of a list of records, and how ADD_FD and DELETE_FD change
\* them.
FdsOf(list) == {list[i].fd : i \in DOMAIN list}

\* An appended record adds its descriptor.
LEMMA FdsOfAppend ==
  ASSUME NEW list \in Seq(Entry), NEW e \in Entry
  PROVE  FdsOf(Append(list, e)) = FdsOf(list) \cup {e.fd}
<1> DEFINE a == Append(list, e)
           n == Len(list)
<1>1. /\ n \in Nat /\ DOMAIN list = 1 .. n
      /\ DOMAIN a = 1 .. n + 1 /\ a[n + 1] = e
      /\ \A i \in 1 .. n : a[i] = list[i]
  OBVIOUS
<1> HIDE DEF a, n
<1>2. \A i \in 1 .. n + 1 : i = n + 1 \/ i \in 1 .. n
  BY <1>1
<1>3. n + 1 \in 1 .. n + 1 /\ \A i \in 1 .. n : i \in 1 .. n + 1
  BY <1>1
<1> QED BY <1>1, <1>2, <1>3 DEF FdsOf, a

\* Deleting a record of a list without duplicates deletes its descriptor.
LEMMA FdsOfRemoveAt ==
  ASSUME NEW list \in Seq(Entry), NEW k \in 1 .. Len(list),
         \A i, j \in 1 .. Len(list) : list[i].fd = list[j].fd => i = j
  PROVE  FdsOf(RemoveAt(list, k)) = FdsOf(list) \ {list[k].fd}
<1> DEFINE r == RemoveAt(list, k)
           n == Len(list)
<1>1. /\ r \in Seq(Entry) /\ Len(r) = n - 1
      /\ \A j \in 1 .. n - 1 : r[j] = IF j < k THEN list[j] ELSE list[j + 1]
  BY RemoveAtElements
<1>2. n \in Nat /\ DOMAIN list = 1 .. n /\ DOMAIN r = 1 .. n - 1
  <2>1. DOMAIN r = 1 .. Len(r)
    BY <1>1
  <2> QED BY <1>1, <2>1
<1> HIDE DEF r
<1>3. ASSUME NEW j \in 1 .. n - 1 PROVE r[j].fd \in FdsOf(list) \ {list[k].fd}
  <2>1. CASE j < k
    <3>1. j \in 1 .. n /\ r[j] = list[j] /\ j # k
      BY <1>1, <1>2, <2>1
    <3> QED BY <1>2, <3>1 DEF FdsOf
  <2>2. CASE ~(j < k)
    <3>1. j + 1 \in 1 .. n /\ r[j] = list[j + 1] /\ j + 1 # k
      BY <1>1, <1>2, <2>2
    <3> QED BY <1>2, <3>1 DEF FdsOf
  <2> QED BY <2>1, <2>2
<1>4. ASSUME NEW i \in 1 .. n, i # k PROVE \E j \in 1 .. n - 1 : r[j] = list[i]
  <2>1. CASE i < k
    BY <1>1, <1>2, <2>1
  <2>2. CASE ~(i < k)
    <3>1. i - 1 \in 1 .. n - 1 /\ ~(i - 1 < k) /\ (i - 1) + 1 = i
      BY <1>2, <1>4, <2>2
    <3> QED BY <1>1, <3>1
  <2> QED BY <2>1, <2>2
<1>5. FdsOf(r) \subseteq FdsOf(list) \ {list[k].fd}
  BY <1>2, <1>3 DEF FdsOf
<1>6. FdsOf(list) \ {list[k].fd} \subseteq FdsOf(r)
  <2> SUFFICES ASSUME NEW x \in FdsOf(list), x # list[k].fd PROVE x \in FdsOf(r)
    OBVIOUS
  <2>1. PICK i \in 1 .. n : x = list[i].fd
    BY <1>2 DEF FdsOf
  <2>2. PICK j \in 1 .. n - 1 : r[j] = list[i]
    BY <1>4, <2>1
  <2> QED BY <1>2, <2>1, <2>2 DEF FdsOf
<1> QED BY <1>5, <1>6 DEF r

\* The descriptors the callers work with.
AppFds == Sockets \cup Pipes

\* The descriptors that will be polled when every queued request is handled:
\* an ADD that was written counts, a DELETE that was written does not.
Wanted == owned \cup {call[c].fd : c \in {d \in Callers :
                        call[d].pc \in {"waiting", "woken"} /\ call[d].act = "ADD"}}

\* The requests of q for one descriptor alternate.  The first of them fits what
\* is polled now, the last one what is wanted later, and without a request
\* the descriptor is polled if it is wanted.
Alternates(q, now, later) ==
  \A fd \in AppFds :
    /\ \A i, j \in 1 .. Len(q) :
         (/\ i < j /\ q[i].fd = fd /\ q[j].fd = fd
          /\ \A k \in i + 1 .. j - 1 : q[k].fd # fd)
         => q[i].act # q[j].act
    /\ \A i \in 1 .. Len(q) :
         q[i].fd = fd /\ (\A k \in 1 .. i - 1 : q[k].fd # fd)
         => (q[i].act = "ADD" <=> fd \notin now)
    /\ \A i \in 1 .. Len(q) :
         q[i].fd = fd /\ (\A k \in i + 1 .. Len(q) : q[k].fd # fd)
         => (q[i].act = "ADD" <=> fd \in later)
    /\ (\A i \in 1 .. Len(q) : q[i].fd # fd) => (fd \in now <=> fd \in later)

\* A request that changes what is wanted joins the queue.
LEMMA AlternatesAppend ==
  ASSUME NEW q \in Seq(ThrMsg), NEW m \in ThrMsg, NEW now, NEW later, NEW then,
         Alternates(q, now, later),
         m.fd \in AppFds => (m.act = "ADD" <=> m.fd \notin later),
         \A fd \in AppFds : fd \in then <=> IF fd = m.fd THEN m.act = "ADD" ELSE fd \in later
  PROVE  Alternates(Append(q, m), now, then)
<1> DEFINE a == Append(q, m)
           n == Len(q)
<1>1. /\ n \in Nat /\ Len(a) = n + 1 /\ a[n + 1] = m
      /\ \A i \in 1 .. n : a[i] = q[i]
  OBVIOUS
<1> HIDE DEF a
<1>2. \A i \in 1 .. n + 1 : i = n + 1 \/ i \in 1 .. n
  BY <1>1
<1>3. \A i \in 1 .. n : q[i] \in ThrMsg
  OBVIOUS
<1>4. \A x \in ThrMsg : x.act \in {"ADD", "DELETE"}
  BY DEF ThrMsg
<1> SUFFICES ASSUME NEW fd \in AppFds
             PROVE  /\ \A i, j \in 1 .. n + 1 :
                         (/\ i < j /\ a[i].fd = fd /\ a[j].fd = fd
                          /\ \A k \in i + 1 .. j - 1 : a[k].fd # fd)
                         => a[i].act # a[j].act
                    /\ \A i \in 1 .. n + 1 :
                         a[i].fd = fd /\ (\A k \in 1 .. i - 1 : a[k].fd # fd)
                         => (a[i].act = "ADD" <=> fd \notin now)
                    /\ \A i \in 1 .. n + 1 :
                         a[i].fd = fd /\ (\A k \in i + 1 .. n + 1 : a[k].fd # fd)
                         => (a[i].act = "ADD" <=> fd \in then)
                    /\ (\A i \in 1 .. n + 1 : a[i].fd # fd) => (fd \in now <=> fd \in then)
  BY <1>1, SMTT(30) DEF Alternates, a
<1>5. /\ \A i, j \in 1 .. n :
           (/\ i < j /\ q[i].fd = fd /\ q[j].fd = fd
            /\ \A k \in i + 1 .. j - 1 : q[k].fd # fd)
           => q[i].act # q[j].act
      /\ \A i \in 1 .. n :
           q[i].fd = fd /\ (\A k \in 1 .. i - 1 : q[k].fd # fd)
           => (q[i].act = "ADD" <=> fd \notin now)
      /\ \A i \in 1 .. n :
           q[i].fd = fd /\ (\A k \in i + 1 .. n : q[k].fd # fd)
           => (q[i].act = "ADD" <=> fd \in later)
      /\ (\A i \in 1 .. n : q[i].fd # fd) => (fd \in now <=> fd \in later)
  BY DEF Alternates
<1>6. fd \in then <=> IF fd = m.fd THEN m.act = "ADD" ELSE fd \in later
  OBVIOUS
<1>7. fd = m.fd => (m.act = "ADD" <=> fd \notin later)
  OBVIOUS
<1> HIDE DEF n
<1>8. ASSUME NEW i \in 1 .. n + 1, NEW j \in 1 .. n + 1, i < j, a[i].fd = fd, a[j].fd = fd,
             \A k \in i + 1 .. j - 1 : a[k].fd # fd
      PROVE  a[i].act # a[j].act
  <2>1. i \in 1 .. n
    BY <1>1, <1>8
  <2>2. CASE j \in 1 .. n
    <3>1. \A k \in i + 1 .. j - 1 : q[k].fd # fd
      BY <1>1, <1>8, <2>1, <2>2
    <3> QED BY <1>1, <1>5, <1>8, <2>1, <2>2, <3>1
  <2>3. CASE j = n + 1
    <3>1. \A k \in i + 1 .. n : q[k].fd # fd
      BY <1>1, <1>8, <2>1, <2>3
    <3>2. q[i].act = "ADD" <=> fd \in later
      BY <1>1, <1>5, <1>8, <2>1, <3>1
    <3>3. m.act = "ADD" <=> fd \notin later
      BY <1>1, <1>7, <1>8, <2>3
    <3> QED BY <1>1, <2>1, <2>3, <3>2, <3>3
  <2> QED BY <1>2, <2>2, <2>3
<1>9. ASSUME NEW i \in 1 .. n + 1, a[i].fd = fd, \A k \in 1 .. i - 1 : a[k].fd # fd
      PROVE  a[i].act = "ADD" <=> fd \notin now
  <2>1. CASE i \in 1 .. n
    <3>1. \A k \in 1 .. i - 1 : q[k].fd # fd
      BY <1>1, <1>9, <2>1
    <3> QED BY <1>1, <1>5, <1>9, <2>1, <3>1
  <2>2. CASE i = n + 1
    <3>1. \A k \in 1 .. n : q[k].fd # fd
      BY <1>1, <1>9, <2>2
    <3>2. fd \in now <=> fd \in later
      BY <1>5, <3>1
    <3>3. m.act = "ADD" <=> fd \notin later
      BY <1>1, <1>7, <1>9, <2>2
    <3> QED BY <1>1, <2>2, <3>2, <3>3
  <2> QED BY <1>2, <2>1, <2>2
<1>10. ASSUME NEW i \in 1 .. n + 1, a[i].fd = fd, \A k \in i + 1 .. n + 1 : a[k].fd # fd
       PROVE  a[i].act = "ADD" <=> fd \in then
  <2>1. CASE i \in 1 .. n
    <3>0. n + 1 \in i + 1 .. n + 1
      BY <1>1, <2>1
    <3>1. m.fd # fd /\ \A k \in i + 1 .. n : q[k].fd # fd
      BY <1>1, <1>10, <2>1, <3>0
    <3>2. q[i].act = "ADD" <=> fd \in later
      BY <1>1, <1>5, <1>10, <2>1, <3>1
    <3> QED BY <1>1, <1>6, <2>1, <3>1, <3>2
  <2>2. CASE i = n + 1
    BY <1>1, <1>6, <1>10, <2>2
  <2> QED BY <1>2, <2>1, <2>2
<1>11. ASSUME \A i \in 1 .. n + 1 : a[i].fd # fd
       PROVE  fd \in now <=> fd \in then
  <2>1. n + 1 \in 1 .. n + 1 /\ \A i \in 1 .. n : i \in 1 .. n + 1
    BY <1>1
  <2>2. m.fd # fd /\ \A i \in 1 .. n : q[i].fd # fd
    BY <1>1, <1>11, <2>1
  <2> QED BY <1>5, <1>6, <2>2
<1> QED BY <1>8, <1>9, <1>10, <1>11

\* The oldest request leaves the queue and is carried out.
LEMMA AlternatesTail ==
  ASSUME NEW q \in Seq(ThrMsg), q # <<>>, NEW now, NEW next, NEW later,
         Alternates(q, now, later),
         \A fd \in AppFds : fd \in next <=> IF fd = Head(q).fd THEN Head(q).act = "ADD"
                                                               ELSE fd \in now
  PROVE  Alternates(Tail(q), next, later)
<1> DEFINE t == Tail(q)
           n == Len(q)
           h == Head(q)
<1>1. /\ n \in Nat /\ n >= 1 /\ Len(t) = n - 1 /\ h = q[1] /\ 1 \in 1 .. n
      /\ \A i \in 1 .. n - 1 : t[i] = q[i + 1] /\ i + 1 \in 1 .. n
  <2>1. n \in Nat /\ n # 0
    OBVIOUS
  <2>2. Len(t) = n - 1 /\ h = q[1] /\ \A i \in 1 .. Len(t) : t[i] = q[i + 1]
    BY HeadTailProperties
  <2> QED BY <2>1, <2>2
<1>2. \A i \in 1 .. n : q[i].act \in {"ADD", "DELETE"}
  <2>1. \A i \in 1 .. n : q[i] \in ThrMsg
    OBVIOUS
  <2> QED BY <2>1 DEF ThrMsg
<1> SUFFICES Alternates(t, next, later)
  OBVIOUS
<1> HIDE DEF t
<1> SUFFICES ASSUME NEW fd \in AppFds
             PROVE  /\ \A i, j \in 1 .. n - 1 :
                         (/\ i < j /\ t[i].fd = fd /\ t[j].fd = fd
                          /\ \A k \in i + 1 .. j - 1 : t[k].fd # fd)
                         => t[i].act # t[j].act
                    /\ \A i \in 1 .. n - 1 :
                         t[i].fd = fd /\ (\A k \in 1 .. i - 1 : t[k].fd # fd)
                         => (t[i].act = "ADD" <=> fd \notin next)
                    /\ \A i \in 1 .. n - 1 :
                         t[i].fd = fd /\ (\A k \in i + 1 .. n - 1 : t[k].fd # fd)
                         => (t[i].act = "ADD" <=> fd \in later)
                    /\ (\A i \in 1 .. n - 1 : t[i].fd # fd) => (fd \in next <=> fd \in later)
  BY <1>1 DEF Alternates
<1>3. /\ \A i, j \in 1 .. n :
           (/\ i < j /\ q[i].fd = fd /\ q[j].fd = fd
            /\ \A k \in i + 1 .. j - 1 : q[k].fd # fd)
           => q[i].act # q[j].act
      /\ \A i \in 1 .. n :
           q[i].fd = fd /\ (\A k \in 1 .. i - 1 : q[k].fd # fd)
           => (q[i].act = "ADD" <=> fd \notin now)
      /\ \A i \in 1 .. n :
           q[i].fd = fd /\ (\A k \in i + 1 .. n : q[k].fd # fd)
           => (q[i].act = "ADD" <=> fd \in later)
      /\ (\A i \in 1 .. n : q[i].fd # fd) => (fd \in now <=> fd \in later)
  BY DEF Alternates
<1>4. fd \in next <=> IF fd = h.fd THEN h.act = "ADD" ELSE fd \in now
  OBVIOUS
<1> HIDE DEF n, h
<1>5. \A k \in 2 .. n : k - 1 \in 1 .. n - 1 /\ t[k - 1] = q[k]
  <2> TAKE k \in 2 .. n
  <2>1. k - 1 \in 1 .. n - 1 /\ (k - 1) + 1 = k
    BY <1>1
  <2> QED BY <1>1, <2>1
<1>6. ASSUME NEW i \in 1 .. n - 1, NEW j \in 1 .. n - 1, i < j, t[i].fd = fd, t[j].fd = fd,
             \A k \in i + 1 .. j - 1 : t[k].fd # fd
      PROVE  t[i].act # t[j].act
  <2>1. i + 1 \in 1 .. n /\ j + 1 \in 1 .. n /\ i + 1 < j + 1
    BY <1>1, <1>6
  <2>2. \A k \in (i + 1) + 1 .. (j + 1) - 1 : q[k].fd # fd
    <3> TAKE k \in (i + 1) + 1 .. (j + 1) - 1
    <3>1. k \in 2 .. n /\ k - 1 \in i + 1 .. j - 1
      BY <1>1, <1>6
    <3> QED BY <1>5, <1>6, <3>1
  <2>3. t[i] = q[i + 1] /\ t[j] = q[j + 1]
    BY <1>1
  <2> QED BY <1>3, <1>6, <2>1, <2>2, <2>3
<1>7. ASSUME NEW i \in 1 .. n - 1, t[i].fd = fd, \A k \in 1 .. i - 1 : t[k].fd # fd
      PROVE  t[i].act = "ADD" <=> fd \notin next
  <2>1. i + 1 \in 1 .. n /\ t[i] = q[i + 1] /\ 1 < i + 1
    BY <1>1
  <2>2. \A k \in 1 + 1 .. (i + 1) - 1 : q[k].fd # fd
    <3> TAKE k \in 1 + 1 .. (i + 1) - 1
    <3>1. k \in 2 .. n /\ k - 1 \in 1 .. i - 1
      BY <1>1
    <3> QED BY <1>5, <1>7, <3>1
  <2>3. CASE h.fd = fd
    <3>1. q[1].act # q[i + 1].act
      BY <1>1, <1>3, <1>7, <2>1, <2>2, <2>3
    <3> QED BY <1>1, <1>2, <1>4, <2>1, <2>3, <3>1
  <2>4. CASE h.fd # fd
    <3>1. \A k \in 1 .. (i + 1) - 1 : q[k].fd # fd
      <4> TAKE k \in 1 .. (i + 1) - 1
      <4>1. k = 1 \/ k \in 1 + 1 .. (i + 1) - 1
        BY <1>1
      <4> QED BY <1>1, <2>2, <2>4, <4>1
    <3> QED BY <1>3, <1>4, <1>7, <2>1, <2>4, <3>1
  <2> QED BY <2>3, <2>4
<1>8. ASSUME NEW i \in 1 .. n - 1, t[i].fd = fd, \A k \in i + 1 .. n - 1 : t[k].fd # fd
      PROVE  t[i].act = "ADD" <=> fd \in later
  <2>1. i + 1 \in 1 .. n /\ t[i] = q[i + 1]
    BY <1>1
  <2>2. \A k \in (i + 1) + 1 .. n : q[k].fd # fd
    <3> TAKE k \in (i + 1) + 1 .. n
    <3>1. k \in 2 .. n /\ k - 1 \in i + 1 .. n - 1
      BY <1>1
    <3> QED BY <1>5, <1>8, <3>1
  <2> QED BY <1>3, <1>8, <2>1, <2>2
<1>9. ASSUME \A i \in 1 .. n - 1 : t[i].fd # fd
      PROVE  fd \in next <=> fd \in later
  <2>1. \A k \in 2 .. n : q[k].fd # fd
    BY <1>5, <1>9
  <2>2. CASE h.fd = fd
    <3>1. \A k \in 1 + 1 .. n : q[k].fd # fd
      BY <2>1
    <3>2. q[1].act = "ADD" <=> fd \in later
      BY <1>1, <1>3, <2>2, <3>1
    <3> QED BY <1>1, <1>4, <2>2, <3>2
  <2>3. CASE h.fd # fd
    <3>1. \A k \in 1 .. n : q[k].fd # fd
      <4> TAKE k \in 1 .. n
      <4>1. k = 1 \/ k \in 2 .. n
        BY <1>1
      <4> QED BY <1>1, <2>1, <2>3, <4>1
    <3> QED BY <1>3, <1>4, <2>3, <3>1
  <2> QED BY <2>2, <2>3
<1> QED BY <1>6, <1>7, <1>8, <1>9

\* What a call in progress may be about.
CallFits(r) ==
  /\ r.fd \in AppFds \/ (r.fd = PriFd /\ r.act = "DELETE")
  /\ r.pc = "checked" => r.act = "ADD" /\ r.fd \in Sockets
  /\ r.pc = "loaded" => r.act = "DELETE" /\ r.fd \in Sockets
  /\ r.pc = "joining" => r.act = "DELETE" /\ r.fd = PriFd

\* At any time at most one caller is concerned with a descriptor.
OneUser ==
  /\ owned \subseteq AppFds
  /\ \A c \in Callers : Busy(c) => call[c].fd \notin owned /\ CallFits(call[c])
  /\ \A c, d \in Callers : Busy(c) /\ Busy(d) /\ call[c].fd = call[d].fd => c = d
  /\ \A i \in 1 .. Len(pri_pipe) : pri_pipe[i].act = "ADD" => pri_pipe[i].fd \in AppFds

\* The thread still handles requests.
Running == tpc \in {"poll", "sweep", "signal"}

\* NoDuplicateAdd needs the whole queue: a descriptor can be deleted, given
\* out again and added while the thread has not yet seen the first request.
QueueInv ==
  /\ OneUser
  /\ Running => Alternates(pri_pipe, Polled, Wanted)
  /\ NoDuplicateAdd

\* The call of c wants its descriptor polled.
Wants(r) == r.pc \in {"waiting", "woken"} /\ r.act = "ADD"

\* A step in the call of one caller keeps the descriptors apart.
LEMMA OneUserStep ==
  ASSUME Inv, OneUser, NEW c \in Callers, NEW r \in Call, call' = [call EXCEPT ![c] = r],
         owned' \subseteq AppFds,
         r.pc # "idle" => /\ CallFits(r) /\ r.fd \notin owned'
                          /\ \A d \in Callers : d # c /\ Busy(d) => call[d].fd # r.fd,
         \A d \in Callers : d # c /\ Busy(d) => call[d].fd \notin owned',
         \A i \in 1 .. Len(pri_pipe') : pri_pipe'[i].act = "ADD" => pri_pipe'[i].fd \in AppFds
  PROVE  OneUser'
<1>1. call \in [Callers -> Call]
  BY DEF Inv, TypeOK
<1>2. call'[c] = r /\ \A d \in Callers : d # c => call'[d] = call[d]
  BY <1>1
<1>3. /\ Busy(c)' <=> r.pc # "idle"
      /\ \A d \in Callers : d # c => (Busy(d)' <=> Busy(d))
  BY <1>2 DEF Busy
<1>4. ASSUME NEW d \in Callers, Busy(d)' PROVE call'[d].fd \notin owned' /\ CallFits(call'[d])
  <2>1. CASE d = c
    BY <1>2, <1>3, <1>4, <2>1
  <2>2. CASE d # c
    BY <1>2, <1>3, <1>4, <2>2 DEF OneUser
  <2> QED BY <2>1, <2>2
<1>5. ASSUME NEW d \in Callers, NEW e \in Callers, Busy(d)', Busy(e)', call'[d].fd = call'[e].fd
      PROVE  d = e
  <2>1. CASE d # c /\ e # c
    BY <1>2, <1>3, <1>5, <2>1 DEF OneUser
  <2>2. CASE d = c /\ e # c
    BY <1>2, <1>3, <1>5, <2>2
  <2>3. CASE d # c /\ e = c
    BY <1>2, <1>3, <1>5, <2>3
  <2> QED BY <2>1, <2>2, <2>3
<1>6. \A d \in Callers : Busy(d)' => call'[d].fd \notin owned' /\ CallFits(call'[d])
  BY <1>4
<1>7. \A d, e \in Callers : Busy(d)' /\ Busy(e)' /\ call'[d].fd = call'[e].fd => d = e
  BY <1>5
<1> QED BY <1>6, <1>7 DEF OneUser, CallFits

\* What is wanted, with the call of c apart.
WantedBut(c) == {call[d].fd : d \in {e \in Callers : e # c /\ Wants(call[e])}}

\* What is wanted after a step in which one call changes.
LEMMA WantedStep ==
  ASSUME Inv, NEW c \in Callers, NEW r, call' = [call EXCEPT ![c] = r]
  PROVE  \A fd : /\ fd \in Wanted <=>
                      fd \in owned \/ fd \in WantedBut(c) \/ (Wants(call[c]) /\ fd = call[c].fd)
                 /\ fd \in Wanted' <=>
                      fd \in owned' \/ fd \in WantedBut(c) \/ (Wants(r) /\ fd = r.fd)
<1>1. call \in [Callers -> Call]
  BY DEF Inv, TypeOK
<1>2. call'[c] = r /\ \A d \in Callers : d # c => call'[d] = call[d]
  BY <1>1
<1> SUFFICES ASSUME NEW fd
             PROVE  /\ fd \in Wanted <=> \/ fd \in owned \/ fd \in WantedBut(c)
                                         \/ Wants(call[c]) /\ fd = call[c].fd
                    /\ fd \in Wanted' <=>
                      fd \in owned' \/ fd \in WantedBut(c) \/ (Wants(r) /\ fd = r.fd)
  OBVIOUS
<1>3. fd \in Wanted <=> fd \in owned \/ \E d \in Callers : Wants(call[d]) /\ fd = call[d].fd
  BY DEF Wanted, Wants
<1>4. fd \in Wanted' <=> fd \in owned' \/ \E d \in Callers : Wants(call'[d]) /\ fd = call'[d].fd
  BY DEF Wanted, Wants
<1>5. fd \in WantedBut(c) <=> \E d \in Callers : d # c /\ Wants(call[d]) /\ fd = call[d].fd
  BY DEF WantedBut
<1> QED BY <1>2, <1>3, <1>4, <1>5

\* A caller's step that writes no request and changes no wish.
LEMMA QuietStep ==
  ASSUME Inv, QueueInv, NEW c \in Callers, NEW r \in Call, call' = [call EXCEPT ![c] = r],
         UNCHANGED <<pri_pipe, fd_list, tpc>>,
         owned' \subseteq AppFds,
         r.pc # "idle" => /\ CallFits(r) /\ r.fd \notin owned'
                          /\ \A d \in Callers : d # c /\ Busy(d) => call[d].fd # r.fd,
         \A d \in Callers : d # c /\ Busy(d) => call[d].fd \notin owned',
         \A fd : fd \in owned' \/ (Wants(r) /\ fd = r.fd)
                   <=> fd \in owned \/ (Wants(call[c]) /\ fd = call[c].fd)
  PROVE  QueueInv'
<1>1. OneUser'
  BY OneUserStep DEF QueueInv, OneUser
<1>2. Wanted' = Wanted
  <2>1. \A fd : fd \in Wanted' <=> fd \in Wanted
    BY WantedStep
  <2> QED BY <2>1
<1>3. Polled' = Polled
  BY DEF Polled
<1> QED BY <1>1, <1>2, <1>3 DEF QueueInv, Running, NoDuplicateAdd

\* A caller's step that writes a request changes the wish for its descriptor.
LEMMA RequestWanted ==
  ASSUME Inv, NEW c \in Callers, NEW fd, NEW act, Request(c, fd, act),
         ~Wants(call[c]),
         \A d \in Callers : d # c /\ Busy(d) => call[d].fd # fd,
         \A x : x # fd => (x \in owned' <=> x \in owned)
  PROVE  /\ fd \in Wanted <=> fd \in owned
         /\ fd \in Wanted' <=> fd \in owned' \/ act = "ADD"
         /\ \A x : x # fd => (x \in Wanted' <=> x \in Wanted)
<1> DEFINE r == [pc |-> "waiting", act |-> act, fd |-> fd, reg |-> 0]
<1>1. call' = [call EXCEPT ![c] = r]
  BY DEF Request
<1>2. r.fd = fd /\ (Wants(r) <=> act = "ADD")
  BY DEF Wants
<1> HIDE DEF r
<1>3. \A d \in Callers : d # c /\ Wants(call[d]) => call[d].fd # fd
  BY DEF Wants, Busy
<1>4. fd \notin WantedBut(c)
  BY <1>3 DEF WantedBut
<1>5. \A x : /\ x \in Wanted <=> x \in owned \/ x \in WantedBut(c)
             /\ x \in Wanted' <=> x \in owned' \/ x \in WantedBut(c) \/ (Wants(r) /\ x = fd)
  BY <1>1, <1>2, WantedStep
<1> QED BY <1>2, <1>4, <1>5

\* A caller's step that writes a request.
LEMMA RequestStep ==
  ASSUME Inv, QueueInv, NEW c \in Callers, NEW fd \in Fds, NEW act \in {"ADD", "DELETE"},
         Request(c, fd, act), UNCHANGED <<fd_list, tpc>>,
         owned' \subseteq AppFds, fd \notin owned',
         fd \in AppFds \/ (fd = PriFd /\ act = "DELETE"),
         \A d \in Callers : d # c /\ Busy(d) => call[d].fd # fd /\ call[d].fd \notin owned',
         ~Wants(call[c]),
         fd \in AppFds => (act = "ADD" <=> fd \notin owned),
         \A x : x # fd => (x \in owned' <=> x \in owned)
  PROVE  QueueInv'
<1> DEFINE r == [pc |-> "waiting", act |-> act, fd |-> fd, reg |-> 0]
           m == [fd |-> fd, act |-> act]
<1>1. /\ call' = [call EXCEPT ![c] = r] /\ pri_pipe' = Append(pri_pipe, m)
      /\ call \in [Callers -> Call] /\ pri_pipe \in Seq(ThrMsg)
  BY DEF Request, Inv, TypeOK
<1>2. /\ r.pc = "waiting" /\ r.fd = fd /\ r.act = act /\ r \in Call
      /\ m.fd = fd /\ m.act = act /\ m \in ThrMsg
  BY ConstantsAssumption DEF Call, ThrMsg
<1> HIDE DEF r, m
<1>3. \A i \in 1 .. Len(pri_pipe') : pri_pipe'[i].act = "ADD" => pri_pipe'[i].fd \in AppFds
  <2>1. \A i \in 1 .. Len(pri_pipe') : pri_pipe'[i] = m \/ \E j \in 1 .. Len(pri_pipe) : pri_pipe'[i] = pri_pipe[j]
    BY <1>1
  <2> QED BY <1>2, <2>1 DEF QueueInv, OneUser
<1>4. OneUser'
  <2>1. CallFits(r)
    BY <1>2 DEF CallFits
  <2> QED BY <1>1, <1>2, <1>3, <2>1, OneUserStep DEF QueueInv
<1>5. /\ fd \in Wanted <=> fd \in owned
      /\ fd \in Wanted' <=> act = "ADD"
      /\ \A x : x # fd => (x \in Wanted' <=> x \in Wanted)
  BY RequestWanted
<1>6. \A x \in AppFds : x \in Wanted' <=> IF x = m.fd THEN m.act = "ADD" ELSE x \in Wanted
  BY <1>2, <1>5
<1>7. m.fd \in AppFds => (m.act = "ADD" <=> m.fd \notin Wanted)
  BY <1>2, <1>5
<1>8. Running' => Alternates(pri_pipe', Polled', Wanted')
  <2>1. Polled' = Polled /\ (Running' <=> Running)
    BY DEF Polled, Running
  <2> DEFINE now == Polled
             later == Wanted
             then == Wanted'
             q == pri_pipe
  <2>2. Running => Alternates(q, now, later)
    BY DEF QueueInv
  <2>3. /\ q \in Seq(ThrMsg)
        /\ m.fd \in AppFds => (m.act = "ADD" <=> m.fd \notin later)
        /\ \A x \in AppFds : x \in then <=> IF x = m.fd THEN m.act = "ADD" ELSE x \in later
    BY <1>1, <1>6, <1>7
  <2> HIDE DEF now, later, then, q
  <2>4. Running => Alternates(Append(q, m), now, then)
    BY <1>2, <2>2, <2>3, AlternatesAppend
  <2> QED BY <1>1, <2>1, <2>4 DEF now, then, q
<1> QED BY <1>4, <1>8 DEF QueueInv, NoDuplicateAdd

\* Every step of a caller keeps the queue in order.
LEMMA CallerQueue ==
  ASSUME Inv, QueueInv, NEW c \in Callers, Caller(c)
  PROVE  QueueInv'
<1>0. /\ UNCHANGED <<fd_list, tpc>> /\ call \in [Callers -> Call] /\ call[c] \in Call
      /\ call[c].fd \in Fds /\ Sockets \subseteq AppFds /\ Pipes \subseteq AppFds
      /\ AppFds \subseteq Fds /\ PriFd \in Fds /\ PriFd \notin AppFds
      /\ Idle \in Call /\ Idle.pc = "idle" /\ ~Wants(Idle)
  <2>1. UNCHANGED <<fd_list, tpc>>
    BY DEF Caller, AddSocketCheck, AddSocketMaxOut, AddSocketRequest, AddPipe,
       AddPipeMaxOut, DeleteFd, SpuriousWakeup, ReturnAdd, ReturnDeletePipe, LoadCount,
       StoreCount, Free, ReturnFree, Join, vars, thrVars
  <2>2. call \in [Callers -> Call] /\ call[c] \in Call /\ call[c].fd \in Fds
    BY DEF Inv, TypeOK, Call
  <2>3. Idle \in Call /\ Idle.pc = "idle" /\ ~Wants(Idle)
    BY ConstantsAssumption DEF Idle, Call, Fds, Wants
  <2> QED BY <2>1, <2>2, <2>3, ConstantsAssumption DEF AppFds, Fds
<1>1. /\ owned \subseteq AppFds
      /\ \A d \in Callers : Busy(d) => call[d].fd \notin owned /\ CallFits(call[d])
      /\ \A d, e \in Callers : Busy(d) /\ Busy(e) /\ call[d].fd = call[e].fd => d = e
  BY DEF QueueInv, OneUser
<1>2. ASSUME NEW fd \in AppFds, Unused(fd)
      PROVE  fd \notin owned /\ \A d \in Callers : Busy(d) => call[d].fd # fd
  BY <1>2 DEF Unused, InCall
<1>3. ASSUME NEW fd \in Sockets, AddSocketCheck(c, fd) PROVE QueueInv'
  <2> DEFINE r == [pc |-> "checked", act |-> "ADD", fd |-> fd, reg |-> num_sockets]
  <2>1. /\ call' = [call EXCEPT ![c] = r] /\ ~Busy(c) /\ Unused(fd)
        /\ UNCHANGED <<owned, pri_pipe>>
    BY <1>3 DEF AddSocketCheck
  <2>2. r \in Call /\ r.pc = "checked" /\ r.act = "ADD" /\ r.fd = fd
    BY <1>0 DEF Call, Inv, TypeOK
  <2> HIDE DEF r
  <2>3. CallFits(r) /\ ~Wants(r) /\ ~Wants(call[c])
    BY <1>0, <2>1, <2>2 DEF CallFits, Wants, Busy
  <2> QED BY <1>0, <1>1, <1>2, <2>1, <2>2, <2>3, QuietStep
<1>4. CASE \/ \E fd \in Sockets : AddSocketMaxOut(c, fd)
           \/ \E fd \in Pipes : AddPipeMaxOut(c, fd)
  BY <1>4 DEF AddSocketMaxOut, AddPipeMaxOut, vars, QueueInv, OneUser, Busy, Running, Polled,
              Wanted, NoDuplicateAdd
<1>5. CASE AddSocketRequest(c)
  <2>1. /\ call[c].pc = "checked" /\ Busy(c) /\ ~Wants(call[c])
        /\ Request(c, call[c].fd, "ADD") /\ UNCHANGED owned
    BY <1>5 DEF AddSocketRequest, Busy, Wants
  <2>2. call[c].fd \in Sockets
    BY <1>1, <2>1 DEF CallFits
  <2> QED BY <1>0, <1>1, <2>1, <2>2, RequestStep
<1>6. ASSUME NEW fd \in Pipes, AddPipe(c, fd) PROVE QueueInv'
  <2>1. ~Busy(c) /\ ~Wants(call[c]) /\ Unused(fd) /\ Request(c, fd, "ADD") /\ UNCHANGED owned
    BY <1>6 DEF AddPipe, Busy, Wants
  <2> QED BY <1>0, <1>1, <1>2, <2>1, RequestStep
<1>7. ASSUME NEW fd \in Deletable, DeleteFd(c, fd) PROVE QueueInv'
  <2>1. /\ ~Busy(c) /\ ~Wants(call[c]) /\ fd \in owned /\ Request(c, fd, "DELETE")
        /\ owned' = owned \ {fd}
    BY <1>7 DEF DeleteFd, Busy, Wants
  <2> QED BY <1>0, <1>1, <2>1, RequestStep
<1>8. CASE SpuriousWakeup(c)
  <2> DEFINE r == [call[c] EXCEPT !.pc = "woken"]
  <2>1. /\ call' = [call EXCEPT ![c] = r] /\ call[c].pc = "waiting" /\ Busy(c)
        /\ UNCHANGED <<owned, pri_pipe>>
    BY <1>8 DEF SpuriousWakeup, Busy
  <2>2. r \in Call /\ r.pc = "woken" /\ r.act = call[c].act /\ r.fd = call[c].fd
    BY <1>0 DEF Call
  <2> HIDE DEF r
  <2>3. CallFits(r) /\ (Wants(r) <=> Wants(call[c]))
    BY <1>1, <2>1, <2>2 DEF CallFits, Wants
  <2> QED BY <1>0, <1>1, <2>1, <2>2, <2>3, QuietStep
<1>9. CASE ReturnAdd(c)
  <2>1. /\ call' = [call EXCEPT ![c] = Idle] /\ Busy(c) /\ Wants(call[c])
        /\ owned' = owned \cup {call[c].fd} /\ UNCHANGED pri_pipe
    BY <1>9 DEF ReturnAdd, Busy, Wants
  <2>2. call[c].fd \in AppFds
    BY <1>1, <2>1 DEF CallFits, Wants
  <2> QED BY <1>0, <1>1, <2>1, <2>2, QuietStep
<1>10. CASE ReturnDeletePipe(c) \/ StoreCount(c) \/ Join(c)
  <2>1. /\ call' = [call EXCEPT ![c] = Idle] /\ Busy(c) /\ UNCHANGED <<owned, pri_pipe>>
        /\ call[c].act = "DELETE" \/ call[c].pc \in {"loaded", "joining"}
    BY <1>10 DEF ReturnDeletePipe, StoreCount, Join, Busy
  <2>2. ~Wants(call[c])
    BY <2>1 DEF Wants
  <2> QED BY <1>0, <1>1, <2>1, <2>2, QuietStep
<1>11. CASE LoadCount(c)
  <2> DEFINE r == [call[c] EXCEPT !.pc = "loaded", !.reg = num_sockets]
  <2>1. /\ call' = [call EXCEPT ![c] = r] /\ call[c].act = "DELETE" /\ Busy(c)
        /\ call[c].fd \in Sockets /\ UNCHANGED <<owned, pri_pipe>>
    BY <1>11 DEF LoadCount, Busy
  <2>2. r \in Call /\ r.pc = "loaded" /\ r.act = call[c].act /\ r.fd = call[c].fd
    BY <1>0 DEF Call, Inv, TypeOK
  <2> HIDE DEF r
  <2>3. CallFits(r) /\ ~Wants(r) /\ ~Wants(call[c])
    BY <1>0, <2>1, <2>2 DEF CallFits, Wants
  <2> QED BY <1>0, <1>1, <2>1, <2>2, <2>3, QuietStep
<1>12. CASE Free(c)
  <2>1. /\ ~Wants(call[c]) /\ (\A d \in Callers : ~Busy(d)) /\ Request(c, PriFd, "DELETE")
        /\ UNCHANGED owned
    BY <1>12 DEF Free, Busy, Wants
  <2> QED BY <1>0, <1>1, <2>1, RequestStep
<1>13. CASE ReturnFree(c)
  <2> DEFINE r == [call[c] EXCEPT !.pc = "joining"]
  <2>1. /\ call' = [call EXCEPT ![c] = r] /\ call[c].act = "DELETE" /\ call[c].fd = PriFd
        /\ Busy(c) /\ UNCHANGED <<owned, pri_pipe>>
    BY <1>13 DEF ReturnFree, Busy
  <2>2. r \in Call /\ r.pc = "joining" /\ r.act = call[c].act /\ r.fd = call[c].fd
    BY <1>0 DEF Call
  <2> HIDE DEF r
  <2>3. CallFits(r) /\ ~Wants(r) /\ ~Wants(call[c])
    BY <2>1, <2>2 DEF CallFits, Wants
  <2> QED BY <1>0, <1>1, <2>1, <2>2, <2>3, QuietStep
<1> QED BY <1>0, <1>3, <1>4, <1>5, <1>6, <1>7, <1>8, <1>9, <1>10, <1>11, <1>12, <1>13
        DEF Caller

\* ADD_FD, when it succeeds, polls one descriptor more.
LEMMA AddFdPolled ==
  ASSUME Inv, NEW fd \in Fds, AddFd(fd), tpc' = "signal"
  PROVE  fd \notin Polled /\ Polled' = Polled \cup {fd} /\ num_pollfds' = num_pollfds + 1
<1>1. fd \notin Polled /\ num_pollfds \in Slots
  BY DEF AddFd
<1>2. /\ fd_list' = Append(fd_list, [fd |-> fd, slot |-> num_pollfds])
      /\ num_pollfds' = num_pollfds + 1
  BY <1>1 DEF AddFd, NewEntry
<1>3. [fd |-> fd, slot |-> num_pollfds] \in Entry
  BY <1>1 DEF Entry
<1>4. Polled = FdsOf(fd_list) /\ Polled' = FdsOf(fd_list')
  BY DEF Polled, FdsOf
<1>5. fd_list \in Seq(Entry)
  BY DEF Inv, TypeOK
<1> QED BY <1>1, <1>2, <1>3, <1>4, <1>5, FdsOfAppend

\* DELETE_FD takes its descriptor out of what is polled, if it was there.
LEMMA RemoveFdPolled ==
  ASSUME Inv, PriPipe, NEW fd \in Fds, fd \notin {pollfd_arr[0].fd, pollfd_arr[1].fd},
         RemoveFd(fd)
  PROVE  /\ Polled' = Polled \ {fd}
         /\ num_pollfds' = IF fd \in Polled THEN num_pollfds - 1 ELSE num_pollfds
<1> DEFINE n == num_pollfds
<1>1. /\ Len(fd_list) = n /\ n >= 2 /\ Serving /\ HasData /\ n \in Nat
      /\ fd_list \in Seq(Entry) /\ n <= max_pollfds
      /\ \A i, j \in 1 .. n : fd_list[i].fd = fd_list[j].fd => i = j
  <2>1. Len(fd_list) = n /\ n >= 2 /\ Serving /\ HasData
    BY PriPipeServes
  <2>2. n \in Nat /\ n <= max_pollfds /\ fd_list \in Seq(Entry)
    BY SlotFacts DEF Inv, TypeOK
  <2>3. \A i, j \in 1 .. Len(fd_list) : fd_list[i].fd = fd_list[j].fd => i = j
    BY <2>1 DEF Inv, Shape, DestructIsLast
  <2> QED BY <2>1, <2>2, <2>3
<1>2. \A i \in 1 .. n : pollfd_arr[i - 1].fd = fd_list[i].fd
  BY <1>1 DEF Inv, Shape, ListArrayAgree
<1>3. fd \in Polled <=> \E i \in 1 .. n : fd_list[i].fd = fd
  BY <1>1, PolledPlace DEF Inv
<1>4. Polled = FdsOf(fd_list) /\ Polled' = FdsOf(fd_list')
  BY DEF Polled, FdsOf
<1>5. CASE ~\E k \in Searched : pollfd_arr[k].fd = fd
  <2>1. UNCHANGED <<num_pollfds, fd_list>>
    BY <1>5 DEF RemoveFd
  <2>2. \A i \in 1 .. n : fd_list[i].fd # fd
    <3> TAKE i \in 1 .. n
    <3>1. i = 1 \/ i - 1 \in Searched
      BY <1>1 DEF Searched
    <3>2. CASE i = 1
      BY <1>2, <3>2
    <3>3. CASE i - 1 \in Searched
      BY <1>2, <1>5, <3>3
    <3> QED BY <3>1, <3>2, <3>3
  <2> QED BY <1>3, <1>4, <2>1, <2>2
<1>6. CASE \E k \in Searched : pollfd_arr[k].fd = fd
  <2>1. PICK k \in 1 .. n - 1 :
          pollfd_arr[k].fd = fd /\ num_pollfds' = n - 1 /\ DropEntry(fd)
    BY <1>6 DEF RemoveFd, Searched
  <2>2. k + 1 \in 1 .. n /\ (k + 1) - 1 = k
    BY <1>1
  <2>3. fd_list[k + 1].fd = fd
    BY <1>2, <2>1, <2>2
  <2>4. fd \in Polled /\ FirstWith(fd_list, fd) = k + 1
    BY <1>1, <1>3, <2>2, <2>3, FirstWithPlace
  <2>5. fd_list' = RemoveAt(fd_list, k + 1)
    BY <2>1, <2>4 DEF DropEntry
  <2>6. FdsOf(RemoveAt(fd_list, k + 1)) = FdsOf(fd_list) \ {fd_list[k + 1].fd}
    BY <1>1, <2>2, FdsOfRemoveAt
  <2> QED BY <1>4, <2>1, <2>3, <2>4, <2>5, <2>6
<1> QED BY <1>5, <1>6

\* The callback carries out the oldest request.  It finds the descriptor of
\* an ADD not polled.
LEMMA PriPipePolled ==
  ASSUME Inv, QueueInv, PriPipe
  PROVE  /\ tpc' # "abort_add"
         /\ tpc' # "overflow" =>
              \A fd \in AppFds : fd \in Polled' <=>
                IF fd = Head(pri_pipe).fd THEN Head(pri_pipe).act = "ADD" ELSE fd \in Polled
<1> DEFINE msg == Head(pri_pipe)
<1>1. /\ tpc = "sweep" /\ HasData /\ pri_pipe # <<>> /\ msg \in ThrMsg
      /\ pri_pipe \in Seq(ThrMsg)
  BY PriPipeServes DEF PriPipe, Inv, TypeOK
<1>2. Len(pri_pipe) \in Nat /\ 1 \in 1 .. Len(pri_pipe) /\ msg = pri_pipe[1]
  <2>1. Len(pri_pipe) \in Nat /\ Len(pri_pipe) # 0
    BY <1>1
  <2> QED BY <1>1, <2>1, HeadTailProperties
<1>3. msg.fd \in Fds /\ msg.act \in {"ADD", "DELETE"}
  BY <1>1 DEF ThrMsg
<1>4. msg.act = "ADD" => msg.fd \in AppFds /\ msg.fd \notin Polled
  <2>1. Alternates(pri_pipe, Polled, Wanted)
    BY <1>1 DEF QueueInv, Running
  <2>2. \A k \in 1 .. 1 - 1 : pri_pipe[k].fd # msg.fd
    OBVIOUS
  <2>3. msg.fd \in AppFds => (msg.act = "ADD" <=> msg.fd \notin Polled)
    BY <1>2, <2>1, <2>2 DEF Alternates
  <2>4. msg.act = "ADD" => msg.fd \in AppFds
    BY <1>2 DEF QueueInv, OneUser
  <2> QED BY <2>3, <2>4
<1>5. pollfd_arr[0].fd = PriFd /\ pollfd_arr[1].fd = DataFd
  BY <1>1 DEF Inv, Shape, AdminPipesFirst
<1>6. PriFd \notin AppFds /\ DataFd \notin AppFds
  BY ConstantsAssumption DEF AppFds
<1>7. CASE msg.act = "ADD" /\ AddFd(msg.fd)
  <2>1. tpc' \in {"overflow", "signal"}
    BY <1>4, <1>7 DEF AddFd
  <2>2. tpc' = "signal" => Polled' = Polled \cup {msg.fd}
    BY <1>3, <1>7, AddFdPolled
  <2> HIDE DEF msg
  <2>3. tpc' # "abort_add" /\ (tpc' # "overflow" => Polled' = Polled \cup {msg.fd})
    BY <2>1, <2>2
  <2>4. \A fd \in AppFds : tpc' # "overflow" =>
          (fd \in Polled' <=> IF fd = msg.fd THEN msg.act = "ADD" ELSE fd \in Polled)
    BY <1>7, <2>3
  <2> QED BY <2>3, <2>4 DEF msg
<1>8. CASE /\ msg.act = "DELETE" /\ msg.fd \in {pollfd_arr[0].fd, pollfd_arr[1].fd}
           /\ Advance /\ UNCHANGED <<pollfd_arr, fd_list>>
  <2>1. Polled' = Polled /\ tpc' \in {"sweep", "poll"}
    BY <1>8 DEF Polled, Advance
  <2>2. \A fd \in AppFds : fd # msg.fd
    BY <1>5, <1>6, <1>8
  <2> QED BY <2>1, <2>2
<1>9. CASE /\ msg.act = "DELETE" /\ msg.fd \notin {pollfd_arr[0].fd, pollfd_arr[1].fd}
           /\ RemoveFd(msg.fd)
  <2>1. Polled' = Polled \ {msg.fd} /\ tpc' = "signal"
    BY <1>3, <1>9, RemoveFdPolled DEF RemoveFd
  <2> HIDE DEF msg
  <2>2. \A fd \in AppFds : fd \in Polled' <=>
          IF fd = msg.fd THEN msg.act = "ADD" ELSE fd \in Polled
    BY <1>9, <2>1
  <2> QED BY <2>1, <2>2 DEF msg
<1> QED BY <1>7, <1>8, <1>9 DEF PriPipe

\* The thread takes a request out of the queue.
LEMMA PriPipeQueue ==
  ASSUME Inv, QueueInv, PriPipe
  PROVE  QueueInv'
<1>1. /\ pri_pipe \in Seq(ThrMsg) /\ pri_pipe # <<>> /\ pri_pipe' = Tail(pri_pipe)
      /\ UNCHANGED <<call, owned>> /\ Running
  BY DEF PriPipe, mgrVars, Inv, TypeOK, Running
<1>2. Wanted' = Wanted
  BY <1>1 DEF Wanted
<1>3. \A i \in 1 .. Len(pri_pipe') :
        i + 1 \in 1 .. Len(pri_pipe) /\ pri_pipe'[i] = pri_pipe[i + 1]
  <2>1. Len(pri_pipe) \in Nat /\ Len(pri_pipe) # 0
    BY <1>1
  <2>2. Len(pri_pipe') = Len(pri_pipe) - 1
        /\ \A i \in 1 .. Len(pri_pipe') : pri_pipe'[i] = pri_pipe[i + 1]
    BY <1>1, HeadTailProperties
  <2> QED BY <2>1, <2>2
<1>4. OneUser'
  BY <1>1, <1>3 DEF QueueInv, OneUser, Busy
<1>5. Running' => Alternates(pri_pipe', Polled', Wanted')
  <2> DEFINE q == pri_pipe
             now == Polled
             next == Polled'
             later == Wanted
  <2>1. Alternates(q, now, later)
    BY <1>1 DEF QueueInv
  <2>2. Running' => \A fd \in AppFds : fd \in next <=>
          IF fd = Head(q).fd THEN Head(q).act = "ADD" ELSE fd \in now
    BY PriPipePolled DEF Running
  <2>3. q \in Seq(ThrMsg) /\ q # <<>>
    BY <1>1
  <2> HIDE DEF q, now, next, later
  <2>4. Running' => Alternates(Tail(q), next, later)
    BY <2>1, <2>2, <2>3, AlternatesTail
  <2> QED BY <1>1, <1>2, <2>4 DEF q, next, later
<1>6. NoDuplicateAdd'
  BY PriPipePolled DEF NoDuplicateAdd
<1> QED BY <1>4, <1>5, <1>6 DEF QueueInv

\* The signal moves callers from waiting to woken.
LEMMA WakeSomeCalls ==
  ASSUME Inv, WakeSome, NEW c \in Callers
  PROVE  /\ call'[c].fd = call[c].fd /\ call'[c].act = call[c].act
         /\ call'[c].reg = call[c].reg
         /\ call'[c].pc = call[c].pc \/ (call[c].pc = "waiting" /\ call'[c].pc = "woken")
<1>1. CASE UNCHANGED call
  BY <1>1
<1>2. ASSUME NEW W \in SUBSET Waiting,
             call' = [d \in Callers |-> IF d \in W
                                        THEN [call[d] EXCEPT !.pc = "woken"]
                                        ELSE call[d]]
      PROVE  /\ call'[c].fd = call[c].fd /\ call'[c].act = call[c].act
             /\ call'[c].reg = call[c].reg
             /\ call'[c].pc = call[c].pc \/ (call[c].pc = "waiting" /\ call'[c].pc = "woken")
  <2>1. call[c] \in Call
    BY DEF Inv, TypeOK
  <2>2. /\ [call[c] EXCEPT !.pc = "woken"].fd = call[c].fd
        /\ [call[c] EXCEPT !.pc = "woken"].act = call[c].act
        /\ [call[c] EXCEPT !.pc = "woken"].reg = call[c].reg
        /\ [call[c] EXCEPT !.pc = "woken"].pc = "woken"
    BY <2>1 DEF Call
  <2>3. CASE c \in W
    BY <1>2, <2>2, <2>3 DEF Waiting
  <2>4. CASE c \notin W
    BY <1>2, <2>4
  <2> QED BY <2>3, <2>4
<1> QED BY <1>1, <1>2 DEF WakeSome

\* The signal changes no wish.
LEMMA WakeSomeQueue ==
  ASSUME Inv, QueueInv, WakeSome, UNCHANGED <<owned, pri_pipe, fd_list>>,
         tpc' # "abort_add", Running' => Running
  PROVE  QueueInv'
<1>1. \A c \in Callers :
        /\ call'[c].fd = call[c].fd /\ call'[c].act = call[c].act
        /\ call'[c].pc = call[c].pc \/ (call[c].pc = "waiting" /\ call'[c].pc = "woken")
  BY WakeSomeCalls
<1>2. \A c \in Callers : /\ Busy(c)' <=> Busy(c)
                         /\ Wants(call'[c]) <=> Wants(call[c])
                         /\ CallFits(call[c]) => CallFits(call'[c])
  BY <1>1 DEF Busy, Wants, CallFits
<1>3. OneUser'
  BY <1>1, <1>2 DEF QueueInv, OneUser
<1>4. Wanted' = Wanted
  <2>1. \A fd : /\ fd \in Wanted <=>
                     fd \in owned \/ \E c \in Callers : Wants(call[c]) /\ fd = call[c].fd
                /\ fd \in Wanted' <=>
                     fd \in owned' \/ \E c \in Callers : Wants(call'[c]) /\ fd = call'[c].fd
    BY DEF Wanted, Wants
  <2>2. \A fd : fd \in Wanted' <=> fd \in Wanted
    BY <1>1, <1>2, <2>1
  <2> QED BY <2>2
<1>5. Polled' = Polled
  BY DEF Polled
<1> QED BY <1>3, <1>4, <1>5 DEF QueueInv, NoDuplicateAdd

\* Every step keeps the queue in order.
LEMMA NextQueue == Inv /\ QueueInv /\ [Next]_vars => QueueInv'
<1> SUFFICES ASSUME Inv, QueueInv, [Next]_vars PROVE QueueInv'
  OBVIOUS
<1>1. ASSUME UNCHANGED <<call, owned, pri_pipe>>, Running' => Running /\ UNCHANGED fd_list,
             NoDuplicateAdd'
      PROVE  QueueInv'
  <2>1. OneUser'
    BY <1>1 DEF QueueInv, OneUser, Busy
  <2>2. Wanted' = Wanted /\ (Running' => Polled' = Polled)
    BY <1>1 DEF Wanted, Polled
  <2> QED BY <1>1, <2>1, <2>2 DEF QueueInv
<1>2. CASE Poll \/ DataPipe \/ PollinOnly \/ Pollout
  BY <1>1, <1>2 DEF Poll, DataPipe, PollinOnly, Pollout, Advance, mgrVars, Running,
                    NoDuplicateAdd
<1>3. CASE SelfDestruct \/ PollError
  BY <1>1, <1>3 DEF SelfDestruct, PollError, LeaveLoop, mgrVars, Running, NoDuplicateAdd
<1>4. CASE PriPipe
  BY <1>4, PriPipeQueue
<1>5. CASE Signal
  BY <1>5, WakeSomeQueue DEF Signal, Advance, Running
<1>6. CASE Exit
  BY <1>6, WakeSomeQueue DEF Exit, Running
<1>7. ASSUME NEW c \in Callers, Caller(c) PROVE QueueInv'
  BY <1>7, CallerQueue
<1>8. CASE UNCHANGED vars \/ \E fd \in Sockets : Send(fd)
  BY <1>1, <1>8 DEF vars, Send, mgrVars, thrVars, QueueInv, Running, NoDuplicateAdd
<1> QED BY <1>2, <1>3, <1>4, <1>5, <1>6, <1>7, <1>8 DEF Next, Thread

\* The queue of requests holds, for each descriptor, alternating requests that
\* lead from what is polled to what its users expect.
THEOREM QueueInvariance == Spec => []QueueInv
<1>1. Init => QueueInv
  <2> SUFFICES ASSUME Init PROVE QueueInv
    OBVIOUS
  <2>1. OneUser
    BY DEF Init, OneUser, Busy, Idle
  <2>2. Polled = {PriFd, DataFd}
    <3>1. /\ fd_list = <<[fd |-> PriFd, slot |-> 0], [fd |-> DataFd, slot |-> 1]>>
      BY DEF Init
    <3>2. DOMAIN fd_list = {1, 2} /\ fd_list[1].fd = PriFd /\ fd_list[2].fd = DataFd
      BY <3>1
    <3> QED BY <3>2 DEF Polled
  <2>3. Wanted = {}
    BY DEF Init, Wanted, Idle
  <2>4. \A fd \in AppFds : fd \notin Polled
    BY <2>2, ConstantsAssumption DEF AppFds
  <2>5. Len(pri_pipe) = 0
    BY DEF Init
  <2>6. Alternates(pri_pipe, Polled, Wanted)
    BY <2>3, <2>4, <2>5 DEF Alternates
  <2> QED BY <2>1, <2>6 DEF QueueInv, Init, NoDuplicateAdd
<1> QED BY <1>1, NextQueue, Invariance, PTL DEF Spec

\* The assertion of ADD_FD ("check for existing entry") holds, for any number
\* of callers, although a descriptor number is given out again while requests
\* for its former user are queued, and callers may return early.
THEOREM NoDuplicateAddHolds == Spec => []NoDuplicateAdd
<1>1. QueueInv => NoDuplicateAdd
  BY DEF QueueInv
<1> QED BY <1>1, QueueInvariance, PTL
-----------------------------------------------------------------------------
(* The room in the array, with one caller *)

\* The sizes the array goes through while the requests of q are handled.
Sizes(q, f) ==
  \A i \in 1 .. Len(q) :
    f[i] = IF q[i].fd \notin AppFds THEN f[i - 1]
           ELSE IF q[i].act = "ADD" THEN f[i - 1] + 1 ELSE f[i - 1] - 1

\* A request that is written makes one more size, the last.
LEMMA SizesAppend ==
  ASSUME NEW q \in Seq(ThrMsg), NEW m \in ThrMsg,
         NEW f \in [0 .. Len(q) -> 0 .. max_pollfds], Sizes(q, f), NEW v \in 0 .. max_pollfds,
         v = IF m.fd \notin AppFds THEN f[Len(q)]
             ELSE IF m.act = "ADD" THEN f[Len(q)] + 1 ELSE f[Len(q)] - 1
  PROVE  \E g \in [0 .. Len(Append(q, m)) -> 0 .. max_pollfds] :
           Sizes(Append(q, m), g) /\ g[0] = f[0] /\ g[Len(Append(q, m))] = v
<1> DEFINE a == Append(q, m)
           n == Len(q)
           g == [i \in 0 .. n + 1 |-> IF i = n + 1 THEN v ELSE f[i]]
<1>1. /\ n \in Nat /\ Len(a) = n + 1 /\ a[n + 1] = m
      /\ \A i \in 1 .. n : a[i] = q[i]
  OBVIOUS
<1>2. g \in [0 .. n + 1 -> 0 .. max_pollfds]
  <2>1. \A i \in 0 .. n + 1 : i = n + 1 \/ i \in 0 .. n
    BY <1>1
  <2> QED BY <2>1
<1>3. g[n + 1] = v /\ \A i \in 0 .. n : g[i] = f[i]
  <2>1. n + 1 \in 0 .. n + 1 /\ \A i \in 0 .. n : i \in 0 .. n + 1 /\ i # n + 1
    BY <1>1
  <2> QED BY <2>1
<1> HIDE DEF g, a
<1>4. Sizes(a, g)
  <2> SUFFICES ASSUME NEW i \in 1 .. n + 1
               PROVE  g[i] = IF a[i].fd \notin AppFds THEN g[i - 1]
                             ELSE IF a[i].act = "ADD" THEN g[i - 1] + 1 ELSE g[i - 1] - 1
    BY <1>1 DEF Sizes
  <2>1. CASE i = n + 1
    <3>1. i - 1 = n /\ n \in 0 .. n
      BY <1>1, <2>1
    <3> QED BY <1>1, <1>3, <2>1, <3>1
  <2>2. CASE i \in 1 .. n
    <3>1. i - 1 \in 0 .. n /\ i \in 0 .. n
      BY <1>1, <2>2
    <3>2. f[i] = IF q[i].fd \notin AppFds THEN f[i - 1]
                 ELSE IF q[i].act = "ADD" THEN f[i - 1] + 1 ELSE f[i - 1] - 1
      BY <2>2 DEF Sizes
    <3> QED BY <1>1, <1>3, <2>2, <3>1, <3>2
  <2> QED BY <1>1, <2>1, <2>2
<1>5. g[0] = f[0]
  BY <1>1, <1>3
<1> QED BY <1>1, <1>2, <1>3, <1>4, <1>5 DEF a

\* A request that is handled takes the first size away.
LEMMA SizesTail ==
  ASSUME NEW q \in Seq(ThrMsg), q # <<>>,
         NEW f \in [0 .. Len(q) -> 0 .. max_pollfds], Sizes(q, f)
  PROVE  \E g \in [0 .. Len(Tail(q)) -> 0 .. max_pollfds] :
           Sizes(Tail(q), g) /\ g[0] = f[1] /\ g[Len(Tail(q))] = f[Len(q)]
<1> DEFINE t == Tail(q)
           n == Len(q)
           g == [i \in 0 .. n - 1 |-> f[i + 1]]
<1>1. /\ n \in Nat /\ n >= 1 /\ Len(t) = n - 1
      /\ \A i \in 1 .. n - 1 : t[i] = q[i + 1]
  <2>1. n \in Nat /\ n # 0
    OBVIOUS
  <2>2. Len(t) = n - 1 /\ \A i \in 1 .. Len(t) : t[i] = q[i + 1]
    BY HeadTailProperties
  <2> QED BY <2>1, <2>2
<1>2. \A i \in 0 .. n - 1 : i + 1 \in 0 .. n
  BY <1>1
<1>3. g \in [0 .. n - 1 -> 0 .. max_pollfds] /\ \A i \in 0 .. n - 1 : g[i] = f[i + 1]
  BY <1>2
<1> HIDE DEF t, g
<1>4. Sizes(t, g)
  <2> SUFFICES ASSUME NEW i \in 1 .. n - 1
               PROVE  g[i] = IF t[i].fd \notin AppFds THEN g[i - 1]
                             ELSE IF t[i].act = "ADD" THEN g[i - 1] + 1 ELSE g[i - 1] - 1
    BY <1>1 DEF Sizes
  <2>1. i + 1 \in 1 .. n /\ (i + 1) - 1 = i /\ (i - 1) + 1 = i /\ i \in 0 .. n - 1
        /\ i - 1 \in 0 .. n - 1
    BY <1>1
  <2>2. g[i] = f[i + 1] /\ g[i - 1] = f[i] /\ t[i] = q[i + 1]
    BY <1>1, <1>3, <2>1
  <2>3. f[i + 1] = IF q[i + 1].fd \notin AppFds THEN f[i]
                   ELSE IF q[i + 1].act = "ADD" THEN f[i] + 1 ELSE f[i] - 1
    BY <2>1 DEF Sizes
  <2> QED BY <2>2, <2>3
<1>5. g[0] = f[1] /\ g[n - 1] = f[n]
  <2>1. 0 \in 0 .. n - 1 /\ n - 1 \in 0 .. n - 1 /\ 0 + 1 = 1 /\ (n - 1) + 1 = n
    BY <1>1
  <2> QED BY <1>3, <2>1
<1> QED BY <1>1, <1>3, <1>4, <1>5 DEF t

\* Is the call a DELETE of a descriptor of S?
Leaves(r, S) == r.pc # "idle" /\ r.act = "DELETE" /\ r.fd \in S
Leaving(S) == IF \E c \in Callers : Leaves(call[c], S) THEN 1 ELSE 0

\* What the manager's counters count: the descriptors wanted, and the one whose
\* DELETE has not yet returned.
Counted ==
  /\ IsFiniteSet(Wanted \cap Sockets) /\ IsFiniteSet(Wanted \cap Pipes)
  /\ num_sockets = Cardinality(Wanted \cap Sockets) + Leaving(Sockets)
  /\ num_sockets <= MaxSockets
  /\ mgr # "freed" => Len(pipes_arr) = 2 + Cardinality(Wanted \cap Pipes) + Leaving(Pipes)
  /\ Len(pipes_arr) <= 2 + MaxAppPipes
  /\ \A c \in Callers : call[c].pc \in {"checked", "loaded"} => call[c].reg = num_sockets
  /\ \A c \in Callers : call[c].pc = "checked" => num_sockets # MaxSockets
  /\ mgr = "freed" => \A c \in Callers : ~Busy(c)

\* The queued requests lead from the size of the array to the number of
\* descriptors wanted, and never past its end.
Room ==
  Running /\ num_pollfds # 0 =>
    \E f \in [0 .. Len(pri_pipe) -> 0 .. max_pollfds] :
      /\ Sizes(pri_pipe, f)
      /\ f[0] = num_pollfds /\ f[Len(pri_pipe)] = 2 + Cardinality(Wanted)

RoomInv == Counted /\ Room /\ NoOverflow

\* Whom the callers want to be polled are their own descriptors.
LEMMA WantedApp == QueueInv => Wanted \subseteq AppFds
<1> SUFFICES ASSUME QueueInv, NEW x \in Wanted PROVE x \in AppFds
  OBVIOUS
<1>1. x \in owned \/ \E c \in Callers : Wants(call[c]) /\ x = call[c].fd
  BY DEF Wanted, Wants
<1>2. ASSUME NEW c \in Callers, Wants(call[c]) PROVE call[c].fd \in AppFds
  <2>1. Busy(c)
    BY <1>2 DEF Busy, Wants
  <2> QED BY <1>2, <2>1 DEF QueueInv, OneUser, CallFits, Wants
<1> QED BY <1>1, <1>2 DEF QueueInv, OneUser

\* The number of descriptors wanted is what the two counters admit.
LEMMA WantedBound ==
  ASSUME NEW W, W \subseteq AppFds, IsFiniteSet(W \cap Sockets), IsFiniteSet(W \cap Pipes),
         NEW ls \in {0, 1}, NEW lp \in {0, 1},
         Cardinality(W \cap Sockets) + ls <= MaxSockets,
         2 + Cardinality(W \cap Pipes) + lp <= 2 + MaxAppPipes
  PROVE  /\ IsFiniteSet(W) /\ Cardinality(W) \in Nat
         /\ 2 + Cardinality(W) <= max_pollfds
<1> DEFINE S == W \cap Sockets
           P == W \cap Pipes
<1>1. IsFiniteSet(S) /\ IsFiniteSet(P)
  OBVIOUS
<1>2. W = S \cup P /\ S \cap P = {}
  BY ConstantsAssumption DEF AppFds
<1>3. Cardinality(S) \in Nat /\ Cardinality(P) \in Nat
  BY <1>1, FS_CardinalityType
<1> HIDE DEF S, P
<1>4. Cardinality(S) <= MaxSockets /\ Cardinality(P) <= MaxAppPipes
  BY <1>3, ConstantsAssumption DEF S, P
<1>5. IsFiniteSet(W) /\ Cardinality(W) = Cardinality(S) + Cardinality(P)
  <2>1. IsFiniteSet(S \cup P)
        /\ Cardinality(S \cup P) = Cardinality(S) + Cardinality(P) - Cardinality(S \cap P)
    BY <1>1, FS_Union
  <2>2. Cardinality(S \cap P) = 0
    BY <1>2, FS_EmptySet
  <2> QED BY <1>2, <1>3, <2>1, <2>2
<1>6. max_pollfds = MaxSockets + (2 * MaxAppPipes + 4)
  BY DEF max_pollfds, max_pipes
<1> QED BY <1>3, <1>4, <1>5, <1>6, ConstantsAssumption

\* A step in the only call there is.
LEMMA LeavingStep ==
  ASSUME Inv, \A x, y \in Callers : x = y, NEW c \in Callers, NEW r,
         call' = [call EXCEPT ![c] = r], NEW S
  PROVE  /\ Leaving(S) = IF Leaves(call[c], S) THEN 1 ELSE 0
         /\ Leaving(S)' = IF Leaves(r, S) THEN 1 ELSE 0
<1>1. call'[c] = r
  BY DEF Inv, TypeOK
<1>2. Leaving(S) = IF Leaves(call[c], S) THEN 1 ELSE 0
  BY DEF Leaving
<1>3. Leaving(S)' = IF \E d \in Callers : Leaves(call'[d], S) THEN 1 ELSE 0
  BY DEF Leaving, Leaves
<1>4. Leaving(S)' = IF Leaves(r, S) THEN 1 ELSE 0
  BY <1>1, <1>3
<1> QED BY <1>2, <1>4

\* A step that changes neither the counters nor what they count.
LEMMA CountedKept ==
  ASSUME Inv, Counted, \A x, y \in Callers : x = y, NEW c \in Callers, NEW r \in Call,
         call' = [call EXCEPT ![c] = r], Wanted' = Wanted, UNCHANGED num_sockets,
         UNCHANGED pipes_arr \/ (pipes_arr' = <<>> /\ mgr' = "freed"),
         mgr' = "freed" \/ mgr # "freed",
         Leaves(r, Sockets) <=> Leaves(call[c], Sockets),
         Leaves(r, Pipes) <=> Leaves(call[c], Pipes),
         r.pc \in {"checked", "loaded"} => r.reg = num_sockets,
         r.pc = "checked" => num_sockets # MaxSockets,
         mgr' = "freed" => r.pc = "idle"
  PROVE  Counted'
<1>1. Leaving(Sockets)' = Leaving(Sockets) /\ Leaving(Pipes)' = Leaving(Pipes)
  BY LeavingStep
<1>2. \A d \in Callers : d = c /\ call'[d] = r
  BY DEF Inv, TypeOK
<1>3. Len(pipes_arr') <= 2 + MaxAppPipes
  <2>1. CASE UNCHANGED pipes_arr
    BY <2>1 DEF Counted
  <2>2. CASE pipes_arr' = <<>>
    <3>1. Len(pipes_arr') = 0
      BY <2>2
    <3> QED BY <3>1, ConstantsAssumption
  <2> QED BY <2>1, <2>2
<1>4. mgr' # "freed" => UNCHANGED pipes_arr /\ mgr # "freed"
  OBVIOUS
<1>5. /\ IsFiniteSet(Wanted' \cap Sockets) /\ IsFiniteSet(Wanted' \cap Pipes)
      /\ num_sockets' = Cardinality(Wanted' \cap Sockets) + Leaving(Sockets)'
      /\ num_sockets' <= MaxSockets
  BY <1>1 DEF Counted
<1>6. mgr' # "freed" => Len(pipes_arr') = 2 + Cardinality(Wanted' \cap Pipes) + Leaving(Pipes)'
  BY <1>1, <1>4 DEF Counted
<1>7. mgr' = "freed" => \A d \in Callers : ~Busy(d)'
  BY <1>2 DEF Busy
<1> QED BY <1>2, <1>3, <1>5, <1>6, <1>7 DEF Counted

\* One descriptor more or less in a set, counted by kind.
LEMMA KindMore ==
  ASSUME NEW W, NEW V, NEW K, NEW fd, IsFiniteSet(W \cap K),
         V = W \cup {fd}, fd \notin W, fd \in K
  PROVE  IsFiniteSet(V \cap K) /\ Cardinality(V \cap K) = Cardinality(W \cap K) + 1
<1>1. V \cap K = (W \cap K) \cup {fd} /\ fd \notin W \cap K
  OBVIOUS
<1> QED BY <1>1, FS_AddElement

\* The same for a descriptor that is wanted no more.
LEMMA KindLess ==
  ASSUME NEW W, NEW V, NEW K, NEW fd, IsFiniteSet(W \cap K),
         V = W \ {fd}, fd \in W, fd \in K
  PROVE  IsFiniteSet(V \cap K) /\ Cardinality(V \cap K) = Cardinality(W \cap K) - 1
<1>1. V \cap K = (W \cap K) \ {fd} /\ fd \in W \cap K
  OBVIOUS
<1> QED BY <1>1, FS_RemoveElement

\* A descriptor of the other kind does not count.
LEMMA KindSame ==
  ASSUME NEW W, NEW V, NEW K, NEW fd, V = W \cup {fd} \/ V = W \ {fd}, fd \notin K
  PROVE  V \cap K = W \cap K
OBVIOUS

\* An ADD and a DELETE that are written change what is wanted, no other step of
\* a caller does.
LEMMA AddWanted ==
  ASSUME Inv, QueueInv, NEW c \in Callers, NEW fd \in AppFds,
         (AddSocketRequest(c) /\ fd = call[c].fd) \/ AddPipe(c, fd)
  PROVE  /\ fd \notin Wanted /\ Wanted' = Wanted \cup {fd}
         /\ Request(c, fd, "ADD") /\ ~Leaves(call[c], Fds)
<1>1. Request(c, fd, "ADD") /\ UNCHANGED owned
  BY DEF AddSocketRequest, AddPipe
<1>2. ~Wants(call[c]) /\ ~Leaves(call[c], Fds)
  <2>1. CASE AddSocketRequest(c)
    <3>1. call[c].pc = "checked" /\ Busy(c)
      BY <2>1 DEF AddSocketRequest, Busy
    <3>2. call[c].act = "ADD"
      BY <3>1 DEF QueueInv, OneUser, CallFits
    <3> QED BY <3>1, <3>2 DEF Wants, Leaves
  <2>2. CASE AddPipe(c, fd)
    BY <2>2 DEF AddPipe, Wants, Leaves, Busy
  <2> QED BY <2>1, <2>2
<1>3. fd \notin owned /\ \A d \in Callers : d # c /\ Busy(d) => call[d].fd # fd
  <2>1. CASE AddSocketRequest(c) /\ fd = call[c].fd
    <3>1. Busy(c)
      BY <2>1 DEF AddSocketRequest, Busy
    <3> QED BY <2>1, <3>1 DEF QueueInv, OneUser
  <2>2. CASE AddPipe(c, fd)
    BY <2>2 DEF AddPipe, Unused, InCall
  <2> QED BY <2>1, <2>2
<1>4. /\ fd \notin Wanted /\ fd \in Wanted'
      /\ \A x : x # fd => (x \in Wanted' <=> x \in Wanted)
  BY <1>1, <1>2, <1>3, RequestWanted
<1> QED BY <1>1, <1>2, <1>4

\* A DELETE that is written.
LEMMA DeleteWanted ==
  ASSUME Inv, QueueInv, NEW c \in Callers, NEW fd \in Deletable, DeleteFd(c, fd)
  PROVE  /\ fd \in Wanted /\ Wanted' = Wanted \ {fd} /\ fd \in AppFds
         /\ Request(c, fd, "DELETE") /\ ~Leaves(call[c], Fds)
<1>1. /\ Request(c, fd, "DELETE") /\ fd \in owned /\ owned' = owned \ {fd}
      /\ ~Wants(call[c]) /\ ~Leaves(call[c], Fds)
  BY DEF DeleteFd, Wants, Leaves, Busy
<1>2. fd \in AppFds /\ \A d \in Callers : d # c /\ Busy(d) => call[d].fd # fd
  BY <1>1 DEF QueueInv, OneUser
<1>3. /\ fd \in Wanted /\ fd \notin Wanted'
      /\ \A x : x # fd => (x \in Wanted' <=> x \in Wanted)
  BY <1>1, <1>2, RequestWanted
<1> QED BY <1>1, <1>2, <1>3

\* The other steps of a caller.
LEMMA QuietWanted ==
  ASSUME Inv, NEW c \in Callers, NEW r, call' = [call EXCEPT ![c] = r],
         \A fd : fd \in owned' \/ (Wants(r) /\ fd = r.fd)
                   <=> fd \in owned \/ (Wants(call[c]) /\ fd = call[c].fd)
  PROVE  Wanted' = Wanted
<1>1. \A fd : fd \in Wanted' <=> fd \in Wanted
  BY WantedStep
<1> QED BY <1>1

\* Every step of the one caller keeps the counters right.
LEMMA CallerCounted ==
  ASSUME Inv, QueueInv, Counted, \A x, y \in Callers : x = y, NEW c \in Callers, Caller(c)
  PROVE  /\ Counted'
         /\ \/ Wanted' = Wanted /\ UNCHANGED pri_pipe
            \/ \E fd \in AppFds : /\ fd \notin Wanted /\ Wanted' = Wanted \cup {fd}
                                  /\ pri_pipe' = Append(pri_pipe, [fd |-> fd, act |-> "ADD"])
                                  /\ mgr' # "freed"
            \/ \E fd \in AppFds : /\ fd \in Wanted /\ Wanted' = Wanted \ {fd}
                                  /\ pri_pipe' = Append(pri_pipe, [fd |-> fd, act |-> "DELETE"])
                                  /\ mgr' # "freed"
            \/ /\ Wanted' = Wanted
               /\ pri_pipe' = Append(pri_pipe, [fd |-> PriFd, act |-> "DELETE"])
<1> DEFINE Effect ==
            \/ Wanted' = Wanted /\ UNCHANGED pri_pipe
            \/ \E fd \in AppFds : /\ fd \notin Wanted /\ Wanted' = Wanted \cup {fd}
                                  /\ pri_pipe' = Append(pri_pipe, [fd |-> fd, act |-> "ADD"])
                                  /\ mgr' # "freed"
            \/ \E fd \in AppFds : /\ fd \in Wanted /\ Wanted' = Wanted \ {fd}
                                  /\ pri_pipe' = Append(pri_pipe, [fd |-> fd, act |-> "DELETE"])
                                  /\ mgr' # "freed"
            \/ /\ Wanted' = Wanted
               /\ pri_pipe' = Append(pri_pipe, [fd |-> PriFd, act |-> "DELETE"])
<1> SUFFICES Counted' /\ Effect
  OBVIOUS
<1> DEFINE n == num_sockets
           l == Len(pipes_arr)
           S == Cardinality(Wanted \cap Sockets)
           P == Cardinality(Wanted \cap Pipes)
<1>0. /\ call \in [Callers -> Call] /\ call[c] \in Call /\ call[c].fd \in Fds
      /\ n \in Nat /\ l \in Nat
      /\ S \in Nat /\ P \in Nat
      /\ Sockets \subseteq AppFds /\ Pipes \subseteq AppFds /\ AppFds \subseteq Fds
      /\ Sockets \cap Pipes = {} /\ PriFd \notin AppFds
      /\ Idle \in Call /\ Idle.pc = "idle" /\ ~Wants(Idle)
      /\ ~Leaves(Idle, Sockets) /\ ~Leaves(Idle, Pipes)
  <2>1. call \in [Callers -> Call] /\ call[c] \in Call /\ call[c].fd \in Fds
    BY DEF Inv, TypeOK, Call
  <2>2. n \in Nat /\ l \in Nat
    BY ConstantsAssumption DEF Inv, TypeOK
  <2>3. S \in Nat /\ P \in Nat
    BY FS_CardinalityType DEF Counted
  <2>4. Idle \in Call /\ Idle.pc = "idle"
    BY ConstantsAssumption DEF Idle, Call, Fds
  <2> QED BY <2>1, <2>2, <2>3, <2>4, ConstantsAssumption DEF AppFds, Fds, Wants, Leaves
<1>1. /\ IsFiniteSet(Wanted \cap Sockets) /\ IsFiniteSet(Wanted \cap Pipes)
      /\ n = S + Leaving(Sockets) /\ n <= MaxSockets
      /\ mgr # "freed" => l = 2 + P + Leaving(Pipes)
      /\ l <= 2 + MaxAppPipes
      /\ call[c].pc \in {"checked", "loaded"} => call[c].reg = n
      /\ call[c].pc = "checked" => n # MaxSockets
  BY DEF Counted
<1>2. /\ Busy(c) => call[c].fd \notin owned /\ CallFits(call[c])
      /\ mgr = "freed" => ~Busy(c)
  BY DEF QueueInv, OneUser, Counted
\* the requests
<1>3. ASSUME NEW fd \in AppFds, NEW act \in {"ADD", "DELETE"}, Request(c, fd, act),
             ~Leaves(call[c], Fds)
      PROVE  /\ Leaving(Sockets) = 0 /\ Leaving(Pipes) = 0
             /\ Leaving(Sockets)' = IF act = "DELETE" /\ fd \in Sockets THEN 1 ELSE 0
             /\ Leaving(Pipes)' = IF act = "DELETE" /\ fd \in Pipes THEN 1 ELSE 0
             /\ \A d \in Callers : call'[d].pc = "waiting"
             /\ pri_pipe' = Append(pri_pipe, [fd |-> fd, act |-> act])
  <2> DEFINE r == [pc |-> "waiting", act |-> act, fd |-> fd, reg |-> 0]
  <2>1. call' = [call EXCEPT ![c] = r]
    BY <1>3 DEF Request
  <2>2. r.pc = "waiting" /\ r.act = act /\ r.fd = fd
    OBVIOUS
  <2> HIDE DEF r
  <2>3. \A T : Leaves(r, T) <=> act = "DELETE" /\ fd \in T
    BY <2>2 DEF Leaves
  <2>4. ~Leaves(call[c], Sockets) /\ ~Leaves(call[c], Pipes)
    BY <1>0, <1>3 DEF Leaves
  <2>5. /\ Leaving(Sockets) = 0 /\ Leaving(Sockets)' = IF Leaves(r, Sockets) THEN 1 ELSE 0
        /\ Leaving(Pipes) = 0 /\ Leaving(Pipes)' = IF Leaves(r, Pipes) THEN 1 ELSE 0
    BY <2>1, <2>4, LeavingStep
  <2>6. \A d \in Callers : call'[d].pc = "waiting"
    BY <1>0, <2>1, <2>2
  <2> QED BY <1>3, <2>3, <2>5, <2>6 DEF Request
<1>f. IsFiniteSet(Wanted \cap Sockets) /\ IsFiniteSet(Wanted \cap Pipes)
  BY <1>1
<1>4. CASE AddSocketRequest(c)
  <2> DEFINE fd == call[c].fd
  <2>1. /\ call[c].pc = "checked" /\ Busy(c) /\ UNCHANGED <<pipes_arr, mgr>>
        /\ \E v \in {call[c].reg, num_sockets} : num_sockets' = Inc(v)
    BY <1>4 DEF AddSocketRequest, Busy
  <2>2. fd \in Sockets /\ fd \notin Pipes
    BY <1>0, <1>2, <2>1 DEF CallFits
  <2>3. /\ fd \notin Wanted /\ Wanted' = Wanted \cup {fd}
        /\ Request(c, fd, "ADD") /\ ~Leaves(call[c], Fds)
    BY <1>0, <1>4, <2>2, AddWanted
  <2> HIDE DEF fd
  <2>4. /\ Leaving(Sockets) = 0 /\ Leaving(Pipes) = 0
        /\ Leaving(Sockets)' = 0 /\ Leaving(Pipes)' = 0
        /\ \A d \in Callers : call'[d].pc = "waiting"
        /\ pri_pipe' = Append(pri_pipe, [fd |-> fd, act |-> "ADD"])
    BY <1>0, <1>3, <2>2, <2>3
  <2>5. num_sockets' = n + 1 /\ n + 1 <= MaxSockets
    <3>1. num_sockets' = Inc(n)
      BY <1>1, <2>1
    <3>2. n # MaxSockets /\ n <= MaxSockets
      BY <1>1, <2>1
    <3>3. n # CountMod - 1
      BY <1>0, <3>2, ConstantsAssumption
    <3>4. Inc(n) = n + 1
      BY <3>3 DEF Inc
    <3> QED BY <1>0, <3>1, <3>2, <3>4, ConstantsAssumption
  <2>6. /\ IsFiniteSet(Wanted' \cap Sockets) /\ Cardinality(Wanted' \cap Sockets) = S + 1
        /\ Wanted' \cap Pipes = Wanted \cap Pipes
    BY <1>f, <2>2, <2>3, KindMore, KindSame, Zenon
  <2>7. mgr # "freed" /\ mgr' # "freed"
    BY <1>2, <2>1
  <2> HIDE DEF n, l, S, P
  <2>8. num_sockets' = Cardinality(Wanted' \cap Sockets) + Leaving(Sockets)'
    BY <1>0, <1>1, <2>4, <2>5, <2>6
  <2>9. Len(pipes_arr') = 2 + Cardinality(Wanted' \cap Pipes) + Leaving(Pipes)'
    BY <1>0, <1>1, <2>1, <2>4, <2>6, <2>7 DEF l, P
  <2>10. Counted'
    BY <1>1, <2>1, <2>4, <2>5, <2>6, <2>7, <2>8, <2>9 DEF Counted, n, l
  <2>11. Effect
    BY <1>0, <2>2, <2>3, <2>4, <2>7
  <2> QED BY <2>10, <2>11
<1>5. ASSUME NEW fd \in Pipes, AddPipe(c, fd) PROVE Counted' /\ Effect
  <2>1. /\ mgr = "live" /\ mgr' = "live" /\ UNCHANGED num_sockets
        /\ 2 * l < max_pipes /\ pipes_arr' = Append(pipes_arr, fd)
    BY <1>5 DEF AddPipe
  <2>2. fd \in AppFds /\ fd \notin Sockets
    BY <1>0
  <2>3. /\ fd \notin Wanted /\ Wanted' = Wanted \cup {fd}
        /\ Request(c, fd, "ADD") /\ ~Leaves(call[c], Fds)
    BY <1>5, <2>2, AddWanted
  <2>4. /\ Leaving(Sockets) = 0 /\ Leaving(Pipes) = 0
        /\ Leaving(Sockets)' = 0 /\ Leaving(Pipes)' = 0
        /\ \A d \in Callers : call'[d].pc = "waiting"
        /\ pri_pipe' = Append(pri_pipe, [fd |-> fd, act |-> "ADD"])
    BY <1>3, <2>2, <2>3
  <2>5. Len(pipes_arr') = l + 1 /\ l + 1 <= 2 + MaxAppPipes
    <3>1. Len(pipes_arr') = l + 1
      BY <2>1 DEF Inv, TypeOK
    <3> QED BY <1>0, <2>1, <3>1, ConstantsAssumption DEF max_pipes
  <2>6. /\ IsFiniteSet(Wanted' \cap Pipes) /\ Cardinality(Wanted' \cap Pipes) = P + 1
        /\ Wanted' \cap Sockets = Wanted \cap Sockets
    BY <1>f, <2>2, <2>3, KindMore, KindSame, Zenon
  <2> HIDE DEF n, l, S, P
  <2>8. num_sockets' = Cardinality(Wanted' \cap Sockets) + Leaving(Sockets)'
    BY <1>0, <1>1, <2>1, <2>4, <2>6 DEF n, S
  <2>9. Len(pipes_arr') = 2 + Cardinality(Wanted' \cap Pipes) + Leaving(Pipes)'
    BY <1>0, <1>1, <2>1, <2>4, <2>5, <2>6
  <2>10. Counted'
    BY <1>1, <2>1, <2>4, <2>5, <2>6, <2>8, <2>9 DEF Counted, n, l
  <2>11. Effect
    BY <2>1, <2>2, <2>3, <2>4
  <2> QED BY <2>10, <2>11
<1>6. ASSUME NEW fd \in Deletable, DeleteFd(c, fd) PROVE Counted' /\ Effect
  <2>1. mgr = "live" /\ mgr' = "live" /\ UNCHANGED <<num_sockets, pipes_arr>>
    BY <1>6 DEF DeleteFd
  <2>2. /\ fd \in Wanted /\ Wanted' = Wanted \ {fd} /\ fd \in AppFds
        /\ Request(c, fd, "DELETE") /\ ~Leaves(call[c], Fds)
    BY <1>6, DeleteWanted
  <2>3. /\ Leaving(Sockets) = 0 /\ Leaving(Pipes) = 0
        /\ Leaving(Sockets)' = (IF fd \in Sockets THEN 1 ELSE 0)
        /\ Leaving(Pipes)' = (IF fd \in Pipes THEN 1 ELSE 0)
        /\ \A d \in Callers : call'[d].pc = "waiting"
        /\ pri_pipe' = Append(pri_pipe, [fd |-> fd, act |-> "DELETE"])
    BY <1>3, <2>2
  <2>4. /\ IsFiniteSet(Wanted' \cap Pipes) /\ IsFiniteSet(Wanted' \cap Sockets)
        /\ Cardinality(Wanted' \cap Sockets) + Leaving(Sockets)' = S
        /\ 2 + Cardinality(Wanted' \cap Pipes) + Leaving(Pipes)' = 2 + P
    <3>1. CASE fd \in Sockets
      <4>1. fd \notin Pipes
        BY <1>0, <3>1
      <4>2. Cardinality(Wanted' \cap Sockets) = S - 1 /\ IsFiniteSet(Wanted' \cap Sockets)
            /\ Wanted' \cap Pipes = Wanted \cap Pipes
        BY <1>f, <2>2, <3>1, <4>1, KindLess, KindSame, ZenonT(60)
      <4>3. Leaving(Sockets)' = 1 /\ Leaving(Pipes)' = 0 /\ Cardinality(Wanted' \cap Pipes) = P
        BY <2>3, <3>1, <4>1, <4>2
      <4>4. S \in Nat /\ P \in Nat /\ IsFiniteSet(Wanted' \cap Pipes)
            /\ IsFiniteSet(Wanted' \cap Sockets)
        BY <1>0, <1>f, <4>2
      <4> HIDE DEF S, P
      <4> QED BY <4>2, <4>3, <4>4
    <3>2. CASE fd \in Pipes
      <4>1. fd \notin Sockets
        BY <1>0, <3>2
      <4>2. Cardinality(Wanted' \cap Pipes) = P - 1 /\ IsFiniteSet(Wanted' \cap Pipes)
            /\ Wanted' \cap Sockets = Wanted \cap Sockets
        BY <1>f, <2>2, <3>2, <4>1, KindLess, KindSame, ZenonT(60)
      <4>3. Leaving(Pipes)' = 1 /\ Leaving(Sockets)' = 0 /\ Cardinality(Wanted' \cap Sockets) = S
        BY <2>3, <3>2, <4>1, <4>2
      <4>4. S \in Nat /\ P \in Nat /\ IsFiniteSet(Wanted' \cap Pipes)
            /\ IsFiniteSet(Wanted' \cap Sockets)
        BY <1>0, <1>f, <4>2
      <4> HIDE DEF S, P
      <4> QED BY <4>2, <4>3, <4>4
    <3> QED BY <2>2, <3>1, <3>2 DEF AppFds
  <2> HIDE DEF n, l, S, P
  <2>5. n = S /\ l = 2 + P
    BY <1>0, <1>1, <2>1, <2>3
  <2>6. Counted'
    BY <1>1, <2>1, <2>3, <2>4, <2>5 DEF Counted, n, l
  <2>7. Effect
    BY <2>1, <2>2, <2>3
  <2> QED BY <2>6, <2>7
\* the other steps
<1>7. ASSUME NEW fd \in Sockets, AddSocketCheck(c, fd) PROVE Counted' /\ Effect
  <2> DEFINE r == [pc |-> "checked", act |-> "ADD", fd |-> fd, reg |-> num_sockets]
  <2>1. /\ call' = [call EXCEPT ![c] = r] /\ ~Busy(c) /\ mgr = "live" /\ num_sockets # MaxSockets
        /\ UNCHANGED <<owned, pri_pipe, num_sockets, pipes_arr, mgr>>
    BY <1>7 DEF AddSocketCheck
  <2>2. r \in Call /\ r.pc = "checked" /\ r.act = "ADD" /\ r.fd = fd /\ r.reg = num_sockets
    BY <1>0 DEF Call, Inv, TypeOK
  <2> HIDE DEF r
  <2>3. /\ ~Wants(r) /\ ~Wants(call[c])
        /\ \A T : ~Leaves(r, T) /\ ~Leaves(call[c], T)
    BY <2>1, <2>2 DEF Wants, Leaves, Busy
  <2>4. Wanted' = Wanted
    BY <2>1, <2>3, QuietWanted
  <2>5. Counted'
    BY <2>1, <2>2, <2>3, <2>4, CountedKept
  <2> QED BY <2>1, <2>4, <2>5
<1>8. CASE \/ \E fd \in Sockets : AddSocketMaxOut(c, fd)
           \/ \E fd \in Pipes : AddPipeMaxOut(c, fd)
  <2>1. UNCHANGED vars
    BY <1>8 DEF AddSocketMaxOut, AddPipeMaxOut
  <2>2. Wanted' = Wanted /\ UNCHANGED pri_pipe
    BY <2>1 DEF vars, Wanted
  <2>3. Leaving(Sockets)' = Leaving(Sockets) /\ Leaving(Pipes)' = Leaving(Pipes)
    BY <2>1 DEF vars, Leaving
  <2>4. Counted'
    BY <2>1, <2>2, <2>3 DEF vars, Counted, Busy
  <2> QED BY <2>2, <2>4
<1>9. CASE SpuriousWakeup(c)
  <2> DEFINE r == [call[c] EXCEPT !.pc = "woken"]
  <2>1. /\ call' = [call EXCEPT ![c] = r] /\ call[c].pc = "waiting" /\ Busy(c)
        /\ UNCHANGED <<owned, pri_pipe, num_sockets, pipes_arr, mgr>>
    BY <1>9 DEF SpuriousWakeup, Busy
  <2>2. r \in Call /\ r.pc = "woken" /\ r.act = call[c].act /\ r.fd = call[c].fd
    BY <1>0 DEF Call
  <2> HIDE DEF r
  <2>3. /\ Wants(r) <=> Wants(call[c])
        /\ \A T : Leaves(r, T) <=> Leaves(call[c], T)
    BY <2>1, <2>2 DEF Wants, Leaves
  <2>4. Wanted' = Wanted
    BY <2>1, <2>2, <2>3, QuietWanted
  <2>5. Counted'
    BY <1>2, <2>1, <2>2, <2>3, <2>4, CountedKept
  <2> QED BY <2>1, <2>4, <2>5
<1>10. CASE ReturnAdd(c)
  <2>1. /\ call' = [call EXCEPT ![c] = Idle] /\ Wants(call[c]) /\ call[c].act = "ADD" /\ Busy(c)
        /\ owned' = owned \cup {call[c].fd} /\ UNCHANGED <<pri_pipe, num_sockets, pipes_arr, mgr>>
    BY <1>10 DEF ReturnAdd, Wants, Busy
  <2>2. \A T : ~Leaves(call[c], T)
    BY <2>1 DEF Leaves
  <2>3. Wanted' = Wanted
    BY <1>0, <2>1, QuietWanted
  <2>4. Counted'
    BY <1>0, <1>2, <2>1, <2>2, <2>3, CountedKept
  <2> QED BY <2>1, <2>3, <2>4
<1>11. CASE ReturnDeletePipe(c)
  <2>1. /\ call' = [call EXCEPT ![c] = Idle] /\ call[c].act = "DELETE" /\ Busy(c)
        /\ call[c].fd \in Pipes /\ UNCHANGED <<owned, pri_pipe, num_sockets, mgr>>
        /\ \E i \in DOMAIN pipes_arr : pipes_arr' = RemoveAt(pipes_arr, i)
    BY <1>11 DEF ReturnDeletePipe, Busy
  <2>2. ~Wants(call[c]) /\ Leaves(call[c], Pipes) /\ ~Leaves(call[c], Sockets)
    BY <1>0, <2>1 DEF Wants, Leaves, Busy
  <2>3. Wanted' = Wanted
    BY <1>0, <2>1, <2>2, QuietWanted
  <2>4. Len(pipes_arr') = l - 1
    <3>1. pipes_arr \in Seq(Pipes \cup {PriFd, DataFd})
      BY DEF Inv, TypeOK
    <3>2. PICK i \in 1 .. l : pipes_arr' = RemoveAt(pipes_arr, i)
      BY <2>1, <3>1
    <3> QED BY <3>1, <3>2, RemoveAtElements
  <2>5. /\ Leaving(Sockets) = 0 /\ Leaving(Pipes) = 1
        /\ Leaving(Sockets)' = 0 /\ Leaving(Pipes)' = 0
    BY <1>0, <2>1, <2>2, LeavingStep
  <2>6. mgr' # "freed" /\ mgr # "freed"
    BY <1>2, <2>1
  <2>7. \A d \in Callers : call'[d].pc = "idle"
    BY <1>0, <2>1
  <2> HIDE DEF n, l, S, P
  <2>8. Len(pipes_arr') = 2 + Cardinality(Wanted' \cap Pipes) + Leaving(Pipes)'
        /\ Len(pipes_arr') <= 2 + MaxAppPipes
    BY <1>0, <1>1, <2>3, <2>4, <2>5, <2>6, ConstantsAssumption DEF P
  <2>9. num_sockets' = Cardinality(Wanted' \cap Sockets) + Leaving(Sockets)'
    BY <1>1, <2>1, <2>3, <2>5 DEF n, S
  <2>10. Counted'
    BY <1>1, <2>1, <2>3, <2>6, <2>7, <2>8, <2>9 DEF Counted, n
  <2> QED BY <2>1, <2>3, <2>10
<1>12. CASE LoadCount(c)
  <2> DEFINE r == [call[c] EXCEPT !.pc = "loaded", !.reg = num_sockets]
  <2>1. /\ call' = [call EXCEPT ![c] = r] /\ call[c].act = "DELETE" /\ Busy(c)
        /\ UNCHANGED <<owned, pri_pipe, num_sockets, pipes_arr, mgr>>
    BY <1>12 DEF LoadCount, Busy
  <2>2. r \in Call /\ r.pc = "loaded" /\ r.act = call[c].act /\ r.fd = call[c].fd
        /\ r.reg = num_sockets
    BY <1>0 DEF Call, Inv, TypeOK
  <2> HIDE DEF r
  <2>3. /\ ~Wants(r) /\ ~Wants(call[c])
        /\ \A T : Leaves(r, T) <=> Leaves(call[c], T)
    BY <2>1, <2>2 DEF Wants, Leaves, Busy
  <2>4. Wanted' = Wanted
    BY <2>1, <2>2, <2>3, QuietWanted
  <2>5. Counted'
    BY <1>2, <2>1, <2>2, <2>3, <2>4, CountedKept
  <2> QED BY <2>1, <2>4, <2>5
<1>13. CASE StoreCount(c)
  <2>1. /\ call' = [call EXCEPT ![c] = Idle] /\ call[c].pc = "loaded" /\ Busy(c)
        /\ num_sockets' = Dec(call[c].reg) /\ UNCHANGED <<owned, pri_pipe, pipes_arr, mgr>>
    BY <1>13 DEF StoreCount, Busy
  <2>2. call[c].act = "DELETE" /\ call[c].fd \in Sockets
    BY <1>2, <2>1 DEF CallFits
  <2>3. ~Wants(call[c]) /\ ~Leaves(call[c], Pipes) /\ Leaves(call[c], Sockets)
    BY <1>0, <2>1, <2>2 DEF Wants, Leaves
  <2>4. Wanted' = Wanted
    BY <1>0, <2>1, <2>3, QuietWanted
  <2>5. /\ Leaving(Sockets) = 1 /\ Leaving(Pipes) = 0
        /\ Leaving(Sockets)' = 0 /\ Leaving(Pipes)' = 0
    BY <1>0, <2>1, <2>3, LeavingStep
  <2>6. \A d \in Callers : call'[d].pc = "idle"
    BY <1>0, <2>1
  <2>7. mgr' # "freed" /\ mgr # "freed"
    BY <1>2, <2>1
  <2> HIDE DEF n, l, S, P
  <2>8. n = S + 1 /\ n # 0
    BY <1>0, <1>1, <2>5
  <2>9. num_sockets' = n - 1
    BY <1>1, <2>1, <2>8 DEF Dec
  <2>10. num_sockets' = Cardinality(Wanted' \cap Sockets) + Leaving(Sockets)'
         /\ num_sockets' <= MaxSockets
    BY <1>0, <1>1, <2>4, <2>5, <2>8, <2>9, ConstantsAssumption DEF S
  <2>11. Len(pipes_arr') = 2 + Cardinality(Wanted' \cap Pipes) + Leaving(Pipes)'
    BY <1>1, <2>1, <2>4, <2>5, <2>7 DEF l, P
  <2>12. Counted'
    BY <1>1, <2>1, <2>4, <2>6, <2>7, <2>10, <2>11 DEF Counted, l
  <2> QED BY <2>1, <2>4, <2>12
<1>14. CASE Free(c)
  <2> DEFINE r == [pc |-> "waiting", act |-> "DELETE", fd |-> PriFd, reg |-> 0]
  <2>1. /\ call' = [call EXCEPT ![c] = r] /\ ~Busy(c) /\ mgr = "live" /\ mgr' = "freeing"
        /\ UNCHANGED <<owned, num_sockets, pipes_arr>>
        /\ pri_pipe' = Append(pri_pipe, [fd |-> PriFd, act |-> "DELETE"])
    BY <1>14 DEF Free, Request
  <2>2. r \in Call /\ r.pc = "waiting" /\ r.act = "DELETE" /\ r.fd = PriFd
    BY ConstantsAssumption DEF Call, Fds
  <2> HIDE DEF r
  <2>3. /\ ~Wants(r) /\ ~Wants(call[c])
        /\ ~Leaves(r, Sockets) /\ ~Leaves(r, Pipes)
        /\ ~Leaves(call[c], Sockets) /\ ~Leaves(call[c], Pipes)
    BY <1>0, <2>1, <2>2 DEF Wants, Leaves, Busy
  <2>4. Wanted' = Wanted
    BY <2>1, <2>3, QuietWanted
  <2>5. Counted'
    BY <2>1, <2>2, <2>3, <2>4, CountedKept
  <2> QED BY <2>1, <2>4, <2>5
<1>15. CASE ReturnFree(c)
  <2> DEFINE r == [call[c] EXCEPT !.pc = "joining"]
  <2>1. /\ call' = [call EXCEPT ![c] = r] /\ call[c].act = "DELETE" /\ Busy(c)
        /\ UNCHANGED <<owned, pri_pipe, num_sockets, pipes_arr, mgr>>
    BY <1>15 DEF ReturnFree, Busy
  <2>2. r \in Call /\ r.pc = "joining" /\ r.act = call[c].act /\ r.fd = call[c].fd
    BY <1>0 DEF Call
  <2> HIDE DEF r
  <2>3. /\ ~Wants(r) /\ ~Wants(call[c])
        /\ \A T : Leaves(r, T) <=> Leaves(call[c], T)
    BY <2>1, <2>2 DEF Wants, Leaves, Busy
  <2>4. Wanted' = Wanted
    BY <2>1, <2>2, <2>3, QuietWanted
  <2>5. Counted'
    BY <1>2, <2>1, <2>2, <2>3, <2>4, CountedKept
  <2> QED BY <2>1, <2>4, <2>5
<1>16. CASE Join(c)
  <2>1. /\ call' = [call EXCEPT ![c] = Idle] /\ call[c].pc = "joining" /\ Busy(c)
        /\ mgr' = "freed" /\ pipes_arr' = <<>> /\ UNCHANGED <<owned, pri_pipe, num_sockets>>
    BY <1>16 DEF Join, Busy
  <2>2. call[c].fd = PriFd
    BY <1>2, <2>1 DEF CallFits
  <2>3. ~Wants(call[c]) /\ ~Leaves(call[c], Pipes) /\ ~Leaves(call[c], Sockets)
    BY <1>0, <2>1, <2>2 DEF Wants, Leaves
  <2>4. Wanted' = Wanted
    BY <1>0, <2>1, <2>3, QuietWanted
  <2>5. Counted'
    BY <1>0, <2>1, <2>3, <2>4, CountedKept
  <2> QED BY <2>1, <2>4, <2>5
<1> HIDE DEF Effect
<1> QED BY <1>4, <1>5, <1>6, <1>7, <1>8, <1>9, <1>10, <1>11, <1>12, <1>13, <1>14, <1>15,
           <1>16 DEF Caller

\* The same for the state after a step.
LEMMA WantedFits ==
  ASSUME Counted', Wanted' \subseteq AppFds, mgr' # "freed"
  PROVE  /\ IsFiniteSet(Wanted') /\ Cardinality(Wanted') \in Nat
         /\ 2 + Cardinality(Wanted') <= max_pollfds
<1> DEFINE W == Wanted'
           ls == Leaving(Sockets)'
           lp == Leaving(Pipes)'
<1>1. /\ IsFiniteSet(W \cap Sockets) /\ IsFiniteSet(W \cap Pipes)
      /\ Cardinality(W \cap Sockets) + ls <= MaxSockets
      /\ 2 + Cardinality(W \cap Pipes) + lp <= 2 + MaxAppPipes
  BY DEF Counted
<1>2. ls \in {0, 1} /\ lp \in {0, 1} /\ W \subseteq AppFds
  BY DEF Leaving
<1> HIDE DEF W, ls, lp
<1>3. IsFiniteSet(W) /\ Cardinality(W) \in Nat /\ 2 + Cardinality(W) <= max_pollfds
  BY <1>1, <1>2, WantedBound
<1> QED BY <1>3 DEF W

\* A caller's step leaves room for all that is queued.
LEMMA CallerRoom ==
  ASSUME Inv, QueueInv, RoomInv, \A x, y \in Callers : x = y, NEW c \in Callers, Caller(c)
  PROVE  RoomInv'
<1>0. /\ UNCHANGED <<tpc, num_pollfds>> /\ pri_pipe \in Seq(ThrMsg)
      /\ Running' <=> Running
  BY DEF Caller, AddSocketCheck, AddSocketMaxOut, AddSocketRequest, AddPipe,
       AddPipeMaxOut, DeleteFd, SpuriousWakeup, ReturnAdd, ReturnDeletePipe, LoadCount,
       StoreCount, Free, ReturnFree, Join, vars, thrVars, Inv, TypeOK, Running
<1> DEFINE Append1(fd, a) == pri_pipe' = Append(pri_pipe, [fd |-> fd, act |-> a])
<1>1. /\ Counted'
      /\ \/ Wanted' = Wanted /\ UNCHANGED pri_pipe
         \/ \E fd \in AppFds : /\ fd \notin Wanted /\ Wanted' = Wanted \cup {fd}
                               /\ Append1(fd, "ADD") /\ mgr' # "freed"
         \/ \E fd \in AppFds : /\ fd \in Wanted /\ Wanted' = Wanted \ {fd}
                               /\ Append1(fd, "DELETE") /\ mgr' # "freed"
         \/ Wanted' = Wanted /\ Append1(PriFd, "DELETE")
  BY CallerCounted DEF RoomInv
<1>2. NoOverflow'
  BY <1>0 DEF RoomInv, NoOverflow
<1>3. Wanted \subseteq AppFds
  BY WantedApp
<1>4. Room'
  <2> SUFFICES ASSUME Running, num_pollfds # 0
               PROVE  \E g \in [0 .. Len(pri_pipe') -> 0 .. max_pollfds] :
                        /\ Sizes(pri_pipe', g)
                        /\ g[0] = num_pollfds /\ g[Len(pri_pipe')] = 2 + Cardinality(Wanted')
    BY <1>0 DEF Room
  <2>1. PICK f \in [0 .. Len(pri_pipe) -> 0 .. max_pollfds] :
          /\ Sizes(pri_pipe, f)
          /\ f[0] = num_pollfds /\ f[Len(pri_pipe)] = 2 + Cardinality(Wanted)
    BY DEF RoomInv, Room
  <2>2. f[Len(pri_pipe)] \in 0 .. max_pollfds
    <3>1. Len(pri_pipe) \in Nat
      BY <1>0
    <3>2. Len(pri_pipe) \in 0 .. Len(pri_pipe)
      BY <3>1
    <3> QED BY <3>2
  <2>3. ASSUME NEW m \in ThrMsg, pri_pipe' = Append(pri_pipe, m),
               2 + Cardinality(Wanted') \in 0 .. max_pollfds,
               2 + Cardinality(Wanted') =
                 IF m.fd \notin AppFds THEN f[Len(pri_pipe)]
                 ELSE IF m.act = "ADD" THEN f[Len(pri_pipe)] + 1 ELSE f[Len(pri_pipe)] - 1
        PROVE  \E g \in [0 .. Len(pri_pipe') -> 0 .. max_pollfds] :
                 /\ Sizes(pri_pipe', g)
                 /\ g[0] = num_pollfds /\ g[Len(pri_pipe')] = 2 + Cardinality(Wanted')
    <3> DEFINE v == 2 + Cardinality(Wanted')
               q == pri_pipe
    <3>1. /\ v \in 0 .. max_pollfds /\ q \in Seq(ThrMsg)
          /\ v = IF m.fd \notin AppFds THEN f[Len(q)]
                 ELSE IF m.act = "ADD" THEN f[Len(q)] + 1 ELSE f[Len(q)] - 1
          /\ f \in [0 .. Len(q) -> 0 .. max_pollfds] /\ Sizes(q, f)
      BY <1>0, <2>1, <2>3
    <3> HIDE DEF v, q
    <3>2. \E g \in [0 .. Len(Append(q, m)) -> 0 .. max_pollfds] :
            Sizes(Append(q, m), g) /\ g[0] = f[0] /\ g[Len(Append(q, m))] = v
      BY <3>1, SizesAppend, SMTT(30)
    <3> QED BY <2>1, <2>3, <3>2 DEF v, q
  <2>4. CASE Wanted' = Wanted /\ UNCHANGED pri_pipe
    BY <2>1, <2>4
  <2>5. ASSUME NEW fd \in AppFds, fd \notin Wanted, Wanted' = Wanted \cup {fd},
               Append1(fd, "ADD"), mgr' # "freed"
        PROVE  \E g \in [0 .. Len(pri_pipe') -> 0 .. max_pollfds] :
                 /\ Sizes(pri_pipe', g)
                 /\ g[0] = num_pollfds /\ g[Len(pri_pipe')] = 2 + Cardinality(Wanted')
    <3> DEFINE m == [fd |-> fd, act |-> "ADD"]
    <3>1. m \in ThrMsg /\ m.fd \in AppFds /\ m.act = "ADD" /\ pri_pipe' = Append(pri_pipe, m)
      BY <2>5 DEF ThrMsg, AppFds, Fds
    <3>2. /\ IsFiniteSet(Wanted') /\ Cardinality(Wanted') \in Nat
          /\ 2 + Cardinality(Wanted') <= max_pollfds
      BY <1>1, <1>3, <2>5, WantedFits
    <3>3. Wanted = Wanted' \ {fd} /\ fd \in Wanted'
      BY <2>5
    <3>4. Cardinality(Wanted) = Cardinality(Wanted') - 1
      <4> DEFINE V == Wanted'
      <4>1. IsFiniteSet(V) /\ Wanted = V \ {fd} /\ fd \in V
        BY <3>2, <3>3
      <4> HIDE DEF V
      <4>2. Cardinality(V \ {fd}) = Cardinality(V) - 1
        BY <4>1, FS_RemoveElement
      <4> QED BY <4>1, <4>2 DEF V
    <3> HIDE DEF m
    <3>5. 2 + Cardinality(Wanted') \in 0 .. max_pollfds
      BY <3>2, SlotFacts
    <3>6. 2 + Cardinality(Wanted') = f[Len(pri_pipe)] + 1
      BY <2>1, <3>2, <3>4
    <3> QED BY <2>3, <3>1, <3>5, <3>6
  <2>6. ASSUME NEW fd \in AppFds, fd \in Wanted, Wanted' = Wanted \ {fd},
               Append1(fd, "DELETE"), mgr' # "freed"
        PROVE  \E g \in [0 .. Len(pri_pipe') -> 0 .. max_pollfds] :
                 /\ Sizes(pri_pipe', g)
                 /\ g[0] = num_pollfds /\ g[Len(pri_pipe')] = 2 + Cardinality(Wanted')
    <3> DEFINE m == [fd |-> fd, act |-> "DELETE"]
    <3>1. m \in ThrMsg /\ m.fd \in AppFds /\ m.act = "DELETE" /\ pri_pipe' = Append(pri_pipe, m)
      BY <2>6 DEF ThrMsg, AppFds, Fds
    <3>2. /\ IsFiniteSet(Wanted') /\ Cardinality(Wanted') \in Nat
          /\ 2 + Cardinality(Wanted') <= max_pollfds
      BY <1>1, <1>3, <2>6, WantedFits
    <3>3. Wanted = Wanted' \cup {fd} /\ fd \notin Wanted'
      BY <2>6
    <3>4. Cardinality(Wanted) = Cardinality(Wanted') + 1
      <4> DEFINE V == Wanted'
      <4>1. IsFiniteSet(V) /\ Wanted = V \cup {fd} /\ fd \notin V
        BY <3>2, <3>3
      <4> HIDE DEF V
      <4>2. Cardinality(V \cup {fd}) = Cardinality(V) + 1
        BY <4>1, FS_AddElement
      <4> QED BY <4>1, <4>2 DEF V
    <3> HIDE DEF m
    <3>5. 2 + Cardinality(Wanted') \in 0 .. max_pollfds
      BY <3>2, SlotFacts
    <3>6. 2 + Cardinality(Wanted') = f[Len(pri_pipe)] - 1
      BY <2>1, <3>2, <3>4
    <3> QED BY <2>3, <3>1, <3>5, <3>6
  <2>7. CASE Wanted' = Wanted /\ Append1(PriFd, "DELETE")
    <3> DEFINE m == [fd |-> PriFd, act |-> "DELETE"]
    <3>1. m \in ThrMsg /\ m.fd \notin AppFds /\ pri_pipe' = Append(pri_pipe, m)
      BY <2>7, ConstantsAssumption DEF ThrMsg, AppFds, Fds
    <3> HIDE DEF m
    <3>2. 2 + Cardinality(Wanted') = f[Len(pri_pipe)]
      BY <2>1, <2>7
    <3> QED BY <2>2, <2>3, <3>1, <3>2
  <2> QED BY <1>1, <2>4, <2>5, <2>6, <2>7
<1> QED BY <1>1, <1>2, <1>4 DEF RoomInv

\* Steps of the thread leave the counters alone.
LEMMA ThreadCounted ==
  ASSUME Inv, Counted, UNCHANGED <<num_sockets, pipes_arr, mgr, owned>>,
         \A c \in Callers :
           /\ call'[c].fd = call[c].fd /\ call'[c].act = call[c].act
           /\ call'[c].reg = call[c].reg
           /\ call'[c].pc = call[c].pc \/ (call[c].pc = "waiting" /\ call'[c].pc = "woken")
  PROVE  Counted' /\ Wanted' = Wanted
<1>1. \A c \in Callers : /\ Busy(c)' <=> Busy(c)
                         /\ Wants(call'[c]) <=> Wants(call[c])
                         /\ \A S : Leaves(call'[c], S) <=> Leaves(call[c], S)
  BY DEF Busy, Wants, Leaves
<1>2. Wanted' = Wanted
  <2>1. \A fd : /\ fd \in Wanted <=>
                     fd \in owned \/ \E c \in Callers : Wants(call[c]) /\ fd = call[c].fd
                /\ fd \in Wanted' <=>
                     fd \in owned' \/ \E c \in Callers : Wants(call'[c]) /\ fd = call'[c].fd
    BY DEF Wanted, Wants
  <2>2. \A fd : fd \in Wanted' <=> fd \in Wanted
    BY <1>1, <2>1
  <2> QED BY <2>2
<1>3. Leaving(Sockets)' = Leaving(Sockets) /\ Leaving(Pipes)' = Leaving(Pipes)
  <2>1. ASSUME NEW S PROVE Leaving(S)' = Leaving(S)
    <3>1. Leaving(S)' = IF \E c \in Callers : Leaves(call'[c], S) THEN 1 ELSE 0
      BY DEF Leaving, Leaves
    <3> QED BY <1>1, <3>1 DEF Leaving
  <2> QED BY <2>1
<1>4. Counted'
  BY <1>1, <1>2, <1>3 DEF Counted
<1> QED BY <1>2, <1>4

\* The thread handles the oldest request: the next size is its new one.
LEMMA PriPipeRoom ==
  ASSUME Inv, QueueInv, RoomInv, PriPipe
  PROVE  RoomInv'
<1> DEFINE msg == Head(pri_pipe)
           n == num_pollfds
<1>1. /\ tpc = "sweep" /\ Running /\ n >= 2 /\ n \in Nat /\ n <= max_pollfds
      /\ pri_pipe \in Seq(ThrMsg) /\ pri_pipe # <<>> /\ pri_pipe' = Tail(pri_pipe)
      /\ msg \in ThrMsg /\ UNCHANGED mgrVars /\ HasData
  <2>1. tpc = "sweep" /\ n >= 2 /\ msg \in ThrMsg /\ HasData
    BY PriPipeServes
  <2>2. n \in Nat /\ n <= max_pollfds /\ pri_pipe \in Seq(ThrMsg)
    BY SlotFacts DEF Inv, TypeOK
  <2> QED BY <2>1, <2>2 DEF PriPipe, Running
<1>2. Counted' /\ Wanted' = Wanted
  BY <1>1, ThreadCounted DEF mgrVars, RoomInv
<1>3. PICK f \in [0 .. Len(pri_pipe) -> 0 .. max_pollfds] :
        /\ Sizes(pri_pipe, f)
        /\ f[0] = n /\ f[Len(pri_pipe)] = 2 + Cardinality(Wanted)
  BY <1>1 DEF RoomInv, Room
<1>4. Len(pri_pipe) \in Nat /\ 1 \in 1 .. Len(pri_pipe) /\ msg = pri_pipe[1]
  <2>1. Len(pri_pipe) \in Nat /\ Len(pri_pipe) # 0
    BY <1>1
  <2> QED BY <1>1, <2>1, HeadTailProperties
<1>5. /\ f[1] \in 0 .. max_pollfds
      /\ f[1] = IF msg.fd \notin AppFds THEN n ELSE IF msg.act = "ADD" THEN n + 1 ELSE n - 1
  <2>1. 1 \in 0 .. Len(pri_pipe) /\ 1 - 1 = 0
    BY <1>4
  <2>2. f[1] = IF pri_pipe[1].fd \notin AppFds THEN f[1 - 1]
               ELSE IF pri_pipe[1].act = "ADD" THEN f[1 - 1] + 1 ELSE f[1 - 1] - 1
    BY <1>3, <1>4 DEF Sizes
  <2> QED BY <1>3, <1>4, <2>1, <2>2
<1>6. /\ msg.fd \in Fds /\ msg.act \in {"ADD", "DELETE"}
      /\ msg.fd \in AppFds => (msg.act = "ADD" <=> msg.fd \notin Polled)
      /\ msg.act = "ADD" => msg.fd \in AppFds
  <2>1. Alternates(pri_pipe, Polled, Wanted)
    BY <1>1 DEF QueueInv
  <2>2. \A k \in 1 .. 1 - 1 : pri_pipe[k].fd # msg.fd
    OBVIOUS
  <2>3. msg.fd \in AppFds => (msg.act = "ADD" <=> msg.fd \notin Polled)
    BY <1>4, <2>1, <2>2 DEF Alternates
  <2>4. msg.act = "ADD" => msg.fd \in AppFds
    BY <1>4 DEF QueueInv, OneUser
  <2> QED BY <1>1, <2>3, <2>4 DEF ThrMsg
<1>7. pollfd_arr[0].fd = PriFd /\ pollfd_arr[1].fd = DataFd
  BY <1>1 DEF Inv, Shape, AdminPipesFirst
<1>8. tpc' # "overflow" /\ (num_pollfds' = 0 \/ num_pollfds' = f[1])
  <2>1. CASE msg.act = "ADD" /\ AddFd(msg.fd)
    <3>1. f[1] = n + 1 /\ msg.fd \notin Polled
      BY <1>5, <1>6, <2>1
    <3>2. n \in Slots
      BY <1>1, <1>5, <3>1, SlotFacts
    <3>3. tpc' = "signal"
      BY <2>1, <3>1, <3>2 DEF AddFd
    <3>4. num_pollfds' = n + 1
      BY <1>6, <2>1, <3>3, AddFdPolled
    <3> QED BY <3>1, <3>3, <3>4
  <2>2. CASE num_pollfds' = 0 /\ Advance
    BY <2>2 DEF Advance
  <2>3. CASE /\ msg.act = "DELETE" /\ msg.fd \notin {pollfd_arr[0].fd, pollfd_arr[1].fd}
             /\ RemoveFd(msg.fd)
    <3>1. msg.fd \in AppFds
      BY <1>6, <1>7, <2>3 DEF Fds, AppFds
    <3>2. f[1] = n - 1 /\ msg.fd \in Polled
      BY <1>5, <1>6, <2>3, <3>1
    <3>3. num_pollfds' = n - 1 /\ tpc' = "signal"
      BY <1>6, <2>3, <3>2, RemoveFdPolled DEF RemoveFd
    <3> QED BY <3>2, <3>3
  <2> QED BY <2>1, <2>2, <2>3 DEF PriPipe
<1>9. Room'
  <2> DEFINE q == pri_pipe
  <2>1. q \in Seq(ThrMsg) /\ q # <<>> /\ Sizes(q, f) /\ f \in [0 .. Len(q) -> 0 .. max_pollfds]
    BY <1>1, <1>3
  <2> HIDE DEF q
  <2>2. PICK g \in [0 .. Len(Tail(q)) -> 0 .. max_pollfds] :
          Sizes(Tail(q), g) /\ g[0] = f[1] /\ g[Len(Tail(q))] = f[Len(q)]
    BY <2>1, SizesTail
  <2>3. /\ g \in [0 .. Len(pri_pipe') -> 0 .. max_pollfds] /\ Sizes(pri_pipe', g)
        /\ g[0] = f[1] /\ g[Len(pri_pipe')] = 2 + Cardinality(Wanted')
    BY <1>1, <1>2, <1>3, <2>2 DEF q
  <2> QED BY <1>8, <2>3 DEF Room
<1> QED BY <1>2, <1>8, <1>9 DEF RoomInv, NoOverflow

\* A step that leaves the queue and the array's size alone.
LEMMA RoomKept ==
  ASSUME Inv, RoomInv, Counted', Wanted' = Wanted, UNCHANGED <<pri_pipe, num_pollfds>>,
         Running' => Running, tpc' # "overflow"
  PROVE  RoomInv'
BY DEF RoomInv, Room, NoOverflow

\* Every step leaves room, if there is one caller.
LEMMA NextRoom ==
  ASSUME \A x, y \in Callers : x = y
  PROVE  Inv /\ QueueInv /\ RoomInv /\ [Next]_vars => RoomInv'
<1> SUFFICES ASSUME Inv, QueueInv, RoomInv, [Next]_vars PROVE RoomInv'
  OBVIOUS
<1>1. ASSUME UNCHANGED <<num_sockets, pipes_arr, mgr, owned, call, pri_pipe, num_pollfds>>,
             Running' => Running, tpc' # "overflow"
      PROVE  RoomInv'
  <2>1. Counted' /\ Wanted' = Wanted
    BY <1>1, ThreadCounted DEF RoomInv
  <2> QED BY <1>1, <2>1, RoomKept
<1>2. CASE Poll \/ DataPipe \/ PollinOnly \/ Pollout
  BY <1>1, <1>2 DEF Poll, DataPipe, PollinOnly, Pollout, Advance, mgrVars, Running
<1>3. CASE SelfDestruct \/ PollError
  BY <1>1, <1>3 DEF SelfDestruct, PollError, LeaveLoop, mgrVars, Running
<1>4. CASE PriPipe
  BY <1>4, PriPipeRoom
<1>5. CASE Signal \/ Exit
  <2>1. /\ WakeSome /\ UNCHANGED <<num_sockets, pipes_arr, mgr, owned, pri_pipe, num_pollfds>>
        /\ Running' => Running
        /\ tpc' # "overflow"
    BY <1>5 DEF Signal, Exit, Advance, Running
  <2>2. Counted' /\ Wanted' = Wanted
    BY <2>1, WakeSomeCalls, ThreadCounted DEF RoomInv
  <2> QED BY <2>1, <2>2, RoomKept
<1>6. ASSUME NEW c \in Callers, Caller(c) PROVE RoomInv'
  BY <1>6, CallerRoom
<1>7. CASE UNCHANGED vars \/ \E fd \in Sockets : Send(fd)
  BY <1>1, <1>7 DEF vars, Send, mgrVars, thrVars, RoomInv, NoOverflow, Running
<1> QED BY <1>2, <1>3, <1>4, <1>5, <1>6, <1>7 DEF Next, Thread

\* With one caller, ADD_FD never writes behind the pollfd array: the manager's
\* counters, which the thread does not see, bound every size the array goes
\* through, also when the caller returns before its request is handled.
THEOREM NoOverflowHolds ==
  ASSUME \A x, y \in Callers : x = y
  PROVE  Spec => []NoOverflow
<1>1. Init => RoomInv
  <2> SUFFICES ASSUME Init PROVE RoomInv
    OBVIOUS
  <2>1. Wanted = {} /\ Wanted \cap Sockets = {} /\ Wanted \cap Pipes = {}
    BY DEF Init, Wanted, Idle
  <2>2. Leaving(Sockets) = 0 /\ Leaving(Pipes) = 0
    BY DEF Init, Leaving, Leaves, Idle
  <2>3. Len(pipes_arr) = 2 /\ num_sockets = 0 /\ mgr = "live" /\ Len(pri_pipe) = 0
    BY DEF Init
  <2>4. Counted
    <3>1. \A c \in Callers : call[c].pc = "idle"
      BY DEF Init, Idle
    <3> QED BY <2>1, <2>2, <2>3, <3>1, FS_EmptySet, ConstantsAssumption DEF Counted
  <2>5. Room
    <3> DEFINE f == [i \in 0 .. 0 |-> 2]
    <3>1. f \in [0 .. 0 -> 0 .. max_pollfds] /\ f[0] = 2
      BY SlotFacts
    <3>2. 2 = 2 + Cardinality(Wanted) /\ num_pollfds = 2
      BY <2>1, FS_EmptySet DEF Init
    <3> HIDE DEF f
    <3>3. Sizes(pri_pipe, f)
      BY <2>3 DEF Sizes
    <3> QED BY <2>3, <3>1, <3>2, <3>3 DEF Room
  <2> QED BY <2>4, <2>5 DEF RoomInv, Init, NoOverflow
<1>2. RoomInv => NoOverflow
  BY DEF RoomInv
<1>3. Inv /\ QueueInv /\ RoomInv /\ [Next]_vars => RoomInv'
  BY NextRoom
<1> QED BY <1>1, <1>2, <1>3, Invariance, QueueInvariance, PTL DEF Spec

-----------------------------------------------------------------------------
(* Sending, when no descriptor is deleted *)

\* The only DELETE is the request for self-destruction.
NoDeletes == \A i \in 1 .. Len(pri_pipe) : pri_pipe[i].act = "DELETE" => pri_pipe[i].fd = PriFd

\* No entry has lost its slot, and POLLOUT is requested only where a message
\* waits.
Straight ==
  HasData => \A i \in 1 .. Len(fd_list) :
    /\ fd_list[i].slot = i - 1 /\ pollfd_arr[i - 1].fd = fd_list[i].fd
    /\ "OUT" \in pollfd_arr[i - 1].events => send_msg_htbl[fd_list[i].fd] # NoMsg

SendInv == NoDeletes /\ Straight /\ SendInfoPresent /\ SentOnOwnSocket

\* Steps that keep the tables.
LEMMA StraightKept ==
  ASSUME Inv, SendInv, UNCHANGED <<fd_list, send_msg_htbl, wire>>, HasData' => HasData,
         HasData' => \A k \in Slots : /\ pollfd_arr'[k].fd = pollfd_arr[k].fd
                                      /\ pollfd_arr'[k].events = pollfd_arr[k].events,
         tpc' # "abort_pollout", NoDeletes'
  PROVE  SendInv'
<1>1. \A i \in 1 .. Len(fd_list) : fd_list[i].slot \in Slots
  BY EntryFacts DEF Inv
<1>2. HasData => \A i \in 1 .. Len(fd_list) : i - 1 \in Slots
  BY <1>1 DEF SendInv, Straight
<1>3. Straight'
  BY <1>2 DEF SendInv, Straight
<1> QED BY <1>3 DEF SendInv, SendInfoPresent, SentOnOwnSocket

\* A request of a caller is no DELETE but that of adp_thr_mgr_free.
LEMMA CallerNoDeletes ==
  ASSUME Inv, NoDeletes, Deletable = {}, NEW c \in Callers, Caller(c)
  PROVE  NoDeletes'
<1>1. ASSUME NEW fd \in Fds, NEW act \in {"ADD", "DELETE"}, Request(c, fd, act),
             act = "DELETE" => fd = PriFd
      PROVE  NoDeletes'
  <2>1. pri_pipe \in Seq(ThrMsg) /\ pri_pipe' = Append(pri_pipe, [fd |-> fd, act |-> act])
    BY <1>1 DEF Request, Inv, TypeOK
  <2>2. [fd |-> fd, act |-> act] \in ThrMsg
    BY <1>1 DEF ThrMsg
  <2> DEFINE m == [fd |-> fd, act |-> act]
  <2>3. m \in ThrMsg /\ m.fd = fd /\ m.act = act
    BY <2>2
  <2> HIDE DEF m
  <2>4. pri_pipe' = Append(pri_pipe, m)
    BY <2>1 DEF m
  <2>5. /\ Len(pri_pipe') = Len(pri_pipe) + 1 /\ Len(pri_pipe) \in Nat
        /\ pri_pipe'[Len(pri_pipe) + 1] = m
        /\ \A i \in 1 .. Len(pri_pipe) : pri_pipe'[i] = pri_pipe[i]
    BY <2>1, <2>3, <2>4, AppendProperties
  <2> QED BY <1>1, <2>3, <2>5 DEF NoDeletes
<1>2. UNCHANGED pri_pipe => NoDeletes'
  BY DEF NoDeletes
<1>3. CASE AddSocketRequest(c)
  BY <1>1, <1>3 DEF AddSocketRequest, Inv, TypeOK, Call
<1>4. CASE \E fd \in Pipes : AddPipe(c, fd)
  BY <1>1, <1>4 DEF AddPipe, Fds
<1>5. CASE Free(c)
  BY <1>1, <1>5 DEF Free, Fds
<1>6. CASE ~(AddSocketRequest(c) \/ (\E fd \in Pipes : AddPipe(c, fd)) \/ Free(c))
  <2>1. UNCHANGED pri_pipe
    BY <1>6 DEF Caller, AddSocketCheck, AddSocketMaxOut, AddPipeMaxOut, SpuriousWakeup,
                ReturnAdd, ReturnDeletePipe, LoadCount, StoreCount, ReturnFree, Join, vars
  <2> QED BY <1>2, <2>1
<1> QED BY <1>3, <1>4, <1>5, <1>6

\* The primary pipe's callback: ADD_FD makes an entry that points to its own
\* slot, self-destruction leaves the tables alone.
LEMMA PriPipeStraight ==
  ASSUME Inv, SendInv, PriPipe
  PROVE  SendInv'
<1> DEFINE msg == Head(pri_pipe)
           n == num_pollfds
<1>1. /\ tpc = "sweep" /\ HasData /\ Len(fd_list) = n /\ n >= 2 /\ msg \in ThrMsg
      /\ pri_pipe \in Seq(ThrMsg) /\ pri_pipe # <<>> /\ pri_pipe' = Tail(pri_pipe)
      /\ pollfd_arr[0].fd = PriFd /\ UNCHANGED <<send_msg_htbl, wire>>
  BY PriPipeServes DEF PriPipe, Inv, TypeOK, Shape, AdminPipesFirst
<1>2. /\ Len(pri_pipe') = Len(pri_pipe) - 1 /\ Len(pri_pipe) \in Nat /\ Len(pri_pipe) >= 1
      /\ \A i \in 1 .. Len(pri_pipe') : pri_pipe'[i] = pri_pipe[i + 1]
      /\ msg = pri_pipe[1]
  BY <1>1, HeadTailProperties
<1>3. NoDeletes' /\ (msg.act = "DELETE" => msg.fd = PriFd)
  BY <1>2 DEF SendInv, NoDeletes
<1>4. CASE UNCHANGED <<pollfd_arr, fd_list>>
  <2>1. tpc' \in {"abort_add", "overflow", "sweep", "poll", "signal"}
    BY DEF PriPipe, AddFd, RemoveFd, Advance
  <2> QED BY <1>1, <1>3, <1>4, <2>1, StraightKept DEF HasData
<1>5. CASE ~UNCHANGED <<pollfd_arr, fd_list>>
  <2>1. msg.act = "ADD" /\ AddFd(msg.fd)
    BY <1>1, <1>3, <1>5 DEF PriPipe
  <2>2. /\ n \in Slots /\ fd_list' = Append(fd_list, NewEntry(msg.fd)) /\ tpc' = "signal"
        /\ \E left \in SUBSET Events :
             pollfd_arr' = [pollfd_arr EXCEPT ![n] = [fd |-> msg.fd, events |-> {"IN"}, revents |-> left]]
    <3>1. n \in Slots /\ msg.fd \notin Polled
      BY <1>5, <2>1 DEF AddFd
    <3>2. pollfd_arr[n].revents \in SUBSET Events
      BY <3>1 DEF Inv, TypeOK, Slot
    <3> QED BY <2>1, <3>1, <3>2 DEF AddFd
  <2>3. PICK left \in SUBSET Events :
          pollfd_arr' = [pollfd_arr EXCEPT ![n] = [fd |-> msg.fd, events |-> {"IN"}, revents |-> left]]
    BY <2>2
  <2>4. /\ \A k \in Slots : k # n => pollfd_arr'[k] = pollfd_arr[k]
        /\ pollfd_arr'[n].fd = msg.fd /\ pollfd_arr'[n].events = {"IN"}
    BY <2>2, <2>3 DEF Inv, TypeOK
  <2>5. /\ Len(fd_list') = n + 1 /\ n \in Nat
        /\ \A i \in 1 .. n : fd_list'[i] = fd_list[i]
        /\ fd_list'[n + 1].fd = msg.fd /\ fd_list'[n + 1].slot = n
    <3> DEFINE e == NewEntry(msg.fd)
    <3>1. e \in Entry /\ e.fd = msg.fd /\ e.slot = n
      BY <1>1, <2>2 DEF NewEntry, Entry, ThrMsg
    <3>2. fd_list \in Seq(Entry) /\ fd_list' = Append(fd_list, e)
      BY <2>2 DEF Inv, TypeOK
    <3> HIDE DEF e
    <3> QED BY <1>1, <3>1, <3>2, AppendProperties
  <2>6. \A i \in 1 .. n : i - 1 \in Slots /\ i - 1 # n
    BY <2>2, <2>5, SlotFacts
  <2>7. Straight'
    <3> SUFFICES ASSUME NEW i \in 1 .. n + 1
                 PROVE  /\ fd_list'[i].slot = i - 1 /\ pollfd_arr'[i - 1].fd = fd_list'[i].fd
                        /\ "OUT" \in pollfd_arr'[i - 1].events => send_msg_htbl[fd_list'[i].fd] # NoMsg
      BY <1>1, <2>5 DEF Straight
    <3>1. CASE i = n + 1
      BY <2>4, <2>5, <3>1
    <3>2. CASE i \in 1 .. n
      BY <1>1, <2>4, <2>5, <2>6, <3>2 DEF SendInv, Straight
    <3> QED BY <2>5, <3>1, <3>2
  <2> QED BY <1>1, <1>3, <2>2, <2>7 DEF SendInv, SendInfoPresent, SentOnOwnSocket
<1> QED BY <1>4, <1>5

\* What changing the events of slot k does to the others.
LEMMA EventsAt ==
  ASSUME TypeOK, NEW k \in Slots, NEW ev, pollfd_arr' = [pollfd_arr EXCEPT ![k].events = ev]
  PROVE  /\ pollfd_arr'[k].events = ev /\ pollfd_arr'[k].fd = pollfd_arr[k].fd
         /\ \A j \in Slots : j # k => pollfd_arr'[j] = pollfd_arr[j]
<1>1. pollfd_arr \in [Slots -> Slot] /\ pollfd_arr[k] \in Slot
  BY DEF TypeOK
<1> DEFINE s == [pollfd_arr[k] EXCEPT !.events = ev]
<1>2. s.events = ev /\ s.fd = pollfd_arr[k].fd
  BY <1>1 DEF Slot
<1>3. pollfd_arr' = [pollfd_arr EXCEPT ![k] = s]
  OBVIOUS
<1> HIDE DEF s
<1> QED BY <1>1, <1>2, <1>3

\* A message is stored before POLLOUT is requested for it.
LEMMA DataPipeStraight ==
  ASSUME Inv, SendInv, DataPipe
  PROVE  SendInv'
<1> DEFINE msg == NextMessage
<1>1. /\ data_pipe \in Seq(SendMsg) /\ data_pipe # <<>> /\ tpc = "sweep" /\ HasData
      /\ UNCHANGED <<pri_pipe, fd_list, wire>>
  BY DEF DataPipe, Inv, TypeOK, HasData
<1>2. msg \in SendMsg
  BY <1>1, HeadTailProperties DEF NextMessage
<1>3. msg.fd \in Fds /\ msg.n \in 1 .. MaxSends /\ msg.n # NoMsg
  BY <1>2, ConstantsAssumption DEF SendMsg, Fds
<1>4. \A fd \in Fds : send_msg_htbl[fd] # NoMsg \/ fd = msg.fd => send_msg_htbl'[fd] # NoMsg
  BY <1>3 DEF DataPipe, Inv, TypeOK
<1>5. NoDeletes' /\ SentOnOwnSocket'
  BY <1>1 DEF SendInv, NoDeletes, SentOnOwnSocket
<1>6. \A i \in 1 .. Len(fd_list) : fd_list[i].fd \in Fds /\ i - 1 \in Slots /\ fd_list[i].slot = i - 1
  BY <1>1, EntryFacts DEF Inv, SendInv, Straight
<1>7. CASE msg.fd \in Polled
  <2>1. PICK k \in 1 .. Len(fd_list) : fd_list[k].fd = msg.fd
    BY <1>7, EntryFacts DEF Inv, Polled
  <2>2. FirstWith(fd_list, msg.fd) = k
    BY <2>1, <1>1, FirstWithPlace, EntryFacts DEF Inv, Shape, DestructIsLast, HasData
  <2>3. k - 1 \in Slots /\ fd_list[k].slot = k - 1
    BY <1>6
  <2>4. Arm(msg.fd) /\ Advance
    BY <1>7 DEF DataPipe
  <2>5. pollfd_arr' = [pollfd_arr EXCEPT ![k - 1].events = pollfd_arr[k - 1].events \cup {"OUT"}]
    BY <2>2, <2>3, <2>4 DEF Arm
  <2>6. /\ pollfd_arr'[k - 1].fd = pollfd_arr[k - 1].fd
        /\ \A j \in Slots : j # k - 1 => pollfd_arr'[j] = pollfd_arr[j]
    <3> DEFINE ev == pollfd_arr[k - 1].events \cup {"OUT"}
    <3> HIDE DEF ev
    <3>1. pollfd_arr' = [pollfd_arr EXCEPT ![k - 1].events = ev]
      BY <2>5 DEF ev
    <3> QED BY <2>3, <3>1, EventsAt DEF Inv
  <2>7. tpc' \in {"sweep", "poll"}
    BY <2>4 DEF Advance
  <2>8. Straight'
    <3> SUFFICES ASSUME NEW i \in 1 .. Len(fd_list)
                 PROVE  /\ fd_list[i].slot = i - 1 /\ pollfd_arr'[i - 1].fd = fd_list[i].fd
                        /\ "OUT" \in pollfd_arr'[i - 1].events => send_msg_htbl'[fd_list[i].fd] # NoMsg
      BY <1>1 DEF Straight
    <3>1. CASE i = k
      BY <1>1, <1>4, <1>6, <2>1, <2>6, <3>1 DEF SendInv, Straight
    <3>2. CASE i # k
      <4>1. i - 1 # k - 1
        BY <3>2
      <4>2. pollfd_arr'[i - 1] = pollfd_arr[i - 1]
        BY <1>6, <2>6, <4>1
      <4> QED BY <1>1, <1>4, <1>6, <4>2 DEF SendInv, Straight
    <3> QED BY <3>1, <3>2
  <2> QED BY <1>5, <2>7, <2>8 DEF SendInv, SendInfoPresent
<1>8. CASE msg.fd \notin Polled
  <2>1. tpc' = "abort_data" /\ UNCHANGED pollfd_arr
    BY <1>8 DEF DataPipe
  <2>2. Straight'
    BY <1>1, <1>4, <1>6, <2>1 DEF SendInv, Straight
  <2> QED BY <1>5, <2>1, <2>2 DEF SendInv, SendInfoPresent
<1> QED BY <1>7, <1>8

\* POLLOUT finds its message, sends it on the socket it is for and is reset.
LEMMA PolloutStraight ==
  ASSUME Inv, SendInv, Pollout
  PROVE  SendInv'
<1> DEFINE key == MessageKey
<1>1. tpc = "sweep" /\ HasData /\ UNCHANGED <<pri_pipe, fd_list>>
  BY DEF Pollout, HasData
<1>2. \A i \in 1 .. Len(fd_list) : fd_list[i].fd \in Fds /\ i - 1 \in Slots /\ fd_list[i].slot = i - 1
  BY <1>1, EntryFacts DEF Inv, SendInv, Straight
<1>3. /\ pos \in 1 .. Len(fd_list) /\ CurEntry = fd_list[pos] /\ CurSlot = pollfd_arr[pos - 1]
  BY <1>1, <1>2, CurFacts DEF CurEntry, CurSlot
<1>4. key = fd_list[pos].fd /\ key \in Fds
  BY <1>1, <1>2, <1>3 DEF MessageKey, SendInv, Straight
<1>5. send_msg_htbl[key] # NoMsg
  BY <1>1, <1>3, <1>4 DEF Pollout, Fires, SendInv, Straight
<1>6. /\ send_msg_htbl' = [send_msg_htbl EXCEPT ![key] = NoMsg] /\ Disarm /\ Advance
      /\ wire' = IF CurEntry.fd \in Sockets \ FailingFds
                 THEN Append(wire, [on |-> CurEntry.fd, fd |-> key, n |-> send_msg_htbl[key]])
                 ELSE wire
  BY <1>5 DEF Pollout
<1>7. tpc' \in {"sweep", "poll"}
  BY <1>6 DEF Advance
<1>8. /\ pollfd_arr'[pos - 1].events = pollfd_arr[pos - 1].events \ {"OUT"}
      /\ pollfd_arr'[pos - 1].fd = pollfd_arr[pos - 1].fd
      /\ \A j \in Slots : j # pos - 1 => pollfd_arr'[j] = pollfd_arr[j]
  <2> DEFINE ev == pollfd_arr[pos - 1].events \ {"OUT"}
             k == pos - 1
  <2>1. pollfd_arr' = [pollfd_arr EXCEPT ![k].events = ev] /\ k \in Slots
    BY <1>2, <1>3, <1>6 DEF Disarm
  <2> HIDE DEF ev, k
  <2>2. /\ pollfd_arr'[k].events = ev /\ pollfd_arr'[k].fd = pollfd_arr[k].fd
        /\ \A j \in Slots : j # k => pollfd_arr'[j] = pollfd_arr[j]
    BY <2>1, EventsAt DEF Inv
  <2> QED BY <2>2 DEF ev, k
<1>9. \A fd \in Fds : fd # key => send_msg_htbl'[fd] = send_msg_htbl[fd]
  BY <1>6 DEF Inv, TypeOK
<1>10. Straight'
  <2> SUFFICES ASSUME NEW i \in 1 .. Len(fd_list)
               PROVE  /\ fd_list[i].slot = i - 1 /\ pollfd_arr'[i - 1].fd = fd_list[i].fd
                      /\ "OUT" \in pollfd_arr'[i - 1].events => send_msg_htbl'[fd_list[i].fd] # NoMsg
    BY <1>1 DEF Straight
  <2>1. CASE i = pos
    BY <1>1, <1>2, <1>3, <1>8, <2>1 DEF SendInv, Straight
  <2>2. CASE i # pos
    <3>1. i - 1 # pos - 1 /\ fd_list[i].fd # key
      BY <1>1, <1>3, <1>4, <2>2 DEF Inv, Shape, DestructIsLast, TypeOK
    <3>2. pollfd_arr'[i - 1] = pollfd_arr[i - 1] /\ send_msg_htbl'[fd_list[i].fd] = send_msg_htbl[fd_list[i].fd]
      BY <1>2, <1>8, <1>9, <3>1
    <3> QED BY <1>1, <1>2, <3>2 DEF SendInv, Straight
  <2> QED BY <2>1, <2>2
<1>11. SentOnOwnSocket'
  <2>1. CASE CurEntry.fd \in Sockets \ FailingFds
    <3> DEFINE W == [on : Sockets, fd : Fds, n : 1 .. MaxSends]
               m == [on |-> CurEntry.fd, fd |-> key, n |-> send_msg_htbl[key]]
    <3>1. m \in W /\ m.on = m.fd
      BY <1>3, <1>4, <1>5, <2>1 DEF Inv, TypeOK
    <3>2. wire \in Seq(W) /\ wire' = Append(wire, m)
      BY <1>6, <2>1 DEF Inv, TypeOK
    <3> HIDE DEF m, W
    <3>3. /\ Len(wire') = Len(wire) + 1 /\ Len(wire) \in Nat /\ wire'[Len(wire) + 1] = m
          /\ \A i \in 1 .. Len(wire) : wire'[i] = wire[i]
      BY <3>1, <3>2, AppendProperties
    <3> QED BY <3>1, <3>3 DEF SendInv, SentOnOwnSocket
  <2>2. CASE ~(CurEntry.fd \in Sockets \ FailingFds)
    BY <1>6, <2>2 DEF SendInv, SentOnOwnSocket
  <2> QED BY <2>1, <2>2
<1> QED BY <1>1, <1>7, <1>10, <1>11 DEF SendInv, SendInfoPresent, NoDeletes

\* Every step keeps the slots straight.
LEMMA NextStraight ==
  ASSUME Deletable = {}, Inv, SendInv, [Next]_vars
  PROVE  SendInv'
<1>1. CASE Poll
  <2>1. /\ tpc = "poll" /\ tpc' = "sweep" /\ UNCHANGED <<fd_list, send_msg_htbl, wire, pri_pipe>>
        /\ \E rev : pollfd_arr' = [k \in Slots |->
                           IF k < num_pollfds
                           THEN [pollfd_arr[k] EXCEPT !.revents = rev[k]]
                           ELSE pollfd_arr[k]]
    BY <1>1 DEF Poll
  <2>2. \A k \in Slots : pollfd_arr[k] \in Slot
    BY DEF Inv, TypeOK
  <2>3. \A k \in Slots : /\ pollfd_arr'[k].fd = pollfd_arr[k].fd
                         /\ pollfd_arr'[k].events = pollfd_arr[k].events
    BY <2>1, <2>2 DEF Slot
  <2> QED BY <2>1, <2>3, StraightKept DEF HasData, SendInv, NoDeletes
<1>2. CASE SelfDestruct \/ PollError
  <2>1. ~HasData' /\ UNCHANGED <<wire, pri_pipe>> /\ tpc' = "exit"
    BY <1>2 DEF SelfDestruct, PollError, LeaveLoop, HasData
  <2> QED BY <2>1 DEF SendInv, NoDeletes, Straight, SendInfoPresent, SentOnOwnSocket
<1>3. CASE Signal \/ Exit \/ PollinOnly
  <2>1. /\ UNCHANGED <<fd_list, send_msg_htbl, wire, pri_pipe, pollfd_arr>>
        /\ HasData' => HasData
        /\ tpc' # "abort_pollout"
    BY <1>3 DEF Signal, Exit, PollinOnly, Advance, HasData
  <2> QED BY <2>1, StraightKept DEF SendInv, NoDeletes
<1>4. ASSUME NEW c \in Callers, Caller(c) PROVE SendInv'
  <2>1. UNCHANGED <<fd_list, send_msg_htbl, wire, pollfd_arr, tpc>>
    BY <1>4 DEF Caller, AddSocketCheck, AddSocketMaxOut, AddSocketRequest, AddPipe,
       AddPipeMaxOut, DeleteFd, SpuriousWakeup, ReturnAdd, ReturnDeletePipe, LoadCount,
       StoreCount, Free, ReturnFree, Join, vars, thrVars
  <2>2. NoDeletes'
    BY <1>4, CallerNoDeletes DEF SendInv
  <2> QED BY <2>1, <2>2, StraightKept DEF HasData, SendInv, SendInfoPresent
<1>5. CASE UNCHANGED vars \/ \E fd \in Sockets : Send(fd)
  <2>1. UNCHANGED <<fd_list, send_msg_htbl, wire, pollfd_arr, tpc, pri_pipe>>
    BY <1>5 DEF Send, vars, thrVars
  <2> QED BY <2>1, StraightKept DEF HasData, SendInv, SendInfoPresent, NoDeletes
<1> QED BY <1>1, <1>2, <1>3, <1>4, <1>5, PriPipeStraight, DataPipeStraight, PolloutStraight
        DEF Next, Thread

\* The slots stay straight as long as no descriptor is deleted.
THEOREM SendInvariance ==
  ASSUME Deletable = {}
  PROVE  Spec => []SendInv
<1>1. Init => SendInv
  <2> SUFFICES ASSUME Init PROVE SendInv
    OBVIOUS
  <2>1. Len(fd_list) = 2 /\ fd_list[1] = [fd |-> PriFd, slot |-> 0] /\ fd_list[2] = [fd |-> DataFd, slot |-> 1]
    BY DEF Init
  <2>2. /\ pollfd_arr[0].fd = PriFd /\ pollfd_arr[0].events = {"IN"}
        /\ pollfd_arr[1].fd = DataFd /\ pollfd_arr[1].events = {"IN"}
    BY SlotFacts DEF Init, AdminSlot
  <2>3. Straight
    <3> SUFFICES ASSUME NEW i \in 1 .. 2
                 PROVE  /\ fd_list[i].slot = i - 1 /\ pollfd_arr[i - 1].fd = fd_list[i].fd
                        /\ "OUT" \notin pollfd_arr[i - 1].events
      BY <2>1 DEF Straight
    <3>1. i = 1 \/ i = 2
      OBVIOUS
    <3> QED BY <2>1, <2>2, <3>1
  <2>4. NoDeletes /\ SendInfoPresent /\ SentOnOwnSocket
    BY DEF Init, NoDeletes, SendInfoPresent, SentOnOwnSocket
  <2> QED BY <2>3, <2>4 DEF SendInv
<1>2. Inv /\ SendInv /\ [Next]_vars => SendInv'
  BY NextStraight
<1> QED BY <1>1, <1>2, Invariance, PTL DEF Spec

\* poll_fd_process, called for POLLOUT, finds the message: as long as no
\* descriptor is deleted, its assertion holds.
THEOREM SendInfoPresentHolds ==
  ASSUME Deletable = {}
  PROVE  Spec => []SendInfoPresent
<1>1. SendInv => SendInfoPresent
  BY DEF SendInv
<1> QED BY <1>1, SendInvariance, PTL

\* Every message leaves on the socket it was handed over for, as long as no
\* descriptor is deleted.
THEOREM SentOnOwnSocketHolds ==
  ASSUME Deletable = {}
  PROVE  Spec => []SentOnOwnSocket
<1>1. SendInv => SentOnOwnSocket
  BY DEF SendInv
<1> QED BY <1>1, SendInvariance, PTL

\* poll_fd_process acts on the right descriptor as long as none is deleted:
\* the drift of CorrectFd's counterexample has no other cause.
THEOREM CorrectFdHolds ==
  ASSUME Deletable = {}
  PROVE  Spec => []CorrectFd
<1>1. ASSUME Inv, SendInv PROVE CorrectFd
  <2> SUFFICES ASSUME tpc = "sweep" PROVE CurSlot.fd = CurEntry.fd
    BY DEF CorrectFd
  <2>1. pos \in 1 .. Len(fd_list) /\ HasData
    BY <1>1, CurFacts DEF HasData
  <2> QED BY <1>1, <2>1 DEF SendInv, Straight, CurSlot, CurEntry
<1> QED BY <1>1, Invariance, SendInvariance, PTL

-----------------------------------------------------------------------------
(* One caller that is woken only by the signal *)

\* The caller and the thread take turns: the request is queued, handled, or,
\* for self-destruction, taken without an answer.
InStep ==
  HasData =>
    \/ Waiting = {} /\ pri_pipe = <<>> /\ tpc # "signal" /\ num_pollfds # 0
    \/ \E c \in Waiting :
         \/ /\ pri_pipe = <<[fd |-> call[c].fd, act |-> call[c].act]>>
            /\ tpc # "signal" /\ num_pollfds # 0
         \/ /\ pri_pipe = <<>> /\ tpc = "signal"
            /\ call[c].fd # PriFd /\ num_pollfds # 0
         \/ /\ pri_pipe = <<>> /\ tpc # "signal"
            /\ call[c].fd = PriFd /\ num_pollfds = 0

\* All calls come from one thread.
OneCaller == \A c, d \in Callers : c = d

\* A step that leaves the request where it is.
LEMMA InStepKept ==
  ASSUME InStep, HasData' => HasData, UNCHANGED <<call, pri_pipe, num_pollfds>>,
         tpc # "signal", tpc' # "signal"
  PROVE  InStep'
BY DEF InStep, Waiting

\* The caller's steps.
LEMMA CallerInStep ==
  ASSUME OneCaller, ~Spurious, Inv, InStep, NEW c \in Callers, Caller(c)
  PROVE  InStep'
<1>1. call \in [Callers -> Call] /\ UNCHANGED <<tpc, num_pollfds>>
  <2>1. UNCHANGED <<tpc, num_pollfds>>
    BY DEF Caller, AddSocketCheck, AddSocketMaxOut, AddSocketRequest, AddPipe,
       AddPipeMaxOut, DeleteFd, SpuriousWakeup, ReturnAdd, ReturnDeletePipe, LoadCount,
       StoreCount, Free, ReturnFree, Join, vars, thrVars
  <2> QED BY <2>1 DEF Inv, TypeOK
<1>2. \A d \in Callers : d = c
  BY DEF OneCaller
<1>3. CASE UNCHANGED vars
  BY <1>3 DEF vars, InStep, Waiting, HasData
<1>4. ASSUME call[c].pc # "waiting", call'[c].pc # "waiting", UNCHANGED pri_pipe
      PROVE  InStep'
  <2>1. Waiting = {} /\ Waiting' = {}
    BY <1>2, <1>4 DEF Waiting
  <2> QED BY <1>1, <1>4, <2>1 DEF InStep, HasData
<1>5. ASSUME NEW fd, NEW act, call[c].pc # "waiting", Request(c, fd, act) PROVE InStep'
  <2>1. Waiting = {}
    BY <1>2, <1>5 DEF Waiting
  <2>2. call'[c] = [pc |-> "waiting", act |-> act, fd |-> fd, reg |-> 0]
    BY <1>1, <1>5 DEF Request
  <2>3. c \in Waiting' /\ call'[c].fd = fd /\ call'[c].act = act
    BY <2>2 DEF Waiting
  <2>4. pri_pipe = <<>> => pri_pipe' = <<[fd |-> fd, act |-> act]>>
    BY <1>5 DEF Request
  <2> QED BY <1>1, <2>1, <2>3, <2>4 DEF InStep, HasData
<1>6. CASE \E fd \in Sockets : AddSocketCheck(c, fd)
  <2>1. PICK fd \in Sockets : AddSocketCheck(c, fd)
    BY <1>6
  <2>2. call[c].pc = "idle" /\ call'[c].pc = "checked" /\ UNCHANGED pri_pipe
    BY <1>1, <2>1 DEF AddSocketCheck, Busy
  <2> QED BY <1>4, <2>2
<1>7. CASE AddSocketRequest(c)
  BY <1>5, <1>7 DEF AddSocketRequest
<1>8. CASE \E fd \in Pipes : AddPipe(c, fd)
  BY <1>5, <1>8 DEF AddPipe, Busy
<1>9. CASE \E fd \in Deletable : DeleteFd(c, fd)
  BY <1>5, <1>9 DEF DeleteFd, Busy
<1>10. CASE Free(c)
  BY <1>5, <1>10 DEF Free, Busy
<1>11. CASE ReturnAdd(c) \/ ReturnDeletePipe(c) \/ StoreCount(c) \/ Join(c)
  <2>1. call[c].pc # "waiting" /\ call'[c] = Idle /\ UNCHANGED pri_pipe
    BY <1>1, <1>11 DEF ReturnAdd, ReturnDeletePipe, StoreCount, Join
  <2> QED BY <1>4, <2>1 DEF Idle
<1>12. CASE LoadCount(c)
  <2>1. call[c] \in Call
    BY <1>1
  <2>2. call[c].pc # "waiting" /\ call'[c].pc = "loaded" /\ UNCHANGED pri_pipe
    BY <1>1, <1>12, <2>1 DEF LoadCount, Call
  <2> QED BY <1>4, <2>2
<1>13. CASE ReturnFree(c)
  <2>1. call[c] \in Call
    BY <1>1
  <2>2. call[c].pc # "waiting" /\ call'[c].pc = "joining" /\ UNCHANGED pri_pipe
    BY <1>1, <1>13, <2>1 DEF ReturnFree, Call
  <2> QED BY <1>4, <2>2
<1>14. CASE (\E fd \in Sockets : AddSocketMaxOut(c, fd)) \/ \E fd \in Pipes : AddPipeMaxOut(c, fd)
  BY <1>3, <1>14 DEF AddSocketMaxOut, AddPipeMaxOut
<1> QED BY <1>6, <1>7, <1>8, <1>9, <1>10, <1>11, <1>12, <1>13, <1>14 DEF Caller, SpuriousWakeup

\* What the primary pipe's callback does with the one request there is.
LEMMA PriPipeTurn ==
  ASSUME Inv, QueueInv, InStep, PriPipe, QueueInv', NoOverflow'
  PROVE  \E c \in Waiting :
           /\ Head(pri_pipe) = [fd |-> call[c].fd, act |-> call[c].act]
           /\ pri_pipe = <<Head(pri_pipe)>> /\ pri_pipe' = <<>> /\ UNCHANGED call
           /\ call[c].fd \in AppFds \cup {PriFd}
           /\ \/ call[c].fd = PriFd /\ call[c].act = "DELETE" /\ num_pollfds' = 0
                 /\ tpc' \in {"sweep", "poll"} /\ UNCHANGED fd_list
              \/ /\ call[c].fd \in AppFds /\ call[c].act = "ADD" /\ tpc' = "signal"
                 /\ num_pollfds' = num_pollfds + 1 /\ Polled' = Polled \cup {call[c].fd}
              \/ /\ call[c].fd \in AppFds /\ call[c].act = "DELETE" /\ tpc' = "signal"
                 /\ num_pollfds' \in {num_pollfds - 1, num_pollfds}
                 /\ Polled' = Polled \ {call[c].fd}
<1>1. /\ tpc = "sweep" /\ HasData /\ pri_pipe # <<>> /\ num_pollfds >= 2
      /\ pri_pipe' = Tail(pri_pipe) /\ UNCHANGED call
      /\ pollfd_arr[0].fd = PriFd /\ pollfd_arr[1].fd = DataFd
  BY PriPipeServes DEF PriPipe, mgrVars, Inv, Shape, AdminPipesFirst
<1>2. PICK c \in Waiting : pri_pipe = <<[fd |-> call[c].fd, act |-> call[c].act]>>
  BY <1>1 DEF InStep
<1> DEFINE msg == Head(pri_pipe)
<1>3. msg.fd = call[c].fd /\ msg.act = call[c].act /\ pri_pipe' = <<>> /\ pri_pipe = <<msg>>
      /\ msg = [fd |-> call[c].fd, act |-> call[c].act]
  BY <1>1, <1>2
<1>4. CallFits(call[c]) /\ msg.act \in {"ADD", "DELETE"}
  BY <1>3 DEF QueueInv, OneUser, Waiting, Busy, Inv, TypeOK, Call
<1>5. /\ msg.fd \in AppFds \/ (msg.fd = PriFd /\ msg.act = "DELETE")
      /\ PriFd \notin AppFds /\ DataFd \notin AppFds /\ AppFds \subseteq Fds
  BY <1>3, <1>4, ConstantsAssumption DEF CallFits, AppFds, Fds
<1>6. CASE msg.act = "ADD"
  <2>1. AddFd(msg.fd)
    BY <1>6 DEF PriPipe
  <2>2. tpc' = "signal"
    BY <2>1 DEF AddFd, QueueInv, NoDuplicateAdd, NoOverflow
  <2>3. Polled' = Polled \cup {msg.fd} /\ num_pollfds' = num_pollfds + 1
    BY <1>5, <1>6, <2>1, <2>2, AddFdPolled
  <2> QED BY <1>1, <1>3, <1>5, <1>6, <2>2, <2>3
<1>7. CASE msg.act = "DELETE" /\ msg.fd = PriFd
  <2>1. num_pollfds' = 0 /\ Advance /\ UNCHANGED fd_list
    BY <1>1, <1>7 DEF PriPipe
  <2> QED BY <1>1, <1>3, <1>7, <2>1 DEF Advance
<1>8. CASE msg.act = "DELETE" /\ msg.fd # PriFd
  <2>1. msg.fd \in AppFds /\ msg.fd \notin {pollfd_arr[0].fd, pollfd_arr[1].fd}
    BY <1>1, <1>5, <1>8
  <2>2. RemoveFd(msg.fd)
    BY <1>8, <2>1 DEF PriPipe
  <2>3. tpc' = "signal"
    BY <2>2 DEF RemoveFd
  <2>4. Polled' = Polled \ {msg.fd} /\ num_pollfds' \in {num_pollfds - 1, num_pollfds}
    BY <1>5, <2>1, <2>2, RemoveFdPolled
  <2> QED BY <1>1, <1>3, <1>8, <2>1, <2>3, <2>4
<1> QED BY <1>4, <1>6, <1>7, <1>8

\* Every step keeps the turns.
LEMMA NextInStep ==
  ASSUME OneCaller, ~Spurious, Inv, QueueInv, InStep, [Next]_vars, QueueInv', NoOverflow'
  PROVE  InStep'
<1>1. CASE Poll \/ DataPipe \/ PollinOnly \/ Pollout
  BY <1>1, InStepKept DEF Poll, DataPipe, PollinOnly, Pollout, Advance, mgrVars, HasData
<1>2. CASE SelfDestruct \/ PollError \/ Exit
  <2>1. ~HasData'
    BY <1>2 DEF SelfDestruct, PollError, LeaveLoop, Exit, HasData
  <2> QED BY <2>1 DEF InStep
<1>3. CASE PriPipe
  <2>1. num_pollfds >= 2 /\ num_pollfds \in Nat
    BY <1>3, PriPipeServes DEF Inv, TypeOK
  <2>2. PICK c \in Waiting :
           /\ pri_pipe' = <<>> /\ UNCHANGED call
           /\ \/ call[c].fd = PriFd /\ num_pollfds' = 0 /\ tpc' \in {"sweep", "poll"}
              \/ /\ call[c].fd \in AppFds /\ tpc' = "signal"
                 /\ num_pollfds' \in {num_pollfds + 1, num_pollfds - 1, num_pollfds}
    BY <1>3, PriPipeTurn
  <2>3. PriFd \notin AppFds
    BY ConstantsAssumption DEF AppFds
  <2>4. c \in Waiting'
    BY <2>2 DEF Waiting
  <2> QED BY <2>1, <2>2, <2>3, <2>4 DEF InStep
<1>4. CASE Signal
  <2>1. /\ tpc = "signal" /\ HasData /\ WakeSome /\ tpc' \in {"sweep", "poll"}
        /\ UNCHANGED <<pri_pipe, num_pollfds>>
    BY <1>4 DEF Signal, Advance, HasData
  <2>2. pri_pipe = <<>> /\ num_pollfds # 0 /\ Waiting # {}
    BY <2>1 DEF InStep
  <2>3. Waiting' = {}
    <3>1. PICK W \in SUBSET Waiting :
            /\ W # {}
            /\ call' = [c \in Callers |-> IF c \in W THEN [call[c] EXCEPT !.pc = "woken"] ELSE call[c]]
      BY <2>1, <2>2 DEF WakeSome
    <3>2. \A c \in Callers : c \in W
      BY <3>1 DEF OneCaller, Waiting
    <3>3. \A c \in Callers : call[c] \in Call
      BY DEF Inv, TypeOK
    <3>4. \A c \in Callers : call'[c].pc = "woken"
      BY <3>1, <3>2, <3>3 DEF Call
    <3> QED BY <3>4 DEF Waiting
  <2> QED BY <2>1, <2>2, <2>3 DEF InStep
<1>5. CASE UNCHANGED vars \/ \E fd \in Sockets : Send(fd)
  BY <1>5 DEF vars, Send, mgrVars, thrVars, InStep, Waiting, HasData
<1> QED BY <1>1, <1>2, <1>3, <1>4, <1>5, CallerInStep DEF Next, Thread

\* The caller and the thread take turns.
THEOREM InStepInvariance ==
  ASSUME OneCaller, ~Spurious
  PROVE  Spec => []InStep
<1>1. Init => InStep
  BY DEF Init, InStep, Waiting, Idle
<1>2. Inv /\ QueueInv /\ InStep /\ [Next]_vars /\ QueueInv' /\ NoOverflow' => InStep'
  BY NextInStep
<1>3. Spec => []NoOverflow
  BY NoOverflowHolds DEF OneCaller
<1> QED BY <1>1, <1>2, <1>3, Invariance, QueueInvariance, PTL DEF Spec

\* What the application has added and not deleted is polled.
LEMMA OwnedPolled ==
  ASSUME QueueInv, InStep, Running, OneCaller
  PROVE  owned \subseteq Polled
<1> SUFFICES ASSUME NEW fd \in owned PROVE fd \in Polled
  OBVIOUS
<1>1. fd \in AppFds /\ fd \in Wanted /\ Alternates(pri_pipe, Polled, Wanted) /\ HasData
  BY DEF QueueInv, OneUser, Wanted, Running, HasData
<1>2. \A i \in 1 .. Len(pri_pipe) : pri_pipe[i].fd # fd
  <2>1. CASE pri_pipe = <<>>
    BY <2>1
  <2>2. CASE pri_pipe # <<>>
    <3>1. PICK c \in Waiting : pri_pipe = <<[fd |-> call[c].fd, act |-> call[c].act]>>
      BY <1>1, <2>2 DEF InStep
    <3>2. call[c].fd # fd
      BY <3>1 DEF QueueInv, OneUser, Waiting, Busy
    <3> QED BY <3>1, <3>2
  <2> QED BY <2>1, <2>2
<1> QED BY <1>1, <1>2 DEF Alternates

\* SyncAdd while the thread runs: when an ADD has returned to the one caller,
\* the thread polls the descriptor, and goes on polling it until the caller
\* begins its DELETE.
THEOREM SyncAddHolds ==
  ASSUME OneCaller, ~Spurious
  PROVE  Spec => [](Running => owned \subseteq Polled)
<1>1. QueueInv /\ InStep => (Running => owned \subseteq Polled)
  BY OwnedPolled
<1> QED BY <1>1, QueueInvariance, InStepInvariance, PTL

\* The messages on their way are for sockets that were added.
ForOwned == \A i \in 1 .. Len(data_pipe) : data_pipe[i].fd \in owned

\* A message keeps its socket, and a socket that was added stays added.
LEMMA NextForOwned ==
  ASSUME OneCaller, Deletable = {}, Inv, QueueInv, InStep, ForOwned, MessageFdPolled,
         [Next]_vars
  PROVE  ForOwned' /\ MessageFdPolled'
<1>1. data_pipe \in Seq(SendMsg) /\ Len(data_pipe) \in Nat
  BY DEF Inv, TypeOK
<1>2. ASSUME UNCHANGED data_pipe, owned \subseteq owned', tpc' # "abort_data"
      PROVE  ForOwned' /\ MessageFdPolled'
  BY <1>2 DEF ForOwned, MessageFdPolled
<1>3. CASE DataPipe
  <2>1. /\ data_pipe # <<>> /\ UNCHANGED owned /\ tpc = "sweep"
        /\ data_pipe' = SubSeq(data_pipe, MsgsPerRead + 1, Len(data_pipe))
        /\ MsgsPerRead \in Nat \ {0}
    BY <1>3, ConstantsAssumption DEF DataPipe, mgrVars
  <2>2. /\ Len(data_pipe') <= Len(data_pipe) /\ Len(data_pipe') \in Nat
        /\ \A i \in 1 .. Len(data_pipe') : /\ i + MsgsPerRead \in 1 .. Len(data_pipe)
                                           /\ data_pipe'[i] = data_pipe[i + MsgsPerRead]
    BY <1>1, <2>1, SubSeqProperties
  <2>3. ForOwned'
    BY <2>1, <2>2 DEF ForOwned
  <2>4. NextMessage.fd \in Polled
    <3>1. NextMessage.fd \in owned
      BY <1>1, <2>1 DEF ForOwned, NextMessage
    <3> QED BY <2>1, <3>1, OwnedPolled DEF Running
  <2>5. tpc' # "abort_data"
    BY <1>3, <2>4 DEF DataPipe, Advance
  <2> QED BY <2>3, <2>5 DEF MessageFdPolled
<1>4. CASE \E fd \in Sockets : Send(fd)
  <2>1. PICK fd \in Sockets : Send(fd)
    BY <1>4
  <2>2. /\ data_pipe' = Append(data_pipe, [fd |-> fd, n |-> sends + 1])
        /\ fd \in owned /\ UNCHANGED <<owned, tpc>>
    BY <2>1 DEF Send, Sendable, mgrVars, thrVars
  <2> DEFINE m == [fd |-> fd, n |-> sends + 1]
  <2>3. m \in SendMsg /\ m.fd = fd
    BY <2>1, ConstantsAssumption DEF Send, SendMsg, Inv, TypeOK
  <2> HIDE DEF m
  <2>4. data_pipe' = Append(data_pipe, m)
    BY <2>2 DEF m
  <2>5. /\ Len(data_pipe') = Len(data_pipe) + 1
        /\ data_pipe'[Len(data_pipe) + 1] = m
        /\ \A i \in 1 .. Len(data_pipe) : data_pipe'[i] = data_pipe[i]
    BY <1>1, <2>3, <2>4, AppendProperties
  <2> QED BY <1>1, <2>2, <2>3, <2>5 DEF ForOwned, MessageFdPolled
<1>5. CASE UNCHANGED vars
  BY <1>2, <1>5 DEF vars, MessageFdPolled
<1>6. CASE PriPipe
  <2>1. UNCHANGED <<data_pipe, owned>> /\ tpc' # "abort_data"
    BY <1>6 DEF PriPipe, AddFd, RemoveFd, Advance, mgrVars
  <2> QED BY <1>2, <2>1
<1>7. CASE Poll \/ SelfDestruct \/ PollError \/ Signal \/ Exit \/ PollinOnly
  BY <1>2, <1>7 DEF Poll, SelfDestruct, PollError, LeaveLoop, Signal, Exit, PollinOnly,
                    Advance, mgrVars
<1>8. CASE Pollout
  BY <1>2, <1>8 DEF Pollout, Advance, mgrVars
<1>9. CASE \E c \in Callers : Caller(c)
  BY <1>2, <1>9 DEF Caller, AddSocketCheck, AddSocketMaxOut, AddSocketRequest, AddPipe,
     AddPipeMaxOut, DeleteFd, SpuriousWakeup, ReturnAdd, ReturnDeletePipe, LoadCount,
     StoreCount, Free, ReturnFree, Join, vars, thrVars, MessageFdPolled
<1> QED BY <1>3, <1>4, <1>5, <1>6, <1>7, <1>8, <1>9 DEF Next, Thread

\* The assertion of the data pipe's callback never fails, for one caller that
\* is woken only by the signal and deletes nothing: it cannot have been told of
\* an ADD that is still queued.
THEOREM MessageFdPolledHolds ==
  ASSUME OneCaller, ~Spurious, Deletable = {}
  PROVE  Spec => []MessageFdPolled
<1>1. Init => ForOwned /\ MessageFdPolled
  BY DEF Init, ForOwned, MessageFdPolled
<1>2. Inv /\ QueueInv /\ InStep /\ ForOwned /\ MessageFdPolled /\ [Next]_vars
        => ForOwned' /\ MessageFdPolled'
  BY NextForOwned
<1> QED BY <1>1, <1>2, Invariance, QueueInvariance, InStepInvariance, PTL DEF Spec

-----------------------------------------------------------------------------
(* The manager and its thread implement the registry *)

\* The manager is closed by the request for self-destruction and by nothing
\* else, and the thread gives up its tables only then.
Closing ==
  /\ \A c \in Callers : Busy(c) => (call[c].fd = PriFd <=> mgr # "live")
  /\ ~HasData => mgr # "live"

\* Closing is kept when poll() does not fail.
LEMMA NextClosing ==
  ASSUME OneCaller, ~Spurious, ~PollErrors, Inv, QueueInv, InStep, Closing, [Next]_vars
  PROVE  Closing'
<1>1. call \in [Callers -> Call] /\ PriFd \notin Sockets \cup Pipes /\ Deletable \subseteq Sockets \cup Pipes
  BY ConstantsAssumption DEF Inv, TypeOK
<1>2. ASSUME UNCHANGED <<mgr, call>>, HasData'
      PROVE  Closing'
  BY <1>2 DEF Closing, Busy
<1>3. CASE Poll \/ DataPipe \/ PollinOnly \/ Pollout \/ PriPipe
  <2>1. tpc' \notin {"exit", "dead"} /\ UNCHANGED <<mgr, call>> /\ tpc \notin {"exit", "dead"}
    BY <1>3 DEF Poll, DataPipe, PollinOnly, Pollout, PriPipe, AddFd, RemoveFd, Advance, mgrVars
  <2> QED BY <1>2, <2>1 DEF HasData
<1>4. CASE SelfDestruct
  <2>1. HasData /\ num_pollfds = 0 /\ UNCHANGED <<mgr, call>>
    BY <1>4 DEF SelfDestruct, LeaveLoop, mgrVars, HasData
  <2>2. mgr # "live"
    BY <2>1 DEF InStep, Closing, Waiting, Busy
  <2> QED BY <2>1, <2>2 DEF Closing, Busy
<1>5. CASE Signal \/ Exit
  <2>1. UNCHANGED mgr /\ WakeSome /\ (~HasData' => ~HasData)
    BY <1>5 DEF Signal, Exit, Advance, HasData
  <2>2. \A c \in Callers : call'[c].fd = call[c].fd /\ (call'[c].pc # "idle" => call[c].pc # "idle")
    <3>1. CASE UNCHANGED call
      BY <3>1
    <3>2. CASE \E W \in SUBSET Waiting :
            /\ W # {}
            /\ call' = [c \in Callers |-> IF c \in W THEN [call[c] EXCEPT !.pc = "woken"] ELSE call[c]]
      <4>1. PICK W \in SUBSET Waiting :
              call' = [c \in Callers |-> IF c \in W THEN [call[c] EXCEPT !.pc = "woken"] ELSE call[c]]
        BY <3>2
      <4>2. ASSUME NEW c \in Callers
            PROVE  call'[c].fd = call[c].fd /\ (call'[c].pc # "idle" => call[c].pc # "idle")
        <5>1. call[c] \in Call
          BY <1>1
        <5>2. CASE c \in W
          BY <4>1, <5>1, <5>2 DEF Call, Waiting
        <5>3. CASE c \notin W
          BY <4>1, <5>3
        <5> QED BY <5>2, <5>3
      <4> QED BY <4>2
    <3> QED BY <2>1, <3>1, <3>2 DEF WakeSome
  <2> QED BY <2>1, <2>2 DEF Closing, Busy
<1>6. CASE UNCHANGED vars \/ \E fd \in Sockets : Send(fd)
  BY <1>6 DEF vars, Send, mgrVars, thrVars, Closing, Busy, HasData
<1>7. CASE \E c \in Callers : Caller(c)
  <2>1. PICK c \in Callers : Caller(c)
    BY <1>7
  <2>2. call[c] \in Call /\ \A d \in Callers : d = c
    BY <1>1 DEF OneCaller
  <2>3. UNCHANGED tpc
    BY <2>1 DEF Caller, AddSocketCheck, AddSocketMaxOut, AddSocketRequest, AddPipe,
       AddPipeMaxOut, DeleteFd, SpuriousWakeup, ReturnAdd, ReturnDeletePipe, LoadCount,
       StoreCount, Free, ReturnFree, Join, vars, thrVars
  <2>4. ASSUME NEW fd \in Sockets \cup Pipes, mgr = "live", mgr' = "live", call'[c].fd = fd
        PROVE  Closing'
    BY <1>1, <2>2, <2>3, <2>4 DEF Closing, HasData
  <2>5. CASE \E fd \in Sockets : AddSocketCheck(c, fd)
    BY <1>1, <2>4, <2>5 DEF AddSocketCheck
  <2>6. CASE AddSocketRequest(c)
    <3>1. call[c].fd \in Sockets /\ mgr = "live"
      BY <1>1, <2>6 DEF AddSocketRequest, QueueInv, OneUser, CallFits, Closing, Busy
    <3> QED BY <1>1, <2>4, <2>6, <3>1 DEF AddSocketRequest, Request
  <2>7. CASE \E fd \in Pipes : AddPipe(c, fd)
    BY <1>1, <2>4, <2>7 DEF AddPipe, Request
  <2>8. CASE \E fd \in Deletable : DeleteFd(c, fd)
    BY <1>1, <2>4, <2>8 DEF DeleteFd, Request
  <2>9. CASE Free(c)
    <3>1. call'[c].fd = PriFd /\ mgr' = "freeing"
      BY <1>1, <2>9 DEF Free, Request
    <3> QED BY <2>2, <3>1 DEF Closing
  <2>10. CASE ReturnAdd(c) \/ ReturnDeletePipe(c) \/ StoreCount(c) \/ Join(c)
    <3>1. call'[c] = Idle /\ (UNCHANGED mgr \/ mgr' = "freed")
      BY <1>1, <2>10 DEF ReturnAdd, ReturnDeletePipe, StoreCount, Join
    <3> QED BY <2>2, <2>3, <3>1 DEF Closing, Busy, Idle, HasData
  <2>11. CASE LoadCount(c) \/ ReturnFree(c)
    <3>1. call[c].pc = "woken" /\ call'[c].fd = call[c].fd /\ UNCHANGED mgr
      BY <1>1, <2>2, <2>11 DEF LoadCount, ReturnFree, Call
    <3> QED BY <2>2, <2>3, <3>1 DEF Closing, Busy, HasData
  <2>12. CASE UNCHANGED vars
    BY <2>12 DEF vars, Closing, Busy, HasData
  <2> QED BY <2>1, <2>5, <2>6, <2>7, <2>8, <2>9, <2>10, <2>11, <2>12
          DEF Caller, SpuriousWakeup, AddSocketMaxOut, AddPipeMaxOut
<1>8. CASE PollError
  BY <1>8 DEF PollError
<1> QED BY <1>3, <1>4, <1>5, <1>6, <1>7, <1>8 DEF Next, Thread

\* The registry's request for a call r, when q is queued and the thread is at t.
ReqOf(r, q, t) ==
  IF r.pc \in {"idle", "checked"} THEN Registry!Idle
  ELSE [st  |-> IF (IF r.fd = PriFd THEN t \notin {"exit", "dead"}
                    ELSE Contains(q, [fd |-> r.fd, act |-> r.act]))
                THEN "asked" ELSE "done",
        act |-> IF r.fd = PriFd THEN "CLOSE" ELSE r.act,
        fds |-> {r.fd} \ {PriFd}]

\* The request before and after a step.
LEMMA ReqIs ==
  ASSUME NEW c \in Callers
  PROVE  /\ RegistryReq(c) = ReqOf(call[c], pri_pipe, tpc)
         /\ RegistryReq(c)' = ReqOf(call'[c], pri_pipe', tpc')
BY DEF RegistryReq, ReqOf, Pending, HasData, Registry!Idle

\* Its value, case by case.
LEMMA ReqValue ==
  ASSUME NEW r, NEW q, NEW t
  PROVE  /\ r.pc \in {"idle", "checked"} => ReqOf(r, q, t) = Registry!Idle
         /\ r.pc \notin {"idle", "checked"} /\ r.fd # PriFd =>
              /\ q = <<[fd |-> r.fd, act |-> r.act]>> =>
                   ReqOf(r, q, t) = [st |-> "asked", act |-> r.act, fds |-> {r.fd}]
              /\ q = <<>> => ReqOf(r, q, t) = [st |-> "done", act |-> r.act, fds |-> {r.fd}]
         /\ r.pc \notin {"idle", "checked"} /\ r.fd = PriFd =>
              /\ t \notin {"exit", "dead"} =>
                   ReqOf(r, q, t) = [st |-> "asked", act |-> "CLOSE", fds |-> {}]
              /\ t \in {"exit", "dead"} =>
                   ReqOf(r, q, t) = [st |-> "done", act |-> "CLOSE", fds |-> {}]
<1>1. {r.fd} \ {PriFd} = IF r.fd = PriFd THEN {} ELSE {r.fd}
  OBVIOUS
<1>2. Contains(<<[fd |-> r.fd, act |-> r.act]>>, [fd |-> r.fd, act |-> r.act])
  BY DEF Contains
<1>3. ~Contains(<<>>, [fd |-> r.fd, act |-> r.act])
  BY DEF Contains
<1> QED BY <1>1, <1>2, <1>3 DEF ReqOf

\* A step that leaves the call's descriptor, the queue and the tables alone.
LEMMA ReqSame ==
  ASSUME NEW r, NEW s, NEW q, NEW t, NEW u, r.fd = s.fd, r.act = s.act,
         r.pc \in {"idle", "checked"} <=> s.pc \in {"idle", "checked"},
         t \in {"exit", "dead"} <=> u \in {"exit", "dead"}
  PROVE  ReqOf(r, q, t) = ReqOf(s, q, u)
BY DEF ReqOf

\* The registry's variable req, and a step of the registry or a stutter.
Reqs == [c \in Callers |-> RegistryReq(c)]
AbstractStep == [Registry!Next]_(Registry!vars)

\* With one caller, a step of Reqs is that of its only request.
LEMMA ReqsStep ==
  ASSUME OneCaller, NEW c \in Callers
  PROVE  /\ Reqs[c] = RegistryReq(c)
         /\ \A r : RegistryReq(c)' = r => Reqs' = [Reqs EXCEPT ![c] = r]
         /\ UNCHANGED RegistryReq(c) => UNCHANGED Reqs
BY DEF OneCaller, Reqs

\* Steps the registry does not see.
LEMMA StutterStep ==
  ASSUME OneCaller, UNCHANGED AppPolled, \A c \in Callers : UNCHANGED RegistryReq(c)
  PROVE  AbstractStep
<1>1. UNCHANGED Reqs
  BY DEF Reqs
<1> QED BY <1>1 DEF AbstractStep, Registry!vars, Reqs

\* A call that begins.
LEMMA AskStep ==
  ASSUME OneCaller, NEW c \in Callers, RegistryReq(c) = Registry!Idle, UNCHANGED AppPolled,
         \/ \E a \in {"ADD", "DELETE"}, fd \in Sockets \cup Pipes :
              RegistryReq(c)' = [st |-> "asked", act |-> a, fds |-> {fd}]
         \/ RegistryReq(c)' = [st |-> "asked", act |-> "CLOSE", fds |-> {}]
  PROVE  AbstractStep
<1>1. Registry!Ask(c)
  BY ReqsStep, ZenonT(60) DEF Registry!Ask, Reqs
<1> QED BY <1>1 DEF AbstractStep, Registry!Next

\* A call that returns.
LEMMA AnswerStep ==
  ASSUME OneCaller, NEW c \in Callers, RegistryReq(c).st = "done", UNCHANGED AppPolled,
         RegistryReq(c)' = Registry!Idle
  PROVE  AbstractStep
<1>1. Registry!Answer(c)
  BY ReqsStep DEF Registry!Answer, Reqs
<1> QED BY <1>1 DEF AbstractStep, Registry!Next

\* A call that takes effect.
LEMMA ServeStep ==
  ASSUME OneCaller, NEW c \in Callers, NEW a, NEW fds,
         RegistryReq(c) = [st |-> "asked", act |-> a, fds |-> fds],
         RegistryReq(c)' = [st |-> "done", act |-> a, fds |-> fds],
         \/ a = "ADD" /\ AppPolled' = AppPolled \cup fds
         \/ a = "DELETE" /\ AppPolled' = AppPolled \ fds
         \/ a = "CLOSE" /\ AppPolled' = {}
  PROVE  AbstractStep
<1>1. Reqs' = [Reqs EXCEPT ![c].st = "done"]
  <2>1. [Reqs[c] EXCEPT !.st = "done"] = [st |-> "done", act |-> a, fds |-> fds]
    BY ReqsStep
  <2>2. Reqs' = [Reqs EXCEPT ![c] = [Reqs[c] EXCEPT !.st = "done"]]
    BY <2>1, ReqsStep
  <2> QED BY <2>2
<1>2. Reqs[c].st = "asked" /\ Reqs[c].act = a /\ Reqs[c].fds = fds
  BY ReqsStep
<1>3. AppPolled' = CASE Reqs[c].act = "ADD" -> AppPolled \cup Reqs[c].fds
                     [] Reqs[c].act = "DELETE" -> AppPolled \ Reqs[c].fds
                     [] OTHER -> {}
  BY <1>2
<1>4. Registry!Serve(c)
  BY <1>1, <1>2, <1>3 DEF Registry!Serve, Reqs
<1> QED BY <1>4 DEF AbstractStep, Registry!Next

\* A caller's request is a question to the registry, its return an answer.
LEMMA CallerImplements ==
  ASSUME OneCaller, ~Spurious, Inv, QueueInv, InStep, Closing, NEW c \in Callers, Caller(c)
  PROVE  AbstractStep
<1>1. /\ call \in [Callers -> Call] /\ call[c] \in Call /\ \A d \in Callers : d = c
      /\ PriFd \notin Sockets \cup Pipes /\ Deletable \subseteq Sockets \cup Pipes
  BY ConstantsAssumption DEF Inv, TypeOK, OneCaller
<1>2. UNCHANGED <<tpc, fd_list>>
  BY DEF Caller, AddSocketCheck, AddSocketMaxOut, AddSocketRequest, AddPipe, AddPipeMaxOut,
     DeleteFd, SpuriousWakeup, ReturnAdd, ReturnDeletePipe, LoadCount, StoreCount, Free,
     ReturnFree, Join, vars, thrVars
<1>3. UNCHANGED AppPolled
  BY <1>2 DEF AppPolled, Polled
<1>4. ASSUME NEW fd, NEW act, call[c].pc \in {"idle", "checked"}, mgr = "live",
             Request(c, fd, act),
             \/ fd \in Sockets \cup Pipes /\ act \in {"ADD", "DELETE"}
             \/ fd = PriFd
      PROVE  AbstractStep
  <2>1. call'[c] = [pc |-> "waiting", act |-> act, fd |-> fd, reg |-> 0]
    BY <1>1, <1>4 DEF Request
  <2>2. call'[c].pc = "waiting" /\ call'[c].fd = fd /\ call'[c].act = act
    BY <2>1
  <2>3. HasData /\ pri_pipe = <<>>
    <3>1. HasData /\ Waiting = {}
      BY <1>1, <1>4 DEF Closing, Waiting
    <3> QED BY <3>1 DEF InStep
  <2>4. pri_pipe' = <<[fd |-> call'[c].fd, act |-> call'[c].act]>> /\ HasData'
    BY <1>2, <1>4, <2>2, <2>3 DEF Request, HasData
  <2>5. RegistryReq(c) = Registry!Idle
    BY <1>4, ReqIs, ReqValue
  <2>6. CASE fd = PriFd
    <3>1. RegistryReq(c)' = [st |-> "asked", act |-> "CLOSE", fds |-> {}]
      BY <2>2, <2>4, <2>6, ReqIs, ReqValue DEF HasData
    <3> QED BY <1>3, <2>5, <3>1, AskStep
  <2>7. CASE fd \in Sockets \cup Pipes /\ act \in {"ADD", "DELETE"}
    <3>1. RegistryReq(c)' = [st |-> "asked", act |-> act, fds |-> {fd}]
      BY <1>1, <2>2, <2>4, <2>7, ReqIs, ReqValue
    <3> QED BY <1>3, <2>5, <2>7, <3>1, AskStep
  <2> QED BY <1>4, <2>6, <2>7
<1>5. ASSUME call[c].pc \notin {"idle", "checked", "waiting"}, call'[c] = Idle,
             call[c].fd = PriFd => ~HasData
      PROVE  AbstractStep
  <2>1. RegistryReq(c)' = Registry!Idle
    <3>1. call'[c].pc = "idle"
      BY <1>5 DEF Idle
    <3> QED BY <3>1, ReqIs, ReqValue
  <2>2. RegistryReq(c).st = "done"
    <3>1. CASE call[c].fd = PriFd
      BY <1>5, <3>1, ReqIs, ReqValue DEF HasData
    <3>2. CASE call[c].fd # PriFd
      <4>1. HasData /\ Waiting = {}
        BY <1>1, <1>5, <3>2 DEF Closing, Waiting, Busy
      <4>2. pri_pipe = <<>>
        BY <4>1 DEF InStep
      <4> QED BY <1>5, <3>2, <4>2, ReqIs, ReqValue
    <3> QED BY <3>1, <3>2
  <2> QED BY <1>3, <2>1, <2>2, AnswerStep
<1>6. ASSUME UNCHANGED pri_pipe, call'[c].fd = call[c].fd, call'[c].act = call[c].act,
             call[c].pc \in {"idle", "checked"} <=> call'[c].pc \in {"idle", "checked"}
      PROVE  AbstractStep
  <2>1. UNCHANGED RegistryReq(c)
    BY <1>2, <1>6, ReqIs, ReqSame
  <2> QED BY <1>1, <1>3, <2>1, StutterStep
<1>7. CASE \E fd \in Sockets : AddSocketCheck(c, fd)
  <2>1. call[c].pc = "idle" /\ call'[c].pc = "checked"
    BY <1>1, <1>7 DEF AddSocketCheck, Busy
  <2>2. UNCHANGED RegistryReq(c)
    BY <2>1, ReqIs, ReqValue
  <2> QED BY <1>1, <1>3, <2>2, StutterStep
<1>8. CASE AddSocketRequest(c)
  <2>1. call[c].pc = "checked" /\ call[c].fd \in Sockets /\ mgr = "live"
    BY <1>1, <1>8 DEF AddSocketRequest, QueueInv, OneUser, CallFits, Closing, Busy
  <2> QED BY <1>4, <1>8, <2>1 DEF AddSocketRequest
<1>9. CASE \E fd \in Pipes : AddPipe(c, fd)
  BY <1>4, <1>9 DEF AddPipe, Busy
<1>10. CASE \E fd \in Deletable : DeleteFd(c, fd)
  BY <1>1, <1>4, <1>10 DEF DeleteFd, Busy
<1>11. CASE Free(c)
  BY <1>4, <1>11 DEF Free, Busy
<1>12. CASE ReturnAdd(c)
  <2>1. call[c].fd # PriFd
    BY <1>1, <1>12 DEF ReturnAdd, QueueInv, OneUser, CallFits, Busy, AppFds
  <2> QED BY <1>1, <1>5, <1>12, <2>1 DEF ReturnAdd
<1>13. CASE ReturnDeletePipe(c)
  BY <1>1, <1>5, <1>13 DEF ReturnDeletePipe
<1>14. CASE StoreCount(c)
  <2>1. call[c].fd # PriFd
    BY <1>1, <1>14 DEF StoreCount, QueueInv, OneUser, CallFits, Busy
  <2> QED BY <1>1, <1>5, <1>14, <2>1 DEF StoreCount
<1>15. CASE Join(c)
  BY <1>1, <1>5, <1>15 DEF Join, HasData
<1>16. CASE LoadCount(c) \/ ReturnFree(c)
  <2>1. /\ call[c].pc = "woken" /\ call'[c].pc \in {"loaded", "joining"} /\ UNCHANGED pri_pipe
        /\ call'[c].fd = call[c].fd /\ call'[c].act = call[c].act
    BY <1>1, <1>16 DEF LoadCount, ReturnFree, Call
  <2> QED BY <1>6, <2>1
<1>17. CASE UNCHANGED vars
  BY <1>6, <1>17 DEF vars
<1> QED BY <1>7, <1>8, <1>9, <1>10, <1>11, <1>12, <1>13, <1>14, <1>15, <1>16, <1>17
        DEF Caller, SpuriousWakeup, AddSocketMaxOut, AddPipeMaxOut

\* The thread serves a request when it takes it from the primary pipe, and the
\* request for self-destruction when it gives up its tables.
LEMMA ThreadImplements ==
  ASSUME OneCaller, ~Spurious, ~PollErrors, Inv, QueueInv, InStep, Closing, Thread,
         QueueInv', NoOverflow'
  PROVE  AbstractStep
<1>1. call \in [Callers -> Call] /\ PriFd # DataFd /\ PriFd \notin AppFds /\ DataFd \notin AppFds
  BY ConstantsAssumption DEF Inv, TypeOK, AppFds
<1>2. CASE Poll \/ DataPipe \/ PollinOnly \/ Pollout
  <2>1. /\ UNCHANGED <<fd_list, call, pri_pipe>> /\ tpc \notin {"exit", "dead"}
        /\ tpc' \notin {"exit", "dead"}
    BY <1>2 DEF Poll, DataPipe, PollinOnly, Pollout, Advance, mgrVars
  <2>2. UNCHANGED AppPolled
    BY <2>1 DEF AppPolled, Polled
  <2>3. ASSUME NEW c \in Callers PROVE UNCHANGED RegistryReq(c)
    BY <2>1, ReqIs, ReqSame
  <2> QED BY <2>2, <2>3, StutterStep
<1>3. CASE Signal \/ Exit
  <2>1. /\ WakeSome /\ UNCHANGED <<fd_list, pri_pipe>>
        /\ (tpc \in {"exit", "dead"}) = (tpc' \in {"exit", "dead"})
    BY <1>3 DEF Signal, Exit, Advance
  <2>2. UNCHANGED AppPolled
    BY <2>1 DEF AppPolled, Polled
  <2>3. ASSUME NEW c \in Callers PROVE UNCHANGED RegistryReq(c)
    <3>1. call[c] \in Call
      BY <1>1
    <3>2. /\ call'[c].fd = call[c].fd /\ call'[c].act = call[c].act
          /\ call[c].pc \in {"idle", "checked"} <=> call'[c].pc \in {"idle", "checked"}
      <4>1. CASE UNCHANGED call
        BY <4>1
      <4>2. CASE \E W \in SUBSET Waiting :
              /\ W # {}
              /\ call' = [d \in Callers |-> IF d \in W THEN [call[d] EXCEPT !.pc = "woken"] ELSE call[d]]
        <5>1. PICK W \in SUBSET Waiting :
                call' = [d \in Callers |-> IF d \in W THEN [call[d] EXCEPT !.pc = "woken"] ELSE call[d]]
          BY <4>2
        <5>2. CASE c \in W
          BY <3>1, <5>1, <5>2 DEF Call, Waiting
        <5>3. CASE c \notin W
          BY <5>1, <5>3
        <5> QED BY <5>2, <5>3
      <4> QED BY <2>1, <4>1, <4>2 DEF WakeSome
    <3> QED BY <2>1, <3>2, ReqIs, ReqSame
  <2> QED BY <2>2, <2>3, StutterStep
<1>4. CASE SelfDestruct
  <2>1. HasData /\ num_pollfds = 0 /\ UNCHANGED <<call, pri_pipe>> /\ ~HasData' /\ fd_list' = <<>>
    BY <1>4 DEF SelfDestruct, LeaveLoop, mgrVars, HasData
  <2>2. PICK c \in Waiting : call[c].fd = PriFd
    BY <2>1 DEF InStep
  <2>3. c \in Callers /\ call[c].pc = "waiting"
    BY DEF Waiting
  <2>4. AppPolled' = {}
    BY <2>1 DEF AppPolled, Polled
  <2>5. /\ RegistryReq(c) = [st |-> "asked", act |-> "CLOSE", fds |-> {}]
        /\ RegistryReq(c)' = [st |-> "done", act |-> "CLOSE", fds |-> {}]
    BY <2>1, <2>2, <2>3, ReqIs, ReqValue DEF HasData
  <2> QED BY <2>3, <2>4, <2>5, ServeStep
<1>5. CASE PriPipe
  <2>1. PICK c \in Waiting :
           /\ Head(pri_pipe) = [fd |-> call[c].fd, act |-> call[c].act]
           /\ pri_pipe = <<Head(pri_pipe)>> /\ pri_pipe' = <<>> /\ UNCHANGED call
           /\ \/ call[c].fd = PriFd /\ tpc' \in {"sweep", "poll"} /\ UNCHANGED fd_list
              \/ /\ call[c].fd \in AppFds /\ call[c].act = "ADD"
                 /\ Polled' = Polled \cup {call[c].fd}
              \/ /\ call[c].fd \in AppFds /\ call[c].act = "DELETE"
                 /\ Polled' = Polled \ {call[c].fd}
    BY <1>5, PriPipeTurn
  <2>2. c \in Callers /\ call[c].pc = "waiting" /\ call'[c] = call[c]
        /\ pri_pipe = <<[fd |-> call[c].fd, act |-> call[c].act]>>
    BY <2>1 DEF Waiting
  <2>3. CASE call[c].fd = PriFd
    <3>1. HasData /\ HasData' /\ UNCHANGED AppPolled
      BY <1>1, <1>5, <2>1, <2>3 DEF PriPipe, HasData, AppPolled, Polled
    <3>2. /\ RegistryReq(c) = [st |-> "asked", act |-> "CLOSE", fds |-> {}]
          /\ RegistryReq(c)' = [st |-> "asked", act |-> "CLOSE", fds |-> {}]
      BY <2>2, <2>3, <3>1, ReqIs, ReqValue DEF HasData
    <3>3. \A d \in Callers : UNCHANGED RegistryReq(d)
      BY <2>2, <3>2 DEF OneCaller
    <3> QED BY <3>1, <3>3, StutterStep
  <2>4. CASE call[c].fd \in AppFds
    <3>1. /\ RegistryReq(c) = [st |-> "asked", act |-> call[c].act, fds |-> {call[c].fd}]
          /\ RegistryReq(c)' = [st |-> "done", act |-> call[c].act, fds |-> {call[c].fd}]
      BY <1>1, <2>1, <2>2, <2>4, ReqIs, ReqValue
    <3>2. \/ call[c].act = "ADD" /\ AppPolled' = AppPolled \cup {call[c].fd}
          \/ call[c].act = "DELETE" /\ AppPolled' = AppPolled \ {call[c].fd}
      BY <1>1, <2>1, <2>4 DEF AppPolled
    <3> QED BY <2>2, <3>1, <3>2, ServeStep
  <2> QED BY <2>1, <2>3, <2>4
<1>6. CASE PollError
  BY <1>6 DEF PollError
<1> QED BY <1>2, <1>3, <1>4, <1>5, <1>6 DEF Thread

\* With one caller that is woken only by the signal, and a poll() that does not
\* fail, every call takes effect on the set of polled descriptors exactly once,
\* between its beginning and its return, and nothing else changes that set:
\* the safety part of ImplementsRegistry.
THEOREM RefinesRegistry ==
  ASSUME OneCaller, ~Spurious, ~PollErrors
  PROVE  Spec => Registry!Spec
<1>1. Init => Closing /\ Registry!Init
  <2>1. Init => Closing
    BY DEF Init, Closing, Busy, Idle, HasData
  <2>2. ASSUME Init PROVE Registry!Init
    <3>1. AppPolled = {}
      BY <2>2 DEF Init, AppPolled, Polled
    <3>2. \A c \in Callers : RegistryReq(c) = Registry!Idle
      BY <2>2 DEF Init, Idle, RegistryReq, Registry!Idle
    <3> QED BY <3>1, <3>2 DEF Registry!Init
  <2> QED BY <2>1, <2>2
<1>2. Inv /\ QueueInv /\ InStep /\ Closing /\ [Next]_vars => Closing'
  BY NextClosing
<1>3. Inv /\ QueueInv /\ InStep /\ Closing /\ [Next]_vars /\ QueueInv' /\ NoOverflow' => AbstractStep
  <2> SUFFICES ASSUME Inv, QueueInv, InStep, Closing, [Next]_vars, QueueInv', NoOverflow'
               PROVE  AbstractStep
    OBVIOUS
  <2>1. CASE UNCHANGED vars \/ \E fd \in Sockets : Send(fd)
    <3>1. UNCHANGED <<fd_list, call, pri_pipe, tpc>>
      BY <2>1 DEF vars, Send, mgrVars, thrVars
    <3>2. UNCHANGED AppPolled
      BY <3>1 DEF AppPolled, Polled
    <3>3. ASSUME NEW c \in Callers PROVE UNCHANGED RegistryReq(c)
      BY <3>1, ReqIs
    <3> QED BY <3>2, <3>3, StutterStep
  <2> QED BY <2>1, CallerImplements, ThreadImplements DEF Next
<1>4. Spec => []NoOverflow
  BY NoOverflowHolds DEF OneCaller
<1> QED BY <1>1, <1>2, <1>3, <1>4, Invariance, QueueInvariance, InStepInvariance, PTL
        DEF Spec, Registry!Spec, AbstractStep
=============================================================================
