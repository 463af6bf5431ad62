----------------------- MODULE PollThreadStartProofs -----------------------
(***************************************************************************)
(* Theorems about PollThreadStart, for any number of managers that come up *)
(* at once and wherever the waits of their creators end.                   *)
(***************************************************************************)
EXTENDS PollThreadStart, TLAPS, SequenceTheorems

-----------------------------------------------------------------------------
(* The inductive invariant *)

\* What the thread of m has taken up and what is queued for it.
Queue(m, list, pipe) == fds[m] = list /\ pri_pipe[m] = pipe

Fresh(m) == thread[m] = "started"
Listed1(m) == thread[m] \in {"setup", "poll", "crashed"}
Serves(m) == thread[m] \in {"poll", "signal"}

\* How far creator and thread of m have come, and with it the exact contents of
\* list and pipe.  The creator may be ahead of the thread by any number of its
\* requests, since each of its waits may end early; the thread takes them up in
\* their order, none before it is set up.
Stage(m) ==
  \/ /\ creator[m] = "new" /\ thread[m] = "none"
     /\ npipes[m] = 0 /\ Queue(m, <<>>, <<>>)
  \/ /\ creator[m] \in {"created", "wait_init", "init_done"} /\ npipes[m] = 1
     /\ \/ Fresh(m) /\ Queue(m, <<>>, <<>>)
        \/ Listed1(m) /\ Queue(m, <<"pri">>, <<>>)
  \/ /\ creator[m] \in {"wait_add", "returned"} /\ npipes[m] = 2
     /\ \/ Fresh(m) /\ Queue(m, <<>>, <<"data">>)
        \/ Listed1(m) /\ Queue(m, <<"pri">>, <<"data">>)
        \/ Serves(m) /\ Queue(m, <<"pri", "data">>, <<>>)
  \/ /\ creator[m] \in {"wait_user", "served"} /\ npipes[m] = 2
     /\ \E u \in UserFds :
          \/ Fresh(m) /\ Queue(m, <<>>, <<"data", u>>)
          \/ Listed1(m) /\ Queue(m, <<"pri">>, <<"data", u>>)
          \/ Serves(m) /\ Queue(m, <<"pri", "data">>, <<u>>)
          \/ Serves(m) /\ Queue(m, <<"pri", "data", u>>, <<>>)

\* A creator that only a signal wakes is never ahead of the thread.
InStep(m) ==
  /\ creator[m] = "init_done" => thread[m] = "poll"
  /\ creator[m] = "wait_add" => \/ thread[m] = "poll" /\ pri_pipe[m] = <<"data">>
                                \/ thread[m] = "signal" /\ pri_pipe[m] = <<>>
  /\ creator[m] = "returned" => thread[m] = "poll" /\ pri_pipe[m] = <<>>

Inv == /\ TypeOK
       /\ \A m \in Mgrs : Stage(m) /\ (m \notin Spurious => InStep(m))

\* Nothing exists before adp_thr_mgr_new is called.
LEMMA InitInv == Init => Inv
BY EmptySeq DEF Init, Inv, TypeOK, Stage, InStep, Queue

\* A step of m leaves the other managers alone.
LEMMA OthersKept ==
  ASSUME TypeOK, NEW m \in Mgrs, NEW n \in Mgrs, n # m,
         Creator(m) \/ Thread(m) \/ SpuriousWakeup(m)
  PROVE  (Stage(n) => Stage(n)') /\ (InStep(n) => InStep(n)')
<1>1. /\ npipes'[n] = npipes[n] /\ creator'[n] = creator[n] /\ thread'[n] = thread[n]
      /\ pri_pipe'[n] = pri_pipe[n] /\ fds'[n] = fds[n]
  BY DEF TypeOK, Creator, Thread, SpuriousWakeup, Create, WaitInit, AddDataPipe, UserAdd,
         Setup, SignalInit, SignalThroughGarbage, ServeAdd, SignalAdd
<1> QED BY <1>1 DEF Stage, InStep, Queue, Fresh, Listed1, Serves

\* What Append makes of a short tuple.
LEMMA AppendTuple ==
  ASSUME NEW a, NEW b, NEW c
  PROVE  Append(<<a>>, b) = <<a, b>> /\ Append(<<a, b>>, c) = <<a, b, c>>
<1> DEFINE S == {a, b, c}
<1>1. /\ <<a>> \in Seq(S) /\ <<a, b>> \in Seq(S) /\ <<a, b, c>> \in Seq(S)
      /\ Len(<<a>>) = 1 /\ Len(<<a, b>>) = 2 /\ Len(<<a, b, c>>) = 3
  OBVIOUS
<1>2. Append(<<a>>, b) = <<a, b>>
  <2>1. /\ Append(<<a>>, b) \in Seq(S) /\ Len(Append(<<a>>, b)) = 2
        /\ Append(<<a>>, b)[1] = a /\ Append(<<a>>, b)[2] = b
    BY <1>1, AppendProperties
  <2>2. \A i \in 1 .. 2 : Append(<<a>>, b)[i] = <<a, b>>[i]
    BY <2>1
  <2> QED BY <1>1, <2>1, <2>2, SeqEqual
<1>3. Append(<<a, b>>, c) = <<a, b, c>>
  <2>1. /\ Append(<<a, b>>, c) \in Seq(S) /\ Len(Append(<<a, b>>, c)) = 3
        /\ Append(<<a, b>>, c)[1] = a /\ Append(<<a, b>>, c)[2] = b
        /\ Append(<<a, b>>, c)[3] = c
    BY <1>1, AppendProperties
  <2>2. \A i \in 1 .. 3 : Append(<<a, b>>, c)[i] = <<a, b, c>>[i]
    BY <2>1
  <2> QED BY <1>1, <2>1, <2>2, SeqEqual
<1> QED BY <1>2, <1>3

\* Where the three waits of a creator lead.
LEMMA AfterWaits ==
  /\ After("wait_init") = "init_done"
  /\ After("wait_add") = "returned"
  /\ After("wait_user") = "served"
BY DEF After

\* Every step keeps the types.
LEMMA TypeStep ==
  ASSUME Inv, NEW m \in Mgrs, Creator(m) \/ Thread(m) \/ SpuriousWakeup(m)
  PROVE  TypeOK'
<1> USE DEF Inv
<1>1. CASE Create(m) \/ WaitInit(m) \/ SignalThroughGarbage(m)
  <2>1. CASE Create(m)
    BY <2>1 DEF TypeOK, Create
  <2>2. CASE WaitInit(m) \/ SignalThroughGarbage(m)
    BY <2>2 DEF TypeOK, WaitInit, SignalThroughGarbage
  <2> QED BY <1>1, <2>1, <2>2
<1>2. CASE SignalInit(m) \/ SignalAdd(m) \/ SpuriousWakeup(m)
  BY <1>2, AfterWaits, ZenonT(60) DEF TypeOK, SignalInit, SignalAdd, SpuriousWakeup, Waits
<1>3. CASE AddDataPipe(m)
  <2>1. npipes[m] = 1
    BY <1>3 DEF AddDataPipe, Stage
  <2>2. npipes' \in [Mgrs -> 0 .. 2]
    BY <1>3, <2>1 DEF AddDataPipe, OneMorePipe, TypeOK
  <2>3. pri_pipe' \in [Mgrs -> Seq({"data"} \cup UserFds)]
    BY <1>3 DEF AddDataPipe, TypeOK
  <2> QED BY <1>3, <2>2, <2>3 DEF AddDataPipe, TypeOK
<1>4. ASSUME NEW fd \in UserFds, UserAdd(m, fd) PROVE TypeOK'
  BY <1>4 DEF TypeOK, UserAdd
<1>5. CASE Setup(m)
  BY <1>5 DEF TypeOK, Setup
<1>6. CASE ServeAdd(m)
  BY <1>6 DEF TypeOK, ServeAdd, Listed
<1> QED BY <1>1, <1>2, <1>3, <1>4, <1>5, <1>6 DEF Creator, Thread

\* Every step of m takes it from stage to stage.
LEMMA StageStep ==
  ASSUME Inv, NEW m \in Mgrs, Creator(m) \/ Thread(m) \/ SpuriousWakeup(m)
  PROVE  Stage(m)' /\ (m \notin Spurious => InStep(m)')
<1> DEFINE Same == /\ npipes'[m] = npipes[m] /\ pri_pipe'[m] = pri_pipe[m]
                   /\ fds'[m] = fds[m]
<1>1. CASE Create(m)
  <2>1. /\ npipes'[m] = 1 /\ creator'[m] = "created" /\ thread'[m] = "started"
        /\ creator[m] = "new" /\ pri_pipe'[m] = pri_pipe[m] /\ fds'[m] = fds[m]
    BY <1>1 DEF Create, Inv, TypeOK
  <2> QED BY <2>1 DEF Inv, Stage, InStep, Queue, Fresh
<1>2. CASE WaitInit(m)
  <2>1. /\ Same /\ creator[m] = "created" /\ creator'[m] = "wait_init"
        /\ thread'[m] = thread[m]
    BY <1>2 DEF WaitInit, Inv, TypeOK
  <2> QED BY <2>1 DEF Inv, Stage, InStep, Queue, Fresh, Listed1
<1>3. CASE AddDataPipe(m)
  <2>1. /\ npipes'[m] = npipes[m] + 1 /\ creator'[m] = "wait_add"
        /\ creator[m] = "init_done" /\ pri_pipe'[m] = Append(pri_pipe[m], "data")
        /\ thread'[m] = thread[m] /\ fds'[m] = fds[m]
    BY <1>3 DEF AddDataPipe, OneMorePipe, Inv, TypeOK
  <2>2. npipes[m] = 1 /\ pri_pipe[m] = <<>>
    BY <2>1 DEF Inv, Stage, Queue
  <2>3. npipes'[m] = 2 /\ pri_pipe'[m] = <<"data">>
    BY <2>1, <2>2
  <2> QED BY <2>1, <2>2, <2>3 DEF Inv, Stage, InStep, Queue, Fresh, Listed1
<1>4. ASSUME NEW u \in UserFds, UserAdd(m, u)
      PROVE  Stage(m)' /\ InStep(m)'
  <2>1. /\ npipes'[m] = npipes[m] /\ creator'[m] = "wait_user"
        /\ creator[m] = "returned" /\ pri_pipe'[m] = Append(pri_pipe[m], u)
        /\ thread'[m] = thread[m] /\ fds'[m] = fds[m]
    BY <1>4 DEF UserAdd, Inv, TypeOK
  <2>2. Append(<<>>, u) = <<u>>
    OBVIOUS
  <2>3. Append(<<"data">>, u) = <<"data", u>>
    BY AppendTuple
  <2> QED BY <2>1, <2>2, <2>3, ZenonT(60) DEF Inv, Stage, InStep, Queue, Fresh, Listed1, Serves
<1>5. CASE Setup(m)
  <2>1. /\ npipes'[m] = npipes[m] /\ creator'[m] = creator[m]
        /\ pri_pipe'[m] = pri_pipe[m] /\ fds'[m] = <<"pri">>
        /\ thread[m] = "started" /\ thread'[m] = "setup"
    BY <1>5 DEF Setup, Inv, TypeOK
  <2> QED BY <2>1 DEF Inv, Stage, InStep, Queue, Fresh, Listed1, Serves
<1>6. CASE SignalInit(m)
  <2>1. /\ Same /\ thread[m] = "setup" /\ thread'[m] = "poll"
        /\ creator'[m] = IF creator[m] = "wait_init" THEN "init_done" ELSE creator[m]
    BY <1>6, AfterWaits DEF SignalInit, Inv, TypeOK
  <2> QED BY <2>1 DEF Inv, Stage, InStep, Queue, Fresh, Listed1, Serves
<1>7. CASE SignalThroughGarbage(m)
  <2>1. /\ Same /\ thread[m] = "setup" /\ thread'[m] = "crashed"
        /\ creator'[m] = creator[m]
    BY <1>7 DEF SignalThroughGarbage, Inv, TypeOK
  <2> QED BY <2>1 DEF Inv, Stage, InStep, Queue, Fresh, Listed1, Serves
<1>8. CASE ServeAdd(m)
  <2>1. /\ npipes'[m] = npipes[m] /\ creator'[m] = creator[m]
        /\ pri_pipe'[m] = Tail(pri_pipe[m]) /\ pri_pipe[m] # <<>>
        /\ fds'[m] = Append(fds[m], Head(pri_pipe[m]))
        /\ thread[m] = "poll" /\ thread'[m] = "signal"
    BY <1>8 DEF ServeAdd, Listed, Inv, TypeOK
  <2>2. CASE Queue(m, <<"pri">>, <<"data">>) /\ creator[m] \in {"wait_add", "returned"}
    <3>1. Append(<<"pri">>, "data") = <<"pri", "data">>
      BY AppendTuple
    <3>2. fds'[m] = <<"pri", "data">> /\ pri_pipe'[m] = <<>>
      BY <2>1, <2>2, <3>1 DEF Queue
    <3>3. npipes[m] = 2 /\ (m \notin Spurious => creator[m] = "wait_add")
      BY <2>1, <2>2 DEF Inv, Stage, InStep
    <3> QED BY <2>1, <2>2, <3>2, <3>3 DEF Stage, InStep, Queue, Serves
  <2>3. ASSUME NEW u \in UserFds, Queue(m, <<"pri">>, <<"data", u>>),
               creator[m] \in {"wait_user", "served"}
        PROVE  Stage(m)' /\ InStep(m)'
    <3>1. Append(<<"pri">>, "data") = <<"pri", "data">>
      BY AppendTuple
    <3>2. fds'[m] = <<"pri", "data">> /\ pri_pipe'[m] = <<u>>
      BY <2>1, <2>3, <3>1 DEF Queue
    <3>3. npipes[m] = 2
      BY <2>3 DEF Inv, Stage
    <3> QED BY <2>1, <2>3, <3>2, <3>3 DEF Stage, InStep, Queue, Serves
  <2>4. ASSUME NEW u \in UserFds, Queue(m, <<"pri", "data">>, <<u>>),
               creator[m] \in {"wait_user", "served"}
        PROVE  Stage(m)' /\ InStep(m)'
    <3>1. Append(<<"pri", "data">>, u) = <<"pri", "data", u>>
      BY AppendTuple
    <3>2. fds'[m] = <<"pri", "data", u>> /\ pri_pipe'[m] = <<>>
      BY <2>1, <2>4, <3>1 DEF Queue
    <3>3. npipes[m] = 2
      BY <2>4 DEF Inv, Stage
    <3> QED BY <2>1, <2>4, <3>2, <3>3 DEF Stage, InStep, Queue, Serves
  <2> QED BY <2>1, <2>2, <2>3, <2>4 DEF Inv, Stage, Queue, Fresh, Listed1, Serves
<1>9. CASE SignalAdd(m)
  <2>1. /\ Same /\ thread[m] = "signal" /\ thread'[m] = "poll"
        /\ creator'[m] = IF creator[m] = "wait_add" THEN "returned"
                         ELSE IF creator[m] = "wait_user" THEN "served" ELSE creator[m]
    BY <1>9, AfterWaits DEF SignalAdd, Inv, TypeOK
  <2> QED BY <2>1 DEF Inv, Stage, InStep, Queue, Fresh, Listed1, Serves
<1>10. CASE SpuriousWakeup(m)
  <2>1. /\ Same /\ m \in Spurious /\ thread'[m] = thread[m]
        /\ \/ creator[m] = "wait_init" /\ creator'[m] = "init_done"
           \/ creator[m] = "wait_add" /\ creator'[m] = "returned"
           \/ creator[m] = "wait_user" /\ creator'[m] = "served"
    BY <1>10, AfterWaits DEF SpuriousWakeup, Waits, Inv, TypeOK
  <2> QED BY <2>1 DEF Inv, Stage, Queue, Fresh, Listed1, Serves
<1> QED BY <1>1, <1>2, <1>3, <1>4, <1>5, <1>6, <1>7, <1>8, <1>9, <1>10 DEF Creator, Thread

\* The invariant is inductive.
LEMMA StepInv == Inv /\ [Next]_vars => Inv'
<1> SUFFICES ASSUME Inv, [Next]_vars PROVE Inv'
  OBVIOUS
<1>1. ASSUME NEW m \in Mgrs, Creator(m) \/ Thread(m) \/ SpuriousWakeup(m) PROVE Inv'
  BY <1>1, OthersKept, TypeStep, StageStep DEF Inv
<1>2. CASE UNCHANGED vars
  <2>1. TypeOK'
    BY <1>2 DEF Inv, TypeOK, vars
  <2>2. \A m \in Mgrs : (Stage(m) <=> Stage(m)') /\ (InStep(m) <=> InStep(m)')
    BY <1>2 DEF Stage, InStep, Queue, Fresh, Listed1, Serves, vars
  <2> QED BY <2>1, <2>2 DEF Inv
<1> QED BY <1>1, <1>2 DEF Next

\* The invariant holds in every behaviour of creators and threads.
THEOREM Invariance == Spec => []Inv
BY InitInv, StepInv, PTL DEF Spec

-----------------------------------------------------------------------------
(* What follows from it *)

\* DELETE_FD may recognise the administrative pipes by their slots: wherever
\* the waits of adp_thr_mgr_new end, the thread gets the primary pipe first and
\* the data pipe second.
THEOREM AdminPlacesHold == Spec => []AdminPlaces
<1>1. Inv => AdminPlaces
  <2> SUFFICES ASSUME Inv, NEW m \in Mgrs, NEW i \in 1 .. Len(fds[m])
               PROVE  /\ fds[m][i] = "pri" <=> i = 1
                      /\ fds[m][i] = "data" <=> i = 2
    BY DEF AdminPlaces
  <2>1. \/ fds[m] = <<>> \/ fds[m] = <<"pri">> \/ fds[m] = <<"pri", "data">>
        \/ \E u \in UserFds : fds[m] = <<"pri", "data", u>>
    BY DEF Inv, Stage, Queue
  <2>2. \A u \in UserFds : u # "pri" /\ u # "data"
    BY StartAssumption
  <2> QED BY <2>1, <2>2
<1> QED BY <1>1, Invariance, PTL

\* A manager that adp_thr_mgr_new has returned has its two pipes, the data pipe
\* polled or about to be.
THEOREM ReturnedCompleteHolds == Spec => []ReturnedComplete
<1>1. Inv => ReturnedComplete
  BY DEF Inv, Stage, Queue, ReturnedComplete
<1> QED BY <1>1, Invariance, PTL

\* Without spurious wake-ups the state handed over is the one PollThread
\* starts from, also while other managers come up with early wake-ups.
THEOREM HandsOverHolds == Spec => []HandsOver
<1>1. Inv => HandsOver
  BY DEF Inv, Stage, InStep, Queue, Fresh, Listed1, Serves, HandsOver
<1> QED BY <1>1, Invariance, PTL
=============================================================================
