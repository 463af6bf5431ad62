-------------------------- MODULE PollThreadStart --------------------------
(***************************************************************************)
(* How a poll thread comes up (cc_pollthr_mgr.c): adp_thr_mgr_new creates  *)
(* the primary pipe and the thread, waits for the thread to say that it is *)
(* initialised, and adds the data pipe through its own API.  The state it  *)
(* leaves behind is the initial state of PollThread.                       *)
(*                                                                         *)
(* Several managers come up at once, each in the hands of one creator.     *)
(* Both waits are g_cond_wait without a predicate: a signal given while    *)
(* nobody waits is gone.  As in PollThread, lock / write / wait and lock / *)
(* signal / unlock are one step each.                                      *)
(*                                                                         *)
(* "Seeded fault": a wrong version of the definition that follows, used    *)
(* only to see that a property notices.                                    *)
(***************************************************************************)
EXTENDS Naturals, Sequences

CONSTANTS
  Mgrs,        \* managers that are being created
  UserFds,     \* descriptors the creator adds once it has the manager
  Spurious,    \* managers whose creator may leave g_cond_wait without a signal
  FreedReused  \* may the block freed before its last use be overwritten?

ASSUME StartAssumption ==
  /\ Spurious \subseteq Mgrs /\ FreedReused \in BOOLEAN
  /\ UserFds \cap {"pri", "data"} = {}

VARIABLES
  npipes,   \* num_pipes of the manager, in pipes
  creator,  \* where the thread that called adp_thr_mgr_new is
  thread,   \* where the poll thread is
  pri_pipe, \* descriptors of the ADD requests queued on the primary pipe
  fds       \* descriptors in fd_list and in pollfd_arr, in order

vars == <<npipes, creator, thread, pri_pipe, fds>>

Init ==
  /\ npipes = [m \in Mgrs |-> 0]
  /\ creator = [m \in Mgrs |-> "new"]
  /\ thread = [m \in Mgrs |-> "none"]
  /\ pri_pipe = [m \in Mgrs |-> <<>>]
  /\ fds = [m \in Mgrs |-> <<>>]

\* A crash ends the process, with the threads of every manager.
Alive == \A m \in Mgrs : thread[m] # "crashed"

-----------------------------------------------------------------------------
(* adp_thr_mgr_new *)

\* The manager object, the primary pipe, g_thread_new.
Create(m) ==
  /\ Alive /\ creator[m] = "new"
  /\ npipes' = [npipes EXCEPT ![m] = 1]
  /\ creator' = [creator EXCEPT ![m] = "created"]
  /\ thread' = [thread EXCEPT ![m] = "started"]
  /\ UNCHANGED <<pri_pipe, fds>>

\* Lock adp_thr_init_cv_mutex and wait, whether or not the thread has signalled.
WaitInit(m) ==
  /\ Alive /\ creator[m] = "created"
  /\ creator' = [creator EXCEPT ![m] = "wait_init"]
  /\ UNCHANGED <<npipes, thread, pri_pipe, fds>>

\* num_pipes grows by the two ends of one pipe.
OneMorePipe(n) == n + 1

\* adp_thr_mgr_add_del_fd creates the data pipe and asks the thread to poll it.
AddDataPipe(m) ==
  /\ Alive /\ creator[m] = "init_done"
  /\ npipes' = [npipes EXCEPT ![m] = OneMorePipe(@)]
  /\ pri_pipe' = [pri_pipe EXCEPT ![m] = Append(@, "data")]
  /\ creator' = [creator EXCEPT ![m] = "wait_add"]
  /\ UNCHANGED <<thread, fds>>

\* The first use of the manager by the code that wanted it.
UserAdd(m, fd) ==
  /\ Alive /\ creator[m] = "returned"
  /\ pri_pipe' = [pri_pipe EXCEPT ![m] = Append(@, fd)]
  /\ creator' = [creator EXCEPT ![m] = "wait_user"]
  /\ UNCHANGED <<npipes, thread, fds>>

\* Seeded fault: adp_thr_mgr_new returns without the data pipe.
AfterNoDataPipe(pc) == IF pc = "wait_user" THEN "served" ELSE "returned"

\* Where a creator that leaves g_cond_wait goes on.
After(pc) == CASE pc = "wait_init" -> "init_done"
               [] pc = "wait_add"  -> "returned"
               [] OTHER            -> "served"

Waits(m) == creator[m] \in {"wait_init", "wait_add", "wait_user"}

SpuriousWakeup(m) ==
  /\ Alive /\ m \in Spurious /\ Waits(m)
  /\ creator' = [creator EXCEPT ![m] = After(@)]
  /\ UNCHANGED <<npipes, thread, pri_pipe, fds>>

-----------------------------------------------------------------------------
(* adp_thr_mgr_poll_thread_func *)

\* The private data, with the primary pipe as its first entry.
Setup(m) ==
  /\ Alive /\ thread[m] = "started"
  /\ fds' = [fds EXCEPT ![m] = <<"pri">>]
  /\ thread' = [thread EXCEPT ![m] = "setup"]
  /\ UNCHANGED <<npipes, creator, pri_pipe>>

\* g_cond_signal of the initialisation condition, through the mgr pointer of
\* the block that was freed just before.
SignalInit(m) ==
  /\ Alive /\ thread[m] = "setup"
  /\ thread' = [thread EXCEPT ![m] = "poll"]
  /\ creator' = IF creator[m] = "wait_init"
                THEN [creator EXCEPT ![m] = After(@)] ELSE creator
  /\ UNCHANGED <<npipes, pri_pipe, fds>>

\* The same, when the freed block was given to somebody else meanwhile.
SignalThroughGarbage(m) ==
  /\ Alive /\ FreedReused /\ thread[m] = "setup"
  /\ thread' = [thread EXCEPT ![m] = "crashed"]
  /\ UNCHANGED <<npipes, creator, pri_pipe, fds>>

\* Seeded fault: a new descriptor becomes the first of the list.
ListedFirst(list, fd) == <<fd>> \o list

\* g_list_append.
Listed(list, fd) == Append(list, fd)

\* Seeded fault: the callback returns without a signal.
ServeAddSilent(m) ==
  /\ Alive /\ thread[m] = "poll" /\ pri_pipe[m] # <<>>
  /\ fds' = [fds EXCEPT ![m] = Listed(@, Head(pri_pipe[m]))]
  /\ pri_pipe' = [pri_pipe EXCEPT ![m] = Tail(@)]
  /\ UNCHANGED <<npipes, creator, thread>>

\* poll() reports the primary pipe and its callback appends the descriptor.
ServeAdd(m) ==
  /\ Alive /\ thread[m] = "poll" /\ pri_pipe[m] # <<>>
  /\ fds' = [fds EXCEPT ![m] = Listed(@, Head(pri_pipe[m]))]
  /\ pri_pipe' = [pri_pipe EXCEPT ![m] = Tail(@)]
  /\ thread' = [thread EXCEPT ![m] = "signal"]
  /\ UNCHANGED <<npipes, creator>>

\* g_cond_signal of the add/delete condition.
SignalAdd(m) ==
  /\ Alive /\ thread[m] = "signal"
  /\ thread' = [thread EXCEPT ![m] = "poll"]
  /\ creator' = IF creator[m] \in {"wait_add", "wait_user"}
                THEN [creator EXCEPT ![m] = After(@)] ELSE creator
  /\ UNCHANGED <<npipes, pri_pipe, fds>>

-----------------------------------------------------------------------------
Creator(m) == \/ Create(m) \/ WaitInit(m) \/ AddDataPipe(m)
              \/ \E fd \in UserFds : UserAdd(m, fd)
Thread(m) == \/ Setup(m) \/ SignalInit(m) \/ SignalThroughGarbage(m)
             \/ ServeAdd(m) \/ SignalAdd(m)

Next == \E m \in Mgrs : Creator(m) \/ Thread(m) \/ SpuriousWakeup(m)

Spec == Init /\ [][Next]_vars

\* Both threads are scheduled.
FairSpec == Spec /\ \A m \in Mgrs : WF_vars(Creator(m)) /\ WF_vars(Thread(m))

-----------------------------------------------------------------------------
(* Properties *)

\* Every variable has its type.
TypeOK ==
  /\ npipes \in [Mgrs -> 0 .. 2]
  /\ creator \in [Mgrs -> {"new", "created", "wait_init", "init_done",
                           "wait_add", "returned", "wait_user", "served"}]
  /\ thread \in [Mgrs -> {"none", "started", "setup", "poll", "signal",
                          "crashed"}]
  /\ pri_pipe \in [Mgrs -> Seq({"data"} \cup UserFds)]
  /\ fds \in [Mgrs -> Seq({"pri", "data"} \cup UserFds)]

\* DELETE_FD recognises the administrative pipes by their place: slots 0 and 1.
\* Whatever wakes the creator early, at either wait, the thread takes the two
\* pipes up in that order and a user's descriptor behind them.
AdminPlaces ==
  \A m \in Mgrs : \A i \in 1 .. Len(fds[m]) :
    /\ fds[m][i] = "pri" <=> i = 1
    /\ fds[m][i] = "data" <=> i = 2

\* When adp_thr_mgr_new has returned, the manager counts two pipes and the
\* data pipe is polled or about to be: DATA_PIPE_WR_FD can be written.
ReturnedComplete ==
  \A m \in Mgrs :
    creator[m] \in {"returned", "wait_user", "served"} =>
      /\ npipes[m] = 2
      /\ "data" \in {fds[m][i] : i \in DOMAIN fds[m]}
                    \cup {pri_pipe[m][i] : i \in DOMAIN pri_pipe[m]}

\* The state left to PollThread: with no spurious wake-up the thread polls
\* exactly the two administrative pipes when adp_thr_mgr_new returns.
HandsOver ==
  \A m \in Mgrs \ Spurious :
    creator[m] = "returned" => fds[m] = <<"pri", "data">> /\ pri_pipe[m] = <<>>

\* Past the first handshake, a creator gets its manager, or the freed start-up
\* block has ended the process.
PastInitReturns ==
  \A m \in Mgrs : creator[m] = "wait_add" ~> creator[m] = "returned" \/ ~Alive

\* "Wait till thread is created": adp_thr_mgr_new returns.
NewReturns ==
  \A m \in Mgrs : creator[m] = "created" ~> creator[m] = "returned"
=============================================================================
