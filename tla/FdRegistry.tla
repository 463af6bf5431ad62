----------------------------- MODULE FdRegistry -----------------------------
(***************************************************************************)
(* What adp_thr_mgr_add_del_fd promises its callers, without pipes, arrays *)
(* or condition variables: a set of descriptors that are being served, and *)
(* requests that take effect once, between the call and its return.        *)
(***************************************************************************)
EXTENDS Naturals

CONSTANTS Callers, Fds

VARIABLES served,   \* descriptors the thread polls for its users
          req       \* the request each caller is waiting on

vars == <<served, req>>

Acts == {"ADD", "DELETE", "CLOSE"}
Idle == [st |-> "idle", act |-> "CLOSE", fds |-> {}]

Init == served = {} /\ req = [c \in Callers |-> Idle]

\* A call names one descriptor, or closes the registry (adp_thr_mgr_free).
Ask(c) ==
  /\ req[c] = Idle
  /\ \/ \E a \in {"ADD", "DELETE"}, fd \in Fds :
          req' = [req EXCEPT ![c] = [st |-> "asked", act |-> a, fds |-> {fd}]]
     \/ req' = [req EXCEPT ![c] = [st |-> "asked", act |-> "CLOSE", fds |-> {}]]
  /\ UNCHANGED served

\* The request takes effect.
Serve(c) ==
  /\ req[c].st = "asked"
  /\ req' = [req EXCEPT ![c].st = "done"]
  /\ served' = CASE req[c].act = "ADD" -> served \cup req[c].fds
                 [] req[c].act = "DELETE" -> served \ req[c].fds
                 [] OTHER -> {}

\* The call returns.
Answer(c) ==
  /\ req[c].st = "done"
  /\ req' = [req EXCEPT ![c] = Idle]
  /\ UNCHANGED served

Next == \E c \in Callers : Ask(c) \/ Serve(c) \/ Answer(c)

Spec == Init /\ [][Next]_vars
FairSpec == Spec /\ \A c \in Callers : WF_vars(Serve(c)) /\ WF_vars(Answer(c))
=============================================================================
