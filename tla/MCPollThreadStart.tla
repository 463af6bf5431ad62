------------------------- MODULE MCPollThreadStart -------------------------
(***************************************************************************)
(* Small instances of PollThreadStart for TLC.                             *)
(***************************************************************************)
EXTENDS PollThreadStart

CONSTANTS m1, m2, u1

OneMgr == {m1}
TwoMgrs == {m1, m2}
NoMgr == {}
OneUserFd == {u1}
=============================================================================
