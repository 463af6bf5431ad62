---------------------------- MODULE MCPollThread ----------------------------
(***************************************************************************)
(* Small instances of PollThread for TLC.                                  *)
(***************************************************************************)
EXTENDS PollThread

CONSTANTS c1, c2, s1, s2, s3, p1, p2

OneCaller == {c1}
TwoCallers == {c1, c2}
TwoSockets == {s1, s2}
ThreeSockets == {s1, s2, s3}
TwoPipes == {p1, p2}
NoFds == {}
AllAppFds == Sockets \cup Pipes
JustS1 == {s1}
JustS2 == {s2}
TwoSymmetry == Permutations(TwoCallers) \cup Permutations(TwoSockets)
=============================================================================
