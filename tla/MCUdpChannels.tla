--------------------------- MODULE MCUdpChannels ----------------------------
(***************************************************************************)
(* Small instances of UdpChannels for TLC: p reads the same in both byte   *)
(* orders, q and r are the reverse of each other.                          *)
(***************************************************************************)
EXTENDS UdpChannels

CONSTANTS a1, a2, i1, i2, p, q, r

OneApp == {a1}
TwoApps == {a1, a2}
OneFd == {1}
TwoFds == {1, 2}
OneId == {i1}
TwoIds == {i1, i2}
ThreeAddrs == {p, q, r}
Reverse3 == [x \in ThreeAddrs |-> CASE x = p -> p [] x = q -> r [] x = r -> q]
BothTypes == {"CONTROLLER", "SWITCH"}
=============================================================================
