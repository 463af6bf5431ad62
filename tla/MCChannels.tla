----------------------------- MODULE MCChannels -----------------------------
(***************************************************************************)
(* Small instances of Channels for TLC.                                    *)
(***************************************************************************)
EXTENDS Channels

CONSTANTS a1, a2, d1, d2, f1, f2, i1, i2

OneApp == {a1}
TwoApps == {a1, a2}
OneDev == {d1}
TwoDevs == {d1, d2}
OneFd == {f1}
TwoFds == {f1, f2}
OneId == {i1}
TwoIds == {i1, i2}
BothTypes == {"CONTROLLER", "SWITCH"}
SwitchOnly == {"SWITCH"}
Symmetric == Permutations(Apps) \cup Permutations(Fds) \cup Permutations(Ids)
=============================================================================
