----------------------------- MODULE MCLibLocks -----------------------------
(***************************************************************************)
(* Small instances of LibLocks for TLC.                                    *)
(***************************************************************************)
EXTENDS LibLocks

CONSTANTS a1, a2

TwoApps == {a1, a2}
TwoFds == {1, 2}
BothTypes == {"CONTROLLER", "SWITCH"}
SendsBack == {"send", "set_real"}
=============================================================================
