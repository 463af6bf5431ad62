------------------------------ MODULE MCRwPool ------------------------------
(***************************************************************************)
(* Small instances of RwPool for TLC.                                      *)
(***************************************************************************)
EXTENDS RwPool

CONSTANTS w1, w2, a, b, c, d

TwoWorkers == {w1, w2}
FourFds == {a, b, c, d}
Symmetric == Permutations(Fds) \cup Permutations(Workers)
=============================================================================
