----------------------------- MODULE MCLogFile ------------------------------
(***************************************************************************)
(* A small instance of LogFile for TLC.                                    *)
(***************************************************************************)
EXTENDS LogFile

CONSTANTS t1, t2

TwoThreads == {t1, t2}
=============================================================================
