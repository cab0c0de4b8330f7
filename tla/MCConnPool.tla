----------------------------- MODULE MCConnPool -----------------------------
(***************************************************************************)
(* A small instance of ConnPool for TLC.                                   *)
(***************************************************************************)
EXTENDS ConnPool

CONSTANTS t1, t2, c1, c2, c3, c4, none

MCThreads == {t1, t2}
MCConns == {c1, c2, c3, c4}
=============================================================================
