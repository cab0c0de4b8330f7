-------------------------- MODULE MCHttpConnection --------------------------
(***************************************************************************)
(* Small instances of HttpConnection for TLC.                              *)
(***************************************************************************)
EXTENDS HttpConnection

CONSTANTS c1, t1, t2, none

MCAny == BOOLEAN
MCConns == {c1}
MCThreads == {t1, t2}
=============================================================================
