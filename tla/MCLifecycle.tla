---------------------------- MODULE MCLifecycle -----------------------------
(***************************************************************************)
(* Small instances of Lifecycle for TLC.                                   *)
(***************************************************************************)
EXTENDS Lifecycle

CONSTANTS t1, t2

MCThreads == {t1, t2}
=============================================================================
