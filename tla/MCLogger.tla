------------------------------ MODULE MCLogger ------------------------------
(***************************************************************************)
(* Small instances of Logger for TLC, with a short calendar.               *)
(***************************************************************************)
EXTENDS Logger

CONSTANTS main, t1

MCThreads == {main, t1}
=============================================================================
