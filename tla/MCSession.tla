----------------------------- MODULE MCSession ------------------------------
(***************************************************************************)
(* Small instances of Session for TLC.                                     *)
(***************************************************************************)
EXTENDS Session, TLC

CONSTANTS r1, r2, home, away

MCRequests == {r1, r2}
MCOrigins == {home, away}

MCSymmetry == Permutations(MCRequests)
=============================================================================
