----------------------------- MODULE MCAccounts -----------------------------
(***************************************************************************)
(* Small instances of Accounts: two shards, the names "m0" and "n0" on the *)
(* first, where the empty string is, and "n1" on the second.               *)
(***************************************************************************)
EXTENDS Accounts, TLC

CONSTANTS w1, w2

MCWorkers == {w1, w2}
MCNames == {"m0", "n0", "n1"}
MCPasswds == {"p", "q"}
MCShards == {0, 1}
MCShardOf == [k \in Keys |-> IF k = "n1" THEN 1 ELSE 0]
MCAmounts == {0, 1, 2}
MCSymmetry == Permutations(MCWorkers)
=============================================================================
