--------------------------- MODULE MCAccountTokens ---------------------------
(***************************************************************************)
(* Instances of AccountTokens for TLC.                                     *)
(***************************************************************************)
EXTENDS AccountTokens, TLC

CONSTANTS t1, t2, k1

Tasks == Permutations(Task)
=============================================================================
