----------------------------- MODULE MCOAuthFlow -----------------------------
(***************************************************************************)
(* Instances of OAuthFlow for TLC.                                         *)
(***************************************************************************)
EXTENDS OAuthFlow, TLC

CONSTANTS u1, u2, a1, a2, l1, l2, k1, k2, k3

Symmetric ==
    Permutations(User) \cup Permutations(Account)
        \cup Permutations(Login) \cup Permutations(Callback)
=============================================================================
