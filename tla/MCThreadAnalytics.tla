-------------------------- MODULE MCThreadAnalytics --------------------------
(***************************************************************************)
(* Instances of ThreadAnalytics for TLC.                                   *)
(***************************************************************************)
EXTENDS ThreadAnalytics

CONSTANTS c1, c2

Pair == [c \in {c1, c2} |-> IF c = c1 THEN 3 ELSE 2]
=============================================================================
