---------------------------- MODULE MCScheduling ----------------------------
(***************************************************************************)
(* Instances of Scheduling for TLC.                                        *)
(***************************************************************************)
EXTENDS Scheduling

CONSTANTS p1, p2, w1, w2

MCSize == [p \in Post |-> IF p = p1 THEN 3 ELSE 1]
=============================================================================
