--------------------------- MODULE MCThreadPosting ---------------------------
(***************************************************************************)
(* Instances of ThreadPosting for TLC.                                     *)
(***************************************************************************)
EXTENDS ThreadPosting

CONSTANT c1

One == [c \in {c1} |-> 4]
=============================================================================
