------------------------------ MODULE Supabase ------------------------------
(***************************************************************************)
(* How one statement of a repository can end.  supabase-py sends each      *)
(* statement as one HTTP request, committed on its own: no transaction     *)
(* spans two of them.                                                      *)
(***************************************************************************)

CONSTANT
    Faults      \* which faults the environment may inject

(* Answered, refused by the database, or answered by an exception although *)
(* it was committed.                                                       *)
DbOutcome == {"ok"} \cup (IF "database" \in Faults
                          THEN {"refused", "unconfirmed"} ELSE {})

Committed(db) == db # "refused"
=============================================================================
