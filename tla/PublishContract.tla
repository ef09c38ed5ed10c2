--------------------------- MODULE PublishContract ---------------------------
(***************************************************************************)
(* What a reader of the database and of the timeline may rely on while     *)
(* post_tweet or post_thread runs, whatever fails: a post's status moves   *)
(* only from nothing to publishing and from there to one final status;     *)
(* its tweets appear at most once each, every reply after the tweet it     *)
(* answers; and a post that says published is complete and stays so.       *)
(***************************************************************************)
EXTENDS Naturals

CONSTANTS
    Post,       \* the posts
    Length      \* how many tweets each has

VARIABLES
    status,     \* post -> "none", "publishing", "published" or "failed"
    appeared,   \* post -> positions whose tweet has been on the timeline
    live        \* post -> positions whose tweet is on the timeline

vars == <<status, appeared, live>>

Init ==
    /\ status = [p \in Post |-> "none"]
    /\ appeared = [p \in Post |-> {}]
    /\ live = [p \in Post |-> {}]

Open(p) ==
    /\ status[p] = "none"
    /\ status' = [status EXCEPT ![p] = "publishing"]
    /\ UNCHANGED <<appeared, live>>

(* Also after the post has failed: a tweet may arrive late.                *)
Appear(p, i) ==
    /\ status[p] \in {"publishing", "failed"}
    /\ i \in (1..Length[p]) \ appeared[p]
    /\ \A j \in 1..(i - 1) : j \in appeared[p]
    /\ appeared' = [appeared EXCEPT ![p] = @ \cup {i}]
    /\ live' = [live EXCEPT ![p] = @ \cup {i}]
    /\ UNCHANGED status

Vanish(p, i) ==
    /\ status[p] \in {"publishing", "failed"}
    /\ i \in live[p]
    /\ live' = [live EXCEPT ![p] = @ \ {i}]
    /\ UNCHANGED <<status, appeared>>

Publish(p) ==
    /\ status[p] = "publishing"
    /\ live[p] = 1..Length[p]
    /\ status' = [status EXCEPT ![p] = "published"]
    /\ UNCHANGED <<appeared, live>>

Fail(p) ==
    /\ status[p] = "publishing"
    /\ status' = [status EXCEPT ![p] = "failed"]
    /\ UNCHANGED <<appeared, live>>

Next == \E p \in Post :
    \/ Open(p)
    \/ Publish(p)
    \/ Fail(p)
    \/ \E i \in 1..Length[p] : Appear(p, i) \/ Vanish(p, i)

Spec == Init /\ [][Next]_vars
=============================================================================
