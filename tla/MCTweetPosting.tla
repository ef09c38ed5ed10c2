--------------------------- MODULE MCTweetPosting ---------------------------
(***************************************************************************)
(* Instances of TweetPosting for TLC.                                      *)
(***************************************************************************)
EXTENDS TweetPosting

CONSTANTS s1, s2
=============================================================================
