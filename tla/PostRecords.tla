----------------------------- MODULE PostRecords -----------------------------
(***************************************************************************)
(* The rows of twitter_posts and twitter_post_items, and the statements    *)
(* TwitterPostRepository runs on them                                      *)
(* (app/repositories/twitter_post_repository.py).                          *)
(***************************************************************************)
EXTENDS Naturals, Sequences, Supabase

ASSUME FaultsAssumption == Faults \subseteq {"database", "crash", "delete"}

PostStatus == {"draft", "scheduled", "publishing", "published", "failed"}

NoRow   == "no_row"     \* the status of a post that has no row yet
NoTweet == 0            \* twitter_tweet_id IS NULL; Twitter's ids start at 1

ItemRow == [status : PostStatus, tweet : Nat]

(* The effect of each statement on the rows of one post, given its end.    *)
CreatePostRow(status, db) == IF Committed(db) THEN status ELSE NoRow

UpdatePostStatus(old, status, db) == IF Committed(db) THEN status ELSE old

(* Faulty: a status the column's check constraint does not know.           *)
CreatePostItemQueued(rows, status, db) ==
    IF Committed(db) THEN Append(rows, [status |-> "queued", tweet |-> NoTweet])
                     ELSE rows

CreatePostItem(rows, status, db) ==
    IF Committed(db) THEN Append(rows, [status |-> status, tweet |-> NoTweet])
                     ELSE rows

(* Every column is written: a result without a tweet id clears the id.     *)
UpdateItemResult(rows, i, status, tweet, db) ==
    IF Committed(db) THEN [rows EXCEPT ![i] = [status |-> status, tweet |-> tweet]]
                     ELSE rows
=============================================================================
