--------------------------- MODULE ThreadAnalytics ---------------------------
(***************************************************************************)
(* GET /twitter/analytics/thread/{post_id}                                 *)
(* (TwitterAnalyticsService.get_thread_analytics) while threads are being  *)
(* posted, rolled back or left behind by ThreadPosting: a reader that      *)
(* takes the post row, the item rows and then one tweet after the other,   *)
(* each at another time.  Metrics are named by the tweet they are of.      *)
(***************************************************************************)
EXTENDS ThreadPosting

VARIABLES
    reader,     \* the await the request is at, or how it was answered
    post,       \* what it knows of the post: the call that wrote it, and
                \* the status in the row it read
    ids,        \* the tweets get_thread_analytics still has to ask for
    metrics     \* tweet_metrics

reading == <<reader, post, ids, metrics>>
allVars == <<vars, reading>>

NoPost == [call |-> "none", status |-> NoRow]

ReaderInit ==
    /\ Init
    /\ reader = "idle"
    /\ post = NoPost
    /\ ids = <<>>
    /\ metrics = <<>>

(* Any exception ends the request with an HTTP error and nothing else.     *)
Fail ==
    /\ reader' = "failed"
    /\ post' = NoPost /\ ids' = <<>> /\ metrics' = <<>>

(* The first statement of get_post_with_items.                             *)
ReadPost(c) ==
    /\ reader = "idle"
    /\ \/ /\ posts[c] # NoRow
          /\ reader' = "read_items"
          /\ post' = [call |-> c, status |-> posts[c]]
          /\ UNCHANGED <<ids, metrics>>
       \/ /\ posts[c] = NoRow \/ "database" \in Faults
          /\ Fail
    /\ UNCHANGED vars

(* published_items: a row counts by its tweet id, whatever its status.     *)
PublishedItems(table) ==
    LET upto[k \in 0..Len(table)] ==
            IF k = 0 THEN <<>>
            ELSE IF table[k].tweet # NoTweet THEN Append(upto[k - 1], table[k].tweet)
            ELSE upto[k - 1]
    IN  upto[Len(table)]

(* The loop asks for the next tweet, or the totals are made.               *)
Continue(left) == reader' = IF left = <<>> THEN "answered" ELSE "get_tweet"

(* Its second statement, ordered by sequence_order.                        *)
ReadItems ==
    /\ reader = "read_items"
    /\ \/ /\ ids' = PublishedItems(items[post.call])
          /\ Continue(ids')
          /\ UNCHANGED <<post, metrics>>
       \/ "database" \in Faults /\ Fail
    /\ UNCHANGED vars

(* How Twitter answers a GET of a tweet: for one that is deleted, with     *)
(* "errors" instead of "data", or not at all.                              *)
GetAnswer(id) == IF id \in deleted THEN Answer \ {"ok"} ELSE Answer

(* Faulty: data is read with a default, as its metrics are.                *)
HasDataOrDefault(answer) == answer \in {"ok", "garbled"}

(* Whether the body has the data that get_tweet_analytics subscripts.      *)
HasData(answer) == answer = "ok"

(* One round of the loop: get_tweet_analytics.  No caller says a GET is    *)
(* idempotent, so it has a single attempt.                                 *)
GetTweet ==
    /\ reader = "get_tweet"
    /\ \E answer \in GetAnswer(Head(ids)) :
         IF HasData(answer)
         THEN /\ metrics' = Append(metrics, Head(ids))
              /\ ids' = Tail(ids)
              /\ Continue(ids')
              /\ UNCHANGED post
         ELSE Outcome(answer, 1, FALSE) # "retry" /\ Fail
    /\ UNCHANGED vars

ReaderNext ==
    \/ Next /\ UNCHANGED reading
    \/ \E c \in Call : ReadPost(c)
    \/ ReadItems
    \/ GetTweet

ReaderSpec == ReaderInit /\ [][ReaderNext]_allVars

-----------------------------------------------------------------------------
(* An answer has the metrics of the thread from its start, in order and    *)
(* without a gap: of all of it when the post read published, and, with     *)
(* Twitter answering the DELETEs, of none of it when the post read failed, *)
(* for a reader is never given metrics of tweets that are gone.            *)
AnalyticsTellThread ==
    reader = "answered" =>
        /\ \A i \in 1..Len(metrics) :
              tweets[metrics[i]].call = post.call /\ tweets[metrics[i]].item = i
        /\ post.status = "published" => Len(metrics) = Size[post.call]
        /\ post.status = "failed" /\ "delete" \notin Faults => metrics = <<>>
=============================================================================
