---------------------------- MODULE ThreadPosting ----------------------------
(***************************************************************************)
(* Concurrent calls of TwitterThreadService.post_thread                    *)
(* (app/services/twitter_thread_service.py), the rows they leave in the    *)
(* database and the tweets they leave at Twitter.                          *)
(*                                                                         *)
(* A call awaits one database statement or one HTTP request at a time, so  *)
(* an action is the code from one such await to the next.  A call keeps    *)
(* its locals to itself; it meets the others in the two stores.  A thread  *)
(* is the chain of replies among the tweets of one call.                   *)
(***************************************************************************)
EXTENDS TwitterClient, PostRecords

CONSTANTS
    Call,       \* the calls of post_thread
    Size        \* how many tweets each call's request has

(* ThreadCreateRequest.tweets has min_length 2.                            *)
ASSUME SizeAssumption == Size \in [Call -> Nat \ {0, 1}]

VARIABLES
    posts,      \* call -> status of its twitter_posts row, or NoRow
    items,      \* call -> its twitter_post_items rows, by sequence_order
    tweets,     \* at Twitter: every tweet ever made; a tweet's id is its place
    deleted,    \* at Twitter: the ids of the tweets deleted since
    inflight,   \* tweets whose POST may still reach Twitter
    deleting,   \* ids whose DELETE may still reach Twitter
    pc,         \* call -> the await it is at, or how it ended
    index,      \* call -> position of the tweet it is at, from 1
    attempt,    \* call -> the attempt its POST is at
    tweet_id,   \* call -> the id the last POST returned
    posted,     \* call -> posted_tweet_ids
    cursor      \* call -> how many of posted_tweet_ids _rollback has left

rows    == <<posts, items>>
twitter == <<tweets, deleted, inflight, deleting>>
locals  == <<index, attempt, tweet_id, posted, cursor>>
vars    == <<rows, twitter, pc, locals>>

Ended == {"returned", "thread_error", "raised", "crashed"}
Await == {"create_post", "create_items", "send", "record",
          "fail_item", "rollback", "fail_post", "publish_post"}

Tweet == [call : Call, item : Nat, reply : Nat]

Live == (1..Len(tweets)) \ deleted

-----------------------------------------------------------------------------
Init ==
    /\ posts = [c \in Call |-> NoRow]
    /\ items = [c \in Call |-> <<>>]
    /\ tweets = <<>>
    /\ deleted = {}
    /\ inflight = {}
    /\ deleting = {}
    /\ pc = [c \in Call |-> "create_post"]
    /\ index = [c \in Call |-> 1]
    /\ attempt = [c \in Call |-> 1]
    /\ tweet_id = [c \in Call |-> NoTweet]
    /\ posted = [c \in Call |-> <<>>]
    /\ cursor = [c \in Call |-> 0]

Goto(c, next) == pc' = [pc EXCEPT ![c] = next]

(* The post row; outside the try, so an error is the caller's.             *)
CreatePost(c) ==
    /\ pc[c] = "create_post"
    /\ \E db \in DbOutcome :
         /\ posts' = [posts EXCEPT ![c] = CreatePostRow("publishing", db)]
         /\ Goto(c, IF db = "ok" THEN "create_items" ELSE "raised")
    /\ UNCHANGED <<items, twitter, locals>>

(* The next item row, all of them before the first tweet is sent.          *)
CreateItem(c) ==
    /\ pc[c] = "create_items"
    /\ \E db \in DbOutcome :
         /\ items' = [items EXCEPT ![c] = CreatePostItem(@, "draft", db)]
         /\ Goto(c, IF db # "ok" THEN "raised"
                    ELSE IF Len(items[c]) + 1 < Size[c] THEN "create_items"
                    ELSE "send")
    /\ UNCHANGED <<posts, twitter, locals>>

(* Faulty: every tweet replies to the head of the thread.                  *)
PreviousIsHead(c) ==
    IF posted[c] = <<>> THEN NoTweet ELSE posted[c][1]

(* previous_tweet_id: what the next tweet of the call replies to.          *)
Previous(c) ==
    IF posted[c] = <<>> THEN NoTweet ELSE posted[c][Len(posted[c])]

NextTweet(c) == [call |-> c, item |-> index[c], reply |-> Previous(c)]

(* Faulty: any answer below 400 counts as a tweet.                         *)
AcceptedByStatus(answer) == answer \in {"ok", "garbled"}

(* Whether the answer lets the loop go on to record a tweet.               *)
Accepted(answer) == answer = "ok"

(* One attempt of POST /tweets.  A body without ["data"]["id"] raises      *)
(* inside the try, like an error of the request itself.                    *)
Send(c) ==
    /\ pc[c] = "send"
    /\ \E answer \in Answer : \E fate \in Fates(answer) :
         LET outcome == Outcome(answer, attempt[c], FALSE) IN
         /\ tweets' = IF fate = "done" THEN Append(tweets, NextTweet(c)) ELSE tweets
         /\ inflight' = IF fate = "late" THEN inflight \cup {NextTweet(c)} ELSE inflight
         /\ tweet_id' = [tweet_id EXCEPT ![c] =
                           IF answer = "ok" THEN Len(tweets) + 1 ELSE @]
         /\ attempt' = [attempt EXCEPT ![c] = IF outcome = "retry" THEN @ + 1 ELSE 1]
         /\ Goto(c, IF outcome = "retry" THEN "send"
                    ELSE IF Accepted(answer) THEN "record"
                    ELSE "fail_item")
    /\ UNCHANGED <<rows, deleted, deleting, index, posted, cursor>>

(* The item row of the tweet just made, then the locals that follow it.    *)
(* ThreadTweetResult refuses an id or a text that is no string, which only *)
(* shows when posted_tweet_ids has the tweet: the handler then takes the   *)
(* next item for the failed one, and after the last one there is none, so  *)
(* it raises IndexError before any write or DELETE.                        *)
RecordItem(c) ==
    /\ pc[c] = "record"
    /\ \E db \in DbOutcome :
         /\ items' = [items EXCEPT ![c] =
                        UpdateItemResult(@, index[c], "published", tweet_id[c], db)]
         /\ posted' = [posted EXCEPT ![c] =
                         IF db = "ok" THEN Append(@, tweet_id[c]) ELSE @]
         /\ \/ /\ index' = [index EXCEPT ![c] =
                              IF db = "ok" /\ @ < Size[c] THEN @ + 1 ELSE @]
               /\ Goto(c, IF db # "ok" THEN "fail_item"
                          ELSE IF index[c] < Size[c] THEN "send"
                          ELSE "publish_post")
            \/ /\ db = "ok"
               /\ index' = index
               /\ Goto(c, IF index[c] < Size[c] THEN "fail_item" ELSE "raised")
    /\ UNCHANGED <<posts, twitter, attempt, tweet_id, cursor>>

(* Faulty: the position of the newest posted tweet, where there is one.    *)
FailedIndexLagging(c) == IF posted[c] = <<>> THEN 1 ELSE Len(posted[c])

(* Faulty: the last position of the thread.                                *)
FailedIndexLast(c) == Size[c]

(* failed_index, from 1.                                                   *)
FailedIndex(c) == Len(posted[c]) + 1

(* Faulty: with nothing to roll back, the error is raised at once.         *)
AfterFailItemAtOnce(c, db) ==
    IF db # "ok" THEN "raised"
    ELSE IF posted[c] = <<>> THEN "thread_error"
    ELSE "rollback"

AfterFailItem(c, db) ==
    IF db # "ok" THEN "raised"
    ELSE IF posted[c] = <<>> THEN "fail_post"
    ELSE "rollback"

(* The row of the tweet that failed.  An error here leaves the handler:    *)
(* neither the rollback nor the post's status follows.                     *)
FailItem(c) ==
    /\ pc[c] = "fail_item"
    /\ \E db \in DbOutcome :
         /\ items' = [items EXCEPT ![c] =
                        UpdateItemResult(@, FailedIndex(c), "failed", NoTweet, db)]
         /\ Goto(c, AfterFailItem(c, db))
    /\ cursor' = [cursor EXCEPT ![c] = Len(posted[c])]
    /\ UNCHANGED <<posts, twitter, index, attempt, tweet_id, posted>>

(* What the environment may answer to a DELETE.                            *)
DeleteAnswer == IF "delete" \in Faults THEN Answer ELSE {"ok"}

(* Faulty: the loop skips the newest tweet.                                *)
RollbackTargetSkipping(c) == posted[c][IF cursor[c] > 1 THEN cursor[c] - 1 ELSE 1]

(* Faulty: the oldest first.                                               *)
RollbackTargetOldest(c) == posted[c][Len(posted[c]) + 1 - cursor[c]]

(* The posted tweet _rollback is at, the newest first.                     *)
RollbackTarget(c) == posted[c][cursor[c]]

(* Faulty: a DELETE is sent again until it is confirmed.                   *)
RollbackInsisting(c) ==
    /\ pc[c] = "rollback"
    /\ \E answer \in DeleteAnswer : \E fate \in Fates(answer) :
         /\ deleted' = IF fate = "done" THEN deleted \cup {RollbackTarget(c)} ELSE deleted
         /\ deleting' = IF fate = "late" THEN deleting \cup {RollbackTarget(c)} ELSE deleting
         /\ cursor' = [cursor EXCEPT ![c] = IF answer = "ok" THEN @ - 1 ELSE @]
    /\ Goto(c, IF cursor'[c] > 0 THEN "rollback" ELSE "fail_post")
    /\ UNCHANGED <<rows, tweets, inflight, index, attempt, tweet_id, posted>>

(* One DELETE of _rollback, a single attempt; any exception is swallowed,  *)
(* so the answer makes no difference to what follows.                      *)
Rollback(c) ==
    /\ pc[c] = "rollback"
    /\ \E answer \in DeleteAnswer : \E fate \in Fates(answer) :
         /\ deleted' = IF fate = "done" THEN deleted \cup {RollbackTarget(c)} ELSE deleted
         /\ deleting' = IF fate = "late" THEN deleting \cup {RollbackTarget(c)} ELSE deleting
    /\ cursor' = [cursor EXCEPT ![c] = @ - 1]
    /\ Goto(c, IF cursor[c] > 1 THEN "rollback" ELSE "fail_post")
    /\ UNCHANGED <<rows, tweets, inflight, index, attempt, tweet_id, posted>>

FailPost(c) ==
    /\ pc[c] = "fail_post"
    /\ \E db \in DbOutcome :
         /\ posts' = [posts EXCEPT ![c] = UpdatePostStatus(@, "failed", db)]
         /\ Goto(c, IF db = "ok" THEN "thread_error" ELSE "raised")
    /\ UNCHANGED <<items, twitter, locals>>

PublishPost(c) ==
    /\ pc[c] = "publish_post"
    /\ \E db \in DbOutcome :
         /\ posts' = [posts EXCEPT ![c] = UpdatePostStatus(@, "published", db)]
         /\ Goto(c, IF db = "ok" THEN "returned" ELSE "raised")
    /\ UNCHANGED <<items, twitter, locals>>

(* The process dies, or the task is cancelled, at any await: cancellation  *)
(* is no Exception, so no handler runs.                                    *)
Crash(c) ==
    /\ "crash" \in Faults
    /\ pc[c] \in Await
    /\ Goto(c, "crashed")
    /\ UNCHANGED <<rows, twitter, locals>>

(* A request whose answer the caller has given up on takes effect.         *)
LateTweet ==
    /\ \E tweet \in inflight :
         /\ tweets' = Append(tweets, tweet)
         /\ inflight' = inflight \ {tweet}
    /\ UNCHANGED <<rows, deleted, deleting, pc, locals>>

LateDelete ==
    /\ \E id \in deleting :
         /\ deleted' = deleted \cup {id}
         /\ deleting' = deleting \ {id}
    /\ UNCHANGED <<rows, tweets, inflight, pc, locals>>

Step(c) ==
    \/ CreatePost(c)
    \/ CreateItem(c)
    \/ Send(c)
    \/ RecordItem(c)
    \/ FailItem(c)
    \/ Rollback(c)
    \/ FailPost(c)
    \/ PublishPost(c)

Next ==
    \/ \E c \in Call : Step(c) \/ Crash(c)
    \/ LateTweet
    \/ LateDelete

Spec == Init /\ [][Next]_vars

(* Every await ends: Supabase answers or fails, and httpx gives up after   *)
(* HTTP_TIMEOUT_SECONDS.  Nothing is promised of requests given up on.     *)
FairSpec == Spec /\ \A c \in Call : WF_vars(Step(c))

-----------------------------------------------------------------------------
(* The tweets of a call at Twitter, and those its item rows or its locals  *)
(* still name.                                                             *)
MadeBy(c)  == {id \in 1..Len(tweets) : tweets[id].call = c}
Named(c)   == {items[c][i].tweet : i \in 1..Len(items[c])} \ {NoTweet}

TypeOK ==
    /\ posts \in [Call -> PostStatus \cup {NoRow}]
    /\ items \in [Call -> Seq(ItemRow)]
    /\ tweets \in Seq(Tweet)
    /\ deleted \in SUBSET Nat
    /\ inflight \in SUBSET Tweet
    /\ deleting \in SUBSET Nat
    /\ pc \in [Call -> Await \cup Ended]
    /\ index \in [Call -> Nat]
    /\ attempt \in [Call -> Nat]
    /\ tweet_id \in [Call -> Nat]
    /\ posted \in [Call -> Seq(Nat)]
    /\ cursor \in [Call -> Nat]

(* No position of a thread is ever tweeted twice, neither by two tweets at *)
(* Twitter nor by one there and a POST still on its way: a POST whose      *)
(* answer was lost is not sent again (twitter_client.py, request).         *)
AtMostOnce ==
    /\ \A a, b \in 1..Len(tweets) :
          tweets[a].call = tweets[b].call /\ tweets[a].item = tweets[b].item => a = b
    /\ \A t \in inflight : \A a \in 1..Len(tweets) :
          ~ (tweets[a].call = t.call /\ tweets[a].item = t.item)
    /\ \A t, u \in inflight : t.call = u.call => t = u

(* A post whose row says published is on the timeline in full: every item  *)
(* row is published and names a live tweet of that call and position, and  *)
(* each tweet replies to the one before it.                                *)
PublishedIsLive ==
    \A c \in Call : posts[c] = "published" =>
        /\ Len(items[c]) = Size[c]
        /\ \A i \in 1..Size[c] :
              LET row == items[c][i] IN
              /\ row.status = "published"
              /\ row.tweet \in Live
              /\ tweets[row.tweet] =
                    [call |-> c, item |-> i,
                     reply |-> IF i = 1 THEN NoTweet ELSE items[c][i - 1].tweet]

(* Whatever fails and wherever the process dies, at most one tweet of a    *)
(* call, made or on its way, is missing from its item rows: those rows are *)
(* all that support has to clean up by.  The row that record or fail_item  *)
(* writes is never that of a tweet recorded before.                        *)
AtMostOneUnrecorded ==
    \A c \in Call :
        LET missing == MadeBy(c) \ Named(c)
            coming  == {t \in inflight : t.call = c} IN
        \/ coming = {} /\ \A a, b \in missing : a = b
        \/ missing = {} /\ \A t, u \in coming : t = u

(* The item rows read as a prefix of published rows, then at most one      *)
(* failed row, then drafts: the failed row is the one whose tweet failed,  *)
(* never a published one nor one beyond it.                                *)
AuditShape ==
    \A c \in Call : \A i, j \in 1..Len(items[c]) :
        i < j /\ items[c][j].status # "draft" => items[c][i].status = "published"

(* A post that reads failed has been rolled back: with Twitter answering   *)
(* the DELETEs, none of the tweets its rows name is live by the time the   *)
(* status says so.                                                         *)
FailedIsGone ==
    "delete" \notin Faults =>
        \A c \in Call : posts[c] = "failed" => Named(c) \cap Live = {}

(* A rolled-back thread is taken down from its end: with Twitter answering *)
(* the DELETEs, no recorded tweet is ever a live reply to a deleted one.   *)
NoLiveReplyToDeleted ==
    "delete" \notin Faults =>
        \A c \in Call : \A id \in Named(c) \cap Live :
            tweets[id].reply # NoTweet => tweets[id].reply \in Live

(* What post_thread shows of itself is a run of PublishContract.           *)
Contract == INSTANCE PublishContract WITH
    Post     <- Call,
    Length   <- Size,
    status   <- [c \in Call |-> IF posts[c] = NoRow THEN "none" ELSE posts[c]],
    appeared <- [c \in Call |-> {tweets[id].item : id \in MadeBy(c)}],
    live     <- [c \in Call |-> {tweets[id].item : id \in MadeBy(c) \cap Live}]

ContractSpec == Contract!Spec

(* Whatever Twitter answers, every call settles its post, unless the       *)
(* database failed it, the process died, or what the answer to the last    *)
(* tweet names is no string.                                               *)
EveryPostSettles ==
    \A c \in Call :
        <>(posts[c] \in {"published", "failed"} \/ pc[c] \in {"raised", "crashed"})

(* The most statements and requests a call of size tweets still makes, by  *)
(* its await, the tweets it has posted, the rows it has and its cursor.    *)
MostCalls(await, size, made, written, place) ==
    CASE await = "create_post"  -> 4 * size + 2
      [] await = "create_items" -> (size - written) + 3 * size + 1
      [] await = "send"         -> 2 * (size - made) + size + 1
      [] await = "record"       -> 2 * (size - made) + size
      [] await = "fail_item"    -> made + 2
      [] await = "rollback"     -> place + 1
      [] await = "fail_post"    -> 1
      [] await = "publish_post" -> 1
      [] OTHER                  -> 0

Budget(c) ==
    MostCalls(pc[c], Size[c], Len(posted[c]), Len(items[c]), cursor[c])

(* However Twitter answers, a call of n tweets is over after 4n + 2        *)
(* statements and requests: no answer makes the loop or the rollback go    *)
(* over a tweet again, and each step leaves fewer of them.                 *)
EveryStepCounts ==
    [][\A c \in Call : /\ Budget(c)' \in 0..Budget(c)
                      /\ Step(c) => Budget(c)' # Budget(c)]_vars

(* The module comment (twitter_thread_service.py:23-26): "the error        *)
(* response includes exactly which tweet_ids were posted".                 *)
ReportsExactlyPosted ==
    \A c \in Call : pc[c] = "thread_error" =>
        {posted[c][i] : i \in 1..Len(posted[c])} = MadeBy(c)
=============================================================================
