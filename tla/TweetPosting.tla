---------------------------- MODULE TweetPosting ----------------------------
(***************************************************************************)
(* TwitterPostService.post_tweet (app/services/twitter_post_service.py)    *)
(* under POST /twitter/post, and the clients that submit a tweet again     *)
(* after an error.  Each try is a request of its own, with its own post    *)
(* and item row.  An action is the code from one await to the next.        *)
(***************************************************************************)
EXTENDS TwitterClient, PostRecords, Errors

CONSTANTS
    Submission,     \* what users want tweeted, each of them once
    MaxTries        \* bound: how often one is submitted

ASSUME MaxTriesAssumption == MaxTries \in Nat \ {0}

Try == Submission \X (1..MaxTries)

VARIABLES
    posts,      \* try -> status of its twitter_posts row, or NoRow
    items,      \* try -> its twitter_post_items rows, none or one
    tweets,     \* at Twitter: the try of every tweet; its id is its place
    inflight,   \* tries whose POST may still reach Twitter
    pc,         \* submission -> the await its try is at, or how it ended
    try,        \* submission -> its current try
    attempt,    \* submission -> the attempt the try's POST is at
    tweet_id,   \* submission -> the id the try's POST returned
    error       \* submission -> the exception its try raised or is handling

rows    == <<posts, items>>
twitter == <<tweets, inflight>>
locals  == <<attempt, tweet_id>>
vars    == <<rows, twitter, pc, try, locals, error>>

Ended == {"returned", "raised", "crashed"}
Await == {"resolve", "create_post", "create_item", "send", "record",
          "publish_post", "fail_item", "fail_post"}
NoError == "none"

This(s) == <<s, try[s]>>

Goto(s, next) == pc' = [pc EXCEPT ![s] = next] /\ UNCHANGED error

Raise(s, raised) ==
    /\ pc' = [pc EXCEPT ![s] = "raised"]
    /\ error' = [error EXCEPT ![s] = raised]

(* After a statement: on to the next await, or out with the exception.     *)
After(s, db, next) == IF db = "ok" THEN Goto(s, next) ELSE Raise(s, "APIError")

(* The HTTP status the client gets for its current try.                    *)
HttpStatus(s) ==
    CASE pc[s] = "returned" -> 200
      [] pc[s] = "raised"   -> HttpAnswer(error[s])
      [] OTHER              -> 0

-----------------------------------------------------------------------------
Init ==
    /\ posts = [t \in Try |-> NoRow]
    /\ items = [t \in Try |-> <<>>]
    /\ tweets = <<>>
    /\ inflight = {}
    /\ pc = [s \in Submission |-> "resolve"]
    /\ try = [s \in Submission |-> 1]
    /\ attempt = [s \in Submission |-> 1]
    /\ tweet_id = [s \in Submission |-> NoTweet]
    /\ error = [s \in Submission |-> NoError]

(* The session, the account and its token, in whatever state they are;     *)
(* AccountTokens follows them.                                             *)
Resolve(s) ==
    /\ pc[s] = "resolve"
    /\ \/ Goto(s, "create_post")
       \/ \E raised \in {"TwitterAuthError", "TwitterAccountNotFoundError",
                         "TokenRefreshError", "RequestError"} : Raise(s, raised)
    /\ UNCHANGED <<rows, twitter, try, locals>>

CreatePost(s) ==
    /\ pc[s] = "create_post"
    /\ \E db \in DbOutcome :
         /\ posts' = [posts EXCEPT ![This(s)] = CreatePostRow("publishing", db)]
         /\ After(s, db, "create_item")
    /\ UNCHANGED <<items, twitter, try, locals>>

CreateItem(s) ==
    /\ pc[s] = "create_item"
    /\ \E db \in DbOutcome :
         /\ items' = [items EXCEPT ![This(s)] = CreatePostItem(@, "publishing", db)]
         /\ After(s, db, "send")
    /\ UNCHANGED <<posts, twitter, try, locals>>

(* Faulty: any body is taken for success.                                  *)
AfterSendTrusting(s, answer, outcome) ==
    CASE outcome = "retry"  -> Goto(s, "send")
      [] outcome = "return" -> Goto(s, "record")
      [] OTHER              -> /\ pc' = [pc EXCEPT ![s] = "fail_item"]
                               /\ error' = [error EXCEPT ![s] = "TwitterAPIError"]

(* Where the answer to the POST leads: an exception of the request is      *)
(* handled, but a body without ["data"]["id"] raises after the try block.  *)
AfterSend(s, answer, outcome) ==
    CASE outcome = "retry" -> Goto(s, "send")
      [] answer = "ok"     -> Goto(s, "record")
      [] answer = "garbled" -> Raise(s, "KeyError")
      [] OTHER -> /\ pc' = [pc EXCEPT ![s] = "fail_item"]
                  /\ error' = [error EXCEPT ![s] = ErrorOf(answer)]

Send(s) ==
    /\ pc[s] = "send"
    /\ \E answer \in Answer : \E fate \in Fates(answer) :
         LET outcome == Outcome(answer, attempt[s], FALSE) IN
         /\ tweets' = IF fate = "done" THEN Append(tweets, This(s)) ELSE tweets
         /\ inflight' = IF fate = "late" THEN inflight \cup {This(s)} ELSE inflight
         /\ tweet_id' = [tweet_id EXCEPT ![s] =
                           IF answer = "ok" THEN Len(tweets) + 1 ELSE @]
         /\ attempt' = [attempt EXCEPT ![s] = IF outcome = "retry" THEN @ + 1 ELSE 1]
         /\ AfterSend(s, answer, outcome)
    /\ UNCHANGED <<rows, try>>

(* Outside the try: an error here leaves the rows as they are.             *)
RecordItem(s) ==
    /\ pc[s] = "record"
    /\ \E db \in DbOutcome :
         /\ items' = [items EXCEPT ![This(s)] =
                        UpdateItemResult(@, 1, "published", tweet_id[s], db)]
         /\ After(s, db, "publish_post")
    /\ UNCHANGED <<posts, twitter, try, locals>>

(* TweetResponse refuses an id or a text that is no string, after the row  *)
(* says published.                                                         *)
PublishPost(s) ==
    /\ pc[s] = "publish_post"
    /\ \E db \in DbOutcome :
         /\ posts' = [posts EXCEPT ![This(s)] = UpdatePostStatus(@, "published", db)]
         /\ After(s, db, "returned") \/ (db = "ok" /\ Raise(s, "ValidationError"))
    /\ UNCHANGED <<items, twitter, try, locals>>

FailItem(s) ==
    /\ pc[s] = "fail_item"
    /\ \E db \in DbOutcome :
         /\ items' = [items EXCEPT ![This(s)] =
                        UpdateItemResult(@, 1, "failed", NoTweet, db)]
         /\ After(s, db, "fail_post")
    /\ UNCHANGED <<posts, twitter, try, locals>>

FailPost(s) ==
    /\ pc[s] = "fail_post"
    /\ \E db \in DbOutcome :
         /\ posts' = [posts EXCEPT ![This(s)] = UpdatePostStatus(@, "failed", db)]
         /\ Raise(s, IF db = "ok" THEN error[s] ELSE "APIError")
    /\ UNCHANGED <<items, twitter, try, locals>>

Crash(s) ==
    /\ "crash" \in Faults
    /\ pc[s] \in Await
    /\ Goto(s, "crashed")
    /\ UNCHANGED <<rows, twitter, try, locals>>

(* A client that saw an error, or no answer, submits the tweet once more.  *)
Resubmit(s) ==
    /\ pc[s] \in {"raised", "crashed"}
    /\ try[s] < MaxTries
    /\ try' = [try EXCEPT ![s] = @ + 1]
    /\ pc' = [pc EXCEPT ![s] = "resolve"]
    /\ error' = [error EXCEPT ![s] = NoError]
    /\ attempt' = [attempt EXCEPT ![s] = 1]
    /\ tweet_id' = [tweet_id EXCEPT ![s] = NoTweet]
    /\ UNCHANGED <<rows, twitter>>

(* A POST whose answer the caller has given up on takes effect.            *)
LateTweet ==
    /\ \E t \in inflight :
         /\ tweets' = Append(tweets, t)
         /\ inflight' = inflight \ {t}
    /\ UNCHANGED <<rows, pc, try, locals, error>>

Step(s) ==
    \/ Resolve(s)
    \/ CreatePost(s)
    \/ CreateItem(s)
    \/ Send(s)
    \/ RecordItem(s)
    \/ PublishPost(s)
    \/ FailItem(s)
    \/ FailPost(s)

Next ==
    \/ \E s \in Submission : Step(s) \/ Crash(s) \/ Resubmit(s)
    \/ LateTweet

Spec == Init /\ [][Next]_vars

FairSpec == Spec /\ \A s \in Submission : WF_vars(Step(s))

-----------------------------------------------------------------------------
TypeOK ==
    /\ posts \in [Try -> PostStatus \cup {NoRow}]
    /\ items \in [Try -> Seq(ItemRow)]
    /\ tweets \in Seq(Try)
    /\ inflight \in SUBSET Try
    /\ pc \in [Submission -> Await \cup Ended]
    /\ try \in [Submission -> 1..MaxTries]
    /\ attempt \in [Submission -> Nat]
    /\ tweet_id \in [Submission -> Nat]
    /\ error \in [Submission -> TwitterBaseError \cup
                     {NoError, "KeyError", "ValidationError", "APIError",
                      "RequestError"}]

TweetsOf(s) == {id \in 1..Len(tweets) : tweets[id][1] = s}

(* The audit trail accounts for every tweet: one that is at Twitter or on  *)
(* its way has an item row of its own try, written before it was sent, and *)
(* no try makes two.                                                       *)
AuditTrail ==
    /\ \A id \in 1..Len(tweets) :
         /\ posts[tweets[id]] # NoRow
         /\ items[tweets[id]] # <<>>
         /\ tweets[id] \notin inflight
    /\ \A a, b \in 1..Len(tweets) : tweets[a] = tweets[b] => a = b

(* A row that names a tweet names the one its own try made, so no tweet is *)
(* claimed by two rows; and a published post always names its tweet.       *)
RowsNameTheirOwn ==
    \A t \in Try :
        /\ \A i \in 1..Len(items[t]) : items[t][i].tweet # NoTweet =>
              /\ items[t][i].tweet \in 1..Len(tweets)
              /\ tweets[items[t][i].tweet] = t
        /\ posts[t] = "published" =>
              Len(items[t]) = 1 /\ items[t][1].tweet # NoTweet

(* The client can trust the class of the HTTP status, whatever the handler *)
(* of another error did on the way: 200 means that the tweet is up and its *)
(* rows say so, 4xx that this try tweeted nothing and never will; only 5xx *)
(* leaves it open.                                                         *)
StatusTellsTweet ==
    \A s \in Submission :
        LET tweeted == {id \in 1..Len(tweets) : tweets[id] = This(s)} IN
        /\ HttpStatus(s) = 200 => posts[This(s)] = "published" /\ tweeted # {}
        /\ HttpStatus(s) \in 400..499 => tweeted = {} /\ This(s) \notin inflight

(* What post_tweet shows of itself is a run of PublishContract, each try a *)
(* post of one tweet.                                                      *)
Contract == INSTANCE PublishContract WITH
    Post     <- Try,
    Length   <- [t \in Try |-> 1],
    status   <- [t \in Try |-> IF posts[t] = NoRow THEN "none" ELSE posts[t]],
    appeared <- [t \in Try |-> IF \E id \in 1..Len(tweets) : tweets[id] = t THEN {1} ELSE {}],
    live     <- [t \in Try |-> IF \E id \in 1..Len(tweets) : tweets[id] = t THEN {1} ELSE {}]

ContractSpec == Contract!Spec

(* The comment on PostStatus (twitter_post_model.py:30-31): PUBLISHING is  *)
(* "actively being sent to Twitter right now".                             *)
PublishingIsInFlight ==
    \A s \in Submission : \A n \in 1..MaxTries :
        posts[<<s, n>>] = "publishing" => n = try[s] /\ pc[s] \in Await

(* The comment on request (twitter_client.py:71-76): a POST is not retried *)
(* blindly, for it "would otherwise cause a duplicate post", and           *)
(* "retry-with-dedup for posting is handled explicitly in                  *)
(* twitter_post_service.py".                                               *)
NoDuplicatePost ==
    \A s \in Submission : \A a, b \in TweetsOf(s) : a = b
=============================================================================
