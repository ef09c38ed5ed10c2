------------------------- MODULE ThreadPostingProofs -------------------------
(***************************************************************************)
(* Proofs about post_thread, for any calls, sizes and faults: its types,   *)
(* what its rows and tweets are worth wherever it fails, what a rollback   *)
(* has done when Twitter answers the DELETEs, and that every step leaves   *)
(* a call fewer of its statements and requests.                            *)
(***************************************************************************)
EXTENDS ThreadPosting, SequenceTheorems, TLAPS

(* A POST is an attempt of its own: MaxAttempts(FALSE) is 1.               *)
LEMMA NoRetry ==
    ASSUME NEW answer \in Answer, NEW a \in Nat \ {0}
    PROVE  Outcome(answer, a, FALSE) # "retry"
BY DEF Outcome, Answer, Retryable, MaxAttempts

LEMMA DbOutcomes == DbOutcome \subseteq {"ok", "refused", "unconfirmed"}
BY DEF DbOutcome

(* Overwriting an element leaves a sequence of the same length, whether or *)
(* not the index is one of its own.                                        *)
LEMMA OverwriteType ==
    ASSUME NEW S, NEW s \in Seq(S), NEW i \in Nat, NEW e \in S
    PROVE  /\ [s EXCEPT ![i] = e] \in Seq(S)
           /\ Len([s EXCEPT ![i] = e]) = Len(s)
<1>1. PICK n \in Nat : s \in [1..n -> S]
  BY SeqDef
<1>2. [s EXCEPT ![i] = e] \in [1..n -> S]
  BY <1>1
<1> QED
  BY <1>1, <1>2, SeqDef, LenProperties

LEMMA UpdateItemResultType ==
    ASSUME NEW r \in Seq(ItemRow), NEW i \in Nat, NEW st \in PostStatus,
           NEW tw \in Nat, NEW db
    PROVE  /\ UpdateItemResult(r, i, st, tw, db) \in Seq(ItemRow)
           /\ Len(UpdateItemResult(r, i, st, tw, db)) = Len(r)
<1>1. [status |-> st, tweet |-> tw] \in ItemRow
  BY DEF ItemRow
<1> QED
  BY <1>1, OverwriteType DEF UpdateItemResult

(* The ends of RecordItem, one by one.                                     *)
Recorded(c, db, next) ==
    /\ items' = [items EXCEPT ![c] =
                   UpdateItemResult(@, index[c], "published", tweet_id[c], db)]
    /\ posted' = [posted EXCEPT ![c] = IF db = "ok" THEN Append(@, tweet_id[c]) ELSE @]
    /\ index' \in {index, [index EXCEPT ![c] = @ + 1]}
    /\ Goto(c, next)
    /\ \/ db # "ok" /\ next = "fail_item"
       \/ /\ db = "ok" /\ index[c] < Size[c]
          /\ \/ next = "send" /\ index' = [index EXCEPT ![c] = @ + 1]
             \/ next = "fail_item"
       \/ db = "ok" /\ ~ (index[c] < Size[c]) /\ next \in {"publish_post", "raised"}

LEMMA RecordItemEnds ==
    ASSUME TypeOK, NEW c \in Call, RecordItem(c)
    PROVE  \E db \in DbOutcome, next \in {"fail_item", "send", "publish_post", "raised"} :
              Recorded(c, db, next)
<1>0. index \in [Call -> Nat]
  BY DEF TypeOK
<1>1. PICK db \in DbOutcome :
        /\ items' = [items EXCEPT ![c] =
                       UpdateItemResult(@, index[c], "published", tweet_id[c], db)]
        /\ posted' = [posted EXCEPT ![c] = IF db = "ok" THEN Append(@, tweet_id[c]) ELSE @]
        /\ \/ /\ index' = [index EXCEPT ![c] = IF db = "ok" /\ @ < Size[c] THEN @ + 1 ELSE @]
              /\ Goto(c, IF db # "ok" THEN "fail_item"
                         ELSE IF index[c] < Size[c] THEN "send"
                         ELSE "publish_post")
           \/ /\ db = "ok" /\ index' = index
              /\ Goto(c, IF index[c] < Size[c] THEN "fail_item" ELSE "raised")
  BY DEF RecordItem
<1>2. CASE db # "ok"
  <2>1. index' = index /\ Goto(c, "fail_item")
    BY <1>0, <1>1, <1>2
  <2> QED
    BY <1>1, <1>2, <2>1 DEF Recorded
<1>3. CASE db = "ok" /\ index[c] < Size[c]
  <2>1. \/ index' = [index EXCEPT ![c] = @ + 1] /\ Goto(c, "send")
        \/ index' = index /\ Goto(c, "fail_item")
    BY <1>1, <1>3
  <2> QED
    BY <1>1, <1>3, <2>1 DEF Recorded
<1>4. CASE db = "ok" /\ ~ (index[c] < Size[c])
  <2>1. index' = index /\ (Goto(c, "publish_post") \/ Goto(c, "raised"))
    BY <1>0, <1>1, <1>4
  <2> QED
    BY <1>1, <1>4, <2>1 DEF Recorded
<1> QED
  BY <1>2, <1>3, <1>4

-----------------------------------------------------------------------------
(* What typing rests on: _rollback never runs past the tweets it was       *)
(* given.                                                                  *)
CursorInRange ==
    \A c \in Call : pc[c] = "rollback" => cursor[c] \in 1..Len(posted[c])

Typed == TypeOK /\ CursorInRange

LEMMA TypedStep ==
    ASSUME Typed, [Next]_vars
    PROVE  Typed'
<1> USE DEF Typed, TypeOK, CursorInRange
<1>1. ASSUME NEW c \in Call, CreatePost(c) PROVE Typed'
  BY <1>1, DbOutcomes DEF CreatePost, CreatePostRow, Goto, PostStatus, NoRow,
                          Await, Ended, twitter, locals
<1>2. ASSUME NEW c \in Call, CreateItem(c) PROVE Typed'
  <2>1. PICK db \in DbOutcome :
          /\ items' = [items EXCEPT ![c] = CreatePostItem(@, "draft", db)]
          /\ Goto(c, IF db # "ok" THEN "raised"
                     ELSE IF Len(items[c]) + 1 < Size[c] THEN "create_items"
                     ELSE "send")
    BY <1>2 DEF CreateItem
  <2>2. [status |-> "draft", tweet |-> NoTweet] \in ItemRow
    BY DEF ItemRow, PostStatus, NoTweet
  <2>3. CreatePostItem(items[c], "draft", db) \in Seq(ItemRow)
    BY <2>2 DEF CreatePostItem
  <2> QED
    BY <1>2, <2>1, <2>3 DEF CreateItem, Goto, Await, Ended, twitter, locals
<1>3. ASSUME NEW c \in Call, Send(c) PROVE Typed'
  <2>1. NextTweet(c) \in Tweet
    BY DEF NextTweet, Tweet, Previous, NoTweet
  <2>2. PICK answer \in Answer : \E fate \in Fates(answer) :
          LET outcome == Outcome(answer, attempt[c], FALSE) IN
          /\ tweets' = IF fate = "done" THEN Append(tweets, NextTweet(c)) ELSE tweets
          /\ inflight' = IF fate = "late" THEN inflight \cup {NextTweet(c)} ELSE inflight
          /\ tweet_id' = [tweet_id EXCEPT ![c] =
                            IF answer = "ok" THEN Len(tweets) + 1 ELSE @]
          /\ attempt' = [attempt EXCEPT ![c] = IF outcome = "retry" THEN @ + 1 ELSE 1]
          /\ Goto(c, IF outcome = "retry" THEN "send"
                     ELSE IF Accepted(answer) THEN "record"
                     ELSE "fail_item")
    BY <1>3 DEF Send
  <2>3. tweets' \in Seq(Tweet) /\ inflight' \in SUBSET Tweet
    BY <2>1, <2>2
  <2>4. tweet_id' \in [Call -> Nat]
    BY <2>2
  <2>5. attempt' \in [Call -> Nat]
    <3>1. attempt[c] + 1 \in Nat /\ 1 \in Nat
      OBVIOUS
    <3>2. \E b \in BOOLEAN : attempt' = [attempt EXCEPT ![c] = IF b THEN @ + 1 ELSE 1]
      BY <2>2
    <3> QED
      BY <3>1, <3>2
  <2>6. pc' \in [Call -> Await \cup Ended] /\ pc'[c] # "rollback"
    BY <2>2 DEF Goto, Await, Ended
  <2> QED
    BY <1>3, <2>2, <2>3, <2>4, <2>5, <2>6 DEF Send, Goto, rows
<1>4. ASSUME NEW c \in Call, RecordItem(c) PROVE Typed'
  <2>1. PICK db \in DbOutcome, next \in {"fail_item", "send", "publish_post", "raised"} :
          /\ items' = [items EXCEPT ![c] =
                         UpdateItemResult(@, index[c], "published", tweet_id[c], db)]
          /\ posted' = [posted EXCEPT ![c] =
                          IF db = "ok" THEN Append(@, tweet_id[c]) ELSE @]
          /\ index' \in {index, [index EXCEPT ![c] = @ + 1]}
          /\ Goto(c, next)
    BY <1>4, RecordItemEnds DEF Recorded
  <2>2. UpdateItemResult(items[c], index[c], "published", tweet_id[c], db) \in Seq(ItemRow)
    BY UpdateItemResultType DEF PostStatus
  <2>3. items' \in [Call -> Seq(ItemRow)]
    BY <2>1, <2>2
  <2>4. posted' \in [Call -> Seq(Nat)] /\ index' \in [Call -> Nat]
    <3>1. [index EXCEPT ![c] = @ + 1] \in [Call -> Nat]
      OBVIOUS
    <3>2. [posted EXCEPT ![c] = Append(@, tweet_id[c])] \in [Call -> Seq(Nat)]
      OBVIOUS
    <3> QED
      BY <2>1, <3>1, <3>2
  <2>5. pc' \in [Call -> Await \cup Ended] /\ pc'[c] # "rollback"
    BY <2>1 DEF Goto, Await, Ended
  <2>6. \A d \in Call : pc'[d] = "rollback" => pc[d] = "rollback" /\ posted'[d] = posted[d]
    BY <2>1, <2>5 DEF Goto
  <2> QED
    BY <1>4, <2>3, <2>4, <2>5, <2>6 DEF RecordItem, twitter
<1>5. ASSUME NEW c \in Call, FailItem(c) PROVE Typed'
  <2>1. PICK db \in DbOutcome :
          /\ items' = [items EXCEPT ![c] =
                         UpdateItemResult(@, FailedIndex(c), "failed", NoTweet, db)]
          /\ Goto(c, AfterFailItem(c, db))
    BY <1>5 DEF FailItem
  <2>2. UpdateItemResult(items[c], FailedIndex(c), "failed", NoTweet, db) \in Seq(ItemRow)
    BY UpdateItemResultType DEF PostStatus, NoTweet, FailedIndex
  <2>3. items' \in [Call -> Seq(ItemRow)]
    BY <2>1, <2>2
  <2>4. pc' \in [Call -> Await \cup Ended]
    BY <2>1 DEF Goto, AfterFailItem, Await, Ended
  <2>5. cursor' = [cursor EXCEPT ![c] = Len(posted[c])] /\ posted' = posted
    BY <1>5 DEF FailItem
  <2>6. pc'[c] = "rollback" => Len(posted[c]) >= 1
    BY <2>1 DEF Goto, AfterFailItem
  <2>7. CursorInRange'
    BY <2>1, <2>5, <2>6 DEF Goto
  <2> QED
    BY <1>5, <2>3, <2>4, <2>5, <2>7 DEF FailItem, twitter
<1>6. ASSUME NEW c \in Call, Rollback(c) PROVE Typed'
  <2>1. RollbackTarget(c) \in Nat
    BY <1>6 DEF Rollback, RollbackTarget
  <2>2. deleted' \in SUBSET Nat /\ deleting' \in SUBSET Nat
    BY <1>6, <2>1 DEF Rollback
  <2>3. cursor' \in [Call -> Nat]
    BY <1>6 DEF Rollback
  <2>4. pc' \in [Call -> Await \cup Ended]
    BY <1>6 DEF Rollback, Goto, Await, Ended
  <2>5. CursorInRange'
    BY <1>6 DEF Rollback, Goto
  <2> QED
    BY <1>6, <2>2, <2>3, <2>4, <2>5 DEF Rollback, rows
<1>7. ASSUME NEW c \in Call, FailPost(c) PROVE Typed'
  BY <1>7 DEF FailPost, UpdatePostStatus, Goto, PostStatus, Await, Ended, twitter, locals
<1>8. ASSUME NEW c \in Call, PublishPost(c) PROVE Typed'
  BY <1>8 DEF PublishPost, UpdatePostStatus, Goto, PostStatus, Await, Ended, twitter, locals
<1>9. ASSUME NEW c \in Call, Crash(c) PROVE Typed'
  BY <1>9 DEF Crash, Goto, Ended, rows, twitter, locals
<1>10. CASE LateTweet
  BY <1>10 DEF LateTweet, rows, locals
<1>11. CASE LateDelete
  BY <1>11 DEF LateDelete, rows, locals
<1>12. CASE UNCHANGED vars
  BY <1>12 DEF vars, rows, twitter, locals
<1> QED
  BY <1>1, <1>2, <1>3, <1>4, <1>5, <1>6, <1>7, <1>8, <1>9, <1>10, <1>11, <1>12
     DEF Next, Step

(* Every variable keeps its type: in particular _rollback only ever        *)
(* addresses tweets of posted_tweet_ids, and every row keeps a status the  *)
(* database knows.                                                         *)
THEOREM Typing == Spec => []TypeOK
<1>1. Init => Typed
  BY DEF Init, Typed, TypeOK, CursorInRange, PostStatus, NoRow, NoTweet, Await,
         Ended, ItemRow, Tweet
<1>2. Typed /\ [Next]_vars => Typed'
  BY TypedStep
<1> QED
  BY <1>1, <1>2, PTL DEF Spec, Typed

-----------------------------------------------------------------------------
(* The inductive invariant behind the safety properties, in parts, each    *)
(* about one call c.  n(c), the number of posted tweets, is what they turn *)
(* on: rows and tweets up to n(c) are settled, position n(c) + 1 is the    *)
(* only one that can be in doubt, and beyond it nothing has happened.      *)
n(c) == Len(posted[c])

Draft  == [status |-> "draft", tweet |-> NoTweet]
Failed == [status |-> "failed", tweet |-> NoTweet]

Opening   == {"create_post", "create_items"}
Posting   == {"send", "record"}
Failing   == {"fail_item", "rollback", "fail_post"}

(* The post's status follows the call's place in the code.                 *)
StatusInv(c) ==
    /\ pc[c] = "create_post" => posts[c] = NoRow
    /\ pc[c] \in Await \ {"create_post"} => posts[c] = "publishing"
    /\ posts[c] \in {NoRow, "publishing", "published", "failed"}
    /\ posts[c] = "published" => pc[c] \in {"returned", "raised"} /\ n(c) = Size[c]
    /\ posts[c] = "failed" => pc[c] \in {"thread_error", "raised"}

LocalInv(c) ==
    /\ attempt[c] = 1
    /\ pc[c] \in Opening => posted[c] = <<>>
    /\ pc[c] = "create_post" => items[c] = <<>>
    /\ pc[c] = "create_items" => Len(items[c]) < Size[c]
    /\ pc[c] \in Opening \cup Posting => index[c] = n(c) + 1
    /\ pc[c] \in Posting \cup Failing => n(c) < Size[c] /\ Len(items[c]) = Size[c]
    /\ pc[c] = "publish_post" => n(c) = Size[c]
    /\ pc[c] = "rollback" => cursor[c] \in 1..n(c)

RowInv(c) ==
    /\ n(c) <= Len(items[c]) /\ Len(items[c]) <= Size[c]
    /\ \A i \in 1..n(c) : items[c][i] = [status |-> "published", tweet |-> posted[c][i]]
    /\ \A i \in 1..Len(items[c]) : i > n(c) + 1 => items[c][i] = Draft
    /\ n(c) < Len(items[c]) =>
         LET row == items[c][n(c) + 1] IN
         \/ row = Draft
         \/ row = Failed /\ pc[c] \notin Opening \cup Posting
         \/ /\ pc[c] \notin Opening \cup Posting
            /\ row.status = "published"
            /\ row.tweet \in 1..Len(tweets)
            /\ tweets[row.tweet].call = c
            /\ tweets[row.tweet].item = n(c) + 1

(* Posted tweets form the chain, and no other tweet of the call stands at  *)
(* their positions.                                                        *)
PostedInv(c) ==
    /\ \A i \in 1..n(c) :
         /\ posted[c][i] \in 1..Len(tweets)
         /\ tweets[posted[c][i]] =
               [call |-> c, item |-> i, reply |-> IF i = 1 THEN NoTweet ELSE posted[c][i - 1]]
    /\ \A id \in 1..Len(tweets) : tweets[id].call = c =>
         /\ tweets[id].item \in 1..(n(c) + 1)
         /\ tweets[id].item <= n(c) => id = posted[c][tweets[id].item]

(* The tweet in doubt: at most one, made or on its way, and none before    *)
(* its POST is sent.                                                       *)
MadeInDoubt(c) ==
    \A id \in 1..Len(tweets) : tweets[id].call = c /\ tweets[id].item = n(c) + 1 =>
        /\ n(c) < Size[c]
        /\ pc[c] \notin Opening \cup {"send", "publish_post"}
        /\ \A b \in 1..Len(tweets) : tweets[b].call = c /\ tweets[b].item = n(c) + 1 => id = b

OnItsWay(c) ==
    \A t \in inflight : t.call = c =>
        /\ t.item = n(c) + 1
        /\ n(c) < Size[c]
        /\ pc[c] \notin Opening \cup Posting \cup {"publish_post"}
        /\ \A id \in 1..Len(tweets) : tweets[id].call = c => tweets[id].item # n(c) + 1
        /\ \A u \in inflight : u.call = c => t = u

ToRecord(c) ==
    pc[c] = "record" =>
        /\ tweet_id[c] \in 1..Len(tweets)
        /\ tweets[tweet_id[c]] = NextTweet(c)

DoubtInv(c) == MadeInDoubt(c) /\ OnItsWay(c) /\ ToRecord(c)

(* Only a call past its try block loses tweets, and never a published one. *)
DeleteInv(c) ==
    \A id \in deleted \cup deleting :
        /\ id \in 1..Len(tweets)
        /\ tweets[id].call = c =>
             /\ posts[c] # "published"
             /\ pc[c] \notin Opening \cup Posting \cup {"fail_item", "publish_post"}

CallInv(c) ==
    /\ StatusInv(c)
    /\ LocalInv(c)
    /\ RowInv(c)
    /\ PostedInv(c)
    /\ DoubtInv(c)
    /\ DeleteInv(c)

IInv == TypeOK /\ \A c \in Call : CallInv(c)

-----------------------------------------------------------------------------
(* A step leaves the invariant of a call d alone when it leaves d's rows   *)
(* and locals alone and at Twitter touches no tweet of d.                  *)
Unmoved(d) ==
    /\ posts'[d] = posts[d]
    /\ items'[d] = items[d]
    /\ pc'[d] = pc[d]
    /\ index'[d] = index[d]
    /\ attempt'[d] = attempt[d]
    /\ tweet_id'[d] = tweet_id[d]
    /\ posted'[d] = posted[d]
    /\ cursor'[d] = cursor[d]

(* Ids stay what they are, and whatever is new belongs to other calls.     *)
TwitterUnmoved(d) ==
    /\ Len(tweets') \in Nat /\ Len(tweets) <= Len(tweets')
    /\ \A id \in 1..Len(tweets) : tweets'[id] = tweets[id]
    /\ \A id \in 1..Len(tweets') : id \notin 1..Len(tweets) => tweets'[id].call # d
    /\ \A t \in inflight' : t.call = d => t \in inflight
    /\ \A id \in deleted' \cup deleting' :
          id \in deleted \cup deleting \/ (id \in 1..Len(tweets) /\ tweets[id].call # d)

LEMMA Frame ==
    ASSUME TypeOK, NEW d \in Call, CallInv(d), Unmoved(d), TwitterUnmoved(d),
           \A id \in deleted \cup deleting : id \in 1..Len(tweets)
    PROVE  CallInv(d)'
<1> USE DEF Unmoved, TwitterUnmoved
<1>0. Len(tweets) \in Nat /\ n(d) \in Nat /\ n(d)' = n(d) /\ Len(items[d]) \in Nat
      /\ Size[d] \in Nat
  BY SizeAssumption DEF TypeOK, n
<1>1. StatusInv(d)'
  BY <1>0 DEF CallInv, StatusInv
<1>2. LocalInv(d)'
  BY <1>0 DEF CallInv, LocalInv
<1>3. RowInv(d)'
  <2>1. RowInv(d)
    BY DEF CallInv
  <2>2. (n(d) <= Len(items[d]) /\ Len(items[d]) <= Size[d])'
    BY <1>0, <2>1 DEF RowInv
  <2>3. (\A i \in 1..n(d) : items[d][i] = [status |-> "published", tweet |-> posted[d][i]])'
    BY <1>0, <2>1 DEF RowInv
  <2>4. (\A i \in 1..Len(items[d]) : i > n(d) + 1 => items[d][i] = Draft)'
    BY <1>0, <2>1 DEF RowInv, Draft
  <2> QED
    BY <1>0, <2>1, <2>2, <2>3, <2>4 DEF RowInv, Draft, Failed
<1>4. PostedInv(d)'
  BY <1>0 DEF CallInv, PostedInv
<1>5. DoubtInv(d)'
  <2>1. DoubtInv(d)
    BY DEF CallInv
  <2>2. NextTweet(d)' = NextTweet(d)
    BY DEF NextTweet, Previous
  <2>3. ASSUME NEW id \in 1..Len(tweets'), tweets'[id].call = d
        PROVE  id \in 1..Len(tweets) /\ tweets'[id] = tweets[id]
    BY <2>3, <1>0
  <2>4. MadeInDoubt(d)'
    BY <1>0, <2>1, <2>3 DEF DoubtInv, MadeInDoubt, Opening
  <2>5. OnItsWay(d)'
    BY <1>0, <2>1, <2>3 DEF DoubtInv, OnItsWay, Opening, Posting
  <2>6. ToRecord(d)'
    BY <1>0, <2>1, <2>2 DEF DoubtInv, ToRecord
  <2> QED
    BY <2>4, <2>5, <2>6 DEF DoubtInv
<1>6. DeleteInv(d)'
  BY <1>0 DEF CallInv, DeleteInv
<1> QED
  BY <1>1, <1>2, <1>3, <1>4, <1>5, <1>6 DEF CallInv

(* What _rollback deletes is a tweet of its own call.                      *)
LEMMA TargetIsPosted ==
    ASSUME IInv, NEW c \in Call, Rollback(c)
    PROVE  RollbackTarget(c) \in 1..Len(tweets) /\ tweets[RollbackTarget(c)].call = c
<1>1. cursor[c] \in 1..n(c)
  BY DEF IInv, CallInv, LocalInv, Rollback
<1>2. PostedInv(c)
  BY DEF IInv, CallInv
<1>3. /\ posted[c][cursor[c]] \in 1..Len(tweets)
      /\ tweets[posted[c][cursor[c]]] =
            [call |-> c, item |-> cursor[c],
             reply |-> IF cursor[c] = 1 THEN NoTweet ELSE posted[c][cursor[c] - 1]]
  BY <1>1, <1>2 DEF PostedInv
<1> QED
  BY <1>3 DEF RollbackTarget

(* A call has its rows and its locals to itself.                           *)
LEMMA OthersUnmoved ==
    ASSUME TypeOK, NEW c \in Call, Step(c) \/ Crash(c), NEW d \in Call, d # c
    PROVE  Unmoved(d)
BY DEF Unmoved, TypeOK, Step, CreatePost, CreateItem, Send, RecordItem, FailItem, Rollback,
       FailPost, PublishPost, Crash, Goto, rows, twitter, locals

(* A step of one call is such a step for every other.                      *)
LEMMA Others ==
    ASSUME IInv, NEW c \in Call, Step(c) \/ Crash(c), NEW d \in Call, d # c
    PROVE  CallInv(d)'
<1> USE DEF IInv
<1>1. Unmoved(d)
  BY OthersUnmoved
<1>2. \A id \in deleted \cup deleting : id \in 1..Len(tweets)
  BY DEF CallInv, DeleteInv
<1>3. TwitterUnmoved(d)
  <2>1. CASE Send(c)
    <3>1. NextTweet(c) \in Tweet /\ NextTweet(c).call # d
      BY DEF NextTweet, Tweet, Previous, NoTweet, TypeOK
    <3>2. tweets' = tweets \/ tweets' = Append(tweets, NextTweet(c))
      BY <2>1 DEF Send
    <3>3. inflight' = inflight \/ inflight' = inflight \cup {NextTweet(c)}
      BY <2>1 DEF Send
    <3>4. deleted' = deleted /\ deleting' = deleting
      BY <2>1 DEF Send
    <3>5. tweets \in Seq(Tweet) /\ Len(tweets) \in Nat
      BY DEF TypeOK
    <3>6. /\ Len(tweets') \in Nat /\ Len(tweets) <= Len(tweets')
          /\ \A id \in 1..Len(tweets) : tweets'[id] = tweets[id]
          /\ \A id \in 1..Len(tweets') :
                id \notin 1..Len(tweets) => tweets'[id] = NextTweet(c)
      BY <3>1, <3>2, <3>5
    <3> QED
      BY <3>1, <3>3, <3>4, <3>6 DEF TwitterUnmoved
  <2>2. CASE Rollback(c)
    <3>1. RollbackTarget(c) \in 1..Len(tweets) /\ tweets[RollbackTarget(c)].call = c
      BY <2>2, TargetIsPosted
    <3>2. /\ deleted' \subseteq deleted \cup {RollbackTarget(c)}
          /\ deleting' \subseteq deleting \cup {RollbackTarget(c)}
      BY <2>2 DEF Rollback
    <3>3. tweets' = tweets /\ inflight' = inflight
      BY <2>2 DEF Rollback
    <3> QED
      BY <3>1, <3>2, <3>3 DEF TwitterUnmoved, TypeOK
  <2>3. CASE UNCHANGED twitter
    BY <2>3 DEF TwitterUnmoved, TypeOK, twitter
  <2> QED
    BY <2>1, <2>2, <2>3 DEF Step, CreatePost, CreateItem, RecordItem, FailItem, FailPost,
                            PublishPost, Crash
<1> QED
  BY <1>1, <1>2, <1>3, Frame

-----------------------------------------------------------------------------
(* What each action does to the invariant of its own call.                 *)
LEMMA InitStep ==
    ASSUME Init
    PROVE  \A c \in Call : CallInv(c)
<1> SUFFICES ASSUME NEW c \in Call PROVE CallInv(c)
  OBVIOUS
<1>1. n(c) = 0 /\ Size[c] \in Nat /\ Size[c] > 0 /\ Len(tweets) = 0
  BY SizeAssumption DEF Init, n
<1>2. StatusInv(c)
  BY DEF Init, StatusInv, Await, NoRow
<1>3. LocalInv(c)
  BY <1>1 DEF Init, LocalInv, Opening, Posting, Failing
<1>4. RowInv(c)
  BY <1>1 DEF Init, RowInv
<1>5. PostedInv(c) /\ DeleteInv(c)
  BY <1>1 DEF Init, PostedInv, DeleteInv
<1>6. DoubtInv(c)
  BY <1>1 DEF Init, DoubtInv, MadeInDoubt, OnItsWay, ToRecord
<1> QED
  BY <1>2, <1>3, <1>4, <1>5, <1>6 DEF CallInv

LEMMA CreatePostStep ==
    ASSUME IInv, NEW c \in Call, CreatePost(c)
    PROVE  CallInv(c)'
<1> USE DEF IInv, CallInv
<1>1. PICK db \in DbOutcome :
        /\ posts' = [posts EXCEPT ![c] = CreatePostRow("publishing", db)]
        /\ Goto(c, IF db = "ok" THEN "create_items" ELSE "raised")
  BY DEF CreatePost
<1>2. /\ pc[c] = "create_post"
      /\ pc'[c] = IF db = "ok" THEN "create_items" ELSE "raised"
      /\ posts'[c] \in {"publishing", NoRow}
      /\ db = "ok" => posts'[c] = "publishing"
      /\ UNCHANGED <<items, tweets, deleted, inflight, deleting,
                     index, attempt, tweet_id, posted, cursor>>
  BY <1>1 DEF CreatePost, CreatePostRow, Committed, Goto, TypeOK, twitter, locals
<1>3. n(c) = 0 /\ n(c)' = 0 /\ items[c] = <<>> /\ Size[c] \in Nat /\ Size[c] > 0
  BY <1>2, SizeAssumption DEF LocalInv, Opening, n
<1>4. StatusInv(c)'
  BY <1>2, <1>3 DEF StatusInv, Await, NoRow
<1>5. LocalInv(c)'
  BY <1>2, <1>3 DEF LocalInv, Opening, Posting, Failing
<1>6. RowInv(c)'
  BY <1>2, <1>3 DEF RowInv
<1>7. PostedInv(c)'
  BY <1>2, <1>3 DEF PostedInv, n
<1>8. DoubtInv(c)'
  BY <1>2, <1>3 DEF DoubtInv, MadeInDoubt, OnItsWay, ToRecord, Opening
<1>9. DeleteInv(c)'
  BY <1>2, <1>3 DEF DeleteInv, Opening
<1> QED
  BY <1>4, <1>5, <1>6, <1>7, <1>8, <1>9

LEMMA CreateItemStep ==
    ASSUME IInv, NEW c \in Call, CreateItem(c)
    PROVE  CallInv(c)'
<1> USE DEF IInv, CallInv
<1>1. PICK db \in DbOutcome :
        /\ items' = [items EXCEPT ![c] = CreatePostItem(@, "draft", db)]
        /\ Goto(c, IF db # "ok" THEN "raised"
                   ELSE IF Len(items[c]) + 1 < Size[c] THEN "create_items"
                   ELSE "send")
  BY DEF CreateItem
<1>2. /\ pc[c] = "create_items"
      /\ pc'[c] = IF db # "ok" THEN "raised"
                   ELSE IF Len(items[c]) + 1 < Size[c] THEN "create_items"
                   ELSE "send"
      /\ items'[c] = items[c] \/ items'[c] = Append(items[c], Draft)
      /\ db = "ok" => items'[c] = Append(items[c], Draft)
      /\ UNCHANGED <<posts, tweets, deleted, inflight, deleting,
                     index, attempt, tweet_id, posted, cursor>>
  BY <1>1 DEF CreateItem, CreatePostItem, Committed, Goto, TypeOK, Draft, twitter, locals
<1>3. /\ n(c) = 0 /\ n(c)' = 0 /\ Size[c] \in Nat /\ Len(items[c]) < Size[c]
      /\ items[c] \in Seq(ItemRow) /\ Len(items[c]) \in Nat
  BY <1>2, SizeAssumption DEF LocalInv, Opening, TypeOK, n
<1>4. StatusInv(c)'
  BY <1>2, <1>3 DEF StatusInv, Await, NoRow
<1>5. LocalInv(c)'
  BY <1>2, <1>3 DEF LocalInv, Opening, Posting, Failing
<1>6. RowInv(c)'
  <2>1. \A i \in 1..Len(items[c]) : items[c][i] = Draft
    BY <1>2, <1>3 DEF RowInv, Opening
  <2>2. \A i \in 1..Len(items'[c]) : items'[c][i] = Draft
    BY <2>1, <1>2, <1>3
  <2>3. Len(items'[c]) \in Nat /\ Len(items'[c]) <= Size[c]
    BY <1>2, <1>3
  <2> QED
    BY <1>2, <1>3, <2>2, <2>3 DEF RowInv
<1>7. PostedInv(c)'
  BY <1>2, <1>3 DEF PostedInv, n
<1>8. DoubtInv(c)'
  BY <1>2, <1>3 DEF DoubtInv, MadeInDoubt, OnItsWay, ToRecord, Opening
<1>9. DeleteInv(c)'
  BY <1>2, <1>3 DEF DeleteInv, Opening
<1> QED
  BY <1>4, <1>5, <1>6, <1>7, <1>8, <1>9

LEMMA SendStep ==
    ASSUME IInv, NEW c \in Call, Send(c)
    PROVE  CallInv(c)'
<1> USE DEF IInv, CallInv
<1>1. PICK answer \in Answer, fate \in {"done", "lost", "late"} :
        /\ answer = "ok" => fate = "done"
        /\ tweets' = IF fate = "done" THEN Append(tweets, NextTweet(c)) ELSE tweets
        /\ inflight' = IF fate = "late" THEN inflight \cup {NextTweet(c)} ELSE inflight
        /\ tweet_id' = [tweet_id EXCEPT ![c] = IF answer = "ok" THEN Len(tweets) + 1 ELSE @]
        /\ attempt' = [attempt EXCEPT ![c] = 1]
        /\ Goto(c, IF answer = "ok" THEN "record" ELSE "fail_item")
  <2>1. attempt[c] = 1
    BY DEF LocalInv
  <2>2. \A answer \in Answer : Outcome(answer, attempt[c], FALSE) # "retry"
    <3> SUFFICES ASSUME NEW answer \in Answer
                 PROVE  Outcome(answer, 1, FALSE) # "retry"
      BY <2>1
    <3>1. 1 \in Nat \ {0}
      OBVIOUS
    <3> QED
      BY <3>1, NoRetry
  <2>3. \A answer \in Answer : Fates(answer) \subseteq {"done", "lost", "late"}
    BY DEF Answer, Fates
  <2>4. Fates("ok") = {"done"}
    BY DEF Fates
  <2>5. PICK answer \in Answer : \E fate \in Fates(answer) :
          /\ tweets' = IF fate = "done" THEN Append(tweets, NextTweet(c)) ELSE tweets
          /\ inflight' = IF fate = "late" THEN inflight \cup {NextTweet(c)} ELSE inflight
          /\ tweet_id' = [tweet_id EXCEPT ![c] = IF answer = "ok" THEN Len(tweets) + 1 ELSE @]
          /\ attempt' = [attempt EXCEPT ![c] = 1]
          /\ Goto(c, IF answer = "ok" THEN "record" ELSE "fail_item")
    BY <2>2 DEF Send, Accepted
  <2> QED
    BY <2>3, <2>4, <2>5
<1>2. /\ pc[c] = "send"
      /\ pc'[c] = IF answer = "ok" THEN "record" ELSE "fail_item"
      /\ tweet_id'[c] = IF answer = "ok" THEN Len(tweets) + 1 ELSE tweet_id[c]
      /\ attempt'[c] = 1
      /\ UNCHANGED <<posts, items, deleted, deleting, index, posted, cursor>>
  BY <1>1 DEF Send, Goto, TypeOK, rows
<1>3. /\ n(c) \in Nat /\ n(c)' = n(c) /\ n(c) < Size[c] /\ Len(items[c]) = Size[c]
      /\ index[c] = n(c) + 1 /\ Size[c] \in Nat
      /\ tweets \in Seq(Tweet) /\ Len(tweets) \in Nat
  BY <1>2, SizeAssumption DEF LocalInv, Posting, TypeOK, n
<1>4. /\ NextTweet(c)' = NextTweet(c)
      /\ NextTweet(c) \in Tweet
      /\ NextTweet(c).call = c
      /\ NextTweet(c).item = n(c) + 1
  BY <1>2, <1>3 DEF NextTweet, Previous, Tweet, NoTweet, TypeOK
<1>5. /\ Len(tweets) <= Len(tweets')
      /\ \A id \in 1..Len(tweets) : tweets'[id] = tweets[id]
      /\ \A id \in 1..Len(tweets') : id \notin 1..Len(tweets) =>
            id = Len(tweets) + 1 /\ fate = "done" /\ tweets'[id] = NextTweet(c)
      /\ fate = "done" => Len(tweets') = Len(tweets) + 1
      /\ Len(tweets') \in Nat
  BY <1>1, <1>3, <1>4
<1>6. StatusInv(c)'
  BY <1>2, <1>3 DEF StatusInv, Await, NoRow
<1>7. LocalInv(c)'
  BY <1>2, <1>3 DEF LocalInv, Opening, Posting, Failing
<1>8. RowInv(c)'
  <2>1. items'[c][n(c) + 1] = Draft
    BY <1>2, <1>3 DEF RowInv, Posting, Opening
  <2> QED
    BY <2>1, <1>2, <1>3 DEF RowInv
<1>9. PostedInv(c)'
  <2>1. ASSUME NEW i \in 1..n(c)
        PROVE  /\ posted[c][i] \in 1..Len(tweets')
               /\ tweets'[posted[c][i]] = tweets[posted[c][i]]
    <3>1. posted[c][i] \in 1..Len(tweets)
      BY DEF PostedInv
    <3> QED
      BY <3>1, <1>3, <1>5
  <2>2. ASSUME NEW id \in 1..Len(tweets'), tweets'[id].call = c
        PROVE  /\ tweets'[id].item \in 1..(n(c) + 1)
               /\ tweets'[id].item <= n(c) => id = posted[c][tweets'[id].item]
    <3>1. CASE id \in 1..Len(tweets)
      BY <2>2, <3>1, <1>5 DEF PostedInv
    <3>2. CASE id \notin 1..Len(tweets)
      <4>1. tweets'[id] = NextTweet(c)
        BY <3>2, <1>5
      <4> QED
        BY <4>1, <1>3, <1>4
    <3> QED
      BY <3>1, <3>2
  <2> QED
    BY <2>1, <2>2, <1>2, <1>3 DEF PostedInv
<1>10. \A id \in 1..Len(tweets) : tweets[id].call = c => tweets[id].item # n(c) + 1
  BY <1>2 DEF DoubtInv, MadeInDoubt
<1>11. \A t \in inflight : t.call # c
  BY <1>2 DEF DoubtInv, OnItsWay, Posting
<1>12. MadeInDoubt(c)'
  BY <1>2, <1>3, <1>5, <1>10 DEF MadeInDoubt, Opening
<1>13. OnItsWay(c)'
  <2>1. \A t \in inflight' : t.call = c => t = NextTweet(c) /\ fate = "late"
    BY <1>1, <1>11
  <2>2. fate = "late" => tweets' = tweets /\ pc'[c] = "fail_item"
    BY <1>1, <1>2
  <2> QED
    BY <2>1, <2>2, <1>3, <1>4, <1>10 DEF OnItsWay, Opening, Posting
<1>14. ToRecord(c)'
  BY <1>1, <1>2, <1>4, <1>5 DEF ToRecord
<1>15. DeleteInv(c)'
  BY <1>2, <1>3, <1>5 DEF DeleteInv, Posting
<1> QED
  BY <1>6, <1>7, <1>8, <1>9, <1>12, <1>13, <1>14, <1>15 DEF DoubtInv

LEMMA RecordItemStep ==
    ASSUME IInv, NEW c \in Call, RecordItem(c)
    PROVE  CallInv(c)'
<1> USE DEF IInv, CallInv
<1> DEFINE Row == [status |-> "published", tweet |-> tweet_id[c]]
<1>1. PICK db \in DbOutcome, next \in {"fail_item", "send", "publish_post", "raised"} :
        Recorded(c, db, next)
  BY RecordItemEnds
<1>2. /\ pc[c] = "record"
      /\ UNCHANGED <<posts, tweets, deleted, inflight, deleting, attempt, tweet_id, cursor>>
  BY DEF RecordItem, twitter
<1>12. /\ posted[c] \in Seq(Nat) /\ items[c] \in Seq(ItemRow)
       /\ n(c) \in Nat /\ Len(items[c]) \in Nat /\ Size[c] \in Nat /\ tweet_id[c] \in Nat
  BY SizeAssumption DEF TypeOK, n
<1>3. /\ index[c] = n(c) + 1 /\ n(c) < Size[c] /\ Len(items[c]) = Size[c]
      /\ attempt[c] = 1
  BY <1>2, <1>12 DEF LocalInv, Posting
<1>4. /\ tweet_id[c] \in 1..Len(tweets)
      /\ tweets[tweet_id[c]] =
            [call |-> c, item |-> n(c) + 1,
             reply |-> IF n(c) = 0 THEN NoTweet ELSE posted[c][n(c)]]
  BY <1>2, <1>12, <1>3 DEF DoubtInv, ToRecord, NextTweet, Previous, n
<1>5. \A id \in 1..Len(tweets) :
        tweets[id].call = c /\ tweets[id].item = n(c) + 1 => id = tweet_id[c]
  BY <1>4 DEF DoubtInv, MadeInDoubt
<1>6. \A t \in inflight : t.call # c
  BY <1>2, <1>12 DEF DoubtInv, OnItsWay, Posting
<1>7. /\ items'[c] = items[c] \/ items'[c] = [items[c] EXCEPT ![n(c) + 1] = Row]
      /\ db = "ok" => items'[c] = [items[c] EXCEPT ![n(c) + 1] = Row]
  BY <1>1, <1>3 DEF Recorded, UpdateItemResult, Committed, TypeOK
<1>8. /\ Len(items'[c]) = Len(items[c])
      /\ \A i \in 1..Len(items[c]) : i # n(c) + 1 => items'[c][i] = items[c][i]
      /\ items'[c][n(c) + 1] = items[c][n(c) + 1] \/ items'[c][n(c) + 1] = Row
      /\ db = "ok" => items'[c][n(c) + 1] = Row
  BY <1>2, <1>12, <1>3, <1>7
<1>9. items[c][n(c) + 1] = Draft
  BY <1>2, <1>12, <1>3 DEF RowInv, Posting, Opening
<1>13. \A i \in 1..n(c) : items'[c][i] = [status |-> "published", tweet |-> posted[c][i]]
  <2> SUFFICES ASSUME NEW i \in 1..n(c)
               PROVE  items'[c][i] = [status |-> "published", tweet |-> posted[c][i]]
    OBVIOUS
  <2>1. items[c][i] = [status |-> "published", tweet |-> posted[c][i]]
    BY DEF RowInv
  <2>2. i \in 1..Len(items[c]) /\ i # n(c) + 1
    BY <1>3, <1>12
  <2> QED
    BY <2>1, <2>2, <1>8
<1>10. CASE db # "ok"
  <2>1. pc'[c] = "fail_item" /\ posted'[c] = posted[c] /\ n(c)' = n(c)
    <3>1. pc' = [pc EXCEPT ![c] = "fail_item"] /\ posted' = [posted EXCEPT ![c] = @]
      BY <1>1, <1>10 DEF Recorded, Goto
    <3> QED
      BY <3>1 DEF TypeOK, n
  <2>2. StatusInv(c)'
    BY <2>1, <1>2, <1>12 DEF StatusInv, Await, NoRow
  <2>3. LocalInv(c)'
    BY <2>1, <1>2, <1>12, <1>3, <1>8 DEF LocalInv, Opening, Posting, Failing
  <2>4. RowInv(c)'
    <3>1. \A i \in 1..n(c) : items'[c][i] = [status |-> "published", tweet |-> posted[c][i]]
      BY <1>13
    <3>2. \A i \in 1..Len(items[c]) : i > n(c) + 1 => items'[c][i] = Draft
      BY <1>2, <1>12, <1>3, <1>8 DEF RowInv
    <3> QED
      BY <3>1, <3>2, <2>1, <1>2, <1>12, <1>3, <1>4, <1>8, <1>9 DEF RowInv, Opening, Posting
  <2>5. PostedInv(c)'
    BY <2>1, <1>2, <1>12 DEF PostedInv
  <2>6. DoubtInv(c)'
    BY <2>1, <1>2, <1>12, <1>3, <1>5, <1>6 DEF DoubtInv, MadeInDoubt, OnItsWay, ToRecord, Opening
  <2>7. DeleteInv(c)'
    BY <2>1, <1>2, <1>12 DEF DeleteInv, Posting
  <2> QED
    BY <2>2, <2>3, <2>4, <2>5, <2>6, <2>7
<1>11. CASE db = "ok"
  <2>1. /\ posted'[c] = Append(posted[c], tweet_id[c]) /\ n(c)' = n(c) + 1
        /\ posted'[c][n(c) + 1] = tweet_id[c]
        /\ \A i \in 1..n(c) : posted'[c][i] = posted[c][i]
    BY <1>1, <1>2, <1>12, <1>11 DEF Recorded, TypeOK, n
  <2>2. /\ pc'[c] \in IF n(c) + 1 < Size[c] THEN {"send", "fail_item"}
                     ELSE {"publish_post", "raised"}
        /\ pc'[c] = "send" => index'[c] = n(c) + 2
    <3>1. /\ pc' = [pc EXCEPT ![c] = next] /\ pc \in [Call -> Await \cup Ended]
          /\ next \in IF n(c) + 1 < Size[c] THEN {"send", "fail_item"}
                      ELSE {"publish_post", "raised"}
          /\ next = "send" => index' = [index EXCEPT ![c] = @ + 1]
      BY <1>1, <1>3, <1>11 DEF Recorded, Goto, TypeOK
    <3> QED
      BY <1>3, <1>12, <3>1 DEF TypeOK
  <2>3. StatusInv(c)'
    BY <2>2, <1>2, <1>12 DEF StatusInv, Await, NoRow
  <2>4. LocalInv(c)'
    <3>1. /\ pc'[c] \in {"send", "fail_item"} => n(c) + 1 < Size[c]
          /\ pc'[c] = "publish_post" => n(c) + 1 = Size[c]
          /\ pc'[c] \in {"send", "fail_item", "publish_post", "raised"}
      BY <2>2, <1>12, <1>3
    <3>2. n(c) + 2 = n(c) + 1 + 1
      BY <1>12
    <3>3. attempt'[c] = 1 /\ Len(items'[c]) = Size[c]
      BY <1>2, <1>3, <1>8
    <3> QED
      BY <2>1, <2>2, <3>1, <3>2, <3>3 DEF LocalInv, Opening, Posting, Failing
  <2>5. RowInv(c)'
    <3>1. ASSUME NEW i \in 1..(n(c) + 1)
          PROVE  items'[c][i] = [status |-> "published", tweet |-> posted'[c][i]]
      <4>1. CASE i = n(c) + 1
        BY <4>1, <2>1, <1>8, <1>11
      <4>2. CASE i \in 1..n(c)
        BY <4>2, <2>1, <1>13
      <4> QED
        BY <4>1, <4>2, <1>12
    <3>2. \A i \in 1..Len(items[c]) : i > n(c) + 1 => items'[c][i] = Draft
      BY <1>2, <1>12, <1>3, <1>8 DEF RowInv
    <3>3. n(c) + 1 <= Len(items[c]) /\ Len(items[c]) <= Size[c]
      BY <1>3, <1>12
    <3>4. n(c) + 1 < Len(items[c]) => items'[c][n(c) + 2] = Draft
      BY <3>2, <1>3, <1>12
    <3>5. n(c) + 1 + 1 = n(c) + 2
      BY <1>12
    <3> HIDE DEF CallInv, IInv
    <3>6. (n(c) <= Len(items[c]) /\ Len(items[c]) <= Size[c])'
      BY <3>3, <2>1, <1>8
    <3>7. (\A i \in 1..n(c) : items[c][i] = [status |-> "published", tweet |-> posted[c][i]])'
      BY <3>1, <2>1
    <3>8. (\A i \in 1..Len(items[c]) : i > n(c) + 1 => items[c][i] = Draft)'
      BY <3>2, <2>1, <1>8, <1>12 DEF Draft
    <3>9. (n(c) < Len(items[c]) => items[c][n(c) + 1] = Draft)'
      BY <3>4, <3>5, <2>1, <1>8 DEF Draft
    <3> QED
      BY <3>6, <3>7, <3>8, <3>9 DEF RowInv
  <2>6. PostedInv(c)'
    <3>1. ASSUME NEW i \in 1..(n(c) + 1)
          PROVE  /\ posted'[c][i] \in 1..Len(tweets)
                 /\ tweets[posted'[c][i]] =
                      [call |-> c, item |-> i,
                       reply |-> IF i = 1 THEN NoTweet ELSE posted'[c][i - 1]]
      <4>1. CASE i = n(c) + 1
        <5>1. i = 1 <=> n(c) = 0
          BY <4>1, <1>12
        <5>2. n(c) # 0 => n(c) \in 1..n(c) /\ i - 1 = n(c)
          BY <4>1, <1>12
        <5>3. n(c) # 0 => posted'[c][n(c)] = posted[c][n(c)]
          BY <5>2, <2>1
        <5> QED
          BY <5>1, <5>2, <5>3, <4>1, <2>1, <1>4
      <4>2. CASE i \in 1..n(c)
        <5>1. /\ posted[c][i] \in 1..Len(tweets)
              /\ tweets[posted[c][i]] =
                   [call |-> c, item |-> i,
                    reply |-> IF i = 1 THEN NoTweet ELSE posted[c][i - 1]]
          BY <4>2 DEF PostedInv
        <5>2. i = 1 \/ i - 1 \in 1..n(c)
          BY <4>2, <1>2, <1>12
        <5> QED
          BY <5>1, <5>2, <4>2, <2>1
      <4> QED
        BY <4>1, <4>2, <1>2, <1>12
    <3>2. ASSUME NEW id \in 1..Len(tweets), tweets[id].call = c
          PROVE  /\ tweets[id].item \in 1..(n(c) + 1)
                 /\ tweets[id].item <= n(c) + 1 => id = posted'[c][tweets[id].item]
      <4>1. /\ tweets[id].item \in 1..(n(c) + 1)
            /\ tweets[id].item <= n(c) => id = posted[c][tweets[id].item]
        BY <3>2 DEF PostedInv
      <4>2. CASE tweets[id].item = n(c) + 1
        BY <4>1, <4>2, <3>2, <2>1, <1>5
      <4>3. CASE tweets[id].item \in 1..n(c)
        <5>1. posted'[c][tweets[id].item] = posted[c][tweets[id].item]
          BY <4>3, <2>1
        <5> QED
          BY <5>1, <4>1, <4>3, <1>12
      <4> QED
        BY <4>1, <4>2, <4>3, <1>12
    <3>3. \A i \in 1..(n(c) + 1) : i \in 1..(n(c) + 1 + 1)
      BY <1>2, <1>12
    <3> QED
      BY <3>1, <3>2, <3>3, <2>1, <1>2, <1>12 DEF PostedInv
  <2>7. DoubtInv(c)'
    <3>1. \A id \in 1..Len(tweets) : tweets[id].call = c => tweets[id].item # n(c) + 1 + 1
      BY <1>2, <1>12 DEF PostedInv
    <3> QED
      BY <3>1, <2>1, <2>2, <1>2, <1>12, <1>6 DEF DoubtInv, MadeInDoubt, OnItsWay, ToRecord
  <2>8. DeleteInv(c)'
    BY <2>2, <1>2, <1>12 DEF DeleteInv, Posting
  <2> QED
    BY <2>3, <2>4, <2>5, <2>6, <2>7, <2>8
<1> QED
  BY <1>10, <1>11

LEMMA FailItemStep ==
    ASSUME IInv, NEW c \in Call, FailItem(c)
    PROVE  CallInv(c)'
<1> USE DEF IInv, CallInv
<1>1. PICK db \in DbOutcome :
        /\ items' = [items EXCEPT ![c] =
                       UpdateItemResult(@, FailedIndex(c), "failed", NoTweet, db)]
        /\ Goto(c, AfterFailItem(c, db))
  BY DEF FailItem
<1>2. /\ pc[c] = "fail_item"
      /\ cursor' = [cursor EXCEPT ![c] = Len(posted[c])]
      /\ UNCHANGED <<posts, tweets, deleted, inflight, deleting, index, attempt, tweet_id, posted>>
  BY DEF FailItem, twitter
<1>3. /\ posted[c] \in Seq(Nat) /\ items[c] \in Seq(ItemRow)
      /\ n(c) \in Nat /\ n(c)' = n(c) /\ Len(items[c]) \in Nat /\ Size[c] \in Nat
  <2>1. n(c)' = n(c)
    BY <1>2 DEF n
  <2> QED
    BY <2>1, SizeAssumption DEF TypeOK, n
<1>4. n(c) < Size[c] /\ Len(items[c]) = Size[c] /\ attempt[c] = 1
  BY <1>2 DEF LocalInv, Failing
<1>5. /\ pc'[c] \in {"raised", "fail_post", "rollback"}
      /\ pc'[c] = "rollback" => n(c) >= 1
      /\ cursor'[c] = n(c)
  BY <1>1, <1>2, <1>3 DEF Goto, AfterFailItem, TypeOK, n
<1>6. items'[c] = items[c] \/ items'[c] = [items[c] EXCEPT ![n(c) + 1] = Failed]
  BY <1>1 DEF UpdateItemResult, FailedIndex, Failed, TypeOK, n
<1>7. /\ Len(items'[c]) = Len(items[c])
      /\ \A i \in 1..Len(items[c]) : i # n(c) + 1 => items'[c][i] = items[c][i]
      /\ items'[c][n(c) + 1] = items[c][n(c) + 1] \/ items'[c][n(c) + 1] = Failed
  BY <1>3, <1>4, <1>6
<1>8. StatusInv(c)'
  BY <1>2, <1>5 DEF StatusInv, Await, NoRow
<1>9. LocalInv(c)'
  BY <1>2, <1>3, <1>4, <1>5, <1>7 DEF LocalInv, Opening, Posting, Failing
<1>10. RowInv(c)'
  <2>1. \A i \in 1..n(c) : items'[c][i] = [status |-> "published", tweet |-> posted[c][i]]
    <3> SUFFICES ASSUME NEW i \in 1..n(c)
                 PROVE  items'[c][i] = [status |-> "published", tweet |-> posted[c][i]]
      OBVIOUS
    <3>1. items[c][i] = [status |-> "published", tweet |-> posted[c][i]]
      BY DEF RowInv
    <3>2. i \in 1..Len(items[c]) /\ i # n(c) + 1
      BY <1>3, <1>4
    <3> QED
      BY <3>1, <3>2, <1>7
  <2>2. \A i \in 1..Len(items[c]) : i > n(c) + 1 => items'[c][i] = Draft
    BY <1>3, <1>4, <1>7 DEF RowInv
  <2> QED
    BY <2>1, <2>2, <1>2, <1>3, <1>4, <1>5, <1>7 DEF RowInv, Opening, Posting, Draft, Failed
<1>11. PostedInv(c)'
  BY <1>2, <1>3 DEF PostedInv
<1>12. DoubtInv(c)'
  <2>1. MadeInDoubt(c)'
    BY <1>2, <1>3, <1>4, <1>5 DEF DoubtInv, MadeInDoubt, Opening
  <2>2. OnItsWay(c)'
    BY <1>2, <1>3, <1>4, <1>5 DEF DoubtInv, OnItsWay, Opening, Posting
  <2>3. ToRecord(c)'
    BY <1>5 DEF ToRecord
  <2> QED
    BY <2>1, <2>2, <2>3 DEF DoubtInv
<1>13. DeleteInv(c)'
  BY <1>2, <1>5 DEF DeleteInv
<1> QED
  BY <1>8, <1>9, <1>10, <1>11, <1>12, <1>13

LEMMA RollbackStep ==
    ASSUME IInv, NEW c \in Call, Rollback(c)
    PROVE  CallInv(c)'
<1>1. RollbackTarget(c) \in 1..Len(tweets)
  BY TargetIsPosted
<1> USE DEF IInv, CallInv
<1>2. /\ pc[c] = "rollback"
      /\ deleted' \subseteq deleted \cup {RollbackTarget(c)}
      /\ deleting' \subseteq deleting \cup {RollbackTarget(c)}
      /\ cursor' = [cursor EXCEPT ![c] = @ - 1]
      /\ pc' = [pc EXCEPT ![c] = IF cursor[c] > 1 THEN "rollback" ELSE "fail_post"]
      /\ UNCHANGED <<posts, items, tweets, inflight, index, attempt, tweet_id, posted>>
  BY DEF Rollback, Goto, rows
<1>3. n(c) \in Nat /\ n(c)' = n(c) /\ cursor[c] \in 1..n(c)
  BY <1>2 DEF LocalInv, TypeOK, n
<1>4. /\ pc'[c] \in {"rollback", "fail_post"}
      /\ pc'[c] = "rollback" => cursor'[c] \in 1..n(c)
  BY <1>2, <1>3 DEF TypeOK
<1>5. StatusInv(c)'
  BY <1>2, <1>4 DEF StatusInv, Await, NoRow
<1>6. LocalInv(c)'
  BY <1>2, <1>3, <1>4 DEF LocalInv, Opening, Posting, Failing
<1>7. RowInv(c)'
  BY <1>2, <1>3, <1>4 DEF RowInv, Opening, Posting, Draft, Failed
<1>8. PostedInv(c)'
  BY <1>2, <1>3 DEF PostedInv
<1>9. DoubtInv(c)'
  BY <1>2, <1>3, <1>4 DEF DoubtInv, MadeInDoubt, OnItsWay, ToRecord, Opening, Posting
<1>10. DeleteInv(c)'
  BY <1>1, <1>2, <1>4 DEF DeleteInv, StatusInv, Await, Opening, Posting
<1> QED
  BY <1>5, <1>6, <1>7, <1>8, <1>9, <1>10

LEMMA FailPostStep ==
    ASSUME IInv, NEW c \in Call, FailPost(c)
    PROVE  CallInv(c)'
<1> USE DEF IInv, CallInv
<1>1. /\ pc[c] = "fail_post"
      /\ posts'[c] \in {posts[c], "failed"}
      /\ pc'[c] \in {"thread_error", "raised"}
      /\ UNCHANGED <<items, tweets, deleted, inflight, deleting,
                     index, attempt, tweet_id, posted, cursor>>
  BY DEF FailPost, UpdatePostStatus, Goto, TypeOK, twitter, locals
<1>2. n(c)' = n(c) /\ posts[c] = "publishing"
  BY <1>1 DEF StatusInv, Await, n
<1>3. StatusInv(c)'
  BY <1>1, <1>2 DEF StatusInv, Await, NoRow
<1>4. LocalInv(c)'
  BY <1>1, <1>2 DEF LocalInv, Opening, Posting, Failing
<1>5. RowInv(c)'
  BY <1>1, <1>2 DEF RowInv, Opening, Posting, Draft, Failed
<1>6. PostedInv(c)'
  BY <1>1, <1>2 DEF PostedInv
<1>7. DoubtInv(c)'
  BY <1>1, <1>2 DEF DoubtInv, MadeInDoubt, OnItsWay, ToRecord, Opening, Posting
<1>8. DeleteInv(c)'
  BY <1>1, <1>2 DEF DeleteInv, Opening, Posting
<1> QED
  BY <1>3, <1>4, <1>5, <1>6, <1>7, <1>8

LEMMA PublishPostStep ==
    ASSUME IInv, NEW c \in Call, PublishPost(c)
    PROVE  CallInv(c)'
<1> USE DEF IInv, CallInv
<1>1. /\ pc[c] = "publish_post"
      /\ posts'[c] \in {posts[c], "published"}
      /\ pc'[c] \in {"returned", "raised"}
      /\ UNCHANGED <<items, tweets, deleted, inflight, deleting,
                     index, attempt, tweet_id, posted, cursor>>
  BY DEF PublishPost, UpdatePostStatus, Goto, TypeOK, twitter, locals
<1>2. n(c)' = n(c) /\ posts[c] = "publishing" /\ n(c) = Size[c]
  BY <1>1 DEF StatusInv, LocalInv, Await, n
<1>3. StatusInv(c)'
  BY <1>1, <1>2 DEF StatusInv, Await, NoRow
<1>4. LocalInv(c)'
  BY <1>1, <1>2 DEF LocalInv, Opening, Posting, Failing
<1>5. RowInv(c)'
  BY <1>1, <1>2 DEF RowInv, Opening, Posting, Draft, Failed
<1>6. PostedInv(c)'
  BY <1>1, <1>2 DEF PostedInv
<1>7. DoubtInv(c)'
  BY <1>1, <1>2 DEF DoubtInv, MadeInDoubt, OnItsWay, ToRecord, Opening, Posting
<1>8. DeleteInv(c)'
  BY <1>1, <1>2 DEF DeleteInv, Opening, Posting
<1> QED
  BY <1>3, <1>4, <1>5, <1>6, <1>7, <1>8

LEMMA CrashStep ==
    ASSUME IInv, NEW c \in Call, Crash(c)
    PROVE  CallInv(c)'
<1> USE DEF IInv, CallInv
<1>1. /\ pc[c] \in Await
      /\ pc'[c] = "crashed"
      /\ UNCHANGED <<posts, items, tweets, deleted, inflight, deleting,
                     index, attempt, tweet_id, posted, cursor>>
  BY DEF Crash, Goto, TypeOK, rows, twitter, locals
<1>2. n(c)' = n(c)
  BY <1>1 DEF n
<1>3. StatusInv(c)'
  BY <1>1, <1>2 DEF StatusInv, Await, NoRow
<1>4. LocalInv(c)'
  BY <1>1, <1>2 DEF LocalInv, Opening, Posting, Failing
<1>5. RowInv(c)'
  BY <1>1, <1>2 DEF RowInv, Opening, Posting, Draft, Failed
<1>6. PostedInv(c)'
  BY <1>1, <1>2 DEF PostedInv
<1>7. DoubtInv(c)'
  BY <1>1, <1>2 DEF DoubtInv, MadeInDoubt, OnItsWay, ToRecord, Opening, Posting
<1>8. DeleteInv(c)'
  BY <1>1, <1>2 DEF DeleteInv, Opening, Posting
<1> QED
  BY <1>3, <1>4, <1>5, <1>6, <1>7, <1>8

LEMMA LateTweetStep ==
    ASSUME IInv, LateTweet, NEW d \in Call
    PROVE  CallInv(d)'
<1> USE DEF IInv
<1>1. PICK tweet \in inflight :
        /\ tweets' = Append(tweets, tweet)
        /\ inflight' = inflight \ {tweet}
  BY DEF LateTweet
<1>2. UNCHANGED <<posts, items, deleted, deleting, pc, index, attempt, tweet_id, posted, cursor>>
  BY DEF LateTweet, rows, locals
<1>3. tweets \in Seq(Tweet) /\ Len(tweets) \in Nat /\ tweet \in Tweet
  BY DEF TypeOK
<1>4. /\ Len(tweets') = Len(tweets) + 1
      /\ \A id \in 1..Len(tweets) : tweets'[id] = tweets[id]
      /\ tweets'[Len(tweets) + 1] = tweet
  BY <1>1, <1>3
<1>5. \A id \in 1..Len(tweets') : id \in 1..Len(tweets) \/ id = Len(tweets) + 1
  BY <1>3, <1>4
<1>6. \A id \in deleted \cup deleting : id \in 1..Len(tweets)
  BY DEF CallInv, DeleteInv
<1>7. CASE tweet.call # d
  <2>1. Unmoved(d)
    BY <1>2 DEF Unmoved
  <2>2. TwitterUnmoved(d)
    BY <1>1, <1>2, <1>3, <1>4, <1>5, <1>7 DEF TwitterUnmoved
  <2> QED
    BY <2>1, <2>2, <1>6, Frame
<1>8. CASE tweet.call = d
  <2> USE DEF CallInv
  <2>1. n(d)' = n(d) /\ n(d) \in Nat /\ NextTweet(d)' = NextTweet(d)
    BY <1>2 DEF n, NextTweet, Previous, TypeOK
  <2>2. /\ tweet.item = n(d) + 1
        /\ n(d) < Size[d]
        /\ pc[d] \notin Opening \cup Posting \cup {"publish_post"}
        /\ \A id \in 1..Len(tweets) : tweets[id].call = d => tweets[id].item # n(d) + 1
        /\ \A u \in inflight : u.call = d => tweet = u
    BY <1>8 DEF DoubtInv, OnItsWay
  <2>3. StatusInv(d)'
    BY <2>1, <1>2 DEF StatusInv
  <2>4. LocalInv(d)'
    BY <2>1, <1>2 DEF LocalInv
  <2>5. RowInv(d)'
    <3>1. (n(d) <= Len(items[d]) /\ Len(items[d]) <= Size[d])'
      BY <2>1, <1>2 DEF RowInv
    <3>2. (\A i \in 1..n(d) : items[d][i] = [status |-> "published", tweet |-> posted[d][i]])'
      BY <2>1, <1>2 DEF RowInv
    <3>3. (\A i \in 1..Len(items[d]) : i > n(d) + 1 => items[d][i] = Draft)'
      BY <2>1, <1>2 DEF RowInv, Draft
    <3>4. n(d) < Len(items[d]) =>
            items[d][n(d) + 1] = Draft \/ items[d][n(d) + 1] = Failed
      BY <2>1, <2>2 DEF RowInv
    <3> QED
      BY <3>1, <3>2, <3>3, <3>4, <2>1, <2>2, <1>2 DEF RowInv, Draft, Failed
  <2>6. PostedInv(d)'
    <3>1. ASSUME NEW i \in 1..n(d)
          PROVE  /\ posted[d][i] \in 1..Len(tweets')
                 /\ tweets'[posted[d][i]] = tweets[posted[d][i]]
      <4>1. posted[d][i] \in 1..Len(tweets)
        BY DEF PostedInv
      <4> QED
        BY <4>1, <1>3, <1>4
    <3>2. ASSUME NEW id \in 1..Len(tweets'), tweets'[id].call = d
          PROVE  /\ tweets'[id].item \in 1..(n(d) + 1)
                 /\ tweets'[id].item <= n(d) => id = posted[d][tweets'[id].item]
      BY <3>2, <2>1, <2>2, <1>4, <1>5 DEF PostedInv
    <3> QED
      BY <3>1, <3>2, <2>1, <1>2 DEF PostedInv
  <2>7. MadeInDoubt(d)'
    <3>1. \A id \in 1..Len(tweets') :
            tweets'[id].call = d /\ tweets'[id].item = n(d) + 1 => id = Len(tweets) + 1
      BY <2>2, <1>4, <1>5
    <3> QED
      BY <3>1, <2>1, <2>2, <1>2 DEF MadeInDoubt, Posting
  <2>8. OnItsWay(d)'
    BY <2>1, <2>2, <1>1 DEF OnItsWay
  <2>9. ToRecord(d)'
    BY <2>2, <1>2 DEF ToRecord, Posting
  <2>10. DeleteInv(d)'
    BY <1>2, <1>3, <1>4, <1>6 DEF DeleteInv
  <2> QED
    BY <2>3, <2>4, <2>5, <2>6, <2>7, <2>8, <2>9, <2>10 DEF DoubtInv
<1> QED
  BY <1>7, <1>8

LEMMA LateDeleteStep ==
    ASSUME IInv, LateDelete, NEW d \in Call
    PROVE  CallInv(d)'
<1> USE DEF IInv
<1>1. deleted' \cup deleting' = deleted \cup deleting
  BY DEF LateDelete
<1>2. UNCHANGED <<posts, items, tweets, inflight, pc, index, attempt, tweet_id, posted, cursor>>
  BY DEF LateDelete, rows, locals
<1>3. \A id \in deleted \cup deleting : id \in 1..Len(tweets)
  BY DEF CallInv, DeleteInv
<1>4. Unmoved(d)
  BY <1>2 DEF Unmoved
<1>5. TwitterUnmoved(d)
  BY <1>1, <1>2 DEF TwitterUnmoved, TypeOK
<1> QED
  BY <1>3, <1>4, <1>5, Frame

LEMMA StutterStep ==
    ASSUME IInv, UNCHANGED vars, NEW d \in Call
    PROVE  CallInv(d)'
<1> USE DEF IInv
<1>1. UNCHANGED <<posts, items, tweets, deleted, inflight, deleting,
                  pc, index, attempt, tweet_id, posted, cursor>>
  BY DEF vars, rows, twitter, locals
<1>2. \A id \in deleted \cup deleting : id \in 1..Len(tweets)
  BY DEF CallInv, DeleteInv
<1>3. Unmoved(d)
  BY <1>1 DEF Unmoved
<1>4. TwitterUnmoved(d)
  BY <1>1 DEF TwitterUnmoved, TypeOK
<1> QED
  BY <1>2, <1>3, <1>4, Frame

(* The invariant is inductive.                                             *)
THEOREM Inductive == Spec => []IInv
<1>1. Init => IInv
  <2>1. Init => TypeOK
    BY DEF Init, TypeOK, PostStatus, NoRow, NoTweet, Await, Ended, ItemRow, Tweet
  <2> QED
    BY <2>1, InitStep DEF IInv
<1>2. IInv /\ [Next]_vars => IInv'
  <2> SUFFICES ASSUME IInv, [Next]_vars PROVE IInv'
    OBVIOUS
  <2>1. Typed
    BY DEF IInv, Typed, CursorInRange, CallInv, LocalInv, n
  <2>2. TypeOK'
    BY <2>1, TypedStep DEF Typed
  <2>3. ASSUME NEW d \in Call PROVE CallInv(d)'
    <3>1. ASSUME NEW c \in Call, Step(c) \/ Crash(c) PROVE CallInv(d)'
      <4>1. CASE d # c
        BY <3>1, <4>1, Others
      <4>2. CASE d = c
        <5>1. CASE CreatePost(c)
          BY <4>2, <5>1, CreatePostStep
        <5>2. CASE CreateItem(c)
          BY <4>2, <5>2, CreateItemStep
        <5>3. CASE Send(c)
          BY <4>2, <5>3, SendStep
        <5>4. CASE RecordItem(c)
          BY <4>2, <5>4, RecordItemStep
        <5>5. CASE FailItem(c)
          BY <4>2, <5>5, FailItemStep
        <5>6. CASE Rollback(c)
          BY <4>2, <5>6, RollbackStep
        <5>7. CASE FailPost(c)
          BY <4>2, <5>7, FailPostStep
        <5>8. CASE PublishPost(c)
          BY <4>2, <5>8, PublishPostStep
        <5>9. CASE Crash(c)
          BY <4>2, <5>9, CrashStep
        <5> QED
          BY <3>1, <5>1, <5>2, <5>3, <5>4, <5>5, <5>6, <5>7, <5>8, <5>9 DEF Step
      <4> QED
        BY <4>1, <4>2
    <3>2. CASE LateTweet
      BY <3>2, LateTweetStep
    <3>3. CASE LateDelete
      BY <3>3, LateDeleteStep
    <3>4. CASE UNCHANGED vars
      BY <3>4, StutterStep
    <3> QED
      BY <3>1, <3>2, <3>3, <3>4 DEF Next
  <2> QED
    BY <2>2, <2>3 DEF IInv
<1> QED
  BY <1>1, <1>2, PTL DEF Spec

-----------------------------------------------------------------------------
LEMMA IInvAtMostOnce == ASSUME IInv PROVE AtMostOnce
<1> USE DEF IInv, CallInv
<1>1. ASSUME NEW a \in 1..Len(tweets), NEW b \in 1..Len(tweets),
             tweets[a].call = tweets[b].call, tweets[a].item = tweets[b].item
      PROVE  a = b
  <2>1. PICK c \in Call : c = tweets[a].call
    <3>1. tweets[a] \in Tweet
      BY DEF TypeOK
    <3> QED
      BY <3>1 DEF Tweet
  <2>2. n(c) \in Nat
    BY DEF TypeOK, n
  <2>3. tweets[a].item \in 1..(n(c) + 1)
    BY <2>1 DEF PostedInv
  <2>4. CASE tweets[a].item <= n(c)
    BY <1>1, <2>1, <2>4 DEF PostedInv
  <2>5. CASE tweets[a].item = n(c) + 1
    BY <1>1, <2>1, <2>5 DEF DoubtInv, MadeInDoubt
  <2> QED
    BY <2>2, <2>3, <2>4, <2>5
<1>2. ASSUME NEW t \in inflight
      PROVE  /\ \A a \in 1..Len(tweets) :
                   ~ (tweets[a].call = t.call /\ tweets[a].item = t.item)
             /\ \A u \in inflight : t.call = u.call => t = u
  <2>1. PICK c \in Call : c = t.call
    BY DEF TypeOK, Tweet
  <2> QED
    BY <2>1 DEF DoubtInv, OnItsWay
<1> QED
  BY <1>1, <1>2 DEF AtMostOnce

(* A POST whose answer was lost is never sent again: no position of any    *)
(* thread is tweeted twice (twitter_client.py, request).                   *)
THEOREM NoDoubleTweet == Spec => []AtMostOnce
BY IInvAtMostOnce, Inductive, PTL

(* Whatever fails between the statements, the item rows read as published  *)
(* rows, at most one failed row, then drafts.                              *)
THEOREM AuditTrailShape == Spec => []AuditShape
<1>1. IInv => AuditShape
  <2> SUFFICES ASSUME IInv, NEW c \in Call, NEW i \in 1..Len(items[c]),
                      NEW j \in 1..Len(items[c]), i < j, items[c][j].status # "draft"
               PROVE  items[c][i].status = "published"
    BY DEF AuditShape
  <2> USE DEF IInv, CallInv
  <2>1. n(c) \in Nat /\ Len(items[c]) \in Nat
    BY DEF TypeOK, n
  <2>2. j <= n(c) + 1
    BY <2>1 DEF RowInv, Draft
  <2>3. i \in 1..n(c)
    BY <2>1, <2>2
  <2>4. items[c][i] = [status |-> "published", tweet |-> posted[c][i]]
    BY <2>3 DEF RowInv
  <2> QED
    BY <2>4
<1> QED
  BY <1>1, Inductive, PTL

(* A post that reads published is on the timeline in full, as a chain of   *)
(* replies, for good.                                                      *)
THEOREM PublishedThreadsAreLive == Spec => []PublishedIsLive
<1>1. IInv => PublishedIsLive
  <2> SUFFICES ASSUME IInv, NEW c \in Call, posts[c] = "published"
               PROVE  /\ Len(items[c]) = Size[c]
                      /\ \A i \in 1..Size[c] :
                            LET row == items[c][i] IN
                            /\ row.status = "published"
                            /\ row.tweet \in Live
                            /\ tweets[row.tweet] =
                                 [call |-> c, item |-> i,
                                  reply |-> IF i = 1 THEN NoTweet ELSE items[c][i - 1].tweet]
    BY DEF PublishedIsLive
  <2> USE DEF IInv, CallInv
  <2>1. n(c) = Size[c] /\ n(c) \in Nat /\ Len(items[c]) = n(c)
    <3>1. n(c) = Size[c]
      BY DEF StatusInv
    <3>2. n(c) \in Nat /\ Len(items[c]) \in Nat
      BY DEF TypeOK, n
    <3> QED
      BY <3>1, <3>2 DEF RowInv
  <2>2. ASSUME NEW i \in 1..n(c)
        PROVE  /\ items[c][i].status = "published"
               /\ items[c][i].tweet = posted[c][i]
    <3>1. items[c][i] = [status |-> "published", tweet |-> posted[c][i]]
      BY DEF RowInv
    <3> QED
      BY <3>1
  <2>3. ASSUME NEW i \in 1..n(c)
        PROVE  /\ posted[c][i] \in Live
               /\ tweets[posted[c][i]] =
                    [call |-> c, item |-> i,
                     reply |-> IF i = 1 THEN NoTweet ELSE posted[c][i - 1]]
    <3>1. /\ posted[c][i] \in 1..Len(tweets)
          /\ tweets[posted[c][i]] =
               [call |-> c, item |-> i,
                reply |-> IF i = 1 THEN NoTweet ELSE posted[c][i - 1]]
      BY DEF PostedInv
    <3>2. posted[c][i] \notin deleted
      BY <3>1 DEF DeleteInv
    <3> QED
      BY <3>1, <3>2 DEF Live
  <2>4. ASSUME NEW i \in 1..n(c), i # 1
        PROVE  items[c][i - 1].tweet = posted[c][i - 1]
    <3>1. i - 1 \in 1..n(c)
      BY <2>1, <2>4
    <3> QED
      BY <3>1, <2>2
  <2> QED
    BY <2>1, <2>2, <2>3, <2>4
<1> QED
  BY <1>1, Inductive, PTL

(* Wherever a call fails or dies, its item rows name every tweet it made   *)
(* but one at most.                                                        *)
THEOREM OneTweetInDoubt == Spec => []AtMostOneUnrecorded
<1>1. IInv => AtMostOneUnrecorded
  <2> SUFFICES ASSUME IInv, NEW c \in Call
               PROVE  LET missing == MadeBy(c) \ Named(c)
                          coming  == {t \in inflight : t.call = c} IN
                      \/ coming = {} /\ \A a, b \in missing : a = b
                      \/ missing = {} /\ \A t, u \in coming : t = u
    BY DEF AtMostOneUnrecorded
  <2> USE DEF IInv, CallInv
  <2> DEFINE missing == MadeBy(c) \ Named(c)
             coming  == {t \in inflight : t.call = c}
  <2>1. n(c) \in Nat /\ Len(items[c]) \in Nat /\ n(c) <= Len(items[c])
    BY DEF TypeOK, RowInv, n
  <2>2. ASSUME NEW id \in missing
        PROVE  id \in 1..Len(tweets) /\ tweets[id].call = c /\ tweets[id].item = n(c) + 1
    <3>1. id \in 1..Len(tweets) /\ tweets[id].call = c
      BY DEF MadeBy
    <3>2. /\ tweets[id].item \in 1..(n(c) + 1)
          /\ tweets[id].item <= n(c) => id = posted[c][tweets[id].item]
      BY <3>1 DEF PostedInv
    <3>3. ASSUME tweets[id].item \in 1..n(c) PROVE FALSE
      <4>1. /\ tweets[id].item \in 1..Len(items[c])
            /\ items[c][tweets[id].item] =
                 [status |-> "published", tweet |-> posted[c][tweets[id].item]]
        BY <3>3, <2>1 DEF RowInv
      <4>2. items[c][tweets[id].item].tweet = id /\ id # NoTweet
        BY <3>1, <3>2, <3>3, <4>1 DEF NoTweet
      <4> QED
        BY <4>1, <4>2 DEF Named
    <3> QED
      BY <3>1, <3>2, <3>3, <2>1
  <2>3. \A a, b \in missing : a = b
    BY <2>2 DEF DoubtInv, MadeInDoubt
  <2>4. \A t \in coming : missing = {} /\ \A u \in coming : t = u
    BY <2>2 DEF DoubtInv, OnItsWay
  <2> QED
    BY <2>3, <2>4
<1> QED
  BY <1>1, Inductive, PTL

-----------------------------------------------------------------------------
(* The rollback, with Twitter answering the DELETEs: a part of the         *)
(* inductive invariant that holds under that assumption only.  A thread is *)
(* taken down from its end, ...                                            *)
TailGone(c) ==
    \A i \in 1..n(c) : posted[c][i] \in deleted =>
        \A j \in i..n(c) : posted[c][j] \in deleted

(* ... beyond the cursor nothing is left, ...                              *)
GoneBeyondCursor(c) ==
    pc[c] = "rollback" =>
        \A i \in 1..n(c) : i > cursor[c] => posted[c][i] \in deleted

(* ... nothing at all when the loop is over and the status is written, ... *)
GoneWhenFailed(c) ==
    pc[c] \in {"fail_post", "thread_error"} \/ posts[c] = "failed" =>
        \A i \in 1..n(c) : posted[c][i] \in deleted

(* ... and a tweet that was recorded though record_item saw an error, and  *)
(* whose row fail_item did not overwrite, is that of a call whose rollback *)
(* never started.                                                          *)
NotRolledBack(c) ==
    n(c) < Len(items[c]) /\ items[c][n(c) + 1].tweet # NoTweet =>
        /\ tweets[items[c][n(c) + 1].tweet].reply = Previous(c)
        /\ \A i \in 1..n(c) : posted[c][i] \notin deleted
        /\ pc[c] \notin {"rollback", "fail_post", "thread_error"}
        /\ posts[c] # "failed"

RollbackInv(c) ==
    /\ TailGone(c)
    /\ GoneBeyondCursor(c)
    /\ GoneWhenFailed(c)
    /\ NotRolledBack(c)

TakenDown == deleting = {} /\ \A c \in Call : RollbackInv(c)

(* The tweet of each position.                                             *)
LEMMA PostedTweet ==
    ASSUME IInv, NEW c \in Call, NEW i \in 1..n(c)
    PROVE  /\ posted[c][i] \in 1..Len(tweets)
           /\ tweets[posted[c][i]].call = c
           /\ tweets[posted[c][i]].item = i
           /\ tweets[posted[c][i]].reply = IF i = 1 THEN NoTweet ELSE posted[c][i - 1]
<1>1. PostedInv(c)
  BY DEF IInv, CallInv
<1>2. /\ posted[c][i] \in 1..Len(tweets)
      /\ tweets[posted[c][i]] =
            [call |-> c, item |-> i, reply |-> IF i = 1 THEN NoTweet ELSE posted[c][i - 1]]
  BY <1>1 DEF PostedInv
<1> QED
  BY <1>2

LEMMA AnsweredDelete ==
    ASSUME "delete" \notin Faults, NEW c \in Call, Rollback(c)
    PROVE  deleted' = deleted \cup {RollbackTarget(c)} /\ deleting' = deleting
<1>1. DeleteAnswer = {"ok"} /\ Fates("ok") = {"done"}
  BY DEF DeleteAnswer, Fates
<1> QED
  BY <1>1 DEF Rollback

(* What the invariant of a call needs of a step that leaves it alone: that *)
(* its own tweets are neither changed nor deleted.                         *)
LEMMA RollbackFrame ==
    ASSUME IInv, NEW d \in Call, RollbackInv(d), Unmoved(d),
           \A id \in 1..Len(tweets) : tweets'[id] = tweets[id],
           \A id \in 1..Len(tweets) :
              tweets[id].call = d => (id \in deleted' <=> id \in deleted)
    PROVE  RollbackInv(d)'
<1> USE DEF Unmoved
<1>1. n(d)' = n(d) /\ n(d) \in Nat /\ Previous(d)' = Previous(d)
  BY DEF IInv, TypeOK, n, Previous
<1>2. \A i \in 1..n(d) : posted[d][i] \in deleted' <=> posted[d][i] \in deleted
  <2>1. \A i \in 1..n(d) : posted[d][i] \in 1..Len(tweets) /\ tweets[posted[d][i]].call = d
    BY PostedTweet
  <2> QED
    BY <2>1
<1>3. TailGone(d)'
  <2> SUFFICES ASSUME NEW i \in 1..n(d), posted[d][i] \in deleted', NEW j \in i..n(d)
               PROVE  posted[d][j] \in deleted'
    BY <1>1 DEF TailGone
  <2>1. j \in 1..n(d)
    BY <1>1
  <2> QED
    BY <2>1, <1>2 DEF RollbackInv, TailGone
<1>4. GoneBeyondCursor(d)'
  BY <1>1, <1>2 DEF RollbackInv, GoneBeyondCursor
<1>5. GoneWhenFailed(d)'
  BY <1>1, <1>2 DEF RollbackInv, GoneWhenFailed
<1>6. NotRolledBack(d)'
  <2> SUFFICES ASSUME n(d) < Len(items[d]), items[d][n(d) + 1].tweet # NoTweet
               PROVE  /\ tweets'[items[d][n(d) + 1].tweet].reply = Previous(d)
                      /\ \A i \in 1..n(d) : posted[d][i] \notin deleted'
                      /\ pc[d] \notin {"rollback", "fail_post", "thread_error"}
                      /\ posts[d] # "failed"
    BY <1>1 DEF NotRolledBack
  <2>1. items[d][n(d) + 1].tweet \in 1..Len(tweets)
    BY DEF IInv, CallInv, RowInv, Draft, Failed
  <2> QED
    BY <2>1, <1>2 DEF RollbackInv, NotRolledBack
<1> QED
  BY <1>3, <1>4, <1>5, <1>6 DEF RollbackInv

(* Before its rollback a call has lost none of its posted tweets.          *)
LEMMA NothingGone ==
    ASSUME IInv, NEW c \in Call, pc[c] \notin {"rollback", "fail_post"}, pc[c] \in Await
    PROVE  \A i \in 1..n(c) : posted[c][i] \notin deleted
<1>1. \A i \in 1..n(c) : posted[c][i] \in 1..Len(tweets) /\ tweets[posted[c][i]].call = c
  BY PostedTweet
<1> QED
  BY <1>1 DEF IInv, CallInv, DeleteInv, Await, Opening, Posting

(* A step of a call that posts and deletes nothing, begins no rollback and *)
(* puts no tweet in the row in doubt.                                      *)
LEMMA QuietStep ==
    ASSUME IInv, NEW c \in Call, RollbackInv(c),
           posted'[c] = posted[c], deleted' = deleted,
           \A id \in 1..Len(tweets) : tweets'[id] = tweets[id],
           pc'[c] \notin {"rollback", "fail_post", "thread_error"},
           posts'[c] = "failed" => posts[c] = "failed",
           n(c) < Len(items'[c]) =>
              \/ items'[c][n(c) + 1].tweet = NoTweet
              \/ n(c) < Len(items[c]) /\ items'[c][n(c) + 1] = items[c][n(c) + 1]
    PROVE  RollbackInv(c)'
<1>1. n(c)' = n(c) /\ n(c) \in Nat /\ Previous(c)' = Previous(c)
  BY DEF IInv, TypeOK, n, Previous
<1>2. TailGone(c)' /\ GoneBeyondCursor(c)' /\ GoneWhenFailed(c)'
  BY <1>1 DEF RollbackInv, TailGone, GoneBeyondCursor, GoneWhenFailed
<1>3. NotRolledBack(c)'
  <2> SUFFICES ASSUME n(c) < Len(items'[c]), items'[c][n(c) + 1].tweet # NoTweet
               PROVE  /\ tweets'[items'[c][n(c) + 1].tweet].reply = Previous(c)
                      /\ \A i \in 1..n(c) : posted[c][i] \notin deleted
                      /\ posts'[c] # "failed"
    BY <1>1 DEF NotRolledBack, NoTweet
  <2>1. n(c) < Len(items[c]) /\ items'[c][n(c) + 1] = items[c][n(c) + 1]
    OBVIOUS
  <2>2. items[c][n(c) + 1].tweet \in 1..Len(tweets)
    BY <2>1 DEF IInv, CallInv, RowInv, Draft, Failed
  <2> QED
    BY <2>1, <2>2 DEF RollbackInv, NotRolledBack
<1> QED
  BY <1>2, <1>3 DEF RollbackInv

LEMMA OpeningRollback ==
    ASSUME IInv, NEW c \in Call, RollbackInv(c), CreatePost(c) \/ CreateItem(c)
    PROVE  RollbackInv(c)'
<1> USE DEF IInv
<1>1. /\ pc[c] \in Opening
      /\ pc'[c] \in {"create_items", "send", "raised"}
      /\ posts'[c] \in {posts[c], "publishing", NoRow}
      /\ items'[c] = items[c] \/ items'[c] = Append(items[c], Draft)
      /\ UNCHANGED <<tweets, deleted, posted>>
  BY DEF CreatePost, CreatePostRow, CreateItem, CreatePostItem, Goto, TypeOK, Opening, Draft,
         twitter, locals
<1>2. n(c) = 0 /\ items[c] \in Seq(ItemRow) /\ Len(items[c]) \in Nat
  BY <1>1 DEF CallInv, LocalInv, TypeOK, n
<1>3. \A i \in 1..Len(items[c]) : items[c][i] = Draft
  BY <1>1, <1>2 DEF CallInv, RowInv, Opening
<1>4. \A i \in 1..Len(items'[c]) : items'[c][i] = Draft
  BY <1>1, <1>2, <1>3
<1>5. Len(items'[c]) \in Nat
  BY <1>1, <1>2
<1>6. 0 < Len(items'[c]) => items'[c][1].tweet = NoTweet
  BY <1>4, <1>5 DEF Draft
<1> QED
  BY <1>1, <1>2, <1>6, QuietStep DEF NoRow

LEMMA SendRollback ==
    ASSUME IInv, NEW c \in Call, RollbackInv(c), Send(c)
    PROVE  RollbackInv(c)'
<1> USE DEF IInv
<1>1. attempt[c] = 1
  BY DEF CallInv, LocalInv
<1>2. \A answer \in Answer : Outcome(answer, attempt[c], FALSE) # "retry"
  <2> SUFFICES ASSUME NEW answer \in Answer
               PROVE  Outcome(answer, 1, FALSE) # "retry"
    BY <1>1
  <2>1. 1 \in Nat \ {0}
    OBVIOUS
  <2> QED
    BY <2>1, NoRetry
<1>3. NextTweet(c) \in Tweet /\ tweets \in Seq(Tweet) /\ Len(tweets) \in Nat
  BY DEF NextTweet, Tweet, Previous, NoTweet, TypeOK
<1>4. /\ pc'[c] \in {"record", "fail_item"}
      /\ tweets' = tweets \/ tweets' = Append(tweets, NextTweet(c))
      /\ UNCHANGED <<posts, items, deleted, posted>>
  BY <1>2 DEF Send, Goto, TypeOK, rows
<1>5. \A id \in 1..Len(tweets) : tweets'[id] = tweets[id]
  BY <1>3, <1>4
<1> QED
  BY <1>4, <1>5, QuietStep

LEMMA EndingRollback ==
    ASSUME IInv, NEW c \in Call, RollbackInv(c), PublishPost(c) \/ Crash(c)
    PROVE  RollbackInv(c)'
<1>1. /\ pc'[c] \in {"returned", "raised", "crashed"}
      /\ posts'[c] \in {posts[c], "published"}
      /\ UNCHANGED <<items, tweets, deleted, posted>>
  BY DEF IInv, TypeOK, PublishPost, UpdatePostStatus, Crash, Goto, rows, twitter, locals
<1> QED
  BY <1>1, QuietStep

LEMMA RecordItemRollback ==
    ASSUME IInv, NEW c \in Call, RollbackInv(c), RecordItem(c)
    PROVE  RollbackInv(c)'
<1> USE DEF IInv
<1> DEFINE Row == [status |-> "published", tweet |-> tweet_id[c]]
<1>1. PICK db \in DbOutcome, next \in {"fail_item", "send", "publish_post", "raised"} :
        Recorded(c, db, next)
  BY RecordItemEnds
<1>2. /\ pc[c] = "record"
      /\ UNCHANGED <<posts, tweets, deleted>>
  BY DEF RecordItem, twitter
<1>3. /\ posted[c] \in Seq(Nat) /\ items[c] \in Seq(ItemRow)
      /\ n(c) \in Nat /\ Len(items[c]) \in Nat /\ tweet_id[c] \in Nat
      /\ index[c] = n(c) + 1 /\ n(c) < Len(items[c])
  <2>1. index[c] = n(c) + 1 /\ n(c) < Size[c] /\ Len(items[c]) = Size[c]
    BY <1>2 DEF CallInv, LocalInv, Posting
  <2> QED
    BY <2>1 DEF TypeOK, n
<1>4. /\ tweet_id[c] \in 1..Len(tweets)
      /\ tweets[tweet_id[c]].call = c
      /\ tweets[tweet_id[c]].reply = Previous(c)
  <2>1. tweet_id[c] \in 1..Len(tweets) /\ tweets[tweet_id[c]] = NextTweet(c)
    BY <1>2 DEF CallInv, DoubtInv, ToRecord
  <2> QED
    BY <2>1 DEF NextTweet
<1>5. tweet_id[c] \notin deleted /\ \A i \in 1..n(c) : posted[c][i] \notin deleted
  BY <1>2, <1>4, NothingGone DEF CallInv, DeleteInv, Posting, Await
<1>6. posts'[c] = "publishing" /\ pc'[c] \in {"fail_item", "send", "publish_post", "raised"}
  BY <1>1, <1>2 DEF Recorded, CallInv, StatusInv, Await, Goto, TypeOK
<1>7. CASE db # "ok"
  <2>1. posted'[c] = posted[c] /\ n(c)' = n(c) /\ Previous(c)' = Previous(c)
    BY <1>1, <1>7 DEF Recorded, TypeOK, n, Previous
  <2>2. items'[c] = items[c] \/ items'[c] = [items[c] EXCEPT ![n(c) + 1] = Row]
    BY <1>1, <1>3 DEF Recorded, UpdateItemResult, TypeOK
  <2>3. items[c][n(c) + 1].tweet = NoTweet
    BY <1>2, <1>3 DEF CallInv, RowInv, Opening, Posting, Draft
  <2>4. items'[c][n(c) + 1].tweet \in {NoTweet, tweet_id[c]}
    BY <1>3, <2>2, <2>3
  <2>5. NotRolledBack(c)'
    BY <2>1, <2>4, <1>2, <1>4, <1>5, <1>6 DEF NotRolledBack
  <2>6. TailGone(c)' /\ GoneBeyondCursor(c)' /\ GoneWhenFailed(c)'
    BY <2>1, <1>2, <1>5, <1>6 DEF TailGone, GoneBeyondCursor, GoneWhenFailed
  <2> QED
    BY <2>5, <2>6 DEF RollbackInv
<1>8. CASE db = "ok"
  <2>1. /\ n(c)' = n(c) + 1
        /\ posted'[c][n(c) + 1] = tweet_id[c]
        /\ \A i \in 1..n(c) : posted'[c][i] = posted[c][i]
    BY <1>1, <1>3, <1>8 DEF Recorded, TypeOK, n
  <2>2. \A i \in 1..(n(c) + 1) : posted'[c][i] \notin deleted
    BY <2>1, <1>3, <1>5
  <2>3. TailGone(c)' /\ GoneBeyondCursor(c)' /\ GoneWhenFailed(c)'
    BY <2>1, <2>2, <1>2, <1>6 DEF TailGone, GoneBeyondCursor, GoneWhenFailed
  <2>4. items'[c] = items[c] \/ items'[c] = [items[c] EXCEPT ![n(c) + 1] = Row]
    BY <1>1, <1>3 DEF Recorded, UpdateItemResult, TypeOK
  <2>5. Len(items'[c]) = Len(items[c])
    BY <1>3, <2>4
  <2>6. n(c) + 2 <= Len(items[c]) => items'[c][n(c) + 2] = Draft
    <3>1. n(c) + 2 <= Len(items[c]) => items[c][n(c) + 2] = Draft
      BY <1>3 DEF CallInv, RowInv
    <3> QED
      BY <1>3, <2>4, <3>1
  <2>7. n(c)' < Len(items'[c]) => items'[c][n(c)' + 1].tweet = NoTweet
    <3>1. n(c)' < Len(items'[c]) => n(c) + 2 <= Len(items[c])
      BY <1>3, <2>1, <2>5
    <3>2. n(c)' + 1 = n(c) + 2
      BY <1>3, <2>1
    <3> QED
      BY <2>6, <3>1, <3>2 DEF Draft
  <2> QED
    BY <2>3, <2>7 DEF RollbackInv, NotRolledBack, NoTweet
<1> QED
  BY <1>7, <1>8

LEMMA FailItemRollback ==
    ASSUME IInv, NEW c \in Call, RollbackInv(c), FailItem(c)
    PROVE  RollbackInv(c)'
<1> USE DEF IInv
<1>1. PICK db \in DbOutcome :
        /\ items' = [items EXCEPT ![c] =
                       UpdateItemResult(@, FailedIndex(c), "failed", NoTweet, db)]
        /\ Goto(c, AfterFailItem(c, db))
  BY DEF FailItem
<1>2. /\ pc[c] = "fail_item"
      /\ cursor' = [cursor EXCEPT ![c] = Len(posted[c])]
      /\ UNCHANGED <<posts, tweets, deleted, posted>>
  BY DEF FailItem, twitter
<1>3. /\ items[c] \in Seq(ItemRow) /\ n(c) \in Nat /\ n(c)' = n(c)
      /\ cursor'[c] = n(c) /\ n(c) < Len(items[c])
  <2>1. n(c) < Size[c] /\ Len(items[c]) = Size[c]
    BY <1>2 DEF CallInv, LocalInv, Failing
  <2>2. n(c)' = n(c)
    BY <1>2 DEF n
  <2> QED
    BY <1>2, <2>1, <2>2 DEF TypeOK, n
<1>4. items'[c] = items[c] \/ items'[c] = [items[c] EXCEPT ![n(c) + 1] = Failed]
  BY <1>1 DEF UpdateItemResult, FailedIndex, Failed, TypeOK, n
<1>5. items'[c][n(c) + 1] = items[c][n(c) + 1] \/ items'[c][n(c) + 1] = Failed
  BY <1>3, <1>4
<1>6. CASE db # "ok"
  <2>1. pc'[c] = "raised"
    BY <1>1, <1>6 DEF Goto, AfterFailItem, TypeOK
  <2> QED
    BY <2>1, <1>2, <1>3, <1>5, QuietStep DEF Failed
<1>7. CASE db = "ok"
  <2>1. items'[c][n(c) + 1].tweet = NoTweet
    <3>1. items'[c] = [items[c] EXCEPT ![n(c) + 1] = Failed]
      BY <1>1, <1>7 DEF UpdateItemResult, Committed, FailedIndex, Failed, TypeOK, n
    <3> QED
      BY <3>1, <1>3 DEF Failed
  <2>2. /\ pc'[c] \in {"fail_post", "rollback"}
        /\ pc'[c] = "fail_post" => n(c) = 0
    BY <1>1, <1>7 DEF Goto, AfterFailItem, TypeOK, n
  <2>3. \A i \in 1..n(c) : posted[c][i] \notin deleted
    BY <1>2, NothingGone DEF Await
  <2>4. posts'[c] = "publishing"
    BY <1>2 DEF CallInv, StatusInv, Await
  <2>5. TailGone(c)' /\ GoneBeyondCursor(c)' /\ GoneWhenFailed(c)'
    BY <2>2, <2>3, <2>4, <1>2, <1>3 DEF TailGone, GoneBeyondCursor, GoneWhenFailed
  <2> QED
    BY <2>1, <2>5, <1>3 DEF RollbackInv, NotRolledBack, NoTweet
<1> QED
  BY <1>6, <1>7

LEMMA DeleteRollback ==
    ASSUME IInv, "delete" \notin Faults, NEW c \in Call, RollbackInv(c), Rollback(c)
    PROVE  RollbackInv(c)'
<1>1. /\ deleted' = deleted \cup {posted[c][cursor[c]]}
      /\ pc[c] = "rollback"
      /\ cursor'[c] = cursor[c] - 1
      /\ pc'[c] = IF cursor[c] > 1 THEN "rollback" ELSE "fail_post"
      /\ UNCHANGED <<posts, items, tweets, posted>>
  BY AnsweredDelete DEF IInv, TypeOK, Rollback, RollbackTarget, Goto, rows
<1>2. /\ n(c)' = n(c) /\ n(c) \in Nat
      /\ cursor[c] \in 1..n(c)
      /\ posts[c] = "publishing"
  BY <1>1 DEF IInv, TypeOK, CallInv, LocalInv, StatusInv, Await, n
<1>3. \A i \in 1..n(c) : i >= cursor[c] => posted[c][i] \in deleted'
  BY <1>1, <1>2 DEF RollbackInv, GoneBeyondCursor
<1>4. \A i \in 1..n(c) : i < cursor[c] => posted[c][i] # posted[c][cursor[c]]
  <2> SUFFICES ASSUME NEW i \in 1..n(c), i < cursor[c]
               PROVE  posted[c][i] # posted[c][cursor[c]]
    OBVIOUS
  <2>1. tweets[posted[c][i]].item = i /\ tweets[posted[c][cursor[c]]].item = cursor[c]
    BY <1>2, PostedTweet
  <2>2. i # cursor[c]
    BY <1>2
  <2> QED
    BY <2>1, <2>2
<1>5. TailGone(c)'
  <2> SUFFICES ASSUME NEW i \in 1..n(c), posted[c][i] \in deleted', NEW j \in i..n(c)
               PROVE  posted[c][j] \in deleted'
    BY <1>1, <1>2 DEF TailGone
  <2>1. j \in 1..n(c) /\ i <= j
    BY <1>2
  <2>2. CASE i >= cursor[c]
    BY <2>1, <2>2, <1>2, <1>3
  <2>3. CASE i < cursor[c]
    BY <2>3, <1>1, <1>4 DEF RollbackInv, TailGone
  <2> QED
    BY <2>2, <2>3, <1>2
<1>6. GoneBeyondCursor(c)' /\ GoneWhenFailed(c)'
  BY <1>1, <1>2, <1>3 DEF GoneBeyondCursor, GoneWhenFailed
<1>7. NotRolledBack(c)'
  BY <1>1, <1>2 DEF RollbackInv, NotRolledBack, NoTweet
<1> QED
  BY <1>5, <1>6, <1>7 DEF RollbackInv

LEMMA FailPostRollback ==
    ASSUME IInv, NEW c \in Call, RollbackInv(c), FailPost(c)
    PROVE  RollbackInv(c)'
<1>1. /\ pc[c] = "fail_post"
      /\ pc'[c] \in {"thread_error", "raised"}
      /\ UNCHANGED <<items, tweets, deleted, posted, cursor>>
  BY DEF IInv, TypeOK, FailPost, Goto, twitter, locals
<1>2. n(c)' = n(c)
  BY <1>1 DEF n
<1> QED
  BY <1>1, <1>2 DEF RollbackInv, TailGone, GoneBeyondCursor, GoneWhenFailed, NotRolledBack,
                    NoTweet

(* What a call deletes is its own, so the others keep what they had.       *)
LEMMA OthersRollback ==
    ASSUME IInv, "delete" \notin Faults, NEW c \in Call, Step(c) \/ Crash(c),
           NEW d \in Call, d # c, RollbackInv(d)
    PROVE  RollbackInv(d)'
<1> USE DEF IInv
<1>1. Unmoved(d)
  BY OthersUnmoved
<1>2. \A id \in 1..Len(tweets) : tweets'[id] = tweets[id]
  <2>1. NextTweet(c) \in Tweet /\ tweets \in Seq(Tweet) /\ Len(tweets) \in Nat
    BY DEF NextTweet, Tweet, Previous, NoTweet, TypeOK
  <2>2. tweets' = tweets \/ tweets' = Append(tweets, NextTweet(c))
    BY DEF Step, CreatePost, CreateItem, Send, RecordItem, FailItem, Rollback, FailPost,
           PublishPost, Crash, rows, twitter
  <2> QED
    BY <2>1, <2>2
<1>3. \A id \in 1..Len(tweets) : tweets[id].call = d => (id \in deleted' <=> id \in deleted)
  <2>1. CASE Rollback(c)
    BY <2>1, AnsweredDelete, TargetIsPosted
  <2>2. CASE deleted' = deleted
    BY <2>2
  <2> QED
    BY <2>1, <2>2 DEF Step, CreatePost, CreateItem, Send, RecordItem, FailItem, FailPost,
                      PublishPost, Crash, twitter
<1> QED
  BY <1>1, <1>2, <1>3, RollbackFrame

(* With Twitter answering the DELETEs, the part is inductive too.          *)
THEOREM RollbackInductive ==
    ASSUME "delete" \notin Faults
    PROVE  Spec => []TakenDown
<1>1. Init => TakenDown
  <2> SUFFICES ASSUME Init PROVE TakenDown
    OBVIOUS
  <2>1. ASSUME NEW c \in Call PROVE n(c) = 0 /\ Len(items[c]) = 0
    BY DEF Init, n
  <2> QED
    BY <2>1 DEF Init, TakenDown, RollbackInv, TailGone, GoneBeyondCursor, GoneWhenFailed,
                NotRolledBack, NoRow
<1>2. IInv /\ TakenDown /\ [Next]_vars => TakenDown'
  <2> SUFFICES ASSUME IInv, TakenDown, [Next]_vars PROVE TakenDown'
    OBVIOUS
  <2>1. deleting' = {}
    <3>1. ASSUME NEW c \in Call, Step(c) \/ Crash(c) PROVE deleting' = deleting
      BY <3>1, AnsweredDelete
         DEF Step, CreatePost, CreateItem, Send, RecordItem, FailItem, FailPost, PublishPost,
             Crash, twitter
    <3> QED
      BY <3>1 DEF TakenDown, Next, LateTweet, LateDelete, vars, twitter
  <2>2. ASSUME NEW d \in Call PROVE RollbackInv(d)'
    <3>1. RollbackInv(d)
      BY DEF TakenDown
    <3>2. ASSUME NEW c \in Call, Step(c) \/ Crash(c) PROVE RollbackInv(d)'
      <4>1. CASE d # c
        BY <3>1, <3>2, <4>1, OthersRollback
      <4>2. CASE d = c
        BY <3>1, <3>2, <4>2, OpeningRollback, SendRollback, RecordItemRollback,
           FailItemRollback, DeleteRollback, FailPostRollback, EndingRollback DEF Step
      <4> QED
        BY <4>1, <4>2
    <3>3. CASE LateTweet \/ UNCHANGED vars
      <4>1. Unmoved(d) /\ deleted' = deleted
        BY <3>3 DEF LateTweet, Unmoved, vars, rows, twitter, locals
      <4>2. \A id \in 1..Len(tweets) : tweets'[id] = tweets[id]
        <5>1. tweets \in Seq(Tweet) /\ inflight \subseteq Tweet /\ Len(tweets) \in Nat
          BY DEF IInv, TypeOK
        <5>2. tweets' = tweets \/ \E tweet \in Tweet : tweets' = Append(tweets, tweet)
          BY <3>3, <5>1 DEF LateTweet, vars, twitter
        <5> QED
          BY <5>1, <5>2
      <4> QED
        BY <3>1, <4>1, <4>2, RollbackFrame
    <3>4. ~ LateDelete
      BY DEF LateDelete, TakenDown
    <3> QED
      BY <3>2, <3>3, <3>4 DEF Next
  <2> QED
    BY <2>1, <2>2 DEF TakenDown
<1> QED
  BY <1>1, <1>2, Inductive, PTL DEF Spec

(* The tweets that a call's rows name: the posted ones, and perhaps the    *)
(* one in doubt.                                                           *)
LEMMA NamedTweet ==
    ASSUME IInv, NEW c \in Call, NEW id \in Named(c)
    PROVE  \/ \E i \in 1..n(c) : id = posted[c][i]
           \/ /\ n(c) < Len(items[c])
              /\ items[c][n(c) + 1].tweet = id
              /\ id # NoTweet
<1>1. PICK i \in 1..Len(items[c]) : items[c][i].tweet = id /\ id # NoTweet
  BY DEF Named
<1>2. n(c) \in Nat /\ Len(items[c]) \in Nat
  BY DEF IInv, TypeOK, n
<1>3. CASE i \in 1..n(c)
  <2>1. items[c][i] = [status |-> "published", tweet |-> posted[c][i]]
    BY <1>3 DEF IInv, CallInv, RowInv
  <2> QED
    BY <1>1, <1>3, <2>1
<1>4. CASE i = n(c) + 1
  BY <1>1, <1>2, <1>4
<1>5. CASE i > n(c) + 1
  <2>1. items[c][i] = Draft
    BY <1>5 DEF IInv, CallInv, RowInv
  <2> QED
    BY <1>1, <2>1 DEF Draft
<1> QED
  BY <1>2, <1>3, <1>4, <1>5

(* A post that reads failed has been rolled back: none of the tweets its   *)
(* rows name is live, when Twitter answers the DELETEs.                    *)
THEOREM FailedThreadsAreGone == Spec => []FailedIsGone
<1>1. ASSUME "delete" \notin Faults, IInv, TakenDown PROVE FailedIsGone
  <2> SUFFICES ASSUME NEW c \in Call, posts[c] = "failed", NEW id \in Named(c)
               PROVE  id \in deleted
    BY DEF FailedIsGone, Live
  <2> QED
    BY <1>1, NamedTweet DEF TakenDown, RollbackInv, GoneWhenFailed, NotRolledBack
<1>2. CASE "delete" \notin Faults
  <2>1. Spec => []TakenDown
    BY <1>2, RollbackInductive
  <2>2. IInv /\ TakenDown => FailedIsGone
    BY <1>1, <1>2
  <2> QED
    BY <2>1, <2>2, Inductive, PTL
<1>3. CASE "delete" \in Faults
  <2>1. FailedIsGone
    BY <1>3 DEF FailedIsGone
  <2> QED
    BY <2>1, PTL
<1> QED
  BY <1>2, <1>3

(* A rolled-back thread is taken down from its end: no recorded tweet is   *)
(* ever a live reply to a deleted one, when Twitter answers the DELETEs.   *)
THEOREM NoReplyOutlivesItsParent == Spec => []NoLiveReplyToDeleted
<1>1. ASSUME "delete" \notin Faults, IInv, TakenDown PROVE NoLiveReplyToDeleted
  <2> SUFFICES ASSUME NEW c \in Call, NEW id \in Named(c) \cap Live,
                      tweets[id].reply # NoTweet
               PROVE  tweets[id].reply \in Live
    BY DEF NoLiveReplyToDeleted
  <2>1. RollbackInv(c) /\ id \notin deleted /\ n(c) \in Nat
    BY <1>1 DEF TakenDown, Live, IInv, TypeOK, n
  <2>2. ASSUME NEW i \in 1..n(c), id = posted[c][i] PROVE tweets[id].reply \in Live
    <3>1. i # 1 /\ tweets[id].reply = posted[c][i - 1]
      BY <1>1, <2>2, PostedTweet
    <3>2. i - 1 \in 1..n(c) /\ i \in (i - 1)..n(c)
      BY <2>1, <3>1
    <3>3. posted[c][i - 1] \in 1..Len(tweets)
      BY <1>1, <3>2, PostedTweet
    <3>4. posted[c][i - 1] \notin deleted
      BY <2>1, <2>2, <3>2 DEF RollbackInv, TailGone
    <3> QED
      BY <3>1, <3>3, <3>4 DEF Live
  <2>3. CASE /\ n(c) < Len(items[c])
             /\ items[c][n(c) + 1].tweet = id
             /\ id # NoTweet
    <3>1. /\ tweets[id].reply = Previous(c)
          /\ \A i \in 1..n(c) : posted[c][i] \notin deleted
      BY <2>1, <2>3 DEF RollbackInv, NotRolledBack
    <3>2. n(c) # 0 /\ Previous(c) = posted[c][n(c)]
      BY <1>1, <3>1 DEF Previous, n, IInv, TypeOK
    <3>3. n(c) \in 1..n(c)
      BY <2>1, <3>2
    <3>4. posted[c][n(c)] \in 1..Len(tweets)
      BY <1>1, <3>3, PostedTweet
    <3> QED
      BY <3>1, <3>2, <3>3, <3>4 DEF Live
  <2> QED
    BY <1>1, <2>2, <2>3, NamedTweet
<1>2. CASE "delete" \notin Faults
  <2>1. Spec => []TakenDown
    BY <1>2, RollbackInductive
  <2>2. IInv /\ TakenDown => NoLiveReplyToDeleted
    BY <1>1, <1>2
  <2> QED
    BY <2>1, <2>2, Inductive, PTL
<1>3. CASE "delete" \in Faults
  <2>1. NoLiveReplyToDeleted
    BY <1>3 DEF NoLiveReplyToDeleted
  <2> QED
    BY <2>1, PTL
<1> QED
  BY <1>2, <1>3

-----------------------------------------------------------------------------
(* Termination, as far as it is a matter of single steps.                  *)
LEMMA MostCallsAt ==
    ASSUME NEW await, NEW size, NEW made, NEW written, NEW place
    PROVE  LET most == MostCalls(await, size, made, written, place) IN
           /\ await = "create_post"  => most = 4 * size + 2
           /\ await = "create_items" => most = (size - written) + 3 * size + 1
           /\ await = "send"         => most = 2 * (size - made) + size + 1
           /\ await = "record"       => most = 2 * (size - made) + size
           /\ await = "fail_item"    => most = made + 2
           /\ await = "rollback"     => most = place + 1
           /\ await = "fail_post"    => most = 1
           /\ await = "publish_post" => most = 1
           /\ await \in Ended        => most = 0
BY DEF MostCalls, Ended

(* The budget of a call, by its await.                                     *)
LEMMA BudgetAt ==
    ASSUME NEW c \in Call
    PROVE  /\ pc[c] = "create_post"  => Budget(c) = 4 * Size[c] + 2
           /\ pc[c] = "create_items" => Budget(c) = (Size[c] - Len(items[c])) + 3 * Size[c] + 1
           /\ pc[c] = "send"         => Budget(c) = 2 * (Size[c] - n(c)) + Size[c] + 1
           /\ pc[c] = "record"       => Budget(c) = 2 * (Size[c] - n(c)) + Size[c]
           /\ pc[c] = "fail_item"    => Budget(c) = n(c) + 2
           /\ pc[c] = "rollback"     => Budget(c) = cursor[c] + 1
           /\ pc[c] = "fail_post"    => Budget(c) = 1
           /\ pc[c] = "publish_post" => Budget(c) = 1
           /\ pc[c] \in Ended        => Budget(c) = 0
<1>1. Budget(c) = MostCalls(pc[c], Size[c], n(c), Len(items[c]), cursor[c])
  BY DEF Budget, n
<1> QED
  BY <1>1, MostCallsAt

LEMMA BudgetThen ==
    ASSUME NEW c \in Call
    PROVE  /\ pc'[c] = "create_items" => Budget(c)' = (Size[c] - Len(items'[c])) + 3 * Size[c] + 1
           /\ pc'[c] = "send"         => Budget(c)' = 2 * (Size[c] - n(c)') + Size[c] + 1
           /\ pc'[c] = "record"       => Budget(c)' = 2 * (Size[c] - n(c)') + Size[c]
           /\ pc'[c] = "fail_item"    => Budget(c)' = n(c)' + 2
           /\ pc'[c] = "rollback"     => Budget(c)' = cursor'[c] + 1
           /\ pc'[c] = "fail_post"    => Budget(c)' = 1
           /\ pc'[c] = "publish_post" => Budget(c)' = 1
           /\ pc'[c] \in Ended        => Budget(c)' = 0
<1>1. Budget(c)' = MostCalls(pc'[c], Size[c], n(c)', Len(items'[c]), cursor'[c])
  BY DEF Budget, n
<1> QED
  BY <1>1, MostCallsAt

LEMMA StepCounts ==
    ASSUME IInv, NEW c \in Call, Step(c)
    PROVE  Budget(c)' \in 0..(Budget(c) - 1)
<1>1. /\ Size[c] \in Nat /\ Size[c] >= 2
      /\ n(c) \in Nat /\ Len(items[c]) \in Nat /\ cursor[c] \in Nat
      /\ CallInv(c)
  BY SizeAssumption DEF IInv, TypeOK, n
<1>2. LocalInv(c)
  BY <1>1 DEF CallInv
<1>3. CASE CreatePost(c)
  <2>1. pc[c] = "create_post" /\ pc'[c] \in {"create_items", "raised"} /\ items' = items
    BY <1>3 DEF CreatePost, Goto, IInv, TypeOK
  <2>2. Len(items[c]) = 0
    BY <1>2, <2>1 DEF LocalInv
  <2> QED
    BY <1>1, <2>1, <2>2, BudgetAt, BudgetThen DEF Ended
<1>4. CASE CreateItem(c)
  <2>1. PICK db \in DbOutcome :
          /\ items' = [items EXCEPT ![c] = CreatePostItem(@, "draft", db)]
          /\ Goto(c, IF db # "ok" THEN "raised"
                     ELSE IF Len(items[c]) + 1 < Size[c] THEN "create_items"
                     ELSE "send")
    BY <1>4 DEF CreateItem
  <2>2. /\ pc[c] = "create_items" /\ Len(items[c]) < Size[c]
        /\ posted'[c] = posted[c] /\ n(c) = 0 /\ n(c)' = 0
    BY <1>2, <1>4 DEF CreateItem, LocalInv, Opening, locals, n
  <2>3. CASE db # "ok"
    <3>1. pc'[c] = "raised"
      BY <2>1, <2>3 DEF Goto, IInv, TypeOK
    <3> QED
      BY <1>1, <2>2, <3>1, BudgetAt, BudgetThen DEF Ended
  <2>4. CASE db = "ok"
    <3>1. Len(items'[c]) = Len(items[c]) + 1
      BY <2>1, <2>4 DEF CreatePostItem, Committed, IInv, TypeOK
    <3>2. pc'[c] = IF Len(items[c]) + 1 < Size[c] THEN "create_items" ELSE "send"
      BY <2>1, <2>4 DEF Goto, IInv, TypeOK
    <3>3. Budget(c) = (Size[c] - Len(items[c])) + 3 * Size[c] + 1
      BY <2>2, BudgetAt
    <3>4. CASE Len(items[c]) + 1 < Size[c]
      <4>1. Budget(c)' = (Size[c] - (Len(items[c]) + 1)) + 3 * Size[c] + 1
        BY <3>1, <3>2, <3>4, BudgetThen
      <4> QED
        BY <1>1, <3>3, <3>4, <4>1
    <3>5. CASE ~ (Len(items[c]) + 1 < Size[c])
      <4>1. Budget(c)' = 2 * (Size[c] - 0) + Size[c] + 1
        BY <2>2, <3>2, <3>5, BudgetThen
      <4> QED
        BY <1>1, <2>2, <3>3, <4>1
    <3> QED
      BY <3>4, <3>5
  <2> QED
    BY <2>3, <2>4
<1>5. CASE Send(c)
  <2>1. pc[c] = "send" /\ n(c) < Size[c] /\ attempt[c] = 1
    BY <1>2, <1>5 DEF Send, LocalInv, Posting
  <2>2. \A answer \in Answer : Outcome(answer, attempt[c], FALSE) # "retry"
    <3>1. attempt[c] \in Nat \ {0}
      BY <2>1
    <3> QED
      BY <3>1, NoRetry
  <2>3. PICK answer \in Answer :
          Goto(c, IF Outcome(answer, attempt[c], FALSE) = "retry" THEN "send"
                  ELSE IF Accepted(answer) THEN "record"
                  ELSE "fail_item")
    BY <1>5 DEF Send
  <2>4. pc'[c] \in {"record", "fail_item"}
    BY <2>2, <2>3 DEF Goto, IInv, TypeOK
  <2>5. n(c)' = n(c)
    BY <1>5 DEF Send, n
  <2> QED
    BY <1>1, <2>1, <2>4, <2>5, BudgetAt, BudgetThen
<1>6. CASE RecordItem(c)
  <2>1. pc[c] = "record" /\ n(c) < Size[c] /\ index[c] = n(c) + 1
    BY <1>2, <1>6 DEF RecordItem, LocalInv, Posting
  <2>2. PICK db \in DbOutcome, next \in {"fail_item", "send", "publish_post", "raised"} :
          Recorded(c, db, next)
    BY <1>6, RecordItemEnds DEF IInv
  <2>3. CASE db # "ok"
    <3>1. pc'[c] = "fail_item" /\ n(c)' = n(c)
      BY <2>2, <2>3 DEF Recorded, Goto, n, IInv, TypeOK
    <3> QED
      BY <1>1, <2>1, <3>1, BudgetAt, BudgetThen
  <2>4. CASE db = "ok"
    <3>1. n(c)' = n(c) + 1
      BY <2>2, <2>4 DEF Recorded, n, IInv, TypeOK
    <3>2. pc'[c] \in IF index[c] < Size[c] THEN {"send", "fail_item"}
                     ELSE {"publish_post", "raised"}
      BY <2>2, <2>4 DEF Recorded, Goto, IInv, TypeOK
    <3>3. Budget(c) = 2 * (Size[c] - n(c)) + Size[c]
      BY <2>1, BudgetAt
    <3>4. CASE pc'[c] = "send"
      <4>1. Budget(c)' = 2 * (Size[c] - (n(c) + 1)) + Size[c] + 1
        BY <3>1, <3>4, BudgetThen
      <4> QED
        BY <1>1, <2>1, <3>3, <4>1
    <3>5. CASE pc'[c] = "fail_item"
      <4>1. Budget(c)' = (n(c) + 1) + 2
        BY <3>1, <3>5, BudgetThen
      <4> QED
        BY <1>1, <2>1, <3>2, <3>3, <3>5, <4>1
    <3>6. CASE pc'[c] = "publish_post"
      BY <1>1, <2>1, <3>3, <3>6, BudgetThen
    <3>7. CASE pc'[c] = "raised"
      BY <1>1, <2>1, <3>3, <3>7, BudgetThen DEF Ended
    <3> QED
      BY <3>2, <3>4, <3>5, <3>6, <3>7
  <2> QED
    BY <2>3, <2>4
<1>7. CASE FailItem(c)
  <2>1. /\ pc[c] = "fail_item" /\ n(c)' = n(c) /\ cursor'[c] = n(c)
        /\ pc'[c] \in {"raised", "fail_post", "rollback"}
    BY <1>7 DEF FailItem, AfterFailItem, Goto, n, IInv, TypeOK
  <2> QED
    BY <1>1, <2>1, BudgetAt, BudgetThen DEF Ended
<1>8. CASE Rollback(c)
  <2>1. /\ pc[c] = "rollback" /\ cursor[c] >= 1 /\ cursor'[c] = cursor[c] - 1
        /\ pc'[c] = IF cursor[c] > 1 THEN "rollback" ELSE "fail_post"
    BY <1>1, <1>2, <1>8 DEF Rollback, LocalInv, Goto, IInv, TypeOK
  <2> QED
    BY <1>1, <2>1, BudgetAt, BudgetThen
<1>9. CASE FailPost(c) \/ PublishPost(c)
  <2>1. /\ pc[c] \in {"fail_post", "publish_post"}
        /\ pc'[c] \in Ended
    BY <1>9 DEF FailPost, PublishPost, Goto, Ended, IInv, TypeOK
  <2> QED
    BY <2>1, BudgetAt, BudgetThen
<1> QED
  BY <1>3, <1>4, <1>5, <1>6, <1>7, <1>8, <1>9 DEF Step

LEMMA BudgetIsNat == ASSUME IInv, NEW c \in Call PROVE Budget(c) \in Nat
<1>1. /\ Size[c] \in Nat /\ n(c) \in Nat /\ Len(items[c]) \in Nat /\ cursor[c] \in Nat
      /\ pc[c] \in Await \cup Ended /\ LocalInv(c)
  BY SizeAssumption DEF IInv, TypeOK, CallInv, n
<1>2. CASE pc[c] \in {"create_post", "create_items", "send", "record"}
  <2>1. /\ pc[c] = "create_items" => Len(items[c]) <= Size[c]
        /\ pc[c] \in {"send", "record"} => n(c) <= Size[c]
    BY <1>1 DEF LocalInv, Posting
  <2>2. CASE pc[c] = "create_post"
    <3>1. Budget(c) = 4 * Size[c] + 2
      BY <2>2, BudgetAt
    <3> QED
      BY <1>1, <3>1
  <2>3. CASE pc[c] = "create_items"
    <3>1. Budget(c) = (Size[c] - Len(items[c])) + 3 * Size[c] + 1
      BY <2>3, BudgetAt
    <3> QED
      BY <1>1, <2>1, <2>3, <3>1
  <2>4. CASE pc[c] \in {"send", "record"}
    <3>1. \/ Budget(c) = 2 * (Size[c] - n(c)) + Size[c] + 1
          \/ Budget(c) = 2 * (Size[c] - n(c)) + Size[c]
      BY <2>4, BudgetAt
    <3> QED
      BY <1>1, <2>1, <2>4, <3>1
  <2> QED
    BY <1>2, <2>2, <2>3, <2>4
<1>3. CASE pc[c] \notin {"create_post", "create_items", "send", "record"}
  BY <1>1, <1>3, BudgetAt DEF Await
<1> QED
  BY <1>2, <1>3

(* A step of another call, or a request of one that has given up on it,    *)
(* costs a call nothing; a crash ends it.                                  *)
LEMMA NoStepAdds ==
    ASSUME IInv, Next, NEW c \in Call
    PROVE  Budget(c)' \in 0..Budget(c)
<1>1. Budget(c) \in Nat
  BY BudgetIsNat
<1>2. CASE Step(c)
  BY <1>1, <1>2, StepCounts
<1>3. CASE Crash(c)
  <2>1. pc'[c] = "crashed"
    BY <1>3 DEF Crash, Goto, IInv, TypeOK
  <2> QED
    BY <1>1, <2>1, BudgetThen DEF Ended
<1>4. CASE Unmoved(c)
  <2>1. Budget(c)' = Budget(c)
    BY <1>4 DEF Unmoved, Budget
  <2> QED
    BY <1>1, <2>1
<1>5. CASE LateTweet \/ LateDelete
  <2>1. Unmoved(c)
    BY <1>5 DEF LateTweet, LateDelete, Unmoved, rows, locals
  <2> QED
    BY <1>4, <2>1
<1> QED
  BY <1>2, <1>3, <1>4, <1>5, OthersUnmoved DEF Next, IInv

(* A call of n tweets makes at most 4n + 2 statements and requests, one    *)
(* fewer with every step, however they are answered: the half of           *)
(* EveryPostSettles that is not a matter of fairness.                      *)
THEOREM CallsAreBounded == Spec => EveryStepCounts
<1>1. IInv /\ [Next]_vars =>
        [\A c \in Call : /\ Budget(c)' \in 0..Budget(c)
                        /\ Step(c) => Budget(c)' # Budget(c)]_vars
  <2> SUFFICES ASSUME IInv, Next, NEW c \in Call
               PROVE  /\ Budget(c)' \in 0..Budget(c)
                      /\ Step(c) => Budget(c)' # Budget(c)
    OBVIOUS
  <2>1. Budget(c) \in Nat
    BY BudgetIsNat
  <2>2. Step(c) => Budget(c)' # Budget(c)
    BY <2>1, StepCounts
  <2> QED
    BY <2>2, NoStepAdds
<1> QED
  BY <1>1, Inductive, PTL DEF Spec, EveryStepCounts
=============================================================================
