------------------------- MODULE TweetPostingProofs -------------------------
(***************************************************************************)
(* Proofs that post_tweet, for any number of submissions and tries under   *)
(* any faults, is well typed, has a row for every tweet before it is sent, *)
(* lets no row claim another try's tweet, answers with a status whose      *)
(* class can be trusted, and implements PublishContract.                   *)
(***************************************************************************)
EXTENDS TweetPosting, TLAPS

Made(t) == \E id \in 1..Len(tweets) : tweets[id] = t
Sent(t) == Made(t) \/ t \in inflight

(* Of every try, also those given up and those to come.                    *)
TryOK(s, n) ==
    LET t == <<s, n>> IN
    /\ n > try[s] => posts[t] = NoRow /\ items[t] = <<>>
    /\ items[t] # <<>> => Len(items[t]) = 1
    /\ Sent(t) => posts[t] # NoRow /\ items[t] # <<>>
    /\ ~ (Made(t) /\ t \in inflight)

(* Of the current try, by the await it is at.                              *)
CallOK(s, t) ==
    /\ attempt[s] >= 1
    /\ pc[s] \in {"resolve", "create_post"} => posts[t] = NoRow
    /\ pc[s] \in {"resolve", "create_post", "create_item"} => items[t] = <<>>
    /\ pc[s] \in Await \ {"resolve", "create_post"} => posts[t] = "publishing"
    /\ pc[s] \in {"send", "record", "publish_post", "fail_item", "fail_post"} =>
          items[t] # <<>>
    /\ pc[s] \in {"resolve", "create_post", "create_item", "send"} => ~ Sent(t)
    /\ pc[s] = "record" =>
          tweet_id[s] \in 1..Len(tweets) /\ tweets[tweet_id[s]] = t
    /\ pc[s] = "publish_post" => items[t][1].tweet # NoTweet
    /\ pc[s] = "returned" => posts[t] = "published"
    /\ pc[s] \in {"fail_item", "fail_post", "raised"} =>
          (HttpAnswer(error[s]) \in 400..499 => ~ Sent(t))

(* What RowsNameTheirOwn says of one try.                                  *)
RowOK(t) ==
    /\ \A i \in 1..Len(items[t]) : items[t][i].tweet # NoTweet =>
          /\ items[t][i].tweet \in 1..Len(tweets)
          /\ tweets[items[t][i].tweet] = t
    /\ posts[t] = "published" => Len(items[t]) = 1 /\ items[t][1].tweet # NoTweet

TryInv == \A s \in Submission : \A n \in 1..MaxTries : TryOK(s, n)

CallInv == \A s \in Submission : CallOK(s, This(s))

Unique == \A a, b \in 1..Len(tweets) : tweets[a] = tweets[b] => a = b

IInv == TypeOK /\ TryInv /\ CallInv /\ Unique /\ RowsNameTheirOwn

-----------------------------------------------------------------------------
LEMMA Statuses ==
    \A e \in {"TwitterAPIError", "APIError", "KeyError", "ValidationError"} :
       HttpAnswer(e) \notin 400..499
BY DEF HttpAnswer, HttpStatusCode, TwitterBaseError

LEMMA Errors ==
    {"TwitterAuthError", "TwitterAccountNotFoundError", "TokenRefreshError",
     "TwitterAPIError", "TwitterRateLimitError"} \subseteq TwitterBaseError
BY DEF TwitterBaseError, HttpStatusCode

LEMMA Appended ==
    ASSUME NEW S, NEW s \in Seq(S), NEW e \in S
    PROVE  LET t == Append(s, e) IN
           /\ t \in Seq(S) /\ Len(s) \in Nat /\ Len(t) = Len(s) + 1 /\ t[Len(s) + 1] = e
           /\ \A j \in 1..Len(s) : t[j] = s[j]
OBVIOUS

LEMMA NonEmpty == ASSUME NEW S, NEW s \in Seq(S), Len(s) = 1 PROVE s # <<>>
OBVIOUS

LEMMA Element == ASSUME NEW S, NEW s \in Seq(S), NEW i \in 1..Len(s) PROVE s[i] \in S
OBVIOUS

LEMMA Current == ASSUME TypeOK, NEW s \in Submission PROVE This(s) \in Try
BY DEF TypeOK, This, Try

LEMMA InitIInv == Init => IInv
<1> SUFFICES ASSUME Init PROVE IInv
  OBVIOUS
<1>1. Len(tweets) = 0 /\ tweets = <<>>
  BY DEF Init
<1>2. TypeOK
  BY MaxTriesAssumption DEF Init, TypeOK, Await, NoTweet
<1>3. \A t : ~ Sent(t)
  BY <1>1 DEF Init, Sent, Made
<1>4. TryInv
  BY <1>3 DEF Init, TryInv, TryOK, Try
<1>5. CallInv
  BY <1>2, <1>3, Current DEF Init, CallInv, CallOK
<1>6. Unique
  BY <1>1 DEF Unique
<1>7. RowsNameTheirOwn
  BY DEF Init, RowsNameTheirOwn, NoRow
<1> QED
  BY <1>2, <1>4, <1>5, <1>6, <1>7 DEF IInv

(* What Twitter does in a step of the call t: nothing, or something with   *)
(* its tweet, which was nowhere before.                                    *)
Twitter(t) ==
    \/ UNCHANGED <<tweets, inflight>>
    \/ ~ Sent(t) /\ tweets' = Append(tweets, t) /\ UNCHANGED inflight
    \/ ~ Sent(t) /\ inflight' = inflight \cup {t} /\ UNCHANGED tweets

LEMMA TwitterGrows ==
    ASSUME TypeOK, NEW t \in Try, Twitter(t)
    PROVE  /\ Len(tweets) \in Nat /\ Len(tweets') \in Nat /\ Len(tweets) <= Len(tweets')
           /\ \A id \in 1..Len(tweets) : tweets'[id] = tweets[id]
           /\ \A id \in 1..Len(tweets') :
                 id \in 1..Len(tweets) \/ (tweets'[id] = t /\ id = Len(tweets) + 1)
           /\ \A u : u # t => (Sent(u)' <=> Sent(u))
           /\ \A u : u # t => (Made(u)' <=> Made(u)) /\ (u \in inflight' <=> u \in inflight)
           /\ Len(tweets') > Len(tweets) => ~ Made(t)
           /\ ~ (Made(t) /\ t \in inflight) => ~ (Made(t)' /\ t \in inflight')
<1>1. tweets \in Seq(Try) /\ Len(tweets) \in Nat
  BY DEF TypeOK
<1>2. ASSUME UNCHANGED tweets
      PROVE  /\ Len(tweets') = Len(tweets)
             /\ \A id \in 1..Len(tweets) : tweets'[id] = tweets[id]
             /\ \A u : (Made(u)' <=> Made(u))
  BY <1>2 DEF Made
<1>3. CASE UNCHANGED <<tweets, inflight>>
  <2>1. \A u : (Sent(u)' <=> Sent(u))
    BY <1>2, <1>3 DEF Sent
  <2> QED
    BY <1>1, <1>2, <1>3, <2>1
<1>5. CASE ~ Sent(t) /\ inflight' = inflight \cup {t} /\ UNCHANGED tweets
  <2>1. \A u : u # t => (u \in inflight' <=> u \in inflight)
    BY <1>5
  <2>2. \A u : u # t => (Sent(u)' <=> Sent(u))
    BY <1>2, <1>5, <2>1 DEF Sent
  <2>3. ~ Made(t)'
    BY <1>2, <1>5 DEF Sent
  <2> QED
    BY <1>1, <1>2, <1>5, <2>1, <2>2, <2>3
<1>4. CASE ~ Sent(t) /\ tweets' = Append(tweets, t) /\ UNCHANGED inflight
  <2>1. /\ Len(tweets') = Len(tweets) + 1 /\ tweets'[Len(tweets) + 1] = t
        /\ \A id \in 1..Len(tweets) : tweets'[id] = tweets[id]
    BY <1>1, <1>4, Appended
  <2>2. \A id \in 1..Len(tweets') : id \in 1..Len(tweets) \/ id = Len(tweets) + 1
    BY <1>1, <2>1
  <2>3. \A u : u # t => (Made(u)' <=> Made(u))
    BY <1>1, <2>1, <2>2 DEF Made
  <2>4. \A u : u # t => (Sent(u)' <=> Sent(u))
    BY <1>4, <2>3 DEF Sent
  <2>5. ~ Made(t) /\ t \notin inflight'
    BY <1>4 DEF Sent
  <2> QED
    BY <1>1, <1>4, <2>1, <2>2, <2>3, <2>4, <2>5
<1> QED
  BY <1>3, <1>4, <1>5 DEF Twitter

(* A step of the call t of s touches nothing of other submissions, nor of  *)
(* other tries; what it owes is to keep its own try in order.              *)
LEMMA Frame ==
    ASSUME IInv, NEW s \in Submission, NEW t \in Try, t = This(s),
           TypeOK', UNCHANGED try, Twitter(t),
           \A u \in Try \ {t} : posts'[u] = posts[u] /\ items'[u] = items[u],
           \A u \in Submission \ {s} :
              pc'[u] = pc[u] /\ error'[u] = error[u]
              /\ attempt'[u] = attempt[u] /\ tweet_id'[u] = tweet_id[u],
           items'[t] # <<>> => Len(items'[t]) = 1,
           Sent(t)' => posts'[t] # NoRow /\ items'[t] # <<>>,
           CallOK(s, t)', RowOK(t)'
    PROVE  IInv'
<1>1. TypeOK /\ This(s)' = t
  BY DEF IInv, This
<1>2. /\ Len(tweets) \in Nat /\ Len(tweets') \in Nat /\ Len(tweets) <= Len(tweets')
      /\ \A id \in 1..Len(tweets) : tweets'[id] = tweets[id]
      /\ \A id \in 1..Len(tweets') :
            id \in 1..Len(tweets) \/ (tweets'[id] = t /\ id = Len(tweets) + 1)
      /\ \A u : u # t => (Sent(u)' <=> Sent(u))
      /\ \A u : u # t => (Made(u)' <=> Made(u)) /\ (u \in inflight' <=> u \in inflight)
      /\ Len(tweets') > Len(tweets) => ~ Made(t)
      /\ ~ (Made(t) /\ t \in inflight) => ~ (Made(t)' /\ t \in inflight')
  BY <1>1, TwitterGrows
<1>3. CallInv'
  <2>1. ASSUME NEW u \in Submission \ {s}, NEW v \in Try, v = This(u)
        PROVE  CallOK(u, v)'
    <3>1. CallOK(u, v) /\ v # t
      BY <2>1 DEF IInv, CallInv, This
    <3>2. /\ posts'[v] = posts[v] /\ items'[v] = items[v]
          /\ Sent(v)' <=> Sent(v)
      BY <1>2, <3>1
    <3>3. /\ pc'[u] = pc[u] /\ error'[u] = error[u]
          /\ attempt'[u] = attempt[u] /\ tweet_id'[u] = tweet_id[u]
      OBVIOUS
    <3>4. tweet_id[u] \in 1..Len(tweets) =>
             tweet_id[u] \in 1..Len(tweets') /\ tweets'[tweet_id[u]] = tweets[tweet_id[u]]
      BY <1>2
    <3> QED
      BY <3>1, <3>2, <3>3, <3>4 DEF CallOK
  <2>2. \A u \in Submission : This(u) \in Try /\ This(u)' = This(u)
    BY <1>1, Current DEF This
  <2>3. \A u \in Submission \ {s} : \A v \in Try : v = This(u) => CallOK(u, v)'
    BY <2>1
  <2>4. \A u \in Submission : \A v \in Try : v = This(u) => CallOK(u, v)'
    BY <2>3
  <2> QED
    BY <2>2, <2>4 DEF CallInv
<1>4. TryInv'
  <2>1. ASSUME NEW u \in Submission, NEW n \in 1..MaxTries PROVE TryOK(u, n)'
    <3>1. TryOK(u, n) /\ <<u, n>> \in Try
      BY DEF IInv, TryInv, Try
    <3>2. CASE <<u, n>> # t
      <4>1. /\ posts'[<<u, n>>] = posts[<<u, n>>] /\ items'[<<u, n>>] = items[<<u, n>>]
            /\ Sent(<<u, n>>)' <=> Sent(<<u, n>>)
            /\ Made(<<u, n>>)' <=> Made(<<u, n>>)
            /\ <<u, n>> \in inflight' <=> <<u, n>> \in inflight
        BY <1>2, <3>1, <3>2
      <4> QED
        BY <3>1, <4>1 DEF TryOK
    <3>3. CASE <<u, n>> = t
      <4>1. u = s /\ n = try[s] /\ try[s] \in Nat
        BY <1>1, <3>3 DEF This, TypeOK
      <4>2. ~ (n > try'[u])
        BY <4>1
      <4>3. ~ (Made(t)' /\ t \in inflight')
        BY <1>2, <3>1, <3>3 DEF TryOK
      <4> QED
        BY <3>3, <4>2, <4>3 DEF TryOK
    <3> QED
      BY <3>2, <3>3
  <2> QED
    BY <2>1 DEF TryInv
<1>5. Unique'
  <2>1. Len(tweets') > Len(tweets) => \A id \in 1..Len(tweets) : tweets[id] # t
    BY <1>2 DEF Made
  <2>2. \A a, b \in 1..Len(tweets) : tweets[a] = tweets[b] => a = b
    BY DEF IInv, Unique
  <2>3. SUFFICES ASSUME NEW a \in 1..Len(tweets'), NEW b \in 1..Len(tweets'),
                        tweets'[a] = tweets'[b]
                 PROVE  a = b
    BY DEF Unique
  <2>4. CASE a \in 1..Len(tweets) /\ b \in 1..Len(tweets)
    BY <1>2, <2>2, <2>3, <2>4
  <2>5. CASE a \notin 1..Len(tweets)
    BY <1>2, <2>1, <2>3, <2>5
  <2>6. CASE b \notin 1..Len(tweets)
    BY <1>2, <2>1, <2>3, <2>6
  <2> QED
    BY <2>4, <2>5, <2>6
<1>6. RowsNameTheirOwn'
  <2>1. ASSUME NEW u \in Try \ {t} PROVE RowOK(u)'
    <3>1. RowOK(u) /\ posts'[u] = posts[u] /\ items'[u] = items[u]
      BY DEF IInv, RowsNameTheirOwn, RowOK
    <3> QED
      BY <1>2, <3>1 DEF RowOK
  <2>2. \A u \in Try : RowOK(u)'
    BY <2>1
  <2> QED
    BY <2>2 DEF RowsNameTheirOwn, RowOK
<1> QED
  BY <1>3, <1>4, <1>5, <1>6 DEF IInv

-----------------------------------------------------------------------------
(* What the statements leave in the rows of one try.                       *)
LEMMA Replaced ==
    ASSUME NEW S, NEW s \in Seq(S), Len(s) = 1, NEW e \in S
    PROVE  LET t == [s EXCEPT ![1] = e] IN
           t \in Seq(S) /\ Len(t) = 1 /\ t[1] = e
OBVIOUS

LEMMA FirstItem ==
    ASSUME NEW db
    PROVE  LET new == CreatePostItem(<<>>, "publishing", db) IN
           /\ new \in Seq(ItemRow)
           /\ new # <<>> => Len(new) = 1 /\ new[1].tweet = NoTweet
           /\ Committed(db) => new # <<>>
<1> DEFINE fresh == [status |-> "publishing", tweet |-> NoTweet]
<1>1. fresh \in ItemRow /\ fresh.tweet = NoTweet
  BY DEF ItemRow, NoTweet, PostStatus
<1> HIDE DEF fresh
<1>2. CreatePostItem(<<>>, "publishing", db) = IF Committed(db) THEN Append(<<>>, fresh) ELSE <<>>
  BY DEF CreatePostItem, fresh
<1>3. <<>> \in Seq(ItemRow) /\ Len(<<>>) = 0
  OBVIOUS
<1>4. /\ Append(<<>>, fresh) \in Seq(ItemRow)
      /\ Len(Append(<<>>, fresh)) = 1 /\ Append(<<>>, fresh)[1] = fresh
  BY <1>1, <1>3, Appended
<1>5. CASE Committed(db)
  <2>1. CreatePostItem(<<>>, "publishing", db) = Append(<<>>, fresh)
    BY <1>2, <1>5
  <2>2. Append(<<>>, fresh) # <<>>
    BY <1>3, <1>4
  <2> QED
    BY <1>1, <1>4, <1>5, <2>1, <2>2
<1>6. CASE ~ Committed(db)
  <2>1. CreatePostItem(<<>>, "publishing", db) = <<>>
    BY <1>2, <1>6
  <2> QED
    BY <1>3, <1>6, <2>1
<1> QED
  BY <1>5, <1>6

LEMMA ItemResult ==
    ASSUME NEW r \in Seq(ItemRow), Len(r) = 1, NEW st \in PostStatus, NEW id \in Nat, NEW db
    PROVE  LET new == UpdateItemResult(r, 1, st, id, db) IN
           /\ new \in Seq(ItemRow) /\ Len(new) = 1
           /\ new[1].tweet = IF Committed(db) THEN id ELSE r[1].tweet
<1> DEFINE result == [status |-> st, tweet |-> id]
<1>1. result \in ItemRow /\ result.tweet = id
  BY DEF ItemRow
<1> HIDE DEF result
<1>2. UpdateItemResult(r, 1, st, id, db) =
         IF Committed(db) THEN [r EXCEPT ![1] = result] ELSE r
  BY DEF UpdateItemResult, result
<1>3. LET t == [r EXCEPT ![1] = result] IN
      t \in Seq(ItemRow) /\ Len(t) = 1 /\ t[1] = result
  BY <1>1, Replaced
<1> QED
  BY <1>1, <1>2, <1>3

Raisable == TwitterBaseError \cup
               {NoError, "KeyError", "ValidationError", "APIError", "RequestError"}

(* Where a step of s leaves it, and that it moves nobody else.             *)
LEMMA Moves ==
    ASSUME TypeOK, NEW s \in Submission, NEW next \in Await \cup Ended, NEW e \in Raisable,
           /\ pc' = [pc EXCEPT ![s] = next]
           /\ error' = [error EXCEPT ![s] = e] \/ (UNCHANGED error /\ e = error[s])
    PROVE  /\ pc' \in [Submission -> Await \cup Ended] /\ error' \in [Submission -> Raisable]
           /\ pc'[s] = next /\ error'[s] = e
           /\ \A u \in Submission \ {s} : pc'[u] = pc[u] /\ error'[u] = error[u]
<1>1. pc \in [Submission -> Await \cup Ended] /\ error \in [Submission -> Raisable]
  BY DEF TypeOK, Raisable
<1> QED
  BY <1>1

LEMMA AfterMoves ==
    ASSUME TypeOK, NEW s \in Submission, NEW next \in Await \cup Ended,
           NEW db \in DbOutcome, After(s, db, next)
    PROVE  /\ pc' \in [Submission -> Await \cup Ended] /\ error' \in [Submission -> Raisable]
           /\ \/ db = "ok" /\ Committed(db) /\ pc'[s] = next /\ error'[s] = error[s]
              \/ pc'[s] = "raised" /\ error'[s] = "APIError"
           /\ \A u \in Submission \ {s} : pc'[u] = pc[u] /\ error'[u] = error[u]
<1>1. error[s] \in Raisable /\ "APIError" \in Raisable /\ "raised" \in Await \cup Ended
  BY DEF TypeOK, Raisable, Ended
<1>2. CASE db = "ok"
  <2>1. pc' = [pc EXCEPT ![s] = next] /\ UNCHANGED error /\ Committed(db)
    BY <1>2 DEF After, Goto, Committed
  <2> QED
    BY <1>1, <1>2, <2>1, Moves
<1>3. CASE db # "ok"
  <2>1. pc' = [pc EXCEPT ![s] = "raised"] /\ error' = [error EXCEPT ![s] = "APIError"]
    BY <1>3 DEF After, Raise
  <2> QED
    BY <1>1, <2>1, Moves
<1> QED
  BY <1>2, <1>3

(* What the invariant says of the try a call is at.                        *)
LEMMA Known ==
    ASSUME IInv, NEW s \in Submission
    PROVE  \E t \in Try :
              /\ t = This(s) /\ CallOK(s, t) /\ RowOK(t)
              /\ items[t] # <<>> => Len(items[t]) = 1
              /\ Sent(t) => posts[t] # NoRow /\ items[t] # <<>>
              /\ items[t] \in Seq(ItemRow)
<1>1. This(s) \in Try /\ try[s] \in 1..MaxTries /\ items[This(s)] \in Seq(ItemRow)
  BY Current DEF IInv, TypeOK
<1>2. TryOK(s, try[s]) /\ CallOK(s, This(s))
  BY <1>1 DEF IInv, TryInv, CallInv
<1>3. RowOK(This(s))
  BY <1>1 DEF IInv, RowsNameTheirOwn, RowOK
<1> QED
  BY <1>1, <1>2, <1>3 DEF TryOK, This

LEMMA Calm == ASSUME UNCHANGED twitter, NEW t PROVE Twitter(t) /\ (Sent(t)' <=> Sent(t)) /\ UNCHANGED tweets
BY DEF twitter, Twitter, Sent, Made

LEMMA ResolvePreserves == ASSUME IInv, NEW s \in Submission, Resolve(s) PROVE IInv'
<1>1. PICK t \in Try :
         /\ t = This(s) /\ CallOK(s, t) /\ RowOK(t)
         /\ items[t] # <<>> => Len(items[t]) = 1
         /\ Sent(t) => posts[t] # NoRow /\ items[t] # <<>>
  BY Known
<1>2. UNCHANGED <<posts, items, tweets, inflight, try, attempt, tweet_id>> /\ TypeOK
  BY DEF Resolve, rows, twitter, locals, IInv
<1>3. Twitter(t) /\ (Sent(t)' <=> Sent(t))
  BY Calm DEF Resolve
<1>4. PICK next \in Await \cup Ended : \E e \in Raisable :
         /\ pc' = [pc EXCEPT ![s] = next]
         /\ error' = [error EXCEPT ![s] = e] \/ (UNCHANGED error /\ e = error[s])
         /\ next \in {"create_post", "raised"}
  BY Errors DEF Resolve, Goto, Raise, Await, Ended, Raisable, IInv, TypeOK
<1>5. /\ pc' \in [Submission -> Await \cup Ended] /\ error' \in [Submission -> Raisable]
      /\ pc'[s] \in {"create_post", "raised"}
      /\ \A u \in Submission \ {s} : pc'[u] = pc[u] /\ error'[u] = error[u]
  BY <1>2, <1>4, Moves
<1>6. TypeOK'
  BY <1>2, <1>5 DEF TypeOK, Raisable
<1>7. CallOK(s, t)'
  BY <1>1, <1>2, <1>3, <1>5 DEF CallOK, Resolve, Await
<1>8. RowOK(t)'
  BY <1>1, <1>2 DEF RowOK
<1> QED
  BY <1>1, <1>2, <1>3, <1>5, <1>6, <1>7, <1>8, Frame

LEMMA CreatePostPreserves == ASSUME IInv, NEW s \in Submission, CreatePost(s) PROVE IInv'
<1>1. PICK t \in Try :
         /\ t = This(s) /\ CallOK(s, t) /\ RowOK(t)
         /\ items[t] # <<>> => Len(items[t]) = 1
         /\ Sent(t) => posts[t] # NoRow /\ items[t] # <<>>
  BY Known
<1>2. /\ UNCHANGED <<items, tweets, inflight, try, attempt, tweet_id>> /\ TypeOK
      /\ pc[s] = "create_post" /\ posts[t] = NoRow /\ items[t] = <<>> /\ ~ Sent(t)
  BY <1>1 DEF CreatePost, twitter, locals, IInv, CallOK
<1>3. PICK db \in DbOutcome :
         /\ posts' = [posts EXCEPT ![t] = CreatePostRow("publishing", db)]
         /\ After(s, db, "create_item")
  BY <1>1 DEF CreatePost
<1>4. Twitter(t) /\ (Sent(t)' <=> Sent(t))
  BY Calm DEF CreatePost
<1>5. /\ pc' \in [Submission -> Await \cup Ended] /\ error' \in [Submission -> Raisable]
      /\ \/ db = "ok" /\ Committed(db) /\ pc'[s] = "create_item" /\ error'[s] = error[s]
         \/ pc'[s] = "raised" /\ error'[s] = "APIError"
      /\ \A u \in Submission \ {s} : pc'[u] = pc[u] /\ error'[u] = error[u]
  BY <1>2, <1>3, AfterMoves DEF Await
<1>6. /\ posts' \in [Try -> PostStatus \cup {NoRow}]
      /\ posts'[t] = IF Committed(db) THEN "publishing" ELSE NoRow
      /\ \A u \in Try \ {t} : posts'[u] = posts[u]
  BY <1>2, <1>3 DEF CreatePostRow, PostStatus, TypeOK
<1>7. TypeOK'
  BY <1>2, <1>5, <1>6 DEF TypeOK, Raisable
<1>8. CallOK(s, t)'
  BY <1>1, <1>2, <1>4, <1>5, <1>6, Statuses DEF CallOK, Await
<1>9. RowOK(t)'
  BY <1>1, <1>2, <1>6 DEF RowOK, NoRow
<1> QED
  BY <1>1, <1>2, <1>4, <1>5, <1>6, <1>7, <1>8, <1>9, Frame

LEMMA CreateItemPreserves == ASSUME IInv, NEW s \in Submission, CreateItem(s) PROVE IInv'
<1>1. PICK t \in Try :
         /\ t = This(s) /\ CallOK(s, t) /\ RowOK(t)
         /\ items[t] # <<>> => Len(items[t]) = 1
         /\ Sent(t) => posts[t] # NoRow /\ items[t] # <<>>
  BY Known
<1>2. /\ UNCHANGED <<posts, tweets, inflight, try, attempt, tweet_id>> /\ TypeOK
      /\ pc[s] = "create_item" /\ posts[t] = "publishing" /\ items[t] = <<>> /\ ~ Sent(t)
  BY <1>1 DEF CreateItem, twitter, locals, IInv, CallOK, Await
<1>3. PICK db \in DbOutcome :
         /\ items' = [items EXCEPT ![t] = CreatePostItem(<<>>, "publishing", db)]
         /\ After(s, db, "send")
  BY <1>1, <1>2 DEF CreateItem
<1>4. Twitter(t) /\ (Sent(t)' <=> Sent(t))
  BY Calm DEF CreateItem
<1>5. /\ pc' \in [Submission -> Await \cup Ended] /\ error' \in [Submission -> Raisable]
      /\ \/ db = "ok" /\ Committed(db) /\ pc'[s] = "send" /\ error'[s] = error[s]
         \/ pc'[s] = "raised" /\ error'[s] = "APIError"
      /\ \A u \in Submission \ {s} : pc'[u] = pc[u] /\ error'[u] = error[u]
  BY <1>2, <1>3, AfterMoves DEF Await
<1>6. LET new == CreatePostItem(<<>>, "publishing", db) IN
      /\ new \in Seq(ItemRow)
      /\ new # <<>> => Len(new) = 1 /\ new[1].tweet = NoTweet
      /\ Committed(db) => new # <<>>
  BY FirstItem
<1> DEFINE new == CreatePostItem(<<>>, "publishing", db)
<1> HIDE DEF new
<1>7. /\ items' \in [Try -> Seq(ItemRow)] /\ items'[t] = new
      /\ \A u \in Try \ {t} : items'[u] = items[u]
      /\ new # <<>> => Len(new) = 1 /\ new[1].tweet = NoTweet
      /\ Committed(db) => new # <<>>
  BY <1>2, <1>3, <1>6 DEF TypeOK, new
<1>8. TypeOK'
  BY <1>2, <1>5, <1>7 DEF TypeOK, Raisable
<1>9. CallOK(s, t)'
  BY <1>1, <1>2, <1>4, <1>5, <1>7, Statuses DEF CallOK, Await
<1>10. RowOK(t)'
  <2>1. CASE new = <<>>
    BY <1>2, <1>7, <2>1 DEF RowOK
  <2>2. CASE new # <<>>
    <3>1. Len(new) = 1 /\ new[1].tweet = NoTweet /\ posts'[t] # "published"
      BY <1>2, <1>7, <2>2
    <3>2. \A i \in 1..Len(new) : new[i].tweet = NoTweet
      BY <3>1
    <3> QED
      BY <1>7, <3>1, <3>2 DEF RowOK
  <2> QED
    BY <2>1, <2>2
<1> QED
  BY <1>1, <1>2, <1>4, <1>5, <1>7, <1>8, <1>9, <1>10, Frame

(* The POST is sent once: its only attempt never leads to a second.        *)
LEMMA NoRetry ==
    ASSUME NEW answer \in Answer, NEW n \in Nat, n >= 1
    PROVE  Outcome(answer, n, FALSE) # "retry"
BY DEF Outcome, MaxAttempts

LEMMA SendPreserves == ASSUME IInv, NEW s \in Submission, Send(s) PROVE IInv'
<1>1. PICK t \in Try :
         /\ t = This(s) /\ CallOK(s, t) /\ RowOK(t)
         /\ items[t] # <<>> => Len(items[t]) = 1
         /\ Sent(t) => posts[t] # NoRow /\ items[t] # <<>>
  BY Known
<1>2. /\ UNCHANGED <<posts, items, try>> /\ TypeOK
      /\ pc[s] = "send" /\ posts[t] = "publishing" /\ items[t] # <<>> /\ ~ Sent(t)
      /\ attempt[s] \in Nat /\ attempt[s] >= 1
  BY <1>1 DEF Send, rows, IInv, CallOK, Await, TypeOK
<1>3. PICK answer, fate :
         answer \in Answer /\ fate \in Fates(answer) /\
         LET outcome == Outcome(answer, attempt[s], FALSE) IN
         /\ tweets' = IF fate = "done" THEN Append(tweets, t) ELSE tweets
         /\ inflight' = IF fate = "late" THEN inflight \cup {t} ELSE inflight
         /\ tweet_id' = [tweet_id EXCEPT ![s] =
                           IF answer = "ok" THEN Len(tweets) + 1 ELSE @]
         /\ attempt' = [attempt EXCEPT ![s] = IF outcome = "retry" THEN @ + 1 ELSE 1]
         /\ AfterSend(s, answer, outcome)
  BY <1>1 DEF Send
<1>4. Outcome(answer, attempt[s], FALSE) # "retry"
  BY <1>2, <1>3, NoRetry
<1>5. /\ tweets' = IF fate = "done" THEN Append(tweets, t) ELSE tweets
      /\ inflight' = IF fate = "late" THEN inflight \cup {t} ELSE inflight
      /\ tweet_id' = [tweet_id EXCEPT ![s] =
                        IF answer = "ok" THEN Len(tweets) + 1 ELSE @]
      /\ attempt' = [attempt EXCEPT ![s] = 1]
  BY <1>3, <1>4
<1>6. PICK next \in Await \cup Ended, e \in Raisable :
         /\ pc' = [pc EXCEPT ![s] = next]
         /\ error' = [error EXCEPT ![s] = e] \/ (UNCHANGED error /\ e = error[s])
         /\ \/ answer = "ok" /\ next = "record"
            \/ answer = "garbled" /\ next = "raised" /\ e = "KeyError"
            \/ answer = "rate_limited" /\ next = "fail_item" /\ e = "TwitterRateLimitError"
            \/ /\ answer \notin {"ok", "garbled", "rate_limited"}
               /\ next = "fail_item" /\ e = "TwitterAPIError"
  <2>1. error[s] \in Raisable
    BY <1>2 DEF TypeOK, Raisable
  <2> QED
    BY <1>3, <1>4, <2>1, Errors DEF AfterSend, Goto, Raise, ErrorOf, Await, Ended, Raisable
<1>7. /\ pc' \in [Submission -> Await \cup Ended] /\ error' \in [Submission -> Raisable]
      /\ pc'[s] = next /\ error'[s] = e
      /\ \A u \in Submission \ {s} : pc'[u] = pc[u] /\ error'[u] = error[u]
  BY <1>2, <1>6, Moves
<1>8. fate \in {"done", "lost", "late"}
      /\ (answer = "ok" => fate = "done") /\ (answer = "rate_limited" => fate = "lost")
  BY <1>3 DEF Fates
<1>9. Twitter(t)
  BY <1>2, <1>5, <1>8 DEF Twitter
<1>10. /\ tweets \in Seq(Try) /\ Len(tweets) \in Nat
       /\ Append(tweets, t) \in Seq(Try) /\ Len(Append(tweets, t)) = Len(tweets) + 1
       /\ Append(tweets, t)[Len(tweets) + 1] = t
       /\ \A j \in 1..Len(tweets) : Append(tweets, t)[j] = tweets[j]
  BY <1>2, Appended DEF TypeOK
<1>11. /\ tweets' \in Seq(Try) /\ inflight' \in SUBSET Try
       /\ attempt' \in [Submission -> Nat] /\ tweet_id' \in [Submission -> Nat]
       /\ attempt'[s] = 1
       /\ \A u \in Submission \ {s} : attempt'[u] = attempt[u] /\ tweet_id'[u] = tweet_id[u]
  BY <1>2, <1>5, <1>10 DEF TypeOK
<1>12. TypeOK'
  BY <1>2, <1>7, <1>11 DEF TypeOK, Raisable
<1>13. CallOK(s, t)'
  <2>1. CASE answer = "ok"
    <3>1. /\ tweet_id'[s] = Len(tweets) + 1 /\ tweets' = Append(tweets, t)
          /\ pc'[s] = "record"
      BY <1>2, <1>5, <1>6, <1>7, <1>8, <2>1 DEF TypeOK
    <3> QED
      BY <1>2, <1>10, <1>11, <3>1 DEF CallOK, Await
  <2>2. CASE answer = "rate_limited"
    <3>1. ~ Sent(t)' /\ pc'[s] = "fail_item"
      BY <1>2, <1>5, <1>6, <1>7, <1>8, <2>2 DEF Sent, Made
    <3> QED
      BY <1>2, <1>11, <3>1 DEF CallOK, Await
  <2>3. CASE answer \notin {"ok", "rate_limited"}
    <3>1. /\ pc'[s] = "raised" \/ pc'[s] = "fail_item"
          /\ HttpAnswer(error'[s]) \notin 400..499
      BY <1>6, <1>7, <2>3, Statuses
    <3>2. (HttpAnswer(error[s]) \notin 400..499)'
      BY <3>1
    <3>3. /\ posts'[t] = "publishing" /\ items'[t] # <<>> /\ attempt'[s] >= 1
      BY <1>2, <1>11
    <3>4. CASE pc'[s] = "raised"
      BY <3>2, <3>3, <3>4 DEF CallOK, Await
    <3>5. CASE pc'[s] = "fail_item"
      BY <3>2, <3>3, <3>5 DEF CallOK, Await
    <3> QED
      BY <3>1, <3>4, <3>5
  <2> QED
    BY <2>1, <2>2, <2>3
<1>14. RowOK(t)'
  <2>1. /\ Len(tweets') \in Nat /\ Len(tweets) <= Len(tweets')
        /\ \A id \in 1..Len(tweets) : tweets'[id] = tweets[id]
    BY <1>2, <1>9, TwitterGrows
  <2> QED
    BY <1>1, <1>2, <1>10, <2>1 DEF RowOK
<1> QED
  BY <1>1, <1>2, <1>7, <1>9, <1>11, <1>12, <1>13, <1>14, Frame DEF NoRow

LEMMA RecordItemPreserves == ASSUME IInv, NEW s \in Submission, RecordItem(s) PROVE IInv'
<1>1. PICK t \in Try :
         /\ t = This(s) /\ CallOK(s, t) /\ RowOK(t)
         /\ items[t] # <<>> => Len(items[t]) = 1
         /\ Sent(t) => posts[t] # NoRow /\ items[t] # <<>>
         /\ items[t] \in Seq(ItemRow)
  BY Known
<1>2. /\ UNCHANGED <<posts, tweets, inflight, try, attempt, tweet_id>> /\ TypeOK
      /\ pc[s] = "record" /\ posts[t] = "publishing" /\ Len(items[t]) = 1
      /\ tweet_id[s] \in 1..Len(tweets) /\ tweets[tweet_id[s]] = t /\ tweet_id[s] \in Nat
  BY <1>1 DEF RecordItem, twitter, locals, IInv, CallOK, Await, TypeOK
<1>3. PICK db \in DbOutcome :
         /\ items' = [items EXCEPT ![t] =
                        UpdateItemResult(items[t], 1, "published", tweet_id[s], db)]
         /\ After(s, db, "publish_post")
  BY <1>1 DEF RecordItem
<1>4. Twitter(t) /\ (Sent(t)' <=> Sent(t))
  BY Calm DEF RecordItem
<1>5. /\ pc' \in [Submission -> Await \cup Ended] /\ error' \in [Submission -> Raisable]
      /\ \/ db = "ok" /\ Committed(db) /\ pc'[s] = "publish_post" /\ error'[s] = error[s]
         \/ pc'[s] = "raised" /\ error'[s] = "APIError"
      /\ \A u \in Submission \ {s} : pc'[u] = pc[u] /\ error'[u] = error[u]
  BY <1>2, <1>3, AfterMoves DEF Await
<1> DEFINE new == UpdateItemResult(items[t], 1, "published", tweet_id[s], db)
<1>6. /\ new \in Seq(ItemRow) /\ Len(new) = 1
      /\ new[1].tweet = IF Committed(db) THEN tweet_id[s] ELSE items[t][1].tweet
  BY <1>1, <1>2, ItemResult DEF PostStatus
<1> HIDE DEF new
<1>7. /\ items' \in [Try -> Seq(ItemRow)] /\ items'[t] = new
      /\ \A u \in Try \ {t} : items'[u] = items[u]
  BY <1>2, <1>3, <1>6 DEF TypeOK, new
<1>8. TypeOK'
  BY <1>2, <1>5, <1>7 DEF TypeOK, Raisable
<1>9. tweet_id[s] # NoTweet /\ new # <<>>
  BY <1>2, <1>6, NonEmpty DEF NoTweet
<1>10. CallOK(s, t)'
  BY <1>1, <1>2, <1>4, <1>5, <1>6, <1>7, <1>9, Statuses DEF CallOK, Await
<1>11. RowOK(t)'
  <2>1. /\ \A i \in 1..Len(new) : i = 1
        /\ items[t][1].tweet # NoTweet =>
              items[t][1].tweet \in 1..Len(tweets) /\ tweets[items[t][1].tweet] = t
    BY <1>1, <1>2, <1>6 DEF RowOK
  <2> QED
    BY <1>2, <1>6, <1>7, <2>1 DEF RowOK
<1> QED
  BY <1>1, <1>2, <1>4, <1>5, <1>6, <1>7, <1>8, <1>9, <1>10, <1>11, Frame DEF NoRow

LEMMA PublishPostPreserves == ASSUME IInv, NEW s \in Submission, PublishPost(s) PROVE IInv'
<1>1. PICK t \in Try :
         /\ t = This(s) /\ CallOK(s, t) /\ RowOK(t)
         /\ items[t] # <<>> => Len(items[t]) = 1
         /\ Sent(t) => posts[t] # NoRow /\ items[t] # <<>>
  BY Known
<1>2. /\ UNCHANGED <<items, tweets, inflight, try, attempt, tweet_id>> /\ TypeOK
      /\ pc[s] = "publish_post" /\ posts[t] = "publishing"
      /\ Len(items[t]) = 1 /\ items[t] # <<>> /\ items[t][1].tweet # NoTweet
  BY <1>1 DEF PublishPost, twitter, locals, IInv, CallOK, Await
<1>3. PICK db \in DbOutcome :
         /\ posts' = [posts EXCEPT ![t] = UpdatePostStatus(posts[t], "published", db)]
         /\ After(s, db, "returned") \/ (db = "ok" /\ Raise(s, "ValidationError"))
  BY <1>1 DEF PublishPost
<1>4. Twitter(t) /\ (Sent(t)' <=> Sent(t))
  BY Calm DEF PublishPost
<1>5. /\ pc' \in [Submission -> Await \cup Ended] /\ error' \in [Submission -> Raisable]
      /\ \/ db = "ok" /\ Committed(db) /\ pc'[s] = "returned" /\ error'[s] = error[s]
         \/ pc'[s] = "raised" /\ error'[s] \in {"APIError", "ValidationError"}
      /\ \A u \in Submission \ {s} : pc'[u] = pc[u] /\ error'[u] = error[u]
  <2>1. CASE After(s, db, "returned")
    BY <1>2, <2>1, AfterMoves DEF Ended
  <2>2. CASE Raise(s, "ValidationError")
    BY <1>2, <2>2, Moves DEF Raise, Raisable, Ended
  <2> QED
    BY <1>3, <2>1, <2>2
<1>6. /\ posts' \in [Try -> PostStatus \cup {NoRow}]
      /\ posts'[t] = IF Committed(db) THEN "published" ELSE "publishing"
      /\ \A u \in Try \ {t} : posts'[u] = posts[u]
  BY <1>2, <1>3 DEF UpdatePostStatus, PostStatus, TypeOK
<1>7. TypeOK'
  BY <1>2, <1>5, <1>6 DEF TypeOK, Raisable
<1>8. CallOK(s, t)'
  BY <1>1, <1>2, <1>4, <1>5, <1>6, Statuses DEF CallOK, Await
<1>9. RowOK(t)'
  BY <1>1, <1>2, <1>6 DEF RowOK
<1> QED
  BY <1>1, <1>2, <1>4, <1>5, <1>6, <1>7, <1>8, <1>9, Frame DEF NoRow

LEMMA FailItemPreserves == ASSUME IInv, NEW s \in Submission, FailItem(s) PROVE IInv'
<1>1. PICK t \in Try :
         /\ t = This(s) /\ CallOK(s, t) /\ RowOK(t)
         /\ items[t] # <<>> => Len(items[t]) = 1
         /\ Sent(t) => posts[t] # NoRow /\ items[t] # <<>>
         /\ items[t] \in Seq(ItemRow)
  BY Known
<1>2. /\ UNCHANGED <<posts, tweets, inflight, try, attempt, tweet_id>> /\ TypeOK
      /\ pc[s] = "fail_item" /\ posts[t] = "publishing" /\ Len(items[t]) = 1
  BY <1>1 DEF FailItem, twitter, locals, IInv, CallOK, Await
<1>3. PICK db \in DbOutcome :
         /\ items' = [items EXCEPT ![t] =
                        UpdateItemResult(items[t], 1, "failed", NoTweet, db)]
         /\ After(s, db, "fail_post")
  BY <1>1 DEF FailItem
<1>4. Twitter(t) /\ (Sent(t)' <=> Sent(t))
  BY Calm DEF FailItem
<1>5. /\ pc' \in [Submission -> Await \cup Ended] /\ error' \in [Submission -> Raisable]
      /\ \/ db = "ok" /\ Committed(db) /\ pc'[s] = "fail_post" /\ error'[s] = error[s]
         \/ pc'[s] = "raised" /\ error'[s] = "APIError"
      /\ \A u \in Submission \ {s} : pc'[u] = pc[u] /\ error'[u] = error[u]
  BY <1>2, <1>3, AfterMoves DEF Await
<1> DEFINE new == UpdateItemResult(items[t], 1, "failed", NoTweet, db)
<1>6. /\ new \in Seq(ItemRow) /\ Len(new) = 1
      /\ new[1].tweet = IF Committed(db) THEN NoTweet ELSE items[t][1].tweet
  <2>1. NoTweet \in Nat /\ "failed" \in PostStatus
    BY DEF NoTweet, PostStatus
  <2> QED
    BY <1>1, <1>2, <2>1, ItemResult
<1> HIDE DEF new
<1>7. /\ items' \in [Try -> Seq(ItemRow)] /\ items'[t] = new
      /\ \A u \in Try \ {t} : items'[u] = items[u]
  BY <1>2, <1>3, <1>6 DEF TypeOK, new
<1>8. TypeOK'
  BY <1>2, <1>5, <1>7 DEF TypeOK, Raisable
<1>9. new # <<>>
  BY <1>6, NonEmpty
<1>10. CallOK(s, t)'
  BY <1>1, <1>2, <1>4, <1>5, <1>6, <1>7, <1>9, Statuses DEF CallOK, Await
<1>11. RowOK(t)'
  <2>1. /\ \A i \in 1..Len(new) : i = 1
        /\ items[t][1].tweet # NoTweet =>
              items[t][1].tweet \in 1..Len(tweets) /\ tweets[items[t][1].tweet] = t
    BY <1>1, <1>2, <1>6 DEF RowOK
  <2> QED
    BY <1>2, <1>6, <1>7, <2>1 DEF RowOK
<1> QED
  BY <1>1, <1>2, <1>4, <1>5, <1>6, <1>7, <1>8, <1>9, <1>10, <1>11, Frame DEF NoRow

LEMMA FailPostPreserves == ASSUME IInv, NEW s \in Submission, FailPost(s) PROVE IInv'
<1>1. PICK t \in Try :
         /\ t = This(s) /\ CallOK(s, t) /\ RowOK(t)
         /\ items[t] # <<>> => Len(items[t]) = 1
         /\ Sent(t) => posts[t] # NoRow /\ items[t] # <<>>
  BY Known
<1>2. /\ UNCHANGED <<items, tweets, inflight, try, attempt, tweet_id>> /\ TypeOK
      /\ pc[s] = "fail_post" /\ posts[t] = "publishing"
      /\ Len(items[t]) = 1 /\ items[t] # <<>> /\ error[s] \in Raisable
      /\ HttpAnswer(error[s]) \in 400..499 => ~ Sent(t)
  BY <1>1 DEF FailPost, twitter, locals, IInv, CallOK, Await, TypeOK, Raisable
<1>3. PICK db \in DbOutcome :
         /\ posts' = [posts EXCEPT ![t] = UpdatePostStatus(posts[t], "failed", db)]
         /\ Raise(s, IF db = "ok" THEN error[s] ELSE "APIError")
  BY <1>1 DEF FailPost
<1>4. Twitter(t) /\ (Sent(t)' <=> Sent(t))
  BY Calm DEF FailPost
<1>5. PICK e \in Raisable :
         /\ e = error[s] \/ e = "APIError"
         /\ pc' = [pc EXCEPT ![s] = "raised"] /\ error' = [error EXCEPT ![s] = e]
  BY <1>2, <1>3 DEF Raise, Raisable
<1>6. /\ pc' \in [Submission -> Await \cup Ended] /\ error' \in [Submission -> Raisable]
      /\ pc'[s] = "raised" /\ error'[s] = e
      /\ \A u \in Submission \ {s} : pc'[u] = pc[u] /\ error'[u] = error[u]
  BY <1>2, <1>5, Moves DEF Ended
<1>7. /\ posts' \in [Try -> PostStatus \cup {NoRow}]
      /\ posts'[t] \in {"failed", "publishing"}
      /\ \A u \in Try \ {t} : posts'[u] = posts[u]
  BY <1>2, <1>3 DEF UpdatePostStatus, PostStatus, TypeOK
<1>8. TypeOK'
  BY <1>2, <1>6, <1>7 DEF TypeOK, Raisable
<1>9. CallOK(s, t)'
  <2>1. HttpAnswer(error'[s]) \in 400..499 => ~ Sent(t)'
    BY <1>2, <1>4, <1>5, <1>6, Statuses
  <2> QED
    BY <1>1, <1>2, <1>6, <1>7, <2>1 DEF CallOK, Await
<1>10. RowOK(t)'
  BY <1>1, <1>2, <1>7 DEF RowOK
<1> QED
  BY <1>1, <1>2, <1>4, <1>6, <1>7, <1>8, <1>9, <1>10, Frame DEF NoRow

LEMMA CrashPreserves == ASSUME IInv, NEW s \in Submission, Crash(s) PROVE IInv'
<1>1. PICK t \in Try :
         /\ t = This(s) /\ CallOK(s, t) /\ RowOK(t)
         /\ items[t] # <<>> => Len(items[t]) = 1
         /\ Sent(t) => posts[t] # NoRow /\ items[t] # <<>>
  BY Known
<1>2. /\ UNCHANGED <<posts, items, tweets, inflight, try, attempt, tweet_id>> /\ TypeOK
      /\ pc' = [pc EXCEPT ![s] = "crashed"] /\ UNCHANGED error /\ error[s] \in Raisable
  BY DEF Crash, Goto, rows, twitter, locals, IInv, TypeOK, Raisable
<1>3. Twitter(t) /\ (Sent(t)' <=> Sent(t))
  BY Calm DEF Crash
<1>4. /\ pc' \in [Submission -> Await \cup Ended] /\ error' \in [Submission -> Raisable]
      /\ pc'[s] = "crashed"
      /\ \A u \in Submission \ {s} : pc'[u] = pc[u] /\ error'[u] = error[u]
  BY <1>2, Moves DEF Ended
<1>5. TypeOK'
  BY <1>2, <1>4 DEF TypeOK, Raisable
<1>6. CallOK(s, t)'
  BY <1>1, <1>2, <1>4 DEF CallOK, Await
<1>7. RowOK(t)'
  BY <1>1, <1>2 DEF RowOK
<1> QED
  BY <1>1, <1>2, <1>3, <1>4, <1>5, <1>6, <1>7, Frame

(* Nothing of the next try is there yet, so it starts from nothing.        *)
LEMMA ResubmitPreserves == ASSUME IInv, NEW s \in Submission, Resubmit(s) PROVE IInv'
<1>1. /\ UNCHANGED <<posts, items, tweets, inflight>> /\ TypeOK
      /\ try[s] \in 1..MaxTries /\ MaxTries \in Nat /\ try[s] < MaxTries
      /\ try' = [try EXCEPT ![s] = @ + 1]
      /\ pc' = [pc EXCEPT ![s] = "resolve"]
      /\ error' = [error EXCEPT ![s] = NoError]
      /\ attempt' = [attempt EXCEPT ![s] = 1]
      /\ tweet_id' = [tweet_id EXCEPT ![s] = NoTweet]
  BY MaxTriesAssumption DEF Resubmit, rows, twitter, IInv, TypeOK
<1>2. TypeOK'
  BY <1>1 DEF TypeOK, Await, NoTweet
<1>3. \A t : (Sent(t)' <=> Sent(t)) /\ (Made(t)' <=> Made(t))
  BY <1>1 DEF Sent, Made
<1>4. try'[s] = try[s] + 1 /\ \A u \in Submission \ {s} : try'[u] = try[u]
  BY <1>1 DEF TypeOK
<1>5. TryInv'
  <2>1. ASSUME NEW u \in Submission, NEW n \in 1..MaxTries PROVE TryOK(u, n)'
    <3>1. TryOK(u, n)
      BY DEF IInv, TryInv
    <3>2. n > try'[u] => n > try[u]
      BY <1>1, <1>4 DEF TypeOK
    <3> QED
      BY <1>1, <1>3, <3>1, <3>2 DEF TryOK
  <2> QED
    BY <2>1 DEF TryInv
<1>6. CallInv'
  <2>1. ASSUME NEW u \in Submission \ {s} PROVE CallOK(u, This(u))'
    <3>1. CallOK(u, This(u))
      BY DEF IInv, CallInv
    <3>2. /\ This(u)' = This(u) /\ pc'[u] = pc[u] /\ error'[u] = error[u]
          /\ attempt'[u] = attempt[u] /\ tweet_id'[u] = tweet_id[u]
      BY <1>1, <1>4 DEF TypeOK, This
    <3> QED
      BY <1>1, <1>3, <3>1, <3>2 DEF CallOK
  <2>2. CallOK(s, This(s))'
    <3> DEFINE t == <<s, try[s] + 1>>
    <3>1. This(s)' = t /\ try[s] + 1 \in 1..MaxTries /\ try[s] + 1 > try[s]
      BY <1>1, <1>4 DEF This
    <3>2. TryOK(s, try[s] + 1)
      BY <3>1 DEF IInv, TryInv
    <3>3. posts[t] = NoRow /\ items[t] = <<>> /\ ~ Sent(t)
      BY <3>1, <3>2 DEF TryOK
    <3>4. pc'[s] = "resolve" /\ attempt'[s] = 1
      BY <1>1 DEF TypeOK
    <3> HIDE DEF t
    <3>5. /\ posts'[This(s)'] = NoRow /\ items'[This(s)'] = <<>> /\ ~ Sent(This(s))'
      BY <1>1, <1>3, <3>1, <3>3 DEF Sent, Made
    <3> QED
      BY <3>4, <3>5 DEF CallOK, Await
  <2> QED
    BY <2>1, <2>2 DEF CallInv
<1>7. Unique' /\ RowsNameTheirOwn'
  BY <1>1 DEF IInv, Unique, RowsNameTheirOwn
<1> QED
  BY <1>2, <1>5, <1>6, <1>7 DEF IInv

(* A late tweet appears: of a try that has its rows, and that no call can  *)
(* any more take for one that tweeted nothing.                             *)
LEMMA LateTweetPreserves == ASSUME IInv, LateTweet PROVE IInv'
<1>1. PICK t \in inflight :
         /\ tweets' = Append(tweets, t) /\ inflight' = inflight \ {t}
         /\ UNCHANGED <<posts, items, pc, try, attempt, tweet_id, error>>
  BY DEF LateTweet, rows, locals
<1>2. TypeOK /\ t \in Try /\ tweets \in Seq(Try) /\ Len(tweets) \in Nat
  BY DEF IInv, TypeOK
<1>3. /\ tweets' \in Seq(Try) /\ Len(tweets') = Len(tweets) + 1
      /\ tweets'[Len(tweets) + 1] = t
      /\ \A id \in 1..Len(tweets) : tweets'[id] = tweets[id]
  BY <1>1, <1>2, Appended
<1>4. TypeOK'
  BY <1>1, <1>2, <1>3 DEF TypeOK
<1>5. \A id \in 1..Len(tweets') : id \in 1..Len(tweets) \/ id = Len(tweets) + 1
  BY <1>2, <1>3
<1>6. \A u : Made(u)' <=> (Made(u) \/ u = t)
  BY <1>2, <1>3, <1>5 DEF Made
<1>7. \A u : Sent(u)' <=> Sent(u)
  BY <1>1, <1>6 DEF Sent
<1>8. PICK s \in Submission, n \in 1..MaxTries : t = <<s, n>>
  BY <1>2 DEF Try
<1>9. ~ Made(t)
  <2>1. TryOK(s, n)
    BY DEF IInv, TryInv
  <2> QED
    BY <1>1, <1>8, <2>1 DEF TryOK
<1>10. TryInv'
  <2>1. ASSUME NEW u \in Submission, NEW k \in 1..MaxTries PROVE TryOK(u, k)'
    <3>1. TryOK(u, k)
      BY DEF IInv, TryInv
    <3>2. ~ (Made(<<u, k>>)' /\ <<u, k>> \in inflight')
      BY <1>1, <1>6, <3>1 DEF TryOK
    <3> QED
      BY <1>1, <1>7, <3>1, <3>2 DEF TryOK
  <2> QED
    BY <2>1 DEF TryInv
<1>11. CallInv'
  <2>1. ASSUME NEW u \in Submission, NEW v, v = This(u) PROVE CallOK(u, v)'
    <3>1. CallOK(u, v)
      BY <2>1 DEF IInv, CallInv
    <3>2. tweet_id[u] \in 1..Len(tweets) =>
             tweet_id[u] \in 1..Len(tweets') /\ tweets'[tweet_id[u]] = tweets[tweet_id[u]]
      BY <1>2, <1>3
    <3> QED
      BY <1>1, <1>7, <3>1, <3>2 DEF CallOK
  <2>2. \A u \in Submission : This(u)' = This(u)
    BY <1>1 DEF This
  <2> QED
    BY <2>1, <2>2 DEF CallInv
<1>12. Unique'
  <2>1. \A id \in 1..Len(tweets) : tweets[id] # t
    BY <1>9 DEF Made
  <2>2. \A a, b \in 1..Len(tweets) : tweets[a] = tweets[b] => a = b
    BY DEF IInv, Unique
  <2>3. SUFFICES ASSUME NEW a \in 1..Len(tweets'), NEW b \in 1..Len(tweets'),
                        tweets'[a] = tweets'[b]
                 PROVE  a = b
    BY DEF Unique
  <2>4. CASE a \in 1..Len(tweets) /\ b \in 1..Len(tweets)
    BY <1>3, <2>2, <2>3, <2>4
  <2>5. CASE a \notin 1..Len(tweets)
    BY <1>3, <1>5, <2>1, <2>3, <2>5
  <2>6. CASE b \notin 1..Len(tweets)
    BY <1>3, <1>5, <2>1, <2>3, <2>6
  <2> QED
    BY <2>4, <2>5, <2>6
<1>13. RowsNameTheirOwn'
  <2>1. ASSUME NEW u \in Try PROVE RowOK(u)'
    <3>1. RowOK(u)
      BY DEF IInv, RowsNameTheirOwn, RowOK
    <3> QED
      BY <1>1, <1>2, <1>3, <3>1 DEF RowOK
  <2> QED
    BY <2>1 DEF RowsNameTheirOwn, RowOK
<1> QED
  BY <1>4, <1>10, <1>11, <1>12, <1>13 DEF IInv

LEMMA StutterPreserves == ASSUME IInv, UNCHANGED vars PROVE IInv'
<1>1. UNCHANGED <<posts, items, tweets, inflight, pc, try, attempt, tweet_id, error>>
  BY DEF vars, rows, twitter, locals
<1>2. TypeOK' /\ Unique' /\ RowsNameTheirOwn'
  BY <1>1 DEF IInv, TypeOK, Unique, RowsNameTheirOwn
<1>3. \A t : (Sent(t)' <=> Sent(t)) /\ (Made(t)' <=> Made(t))
  BY <1>1 DEF Sent, Made
<1>4. TryInv'
  BY <1>1, <1>3 DEF IInv, TryInv, TryOK
<1>5. CallInv'
  <2>1. ASSUME NEW u \in Submission, NEW v, v = This(u) PROVE CallOK(u, v)'
    <3>1. CallOK(u, v)
      BY <2>1 DEF IInv, CallInv
    <3> QED
      BY <1>1, <1>3, <3>1 DEF CallOK
  <2>2. \A u \in Submission : This(u)' = This(u)
    BY <1>1 DEF This
  <2> QED
    BY <2>1, <2>2 DEF CallInv
<1> QED
  BY <1>2, <1>4, <1>5 DEF IInv

-----------------------------------------------------------------------------
(* The inductive invariant of post_tweet holds always.                     *)
THEOREM Inductive == Spec => []IInv
<1>1. IInv /\ [Next]_vars => IInv'
  BY ResolvePreserves, CreatePostPreserves, CreateItemPreserves, SendPreserves,
     RecordItemPreserves, PublishPostPreserves, FailItemPreserves, FailPostPreserves,
     CrashPreserves, ResubmitPreserves, LateTweetPreserves, StutterPreserves
     DEF Next, Step
<1> QED
  BY InitIInv, <1>1, PTL DEF Spec

(* Type correctness of post_tweet's state.                                 *)
THEOREM Typing == Spec => []TypeOK
<1>1. IInv => TypeOK
  BY DEF IInv
<1> QED
  BY <1>1, Inductive, PTL

(* Every tweet at Twitter or on its way has the rows of its own try,       *)
(* written before it was sent, and no try of post_tweet makes two.         *)
THEOREM EveryTweetHasItsRow == Spec => []AuditTrail
<1>1. ASSUME IInv PROVE AuditTrail
  <2>1. ASSUME NEW id \in 1..Len(tweets)
        PROVE  /\ posts[tweets[id]] # NoRow /\ items[tweets[id]] # <<>>
               /\ tweets[id] \notin inflight
    <3>1. tweets[id] \in Try
      BY <1>1, Element DEF IInv, TypeOK
    <3>2. PICK s \in Submission, n \in 1..MaxTries : tweets[id] = <<s, n>>
      BY <3>1 DEF Try
    <3>3. Made(<<s, n>>) /\ TryOK(s, n)
      BY <1>1, <3>2 DEF IInv, TryInv, Made
    <3> QED
      BY <3>2, <3>3 DEF TryOK, Sent
  <2> QED
    BY <1>1, <2>1 DEF AuditTrail, IInv, Unique
<1> QED
  BY <1>1, Inductive, PTL

(* A row that names a tweet names the one its own try made, and a          *)
(* published post always names its tweet.                                  *)
THEOREM NoRowClaimsAnother == Spec => []RowsNameTheirOwn
<1>1. IInv => RowsNameTheirOwn
  BY DEF IInv
<1> QED
  BY <1>1, Inductive, PTL

(* The class of the HTTP status tells the client whether its try tweeted:  *)
(* after 200 it did and its rows say so, after 4xx it never will.          *)
THEOREM StatusIsTrue == Spec => []StatusTellsTweet
<1>1. ASSUME IInv, NEW s \in Submission
      PROVE  /\ HttpStatus(s) = 200 => posts[This(s)] = "published" /\ Made(This(s))
             /\ HttpStatus(s) \in 400..499 => ~ Sent(This(s))
  <2>1. PICK t \in Try :
           /\ t = This(s) /\ CallOK(s, t) /\ RowOK(t)
           /\ items[t] # <<>> => Len(items[t]) = 1
    BY <1>1, Known
  <2>2. CASE pc[s] = "returned"
    <3>1. HttpStatus(s) = 200
      BY <2>2 DEF HttpStatus
    <3>2. posts[t] = "published"
      BY <2>1, <2>2 DEF CallOK
    <3>3. Made(t)
      BY <2>1, <3>2 DEF RowOK, Made
    <3> QED
      BY <2>1, <3>1, <3>2, <3>3
  <2>3. CASE pc[s] = "raised"
    <3>1. HttpStatus(s) = HttpAnswer(error[s])
      BY <2>3 DEF HttpStatus
    <3>2. HttpAnswer(error[s]) \in 400..499 => ~ Sent(t)
      BY <2>1, <2>3 DEF CallOK
    <3>3. HttpAnswer(error[s]) # 200
      BY DEF HttpAnswer, HttpStatusCode, TwitterBaseError
    <3> QED
      BY <2>1, <3>1, <3>2, <3>3
  <2>4. CASE pc[s] \notin {"returned", "raised"}
    BY <2>4 DEF HttpStatus
  <2> QED
    BY <2>2, <2>3, <2>4
<1>2. ASSUME IInv PROVE StatusTellsTweet
  BY <1>1, <1>2 DEF StatusTellsTweet, Made, Sent
<1> QED
  BY <1>2, Inductive, PTL

-----------------------------------------------------------------------------
(* post_tweet implements PublishContract.  The refinement mapping, one try *)
(* at a time:                                                              *)
St(t) == IF posts[t] = NoRow THEN "none" ELSE posts[t]
On(t) == IF Made(t) THEN {1} ELSE {}

(* Of the statuses the column may have, post_tweet writes three.           *)
Written == \A t \in Try : posts[t] \in {NoRow, "publishing", "published", "failed"}

LEMMA WrittenStep ==
    ASSUME IInv, Written, [Next]_vars
    PROVE  Written'
<1>1. posts \in [Try -> PostStatus \cup {NoRow}]
  BY DEF IInv, TypeOK
<1>2. ASSUME NEW t \in Try, NEW st \in {NoRow, "publishing", "published", "failed"},
             posts' = [posts EXCEPT ![t] = st]
      PROVE  Written'
  BY <1>1, <1>2 DEF Written
<1>3. CASE posts' = posts
  BY <1>3 DEF Written
<1>4. ASSUME NEW s \in Submission,
             CreatePost(s) \/ PublishPost(s) \/ FailPost(s)
      PROVE  Written'
  <2>1. This(s) \in Try
    BY Current DEF IInv
  <2>2. PICK st \in {NoRow, "publishing", "published", "failed"} :
          posts' = [posts EXCEPT ![This(s)] = st]
    BY <1>4, <2>1 DEF CreatePost, PublishPost, FailPost, CreatePostRow, UpdatePostStatus, Written
  <2> QED
    BY <2>1, <2>2, <1>2
<1> QED
  BY <1>3, <1>4 DEF Next, Step, Resolve, CreateItem, Send, RecordItem, FailItem, Crash, Resubmit,
                    LateTweet, vars, rows

(* A post that reads published has its tweet.                              *)
LEMMA PublishedIsMade ==
    ASSUME IInv, NEW t \in Try, posts[t] = "published"
    PROVE  Made(t)
BY DEF IInv, RowsNameTheirOwn, Made

(* No other try is affected by a new tweet.                                *)
LEMMA NewTweet ==
    ASSUME IInv, NEW t \in Try, tweets' = Append(tweets, t)
    PROVE  /\ Made(t)'
           /\ \A u \in Try \ {t} : Made(u)' <=> Made(u)
<1>1. /\ tweets' \in Seq(Try) /\ Len(tweets) \in Nat /\ Len(tweets') = Len(tweets) + 1
      /\ tweets'[Len(tweets) + 1] = t
      /\ \A j \in 1..Len(tweets) : tweets'[j] = tweets[j]
  BY Appended DEF IInv, TypeOK
<1>2. Made(t)'
  <2>1. Len(tweets) + 1 \in 1..Len(tweets')
    BY <1>1
  <2> QED
    BY <1>1, <2>1 DEF Made
<1>3. ASSUME NEW u \in Try \ {t} PROVE Made(u)' <=> Made(u)
  <2>1. Made(u) => Made(u)'
    BY <1>1 DEF Made
  <2>2. Made(u)' => Made(u)
    BY <1>1 DEF Made
  <2> QED
    BY <2>1, <2>2
<1> QED
  BY <1>2, <1>3

LEMMA ShownAppear ==
    ASSUME IInv, NEW t \in Try, tweets' = Append(tweets, t), posts' = posts,
           posts[t] \in {"publishing", "failed"}, ~ Made(t)
    PROVE  Contract!Next
<1>1. /\ [u \in Try |-> St(u)]' = [u \in Try |-> St(u)]
      /\ [u \in Try |-> On(u)]' = [[u \in Try |-> On(u)] EXCEPT ![t] = @ \cup {1}]
  BY NewTweet DEF St, On
<1>2. St(t) \in {"publishing", "failed"} /\ On(t) = {}
  BY DEF St, On, NoRow
<1>3. 1 \in (1..1) \ {} /\ 1..(1 - 1) = {}
  OBVIOUS
<1>4. Contract!Appear(t, 1)
  BY <1>1, <1>2, <1>3 DEF Contract!Appear, St, On, Made
<1>5. 1 \in 1..[u \in Try |-> 1][t]
  BY <1>3
<1> QED
  BY <1>4, <1>5 DEF Contract!Next

LEMMA ShownStatus ==
    ASSUME NEW t \in Try, NEW st, st # NoRow, posts \in [Try -> PostStatus \cup {NoRow}],
           posts' = [posts EXCEPT ![t] = st], UNCHANGED tweets
    PROVE  /\ [u \in Try |-> St(u)]' = [[u \in Try |-> St(u)] EXCEPT ![t] = st]
           /\ [u \in Try |-> On(u)]' = [u \in Try |-> On(u)]
BY DEF St, On, Made

LEMMA StatusMoves ==
    ASSUME NEW t \in Try, Contract!Open(t) \/ Contract!Publish(t) \/ Contract!Fail(t)
    PROVE  Contract!Next
BY DEF Contract!Next

LEMMA ContractStep ==
    ASSUME IInv, Written, [Next]_vars
    PROVE  [Contract!Next]_Contract!vars
<1>1. posts \in [Try -> PostStatus \cup {NoRow}]
  BY DEF IInv, TypeOK
<1>2. CASE UNCHANGED <<posts, tweets>>
  BY <1>2 DEF Contract!vars
<1>3. ASSUME NEW s \in Submission, CreatePost(s) PROVE [Contract!Next]_Contract!vars
  <2>0. PICK t \in Try : t = This(s)
    BY Current DEF IInv
  <2>1. posts[t] = NoRow
    BY <1>3, <2>0 DEF IInv, CallInv, CallOK, CreatePost
  <2>2. UNCHANGED tweets /\ (posts' = posts \/ posts' = [posts EXCEPT ![t] = "publishing"])
    BY <1>1, <1>3, <2>0, <2>1 DEF CreatePost, CreatePostRow, twitter
  <2>3. CASE posts' = [posts EXCEPT ![t] = "publishing"]
    <3>1. Contract!Open(t)
      BY <1>1, <2>1, <2>2, <2>3, ShownStatus DEF Contract!Open, St, On, Made, NoRow
    <3> QED
      BY <3>1, StatusMoves
  <2> QED
    BY <1>2, <2>2, <2>3
<1>4. ASSUME NEW s \in Submission, PublishPost(s) PROVE [Contract!Next]_Contract!vars
  <2>0. PICK t \in Try : t = This(s)
    BY Current DEF IInv
  <2>1. posts[t] = "publishing" /\ Made(t)
    <3>1. /\ CallOK(s, t) /\ RowOK(t)
          /\ items[t] # <<>> => Len(items[t]) = 1
      BY <2>0, Known
    <3>2. /\ posts[t] = "publishing" /\ items[t] # <<>> /\ items[t][1].tweet # NoTweet
      BY <1>4, <3>1 DEF PublishPost, CallOK, Await
    <3> QED
      BY <3>1, <3>2 DEF RowOK, Made
  <2>2. UNCHANGED tweets /\ (posts' = posts \/ posts' = [posts EXCEPT ![t] = "published"])
    BY <1>1, <1>4, <2>0 DEF PublishPost, UpdatePostStatus, twitter
  <2>3. CASE posts' = [posts EXCEPT ![t] = "published"]
    <3>0. 1..1 = {1}
      OBVIOUS
    <3>1. Contract!Publish(t)
      BY <1>1, <2>1, <2>2, <2>3, <3>0, ShownStatus DEF Contract!Publish, St, On, Made, NoRow
    <3> QED
      BY <3>1, StatusMoves
  <2> QED
    BY <1>2, <2>2, <2>3
<1>5. ASSUME NEW s \in Submission, FailPost(s) PROVE [Contract!Next]_Contract!vars
  <2>0. PICK t \in Try : t = This(s)
    BY Current DEF IInv
  <2>1. posts[t] = "publishing"
    BY <1>5, <2>0 DEF IInv, CallInv, CallOK, FailPost, Await
  <2>2. UNCHANGED tweets /\ (posts' = posts \/ posts' = [posts EXCEPT ![t] = "failed"])
    BY <1>1, <1>5, <2>0 DEF FailPost, UpdatePostStatus, twitter
  <2>3. CASE posts' = [posts EXCEPT ![t] = "failed"]
    <3>1. Contract!Fail(t)
      BY <1>1, <2>1, <2>2, <2>3, ShownStatus DEF Contract!Fail, St, On, Made, NoRow
    <3> QED
      BY <3>1, StatusMoves
  <2> QED
    BY <1>2, <2>2, <2>3
<1>6. ASSUME NEW s \in Submission, Send(s) PROVE [Contract!Next]_Contract!vars
  <2>0. PICK t \in Try : t = This(s)
    BY Current DEF IInv
  <2>1. posts' = posts /\ (tweets' = tweets \/ tweets' = Append(tweets, t))
    BY <1>6, <2>0 DEF Send, rows
  <2>2. posts[t] = "publishing" /\ ~ Made(t)
    BY <1>6, <2>0 DEF IInv, CallInv, CallOK, Send, Await, Sent
  <2> QED
    BY <1>2, <2>1, <2>2, ShownAppear
<1>7. CASE LateTweet
  <2>1. PICK t \in inflight : tweets' = Append(tweets, t) /\ posts' = posts
    BY <1>7 DEF LateTweet, rows
  <2>2. t \in Try /\ posts[t] # NoRow /\ ~ Made(t)
    <3>1. t \in Try
      BY DEF IInv, TypeOK
    <3>2. PICK s \in Submission, k \in 1..MaxTries : t = <<s, k>>
      BY <3>1 DEF Try
    <3>3. TryOK(s, k)
      BY DEF IInv, TryInv
    <3> QED
      BY <3>1, <3>2, <3>3 DEF TryOK, Sent
  <2>3. posts[t] \in {"publishing", "failed"}
    BY <2>2, PublishedIsMade DEF Written
  <2> QED
    BY <2>1, <2>2, <2>3, ShownAppear
<1> QED
  BY <1>2, <1>3, <1>4, <1>5, <1>6, <1>7
     DEF Next, Step, Resolve, CreateItem, RecordItem, FailItem, Crash, Resubmit, vars, rows, twitter

(* Whatever the faults, every try of post_tweet keeps the contract its     *)
(* readers see.                                                            *)
THEOREM TweetsKeepContract == Spec => ContractSpec
<1>1. Init => Contract!Init /\ Written
  BY DEF Init, Contract!Init, Written
<1>2. IInv /\ Written /\ [Next]_vars => Written' /\ [Contract!Next]_Contract!vars
  BY WrittenStep, ContractStep
<1> QED
  BY <1>1, <1>2, Inductive, PTL DEF Spec, ContractSpec, Contract!Spec
=============================================================================
