------------------------ MODULE ThreadAnalyticsProofs -----------------------
(***************************************************************************)
(* Proofs that a reader of thread analytics beside any number of threads   *)
(* that are being posted or rolled back is given the thread, or nothing.   *)
(* What it reads of the writers' rows is a prefix of the thread, whatever  *)
(* they do, and their steps only settle more of it; the ids it takes from  *)
(* the rows come of a recursive function, so that what it computes is      *)
(* proved by induction over the table.                                     *)
(***************************************************************************)
EXTENDS ThreadAnalytics, ThreadPostingProofs, WellFoundedInduction

(* Induction, with the induction hypothesis as a set.                      *)
LEMMA SetInduction ==
    ASSUME NEW T, 0 \in T, \A k \in Nat : k \in T => k + 1 \in T
    PROVE  Nat \subseteq T
<1> DEFINE R == OpToRel(<, Nat)
<1> SUFFICES ASSUME Nat \ T # {} PROVE FALSE
  OBVIOUS
<1>1. IsWellFoundedOn(R, Nat)
  BY NatLessThanWellFounded
<1>2. PICK x \in Nat \ T : \A y \in Nat \ T : ~ (<<y, x>> \in R)
  <2> HIDE DEF R
  <2> QED
    BY <1>1, WFMin
<1>3. \A y \in Nat \ T : ~ (y < x)
  BY <1>2 DEF OpToRel
<1> QED
  BY <1>3

(* The tweet ids of a table in which the rows that have one come first.    *)
Prefix(table, m) == [i \in 1..m |-> table[i].tweet]

LEMMA PrefixGrows ==
    ASSUME NEW table \in Seq(ItemRow), NEW k \in Nat, k + 1 \in 1..Len(table)
    PROVE  /\ Prefix(table, k) \in Seq(Nat)
           /\ Append(Prefix(table, k), table[k + 1].tweet) = Prefix(table, k + 1)
<1>1. Len(table) \in Nat
  OBVIOUS
<1>2. \A i \in 1..(k + 1) : table[i].tweet \in Nat
  <2>1. \A i \in 1..Len(table) : table[i] \in ItemRow
    BY ElementOfSeq
  <2> QED
    BY <1>1, <2>1 DEF ItemRow
<1>3. Prefix(table, k) \in Seq(Nat) /\ Len(Prefix(table, k)) = k
  <2>1. Prefix(table, k) \in [1..k -> Nat]
    BY <1>2 DEF Prefix
  <2> QED
    BY <2>1, SeqDef, LenProperties
<1>4. Prefix(table, k + 1) \in Seq(Nat) /\ Len(Prefix(table, k + 1)) = k + 1
  <2>1. Prefix(table, k + 1) \in [1..(k + 1) -> Nat]
    BY <1>2 DEF Prefix
  <2> QED
    BY <2>1, SeqDef, LenProperties
<1> DEFINE longer == Append(Prefix(table, k), table[k + 1].tweet)
<1>5. longer \in Seq(Nat) /\ Len(longer) = k + 1
  BY <1>2, <1>3, AppendProperties
<1>6. \A i \in 1..(k + 1) : longer[i] = Prefix(table, k + 1)[i]
  <2> SUFFICES ASSUME NEW i \in 1..(k + 1) PROVE longer[i] = Prefix(table, k + 1)[i]
    OBVIOUS
  <2>1. CASE i \in 1..k
    <3>1. longer[i] = Prefix(table, k)[i]
      BY <2>1, <1>2, <1>3, AppendProperties
    <3> QED
      BY <3>1, <2>1 DEF Prefix
  <2>2. CASE i = k + 1
    <3>1. longer[i] = table[k + 1].tweet
      BY <2>2, <1>2, <1>3, AppendProperties
    <3> QED
      BY <3>1, <2>2 DEF Prefix
  <2>3. i \in 1..k \/ i = k + 1
    OBVIOUS
  <2> QED
    BY <2>1, <2>2, <2>3
<1>7. longer = Prefix(table, k + 1)
  <2> HIDE DEF longer
  <2> QED
    BY <1>4, <1>5, <1>6, SeqEqual
<1> QED
  BY <1>3, <1>7

LEMMA PublishedPrefix ==
    ASSUME NEW table \in Seq(ItemRow), NEW m \in 0..Len(table),
           \A i \in 1..Len(table) : table[i].tweet # NoTweet <=> i <= m
    PROVE  PublishedItems(table) = Prefix(table, m)
<1> DEFINE upTo(k) == IF k <= m THEN k ELSE m
           body(g) ==
             [k \in 0..Len(table) |->
                IF k = 0 THEN <<>>
                ELSE IF table[k].tweet # NoTweet THEN Append(g[k - 1], table[k].tweet)
                ELSE g[k - 1]]
           want == [k \in 0..Len(table) |-> Prefix(table, upTo(k))]
           upto == CHOOSE g : g = body(g)
<1>1. Len(table) \in Nat /\ m \in Nat /\ m <= Len(table)
  OBVIOUS
<1>2. Prefix(table, upTo(0)) = <<>>
  <2>1. upTo(0) = 0
    BY <1>1
  <2> QED
    BY <2>1 DEF Prefix
<1>3. ASSUME NEW k \in Nat, k + 1 \in 1..Len(table)
      PROVE  Prefix(table, upTo(k + 1)) =
               IF table[k + 1].tweet # NoTweet
               THEN Append(Prefix(table, upTo(k)), table[k + 1].tweet)
               ELSE Prefix(table, upTo(k))
  <2>1. CASE k + 1 <= m
    <3>1. upTo(k + 1) = k + 1 /\ upTo(k) = k
      BY <2>1, <1>1
    <3> QED
      BY <3>1, <2>1, <1>3, PrefixGrows
  <2>2. CASE ~ (k + 1 <= m)
    <3>1. upTo(k + 1) = m /\ upTo(k) = m
      BY <2>2, <1>1
    <3> QED
      BY <3>1, <2>2, <1>3
  <2> QED
    BY <2>1, <2>2
<1> HIDE DEF upTo
<1>4. want = body(want)
  <2> SUFFICES ASSUME NEW k \in 0..Len(table) PROVE want[k] = body(want)[k]
    OBVIOUS
  <2>1. CASE k = 0
    BY <2>1, <1>1, <1>2
  <2>2. CASE k # 0
    <3>1. PICK j \in Nat : k = j + 1
      <4>1. k - 1 \in Nat /\ k = (k - 1) + 1
        BY <2>2, <1>1
      <4> QED
        BY <4>1
    <3>2. j \in 0..Len(table) /\ j + 1 \in 1..Len(table) /\ k - 1 = j
      BY <3>1, <1>1
    <3>3. want[j] = Prefix(table, upTo(j)) /\ want[k] = Prefix(table, upTo(j + 1))
      BY <3>1, <3>2
    <3> QED
      BY <3>1, <3>2, <3>3, <2>2, <1>3
  <2> QED
    BY <2>1, <2>2
<1>5. upto = body(upto)
  <2> HIDE DEF want, body
  <2> QED
    BY <1>4
<1>6. upto[0] = <<>>
  <2> HIDE DEF upto
  <2> QED
    BY <1>5, <1>1
<1>7. ASSUME NEW k \in Nat, k + 1 \in 1..Len(table)
      PROVE  upto[k + 1] = IF table[k + 1].tweet # NoTweet
                           THEN Append(upto[k], table[k + 1].tweet)
                           ELSE upto[k]
  <2> HIDE DEF upto
  <2>1. k + 1 \in 0..Len(table) /\ k + 1 # 0 /\ (k + 1) - 1 = k
    BY <1>1, <1>7
  <2> QED
    BY <2>1, <1>5
<1> HIDE DEF upto
<1>8. \A k \in 0..Len(table) : upto[k] = Prefix(table, upTo(k))
  <2> DEFINE T == {k \in Nat : k <= Len(table) => upto[k] = Prefix(table, upTo(k))}
  <2>1. 0 \in T
    BY <1>2, <1>6
  <2>2. ASSUME NEW k \in Nat, k \in T PROVE k + 1 \in T
    <3> SUFFICES ASSUME k + 1 <= Len(table)
                 PROVE  upto[k + 1] = Prefix(table, upTo(k + 1))
      OBVIOUS
    <3>1. k <= Len(table) /\ k + 1 \in 1..Len(table)
      BY <1>1
    <3>2. upto[k] = Prefix(table, upTo(k))
      BY <2>2, <3>1
    <3> QED
      BY <3>1, <3>2, <1>3, <1>7
  <2>3. Nat \subseteq T
    <3> HIDE DEF T
    <3> QED
      BY <2>1, <2>2, SetInduction
  <2> QED
    BY <2>3, <1>1
<1>9. PublishedItems(table) = upto[Len(table)]
  BY DEF PublishedItems, upto
<1>10. upTo(Len(table)) = m
  BY <1>1 DEF upTo
<1> QED
  BY <1>1, <1>8, <1>9, <1>10

-----------------------------------------------------------------------------
(* What the reader sees of the writers only ever becomes more settled: a   *)
(* final status stays, a tweet keeps its id, a deleted one stays deleted.  *)
LEMMA Settling ==
    ASSUME IInv, [Next]_vars
    PROVE  /\ \A c \in Call : posts[c] \in {"published", "failed"} => posts'[c] = posts[c]
           /\ \A id \in 1..Len(tweets) : id \in 1..Len(tweets') /\ tweets'[id] = tweets[id]
           /\ deleted \subseteq deleted'
<1> USE DEF IInv
<1>1. \A c \in Call : posts[c] \in {"published", "failed"} => pc[c] \notin Await
  BY DEF CallInv, StatusInv, NoRow
<1>2. \A c \in Call : posts[c] \in {"published", "failed"} => posts'[c] = posts[c]
  BY <1>1 DEF Next, Step, CreatePost, CreateItem, Send, RecordItem, FailItem, Rollback, FailPost,
              PublishPost, Crash, LateTweet, LateDelete, vars, rows, twitter, locals, Await, TypeOK
<1>3. tweets' = tweets \/ \E tweet \in Tweet : tweets' = Append(tweets, tweet)
  <2>1. \A c \in Call : NextTweet(c) \in Tweet
    BY DEF NextTweet, Tweet, Previous, NoTweet, TypeOK
  <2>2. ASSUME NEW c \in Call, Step(c) \/ Crash(c)
        PROVE  tweets' = tweets \/ tweets' = Append(tweets, NextTweet(c))
    BY <2>2 DEF Step, CreatePost, CreateItem, Send, RecordItem, FailItem, Rollback, FailPost,
                PublishPost, Crash, rows, twitter
  <2>3. CASE LateTweet
    BY <2>3 DEF LateTweet, TypeOK
  <2>4. CASE LateDelete \/ UNCHANGED vars
    BY <2>4 DEF LateDelete, vars, twitter
  <2> QED
    BY <2>1, <2>2, <2>3, <2>4 DEF Next
<1>4. \A id \in 1..Len(tweets) : id \in 1..Len(tweets') /\ tweets'[id] = tweets[id]
  <2>1. tweets \in Seq(Tweet) /\ Len(tweets) \in Nat
    BY DEF TypeOK
  <2> QED
    BY <1>3, <2>1
<1>5. deleted \subseteq deleted'
  BY DEF Next, Step, CreatePost, CreateItem, Send, RecordItem, FailItem, Rollback, FailPost,
         PublishPost, Crash, LateTweet, LateDelete, vars, rows, twitter
<1> QED
  BY <1>2, <1>4, <1>5

(* The rows a request finds are those of the thread from its start: the    *)
(* first m, where m counts the posted tweets and the one in doubt when its *)
(* row names it.                                                           *)
LEMMA RowsAreThread ==
    ASSUME IInv, NEW c \in Call
    PROVE  \E m \in 0..Len(items[c]) :
             /\ \A i \in 1..Len(items[c]) : items[c][i].tweet # NoTweet <=> i <= m
             /\ \A i \in 1..m :
                   /\ items[c][i].tweet \in 1..Len(tweets)
                   /\ tweets[items[c][i].tweet].call = c
                   /\ tweets[items[c][i].tweet].item = i
             /\ posts[c] = "published" => m = Size[c]
             /\ posts[c] = "failed" /\ TakenDown =>
                   \A i \in 1..m : items[c][i].tweet \in deleted
<1>1. /\ n(c) \in Nat /\ Len(items[c]) \in Nat /\ Size[c] \in Nat
      /\ n(c) <= Len(items[c]) /\ Len(items[c]) <= Size[c]
  BY SizeAssumption DEF IInv, TypeOK, CallInv, RowInv, n
<1>2. ASSUME NEW i \in 1..n(c)
      PROVE  items[c][i].tweet = posted[c][i] /\ items[c][i].tweet # NoTweet
  <2>1. items[c][i] = [status |-> "published", tweet |-> posted[c][i]]
    BY DEF IInv, CallInv, RowInv
  <2>2. posted[c][i] \in 1..Len(tweets)
    BY PostedTweet
  <2> QED
    BY <2>1, <2>2 DEF NoTweet
<1>3. \A i \in 1..Len(items[c]) : i > n(c) + 1 => items[c][i].tweet = NoTweet
  BY DEF IInv, CallInv, RowInv, Draft
<1>4. \A i \in 1..n(c) : /\ items[c][i].tweet \in 1..Len(tweets)
                         /\ tweets[items[c][i].tweet].call = c
                         /\ tweets[items[c][i].tweet].item = i
  BY <1>2, PostedTweet
<1>5. posts[c] = "published" => n(c) = Size[c]
  BY DEF IInv, CallInv, StatusInv
<1>6. posts[c] = "failed" /\ TakenDown => \A i \in 1..n(c) : items[c][i].tweet \in deleted
  BY <1>2 DEF TakenDown, RollbackInv, GoneWhenFailed
<1>7. CASE n(c) = Len(items[c]) \/ items[c][n(c) + 1].tweet = NoTweet
  <2>1. \A i \in 1..Len(items[c]) : items[c][i].tweet # NoTweet <=> i <= n(c)
    <3> SUFFICES ASSUME NEW i \in 1..Len(items[c])
                 PROVE  items[c][i].tweet # NoTweet <=> i <= n(c)
      OBVIOUS
    <3>1. i \in 1..n(c) \/ i = n(c) + 1 \/ i > n(c) + 1
      BY <1>1
    <3> QED
      BY <3>1, <1>1, <1>2, <1>3, <1>7
  <2>2. n(c) \in 0..Len(items[c])
    BY <1>1
  <2> QED
    BY <2>1, <2>2, <1>4, <1>5, <1>6
<1>8. CASE n(c) < Len(items[c]) /\ items[c][n(c) + 1].tweet # NoTweet
  <2>1. /\ items[c][n(c) + 1].tweet \in 1..Len(tweets)
        /\ tweets[items[c][n(c) + 1].tweet].call = c
        /\ tweets[items[c][n(c) + 1].tweet].item = n(c) + 1
    BY <1>8 DEF IInv, CallInv, RowInv, Draft, Failed
  <2>2. posts[c] = "failed" => ~ TakenDown
    BY <1>8 DEF TakenDown, RollbackInv, NotRolledBack
  <2>3. posts[c] # "published"
    BY <1>1, <1>5, <1>8
  <2>4. \A i \in 1..Len(items[c]) : items[c][i].tweet # NoTweet <=> i <= n(c) + 1
    <3> SUFFICES ASSUME NEW i \in 1..Len(items[c])
                 PROVE  items[c][i].tweet # NoTweet <=> i <= n(c) + 1
      OBVIOUS
    <3>1. i \in 1..n(c) \/ i = n(c) + 1 \/ i > n(c) + 1
      BY <1>1
    <3> QED
      BY <3>1, <1>1, <1>2, <1>3, <1>8
  <2>5. \A i \in 1..(n(c) + 1) : /\ items[c][i].tweet \in 1..Len(tweets)
                                 /\ tweets[items[c][i].tweet].call = c
                                 /\ tweets[items[c][i].tweet].item = i
    <3> SUFFICES ASSUME NEW i \in 1..(n(c) + 1)
                 PROVE  /\ items[c][i].tweet \in 1..Len(tweets)
                        /\ tweets[items[c][i].tweet].call = c
                        /\ tweets[items[c][i].tweet].item = i
      OBVIOUS
    <3>1. i \in 1..n(c) \/ i = n(c) + 1
      BY <1>1
    <3> QED
      BY <3>1, <1>4, <2>1
  <2>6. n(c) + 1 \in 0..Len(items[c])
    BY <1>1, <1>8
  <2> QED
    BY <2>2, <2>3, <2>4, <2>5, <2>6
<1> QED
  BY <1>1, <1>7, <1>8

-----------------------------------------------------------------------------
(* The invariant of the reader: while it is busy it knows a post whose     *)
(* status, when final, still stands, ...                                   *)
KnowsPost ==
    /\ post.call \in Call
    /\ post.status \in {"published", "failed"} => posts[post.call] = post.status

(* ... and what it has asked for and what it has still to ask for are, in  *)
(* this order, the thread's tweets from its start: all of them when the    *)
(* post read published, deleted ones when it read failed, with nothing of  *)
(* them answered.                                                          *)
KnowsTweets ==
    /\ ids \in Seq(Nat) /\ metrics \in Seq(Nat)
    /\ \A i \in 1..Len(metrics) :
          /\ metrics[i] \in 1..Len(tweets)
          /\ tweets[metrics[i]].call = post.call
          /\ tweets[metrics[i]].item = i
    /\ \A i \in 1..Len(ids) :
          /\ ids[i] \in 1..Len(tweets)
          /\ tweets[ids[i]].call = post.call
          /\ tweets[ids[i]].item = Len(metrics) + i
    /\ post.status = "published" => Len(metrics) + Len(ids) = Size[post.call]
    /\ post.status = "failed" /\ "delete" \notin Faults =>
          metrics = <<>> /\ \A i \in 1..Len(ids) : ids[i] \in deleted

ReaderInv ==
    /\ reader \in {"idle", "read_items", "get_tweet", "answered", "failed"}
    /\ reader \in {"idle", "read_items"} => metrics = <<>>
    /\ reader \in {"read_items", "get_tweet", "answered"} => KnowsPost
    /\ reader \in {"get_tweet", "answered"} => KnowsTweets
    /\ reader = "get_tweet" => ids # <<>>
    /\ reader = "answered" => ids = <<>>

(* A step of a writer takes nothing of it away.                            *)
LEMMA WriterStep ==
    ASSUME IInv, ReaderInv, [Next]_vars, UNCHANGED reading
    PROVE  ReaderInv'
<1> USE DEF reading
<1>1. KnowsPost => KnowsPost'
  BY Settling DEF KnowsPost
<1>2. KnowsPost /\ KnowsTweets => KnowsTweets'
  <2> SUFFICES ASSUME KnowsPost, KnowsTweets PROVE KnowsTweets'
    OBVIOUS
  <2>1. \A i \in 1..Len(metrics) :
          /\ metrics[i] \in 1..Len(tweets')
          /\ tweets'[metrics[i]].call = post.call
          /\ tweets'[metrics[i]].item = i
    BY Settling DEF KnowsTweets
  <2>2. \A i \in 1..Len(ids) :
          /\ ids[i] \in 1..Len(tweets')
          /\ tweets'[ids[i]].call = post.call
          /\ tweets'[ids[i]].item = Len(metrics) + i
    BY Settling DEF KnowsTweets
  <2>3. deleted \subseteq deleted'
    BY Settling
  <2> QED
    BY <2>1, <2>2, <2>3 DEF KnowsTweets
<1> QED
  BY <1>1, <1>2 DEF ReaderInv

LEMMA ReadPostStep ==
    ASSUME ReaderInv, NEW c \in Call, ReadPost(c)
    PROVE  ReaderInv'
BY DEF ReadPost, Fail, ReaderInv, KnowsPost, vars, rows

LEMMA ReadItemsStep ==
    ASSUME IInv, "delete" \notin Faults => TakenDown, ReaderInv, ReadItems
    PROVE  ReaderInv'
<1>1. CASE Fail
  BY <1>1 DEF Fail, ReaderInv
<1>2. CASE ids' = PublishedItems(items[post.call]) /\ Continue(ids') /\ UNCHANGED <<post, metrics>>
  <2> DEFINE c == post.call
             table == items[c]
  <2>1. UNCHANGED <<posts, tweets, deleted>>
    BY DEF ReadItems, vars, rows, twitter
  <2>2. KnowsPost /\ metrics = <<>>
    BY DEF ReadItems, ReaderInv
  <2>3. c \in Call /\ table \in Seq(ItemRow)
    BY <2>2 DEF KnowsPost, IInv, TypeOK
  <2> HIDE DEF c
  <2>4. PICK m \in 0..Len(table) :
          /\ \A i \in 1..Len(table) : table[i].tweet # NoTweet <=> i <= m
          /\ \A i \in 1..m :
                /\ table[i].tweet \in 1..Len(tweets)
                /\ tweets[table[i].tweet].call = c
                /\ tweets[table[i].tweet].item = i
          /\ posts[c] = "published" => m = Size[c]
          /\ posts[c] = "failed" /\ TakenDown => \A i \in 1..m : table[i].tweet \in deleted
    BY <2>3, RowsAreThread
  <2> HIDE DEF table
  <2>5. ids' = Prefix(table, m)
    <3>1. ids' = PublishedItems(table)
      BY <1>2 DEF table, c
    <3> QED
      BY <3>1, <2>3, <2>4, PublishedPrefix
  <2>6. m \in Nat /\ Len(tweets) \in Nat
    <3>1. Len(table) \in Nat /\ Len(tweets) \in Nat
      BY <2>3 DEF IInv, TypeOK
    <3> QED
      BY <3>1
  <2>7. ids' \in Seq(Nat) /\ Len(ids') = m /\ \A i \in 1..m : ids'[i] = table[i].tweet
    <3>1. Prefix(table, m) \in [1..m -> Nat]
      BY <2>4, <2>6 DEF Prefix
    <3>2. Prefix(table, m) \in Seq(Nat) /\ Len(Prefix(table, m)) = m
      BY <3>1, <2>6, SeqDef, LenProperties
    <3> QED
      BY <3>2, <2>5 DEF Prefix
  <2>8. KnowsPost'
    BY <1>2, <2>1, <2>2 DEF KnowsPost
  <2>9. KnowsTweets'
    <3>1. metrics' = <<>> /\ Len(metrics') = 0 /\ metrics' \in Seq(Nat) /\ post'.call = c
          /\ post'.status = post.status
      BY <1>2, <2>2 DEF c
    <3>2. \A i \in 1..Len(ids') : /\ ids'[i] \in 1..Len(tweets')
                                  /\ tweets'[ids'[i]].call = c
                                  /\ tweets'[ids'[i]].item = Len(metrics') + i
      BY <3>1, <2>1, <2>4, <2>6, <2>7
    <3>3. post.status = "published" => Len(metrics') + Len(ids') = Size[c]
      <4>1. post.status = "published" => m = Size[c]
        BY <2>2, <2>4 DEF KnowsPost, c
      <4> QED
        BY <4>1, <3>1, <2>6, <2>7
    <3>4. post.status = "failed" /\ "delete" \notin Faults =>
            \A i \in 1..Len(ids') : ids'[i] \in deleted'
      BY <2>1, <2>2, <2>4, <2>7 DEF KnowsPost, c
    <3>5. \A i \in 1..Len(metrics') : FALSE
      BY <3>1
    <3> QED
      BY <3>1, <3>2, <3>3, <3>4, <3>5, <2>7 DEF KnowsTweets
  <2> QED
    BY <1>2, <2>8, <2>9 DEF Continue, ReaderInv
<1> QED
  BY <1>1, <1>2 DEF ReadItems

LEMMA GetTweetStep ==
    ASSUME ReaderInv, GetTweet
    PROVE  ReaderInv'
<1>1. CASE Fail
  BY <1>1 DEF Fail, ReaderInv
<1>2. CASE /\ Head(ids) \notin deleted
           /\ metrics' = Append(metrics, Head(ids))
           /\ ids' = Tail(ids)
           /\ Continue(ids')
           /\ UNCHANGED post
  <2>1. UNCHANGED <<posts, tweets, deleted>>
    BY DEF GetTweet, vars, rows, twitter
  <2>2. KnowsPost /\ KnowsTweets /\ ids # <<>>
    BY DEF GetTweet, ReaderInv
  <2>3. /\ ids \in Seq(Nat) /\ metrics \in Seq(Nat) /\ Len(ids) \in Nat /\ Len(metrics) \in Nat
        /\ Len(ids) >= 1 /\ Head(ids) = ids[1] /\ 1 \in 1..Len(ids)
    BY <2>2 DEF KnowsTweets
  <2>4. /\ ids' \in Seq(Nat) /\ Len(ids') = Len(ids) - 1
        /\ \A i \in 1..Len(ids') : ids'[i] = ids[i + 1] /\ i + 1 \in 1..Len(ids)
    BY <1>2, <2>3, HeadTailProperties
  <2>5. /\ metrics' \in Seq(Nat) /\ Len(metrics') = Len(metrics) + 1
        /\ \A i \in 1..Len(metrics) : metrics'[i] = metrics[i]
        /\ metrics'[Len(metrics) + 1] = ids[1]
    <3>1. ids[1] \in Nat
      BY <2>3, ElementOfSeq
    <3> QED
      BY <3>1, <1>2, <2>3, AppendProperties
  <2>6. KnowsPost'
    BY <1>2, <2>1, <2>2 DEF KnowsPost
  <2>7. \A i \in 1..Len(metrics') :
          /\ metrics'[i] \in 1..Len(tweets)
          /\ tweets[metrics'[i]].call = post.call
          /\ tweets[metrics'[i]].item = i
    <3> SUFFICES ASSUME NEW i \in 1..Len(metrics')
                 PROVE  /\ metrics'[i] \in 1..Len(tweets)
                        /\ tweets[metrics'[i]].call = post.call
                        /\ tweets[metrics'[i]].item = i
      OBVIOUS
    <3>1. CASE i \in 1..Len(metrics)
      BY <3>1, <2>2, <2>5 DEF KnowsTweets
    <3>2. CASE i = Len(metrics) + 1
      BY <3>2, <2>2, <2>3, <2>5 DEF KnowsTweets
    <3> QED
      BY <3>1, <3>2, <2>3, <2>5
  <2>8. \A i \in 1..Len(ids') :
          /\ ids'[i] \in 1..Len(tweets)
          /\ tweets[ids'[i]].call = post.call
          /\ tweets[ids'[i]].item = Len(metrics') + i
    <3> SUFFICES ASSUME NEW i \in 1..Len(ids')
                 PROVE  /\ ids'[i] \in 1..Len(tweets)
                        /\ tweets[ids'[i]].call = post.call
                        /\ tweets[ids'[i]].item = Len(metrics') + i
      OBVIOUS
    <3>1. ids'[i] = ids[i + 1] /\ i + 1 \in 1..Len(ids)
      BY <2>4
    <3>2. /\ ids[i + 1] \in 1..Len(tweets)
          /\ tweets[ids[i + 1]].call = post.call
          /\ tweets[ids[i + 1]].item = Len(metrics) + (i + 1)
      BY <3>1, <2>2 DEF KnowsTweets
    <3>3. Len(metrics) + (i + 1) = Len(metrics') + i
      BY <2>3, <2>4, <2>5
    <3> QED
      BY <3>1, <3>2, <3>3
  <2>9. Len(metrics') + Len(ids') = Len(metrics) + Len(ids)
    BY <2>3, <2>4, <2>5
  <2>10. ~ (post.status = "failed" /\ "delete" \notin Faults)
    BY <1>2, <2>2, <2>3 DEF KnowsTweets
  <2>11. KnowsTweets'
    BY <1>2, <2>1, <2>2, <2>4, <2>5, <2>7, <2>8, <2>9, <2>10 DEF KnowsTweets
  <2> QED
    BY <1>2, <2>6, <2>11 DEF Continue, ReaderInv
<1> QED
  BY <1>1, <1>2 DEF GetTweet, GetAnswer, HasData

LEMMA ReaderStep ==
    ASSUME IInv, "delete" \notin Faults => TakenDown, ReaderInv, [ReaderNext]_allVars
    PROVE  ReaderInv'
<1>1. CASE Next /\ UNCHANGED reading
  BY <1>1, WriterStep
<1>2. CASE UNCHANGED allVars
  BY <1>2, WriterStep DEF allVars
<1> QED
  BY <1>1, <1>2, ReadPostStep, ReadItemsStep, GetTweetStep DEF ReaderNext

(* Readers change nothing, so what holds of the writers holds beside them. *)
LEMMA ReaderRunsSpec == ReaderSpec => Spec
<1>1. ReaderInit => Init
  BY DEF ReaderInit
<1>2. [ReaderNext]_allVars => [Next]_vars
  BY DEF ReaderNext, ReadPost, ReadItems, GetTweet, allVars
<1> QED
  BY <1>1, <1>2, PTL DEF ReaderSpec, Spec

LEMMA ReaderInitStep == ReaderInit => ReaderInv
BY DEF ReaderInit, ReaderInv

(* Whatever the writers do between its reads, get_thread_analytics knows a *)
(* post that still stands and tweets that are a prefix of the thread.      *)
THEOREM ReaderInductive == ReaderSpec => []ReaderInv
<1>1. CASE "delete" \notin Faults
  <2>1. Spec => []TakenDown
    BY <1>1, RollbackInductive
  <2>2. IInv /\ TakenDown /\ ReaderInv /\ [ReaderNext]_allVars => ReaderInv'
    BY ReaderStep
  <2> QED
    BY <2>1, <2>2, ReaderInitStep, ReaderRunsSpec, Inductive, PTL DEF ReaderSpec
<1>2. CASE "delete" \in Faults
  <2>1. IInv /\ ReaderInv /\ [ReaderNext]_allVars => ReaderInv'
    BY <1>2, ReaderStep
  <2> QED
    BY <2>1, ReaderInitStep, ReaderRunsSpec, Inductive, PTL DEF ReaderSpec
<1> QED
  BY <1>1, <1>2

(* The metrics that thread analytics answers with are the thread's from    *)
(* its start, in order and without a gap: of all of it when the post read  *)
(* published, and of none of it when the post read failed and Twitter      *)
(* answers the DELETEs (twitter_analytics_service.py,                      *)
(* get_thread_analytics), whatever the writer does between the reads.      *)
THEOREM AnalyticsAreOfTheThread == ReaderSpec => []AnalyticsTellThread
<1>1. ReaderInv => AnalyticsTellThread
  <2> SUFFICES ASSUME ReaderInv, reader = "answered" PROVE AnalyticsTellThread
    BY DEF AnalyticsTellThread
  <2>1. KnowsTweets /\ ids = <<>>
    BY DEF ReaderInv
  <2>2. Len(metrics) + Len(ids) = Len(metrics)
    BY <2>1 DEF KnowsTweets
  <2> QED
    BY <2>1, <2>2 DEF AnalyticsTellThread, KnowsTweets
<1> QED
  BY <1>1, ReaderInductive, PTL
=============================================================================
