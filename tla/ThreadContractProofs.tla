------------------------ MODULE ThreadContractProofs ------------------------
(***************************************************************************)
(* post_thread implements PublishContract: every step of ThreadPosting is  *)
(* a step of the contract or changes nothing a reader can see.             *)
(***************************************************************************)
EXTENDS ThreadPostingProofs

(* The refinement mapping, one call at a time.                             *)
St(c) == IF posts[c] = NoRow THEN "none" ELSE posts[c]
Ap(c) == {tweets[id].item : id \in MadeBy(c)}
Lv(c) == {tweets[id].item : id \in MadeBy(c) \cap Live}

(* No tweet is made or on its way for a post that has no row.              *)
Unopened ==
    \A c \in Call : posts[c] = NoRow =>
        /\ \A id \in 1..Len(tweets) : tweets[id].call # c
        /\ \A t \in inflight : t.call # c

LEMMA UnopenedStep ==
    ASSUME IInv, Unopened, [Next]_vars
    PROVE  Unopened'
<1> SUFFICES ASSUME NEW d \in Call, posts'[d] = NoRow
             PROVE  /\ \A id \in 1..Len(tweets') : tweets'[id].call # d
                    /\ \A t \in inflight' : t.call # d
  BY DEF Unopened
<1>1. posts[d] = NoRow
  BY DEF IInv, TypeOK, CallInv, StatusInv, Next, Step, CreatePost, CreateItem, Send,
         RecordItem, FailItem, Rollback, FailPost, PublishPost, Crash, LateTweet, LateDelete,
         UpdatePostStatus, NoRow, rows, twitter, locals, vars
<1>2. /\ \A id \in 1..Len(tweets) : tweets[id].call # d
      /\ \A t \in inflight : t.call # d
  BY <1>1 DEF Unopened
<1>3. tweets \in Seq(Tweet)
  BY DEF IInv, TypeOK
<1>4. ASSUME NEW c \in Call, Send(c)
      PROVE  /\ \A id \in 1..Len(tweets') : tweets'[id].call # d
             /\ \A t \in inflight' : t.call # d
  <2>1. c # d
    <3>1. posts[c] = "publishing"
      BY <1>4 DEF IInv, CallInv, StatusInv, Send, Await
    <3> QED
      BY <3>1, <1>1 DEF NoRow
  <2>2. NextTweet(c) \in Tweet /\ NextTweet(c).call # d
    BY <2>1 DEF NextTweet, Tweet, Previous, NoTweet, IInv, TypeOK
  <2>3. /\ tweets' = tweets \/ tweets' = Append(tweets, NextTweet(c))
        /\ inflight' = inflight \/ inflight' = inflight \cup {NextTweet(c)}
    BY <1>4 DEF Send
  <2> QED
    BY <2>2, <2>3, <1>2, <1>3
<1>5. CASE LateTweet
  <2>1. PICK t \in inflight : tweets' = Append(tweets, t) /\ inflight' = inflight \ {t}
    BY <1>5 DEF LateTweet
  <2>2. t \in Tweet /\ t.call # d
    BY <1>2 DEF IInv, TypeOK
  <2> QED
    BY <2>1, <2>2, <1>2, <1>3
<1>6. CASE UNCHANGED <<tweets, inflight>>
  BY <1>6, <1>2
<1> QED
  BY <1>4, <1>5, <1>6 DEF Next, Step, CreatePost, CreateItem, RecordItem, FailItem, Rollback,
     FailPost, PublishPost, Crash, LateDelete, twitter, vars

(* post_thread makes no tweet before the row of its post: none is at       *)
(* Twitter, or on its way there, for a post that has no row.               *)
THEOREM NoTweetUnopened == Spec => []Unopened
<1>1. Init => Unopened
  BY DEF Init, Unopened
<1>2. IInv /\ Unopened /\ [Next]_vars => Unopened'
  BY UnopenedStep
<1> QED
  BY <1>1, <1>2, Inductive, PTL DEF Spec

-----------------------------------------------------------------------------
(* How a new tweet and a deletion show in the mapping.                     *)
LEMMA NewTweet ==
    ASSUME IInv, NEW t \in Tweet, tweets' = Append(tweets, t), deleted' = deleted,
           NEW d \in Call
    PROVE  /\ Ap(d)' = IF d = t.call THEN Ap(d) \cup {t.item} ELSE Ap(d)
           /\ Lv(d)' = IF d = t.call THEN Lv(d) \cup {t.item} ELSE Lv(d)
<1>1. tweets \in Seq(Tweet) /\ Len(tweets) \in Nat
  BY DEF IInv, TypeOK
<1>2. /\ Len(tweets') = Len(tweets) + 1
      /\ \A id \in 1..Len(tweets) : tweets'[id] = tweets[id]
      /\ tweets'[Len(tweets) + 1] = t
  BY <1>1
<1>3. Len(tweets) + 1 \notin deleted
  BY <1>1 DEF IInv, CallInv, DeleteInv
<1>4. 1..Len(tweets') = 1..Len(tweets) \cup {Len(tweets) + 1}
  BY <1>1, <1>2
<1>5. Len(tweets) + 1 \notin 1..Len(tweets)
  BY <1>1
<1>6. MadeBy(d)' = MadeBy(d) \cup (IF d = t.call THEN {Len(tweets) + 1} ELSE {})
  BY <1>2, <1>4 DEF MadeBy
<1>7. Live' = Live \cup {Len(tweets) + 1}
  BY <1>3, <1>4 DEF Live
<1>8. \A id \in MadeBy(d) : tweets'[id] = tweets[id]
  BY <1>2 DEF MadeBy
<1>9. Len(tweets) + 1 \notin MadeBy(d)
  BY <1>5 DEF MadeBy
<1>10. MadeBy(d) \subseteq 1..Len(tweets)
  BY DEF MadeBy
<1>11. (MadeBy(d) \cap Live)' =
          (MadeBy(d) \cap Live) \cup (IF d = t.call THEN {Len(tweets) + 1} ELSE {})
  BY <1>5, <1>6, <1>7, <1>10
<1>12. Ap(d)' = IF d = t.call THEN Ap(d) \cup {t.item} ELSE Ap(d)
  <2>1. Ap(d)' = {tweets'[id].item : id \in MadeBy(d)'}
    BY DEF Ap
  <2>2. CASE d = t.call
    <3>1. MadeBy(d)' = MadeBy(d) \cup {Len(tweets) + 1}
      BY <2>2, <1>6
    <3>2. Ap(d)' = {tweets'[id].item : id \in MadeBy(d)}
                     \cup {tweets'[Len(tweets) + 1].item}
      BY <2>1, <3>1
    <3>3. {tweets'[id].item : id \in MadeBy(d)} = Ap(d)
      BY <1>8 DEF Ap
    <3> QED
      BY <2>2, <3>2, <3>3, <1>2
  <2>3. CASE d # t.call
    <3>1. MadeBy(d)' = MadeBy(d)
      BY <2>3, <1>6
    <3> QED
      BY <2>1, <2>3, <3>1, <1>8 DEF Ap
  <2> QED
    BY <2>2, <2>3
<1>13. Lv(d)' = IF d = t.call THEN Lv(d) \cup {t.item} ELSE Lv(d)
  <2>1. \A id \in MadeBy(d) \cap Live : tweets'[id] = tweets[id]
    BY <1>8
  <2>2. Lv(d)' = {tweets'[id].item : id \in (MadeBy(d) \cap Live)'}
    BY DEF Lv
  <2>3. CASE d = t.call
    <3>1. (MadeBy(d) \cap Live)' = (MadeBy(d) \cap Live) \cup {Len(tweets) + 1}
      BY <2>3, <1>11
    <3>2. Lv(d)' = {tweets'[id].item : id \in MadeBy(d) \cap Live}
                     \cup {tweets'[Len(tweets) + 1].item}
      BY <2>2, <3>1
    <3>3. {tweets'[id].item : id \in MadeBy(d) \cap Live} = Lv(d)
      BY <2>1 DEF Lv
    <3> QED
      BY <2>3, <3>2, <3>3, <1>2
  <2>4. CASE d # t.call
    <3>1. (MadeBy(d) \cap Live)' = MadeBy(d) \cap Live
      BY <2>4, <1>11
    <3> QED
      BY <2>1, <2>2, <2>4, <3>1 DEF Lv
  <2> QED
    BY <2>3, <2>4
<1> QED
  BY <1>12, <1>13

LEMMA Deletion ==
    ASSUME IInv, NEW id \in 1..Len(tweets), tweets' = tweets,
           deleted' = deleted \cup {id}, NEW d \in Call
    PROVE  /\ Ap(d)' = Ap(d)
           /\ Lv(d)' = IF d = tweets[id].call THEN Lv(d) \ {tweets[id].item} ELSE Lv(d)
<1>1. Ap(d)' = Ap(d) /\ MadeBy(d)' = MadeBy(d)
  BY DEF Ap, MadeBy
<1>2. Live' = Live \ {id}
  BY DEF Live
<1>3. \A a, b \in MadeBy(d) : tweets[a].item = tweets[b].item => a = b
  BY IInvAtMostOnce DEF AtMostOnce, MadeBy
<1>4. MadeBy(d) = {a \in 1..Len(tweets) : tweets[a].call = d}
  BY DEF MadeBy
<1>5. CASE d = tweets[id].call
  BY <1>1, <1>2, <1>3, <1>4, <1>5 DEF Lv
<1>6. CASE d # tweets[id].call
  BY <1>1, <1>2, <1>4, <1>6 DEF Lv
<1> QED
  BY <1>1, <1>5, <1>6

(* The variables of the contract are these functions of the call.          *)
LEMMA Shown ==
    ASSUME \A d \in Call : St(d)' = St(d) /\ Ap(d)' = Ap(d) /\ Lv(d)' = Lv(d)
    PROVE  UNCHANGED Contract!vars
BY DEF Contract!vars, St, Ap, Lv

(* A tweet that appears in its turn is a step of the contract.             *)
LEMMA ShownAppear ==
    ASSUME IInv, NEW c \in Call, NEW t \in Tweet, t.call = c,
           tweets' = Append(tweets, t), deleted' = deleted, posts' = posts,
           posts[c] \in {"publishing", "failed"},
           t.item = n(c) + 1, n(c) < Size[c],
           \A id \in 1..Len(tweets) : tweets[id].call = c => tweets[id].item # n(c) + 1
    PROVE  Contract!Appear(c, t.item) /\ t.item \in 1..Size[c]
<1>1. n(c) \in Nat /\ Size[c] \in Nat
  BY SizeAssumption DEF IInv, TypeOK, n
<1>2. t.item \in 1..Size[c]
  BY <1>1
<1>3. t.item \notin Ap(c)
  BY DEF Ap, MadeBy
<1>4. \A j \in 1..(t.item - 1) : j \in Ap(c)
  <2> SUFFICES ASSUME NEW j \in 1..n(c) PROVE j \in Ap(c)
    BY <1>1
  <2>1. posted[c][j] \in 1..Len(tweets)
        /\ tweets[posted[c][j]] =
             [call |-> c, item |-> j, reply |-> IF j = 1 THEN NoTweet ELSE posted[c][j - 1]]
    BY DEF IInv, CallInv, PostedInv
  <2> QED
    BY <2>1 DEF Ap, MadeBy
<1>5. \A d \in Call : /\ St(d)' = St(d)
                      /\ Ap(d)' = IF d = c THEN Ap(d) \cup {t.item} ELSE Ap(d)
                      /\ Lv(d)' = IF d = c THEN Lv(d) \cup {t.item} ELSE Lv(d)
  BY NewTweet DEF St
<1>6. [d \in Call |-> St(d)][c] \in {"publishing", "failed"}
  BY DEF St, NoRow
<1>7. [d \in Call |-> Ap(d)]' = [[d \in Call |-> Ap(d)] EXCEPT ![c] = @ \cup {t.item}]
  BY <1>5
<1>8. [d \in Call |-> Lv(d)]' = [[d \in Call |-> Lv(d)] EXCEPT ![c] = @ \cup {t.item}]
  BY <1>5
<1>9. [d \in Call |-> St(d)]' = [d \in Call |-> St(d)]
  BY <1>5
<1> QED
  BY <1>2, <1>3, <1>4, <1>6, <1>7, <1>8, <1>9 DEF Contract!Appear, St, Ap, Lv

(* So is a deletion, of a tweet that is still there.                       *)
LEMMA ShownVanish ==
    ASSUME IInv, NEW id \in 1..Len(tweets), NEW c \in Call, tweets[id].call = c,
           tweets' = tweets, deleted' = deleted \cup {id}, posts' = posts,
           posts[c] \in {"publishing", "failed"}
    PROVE  UNCHANGED Contract!vars \/ \E i \in 1..Size[c] : Contract!Vanish(c, i)
<1>1. CASE id \in deleted
  <2>1. deleted' = deleted
    BY <1>1
  <2> QED
    BY <2>1, Shown DEF St, Ap, Lv, MadeBy, Live
<1>2. CASE id \notin deleted
  <2>1. PICK i \in 1..Size[c] : i = tweets[id].item
    <3>1. n(c) \in Nat /\ Size[c] \in Nat /\ n(c) <= Len(items[c]) /\ Len(items[c]) <= Size[c]
          /\ Len(items[c]) \in Nat
      BY SizeAssumption DEF IInv, TypeOK, CallInv, RowInv, n
    <3>2. /\ tweets[id].item \in 1..(n(c) + 1)
          /\ tweets[id].item = n(c) + 1 => n(c) < Size[c]
      BY DEF IInv, CallInv, PostedInv, DoubtInv, MadeInDoubt
    <3> QED
      BY <3>1, <3>2
  <2>2. i \in Lv(c)
    BY <1>2, <2>1 DEF Lv, MadeBy, Live
  <2>3. \A d \in Call : /\ St(d)' = St(d)
                        /\ Ap(d)' = Ap(d)
                        /\ Lv(d)' = IF d = c THEN Lv(d) \ {i} ELSE Lv(d)
    BY Deletion, <2>1 DEF St
  <2>4. [d \in Call |-> St(d)][c] \in {"publishing", "failed"}
    BY DEF St, NoRow
  <2>5. [d \in Call |-> Lv(d)]' = [[d \in Call |-> Lv(d)] EXCEPT ![c] = @ \ {i}]
    BY <2>3
  <2>6. [d \in Call |-> St(d)]' = [d \in Call |-> St(d)]
        /\ [d \in Call |-> Ap(d)]' = [d \in Call |-> Ap(d)]
    BY <2>3
  <2>7. Contract!Vanish(c, i)
    BY <2>2, <2>4, <2>5, <2>6 DEF Contract!Vanish, St, Ap, Lv
  <2> QED
    BY <2>1, <2>7
<1> QED
  BY <1>1, <1>2

(* A statement on a post row changes the status alone.                     *)
LEMMA ShownStatus ==
    ASSUME NEW c \in Call, NEW st, posts \in [Call -> PostStatus \cup {NoRow}],
           posts' = [posts EXCEPT ![c] = st], st # NoRow,
           tweets' = tweets, deleted' = deleted
    PROVE  /\ [d \in Call |-> St(d)]' = [[d \in Call |-> St(d)] EXCEPT ![c] = st]
           /\ UNCHANGED <<[d \in Call |-> Ap(d)], [d \in Call |-> Lv(d)]>>
BY DEF St, Ap, Lv, MadeBy, Live

LEMMA ContractStep ==
    ASSUME IInv, Unopened, [Next]_vars
    PROVE  [Contract!Next]_Contract!vars
<1>0. posts \in [Call -> PostStatus \cup {NoRow}]
  BY DEF IInv, TypeOK
<1>1. CASE UNCHANGED <<posts, tweets, deleted>>
  BY <1>1, Shown DEF St, Ap, Lv, MadeBy, Live
<1>2. ASSUME NEW c \in Call, CreatePost(c) PROVE [Contract!Next]_Contract!vars
  <2>1. posts[c] = NoRow
    BY <1>2 DEF IInv, CallInv, StatusInv, CreatePost
  <2>2. posts' = posts \/ posts' = [posts EXCEPT ![c] = "publishing"]
    BY <1>2, <1>0, <2>1 DEF CreatePost, CreatePostRow
  <2>3. UNCHANGED <<tweets, deleted>>
    BY <1>2 DEF CreatePost, twitter
  <2>4. CASE posts' = [posts EXCEPT ![c] = "publishing"]
    <3>1. Contract!Open(c)
      BY <1>0, <2>1, <2>3, <2>4, ShownStatus DEF Contract!Open, St, Ap, Lv, NoRow
    <3> QED
      BY <3>1 DEF Contract!Next
  <2> QED
    BY <1>1, <2>2, <2>3, <2>4
<1>3. ASSUME NEW c \in Call, FailPost(c) PROVE [Contract!Next]_Contract!vars
  <2>1. posts[c] = "publishing"
    BY <1>3 DEF IInv, CallInv, StatusInv, FailPost, Await
  <2>2. posts' = posts \/ posts' = [posts EXCEPT ![c] = "failed"]
    BY <1>3, <1>0 DEF FailPost, UpdatePostStatus
  <2>3. UNCHANGED <<tweets, deleted>>
    BY <1>3 DEF FailPost, twitter
  <2>4. CASE posts' = [posts EXCEPT ![c] = "failed"]
    <3>1. Contract!Fail(c)
      BY <1>0, <2>1, <2>3, <2>4, ShownStatus DEF Contract!Fail, St, Ap, Lv, NoRow
    <3> QED
      BY <3>1 DEF Contract!Next
  <2> QED
    BY <1>1, <2>2, <2>3, <2>4
<1>4. ASSUME NEW c \in Call, PublishPost(c) PROVE [Contract!Next]_Contract!vars
  <2>1. posts[c] = "publishing" /\ n(c) = Size[c] /\ Size[c] \in Nat
    BY <1>4, SizeAssumption DEF IInv, CallInv, StatusInv, LocalInv, PublishPost, Await
  <2>2. posts' = posts \/ posts' = [posts EXCEPT ![c] = "published"]
    BY <1>4, <1>0 DEF PublishPost, UpdatePostStatus
  <2>3. UNCHANGED <<tweets, deleted>>
    BY <1>4 DEF PublishPost, twitter
  <2>4. CASE posts' = [posts EXCEPT ![c] = "published"]
    <3>1. ASSUME NEW i \in 1..Size[c] PROVE i \in Lv(c)
      <4>1. posted[c][i] \in 1..Len(tweets)
            /\ tweets[posted[c][i]] =
                 [call |-> c, item |-> i, reply |-> IF i = 1 THEN NoTweet ELSE posted[c][i - 1]]
        BY <2>1 DEF IInv, CallInv, PostedInv
      <4>2. posted[c][i] \notin deleted
        BY <1>4, <4>1 DEF IInv, CallInv, DeleteInv, PublishPost
      <4> QED
        BY <4>1, <4>2 DEF Lv, MadeBy, Live
    <3>2. ASSUME NEW id \in MadeBy(c) PROVE tweets[id].item \in 1..Size[c]
      <4>1. tweets[id].call = c /\ id \in 1..Len(tweets)
        BY DEF MadeBy
      <4>2. tweets[id].item \in 1..(n(c) + 1) /\ tweets[id].item # n(c) + 1
        BY <1>4, <4>1 DEF IInv, CallInv, PostedInv, DoubtInv, MadeInDoubt, PublishPost
      <4> QED
        BY <4>2, <2>1
    <3>3. Lv(c) = 1..Size[c]
      BY <3>1, <3>2 DEF Lv
    <3>4. Contract!Publish(c)
      BY <1>0, <2>1, <2>3, <2>4, <3>3, ShownStatus DEF Contract!Publish, St, Ap, Lv, NoRow
    <3> QED
      BY <3>4 DEF Contract!Next
  <2> QED
    BY <1>1, <2>2, <2>3, <2>4
<1>5. ASSUME NEW c \in Call, Send(c) PROVE [Contract!Next]_Contract!vars
  <2>1. /\ UNCHANGED <<posts, deleted>>
        /\ tweets' = tweets \/ tweets' = Append(tweets, NextTweet(c))
    BY <1>5 DEF Send, rows
  <2>2. CASE tweets' = Append(tweets, NextTweet(c))
    <3>1. PICK t \in Tweet : t = NextTweet(c) /\ t.call = c /\ t.item = index[c]
      <4>1. index[c] \in Nat /\ Previous(c) \in Nat
        BY DEF Previous, NoTweet, IInv, TypeOK
      <4>2. NextTweet(c) \in Tweet
        BY <4>1 DEF NextTweet, Tweet
      <4> QED
        BY <4>2 DEF NextTweet
    <3>2. index[c] = n(c) + 1 /\ n(c) < Size[c] /\ posts[c] = "publishing"
      BY <1>5 DEF IInv, CallInv, LocalInv, StatusInv, Send, Posting, Await
    <3>3. \A id \in 1..Len(tweets) : tweets[id].call = c => tweets[id].item # n(c) + 1
      BY <1>5 DEF IInv, CallInv, DoubtInv, MadeInDoubt, Send
    <3>4. Contract!Appear(c, t.item) /\ t.item \in 1..Size[c]
      BY <2>1, <2>2, <3>1, <3>2, <3>3, ShownAppear
    <3> QED
      BY <3>4 DEF Contract!Next
  <2> QED
    BY <1>1, <2>1, <2>2
<1>6. CASE LateTweet
  <2>1. PICK t \in inflight : tweets' = Append(tweets, t)
    BY <1>6 DEF LateTweet
  <2>2. UNCHANGED <<posts, deleted>>
    BY <1>6 DEF LateTweet, rows
  <2>3. t \in Tweet /\ t.call \in Call
    BY DEF IInv, TypeOK, Tweet
  <2> DEFINE c == t.call
  <2>4. /\ t.item = n(c) + 1 /\ n(c) < Size[c]
        /\ \A id \in 1..Len(tweets) : tweets[id].call = c => tweets[id].item # n(c) + 1
    BY <2>3 DEF IInv, CallInv, DoubtInv, OnItsWay
  <2>5. posts[c] \in {"publishing", "failed"}
    <3>1. posts[c] # NoRow
      BY <2>3 DEF Unopened
    <3>2. n(c) \in Nat /\ Size[c] \in Nat
      BY <2>3, SizeAssumption DEF IInv, TypeOK, n
    <3>3. posts[c] # "published"
      BY <2>3, <2>4, <3>2 DEF IInv, CallInv, StatusInv
    <3> QED
      BY <3>1, <3>3, <2>3 DEF IInv, CallInv, StatusInv
  <2>6. Contract!Appear(c, t.item) /\ t.item \in 1..Size[c]
    BY <2>1, <2>2, <2>3, <2>4, <2>5, ShownAppear
  <2> QED
    BY <2>3, <2>6 DEF Contract!Next
<1>7. ASSUME NEW c \in Call, Rollback(c) PROVE [Contract!Next]_Contract!vars
  <2>1. /\ UNCHANGED <<posts, tweets>>
        /\ deleted' = deleted \/ deleted' = deleted \cup {RollbackTarget(c)}
    BY <1>7 DEF Rollback, rows
  <2>2. RollbackTarget(c) \in 1..Len(tweets) /\ tweets[RollbackTarget(c)].call = c
    BY <1>7, TargetIsPosted
  <2>3. posts[c] = "publishing"
    BY <1>7 DEF IInv, CallInv, StatusInv, Rollback, Await
  <2>4. CASE deleted' = deleted \cup {RollbackTarget(c)}
    <3>1. UNCHANGED Contract!vars \/ \E i \in 1..Size[c] : Contract!Vanish(c, i)
      BY <2>1, <2>2, <2>3, <2>4, ShownVanish
    <3> QED
      BY <3>1 DEF Contract!Next
  <2> QED
    BY <1>1, <2>1, <2>4
<1>8. CASE LateDelete
  <2>1. PICK id \in deleting : deleted' = deleted \cup {id}
    BY <1>8 DEF LateDelete
  <2>2. UNCHANGED <<posts, tweets>>
    BY <1>8 DEF LateDelete, rows
  <2>3. CASE \A d \in Call : FALSE
    BY <2>3, Shown
  <2>4. CASE \E d \in Call : TRUE
    <3>1. id \in 1..Len(tweets)
      BY <2>4 DEF IInv, CallInv, DeleteInv
    <3>2. PICK c \in Call : tweets[id].call = c
      <4>1. tweets[id] \in Tweet
        BY <3>1 DEF IInv, TypeOK
      <4> QED
        BY <4>1 DEF Tweet
    <3>3. posts[c] \in {"publishing", "failed"}
      BY <3>1, <3>2 DEF IInv, CallInv, DeleteInv, StatusInv, Unopened
    <3>4. UNCHANGED Contract!vars \/ \E i \in 1..Size[c] : Contract!Vanish(c, i)
      BY <2>1, <2>2, <3>1, <3>2, <3>3, ShownVanish
    <3> QED
      BY <3>2, <3>4 DEF Contract!Next
  <2> QED
    BY <2>3, <2>4
<1> QED
  BY <1>1, <1>2, <1>3, <1>4, <1>5, <1>6, <1>7, <1>8
     DEF Next, Step, CreateItem, RecordItem, FailItem, Crash, rows, twitter, vars

(* Whatever the faults, post_thread keeps the contract its readers see.    *)
THEOREM ThreadsKeepContract == Spec => ContractSpec
<1>1. Init => Contract!Init
  BY DEF Init, Contract!Init, MadeBy, Live
<1>2. IInv /\ Unopened /\ [Next]_vars => [Contract!Next]_Contract!vars
  BY ContractStep
<1> QED
  BY <1>1, <1>2, Inductive, NoTweetUnopened, PTL DEF Spec, ContractSpec, Contract!Spec
=============================================================================
