-------------------------- MODULE SchedulingProofs --------------------------
(***************************************************************************)
(* Proofs that every behaviour of Scheduling, for any schedule requests of *)
(* any length and any number of workers, is well typed, takes nothing up   *)
(* before its time, publishes whole what a user was told of, and never     *)
(* loses from the polls a schedule that was accepted.                      *)
(***************************************************************************)
EXTENDS Scheduling, TLAPS

(* What a worker has polled was due, and stays so.                         *)
BatchInv == \A w \in Worker : batch[w] \subseteq due

(* Where a request is tells how many of its item rows exist.               *)
ItemsInv ==
    \A p \in Post :
        /\ pc[p] \in {"validate", "create_post"} => items[p] = <<>>
        /\ pc[p] = "create_items" => Len(items[p]) < Size[p]
        /\ pc[p] = "returned" => Len(items[p]) = Size[p]

(* What a worker read of an answered request is all of it.                 *)
GotInv ==
    \A w \in Worker : job[w] # Idle /\ got[w].answered => got[w].length = Size[job[w]]

IInv == TypeOK /\ BatchInv /\ NeverEarly /\ ItemsInv /\ GotInv /\ AnsweredIsWhole

LEMMA InitIInv == Init => IInv
<1> SUFFICES ASSUME Init PROVE IInv
  OBVIOUS
<1>1. \A p \in Post : Size[p] \in Nat \ {0}
  BY SizeAssumption
<1>2. TypeOK
  BY DEF Init, TypeOK, PostStatus, ItemRow, Unread, Await
<1>3. BatchInv /\ NeverEarly /\ GotInv /\ AnsweredIsWhole
  BY DEF Init, BatchInv, NeverEarly, GotInv, AnsweredIsWhole
<1>4. ItemsInv
  BY <1>1 DEF Init, ItemsInv
<1> QED
  BY <1>2, <1>3, <1>4 DEF IInv

(* Actions that leave the workers and what they published alone.           *)
LEMMA RequestStep ==
    ASSUME IInv, NEW p \in Post, Request(p) \/ CrashRequest(p)
    PROVE  IInv'
<1>1. TypeOK
  BY DEF IInv
<1>2. UNCHANGED <<due, batch, job, got, published>>
  BY DEF Request, CrashRequest, ValidateTime, CreatePost, CreateItem, workers
<1>3. BatchInv' /\ NeverEarly' /\ GotInv' /\ AnsweredIsWhole'
  BY <1>2 DEF IInv, BatchInv, NeverEarly, GotInv, AnsweredIsWhole
<1>4. Size[p] \in Nat \ {0} /\ items[p] \in Seq(ItemRow) /\ Len(items[p]) \in Nat
  BY <1>1, SizeAssumption DEF TypeOK
<1>5. TypeOK' /\ ItemsInv'
  <2>1. CASE ValidateTime(p) \/ CrashRequest(p)
    <3>1. pc' \in [Post -> Await \cup Ended] /\ UNCHANGED <<posts, items>>
      BY <1>1, <2>1 DEF TypeOK, ValidateTime, CrashRequest, Goto, Await, Ended
    <3>2. TypeOK'
      BY <1>1, <1>2, <3>1 DEF TypeOK
    <3>3. ItemsInv'
      BY <1>1, <2>1 DEF IInv, ItemsInv, TypeOK, ValidateTime, CrashRequest, Goto
    <3> QED
      BY <3>2, <3>3
  <2>2. CASE CreatePost(p)
    <3>1. posts' \in [Post -> PostStatus \cup {NoRow}] /\ UNCHANGED items
      BY <1>1, <2>2 DEF TypeOK, CreatePost, CreatePostRow, InitialStatus, PostStatus
    <3>2. pc' \in [Post -> Await \cup Ended]
      BY <1>1, <2>2 DEF TypeOK, CreatePost, Goto, Await, Ended
    <3>3. TypeOK'
      BY <1>1, <1>2, <3>1, <3>2 DEF TypeOK
    <3>4. Len(items[p]) < Size[p]
      BY <1>4, <2>2 DEF IInv, ItemsInv, CreatePost
    <3>5. ItemsInv'
      BY <1>1, <2>2, <3>1, <3>4 DEF IInv, ItemsInv, TypeOK, CreatePost, Goto
    <3> QED
      BY <3>3, <3>5
  <2>3. CASE CreateItem(p)
    <3>1. PICK db \in DbOutcome :
            /\ items' = [items EXCEPT ![p] = CreatePostItem(@, "draft", db)]
            /\ Goto(p, IF db = "ok" THEN AfterItem(p, Len(items[p]) + 1) ELSE "raised")
      BY <2>3 DEF CreateItem
    <3>2. pc[p] = "create_items" /\ UNCHANGED posts
      BY <2>3 DEF CreateItem
    <3>3. [status |-> "draft", tweet |-> NoTweet] \in ItemRow
      BY DEF ItemRow, PostStatus, NoTweet
    <3>4. CreatePostItem(items[p], "draft", db) \in Seq(ItemRow)
      BY <1>4, <3>3 DEF CreatePostItem
    <3>5. items' \in [Post -> Seq(ItemRow)]
      BY <1>1, <3>1, <3>4 DEF TypeOK
    <3>6. pc' \in [Post -> Await \cup Ended]
      BY <1>1, <3>1 DEF TypeOK, Goto, AfterItem, Await, Ended
    <3>7. TypeOK'
      BY <1>1, <1>2, <3>2, <3>5, <3>6 DEF TypeOK
    <3>8. CASE db = "ok"
      <4>1. items'[p] = Append(items[p], [status |-> "draft", tweet |-> NoTweet])
        BY <1>1, <3>1, <3>8 DEF TypeOK, CreatePostItem, Committed
      <4>2. Len(items'[p]) = Len(items[p]) + 1
        BY <1>4, <3>3, <4>1
      <4>3. pc'[p] = AfterItem(p, Len(items[p]) + 1)
        BY <1>1, <3>1, <3>8 DEF TypeOK, Goto
      <4>4. Len(items[p]) < Size[p]
        BY <3>2 DEF IInv, ItemsInv
      <4>5. /\ pc'[p] \in {"create_items", "returned"}
            /\ pc'[p] = "create_items" => Len(items'[p]) < Size[p]
            /\ pc'[p] = "returned" => Len(items'[p]) = Size[p]
        BY <1>4, <4>2, <4>3, <4>4 DEF AfterItem
      <4>6. \A q \in Post \ {p} : pc'[q] = pc[q] /\ items'[q] = items[q]
        BY <1>1, <3>1 DEF TypeOK, Goto
      <4> QED
        BY <3>7, <4>5, <4>6 DEF IInv, ItemsInv
    <3>9. CASE db # "ok"
      <4>1. pc'[p] = "raised"
        BY <1>1, <3>1, <3>9 DEF TypeOK, Goto
      <4>2. \A q \in Post \ {p} : pc'[q] = pc[q] /\ items'[q] = items[q]
        BY <1>1, <3>1 DEF TypeOK, Goto
      <4> QED
        BY <3>7, <4>1, <4>2 DEF IInv, ItemsInv
    <3> QED
      BY <3>8, <3>9
  <2> QED
    BY <2>1, <2>2, <2>3 DEF Request
<1> QED
  BY <1>3, <1>5 DEF IInv

(* Actions of a worker: the rows stay as they are.                         *)
LEMMA WorkerStep ==
    ASSUME IInv, NEW w \in Worker, Work(w) \/ RestartWorker(w)
    PROVE  IInv'
<1>1. TypeOK
  BY DEF IInv
<1>2. UNCHANGED <<due, posts, items, pc>>
  BY DEF Work, RestartWorker, Poll, ReadItems, Publish, FailToPublish, requests
<1>3. ItemsInv'
  BY <1>2 DEF IInv, ItemsInv
<1>4. CASE Poll(w)
  <2>1. UNCHANGED <<job, got, published>>
    BY <1>4 DEF Poll
  <2>2. ScheduledDue \subseteq due /\ ScheduledDue \subseteq Post
    BY DEF ScheduledDue
  <2>3. TypeOK'
    BY <1>1, <1>2, <1>4, <2>1, <2>2 DEF TypeOK, Poll
  <2>4. BatchInv'
    BY <1>1, <1>2, <1>4, <2>2 DEF IInv, BatchInv, TypeOK, Poll
  <2> QED
    BY <1>2, <1>3, <2>1, <2>3, <2>4 DEF IInv, NeverEarly, GotInv, AnsweredIsWhole
<1>5. CASE ReadItems(w)
  <2>1. PICK p \in batch[w] :
          /\ batch' = [batch EXCEPT ![w] = @ \ {p}]
          /\ job' = [job EXCEPT ![w] = p]
          /\ got' = [got EXCEPT ![w] = [length |-> Len(items[p]),
                                        answered |-> pc[p] = "returned"]]
    BY <1>5 DEF ReadItems
  <2>2. UNCHANGED published
    BY <1>5 DEF ReadItems
  <2>3. p \in Post /\ p \in due /\ Len(items[p]) \in Nat
    BY <1>1 DEF IInv, BatchInv, TypeOK
  <2>4. TypeOK'
    BY <1>1, <1>2, <2>1, <2>2, <2>3 DEF TypeOK
  <2>5. BatchInv' /\ NeverEarly'
    BY <1>1, <1>2, <2>1, <2>2, <2>3 DEF IInv, BatchInv, NeverEarly, TypeOK
  <2>6. pc[p] = "returned" => Len(items[p]) = Size[p]
    BY <2>3 DEF IInv, ItemsInv
  <2>7. GotInv'
    BY <1>1, <2>1, <2>6 DEF IInv, GotInv, TypeOK
  <2> QED
    BY <1>3, <2>2, <2>4, <2>5, <2>7 DEF IInv, AnsweredIsWhole
<1>6. CASE Publish(w)
  <2>1. /\ job[w] \in Post /\ job[w] # Idle /\ job[w] \in due
        /\ published' = [published EXCEPT ![job[w]] = @ \cup {got[w]}]
        /\ job' = [job EXCEPT ![w] = Idle]
        /\ got' = [got EXCEPT ![w] = Unread]
        /\ UNCHANGED batch
    BY <1>1, <1>6 DEF IInv, NeverEarly, TypeOK, Publish, Free
  <2>2. TypeOK'
    BY <1>1, <1>2, <2>1 DEF TypeOK, Unread
  <2>3. BatchInv' /\ NeverEarly' /\ GotInv'
    BY <1>1, <1>2, <2>1 DEF IInv, BatchInv, NeverEarly, GotInv, TypeOK
  <2>4. got[w].answered => got[w].length = Size[job[w]]
    BY <2>1 DEF IInv, GotInv
  <2>5. AnsweredIsWhole'
    BY <1>1, <2>1, <2>4 DEF IInv, AnsweredIsWhole, TypeOK
  <2> QED
    BY <1>3, <2>2, <2>3, <2>5 DEF IInv
<1>7. CASE FailToPublish(w) \/ RestartWorker(w)
  <2>1. /\ job' = [job EXCEPT ![w] = Idle]
        /\ got' = [got EXCEPT ![w] = Unread]
        /\ batch' \in [Worker -> SUBSET Post]
        /\ \A v \in Worker : batch'[v] \subseteq batch[v]
        /\ UNCHANGED published
    BY <1>1, <1>7 DEF TypeOK, FailToPublish, RestartWorker, Free
  <2>2. TypeOK'
    BY <1>1, <1>2, <2>1 DEF TypeOK, Unread
  <2>3. BatchInv' /\ NeverEarly' /\ GotInv'
    BY <1>1, <1>2, <2>1 DEF IInv, BatchInv, NeverEarly, GotInv, TypeOK
  <2> QED
    BY <1>3, <2>1, <2>2, <2>3 DEF IInv, AnsweredIsWhole
<1> QED
  BY <1>4, <1>5, <1>6, <1>7 DEF Work

LEMMA TimeStep ==
    ASSUME IInv, NEW p \in Post, TimeComes(p)
    PROVE  IInv'
<1>1. due' = due \cup {p} /\ UNCHANGED <<posts, items, pc, batch, job, got, published>>
  BY DEF TimeComes, requests, workers
<1> QED
  BY <1>1 DEF IInv, TypeOK, BatchInv, NeverEarly, ItemsInv, GotInv, AnsweredIsWhole

(* The conjunction is inductive.                                           *)
THEOREM Inductive == Spec => []IInv
<1>1. IInv /\ [Next]_vars => IInv'
  <2> SUFFICES ASSUME IInv, [Next]_vars PROVE IInv'
    OBVIOUS
  <2>1. CASE UNCHANGED vars
    BY <2>1 DEF IInv, TypeOK, BatchInv, NeverEarly, ItemsInv, GotInv, AnsweredIsWhole,
                vars, requests, workers
  <2>2. CASE Next
    BY <2>2, RequestStep, WorkerStep, TimeStep DEF Next
  <2> QED
    BY <2>1, <2>2
<1> QED
  BY <1>1, InitIInv, PTL DEF Spec

(* The variables keep their types.                                         *)
THEOREM Typing == Spec => []TypeOK
<1>1. IInv => TypeOK
  BY DEF IInv
<1> QED
  BY <1>1, Inductive, PTL

(* However requests, polls and the clock interleave, nothing is taken up   *)
(* or published before its scheduled_time.                                 *)
THEOREM NothingEarly == Spec => []NeverEarly
<1>1. IInv => NeverEarly
  BY DEF IInv
<1> QED
  BY <1>1, Inductive, PTL

(* What a worker read after the user had the answer is published whole.    *)
THEOREM AnsweredPostsAreWhole == Spec => []AnsweredIsWhole
<1>1. IInv => AnsweredIsWhole
  BY DEF IInv
<1> QED
  BY <1>1, Inductive, PTL

(* From its row on, a request that has not failed has a post that a poll   *)
(* can find: no statement changes the status again.                        *)
StatusInv ==
    \A p \in Post : pc[p] \in {"create_items", "returned"} => posts[p] = "scheduled"

LEMMA StatusStep == IInv /\ StatusInv /\ [Next]_vars => StatusInv'
<1> SUFFICES ASSUME IInv, StatusInv, [Next]_vars PROVE StatusInv'
  OBVIOUS
<1>1. TypeOK
  BY DEF IInv
<1>2. CASE UNCHANGED <<posts, pc>>
  BY <1>2 DEF StatusInv
<1>3. ASSUME NEW p \in Post, ValidateTime(p) \/ CreateItem(p) \/ CrashRequest(p)
      PROVE  StatusInv'
  <2>1. /\ posts' = posts
        /\ pc'[p] \in {"create_items", "returned"} => pc[p] = "create_items"
        /\ \A q \in Post : q # p => pc'[q] = pc[q]
    BY <1>1, <1>3 DEF ValidateTime, CreateItem, AfterItem, CrashRequest, Goto, TypeOK
  <2> QED
    BY <2>1 DEF StatusInv
<1>4. ASSUME NEW p \in Post, CreatePost(p) PROVE StatusInv'
  <2>1. /\ pc'[p] \in {"create_items", "returned"} => posts'[p] = "scheduled"
        /\ \A q \in Post : q # p => pc'[q] = pc[q] /\ posts'[q] = posts[q]
    BY <1>1, <1>4 DEF CreatePost, CreatePostRow, Committed, InitialStatus, Goto, TypeOK
  <2> QED
    BY <2>1 DEF StatusInv
<1>5. ASSUME NEW p \in Post, TimeComes(p) PROVE StatusInv'
  BY <1>2, <1>5 DEF TimeComes, requests
<1>6. ASSUME NEW w \in Worker, Work(w) \/ RestartWorker(w) PROVE StatusInv'
  BY <1>2, <1>6 DEF Work, Poll, ReadItems, Publish, FailToPublish, RestartWorker, requests
<1> QED
  BY <1>2, <1>3, <1>4, <1>5, <1>6 DEF Next, Request, vars, requests

(* An accepted schedule is found by every poll from its time on, and can   *)
(* be published whenever it is read: the half of AcceptedIsPublished that  *)
(* does not depend on the workers.                                         *)
THEOREM NoAcceptedScheduleIsLost == Spec => []AcceptedIsFindable
<1>1. Init => StatusInv
  BY DEF Init, StatusInv
<1>2. ASSUME IInv, StatusInv PROVE AcceptedIsFindable
  <2> SUFFICES ASSUME NEW p \in Post, pc[p] = "returned"
               PROVE  /\ p \in due => p \in ScheduledDue
                      /\ Publishable(p, Len(items[p]))
    BY DEF AcceptedIsFindable
  <2>1. Size[p] \in Nat \ {0} /\ Len(items[p]) = Size[p] /\ posts[p] = "scheduled"
    BY <1>2, SizeAssumption DEF IInv, ItemsInv, StatusInv
  <2> QED
    BY <2>1 DEF ScheduledDue, Publishable
<1> QED
  BY <1>1, <1>2, StatusStep, Inductive, PTL DEF Spec
=============================================================================
