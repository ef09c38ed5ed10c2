----------------------------- MODULE Scheduling -----------------------------
(***************************************************************************)
(* Posts for later: TwitterScheduleService.create_scheduled_post, which    *)
(* writes them, and the workers of the README's scheduling contract, which *)
(* find them with list_scheduled_due, read them with get_post_with_items   *)
(* and call post_tweet or post_thread.  The workers belong to another      *)
(* program; they do what the contract expects of them and no more.         *)
(*                                                                         *)
(* What a worker publishes gets rows of its own (TweetPosting,             *)
(* ThreadPosting), never with status scheduled, so they are left out here. *)
(***************************************************************************)
EXTENDS PostRecords

CONSTANTS
    Post,       \* the schedule requests, each for one post
    Size,       \* post -> the number of its tweets
    Worker

ASSUME SizeAssumption == Size \in [Post -> Nat \ {0}]

VARIABLES
    due,        \* posts whose scheduled_time has come
    posts,      \* post -> the status of its row, or NoRow
    items,      \* post -> its item rows, in sequence_order
    pc,         \* post -> the await its schedule request is at, or its end
    batch,      \* worker -> the posts of its poll still to do
    job,        \* worker -> the post at hand, or Idle
    got,        \* worker -> what it read of the post: length, and whether
                \* the schedule request had been answered by then
    published   \* post -> what of it was published, as the worker read it

requests == <<posts, items, pc>>
workers  == <<batch, job, got>>
vars     == <<due, requests, workers, published>>

Idle == "idle"
Unread == [length |-> 0, answered |-> FALSE]

Await == {"validate", "create_post", "create_items"}
Ended == {"returned", "refused", "raised", "crashed"}

-----------------------------------------------------------------------------
Init ==
    /\ due = {}
    /\ posts = [p \in Post |-> NoRow]
    /\ items = [p \in Post |-> <<>>]
    /\ pc = [p \in Post |-> "validate"]
    /\ batch = [w \in Worker |-> {}]
    /\ job = [w \in Worker |-> Idle]
    /\ got = [w \in Worker |-> Unread]
    /\ published = [p \in Post |-> {}]

Goto(p, next) == pc' = [pc EXCEPT ![p] = next]

(* The clock passes a post's scheduled_time.                               *)
TimeComes(p) ==
    /\ p \notin due
    /\ due' = due \cup {p}
    /\ UNCHANGED <<requests, workers, published>>

(* must_be_future.  A time without a zone cannot be compared with now: the *)
(* TypeError is not a validation error.                                    *)
ValidateTime(p) ==
    /\ pc[p] = "validate"
    /\ \/ Goto(p, IF p \in due THEN "refused" ELSE "create_post")
       \/ Goto(p, "raised")
    /\ UNCHANGED <<due, posts, items, workers, published>>

(* Faulty: created like the post row of a thread's draft items.            *)
InitialStatusDraft(p) == "draft"

InitialStatus(p) == "scheduled"

(* The post row: from here on a poll may find it.                          *)
CreatePost(p) ==
    /\ pc[p] = "create_post"
    /\ \E db \in DbOutcome :
         /\ posts' = [posts EXCEPT ![p] = CreatePostRow(InitialStatus(p), db)]
         /\ Goto(p, IF db = "ok" THEN "create_items" ELSE "raised")
    /\ UNCHANGED <<due, items, workers, published>>

(* Faulty: the answer does not wait for the last item.                     *)
AfterItemEarly(p, n) == IF n + 1 >= Size[p] THEN "returned" ELSE "create_items"

AfterItem(p, n) == IF n = Size[p] THEN "returned" ELSE "create_items"

(* One item row after the other; an error leaves the earlier ones and a    *)
(* post that is scheduled.                                                 *)
CreateItem(p) ==
    /\ pc[p] = "create_items"
    /\ \E db \in DbOutcome :
         /\ items' = [items EXCEPT ![p] = CreatePostItem(@, "draft", db)]
         /\ Goto(p, IF db = "ok" THEN AfterItem(p, Len(items[p]) + 1) ELSE "raised")
    /\ UNCHANGED <<due, posts, workers, published>>

CrashRequest(p) ==
    /\ "crash" \in Faults
    /\ pc[p] \in Await
    /\ Goto(p, "crashed")
    /\ UNCHANGED <<due, posts, items, workers, published>>

-----------------------------------------------------------------------------
(* Faulty: no condition on scheduled_time.                                 *)
ScheduledAnyTime == {p \in Post : posts[p] = "scheduled"}

(* list_scheduled_due.                                                     *)
ScheduledDue == {p \in Post : posts[p] = "scheduled" /\ p \in due}

(* A poll claims nothing: the rows stay as they are.                       *)
Poll(w) ==
    /\ batch[w] = {} /\ job[w] = Idle
    /\ batch' = [batch EXCEPT ![w] = ScheduledDue]
    /\ UNCHANGED <<due, requests, job, got, published>>

(* get_post_with_items of the next post of the batch.                      *)
ReadItems(w) ==
    /\ job[w] = Idle
    /\ \E p \in batch[w] :
         /\ batch' = [batch EXCEPT ![w] = @ \ {p}]
         /\ job' = [job EXCEPT ![w] = p]
         /\ got' = [got EXCEPT ![w] = [length |-> Len(items[p]),
                                       answered |-> pc[p] = "returned"]]
    /\ UNCHANGED <<due, requests, published>>

(* What post_tweet and post_thread can be given: post_type goes by the     *)
(* length requested, and a thread needs two tweets (ThreadCreateRequest).  *)
Publishable(p, n) == IF Size[p] > 1 THEN n >= 2 ELSE n = 1

Free(w) ==
    /\ job' = [job EXCEPT ![w] = Idle]
    /\ got' = [got EXCEPT ![w] = Unread]

(* post_tweet or post_thread returns.                                      *)
Publish(w) ==
    /\ job[w] # Idle
    /\ Publishable(job[w], got[w].length)
    /\ published' = [published EXCEPT ![job[w]] = @ \cup {got[w]}]
    /\ Free(w)
    /\ UNCHANGED <<due, requests, batch>>

(* It raises, or cannot be called.                                         *)
FailToPublish(w) ==
    /\ job[w] # Idle
    /\ Free(w)
    /\ UNCHANGED <<due, requests, batch, published>>

(* A worker dies, and is started again.                                    *)
RestartWorker(w) ==
    /\ "crash" \in Faults
    /\ job[w] # Idle \/ batch[w] # {}
    /\ batch' = [batch EXCEPT ![w] = {}]
    /\ Free(w)
    /\ UNCHANGED <<due, requests, published>>

Request(p) == ValidateTime(p) \/ CreatePost(p) \/ CreateItem(p)

Work(w) == Poll(w) \/ ReadItems(w) \/ Publish(w) \/ FailToPublish(w)

Next ==
    \/ \E p \in Post : TimeComes(p) \/ Request(p) \/ CrashRequest(p)
    \/ \E w \in Worker : Work(w) \/ RestartWorker(w)

Spec == Init /\ [][Next]_vars

PublishPost(w, p) == job[w] = p /\ Publish(w)
TakeUp(w, p) == ReadItems(w) /\ job'[w] = p

(* Time passes and workers go on polling, take up every post again and     *)
(* again, and Twitter does not refuse one for ever.                        *)
FairSpec ==
    /\ Spec
    /\ \A p \in Post : WF_vars(TimeComes(p))
    /\ \A w \in Worker : WF_vars(Work(w))
    /\ \A w \in Worker, p \in Post : SF_vars(TakeUp(w, p)) /\ SF_vars(PublishPost(w, p))

-----------------------------------------------------------------------------
TypeOK ==
    /\ due \in SUBSET Post
    /\ posts \in [Post -> PostStatus \cup {NoRow}]
    /\ items \in [Post -> Seq(ItemRow)]
    /\ pc \in [Post -> Await \cup Ended]
    /\ batch \in [Worker -> SUBSET Post]
    /\ job \in [Worker -> Post \cup {Idle}]
    /\ got \in [Worker -> [length : Nat, answered : BOOLEAN]]
    /\ published \in [Post -> SUBSET [length : Nat, answered : BOOLEAN]]

(* Nothing is taken up before its time, however late its request wrote the *)
(* rows and however early a worker polled.                                 *)
NeverEarly ==
    /\ \A p \in Post : published[p] # {} => p \in due
    /\ \A w \in Worker : job[w] # Idle => job[w] \in due

(* A schedule the user was told of is published whole.  Less than all of   *)
(* it goes out only when a worker read it while its request was still      *)
(* writing or after the request had failed.                                *)
AnsweredIsWhole ==
    \A p \in Post : \A part \in published[p] :
        part.answered => part.length = Size[p]

(* A schedule that was accepted is never lost: from its time on every poll *)
(* finds it, and what there is to read of it can be published, whatever    *)
(* polls, failures and restarts came before.                               *)
AcceptedIsFindable ==
    \A p \in Post : pc[p] = "returned" =>
        /\ p \in due => p \in ScheduledDue
        /\ Publishable(p, Len(items[p]))

(* A schedule that was accepted is published, although workers die between *)
(* the poll and the call: the row they were given is still scheduled, and  *)
(* the next poll finds it again.                                           *)
AcceptedIsPublished ==
    \A p \in Post :
        pc[p] = "returned" ~> \E part \in published[p] : part.length = Size[p]
=============================================================================
