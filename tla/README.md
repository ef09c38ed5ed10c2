# Formal models of the Twitter integration module

TLA+ specifications of `src/app`, the FastAPI module that connects users'
Twitter accounts and posts tweets and threads for them. TLC checks the models
on small instances; TLAPS proves the theorems about threads, their analytics,
tweets, tokens, logins, uploads and schedules for every instance.
Paths below are relative to `src/app/` unless they start with `src/`.

- [The system](#the-system)
- [The modules](#the-modules)
- [What the runs show](#what-the-runs-show)
- [Bounds](#bounds), [fairness](#fairness)
- [What is proved](#what-is-proved)
- [Where code and documentation differ](#where-code-and-documentation-differ)
- [What is not modelled](#what-is-not-modelled)
- [Plan](#plan)

## The system

Requests are served by several worker processes; a request is a coroutine that
awaits one thing at a time. Scheduled posts are meant to be run by a worker of
another team that calls the services directly. Nothing is shared between two
requests but three stores: Postgres behind Supabase (each statement is one HTTP
request and is committed on its own; there is no transaction), Redis behind
Upstash (login state only) and Twitter itself. So every statement and every HTTP
request is a step of its own, between any two of which the other requests run,
a process may die, and an answer may be lost.

| Component | State it keeps | Operations | Talks to |
|---|---|---|---|
| Thread posting `services/twitter_thread_service.py` | per call: `posted_tweet_ids`, `previous_tweet_id`, the loop index | `post_thread`, `_rollback` | post repository, client |
| Tweet posting `services/twitter_post_service.py` | per call: the post and item it made | `post_tweet` | post repository, client |
| Twitter client `services/twitter_client.py` | the access token it was built with | `request`, `upload_media`, `_poll_media_processing` | Twitter |
| Post repository `repositories/twitter_post_repository.py` | rows of `twitter_posts`, `twitter_post_items` | `create_post`, `create_post_item`, `update_post_item_result`, `update_post_status`, `get_post_with_items`, `list_scheduled_due` | Supabase |
| Token service `services/twitter_token_service.py` | none | `get_valid_access_token`, `_refresh_and_persist` | account repository, Twitter's token endpoint |
| Account repository `repositories/twitter_account_repository.py` | rows of `twitter_accounts` | `create`, `get_by_id`, `get_by_twitter_user_id`, `list_by_user`, `update_tokens`, `reactivate_with_new_tokens`, `deactivate` | Supabase |
| Account service `services/twitter_account_service.py` | none | `list_accounts`, `disconnect_account` | account repository |
| OAuth service `services/twitter_oauth_service.py` | none | `build_authorize_url`, `handle_callback` | Redis, account repository, Twitter |
| Redis client `core/redis_client.py` | state keys, 10 minutes each | `set_json`, `get_json`, `delete` | Upstash |
| Schedule service `services/twitter_schedule_service.py` | none | `create_scheduled_post` | post repository |
| Media service `services/twitter_media_service.py` | none | `upload_media` | client |
| Analytics service `services/twitter_analytics_service.py` | none | `get_tweet_analytics`, `get_thread_analytics` | client, post repository |
| Routers, dependencies `api/` | none | one endpoint per operation | the services |
| Errors, schemas, security, settings, logging | none | mappings and validation | |

What is hard, and what would make each part correct:

- **Posting.** A POST may take effect although its caller saw a timeout, and may
  do so later. Twitter and the database cannot change together, so the order of
  the writes decides what the rows are worth after a failure. Correct means: no
  position tweeted twice; `published` is true and stays so; after any failure
  the rows account for every tweet but at most one; a rollback deletes from the
  end and is over when the row says `failed`; the rows always read as an audit
  trail.
- **Tokens.** No lock protects an account. Refresh tokens are spent when they
  are used, answers and writes come in any order, users disconnect and reconnect
  meanwhile, and the code's clock is not Twitter's. Correct means: a token given
  out outlives the request made with it; a disconnected account stays
  disconnected; the row is never left with a spent refresh token while a working
  one was to be had.
- **Login.** State is checked and deleted in two requests; two callbacks for one
  new account race for a unique index. Correct means: a state that was deleted is
  good for no callback, one row per account, tokens only ever in the row of the
  user who began the login, and a browser that is told what became of it.
- **Scheduling.** The due posts are read, not claimed, and the row is there to be
  read before its items are. Correct means: nothing early, and what was accepted
  is published, whole.
- **Media.** A chunked upload with a poll at its end, under a token that may not
  last that long. Correct means: an id that is handed out is ready, and the
  status of the answer tells what to do next.
- **Analytics.** A reader that takes a post, its items and each tweet at another
  time, while a thread is posted or rolled back. Correct means: what it answers
  is the thread, or nothing.

`PROJECT.json` lists these hazards one by one, at the line where each bites,
with the properties that cover it or a note why none does.

## The modules

    TwitterClient  Supabase  Errors        PublishContract
         |        /   |  |      |            (implemented by ThreadPosting
         |       /    |  |      |             and TweetPosting)
        PostRecords   |  |      |          ConnectionContract
         |   |   |    |  |      |            (implemented by OAuthFlow)
         |   |   |    |  |      +-- MediaUpload
         |   |   |    |  +--------- OAuthFlow
         |   |   |    +------------ AccountTokens
         |   |   +----------------- Scheduling
         |   +--------------------- TweetPosting (also Errors)
         +------------------------- ThreadPosting
                                      +-- ThreadAnalytics

Each has an `MC` module with its instances (`MCThreadPosting`,
`MCThreadAnalytics`, `MCTweetPosting`, `MCAccountTokens`, `MCOAuthFlow`,
`MCMediaUpload`, `MCScheduling`) and a module with its proofs (`...Proofs`; the
refinement of threads is in `ThreadContractProofs`).

**TwitterClient** says what one call of `TwitterAPIClient.request` means to its
caller. `Answer` is the set of answers an attempt can get (`ok`, `garbled`: below
400 without `data`, `rejected`, `rate_limited`, `server_error`,
`network_error`); `Fates` is what may have become of the request at Twitter,
which the caller cannot see; `MaxAttempts` and `Outcome` are the retry loop. No
caller passes `idempotent=True`, so a POST, a DELETE and a GET of the analytics
alike are one attempt. `ErrorOf` is the exception it raises.

**Errors** maps an exception to the status it is answered with: the hierarchy of
`exceptions/twitter_exceptions.py` and the two handlers of
`middleware/error_handler.py`.

**Supabase** says how a statement can end: answered, refused, or committed and
answered by an exception.

**PostRecords** is the effect of the four writing statements of the post
repository on the rows of one post. `update_post_item_result` writes every
column, so a failure without an id clears the id.

**ThreadPosting** is `post_thread` with `_rollback`, any number of calls at once.
An action is the code from one await to the next:

| Action | Code in `twitter_thread_service.py` |
|---|---|
| `CreatePost`, `CreateItem` | 47-66, before the `try`: an error leaves the post `publishing` |
| `Send` | 73-82, the POST of one tweet and the reading of its id |
| `RecordItem` | 84-102, the row of the tweet, then `posted_tweet_ids` and the next round; or `ThreadTweetResult` (89-96) refuses what Twitter answered, after the tweet was listed: the next position is failed, and after the last one there is none (`items[failed_index]` raises) |
| `FailItem` | 104-112, the row of the failed position; an error here leaves the handler |
| `Rollback` | 133-144, one DELETE of the loop, whatever its answer |
| `FailPost`, `PublishPost` | 115-122 and 124-131 |
| `Crash` | process death or cancellation at any await |
| `LateTweet`, `LateDelete` | a request takes effect after its caller gave up |

`posts` and `items` are the rows, `tweets` (a sequence; an id is a place in it),
`deleted`, `inflight` and `deleting` are Twitter's side, the rest are the locals
of the calls.

**ThreadAnalytics** adds a request for `get_thread_analytics` to ThreadPosting:
`ReadPost` and `ReadItems` are the two statements of `get_post_with_items`,
`GetTweet` one round of the loop, and any step of any thread may come between
them. A deleted tweet is answered with `errors` and no `data`, which the code
subscripts.

**TweetPosting** is `post_tweet` with the endpoint around it (`Resolve` stands
for the session, the account and its token; `HttpStatus` for the answer, after a response that pydantic may
refuse although everything is stored),
together with clients that submit a tweet once more after an error
(`Resubmit`); every try has rows of its own. `error` is the exception a try has
raised or is handling: that of the request is re-raised only if both updates of
the handler succeed.

**PublishContract** is what both promise to a reader of database and timeline: a
post goes from nothing to `publishing` to one final status; its tweets appear at
most once each and in order; they may vanish only from a post that is not
published; `published` is said only of a post all of whose tweets are up.
ThreadPosting and TweetPosting are each shown to implement it through the mapping
in their `Contract ==` instance (`status` from the post row, `appeared` and
`live` from the tweets at Twitter).

**AccountTokens** is one row of `twitter_accounts` with all that writes it:
`get_valid_access_token` with `_refresh_and_persist` (`ReadAccount`,
`ExchangeRefresh`, `RefuseRefresh`, `GiveUp`, `ReceiveRefresh`, `PersistRefresh`),
the end of `handle_callback` for a known account (`ExchangeCode`, `FetchProfile`,
`LookUp`, `Reactivate`), `disconnect_account` (`Disconnect`), and Twitter's token
endpoint (`Grant`: a refresh may or may not rotate the refresh token, and a
rotated one is spent; the answer may be lost, unreadable, or an error although
the exchange took effect). There is a clock, because `expires_at` is reckoned by the
code when the answer arrives, not by Twitter when it grants; the caller's first
request with the token (`calling`) is part of the model, so that what the safety
margin is for can be said. Before it, the caller inserts its rows, which counts as
one more await of the same length (`Double`); that several inserts together last
no longer is assumed, and 300 s leave room for twenty awaits of 15 s. A crash
during that request is its end (`CallEnds`): the row is no longer its concern. The row exists throughout; creating it is part of
OAuthFlow.

**OAuthFlow** is every login and callback of every user, the states in Redis and
the whole table of accounts:

| Action | Code |
|---|---|
| `BuildAuthorizeUrl` | `services/twitter_oauth_service.py:58-79`, one SET with its TTL |
| `Authorize`, `Reload` | the browser at Twitter and back; the same URL once more |
| `Decline` | `api/routers/twitter_auth_router.py:77-79`, and FastAPI's 422 when `code` is missing |
| `GetState`, `DeleteState` | `handle_callback`'s `get_json` and `delete`, with what `core/redis_client.py` makes of each answer |
| `ExchangeCode`, `FetchProfile` | the two requests to Twitter; a code is good once |
| `LookUp`, `Reactivate`, `Create` | `get_by_twitter_user_id`, then one write; the constraint refuses a second row |
| `Disconnect`, `Expire`, `Crash` | the user, the TTL, the process |

`Raise` is the router: two exceptions are redirected, all others are left to the
error handler. A login's name stands for its random state and PKCE pair; a
callback's for its code and the tokens of it. AccountTokens looks at the tokens
of one row with a clock, OAuthFlow at whose they are, over all rows.

**ConnectionContract** is what OAuthFlow promises a user: each consent given at
Twitter connects at most once, the user who asked with the account that gave
it; there is one connection between the two, to which the last consent used
belongs; and a disconnected one stays so until another consent is used. A
callback's code stands for the consent (`given`), a consent is `used` when its
tokens are stored, and a connection is what rows there are for the pair.

**MediaUpload** follows one file from `upload_media`'s checks (`Validate`)
through INIT, each APPEND, FINALIZE and each STATUS poll to the answer. Uploads
share nothing, so one is enough. Twitter's side counts what it was sent
(`received`) whatever the code believes, processes when it likes (`Process`), and
takes the client's token, fetched once before the upload, until it expires
(`TokenExpires`).

**Scheduling** is `create_scheduled_post`, one statement a step, beside the
workers of `src/README.md`'s scheduling contract, which poll
`list_scheduled_due`, read one post after the other and publish it, fail, or
die. The workers are another team's program; the model gives them what the
contract asks of them and no more.

The `MC...` modules hold the instances. Definitions marked "Faulty" in a comment
are plausible mistakes in the definition below them; each property is known to
fail when one of them takes its place, which shows that the property depends on
the code. They are used by no specification.

## What the runs show

| Run | Instance | Result |
|---|---|---|
| `thread_faults` | one thread of 4 tweets, every fault, fair | 1287 states: types, `AtMostOnce`, `PublishedIsLive`, `AtMostOneUnrecorded`, `AuditShape`, the contract, that each step brings the call nearer its end (`EveryStepCounts`), and that the post settles (`EveryPostSettles`) |
| `thread_pair` | threads of 3 and 2 tweets and a reader of either, DELETEs answered | 808,896 states: `PublishedIsLive` and the contract across calls, `FailedIsGone`, `NoLiveReplyToDeleted`, `AnalyticsTellThread` |
| `tweet_retry` | two submissions, two tries each, every fault | 1,044,977 states: `AuditTrail`, `RowsNameTheirOwn`, `StatusTellsTweet`, the contract |
| `tokens` | two requests, a reconnect, disconnects, revocation, every fault | 13.5 million states (up to the symmetry of the requests): `NotExpiredMidFlight`, `ConnectionNotLost`, `DisconnectSticks` |
| `oauth` | two users, two Twitter accounts, two logins, three callbacks, every fault | 967,111 states (up to symmetry): `OneRowPerAccount`, `TokensOfOwner`, `AnswerTellsOutcome`, `ReplayRefused`, the contract of connections (`ConnectionSpec`) |
| `media` | one file of any type and of 0 to 16 units, chunks of 3, three polls | 2858 states: `MediaIdIsReady`, `ChunksCover`, `AnswerTellsStage`, `EveryStepCounts`, `UploadEnds` |
| `schedule` | a thread of 3 and a single tweet, two workers, every fault, fair | 30,974 states: `NeverEarly`, `AnsweredIsWhole`, `AcceptedIsFindable`, `AcceptedIsPublished` |
| `thread_report` | one thread of 4 tweets | violates `ReportsExactlyPosted` |
| `tweet_stuck` | one submission | violates `PublishingIsInFlight` |
| `tweet_duplicate` | one submission, two tries | violates `NoDuplicatePost` |
| `tokens_relogin` | two requests, no faults | violates `NoManualRelogin` |
| `oauth_redirect` | one user in two tabs, no faults | violates `AlwaysRedirects` |

Every passing run checks its module's `TypeOK` as well, but for `thread_pair`.

The properties, in words:

- `AtMostOnce`: no position of a thread has two tweets, counting those still on
  their way.
- `PublishedIsLive`: under a `published` row, every item row names a live tweet
  of that call and position, replying to the one before.
- `AtMostOneUnrecorded`: at most one tweet of a call, made or on its way, is
  missing from its rows, wherever it fails or dies.
- `AuditShape`: item rows read published, then at most one failed, then draft.
- `FailedIsGone`: when Twitter answers the DELETEs, nothing the rows name is live
  once the post reads `failed`.
- `NoLiveReplyToDeleted`: under the same condition no recorded tweet is ever a
  live reply to a deleted one. With DELETEs that fail, neither can hold; both
  say so in their antecedent, and the contract is what remains.
- `EveryPostSettles`: the post ends `published` or `failed` unless the database
  failed the call, the process died, or the response could not be built after
  the last tweet.
- `EveryStepCounts` (threads): every step of a call leaves it fewer statements
  and requests to go, 4n + 2 at most for n tweets. No answer makes the loop or
  the rollback go over a tweet again.
- `AuditTrail`: a tweet at Twitter or on its way has its row, made before it was
  sent, and a try makes one tweet at most.
- `RowsNameTheirOwn`: a row names only the tweet of its own try.
- `NotExpiredMidFlight`: a token does not expire during the first request made
  with it.
- `ConnectionNotLost`: the row's refresh token works, or the very call that spent
  it holds its successor and has not stored it or never will, or the user granted
  none or revoked access. A token that one call loses excuses that row only: what
  a later reconnect stores must work again. Late and concurrent writes alone never lose a connection: a token can
  be spent only after it was stored, so the write that stores it cannot come
  after its successor's.
- `DisconnectSticks`: only a reconnect makes a disconnected account active.
- `AnalyticsTellThread`: an answer has the tweets of the thread from its start,
  in order, without a gap: all of them if the post read `published`, none if it
  read `failed` (with DELETEs answered).
- `StatusTellsTweet`: after 200 the tweet is up and its rows say so; after 4xx
  the try tweeted nothing and never will. After 5xx the client cannot know.
- `OneRowPerAccount`: a user has one row per Twitter account, however callbacks
  race.
- `TokensOfOwner`: the tokens in a row were granted by its Twitter account in a
  login its user began.
- `AnswerTellsOutcome`: the success page means stored, the error page means not.
- `ReplayRefused`: once the DEL of a state is confirmed, no callback passes with
  it. A DEL that fails is only logged (`core/redis_client.py:82`), so no more can
  be said; two callbacks that both read the state before its DEL both pass.
- `ConnectionSpec`: a consent connects at most once, its own user and account;
  a disconnected account comes back by another consent only.
- `MediaIdIsReady`: an id is handed out only for an admissible file that Twitter
  has whole and has processed.
- `ChunksCover`: FINALIZE follows the least number of chunks that cover the file.
- `AnswerTellsStage`: 422, the file was refused and nothing sent; 502, Twitter
  was asked; 500, only after FINALIZE (a body without `media_id_string`, there or
  with the poll that succeeds, is a `KeyError`).
- `EveryStepCounts` (uploads): every request brings the upload nearer its
  answer. An answer without a state, or a refused poll, uses up a round.
- `UploadEnds`: every upload is answered, whatever the polls say.
- `NeverEarly`: no worker is given a post before its time.
- `AnsweredIsWhole`: a post read after its request was answered is published
  whole.
- `AcceptedIsFindable`: from its time on, every poll finds a schedule that was
  accepted, and it can be published.
- `AcceptedIsPublished`: a schedule that was accepted is published at some time,
  although workers die between poll and call.

The runs disable the deadlock check: finite sets of calls come to an end.

## Bounds

- Threads: 4 tweets give a first, a middle and a last position and a rollback of
  up to three; the interleaving run needs two calls that both loop and both roll
  back, and 3 and 2 tweets do. The theorems need no bound.
- `HTTP_MAX_RETRIES` is 3 as in `settings.py`; it must make no difference, and
  the mutant that lets it make one is caught.
- Tweets: `MaxTries` is 2, as a third try meets nothing a second does not; two
  submissions, for rows that could be mixed up.
- Tokens: one tick stands for the longest an await lasts. `MARGIN` 4 is the
  smallest the assumption `MARGIN >= 4 * PATIENCE` allows, where the code has 300 s
  against requests of 15 s. With
  `LIFETIME` and `MaxTime` 5 the clock reaches the end of the stored token, which
  is fresh at first; a smaller margin or none already fails within these bounds.
  Two requests race; one reconnect is enough to cross them.
- Logins: two users who connect the same two accounts give every way a row, a
  login and a callback can belong together or not; of three callbacks two can
  race while a third comes after, and one can be a reload of another.
- Media: a chunk of 3 units has lengths just below, at and above a multiple; the
  limits keep the order of the code's (one, three and nearly five chunks), and
  the largest file is over each of them. `MAX_POLLS` 3 has a first, a middle and
  a last round.
- Schedules: 3 tweets, so that a poll can meet none, too few, enough for a
  thread but not all, or all of the items; two workers, so that both hold the
  same post.

## Fairness

- `thread_faults`: weak fairness of each call's `Step`: Supabase answers or
  fails, httpx gives up after `HTTP_TIMEOUT_SECONDS`, and the event loop runs
  what is ready. Nothing is assumed of `Crash`, `LateTweet` or `LateDelete`.
- `media`: weak fairness of the upload's `Step`, for the same reason. Nothing is
  assumed of Twitter's processing or of the token; the poll is bounded by
  `max_polls`.
- `schedule`: time passes (`TimeComes`), and of the external workers what
  `src/README.md` asks: they go on polling (`Work`), take up every post they are
  given again and again (`TakeUp`, strongly fair: a worker may die with the batch
  in hand), and Twitter does not refuse one post for ever (`PublishPost`, strongly
  fair). Nothing is assumed of the schedule request.

## What is proved

Eight modules prove theorems for every value of the constants that the named
assumptions allow; TLC evaluates these assumptions in the runs. Each has
`Typing` (`Spec => []TypeOK`) and `Inductive` (`Spec => []IInv`), and:

| Module | Theorem | States `Spec =>` | For any |
|---|---|---|---|
| `ThreadPostingProofs` | `NoDoubleTweet` | `[]AtMostOnce` | calls, lengths of two or more, retries, faults (`SizeAssumption`, `HttpMaxRetriesAssumption`, `FaultsAssumption`) |
| | `AuditTrailShape` | `[]AuditShape` | |
| | `PublishedThreadsAreLive` | `[]PublishedIsLive` | |
| | `OneTweetInDoubt` | `[]AtMostOneUnrecorded` | |
| | `FailedThreadsAreGone` | `[]FailedIsGone` | |
| | `NoReplyOutlivesItsParent` | `[]NoLiveReplyToDeleted` | |
| | `CallsAreBounded` | `EveryStepCounts` | |
| `ThreadContractProofs` | `NoTweetUnopened` | `[]Unopened` | the same |
| | `ThreadsKeepContract` | `ContractSpec` | |
| `ThreadAnalyticsProofs` | `AnalyticsAreOfTheThread` | `[]AnalyticsTellThread` (of `ReaderSpec`) | the same, and a reader |
| `TweetPostingProofs` | `EveryTweetHasItsRow` | `[]AuditTrail` | submissions, tries, faults (`MaxTriesAssumption`, `HttpMaxRetriesAssumption`) |
| | `NoRowClaimsAnother` | `[]RowsNameTheirOwn` | |
| | `StatusIsTrue` | `[]StatusTellsTweet` | |
| | `TweetsKeepContract` | `ContractSpec` | |
| `AccountTokensProofs` | `TokensOutliveRequests` | `[]NotExpiredMidFlight` | calls, callbacks, faults, lifetimes and timeouts with `MARGIN >= 4 * PATIENCE` (`ClockAssumption`, `NamesAssumption`) |
| | `NoConnectionLost` | `[]ConnectionNotLost` | |
| | `DisconnectIsFinal` | `DisconnectSticks` | |
| `OAuthFlowProofs` | `NoSecondRow` | `[]OneRowPerAccount` | users, accounts, logins, callbacks, faults (`NamesAssumption`) |
| | `NoForeignTokens` | `[]TokensOfOwner` | |
| | `RedirectsAreTrue` | `[]AnswerTellsOutcome` | |
| | `NoReplay` | `ReplayRefused` | |
| | `LoginsKeepContract` | `ConnectionSpec` | |
| `MediaUploadProofs` | `OnlyReadyMedia` | `[]MediaIdIsReady` | chunk size, limits, poll budget, file (`UploadAssumption`) |
| | `ChunkArithmetic` | `[]ChunksCover` | |
| | `StatusTellsStage` | `[]AnswerTellsStage` | |
| | `UploadsAreBounded` | `EveryStepCounts` | |
| `SchedulingProofs` | `NothingEarly` | `[]NeverEarly` | requests, lengths, workers, faults (`SizeAssumption`) |
| | `AnsweredPostsAreWhole` | `[]AnsweredIsWhole` | |
| | `NoAcceptedScheduleIsLost` | `[]AcceptedIsFindable` | |

(`Typing` and `Inductive` of threads are in `ThreadPostingProofs`; of
ThreadAnalytics there is `ReaderInductive` in their place.)

Hardly any safety property is inductive: each speaks of an outcome, and its `IInv` of
every await on the way there.

- **Threads.** `AtMostOnce` says nothing of the position a call is about to
  send, `PublishedIsLive` nothing of a thread half way. `IInv` adds, for each
  call, how everything hangs on `n(c)`, the length of `posted_tweet_ids`: the
  local position is `n(c) + 1` (`LocalInv`), the first `n(c)` rows are
  published and name `posted` (`RowInv`), `posted` names the tweets of the
  positions `1..n(c)` in a chain of replies (`PostedInv`), and the one tweet
  beyond, at position `n(c) + 1`, is made, on its way or to be recorded, never
  two of these (`DoubtInv`); deletions concern posted tweets of a call that is
  rolling back or over (`DeleteInv`). There is a lemma per action; a step of
  one call leaves the others' part of the invariant alone (`Frame`, `Others`),
  and the late actions are the two that reach into calls which have ended. The
  refinement adds `Unopened` (no tweet, made or on its way, for a post without
  a row), on which the step of a tweet that appears late rests.
- **Rollback.** How far a rollback got is not in `IInv`, and it is known only
  while Twitter answers the DELETEs (`"delete" \notin Faults`, the antecedent
  that both properties have). Then `RollbackInv` holds beside `IInv`: deleted
  tweets are an end of the thread (`TailGone`) and reach down to `cursor`
  (`GoneBeyondCursor`), all are gone once the call is past the loop or the row
  says `failed` (`GoneWhenFailed`), and a tweet that was recorded although
  `record_item` raised, which the rollback does not know of, belongs to a call
  that never rolls back (`NotRolledBack`). `RollbackInductive` states it.
- **Analytics.** `ReaderInv` says what the reader knows at each await: a final
  status still stands, and what it has read and has yet to read is the thread
  from its start. By the writers' invariant the ids it takes from the table
  are a prefix of the thread (`RowsAreThread`), and the writers' steps can only
  settle more (`Settling`). That `PublishedItems` computes this
  prefix is an induction over the table: the hypothesis is given as a set,
  which well-founded induction on the naturals turns into all of them
  (`SetInduction`). The reader writes nothing (`ReaderRunsSpec`), so all
  theorems about threads hold beside it.
- **Bounds.** `CallsAreBounded` and `UploadsAreBounded` are the safety half of
  `EveryPostSettles` and `UploadEnds`: a natural number that every step of the
  call makes smaller and no other step makes larger. What they leave to TLC is
  that there is a step to take, and how the last one ends.
- **Tweets.** `TryInv` holds of every try, also of those given up: a tweet that
  is made or on its way has its two rows, and is not both. `CallInv` says by
  the await what of this there is for the current try (nothing before `send` is
  over), and that an exception whose status is 4xx stands for a try that has
  sent nothing; `Unique` that no try has two tweets. The contract follows from
  `IInv` step by step; each try is a post of one tweet.
- **Tokens.** `ClockOK` bounds, at each await after a grant, how much later the
  code's `expires_at` is than Twitter's (`waited`, then one or two `PATIENCE`),
  and `RowClock` carries the bound into the row, from where `ReadAccount` needs
  all four `PATIENCE` of the margin: two that `expires_at` may be late, one for
  the inserts and one for the request itself. `TokenOK` says that a granted token
  that is not stored yet is in no other call's hand and not in the row, so nobody
  can have spent it; hence whoever writes last stores a working one. `Spender`
  says who spent the row's token if it is spent, and that this call still holds
  both it and a working successor.
- **Logins.** `StateInv` ties what Redis has to who began the login,
  `RequestInv` a code to the request it first came with, `UserInv` the user a
  callback acts for to that login, `GrantInv` every row's tokens to a request;
  `StoredInv` and `SuccessInv` tie the answer to the write. The contract needs
  `SpentInv` besides: of the callbacks that share a code, one at most gets past
  the exchange, so no consent connects twice.
- **Uploads.** `StageInv` gives, at each await, what Twitter has: up to
  FINALIZE `received = offset = segments * CHUNK`, or the end of the file.
- **Schedules.** `ItemsInv` gives the number of item rows by the await,
  `BatchInv` and `GotInv` what a worker carries away of it; `StatusInv` says
  that the row of a request that has not failed is still scheduled, so that
  every poll finds it.

Only model-checked: the three liveness properties, `EveryPostSettles`,
`UploadEnds` and `AcceptedIsPublished`. They rest on fairness, which the prover
cannot reason about; the theorems `CallsAreBounded`, `UploadsAreBounded` and
`NoAcceptedScheduleIsLost` are what can be proved of them. (The five properties
that the code violates are TLC's too.)

## Where code and documentation differ

1. `ReportsExactlyPosted`: `services/twitter_thread_service.py:24-26` promises
   "exactly which tweet_ids were posted". A tweet whose answer was lost, or whose
   row update failed, is live and in neither the error nor the rollback.
   `AtMostOneUnrecorded` is what does hold. (The error handler,
   `middleware/error_handler.py:60`, then leaves the list out of the answer.)
2. `PublishingIsInFlight`: `models/twitter_post_model.py:30` says PUBLISHING is
   "actively being sent to Twitter right now". A 2xx answer without `data.id`
   raises at `services/twitter_post_service.py:64`, outside the `try`, and post
   and item stay `publishing`.
3. `NoDuplicatePost`: `services/twitter_client.py:74-76` says that posting has
   "Retry-with-dedup ... in twitter_post_service.py using a client-side
   idempotency approach". There is none; a second submission tweets again.
4. `NoManualRelogin`: `src/README.md:286-287` says "No manual re-login is ever
   required" while access is granted. Of two requests that refresh at once, the
   one that reaches Twitter second is told to reconnect. (`ConnectionNotLost`
   shows when reconnecting is really needed: after a call that lost the answer
   or failed to store it.)
5. `AlwaysRedirects`: `api/routers/twitter_auth_router.py:16-19` says of the
   callback that "the only correct response is an HTTP redirect". It redirects
   two exceptions. Of two tabs that connect one new account at once, both find no
   row, the second insert breaks the unique constraint, and its browser is shown
   the error handler's JSON 500; so it is with any other exception, and
   a denial without `code` gets FastAPI's JSON 422.

## What is not modelled

Text, user ids and ciphertext are opaque or left out: no property is about them.
The validators of the schemas look at single values; those that bound what a
model can be given (`must_be_future`, the number of tweets) are in its guards and
assumptions. Logging, settings, Fernet, PyJWT and start-up have no state that
changes. Of the routers only what decides something is modelled; the
rest is wiring. The metrics of a tweet are named by their tweet. Waiting times of
the backoff and of rate limits are left out of TwitterClient, where no request
gets a second attempt.

A callback URL that pairs one login's state with another's code is left out: no
redirect by Twitter produces one, and PKCE makes Twitter refuse the exchange, so
that it can only use up a state.

Six hazards are noted in `PROJECT.json` and claimed by no property: the body of
an error answer that drops `posted_tweet_ids`; analytics GETs that fail on the
first 503, and a failed GET of a login's state that counts as an expired one (both
are in the models, where they are correct failures); a refresh of a revoked grant
that is stored over a reconnect's tokens; a request that goes on with the token it
was given before a disconnect; and a scheduled row that nothing in `src/` settles,
so that whether it is published once or at every poll, or by several workers, is
up to the external worker. `published` of Scheduling is a set: it shows that a post
was published, not how often.

## Plan

Done: all modules above with their runs, and the theorems above: every safety
property that a passing run checks, and each refinement, is proved. Left:

1. A contract for AccountTokens, of a token as the services see it: usable for
   the request it is handed out for, or refused. Its proof would rest on
   `ClockOK` and `TokenOK`.
2. Liveness stays with TLC.
