------------------------------ MODULE OAuthFlow ------------------------------
(***************************************************************************)
(* Connecting Twitter accounts: GET /twitter/login and /twitter/callback   *)
(* (TwitterOAuthService and its router), the OAuth states they keep in     *)
(* Redis, and the twitter_accounts rows of every user.  An action is the   *)
(* code from one await to the next.                                        *)
(*                                                                         *)
(* A login stands for the state string and the PKCE pair it generates;     *)
(* both are random, so no two logins share them.  The name of a callback   *)
(* also names the code Twitter put in its URL, and the tokens that code    *)
(* was exchanged for.                                                      *)
(***************************************************************************)
EXTENDS Naturals, Sequences, Supabase

CONSTANTS
    User,
    Account,    \* Twitter accounts; several users may connect one
    Login,      \* calls of /twitter/login
    Callback    \* requests for /twitter/callback

VARIABLES
    initiator,  \* login -> the user who began it, or Nobody
    issued,     \* logins whose authorize URL the user was given
    redis,      \* state -> the user stored under it, or Nobody
    consumed,   \* states whose DEL Redis confirmed
    spent,      \* codes Twitter has exchanged for tokens
    rows,       \* the rows of twitter_accounts; an id is a place
    request,    \* callback -> the state and code in its URL
    pc,         \* callback -> the await it is at, or how it was answered
    user,       \* callback -> the user it read from Redis
    existing,   \* callback -> the row its lookup found
    stored      \* callbacks whose write to twitter_accounts took effect

logins == <<initiator, issued>>
locals == <<request, user, existing>>
vars   == <<logins, redis, consumed, spent, rows, locals, pc, stored>>

Nobody    == "nobody"
NoRow     == 0
NoRequest == [login |-> "none", code |-> "none", account |-> "none"]

ASSUME NamesAssumption == Nobody \notin User /\ NoRequest.code \notin Callback

Await == {"get_state", "delete_state", "exchange", "profile", "lookup",
          "reactivate", "create"}

(* The redirects of the router, FastAPI's 422, and the JSON 500 of the     *)
(* error handler.                                                          *)
Redirects == {"success", "auth_failed", "denied"}
Answered  == Redirects \cup {"unprocessable", "server_error"}

Row == [user : User, twitter : Account, access : Callback, is_active : BOOLEAN]

-----------------------------------------------------------------------------
Init ==
    /\ initiator = [l \in Login |-> Nobody]
    /\ issued = {}
    /\ redis = [l \in Login |-> Nobody]
    /\ consumed = {}
    /\ spent = {}
    /\ rows = <<>>
    /\ request = [k \in Callback |-> NoRequest]
    /\ pc = [k \in Callback |-> "idle"]
    /\ user = [k \in Callback |-> Nobody]
    /\ existing = [k \in Callback |-> NoRow]
    /\ stored = {}

Goto(k, next) == pc' = [pc EXCEPT ![k] = next]

(* Faulty: one handler for every exception.                                *)
RaiseCatchingAll(k, error) == Goto(k, "auth_failed")

(* Faulty: the error handler's catch-all is missing.                       *)
RaiseUncaught(k, error) ==
    Goto(k, IF error \in {"TwitterAuthError", "InvalidOAuthStateError"}
            THEN "auth_failed" ELSE error)

(* The router redirects two exceptions; the error handler answers others.  *)
Raise(k, error) ==
    Goto(k, IF error \in {"TwitterAuthError", "InvalidOAuthStateError"}
            THEN "auth_failed" ELSE "server_error")

(* How one command to Redis can end: answered 200, answered otherwise      *)
(* without effect, or by an exception before or after it took effect.      *)
RedisOutcome == {"ok"} \cup (IF "redis" \in Faults
                             THEN {"refused", "lost", "unconfirmed"} ELSE {})

(* build_authorize_url: nothing but a 200 of the SET lets the user have    *)
(* the URL.                                                                *)
BuildAuthorizeUrl(l, u) ==
    /\ initiator[l] = Nobody
    /\ initiator' = [initiator EXCEPT ![l] = u]
    /\ \E set \in RedisOutcome :
         /\ redis' = IF set \in {"ok", "unconfirmed"}
                     THEN [redis EXCEPT ![l] = u] ELSE redis
         /\ issued' = IF set = "ok" THEN issued \cup {l} ELSE issued
    /\ UNCHANGED <<consumed, spent, rows, locals, pc, stored>>

(* The user authorizes the app at Twitter with the account that is logged  *)
(* in there, and the browser follows the redirect.                         *)
Authorize(k, l, a) ==
    /\ pc[k] = "idle"
    /\ l \in issued
    /\ request' = [request EXCEPT ![k] = [login |-> l, code |-> k, account |-> a]]
    /\ Goto(k, "get_state")
    /\ UNCHANGED <<logins, redis, consumed, spent, rows, user, existing, stored>>

(* The browser requests the same URL once more: a reload, or the page      *)
(* restored from history.                                                  *)
Reload(k, j) ==
    /\ pc[k] = "idle"
    /\ request[j].code = j
    /\ request' = [request EXCEPT ![k] = request[j]]
    /\ Goto(k, "get_state")
    /\ UNCHANGED <<logins, redis, consumed, spent, rows, user, existing, stored>>

(* The user declines.  With a code in the URL the handler redirects; but   *)
(* code is a required parameter, and OAuth sends none with an error.       *)
Decline(k) ==
    /\ "denial" \in Faults
    /\ pc[k] = "idle"
    /\ issued # {}
    /\ \E withCode \in BOOLEAN : Goto(k, IF withCode THEN "denied" ELSE "unprocessable")
    /\ UNCHANGED <<logins, redis, consumed, spent, rows, locals, stored>>

(* get_json: an answer other than 200 counts as an unknown state.          *)
GetState(k) ==
    LET found == redis[request[k].login] IN
    /\ pc[k] = "get_state"
    /\ \/ /\ found # Nobody
          /\ user' = [user EXCEPT ![k] = found]
          /\ Goto(k, "delete_state")
       \/ /\ found = Nobody \/ "redis" \in Faults
          /\ Raise(k, "InvalidOAuthStateError")
          /\ UNCHANGED user
       \/ /\ "redis" \in Faults
          /\ Raise(k, "RequestError")
          /\ UNCHANGED user
    /\ UNCHANGED <<logins, redis, consumed, spent, rows, request, existing, stored>>

(* Faulty: the key without its prefix, under which there is nothing.       *)
DelUnprefixed(l) == redis

Del(l) == [redis EXCEPT ![l] = Nobody]

(* delete: an answer other than 200 is only logged.                        *)
DeleteState(k) ==
    LET l == request[k].login IN
    /\ pc[k] = "delete_state"
    /\ \E del \in RedisOutcome :
         /\ redis' = IF del \in {"ok", "unconfirmed"} THEN Del(l) ELSE redis
         /\ consumed' = IF del = "ok" THEN consumed \cup {l} ELSE consumed
         /\ IF del \in {"ok", "refused"} THEN Goto(k, "exchange")
                                         ELSE Raise(k, "RequestError")
    /\ UNCHANGED <<logins, spent, rows, locals, stored>>

(* _exchange_code_for_tokens.  Twitter takes a code once; the answer may   *)
(* be lost or unreadable.                                                  *)
ExchangeCode(k) ==
    LET code == request[k].code IN
    /\ pc[k] = "exchange"
    /\ \/ /\ code \notin spent
          /\ spent' = spent \cup {code}
          /\ \/ Goto(k, "profile")
             \/ "twitter" \in Faults /\ Raise(k, "RequestError")
       \/ /\ code \in spent \/ "twitter" \in Faults
          /\ Raise(k, "TwitterAuthError")
          /\ UNCHANGED spent
       \/ /\ "twitter" \in Faults
          /\ Raise(k, "RequestError")
          /\ UNCHANGED spent
    /\ UNCHANGED <<logins, redis, consumed, rows, locals, stored>>

(* _fetch_twitter_profile, and what is reckoned from the token response.   *)
FetchProfile(k) ==
    /\ pc[k] = "profile"
    /\ \/ Goto(k, "lookup")
       \/ /\ "twitter" \in Faults
          /\ \E error \in {"TwitterAuthError", "RequestError"} : Raise(k, error)
    /\ UNCHANGED <<logins, redis, consumed, spent, rows, locals, stored>>

(* Faulty: the query is not scoped by the user.                            *)
RowsOfAnyUser(u, a) == {r \in 1..Len(rows) : rows[r].twitter = a}

RowsOf(u, a) == {r \in 1..Len(rows) : rows[r].user = u /\ rows[r].twitter = a}

(* get_by_twitter_user_id.                                                 *)
LookUp(k) ==
    LET found == RowsOf(user[k], request[k].account) IN
    /\ pc[k] = "lookup"
    /\ \/ /\ found # {}
          /\ \E r \in found : existing' = [existing EXCEPT ![k] = r]
          /\ Goto(k, "reactivate")
       \/ /\ found = {}
          /\ Goto(k, "create")
          /\ UNCHANGED existing
       \/ /\ "database" \in Faults
          /\ Raise(k, "APIError")
          /\ UNCHANGED existing
    /\ UNCHANGED <<logins, redis, consumed, spent, rows, request, user, stored>>

(* Faulty: a write whose answer was lost is sent again.                    *)
WriteRetrying(k, table, db) ==
    /\ rows' = IF Committed(db) THEN table ELSE rows
    /\ stored' = IF Committed(db) THEN stored \cup {k} ELSE stored
    /\ CASE db = "ok"          -> Goto(k, "success")
         [] db = "unconfirmed" -> UNCHANGED pc
         [] OTHER              -> Raise(k, "APIError")

(* The end of a write to twitter_accounts and of the callback.             *)
Write(k, table, db) ==
    /\ rows' = IF Committed(db) THEN table ELSE rows
    /\ stored' = IF Committed(db) THEN stored \cup {k} ELSE stored
    /\ IF db = "ok" THEN Goto(k, "success") ELSE Raise(k, "APIError")

(* reactivate_with_new_tokens.                                             *)
Reactivate(k) ==
    /\ pc[k] = "reactivate"
    /\ \E db \in DbOutcome :
         Write(k, [rows EXCEPT ![existing[k]] =
                      [@ EXCEPT !.access = request[k].code, !.is_active = TRUE]], db)
    /\ UNCHANGED <<logins, redis, consumed, spent, locals>>

(* Faulty: twitter_accounts without its unique constraint.                 *)
InsertOutcomeUnconstrained(u, a) == DbOutcome

(* uq_twitter_accounts_user_twitter_user refuses a second row.             *)
InsertOutcome(u, a) == IF RowsOf(u, a) = {} THEN DbOutcome ELSE {"refused"}

(* create: the row may have appeared since the lookup.                     *)
Create(k) ==
    LET a == request[k].account IN
    /\ pc[k] = "create"
    /\ \E db \in InsertOutcome(user[k], a) :
         Write(k, Append(rows, [user |-> user[k], twitter |-> a,
                                access |-> request[k].code, is_active |-> TRUE]), db)
    /\ UNCHANGED <<logins, redis, consumed, spent, locals>>

(* disconnect_account keeps the row.                                       *)
Disconnect(r) ==
    /\ rows[r].is_active
    /\ rows' = [rows EXCEPT ![r].is_active = FALSE]
    /\ UNCHANGED <<logins, redis, consumed, spent, locals, pc, stored>>

(* The TTL given to SET runs out.                                          *)
Expire(l) ==
    /\ redis[l] # Nobody
    /\ redis' = [redis EXCEPT ![l] = Nobody]
    /\ UNCHANGED <<logins, consumed, spent, rows, locals, pc, stored>>

Crash(k) ==
    /\ "crash" \in Faults
    /\ pc[k] \in Await
    /\ Goto(k, "crashed")
    /\ UNCHANGED <<logins, redis, consumed, spent, rows, locals, stored>>

Step(k) ==
    \/ GetState(k)
    \/ DeleteState(k)
    \/ ExchangeCode(k)
    \/ FetchProfile(k)
    \/ LookUp(k)
    \/ Reactivate(k)
    \/ Create(k)

Next ==
    \/ \E l \in Login : Expire(l) \/ \E u \in User : BuildAuthorizeUrl(l, u)
    \/ \E k \in Callback :
          \/ \E l \in Login, a \in Account : Authorize(k, l, a)
          \/ \E j \in Callback : Reload(k, j)
          \/ Decline(k)
          \/ Step(k)
          \/ Crash(k)
    \/ \E r \in 1..Len(rows) : Disconnect(r)

Spec == Init /\ [][Next]_vars

-----------------------------------------------------------------------------
TypeOK ==
    /\ initiator \in [Login -> User \cup {Nobody}]
    /\ issued \in SUBSET Login
    /\ redis \in [Login -> User \cup {Nobody}]
    /\ consumed \in SUBSET Login
    /\ spent \in SUBSET Callback
    /\ rows \in Seq(Row)
    /\ request \in [Callback -> {NoRequest} \cup
                       [login : Login, code : Callback, account : Account]]
    /\ pc \in [Callback -> {"idle", "crashed"} \cup Await \cup Answered]
    /\ user \in [Callback -> User \cup {Nobody}]
    /\ existing \in [Callback -> Nat]
    /\ stored \in SUBSET Callback

(* "A user can only connect the same physical Twitter account once"        *)
(* (001_create_twitter_accounts.sql:35-36), although callbacks look for a  *)
(* row and insert one in two requests.                                     *)
OneRowPerAccount ==
    \A q, r \in 1..Len(rows) :
        rows[q].user = rows[r].user /\ rows[q].twitter = rows[r].twitter => q = r

(* The tokens in a row were granted by its Twitter account in a login its  *)
(* user began (twitter_oauth_service.py:50-56), whoever connects the same  *)
(* account at the same time and whichever callback wrote the row last.     *)
TokensOfOwner ==
    \A r \in 1..Len(rows) :
        LET grant == request[rows[r].access] IN
        /\ initiator[grant.login] = rows[r].user
        /\ grant.account = rows[r].twitter

(* What the browser is told is so: success when the connection was stored, *)
(* and auth_failed, which asks the user to try again, when it was not.     *)
AnswerTellsOutcome ==
    \A k \in Callback :
        /\ pc[k] = "success" => k \in stored
        /\ pc[k] = "auth_failed" => k \notin stored

(* Once Redis has confirmed the DEL of a state no callback passes the      *)
(* check with it (redis_client.py:78), so two callbacks share one only     *)
(* when both were read before that.                                        *)
ReplayRefused ==
    [][\A k \in Callback :
          pc[k] = "get_state" /\ pc'[k] = "delete_state" =>
              request[k].login \notin consumed]_vars

(* Logins and callbacks are a run of ConnectionContract.  A code stands    *)
(* for the consent it was issued for, and is used when a callback that     *)
(* brought it has written the row.                                         *)
Contract == INSTANCE ConnectionContract WITH
    Consent    <- Callback,
    given      <- {[id |-> k, user |-> initiator[request[k].login],
                    account |-> request[k].account] :
                       k \in {j \in Callback : request[j].code = j}},
    used       <- {request[k].code : k \in stored},
    connection <- [pair \in User \X Account |->
                      {[by |-> rows[r].access, active |-> rows[r].is_active] :
                          r \in RowsOf(pair[1], pair[2])}]

ConnectionSpec == Contract!Spec

(* twitter_auth_router.py:16-19: the callback is hit by the browser, and   *)
(* "the only correct response is an HTTP redirect back into the Next.js    *)
(* app".                                                                   *)
AlwaysRedirects ==
    \A k \in Callback : pc[k] \in Answered => pc[k] \in Redirects
=============================================================================
