--------------------------- MODULE OAuthFlowProofs ---------------------------
(***************************************************************************)
(* Proofs that logins and callbacks, any number of them by any users, keep *)
(* one row per user and Twitter account, store tokens only for the user    *)
(* whose login they came from, answer truthfully, accept no state whose    *)
(* deletion Redis has confirmed, and implement ConnectionContract.         *)
(***************************************************************************)
EXTENDS OAuthFlow, TLAPS

(* Awaits past the check of the state.                                     *)
Passed == {"delete_state", "exchange", "profile", "lookup", "reactivate", "create"}

(* A state is stored for the user who began its login, and a state that    *)
(* was given out or deleted has one.                                       *)
StateInv ==
    /\ \A l \in Login : redis[l] \in {Nobody, initiator[l]}
    /\ \A l \in issued \cup consumed : initiator[l] # Nobody
    /\ \A l \in consumed : redis[l] = Nobody

(* A request comes from a login that was given out, and the callback that  *)
(* first presented its code has the same request for good.                 *)
RequestInv ==
    \A k \in Callback :
        /\ pc[k] = "idle" => request[k] = NoRequest
        /\ request[k] # NoRequest =>
              request[k].login \in issued /\ request[request[k].code] = request[k]

(* A callback works for the user who began the login of its request.       *)
UserInv ==
    \A k \in Callback :
        /\ user[k] # Nobody =>
              request[k] # NoRequest /\ user[k] = initiator[request[k].login]
        /\ pc[k] \in Await => request[k] # NoRequest
        /\ pc[k] \in Passed => user[k] # Nobody
        /\ pc[k] = "reactivate" => existing[k] \in RowsOf(user[k], request[k].account)

(* The tokens in a row come from a request.                                *)
GrantInv == \A r \in 1..Len(rows) : request[rows[r].access] # NoRequest

StoredInv == \A k \in stored : pc[k] \in {"success", "server_error"}

SuccessInv == \A k \in Callback : pc[k] = "success" => k \in stored

IInv ==
    /\ TypeOK
    /\ StateInv
    /\ RequestInv
    /\ UserInv
    /\ GrantInv
    /\ TokensOfOwner
    /\ OneRowPerAccount
    /\ StoredInv
    /\ SuccessInv

-----------------------------------------------------------------------------
LEMMA InitIInv == Init => IInv
<1> SUFFICES ASSUME Init PROVE IInv
  OBVIOUS
<1>1. rows = <<>> /\ Len(rows) = 0
  BY DEF Init
<1>2. TypeOK
  BY <1>1 DEF Init, TypeOK, NoRow
<1>3. StateInv /\ RequestInv /\ UserInv /\ StoredInv /\ SuccessInv
  BY DEF Init, StateInv, RequestInv, UserInv, StoredInv, SuccessInv, Await, Passed
<1>4. GrantInv /\ TokensOfOwner /\ OneRowPerAccount
  BY <1>1 DEF GrantInv, TokensOfOwner, OneRowPerAccount
<1> QED
  BY <1>2, <1>3, <1>4 DEF IInv

LEMMA Element == ASSUME NEW S, NEW s \in Seq(S), NEW i \in 1..Len(s) PROVE s[i] \in S
OBVIOUS

LEMMA Replaced ==
    ASSUME NEW S, NEW s \in Seq(S), NEW i \in 1..Len(s), NEW e \in S
    PROVE  LET t == [s EXCEPT ![i] = e] IN
           /\ t \in Seq(S) /\ Len(t) = Len(s) /\ t[i] = e
           /\ \A j \in 1..Len(s) : j # i => t[j] = s[j]
OBVIOUS

LEMMA Appended ==
    ASSUME NEW S, NEW s \in Seq(S), NEW e \in S
    PROVE  LET t == Append(s, e) IN
           /\ t \in Seq(S) /\ Len(s) \in Nat /\ Len(t) = Len(s) + 1 /\ t[Len(s) + 1] = e
           /\ \A j \in 1..Len(s) : t[j] = s[j]
OBVIOUS

LEMMA Raised ==
    ASSUME NEW k, NEW error, Raise(k, error)
    PROVE  \E x \in {"auth_failed", "server_error"} : pc' = [pc EXCEPT ![k] = x]
BY DEF Raise, Goto

(* A row belongs to the users and tokens of its time for good, as long as  *)
(* nobody writes it: what it depends on does not change.                   *)
LEMMA Kept ==
    ASSUME IInv, UNCHANGED rows,
           \A l \in Login : initiator[l] # Nobody => initiator'[l] = initiator[l],
           \A k \in Callback : request[k] # NoRequest => request'[k] = request[k]
    PROVE  GrantInv' /\ TokensOfOwner' /\ OneRowPerAccount'
<1>1. \A r \in 1..Len(rows) :
        LET k == rows[r].access IN
        /\ k \in Callback /\ request[k] # NoRequest
        /\ request[k].login \in Login /\ initiator[request[k].login] # Nobody
  <2> SUFFICES ASSUME NEW r \in 1..Len(rows)
               PROVE  LET k == rows[r].access IN
                      /\ k \in Callback /\ request[k] # NoRequest
                      /\ request[k].login \in Login /\ initiator[request[k].login] # Nobody
    OBVIOUS
  <2>1. rows[r].access \in Callback /\ request[rows[r].access] # NoRequest
    <3>1. rows[r] \in Row
      BY Element DEF IInv, TypeOK
    <3> QED
      BY <3>1 DEF IInv, GrantInv, Row
  <2>2. request[rows[r].access].login \in issued
    BY <2>1 DEF IInv, RequestInv
  <2> QED
    BY <2>1, <2>2 DEF IInv, TypeOK, StateInv
<1>2. \A r \in 1..Len(rows) :
        LET k == rows[r].access IN
        request'[k] = request[k] /\ initiator'[request[k].login] = initiator[request[k].login]
  BY <1>1
<1>3. GrantInv'
  BY <1>1, <1>2 DEF GrantInv
<1>4. TokensOfOwner'
  BY <1>2 DEF IInv, TokensOfOwner
<1>5. OneRowPerAccount'
  BY DEF IInv, OneRowPerAccount
<1> QED
  BY <1>3, <1>4, <1>5

(* A step of a callback that has written nothing to twitter_accounts yet,  *)
(* and does not now.                                                       *)
LEMMA Move ==
    ASSUME IInv,
           NEW k \in Callback, pc[k] \in {"idle"} \cup Await,
           NEW x \in (Await \ {"reactivate"}) \cup {"auth_failed", "server_error",
                        "denied", "unprocessable", "crashed"},
           pc' = [pc EXCEPT ![k] = x],
           x \in Await => request[k] # NoRequest,
           x \in Passed => user[k] # Nobody,
           UNCHANGED <<logins, rows, request, user, existing, stored>>,
           redis' \in [Login -> User \cup {Nobody}],
           consumed' \in SUBSET Login, spent' \in SUBSET Callback, StateInv'
    PROVE  IInv'
<1>1. k \notin stored
  BY DEF IInv, StoredInv, Await
<1>2. TypeOK'
  BY DEF IInv, TypeOK, logins, Answered, Redirects, Await
<1>3. x # "idle" /\ x # "reactivate" /\ x # "success"
  BY DEF Await
<1>4. RequestInv'
  BY <1>3 DEF IInv, TypeOK, RequestInv, logins
<1>5. UserInv'
  BY <1>3 DEF IInv, TypeOK, UserInv, RowsOf, logins
<1>6. GrantInv' /\ TokensOfOwner' /\ OneRowPerAccount'
  BY Kept DEF logins
<1>7. StoredInv' /\ SuccessInv'
  BY <1>1, <1>3 DEF IInv, TypeOK, StoredInv, SuccessInv
<1> QED
  BY <1>2, <1>4, <1>5, <1>6, <1>7 DEF IInv

LEMMA BuildAuthorizeUrlStep ==
    ASSUME IInv, NEW l \in Login, NEW u \in User, BuildAuthorizeUrl(l, u)
    PROVE  IInv'
<1>1. /\ initiator[l] = Nobody
      /\ initiator' = [initiator EXCEPT ![l] = u]
      /\ redis' \in {redis, [redis EXCEPT ![l] = u]}
      /\ issued' \in {issued, issued \cup {l}}
      /\ UNCHANGED <<consumed, spent, rows, request, user, existing, pc, stored>>
  BY DEF BuildAuthorizeUrl, locals
<1>2. TypeOK'
  BY <1>1 DEF IInv, TypeOK
<1>3. u # Nobody
  BY NamesAssumption
<1>4. l \notin issued \cup consumed
  BY <1>1 DEF IInv, StateInv
<1>5. StateInv'
  BY <1>1, <1>3, <1>4 DEF IInv, TypeOK, StateInv
<1>6. RequestInv'
  BY <1>1 DEF IInv, RequestInv
<1>7. \A k \in Callback : request[k] # NoRequest =>
        request[k].login \in Login \ {l} /\ initiator'[request[k].login] = initiator[request[k].login]
  BY <1>1, <1>4 DEF IInv, TypeOK, RequestInv
<1>8. UserInv'
  BY <1>1, <1>7 DEF IInv, UserInv, RowsOf
<1>9. GrantInv' /\ TokensOfOwner' /\ OneRowPerAccount'
  BY <1>1, Kept DEF IInv, TypeOK
<1>10. StoredInv' /\ SuccessInv'
  BY <1>1 DEF IInv, StoredInv, SuccessInv
<1> QED
  BY <1>2, <1>5, <1>6, <1>8, <1>9, <1>10 DEF IInv

(* A callback arrives: a first one with its own code, or one with the      *)
(* request of another.                                                     *)
LEMMA ArrivalStep ==
    ASSUME IInv, NEW k \in Callback,
           \/ \E l \in Login, a \in Account : Authorize(k, l, a)
           \/ \E j \in Callback : Reload(k, j)
    PROVE  IInv'
<1>1. /\ pc[k] = "idle" /\ pc' = [pc EXCEPT ![k] = "get_state"]
      /\ UNCHANGED <<initiator, issued, redis, consumed, spent, rows, user, existing, stored>>
  BY DEF Authorize, Reload, Goto, logins
<1>2. request[k] = NoRequest /\ user[k] = Nobody /\ k \notin stored
  BY <1>1 DEF IInv, RequestInv, UserInv, StoredInv
<1>3. PICK new \in [login : Login, code : Callback, account : Account] :
        /\ request' = [request EXCEPT ![k] = new]
        /\ new.login \in issued
        /\ new.code = k \/ request[new.code] = new
  <2>1. CASE \E l \in Login, a \in Account : Authorize(k, l, a)
    <3>1. PICK l \in issued, a \in Account :
            request' = [request EXCEPT ![k] = [login |-> l, code |-> k, account |-> a]]
      BY <2>1 DEF Authorize
    <3>2. [login |-> l, code |-> k, account |-> a]
             \in [login : Login, code : Callback, account : Account]
      BY <3>1 DEF IInv, TypeOK
    <3> QED
      BY <3>1, <3>2
  <2>2. CASE \E j \in Callback : Reload(k, j)
    <3>1. PICK j \in Callback : request[j].code = j /\ request' = [request EXCEPT ![k] = request[j]]
      BY <2>2 DEF Reload
    <3>2. request[j] # NoRequest
      BY <3>1, NamesAssumption
    <3>3. request[j] \in [login : Login, code : Callback, account : Account]
      BY <3>2 DEF IInv, TypeOK
    <3> QED
      BY <3>1, <3>2, <3>3 DEF IInv, RequestInv
  <2> QED
    BY <2>1, <2>2
<1>4. new # NoRequest
  BY <1>3, NamesAssumption
<1>5. /\ request'[k] = new
      /\ \A j \in Callback \ {k} : request'[j] = request[j]
      /\ \A j \in Callback : request[j] # NoRequest => j # k
  BY <1>2, <1>3 DEF IInv, TypeOK
<1>6. TypeOK'
  BY <1>1, <1>3 DEF IInv, TypeOK, Await
<1>7. StateInv'
  BY <1>1 DEF IInv, StateInv
<1>8. RequestInv'
  <2>1. pc'[k] = "get_state" /\ \A j \in Callback \ {k} : pc'[j] = pc[j]
    BY <1>1 DEF IInv, TypeOK
  <2>2. request'[new.code] = new
    BY <1>3, <1>5
  <2>3. ASSUME NEW j \in Callback \ {k}, request[j] # NoRequest
        PROVE  request'[request[j].code] = request[j]
    <3>1. request[j].code \in Callback /\ request[request[j].code] = request[j]
      BY <2>3 DEF IInv, TypeOK, RequestInv
    <3> QED
      BY <1>5, <2>3, <3>1
  <2> QED
    BY <1>1, <1>3, <1>5, <2>1, <2>2, <2>3 DEF IInv, RequestInv
<1>9. UserInv'
  BY <1>1, <1>2, <1>4, <1>5 DEF IInv, TypeOK, UserInv, RowsOf, Await, Passed
<1>10. GrantInv' /\ TokensOfOwner' /\ OneRowPerAccount'
  BY <1>1, <1>5, Kept
<1>11. StoredInv' /\ SuccessInv'
  BY <1>1, <1>2 DEF IInv, TypeOK, StoredInv, SuccessInv
<1> QED
  BY <1>6, <1>7, <1>8, <1>9, <1>10, <1>11 DEF IInv

LEMMA GetStateStep ==
    ASSUME IInv, NEW k \in Callback, GetState(k)
    PROVE  IInv'
<1>1. /\ pc[k] = "get_state"
      /\ UNCHANGED <<logins, redis, consumed, spent, rows, request, existing, stored>>
  BY DEF GetState
<1>2. StateInv'
  BY <1>1 DEF IInv, StateInv, logins
<1>3. CASE UNCHANGED user
  <2>1. PICK x \in {"auth_failed", "server_error", "delete_state"} :
          pc' = [pc EXCEPT ![k] = x] /\ (x = "delete_state" => user[k] # Nobody)
    BY <1>3, Raised DEF GetState, Goto, IInv, TypeOK
  <2>2. request[k] # NoRequest /\ pc[k] \in Await
    BY <1>1 DEF IInv, UserInv, Await
  <2>3. x \in Passed => user[k] # Nobody
    BY <2>1 DEF Passed
  <2> QED
    BY <1>1, <1>2, <1>3, <2>1, <2>2, <2>3, Move DEF IInv, TypeOK, Await
<1>4. CASE user' # user
  <2>1. LET u == redis[request[k].login] IN
        /\ u # Nobody
        /\ user' = [user EXCEPT ![k] = u]
        /\ pc' = [pc EXCEPT ![k] = "delete_state"]
    BY <1>4 DEF GetState, Goto
  <2>2. /\ request[k] # NoRequest /\ request[k].login \in Login
        /\ redis[request[k].login] = initiator[request[k].login]
        /\ redis[request[k].login] \in User
    BY <1>1, <2>1 DEF IInv, TypeOK, UserInv, StateInv, Await
  <2>3. k \notin stored
    BY <1>1 DEF IInv, StoredInv
  <2>4. TypeOK'
    BY <1>1, <2>1, <2>2 DEF IInv, TypeOK, Await, logins
  <2>5. RequestInv'
    BY <1>1, <2>1 DEF IInv, TypeOK, RequestInv, logins
  <2>6. UserInv'
    BY <1>1, <2>1, <2>2 DEF IInv, TypeOK, UserInv, RowsOf, logins, Await
  <2>7. GrantInv' /\ TokensOfOwner' /\ OneRowPerAccount'
    BY <1>1, Kept DEF logins
  <2>8. StoredInv' /\ SuccessInv'
    BY <1>1, <2>1, <2>3 DEF IInv, TypeOK, StoredInv, SuccessInv
  <2> QED
    BY <1>2, <2>4, <2>5, <2>6, <2>7, <2>8 DEF IInv
<1> QED
  BY <1>3, <1>4

LEMMA DeleteStateStep ==
    ASSUME IInv, NEW k \in Callback, DeleteState(k)
    PROVE  IInv'
<1> DEFINE l == request[k].login
<1>1. /\ pc[k] = "delete_state" /\ request[k] # NoRequest /\ user[k] # Nobody
      /\ l \in issued /\ l \in Login
      /\ UNCHANGED <<logins, spent, rows, request, user, existing, stored>>
  BY DEF DeleteState, locals, IInv, TypeOK, UserInv, RequestInv, Await, Passed
<1>2. PICK del \in RedisOutcome :
        /\ redis' = IF del \in {"ok", "unconfirmed"} THEN Del(l) ELSE redis
        /\ consumed' = IF del = "ok" THEN consumed \cup {l} ELSE consumed
        /\ IF del \in {"ok", "refused"} THEN Goto(k, "exchange")
                                        ELSE Raise(k, "RequestError")
  BY DEF DeleteState
<1>3. redis' \in [Login -> User \cup {Nobody}] /\ consumed' \in SUBSET Login
  BY <1>1, <1>2 DEF IInv, TypeOK, Del
<1>4. StateInv'
  BY <1>1, <1>2 DEF IInv, TypeOK, StateInv, Del, logins
<1>5. PICK x \in {"exchange", "auth_failed", "server_error"} : pc' = [pc EXCEPT ![k] = x]
  BY <1>2, Raised DEF Goto
<1> QED
  BY <1>1, <1>3, <1>4, <1>5, Move DEF IInv, TypeOK, Await

(* The steps of a callback that leave Redis and the rows alone.            *)
LEMMA QuietStep ==
    ASSUME IInv, NEW k \in Callback,
           Decline(k) \/ ExchangeCode(k) \/ FetchProfile(k) \/ Crash(k)
    PROVE  IInv'
<1>1. /\ UNCHANGED <<logins, redis, consumed, rows, request, user, existing, stored>>
      /\ spent' \in SUBSET Callback
  <2>1. CASE ExchangeCode(k)
    <3>1. request[k].code \in Callback
      BY <2>1 DEF ExchangeCode, IInv, TypeOK, UserInv, Await
    <3> QED
      BY <2>1, <3>1 DEF ExchangeCode, IInv, TypeOK, locals
  <2>2. CASE Decline(k) \/ FetchProfile(k) \/ Crash(k)
    BY <2>2 DEF Decline, FetchProfile, Crash, IInv, TypeOK, locals
  <2> QED
    BY <2>1, <2>2
<1>2. StateInv'
  BY <1>1 DEF IInv, StateInv, logins
<1>3. \E x \in {"denied", "unprocessable", "profile", "lookup", "auth_failed",
                "server_error", "crashed"} :
        /\ pc' = [pc EXCEPT ![k] = x]
        /\ pc[k] \in {"idle"} \cup Await
        /\ x \in {"profile", "lookup"} => pc[k] \in Passed
  <2>1. CASE Decline(k)
    BY <2>1 DEF Decline, Goto
  <2>2. CASE ExchangeCode(k)
    BY <2>2, Raised DEF ExchangeCode, Goto, Await, Passed
  <2>3. CASE FetchProfile(k)
    BY <2>3, Raised DEF FetchProfile, Goto, Await, Passed
  <2>4. CASE Crash(k)
    BY <2>4 DEF Crash, Goto
  <2> QED
    BY <2>1, <2>2, <2>3, <2>4
<1>4. pc[k] \in Passed => user[k] # Nobody /\ request[k] # NoRequest
  BY DEF IInv, UserInv
<1> QED
  BY <1>1, <1>2, <1>3, <1>4, Move DEF IInv, TypeOK, Await, Passed

LEMMA LookUpStep ==
    ASSUME IInv, NEW k \in Callback, LookUp(k)
    PROVE  IInv'
<1>1. /\ pc[k] = "lookup" /\ request[k] # NoRequest /\ user[k] # Nobody
      /\ UNCHANGED <<logins, redis, consumed, spent, rows, request, user, stored>>
  BY DEF LookUp, IInv, UserInv, Await, Passed
<1>2. StateInv'
  BY <1>1 DEF IInv, StateInv, logins
<1>3. CASE UNCHANGED existing /\ pc' # [pc EXCEPT ![k] = "reactivate"]
  <2>1. PICK x \in {"create", "auth_failed", "server_error"} : pc' = [pc EXCEPT ![k] = x]
    BY <1>3, Raised DEF LookUp, Goto
  <2> QED
    BY <1>1, <1>2, <1>3, <2>1, Move DEF IInv, TypeOK, Await
<1>4. CASE existing' # existing \/ pc' = [pc EXCEPT ![k] = "reactivate"]
  <2>1. PICK r \in RowsOf(user[k], request[k].account) :
          /\ existing' = [existing EXCEPT ![k] = r]
          /\ pc' = [pc EXCEPT ![k] = "reactivate"]
    <3>1. ASSUME NEW x \in {"create", "auth_failed", "server_error"},
                 pc' = [pc EXCEPT ![k] = x]
          PROVE  pc' # [pc EXCEPT ![k] = "reactivate"]
      BY <3>1 DEF IInv, TypeOK
    <3> QED
      BY <1>4, <3>1, Raised DEF LookUp, Goto
  <2>2. r \in Nat /\ k \notin stored
    <3>1. r \in 1..Len(rows) /\ Len(rows) \in Nat
      BY <2>1 DEF RowsOf, IInv, TypeOK
    <3> QED
      BY <1>1, <3>1 DEF IInv, StoredInv
  <2>3. TypeOK'
    BY <1>1, <2>1, <2>2 DEF IInv, TypeOK, Await, logins
  <2>4. RequestInv'
    BY <1>1, <2>1 DEF IInv, TypeOK, RequestInv, logins
  <2>5. UserInv'
    BY <1>1, <2>1 DEF IInv, TypeOK, UserInv, RowsOf, logins, Await, Passed
  <2>6. GrantInv' /\ TokensOfOwner' /\ OneRowPerAccount'
    BY <1>1, Kept DEF logins
  <2>7. StoredInv' /\ SuccessInv'
    BY <1>1, <2>1, <2>2 DEF IInv, TypeOK, StoredInv, SuccessInv
  <2> QED
    BY <1>2, <2>3, <2>4, <2>5, <2>6, <2>7 DEF IInv
<1> QED
  BY <1>3, <1>4

(* The row a reactivation writes is the user's and the account's; the new  *)
(* tokens come from the request of this callback.                          *)
LEMMA ReactivateStep ==
    ASSUME IInv, NEW k \in Callback, Reactivate(k)
    PROVE  IInv'
<1> DEFINE e == existing[k]
<1> DEFINE code == request[k].code
<1>1. /\ pc[k] = "reactivate" /\ request[k] # NoRequest /\ user[k] # Nobody
      /\ e \in RowsOf(user[k], request[k].account)
      /\ UNCHANGED <<logins, redis, consumed, spent, request, user, existing>>
  BY DEF Reactivate, locals, IInv, UserInv, Await, Passed
<1>2. /\ code \in Callback /\ request[code] = request[k]
      /\ request[k].login \in issued /\ user[k] = initiator[request[k].login]
      /\ k \notin stored
  BY <1>1 DEF IInv, TypeOK, RequestInv, UserInv, StoredInv
<1>3. e \in 1..Len(rows) /\ rows[e].user = user[k] /\ rows[e].twitter = request[k].account
  BY <1>1 DEF RowsOf
<1>4. PICK db \in DbOutcome :
        Write(k, [rows EXCEPT ![e] = [@ EXCEPT !.access = code, !.is_active = TRUE]], db)
  BY DEF Reactivate
<1>5. StateInv'
  BY <1>1 DEF IInv, StateInv, logins
<1>6. CASE ~ Committed(db)
  <2>1. UNCHANGED <<rows, stored>> /\ db # "ok"
    BY <1>4, <1>6 DEF Write, Committed
  <2>2. PICK x \in {"auth_failed", "server_error"} : pc' = [pc EXCEPT ![k] = x]
    BY <1>4, <2>1, Raised DEF Write
  <2> QED
    BY <1>1, <1>5, <2>1, <2>2, Move DEF IInv, TypeOK, Await, Passed
<1>7. CASE Committed(db)
  <2>1. /\ rows' = [rows EXCEPT ![e] = [@ EXCEPT !.access = code, !.is_active = TRUE]]
        /\ stored' = stored \cup {k}
    BY <1>4, <1>7 DEF Write
  <2>2. PICK x \in {"success", "server_error"} : pc' = [pc EXCEPT ![k] = x]
    BY <1>4 DEF Write, Raise, Goto
  <2>3. /\ Len(rows') = Len(rows)
        /\ rows'[e].user = rows[e].user /\ rows'[e].twitter = rows[e].twitter
        /\ rows'[e].access = code
        /\ \A r \in 1..Len(rows) : r # e => rows'[r] = rows[r]
        /\ rows' \in Seq(Row)
    <3> DEFINE new == [rows[e] EXCEPT !.access = code, !.is_active = TRUE]
    <3>1. rows \in Seq(Row) /\ rows[e] \in Row
      BY <1>3, Element DEF IInv, TypeOK
    <3>2. /\ new \in Row /\ new.access = code
          /\ new.user = rows[e].user /\ new.twitter = rows[e].twitter
      BY <1>2, <3>1 DEF Row
    <3>3. rows' = [rows EXCEPT ![e] = new]
      BY <1>3, <2>1, <3>1
    <3> HIDE DEF new
    <3>4. /\ rows' \in Seq(Row) /\ Len(rows') = Len(rows) /\ rows'[e] = new
          /\ \A r \in 1..Len(rows) : r # e => rows'[r] = rows[r]
      BY <1>3, <3>1, <3>2, <3>3, Replaced
    <3> QED
      BY <3>2, <3>4
  <2>4. TypeOK'
    BY <1>1, <2>1, <2>2, <2>3 DEF IInv, TypeOK, logins, Answered, Redirects
  <2>5. RequestInv'
    BY <1>1, <2>2 DEF IInv, TypeOK, RequestInv, logins
  <2>6. \A u, a : RowsOf(u, a)' = RowsOf(u, a)
    BY <1>3, <2>3 DEF RowsOf
  <2>7. UserInv'
    BY <1>1, <2>2, <2>6 DEF IInv, TypeOK, UserInv, logins, Await, Passed
  <2>8. GrantInv'
    BY <1>1, <1>2, <2>3 DEF IInv, GrantInv
  <2>9. TokensOfOwner'
    BY <1>1, <1>2, <1>3, <2>3 DEF IInv, TokensOfOwner, logins
  <2>10. OneRowPerAccount'
    BY <1>3, <2>3 DEF IInv, OneRowPerAccount
  <2>11. StoredInv' /\ SuccessInv'
    BY <1>2, <2>1, <2>2 DEF IInv, TypeOK, StoredInv, SuccessInv
  <2> QED
    BY <1>5, <2>4, <2>5, <2>7, <2>8, <2>9, <2>10, <2>11 DEF IInv
<1> QED
  BY <1>6, <1>7

(* A row is inserted only where the unique constraint finds none.          *)
LEMMA CreateStep ==
    ASSUME IInv, NEW k \in Callback, Create(k)
    PROVE  IInv'
<1> DEFINE new == [user |-> user[k], twitter |-> request[k].account,
                   access |-> request[k].code, is_active |-> TRUE]
<1>1. /\ pc[k] = "create" /\ request[k] # NoRequest /\ user[k] # Nobody
      /\ UNCHANGED <<logins, redis, consumed, spent, request, user, existing>>
  BY DEF Create, locals, IInv, UserInv, Await, Passed
<1>2. /\ request[k].code \in Callback /\ request[request[k].code] = request[k]
      /\ request[k].login \in issued /\ user[k] = initiator[request[k].login]
      /\ user[k] \in User /\ request[k].account \in Account /\ k \notin stored
  BY <1>1 DEF IInv, TypeOK, RequestInv, UserInv, StoredInv
<1>3. PICK db \in InsertOutcome(user[k], request[k].account) : Write(k, Append(rows, new), db)
  BY DEF Create
<1>4. StateInv'
  BY <1>1 DEF IInv, StateInv, logins
<1>5. CASE ~ Committed(db)
  <2>1. UNCHANGED <<rows, stored>> /\ db # "ok"
    BY <1>3, <1>5 DEF Write, Committed
  <2>2. PICK x \in {"auth_failed", "server_error"} : pc' = [pc EXCEPT ![k] = x]
    BY <1>3, <2>1, Raised DEF Write
  <2> QED
    BY <1>1, <1>4, <2>1, <2>2, Move DEF IInv, TypeOK, Await, Passed
<1>6. CASE Committed(db)
  <2>1. RowsOf(user[k], request[k].account) = {}
    BY <1>3, <1>6 DEF InsertOutcome, Committed
  <2>2. rows' = Append(rows, new) /\ stored' = stored \cup {k}
    BY <1>3, <1>6 DEF Write
  <2>3. PICK x \in {"success", "server_error"} : pc' = [pc EXCEPT ![k] = x]
    BY <1>3 DEF Write, Raise, Goto
  <2>4. /\ Len(rows) \in Nat /\ Len(rows') = Len(rows) + 1
        /\ rows'[Len(rows) + 1] = new
        /\ \A r \in 1..Len(rows) : rows'[r] = rows[r]
        /\ rows' \in Seq(Row)
    <3>1. rows \in Seq(Row) /\ new \in Row
      BY <1>2 DEF IInv, TypeOK, Row
    <3> HIDE DEF new
    <3> QED
      BY <2>2, <3>1, Appended
  <2>5. \A r \in 1..Len(rows') : r \in 1..Len(rows) \/ r = Len(rows) + 1
    BY <2>4
  <2>6. TypeOK'
    BY <1>1, <2>2, <2>3, <2>4 DEF IInv, TypeOK, logins, Answered, Redirects
  <2>7. RequestInv'
    BY <1>1, <2>3 DEF IInv, TypeOK, RequestInv, logins
  <2>8. \A u, a : RowsOf(u, a) \subseteq RowsOf(u, a)'
    BY <2>4 DEF RowsOf
  <2>9. UserInv'
    BY <1>1, <2>3, <2>8 DEF IInv, TypeOK, UserInv, logins, Await, Passed
  <2>10. GrantInv'
    BY <1>1, <1>2, <2>4, <2>5 DEF IInv, GrantInv
  <2>11. TokensOfOwner'
    BY <1>1, <1>2, <2>4, <2>5 DEF IInv, TokensOfOwner, logins
  <2>12. \A r \in 1..Len(rows) :
           ~ (rows[r].user = user[k] /\ rows[r].twitter = request[k].account)
    BY <2>1 DEF RowsOf
  <2>13. OneRowPerAccount'
    BY <2>4, <2>5, <2>12 DEF IInv, OneRowPerAccount
  <2>14. StoredInv' /\ SuccessInv'
    BY <1>2, <2>2, <2>3 DEF IInv, TypeOK, StoredInv, SuccessInv
  <2> QED
    BY <1>4, <2>6, <2>7, <2>9, <2>10, <2>11, <2>13, <2>14 DEF IInv
<1> QED
  BY <1>5, <1>6

LEMMA DisconnectStep ==
    ASSUME IInv, NEW r \in 1..Len(rows), Disconnect(r)
    PROVE  IInv'
<1>1. /\ rows' = [rows EXCEPT ![r].is_active = FALSE]
      /\ UNCHANGED <<logins, redis, consumed, spent, request, user, existing, pc, stored>>
  BY DEF Disconnect, locals
<1>2. /\ Len(rows') = Len(rows)
      /\ \A q \in 1..Len(rows) : /\ rows'[q].user = rows[q].user
                                 /\ rows'[q].twitter = rows[q].twitter
                                 /\ rows'[q].access = rows[q].access
      /\ rows' \in Seq(Row)
  <2> DEFINE new == [rows[r] EXCEPT !.is_active = FALSE]
  <2>1. rows \in Seq(Row) /\ rows[r] \in Row
    BY Element DEF IInv, TypeOK
  <2>2. new \in Row /\ new.user = rows[r].user /\ new.twitter = rows[r].twitter
           /\ new.access = rows[r].access
    BY <2>1 DEF Row
  <2>3. rows' = [rows EXCEPT ![r] = new]
    BY <1>1, <2>1
  <2> HIDE DEF new
  <2>4. /\ rows' \in Seq(Row) /\ Len(rows') = Len(rows) /\ rows'[r] = new
        /\ \A q \in 1..Len(rows) : q # r => rows'[q] = rows[q]
    BY <2>1, <2>2, <2>3, Replaced
  <2> QED
    BY <2>2, <2>4
<1>3. TypeOK' /\ StateInv' /\ RequestInv' /\ StoredInv' /\ SuccessInv'
  BY <1>1, <1>2 DEF IInv, TypeOK, StateInv, RequestInv, StoredInv, SuccessInv, logins
<1>4. \A u, a : RowsOf(u, a)' = RowsOf(u, a)
  BY <1>2 DEF RowsOf
<1>5. UserInv'
  BY <1>1, <1>4 DEF IInv, UserInv, logins
<1>6. GrantInv' /\ TokensOfOwner' /\ OneRowPerAccount'
  BY <1>1, <1>2 DEF IInv, GrantInv, TokensOfOwner, OneRowPerAccount, logins
<1> QED
  BY <1>3, <1>5, <1>6 DEF IInv

LEMMA ExpireStep ==
    ASSUME IInv, NEW l \in Login, Expire(l)
    PROVE  IInv'
<1>1. /\ redis' = [redis EXCEPT ![l] = Nobody]
      /\ UNCHANGED <<logins, consumed, spent, rows, request, user, existing, pc, stored>>
  BY DEF Expire, locals
<1>2. TypeOK' /\ StateInv'
  BY <1>1 DEF IInv, TypeOK, StateInv, logins
<1> QED
  BY <1>1, <1>2 DEF IInv, RequestInv, UserInv, RowsOf, GrantInv, TokensOfOwner,
     OneRowPerAccount, StoredInv, SuccessInv, logins

LEMMA Preserved == IInv /\ [Next]_vars => IInv'
<1> SUFFICES ASSUME IInv, [Next]_vars PROVE IInv'
  OBVIOUS
<1>1. CASE UNCHANGED vars
  BY <1>1 DEF IInv, TypeOK, StateInv, RequestInv, UserInv, RowsOf, GrantInv, TokensOfOwner,
     OneRowPerAccount, StoredInv, SuccessInv, vars, logins, locals
<1>2. CASE Next
  BY <1>2, BuildAuthorizeUrlStep, ArrivalStep, GetStateStep, DeleteStateStep, QuietStep,
     LookUpStep, ReactivateStep, CreateStep, DisconnectStep, ExpireStep DEF Next, Step
<1> QED
  BY <1>1, <1>2

-----------------------------------------------------------------------------
(* The conjunction is inductive.                                           *)
THEOREM Inductive == Spec => []IInv
BY InitIInv, Preserved, PTL DEF Spec

(* The variables keep their types.                                         *)
THEOREM Typing == Spec => []TypeOK
<1>1. IInv => TypeOK
  BY DEF IInv
<1> QED
  BY <1>1, Inductive, PTL

(* A user has one row per Twitter account, however callbacks race.         *)
THEOREM NoSecondRow == Spec => []OneRowPerAccount
<1>1. IInv => OneRowPerAccount
  BY DEF IInv
<1> QED
  BY <1>1, Inductive, PTL

(* A row only ever holds tokens of its Twitter account, granted in a login *)
(* that its user began.                                                    *)
THEOREM NoForeignTokens == Spec => []TokensOfOwner
<1>1. IInv => TokensOfOwner
  BY DEF IInv
<1> QED
  BY <1>1, Inductive, PTL

(* The redirect tells whether the connection was stored.                   *)
THEOREM RedirectsAreTrue == Spec => []AnswerTellsOutcome
<1>1. IInv => AnswerTellsOutcome
  BY DEF IInv, StoredInv, SuccessInv, AnswerTellsOutcome
<1> QED
  BY <1>1, Inductive, PTL

(* A state whose deletion was confirmed lets no callback pass.             *)
THEOREM NoReplay == Spec => ReplayRefused
<1>1. ASSUME IInv, NEW k \in Callback, [Next]_vars,
             pc[k] = "get_state", pc'[k] = "delete_state"
      PROVE  request[k].login \notin consumed
  <2>1. GetState(k)
    <3>1. Next
      BY <1>1 DEF vars
    <3>2. \E j \in Callback : pc' # pc /\
            (Step(j) \/ Crash(j) \/ Decline(j) \/ (\E l \in Login, a \in Account : Authorize(j, l, a))
               \/ (\E i \in Callback : Reload(j, i)))
      BY <1>1, <3>1 DEF Next, Disconnect, Expire, BuildAuthorizeUrl
    <3>3. ASSUME NEW j \in Callback, NEW x, pc' = [pc EXCEPT ![j] = x], j # k \/ x # "delete_state"
          PROVE  FALSE
      BY <1>1, <3>3 DEF IInv, TypeOK
    <3>4. ASSUME NEW j \in Callback, NEW error, Raise(j, error) PROVE FALSE
      BY <3>3, <3>4, Raised
    <3> QED
      BY <3>2, <3>3, <3>4 DEF Step, Crash, Decline, Authorize, Reload, Goto, DeleteState,
         ExchangeCode, FetchProfile, LookUp, Reactivate, Create, Write, GetState
  <2>2. redis[request[k].login] # Nobody
    <3> SUFFICES ASSUME redis[request[k].login] = Nobody PROVE FALSE
      OBVIOUS
    <3>1. Raise(k, "InvalidOAuthStateError") \/ Raise(k, "RequestError")
      BY <2>1 DEF GetState
    <3>2. pc'[k] \in {"auth_failed", "server_error"}
      BY <1>1, <3>1, Raised DEF IInv, TypeOK
    <3> QED
      BY <1>1, <3>2
  <2>3. request[k].login \in consumed => redis[request[k].login] = Nobody
    BY <1>1 DEF IInv, StateInv
  <2> QED
    BY <2>2, <2>3
<1>2. IInv /\ [Next]_vars =>
        [\A k \in Callback :
            pc[k] = "get_state" /\ pc'[k] = "delete_state" =>
                request[k].login \notin consumed]_vars
  BY <1>1
<1> QED
  BY <1>2, Inductive, PTL DEF Spec, ReplayRefused

-----------------------------------------------------------------------------
(* That a consent connects once rests on Twitter taking a code once: of    *)
(* the callbacks that share one, a single one gets past the exchange.      *)
PastExchange(k) == pc[k] \in {"profile", "lookup", "reactivate", "create"} \/ k \in stored

SpentInv ==
    /\ \A k \in Callback : PastExchange(k) => request[k].code \in spent
    /\ \A j, k \in Callback :
          PastExchange(j) /\ PastExchange(k) /\ request[j].code = request[k].code => j = k

LEMMA SpentKept ==
    ASSUME SpentInv, spent \subseteq spent',
           \A k \in Callback : PastExchange(k)' => PastExchange(k) /\ request'[k] = request[k]
    PROVE  SpentInv'
BY DEF SpentInv

(* A step of a callback that does not pass the exchange, or has passed it. *)
LEMMA SpentMove ==
    ASSUME IInv, SpentInv, NEW k \in Callback, NEW x, pc' = [pc EXCEPT ![k] = x],
           UNCHANGED <<request, spent>>, stored' \subseteq stored \cup {k},
           x \in {"profile", "lookup", "reactivate", "create"} \/ k \in stored' => PastExchange(k)
    PROVE  SpentInv'
<1>1. ASSUME NEW j \in Callback, PastExchange(j)' PROVE PastExchange(j)
  <2>1. CASE j = k
    BY <1>1, <2>1 DEF PastExchange, IInv, TypeOK
  <2>2. CASE j # k
    BY <1>1, <2>2 DEF PastExchange, IInv, TypeOK
  <2> QED
    BY <2>1, <2>2
<1> QED
  BY <1>1, SpentKept

LEMMA SpentStep == ASSUME IInv, SpentInv, [Next]_vars PROVE SpentInv'
<1>1. ASSUME UNCHANGED <<pc, request, stored, spent>> PROVE SpentInv'
  BY <1>1 DEF SpentInv, PastExchange
<1>2. ASSUME NEW k \in Callback,
             \/ \E l \in Login, a \in Account : Authorize(k, l, a)
             \/ \E j \in Callback : Reload(k, j)
      PROVE  SpentInv'
  <2>1. /\ pc[k] = "idle" /\ pc' = [pc EXCEPT ![k] = "get_state"] /\ UNCHANGED <<spent, stored>>
        /\ \A j \in Callback \ {k} : request'[j] = request[j]
    BY <1>2 DEF Authorize, Reload, Goto, IInv, TypeOK
  <2>2. k \notin stored
    BY <2>1 DEF IInv, StoredInv
  <2>3. ~ PastExchange(k)'
    BY <2>1, <2>2 DEF PastExchange, IInv, TypeOK
  <2>4. \A j \in Callback \ {k} : PastExchange(j)' => PastExchange(j)
    BY <2>1 DEF PastExchange, IInv, TypeOK
  <2> QED
    BY <2>1, <2>3, <2>4, SpentKept
<1>3. ASSUME NEW k \in Callback, ExchangeCode(k) PROVE SpentInv'
  <2> DEFINE code == request[k].code
  <2>1. /\ pc[k] = "exchange" /\ UNCHANGED <<request, stored>> /\ k \notin stored
        /\ ~ PastExchange(k)
    BY <1>3 DEF ExchangeCode, locals, PastExchange, IInv, StoredInv
  <2>2. spent \subseteq spent'
    BY <1>3 DEF ExchangeCode
  <2>3. \A j \in Callback \ {k} : PastExchange(j)' => PastExchange(j)
    <3>1. \E x : pc' = [pc EXCEPT ![k] = x]
      BY <1>3, Raised DEF ExchangeCode, Goto
    <3> QED
      BY <2>1, <3>1 DEF PastExchange, IInv, TypeOK
  <2>4. CASE pc' = [pc EXCEPT ![k] = "profile"]
    <3>1. code \notin spent /\ spent' = spent \cup {code}
      <4>1. ASSUME NEW error, Raise(k, error) PROVE FALSE
        <5>1. pc'[k] \in {"auth_failed", "server_error"}
          BY <4>1, Raised DEF IInv, TypeOK
        <5>2. pc'[k] = "profile"
          BY <2>4 DEF IInv, TypeOK
        <5> QED
          BY <5>1, <5>2
      <4> QED
        BY <1>3, <4>1 DEF ExchangeCode
    <3>2. \A j \in Callback \ {k} : PastExchange(j)' => request[j].code \in spent
      BY <2>3 DEF SpentInv
    <3> QED
      BY <2>1, <2>3, <3>1, <3>2 DEF SpentInv
  <2>5. CASE pc' # [pc EXCEPT ![k] = "profile"]
    <3>1. PICK x \in {"auth_failed", "server_error"} : pc' = [pc EXCEPT ![k] = x]
      BY <1>3, <2>5, Raised DEF ExchangeCode, Goto
    <3>2. ~ PastExchange(k)'
      BY <2>1, <3>1 DEF PastExchange, IInv, TypeOK
    <3> QED
      BY <2>1, <2>2, <2>3, <3>2, SpentKept
  <2> QED
    BY <2>4, <2>5
<1>4. ASSUME NEW k \in Callback,
             GetState(k) \/ DeleteState(k) \/ Decline(k) \/ Crash(k) PROVE SpentInv'
  <2>1. UNCHANGED <<request, spent, stored>> /\ k \notin stored
    BY <1>4 DEF GetState, DeleteState, Decline, Crash, locals, IInv, StoredInv, Await
  <2>2. PICK x \in {"auth_failed", "server_error", "delete_state", "exchange", "denied",
                    "unprocessable", "crashed"} : pc' = [pc EXCEPT ![k] = x]
    BY <1>4, Raised DEF GetState, DeleteState, Decline, Crash, Goto
  <2> QED
    BY <2>1, <2>2, SpentMove
<1>5. ASSUME NEW k \in Callback,
             FetchProfile(k) \/ LookUp(k) \/ Reactivate(k) \/ Create(k) PROVE SpentInv'
  <2>1. UNCHANGED <<request, spent>> /\ stored' \subseteq stored \cup {k} /\ PastExchange(k)
    BY <1>5 DEF FetchProfile, LookUp, Reactivate, Create, Write, locals, PastExchange
  <2>2. PICK x : pc' = [pc EXCEPT ![k] = x]
    BY <1>5, Raised DEF FetchProfile, LookUp, Reactivate, Create, Write, Goto
  <2> QED
    BY <2>1, <2>2, SpentMove
<1> QED
  BY <1>1, <1>2, <1>3, <1>4, <1>5
     DEF Next, Step, BuildAuthorizeUrl, Expire, Disconnect, vars, locals

-----------------------------------------------------------------------------
(* The refinement: what the mapping of Contract makes of a state.          *)
Given == {[id |-> k, user |-> initiator[request[k].login],
           account |-> request[k].account] :
              k \in {j \in Callback : request[j].code = j}}
Used == {request[k].code : k \in stored}
Connections ==
    [pair \in User \X Account |->
        {[by |-> rows[r].access, active |-> rows[r].is_active] :
            r \in RowsOf(pair[1], pair[2])}]

LEMMA Shown ==
    ASSUME IInv
    PROVE  /\ \A k \in Callback : request[k].code = k =>
                 request[k] # NoRequest /\ initiator[request[k].login] # Nobody
           /\ \A k \in stored : k \in Callback /\ pc[k] # "idle"
BY NamesAssumption DEF IInv, TypeOK, RequestInv, StateInv, StoredInv

(* A step that begins a login, or is one of a callback before its write.   *)
LEMMA NothingShown ==
    ASSUME IInv, UNCHANGED <<request, stored, rows>>,
           \A l \in Login : initiator[l] # Nobody => initiator'[l] = initiator[l]
    PROVE  UNCHANGED Contract!vars
<1>1. \A k \in Callback : request[k].code = k =>
        initiator'[request[k].login] = initiator[request[k].login]
  BY Shown, NamesAssumption DEF IInv, TypeOK
<1>2. Given' = Given
  BY <1>1 DEF Given
<1>3. Used' = Used /\ Connections' = Connections
  BY DEF Used, Connections, RowsOf
<1> QED
  BY <1>2, <1>3 DEF Contract!vars, Given, Used, Connections

LEMMA ArrivalShown ==
    ASSUME IInv, NEW k \in Callback, pc[k] = "idle",
           UNCHANGED <<initiator, rows, stored>>,
           NEW new, request' = [request EXCEPT ![k] = new]
    PROVE  /\ Used' = Used /\ Connections' = Connections
           /\ \A consent \in Given : consent.id # k
           /\ Given' = IF new.code = k
                       THEN Given \cup {[id |-> k, user |-> initiator[new.login],
                                         account |-> new.account]}
                       ELSE Given
<1>1. request[k].code # k /\ k \notin stored
  BY Shown, NamesAssumption DEF IInv, RequestInv
<1>2. request'[k] = new /\ \A j \in Callback \ {k} : request'[j] = request[j]
  BY DEF IInv, TypeOK
<1>3. Used' = Used /\ Connections' = Connections
  BY <1>1, <1>2, Shown DEF Used, Connections, RowsOf
<1>4. \A consent \in Given : consent.id # k
  BY <1>1 DEF Given
<1>5. Given' = IF new.code = k
               THEN Given \cup {[id |-> k, user |-> initiator[new.login],
                                 account |-> new.account]}
               ELSE Given
  BY <1>1, <1>2 DEF Given
<1> QED
  BY <1>3, <1>4, <1>5

(* One row is written, and it is the only one of its user and account.     *)
LEMMA RowShown ==
    ASSUME OneRowPerAccount',
           NEW r \in 1..Len(rows'),
           NEW u \in User, rows'[r].user = u,
           NEW a \in Account, rows'[r].twitter = a,
           \A q \in 1..Len(rows) : q \in 1..Len(rows'),
           \A q \in 1..Len(rows') : q # r => q \in 1..Len(rows) /\ rows'[q] = rows[q],
           r \in 1..Len(rows) => rows[r].user = u /\ rows[r].twitter = a
    PROVE  Connections' = [Connections EXCEPT ![<<u, a>>] =
                              {[by |-> rows'[r].access, active |-> rows'[r].is_active]}]
<1>1. ASSUME NEW pair \in User \X Account, pair # <<u, a>>
      PROVE  Connections'[pair] = Connections[pair]
  <2>1. PICK v \in User, b \in Account : pair = <<v, b>>
    OBVIOUS
  <2>2. ~ (v = u /\ b = a)
    BY <1>1, <2>1
  <2>3. \A q \in RowsOf(v, b)' : q # r
    BY <2>2 DEF RowsOf
  <2>4. \A q \in RowsOf(v, b) : q # r
    BY <2>2 DEF RowsOf
  <2>5. RowsOf(v, b)' = RowsOf(v, b) /\ \A q \in RowsOf(v, b) : rows'[q] = rows[q]
    BY <2>3, <2>4 DEF RowsOf
  <2>6. /\ Connections[pair] = {[by |-> rows[q].access, active |-> rows[q].is_active] :
                                   q \in RowsOf(v, b)}
        /\ Connections'[pair] = {[by |-> rows'[q].access, active |-> rows'[q].is_active] :
                                   q \in RowsOf(v, b)'}
    BY <2>1 DEF Connections, RowsOf
  <2> QED
    BY <2>5, <2>6
<1>2. Connections'[<<u, a>>] = {[by |-> rows'[r].access, active |-> rows'[r].is_active]}
  <2>1. RowsOf(u, a)' = {r}
    BY DEF RowsOf, OneRowPerAccount
  <2>2. Connections'[<<u, a>>] = {[by |-> rows'[q].access, active |-> rows'[q].is_active] :
                                     q \in RowsOf(u, a)'}
    BY DEF Connections, RowsOf
  <2> QED
    BY <2>1, <2>2
<1>3. /\ Connections = [pair \in User \X Account |-> Connections[pair]]
      /\ Connections' = [pair \in User \X Account |-> Connections'[pair]]
  BY DEF Connections
<1> QED
  BY <1>1, <1>2, <1>3

(* The write of a callback uses its consent for its user and account.      *)
LEMMA ConnectShown ==
    ASSUME IInv, SpentInv, NEW k \in Callback, PastExchange(k), k \notin stored,
           pc[k] \in Await, UNCHANGED <<request, initiator>>, stored' = stored \cup {k},
           user[k] \in User,
           Connections' = [Connections EXCEPT ![<<user[k], request[k].account>>] =
                              {[by |-> request[k].code, active |-> TRUE]}]
    PROVE  Contract!Next
<1> DEFINE code == request[k].code
<1> DEFINE consent == [id |-> code, user |-> user[k], account |-> request[k].account]
<1>1. /\ code \in Callback /\ request[code] = request[k]
      /\ user[k] = initiator[request[k].login]
  BY NamesAssumption DEF IInv, TypeOK, UserInv, RequestInv
<1>2. consent \in Given
  BY <1>1 DEF Given
<1>3. Given' = Given /\ Used' = Used \cup {code}
  BY DEF Given, Used
<1>4. code \notin Used
  <2>1. \A j \in stored : j \in Callback /\ PastExchange(j) /\ j # k
    BY DEF IInv, TypeOK, PastExchange
  <2> QED
    BY <2>1 DEF Used, SpentInv
<1>5. PICK given \in Given : given = consent
  BY <1>2
<1>6. given.id = code /\ given.user = user[k] /\ given.account = request[k].account
  BY <1>5
<1> HIDE DEF code, consent
<1>7. Contract!Connect(given)
  BY <1>3, <1>4, <1>6 DEF Contract!Connect, Given, Used, Connections, code
<1> QED
  BY <1>7 DEF Contract!Next, Given

LEMMA ReactivateShown ==
    ASSUME IInv, IInv', SpentInv, NEW k \in Callback, Reactivate(k)
    PROVE  [Contract!Next]_Contract!vars
<1> DEFINE e == existing[k]
<1> DEFINE code == request[k].code
<1> DEFINE new == [rows[e] EXCEPT !.access = code, !.is_active = TRUE]
<1>1. /\ pc[k] = "reactivate" /\ PastExchange(k) /\ pc[k] \in Await /\ k \notin stored
      /\ UNCHANGED <<request, initiator>>
      /\ request[k] # NoRequest /\ user[k] \in User /\ request[k].account \in Account
      /\ code \in Callback
      /\ e \in RowsOf(user[k], request[k].account)
  <2>1. pc[k] = "reactivate" /\ UNCHANGED <<request, initiator>>
    BY DEF Reactivate, locals, logins
  <2>2. pc[k] \in Await /\ PastExchange(k)
    BY <2>1 DEF Await, PastExchange
  <2>3. request[k] # NoRequest /\ user[k] # Nobody /\ e \in RowsOf(user[k], request[k].account)
    BY <2>1, <2>2 DEF IInv, UserInv, Passed
  <2>4. /\ request[k] \in {NoRequest} \cup
                           [login : Login, code : Callback, account : Account]
        /\ user[k] \in User \cup {Nobody}
    BY DEF IInv, TypeOK
  <2>5. request[k].account \in Account /\ code \in Callback /\ user[k] \in User
    BY <2>3, <2>4
  <2>6. k \notin stored
    BY <2>1 DEF IInv, StoredInv
  <2> QED
    BY <2>1, <2>2, <2>3, <2>5, <2>6
<1>2. /\ e \in 1..Len(rows) /\ rows[e].user = user[k] /\ rows[e].twitter = request[k].account
      /\ rows \in Seq(Row)
  BY <1>1 DEF RowsOf, IInv, TypeOK
<1>3. rows[e] \in Row
  BY <1>2, Element
<1>4. /\ new \in Row /\ new.user = user[k] /\ new.twitter = request[k].account
      /\ new.access = code /\ new.is_active = TRUE
  BY <1>1, <1>2, <1>3 DEF Row
<1>5. PICK db \in DbOutcome : Write(k, [rows EXCEPT ![e] = new], db)
  <2>1. [rows EXCEPT ![e] = new]
           = [rows EXCEPT ![e] = [@ EXCEPT !.access = code, !.is_active = TRUE]]
    BY <1>2
  <2> QED
    BY <2>1 DEF Reactivate
<1>6. CASE ~ Committed(db)
  <2>1. UNCHANGED <<rows, stored>>
    BY <1>5, <1>6 DEF Write
  <2> QED
    BY <1>1, <2>1, NothingShown
<1>7. CASE Committed(db)
  <2>1. rows' = [rows EXCEPT ![e] = new] /\ stored' = stored \cup {k}
    BY <1>5, <1>7 DEF Write
  <2> HIDE DEF new
  <2>2. /\ Len(rows') = Len(rows) /\ rows'[e] = new
        /\ \A q \in 1..Len(rows) : q # e => rows'[q] = rows[q]
    BY <1>2, <1>4, <2>1, Replaced
  <2>3. PICK r \in 1..Len(rows) : r = e
    BY <1>2
  <2>4. PICK u \in User, a \in Account : u = user[k] /\ a = request[k].account
    BY <1>1
  <2>5. OneRowPerAccount'
    BY DEF IInv
  <2>6. Connections' = [Connections EXCEPT ![<<u, a>>] =
                           {[by |-> rows'[r].access, active |-> rows'[r].is_active]}]
    BY <1>2, <1>4, <2>2, <2>3, <2>4, <2>5, RowShown
  <2>7. rows'[r].access = code /\ rows'[r].is_active = TRUE
    BY <1>4, <2>2, <2>3
  <2> QED
    BY <1>1, <2>1, <2>4, <2>6, <2>7, ConnectShown
<1> QED
  BY <1>6, <1>7

LEMMA CreateShown ==
    ASSUME IInv, IInv', SpentInv, NEW k \in Callback, Create(k)
    PROVE  [Contract!Next]_Contract!vars
<1> DEFINE new == [user |-> user[k], twitter |-> request[k].account,
                   access |-> request[k].code, is_active |-> TRUE]
<1>1. /\ pc[k] = "create" /\ PastExchange(k) /\ pc[k] \in Await /\ k \notin stored
      /\ UNCHANGED <<request, initiator>>
      /\ request[k] # NoRequest /\ user[k] \in User /\ request[k].account \in Account
      /\ request[k].code \in Callback /\ rows \in Seq(Row)
  BY DEF Create, locals, logins, IInv, TypeOK, UserInv, StoredInv, Await, Passed, PastExchange
<1>2. /\ new \in Row /\ new.user = user[k] /\ new.twitter = request[k].account
      /\ new.access = request[k].code /\ new.is_active = TRUE
  BY <1>1 DEF Row
<1>3. PICK db : Write(k, Append(rows, new), db)
  BY DEF Create
<1>4. CASE ~ Committed(db)
  <2>1. UNCHANGED <<rows, stored>>
    BY <1>3, <1>4 DEF Write
  <2> QED
    BY <1>1, <2>1, NothingShown
<1>5. CASE Committed(db)
  <2>1. rows' = Append(rows, new) /\ stored' = stored \cup {k}
    BY <1>3, <1>5 DEF Write
  <2> HIDE DEF new
  <2>2. /\ Len(rows) \in Nat /\ Len(rows') = Len(rows) + 1 /\ rows'[Len(rows) + 1] = new
        /\ \A q \in 1..Len(rows) : rows'[q] = rows[q]
    BY <1>1, <1>2, <2>1, Appended
  <2>3. PICK r \in Nat : r = Len(rows) + 1
    BY <2>2
  <2>4. /\ r \in 1..Len(rows') /\ r \notin 1..Len(rows)
        /\ \A q \in 1..Len(rows) : q \in 1..Len(rows')
        /\ \A q \in 1..Len(rows') : q # r => q \in 1..Len(rows)
    BY <2>2, <2>3
  <2>5. PICK u \in User, a \in Account : u = user[k] /\ a = request[k].account
    BY <1>1
  <2>6. OneRowPerAccount'
    BY DEF IInv
  <2>7. rows'[r] = new /\ rows'[r].user = u /\ rows'[r].twitter = a
    BY <1>2, <2>2, <2>3, <2>5
  <2>8. Connections' = [Connections EXCEPT ![<<u, a>>] =
                           {[by |-> rows'[r].access, active |-> rows'[r].is_active]}]
    BY <2>2, <2>4, <2>6, <2>7, RowShown
  <2>9. rows'[r].access = request[k].code /\ rows'[r].is_active = TRUE
    BY <1>2, <2>7
  <2> QED
    BY <1>1, <2>1, <2>5, <2>8, <2>9, ConnectShown
<1> QED
  BY <1>4, <1>5

LEMMA DisconnectShown ==
    ASSUME IInv, IInv', NEW r \in 1..Len(rows), Disconnect(r)
    PROVE  Contract!Next
<1> DEFINE new == [rows[r] EXCEPT !.is_active = FALSE]
<1>1. /\ rows[r].is_active /\ rows' = [rows EXCEPT ![r].is_active = FALSE]
      /\ UNCHANGED <<request, initiator, stored>>
      /\ rows \in Seq(Row)
  BY DEF Disconnect, locals, logins, IInv, TypeOK
<1>2. rows[r] \in Row
  BY <1>1, Element
<1>3. /\ new \in Row /\ new.user = rows[r].user /\ new.twitter = rows[r].twitter
      /\ new.access = rows[r].access /\ new.is_active = FALSE
  BY <1>2 DEF Row
<1>4. rows' = [rows EXCEPT ![r] = new]
  BY <1>1, <1>2
<1> HIDE DEF new
<1>5. /\ Len(rows') = Len(rows) /\ rows'[r] = new
      /\ \A q \in 1..Len(rows) : q # r => rows'[q] = rows[q]
  BY <1>1, <1>3, <1>4, Replaced
<1>6. PICK u \in User, a \in Account : u = rows[r].user /\ a = rows[r].twitter
  BY <1>2 DEF Row
<1>7. OneRowPerAccount /\ OneRowPerAccount'
  BY DEF IInv
<1>8. Connections' = [Connections EXCEPT ![<<u, a>>] =
                         {[by |-> rows'[r].access, active |-> rows'[r].is_active]}]
  BY <1>3, <1>5, <1>6, <1>7, RowShown
<1>9. PICK old : old = [by |-> rows[r].access, active |-> rows[r].is_active]
  OBVIOUS
<1>10. /\ old \in Connections[<<u, a>>] /\ old.active
       /\ Connections' = [Connections EXCEPT ![<<u, a>>] = {[by |-> old.by, active |-> FALSE]}]
  <2>1. r \in RowsOf(u, a)
    BY <1>6 DEF RowsOf
  <2>2. Connections[<<u, a>>] = {[by |-> rows[q].access, active |-> rows[q].is_active] :
                                    q \in RowsOf(u, a)}
    BY DEF Connections, RowsOf
  <2>3. old.by = rows[r].access /\ old.active = rows[r].is_active
    BY <1>9
  <2>4. rows'[r].access = old.by /\ rows'[r].is_active = FALSE
    BY <1>3, <1>5, <2>3
  <2> QED
    BY <1>1, <1>8, <1>9, <2>1, <2>2, <2>3, <2>4
<1>11. Given' = Given /\ Used' = Used
  BY <1>1 DEF Given, Used
<1>12. PICK pair \in User \X Account : pair = <<u, a>>
  OBVIOUS
<1>13. Contract!Disconnect(pair)
  BY <1>10, <1>11, <1>12 DEF Contract!Disconnect, Given, Used, Connections
<1> QED
  BY <1>13 DEF Contract!Next

LEMMA ArrivalIsConsent ==
    ASSUME IInv, NEW k \in Callback,
           \/ \E l \in Login, a \in Account : Authorize(k, l, a)
           \/ \E j \in Callback : Reload(k, j)
    PROVE  [Contract!Next]_Contract!vars
<1>1. pc[k] = "idle" /\ UNCHANGED <<initiator, rows, stored>>
  BY DEF Authorize, Reload, logins
<1>2. ASSUME NEW l \in Login, NEW a \in Account, Authorize(k, l, a)
      PROVE  Contract!Next
  <2> DEFINE new == [login |-> l, code |-> k, account |-> a]
  <2>1. request' = [request EXCEPT ![k] = new] /\ initiator[l] # Nobody
    BY <1>2 DEF Authorize, IInv, StateInv
  <2>2. new.code = k /\ new.login = l /\ new.account = a
    OBVIOUS
  <2> HIDE DEF new
  <2>3. /\ Used' = Used /\ Connections' = Connections
        /\ \A consent \in Given : consent.id # k
        /\ Given' = Given \cup {[id |-> k, user |-> initiator[l], account |-> a]}
    BY <1>1, <2>1, <2>2, ArrivalShown
  <2>4. PICK u \in User : u = initiator[l]
    BY <2>1 DEF IInv, TypeOK
  <2>5. Contract!Give(k, u, a)
    BY <2>3, <2>4 DEF Contract!Give, Given, Used, Connections
  <2> QED
    BY <2>5 DEF Contract!Next
<1>3. ASSUME NEW j \in Callback, Reload(k, j) PROVE UNCHANGED Contract!vars
  <2>1. request[j].code = j /\ request' = [request EXCEPT ![k] = request[j]]
    BY <1>3 DEF Reload
  <2>2. j # k
    BY <1>1, <2>1, NamesAssumption DEF IInv, RequestInv
  <2>3. PICK new : new = request[j]
    OBVIOUS
  <2>4. Used' = Used /\ Connections' = Connections /\ Given' = Given
    BY <1>1, <2>1, <2>2, <2>3, ArrivalShown
  <2> QED
    BY <2>4 DEF Contract!vars, Given, Used, Connections
<1> QED
  BY <1>2, <1>3

LEMMA ContractStep ==
    ASSUME IInv, IInv', SpentInv, [Next]_vars
    PROVE  [Contract!Next]_Contract!vars
<1>1. ASSUME UNCHANGED <<initiator, request, stored, rows>>
      PROVE  UNCHANGED Contract!vars
  BY <1>1, NothingShown
<1>2. ASSUME NEW l \in Login, NEW u \in User, BuildAuthorizeUrl(l, u)
      PROVE  UNCHANGED Contract!vars
  <2>1. /\ UNCHANGED <<request, stored, rows>>
        /\ \A m \in Login : initiator[m] # Nobody => initiator'[m] = initiator[m]
    BY <1>2 DEF BuildAuthorizeUrl, locals, IInv, TypeOK
  <2> QED
    BY <2>1, NothingShown
<1>3. ASSUME NEW k \in Callback,
             \/ GetState(k) \/ DeleteState(k) \/ ExchangeCode(k) \/ FetchProfile(k)
             \/ LookUp(k) \/ Decline(k) \/ Crash(k)
      PROVE  UNCHANGED Contract!vars
  BY <1>1, <1>3 DEF GetState, DeleteState, ExchangeCode, FetchProfile, LookUp, Decline,
                    Crash, logins, locals
<1> QED
  BY <1>1, <1>2, <1>3, ArrivalIsConsent, ReactivateShown, CreateShown, DisconnectShown
     DEF Next, Step, Expire, vars, logins, locals

(* Whatever races, is reloaded or fails, a consent connects once, its user *)
(* with its account, over the one connection they have.                    *)
THEOREM LoginsKeepContract == Spec => ConnectionSpec
<1>1. Init => Contract!Init /\ SpentInv
  <2> SUFFICES ASSUME Init PROVE Contract!Init /\ SpentInv
    OBVIOUS
  <2>1. rows = <<>> /\ stored = {} /\ \A k \in Callback : request[k].code # k
    BY NamesAssumption DEF Init
  <2>2. Given = {} /\ Used = {}
    BY <2>1 DEF Given, Used
  <2>3. Connections = [pair \in User \X Account |-> {}]
    <3>1. \A u, a : RowsOf(u, a) = {}
      BY <2>1 DEF RowsOf
    <3> QED
      BY <3>1 DEF Connections
  <2>4. Contract!Init
    BY <2>2, <2>3 DEF Contract!Init, Given, Used, Connections
  <2>5. SpentInv
    BY DEF Init, SpentInv, PastExchange
  <2> QED
    BY <2>4, <2>5
<1>2. IInv /\ SpentInv /\ [Next]_vars => IInv' /\ SpentInv' /\ [Contract!Next]_Contract!vars
  BY Preserved, SpentStep, ContractStep
<1> QED
  BY <1>1, <1>2, InitIInv, PTL DEF Spec, ConnectionSpec, Contract!Spec
=============================================================================
