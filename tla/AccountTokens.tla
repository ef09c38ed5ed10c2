---------------------------- MODULE AccountTokens ----------------------------
(***************************************************************************)
(* The tokens of one connected account: concurrent calls of                *)
(* TwitterTokenService.get_valid_access_token, callbacks that reconnect    *)
(* the account (the end of TwitterOAuthService.handle_callback), the       *)
(* user's disconnect, and the twitter_accounts row all of them write.      *)
(*                                                                         *)
(* An action is the code from one await to the next.  Clocks matter here:  *)
(* an await lasts at most PATIENCE ticks, and a token is judged by the     *)
(* expires_at the code computed, not by the expiry Twitter gave it.        *)
(***************************************************************************)
EXTENDS Naturals, Sequences, Supabase

CONSTANTS
    Task,       \* the calls of get_valid_access_token
    Callback,   \* the callbacks that reconnect the account
    LIFETIME,   \* expires_in of every access token
    MARGIN,     \* _EXPIRY_SAFETY_MARGIN
    PATIENCE,   \* the longest an await lasts: HTTP_TIMEOUT_SECONDS
    MaxTime     \* bound: where the clock stops

ASSUME ClockAssumption ==
    /\ LIFETIME \in Nat /\ MARGIN \in Nat /\ PATIENCE \in Nat /\ MaxTime \in Nat
    /\ MARGIN >= 4 * PATIENCE
    /\ LIFETIME > 4 * PATIENCE

ASSUME NamesAssumption == Task \cap Callback = {}

VARIABLES
    now,        \* the clock
    row,        \* the account's row
    expiry,     \* at Twitter: when each access token expires; a token's id
                \* is its place, and names the refresh token issued with it
    usable,     \* at Twitter: the refresh tokens it still accepts
    revoked,    \* at Twitter: the user took the app's access back
    pc,         \* call -> the await it is at, or how it ended
    waited,     \* call -> ticks it has spent at that await
    held,       \* call -> the refresh token it read, until it has stored another
    tokens      \* call -> the tokens it was given

vars == <<now, row, expiry, usable, revoked, pc, waited, held, tokens>>

Actor == Task \cup Callback

NoToken == 0
Nothing == [access |-> NoToken, refresh |-> NoToken, expires_at |-> 0]

Await == {"read", "exchange", "answer", "persist", "calling",
          "authorize", "profile", "lookup", "reactivate"}
Ended == {"done", "connected", "not_found", "refresh_error", "auth_error",
          "gave_up", "raised"}

-----------------------------------------------------------------------------
(* The account as an earlier callback with offline.access left it.         *)
Init ==
    /\ now = 0
    /\ row = [access |-> 1, refresh |-> 1, expires_at |-> LIFETIME, is_active |-> TRUE]
    /\ expiry = <<LIFETIME>>
    /\ usable = {1}
    /\ revoked = FALSE
    /\ pc = [c \in Actor |-> IF c \in Task THEN "read" ELSE "authorize"]
    /\ waited = [c \in Actor |-> 0]
    /\ held = [c \in Actor |-> NoToken]
    /\ tokens = [c \in Actor |-> Nothing]

(* The end of an await, or of the call.                                    *)
Goto(c, next) ==
    /\ pc' = [pc EXCEPT ![c] = next]
    /\ waited' = [waited EXCEPT ![c] = 0]

(* Faulty: a token counts as valid up to its last tick.                    *)
ExpiresSoonWithoutMargin == now >= row.expires_at

ExpiresSoon == now + MARGIN >= row.expires_at

(* get_by_id and what get_valid_access_token decides on the row it read.   *)
ReadAccount(c) ==
    /\ pc[c] = "read"
    /\ \/ /\ Goto(c, IF ~ row.is_active THEN "not_found"
                     ELSE IF ~ ExpiresSoon THEN "calling"
                     ELSE IF row.refresh = NoToken THEN "refresh_error"
                     ELSE "exchange")
          /\ held' = [held EXCEPT ![c] =
                        IF row.is_active /\ ExpiresSoon THEN row.refresh ELSE @]
          /\ tokens' = [tokens EXCEPT ![c].access =
                          IF row.is_active /\ ~ ExpiresSoon THEN row.access ELSE @]
       \/ /\ "database" \in Faults
          /\ Goto(c, "raised")
          /\ UNCHANGED <<held, tokens>>
    /\ UNCHANGED <<now, row, expiry, usable, revoked>>

(* Twitter grants new tokens.  A refresh may or may not rotate the refresh *)
(* token, and a rotated one is spent.                                      *)
Grant(c, refresh, spent) ==
    LET id == Len(expiry) + 1 IN
    /\ expiry' = Append(expiry, now + LIFETIME)
    /\ usable' = IF refresh THEN (usable \ spent) \cup {id} ELSE usable
    /\ tokens' = [tokens EXCEPT ![c].access = id,
                                ![c].refresh = IF refresh THEN id ELSE NoToken]

(* POST /oauth2/token with the refresh token reaches Twitter.              *)
ExchangeRefresh(c) ==
    /\ pc[c] = "exchange"
    /\ held[c] \in usable
    /\ \E rotates \in BOOLEAN : Grant(c, rotates, {held[c]})
    /\ pc' = [pc EXCEPT ![c] = "answer"]
    /\ UNCHANGED <<now, row, revoked, waited, held>>

(* It is answered by something else than 200: the refresh token is spent   *)
(* or revoked, or Twitter is limiting or down.                             *)
RefuseRefresh(c) ==
    /\ pc[c] = "exchange"
    /\ held[c] \notin usable \/ "twitter" \in Faults
    /\ Goto(c, "refresh_error")
    /\ UNCHANGED <<now, row, expiry, usable, revoked, held, tokens>>

(* The request times out or is cut while it may still reach Twitter.       *)
GiveUp(c) ==
    /\ pc[c] = "exchange"
    /\ "twitter" \in Faults
    /\ Goto(c, "gave_up")
    /\ UNCHANGED <<now, row, expiry, usable, revoked, held, tokens>>

LateRefresh(c) ==
    /\ pc[c] = "gave_up"
    /\ held[c] \in usable
    /\ \E rotates \in BOOLEAN : Grant(c, rotates, {held[c]})
    /\ Goto(c, "raised")
    /\ UNCHANGED <<now, row, revoked, held>>

(* The answer arrives, and expires_at is reckoned from now; or the answer  *)
(* is lost or has not the keys the code reads, or says that the exchange   *)
(* failed although it took effect.                                         *)
ReceiveRefresh(c) ==
    /\ pc[c] = "answer"
    /\ \/ /\ tokens' = [tokens EXCEPT ![c].expires_at = now + LIFETIME]
          /\ Goto(c, "persist")
       \/ /\ "twitter" \in Faults
          /\ \E failure \in {"raised", "refresh_error"} : Goto(c, failure)
          /\ UNCHANGED tokens
    /\ UNCHANGED <<now, row, expiry, usable, revoked, held>>

(* Faulty: every column of the connection is written.                      *)
UpdateTokensReactivating(old, new) ==
    [access |-> new.access, expires_at |-> new.expires_at, is_active |-> TRUE,
     refresh |-> IF new.refresh # NoToken THEN new.refresh ELSE old.refresh]

(* Faulty: the rotated refresh token is dropped.                           *)
UpdateTokensAccessOnly(old, new) ==
    [old EXCEPT !.access = new.access, !.expires_at = new.expires_at]

(* update_tokens: the refresh token is overwritten only by a new one, and  *)
(* is_active is left alone.                                                *)
UpdateTokens(old, new) ==
    [old EXCEPT !.access = new.access,
                !.expires_at = new.expires_at,
                !.refresh = IF new.refresh # NoToken THEN new.refresh ELSE @]

(* The row is updated by its id alone, whatever it holds by now; then the  *)
(* caller goes on to its first request with the new access token.          *)
PersistRefresh(c) ==
    /\ pc[c] = "persist"
    /\ \E db \in DbOutcome :
         /\ row' = IF Committed(db) THEN UpdateTokens(row, tokens[c]) ELSE row
         /\ Goto(c, IF db = "ok" THEN "calling" ELSE "raised")
         /\ held' = [held EXCEPT ![c] = IF db = "ok" THEN NoToken ELSE @]
    /\ UNCHANGED <<now, expiry, usable, revoked, tokens>>

(* The caller has inserted its rows, and its first request to Twitter with *)
(* the token ends, however it does.                                        *)
CallEnds(c) ==
    /\ pc[c] = "calling"
    /\ Goto(c, "done")
    /\ tokens' = [tokens EXCEPT ![c] = Nothing]
    /\ UNCHANGED <<now, row, expiry, usable, revoked, held>>

-----------------------------------------------------------------------------
(* _exchange_code_for_tokens reaches Twitter: the user may have granted    *)
(* offline.access or not.                                                  *)
ExchangeCode(k) ==
    /\ pc[k] = "authorize"
    /\ \/ /\ \E offline \in BOOLEAN : Grant(k, offline, {})
          /\ Goto(k, "profile")
       \/ /\ "twitter" \in Faults
          /\ Goto(k, "auth_error")
          /\ UNCHANGED <<expiry, usable, tokens>>
    /\ UNCHANGED <<now, row, revoked, held>>

(* The answers to the exchange and to _fetch_twitter_profile have come;    *)
(* expires_at is reckoned only now.                                        *)
FetchProfile(k) ==
    /\ pc[k] = "profile"
    /\ \/ /\ tokens' = [tokens EXCEPT ![k].expires_at = now + LIFETIME]
          /\ Goto(k, "lookup")
       \/ /\ "twitter" \in Faults
          /\ Goto(k, "auth_error")
          /\ UNCHANGED tokens
    /\ UNCHANGED <<now, row, expiry, usable, revoked, held>>

(* get_by_twitter_user_id: rows are never deleted, so it finds the row.    *)
LookUp(k) ==
    /\ pc[k] = "lookup"
    /\ Goto(k, "reactivate") \/ ("database" \in Faults /\ Goto(k, "raised"))
    /\ UNCHANGED <<now, row, expiry, usable, revoked, held, tokens>>

(* reactivate_with_new_tokens: every column, the refresh token even when   *)
(* there is none.                                                          *)
Reactivate(k) ==
    /\ pc[k] = "reactivate"
    /\ \E db \in DbOutcome :
         /\ row' = IF ~ Committed(db) THEN row
                   ELSE [access |-> tokens[k].access, refresh |-> tokens[k].refresh,
                         expires_at |-> tokens[k].expires_at, is_active |-> TRUE]
         /\ Goto(k, IF db = "ok" THEN "connected" ELSE "raised")
    /\ UNCHANGED <<now, expiry, usable, revoked, held, tokens>>

(* disconnect_account: the row is found, and deactivated.                  *)
Disconnect ==
    /\ row' = [row EXCEPT !.is_active = FALSE]
    /\ UNCHANGED <<now, expiry, usable, revoked, pc, waited, held, tokens>>

(* The user revokes the app's access at Twitter.                           *)
Revoke ==
    /\ "revoke" \in Faults
    /\ usable' = {}
    /\ revoked' = TRUE
    /\ UNCHANGED <<now, row, expiry, pc, waited, held, tokens>>

(* The process dies, or the task is cancelled, at any await: the call ends *)
(* as by an exception.  Under the caller's first request that is CallEnds. *)
Crash(c) ==
    /\ "crash" \in Faults
    /\ pc[c] \in Await \ {"calling"}
    /\ Goto(c, IF pc[c] = "exchange" THEN "gave_up" ELSE "raised")
    /\ UNCHANGED <<now, row, expiry, usable, revoked, held, tokens>>

(* Faulty: a client without timeouts.                                      *)
MayWaitForever(c) == TRUE

(* Two awaits in a row: after the grant a callback waits for the answers   *)
(* to the exchange and to the profile; a caller inserts rows before its    *)
(* first request, all of them within PATIENCE.                             *)
Double == {"profile", "calling"}

(* Whether the await a call is at can last another tick.                   *)
MayWait(c) == waited[c] < (IF pc[c] \in Double THEN 2 ELSE 1) * PATIENCE

Waiting == {c \in Actor : pc[c] \in Await \ {"read", "authorize"}}

(* A call that has not started waits for nothing.                          *)
Tick ==
    /\ now < MaxTime
    /\ \A c \in Waiting : MayWait(c)
    /\ now' = now + 1
    /\ waited' = [c \in Actor |-> waited[c] + (IF c \in Waiting THEN 1 ELSE 0)]
    /\ UNCHANGED <<row, expiry, usable, revoked, pc, held, tokens>>

Step(c) ==
    \/ ReadAccount(c)
    \/ ExchangeRefresh(c)
    \/ RefuseRefresh(c)
    \/ GiveUp(c)
    \/ LateRefresh(c)
    \/ ReceiveRefresh(c)
    \/ PersistRefresh(c)
    \/ CallEnds(c)

ConnectStep(k) ==
    \/ ExchangeCode(k)
    \/ FetchProfile(k)
    \/ LookUp(k)
    \/ Reactivate(k)

Next ==
    \/ \E c \in Task : Step(c) \/ Crash(c)
    \/ \E k \in Callback : ConnectStep(k) \/ Crash(k)
    \/ Disconnect
    \/ Revoke
    \/ Tick

Spec == Init /\ [][Next]_vars

-----------------------------------------------------------------------------
Issued == 1..Len(expiry)

TypeOK ==
    /\ now \in 0..MaxTime
    /\ row \in [access : Issued, refresh : Issued \cup {NoToken},
                expires_at : Nat, is_active : BOOLEAN]
    /\ expiry \in Seq(Nat)
    /\ usable \subseteq Issued
    /\ revoked \in BOOLEAN
    /\ pc \in [Actor -> Await \cup Ended]
    /\ waited \in [Actor -> 0..(2 * PATIENCE)]
    /\ held \in [Actor -> Issued \cup {NoToken}]
    /\ tokens \in [Actor -> [access : Issued \cup {NoToken},
                             refresh : Issued \cup {NoToken}, expires_at : Nat]]

(* The token a caller is given does not expire during the request it makes *)
(* with it (_EXPIRY_SAFETY_MARGIN, twitter_token_service.py:28-31),        *)
(* although expires_at is reckoned later than Twitter reckons it and the   *)
(* row is written by whoever comes last.                                   *)
NotExpiredMidFlight ==
    \A c \in Task : pc[c] = "calling" => now < expiry[tokens[c].access]

(* A disconnected account stays so until the user connects it again: a     *)
(* refresh that was under way when it was disconnected does not reopen it. *)
DisconnectSticks ==
    [][~ row.is_active /\ row'.is_active =>
          \E k \in Callback : pc[k] = "reactivate" /\ row'.access = tokens[k].access]_vars

(* The row's refresh token works, unless the very call that spent it has   *)
(* the one that replaced it and has not stored it or never will, or the    *)
(* user granted none or took all back.  So late and concurrent writes      *)
(* never put a spent token over a working one, although nothing locks the  *)
(* row; and a token lost by one call excuses no later loss.                *)
ConnectionNotLost ==
    \/ revoked
    \/ row.refresh \in usable
    \/ \E c \in Task :
          /\ held[c] = row.refresh
          /\ tokens[c].refresh \in usable
          /\ pc[c] \in {"answer", "persist", "raised", "refresh_error"}
    \/ \E k \in Callback :
          /\ row.refresh = NoToken /\ tokens[k].refresh = NoToken
          /\ pc[k] \in {"connected", "raised"}

(* README.md:286-287: "No manual re-login is ever required as long as      *)
(* offline.access was granted at connect time and the user hasn't revoked  *)
(* access".  TokenRefreshError asks the user to reconnect.                 *)
NoManualRelogin ==
    \A c \in Task : pc[c] = "refresh_error" => held[c] = NoToken \/ revoked
=============================================================================
