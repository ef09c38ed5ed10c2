-------------------------- MODULE AccountTokensProofs --------------------------
(***************************************************************************)
(* Proofs that any number of calls and callbacks that read and write one   *)
(* account without a lock, under any faults, never hand out a token that   *)
(* expires under the request made with it, never lose the connection by    *)
(* writing late, and leave a disconnected account disconnected.            *)
(***************************************************************************)
EXTENDS AccountTokens, TLAPS

(* A call between the answer of Twitter and the last use of its tokens.    *)
Granted == {"answer", "persist", "calling", "profile", "lookup", "reactivate"}

(* How far the tokens of a call have aged, by the await it is at: what the *)
(* code reckons is late by the time it has waited for the answer.          *)
ClockOK(c) ==
    LET expires == expiry[tokens[c].access] IN
    /\ waited[c] <= PATIENCE \/ (pc[c] \in Double /\ waited[c] <= 2 * PATIENCE)
    /\ pc[c] \in Granted => tokens[c].access \in Issued
    /\ pc[c] \in {"answer", "profile"} => now + LIFETIME <= expires + waited[c]
    /\ pc[c] = "persist" =>
          /\ tokens[c].expires_at <= expires + PATIENCE
          /\ now + 3 * PATIENCE < expires + waited[c]
    /\ pc[c] = "calling" => now + 2 * PATIENCE < expires + waited[c]
    /\ pc[c] \in {"lookup", "reactivate"} =>
          tokens[c].expires_at <= expires + 2 * PATIENCE

RowClock == row.expires_at <= expiry[row.access] + 2 * PATIENCE

(* A refresh token that was granted and is still to be stored.             *)
Pending(c) ==
    /\ tokens[c].refresh # NoToken
    /\ pc[c] \in {"answer", "persist", "profile", "lookup", "reactivate"}

(* Nobody but its call has seen such a token, so nobody can spend it.      *)
TokenOK(c) ==
    /\ pc[c] = "authorize" => tokens[c].access = NoToken
    /\ Pending(c) =>
          /\ tokens[c].refresh \in usable \/ revoked
          /\ row.refresh # tokens[c].refresh
          /\ \A x \in Actor : held[x] # tokens[c].refresh
          /\ \A x \in Actor \ {c} : tokens[x].refresh # tokens[c].refresh

(* The call that spent the row's token, and the new one only it has seen.  *)
Spender(c) ==
    /\ held[c] = row.refresh
    /\ tokens[c].refresh \in usable
    /\ pc[c] \in {"answer", "persist", "raised", "refresh_error"}
    /\ \A x \in Actor : held[x] # tokens[c].refresh
    /\ \A x \in Actor \ {c} : tokens[x].refresh # tokens[c].refresh

(* The user connected the account without offline.access.                  *)
NoneGranted(k) ==
    /\ row.refresh = NoToken /\ tokens[k].refresh = NoToken
    /\ pc[k] \in {"connected", "raised"}

(* ConnectionNotLost, with what keeps it so.                               *)
Connected ==
    \/ revoked
    \/ row.refresh \in usable
    \/ \E c \in Task : Spender(c)
    \/ \E k \in Callback : NoneGranted(k)

IInv ==
    /\ TypeOK
    /\ \A c \in Actor : ClockOK(c)
    /\ RowClock
    /\ \A c \in Actor : TokenOK(c)
    /\ Connected

Tokens == [access : Issued \cup {NoToken}, refresh : Issued \cup {NoToken}, expires_at : Nat]
RowType == [access : Issued, refresh : Issued \cup {NoToken}, expires_at : Nat,
            is_active : BOOLEAN]

-----------------------------------------------------------------------------
LEMMA Appended ==
    ASSUME NEW S, NEW s \in Seq(S), NEW e \in S
    PROVE  LET t == Append(s, e) IN
           /\ t \in Seq(S) /\ Len(s) \in Nat /\ Len(t) = Len(s) + 1 /\ t[Len(s) + 1] = e
           /\ \A j \in 1..Len(s) : t[j] = s[j]
OBVIOUS

LEMMA Element == ASSUME NEW S, NEW s \in Seq(S), NEW i \in 1..Len(s) PROVE s[i] \in S
OBVIOUS

LEMMA One == ASSUME NEW n \in Nat PROVE Len(<<n>>) = 1 /\ <<n>>[1] = n /\ <<n>> \in Seq(Nat)
OBVIOUS

LEMMA InitIInv == Init => IInv
<1> SUFFICES ASSUME Init PROVE IInv
  OBVIOUS
<1>1. /\ Len(expiry) = 1 /\ expiry[1] = LIFETIME /\ expiry \in Seq(Nat)
      /\ row = [access |-> 1, refresh |-> 1, expires_at |-> LIFETIME, is_active |-> TRUE]
      /\ usable = {1} /\ revoked = FALSE /\ now = 0
      /\ LIFETIME \in Nat /\ PATIENCE \in Nat /\ MaxTime \in Nat
  BY One, ClockAssumption DEF Init
<1>2. \A c \in Actor :
         /\ pc[c] \in {"read", "authorize"} /\ waited[c] = 0 /\ held[c] = NoToken
         /\ tokens[c] = Nothing
  BY DEF Init
<1>3. TypeOK
  <2>1. Issued = {1}
    BY <1>1 DEF Issued
  <2>2. /\ now \in 0..MaxTime /\ expiry \in Seq(Nat) /\ usable \subseteq Issued
        /\ revoked \in BOOLEAN
    <3>1. usable \subseteq Issued
      BY <2>1 DEF Init
    <3>2. revoked \in BOOLEAN
      BY DEF Init
    <3>3. 0 \in 0..MaxTime
      BY ClockAssumption
    <3> QED
      BY <1>1, <3>1, <3>2, <3>3
  <2>3. row \in [access : Issued, refresh : Issued \cup {NoToken}, expires_at : Nat,
                is_active : BOOLEAN]
    <3>1. LIFETIME \in Nat
      BY ClockAssumption
    <3>2. 1 \in Issued /\ 1 \in Issued \cup {NoToken}
      BY <2>1
    <3> QED
      BY <1>1, <3>1, <3>2
  <2>4. pc \in [Actor -> Await \cup Ended]
    BY DEF Init, Await, Ended
  <2>5. /\ waited \in [Actor -> 0..(2 * PATIENCE)]
        /\ held \in [Actor -> Issued \cup {NoToken}]
    BY <1>1 DEF Init
  <2>6. tokens \in [Actor -> [access : Issued \cup {NoToken},
                             refresh : Issued \cup {NoToken}, expires_at : Nat]]
    BY DEF Init, Nothing
  <2> QED
    BY <2>2, <2>3, <2>4, <2>5, <2>6 DEF TypeOK
<1>4. \A c \in Actor : ClockOK(c)
  BY <1>1, <1>2 DEF ClockOK, Granted
<1>5. RowClock
  BY <1>1 DEF RowClock
<1>6. \A c \in Actor : TokenOK(c)
  BY <1>2 DEF TokenOK, Pending, Nothing
<1>7. Connected
  BY <1>1 DEF Connected
<1> QED
  BY <1>3, <1>4, <1>5, <1>6, <1>7 DEF IInv

LEMMA Goes ==
    ASSUME TypeOK, NEW c \in Actor, NEW next \in Await \cup Ended, Goto(c, next)
    PROVE  /\ pc' \in [Actor -> Await \cup Ended] /\ waited' \in [Actor -> 0..(2 * PATIENCE)]
           /\ pc'[c] = next /\ waited'[c] = 0
           /\ \A x \in Actor \ {c} : pc'[x] = pc[x] /\ waited'[x] = waited[x]
<1>1. pc \in [Actor -> Await \cup Ended] /\ waited \in [Actor -> 0..(2 * PATIENCE)]
  BY DEF TypeOK
<1>2. 0 \in 0..(2 * PATIENCE)
  BY ClockAssumption
<1>3. pc' = [pc EXCEPT ![c] = next] /\ waited' = [waited EXCEPT ![c] = 0]
  BY DEF Goto
<1> QED
  BY <1>1, <1>2, <1>3

(* Tokens are only added at Twitter, and keep their expiry.                *)
Grown ==
    /\ Len(expiry) \in Nat /\ Len(expiry') \in Nat /\ Len(expiry) <= Len(expiry')
    /\ \A i \in Issued : expiry'[i] = expiry[i]

LEMMA Same == ASSUME TypeOK, UNCHANGED expiry PROVE Grown /\ Issued' = Issued
BY DEF TypeOK, Grown, Issued

(* A step of c leaves the others as they are, and may spend only the token *)
(* it held, store only its own, and look only at the row.                  *)
LEMMA Frame ==
    ASSUME IInv, NEW c \in Actor, TypeOK', UNCHANGED <<now, revoked>>, Grown,
           \A x \in Actor \ {c} :
              /\ pc'[x] = pc[x] /\ waited'[x] = waited[x]
              /\ held'[x] = held[x] /\ tokens'[x] = tokens[x],
           \A r \in usable : r \in usable' \/ r = held[c],
           row'.refresh \in {row.refresh, tokens[c].refresh, NoToken},
           held'[c] \in {held[c], row.refresh, NoToken},
           tokens'[c].refresh \in {tokens[c].refresh, NoToken} \/ tokens'[c].refresh \notin Issued,
           ClockOK(c)', RowClock', TokenOK(c)', Connected'
    PROVE  IInv'
<1>1. TypeOK /\ \A x \in Actor : tokens[x] \in Tokens
  BY DEF IInv, TypeOK, Tokens
<1>2. ASSUME NEW x \in Actor \ {c} PROVE ClockOK(x)'
  <2>1. ClockOK(x)
    BY DEF IInv
  <2>2. /\ pc'[x] = pc[x] /\ waited'[x] = waited[x] /\ tokens'[x] = tokens[x] /\ now' = now
    OBVIOUS
  <2>3. tokens[x].access \in Issued =>
           tokens[x].access \in Issued' /\ expiry'[tokens[x].access] = expiry[tokens[x].access]
    BY DEF Grown, Issued
  <2> QED
    BY <2>1, <2>2, <2>3 DEF ClockOK, Granted
<1>3. ASSUME NEW x \in Actor \ {c} PROVE TokenOK(x)'
  <2>1. TokenOK(x)
    BY DEF IInv
  <2>2. /\ pc'[x] = pc[x] /\ tokens'[x] = tokens[x] /\ revoked' = revoked
        /\ Pending(x)' <=> Pending(x)
    BY DEF Pending
  <2>3. ASSUME Pending(x)
        PROVE  /\ tokens[x].refresh \in usable' \/ revoked
               /\ row'.refresh # tokens[x].refresh
               /\ \A y \in Actor : held'[y] # tokens[x].refresh
               /\ \A y \in Actor \ {x} : tokens'[y].refresh # tokens[x].refresh
    <3>1. /\ tokens[x].refresh \in usable \/ revoked
          /\ row.refresh # tokens[x].refresh
          /\ \A y \in Actor : held[y] # tokens[x].refresh
          /\ \A y \in Actor \ {x} : tokens[y].refresh # tokens[x].refresh
          /\ tokens[x].refresh \in Issued /\ tokens[x].refresh # NoToken
      BY <1>1, <2>1, <2>3 DEF TokenOK, Pending, Tokens
    <3>2. \A y \in Actor : held'[y] # tokens[x].refresh
      BY <3>1
    <3>3. \A y \in Actor \ {x} : tokens'[y].refresh # tokens[x].refresh
      BY <3>1
    <3> QED
      BY <3>1, <3>2, <3>3
  <2> QED
    BY <2>1, <2>2, <2>3 DEF TokenOK
<1> QED
  BY <1>2, <1>3 DEF IInv

(* What a grant of Twitter changes.                                        *)
LEMMA Granting ==
    ASSUME TypeOK, NEW c \in Actor, NEW refresh \in BOOLEAN, NEW spent, Grant(c, refresh, spent),
           now \in Nat
    PROVE  LET id == Len(expiry) + 1 IN
           /\ Grown /\ expiry' \in Seq(Nat) /\ usable' \subseteq Issued'
           /\ id \in Nat \ {0} /\ id \notin Issued /\ Issued' = Issued \cup {id}
           /\ expiry'[id] = now + LIFETIME
           /\ tokens' \in [Actor -> [access : Issued' \cup {NoToken},
                                     refresh : Issued' \cup {NoToken}, expires_at : Nat]]
           /\ tokens'[c].access = id
           /\ tokens'[c].refresh = (IF refresh THEN id ELSE NoToken)
           /\ \A x \in Actor \ {c} : tokens'[x] = tokens[x]
           /\ IF refresh THEN usable' = (usable \ spent) \cup {id} ELSE usable' = usable
<1> DEFINE id == Len(expiry) + 1
<1>1. now + LIFETIME \in Nat
  BY ClockAssumption
<1>2. /\ expiry' \in Seq(Nat) /\ Len(expiry) \in Nat /\ Len(expiry') = id
      /\ expiry'[id] = now + LIFETIME /\ \A j \in Issued : expiry'[j] = expiry[j]
  BY <1>1, Appended DEF TypeOK, Grant, Issued
<1>3. id \in Nat \ {0} /\ id \notin Issued /\ Issued' = Issued \cup {id} /\ Grown
  BY <1>2 DEF Issued, Grown
<1>4. /\ tokens \in [Actor -> [access : Issued \cup {NoToken},
                               refresh : Issued \cup {NoToken}, expires_at : Nat]]
      /\ usable \subseteq Issued
  BY DEF TypeOK
<1>5. /\ tokens' = [tokens EXCEPT ![c].access = id,
                                  ![c].refresh = IF refresh THEN id ELSE NoToken]
      /\ usable' = IF refresh THEN (usable \ spent) \cup {id} ELSE usable
  BY DEF Grant
<1> HIDE DEF id
<1>6. usable' \subseteq Issued'
  BY <1>3, <1>4, <1>5
<1>7. /\ tokens' \in [Actor -> [access : Issued' \cup {NoToken},
                                refresh : Issued' \cup {NoToken}, expires_at : Nat]]
      /\ tokens'[c].access = id
      /\ tokens'[c].refresh = (IF refresh THEN id ELSE NoToken)
      /\ \A x \in Actor \ {c} : tokens'[x] = tokens[x]
  BY <1>3, <1>4, <1>5
<1> QED
  BY <1>2, <1>3, <1>5, <1>6, <1>7 DEF id

(* What every step may use.                                                *)
LEMMA Facts ==
    ASSUME IInv
    PROVE  /\ TypeOK /\ now \in Nat /\ row \in RowType /\ RowClock
           /\ LIFETIME \in Nat /\ MARGIN \in Nat /\ PATIENCE \in Nat
           /\ MARGIN >= 4 * PATIENCE /\ LIFETIME > 4 * PATIENCE
           /\ \A i \in Issued : i \in Nat \ {0} /\ expiry[i] \in Nat
           /\ \A x \in Actor : /\ tokens[x] \in Tokens /\ waited[x] \in Nat
                               /\ held[x] \in Issued \cup {NoToken} /\ pc[x] \in Await \cup Ended
                               /\ ClockOK(x) /\ TokenOK(x)
<1>1. TypeOK /\ RowClock /\ \A x \in Actor : ClockOK(x) /\ TokenOK(x)
  BY DEF IInv
<1>2. now \in Nat /\ row \in RowType /\ \A x \in Actor : tokens[x] \in Tokens
  BY <1>1, ClockAssumption DEF TypeOK, RowType, Tokens
<1>3. \A x \in Actor : /\ waited[x] \in Nat /\ held[x] \in Issued \cup {NoToken}
                      /\ pc[x] \in Await \cup Ended
  BY <1>1, ClockAssumption DEF TypeOK
<1>4. \A i \in Issued : i \in Nat \ {0} /\ expiry[i] \in Nat
  BY <1>1, Element DEF TypeOK, Issued
<1> QED
  BY <1>1, <1>2, <1>3, <1>4, ClockAssumption

(* The connection survives a step that spends no token of the row, or      *)
(* whose call is left with a working one.                                  *)
LEMMA StillConnected ==
    ASSUME IInv, NEW c \in Actor, UNCHANGED <<row, revoked>>,
           \A x \in Actor \ {c} :
              pc'[x] = pc[x] /\ tokens'[x] = tokens[x] /\ held'[x] = held[x],
           \A r \in usable : r \in usable',
           held'[c] \in {held[c], row.refresh},
           tokens'[c].refresh = tokens[c].refresh,
           pc[c] \in {"answer", "persist", "raised", "refresh_error"} =>
              /\ pc'[c] \in {"answer", "persist", "raised", "refresh_error"}
              /\ held'[c] = held[c],
           pc[c] \notin {"connected", "raised"}
    PROVE  Connected'
<1>1. Connected
  BY DEF IInv
<1>2. CASE revoked \/ row.refresh \in usable
  BY <1>2 DEF Connected
<1>3. CASE \E x \in Task : Spender(x)
  <2>1. PICK x \in Task : Spender(x)
    BY <1>3
  <2>2. /\ x \in Actor /\ tokens'[x].refresh = tokens[x].refresh /\ held'[x] = row'.refresh
        /\ pc'[x] \in {"answer", "persist", "raised", "refresh_error"}
    BY <2>1 DEF Actor, Spender
  <2>3. \A y \in Actor : held'[y] # tokens[x].refresh
    <3>1. row.refresh # tokens[x].refresh
      BY <2>1, <2>2 DEF Spender
    <3> QED
      BY <2>1, <3>1 DEF Spender
  <2>4. \A y \in Actor : tokens'[y].refresh = tokens[y].refresh
    OBVIOUS
  <2>5. Spender(x)'
    BY <2>1, <2>2, <2>3, <2>4 DEF Spender
  <2> QED
    BY <2>5 DEF Connected
<1>4. CASE \E k \in Callback : NoneGranted(k)
  <2>1. PICK k \in Callback : NoneGranted(k)
    BY <1>4
  <2>2. k \in Actor \ {c}
    BY <2>1 DEF Actor, NoneGranted
  <2>3. NoneGranted(k)'
    BY <2>1, <2>2 DEF NoneGranted
  <2> QED
    BY <2>3 DEF Connected
<1> QED
  BY <1>1, <1>2, <1>3, <1>4 DEF Connected

LEMMA Step_ReadAccount ==
    ASSUME IInv, NEW c \in Task, ReadAccount(c)
    PROVE  IInv'
<1> USE DEF NoToken
<1>1. /\ c \in Actor /\ pc[c] = "read" /\ UNCHANGED <<now, row, expiry, usable, revoked>>
      /\ Grown /\ Issued' = Issued
  BY Facts, Same DEF ReadAccount, Actor
<1>2. PICK next \in Await \cup Ended :
         /\ Goto(c, next)
         /\ next \in {"not_found", "calling", "refresh_error", "exchange", "raised"}
         /\ next = "calling" =>
               /\ tokens' = [tokens EXCEPT ![c].access = row.access]
               /\ ~ ExpiresSoon
  BY DEF ReadAccount, Await, Ended
<1>3. /\ pc' \in [Actor -> Await \cup Ended] /\ waited' \in [Actor -> 0..(2 * PATIENCE)]
      /\ pc'[c] = next /\ waited'[c] = 0
      /\ \A x \in Actor \ {c} : pc'[x] = pc[x] /\ waited'[x] = waited[x]
  BY Facts, Goes, <1>1, <1>2
<1>4. /\ held \in [Actor -> Issued \cup {NoToken}] /\ row \in RowType
      /\ tokens \in [Actor -> Tokens]
  BY Facts DEF TypeOK, RowType, Tokens
<1>5. /\ held' \in [Actor -> Issued \cup {NoToken}] /\ held'[c] \in {held[c], row.refresh}
      /\ \A x \in Actor \ {c} : held'[x] = held[x]
  <2>1. PICK h \in {held[c], row.refresh} : held' = [held EXCEPT ![c] = h]
    BY <1>1, <1>4 DEF ReadAccount
  <2>2. row.refresh \in Issued \cup {NoToken}
    BY <1>4 DEF RowType
  <2> QED
    BY <1>1, <1>4, <2>1, <2>2
<1>6. /\ tokens' \in [Actor -> Tokens] /\ \A x \in Actor \ {c} : tokens'[x] = tokens[x]
      /\ tokens'[c].refresh = tokens[c].refresh
  <2>1. PICK a \in {tokens[c].access, row.access} : tokens' = [tokens EXCEPT ![c].access = a]
    BY <1>1, <1>4 DEF ReadAccount, Tokens
  <2>2. a \in Issued \cup {NoToken}
    BY <1>1, <1>4, <2>1 DEF RowType, Tokens
  <2> QED
    BY <1>1, <1>4, <2>1, <2>2 DEF Tokens
<1>7. TypeOK'
  BY Facts, <1>1, <1>3, <1>5, <1>6 DEF TypeOK, Tokens
<1>8. ClockOK(c)'
  <2>1. CASE next = "calling"
    <3>1. tokens'[c].access = row.access /\ row.access \in Issued /\ row.expires_at \in Nat
      BY <1>1, <1>2, <1>4, <2>1 DEF RowType, Tokens
    <3>2. now + 2 * PATIENCE < expiry[row.access]
      BY Facts, <1>2, <2>1, <3>1 DEF ExpiresSoon, RowClock
    <3> QED
      BY Facts, <1>1, <1>3, <2>1, <3>1, <3>2 DEF ClockOK, Granted
  <2>2. CASE next # "calling"
    BY Facts, <1>2, <1>3, <2>2 DEF ClockOK, Granted
  <2> QED
    BY <2>1, <2>2
<1>9. TokenOK(c)' /\ RowClock'
  BY Facts, <1>1, <1>2, <1>3 DEF TokenOK, Pending, RowClock
<1>10. Connected'
  BY StillConnected, <1>1, <1>3, <1>5, <1>6
<1> QED
  BY Frame, <1>1, <1>3, <1>5, <1>6, <1>7, <1>8, <1>9, <1>10

(* A step that ends a call, or only looks the row up.                      *)
LEMMA Moves ==
    ASSUME IInv, NEW c \in Actor, NEW next \in Await \cup Ended, Goto(c, next),
           UNCHANGED <<now, row, expiry, usable, revoked, held, tokens>>,
           \/ next \in {"refresh_error", "gave_up", "auth_error", "raised"}
           \/ pc[c] = "lookup" /\ next = "reactivate",
           pc[c] \in {"answer", "persist"} => next \in {"raised", "refresh_error"},
           pc[c] \notin {"raised", "connected", "refresh_error"}
    PROVE  IInv'
<1>1. /\ pc' \in [Actor -> Await \cup Ended] /\ waited' \in [Actor -> 0..(2 * PATIENCE)]
      /\ pc'[c] = next /\ waited'[c] = 0 /\ Grown /\ Issued' = Issued
      /\ \A x \in Actor \ {c} : pc'[x] = pc[x] /\ waited'[x] = waited[x]
  BY Facts, Goes, Same
<1>2. TypeOK'
  BY Facts, <1>1 DEF TypeOK
<1>3. ClockOK(c)'
  BY Facts, <1>1 DEF ClockOK, Granted
<1>4. TokenOK(c)' /\ RowClock'
  BY Facts, <1>1 DEF TokenOK, Pending, RowClock
<1>5. Connected'
  <2>1. \A x \in Actor \ {c} :
           pc'[x] = pc[x] /\ tokens'[x] = tokens[x] /\ held'[x] = held[x]
    BY <1>1
  <2>2. \A r \in usable : r \in usable'
    OBVIOUS
  <2> QED
    BY <1>1, <2>1, <2>2, StillConnected
<1> QED
  BY Frame, <1>1, <1>2, <1>3, <1>4, <1>5

LEMMA Step_Moves ==
    ASSUME IInv, NEW c \in Actor,
           RefuseRefresh(c) \/ GiveUp(c) \/ LookUp(c) \/ Crash(c)
    PROVE  IInv'
<1>1. CASE RefuseRefresh(c)
  BY <1>1, Moves DEF RefuseRefresh, Await, Ended
<1>2. CASE GiveUp(c)
  BY <1>2, Moves DEF GiveUp, Await, Ended
<1>3. CASE LookUp(c)
  BY <1>3, Moves DEF LookUp, Await, Ended
<1>4. CASE Crash(c)
  <2>1. PICK next \in {"gave_up", "raised"} :
           /\ Goto(c, next)
           /\ pc[c] \in {"answer", "persist"} => next = "raised"
           /\ pc[c] \notin {"raised", "connected", "refresh_error"}
    BY <1>4 DEF Crash, Await
  <2>2. UNCHANGED <<now, row, expiry, usable, revoked, held, tokens>>
    BY <1>4 DEF Crash
  <2> QED
    BY <2>1, <2>2, Moves DEF Await, Ended
<1> QED
  BY <1>1, <1>2, <1>3, <1>4

(* A grant to a call that holds the spent token, or to a callback.         *)
LEMMA GrantKeeps ==
    ASSUME IInv, TypeOK', NEW c \in Actor, NEW refresh \in BOOLEAN,
           NEW spent, Grant(c, refresh, spent), spent \subseteq {held[c]},
           spent = {} \/ c \in Task,
           spent = {held[c]} \/ c \notin Task,
           UNCHANGED <<now, row, revoked>>,
           held' = held,
           \A x \in Actor \ {c} : pc'[x] = pc[x] /\ waited'[x] = waited[x],
           waited'[c] \in Nat, waited'[c] <= PATIENCE,
           pc[c] \in {"exchange", "gave_up", "authorize"},
           c \in Callback => pc[c] = "authorize",
           c \in Task => pc'[c] \in {"answer", "raised"},
           pc'[c] \in {"answer", "profile", "raised"}
    PROVE  IInv'
<1> USE DEF NoToken
<1> DEFINE id == Len(expiry) + 1
<1>1. /\ Grown /\ id \in Nat \ {0} /\ id \notin Issued /\ Issued' = Issued \cup {id}
      /\ expiry'[id] = now + LIFETIME
      /\ tokens'[c].access = id
      /\ tokens'[c].refresh = (IF refresh THEN id ELSE NoToken)
      /\ \A x \in Actor \ {c} : tokens'[x] = tokens[x]
      /\ IF refresh THEN usable' = (usable \ spent) \cup {id} ELSE usable' = usable
  BY Facts, Granting
<1> HIDE DEF id
<1>2. ClockOK(c)'
  BY Facts, <1>1 DEF ClockOK, Granted
<1>3. RowClock'
  BY Facts, <1>1 DEF RowClock, RowType, Grown
<1>4. TokenOK(c)'
  <2>1. pc'[c] # "authorize"
    OBVIOUS
  <2>2. ASSUME Pending(c)'
        PROVE  /\ refresh /\ tokens'[c].refresh = id /\ id \in usable'
               /\ row'.refresh # id
               /\ \A x \in Actor : held'[x] # id
               /\ \A x \in Actor \ {c} : tokens'[x].refresh # id
    <3>1. refresh /\ tokens'[c].refresh = id /\ id \in usable'
      BY <1>1, <2>2 DEF Pending
    <3>2. row'.refresh # id
      BY Facts, <1>1 DEF RowType
    <3>3. \A x \in Actor : held'[x] # id
      BY Facts, <1>1
    <3>4. \A x \in Actor \ {c} : tokens'[x].refresh # id
      BY Facts, <1>1 DEF Tokens
    <3> QED
      BY <3>1, <3>2, <3>3, <3>4
  <2> QED
    BY <2>1, <2>2 DEF TokenOK
<1>5. Connected'
  <2>1. ASSUME NEW x \in Task, x # c, Spender(x), tokens[x].refresh \in usable'
        PROVE  Connected'
    <3>1. x \in Actor /\ tokens'[x] = tokens[x] /\ tokens[x] \in Tokens
      BY Facts, <1>1, <2>1 DEF Actor
    <3>2. \A y \in Actor \ {x} : tokens'[y].refresh # tokens[x].refresh
      <4>1. tokens[x].refresh \in Issued
        BY Facts, <2>1 DEF Spender, TypeOK
      <4> QED
        BY Facts, <1>1, <2>1, <4>1 DEF Spender
    <3>3. Spender(x)'
      BY <2>1, <3>1, <3>2 DEF Spender
    <3> QED
      BY <3>3 DEF Connected
  <2>2. CASE revoked
    BY <2>2 DEF Connected
  <2>3. CASE row.refresh \in usable
    <3>1. CASE row.refresh \in usable'
      BY <3>1 DEF Connected
    <3>2. CASE row.refresh \notin usable'
      <4>1. refresh /\ c \in Task /\ held[c] = row.refresh
        BY <1>1, <2>3, <3>2
      <4>2. tokens'[c].refresh = id /\ id \in usable'
        BY <1>1, <4>1
      <4>3. \A x \in Actor : held'[x] # id
        BY Facts, <1>1
      <4>4. \A x \in Actor \ {c} : tokens'[x].refresh # id
        BY Facts, <1>1 DEF Tokens
      <4>5. Spender(c)'
        BY <4>1, <4>2, <4>3, <4>4 DEF Spender
      <4> QED
        BY <4>1, <4>5 DEF Connected
    <3> QED
      BY <3>1, <3>2
  <2>4. CASE \E x \in Task : Spender(x)
    <3>1. PICK x \in Task : Spender(x)
      BY <2>4
    <3>2. x # c
      BY <3>1 DEF Spender
    <3>3. tokens[x].refresh # held[c] /\ tokens[x].refresh \in usable
      BY <3>1 DEF Spender
    <3>4. tokens[x].refresh \in usable'
      BY <1>1, <3>3
    <3> QED
      BY <2>1, <3>1, <3>2, <3>4
  <2>5. CASE \E k \in Callback : NoneGranted(k)
    <3>1. PICK k \in Callback : NoneGranted(k)
      BY <2>5
    <3>2. k \in Actor \ {c}
      BY <3>1 DEF Actor, NoneGranted
    <3>3. NoneGranted(k)'
      BY <1>1, <3>1, <3>2 DEF NoneGranted
    <3> QED
      BY <3>3 DEF Connected
  <2> QED
    BY <2>2, <2>3, <2>4, <2>5 DEF IInv, Connected
<1>6. tokens'[c].refresh = NoToken \/ tokens'[c].refresh \notin Issued
  BY <1>1
<1>7. \A r \in usable : r \in usable' \/ r = held[c]
  BY <1>1
<1> QED
  BY Frame, <1>1, <1>2, <1>3, <1>4, <1>5, <1>6, <1>7

LEMMA Step_ExchangeRefresh ==
    ASSUME IInv, NEW c \in Task, ExchangeRefresh(c) \/ LateRefresh(c)
    PROVE  IInv'
<1>1. c \in Actor /\ UNCHANGED <<now, row, revoked, held>>
  BY DEF ExchangeRefresh, LateRefresh, Actor
<1>2. PICK rotates \in BOOLEAN : Grant(c, rotates, {held[c]})
  BY DEF ExchangeRefresh, LateRefresh
<1>3. /\ expiry' \in Seq(Nat) /\ usable' \subseteq Issued' /\ Issued \subseteq Issued'
      /\ tokens' \in [Actor -> [access : Issued' \cup {NoToken},
                                refresh : Issued' \cup {NoToken}, expires_at : Nat]]
  BY Facts, Granting, <1>1, <1>2
<1>4. /\ pc' \in [Actor -> Await \cup Ended] /\ waited' \in [Actor -> 0..(2 * PATIENCE)]
      /\ pc'[c] \in {"answer", "raised"} /\ waited'[c] <= PATIENCE
      /\ pc[c] \in {"exchange", "gave_up"}
      /\ \A x \in Actor \ {c} : pc'[x] = pc[x] /\ waited'[x] = waited[x]
  <2>1. CASE ExchangeRefresh(c)
    <3>1. /\ pc \in [Actor -> Await \cup Ended] /\ waited \in [Actor -> 0..(2 * PATIENCE)]
      BY Facts DEF TypeOK
    <3>2. waited[c] <= PATIENCE
      BY Facts, <1>1, <2>1 DEF ExchangeRefresh, ClockOK, Double
    <3> QED
      BY <1>1, <2>1, <3>1, <3>2 DEF ExchangeRefresh, Await
  <2>2. CASE LateRefresh(c)
    BY Facts, Goes, <1>1, <2>2 DEF LateRefresh, Ended
  <2> QED
    BY <2>1, <2>2
<1>5. held' \in [Actor -> Issued' \cup {NoToken}]
  <2>1. held \in [Actor -> Issued \cup {NoToken}]
    BY Facts DEF TypeOK
  <2> QED
    BY <1>1, <1>3, <2>1
<1>6. row' \in [access : Issued', refresh : Issued' \cup {NoToken}, expires_at : Nat,
              is_active : BOOLEAN]
  BY Facts, <1>1, <1>3 DEF RowType
<1>7. TypeOK'
  BY Facts, <1>1, <1>3, <1>4, <1>5, <1>6 DEF TypeOK
<1>8. waited'[c] \in Nat
  BY <1>1, <1>4, ClockAssumption
<1>9. c \notin Callback
  BY NamesAssumption
<1> QED
  BY GrantKeeps, <1>1, <1>2, <1>4, <1>7, <1>8, <1>9

LEMMA Step_ExchangeCode ==
    ASSUME IInv, NEW k \in Callback, ExchangeCode(k)
    PROVE  IInv'
<1>1. k \in Actor /\ k \notin Task /\ UNCHANGED <<now, row, revoked, held>> /\ pc[k] = "authorize"
  BY NamesAssumption DEF ExchangeCode, Actor
<1>2. CASE Goto(k, "auth_error") /\ UNCHANGED <<expiry, usable, tokens>>
  BY <1>1, <1>2, Moves DEF Ended
<1>3. ASSUME NEW offline \in BOOLEAN, Grant(k, offline, {}), Goto(k, "profile") PROVE IInv'
  <2>1. /\ expiry' \in Seq(Nat) /\ usable' \subseteq Issued' /\ Issued \subseteq Issued'
        /\ tokens' \in [Actor -> [access : Issued' \cup {NoToken},
                                  refresh : Issued' \cup {NoToken}, expires_at : Nat]]
    BY Facts, Granting, <1>1, <1>3
  <2>2. /\ pc' \in [Actor -> Await \cup Ended] /\ waited' \in [Actor -> 0..(2 * PATIENCE)]
        /\ pc'[k] = "profile" /\ waited'[k] = 0
        /\ \A x \in Actor \ {k} : pc'[x] = pc[x] /\ waited'[x] = waited[x]
    BY Facts, Goes, <1>1, <1>3 DEF Await
  <2>3. row' \in [access : Issued', refresh : Issued' \cup {NoToken}, expires_at : Nat,
                is_active : BOOLEAN]
    BY Facts, <1>1, <2>1 DEF RowType
  <2>4. held' \in [Actor -> Issued' \cup {NoToken}]
    BY Facts, <1>1, <2>1 DEF TypeOK
  <2>5. TypeOK'
    BY Facts, <1>1, <2>1, <2>2, <2>3, <2>4 DEF TypeOK
  <2>6. waited'[k] \in Nat /\ waited'[k] <= PATIENCE
    BY <2>2, ClockAssumption
  <2> QED
    BY GrantKeeps, <1>1, <1>3, <2>2, <2>5, <2>6
<1> QED
  BY <1>2, <1>3 DEF ExchangeCode

(* The expiry is reckoned when the answers have come.                      *)
LEMMA Step_Reckons ==
    ASSUME IInv, NEW c \in Actor, ReceiveRefresh(c) \/ FetchProfile(c)
    PROVE  IInv'
<1> USE DEF NoToken
<1>1. UNCHANGED <<now, row, expiry, usable, revoked, held>>
  BY DEF ReceiveRefresh, FetchProfile
<1>2. ASSUME UNCHANGED tokens, NEW next \in {"raised", "refresh_error", "auth_error"},
             Goto(c, next),
             \/ pc[c] = "answer" /\ next \in {"raised", "refresh_error"}
             \/ pc[c] = "profile" /\ next = "auth_error"
      PROVE  IInv'
  BY <1>1, <1>2, Moves DEF Ended
<1>3. ASSUME tokens' = [tokens EXCEPT ![c].expires_at = now + LIFETIME],
             NEW next, Goto(c, next),
             \/ pc[c] = "answer" /\ next = "persist"
             \/ pc[c] = "profile" /\ next = "lookup"
      PROVE  IInv'
  <2>1. /\ pc' \in [Actor -> Await \cup Ended] /\ waited' \in [Actor -> 0..(2 * PATIENCE)]
        /\ pc'[c] = next /\ waited'[c] = 0
        /\ \A x \in Actor \ {c} : pc'[x] = pc[x] /\ waited'[x] = waited[x]
        /\ Grown /\ Issued' = Issued
    BY Facts, Goes, Same, <1>1, <1>3 DEF Await
  <2>2. tokens \in [Actor -> Tokens] /\ now + LIFETIME \in Nat
    BY Facts DEF TypeOK, Tokens
  <2>3. /\ tokens' \in [Actor -> Tokens] /\ \A x \in Actor \ {c} : tokens'[x] = tokens[x]
        /\ tokens'[c].refresh = tokens[c].refresh /\ tokens'[c].access = tokens[c].access
        /\ tokens'[c].expires_at = now + LIFETIME
    BY <1>3, <2>2 DEF Tokens
  <2>4. TypeOK'
    BY Facts, <1>1, <2>1, <2>3 DEF TypeOK, Tokens
  <2>5. ClockOK(c)'
    <3>1. /\ tokens[c].access \in Issued /\ expiry[tokens[c].access] \in Nat
          /\ now + LIFETIME <= expiry[tokens[c].access] + waited[c]
          /\ waited[c] <= (IF pc[c] = "profile" THEN 2 ELSE 1) * PATIENCE
      BY Facts, <1>3 DEF ClockOK, Granted, Double
    <3> QED
      BY Facts, <1>1, <1>3, <2>1, <2>3, <3>1 DEF ClockOK, Granted
  <2>6. RowClock'
    BY Facts, <1>1 DEF RowClock
  <2>7. TokenOK(c)'
    <3>1. TokenOK(c) /\ (Pending(c)' => Pending(c))
      BY Facts, <1>3, <2>1, <2>3 DEF Pending
    <3> QED
      BY <1>1, <1>3, <2>1, <2>3, <3>1 DEF TokenOK
  <2>8. Connected'
    BY StillConnected, <1>1, <1>3, <2>1, <2>3
  <2> QED
    BY Frame, <1>1, <2>1, <2>3, <2>4, <2>5, <2>6, <2>7, <2>8
<1>4. CASE ReceiveRefresh(c)
  <2>1. CASE UNCHANGED tokens /\ \E failure \in {"raised", "refresh_error"} : Goto(c, failure)
    BY <1>2, <1>4, <2>1 DEF ReceiveRefresh
  <2>2. CASE tokens' = [tokens EXCEPT ![c].expires_at = now + LIFETIME] /\ Goto(c, "persist")
    BY <1>3, <1>4, <2>2 DEF ReceiveRefresh
  <2> QED
    BY <1>4, <2>1, <2>2 DEF ReceiveRefresh
<1>5. CASE FetchProfile(c)
  <2>1. CASE UNCHANGED tokens /\ Goto(c, "auth_error")
    BY <1>2, <1>5, <2>1 DEF FetchProfile
  <2>2. CASE tokens' = [tokens EXCEPT ![c].expires_at = now + LIFETIME] /\ Goto(c, "lookup")
    BY <1>3, <1>5, <2>2 DEF FetchProfile
  <2> QED
    BY <1>5, <2>1, <2>2 DEF FetchProfile
<1> QED
  BY <1>4, <1>5

(* The row takes a call's tokens, or the answer to the write is an error.  *)
LEMMA Step_PersistRefresh ==
    ASSUME IInv, NEW c \in Task, PersistRefresh(c)
    PROVE  IInv'
<1> USE DEF NoToken
<1>1. /\ c \in Actor /\ pc[c] = "persist"
      /\ UNCHANGED <<now, expiry, usable, revoked, tokens>>
      /\ held \in [Actor -> Issued \cup {NoToken}]
  BY Facts DEF PersistRefresh, Actor, TypeOK
<1>2. CASE UNCHANGED <<row, held>> /\ Goto(c, "raised")
  BY <1>1, <1>2, Moves DEF Ended
<1>3. ASSUME row' = UpdateTokens(row, tokens[c]), NEW next \in {"calling", "raised"},
             Goto(c, next), NEW h \in {held[c], NoToken}, held' = [held EXCEPT ![c] = h]
      PROVE  IInv'
  <2>1. /\ pc' \in [Actor -> Await \cup Ended] /\ waited' \in [Actor -> 0..(2 * PATIENCE)]
        /\ pc'[c] = next /\ waited'[c] = 0
        /\ \A x \in Actor \ {c} : pc'[x] = pc[x] /\ waited'[x] = waited[x]
        /\ Grown /\ Issued' = Issued
        /\ held' \in [Actor -> Issued \cup {NoToken}] /\ held'[c] = h
        /\ \A x \in Actor \ {c} : held'[x] = held[x]
    BY Facts, Goes, Same, <1>1, <1>3 DEF Await, Ended
  <2>2. /\ tokens[c].access \in Issued /\ tokens[c] \in Tokens /\ row \in RowType
        /\ expiry[tokens[c].access] \in Nat /\ waited[c] <= PATIENCE
        /\ tokens[c].expires_at <= expiry[tokens[c].access] + PATIENCE
        /\ now + 3 * PATIENCE < expiry[tokens[c].access] + waited[c]
    BY Facts, <1>1 DEF ClockOK, Granted, Double
  <2>3. /\ row' \in RowType /\ row'.access = tokens[c].access
        /\ row'.expires_at = tokens[c].expires_at
        /\ row'.refresh = (IF tokens[c].refresh # NoToken THEN tokens[c].refresh
                           ELSE row.refresh)
    BY <1>3, <2>2 DEF UpdateTokens, RowType, Tokens
  <2>4. TypeOK'
    BY Facts, <1>1, <2>1, <2>3 DEF TypeOK, RowType
  <2>5. ClockOK(c)'
    BY Facts, <1>1, <2>1, <2>2 DEF ClockOK, Granted
  <2>6. RowClock'
    BY Facts, <1>1, <2>2, <2>3 DEF RowClock, Tokens
  <2>7. TokenOK(c)'
    BY <2>1 DEF TokenOK, Pending
  <2>8. Connected'
    <3>1. CASE tokens[c].refresh # NoToken
      <4>1. tokens[c].refresh \in usable \/ revoked
        BY Facts, <1>1, <3>1 DEF TokenOK, Pending
      <4> QED
        BY <1>1, <2>3, <3>1, <4>1 DEF Connected
    <3>2. CASE tokens[c].refresh = NoToken
      <4>1. row'.refresh = row.refresh /\ Connected
        BY <2>3, <3>2 DEF IInv
      <4>2. ASSUME NEW x \in Task, Spender(x) PROVE Spender(x)'
        <5>1. x \in Actor \ {c}
          BY Facts, <3>2, <4>2 DEF Actor, TypeOK, Spender, Issued
        <5>2. h # tokens[x].refresh
          BY Facts, <1>1, <4>2 DEF Spender, TypeOK, Issued
        <5>3. \A y \in Actor : held'[y] # tokens[x].refresh
          BY <2>1, <4>2, <5>2 DEF Spender
        <5> QED
          BY <1>1, <2>1, <4>1, <4>2, <5>1, <5>3 DEF Spender
      <4>3. ASSUME NEW k \in Callback, NoneGranted(k) PROVE NoneGranted(k)'
        <5>1. k \in Actor \ {c}
          BY NamesAssumption DEF Actor
        <5> QED
          BY <1>1, <2>1, <4>1, <4>3, <5>1 DEF NoneGranted
      <4> QED
        BY <1>1, <4>1, <4>2, <4>3 DEF Connected
    <3> QED
      BY <3>1, <3>2
  <2>9. row'.refresh \in {row.refresh, tokens[c].refresh, NoToken}
    BY <2>3
  <2> QED
    BY Frame, <1>1, <2>1, <2>4, <2>5, <2>6, <2>7, <2>8, <2>9
<1>4. PICK db \in DbOutcome :
         /\ row' = IF Committed(db) THEN UpdateTokens(row, tokens[c]) ELSE row
         /\ Goto(c, IF db = "ok" THEN "calling" ELSE "raised")
         /\ held' = [held EXCEPT ![c] = IF db = "ok" THEN NoToken ELSE @]
  BY DEF PersistRefresh
<1>5. CASE Committed(db)
  BY <1>1, <1>3, <1>4, <1>5
<1>6. CASE ~ Committed(db)
  <2>1. held' = held
    BY <1>1, <1>4, <1>6 DEF Committed
  <2> QED
    BY <1>2, <1>4, <1>6, <2>1 DEF Committed
<1> QED
  BY <1>5, <1>6

LEMMA Step_Reactivate ==
    ASSUME IInv, NEW k \in Callback, Reactivate(k)
    PROVE  IInv'
<1> USE DEF NoToken
<1>1. /\ k \in Actor /\ pc[k] = "reactivate"
      /\ UNCHANGED <<now, expiry, usable, revoked, held, tokens>>
  BY DEF Reactivate, Actor
<1>2. CASE UNCHANGED row /\ Goto(k, "raised")
  BY <1>1, <1>2, Moves DEF Ended
<1>3. ASSUME row' = [access |-> tokens[k].access, refresh |-> tokens[k].refresh,
                     expires_at |-> tokens[k].expires_at, is_active |-> TRUE],
             NEW next \in {"connected", "raised"}, Goto(k, next)
      PROVE  IInv'
  <2>1. /\ pc' \in [Actor -> Await \cup Ended] /\ waited' \in [Actor -> 0..(2 * PATIENCE)]
        /\ pc'[k] = next /\ waited'[k] = 0
        /\ \A x \in Actor \ {k} : pc'[x] = pc[x] /\ waited'[x] = waited[x]
        /\ Grown /\ Issued' = Issued
    BY Facts, Goes, Same, <1>1, <1>3 DEF Ended
  <2>2. /\ tokens[k].access \in Issued /\ tokens[k] \in Tokens
        /\ tokens[k].access # NoToken
        /\ tokens[k].expires_at <= expiry[tokens[k].access] + 2 * PATIENCE
    BY Facts, <1>1 DEF ClockOK, Granted
  <2>3. /\ row' \in RowType /\ row'.access = tokens[k].access
        /\ row'.expires_at = tokens[k].expires_at /\ row'.refresh = tokens[k].refresh
    BY <1>3, <2>2 DEF RowType, Tokens
  <2>4. TypeOK'
    BY Facts, <1>1, <2>1, <2>3 DEF TypeOK, RowType
  <2>5. ClockOK(k)'
    BY Facts, <1>1, <1>3, <2>1 DEF ClockOK, Granted
  <2>6. RowClock'
    BY <1>1, <2>2, <2>3 DEF RowClock
  <2>7. TokenOK(k)'
    BY <1>3, <2>1 DEF TokenOK, Pending
  <2>8. Connected'
    <3>1. CASE tokens[k].refresh # NoToken
      <4>1. tokens[k].refresh \in usable \/ revoked
        BY Facts, <1>1, <3>1 DEF TokenOK, Pending
      <4> QED
        BY <1>1, <2>3, <4>1 DEF Connected
    <3>2. CASE tokens[k].refresh = NoToken
      <4>1. NoneGranted(k)'
        BY <1>1, <1>3, <2>1, <2>3, <3>2 DEF NoneGranted
      <4> QED
        BY <4>1 DEF Connected
    <3> QED
      BY <3>1, <3>2
  <2> QED
    BY Frame, <1>1, <2>1, <2>3, <2>4, <2>5, <2>6, <2>7, <2>8
<1>4. PICK db \in DbOutcome :
         /\ row' = IF ~ Committed(db) THEN row
                   ELSE [access |-> tokens[k].access, refresh |-> tokens[k].refresh,
                         expires_at |-> tokens[k].expires_at, is_active |-> TRUE]
         /\ Goto(k, IF db = "ok" THEN "connected" ELSE "raised")
  BY DEF Reactivate
<1>5. CASE Committed(db)
  BY <1>3, <1>4, <1>5
<1>6. CASE ~ Committed(db)
  BY <1>2, <1>4, <1>6 DEF Committed
<1> QED
  BY <1>5, <1>6

LEMMA Step_CallEnds ==
    ASSUME IInv, NEW c \in Task, CallEnds(c)
    PROVE  IInv'
<1> USE DEF NoToken
<1>1. /\ c \in Actor /\ pc[c] = "calling"
      /\ UNCHANGED <<now, row, expiry, usable, revoked, held>>
      /\ tokens' = [tokens EXCEPT ![c] = Nothing]
  BY DEF CallEnds, Actor
<1>2. /\ pc' \in [Actor -> Await \cup Ended] /\ waited' \in [Actor -> 0..(2 * PATIENCE)]
      /\ pc'[c] = "done" /\ waited'[c] = 0
      /\ \A x \in Actor \ {c} : pc'[x] = pc[x] /\ waited'[x] = waited[x]
      /\ Grown /\ Issued' = Issued
  BY Facts, Goes, Same, <1>1 DEF CallEnds, Ended
<1>3. tokens \in [Actor -> Tokens] /\ Nothing \in Tokens
  BY Facts DEF TypeOK, Tokens, Nothing
<1>4. /\ tokens' \in [Actor -> Tokens] /\ \A x \in Actor \ {c} : tokens'[x] = tokens[x]
      /\ tokens'[c].refresh = NoToken
  BY <1>1, <1>3 DEF Nothing
<1>5. TypeOK'
  BY Facts, <1>1, <1>2, <1>4 DEF TypeOK, Tokens
<1>6. ClockOK(c)'
  BY <1>2, ClockAssumption DEF ClockOK, Granted
<1>7. RowClock' /\ TokenOK(c)'
  BY Facts, <1>1, <1>2 DEF RowClock, TokenOK, Pending
<1>8. Connected'
  <2>1. ASSUME NEW x \in Task, Spender(x) PROVE Spender(x)'
    <3>1. x \in Actor \ {c}
      BY <1>1, <2>1 DEF Actor, Spender
    <3>2. tokens[x].refresh # NoToken
      BY Facts, <2>1 DEF TypeOK, Spender, Issued
    <3>3. \A y \in Actor \ {x} : tokens'[y].refresh # tokens[x].refresh
      BY <1>4, <2>1, <3>2 DEF Spender
    <3> QED
      BY <1>1, <1>2, <1>4, <2>1, <3>1, <3>3 DEF Spender
  <2>2. ASSUME NEW k \in Callback, NoneGranted(k) PROVE NoneGranted(k)'
    <3>1. k \in Actor \ {c}
      BY NamesAssumption DEF Actor
    <3> QED
      BY <1>1, <1>2, <1>4, <2>2, <3>1 DEF NoneGranted
  <2> QED
    BY <1>1, <2>1, <2>2 DEF IInv, Connected
<1> QED
  BY Frame, <1>1, <1>2, <1>4, <1>5, <1>6, <1>7, <1>8

(* The steps of nobody's call.                                             *)
LEMMA Step_Disconnect == ASSUME IInv, Disconnect PROVE IInv'
<1>1. /\ row' = [row EXCEPT !.is_active = FALSE] /\ row \in RowType
      /\ UNCHANGED <<now, expiry, usable, revoked, pc, waited, held, tokens>>
      /\ Issued' = Issued
  BY Facts, Same DEF Disconnect
<1>2. /\ row' \in RowType /\ row'.access = row.access /\ row'.refresh = row.refresh
      /\ row'.expires_at = row.expires_at
  BY <1>1 DEF RowType
<1>3. TypeOK'
  BY Facts, <1>1, <1>2 DEF TypeOK, RowType
<1>4. RowClock' /\ \A c \in Actor : ClockOK(c)' /\ TokenOK(c)'
  BY Facts, <1>1, <1>2 DEF RowClock, ClockOK, TokenOK, Pending
<1>5. Connected'
  BY <1>1, <1>2 DEF IInv, Connected, Spender, NoneGranted
<1> QED
  BY <1>3, <1>4, <1>5 DEF IInv

LEMMA Step_Revoke == ASSUME IInv, Revoke PROVE IInv'
<1>1. /\ usable' = {} /\ revoked' = TRUE
      /\ UNCHANGED <<now, row, expiry, pc, waited, held, tokens>> /\ Issued' = Issued
  BY Facts, Same DEF Revoke
<1>2. TypeOK'
  BY Facts, <1>1 DEF TypeOK
<1>3. RowClock' /\ \A c \in Actor : ClockOK(c)' /\ TokenOK(c)'
  BY Facts, <1>1 DEF RowClock, ClockOK, TokenOK, Pending
<1> QED
  BY <1>1, <1>2, <1>3 DEF IInv, Connected

(* A tick ages the tokens and the awaits alike.                            *)
LEMMA Step_Tick == ASSUME IInv, Tick PROVE IInv'
<1>1. /\ now' = now + 1 /\ now < MaxTime /\ now \in 0..MaxTime
      /\ UNCHANGED <<row, expiry, usable, revoked, pc, held, tokens>> /\ Issued' = Issued
  BY Facts, Same DEF Tick, TypeOK
<1>2. \A c \in Actor :
         /\ waited'[c] = waited[c] + (IF c \in Waiting THEN 1 ELSE 0)
         /\ c \in Waiting => waited[c] < (IF pc[c] \in Double THEN 2 ELSE 1) * PATIENCE
         /\ waited[c] \in 0..(2 * PATIENCE)
  BY Facts DEF Tick, MayWait, TypeOK
<1>3. waited' \in [Actor -> 0..(2 * PATIENCE)]
  <2>1. \A c \in Actor : waited[c] + (IF c \in Waiting THEN 1 ELSE 0) \in 0..(2 * PATIENCE)
    BY <1>2, ClockAssumption
  <2> QED
    BY <2>1 DEF Tick
<1>4. TypeOK'
  <2>1. now' \in 0..MaxTime
    BY <1>1, ClockAssumption
  <2> QED
    BY Facts, <1>1, <1>3, <2>1 DEF TypeOK
<1>5. ASSUME NEW c \in Actor PROVE ClockOK(c)'
  <2>1. /\ ClockOK(c) /\ now \in Nat /\ PATIENCE \in Nat /\ LIFETIME \in Nat
        /\ waited[c] \in Nat
        /\ tokens[c].access \in Issued => expiry[tokens[c].access] \in Nat
    BY Facts
  <2>2. CASE c \in Waiting
    <3>1. waited'[c] = waited[c] + 1
          /\ waited[c] < (IF pc[c] \in Double THEN 2 ELSE 1) * PATIENCE
      BY <1>2, <2>2
    <3> QED
      BY <1>1, <2>1, <3>1 DEF ClockOK, Granted
  <2>3. CASE c \notin Waiting
    <3>1. pc[c] \notin Granted /\ pc[c] \notin Double
      BY <2>3 DEF Waiting, Granted, Await, Double
    <3>2. waited'[c] = waited[c]
      BY <1>2, <2>1, <2>3
    <3> QED
      BY <1>1, <2>1, <3>1, <3>2 DEF ClockOK, Granted
  <2> QED
    BY <2>2, <2>3
<1>6. RowClock' /\ \A c \in Actor : TokenOK(c)'
  BY Facts, <1>1 DEF RowClock, TokenOK, Pending
<1>7. Connected'
  BY <1>1 DEF IInv, Connected, Spender, NoneGranted
<1> QED
  BY <1>4, <1>5, <1>6, <1>7 DEF IInv

LEMMA Step_Stutter == ASSUME IInv, UNCHANGED vars PROVE IInv'
<1>1. Issued' = Issued
  BY Facts, Same DEF vars
<1>2. TypeOK'
  BY Facts, <1>1 DEF TypeOK, vars
<1>3. RowClock' /\ \A c \in Actor : ClockOK(c)' /\ TokenOK(c)'
  BY Facts, <1>1 DEF RowClock, ClockOK, TokenOK, Pending, vars
<1> QED
  BY <1>2, <1>3 DEF IInv, Connected, Spender, NoneGranted, vars

LEMMA NextIInv == IInv /\ [Next]_vars => IInv'
<1> SUFFICES ASSUME IInv, [Next]_vars PROVE IInv'
  OBVIOUS
<1>1. ASSUME NEW c \in Task, Step(c) \/ Crash(c) PROVE IInv'
  <2>1. c \in Actor
    BY DEF Actor
  <2> QED
    BY <1>1, <2>1, Step_ReadAccount, Step_ExchangeRefresh, Step_Moves, Step_Reckons,
       Step_PersistRefresh, Step_CallEnds DEF Step
<1>2. ASSUME NEW k \in Callback, ConnectStep(k) \/ Crash(k) PROVE IInv'
  <2>1. k \in Actor
    BY DEF Actor
  <2> QED
    BY <1>2, <2>1, Step_ExchangeCode, Step_Reckons, Step_Moves, Step_Reactivate DEF ConnectStep
<1> QED
  BY <1>1, <1>2, Step_Disconnect, Step_Revoke, Step_Tick, Step_Stutter DEF Next

(* Everything the arguments below rest on holds in every reachable state.  *)
THEOREM Inductive == Spec => []IInv
<1> QED
  BY InitIInv, NextIInv, PTL DEF Spec

(* The variables keep their types: a row never names a token that Twitter  *)
(* did not issue.                                                          *)
THEOREM Typing == Spec => []TypeOK
<1>1. IInv => TypeOK
  BY DEF IInv
<1> QED
  BY <1>1, Inductive, PTL

(* A caller's token outlives the request it makes with it: the margin of   *)
(* get_valid_access_token covers the awaits by which expires_at is late,   *)
(* for every lifetime, margin and timeout that ClockAssumption allows.     *)
THEOREM TokensOutliveRequests == Spec => []NotExpiredMidFlight
<1>1. IInv => NotExpiredMidFlight
  <2> SUFFICES ASSUME IInv, NEW c \in Task, pc[c] = "calling"
               PROVE  now < expiry[tokens[c].access]
    BY DEF NotExpiredMidFlight
  <2>1. c \in Actor
    BY DEF Actor
  <2>2. /\ now \in Nat /\ PATIENCE \in Nat /\ waited[c] \in Nat /\ waited[c] <= 2 * PATIENCE
        /\ expiry[tokens[c].access] \in Nat
        /\ now + 2 * PATIENCE < expiry[tokens[c].access] + waited[c]
    BY Facts, <2>1 DEF ClockOK, Granted
  <2> QED
    BY <2>2
<1> QED
  BY <1>1, Inductive, PTL

(* Concurrent refreshes and callbacks, which update the row by its id      *)
(* alone, never leave it with a spent refresh token while a newer one was  *)
(* stored or is still to be.                                               *)
THEOREM NoConnectionLost == Spec => []ConnectionNotLost
<1>1. IInv => ConnectionNotLost
  BY DEF IInv, Connected, Spender, NoneGranted, ConnectionNotLost
<1> QED
  BY <1>1, Inductive, PTL

(* Only a callback makes a disconnected account active again: update_tokens *)
(* leaves is_active alone.                                                  *)
THEOREM DisconnectIsFinal == Spec => DisconnectSticks
<1>1. ASSUME IInv, [Next]_vars
      PROVE  [~ row.is_active /\ row'.is_active =>
                \E k \in Callback : pc[k] = "reactivate" /\ row'.access = tokens[k].access]_vars
  <2> SUFFICES ASSUME Next, ~ row.is_active, row'.is_active
               PROVE  \E k \in Callback : pc[k] = "reactivate"
                                           /\ row'.access = tokens[k].access
    BY <1>1
  <2>1. row \in RowType
    BY Facts, <1>1
  <2>2. PICK k \in Callback : Reactivate(k) /\ row' # row
    <3>1. ASSUME NEW c \in Task, PersistRefresh(c) PROVE FALSE
      <4>1. row' = UpdateTokens(row, tokens[c]) \/ row' = row
        BY <3>1 DEF PersistRefresh
      <4>2. UpdateTokens(row, tokens[c]).is_active = row.is_active
        BY <2>1 DEF UpdateTokens, RowType
      <4> QED
        BY <4>1, <4>2
    <3>2. ~ Disconnect
      BY <2>1 DEF Disconnect, RowType
    <3>3. row' # row
      OBVIOUS
    <3>4. ASSUME NEW c \in Task, Step(c) \/ Crash(c) PROVE PersistRefresh(c)
      BY <3>3, <3>4 DEF Step, Crash, ReadAccount, ExchangeRefresh, RefuseRefresh, GiveUp,
         LateRefresh, ReceiveRefresh, CallEnds
    <3>5. ASSUME NEW k \in Callback, ConnectStep(k) \/ Crash(k) PROVE Reactivate(k)
      BY <3>3, <3>5 DEF ConnectStep, Crash, ExchangeCode, FetchProfile, LookUp
    <3>6. ~ Revoke /\ ~ Tick
      BY <3>3 DEF Revoke, Tick
    <3> QED
      BY <3>1, <3>2, <3>3, <3>4, <3>5, <3>6 DEF Next
  <2>3. pc[k] = "reactivate" /\ row'.access = tokens[k].access
    BY <2>2 DEF Reactivate
  <2> QED
    BY <2>3
<1> QED
  BY <1>1, Inductive, PTL DEF Spec, DisconnectSticks
=============================================================================
