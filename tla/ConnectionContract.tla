------------------------- MODULE ConnectionContract -------------------------
(***************************************************************************)
(* What users may rely on while they connect and disconnect Twitter        *)
(* accounts, however their callbacks race, are reloaded or fail: consent   *)
(* given once at Twitter connects once, the user who asked for it with the *)
(* account that gave it; there is one connection between the two; and what *)
(* a user has disconnected stays so until another consent is used.         *)
(***************************************************************************)
CONSTANTS
    User,
    Account,    \* Twitter accounts
    Consent     \* consents: an account allows the app to act for a user

VARIABLES
    given,      \* the consents given so far, each with its user and account
    used,       \* the consents a connection was made with
    connection  \* <<user, account>> -> their connection, if they have one

vars == <<given, used, connection>>

Init ==
    /\ given = {}
    /\ used = {}
    /\ connection = [pair \in User \X Account |-> {}]

Give(id, u, a) ==
    /\ \A consent \in given : consent.id # id
    /\ given' = given \cup {[id |-> id, user |-> u, account |-> a]}
    /\ UNCHANGED <<used, connection>>

(* For the first time, or over a connection there is.                      *)
Connect(consent) ==
    /\ consent.id \notin used
    /\ used' = used \cup {consent.id}
    /\ connection' = [connection EXCEPT ![<<consent.user, consent.account>>] =
                         {[by |-> consent.id, active |-> TRUE]}]
    /\ UNCHANGED given

Disconnect(pair) ==
    /\ \E old \in connection[pair] :
         /\ old.active
         /\ connection' = [connection EXCEPT ![pair] = {[by |-> old.by, active |-> FALSE]}]
    /\ UNCHANGED <<given, used>>

Next ==
    \/ \E id \in Consent, u \in User, a \in Account : Give(id, u, a)
    \/ \E consent \in given : Connect(consent)
    \/ \E pair \in User \X Account : Disconnect(pair)

Spec == Init /\ [][Next]_vars
=============================================================================
