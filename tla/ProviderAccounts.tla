-------------------------- MODULE ProviderAccounts --------------------------
(***************************************************************************)
(* The users and their Google accounts: signing in with an identity (auth/ *)
(* service.py), connecting a Google API (integrations/router.py) and the   *)
(* refresh of the connection's access token at the start of a session      *)
(* (integrations/credentials.py).  All three write the one row that        *)
(* provider_accounts has for a user and Google.                            *)
(*                                                                         *)
(* A request is a coroutine on a connection of its own.  An action is a    *)
(* query, a request to Google, or the writes of a transaction.  A user is  *)
(* the index of its row; a token is named by the account it is for.        *)
(***************************************************************************)
EXTENDS Integers, Sequences, FiniteSets

CONSTANTS
    Requests,    \* slots for requests under way at the same time
    Accounts,    \* Google accounts, the provider_subject of a row
    Nobody,      \* no account, no token
    Scopes,      \* the API scopes
    Emails,
    NoEmail,     \* no verified email
    Claims,      \* what id_tokens may say: [subject, email]
    MaxUsers     \* bound: rows of the users table

ASSUME NamesAssumption == Nobody \notin Accounts /\ NoEmail \notin Emails
ASSUME ClaimsAssumption == Claims \subseteq [subject : Accounts, email : Emails \cup {NoEmail}]
ASSUME MaxUsersAssumption == MaxUsers \in Nat

VARIABLES
    emails,     \* users: primary_email, by id
    rows,       \* provider_accounts of Google, by user: [subject, scopes, access,
                \* refresh, expired]
    granted,    \* at Google: the scopes each account has granted
    pc,         \* where each request is suspended
    held,       \* what it holds: [user, claim, row, seen]
    signedIn,   \* history: the user each identity signed in as last, 0 for none
    displaced,  \* history: identities whose row was given to another account
    stale       \* history: users whose row a refresh wrote back that had read an older
                \* version of it, until they connect again

requestVars == <<pc, held>>
history     == <<signedIn, displaced, stale>>
vars == <<emails, rows, granted, requestVars, history>>

UserIds == DOMAIN emails

NoRow == [subject |-> Nobody, scopes |-> {}, access |-> Nobody, refresh |-> Nobody,
          expired |-> FALSE]

NoClaim == [subject |-> Nobody, email |-> NoEmail]

Nothing == [user |-> 0, claim |-> NoClaim, row |-> NoRow, seen |-> NoRow]

Init ==
    /\ emails = <<>> /\ rows = <<>>
    /\ granted = [a \in Accounts |-> {}]
    /\ pc = [r \in Requests |-> "idle"]
    /\ held = [r \in Requests |-> Nothing]
    /\ signedIn = [a \in Accounts |-> 0] /\ displaced = {} /\ stale = {}

tables == <<emails, rows>>

----------------------------------------------------------------------------

Step(r, from, to, h) ==
    /\ pc[r] = from
    /\ pc' = [pc EXCEPT ![r] = to]
    /\ held' = [held EXCEPT ![r] = h]

Ends(r, from) == Step(r, from, "idle", Nothing)

RowsOf(a) == {u \in UserIds : rows[u].subject = a}

\* Mutant: the constraint is missing.
UnconstrainedAllows(u, a) == TRUE

\* The unique constraint on (provider, provider_subject), for a row of user u.
ConstraintAllows(u, a) == RowsOf(a) \subseteq {u}

Displaces(u, a) ==
    displaced' = IF rows[u].subject = a THEN displaced ELSE displaced \cup {rows[u].subject}

\* Mutant: the row keeps the refresh token it has.
UpsertKeepingRefresh(u, row) ==
    /\ ConstraintAllows(u, row.subject)
    /\ rows' = [rows EXCEPT ![u] =
                  [row EXCEPT !.refresh = IF rows[u].refresh # Nobody THEN rows[u].refresh
                                                                      ELSE row.refresh]]
    /\ Displaces(u, row.subject)

\* upsert_provider_account: everything is replaced, but a refresh token only by another.
Upsert(u, row) ==
    /\ ConstraintAllows(u, row.subject)
    /\ rows' = [rows EXCEPT ![u] =
                  [row EXCEPT !.refresh = IF row.refresh # Nobody THEN row.refresh
                                                                  ELSE rows[u].refresh]]
    /\ Displaces(u, row.subject)

\* The row is the one that was read, though the token may have expired since.
Unchanged(u, seen) == [rows[u] EXCEPT !.expired = FALSE] = [seen EXCEPT !.expired = FALSE]

----------------------------------------------------------------------------
(* Signing in: login_from_identity, one transaction *)

Holding(r, user) == [held[r] EXCEPT !.user = user]

\* get_provider_account_by_subject.
ReadAccount(r, claim) ==
    /\ LET found == RowsOf(claim.subject)
           user  == IF found = {} THEN 0 ELSE CHOOSE u \in found : TRUE
           next  == IF found = {} /\ claim.email # NoEmail THEN "searching" ELSE "linking"
       IN  Step(r, "idle", next, [Nothing EXCEPT !.user = user, !.claim = claim])
    /\ UNCHANGED <<tables, granted, history>>

\* get_or_create_user_by_email, its query.
ReadUser(r) ==
    /\ LET found == {u \in UserIds : emails[u] = held[r].claim.email}
       IN  Step(r, "searching", "linking",
                Holding(r, IF found = {} THEN 0 ELSE CHOOSE u \in found : TRUE))
    /\ UNCHANGED <<tables, granted, history>>

SignsIn(r, user) == signedIn' = [signedIn EXCEPT ![held[r].claim.subject] = user]

\* create_user and the insert of the identity, which both constraints must let pass.
CreateUser(r) ==
    /\ held[r].user = 0
    /\ Ends(r, "linking")
    /\ Len(emails) < MaxUsers
    /\ held[r].claim.email = NoEmail \/ \A u \in UserIds : emails[u] # held[r].claim.email
    /\ RowsOf(held[r].claim.subject) = {}
    /\ emails' = Append(emails, held[r].claim.email)
    /\ rows' = Append(rows, [NoRow EXCEPT !.subject = held[r].claim.subject])
    /\ SignsIn(r, Len(emails) + 1)
    /\ UNCHANGED <<granted, displaced, stale>>

\* upsert_identity_account: the subject is replaced, the tokens and scopes stay.
LinkIdentity(r) ==
    LET u == held[r].user
        a == held[r].claim.subject
    IN  /\ u # 0
        /\ Ends(r, "linking")
        /\ ConstraintAllows(u, a)
        /\ rows' = [rows EXCEPT ![u].subject = a]
        /\ Displaces(u, a)
        /\ SignsIn(r, u)
        /\ UNCHANGED <<emails, granted, stale>>

----------------------------------------------------------------------------
(* Connecting an API: consent at Google, google_callback *)

\* Mutant: the new scopes are added to those of the row.
ConsentAddingUp(r, u, a, scope) ==
    /\ granted' = [granted EXCEPT ![a] = @ \cup {scope}]
    /\ Step(r, "idle", "connecting",
            [Nothing EXCEPT !.user = u,
               !.row = [subject |-> a, scopes |-> rows[u].scopes \cup {scope}, access |-> a,
                        refresh |-> a, expired |-> FALSE]])
    /\ UNCHANGED <<tables, history>>

\* The user consents as any account.  Google's answer to the code covers all that the
\* account has granted (include_granted_scopes) and has a refresh token (prompt=consent).
Consent(r, u, a, scope) ==
    /\ granted' = [granted EXCEPT ![a] = @ \cup {scope}]
    /\ Step(r, "idle", "connecting",
            [Nothing EXCEPT !.user = u,
               !.row = [subject |-> a, scopes |-> granted[a] \cup {scope}, access |-> a,
                        refresh |-> a, expired |-> FALSE]])
    /\ UNCHANGED <<tables, history>>

StoreGrant(r) ==
    /\ Ends(r, "connecting")
    /\ Upsert(held[r].user, held[r].row)
    /\ stale' = stale \ {held[r].user}
    /\ UNCHANGED <<emails, granted, signedIn>>

----------------------------------------------------------------------------
(* The start of a session: google_access_token *)

\* Only an expired token that can be refreshed leads to a write.
ReadGrant(r, u) ==
    /\ rows[u].access # Nobody /\ rows[u].expired /\ rows[u].refresh # Nobody
    /\ Step(r, "idle", "refreshing", [Nothing EXCEPT !.user = u, !.seen = rows[u],
              !.row = [rows[u] EXCEPT !.access = rows[u].refresh, !.refresh = Nobody,
                                      !.expired = FALSE]])
    /\ UNCHANGED <<tables, granted, history>>

\* The subject and the scopes go back as they were read.
StoreToken(r) ==
    /\ Ends(r, "refreshing")
    /\ Upsert(held[r].user, held[r].row)
    /\ stale' = IF Unchanged(held[r].user, held[r].seen) THEN stale
                                                        ELSE stale \cup {held[r].user}
    /\ UNCHANGED <<emails, granted, signedIn>>

\* A constraint refuses the write, Google refuses the request, or the request is lost.
Abort(r) ==
    /\ pc[r] # "idle"
    /\ Ends(r, pc[r])
    /\ UNCHANGED <<tables, granted, history>>

Expire(u) ==
    /\ rows[u].access # Nobody /\ ~rows[u].expired
    /\ rows' = [rows EXCEPT ![u].expired = TRUE]
    /\ UNCHANGED <<emails, granted, requestVars, history>>

----------------------------------------------------------------------------

Next ==
    \/ \E r \in Requests :
         \/ \E claim \in Claims : ReadAccount(r, claim)
         \/ ReadUser(r) \/ CreateUser(r) \/ LinkIdentity(r)
         \/ \E u \in UserIds, a \in Accounts, scope \in Scopes : Consent(r, u, a, scope)
         \/ StoreGrant(r)
         \/ \E u \in UserIds : ReadGrant(r, u)
         \/ StoreToken(r) \/ Abort(r)
    \/ \E u \in UserIds : Expire(u)

Spec == Init /\ [][Next]_vars

----------------------------------------------------------------------------

Subjects == Accounts \cup {Nobody}

Rows ==
    [subject : Subjects, scopes : SUBSET Scopes, access : Subjects, refresh : Subjects,
     expired : BOOLEAN]

Holdings ==
    [user : Nat, claim : [subject : Subjects, email : Emails \cup {NoEmail}],
     row : Rows, seen : Rows]

TablesOK ==
    /\ emails \in Seq(Emails \cup {NoEmail})
    /\ rows \in Seq(Rows) /\ Len(rows) = Len(emails)
    /\ \A u \in UserIds : rows[u].subject # Nobody
    /\ \A u, v \in UserIds : u # v =>
         /\ rows[u].subject # rows[v].subject
         /\ emails[u] = emails[v] => emails[u] = NoEmail
    /\ granted \in [Accounts -> SUBSET Scopes]

States == {"idle", "searching", "linking", "connecting", "refreshing"}

\* What a request may hold in each state.
HoldingOK(state, h) ==
    /\ state = "linking" => h.user \in UserIds \cup {0}
    /\ state \in {"searching", "linking"} => h.claim \in Claims
    /\ state \in {"connecting", "refreshing"} =>
         h.user \in UserIds /\ h.row.subject # Nobody

RequestsOK ==
    /\ pc \in [Requests -> States] /\ held \in [Requests -> Holdings]
    /\ \A r \in Requests : HoldingOK(pc[r], held[r])

HistoryOK ==
    /\ signedIn \in [Accounts -> UserIds \cup {0}]
    /\ displaced \subseteq Accounts /\ stale \subseteq UserIds

\* The types of the tables, of the requests under way and of the history.  No two users
\* have an email or a Google account in common.
TypeOK == TablesOK /\ RequestsOK /\ HistoryOK

\* An identity that has signed in is the same user ever after, in whatever order first
\* sign-ins, linking by email and connections overlap, unless the row of its user was
\* given to another account (0001_init.sql: "The same IdP identity cannot map to two
\* users").
SignedInAsBefore ==
    [][\A a \in Accounts \ displaced :
         signedIn[a] # 0 => signedIn'[a] = signedIn[a]]_vars

\* The two tokens of a row are for one account, also after the user has connected another
\* one, unless a refresh has written an older row back (upsert_provider_account keeps
\* "the existing refresh token when a refresh response omits one").
TokensMatch == \A u \in UserIds \ stale : rows[u].access = rows[u].refresh

\* A session offers the tools of a scope only if the account of its token has granted it,
\* unless a refresh has written an older row back (build_credentials).
ScopesCovered ==
    \A u \in UserIds \ stale :
        rows[u].access # Nobody => rows[u].scopes \subseteq granted[rows[u].access]
=============================================================================
