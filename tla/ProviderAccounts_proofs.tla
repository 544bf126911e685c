---------------------- MODULE ProviderAccounts_proofs ----------------------
(***************************************************************************)
(* Theorems about ProviderAccounts, for any number of requests, accounts,  *)
(* scopes and users.                                                       *)
(*                                                                         *)
(*   TypeCorrect      the types, and the uniqueness of emails and accounts *)
(*   SameUserAgain    an identity stays the user it first signed in as     *)
(*   GrantsAreSound   the tokens of a row are for one account, which has   *)
(*                    granted the scopes of the row                        *)
(*   ScopesAreCovered the second half of it                                *)
(***************************************************************************)
EXTENDS ProviderAccounts, SequenceTheorems, TLAPS

----------------------------------------------------------------------------
(* Tables *)

\* Users are numbered from 1, and each has an email, if only NoEmail, and a row.
LEMMA TableFacts ==
    ASSUME TablesOK
    PROVE  /\ Len(rows) \in Nat
           /\ UserIds = 1..Len(rows)
           /\ 0 \notin UserIds
           /\ rows \in [UserIds -> Rows]
           /\ emails \in [UserIds -> Emails \cup {NoEmail}]
           /\ DOMAIN rows = UserIds
           /\ Len(rows) + 1 \notin UserIds
           /\ \A u \in UserIds : u \in Nat
BY DEF TablesOK, UserIds

\* A row that is put in the place of another keeps the tables in order.
LEMMA PutRow ==
    ASSUME TablesOK, NEW u \in UserIds, NEW row \in Rows, row.subject # Nobody,
           ConstraintAllows(u, row.subject), rows' = [rows EXCEPT ![u] = row],
           emails' = emails, granted' = granted
    PROVE  /\ TablesOK'
           /\ UserIds' = UserIds
           /\ rows'[u] = row
           /\ \A v \in UserIds \ {u} : rows'[v] = rows[v] /\ rows[v].subject # row.subject
<1>1. UserIds' = UserIds
  BY DEF UserIds
<1>2. rows' \in [UserIds -> Rows]
  BY TableFacts
<1>3. rows' \in Seq(Rows) /\ Len(rows') = Len(rows)
  BY <1>2, TableFacts
<1>4. rows'[u] = row /\ \A v \in UserIds \ {u} : rows'[v] = rows[v]
  BY TableFacts
<1>5. \A v \in UserIds \ {u} : rows[v].subject # row.subject
  BY DEF ConstraintAllows, RowsOf
<1>6. \A v \in UserIds : rows'[v].subject # Nobody
  BY <1>4 DEF TablesOK
<1>7. ASSUME NEW v \in UserIds, NEW w \in UserIds, v # w
      PROVE  rows'[v].subject # rows'[w].subject
  <2>1. CASE v = u
    BY <1>4, <1>5, <1>7, <2>1
  <2>2. CASE w = u
    BY <1>4, <1>5, <1>7, <2>2
  <2>3. CASE v # u /\ w # u
    BY <1>4, <1>7, <2>3 DEF TablesOK
  <2> QED
    BY <2>1, <2>2, <2>3
<1>8. TablesOK'
  BY <1>1, <1>3, <1>6, <1>7 DEF TablesOK
<1> QED
  BY <1>1, <1>4, <1>5, <1>8

\* A new user comes last, with a row of its own.
LEMMA AddUser ==
    ASSUME TablesOK, RequestsOK, NEW r \in Requests, CreateUser(r)
    PROVE  /\ TablesOK'
           /\ UserIds' = UserIds \cup {Len(rows) + 1}
           /\ \A u \in UserIds : rows'[u] = rows[u]
           /\ rows'[Len(rows) + 1] = [NoRow EXCEPT !.subject = held[r].claim.subject]
           /\ held[r].claim.subject \in Accounts
           /\ RowsOf(held[r].claim.subject) = {}
<1> DEFINE a == held[r].claim.subject
           e == held[r].claim.email
           n == Len(rows) + 1
           row == [NoRow EXCEPT !.subject = a]
<1>1. held[r].claim \in Claims
  BY DEF CreateUser, Ends, Step, RequestsOK, HoldingOK
<1>2. a \in Accounts /\ e \in Emails \cup {NoEmail} /\ a # Nobody
  BY <1>1, ClaimsAssumption, NamesAssumption
<1>3. row \in Rows /\ row.subject = a
  BY <1>2 DEF NoRow, Rows, Subjects
<1>4. emails' = Append(emails, e) /\ rows' = Append(rows, row) /\ granted' = granted
  BY DEF CreateUser
<1>5. RowsOf(a) = {} /\ (e = NoEmail \/ \A u \in UserIds : emails[u] # e)
  BY DEF CreateUser
<1> HIDE DEF row, a, e
<1>6. /\ emails' \in Seq(Emails \cup {NoEmail}) /\ rows' \in Seq(Rows)
      /\ Len(rows') = n /\ Len(emails') = n
      /\ \A u \in 1..Len(rows) : rows'[u] = rows[u] /\ emails'[u] = emails[u]
      /\ rows'[n] = row /\ emails'[n] = e
  BY <1>2, <1>3, <1>4 DEF TablesOK
<1>7. UserIds' = 1..n
  BY <1>6 DEF UserIds
<1>8. UserIds' = UserIds \cup {n} /\ n \notin UserIds
  BY <1>7, TableFacts
<1>9. \A u \in UserIds : rows'[u] = rows[u] /\ emails'[u] = emails[u]
  BY <1>6, TableFacts
<1>10. \A u \in UserIds : rows[u].subject # a
  BY <1>5 DEF RowsOf
<1>11. \A u \in UserIds' : rows'[u].subject # Nobody
  BY <1>2, <1>3, <1>6, <1>8, <1>9 DEF TablesOK
<1>12. ASSUME NEW u \in UserIds', NEW v \in UserIds', u # v
       PROVE  /\ rows'[u].subject # rows'[v].subject
              /\ emails'[u] = emails'[v] => emails'[u] = NoEmail
  <2>1. CASE u \in UserIds /\ v \in UserIds
    BY <1>9, <1>12, <2>1 DEF TablesOK
  <2>2. CASE u = n
    <3>1. v \in UserIds
      BY <1>8, <1>12, <2>2
    <3> QED
      BY <1>3, <1>5, <1>6, <1>9, <1>10, <2>2, <3>1
  <2>3. CASE v = n
    <3>1. u \in UserIds
      BY <1>8, <1>12, <2>3
    <3> QED
      BY <1>3, <1>5, <1>6, <1>9, <1>10, <2>3, <3>1
  <2> QED
    BY <1>8, <2>1, <2>2, <2>3
<1>13. TablesOK'
  BY <1>4, <1>6, <1>11, <1>12 DEF TablesOK
<1> QED
  BY <1>2, <1>5, <1>6, <1>8, <1>9, <1>13 DEF a, row

\* What upsert_provider_account stores of a row it is given.
Coalesced(u, row) ==
    [row EXCEPT !.refresh = IF row.refresh # Nobody THEN row.refresh ELSE rows[u].refresh]

LEMMA CoalescedRow ==
    ASSUME TablesOK, NEW u \in UserIds, NEW row \in Rows
    PROVE  /\ Coalesced(u, row) \in Rows
           /\ Coalesced(u, row).subject = row.subject
           /\ Coalesced(u, row).scopes = row.scopes
           /\ Coalesced(u, row).access = row.access
           /\ Coalesced(u, row).refresh =
                IF row.refresh # Nobody THEN row.refresh ELSE rows[u].refresh
<1>1. rows[u] \in Rows
  BY TableFacts
<1> QED
  BY <1>1 DEF Coalesced, Rows

\* An identity is put into a user's row.
LEMMA RowWithSubject ==
    ASSUME NEW row \in Rows, NEW a \in Accounts
    PROVE  /\ [row EXCEPT !.subject = a] \in Rows
           /\ [row EXCEPT !.subject = a].subject = a
           /\ [row EXCEPT !.subject = a].scopes = row.scopes
           /\ [row EXCEPT !.subject = a].access = row.access
           /\ [row EXCEPT !.subject = a].refresh = row.refresh
BY DEF Rows, Subjects

\* A token expires.
LEMMA RowExpired ==
    ASSUME NEW row \in Rows, NEW b \in BOOLEAN
    PROVE  /\ [row EXCEPT !.expired = b] \in Rows
           /\ [row EXCEPT !.expired = b].subject = row.subject
           /\ [row EXCEPT !.expired = b].scopes = row.scopes
           /\ [row EXCEPT !.expired = b].access = row.access
           /\ [row EXCEPT !.expired = b].refresh = row.refresh
BY DEF Rows

----------------------------------------------------------------------------
(* Requests *)

\* A step of one request leaves all in order if it does so for its own, and no user
\* goes away.
LEMMA StepsInOrder ==
    ASSUME RequestsOK, NEW r \in Requests, NEW from \in States, NEW to \in States,
           NEW h \in Holdings, Step(r, from, to, h), HoldingOK(to, h),
           UserIds \subseteq UserIds'
    PROVE  RequestsOK'
<1>1. pc' \in [Requests -> States] /\ pc'[r] = to
  BY DEF Step, RequestsOK, States
<1>2. held' \in [Requests -> Holdings] /\ held'[r] = h
  BY DEF Step, RequestsOK
<1>3. ASSUME NEW q \in Requests
      PROVE  HoldingOK(pc[q], held[q])'
  <2>1. CASE q = r
    BY <1>1, <1>2, <2>1 DEF HoldingOK
  <2>2. CASE q # r
    <3>1. pc'[q] = pc[q] /\ held'[q] = held[q]
      BY <2>2 DEF Step, RequestsOK
    <3>2. HoldingOK(pc[q], held[q])
      BY DEF RequestsOK
    <3> QED
      BY <3>1, <3>2 DEF HoldingOK
  <2> QED
    BY <2>1, <2>2
<1> QED
  BY <1>1, <1>2, <1>3 DEF RequestsOK, States

LEMMA NothingIsHeld == Nothing \in Holdings
BY DEF Nothing, Holdings, NoRow, NoClaim, Rows, Subjects

\* A request that ends.
LEMMA EndsInOrder ==
    ASSUME RequestsOK, NEW r \in Requests, NEW from \in States, Ends(r, from),
           UserIds \subseteq UserIds'
    PROVE  RequestsOK'
<1>1. Step(r, from, "idle", Nothing) /\ "idle" \in States
  BY DEF Ends, States
<1>2. HoldingOK("idle", Nothing)
  BY DEF HoldingOK
<1> QED
  BY <1>1, <1>2, NothingIsHeld, StepsInOrder

\* The user a sign-in has found is one of the table's, or 0.
LEMMA FoundUser ==
    ASSUME NEW found \in SUBSET UserIds
    PROVE  (IF found = {} THEN 0 ELSE CHOOSE u \in found : TRUE) \in UserIds \cup {0}
<1>1. CASE found = {}
  BY <1>1
<1>2. CASE found # {}
  <2>1. (CHOOSE u \in found : TRUE) \in found
    BY <1>2
  <2> QED
    BY <1>2, <2>1
<1> QED
  BY <1>1, <1>2

\* Reading and consenting change the requests only, and what Google remembers.
LEMMA ReadsInOrder ==
    ASSUME TypeOK, NEW r \in Requests,
           \/ \E claim \in Claims : ReadAccount(r, claim)
           \/ ReadUser(r)
           \/ \E u \in UserIds, a \in Accounts, scope \in Scopes : Consent(r, u, a, scope)
           \/ \E u \in UserIds : ReadGrant(r, u)
           \/ Abort(r)
    PROVE  TypeOK'
<1>1. rows' = rows /\ emails' = emails /\ UserIds' = UserIds /\ UNCHANGED history
  BY DEF ReadAccount, ReadUser, Consent, ReadGrant, Abort, tables, UserIds
<1>2. TablesOK' /\ RequestsOK'
  <2>1. ASSUME NEW claim \in Claims, ReadAccount(r, claim)
        PROVE  TablesOK' /\ RequestsOK'
    <3> DEFINE found == RowsOf(claim.subject)
               user  == IF found = {} THEN 0 ELSE CHOOSE u \in found : TRUE
               next  == IF found = {} /\ claim.email # NoEmail THEN "searching" ELSE "linking"
               h     == [Nothing EXCEPT !.user = user, !.claim = claim]
    <3>1. granted' = granted /\ Step(r, "idle", next, h)
      BY <2>1 DEF ReadAccount
    <3>2. user \in UserIds \cup {0} /\ user \in Nat
      <4>1. found \in SUBSET UserIds
        BY DEF RowsOf
      <4>2. user \in UserIds \cup {0}
        BY <4>1, FoundUser
      <4> HIDE DEF user
      <4> QED
        BY <4>2, TableFacts DEF TypeOK
    <3> HIDE DEF user
    <3>3. claim \in [subject : Subjects, email : Emails \cup {NoEmail}]
      BY ClaimsAssumption DEF Subjects
    <3>4. h \in Holdings /\ h.user = user /\ h.claim = claim
      BY <3>2, <3>3, NothingIsHeld DEF Holdings, Nothing
    <3> HIDE DEF h
    <3>5. next \in {"searching", "linking"}
      OBVIOUS
    <3> HIDE DEF next
    <3>6. HoldingOK(next, h)
      BY <3>2, <3>4, <3>5 DEF HoldingOK
    <3>7. RequestsOK'
      BY <1>1, <3>1, <3>4, <3>5, <3>6, StepsInOrder DEF TypeOK, States
    <3> QED
      BY <1>1, <3>1, <3>7 DEF TypeOK, TablesOK
  <2>2. ASSUME ReadUser(r)
        PROVE  TablesOK' /\ RequestsOK'
    <3> DEFINE found == {u \in UserIds : emails[u] = held[r].claim.email}
               user  == IF found = {} THEN 0 ELSE CHOOSE u \in found : TRUE
               h     == [held[r] EXCEPT !.user = user]
    <3>1. granted' = granted /\ Step(r, "searching", "linking", h)
      BY <2>2 DEF ReadUser, Holding
    <3>2. user \in UserIds \cup {0} /\ user \in Nat
      <4>1. user \in UserIds \cup {0}
        BY FoundUser
      <4> HIDE DEF user
      <4> QED
        BY <4>1, TableFacts DEF TypeOK
    <3> HIDE DEF user
    <3>3. held[r] \in Holdings /\ held[r].claim \in Claims
      BY <3>1 DEF Step, TypeOK, RequestsOK, HoldingOK
    <3>4. h \in Holdings /\ h.user = user /\ h.claim \in Claims
      BY <3>2, <3>3 DEF Holdings
    <3> HIDE DEF h
    <3>5. HoldingOK("linking", h)
      BY <3>2, <3>4 DEF HoldingOK
    <3>6. RequestsOK'
      BY <1>1, <3>1, <3>4, <3>5, StepsInOrder DEF TypeOK, States
    <3> QED
      BY <1>1, <3>1, <3>6 DEF TypeOK, TablesOK
  <2>3. ASSUME NEW u \in UserIds, NEW a \in Accounts, NEW scope \in Scopes,
               Consent(r, u, a, scope)
        PROVE  TablesOK' /\ RequestsOK'
    <3> DEFINE row == [subject |-> a, scopes |-> granted[a] \cup {scope}, access |-> a,
                       refresh |-> a, expired |-> FALSE]
               h   == [Nothing EXCEPT !.user = u, !.row = row]
    <3>1. granted' = [granted EXCEPT ![a] = @ \cup {scope}] /\ Step(r, "idle", "connecting", h)
      BY <2>3 DEF Consent
    <3>2. granted \in [Accounts -> SUBSET Scopes]
      BY DEF TypeOK, TablesOK
    <3>3. granted' \in [Accounts -> SUBSET Scopes]
      BY <3>1, <3>2
    <3>4. row \in Rows /\ row.subject = a /\ a # Nobody
      BY <3>2, NamesAssumption DEF Rows, Subjects
    <3> HIDE DEF row
    <3>5. u \in Nat
      BY TableFacts DEF TypeOK
    <3>6. h \in Holdings /\ h.user = u /\ h.row = row
      BY <3>4, <3>5, NothingIsHeld DEF Holdings, Nothing
    <3> HIDE DEF h
    <3>7. HoldingOK("connecting", h)
      BY <3>4, <3>6 DEF HoldingOK
    <3>8. RequestsOK'
      BY <1>1, <3>1, <3>6, <3>7, StepsInOrder DEF TypeOK, States
    <3> QED
      BY <1>1, <3>3, <3>8 DEF TypeOK, TablesOK
  <2>4. ASSUME NEW u \in UserIds, ReadGrant(r, u)
        PROVE  TablesOK' /\ RequestsOK'
    <3> DEFINE row == [rows[u] EXCEPT !.access = rows[u].refresh, !.refresh = Nobody,
                                      !.expired = FALSE]
               h   == [Nothing EXCEPT !.user = u, !.seen = rows[u], !.row = row]
    <3>1. granted' = granted /\ Step(r, "idle", "refreshing", h)
      BY <2>4 DEF ReadGrant
    <3>2. rows[u] \in Rows /\ u \in Nat /\ rows[u].subject # Nobody
      BY TableFacts DEF TypeOK, TablesOK
    <3>3. row \in Rows /\ row.subject # Nobody
      BY <3>2 DEF Rows, Subjects
    <3> HIDE DEF row
    <3>4. h \in Holdings /\ h.user = u /\ h.row = row
      BY <3>2, <3>3, NothingIsHeld DEF Holdings, Nothing
    <3> HIDE DEF h
    <3>5. HoldingOK("refreshing", h)
      BY <3>3, <3>4 DEF HoldingOK
    <3>6. RequestsOK'
      BY <1>1, <3>1, <3>4, <3>5, StepsInOrder DEF TypeOK, States
    <3> QED
      BY <1>1, <3>1, <3>6 DEF TypeOK, TablesOK
  <2>5. ASSUME Abort(r)
        PROVE  TablesOK' /\ RequestsOK'
    <3>1. Ends(r, pc[r]) /\ granted' = granted
      BY <2>5 DEF Abort
    <3>2. pc[r] \in States
      BY DEF TypeOK, RequestsOK
    <3> QED
      BY <1>1, <3>1, <3>2, EndsInOrder DEF TypeOK, TablesOK
  <2> QED
    BY <2>1, <2>2, <2>3, <2>4, <2>5
<1> QED
  BY <1>1, <1>2 DEF TypeOK, HistoryOK, history

----------------------------------------------------------------------------
(* Writes *)

\* A row is put in the place of user u's, and no other row changes.
Puts(u, row) ==
    /\ u \in UserIds
    /\ UserIds' = UserIds
    /\ rows'[u] = row
    /\ \A v \in UserIds \ {u} : rows'[v] = rows[v] /\ rows[v].subject # row.subject

LEMMA UpsertPuts ==
    ASSUME TablesOK, NEW u \in UserIds, NEW row \in Rows, row.subject # Nobody,
           Upsert(u, row), emails' = emails, granted' = granted
    PROVE  TablesOK' /\ Puts(u, Coalesced(u, row))
<1> DEFINE new == Coalesced(u, row)
<1>1. rows' = [rows EXCEPT ![u] = new]
  BY DEF Upsert, Coalesced
<1>2. new \in Rows /\ new.subject # Nobody
  BY CoalescedRow
<1>3. ConstraintAllows(u, new.subject)
  BY CoalescedRow DEF Upsert
<1> HIDE DEF new
<1>4. /\ TablesOK' /\ UserIds' = UserIds /\ rows'[u] = new
      /\ \A v \in UserIds \ {u} : rows'[v] = rows[v] /\ rows[v].subject # new.subject
  BY <1>1, <1>2, <1>3, PutRow
<1> QED
  BY <1>4 DEF Puts, new

LEMMA RelabelPuts ==
    ASSUME TablesOK, NEW u \in UserIds, NEW a \in Accounts, ConstraintAllows(u, a),
           rows' = [rows EXCEPT ![u].subject = a], emails' = emails, granted' = granted
    PROVE  TablesOK' /\ Puts(u, [rows[u] EXCEPT !.subject = a])
<1> DEFINE new == [rows[u] EXCEPT !.subject = a]
<1>1. rows' = [rows EXCEPT ![u] = new]
  OBVIOUS
<1>2. new \in Rows /\ new.subject = a /\ new.subject # Nobody
  BY TableFacts, RowWithSubject, NamesAssumption
<1> HIDE DEF new
<1>3. /\ TablesOK' /\ UserIds' = UserIds /\ rows'[u] = new
      /\ \A v \in UserIds \ {u} : rows'[v] = rows[v] /\ rows[v].subject # new.subject
  BY <1>1, <1>2, PutRow
<1> QED
  BY <1>3 DEF Puts, new

LEMMA LinkPuts ==
    ASSUME TypeOK, NEW r \in Requests, LinkIdentity(r)
    PROVE  /\ held[r].user \in UserIds /\ held[r].claim.subject \in Accounts
           /\ TablesOK'
           /\ Puts(held[r].user, [rows[held[r].user] EXCEPT !.subject = held[r].claim.subject])
<1>1. pc[r] = "linking" /\ held[r].user # 0
  BY DEF LinkIdentity, Ends, Step
<1>2. held[r].user \in UserIds \cup {0} /\ held[r].claim \in Claims
  BY <1>1 DEF TypeOK, RequestsOK, HoldingOK
<1>3. held[r].user \in UserIds /\ held[r].claim.subject \in Accounts
  BY <1>1, <1>2, ClaimsAssumption
<1>4. /\ rows' = [rows EXCEPT ![held[r].user].subject = held[r].claim.subject]
      /\ emails' = emails /\ granted' = granted
      /\ ConstraintAllows(held[r].user, held[r].claim.subject)
  BY DEF LinkIdentity
<1> QED
  BY <1>3, <1>4, RelabelPuts DEF TypeOK

\* What a request stores in the end, of a grant or of a refreshed token.
LEMMA StorePuts ==
    ASSUME TypeOK, NEW r \in Requests, StoreGrant(r) \/ StoreToken(r)
    PROVE  /\ held[r].user \in UserIds /\ held[r].row \in Rows
           /\ TablesOK'
           /\ Puts(held[r].user, Coalesced(held[r].user, held[r].row))
<1>1. pc[r] \in {"connecting", "refreshing"}
  BY DEF StoreGrant, StoreToken, Ends, Step
<1>2. /\ held[r].user \in UserIds /\ held[r].row.subject # Nobody
      /\ held[r].row \in Rows
  BY <1>1 DEF TypeOK, RequestsOK, HoldingOK, Holdings
<1>3. Upsert(held[r].user, held[r].row) /\ emails' = emails /\ granted' = granted
  BY DEF StoreGrant, StoreToken
<1> QED
  BY <1>2, <1>3, UpsertPuts DEF TypeOK

LEMMA ExpirePuts ==
    ASSUME TypeOK, NEW u \in UserIds, Expire(u)
    PROVE  TablesOK' /\ Puts(u, [rows[u] EXCEPT !.expired = TRUE])
<1>1. rows[u] \in Rows
  BY TableFacts DEF TypeOK
<1>2. /\ [rows[u] EXCEPT !.expired = TRUE] \in Rows
      /\ [rows[u] EXCEPT !.expired = TRUE].subject = rows[u].subject
  BY <1>1, RowExpired
<1>3. rows[u].subject # Nobody /\ ConstraintAllows(u, rows[u].subject)
  BY DEF TypeOK, TablesOK, ConstraintAllows, RowsOf
<1>4. /\ rows' = [rows EXCEPT ![u] = [rows[u] EXCEPT !.expired = TRUE]]
      /\ emails' = emails /\ granted' = granted
  BY DEF Expire
<1> QED
  BY <1>2, <1>3, <1>4, PutRow DEF Puts, TypeOK

\* Only accounts are displaced.
LEMMA DisplacedAccounts ==
    ASSUME TypeOK, NEW u \in UserIds, NEW a, Displaces(u, a)
    PROVE  displaced' \subseteq Accounts
<1>1. rows[u].subject \in Accounts
  BY TableFacts DEF TypeOK, TablesOK, Rows, Subjects
<1> QED
  BY <1>1 DEF Displaces, TypeOK, HistoryOK

\* Writing keeps the types.
LEMMA WritesInOrder ==
    ASSUME TypeOK, NEW r \in Requests,
           CreateUser(r) \/ LinkIdentity(r) \/ StoreGrant(r) \/ StoreToken(r)
    PROVE  TypeOK'
<1>1. CASE CreateUser(r)
  <2>1. /\ TablesOK' /\ UserIds' = UserIds \cup {Len(rows) + 1}
        /\ held[r].claim.subject \in Accounts
    BY <1>1, AddUser DEF TypeOK
  <2>2. RequestsOK'
    <3>1. Ends(r, "linking") /\ "linking" \in States
      BY <1>1 DEF CreateUser, States
    <3> QED
      BY <2>1, <3>1, EndsInOrder DEF TypeOK
  <2>3. HistoryOK'
    <3>1. Len(emails) + 1 \in UserIds'
      BY <2>1 DEF TypeOK, TablesOK
    <3>2. signedIn' = [signedIn EXCEPT ![held[r].claim.subject] = Len(emails) + 1]
      BY <1>1 DEF CreateUser, SignsIn
    <3>3. displaced' = displaced /\ stale' = stale
      BY <1>1 DEF CreateUser
    <3> QED
      BY <2>1, <3>1, <3>2, <3>3 DEF TypeOK, HistoryOK
  <2> QED
    BY <2>1, <2>2, <2>3 DEF TypeOK
<1>2. CASE LinkIdentity(r)
  <2>1. /\ TablesOK' /\ UserIds' = UserIds
        /\ held[r].user \in UserIds /\ held[r].claim.subject \in Accounts
    BY <1>2, LinkPuts DEF Puts
  <2>2. RequestsOK'
    <3>1. Ends(r, "linking") /\ "linking" \in States
      BY <1>2 DEF LinkIdentity, States
    <3> QED
      BY <2>1, <3>1, EndsInOrder DEF TypeOK
  <2>3. HistoryOK'
    <3>1. signedIn' = [signedIn EXCEPT ![held[r].claim.subject] = held[r].user]
      BY <1>2 DEF LinkIdentity, SignsIn
    <3>2. displaced' \subseteq Accounts
      BY <1>2, <2>1, DisplacedAccounts DEF LinkIdentity
    <3>3. stale' = stale
      BY <1>2 DEF LinkIdentity
    <3> QED
      BY <2>1, <3>1, <3>2, <3>3 DEF TypeOK, HistoryOK
  <2> QED
    BY <2>1, <2>2, <2>3 DEF TypeOK
<1>3. CASE StoreGrant(r) \/ StoreToken(r)
  <2>1. TablesOK' /\ UserIds' = UserIds /\ held[r].user \in UserIds
    BY <1>3, StorePuts DEF Puts
  <2>2. RequestsOK'
    <3>1. \E from \in States : Ends(r, from)
      BY <1>3 DEF StoreGrant, StoreToken, States
    <3> QED
      BY <2>1, <3>1, EndsInOrder DEF TypeOK
  <2>3. HistoryOK'
    <3>1. displaced' \subseteq Accounts
      BY <1>3, <2>1, DisplacedAccounts DEF StoreGrant, StoreToken, Upsert
    <3>2. signedIn' = signedIn /\ stale' \subseteq stale \cup {held[r].user}
      BY <1>3 DEF StoreGrant, StoreToken
    <3> QED
      BY <2>1, <3>1, <3>2 DEF TypeOK, HistoryOK
  <2> QED
    BY <2>1, <2>2, <2>3 DEF TypeOK
<1> QED
  BY <1>1, <1>2, <1>3

\* Time keeps the types.
LEMMA ExpiryInOrder ==
    ASSUME TypeOK, NEW u \in UserIds, Expire(u)
    PROVE  TypeOK'
<1>1. TablesOK' /\ UserIds' = UserIds
  BY ExpirePuts DEF Puts
<1>2. UNCHANGED requestVars /\ UNCHANGED history
  BY DEF Expire
<1> QED
  BY <1>1, <1>2 DEF TypeOK, RequestsOK, HoldingOK, HistoryOK, requestVars, history

----------------------------------------------------------------------------
(* The types *)

\* A request reads or writes.
Reads(r) ==
    \/ \E claim \in Claims : ReadAccount(r, claim)
    \/ ReadUser(r)
    \/ \E u \in UserIds, a \in Accounts, scope \in Scopes : Consent(r, u, a, scope)
    \/ \E u \in UserIds : ReadGrant(r, u)
    \/ Abort(r)

Writes(r) == CreateUser(r) \/ LinkIdentity(r) \/ StoreGrant(r) \/ StoreToken(r)

LEMMA Steps ==
    ASSUME Next
    PROVE  \/ \E r \in Requests : Reads(r) \/ Writes(r)
           \/ \E u \in UserIds : Expire(u)
BY DEF Next, Reads, Writes

LEMMA StartsInOrder == Init => TypeOK
<1> SUFFICES ASSUME Init PROVE TypeOK
  OBVIOUS
<1>1. UserIds = {}
  BY DEF Init, UserIds
<1>2. TablesOK
  BY <1>1 DEF Init, TablesOK
<1>3. RequestsOK
  BY NothingIsHeld DEF Init, RequestsOK, HoldingOK, States
<1>4. HistoryOK
  BY DEF Init, HistoryOK
<1> QED
  BY <1>2, <1>3, <1>4 DEF TypeOK

\* The tables, the requests and the history have their types, and no two users have a
\* verified email or a Google account in common, however first sign-ins overlap (the
\* unique constraints of 0001_init.sql, login_from_identity).
THEOREM TypeCorrect == Spec => []TypeOK
<1>1. TypeOK /\ [Next]_vars => TypeOK'
  <2> SUFFICES ASSUME TypeOK, [Next]_vars PROVE TypeOK'
    OBVIOUS
  <2>1. ASSUME NEW r \in Requests, Reads(r)
        PROVE  TypeOK'
    BY <2>1, ReadsInOrder DEF Reads
  <2>2. ASSUME NEW r \in Requests, Writes(r)
        PROVE  TypeOK'
    BY <2>2, WritesInOrder DEF Writes
  <2>3. ASSUME NEW u \in UserIds, Expire(u)
        PROVE  TypeOK'
    BY <2>3, ExpiryInOrder
  <2>4. CASE UNCHANGED vars
    BY <2>4 DEF vars, requestVars, history, TypeOK, TablesOK, RequestsOK, HoldingOK,
                HistoryOK, UserIds
  <2> QED
    BY <2>1, <2>2, <2>3, <2>4, Steps
<1> QED
  BY <1>1, StartsInOrder, PTL DEF Spec

----------------------------------------------------------------------------
(* Identities *)

\* An identity that was not displaced has the row of the user it signed in as.
IdentityInv ==
    \A a \in Accounts \ displaced : signedIn[a] # 0 => rows[signedIn[a]].subject = a

\* A row is put that may displace the account it had, and the account it gets may sign in.
LEMMA PutKeepsIdentities ==
    ASSUME TypeOK, IdentityInv, NEW u, NEW row, Puts(u, row), Displaces(u, row.subject),
           \A a \in Accounts : \/ signedIn'[a] = signedIn[a]
                               \/ a = row.subject /\ signedIn'[a] = u
    PROVE  /\ IdentityInv'
           /\ \A a \in Accounts \ displaced : signedIn[a] # 0 => signedIn'[a] = signedIn[a]
<1>1. displaced' = IF rows[u].subject = row.subject THEN displaced
                                                  ELSE displaced \cup {rows[u].subject}
  BY DEF Displaces
<1>2. ASSUME NEW a \in Accounts \ displaced', signedIn'[a] # 0
      PROVE  rows'[signedIn'[a]].subject = a
  <2>1. CASE signedIn'[a] = signedIn[a]
    <3>1. a \notin displaced /\ signedIn[a] \in UserIds
      BY <1>1, <1>2, <2>1 DEF TypeOK, HistoryOK
    <3>2. rows[signedIn[a]].subject = a
      BY <1>2, <2>1, <3>1 DEF IdentityInv
    <3>3. CASE signedIn[a] = u
      BY <1>1, <1>2, <2>1, <3>2, <3>3 DEF Puts
    <3>4. CASE signedIn[a] # u
      BY <2>1, <3>1, <3>2, <3>4 DEF Puts
    <3> QED
      BY <3>3, <3>4
  <2>2. CASE a = row.subject /\ signedIn'[a] = u
    BY <2>2 DEF Puts
  <2> QED
    BY <1>2, <2>1, <2>2
<1>3. ASSUME NEW a \in Accounts \ displaced, signedIn[a] # 0
      PROVE  signedIn'[a] = signedIn[a]
  <2>1. signedIn[a] \in UserIds /\ rows[signedIn[a]].subject = a
    BY <1>3 DEF TypeOK, HistoryOK, IdentityInv
  <2>2. CASE a = row.subject
    <3>1. signedIn[a] = u
      BY <2>1, <2>2 DEF Puts
    <3> QED
      BY <2>2, <3>1
  <2>3. CASE a # row.subject
    BY <2>3
  <2> QED
    BY <2>2, <2>3
<1> QED
  BY <1>2, <1>3 DEF IdentityInv

\* A step keeps who has signed in as whom.
KeepsIdentities ==
    /\ IdentityInv'
    /\ \A a \in Accounts \ displaced : signedIn[a] # 0 => signedIn'[a] = signedIn[a]

LEMMA WritesKeepIdentities ==
    ASSUME TypeOK, IdentityInv, NEW r \in Requests, Writes(r)
    PROVE  KeepsIdentities
<1>1. CASE CreateUser(r)
  <2> DEFINE a == held[r].claim.subject
             n == Len(rows) + 1
  <2>1. /\ \A u \in UserIds : rows'[u] = rows[u]
        /\ rows'[n] = [NoRow EXCEPT !.subject = a]
        /\ a \in Accounts /\ RowsOf(a) = {}
    BY <1>1, AddUser DEF TypeOK
  <2>2. signedIn' = [signedIn EXCEPT ![a] = n] /\ displaced' = displaced
    BY <1>1 DEF CreateUser, SignsIn, TypeOK, TablesOK
  <2>3. rows'[n].subject = a
    BY <2>1 DEF NoRow
  <2> HIDE DEF a, n
  <2>4. a \notin displaced => signedIn[a] = 0
    BY <2>1 DEF IdentityInv, RowsOf, TypeOK, HistoryOK
  <2>5. ASSUME NEW b \in Accounts \ displaced
        PROVE  /\ signedIn'[b] # 0 => rows'[signedIn'[b]].subject = b
               /\ signedIn[b] # 0 => signedIn'[b] = signedIn[b]
    <3>1. CASE b = a
      BY <2>1, <2>2, <2>3, <2>4, <2>5, <3>1 DEF TypeOK, HistoryOK
    <3>2. CASE b # a
      BY <2>1, <2>2, <2>5, <3>2 DEF TypeOK, HistoryOK, IdentityInv
    <3> QED
      BY <3>1, <3>2
  <2> QED
    BY <2>2, <2>5 DEF KeepsIdentities, IdentityInv
<1>2. CASE LinkIdentity(r)
  <2> DEFINE u == held[r].user
             a == held[r].claim.subject
             row == [rows[u] EXCEPT !.subject = a]
  <2>1. u \in UserIds /\ a \in Accounts /\ Puts(u, row)
    BY <1>2, LinkPuts
  <2>2. Displaces(u, a) /\ signedIn' = [signedIn EXCEPT ![a] = u]
    BY <1>2 DEF LinkIdentity, SignsIn
  <2>3. row.subject = a
    BY <2>1, TableFacts, RowWithSubject DEF TypeOK
  <2> HIDE DEF u, a, row
  <2>4. \A b \in Accounts : \/ signedIn'[b] = signedIn[b]
                            \/ b = row.subject /\ signedIn'[b] = u
    BY <2>2, <2>3 DEF TypeOK, HistoryOK
  <2>5. Displaces(u, row.subject)
    BY <2>2, <2>3
  <2> QED
    BY <2>1, <2>4, <2>5, PutKeepsIdentities DEF KeepsIdentities
<1>3. CASE StoreGrant(r) \/ StoreToken(r)
  <2> DEFINE u == held[r].user
             row == Coalesced(u, held[r].row)
  <2>1. u \in UserIds /\ Puts(u, row) /\ row.subject = held[r].row.subject
    BY <1>3, StorePuts, CoalescedRow DEF TypeOK
  <2>2. Displaces(u, held[r].row.subject) /\ signedIn' = signedIn
    BY <1>3 DEF StoreGrant, StoreToken, Upsert
  <2> HIDE DEF u, row
  <2>3. Displaces(u, row.subject)
    BY <2>1, <2>2
  <2> QED
    BY <2>1, <2>2, <2>3, PutKeepsIdentities DEF KeepsIdentities
<1> QED
  BY <1>1, <1>2, <1>3 DEF Writes

LEMMA StepsKeepIdentities ==
    ASSUME TypeOK, IdentityInv, Next
    PROVE  KeepsIdentities
<1>1. ASSUME NEW r \in Requests, Reads(r)
      PROVE  KeepsIdentities
  <2>1. rows' = rows /\ UNCHANGED history
    BY <1>1 DEF Reads, ReadAccount, ReadUser, Consent, ReadGrant, Abort, tables
  <2> QED
    BY <2>1 DEF KeepsIdentities, IdentityInv, history
<1>2. ASSUME NEW u \in UserIds, Expire(u)
      PROVE  KeepsIdentities
  <2> DEFINE row == [rows[u] EXCEPT !.expired = TRUE]
  <2>1. Puts(u, row)
    BY <1>2, ExpirePuts
  <2>2. row.subject = rows[u].subject
    BY TableFacts, RowExpired DEF TypeOK
  <2>3. signedIn' = signedIn /\ displaced' = displaced
    BY <1>2 DEF Expire, history
  <2> HIDE DEF row
  <2>4. Displaces(u, row.subject)
    BY <2>2, <2>3 DEF Displaces
  <2> QED
    BY <2>1, <2>3, <2>4, PutKeepsIdentities DEF KeepsIdentities
<1> QED
  BY <1>1, <1>2, WritesKeepIdentities, Steps

\* An identity that was not displaced is the same user at every sign-in, in whatever
\* order first sign-ins, linking by email and connections overlap (login_from_identity,
\* upsert_identity_account).
THEOREM SameUserAgain == Spec => SignedInAsBefore
<1>1. Init => IdentityInv
  BY DEF Init, IdentityInv
<1>2. TypeOK /\ IdentityInv /\ [Next]_vars => IdentityInv'
  <2>1. CASE UNCHANGED vars
    BY <2>1 DEF vars, history, IdentityInv
  <2> QED
    BY <2>1, StepsKeepIdentities DEF KeepsIdentities
<1>3. TypeOK /\ IdentityInv /\ [Next]_vars =>
        [\A a \in Accounts \ displaced :
           signedIn[a] # 0 => signedIn'[a] = signedIn[a]]_vars
  BY StepsKeepIdentities DEF KeepsIdentities
<1> QED
  BY <1>1, <1>2, <1>3, TypeCorrect, PTL DEF Spec, SignedInAsBefore

----------------------------------------------------------------------------
(* Grants *)

\* The tokens of a row are for one account, which has granted its scopes.
Sound(row) ==
    /\ row.access = row.refresh
    /\ row.access # Nobody => row.scopes \subseteq granted[row.access]

\* What a request stores: a grant with both tokens, or of the row it read the scopes and
\* the account of the refresh token.
Carries(state, h) ==
    /\ state = "connecting" => Sound(h.row) /\ h.row.access # Nobody
    /\ state = "refreshing" => /\ h.row.access = h.seen.refresh /\ h.row.refresh = Nobody
                               /\ h.row.scopes = h.seen.scopes

GrantsInv ==
    /\ \A u \in UserIds \ stale : Sound(rows[u])
    /\ \A r \in Requests : Carries(pc[r], held[r])

\* What Google has granted only grows.
GrantsGrow == \A a \in Accounts : granted[a] \subseteq granted'[a]

LEMMA GrowsOrStays ==
    ASSUME TypeOK, Next
    PROVE  GrantsGrow
<1>1. CASE granted' = granted
  BY <1>1 DEF GrantsGrow
<1>2. ASSUME NEW r \in Requests, NEW u \in UserIds, NEW a \in Accounts, NEW scope \in Scopes,
             Consent(r, u, a, scope)
      PROVE  GrantsGrow
  BY <1>2 DEF Consent, GrantsGrow, TypeOK, TablesOK
<1> QED
  BY <1>1, <1>2 DEF Next, ReadAccount, ReadUser, CreateUser, LinkIdentity, StoreGrant,
                    ReadGrant, StoreToken, Abort, Expire

\* The requests carry what they did, but for the one that steps.
LEMMA StepCarries ==
    ASSUME TypeOK, GrantsInv, GrantsGrow, NEW r \in Requests, NEW from, NEW to, NEW h,
           Step(r, from, to, h), Carries(to, h)'
    PROVE  \A q \in Requests : Carries(pc[q], held[q])'
<1>1. pc'[r] = to /\ held'[r] = h
  BY DEF Step, TypeOK, RequestsOK
<1>2. ASSUME NEW q \in Requests
      PROVE  Carries(pc[q], held[q])'
  <2>1. CASE q = r
    BY <1>1, <2>1 DEF Carries, Sound
  <2>2. CASE q # r
    <3>1. pc'[q] = pc[q] /\ held'[q] = held[q]
      BY <2>2 DEF Step, TypeOK, RequestsOK
    <3>2. Carries(pc[q], held[q])
      BY DEF GrantsInv
    <3>3. held[q].row \in Rows
      BY DEF TypeOK, RequestsOK, Holdings
    <3>4. pc[q] = "connecting" => Sound(held[q].row)'
      BY <3>1, <3>2, <3>3 DEF Carries, Sound, GrantsGrow, Rows, Subjects
    <3> QED
      BY <3>1, <3>2, <3>4 DEF Carries, Sound
  <2> QED
    BY <2>1, <2>2
<1> QED
  BY <1>2

LEMMA EndCarries ==
    ASSUME TypeOK, GrantsInv, GrantsGrow, NEW r \in Requests, NEW from, Ends(r, from)
    PROVE  \A q \in Requests : Carries(pc[q], held[q])'
<1>1. Step(r, from, "idle", Nothing) /\ Carries("idle", Nothing)'
  BY DEF Ends, Carries
<1> QED
  BY <1>1, StepCarries

\* A row is put that is sound, unless it is that of an older version.
LEMMA PutStaysSound ==
    ASSUME TypeOK, GrantsInv, GrantsGrow, NEW u, NEW row, Puts(u, row),
           u \notin stale' => Sound(row)', stale \subseteq stale' \cup {u}
    PROVE  (\A v \in UserIds \ stale : Sound(rows[v]))'
<1>1. UserIds' = UserIds /\ rows'[u] = row
  BY DEF Puts
<1>2. ASSUME NEW v \in UserIds, v \notin stale'
      PROVE  Sound(rows[v])'
  <2>1. CASE v = u
    BY <1>1, <1>2, <2>1 DEF Sound
  <2>2. CASE v # u
    <3>1. rows'[v] = rows[v] /\ rows[v] \in Rows
      BY <2>2, TableFacts DEF Puts, TypeOK
    <3>2. Sound(rows[v])
      BY <1>2, <2>2 DEF GrantsInv
    <3>3. GrantsGrow
      OBVIOUS
    <3> QED
      BY <3>1, <3>2, <3>3 DEF Sound, GrantsGrow, Rows, Subjects
  <2> QED
    BY <2>1, <2>2
<1> QED
  BY <1>1, <1>2

\* Writes of users that are new, or of identities, leave the tokens alone.
LEMMA SignInsStaySound ==
    ASSUME TypeOK, GrantsInv, NEW r \in Requests, CreateUser(r) \/ LinkIdentity(r)
    PROVE  GrantsInv'
<1>1. granted' = granted /\ stale' = stale /\ Ends(r, "linking")
  BY DEF CreateUser, LinkIdentity
<1>2. GrantsGrow
  BY <1>1 DEF GrantsGrow
<1>3. \A q \in Requests : Carries(pc[q], held[q])'
  BY <1>1, <1>2, EndCarries
<1>4. CASE CreateUser(r)
  <2>1. /\ UserIds' = UserIds \cup {Len(rows) + 1}
        /\ \A u \in UserIds : rows'[u] = rows[u]
        /\ rows'[Len(rows) + 1] = [NoRow EXCEPT !.subject = held[r].claim.subject]
    BY <1>4, AddUser DEF TypeOK
  <2>2. /\ rows'[Len(rows) + 1].access = Nobody
        /\ rows'[Len(rows) + 1].refresh = Nobody
    BY <2>1 DEF NoRow
  <2>3. \A u \in UserIds \ stale : Sound(rows[u])
    BY DEF GrantsInv
  <2> QED
    BY <1>1, <1>3, <2>1, <2>2, <2>3 DEF GrantsInv, Sound
<1>5. CASE LinkIdentity(r)
  <2>1. PICK u \in UserIds : u = held[r].user
    BY <1>5, LinkPuts
  <2>2. PICK row : row = [rows[u] EXCEPT !.subject = held[r].claim.subject]
    OBVIOUS
  <2>3. Puts(u, row)
    BY <1>5, <2>1, <2>2, LinkPuts
  <2>4. /\ row.access = rows[u].access /\ row.refresh = rows[u].refresh
        /\ row.scopes = rows[u].scopes
    <3>1. rows[u] \in Rows /\ held[r].claim.subject \in Accounts
      BY <1>5, TableFacts, LinkPuts DEF TypeOK
    <3> QED
      BY <2>2, <3>1, RowWithSubject
  <2>5. u \notin stale' => Sound(row)'
    BY <1>1, <2>4 DEF GrantsInv, Sound
  <2>6. (\A v \in UserIds \ stale : Sound(rows[v]))'
    BY <1>1, <1>2, <2>3, <2>5, PutStaysSound
  <2> QED
    BY <1>3, <2>6 DEF GrantsInv
<1> QED
  BY <1>4, <1>5

\* A row that was not written since it was read has the scopes and tokens that were read.
LEMMA SameButForExpiry ==
    ASSUME NEW row \in Rows, NEW seen \in Rows,
           [row EXCEPT !.expired = FALSE] = [seen EXCEPT !.expired = FALSE]
    PROVE  row.refresh = seen.refresh /\ row.scopes = seen.scopes
<1>1. /\ [row EXCEPT !.expired = FALSE].refresh = row.refresh
      /\ [row EXCEPT !.expired = FALSE].scopes = row.scopes
  BY RowExpired
<1>2. /\ [seen EXCEPT !.expired = FALSE].refresh = seen.refresh
      /\ [seen EXCEPT !.expired = FALSE].scopes = seen.scopes
  BY RowExpired
<1> QED
  BY <1>1, <1>2

LEMMA StoresStaySound ==
    ASSUME TypeOK, GrantsInv, NEW r \in Requests, StoreGrant(r) \/ StoreToken(r)
    PROVE  GrantsInv'
<1>1. PICK u \in UserIds : u = held[r].user
  BY StorePuts
<1>2. PICK row : row = Coalesced(u, held[r].row)
  OBVIOUS
<1>3. Puts(u, row)
  BY <1>1, <1>2, StorePuts
<1>4. /\ row.access = held[r].row.access /\ row.scopes = held[r].row.scopes
      /\ row.refresh = IF held[r].row.refresh # Nobody THEN held[r].row.refresh
                                                       ELSE rows[u].refresh
  BY <1>2, StorePuts, CoalescedRow DEF TypeOK
<1>5. granted' = granted /\ \E from \in States : Ends(r, from)
  BY DEF StoreGrant, StoreToken, States
<1>6. GrantsGrow
  BY <1>5 DEF GrantsGrow
<1>7. \A q \in Requests : Carries(pc[q], held[q])'
  BY <1>5, <1>6, EndCarries
<1>8. stale \subseteq stale' \cup {u}
  BY <1>1 DEF StoreGrant, StoreToken
<1>9. Carries(pc[r], held[r])
  BY DEF GrantsInv
<1>10. ASSUME StoreGrant(r)
       PROVE  Sound(row)'
  <2>1. Sound(held[r].row) /\ held[r].row.access # Nobody
    BY <1>9, <1>10 DEF StoreGrant, Ends, Step, Carries
  <2> QED
    BY <1>4, <1>5, <2>1 DEF Sound
<1>11. ASSUME StoreToken(r), u \notin stale'
       PROVE  Sound(row)'
  <2>1. /\ held[r].row.access = held[r].seen.refresh /\ held[r].row.refresh = Nobody
        /\ held[r].row.scopes = held[r].seen.scopes
    BY <1>9, <1>11 DEF StoreToken, Ends, Step, Carries
  <2>2. u \notin stale /\ Unchanged(u, held[r].seen)
    BY <1>1, <1>11 DEF StoreToken
  <2>3. rows[u] \in Rows /\ held[r].seen \in Rows
    BY TableFacts DEF TypeOK, RequestsOK, Holdings
  <2>4. rows[u].refresh = held[r].seen.refresh /\ rows[u].scopes = held[r].seen.scopes
    BY <2>2, <2>3, SameButForExpiry DEF Unchanged
  <2>5. Sound(rows[u])
    BY <2>2 DEF GrantsInv
  <2> QED
    BY <1>4, <1>5, <2>1, <2>4, <2>5 DEF Sound
<1>12. u \notin stale' => Sound(row)'
  BY <1>10, <1>11
<1>13. (\A v \in UserIds \ stale : Sound(rows[v]))'
  BY <1>3, <1>6, <1>8, <1>12, PutStaysSound
<1> QED
  BY <1>7, <1>13 DEF GrantsInv

\* A consent carries the token it was given, and a refresh what it has read.
LEMMA ReadsStaySound ==
    ASSUME TypeOK, GrantsInv, NEW r \in Requests, Reads(r)
    PROVE  GrantsInv'
<1>1. rows' = rows /\ stale' = stale /\ UserIds' = UserIds /\ GrantsGrow
  BY GrowsOrStays DEF Reads, ReadAccount, ReadUser, Consent, ReadGrant, Abort, tables,
                      history, UserIds, Next
<1>2. (\A u \in UserIds \ stale : Sound(rows[u]))'
  <2>1. ASSUME NEW u \in UserIds \ stale
        PROVE  Sound(rows[u])'
    <3>1. rows[u] \in Rows /\ Sound(rows[u])
      BY TableFacts DEF TypeOK, GrantsInv
    <3> QED
      BY <1>1, <3>1 DEF Sound, GrantsGrow, Rows, Subjects
  <2> QED
    BY <1>1, <2>1
<1>3. ASSUME NEW claim \in Claims, ReadAccount(r, claim)
      PROVE  GrantsInv'
  <2>1. PICK to \in {"searching", "linking"} : \E h : Step(r, "idle", to, h)
    BY <1>3 DEF ReadAccount
  <2>2. PICK h : Step(r, "idle", to, h)
    BY <2>1
  <2>3. Carries(to, h)'
    BY DEF Carries
  <2> QED
    BY <1>1, <1>2, <2>2, <2>3, StepCarries DEF GrantsInv
<1>4. CASE ReadUser(r)
  <2>1. PICK h : Step(r, "searching", "linking", h)
    BY <1>4 DEF ReadUser
  <2>2. Carries("linking", h)'
    BY DEF Carries
  <2> QED
    BY <1>1, <1>2, <2>1, <2>2, StepCarries DEF GrantsInv
<1>5. ASSUME NEW u \in UserIds, NEW a \in Accounts, NEW scope \in Scopes,
             Consent(r, u, a, scope)
      PROVE  GrantsInv'
  <2>1. PICK row : row = [subject |-> a, scopes |-> granted[a] \cup {scope}, access |-> a,
                          refresh |-> a, expired |-> FALSE]
    OBVIOUS
  <2>2. PICK h : h = [Nothing EXCEPT !.user = u, !.row = row]
    OBVIOUS
  <2>3. Step(r, "idle", "connecting", h) /\ granted' = [granted EXCEPT ![a] = @ \cup {scope}]
    BY <1>5, <2>1, <2>2 DEF Consent
  <2>4. h.row = row
    BY <2>2 DEF Nothing
  <2>5. Sound(row)' /\ row.access # Nobody
    BY <2>1, <2>3, NamesAssumption DEF Sound, TypeOK, TablesOK
  <2>6. Carries("connecting", h)'
    BY <2>4, <2>5 DEF Carries
  <2> QED
    BY <1>1, <1>2, <2>3, <2>6, StepCarries DEF GrantsInv
<1>6. ASSUME NEW u \in UserIds, ReadGrant(r, u)
      PROVE  GrantsInv'
  <2>1. PICK row : row = [rows[u] EXCEPT !.access = rows[u].refresh, !.refresh = Nobody,
                                         !.expired = FALSE]
    OBVIOUS
  <2>2. PICK h : h = [Nothing EXCEPT !.user = u, !.seen = rows[u], !.row = row]
    OBVIOUS
  <2>3. Step(r, "idle", "refreshing", h)
    BY <1>6, <2>1, <2>2 DEF ReadGrant
  <2>4. h.row = row /\ h.seen = rows[u]
    BY <2>2 DEF Nothing
  <2>5. row.access = rows[u].refresh /\ row.refresh = Nobody /\ row.scopes = rows[u].scopes
    BY <2>1, TableFacts DEF TypeOK, Rows
  <2>6. Carries("refreshing", h)'
    BY <2>4, <2>5 DEF Carries
  <2> QED
    BY <1>1, <1>2, <2>3, <2>6, StepCarries DEF GrantsInv
<1>7. CASE Abort(r)
  BY <1>1, <1>2, <1>7, EndCarries DEF Abort, GrantsInv
<1> QED
  BY <1>3, <1>4, <1>5, <1>6, <1>7 DEF Reads

LEMMA ExpiryStaysSound ==
    ASSUME TypeOK, GrantsInv, NEW u \in UserIds, Expire(u)
    PROVE  GrantsInv'
<1>1. PICK row : row = [rows[u] EXCEPT !.expired = TRUE]
  OBVIOUS
<1>2. Puts(u, row)
  BY <1>1, ExpirePuts
<1>3. row.access = rows[u].access /\ row.refresh = rows[u].refresh /\ row.scopes = rows[u].scopes
  BY <1>1, TableFacts, RowExpired DEF TypeOK
<1>4. granted' = granted /\ stale' = stale /\ pc' = pc /\ held' = held
  BY DEF Expire, requestVars, history
<1>5. GrantsGrow
  BY <1>4 DEF GrantsGrow
<1>6. u \notin stale' => Sound(row)'
  BY <1>3, <1>4 DEF GrantsInv, Sound
<1>7. (\A v \in UserIds \ stale : Sound(rows[v]))'
  BY <1>2, <1>4, <1>5, <1>6, PutStaysSound
<1> QED
  BY <1>4, <1>7 DEF GrantsInv, Carries, Sound

\* The tokens of a row are for one account, and that account has granted the scopes whose
\* tools a session offers, unless a refresh has written an older row back
\* (upsert_provider_account, google_callback, google_access_token).
THEOREM GrantsAreSound == Spec => [](TokensMatch /\ ScopesCovered)
<1>1. Init => GrantsInv
  BY DEF Init, GrantsInv, UserIds, Carries
<1>2. TypeOK /\ GrantsInv /\ [Next]_vars => GrantsInv'
  <2> SUFFICES ASSUME TypeOK, GrantsInv, [Next]_vars PROVE GrantsInv'
    OBVIOUS
  <2>1. ASSUME NEW r \in Requests, Reads(r) \/ Writes(r)
        PROVE  GrantsInv'
    BY <2>1, ReadsStaySound, SignInsStaySound, StoresStaySound DEF Writes
  <2>2. ASSUME NEW u \in UserIds, Expire(u)
        PROVE  GrantsInv'
    BY <2>2, ExpiryStaysSound
  <2>3. CASE UNCHANGED vars
    BY <2>3 DEF vars, requestVars, history, GrantsInv, Carries, Sound, UserIds
  <2> QED
    BY <2>1, <2>2, <2>3, Steps
<1>3. GrantsInv => TokensMatch /\ ScopesCovered
  BY DEF GrantsInv, Sound, TokensMatch, ScopesCovered
<1> QED
  BY <1>1, <1>2, <1>3, TypeCorrect, PTL DEF Spec

\* The scopes of a row are ones that the account of its tokens has granted, unless a refresh
\* has written an older row back (google_access_token, upsert_provider_account).
THEOREM ScopesAreCovered == Spec => []ScopesCovered
BY GrantsAreSound, PTL
=============================================================================
