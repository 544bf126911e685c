----------------------- MODULE RefreshTokens_proofs -----------------------
(***************************************************************************)
(* Theorems about RefreshTokens, for any number of calls and of tokens,    *)
(* and about AccessTokens, for any times to live as well.                  *)
(*                                                                         *)
(*   TypeCorrect        the rows form a forest of families                 *)
(*   OnlyLatestIsLive   a rotated token is never valid again               *)
(*   OneIsLive          a family has one valid token, unless it was forked *)
(*   DeathIsFinal       a revoked family stays revoked                     *)
(*   SessionsEndInTime  a family that is over starts no session once its   *)
(*                      access tokens have had time to expire              *)
(*   AccessRefines      AccessTokens implements RefreshTokens              *)
(*   SoundWithAccess    and so has what is proved of it                    *)
(***************************************************************************)
EXTENDS AccessTokens, SequenceTheorems, TLAPS

----------------------------------------------------------------------------
(* What a step does to the table *)

\* An issued row comes last, and the rows before it keep their place, their family and
\* their parent; at most their revoked flag is set.
Keeps(t) ==
    /\ t \in Tokens'
    /\ tokens'[t].family = tokens[t].family
    /\ tokens'[t].parent = tokens[t].parent
    /\ tokens[t].revoked => tokens'[t].revoked

Issues(family, parent) ==
    /\ Len(tokens') = Len(tokens) + 1
    /\ tokens' \in Seq(Rows)
    /\ tokens'[Len(tokens) + 1] = Row(family, parent)
    /\ Tokens' = Tokens \cup {Len(tokens) + 1}

\* The rows of the table.
LEMMA TableRows ==
    ASSUME TypeOK
    PROVE  /\ Len(tokens) \in Nat
           /\ Tokens = 1..Len(tokens)
           /\ Len(tokens) + 1 \notin Tokens
           /\ \A t \in Tokens : tokens[t] \in Rows /\ t \in Nat \ {0}
BY DEF TypeOK, Tokens

\* A login appends the first row of a new family.
LEMMA LoginIssues ==
    ASSUME TypeOK, NEW c \in Calls, Login(c)
    PROVE  /\ Issues(Len(tokens) + 1, 0)
           /\ \A t \in Tokens : Keeps(t) /\ tokens'[t] = tokens[t]
<1> DEFINE row == Row(Len(tokens) + 1, 0)
<1>1. row \in Rows
  BY TableRows DEF Row, Rows
<1>2. tokens \in Seq(Rows) /\ tokens' = Append(tokens, row)
  BY DEF TypeOK, Login
<1> HIDE DEF row
<1>3. /\ tokens' \in Seq(Rows) /\ Len(tokens') = Len(tokens) + 1
      /\ tokens'[Len(tokens) + 1] = row
      /\ \A t \in 1..Len(tokens) : tokens'[t] = tokens[t]
      /\ DOMAIN tokens' = 1..(Len(tokens) + 1)
  BY <1>1, <1>2
<1>4. DOMAIN tokens' = Tokens \cup {Len(tokens) + 1}
  BY <1>3, TableRows
<1>5. Tokens' = DOMAIN tokens'
  BY DEF Tokens
<1> QED
  BY <1>3, <1>4, <1>5, TableRows DEF Issues, Keeps, row

\* A rotation revokes the token it holds and appends its successor.
LEMMA RotateIssues ==
    ASSUME TypeOK, NEW c \in Calls, Rotate(c)
    PROVE  /\ held[c] \in Tokens
           /\ Issues(Family(held[c]), held[c])
           /\ \A t \in Tokens : Keeps(t) /\ (t # held[c] => tokens'[t] = tokens[t])
           /\ tokens'[held[c]].revoked
<1> DEFINE h == held[c]
           old == Retired(h)
           row == Row(Family(h), h)
<1>1. h \in Tokens
  BY DEF Rotate, Ends, Step, TypeOK
<1>2. tokens[h] \in Rows /\ row \in Rows
  BY <1>1, TableRows DEF Row, Rows, Family
<1>3. old \in [1..Len(tokens) -> Rows]
  <2>1. tokens \in [1..Len(tokens) -> Rows]
    BY DEF TypeOK
  <2>2. [tokens[h] EXCEPT !.revoked = TRUE] \in Rows
    BY <1>2 DEF Rows
  <2> QED
    BY <2>1, <2>2 DEF Retired
<1>4. /\ \A t \in Tokens : t # h => old[t] = tokens[t]
      /\ old[h] = [tokens[h] EXCEPT !.revoked = TRUE]
  BY <1>1 DEF Retired, Tokens
<1>5. tokens' = Append(old, row)
  BY DEF Rotate
<1>6. old \in Seq(Rows) /\ Len(old) = Len(tokens)
  BY <1>3, TableRows
<1> HIDE DEF row, old
<1>7. /\ tokens' \in Seq(Rows) /\ Len(tokens') = Len(tokens) + 1
      /\ tokens'[Len(tokens) + 1] = row
      /\ \A t \in 1..Len(tokens) : tokens'[t] = old[t]
      /\ DOMAIN tokens' = 1..(Len(tokens) + 1)
  BY <1>2, <1>5, <1>6
<1>8. DOMAIN tokens' = Tokens \cup {Len(tokens) + 1}
  BY <1>7, TableRows
<1>9. Tokens' = DOMAIN tokens'
  BY DEF Tokens
<1>10. \A t \in Tokens : t # h => tokens'[t] = tokens[t]
  BY <1>4, <1>7, TableRows
<1>11. tokens'[h] = [tokens[h] EXCEPT !.revoked = TRUE]
  BY <1>1, <1>4, <1>7, TableRows
<1>12. Issues(Family(h), h)
  BY <1>7, <1>8, <1>9 DEF Issues, row
<1> QED
  BY <1>1, <1>2, <1>8, <1>9, <1>10, <1>11, <1>12 DEF Keeps, Rows

\* Revoking a family sets the flags of its rows and changes nothing else.
LEMMA RevokeSetsFlags ==
    ASSUME TypeOK, NEW c \in Calls, RevokeFamily(c)
    PROVE  /\ tokens' \in Seq(Rows) /\ Len(tokens') = Len(tokens)
           /\ Tokens' = Tokens
           /\ \A t \in Tokens : Keeps(t)
<1>1. \A t \in Tokens : /\ tokens'[t].family = tokens[t].family
                        /\ tokens'[t].parent = tokens[t].parent
                        /\ tokens[t].revoked => tokens'[t].revoked
                        /\ tokens'[t] \in Rows
  <2> SUFFICES ASSUME NEW t \in Tokens
               PROVE  /\ tokens'[t].family = tokens[t].family
                      /\ tokens'[t].parent = tokens[t].parent
                      /\ tokens[t].revoked => tokens'[t].revoked
                      /\ tokens'[t] \in Rows
    OBVIOUS
  <2>1. tokens'[t] = [tokens[t] EXCEPT
                        !.revoked = tokens[t].revoked \/ Family(t) = Family(held[c])]
    BY DEF RevokeFamily
  <2>2. tokens[t] \in Rows
    BY TableRows
  <2>3. tokens'[t] = [family |-> tokens[t].family, parent |-> tokens[t].parent,
                      revoked |-> tokens[t].revoked \/ Family(t) = Family(held[c])]
    BY <2>1, <2>2 DEF Rows
  <2>4. /\ tokens'[t].family = tokens[t].family
        /\ tokens'[t].parent = tokens[t].parent
        /\ tokens'[t].revoked = (tokens[t].revoked \/ Family(t) = Family(held[c]))
    BY <2>3
  <2>5. (tokens[t].revoked \/ Family(t) = Family(held[c])) \in BOOLEAN
    OBVIOUS
  <2>6. tokens'[t] \in Rows
    BY <2>2, <2>3, <2>5 DEF Rows
  <2> QED
    BY <2>4, <2>6
<1>2. tokens' \in [1..Len(tokens) -> Rows]
  BY <1>1, TableRows DEF RevokeFamily
<1>3. tokens' \in Seq(Rows) /\ Len(tokens') = Len(tokens)
  BY <1>2, TableRows
<1>4. Tokens' = Tokens
  BY DEF RevokeFamily, Tokens
<1> QED
  BY <1>1, <1>3, <1>4 DEF Keeps

----------------------------------------------------------------------------
(* Type correctness *)

\* What the parts of the state other than the table keep to.
CallTypes ==
    /\ expired \subseteq Tokens
    /\ pc \in [Calls -> {"idle", "rotating", "revoking"}]
    /\ held \in [Calls -> Nat]
    /\ \A c \in Calls : pc[c] # "idle" => held[c] \in Tokens

Forest ==
    \A t \in Tokens :
      /\ Family(t) \in 1..t
      /\ \/ tokens[t].parent = 0 /\ Family(t) = t
         \/ /\ tokens[t].parent \in 1..(t - 1)
            /\ Family(t) = Family(tokens[t].parent)

LEMMA TypeParts == TypeOK <=> tokens \in Seq(Rows) /\ Forest /\ CallTypes
BY DEF TypeOK, Forest, CallTypes

\* A family and a parent that are kept keep a row of the forest in the forest.
LEMMA ForestGrows ==
    ASSUME TypeOK, \A t \in Tokens : Keeps(t),
           NEW family, NEW parent,
           \/ Tokens' = Tokens
           \/ /\ Issues(family, parent)
              /\ \/ family = Len(tokens) + 1 /\ parent = 0
                 \/ parent \in Tokens /\ family = Family(parent)
    PROVE  Forest'
<1>1. ASSUME NEW t \in Tokens
      PROVE  /\ Family(t)' \in 1..t
             /\ \/ tokens'[t].parent = 0 /\ Family(t)' = t
                \/ /\ tokens'[t].parent \in 1..(t - 1)
                   /\ Family(t)' = Family(tokens[t].parent)'
  <2>1. Keeps(t) /\ t \in 1..Len(tokens)
    BY TableRows
  <2>2. Family(t)' = Family(t) /\ tokens'[t].parent = tokens[t].parent
    BY <2>1 DEF Keeps, Family
  <2>3. /\ Family(t) \in 1..t
        /\ \/ tokens[t].parent = 0 /\ Family(t) = t
           \/ /\ tokens[t].parent \in 1..(t - 1)
              /\ Family(t) = Family(tokens[t].parent)
    BY DEF TypeOK
  <2>4. CASE tokens[t].parent = 0 /\ Family(t) = t
    BY <2>2, <2>3, <2>4
  <2>5. CASE tokens[t].parent \in 1..(t - 1) /\ Family(t) = Family(tokens[t].parent)
    <3>1. tokens[t].parent \in Tokens
      BY <2>1, <2>5, TableRows
    <3>2. Family(tokens[t].parent)' = Family(tokens[t].parent)
      BY <3>1, <2>2 DEF Keeps, Family
    <3> QED
      BY <2>2, <2>3, <2>5, <3>2
  <2> QED
    BY <2>3, <2>4, <2>5
<1>2. CASE Tokens' = Tokens
  BY <1>1, <1>2 DEF Forest
<1>3. CASE /\ Issues(family, parent)
           /\ \/ family = Len(tokens) + 1 /\ parent = 0
              \/ parent \in Tokens /\ family = Family(parent)
  <2>0. PICK n \in Nat : n = Len(tokens) + 1
    BY TableRows
  <2>1. /\ Tokens' = Tokens \cup {n}
        /\ Family(n)' = family /\ tokens'[n].parent = parent
    BY <1>3, <2>0 DEF Issues, Row, Family
  <2>2. CASE family = n /\ parent = 0
    <3>1. /\ Family(n)' \in 1..n
          /\ tokens'[n].parent = 0 /\ Family(n)' = n
      BY <2>0, <2>1, <2>2, TableRows
    <3> QED
      BY <1>1, <2>1, <3>1 DEF Forest
  <2>3. CASE parent \in Tokens /\ family = Family(parent)
    <3>1. parent \in 1..(n - 1) /\ Family(parent) \in 1..parent
      BY <2>0, <2>3, TableRows DEF TypeOK
    <3>2. Family(parent)' = Family(parent)
      BY <2>3 DEF Keeps, Family
    <3>3. /\ Family(n)' \in 1..n
          /\ tokens'[n].parent \in 1..(n - 1)
          /\ Family(n)' = Family(tokens[n].parent)'
      BY <2>1, <2>3, <3>1, <3>2
    <3> QED
      BY <1>1, <2>1, <3>3 DEF Forest
  <2> QED
    BY <1>3, <2>0, <2>2, <2>3
<1> QED
  BY <1>2, <1>3

\* The types of the calls, for every step.
LEMMA CallTypesStep ==
    ASSUME TypeOK, [Next]_vars, Tokens \subseteq Tokens'
    PROVE  CallTypes'
<1> USE DEF CallTypes
<1>0. CallTypes
  BY TypeParts
<1>n. \A t \in Tokens : t \in Nat
  BY TableRows
<1>1. ASSUME NEW c \in Calls, Login(c)
      PROVE  CallTypes'
  BY <1>0, <1>1 DEF Login
<1>2. ASSUME NEW c \in Calls, NEW t \in Tokens, ReadForRefresh(c, t)
      PROVE  CallTypes'
  BY <1>0, <1>n, <1>2 DEF ReadForRefresh, Step
<1>3. ASSUME NEW c \in Calls, NEW t \in Tokens, ReadForLogout(c, t)
      PROVE  CallTypes'
  BY <1>0, <1>n, <1>3 DEF ReadForLogout, Step
<1>4. ASSUME NEW c \in Calls, Ends(c, "rotating") \/ Ends(c, "revoking"),
             UNCHANGED expired
      PROVE  CallTypes'
  BY <1>0, <1>4 DEF Ends, Step
<1>5. ASSUME NEW t \in Tokens, Expire(t)
      PROVE  CallTypes'
  BY <1>0, <1>5 DEF Expire
<1>6. CASE UNCHANGED vars
  BY <1>0, <1>6 DEF vars
<1> QED
  BY <1>1, <1>2, <1>3, <1>4, <1>5, <1>6 DEF Next, Rotate, RevokeFamily, Abort

\* What a step is to the table: a row issued, flags set, or nothing.
LEMMA TableStep ==
    ASSUME TypeOK, [Next]_vars
    PROVE  /\ \A t \in Tokens : Keeps(t)
           /\ tokens' \in Seq(Rows)
           /\ \/ Tokens' = Tokens
              \/ Issues(Len(tokens) + 1, 0)
              \/ \E c \in Calls : /\ Rotate(c) /\ held[c] \in Tokens
                                 /\ Issues(Family(held[c]), held[c])
                                 /\ tokens'[held[c]].revoked
<1>1. ASSUME tokens' = tokens
      PROVE  (\A t \in Tokens : Keeps(t)) /\ tokens' \in Seq(Rows) /\ Tokens' = Tokens
  BY <1>1 DEF Keeps, Tokens, TypeOK
<1>2. ASSUME NEW c \in Calls, Login(c)
      PROVE  /\ \A t \in Tokens : Keeps(t)
             /\ tokens' \in Seq(Rows)
             /\ Issues(Len(tokens) + 1, 0)
  BY <1>2, LoginIssues DEF Issues
<1>3. ASSUME NEW c \in Calls, Rotate(c)
      PROVE  /\ \A t \in Tokens : Keeps(t)
             /\ tokens' \in Seq(Rows)
             /\ held[c] \in Tokens /\ Issues(Family(held[c]), held[c])
             /\ tokens'[held[c]].revoked
  BY <1>3, RotateIssues DEF Issues
<1>4. ASSUME NEW c \in Calls, RevokeFamily(c)
      PROVE  /\ \A t \in Tokens : Keeps(t)
             /\ tokens' \in Seq(Rows) /\ Tokens' = Tokens
  BY <1>4, RevokeSetsFlags
<1>5. CASE \/ \E c \in Calls : \/ Abort(c)
                              \/ \E t \in Tokens : ReadForRefresh(c, t) \/ ReadForLogout(c, t)
           \/ \E t \in Tokens : Expire(t)
           \/ UNCHANGED vars
  <2>1. tokens' = tokens
    BY <1>5 DEF Abort, ReadForRefresh, ReadForLogout, Expire, vars
  <2> QED
    BY <1>1, <2>1
<1> QED
  BY <1>2, <1>3, <1>4, <1>5 DEF Next

\* A token of the table stays in it and every step keeps the types.
LEMMA TypeStep ==
    ASSUME TypeOK, [Next]_vars
    PROVE  TypeOK'
<1>1. Tokens \subseteq Tokens'
  BY TableStep DEF Keeps
<1>2. CallTypes'
  BY <1>1, CallTypesStep
<1>3. tokens' \in Seq(Rows)
  BY TableStep
<1>4. Forest'
  BY TableStep, ForestGrows
<1> QED
  BY <1>2, <1>3, <1>4 DEF TypeOK, Forest, CallTypes

\* The rows of refresh_tokens form a forest of families and every call that rotates or
\* revokes holds one of them, in every state of AuthService.
THEOREM TypeCorrect == Spec => []TypeOK
<1>1. Init => TypeOK
  <2> SUFFICES ASSUME Init PROVE TypeOK
    OBVIOUS
  <2>1. tokens \in Seq(Rows) /\ Tokens = {}
    BY DEF Init, Tokens
  <2> QED
    BY <2>1 DEF Init, TypeOK
<1>2. TypeOK /\ [Next]_vars => TypeOK'
  BY TypeStep
<1> QED
  BY <1>1, <1>2, PTL DEF Spec

----------------------------------------------------------------------------
(* Only the latest token of a line of rotations is valid *)

\* A step that issues nothing leaves every token its successors.
LEMMA SuccessorsKept ==
    ASSUME \A t \in Tokens : Keeps(t), Tokens' = Tokens, NEW t \in Tokens
    PROVE  Successors(t)' = Successors(t)
BY DEF Keeps, Successors

\* An issued token has no successor and is one to its parent only.
LEMMA SuccessorsIssued ==
    ASSUME TypeOK, \A t \in Tokens : Keeps(t),
           NEW n, n = Len(tokens) + 1,
           NEW family, NEW parent \in Tokens \cup {0}, Issues(family, parent)
    PROVE  /\ Successors(n)' = {}
           /\ \A t \in Tokens :
                /\ t # n
                /\ Successors(t)' = IF t = parent THEN Successors(t) \cup {n}
                                     ELSE Successors(t)
<1>1. /\ Tokens' = Tokens \cup {n} /\ tokens'[n].parent = parent
      /\ \A s \in Tokens : tokens'[s].parent = tokens[s].parent
  BY DEF Issues, Row, Keeps
<1>2. n \notin Tokens /\ n # 0 /\ 0 \notin Tokens
  BY TableRows
<1>3. ASSUME NEW s \in Tokens
      PROVE  tokens[s].parent # n
  <2>1. tokens[s].parent = 0 \/ tokens[s].parent \in 1..(s - 1)
    BY DEF TypeOK
  <2> QED
    BY <2>1, TableRows
<1>4. Successors(n)' = {s \in Tokens' : tokens'[s].parent = n}
  BY DEF Successors
<1>5. Successors(n)' = {}
  BY <1>1, <1>2, <1>3, <1>4
<1>6. ASSUME NEW t \in Tokens
      PROVE  Successors(t)' = IF t = parent THEN Successors(t) \cup {n} ELSE Successors(t)
  BY <1>1, <1>6 DEF Successors
<1> QED
  BY <1>2, <1>5, <1>6

\* No step makes a rotated token valid or gives a valid one a successor.
LEMMA OnlyLatestStep ==
    ASSUME TypeOK, OnlyLatestLive, [Next]_vars
    PROVE  OnlyLatestLive'
<1>1. \A t \in Tokens : Keeps(t)
  BY TableStep
<1>2. \A t \in Tokens : Live(t)' => Successors(t) = {}
  BY <1>1 DEF Keeps, Live, OnlyLatestLive
<1>3. CASE Tokens' = Tokens
  BY <1>1, <1>2, <1>3, SuccessorsKept DEF OnlyLatestLive
<1>4. PICK n : n = Len(tokens) + 1
  OBVIOUS
<1>5. CASE Issues(Len(tokens) + 1, 0)
  <2>1. Tokens' = Tokens \cup {n}
    BY <1>4, <1>5 DEF Issues
  <2>2. /\ Successors(n)' = {}
        /\ \A t \in Tokens : t = 0 \/ Successors(t)' = Successors(t)
    BY <1>1, <1>4, <1>5, SuccessorsIssued
  <2> QED
    BY <1>2, <2>1, <2>2, TableRows DEF OnlyLatestLive
<1>6. CASE \E c \in Calls : /\ held[c] \in Tokens
                            /\ Issues(Family(held[c]), held[c])
                            /\ tokens'[held[c]].revoked
  <2>1. PICK h \in Tokens : Issues(Family(h), h) /\ tokens'[h].revoked
    BY <1>6
  <2>2. Tokens' = Tokens \cup {n}
    BY <1>4, <2>1 DEF Issues
  <2>3. /\ Successors(n)' = {}
        /\ \A t \in Tokens : t = h \/ Successors(t)' = Successors(t)
    BY <1>1, <1>4, <2>1, SuccessorsIssued
  <2>4. ~Live(h)'
    BY <2>1 DEF Live
  <2> QED
    BY <1>2, <2>2, <2>3, <2>4 DEF OnlyLatestLive
<1> QED
  BY <1>3, <1>5, <1>6, TableStep

\* A refresh token that has been rotated is never accepted again, whatever calls of
\* refresh and logout overlap or are lost (AuthService.refresh).
THEOREM OnlyLatestIsLive == Spec => []OnlyLatestLive
<1>1. Init => OnlyLatestLive
  BY DEF Init, OnlyLatestLive, Tokens
<1>2. TypeOK /\ OnlyLatestLive /\ [Next]_vars => OnlyLatestLive'
  BY OnlyLatestStep
<1> QED
  BY <1>1, <1>2, TypeCorrect, PTL DEF Spec

----------------------------------------------------------------------------
(* One valid token in a family *)

Forked(f) == \E r \in Tokens : Family(r) = f /\ RotatedTwice(r)

\* The strengthening: not the valid tokens of a family are unique but its leaves, valid
\* or not, unless the family was forked.
OneLeaf ==
    \A s, t \in Tokens :
        Successors(s) = {} /\ Successors(t) = {} /\ Family(s) = Family(t) =>
            s = t \/ Forked(Family(s))

\* A forked family stays forked.
LEMMA ForkedStays ==
    ASSUME \A t \in Tokens : Keeps(t),
           \A t \in Tokens : Successors(t) \subseteq Successors(t)',
           NEW f, Forked(f)
    PROVE  Forked(f)'
BY DEF Forked, RotatedTwice, Keeps, Family

\* The leaves of a table that grows by one row.
LEMMA OneLeafStep ==
    ASSUME TypeOK, OneLeaf, [Next]_vars
    PROVE  OneLeaf'
<1>1. \A t \in Tokens : Keeps(t)
  BY TableStep
<1>2. \A t \in Tokens : Family(t)' = Family(t)
  BY <1>1 DEF Keeps, Family
<1>3. PICK n \in Nat : n = Len(tokens) + 1
  BY TableRows
<1>4. CASE Tokens' = Tokens
  <2>1. \A t \in Tokens : Successors(t)' = Successors(t)
    BY <1>1, <1>4, SuccessorsKept
  <2>2. \A f : Forked(f) => Forked(f)'
    BY <1>1, <2>1, ForkedStays
  <2> QED
    BY <1>2, <1>4, <2>1, <2>2 DEF OneLeaf
<1>5. CASE Issues(Len(tokens) + 1, 0)
  <2>1. Tokens' = Tokens \cup {n} /\ Family(n)' = n
    BY <1>3, <1>5 DEF Issues, Row, Family
  <2>2. \A t \in Tokens : Successors(t)' = Successors(t)
    BY <1>1, <1>3, <1>5, SuccessorsIssued, TableRows
  <2>3. \A f : Forked(f) => Forked(f)'
    BY <1>1, <2>2, ForkedStays
  <2>4. \A t \in Tokens : Family(t) # n
    BY <1>3, TableRows DEF TypeOK
  <2> QED
    BY <1>2, <2>1, <2>2, <2>3, <2>4 DEF OneLeaf
<1>6. CASE \E c \in Calls : held[c] \in Tokens /\ Issues(Family(held[c]), held[c])
  <2>1. PICK h \in Tokens : Issues(Family(h), h)
    BY <1>6
  <2>2. Tokens' = Tokens \cup {n} /\ Family(n)' = Family(h)
    BY <1>3, <2>1 DEF Issues, Row, Family
  <2>3. /\ n \notin Tokens
        /\ Successors(h)' = Successors(h) \cup {n}
        /\ \A t \in Tokens : t # h => Successors(t)' = Successors(t)
    BY <1>1, <1>3, <2>1, SuccessorsIssued
  <2>4. \A f : Forked(f) => Forked(f)'
    BY <1>1, <2>3, ForkedStays
  <2>5. \A t \in Tokens : Successors(t)' = {} => t # h /\ Successors(t) = {}
    BY <2>3
  <2>6. \A s, t \in Tokens :
          Successors(s)' = {} /\ Successors(t)' = {} /\ Family(s) = Family(t) =>
            s = t \/ Forked(Family(s))'
    BY <2>4, <2>5, <1>2 DEF OneLeaf
  <2>7. ASSUME NEW t \in Tokens, Successors(t)' = {}, Family(t) = Family(h)
        PROVE  Forked(Family(h))'
    <3>1. t # h /\ Successors(t) = {}
      BY <2>5, <2>7
    <3>2. CASE Successors(h) = {}
      <4>1. Forked(Family(h))
        BY <2>7, <3>1, <3>2 DEF OneLeaf
      <4> QED
        BY <1>2, <2>4, <4>1
    <3>3. CASE Successors(h) # {}
      <4>1. PICK r \in Successors(h) : r \in Tokens
        BY <3>3 DEF Successors
      <4>2. r \in Successors(h)' /\ n \in Successors(h)' /\ r # n
        BY <2>3, <4>1
      <4>3. RotatedTwice(h)'
        BY <4>2 DEF RotatedTwice
      <4> QED
        BY <1>2, <2>2, <4>3 DEF Forked
    <3> QED
      BY <3>2, <3>3
  <2> QED
    BY <1>2, <2>2, <2>6, <2>7 DEF OneLeaf
<1> QED
  BY <1>4, <1>5, <1>6, TableStep

\* A family never has two valid tokens, unless two calls that had read the same token
\* both rotated it (AuthService.refresh reads outside the transaction that rotates).
THEOREM OneIsLive == Spec => []OneLivePerFamily
<1>1. Init => OneLeaf
  BY DEF Init, OneLeaf, Tokens
<1>2. TypeOK /\ OneLeaf /\ [Next]_vars => OneLeaf'
  BY OneLeafStep
<1>3. OnlyLatestLive /\ OneLeaf => OneLivePerFamily
  BY DEF OnlyLatestLive, OneLeaf, OneLivePerFamily, Forked
<1> QED
  BY <1>1, <1>2, <1>3, TypeCorrect, OnlyLatestIsLive, PTL DEF Spec

----------------------------------------------------------------------------
(* A revoked family stays revoked *)

\* A call that is about to rotate was so before, or has just read a valid token.
LEMMA ChecksPassed ==
    ASSUME TypeOK, [Next]_vars, NEW c \in Calls, pc'[c] = "rotating"
    PROVE  \/ pc[c] = "rotating" /\ held'[c] = held[c]
           \/ \E u \in Tokens : Live(u) /\ held'[c] = u
<1>0. pc \in [Calls -> {"idle", "rotating", "revoking"}] /\ held \in [Calls -> Nat]
  BY DEF TypeOK
<1>1. ASSUME NEW d \in Calls, NEW u \in Tokens, ReadForRefresh(d, u)
      PROVE  \/ pc[c] = "rotating" /\ held'[c] = held[c]
             \/ Live(u) /\ held'[c] = u
  <2>1. CASE c = d
    BY <1>0, <1>1, <2>1 DEF ReadForRefresh, Step, Live
  <2>2. CASE c # d
    BY <1>0, <1>1, <2>2 DEF ReadForRefresh, Step
  <2> QED
    BY <2>1, <2>2
<1>2. ASSUME NEW d \in Calls, NEW from, NEW to \in {"idle", "revoking"}, NEW u,
             Step(d, from, to, u)
      PROVE  pc[c] = "rotating" /\ held'[c] = held[c]
  BY <1>0, <1>2 DEF Step
<1>3. CASE UNCHANGED <<pc, held>>
  BY <1>3
<1> QED
  BY <1>1, <1>2, <1>3
  DEF Next, vars, Login, ReadForLogout, Rotate, RevokeFamily, Abort, Expire, Ends

\* No step brings a dead family back, but a rotation that had passed its checks.
LEMMA DeadStep ==
    ASSUME TypeOK, [Next]_vars, NEW t \in Tokens, Dead(Family(t))
    PROVE  /\ RotatingIn(Family(t))' \subseteq RotatingIn(Family(t))
           /\ RotatingIn(Family(t)) = {} => Dead(Family(t))'
<1>1. \A u \in Tokens : Keeps(u)
  BY TableStep
<1>2. \A u \in Tokens : Family(u)' = Family(u)
  BY <1>1 DEF Keeps, Family
<1>3. ASSUME NEW c \in RotatingIn(Family(t))'
      PROVE  c \in RotatingIn(Family(t))
  <2>1. c \in Calls /\ pc'[c] = "rotating" /\ Family(held[c])' = Family(t)'
    BY <1>3 DEF RotatingIn
  <2>2. CASE pc[c] = "rotating" /\ held'[c] = held[c]
    <3>1. held[c] \in Tokens
      BY <2>1, <2>2 DEF TypeOK
    <3>2. tokens'[held[c]].family = tokens[held[c]].family
      BY <1>1, <3>1 DEF Keeps
    <3>3. tokens'[held'[c]].family = tokens'[t].family
      BY <2>1 DEF Family
    <3>4. Family(held[c]) = Family(t)
      BY <1>2, <2>2, <3>2, <3>3 DEF Family
    <3> QED
      BY <2>1, <2>2, <3>4 DEF RotatingIn
  <2>3. ASSUME NEW u \in Tokens, Live(u), held'[c] = u
        PROVE  FALSE
    <3>1. tokens'[u].family = tokens'[t].family
      BY <2>1, <2>3 DEF Family
    <3>2. Family(u) = Family(t)
      BY <1>2, <3>1 DEF Family
    <3> QED
      BY <2>3, <3>2 DEF Dead
  <2> QED
    BY <2>1, <2>2, <2>3, ChecksPassed
<1>4. ASSUME RotatingIn(Family(t)) = {}
      PROVE  Dead(Family(t))'
  <2>1. \A u \in Tokens : Family(u)' = Family(t)' => ~Live(u)'
    BY <1>1, <1>2 DEF Dead, Live, Keeps
  <2>2. PICK n \in Nat : n = Len(tokens) + 1
    BY TableRows
  <2>3. CASE Tokens' = Tokens
    BY <2>1, <2>3 DEF Dead
  <2>4. CASE Issues(Len(tokens) + 1, 0)
    <3>1. Tokens' = Tokens \cup {n} /\ Family(n)' = n
      BY <2>2, <2>4 DEF Issues, Row, Family
    <3>2. Family(t) # n
      BY <2>2, TableRows DEF TypeOK
    <3> QED
      BY <1>2, <2>1, <3>1, <3>2 DEF Dead
  <2>5. ASSUME NEW c \in Calls, Rotate(c), held[c] \in Tokens,
               Issues(Family(held[c]), held[c])
        PROVE  Dead(Family(t))'
    <3>1. Family(held[c]) # Family(t)
      BY <1>4, <2>5 DEF RotatingIn, Rotate, Ends, Step
    <3>2. Tokens' = Tokens \cup {n} /\ Family(n)' = Family(held[c])
      BY <2>2, <2>5 DEF Issues, Row, Family
    <3> QED
      BY <1>2, <2>1, <3>1, <3>2 DEF Dead
  <2> QED
    BY <2>3, <2>4, <2>5, TableStep
<1> QED
  BY <1>3, <1>4

\* Reuse and logout are final, but for the rotations under way at that moment
\* (AuthService.refresh, AuthService.logout, revoke_refresh_family).
THEOREM DeathIsFinal == Spec => DeadStaysDead
<1>1. TypeOK /\ [Next]_vars =>
        [\A t \in Tokens : Dead(Family(t)) =>
           /\ RotatingIn(Family(t))' \subseteq RotatingIn(Family(t))
           /\ RotatingIn(Family(t)) = {} => Dead(Family(t))']_vars
  BY DeadStep
<1> QED
  BY <1>1, TypeCorrect, PTL DEF Spec, DeadStaysDead

----------------------------------------------------------------------------
(* Access tokens: a step of AccessSpec is a step of RefreshTokens or leaves *)
(* its variables alone, so that the lemmas above carry over.                *)

\* Every access token has its minting time, and none of a family that is over was minted
\* later than it has been over.
Minted == minted \in [Tokens -> 0..now]

OverFor(f) ==
    /\ \E s \in Tokens : Family(s) = f
    /\ Dead(f) /\ RotatingIn(f) = {}
    /\ over[f] \in 0..now
    /\ \A t \in Tokens : Family(t) = f => minted[t] <= over[f]

AccessInv ==
    /\ TypeOK
    /\ now \in Nat
    /\ Minted
    /\ \A f \in DOMAIN over : OverFor(f)

LEMMA AuthStepIsNext ==
    ASSUME AuthStep
    PROVE  Next
BY DEF AuthStep, Next

\* Whatever is issued is valid when it is issued: a token of a family that is dead after
\* the step was there before it.
LEMMA DeadIssuesNothing ==
    ASSUME TypeOK, [Next]_vars, NEW f, Dead(f)', NEW t \in Tokens', Family(t)' = f
    PROVE  t \in Tokens
<1>1. t \in Tokens' /\ tokens'[t].revoked
  BY DEF Dead, Live
<1>2. ASSUME NEW family, NEW parent, Issues(family, parent)
      PROVE  t \in Tokens
  <2>1. PICK n : n = Len(tokens) + 1
    OBVIOUS
  <2>2. tokens'[n] = Row(family, parent) /\ Tokens' = Tokens \cup {n}
    BY <1>2, <2>1 DEF Issues
  <2>3. ~tokens'[n].revoked
    BY <2>2 DEF Row
  <2> QED
    BY <1>1, <2>2, <2>3
<1> QED
  BY <1>1, <1>2, TableStep

\* A statement of a call keeps what is known of a family that is over.
LEMMA OverStays ==
    ASSUME AccessInv, AuthStep, NEW f \in DOMAIN over
    PROVE  /\ f \in DOMAIN over' /\ over'[f] = over[f]
           /\ OverFor(f)'
<1>1. [Next]_vars /\ Mint /\ Watch /\ now' = now /\ TypeOK
  BY AuthStepIsNext DEF AuthStep, AccessInv
<1>2. OverFor(f)
  BY DEF AccessInv
<1>3. PICK s \in Tokens : Family(s) = f
  BY <1>2 DEF OverFor
<1>4. Keeps(s) /\ Family(s)' = Family(s)
  BY <1>1, TableStep DEF Keeps, Family
<1>5. /\ RotatingIn(Family(s))' \subseteq RotatingIn(Family(s))
      /\ RotatingIn(Family(s)) = {} => Dead(Family(s))'
  BY <1>1, <1>2, <1>3, DeadStep DEF OverFor
<1>6. Dead(f)' /\ RotatingIn(f)' = {}
  <2>1. RotatingIn(Family(s)) = {}
    BY <1>2, <1>3 DEF OverFor
  <2>2. Dead(Family(s))' /\ RotatingIn(Family(s))' = {}
    BY <1>5, <2>1
  <2>3. Family(s)' = f
    BY <1>3, <1>4
  <2> QED
    BY <2>2, <2>3 DEF Dead, RotatingIn
<1>7. f \in DOMAIN over' /\ over'[f] = over[f]
  BY <1>1 DEF Watch
<1>8. ASSUME NEW t \in Tokens', Family(t)' = f
      PROVE  minted'[t] <= over'[f]
  <2>1. t \in Tokens
    BY <1>1, <1>6, <1>8, DeadIssuesNothing
  <2>2. Family(t) = f /\ minted'[t] = minted[t]
    BY <1>1, <1>8, <2>1, TableStep DEF Keeps, Family, Mint
  <2> QED
    BY <1>2, <1>7, <2>1, <2>2 DEF OverFor
<1>9. \E u \in Tokens' : Family(u)' = f
  BY <1>3, <1>4 DEF Keeps
<1>10. over'[f] \in 0..now'
  BY <1>1, <1>2, <1>7 DEF OverFor
<1> QED
  BY <1>6, <1>7, <1>8, <1>9, <1>10 DEF OverFor

\* A statement of a call keeps the invariant.
LEMMA AuthStepKeeps ==
    ASSUME AccessInv, AuthStep
    PROVE  AccessInv'
<1>1. [Next]_vars /\ Mint /\ Watch /\ now' = now /\ TypeOK /\ now \in Nat
  BY AuthStepIsNext DEF AuthStep, AccessInv
<1>2. TypeOK'
  BY <1>1, TypeStep
<1>3. Minted'
  <2>1. \A t \in Tokens' : (IF t \in Tokens THEN minted[t] ELSE now) \in 0..now
    BY <1>1 DEF AccessInv, Minted
  <2> QED
    BY <1>1, <2>1 DEF Mint, Minted
<1>4. ASSUME NEW f \in DOMAIN over', f \notin DOMAIN over
      PROVE  OverFor(f)'
  <2>1. PICK s \in Tokens : IsOver(Family(s))' /\ f = Family(s)
    BY <1>1, <1>4 DEF Watch
  <2>2. Keeps(s) /\ Family(s)' = f
    BY <1>1, <2>1, TableStep DEF Keeps, Family
  <2>3. Dead(f)' /\ RotatingIn(f)' = {}
    <3>1. Dead(Family(s))' /\ RotatingIn(Family(s))' = {}
      BY <2>1 DEF IsOver, Dead, RotatingIn, Live
    <3> QED
      BY <2>2, <3>1 DEF Dead, RotatingIn
  <2>4. over'[f] = now /\ now \in 0..now
    BY <1>1, <1>4 DEF Watch
  <2>5. \A t \in Tokens' : minted'[t] <= over'[f]
    BY <1>1, <1>3, <2>4 DEF Minted
  <2>6. s \in Tokens'
    BY <2>2 DEF Keeps
  <2> QED
    BY <1>1, <2>2, <2>3, <2>4, <2>5, <2>6 DEF OverFor
<1>5. \A f \in DOMAIN over' : OverFor(f)'
  BY <1>4, OverStays
<1> QED
  BY <1>1, <1>2, <1>3, <1>5 DEF AccessInv

\* The clock and the sessions keep it.
LEMMA OtherStepKeeps ==
    ASSUME AccessInv, UNCHANGED <<vars, minted, over>>, now' \in Nat, now <= now'
    PROVE  AccessInv'
<1>1. TypeOK'
  BY TypeStep DEF AccessInv
<1>2. /\ tokens' = tokens /\ pc' = pc /\ held' = held /\ minted' = minted /\ over' = over
      /\ now \in Nat
  BY DEF vars, AccessInv
<1>3. Tokens' = Tokens /\ \A t : Family(t)' = Family(t)
  BY <1>2 DEF Tokens, Family
<1>4. 0..now \subseteq 0..now'
  BY <1>2
<1>5. Minted'
  BY <1>2, <1>3, <1>4 DEF AccessInv, Minted
<1>6. ASSUME NEW f \in DOMAIN over'
      PROVE  OverFor(f)'
  <2>1. OverFor(f)
    BY <1>2 DEF AccessInv
  <2>2. (Dead(f)' <=> Dead(f)) /\ RotatingIn(f)' = RotatingIn(f)
    BY <1>2, <1>3 DEF Dead, Live, RotatingIn
  <2> QED
    BY <1>2, <1>3, <1>4, <2>1, <2>2 DEF OverFor
<1> QED
  BY <1>1, <1>5, <1>6 DEF AccessInv

LEMMA AccessInvHolds == AccessSpec => []AccessInv
<1>1. InitAccess => AccessInv
  <2> SUFFICES ASSUME InitAccess
               PROVE  AccessInv
    OBVIOUS
  <2>1. tokens = <<>> /\ tokens \in Seq(Rows) /\ Tokens = {}
    BY DEF InitAccess, Init, Tokens
  <2>2. TypeOK
    BY <2>1 DEF InitAccess, Init, TypeOK
  <2>3. now = 0 /\ DOMAIN minted = {} /\ DOMAIN over = {} /\ minted = <<>>
    BY DEF InitAccess
  <2>4. minted \in [Tokens -> 0..now]
    BY <2>1, <2>3
  <2> QED
    BY <2>2, <2>3, <2>4 DEF AccessInv, Minted
<1>2. AccessInv /\ [AccessNext]_allVars => AccessInv'
  <2> SUFFICES ASSUME AccessInv, [AccessNext]_allVars
               PROVE  AccessInv'
    OBVIOUS
  <2>1. CASE AuthStep
    BY <2>1, AuthStepKeeps
  <2>2. CASE ClockTicks
    <3>1. now' \in Nat /\ now <= now'
      BY <2>2 DEF ClockTicks, AccessInv
    <3> QED
      BY <2>2, <3>1, OtherStepKeeps DEF ClockTicks
  <2>3. ASSUME UNCHANGED <<vars, now, minted, over>>
        PROVE  AccessInv'
    <3>1. now' \in Nat /\ now <= now'
      BY <2>3 DEF AccessInv
    <3> QED
      BY <2>3, <3>1, OtherStepKeeps
  <2> QED
    BY <2>1, <2>2, <2>3
    DEF AccessNext, SessionEnds, Handshake, allVars, accessVars
<1> QED
  BY <1>1, <1>2, PTL DEF AccessSpec

\* From AccessTTL after a family is over, whether by logout or by reuse of a token, no
\* session starts with any of its access tokens (ws.py looks at the expiry only, so this
\* is what keeps a signed-out user out).
THEOREM SessionsEndInTime == AccessSpec => NoLateSession
<1>1. AccessInv /\ [AccessNext]_allVars =>
        [session' # session /\ session' # 0 /\ Family(session') \in DOMAIN over =>
           now < over[Family(session')] + AccessTTL]_allVars
  <2> SUFFICES ASSUME AccessInv, AccessNext,
                      session' # session, session' # 0,
                      Family(session') \in DOMAIN over
               PROVE  now < over[Family(session')] + AccessTTL
    BY DEF allVars
  <2>1. PICK t \in Tokens : Handshake(t)
    BY DEF AccessNext, AuthStep, ClockTicks, SessionEnds
  <2>2. session' = t /\ now < minted[t] + AccessTTL
    BY <2>1 DEF Handshake, Verifies
  <2>3. OverFor(Family(t)) /\ now \in Nat
    BY <2>2 DEF AccessInv
  <2>4. minted[t] \in 0..now
    BY DEF AccessInv, Minted
  <2>5. minted[t] <= over[Family(t)] /\ over[Family(t)] \in 0..now
    BY <2>3 DEF OverFor
  <2> QED
    BY <2>2, <2>3, <2>4, <2>5, TTLAssumption
<1> QED
  BY <1>1, AccessInvHolds, PTL DEF AccessSpec, NoLateSession

\* With the clock, the access tokens and the sessions the table changes as it does without
\* them: what they add only watches the table, or lets a token expire later.
THEOREM AccessRefines == AccessSpec => Spec
<1>1. InitAccess => Init
  BY DEF InitAccess
<1>2. [AccessNext]_allVars => [Next]_vars
  <2> SUFFICES ASSUME [AccessNext]_allVars
               PROVE  [Next]_vars
    OBVIOUS
  <2>1. CASE AuthStep
    BY <2>1, AuthStepIsNext
  <2>2. CASE UNCHANGED vars
    BY <2>2
  <2> QED
    BY <2>1, <2>2 DEF AccessNext, ClockTicks, SessionEnds, Handshake, allVars
<1> QED
  BY <1>1, <1>2, PTL DEF AccessSpec, Spec

\* In the system with sessions a rotated token is never valid again, a family that was not
\* forked has one valid token, and a revoked family stays revoked.
THEOREM SoundWithAccess ==
    AccessSpec => []OnlyLatestLive /\ []OneLivePerFamily /\ DeadStaysDead
BY AccessRefines, OnlyLatestIsLive, OneIsLive, DeathIsFinal, PTL
=============================================================================
