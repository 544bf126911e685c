--------------------------- MODULE RefreshTokens ---------------------------
(***************************************************************************)
(* The refresh tokens of auth/service.py: concurrent calls of the login,   *)
(* refresh and logout endpoints over the refresh_tokens table.             *)
(*                                                                         *)
(* A call is a coroutine on a connection of its own.  An action is one     *)
(* statement, or one transaction, of it: the record is read and judged in  *)
(* one, and rotated, or its family revoked, in a later one, with the other *)
(* calls' statements in between.  A token is the index of its row; a       *)
(* family, a UUID in the code, is the index of its first row.              *)
(***************************************************************************)
EXTENDS Integers, Sequences

CONSTANTS
    Calls,        \* slots for calls under way at the same time
    MaxTokens     \* bound: rows of the table

ASSUME MaxTokensAssumption == MaxTokens \in Nat

VARIABLES
    tokens,    \* the rows: [family, parent, revoked]
    expired,   \* the tokens whose expires_at has passed
    pc,        \* where each call is suspended: "idle", "rotating", "revoking"
    held       \* the token whose record each such call has read

vars == <<tokens, expired, pc, held>>

Tokens == DOMAIN tokens

Family(t) == tokens[t].family

\* The parent is history: the code does not record which token a rotation replaced.
Row(family, parent) == [family |-> family, parent |-> parent, revoked |-> FALSE]

Init ==
    /\ tokens = <<>>
    /\ expired = {}
    /\ pc = [c \in Calls |-> "idle"]
    /\ held = [c \in Calls |-> 0]

----------------------------------------------------------------------------

Step(c, from, to, t) ==
    /\ pc[c] = from
    /\ pc' = [pc EXCEPT ![c] = to]
    /\ held' = [held EXCEPT ![c] = t]

Ends(c, from) == Step(c, from, "idle", 0)

\* Mutant: a login joins the family of the latest one.
LoginSameFamily(c) ==
    /\ pc[c] = "idle"
    /\ Len(tokens) < MaxTokens
    /\ tokens' = Append(tokens, Row(IF tokens = <<>> THEN 1 ELSE Family(Len(tokens)), 0))
    /\ UNCHANGED <<expired, pc, held>>

\* dev_login, login_from_identity: one transaction issues the first token of a family.
Login(c) ==
    /\ pc[c] = "idle"
    /\ Len(tokens) < MaxTokens
    /\ tokens' = Append(tokens, Row(Len(tokens) + 1, 0))
    /\ UNCHANGED <<expired, pc, held>>

\* Mutant: the revoked flag is not looked at.
ReadIgnoringRevoked(c, t) ==
    /\ t \notin expired
    /\ Step(c, "idle", "rotating", t)
    /\ UNCHANGED <<tokens, expired>>

\* A revoked token is punished, even an expired one, and any other rotated; a token that
\* is expired, or not in the table, is refused, which changes nothing.
ReadForRefresh(c, t) ==
    /\ tokens[t].revoked \/ t \notin expired
    /\ Step(c, "idle", IF tokens[t].revoked THEN "revoking" ELSE "rotating", t)
    /\ UNCHANGED <<tokens, expired>>

ReadForLogout(c, t) ==
    /\ Step(c, "idle", "revoking", t)
    /\ UNCHANGED <<tokens, expired>>

Retired(t) == [tokens EXCEPT ![t].revoked = TRUE]

\* Mutant: the successor is issued and the old token stays valid.
RotateKeepingOld(c) ==
    /\ Ends(c, "rotating")
    /\ Len(tokens) < MaxTokens
    /\ tokens' = Append(tokens, Row(Family(held[c]), held[c]))
    /\ UNCHANGED expired

\* One transaction: the old token is revoked, whatever has become of it since it was
\* read, and its successor inserted.
Rotate(c) ==
    /\ Ends(c, "rotating")
    /\ Len(tokens) < MaxTokens
    /\ tokens' = Append(Retired(held[c]), Row(Family(held[c]), held[c]))
    /\ UNCHANGED expired

\* revoke_refresh_family: the rows of the family that are there when it runs.
RevokeFamily(c) ==
    /\ Ends(c, "revoking")
    /\ tokens' = [t \in Tokens |->
                    [tokens[t] EXCEPT !.revoked = @ \/ Family(t) = Family(held[c])]]
    /\ UNCHANGED expired

\* The call is lost between two statements: connection, cancellation, restart.
Abort(c) ==
    /\ Ends(c, "rotating") \/ Ends(c, "revoking")
    /\ UNCHANGED <<tokens, expired>>

Expire(t) ==
    /\ t \notin expired
    /\ expired' = expired \cup {t}
    /\ UNCHANGED <<tokens, pc, held>>

Next ==
    \/ \E c \in Calls :
         \/ Login(c)
         \/ \E t \in Tokens : ReadForRefresh(c, t) \/ ReadForLogout(c, t)
         \/ Rotate(c) \/ RevokeFamily(c) \/ Abort(c)
    \/ \E t \in Tokens : Expire(t)

Spec == Init /\ [][Next]_vars

----------------------------------------------------------------------------

Rows == [family : Nat \ {0}, parent : Nat, revoked : BOOLEAN]

\* The rows form a forest: a token is the first of its family or the successor of an
\* earlier one in it, and a call that rotates or revokes holds a token of the table.
TypeOK ==
    /\ tokens \in Seq(Rows)
    /\ \A t \in Tokens :
         /\ Family(t) \in 1..t
         /\ \/ tokens[t].parent = 0 /\ Family(t) = t
            \/ /\ tokens[t].parent \in 1..(t - 1)
               /\ Family(t) = Family(tokens[t].parent)
    /\ expired \subseteq Tokens
    /\ pc \in [Calls -> {"idle", "rotating", "revoking"}]
    /\ held \in [Calls -> Nat]
    /\ \A c \in Calls : pc[c] # "idle" => held[c] \in Tokens

Live(t) == ~tokens[t].revoked

Successors(t) == {s \in Tokens : tokens[s].parent = t}

RotatedTwice(t) == \E r, s \in Successors(t) : r # s

\* A token that has been rotated is never accepted again, in any order of concurrent
\* rotations, revocations and lost calls (service.py: "Atomically retire the old token
\* and issue its successor").
OnlyLatestLive == \A t \in Tokens : Live(t) => Successors(t) = {}

\* A family has one valid token at most, unless two calls that had read the same token
\* both rotated it: nothing else forks a family.
OneLivePerFamily ==
    \A s, t \in Tokens :
        Live(s) /\ Live(t) /\ Family(s) = Family(t) =>
            s = t \/ \E r \in Tokens : Family(r) = Family(s) /\ RotatedTwice(r)

RotatingIn(f) == {c \in Calls : pc[c] = "rotating" /\ Family(held[c]) = f}

Dead(f) == \A t \in Tokens : Family(t) = f => ~Live(t)

\* Reuse and logout are final: once all tokens of a family are revoked, no call passes
\* the checks in it any more, and none is issued in it again except by a rotation that
\* had passed them before.
DeadStaysDead ==
    [][\A t \in Tokens : Dead(Family(t)) =>
         /\ RotatingIn(Family(t))' \subseteq RotatingIn(Family(t))
         /\ RotatingIn(Family(t)) = {} => Dead(Family(t))']_vars
============================================================================
