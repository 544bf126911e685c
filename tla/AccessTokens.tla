---------------------------- MODULE AccessTokens ----------------------------
(***************************************************************************)
(* RefreshTokens with the clock, the access tokens that auth/tokens.py     *)
(* mints, and the WebSocket handshake that takes them.  An access token is *)
(* stateless: nothing revokes it, and it is good until it expires.         *)
(*                                                                         *)
(* Every refresh token is issued with an access token, which goes by the   *)
(* number of its row.                                                      *)
(***************************************************************************)
EXTENDS RefreshTokens

CONSTANTS
    AccessTTL,    \* JWT_ACCESS_TTL_SECONDS
    RefreshTTL,   \* JWT_REFRESH_TTL_SECONDS
    MaxTime       \* bound: the clock

ASSUME TTLAssumption == AccessTTL \in Nat \ {0} /\ RefreshTTL \in Nat /\ MaxTime \in Nat

VARIABLES
    now,        \* the clock
    minted,     \* when each access token was minted, with its row
    session,    \* the access token the open session was started with, 0 if there is none
    over        \* history: since when the families that are over have been

accessVars == <<now, minted, session, over>>
allVars == <<vars, accessVars>>

\* The family can issue no more: all of it is revoked, and no rotation has passed the
\* checks and is still to be written.
IsOver(f) ==
    /\ \A t \in Tokens : Family(t) = f => tokens[t].revoked
    /\ \A c \in Calls : pc[c] = "rotating" => Family(held[c]) # f

InitAccess ==
    /\ Init
    /\ now = 0 /\ minted = <<>> /\ session = 0 /\ over = <<>>

\* _issue: the access token is minted where the row is inserted.
Mint == minted' = [t \in Tokens' |-> IF t \in Tokens THEN minted[t] ELSE now]

Watch ==
    over' = [f \in DOMAIN over \cup {Family(t) : t \in {s \in Tokens : IsOver(Family(s))'}} |->
               IF f \in DOMAIN over THEN over[f] ELSE now]

\* A statement of a call, or the time at which a refresh token expires.
AuthStep ==
    /\ \/ \E c \in Calls :
            \/ Login(c)
            \/ \E t \in Tokens : ReadForRefresh(c, t) \/ ReadForLogout(c, t)
            \/ Rotate(c) \/ RevokeFamily(c) \/ Abort(c)
       \/ \E t \in Tokens : minted[t] + RefreshTTL <= now /\ Expire(t)
    /\ Mint
    /\ Watch
    /\ UNCHANGED <<now, session>>

ClockTicks ==
    /\ now < MaxTime
    /\ now' = now + 1
    /\ UNCHANGED <<vars, minted, session, over>>

\* Mutant: the access token is minted with the TTL of the refresh token.
VerifiesForLonger(t) == now < minted[t] + RefreshTTL

\* mint_access_token sets exp, and verify_access_token refuses the token from then on.
Verifies(t) == now < minted[t] + AccessTTL

\* _auth_handshake: the token is looked at once, when the session starts.
Handshake(t) ==
    /\ Verifies(t)
    /\ session = 0
    /\ session' = t
    /\ UNCHANGED <<vars, now, minted, over>>

SessionEnds ==
    /\ session # 0
    /\ session' = 0
    /\ UNCHANGED <<vars, now, minted, over>>

AccessNext ==
    \/ AuthStep \/ ClockTicks \/ SessionEnds
    \/ \E t \in Tokens : Handshake(t)

AccessSpec == InitAccess /\ [][AccessNext]_allVars

----------------------------------------------------------------------------

\* Logout and reuse end what the family can do: from AccessTTL after it is over no
\* session starts with any of its tokens, however its rotations, revocations and lost
\* calls were interleaved.  A session that is open then goes on.
NoLateSession ==
    [][session' # session /\ session' # 0 /\ Family(session') \in DOMAIN over =>
         now < over[Family(session')] + AccessTTL]_allVars
=============================================================================
