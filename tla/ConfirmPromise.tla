--------------------------- MODULE ConfirmPromise ---------------------------
(***************************************************************************)
(* What the confirmation gate promises the user, without queues, futures   *)
(* or action ids: a tool call of class CONFIRM runs only while its own     *)
(* request is open and after the user has answered that very request with  *)
(* ok, at most once, and one request is open at a time.                    *)
(*                                                                         *)
(* Calls are numbered in the order the model makes them.                   *)
(***************************************************************************)
EXTENDS Naturals

VARIABLES
    calls,      \* how many calls the model has made
    open,       \* the call whose request is open, 0 when there is none
    approved,   \* calls the user has answered with ok
    declined,   \* calls the user has answered without ok
    ran         \* calls that have run

vars == <<calls, open, approved, declined, ran>>

Answered == approved \cup declined

Init ==
    /\ calls = 0 /\ open = 0
    /\ approved = {} /\ declined = {} /\ ran = {}

Propose ==
    /\ calls' \in Nat /\ calls' > calls
    /\ UNCHANGED <<open, approved, declined, ran>>

Ask(n) ==
    /\ open = 0
    /\ n \notin Answered \cup ran
    /\ open' = n
    /\ UNCHANGED <<calls, approved, declined, ran>>

\* The answer may come when the request is no longer open.
Approve(n) ==
    /\ n \notin Answered
    /\ approved' = approved \cup {n}
    /\ UNCHANGED <<calls, open, declined, ran>>

Decline(n) ==
    /\ n \notin Answered
    /\ declined' = declined \cup {n}
    /\ UNCHANGED <<calls, open, approved, ran>>

Run ==
    /\ open \in approved \ ran
    /\ ran' = ran \cup {open}
    /\ open' = 0
    /\ UNCHANGED <<calls, approved, declined>>

\* Declined, interrupted or failed: the request is closed and its call does not run.
Withdraw ==
    /\ open # 0
    /\ open' = 0
    /\ UNCHANGED <<calls, approved, declined, ran>>

Next ==
    \/ Propose
    \/ \E n \in 1..calls : Ask(n) \/ Approve(n) \/ Decline(n)
    \/ Run
    \/ Withdraw

Spec == Init /\ [][Next]_vars
=============================================================================
