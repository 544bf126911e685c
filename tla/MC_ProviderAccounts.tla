------------------------- MODULE MC_ProviderAccounts -------------------------
(***************************************************************************)
(* ProviderAccounts with two Google accounts: g1 has a verified email, g2  *)
(* has the same one or, in other id_tokens, none that is verified.         *)
(***************************************************************************)
EXTENDS ProviderAccounts, TLC

CONSTANTS g1, g2, e1

MCClaims ==
    {[subject |-> g1, email |-> e1], [subject |-> g2, email |-> NoEmail],
     [subject |-> g2, email |-> e1]}

Symmetry == Permutations(Requests) \cup Permutations(Scopes)
=============================================================================
