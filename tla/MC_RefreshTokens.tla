------------------------- MODULE MC_RefreshTokens -------------------------
(***************************************************************************)
(* AccessTokens, and so RefreshTokens, with calls that are interchangeable. *)
(***************************************************************************)
EXTENDS AccessTokens, TLC

CallSymmetry == Permutations(Calls)
============================================================================
