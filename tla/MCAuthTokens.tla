---------------------------- MODULE MCAuthTokens ----------------------------
(* The instance of AuthTokens that TLC checks: requests are interchangeable. *)
EXTENDS AuthTokens, TLC

Symmetry == Permutations(Calls)
=============================================================================
