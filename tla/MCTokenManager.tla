--------------------------- MODULE MCTokenManager ---------------------------
(* TokenManager for TLC: tool calls are interchangeable.                   *)
EXTENDS TokenManager, TLC

CallerSymmetry == Permutations(Caller)
=============================================================================
