----------------------------- MODULE MCAppAccess -----------------------------
(* AppAccess for TLC.  MCEdge: u1 reaches a role directly or through a     *)
(* group; it opens one of two applications.  MCEdgeTwo: u1 has a direct    *)
(* role, u2 has none.                                                      *)
EXTENDS AppAccess, TLC

CONSTANTS c1, c2, u1, u2, g1, r1, a1, a2

MCEdge == {<<u1, r1>>, <<u1, g1>>, <<g1, r1>>, <<r1, a1>>}
MCEdgeTwo == {<<u1, r1>>, <<r1, a1>>}
MCInitial == MCEdge \ {<<g1, r1>>}
CallerSymmetry == Permutations(Caller)
=============================================================================
