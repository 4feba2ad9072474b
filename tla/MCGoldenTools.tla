---------------------------- MODULE MCGoldenTools ----------------------------
(* GoldenTools for TLC: an application that grows by three BTs, or has      *)
(* three health checks.                                                    *)
EXTENDS GoldenTools

CONSTANTS a1, node

Entities == {a1, node}
Populations ==
    {[plain |-> 1, checks |-> 0], [plain |-> 4, checks |-> 0], [plain |-> 1, checks |-> 3]}
=============================================================================
