------------------------------ MODULE MCStartup ------------------------------
(* Startup for TLC: two controllers, the first with two applications and   *)
(* an RBAC client, the second with none.  A page holds one application.    *)
(*                                                                         *)
(* The second controller is there for what goes wrong at one of several,   *)
(* so its listing is never answered.  One application is there from the    *)
(* start.  Time passes and applications change while the process is down,  *)
(* seeds or serves, and the health tool, which touches nothing of the      *)
(* registry, runs when no other call is open.                              *)
EXTENDS Startup, TLC

CONSTANTS k1, k2, a1, a2

AllHere == [a \in App |-> k1]
Both == <<k1, k2>>

Quick ==
    /\ \A c \in Call : call'[c].stage = "answered" => call[c].at = k1
    /\ world' # world => pc \in {"seeding", "serving", "ended"}
    /\ probe'.open => Asking' = {}

MCSpec == (ServerInit /\ a1 \in present) /\ [][ServerNext /\ Quick]_serverVars /\ Fairness
=============================================================================
