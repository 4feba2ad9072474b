----------------------------- MODULE MCToolCalls -----------------------------
(* ToolCalls for TLC: tools with and without a gate, an application, a     *)
(* licence and an audit entry, with requests of every kind; roles of two   *)
(* tiers, and none.                                                        *)
EXTENDS ToolCalls, TLC

CONSTANTS c1, c2, u1, k1, k2

MCTools == {get_server_health, correlate_eum_to_bt, archive_snapshot}
MCNameSets == {{}, {"other", "sre"}, {"alerting"}}
MCInitHeld == (k1 :> (u1 :> {"alerting"})) @@ (k2 :> (u1 :> {"other", "sre"}))
CallSymmetry == Permutations(Call)
=============================================================================
