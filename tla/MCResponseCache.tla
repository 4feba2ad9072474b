--------------------------- MODULE MCResponseCache ---------------------------
(* The two caches of utils/cache.py for TLC.                               *)
(*                                                                         *)
(* ResponseCache: the business transactions of an application are on disk  *)
(* as well, its health violations are in the memory only and may be an     *)
(* empty list.  TwoLayerCache: the roles of a user are on disk as well,    *)
(* her application list is not.                                            *)
(*                                                                         *)
(* Two keys of the first do not touch one another, and the two caches have *)
(* nothing in common, so a behaviour uses one key of the one, or the other.*)
EXTENDS ResponseCache, TwoLayerCache, FiniteSets, TLC

CONSTANTS c1, c2, roles, lists

Lifetimes == [k \in LayerKey |-> 1]
TTLs == [k \in Key |-> 1]

CallSymmetry == Permutations(Call)

Used(k) ==
    source[k] # 1 \/ last[k] # 0 \/ mem[k] # NoEntry \/ disk[k] # NoEntry \/ Open(k) # {}
OneKey == Cardinality({k \in Key : Used(k)}) <= 1
OneCache == Init \/ LayersInit

MCInit == Init /\ LayersInit

MCNext ==
    \/ Next /\ UNCHANGED layerVars
    \/ LayersNext /\ UNCHANGED vars

MCSpec == MCInit /\ [][MCNext /\ (OneKey /\ OneCache)']_<<vars, layerVars>>
=============================================================================
