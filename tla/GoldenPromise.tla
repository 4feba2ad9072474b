---------------------------- MODULE GoldenPromise ----------------------------
(***************************************************************************)
(* What the golden registry promises: per key at most one golden; each     *)
(* promotion comes into force at most once and, once replaced or           *)
(* forgotten, is never seen again.  There is one copy of the registry;     *)
(* crashes and restarts are not visible.                                   *)
(***************************************************************************)
EXTENDS Integers

CONSTANT Key

VARIABLES
    golden,   \* the promotion in force for each key, 0 for none
    newest,   \* promotions are numbered as they are requested
    open      \* the newest promotion may still come into force

PromiseInit ==
    /\ golden = [k \in Key |-> 0]
    /\ newest = 0
    /\ open = FALSE

Request ==
    /\ ~open
    /\ newest' = newest + 1 /\ open' = TRUE
    /\ UNCHANGED golden

(* The newest promotion comes into force for k.                            *)
Promote(k) ==
    /\ open /\ open' = FALSE
    /\ golden' = [golden EXCEPT ![k] = newest]
    /\ UNCHANGED newest

(* The process died first.                                                 *)
Withdraw == open /\ open' = FALSE /\ UNCHANGED <<golden, newest>>

(* A disk operation raised: no golden is promised any more.                *)
Lose == open' = FALSE /\ golden' = [k \in Key |-> 0] /\ UNCHANGED newest

(* The goldens of S are invalidated or expire.                             *)
Forget(S) ==
    /\ golden' = [k \in Key |-> IF k \in S THEN 0 ELSE golden[k]]
    /\ UNCHANGED <<newest, open>>

PromiseNext ==
    \/ Request \/ Withdraw \/ Lose
    \/ \E k \in Key : Promote(k)
    \/ \E S \in SUBSET Key : Forget(S)

PromiseSpec == PromiseInit /\ [][PromiseNext]_<<golden, newest, open>>
=============================================================================
