---------------------------- MODULE OneCopyCache ----------------------------
(***************************************************************************)
(* What TwoLayerCache promises: per key at most one copy, which only a     *)
(* fetch of that key brings in, which an invalidation removes, and which   *)
(* is what every caller is answered with until then.  Layers are not       *)
(* visible.                                                                *)
(***************************************************************************)
EXTENDS Integers

CONSTANTS Key, Call

VARIABLES
    copy,      \* number of the fetch each key is answered from, 0 for none
    fetching,  \* the keys the open fetches are for
    fetched,   \* fetches are numbered as they return
    forgotten, \* per key, invalidations that returned
    torn,      \* keys whose last write to disk raised
    answer     \* the last answer from the copy, and its key

NoKey == <<>>

OneInit ==
    /\ copy = [k \in Key |-> 0] /\ fetched = 0
    /\ fetching = [c \in Call |-> NoKey]
    /\ forgotten = [k \in Key |-> 0] /\ torn = {}
    /\ answer = <<>>

Serve(k) ==
    /\ copy[k] # 0 /\ answer' = <<k, copy[k]>>
    /\ UNCHANGED <<copy, fetching, fetched, forgotten, torn>>

Begin(c, k) ==
    /\ copy[k] = 0 /\ fetching[c] = NoKey
    /\ fetching' = [fetching EXCEPT ![c] = <<k>>]
    /\ UNCHANGED <<copy, fetched, forgotten, torn, answer>>

(* The fetch returns: its result is the copy, or cannot be kept.           *)
Fill(c, k) ==
    /\ fetching[c] = <<k>> /\ fetching' = [fetching EXCEPT ![c] = NoKey]
    /\ fetched' = fetched + 1
    /\ \E v \in {0, fetched + 1} : copy' = [copy EXCEPT ![k] = v]
    /\ torn' = torn \ {k}
    /\ UNCHANGED <<forgotten, answer>>

(* The same, with the write to disk raising: an old copy may remain.       *)
FillTorn(c, k) ==
    /\ fetching[c] = <<k>> /\ fetching' = [fetching EXCEPT ![c] = NoKey]
    /\ fetched' = fetched + 1
    /\ \E v \in 0..(fetched + 1) : copy' = [copy EXCEPT ![k] = v]
    /\ torn' = torn \cup {k}
    /\ UNCHANGED <<forgotten, answer>>

FetchFails(c) ==
    /\ fetching[c] # NoKey /\ fetching' = [fetching EXCEPT ![c] = NoKey]
    /\ UNCHANGED <<copy, fetched, forgotten, torn, answer>>

Forget(S) ==
    /\ copy' = [k \in Key |-> IF k \in S THEN 0 ELSE copy[k]]
    /\ forgotten' = [k \in Key |-> IF k \in S THEN forgotten[k] + 1 ELSE forgotten[k]]
    /\ torn' = torn \ S
    /\ UNCHANGED <<fetching, fetched, answer>>

(* Copies expire or are evicted; only where a write was torn may an older  *)
(* one come to light.                                                      *)
Fade ==
    /\ \E new \in [Key -> 0..fetched] :
        /\ \A k \in Key : new[k] \in {copy[k], 0} \/ (k \in torn /\ new[k] <= fetched)
        /\ copy' = new
    /\ fetching' \in {fetching, [c \in Call |-> NoKey]}
    /\ UNCHANGED <<fetched, forgotten, torn, answer>>

OneNext ==
    \/ \E k \in Key : Serve(k)
    \/ \E c \in Call, k \in Key : Begin(c, k) \/ Fill(c, k) \/ FillTorn(c, k)
    \/ \E c \in Call : FetchFails(c)
    \/ \E S \in SUBSET Key : Forget(S)
    \/ Fade

OneSpec == OneInit /\ [][OneNext]_<<copy, fetching, fetched, forgotten, torn, answer>>
=============================================================================
