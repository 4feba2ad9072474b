---------------------------- MODULE TwoLayerCache ----------------------------
(***************************************************************************)
(* The class TwoLayerCache of utils/cache.py: get_or_fetch, which          *)
(* validates what it reads, and the invalidations.                         *)
(*                                                                         *)
(* get_or_fetch suspends only at fetch_fn: _lock is never held across an   *)
(* await, so nobody waits for it.  It is not held during the fetch, so an  *)
(* invalidation can fall between a miss and the store.                     *)
(***************************************************************************)
EXTENDS Integers

CONSTANTS
    LayerKey,     \* keys
    OnDisk,       \* keys read with persist_to_disk=True
    Lifetime,     \* per key, the ttl of its data type
    LongerOnDisk, \* the factor 10 of get_or_fetch
    Reader,       \* get_or_fetch calls that may be open at once
    LastTime,     \* bound: last value of the clock
    MaxFetch,     \* bound: fetches that return
    MaxForget,    \* bound: invalidations
    MaxCrash,     \* bound: restarts of the process
    MaxFault      \* bound: disk operations that raise

ASSUME LayersAssumption ==
    /\ OnDisk \subseteq LayerKey /\ Lifetime \in [LayerKey -> Nat \ {0}] /\ LongerOnDisk \in Nat \ {0}
    /\ {LastTime, MaxFetch, MaxForget, MaxCrash, MaxFault} \subseteq Nat

VARIABLES
    time,
    l1,      \* the TTLCache of the key's data type
    l2,      \* _disk
    fetch,   \* the keys open calls await fetch_fn for
    fetched, \* fetches that returned; their results are numbered by it
    forgotten, \* history: per key, invalidations that returned
    torn,    \* history: keys whose last write to disk raised
    answer,  \* history: the last answer from a layer
    crashes,
    broken   \* disk operations that raised

layers == <<l1, l2>>
counters == <<crashes, broken>>
layerVars == <<time, layers, fetch, fetched, forgotten, torn, answer, counters>>

(* A stored result: usable, or a dict that does not fit the model.  None   *)
(* is what an absent key reads as, so storing it leaves nothing.           *)
Form == {"usable", "misfit", "none"}
Item == [ver : Nat, form : Form, exp : Nat]
NoItem == [ver |-> 0, form |-> "none", exp |-> 0]
NoKey == <<>>

LayersInit ==
    /\ time = 0
    /\ l1 = [k \in LayerKey |-> NoItem] /\ l2 = [k \in LayerKey |-> NoItem]
    /\ fetch = [c \in Reader |-> NoKey] /\ fetched = 0
    /\ forgotten = [k \in LayerKey |-> 0] /\ torn = {} /\ answer = <<>>
    /\ crashes = 0 /\ broken = 0

-----------------------------------------------------------------------------
(* get_or_fetch                                                            *)

(* _try_validate accepts what the layer holds.                             *)
Usable(layer, k) == layer[k].form = "usable" /\ time < layer[k].exp

(* A dict that does not fit is evicted from the layer it was found in.     *)
Cleaned(layer, k) ==
    IF layer[k].form = "misfit" /\ time < layer[k].exp THEN [layer EXCEPT ![k] = NoItem] ELSE layer

HitMemory(k) ==
    /\ Usable(l1, k)
    /\ answer' = <<k, l1[k].ver>>
    /\ UNCHANGED <<time, layers, fetch, fetched, forgotten, torn, counters>>

(* Found on disk only: copied to the memory for another full ttl.          *)
HitDisk(k) ==
    /\ k \in OnDisk /\ ~Usable(l1, k) /\ Usable(l2, k)
    /\ answer' = <<k, l2[k].ver>>
    /\ l1' = [l1 EXCEPT ![k] = [l2[k] EXCEPT !.exp = time + Lifetime[k]]]
    /\ UNCHANGED <<time, l2, fetch, fetched, forgotten, torn, counters>>

MissBoth(c, k) ==
    /\ fetch[c] = NoKey /\ ~Usable(l1, k) /\ ~(k \in OnDisk /\ Usable(l2, k))
    /\ l1' = Cleaned(l1, k)
    /\ l2' = IF k \in OnDisk THEN Cleaned(l2, k) ELSE l2
    /\ fetch' = [fetch EXCEPT ![c] = <<k>>]
    /\ UNCHANGED <<time, fetched, forgotten, torn, answer, counters>>

(* The result is stored whether it fits the model or not.                  *)
Kept(form, ttl) ==
    IF form = "none" THEN NoItem ELSE [ver |-> fetched + 1, form |-> form, exp |-> time + ttl]

Written(k, form) ==
    /\ l1' = [l1 EXCEPT ![k] = Kept(form, Lifetime[k])]
    /\ l2' = IF k \in OnDisk THEN [l2 EXCEPT ![k] = Kept(form, LongerOnDisk * Lifetime[k])] ELSE l2

Returns(c, k, form) ==
    /\ fetch[c] = <<k>> /\ fetched < MaxFetch
    /\ Written(k, form)
    /\ fetch' = [fetch EXCEPT ![c] = NoKey] /\ fetched' = fetched + 1
    /\ torn' = torn \ {k}
    /\ UNCHANGED <<time, forgotten, answer, counters>>

(* _disk.set raises after the memory was written.                          *)
StoreRaises(c, k, form) ==
    /\ fetch[c] = <<k>> /\ k \in OnDisk /\ fetched < MaxFetch /\ broken < MaxFault
    /\ l1' = [l1 EXCEPT ![k] = Kept(form, Lifetime[k])]
    /\ fetch' = [fetch EXCEPT ![c] = NoKey] /\ fetched' = fetched + 1
    /\ torn' = torn \cup {k} /\ broken' = broken + 1
    /\ UNCHANGED <<time, l2, forgotten, answer, crashes>>

(* fetch_fn raises, or the call is cancelled.                              *)
FetchRaises(c) ==
    /\ fetch[c] # NoKey /\ fetch' = [fetch EXCEPT ![c] = NoKey]
    /\ UNCHANGED <<time, layers, fetched, forgotten, torn, answer, counters>>

-----------------------------------------------------------------------------
(* invalidate, invalidate_prefix                                           *)

Without(layer, S) == [k \in LayerKey |-> IF k \in S THEN NoItem ELSE layer[k]]

(* Mutant: only keys found in the memory are deleted from disk.            *)
InvalidatedMemoryFirst(S) ==
    /\ l1' = Without(l1, S)
    /\ l2' = Without(l2, {k \in S : l1[k] # NoItem /\ time < l1[k].exp})

Invalidated(S) == l1' = Without(l1, S) /\ l2' = Without(l2, S)

Invalidate(S) ==
    /\ \A k \in S : forgotten[k] < MaxForget
    /\ Invalidated(S)
    /\ forgotten' = [k \in LayerKey |-> IF k \in S THEN forgotten[k] + 1 ELSE forgotten[k]]
    /\ torn' = torn \ S
    /\ UNCHANGED <<time, fetch, fetched, answer, counters>>

(* _disk.delete raises half way: D is gone from disk already.              *)
InvalidateRaises(S, D) ==
    /\ broken < MaxFault /\ broken' = broken + 1
    /\ l1' = Without(l1, S) /\ l2' = Without(l2, D)
    /\ UNCHANGED <<time, fetch, fetched, forgotten, torn, answer, crashes>>

-----------------------------------------------------------------------------
(* The environment                                                         *)

EvictMemory(k) ==
    /\ l1[k].exp > time /\ l1' = [l1 EXCEPT ![k] = NoItem]
    /\ UNCHANGED <<time, l2, fetch, fetched, forgotten, torn, answer, counters>>

RestartLayers ==
    /\ crashes < MaxCrash /\ crashes' = crashes + 1
    /\ l1' = [k \in LayerKey |-> NoItem] /\ fetch' = [c \in Reader |-> NoKey]
    /\ UNCHANGED <<time, l2, fetched, forgotten, torn, answer, broken>>

TickLayers ==
    /\ time < LastTime /\ time' = time + 1
    /\ UNCHANGED <<layers, fetch, fetched, forgotten, torn, answer, counters>>

(* invalidate names one key; the keys of one prefix are any set of them.   *)
LayersNext ==
    \/ \E k \in LayerKey : HitMemory(k) \/ HitDisk(k) \/ EvictMemory(k)
    \/ \E c \in Reader, k \in LayerKey : MissBoth(c, k)
    \/ \E c \in Reader, k \in LayerKey, form \in Form : Returns(c, k, form) \/ StoreRaises(c, k, form)
    \/ \E c \in Reader : FetchRaises(c)
    \/ \E S \in SUBSET LayerKey \ {{}} : Invalidate(S) \/ \E D \in SUBSET S \ {S} : InvalidateRaises(S, D)
    \/ RestartLayers \/ TickLayers

LayersSpec == LayersInit /\ [][LayersNext]_layerVars

-----------------------------------------------------------------------------
(* One type invariant; no layer holds an entry beyond its lifetime from    *)
(* now, and only persisted keys are on disk.                               *)
LayersTypeOK ==
    /\ time \in 0..LastTime /\ fetched \in 0..MaxFetch /\ torn \subseteq OnDisk
    /\ l1 \in [LayerKey -> Item] /\ l2 \in [LayerKey -> Item]
    /\ fetch \in [Reader -> {NoKey} \cup {<<k>> : k \in LayerKey}]
    /\ forgotten \in [LayerKey -> 0..MaxForget] /\ crashes \in 0..MaxCrash /\ broken \in 0..MaxFault
    /\ answer = <<>> \/ answer \in LayerKey \X (1..fetched)
    /\ \A k \in LayerKey :
        /\ l1[k].exp <= time + Lifetime[k] /\ l2[k].exp <= time + LongerOnDisk * Lifetime[k]
        /\ l2[k] # NoItem => k \in OnDisk

(* What a reader of the key would be answered with.                        *)
Shown(k) ==
    IF Usable(l1, k) THEN l1[k].ver
    ELSE IF k \in OnDisk /\ Usable(l2, k) THEN l2[k].ver ELSE 0

OneCopy == INSTANCE OneCopyCache WITH
    Key <- LayerKey, Call <- Reader, copy <- [k \in LayerKey |-> Shown(k)], fetching <- fetch

(* The layers look like one copy: what an invalidation removed, and what   *)
(* a newer result replaced, never comes back by promotion, expiry,         *)
(* eviction or a restart, only by a fetch that was in flight; a result     *)
(* that does not fit the model is never answered with a second time.       *)
(* Where the disk raised, the older copy may show until the next store.    *)
ImplementsOneCopy == OneCopy!OneSpec
=============================================================================
