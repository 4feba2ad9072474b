---------------------------- MODULE ResponseCache ----------------------------
(***************************************************************************)
(* The module-level cache of utils/cache.py and the tools of main.py that  *)
(* answer from it: an in-memory layer of one fixed TTL, lost with the      *)
(* process, over a disk layer that only some answers are written to.       *)
(*                                                                         *)
(* get and set never suspend (nobody else holds _mem_lock across an        *)
(* await); the request to the controller between them does.                *)
(***************************************************************************)
EXTENDS Integers

CONSTANTS
    Key,         \* cache keys: user, controller, data type, identifiers
    Forceable,   \* keys of tools with include_health_checks, which skips the cache
    Persisted,   \* keys stored with persist=True
    MaybeEmpty,  \* keys whose answer can be an empty list, which is falsy
    CACHE_TTLS,  \* per key, the TTL passed to set
    MemTTL,      \* ttl of _mem
    DiskFactor,  \* the factor 10 of set
    Call,        \* tool calls that may be open at once
    MaxTime,     \* bound: last value of the clock
    MaxVersion,  \* bound: last version of the data on the controller
    MaxRestarts, \* bound: restarts of the process
    MaxFaults    \* bound: disk writes that raise

ASSUME CacheAssumption ==
    /\ Forceable \subseteq Key /\ Persisted \subseteq Key /\ MaybeEmpty \subseteq Key
    /\ CACHE_TTLS \in [Key -> Nat \ {0}] /\ MemTTL \in Nat \ {0} /\ DiskFactor \in Nat \ {0}
    /\ MaxTime \in Nat /\ MaxVersion \in Nat /\ MaxRestarts \in Nat /\ MaxFaults \in Nat
    /\ Key # {}

VARIABLES
    now,
    source,    \* version of each key's data on the controller
    mem,       \* _mem
    disk,      \* _disk
    call,
    served,    \* history: the last answer given
    last,      \* history: last version served for each key
    raced,     \* history: keys with two requests open at once, or a failed write
    restarts,
    faults

bounds == <<restarts, faults>>
vars == <<now, source, mem, disk, call, served, last, raced, bounds>>

(* A copy of an answer: its version, whether it is truthy, when it came    *)
(* from the controller and when the copy expires.                          *)
Entry == [ver : Nat, full : BOOLEAN, at : Nat, exp : Nat]
NoEntry == [ver |-> 0, full |-> FALSE, at |-> 0, exp |-> 0]

NoCall == [stage |-> "idle"]
CallState ==
    {NoCall}
    \cup [stage : {"asked"}, key : Key]
    \cup [stage : {"answered"}, key : Key, ver : Nat, full : BOOLEAN]

Init ==
    /\ now = 0 /\ restarts = 0 /\ faults = 0
    /\ source = [k \in Key |-> 1]
    /\ mem = [k \in Key |-> NoEntry]
    /\ disk = [k \in Key |-> NoEntry]
    /\ call = [c \in Call |-> NoCall]
    /\ served = [key |-> CHOOSE k \in Key : TRUE, ver |-> 0, age |-> 0]
    /\ last = [k \in Key |-> 0]
    /\ raced = {}

-----------------------------------------------------------------------------
(* cache.get, cache.set                                                    *)

Live(e) == now < e.exp

(* Mutant: a disk hit renews the entry on disk as well.                    *)
PromotedRenewing(k) ==
    /\ mem' = IF ~Live(mem[k]) /\ Live(disk[k])
              THEN [mem EXCEPT ![k] = [disk[k] EXCEPT !.exp = now + MemTTL]] ELSE mem
    /\ disk' = IF ~Live(mem[k]) /\ Live(disk[k])
               THEN [disk EXCEPT ![k].exp = now + DiskFactor * CACHE_TTLS[k]] ELSE disk

(* get: the memory, then the disk, whose entry is copied to the memory     *)
(* for another full MemTTL.                                                *)
Found(k) == IF Live(mem[k]) THEN mem[k] ELSE disk[k]

Promoted(k) ==
    /\ mem' = IF ~Live(mem[k]) /\ Live(disk[k])
              THEN [mem EXCEPT ![k] = [disk[k] EXCEPT !.exp = now + MemTTL]] ELSE mem
    /\ UNCHANGED disk

(* set, with the disk write raising or not.                                *)
Copy(c, ttl) == [ver |-> call[c].ver, full |-> call[c].full, at |-> now, exp |-> now + ttl]

(* Mutant: a key that is on disk already is left alone.                    *)
StoredOnce(c, failed) ==
    LET k == call[c].key IN
    /\ mem' = [mem EXCEPT ![k] = Copy(c, MemTTL)]
    /\ disk' = IF k \in Persisted /\ ~failed /\ disk[k] = NoEntry
               THEN [disk EXCEPT ![k] = Copy(c, DiskFactor * CACHE_TTLS[k])] ELSE disk

(* Mutant: the memory keeps an entry without limit.                        *)
StoredForever(c, failed) ==
    LET k == call[c].key IN
    /\ mem' = [mem EXCEPT ![k] = Copy(c, MaxTime + MemTTL + 1)]
    /\ UNCHANGED disk

Stored(c, failed) ==
    LET k == call[c].key IN
    /\ mem' = [mem EXCEPT ![k] = Copy(c, MemTTL)]
    /\ disk' = IF k \in Persisted /\ ~failed
               THEN [disk EXCEPT ![k] = Copy(c, DiskFactor * CACHE_TTLS[k])] ELSE disk

-----------------------------------------------------------------------------
(* A tool that reads through the cache                                     *)

Open(k) == {c \in Call : call[c].stage # "idle" /\ call[c].key = k}

(* What a tool hands to its caller.                                        *)
Serves(k, e) ==
    /\ served' = [key |-> k, ver |-> e.ver, age |-> now - e.at]
    /\ last' = [last EXCEPT ![k] = e.ver]

CanServe(k, forced) == Live(Found(k)) /\ Found(k).full /\ ~forced

Hit(c, k) ==
    /\ call[c] = NoCall /\ CanServe(k, FALSE)
    /\ Promoted(k)
    /\ Serves(k, Found(k))
    /\ UNCHANGED <<now, source, call, raced, bounds>>

Miss(c, k, forced) ==
    /\ call[c] = NoCall /\ ~CanServe(k, forced) /\ (forced => k \in Forceable)
    /\ Promoted(k)
    /\ call' = [call EXCEPT ![c] = [stage |-> "asked", key |-> k]]
    /\ raced' = IF Open(k) = {} THEN raced ELSE raced \cup {k}
    /\ UNCHANGED <<now, source, served, last, bounds>>

(* The controller computes its answer; it arrives later.                   *)
Answer(c, full) ==
    /\ call[c].stage = "asked" /\ (full \/ call[c].key \in MaybeEmpty)
    /\ call' = [call EXCEPT ![c] = [stage |-> "answered", key |-> @.key,
                                    ver |-> source[@.key], full |-> full]]
    /\ UNCHANGED <<now, source, mem, disk, served, last, raced, bounds>>

Store(c) ==
    /\ call[c].stage = "answered"
    /\ Stored(c, FALSE)
    /\ Serves(call[c].key, Copy(c, MemTTL))
    /\ call' = [call EXCEPT ![c] = NoCall]
    /\ UNCHANGED <<now, source, raced, bounds>>

(* The disk write raises: the tool fails, the memory keeps the answer.     *)
StoreFails(c) ==
    /\ call[c].stage = "answered" /\ call[c].key \in Persisted /\ faults < MaxFaults
    /\ Stored(c, TRUE)
    /\ faults' = faults + 1
    /\ raced' = raced \cup {call[c].key}
    /\ call' = [call EXCEPT ![c] = NoCall]
    /\ UNCHANGED <<now, source, served, last, restarts>>

RequestFails(c) ==
    /\ call[c].stage # "idle"
    /\ call' = [call EXCEPT ![c] = NoCall]
    /\ UNCHANGED <<now, source, mem, disk, served, last, raced, bounds>>

-----------------------------------------------------------------------------
(* The environment                                                         *)

(* _mem is full and another key is stored.                                 *)
Evict(k) ==
    /\ Live(mem[k])
    /\ mem' = [mem EXCEPT ![k] = NoEntry]
    /\ UNCHANGED <<now, source, disk, call, served, last, raced, bounds>>

Restart ==
    /\ restarts < MaxRestarts
    /\ restarts' = restarts + 1
    /\ mem' = [k \in Key |-> NoEntry]
    /\ call' = [c \in Call |-> NoCall]
    /\ UNCHANGED <<now, source, disk, served, last, raced, faults>>

Change(k) ==
    /\ source[k] < MaxVersion
    /\ source' = [source EXCEPT ![k] = @ + 1]
    /\ UNCHANGED <<now, mem, disk, call, served, last, raced, bounds>>

Tick ==
    /\ now < MaxTime
    /\ now' = now + 1
    /\ UNCHANGED <<source, mem, disk, call, served, last, raced, bounds>>

Next ==
    \/ \E c \in Call, k \in Key : Hit(c, k) \/ \E forced \in BOOLEAN : Miss(c, k, forced)
    \/ \E c \in Call, full \in BOOLEAN : Answer(c, full)
    \/ \E c \in Call : Store(c) \/ StoreFails(c) \/ RequestFails(c)
    \/ \E k \in Key : Evict(k) \/ Change(k)
    \/ Restart \/ Tick

Spec == Init /\ [][Next]_vars

-----------------------------------------------------------------------------
(* Longest age an answer can reach: on disk until the disk copy expires,   *)
(* copied to the memory just before, and served until that copy expires.   *)
MaxAge(k) == MemTTL + (IF k \in Persisted THEN DiskFactor * CACHE_TTLS[k] ELSE 0)

(* One type invariant; a copy outlives neither its layer's TTL from now    *)
(* nor, counted from the answer, MaxAge, and only persisted keys are on    *)
(* disk.                                                                   *)
TypeOK ==
    /\ now \in Nat /\ restarts \in Nat /\ faults \in Nat
    /\ source \in [Key -> Nat] /\ last \in [Key -> Nat] /\ raced \subseteq Key
    /\ mem \in [Key -> Entry] /\ disk \in [Key -> Entry]
    /\ call \in [Call -> CallState]
    /\ served \in [key : Key, ver : Nat, age : Nat]
    /\ \A k \in Key :
        /\ mem[k].at <= now /\ mem[k].exp <= now + MemTTL
        /\ disk[k].at <= now /\ disk[k].exp <= disk[k].at + DiskFactor * CACHE_TTLS[k]
        /\ disk[k].exp > 0 => k \in Persisted

(* No answer is served past MaxAge, however often its entry moves between  *)
(* the layers, is evicted or survives a restart.                           *)
ServedAgeBound == served.age <= MaxAge(served.key)

(* Evictions, expiries and restarts never make the cache answer with older *)
(* data than it already has for the key, unless two requests for the key   *)
(* overlapped or a disk write raised.                                      *)
ServedMovesForward ==
    [][\A k \in Key : last'[k] >= last[k] \/ k \in raced]_vars
=============================================================================
