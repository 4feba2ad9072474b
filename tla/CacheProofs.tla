----------------------------- MODULE CacheProofs -----------------------------
(***************************************************************************)
(* Theorems about the two caches of utils/cache.py, for every set of keys, *)
(* calls and readers and every lifetime.                                   *)
(*                                                                         *)
(* ResponseCache: an answer is never served past MaxAge.  The copies on    *)
(* disk are bounded from the moment the answer came (TypeOK); those in     *)
(* memory need AgeInv, because a copy made from the disk is bounded by     *)
(* what was left of the disk's.                                            *)
(*                                                                         *)
(* TwoLayerCache: its two layers, with their different lifetimes,          *)
(* promotion, eviction, restarts and a disk that may raise, implement the  *)
(* single copy of OneCopyCache.                                            *)
(***************************************************************************)
EXTENDS ResponseCache, TwoLayerCache, TLAPS

(* ResponseCache                                                           *)

AgeInv ==
    /\ TypeOK
    /\ \A k \in Key : mem[k].exp <= mem[k].at + MaxAge(k)
    /\ ServedAgeBound

-----------------------------------------------------------------------------
(* What CacheAssumption says of the derived constants.                     *)
LEMMA Bounds ==
    /\ MemTTL \in Nat /\ MemTTL > 0
    /\ \A k \in Key : DiskFactor * CACHE_TTLS[k] \in Nat /\ MaxAge(k) \in Nat
    /\ \A k \in Key : MemTTL <= MaxAge(k)
    /\ \A k \in Persisted : k \in Key /\ MaxAge(k) = MemTTL + DiskFactor * CACHE_TTLS[k]
    /\ (CHOOSE k \in Key : TRUE) \in Key
    /\ NoEntry \in Entry /\ NoEntry.exp = 0 /\ NoEntry.at = 0
<1>1. MemTTL \in Nat /\ MemTTL > 0 /\ DiskFactor \in Nat /\ CACHE_TTLS \in [Key -> Nat \ {0}]
  BY CacheAssumption
<1>2. \A k \in Key : DiskFactor * CACHE_TTLS[k] \in Nat
  <2>1. TAKE k \in Key
  <2>2. CACHE_TTLS[k] \in Nat BY <1>1
  <2> QED BY <1>1, <2>2
<1>3. \A k \in Key : MaxAge(k) \in Nat /\ MemTTL <= MaxAge(k)
  <2>1. TAKE k \in Key
  <2> DEFINE d == DiskFactor * CACHE_TTLS[k]
  <2>2. d \in Nat BY <1>2
  <2>3. MaxAge(k) = MemTTL + (IF k \in Persisted THEN d ELSE 0) BY DEF MaxAge
  <2> HIDE DEF d
  <2> QED BY <1>1, <2>2, <2>3
<1>4. \A k \in Persisted : k \in Key /\ MaxAge(k) = MemTTL + DiskFactor * CACHE_TTLS[k]
  BY CacheAssumption DEF MaxAge
<1>5. (CHOOSE k \in Key : TRUE) \in Key
  BY CacheAssumption
<1>6. NoEntry \in Entry /\ NoEntry.exp = 0 /\ NoEntry.at = 0
  BY <1>5 DEF NoEntry, Entry
<1> QED BY <1>1, <1>2, <1>3, <1>4, <1>5, <1>6

LEMMA InitAge == Init => AgeInv
<1> SUFFICES ASSUME Init PROVE AgeInv
  OBVIOUS
<1> USE Bounds
<1>1. now = 0 /\ \A k \in Key : mem[k] = NoEntry /\ disk[k] = NoEntry
  BY DEF Init
<1>2. mem \in [Key -> Entry] /\ disk \in [Key -> Entry] /\ call \in [Call -> CallState]
  BY DEF Init, CallState
<1>3. served \in [key : Key, ver : Nat, age : Nat]
      /\ served.age = 0
  BY DEF Init
<1>4. \A k \in Key :
        /\ mem[k].at <= now /\ mem[k].exp <= now + MemTTL
        /\ disk[k].at <= now /\ disk[k].exp <= disk[k].at + DiskFactor * CACHE_TTLS[k]
        /\ disk[k].exp > 0 => k \in Persisted
        /\ mem[k].exp <= mem[k].at + MaxAge(k)
  <2>1. TAKE k \in Key
  <2> DEFINE d == DiskFactor * CACHE_TTLS[k]
  <2>2. d \in Nat /\ MaxAge(k) \in Nat OBVIOUS
  <2> HIDE DEF d
  <2>3. disk[k].exp <= disk[k].at + d BY <1>1, <2>2
  <2> QED BY <1>1, <2>2, <2>3 DEF d
<1>5. /\ now \in Nat /\ restarts \in Nat /\ faults \in Nat
      /\ source \in [Key -> Nat] /\ last \in [Key -> Nat] /\ raced \subseteq Key
  BY DEF Init
<1> QED BY <1>2, <1>3, <1>4, <1>5 DEF AgeInv, TypeOK, ServedAgeBound

-----------------------------------------------------------------------------
(* What one copy must satisfy, in the memory and on disk.                  *)
MemOK(e, k, t) == e \in Entry /\ e.at <= t /\ e.exp <= t + MemTTL /\ e.exp <= e.at + MaxAge(k)
DiskOK(e, k, t) ==
    /\ e \in Entry /\ e.at <= t /\ e.exp <= e.at + DiskFactor * CACHE_TTLS[k]
    /\ e.exp > 0 => k \in Persisted

(* Every copy keeps its bounds as time passes.                             *)
LEMMA CopiesAge ==
    ASSUME NEW k \in Key, NEW t \in Nat, NEW u \in Nat, t <= u,
           NEW e
    PROVE  (MemOK(e, k, t) => MemOK(e, k, u)) /\ (DiskOK(e, k, t) => DiskOK(e, k, u))
<1>1. MemOK(e, k, t) => MemOK(e, k, u)
  BY Bounds DEF MemOK, Entry
<1>2. DiskOK(e, k, t) => DiskOK(e, k, u)
  BY DEF DiskOK, Entry
<1> QED BY <1>1, <1>2

(* A live disk copy is no older than the disk TTL, and its promotion to    *)
(* the memory is a good memory copy.                                       *)
LEMMA Promotion ==
    ASSUME NEW k \in Key, NEW t \in Nat, NEW e, DiskOK(e, k, t), t < e.exp
    PROVE  MemOK([e EXCEPT !.exp = t + MemTTL], k, t) /\ t - e.at <= MaxAge(k)
<1> DEFINE d == DiskFactor * CACHE_TTLS[k]
<1>1. e \in Entry /\ e.at <= t /\ e.exp <= e.at + d BY DEF DiskOK
<1>2. d \in Nat BY Bounds
<1>3. MaxAge(k) = MemTTL + d
  <2>1. k \in Persisted BY <1>1 DEF DiskOK, Entry
  <2> QED BY <2>1, Bounds
<1> HIDE DEF d
<1> DEFINE f == [e EXCEPT !.exp = t + MemTTL]
<1>4. f \in Entry /\ f.at = e.at /\ f.exp = t + MemTTL BY <1>1, Bounds DEF Entry
<1>5. t - e.at <= MaxAge(k) /\ t + MemTTL <= e.at + MaxAge(k)
  BY <1>1, <1>2, <1>3, Bounds DEF Entry
<1> HIDE DEF f
<1>6. MemOK(f, k, t) BY <1>1, <1>4, <1>5, Bounds DEF MemOK, Entry
<1> QED BY <1>5, <1>6 DEF f

(* A live memory copy is no older than MaxAge.                             *)
LEMMA MemoryAge ==
    ASSUME NEW k \in Key, NEW t \in Nat, NEW e, MemOK(e, k, t), t < e.exp
    PROVE  t - e.at <= MaxAge(k)
BY Bounds DEF MemOK, Entry

(* AgeInv in terms of the copies.                                          *)
Copies(m, d, t) == \A k \in Key : MemOK(m[k], k, t) /\ DiskOK(d[k], k, t)
Rest ==
    /\ now \in Nat /\ restarts \in Nat /\ faults \in Nat
    /\ source \in [Key -> Nat] /\ last \in [Key -> Nat] /\ raced \subseteq Key
    /\ call \in [Call -> CallState]
Answered ==
    /\ served \in [key : Key, ver : Nat, age : Nat]
    /\ ServedAgeBound

LEMMA Split ==
    AgeInv <=> /\ mem \in [Key -> Entry] /\ disk \in [Key -> Entry]
               /\ Copies(mem, disk, now) /\ Rest /\ Answered
BY DEF AgeInv, TypeOK, Copies, MemOK, DiskOK, Rest, Answered

-----------------------------------------------------------------------------
(* get, set and the answer to the caller                                   *)

LEMMA PromotedStep ==
    ASSUME AgeInv, NEW k \in Key, Promoted(k)
    PROVE  /\ mem' \in [Key -> Entry] /\ disk' \in [Key -> Entry]
           /\ Copies(mem', disk', now)
<1>1. /\ mem \in [Key -> Entry] /\ disk \in [Key -> Entry]
      /\ Copies(mem, disk, now) /\ now \in Nat
  BY Split DEF Rest
<1>2. disk' = disk
  BY DEF Promoted
<1>3. CASE ~Live(mem[k]) /\ Live(disk[k])
  <2> DEFINE e == [disk[k] EXCEPT !.exp = now + MemTTL]
  <2>1. MemOK(e, k, now)
    BY <1>1, <1>3, Promotion DEF Copies, Live
  <2>2. mem' = [mem EXCEPT ![k] = e]
    BY <1>3 DEF Promoted
  <2> HIDE DEF e
  <2>3. e \in Entry BY <2>1 DEF MemOK
  <2> QED BY <1>1, <1>2, <2>1, <2>2, <2>3 DEF Copies
<1>4. CASE ~(~Live(mem[k]) /\ Live(disk[k]))
  BY <1>1, <1>2, <1>4 DEF Promoted
<1> QED BY <1>3, <1>4

LEMMA StoredStep ==
    ASSUME AgeInv, NEW c \in Call, call[c].stage = "answered", NEW failed, Stored(c, failed)
    PROVE  /\ mem' \in [Key -> Entry] /\ disk' \in [Key -> Entry]
           /\ Copies(mem', disk', now)
           /\ call[c].key \in Key /\ call[c].ver \in Nat
<1>1. /\ mem \in [Key -> Entry] /\ disk \in [Key -> Entry]
      /\ Copies(mem, disk, now) /\ now \in Nat /\ call[c] \in CallState
  BY Split DEF Rest
<1>2. /\ call[c].key \in Key /\ call[c].ver \in Nat
      /\ call[c].full \in BOOLEAN
  BY <1>1 DEF CallState, NoCall
<1> DEFINE k == call[c].key
           d == DiskFactor * CACHE_TTLS[k]
           em == Copy(c, MemTTL)
           ed == Copy(c, d)
<1>3. d \in Nat /\ MaxAge(k) \in Nat /\ MemTTL <= MaxAge(k) /\ MemTTL \in Nat
  BY <1>2, Bounds
<1>4. em \in Entry /\ em.at = now /\ em.exp = now + MemTTL
  BY <1>1, <1>2, <1>3 DEF Copy, Entry
<1>5. MemOK(em, k, now)
  <2> HIDE DEF em, k
  <2> QED BY <1>1, <1>3, <1>4 DEF MemOK
<1>6. mem' = [mem EXCEPT ![k] = em]
  BY DEF Stored
<1>7. mem' \in [Key -> Entry] /\ \A j \in Key : MemOK(mem'[j], j, now)
  <2> HIDE DEF em, k
  <2>1. k \in Key BY <1>2 DEF k
  <2> QED BY <1>1, <1>4, <1>5, <1>6, <2>1 DEF Copies
<1>8. CASE k \in Persisted /\ ~failed
  <2>1. disk' = [disk EXCEPT ![k] = ed]
    BY <1>8 DEF Stored
  <2>2. ed \in Entry /\ ed.at = now /\ ed.exp = now + d
    <3> HIDE DEF d
    <3> QED BY <1>1, <1>2, <1>3 DEF Copy, Entry
  <2>3. DiskOK(ed, k, now)
    <3>1. ed.exp <= ed.at + d
      <4> HIDE DEF ed, d
      <4> QED BY <1>1, <1>3, <2>2
    <3>2. ed.at <= now
      <4> HIDE DEF ed, d
      <4> QED BY <1>1, <2>2
    <3> HIDE DEF ed
    <3> QED BY <1>8, <2>2, <3>1, <3>2 DEF DiskOK
  <2> HIDE DEF ed, k
  <2>4. k \in Key BY <1>2 DEF k
  <2> QED BY <1>1, <1>2, <1>7, <2>1, <2>2, <2>3, <2>4 DEF Copies
<1>9. CASE ~(k \in Persisted /\ ~failed)
  <2>1. disk' = disk
    BY <1>9 DEF Stored
  <2> HIDE DEF k
  <2> QED BY <1>1, <1>2, <1>7, <2>1 DEF Copies
<1> QED BY <1>8, <1>9

(* An answer whose age is bounded keeps Answered.                          *)
LEMMA ServesStep ==
    ASSUME last \in [Key -> Nat], now \in Nat, NEW k \in Key,
           NEW e \in Entry, e.at <= now, now - e.at <= MaxAge(k), Serves(k, e)
    PROVE  Answered' /\ last' \in [Key -> Nat]
<1>1. e.ver \in Nat /\ now - e.at \in Nat
  BY DEF Entry
<1>2. served' = [key |-> k, ver |-> e.ver, age |-> now - e.at]
  BY DEF Serves
<1>3. served'.key = k /\ served'.age = now - e.at
  BY <1>2
<1>4. ServedAgeBound'
  <2>1. served'.age <= MaxAge(served'.key) BY <1>3
  <2> QED BY <2>1 DEF ServedAgeBound, MaxAge
<1>5. last' \in [Key -> Nat]
  BY <1>1 DEF Serves
<1> QED BY <1>1, <1>2, <1>4, <1>5 DEF Answered

-----------------------------------------------------------------------------
LEMMA NextAge == AgeInv /\ [Next]_vars => AgeInv'
<1> SUFFICES ASSUME AgeInv, [Next]_vars PROVE AgeInv'
  OBVIOUS
<1>1. /\ mem \in [Key -> Entry] /\ disk \in [Key -> Entry]
      /\ Copies(mem, disk, now) /\ Rest /\ Answered
  BY Split
<1>2. SUFFICES /\ mem' \in [Key -> Entry] /\ disk' \in [Key -> Entry]
               /\ Copies(mem', disk', now') /\ Rest' /\ Answered'
  <2>1. AgeInv' <=> /\ mem' \in [Key -> Entry] /\ disk' \in [Key -> Entry]
                    /\ Copies(mem', disk', now') /\ Rest' /\ Answered'
    BY DEF AgeInv, TypeOK, Copies, MemOK, DiskOK, Rest, Answered
  <2> QED BY <1>2, <2>1
<1>3. ASSUME NEW c \in Call, NEW k \in Key, Hit(c, k)
      PROVE  /\ mem' \in [Key -> Entry] /\ disk' \in [Key -> Entry]
             /\ Copies(mem', disk', now') /\ Rest' /\ Answered'
  <2>1. Promoted(k) /\ Serves(k, Found(k)) /\ Live(Found(k))
    BY <1>3 DEF Hit, CanServe
  <2>2. now' = now /\ source' = source /\ call' = call /\ raced' = raced
        /\ restarts' = restarts /\ faults' = faults
    BY <1>3 DEF Hit, bounds
  <2>3. /\ mem' \in [Key -> Entry] /\ disk' \in [Key -> Entry]
        /\ Copies(mem', disk', now)
    BY <2>1, PromotedStep
  <2>4. Found(k) \in Entry /\ Found(k).at <= now /\ now - Found(k).at <= MaxAge(k)
    <3>1. CASE Live(mem[k])
      <4>1. MemOK(mem[k], k, now) BY <1>1 DEF Copies
      <4> QED BY <1>1, <3>1, <4>1, MemoryAge DEF Found, Live, MemOK, Rest
    <3>2. CASE ~Live(mem[k])
      <4>1. DiskOK(disk[k], k, now) BY <1>1 DEF Copies
      <4>2. Live(disk[k]) BY <2>1, <3>2 DEF Found
      <4> QED BY <1>1, <3>2, <4>1, <4>2, Promotion DEF Found, Live, DiskOK, Rest
    <3> QED BY <3>1, <3>2
  <2>5. Answered' /\ last' \in [Key -> Nat]
    <3> DEFINE e == Found(k)
    <3>1. Serves(k, e) BY <2>1
    <3> HIDE DEF e
    <3> QED BY <1>1, <2>4, <3>1, ServesStep DEF Rest, e
  <2> QED BY <1>1, <2>2, <2>3, <2>5 DEF Rest
<1>4. ASSUME NEW c \in Call, NEW k \in Key, NEW forced \in BOOLEAN, Miss(c, k, forced)
      PROVE  /\ mem' \in [Key -> Entry] /\ disk' \in [Key -> Entry]
             /\ Copies(mem', disk', now') /\ Rest' /\ Answered'
  <2>1. Promoted(k)
    BY <1>4 DEF Miss
  <2>2. now' = now /\ source' = source /\ served' = served /\ last' = last
        /\ restarts' = restarts /\ faults' = faults
    BY <1>4 DEF Miss, bounds
  <2>3. raced' \subseteq Key
    BY <1>1, <1>4 DEF Miss, Rest
  <2>4. call' \in [Call -> CallState]
    <3> DEFINE n == [stage |-> "asked", key |-> k]
    <3>1. n \in CallState BY DEF CallState
    <3>2. call' = [call EXCEPT ![c] = n] BY <1>4 DEF Miss
    <3> HIDE DEF n
    <3> QED BY <1>1, <3>1, <3>2 DEF Rest
  <2>5. /\ mem' \in [Key -> Entry] /\ disk' \in [Key -> Entry]
        /\ Copies(mem', disk', now)
    BY <2>1, PromotedStep
  <2> QED BY <1>1, <2>2, <2>3, <2>4, <2>5 DEF Rest, Answered, ServedAgeBound
<1>5. ASSUME NEW c \in Call, NEW full \in BOOLEAN, Answer(c, full)
      PROVE  /\ mem' \in [Key -> Entry] /\ disk' \in [Key -> Entry]
             /\ Copies(mem', disk', now') /\ Rest' /\ Answered'
  <2>1. UNCHANGED <<now, source, mem, disk, served, last, raced, restarts, faults>>
    BY <1>5 DEF Answer, bounds
  <2>2. call[c] \in CallState /\ call[c].stage = "asked"
    BY <1>1, <1>5 DEF Answer, Rest
  <2>3. call[c].key \in Key
    BY <2>2 DEF CallState, NoCall
  <2>4. call' \in [Call -> CallState]
    <3> DEFINE n == [stage |-> "answered", key |-> call[c].key,
                     ver |-> source[call[c].key], full |-> full]
    <3>1. source[call[c].key] \in Nat BY <1>1, <2>3 DEF Rest
    <3>2. n \in CallState BY <2>3, <3>1 DEF CallState
    <3>3. call' = [call EXCEPT ![c] = n] BY <1>1, <1>5 DEF Answer, Rest
    <3> HIDE DEF n
    <3> QED BY <1>1, <3>2, <3>3 DEF Rest
  <2> QED BY <1>1, <2>1, <2>4 DEF Rest, Answered, ServedAgeBound
<1>6. ASSUME NEW c \in Call, Store(c)
      PROVE  /\ mem' \in [Key -> Entry] /\ disk' \in [Key -> Entry]
             /\ Copies(mem', disk', now') /\ Rest' /\ Answered'
  <2> DEFINE k == call[c].key
             e == Copy(c, MemTTL)
  <2>1. Stored(c, FALSE) /\ Serves(k, e) /\ call[c].stage = "answered"
    BY <1>6 DEF Store
  <2>2. now' = now /\ source' = source /\ raced' = raced
        /\ restarts' = restarts /\ faults' = faults
    BY <1>6 DEF Store, bounds
  <2>3. /\ mem' \in [Key -> Entry] /\ disk' \in [Key -> Entry]
        /\ Copies(mem', disk', now) /\ k \in Key /\ call[c].ver \in Nat
    BY <2>1, StoredStep
  <2>4. e \in Entry /\ e.at <= now /\ now - e.at <= MaxAge(k)
    <3>1. call[c] \in CallState /\ call[c].stage = "answered" /\ now \in Nat
      BY <1>1, <2>1 DEF Rest
    <3>2. call[c].full \in BOOLEAN
      BY <3>1 DEF CallState, NoCall
    <3>3. e \in Entry /\ e.at = now
      BY <2>3, <3>1, <3>2, Bounds DEF Copy, Entry
    <3>4. MaxAge(k) \in Nat
      BY <2>3, Bounds
    <3> HIDE DEF e, k
    <3> QED BY <3>1, <3>3, <3>4
  <2>5. Answered' /\ last' \in [Key -> Nat]
    <3> HIDE DEF e, k
    <3> QED BY <1>1, <2>1, <2>3, <2>4, ServesStep DEF Rest
  <2>6. call' \in [Call -> CallState]
    BY <1>1, <1>6 DEF Store, Rest, CallState
  <2> QED BY <1>1, <2>2, <2>3, <2>5, <2>6 DEF Rest
<1>7. ASSUME NEW c \in Call, StoreFails(c)
      PROVE  /\ mem' \in [Key -> Entry] /\ disk' \in [Key -> Entry]
             /\ Copies(mem', disk', now') /\ Rest' /\ Answered'
  <2>1. Stored(c, TRUE) /\ call[c].stage = "answered"
    BY <1>7 DEF StoreFails
  <2>2. now' = now /\ source' = source /\ served' = served /\ last' = last
        /\ restarts' = restarts
    BY <1>7 DEF StoreFails
  <2>3. /\ mem' \in [Key -> Entry] /\ disk' \in [Key -> Entry]
        /\ Copies(mem', disk', now) /\ call[c].key \in Key
    BY <2>1, StoredStep
  <2>4. faults' \in Nat /\ raced' \subseteq Key
    BY <1>1, <1>7, <2>3 DEF StoreFails, Rest
  <2>5. call' \in [Call -> CallState]
    BY <1>1, <1>7 DEF StoreFails, Rest, CallState
  <2> QED BY <1>1, <2>2, <2>3, <2>4, <2>5 DEF Rest, Answered, ServedAgeBound
<1>8. ASSUME NEW c \in Call, RequestFails(c)
      PROVE  /\ mem' \in [Key -> Entry] /\ disk' \in [Key -> Entry]
             /\ Copies(mem', disk', now') /\ Rest' /\ Answered'
  <2>1. UNCHANGED <<now, source, mem, disk, served, last, raced, restarts, faults>>
    BY <1>8 DEF RequestFails, bounds
  <2>2. call' \in [Call -> CallState]
    BY <1>1, <1>8 DEF RequestFails, Rest, CallState
  <2> QED BY <1>1, <2>1, <2>2 DEF Rest, Answered, ServedAgeBound
<1>9. ASSUME NEW k \in Key, Evict(k)
      PROVE  /\ mem' \in [Key -> Entry] /\ disk' \in [Key -> Entry]
             /\ Copies(mem', disk', now') /\ Rest' /\ Answered'
  <2>1. UNCHANGED <<now, source, disk, call, served, last, raced, restarts, faults>>
        /\ mem' = [mem EXCEPT ![k] = NoEntry]
    BY <1>9 DEF Evict, bounds
  <2>2. MemOK(NoEntry, k, now)
    BY <1>1, Bounds DEF MemOK, Rest
  <2>3. mem' \in [Key -> Entry] /\ Copies(mem', disk', now')
    BY <1>1, <2>1, <2>2, Bounds DEF Copies
  <2> QED BY <1>1, <2>1, <2>3 DEF Rest, Answered, ServedAgeBound
<1>10. ASSUME Restart
       PROVE  /\ mem' \in [Key -> Entry] /\ disk' \in [Key -> Entry]
              /\ Copies(mem', disk', now') /\ Rest' /\ Answered'
  <2>1. UNCHANGED <<now, source, disk, served, last, raced, faults>>
        /\ mem' = [k \in Key |-> NoEntry] /\ restarts' = restarts + 1
        /\ call' = [c \in Call |-> NoCall]
    BY <1>10 DEF Restart
  <2>2. \A k \in Key : MemOK(NoEntry, k, now)
    BY <1>1, Bounds DEF MemOK, Rest
  <2>3. mem' \in [Key -> Entry] /\ Copies(mem', disk', now')
    BY <1>1, <2>1, <2>2, Bounds DEF Copies
  <2> QED BY <1>1, <2>1, <2>3 DEF Rest, Answered, ServedAgeBound, CallState
<1>11. ASSUME NEW k \in Key, Change(k)
       PROVE  /\ mem' \in [Key -> Entry] /\ disk' \in [Key -> Entry]
              /\ Copies(mem', disk', now') /\ Rest' /\ Answered'
  <2>1. UNCHANGED <<now, mem, disk, call, served, last, raced, restarts, faults>>
        /\ source' \in [Key -> Nat]
    BY <1>1, <1>11 DEF Change, bounds, Rest
  <2> QED BY <1>1, <2>1 DEF Rest, Answered, ServedAgeBound
<1>12. ASSUME Tick
       PROVE  /\ mem' \in [Key -> Entry] /\ disk' \in [Key -> Entry]
              /\ Copies(mem', disk', now') /\ Rest' /\ Answered'
  <2>1. UNCHANGED <<source, mem, disk, call, served, last, raced, restarts, faults>>
        /\ now' = now + 1
    BY <1>12 DEF Tick, bounds
  <2>2. now \in Nat /\ now' \in Nat /\ now <= now'
    BY <1>1, <2>1 DEF Rest
  <2>3. Copies(mem, disk, now')
    <3> DEFINE t == now
               u == now'
    <3>1. t \in Nat /\ u \in Nat /\ t <= u BY <2>2
    <3>2. Copies(mem, disk, t) BY <1>1
    <3> HIDE DEF t, u
    <3>3. Copies(mem, disk, u) BY <3>1, <3>2, CopiesAge DEF Copies
    <3> QED BY <3>3 DEF u
  <2> QED BY <1>1, <2>1, <2>2, <2>3 DEF Rest, Answered, ServedAgeBound
<1>13. CASE UNCHANGED vars
  BY <1>1, <1>13 DEF vars, bounds, Rest, Answered, ServedAgeBound
<1> QED
  BY <1>3, <1>4, <1>5, <1>6, <1>7, <1>8, <1>9, <1>10, <1>11, <1>12, <1>13 DEF Next

-----------------------------------------------------------------------------
(* Versions.  Unless two requests for a key overlapped or a write to disk  *)
(* raised, its copies are no older than what was served, its two layers    *)
(* hold the same version, and an answer on its way is no older than either *)
(* of them.                                                                *)
CopyOrder(k, m, d, l, s) ==
    /\ l <= s /\ m.ver <= s /\ d.ver <= s
    /\ m.exp > 0 => m.ver >= l /\ (k \in Persisted => m.ver = d.ver)
    /\ d.exp > 0 => d.ver >= l
AnswerOrder(x, k, m, d, l, s) ==
    x.stage = "answered" /\ x.key = k =>
        l <= x.ver /\ m.ver <= x.ver /\ d.ver <= x.ver /\ x.ver <= s
OneRequest(k) == \A c, d \in Open(k) : c = d
KeyOrder(k) ==
    /\ OneRequest(k)
    /\ CopyOrder(k, mem[k], disk[k], last[k], source[k])
    /\ \A c \in Call : AnswerOrder(call[c], k, mem[k], disk[k], last[k], source[k])
OrderInv == \A k \in Key \ raced : KeyOrder(k)

(* TypeOK, as far as the versions need it.                                 *)
LEMMA Versions ==
    ASSUME AgeInv
    PROVE  /\ mem \in [Key -> Entry] /\ disk \in [Key -> Entry]
           /\ source \in [Key -> Nat] /\ last \in [Key -> Nat] /\ now \in Nat
           /\ call \in [Call -> CallState] /\ raced \subseteq Key
           /\ \A k \in Key : mem[k] \in Entry /\ disk[k] \in Entry
           /\ \A k \in Key : disk[k].exp > 0 => k \in Persisted
BY DEF AgeInv, TypeOK

LEMMA InitOrder == Init => OrderInv
<1> SUFFICES ASSUME Init, NEW k \in Key PROVE KeyOrder(k)
  BY DEF OrderInv
<1>1. mem[k] = NoEntry /\ disk[k] = NoEntry /\ source[k] = 1 /\ last[k] = 0
      /\ \A c \in Call : call[c].stage = "idle"
  BY DEF Init, NoCall
<1>2. CopyOrder(k, mem[k], disk[k], last[k], source[k])
  BY <1>1 DEF CopyOrder, NoEntry
<1>3. OneRequest(k) /\ \A c \in Call : AnswerOrder(call[c], k, mem[k], disk[k], last[k], source[k])
  BY <1>1 DEF OneRequest, Open, AnswerOrder
<1> QED BY <1>2, <1>3 DEF KeyOrder

(* A disk copy that is promoted has the version the memory lost.           *)
LEMMA PromotedOrder ==
    ASSUME AgeInv, NEW k \in Key, Promoted(k), NEW j \in Key, NEW l \in Nat, NEW s \in Nat,
           CopyOrder(j, mem[j], disk[j], l, s)
    PROVE  /\ CopyOrder(j, mem'[j], disk'[j], l, s)
           /\ \A x : AnswerOrder(x, j, mem[j], disk[j], l, s) => AnswerOrder(x, j, mem'[j], disk'[j], l, s)
<1>1. disk' = disk /\ mem \in [Key -> Entry] /\ mem[j] \in Entry /\ disk[j] \in Entry /\ now \in Nat
  BY Versions DEF Promoted
<1>2. CASE mem'[j] = mem[j]
  BY <1>1, <1>2
<1>3. CASE mem'[j] # mem[j]
  <2>1. ~Live(mem[k]) /\ Live(disk[k]) /\ mem' = [mem EXCEPT ![k] = [disk[k] EXCEPT !.exp = now + MemTTL]]
    BY <1>3 DEF Promoted
  <2>2. j = k /\ mem'[j] = [disk[j] EXCEPT !.exp = now + MemTTL]
    BY <1>1, <1>3, <2>1
  <2>3. mem'[j].ver = disk[j].ver /\ mem'[j].exp = now + MemTTL
    BY <1>1, <2>2 DEF Entry
  <2>4. disk[j].exp > 0
    BY <1>1, <2>1, <2>2 DEF Live, Entry
  <2> QED BY <1>1, <2>3, <2>4 DEF CopyOrder, AnswerOrder
<1> QED BY <1>2, <1>3

(* A step that closes requests, changes no request or opens the first one  *)
(* for a key leaves at most one open.                                      *)
LEMMA FewerRequests ==
    ASSUME NEW k \in Key, OneRequest(k), Open(k)' \subseteq Open(k)
    PROVE  OneRequest(k)'
BY DEF OneRequest

(* The answer on its way becomes the copy of both layers.                  *)
LEMMA StoredOrder ==
    ASSUME AgeInv, OrderInv, NEW c \in Call, call[c].stage = "answered", Stored(c, FALSE),
           call' = [call EXCEPT ![c] = NoCall], last' = [last EXCEPT ![call[c].key] = call[c].ver],
           source' = source, NEW j \in Key \ raced
    PROVE  KeyOrder(j)' /\ last'[j] >= last[j]
<1> DEFINE k == call[c].key
           v == call[c].ver
<1>1. /\ mem \in [Key -> Entry] /\ disk \in [Key -> Entry] /\ mem[j] \in Entry /\ disk[j] \in Entry
      /\ source \in [Key -> Nat] /\ last \in [Key -> Nat] /\ now \in Nat
      /\ call \in [Call -> CallState] /\ raced \subseteq Key
      /\ disk[j].exp > 0 => j \in Persisted
  BY Versions
<1>2. k \in Key /\ v \in Nat /\ call[c].full \in BOOLEAN
  BY <1>1 DEF CallState, NoCall
<1>3. KeyOrder(j)
  BY DEF OrderInv
<1>4. /\ \A d \in Call : call'[d] = IF d = c THEN NoCall ELSE call[d]
      /\ NoCall.stage = "idle"
  BY <1>1 DEF NoCall
<1>5. OneRequest(j)'
  <2>1. Open(j)' \subseteq Open(j)
    BY <1>4 DEF Open
  <2> QED BY <1>3, <2>1, FewerRequests DEF KeyOrder
<1>6. CASE j # k
  <2>1. mem'[j] = mem[j] /\ disk'[j] = disk[j] /\ last'[j] = last[j]
    BY <1>1, <1>2, <1>6 DEF Stored
  <2>2. \A d \in Call : AnswerOrder(call'[d], j, mem[j], disk[j], last[j], source[j])
    BY <1>3, <1>4 DEF KeyOrder, AnswerOrder
  <2> QED BY <1>1, <1>3, <1>5, <2>1, <2>2 DEF KeyOrder
<1>7. CASE j = k
  <2>1. last'[j] = v /\ last[j] <= v /\ disk[j].ver <= v /\ v <= source[j]
    BY <1>1, <1>3, <1>7 DEF KeyOrder, AnswerOrder
  <2>2. mem'[j] = Copy(c, MemTTL) /\ mem'[j].ver = v
    BY <1>1, <1>7 DEF Stored, Copy
  <2>3. IF j \in Persisted THEN disk'[j].ver = v ELSE disk'[j] = disk[j]
    BY <1>1, <1>7 DEF Stored, Copy
  <2>4. CopyOrder(j, mem'[j], disk'[j], last'[j], source'[j])
    BY <1>1, <1>2, <2>1, <2>2, <2>3 DEF CopyOrder, Entry
  <2>5. \A d \in Call : call'[d].stage = "answered" => call'[d].key # j
    BY <1>3, <1>4, <1>7 DEF KeyOrder, OneRequest, Open
  <2>6. \A d \in Call : AnswerOrder(call'[d], j, mem'[j], disk'[j], last'[j], source'[j])
    BY <2>5 DEF AnswerOrder
  <2> QED BY <1>1, <1>2, <1>5, <2>1, <2>4, <2>6 DEF KeyOrder
<1> QED BY <1>6, <1>7

(* No step serves an older version of a key that was not raced, nor upsets *)
(* the order of its versions.                                              *)
LEMMA NextOrder ==
    ASSUME AgeInv, OrderInv, [Next]_vars, NEW j \in Key \ raced
    PROVE  last'[j] >= last[j] /\ (j \notin raced' => KeyOrder(j)')
<1>1. /\ mem \in [Key -> Entry] /\ disk \in [Key -> Entry] /\ mem[j] \in Entry /\ disk[j] \in Entry
      /\ source \in [Key -> Nat] /\ last \in [Key -> Nat] /\ now \in Nat
      /\ call \in [Call -> CallState] /\ raced \subseteq Key
      /\ last[j] \in Nat /\ source[j] \in Nat
  BY Versions
<1>2. KeyOrder(j)
  BY DEF OrderInv
<1>3. ASSUME NEW c \in Call, NEW k \in Key, Hit(c, k)
      PROVE  last'[j] >= last[j] /\ KeyOrder(j)'
  <2>1. Promoted(k) /\ Live(Found(k)) /\ source' = source /\ call' = call
        /\ last' = [last EXCEPT ![k] = Found(k).ver]
    BY <1>3 DEF Hit, CanServe, Serves
  <2>2. OneRequest(j)'
    BY <1>2, <2>1 DEF KeyOrder, OneRequest, Open
  <2>3. CASE j # k
    <3>1. last'[j] = last[j]
      BY <1>1, <2>1, <2>3
    <3> QED BY <1>1, <1>2, <2>1, <2>2, <3>1, PromotedOrder DEF KeyOrder
  <2>4. CASE j = k
    <3> DEFINE l == Found(j).ver
    <3>1. /\ last'[j] = l /\ l \in Nat /\ last[j] <= l
          /\ CopyOrder(j, mem[j], disk[j], l, source[j])
          /\ \A x : AnswerOrder(x, j, mem[j], disk[j], last[j], source[j])
                    => AnswerOrder(x, j, mem[j], disk[j], l, source[j])
      <4>1. CASE Live(mem[j])
        <5>1. mem[j].exp > 0 /\ l = mem[j].ver
          BY <1>1, <4>1 DEF Live, Found, Entry
        <5>2. disk[j].exp > 0 => disk[j].ver = l
          BY <1>1, <1>2, <5>1, Versions DEF KeyOrder, CopyOrder
        <5> QED BY <1>1, <1>2, <2>1, <2>4, <5>1, <5>2 DEF KeyOrder, CopyOrder, AnswerOrder, Entry
      <4>2. CASE ~Live(mem[j])
        <5>1. disk[j].exp > 0 /\ l = disk[j].ver
          BY <1>1, <2>1, <2>4, <4>2 DEF Live, Found, Entry
        <5>2. mem[j].exp > 0 => mem[j].ver = l
          BY <1>1, <1>2, <5>1, Versions DEF KeyOrder, CopyOrder
        <5> QED BY <1>1, <1>2, <2>1, <2>4, <5>1, <5>2 DEF KeyOrder, CopyOrder, AnswerOrder, Entry
      <4> QED BY <4>1, <4>2
    <3> HIDE DEF l
    <3>2. /\ CopyOrder(j, mem'[j], disk'[j], l, source[j])
          /\ \A x : AnswerOrder(x, j, mem[j], disk[j], l, source[j])
                    => AnswerOrder(x, j, mem'[j], disk'[j], l, source[j])
      BY <1>1, <2>1, <3>1, PromotedOrder
    <3> QED BY <1>1, <1>2, <2>1, <2>2, <3>1, <3>2 DEF KeyOrder
  <2> QED BY <2>3, <2>4
<1>4. ASSUME NEW c \in Call, NEW k \in Key, NEW forced \in BOOLEAN, Miss(c, k, forced)
      PROVE  last'[j] >= last[j] /\ (j \notin raced' => KeyOrder(j)')
  <2> SUFFICES ASSUME j \notin raced' PROVE last'[j] >= last[j] /\ KeyOrder(j)'
    BY <1>1, <1>4 DEF Miss
  <2>1. /\ Promoted(k) /\ source' = source /\ last' = last /\ call[c] = NoCall
        /\ call' = [call EXCEPT ![c] = [stage |-> "asked", key |-> k]]
        /\ j = k => Open(k) = {}
    BY <1>4 DEF Miss
  <2>2. \A d \in Call : call'[d] = IF d = c THEN [stage |-> "asked", key |-> k] ELSE call[d]
    BY <1>1, <2>1
  <2>3. OneRequest(j)'
    <3>1. CASE j = k
      <4>1. Open(j)' \subseteq {c}
        BY <2>1, <2>2, <3>1 DEF Open
      <4> QED BY <4>1 DEF OneRequest
    <3>2. CASE j # k
      <4>1. Open(j)' \subseteq Open(j)
        BY <2>2, <3>2 DEF Open
      <4> QED BY <1>2, <4>1, FewerRequests DEF KeyOrder
    <3> QED BY <3>1, <3>2
  <2>4. \A d \in Call : AnswerOrder(call'[d], j, mem[j], disk[j], last[j], source[j])
    BY <1>2, <2>2 DEF KeyOrder, AnswerOrder
  <2> QED BY <1>1, <1>2, <2>1, <2>3, <2>4, PromotedOrder DEF KeyOrder
<1>5. ASSUME NEW c \in Call, NEW full \in BOOLEAN, Answer(c, full)
      PROVE  last'[j] >= last[j] /\ KeyOrder(j)'
  <2> DEFINE k == call[c].key
             x == [stage |-> "answered", key |-> k, ver |-> source[k], full |-> full]
  <2>1. /\ UNCHANGED <<source, mem, disk, last>>
        /\ call[c].stage = "asked" /\ call' = [call EXCEPT ![c] = x]
    BY <1>1, <1>5 DEF Answer
  <2>2. x.stage = "answered" /\ x.key = k /\ x.ver = source[k]
    OBVIOUS
  <2> HIDE DEF x
  <2>3. \A d \in Call : call'[d] = IF d = c THEN x ELSE call[d]
    BY <1>1, <2>1
  <2>4. OneRequest(j)'
    <3>1. Open(j)' \subseteq Open(j)
      BY <2>1, <2>2, <2>3 DEF Open
    <3> QED BY <1>2, <3>1, FewerRequests DEF KeyOrder
  <2>5. AnswerOrder(x, j, mem[j], disk[j], last[j], source[j])
    BY <1>1, <1>2, <2>2 DEF KeyOrder, CopyOrder, AnswerOrder
  <2>6. \A d \in Call : AnswerOrder(call'[d], j, mem[j], disk[j], last[j], source[j])
    BY <1>2, <2>3, <2>5 DEF KeyOrder
  <2> QED BY <1>1, <1>2, <2>1, <2>4, <2>6 DEF KeyOrder
<1>6. ASSUME NEW c \in Call, Store(c)
      PROVE  last'[j] >= last[j] /\ KeyOrder(j)'
  <2>1. /\ call[c].stage = "answered" /\ Stored(c, FALSE) /\ call' = [call EXCEPT ![c] = NoCall]
        /\ last' = [last EXCEPT ![call[c].key] = call[c].ver] /\ source' = source
    BY <1>6 DEF Store, Serves, Copy
  <2> QED BY <2>1, StoredOrder
<1>7. ASSUME NEW c \in Call, StoreFails(c)
      PROVE  last'[j] >= last[j] /\ (j \notin raced' => KeyOrder(j)')
  <2> SUFFICES ASSUME j \notin raced' PROVE last'[j] >= last[j] /\ KeyOrder(j)'
    BY <1>1, <1>7 DEF StoreFails
  <2>1. /\ call[c].stage = "answered" /\ Stored(c, TRUE) /\ call' = [call EXCEPT ![c] = NoCall]
        /\ last' = last /\ source' = source /\ j # call[c].key
    BY <1>7 DEF StoreFails
  <2>2. mem'[j] = mem[j] /\ disk'[j] = disk[j]
    BY <1>1, <2>1 DEF Stored
  <2>3. \A d \in Call : call'[d] = IF d = c THEN NoCall ELSE call[d]
    BY <1>1, <2>1
  <2>4. OneRequest(j)'
    <3>1. Open(j)' \subseteq Open(j)
      BY <2>3 DEF Open, NoCall
    <3> QED BY <1>2, <3>1, FewerRequests DEF KeyOrder
  <2>5. \A d \in Call : AnswerOrder(call'[d], j, mem[j], disk[j], last[j], source[j])
    BY <1>2, <2>3 DEF KeyOrder, AnswerOrder, NoCall
  <2> QED BY <1>1, <1>2, <2>1, <2>2, <2>4, <2>5 DEF KeyOrder
<1>8. ASSUME NEW c \in Call, RequestFails(c)
      PROVE  last'[j] >= last[j] /\ KeyOrder(j)'
  <2>1. UNCHANGED <<source, mem, disk, last>> /\ call' = [call EXCEPT ![c] = NoCall]
    BY <1>8 DEF RequestFails
  <2>2. \A d \in Call : call'[d] = IF d = c THEN NoCall ELSE call[d]
    BY <1>1, <2>1
  <2>3. OneRequest(j)'
    <3>1. Open(j)' \subseteq Open(j)
      BY <2>2 DEF Open, NoCall
    <3> QED BY <1>2, <3>1, FewerRequests DEF KeyOrder
  <2>4. \A d \in Call : AnswerOrder(call'[d], j, mem[j], disk[j], last[j], source[j])
    BY <1>2, <2>2 DEF KeyOrder, AnswerOrder, NoCall
  <2> QED BY <1>1, <1>2, <2>1, <2>3, <2>4 DEF KeyOrder
<1>9. ASSUME NEW k \in Key, Evict(k)
      PROVE  last'[j] >= last[j] /\ KeyOrder(j)'
  <2>1. UNCHANGED <<source, disk, call, last>> /\ mem' = [mem EXCEPT ![k] = NoEntry]
    BY <1>9 DEF Evict
  <2>2. mem'[j] = mem[j] \/ (mem'[j].ver = 0 /\ mem'[j].exp = 0)
    BY <1>1, <2>1 DEF NoEntry
  <2>3. OneRequest(j)'
    BY <1>2, <2>1 DEF KeyOrder, OneRequest, Open
  <2>4. CopyOrder(j, mem'[j], disk[j], last[j], source[j])
    BY <1>1, <1>2, <2>2 DEF KeyOrder, CopyOrder, Entry
  <2>5. \A d \in Call : AnswerOrder(call[d], j, mem'[j], disk[j], last[j], source[j])
    <3>1. SUFFICES ASSUME NEW d \in Call, call[d].stage = "answered"
                   PROVE  AnswerOrder(call[d], j, mem'[j], disk[j], last[j], source[j])
      BY DEF AnswerOrder
    <3>2. call[d].ver \in Nat
      BY <1>1, <3>1 DEF CallState, NoCall
    <3> QED BY <1>1, <1>2, <2>2, <3>2 DEF KeyOrder, AnswerOrder
  <2> QED BY <1>1, <2>1, <2>3, <2>4, <2>5 DEF KeyOrder
<1>10. ASSUME Restart
       PROVE  last'[j] >= last[j] /\ KeyOrder(j)'
  <2>1. /\ UNCHANGED <<source, disk, last>> /\ mem'[j] = NoEntry
        /\ call' = [c \in Call |-> NoCall]
    BY <1>10 DEF Restart
  <2>2. \A c \in Call : call'[c].stage = "idle"
    BY <2>1 DEF NoCall
  <2>3. CopyOrder(j, mem'[j], disk[j], last[j], source[j])
    BY <1>1, <1>2, <2>1 DEF KeyOrder, CopyOrder, NoEntry
  <2> QED BY <1>1, <2>1, <2>2, <2>3 DEF KeyOrder, OneRequest, Open, AnswerOrder
<1>11. ASSUME NEW k \in Key, Change(k)
       PROVE  last'[j] >= last[j] /\ KeyOrder(j)'
  <2>1. UNCHANGED <<mem, disk, call, last>> /\ source'[j] \in Nat /\ source[j] <= source'[j]
    BY <1>1, <1>11 DEF Change
  <2>2. OneRequest(j)'
    BY <1>2, <2>1 DEF KeyOrder, OneRequest, Open
  <2>3. CopyOrder(j, mem[j], disk[j], last[j], source'[j])
    BY <1>1, <1>2, <2>1 DEF KeyOrder, CopyOrder, Entry
  <2>4. \A d \in Call : AnswerOrder(call[d], j, mem[j], disk[j], last[j], source'[j])
    <3>1. SUFFICES ASSUME NEW d \in Call, call[d].stage = "answered"
                   PROVE  AnswerOrder(call[d], j, mem[j], disk[j], last[j], source'[j])
      BY DEF AnswerOrder
    <3>2. call[d].ver \in Nat
      BY <1>1, <3>1 DEF CallState, NoCall
    <3> QED BY <1>1, <1>2, <2>1, <3>2 DEF KeyOrder, AnswerOrder
  <2> QED BY <1>1, <2>1, <2>2, <2>3, <2>4 DEF KeyOrder
<1>12. CASE Tick \/ UNCHANGED vars
  <2>1. UNCHANGED <<source, mem, disk, call, last>>
    BY <1>12 DEF Tick, vars
  <2> QED BY <1>1, <1>2, <2>1 DEF KeyOrder, OneRequest, Open
<1> QED
  BY <1>3, <1>4, <1>5, <1>6, <1>7, <1>8, <1>9, <1>10, <1>11, <1>12 DEF Next

(* A key that raced stays so.                                              *)
LEMMA RacedGrows == [Next]_vars => raced \subseteq raced'
BY DEF Next, vars, Hit, Miss, Answer, Store, StoreFails, RequestFails, Evict, Restart, Change, Tick

LEMMA OrderKept == AgeInv /\ OrderInv /\ [Next]_vars => OrderInv'
<1> SUFFICES ASSUME AgeInv, OrderInv, [Next]_vars, NEW j \in Key \ raced' PROVE KeyOrder(j)'
  BY DEF OrderInv
<1>1. j \in Key \ raced BY RacedGrows
<1> QED BY <1>1, NextOrder

-----------------------------------------------------------------------------
(* The inductive invariant of both layers and the open calls (get, set).   *)
THEOREM AlwaysAgeInv == Spec => []AgeInv
BY InitAge, NextAge, PTL DEF Spec

(* The cache's state is well formed, and a copy outlives neither its       *)
(* layer's TTL from now nor, on disk, the disk TTL from its answer         *)
(* (utils/cache.py:171-203).                                               *)
THEOREM TypeCorrect == Spec => []TypeOK
<1>1. AgeInv => TypeOK
  BY DEF AgeInv
<1> QED BY <1>1, AlwaysAgeInv, PTL

(* An answer is served for at most MemTTL after its disk copy expired, and *)
(* for MemTTL when it has none.                                            *)
THEOREM AgeBounded == Spec => []ServedAgeBound
<1>1. AgeInv => ServedAgeBound
  BY DEF AgeInv
<1> QED BY <1>1, AlwaysAgeInv, PTL

(* Evictions, expiries, promotions and restarts never make the cache       *)
(* answer with an older version than it answered with before, unless two   *)
(* requests for the key overlapped or a write to disk raised.              *)
THEOREM AnswersMoveForward == Spec => ServedMovesForward
<1>1. Spec => []OrderInv
  <2>1. Init => OrderInv
    BY InitOrder
  <2>2. AgeInv /\ OrderInv /\ [Next]_vars => OrderInv'
    BY OrderKept
  <2> QED BY <2>1, <2>2, AlwaysAgeInv, PTL DEF Spec
<1>2. AgeInv /\ OrderInv /\ [Next]_vars
      => [\A k \in Key : last'[k] >= last[k] \/ k \in raced]_vars
  BY NextOrder
<1> QED BY <1>1, <1>2, AlwaysAgeInv, PTL DEF Spec, ServedMovesForward

-----------------------------------------------------------------------------
(* TwoLayerCache                                                           *)

(* Results are numbered as they return.  Unless a write to disk raised,    *)
(* what both layers hold for a key is the same result.                     *)
NumberedInv ==
    \A k \in LayerKey :
        /\ l1[k].ver \in 0..fetched /\ l2[k].ver \in 0..fetched
        /\ l1[k].form # "none" => l1[k].ver # 0
        /\ l2[k].form # "none" => l2[k].ver # 0
SameInv ==
    \A k \in LayerKey \ torn :
        l1[k] = NoItem \/ l2[k] = NoItem \/ (l1[k].ver = l2[k].ver /\ l1[k].form = l2[k].form)

LayersInv == LayersTypeOK /\ NumberedInv /\ SameInv

-----------------------------------------------------------------------------
LEMMA LayersInvInit == LayersInit => LayersInv
<1> SUFFICES ASSUME LayersInit PROVE LayersInv
  OBVIOUS
<1>1. NoItem \in Item
  BY DEF NoItem, Item, Form
<1>2. LayersTypeOK
  BY <1>1, LayersAssumption DEF LayersInit, LayersTypeOK, NoItem, NoKey
<1>3. NumberedInv /\ SameInv
  BY DEF LayersInit, NumberedInv, SameInv, NoItem
<1> QED BY <1>2, <1>3 DEF LayersInv

(* What a fetch leaves in a layer.                                         *)
LEMMA KeptItem ==
    ASSUME LayersTypeOK, NEW form \in Form, NEW ttl \in Nat
    PROVE  /\ Kept(form, ttl) \in Item
           /\ Kept(form, ttl).ver \in 0..(fetched + 1) /\ Kept(form, ttl).exp <= time + ttl
           /\ Kept(form, ttl).form = form
           /\ form = "none" => Kept(form, ttl) = NoItem
           /\ form # "none" => Kept(form, ttl).ver = fetched + 1 /\ Kept(form, ttl).exp = time + ttl
BY LayersAssumption DEF LayersTypeOK, Kept, NoItem, Item, Form

(* The lifetimes are positive.                                             *)
LEMMA Lifetimes ==
    ASSUME NEW k \in LayerKey
    PROVE  /\ Lifetime[k] \in Nat /\ Lifetime[k] > 0
           /\ LongerOnDisk * Lifetime[k] \in Nat /\ LongerOnDisk * Lifetime[k] > 0
<1>1. Lifetime[k] \in Nat \ {0} /\ LongerOnDisk \in Nat \ {0}
  BY LayersAssumption
<1>2. \A m, n \in Nat \ {0} : m * n \in Nat /\ m * n > 0
  OBVIOUS
<1> QED BY <1>1, <1>2

(* A store keeps the layers in step, whether or not it reaches the disk.   *)
LEMMA StoreInv ==
    ASSUME LayersInv, NEW c \in Reader, NEW k \in LayerKey, NEW form \in Form,
           fetched < MaxFetch, fetched' = fetched + 1, time' = time, forgotten' = forgotten,
           answer' = answer, crashes' = crashes, broken' \in 0..MaxFault,
           fetch' = [fetch EXCEPT ![c] = NoKey],
           l1' = [l1 EXCEPT ![k] = Kept(form, Lifetime[k])],
           \/ /\ l2' = IF k \in OnDisk THEN [l2 EXCEPT ![k] = Kept(form, LongerOnDisk * Lifetime[k])] ELSE l2
              /\ torn' = torn \ {k}
           \/ l2' = l2 /\ torn' = torn \cup {k} /\ k \in OnDisk
    PROVE  LayersInv'
<1> DEFINE new1 == Kept(form, Lifetime[k])
           new2 == Kept(form, LongerOnDisk * Lifetime[k])
<1>1. /\ new1 \in Item /\ new1.ver \in 0..(fetched + 1) /\ new1.exp <= time + Lifetime[k]
      /\ new1.form = form
      /\ form = "none" => new1 = NoItem
      /\ form # "none" => new1.ver = fetched + 1
  BY KeptItem, Lifetimes DEF LayersInv
<1>2. /\ new2 \in Item /\ new2.ver \in 0..(fetched + 1) /\ new2.exp <= time + LongerOnDisk * Lifetime[k]
      /\ new2.form = form
      /\ form = "none" => new2 = NoItem
      /\ form # "none" => new2.ver = fetched + 1
  BY KeptItem, Lifetimes DEF LayersInv
<1> HIDE DEF new1, new2
<1>3. /\ fetched \in Nat /\ l1 \in [LayerKey -> Item] /\ l2 \in [LayerKey -> Item]
      /\ MaxFetch \in Nat
  BY LayersAssumption DEF LayersInv, LayersTypeOK
<1>4. \A x \in LayerKey : l1'[x] = IF x = k THEN new1 ELSE l1[x]
  BY <1>3 DEF new1
<1>5. \A x \in LayerKey : l2'[x] = IF x = k /\ k \in OnDisk /\ torn' = torn \ {k} THEN new2 ELSE l2[x]
  BY <1>3 DEF new2
<1>6. l1' \in [LayerKey -> Item] /\ l2' \in [LayerKey -> Item]
  BY <1>1, <1>2, <1>3 DEF new1, new2
<1>7. LayersTypeOK'
  <2>1. time' \in 0..LastTime /\ fetched' \in 0..MaxFetch /\ torn' \subseteq OnDisk
    BY <1>3 DEF LayersInv, LayersTypeOK
  <2>2. fetch' \in [Reader -> {NoKey} \cup {<<x>> : x \in LayerKey}]
    BY DEF LayersInv, LayersTypeOK
  <2>3. answer' = <<>> \/ answer' \in LayerKey \X (1..fetched')
    BY <1>3 DEF LayersInv, LayersTypeOK
  <2>4. \A x \in LayerKey :
          /\ l1'[x].exp <= time' + Lifetime[x] /\ l2'[x].exp <= time' + LongerOnDisk * Lifetime[x]
          /\ l2'[x] # NoItem => x \in OnDisk
    BY <1>1, <1>2, <1>4, <1>5 DEF LayersInv, LayersTypeOK
  <2> QED BY <1>6, <2>1, <2>2, <2>3, <2>4 DEF LayersInv, LayersTypeOK
<1>8. NumberedInv'
  <2>1. \A x \in LayerKey : l1[x].ver \in 0..fetched' /\ l2[x].ver \in 0..fetched'
    BY <1>3 DEF LayersInv, NumberedInv
  <2> QED BY <1>1, <1>2, <1>3, <1>4, <1>5, <2>1 DEF LayersInv, NumberedInv
<1>9. SameInv'
  <2> SUFFICES ASSUME NEW x \in LayerKey \ torn'
               PROVE  l1'[x] = NoItem \/ l2'[x] = NoItem \/ (l1'[x].ver = l2'[x].ver /\ l1'[x].form = l2'[x].form)
    BY DEF SameInv
  <2>1. CASE x # k
    BY <1>4, <1>5, <2>1 DEF LayersInv, SameInv
  <2>2. CASE x = k /\ k \in OnDisk
    BY <1>1, <1>2, <1>4, <1>5, <2>2
  <2>3. CASE x = k /\ k \notin OnDisk
    BY <1>5, <2>3 DEF LayersInv, LayersTypeOK
  <2> QED BY <2>1, <2>2, <2>3
<1> QED BY <1>7, <1>8, <1>9 DEF LayersInv

(* Items that leave a layer disturb nothing.                               *)
LEMMA LeaveInv ==
    ASSUME LayersInv, time' = time, fetched' = fetched,
           l1' \in [LayerKey -> Item], l2' \in [LayerKey -> Item],
           \A k \in LayerKey : l1'[k] \in {l1[k], NoItem} /\ l2'[k] \in {l2[k], NoItem},
           \A k \in LayerKey : k \in torn \ torn' => l1'[k] = NoItem,
           torn' \subseteq torn,
           fetch' \in [Reader -> {NoKey} \cup {<<k>> : k \in LayerKey}],
           forgotten' \in [LayerKey -> 0..MaxForget], crashes' \in 0..MaxCrash, broken' \in 0..MaxFault,
           answer' = <<>> \/ answer' \in LayerKey \X (1..fetched)
    PROVE  LayersInv'
<1>1. NoItem.ver = 0 /\ NoItem.form = "none" /\ NoItem.exp = 0
  BY DEF NoItem
<1>2. \A k \in LayerKey : NoItem.exp <= time + Lifetime[k] /\ NoItem.exp <= time + LongerOnDisk * Lifetime[k]
  BY <1>1, Lifetimes DEF LayersInv, LayersTypeOK
<1>3. LayersTypeOK'
  BY <1>2 DEF LayersInv, LayersTypeOK
<1>4. NumberedInv'
  <2>1. fetched \in Nat
    BY LayersAssumption DEF LayersInv, LayersTypeOK
  <2> QED BY <1>1, <2>1 DEF LayersInv, NumberedInv
<1>5. SameInv'
  BY DEF LayersInv, SameInv
<1> QED BY <1>3, <1>4, <1>5 DEF LayersInv

(* The layers without some items.                                          *)
LEMMA WithoutItems ==
    ASSUME NEW layer \in [LayerKey -> Item], NEW S \in SUBSET LayerKey
    PROVE  /\ Without(layer, S) \in [LayerKey -> Item]
           /\ \A k \in LayerKey : Without(layer, S)[k] = IF k \in S THEN NoItem ELSE layer[k]
BY DEF Without, NoItem, Item, Form

LEMMA CleanedItems ==
    ASSUME NEW layer \in [LayerKey -> Item], NEW k \in LayerKey
    PROVE  /\ Cleaned(layer, k) \in [LayerKey -> Item]
           /\ \A x \in LayerKey : Cleaned(layer, k)[x] =
                IF x = k /\ layer[k].form = "misfit" /\ time < layer[k].exp THEN NoItem ELSE layer[x]
BY DEF Cleaned, NoItem, Item, Form

LEMMA LayersStep == LayersInv /\ [LayersNext]_layerVars => LayersInv'
<1> SUFFICES ASSUME LayersInv, [LayersNext]_layerVars PROVE LayersInv'
  OBVIOUS
<1>1. /\ l1 \in [LayerKey -> Item] /\ l2 \in [LayerKey -> Item]
      /\ fetch \in [Reader -> {NoKey} \cup {<<k>> : k \in LayerKey}]
      /\ forgotten \in [LayerKey -> 0..MaxForget] /\ crashes \in 0..MaxCrash /\ broken \in 0..MaxFault
      /\ answer = <<>> \/ answer \in LayerKey \X (1..fetched)
      /\ time \in 0..LastTime /\ fetched \in Nat
  BY LayersAssumption DEF LayersInv, LayersTypeOK
<1>2. {LastTime, MaxForget, MaxCrash, MaxFault} \subseteq Nat
  BY LayersAssumption
<1>3. NoItem \in Item
  BY DEF NoItem, Item, Form
<1>4. \A k \in LayerKey : l1[k].form = "usable" => l1[k].ver \in 1..fetched
  BY <1>1 DEF LayersInv, NumberedInv
<1>5. \A k \in LayerKey : l2[k].form = "usable" => l2[k].ver \in 1..fetched
  BY <1>1 DEF LayersInv, NumberedInv
<1>6. ASSUME NEW k \in LayerKey, HitMemory(k) PROVE LayersInv'
  <2>1. answer' \in LayerKey \X (1..fetched)
    BY <1>4, <1>6 DEF HitMemory, Usable
  <2>2. /\ time' = time /\ fetched' = fetched /\ l1' = l1 /\ l2' = l2 /\ fetch' = fetch
        /\ forgotten' = forgotten /\ torn' = torn /\ crashes' = crashes /\ broken' = broken
    BY <1>6 DEF HitMemory, layers, counters
  <2> QED BY <1>1, <2>1, <2>2, LeaveInv
<1>7. ASSUME NEW k \in LayerKey, HitDisk(k) PROVE LayersInv'
  <2> DEFINE new == [l2[k] EXCEPT !.exp = time + Lifetime[k]]
  <2>1. answer' \in LayerKey \X (1..fetched)
    BY <1>5, <1>7 DEF HitDisk, Usable
  <2>2. /\ time' = time /\ fetched' = fetched /\ l2' = l2 /\ fetch' = fetch
        /\ forgotten' = forgotten /\ torn' = torn /\ crashes' = crashes /\ broken' = broken
        /\ l1' = [l1 EXCEPT ![k] = new] /\ l2[k].form = "usable"
    BY <1>7 DEF HitDisk, counters, Usable
  <2>3. Lifetime[k] \in Nat
    BY Lifetimes
  <2>4. /\ new \in Item /\ new.exp = time + Lifetime[k]
        /\ new.ver = l2[k].ver /\ new.form = l2[k].form
    <3>1. l2[k] \in [ver : Nat, form : Form, exp : Nat]
      BY <1>1 DEF Item
    <3>2. time + Lifetime[k] \in Nat
      BY <1>1, <1>2, <2>3
    <3> QED BY <3>1, <3>2 DEF Item
  <2> HIDE DEF new
  <2>5. LayersTypeOK'
    <3>1. l1' \in [LayerKey -> Item]
      BY <1>1, <2>2, <2>4
    <3>2. \A x \in LayerKey :
            /\ l1'[x].exp <= time' + Lifetime[x] /\ l2'[x].exp <= time' + LongerOnDisk * Lifetime[x]
            /\ l2'[x] # NoItem => x \in OnDisk
      <4> SUFFICES ASSUME NEW x \in LayerKey
                   PROVE  /\ l1'[x].exp <= time + Lifetime[x]
                          /\ l2[x].exp <= time + LongerOnDisk * Lifetime[x] /\ (l2[x] # NoItem => x \in OnDisk)
        BY <2>2
      <4>1. l1'[x] = IF x = k THEN new ELSE l1[x]
        BY <1>1, <2>2
      <4>2. time + Lifetime[k] <= time + Lifetime[k]
        BY <1>1, <1>2, <2>3
      <4> QED BY <2>4, <4>1, <4>2 DEF LayersInv, LayersTypeOK
    <3> QED BY <2>1, <2>2, <3>1, <3>2 DEF LayersInv, LayersTypeOK
  <2>6. NumberedInv'
    BY <1>1, <2>2, <2>4 DEF LayersInv, NumberedInv
  <2>7. SameInv'
    BY <1>1, <2>2, <2>4 DEF LayersInv, SameInv
  <2> QED BY <2>5, <2>6, <2>7 DEF LayersInv
<1>8. ASSUME NEW k \in LayerKey, EvictMemory(k) PROVE LayersInv'
  <2>1. /\ time' = time /\ fetched' = fetched /\ l1' = [l1 EXCEPT ![k] = NoItem] /\ l2' = l2
        /\ fetch' = fetch /\ answer' = answer
        /\ forgotten' = forgotten /\ torn' = torn /\ crashes' = crashes /\ broken' = broken
    BY <1>8 DEF EvictMemory, counters
  <2>2. l1' \in [LayerKey -> Item] /\ \A x \in LayerKey : l1'[x] \in {l1[x], NoItem}
    BY <1>1, <1>3, <2>1
  <2> QED BY <1>1, <2>1, <2>2, LeaveInv
<1>9. ASSUME NEW c \in Reader, NEW k \in LayerKey, MissBoth(c, k) PROVE LayersInv'
  <2>1. /\ time' = time /\ fetched' = fetched /\ l1' = Cleaned(l1, k)
        /\ l2' = (IF k \in OnDisk THEN Cleaned(l2, k) ELSE l2)
        /\ fetch' = [fetch EXCEPT ![c] = <<k>>] /\ answer' = answer
        /\ forgotten' = forgotten /\ torn' = torn /\ crashes' = crashes /\ broken' = broken
    BY <1>9 DEF MissBoth, counters
  <2>2. l1' \in [LayerKey -> Item] /\ \A x \in LayerKey : l1'[x] \in {l1[x], NoItem}
    BY <1>1, <2>1, CleanedItems
  <2>3. l2' \in [LayerKey -> Item] /\ \A x \in LayerKey : l2'[x] \in {l2[x], NoItem}
    BY <1>1, <2>1, CleanedItems
  <2>4. fetch' \in [Reader -> {NoKey} \cup {<<x>> : x \in LayerKey}]
    BY <1>1, <2>1
  <2> QED BY <1>1, <2>1, <2>2, <2>3, <2>4, LeaveInv
<1>10. ASSUME NEW c \in Reader, NEW k \in LayerKey, NEW form \in Form, Returns(c, k, form) PROVE LayersInv'
  BY <1>1, <1>10, StoreInv DEF Returns, Written, counters
<1>11. ASSUME NEW c \in Reader, NEW k \in LayerKey, NEW form \in Form, StoreRaises(c, k, form) PROVE LayersInv'
  <2>1. broken' \in 0..MaxFault
    BY <1>1, <1>2, <1>11 DEF StoreRaises
  <2> QED BY <1>11, <2>1, StoreInv DEF StoreRaises
<1>12. ASSUME NEW c \in Reader, FetchRaises(c) PROVE LayersInv'
  <2>1. /\ time' = time /\ fetched' = fetched /\ l1' = l1 /\ l2' = l2
        /\ fetch' = [fetch EXCEPT ![c] = NoKey] /\ answer' = answer
        /\ forgotten' = forgotten /\ torn' = torn /\ crashes' = crashes /\ broken' = broken
    BY <1>12 DEF FetchRaises, layers, counters
  <2>2. fetch' \in [Reader -> {NoKey} \cup {<<x>> : x \in LayerKey}]
    BY <1>1, <2>1
  <2> QED BY <1>1, <2>1, <2>2, LeaveInv
<1>13. ASSUME NEW S \in SUBSET LayerKey, Invalidate(S) PROVE LayersInv'
  <2>1. /\ time' = time /\ fetched' = fetched /\ l1' = Without(l1, S) /\ l2' = Without(l2, S)
        /\ fetch' = fetch /\ answer' = answer /\ torn' = torn \ S
        /\ crashes' = crashes /\ broken' = broken
    BY <1>13 DEF Invalidate, Invalidated, counters
  <2>2. forgotten' \in [LayerKey -> 0..MaxForget]
    BY <1>1, <1>2, <1>13 DEF Invalidate
  <2>3. /\ l1' \in [LayerKey -> Item] /\ \A x \in LayerKey : l1'[x] = IF x \in S THEN NoItem ELSE l1[x]
        /\ l2' \in [LayerKey -> Item] /\ \A x \in LayerKey : l2'[x] \in {l2[x], NoItem}
    BY <1>1, <2>1, WithoutItems
  <2> QED BY <1>1, <2>1, <2>2, <2>3, LeaveInv
<1>14. ASSUME NEW S \in SUBSET LayerKey, NEW D \in SUBSET S \ {S}, InvalidateRaises(S, D) PROVE LayersInv'
  <2>1. /\ time' = time /\ fetched' = fetched /\ l1' = Without(l1, S) /\ l2' = Without(l2, D)
        /\ fetch' = fetch /\ answer' = answer /\ torn' = torn /\ forgotten' = forgotten
        /\ crashes' = crashes /\ broken' = broken + 1 /\ broken < MaxFault
    BY <1>14 DEF InvalidateRaises, counters
  <2>2. broken' \in 0..MaxFault
    BY <1>1, <1>2, <2>1
  <2>3. /\ l1' \in [LayerKey -> Item] /\ \A x \in LayerKey : l1'[x] \in {l1[x], NoItem}
        /\ l2' \in [LayerKey -> Item] /\ \A x \in LayerKey : l2'[x] \in {l2[x], NoItem}
    BY <1>1, <2>1, WithoutItems
  <2> QED BY <1>1, <2>1, <2>2, <2>3, LeaveInv
<1>15. CASE RestartLayers
  <2>1. /\ time' = time /\ fetched' = fetched /\ l1' = [k \in LayerKey |-> NoItem] /\ l2' = l2
        /\ fetch' = [c \in Reader |-> NoKey] /\ answer' = answer /\ torn' = torn /\ forgotten' = forgotten
        /\ crashes' = crashes + 1 /\ broken' = broken /\ crashes < MaxCrash
    BY <1>15 DEF RestartLayers
  <2>2. crashes' \in 0..MaxCrash
    BY <1>1, <1>2, <2>1
  <2> QED BY <1>1, <1>3, <2>1, <2>2, LeaveInv
<1>16. CASE TickLayers
  <2>1. /\ time' = time + 1 /\ time' \in 0..LastTime
        /\ fetched' = fetched /\ l1' = l1 /\ l2' = l2
        /\ fetch' = fetch /\ answer' = answer /\ torn' = torn /\ forgotten' = forgotten
        /\ crashes' = crashes /\ broken' = broken
    BY <1>1, <1>2, <1>16 DEF TickLayers, layers, counters
  <2>2. \A k \in LayerKey : l1[k].exp <= time' + Lifetime[k] /\ l2[k].exp <= time' + LongerOnDisk * Lifetime[k]
    <3> SUFFICES ASSUME NEW k \in LayerKey
                 PROVE  l1[k].exp <= time' + Lifetime[k] /\ l2[k].exp <= time' + LongerOnDisk * Lifetime[k]
      OBVIOUS
    <3> DEFINE longer == LongerOnDisk * Lifetime[k]
    <3>1. Lifetime[k] \in Nat /\ longer \in Nat
      BY Lifetimes
    <3>2. l1[k].exp <= time + Lifetime[k] /\ l2[k].exp <= time + longer
      BY DEF LayersInv, LayersTypeOK
    <3>3. l1[k].exp \in Nat /\ l2[k].exp \in Nat
      BY <1>1 DEF Item
    <3> HIDE DEF longer
    <3>4. l1[k].exp <= time' + Lifetime[k] /\ l2[k].exp <= time' + longer
      BY <1>1, <2>1, <3>1, <3>2, <3>3
    <3> QED BY <3>4 DEF longer
  <2>3. LayersTypeOK'
    BY <2>1, <2>2 DEF LayersInv, LayersTypeOK
  <2> QED BY <2>1, <2>3 DEF LayersInv, NumberedInv, SameInv
<1>17. CASE UNCHANGED layerVars
  BY <1>17 DEF layerVars, layers, counters, LayersInv, LayersTypeOK, NumberedInv, SameInv
<1> QED
  BY <1>6, <1>7, <1>8, <1>9, <1>10, <1>11, <1>12, <1>13, <1>14, <1>15, <1>16, <1>17 DEF LayersNext

LEMMA LayersAlways == LayersSpec => []LayersInv
BY LayersInvInit, LayersStep, PTL DEF LayersSpec

-----------------------------------------------------------------------------
(* The one copy                                                            *)

(* What the key is answered with is the result in one of the layers.       *)
LEMMA ShownRange ==
    ASSUME LayersInv, NEW k \in LayerKey
    PROVE  /\ Shown(k) \in 0..fetched /\ fetched \in Nat
           /\ Usable(l1, k) => Shown(k) = l1[k].ver /\ Shown(k) # 0
           /\ ~Usable(l1, k) /\ k \in OnDisk /\ Usable(l2, k) => Shown(k) = l2[k].ver /\ Shown(k) # 0
           /\ ~Usable(l1, k) /\ ~(k \in OnDisk /\ Usable(l2, k)) => Shown(k) = 0
<1>1. fetched \in Nat
  BY LayersAssumption DEF LayersInv, LayersTypeOK
<1>2. l1[k].form = "usable" => l1[k].ver \in 1..fetched
  BY <1>1 DEF LayersInv, NumberedInv
<1>3. l2[k].form = "usable" => l2[k].ver \in 1..fetched
  BY <1>1 DEF LayersInv, NumberedInv
<1> QED BY <1>1, <1>2, <1>3 DEF Shown, Usable

LEMMA Clock == ASSUME LayersInv PROVE time \in Nat
BY LayersAssumption DEF LayersInv, LayersTypeOK

(* Losing items, and the passing of time, bring no other result to light,  *)
(* unless a write to the key's disk raised.                                *)
LEMMA ShownFades ==
    ASSUME LayersInv, time' \in Nat, time' >= time, NEW k \in LayerKey,
           l1'[k] \in {l1[k], NoItem}, l2'[k] \in {l2[k], NoItem}
    PROVE  Shown(k)' \in {Shown(k), 0} \/ (k \in torn /\ Shown(k)' \in 0..fetched)
<1>1. /\ fetched \in Nat /\ l1[k].ver \in 0..fetched /\ l2[k].ver \in 0..fetched
      /\ l1[k] \in Item /\ l2[k] \in Item
  BY ShownRange DEF LayersInv, NumberedInv, LayersTypeOK
<1>2. time \in Nat /\ l1[k].exp \in Nat /\ l2[k].exp \in Nat
  BY <1>1, Clock DEF Item
<1>3. NoItem.form = "none" /\ NoItem.ver = 0
  BY DEF NoItem
<1>4. Usable(l1, k)' => Usable(l1, k) /\ l1'[k] = l1[k]
  BY <1>2, <1>3 DEF Usable
<1>5. Usable(l2, k)' => Usable(l2, k) /\ l2'[k] = l2[k]
  BY <1>2, <1>3 DEF Usable
<1>6. k \notin torn /\ Usable(l1, k) /\ Usable(l2, k) => l1[k].ver = l2[k].ver
  BY <1>3 DEF LayersInv, SameInv, Usable
<1>7. Shown(k)' = IF Usable(l1, k)' THEN l1'[k].ver
                  ELSE IF k \in OnDisk /\ Usable(l2, k)' THEN l2'[k].ver ELSE 0
  BY DEF Shown
<1>8. Shown(k) = IF Usable(l1, k) THEN l1[k].ver
                 ELSE IF k \in OnDisk /\ Usable(l2, k) THEN l2[k].ver ELSE 0
  BY DEF Shown
<1>9. CASE k \in torn
  BY <1>1, <1>4, <1>5, <1>7, <1>9
<1>10. CASE k \notin torn
  BY <1>4, <1>5, <1>6, <1>7, <1>8, <1>10
<1> QED BY <1>9, <1>10

(* A store shows in the memory until it expires.                           *)
LEMMA ShownStored ==
    ASSUME LayersInv, NEW k \in LayerKey, NEW form \in Form, time' = time,
           l1' = [l1 EXCEPT ![k] = Kept(form, Lifetime[k])],
           \A x \in LayerKey \ {k} : l2'[x] = l2[x]
    PROVE  /\ form = "usable" => Shown(k)' = fetched + 1
           /\ form # "usable" => ~Usable(l1, k)'
           /\ \A x \in LayerKey \ {k} : Shown(x)' = Shown(x)
<1> DEFINE new == Kept(form, Lifetime[k])
<1>1. /\ new.form = form
      /\ form # "none" => new.ver = fetched + 1 /\ new.exp = time + Lifetime[k]
  BY KeptItem, Lifetimes DEF LayersInv
<1>2. l1'[k] = new /\ \A x \in LayerKey \ {k} : l1'[x] = l1[x]
  BY DEF LayersInv, LayersTypeOK
<1> HIDE DEF new
<1>3. Lifetime[k] \in Nat /\ Lifetime[k] > 0 /\ time \in Nat
  BY Lifetimes, Clock
<1>4. form = "usable" => Usable(l1, k)' /\ l1'[k].ver = fetched + 1
  BY <1>1, <1>2, <1>3 DEF Usable
<1>5. form # "usable" => ~Usable(l1, k)'
  BY <1>1, <1>2 DEF Usable
<1>6. ASSUME NEW x \in LayerKey \ {k} PROVE Shown(x)' = Shown(x)
  BY <1>2 DEF Shown, Usable
<1> QED BY <1>4, <1>5, <1>6 DEF Shown

(* With their different lifetimes, promotion, eviction, restarts and a     *)
(* disk that raises, the layers of TwoLayerCache implement one copy per    *)
(* key: only a fetch in flight brings a result in after an invalidation.   *)
THEOREM LayersImplementation == LayersSpec => ImplementsOneCopy
<1> DEFINE copy == [k \in LayerKey |-> Shown(k)]
<1>1. LayersInit => OneCopy!OneInit
  <2> SUFFICES ASSUME LayersInit PROVE OneCopy!OneInit
    OBVIOUS
  <2>1. \A k \in LayerKey : Shown(k) = 0
    BY DEF LayersInit, Shown, Usable, NoItem
  <2> QED BY <2>1 DEF LayersInit, OneCopy!OneInit, NoKey, OneCopy!NoKey
<1>2. ASSUME LayersInv, LayersInv', [LayersNext]_layerVars
      PROVE  [OneCopy!OneNext]_<<copy, fetch, fetched, forgotten, torn, answer>>
  <2>1. /\ time \in Nat /\ fetched \in Nat
        /\ l1 \in [LayerKey -> Item] /\ l2 \in [LayerKey -> Item]
    BY <1>2, Clock, LayersAssumption DEF LayersInv, LayersTypeOK
  (* Steps that only lose items.                                           *)
  <2>2. ASSUME time' \in Nat, time' >= time,
               \A k \in LayerKey : l1'[k] \in {l1[k], NoItem} /\ l2'[k] \in {l2[k], NoItem},
               fetch' \in {fetch, [c \in Reader |-> NoKey]},
               fetched' = fetched, forgotten' = forgotten, torn' = torn, answer' = answer
        PROVE  OneCopy!OneNext
    <3>1. \A k \in LayerKey : Shown(k)' \in {Shown(k), 0} \/ (k \in torn /\ Shown(k)' \in 0..fetched)
      BY <1>2, <2>2, ShownFades
    <3>2. \A k \in LayerKey : Shown(k) \in 0..fetched
      BY <1>2, ShownRange
    <3>3. copy' \in [LayerKey -> 0..fetched]
      BY <2>1, <3>1, <3>2
    <3>4. \A k \in LayerKey : copy'[k] \in {copy[k], 0} \/ (k \in torn /\ copy'[k] <= fetched)
      BY <3>1
    <3> HIDE DEF copy
    <3>5. \E new \in [LayerKey -> 0..fetched] :
            /\ \A k \in LayerKey : new[k] \in {copy[k], 0} \/ (k \in torn /\ new[k] <= fetched)
            /\ copy' = new
      BY <3>3, <3>4
    <3>6. OneCopy!Fade
      BY <2>2, <3>5 DEF OneCopy!Fade, copy, NoKey, OneCopy!NoKey
    <3> QED BY <3>6 DEF OneCopy!OneNext
  <2>3. ASSUME NEW k \in LayerKey, HitMemory(k) PROVE OneCopy!OneNext
    <3>1. copy' = copy /\ answer' = <<k, copy[k]>> /\ copy[k] # 0
      BY <1>2, <2>3, ShownRange DEF HitMemory, layers, Shown, Usable
    <3>2. OneCopy!Serve(k)
      BY <2>3, <3>1 DEF HitMemory, OneCopy!Serve
    <3> QED BY <3>2 DEF OneCopy!OneNext
  <2>4. ASSUME NEW k \in LayerKey, HitDisk(k) PROVE OneCopy!OneNext
    <3> DEFINE new == [l2[k] EXCEPT !.exp = time + Lifetime[k]]
    <3>1. l1' = [l1 EXCEPT ![k] = new] /\ l2' = l2 /\ time' = time
      BY <2>4 DEF HitDisk
    <3>2. /\ k \in OnDisk /\ ~Usable(l1, k) /\ Usable(l2, k) /\ answer' = <<k, l2[k].ver>>
      BY <2>4 DEF HitDisk
    <3>3. Lifetime[k] \in Nat /\ Lifetime[k] > 0
      BY Lifetimes
    <3>4. new.form = "usable" /\ new.ver = l2[k].ver /\ time < new.exp
      <4>1. l2[k] \in [ver : Nat, form : Form, exp : Nat]
        BY <2>1 DEF Item
      <4> QED BY <2>1, <3>2, <3>3, <4>1 DEF Usable
    <3> HIDE DEF new
    <3>5. Shown(k)' = l2[k].ver
      BY <2>1, <3>1, <3>4 DEF Shown, Usable
    <3>6. Shown(k) = l2[k].ver /\ Shown(k) # 0
      BY <1>2, <3>2, ShownRange
    <3>7. \A x \in LayerKey \ {k} : Shown(x)' = Shown(x)
      BY <2>1, <3>1 DEF Shown, Usable
    <3>8. copy' = copy
      BY <3>5, <3>6, <3>7
    <3>9. copy[k] # 0 /\ answer' = <<k, copy[k]>>
      BY <3>2, <3>6
    <3>10. UNCHANGED <<fetch, fetched, forgotten, torn>>
      BY <2>4 DEF HitDisk
    <3> HIDE DEF copy
    <3>11. OneCopy!Serve(k)
      BY <3>8, <3>9, <3>10 DEF OneCopy!Serve, copy
    <3> QED BY <3>11 DEF OneCopy!OneNext
  <2>5. ASSUME NEW c \in Reader, NEW k \in LayerKey, MissBoth(c, k) PROVE OneCopy!OneNext
    <3>1. /\ l1' = Cleaned(l1, k) /\ time' = time
          /\ l2' = (IF k \in OnDisk THEN Cleaned(l2, k) ELSE l2)
          /\ ~Usable(l1, k) /\ ~(k \in OnDisk /\ Usable(l2, k))
      BY <2>5 DEF MissBoth
    <3>2. \A x \in LayerKey : l1'[x] = l1[x] \/ (x = k /\ l1'[x] = NoItem)
      BY <2>1, <3>1, CleanedItems
    <3>3. \A x \in LayerKey : l2'[x] = l2[x] \/ (x = k /\ l2'[x] = NoItem)
      BY <2>1, <3>1, CleanedItems
    <3>4. Shown(k) = 0 /\ Shown(k)' = 0
      BY <3>1, <3>2, <3>3 DEF Shown, Usable, NoItem
    <3>5. \A x \in LayerKey \ {k} : Shown(x)' = Shown(x)
      BY <3>1, <3>2, <3>3 DEF Shown, Usable
    <3>6. copy' = copy /\ copy[k] = 0
      BY <3>4, <3>5
    <3>7. OneCopy!Begin(c, k)
      BY <2>5, <3>6 DEF MissBoth, OneCopy!Begin, NoKey, OneCopy!NoKey
    <3> QED BY <3>7 DEF OneCopy!OneNext
  <2>6. ASSUME NEW c \in Reader, NEW k \in LayerKey, NEW form \in Form, Returns(c, k, form)
        PROVE  OneCopy!OneNext
    <3> DEFINE new2 == Kept(form, LongerOnDisk * Lifetime[k])
    <3>1. /\ l1' = [l1 EXCEPT ![k] = Kept(form, Lifetime[k])] /\ time' = time
          /\ l2' = (IF k \in OnDisk THEN [l2 EXCEPT ![k] = new2] ELSE l2)
      BY <2>6 DEF Returns, Written
    <3>2. \A x \in LayerKey \ {k} : l2'[x] = l2[x]
      BY <2>1, <3>1
    <3>3. /\ form = "usable" => Shown(k)' = fetched + 1
          /\ form # "usable" => ~Usable(l1, k)'
          /\ \A x \in LayerKey \ {k} : Shown(x)' = Shown(x)
      BY <1>2, <3>1, <3>2, ShownStored
    <3>4. new2.form = form
      BY <1>2, KeptItem, Lifetimes DEF LayersInv
    <3>5. form # "usable" => Shown(k)' = 0
      BY <2>1, <3>1, <3>3, <3>4 DEF Shown, Usable
    <3>6. \E v \in {0, fetched + 1} : copy' = [copy EXCEPT ![k] = v]
      BY <3>3, <3>5
    <3> HIDE DEF copy
    <3>7. OneCopy!Fill(c, k)
      BY <2>6, <3>6 DEF Returns, OneCopy!Fill, copy, NoKey, OneCopy!NoKey
    <3> QED BY <3>7 DEF OneCopy!OneNext
  <2>7. ASSUME NEW c \in Reader, NEW k \in LayerKey, NEW form \in Form, StoreRaises(c, k, form)
        PROVE  OneCopy!OneNext
    <3>1. /\ l1' = [l1 EXCEPT ![k] = Kept(form, Lifetime[k])] /\ time' = time /\ l2' = l2
          /\ fetched' = fetched + 1
      BY <2>7 DEF StoreRaises
    <3>2. \A x \in LayerKey \ {k} : Shown(x)' = Shown(x)
      BY <1>2, <3>1, ShownStored
    <3>3. Shown(k)' \in 0..(fetched + 1)
      <4>1. l1'[k].ver \in 0..(fetched + 1) /\ l2'[k].ver \in 0..(fetched + 1)
        BY <1>2, <3>1 DEF LayersInv, NumberedInv
      <4> QED BY <2>1, <4>1 DEF Shown
    <3>4. \E v \in 0..(fetched + 1) : copy' = [copy EXCEPT ![k] = v]
      BY <3>2, <3>3
    <3> HIDE DEF copy
    <3>5. OneCopy!FillTorn(c, k)
      BY <2>7, <3>4 DEF StoreRaises, OneCopy!FillTorn, copy, NoKey, OneCopy!NoKey
    <3> QED BY <3>5 DEF OneCopy!OneNext
  <2>8. ASSUME NEW c \in Reader, FetchRaises(c) PROVE OneCopy!OneNext
    <3>1. copy' = copy
      BY <2>8 DEF FetchRaises, layers, Shown, Usable
    <3>2. OneCopy!FetchFails(c)
      BY <2>8, <3>1 DEF FetchRaises, OneCopy!FetchFails, NoKey, OneCopy!NoKey
    <3> QED BY <3>2 DEF OneCopy!OneNext
  <2>9. ASSUME NEW S \in SUBSET LayerKey, Invalidate(S) PROVE OneCopy!OneNext
    <3>1. l1' = Without(l1, S) /\ l2' = Without(l2, S) /\ time' = time
      BY <2>9 DEF Invalidate, Invalidated
    <3>2. \A k \in LayerKey : l1'[k] = (IF k \in S THEN NoItem ELSE l1[k]) /\ l2'[k] = (IF k \in S THEN NoItem ELSE l2[k])
      BY <2>1, <3>1, WithoutItems
    <3>3. \A k \in LayerKey : Shown(k)' = IF k \in S THEN 0 ELSE Shown(k)
      BY <3>1, <3>2 DEF Shown, Usable, NoItem
    <3>4. copy' = [k \in LayerKey |-> IF k \in S THEN 0 ELSE copy[k]]
      BY <3>3
    <3> HIDE DEF copy
    <3>5. OneCopy!Forget(S)
      BY <2>9, <3>4 DEF Invalidate, OneCopy!Forget, copy
    <3> QED BY <3>5 DEF OneCopy!OneNext
  <2>10. ASSUME NEW S \in SUBSET LayerKey, NEW D \in SUBSET S \ {S}, InvalidateRaises(S, D)
         PROVE  OneCopy!OneNext
    <3>1. /\ time' = time /\ l1' = Without(l1, S) /\ l2' = Without(l2, D)
          /\ fetch' = fetch /\ fetched' = fetched /\ answer' = answer /\ torn' = torn /\ forgotten' = forgotten
      BY <2>10 DEF InvalidateRaises
    <3>2. \A k \in LayerKey : l1'[k] \in {l1[k], NoItem} /\ l2'[k] \in {l2[k], NoItem}
      BY <2>1, <3>1, WithoutItems
    <3> QED BY <2>1, <2>2, <3>1, <3>2
  <2>11. ASSUME NEW k \in LayerKey, EvictMemory(k) PROVE OneCopy!OneNext
    <3>1. \A x \in LayerKey : l1'[x] \in {l1[x], NoItem} /\ l2'[x] \in {l2[x], NoItem}
      BY <2>1, <2>11 DEF EvictMemory
    <3> QED BY <2>1, <2>2, <2>11, <3>1 DEF EvictMemory
  <2>12. CASE RestartLayers
    <3>1. \A x \in LayerKey : l1'[x] \in {l1[x], NoItem} /\ l2'[x] \in {l2[x], NoItem}
      BY <2>1, <2>12 DEF RestartLayers
    <3> QED BY <2>1, <2>2, <2>12, <3>1 DEF RestartLayers
  <2>13. CASE TickLayers
    BY <2>1, <2>2, <2>13 DEF TickLayers, layers
  <2>14. CASE UNCHANGED layerVars
    BY <2>14 DEF layerVars, layers, Shown, Usable
  <2> QED
    BY <1>2, <2>3, <2>4, <2>5, <2>6, <2>7, <2>8, <2>9, <2>10, <2>11, <2>12, <2>13, <2>14 DEF LayersNext
<1> QED BY <1>1, <1>2, LayersAlways, PTL DEF LayersSpec, ImplementsOneCopy, OneCopy!OneSpec

(* The layers stay well typed: no entry lives longer than its layer's      *)
(* lifetime from now, and only persisted keys reach the disk.              *)
THEOREM LayersTypeCorrect == LayersSpec => []LayersTypeOK
BY LayersAlways, PTL DEF LayersInv
=============================================================================
