---------------------------- MODULE GoldenProofs ----------------------------
(***************************************************************************)
(* The golden registry and the tools that use it.                          *)
(*                                                                         *)
(* Theorems about GoldenRegistry for every set of applications and         *)
(* business transactions, every TTL and any number of crashes and disk     *)
(* errors.  The invariant says what the two copies will be once the writes *)
(* of the running method are done; then they show the same goldens.  From  *)
(* it the mirror can be left out: the registry is its disk.                *)
(* Theorems about GoldenTools follow: there the programs are longer, and   *)
(* the invariant says which of their writes are still to come.             *)
(***************************************************************************)
EXTENDS GoldenTools, SequenceTheorems, TLAPS

(* Equal, or both without a golden in force; time does not tell them apart. *)
Same(e, f) == e = f \/ (Golden(e) = 0 /\ Golden(f) = 0)

W(layer, K, v) == Write(layer, K, v, FALSE)

(* What a method writes: nothing, or the golden last given to set, under   *)
(* one key and no older than what is on disk there.                        *)
Fits(K, v) ==
    \/ v = None
    \/ /\ v \in Entry /\ v.ver = sets /\ v.ver # 0 /\ v.at <= now
       /\ \E k \in Key : K = {k} /\ disk[k].at <= v.at

Clean(m, d) == faults = 0 => \A k \in Key : Same(m[k], d[k])

Put(m, K, v) == [k \in Key |-> IF k \in K THEN v ELSE m[k]]

(* The writes that are left, and that mirror and disk agree after them.    *)
Between == prog = <<>> /\ (up => Clean(mem, disk))
DiskLeft(K, v) == up /\ prog = <<W("disk", K, v)>> /\ Fits(K, v) /\ Clean(mem, Put(disk, K, v))
MemLeft(K) == up /\ prog = <<W("mem", K, None)>> /\ Clean(Put(mem, K, None), disk)
BothLeft(K, L, v) ==
    /\ up /\ prog = <<W("mem", K, v), W("disk", L, v)>> /\ Fits(L, v)
    /\ Clean(Put(mem, K, v), Put(disk, L, v))

ProgInv ==
    \/ Between
    \/ \E K \in SUBSET Key, v \in Entry : DiskLeft(K, v)
    \/ \E K \in SUBSET Key : MemLeft(K)
    \/ \E K, L \in SUBSET Key, v \in Entry : BothLeft(K, L, v)

DataInv ==
    /\ now \in Nat /\ up \in BOOLEAN /\ sets \in Nat /\ crashes \in Nat /\ faults \in Nat
    /\ mem \in [Key -> Entry] /\ disk \in [Key -> Entry]
    /\ got \in [key : Key, ver : Nat, age : Nat]
    /\ \A k \in Key : mem[k].at <= now /\ disk[k].at <= now

RegistryInv == DataInv /\ ProgInv

-----------------------------------------------------------------------------
LEMMA PairConcat ==
    ASSUME NEW S, NEW x \in S, NEW y \in S
    PROVE  <<x>> \o <<y>> = <<x, y>>
<1> DEFINE pair == <<x>> \o <<y>>
<1>1. <<x>> \in Seq(S) /\ <<y>> \in Seq(S) /\ <<x, y>> \in Seq(S)
  OBVIOUS
<1>2. Len(<<x>>) = 1 /\ Len(<<y>>) = 1 /\ Len(<<x, y>>) = 2
  OBVIOUS
<1>3. pair \in Seq(S) /\ Len(pair) = 2 /\ \A i \in 1..2 : pair[i] = IF i <= 1 THEN <<x>>[i] ELSE <<y>>[i - 1]
  BY <1>1, <1>2, ConcatProperties
<1>4. pair[1] = x /\ pair[2] = y
  BY <1>3
<1> HIDE DEF pair
<1>5. pair = <<x, y>>
  BY <1>1, <1>2, <1>3, <1>4, SeqEqual
<1> QED BY <1>5 DEF pair

LEMMA NoneIsEntry == None \in Entry /\ None.ver = 0 /\ None.at = 0
BY DEF None, Entry

LEMMA RegistryInit == Init => RegistryInv
<1> SUFFICES ASSUME Init PROVE RegistryInv
  OBVIOUS
<1>1. (CHOOSE k \in Key : TRUE) \in Key
  <2>1. PICK a \in App, b \in BT : TRUE
    BY BoundAssumption
  <2>2. <<a, b>> \in Key
    BY DEF Key
  <2> QED BY <2>2
<1>2. DataInv
  BY <1>1, NoneIsEntry DEF Init, DataInv
<1>3. Between
  BY DEF Init, Between, Clean, Same
<1> QED BY <1>2, <1>3 DEF RegistryInv, ProgInv

(* The programs are typed.                                                 *)
LEMMA ProgTyped == RegistryInv => TypeOK
<1> SUFFICES ASSUME RegistryInv PROVE prog \in Seq(Step)
  BY DEF RegistryInv, DataInv, TypeOK
<1>1. ASSUME NEW K \in SUBSET Key, NEW v \in Entry, NEW layer \in {"mem", "disk"} PROVE W(layer, K, v) \in Step
  BY <1>1 DEF W, Write, Step, Layer
<1>2. CASE Between
  BY <1>2 DEF Between
<1>3. ASSUME NEW K \in SUBSET Key, NEW v \in Entry, DiskLeft(K, v) PROVE prog \in Seq(Step)
  BY <1>1, <1>3 DEF DiskLeft
<1>4. ASSUME NEW K \in SUBSET Key, MemLeft(K) PROVE prog \in Seq(Step)
  BY <1>1, <1>4, NoneIsEntry DEF MemLeft
<1>5. ASSUME NEW K \in SUBSET Key, NEW L \in SUBSET Key, NEW v \in Entry, BothLeft(K, L, v)
      PROVE  prog \in Seq(Step)
  BY <1>1, <1>5 DEF BothLeft
<1> QED BY <1>2, <1>3, <1>4, <1>5 DEF RegistryInv, ProgInv

-----------------------------------------------------------------------------
(* The methods begin between two others.                                   *)
LEMMA IdleBetween == RegistryInv /\ Idle => Between /\ up
<1> SUFFICES ASSUME RegistryInv, Idle PROVE Between
  BY DEF Idle
<1>1. \A w : <<w>> # <<>>
  OBVIOUS
<1>2. \A w, x : <<w, x>> # <<>>
  OBVIOUS
<1> QED BY <1>1, <1>2 DEF RegistryInv, ProgInv, Idle, DiskLeft, MemLeft, BothLeft

(* Invalidating one key, which get does as well.                           *)
LEMMA InvalidateBegins ==
    ASSUME RegistryInv, Idle, NEW k \in Key, prog' = InvalidateWrites(k, FALSE),
           UNCHANGED <<up, mem, disk, now, sets, faults>>
    PROVE  ProgInv'
<1>1. prog' = <<W("mem", {k}, None), W("disk", {k}, None)>>
  BY DEF InvalidateWrites, Both, W
<1>2. up /\ Clean(mem, disk)
  BY IdleBetween DEF Between
<1>3. Clean(Put(mem, {k}, None), Put(disk, {k}, None))
  BY <1>2 DEF Clean, Put, Same
<1>4. BothLeft({k}, {k}, None)'
  BY <1>1, <1>2, <1>3 DEF BothLeft, Fits, Clean, Same, Golden, Put
<1> QED BY <1>4, NoneIsEntry DEF ProgInv

LEMMA SetInv == ASSUME RegistryInv, NEW k \in Key, Set(k) PROVE RegistryInv'
<1>0. PICK v : v = [ver |-> sets + 1, at |-> now]
  OBVIOUS
<1>1. /\ UNCHANGED <<now, up, mem, disk, got, bounds>> /\ sets' = sets + 1 /\ Idle
      /\ prog' = <<W("mem", {k}, v), W("disk", {k}, v)>>
  BY <1>0 DEF Set, SetWrites, Both, W
<1>2. DataInv'
  BY <1>1 DEF RegistryInv, DataInv, bounds
<1>3. v \in Entry /\ v.ver = sets' /\ v.ver # 0 /\ v.at <= now' /\ disk'[k].at <= v.at
  BY <1>0, <1>1 DEF RegistryInv, DataInv, Entry
<1>4. Fits({k}, v)'
  BY <1>3 DEF Fits
<1>5. up /\ Clean(mem, disk)
  BY <1>1, IdleBetween DEF Between
<1>6. Clean(Put(mem, {k}, v), Put(disk, {k}, v))'
  BY <1>1, <1>5 DEF Clean, Put, Same, Golden, bounds
<1>7. BothLeft({k}, {k}, v)'
  BY <1>1, <1>4, <1>5, <1>6 DEF BothLeft
<1> QED BY <1>2, <1>3, <1>7 DEF RegistryInv, ProgInv

LEMMA GetInv == ASSUME RegistryInv, NEW k \in Key, Get(k) PROVE RegistryInv'
<1>1. /\ UNCHANGED <<now, up, mem, disk, sets, bounds>> /\ Idle
      /\ prog' = GetWrites(k)
      /\ got' = [key |-> k, ver |-> GetResult(k).ver, age |-> now - GetResult(k).at]
  BY DEF Get
<1>2. GetResult(k) \in Entry /\ GetResult(k).at <= now
  BY NoneIsEntry DEF GetResult, RegistryInv, DataInv
<1>3. DataInv'
  BY <1>1, <1>2 DEF RegistryInv, DataInv, bounds, Entry
<1>4. CASE Expired(k)
  BY <1>1, <1>3, <1>4, InvalidateBegins DEF GetWrites, RegistryInv, bounds
<1>5. CASE ~Expired(k)
  <2>1. prog' = <<>>
    BY <1>1, <1>5 DEF GetWrites
  <2>2. Between'
    BY <1>1, <2>1, IdleBetween DEF Between, Clean, Same, Golden, bounds
  <2> QED BY <1>3, <2>2 DEF RegistryInv, ProgInv
<1> QED BY <1>4, <1>5

LEMMA InvalidateInv == ASSUME RegistryInv, NEW k \in Key, Invalidate(k) PROVE RegistryInv'
<1>1. /\ UNCHANGED <<now, up, mem, disk, sets, got, bounds>> /\ Idle /\ prog' = InvalidateWrites(k, FALSE)
  BY DEF Invalidate
<1>2. DataInv'
  BY <1>1 DEF RegistryInv, DataInv, bounds
<1> QED BY <1>1, <1>2, InvalidateBegins DEF RegistryInv, bounds

LEMMA InvalidateAppInv == ASSUME RegistryInv, NEW a \in App, InvalidateApp(a) PROVE RegistryInv'
<1>0. PICK onDisk : onDisk = {k \in KeysOf(a) : disk[k] # None}
  OBVIOUS
<1>1. /\ UNCHANGED <<now, up, mem, disk, sets, got, bounds>> /\ Idle
      /\ prog' = <<W("mem", KeysOf(a), None)>> \o IF onDisk = {} THEN <<>> ELSE <<W("disk", onDisk, None)>>
  BY <1>0 DEF InvalidateApp, InvalidateAppWrites, W
<1>2. DataInv'
  BY <1>1 DEF RegistryInv, DataInv, bounds
<1>3. up /\ Clean(mem, disk)
  BY <1>1, IdleBetween DEF Between
<1>4. KeysOf(a) \in SUBSET Key /\ onDisk \in SUBSET Key
  BY <1>0 DEF KeysOf
<1>5. CASE onDisk = {}
  <2>1. prog' = <<W("mem", KeysOf(a), None)>>
    BY <1>1, <1>5
  <2>2. Clean(Put(mem, KeysOf(a), None), disk)
    BY <1>0, <1>3, <1>4, <1>5 DEF Clean, Put, Same
  <2>3. MemLeft(KeysOf(a))'
    BY <1>1, <1>3, <2>1, <2>2 DEF MemLeft, Clean, Put, Same, Golden, bounds
  <2> QED BY <1>2, <1>4, <2>3 DEF RegistryInv, ProgInv
<1>6. CASE onDisk # {}
  <2>1. prog' = <<W("mem", KeysOf(a), None), W("disk", onDisk, None)>>
    <3>1. prog' = <<W("mem", KeysOf(a), None)>> \o <<W("disk", onDisk, None)>>
      BY <1>1, <1>6
    <3>2. W("mem", KeysOf(a), None) \in Step /\ W("disk", onDisk, None) \in Step
      BY <1>4, NoneIsEntry DEF W, Write, Step, Layer
    <3> QED BY <3>1, <3>2, PairConcat
  <2>2. Clean(Put(mem, KeysOf(a), None), Put(disk, onDisk, None))
    BY <1>0, <1>3, <1>4 DEF Clean, Put, Same
  <2>3. BothLeft(KeysOf(a), onDisk, None)'
    BY <1>1, <1>3, <2>1, <2>2 DEF BothLeft, Fits, Clean, Put, Same, Golden, bounds
  <2> QED BY <1>2, <1>4, <2>3, NoneIsEntry DEF RegistryInv, ProgInv
<1> QED BY <1>5, <1>6

-----------------------------------------------------------------------------
(* The writes.                                                             *)
LEMMA WriteMemInv == ASSUME RegistryInv, WriteMem PROVE RegistryInv'
<1>1. /\ UNCHANGED <<now, up, disk, sets, got, bounds>> /\ up /\ prog # <<>> /\ Head(prog).layer = "mem"
      /\ mem' = Put(mem, Head(prog).keys, Head(prog).val) /\ prog' = Tail(prog)
  BY DEF WriteMem, Put
<1>2. ASSUME NEW K \in SUBSET Key, NEW v \in Entry, v.at <= now, Head(prog) = W("mem", K, v)
      PROVE  DataInv' /\ mem' = Put(mem, K, v)
  BY <1>1, <1>2 DEF RegistryInv, DataInv, Put, W, Write, bounds
<1>3. CASE Between
  BY <1>1, <1>3 DEF Between
<1>4. ASSUME NEW K \in SUBSET Key, NEW v \in Entry, DiskLeft(K, v) PROVE RegistryInv'
  BY <1>1, <1>4 DEF DiskLeft, W, Write
<1>5. ASSUME NEW K \in SUBSET Key, MemLeft(K) PROVE RegistryInv'
  <2>1. Head(prog) = W("mem", K, None) /\ prog' = <<>> /\ Clean(Put(mem, K, None), disk)
    BY <1>1, <1>5 DEF MemLeft
  <2>2. DataInv' /\ mem' = Put(mem, K, None)
    <3>1. None.at <= now
      BY NoneIsEntry DEF RegistryInv, DataInv
    <3> QED BY <1>2, <2>1, <3>1, NoneIsEntry
  <2>3. Clean(mem, disk)'
    BY <1>1, <2>1, <2>2 DEF Clean, Same, Golden, bounds
  <2> QED BY <2>1, <2>2, <2>3 DEF RegistryInv, ProgInv, Between
<1>6. ASSUME NEW K \in SUBSET Key, NEW L \in SUBSET Key, NEW v \in Entry, BothLeft(K, L, v) PROVE RegistryInv'
  <2>1. Head(prog) = W("mem", K, v) /\ prog' = <<W("disk", L, v)>> /\ Clean(Put(mem, K, v), Put(disk, L, v))
    BY <1>1, <1>6 DEF BothLeft
  <2>2. v.at <= now
    BY <1>6, NoneIsEntry DEF BothLeft, Fits, RegistryInv, DataInv
  <2>3. DataInv' /\ mem' = Put(mem, K, v)
    BY <1>2, <2>1, <2>2
  <2>4. Clean(mem, Put(disk, L, v))'
    BY <1>1, <2>1, <2>3 DEF Clean, Put, Same, Golden, bounds
  <2>5. Fits(L, v)'
    BY <1>1, <1>6 DEF BothLeft, Fits
  <2>6. DiskLeft(L, v)'
    BY <1>1, <2>1, <2>4, <2>5 DEF DiskLeft
  <2> QED BY <2>3, <2>6 DEF RegistryInv, ProgInv
<1> QED BY <1>3, <1>4, <1>5, <1>6 DEF RegistryInv, ProgInv

(* What the head of the program is when it writes to disk.                 *)
LEMMA WriteDiskShape ==
    ASSUME RegistryInv, WriteDisk
    PROVE  \E K \in SUBSET Key, v \in Entry, k \in Key :
             /\ k \in K /\ DiskLeft(K, v) /\ v.at <= now /\ disk' = [disk EXCEPT ![k] = v]
             /\ IF K = {k} THEN prog' = <<>> ELSE prog' = <<W("disk", K \ {k}, v)>>
<1>1. prog # <<>> /\ Head(prog).layer = "disk"
  BY DEF WriteDisk
<1>2. PICK k \in Head(prog).keys :
        /\ disk' = [disk EXCEPT ![k] = Head(prog).val]
        /\ prog' = IF Head(prog).keys = {k} THEN Tail(prog)
                   ELSE <<[Head(prog) EXCEPT !.keys = @ \ {k}]>> \o Tail(prog)
  BY DEF WriteDisk
<1>3. PICK K \in SUBSET Key, v \in Entry : DiskLeft(K, v)
  <2>1. ~Between
    BY <1>1 DEF Between
  <2>2. \A K \in SUBSET Key : ~MemLeft(K)
    BY <1>1 DEF MemLeft, W, Write
  <2>3. \A K, L \in SUBSET Key, v \in Entry : ~BothLeft(K, L, v)
    BY <1>1 DEF BothLeft, W, Write
  <2> QED BY <2>1, <2>2, <2>3 DEF RegistryInv, ProgInv
<1>4. prog = <<W("disk", K, v)>> /\ Fits(K, v)
  BY <1>3 DEF DiskLeft
<1>5. Head(prog) = W("disk", K, v) /\ Tail(prog) = <<>>
  BY <1>4
<1>6. Head(prog).keys = K /\ Head(prog).val = v /\ [Head(prog) EXCEPT !.keys = @ \ {k}] = W("disk", K \ {k}, v)
  <2>1. [W("disk", K, v) EXCEPT !.keys = @ \ {k}] = W("disk", K \ {k}, v)
    <3> DEFINE w == W("disk", K, v)
               less == [w EXCEPT !.keys = @ \ {k}]
               rest == W("disk", K \ {k}, v)
    <3>1. w \in Step /\ rest \in Step
      BY DEF W, Write, Step, Layer
    <3>2. less \in Step /\ less.keys = w.keys \ {k} /\ less.layer = w.layer /\ less.val = w.val /\ less.caught = w.caught
      <4> HIDE DEF w
      <4> QED BY <3>1 DEF Step
    <3>3. rest.keys = w.keys \ {k} /\ rest.layer = w.layer /\ rest.val = w.val /\ rest.caught = w.caught
      BY DEF W, Write
    <3> HIDE DEF w, less, rest
    <3>4. less = rest
      BY <3>1, <3>2, <3>3 DEF Step
    <3> QED BY <3>4 DEF w, less, rest
  <2>2. W("disk", K, v).keys = K /\ W("disk", K, v).val = v
    BY DEF W, Write
  <2> QED BY <1>5, <2>1, <2>2
<1>7. v.at <= now
  BY <1>4, NoneIsEntry DEF Fits, RegistryInv, DataInv
<1>8. <<W("disk", K \ {k}, v)>> \o <<>> = <<W("disk", K \ {k}, v)>>
  <2>1. W("disk", K \ {k}, v) \in Step
    BY DEF W, Write, Step, Layer
  <2> QED BY <2>1
<1>9. IF K = {k} THEN prog' = <<>> ELSE prog' = <<W("disk", K \ {k}, v)>>
  BY <1>2, <1>5, <1>6, <1>8
<1>10. k \in K /\ k \in Key /\ disk' = [disk EXCEPT ![k] = v]
  BY <1>2, <1>6
<1> QED BY <1>3, <1>7, <1>9, <1>10

LEMMA WriteDiskInv == ASSUME RegistryInv, WriteDisk PROVE RegistryInv'
<1>1. UNCHANGED <<now, up, mem, sets, got, bounds>>
  BY DEF WriteDisk
<1>2. PICK K \in SUBSET Key, v \in Entry, k \in Key :
        /\ k \in K /\ DiskLeft(K, v) /\ v.at <= now /\ disk' = [disk EXCEPT ![k] = v]
        /\ IF K = {k} THEN prog' = <<>> ELSE prog' = <<W("disk", K \ {k}, v)>>
  BY WriteDiskShape
<1>3. up /\ Fits(K, v) /\ Clean(mem, Put(disk, K, v))
  BY <1>2 DEF DiskLeft
<1>4. DataInv'
  BY <1>1, <1>2 DEF RegistryInv, DataInv, bounds
<1>5. Put(disk', K \ {k}, v) = Put(disk, K, v)
  BY <1>2 DEF Put, RegistryInv, DataInv
<1>6. CASE K = {k}
  <2>1. \A x \in Key : disk'[x] = Put(disk, K, v)[x]
    BY <1>2, <1>6 DEF Put, RegistryInv, DataInv
  <2>2. Clean(mem, disk)'
    BY <1>1, <1>3, <2>1 DEF Clean, Same, Golden, bounds
  <2> QED BY <1>2, <1>4, <1>6, <2>2 DEF RegistryInv, ProgInv, Between
<1>7. CASE K # {k}
  <2>1. v = None
    BY <1>2, <1>3, <1>7 DEF Fits
  <2>2. Clean(mem, Put(disk, K \ {k}, v))'
    BY <1>1, <1>3, <1>5 DEF Clean, Same, Golden, bounds, Put
  <2>3. DiskLeft(K \ {k}, v)'
    BY <1>1, <1>2, <1>3, <1>7, <2>1, <2>2 DEF DiskLeft, Fits
  <2> QED BY <1>4, <2>3 DEF RegistryInv, ProgInv
<1> QED BY <1>6, <1>7

(* An operation on disk that raises abandons the method.                   *)
LEMMA DiskFailsEnds == ASSUME RegistryInv, DiskFails PROVE prog' = <<>> /\ faults' = faults + 1
<1>1. faults' = faults + 1 /\ prog # <<>>
  BY DEF DiskFails
<1>2. Head(prog).caught = FALSE
  <2>1. ~Between
    BY <1>1 DEF Between
  <2>2. ASSUME NEW K \in SUBSET Key, NEW v \in Entry, DiskLeft(K, v) PROVE Head(prog).caught = FALSE
    BY <2>2 DEF DiskLeft, W, Write
  <2>3. ASSUME NEW K \in SUBSET Key, MemLeft(K) PROVE Head(prog).caught = FALSE
    BY <2>3 DEF MemLeft, W, Write
  <2>4. ASSUME NEW K \in SUBSET Key, NEW L \in SUBSET Key, NEW v \in Entry, BothLeft(K, L, v)
        PROVE  Head(prog).caught = FALSE
    BY <2>4 DEF BothLeft, W, Write
  <2> QED BY <2>1, <2>2, <2>3, <2>4 DEF RegistryInv, ProgInv
<1> QED BY <1>1, <1>2 DEF DiskFails

LEMMA DiskFailsInv == ASSUME RegistryInv, DiskFails PROVE RegistryInv'
<1>1. prog' = <<>> /\ faults' = faults + 1 /\ UNCHANGED <<now, up, mem, disk, sets, got, crashes>>
  BY DiskFailsEnds DEF DiskFails
<1>2. DataInv' /\ faults' # 0
  BY <1>1 DEF RegistryInv, DataInv
<1> QED BY <1>1, <1>2 DEF RegistryInv, ProgInv, Between, Clean

LEMMA CrashInv == ASSUME RegistryInv, Crash PROVE RegistryInv'
<1>1. /\ prog' = <<>> /\ up' = FALSE /\ crashes' = crashes + 1 /\ mem' = [k \in Key |-> None]
      /\ UNCHANGED <<now, disk, sets, got, faults>>
  BY DEF Crash
<1>2. None.at <= now
  BY NoneIsEntry DEF RegistryInv, DataInv
<1>3. mem' \in [Key -> Entry] /\ \A k \in Key : mem'[k].at <= now
  BY <1>1, <1>2, NoneIsEntry
<1>4. crashes' \in Nat
  BY <1>1 DEF RegistryInv, DataInv
<1>5. DataInv'
  <2>1. up' \in BOOLEAN
    BY <1>1
  <2> QED BY <1>1, <1>3, <1>4, <2>1 DEF RegistryInv, DataInv
<1> QED BY <1>1, <1>5 DEF RegistryInv, ProgInv, Between

LEMMA RestartInv == ASSUME RegistryInv, Restart PROVE RegistryInv'
<1>1. /\ ~up /\ up' = TRUE /\ mem' = disk' /\ UNCHANGED <<now, prog, sets, got, bounds>>
      /\ disk' = [k \in Key |-> IF now - disk[k].at < TTL THEN disk[k] ELSE None]
  BY DEF Restart
<1>2. DataInv'
  BY <1>1, NoneIsEntry DEF RegistryInv, DataInv, bounds
<1>3. prog' = <<>>
  BY <1>1 DEF RegistryInv, ProgInv, Between, DiskLeft, MemLeft, BothLeft
<1>4. Clean(mem, disk)'
  BY <1>1 DEF Clean, Same
<1> QED BY <1>2, <1>3, <1>4 DEF RegistryInv, ProgInv, Between

(* Time lets goldens expire, the same ones in both copies.                 *)
LEMMA Expiry ==
    ASSUME RegistryInv, now' = now + 1, NEW e \in Entry
    PROVE  Golden(e)' \in {Golden(e), 0}
BY BoundAssumption DEF Golden, Entry, RegistryInv, DataInv

LEMMA TickInv == ASSUME RegistryInv, Tick PROVE RegistryInv'
<1>1. now' = now + 1 /\ UNCHANGED <<up, mem, disk, prog, sets, got, bounds>>
  BY DEF Tick
<1>2. now \in Nat /\ now' \in Nat /\ now' > now /\ TTL \in Nat
  BY <1>1, BoundAssumption DEF RegistryInv, DataInv
<1>3. DataInv'
  BY <1>1, <1>2 DEF RegistryInv, DataInv, Entry, bounds
<1>4. ASSUME NEW e \in Entry, NEW f \in Entry, Same(e, f) PROVE Same(e, f)'
  BY <1>1, <1>4, Expiry DEF Same
<1>5. ASSUME NEW m \in [Key -> Entry], NEW d \in [Key -> Entry], Clean(m, d) PROVE Clean(m, d)'
  BY <1>1, <1>4, <1>5 DEF Clean, bounds
<1>6. ASSUME NEW m \in [Key -> Entry], NEW K \in SUBSET Key, NEW v \in Entry PROVE Put(m, K, v) \in [Key -> Entry]
  BY DEF Put
<1>7. mem \in [Key -> Entry] /\ disk \in [Key -> Entry]
  BY DEF RegistryInv, DataInv
<1>8. ASSUME NEW K \in SUBSET Key, NEW v \in Entry, Fits(K, v) PROVE Fits(K, v)'
  <2>1. v.at \in Nat
    BY DEF Entry
  <2> QED BY <1>1, <1>2, <1>8, <2>1 DEF Fits
<1>9. CASE Between
  BY <1>1, <1>3, <1>5, <1>7, <1>9 DEF Between, RegistryInv, ProgInv
<1>10. ASSUME NEW K \in SUBSET Key, NEW v \in Entry, DiskLeft(K, v) PROVE RegistryInv'
  <2>1. DiskLeft(K, v)'
    BY <1>1, <1>5, <1>6, <1>7, <1>8, <1>10 DEF DiskLeft
  <2> QED BY <1>3, <2>1 DEF RegistryInv, ProgInv
<1>11. ASSUME NEW K \in SUBSET Key, MemLeft(K) PROVE RegistryInv'
  <2>1. MemLeft(K)'
    BY <1>1, <1>5, <1>6, <1>7, <1>11, NoneIsEntry DEF MemLeft
  <2> QED BY <1>3, <2>1 DEF RegistryInv, ProgInv
<1>12. ASSUME NEW K \in SUBSET Key, NEW L \in SUBSET Key, NEW v \in Entry, BothLeft(K, L, v) PROVE RegistryInv'
  <2>1. BothLeft(K, L, v)'
    BY <1>1, <1>5, <1>6, <1>7, <1>8, <1>12 DEF BothLeft
  <2> QED BY <1>3, <2>1 DEF RegistryInv, ProgInv
<1> QED BY <1>9, <1>10, <1>11, <1>12 DEF RegistryInv, ProgInv

LEMMA RegistryStep == RegistryInv /\ [Next]_vars => RegistryInv'
<1> SUFFICES ASSUME RegistryInv, [Next]_vars PROVE RegistryInv'
  OBVIOUS
<1>1. CASE UNCHANGED vars
  BY <1>1 DEF vars, bounds, RegistryInv, DataInv, ProgInv, Between, DiskLeft, MemLeft, BothLeft,
              Fits, Clean, Put, Same, Golden
<1>2. CASE Machine
  BY <1>2, WriteMemInv, WriteDiskInv, DiskFailsInv, CrashInv, RestartInv, TickInv DEF Machine
<1> QED BY <1>1, <1>2, SetInv, GetInv, InvalidateInv, InvalidateAppInv DEF Next

LEMMA RegistryAlways == Spec => []RegistryInv
BY RegistryInit, RegistryStep, PTL DEF Spec

-----------------------------------------------------------------------------
(* The registry is well typed: the programs of its methods are writes, and *)
(* nothing is stamped with a time to come.                                 *)
THEOREM TypeCorrect == Spec => []TypeOK
BY RegistryAlways, ProgTyped, PTL

(* Between two methods the mirror and the disk show the same goldens, with *)
(* any number of crashes and restarts at any moment.                       *)
THEOREM MirrorsDisk == Spec => []Mirror
<1>1. RegistryInv => Mirror
  <2> SUFFICES ASSUME RegistryInv, Idle, faults = 0, NEW k \in Key PROVE Golden(mem[k]) = Golden(disk[k])
    BY DEF Mirror
  <2>1. Same(mem[k], disk[k])
    BY IdleBetween DEF Between, Clean
  <2> QED BY <2>1 DEF Same
<1> QED BY <1>1, RegistryAlways, PTL

(* get answers with the golden in force, or with one of exactly the TTL's  *)
(* age.                                                                    *)
THEOREM GetIsInForce == Spec => GetAnswersInForce
<1> DEFINE InForce == got' # got => \/ got'.ver = Visible(got'.key)
                                    \/ got'.ver = mem[got'.key].ver /\ got'.age = TTL
<1>1. ASSUME RegistryInv, NEW k \in Key, Get(k) PROVE InForce
  <2>1. /\ got'.key = k /\ got'.ver = GetResult(k).ver /\ got'.age = now - GetResult(k).at /\ Idle
    BY <1>1 DEF Get
  <2>2. mem[k] \in [ver : Nat, at : Nat] /\ now \in Nat /\ TTL \in Nat
    BY <1>1, BoundAssumption DEF RegistryInv, DataInv, Entry
  <2>3. Visible(k) = Golden(mem[k])
    BY <2>1 DEF Visible
  <2>4. CASE Expired(k)
    BY <2>1, <2>2, <2>3, <2>4, NoneIsEntry DEF Expired, GetResult, Golden
  <2>5. CASE mem[k] = None
    BY <2>1, <2>3, <2>5, NoneIsEntry DEF Expired, GetResult, Golden
  <2>6. CASE mem[k] # None /\ ~Expired(k)
    <3>1. got'.ver = mem[k].ver /\ got'.age = now - mem[k].at /\ now - mem[k].at <= TTL
      BY <2>1, <2>2, <2>6 DEF Expired, GetResult
    <3>2. CASE now - mem[k].at = TTL
      BY <2>1, <3>1, <3>2
    <3>3. CASE now - mem[k].at # TTL
      <4>1. now - mem[k].at < TTL
        BY <2>2, <3>1, <3>3
      <4> QED BY <2>1, <2>3, <3>1, <4>1 DEF Golden
    <3> QED BY <3>2, <3>3
  <2> QED BY <2>4, <2>5, <2>6
<1>2. RegistryInv /\ [Next]_vars => [InForce]_vars
  <2> SUFFICES ASSUME RegistryInv, Next PROVE InForce
    OBVIOUS
  <2>1. ASSUME got' = got PROVE InForce
    BY <2>1
  <2> HIDE DEF InForce
  <2>2. CASE Machine
    BY <2>1, <2>2 DEF Machine, WriteMem, WriteDisk, DiskFails, Crash, Restart, Tick
  <2> QED BY <1>1, <2>1, <2>2 DEF Next, Set, Invalidate, InvalidateApp
<1> QED BY <1>2, RegistryAlways, PTL DEF Spec, GetAnswersInForce

-----------------------------------------------------------------------------
(* The golden in force is the one on disk, in every state.                 *)
OnDisk == [k \in Key |-> IF faults = 0 THEN Golden(disk[k]) ELSE 0]
InForce == [k \in Key |-> IF faults = 0 THEN Visible(k) ELSE 0]

Agree == InForce = OnDisk

LEMMA VisibleIsDisk == RegistryInv => Agree
<1> SUFFICES ASSUME RegistryInv, faults = 0, NEW k \in Key PROVE Visible(k) = Golden(disk[k])
  BY DEF Agree, InForce, OnDisk
<1>1. CASE Idle
  <2>1. Same(mem[k], disk[k])
    BY <1>1, IdleBetween DEF Between, Clean
  <2> QED BY <1>1, <2>1 DEF Same, Visible
<1>2. CASE ~Idle
  BY <1>2 DEF Visible
<1> QED BY <1>1, <1>2

LEMMA VisibleStaysDisk == RegistryInv' => Agree'
BY VisibleIsDisk, PTL

(* Which programs have a golden still to write.                            *)
LEMMA OpenPrograms ==
    ASSUME RegistryInv
    PROVE  /\ Between => ~Unwritten
           /\ \A K \in SUBSET Key, v \in Entry : DiskLeft(K, v) => (Unwritten <=> v # None)
           /\ \A K \in SUBSET Key : MemLeft(K) => ~Unwritten
           /\ \A K, L \in SUBSET Key, v \in Entry : BothLeft(K, L, v) => (Unwritten <=> v # None)
<1>1. Between => ~Unwritten
  BY DEF Between, Unwritten
<1>2. ASSUME NEW K \in SUBSET Key, NEW v \in Entry, DiskLeft(K, v) PROVE Unwritten <=> v # None
  <2>1. DOMAIN prog = {1} /\ prog[1] = W("disk", K, v)
    BY <1>2 DEF DiskLeft
  <2> QED BY <2>1 DEF Unwritten, W, Write
<1>3. ASSUME NEW K \in SUBSET Key, MemLeft(K) PROVE ~Unwritten
  <2>1. DOMAIN prog = {1} /\ prog[1] = W("mem", K, None)
    BY <1>3 DEF MemLeft
  <2> QED BY <2>1 DEF Unwritten, W, Write
<1>4. ASSUME NEW K \in SUBSET Key, NEW L \in SUBSET Key, NEW v \in Entry, BothLeft(K, L, v)
      PROVE  Unwritten <=> v # None
  <2>1. DOMAIN prog = {1, 2} /\ prog[1] = W("mem", K, v) /\ prog[2] = W("disk", L, v)
    BY <1>4 DEF BothLeft
  <2> QED BY <2>1 DEF Unwritten, W, Write
<1> QED BY <1>1, <1>2, <1>3, <1>4

LEMMA InvalidateAppForgets == ASSUME RegistryInv, NEW a \in App, InvalidateApp(a) PROVE ~Unwritten'
<1>0. PICK onDisk : onDisk = {k \in KeysOf(a) : disk[k] # None}
  OBVIOUS
<1> DEFINE first == W("mem", KeysOf(a), None)
           second == W("disk", onDisk, None)
<1>1. prog' = <<first>> \o IF onDisk = {} THEN <<>> ELSE <<second>>
  BY <1>0 DEF InvalidateApp, InvalidateAppWrites, W
<1>2. first.val = None /\ second.val = None
  BY DEF W, Write
<1>3. first \in Step /\ second \in Step
  BY <1>0, NoneIsEntry DEF W, Write, Step, Layer, KeysOf
<1> HIDE DEF first, second
<1>4. CASE onDisk = {}
  <2>1. prog' = <<first>>
    BY <1>1, <1>3, <1>4
  <2>2. DOMAIN (prog') = {1} /\ prog'[1] = first
    BY <2>1
  <2> QED BY <1>2, <2>2 DEF Unwritten
<1>5. CASE onDisk # {}
  <2>1. prog' = <<first, second>>
    BY <1>1, <1>3, <1>5, PairConcat
  <2>2. DOMAIN (prog') = {1, 2} /\ prog'[1] = first /\ prog'[2] = second
    BY <2>1
  <2> QED BY <1>2, <2>2 DEF Unwritten
<1> QED BY <1>4, <1>5

LEMMA WriteMemLeaves == ASSUME RegistryInv, WriteMem PROVE Unwritten' <=> Unwritten
<1>1. prog # <<>> /\ Head(prog).layer = "mem" /\ prog' = Tail(prog)
  BY DEF WriteMem
<1>2. ~Between /\ \A K \in SUBSET Key, v \in Entry : ~DiskLeft(K, v)
  BY <1>1 DEF Between, DiskLeft, W, Write
<1>3. ASSUME NEW K \in SUBSET Key, MemLeft(K) PROVE Unwritten' <=> Unwritten
  <2>1. prog' = <<>>
    BY <1>1, <1>3 DEF MemLeft
  <2> QED BY <1>3, <2>1, OpenPrograms DEF Unwritten
<1>4. ASSUME NEW K \in SUBSET Key, NEW L \in SUBSET Key, NEW v \in Entry, BothLeft(K, L, v)
      PROVE  Unwritten' <=> Unwritten
  <2>1. prog' = <<W("disk", L, v)>>
    BY <1>1, <1>4 DEF BothLeft
  <2>2. DOMAIN (prog') = {1} /\ prog'[1] = W("disk", L, v)
    BY <2>1
  <2>3. Unwritten' <=> v # None
    BY <2>2 DEF Unwritten, W, Write
  <2> QED BY <1>4, <2>3, OpenPrograms
<1> QED BY <1>2, <1>3, <1>4 DEF RegistryInv, ProgInv

(* What the writes do to the golden in force and to the newest one.        *)
LEMMA WriteDiskPromotes ==
    ASSUME RegistryInv, RegistryInv', WriteDisk
    PROVE  \/ Unwritten /\ ~Unwritten' /\ \E k \in Key : OnDisk' = [OnDisk EXCEPT ![k] = sets]
           \/ Unwritten /\ ~Unwritten' /\ OnDisk' = OnDisk
           \/ /\ Unwritten' = Unwritten
              /\ \E k \in Key : OnDisk' = [x \in Key |-> IF x \in {k} THEN 0 ELSE OnDisk[x]]
<1>1. UNCHANGED <<now, up, mem, sets, faults>>
  BY DEF WriteDisk, bounds
<1>2. PICK K \in SUBSET Key, v \in Entry, k \in Key :
        /\ k \in K /\ DiskLeft(K, v) /\ v.at <= now /\ disk' = [disk EXCEPT ![k] = v]
        /\ IF K = {k} THEN prog' = <<>> ELSE prog' = <<W("disk", K \ {k}, v)>>
  BY WriteDiskShape
<1>3. Fits(K, v) /\ (Unwritten <=> v # None)
  BY <1>2, OpenPrograms DEF DiskLeft
<1>4. \A x \in Key : OnDisk'[x] = IF x = k THEN (IF faults = 0 THEN Golden(v) ELSE 0) ELSE OnDisk[x]
  BY <1>1, <1>2 DEF OnDisk, Golden, RegistryInv, DataInv
<1>5. OnDisk' = [x \in Key |-> OnDisk'[x]] /\ OnDisk = [x \in Key |-> OnDisk[x]]
  BY DEF OnDisk
<1>6. CASE v = None
  <2>1. Golden(v) = 0
    BY <1>6, NoneIsEntry DEF Golden
  <2>2. OnDisk' = [x \in Key |-> IF x \in {k} THEN 0 ELSE OnDisk[x]]
    BY <1>4, <1>5, <2>1
  <2>3. ~Unwritten'
    <3>1. CASE K = {k}
      BY <1>2, <3>1 DEF Unwritten
    <3>2. CASE K # {k}
      <4>1. prog'[1] = W("disk", K \ {k}, None) /\ DOMAIN (prog') = {1}
        BY <1>2, <1>6, <3>2
      <4> QED BY <4>1 DEF Unwritten, W, Write
    <3> QED BY <3>1, <3>2
  <2>4. Unwritten' = Unwritten
    <3>1. Unwritten \in BOOLEAN /\ Unwritten' \in BOOLEAN
      BY DEF Unwritten
    <3> QED BY <1>3, <1>6, <2>3, <3>1
  <2> QED BY <2>2, <2>4
<1>7. CASE v # None
  <2>1. v.ver = sets /\ v.ver # 0 /\ K = {k} /\ disk[k].at <= v.at
    BY <1>2, <1>3, <1>7 DEF Fits
  <2>2. Unwritten /\ ~Unwritten'
    BY <1>2, <1>3, <1>7, <2>1 DEF Unwritten
  <2>3. CASE faults = 0 /\ Golden(v) # 0
    <3>1. Golden(v) = sets
      BY <2>1, <2>3 DEF Golden
    <3>2. OnDisk' = [OnDisk EXCEPT ![k] = sets]
      BY <1>4, <1>5, <2>3, <3>1
    <3> QED BY <2>2, <3>2
  <2>4. CASE ~(faults = 0 /\ Golden(v) # 0)
    <3>1. OnDisk[k] = 0
      <4>1. /\ v.at \in Nat /\ disk[k].at \in Nat /\ now \in Nat /\ TTL \in Nat
        BY BoundAssumption DEF RegistryInv, DataInv, Entry
      <4>2. CASE faults # 0
        BY <4>2 DEF OnDisk
      <4>3. CASE faults = 0
        <5>1. ~(now - v.at < TTL)
          BY <2>1, <2>4, <4>3 DEF Golden
        <5>2. ~(now - disk[k].at < TTL)
          BY <2>1, <4>1, <5>1
        <5> QED BY <5>2 DEF OnDisk, Golden
      <4> QED BY <4>2, <4>3
    <3>2. OnDisk'[k] = 0
      BY <1>4, <2>4
    <3>3. OnDisk' = OnDisk
      BY <1>4, <1>5, <3>1, <3>2
    <3> QED BY <2>2, <3>3
  <2> QED BY <2>3, <2>4
<1> QED BY <1>6, <1>7

(* With crashes between any two writes, the mirror and the disk implement  *)
(* one registry: each promotion comes into force at most once, and what    *)
(* was replaced or forgotten is never seen again, until the disk raises.   *)
THEOREM RegistryImplementation == Spec => ImplementsPromise
<1>1. Init => Promise!PromiseInit
  <2> SUFFICES ASSUME Init PROVE Promise!PromiseInit
    OBVIOUS
  <2>1. InForce = [k \in Key |-> 0]
    BY NoneIsEntry DEF Init, InForce, Visible, Golden
  <2>2. Unwritten = FALSE
    BY DEF Init, Unwritten
  <2> QED BY <2>1, <2>2 DEF Init, Promise!PromiseInit, InForce
<1>2. ASSUME RegistryInv, RegistryInv', [Next]_vars
      PROVE  [Promise!PromiseNext]_<<InForce, sets, Unwritten>>
  <2>1. InForce = OnDisk /\ InForce' = OnDisk'
    BY <1>2, VisibleIsDisk, VisibleStaysDisk DEF Agree
  <2>2. Unwritten \in BOOLEAN /\ Unwritten' \in BOOLEAN
    BY DEF Unwritten
  <2>3. ASSUME Idle PROVE Unwritten = FALSE
    BY <2>3 DEF Idle, Unwritten
  <2>4. ASSUME disk' = disk, now' = now, faults' = faults PROVE InForce' = InForce
    BY <2>1, <2>4 DEF OnDisk, Golden
  <2>5. ASSUME NEW k \in Key, Set(k) PROVE Promise!PromiseNext
    <3>1. sets' = sets + 1 /\ prog' = <<W("mem", {k}, [ver |-> sets + 1, at |-> now]), W("disk", {k}, [ver |-> sets + 1, at |-> now])>>
      BY <2>5 DEF Set, SetWrites, Both, W
    <3>2. InForce' = InForce
      BY <2>4, <2>5 DEF Set, bounds
    <3>3. Unwritten' = TRUE
      <4>1. sets + 1 # 0
        BY <1>2 DEF RegistryInv, DataInv
      <4>2. 2 \in DOMAIN (prog') /\ prog'[2].layer = "disk" /\ prog'[2].val # None
        BY <3>1, <4>1 DEF W, Write, None
      <4> QED BY <2>2, <4>2 DEF Unwritten
    <3>4. Promise!Request
      BY <2>3, <2>5, <3>1, <3>2, <3>3 DEF Set, Promise!Request, InForce
    <3> QED BY <3>4 DEF Promise!PromiseNext
  <2>6. ASSUME ~Unwritten', Idle, UNCHANGED <<disk, now, sets, faults>> PROVE UNCHANGED <<InForce, sets, Unwritten>>
    BY <2>2, <2>3, <2>4, <2>6
  <2>7. ASSUME NEW k \in Key, prog' = InvalidateWrites(k, FALSE) \/ prog' = <<>> PROVE ~Unwritten'
    <3>1. CASE prog' = <<>>
      BY <3>1 DEF Unwritten
    <3>2. CASE prog' = InvalidateWrites(k, FALSE)
      <4>1. prog' = <<W("mem", {k}, None), W("disk", {k}, None)>>
        BY <3>2 DEF InvalidateWrites, Both, W
      <4>2. DOMAIN (prog') = {1, 2} /\ prog'[1] = W("mem", {k}, None) /\ prog'[2] = W("disk", {k}, None)
        BY <4>1
      <4> QED BY <4>2 DEF Unwritten, W, Write
    <3> QED BY <2>7, <3>1, <3>2
  <2>8. ASSUME NEW k \in Key, Get(k) PROVE UNCHANGED <<InForce, sets, Unwritten>>
    BY <2>6, <2>7, <2>8 DEF Get, GetWrites, bounds
  <2>9. ASSUME NEW k \in Key, Invalidate(k) PROVE UNCHANGED <<InForce, sets, Unwritten>>
    BY <2>6, <2>7, <2>9 DEF Invalidate, bounds
  <2>10. ASSUME NEW a \in App, InvalidateApp(a) PROVE UNCHANGED <<InForce, sets, Unwritten>>
    <3>1. ~Unwritten'
      BY <1>2, <2>10, InvalidateAppForgets
    <3> QED BY <2>6, <2>10, <3>1 DEF InvalidateApp, bounds
  <2>11. CASE WriteMem
    <3>1. UNCHANGED <<disk, now, sets, faults>>
      BY <2>11 DEF WriteMem, bounds
    <3>2. Unwritten' = Unwritten
      BY <1>2, <2>2, <2>11, WriteMemLeaves
    <3> QED BY <2>4, <3>1, <3>2
  <2>12. CASE WriteDisk
    <3>1. sets' = sets
      BY <2>12 DEF WriteDisk
    <3>2. CASE Unwritten /\ ~Unwritten' /\ \E k \in Key : OnDisk' = [OnDisk EXCEPT ![k] = sets]
      <4>1. PICK k \in Key : InForce' = [InForce EXCEPT ![k] = sets]
        BY <2>1, <3>2
      <4>2. Promise!Promote(k)
        BY <2>2, <3>1, <3>2, <4>1 DEF Promise!Promote, InForce
      <4> QED BY <4>2 DEF Promise!PromiseNext
    <3>3. CASE Unwritten /\ ~Unwritten' /\ OnDisk' = OnDisk
      <4>1. Promise!Withdraw
        BY <2>1, <2>2, <3>1, <3>3 DEF Promise!Withdraw, InForce
      <4> QED BY <4>1 DEF Promise!PromiseNext
    <3>4. CASE /\ Unwritten' = Unwritten
               /\ \E k \in Key : OnDisk' = [x \in Key |-> IF x \in {k} THEN 0 ELSE OnDisk[x]]
      <4>1. PICK k \in Key : InForce' = [x \in Key |-> IF x \in {k} THEN 0 ELSE InForce[x]]
        BY <2>1, <3>4
      <4>2. Promise!Forget({k})
        BY <3>1, <3>4, <4>1 DEF Promise!Forget, InForce
      <4> QED BY <4>2 DEF Promise!PromiseNext
    <3> QED BY <1>2, <2>12, <3>2, <3>3, <3>4, WriteDiskPromotes
  <2>13. CASE DiskFails
    <3>0. prog' = <<>> /\ faults' = faults + 1
      BY <1>2, <2>13, DiskFailsEnds
    <3>1. prog' = <<>> /\ faults' # 0 /\ sets' = sets
      BY <1>2, <2>13, <3>0 DEF DiskFails, RegistryInv, DataInv
    <3>2. InForce' = [k \in Key |-> 0] /\ Unwritten' = FALSE
      BY <3>1 DEF InForce, Unwritten
    <3>3. Promise!Lose
      BY <3>1, <3>2 DEF Promise!Lose, InForce
    <3> QED BY <3>3 DEF Promise!PromiseNext
  <2>14. CASE Crash
    <3>1. prog' = <<>> /\ sets' = sets /\ InForce' = InForce
      BY <2>4, <2>14 DEF Crash
    <3>2. Unwritten' = FALSE
      BY <3>1 DEF Unwritten
    <3>3. CASE Unwritten
      <4>1. Promise!Withdraw
        BY <3>1, <3>2, <3>3 DEF Promise!Withdraw, InForce
      <4> QED BY <4>1 DEF Promise!PromiseNext
    <3>4. CASE ~Unwritten
      BY <2>2, <3>1, <3>2, <3>4
    <3> QED BY <3>3, <3>4
  <2>15. CASE Restart
    <3>1. /\ UNCHANGED <<now, prog, sets, faults>>
          /\ disk' = [k \in Key |-> IF now - disk[k].at < TTL THEN disk[k] ELSE None]
      BY <2>15 DEF Restart, bounds
    <3>2. OnDisk' = OnDisk
      BY <3>1, NoneIsEntry DEF OnDisk, Golden
    <3>3. Unwritten' = Unwritten
      BY <3>1 DEF Unwritten
    <3> QED BY <2>1, <3>1, <3>2, <3>3
  <2>16. CASE Tick
    <3>1. now' = now + 1 /\ UNCHANGED <<disk, prog, sets, faults>>
      BY <2>16 DEF Tick, bounds
    <3>2. \A k \in Key : OnDisk'[k] \in {OnDisk[k], 0}
      BY <1>2, <3>1, Expiry DEF OnDisk, RegistryInv, DataInv
    <3> DEFINE S == {k \in Key : OnDisk'[k] # OnDisk[k]}
    <3>3. OnDisk' = [k \in Key |-> IF k \in S THEN 0 ELSE OnDisk[k]]
      <4>1. OnDisk' = [k \in Key |-> OnDisk'[k]]
        BY DEF OnDisk
      <4>2. \A k \in Key : OnDisk'[k] = IF k \in S THEN 0 ELSE OnDisk[k]
        BY <3>2
      <4> HIDE DEF S
      <4> QED BY <4>1, <4>2
    <3>4. Unwritten' = Unwritten
      BY <3>1 DEF Unwritten
    <3>5. PICK T \in SUBSET Key : T = S
      OBVIOUS
    <3>6. Promise!Forget(T)
      BY <2>1, <3>1, <3>3, <3>4, <3>5 DEF Promise!Forget, InForce
    <3> QED BY <3>6 DEF Promise!PromiseNext
  <2>17. CASE UNCHANGED vars
    BY <2>17 DEF vars, bounds, InForce, Visible, Golden, Idle, Unwritten
  <2> QED
    BY <1>2, <2>5, <2>8, <2>9, <2>10, <2>11, <2>12, <2>13, <2>14, <2>15, <2>16, <2>17 DEF Next, Machine
<1> QED BY <1>1, <1>2, RegistryAlways, PTL DEF Spec, ImplementsPromise, Promise!PromiseSpec, InForce

-----------------------------------------------------------------------------
(* GoldenTools.                                                            *)
(*                                                                         *)
(* A handler that has said a golden is set, or that goldens are cleared,   *)
(* has done the writes that make it true: until it returns they are done   *)
(* or still ahead in its program.  What a failed try skips is caught, and  *)
(* a detected restart clears the mirror before it asks the disk.           *)

Dated == \A k \in Key :
    /\ mem[k].ver # 0 => mem[k].ver > wiped[k] /\ mem[k].ver >= reported[k]
    /\ disk[k].ver # 0 => disk[k].ver >= reported[k]
    /\ faults = 0 =>
          /\ mem[k].ver # 0 => mem[k].ver > cleared[k]
          /\ disk[k].ver # 0 => disk[k].ver > cleared[k]

NewestSet == \A k \in Key : wiped[k] < sets /\ reported[k] < sets /\ cleared[k] < sets

(* A write on k in this layer before the i-th of the program, if need be   *)
(* one that no try can skip.                                               *)
Coming(layer, k, i, sure) ==
    \E j \in 1..Len(prog) :
        j < i /\ prog[j].layer = layer /\ k \in prog[j].keys /\ (sure => ~prog[j].caught)

WritesOK == \A i \in 1..Len(prog) :
    /\ prog[i].layer = "done" => i = Len(prog)
    /\ prog[i].val # None => prog[i].val.ver = sets /\ NewestSet

SetsOK == \A i \in 1..Len(prog) : prog[i].layer = "done" /\ prog[i].val # None =>
    \A k \in prog[i].keys :
        /\ mem[k].ver \in {0, sets} \/ Coming("mem", k, i, TRUE)
        /\ disk[k].ver \in {0, sets} \/ Coming("disk", k, i, TRUE)

ClearsOK == \A i \in 1..Len(prog) : prog[i].layer = "done" /\ prog[i].val = None =>
    /\ \A j \in 1..Len(prog) : prog[j].val = None
    /\ Clearing = {} => \A j \in 1..Len(prog) : prog[j].layer = "mem" => j = 1
    /\ \A k \in prog[i].keys :
        /\ Clearing = {} \/ faults = 0 => mem[k].ver = 0 \/ Coming("mem", k, i, FALSE)
        /\ faults = 0 => disk[k].ver = 0 \/ Coming("disk", k, i, FALSE)

HistoryShape ==
    /\ now \in Nat /\ up \in BOOLEAN /\ sets \in Nat /\ faults \in Nat
    /\ mem \in [Key -> Entry] /\ disk \in [Key -> Entry]
    /\ prog \in Seq(Step) /\ (~up => prog = <<>>)
    /\ call = [c \in Call |-> call[c]]
    /\ reported \in [Key -> Nat] /\ cleared \in [Key -> Nat] /\ wiped \in [Key -> Nat]
    /\ \A k \in Key : wiped[k] <= sets /\ reported[k] <= sets /\ cleared[k] <= sets

ToolsInv == HistoryShape /\ Dated /\ WritesOK /\ SetsOK /\ ClearsOK

(* Between two handlers there is nothing to say of the program.            *)
LEMMA NoProgram ==
    ASSUME prog' = <<>>
    PROVE  prog' \in Seq(Step) /\ WritesOK' /\ SetsOK' /\ ClearsOK'
<1>1. prog' \in Seq(Step) /\ Len(prog') = 0
  BY EmptySeq
<1> QED BY <1>1 DEF WritesOK, SetsOK, ClearsOK

LEMMA ToolsInitInv == ToolsInit => ToolsInv
<1> SUFFICES ASSUME ToolsInit PROVE ToolsInv
  OBVIOUS
<1>1. HistoryShape
  BY NoneIsEntry, EmptySeq DEF ToolsInit, Init, HistoryShape
<1>2. Dated
  BY NoneIsEntry DEF ToolsInit, Init, Dated
<1>3. Len(prog) = 0
  BY EmptySeq DEF ToolsInit, Init
<1> QED BY <1>1, <1>2, <1>3 DEF ToolsInv, WritesOK, SetsOK, ClearsOK

(* A handler goes on by n writes of its program: each write that is gone   *)
(* was carried out, or skipped with the rest of its try after a failure.   *)
LEMMA Advance ==
    ASSUME ToolsInv, prog # <<>>, NEW n \in 0..Len(prog),
           prog' \in Seq(Step), Len(prog') = Len(prog) - n,
           \A i \in 1..Len(prog') :
              /\ prog'[i].layer = prog[i + n].layer /\ prog'[i].val = prog[i + n].val
              /\ prog'[i].caught = prog[i + n].caught
              /\ i + n # 1 => prog'[i].keys = prog[i + n].keys,
           prog[1].layer # "done",
           UNCHANGED <<now, up, sets, call, reported, cleared, wiped>>, faults' \in {faults, faults + 1},
           mem' \in [Key -> Entry], disk' \in [Key -> Entry],
           \A k \in Key : mem'[k] \in {mem[k], prog[1].val} /\ disk'[k] \in {disk[k], prog[1].val},
           \A j \in 1..Len(prog), k \in Key : k \in prog[j].keys /\ prog[j].layer = "mem" =>
              \/ j > n /\ k \in prog'[j - n].keys
              \/ mem'[k] = prog[1].val
              \/ faults' # 0 /\ prog[j].caught /\ j # 1,
           \A j \in 1..Len(prog), k \in Key : k \in prog[j].keys /\ prog[j].layer = "disk" =>
              \/ j > n /\ k \in prog'[j - n].keys
              \/ disk'[k] = prog[1].val
              \/ faults' # 0 /\ prog[j].caught
    PROVE  ToolsInv'
<1>1. HistoryShape /\ Dated /\ WritesOK /\ SetsOK /\ ClearsOK
  BY DEF ToolsInv
<1>2. Len(prog) \in Nat /\ 1 \in 1..Len(prog) /\ Len(prog') \in Nat /\ n \in Nat
  BY <1>1 DEF HistoryShape
<1>3. HistoryShape'
  BY <1>1 DEF HistoryShape
<1>4. \A i \in 1..Len(prog') : i + n \in 1..Len(prog) /\ (i = Len(prog') <=> i + n = Len(prog))
  BY <1>2
<1>5. prog[1].val # None => prog[1].val.ver = sets /\ NewestSet
  BY <1>1, <1>2 DEF WritesOK
<1>6. Dated'
  <2> SUFFICES ASSUME NEW k \in Key
               PROVE  /\ mem'[k].ver # 0 => mem'[k].ver > wiped[k] /\ mem'[k].ver >= reported[k]
                      /\ disk'[k].ver # 0 => disk'[k].ver >= reported[k]
                      /\ faults' = 0 =>
                            /\ mem'[k].ver # 0 => mem'[k].ver > cleared[k]
                            /\ disk'[k].ver # 0 => disk'[k].ver > cleared[k]
    BY DEF Dated
  <2>1. mem'[k] \in {mem[k], prog[1].val} /\ disk'[k] \in {disk[k], prog[1].val}
    OBVIOUS
  <2>2. \/ prog[1].val.ver = 0
        \/ /\ prog[1].val.ver = sets /\ wiped[k] < sets /\ reported[k] < sets /\ cleared[k] < sets
           /\ reported[k] \in Nat /\ sets \in Nat
    BY <1>1, <1>5, NoneIsEntry DEF NewestSet, HistoryShape
  <2>3. faults' = 0 => faults = 0
    BY <1>1 DEF HistoryShape
  <2>4. /\ mem[k].ver # 0 => mem[k].ver > wiped[k] /\ mem[k].ver >= reported[k]
        /\ disk[k].ver # 0 => disk[k].ver >= reported[k]
        /\ faults = 0 =>
              /\ mem[k].ver # 0 => mem[k].ver > cleared[k]
              /\ disk[k].ver # 0 => disk[k].ver > cleared[k]
    BY <1>1 DEF Dated
  <2> QED BY ONLY <2>1, <2>2, <2>3, <2>4
<1>7. WritesOK'
  <2> SUFFICES ASSUME NEW i \in 1..Len(prog')
               PROVE  /\ prog'[i].layer = "done" => i = Len(prog')
                      /\ prog'[i].val # None => prog'[i].val.ver = sets /\ NewestSet
    BY DEF WritesOK, NewestSet
  <2>1. prog'[i].layer = prog[i + n].layer /\ prog'[i].val = prog[i + n].val
    OBVIOUS
  <2> QED BY <1>1, <1>4, <2>1 DEF WritesOK
<1>8. Clearing' = Clearing
  BY DEF Clearing
<1>9. ASSUME NEW i \in 1..Len(prog'), NEW k \in Key, NEW sure \in BOOLEAN,
             Coming("mem", k, i + n, sure), mem'[k] # prog[1].val,
             sure \/ faults' = 0 \/ \A j \in 1..Len(prog) : prog[j].layer = "mem" => j = 1
      PROVE  Coming("mem", k, i, sure)'
  <2>1. PICK j \in 1..Len(prog) : j < i + n /\ prog[j].layer = "mem" /\ k \in prog[j].keys
                                  /\ (sure => ~prog[j].caught)
    BY <1>9 DEF Coming
  <2>2. j > n /\ k \in prog'[j - n].keys
    BY <1>9, <2>1
  <2>3. j - n \in 1..Len(prog') /\ j - n < i /\ (j - n) + n = j
    BY <1>2, <2>1, <2>2
  <2>4. prog'[j - n].layer = prog[j].layer /\ prog'[j - n].caught = prog[j].caught
    BY <2>3
  <2> QED BY <2>1, <2>2, <2>3, <2>4 DEF Coming
<1>10. ASSUME NEW i \in 1..Len(prog'), NEW k \in Key, NEW sure \in BOOLEAN,
              Coming("disk", k, i + n, sure), disk'[k] # prog[1].val, sure \/ faults' = 0
       PROVE  Coming("disk", k, i, sure)'
  <2>1. PICK j \in 1..Len(prog) : j < i + n /\ prog[j].layer = "disk" /\ k \in prog[j].keys
                                  /\ (sure => ~prog[j].caught)
    BY <1>10 DEF Coming
  <2>2. j > n /\ k \in prog'[j - n].keys
    BY <1>10, <2>1
  <2>3. j - n \in 1..Len(prog') /\ j - n < i /\ (j - n) + n = j
    BY <1>2, <2>1, <2>2
  <2>4. prog'[j - n].layer = prog[j].layer /\ prog'[j - n].caught = prog[j].caught
    BY <2>3
  <2> QED BY <2>1, <2>2, <2>3, <2>4 DEF Coming
<1>11. \A i \in 1..Len(prog') : prog'[i].keys \in SUBSET Key
  <2>1. \A i \in 1..Len(prog') : prog'[i] \in Step
    BY ElementOfSeq
  <2> QED BY <2>1 DEF Step
<1>12. SetsOK'
  <2> SUFFICES ASSUME NEW i \in 1..Len(prog'), prog'[i].layer = "done", prog'[i].val # None,
                      NEW k \in prog'[i].keys
               PROVE  /\ mem'[k].ver \in {0, sets} \/ Coming("mem", k, i, TRUE)'
                      /\ disk'[k].ver \in {0, sets} \/ Coming("disk", k, i, TRUE)'
    BY DEF SetsOK
  <2>1. prog[1].val.ver \in {0, sets}
    BY <1>5, <1>11, NoneIsEntry
  <2>2. i + n \in 1..Len(prog) /\ prog[i + n].layer = "done" /\ prog[i + n].val # None /\ k \in prog[i + n].keys
    BY <1>2, <1>4
  <2>3. /\ mem[k].ver \in {0, sets} \/ Coming("mem", k, i + n, TRUE)
        /\ disk[k].ver \in {0, sets} \/ Coming("disk", k, i + n, TRUE)
    BY <1>1, <2>2 DEF SetsOK
  <2> QED BY <1>9, <1>10, <1>11, <2>1, <2>3
<1>13. ClearsOK'
  <2> SUFFICES ASSUME NEW i \in 1..Len(prog'), prog'[i].layer = "done", prog'[i].val = None
               PROVE  /\ \A j \in 1..Len(prog') : prog'[j].val = None
                      /\ Clearing = {} => \A j \in 1..Len(prog') : prog'[j].layer = "mem" => j = 1
                      /\ \A k \in prog'[i].keys :
                          /\ Clearing = {} \/ faults' = 0 => mem'[k].ver = 0 \/ Coming("mem", k, i, FALSE)'
                          /\ faults' = 0 => disk'[k].ver = 0 \/ Coming("disk", k, i, FALSE)'
    BY <1>8 DEF ClearsOK
  <2>1. i + n \in 1..Len(prog) /\ prog[i + n].layer = "done" /\ prog[i + n].val = None
        /\ prog'[i].keys = prog[i + n].keys
    BY <1>2, <1>4
  <2>2. /\ \A j \in 1..Len(prog) : prog[j].val = None
        /\ Clearing = {} => \A j \in 1..Len(prog) : prog[j].layer = "mem" => j = 1
        /\ \A k \in prog[i + n].keys :
            /\ Clearing = {} \/ faults = 0 => mem[k].ver = 0 \/ Coming("mem", k, i + n, FALSE)
            /\ faults = 0 => disk[k].ver = 0 \/ Coming("disk", k, i + n, FALSE)
    BY <1>1, <2>1 DEF ClearsOK
  <2>3. \A j \in 1..Len(prog') : prog'[j].val = None
    BY <1>4, <2>2
  <2>4. Clearing = {} => \A j \in 1..Len(prog') : prog'[j].layer = "mem" => j = 1
    <3> SUFFICES ASSUME Clearing = {}, NEW j \in 1..Len(prog'), prog'[j].layer = "mem" PROVE j = 1
      OBVIOUS
    <3>1. j + n \in 1..Len(prog) /\ prog[j + n].layer = "mem"
      BY <1>4
    <3>2. j + n = 1
      BY <2>2, <3>1
    <3> QED BY <1>2, <3>2
  <2>5. prog[1].val = None /\ None.ver = 0
    BY <1>2, <2>2, NoneIsEntry
  <2>6. ASSUME NEW k \in prog'[i].keys
        PROVE  /\ Clearing = {} \/ faults' = 0 => mem'[k].ver = 0 \/ Coming("mem", k, i, FALSE)'
               /\ faults' = 0 => disk'[k].ver = 0 \/ Coming("disk", k, i, FALSE)'
    <3>1. k \in Key /\ (faults' = 0 => faults = 0)
      BY <1>1, <1>11 DEF HistoryShape
    <3> QED BY <1>9, <1>10, <2>1, <2>2, <2>5, <3>1
  <2> QED BY <2>3, <2>4, <2>6
<1> QED BY <1>3, <1>6, <1>7, <1>12, <1>13 DEF ToolsInv
-----------------------------------------------------------------------------
(* The steps inside a handler.                                             *)
LEMMA HeadIsFirst ==
    ASSUME ToolsInv, prog # <<>>
    PROVE  /\ Len(prog) \in Nat \ {0} /\ prog[1] = Head(prog) /\ prog[1] \in Step
           /\ Tail(prog) \in Seq(Step) /\ Len(Tail(prog)) = Len(prog) - 1
           /\ \A i \in 1..(Len(prog) - 1) : Tail(prog)[i] = prog[i + 1]
<1>1. prog \in Seq(Step)
  BY DEF ToolsInv, HistoryShape
<1>2. Len(prog) \in Nat \ {0} /\ prog[1] = Head(prog)
  BY <1>1
<1>3. prog[1] \in Step
  BY <1>1, <1>2
<1> QED BY <1>1, <1>2, <1>3

LEMMA WriteMemKeeps == ASSUME ToolsInv, WriteMem, UNCHANGED tools PROVE ToolsInv'
<1>1. /\ prog # <<>> /\ Head(prog).layer = "mem" /\ prog' = Tail(prog)
      /\ mem' = [k \in Key |-> IF k \in Head(prog).keys THEN Head(prog).val ELSE mem[k]]
      /\ UNCHANGED <<now, up, sets, disk, faults, call, reported, cleared, wiped>>
  BY DEF WriteMem, bounds, tools
<1>2. /\ Len(prog) \in Nat \ {0} /\ prog[1] = Head(prog) /\ prog[1] \in Step
      /\ prog' \in Seq(Step) /\ Len(prog') = Len(prog) - 1
      /\ \A i \in 1..(Len(prog) - 1) : prog'[i] = prog[i + 1]
  BY <1>1, HeadIsFirst
<1>3. mem \in [Key -> Entry] /\ disk \in [Key -> Entry] /\ faults \in Nat /\ prog[1].val \in Entry
  BY <1>2 DEF ToolsInv, HistoryShape, Step
<1>4. mem' \in [Key -> Entry] /\ \A k \in Key : mem'[k] = IF k \in prog[1].keys THEN prog[1].val ELSE mem[k]
  BY <1>1, <1>2, <1>3
<1>5. \A j \in 1..Len(prog) : j # 1 => j - 1 \in 1..(Len(prog) - 1) /\ prog'[j - 1] = prog[j] /\ j > 1
  BY <1>2
<1>6. \A j \in 1..Len(prog), k \in Key : k \in prog[j].keys /\ prog[j].layer = "mem" =>
        \/ j > 1 /\ k \in prog'[j - 1].keys
        \/ mem'[k] = prog[1].val
  BY <1>4, <1>5
<1>7. \A j \in 1..Len(prog), k \in Key : k \in prog[j].keys /\ prog[j].layer = "disk" =>
        j > 1 /\ k \in prog'[j - 1].keys
  BY <1>1, <1>2, <1>5
<1>8. prog[1].layer # "done" /\ 1 \in 0..Len(prog)
  BY <1>1, <1>2
<1> QED BY <1>1, <1>2, <1>3, <1>4, <1>6, <1>7, <1>8, Advance

LEMMA ProceedKeeps == ASSUME ToolsInv, Proceed PROVE ToolsInv'
<1>1. /\ prog # <<>> /\ Head(prog).layer \in {"bt", "sweep"} /\ prog' = Tail(prog)
      /\ UNCHANGED <<now, up, sets, mem, disk, faults, call, reported, cleared, wiped>>
  BY DEF Proceed, bounds
<1>2. /\ Len(prog) \in Nat \ {0} /\ prog[1] = Head(prog) /\ prog[1] \in Step
      /\ prog' \in Seq(Step) /\ Len(prog') = Len(prog) - 1
      /\ \A i \in 1..(Len(prog) - 1) : prog'[i] = prog[i + 1]
  BY <1>1, HeadIsFirst
<1>3. mem' \in [Key -> Entry] /\ disk' \in [Key -> Entry] /\ faults \in Nat
  BY <1>1 DEF ToolsInv, HistoryShape
<1>5. \A j \in 1..Len(prog) : j # 1 => j - 1 \in 1..(Len(prog) - 1) /\ prog'[j - 1] = prog[j] /\ j > 1
  BY <1>2
<1>6. \A j \in 1..Len(prog), k \in Key : k \in prog[j].keys /\ prog[j].layer \in {"mem", "disk"} =>
        j > 1 /\ k \in prog'[j - 1].keys
  BY <1>1, <1>2, <1>5
<1>8. prog[1].layer # "done" /\ 1 \in 0..Len(prog)
  BY <1>1, <1>2
<1> QED BY <1>1, <1>2, <1>3, <1>6, <1>8, Advance

LEMMA WriteDiskKeeps == ASSUME ToolsInv, WriteDisk, UNCHANGED tools PROVE ToolsInv'
<1>1. /\ prog # <<>> /\ Head(prog).layer = "disk"
      /\ UNCHANGED <<now, up, sets, mem, faults, call, reported, cleared, wiped>>
  BY DEF WriteDisk, bounds, tools
<1>2. PICK x \in Head(prog).keys :
        /\ disk' = [disk EXCEPT ![x] = Head(prog).val]
        /\ prog' = IF Head(prog).keys = {x} THEN Tail(prog)
                   ELSE <<[Head(prog) EXCEPT !.keys = @ \ {x}]>> \o Tail(prog)
  BY DEF WriteDisk
<1>3. /\ Len(prog) \in Nat \ {0} /\ prog[1] = Head(prog) /\ prog[1] \in Step
      /\ Tail(prog) \in Seq(Step) /\ Len(Tail(prog)) = Len(prog) - 1
      /\ \A i \in 1..(Len(prog) - 1) : Tail(prog)[i] = prog[i + 1]
  BY <1>1, HeadIsFirst
<1>4. mem' \in [Key -> Entry] /\ disk \in [Key -> Entry] /\ faults \in Nat /\ prog[1].val \in Entry /\ x \in Key
  BY <1>1, <1>2, <1>3 DEF ToolsInv, HistoryShape, Step
<1>5. disk' \in [Key -> Entry] /\ \A k \in Key : disk'[k] = IF k = x THEN prog[1].val ELSE disk[k]
  BY <1>2, <1>3, <1>4
<1>6. prog[1].layer = "disk"
  BY <1>1, <1>3
<1>7. CASE Head(prog).keys = {x}
  <2>1. prog' = Tail(prog) /\ prog[1].keys = {x}
    BY <1>2, <1>3, <1>7
  <2>2. \A j \in 1..Len(prog) : j # 1 => j - 1 \in 1..(Len(prog) - 1) /\ prog'[j - 1] = prog[j] /\ j > 1
    BY <1>3, <2>1
  <2>3. \A j \in 1..Len(prog), k \in Key : k \in prog[j].keys /\ prog[j].layer = "disk" =>
          \/ j > 1 /\ k \in prog'[j - 1].keys
          \/ disk'[k] = prog[1].val
    BY <1>5, <2>1, <2>2
  <2>4. \A j \in 1..Len(prog), k \in Key : k \in prog[j].keys /\ prog[j].layer = "mem" =>
          j > 1 /\ k \in prog'[j - 1].keys
    BY <1>6, <2>2
  <2>5. prog[1].layer # "done" /\ 1 \in 0..Len(prog)
    BY <1>3, <1>6
  <2> QED BY <1>1, <1>3, <1>4, <1>5, <2>1, <2>3, <2>4, <2>5, Advance
<1>8. CASE Head(prog).keys # {x}
  <2>0. PICK less : less = [Head(prog) EXCEPT !.keys = @ \ {x}]
    OBVIOUS
  <2>1. /\ less \in Step /\ less.layer = prog[1].layer /\ less.val = prog[1].val
        /\ less.caught = prog[1].caught /\ less.keys = prog[1].keys \ {x}
    BY <1>3, <2>0 DEF Step
  <2>2. prog' = <<less>> \o Tail(prog)
    BY <1>2, <1>8, <2>0
  <2>3. /\ prog' \in Seq(Step) /\ Len(prog') = Len(prog) /\ prog'[1] = less
        /\ \A i \in 1..Len(prog) : i # 1 => prog'[i] = prog[i]
    <3>1. <<less>> \in Seq(Step) /\ Len(<<less>>) = 1 /\ <<less>>[1] = less
      BY <2>1
    <3>2. /\ prog' \in Seq(Step) /\ Len(prog') = 1 + (Len(prog) - 1)
          /\ \A i \in 1..(1 + (Len(prog) - 1)) : prog'[i] = IF i <= 1 THEN <<less>>[i] ELSE Tail(prog)[i - 1]
      BY <1>3, <2>2, <3>1, ConcatProperties
    <3>3. \A i \in 1..Len(prog) : i # 1 => i - 1 \in 1..(Len(prog) - 1) /\ ~(i <= 1) /\ Tail(prog)[i - 1] = prog[i]
      BY <1>3
    <3>4. 1 + (Len(prog) - 1) = Len(prog) /\ 1 \in 1..Len(prog)
      BY <1>3
    <3> QED BY ONLY <3>1, <3>2, <3>3, <3>4
  <2>4. /\ Len(prog') = Len(prog) - 0 /\ 0 \in 0..Len(prog)
        /\ \A j \in 1..Len(prog) : j > 0 /\ j - 0 = j /\ j + 0 = j
    BY <1>3, <2>3
  <2>5. \A i \in 1..Len(prog') :
            /\ prog'[i].layer = prog[i + 0].layer /\ prog'[i].val = prog[i + 0].val
            /\ prog'[i].caught = prog[i + 0].caught
            /\ i + 0 # 1 => prog'[i].keys = prog[i + 0].keys
    BY <2>1, <2>3, <2>4
  <2>6. \A j \in 1..Len(prog), k \in Key : k \in prog[j].keys /\ prog[j].layer = "disk" =>
          \/ j > 0 /\ k \in prog'[j - 0].keys
          \/ disk'[k] = prog[1].val
    BY <1>5, <2>1, <2>3, <2>4
  <2>7. \A j \in 1..Len(prog), k \in Key : k \in prog[j].keys /\ prog[j].layer = "mem" =>
          j > 0 /\ k \in prog'[j - 0].keys
    BY <1>6, <2>3, <2>4
  <2>8. prog[1].layer # "done"
    BY <1>6
  <2> QED BY <1>1, <1>4, <1>5, <2>3, <2>4, <2>5, <2>6, <2>7, <2>8, Advance
<1> QED BY <1>7, <1>8

LEMMA DiskFailsKeeps == ASSUME ToolsInv, DiskFails, UNCHANGED tools PROVE ToolsInv'
<1>1. /\ prog # <<>> /\ Head(prog).layer \in {"disk", "bt"} /\ faults' = faults + 1
      /\ UNCHANGED <<now, up, sets, mem, disk, call, reported, cleared, wiped>>
  BY DEF DiskFails, bounds, tools
<1>2. /\ Len(prog) \in Nat \ {0} /\ prog[1] = Head(prog) /\ prog[1] \in Step /\ prog \in Seq(Step)
  BY <1>1, HeadIsFirst DEF ToolsInv, HistoryShape
<1>3. /\ mem' \in [Key -> Entry] /\ disk' \in [Key -> Entry] /\ faults' \in Nat /\ faults' # 0
  BY <1>1 DEF ToolsInv, HistoryShape
<1>4. prog[1].layer \in {"disk", "bt"}
  BY <1>1, <1>2
<1>5. CASE prog' = <<>>
  <2>1. HistoryShape'
    BY <1>1, <1>3, <1>5, EmptySeq DEF ToolsInv, HistoryShape
  <2>2. Dated'
    BY <1>1, <1>3 DEF ToolsInv, HistoryShape, Dated
  <2> QED BY <1>5, <2>1, <2>2, NoProgram DEF ToolsInv
<1>6. ASSUME NEW n \in 1..Len(prog), \A m \in 1..n : prog[m].caught, prog' = SubSeq(prog, n + 1, Len(prog))
      PROVE  ToolsInv'
  <2>1. /\ prog' \in Seq(Step) /\ Len(prog') = Len(prog) - n
        /\ \A i \in 1..Len(prog') : prog'[i] = prog[i + n]
    <3>1. n + 1 \in Int /\ Len(prog) \in Int /\ (n + 1)..Len(prog) \subseteq 1..Len(prog)
      BY <1>2
    <3>2. \A m \in (n + 1)..Len(prog) : prog[m] \in Step
      BY <1>2, <3>1, ElementOfSeq
    <3>3. /\ prog' \in Seq(Step)
          /\ Len(prog') = IF n + 1 <= Len(prog) THEN Len(prog) - (n + 1) + 1 ELSE 0
          /\ \A i \in 1..(Len(prog) - (n + 1) + 1) : prog'[i] = prog[(n + 1) + i - 1]
      BY ONLY <1>6, <3>1, <3>2, SubSeqProperties
    <3>4. Len(prog') = Len(prog) - n
      BY <1>2, <3>3
    <3>5. \A i \in 1..Len(prog') : i \in 1..(Len(prog) - (n + 1) + 1) /\ (n + 1) + i - 1 = i + n
      BY <1>2, <3>4
    <3> QED BY <3>3, <3>4, <3>5
  <2>2. \A j \in 1..Len(prog) :
          IF j <= n THEN j \in 1..n ELSE j > n /\ j - n \in 1..Len(prog') /\ (j - n) + n = j
    BY <1>2, <2>1
  <2>3. \A j \in 1..Len(prog), k \in Key : k \in prog[j].keys /\ prog[j].layer = "mem" =>
          \/ j > n /\ k \in prog'[j - n].keys
          \/ faults' # 0 /\ prog[j].caught /\ j # 1
    BY <1>3, <1>4, <1>6, <2>1, <2>2
  <2>4. \A j \in 1..Len(prog), k \in Key : k \in prog[j].keys /\ prog[j].layer = "disk" =>
          \/ j > n /\ k \in prog'[j - n].keys
          \/ faults' # 0 /\ prog[j].caught
    BY <1>3, <1>6, <2>1, <2>2
  <2>5. prog[1].layer # "done" /\ n \in 0..Len(prog)
    BY <1>2, <1>4
  <2> QED BY <1>1, <1>3, <2>1, <2>3, <2>4, <2>5, Advance
<1> QED BY <1>5, <1>6 DEF DiskFails
LEMMA FinishKeeps == ASSUME ToolsInv, Finish PROVE ToolsInv'
<1>0. HistoryShape /\ Dated /\ WritesOK /\ SetsOK /\ ClearsOK
  BY DEF ToolsInv
<1>1. PICK s : s = Head(prog)
  OBVIOUS
<1>2. /\ prog # <<>> /\ s.layer = "done" /\ prog' = <<>>
      /\ UNCHANGED <<now, up, sets, mem, disk, faults>>
      /\ call' = [c \in Call |-> IF c \in Clearing THEN NoCall ELSE call[c]]
      /\ reported' = IF s.val # None THEN [k \in Key |-> IF k \in s.keys THEN s.val.ver ELSE reported[k]]
                     ELSE reported
      /\ cleared' = IF s.val # None THEN cleared ELSE [k \in Key |-> IF k \in s.keys THEN sets ELSE cleared[k]]
      /\ wiped' = IF s.val # None \/ Clearing # {} THEN wiped
                  ELSE [k \in Key |-> IF k \in s.keys THEN sets ELSE wiped[k]]
  BY <1>1 DEF Finish, bounds
<1>3. /\ Len(prog) \in Nat \ {0} /\ prog[1] = s /\ s \in Step /\ 1 \in 1..Len(prog)
  BY <1>1, <1>2, HeadIsFirst
<1>4. s.val # None => s.val.ver = sets
  BY <1>0, <1>3 DEF WritesOK
<1>5. \A layer, k, sure : ~Coming(layer, k, 1, sure)
  BY DEF Coming
<1>6. s.val # None => \A k \in s.keys : mem[k].ver \in {0, sets} /\ disk[k].ver \in {0, sets}
  BY <1>0, <1>2, <1>3, <1>5 DEF SetsOK
<1>7. s.val = None => \A k \in s.keys :
        /\ Clearing = {} \/ faults = 0 => mem[k].ver = 0
        /\ faults = 0 => disk[k].ver = 0
  BY <1>0, <1>2, <1>3, <1>5 DEF ClearsOK
<1>8. call' = [c \in Call |-> call'[c]]
  BY <1>2
<1>9. /\ reported \in [Key -> Nat] /\ cleared \in [Key -> Nat] /\ wiped \in [Key -> Nat] /\ sets \in Nat
      /\ \A k \in Key : wiped[k] <= sets /\ reported[k] <= sets /\ cleared[k] <= sets
      /\ \A k \in Key : mem[k].ver \in Nat /\ disk[k].ver \in Nat
  BY <1>0 DEF HistoryShape, Entry
<1>10. ASSUME NEW k \in Key
       PROVE  /\ reported'[k] = IF s.val # None /\ k \in s.keys THEN sets ELSE reported[k]
              /\ cleared'[k] = IF s.val = None /\ k \in s.keys THEN sets ELSE cleared[k]
              /\ wiped'[k] = IF s.val = None /\ Clearing = {} /\ k \in s.keys THEN sets ELSE wiped[k]
  BY <1>2, <1>4
<1>11. reported' \in [Key -> Nat] /\ cleared' \in [Key -> Nat] /\ wiped' \in [Key -> Nat]
  BY <1>2, <1>4, <1>9
<1>12. \A k \in Key : wiped'[k] <= sets /\ reported'[k] <= sets /\ cleared'[k] <= sets
  BY <1>9, <1>10
<1>13. HistoryShape'
  BY <1>0, <1>2, <1>8, <1>11, <1>12, EmptySeq DEF HistoryShape
<1>14. Dated'
  <2> SUFFICES ASSUME NEW k \in Key
               PROVE  /\ mem[k].ver # 0 => mem[k].ver > wiped'[k] /\ mem[k].ver >= reported'[k]
                      /\ disk[k].ver # 0 => disk[k].ver >= reported'[k]
                      /\ faults = 0 =>
                            /\ mem[k].ver # 0 => mem[k].ver > cleared'[k]
                            /\ disk[k].ver # 0 => disk[k].ver > cleared'[k]
    BY <1>2 DEF Dated
  <2>1. /\ mem[k].ver # 0 => mem[k].ver > wiped[k] /\ mem[k].ver >= reported[k]
        /\ disk[k].ver # 0 => disk[k].ver >= reported[k]
        /\ faults = 0 =>
              /\ mem[k].ver # 0 => mem[k].ver > cleared[k]
              /\ disk[k].ver # 0 => disk[k].ver > cleared[k]
    BY <1>0 DEF Dated
  <2>2. s.val # None /\ k \in s.keys => mem[k].ver \in {0, sets} /\ disk[k].ver \in {0, sets}
    BY <1>6
  <2>3. s.val = None /\ k \in s.keys =>
           /\ Clearing = {} \/ faults = 0 => mem[k].ver = 0
           /\ faults = 0 => disk[k].ver = 0
    BY <1>7
  <2>4. sets >= sets
    BY <1>9
  <2> QED BY <1>10, <2>1, <2>2, <2>3, <2>4
<1> QED BY <1>2, <1>13, <1>14, NoProgram DEF ToolsInv

-----------------------------------------------------------------------------
(* The beginning of a handler.                                             *)

(* What changes neither a copy nor the history, between two handlers.      *)
LEMMA NothingWritten ==
    ASSUME ToolsInv, UNCHANGED <<up, mem, disk, faults, reported, cleared, wiped>>,
           now' \in Nat, sets' \in {sets, sets + 1}, prog' \in Seq(Step), up,
           call' = [c \in Call |-> call'[c]]
    PROVE  HistoryShape' /\ Dated'
<1>1. HistoryShape /\ Dated
  BY DEF ToolsInv
<1>2. sets \in Nat /\ reported \in [Key -> Nat] /\ cleared \in [Key -> Nat] /\ wiped \in [Key -> Nat]
  BY <1>1 DEF HistoryShape
<1>3. \A k \in Key : wiped[k] <= sets' /\ reported[k] <= sets' /\ cleared[k] <= sets'
  <2> SUFFICES ASSUME NEW k \in Key PROVE wiped[k] <= sets' /\ reported[k] <= sets' /\ cleared[k] <= sets'
    OBVIOUS
  <2>1. wiped[k] <= sets /\ reported[k] <= sets /\ cleared[k] <= sets
    BY <1>1 DEF HistoryShape
  <2> QED BY <1>2, <2>1
<1>4. HistoryShape'
  BY <1>1, <1>2, <1>3 DEF HistoryShape
<1>5. Dated'
  BY <1>1 DEF Dated
<1> QED BY <1>4, <1>5

LEMMA Concat ==
    ASSUME NEW s \in Seq(Step), NEW t \in Seq(Step)
    PROVE  /\ s \o t \in Seq(Step) /\ Len(s \o t) = Len(s) + Len(t)
           /\ \A i \in 1..Len(s) : (s \o t)[i] = s[i]
           /\ \A i \in 1..Len(t) : (s \o t)[Len(s) + i] = t[i]
<1>1. Len(s) \in Nat /\ Len(t) \in Nat
  OBVIOUS
<1>2. /\ s \o t \in Seq(Step) /\ Len(s \o t) = Len(s) + Len(t)
      /\ \A i \in 1..(Len(s) + Len(t)) : (s \o t)[i] = IF i <= Len(s) THEN s[i] ELSE t[i - Len(s)]
  BY ConcatProperties
<1>3. \A i \in 1..Len(s) : i \in 1..(Len(s) + Len(t)) /\ i <= Len(s)
  BY <1>1
<1>4. \A i \in 1..Len(t) : /\ Len(s) + i \in 1..(Len(s) + Len(t)) /\ ~(Len(s) + i <= Len(s))
                           /\ (Len(s) + i) - Len(s) = i
  BY <1>1
<1> QED BY <1>2, <1>3, <1>4
(* The writes that remove the goldens of an application.                   *)
LEMMA AppWrites ==
    ASSUME NEW a, mem \in [Key -> Entry], disk \in [Key -> Entry]
    PROVE  \E I \in Seq(Step), onDisk \in SUBSET Key :
             /\ I = InvalidateAppWrites(a, TRUE) /\ KeysOf(a) \subseteq Key
             /\ I[1] = Write("mem", KeysOf(a), None, TRUE)
             /\ onDisk = {k \in KeysOf(a) : disk[k] # None}
             /\ onDisk = {} => Len(I) = 1
             /\ onDisk # {} => Len(I) = 2 /\ I[2] = Write("disk", onDisk, None, TRUE)
<1>0. PICK onDisk : onDisk = {k \in KeysOf(a) : disk[k] # None}
  OBVIOUS
<1>1. KeysOf(a) \subseteq Key /\ onDisk \subseteq Key
  BY <1>0 DEF KeysOf
<1>2. PICK m, d : m = Write("mem", KeysOf(a), None, TRUE) /\ d = Write("disk", onDisk, None, TRUE)
  OBVIOUS
<1>3. m \in Step /\ d \in Step
  BY <1>1, <1>2, NoneIsEntry DEF Write, Step, Layer
<1>4. InvalidateAppWrites(a, TRUE) = <<m>> \o IF onDisk = {} THEN <<>> ELSE <<d>>
  BY <1>0, <1>2 DEF InvalidateAppWrites
<1>5. CASE onDisk = {}
  <2>0. <<m>> \in Seq(Step) /\ <<m>> \o <<>> = <<m>>
    BY <1>3, ConcatEmptySeq
  <2>1. InvalidateAppWrites(a, TRUE) = <<m>>
    BY <1>4, <1>5, <2>0
  <2>2. <<m>> \in Seq(Step) /\ Len(<<m>>) = 1 /\ <<m>>[1] = m
    BY <1>3
  <2> QED BY <1>0, <1>1, <1>2, <1>5, <2>1, <2>2
<1>6. CASE onDisk # {}
  <2>1. InvalidateAppWrites(a, TRUE) = <<m, d>>
    BY <1>3, <1>4, <1>6, PairConcat
  <2>2. <<m, d>> \in Seq(Step) /\ Len(<<m, d>>) = 2 /\ <<m, d>>[1] = m /\ <<m, d>>[2] = d
    BY <1>3
  <2> QED BY <1>0, <1>1, <1>2, <1>6, <2>1, <2>2
<1> QED BY <1>5, <1>6

(* A program of the handlers that clear: it removes first, then says so.   *)
LEMMA ClearBegins ==
    ASSUME ToolsInv, Idle, NEW a, prog' \in Seq(Step), NEW len \in Nat \ {0}, Len(prog') = len,
           prog'[len] = Write("done", KeysOf(a), None, FALSE),
           \A i \in 1..len : prog'[i].val = None /\ (i # len => prog'[i].layer # "done"),
           UNCHANGED <<now, up, sets, mem, disk, faults, reported, cleared, wiped>>,
           call' = [c \in Call |-> call'[c]],
           Clearing' = {} => \A i \in 1..len : prog'[i].layer = "mem" => i = 1,
           NEW m \in 1..len, m < len, prog'[m].layer = "mem" /\ prog'[m].keys = KeysOf(a),
           \/ \A k \in KeysOf(a) : disk[k] = None
           \/ \E d \in 1..len : d < len /\ prog'[d].layer = "disk"
                                /\ \A k \in KeysOf(a) : disk[k] # None => k \in prog'[d].keys
    PROVE  ToolsInv'
<1>1. HistoryShape' /\ Dated'
  BY NothingWritten DEF Idle, ToolsInv, HistoryShape
<1>2. prog'[len].layer = "done" /\ prog'[len].val = None /\ prog'[len].keys = KeysOf(a)
  BY DEF Write
<1>3. WritesOK'
  BY DEF WritesOK
<1>4. SetsOK'
  BY DEF SetsOK
<1>5. ClearsOK'
  <2> SUFFICES ASSUME NEW i \in 1..Len(prog'), prog'[i].layer = "done", NEW k \in prog'[i].keys
               PROVE  /\ Coming("mem", k, i, FALSE)'
                      /\ disk'[k].ver = 0 \/ Coming("disk", k, i, FALSE)'
    BY DEF ClearsOK
  <2>1. i = len /\ k \in KeysOf(a)
    BY <1>2
  <2>2. Coming("mem", k, i, FALSE)'
    BY <2>1 DEF Coming
  <2>3. CASE disk[k] = None
    BY <2>2, <2>3, NoneIsEntry
  <2>4. ASSUME NEW d \in 1..len, d < len, prog'[d].layer = "disk",
               \A x \in KeysOf(a) : disk[x] # None => x \in prog'[d].keys, disk[k] # None
        PROVE  Coming("disk", k, i, FALSE)'
    BY <2>1, <2>4 DEF Coming
  <2> QED BY <2>1, <2>2, <2>3, <2>4
<1> QED BY <1>1, <1>3, <1>4, <1>5 DEF ToolsInv

LEMMA RestartDetectedKeeps == ASSUME ToolsInv, NEW e, RestartDetected(e) PROVE ToolsInv'
<1>1. /\ Idle /\ prog' = InvalidateAppWrites(e, TRUE) \o Done(KeysOf(e), None)
      /\ UNCHANGED <<now, up, sets, mem, disk, faults, reported, cleared, wiped, call>>
  BY DEF RestartDetected, bounds, tools
<1>2. mem \in [Key -> Entry] /\ disk \in [Key -> Entry] /\ call = [c \in Call |-> call[c]]
  BY DEF ToolsInv, HistoryShape
<1>3. PICK I \in Seq(Step), onDisk \in SUBSET Key :
             /\ I = InvalidateAppWrites(e, TRUE) /\ KeysOf(e) \subseteq Key
             /\ I[1] = Write("mem", KeysOf(e), None, TRUE)
             /\ onDisk = {k \in KeysOf(e) : disk[k] # None}
             /\ onDisk = {} => Len(I) = 1
             /\ onDisk # {} => Len(I) = 2 /\ I[2] = Write("disk", onDisk, None, TRUE)
  BY <1>2, AppWrites
<1>4. PICK w : w = Write("done", KeysOf(e), None, FALSE)
  OBVIOUS
<1>5. w \in Step
  BY <1>3, <1>4, NoneIsEntry DEF Write, Step, Layer
<1>6. <<w>> \in Seq(Step) /\ Len(<<w>>) = 1 /\ <<w>>[1] = w
  BY <1>5
<1>61. prog' = I \o <<w>>
  BY <1>1, <1>3, <1>4 DEF Done
<1>62. Len(I) \in {1, 2}
  BY <1>3
<1>7. PICK len \in Nat \ {0} : len = Len(I) + 1
  BY <1>62
<1>8. /\ prog' \in Seq(Step) /\ Len(prog') = len /\ prog'[len] = w
      /\ \A i \in 1..Len(I) : prog'[i] = I[i]
  <2>1. /\ prog' \in Seq(Step) /\ Len(prog') = Len(I) + Len(<<w>>)
        /\ \A i \in 1..Len(I) : prog'[i] = I[i]
        /\ \A i \in 1..Len(<<w>>) : prog'[Len(I) + i] = <<w>>[i]
    BY <1>6, <1>61, Concat
  <2> QED BY <1>6, <1>7, <2>1
<1>9. prog'[1] = Write("mem", KeysOf(e), None, TRUE) /\ 1 \in 1..len /\ 1 < len
  <2>1. 1 \in 1..Len(I) /\ 1 \in 1..len /\ 1 < len
    BY <1>62, <1>7
  <2> QED BY <1>3, <1>8, <2>1
<1>10. /\ prog'[1].layer = "mem" /\ prog'[1].keys = KeysOf(e) /\ prog'[1].val = None
       /\ w.layer = "done" /\ w.val = None
  BY <1>4, <1>9 DEF Write
<1>11. CASE onDisk = {}
  <2>0. Len(I) = 1
    BY <1>3, <1>11
  <2>1. len = 2
    BY <1>7, <2>0
  <2>2. \A i \in 1..len : prog'[i].val = None /\ (i # len => prog'[i].layer # "done")
                          /\ (prog'[i].layer = "mem" => i = 1)
    BY <1>8, <1>10, <2>1
  <2>3. \A k \in KeysOf(e) : disk[k] = None
    BY <1>3, <1>11
  <2> QED BY <1>1, <1>2, <1>4, <1>8, <1>9, <1>10, <2>2, <2>3, ClearBegins
<1>12. CASE onDisk # {}
  <2>0. Len(I) = 2 /\ I[2] = Write("disk", onDisk, None, TRUE)
    BY <1>3, <1>12
  <2>9. len = 3 /\ 2 \in 1..Len(I)
    BY <1>7, <2>0
  <2>1. len = 3 /\ prog'[2] = Write("disk", onDisk, None, TRUE)
    BY <1>8, <2>0, <2>9
  <2>2. prog'[2].layer = "disk" /\ prog'[2].keys = onDisk /\ prog'[2].val = None /\ 2 \in 1..len /\ 2 < len
    BY <2>1 DEF Write
  <2>3. \A i \in 1..len : prog'[i].val = None /\ (i # len => prog'[i].layer # "done")
                          /\ (prog'[i].layer = "mem" => i = 1)
    <3>1. \A i \in 1..3 : i = 1 \/ i = 2 \/ i = 3
      OBVIOUS
    <3> QED BY <1>8, <1>10, <2>1, <2>2, <3>1
  <2>4. \A k \in KeysOf(e) : disk[k] # None => k \in prog'[2].keys
    BY <1>3, <2>2
  <2> QED BY <1>1, <1>2, <1>4, <1>8, <1>9, <1>10, <2>2, <2>3, <2>4, ClearBegins
<1> QED BY <1>11, <1>12

LEMMA DetectedKeeps == ASSUME ToolsInv, NEW c \in Call, Detected(c) PROVE ToolsInv'
<1>0. PICK a : a = call[c].app
  OBVIOUS
<1>1. /\ Idle /\ UNCHANGED <<now, up, sets, mem, disk, faults, reported, cleared, wiped>>
      /\ prog' = <<Write("bt", {}, None, TRUE)>> \o InvalidateAppWrites(a, TRUE)
                 \o <<Write("sweep", KeysOf(a), None, TRUE)>> \o <<Write("done", KeysOf(a), None, FALSE)>>
  BY <1>0 DEF Detected, DeploymentWrites, Done, bounds
<1>2. mem \in [Key -> Entry] /\ disk \in [Key -> Entry] /\ call = [d \in Call |-> call[d]]
  BY DEF ToolsInv, HistoryShape
<1>3. call' = [d \in Call |-> call'[d]] /\ Clearing' # {}
  <2>1. call' = [call EXCEPT ![c] = [stage |-> "clearing", user |-> @.user, app |-> @.app,
                                     all |-> @.all, old |-> @.old, new |-> Answer(c)]]
    BY DEF Detected
  <2>2. PICK x : x = [stage |-> "clearing", user |-> call[c].user, app |-> call[c].app,
                      all |-> call[c].all, old |-> call[c].old, new |-> Answer(c)]
    OBVIOUS
  <2>3. call' = [call EXCEPT ![c] = x]
    BY <2>1, <2>2
  <2>4. call' = [d \in Call |-> call'[d]] /\ call'[c] = x
    BY <1>2, <2>3
  <2>5. x.stage = "clearing"
    BY <2>2
  <2> QED BY <2>4, <2>5 DEF Clearing
<1>4. PICK I \in Seq(Step), onDisk \in SUBSET Key :
             /\ I = InvalidateAppWrites(a, TRUE) /\ KeysOf(a) \subseteq Key
             /\ I[1] = Write("mem", KeysOf(a), None, TRUE)
             /\ onDisk = {k \in KeysOf(a) : disk[k] # None}
             /\ onDisk = {} => Len(I) = 1
             /\ onDisk # {} => Len(I) = 2 /\ I[2] = Write("disk", onDisk, None, TRUE)
  BY <1>2, AppWrites
<1>41. Len(I) \in {1, 2}
  BY <1>4
<1>5. PICK b, s, w : /\ b = Write("bt", {}, None, TRUE) /\ s = Write("sweep", KeysOf(a), None, TRUE)
                     /\ w = Write("done", KeysOf(a), None, FALSE)
  OBVIOUS
<1>6. b \in Step /\ s \in Step /\ w \in Step
  BY <1>4, <1>5, NoneIsEntry DEF Write, Step, Layer
<1>7. /\ <<b>> \in Seq(Step) /\ Len(<<b>>) = 1 /\ <<b>>[1] = b
      /\ <<s>> \in Seq(Step) /\ Len(<<s>>) = 1 /\ <<s>>[1] = s
      /\ <<w>> \in Seq(Step) /\ Len(<<w>>) = 1 /\ <<w>>[1] = w
  BY <1>6
<1>8. PICK P : P = <<b>> \o I
  OBVIOUS
<1>9. /\ P \in Seq(Step) /\ Len(P) = 1 + Len(I) /\ P[1] = b
      /\ \A i \in 1..Len(I) : P[1 + i] = I[i]
  <2>1. /\ P \in Seq(Step) /\ Len(P) = Len(<<b>>) + Len(I)
        /\ \A i \in 1..Len(<<b>>) : P[i] = <<b>>[i]
        /\ \A i \in 1..Len(I) : P[Len(<<b>>) + i] = I[i]
    BY <1>7, <1>8, Concat
  <2> QED BY <1>7, <2>1
<1>10. PICK Q : Q = P \o <<s>>
  OBVIOUS
<1>11. /\ Q \in Seq(Step) /\ Len(Q) = 2 + Len(I) /\ Q[2 + Len(I)] = s
       /\ \A i \in 1..Len(P) : Q[i] = P[i]
  <2>1. /\ Q \in Seq(Step) /\ Len(Q) = Len(P) + Len(<<s>>)
        /\ \A i \in 1..Len(P) : Q[i] = P[i]
        /\ \A i \in 1..Len(<<s>>) : Q[Len(P) + i] = <<s>>[i]
    BY <1>7, <1>9, <1>10, Concat
  <2>2. Len(P) + 1 = 2 + Len(I)
    BY <1>41, <1>9
  <2> QED BY <1>7, <2>1, <2>2
<1>12. /\ prog' \in Seq(Step) /\ Len(prog') = 3 + Len(I) /\ prog'[3 + Len(I)] = w
       /\ \A i \in 1..Len(Q) : prog'[i] = Q[i]
  <2>0. prog' = Q \o <<w>>
    BY <1>1, <1>4, <1>5, <1>8, <1>10
  <2>1. /\ prog' \in Seq(Step) /\ Len(prog') = Len(Q) + Len(<<w>>)
        /\ \A i \in 1..Len(Q) : prog'[i] = Q[i]
        /\ \A i \in 1..Len(<<w>>) : prog'[Len(Q) + i] = <<w>>[i]
    BY <1>7, <1>11, <2>0, Concat
  <2>2. Len(Q) + 1 = 3 + Len(I)
    BY <1>41, <1>11
  <2> QED BY <1>7, <2>1, <2>2
<1>13. PICK m : m = Write("mem", KeysOf(a), None, TRUE)
  OBVIOUS
<1>14. /\ b.layer = "bt" /\ s.layer = "sweep" /\ w.layer = "done" /\ m.layer = "mem" /\ m.keys = KeysOf(a)
       /\ b.val = None /\ s.val = None /\ w.val = None /\ m.val = None
  BY <1>5, <1>13 DEF Write
<1>15. CASE onDisk = {}
  <2>0. Len(I) = 1
    BY <1>4, <1>15
  <2>1. Len(prog') = 4 /\ prog'[1] = b /\ prog'[2] = m /\ prog'[3] = s /\ prog'[4] = w
    <3>1. Len(P) = 2 /\ Len(Q) = 3 /\ Len(prog') = 4
      BY <1>9, <1>11, <1>12, <2>0
    <3>2. P[2] = m
      <4>1. P[1 + 1] = I[1]
        BY <1>9, <2>0
      <4>2. P[2] = I[1]
        BY ONLY <4>1
      <4>3. I[1] = m
        BY <1>4, <1>13
      <4> QED BY <4>2, <4>3
    <3>3. Q[1] = b /\ Q[2] = m /\ Q[3] = s
      BY <1>9, <1>11, <2>0, <3>1, <3>2
    <3>4. 1 \in 1..Len(Q) /\ 2 \in 1..Len(Q) /\ 3 \in 1..Len(Q)
      BY <3>1
    <3> QED BY <1>12, <2>0, <3>1, <3>3, <3>4
  <2>2. \A i \in 1..4 : prog'[i].val = None /\ (i # 4 => prog'[i].layer # "done")
    <3>1. \A i \in 1..4 : i = 1 \/ i = 2 \/ i = 3 \/ i = 4
      OBVIOUS
    <3> QED BY <1>14, <2>1, <3>1
  <2>3. \A k \in KeysOf(a) : disk[k] = None
    BY <1>4, <1>15
  <2>4. 4 \in Nat \ {0} /\ 2 \in 1..4 /\ 2 < 4
    OBVIOUS
  <2> QED BY <1>1, <1>3, <1>5, <1>12, <1>14, <2>1, <2>2, <2>3, <2>4, ClearBegins
<1>16. CASE onDisk # {}
  <2>0. Len(I) = 2
    BY <1>4, <1>16
  <2>1. Len(prog') = 5 /\ prog'[1] = b /\ prog'[2] = m /\ prog'[4] = s /\ prog'[5] = w
        /\ prog'[3] = Write("disk", onDisk, None, TRUE)
    <3>1. Len(P) = 3 /\ Len(Q) = 4 /\ Len(prog') = 5
      BY <1>9, <1>11, <1>12, <2>0
    <3>2. P[2] = m /\ P[3] = I[2]
      <4>1. P[1 + 1] = I[1] /\ P[1 + 2] = I[2]
        BY <1>9, <2>0
      <4>2. P[2] = I[1] /\ P[3] = I[2]
        BY ONLY <4>1
      <4>3. I[1] = m
        BY <1>4, <1>13
      <4> QED BY <4>2, <4>3
    <3>3. Q[1] = b /\ Q[2] = m /\ Q[3] = I[2] /\ Q[4] = s
      BY <1>9, <1>11, <2>0, <3>1, <3>2
    <3>4. 1 \in 1..Len(Q) /\ 2 \in 1..Len(Q) /\ 3 \in 1..Len(Q) /\ 4 \in 1..Len(Q)
      BY <3>1
    <3>5. I[2] = Write("disk", onDisk, None, TRUE)
      BY <1>4, <1>16
    <3> QED BY <1>12, <2>0, <3>1, <3>3, <3>4, <3>5
  <2>2. prog'[3].layer = "disk" /\ prog'[3].keys = onDisk /\ prog'[3].val = None
    BY <2>1 DEF Write
  <2>3. \A i \in 1..5 : prog'[i].val = None /\ (i # 5 => prog'[i].layer # "done")
    <3>1. \A i \in 1..5 : i = 1 \/ i = 2 \/ i = 3 \/ i = 4 \/ i = 5
      OBVIOUS
    <3> QED BY <1>14, <2>1, <2>2, <3>1
  <2>4. \A k \in KeysOf(a) : disk[k] # None => k \in prog'[3].keys
    BY <1>4, <2>2
  <2>5. 5 \in Nat \ {0} /\ 2 \in 1..5 /\ 2 < 5 /\ 3 \in 1..5 /\ 3 < 5
    OBVIOUS
  <2> QED BY <1>1, <1>3, <1>5, <1>12, <1>14, <2>1, <2>2, <2>3, <2>4, <2>5, ClearBegins
<1> QED BY <1>15, <1>16
(* The golden is written in both layers, outside any try, before the       *)
(* override handler removes it again and the tool answers.                 *)
LEMMA SetGoldenKeeps == ASSUME ToolsInv, NEW k \in Key, SetGolden(k) PROVE ToolsInv'
<1>0. PICK v : v = [ver |-> sets + 1, at |-> now]
  OBVIOUS
<1>1. /\ Idle /\ UNCHANGED <<now, up, mem, disk, faults, reported, cleared, wiped, call>> /\ sets' = sets + 1
      /\ prog' = GetWrites(k) \o <<Write("mem", {k}, v, FALSE), Write("disk", {k}, v, FALSE)>>
                 \o <<Write("mem", {k}, None, TRUE), Write("disk", {k}, None, TRUE)>>
                 \o <<Write("done", {k}, v, FALSE)>>
  BY <1>0 DEF SetGolden, SetWrites, InvalidateWrites, Both, Done, bounds, tools
<1>2. HistoryShape
  BY DEF ToolsInv
<1>3. v \in Entry /\ v.ver = sets' /\ v # None
  <2>1. sets \in Nat /\ now \in Nat
    BY <1>2 DEF HistoryShape
  <2>2. v.ver = sets + 1 /\ v.at = now
    BY <1>0
  <2>3. v \in Entry
    BY <1>0, <2>1 DEF Entry
  <2>4. v.ver # 0
    BY <2>1, <2>2
  <2> QED BY <1>1, <2>2, <2>3, <2>4, NoneIsEntry
<1>4. PICK a, b, c, d, w :
        /\ a = Write("mem", {k}, v, FALSE) /\ b = Write("disk", {k}, v, FALSE)
        /\ c = Write("mem", {k}, None, TRUE) /\ d = Write("disk", {k}, None, TRUE)
        /\ w = Write("done", {k}, v, FALSE)
  OBVIOUS
<1>5. a \in Step /\ b \in Step /\ c \in Step /\ d \in Step /\ w \in Step
  BY <1>3, <1>4, NoneIsEntry DEF Write, Step, Layer
<1>6. /\ a.layer = "mem" /\ a.keys = {k} /\ a.val = v /\ ~a.caught
      /\ b.layer = "disk" /\ b.keys = {k} /\ b.val = v /\ ~b.caught
      /\ c.layer = "mem" /\ c.val = None /\ d.layer = "disk" /\ d.val = None
      /\ w.layer = "done" /\ w.keys = {k} /\ w.val = v
  BY <1>4 DEF Write
<1>7. PICK G : G = GetWrites(k)
  OBVIOUS
<1>8. /\ G \in Seq(Step) /\ Len(G) \in Nat
      /\ \A i \in 1..Len(G) : G[i].val = None /\ G[i].layer \in {"mem", "disk"}
  <2>1. GetWrites(k) = IF Expired(k) THEN <<Write("mem", {k}, None, FALSE), Write("disk", {k}, None, FALSE)>> ELSE <<>>
    BY DEF GetWrites, InvalidateWrites, Both
  <2>2. CASE ~Expired(k)
    <3>1. G \in Seq(Step) /\ Len(G) = 0
      BY <1>7, <2>1, <2>2, EmptySeq
    <3> QED BY <3>1
  <2>3. CASE Expired(k)
    <3>1. PICK x, y : x = Write("mem", {k}, None, FALSE) /\ y = Write("disk", {k}, None, FALSE)
      OBVIOUS
    <3>2. x \in Step /\ y \in Step
      BY <3>1, NoneIsEntry DEF Write, Step, Layer
    <3>3. x.val = None /\ x.layer = "mem" /\ y.val = None /\ y.layer = "disk"
      BY <3>1 DEF Write
    <3>4. G = <<x, y>>
      BY <1>7, <2>1, <2>3, <3>1
    <3>5. G \in Seq(Step) /\ Len(G) = 2 /\ G[1] = x /\ G[2] = y
      BY <3>2, <3>4
    <3>6. \A i \in 1..2 : i = 1 \/ i = 2
      OBVIOUS
    <3> QED BY <3>3, <3>5, <3>6
  <2> QED BY <2>2, <2>3
<1>9. PICK P : P = G \o <<a, b>>
  OBVIOUS
<1>10. PICK Q : Q = P \o <<c, d>>
  OBVIOUS
<1>11. prog' = Q \o <<w>>
  BY <1>1, <1>4, <1>7, <1>9, <1>10
<1>12. /\ <<a, b>> \in Seq(Step) /\ Len(<<a, b>>) = 2 /\ <<a, b>>[1] = a /\ <<a, b>>[2] = b
       /\ <<c, d>> \in Seq(Step) /\ Len(<<c, d>>) = 2 /\ <<c, d>>[1] = c /\ <<c, d>>[2] = d
       /\ <<w>> \in Seq(Step) /\ Len(<<w>>) = 1 /\ <<w>>[1] = w
  BY <1>5
<1>13. PICK n \in Nat : n = Len(G)
  BY <1>8
<1>14. /\ P \in Seq(Step) /\ Len(P) = n + 2 /\ P[n + 1] = a /\ P[n + 2] = b
       /\ \A i \in 1..n : P[i] = G[i]
  <2>1. /\ P \in Seq(Step) /\ Len(P) = Len(G) + Len(<<a, b>>)
        /\ \A i \in 1..Len(G) : P[i] = G[i]
        /\ \A i \in 1..Len(<<a, b>>) : P[Len(G) + i] = <<a, b>>[i]
    BY <1>8, <1>9, <1>12, Concat
  <2>2. 1 \in 1..2 /\ 2 \in 1..2
    OBVIOUS
  <2> QED BY <1>12, <1>13, <2>1, <2>2
<1>15. /\ Q \in Seq(Step) /\ Len(Q) = n + 4 /\ Q[n + 3] = c /\ Q[n + 4] = d
       /\ \A i \in 1..(n + 2) : Q[i] = P[i]
  <2>1. /\ Q \in Seq(Step) /\ Len(Q) = Len(P) + Len(<<c, d>>)
        /\ \A i \in 1..Len(P) : Q[i] = P[i]
        /\ \A i \in 1..Len(<<c, d>>) : Q[Len(P) + i] = <<c, d>>[i]
    BY <1>10, <1>12, <1>14, Concat
  <2>2. 1 \in 1..2 /\ 2 \in 1..2 /\ (n + 2) + 1 = n + 3 /\ (n + 2) + 2 = n + 4
    OBVIOUS
  <2>3. Q[(n + 2) + 1] = c /\ Q[(n + 2) + 2] = d
    BY <1>12, <1>14, <2>1, <2>2
  <2> QED BY <1>12, <1>14, <2>1, <2>2, <2>3
<1>16. /\ prog' \in Seq(Step) /\ Len(prog') = n + 5 /\ prog'[n + 5] = w
       /\ \A i \in 1..(n + 4) : prog'[i] = Q[i]
  <2>1. /\ prog' \in Seq(Step) /\ Len(prog') = Len(Q) + Len(<<w>>)
        /\ \A i \in 1..Len(Q) : prog'[i] = Q[i]
        /\ \A i \in 1..Len(<<w>>) : prog'[Len(Q) + i] = <<w>>[i]
    BY <1>11, <1>12, <1>15, Concat
  <2>2. 1 \in 1..1 /\ (n + 4) + 1 = n + 5
    OBVIOUS
  <2>3. prog'[(n + 4) + 1] = w
    BY <1>12, <1>15, <2>1, <2>2
  <2> QED BY <1>12, <1>15, <2>1, <2>2, <2>3
<1>17. prog'[n + 1] = a /\ prog'[n + 2] = b
  <2>1. n + 1 \in 1..(n + 2) /\ n + 2 \in 1..(n + 2) /\ n + 1 \in 1..(n + 4) /\ n + 2 \in 1..(n + 4)
    OBVIOUS
  <2> QED BY <1>14, <1>15, <1>16, <2>1
<1>18. ASSUME NEW i \in 1..(n + 5), i # n + 5
       PROVE  prog'[i].layer \in {"mem", "disk"} /\ prog'[i].val \in {None, v}
  <2>1. i \in 1..(n + 4) /\ (i \in 1..n \/ i = n + 1 \/ i = n + 2 \/ i = n + 3 \/ i = n + 4)
    BY <1>18
  <2>2. prog'[i] = Q[i]
    BY <1>16, <2>1
  <2>3. CASE i \in 1..n
    <3>1. i \in 1..(n + 2)
      BY <2>3
    <3>2. prog'[i] = G[i]
      BY <1>14, <1>15, <2>2, <2>3, <3>1
    <3> QED BY <1>8, <1>13, <2>3, <3>2
  <2> QED BY <1>6, <1>15, <1>17, <2>1, <2>2, <2>3
<1>19. HistoryShape' /\ Dated'
  <2>1. now' \in Nat /\ up /\ call' = [x \in Call |-> call'[x]] /\ sets' \in {sets, sets + 1}
    BY <1>1, <1>2 DEF HistoryShape, Idle
  <2> QED BY <1>1, <1>16, <2>1, NothingWritten
<1>20. NewestSet'
  <2> SUFFICES ASSUME NEW x \in Key PROVE wiped[x] < sets' /\ reported[x] < sets' /\ cleared[x] < sets'
    BY <1>1 DEF NewestSet
  <2>1. /\ sets \in Nat /\ wiped[x] \in Nat /\ reported[x] \in Nat /\ cleared[x] \in Nat
        /\ wiped[x] <= sets /\ reported[x] <= sets /\ cleared[x] <= sets
    BY <1>2 DEF HistoryShape
  <2> QED BY <1>1, <2>1
<1>21. WritesOK'
  <2> SUFFICES ASSUME NEW i \in 1..(n + 5)
               PROVE  /\ prog'[i].layer = "done" => i = n + 5
                      /\ prog'[i].val # None => prog'[i].val.ver = sets'
    BY <1>16, <1>20 DEF WritesOK
  <2> QED BY <1>3, <1>6, <1>16, <1>18
<1>22. SetsOK' /\ ClearsOK'
  <2>1. \A i \in 1..Len(prog') : prog'[i].layer = "done" => i = n + 5 /\ prog'[i].keys = {k} /\ prog'[i].val # None
    BY <1>3, <1>6, <1>16, <1>18
  <2>2. Coming("mem", k, n + 5, TRUE)'
    <3>1. n + 1 \in 1..Len(prog') /\ n + 1 < n + 5
      BY <1>16
    <3> QED BY <1>6, <1>17, <3>1 DEF Coming
  <2>3. Coming("disk", k, n + 5, TRUE)'
    <3>1. n + 2 \in 1..Len(prog') /\ n + 2 < n + 5
      BY <1>16
    <3> QED BY <1>6, <1>17, <3>1 DEF Coming
  <2>4. SetsOK'
    BY <2>1, <2>2, <2>3 DEF SetsOK
  <2> QED BY <2>1, <2>4 DEF ClearsOK
<1> QED BY <1>19, <1>21, <1>22 DEF ToolsInv

(* get may remove an expired golden, and answers nothing.                  *)
LEMMA CompareKeeps == ASSUME ToolsInv, NEW k \in Key, Compare(k) PROVE ToolsInv'
<1>1. /\ Idle /\ UNCHANGED <<now, up, sets, mem, disk, faults, reported, cleared, wiped, call>>
      /\ prog' = GetWrites(k)
  BY DEF Compare, Get, bounds, tools
<1>2. /\ prog' \in Seq(Step) /\ Len(prog') \in Nat
      /\ \A i \in 1..Len(prog') : prog'[i].val = None /\ prog'[i].layer \in {"mem", "disk"}
  <2>1. GetWrites(k) = IF Expired(k) THEN <<Write("mem", {k}, None, FALSE), Write("disk", {k}, None, FALSE)>> ELSE <<>>
    BY DEF GetWrites, InvalidateWrites, Both
  <2>2. CASE ~Expired(k)
    <3>1. prog' \in Seq(Step) /\ Len(prog') = 0
      BY <1>1, <2>1, <2>2, EmptySeq
    <3> QED BY <3>1
  <2>3. CASE Expired(k)
    <3>1. PICK x, y : x = Write("mem", {k}, None, FALSE) /\ y = Write("disk", {k}, None, FALSE)
      OBVIOUS
    <3>2. x \in Step /\ y \in Step
      BY <3>1, NoneIsEntry DEF Write, Step, Layer
    <3>3. x.val = None /\ x.layer = "mem" /\ y.val = None /\ y.layer = "disk"
      BY <3>1 DEF Write
    <3>4. prog' = <<x, y>>
      BY <1>1, <2>1, <2>3, <3>1
    <3>5. prog' \in Seq(Step) /\ Len(prog') = 2 /\ prog'[1] = x /\ prog'[2] = y
      BY <3>2, <3>4
    <3>6. \A i \in 1..2 : i = 1 \/ i = 2
      OBVIOUS
    <3> QED BY <3>3, <3>5, <3>6
  <2> QED BY <2>2, <2>3
<1>3. HistoryShape' /\ Dated'
  <2>1. now' \in Nat /\ up /\ call' = [x \in Call |-> call'[x]] /\ sets' \in {sets, sets + 1}
    BY <1>1 DEF ToolsInv, HistoryShape, Idle
  <2> QED BY <1>1, <1>2, <2>1, NothingWritten
<1>4. WritesOK' /\ SetsOK' /\ ClearsOK'
  BY <1>2 DEF WritesOK, SetsOK, ClearsOK
<1> QED BY <1>3, <1>4 DEF ToolsInv

-----------------------------------------------------------------------------
(* Everything else, and the theorems.                                      *)

(* The calls and the environment leave the goldens and the history alone.  *)
LEMMA CallsKeep ==
    ASSUME ToolsInv, Idle, UNCHANGED <<vars, reported, cleared, wiped>>, call' = [c \in Call |-> call'[c]]
    PROVE  ToolsInv'
<1>1. UNCHANGED <<now, up, mem, disk, faults, reported, cleared, wiped, sets, prog>> /\ up /\ prog' = <<>>
  BY DEF vars, bounds, Idle
<1>2. HistoryShape' /\ Dated'
  BY <1>1, NothingWritten DEF ToolsInv, HistoryShape
<1> QED BY <1>1, <1>2, NoProgram DEF ToolsInv

LEMMA StandStill ==
    ASSUME ToolsInv, UNCHANGED <<up, mem, disk, prog, sets, faults, call, reported, cleared, wiped>>, now' \in Nat
    PROVE  ToolsInv'
<1>1. HistoryShape'
  BY DEF ToolsInv, HistoryShape
<1>2. Dated'
  BY DEF ToolsInv, Dated
<1>3. NewestSet' = NewestSet /\ Clearing' = Clearing
  BY DEF NewestSet, Clearing
<1>4. WritesOK'
  BY <1>3 DEF ToolsInv, WritesOK
<1>5. \A layer, k, i, sure : Coming(layer, k, i, sure)' = Coming(layer, k, i, sure)
  BY DEF Coming
<1>6. SetsOK'
  BY <1>5 DEF ToolsInv, SetsOK
<1>7. ClearsOK'
  BY <1>3, <1>5 DEF ToolsInv, ClearsOK
<1> QED BY <1>1, <1>2, <1>4, <1>6, <1>7 DEF ToolsInv

LEMMA ToolsCrashKeeps == ASSUME ToolsInv, ToolsCrash PROVE ToolsInv'
<1>1. /\ up' = FALSE /\ prog' = <<>> /\ mem' = [k \in Key |-> None] /\ call' = [c \in Call |-> NoCall]
      /\ UNCHANGED <<now, disk, sets, faults, reported, cleared, wiped>>
  BY DEF ToolsCrash, Crash
<1>2. HistoryShape'
  BY <1>1, NoneIsEntry, EmptySeq DEF ToolsInv, HistoryShape
<1>3. Dated'
  BY <1>1, NoneIsEntry DEF ToolsInv, Dated
<1> QED BY <1>1, <1>2, <1>3, NoProgram DEF ToolsInv

LEMMA ToolsRestartKeeps == ASSUME ToolsInv, ToolsRestart PROVE ToolsInv'
<1>1. /\ ~up /\ up' = TRUE /\ mem' = disk' /\ wiped' = [k \in Key |-> 0]
      /\ disk' = [k \in Key |-> IF now - disk[k].at < TTL THEN disk[k] ELSE None]
      /\ UNCHANGED <<now, prog, sets, faults, call, reported, cleared>>
  BY DEF ToolsRestart, Restart, bounds
<1>2. HistoryShape /\ Dated /\ prog' = <<>>
  BY <1>1 DEF ToolsInv, HistoryShape
<1>3. disk' \in [Key -> Entry] /\ \A k \in Key : disk'[k] \in {disk[k], None}
  BY <1>1, <1>2, NoneIsEntry DEF HistoryShape
<1>4. HistoryShape'
  BY <1>1, <1>2, <1>3 DEF HistoryShape
<1>5. Dated'
  <2> SUFFICES ASSUME NEW k \in Key
               PROVE  /\ disk'[k].ver # 0 => disk'[k].ver > 0 /\ disk'[k].ver >= reported[k]
                      /\ faults = 0 /\ disk'[k].ver # 0 => disk'[k].ver > cleared[k]
    BY <1>1 DEF Dated
  <2>1. /\ disk[k].ver # 0 => disk[k].ver >= reported[k]
        /\ faults = 0 /\ disk[k].ver # 0 => disk[k].ver > cleared[k]
        /\ disk[k].ver \in Nat
    BY <1>2 DEF Dated, HistoryShape, Entry
  <2> QED BY <1>3, <2>1, NoneIsEntry
<1> QED BY <1>2, <1>4, <1>5, NoProgram DEF ToolsInv

LEMMA ToolsStep == ToolsInv /\ [ToolsNext]_tvars => ToolsInv'
<1> SUFFICES ASSUME ToolsInv, [ToolsNext]_tvars PROVE ToolsInv'
  OBVIOUS
<1>0. call = [c \in Call |-> call[c]] /\ now \in Nat
  BY DEF ToolsInv, HistoryShape
<1>1. ASSUME NEW k \in Key, SetGolden(k) \/ Compare(k) PROVE ToolsInv'
  BY <1>1, SetGoldenKeeps, CompareKeeps
<1>2. ASSUME NEW c \in Call, NEW u \in User, NEW a \in App, NEW all \in BOOLEAN, ListBTs(c, u, a, all)
      PROVE  ToolsInv'
  BY <1>0, <1>2, CallsKeep DEF ListBTs
<1>3. ASSUME NEW c \in Call, Listed(c) \/ Detected(c) \/ ListFails(c) PROVE ToolsInv'
  <2>1. CASE Listed(c)
    BY <1>0, <2>1, CallsKeep DEF Listed
  <2>2. CASE ListFails(c)
    BY <1>0, <2>2, CallsKeep DEF ListFails
  <2> QED BY <1>3, <2>1, <2>2, DetectedKeeps
<1>4. ASSUME NEW e \in Entity, RestartDetected(e) PROVE ToolsInv'
  BY <1>4, RestartDetectedKeeps
<1>5. ASSUME NEW a \in App, Sweep(a) PROVE ToolsInv'
  BY <1>0, <1>5, CallsKeep DEF Sweep
<1>6. ASSUME NEW a \in App, NEW pop \in Population, Deploy(a, pop) PROVE ToolsInv'
  BY <1>0, <1>6, StandStill DEF Deploy, vars, bounds
<1>7. ASSUME NEW u \in User, NEW a \in App, ListExpires(u, a) PROVE ToolsInv'
  BY <1>0, <1>7, StandStill DEF ListExpires, vars, bounds
<1>8. CASE ToolsTick
  BY <1>0, <1>8, StandStill DEF ToolsTick, Tick, tools, bounds
<1>9. CASE UNCHANGED tvars
  BY <1>0, <1>9, StandStill DEF tvars, vars, tools, bounds
<1> QED
  BY <1>1, <1>2, <1>3, <1>4, <1>5, <1>6, <1>7, <1>8, <1>9, ProceedKeeps, FinishKeeps, WriteMemKeeps,
     WriteDiskKeeps, DiskFailsKeeps, ToolsCrashKeeps, ToolsRestartKeeps DEF ToolsNext

(* Until the process restarts, no golden from before a detected restart of *)
(* the application is used, whatever the disk does.                        *)
THEOREM RestartedIsForgotten == ToolsSpec => []RestartForgets
<1>1. ToolsInv => RestartForgets
  BY DEF ToolsInv, Dated, RestartForgets
<1> QED BY <1>1, ToolsInitInv, ToolsStep, PTL DEF ToolsSpec

(* Until a disk operation raises, no golden from before a detected         *)
(* deployment or restart is in force again, crashes included.              *)
THEOREM ClearedIsForgotten == ToolsSpec => []ClearedStaysGone
<1>1. ToolsInv => ClearedStaysGone
  <2> SUFFICES ASSUME ToolsInv, faults = 0, NEW k \in Key
               PROVE  Visible(k) = 0 \/ Visible(k) > cleared[k]
    BY DEF ClearedStaysGone
  <2>1. /\ mem[k].ver # 0 => mem[k].ver > cleared[k]
        /\ disk[k].ver # 0 => disk[k].ver > cleared[k]
    BY DEF ToolsInv, Dated
  <2> QED BY <2>1 DEF Visible, Golden
<1> QED BY <1>1, ToolsInitInv, ToolsStep, PTL DEF ToolsSpec

(* compare_snapshots pins no golden older than the last one the user was   *)
(* told is set, through crashes at any write and disk errors.              *)
THEOREM PinnedNeverOlder == ToolsSpec => PinnedIsNewest
<1>1. ToolsInv /\ [ToolsNext]_tvars => [got' # got => got'.ver = 0 \/ got'.ver >= reported[got'.key]]_tvars
  <2> SUFFICES ASSUME ToolsInv, ToolsNext, got' # got PROVE got'.ver = 0 \/ got'.ver >= reported[got'.key]
    BY DEF tvars, vars
  <2>1. PICK k \in Key : Compare(k)
    BY DEF ToolsNext, SetGolden, ListBTs, Listed, Detected, ListFails, RestartDetected, Sweep, Deploy,
           ListExpires, Proceed, Finish, WriteMem, WriteDisk, DiskFails, ToolsCrash, Crash, ToolsRestart,
           Restart, ToolsTick, Tick, vars
  <2>2. got'.key = k /\ got'.ver = GetResult(k).ver
    BY <2>1 DEF Compare, Get
  <2>3. GetResult(k) \in {None, mem[k]}
    BY DEF GetResult
  <2>4. mem[k].ver # 0 => mem[k].ver >= reported[k]
    BY DEF ToolsInv, Dated
  <2> QED BY <2>2, <2>3, <2>4, NoneIsEntry
<1> QED BY <1>1, ToolsInitInv, ToolsStep, PTL DEF ToolsSpec, PinnedIsNewest
=============================================================================
