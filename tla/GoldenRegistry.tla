--------------------------- MODULE GoldenRegistry ---------------------------
(***************************************************************************)
(* registries/golden_registry.py: the goldens of one controller in an      *)
(* in-memory mirror and in a diskcache that survives the process.          *)
(*                                                                         *)
(* The methods are synchronous, so no other task runs inside one; but the  *)
(* process can die between two of its writes, and a disk operation can     *)
(* raise.  A method is therefore a program: a sequence of writes carried   *)
(* out one by one, which a crash cuts short.                               *)
(***************************************************************************)
EXTENDS Integers, Sequences

CONSTANTS
    App, BT,   \* the normalised parts of _golden_key
    TTL,       \* _GOLDEN_TTL_SECONDS
    MaxTime,   \* bound: last value of the clock
    MaxSets,   \* bound: calls of set
    MaxCrash,  \* bound: crashes
    MaxFaults  \* bound: disk operations that raise

Key == App \X BT

ASSUME BoundAssumption ==
    /\ App # {} /\ BT # {}
    /\ TTL \in Nat \ {0} /\ MaxTime \in Nat /\ MaxSets \in Nat /\ MaxCrash \in Nat /\ MaxFaults \in Nat

VARIABLES
    now,
    up,       \* the process runs and has loaded the registry
    mem,      \* _registry
    disk,     \* _disk
    prog,     \* writes the running method has still to do
    sets,     \* history: number of the last golden given to set
    got,      \* history: the last answer of get
    crashes,
    faults

bounds == <<crashes, faults>>
vars == <<now, up, mem, disk, prog, sets, got, bounds>>

(* A golden is the number of the call of set that stored it.               *)
None == [ver |-> 0, at |-> 0]
Entry == [ver : Nat, at : Nat]

(* One write of a method.  "mem" is one dict operation, "disk" touches its *)
(* keys one at a time; the handlers of GoldenTools also touch the BT        *)
(* registry ("bt"), schedule a task ("sweep") and return ("done").         *)
(* caught: inside the try of a CacheInvalidator method.                    *)
Layer == {"mem", "disk", "bt", "sweep", "done"}
Step == [layer : Layer, keys : SUBSET Key, val : Entry, caught : BOOLEAN]

Write(layer, keys, val, caught) == [layer |-> layer, keys |-> keys, val |-> val, caught |-> caught]

Init ==
    /\ now = 0 /\ up = TRUE /\ prog = <<>> /\ sets = 0 /\ crashes = 0 /\ faults = 0
    /\ mem = [k \in Key |-> None]
    /\ disk = [k \in Key |-> None]
    /\ got = [key |-> CHOOSE k \in Key : TRUE, ver |-> 0, age |-> 0]

-----------------------------------------------------------------------------
(* The methods                                                             *)

KeysOf(a) == {k \in Key : k[1] = a}

(* Writes on one key in both layers.                                       *)
Both(k, val, caught) == <<Write("mem", {k}, val, caught), Write("disk", {k}, val, caught)>>

(* Mutant: diskcache's add in place of set keeps what is on disk.          *)
SetWritesAdding(k, n) ==
    SelectSeq(Both(k, [ver |-> n, at |-> now], FALSE),
              LAMBDA w : w.layer = "mem" \/ disk[k] = None)

SetWrites(k, n) == Both(k, [ver |-> n, at |-> now], FALSE)

InvalidateWrites(k, caught) == Both(k, None, caught)

(* Mutant: the disk is swept before the mirror.                            *)
InvalidateAppDiskFirst(a, caught) ==
    LET onDisk == {k \in KeysOf(a) : disk[k] # None} IN
    <<Write("disk", IF onDisk = {} THEN KeysOf(a) ELSE onDisk, None, caught),
      Write("mem", KeysOf(a), None, caught)>>

(* Mutant: only what the mirror knows is removed.                          *)
InvalidateAppMirrorOnly(a, caught) ==
    <<Write("mem", {k \in KeysOf(a) : mem[k] # None}, None, caught)>>

(* The mirror's keys of the app, then the keys of the app on disk.         *)
InvalidateAppWrites(a, caught) ==
    LET onDisk == {k \in KeysOf(a) : disk[k] # None} IN
    <<Write("mem", KeysOf(a), None, caught)>>
    \o IF onDisk = {} THEN <<>> ELSE <<Write("disk", onDisk, None, caught)>>

Expired(k) == mem[k] # None /\ now - mem[k].at > TTL

(* get removes an entry it finds expired.                                  *)
GetWrites(k) == IF Expired(k) THEN InvalidateWrites(k, FALSE) ELSE <<>>
GetResult(k) == IF Expired(k) THEN None ELSE mem[k]

Idle == up /\ prog = <<>>

Set(k) ==
    /\ Idle /\ sets < MaxSets
    /\ sets' = sets + 1
    /\ prog' = SetWrites(k, sets + 1)
    /\ UNCHANGED <<now, up, mem, disk, got, bounds>>

(* Mutant: get answers from the mirror whatever the age.                   *)
GetAnyAge(k) ==
    /\ Idle
    /\ got' = [key |-> k, ver |-> mem[k].ver, age |-> now - mem[k].at]
    /\ UNCHANGED <<now, up, mem, disk, prog, sets, bounds>>

Get(k) ==
    /\ Idle
    /\ prog' = GetWrites(k)
    /\ got' = [key |-> k, ver |-> GetResult(k).ver, age |-> now - GetResult(k).at]
    /\ UNCHANGED <<now, up, mem, disk, sets, bounds>>

Invalidate(k) ==
    /\ Idle
    /\ prog' = InvalidateWrites(k, FALSE)
    /\ UNCHANGED <<now, up, mem, disk, sets, got, bounds>>

InvalidateApp(a) ==
    /\ Idle
    /\ prog' = InvalidateAppWrites(a, FALSE)
    /\ UNCHANGED <<now, up, mem, disk, sets, got, bounds>>

-----------------------------------------------------------------------------
(* The writes                                                              *)

WriteMem ==
    LET s == Head(prog) IN
    /\ up /\ prog # <<>> /\ s.layer = "mem"
    /\ mem' = [k \in Key |-> IF k \in s.keys THEN s.val ELSE mem[k]]
    /\ prog' = Tail(prog)
    /\ UNCHANGED <<now, up, disk, sets, got, bounds>>

(* diskcache writes one key in one transaction.                            *)
WriteDisk ==
    LET s == Head(prog) IN
    /\ up /\ prog # <<>> /\ s.layer = "disk"
    /\ \E k \in s.keys :
        /\ disk' = [disk EXCEPT ![k] = s.val]
        /\ prog' = IF s.keys = {k} THEN Tail(prog)
                   ELSE <<[s EXCEPT !.keys = @ \ {k}]>> \o Tail(prog)
    /\ UNCHANGED <<now, up, mem, sets, got, bounds>>

(* The disk operation raises: the rest of the handler is abandoned, or,    *)
(* inside a try of the invalidator, the rest of that try.                  *)
DiskFails ==
    /\ up /\ prog # <<>> /\ Head(prog).layer \in {"disk", "bt"} /\ faults < MaxFaults
    /\ faults' = faults + 1
    /\ \/ ~Head(prog).caught /\ prog' = <<>>
       \/ \E n \in 1..Len(prog) :
            /\ \A m \in 1..n : prog[m].caught
            /\ n < Len(prog) => ~prog[n + 1].caught
            /\ prog' = SubSeq(prog, n + 1, Len(prog))
    /\ UNCHANGED <<now, up, mem, disk, sets, got, crashes>>

Crash ==
    /\ up /\ crashes < MaxCrash
    /\ crashes' = crashes + 1
    /\ up' = FALSE
    /\ mem' = [k \in Key |-> None]
    /\ prog' = <<>>
    /\ UNCHANGED <<now, disk, sets, got, faults>>

(* Mutant: the mirror is stamped with the time of the restart.             *)
RestartStamping ==
    /\ ~up
    /\ up' = TRUE
    /\ mem' = [k \in Key |-> IF disk[k] # None /\ now - disk[k].at < TTL
                             THEN [disk[k] EXCEPT !.at = now] ELSE None]
    /\ disk' = [k \in Key |-> IF now - disk[k].at < TTL THEN disk[k] ELSE None]
    /\ UNCHANGED <<now, prog, sets, got, bounds>>

(* _load_from_disk: entries younger than the TTL fill the mirror, others   *)
(* are deleted (diskcache hides them from that age on as well).            *)
Restart ==
    /\ ~up
    /\ up' = TRUE
    /\ disk' = [k \in Key |-> IF now - disk[k].at < TTL THEN disk[k] ELSE None]
    /\ mem' = disk'
    /\ UNCHANGED <<now, prog, sets, got, bounds>>

Tick ==
    /\ now < MaxTime
    /\ now' = now + 1
    /\ UNCHANGED <<up, mem, disk, prog, sets, got, bounds>>

(* What can happen inside a method and to the process.                     *)
Machine == WriteMem \/ WriteDisk \/ DiskFails \/ Crash \/ Restart \/ Tick

Next ==
    \/ \E k \in Key : Set(k) \/ Get(k) \/ Invalidate(k)
    \/ \E a \in App : InvalidateApp(a)
    \/ Machine

Spec == Init /\ [][Next]_vars

-----------------------------------------------------------------------------
Golden(e) == IF e.ver # 0 /\ now - e.at < TTL THEN e.ver ELSE 0

(* The golden in force: the mirror's between two methods, the disk's while *)
(* a method runs or the process is down.                                   *)
Visible(k) == Golden(IF Idle THEN mem[k] ELSE disk[k])

TypeOK ==
    /\ now \in Nat /\ up \in BOOLEAN /\ sets \in Nat /\ crashes \in Nat /\ faults \in Nat
    /\ mem \in [Key -> Entry] /\ disk \in [Key -> Entry]
    /\ prog \in Seq(Step)
    /\ got \in [key : Key, ver : Nat, age : Nat]
    /\ \A k \in Key : mem[k].at <= now /\ disk[k].at <= now

(* Between two methods the mirror and the disk show the same goldens, as   *)
(* long as no disk operation raised.                                       *)
Mirror == Idle /\ faults = 0 => \A k \in Key : Golden(mem[k]) = Golden(disk[k])

(* With crashes between any two writes, and restarts, the two copies are   *)
(* one registry: no golden comes back after it was replaced or forgotten,  *)
(* until a disk operation raises (the copies may then differ).             *)
Unwritten == \E i \in DOMAIN prog : prog[i].layer = "disk" /\ prog[i].val # None
Promise == INSTANCE GoldenPromise WITH
    golden <- [k \in Key |-> IF faults = 0 THEN Visible(k) ELSE 0], newest <- sets, open <- Unwritten
ImplementsPromise == Promise!PromiseSpec

(* get answers with the golden in force, or with one of exactly the TTL's  *)
(* age, which a restart would not load any more.                           *)
GetAnswersInForce ==
    [][got' # got => got'.ver = Visible(got'.key) \/ (got'.ver = mem[got'.key].ver /\ got'.age = TTL)]_vars
=============================================================================
