---------------------------- MODULE AppsRegistry ----------------------------
(***************************************************************************)
(* registries/apps_registry.py and the tools that answer from it:          *)
(* list_applications and get_team_health_summary of main.py.               *)
(*                                                                         *)
(* The registry keeps the applications of a controller in the memory and,  *)
(* ten times as long, on disk.  The tools answer from it while it is warm; *)
(* otherwise they ask the controller.  A listing then stores what it was   *)
(* given, which is one page, in place of the whole list.                   *)
(***************************************************************************)
EXTENDS Integers, FiniteSets

CONSTANTS
    Controller,
    App,
    Home,       \* the controller of each application
    Scope,      \* the applications the caller's team and roles admit
    Page,       \* page_size
    Parallel,   \* the semaphore of get_team_health_summary
    MemTTL,     \* _MEM_TTL
    DiskFactor, \* _DISK_TTL_MULTIPLIER
    MaxDelay,   \* longest time an answer is under way: the clients' timeout
    Call,       \* tool calls that may be open at once
    MaxTime,    \* bound: last value of the clock
    MaxChanges, \* bound: applications that join or leave
    MaxFaults   \* bound: entries damaged on disk, writes that raise

ASSUME RegistryAssumption ==
    /\ Home \in [App -> Controller] /\ Scope \subseteq App
    /\ {Page, Parallel, MemTTL, DiskFactor} \subseteq Nat \ {0}
    /\ {MaxDelay, MaxTime, MaxChanges, MaxFaults} \subseteq Nat

VARIABLES
    now,
    present,  \* the applications the controllers monitor
    since,    \* when each application last joined or left
    mem,      \* _mem
    disk,     \* _disk
    call,
    told,     \* what the last step told its caller, if anything
    kept,     \* history: the last list stored in both layers, while it lasts
    changes,
    faults

world == <<now, present, since, changes>>
registry == <<mem, disk, kept, faults>>
vars == <<world, registry, call, told>>

(* A stored list, and whether it was the complete one.                     *)
Copy == [apps : SUBSET App, whole : BOOLEAN, exp : Nat]
NoCopy == [apps |-> {}, whole |-> TRUE, exp |-> 0]

NoCall == [stage |-> "idle"]
Kind == {"list", "summary", "seed"}
CallState ==
    {NoCall}
    \cup [stage : {"asked"}, kind : Kind, at : Controller]
    \cup [stage : {"answered"}, kind : Kind, at : Controller,
          apps : SUBSET App, whole : BOOLEAN, read : Nat]
    \cup [stage : {"fanout"}, wait : SUBSET App, run : SUBSET App, free : 0..Parallel]

Nothing == <<>>

Init ==
    /\ now = 0 /\ changes = 0 /\ faults = 0
    /\ present \in SUBSET App /\ since = [a \in App |-> 0]
    /\ mem = [k \in Controller |-> NoCopy] /\ disk = [k \in Controller |-> NoCopy]
    /\ kept = [k \in Controller |-> NoCopy]
    /\ call = [c \in Call |-> NoCall] /\ told = Nothing

-----------------------------------------------------------------------------
(* get_all, is_warm, update                                                *)

Live(copy) == now < copy.exp

Found(k) == IF Live(mem[k]) THEN mem[k] ELSE IF Live(disk[k]) THEN disk[k] ELSE NoCopy

Warm(k) == Found(k).apps # {}

(* Mutant: a list found on disk is renewed there.                          *)
PromotedRenewing(k) ==
    /\ mem' = IF ~Live(mem[k]) /\ Live(disk[k])
              THEN [mem EXCEPT ![k] = [disk[k] EXCEPT !.exp = now + MemTTL]] ELSE mem
    /\ disk' = IF ~Live(mem[k]) /\ Live(disk[k])
               THEN [disk EXCEPT ![k].exp = now + MemTTL * DiskFactor] ELSE disk
    /\ UNCHANGED <<kept, faults>>

(* Mutant: a list found on disk is moved to the memory.                    *)
PromotedMoving(k) ==
    /\ mem' = IF ~Live(mem[k]) /\ Live(disk[k])
              THEN [mem EXCEPT ![k] = [disk[k] EXCEPT !.exp = now + MemTTL]] ELSE mem
    /\ disk' = IF Live(mem[k]) THEN disk ELSE [disk EXCEPT ![k] = NoCopy]
    /\ UNCHANGED <<kept, faults>>

(* Reading copies a list found on disk to the memory for another MemTTL.   *)
Promoted(k) ==
    /\ mem' = IF ~Live(mem[k]) /\ Live(disk[k])
              THEN [mem EXCEPT ![k] = [disk[k] EXCEPT !.exp = now + MemTTL]] ELSE mem
    /\ UNCHANGED <<disk, kept, faults>>

Stored(c, ttl) == [apps |-> call[c].apps, whole |-> call[c].whole, exp |-> now + ttl]

Updated(c) ==
    LET k == call[c].at IN
    /\ mem' = [mem EXCEPT ![k] = Stored(c, MemTTL)]
    /\ disk' = [disk EXCEPT ![k] = Stored(c, MemTTL * DiskFactor)]
    /\ kept' = [kept EXCEPT ![k] = Stored(c, MemTTL * DiskFactor)]
    /\ UNCHANGED faults

-----------------------------------------------------------------------------
(* list_applications, get_team_health_summary                              *)

(* A caller is given the applications of a list that are in scope.         *)
Tells(k, copy) == told' = [at |-> k, apps |-> copy.apps \cap Scope, whole |-> copy.whole]

FanOut(c, names) ==
    call' = [call EXCEPT ![c] = IF names = {} THEN NoCall
                                ELSE [stage |-> "fanout", wait |-> names, run |-> {}, free |-> Parallel]]

ListWarm(c, k) ==
    /\ call[c] = NoCall /\ Warm(k)
    /\ Promoted(k) /\ Tells(k, Found(k))
    /\ UNCHANGED <<world, call>>

SummaryWarm(c, k) ==
    /\ call[c] = NoCall /\ Warm(k)
    /\ Promoted(k) /\ Tells(k, Found(k))
    /\ FanOut(c, Found(k).apps \cap Scope)
    /\ UNCHANGED world

Ask(c, k, kind) ==
    /\ call[c] = NoCall
    /\ kind # "seed" => ~Warm(k)
    /\ IF kind = "seed" THEN UNCHANGED registry ELSE Promoted(k)
    /\ call' = [call EXCEPT ![c] = [stage |-> "asked", kind |-> kind, at |-> k]]
    /\ told' = Nothing
    /\ UNCHANGED world

(* The applications the controller lists now, and its first page of them.  *)
Listing(k) == {a \in present : Home[a] = k}
FirstPage(k) ==
    {P \in SUBSET Listing(k) :
        Cardinality(P) = IF Cardinality(Listing(k)) < Page THEN Cardinality(Listing(k)) ELSE Page}

Becomes(c, apps, whole) ==
    /\ call' = [call EXCEPT ![c] = [stage |-> "answered", kind |-> @.kind, at |-> @.at,
                                    apps |-> apps, whole |-> whole, read |-> now]]
    /\ told' = Nothing
    /\ UNCHANGED <<world, registry>>

(* Mutant: the seeding asks for a page as well.                            *)
AnswerPaged(c) ==
    /\ call[c].stage = "asked"
    /\ \E P \in FirstPage(call[c].at) :
        Becomes(c, P, P = Listing(call[c].at) \/ call[c].kind = "seed")

Answer(c) ==
    /\ call[c].stage = "asked"
    /\ \E P \in IF call[c].kind = "list" THEN FirstPage(call[c].at) ELSE {Listing(call[c].at)} :
        Becomes(c, P, P = Listing(call[c].at))

ListArrives(c) ==
    /\ call[c].stage = "answered" /\ call[c].kind = "list"
    /\ Updated(c) /\ Tells(call[c].at, Stored(c, MemTTL))
    /\ call' = [call EXCEPT ![c] = NoCall]
    /\ UNCHANGED world

(* The summary asks for the complete list and does not store it.           *)
SummaryArrives(c) ==
    /\ call[c].stage = "answered" /\ call[c].kind = "summary"
    /\ Tells(call[c].at, Stored(c, MemTTL))
    /\ FanOut(c, call[c].apps \cap Scope)
    /\ UNCHANGED <<world, registry>>

SeedArrives(c) ==
    /\ call[c].stage = "answered" /\ call[c].kind = "seed"
    /\ Updated(c)
    /\ call' = [call EXCEPT ![c] = NoCall] /\ told' = Nothing
    /\ UNCHANGED world

(* The write to disk raises after the memory has the list: the tool fails, *)
(* the startup goes on.                                                    *)
UpdateRaises(c) ==
    /\ call[c].stage = "answered" /\ call[c].kind # "summary" /\ faults < MaxFaults
    /\ mem' = [mem EXCEPT ![call[c].at] = Stored(c, MemTTL)]
    /\ kept' = [kept EXCEPT ![call[c].at] = NoCopy]
    /\ faults' = faults + 1
    /\ call' = [call EXCEPT ![c] = NoCall] /\ told' = Nothing
    /\ UNCHANGED <<world, disk>>

AskFails(c) ==
    /\ call[c].stage \in {"asked", "answered"}
    /\ call' = [call EXCEPT ![c] = NoCall] /\ told' = Nothing
    /\ UNCHANGED <<world, registry>>

(* The summary's requests, one task for each application.                  *)
Enter(c, a) ==
    /\ call[c].stage = "fanout" /\ a \in call[c].wait /\ call[c].free > 0
    /\ call' = [call EXCEPT ![c].wait = @ \ {a}, ![c].run = @ \cup {a}, ![c].free = @ - 1]
    /\ told' = Nothing
    /\ UNCHANGED <<world, registry>>

(* Mutant: a request that failed keeps its place in the semaphore.         *)
CheckedKeeping(c, a) ==
    /\ call[c].stage = "fanout" /\ a \in call[c].run
    /\ \E place \in {0, 1} :
        call' = [call EXCEPT ![c].run = @ \ {a}, ![c].free = @ + place]
    /\ told' = Nothing
    /\ UNCHANGED <<world, registry>>

(* Answered or failed, a request gives a line of the report.               *)
Checked(c, a) ==
    /\ call[c].stage = "fanout" /\ a \in call[c].run
    /\ call' = [call EXCEPT ![c].run = @ \ {a}, ![c].free = @ + 1]
    /\ told' = Nothing
    /\ UNCHANGED <<world, registry>>

Report(c) ==
    /\ call[c].stage = "fanout" /\ call[c].wait = {} /\ call[c].run = {}
    /\ call' = [call EXCEPT ![c] = NoCall] /\ told' = Nothing
    /\ UNCHANGED <<world, registry>>

-----------------------------------------------------------------------------
(* The environment                                                         *)

Change(a) ==
    /\ changes < MaxChanges /\ changes' = changes + 1
    /\ present' = IF a \in present THEN present \ {a} ELSE present \cup {a}
    /\ since' = [since EXCEPT ![a] = now]
    /\ told' = Nothing
    /\ UNCHANGED <<now, registry, call>>

(* A list that no longer validates is evicted when it is read: it is gone. *)
Damage(k) ==
    /\ faults < MaxFaults /\ Live(disk[k]) /\ faults' = faults + 1
    /\ disk' = [disk EXCEPT ![k] = NoCopy] /\ kept' = [kept EXCEPT ![k] = NoCopy]
    /\ told' = Nothing
    /\ UNCHANGED <<world, mem, call>>

Tick ==
    /\ now < MaxTime /\ now' = now + 1
    /\ \A c \in Call : call[c].stage = "answered" => now < call[c].read + MaxDelay
    /\ told' = Nothing
    /\ UNCHANGED <<present, since, changes, registry, call>>

(* The process is gone: its memory and its calls are lost.                 *)
Forgets ==
    /\ mem' = [k \in Controller |-> NoCopy] /\ call' = [c \in Call |-> NoCall]
    /\ told' = Nothing
    /\ UNCHANGED <<world, disk, kept, faults>>

CallStep(c) ==
    \/ Answer(c) \/ ListArrives(c) \/ SummaryArrives(c) \/ SeedArrives(c)
    \/ UpdateRaises(c) \/ AskFails(c) \/ Report(c)
    \/ \E a \in App : Enter(c, a) \/ Checked(c, a)

-----------------------------------------------------------------------------
(* Longest time an application can have gone unnoticed: the answer on its  *)
(* way, the disk copy, and the memory copy promoted from it at the last    *)
(* moment.                                                                 *)
MaxAge == MaxDelay + MemTTL * DiskFactor + MemTTL

(* A listing or summary names no application that left longer ago than     *)
(* MaxAge, through promotions, restarts and overtaken answers.             *)
NamedWereThere ==
    told # Nothing =>
        \A a \in told.apps : a \in present \/ now - since[a] <= MaxAge

(* It misses an application that has been there longer than MaxAge only    *)
(* where a page took the place of the complete list.                       *)
MissedOnlyByPage ==
    told # Nothing /\ told.whole =>
        \A a \in Listing(told.at) \cap Scope : a \in told.apps \/ now - since[a] <= MaxAge

(* What a caller is told is no older than MaxAge, in what it names and in   *)
(* what it misses.                                                         *)
ToldWithinAge == NamedWereThere /\ MissedOnlyByPage

(* The fallback: what both layers have stored is answered from until the   *)
(* disk copy expires, through restarts whose own listing fails, unless it  *)
(* is damaged or a later write raises.                                     *)
KnownUntilExpiry ==
    \A k \in Controller : Live(kept[k]) => Found(k).apps = kept[k].apps

(* Every listing and every summary comes back, whichever requests fail.    *)
ListingsReturn == \A c \in Call : call[c] # NoCall ~> call[c] = NoCall
=============================================================================
