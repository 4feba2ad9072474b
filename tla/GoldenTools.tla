----------------------------- MODULE GoldenTools -----------------------------
(***************************************************************************)
(* The tools of main.py that use the golden registry of one controller,    *)
(* and services/cache_invalidator.py between them: set_golden_snapshot,    *)
(* compare_snapshots, the deployment detection of get_business_transactions *)
(* and the restart detection of get_health_violations.                     *)
(*                                                                         *)
(* A deployment is detected by comparing the number of BTs listed now with *)
(* the number in the caller's cached answer, which was read before the     *)
(* request to the controller was awaited.                                  *)
(***************************************************************************)
EXTENDS GoldenRegistry, SequencesExt

CONSTANTS
    User,        \* upns
    Call,        \* get_business_transactions calls that may be open at once
    Entity,      \* what a health violation can name; applications among them
    Population,  \* BTs an application can have: [plain : Nat, checks : Nat]
    Shift        \* the literal 2 of the detection

ASSUME ToolsAssumption ==
    App \subseteq Entity /\ Shift \in Nat /\ Population \subseteq [plain : Nat, checks : Nat]

VARIABLES
    bts,       \* the BTs each application has on the controller
    listed,    \* the cached answer of each user for each application
    call,      \* the open get_business_transactions calls
    sweeps,    \* invalidate_prefix tasks scheduled and not yet run
    reported,  \* history: last golden a tool said it had set, per key
    cleared,   \* history: value of sets when a handler last reported a key cleared
    wiped      \* history: the same since the process started, restarts only

tools == <<bts, listed, call, sweeps, reported, cleared, wiped>>
tvars == <<vars, tools>>

(* A cached answer is its total; an absent one counts as 0.                *)
NotListed == 0
NoCall == [stage |-> "idle"]
CallState ==
    {NoCall}
    \cup [stage : {"fetching"}, user : User, app : App, all : BOOLEAN, old : Nat]
    \cup [stage : {"clearing"}, user : User, app : App, all : BOOLEAN, old : Nat, new : Nat]

ToolsInit ==
    /\ Init
    /\ bts \in [App -> Population]
    /\ listed = [u \in User |-> [a \in App |-> NotListed]]
    /\ call = [c \in Call |-> NoCall]
    /\ sweeps = {}
    /\ reported = [k \in Key |-> 0]
    /\ cleared = [k \in Key |-> 0]
    /\ wiped = [k \in Key |-> 0]

-----------------------------------------------------------------------------
(* set_golden_snapshot, compare_snapshots                                  *)

Done(keys, val) == <<Write("done", keys, val, FALSE)>>

(* The golden is stored, then the manual override handler is told.         *)
SetGolden(k) ==
    /\ Idle /\ sets < MaxSets
    /\ sets' = sets + 1
    /\ prog' = GetWrites(k) \o SetWrites(k, sets + 1) \o InvalidateWrites(k, TRUE)
               \o Done({k}, [ver |-> sets + 1, at |-> now])
    /\ UNCHANGED <<now, up, mem, disk, got, bounds, tools>>

(* Without a pinned golden the baseline is selected anew; the selection is *)
(* stored nowhere.                                                         *)
Compare(k) == Get(k) /\ UNCHANGED tools

-----------------------------------------------------------------------------
(* get_business_transactions                                               *)

(* filter_and_sort_bts: health checks are left out unless asked for.       *)
Total(pop, all) == IF all THEN pop.plain + pop.checks ELSE pop.plain

(* on_deployment_detected: the BT registry, the goldens, then the sweep of *)
(* the cached answers is scheduled, all in one try.                        *)
DeploymentWrites(a) ==
    <<Write("bt", {}, None, TRUE)>> \o InvalidateAppWrites(a, TRUE)
    \o <<Write("sweep", KeysOf(a), None, TRUE)>> \o Done(KeysOf(a), None)

(* The answer comes from the cache, or the controller is asked.            *)
ListBTs(c, u, a, all) ==
    /\ Idle /\ call[c] = NoCall
    /\ listed[u][a] = NotListed \/ all
    /\ call' = [call EXCEPT ![c] = [stage |-> "fetching", user |-> u, app |-> a, all |-> all,
                                    old |-> listed[u][a]]]
    /\ UNCHANGED <<vars, bts, listed, sweeps, reported, cleared, wiped>>

Shifted(old, new) == old > 0 /\ (new - old > Shift \/ old - new > Shift)

Answer(c) == Total(bts[call[c].app], call[c].all)

(* The controller answers and nothing seems to have been deployed.         *)
Listed(c) ==
    /\ Idle /\ call[c].stage = "fetching" /\ ~Shifted(call[c].old, Answer(c))
    /\ listed' = [listed EXCEPT ![call[c].user][call[c].app] = Answer(c)]
    /\ call' = [call EXCEPT ![c] = NoCall]
    /\ UNCHANGED <<vars, bts, sweeps, reported, cleared, wiped>>

(* The controller answers and the handler of deployments runs.             *)
Detected(c) ==
    /\ Idle /\ call[c].stage = "fetching" /\ Shifted(call[c].old, Answer(c))
    /\ prog' = DeploymentWrites(call[c].app)
    /\ call' = [call EXCEPT ![c] = [stage |-> "clearing", user |-> @.user, app |-> @.app,
                                    all |-> @.all, old |-> @.old, new |-> Answer(c)]]
    /\ UNCHANGED <<now, up, mem, disk, sets, got, bounds>>
    /\ UNCHANGED <<bts, listed, sweeps, reported, cleared, wiped>>

ListFails(c) ==
    /\ Idle /\ call[c].stage = "fetching"
    /\ call' = [call EXCEPT ![c] = NoCall]
    /\ UNCHANGED <<vars, bts, listed, sweeps, reported, cleared, wiped>>

(* invalidate_prefix(":{controller}:business_transactions:{app}") against  *)
(* the keys bt_list_key builds, which start with the upn.                  *)
ListKey(u, a) == <<u, "controller", "business_transactions", a>>
SweepPrefix(a) == <<"", "controller", "business_transactions", a>>

Sweep(a) ==
    /\ Idle /\ a \in sweeps
    /\ sweeps' = sweeps \ {a}
    /\ listed' = [u \in User |-> [b \in App |->
                    IF IsPrefix(SweepPrefix(a), ListKey(u, b)) THEN NotListed ELSE listed[u][b]]]
    /\ UNCHANGED <<vars, bts, call, reported, cleared, wiped>>

-----------------------------------------------------------------------------
(* get_health_violations                                                   *)

(* The first crash or restart among the violations names entity e.         *)
RestartDetected(e) ==
    /\ Idle
    /\ prog' = InvalidateAppWrites(e, TRUE) \o Done(KeysOf(e), None)
    /\ UNCHANGED <<now, up, mem, disk, sets, got, bounds, tools>>

-----------------------------------------------------------------------------
(* The steps of a handler, and the environment                             *)

Clearing == {c \in Call : call[c].stage = "clearing"}

(* The BT registry's entry is deleted, or the sweep becomes a task.        *)
Proceed ==
    LET s == Head(prog) IN
    /\ up /\ prog # <<>> /\ s.layer \in {"bt", "sweep"}
    /\ prog' = Tail(prog)
    /\ sweeps' = IF s.layer = "sweep" THEN sweeps \cup {k[1] : k \in s.keys} ELSE sweeps
    /\ UNCHANGED <<now, up, mem, disk, sets, got, bounds>>
    /\ UNCHANGED <<bts, listed, call, reported, cleared, wiped>>

(* The handler returns.  set_golden_snapshot answers that the golden is    *)
(* set; the others have logged that the goldens are invalidated, and       *)
(* get_business_transactions caches its answer.                            *)
Finish ==
    LET s == Head(prog)
        isSet == s.val # None
        On(f, x) == [k \in Key |-> IF k \in s.keys THEN x ELSE f[k]]
    IN
    /\ up /\ prog # <<>> /\ s.layer = "done"
    /\ prog' = <<>>
    /\ reported' = IF isSet THEN On(reported, s.val.ver) ELSE reported
    /\ cleared' = IF isSet THEN cleared ELSE On(cleared, sets)
    /\ wiped' = IF isSet \/ Clearing # {} THEN wiped ELSE On(wiped, sets)
    /\ listed' = [u \in User |-> [a \in App |->
                    IF \E c \in Clearing : call[c].user = u /\ call[c].app = a
                    THEN call[CHOOSE c \in Clearing : TRUE].new ELSE listed[u][a]]]
    /\ call' = [c \in Call |-> IF c \in Clearing THEN NoCall ELSE call[c]]
    /\ UNCHANGED <<now, up, mem, disk, sets, got, bounds, bts, sweeps>>

Deploy(a, pop) ==
    /\ bts[a] # pop
    /\ bts' = [bts EXCEPT ![a] = pop]
    /\ UNCHANGED <<vars, listed, call, sweeps, reported, cleared, wiped>>

(* The cached answer reaches its age in both layers.                       *)
ListExpires(u, a) ==
    /\ listed[u][a] # NotListed
    /\ listed' = [listed EXCEPT ![u][a] = NotListed]
    /\ UNCHANGED <<vars, bts, call, sweeps, reported, cleared, wiped>>

(* The open calls and the scheduled sweeps die with the process; cached    *)
(* answers are on disk.                                                    *)
ToolsCrash ==
    /\ Crash
    /\ call' = [c \in Call |-> NoCall]
    /\ sweeps' = {}
    /\ UNCHANGED <<bts, listed, reported, cleared, wiped>>

ToolsRestart ==
    /\ Restart
    /\ wiped' = [k \in Key |-> 0]
    /\ UNCHANGED <<bts, listed, call, sweeps, reported, cleared>>

ToolsTick == Tick /\ UNCHANGED tools

ToolsNext ==
    \/ \E k \in Key : SetGolden(k) \/ Compare(k)
    \/ \E c \in Call, u \in User, a \in App, all \in BOOLEAN : ListBTs(c, u, a, all)
    \/ \E c \in Call : Listed(c) \/ Detected(c) \/ ListFails(c)
    \/ \E e \in Entity : RestartDetected(e)
    \/ \E a \in App : Sweep(a) \/ \E pop \in Population : Deploy(a, pop)
    \/ \E u \in User, a \in App : ListExpires(u, a)
    \/ Proceed \/ Finish
    \/ (WriteMem \/ WriteDisk \/ DiskFails) /\ UNCHANGED tools
    \/ ToolsCrash \/ ToolsRestart \/ ToolsTick

ToolsSpec == ToolsInit /\ [][ToolsNext]_tvars

-----------------------------------------------------------------------------
(* compare_snapshots never pins a golden older than the last one           *)
(* set_golden_snapshot reported for the key, through crashes at any write  *)
(* and disk operations that raise.                                         *)
PinnedIsNewest ==
    [][got' # got => got'.ver = 0 \/ got'.ver >= reported[got'.key]]_tvars

(* Until the process restarts, no golden from before a detected restart of *)
(* the application is used, even when the disk operation failed: the       *)
(* mirror is cleared first.                                                *)
RestartForgets ==
    Idle => \A k \in Key : mem[k].ver = 0 \/ mem[k].ver > wiped[k]

(* Without disk errors, what a detected deployment or restart cleared does *)
(* not come back, crashes included.                                        *)
ClearedStaysGone ==
    faults = 0 => \A k \in Key : Visible(k) = 0 \/ Visible(k) > cleared[k]

(* REQUIREMENTS.md:259-260: the golden is persisted for 24 hours.          *)
SetGoldenTakesEffect ==
    [][reported' # reported =>
        \A k \in Key : reported'[k] # reported[k] => mem'[k].ver = reported'[k]]_tvars
=============================================================================
