------------------------------ MODULE ToolCalls ------------------------------
(***************************************************************************)
(* A tool call of main.py past the rate limiter: the session and the role  *)
(* lookup (auth/appd_auth.py), the permission, application and licence     *)
(* gates, the requests of the tool's body and its audit entry, with        *)
(* several calls in flight, requests that fail, cancellations and          *)
(* restarts.  The verdict of the application gate is AppAccess's subject   *)
(* and free here, the attempts of one request are TokenManager's.          *)
(***************************************************************************)
EXTENDS ToolTable

CONSTANTS
    Call, User, Controller,
    Configured,         \* the controllers with an rbacVaultPath
    Tools,              \* the tools that are called, a set of rows of ToolTable
    NameSets,           \* what a user's role names at a controller can be
    InitHeld,           \* the role names at the start
    SessionTTL,         \* SESSION_TTL_S
    MaxLookup,          \* how long the answer to a role lookup can be on its way
    MaxTime, MaxChanges, MaxRestarts    \* bounds of this model

ASSUME SessionTTLAssumption == SessionTTL \in Nat \ {0}
ASSUME MaxLookupAssumption == MaxLookup \in Nat
ASSUME SomeoneAssumption == User # {} /\ Controller # {} /\ Tools # {}
ASSUME ToolsAssumption == \A t \in Tools : WellShaped(t)
ASSUME ConfiguredAssumption == Configured \subseteq Controller
ASSUME NameSetsAssumption == NameSets \subseteq SUBSET RoleName
ASSUME InitHeldAssumption == InitHeld \in [Controller -> [User -> NameSets]]

VARIABLES
    now,                \* the clock, in seconds
    held,               \* AppDynamics: the role names of each user at each controller
    session,            \* _sessions
    call,               \* the calls
    licensed,           \* _state of license_check: what was detected at startup
    scoped,             \* the controllers in _rbac_clients
    lastHeld,           \* observer: when each user last held each role anywhere
    changes, restarts   \* how often held changed and the process restarted

vars == <<now, held, session, call, licensed, scoped, lastHeld, changes, restarts>>

(* No session is one that has long expired.                                *)
NoSession == [role |-> "DENIED", at |-> -SessionTTL]

(* pc: idle; the role lookup at the controller, its answer on the way; the *)
(* application gate; the body; how the call ended.  read: when the role    *)
(* was read.  work: the requests left.  archived: the controller archived  *)
(* the snapshot.  entry: the status in the call's audit entry.             *)
Closed == {"idle", "refused", "answered", "failed", "cancelled"}
CallState ==
    [pc : Closed \cup {"lookup", "reply", "app", "work"}, user : User, ctrl : Controller,
     tool : Tools, role : Role, read : Int, work : Seq(Request), archived : BOOLEAN,
     entry : {"none", "success", "error"}]
NewCall(u, k, t) ==
    [pc |-> "idle", user |-> u, ctrl |-> k, tool |-> t, role |-> "DENIED", read |-> 0,
     work |-> <<>>, archived |-> FALSE, entry |-> "none"]
NoCall == NewCall(CHOOSE u \in User : TRUE, CHOOSE k \in Controller : TRUE, CHOOSE t \in Tools : TRUE)

Granting == Role \ {"DENIED"}

(* The observer's marks once h holds at time t.                            *)
Marked(marks, h, t) ==
    [u \in User |-> [r \in Granting |->
        IF \E k \in Controller : MapRole(h[k][u]) = r THEN t ELSE marks[u][r]]]
Never == [u \in User |-> [r \in Granting |-> -(SessionTTL + MaxLookup)]]

(* detect_and_store: each probe says whether its module is there; snapshots *)
(* are taken for granted.  Startup also tries to make an RBAC client for   *)
(* each configured controller, and goes on without the ones that fail.     *)
Detected == {m \cup {"snapshots"} :
             m \in SUBSET ({t.module : t \in Tools} \cap {"analytics", "eum", "database_visibility"})}

Init ==
    /\ now = 0 /\ changes = 0 /\ restarts = 0
    /\ held = InitHeld
    /\ lastHeld = Marked(Never, held, 0)
    /\ session = [u \in User |-> NoSession]
    /\ call = [c \in Call |-> NoCall]
    /\ licensed \in Detected /\ scoped \in SUBSET Configured

-----------------------------------------------------------------------------
(* The gates: what k can be next.                                          *)
Past(k) == [k EXCEPT !.read = 0, !.ctrl = NoCall.ctrl]     \* no step looks at these again
Refused(k) == [Past(k) EXCEPT !.pc = "refused"]

(* require_license, then the body with one of the courses it can take.     *)
Licence(k) ==
    IF k.tool.module \in licensed \cup {"none"}
      THEN {[Past(k) EXCEPT !.pc = "work", !.work = w] : w \in k.tool.work}
      ELSE {Refused(k)}

(* require_permission, and _require_app_access where it asks.              *)
Gate(k, r) ==
    IF ~ Permits(r, k.tool.gate) THEN {Refused([k EXCEPT !.role = r])}
    ELSE IF k.tool.app /\ k.ctrl \in scoped THEN {[Past(k) EXCEPT !.role = r, !.pc = "app"]}
    ELSE Licence([k EXCEPT !.role = r])

Fresh(u) == now - session[u].at < SessionTTL

(* Mutant: a hit renews the session.                                       *)
SessionHitRenewing(c, k) ==
    /\ k.tool.gate # "none" /\ Fresh(k.user)
    /\ \E n \in Gate(k, session[k.user].role) : call' = [call EXCEPT ![c] = n]
    /\ session' = [session EXCEPT ![k.user].at = now]

(* get_user_role with a session of that upn, whatever the controller.      *)
SessionHit(c, k) ==
    /\ k.tool.gate # "none" /\ Fresh(k.user)
    /\ \E n \in Gate(k, session[k.user].role) : call' = [call EXCEPT ![c] = n]
    /\ UNCHANGED session

SessionMiss(c, k) ==
    /\ k.tool.gate # "none" /\ ~ Fresh(k.user)
    /\ call' = [call EXCEPT ![c] = [k EXCEPT !.pc = "lookup"]]
    /\ UNCHANGED session

(* A tool that asks for no role goes straight to its body.                 *)
Ungated(c, k) ==
    /\ k.tool.gate = "none"
    /\ \E n \in Licence(k) : call' = [call EXCEPT ![c] = n]
    /\ UNCHANGED session

Arrive(c) ==
    /\ call[c].pc \in Closed
    /\ \E u \in User, k \in Controller, t \in Tools :
         \/ SessionHit(c, NewCall(u, k, t))
         \/ SessionMiss(c, NewCall(u, k, t))
         \/ Ungated(c, NewCall(u, k, t))
    /\ UNCHANGED <<now, held, licensed, scoped, lastHeld, changes, restarts>>

(* The controller answers with the roles it knows at that moment.          *)
RoleRead(c) ==
    /\ call[c].pc = "lookup"
    /\ call' = [call EXCEPT ![c].pc = "reply", ![c].read = now,
                            ![c].role = MapRole(held[call[c].ctrl][call[c].user])]
    /\ UNCHANGED <<now, held, session, licensed, scoped, lastHeld, changes, restarts>>

(* Mutant: the time the session ends in place of the time it was made.     *)
StoredExpiry(r) == [role |-> r, at |-> now + SessionTTL]
Stored(r) == [role |-> r, at |-> now]

(* A user without roles is denied and nothing is stored.                   *)
RoleArrives(c) ==
    /\ call[c].pc = "reply"
    /\ \E n \in Gate(call[c], call[c].role) : call' = [call EXCEPT ![c] = n]
    /\ session' = IF call[c].role = "DENIED" THEN session
                  ELSE [session EXCEPT ![call[c].user] = Stored(call[c].role)]
    /\ UNCHANGED <<now, held, licensed, scoped, lastHeld, changes, restarts>>

(* Mutant: the denial is stored as a session.                              *)
LookupFailsStored(c) ==
    /\ call[c].pc \in {"lookup", "reply"}
    /\ \E n \in Gate(call[c], "DENIED") : call' = [call EXCEPT ![c] = n]
    /\ session' = [session EXCEPT ![call[c].user] = [role |-> "DENIED", at |-> now]]
    /\ UNCHANGED <<now, held, licensed, scoped, lastHeld, changes, restarts>>

(* Fail closed: the role is DENIED, for this call only.                    *)
LookupFails(c) ==
    /\ call[c].pc \in {"lookup", "reply"}
    /\ \E n \in Gate(call[c], "DENIED") : call' = [call EXCEPT ![c] = n]
    /\ UNCHANGED <<now, held, session, licensed, scoped, lastHeld, changes, restarts>>

(* The verdict of _require_app_access.                                     *)
AppGate(c) ==
    /\ call[c].pc = "app"
    /\ \E n \in Licence(call[c]) \cup {Refused(call[c])} : call' = [call EXCEPT ![c] = n]
    /\ UNCHANGED <<now, held, session, licensed, scoped, lastHeld, changes, restarts>>

-----------------------------------------------------------------------------
(* The body.  Mutant: archive_snapshot writes its entry in the finally.    *)
EntryInFinally(k, pc) ==
    IF k.tool.audit = "never" THEN "none" ELSE IF pc = "failed" THEN "error" ELSE "success"

(* The finally runs on a cancellation too, with status still "success":    *)
(* CancelledError is no Exception.                                         *)
Entry(k, pc) ==
    CASE k.tool.audit = "always" -> IF pc = "failed" THEN "error" ELSE "success"
      [] k.tool.audit = "success" -> IF pc = "answered" THEN "success" ELSE "none"
      [] k.tool.audit = "never" -> "none"

Ended(k, pc) == [k EXCEPT !.pc = pc, !.work = <<>>, !.entry = Entry(k, pc)]
Working(c, request) ==
    call[c].pc = "work" /\ call[c].work # <<>> /\ Head(call[c].work) = request
Rest(k) == [k EXCEPT !.work = Tail(k.work)]

Becomes(c, k) ==
    /\ call' = [call EXCEPT ![c] = k]
    /\ UNCHANGED <<now, held, session, licensed, scoped, lastHeld, changes, restarts>>

(* The request is answered; an answer in "try" may be a failure.           *)
Answered(c) ==
    /\ Working(c, "get") \/ Working(c, "try")
    /\ Becomes(c, Rest(call[c]))

(* A 403 is one of the failures: no request carries the upn, so the        *)
(* session stays.                                                          *)
RequestFails(c) ==
    /\ Working(c, "get") \/ Working(c, "archive")
    /\ Becomes(c, Ended(call[c], "failed"))

(* The controller archives; its answer arrives or is lost.                 *)
Archive(c) ==
    /\ Working(c, "archive")
    /\ \/ Becomes(c, Rest([call[c] EXCEPT !.archived = TRUE]))
       \/ Becomes(c, Ended([call[c] EXCEPT !.archived = TRUE], "failed"))

Return(c) ==
    /\ call[c].pc = "work" /\ call[c].work = <<>>
    /\ Becomes(c, Ended(call[c], "answered"))

(* The client gives up while the call awaits something.                    *)
Cancel(c) ==
    \/ /\ call[c].pc \in {"lookup", "reply", "app"}
       /\ Becomes(c, NoCall)
    \/ /\ call[c].pc = "work" /\ call[c].work # <<>>
       /\ \E reached \in {call[c].archived, call[c].archived \/ Head(call[c].work) = "archive"} :
            Becomes(c, Ended([call[c] EXCEPT !.archived = reached], "cancelled"))

-----------------------------------------------------------------------------
(* The process dies: sessions and calls are gone, startup detects anew.    *)
Restart ==
    /\ restarts < MaxRestarts /\ restarts' = restarts + 1
    /\ session' = [u \in User |-> NoSession]
    /\ call' = [c \in Call |-> NoCall]
    /\ licensed' \in Detected /\ scoped' \in SUBSET Configured
    /\ UNCHANGED <<now, held, lastHeld, changes>>

(* An administrator changes a user's roles at a controller.                *)
Change ==
    /\ changes < MaxChanges /\ changes' = changes + 1
    /\ \E k \in Controller, u \in User, names \in NameSets :
         held' = [held EXCEPT ![k][u] = names]
    /\ lastHeld' = Marked(lastHeld, held', now)
    /\ UNCHANGED <<now, session, call, licensed, scoped, restarts>>

Tick ==
    /\ now < MaxTime /\ now' = now + 1
    /\ \A c \in Call : call[c].pc = "reply" => now - call[c].read < MaxLookup
    /\ lastHeld' = Marked(lastHeld, held, now')
    /\ UNCHANGED <<held, session, call, licensed, scoped, changes, restarts>>

CallStep(c) ==
    \/ Arrive(c) \/ RoleRead(c) \/ RoleArrives(c) \/ LookupFails(c) \/ AppGate(c)
    \/ Answered(c) \/ RequestFails(c) \/ Archive(c) \/ Return(c) \/ Cancel(c)

Next == (\E c \in Call : CallStep(c)) \/ Restart \/ Change \/ Tick

Spec == Init /\ [][Next]_vars

-----------------------------------------------------------------------------
(* Every variable has its type, and no session is stamped with a time that *)
(* is still to come (_sessions, main.py's calls).                          *)
TypeOK ==
    /\ now \in Nat /\ changes \in Nat /\ restarts \in Nat
    /\ held \in [Controller -> [User -> NameSets]]
    /\ session \in [User -> [role : Role, at : Int]]
    /\ \A u \in User : session[u].at <= now
    /\ call \in [Call -> CallState]
    /\ licensed \in Detected /\ scoped \in SUBSET Configured
    /\ lastHeld \in [User -> [Granting -> Int]]

(* No longer ago than a session lives and a lookup takes.                  *)
Lately(t, mark) == t - mark < SessionTTL + MaxLookup

(* However lookups of one user overlap, overtake each other and fail, and  *)
(* whatever changes at the controllers, require_permission lets a call     *)
(* pass only for a role that permits the tool and that the user lately     *)
(* held (get_user_role, SESSION_TTL_S).                                    *)
AdmittedByHeldRole ==
    [][\A c \in Call :
         /\ call[c].pc \notin {"app", "work"} /\ call'[c].pc \in {"app", "work"}
         /\ call'[c].tool.gate # "none"
         => /\ Permits(call'[c].role, call'[c].tool.gate)
            /\ Lately(now, lastHeld[call'[c].user][call'[c].role])]_vars

(* A call that is refused from the session, without a lookup of its own,   *)
(* is refused for a role the user lately held: a denial that came of a     *)
(* failed lookup, or of a user without roles, is not remembered            *)
(* (get_user_role returns before it stores).                               *)
RefusedByHeldRole ==
    [][\A c \in Call :
         call[c].pc \in Closed /\ call'[c].pc = "refused" /\ call'[c] # call[c]
         => call'[c].role # "DENIED" /\ Lately(now, lastHeld[call'[c].user][call'[c].role])]_vars

(* archive_snapshot, the one tool that changes the controller, against its *)
(* audit entry: whoever got a snapshot archived has a role that permits    *)
(* it, the call that is answered and no other has the entry "success", and *)
(* what it tells was archived.  Nothing follows from a missing entry: the  *)
(* archived snapshot of a call that failed or was cancelled has none.  For *)
(* the tools that write their entry in the finally there is no such rule:  *)
(* a cancelled call of theirs is logged as "success" (main.py:549 for      *)
(* get_metrics; archive_snapshot writes its entry at main.py:1156).        *)
ArchiveAccounted ==
    \A c \in Call : LET k == call[c] IN
        k.tool.audit = "success" =>
            /\ k.archived => /\ Permits(k.role, k.tool.gate)
                            /\ k.pc \in {"work", "answered", "failed", "cancelled"}
            /\ k.entry # "none" <=> k.pc = "answered"
            /\ k.entry # "none" => k.entry = "success" /\ k.archived
=============================================================================
