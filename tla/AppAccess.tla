------------------------------ MODULE AppAccess ------------------------------
(***************************************************************************)
(* services/user_resolver.py with client/rbac_client.py: the cached set of *)
(* applications a UPN may see on one controller, the fetch that walks      *)
(* AppDynamics RBAC to fill it, refresh_user_access, which clears it, and  *)
(* _require_app_access, the gate of every per-application tool (main.py).  *)
(*                                                                         *)
(* The RBAC data of AppDynamics is a graph of grants: user -> role,        *)
(* user -> group, group -> role and role -> application (canView).  Each   *)
(* GET reads one node's edges at some moment between its start and the     *)
(* moment the traversal goes on, while an administrator edits the graph.   *)
(* The tasks of one gather are answered in any order.                      *)
(***************************************************************************)
EXTENDS Integers, Sequences, FiniteSets, SequencesExt

CONSTANTS
    Caller,                  \* tasks that run a per-application tool call
    User, Group, Role, App,  \* nodes of the RBAC graph
    None,                    \* no owner of a lock
    Edge,                    \* grants that may exist
    InitGrants,              \* grants at the start
    TTL,                     \* _RBAC_CACHE_TTL_S
    MaxTime,                 \* bound: last value of the clock
    MaxChanges,              \* bound: edits of the graph
    MaxRefresh               \* bound: uses of refresh_user_access

Node == User \cup Group \cup Role \cup App

ASSUME NodeAssumption ==
    /\ User \cap Group = {} /\ User \cap Role = {} /\ User \cap App = {}
    /\ Group \cap Role = {} /\ Group \cap App = {} /\ Role \cap App = {}
    /\ None \notin Caller

ASSUME EdgeAssumption ==
    /\ Edge \subseteq (User \X (Role \cup Group)) \cup (Group \X Role) \cup (Role \X App)
    /\ InitGrants \subseteq Edge

ASSUME BoundAssumption ==
    TTL \in Nat /\ MaxTime \in Nat /\ MaxChanges \in Nat /\ MaxRefresh \in Nat

VARIABLES
    now,
    grants,    \* the RBAC graph at the controller
    changes,   \* edits made to it
    cache,     \* _app_access_cache
    owner,     \* who holds _upn_locks[u]
    waiters,   \* tasks queued on it, in FIFO order
    call,      \* resolve and its caller
    refreshes, \* history: number of the last refresh_user_access of each user
    settled,   \* history: the last one made while no fetch was in flight
    basis      \* history: what the last completed fetch of a user could see

lockVars == <<owner, waiters>>
vars == <<now, grants, changes, cache, lockVars, call, refreshes, settled, basis>>

-----------------------------------------------------------------------------
(* What the graph g grants.                                                *)
Targets(g, n) == {m \in Node : <<n, m>> \in g}
RolesOf(g, u) ==
    {r \in Role : <<u, r>> \in g \/ \E grp \in Group : <<u, grp>> \in g /\ <<grp, r>> \in g}
Accessible(g, u) == {a \in App : \E r \in RolesOf(g, u) : <<r, a>> \in g}

Absent == [held |-> FALSE, apps |-> {}, at |-> 0]
Entry(s) == [held |-> TRUE, apps |-> s, at |-> now]
Unexpired(e, t) == e.held /\ t - e.at < TTL
Fresh(u) == Unexpired(cache[u], now)

(* What a fetch saw: the grants that held at some moment of it, those that *)
(* held throughout, whether a request of it failed, and which refresh it   *)
(* came after.                                                             *)
Window == [some : SUBSET Edge, always : SUBSET Edge, failed : BOOLEAN, epoch : Nat, at : Nat]
NewWindow(u) == [some |-> grants, always |-> grants, failed |-> FALSE,
                 epoch |-> refreshes[u], at |-> now]

(* pc: idle; queued on the lock; in the request for the user, for its      *)
(* groups or for its roles; answered, with the gate's verdict.             *)
(* found: what the answers named so far.  pending: requests unanswered.    *)
(* since, quiet: refreshes and settled when the call began.                *)
Pc == {"idle", "lock", "user", "groups", "roles", "denied", "admitted"}
Fetching == {"user", "groups", "roles"}
Call == [pc : Pc, user : User, app : App, pending : SUBSET Node, found : SUBSET Node,
         since : Nat, quiet : Nat, window : Window]

NoWindow == [some |-> {}, always |-> {}, failed |-> FALSE, epoch |-> 0, at |-> 0]
NewCall(u, a) ==
    [pc |-> "idle", user |-> u, app |-> a, pending |-> {}, found |-> {},
     since |-> refreshes[u], quiet |-> settled[u], window |-> NoWindow]

Ended(c) == call[c].pc \in {"idle", "denied", "admitted"}
InFlight(u) == \E c \in Caller : call[c].user = u /\ call[c].pc \in Fetching

Init ==
    /\ now = 0 /\ grants = InitGrants /\ changes = 0
    /\ cache = [u \in User |-> Absent]
    /\ owner = [u \in User |-> None]
    /\ waiters = [u \in User |-> <<>>]
    /\ call \in [Caller -> {[pc |-> "idle", user |-> u, app |-> a, pending |-> {}, found |-> {},
                              since |-> 0, quiet |-> 0, window |-> NoWindow] : u \in User, a \in App}]
    /\ refreshes = [u \in User |-> 0]
    /\ settled = [u \in User |-> 0]
    /\ basis = [u \in User |-> NoWindow]

(* _require_app_access once resolve has returned s: an empty set is not    *)
(* looked into.  The call's locals are gone.                               *)
Decided(k, s) ==
    [k EXCEPT !.pc = IF s # {} /\ k.app \notin s THEN "denied" ELSE "admitted",
              !.pending = {}, !.found = {}, !.window = NoWindow]

(* Mutant: a hit stamps the entry anew.                                    *)
ResolveSliding(c, k) ==
    \/ /\ Fresh(k.user)
       /\ call' = [call EXCEPT ![c] = Decided(k, cache[k.user].apps)]
       /\ cache' = [cache EXCEPT ![k.user].at = now]
       /\ UNCHANGED owner
    \/ /\ ~Fresh(k.user)
       /\ owner' = [owner EXCEPT ![k.user] = c]
       /\ call' = [call EXCEPT ![c] = [k EXCEPT !.pc = "user", !.pending = {k.user}, !.found = {},
                                                !.window = NewWindow(k.user)]]
       /\ UNCHANGED cache

(* The body of resolve under the lock, up to the first request: a fresh    *)
(* entry is returned, otherwise a fetch starts.                            *)
Resolve(c, k) ==
    \/ /\ Fresh(k.user)
       /\ call' = [call EXCEPT ![c] = Decided(k, cache[k.user].apps)]
       /\ UNCHANGED <<cache, owner>>
    \/ /\ ~Fresh(k.user)
       /\ owner' = [owner EXCEPT ![k.user] = c]
       /\ call' = [call EXCEPT ![c] = [k EXCEPT !.pc = "user", !.pending = {k.user}, !.found = {},
                                                !.window = NewWindow(k.user)]]
       /\ UNCHANGED cache

(* Mutant: no lock around the cache check and the fetch.                   *)
BeginUnlocked(c) ==
    /\ Ended(c)
    /\ \E u \in User, a \in App : Resolve(c, NewCall(u, a))
    /\ UNCHANGED <<now, grants, changes, waiters, refreshes, settled, basis>>

(* A tool call reaches resolve.  The lock is taken at once only if nobody  *)
(* holds it and nobody waits for it.                                       *)
Begin(c) ==
    /\ Ended(c)
    /\ \E u \in User, a \in App :
        \/ /\ owner[u] = None /\ waiters[u] = <<>>
           /\ Resolve(c, NewCall(u, a))
           /\ UNCHANGED waiters
        \/ /\ ~(owner[u] = None /\ waiters[u] = <<>>)
           /\ waiters' = [waiters EXCEPT ![u] = Append(@, c)]
           /\ call' = [call EXCEPT ![c] = [NewCall(u, a) EXCEPT !.pc = "lock"]]
           /\ UNCHANGED <<cache, owner>>
    /\ UNCHANGED <<now, grants, changes, refreshes, settled, basis>>

(* The lock was released and c is first in its queue.                      *)
Enter(c) ==
    LET u == call[c].user IN
    /\ call[c].pc = "lock"
    /\ owner[u] = None /\ waiters[u] # <<>> /\ Head(waiters[u]) = c
    /\ waiters' = [waiters EXCEPT ![u] = Tail(@)]
    /\ Resolve(c, call[c])
    /\ UNCHANGED <<now, grants, changes, refreshes, settled, basis>>

-----------------------------------------------------------------------------
(* _fetch_app_names                                                        *)

(* The controller answers the request for n with the grants of n.          *)
Answer(c, n) ==
    /\ call[c].pc \in Fetching /\ n \in call[c].pending
    /\ call' = [call EXCEPT ![c].pending = @ \ {n}, ![c].found = @ \cup Targets(grants, n)]
    /\ UNCHANGED <<now, grants, changes, cache, lockVars, refreshes, settled, basis>>

(* The request for n fails in any way: rbac_client turns it into None, or  *)
(* gather returns its exception; the traversal goes on without it.         *)
RequestFails(c, n) ==
    /\ call[c].pc \in Fetching /\ n \in call[c].pending
    /\ call' = [call EXCEPT ![c].pending = @ \ {n}, ![c].window.failed = TRUE]
    /\ UNCHANGED <<now, grants, changes, cache, lockVars, refreshes, settled, basis>>

(* Mutant: what one stage found stays for the next.                        *)
AskKeeping(c, stage, s, kept) ==
    /\ call' = [call EXCEPT ![c].pc = stage, ![c].pending = s]
    /\ UNCHANGED <<cache, owner, basis>>

(* Mutant: the direct roles of a user with groups are lost.                *)
AskDropping(c, stage, s, kept) ==
    /\ call' = [call EXCEPT ![c].pc = stage, ![c].pending = s, ![c].found = {}]
    /\ UNCHANGED <<cache, owner, basis>>

(* The next stage of the traversal: ask for the nodes of s, keep the       *)
(* nodes of kept.                                                          *)
Ask(c, stage, s, kept) ==
    /\ call' = [call EXCEPT ![c].pc = stage, ![c].pending = s, ![c].found = kept]
    /\ UNCHANGED <<cache, owner, basis>>

(* resolve stores what the fetch found, releases the lock and returns.     *)
Store(c, s) ==
    LET u == call[c].user IN
    /\ cache' = [cache EXCEPT ![u] = Entry(s)]
    /\ owner' = [owner EXCEPT ![u] = None]
    /\ basis' = [basis EXCEPT ![u] = [call[c].window EXCEPT !.at = now]]
    /\ call' = [call EXCEPT ![c] = Decided(@, s)]

(* All requests of a stage are answered.  Without a role the answer is the *)
(* empty set.                                                              *)
Collect(c) ==
    LET groups == call[c].found \cap Group
        roles == call[c].found \cap Role
    IN
    /\ call[c].pc \in Fetching /\ call[c].pending = {}
    /\ \/ /\ call[c].pc = "user" /\ groups # {}
          /\ Ask(c, "groups", groups, roles)
       \/ /\ call[c].pc = "groups" \/ (call[c].pc = "user" /\ groups = {})
          /\ IF roles = {} THEN Store(c, {}) ELSE Ask(c, "roles", roles, {})
       \/ /\ call[c].pc = "roles"
          /\ Store(c, call[c].found)
    /\ UNCHANGED <<now, grants, changes, waiters, refreshes, settled>>

(* The client gives the tool call up: CancelledError passes through        *)
(* "except Exception" and leaves "async with", nothing is stored.          *)
GivenUp(c) ==
    call' = [call EXCEPT ![c] = [@ EXCEPT !.pc = "idle", !.pending = {}, !.found = {},
                                          !.since = 0, !.quiet = 0, !.window = NoWindow]]

CancelWaiting(c) ==
    LET u == call[c].user IN
    /\ call[c].pc = "lock"
    /\ \E i \in DOMAIN waiters[u] :
        waiters[u][i] = c /\ waiters' = [waiters EXCEPT ![u] = RemoveAt(@, i)]
    /\ GivenUp(c)
    /\ UNCHANGED <<now, grants, changes, cache, owner, refreshes, settled, basis>>

(* Mutant: a cancelled fetch does not release the lock.                    *)
CancelHoldingLock(c) ==
    /\ call[c].pc \in Fetching
    /\ GivenUp(c)
    /\ UNCHANGED <<now, grants, changes, cache, lockVars, refreshes, settled, basis>>

CancelFetch(c) ==
    /\ call[c].pc \in Fetching
    /\ owner' = [owner EXCEPT ![call[c].user] = None]
    /\ GivenUp(c)
    /\ UNCHANGED <<now, grants, changes, cache, waiters, refreshes, settled, basis>>

-----------------------------------------------------------------------------
(* Mutant: the key is not normalised as resolve does, nothing is popped.   *)
RefreshMissing(u) ==
    /\ refreshes[u] < MaxRefresh
    /\ refreshes' = [refreshes EXCEPT ![u] = @ + 1]
    /\ settled' = [settled EXCEPT ![u] = IF InFlight(u) THEN @ ELSE refreshes[u] + 1]
    /\ UNCHANGED <<now, grants, changes, cache, lockVars, call, basis>>

(* refresh_user_access, past its own gate: the entry is popped.            *)
Refresh(u) ==
    /\ refreshes[u] < MaxRefresh
    /\ cache' = [cache EXCEPT ![u] = Absent]
    /\ refreshes' = [refreshes EXCEPT ![u] = @ + 1]
    /\ settled' = [settled EXCEPT ![u] = IF InFlight(u) THEN @ ELSE refreshes[u] + 1]
    /\ UNCHANGED <<now, grants, changes, lockVars, call, basis>>

(* The window of a fetch once e was granted or revoked.                    *)
Edited(w, e) == [w EXCEPT !.some = @ \cup {e}, !.always = @ \ {e}]

(* An administrator grants or revokes e; every fetch in flight may meet    *)
(* the graph before or after.                                              *)
Change(e) ==
    /\ changes < MaxChanges
    /\ changes' = changes + 1
    /\ grants' = IF e \in grants THEN grants \ {e} ELSE grants \cup {e}
    /\ call' = [c \in Caller |->
                  IF call[c].pc \in Fetching
                  THEN [call[c] EXCEPT !.window = Edited(@, e)] ELSE call[c]]
    /\ UNCHANGED <<now, cache, lockVars, refreshes, settled, basis>>

Tick ==
    /\ now < MaxTime
    /\ now' = now + 1
    /\ UNCHANGED <<grants, changes, cache, lockVars, call, refreshes, settled, basis>>

Next ==
    \/ \E c \in Caller :
        \/ Begin(c) \/ Enter(c) \/ Collect(c) \/ CancelWaiting(c) \/ CancelFetch(c)
        \/ \E n \in Node : Answer(c, n) \/ RequestFails(c, n)
    \/ \E u \in User : Refresh(u)
    \/ \E e \in Edge : Change(e)
    \/ Tick

Spec == Init /\ [][Next]_vars

(* Every request ends: httpx gives up after 15 s.  A task that can run is  *)
(* run by the event loop.                                                  *)
Fairness ==
    \A c \in Caller :
        /\ WF_vars(Enter(c)) /\ WF_vars(Collect(c))
        /\ WF_vars(\E n \in Node : Answer(c, n) \/ RequestFails(c, n))

FairSpec == Spec /\ Fairness

-----------------------------------------------------------------------------
TypeOK ==
    /\ now \in Nat /\ grants \in SUBSET Edge /\ changes \in Nat
    /\ cache \in [User -> [held : BOOLEAN, apps : SUBSET App, at : Nat]]
    /\ owner \in [User -> Caller \cup {None}]
    /\ waiters \in [User -> Seq(Caller)]
    /\ call \in [Caller -> Call]
    /\ refreshes \in [User -> Nat] /\ settled \in [User -> Nat]
    /\ basis \in [User -> Window]

(* A cached set is between two readings of the RBAC graph, although its    *)
(* fetch reads the graph node by node while it is edited: every app in it  *)
(* is reached by grants that held during the fetch, and every app reached  *)
(* by grants that held throughout is in it, unless a request failed.       *)
CachedBetween ==
    \A u \in User : cache[u].held =>
        /\ cache[u].apps \subseteq Accessible(basis[u].some, u)
        /\ ~basis[u].failed => Accessible(basis[u].always, u) \subseteq cache[u].apps

Decides(c) == Ended(c)' /\ call'[c].pc # "idle" /\ call'[c] # call[c]

(* A call is decided from a fetch that ended less than the TTL ago, or is  *)
(* its own: serving an entry does not prolong its life.                    *)
DecisionFresh ==
    [][\A c \in Caller : Decides(c) =>
         LET b == basis'[call'[c].user] IN now - b.at < TTL \/ (owner[call'[c].user] = c)]_vars

(* The per-UPN lock prevents the double fetch: a fetch never overwrites an *)
(* entry that is still fresh.                                              *)
StoresWhenStale ==
    [][\A u \in User : basis'[u] # basis[u] => ~Fresh(u)]_vars

(* A refresh_user_access made while no fetch of the user was in flight     *)
(* takes effect: a later call is decided from a fetch that began after it. *)
QuietRefreshTakesEffect ==
    [][\A c \in Caller : Decides(c) => basis'[call'[c].user].epoch >= call'[c].quiet]_vars

(* Every tool call that waits for the lock or fetches gets its verdict, or *)
(* was given up by its client.                                             *)
ResolveReturns == \A c \in Caller : ~Ended(c) ~> Ended(c)

(* refresh_user_access: "you need the new permissions to take effect       *)
(* immediately"; "Next tool call will re-fetch from AppDynamics RBAC."     *)
RefreshTakesEffect ==
    [][\A c \in Caller : Decides(c) => basis'[call'[c].user].epoch >= call'[c].since]_vars

(* The empty frozenset "causes all per-app tool calls to raise             *)
(* PermissionError".                                                       *)
EmptySetDenies ==
    [][\A c \in Caller : Decides(c) /\ cache'[call'[c].user].apps = {} => call'[c].pc = "denied"]_vars
=============================================================================
