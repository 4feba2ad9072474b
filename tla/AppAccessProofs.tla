--------------------------- MODULE AppAccessProofs ---------------------------
(***************************************************************************)
(* Theorems about AppAccess for every graph of grants, every set of        *)
(* callers and users and every TTL.  LockInv says who may fetch, DataInv   *)
(* relates what a fetch has found so far to the grants that held at some   *)
(* moment of it and to those that held throughout.                         *)
(***************************************************************************)
EXTENDS AppAccess, SequenceTheorems, TLAPS

(* A task that fetches owns the lock, and what it will replace is stale.   *)
LockInv ==
    \A c \in Caller : call[c].pc \in Fetching =>
        owner[call[c].user] = c /\ ~Unexpired(cache[call[c].user], now)

UserStage(k) ==
    /\ k.pending \subseteq {k.user}
    /\ k.found \subseteq Targets(k.window.some, k.user)
    /\ ~k.window.failed => k.user \in k.pending \/ Targets(k.window.always, k.user) \subseteq k.found

GroupStage(k) ==
    /\ k.pending \subseteq {grp \in Group : <<k.user, grp>> \in k.window.some}
    /\ k.found \subseteq RolesOf(k.window.some, k.user)
    /\ ~k.window.failed =>
          \A r \in Role :
              /\ <<k.user, r>> \in k.window.always => r \in k.found
              /\ \A grp \in Group :
                    <<k.user, grp>> \in k.window.always /\ <<grp, r>> \in k.window.always
                    => r \in k.found \/ grp \in k.pending

RoleStage(k) ==
    /\ k.pending \subseteq RolesOf(k.window.some, k.user)
    /\ k.found \subseteq Accessible(k.window.some, k.user)
    /\ ~k.window.failed =>
          \A r \in RolesOf(k.window.always, k.user), a \in App :
              <<r, a>> \in k.window.always => a \in k.found \/ r \in k.pending

StageInv(k) ==
    /\ k.pc = "user" => UserStage(k)
    /\ k.pc = "groups" => GroupStage(k)
    /\ k.pc = "roles" => RoleStage(k)

DataInv ==
    \A c \in Caller : call[c].pc \in Fetching =>
        /\ call[c].window.always \subseteq grants
        /\ grants \subseteq call[c].window.some
        /\ StageInv(call[c])

AccessInv == TypeOK /\ LockInv /\ DataInv /\ CachedBetween

-----------------------------------------------------------------------------
LEMMA RemoveAtType ==
    ASSUME NEW S, NEW s \in Seq(S), NEW i \in DOMAIN s
    PROVE  RemoveAt(s, i) \in Seq(S)
<1>1. i \in Int /\ i >= 1 /\ i <= Len(s) /\ Len(s) \in Nat
  BY LenProperties
<1>2. SubSeq(s, 1, i-1) \in Seq(S)
  <2>1. \A j \in 1..(i-1) : s[j] \in S
    BY <1>1, ElementOfSeq
  <2> QED BY <1>1, <2>1, SubSeqProperties
<1>3. SubSeq(s, i+1, Len(s)) \in Seq(S)
  <2>1. \A j \in (i+1)..Len(s) : s[j] \in S
    BY <1>1, ElementOfSeq
  <2> QED BY <1>1, <2>1, SubSeqProperties
<1> QED BY <1>2, <1>3, ConcatProperties DEF RemoveAt

(* More grants give access to more.                                        *)
LEMMA GraphMono ==
    ASSUME NEW g, NEW h, g \subseteq h, NEW u
    PROVE  /\ Targets(g, u) \subseteq Targets(h, u)
           /\ RolesOf(g, u) \subseteq RolesOf(h, u)
           /\ Accessible(g, u) \subseteq Accessible(h, u)
BY DEF Targets, RolesOf, Accessible

(* What the controller can name, by the kind of node.                      *)
LEMMA TargetKinds ==
    ASSUME NEW g \in SUBSET Edge
    PROVE  /\ \A n : Targets(g, n) \subseteq Node
           /\ \A u \in User : Targets(g, u) \subseteq Role \cup Group
           /\ \A grp \in Group : Targets(g, grp) \subseteq Role
           /\ \A r \in Role : Targets(g, r) \subseteq App
BY EdgeAssumption, NodeAssumption DEF Targets, Node

-----------------------------------------------------------------------------
(* Types                                                                   *)

LEMMA DecidedType ==
    ASSUME NEW k \in Call, NEW s
    PROVE  /\ Decided(k, s) \in Call
           /\ Decided(k, s).pc \in {"denied", "admitted"}
           /\ Decided(k, s).user = k.user
BY DEF Decided, Call, Window, NoWindow, Pc

LEMMA ResolveType ==
    ASSUME TypeOK, NEW c \in Caller, NEW k \in Call, Resolve(c, k)
    PROVE  /\ cache' = cache
           /\ owner' \in [User -> Caller \cup {None}]
           /\ call' \in [Caller -> Call]
<1>1. k.user \in User /\ k.user \in Node
  BY DEF Call, Node
<1>2. CASE owner' = owner /\ call' = [call EXCEPT ![c] = Decided(k, cache[k.user].apps)]
  <2>1. Decided(k, cache[k.user].apps) \in Call
    BY DecidedType
  <2> QED BY <1>2, <2>1 DEF TypeOK, Resolve
<1>3. CASE /\ owner' = [owner EXCEPT ![k.user] = c]
           /\ call' = [call EXCEPT ![c] = [k EXCEPT !.pc = "user", !.pending = {k.user}, !.found = {},
                                                    !.window = NewWindow(k.user)]]
  <2>1. NewWindow(k.user) \in Window
    BY <1>1 DEF TypeOK, NewWindow, Window
  <2>2. [k EXCEPT !.pc = "user", !.pending = {k.user}, !.found = {},
                !.window = NewWindow(k.user)] \in Call
    <3>1. {k.user} \in SUBSET Node /\ "user" \in Pc
      BY <1>1 DEF Pc
    <3> DEFINE w == NewWindow(k.user)
               p == {k.user}
    <3>2. w \in Window /\ p \in SUBSET Node
      BY <2>1, <3>1
    <3> HIDE DEF w, p
    <3>3. [k EXCEPT !.pc = "user", !.pending = p, !.found = {}, !.window = w] \in Call
      BY <3>1, <3>2 DEF Call
    <3> QED BY <3>3 DEF w, p
  <2> QED BY <1>1, <1>3, <2>2 DEF TypeOK, Resolve
<1> QED BY <1>2, <1>3 DEF Resolve

LEMMA NewCallType ==
    ASSUME TypeOK, NEW u \in User, NEW a \in App
    PROVE  /\ NewCall(u, a) \in Call
           /\ [NewCall(u, a) EXCEPT !.pc = "lock"] \in Call
           /\ NewCall(u, a).user = u
BY DEF TypeOK, NewCall, Call, Pc, Window, NoWindow

LEMMA InitType == Init => TypeOK
<1> SUFFICES ASSUME Init PROVE TypeOK
  OBVIOUS
<1>1. NoWindow \in Window
  BY DEF NoWindow, Window
<1>2. \A u \in User, a \in App :
         [pc |-> "idle", user |-> u, app |-> a, pending |-> {}, found |-> {},
          since |-> 0, quiet |-> 0, window |-> NoWindow] \in Call
  BY <1>1 DEF Call, Pc
<1>3. call \in [Caller -> Call]
  BY <1>2 DEF Init
<1>4. cache \in [User -> [held : BOOLEAN, apps : SUBSET App, at : Nat]]
  BY DEF Init, Absent
<1>5. waiters \in [User -> Seq(Caller)]
  BY EmptySeq DEF Init
<1> QED BY <1>1, <1>3, <1>4, <1>5, EdgeAssumption DEF Init, TypeOK

LEMMA BeginType == ASSUME TypeOK, NEW c \in Caller, Begin(c) PROVE TypeOK'
<1>1. PICK u \in User, a \in App :
        \/ /\ Resolve(c, NewCall(u, a))
           /\ UNCHANGED waiters
        \/ /\ waiters' = [waiters EXCEPT ![u] = Append(@, c)]
           /\ call' = [call EXCEPT ![c] = [NewCall(u, a) EXCEPT !.pc = "lock"]]
           /\ UNCHANGED <<cache, owner>>
  BY DEF Begin
<1>2. UNCHANGED <<now, grants, changes, refreshes, settled, basis>>
  BY DEF Begin
<1>3. CASE Resolve(c, NewCall(u, a)) /\ UNCHANGED waiters
  BY <1>2, <1>3, NewCallType, ResolveType DEF TypeOK
<1>4. CASE /\ waiters' = [waiters EXCEPT ![u] = Append(@, c)]
           /\ call' = [call EXCEPT ![c] = [NewCall(u, a) EXCEPT !.pc = "lock"]]
           /\ UNCHANGED <<cache, owner>>
  <2>1. Append(waiters[u], c) \in Seq(Caller)
    BY AppendProperties DEF TypeOK
  <2>2. waiters' \in [User -> Seq(Caller)]
    BY <1>4, <2>1 DEF TypeOK
  <2>3. call' \in [Caller -> Call]
    BY <1>4, NewCallType DEF TypeOK
  <2> QED BY <1>2, <1>4, <2>2, <2>3 DEF TypeOK
<1> QED BY <1>1, <1>3, <1>4

LEMMA EnterType == ASSUME TypeOK, NEW c \in Caller, Enter(c) PROVE TypeOK'
<1> DEFINE u == call[c].user
<1>1. /\ waiters[u] # <<>> /\ waiters' = [waiters EXCEPT ![u] = Tail(@)]
      /\ Resolve(c, call[c])
      /\ UNCHANGED <<now, grants, changes, refreshes, settled, basis>>
  BY DEF Enter
<1>2. u \in User /\ call[c] \in Call
  BY DEF TypeOK, Call
<1>3. Tail(waiters[u]) \in Seq(Caller)
  BY <1>1, <1>2, HeadTailProperties DEF TypeOK
<1>4. waiters' \in [User -> Seq(Caller)]
  BY <1>1, <1>3 DEF TypeOK
<1> QED BY <1>1, <1>2, <1>4, ResolveType DEF TypeOK

(* The requests of a fetch and the step from one stage to the next leave   *)
(* the other calls alone.                                                  *)
LEMMA AnswerCall ==
    ASSUME TypeOK, NEW c \in Caller, NEW n, Answer(c, n)
    PROVE  /\ call' \in [Caller -> Call]
           /\ call'[c] = [call[c] EXCEPT !.pending = @ \ {n}, !.found = @ \cup Targets(grants, n)]
           /\ \A d \in Caller \ {c} : call'[d] = call[d]
<1>1. call' = [call EXCEPT ![c] = [call[c] EXCEPT !.pending = @ \ {n},
                                                  !.found = @ \cup Targets(grants, n)]]
  BY DEF Answer, TypeOK
<1>2. call[c] \in Call /\ Targets(grants, n) \subseteq Node
  BY TargetKinds DEF TypeOK
<1>3. [call[c] EXCEPT !.pending = @ \ {n}, !.found = @ \cup Targets(grants, n)] \in Call
  BY <1>2 DEF Call
<1> QED BY <1>1, <1>3 DEF TypeOK

LEMMA FailCall ==
    ASSUME TypeOK, NEW c \in Caller, NEW n, RequestFails(c, n)
    PROVE  /\ call' \in [Caller -> Call]
           /\ call'[c] = [call[c] EXCEPT !.pending = @ \ {n},
                                         !.window = [@ EXCEPT !.failed = TRUE]]
           /\ \A d \in Caller \ {c} : call'[d] = call[d]
<1>1. call' = [call EXCEPT ![c] = [call[c] EXCEPT !.pending = @ \ {n},
                                                  !.window = [@ EXCEPT !.failed = TRUE]]]
  BY DEF RequestFails, TypeOK
<1>2. call[c] \in Call /\ call[c].window \in Window
  BY DEF TypeOK, Call
<1>3. [call[c].window EXCEPT !.failed = TRUE] \in Window
  BY <1>2 DEF Window
<1>4. [call[c] EXCEPT !.pending = @ \ {n}, !.window = [@ EXCEPT !.failed = TRUE]] \in Call
  BY <1>2, <1>3 DEF Call
<1> QED BY <1>1, <1>4 DEF TypeOK

LEMMA AskCall ==
    ASSUME TypeOK, NEW c \in Caller, NEW s \in SUBSET Node, NEW kept \in SUBSET Node,
           NEW stage \in Fetching, Ask(c, stage, s, kept)
    PROVE  /\ call' \in [Caller -> Call]
           /\ call'[c] = [call[c] EXCEPT !.pc = stage, !.pending = s, !.found = kept]
           /\ \A d \in Caller \ {c} : call'[d] = call[d]
           /\ UNCHANGED <<cache, owner, basis>>
<1>1. call' = [call EXCEPT ![c] = [call[c] EXCEPT !.pc = stage, !.pending = s, !.found = kept]]
  BY DEF Ask, TypeOK
<1>2. call[c] \in Call /\ stage \in Pc
  BY DEF TypeOK, Fetching, Pc
<1>3. [call[c] EXCEPT !.pc = stage, !.pending = s, !.found = kept] \in Call
  BY <1>2 DEF Call
<1> QED BY <1>1, <1>3 DEF TypeOK, Ask

LEMMA StoreCall ==
    ASSUME TypeOK, NEW c \in Caller, NEW s \in SUBSET App, Store(c, s)
    PROVE  /\ call' \in [Caller -> Call]
           /\ call'[c].pc \notin Fetching
           /\ \A d \in Caller \ {c} : call'[d] = call[d]
           /\ cache' \in [User -> [held : BOOLEAN, apps : SUBSET App, at : Nat]]
           /\ owner' \in [User -> Caller \cup {None}]
           /\ basis' \in [User -> Window]
<1> DEFINE u == call[c].user
<1>1. call[c] \in Call /\ call[c].window \in Window /\ u \in User
  BY DEF TypeOK, Call
<1>2. /\ cache' = [cache EXCEPT ![u] = Entry(s)]
      /\ owner' = [owner EXCEPT ![u] = None]
      /\ basis' = [basis EXCEPT ![u] = [call[c].window EXCEPT !.at = now]]
      /\ call' = [call EXCEPT ![c] = Decided(call[c], s)]
  BY DEF Store, TypeOK
<1>3. Entry(s) \in [held : BOOLEAN, apps : SUBSET App, at : Nat]
  BY DEF Entry, TypeOK
<1>4. [call[c].window EXCEPT !.at = now] \in Window
  BY <1>1 DEF Window, TypeOK
<1>5. Decided(call[c], s) \in Call /\ Decided(call[c], s).pc \in {"denied", "admitted"}
  BY <1>1, DecidedType
<1>6. call' \in [Caller -> Call] /\ call'[c] = Decided(call[c], s)
  BY <1>2, <1>5 DEF TypeOK
<1>7. cache' \in [User -> [held : BOOLEAN, apps : SUBSET App, at : Nat]]
  BY <1>1, <1>2, <1>3 DEF TypeOK
<1>8. owner' \in [User -> Caller \cup {None}] /\ basis' \in [User -> Window]
  BY <1>1, <1>2, <1>4 DEF TypeOK
<1>9. \A d \in Caller \ {c} : call'[d] = call[d]
  BY <1>2 DEF TypeOK
<1> QED BY <1>5, <1>6, <1>7, <1>8, <1>9 DEF Fetching

(* The alternatives of Collect, with the sets they ask for or store.       *)
LEMMA CollectCases ==
    ASSUME AccessInv, NEW c \in Caller, Collect(c)
    PROVE  LET k == call[c]
               groups == k.found \cap Group
               roles == k.found \cap Role
           IN  /\ k.pc \in Fetching /\ k.pending = {}
               /\ \/ k.pc = "user" /\ Ask(c, "groups", groups, roles)
                  \/ /\ k.pc = "groups" \/ (k.pc = "user" /\ groups = {})
                     /\ (roles = {} /\ Store(c, {})) \/ Ask(c, "roles", roles, {})
                  \/ k.pc = "roles" /\ Store(c, k.found)
               /\ UNCHANGED <<now, grants, changes, waiters, refreshes, settled>>
               /\ groups \in SUBSET Node /\ roles \in SUBSET Node
               /\ k.pc = "roles" => k.found \in SUBSET App
<1>1. call[c].pc = "roles" => call[c].found \in SUBSET App
  BY DEF AccessInv, DataInv, StageInv, RoleStage, Accessible, Fetching
<1> QED BY <1>1 DEF Collect, Node

LEMMA CollectType == ASSUME AccessInv, NEW c \in Caller, Collect(c) PROVE TypeOK'
<1> DEFINE k == call[c]
           groups == k.found \cap Group
           roles == k.found \cap Role
<1>1. /\ UNCHANGED <<now, grants, changes, waiters, refreshes, settled>>
      /\ groups \in SUBSET Node /\ roles \in SUBSET Node /\ {} \in SUBSET Node
      /\ "groups" \in Fetching /\ "roles" \in Fetching /\ TypeOK
  BY CollectCases DEF Fetching, AccessInv
<1>2. CASE Ask(c, "groups", groups, roles) \/ Ask(c, "roles", roles, {})
  BY <1>1, <1>2, AskCall DEF TypeOK
<1>3. ASSUME NEW s \in SUBSET App, Store(c, s) PROVE TypeOK'
  BY <1>1, <1>3, StoreCall DEF TypeOK
<1> QED BY <1>2, <1>3, CollectCases

LEMMA GivenUpCall ==
    ASSUME TypeOK, NEW c \in Caller, GivenUp(c)
    PROVE  /\ call' \in [Caller -> Call]
           /\ call'[c].pc \notin Fetching
           /\ \A d \in Caller \ {c} : call'[d] = call[d]
<1> DEFINE new == [call[c] EXCEPT !.pc = "idle", !.pending = {}, !.found = {},
                                  !.since = 0, !.quiet = 0, !.window = NoWindow]
<1>1. call' = [call EXCEPT ![c] = new]
  BY DEF GivenUp, TypeOK
<1>2. NoWindow \in Window /\ call[c] \in Call /\ "idle" \in Pc
  BY DEF NoWindow, Window, TypeOK, Pc
<1>3. new \in Call /\ new.pc = "idle"
  BY <1>2 DEF Call
<1> QED BY <1>1, <1>3 DEF TypeOK, Fetching

LEMMA CancelWaitingType == ASSUME TypeOK, NEW c \in Caller, CancelWaiting(c) PROVE TypeOK'
<1> DEFINE u == call[c].user
<1>1. /\ GivenUp(c)
      /\ UNCHANGED <<now, grants, changes, cache, owner, refreshes, settled, basis>>
  BY DEF CancelWaiting
<1>2. PICK i \in DOMAIN waiters[u] : waiters' = [waiters EXCEPT ![u] = RemoveAt(waiters[u], i)]
  BY DEF CancelWaiting, TypeOK
<1>3. u \in User
  BY DEF TypeOK, Call
<1>4. RemoveAt(waiters[u], i) \in Seq(Caller)
  BY <1>3, RemoveAtType DEF TypeOK
<1>5. waiters' \in [User -> Seq(Caller)]
  BY <1>2, <1>4 DEF TypeOK
<1> QED BY <1>1, <1>5, GivenUpCall DEF TypeOK

LEMMA CancelFetchType == ASSUME TypeOK, NEW c \in Caller, CancelFetch(c) PROVE TypeOK'
<1>1. owner' \in [User -> Caller \cup {None}]
  BY DEF CancelFetch, TypeOK
<1> QED BY <1>1, GivenUpCall DEF CancelFetch, TypeOK

LEMMA RefreshType == ASSUME TypeOK, NEW u \in User, Refresh(u) PROVE TypeOK'
<1>1. Absent \in [held : BOOLEAN, apps : SUBSET App, at : Nat]
  BY DEF Absent
<1>2. cache' \in [User -> [held : BOOLEAN, apps : SUBSET App, at : Nat]]
  BY <1>1 DEF Refresh, TypeOK
<1>3. refreshes' \in [User -> Nat] /\ settled' \in [User -> Nat]
  BY DEF Refresh, TypeOK
<1> QED BY <1>2, <1>3 DEF Refresh, TypeOK, lockVars

(* The windows of the fetches in flight follow the graph.                  *)
LEMMA ChangeCall ==
    ASSUME TypeOK, NEW e \in Edge, Change(e), NEW c \in Caller
    PROVE  /\ call'[c] \in Call
           /\ call[c].pc \notin Fetching => call'[c] = call[c]
           /\ call[c].pc \in Fetching =>
                call'[c] = [call[c] EXCEPT !.window = Edited(call[c].window, e)]
<1> DEFINE w == Edited(call[c].window, e)
<1>1. call[c] \in Call /\ call[c].window \in Window
  BY DEF TypeOK, Call
<1>2. w \in Window
  BY <1>1 DEF Window, Edited
<1>3. [call[c] EXCEPT !.window = w] \in Call
  <2> HIDE DEF w
  <2> QED BY <1>1, <1>2 DEF Call
<1>4. call'[c] = IF call[c].pc \in Fetching THEN [call[c] EXCEPT !.window = w] ELSE call[c]
  BY <1>1 DEF Change, Call
<1> QED BY <1>1, <1>3, <1>4

LEMMA ChangeType == ASSUME TypeOK, NEW e \in Edge, Change(e) PROVE TypeOK'
<1> DEFINE new(c) == IF call[c].pc \in Fetching
                     THEN [call[c] EXCEPT !.window = Edited(@, e)] ELSE call[c]
<1>1. call' = [c \in Caller |-> new(c)]
  BY DEF Change
<1>2. ASSUME NEW c \in Caller PROVE new(c) \in Call
  <2>1. call'[c] = new(c)
    BY <1>1
  <2> QED BY <2>1, ChangeCall
<1>3. call' \in [Caller -> Call]
  <2> HIDE DEF new
  <2> QED BY <1>1, <1>2
<1> QED BY <1>3 DEF Change, TypeOK, lockVars

LEMMA AccessType == AccessInv /\ [Next]_vars => TypeOK'
<1> SUFFICES ASSUME AccessInv, [Next]_vars PROVE TypeOK'
  OBVIOUS
<1>0. TypeOK
  BY DEF AccessInv
<1>1. ASSUME NEW c \in Caller, NEW n \in Node, Answer(c, n) PROVE TypeOK'
  BY <1>0, <1>1, AnswerCall DEF Answer, TypeOK, lockVars
<1>2. ASSUME NEW c \in Caller, NEW n \in Node, RequestFails(c, n) PROVE TypeOK'
  BY <1>0, <1>2, FailCall DEF RequestFails, TypeOK, lockVars
<1>3. CASE Tick
  BY <1>0, <1>3 DEF Tick, TypeOK, lockVars
<1>4. CASE UNCHANGED vars
  BY <1>0, <1>4 DEF vars, TypeOK, lockVars
<1> QED BY <1>0, <1>1, <1>2, <1>3, <1>4, BeginType, EnterType, CollectType, CancelWaitingType,
           CancelFetchType, RefreshType, ChangeType DEF Next

-----------------------------------------------------------------------------
(* A call that resolve decides or that starts a fetch while nobody holds   *)
(* the lock.                                                               *)
LEMMA ResolveInv ==
    ASSUME AccessInv, NEW c \in Caller, call[c].pc \notin Fetching, NEW k \in Call,
           Resolve(c, k), owner[k.user] = None, UNCHANGED <<now, grants, basis>>
    PROVE  LockInv' /\ DataInv' /\ CachedBetween'
<1>0. TypeOK /\ LockInv /\ DataInv /\ CachedBetween /\ k.user \in User
  BY DEF AccessInv, Call
<1>1. cache' = cache /\ call' \in [Caller -> Call] /\ owner' \in [User -> Caller \cup {None}]
  BY <1>0, ResolveType
<1>2. CachedBetween'
  BY <1>0, <1>1 DEF CachedBetween
<1>3. cache' = cache /\ now' = now
  BY <1>1
<1>4. \A d \in Caller \ {c} : /\ call'[d] = call[d]
                              /\ call[d].pc \in Fetching => owner'[call[d].user] = owner[call[d].user]
  <2>1. \A d \in Caller \ {c} : call'[d] = call[d]
    BY <1>0 DEF Resolve, TypeOK
  <2> SUFFICES ASSUME NEW d \in Caller \ {c}, call[d].pc \in Fetching
               PROVE  owner'[call[d].user] = owner[call[d].user]
    BY <2>1
  <2>2. owner[call[d].user] = d /\ d # None /\ call[d].user \in User
    BY <1>0, NodeAssumption DEF LockInv, TypeOK, Call
  <2>3. call[d].user # k.user
    BY <2>2
  <2> QED BY <1>0, <2>2, <2>3 DEF Resolve, TypeOK
<1>5. CASE call' = [call EXCEPT ![c] = Decided(k, cache[k.user].apps)]
  <2>1. call'[c].pc \notin Fetching
    <3>1. call'[c] = Decided(k, cache[k.user].apps)
      BY <1>0, <1>5 DEF TypeOK
    <3> QED BY <3>1, DecidedType DEF Fetching
  <2>2. LockInv'
    <3> SUFFICES ASSUME NEW d \in Caller, call'[d].pc \in Fetching
                 PROVE  owner'[call'[d].user] = d /\ ~Unexpired(cache'[call'[d].user], now')
      BY DEF LockInv
    <3>1. d # c /\ call'[d] = call[d] /\ call[d].user \in User
      BY <2>1, <1>0, <1>4 DEF TypeOK, Call
    <3> QED BY <3>1, <1>0, <1>3, <1>4 DEF LockInv
  <2>3. DataInv'
    <3> SUFFICES ASSUME NEW d \in Caller, call'[d].pc \in Fetching
                 PROVE  /\ call'[d].window.always \subseteq grants'
                        /\ grants' \subseteq call'[d].window.some
                        /\ StageInv(call'[d])
      BY DEF DataInv
    <3>1. d # c /\ call'[d] = call[d]
      BY <2>1, <1>4
    <3> QED BY <3>1, <1>0 DEF DataInv
  <2> QED BY <1>2, <2>2, <2>3
<1>6. CASE /\ ~Unexpired(cache[k.user], now)
           /\ owner' = [owner EXCEPT ![k.user] = c]
           /\ call' = [call EXCEPT ![c] = [k EXCEPT !.pc = "user", !.pending = {k.user}, !.found = {},
                                                    !.window = NewWindow(k.user)]]
  <2>1. /\ call'[c].pc = "user" /\ call'[c].user = k.user /\ call'[c].pending = {k.user}
        /\ call'[c].found = {} /\ call'[c].window = NewWindow(k.user)
    <3>1. call'[c] = [k EXCEPT !.pc = "user", !.pending = {k.user}, !.found = {},
                               !.window = NewWindow(k.user)]
      BY <1>0, <1>6 DEF TypeOK
    <3> QED BY <3>1 DEF Call
  <2>2. LockInv'
    <3> SUFFICES ASSUME NEW d \in Caller, call'[d].pc \in Fetching
                 PROVE  owner'[call'[d].user] = d /\ ~Unexpired(cache'[call'[d].user], now')
      BY DEF LockInv
    <3>1. CASE d = c
      BY <3>1, <2>1, <1>0, <1>3, <1>6 DEF TypeOK
    <3>2. CASE d # c
      <4>1. call'[d] = call[d] /\ call[d].user \in User
        BY <3>2, <1>0, <1>4 DEF TypeOK, Call
      <4> QED BY <3>2, <4>1, <1>0, <1>3, <1>4 DEF LockInv
    <3> QED BY <3>1, <3>2
  <2>3. DataInv'
    <3> SUFFICES ASSUME NEW d \in Caller, call'[d].pc \in Fetching
                 PROVE  /\ call'[d].window.always \subseteq grants'
                        /\ grants' \subseteq call'[d].window.some
                        /\ StageInv(call'[d])
      BY DEF DataInv
    <3>1. CASE d = c
      <4>1. call'[d].window.always = grants /\ call'[d].window.some = grants
        BY <3>1, <2>1 DEF NewWindow
      <4>2. StageInv(call'[d])
        BY <3>1, <2>1 DEF StageInv, UserStage
      <4> QED BY <4>1, <4>2
    <3>2. CASE d # c
      BY <3>2, <1>0, <1>4 DEF DataInv
    <3> QED BY <3>1, <3>2
  <2> QED BY <1>2, <2>2, <2>3
<1> QED BY <1>5, <1>6 DEF Resolve, Fresh

(* Steps that change one call, which does not fetch afterwards or keeps    *)
(* its stage invariant, and nothing the other fetches depend on.           *)
LEMMA OneCallInv ==
    ASSUME AccessInv, NEW c \in Caller, UNCHANGED <<now, grants, cache, basis>>,
           call' \in [Caller -> Call],
           \A d \in Caller \ {c} : call'[d] = call[d],
           \A u \in User : owner[u] \in Caller \ {c} => owner'[u] = owner[u],
           call'[c].pc \in Fetching =>
               /\ call[c].pc \in Fetching /\ call'[c].user = call[c].user
               /\ owner' = owner
               /\ call'[c].window.always = call[c].window.always
               /\ call'[c].window.some = call[c].window.some
               /\ StageInv(call'[c])
    PROVE  LockInv' /\ DataInv' /\ CachedBetween'
<1>0. TypeOK /\ LockInv /\ DataInv /\ CachedBetween
  BY DEF AccessInv
<1>1. CachedBetween'
  BY <1>0 DEF CachedBetween
<1>2. cache' = cache /\ now' = now
  OBVIOUS
<1>3. \A d \in Caller : call[d].user \in User
  BY <1>0 DEF TypeOK, Call
<1>4. LockInv'
  <2> SUFFICES ASSUME NEW d \in Caller, call'[d].pc \in Fetching
               PROVE  owner'[call'[d].user] = d /\ ~Unexpired(cache'[call'[d].user], now')
    BY DEF LockInv
  <2>1. CASE d = c
    BY <2>1, <1>0, <1>2, <1>3 DEF LockInv
  <2>2. CASE d # c
    BY <2>2, <1>0, <1>2, <1>3 DEF LockInv
  <2> QED BY <2>1, <2>2
<1>5. DataInv'
  <2> SUFFICES ASSUME NEW d \in Caller, call'[d].pc \in Fetching
               PROVE  /\ call'[d].window.always \subseteq grants'
                      /\ grants' \subseteq call'[d].window.some
                      /\ StageInv(call'[d])
    BY DEF DataInv
  <2>1. CASE d = c
    BY <2>1, <1>0 DEF DataInv
  <2>2. CASE d # c
    BY <2>2, <1>0 DEF DataInv
  <2> QED BY <2>1, <2>2
<1> QED BY <1>1, <1>4, <1>5

LEMMA BeginInv ==
    ASSUME AccessInv, NEW c \in Caller, Begin(c) PROVE LockInv' /\ DataInv' /\ CachedBetween'
<1>0. TypeOK /\ call[c].pc \notin Fetching
  BY DEF AccessInv, Begin, Ended, Fetching
<1>1. PICK u \in User, a \in App :
        \/ owner[u] = None /\ Resolve(c, NewCall(u, a))
        \/ /\ call' = [call EXCEPT ![c] = [NewCall(u, a) EXCEPT !.pc = "lock"]]
           /\ UNCHANGED <<cache, owner>>
  BY DEF Begin
<1>2. UNCHANGED <<now, grants, basis>>
  BY DEF Begin
<1>3. CASE owner[u] = None /\ Resolve(c, NewCall(u, a))
  BY <1>0, <1>2, <1>3, NewCallType, ResolveInv
<1>4. CASE /\ call' = [call EXCEPT ![c] = [NewCall(u, a) EXCEPT !.pc = "lock"]]
           /\ UNCHANGED <<cache, owner>>
  <2>1. call' \in [Caller -> Call] /\ \A d \in Caller \ {c} : call'[d] = call[d]
    BY <1>0, <1>4, NewCallType DEF TypeOK
  <2>2. call'[c].pc \notin Fetching
    BY <1>0, <1>4 DEF TypeOK, NewCall, Fetching
  <2> QED BY <1>2, <1>4, <2>1, <2>2, OneCallInv
<1> QED BY <1>1, <1>3, <1>4

LEMMA EnterInv ==
    ASSUME AccessInv, NEW c \in Caller, Enter(c) PROVE LockInv' /\ DataInv' /\ CachedBetween'
<1>1. /\ call[c].pc \notin Fetching /\ owner[call[c].user] = None /\ Resolve(c, call[c])
      /\ UNCHANGED <<now, grants, basis>>
  BY DEF Enter, Fetching
<1>2. call[c] \in Call
  BY DEF AccessInv, TypeOK
<1> QED BY <1>1, <1>2, ResolveInv

(* What an answer adds to a fetch, by its stage.                           *)
LEMMA AnswerStage ==
    ASSUME AccessInv, NEW c \in Caller, call[c].pc \in Fetching,
           NEW n \in call[c].pending, NEW k \in Call,
           k = [call[c] EXCEPT !.pending = @ \ {n}, !.found = @ \cup Targets(grants, n)]
    PROVE  StageInv(k)
<1> DEFINE o == call[c]
           some == o.window.some
           always == o.window.always
<1>1. /\ always \subseteq grants /\ grants \subseteq some /\ grants \in SUBSET Edge
      /\ o \in Call /\ o.user \in User /\ StageInv(o)
  BY DEF AccessInv, DataInv, TypeOK, Call
<1>2. /\ k.pc = o.pc /\ k.user = o.user /\ k.window = o.window
      /\ k.pending = o.pending \ {n} /\ k.found = o.found \cup Targets(grants, n)
  BY <1>1 DEF Call
<1> HIDE DEF o
<1>3. n \in o.pending
  BY DEF o
<1>4. CASE o.pc = "user"
  <2>1. UserStage(o) /\ n = o.user
    BY <1>1, <1>3, <1>4 DEF StageInv, UserStage
  <2>2. Targets(always, n) \subseteq Targets(grants, n) /\ Targets(grants, n) \subseteq Targets(some, n)
    BY <1>1, GraphMono
  <2>3. UserStage(k)
    BY <1>2, <2>1, <2>2 DEF UserStage
  <2> QED BY <1>2, <1>4, <2>3 DEF StageInv
<1>5. CASE o.pc = "groups"
  <2>1. GroupStage(o)
    BY <1>1, <1>5 DEF StageInv
  <2>2. n \in Group /\ <<o.user, n>> \in some
    BY <1>3, <2>1 DEF GroupStage
  <2>3. Targets(grants, n) \subseteq RolesOf(some, o.user)
    <3> SUFFICES ASSUME NEW r \in Targets(grants, n) PROVE r \in RolesOf(some, o.user)
      OBVIOUS
    <3>1. r \in Role /\ <<n, r>> \in some
      BY <1>1, <2>2, TargetKinds DEF Targets
    <3> QED BY <2>2, <3>1 DEF RolesOf
  <2>4. ASSUME ~o.window.failed, NEW r \in Role
        PROVE  /\ <<o.user, r>> \in always => r \in k.found
               /\ \A grp \in Group :
                     <<o.user, grp>> \in always /\ <<grp, r>> \in always
                     => r \in k.found \/ grp \in k.pending
    <3>1. /\ <<o.user, r>> \in always => r \in o.found
          /\ \A grp \in Group :
                <<o.user, grp>> \in always /\ <<grp, r>> \in always
                => r \in o.found \/ grp \in o.pending
      BY <2>1, <2>4 DEF GroupStage
    <3>2. <<n, r>> \in always => r \in Targets(grants, n)
      BY <1>1 DEF Targets, Node
    <3> QED BY <1>2, <3>1, <3>2
  <2>5. GroupStage(k)
    BY <1>2, <2>1, <2>3, <2>4 DEF GroupStage
  <2> QED BY <1>2, <1>5, <2>5 DEF StageInv
<1>6. CASE o.pc = "roles"
  <2>1. RoleStage(o)
    BY <1>1, <1>6 DEF StageInv
  <2>2. n \in Role /\ n \in RolesOf(some, o.user)
    BY <1>3, <2>1 DEF RoleStage, RolesOf
  <2>3. Targets(grants, n) \subseteq Accessible(some, o.user)
    <3> SUFFICES ASSUME NEW a \in Targets(grants, n) PROVE a \in Accessible(some, o.user)
      OBVIOUS
    <3>1. a \in App /\ <<n, a>> \in some
      BY <1>1, <2>2, TargetKinds DEF Targets
    <3> QED BY <2>2, <3>1 DEF Accessible
  <2>4. ASSUME ~o.window.failed, NEW r \in RolesOf(always, o.user), NEW a \in App, <<r, a>> \in always
        PROVE  a \in k.found \/ r \in k.pending
    <3>1. a \in o.found \/ r \in o.pending
      BY <2>1, <2>4 DEF RoleStage
    <3>2. CASE r = n
      BY <1>1, <1>2, <2>4, <3>2 DEF Targets, Node
    <3> QED BY <1>2, <3>1, <3>2
  <2>5. RoleStage(k)
    BY <1>2, <2>1, <2>3, <2>4 DEF RoleStage
  <2> QED BY <1>2, <1>6, <2>5 DEF StageInv
<1> QED BY <1>4, <1>5, <1>6 DEF Fetching, o

LEMMA AnswerInv ==
    ASSUME AccessInv, NEW c \in Caller, NEW n, Answer(c, n)
    PROVE  LockInv' /\ DataInv' /\ CachedBetween'
<1>1. /\ call[c].pc \in Fetching /\ n \in call[c].pending /\ TypeOK /\ call[c] \in Call
      /\ UNCHANGED <<now, grants, cache, basis, owner>>
  BY DEF Answer, AccessInv, TypeOK, lockVars
<1>2. /\ call' \in [Caller -> Call]
      /\ call'[c] = [call[c] EXCEPT !.pending = @ \ {n}, !.found = @ \cup Targets(grants, n)]
      /\ \A d \in Caller \ {c} : call'[d] = call[d]
  BY <1>1, AnswerCall
<1>3. StageInv(call'[c])
  BY <1>1, <1>2, AnswerStage
<1>4. call'[c].user = call[c].user /\ call'[c].window = call[c].window
  BY <1>1, <1>2 DEF Call
<1> QED BY <1>1, <1>2, <1>3, <1>4, OneCallInv

(* After a failed request nothing is claimed from below.                   *)
LEMMA FailInv ==
    ASSUME AccessInv, NEW c \in Caller, NEW n, RequestFails(c, n)
    PROVE  LockInv' /\ DataInv' /\ CachedBetween'
<1>1. /\ call[c].pc \in Fetching /\ TypeOK /\ call[c] \in Call /\ call[c].window \in Window
      /\ UNCHANGED <<now, grants, cache, basis, owner>>
  BY DEF RequestFails, AccessInv, TypeOK, lockVars, Call
<1>2. /\ call' \in [Caller -> Call]
      /\ call'[c] = [call[c] EXCEPT !.pending = @ \ {n}, !.window = [@ EXCEPT !.failed = TRUE]]
      /\ \A d \in Caller \ {c} : call'[d] = call[d]
  BY <1>1, FailCall
<1>3. /\ call'[c].pc = call[c].pc /\ call'[c].user = call[c].user /\ call'[c].found = call[c].found
      /\ call'[c].pending \subseteq call[c].pending
      /\ call'[c].window = [call[c].window EXCEPT !.failed = TRUE]
  BY <1>1, <1>2 DEF Call
<1>4. /\ call'[c].window.some = call[c].window.some /\ call'[c].window.always = call[c].window.always
      /\ call'[c].window.failed = TRUE
  BY <1>1, <1>3 DEF Window
<1>5. StageInv(call[c])
  BY <1>1 DEF AccessInv, DataInv
<1>6. StageInv(call'[c])
  <2>1. UserStage(call[c]) => UserStage(call'[c])
    BY <1>3, <1>4 DEF UserStage
  <2>2. GroupStage(call[c]) => GroupStage(call'[c])
    BY <1>3, <1>4 DEF GroupStage
  <2>3. RoleStage(call[c]) => RoleStage(call'[c])
    BY <1>3, <1>4 DEF RoleStage
  <2> QED BY <1>3, <1>5, <2>1, <2>2, <2>3 DEF StageInv
<1> QED BY <1>1, <1>2, <1>3, <1>4, <1>6, OneCallInv

(* Going on to the next stage, whose invariant holds at the start.         *)
LEMMA AskInv ==
    ASSUME AccessInv, NEW c \in Caller, call[c].pc \in Fetching,
           NEW stage \in Fetching, NEW s \in SUBSET Node, NEW kept \in SUBSET Node,
           Ask(c, stage, s, kept), UNCHANGED <<now, grants>>,
           StageInv([call[c] EXCEPT !.pc = stage, !.pending = s, !.found = kept])
    PROVE  LockInv' /\ DataInv' /\ CachedBetween'
<1>1. TypeOK /\ call[c] \in Call
  BY DEF AccessInv, TypeOK
<1>2. /\ call' \in [Caller -> Call]
      /\ call'[c] = [call[c] EXCEPT !.pc = stage, !.pending = s, !.found = kept]
      /\ \A d \in Caller \ {c} : call'[d] = call[d]
      /\ UNCHANGED <<cache, owner, basis>>
  BY <1>1, AskCall
<1>3. call'[c].user = call[c].user /\ call'[c].window = call[c].window /\ StageInv(call'[c])
  BY <1>1, <1>2 DEF Call
<1> QED BY <1>2, <1>3, OneCallInv

(* Storing a set that is between the two readings of the graph.            *)
LEMMA StoreInv ==
    ASSUME AccessInv, NEW c \in Caller, call[c].pc \in Fetching, NEW s \in SUBSET App,
           Store(c, s), UNCHANGED <<now, grants>>,
           s \subseteq Accessible(call[c].window.some, call[c].user),
           ~call[c].window.failed => Accessible(call[c].window.always, call[c].user) \subseteq s
    PROVE  LockInv' /\ DataInv' /\ CachedBetween'
<1> DEFINE u == call[c].user
<1>1. TypeOK /\ LockInv /\ DataInv /\ CachedBetween /\ call[c] \in Call /\ u \in User
      /\ call[c].window \in Window
  BY DEF AccessInv, TypeOK, Call
<1>2. /\ call'[c].pc \notin Fetching
      /\ \A d \in Caller \ {c} : call'[d] = call[d]
  BY <1>1, StoreCall
<1>3. /\ cache' = [cache EXCEPT ![u] = Entry(s)]
      /\ owner' = [owner EXCEPT ![u] = None]
      /\ basis' = [basis EXCEPT ![u] = [call[c].window EXCEPT !.at = now]]
  BY DEF Store
<1>4. ASSUME NEW d \in Caller, call'[d].pc \in Fetching
      PROVE  /\ d # c /\ call'[d] = call[d] /\ call[d].user \in User /\ call[d].user # u
  <2>1. d # c /\ call'[d] = call[d]
    BY <1>2, <1>4
  <2>2. owner[call[d].user] = d /\ owner[u] = c
    BY <1>1, <1>4, <2>1 DEF LockInv
  <2> QED BY <1>1, <2>1, <2>2 DEF TypeOK, Call
<1>5. LockInv'
  <2> SUFFICES ASSUME NEW d \in Caller, call'[d].pc \in Fetching
               PROVE  owner'[call'[d].user] = d /\ ~Unexpired(cache'[call'[d].user], now')
    BY DEF LockInv
  <2>1. owner'[call[d].user] = owner[call[d].user] /\ cache'[call[d].user] = cache[call[d].user]
    BY <1>1, <1>3, <1>4 DEF TypeOK
  <2> QED BY <1>1, <1>4, <2>1 DEF LockInv
<1>6. DataInv'
  <2> SUFFICES ASSUME NEW d \in Caller, call'[d].pc \in Fetching
               PROVE  /\ call'[d].window.always \subseteq grants'
                      /\ grants' \subseteq call'[d].window.some
                      /\ StageInv(call'[d])
    BY DEF DataInv
  <2> QED BY <1>1, <1>4 DEF DataInv
<1>7. CachedBetween'
  <2> SUFFICES ASSUME NEW v \in User, cache'[v].held
               PROVE  /\ cache'[v].apps \subseteq Accessible(basis'[v].some, v)
                      /\ ~basis'[v].failed => Accessible(basis'[v].always, v) \subseteq cache'[v].apps
    BY DEF CachedBetween
  <2>1. CASE v = u
    <3>1. cache'[v].apps = s
      BY <2>1, <1>1, <1>3 DEF TypeOK, Entry
    <3>2. basis'[v] = [call[c].window EXCEPT !.at = now]
      BY <2>1, <1>1, <1>3 DEF TypeOK
    <3>3. /\ basis'[v].some = call[c].window.some /\ basis'[v].always = call[c].window.always
          /\ basis'[v].failed = call[c].window.failed
      BY <3>2, <1>1 DEF Window
    <3> QED BY <2>1, <3>1, <3>3
  <2>2. CASE v # u
    <3>1. cache'[v] = cache[v] /\ basis'[v] = basis[v]
      BY <2>2, <1>1, <1>3 DEF TypeOK
    <3> QED BY <3>1, <1>1 DEF CachedBetween
  <2> QED BY <2>1, <2>2
<1> QED BY <1>5, <1>6, <1>7

LEMMA CollectInv ==
    ASSUME AccessInv, NEW c \in Caller, Collect(c)
    PROVE  LockInv' /\ DataInv' /\ CachedBetween'
<1> DEFINE k == call[c]
           some == k.window.some
           always == k.window.always
           groups == k.found \cap Group
           roles == k.found \cap Role
<1>1. /\ k.pc \in Fetching /\ k.pending = {}
      /\ UNCHANGED <<now, grants>>
      /\ groups \in SUBSET Node /\ roles \in SUBSET Node /\ {} \in SUBSET Node
      /\ "groups" \in Fetching /\ "roles" \in Fetching
      /\ k.pc = "roles" => k.found \in SUBSET App
  BY CollectCases DEF Fetching
<1>2. /\ TypeOK /\ k \in Call /\ k.user \in User /\ StageInv(k)
      /\ always \subseteq some /\ some \subseteq Edge /\ always \subseteq Edge
  BY <1>1 DEF AccessInv, DataInv, TypeOK, Call, Window
<1>3. \/ k.pc = "user" /\ Ask(c, "groups", groups, roles)
      \/ /\ k.pc = "groups" \/ (k.pc = "user" /\ groups = {})
         /\ (roles = {} /\ Store(c, {})) \/ Ask(c, "roles", roles, {})
      \/ k.pc = "roles" /\ Store(c, k.found)
  BY CollectCases
<1>4. CASE k.pc = "user" /\ Ask(c, "groups", groups, roles)
  <2> DEFINE n == [k EXCEPT !.pc = "groups", !.pending = groups, !.found = roles]
  <2>1. n.pc = "groups" /\ n.pending = groups /\ n.found = roles /\ n.user = k.user /\ n.window = k.window
    BY <1>2 DEF Call
  <2>2. UserStage(k)
    BY <1>2, <1>4 DEF StageInv
  <2>3. GroupStage(n)
    <3> HIDE DEF n
    <3>1. groups \subseteq {grp \in Group : <<k.user, grp>> \in some}
          /\ roles \subseteq RolesOf(some, k.user)
      BY <2>2 DEF UserStage, Targets, RolesOf
    <3>2. ~k.window.failed =>
             \A r \in Role :
                 /\ <<k.user, r>> \in always => r \in roles
                 /\ \A grp \in Group : <<k.user, grp>> \in always => grp \in groups
      BY <1>1, <2>2 DEF UserStage, Targets, Node
    <3> QED BY <2>1, <3>1, <3>2 DEF GroupStage
  <2>4. StageInv(n)
    BY <2>1, <2>3 DEF StageInv
  <2> QED BY <1>1, <1>4, <2>4, AskInv
<1>5. ASSUME k.pc = "groups" \/ (k.pc = "user" /\ groups = {})
      PROVE  /\ roles \subseteq RolesOf(some, k.user)
             /\ ~k.window.failed => RolesOf(always, k.user) \subseteq roles
  <2>1. CASE k.pc = "groups"
    <3>1. GroupStage(k)
      BY <1>2, <2>1 DEF StageInv
    <3> QED BY <1>1, <3>1 DEF GroupStage, RolesOf
  <2>2. CASE k.pc = "user" /\ groups = {}
    <3>1. UserStage(k)
      BY <1>2, <2>2 DEF StageInv
    <3> QED BY <1>1, <2>2, <3>1 DEF UserStage, Targets, RolesOf, Node
  <2> QED BY <1>5, <2>1, <2>2
<1>6. CASE /\ k.pc = "groups" \/ (k.pc = "user" /\ groups = {})
           /\ roles = {} /\ Store(c, {})
  <2>1. ~k.window.failed => Accessible(always, k.user) = {}
    BY <1>5, <1>6 DEF Accessible
  <2> QED BY <1>1, <1>6, <2>1, StoreInv
<1>7. CASE /\ k.pc = "groups" \/ (k.pc = "user" /\ groups = {})
           /\ Ask(c, "roles", roles, {})
  <2> DEFINE n == [k EXCEPT !.pc = "roles", !.pending = roles, !.found = {}]
  <2>1. n.pc = "roles" /\ n.pending = roles /\ n.found = {} /\ n.user = k.user /\ n.window = k.window
    BY <1>2 DEF Call
  <2>2. RoleStage(n)
    <3> HIDE DEF n
    <3> QED BY <1>5, <1>7, <2>1 DEF RoleStage
  <2>3. StageInv(n)
    BY <2>1, <2>2 DEF StageInv
  <2> QED BY <1>1, <1>7, <2>3, AskInv
<1>8. CASE k.pc = "roles" /\ Store(c, k.found)
  <2>1. RoleStage(k)
    BY <1>2, <1>8 DEF StageInv
  <2>2. k.found \subseteq Accessible(some, k.user)
    BY <2>1 DEF RoleStage
  <2>3. ~k.window.failed => Accessible(always, k.user) \subseteq k.found
    BY <1>1, <2>1 DEF RoleStage, Accessible
  <2> QED BY <1>1, <1>8, <2>2, <2>3, StoreInv
<1> QED BY <1>3, <1>4, <1>6, <1>7, <1>8

LEMMA CancelInv ==
    ASSUME AccessInv, NEW c \in Caller, CancelWaiting(c) \/ CancelFetch(c)
    PROVE  LockInv' /\ DataInv' /\ CachedBetween'
<1>1. TypeOK /\ LockInv /\ GivenUp(c) /\ UNCHANGED <<now, grants, cache, basis>>
  BY DEF AccessInv, CancelWaiting, CancelFetch
<1>2. /\ call' \in [Caller -> Call]
      /\ call'[c].pc \notin Fetching
      /\ \A d \in Caller \ {c} : call'[d] = call[d]
  BY <1>1, GivenUpCall
<1>3. ASSUME NEW u \in User, owner[u] \in Caller \ {c} PROVE owner'[u] = owner[u]
  BY <1>1, <1>3 DEF CancelWaiting, CancelFetch, LockInv, TypeOK
<1> QED BY <1>1, <1>2, <1>3, OneCallInv

LEMMA RefreshInv ==
    ASSUME AccessInv, NEW u \in User, Refresh(u)
    PROVE  LockInv' /\ DataInv' /\ CachedBetween'
<1>1. /\ TypeOK /\ LockInv /\ DataInv /\ CachedBetween
      /\ cache' = [cache EXCEPT ![u] = Absent]
      /\ UNCHANGED <<now, grants, owner, call, basis>>
  BY DEF AccessInv, Refresh, lockVars
<1>2. \A v \in User : cache'[v] = cache[v] \/ cache'[v].held = FALSE
  BY <1>1 DEF TypeOK, Absent
<1>3. LockInv'
  BY <1>1, <1>2 DEF LockInv, Unexpired, TypeOK, Call
<1>4. DataInv'
  BY <1>1 DEF DataInv
<1>5. CachedBetween'
  BY <1>1, <1>2 DEF CachedBetween
<1> QED BY <1>3, <1>4, <1>5

(* An edit of the graph widens "some" and narrows "always".                *)
LEMMA ChangeInv ==
    ASSUME AccessInv, NEW e \in Edge, Change(e)
    PROVE  LockInv' /\ DataInv' /\ CachedBetween'
<1>1. /\ TypeOK /\ LockInv /\ DataInv /\ CachedBetween
      /\ grants' = grants \cup {e} \/ grants' = grants \ {e}
      /\ UNCHANGED <<now, cache, owner, basis>>
  BY DEF AccessInv, Change, lockVars
<1>2. ASSUME NEW c \in Caller
      PROVE  /\ call'[c].pc = call[c].pc /\ call'[c].user = call[c].user
             /\ call[c].pc \in Fetching =>
                  /\ call'[c].window.some = call[c].window.some \cup {e}
                  /\ call'[c].window.always = call[c].window.always \ {e}
                  /\ call'[c].window.failed = call[c].window.failed
                  /\ call'[c].pending = call[c].pending /\ call'[c].found = call[c].found
  <2>1. call[c] \in Call /\ call[c].window \in Window
    BY <1>1 DEF TypeOK, Call
  <2>2. CASE call[c].pc \notin Fetching
    BY <1>1, <2>2, ChangeCall
  <2>3. CASE call[c].pc \in Fetching
    <3>1. call'[c] = [call[c] EXCEPT !.window = Edited(call[c].window, e)]
      BY <1>1, <2>3, ChangeCall
    <3>2. call'[c].window = Edited(call[c].window, e)
      BY <2>1, <3>1 DEF Call
    <3> QED BY <2>1, <3>1, <3>2 DEF Call, Window, Edited
  <2> QED BY <2>2, <2>3
<1>3. LockInv'
  BY <1>1, <1>2 DEF LockInv
<1>4. CachedBetween'
  BY <1>1 DEF CachedBetween
<1>5. ASSUME NEW c \in Caller, call[c].pc \in Fetching PROVE StageInv(call'[c])
  <2> DEFINE o == call[c]
             k == call'[c]
  <2>1. StageInv(o)
    BY <1>1, <1>5 DEF DataInv
  <2>2. /\ k.pc = o.pc /\ k.user = o.user /\ k.pending = o.pending /\ k.found = o.found
        /\ k.window.failed = o.window.failed
        /\ o.window.some \subseteq k.window.some /\ k.window.always \subseteq o.window.always
    BY <1>2, <1>5
  <2> HIDE DEF o, k
  <2>3. /\ Targets(o.window.some, o.user) \subseteq Targets(k.window.some, o.user)
        /\ Targets(k.window.always, o.user) \subseteq Targets(o.window.always, o.user)
        /\ RolesOf(o.window.some, o.user) \subseteq RolesOf(k.window.some, o.user)
        /\ RolesOf(k.window.always, o.user) \subseteq RolesOf(o.window.always, o.user)
        /\ Accessible(o.window.some, o.user) \subseteq Accessible(k.window.some, o.user)
    <3>1. ASSUME NEW g, NEW h, g \subseteq h
          PROVE  /\ Targets(g, o.user) \subseteq Targets(h, o.user)
                 /\ RolesOf(g, o.user) \subseteq RolesOf(h, o.user)
                 /\ Accessible(g, o.user) \subseteq Accessible(h, o.user)
      BY <3>1, GraphMono
    <3>2. o.window.some \subseteq k.window.some /\ k.window.always \subseteq o.window.always
      BY <2>2
    <3>3. /\ Targets(o.window.some, o.user) \subseteq Targets(k.window.some, o.user)
          /\ RolesOf(o.window.some, o.user) \subseteq RolesOf(k.window.some, o.user)
          /\ Accessible(o.window.some, o.user) \subseteq Accessible(k.window.some, o.user)
      BY ONLY <3>1, <3>2
    <3>4. /\ Targets(k.window.always, o.user) \subseteq Targets(o.window.always, o.user)
          /\ RolesOf(k.window.always, o.user) \subseteq RolesOf(o.window.always, o.user)
      BY ONLY <3>1, <3>2
    <3> QED BY <3>3, <3>4
  <2>4. UserStage(o) => UserStage(k)
    BY <2>2, <2>3 DEF UserStage
  <2>5. GroupStage(o) => GroupStage(k)
    BY <2>2, <2>3 DEF GroupStage
  <2>6. RoleStage(o) => RoleStage(k)
    BY <2>2, <2>3 DEF RoleStage
  <2> QED BY <2>1, <2>2, <2>4, <2>5, <2>6 DEF StageInv, k, o
<1>6. DataInv'
  BY <1>1, <1>2, <1>5 DEF DataInv
<1> QED BY <1>3, <1>4, <1>6

(* Time only makes entries staler.                                         *)
LEMMA TickInv == AccessInv /\ Tick => LockInv' /\ DataInv' /\ CachedBetween'
<1> SUFFICES ASSUME AccessInv, Tick PROVE LockInv' /\ DataInv' /\ CachedBetween'
  OBVIOUS
<1>1. /\ TypeOK /\ LockInv /\ DataInv /\ CachedBetween /\ TTL \in Nat
      /\ now' = now + 1 /\ UNCHANGED <<grants, cache, owner, call, basis>>
  BY BoundAssumption DEF AccessInv, Tick, lockVars
<1>2. ASSUME NEW c \in Caller, call[c].pc \in Fetching
      PROVE  ~Unexpired(cache[call[c].user], now')
  <2>1. ~Unexpired(cache[call[c].user], now) /\ call[c].user \in User
    BY <1>1, <1>2 DEF LockInv, TypeOK, Call
  <2>2. cache[call[c].user].at \in Nat /\ now \in Nat
    BY <1>1, <2>1 DEF TypeOK
  <2> QED BY <1>1, <2>1, <2>2 DEF Unexpired
<1>3. LockInv'
  BY <1>1, <1>2 DEF LockInv
<1> QED BY <1>1, <1>3 DEF DataInv, CachedBetween

LEMMA AccessInit == Init => AccessInv
<1> SUFFICES ASSUME Init PROVE AccessInv
  OBVIOUS
<1>1. TypeOK
  BY InitType
<1>2. \A c \in Caller : call[c].pc = "idle"
  BY DEF Init
<1>3. \A u \in User : cache[u].held = FALSE
  BY DEF Init, Absent
<1> QED BY <1>1, <1>2, <1>3 DEF AccessInv, LockInv, DataInv, CachedBetween, Fetching

LEMMA AccessStep == AccessInv /\ [Next]_vars => AccessInv'
<1> SUFFICES ASSUME AccessInv, [Next]_vars PROVE AccessInv'
  OBVIOUS
<1>1. TypeOK'
  BY AccessType
<1>2. CASE UNCHANGED vars
  <2>1. UNCHANGED <<now, grants, cache, owner, call, basis>>
    BY <1>2 DEF vars, lockVars
  <2> QED BY <1>1, <2>1 DEF AccessInv, LockInv, DataInv, CachedBetween
<1>3. CASE Next
  <2>1. LockInv' /\ DataInv' /\ CachedBetween'
    BY <1>3, BeginInv, EnterInv, AnswerInv, FailInv, CollectInv, CancelInv, RefreshInv,
       ChangeInv, TickInv DEF Next
  <2> QED BY <1>1, <2>1 DEF AccessInv
<1> QED BY <1>2, <1>3

LEMMA AccessAlways == Spec => []AccessInv
BY AccessInit, AccessStep, PTL DEF Spec

-----------------------------------------------------------------------------
(* The lock, the cache and the calls of services/user_resolver.py stay     *)
(* well typed; in particular only application names are ever cached.       *)
THEOREM TypeCorrect == Spec => []TypeOK
BY AccessAlways, PTL DEF AccessInv

(* Whatever edits of the RBAC graph fall between the requests of a         *)
(* traversal: a cached set contains no application that the grants seen    *)
(* during the fetch would not reach, and, unless a request failed, every   *)
(* application that the grants kept throughout reach.                      *)
THEOREM CacheIsBetween == Spec => []CachedBetween
BY AccessAlways, PTL DEF AccessInv

(* No interleaving of calls, cancellations, refreshes and expiries makes   *)
(* two fetches of one UPN overwrite each other.                            *)
THEOREM NoDoubleFetch == Spec => StoresWhenStale
<1>1. AccessInv /\ [Next]_vars => [\A u \in User : basis'[u] # basis[u] => ~Fresh(u)]_vars
  <2> SUFFICES ASSUME AccessInv, Next, NEW u \in User, basis'[u] # basis[u] PROVE ~Fresh(u)
    OBVIOUS
  <2>1. TypeOK /\ LockInv
    BY DEF AccessInv
  <2>2. PICK c \in Caller : Collect(c)
    BY DEF Next, Begin, Enter, Answer, RequestFails, CancelWaiting, CancelFetch, Refresh, Change, Tick
  <2>3. call[c].pc \in Fetching /\ (basis' = basis \/ \E s : Store(c, s))
    BY <2>2 DEF Collect, Ask
  <2>4. u = call[c].user
    BY <2>1, <2>3 DEF Store, TypeOK, Call
  <2> QED BY <2>1, <2>3, <2>4 DEF LockInv, Fresh
<1> QED BY <1>1, AccessAlways, PTL DEF Spec, StoresWhenStale

-----------------------------------------------------------------------------
(* Epochs.  A fetch begins after every refresh that found none in flight,  *)
(* and a stored entry was fetched after every such refresh.                *)
CallEpoch(k) ==
    /\ k.quiet <= settled[k.user]
    /\ k.pc \in Fetching => settled[k.user] <= k.window.epoch
UserEpoch(u) ==
    /\ settled[u] <= refreshes[u]
    /\ cache[u].held => cache[u].at = basis[u].at /\ settled[u] <= basis[u].epoch
EpochInv ==
    /\ \A u \in User : UserEpoch(u)
    /\ \A c \in Caller : CallEpoch(call[c])

(* What the two properties ask of a decision.                              *)
SoundDecision(c) ==
    LET b == basis'[call'[c].user] IN
    /\ b.epoch >= call'[c].quiet
    /\ now - b.at < TTL \/ owner[call'[c].user] = c

(* TypeOK, as far as the epochs need it.                                   *)
LEMMA EpochTypes ==
    ASSUME AccessInv
    PROVE  /\ now \in Nat /\ TTL \in Nat
           /\ settled \in [User -> Nat] /\ refreshes \in [User -> Nat]
           /\ call \in [Caller -> Call]
           /\ \A k \in Call : /\ k.user \in User /\ k.quiet \in Nat
                              /\ k.window \in Window /\ k.window.epoch \in Nat
           /\ \A u \in User : basis[u] \in Window /\ basis[u].epoch \in Nat /\ basis[u].at \in Nat
BY BoundAssumption DEF AccessInv, TypeOK, Call, Window

LEMMA EpochInit == Init => EpochInv
<1> SUFFICES ASSUME Init PROVE EpochInv
  OBVIOUS
<1>1. \A u \in User : settled[u] = 0 /\ refreshes[u] = 0 /\ cache[u].held = FALSE
  BY DEF Init, Absent
<1>2. \A c \in Caller : call[c].quiet = 0 /\ call[c].pc = "idle" /\ call[c].user \in User
  BY DEF Init
<1> QED BY <1>1, <1>2 DEF EpochInv, UserEpoch, CallEpoch, Fetching

(* resolve under the lock: a hit decides from an entry that is fresh, a    *)
(* miss begins a fetch after every refresh so far.                         *)
LEMMA ResolveEpoch ==
    ASSUME AccessInv, EpochInv, NEW c \in Caller, NEW k \in Call, k.quiet <= settled[k.user],
           Resolve(c, k), basis' = basis
    PROVE  CallEpoch(call'[c]) /\ (Decides(c) => SoundDecision(c))
<1>1. /\ call \in [Caller -> Call] /\ k.user \in User /\ UserEpoch(k.user)
      /\ settled[k.user] \in Nat /\ refreshes[k.user] \in Nat /\ basis[k.user].epoch \in Nat
      /\ k.quiet \in Nat /\ basis[k.user].at \in Nat
  BY EpochTypes DEF EpochInv
<1>2. CASE Fresh(k.user) /\ call' = [call EXCEPT ![c] = Decided(k, cache[k.user].apps)]
  <2>1. call'[c].user = k.user /\ call'[c].quiet = k.quiet /\ call'[c].pc \notin Fetching
    BY <1>1, <1>2 DEF Decided, Call, Fetching
  <2>2. cache[k.user].held /\ now - cache[k.user].at < TTL
    BY <1>2 DEF Fresh, Unexpired
  <2>3. basis[k.user].epoch >= k.quiet /\ now - basis[k.user].at < TTL
    BY <1>1, <2>2 DEF UserEpoch
  <2> QED BY <2>1, <2>3 DEF CallEpoch, SoundDecision
<1>3. CASE call' = [call EXCEPT ![c] = [k EXCEPT !.pc = "user", !.pending = {k.user}, !.found = {},
                                                 !.window = NewWindow(k.user)]]
  <2>1. call'[c].user = k.user /\ call'[c].quiet = k.quiet /\ call'[c].pc = "user"
        /\ call'[c].window = NewWindow(k.user)
    BY <1>1, <1>3 DEF Call
  <2>2. call'[c].window.epoch = refreshes[k.user]
    BY <2>1 DEF NewWindow
  <2> QED BY <1>1, <2>1, <2>2 DEF CallEpoch, UserEpoch, Decides, Ended
<1> QED BY <1>2, <1>3 DEF Resolve

(* A call that is not acting is not decided.                               *)
LEMMA OthersEpoch ==
    ASSUME EpochInv, NEW c \in Caller, \A d \in Caller \ {c} : call'[d] = call[d],
           CallEpoch(call'[c]), settled' = settled
    PROVE  /\ \A d \in Caller : CallEpoch(call[d])'
           /\ \A d \in Caller \ {c} : ~Decides(d)
BY DEF EpochInv, CallEpoch, Decides

LEMMA BeginEpoch ==
    ASSUME AccessInv, EpochInv, NEW c \in Caller, Begin(c)
    PROVE  EpochInv' /\ \A d \in Caller : Decides(d) => SoundDecision(d)
<1>1. PICK u \in User, a \in App :
        \/ Resolve(c, NewCall(u, a))
        \/ /\ call' = [call EXCEPT ![c] = [NewCall(u, a) EXCEPT !.pc = "lock"]]
           /\ UNCHANGED <<cache, owner>>
  BY DEF Begin
<1>2. /\ UNCHANGED <<refreshes, settled, basis>> /\ TypeOK /\ call \in [Caller -> Call]
      /\ settled[u] \in Nat
  BY EpochTypes DEF Begin, AccessInv
<1>3. NewCall(u, a) \in Call /\ NewCall(u, a).user = u /\ NewCall(u, a).quiet = settled[u]
  BY <1>2, NewCallType DEF NewCall
<1>4. cache' = cache /\ CallEpoch(call'[c]) /\ (Decides(c) => SoundDecision(c))
      /\ \A d \in Caller \ {c} : call'[d] = call[d]
  <2>1. CASE Resolve(c, NewCall(u, a))
    <3>1. cache' = cache
      BY <1>2, <1>3, <2>1, ResolveType
    <3>2. CallEpoch(call'[c]) /\ (Decides(c) => SoundDecision(c))
      BY <1>2, <1>3, <2>1, ResolveEpoch
    <3> QED BY <1>2, <2>1, <3>1, <3>2 DEF Resolve
  <2>2. CASE /\ call' = [call EXCEPT ![c] = [NewCall(u, a) EXCEPT !.pc = "lock"]]
             /\ UNCHANGED <<cache, owner>>
    <3>1. call'[c].user = u /\ call'[c].quiet = settled[u] /\ call'[c].pc = "lock"
      BY <1>2, <2>2 DEF NewCall
    <3> QED BY <1>2, <2>2, <3>1 DEF CallEpoch, Decides, Ended, Fetching
  <2> QED BY <1>1, <2>1, <2>2
<1>5. (\A d \in Caller : CallEpoch(call[d])') /\ \A d \in Caller \ {c} : ~Decides(d)
  BY <1>2, <1>4, OthersEpoch
<1> QED BY <1>2, <1>4, <1>5 DEF EpochInv, UserEpoch

LEMMA EnterEpoch ==
    ASSUME AccessInv, EpochInv, NEW c \in Caller, Enter(c)
    PROVE  EpochInv' /\ \A d \in Caller : Decides(d) => SoundDecision(d)
<1>1. /\ Resolve(c, call[c]) /\ UNCHANGED <<refreshes, settled, basis>>
      /\ TypeOK /\ call \in [Caller -> Call]
  BY EpochTypes DEF Enter, AccessInv
<1>2. cache' = cache
  BY <1>1, ResolveType
<1>3. call[c].quiet <= settled[call[c].user]
  BY DEF EpochInv, CallEpoch
<1>4. CallEpoch(call'[c]) /\ (Decides(c) => SoundDecision(c))
  BY <1>1, <1>3, ResolveEpoch
<1>5. \A d \in Caller \ {c} : call'[d] = call[d]
  BY <1>1 DEF Resolve
<1>6. (\A d \in Caller : CallEpoch(call[d])') /\ \A d \in Caller \ {c} : ~Decides(d)
  BY <1>1, <1>4, <1>5, OthersEpoch
<1> QED BY <1>1, <1>2, <1>4, <1>6 DEF EpochInv, UserEpoch

(* A call that goes on fetching, or ends without a verdict.                *)
LEMMA KeptEpoch ==
    ASSUME AccessInv, EpochInv, NEW c \in Caller, \A d \in Caller \ {c} : call'[d] = call[d],
           UNCHANGED <<cache, basis, settled, refreshes>>,
           call'[c].user = call[c].user,
           \/ /\ call[c].pc \in Fetching /\ call'[c].pc \in Fetching
              /\ call'[c].quiet = call[c].quiet /\ call'[c].window.epoch = call[c].window.epoch
           \/ call'[c].pc = "idle" /\ call'[c].quiet = 0
    PROVE  EpochInv' /\ \A d \in Caller : Decides(d) => SoundDecision(d)
<1>1. call[c].user \in User /\ settled[call[c].user] \in Nat
  BY EpochTypes
<1>2. CallEpoch(call'[c])
  BY <1>1 DEF EpochInv, CallEpoch, Fetching
<1>3. ~Decides(c)
  BY DEF Decides, Ended, Fetching
<1>4. (\A d \in Caller : CallEpoch(call[d])') /\ \A d \in Caller \ {c} : ~Decides(d)
  BY <1>2, OthersEpoch
<1> QED BY <1>3, <1>4 DEF EpochInv, UserEpoch

(* What a fetch stores was read after every refresh that found no fetch.   *)
LEMMA StoreEpoch ==
    ASSUME AccessInv, EpochInv, NEW c \in Caller, call[c].pc \in Fetching, NEW s \in SUBSET App,
           Store(c, s), UNCHANGED <<settled, refreshes>>
    PROVE  EpochInv' /\ \A d \in Caller : Decides(d) => SoundDecision(d)
<1> DEFINE u == call[c].user
           w == call[c].window
<1>1. /\ call \in [Caller -> Call] /\ call[c] \in Call /\ u \in User /\ w \in Window /\ now \in Nat
      /\ w.epoch \in Nat /\ settled[u] \in Nat /\ call[c].quiet \in Nat /\ TypeOK /\ LockInv
  BY EpochTypes DEF AccessInv
<1>2. call'[c] = Decided(call[c], s) /\ \A d \in Caller \ {c} : call'[d] = call[d]
  BY <1>1 DEF Store
<1>3. call'[c].user = u /\ call'[c].quiet = call[c].quiet /\ call'[c].pc \notin Fetching
  BY <1>1, <1>2 DEF Decided, Call, Fetching
<1>4. CallEpoch(call[c])
  BY DEF EpochInv
<1>5. CallEpoch(call'[c])
  BY <1>3, <1>4 DEF CallEpoch
<1>6. (\A d \in Caller : CallEpoch(call[d])') /\ \A d \in Caller \ {c} : ~Decides(d)
  BY <1>2, <1>5, OthersEpoch
<1>7. /\ \A v \in User \ {u} : cache'[v] = cache[v] /\ basis'[v] = basis[v]
      /\ cache'[u] = Entry(s) /\ basis'[u] = [w EXCEPT !.at = now]
  BY <1>1 DEF Store, TypeOK
<1>8. cache'[u].at = now /\ basis'[u].at = now /\ basis'[u].epoch = w.epoch
  BY <1>1, <1>7 DEF Entry, Window
<1>9. settled[u] <= w.epoch /\ call[c].quiet <= w.epoch
  BY <1>1, <1>4 DEF CallEpoch
<1>10. \A v \in User : UserEpoch(v)'
  <2> SUFFICES ASSUME NEW v \in User PROVE UserEpoch(v)'
    OBVIOUS
  <2>1. UserEpoch(v) BY DEF EpochInv
  <2>2. CASE v = u
    BY <1>8, <1>9, <2>1, <2>2 DEF UserEpoch
  <2>3. CASE v # u
    BY <1>7, <2>1, <2>3 DEF UserEpoch
  <2> QED BY <2>2, <2>3
<1>11. owner[u] = c
  BY <1>1 DEF LockInv
<1>12. SoundDecision(c)
  BY <1>1, <1>3, <1>8, <1>9, <1>11 DEF SoundDecision
<1> QED BY <1>6, <1>10, <1>12 DEF EpochInv

LEMMA CollectEpoch ==
    ASSUME AccessInv, EpochInv, NEW c \in Caller, Collect(c)
    PROVE  EpochInv' /\ \A d \in Caller : Decides(d) => SoundDecision(d)
<1> DEFINE k == call[c]
           groups == k.found \cap Group
           roles == k.found \cap Role
<1>1. /\ UNCHANGED <<refreshes, settled>> /\ k.pc \in Fetching
      /\ groups \in SUBSET Node /\ roles \in SUBSET Node /\ {} \in SUBSET Node /\ {} \in SUBSET App
      /\ "groups" \in Fetching /\ "roles" \in Fetching /\ TypeOK /\ k \in Call
  BY CollectCases, EpochTypes DEF Fetching, AccessInv
<1>2. ASSUME NEW stage \in Fetching, NEW t \in SUBSET Node, NEW kept \in SUBSET Node,
             Ask(c, stage, t, kept)
      PROVE  EpochInv' /\ \A d \in Caller : Decides(d) => SoundDecision(d)
  <2>1. /\ call' = [call EXCEPT ![c] = [call[c] EXCEPT !.pc = stage, !.pending = t, !.found = kept]]
        /\ UNCHANGED <<cache, owner, basis>>
    BY <1>1, <1>2 DEF Ask, TypeOK
  <2>2. /\ call'[c] = [k EXCEPT !.pc = stage, !.pending = t, !.found = kept]
        /\ \A d \in Caller \ {c} : call'[d] = call[d]
    BY <1>1, <2>1 DEF TypeOK
  <2>3. /\ call'[c].pc = stage /\ call'[c].user = k.user /\ call'[c].quiet = k.quiet
        /\ call'[c].window = k.window
    BY <1>1, <2>2 DEF Call
  <2> QED BY <1>1, <2>1, <2>2, <2>3, KeptEpoch
<1>3. ASSUME NEW s \in SUBSET App, Store(c, s)
      PROVE  EpochInv' /\ \A d \in Caller : Decides(d) => SoundDecision(d)
  BY <1>1, <1>3, StoreEpoch
<1>4. CASE k.pc = "roles" /\ Store(c, k.found)
  <2>1. k.found \in SUBSET App
    BY <1>4, CollectCases
  <2> QED BY <1>3, <1>4, <2>1
<1>5. CASE Ask(c, "groups", groups, roles) \/ Ask(c, "roles", roles, {}) \/ Store(c, {})
  BY <1>1, <1>2, <1>3, <1>5
<1> QED BY <1>4, <1>5, CollectCases

(* A refresh outdates the entry it pops, and no fetch in flight.           *)
LEMMA RefreshEpoch ==
    ASSUME AccessInv, EpochInv, NEW u \in User, Refresh(u)
    PROVE  EpochInv' /\ \A d \in Caller : ~Decides(d)
<1>1. /\ cache' = [cache EXCEPT ![u] = Absent] /\ refreshes' = [refreshes EXCEPT ![u] = @ + 1]
      /\ settled' = [settled EXCEPT ![u] = IF InFlight(u) THEN @ ELSE refreshes[u] + 1]
      /\ UNCHANGED <<call, basis>> /\ TypeOK
  BY DEF Refresh, AccessInv
<1>2. /\ settled \in [User -> Nat] /\ refreshes \in [User -> Nat] /\ call \in [Caller -> Call]
      /\ \A c \in Caller : call[c].user \in User /\ call[c].quiet \in Nat
  BY EpochTypes
<1>3. \A v \in User : settled[v] \in Nat /\ settled'[v] \in Nat /\ settled[v] <= settled'[v]
  <2> SUFFICES ASSUME NEW v \in User
               PROVE  settled[v] \in Nat /\ settled'[v] \in Nat /\ settled[v] <= settled'[v]
    OBVIOUS
  <2>1. settled[v] <= refreshes[v] BY DEF EpochInv, UserEpoch
  <2> QED BY <1>1, <1>2, <2>1
<1>4. ASSUME NEW v \in User PROVE UserEpoch(v)'
  <2>1. UserEpoch(v) BY DEF EpochInv
  <2>2. CASE v = u
    <3>1. cache'[v].held = FALSE
      BY <1>1, <2>2 DEF Absent, TypeOK
    <3>2. settled'[v] <= refreshes'[v]
      BY <1>1, <1>2, <2>1, <2>2 DEF UserEpoch
    <3> QED BY <3>1, <3>2 DEF UserEpoch
  <2>3. CASE v # u
    <3>1. cache'[v] = cache[v] /\ settled'[v] = settled[v] /\ refreshes'[v] = refreshes[v]
      BY <1>1, <1>2, <2>3 DEF TypeOK
    <3> QED BY <1>1, <2>1, <3>1 DEF UserEpoch
  <2> QED BY <2>2, <2>3
<1>5. ASSUME NEW c \in Caller PROVE CallEpoch(call[c])'
  <2>1. CallEpoch(call[c]) BY DEF EpochInv
  <2>2. call[c].quiet <= settled'[call[c].user]
    BY <1>2, <1>3, <2>1 DEF CallEpoch
  <2>3. call[c].pc \in Fetching => settled'[call[c].user] = settled[call[c].user]
    BY <1>1, <1>2 DEF InFlight
  <2> QED BY <1>1, <2>1, <2>2, <2>3 DEF CallEpoch
<1> QED BY <1>1, <1>4, <1>5 DEF EpochInv, Decides

LEMMA ChangeEpoch ==
    ASSUME AccessInv, EpochInv, NEW e \in Edge, Change(e)
    PROVE  EpochInv' /\ \A d \in Caller : ~Decides(d)
<1>1. UNCHANGED <<cache, basis, settled, refreshes>> /\ TypeOK
  BY DEF Change, AccessInv
<1>2. ASSUME NEW c \in Caller
      PROVE  /\ call'[c].pc = call[c].pc /\ call'[c].user = call[c].user
             /\ call'[c].quiet = call[c].quiet
             /\ call'[c].window.epoch = call[c].window.epoch
             /\ call[c].pc \in Fetching \/ call'[c] = call[c]
  <2>1. call[c] \in Call /\ call[c].window \in Window
    BY EpochTypes
  <2>2. call'[c] = IF call[c].pc \in Fetching
                   THEN [call[c] EXCEPT !.window = Edited(call[c].window, e)] ELSE call[c]
    BY <1>1, ChangeCall
  <2>3. Edited(call[c].window, e).epoch = call[c].window.epoch
    BY <2>1 DEF Edited, Window
  <2> DEFINE x == Edited(call[c].window, e)
  <2> HIDE DEF x
  <2>4. [call[c] EXCEPT !.window = x].window = x
    BY <2>1 DEF Call
  <2> QED BY <2>1, <2>2, <2>3, <2>4 DEF Call, x
<1>3. \A c \in Caller : CallEpoch(call[c])'
  BY <1>1, <1>2 DEF EpochInv, CallEpoch
<1>4. \A c \in Caller : ~Decides(c)
  BY <1>2 DEF Decides, Ended, Fetching
<1> QED BY <1>1, <1>3, <1>4 DEF EpochInv, UserEpoch

LEMMA EpochStep ==
    ASSUME AccessInv, EpochInv, [Next]_vars
    PROVE  EpochInv' /\ \A d \in Caller : Decides(d) => SoundDecision(d)
<1>1. TypeOK
  BY DEF AccessInv
<1>2. ASSUME NEW c \in Caller, NEW n \in Node, Answer(c, n)
      PROVE  EpochInv' /\ \A d \in Caller : Decides(d) => SoundDecision(d)
  <2>1. /\ call'[c] = [call[c] EXCEPT !.pending = @ \ {n}, !.found = @ \cup Targets(grants, n)]
        /\ \A d \in Caller \ {c} : call'[d] = call[d]
        /\ UNCHANGED <<cache, basis, settled, refreshes>> /\ call[c].pc \in Fetching
    BY <1>1, <1>2, AnswerCall DEF Answer
  <2>2. /\ call'[c].pc = call[c].pc /\ call'[c].user = call[c].user
        /\ call'[c].quiet = call[c].quiet /\ call'[c].window = call[c].window
    BY <2>1, EpochTypes DEF Call
  <2> QED BY <2>1, <2>2, KeptEpoch
<1>3. ASSUME NEW c \in Caller, NEW n \in Node, RequestFails(c, n)
      PROVE  EpochInv' /\ \A d \in Caller : Decides(d) => SoundDecision(d)
  <2>1. /\ call'[c] = [call[c] EXCEPT !.pending = @ \ {n}, !.window = [@ EXCEPT !.failed = TRUE]]
        /\ \A d \in Caller \ {c} : call'[d] = call[d]
        /\ UNCHANGED <<cache, basis, settled, refreshes>> /\ call[c].pc \in Fetching
    BY <1>1, <1>3, FailCall DEF RequestFails
  <2>2. call[c] \in Call /\ call[c].window \in Window
    BY EpochTypes
  <2>3. /\ call'[c].pc = call[c].pc /\ call'[c].user = call[c].user
        /\ call'[c].quiet = call[c].quiet /\ call'[c].window = [call[c].window EXCEPT !.failed = TRUE]
    BY <2>1, <2>2 DEF Call
  <2>4. call'[c].window.epoch = call[c].window.epoch
    BY <2>2, <2>3 DEF Window
  <2> QED BY <2>1, <2>3, <2>4, KeptEpoch
<1>4. ASSUME NEW c \in Caller, CancelWaiting(c) \/ CancelFetch(c)
      PROVE  EpochInv' /\ \A d \in Caller : Decides(d) => SoundDecision(d)
  <2>1. GivenUp(c) /\ UNCHANGED <<cache, basis, settled, refreshes>>
    BY <1>4 DEF CancelWaiting, CancelFetch
  <2>2. /\ call'[c] = [call[c] EXCEPT !.pc = "idle", !.pending = {}, !.found = {},
                                      !.since = 0, !.quiet = 0, !.window = NoWindow]
        /\ \A d \in Caller \ {c} : call'[d] = call[d]
    BY <2>1, EpochTypes DEF GivenUp
  <2>3. call'[c].pc = "idle" /\ call'[c].quiet = 0 /\ call'[c].user = call[c].user
    BY <2>2, EpochTypes DEF Call
  <2> QED BY <2>1, <2>2, <2>3, KeptEpoch
<1>5. CASE Tick \/ UNCHANGED vars
  <2>1. UNCHANGED <<cache, basis, settled, refreshes, call>>
    BY <1>5 DEF Tick, vars
  <2> QED BY <2>1 DEF EpochInv, UserEpoch, CallEpoch, Decides
<1> QED
  BY <1>2, <1>3, <1>4, <1>5, BeginEpoch, EnterEpoch, CollectEpoch, RefreshEpoch, ChangeEpoch
  DEF Next

LEMMA EpochAlways == Spec => []EpochInv
<1>1. AccessInv /\ EpochInv /\ [Next]_vars => EpochInv'
  BY EpochStep
<1> QED BY <1>1, EpochInit, AccessAlways, PTL DEF Spec

(* A gate never decides from an entry that is past the TTL, whoever waited *)
(* for the lock in between: it is served while fresh, or was just fetched  *)
(* by the call itself (user_resolver.py:96-115).                           *)
THEOREM DecidedFresh == Spec => DecisionFresh
<1>1. AccessInv /\ EpochInv /\ [Next]_vars =>
        [\A c \in Caller : Decides(c) =>
           LET b == basis'[call'[c].user]
           IN  now - b.at < TTL \/ (owner[call'[c].user] = c)]_vars
  BY EpochStep DEF SoundDecision
<1> QED BY <1>1, AccessAlways, EpochAlways, PTL DEF Spec, DecisionFresh

(* After refresh_user_access with no fetch of the user in flight, no call  *)
(* that begins later is decided from what was read before it.              *)
THEOREM QuietRefreshHolds == Spec => QuietRefreshTakesEffect
<1>1. AccessInv /\ EpochInv /\ [Next]_vars =>
        [\A c \in Caller : Decides(c) => basis'[call'[c].user].epoch >= call'[c].quiet]_vars
  BY EpochStep DEF SoundDecision
<1> QED BY <1>1, AccessAlways, EpochAlways, PTL DEF Spec, QuietRefreshTakesEffect
=============================================================================
