--------------------------- MODULE ToolCallsProofs ---------------------------
(***************************************************************************)
(* Theorems about ToolCalls for every set of users, controllers, calls and *)
(* well-shaped tools, and every session lifetime.  RoleInv relates the     *)
(* sessions and the answers on their way to the moments the roles were     *)
(* held; EntryInv says what a call that is past a gate has to show.        *)
(***************************************************************************)
EXTENDS ToolCalls, TLAPS

(* What is held is marked now; no mark is still to come.                   *)
MarksInv ==
    /\ \A u \in User, r \in Granting : lastHeld[u][r] <= now
    /\ \A u \in User, k \in Controller :
         MapRole(held[k][u]) \in Granting => lastHeld[u][MapRole(held[k][u])] = now

(* A role in a session was held a lookup's time before it was stored; no   *)
(* session of the role DENIED is alive.                                    *)
SessionInv ==
    \A u \in User :
        /\ session[u].role = "DENIED" => session[u].at = -SessionTTL
        /\ session[u].role # "DENIED" =>
             session[u].at - lastHeld[u][session[u].role] <= MaxLookup

(* A role on its way was held when it was read, and that was not long ago. *)
ReplyInv ==
    \A c \in Call : call[c].pc = "reply" =>
        /\ call[c].read <= now /\ now - call[c].read <= MaxLookup
        /\ call[c].role # "DENIED" =>
             call[c].read <= lastHeld[call[c].user][call[c].role]

RoleInv == TypeOK /\ MarksInv /\ SessionInv /\ ReplyInv

(* k is past the gates its stage implies, and shows no more than it did.   *)
Honest(k) ==
    /\ k.tool.audit = "success" =>
         /\ k.archived => /\ Permits(k.role, k.tool.gate)
                         /\ k.pc \in {"work", "answered", "failed", "cancelled"}
         /\ k.entry # "none" <=> k.pc = "answered"
         /\ k.entry # "none" => k.entry = "success" /\ k.archived
    /\ k.pc \in {"lookup", "reply", "app", "work"} => k.entry = "none"
    /\ k.pc \in {"lookup", "reply", "app"} => k.archived = FALSE
    /\ k.pc \in {"app", "work"} => Permits(k.role, k.tool.gate)
    /\ k.pc = "work" /\ k.tool.audit = "success" =>
         k.work = <<"archive">> \/ (k.work = <<>> /\ k.archived)
EntryInv == TypeOK /\ \A c \in Call : Honest(call[c])

-----------------------------------------------------------------------------
(* Names map to roles.                                                     *)
LEMMA MapRoleType == \A names \in SUBSET RoleName : MapRole(names) \in Role
BY DEF MapRole, RoleName, Role

LEMMA HeldType ==
    ASSUME TypeOK, NEW k \in Controller, NEW u \in User
    PROVE  MapRole(held[k][u]) \in Role
<1>1. held[k][u] \in NameSets
  BY DEF TypeOK
<1> QED BY <1>1, MapRoleType, NameSetsAssumption

(* A call that has not begun.                                              *)
LEMMA NewCallType ==
    ASSUME NEW u \in User, NEW k \in Controller, NEW t \in Tools
    PROVE  NewCall(u, k, t) \in CallState
<1>1. <<>> \in Seq(Request)
  OBVIOUS
<1>2. "DENIED" \in Role /\ "idle" \in Closed
  BY DEF Role, Closed
<1> QED BY <1>1, <1>2 DEF NewCall, CallState

LEMMA NoCallType == NoCall \in CallState /\ NoCall.pc = "idle" /\ NoCall.ctrl \in Controller
<1>1. /\ (CHOOSE u \in User : TRUE) \in User
      /\ (CHOOSE k \in Controller : TRUE) \in Controller
      /\ (CHOOSE t \in Tools : TRUE) \in Tools
  BY SomeoneAssumption
<1>2. NoCall \in CallState
  BY <1>1, NewCallType DEF NoCall
<1>3. NoCall.pc = "idle"
  BY DEF NoCall, NewCall
<1>4. NoCall.ctrl \in Controller
  BY <1>2 DEF CallState
<1> QED BY <1>2, <1>3, <1>4

LEMMA PastType ==
    ASSUME NEW k \in CallState
    PROVE  /\ Past(k) \in CallState
           /\ Past(k).pc = k.pc /\ Past(k).user = k.user /\ Past(k).tool = k.tool
           /\ Past(k).role = k.role
           /\ Past(k).archived = k.archived /\ Past(k).entry = k.entry
<1> DEFINE any == NoCall.ctrl
<1>1. any \in Controller
  BY NoCallType
<1>2. Past(k) = [k EXCEPT !.read = 0, !.ctrl = any]
  BY DEF Past
<1> HIDE DEF any
<1>3. Past(k) \in CallState
  <2> DEFINE zero == 0
  <2>1. zero \in Int
    OBVIOUS
  <2>2. Past(k) = [k EXCEPT !.read = zero, !.ctrl = any]
    BY <1>2
  <2> HIDE DEF zero
  <2> QED BY <1>1, <2>1, <2>2 DEF CallState
<1> QED BY <1>2, <1>3 DEF CallState

(* What the gates keep of a call and where they leave it.                  *)
Kept(k, n) ==
    /\ n \in CallState
    /\ n.user = k.user /\ n.tool = k.tool
    /\ n.archived = k.archived /\ n.entry = k.entry

LEMMA RefusedKeeps ==
    ASSUME NEW k \in CallState
    PROVE  Kept(k, Refused(k)) /\ Refused(k).role = k.role /\ Refused(k).pc = "refused"
<1>1. Refused(k) = [Past(k) EXCEPT !.pc = "refused"]
  BY DEF Refused
<1>2. Past(k) \in CallState
  BY PastType
<1>3. Refused(k) \in CallState
  BY <1>1, <1>2 DEF CallState, Closed
<1>4. /\ Refused(k).pc = "refused" /\ Refused(k).user = Past(k).user
      /\ Refused(k).tool = Past(k).tool /\ Refused(k).role = Past(k).role
      /\ Refused(k).archived = Past(k).archived
      /\ Refused(k).entry = Past(k).entry
  BY <1>1, <1>2 DEF CallState
<1> QED BY <1>3, <1>4, PastType DEF Kept

LEMMA LicenceKeeps ==
    ASSUME NEW k \in CallState, NEW n \in Licence(k)
    PROVE  /\ Kept(k, n) /\ n.role = k.role /\ n.pc \in {"refused", "work"}
           /\ n.pc = "refused" => k.tool.module # "none"
           /\ n.pc = "work" => n.work \in k.tool.work
<1>1. CASE n = Refused(k) /\ k.tool.module \notin licensed \cup {"none"}
  BY <1>1, RefusedKeeps
<1>2. ASSUME NEW w \in k.tool.work, n = [Past(k) EXCEPT !.pc = "work", !.work = w]
      PROVE  Kept(k, n) /\ n.role = k.role /\ n.pc = "work" /\ n.work \in k.tool.work
  <2>1. w \in Seq(Request)
    BY <1>2, ToolsAssumption DEF WellShaped, CallState
  <2>2. Past(k) \in CallState
    BY PastType
  <2>3. n \in CallState
    BY <1>2, <2>1, <2>2 DEF CallState
  <2>4. /\ n.pc = "work" /\ n.work = w /\ n.user = Past(k).user /\ n.tool = Past(k).tool
        /\ n.role = Past(k).role
        /\ n.archived = Past(k).archived /\ n.entry = Past(k).entry
    BY <1>2, <2>2 DEF CallState
  <2> QED BY <2>3, <2>4, <1>2, PastType DEF Kept
<1> QED BY <1>1, <1>2 DEF Licence

LEMMA GateKeeps ==
    ASSUME NEW k \in CallState, NEW r \in Role, NEW n \in Gate(k, r)
    PROVE  /\ Kept(k, n) /\ n.role = r /\ n.pc \in {"refused", "app", "work"}
           /\ n.pc \in {"app", "work"} => Permits(r, k.tool.gate)
           /\ n.pc = "work" => n.work \in k.tool.work
<1> DEFINE kr == [k EXCEPT !.role = r]
<1>1. kr \in CallState /\ Kept(k, kr) /\ kr.role = r
  BY DEF CallState, Kept
<1>2. CASE ~ Permits(r, k.tool.gate)
  <2>1. n = Refused(kr)
    BY <1>2 DEF Gate
  <2> QED BY <1>1, <2>1, RefusedKeeps DEF Kept
<1>3. CASE Permits(r, k.tool.gate) /\ k.tool.app /\ k.ctrl \in scoped
  <2>1. n = [Past(k) EXCEPT !.role = r, !.pc = "app"]
    BY <1>3 DEF Gate
  <2>2. Past(k) \in CallState
    BY PastType
  <2>3. n \in CallState
    BY <2>1, <2>2 DEF CallState
  <2>4. /\ n.pc = "app" /\ n.role = r /\ n.user = Past(k).user /\ n.tool = Past(k).tool
        /\ n.archived = Past(k).archived
        /\ n.entry = Past(k).entry
    BY <2>1, <2>2 DEF CallState
  <2> QED BY <1>3, <2>3, <2>4, PastType DEF Kept
<1>4. CASE Permits(r, k.tool.gate) /\ ~(k.tool.app /\ k.ctrl \in scoped)
  <2>1. n \in Licence(kr)
    BY <1>4 DEF Gate
  <2>2. Kept(kr, n) /\ n.role = r /\ n.pc \in {"refused", "work"} /\ (n.pc = "work" => n.work \in kr.tool.work)
    BY <1>1, <2>1, LicenceKeeps
  <2> QED BY <1>1, <1>4, <2>2 DEF Kept
<1> QED BY <1>2, <1>3, <1>4

LEMMA EndedKeeps ==
    ASSUME NEW k \in CallState, NEW pc \in Closed
    PROVE  LET e == Ended(k, pc) IN
           /\ e \in CallState /\ e.pc = pc /\ e.work = <<>> /\ e.entry = Entry(k, pc)
           /\ e.user = k.user /\ e.tool = k.tool /\ e.role = k.role
           /\ e.archived = k.archived
<1>1. k.tool.audit \in {"always", "success", "never"}
  BY ToolsAssumption DEF WellShaped, CallState
<1>2. Entry(k, pc) \in {"none", "success", "error"}
  BY <1>1 DEF Entry
<1> DEFINE entry == Entry(k, pc)
<1>3. entry \in {"none", "success", "error"} /\ <<>> \in Seq(Request)
  BY <1>2
<1>4. Ended(k, pc) = [k EXCEPT !.pc = pc, !.work = <<>>, !.entry = entry]
  BY DEF Ended
<1> HIDE DEF entry
<1>5. Ended(k, pc) \in CallState
  BY <1>3, <1>4 DEF CallState
<1>6. LET e == Ended(k, pc) IN
      /\ e.pc = pc /\ e.work = <<>> /\ e.entry = entry
      /\ e.user = k.user /\ e.tool = k.tool /\ e.role = k.role
      /\ e.archived = k.archived
  BY <1>4 DEF CallState
<1> QED BY <1>5, <1>6 DEF entry

LEMMA RestKeeps ==
    ASSUME NEW k \in CallState, k.work # <<>>
    PROVE  LET e == Rest(k) IN
           /\ e \in CallState /\ e.pc = k.pc /\ e.work = Tail(k.work) /\ e.entry = k.entry
           /\ e.user = k.user /\ e.tool = k.tool /\ e.role = k.role /\ e.read = k.read
           /\ e.archived = k.archived
<1> DEFINE rest == Tail(k.work)
<1>1. rest \in Seq(Request)
  BY DEF CallState
<1>2. Rest(k) = [k EXCEPT !.work = rest]
  BY DEF Rest
<1> HIDE DEF rest
<1>3. LET e == Rest(k) IN
      /\ e \in CallState /\ e.pc = k.pc /\ e.work = rest /\ e.entry = k.entry
      /\ e.user = k.user /\ e.tool = k.tool /\ e.role = k.role /\ e.read = k.read
      /\ e.archived = k.archived
  BY <1>1, <1>2 DEF CallState
<1> QED BY <1>3 DEF rest

(* A call that has shown nothing yet is honest past the gates.             *)
LEMMA GateHonest ==
    ASSUME NEW k \in CallState, k.entry = "none", k.archived = FALSE,
           NEW r \in Role, NEW n \in Gate(k, r)
    PROVE  Honest(n)
<1>1. Kept(k, n) /\ n.role = r /\ n.pc \in {"refused", "app", "work"}
  BY GateKeeps
<1>2. n.pc \in {"app", "work"} => Permits(n.role, n.tool.gate)
  BY GateKeeps, <1>1 DEF Kept
<1>3. n.pc = "work" /\ n.tool.audit = "success" => n.work = <<"archive">>
  BY GateKeeps, <1>1, ToolsAssumption DEF Kept, CallState, WellShaped
<1> QED BY <1>1, <1>2, <1>3 DEF Honest, Kept

LEMMA LicenceHonest ==
    ASSUME NEW k \in CallState, k.entry = "none", k.archived = FALSE,
           Permits(k.role, k.tool.gate), NEW n \in Licence(k)
    PROVE  Honest(n)
<1>1. Kept(k, n) /\ n.role = k.role /\ n.pc \in {"refused", "work"}
  BY LicenceKeeps
<1>2. n.pc = "work" /\ n.tool.audit = "success" => n.work = <<"archive">>
  BY LicenceKeeps, <1>1, ToolsAssumption DEF Kept, CallState, WellShaped
<1> QED BY <1>1, <1>2 DEF Honest, Kept

LEMMA DeniedIsRefused ==
    ASSUME NEW k \in CallState, k.tool.gate # "none"
    PROVE  ~ Permits("DENIED", k.tool.gate)
BY DEF Permits, RoleTools, Role
-----------------------------------------------------------------------------
(* What one step of the call c makes of it: n, and what follows for the    *)
(* theorems.                                                               *)
Admitted(k, n) ==
    k.pc \notin {"app", "work"} /\ n.pc \in {"app", "work"} /\ n.tool.gate # "none"
    => Permits(n.role, n.tool.gate) /\ Lately(now, lastHeld[n.user][n.role])
Denied(k, n) ==
    k.pc \in Closed /\ n.pc = "refused"
    => n.role # "DENIED" /\ Lately(now, lastHeld[n.user][n.role])
ReadNow(n) ==
    n.pc = "reply" => n.read = now /\ \E k \in Controller : n.role = MapRole(held[k][n.user])
SameSession == session' = session
NewSession(k) ==
    /\ k.pc = "reply" /\ k.role # "DENIED"
    /\ session' = [session EXCEPT ![k.user] = [role |-> k.role, at |-> now]]
Elsewhere == UNCHANGED <<now, held, licensed, scoped, lastHeld, changes, restarts>>
Step(c, n) ==
    /\ n \in CallState /\ call' = [call EXCEPT ![c] = n]
    /\ Admitted(call[c], n) /\ Denied(call[c], n) /\ ReadNow(n)
    /\ Honest(call[c]) => Honest(n)
    /\ SameSession \/ NewSession(call[c])
    /\ Elsewhere

LEMMA SessionLately ==
    ASSUME RoleInv, NEW u \in User, Fresh(u)
    PROVE  session[u].role # "DENIED" /\ Lately(now, lastHeld[u][session[u].role])
<1>1. /\ now \in Nat /\ session[u] \in [role : Role, at : Int]
      /\ lastHeld \in [User -> [Granting -> Int]]
  BY DEF RoleInv, TypeOK
<1>2. session[u].role # "DENIED"
  BY <1>1, SessionTTLAssumption DEF RoleInv, SessionInv, Fresh
<1>3. lastHeld[u][session[u].role] \in Int
  BY <1>1, <1>2 DEF Granting
<1>4. session[u].at - lastHeld[u][session[u].role] <= MaxLookup
  BY <1>2 DEF RoleInv, SessionInv
<1>5. now - lastHeld[u][session[u].role] < SessionTTL + MaxLookup
  BY <1>1, <1>3, <1>4, SessionTTLAssumption, MaxLookupAssumption DEF Fresh
<1> QED BY <1>2, <1>5 DEF Lately

LEMMA ReplyLately ==
    ASSUME RoleInv, NEW c \in Call, call[c].pc = "reply", call[c].role # "DENIED"
    PROVE  Lately(now, lastHeld[call[c].user][call[c].role])
<1>1. /\ now \in Nat /\ call[c] \in CallState
      /\ lastHeld \in [User -> [Granting -> Int]]
  BY DEF RoleInv, TypeOK
<1>2. call[c].user \in User /\ call[c].role \in Granting /\ call[c].read \in Int
  BY <1>1 DEF CallState, Granting
<1>3. now - call[c].read <= MaxLookup /\ call[c].read <= lastHeld[call[c].user][call[c].role]
  BY DEF RoleInv, ReplyInv
<1> DEFINE mark == lastHeld[call[c].user][call[c].role]
<1>4. mark \in Int
  BY <1>1, <1>2
<1> HIDE DEF mark
<1>5. now - mark < SessionTTL + MaxLookup
  BY <1>1, <1>2, <1>3, <1>4, SessionTTLAssumption, MaxLookupAssumption DEF mark
<1> QED BY <1>5 DEF Lately, mark

LEMMA ArriveStep ==
    ASSUME RoleInv, NEW c \in Call, Arrive(c)
    PROVE  \E n : Step(c, n)
<1>1. PICK u \in User, ctrl \in Controller, t \in Tools :
        \/ SessionHit(c, NewCall(u, ctrl, t))
        \/ SessionMiss(c, NewCall(u, ctrl, t))
        \/ Ungated(c, NewCall(u, ctrl, t))
  BY DEF Arrive
<1> DEFINE k == NewCall(u, ctrl, t)
<1>2. k \in CallState
  BY NewCallType
<1>3. /\ k.pc = "idle" /\ k.user = u /\ k.tool = t /\ k.role = "DENIED" /\ k.entry = "none"
      /\ k.archived = FALSE
  BY DEF NewCall
<1>4. call[c].pc \in Closed /\ Elsewhere
  BY DEF Arrive, Elsewhere
<1>5. \/ SessionHit(c, k) \/ SessionMiss(c, k) \/ Ungated(c, k)
  BY <1>1
<1> HIDE DEF k
<1>6. CASE SessionHit(c, k)
  <2>1. PICK n \in Gate(k, session[u].role) : call' = [call EXCEPT ![c] = n]
    BY <1>3, <1>6 DEF SessionHit
  <2>2. session[u].role \in Role
    BY DEF RoleInv, TypeOK
  <2>3. session[u].role # "DENIED" /\ Lately(now, lastHeld[u][session[u].role])
    BY <1>3, <1>6, SessionLately DEF SessionHit
  <2>4. /\ Kept(k, n) /\ n.role = session[u].role /\ n.pc \in {"refused", "app", "work"}
        /\ n.pc \in {"app", "work"} => Permits(n.role, n.tool.gate)
    BY <1>2, <2>1, <2>2, GateKeeps DEF Kept
  <2>5. Honest(n)
    BY <1>2, <1>3, <2>1, <2>2, GateHonest
  <2>6. n.user = u
    BY <1>3, <2>4 DEF Kept
  <2>7. Admitted(call[c], n) /\ Denied(call[c], n) /\ ReadNow(n)
    BY <2>3, <2>4, <2>6 DEF Admitted, Denied, ReadNow
  <2> QED BY <1>4, <1>6, <2>1, <2>4, <2>5, <2>7 DEF Step, Kept, SessionHit, SameSession
<1>7. CASE SessionMiss(c, k)
  <2> DEFINE n == [k EXCEPT !.pc = "lookup"]
  <2>1. n \in CallState
    BY <1>2 DEF CallState
  <2>2. n.pc = "lookup" /\ n.entry = "none" /\ n.archived = FALSE
    BY <1>2, <1>3 DEF CallState
  <2>3. call' = [call EXCEPT ![c] = n] /\ SameSession
    BY <1>7 DEF SessionMiss, SameSession
  <2> HIDE DEF n
  <2>4. Honest(n) /\ Admitted(call[c], n) /\ Denied(call[c], n) /\ ReadNow(n)
    BY <2>2 DEF Honest, Admitted, Denied, ReadNow
  <2> QED BY <1>4, <2>1, <2>3, <2>4 DEF Step
<1>8. CASE Ungated(c, k)
  <2>1. PICK n \in Licence(k) : call' = [call EXCEPT ![c] = n]
    BY <1>8 DEF Ungated
  <2>2. /\ Kept(k, n) /\ n.role = k.role /\ n.pc \in {"refused", "work"}
        /\ n.pc = "refused" => k.tool.module # "none"
    BY <1>2, <2>1, LicenceKeeps
  <2>3. k.tool.gate = "none" /\ k.tool.module = "none"
    BY <1>2, <1>8, ToolsAssumption DEF Ungated, WellShaped, CallState
  <2>4. Honest(n)
    <3>1. Permits(k.role, k.tool.gate)
      BY <2>3 DEF Permits
    <3> QED BY <1>2, <1>3, <2>1, <3>1, LicenceHonest
  <2>5. Admitted(call[c], n) /\ Denied(call[c], n) /\ ReadNow(n)
    BY <2>2, <2>3 DEF Admitted, Denied, ReadNow, Kept
  <2> QED BY <1>4, <1>8, <2>1, <2>2, <2>4, <2>5 DEF Step, Kept, Ungated, SameSession
<1> QED BY <1>5, <1>6, <1>7, <1>8
LEMMA RoleReadStep ==
    ASSUME RoleInv, NEW c \in Call, RoleRead(c)
    PROVE  \E n : Step(c, n)
<1> DEFINE k == call[c]
           r == MapRole(held[k.ctrl][k.user])
           n == [k EXCEPT !.pc = "reply", !.read = now, !.role = r]
<1>1. k \in CallState /\ now \in Int /\ r \in Role
  BY HeldType DEF RoleInv, TypeOK, CallState
<1>2. k.pc = "lookup" /\ k.ctrl \in Controller
  BY <1>1 DEF RoleRead, CallState
<1>3. call' = [call EXCEPT ![c] = n] /\ SameSession /\ Elsewhere
  <2>1. call' = [call EXCEPT ![c].pc = "reply", ![c].read = now, ![c].role = r]
    BY DEF RoleRead
  <2>2. call \in [Call -> CallState]
    BY DEF RoleInv, TypeOK
  <2> QED BY <2>1, <2>2 DEF RoleRead, SameSession, Elsewhere
<1>4. r = MapRole(held[k.ctrl][k.user])
  OBVIOUS
<1> HIDE DEF r
<1>5. n \in CallState
  BY <1>1 DEF CallState
<1>6. /\ n.pc = "reply" /\ n.read = now /\ n.role = r /\ n.user = k.user /\ n.tool = k.tool
      /\ n.entry = k.entry /\ n.archived = k.archived
  BY <1>1 DEF CallState
<1> HIDE DEF n
<1>7. Honest(k) => Honest(n)
  BY <1>2, <1>6 DEF Honest
<1>8. Admitted(k, n) /\ Denied(k, n) /\ ReadNow(n)
  BY <1>2, <1>4, <1>6 DEF Admitted, Denied, ReadNow
<1> QED BY <1>3, <1>5, <1>7, <1>8 DEF Step

LEMMA RoleArrivesStep ==
    ASSUME RoleInv, NEW c \in Call, RoleArrives(c)
    PROVE  \E n : Step(c, n)
<1> DEFINE k == call[c]
<1>1. k \in CallState /\ k.pc = "reply" /\ k.role \in Role
  BY DEF RoleArrives, RoleInv, TypeOK, CallState
<1>2. PICK n \in Gate(k, k.role) : call' = [call EXCEPT ![c] = n]
  BY DEF RoleArrives
<1>3. SameSession \/ NewSession(k)
  BY <1>1 DEF RoleArrives, SameSession, NewSession, Stored
<1>4. Elsewhere
  BY DEF RoleArrives, Elsewhere
<1>5. /\ Kept(k, n) /\ n.role = k.role /\ n.pc \in {"refused", "app", "work"}
      /\ n.pc \in {"app", "work"} => Permits(n.role, n.tool.gate)
  BY <1>1, <1>2, GateKeeps DEF Kept
<1>6. Honest(k) => Honest(n)
  <2>1. Honest(k) => k.entry = "none" /\ k.archived = FALSE
    BY <1>1 DEF Honest
  <2> QED BY <1>1, <1>2, <2>1, GateHonest
<1>7. n.tool.gate # "none" /\ Permits(n.role, n.tool.gate) => n.role # "DENIED"
  BY DEF Permits, RoleTools, Role
<1>8. k.role # "DENIED" => Lately(now, lastHeld[k.user][k.role])
  BY <1>1, ReplyLately
<1>9. Admitted(k, n)
  BY <1>5, <1>7, <1>8 DEF Admitted, Kept
<1>10. Denied(k, n) /\ ReadNow(n)
  BY <1>1, <1>5 DEF Denied, ReadNow, Closed
<1> QED BY <1>2, <1>3, <1>4, <1>5, <1>6, <1>9, <1>10 DEF Step, Kept

LEMMA LookupFailsStep ==
    ASSUME RoleInv, NEW c \in Call, LookupFails(c)
    PROVE  \E n : Step(c, n)
<1> DEFINE k == call[c]
<1>1. k \in CallState /\ k.pc \in {"lookup", "reply"} /\ "DENIED" \in Role
  BY DEF LookupFails, RoleInv, TypeOK, Role
<1>2. PICK n \in Gate(k, "DENIED") : call' = [call EXCEPT ![c] = n]
  BY DEF LookupFails
<1>3. SameSession /\ Elsewhere
  BY DEF LookupFails, SameSession, Elsewhere
<1>4. /\ Kept(k, n) /\ n.role = "DENIED" /\ n.pc \in {"refused", "app", "work"}
      /\ n.pc \in {"app", "work"} => Permits(n.role, n.tool.gate)
  BY <1>1, <1>2, GateKeeps DEF Kept
<1>5. Honest(k) => Honest(n)
  <2>1. Honest(k) => k.entry = "none" /\ k.archived = FALSE
    BY <1>1 DEF Honest
  <2> QED BY <1>1, <1>2, <2>1, GateHonest
<1>6. n.tool.gate # "none" => n.pc \notin {"app", "work"}
  BY <1>4, DeniedIsRefused DEF Kept
<1>7. Admitted(k, n) /\ Denied(k, n) /\ ReadNow(n)
  BY <1>1, <1>4, <1>6 DEF Admitted, Denied, ReadNow, Closed
<1> QED BY <1>2, <1>3, <1>4, <1>5, <1>7 DEF Step, Kept

LEMMA AppGateStep ==
    ASSUME RoleInv, NEW c \in Call, AppGate(c)
    PROVE  \E n : Step(c, n)
<1> DEFINE k == call[c]
<1>1. k \in CallState /\ k.pc = "app"
  BY DEF AppGate, RoleInv, TypeOK
<1>2. PICK n \in Licence(k) \cup {Refused(k)} : call' = [call EXCEPT ![c] = n]
  BY DEF AppGate
<1>3. SameSession /\ Elsewhere
  BY DEF AppGate, SameSession, Elsewhere
<1>4. Kept(k, n) /\ n.role = k.role /\ n.pc \in {"refused", "work"}
  BY <1>1, <1>2, LicenceKeeps, RefusedKeeps
<1>5. Honest(k) => Honest(n)
  <2> SUFFICES ASSUME Honest(k) PROVE Honest(n)
    OBVIOUS
  <2>1. k.entry = "none" /\ k.archived = FALSE /\ Permits(k.role, k.tool.gate)
    BY <1>1 DEF Honest
  <2>2. CASE n \in Licence(k)
    BY <1>1, <2>1, <2>2, LicenceHonest
  <2>3. CASE n = Refused(k)
    BY <1>1, <1>4, <2>1, <2>3, RefusedKeeps DEF Honest, Kept
  <2> QED BY <1>2, <2>2, <2>3
<1>6. Admitted(k, n) /\ Denied(k, n) /\ ReadNow(n)
  BY <1>1, <1>4 DEF Admitted, Denied, ReadNow, Closed
<1> QED BY <1>2, <1>3, <1>4, <1>5, <1>6 DEF Step, Kept

(* The steps of the body: no gate is passed, the session stays.            *)
LEMMA BodyStep ==
    ASSUME NEW c \in Call, NEW n \in CallState, Becomes(c, n),
           call[c].pc \in {"lookup", "reply", "app", "work"},
           n.pc \in {"idle", "work", "answered", "failed", "cancelled"},
           n.pc = "work" => call[c].pc = "work",
           Honest(call[c]) => Honest(n)
    PROVE  Step(c, n)
<1>1. Admitted(call[c], n) /\ Denied(call[c], n) /\ ReadNow(n)
  BY DEF Admitted, Denied, ReadNow
<1>2. call' = [call EXCEPT ![c] = n] /\ SameSession /\ Elsewhere
  BY DEF Becomes, SameSession, Elsewhere
<1> QED BY <1>1, <1>2 DEF Step

(* How a call may end, by what has become of its requests.                 *)
LEMMA EndedHonest ==
    ASSUME NEW k \in CallState, k.pc = "work", NEW j \in CallState,
           j.tool = k.tool, j.role = k.role,
           NEW pc \in {"answered", "failed", "cancelled"},
           pc = "answered" => j.archived = k.archived /\ k.work = <<>>
    PROVE  Honest(k) => Honest(Ended(j, pc))
<1> SUFFICES ASSUME Honest(k) PROVE Honest(Ended(j, pc))
  OBVIOUS
<1> DEFINE e == Ended(j, pc)
<1>1. /\ e.pc = pc /\ e.entry = Entry(j, pc) /\ e.tool = k.tool /\ e.role = k.role
      /\ e.archived = j.archived
  BY EndedKeeps DEF Closed
<1>2. Permits(k.role, k.tool.gate)
  BY DEF Honest
<1>3. pc = "answered" /\ k.tool.audit = "success" => e.archived
  <2>1. <<>> # <<"archive">>
    OBVIOUS
  <2>2. pc = "answered" /\ k.tool.audit = "success" => k.archived
    BY <2>1 DEF Honest
  <2> QED BY <1>1, <2>2
<1> HIDE DEF e
<1>4. k.tool.audit = "success" =>
        /\ e.entry # "none" <=> pc = "answered"
        /\ e.entry # "none" => e.entry = "success" /\ e.archived
  BY <1>1, <1>3 DEF Entry
<1>5. Honest(e)
  BY <1>1, <1>2, <1>4 DEF Honest
<1> QED BY <1>5 DEF e

LEMMA AnsweredStep ==
    ASSUME RoleInv, NEW c \in Call, Answered(c)
    PROVE  \E n : Step(c, n)
<1> DEFINE k == call[c]
           n == Rest(k)
<1>0. call \in [Call -> CallState]
  BY DEF RoleInv, TypeOK
<1>1. /\ k \in CallState /\ k.pc = "work" /\ k.work # <<>>
      /\ Head(k.work) \in {"get", "try"} /\ Becomes(c, n)
  BY <1>0 DEF Answered, Working
<1>2. /\ n \in CallState /\ n.pc = "work" /\ n.entry = k.entry /\ n.tool = k.tool
      /\ n.role = k.role /\ n.archived = k.archived
  BY <1>1, RestKeeps
<1>3. k.work # <<"archive">>
  BY <1>1
<1>4. Honest(k) => Honest(n)
  BY <1>1, <1>2, <1>3 DEF Honest
<1> QED BY <1>1, <1>2, <1>4, BodyStep

LEMMA RequestFailsStep ==
    ASSUME RoleInv, NEW c \in Call, RequestFails(c)
    PROVE  \E n : Step(c, n)
<1> DEFINE k == call[c]
           n == Ended(k, "failed")
<1>1. k \in CallState /\ k.pc = "work" /\ Becomes(c, n)
  BY DEF RequestFails, Working, RoleInv, TypeOK
<1>2. Honest(k) => Honest(n)
  BY <1>1, EndedHonest
<1>3. n \in CallState /\ n.pc = "failed"
  BY <1>1, EndedKeeps DEF Closed
<1> QED BY <1>1, <1>2, <1>3, BodyStep

LEMMA ArchiveStep ==
    ASSUME RoleInv, NEW c \in Call, Archive(c)
    PROVE  \E n : Step(c, n)
<1> DEFINE k == call[c]
           j == [k EXCEPT !.archived = TRUE]
<1>1. /\ k \in CallState /\ k.pc = "work" /\ k.work # <<>>
      /\ Becomes(c, Rest(j)) \/ Becomes(c, Ended(j, "failed"))
  BY DEF Archive, Working, RoleInv, TypeOK
<1>2. /\ j \in CallState /\ j.pc = "work" /\ j.tool = k.tool /\ j.role = k.role
      /\ j.entry = k.entry /\ j.archived = TRUE /\ j.work = k.work
  BY <1>1 DEF CallState
<1> HIDE DEF j
<1>3. CASE Becomes(c, Rest(j))
  <2>1. /\ Rest(j) \in CallState /\ Rest(j).pc = "work" /\ Rest(j).entry = k.entry
        /\ Rest(j).tool = k.tool /\ Rest(j).role = k.role
        /\ Rest(j).archived = TRUE /\ Rest(j).work = Tail(k.work)
    BY <1>1, <1>2, RestKeeps
  <2>2. k.work = <<"archive">> => Tail(k.work) = <<>>
    OBVIOUS
  <2>3. Honest(k) => Honest(Rest(j))
    BY <1>1, <2>1, <2>2 DEF Honest
  <2> QED BY <1>1, <1>3, <2>1, <2>3, BodyStep
<1>4. CASE Becomes(c, Ended(j, "failed"))
  <2>1. Honest(k) => Honest(Ended(j, "failed"))
    BY <1>1, <1>2, EndedHonest
  <2>2. Ended(j, "failed") \in CallState /\ Ended(j, "failed").pc = "failed"
    BY <1>2, EndedKeeps DEF Closed
  <2> QED BY <1>1, <1>4, <2>1, <2>2, BodyStep
<1> QED BY <1>1, <1>3, <1>4

LEMMA ReturnStep ==
    ASSUME RoleInv, NEW c \in Call, Return(c)
    PROVE  \E n : Step(c, n)
<1> DEFINE k == call[c]
           n == Ended(k, "answered")
<1>1. k \in CallState /\ k.pc = "work" /\ k.work = <<>> /\ Becomes(c, n)
  BY DEF Return, RoleInv, TypeOK
<1>2. Honest(k) => Honest(n)
  BY <1>1, EndedHonest
<1>3. n \in CallState /\ n.pc = "answered"
  BY <1>1, EndedKeeps DEF Closed
<1> QED BY <1>1, <1>2, <1>3, BodyStep

LEMMA CancelStep ==
    ASSUME RoleInv, NEW c \in Call, Cancel(c)
    PROVE  \E n : Step(c, n)
<1> DEFINE k == call[c]
<1>1. k \in CallState
  BY DEF RoleInv, TypeOK
<1>2. CASE k.pc \in {"lookup", "reply", "app"} /\ Becomes(c, NoCall)
  <2>1. Honest(NoCall)
    BY DEF Honest, NoCall, NewCall
  <2> QED BY <1>2, <2>1, NoCallType, BodyStep
<1>3. CASE /\ k.pc = "work"
           /\ \E reached \in {k.archived, k.archived \/ Head(k.work) = "archive"} :
                Becomes(c, Ended([k EXCEPT !.archived = reached], "cancelled"))
  <2>1. PICK reached \in {k.archived, k.archived \/ Head(k.work) = "archive"} :
          Becomes(c, Ended([k EXCEPT !.archived = reached], "cancelled"))
    BY <1>3
  <2> DEFINE j == [k EXCEPT !.archived = reached]
  <2>2. reached \in BOOLEAN
    BY <1>1 DEF CallState
  <2>3. j \in CallState /\ j.tool = k.tool /\ j.role = k.role
    BY <1>1, <2>2 DEF CallState
  <2>4. Ended(j, "cancelled") \in CallState /\ Ended(j, "cancelled").pc = "cancelled"
    BY <2>3, EndedKeeps DEF Closed
  <2>5. Becomes(c, Ended(j, "cancelled"))
    BY <2>1
  <2> HIDE DEF j
  <2>6. Honest(k) => Honest(Ended(j, "cancelled"))
    BY <1>1, <1>3, <2>3, EndedHonest
  <2> QED BY <1>3, <2>4, <2>5, <2>6, BodyStep
<1> QED BY <1>2, <1>3 DEF Cancel

LEMMA CallStepStep ==
    ASSUME RoleInv, EntryInv, NEW c \in Call, CallStep(c)
    PROVE  \E n : Step(c, n)
BY ArriveStep, RoleReadStep, RoleArrivesStep, LookupFailsStep, AppGateStep, AnsweredStep,
   RequestFailsStep, ArchiveStep, ReturnStep, CancelStep DEF CallStep

-----------------------------------------------------------------------------
LEMMA MarkedType ==
    ASSUME NEW marks \in [User -> [Granting -> Int]], NEW h, NEW t \in Int
    PROVE  Marked(marks, h, t) \in [User -> [Granting -> Int]]
BY DEF Marked

LEMMA InitInv == Init => RoleInv /\ EntryInv
<1> SUFFICES ASSUME Init PROVE RoleInv /\ EntryInv
  OBVIOUS
<1>1. SessionTTL \in Nat /\ MaxLookup \in Nat /\ -SessionTTL \in Int /\ -SessionTTL <= 0
      /\ -(SessionTTL + MaxLookup) \in Int /\ -(SessionTTL + MaxLookup) <= 0
  BY SessionTTLAssumption, MaxLookupAssumption
<1>2. Never \in [User -> [Granting -> Int]]
  BY <1>1 DEF Never
<1>3. lastHeld \in [User -> [Granting -> Int]]
  BY <1>2, MarkedType DEF Init
<1>4. TypeOK
  <2>1. "DENIED" \in Role
    BY DEF Role
  <2>2. session \in [User -> [role : Role, at : Int]] /\ \A u \in User : session[u].at <= now
    BY <1>1, <2>1 DEF Init, NoSession
  <2>3. call \in [Call -> CallState]
    BY NoCallType DEF Init
  <2> QED BY <1>3, <2>2, <2>3, InitHeldAssumption DEF Init, TypeOK
<1>5. MarksInv
  <2>1. \A u \in User, r \in Granting :
          lastHeld[u][r] = IF \E k \in Controller : MapRole(held[k][u]) = r THEN 0 ELSE Never[u][r]
    BY DEF Init, Marked
  <2>2. \A u \in User, r \in Granting : Never[u][r] <= 0
    BY <1>1 DEF Never
  <2>3. now = 0
    BY DEF Init
  <2> QED BY <2>1, <2>2, <2>3 DEF MarksInv
<1>6. SessionInv
  BY DEF Init, SessionInv, NoSession
<1>7. ReplyInv
  BY NoCallType DEF Init, ReplyInv
<1>8. \A c \in Call : Honest(call[c])
  <2>1. Honest(NoCall)
    BY DEF Honest, NoCall, NewCall
  <2> QED BY <2>1 DEF Init
<1> QED BY <1>4, <1>5, <1>6, <1>7, <1>8 DEF RoleInv, EntryInv

(* A step of one call.                                                     *)
LEMMA CallKeeps ==
    ASSUME RoleInv, EntryInv, NEW c \in Call, NEW n, Step(c, n)
    PROVE  RoleInv' /\ EntryInv'
<1>1. /\ n \in CallState /\ call' = [call EXCEPT ![c] = n] /\ ReadNow(n)
      /\ now' = now /\ held' = held /\ lastHeld' = lastHeld /\ licensed' = licensed
      /\ scoped' = scoped /\ changes' = changes /\ restarts' = restarts
      /\ Honest(call[c]) => Honest(n)
  BY DEF Step, Elsewhere
<1>2. /\ now \in Nat /\ call \in [Call -> CallState]
      /\ session \in [User -> [role : Role, at : Int]]
      /\ lastHeld \in [User -> [Granting -> Int]]
  BY DEF RoleInv, TypeOK
<1>3. call' \in [Call -> CallState]
  BY <1>1, <1>2
<1>4. \A d \in Call : call'[d] = IF d = c THEN n ELSE call[d]
  BY <1>1, <1>2
<1>6. /\ session' \in [User -> [role : Role, at : Int]]
      /\ \A u \in User : session'[u].at <= now
      /\ SessionInv'
  <2>1. CASE SameSession
    <3>1. session' = session
      BY <2>1 DEF SameSession
    <3> QED BY <1>1, <3>1 DEF RoleInv, TypeOK, SessionInv
  <2>2. CASE NewSession(call[c])
    <3> DEFINE k == call[c]
               s == [role |-> k.role, at |-> now]
    <3>1. k.user \in User /\ k.role \in Role /\ k.role \in Granting /\ k.read \in Int
      BY <1>2, <2>2 DEF CallState, NewSession, Granting
    <3>2. session' = [session EXCEPT ![k.user] = s]
      BY <2>2 DEF NewSession
    <3>3. s \in [role : Role, at : Int]
      BY <1>2, <3>1
    <3>4. k.pc = "reply" /\ k.role # "DENIED"
      BY <2>2 DEF NewSession
    <3>5. now - lastHeld[k.user][k.role] <= MaxLookup
      <4>1. now - k.read <= MaxLookup /\ k.read <= lastHeld[k.user][k.role]
        BY <3>4 DEF RoleInv, ReplyInv
      <4>2. lastHeld[k.user][k.role] \in Int
        BY <1>2, <3>1
      <4> DEFINE mark == lastHeld[k.user][k.role]
      <4> HIDE DEF mark
      <4>3. mark \in Int /\ k.read <= mark
        BY <4>1, <4>2 DEF mark
      <4>4. now - mark <= MaxLookup
        BY <1>2, <3>1, <4>1, <4>3, MaxLookupAssumption
      <4> QED BY <4>4 DEF mark
    <3>6. \A u \in User : session'[u] = IF u = k.user THEN s ELSE session[u]
      BY <1>2, <3>2
    <3>7. session' \in [User -> [role : Role, at : Int]]
      BY <1>2, <3>2, <3>3
    <3>8. \A u \in User : session'[u].at <= now
      BY <1>2, <3>6 DEF RoleInv, TypeOK
    <3>9. SessionInv'
      BY <1>1, <3>4, <3>5, <3>6 DEF RoleInv, SessionInv
    <3> QED BY <3>7, <3>8, <3>9
  <2> QED BY <2>1, <2>2 DEF Step
<1>7. TypeOK'
  BY <1>1, <1>3, <1>6 DEF RoleInv, TypeOK
<1>8. MarksInv'
  BY <1>1 DEF RoleInv, MarksInv
<1>9. ReplyInv'
  <2> SUFFICES ASSUME NEW d \in Call, call'[d].pc = "reply"
               PROVE  /\ call'[d].read <= now /\ now - call'[d].read <= MaxLookup
                      /\ call'[d].role # "DENIED" =>
                           call'[d].read <= lastHeld[call'[d].user][call'[d].role]
    BY <1>1 DEF ReplyInv
  <2>1. CASE d # c
    BY <1>4, <2>1 DEF RoleInv, ReplyInv
  <2>2. CASE d = c
    <3>1. call'[d] = n
      BY <1>4, <2>2
    <3>2. PICK k \in Controller : n.read = now /\ n.role = MapRole(held[k][n.user])
      BY <1>1, <3>1 DEF ReadNow
    <3>3. n.user \in User /\ n.role \in Role
      BY <1>1 DEF CallState
    <3>4. n.role # "DENIED" => lastHeld[n.user][n.role] = now
      BY <3>2, <3>3 DEF RoleInv, MarksInv, Granting
    <3> QED BY <1>2, <3>1, <3>2, <3>4, MaxLookupAssumption
  <2> QED BY <2>1, <2>2
<1>10. \A d \in Call : Honest(call'[d])
  BY <1>1, <1>4 DEF EntryInv
<1> QED BY <1>7, <1>6, <1>8, <1>9, <1>10 DEF RoleInv, EntryInv, Honest
(* The marks only move forward, and mark what is held.                     *)
LEMMA MarkedNow ==
    ASSUME RoleInv, NEW h \in [Controller -> [User -> NameSets]], NEW t \in Nat, now <= t
    PROVE  LET m == Marked(lastHeld, h, t) IN
           /\ m \in [User -> [Granting -> Int]]
           /\ \A u \in User, r \in Granting : lastHeld[u][r] <= m[u][r] /\ m[u][r] <= t
           /\ \A u \in User, k \in Controller :
                MapRole(h[k][u]) \in Granting => m[u][MapRole(h[k][u])] = t
<1>1. lastHeld \in [User -> [Granting -> Int]] /\ now \in Nat
  BY DEF RoleInv, TypeOK
<1>2. \A u \in User, r \in Granting :
        Marked(lastHeld, h, t)[u][r] =
          IF \E k \in Controller : MapRole(h[k][u]) = r THEN t ELSE lastHeld[u][r]
  BY DEF Marked
<1>3. \A u \in User, r \in Granting : lastHeld[u][r] \in Int /\ lastHeld[u][r] <= now
  BY <1>1 DEF RoleInv, MarksInv
<1>4. Marked(lastHeld, h, t) \in [User -> [Granting -> Int]]
  BY <1>1, MarkedType
<1>5. \A u \in User, r \in Granting :
        lastHeld[u][r] <= Marked(lastHeld, h, t)[u][r] /\ Marked(lastHeld, h, t)[u][r] <= t
  BY <1>1, <1>2, <1>3
<1>6. \A u \in User, k \in Controller :
        MapRole(h[k][u]) \in Granting => Marked(lastHeld, h, t)[u][MapRole(h[k][u])] = t
  BY <1>2
<1> QED BY <1>4, <1>5, <1>6

(* Sessions and replies stand when the marks move forward.                 *)
LEMMA WorldKeeps ==
    ASSUME RoleInv, EntryInv, session' = session, call' = call, now' \in Nat, now <= now',
           licensed' = licensed, scoped' = scoped, changes' \in Nat, restarts' \in Nat,
           held' \in [Controller -> [User -> NameSets]],
           lastHeld' = Marked(lastHeld, held', now'),
           \A c \in Call : call[c].pc = "reply" => now' - call[c].read <= MaxLookup
    PROVE  RoleInv' /\ EntryInv'
<1>1. /\ lastHeld' \in [User -> [Granting -> Int]]
      /\ \A u \in User, r \in Granting : lastHeld[u][r] <= lastHeld'[u][r] /\ lastHeld'[u][r] <= now'
      /\ \A u \in User, k \in Controller :
           MapRole(held'[k][u]) \in Granting => lastHeld'[u][MapRole(held'[k][u])] = now'
  <2> DEFINE h == held'
             t == now'
  <2>1. h \in [Controller -> [User -> NameSets]] /\ t \in Nat /\ now <= t /\ lastHeld' = Marked(lastHeld, h, t)
    OBVIOUS
  <2> HIDE DEF h, t
  <2> DEFINE m == Marked(lastHeld, h, t)
  <2>2. /\ m \in [User -> [Granting -> Int]]
        /\ \A u \in User, r \in Granting : lastHeld[u][r] <= m[u][r] /\ m[u][r] <= t
        /\ \A u \in User, k \in Controller :
             MapRole(h[k][u]) \in Granting => m[u][MapRole(h[k][u])] = t
    BY <2>1, MarkedNow
  <2>3. lastHeld' = m
    BY <2>1
  <2> HIDE DEF m
  <2> QED BY <2>2, <2>3 DEF h, t
<1>2. /\ now \in Nat /\ call \in [Call -> CallState]
      /\ session \in [User -> [role : Role, at : Int]]
      /\ lastHeld \in [User -> [Granting -> Int]]
      /\ \A u \in User : session[u].at <= now
  BY DEF RoleInv, TypeOK
<1>3. TypeOK'
  <2>1. \A u \in User : session[u].at <= now'
    BY <1>2
  <2> QED BY <1>1, <1>2, <2>1 DEF RoleInv, TypeOK
<1>4. MarksInv'
  BY <1>1 DEF MarksInv
<1>5. SessionInv'
  <2> SUFFICES ASSUME NEW u \in User, session[u].role # "DENIED"
               PROVE  session[u].at - lastHeld'[u][session[u].role] <= MaxLookup
    BY DEF RoleInv, SessionInv
  <2>1. session[u].role \in Granting /\ session[u].at \in Int
    BY <1>2 DEF Granting
  <2> DEFINE old == lastHeld[u][session[u].role]
             new == lastHeld'[u][session[u].role]
  <2>2. old \in Int /\ new \in Int /\ old <= new
    BY <1>1, <1>2, <2>1
  <2>3. session[u].at - old <= MaxLookup
    BY DEF RoleInv, SessionInv
  <2> HIDE DEF old, new
  <2>4. session[u].at - new <= MaxLookup
    BY <2>1, <2>2, <2>3, MaxLookupAssumption
  <2> QED BY <2>4 DEF new
<1>6. ReplyInv'
  <2> SUFFICES ASSUME NEW c \in Call, call[c].pc = "reply"
               PROVE  /\ call[c].read <= now' /\ now' - call[c].read <= MaxLookup
                      /\ call[c].role # "DENIED" =>
                           call[c].read <= lastHeld'[call[c].user][call[c].role]
    BY DEF ReplyInv
  <2>1. /\ call[c].user \in User /\ call[c].role \in Role /\ call[c].read \in Int
        /\ call[c].read <= now
    BY <1>2 DEF CallState, RoleInv, ReplyInv
  <2>2. ASSUME call[c].role # "DENIED"
        PROVE  call[c].read <= lastHeld'[call[c].user][call[c].role]
    <3>1. call[c].role \in Granting /\ call[c].read <= lastHeld[call[c].user][call[c].role]
      BY <2>1, <2>2 DEF Granting, RoleInv, ReplyInv
    <3> DEFINE old == lastHeld[call[c].user][call[c].role]
               new == lastHeld'[call[c].user][call[c].role]
    <3>2. old \in Int /\ new \in Int /\ old <= new /\ call[c].read <= old
      BY <1>1, <1>2, <2>1, <3>1
    <3> HIDE DEF old, new
    <3>3. call[c].read <= new
      BY <2>1, <3>2
    <3> QED BY <3>3 DEF new
  <2> QED BY <1>2, <2>1, <2>2
<1>7. \A c \in Call : Honest(call'[c])
  BY DEF EntryInv
<1> QED BY <1>3, <1>4, <1>5, <1>6, <1>7 DEF RoleInv, EntryInv, Honest

LEMMA TickKeeps ==
    ASSUME RoleInv, EntryInv, Tick
    PROVE  RoleInv' /\ EntryInv'
<1>1. now \in Nat /\ held \in [Controller -> [User -> NameSets]] /\ changes \in Nat /\ restarts \in Nat
      /\ call \in [Call -> CallState]
  BY DEF RoleInv, TypeOK
<1>2. \A c \in Call : call[c].pc = "reply" => now' - call[c].read <= MaxLookup
  <2> SUFFICES ASSUME NEW c \in Call, call[c].pc = "reply"
               PROVE  now' - call[c].read <= MaxLookup
    OBVIOUS
  <2>1. now' = now + 1 /\ now - call[c].read < MaxLookup /\ call[c].read \in Int
    BY <1>1 DEF Tick, CallState
  <2> QED BY <1>1, <2>1, MaxLookupAssumption
<1>3. /\ now' = now + 1 /\ held' = held /\ lastHeld' = Marked(lastHeld, held', now')
      /\ session' = session /\ call' = call /\ licensed' = licensed /\ scoped' = scoped
      /\ changes' = changes /\ restarts' = restarts
  BY DEF Tick
<1>4. now' \in Nat /\ now <= now'
  BY <1>1, <1>3
<1> QED BY <1>1, <1>2, <1>3, <1>4, WorldKeeps

LEMMA ChangeKeeps ==
    ASSUME RoleInv, EntryInv, Change
    PROVE  RoleInv' /\ EntryInv'
<1>1. now \in Nat /\ held \in [Controller -> [User -> NameSets]] /\ changes \in Nat /\ restarts \in Nat
  BY DEF RoleInv, TypeOK
<1>2. held' \in [Controller -> [User -> NameSets]] /\ changes' \in Nat
  <2>1. PICK k \in Controller, u \in User, names \in NameSets :
          held' = [held EXCEPT ![k][u] = names]
    BY DEF Change
  <2> QED BY <1>1, <2>1 DEF Change
<1>3. /\ now' = now /\ lastHeld' = Marked(lastHeld, held', now')
      /\ session' = session /\ call' = call /\ licensed' = licensed /\ scoped' = scoped
      /\ restarts' = restarts
  BY DEF Change
<1>4. \A c \in Call : call[c].pc = "reply" => now' - call[c].read <= MaxLookup
  BY <1>3 DEF RoleInv, ReplyInv
<1> QED BY <1>1, <1>2, <1>3, <1>4, WorldKeeps

LEMMA RestartKeeps ==
    ASSUME RoleInv, EntryInv, Restart
    PROVE  RoleInv' /\ EntryInv'
<1>1. /\ now' = now /\ held' = held /\ lastHeld' = lastHeld /\ changes' = changes
      /\ restarts' = restarts + 1 /\ licensed' \in Detected /\ scoped' \in SUBSET Configured
      /\ session' = [u \in User |-> NoSession] /\ call' = [c \in Call |-> NoCall]
  BY DEF Restart
<1>2. TypeOK'
  <2>1. "DENIED" \in Role /\ now \in Nat /\ restarts \in Nat /\ SessionTTL \in Nat
    BY SessionTTLAssumption DEF Role, RoleInv, TypeOK
  <2>2. NoSession \in [role : Role, at : Int] /\ NoSession.at <= now
    BY <2>1 DEF NoSession
  <2>3. call' \in [Call -> CallState]
    BY <1>1, NoCallType
  <2> QED BY <1>1, <2>1, <2>2, <2>3 DEF RoleInv, TypeOK
<1>3. MarksInv'
  BY <1>1 DEF RoleInv, MarksInv
<1>4. SessionInv'
  BY <1>1 DEF SessionInv, NoSession
<1>5. ReplyInv'
  BY <1>1, NoCallType DEF ReplyInv
<1>6. \A c \in Call : Honest(call'[c])
  <2>1. Honest(NoCall)
    BY DEF Honest, NoCall, NewCall
  <2> QED BY <1>1, <2>1
<1> QED BY <1>2, <1>3, <1>4, <1>5, <1>6 DEF RoleInv, EntryInv, Honest

LEMMA NextKeeps ==
    ASSUME RoleInv, EntryInv, [Next]_vars
    PROVE  RoleInv' /\ EntryInv'
<1>1. ASSUME NEW c \in Call, CallStep(c) PROVE RoleInv' /\ EntryInv'
  BY <1>1, CallStepStep, CallKeeps
<1>2. CASE UNCHANGED vars
  BY <1>2 DEF vars, RoleInv, TypeOK, MarksInv, SessionInv, ReplyInv, EntryInv, Honest
<1> QED BY <1>1, <1>2, RestartKeeps, ChangeKeeps, TickKeeps DEF Next

(* The inductive invariant of the sessions, the lookups and the calls      *)
(* (_sessions, get_user_role, the handlers of main.py).                    *)
THEOREM Invariant == Spec => [](RoleInv /\ EntryInv)
<1>1. RoleInv /\ EntryInv /\ [Next]_vars => (RoleInv /\ EntryInv)'
  BY NextKeeps
<1> QED BY InitInv, <1>1, PTL DEF Spec

(* Every variable of the tool pipeline has its type, and no session is     *)
(* stamped ahead of the clock (_sessions).                                 *)
THEOREM TypeCorrect == Spec => []TypeOK
<1>1. RoleInv => TypeOK
  BY DEF RoleInv
<1> QED BY Invariant, <1>1, PTL

(* However lookups overlap, fail and are overtaken, require_permission     *)
(* admits only for a role the user held within SESSION_TTL_S and the time  *)
(* of a lookup (get_user_role).                                            *)
THEOREM AdmittedByHeld == Spec => AdmittedByHeldRole
<1>1. RoleInv /\ EntryInv /\ [Next]_vars =>
      [\A c \in Call :
         /\ call[c].pc \notin {"app", "work"} /\ call'[c].pc \in {"app", "work"}
         /\ call'[c].tool.gate # "none"
         => /\ Permits(call'[c].role, call'[c].tool.gate)
            /\ Lately(now, lastHeld[call'[c].user][call'[c].role])]_vars
  <2> SUFFICES ASSUME RoleInv, EntryInv, Next, NEW c \in Call,
                      call[c].pc \notin {"app", "work"}, call'[c].pc \in {"app", "work"},
                      call'[c].tool.gate # "none"
               PROVE  /\ Permits(call'[c].role, call'[c].tool.gate)
                      /\ Lately(now, lastHeld[call'[c].user][call'[c].role])
    OBVIOUS
  <2>1. CASE \E d \in Call : CallStep(d)
    <3>0. PICK d \in Call : CallStep(d)
      BY <2>1
    <3>1. PICK n : Step(d, n)
      BY <3>0, CallStepStep
    <3>2. call' = [call EXCEPT ![d] = n] /\ Admitted(call[d], n) /\ call \in [Call -> CallState]
      BY <3>1 DEF Step, RoleInv, TypeOK
    <3>3. d = c /\ call'[c] = n
      BY <3>2
    <3> QED BY <3>2, <3>3 DEF Admitted
  <2>2. CASE Tick \/ Change
    BY <2>2 DEF Tick, Change
  <2>3. CASE Restart
    BY <2>3, NoCallType DEF Restart
  <2> QED BY <2>1, <2>2, <2>3 DEF Next
<1> QED BY Invariant, <1>1, PTL DEF Spec, AdmittedByHeldRole

(* A call refused without a lookup of its own is refused for a role the    *)
(* user lately held: a denial is never remembered (get_user_role).         *)
THEOREM RefusedByHeld == Spec => RefusedByHeldRole
<1>1. RoleInv /\ EntryInv /\ [Next]_vars =>
      [\A c \in Call :
         call[c].pc \in Closed /\ call'[c].pc = "refused" /\ call'[c] # call[c]
         => call'[c].role # "DENIED" /\ Lately(now, lastHeld[call'[c].user][call'[c].role])]_vars
  <2> SUFFICES ASSUME RoleInv, EntryInv, Next, NEW c \in Call,
                      call[c].pc \in Closed, call'[c].pc = "refused", call'[c] # call[c]
               PROVE  call'[c].role # "DENIED" /\ Lately(now, lastHeld[call'[c].user][call'[c].role])
    OBVIOUS
  <2>1. CASE \E d \in Call : CallStep(d)
    <3>0. PICK d \in Call : CallStep(d)
      BY <2>1
    <3>1. PICK n : Step(d, n)
      BY <3>0, CallStepStep
    <3>2. call' = [call EXCEPT ![d] = n] /\ Denied(call[d], n) /\ call \in [Call -> CallState]
      BY <3>1 DEF Step, RoleInv, TypeOK
    <3>3. d = c /\ call'[c] = n
      BY <3>2
    <3> QED BY <3>2, <3>3 DEF Denied
  <2>2. CASE Tick \/ Change
    BY <2>2 DEF Tick, Change
  <2>3. CASE Restart
    BY <2>3, NoCallType DEF Restart
  <2> QED BY <2>1, <2>2, <2>3 DEF Next
<1> QED BY Invariant, <1>1, PTL DEF Spec, RefusedByHeldRole

(* Whatever fails or is cancelled: a snapshot is archived only for a role  *)
(* that permits it, the answered calls of archive_snapshot and no others   *)
(* have their entry, and what those told was archived (main.py:1156).      *)
THEOREM ArchivesAccounted == Spec => []ArchiveAccounted
<1>1. EntryInv => ArchiveAccounted
  BY DEF EntryInv, Honest, ArchiveAccounted
<1> QED BY Invariant, <1>1, PTL
=============================================================================
