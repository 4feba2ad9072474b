------------------------------- MODULE Startup -------------------------------
(***************************************************************************)
(* The life of the process: startup() and main() of main.py, the health    *)
(* tool (services/health.py), the signals, death and restart, around the   *)
(* applications registry that startup seeds.                               *)
(*                                                                         *)
(* Which failure ends the process and which does not: a controller without *)
(* a token does, and so does an outage of Vault wherever it is met, since  *)
(* the retry ends in sys.exit; a failing version check, RBAC client,       *)
(* licence probe or listing does not.                                      *)
(***************************************************************************)
EXTENDS AppsRegistry, SequencesExt

CONSTANTS
    Order,       \* the controllers as controllers.json lists them
    WithRbac,    \* those with an rbacVaultPath
    Stdio,       \* MCP_TRANSPORT is stdio
    MaxRestarts  \* bound: starts after the first

ASSUME StartupAssumption ==
    /\ Order \in Seq(Controller) /\ IsInjective(Order) /\ Range(Order) = Controller
    /\ WithRbac \subseteq Controller /\ Stdio \in BOOLEAN /\ MaxRestarts \in Nat

VARIABLES
    pc,       \* the step of startup the process is at, "serving" or "ended"
    todo,     \* the controllers the present step has still to do
    tokens,   \* _token_managers and _clients: the controllers they hold
    vaultOk,  \* _vault_ok
    handler,  \* what a SIGTERM meets: "default", "flag" or "server"
    probe,    \* an open get_server_health
    verdict,  \* what the last step told a caller of it, if anything
    starts

process == <<pc, todo, tokens, vaultOk, handler, starts>>
health == <<probe, verdict>>
serverVars == <<vars, process, health>>

Steps == {"config", "token", "version", "rbac", "licences", "seeding", "ready", "serving", "ended"}

(* A probe: the controllers still to be asked, those that answered.        *)
NoProbe == [open |-> FALSE, todo |-> <<>>, answered |-> {}]

ServerInit ==
    /\ Init
    /\ pc = "config" /\ todo = <<>> /\ tokens = {} /\ vaultOk = FALSE
    /\ handler = "default" /\ starts = 0
    /\ probe = NoProbe /\ verdict = Nothing

-----------------------------------------------------------------------------
(* startup                                                                 *)

(* The process moves to a step; nothing else changes.                      *)
Goes(step, rest) ==
    /\ pc' = step /\ todo' = rest
    /\ UNCHANGED <<handler, starts, health>>

Quiet == told' = Nothing /\ UNCHANGED <<world, registry, call>>

ReadConfig ==
    /\ pc = "config" /\ Goes("token", Order) /\ Quiet
    /\ UNCHANGED <<tokens, vaultOk>>

(* Mutant: a controller that gives no token is passed over.                *)
TokenReadyOrNot ==
    /\ pc = "token" /\ todo # <<>>
    /\ \/ tokens' = tokens \cup {Head(todo)} /\ Goes("version", todo)
       \/ tokens' = tokens /\ Goes("token", Tail(todo))
    /\ Quiet
    /\ UNCHANGED vaultOk

(* The token manager is initialised, the client registered.                *)
TokenReady ==
    /\ pc = "token" /\ todo # <<>>
    /\ tokens' = tokens \cup {Head(todo)}
    /\ Goes("version", todo) /\ Quiet
    /\ UNCHANGED vaultOk

(* The process ends: no controllers.json, no token, sys.exit after Vault   *)
(* failed three times (in startup, in the RBAC client's too, or in a       *)
(* refresh loop), the liveness port taken.                                 *)
Ends ==
    /\ pc' = "ended" /\ todo' = <<>> /\ tokens' = {} /\ vaultOk' = FALSE /\ handler' = "default"
    /\ probe' = NoProbe /\ verdict' = Nothing
    /\ UNCHANGED starts
    /\ Forgets

Exit ==
    /\ pc \in {"config", "token", "ready"} \/ (tokens # {} /\ pc # "ended")
    /\ Ends

(* check_api_version logs what it finds.                                   *)
VersionChecked ==
    /\ pc = "version"
    /\ IF Head(todo) \in WithRbac THEN Goes("rbac", todo) ELSE Goes("token", Tail(todo))
    /\ Quiet
    /\ UNCHANGED <<tokens, vaultOk>>

(* The RBAC client starts, or its token is refused and it does not.        *)
RbacStarted ==
    /\ pc = "rbac"
    /\ Goes("token", Tail(todo)) /\ Quiet
    /\ UNCHANGED <<tokens, vaultOk>>

ControllersDone ==
    /\ pc = "token" /\ todo = <<>>
    /\ vaultOk' = TRUE
    /\ Goes("licences", <<>>) /\ Quiet
    /\ UNCHANGED tokens

(* The probes fail one by one without failing the detection.               *)
LicencesDetected ==
    /\ pc = "licences" /\ Goes("seeding", Order) /\ Quiet
    /\ UNCHANGED <<tokens, vaultOk>>

Asking == {c \in Call : call[c] # NoCall}

(* Mutant: the seeding is repeated until the registry is warm.             *)
SeedUntilWarm(c) ==
    /\ pc = "seeding" /\ todo # <<>> /\ Asking = {}
    /\ IF Warm(Head(todo)) THEN UNCHANGED call /\ Quiet ELSE Ask(c, Head(todo), "seed")
    /\ Goes("seeding", IF Warm(Head(todo)) THEN Tail(todo) ELSE todo)
    /\ UNCHANGED <<tokens, vaultOk>>

(* The registry is seeded one controller after the other.                  *)
Seed(c) ==
    /\ pc = "seeding" /\ todo # <<>> /\ Asking = {}
    /\ Ask(c, Head(todo), "seed")
    /\ Goes("seeding", Tail(todo))
    /\ UNCHANGED <<tokens, vaultOk>>

(* The rate limiter is started, the signal handlers are set.               *)
Seeded ==
    /\ pc = "seeding" /\ todo = <<>> /\ Asking = {}
    /\ pc' = "ready" /\ todo' = <<>> /\ handler' = "flag"
    /\ UNCHANGED <<starts, health, tokens, vaultOk>> /\ Quiet

(* The liveness server listens; the transport takes over, and with it, if  *)
(* it is HTTP, the signals.                                                *)
Serve ==
    /\ pc = "ready" /\ pc' = "serving" /\ handler' = IF Stdio THEN "flag" ELSE "server"
    /\ UNCHANGED <<todo, starts, health, tokens, vaultOk>> /\ Quiet

-----------------------------------------------------------------------------
(* SIGTERM, the end of stdin, restart                                      *)

(* The handler of health.py sets a stop event nobody reads; without it, or *)
(* with that of the HTTP server, the process ends.                         *)
Signal == pc # "ended" /\ handler # "flag" /\ Ends

StdinCloses == pc = "serving" /\ Stdio /\ Ends

Restart ==
    /\ pc = "ended" /\ starts < MaxRestarts /\ starts' = starts + 1
    /\ pc' = "config"
    /\ UNCHANGED <<todo, tokens, vaultOk, handler, health>> /\ Quiet

-----------------------------------------------------------------------------
(* compute_health                                                          *)

Probing == UNCHANGED process /\ Quiet

AskHealth ==
    /\ pc = "serving" /\ ~probe.open
    /\ probe' = [open |-> TRUE, todo |-> SetToSeq(tokens), answered |-> {}] /\ verdict' = Nothing
    /\ Probing

Pinged ==
    /\ probe.open /\ probe.todo # <<>>
    /\ probe' = [probe EXCEPT !.todo = Tail(@), !.answered = @ \cup {Head(probe.todo)}]
    /\ Probing /\ UNCHANGED verdict

(* Mutant: a ping that is never answered is waited for.                    *)
PingHangs ==
    /\ probe.open /\ probe.todo # <<>>
    /\ \E refused \in BOOLEAN : probe' = IF refused THEN [probe EXCEPT !.todo = Tail(@)] ELSE probe
    /\ Probing /\ UNCHANGED verdict

(* The ping fails, or is given up after five seconds.                      *)
PingFails ==
    /\ probe.open /\ probe.todo # <<>>
    /\ probe' = [probe EXCEPT !.todo = Tail(@)]
    /\ Probing /\ UNCHANGED verdict

(* Mutant: one controller that answered makes all of them reachable.       *)
ReachableSome == probe.answered # {} \/ tokens = {}

AllReachable == probe.answered = tokens

HealthComputed ==
    /\ probe.open /\ probe.todo = <<>>
    /\ verdict' = [status |-> IF AllReachable /\ vaultOk THEN "healthy"
                              ELSE IF AllReachable \/ vaultOk THEN "degraded" ELSE "unhealthy",
                   answered |-> probe.answered]
    /\ probe' = NoProbe
    /\ Probing

-----------------------------------------------------------------------------
Aside == UNCHANGED <<process, probe>> /\ verdict' = Nothing

(* Tool calls are answered while the process serves.                       *)
Tools ==
    /\ Aside
    /\ \/ pc = "serving" /\ \E c \in Call, k \in Controller :
            \/ ListWarm(c, k) \/ SummaryWarm(c, k)
            \/ \E kind \in {"list", "summary"} : Ask(c, k, kind)
       \/ \E c \in Call : CallStep(c)

World ==
    /\ Aside
    /\ (\E a \in App : Change(a)) \/ (\E k \in Controller : Damage(k)) \/ Tick

Starting ==
    \/ ReadConfig \/ TokenReady \/ VersionChecked \/ RbacStarted
    \/ ControllersDone \/ LicencesDetected \/ (\E c \in Call : Seed(c)) \/ Seeded \/ Serve

Health == Pinged \/ PingFails \/ HealthComputed

ServerNext ==
    \/ Starting \/ Exit \/ Signal \/ StdinCloses \/ Restart
    \/ AskHealth \/ Health \/ Tools \/ World

(* The event loop runs every ready task and every request has a timeout,   *)
(* so that each step of startup, of a call and of the health tool is taken *)
(* or the process ends.                                                    *)
Fairness ==
    /\ WF_serverVars(Starting) /\ WF_serverVars(Health)
    /\ \A c \in Call : WF_serverVars(CallStep(c) /\ Aside)

ServerSpec == ServerInit /\ [][ServerNext]_serverVars /\ Fairness

-----------------------------------------------------------------------------
(* A process that serves has a token manager and a client for every        *)
(* controller, so that no tool meets a controller startup has passed over, *)
(* and whatever failed at an earlier start has left nothing behind.        *)
ServesAll == pc \in {"ready", "serving"} => tokens = Controller /\ vaultOk

(* "healthy" is the word of every controller, each given during the call.  *)
HealthyMeansAnswered ==
    verdict # Nothing /\ verdict.status = "healthy" => verdict.answered = Controller

(* No controller is passed over, by startup or by the word of the health   *)
(* tool.                                                                   *)
NonePassedOver == ServesAll /\ HealthyMeansAnswered

(* Startup comes to an end: the process serves, or is gone.                *)
StartupDecides == pc = "config" ~> pc \in {"serving", "ended"}

(* The health tool answers although controllers hang.                      *)
HealthReturns == probe.open ~> ~probe.open

(* Every call of the tools that fan out over applications or controllers   *)
(* comes back.                                                             *)
FanOutsReturn == ListingsReturn /\ HealthReturns
=============================================================================
