---------------------------- MODULE TokenManager ----------------------------
(***************************************************************************)
(* The OAuth2 token of one controller: auth/appd_auth.py TokenManager,     *)
(* auth/vault_client.py fetch_credentials_with_retry, and the _get of the  *)
(* client that uses the token (client/appd_client.py with MaxTries = 3,    *)
(* client/rbac_client.py, which has no tenacity retry, with MaxTries = 1). *)
(*                                                                         *)
(* Processes are asyncio tasks: one per concurrent tool call (Caller) and  *)
(* the background _refresh_loop (Loop).  A task runs alone between two     *)
(* suspension points, so one action is the code from one await to the      *)
(* next.  The suspension points are the HTTP calls, asyncio.sleep and a    *)
(* contended TokenManager._lock.  Time is a coarse integer clock; the      *)
(* backoff sleeps inside a retry are a state a task leaves at any time.    *)
(***************************************************************************)
EXTENDS Integers, Sequences, SequencesExt

CONSTANTS
    Caller,         \* concurrent tool calls that share the client
    Loop,           \* the background refresh task
    None,           \* no owner of the lock
    Lifetime,       \* expires_in granted by the token endpoint
    RefreshBefore,  \* REFRESH_BEFORE_S
    RetryDelay,     \* sleep of the loop after a failed refresh (60 s)
    IdleDelay,      \* sleep of the loop while there is no token (10 s)
    MaxVaultTries,  \* _MAX_RETRIES
    MaxTries,       \* tenacity's stop_after_attempt
    MaxEvents       \* bound: ticks of the clock and tokens issued, together

Proc == Caller \cup {Loop}

ASSUME ProcAssumption ==
    /\ Loop \notin Caller
    /\ None \notin Proc

ASSUME NumberAssumption ==
    /\ Lifetime \in Nat /\ RefreshBefore \in Nat
    /\ RetryDelay \in Nat \ {0} /\ IdleDelay \in Nat \ {0}
    /\ MaxVaultTries \in Nat \ {0} /\ MaxTries \in Nat \ {0}
    /\ MaxEvents \in Nat

VARIABLES
    now,      \* the clock
    started,  \* initialise() has returned and tool calls are served
    exited,   \* sys.exit(1) was reached: the process is gone
    cache,    \* TokenManager._cache
    owner,    \* task that holds TokenManager._lock, or None
    waiters,  \* tasks queued on TokenManager._lock, in FIFO order
    pc,       \* suspension point each task is at
    attempt,  \* Vault attempt of a task inside _refresh
    grant,    \* token issued to a task whose response is on its way
    call,     \* locals of the tool call
    wake,     \* when the sleep of the loop ends
    lastWake, \* history: when the loop last left its sleep to refresh
    issued,   \* tokens the endpoint has issued so far
    revoked   \* tokens 1..revoked were revoked at the controller

lockVars == <<owner, waiters>>
loopVars == <<wake, lastWake>>
serverVars == <<issued, revoked>>
vars == <<now, started, exited, cache, lockVars, pc, attempt, grant, call,
          loopVars, serverVars>>

Later(a, b) == IF a > b THEN a ELSE b

(* Tokens are numbered in the order the endpoint issues them; 0 is none.   *)
(* dies is the expiry the controller enforces, counted from the issue;     *)
(* expires is TokenCache.expires_at, counted from the receipt.             *)
NoToken == [tok |-> 0, dies |-> 0, expires |-> 0]
NoGrant == [tok |-> 0, dies |-> 0]
NoCall == [tries |-> 0, tok |-> 0, dies |-> 0, rejected |-> 0]

Token == [tok : Nat, dies : Nat, expires : Nat]
Grant == [tok : Nat, dies : Nat]
Call == [tries : Nat, tok : Nat, dies : Nat, rejected : Nat]

CallerPc == {"idle", "backoff", "wait", "vault", "post", "granted", "get"}
LoopPc == {"due", "nap", "wait", "vault", "post", "granted"}
Refreshing == {"vault", "post", "granted"}

TypeOK ==
    /\ now \in Nat
    /\ started \in BOOLEAN
    /\ exited \in BOOLEAN
    /\ cache \in Token
    /\ owner \in Proc \cup {None}
    /\ waiters \in Seq(Proc)
    /\ pc \in [Proc -> CallerPc \cup LoopPc]
    /\ attempt \in [Proc -> 0..MaxVaultTries]
    /\ grant \in [Proc -> Grant]
    /\ call \in [Caller -> Call]
    /\ wake \in Nat
    /\ lastWake \in Int
    /\ issued \in Nat
    /\ revoked \in 0..issued

Init ==
    /\ now = 0
    /\ started = FALSE
    /\ exited = FALSE
    /\ cache = NoToken
    /\ owner = None
    /\ waiters = <<>>
    /\ pc = [p \in Proc |-> IF p = Loop THEN "vault" ELSE "idle"]
    /\ attempt = [p \in Proc |-> IF p = Loop THEN 1 ELSE 0]
    /\ grant = [p \in Proc |-> NoGrant]
    /\ call = [c \in Caller |-> NoCall]
    /\ wake = 0
    /\ lastWake = 0 - (Lifetime + RetryDelay)
    /\ issued = 0
    /\ revoked = 0

-----------------------------------------------------------------------------
(* asyncio.Lock: an acquire takes the lock without suspending only when    *)
(* nobody holds it and nobody is queued; a release lets the task at the    *)
(* head of the queue run next.                                             *)

LockFree == owner = None /\ waiters = <<>>

Enqueue(p) ==
    /\ waiters' = Append(waiters, p)
    /\ pc' = [pc EXCEPT ![p] = "wait"]
    /\ UNCHANGED <<owner, cache, attempt>>

MyTurn(p) ==
    /\ pc[p] = "wait"
    /\ owner = None
    /\ waiters # <<>> /\ Head(waiters) = p
    /\ waiters' = Tail(waiters)

(* The lock is held and _refresh is entered, up to its first Vault call.   *)
BeginRefresh(p) ==
    /\ owner' = p
    /\ pc' = [pc EXCEPT ![p] = "vault"]
    /\ attempt' = [attempt EXCEPT ![p] = 1]

(* The GET of call k of c leaves with token t.                             *)
Send(c, k, t) ==
    /\ call' = [call EXCEPT ![c] = [k EXCEPT !.tok = t.tok, !.dies = t.dies]]
    /\ pc' = [pc EXCEPT ![c] = "get"]

(* Body of get_token under the lock, for the call with locals k.           *)
GetTokenBody(c, k) ==
    \/ /\ cache # NoToken
       /\ Send(c, k, cache)
       /\ owner' = None
       /\ UNCHANGED <<cache, attempt>>
    \/ /\ cache = NoToken
       /\ BeginRefresh(c)
       /\ call' = [call EXCEPT ![c] = k]
       /\ UNCHANGED cache

GetToken(c, k) ==
    \/ /\ LockFree
       /\ GetTokenBody(c, k)
       /\ UNCHANGED waiters
    \/ /\ ~LockFree
       /\ Enqueue(c)
       /\ call' = [call EXCEPT ![c] = k]

(* Mutant: handle_401 trusts a token that is in the cache, as a check made  *)
(* under the lock to save concurrent refreshes would.                      *)
Handle401BodyReusing(c, k) == GetTokenBody(c, k)

(* Body of handle_401 under the lock: the cached token is dropped, whatever *)
(* token it is, and a new one is fetched.                                  *)
Handle401Body(c, k) ==
    /\ cache' = NoToken
    /\ BeginRefresh(c)
    /\ call' = [call EXCEPT ![c] = k]

Handle401(c, k) ==
    \/ /\ LockFree
       /\ Handle401Body(c, k)
       /\ UNCHANGED waiters
    \/ /\ ~LockFree
       /\ Enqueue(c)
       /\ call' = [call EXCEPT ![c] = k]

Finish(c) ==
    /\ pc' = [pc EXCEPT ![c] = "idle"]
    /\ call' = [call EXCEPT ![c] = NoCall]

(* Leave attempt k of the _get because of an httpx.TransportError: tenacity *)
(* sleeps and calls _get again, or re-raises after the last attempt.       *)
Abandon(c) ==
    \/ /\ call[c].tries < MaxTries
       /\ pc' = [pc EXCEPT ![c] = "backoff"]
       /\ UNCHANGED call
    \/ /\ call[c].tries >= MaxTries
       /\ Finish(c)

-----------------------------------------------------------------------------
(* AppDClient._get                                                         *)

CallTool(c) ==
    /\ started
    /\ pc[c] = "idle"
    /\ GetToken(c, [NoCall EXCEPT !.tries = 1])
    /\ UNCHANGED <<now, started, exited, grant, loopVars, serverVars>>

Retry(c) ==
    /\ pc[c] = "backoff"
    /\ GetToken(c, [NoCall EXCEPT !.tries = call[c].tries + 1])
    /\ UNCHANGED <<now, started, exited, grant, loopVars, serverVars>>

EnterGetToken(c) ==
    /\ MyTurn(c)
    /\ call[c].rejected = 0
    /\ GetTokenBody(c, call[c])
    /\ UNCHANGED <<now, started, exited, grant, loopVars, serverVars>>

EnterHandle401(c) ==
    /\ MyTurn(c)
    /\ call[c].rejected # 0
    /\ Handle401Body(c, call[c])
    /\ UNCHANGED <<now, started, exited, grant, loopVars, serverVars>>

(* The controller answers 401 for a revoked or expired token.              *)
Rejected(c) == call[c].tok <= revoked \/ call[c].dies <= now

Unauthorized(c) ==
    /\ pc[c] = "get"
    /\ Rejected(c)
    /\ call[c].rejected = 0
    /\ Handle401(c, [call[c] EXCEPT !.rejected = call[c].tok])
    /\ UNCHANGED <<now, started, exited, grant, loopVars, serverVars>>

UnauthorizedAgain(c) ==
    /\ pc[c] = "get"
    /\ Rejected(c)
    /\ call[c].rejected # 0
    /\ Finish(c)
    /\ UNCHANGED <<now, started, exited, cache, lockVars, attempt, grant, loopVars, serverVars>>

(* Any other status: the call returns the body or raises, and is over.     *)
Answered(c) ==
    /\ pc[c] = "get"
    /\ Finish(c)
    /\ UNCHANGED <<now, started, exited, cache, lockVars, attempt, grant, loopVars, serverVars>>

TransportError(c) ==
    /\ pc[c] = "get"
    /\ Abandon(c)
    /\ UNCHANGED <<now, started, exited, cache, lockVars, attempt, grant, loopVars, serverVars>>

(* The client cancels the request: asyncio raises CancelledError at the    *)
(* suspension point, and the async with blocks release what they hold.     *)
CancelWaiting(c) ==
    /\ pc[c] = "wait"
    /\ \E i \in DOMAIN waiters : waiters[i] = c /\ waiters' = RemoveAt(waiters, i)
    /\ Finish(c)
    /\ UNCHANGED <<now, started, exited, cache, owner, attempt, grant, loopVars, serverVars>>

Cancel(c) ==
    /\ pc[c] \notin {"idle", "wait"}
    /\ owner' = IF owner = c THEN None ELSE owner
    /\ attempt' = [attempt EXCEPT ![c] = 0]
    /\ grant' = [grant EXCEPT ![c] = NoGrant]
    /\ Finish(c)
    /\ UNCHANGED <<now, started, exited, cache, waiters, loopVars, serverVars>>

-----------------------------------------------------------------------------
(* _refresh, for the task p that runs it                                   *)

VaultAnswers(p) ==
    /\ pc[p] = "vault"
    /\ pc' = [pc EXCEPT ![p] = "post"]
    /\ attempt' = [attempt EXCEPT ![p] = 0]
    /\ UNCHANGED <<now, started, exited, cache, lockVars, grant, call, loopVars, serverVars>>

(* Mutant: one attempt too many (<= for <).                                *)
VaultFailsOffByOne(p) ==
    /\ pc[p] = "vault"
    /\ \/ /\ attempt[p] <= MaxVaultTries
          /\ attempt' = [attempt EXCEPT ![p] = @ + 1]
          /\ UNCHANGED exited
       \/ /\ attempt[p] > MaxVaultTries
          /\ exited' = TRUE
          /\ UNCHANGED attempt
    /\ UNCHANGED <<now, started, cache, lockVars, pc, grant, call, loopVars, serverVars>>

VaultFails(p) ==
    /\ pc[p] = "vault"
    /\ \/ /\ attempt[p] < MaxVaultTries
          /\ attempt' = [attempt EXCEPT ![p] = @ + 1]
          /\ UNCHANGED exited
       \/ /\ attempt[p] >= MaxVaultTries
          /\ exited' = TRUE
          /\ UNCHANGED attempt
    /\ UNCHANGED <<now, started, cache, lockVars, pc, grant, call, loopVars, serverVars>>

(* The endpoint issues a token; the response is still on its way.          *)
IssueToken(p) ==
    /\ pc[p] = "post"
    /\ now + issued < MaxEvents
    /\ issued' = issued + 1
    /\ grant' = [grant EXCEPT ![p] = [tok |-> issued + 1, dies |-> now + Lifetime]]
    /\ pc' = [pc EXCEPT ![p] = "granted"]
    /\ UNCHANGED <<now, started, exited, cache, lockVars, attempt, call, loopVars, revoked>>

(* The response arrives: _cache is replaced and the lock released.         *)
Install(p) ==
    /\ pc[p] = "granted"
    /\ cache' = [tok |-> grant[p].tok, dies |-> grant[p].dies, expires |-> now + Lifetime]
    /\ owner' = None
    /\ grant' = [grant EXCEPT ![p] = NoGrant]
    /\ UNCHANGED <<now, exited, waiters, attempt, serverVars>>

TokenForCall(c) ==
    /\ Install(c)
    /\ Send(c, call[c], cache')
    /\ UNCHANGED <<started, loopVars>>

(* Initial token (initialise) or background refresh; the loop then sleeps  *)
(* until refresh_scheduled_at.                                             *)
TokenForLoop ==
    /\ Install(Loop)
    /\ started' = TRUE
    /\ pc' = [pc EXCEPT ![Loop] = "due"]
    /\ wake' = Later(now, cache'.expires - RefreshBefore)
    /\ UNCHANGED <<call, lastWake>>

(* httpx.TransportError from the token endpoint, before or after it issued. *)
TokenUnreachable(c) ==
    /\ pc[c] \in {"post", "granted"}
    /\ owner' = None
    /\ grant' = [grant EXCEPT ![c] = NoGrant]
    /\ Abandon(c)
    /\ UNCHANGED <<now, started, exited, cache, waiters, attempt, loopVars, serverVars>>

(* Mutant: acquire and release without async with, so that an exception    *)
(* leaves the lock held.                                                   *)
TokenRefusedHoldingLock(c) ==
    /\ pc[c] = "post"
    /\ Finish(c)
    /\ UNCHANGED <<now, started, exited, cache, lockVars, attempt, grant, loopVars, serverVars>>

(* An error status or a body without access_token: not retried.            *)
TokenRefused(c) ==
    /\ pc[c] = "post"
    /\ owner' = None
    /\ Finish(c)
    /\ UNCHANGED <<now, started, exited, cache, waiters, attempt, grant, loopVars, serverVars>>

(* Mutant: no sleep after a failed refresh.                                *)
LoopRefreshFailsAtOnce ==
    /\ started
    /\ pc[Loop] \in {"post", "granted"}
    /\ owner' = None
    /\ grant' = [grant EXCEPT ![Loop] = NoGrant]
    /\ pc' = [pc EXCEPT ![Loop] = "nap"]
    /\ wake' = now
    /\ UNCHANGED <<now, started, exited, cache, waiters, attempt, call, lastWake, serverVars>>

(* The background refresh fails: the loop keeps the token and sleeps 60 s. *)
LoopRefreshFails ==
    /\ started
    /\ pc[Loop] \in {"post", "granted"}
    /\ owner' = None
    /\ grant' = [grant EXCEPT ![Loop] = NoGrant]
    /\ pc' = [pc EXCEPT ![Loop] = "nap"]
    /\ wake' = now + RetryDelay
    /\ UNCHANGED <<now, started, exited, cache, waiters, attempt, call, lastWake, serverVars>>

(* A failure of initialise leaves startup() and ends the process.          *)
InitialiseFails ==
    /\ ~started
    /\ pc[Loop] \in {"post", "granted"}
    /\ exited' = TRUE
    /\ UNCHANGED <<now, started, cache, lockVars, pc, attempt, grant, call, loopVars, serverVars>>

-----------------------------------------------------------------------------
(* _refresh_loop                                                           *)

(* Mutant: the loop refreshes without taking the lock.                     *)
LoopWakesUnlocked ==
    /\ pc[Loop] = "due"
    /\ now >= wake
    /\ lastWake' = now
    /\ pc' = [pc EXCEPT ![Loop] = "vault"]
    /\ attempt' = [attempt EXCEPT ![Loop] = 1]
    /\ UNCHANGED <<now, started, exited, cache, lockVars, grant, call, wake, serverVars>>

(* The sleep until refresh_scheduled_at is over: refresh under the lock.   *)
LoopWakes ==
    /\ pc[Loop] = "due"
    /\ now >= wake
    /\ lastWake' = now
    /\ \/ /\ LockFree
          /\ BeginRefresh(Loop)
          /\ UNCHANGED <<cache, waiters>>
       \/ /\ ~LockFree
          /\ Enqueue(Loop)
    /\ UNCHANGED <<now, started, exited, grant, call, wake, serverVars>>

EnterLoop ==
    /\ MyTurn(Loop)
    /\ BeginRefresh(Loop)
    /\ UNCHANGED <<now, started, exited, cache, grant, call, loopVars, serverVars>>

(* Back at the top of the loop after the 60 s or the 10 s sleep.           *)
LoopTop ==
    /\ pc[Loop] = "nap"
    /\ now >= wake
    /\ \/ /\ cache # NoToken
          /\ pc' = [pc EXCEPT ![Loop] = "due"]
          /\ wake' = Later(now, cache.expires - RefreshBefore)
       \/ /\ cache = NoToken
          /\ wake' = now + IdleDelay
          /\ UNCHANGED pc
    /\ UNCHANGED <<now, started, exited, cache, lockVars, attempt, grant, call, lastWake, serverVars>>

-----------------------------------------------------------------------------
Tick ==
    /\ now + issued < MaxEvents
    /\ now' = now + 1
    /\ UNCHANGED <<started, exited, cache, lockVars, pc, attempt, grant, call, loopVars, serverVars>>

(* Every token issued so far stops being accepted (rotated credentials).   *)
Revoke ==
    /\ revoked < issued
    /\ revoked' = issued
    /\ UNCHANGED <<now, started, exited, cache, lockVars, pc, attempt, grant, call, loopVars, issued>>

CallerStep(c) ==
    \/ Retry(c) \/ EnterGetToken(c) \/ EnterHandle401(c)
    \/ Unauthorized(c) \/ UnauthorizedAgain(c) \/ Answered(c) \/ TransportError(c)
    \/ VaultAnswers(c) \/ VaultFails(c) \/ IssueToken(c) \/ TokenForCall(c)
    \/ TokenUnreachable(c) \/ TokenRefused(c)

LoopStep ==
    \/ LoopWakes \/ EnterLoop \/ LoopTop
    \/ VaultAnswers(Loop) \/ VaultFails(Loop) \/ IssueToken(Loop) \/ TokenForLoop
    \/ LoopRefreshFails \/ InitialiseFails

Running ==
    \/ \E c \in Caller : CallTool(c) \/ CallerStep(c) \/ CancelWaiting(c) \/ Cancel(c)
    \/ LoopStep
    \/ Tick
    \/ Revoke

(* The process is gone after sys.exit; nothing happens any more.           *)
Stopped == exited /\ UNCHANGED vars

Next == (~exited /\ Running) \/ Stopped

Spec == Init /\ [][Next]_vars

(* Every HTTP request ends in an answer or, by the httpx timeouts, in an   *)
(* error, the event loop runs every ready task, and the clock advances.    *)
Fairness ==
    /\ \A c \in Caller : WF_vars(~exited /\ CallerStep(c))
    /\ WF_vars(~exited /\ LoopStep)

FairSpec == Spec /\ Fairness

-----------------------------------------------------------------------------
(* Safety                                                                  *)

(* At most one task is inside _refresh at any time, whatever the number of *)
(* concurrent 401s and however the loop and cancellations fall between     *)
(* them: async with self._lock in get_token, handle_401 and _refresh_loop. *)
SingleRefresh ==
    \A p, q \in Proc : pc[p] \in Refreshing /\ pc[q] \in Refreshing => p = q

(* The retry after a 401 carries a newer token than the rejected one, and  *)
(* from the moment handle_401 starts to refresh nobody is served the       *)
(* rejected token again (appd_client._get, "retry once").                  *)
RetryUsesNewToken ==
    \A c \in Caller :
        /\ pc[c] = "get" /\ call[c].rejected # 0 => call[c].tok > call[c].rejected
        /\ pc[c] \in Refreshing \cup {"get"} /\ call[c].rejected # 0 /\ cache # NoToken
              => cache.tok > call[c].rejected

(* A token that enters the cache is newer than the one it replaces and     *)
(* than every token in the hands of a call: an answer of the endpoint is   *)
(* never overtaken by an older one (_refresh assigns self._cache).         *)
NewTokenIsNewest ==
    [][cache' # cache /\ cache' # NoToken =>
         /\ cache.tok < cache'.tok
         /\ \A c \in Caller : call[c].tok < cache'.tok]_vars

(* With tokens that live longer than the refresh window, the background    *)
(* loop does not hammer Vault and the token endpoint: two refreshes it     *)
(* starts are at least the retry delay or the token's quiet time apart.    *)
RefreshPaced ==
    [][Lifetime > RefreshBefore /\ pc[Loop] = "due" /\ pc'[Loop] # "due" =>
         \/ now - lastWake >= RetryDelay
         \/ now - lastWake >= Lifetime - RefreshBefore]_vars

(* Liveness: a tool request always comes back, with a result or an error,  *)
(* unless the process exits: no lost wake-up of the lock, no endless retry. *)
CallReturns ==
    \A c \in Caller : (pc[c] # "idle") ~> (pc[c] = "idle" \/ exited)
=============================================================================
