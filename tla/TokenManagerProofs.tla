------------------------- MODULE TokenManagerProofs -------------------------
(***************************************************************************)
(* Theorems about TokenManager for every set of callers and every value of *)
(* the numeric constants.  Each is proved from TypeOK and the inductive    *)
(* invariants LockInv (who may be inside _refresh) and TokenInv (how the   *)
(* numbers of the tokens in the cache, in the calls and on the wire are    *)
(* ordered).                                                               *)
(***************************************************************************)
EXTENDS TokenManager, SequenceTheorems, TLAPS

(* A task inside _refresh owns the lock; before initialise() has returned  *)
(* the only such task is the one that runs initialise, without the lock.   *)
LockInv ==
    /\ \A p \in Proc : started /\ pc[p] \in Refreshing => owner = p
    /\ ~started => /\ owner = None
                   /\ waiters = <<>>
                   /\ pc[Loop] \in Refreshing
                   /\ \A c \in Caller : pc[c] = "idle"

(* Tokens are installed in the order they were issued: what is on its way  *)
(* to a task is newer than all that is in use.                             *)
InUseBelow(n) ==
    /\ cache.tok < n
    /\ \A c \in Caller : call[c].tok < n /\ call[c].rejected < n

TokenInv ==
    /\ InUseBelow(issued + 1)
    /\ \A p \in Proc : pc[p] = "granted" => InUseBelow(grant[p].tok) /\ grant[p].tok <= issued
    /\ \A c \in Caller : pc[c] \in Refreshing => cache = NoToken
    /\ RetryUsesNewToken

-----------------------------------------------------------------------------
LEMMA RemoveAtType ==
    ASSUME NEW S, NEW s \in Seq(S), NEW i \in DOMAIN s
    PROVE  RemoveAt(s, i) \in Seq(S)
<1>1. i \in Int /\ i >= 1 /\ i <= Len(s) /\ Len(s) \in Nat
  BY LenProperties
<1>2. SubSeq(s, 1, i-1) \in Seq(S)
  <2>1. \A j \in 1..(i-1) : s[j] \in S
    BY <1>1, ElementOfSeq
  <2> QED BY <1>1, <2>1, SubSeqProperties
<1>3. SubSeq(s, i+1, Len(s)) \in Seq(S)
  <2>1. \A j \in (i+1)..Len(s) : s[j] \in S
    BY <1>1, ElementOfSeq
  <2> QED BY <1>1, <2>1, SubSeqProperties
<1> QED BY <1>2, <1>3, ConcatProperties DEF RemoveAt

(* The two ways an operation meets the lock keep the types.                *)
LEMMA EnqueueType ==
    ASSUME TypeOK, NEW p \in Proc, Enqueue(p)
    PROVE  /\ owner' \in Proc \cup {None}
           /\ waiters' \in Seq(Proc)
           /\ pc' \in [Proc -> CallerPc \cup LoopPc]
           /\ attempt' \in [Proc -> 0..MaxVaultTries]
           /\ cache' \in Token
BY AppendProperties DEF TypeOK, Enqueue, CallerPc

LEMMA BeginRefreshType ==
    ASSUME TypeOK, NEW p \in Proc, BeginRefresh(p)
    PROVE  /\ owner' \in Proc \cup {None}
           /\ pc' \in [Proc -> CallerPc \cup LoopPc]
           /\ attempt' \in [Proc -> 0..MaxVaultTries]
BY NumberAssumption DEF TypeOK, BeginRefresh, CallerPc

LEMMA SendType ==
    ASSUME TypeOK, NEW c \in Caller, NEW k \in Call, NEW t,
           t.tok \in Nat, t.dies \in Nat, Send(c, k, t)
    PROVE  /\ pc' \in [Proc -> CallerPc \cup LoopPc]
           /\ call' \in [Caller -> Call]
BY DEF TypeOK, Send, CallerPc, Call, Proc

LEMMA FinishType ==
    ASSUME TypeOK, NEW c \in Caller, Finish(c)
    PROVE  /\ pc' \in [Proc -> CallerPc \cup LoopPc]
           /\ call' \in [Caller -> Call]
BY DEF TypeOK, Finish, CallerPc, Call, NoCall, Proc

LEMMA AbandonType ==
    ASSUME TypeOK, NEW c \in Caller, Abandon(c)
    PROVE  /\ pc' \in [Proc -> CallerPc \cup LoopPc]
           /\ call' \in [Caller -> Call]
BY FinishType DEF TypeOK, Abandon, CallerPc, Proc

LEMMA GetTokenBodyType ==
    ASSUME TypeOK, NEW c \in Caller, NEW k \in Call, GetTokenBody(c, k)
    PROVE  /\ owner' \in Proc \cup {None}
           /\ pc' \in [Proc -> CallerPc \cup LoopPc]
           /\ attempt' \in [Proc -> 0..MaxVaultTries]
           /\ cache' \in Token
           /\ call' \in [Caller -> Call]
<1>1. cache.tok \in Nat /\ cache.dies \in Nat
  BY DEF TypeOK, Token
<1>2. CASE cache # NoToken /\ Send(c, k, cache) /\ owner' = None /\ UNCHANGED <<cache, attempt>>
  BY <1>1, <1>2, SendType DEF TypeOK
<1>3. CASE cache = NoToken /\ BeginRefresh(c) /\ call' = [call EXCEPT ![c] = k] /\ UNCHANGED cache
  BY <1>3, BeginRefreshType DEF TypeOK, Proc
<1> QED BY <1>2, <1>3 DEF GetTokenBody

LEMMA GetTokenType ==
    ASSUME TypeOK, NEW c \in Caller, NEW k \in Call, GetToken(c, k)
    PROVE  /\ owner' \in Proc \cup {None}
           /\ waiters' \in Seq(Proc)
           /\ pc' \in [Proc -> CallerPc \cup LoopPc]
           /\ attempt' \in [Proc -> 0..MaxVaultTries]
           /\ cache' \in Token
           /\ call' \in [Caller -> Call]
<1>1. CASE LockFree /\ GetTokenBody(c, k) /\ UNCHANGED waiters
  BY <1>1, GetTokenBodyType DEF TypeOK
<1>2. CASE ~LockFree /\ Enqueue(c) /\ call' = [call EXCEPT ![c] = k]
  BY <1>2, EnqueueType DEF TypeOK, Proc
<1> QED BY <1>1, <1>2 DEF GetToken

LEMMA Handle401BodyType ==
    ASSUME TypeOK, NEW c \in Caller, NEW k \in Call, Handle401Body(c, k)
    PROVE  /\ owner' \in Proc \cup {None}
           /\ pc' \in [Proc -> CallerPc \cup LoopPc]
           /\ attempt' \in [Proc -> 0..MaxVaultTries]
           /\ cache' \in Token
           /\ call' \in [Caller -> Call]
BY BeginRefreshType DEF TypeOK, Handle401Body, Proc, NoToken, Token

LEMMA MyTurnType ==
    ASSUME TypeOK, NEW p \in Proc, MyTurn(p)
    PROVE  waiters' \in Seq(Proc)
BY HeadTailProperties DEF TypeOK, MyTurn

LEMMA TypeStep == TypeOK /\ [Next]_vars => TypeOK'
<1> SUFFICES ASSUME TypeOK, [Next]_vars PROVE TypeOK'
  OBVIOUS
<1> USE NumberAssumption, ProcAssumption
<1>a. Caller \subseteq Proc /\ Loop \in Proc
  BY DEF Proc
<1>b. \A c \in Caller : call[c] \in Call /\ call[c].tries \in Nat /\ call[c].tok \in Nat
  BY DEF TypeOK, Call
<1>1. ASSUME NEW c \in Caller, CallTool(c) PROVE TypeOK'
  <2>1. [NoCall EXCEPT !.tries = 1] \in Call
    BY DEF NoCall, Call
  <2> QED BY <1>1, <2>1, GetTokenType DEF TypeOK, CallTool, loopVars, serverVars
<1>2. ASSUME NEW c \in Caller, Retry(c) PROVE TypeOK'
  <2>1. [NoCall EXCEPT !.tries = call[c].tries + 1] \in Call
    BY <1>b DEF NoCall, Call
  <2> QED BY <1>2, <2>1, GetTokenType DEF TypeOK, Retry, loopVars, serverVars
<1>3. ASSUME NEW c \in Caller, EnterGetToken(c) PROVE TypeOK'
  BY <1>3, <1>a, <1>b, MyTurnType, GetTokenBodyType DEF TypeOK, EnterGetToken, loopVars, serverVars
<1>4. ASSUME NEW c \in Caller, EnterHandle401(c) PROVE TypeOK'
  BY <1>4, <1>a, <1>b, MyTurnType, Handle401BodyType DEF TypeOK, EnterHandle401, loopVars, serverVars
<1>5. ASSUME NEW c \in Caller, Unauthorized(c) PROVE TypeOK'
  <2> DEFINE k == [call[c] EXCEPT !.rejected = call[c].tok]
  <2>1. k \in Call
    BY <1>b DEF Call
  <2>2. Handle401(c, k)
    BY <1>5 DEF Unauthorized
  <2> HIDE DEF k
  <2>3. CASE LockFree /\ Handle401Body(c, k) /\ UNCHANGED waiters
    BY <1>5, <2>1, <2>3, Handle401BodyType DEF TypeOK, Unauthorized, loopVars, serverVars
  <2>4. CASE ~LockFree /\ Enqueue(c) /\ call' = [call EXCEPT ![c] = k]
    BY <1>5, <1>a, <2>1, <2>4, EnqueueType DEF TypeOK, Unauthorized, loopVars, serverVars
  <2> QED BY <2>2, <2>3, <2>4 DEF Handle401
<1>6. ASSUME NEW c \in Caller, UnauthorizedAgain(c) \/ Answered(c) PROVE TypeOK'
  BY <1>6, FinishType DEF TypeOK, UnauthorizedAgain, Answered, lockVars, loopVars, serverVars
<1>7. ASSUME NEW c \in Caller, TransportError(c) PROVE TypeOK'
  BY <1>7, AbandonType DEF TypeOK, TransportError, lockVars, loopVars, serverVars
<1>8. ASSUME NEW c \in Caller, CancelWaiting(c) PROVE TypeOK'
  BY <1>8, FinishType, RemoveAtType DEF TypeOK, CancelWaiting, loopVars, serverVars
<1>9. ASSUME NEW c \in Caller, Cancel(c) PROVE TypeOK'
  BY <1>9, <1>a, FinishType DEF TypeOK, Cancel, loopVars, serverVars, NoGrant, Grant
<1>10. ASSUME NEW p \in Proc, VaultAnswers(p) PROVE TypeOK'
  BY <1>10 DEF TypeOK, VaultAnswers, lockVars, loopVars, serverVars, CallerPc
<1>11. ASSUME NEW p \in Proc, VaultFails(p) PROVE TypeOK'
  <2>1. attempt' \in [Proc -> 0..MaxVaultTries]
    <3>1. attempt \in [Proc -> 0..MaxVaultTries] /\ attempt[p] \in Int
      BY <1>11 DEF TypeOK
    <3>2. attempt[p] < MaxVaultTries => attempt[p] + 1 \in 0..MaxVaultTries
      BY <1>11, <3>1 DEF TypeOK
    <3>3. \/ attempt[p] < MaxVaultTries /\ attempt' = [attempt EXCEPT ![p] = attempt[p] + 1]
          \/ attempt' = attempt
      BY <1>11 DEF VaultFails
    <3> QED BY <3>1, <3>2, <3>3
  <2>2. exited' \in BOOLEAN
    BY <1>11 DEF TypeOK, VaultFails
  <2> QED BY <1>11, <2>1, <2>2 DEF TypeOK, VaultFails, lockVars, loopVars, serverVars
<1>12. ASSUME NEW p \in Proc, IssueToken(p) PROVE TypeOK'
  BY <1>12 DEF TypeOK, IssueToken, lockVars, loopVars, CallerPc, Grant
<1>13. ASSUME NEW p \in Proc, Install(p) PROVE cache' \in Token /\ grant' \in [Proc -> Grant]
                                               /\ owner' \in Proc \cup {None}
                                               /\ cache'.tok \in Nat /\ cache'.dies \in Nat
                                               /\ cache'.expires \in Nat
  BY <1>13 DEF TypeOK, Install, Token, Grant, NoGrant
<1>14. ASSUME NEW c \in Caller, TokenForCall(c) PROVE TypeOK'
  <2>1. Install(c) /\ Send(c, call[c], cache')
    BY <1>14 DEF TokenForCall
  <2>2. pc' \in [Proc -> CallerPc \cup LoopPc] /\ call' \in [Caller -> Call]
    BY <2>1, <1>a, <1>b, <1>13, SendType
  <2> QED BY <1>14, <1>a, <1>13, <2>1, <2>2 DEF TypeOK, TokenForCall, Install, loopVars, serverVars
<1>15. CASE TokenForLoop
  <2>1. Install(Loop)
    BY <1>15 DEF TokenForLoop
  <2>2. wake' \in Nat
    BY <1>15, <1>a, <2>1, <1>13 DEF TokenForLoop, Later, TypeOK
  <2> QED BY <1>15, <1>a, <1>13, <2>1, <2>2 DEF TypeOK, TokenForLoop, Install, serverVars, LoopPc
<1>16. ASSUME NEW c \in Caller, TokenUnreachable(c) PROVE TypeOK'
  BY <1>16, <1>a, AbandonType DEF TypeOK, TokenUnreachable, loopVars, serverVars, NoGrant, Grant
<1>17. ASSUME NEW c \in Caller, TokenRefused(c) PROVE TypeOK'
  BY <1>17, FinishType DEF TypeOK, TokenRefused, loopVars, serverVars
<1>18. CASE LoopRefreshFails
  BY <1>18, <1>a DEF TypeOK, LoopRefreshFails, serverVars, NoGrant, Grant, LoopPc
<1>19. CASE InitialiseFails
  BY <1>19 DEF TypeOK, InitialiseFails, lockVars, loopVars, serverVars
<1>20. CASE LoopWakes
  <2>1. CASE LockFree /\ BeginRefresh(Loop) /\ UNCHANGED <<cache, waiters>>
    BY <1>20, <1>a, <2>1, BeginRefreshType DEF TypeOK, LoopWakes, serverVars
  <2>2. CASE ~LockFree /\ Enqueue(Loop)
    BY <1>20, <1>a, <2>2, EnqueueType DEF TypeOK, LoopWakes, serverVars
  <2> QED BY <1>20, <2>1, <2>2 DEF LoopWakes
<1>21. CASE EnterLoop
  BY <1>21, <1>a, MyTurnType, BeginRefreshType DEF TypeOK, EnterLoop, loopVars, serverVars
<1>22. CASE LoopTop
  <2>1. cache.expires \in Nat
    BY DEF TypeOK, Token
  <2>2. wake' \in Nat
    BY <1>22, <2>1 DEF LoopTop, TypeOK, Later
  <2> QED BY <1>22, <1>a, <2>2 DEF TypeOK, LoopTop, lockVars, serverVars, LoopPc
<1>23. CASE Tick
  BY <1>23 DEF TypeOK, Tick, lockVars, loopVars, serverVars
<1>24. CASE Revoke
  BY <1>24 DEF TypeOK, Revoke, lockVars, loopVars
<1>25. CASE UNCHANGED vars
  BY <1>25 DEF TypeOK, vars, lockVars, loopVars, serverVars
<1> QED
  BY <1>1, <1>2, <1>3, <1>4, <1>5, <1>6, <1>7, <1>8, <1>9, <1>10, <1>11, <1>12, <1>14, <1>15,
     <1>16, <1>17, <1>18, <1>19, <1>20, <1>21, <1>22, <1>23, <1>24, <1>25, <1>a
  DEF Next, Running, Stopped, CallerStep, LoopStep

LEMMA TypeInit == Init => TypeOK
<1> SUFFICES ASSUME Init PROVE TypeOK
  OBVIOUS
<1>1. started \in BOOLEAN /\ exited \in BOOLEAN
  BY DEF Init
<1>2. cache \in Token /\ grant \in [Proc -> Grant] /\ call \in [Caller -> Call]
  BY DEF Init, NoToken, Token, NoGrant, Grant, NoCall, Call
<1>3. pc \in [Proc -> CallerPc \cup LoopPc]
  BY DEF Init, CallerPc, LoopPc
<1>4. attempt \in [Proc -> 0..MaxVaultTries]
  BY NumberAssumption DEF Init
<1>5. waiters \in Seq(Proc)
  BY EmptySeq DEF Init
<1>6. now \in Nat /\ wake \in Nat /\ lastWake \in Int /\ issued \in Nat /\ revoked \in 0..issued
  BY NumberAssumption DEF Init
<1>7. owner \in Proc \cup {None}
  BY DEF Init
<1> QED BY <1>1, <1>2, <1>3, <1>4, <1>5, <1>6, <1>7 DEF TypeOK

(* Every reachable state of the token manager is well typed.               *)
THEOREM TypeCorrect == Spec => []TypeOK
BY TypeInit, TypeStep, PTL DEF Spec

-----------------------------------------------------------------------------
LEMMA LockInit == Init => LockInv
BY ProcAssumption DEF Init, LockInv, Proc, Refreshing

(* A task that takes a free lock after initialise: nobody else refreshes.  *)
LEMMA OwnerTaken ==
    ASSUME LockInv, TypeOK, NEW p \in Proc, started, owner = None, BeginRefresh(p)
    PROVE  \A q \in Proc : pc'[q] \in Refreshing => owner' = q
BY ProcAssumption DEF LockInv, TypeOK, BeginRefresh, Refreshing

LEMMA GetTokenBodyLock ==
    ASSUME LockInv, TypeOK, NEW c \in Caller, NEW k, started, owner = None, GetTokenBody(c, k)
    PROVE  \A q \in Proc : pc'[q] \in Refreshing => owner' = q
<1>1. CASE Send(c, k, cache) /\ owner' = None
  BY <1>1, ProcAssumption DEF LockInv, TypeOK, Send, Refreshing
<1>2. CASE BeginRefresh(c)
  BY <1>2, OwnerTaken DEF Proc
<1> QED BY <1>1, <1>2 DEF GetTokenBody

LEMMA EnqueueLock ==
    ASSUME LockInv, TypeOK, NEW p \in Proc, started, Enqueue(p)
    PROVE  \A q \in Proc : pc'[q] \in Refreshing => owner' = q
BY DEF LockInv, TypeOK, Enqueue, Refreshing

(* Finish and Abandon leave p outside _refresh and move nobody else.       *)
LEMMA LeaveLock ==
    ASSUME LockInv, TypeOK, NEW p \in Proc, started,
           NEW s \in (CallerPc \cup LoopPc) \ Refreshing, pc' = [pc EXCEPT ![p] = s],
           owner' = owner \/ (pc[p] \in Refreshing /\ owner' = None)
    PROVE  \A q \in Proc : pc'[q] \in Refreshing => owner' = q
<1>1. ASSUME NEW q \in Proc, pc'[q] \in Refreshing PROVE owner' = q
  <2>1. q # p /\ pc[q] \in Refreshing
    BY <1>1 DEF TypeOK
  <2>2. owner = q
    BY <2>1 DEF LockInv
  <2>3. ~(pc[p] \in Refreshing)
    BY <2>1, <2>2 DEF LockInv
  <2> QED BY <2>2, <2>3
<1> QED BY <1>1

LEMMA LockStep == TypeOK /\ LockInv /\ [Next]_vars => LockInv'
<1> SUFFICES ASSUME TypeOK, LockInv, [Next]_vars PROVE LockInv'
  OBVIOUS
<1> USE ProcAssumption
<1>a. Caller \subseteq Proc /\ Loop \in Proc
  BY DEF Proc
<1>b. ASSUME NEW c \in Caller, pc[c] # "idle" PROVE started
  BY <1>b DEF LockInv
<1>c. ASSUME pc[Loop] \notin Refreshing PROVE started
  BY <1>c DEF LockInv
<1>d. ASSUME started, started' = started,
             \A q \in Proc : pc'[q] \in Refreshing => owner' = q
      PROVE  LockInv'
  BY <1>d DEF LockInv
<1>1. ASSUME NEW c \in Caller, CallTool(c) PROVE LockInv'
  BY <1>1, <1>a, <1>d, GetTokenBodyLock, EnqueueLock DEF CallTool, GetToken, LockFree
<1>2. ASSUME NEW c \in Caller, Retry(c) PROVE LockInv'
  BY <1>2, <1>a, <1>b, <1>d, GetTokenBodyLock, EnqueueLock DEF Retry, GetToken, LockFree
<1>3. ASSUME NEW c \in Caller, EnterGetToken(c) PROVE LockInv'
  BY <1>3, <1>b, <1>d, GetTokenBodyLock DEF EnterGetToken, MyTurn
<1>4. ASSUME NEW c \in Caller, EnterHandle401(c) PROVE LockInv'
  BY <1>4, <1>a, <1>b, <1>d, OwnerTaken DEF EnterHandle401, Handle401Body, MyTurn
<1>5. ASSUME NEW c \in Caller, Unauthorized(c) PROVE LockInv'
  BY <1>5, <1>a, <1>b, <1>d, OwnerTaken, EnqueueLock
  DEF Unauthorized, Handle401, Handle401Body, LockFree
<1>6. ASSUME NEW c \in Caller, UnauthorizedAgain(c) \/ Answered(c) \/ TransportError(c)
      PROVE LockInv'
  <2>1. \E s \in {"idle", "backoff"} : pc' = [pc EXCEPT ![c] = s]
    BY <1>6 DEF UnauthorizedAgain, Answered, TransportError, Finish, Abandon
  <2>2. started /\ started' = started /\ owner' = owner
    BY <1>6, <1>b DEF UnauthorizedAgain, Answered, TransportError, lockVars
  <2>3. {"idle", "backoff"} \subseteq (CallerPc \cup LoopPc) \ Refreshing
    BY DEF CallerPc, Refreshing
  <2> QED BY <2>1, <2>2, <2>3, <1>a, <1>d, LeaveLock
<1>7. ASSUME NEW c \in Caller, CancelWaiting(c) \/ Cancel(c) PROVE LockInv'
  <2>1. pc' = [pc EXCEPT ![c] = "idle"]
    BY <1>7 DEF CancelWaiting, Cancel, Finish
  <2>2. started /\ started' = started
    BY <1>7, <1>b DEF CancelWaiting, Cancel
  <2>3. \A q \in Proc : pc'[q] \in Refreshing => owner' = q
    BY <1>7, <2>1, <2>2, <1>a DEF CancelWaiting, Cancel, LockInv, TypeOK, Refreshing
  <2> QED BY <2>2, <2>3, <1>d
<1>8. ASSUME NEW c \in Caller, TokenUnreachable(c) \/ TokenRefused(c) PROVE LockInv'
  <2>1. \E s \in {"idle", "backoff"} : pc' = [pc EXCEPT ![c] = s]
    BY <1>8 DEF TokenUnreachable, TokenRefused, Finish, Abandon
  <2>2. started /\ started' = started /\ owner' = None /\ pc[c] \in Refreshing
    BY <1>8, <1>b DEF TokenUnreachable, TokenRefused, Refreshing
  <2>3. {"idle", "backoff"} \subseteq (CallerPc \cup LoopPc) \ Refreshing
    BY DEF CallerPc, Refreshing
  <2> QED BY <2>1, <2>2, <2>3, <1>a, <1>d, LeaveLock
<1>9. ASSUME NEW p \in Proc, VaultAnswers(p) \/ VaultFails(p) \/ IssueToken(p) PROVE LockInv'
  BY <1>9 DEF VaultAnswers, VaultFails, IssueToken, LockInv, TypeOK, Refreshing, lockVars, Proc
<1>10. ASSUME NEW c \in Caller, TokenForCall(c) PROVE LockInv'
  <2>1. pc' = [pc EXCEPT ![c] = "get"] /\ owner' = None /\ pc[c] \in Refreshing
    BY <1>10 DEF TokenForCall, Install, Send, Refreshing
  <2>2. started /\ started' = started
    BY <1>10, <1>b DEF TokenForCall, Install
  <2>3. "get" \in (CallerPc \cup LoopPc) \ Refreshing
    BY DEF CallerPc, Refreshing
  <2> QED BY <2>1, <2>2, <2>3, <1>a, <1>d, LeaveLock
<1>11. CASE TokenForLoop
  <2>1. pc' = [pc EXCEPT ![Loop] = "due"] /\ owner' = None /\ pc[Loop] \in Refreshing /\ started'
    BY <1>11 DEF TokenForLoop, Install, Refreshing
  <2>2. ASSUME NEW q \in Proc, pc'[q] \in Refreshing PROVE FALSE
    <3>1. q # Loop /\ pc[q] \in Refreshing
      BY <2>1, <2>2, <1>a DEF TypeOK, Refreshing
    <3>2. q \in Caller /\ started
      BY <3>1, <1>b DEF Proc, Refreshing
    <3>3. owner = q /\ owner = Loop
      BY <3>1, <3>2, <2>1, <1>a DEF LockInv
    <3> QED BY <3>1, <3>3
  <2> QED BY <2>1, <2>2 DEF LockInv
<1>12. CASE LoopRefreshFails
  <2>1. pc' = [pc EXCEPT ![Loop] = "nap"] /\ owner' = None /\ pc[Loop] \in Refreshing
        /\ started /\ started' = started
    BY <1>12 DEF LoopRefreshFails, Refreshing
  <2>2. "nap" \in (CallerPc \cup LoopPc) \ Refreshing
    BY DEF LoopPc, Refreshing
  <2> QED BY <2>1, <2>2, <1>a, <1>d, LeaveLock
<1>13. CASE LoopWakes
  BY <1>13, <1>a, <1>c, <1>d, OwnerTaken, EnqueueLock DEF LoopWakes, LockFree, Refreshing
<1>14. CASE EnterLoop
  BY <1>14, <1>a, <1>c, <1>d, OwnerTaken DEF EnterLoop, MyTurn, Refreshing
<1>15. CASE LoopTop
  BY <1>15, <1>a DEF LoopTop, LockInv, TypeOK, Refreshing, lockVars, Proc
<1>16. CASE InitialiseFails \/ Tick \/ Revoke \/ UNCHANGED vars
  BY <1>16 DEF InitialiseFails, Tick, Revoke, vars, lockVars, LockInv
<1> QED
  BY <1>1, <1>2, <1>3, <1>4, <1>5, <1>6, <1>7, <1>8, <1>9, <1>10, <1>11, <1>12, <1>13, <1>14,
     <1>15, <1>16, <1>a
  DEF Next, Running, Stopped, CallerStep, LoopStep

LEMMA LockImplies == TypeOK /\ LockInv => SingleRefresh
BY ProcAssumption DEF LockInv, SingleRefresh, Refreshing, Proc

(* No two tasks are ever inside _refresh together, for any number of       *)
(* concurrent tool calls, failures and cancellations.                      *)
THEOREM MutualExclusion == Spec => []SingleRefresh
<1>1. Init => TypeOK /\ LockInv
  BY TypeInit, LockInit
<1>2. TypeOK /\ LockInv /\ [Next]_vars => (TypeOK /\ LockInv)'
  BY TypeStep, LockStep
<1>3. TypeOK /\ LockInv => SingleRefresh
  BY LockImplies
<1> QED BY <1>1, <1>2, <1>3, PTL DEF Spec

-----------------------------------------------------------------------------
LEMMA TokenInit == Init => TokenInv
BY ProcAssumption DEF Init, TokenInv, InUseBelow, RetryUsesNewToken, NoToken, NoCall, Proc, Refreshing

(* A call takes the cached token, or starts to refresh because there is    *)
(* none; k carries no rejected token.                                      *)
LEMMA GetTokenBodyTokens ==
    ASSUME TypeOK, TokenInv, NEW c \in Caller, NEW k \in Call,
           k.rejected = 0, k.tok <= issued, pc[c] # "granted", GetTokenBody(c, k),
           UNCHANGED <<grant, issued>>,
           \A p \in Proc : pc[p] = "granted" => k.tok < grant[p].tok
    PROVE  TokenInv'
<1> USE ProcAssumption
<1>a. cache.tok \in Nat /\ issued \in Nat /\ \A p \in Proc : grant[p].tok \in Nat
  BY DEF TypeOK, Token, Grant
<1>1. CASE cache # NoToken /\ Send(c, k, cache) /\ UNCHANGED cache
  <2>1. call' = [call EXCEPT ![c] = call'[c]] /\ call'[c].tok = cache.tok /\ call'[c].rejected = 0
    BY <1>1 DEF TypeOK, Send, Call
  <2>2. pc' = [pc EXCEPT ![c] = "get"]
    BY <1>1 DEF Send
  <2>b. \A d \in Caller : call'[d] = call[d] \/ (call'[d].tok = cache.tok /\ call'[d].rejected = 0)
    BY <2>1 DEF TypeOK
  <2>c. cache.tok < issued + 1
    BY DEF TokenInv, InUseBelow
  <2>3. InUseBelow(issued + 1)'
    BY <1>1, <1>a, <2>b, <2>c DEF TokenInv, InUseBelow
  <2>4. ASSUME NEW p \in Proc, pc'[p] = "granted"
        PROVE  InUseBelow(grant[p].tok)' /\ grant'[p].tok <= issued'
    <3>1. pc[p] = "granted" /\ grant'[p] = grant[p]
      BY <2>2, <2>4 DEF TypeOK
    <3>2. InUseBelow(grant[p].tok) /\ grant[p].tok <= issued
      BY <3>1 DEF TokenInv
    <3>3. 0 < grant[p].tok
      BY <3>2, <1>a DEF InUseBelow
    <3> QED BY <1>1, <1>a, <2>b, <3>1, <3>2, <3>3 DEF InUseBelow
  <2>5. \A d \in Caller : pc'[d] \in Refreshing => cache' = NoToken
    BY <1>1, <2>2 DEF TokenInv, TypeOK, Refreshing, Proc
  <2>6. RetryUsesNewToken'
    BY <1>1, <2>1, <2>2 DEF TokenInv, TypeOK, RetryUsesNewToken, Refreshing, Proc
  <2> QED BY <2>3, <2>4, <2>5, <2>6 DEF TokenInv
<1>2. CASE cache = NoToken /\ BeginRefresh(c) /\ call' = [call EXCEPT ![c] = k] /\ UNCHANGED cache
  <2>1. pc' = [pc EXCEPT ![c] = "vault"]
    BY <1>2 DEF BeginRefresh
  <2>2. InUseBelow(issued + 1)'
    BY <1>2, <1>a DEF TokenInv, InUseBelow, TypeOK, Call
  <2>3. ASSUME NEW p \in Proc, pc'[p] = "granted"
        PROVE  InUseBelow(grant[p].tok)' /\ grant'[p].tok <= issued'
    <3>1. pc[p] = "granted" /\ grant'[p] = grant[p]
      BY <2>1, <2>3 DEF TypeOK
    <3>2. k.rejected < grant[p].tok
      BY <3>1, <1>a DEF TokenInv, InUseBelow
    <3> QED BY <1>2, <1>a, <3>1, <3>2 DEF TokenInv, InUseBelow, TypeOK
  <2>4. RetryUsesNewToken'
    BY <1>2, <2>1 DEF TokenInv, TypeOK, RetryUsesNewToken, Refreshing, Proc
  <2> QED BY <1>2, <2>2, <2>3, <2>4 DEF TokenInv
<1> QED BY <1>1, <1>2 DEF GetTokenBody

(* A task is queued on the lock: tokens move nowhere.                      *)
LEMMA EnqueueTokens ==
    ASSUME TypeOK, TokenInv, NEW p \in Proc, Enqueue(p), UNCHANGED <<grant, issued>>,
           \/ UNCHANGED call
           \/ \E c \in Caller, k \in Call :
                 /\ p = c
                 /\ call' = [call EXCEPT ![c] = k]
                 /\ k.tok <= issued /\ k.rejected <= issued
                 /\ \A q \in Proc : pc[q] = "granted" => k.tok < grant[q].tok /\ k.rejected < grant[q].tok
    PROVE  TokenInv'
<1>a. pc' = [pc EXCEPT ![p] = "wait"] /\ UNCHANGED cache
  BY DEF Enqueue
<1>b. cache.tok \in Nat /\ issued \in Nat /\ \A q \in Proc : grant[q].tok \in Nat
  BY DEF TypeOK, Token, Grant
<1>c. \A d \in Caller : \/ call'[d] = call[d]
                        \/ /\ call'[d].tok \in Nat /\ call'[d].rejected \in Nat
                           /\ call'[d].tok <= issued /\ call'[d].rejected <= issued
                           /\ \A q \in Proc : pc[q] = "granted" =>
                                 call'[d].tok < grant[q].tok /\ call'[d].rejected < grant[q].tok
  BY DEF TypeOK, Call
<1>1. InUseBelow(issued + 1)'
  BY <1>a, <1>b, <1>c DEF TokenInv, InUseBelow
<1>2. ASSUME NEW q \in Proc, pc'[q] = "granted"
      PROVE  InUseBelow(grant[q].tok)' /\ grant'[q].tok <= issued'
  <2>1. pc[q] = "granted" /\ grant'[q] = grant[q]
    BY <1>a, <1>2 DEF TypeOK
  <2> QED BY <1>a, <1>b, <1>c, <2>1 DEF TokenInv, InUseBelow
<1>3. \A d \in Caller : pc'[d] \in Refreshing => cache' = NoToken
  BY <1>a DEF TokenInv, TypeOK, Refreshing, Proc
<1>4. RetryUsesNewToken'
  BY <1>a DEF TokenInv, TypeOK, RetryUsesNewToken, Refreshing, Proc
<1> QED BY <1>1, <1>2, <1>3, <1>4 DEF TokenInv

LEMMA Handle401BodyTokens ==
    ASSUME TypeOK, TokenInv, NEW c \in Caller, NEW k \in Call, Handle401Body(c, k),
           pc[c] # "granted", UNCHANGED <<grant, issued>>,
           k.tok <= issued, k.rejected <= issued,
           \A q \in Proc : pc[q] = "granted" => k.tok < grant[q].tok /\ k.rejected < grant[q].tok
    PROVE  TokenInv'
<1>a. pc' = [pc EXCEPT ![c] = "vault"] /\ cache' = NoToken /\ call' = [call EXCEPT ![c] = k]
  BY DEF Handle401Body, BeginRefresh
<1>b. issued \in Nat /\ NoToken.tok = 0
      /\ (\A q \in Proc : grant[q].tok \in Nat) /\ \A d \in Caller : call[d].tok \in Nat
  BY DEF TypeOK, Grant, Call, NoToken
<1>1. InUseBelow(issued + 1)'
  BY <1>a, <1>b DEF TokenInv, InUseBelow, TypeOK, Call
<1>2. ASSUME NEW q \in Proc, pc'[q] = "granted"
      PROVE  InUseBelow(grant[q].tok)' /\ grant'[q].tok <= issued'
  <2>1. pc[q] = "granted" /\ grant'[q] = grant[q]
    BY <1>a, <1>2 DEF TypeOK
  <2>2. 0 < grant[q].tok
    BY <2>1, <1>b DEF TokenInv, InUseBelow, TypeOK, Token
  <2> QED BY <1>a, <1>b, <2>1, <2>2 DEF TokenInv, InUseBelow, TypeOK
<1>3. RetryUsesNewToken'
  BY <1>a DEF TokenInv, TypeOK, RetryUsesNewToken, Refreshing, Proc
<1> QED BY <1>1, <1>2, <1>3, <1>a DEF TokenInv

(* Task p moves to a point outside _refresh other than a GET, forgetting   *)
(* its call, its grant, both or neither.                                   *)
LEMMA LeaveTokens ==
    ASSUME TypeOK, TokenInv, NEW p \in Proc,
           NEW s \in (CallerPc \cup LoopPc) \ (Refreshing \cup {"get"}),
           pc' = [pc EXCEPT ![p] = s], UNCHANGED <<cache, issued>>,
           grant' = grant \/ grant' = [grant EXCEPT ![p] = NoGrant],
           call' = call \/ (\E c \in Caller : call' = [call EXCEPT ![c] = NoCall])
    PROVE  TokenInv'
<1>a. cache.tok \in Nat /\ issued \in Nat /\ NoCall.tok = 0 /\ NoCall.rejected = 0
      /\ \A q \in Proc : grant[q].tok \in Nat
  BY DEF TypeOK, Token, Grant, NoCall
<1>b. \A d \in Caller : call'[d] = call[d] \/ (call'[d].tok = 0 /\ call'[d].rejected = 0)
  BY <1>a DEF TypeOK
<1>1. InUseBelow(issued + 1)'
  BY <1>a, <1>b DEF TokenInv, InUseBelow
<1>2. ASSUME NEW q \in Proc, pc'[q] = "granted"
      PROVE  InUseBelow(grant[q].tok)' /\ grant'[q].tok <= issued'
  <2>1. pc[q] = "granted" /\ grant'[q] = grant[q]
    BY <1>2 DEF TypeOK, Refreshing
  <2>2. InUseBelow(grant[q].tok) /\ grant[q].tok <= issued
    BY <2>1 DEF TokenInv
  <2>3. 0 < grant[q].tok
    BY <2>2, <1>a DEF InUseBelow
  <2> QED BY <1>a, <1>b, <2>1, <2>2, <2>3 DEF InUseBelow
<1>3. \A d \in Caller : pc'[d] \in Refreshing => cache' = NoToken
  BY DEF TokenInv, TypeOK, Proc
<1>4. RetryUsesNewToken'
  BY <1>b DEF TokenInv, TypeOK, RetryUsesNewToken, Refreshing, Proc
<1> QED BY <1>1, <1>2, <1>3, <1>4 DEF TokenInv

(* The response of the token endpoint reaches p, the only task inside      *)
(* _refresh: nothing else is on the wire, and all that is in use is older. *)
LEMMA InstallTokens ==
    ASSUME TypeOK, TokenInv, SingleRefresh, NEW p \in Proc, Install(p),
           NEW s \in {"get", "due"}, pc' = [pc EXCEPT ![p] = s],
           \/ s = "due" /\ p = Loop /\ call' = call
           \/ s = "get" /\ p \in Caller /\ Send(p, call[p], cache')
    PROVE  TokenInv' /\ InUseBelow(cache'.tok)
<1> USE ProcAssumption
<1>a. pc[p] = "granted" /\ cache'.tok = grant[p].tok /\ issued' = issued
  BY DEF Install, serverVars
<1>b. issued \in Nat /\ cache'.tok \in Nat /\ cache'.tok <= issued /\ InUseBelow(cache'.tok)
  BY <1>a DEF TypeOK, Grant, TokenInv
<1>c. \A d \in Caller : call[d].tok \in Nat /\ call[d].rejected \in Nat
  BY DEF TypeOK, Call
<1>d. \A d \in Caller : \/ call'[d] = call[d] /\ d # p
                        \/ call'[d] = call[d] /\ p = Loop
                        \/ call'[d].tok = cache'.tok /\ call'[d].rejected = call[d].rejected
  <2>1. CASE p = Loop /\ call' = call
    BY <2>1
  <2>2. CASE p \in Caller /\ Send(p, call[p], cache')
    <3>1. call[p] \in Call /\ call \in [Caller -> Call]
      BY <2>2 DEF TypeOK
    <3>2. call' = [call EXCEPT ![p] = [call[p] EXCEPT !.tok = cache'.tok, !.dies = cache'.dies]]
      BY <2>2 DEF Send
    <3>3. call'[p].tok = cache'.tok /\ call'[p].rejected = call[p].rejected
      BY <2>2, <3>1, <3>2 DEF Call
    <3> QED BY <3>1, <3>2, <3>3
  <2> QED BY <2>1, <2>2
<1>e. \A q \in Proc : pc'[q] \notin Refreshing
  BY <1>a DEF SingleRefresh, TypeOK, Refreshing
<1>1. InUseBelow(issued + 1)'
  BY <1>a, <1>b, <1>c, <1>d DEF InUseBelow
<1>2. RetryUsesNewToken'
  <2>1. ASSUME NEW d \in Caller, pc'[d] = "get", call'[d].rejected # 0
        PROVE  call'[d].tok > call'[d].rejected /\ cache'.tok > call'[d].rejected
    <3>1. call'[d].rejected = call[d].rejected /\ call[d].rejected < cache'.tok
      BY <1>b, <1>d DEF InUseBelow
    <3>2. CASE d # p \/ p = Loop
      <4>1. pc[d] = "get" /\ call'[d] = call[d]
        BY <3>2, <2>1, <1>d DEF TypeOK, Proc, Send
      <4> QED BY <4>1, <3>1, <2>1, <1>b, <1>c DEF TokenInv, RetryUsesNewToken
    <3>3. CASE d = p
      <4>1. call'[d].tok = cache'.tok
        BY <3>3, <1>d
      <4> QED BY <4>1, <3>1, <1>b, <1>c
    <3> QED BY <3>2, <3>3
  <2> QED BY <2>1, <1>e DEF RetryUsesNewToken, Proc
<1>3. InUseBelow(issued + 1)' /\ RetryUsesNewToken' /\ InUseBelow(cache'.tok)
  BY <1>1, <1>2, <1>b
<1> QED BY <1>3, <1>e DEF TokenInv, Refreshing, Proc

LEMMA TokenStep == TypeOK /\ SingleRefresh /\ TokenInv /\ [Next]_vars => TokenInv'
<1> SUFFICES ASSUME TypeOK, SingleRefresh, TokenInv, [Next]_vars PROVE TokenInv'
  OBVIOUS
<1> USE ProcAssumption
<1>a. Caller \subseteq Proc /\ Loop \in Proc
  BY DEF Proc
<1>b. \A c \in Caller : call[c] \in Call /\ call[c].tries \in Nat /\ call[c].tok \in Nat
                        /\ call[c].tok <= issued /\ call[c].rejected <= issued
  BY DEF TypeOK, TokenInv, InUseBelow, Call
<1>c. \A p \in Proc : pc[p] = "granted" => 0 < grant[p].tok /\ 0 <= issued
  BY DEF TypeOK, Token, Grant, TokenInv, InUseBelow
<1>d. \A p \in Proc, c \in Caller : pc[p] = "granted" =>
         call[c].tok < grant[p].tok /\ call[c].rejected < grant[p].tok
  BY DEF TokenInv, InUseBelow
<1>e. issued \in Nat
  BY DEF TypeOK
(* A new attempt of _get asks for a token with nothing rejected.           *)
<1>f. ASSUME NEW c \in Caller, NEW n \in Nat, pc[c] \in {"idle", "backoff"},
             GetToken(c, [NoCall EXCEPT !.tries = n]), UNCHANGED <<grant, issued>>
      PROVE  TokenInv'
  <2> DEFINE k == [NoCall EXCEPT !.tries = n]
  <2>1. k \in Call /\ k.tok = 0 /\ k.rejected = 0
    BY DEF NoCall, Call
  <2>2. GetToken(c, k)
    BY <1>f
  <2> HIDE DEF k
  <2>3. CASE GetTokenBody(c, k)
    BY <1>f, <2>1, <2>3, <1>c, <1>e, GetTokenBodyTokens
  <2>4. CASE Enqueue(c) /\ call' = [call EXCEPT ![c] = k]
    <3>1. \A q \in Proc : pc[q] = "granted" => k.tok < grant[q].tok /\ k.rejected < grant[q].tok
      BY <2>1, <1>c
    <3>2. k.tok <= issued /\ k.rejected <= issued
      BY <2>1, <1>e
    <3> QED BY <1>f, <2>1, <2>4, <3>1, <3>2, <1>a, EnqueueTokens
  <2> QED BY <2>2, <2>3, <2>4 DEF GetToken
<1>1. ASSUME NEW c \in Caller, CallTool(c) PROVE TokenInv'
  BY <1>1, <1>f DEF CallTool, serverVars
<1>2. ASSUME NEW c \in Caller, Retry(c) PROVE TokenInv'
  <2>1. call[c].tries + 1 \in Nat
    BY <1>b
  <2> QED BY <1>2, <1>f, <2>1 DEF Retry, serverVars
<1>3. ASSUME NEW c \in Caller, EnterGetToken(c) PROVE TokenInv'
  BY <1>3, <1>b, <1>d, GetTokenBodyTokens DEF EnterGetToken, MyTurn, serverVars
<1>4. ASSUME NEW c \in Caller, EnterHandle401(c) PROVE TokenInv'
  BY <1>4, <1>b, <1>d, Handle401BodyTokens DEF EnterHandle401, MyTurn, serverVars
<1>5. ASSUME NEW c \in Caller, Unauthorized(c) PROVE TokenInv'
  <2> DEFINE k == [call[c] EXCEPT !.rejected = call[c].tok]
  <2>1. k \in Call /\ k.tok = call[c].tok /\ k.rejected = call[c].tok
    BY <1>b DEF Call
  <2>2. Handle401(c, k) /\ pc[c] = "get" /\ UNCHANGED <<grant, issued>>
    BY <1>5 DEF Unauthorized, serverVars
  <2> HIDE DEF k
  <2>3. CASE Handle401Body(c, k)
    BY <2>1, <2>2, <2>3, <1>b, <1>d, Handle401BodyTokens
  <2>4. CASE Enqueue(c) /\ call' = [call EXCEPT ![c] = k]
    BY <2>1, <2>2, <2>4, <1>a, <1>b, <1>d, EnqueueTokens
  <2> QED BY <2>2, <2>3, <2>4 DEF Handle401
<1>6. ASSUME NEW c \in Caller,
             \/ UnauthorizedAgain(c) \/ Answered(c) \/ TransportError(c) \/ CancelWaiting(c)
             \/ Cancel(c) \/ TokenUnreachable(c) \/ TokenRefused(c)
      PROVE TokenInv'
  <2>1. \E s \in {"idle", "backoff"} : pc' = [pc EXCEPT ![c] = s]
    BY <1>6 DEF UnauthorizedAgain, Answered, TransportError, CancelWaiting, Cancel,
                TokenUnreachable, TokenRefused, Finish, Abandon
  <2>2. call' = call \/ call' = [call EXCEPT ![c] = NoCall]
    BY <1>6 DEF UnauthorizedAgain, Answered, TransportError, CancelWaiting, Cancel,
                TokenUnreachable, TokenRefused, Finish, Abandon
  <2>3. UNCHANGED <<cache, issued>> /\ (grant' = grant \/ grant' = [grant EXCEPT ![c] = NoGrant])
    BY <1>6 DEF UnauthorizedAgain, Answered, TransportError, CancelWaiting, Cancel,
                TokenUnreachable, TokenRefused, serverVars
  <2>4. {"idle", "backoff"} \subseteq (CallerPc \cup LoopPc) \ (Refreshing \cup {"get"})
    BY DEF CallerPc, Refreshing
  <2> QED BY <2>1, <2>2, <2>3, <2>4, <1>a, LeaveTokens
<1>7. ASSUME NEW p \in Proc, VaultAnswers(p) \/ VaultFails(p) PROVE TokenInv'
  BY <1>7 DEF VaultAnswers, VaultFails, serverVars, TypeOK, TokenInv, InUseBelow,
              RetryUsesNewToken, Refreshing, Proc
<1>8. ASSUME NEW p \in Proc, IssueToken(p) PROVE TokenInv'
  <2>1. pc' = [pc EXCEPT ![p] = "granted"] /\ pc[p] = "post" /\ issued' = issued + 1
        /\ grant'[p].tok = issued + 1 /\ UNCHANGED <<cache, call>>
        /\ \A q \in Proc : q # p => grant'[q] = grant[q]
    BY <1>8 DEF IssueToken, TypeOK
  <2>2. \A d \in Caller : call[d].tok \in Nat /\ call[d].rejected \in Nat
    BY DEF TypeOK, Call
  <2>3. InUseBelow(issued + 1)'
    BY <2>1, <2>2, <1>e DEF TokenInv, InUseBelow, TypeOK, Token
  <2>4. ASSUME NEW q \in Proc, pc'[q] = "granted" PROVE q = p
    <3>1. CASE q # p
      <4>1. pc[q] = "granted"
        BY <2>1, <2>4, <3>1 DEF TypeOK
      <4> QED BY <2>1, <4>1 DEF SingleRefresh, Refreshing
    <3> QED BY <3>1
  <2>5. InUseBelow(grant[p].tok)'
    BY <2>1 DEF TokenInv, InUseBelow
  <2>6. RetryUsesNewToken' /\ \A d \in Caller : pc'[d] \in Refreshing => cache' = NoToken
    BY <2>1 DEF TokenInv, RetryUsesNewToken, TypeOK, Refreshing, Proc
  <2> QED BY <2>1, <2>3, <2>4, <2>5, <2>6, <1>e DEF TokenInv
<1>9. ASSUME NEW c \in Caller, TokenForCall(c) PROVE TokenInv'
  <2>1. pc' = [pc EXCEPT ![c] = "get"] /\ Send(c, call[c], cache') /\ Install(c)
    BY <1>9 DEF TokenForCall, Send
  <2> QED BY <2>1, <1>a, InstallTokens
<1>10. CASE TokenForLoop
  <2>1. pc' = [pc EXCEPT ![Loop] = "due"] /\ Install(Loop) /\ call' = call
    BY <1>10 DEF TokenForLoop
  <2> QED BY <2>1, <1>a, InstallTokens
<1>11. CASE LoopRefreshFails \/ LoopTop
  <2>1. \E s \in {"nap", "due"} : pc' = [pc EXCEPT ![Loop] = s]
    <3>1. pc[Loop] = "nap" => pc = [pc EXCEPT ![Loop] = "nap"]
      BY <1>a DEF TypeOK
    <3> QED BY <1>11, <3>1 DEF LoopRefreshFails, LoopTop
  <2>2. call' = call /\ UNCHANGED <<cache, issued>>
        /\ (grant' = grant \/ grant' = [grant EXCEPT ![Loop] = NoGrant])
    BY <1>11 DEF LoopRefreshFails, LoopTop, serverVars
  <2>3. {"nap", "due"} \subseteq (CallerPc \cup LoopPc) \ (Refreshing \cup {"get"})
    BY DEF LoopPc, Refreshing
  <2> QED BY <2>1, <2>2, <2>3, <1>a, LeaveTokens
<1>12. CASE LoopWakes
  <2>1. CASE BeginRefresh(Loop) /\ UNCHANGED cache
    BY <1>12, <2>1 DEF LoopWakes, BeginRefresh, serverVars, TypeOK, TokenInv, InUseBelow,
                       RetryUsesNewToken, Refreshing, Proc
  <2>2. CASE Enqueue(Loop)
    BY <1>12, <2>2, <1>a, EnqueueTokens DEF LoopWakes, serverVars
  <2> QED BY <1>12, <2>1, <2>2 DEF LoopWakes
<1>13. CASE EnterLoop
  BY <1>13 DEF EnterLoop, BeginRefresh, serverVars, TypeOK, TokenInv, InUseBelow,
               RetryUsesNewToken, Refreshing, Proc
<1>14. CASE InitialiseFails \/ Tick \/ Revoke \/ UNCHANGED vars
  BY <1>14 DEF InitialiseFails, Tick, Revoke, vars, serverVars, TokenInv, InUseBelow,
               RetryUsesNewToken
<1> QED
  BY <1>1, <1>2, <1>3, <1>4, <1>5, <1>6, <1>7, <1>8, <1>9, <1>10, <1>11, <1>12, <1>13, <1>14, <1>a
  DEF Next, Running, Stopped, CallerStep, LoopStep

(* The induction behind the theorems on tokens.                            *)
LEMMA AllInvariants == Spec => [](TypeOK /\ LockInv /\ TokenInv)
<1>1. Init => TypeOK /\ LockInv /\ TokenInv
  BY TypeInit, LockInit, TokenInit
<1>2. TypeOK /\ LockInv /\ TokenInv /\ [Next]_vars => (TypeOK /\ LockInv /\ TokenInv)'
  BY TypeStep, LockStep, TokenStep, LockImplies
<1> QED BY <1>1, <1>2, PTL DEF Spec

(* The retry after a 401 never presents the rejected token or an older one. *)
THEOREM RetryIsFresh == Spec => []RetryUsesNewToken
<1>1. TokenInv => RetryUsesNewToken
  BY DEF TokenInv
<1> QED BY <1>1, AllInvariants, PTL

(* No response of the token endpoint is overtaken by an older one.         *)
THEOREM CacheMovesForward == Spec => NewTokenIsNewest
<1>1. TypeOK /\ LockInv /\ TokenInv /\ [Next]_vars
        => [cache' # cache /\ cache' # NoToken =>
              /\ cache.tok < cache'.tok
              /\ \A c \in Caller : call[c].tok < cache'.tok]_vars
  <2> SUFFICES ASSUME TypeOK, LockInv, TokenInv, Next, cache' # cache, cache' # NoToken
               PROVE  InUseBelow(cache'.tok)
    BY DEF InUseBelow, vars
  <2>1. \E p \in Proc : Install(p)
    BY DEF Next, Running, Stopped, CallerStep, LoopStep, vars, CallTool, Retry, GetToken, GetTokenBody,
           EnterGetToken, EnterHandle401, Unauthorized, Handle401, Handle401Body, Enqueue,
           UnauthorizedAgain, Answered, TransportError, CancelWaiting, Cancel, VaultAnswers,
           VaultFails, IssueToken, TokenForCall, TokenForLoop, TokenUnreachable, TokenRefused,
           LoopRefreshFails, InitialiseFails, LoopWakes, EnterLoop, LoopTop, Tick, Revoke, Proc
  <2>2. PICK p \in Proc : Install(p)
    BY <2>1
  <2> QED BY <2>2 DEF Install, TokenInv
<1> QED BY <1>1, AllInvariants, PTL DEF Spec, NewTokenIsNewest

-----------------------------------------------------------------------------
(* The pace of the background loop: a sleep it begins ends no sooner than  *)
(* the retry delay, or the token's quiet time, after its last refresh.     *)
PaceInv ==
    /\ lastWake <= now
    /\ pc[Loop] = "nap" => wake >= lastWake + RetryDelay
    /\ pc[Loop] = "due" /\ Lifetime > RefreshBefore =>
         wake >= lastWake + RetryDelay \/ wake >= lastWake + (Lifetime - RefreshBefore)

LEMMA PaceInit == Init => PaceInv
BY NumberAssumption DEF Init, PaceInv, Proc

(* A tool call never moves the loop.                                       *)
LEMMA CallersLeaveLoop ==
    ASSUME TypeOK, NEW c \in Caller,
           CallTool(c) \/ CallerStep(c) \/ CancelWaiting(c) \/ Cancel(c)
    PROVE  UNCHANGED <<now, wake, lastWake>> /\ pc'[Loop] = pc[Loop]
<1>1. Loop # c /\ Loop \in Proc /\ c \in Proc
  BY ProcAssumption DEF Proc
<1>2. UNCHANGED <<now, wake, lastWake>>
  BY DEF CallerStep, CallTool, Retry, EnterGetToken, EnterHandle401, Unauthorized,
         UnauthorizedAgain, Answered, TransportError, CancelWaiting, Cancel, VaultAnswers,
         VaultFails, IssueToken, TokenForCall, Install, TokenUnreachable, TokenRefused, loopVars
<1>3. pc' = pc \/ \E s : pc' = [pc EXCEPT ![c] = s]
  BY DEF CallerStep, CallTool, Retry, EnterGetToken, EnterHandle401, Unauthorized, GetToken,
         GetTokenBody, Handle401, Handle401Body, Enqueue, BeginRefresh, Send, Finish, Abandon,
         UnauthorizedAgain, Answered, TransportError, CancelWaiting, Cancel, VaultAnswers,
         VaultFails, IssueToken, TokenForCall, TokenUnreachable, TokenRefused
<1> QED BY <1>1, <1>2, <1>3 DEF TypeOK

LEMMA PaceStep == TypeOK /\ PaceInv /\ [Next]_vars => PaceInv'
<1> SUFFICES ASSUME TypeOK, PaceInv, [Next]_vars PROVE PaceInv'
  OBVIOUS
<1>1. /\ now \in Nat /\ wake \in Nat /\ lastWake \in Int /\ pc \in [Proc -> CallerPc \cup LoopPc]
      /\ Loop \in Proc
      /\ Lifetime \in Nat /\ RefreshBefore \in Nat /\ RetryDelay \in Nat /\ IdleDelay \in Nat
  BY NumberAssumption DEF TypeOK, Proc
<1>2. CASE UNCHANGED <<now, wake, lastWake>> /\ pc'[Loop] = pc[Loop]
  BY <1>2 DEF PaceInv
<1>3. CASE TokenForLoop
  <2>1. /\ pc'[Loop] = "due" /\ lastWake' = lastWake /\ now' = now
        /\ wake' = Later(now, now + Lifetime - RefreshBefore)
    BY <1>1, <1>3 DEF TokenForLoop, Install
  <2>2. wake' \in Int /\ wake' >= now + (Lifetime - RefreshBefore)
    BY <1>1, <2>1 DEF Later
  <2> QED BY <1>1, <2>1, <2>2 DEF PaceInv
<1>4. CASE LoopRefreshFails
  <2>1. pc'[Loop] = "nap" /\ lastWake' = lastWake /\ now' = now /\ wake' = now + RetryDelay
    BY <1>1, <1>4 DEF LoopRefreshFails
  <2> QED BY <1>1, <2>1 DEF PaceInv
<1>5. CASE LoopWakes
  <2>1. lastWake' = now /\ now' = now /\ pc'[Loop] \in {"vault", "wait"}
    BY <1>1, <1>5 DEF LoopWakes, BeginRefresh, Enqueue
  <2> QED BY <1>1, <2>1 DEF PaceInv
<1>6. CASE LoopTop
  <2>1. now >= wake /\ wake >= lastWake + RetryDelay /\ lastWake' = lastWake /\ now' = now
    BY <1>6 DEF LoopTop, PaceInv
  <2>2. wake' >= now /\ wake' \in Int
    BY <1>1, <1>6 DEF LoopTop, Later, TypeOK, Token
  <2> QED BY <1>1, <2>1, <2>2 DEF PaceInv
<1>7. CASE EnterLoop \/ VaultAnswers(Loop) \/ IssueToken(Loop)
  <2>1. UNCHANGED <<now, wake, lastWake>>
    BY <1>7 DEF EnterLoop, VaultAnswers, IssueToken, loopVars
  <2>2. pc'[Loop] \in {"vault", "post", "granted"}
    BY <1>1, <1>7 DEF EnterLoop, BeginRefresh, VaultAnswers, IssueToken
  <2> QED BY <1>1, <2>1, <2>2 DEF PaceInv
<1>8. CASE VaultFails(Loop) \/ InitialiseFails \/ Revoke \/ UNCHANGED vars
  BY <1>2, <1>8 DEF VaultFails, InitialiseFails, Revoke, vars, loopVars
<1>9. CASE Tick
  <2>1. now' = now + 1 /\ UNCHANGED <<wake, lastWake, pc>>
    BY <1>9 DEF Tick, loopVars
  <2> QED BY <1>1, <2>1 DEF PaceInv
<1> QED
  BY <1>2, <1>3, <1>4, <1>5, <1>6, <1>7, <1>8, <1>9, CallersLeaveLoop
  DEF Next, Running, Stopped, LoopStep

(* Whatever the calls do with the cache and the lock meanwhile, the loop   *)
(* does not start its next refresh before it slept the retry delay or, if  *)
(* the tokens live longer than the refresh window, the token's quiet time  *)
(* (_refresh_loop, appd_auth.py:106-135).                                   *)
THEOREM LoopPaced == Spec => RefreshPaced
<1>1. Spec => []PaceInv
  BY PaceInit, PaceStep, AllInvariants, PTL DEF Spec
<1>2. TypeOK /\ PaceInv /\ [Next]_vars =>
        [Lifetime > RefreshBefore /\ pc[Loop] = "due" /\ pc'[Loop] # "due" =>
           \/ now - lastWake >= RetryDelay
           \/ now - lastWake >= Lifetime - RefreshBefore]_vars
  <2> SUFFICES ASSUME TypeOK, PaceInv, Next, Lifetime > RefreshBefore,
                      pc[Loop] = "due", pc'[Loop] # "due"
               PROVE  \/ now - lastWake >= RetryDelay
                      \/ now - lastWake >= Lifetime - RefreshBefore
    BY DEF vars
  <2>1. /\ now \in Nat /\ wake \in Nat /\ lastWake \in Int /\ pc \in [Proc -> CallerPc \cup LoopPc]
        /\ Loop \in Proc /\ Lifetime \in Nat /\ RefreshBefore \in Nat /\ RetryDelay \in Nat
    BY NumberAssumption DEF TypeOK, Proc
  <2>2. now >= wake
    BY <2>1, CallersLeaveLoop
    DEF Next, Running, Stopped, LoopStep, vars, LoopWakes, EnterLoop, MyTurn, LoopTop, VaultAnswers,
        VaultFails, IssueToken, TokenForLoop, Install, LoopRefreshFails, InitialiseFails, Tick, Revoke
  <2> QED BY <2>1, <2>2 DEF PaceInv
<1> QED BY <1>1, <1>2, AllInvariants, PTL DEF Spec, RefreshPaced
=============================================================================
