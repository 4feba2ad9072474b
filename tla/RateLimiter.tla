---------------------------- MODULE RateLimiter ----------------------------
(***************************************************************************)
(* utils/rate_limiter.py: the global, per-team and per-user token buckets, *)
(* check_and_wait, which every tool handler awaits before its work, and    *)
(* the background pruning of idle buckets.                                 *)
(*                                                                         *)
(* The locks of the module are never held across an await, so a call runs  *)
(* without interruption from its start, or from the end of a sleep, to the *)
(* next asyncio.sleep or to its return: that is one action.                *)
(*                                                                         *)
(* The tick of the clock is a common measure of the times in which the     *)
(* buckets refill a token, or any part of one: 10 ms make 2, 5 and 10      *)
(* ticks at 50, 20 and 10 tokens a second.  What a bucket holds is counted *)
(* in the ticks it takes to refill, so that (tokens - _tokens) / _rate is  *)
(* the missing content itself: a sleep is exact, and ends between two      *)
(* tokens as in the code.                                                  *)
(***************************************************************************)
EXTENDS Integers, Sequences

CONSTANTS
    Caller,        \* tasks that run tool calls
    User, Team,    \* keys of the per-user and per-team buckets
    Global,        \* key of the global bucket
    NoTeam,        \* get_team_for_upn found no team
    UserOf,        \* the UPN each caller acts for
    TeamOf,        \* the team of each UPN, or NoTeam
    Refill,        \* ticks in which the bucket of each key refills a token
    Cap,           \* ticks in which it refills when it is empty
    Weight,        \* tool weights
    IdleTTL,       \* USER_IDLE_TTL_S
    PruneInterval, \* PRUNE_INTERVAL_S
    MaxTime        \* bound: last value of the clock

Key == {Global} \cup Team \cup User

ASSUME KeyAssumption ==
    /\ Global \notin Team \cup User
    /\ Team \cap User = {}
    /\ NoTeam \notin Key
    /\ UserOf \in [Caller -> User]
    /\ TeamOf \in [User -> Team \cup {NoTeam}]

ASSUME NumberAssumption ==
    /\ Refill \in [Key -> Nat \ {0}] /\ Cap \in [Key -> Nat \ {0}]
    /\ Weight \subseteq Nat \ {0}
    /\ IdleTTL \in Nat /\ PruneInterval \in Nat \ {0} /\ MaxTime \in Nat

(* An idle bucket is full again before it is pruned (300 s of idleness     *)
(* against bursts that take 2 s to refill).                                *)
ASSUME IdleAssumption == \A k \in Team \cup User : Cap[k] <= IdleTTL

(* The heaviest tool (3 tokens) fits the global burst (100).               *)
ASSUME BurstAssumption == \A w \in Weight : w * Refill[Global] <= Cap[Global]

VARIABLES
    now,
    bucket,     \* the TokenBucket of each key: _tokens and _last, or Absent
    call,       \* check_and_wait of each caller
    nextPrune,  \* when the sleep of _prune_loop ends
    mark,       \* history: start of the window the two counters below cover
    granted,    \* history: what each bucket has given since mark
    unpaid      \* history: weight of each caller's last sleep at the global
                \* bucket, until somebody pays that bucket

vars == <<now, bucket, call, nextPrune, mark, granted, unpaid>>

Lesser(a, b) == IF a < b THEN a ELSE b
Cost(k, w) == w * Refill[k]

Absent == [tokens |-> 0, last |-> 0 - 1]

(* stage n: asleep after the n-th bucket of the path came up short.        *)
Idle == [stage |-> 0, until |-> 0, weight |-> 0]

(* global -> team (if known) -> per-user                                   *)
Path(c) ==
    LET u == UserOf[c] IN
    IF TeamOf[u] = NoTeam THEN <<Global, u>> ELSE <<Global, TeamOf[u], u>>

(* Mutant: a refill that forgets the capacity.                             *)
AvailableUncapped(k) ==
    IF bucket[k] = Absent
    THEN Cap[k]
    ELSE bucket[k].tokens + (now - bucket[k].last)

(* _tokens after the _refill at the start of acquire; a bucket that is not *)
(* in the map is created full.                                             *)
Available(k) ==
    IF bucket[k] = Absent
    THEN Cap[k]
    ELSE Lesser(Cap[k], bucket[k].tokens + (now - bucket[k].last))

Init ==
    /\ now = 0
    /\ bucket = [k \in Key |-> IF k = Global THEN [tokens |-> Cap[k], last |-> 0] ELSE Absent]
    /\ call = [c \in Caller |-> Idle]
    /\ nextPrune = PruneInterval
    /\ mark = 0
    /\ granted = [k \in Key |-> 0]
    /\ unpaid = [c \in Caller |-> 0]

(* Mutant: a short bucket is charged as well and goes into debt.           *)
ChargedInDebt(k, w, short) == [tokens |-> Available(k) - Cost(k, w), last |-> now]

(* The bucket after acquire(w): short or not, it was refilled.             *)
Charged(k, w, short) ==
    [tokens |-> IF short THEN Available(k) ELSE Available(k) - Cost(k, w), last |-> now]

(* The caller meets the buckets of its path from the i-th on: it passes    *)
(* those before the j-th and goes to sleep at the j-th, or passes them all *)
(* and returns (j is past the end).  A bucket that came up short is not    *)
(* asked again after the sleep.                                            *)
Proceed(c, i, w) ==
    \E j \in i..(Len(Path(c)) + 1) :
        LET passed == {Path(c)[n] : n \in i..(j - 1)}
            short == IF j <= Len(Path(c)) THEN {Path(c)[j]} ELSE {}
        IN
        /\ \A k \in passed : Available(k) >= Cost(k, w)
        /\ \A k \in short : Available(k) < Cost(k, w)
        /\ bucket' = [k \in Key |->
                        IF k \in passed \cup short THEN Charged(k, w, k \in short) ELSE bucket[k]]
        /\ granted' = [k \in Key |-> IF k \in passed THEN granted[k] + Cost(k, w) ELSE granted[k]]
        /\ \/ /\ short = {}
              /\ call' = [call EXCEPT ![c] = Idle]
           \/ \E k \in short :
                call' = [call EXCEPT ![c] =
                   [stage |-> j, until |-> now + (Cost(k, w) - Available(k)), weight |-> w]]
        /\ unpaid' = [d \in Caller |->
                        IF Global \in passed THEN 0 ELSE IF d = c /\ Global \in short THEN w ELSE unpaid[d]]
        /\ UNCHANGED <<now, nextPrune, mark>>

CheckAndWait(c) ==
    /\ call[c].stage = 0
    /\ \E w \in Weight : Proceed(c, 1, w)

(* Mutant: the call does not wait.                                         *)
WakeUpAtOnce(c) ==
    /\ call[c].stage > 0
    /\ Proceed(c, call[c].stage + 1, call[c].weight)

(* The sleep is over; the call goes on with the next bucket.               *)
WakeUp(c) ==
    /\ call[c].stage > 0
    /\ now >= call[c].until
    /\ Proceed(c, call[c].stage + 1, call[c].weight)

(* Mutant: the pruning does not look at last_used.                         *)
PruneAll ==
    /\ now >= nextPrune
    /\ nextPrune' = now + PruneInterval
    /\ bucket' = [k \in Key |-> IF k \in Team \cup User THEN Absent ELSE bucket[k]]
    /\ UNCHANGED <<now, call, mark, granted, unpaid>>

(* One round of _prune_loop: team and user buckets idle for longer than    *)
(* the TTL are deleted.                                                    *)
Prune ==
    /\ now >= nextPrune
    /\ nextPrune' = now + PruneInterval
    /\ bucket' = [k \in Key |->
                    IF k \in Team \cup User /\ bucket[k].last < now - IdleTTL THEN Absent ELSE bucket[k]]
    /\ UNCHANGED <<now, call, mark, granted, unpaid>>

Tick ==
    /\ now < MaxTime
    /\ now' = now + 1
    /\ UNCHANGED <<bucket, call, nextPrune, mark, granted, unpaid>>

(* The observer starts its window now; one window, at any time, is enough. *)
Mark ==
    /\ mark = 0 /\ now > 0
    /\ mark' = now
    /\ granted' = [k \in Key |-> 0]
    /\ UNCHANGED <<now, bucket, call, nextPrune, unpaid>>

(* The bound on the clock is not an end of the program.                    *)
OutOfTime == now = MaxTime /\ UNCHANGED vars

Next ==
    \/ \E c \in Caller : CheckAndWait(c) \/ WakeUp(c)
    \/ Prune
    \/ Tick
    \/ Mark
    \/ OutOfTime

Spec == Init /\ [][Next]_vars

-----------------------------------------------------------------------------
Bucket == [tokens : Int, last : Int]

TypeOK ==
    /\ now \in Nat
    /\ bucket \in [Key -> Bucket]
    /\ \A k \in Key : bucket[k] # Absent =>
          bucket[k].tokens \in 0..Cap[k] /\ bucket[k].last \in 0..now
    /\ call \in [Caller -> [stage : 0..3, until : Nat, weight : Nat]]
    /\ nextPrune \in Nat
    /\ mark \in 0..now
    /\ granted \in [Key -> Nat]
    /\ unpaid \in [Caller -> Nat]

(* In every window of time a bucket gives at most its burst plus what it   *)
(* refills in the window, for every interleaving of callers and although   *)
(* idle buckets are dropped and made anew (TokenBucket._refill, acquire,   *)
(* _prune_loop).                                                           *)
WindowBound == \A k \in Key : granted[k] <= Cap[k] + (now - mark)

(* No call is told to sleep for longer than one bucket needs to refill the *)
(* call's own weight: waits do not add up over the callers in front        *)
(* (TokenBucket.acquire).                                                  *)
WaitBound ==
    \A c \in Caller : call[c].stage > 0 =>
        call[c].until - now <= Cost(Path(c)[call[c].stage], call[c].weight)

(* Pruning is invisible: seen from outside, every key has an everlasting   *)
(* token bucket that starts full.                                          *)
Ideal == INSTANCE TokenBuckets WITH time <- now, avail <- [k \in Key |-> Available(k)]
ImplementsBuckets == Ideal!BucketsSpec

(* A call that slept passes the global layer without paying it (rate_      *)
(* limiter.py:179-182), and any number of callers can sleep for the same   *)
(* refill.  But no caller lives on this: before it sleeps there again,     *)
(* somebody has paid since its last sleep began, or it asks for more.      *)
PaidInBetween ==
    [][\A c \in Caller :
         call[c].stage = 0 /\ call'[c].stage = 1 => unpaid[c] < call'[c].weight]_vars
=============================================================================
