-------------------------- MODULE RateLimiterProofs --------------------------
(***************************************************************************)
(* Theorems about RateLimiter for every set of callers, users and teams    *)
(* and every refill time, capacity and weight.  WindowInv adds what a      *)
(* bucket can still give to what it has given: a tick adds at most one, a  *)
(* grant moves content from one side to the other, and pruning a bucket    *)
(* idle for IdleTTL changes neither.  FreeInv says what a sleeper has been *)
(* promised: until somebody pays, the global bucket is on its way to the   *)
(* cost of the sleeper's call, and has reached it when the sleep is over.  *)
(***************************************************************************)
EXTENDS RateLimiter, TLAPS

WeightInv == \A c \in Caller : call[c].stage > 0 => call[c].weight \in Weight

WindowInv == \A k \in Key : granted[k] + Available(k) <= Cap[k] + (now - mark)

SleepInv ==
    \A c \in Caller : call[c].stage > 0 =>
        /\ call[c].stage \in 1..Len(Path(c))
        /\ call[c].until - now <= Cost(Path(c)[call[c].stage], call[c].weight)

FreeInv ==
    \A c \in Caller : unpaid[c] > 0 =>
        /\ unpaid[c] \in Weight
        /\ \/ Cost(Global, unpaid[c]) <= Available(Global)
           \/ /\ call[c].stage = 1
              /\ Cost(Global, unpaid[c]) <= Available(Global) + (call[c].until - now)

LimiterInv == TypeOK /\ WeightInv /\ WindowInv /\ SleepInv /\ FreeInv

-----------------------------------------------------------------------------
LEMMA ProductMono == \A r \in Nat, m, n \in Int : m <= n => m * r <= n * r
<1> SUFFICES ASSUME NEW r \in Nat, NEW m \in Int, NEW n \in Int, m <= n PROVE m * r <= n * r
  OBVIOUS
<1>1. (n - m) * r \in Nat
  <2>1. \A a, b \in Nat : a * b \in Nat
    OBVIOUS
  <2> QED BY <2>1, n - m \in Nat
<1>2. (n - m) * r = n * r - m * r
  OBVIOUS
<1>3. n * r \in Int /\ m * r \in Int
  OBVIOUS
<1> QED BY <1>1, <1>2, <1>3

(* The heavier request costs more.                                         *)
LEMMA CostMono ==
    ASSUME NEW k \in Key, NEW w \in Nat
    PROVE  /\ Cost(k, w) \in Nat
           /\ \A v \in Nat : Cost(k, w) < Cost(k, v) => w < v
<1>1. Refill[k] \in Nat
  BY NumberAssumption
<1>2. \A v \in Nat : Cost(k, v) \in Nat
  <2>1. \A a, b \in Nat : a * b \in Nat
    OBVIOUS
  <2> QED BY <1>1, <2>1 DEF Cost
<1>3. \A v \in Nat : v <= w => Cost(k, v) <= Cost(k, w)
  BY <1>1, ProductMono DEF Cost
<1> QED BY <1>2, <1>3

LEMMA PathKeys ==
    ASSUME NEW c \in Caller
    PROVE  /\ Len(Path(c)) \in 2..3
           /\ \A n \in 1..Len(Path(c)) : Path(c)[n] \in Key
           /\ Global \in Key
           /\ \A n \in 1..Len(Path(c)) : Path(c)[n] = Global <=> n = 1
BY KeyAssumption DEF Path, Key

(* What a bucket can give is never negative nor above its capacity.        *)
LEMMA AvailableRange ==
    ASSUME TypeOK, NEW k \in Key
    PROVE  Available(k) \in 0..Cap[k] /\ Cap[k] \in Nat
<1>1. Cap[k] \in Nat
  BY NumberAssumption
<1>2. CASE bucket[k] = Absent
  BY <1>1, <1>2 DEF Available
<1>3. CASE bucket[k] # Absent
  <2>1. bucket[k].tokens \in 0..Cap[k] /\ now - bucket[k].last \in Nat
    BY <1>3 DEF TypeOK
  <2> QED BY <1>1, <1>3, <2>1 DEF Available, Lesser
<1> QED BY <1>1, <1>2, <1>3

(* Every bucket starts full.                                               *)
LEMMA FullAtStart ==
    ASSUME Init, NEW k \in Key
    PROVE  Available(k) = Cap[k]
<1>1. Cap[k] \in Nat
  BY NumberAssumption
<1>2. CASE k = Global
  <2>1. bucket[k] = [tokens |-> Cap[k], last |-> 0] /\ now = 0
    BY <1>2 DEF Init
  <2>2. bucket[k] # Absent
    <3>1. bucket[k].last # Absent.last
      BY <2>1 DEF Absent
    <3> QED BY <3>1
  <2> QED BY <1>1, <2>1, <2>2 DEF Available, Lesser
<1>3. CASE k # Global
  BY <1>3 DEF Init, Available
<1> QED BY <1>2, <1>3

LEMMA LimiterInit == Init => LimiterInv
<1> SUFFICES ASSUME Init PROVE LimiterInv
  OBVIOUS
<1>1. TypeOK
  BY NumberAssumption, KeyAssumption DEF Init, TypeOK, Bucket, Absent, Idle, Key
<1>2. WeightInv /\ SleepInv /\ FreeInv
  BY DEF Init, WeightInv, SleepInv, FreeInv, Idle
<1>3. WindowInv
  <2> SUFFICES ASSUME NEW k \in Key PROVE granted[k] + Available(k) <= Cap[k] + (now - mark)
    BY DEF WindowInv
  <2>1. Available(k) = Cap[k] /\ Cap[k] \in Nat
    BY FullAtStart, NumberAssumption
  <2>2. granted[k] = 0 /\ now - mark = 0
    BY DEF Init
  <2> QED BY <2>1, <2>2
<1> QED BY <1>1, <1>2, <1>3 DEF LimiterInv

(* A value stored by acquire is available again at once.                   *)
LEMMA StoredAvailable ==
    ASSUME TypeOK, NEW k \in Key, NEW t \in 0..Cap[k],
           bucket'[k] = [tokens |-> t, last |-> now], now' = now
    PROVE  Available(k)' = t
<1>1. bucket'[k] # Absent
  <2>1. bucket'[k].last # Absent.last
    BY DEF Absent, TypeOK
  <2> QED BY <2>1
<1>2. Cap[k] \in Nat
  BY NumberAssumption
<1>3. now' - bucket'[k].last = 0
  BY DEF TypeOK
<1> QED BY <1>1, <1>2, <1>3 DEF Available, Lesser

(* One stretch of check_and_wait: the buckets passed give the cost of the  *)
(* call each, all others can give what they could before; the call sleeps  *)
(* next at a bucket it has not met, or not at all; and the history of      *)
(* unpaid sleeps follows what happened at the global bucket.               *)
LEMMA ProceedStretch ==
    ASSUME TypeOK, NEW c \in Caller, NEW i \in 1..4, NEW w \in Weight, Proceed(c, i, w)
    PROVE  /\ TypeOK'
           /\ UNCHANGED <<now, mark>>
           /\ \A d \in Caller \ {c} : call'[d] = call[d]
           /\ call'[c].stage > 0 =>
                 /\ call'[c].stage \in i..Len(Path(c))
                 /\ call'[c].weight = w
                 /\ Available(Path(c)[call'[c].stage]) < Cost(Path(c)[call'[c].stage], w)
                 /\ call'[c].until =
                       now + (Cost(Path(c)[call'[c].stage], w) - Available(Path(c)[call'[c].stage]))
           /\ \E S \in SUBSET Key :
                 /\ \A k \in S : /\ Available(k) >= Cost(k, w)
                                 /\ Available(k)' = Available(k) - Cost(k, w)
                                 /\ granted'[k] = granted[k] + Cost(k, w)
                 /\ \A k \in Key \ S : Available(k)' = Available(k) /\ granted'[k] = granted[k]
                 /\ \/ Global \in S /\ unpaid' = [d \in Caller |-> 0]
                    \/ Global \notin S /\ call'[c].stage = 1 /\ unpaid' = [unpaid EXCEPT ![c] = w]
                    \/ Global \notin S /\ call'[c].stage # 1 /\ unpaid' = unpaid
<1>1. PICK j \in i..(Len(Path(c)) + 1) :
        LET passed == {Path(c)[n] : n \in i..(j - 1)}
            short == IF j <= Len(Path(c)) THEN {Path(c)[j]} ELSE {}
        IN
        /\ \A k \in passed : Available(k) >= Cost(k, w)
        /\ \A k \in short : Available(k) < Cost(k, w)
        /\ bucket' = [k \in Key |->
                        IF k \in passed \cup short THEN Charged(k, w, k \in short) ELSE bucket[k]]
        /\ granted' = [k \in Key |-> IF k \in passed THEN granted[k] + Cost(k, w) ELSE granted[k]]
        /\ \/ /\ short = {}
              /\ call' = [call EXCEPT ![c] = Idle]
           \/ \E k \in short :
                call' = [call EXCEPT ![c] =
                   [stage |-> j, until |-> now + (Cost(k, w) - Available(k)), weight |-> w]]
        /\ unpaid' = [d \in Caller |->
                        IF Global \in passed THEN 0 ELSE IF d = c /\ Global \in short THEN w ELSE unpaid[d]]
        /\ UNCHANGED <<now, nextPrune, mark>>
  BY DEF Proceed
<1> DEFINE passed == {Path(c)[n] : n \in i..(j - 1)}
           short == IF j <= Len(Path(c)) THEN {Path(c)[j]} ELSE {}
<1>2. /\ Len(Path(c)) \in 2..3 /\ j \in 1..4 /\ j \in i..(Len(Path(c)) + 1)
      /\ \A n \in 1..Len(Path(c)) : Path(c)[n] \in Key
      /\ \A n \in 1..Len(Path(c)) : Path(c)[n] = Global <=> n = 1
      /\ Global \in Key
  BY PathKeys
<1>3. /\ passed \subseteq Key /\ short \subseteq Key
      /\ \A k \in short : j <= Len(Path(c)) /\ k = Path(c)[j]
      /\ j <= Len(Path(c)) => Path(c)[j] \in short
  BY <1>2
<1>4. w \in Nat /\ w \in Nat \ {0}
  BY NumberAssumption
<1>5. /\ \A k \in passed : Available(k) >= Cost(k, w)
      /\ \A k \in short : Available(k) < Cost(k, w)
      /\ bucket' = [k \in Key |->
                      IF k \in passed \cup short THEN Charged(k, w, k \in short) ELSE bucket[k]]
      /\ granted' = [k \in Key |-> IF k \in passed THEN granted[k] + Cost(k, w) ELSE granted[k]]
      /\ \/ /\ short = {}
            /\ call' = [call EXCEPT ![c] = Idle]
         \/ \E k \in short :
              call' = [call EXCEPT ![c] =
                 [stage |-> j, until |-> now + (Cost(k, w) - Available(k)), weight |-> w]]
      /\ unpaid' = [d \in Caller |->
                      IF Global \in passed THEN 0 ELSE IF d = c /\ Global \in short THEN w ELSE unpaid[d]]
      /\ UNCHANGED <<now, nextPrune, mark>>
  BY <1>1
<1> HIDE DEF passed, short
<1>6. \A k \in Key : Available(k) \in 0..Cap[k] /\ Cap[k] \in Nat /\ Cost(k, w) \in Nat
  BY <1>4, AvailableRange, CostMono
<1>7. passed \cap short = {}
  <2> SUFFICES ASSUME NEW k \in passed, k \in short PROVE FALSE
    OBVIOUS
  <2>1. Available(k) \in Int /\ Cost(k, w) \in Int
    BY <1>3, <1>6
  <2> QED BY <2>1, <1>5
<1>8. ASSUME NEW k \in passed
      PROVE  /\ Available(k) - Cost(k, w) \in 0..Cap[k]
             /\ bucket'[k] = [tokens |-> Available(k) - Cost(k, w), last |-> now]
  <2>1. /\ Available(k) \in 0..Cap[k] /\ Cap[k] \in Nat /\ Cost(k, w) \in Nat
        /\ Available(k) >= Cost(k, w) /\ k \in Key /\ k \notin short
    BY <1>3, <1>5, <1>6, <1>7
  <2> QED BY <2>1, <1>5 DEF Charged
<1>9. ASSUME NEW k \in short
      PROVE  /\ Available(k) \in 0..Cap[k]
             /\ bucket'[k] = [tokens |-> Available(k), last |-> now]
  <2>1. Available(k) \in 0..Cap[k] /\ k \in Key
    BY <1>3, <1>6
  <2> QED BY <2>1, <1>5 DEF Charged
<1>10. ASSUME NEW k \in Key \ (passed \cup short) PROVE bucket'[k] = bucket[k]
  BY <1>5
<1>11. \/ call'[c] = Idle /\ short = {}
       \/ /\ j <= Len(Path(c))
          /\ call'[c] = [stage |-> j, until |-> now + (Cost(Path(c)[j], w) - Available(Path(c)[j])),
                         weight |-> w]
          /\ Available(Path(c)[j]) < Cost(Path(c)[j], w)
  BY <1>3, <1>5 DEF TypeOK
<1>12. TypeOK'
  <2>1. ASSUME NEW k \in Key
        PROVE  /\ bucket'[k] \in Bucket
               /\ bucket'[k] # Absent => bucket'[k].tokens \in 0..Cap[k] /\ bucket'[k].last \in 0..now
    <3>1. ASSUME NEW t \in 0..Cap[k], bucket'[k] = [tokens |-> t, last |-> now]
          PROVE  /\ bucket'[k] \in Bucket
                 /\ bucket'[k].tokens \in 0..Cap[k] /\ bucket'[k].last \in 0..now
      <4>1. Cap[k] \in Nat /\ now \in Nat
        BY <1>6 DEF TypeOK
      <4> QED BY <3>1, <4>1 DEF Bucket
    <3>2. CASE k \in passed
      BY <1>8, <3>1, <3>2
    <3>3. CASE k \in short
      BY <1>9, <3>1, <3>3
    <3>4. CASE k \notin passed \cup short
      BY <3>4, <1>10 DEF TypeOK
    <3> QED BY <3>2, <3>3, <3>4
  <2>2. bucket' \in [Key -> Bucket]
    BY <2>1, <1>5
  <2>3. call'[c] \in [stage : 0..3, until : Nat, weight : Nat]
    <3>1. CASE call'[c] = Idle
      BY <3>1 DEF Idle
    <3>2. CASE j <= Len(Path(c)) /\ Available(Path(c)[j]) < Cost(Path(c)[j], w)
               /\ call'[c] = [stage |-> j, until |-> now + (Cost(Path(c)[j], w) - Available(Path(c)[j])),
                             weight |-> w]
      <4>1. Cost(Path(c)[j], w) \in Nat /\ Available(Path(c)[j]) \in Nat /\ now \in Nat
        BY <1>2, <1>6, <3>2 DEF TypeOK
      <4>3. j \in 0..3
        BY <1>2, <3>2
      <4>4. \A a, b, n \in Nat : a < b => n + (b - a) \in Nat
        OBVIOUS
      <4>2. now + (Cost(Path(c)[j], w) - Available(Path(c)[j])) \in Nat /\ j \in 0..3
        BY <3>2, <4>1, <4>3, <4>4
      <4> QED BY <1>4, <3>2, <4>2
    <3> QED BY <1>11, <3>1, <3>2
  <2>4. call' \in [Caller -> [stage : 0..3, until : Nat, weight : Nat]]
    <3>1. call \in [Caller -> [stage : 0..3, until : Nat, weight : Nat]]
      BY DEF TypeOK
    <3>2. \E r : call' = [call EXCEPT ![c] = r]
      BY <1>5
    <3> QED BY <2>3, <3>1, <3>2
  <2>5. granted' \in [Key -> Nat]
    BY <1>3, <1>5, <1>6 DEF TypeOK
  <2>6. unpaid' \in [Caller -> Nat]
    BY <1>4, <1>5 DEF TypeOK
  <2> QED BY <1>5, <2>1, <2>2, <2>4, <2>5, <2>6 DEF TypeOK
<1>13. \A d \in Caller \ {c} : call'[d] = call[d]
  BY <1>5 DEF TypeOK
<1>14. ASSUME call'[c].stage > 0
       PROVE  /\ call'[c].stage = j /\ j \in i..Len(Path(c)) /\ call'[c].weight = w
              /\ Available(Path(c)[j]) < Cost(Path(c)[j], w)
              /\ call'[c].until = now + (Cost(Path(c)[j], w) - Available(Path(c)[j]))
  <2>1. call'[c] # Idle
    BY <1>14 DEF Idle
  <2> QED BY <1>2, <1>11, <2>1
<1>15. ASSUME NEW k \in passed
       PROVE  /\ Available(k) >= Cost(k, w) /\ Available(k)' = Available(k) - Cost(k, w)
              /\ granted'[k] = granted[k] + Cost(k, w)
  BY <1>3, <1>5, <1>8, StoredAvailable
<1>16. ASSUME NEW k \in Key \ passed
       PROVE  Available(k)' = Available(k) /\ granted'[k] = granted[k]
  <2>1. CASE k \in short
    BY <2>1, <1>5, <1>9, StoredAvailable
  <2>2. CASE k \notin short
    BY <2>2, <1>5, <1>10 DEF Available
  <2> QED BY <2>1, <2>2, <1>5
<1>17. \/ Global \in passed /\ unpaid' = [d \in Caller |-> 0]
       \/ Global \notin passed /\ call'[c].stage = 1 /\ unpaid' = [unpaid EXCEPT ![c] = w]
       \/ Global \notin passed /\ call'[c].stage # 1 /\ unpaid' = unpaid
  <2>1. CASE Global \in passed
    BY <1>5, <2>1
  <2>2. CASE Global \notin passed /\ Global \in short
    <3>1. j = 1 /\ call'[c].stage = 1
      BY <1>2, <1>3, <1>11, <2>2
    <3>2. unpaid' = [unpaid EXCEPT ![c] = w]
      BY <1>5, <2>2 DEF TypeOK
    <3> QED BY <2>2, <3>1, <3>2
  <2>3. CASE Global \notin passed /\ Global \notin short
    <3>1. unpaid' = unpaid
      BY <1>5, <2>3 DEF TypeOK
    <3>2. call'[c].stage # 1
      BY <1>2, <1>3, <1>14, <2>3
    <3> QED BY <2>3, <3>1, <3>2
  <2> QED BY <2>1, <2>2, <2>3
<1> QED BY <1>3, <1>5, <1>12, <1>13, <1>14, <1>15, <1>16, <1>17

(* A pruned bucket was full: it can give as much before as after.          *)
LEMMA PruneBuckets ==
    ASSUME TypeOK, Prune
    PROVE  TypeOK' /\ \A k \in Key : Available(k)' = Available(k)
<1>1. bucket' = [k \in Key |->
         IF k \in Team \cup User /\ bucket[k].last < now - IdleTTL THEN Absent ELSE bucket[k]]
      /\ UNCHANGED <<now, call, mark, granted, unpaid>> /\ nextPrune' = now + PruneInterval
  BY DEF Prune
<1>2. TypeOK'
  BY <1>1, NumberAssumption DEF TypeOK, Bucket, Absent
<1>3. ASSUME NEW k \in Key PROVE Available(k)' = Available(k)
  <2>1. CASE bucket'[k] = bucket[k]
    BY <2>1, <1>1 DEF Available
  <2>2. CASE bucket[k] # Absent /\ k \in Team \cup User /\ bucket[k].last < now - IdleTTL
    <3>1. Cap[k] \in Nat /\ IdleTTL \in Nat /\ Cap[k] <= IdleTTL
      BY <2>2, NumberAssumption, IdleAssumption
    <3>2. bucket[k].tokens \in Nat /\ now - bucket[k].last \in Nat /\ IdleTTL <= now - bucket[k].last
      BY <2>2, <3>1 DEF TypeOK
    <3>3. Available(k) = Cap[k]
      BY <2>2, <3>1, <3>2 DEF Available, Lesser
    <3>4. Available(k)' = Cap[k]
      BY <1>1, <2>2 DEF Available
    <3> QED BY <3>3, <3>4
  <2> QED BY <1>1, <2>1, <2>2
<1> QED BY <1>2, <1>3

(* A tick adds one, up to the capacity.                                    *)
LEMMA TickBuckets ==
    ASSUME TypeOK, Tick
    PROVE  TypeOK' /\ \A k \in Key : Available(k)' = Lesser(Cap[k], Available(k) + 1)
<1>1. now' = now + 1 /\ UNCHANGED <<bucket, call, nextPrune, mark, granted, unpaid>>
  BY DEF Tick
<1>2. TypeOK'
  BY <1>1 DEF TypeOK
<1>3. ASSUME NEW k \in Key PROVE Available(k)' = Lesser(Cap[k], Available(k) + 1)
  <2>1. Cap[k] \in Nat
    BY NumberAssumption
  <2>2. CASE bucket[k] = Absent
    BY <1>1, <2>1, <2>2 DEF Available, Lesser
  <2>3. CASE bucket[k] # Absent
    <3>1. bucket[k].tokens \in Nat /\ bucket[k].last \in Nat /\ now \in Nat
      BY <2>3 DEF TypeOK
    <3> QED BY <1>1, <2>1, <2>3, <3>1 DEF Available, Lesser
  <2> QED BY <2>2, <2>3
<1> QED BY <1>2, <1>3

-----------------------------------------------------------------------------
(* A stretch of check_and_wait keeps the invariant, whichever of the two   *)
(* actions it belongs to: the call starts (i = 1), or a sleep is over.     *)
LEMMA ProceedInv ==
    ASSUME LimiterInv, NEW c \in Caller, NEW i \in 1..4, NEW w \in Weight, Proceed(c, i, w),
           call[c].stage = i - 1, i > 1 => now >= call[c].until
    PROVE  LimiterInv'
<1>1. TypeOK /\ WeightInv /\ WindowInv /\ SleepInv /\ FreeInv /\ w \in Nat \ {0} /\ Global \in Key
  BY NumberAssumption, PathKeys DEF LimiterInv
<1>2. /\ TypeOK'
      /\ UNCHANGED <<now, mark>>
      /\ \A d \in Caller \ {c} : call'[d] = call[d]
      /\ call'[c].stage > 0 =>
            /\ call'[c].stage \in i..Len(Path(c))
            /\ call'[c].weight = w
            /\ Available(Path(c)[call'[c].stage]) < Cost(Path(c)[call'[c].stage], w)
            /\ call'[c].until =
                  now + (Cost(Path(c)[call'[c].stage], w) - Available(Path(c)[call'[c].stage]))
  BY <1>1, ProceedStretch
<1>3. PICK S \in SUBSET Key :
         /\ \A k \in S : /\ Available(k) >= Cost(k, w)
                         /\ Available(k)' = Available(k) - Cost(k, w)
                         /\ granted'[k] = granted[k] + Cost(k, w)
         /\ \A k \in Key \ S : Available(k)' = Available(k) /\ granted'[k] = granted[k]
         /\ \/ Global \in S /\ unpaid' = [d \in Caller |-> 0]
            \/ Global \notin S /\ call'[c].stage = 1 /\ unpaid' = [unpaid EXCEPT ![c] = w]
            \/ Global \notin S /\ call'[c].stage # 1 /\ unpaid' = unpaid
  BY <1>1, ProceedStretch
<1>4. \A k \in Key : Available(k) \in 0..Cap[k] /\ Cap[k] \in Nat /\ Cost(k, w) \in Nat
  BY <1>1, AvailableRange, CostMono
<1>5. now \in Nat /\ call' \in [Caller -> [stage : 0..3, until : Nat, weight : Nat]]
  BY <1>1, <1>2 DEF TypeOK
<1>6. WeightInv'
  BY <1>1, <1>2 DEF WeightInv
<1>7. WindowInv'
  <2>1. ASSUME NEW k \in Key
        PROVE  granted'[k] + Available(k)' = granted[k] + Available(k)
    <3>1. granted[k] \in Nat /\ Available(k) \in Nat /\ Cost(k, w) \in Nat
      BY <1>1, <1>4 DEF TypeOK
    <3> QED BY <3>1, <1>3
  <2> QED BY <1>1, <1>2, <2>1 DEF WindowInv
<1>8. SleepInv'
  <2> SUFFICES ASSUME NEW d \in Caller, call'[d].stage > 0
               PROVE  /\ call'[d].stage \in 1..Len(Path(d))
                      /\ call'[d].until - now' <= Cost(Path(d)[call'[d].stage], call'[d].weight)
    BY DEF SleepInv, Path, Cost
  <2>1. CASE d = c
    <3>1. call'[c].stage \in 1..Len(Path(c)) /\ Path(c)[call'[c].stage] \in Key
      BY <1>2, <2>1, PathKeys
    <3>2. Available(Path(c)[call'[c].stage]) \in Nat /\ Cost(Path(c)[call'[c].stage], w) \in Nat
      BY <1>4, <3>1
    <3> QED BY <1>2, <1>5, <2>1, <3>1, <3>2
  <2>2. CASE d # c
    BY <1>1, <1>2, <2>2 DEF SleepInv
  <2> QED BY <2>1, <2>2
<1>9. FreeInv'
  <2> SUFFICES ASSUME NEW d \in Caller, unpaid'[d] > 0
               PROVE  /\ unpaid'[d] \in Weight
                      /\ \/ Cost(Global, unpaid'[d]) <= Available(Global)'
                         \/ /\ call'[d].stage = 1
                            /\ Cost(Global, unpaid'[d]) <= Available(Global)' + (call'[d].until - now')
    BY DEF FreeInv, Cost
  <2>1. unpaid \in [Caller -> Nat]
    BY <1>1 DEF TypeOK
  <2>2. Global \notin S /\ Available(Global)' = Available(Global)
    BY <1>1, <1>3
  <2>3. CASE d = c /\ call'[c].stage = 1
    <3>1. unpaid'[d] = w
      BY <1>3, <2>1, <2>2, <2>3
    <3>2. Path(c)[1] = Global
      BY PathKeys
    <3>3. call'[c].until = now + (Cost(Global, w) - Available(Global))
      BY <1>2, <2>3, <3>2
    <3>4. Available(Global) \in Nat /\ Cost(Global, w) \in Nat
      BY <1>1, <1>4
    <3> QED BY <1>2, <1>5, <2>2, <2>3, <3>1, <3>3, <3>4
  <2>4. CASE d = c /\ call'[c].stage # 1
    <3>1. unpaid'[c] = unpaid[c]
      BY <1>3, <2>2, <2>4
    <3>2. unpaid[c] \in Weight /\ Cost(Global, unpaid[c]) \in Nat
      BY <1>1, <2>4, <3>1, CostMono, NumberAssumption DEF FreeInv
    <3>3. Cost(Global, unpaid[c]) <= Available(Global)
      <4>1. CASE call[c].stage = 1
        <5>1. now >= call[c].until /\ call[c].until \in Nat
          BY <1>1, <4>1 DEF TypeOK
        <5>2. Available(Global) \in Nat
          BY <1>1, <1>4
        <5> QED BY <1>1, <1>5, <2>4, <3>1, <3>2, <5>1, <5>2 DEF FreeInv
      <4>2. CASE call[c].stage # 1
        BY <1>1, <2>4, <3>1, <4>2 DEF FreeInv
      <4> QED BY <4>1, <4>2
    <3> QED BY <2>2, <2>4, <3>1, <3>2, <3>3
  <2>5. CASE d # c
    <3>1. unpaid'[d] = unpaid[d] /\ call'[d] = call[d]
      BY <1>2, <1>3, <2>1, <2>2, <2>5
    <3> QED BY <1>1, <1>2, <2>2, <3>1 DEF FreeInv
  <2> QED BY <2>3, <2>4, <2>5
<1> QED BY <1>2, <1>6, <1>7, <1>8, <1>9 DEF LimiterInv

(* A tick brings every sleeper nearer to what it was promised, and a full  *)
(* bucket can give it already.                                             *)
LEMMA TickInv == LimiterInv /\ Tick => LimiterInv'
<1> SUFFICES ASSUME LimiterInv, Tick PROVE LimiterInv'
  OBVIOUS
<1>1. TypeOK /\ WeightInv /\ WindowInv /\ SleepInv /\ FreeInv
  BY DEF LimiterInv
<1>2. TypeOK' /\ \A k \in Key : Available(k)' = Lesser(Cap[k], Available(k) + 1)
  BY <1>1, TickBuckets
<1>3. now' = now + 1 /\ UNCHANGED <<call, mark, granted, unpaid>> /\ now \in Nat /\ mark \in Nat
  BY <1>1 DEF Tick, TypeOK
<1>4. \A k \in Key : Available(k) \in 0..Cap[k] /\ Cap[k] \in Nat
  BY <1>1, AvailableRange
<1>5. WeightInv'
  BY <1>1, <1>3 DEF WeightInv
<1>6. WindowInv'
  <2> SUFFICES ASSUME NEW k \in Key
               PROVE  granted[k] + Available(k)' <= Cap[k] + ((now + 1) - mark)
    BY <1>3 DEF WindowInv
  <2>1. granted[k] \in Nat /\ Available(k) \in Nat /\ Cap[k] \in Nat
        /\ granted[k] + Available(k) <= Cap[k] + (now - mark)
    BY <1>1, <1>4 DEF TypeOK, WindowInv
  <2>2. Available(k)' <= Available(k) + 1 /\ Available(k)' \in Int
    BY <1>2, <2>1 DEF Lesser
  <2> QED BY <1>3, <2>1, <2>2
<1>7. SleepInv'
  <2> SUFFICES ASSUME NEW d \in Caller, call[d].stage > 0
               PROVE  /\ call[d].stage \in 1..Len(Path(d))
                      /\ call[d].until - (now + 1) <= Cost(Path(d)[call[d].stage], call[d].weight)
    BY <1>3 DEF SleepInv, Path, Cost
  <2>1. /\ call[d].stage \in 1..Len(Path(d)) /\ call[d].until \in Nat /\ call[d].weight \in Nat
        /\ call[d].until - now <= Cost(Path(d)[call[d].stage], call[d].weight)
    BY <1>1 DEF SleepInv, TypeOK
  <2>2. Cost(Path(d)[call[d].stage], call[d].weight) \in Nat
    BY <2>1, PathKeys, CostMono
  <2> QED BY <1>3, <2>1, <2>2
<1>8. FreeInv'
  <2> SUFFICES ASSUME NEW d \in Caller, unpaid[d] > 0
               PROVE  /\ unpaid[d] \in Weight
                      /\ \/ Cost(Global, unpaid[d]) <= Available(Global)'
                         \/ /\ call[d].stage = 1
                            /\ Cost(Global, unpaid[d]) <= Available(Global)' + (call[d].until - (now + 1))
    BY <1>3 DEF FreeInv, Cost
  <2>1. /\ unpaid[d] \in Weight
        /\ \/ Cost(Global, unpaid[d]) <= Available(Global)
           \/ /\ call[d].stage = 1
              /\ Cost(Global, unpaid[d]) <= Available(Global) + (call[d].until - now)
    BY <1>1 DEF FreeInv
  <2>2. Global \in Key /\ unpaid[d] \in Nat
    BY <2>1, PathKeys, NumberAssumption
  <2>3. Cost(Global, unpaid[d]) <= Cap[Global] /\ Cost(Global, unpaid[d]) \in Nat
    BY <2>1, <2>2, CostMono, BurstAssumption DEF Cost
  <2>4. /\ Available(Global) \in 0..Cap[Global] /\ Cap[Global] \in Nat
        /\ Available(Global)' = Lesser(Cap[Global], Available(Global) + 1)
        /\ call[d].until \in Nat
    BY <1>1, <1>2, <1>4, <2>2 DEF TypeOK
  <2>5. CASE Available(Global) + 1 <= Cap[Global]
    <3>1. Available(Global)' = Available(Global) + 1
      BY <2>4, <2>5 DEF Lesser
    <3> QED BY <1>3, <2>1, <2>3, <2>4, <3>1
  <2>6. CASE ~(Available(Global) + 1 <= Cap[Global])
    <3>1. Available(Global)' = Cap[Global]
      BY <2>4, <2>6 DEF Lesser
    <3> QED BY <2>1, <2>3, <3>1
  <2> QED BY <2>5, <2>6
<1> QED BY <1>2, <1>5, <1>6, <1>7, <1>8 DEF LimiterInv

LEMMA PruneInv == LimiterInv /\ Prune => LimiterInv'
<1> SUFFICES ASSUME LimiterInv, Prune PROVE LimiterInv'
  OBVIOUS
<1>1. TypeOK /\ WeightInv /\ WindowInv /\ SleepInv /\ FreeInv /\ Global \in Key
  BY DEF LimiterInv, Key
<1>2. TypeOK' /\ \A k \in Key : Available(k)' = Available(k)
  BY <1>1, PruneBuckets
<1>3. UNCHANGED <<now, call, mark, granted, unpaid>>
  BY DEF Prune
<1>4. WeightInv' /\ WindowInv' /\ SleepInv' /\ FreeInv'
  BY <1>1, <1>2, <1>3 DEF WeightInv, WindowInv, SleepInv, FreeInv, Path, Cost
<1> QED BY <1>2, <1>4 DEF LimiterInv

LEMMA MarkInv == LimiterInv /\ Mark => LimiterInv'
<1> SUFFICES ASSUME LimiterInv, Mark PROVE LimiterInv'
  OBVIOUS
<1>1. TypeOK /\ WeightInv /\ SleepInv /\ FreeInv
  BY DEF LimiterInv
<1>2. /\ mark' = now /\ granted' = [k \in Key |-> 0]
      /\ UNCHANGED <<now, bucket, call, nextPrune, unpaid>>
  BY DEF Mark
<1>3. TypeOK'
  BY <1>1, <1>2 DEF TypeOK
<1>4. WeightInv' /\ SleepInv' /\ FreeInv'
  BY <1>1, <1>2 DEF WeightInv, SleepInv, FreeInv, Path, Cost, Available
<1>5. ASSUME NEW k \in Key
      PROVE  granted'[k] + Available(k)' <= Cap[k] + (now' - mark')
  <2>1. Available(k)' \in 0..Cap[k] /\ Cap[k] \in Nat
    <3>1. Available(k)' = Available(k)
      BY <1>2 DEF Available
    <3> QED BY <3>1, <1>1, AvailableRange
  <2>2. now' - mark' = 0 /\ granted'[k] = 0
    BY <1>1, <1>2 DEF TypeOK
  <2> QED BY <2>1, <2>2
<1> QED BY <1>3, <1>4, <1>5 DEF LimiterInv, WindowInv

LEMMA StutterInv == LimiterInv /\ UNCHANGED vars => LimiterInv'
<1> SUFFICES ASSUME LimiterInv, UNCHANGED vars PROVE LimiterInv'
  OBVIOUS
<1>1. UNCHANGED <<now, bucket, call, nextPrune, mark, granted, unpaid>>
  BY DEF vars
<1>2. TypeOK'
  BY <1>1 DEF LimiterInv, TypeOK
<1>3. WeightInv' /\ WindowInv'
  BY <1>1 DEF LimiterInv, WeightInv, WindowInv, Available
<1>4. SleepInv' /\ FreeInv'
  BY <1>1 DEF LimiterInv, SleepInv, FreeInv, Available, Path, Cost
<1> QED BY <1>2, <1>3, <1>4 DEF LimiterInv

(* Where a call resumes is a stage of its path.                            *)
LEMMA WakeUpProceeds ==
    ASSUME LimiterInv, NEW c \in Caller, WakeUp(c)
    PROVE  /\ call[c].stage + 1 \in 2..4
           /\ call[c].stage = (call[c].stage + 1) - 1
           /\ call[c].weight \in Weight
           /\ now >= call[c].until
           /\ Proceed(c, call[c].stage + 1, call[c].weight)
BY DEF LimiterInv, TypeOK, WeightInv, WakeUp

LEMMA LimiterStep == LimiterInv /\ [Next]_vars => LimiterInv'
<1> SUFFICES ASSUME LimiterInv, [Next]_vars PROVE LimiterInv'
  OBVIOUS
<1>1. ASSUME NEW c \in Caller, CheckAndWait(c) PROVE LimiterInv'
  <2>1. PICK w \in Weight : Proceed(c, 1, w)
    BY <1>1 DEF CheckAndWait
  <2>2. call[c].stage = 1 - 1
    BY <1>1 DEF CheckAndWait
  <2> QED BY <2>1, <2>2, ProceedInv
<1>2. ASSUME NEW c \in Caller, WakeUp(c) PROVE LimiterInv'
  BY <1>2, WakeUpProceeds, ProceedInv
<1>3. CASE Prune
  BY <1>3, PruneInv
<1>4. CASE Tick
  BY <1>4, TickInv
<1>5. CASE Mark
  BY <1>5, MarkInv
<1>6. CASE OutOfTime
  BY <1>6, StutterInv DEF OutOfTime
<1>7. CASE UNCHANGED vars
  BY <1>7, StutterInv
<1> QED BY <1>1, <1>2, <1>3, <1>4, <1>5, <1>6, <1>7 DEF Next

LEMMA LimiterAlways == Spec => []LimiterInv
BY LimiterInit, LimiterStep, PTL DEF Spec

-----------------------------------------------------------------------------
(* The buckets, calls and clocks of utils/rate_limiter.py stay well typed: *)
(* no bucket holds a negative number of tokens or more than its capacity.  *)
THEOREM TypeCorrect == Spec => []TypeOK
BY LimiterAlways, PTL DEF LimiterInv

(* For every number of callers, users and teams, and every rate and burst: *)
(* what a bucket gives in a window is at most its burst plus what it       *)
(* refills in the window, in spite of sleeping callers and of pruning.     *)
THEOREM WindowBounded == Spec => []WindowBound
<1>1. LimiterInv => WindowBound
  <2> SUFFICES ASSUME LimiterInv, NEW k \in Key
               PROVE  granted[k] <= Cap[k] + (now - mark)
    BY DEF WindowBound
  <2>1. /\ granted[k] \in Nat /\ Available(k) \in Nat /\ Cap[k] \in Nat
        /\ now - mark \in Nat
    BY AvailableRange DEF LimiterInv, TypeOK
  <2>2. granted[k] + Available(k) <= Cap[k] + (now - mark)
    BY DEF LimiterInv, WindowInv
  <2> QED BY <2>1, <2>2
<1> QED BY <1>1, LimiterAlways, PTL

(* No call of check_and_wait is told to sleep for longer than one bucket   *)
(* needs to refill the call's own weight, however many calls are asleep    *)
(* in front of it.                                                         *)
THEOREM WaitBounded == Spec => []WaitBound
<1>1. LimiterInv => WaitBound
  BY DEF LimiterInv, SleepInv, WaitBound
<1> QED BY <1>1, LimiterAlways, PTL

(* Whatever the other callers do: before a caller of check_and_wait sleeps *)
(* at the global bucket again, somebody has paid that bucket since its     *)
(* last sleep there began, or it asks for more than it did then.           *)
THEOREM PaidBetweenSleeps == Spec => PaidInBetween
<1>1. ASSUME LimiterInv, [Next]_vars
      PROVE  [\A c \in Caller : call[c].stage = 0 /\ call'[c].stage = 1
                                 => unpaid[c] < call'[c].weight]_vars
  <2> SUFFICES ASSUME NEW c \in Caller, call[c].stage = 0, call'[c].stage = 1
               PROVE  unpaid[c] < call'[c].weight
    OBVIOUS
  <2>1. TypeOK /\ FreeInv /\ Global \in Key /\ unpaid[c] \in Nat
    BY <1>1 DEF LimiterInv, Key, TypeOK
  <2>2. call[c] # call'[c]
    OBVIOUS
  <2>3. ASSUME NEW d \in Caller, NEW i \in 1..4, NEW w \in Weight, Proceed(d, i, w)
        PROVE  unpaid[c] < call'[c].weight
    <3>1. d = c
      BY <2>1, <2>2, <2>3, ProceedStretch
    <3>2. call'[c].weight = w /\ Available(Path(c)[1]) < Cost(Path(c)[1], w)
      BY <2>1, <2>3, <3>1, ProceedStretch
    <3>3. Path(c)[1] = Global /\ w \in Nat \ {0}
      BY PathKeys, NumberAssumption
    <3>4. CASE unpaid[c] = 0
      BY <3>2, <3>3, <3>4
    <3>5. CASE unpaid[c] > 0
      <4>1. Cost(Global, unpaid[c]) <= Available(Global)
        BY <2>1, <3>5 DEF FreeInv
      <4>2. Cost(Global, unpaid[c]) \in Nat /\ Cost(Global, w) \in Nat /\ Available(Global) \in Nat
        BY <2>1, <3>3, CostMono, AvailableRange
      <4>3. Cost(Global, unpaid[c]) < Cost(Global, w)
        BY <3>2, <3>3, <4>1, <4>2
      <4> QED BY <2>1, <3>2, <3>3, <4>3, CostMono
    <3> QED BY <2>1, <3>4, <3>5
  <2>4. ASSUME NEW d \in Caller, CheckAndWait(d) PROVE unpaid[c] < call'[c].weight
    BY <2>3, <2>4 DEF CheckAndWait
  <2>5. ASSUME NEW d \in Caller, WakeUp(d) PROVE unpaid[c] < call'[c].weight
    BY <1>1, <2>3, <2>5, WakeUpProceeds
  <2>6. ~(Prune \/ Tick \/ Mark \/ OutOfTime \/ UNCHANGED vars)
    BY <2>2 DEF Prune, Tick, Mark, OutOfTime, vars
  <2> QED BY <1>1, <2>4, <2>5, <2>6 DEF Next
<1> QED BY <1>1, LimiterAlways, PTL DEF Spec, PaidInBetween

(* Creating buckets on first use, refilling them only when they are asked, *)
(* and pruning idle ones implements buckets that exist for ever.           *)
THEOREM Implementation == Spec => ImplementsBuckets
<1> DEFINE avail == [k \in Key |-> Available(k)]
<1>1. Init => Ideal!BucketsInit
  <2> SUFFICES ASSUME Init PROVE Ideal!BucketsInit
    OBVIOUS
  <2>1. \A k \in Key : Available(k) = Cap[k]
    BY FullAtStart
  <2>2. now = 0
    BY DEF Init
  <2> QED BY <2>1, <2>2 DEF Ideal!BucketsInit
<1>2. ASSUME LimiterInv, [Next]_vars
      PROVE  [Ideal!BucketsNext]_<<now, avail>>
  <2>1. TypeOK
    BY <1>2 DEF LimiterInv
  <2>2. ASSUME NEW c \in Caller, NEW i \in 1..4, NEW w \in Weight, Proceed(c, i, w)
        PROVE  Ideal!BucketsNext
    <3>1. now' = now
      BY <2>1, <2>2, ProceedStretch
    <3>2. PICK S \in SUBSET Key :
             /\ \A k \in S : /\ Available(k) >= Cost(k, w)
                             /\ Available(k)' = Available(k) - Cost(k, w)
                             /\ granted'[k] = granted[k] + Cost(k, w)
             /\ \A k \in Key \ S : Available(k)' = Available(k) /\ granted'[k] = granted[k]
             /\ \/ Global \in S /\ unpaid' = [d \in Caller |-> 0]
                \/ Global \notin S /\ call'[c].stage = 1 /\ unpaid' = [unpaid EXCEPT ![c] = w]
                \/ Global \notin S /\ call'[c].stage # 1 /\ unpaid' = unpaid
      BY <2>1, <2>2, ProceedStretch
    <3>3. avail' = [k \in Key |-> IF k \in S THEN avail[k] - w * Refill[k] ELSE avail[k]]
      BY <3>2 DEF Cost
    <3>4. \A k \in S : avail[k] >= w * Refill[k]
      BY <3>2 DEF Cost
    <3>5. Ideal!Take(S, w)
      BY <3>1, <3>3, <3>4 DEF Ideal!Take
    <3> QED BY <3>5 DEF Ideal!BucketsNext
  <2>3. ASSUME NEW c \in Caller, CheckAndWait(c) PROVE Ideal!BucketsNext
    BY <2>2, <2>3 DEF CheckAndWait
  <2>4. ASSUME NEW c \in Caller, WakeUp(c) PROVE Ideal!BucketsNext
    BY <1>2, <2>2, <2>4, WakeUpProceeds
  <2>5. CASE Prune
    <3>1. now' = now
      BY <2>5 DEF Prune
    <3>2. avail' = avail
      BY <2>1, <2>5, PruneBuckets
    <3> QED BY <3>1, <3>2
  <2>6. CASE Tick
    <3>1. now' = now + 1
      BY <2>6 DEF Tick
    <3>2. avail' = [k \in Key |-> Ideal!Lesser(Cap[k], avail[k] + 1)]
      BY <2>1, <2>6, TickBuckets DEF Lesser, Ideal!Lesser
    <3> QED BY <3>1, <3>2 DEF Ideal!BucketsNext, Ideal!Fill
  <2>7. CASE Mark
    BY <2>7 DEF Mark, Available
  <2>8. CASE UNCHANGED vars
    BY <2>8 DEF vars, Available
  <2>9. CASE OutOfTime
    BY <2>9, <2>8 DEF OutOfTime
  <2> QED BY <1>2, <2>3, <2>4, <2>5, <2>6, <2>7, <2>8, <2>9 DEF Next
<1> QED BY <1>1, <1>2, LimiterAlways, PTL DEF Spec, ImplementsBuckets, Ideal!BucketsSpec
=============================================================================
