---------------------------- MODULE TokenBuckets ----------------------------
(***************************************************************************)
(* What the three layers of the rate limiter promise: every key has a      *)
(* token bucket of its own that exists for ever, is refilled by the clock  *)
(* up to its capacity, and gives tokens only while it has them.  There is  *)
(* no pruning and no waiting here.                                         *)
(***************************************************************************)
EXTENDS Integers

CONSTANTS
    Key,     \* one bucket per key
    Refill,  \* ticks in which a bucket gains a token
    Cap,     \* ticks in which an empty bucket fills
    Weight   \* what a request may cost

VARIABLES
    time,
    avail    \* what each bucket can give now, in ticks of its refill

Lesser(a, b) == IF a < b THEN a ELSE b

BucketsInit ==
    /\ time = 0
    /\ avail = [k \in Key |-> Cap[k]]

(* A tick passes.                                                          *)
Fill ==
    /\ time' = time + 1
    /\ avail' = [k \in Key |-> Lesser(Cap[k], avail[k] + 1)]

(* The buckets of S give w tokens each.                                    *)
Take(S, w) ==
    /\ \A k \in S : avail[k] >= w * Refill[k]
    /\ avail' = [k \in Key |-> IF k \in S THEN avail[k] - w * Refill[k] ELSE avail[k]]
    /\ UNCHANGED time

BucketsNext == Fill \/ \E S \in SUBSET Key, w \in Weight : Take(S, w)

BucketsSpec == BucketsInit /\ [][BucketsNext]_<<time, avail>>
=============================================================================
