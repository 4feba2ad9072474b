-------------------------- MODULE SnapshotAnalysis --------------------------
(***************************************************************************)
(* The judgements of parsers/snapshot_parser.py as the tools of main.py    *)
(* use them: the score of a golden baseline (set_golden_snapshot, and the  *)
(* automatic choice of compare_snapshots) and the comparison of the call   *)
(* chains of a healthy and a failed snapshot.                              *)
(***************************************************************************)
EXTENDS Integers, FiniteSets, SequencesExt

CONSTANTS
    Guid,      \* snapshots
    ResponseMs, \* their response times
    StartHour, \* their start times, in hours; hour 0 starts a day and a week
    Method,    \* names of the call chains
    SegmentMs, \* times of a call segment
    MaxChain   \* bound: longest call chain

ASSUME SnapshotAssumption ==
    IsFiniteSet(Guid) /\ ResponseMs \cup StartHour \cup SegmentMs \subseteq Nat /\ MaxChain \in Nat

VARIABLE result   \* what the tool at work has found, or Nothing found yet

Snapshot == [error : BOOLEAN, ms : ResponseMs, start : StartHour]
Chain == SeqOf([name : Method, ms : SegmentMs], MaxChain)

NoResult == [of |-> "nothing"]

-----------------------------------------------------------------------------
(* score_golden_candidate, confidence_from_score                           *)

(* The hours of the day are compared without regard to midnight.           *)
SameHour(s, t) == (s % 24) - (t % 24) \in -1..1
SameWeekday(s, t) == (s \div 24) % 7 = (t \div 24) % 7

Slow(s, baseline) == baseline > 0 /\ 2 * s.ms > 3 * baseline

(* Mutant: errors weigh no more than slowness.                             *)
ScoreErrorLight(s, failed, baseline) ==
    100 - (IF s.error THEN 30 ELSE 0)
        - (IF Slow(s, baseline) THEN 30 ELSE 0)
        + (IF SameHour(s.start, failed.start) THEN 20 ELSE 0)
        + (IF SameWeekday(s.start, failed.start) THEN 10 ELSE 0)

(* Never below 20, so that the code's maximum with 0 changes nothing.      *)
Score(s, failed, baseline) ==
    100 - (IF s.error THEN 50 ELSE 0)
        - (IF Slow(s, baseline) THEN 30 ELSE 0)
        + (IF SameHour(s.start, failed.start) THEN 20 ELSE 0)
        + (IF SameWeekday(s.start, failed.start) THEN 10 ELSE 0)

(* Mutant: the bound of HIGH is HIGH.                                      *)
ConfidenceInclusive(score) ==
    IF score >= 80 THEN "HIGH" ELSE IF score > 50 THEN "MEDIUM" ELSE "LOW"

Confidence(score) ==
    IF score > 80 THEN "HIGH" ELSE IF score > 50 THEN "MEDIUM" ELSE "LOW"

(* The baseline of the automatic choice.                                   *)
Baseline == 500

(* The first of the best, sorted being stable; a listing may hold the      *)
(* failed snapshot itself, which is left out.                              *)
Best(listing, snap, failed) ==
    LET others == {i \in DOMAIN listing : listing[i] # failed}
        score(i) == Score(snap[listing[i]], snap[failed], Baseline)
    IN  listing[CHOOSE i \in others :
            \A j \in others : score(i) > score(j) \/ (score(i) = score(j) /\ i <= j)]

(* compare_snapshots without a healthy snapshot or a pinned golden.        *)
AutoSelect(listing, snap, failed) ==
    result' =
        IF Range(listing) \subseteq {failed} THEN [of |-> "no baseline"]
        ELSE LET best == Best(listing, snap, failed) IN
             [of |-> "baseline", guid |-> best, listing |-> listing, snap |-> snap, failed |-> failed,
              confidence |-> Confidence(Score(snap[best], snap[failed], Baseline))]

(* set_golden_snapshot scores a snapshot against itself.                   *)
ScorePinned(snap, g) ==
    result' = [of |-> "pinned", guid |-> g, snap |-> snap,
               confidence |-> Confidence(Score(snap[g], snap[g], snap[g].ms))]

-----------------------------------------------------------------------------
(* compare_snapshots                                                       *)

(* A method called twice stays where it was met first, with the time of    *)
(* its last call.                                                          *)
Names(chain) == {segment.name : segment \in Range(chain)}
MetBefore(chain, m, n) == \E i \in DOMAIN chain : chain[i].name = m /\ \A j \in 1..i : chain[j].name # n
Ms(chain, n) ==
    chain[CHOOSE i \in DOMAIN chain : chain[i].name = n /\ \A j \in DOMAIN chain : chain[j].name = n => j <= i].ms

(* Mutant: places are counted in the chain as it is.                       *)
PlaceRaw(chain, n) == SelectInSeq(chain, LAMBDA s : s.name = n)

Place(chain, n) == Cardinality({m \in Names(chain) : MetBefore(chain, m, n)})

Common(healthy, failed) == Names(healthy) \cap Names(failed)
Delta(healthy, failed, n) == Ms(failed, n) - Ms(healthy, n)

(* More than 30 percent and more than 20 ms slower.                        *)
Deviations(healthy, failed) ==
    {n \in Common(healthy, failed) :
        /\ Ms(healthy, n) # 0 /\ Delta(healthy, failed, n) > 20
        /\ 100 * Delta(healthy, failed, n) > 30 * Ms(healthy, n)}
Exclusive(healthy, failed) == Names(failed) \ Names(healthy)
PrematureExits(healthy, failed) ==
    {n \in Common(healthy, failed) : Place(failed, n) < Place(healthy, n)}

(* The first of the slowest, else the first new one, else none.            *)
Culprit(healthy, failed) ==
    LET deviating == Deviations(healthy, failed)
        new == Exclusive(healthy, failed)
        delta(n) == Delta(healthy, failed, n)
        suspects == IF deviating = {} THEN new
                    ELSE {n \in deviating : \A other \in deviating : delta(other) <= delta(n)}
    IN  {n \in suspects : \A other \in suspects \ {n} : MetBefore(failed, n, other)}

(* Mutant: two signals are enough for HIGH.                                *)
CertaintyEager(signals) ==
    IF signals >= 2 THEN "HIGH" ELSE IF signals = 1 THEN "MEDIUM" ELSE "LOW"

Certainty(signals) ==
    IF signals >= 3 THEN "HIGH" ELSE IF signals = 2 THEN "MEDIUM" ELSE "LOW"

Signals(healthy, failed, error) ==
    Cardinality({kind \in 1..4 :
        \/ kind = 1 /\ Deviations(healthy, failed) # {}
        \/ kind = 2 /\ Exclusive(healthy, failed) # {}
        \/ kind = 3 /\ PrematureExits(healthy, failed) # {}
        \/ kind = 4 /\ error})

Compare(healthy, failed, error) ==
    result' = [of |-> "comparison", healthy |-> healthy, failed |-> failed,
               premature |-> PrematureExits(healthy, failed),
               culprit |-> Culprit(healthy, failed),
               confidence |-> Certainty(Signals(healthy, failed, error))]

(* The tool has answered.                                                  *)
Answered == result # NoResult /\ result' = NoResult

SnapshotInit == result = NoResult
Judging ==
    \/ \E snap \in [Guid -> Snapshot] :
        \/ \E listing \in SetToAllKPermutations(Guid), failed \in Guid : AutoSelect(listing, snap, failed)
        \/ \E g \in Guid : ScorePinned(snap, g)
    \/ \E healthy, failed \in Chain, error \in BOOLEAN : Compare(healthy, failed, error)
SnapshotNext == (result = NoResult /\ Judging) \/ Answered

SnapshotSpec == SnapshotInit /\ [][SnapshotNext]_result

-----------------------------------------------------------------------------
(* Neither the automatic choice nor set_golden_snapshot calls a snapshot   *)
(* with errors a baseline of HIGH confidence, however well it fits.        *)
ErroredNeverHigh ==
    result.of \in {"baseline", "pinned"} /\ result.snap[result.guid].error => result.confidence # "HIGH"

(* Where a snapshot without errors and in time is listed, one with errors  *)
(* is not chosen; a slow one only if it fits the hour and the weekday.     *)
ChosenIsHealthy ==
    LET snap == result.snap
        sound(g) == ~snap[g].error /\ ~Slow(snap[g], Baseline)
    IN  result.of = "baseline" /\ (\E g \in Range(result.listing) \ {result.failed} : sound(g)) =>
            \/ sound(result.guid)
            \/ /\ ~snap[result.guid].error
               /\ SameHour(snap[result.guid].start, snap[result.failed].start)
               /\ SameWeekday(snap[result.guid].start, snap[result.failed].start)

(* The baseline named as healthy is as healthy as the confidence says.     *)
BaselineIsSound == ErroredNeverHigh /\ ChosenIsHealthy

(* A premature exit is one: of the methods the healthy path runs before    *)
(* it, the failed path skips one or runs it later.                         *)
PrematureOnlyIfSkipped ==
    result.of = "comparison" =>
        \A n \in result.premature : \E skipped \in Method :
            MetBefore(result.healthy, skipped, n) /\ ~MetBefore(result.failed, skipped, n)

(* A report of HIGH confidence names a culprit: a method the failed path   *)
(* runs and the healthy one does not, or one it runs more slowly.  MEDIUM  *)
(* need not: an early exit with an error names none.                       *)
HighNamesCulprit ==
    result.of = "comparison" /\ result.confidence = "HIGH" =>
        /\ result.culprit # {}
        /\ \A n \in result.culprit : \E s \in Range(result.failed) :
            /\ s.name = n
            /\ \A h \in Range(result.healthy) : h.name = s.name => \E h2 \in Range(result.healthy) :
                h2.name = s.name /\ h2.ms < s.ms

(* A report says no more than the two chains bear out.                     *)
ReportIsGrounded == PrematureOnlyIfSkipped /\ HighNamesCulprit
=============================================================================
