----------------------------- MODULE MCAnalyses -----------------------------
(* The judgements of the tools for TLC: SnapshotAnalysis, Rankings and     *)
(* Runbooks have nothing in common, so a behaviour is one of one of them.  *)
(*                                                                         *)
(* The hours are a noon, the two around a midnight, and the later of them  *)
(* a day on; the other numbers lie on both sides of the code's bounds.     *)
(* Of the applications, two share a file name that continues a third's,    *)
(* and the fourth is a pattern that finds those of others, not its own.    *)
EXTENDS SnapshotAnalysis, Rankings, Runbooks

Safes == [a \in AppName |-> IF a = "pay/eu" THEN "pay-eu" ELSE a]
Patterns ==
    [a \in AppName |-> IF a \in {"pay", "[p]ay"} THEN {"pay", "pay-eu"} ELSE {"pay-eu"}]
Alphabets == [n \in Name |-> CASE n = "[p]ay" -> 1 [] n = "pay" -> 2 [] n = "pay-eu" -> 3]
Occurrences == [c \in Cause |-> IF c = "pool" THEN Cause ELSE {c}]

analyses == <<result, ranking, directory>>

Bounded == second = LastSecond /\ Cardinality(begun) = MaxRunbooks

AnalysesInit == SnapshotInit /\ RankingInit /\ RunbooksInit

AnalysesNext ==
    \/ ranking = NoRanking /\ RunbooksInit /\ SnapshotNext /\ UNCHANGED <<ranking, directory>>
    \/ result = NoResult /\ RunbooksInit /\ RankingNext /\ UNCHANGED <<result, directory>>
    \/ result = NoResult /\ ranking = NoRanking /\ RunbooksNext /\ UNCHANGED <<result, ranking>>
    \/ Bounded /\ UNCHANGED analyses

AnalysesSpec == AnalysesInit /\ [][AnalysesNext]_analyses
=============================================================================
