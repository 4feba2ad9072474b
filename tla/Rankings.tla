------------------------------ MODULE Rankings ------------------------------
(***************************************************************************)
(* What the tools list first: the business transactions of an application  *)
(* (services/bt_classifier.py, get_business_transactions) and the          *)
(* applications of a team (get_team_health_summary of main.py).            *)
(***************************************************************************)
EXTENDS Integers, FiniteSets, SequencesExt

CONSTANTS
    Millis,    \* average response times
    Errors,    \* error rates, in tenths of a percent
    Calls,     \* calls per minute
    Count,     \* open violations of one severity
    MaxListed  \* bound: longest list

ASSUME RankingAssumption == Millis \cup Errors \cup Calls \cup Count \subseteq Nat /\ MaxListed \in Nat

VARIABLE ranking   \* what the last listing was made from, and its order

(* vital: the name speaks of payment, checkout, order or auth.  probe: name *)
(* or tier look like those of a health check; "order status" is both.       *)
BT == [vital : BOOLEAN, probe : BOOLEAN, ms : Millis, errors : Errors, calls : Calls]

(* The violations of an application, or the failure to fetch them; other   *)
(* severities count in the total only.                                     *)
Violations ==
    [fetched : {TRUE}, critical : Count, warning : Count, other : Count]
    \cup [fetched : {FALSE}]

NoRanking == [of |-> "nothing"]

(* The places of a list in the order of their keys, pairs of numbers;      *)
(* list.sort is stable, so that there is one such order.                   *)
Sorted(key) ==
    LET before(i, j) == \/ key[i][1] < key[j][1]
                        \/ key[i][1] = key[j][1] /\ key[i][2] < key[j][2]
                        \/ key[i] = key[j] /\ i < j
    IN  {order \in Bijection(1..Cardinality(DOMAIN key), DOMAIN key) :
            \A p, q \in DOMAIN order : p < q => before(order[p], order[q])}

-----------------------------------------------------------------------------
(* filter_and_sort_bts                                                     *)

(* By name, or because it is very fast and has no errors.                  *)
IsHealthCheck(bt) == bt.probe \/ (bt.ms < 10 /\ bt.errors = 0)

(* Mutant: errors do not raise the criticality.                            *)
CriticalityBySpeed(bt) ==
    IF bt.vital THEN 0 ELSE IF bt.ms > 2000 THEN 1 ELSE IF bt.calls > 100 THEN 2 ELSE 3

(* CRITICAL, HIGH, MEDIUM, LOW as they are ordered.                        *)
Criticality(bt) ==
    IF bt.vital THEN 0 ELSE IF bt.errors > 10 \/ bt.ms > 2000 THEN 1
    ELSE IF bt.calls > 100 THEN 2 ELSE 3

(* Mutant: every health check is left out.                                 *)
ShownHealthy(bt, include) == include \/ ~IsHealthCheck(bt)

Shown(bt, include) == include \/ ~IsHealthCheck(bt) \/ bt.errors # 0

RankTransactions(bts, include) ==
    LET shown == {i \in DOMAIN bts : Shown(bts[i], include)} IN
    \E order \in Sorted([i \in shown |-> <<Criticality(bts[i]), -bts[i].errors>>]) :
        ranking' = [of |-> "transactions", items |-> bts, order |-> order]

-----------------------------------------------------------------------------
(* get_team_health_summary                                                 *)

Status(v) ==
    IF ~v.fetched THEN "error" ELSE IF v.critical > 0 THEN "degraded"
    ELSE IF v.warning > 0 THEN "warning" ELSE "healthy"
Total(v) == v.critical + v.warning + v.other

(* Mutant: only a degraded application goes before the healthy ones.       *)
SeverityDegradedFirst(v) ==
    IF ~v.fetched THEN <<0, 0>> ELSE <<IF Status(v) = "degraded" THEN 0 ELSE 1, -Total(v)>>

(* An application that could not be asked goes after every sick one with   *)
(* an open violation.                                                      *)
Severity(v) ==
    IF ~v.fetched THEN <<0, 0>> ELSE <<IF Status(v) = "healthy" THEN 1 ELSE 0, -Total(v)>>

RankApplications(apps) ==
    \E order \in Sorted([i \in DOMAIN apps |-> Severity(apps[i])]) :
        ranking' = [of |-> "applications", items |-> apps, order |-> order]

Read == ranking # NoRanking /\ ranking' = NoRanking

RankingInit == ranking = NoRanking
Ranking ==
    \/ \E bts \in SeqOf(BT, MaxListed), include \in BOOLEAN : RankTransactions(bts, include)
    \/ \E apps \in SeqOf(Violations, MaxListed) : RankApplications(apps)
RankingNext == (ranking = NoRanking /\ Ranking) \/ Read

RankingSpec == RankingInit /\ [][RankingNext]_ranking

-----------------------------------------------------------------------------
(* The item at a place of the list, and whether one is above another.      *)
Listed == [p \in DOMAIN ranking.order |-> ranking.items[ranking.order[p]]]
Above(p, q) == p < q /\ q \in DOMAIN ranking.order

(* A transaction with errors is listed, whatever it is called and however  *)
(* fast it fails.                                                          *)
ErrorsNeverHidden ==
    ranking.of = "transactions" =>
        \A i \in DOMAIN ranking.items :
            ranking.items[i].errors > 0 => \E p \in DOMAIN ranking.order : ranking.order[p] = i

(* The transactions that are CRITICAL by name come first, whatever their   *)
(* state, with the most errors on top.  Of the others, one that fails in   *)
(* more than one percent of its calls is below none that fails less often. *)
WorseAmongPeers ==
    ranking.of = "transactions" =>
        \A p \in DOMAIN ranking.order, q \in DOMAIN ranking.order :
            Above(p, q) =>
                /\ Listed[q].vital => Listed[p].vital /\ Listed[q].errors <= Listed[p].errors
                /\ ~Listed[p].vital /\ Listed[q].errors > 10 => Listed[q].errors <= Listed[p].errors

(* Below a healthy application there is no sick one and none that could    *)
(* not be asked; below a sick one none with more open violations, of       *)
(* whatever severity.                                                      *)
HealthyLast ==
    ranking.of = "applications" =>
        \A p \in DOMAIN ranking.order, q \in DOMAIN ranking.order :
            Above(p, q) =>
                /\ Status(Listed[p]) = "healthy" => Status(Listed[q]) = "healthy"
                /\ Status(Listed[p]) \in {"degraded", "warning"} /\ Status(Listed[q]) \in {"degraded", "warning"}
                    => Total(Listed[q]) <= Total(Listed[p])

(* What the lists can be relied on for, which is less than the words about *)
(* them: they are neither sorted by error rate, for a healthy transaction  *)
(* with a vital name is above any other, and up to one percent of errors   *)
(* goes below a busy or slow one without any; nor by severity, for a       *)
(* critical violation goes below two warnings.                             *)
FailuresPlaced == ErrorsNeverHidden /\ WorseAmongPeers /\ HealthyLast
=============================================================================
