---------------------------- MODULE AnalysesProofs ----------------------------
(***************************************************************************)
(* Theorems about the judgements of the tools.                             *)
(*                                                                         *)
(* Runbooks, for every set of applications, file names and causes and      *)
(* every limit of the search: that a recurrence is missed only for the     *)
(* reasons RecurrenceSeen gives is a matter of counting, for the files     *)
(* read before an earlier runbook all have different names or seconds, so  *)
(* there are no more of them than pairs of a name and a second begun.      *)
(* SnapshotAnalysis and Rankings, for every time, count and length: what   *)
(* is first, last or greatest in a list exists because numbers below a     *)
(* bound have a least and a greatest, and of two places in two chains the  *)
(* lower one has fewer methods before it.                                  *)
(***************************************************************************)
EXTENDS Runbooks, SnapshotAnalysis, Rankings, FiniteSetTheorems, WellFoundedInduction, TLAPS

(* Runbooks are numbered as they are begun, under their application's name. *)
NumberInv ==
    /\ IsFiniteSet(begun)
    /\ \A f \in begun : f.id <= Cardinality(begun) /\ f.name = Safe[f.app]
    /\ \A f, g \in begun : f.id = g.id => f = g

(* A file is missing only if a later one took its name.                    *)
Overwritten(e) == \E l \in begun : l.id > e.id /\ l.name = e.name /\ l.at = e.at
KeptInv == \A e \in begun : e \in files \/ Overwritten(e)

RunInv == RunbooksTypeOK /\ NumberInv /\ KeptInv

-----------------------------------------------------------------------------
(* The next runbook has a number of its own.                               *)
LEMMA NextIsNew ==
    ASSUME RunInv, Cardinality(begun) < MaxRunbooks,
           NEW app \in AppName, NEW cause \in Cause, NEW whole \in BOOLEAN
    PROVE  LET r == NextRunbook(app, cause, whole) IN
           /\ r \in Runbook /\ r.id = Cardinality(begun) + 1 /\ Cardinality(begun) \in Nat
           /\ r \notin begun /\ \A f \in begun : f.id < r.id /\ f.id \in Nat /\ f.id >= 1
           /\ IsFiniteSet(begun \cup {r}) /\ Cardinality(begun \cup {r}) = r.id
<1> DEFINE r == NextRunbook(app, cause, whole)
<1>1. Cardinality(begun) \in Nat
  BY FS_CardinalityType DEF RunInv, NumberInv
<1>2. MaxRunbooks \in Nat /\ Safe[app] \in Name /\ second \in 0..LastSecond
  BY RunbookAssumption DEF RunInv, RunbooksTypeOK
<1>3. r.id = Cardinality(begun) + 1 /\ r.id \in 1..MaxRunbooks
  BY <1>1, <1>2 DEF NextRunbook
<1>4. r \in Runbook
  BY <1>2, <1>3 DEF NextRunbook, Runbook
<1>5. \A f \in begun : f.id < r.id /\ f.id \in Nat /\ f.id >= 1
  <2> SUFFICES ASSUME NEW f \in begun PROVE f.id < r.id /\ f.id \in Nat /\ f.id >= 1
    OBVIOUS
  <2>1. f.id \in 1..MaxRunbooks
    BY DEF RunInv, RunbooksTypeOK, Runbook
  <2>2. f.id <= Cardinality(begun)
    BY DEF RunInv, NumberInv
  <2> QED BY <2>1, <2>2, <1>1, <1>2, <1>3
<1>6. r \notin begun
  BY <1>5
<1>7. IsFiniteSet(begun)
  BY DEF RunInv, NumberInv
<1>8. IsFiniteSet(begun \cup {r}) /\ Cardinality(begun \cup {r}) = Cardinality(begun) + 1
  BY <1>6, <1>7, FS_AddElement
<1> QED BY <1>1, <1>3, <1>4, <1>5, <1>6, <1>8

LEMMA RunInit == RunbooksInit => RunInv
<1> SUFFICES ASSUME RunbooksInit PROVE RunInv
  OBVIOUS
<1>1. RunbooksTypeOK
  BY RunbookAssumption DEF RunbooksInit, RunbooksTypeOK, NoWarning
<1>2. NumberInv
  BY FS_EmptySet DEF RunbooksInit, NumberInv
<1>3. KeptInv
  BY DEF RunbooksInit, KeptInv
<1> QED BY <1>1, <1>2, <1>3 DEF RunInv

(* Both outcomes of the write keep the invariant.                          *)
LEMMA WriteInv ==
    ASSUME RunInv, Cardinality(begun) < MaxRunbooks,
           NEW app \in AppName, NEW cause \in Cause, NEW whole \in BOOLEAN,
           begun' = begun \cup {NextRunbook(app, cause, whole)},
           files' = Written(NextRunbook(app, cause, whole)),
           second' = second, warning'.prior \subseteq 1..MaxRunbooks
    PROVE  RunInv'
<1> DEFINE r == NextRunbook(app, cause, whole)
<1> HIDE DEF r
<1>1. /\ r \in Runbook /\ r.id = Cardinality(begun) + 1 /\ Cardinality(begun) \in Nat
      /\ r \notin begun /\ \A f \in begun : f.id < r.id /\ f.id \in Nat /\ f.id >= 1
      /\ IsFiniteSet(begun \cup {r}) /\ Cardinality(begun \cup {r}) = r.id
  BY NextIsNew DEF r
<1>2. begun' = begun \cup {r} /\ files' = {f \in files : f.name # r.name \/ f.at # r.at} \cup {r}
  BY DEF Written, r
<1>3. RunbooksTypeOK'
  BY <1>1, <1>2 DEF RunInv, RunbooksTypeOK
<1>4. NumberInv'
  <2>1. r.name = Safe[r.app]
    BY DEF r, NextRunbook
  <2>2. Cardinality(begun') = r.id /\ IsFiniteSet(begun')
    BY <1>1, <1>2
  <2>3. \A f \in begun' : f.id <= r.id /\ f.name = Safe[f.app]
    BY <1>1, <1>2, <2>1 DEF RunInv, NumberInv
  <2>4. \A f, g \in begun' : f.id = g.id => f = g
    BY <1>1, <1>2 DEF RunInv, NumberInv
  <2> QED BY <2>2, <2>3, <2>4 DEF NumberInv
<1>5. KeptInv'
  <2> SUFFICES ASSUME NEW e \in begun', e \notin files'
               PROVE  \E l \in begun' : l.id > e.id /\ l.name = e.name /\ l.at = e.at
    BY DEF KeptInv, Overwritten
  <2>1. e \in begun
    BY <1>2
  <2>2. CASE e \in files
    BY <1>1, <1>2, <2>1, <2>2
  <2>3. CASE e \notin files
    BY <1>2, <2>1, <2>3 DEF RunInv, KeptInv, Overwritten
  <2> QED BY <2>2, <2>3
<1> QED BY <1>3, <1>4, <1>5 DEF RunInv

LEMMA RunStep == RunInv /\ [RunbooksNext]_directory => RunInv'
<1> SUFFICES ASSUME RunInv, [RunbooksNext]_directory PROVE RunInv'
  OBVIOUS
<1>1. ASSUME NEW app \in AppName, NEW cause \in Cause, SaveRunbook(app, cause) PROVE RunInv'
  <2> DEFINE r == NextRunbook(app, cause, TRUE)
  <2>1. /\ Cardinality(begun) < MaxRunbooks /\ begun' = begun \cup {r}
        /\ files' = Written(r) /\ second' = second /\ warning'.prior = Prior(r, files')
    BY <1>1 DEF SaveRunbook
  <2>2. r \in Runbook
    BY <2>1, NextIsNew
  <2>3. files' \subseteq begun \cup {r}
    BY <2>1 DEF Written, RunInv, RunbooksTypeOK
  <2>4. files' \subseteq Runbook
    BY <2>2, <2>3 DEF RunInv, RunbooksTypeOK
  <2>5. Prior(r, files') \subseteq 1..MaxRunbooks
    BY <2>4 DEF Prior, Recent, Matching, Runbook
  <2> QED BY <2>1, <2>5, WriteInv
<1>2. ASSUME NEW app \in AppName, NEW cause \in Cause, SaveFails(app, cause) PROVE RunInv'
  BY <1>2, WriteInv DEF SaveFails, NoWarning
<1>3. CASE SecondPasses
  <2>1. second' \in 0..LastSecond /\ files' = files /\ begun' = begun /\ warning'.prior = {}
    BY <1>3, RunbookAssumption DEF SecondPasses, NoWarning, RunInv, RunbooksTypeOK
  <2> QED BY <2>1 DEF RunInv, RunbooksTypeOK, NumberInv, KeptInv, Overwritten
<1>4. CASE UNCHANGED directory
  BY <1>4 DEF directory, RunInv, RunbooksTypeOK, NumberInv, KeptInv, Overwritten
<1> QED BY <1>1, <1>2, <1>3, <1>4 DEF RunbooksNext

LEMMA RunAlways == RunbooksSpec => []RunInv
BY RunInit, RunStep, PTL DEF RunbooksSpec

-----------------------------------------------------------------------------
(* The files of dir that app finds and reads before e, and the names and   *)
(* seconds of the runbooks of all whose files would be.                    *)
ReadFirst(app, dir, e) == {g \in Matching(app, dir) : Behind(g, e)}
Later(app, e, all) ==
    {l \in all : /\ l.name \in Found[app]
                 /\ \/ Alphabet[l.name] > Alphabet[e.name]
                    \/ l.name = e.name /\ l.at > e.at}
Places(app, e, all) == {<<l.name, l.at>> : l \in Later(app, e, all)}

(* Of files with different names or seconds, those read before e are no    *)
(* more than the names and seconds of all that sort behind it.             *)
LEMMA ReadBefore ==
    ASSUME NEW B, B \subseteq Runbook, IsFiniteSet(B),
           NEW F \in SUBSET B, \A f, g \in F : f.name = g.name /\ f.at = g.at => f = g,
           NEW app \in AppName, NEW e \in B
    PROVE  /\ Cardinality(ReadFirst(app, F, e)) \in Nat /\ Cardinality(Places(app, e, B)) \in Nat
           /\ Cardinality(ReadFirst(app, F, e)) <= Cardinality(Places(app, e, B))
<1> DEFINE first == ReadFirst(app, F, e)
           later == Later(app, e, B)
           before == Places(app, e, B)
           place == [l \in later |-> <<l.name, l.at>>]
           where == [g \in first |-> <<g.name, g.at>>]
<1>1. e.name \in Name /\ e.at \in Int
  BY DEF Runbook
<1>2. IsFiniteSet(later)
  BY FS_Subset DEF Later
<1>3. IsFiniteSet(before) /\ Cardinality(before) \in Nat
  <2>1. place \in Surjection(later, before)
    BY DEF Surjection, Places
  <2>2. IsFiniteSet(before)
    <3> HIDE DEF place
    <3> QED BY <1>2, <2>1, FS_Surjection
  <2> QED BY <2>2, FS_CardinalityType
<1>4. first \subseteq later
  <2> SUFFICES ASSUME NEW g \in first PROVE g \in later
    OBVIOUS
  <2>1. g \in B /\ g.name \in Found[app] /\ Behind(g, e)
    BY DEF Matching, ReadFirst
  <2>2. g.name \in Name
    BY <2>1 DEF Runbook
  <2>3. Alphabet[g.name] = Alphabet[e.name] => g.name = e.name
    BY <1>1, <2>2, RunbookAssumption
  <2> QED BY <2>1, <2>3 DEF Behind, Later
<1>5. where \in Injection(first, before)
  <2>1. where \in [first -> before]
    BY <1>4 DEF Places
  <2>2. ASSUME NEW f \in first, NEW g \in first, where[f] = where[g] PROVE f = g
    BY <2>2 DEF Matching, ReadFirst
  <2> QED BY <2>1, <2>2 DEF Injection, IsInjective
<1>6. IsFiniteSet(first) /\ Cardinality(first) <= Cardinality(before)
  <2> HIDE DEF where
  <2> QED BY <1>3, <1>5, FS_Injection
<1>7. Cardinality(first) \in Nat
  BY <1>6, FS_CardinalityType
<1> QED BY <1>3, <1>6, <1>7


-----------------------------------------------------------------------------
(* What a call that saved r has found among the files.                     *)
LEMMA SaveTells ==
    ASSUME RunInv, RunInv', NEW app \in AppName, NEW cause \in Cause, SaveRunbook(app, cause)
    PROVE  WarningIsRight'
<1> DEFINE r == NextRunbook(app, cause, TRUE)
<1>1. /\ Cardinality(begun) < MaxRunbooks /\ begun' = begun \cup {r}
      /\ warning' = [of |-> r.id, prior |-> Prior(r, files')]
  BY DEF SaveRunbook
<1>2. r.app = app /\ r.cause = cause
  BY DEF NextRunbook
<1> HIDE DEF r
<1>3. Told' = {r}
  BY <1>1 DEF Told, RunInv, NumberInv
<1>4. \A f \in begun' : f = r \/ f.id < r.id
  BY <1>1, NextIsNew DEF r
<1>5. RecurrenceSeen'
  <2> SUFFICES ASSUME NEW e \in begun', e.name \in Found[app], e.whole, e.cause \in Occurs[cause], e.id < r.id,
                      ~ \E l \in begun' : l.id > e.id /\ l.name = e.name /\ l.at = e.at,
                      ~ (Cardinality(Places(app, e, begun')) >= Limit)
               PROVE  e.id \in warning'.prior
    BY <1>2, <1>3 DEF RecurrenceSeen, Places, Later
  <2> DEFINE first == ReadFirst(app, files', e)
  <2>1. /\ Cardinality(first) \in Nat /\ Cardinality(Places(app, e, begun')) \in Nat
        /\ Cardinality(first) <= Cardinality(Places(app, e, begun'))
    <3>1. begun' \subseteq Runbook /\ files' \in SUBSET begun' /\ IsFiniteSet(begun')
      BY DEF RunInv, RunbooksTypeOK, NumberInv
    <3>2. \A f, g \in files' : f.name = g.name /\ f.at = g.at => f = g
      BY DEF RunInv, RunbooksTypeOK
    <3> QED BY <3>1, <3>2, ReadBefore
  <2>2. Cardinality(first) < Limit
    BY <2>1, RunbookAssumption
  <2>3. e \in files'
    BY DEF RunInv, KeptInv, Overwritten
  <2>5. e \in Matching(app, files')
    BY <2>3 DEF Matching
  <2>6. e \in Recent(app, files')
    BY <2>2, <2>5 DEF Recent, ReadFirst
  <2>7. e.id \in Prior(r, files')
    BY <1>2, <1>4, <2>6, NextIsNew, <1>1 DEF Prior, r
  <2> QED BY <1>1, <2>7
<1>6. OnlyThePast'
  <2> SUFFICES ASSUME NEW id \in Prior(r, files')
               PROVE  \E e \in begun' :
                        /\ e.id = id /\ id < r.id /\ e.whole /\ e.cause \in Occurs[cause]
                        /\ Safe[e.app] \in Found[app]
    BY <1>1, <1>2, <1>3 DEF OnlyThePast
  <2>1. PICK f \in Recent(app, files') : f.id = id /\ id # r.id /\ f.cause \in Occurs[cause]
    BY <1>2 DEF Prior
  <2>2. f \in files' /\ f.whole /\ f.name \in Found[app]
    BY <2>1 DEF Recent, Matching
  <2>3. f \in begun' /\ f.name = Safe[f.app]
    BY <2>2 DEF RunInv, RunbooksTypeOK, NumberInv
  <2>4. f.id < r.id
    BY <1>4, <2>1, <2>3
  <2> QED BY <2>1, <2>2, <2>3, <2>4
<1> QED BY <1>5, <1>6 DEF WarningIsRight

(* The warning is right after every step: only a call that saved gives one. *)
LEMMA WarningStep == RunInv /\ RunInv' /\ WarningIsRight /\ [RunbooksNext]_directory => WarningIsRight'
<1> SUFFICES ASSUME RunInv, RunInv', WarningIsRight, [RunbooksNext]_directory PROVE WarningIsRight'
  OBVIOUS
<1>1. ASSUME NEW app \in AppName, NEW cause \in Cause, SaveRunbook(app, cause) PROVE WarningIsRight'
  BY <1>1, SaveTells
<1>2. ASSUME warning' = NoWarning PROVE WarningIsRight'
  <2>1. \A f \in begun' : f.id # 0
    BY DEF RunInv, RunbooksTypeOK, Runbook
  <2>2. Told' = {}
    BY <1>2, <2>1 DEF Told, NoWarning
  <2> QED BY <2>2 DEF WarningIsRight, RecurrenceSeen, OnlyThePast
<1>3. CASE UNCHANGED directory
  BY <1>3 DEF directory, WarningIsRight, RecurrenceSeen, OnlyThePast, Told
<1> QED BY <1>1, <1>2, <1>3 DEF RunbooksNext, SaveFails, SecondPasses

(* The warning of save_runbook is right about the files that its search    *)
(* finds, whatever the glob pattern of the application's name finds and    *)
(* for any number of applications and runbooks: an earlier runbook of the  *)
(* same cause among them is missed only where its file was overwritten or  *)
(* as many as the limit of load_recent_runbooks stand before it, and what  *)
(* is reported was saved before, in a file that the pattern finds.         *)
THEOREM WarningsAreRight == RunbooksSpec => []WarningIsRight
<1>1. RunbooksInit => WarningIsRight
  BY DEF RunbooksInit, WarningIsRight, RecurrenceSeen, OnlyThePast, Told
<1> QED BY <1>1, WarningStep, RunAlways, PTL DEF RunbooksSpec

(* The runbooks directory holds only runbooks that were begun, one for     *)
(* each name and second.                                                   *)
THEOREM DirectoryWellFormed == RunbooksSpec => []RunbooksTypeOK
BY RunAlways, PTL DEF RunInv

-----------------------------------------------------------------------------
(* Least and greatest.                                                     *)
LEMMA LeastOf ==
    ASSUME NEW T, T \subseteq Nat, T # {}
    PROVE  \E x \in T : \A y \in T : x <= y
<1>1. PICK x \in T : \A y \in T : ~(<<y, x>> \in OpToRel(<, Nat))
  BY NatLessThanWellFounded, WFMin
<1>2. ASSUME NEW y \in T PROVE x <= y
  <2>1. ~(y < x)
    BY <1>1 DEF OpToRel
  <2> QED BY <2>1
<1> QED BY <1>2

LEMMA GreatestOf ==
    ASSUME NEW T, T \subseteq Nat, T # {}, NEW b \in Nat, \A t \in T : t <= b
    PROVE  \E x \in T : \A y \in T : y <= x
<1> DEFINE D == {b - t : t \in T}
<1>1. D \subseteq Nat /\ D # {}
  <2>1. \A t \in T : t \in Nat /\ t <= b
    OBVIOUS
  <2>2. \A t \in T : b - t \in Nat
    BY <2>1
  <2> QED BY <2>2
<1>2. PICK d \in D : \A e \in D : d <= e
  <2> HIDE DEF D
  <2> QED BY <1>1, LeastOf
<1>3. PICK x \in T : d = b - x
  OBVIOUS
<1>4. ASSUME NEW y \in T PROVE y <= x
  <2>1. d <= b - y
    BY <1>2
  <2> QED BY <1>3, <2>1
<1> QED BY <1>4

(* A function takes a greatest value on every finite set that is not empty. *)
LEMMA GreatestValue ==
    ASSUME NEW S, IsFiniteSet(S), S # {}, NEW f \in [S -> Nat]
    PROVE  \E x \in S : \A y \in S : f[y] <= f[x]
<1> DEFINE HasGreatest(T) == \E x \in T : \A y \in T : f[y] <= f[x]
           Bad == {n \in Nat : \E T \in SUBSET S : T # {} /\ Cardinality(T) = n /\ ~HasGreatest(T)}
<1>1. SUFFICES ASSUME ~HasGreatest(S) PROVE FALSE
  OBVIOUS
<1>2. Cardinality(S) \in Bad
  BY <1>1, FS_CardinalityType
<1>3. PICK n \in Bad : \A m \in Bad : n <= m
  <2>1. Bad \subseteq Nat /\ Bad # {}
    BY <1>2
  <2> HIDE DEF Bad
  <2> QED BY <2>1, LeastOf
<1>4. PICK T \in SUBSET S : T # {} /\ Cardinality(T) = n /\ ~HasGreatest(T)
  OBVIOUS
<1>5. PICK x \in T : TRUE
  BY <1>4
<1>6. IsFiniteSet(T) /\ n \in Nat /\ IsFiniteSet(T \ {x}) /\ Cardinality(T \ {x}) = n - 1
  BY <1>4, FS_Subset, FS_RemoveElement
<1>7. CASE T \ {x} = {}
  <2>1. \A y \in T : y = x
    BY <1>7
  <2>2. f[x] \in Nat
    OBVIOUS
  <2> QED BY <1>4, <2>1, <2>2
<1>8. CASE T \ {x} # {}
  <2>1. HasGreatest(T \ {x})
    <3>1. SUFFICES ASSUME ~HasGreatest(T \ {x}) PROVE FALSE
      OBVIOUS
    <3>2. Cardinality(T \ {x}) \in Nat
      BY <1>6, FS_CardinalityType
    <3>3. n - 1 \in Bad
      BY <1>6, <1>8, <3>1, <3>2
    <3> HIDE DEF Bad
    <3> QED BY <1>3, <1>6, <3>3
  <2>2. PICK z \in T \ {x} : \A y \in T \ {x} : f[y] <= f[z]
    BY <2>1
  <2>3. f[x] \in Nat /\ f[z] \in Nat /\ \A y \in T : f[y] \in Nat
    OBVIOUS
  <2>4. CASE f[x] <= f[z]
    <3>1. \A y \in T : f[y] <= f[z]
      BY <2>2, <2>4
    <3> QED BY <1>4, <3>1
  <2>5. CASE ~(f[x] <= f[z])
    <3>1. \A y \in T : f[y] <= f[x]
      BY <2>2, <2>3, <2>5
    <3> QED BY <1>4, <3>1
  <2> QED BY <2>4, <2>5
<1> QED BY <1>7, <1>8

(* A strict order on S that any two members are in.                        *)
Orders(R, S) ==
    /\ \A x \in S : <<x, x>> \notin R
    /\ \A x, y \in S : x # y => <<x, y>> \in R \/ <<y, x>> \in R
    /\ \A x, y, z \in S : <<x, y>> \in R /\ <<y, z>> \in R => <<x, z>> \in R

HasLast(R, T) == \E x \in T : \A y \in T \ {x} : <<y, x>> \in R
InOrder(R, T, n) ==
    \E order \in [1..n -> T] :
        /\ \A x \in T : \E p \in 1..n : order[p] = x
        /\ \A p, q \in 1..n : p < q => <<order[p], order[q]>> \in R

LEMMA LastOf ==
    ASSUME NEW S, IsFiniteSet(S), S # {}, NEW R, Orders(R, S)
    PROVE  HasLast(R, S)
<1> DEFINE Bad == {n \in Nat : \E T \in SUBSET S : T # {} /\ Cardinality(T) = n /\ ~HasLast(R, T)}
<1>1. SUFFICES ASSUME ~HasLast(R, S) PROVE FALSE
  OBVIOUS
<1>2. Cardinality(S) \in Bad
  BY <1>1, FS_CardinalityType
<1>3. PICK n \in Bad : \A m \in Bad : n <= m
  <2>1. Bad \subseteq Nat /\ Bad # {}
    BY <1>2
  <2> HIDE DEF Bad
  <2> QED BY <2>1, LeastOf
<1>4. PICK T \in SUBSET S : T # {} /\ Cardinality(T) = n /\ ~HasLast(R, T)
  OBVIOUS
<1>5. PICK x \in T : TRUE
  BY <1>4
<1>6. IsFiniteSet(T) /\ n \in Nat /\ IsFiniteSet(T \ {x}) /\ Cardinality(T \ {x}) = n - 1
  BY <1>4, FS_Subset, FS_RemoveElement
<1>7. T \ {x} # {}
  BY <1>4, <1>5 DEF HasLast
<1>8. HasLast(R, T \ {x})
  <2>1. SUFFICES ASSUME ~HasLast(R, T \ {x}) PROVE FALSE
    OBVIOUS
  <2>2. n - 1 \in Nat
    BY <1>6, FS_CardinalityType
  <2>3. n - 1 \in Bad
    BY <1>6, <1>7, <2>1, <2>2
  <2> HIDE DEF Bad
  <2> QED BY <1>3, <1>6, <2>3
<1>9. PICK z \in T \ {x} : \A y \in (T \ {x}) \ {z} : <<y, z>> \in R
  BY <1>8 DEF HasLast
<1>10. x \in S /\ z \in S /\ x # z /\ \A y \in T : y \in S
  OBVIOUS
<1>11. CASE <<x, z>> \in R
  BY <1>4, <1>9, <1>11 DEF HasLast
<1>12. CASE <<z, x>> \in R
  <2>1. \A y \in T \ {x} : <<y, x>> \in R
    BY <1>9, <1>10, <1>12 DEF Orders
  <2> QED BY <1>4, <2>1 DEF HasLast
<1> QED BY <1>10, <1>11, <1>12 DEF Orders

(* A finite set can be listed in such an order: its last member goes last. *)
LEMMA OrderExists ==
    ASSUME NEW S, IsFiniteSet(S), NEW R, Orders(R, S)
    PROVE  InOrder(R, S, Cardinality(S))
<1> DEFINE Bad == {n \in Nat : \E T \in SUBSET S : Cardinality(T) = n /\ ~InOrder(R, T, n)}
<1>1. SUFFICES ASSUME ~InOrder(R, S, Cardinality(S)) PROVE FALSE
  OBVIOUS
<1>2. Cardinality(S) \in Bad
  BY <1>1, FS_CardinalityType
<1>3. PICK n \in Bad : \A m \in Bad : n <= m
  <2>1. Bad \subseteq Nat /\ Bad # {}
    BY <1>2
  <2> HIDE DEF Bad
  <2> QED BY <2>1, LeastOf
<1>4. PICK T \in SUBSET S : Cardinality(T) = n /\ ~InOrder(R, T, n)
  OBVIOUS
<1>5. IsFiniteSet(T) /\ n \in Nat
  BY <1>4, FS_Subset
<1>6. T # {}
  <2>1. SUFFICES ASSUME T = {} PROVE FALSE
    OBVIOUS
  <2>2. n = 0
    BY <1>4, <2>1, FS_EmptySet
  <2>3. 1..0 = {}
    OBVIOUS
  <2>4. InOrder(R, T, 0)
    <3> DEFINE none == [p \in 1..0 |-> p]
    <3>1. none \in [1..0 -> T]
      BY <2>3
    <3> QED BY <2>1, <2>3, <3>1 DEF InOrder
  <2> QED BY <1>4, <2>2, <2>4
<1>7. HasLast(R, T)
  <2>1. Orders(R, T)
    BY DEF Orders
  <2> QED BY <1>5, <1>6, <2>1, LastOf
<1>8. PICK x \in T : \A y \in T \ {x} : <<y, x>> \in R
  BY <1>7 DEF HasLast
<1>9. Cardinality(T \ {x}) = n - 1 /\ n - 1 \in Nat
  <2>1. IsFiniteSet(T \ {x}) /\ Cardinality(T \ {x}) = n - 1
    BY <1>4, <1>5, FS_RemoveElement
  <2> QED BY <2>1, FS_CardinalityType
<1>10. InOrder(R, T \ {x}, n - 1)
  <2>1. SUFFICES ASSUME ~InOrder(R, T \ {x}, n - 1) PROVE FALSE
    OBVIOUS
  <2>2. n - 1 \in Bad
    BY <1>9, <2>1
  <2> HIDE DEF Bad
  <2> QED BY <1>3, <1>5, <2>2
<1>11. PICK o \in [1..(n - 1) -> T \ {x}] :
         /\ \A y \in T \ {x} : \E p \in 1..(n - 1) : o[p] = y
         /\ \A p, q \in 1..(n - 1) : p < q => <<o[p], o[q]>> \in R
  BY <1>10 DEF InOrder
<1> DEFINE order == [p \in 1..n |-> IF p = n THEN x ELSE o[p]]
<1>12. \A p \in 1..n : p # n => p \in 1..(n - 1)
  BY <1>5
<1>13. n \in 1..n /\ \A p \in 1..(n - 1) : p \in 1..n /\ p # n
  BY <1>5, <1>9
<1>14. order[n] = x /\ \A p \in 1..(n - 1) : order[p] = o[p]
  BY <1>13
<1>15. order \in [1..n -> T]
  BY <1>12
<1> HIDE DEF order
<1>16. ASSUME NEW y \in T PROVE \E p \in 1..n : order[p] = y
  BY <1>11, <1>13, <1>14
<1>17. ASSUME NEW p \in 1..n, NEW q \in 1..n, p < q PROVE <<order[p], order[q]>> \in R
  <2>1. p # n /\ p \in 1..(n - 1)
    BY <1>5, <1>12, <1>17
  <2>2. CASE q = n
    BY <1>8, <1>11, <1>14, <2>1, <2>2
  <2>3. CASE q # n
    BY <1>11, <1>12, <1>14, <1>17, <2>1, <2>3
  <2> QED BY <2>2, <2>3
<1> QED BY <1>4, <1>15, <1>16, <1>17 DEF InOrder

-----------------------------------------------------------------------------
(* Rankings.                                                               *)
LEMMA SortedKeys ==
    ASSUME NEW key, NEW order \in Sorted(key)
    PROVE  /\ order \in [1..Cardinality(DOMAIN key) -> DOMAIN key]
           /\ \A i \in DOMAIN key : \E p \in DOMAIN order : order[p] = i
           /\ \A p, q \in DOMAIN order : p < q =>
                \/ key[order[p]][1] < key[order[q]][1]
                \/ key[order[p]][1] = key[order[q]][1] /\ key[order[p]][2] < key[order[q]][2]
                \/ key[order[p]] = key[order[q]]
BY DEF Sorted, Bijection, Surjection, Injection

(* Whatever the keys, list.sort has an order to put the list in, so that   *)
(* the two listings always have a result: FailuresPlaced does not hold for *)
(* want of one.                                                            *)
THEOREM SortedExists ==
    ASSUME NEW n \in Nat, NEW shown \in SUBSET (1..n), NEW key \in [shown -> Int \X Int]
    PROVE  Sorted(key) # {}
<1> DEFINE before(i, j) == \/ key[i][1] < key[j][1]
                           \/ key[i][1] = key[j][1] /\ key[i][2] < key[j][2]
                           \/ key[i] = key[j] /\ i < j
           R == {e \in shown \X shown : before(e[1], e[2])}
<1>1. IsFiniteSet(shown)
  <2>1. PICK a, b \in Int : a = 1 /\ b = n
    OBVIOUS
  <2>2. IsFiniteSet(a..b)
    BY FS_Interval
  <2>3. IsFiniteSet(1..n)
    BY <2>1, <2>2
  <2> QED BY <2>3, FS_Subset
<1>2. \A i \in shown : i \in Int /\ key[i][1] \in Int /\ key[i][2] \in Int
                       /\ key[i] = <<key[i][1], key[i][2]>>
  OBVIOUS
<1>3. \A i, j \in shown : <<i, j>> \in R <=> before(i, j)
  OBVIOUS
<1>4. Orders(R, shown)
  <2> HIDE DEF R
  <2>1. \A x \in shown : ~before(x, x)
    BY <1>2
  <2>2. \A x, y \in shown : x # y => before(x, y) \/ before(y, x)
    <3> TAKE x, y \in shown
    <3>1. key[x][1] = key[y][1] /\ key[x][2] = key[y][2] => key[x] = key[y]
      BY <1>2
    <3> QED BY <1>2, <3>1
  <2>3. \A x, y, z \in shown : before(x, y) /\ before(y, z) => before(x, z)
    BY <1>2
  <2> HIDE DEF before
  <2> QED BY <1>3, <2>1, <2>2, <2>3 DEF Orders
<1> DEFINE m == Cardinality(shown)
<1>5. m \in Nat
  BY <1>1, FS_CardinalityType
<1>6. PICK order \in [1..m -> shown] :
        /\ \A x \in shown : \E p \in 1..m : order[p] = x
        /\ \A p, q \in 1..m : p < q => <<order[p], order[q]>> \in R
  <2> HIDE DEF R
  <2> QED BY <1>1, <1>4, OrderExists DEF InOrder
<1>7. \A p, q \in 1..m : p < q => before(order[p], order[q])
  <2> HIDE DEF before, m
  <2> QED BY <1>3, <1>6
<1>8. \A p, q \in 1..m : order[p] = order[q] => p = q
  <2> TAKE p, q \in 1..m
  <2>1. ~before(order[p], order[p])
    <3>1. \A x \in shown : ~before(x, x)
      BY <1>2
    <3> HIDE DEF before
    <3> QED BY <3>1
  <2>2. p \in Int /\ q \in Int
    BY <1>5
  <2> HIDE DEF before, m
  <2> QED BY <1>7, <2>1, <2>2
<1>9. order \in Bijection(1..m, shown)
  <2> HIDE DEF m
  <2> QED BY <1>6, <1>8 DEF Bijection, Injection, Surjection, IsInjective
<1>10. DOMAIN key = shown /\ DOMAIN order = 1..m
  OBVIOUS
<1>11. order \in Sorted(key)
  BY <1>7, <1>9, <1>10 DEF Sorted
<1> QED BY <1>11

LEMMA TransactionsRanked ==
    ASSUME NEW n \in Nat, NEW bts \in [1..n -> BT], NEW include \in BOOLEAN, RankTransactions(bts, include)
    PROVE  FailuresPlaced'
<1>0. PICK shown : shown = {i \in DOMAIN bts : Shown(bts[i], include)}
  OBVIOUS
<1>1. PICK key : key = [i \in shown |-> <<Criticality(bts[i]), -bts[i].errors>>]
  OBVIOUS
<1>2. PICK order \in Sorted(key) : ranking' = [of |-> "transactions", items |-> bts, order |-> order]
  BY <1>0, <1>1 DEF RankTransactions
<1>3. DOMAIN key = shown /\ shown \subseteq 1..n
  BY <1>0, <1>1
<1>4. /\ order \in [1..Cardinality(shown) -> shown]
      /\ \A i \in shown : \E p \in DOMAIN order : order[p] = i
      /\ \A p, q \in DOMAIN order : p < q =>
                \/ key[order[p]][1] < key[order[q]][1]
                \/ key[order[p]][1] = key[order[q]][1] /\ key[order[p]][2] < key[order[q]][2]
                \/ key[order[p]] = key[order[q]]
  BY <1>3, SortedKeys
<1>5. ranking'.of = "transactions" /\ ranking'.items = bts /\ ranking'.order = order
  BY <1>2
<1>6. \A i \in 1..n : bts[i].errors \in Nat /\ bts[i].vital \in BOOLEAN
  BY RankingAssumption DEF BT
<1>7. ErrorsNeverHidden'
  <2> SUFFICES ASSUME NEW i \in 1..n, bts[i].errors > 0 PROVE \E p \in DOMAIN order : order[p] = i
    BY <1>5 DEF ErrorsNeverHidden
  <2>1. i \in shown
    BY <1>0, <1>6 DEF Shown
  <2> QED BY <1>4, <2>1
<1>8. WorseAmongPeers'
  <2>0. \A p \in DOMAIN order : /\ Listed'[p] = bts[order[p]]
                               /\ order[p] \in 1..n /\ bts[order[p]].errors \in Nat
    BY <1>3, <1>4, <1>5, <1>6 DEF Listed
  <2> SUFFICES ASSUME NEW p \in DOMAIN order, NEW q \in DOMAIN order, p < q
               PROVE  /\ bts[order[q]].vital => /\ bts[order[p]].vital
                                               /\ bts[order[q]].errors <= bts[order[p]].errors
                      /\ ~bts[order[p]].vital /\ bts[order[q]].errors > 10
                            => bts[order[q]].errors <= bts[order[p]].errors
    BY <1>5, <2>0 DEF WorseAmongPeers, Above
  <2>1. order[p] \in shown /\ order[q] \in shown
    BY <1>4
  <2>2. PICK x \in 1..n, y \in 1..n : x = order[p] /\ y = order[q]
    BY <1>3, <2>1
  <2>3. /\ key[x][1] = Criticality(bts[x]) /\ key[x][2] = -bts[x].errors
        /\ key[y][1] = Criticality(bts[y]) /\ key[y][2] = -bts[y].errors
    BY <1>1, <2>1, <2>2
  <2>4. \/ key[x][1] < key[y][1]
        \/ key[x][1] = key[y][1] /\ key[x][2] < key[y][2]
        \/ key[x] = key[y]
    BY <1>4, <2>2
  <2>5. ASSUME NEW z \in 1..n
        PROVE  /\ bts[z].vital => Criticality(bts[z]) = 0
               /\ ~bts[z].vital => Criticality(bts[z]) \in {1, 2, 3}
               /\ ~bts[z].vital /\ bts[z].errors > 10 => Criticality(bts[z]) = 1
    BY DEF Criticality
  <2>6. Criticality(bts[x]) \in 0..3 /\ Criticality(bts[y]) \in 0..3
        /\ bts[x].errors \in Nat /\ bts[y].errors \in Nat
    BY <1>6, <2>5
  <2>7. \/ Criticality(bts[x]) < Criticality(bts[y])
        \/ Criticality(bts[x]) = Criticality(bts[y]) /\ bts[y].errors <= bts[x].errors
    BY <2>3, <2>4, <2>6
  <2>8. bts[y].vital => bts[x].vital /\ bts[y].errors <= bts[x].errors
    BY <2>5, <2>6, <2>7
  <2>9. ~bts[x].vital /\ bts[y].errors > 10 => bts[y].errors <= bts[x].errors
    BY <2>5, <2>6, <2>7, <2>8
  <2> QED BY <2>2, <2>8, <2>9
<1>9. HealthyLast'
  BY <1>5 DEF HealthyLast
<1> QED BY <1>7, <1>8, <1>9 DEF FailuresPlaced

LEMMA ApplicationsRanked ==
    ASSUME NEW n \in Nat, NEW apps \in [1..n -> Violations], RankApplications(apps)
    PROVE  FailuresPlaced'
<1>1. PICK key : key = [i \in DOMAIN apps |-> Severity(apps[i])]
  OBVIOUS
<1>2. PICK order \in Sorted(key) : ranking' = [of |-> "applications", items |-> apps, order |-> order]
  BY <1>1 DEF RankApplications
<1>3. DOMAIN key = 1..n
  BY <1>1
<1>4. /\ order \in [1..Cardinality(DOMAIN key) -> 1..n]
      /\ \A p, q \in DOMAIN order : p < q =>
                \/ key[order[p]][1] < key[order[q]][1]
                \/ key[order[p]][1] = key[order[q]][1] /\ key[order[p]][2] < key[order[q]][2]
                \/ key[order[p]] = key[order[q]]
  BY <1>3, SortedKeys
<1>5. ranking'.of = "applications" /\ ranking'.items = apps /\ ranking'.order = order
  BY <1>2
<1>6. HealthyLast'
  <2> SUFFICES ASSUME NEW p \in DOMAIN order, NEW q \in DOMAIN order, p < q
               PROVE  /\ Status(apps[order[p]]) = "healthy" => Status(apps[order[q]]) = "healthy"
                      /\ Status(apps[order[p]]) \in {"degraded", "warning"} /\ Status(apps[order[q]]) \in {"degraded", "warning"}
                           => Total(apps[order[q]]) <= Total(apps[order[p]])
    BY <1>4, <1>5 DEF HealthyLast, Above, Listed
  <2>1. PICK x \in 1..n, y \in 1..n : x = order[p] /\ y = order[q]
    BY <1>4
  <2>2. PICK v, w : v = apps[x] /\ w = apps[y]
    OBVIOUS
  <2>3. v \in Violations /\ w \in Violations
    BY <2>2
  <2>4. /\ v.fetched \in BOOLEAN /\ (v.fetched => Total(v) \in Nat)
        /\ w.fetched \in BOOLEAN /\ (w.fetched => Total(w) \in Nat)
    <3>1. ASSUME NEW z \in Violations PROVE z.fetched \in BOOLEAN /\ (z.fetched => Total(z) \in Nat)
      <4>1. CASE z \in [fetched : {TRUE}, critical : Count, warning : Count, other : Count]
        <5>1. z.critical \in Nat /\ z.warning \in Nat /\ z.other \in Nat /\ z.fetched = TRUE
          BY <4>1, RankingAssumption
        <5>2. z.critical + z.warning + z.other \in Nat
          BY <5>1
        <5>3. Total(z) \in Nat
          BY <5>2 DEF Total
        <5> QED BY <5>1, <5>3
      <4>2. CASE z \in [fetched : {FALSE}]
        BY <4>2
      <4> QED BY <4>1, <4>2 DEF Violations
    <3> QED BY <2>3, <3>1
  <2>5. key[x] = Severity(v) /\ key[y] = Severity(w)
    BY <1>1, <1>3, <2>2
  <2>6. \/ Severity(v)[1] < Severity(w)[1]
        \/ Severity(v)[1] = Severity(w)[1] /\ Severity(v)[2] < Severity(w)[2]
        \/ Severity(v) = Severity(w)
    BY <1>4, <2>1, <2>5
  <2>7. ASSUME NEW z
        PROVE  /\ ~z.fetched => Status(z) = "error" /\ Severity(z)[1] = 0
               /\ z.fetched /\ Status(z) = "healthy" => Severity(z)[1] = 1 /\ Severity(z)[2] = -Total(z)
               /\ z.fetched /\ Status(z) # "healthy" => Severity(z)[1] = 0 /\ Severity(z)[2] = -Total(z)
    BY DEF Severity, Status
  <2>8. /\ Status(v) = "healthy" => Severity(v)[1] = 1 /\ v.fetched
        /\ Status(v) \in {"degraded", "warning"} => Severity(v)[1] = 0 /\ Severity(v)[2] = -Total(v) /\ v.fetched
        /\ Status(w) # "healthy" => Severity(w)[1] = 0
        /\ Status(w) \in {"degraded", "warning"} => Severity(w)[1] = 0 /\ Severity(w)[2] = -Total(w) /\ w.fetched
    BY <2>4, <2>7
  <2>9. Status(v) = "healthy" => Status(w) = "healthy"
    BY <2>6, <2>8
  <2>10. Status(v) \in {"degraded", "warning"} /\ Status(w) \in {"degraded", "warning"} => Total(w) <= Total(v)
    BY <2>4, <2>6, <2>8
  <2> QED BY <2>1, <2>2, <2>9, <2>10
<1> QED BY <1>5, <1>6 DEF FailuresPlaced, ErrorsNeverHidden, WorseAmongPeers

(* In a list of any length: no transaction with errors is left out, those  *)
(* with a vital name come first by their errors, above another that fails  *)
(* in more than one percent there is none that fails less often and has no *)
(* such name; and the healthy applications are last.                       *)
THEOREM FailuresArePlaced == RankingSpec => []FailuresPlaced
<1>1. RankingInit => FailuresPlaced
  BY DEF RankingInit, NoRanking, FailuresPlaced, ErrorsNeverHidden, WorseAmongPeers, HealthyLast
<1>2. FailuresPlaced /\ [RankingNext]_ranking => FailuresPlaced'
  <2> SUFFICES ASSUME FailuresPlaced, [RankingNext]_ranking PROVE FailuresPlaced'
    OBVIOUS
  <2>1. ASSUME NEW bts \in SeqOf(BT, MaxListed), NEW include \in BOOLEAN, RankTransactions(bts, include)
        PROVE  FailuresPlaced'
    BY <2>1, TransactionsRanked DEF SeqOf
  <2>2. ASSUME NEW apps \in SeqOf(Violations, MaxListed), RankApplications(apps) PROVE FailuresPlaced'
    BY <2>2, ApplicationsRanked DEF SeqOf
  <2>3. CASE Read
    BY <2>3 DEF Read, NoRanking, FailuresPlaced, ErrorsNeverHidden, WorseAmongPeers, HealthyLast
  <2>4. CASE UNCHANGED ranking
    BY <2>4 DEF FailuresPlaced, ErrorsNeverHidden, WorseAmongPeers, HealthyLast, Above, Listed
  <2> QED BY <2>1, <2>2, <2>3, <2>4 DEF RankingNext, Ranking
<1> QED BY <1>1, <1>2, PTL DEF RankingSpec
-----------------------------------------------------------------------------
(* SnapshotAnalysis: the baseline.                                         *)
LEMMA ScoreBounds ==
    ASSUME NEW s \in Snapshot, NEW failed, NEW baseline
    PROVE  /\ Score(s, failed, baseline) \in 20..130
           /\ s.error => Score(s, failed, baseline) <= 80
           /\ ~s.error /\ ~Slow(s, baseline) => Score(s, failed, baseline) >= 100
           /\ Slow(s, baseline) /\ Score(s, failed, baseline) >= 100 =>
                 SameHour(s.start, failed.start) /\ SameWeekday(s.start, failed.start)
<1>1. PICK e \in {0, 50}, l \in {0, 30}, h \in {0, 20}, w \in {0, 10} :
        /\ e = (IF s.error THEN 50 ELSE 0) /\ l = (IF Slow(s, baseline) THEN 30 ELSE 0)
        /\ h = (IF SameHour(s.start, failed.start) THEN 20 ELSE 0)
        /\ w = (IF SameWeekday(s.start, failed.start) THEN 10 ELSE 0)
  OBVIOUS
<1>2. Score(s, failed, baseline) = 100 - e - l + h + w
  BY <1>1 DEF Score
<1>3. 100 - e - l + h + w \in 20..130 /\ (e = 50 => 100 - e - l + h + w <= 80)
  BY <1>1
<1>4. (e = 0 /\ l = 0 => 100 - e - l + h + w >= 100) /\ (l = 30 /\ 100 - e - l + h + w >= 100 => h = 20 /\ w = 10)
  BY <1>1
<1> QED BY <1>1, <1>2, <1>3, <1>4

(* The automatic choice takes a snapshot with the greatest score.          *)
LEMMA BestIsBest ==
    ASSUME NEW n \in Nat, NEW listing \in [1..n -> Guid], NEW snap \in [Guid -> Snapshot], NEW failed \in Guid,
           ~(Range(listing) \subseteq {failed})
    PROVE  /\ Best(listing, snap, failed) \in Guid
           /\ \A g \in Range(listing) \ {failed} :
                Score(snap[Best(listing, snap, failed)], snap[failed], Baseline)
                    >= Score(snap[g], snap[failed], Baseline)
<1> DEFINE others == {i \in DOMAIN listing : listing[i] # failed}
           score(i) == Score(snap[listing[i]], snap[failed], Baseline)
           First(i) == i \in others /\ \A j \in others : score(i) > score(j) \/ (score(i) = score(j) /\ i <= j)
<1>1. others \subseteq 1..n /\ others # {} /\ IsFiniteSet(others)
  <2>1. others \subseteq 1..n /\ others # {}
    BY DEF Range
  <2>2. IsFiniteSet(1..n)
    BY FS_Interval
  <2> HIDE DEF others
  <2> QED BY <2>1, <2>2, FS_Subset
<1>2. \A i \in others : score(i) \in Nat
  <2> SUFFICES ASSUME NEW i \in others PROVE score(i) \in Nat
    OBVIOUS
  <2>1. PICK s \in Snapshot : s = snap[listing[i]]
    OBVIOUS
  <2>2. Score(s, snap[failed], Baseline) \in 20..130
    BY ScoreBounds
  <2>3. PICK x \in 20..130 : x = score(i)
    BY <2>1, <2>2
  <2>4. x \in Nat
    OBVIOUS
  <2> HIDE DEF score
  <2> QED BY <2>3, <2>4
<1>3. PICK b \in others : \A j \in others : score(j) <= score(b)
  <2>1. PICK f : f = [i \in others |-> score(i)]
    OBVIOUS
  <2> HIDE DEF score, others
  <2>2. f \in [others -> Nat]
    BY <1>2, <2>1
  <2>3. \E b \in others : \A j \in others : f[j] <= f[b]
    BY ONLY <1>1, <2>2, GreatestValue
  <2> QED BY <2>1, <2>3
<1>4. PICK T : T = {i \in others : score(i) = score(b)}
  OBVIOUS
<1>5. PICK i \in T : \A j \in T : i <= j
  <2>1. T \subseteq Nat /\ T # {}
    BY <1>1, <1>3, <1>4
  <2> QED BY <2>1, LeastOf
<1>6. First(i)
  <2> HIDE DEF score, others
  <2>1. i \in others /\ score(i) = score(b)
    BY <1>4, <1>5
  <2>2. ASSUME NEW j \in others PROVE score(i) > score(j) \/ (score(i) = score(j) /\ i <= j)
    <3>1. score(j) <= score(i) /\ score(i) \in Nat /\ score(j) \in Nat
      BY <1>2, <1>3, <2>1
    <3>2. score(j) = score(i) => i <= j
      BY <1>4, <1>5, <2>1
    <3> QED BY <3>1, <3>2
  <2> QED BY <2>1, <2>2
<1>7. PICK k : k = CHOOSE x \in others : \A j \in others : score(x) > score(j) \/ (score(x) = score(j) /\ x <= j)
  OBVIOUS
<1>8. First(k)
  <2> HIDE DEF score, others
  <2> QED BY <1>6, <1>7
<1>9. Best(listing, snap, failed) = listing[k]
  BY <1>7 DEF Best
<1>10. ASSUME NEW g \in Range(listing) \ {failed} PROVE score(k) >= Score(snap[g], snap[failed], Baseline)
  <2>1. PICK j \in others : g = listing[j]
    BY DEF Range
  <2>2. score(k) > score(j) \/ score(k) = score(j)
    BY <1>8
  <2>3. score(k) \in Nat /\ score(j) \in Nat
    BY <1>2, <1>8
  <2> HIDE DEF others
  <2> QED BY <2>1, <2>2, <2>3
<1>11. listing[k] \in Guid
  BY <1>8
<1> QED BY <1>9, <1>10, <1>11

LEMMA ListingTyped ==
    ASSUME NEW listing \in SetToAllKPermutations(Guid)
    PROVE  \E n \in Nat : listing \in [1..n -> Guid]
<1>1. PICK S \in SUBSET Guid : listing \in SetToSeqs(S)
  BY DEF SetToAllKPermutations
<1>2. listing \in [1..Cardinality(S) -> S]
  BY <1>1 DEF SetToSeqs
<1>3. Cardinality(S) \in Nat
  BY SnapshotAssumption, FS_Subset, FS_CardinalityType
<1> QED BY <1>2, <1>3

LEMMA AutoSelectSound ==
    ASSUME NEW n \in Nat, NEW listing \in [1..n -> Guid], NEW snap \in [Guid -> Snapshot], NEW failed \in Guid,
           AutoSelect(listing, snap, failed)
    PROVE  BaselineIsSound'
<1>1. CASE Range(listing) \subseteq {failed}
  <2>1. result' = [of |-> "no baseline"]
    BY <1>1 DEF AutoSelect
  <2> QED BY <2>1 DEF BaselineIsSound, ErroredNeverHigh, ChosenIsHealthy
<1>2. CASE ~(Range(listing) \subseteq {failed})
  <2>1. PICK best : best = Best(listing, snap, failed)
    OBVIOUS
  <2>2. PICK score : score = Score(snap[best], snap[failed], Baseline)
    OBVIOUS
  <2>3. result' = [of |-> "baseline", guid |-> best, listing |-> listing, snap |-> snap, failed |-> failed,
                   confidence |-> Confidence(score)]
    BY <1>2, <2>1, <2>2 DEF AutoSelect
  <2>4. /\ result'.of = "baseline" /\ result'.guid = best /\ result'.listing = listing /\ result'.snap = snap
        /\ result'.failed = failed /\ result'.confidence = Confidence(score)
    BY <2>3
  <2>5. /\ best \in Guid
        /\ \A g \in Range(listing) \ {failed} : score >= Score(snap[g], snap[failed], Baseline)
    BY <1>2, <2>1, <2>2, BestIsBest
  <2>6. snap[best] \in Snapshot
    BY <2>5
  <2>7. /\ score \in 20..130 /\ (snap[best].error => score <= 80)
        /\ Slow(snap[best], Baseline) /\ score >= 100 =>
              SameHour(snap[best].start, snap[failed].start) /\ SameWeekday(snap[best].start, snap[failed].start)
    BY <2>2, <2>6, ScoreBounds
  <2>8. ErroredNeverHigh'
    <3>1. score <= 80 => Confidence(score) # "HIGH"
      BY <2>7 DEF Confidence
    <3> QED BY <2>4, <2>7, <3>1 DEF ErroredNeverHigh
  <2>9. ASSUME NEW g \in Range(listing) \ {failed}, ~snap[g].error, ~Slow(snap[g], Baseline)
        PROVE  /\ ~snap[best].error
               /\ Slow(snap[best], Baseline) =>
                    SameHour(snap[best].start, snap[failed].start) /\ SameWeekday(snap[best].start, snap[failed].start)
    <3>1. snap[g] \in Snapshot
      BY DEF Range
    <3>2. Score(snap[g], snap[failed], Baseline) >= 100 /\ Score(snap[g], snap[failed], Baseline) \in 20..130
      BY <2>9, <3>1, ScoreBounds
    <3>3. PICK x \in 20..130 : x = Score(snap[g], snap[failed], Baseline)
      BY <3>2
    <3>4. score >= x /\ x >= 100
      BY <2>5, <3>2, <3>3
    <3>5. score >= 100
      BY <2>7, <3>4
    <3> QED BY <2>7, <3>5
  <2>10. ChosenIsHealthy'
    BY <2>4, <2>9 DEF ChosenIsHealthy
  <2> QED BY <2>8, <2>10 DEF BaselineIsSound
<1> QED BY <1>1, <1>2

LEMMA ScorePinnedSound ==
    ASSUME NEW snap \in [Guid -> Snapshot], NEW g \in Guid, ScorePinned(snap, g)
    PROVE  BaselineIsSound'
<1>1. PICK score : score = Score(snap[g], snap[g], snap[g].ms)
  OBVIOUS
<1>2. result' = [of |-> "pinned", guid |-> g, snap |-> snap, confidence |-> Confidence(score)]
  BY <1>1 DEF ScorePinned
<1>3. result'.of = "pinned" /\ result'.guid = g /\ result'.snap = snap /\ result'.confidence = Confidence(score)
  BY <1>2
<1>4. score \in 20..130 /\ (snap[g].error => score <= 80)
  BY <1>1, ScoreBounds
<1>5. snap[g].error => Confidence(score) # "HIGH"
  BY <1>4 DEF Confidence
<1> QED BY <1>3, <1>5 DEF BaselineIsSound, ErroredNeverHigh, ChosenIsHealthy
-----------------------------------------------------------------------------
(* SnapshotAnalysis: the comparison of two chains.                         *)
LEMMA ChainTyped ==
    ASSUME NEW chain \in Chain
    PROVE  \E len \in Nat : /\ chain \in [1..len -> [name : Method, ms : SegmentMs]]
                            /\ \A i \in 1..len : chain[i].name \in Method /\ chain[i].ms \in Nat
                            /\ IsFiniteSet(Names(chain)) /\ Names(chain) \subseteq Method
                            /\ Names(chain) = {chain[i].name : i \in 1..len}
<1>1. PICK len \in 0..MaxChain : chain \in [1..len -> [name : Method, ms : SegmentMs]]
  BY DEF Chain, SeqOf
<1>2. len \in Nat
  BY SnapshotAssumption
<1>3. \A i \in 1..len : chain[i].name \in Method /\ chain[i].ms \in Nat
  <2> SUFFICES ASSUME NEW i \in 1..len PROVE chain[i].name \in Method /\ chain[i].ms \in Nat
    OBVIOUS
  <2>1. chain[i] \in [name : Method, ms : SegmentMs]
    BY <1>1
  <2> QED BY <2>1, SnapshotAssumption
<1>4. Names(chain) = {chain[i].name : i \in 1..len}
  BY <1>1 DEF Names, Range
<1>5. Names(chain) \subseteq Method
  BY <1>3, <1>4
<1>6. IsFiniteSet(Names(chain))
  <2>1. PICK f : f = [i \in 1..len |-> chain[i].name]
    OBVIOUS
  <2>2. f \in Surjection(1..len, Names(chain))
    BY <1>4, <2>1 DEF Surjection
  <2>3. IsFiniteSet(1..len)
    BY <1>2, FS_Interval
  <2> QED BY <2>2, <2>3, FS_Surjection
<1> QED BY <1>1, <1>2, <1>3, <1>4, <1>5, <1>6

(* The time of a method is that of one of its segments.                    *)
LEMMA MsIsOfSegment ==
    ASSUME NEW chain \in Chain, NEW n \in Names(chain)
    PROVE  Ms(chain, n) \in Nat /\ \E s \in Range(chain) : s.name = n /\ s.ms = Ms(chain, n)
<1>1. PICK len \in Nat : /\ chain \in [1..len -> [name : Method, ms : SegmentMs]]
                         /\ \A i \in 1..len : chain[i].name \in Method /\ chain[i].ms \in Nat
                         /\ Names(chain) = {chain[i].name : i \in 1..len}
  BY ChainTyped
<1>2. PICK T : T = {i \in 1..len : chain[i].name = n}
  OBVIOUS
<1>3. PICK last \in T : \A j \in T : j <= last
  <2>1. T \subseteq Nat /\ T # {} /\ \A t \in T : t <= len
    BY <1>1, <1>2
  <2> QED BY <2>1, GreatestOf
<1>4. PICK k : k = CHOOSE i \in DOMAIN chain : chain[i].name = n /\ \A j \in DOMAIN chain : chain[j].name = n => j <= i
  OBVIOUS
<1>5. k \in 1..len /\ chain[k].name = n
  <2>1. last \in DOMAIN chain /\ chain[last].name = n /\ \A j \in DOMAIN chain : chain[j].name = n => j <= last
    BY <1>1, <1>2, <1>3
  <2> QED BY <1>1, <1>4, <2>1
<1>6. Ms(chain, n) = chain[k].ms
  BY <1>4 DEF Ms
<1>7. chain[k] \in Range(chain)
  BY <1>1, <1>5 DEF Range
<1> QED BY <1>1, <1>5, <1>6, <1>7

(* A method in a lower place of the failed chain than of the healthy one   *)
(* has fewer methods before it, so that one before it there is not here.   *)
LEMMA LowerPlaceSkips ==
    ASSUME NEW healthy \in Chain, NEW failed \in Chain, NEW n \in Common(healthy, failed),
           Place(failed, n) < Place(healthy, n)
    PROVE  \E skipped \in Method : MetBefore(healthy, skipped, n) /\ ~MetBefore(failed, skipped, n)
<1>1. PICK H, F : /\ H = {m \in Names(healthy) : MetBefore(healthy, m, n)}
                  /\ F = {m \in Names(failed) : MetBefore(failed, m, n)}
  OBVIOUS
<1>2. /\ IsFiniteSet(Names(healthy)) /\ Names(healthy) \subseteq Method
      /\ IsFiniteSet(Names(failed)) /\ Names(failed) \subseteq Method
  BY ChainTyped
<1>3. Cardinality(F) < Cardinality(H) /\ IsFiniteSet(F) /\ IsFiniteSet(H)
  <2>1. F \in SUBSET Names(failed) /\ H \in SUBSET Names(healthy)
    BY <1>1
  <2> QED BY <1>1, <1>2, <2>1, FS_Subset DEF Place
<1>4. Cardinality(F) \in Nat /\ Cardinality(H) \in Nat
  BY <1>3, FS_CardinalityType
<1>5. ~(H \subseteq F)
  <2>1. H \subseteq F => Cardinality(H) <= Cardinality(F)
    BY <1>3, FS_Subset
  <2> QED BY <1>3, <1>4, <2>1
<1>6. PICK m \in H : m \notin F
  BY <1>5
<1>7. MetBefore(failed, m, n) => m \in Names(failed)
  BY DEF MetBefore, Names, Range
<1> QED BY <1>1, <1>2, <1>6, <1>7

(* Where there is a suspect, one of them is met first.                     *)
LEMMA FirstSuspect ==
    ASSUME NEW failed \in Chain, NEW suspects, suspects \subseteq Names(failed), suspects # {}
    PROVE  {n \in suspects : \A other \in suspects \ {n} : MetBefore(failed, n, other)} # {}
<1>1. PICK len \in Nat : /\ failed \in [1..len -> [name : Method, ms : SegmentMs]]
                         /\ Names(failed) = {failed[i].name : i \in 1..len}
  BY ChainTyped
<1>2. PICK T : T = {i \in 1..len : failed[i].name \in suspects}
  OBVIOUS
<1>3. PICK i \in T : \A j \in T : i <= j
  <2>1. T \subseteq Nat /\ T # {}
    BY <1>1, <1>2
  <2> QED BY <2>1, LeastOf
<1>4. i \in 1..len /\ failed[i].name \in suspects
  BY <1>2, <1>3
<1>5. ASSUME NEW other \in suspects \ {failed[i].name} PROVE MetBefore(failed, failed[i].name, other)
  <2>1. ASSUME NEW j \in 1..i PROVE failed[j].name # other
    <3>1. j \in 1..len
      BY <1>4
    <3>2. CASE j = i
      BY <3>2
    <3>3. CASE j # i
      <4>1. ~(i <= j)
        BY <1>4, <3>3
      <4>2. j \notin T
        BY <1>3, <4>1
      <4> QED BY <1>2, <3>1, <4>2
    <3> QED BY <3>2, <3>3
  <2> QED BY <1>1, <1>4, <2>1 DEF MetBefore
<1> QED BY <1>4, <1>5

(* The slowest of the methods that deviate exists.                         *)
LEMMA SlowestExists ==
    ASSUME NEW healthy \in Chain, NEW failed \in Chain, Deviations(healthy, failed) # {}
    PROVE  \E n \in Deviations(healthy, failed) : \A other \in Deviations(healthy, failed) :
              Delta(healthy, failed, other) <= Delta(healthy, failed, n)
<1>1. PICK D : D = Deviations(healthy, failed)
  OBVIOUS
<1>2. D \subseteq Names(failed) /\ D \subseteq Names(healthy) /\ \A n \in D : Delta(healthy, failed, n) > 20
  BY <1>1 DEF Deviations, Common
<1>3. IsFiniteSet(D)
  BY <1>2, ChainTyped, FS_Subset
<1>4. PICK f : f = [n \in D |-> Delta(healthy, failed, n)]
  OBVIOUS
<1>5. f \in [D -> Nat]
  <2> SUFFICES ASSUME NEW n \in D PROVE Delta(healthy, failed, n) \in Nat
    BY <1>4
  <2>1. PICK a \in Nat, b \in Nat : a = Ms(failed, n) /\ b = Ms(healthy, n)
    BY <1>2, MsIsOfSegment
  <2>2. Delta(healthy, failed, n) = a - b
    BY <2>1 DEF Delta
  <2>3. a - b > 20
    BY <1>2, <2>2
  <2>4. a - b \in Nat
    BY <2>3
  <2> QED BY <2>2, <2>4
<1>6. \E n \in D : \A other \in D : f[other] <= f[n]
  BY ONLY <1>3, <1>5, GreatestValue, <1>1, Deviations(healthy, failed) # {}
<1> QED BY <1>1, <1>4, <1>6

(* Three signals of the four include one of the two that name a culprit.   *)
LEMMA HighHasCulpritSignal ==
    ASSUME NEW healthy, NEW failed, NEW error \in BOOLEAN,
           Certainty(Signals(healthy, failed, error)) = "HIGH"
    PROVE  Deviations(healthy, failed) # {} \/ Exclusive(healthy, failed) # {}
<1>1. PICK K : K = {kind \in 1..4 :
        \/ kind = 1 /\ Deviations(healthy, failed) # {}
        \/ kind = 2 /\ Exclusive(healthy, failed) # {}
        \/ kind = 3 /\ PrematureExits(healthy, failed) # {}
        \/ kind = 4 /\ error}
  OBVIOUS
<1>2. Cardinality(K) >= 3
  BY <1>1 DEF Certainty, Signals
<1>3. SUFFICES ASSUME Deviations(healthy, failed) = {}, Exclusive(healthy, failed) = {} PROVE FALSE
  OBVIOUS
<1>4. K \subseteq 3..4
  BY <1>1, <1>3
<1>5. IsFiniteSet(3..4) /\ Cardinality(3..4) = 2
  <2>1. PICK a \in Int, b \in Int : a = 3 /\ b = 4
    OBVIOUS
  <2>2. IsFiniteSet(a..b) /\ Cardinality(a..b) = IF a > b THEN 0 ELSE b - a + 1
    BY FS_Interval
  <2> QED BY <2>1, <2>2
<1>6. IsFiniteSet(K) /\ Cardinality(K) <= 2
  BY <1>4, <1>5, FS_Subset
<1>7. Cardinality(K) \in Nat
  BY <1>6, FS_CardinalityType
<1> QED BY <1>2, <1>6, <1>7

LEMMA CompareGrounded ==
    ASSUME NEW healthy \in Chain, NEW failed \in Chain, NEW error \in BOOLEAN, Compare(healthy, failed, error)
    PROVE  ReportIsGrounded'
<1>1. PICK premature, culprit, confidence :
        /\ premature = PrematureExits(healthy, failed) /\ culprit = Culprit(healthy, failed)
        /\ confidence = Certainty(Signals(healthy, failed, error))
  OBVIOUS
<1>2. result' = [of |-> "comparison", healthy |-> healthy, failed |-> failed,
                 premature |-> premature, culprit |-> culprit, confidence |-> confidence]
  BY <1>1 DEF Compare
<1>3. /\ result'.of = "comparison" /\ result'.healthy = healthy /\ result'.failed = failed
      /\ result'.premature = premature /\ result'.culprit = culprit /\ result'.confidence = confidence
  BY <1>2
<1>4. PrematureOnlyIfSkipped'
  <2> SUFFICES ASSUME NEW n \in premature
               PROVE  \E skipped \in Method : MetBefore(healthy, skipped, n) /\ ~MetBefore(failed, skipped, n)
    BY <1>3 DEF PrematureOnlyIfSkipped
  <2> QED BY <1>1, LowerPlaceSkips DEF PrematureExits
<1>5. PICK D, E : D = Deviations(healthy, failed) /\ E = Exclusive(healthy, failed)
  OBVIOUS
<1>6. PICK suspects : suspects = IF D = {} THEN E
        ELSE {n \in D : \A other \in D : Delta(healthy, failed, other) <= Delta(healthy, failed, n)}
  OBVIOUS
<1>7. culprit = {n \in suspects : \A other \in suspects \ {n} : MetBefore(failed, n, other)}
  BY <1>1, <1>5, <1>6 DEF Culprit
<1>8. suspects \subseteq Names(failed) /\ culprit \subseteq suspects
  BY <1>5, <1>6, <1>7 DEF Deviations, Exclusive, Common
<1>9. confidence = "HIGH" => culprit # {}
  <2> SUFFICES ASSUME confidence = "HIGH" PROVE culprit # {}
    OBVIOUS
  <2>1. D # {} \/ E # {}
    BY <1>1, <1>5, HighHasCulpritSignal
  <2>2. suspects # {}
    BY <1>5, <1>6, <2>1, SlowestExists
  <2> QED BY <1>7, <1>8, <2>2, FirstSuspect
<1>10. ASSUME NEW n \in culprit
       PROVE  \E s \in Range(failed) :
                /\ s.name = n
                /\ \A h \in Range(healthy) : h.name = s.name => \E h2 \in Range(healthy) :
                    h2.name = s.name /\ h2.ms < s.ms
  <2>1. n \in Names(failed)
    BY <1>8
  <2>2. PICK s \in Range(failed) : s.name = n /\ s.ms = Ms(failed, n)
    BY <2>1, MsIsOfSegment
  <2>3. CASE D = {}
    <3>1. n \notin Names(healthy)
      BY <1>5, <1>6, <1>8, <2>3 DEF Exclusive
    <3> QED BY <2>2, <3>1 DEF Names
  <2>4. CASE D # {}
    <3>1. n \in D
      BY <1>6, <1>8, <2>4
    <3>2. n \in Names(healthy) /\ Delta(healthy, failed, n) > 20
      BY <1>5, <3>1 DEF Deviations, Common
    <3>3. PICK h2 \in Range(healthy) : h2.name = n /\ h2.ms = Ms(healthy, n)
      BY <3>2, MsIsOfSegment
    <3>4. Ms(healthy, n) \in Nat /\ Ms(failed, n) \in Nat
      BY <2>1, <3>2, MsIsOfSegment
    <3>5. h2.ms < s.ms
      BY <2>2, <3>2, <3>3, <3>4 DEF Delta
    <3> QED BY <2>2, <3>3, <3>5
  <2> QED BY <2>3, <2>4
<1>11. HighNamesCulprit'
  BY <1>3, <1>9, <1>10 DEF HighNamesCulprit
<1> QED BY <1>4, <1>11 DEF ReportIsGrounded

LEMMA OtherResults ==
    ASSUME result'.of # "comparison"
    PROVE  ReportIsGrounded'
BY DEF ReportIsGrounded, PrematureOnlyIfSkipped, HighNamesCulprit

LEMMA OtherJudgements ==
    ASSUME result'.of \notin {"baseline", "pinned"}
    PROVE  BaselineIsSound'
BY DEF BaselineIsSound, ErroredNeverHigh, ChosenIsHealthy

LEMMA JudgementStep ==
    BaselineIsSound /\ ReportIsGrounded /\ [SnapshotNext]_result => BaselineIsSound' /\ ReportIsGrounded'
<1> SUFFICES ASSUME BaselineIsSound, ReportIsGrounded, [SnapshotNext]_result
             PROVE  BaselineIsSound' /\ ReportIsGrounded'
  OBVIOUS
<1>1. ASSUME NEW snap \in [Guid -> Snapshot], NEW listing \in SetToAllKPermutations(Guid), NEW failed \in Guid,
             AutoSelect(listing, snap, failed)
      PROVE  BaselineIsSound' /\ ReportIsGrounded'
  <2>1. BaselineIsSound'
    BY <1>1, ListingTyped, AutoSelectSound
  <2>2. result'.of # "comparison"
    BY <1>1 DEF AutoSelect
  <2> QED BY <2>1, <2>2, OtherResults
<1>2. ASSUME NEW snap \in [Guid -> Snapshot], NEW g \in Guid, ScorePinned(snap, g)
      PROVE  BaselineIsSound' /\ ReportIsGrounded'
  <2>1. result'.of # "comparison"
    BY <1>2 DEF ScorePinned
  <2> QED BY <1>2, <2>1, ScorePinnedSound, OtherResults
<1>3. ASSUME NEW healthy \in Chain, NEW failed \in Chain, NEW error \in BOOLEAN, Compare(healthy, failed, error)
      PROVE  BaselineIsSound' /\ ReportIsGrounded'
  <2>1. result'.of = "comparison"
    BY <1>3 DEF Compare
  <2> QED BY <1>3, <2>1, CompareGrounded, OtherJudgements
<1>4. CASE Answered
  BY <1>4, OtherResults, OtherJudgements DEF Answered, NoResult
<1>5. CASE UNCHANGED result
  BY <1>5 DEF BaselineIsSound, ErroredNeverHigh, ChosenIsHealthy,
              ReportIsGrounded, PrematureOnlyIfSkipped, HighNamesCulprit
<1> QED BY <1>1, <1>2, <1>3, <1>4, <1>5 DEF SnapshotNext, Judging

LEMMA NoJudgementYet == SnapshotInit => BaselineIsSound /\ ReportIsGrounded
BY DEF SnapshotInit, NoResult, BaselineIsSound, ErroredNeverHigh, ChosenIsHealthy,
       ReportIsGrounded, PrematureOnlyIfSkipped, HighNamesCulprit

(* The baseline the tools call healthy is as healthy as the confidence     *)
(* says, for any listing, times and hours.                                 *)
THEOREM BaselinesAreSound == SnapshotSpec => []BaselineIsSound
BY NoJudgementYet, JudgementStep, PTL DEF SnapshotSpec

(* A report of compare_snapshots says no more than the two chains bear     *)
(* out, for chains of any length.                                          *)
THEOREM ReportsAreGrounded == SnapshotSpec => []ReportIsGrounded
BY NoJudgementYet, JudgementStep, PTL DEF SnapshotSpec
=============================================================================
