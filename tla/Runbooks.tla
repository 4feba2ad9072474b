------------------------------ MODULE Runbooks ------------------------------
(***************************************************************************)
(* services/runbook_generator.py and save_runbook of main.py: a file for   *)
(* each investigation, and the search for earlier ones of the same cause.  *)
(*                                                                         *)
(* A file is named after the application, with blanks and slashes          *)
(* replaced, and the second.  The search takes every file that the glob    *)
(* pattern made of the application's name, a hyphen and a star finds,      *)
(* sorts them by name and reads the last few.  For a plain name these are  *)
(* its own files and those of applications whose name goes on behind the   *)
(* hyphen.  The brackets, stars and question marks of a name are not       *)
(* escaped: such a name may find the files of others and miss its own.     *)
(***************************************************************************)
EXTENDS Integers, FiniteSets

CONSTANTS
    AppName,    \* applications, as the callers name them
    Name,       \* their names in file names
    Safe,       \* the name of each application
    Found,      \* the names whose files the pattern of each application finds
    Alphabet,   \* the place of each name in the order of the files
    Cause,      \* root causes
    Occurs,     \* the causes in whose text each cause occurs
    Limit,      \* limit of load_recent_runbooks
    LastSecond, \* bound: last value of the clock
    MaxRunbooks \* bound: runbooks begun

(* No name goes on behind another and a hyphen with a date, so that files  *)
(* of different names have one order whatever their seconds.               *)
ASSUME RunbookAssumption ==
    /\ Safe \in [AppName -> Name] /\ Found \in [AppName -> SUBSET Name] /\ Alphabet \in [Name -> Nat]
    /\ \A m, n \in Name : Alphabet[m] = Alphabet[n] => m = n
    /\ Occurs \in [Cause -> SUBSET Cause] /\ \A c \in Cause : c \in Occurs[c]
    /\ Limit \in Nat \ {0} /\ {LastSecond, MaxRunbooks} \subseteq Nat

VARIABLES
    second,
    files,    \* the runbooks directory
    begun,    \* history: every runbook begun, by number
    warning   \* what the last save_runbook told its caller, if anything

directory == <<second, files, begun, warning>>

(* A runbook and where it is written; whole: its file can be read.         *)
Runbook ==
    [id : 1..MaxRunbooks, name : Name, at : 0..LastSecond, app : AppName, cause : Cause, whole : BOOLEAN]

NoWarning == [of |-> 0, prior |-> {}]

(* Mutant: the search reads the first files.                               *)
BehindReversed(f, g) ==
    \/ Alphabet[f.name] < Alphabet[g.name]
    \/ Alphabet[f.name] = Alphabet[g.name] /\ f.at < g.at

(* f is read before g: the files are sorted by name, backwards.            *)
Behind(f, g) ==
    \/ Alphabet[f.name] > Alphabet[g.name]
    \/ Alphabet[f.name] = Alphabet[g.name] /\ f.at > g.at

(* load_recent_runbooks: what cannot be read still takes a place.          *)
Matching(app, dir) == {f \in dir : f.name \in Found[app]}
Recent(app, dir) ==
    {f \in Matching(app, dir) :
        f.whole /\ Cardinality({g \in Matching(app, dir) : Behind(g, f)}) < Limit}

(* Mutant: the runbook just saved counts as a recurrence.                  *)
PriorAndOwn(r, dir) == {f.id : f \in {g \in Recent(r.app, dir) : g.cause \in Occurs[r.cause]}}

Prior(r, dir) == {f.id : f \in {g \in Recent(r.app, dir) : g.cause \in Occurs[r.cause]}} \ {r.id}

NextRunbook(app, cause, whole) ==
    [id |-> Cardinality(begun) + 1, name |-> Safe[app], at |-> second, app |-> app,
     cause |-> cause, whole |-> whole]

(* The file of the same name and second is overwritten.                    *)
Written(r) == {f \in files : f.name # r.name \/ f.at # r.at} \cup {r}

-----------------------------------------------------------------------------
(* save_runbook does not suspend.                                          *)
SaveRunbook(app, cause) ==
    LET r == NextRunbook(app, cause, TRUE) IN
    /\ Cardinality(begun) < MaxRunbooks /\ begun' = begun \cup {r}
    /\ files' = Written(r)
    /\ warning' = [of |-> r.id, prior |-> Prior(r, files')]
    /\ UNCHANGED second

(* The write fails or the process dies half way, and the file is cut       *)
(* short; or the file is whole, and the process dies or the search raises, *)
(* as glob does for the pattern of a name that ends in two stars.          *)
SaveFails(app, cause) ==
    \E whole \in BOOLEAN :
        LET r == NextRunbook(app, cause, whole) IN
        /\ Cardinality(begun) < MaxRunbooks /\ begun' = begun \cup {r}
        /\ files' = Written(r)
        /\ warning' = NoWarning
        /\ UNCHANGED second

SecondPasses ==
    /\ second < LastSecond /\ second' = second + 1
    /\ warning' = NoWarning
    /\ UNCHANGED <<files, begun>>

RunbooksInit == second = 0 /\ files = {} /\ begun = {} /\ warning = NoWarning
RunbooksNext ==
    \/ \E app \in AppName, cause \in Cause : SaveRunbook(app, cause) \/ SaveFails(app, cause)
    \/ SecondPasses

RunbooksSpec == RunbooksInit /\ [][RunbooksNext]_directory

-----------------------------------------------------------------------------
(* One type invariant; a file is a runbook that was begun, and there is    *)
(* one for each name and second.                                           *)
RunbooksTypeOK ==
    /\ second \in 0..LastSecond /\ begun \subseteq Runbook
    /\ files \subseteq begun
    /\ \A f, g \in files : f.name = g.name /\ f.at = g.at => f = g
    /\ warning.prior \subseteq 1..MaxRunbooks

(* The runbook the last call saved.                                        *)
Told == {r \in begun : r.id = warning.of}

(* A cause that was recorded in a file the search of this application can  *)
(* find is recognised when it comes again, unless that file was written    *)
(* over in the same second, or Limit others it can find were begun that    *)
(* are read before it.  (Nothing is said of files the pattern misses: an   *)
(* application named "[prod] pay" sees no recurrence of its own.)          *)
RecurrenceSeen ==
    \A r \in Told : \A e \in begun :
        LET overwrites(l) == l.id > e.id /\ l.name = e.name /\ l.at = e.at
            before == {<<l.name, l.at>> : l \in {l \in begun :
                           /\ l.name \in Found[r.app]
                           /\ \/ Alphabet[l.name] > Alphabet[e.name]
                              \/ l.name = e.name /\ l.at > e.at}}
        IN  e.name \in Found[r.app] /\ e.whole /\ e.cause \in Occurs[r.cause] /\ e.id < r.id =>
                \/ e.id \in warning.prior
                \/ \E l \in begun : overwrites(l)
                \/ Cardinality(before) >= Limit

(* What is reported as a recurrence was saved before, whole, for a cause   *)
(* of which this one is a part, by an application whose files the pattern  *)
(* finds: itself, if at all, but not only itself.                          *)
OnlyThePast ==
    \A r \in Told : \A id \in warning.prior : \E e \in begun :
        /\ e.id = id /\ id < r.id /\ e.whole /\ e.cause \in Occurs[r.cause]
        /\ Safe[e.app] \in Found[r.app]

(* The warning of save_runbook is what the files that its search can find  *)
(* allow, both ways.                                                       *)
WarningIsRight == RecurrenceSeen /\ OnlyThePast
=============================================================================
