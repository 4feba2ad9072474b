---------------------------- MODULE StartupProofs ----------------------------
(***************************************************************************)
(* Theorems about Startup and the applications registry it seeds, for      *)
(* every set of controllers and applications, every lifetime and any       *)
(* number of restarts.                                                     *)
(*                                                                         *)
(* RegistryInv dates what is stored: a copy in force shows the controller  *)
(* at a moment that lies back at most by the answer's delay and the copy's *)
(* lifetime, and every application it is wrong about changed since then.   *)
(* ProcessInv follows startup through the list of controllers.             *)
(***************************************************************************)
EXTENDS Startup, TLAPS

(* What was seen of controller k at time r; what has changed since is      *)
(* marked by since.                                                        *)
Seen(k, apps, whole, r) ==
    /\ r \in Nat /\ r <= now
    /\ \A a \in apps : a \in present \/ r <= since[a]
    /\ whole => \A a \in Listing(k) : a \in apps \/ r <= since[a]

DiskAge == MaxDelay + MemTTL * DiskFactor

CopySound(k, copy, age) ==
    Live(copy) => \E r \in Nat : Seen(k, copy.apps, copy.whole, r) /\ copy.exp <= r + age

CopiesSound ==
    \A k \in Controller : CopySound(k, mem[k], MaxAge) /\ CopySound(k, disk[k], DiskAge)

CallSound(x) ==
    \/ x.stage \in {"idle", "fanout"} /\ "stage" \in DOMAIN x
    \/ x.stage = "asked" /\ x.at \in Controller
    \/ /\ x.stage = "answered" /\ x.at \in Controller
       /\ x.apps \in SUBSET App /\ x.whole \in BOOLEAN
       /\ Seen(x.at, x.apps, x.whole, x.read)
       /\ now <= x.read + MaxDelay

(* While the last list stored in both layers lasts, the disk has it, and   *)
(* the memory names the same applications.                                 *)
KeptSound ==
    \A k \in Controller : Live(kept[k]) =>
        /\ disk[k] = kept[k]
        /\ Live(mem[k]) => mem[k].apps = kept[k].apps

Shape ==
    /\ now \in Nat /\ present \in SUBSET App /\ since \in [App -> Nat]
    /\ mem \in [Controller -> Copy] /\ disk \in [Controller -> Copy]
    /\ kept \in [Controller -> Copy]
    /\ call = [c \in Call |-> call[c]]

RegistryInv ==
    /\ Shape /\ CopiesSound /\ KeptSound
    /\ \A c \in Call : CallSound(call[c])
    /\ ToldWithinAge

-----------------------------------------------------------------------------
LEMMA Ages ==
    /\ MemTTL \in Nat \ {0} /\ MaxDelay \in Nat /\ MemTTL * DiskFactor \in Nat
    /\ DiskAge \in Nat /\ MaxAge \in Nat
    /\ MaxAge = DiskAge + MemTTL /\ DiskAge = MaxDelay + MemTTL * DiskFactor
<1>1. MemTTL \in Nat \ {0} /\ DiskFactor \in Nat \ {0} /\ MaxDelay \in Nat
  BY RegistryAssumption
<1>2. MemTTL * DiskFactor \in Nat
  BY <1>1
<1> DEFINE p == MemTTL * DiskFactor
<1>3. MaxAge = MaxDelay + p + MemTTL /\ DiskAge = MaxDelay + p /\ p \in Nat
  BY <1>2 DEF MaxAge, DiskAge
<1> HIDE DEF p
<1>4. DiskAge \in Nat /\ MaxAge \in Nat /\ MaxAge = DiskAge + MemTTL
  BY <1>1, <1>3
<1> QED BY <1>1, <1>2, <1>4 DEF DiskAge

LEMMA EmptyCopy ==
    /\ NoCopy \in Copy /\ NoCopy.exp = 0 /\ NoCopy.apps = {}
    /\ now \in Nat => ~Live(NoCopy)
    /\ now \in Nat => \A k, age : CopySound(k, NoCopy, age)
<1>1. NoCopy \in Copy /\ NoCopy.exp = 0 /\ NoCopy.apps = {}
  BY DEF NoCopy, Copy
<1>2. now \in Nat => ~Live(NoCopy)
  BY <1>1 DEF Live
<1> QED BY <1>1, <1>2 DEF CopySound

LEMMA IdleCall == NoCall.stage = "idle" /\ CallSound(NoCall)
BY DEF NoCall, CallSound

(* A copy in force is of a moment at most age ago.                         *)
LEMMA LiveIsRecent ==
    ASSUME now \in Nat, NEW k, NEW copy \in Copy, NEW age \in Nat, CopySound(k, copy, age), Live(copy)
    PROVE  \E r \in Nat : Seen(k, copy.apps, copy.whole, r) /\ now < r + age
<1>1. PICK r \in Nat : Seen(k, copy.apps, copy.whole, r) /\ copy.exp <= r + age
  BY DEF CopySound
<1>2. now < copy.exp /\ copy.exp \in Nat
  BY DEF Live, Copy
<1>3. now < r + age
  BY <1>1, <1>2
<1> QED BY <1>1, <1>3

(* What a tool tells of something seen at most MaxAge ago is within age.   *)
LEMMA TellsRecent ==
    ASSUME Shape, NEW k, NEW apps, NEW whole, NEW r \in Nat, Seen(k, apps, whole, r), now <= r + MaxAge,
           told' = [at |-> k, apps |-> apps \cap Scope, whole |-> whole],
           UNCHANGED <<now, present, since>>
    PROVE  ToldWithinAge'
<1>1. now \in Nat /\ MaxAge \in Nat /\ present \in SUBSET App /\ since \in [App -> Nat] /\ Scope \in SUBSET App
  BY Ages, RegistryAssumption DEF Shape
<1>2. ASSUME NEW a \in App, r <= since[a] PROVE now - since[a] <= MaxAge
  <2>1. since[a] \in Nat
    BY <1>1
  <2> QED BY <1>1, <1>2, <2>1
<1>3. ASSUME NEW a \in apps \cap Scope PROVE a \in present \/ now - since[a] <= MaxAge
  BY <1>1, <1>2 DEF Seen
<1>4. ASSUME whole, NEW a \in Listing(k) \cap Scope
      PROVE  a \in apps \cap Scope \/ now - since[a] <= MaxAge
  BY <1>1, <1>2, <1>4 DEF Seen
<1>5. told'.apps = apps \cap Scope /\ told'.at = k /\ told'.whole = whole
  OBVIOUS
<1>6. NamedWereThere'
  BY <1>3, <1>5 DEF NamedWereThere
<1>7. Listing(told.at)' = Listing(k)
  BY <1>5 DEF Listing
<1>8. MissedOnlyByPage'
  BY <1>4, <1>5, <1>7 DEF MissedOnlyByPage
<1> QED BY <1>6, <1>8 DEF ToldWithinAge

LEMMA NothingTold == told = Nothing => ToldWithinAge
BY DEF ToldWithinAge, NamedWereThere, MissedOnlyByPage

LEMMA NothingToldNext == told' = Nothing => ToldWithinAge'
BY DEF ToldWithinAge, NamedWereThere, MissedOnlyByPage

-----------------------------------------------------------------------------
LEMMA RegistryInit == Init => RegistryInv
<1> SUFFICES ASSUME Init PROVE RegistryInv
  OBVIOUS
<1>1. Shape
  BY EmptyCopy DEF Init, Shape
<1>2. CopiesSound /\ KeptSound
  <2>1. now \in Nat /\ \A k \in Controller : mem[k] = NoCopy /\ disk[k] = NoCopy /\ kept[k] = NoCopy
    BY DEF Init
  <2> QED BY <2>1, EmptyCopy DEF CopiesSound, KeptSound
<1>3. \A c \in Call : CallSound(call[c])
  BY IdleCall DEF Init
<1>4. ToldWithinAge
  BY NothingTold DEF Init
<1> QED BY <1>1, <1>2, <1>3, <1>4 DEF RegistryInv

(* Steps of the rest of the process.                                       *)
LEMMA QuietInv == RegistryInv /\ Quiet => RegistryInv'
<1> SUFFICES ASSUME RegistryInv, Quiet PROVE RegistryInv'
  OBVIOUS
<1>1. UNCHANGED <<now, present, since, changes, mem, disk, kept, faults, call>> /\ told' = Nothing
  BY DEF Quiet, world, registry
<1>2. ToldWithinAge'
  BY <1>1, NothingToldNext
<1>3. Shape'
  BY <1>1 DEF RegistryInv, Shape
<1>4. CopiesSound' /\ KeptSound'
  BY <1>1 DEF RegistryInv, CopiesSound, CopySound, KeptSound, Live, Seen, Listing
<1>5. ASSUME NEW c \in Call PROVE CallSound(call[c])'
  BY <1>1 DEF RegistryInv, CallSound, Seen, Listing
<1> QED BY <1>2, <1>3, <1>4, <1>5 DEF RegistryInv

LEMMA StutterInv == RegistryInv /\ UNCHANGED vars => RegistryInv'
<1> SUFFICES ASSUME RegistryInv, UNCHANGED vars PROVE RegistryInv'
  OBVIOUS
<1>1. UNCHANGED <<now, present, since, changes, mem, disk, kept, faults, call, told>>
  BY DEF vars, world, registry
<1>2. ToldWithinAge'
  BY <1>1 DEF RegistryInv, ToldWithinAge, NamedWereThere, MissedOnlyByPage, Listing
<1>3. Shape'
  BY <1>1 DEF RegistryInv, Shape
<1>4. CopiesSound' /\ KeptSound'
  BY <1>1 DEF RegistryInv, CopiesSound, CopySound, KeptSound, Live, Seen, Listing
<1>5. ASSUME NEW c \in Call PROVE CallSound(call[c])'
  BY <1>1 DEF RegistryInv, CallSound, Seen, Listing
<1> QED BY <1>2, <1>3, <1>4, <1>5 DEF RegistryInv

-----------------------------------------------------------------------------
(* The pieces of a step at which time stands still.                        *)

LEMMA CallsNext ==
    ASSUME RegistryInv, UNCHANGED <<now, present, since>>,
           \/ call' = call
           \/ \E c \in Call : \E x : call' = [call EXCEPT ![c] = x] /\ CallSound(x)
    PROVE  call' = [c \in Call |-> call'[c]] /\ \A c \in Call : CallSound(call[c])'
<1>1. \A x : CallSound(x) => CallSound(x)'
  BY DEF CallSound, Seen, Listing
<1>2. call = [c \in Call |-> call[c]] /\ \A c \in Call : CallSound(call[c])
  BY DEF RegistryInv, Shape
<1>3. CASE call' = call
  <2>1. ASSUME NEW c \in Call PROVE CallSound(call[c])'
    <3>1. PICK x : x = call[c] /\ call'[c] = x /\ CallSound(x)
      BY <1>2, <1>3
    <3> QED BY <1>1, <3>1
  <2> QED BY <1>2, <1>3, <2>1
<1>4. ASSUME NEW c \in Call, NEW x, call' = [call EXCEPT ![c] = x], CallSound(x)
      PROVE  call' = [d \in Call |-> call'[d]] /\ \A d \in Call : CallSound(call[d])'
  <2>1. ASSUME NEW d \in Call PROVE CallSound(call[d])'
    <3>1. PICK y : call'[d] = y /\ CallSound(y)
      BY <1>2, <1>4
    <3> QED BY <1>1, <3>1
  <2> QED BY <1>2, <1>4, <2>1
<1> QED BY <1>3, <1>4

LEMMA Assembled ==
    ASSUME RegistryInv, UNCHANGED <<now, present, since>>,
           mem' \in [Controller -> Copy], disk' \in [Controller -> Copy], kept' \in [Controller -> Copy],
           CopiesSound', KeptSound',
           \/ call' = call
           \/ \E c \in Call : \E x : call' = [call EXCEPT ![c] = x] /\ CallSound(x),
           ToldWithinAge'
    PROVE  RegistryInv'
<1>1. call' = [c \in Call |-> call'[c]] /\ \A c \in Call : CallSound(call[c])'
  BY CallsNext
<1>2. Shape'
  BY <1>1 DEF RegistryInv, Shape
<1> QED BY <1>1, <1>2 DEF RegistryInv

(* A copy stays as sound as it is.                                         *)
LEMMA CopySoundStays ==
    ASSUME UNCHANGED <<now, present, since>>, NEW k, NEW copy, NEW age, CopySound(k, copy, age)
    PROVE  CopySound(k, copy, age)'
BY DEF CopySound, Live, Seen, Listing

(* What get_all finds in either layer is of a moment at most MaxAge ago.   *)
LEMMA FoundRecent ==
    ASSUME RegistryInv, NEW k \in Controller, Warm(k)
    PROVE  \E r \in Nat : Seen(k, Found(k).apps, Found(k).whole, r) /\ now <= r + MaxAge
<1>1. Shape /\ CopySound(k, mem[k], MaxAge) /\ CopySound(k, disk[k], DiskAge)
  BY DEF RegistryInv, CopiesSound
<1>2. CASE Live(mem[k])
  <2>1. Found(k) = mem[k]
    BY <1>2 DEF Found
  <2>2. \E r \in Nat : Seen(k, mem[k].apps, mem[k].whole, r) /\ now < r + MaxAge
    BY <1>1, <1>2, Ages, LiveIsRecent DEF Shape
  <2> QED BY <1>1, <2>1, <2>2, Ages DEF Shape
<1>3. CASE ~Live(mem[k]) /\ Live(disk[k])
  <2>1. Found(k) = disk[k]
    BY <1>3 DEF Found
  <2>2. PICK r \in Nat : Seen(k, disk[k].apps, disk[k].whole, r) /\ now < r + DiskAge
    BY <1>1, <1>3, Ages, LiveIsRecent DEF Shape
  <2>3. now <= r + MaxAge
    BY <1>1, <2>2, Ages DEF Shape
  <2> QED BY <2>1, <2>2, <2>3
<1>4. CASE ~Live(mem[k]) /\ ~Live(disk[k])
  BY <1>4, EmptyCopy DEF Found, Warm
<1> QED BY <1>2, <1>3, <1>4

(* Reading keeps both layers sound: a promoted copy was in force on disk.  *)
LEMMA PromotedSound ==
    ASSUME RegistryInv, NEW k \in Controller, Promoted(k), UNCHANGED <<now, present, since>>
    PROVE  /\ mem' \in [Controller -> Copy] /\ disk' \in [Controller -> Copy]
           /\ kept' \in [Controller -> Copy]
           /\ CopiesSound' /\ KeptSound'
<1>1. Shape /\ CopiesSound /\ KeptSound /\ UNCHANGED <<disk, kept>>
  BY DEF RegistryInv, Promoted
<1>2. CASE mem' = mem
  BY <1>1, <1>2 DEF Shape, CopiesSound, CopySound, KeptSound, Live, Seen, Listing
<1>3. CASE mem' # mem
  <2> DEFINE found == [disk[k] EXCEPT !.exp = now + MemTTL]
  <2>1. mem' = [mem EXCEPT ![k] = found] /\ ~Live(mem[k]) /\ Live(disk[k])
    BY <1>3 DEF Promoted
  <2>2. /\ found \in Copy /\ found.apps = disk[k].apps /\ found.whole = disk[k].whole
        /\ found.exp = now + MemTTL
    <3>1. disk[k] \in Copy /\ now + MemTTL \in Nat
      BY <1>1, Ages DEF Shape
    <3> QED BY ONLY <3>1 DEF Copy
  <2> HIDE DEF found
  <2>3. CopySound(k, found, MaxAge)
    <3>1. PICK r \in Nat : Seen(k, disk[k].apps, disk[k].whole, r) /\ now < r + DiskAge
      BY <1>1, <2>1, Ages, LiveIsRecent DEF Shape, CopiesSound
    <3>2. found.exp <= r + MaxAge
      BY <1>1, <2>2, <3>1, Ages DEF Shape
    <3> QED BY <2>2, <3>1, <3>2 DEF CopySound
  <2>4. mem' \in [Controller -> Copy]
    BY <1>1, <2>1, <2>2 DEF Shape
  <2>5. ASSUME NEW j \in Controller PROVE CopySound(j, mem[j], MaxAge)' /\ CopySound(j, disk[j], DiskAge)'
    <3>1. PICK m, d : m = mem'[j] /\ d = disk[j] /\ CopySound(j, m, MaxAge) /\ CopySound(j, d, DiskAge)
      <4>1. CopySound(j, mem'[j], MaxAge)
        <5>1. mem'[j] = IF j = k THEN found ELSE mem[j]
          BY <1>1, <2>1 DEF Shape
        <5> QED BY <1>1, <2>3, <5>1 DEF CopiesSound
      <4> QED BY <1>1, <4>1 DEF CopiesSound
    <3>2. CopySound(j, m, MaxAge)' /\ CopySound(j, d, DiskAge)'
      BY <3>1, CopySoundStays
    <3> QED BY <1>1, <3>1, <3>2
  <2>6. KeptSound'
    <3> SUFFICES ASSUME NEW j \in Controller, Live(kept[j])'
                 PROVE  disk'[j] = kept'[j] /\ (Live(mem[j])' => mem'[j].apps = kept'[j].apps)
      BY DEF KeptSound
    <3>1. Live(kept[j]) /\ disk[j] = kept[j] /\ (Live(mem[j]) => mem[j].apps = kept[j].apps)
      BY <1>1 DEF KeptSound, Live
    <3>2. CASE j = k
      BY <1>1, <2>1, <2>2, <3>1, <3>2 DEF Shape
    <3>3. CASE j # k
      <4>1. mem'[j] = mem[j]
        BY <1>1, <2>1, <3>3 DEF Shape
      <4> QED BY <1>1, <3>1, <4>1 DEF Live
    <3> QED BY <3>2, <3>3
  <2> QED BY <1>1, <2>4, <2>5, <2>6 DEF CopiesSound, Shape
<1> QED BY <1>2, <1>3

(* What an answer stores is of the moment it was read.                     *)
LEMMA StoredSound ==
    ASSUME RegistryInv, NEW c \in Call, call[c].stage = "answered", NEW ttl \in Nat
    PROVE  LET k == call[c].at IN
           /\ k \in Controller
           /\ Stored(c, ttl) \in Copy
           /\ Stored(c, ttl).apps = call[c].apps /\ Stored(c, ttl).whole = call[c].whole
           /\ \A age \in Nat : MaxDelay + ttl <= age => CopySound(k, Stored(c, ttl), age)
           /\ \E r \in Nat : Seen(k, call[c].apps, call[c].whole, r) /\ now <= r + MaxAge
<1> DEFINE x == call[c]
<1>1. /\ x.at \in Controller /\ x.apps \in SUBSET App /\ x.whole \in BOOLEAN
      /\ Seen(x.at, x.apps, x.whole, x.read) /\ now <= x.read + MaxDelay /\ now \in Nat
  BY DEF RegistryInv, CallSound, Shape
<1>2. x.read \in Nat
  BY <1>1 DEF Seen
<1>3. /\ Stored(c, ttl) \in Copy /\ Stored(c, ttl).exp = now + ttl
      /\ Stored(c, ttl).apps = x.apps /\ Stored(c, ttl).whole = x.whole
  <2>1. now + ttl \in Nat
    BY <1>1
  <2> QED BY <1>1, <2>1 DEF Stored, Copy
<1> HIDE DEF x
<1>4. ASSUME NEW age \in Nat, MaxDelay + ttl <= age PROVE CopySound(x.at, Stored(c, ttl), age)
  <2>1. now + ttl <= x.read + age
    BY <1>1, <1>2, <1>4, Ages
  <2> QED BY <1>1, <1>2, <1>3, <2>1 DEF CopySound
<1>5. now <= x.read + MaxAge
  BY <1>1, <1>2, Ages
<1> QED BY <1>1, <1>2, <1>3, <1>4, <1>5 DEF x

-----------------------------------------------------------------------------
(* The tools.                                                              *)

LEMMA FanOutSound ==
    ASSUME NEW c \in Call, NEW names, FanOut(c, names)
    PROVE  \E x : call' = [call EXCEPT ![c] = x] /\ CallSound(x)
<1> DEFINE x == IF names = {} THEN NoCall
                ELSE [stage |-> "fanout", wait |-> names, run |-> {}, free |-> Parallel]
<1>1. call' = [call EXCEPT ![c] = x]
  BY DEF FanOut
<1>2. CallSound(x)
  BY IdleCall DEF CallSound
<1> QED BY <1>1, <1>2

(* A tool that answers from a warm registry.                               *)
LEMMA WarmInv ==
    ASSUME RegistryInv, NEW c \in Call, NEW k \in Controller,
           ListWarm(c, k) \/ SummaryWarm(c, k)
    PROVE  RegistryInv'
<1>1. Warm(k) /\ Promoted(k) /\ Tells(k, Found(k)) /\ UNCHANGED <<now, present, since>>
  BY DEF ListWarm, SummaryWarm, world
<1>2. \/ call' = call
      \/ \E x : call' = [call EXCEPT ![c] = x] /\ CallSound(x)
  BY FanOutSound DEF ListWarm, SummaryWarm
<1>3. PICK r \in Nat : Seen(k, Found(k).apps, Found(k).whole, r) /\ now <= r + MaxAge
  BY <1>1, FoundRecent
<1>4. ToldWithinAge'
  BY <1>1, <1>3, TellsRecent DEF Tells, RegistryInv
<1>5. /\ mem' \in [Controller -> Copy] /\ disk' \in [Controller -> Copy]
      /\ kept' \in [Controller -> Copy]
      /\ CopiesSound' /\ KeptSound'
  BY <1>1, PromotedSound
<1> QED BY <1>1, <1>2, <1>4, <1>5, Assembled

LEMMA AskInv ==
    ASSUME RegistryInv, NEW c \in Call, NEW k \in Controller, NEW kind, Ask(c, k, kind)
    PROVE  RegistryInv'
<1>1. /\ told' = Nothing /\ UNCHANGED <<now, present, since>>
      /\ Promoted(k) \/ UNCHANGED <<mem, disk, kept>>
      /\ call' = [call EXCEPT ![c] = [stage |-> "asked", kind |-> kind, at |-> k]]
  BY DEF Ask, world, registry
<1>2. CallSound([stage |-> "asked", kind |-> kind, at |-> k])
  BY DEF CallSound
<1>3. /\ mem' \in [Controller -> Copy] /\ disk' \in [Controller -> Copy]
      /\ kept' \in [Controller -> Copy]
      /\ CopiesSound' /\ KeptSound'
  <2>1. CASE Promoted(k)
    BY <1>1, <2>1, PromotedSound
  <2>2. CASE UNCHANGED <<mem, disk, kept>>
    BY <1>1, <2>2 DEF RegistryInv, Shape, CopiesSound, CopySound, KeptSound, Live, Seen, Listing
  <2> QED BY <1>1, <2>1, <2>2
<1>4. ToldWithinAge'
  BY <1>1, NothingToldNext
<1> QED BY <1>1, <1>2, <1>3, <1>4, Assembled

(* Steps of a call that leave the registry alone and tell nothing.         *)
LEMMA CallOnly ==
    ASSUME RegistryInv, UNCHANGED <<world, registry>>, NEW c \in Call, NEW x,
           call' = [call EXCEPT ![c] = x], CallSound(x), ToldWithinAge'
    PROVE  RegistryInv'
<1>1. UNCHANGED <<now, present, since, mem, disk, kept>>
  BY DEF world, registry
<1>2. /\ mem' \in [Controller -> Copy] /\ disk' \in [Controller -> Copy]
      /\ kept' \in [Controller -> Copy]
      /\ CopiesSound' /\ KeptSound'
  BY <1>1 DEF RegistryInv, Shape, CopiesSound, CopySound, KeptSound, Live, Seen, Listing
<1> QED BY <1>1, <1>2, Assembled

LEMMA AnswerInv == ASSUME RegistryInv, NEW c \in Call, Answer(c) PROVE RegistryInv'
<1>1. PICK P, whole : /\ P \subseteq Listing(call[c].at) /\ whole = (P = Listing(call[c].at))
                      /\ Becomes(c, P, whole)
  BY DEF Answer, FirstPage
<1>2. call[c].stage = "asked" /\ call[c].at \in Controller /\ now \in Nat
      /\ call = [d \in Call |-> call[d]] /\ present \in SUBSET App
  BY DEF Answer, RegistryInv, CallSound, Shape
<1>3. PICK kind, k : kind = call[c].kind /\ k = call[c].at
  OBVIOUS
<1> DEFINE x == [stage |-> "answered", kind |-> kind, at |-> k, apps |-> P, whole |-> whole, read |-> now]
<1>4. call' = [call EXCEPT ![c] = x]
  BY <1>1, <1>2, <1>3 DEF Becomes
<1>5. CallSound(x)
  <2>1. Seen(k, P, whole, now)
    <3>1. P \subseteq present /\ (whole => P = Listing(k))
      BY <1>1, <1>3 DEF Listing
    <3> QED BY <1>2, <3>1 DEF Seen
  <2>2. P \in SUBSET App /\ whole \in BOOLEAN /\ now <= now + MaxDelay
    BY <1>1, <1>2, Ages DEF Listing
  <2> QED BY <1>2, <1>3, <2>1, <2>2 DEF CallSound
<1>6. told' = Nothing /\ UNCHANGED <<world, registry>>
  BY <1>1 DEF Becomes
<1> QED BY <1>4, <1>5, <1>6, CallOnly, NothingToldNext

(* An answer that is stored in both layers.                                *)
LEMMA UpdatedSound ==
    ASSUME RegistryInv, NEW c \in Call, call[c].stage = "answered", Updated(c),
           UNCHANGED <<now, present, since>>
    PROVE  /\ mem' \in [Controller -> Copy] /\ disk' \in [Controller -> Copy]
           /\ kept' \in [Controller -> Copy]
           /\ CopiesSound' /\ KeptSound'
<1>1. PICK k, m, d : k = call[c].at /\ m = Stored(c, MemTTL) /\ d = Stored(c, MemTTL * DiskFactor)
  OBVIOUS
<1>2. /\ k \in Controller /\ m \in Copy /\ d \in Copy /\ m.apps = d.apps
      /\ CopySound(k, m, MaxAge) /\ CopySound(k, d, DiskAge)
  <2>1. MemTTL \in Nat /\ MemTTL * DiskFactor \in Nat /\ MaxAge \in Nat /\ DiskAge \in Nat
        /\ MaxDelay + MemTTL <= MaxAge /\ MaxDelay + MemTTL * DiskFactor <= DiskAge
    BY Ages
  <2>2. k \in Controller /\ m \in Copy /\ m.apps = call[c].apps /\ CopySound(k, m, MaxAge)
    BY <1>1, <2>1, StoredSound
  <2>3. d \in Copy /\ d.apps = call[c].apps /\ CopySound(k, d, DiskAge)
    BY <1>1, <2>1, StoredSound
  <2> QED BY <2>2, <2>3
<1>3. /\ mem' = [mem EXCEPT ![k] = m] /\ disk' = [disk EXCEPT ![k] = d]
      /\ kept' = [kept EXCEPT ![k] = d]
  BY <1>1 DEF Updated
<1>4. Shape /\ CopiesSound /\ KeptSound
  BY DEF RegistryInv
<1>5. ASSUME NEW j \in Controller PROVE CopySound(j, mem[j], MaxAge)' /\ CopySound(j, disk[j], DiskAge)'
  <2>1. PICK y, z : y = mem'[j] /\ z = disk'[j]
    OBVIOUS
  <2>2. CopySound(j, y, MaxAge) /\ CopySound(j, z, DiskAge)
    <3>1. CASE j = k
      <4>1. y = m /\ z = d
        BY <1>3, <1>4, <2>1, <3>1 DEF Shape
      <4> QED BY <1>2, <3>1, <4>1
    <3>2. CASE j # k
      <4>1. y = mem[j] /\ z = disk[j]
        BY <1>3, <1>4, <2>1, <3>2 DEF Shape
      <4> QED BY <1>4, <4>1 DEF CopiesSound
    <3> QED BY <3>1, <3>2
  <2>3. CopySound(j, y, MaxAge)' /\ CopySound(j, z, DiskAge)'
    BY <2>2, CopySoundStays
  <2> QED BY <2>1, <2>3
<1>6. KeptSound'
  BY <1>2, <1>3, <1>4 DEF KeptSound, Shape, Live
<1> QED BY <1>2, <1>3, <1>4, <1>5, <1>6 DEF Shape, CopiesSound

LEMMA ListArrivesInv == ASSUME RegistryInv, NEW c \in Call, ListArrives(c) PROVE RegistryInv'
<1>1. /\ call[c].stage = "answered" /\ Updated(c) /\ UNCHANGED <<now, present, since>>
      /\ Tells(call[c].at, Stored(c, MemTTL)) /\ call' = [call EXCEPT ![c] = NoCall]
  BY DEF ListArrives, world
<1>2. /\ Stored(c, MemTTL).apps = call[c].apps /\ Stored(c, MemTTL).whole = call[c].whole
      /\ \E r \in Nat : Seen(call[c].at, call[c].apps, call[c].whole, r) /\ now <= r + MaxAge
  BY <1>1, Ages, StoredSound
<1>3. ToldWithinAge'
  BY <1>1, <1>2, TellsRecent DEF Tells, RegistryInv
<1> QED BY <1>1, <1>3, UpdatedSound, IdleCall, Assembled

LEMMA SummaryArrivesInv == ASSUME RegistryInv, NEW c \in Call, SummaryArrives(c) PROVE RegistryInv'
<1>1. /\ call[c].stage = "answered" /\ UNCHANGED <<world, registry>>
      /\ Tells(call[c].at, Stored(c, MemTTL)) /\ UNCHANGED <<now, present, since>>
  BY DEF SummaryArrives, world
<1>2. PICK x : call' = [call EXCEPT ![c] = x] /\ CallSound(x)
  BY FanOutSound DEF SummaryArrives
<1>3. /\ Stored(c, MemTTL).apps = call[c].apps /\ Stored(c, MemTTL).whole = call[c].whole
      /\ \E r \in Nat : Seen(call[c].at, call[c].apps, call[c].whole, r) /\ now <= r + MaxAge
  BY <1>1, Ages, StoredSound
<1>4. ToldWithinAge'
  BY <1>1, <1>3, TellsRecent DEF Tells, RegistryInv
<1> QED BY <1>1, <1>2, <1>4, CallOnly

LEMMA SeedArrivesInv == ASSUME RegistryInv, NEW c \in Call, SeedArrives(c) PROVE RegistryInv'
<1>1. /\ call[c].stage = "answered" /\ Updated(c) /\ UNCHANGED <<now, present, since>>
      /\ told' = Nothing /\ call' = [call EXCEPT ![c] = NoCall]
  BY DEF SeedArrives, world
<1> QED BY <1>1, UpdatedSound, NothingToldNext, IdleCall, Assembled

(* The disk keeps what it had, which no longer says what was stored last.  *)
LEMMA UpdateRaisesInv == ASSUME RegistryInv, NEW c \in Call, UpdateRaises(c) PROVE RegistryInv'
<1>1. PICK k, m : k = call[c].at /\ m = Stored(c, MemTTL)
  OBVIOUS
<1>2. /\ call[c].stage = "answered" /\ UNCHANGED <<now, present, since, disk>>
      /\ mem' = [mem EXCEPT ![k] = m] /\ kept' = [kept EXCEPT ![k] = NoCopy]
      /\ told' = Nothing /\ call' = [call EXCEPT ![c] = NoCall]
  BY <1>1 DEF UpdateRaises, world
<1>3. k \in Controller /\ m \in Copy /\ CopySound(k, m, MaxAge)
  <2>1. MemTTL \in Nat /\ MaxAge \in Nat /\ MaxDelay + MemTTL <= MaxAge
    BY Ages
  <2> QED BY <1>1, <1>2, <2>1, StoredSound
<1>4. Shape /\ CopiesSound /\ KeptSound
  BY DEF RegistryInv
<1>5. ASSUME NEW j \in Controller PROVE CopySound(j, mem[j], MaxAge)' /\ CopySound(j, disk[j], DiskAge)'
  <2>1. PICK y, z : y = mem'[j] /\ z = disk[j]
    OBVIOUS
  <2>2. CopySound(j, y, MaxAge) /\ CopySound(j, z, DiskAge)
    <3>1. CopySound(j, mem[j], MaxAge) /\ CopySound(j, disk[j], DiskAge)
      BY <1>4 DEF CopiesSound
    <3>2. y = IF j = k THEN m ELSE mem[j]
      BY <1>2, <1>4, <2>1 DEF Shape
    <3> QED BY <1>3, <2>1, <3>1, <3>2
  <2>3. CopySound(j, y, MaxAge)' /\ CopySound(j, z, DiskAge)'
    BY <1>2, <2>2, CopySoundStays
  <2> QED BY <1>2, <2>1, <2>3
<1>6. KeptSound'
  <2> SUFFICES ASSUME NEW j \in Controller, Live(kept[j])'
               PROVE  disk'[j] = kept'[j] /\ (Live(mem[j])' => mem'[j].apps = kept'[j].apps)
    BY DEF KeptSound
  <2>1. j # k
    BY <1>2, <1>3, <1>4, EmptyCopy DEF Shape, Live
  <2>2. kept'[j] = kept[j] /\ mem'[j] = mem[j]
    BY <1>2, <1>4, <2>1 DEF Shape
  <2> QED BY <1>2, <1>4, <2>2 DEF KeptSound, Live
<1>7. /\ mem' \in [Controller -> Copy] /\ disk' \in [Controller -> Copy]
      /\ kept' \in [Controller -> Copy]
  BY <1>2, <1>3, <1>4, EmptyCopy DEF Shape
<1>8. CopiesSound'
  BY <1>5 DEF CopiesSound
<1> QED BY <1>2, <1>6, <1>7, <1>8, NothingToldNext, IdleCall, Assembled

(* The rest of a call leaves the registry alone.                           *)
LEMMA FanOutStepInv ==
    ASSUME RegistryInv, NEW c \in Call,
           AskFails(c) \/ Report(c) \/ \E a \in App : Enter(c, a) \/ Checked(c, a)
    PROVE  RegistryInv'
<1>1. told' = Nothing /\ UNCHANGED <<world, registry>>
  BY DEF AskFails, Report, Enter, Checked
<1>2. \E x : call' = [call EXCEPT ![c] = x] /\ CallSound(x)
  <2>1. CASE AskFails(c) \/ Report(c)
    BY <2>1, IdleCall DEF AskFails, Report
  <2>2. ASSUME NEW a \in App, Enter(c, a)
        PROVE  \E x : call' = [call EXCEPT ![c] = x] /\ CallSound(x)
    <3> DEFINE x == [call[c] EXCEPT !.wait = @ \ {a}, !.run = @ \cup {a}, !.free = @ - 1]
    <3>1. call[c].stage = "fanout" /\ "stage" \in DOMAIN call[c]
      BY <2>2 DEF Enter, RegistryInv, CallSound
    <3>2. x.stage = "fanout" /\ "stage" \in DOMAIN x
      BY <3>1
    <3>3. call' = [call EXCEPT ![c] = x]
      BY <2>2 DEF Enter, RegistryInv, Shape
    <3>4. CallSound(x)
      BY <3>2 DEF CallSound
    <3> QED BY <3>3, <3>4
  <2>3. ASSUME NEW a \in App, Checked(c, a)
        PROVE  \E x : call' = [call EXCEPT ![c] = x] /\ CallSound(x)
    <3> DEFINE x == [call[c] EXCEPT !.run = @ \ {a}, !.free = @ + 1]
    <3>1. call[c].stage = "fanout" /\ "stage" \in DOMAIN call[c]
      BY <2>3 DEF Checked, RegistryInv, CallSound
    <3>2. x.stage = "fanout" /\ "stage" \in DOMAIN x
      BY <3>1
    <3>3. call' = [call EXCEPT ![c] = x]
      BY <2>3 DEF Checked, RegistryInv, Shape
    <3>4. CallSound(x)
      BY <3>2 DEF CallSound
    <3> QED BY <3>3, <3>4
  <2> QED BY <2>1, <2>2, <2>3
<1> QED BY <1>1, <1>2, NothingToldNext, CallOnly

LEMMA CallStepInv == ASSUME RegistryInv, NEW c \in Call, CallStep(c) PROVE RegistryInv'
BY AnswerInv, ListArrivesInv, SummaryArrivesInv, SeedArrivesInv, UpdateRaisesInv, FanOutStepInv
   DEF CallStep

-----------------------------------------------------------------------------
(* The environment.                                                        *)

(* What was seen stays true of its moment: what changes is marked.         *)
LEMMA SeenStays ==
    ASSUME Shape, (\E a \in App : Change(a)) \/ Tick,
           NEW k, NEW apps \in SUBSET App, NEW whole, NEW r, Seen(k, apps, whole, r)
    PROVE  Seen(k, apps, whole, r)'
<1>1. now \in Nat /\ present \in SUBSET App /\ since \in [App -> Nat] /\ r \in Nat /\ r <= now
  BY DEF Shape, Seen
<1>2. ASSUME NEW a \in App, Change(a) PROVE Seen(k, apps, whole, r)'
  <2>1. /\ now' = now /\ since' = [since EXCEPT ![a] = now]
        /\ \A b \in App \ {a} : b \in present' <=> b \in present
        /\ present' \in SUBSET App
    BY <1>1, <1>2 DEF Change
  <2>2. \A b \in App \ {a} : since'[b] = since[b]
    BY <1>1, <2>1
  <2>3. since'[a] = now
    BY <1>1, <2>1
  <2>4. \A b \in apps : b \in present' \/ r <= since'[b]
    BY <1>1, <2>1, <2>2, <2>3 DEF Seen
  <2>5. whole => \A b \in Listing(k)' : b \in apps \/ r <= since'[b]
    BY <1>1, <2>1, <2>2, <2>3 DEF Seen, Listing
  <2> QED BY <1>1, <2>1, <2>4, <2>5 DEF Seen
<1>3. CASE Tick
  <2>1. now' = now + 1 /\ present' = present /\ since' = since
    BY <1>3 DEF Tick
  <2> QED BY <1>1, <2>1 DEF Seen, Listing
<1> QED BY <1>2, <1>3

LEMMA CopyAges ==
    ASSUME Shape, (\E a \in App : Change(a)) \/ Tick,
           NEW k, NEW copy \in Copy, NEW age, CopySound(k, copy, age)
    PROVE  CopySound(k, copy, age)'
<1> SUFFICES ASSUME Live(copy)'
             PROVE  \E r \in Nat : Seen(k, copy.apps, copy.whole, r)' /\ copy.exp <= r + age
  BY DEF CopySound
<1>1. now' \in {now, now + 1} /\ now \in Nat /\ copy.exp \in Nat /\ copy.apps \in SUBSET App
  BY DEF Change, Tick, Shape, Copy
<1>2. Live(copy)
  BY <1>1 DEF Live
<1>3. PICK r \in Nat : Seen(k, copy.apps, copy.whole, r) /\ copy.exp <= r + age
  BY <1>2 DEF CopySound
<1>4. Seen(k, copy.apps, copy.whole, r)'
  BY <1>1, <1>3, SeenStays
<1> QED BY <1>3, <1>4

LEMMA WorldInv == ASSUME RegistryInv, (\E a \in App : Change(a)) \/ Tick PROVE RegistryInv'
<1>1. Shape /\ CopiesSound /\ KeptSound /\ \A c \in Call : CallSound(call[c])
  BY DEF RegistryInv
<1>2. /\ told' = Nothing /\ UNCHANGED <<mem, disk, kept, call>> /\ now \in Nat
      /\ now' = now \/ (now' = now + 1 /\ Tick)
  <2>1. ASSUME NEW a \in App, Change(a)
        PROVE  told' = Nothing /\ UNCHANGED <<mem, disk, kept, call>> /\ now' = now
    BY <2>1 DEF Change, registry
  <2>2. Tick => /\ told' = Nothing /\ UNCHANGED <<mem, disk, kept, call>> /\ now' = now + 1
    BY DEF Tick, registry
  <2>3. now \in Nat
    BY <1>1 DEF Shape
  <2> QED BY <2>1, <2>2, <2>3
<1>3. Shape'
  <2>1. ASSUME NEW a \in App, Change(a) PROVE present' \in SUBSET App /\ since' \in [App -> Nat]
    BY <1>1, <2>1 DEF Change, Shape
  <2>2. Tick => present' = present /\ since' = since
    BY DEF Tick
  <2>3. present' \in SUBSET App /\ since' \in [App -> Nat]
    BY <1>1, <2>1, <2>2 DEF Shape
  <2> QED BY <1>1, <1>2, <2>3 DEF Shape
<1>4. ASSUME NEW k \in Controller
      PROVE  CopySound(k, mem[k], MaxAge)' /\ CopySound(k, disk[k], DiskAge)'
  <2>1. PICK y \in Copy, z \in Copy : y = mem[k] /\ z = disk[k]
    BY <1>1 DEF Shape
  <2>2. CopySound(k, y, MaxAge)' /\ CopySound(k, z, DiskAge)'
    BY <1>1, <2>1, CopyAges DEF CopiesSound
  <2> QED BY <1>2, <2>1, <2>2
<1>5. KeptSound'
  <2>1. \A e \in Nat : now' < e => now < e
    BY <1>2
  <2>2. \A k \in Controller : kept[k].exp \in Nat /\ mem[k].exp \in Nat
    BY <1>1 DEF Shape, Copy
  <2>3. \A k \in Controller : (Live(kept[k])' => Live(kept[k])) /\ (Live(mem[k])' => Live(mem[k]))
    BY <1>2, <2>1, <2>2 DEF Live
  <2> QED BY <1>1, <1>2, <2>3 DEF KeptSound
<1>6. ASSUME NEW c \in Call PROVE CallSound(call[c])'
  <2>1. PICK x : x = call[c] /\ CallSound(x)
    BY <1>1
  <2>2. ASSUME x.stage # "answered" PROVE CallSound(x)'
    BY <2>1, <2>2 DEF CallSound
  <2>3. ASSUME x.stage = "answered" PROVE CallSound(x)'
    <3>0. Seen(x.at, x.apps, x.whole, x.read) /\ x.apps \in SUBSET App /\ x.at \in Controller
          /\ x.whole \in BOOLEAN
      BY <2>1, <2>3 DEF CallSound
    <3>1. Seen(x.at, x.apps, x.whole, x.read)'
      BY <1>1, <3>0, SeenStays
    <3>2. x.read \in Nat /\ now <= x.read + MaxDelay
      BY <2>1, <2>3 DEF CallSound, Seen
    <3>3. Tick => now < x.read + MaxDelay
      BY ONLY <2>1, <2>3 DEF Tick
    <3>4. now' <= x.read + MaxDelay
      BY <1>2, <3>2, <3>3, Ages
    <3> QED BY <2>3, <3>0, <3>1, <3>4 DEF CallSound
  <2>4. CallSound(x)'
    BY <2>2, <2>3
  <2> QED BY <1>2, <2>1, <2>4
<1>7. CopiesSound'
  BY <1>4 DEF CopiesSound
<1> QED BY <1>2, <1>3, <1>5, <1>6, <1>7, NothingToldNext DEF RegistryInv

LEMMA DamageInv == ASSUME RegistryInv, NEW k \in Controller, Damage(k) PROVE RegistryInv'
<1>1. /\ disk' = [disk EXCEPT ![k] = NoCopy] /\ kept' = [kept EXCEPT ![k] = NoCopy]
      /\ told' = Nothing /\ UNCHANGED <<now, present, since, mem, call>>
  BY DEF Damage, world
<1>2. Shape /\ CopiesSound /\ KeptSound /\ now \in Nat
  BY DEF RegistryInv, Shape
<1>3. /\ mem' \in [Controller -> Copy] /\ disk' \in [Controller -> Copy]
      /\ kept' \in [Controller -> Copy]
  BY <1>1, <1>2, EmptyCopy DEF Shape
<1>4. ASSUME NEW j \in Controller PROVE CopySound(j, mem[j], MaxAge)' /\ CopySound(j, disk[j], DiskAge)'
  <2>1. PICK y, z : y = mem[j] /\ z = disk'[j]
    OBVIOUS
  <2>2. z = IF j = k THEN NoCopy ELSE disk[j]
    BY <1>1, <1>2, <2>1 DEF Shape
  <2>3. CopySound(j, y, MaxAge) /\ CopySound(j, z, DiskAge)
    BY <1>2, <2>1, <2>2, EmptyCopy DEF CopiesSound
  <2>4. CopySound(j, y, MaxAge)' /\ CopySound(j, z, DiskAge)'
    BY <1>1, <2>3, CopySoundStays
  <2> QED BY <1>1, <2>1, <2>4
<1>5. KeptSound'
  <2> SUFFICES ASSUME NEW j \in Controller, Live(kept[j])'
               PROVE  disk'[j] = kept'[j] /\ (Live(mem[j])' => mem'[j].apps = kept'[j].apps)
    BY DEF KeptSound
  <2>1. j # k
    BY <1>1, <1>2, EmptyCopy DEF Shape, Live
  <2>2. kept'[j] = kept[j] /\ disk'[j] = disk[j]
    BY <1>1, <1>2, <2>1 DEF Shape
  <2> QED BY <1>1, <1>2, <2>2 DEF KeptSound, Live
<1>6. CopiesSound'
  BY <1>4 DEF CopiesSound
<1> QED BY <1>1, <1>3, <1>5, <1>6, NothingToldNext, Assembled

(* The process is gone; the disk stays.                                    *)
LEMMA ForgetsInv == ASSUME RegistryInv, Forgets PROVE RegistryInv'
<1>1. /\ mem' = [k \in Controller |-> NoCopy] /\ call' = [c \in Call |-> NoCall]
      /\ told' = Nothing /\ UNCHANGED <<now, present, since, disk, kept>>
  BY DEF Forgets, world
<1>2. Shape /\ CopiesSound /\ KeptSound /\ now \in Nat
  BY DEF RegistryInv, Shape
<1>3. Shape'
  BY <1>1, <1>2, EmptyCopy DEF Shape
<1>4. ASSUME NEW j \in Controller PROVE CopySound(j, mem[j], MaxAge)' /\ CopySound(j, disk[j], DiskAge)'
  <2>1. PICK z : z = disk[j] /\ CopySound(j, z, DiskAge)
    BY <1>2 DEF CopiesSound
  <2>2. CopySound(j, NoCopy, MaxAge)' /\ CopySound(j, z, DiskAge)'
    BY <1>1, <1>2, <2>1, EmptyCopy, CopySoundStays
  <2> QED BY <1>1, <2>1, <2>2
<1>5. KeptSound'
  BY <1>1, <1>2, EmptyCopy DEF KeptSound, Live
<1>6. ASSUME NEW c \in Call PROVE CallSound(call[c])'
  BY <1>1 DEF CallSound, NoCall
<1>7. CopiesSound'
  BY <1>4 DEF CopiesSound
<1> QED BY <1>1, <1>3, <1>5, <1>6, <1>7, NothingToldNext DEF RegistryInv

-----------------------------------------------------------------------------
(* The process: the controllers it holds and those still to be done.       *)

Ahead == {todo[n] : n \in 1..Len(todo)}

ProcessInv ==
    /\ todo \in Seq(Controller) /\ tokens \in SUBSET Controller /\ pc \in Steps
    /\ pc = "token" => tokens \cup Ahead = Controller
    /\ pc \in {"version", "rbac"} =>
          todo # <<>> /\ Head(todo) \in tokens /\ tokens \cup Ahead = Controller
    /\ pc \in {"licences", "seeding", "ready", "serving"} => tokens = Controller /\ vaultOk
    /\ probe = [open |-> probe.open, todo |-> probe.todo, answered |-> probe.answered]
    /\ probe.open => pc = "serving"
    /\ HealthyMeansAnswered

ServerInv == RegistryInv /\ ProcessInv

LEMMA AheadOf ==
    ASSUME todo \in Seq(Controller), todo # <<>>
    PROVE  /\ Head(todo) \in Controller /\ Tail(todo) \in Seq(Controller)
           /\ Ahead = {Head(todo)} \cup {Tail(todo)[n] : n \in 1..Len(Tail(todo))}
<1>1. /\ Len(todo) \in Nat \ {0} /\ Head(todo) = todo[1] /\ Head(todo) \in Controller
      /\ Tail(todo) \in Seq(Controller)
      /\ Len(Tail(todo)) = Len(todo) - 1
      /\ \A n \in 1..Len(Tail(todo)) : Tail(todo)[n] = todo[n + 1]
  OBVIOUS
<1>2. \A n \in 1..Len(todo) : n = 1 \/ (n - 1 \in 1..Len(Tail(todo)) /\ Tail(todo)[n - 1] = todo[n])
  BY <1>1
<1>3. \A n \in 1..Len(Tail(todo)) : n + 1 \in 1..Len(todo)
  BY <1>1
<1> DEFINE rest == {Tail(todo)[n] : n \in 1..Len(Tail(todo))}
<1>4. ASSUME NEW x \in Ahead PROVE x = Head(todo) \/ x \in rest
  <2>1. PICK n \in 1..Len(todo) : x = todo[n]
    BY <1>4 DEF Ahead
  <2> QED BY <1>1, <1>2, <2>1
<1>5. ASSUME NEW x \in rest PROVE x \in Ahead
  <2>1. PICK n \in 1..Len(Tail(todo)) : x = Tail(todo)[n]
    BY <1>5
  <2> QED BY <1>1, <1>3, <2>1 DEF Ahead
<1>6. Head(todo) \in Ahead
  BY <1>1 DEF Ahead
<1> HIDE DEF rest
<1>7. Ahead = {Head(todo)} \cup rest
  BY <1>4, <1>5, <1>6
<1> QED BY <1>1, <1>7 DEF rest

LEMMA OrderIsAll == Order \in Seq(Controller) /\ {Order[n] : n \in 1..Len(Order)} = Controller
<1>1. Order \in Seq(Controller) /\ Range(Order) = Controller
  BY StartupAssumption
<1>2. DOMAIN Order = 1..Len(Order)
  BY <1>1
<1> QED BY <1>1, <1>2 DEF Range

LEMMA EmptySeq == <<>> \in Seq(Controller)
OBVIOUS

LEMMA NoProbeShape ==
    /\ NoProbe = [open |-> NoProbe.open, todo |-> NoProbe.todo, answered |-> NoProbe.answered]
    /\ ~NoProbe.open
BY DEF NoProbe

LEMMA ServerInitInv == ServerInit => ServerInv
<1> SUFFICES ASSUME ServerInit PROVE ServerInv
  OBVIOUS
<1>1. RegistryInv
  BY RegistryInit DEF ServerInit
<1>2. HealthyMeansAnswered
  BY DEF ServerInit, HealthyMeansAnswered
<1>3. ProcessInv
  BY <1>2, EmptySeq, NoProbeShape DEF ServerInit, ProcessInv, Steps
<1> QED BY <1>1, <1>3 DEF ServerInv

(* Startup takes the controllers one by one and leaves none out.           *)
LEMMA StartingProcess == ASSUME ProcessInv, Starting PROVE ProcessInv'
<1> USE DEF Goes, health
<1>1. ASSUME UNCHANGED <<probe, verdict>>, todo' \in Seq(Controller), tokens' \in SUBSET Controller,
             pc' \in Steps, probe.open => pc' = "serving",
             pc' = "token" => tokens' \cup Ahead' = Controller,
             pc' \in {"version", "rbac"} =>
                todo' # <<>> /\ Head(todo') \in tokens' /\ tokens' \cup Ahead' = Controller,
             pc' \in {"licences", "seeding", "ready", "serving"} => tokens' = Controller /\ vaultOk'
      PROVE  ProcessInv'
  BY <1>1 DEF ProcessInv, HealthyMeansAnswered
<1>2. todo \in Seq(Controller) /\ tokens \in SUBSET Controller /\ pc \in Steps /\ (probe.open => pc = "serving")
  BY DEF ProcessInv
<1>3. CASE ReadConfig
  <2>1. pc' = "token" /\ todo' = Order /\ tokens' = tokens /\ pc = "config"
    BY <1>3 DEF ReadConfig
  <2>2. Ahead' = Controller
    BY <2>1, OrderIsAll DEF Ahead
  <2> QED BY <1>1, <1>2, <1>3, <2>1, <2>2, OrderIsAll DEF ReadConfig, Steps
<1>4. CASE TokenReady
  <2>1. /\ pc = "token" /\ todo # <<>> /\ pc' = "version" /\ todo' = todo
        /\ tokens' = tokens \cup {Head(todo)} /\ UNCHANGED <<probe, verdict>>
    BY <1>4 DEF TokenReady
  <2>2. tokens \cup Ahead = Controller /\ Ahead' = Ahead /\ Head(todo) \in Controller
    BY <1>2, <2>1, AheadOf DEF ProcessInv, Ahead
  <2> QED BY <1>1, <1>2, <2>1, <2>2 DEF Steps
<1>5. CASE VersionChecked /\ Head(todo) \in WithRbac
  <2>1. pc = "version" /\ pc' = "rbac" /\ UNCHANGED <<todo, tokens, probe, verdict>>
    BY <1>5 DEF VersionChecked
  <2>2. todo # <<>> /\ Head(todo) \in tokens /\ tokens \cup Ahead = Controller /\ Ahead' = Ahead
    BY <2>1 DEF ProcessInv, Ahead
  <2> QED BY <1>1, <1>2, <2>1, <2>2 DEF Steps
<1>6. CASE (VersionChecked /\ Head(todo) \notin WithRbac) \/ RbacStarted
  <2>1. /\ pc \in {"version", "rbac"} /\ pc' = "token" /\ todo' = Tail(todo)
        /\ UNCHANGED <<tokens, probe, verdict>>
    BY <1>6 DEF VersionChecked, RbacStarted
  <2>2. todo # <<>> /\ Head(todo) \in tokens /\ tokens \cup Ahead = Controller
    BY <2>1 DEF ProcessInv
  <2>3. Ahead = {Head(todo)} \cup Ahead' /\ todo' \in Seq(Controller)
    BY <1>2, <2>1, <2>2, AheadOf DEF Ahead
  <2> QED BY <1>1, <1>2, <2>1, <2>2, <2>3 DEF Steps
<1>7. CASE ControllersDone
  <2>1. /\ pc = "token" /\ todo = <<>> /\ pc' = "licences" /\ todo' = <<>> /\ vaultOk' = TRUE
        /\ UNCHANGED <<tokens, probe, verdict>>
    BY <1>7 DEF ControllersDone
  <2>2. Ahead = {}
    <3>1. Len(todo) = 0
      BY <2>1
    <3> QED BY <3>1 DEF Ahead
  <2>3. tokens = Controller
    BY <2>1, <2>2 DEF ProcessInv
  <2> QED BY <1>1, <1>2, <2>1, <2>3, EmptySeq DEF Steps
<1>8. CASE LicencesDetected
  <2>1. pc = "licences" /\ pc' = "seeding" /\ todo' = Order /\ UNCHANGED <<tokens, vaultOk, probe, verdict>>
    BY <1>8 DEF LicencesDetected
  <2> QED BY <1>1, <1>2, <2>1, OrderIsAll DEF Steps, ProcessInv
<1>9. ASSUME NEW c \in Call, Seed(c) PROVE ProcessInv'
  <2>1. /\ pc = "seeding" /\ pc' = "seeding" /\ todo # <<>> /\ todo' = Tail(todo)
        /\ UNCHANGED <<tokens, vaultOk, probe, verdict>>
    BY <1>9 DEF Seed
  <2> QED BY <1>1, <1>2, <2>1, AheadOf DEF Steps, ProcessInv
<1>10. CASE Seeded
  <2>1. pc = "seeding" /\ pc' = "ready" /\ todo' = <<>> /\ UNCHANGED <<tokens, vaultOk, probe, verdict>>
    BY <1>10 DEF Seeded
  <2> QED BY <1>1, <1>2, <2>1, EmptySeq DEF Steps, ProcessInv
<1>11. CASE Serve
  <2>1. pc = "ready" /\ pc' = "serving" /\ UNCHANGED <<todo, tokens, vaultOk, probe, verdict>>
    BY <1>11 DEF Serve
  <2> QED BY <1>1, <1>2, <2>1 DEF Steps, ProcessInv
<1> QED BY <1>3, <1>4, <1>5, <1>6, <1>7, <1>8, <1>9, <1>10, <1>11 DEF Starting

(* A healthy verdict is given by a process that serves every controller.   *)
LEMMA HealthProcess == ASSUME ProcessInv, AskHealth \/ Health PROVE ProcessInv'
<1>1. UNCHANGED <<pc, todo, tokens, vaultOk>>
  BY DEF AskHealth, Health, Pinged, PingFails, HealthComputed, Probing, process
<1>2. /\ todo' \in Seq(Controller) /\ tokens' \in SUBSET Controller /\ pc' \in Steps
      /\ pc' = "token" => tokens' \cup Ahead' = Controller
      /\ pc' \in {"version", "rbac"} =>
            todo' # <<>> /\ Head(todo') \in tokens' /\ tokens' \cup Ahead' = Controller
      /\ pc' \in {"licences", "seeding", "ready", "serving"} => tokens' = Controller /\ vaultOk'
  BY <1>1 DEF ProcessInv, Ahead
<1>3. /\ probe' = [open |-> probe'.open, todo |-> probe'.todo, answered |-> probe'.answered]
      /\ probe'.open => pc' = "serving"
      /\ HealthyMeansAnswered'
  <2>1. probe = [open |-> probe.open, todo |-> probe.todo, answered |-> probe.answered]
        /\ (probe.open => pc = "serving") /\ HealthyMeansAnswered
    BY DEF ProcessInv
  <2>2. CASE AskHealth
    BY <1>1, <2>2 DEF AskHealth, HealthyMeansAnswered
  <2>3. CASE Pinged \/ PingFails
    <3>1. UNCHANGED verdict /\ probe.open
      BY <2>3 DEF Pinged, PingFails
    <3>2. \E rest, replies : probe' = [open |-> probe.open, todo |-> rest, answered |-> replies]
      <4>1. CASE Pinged
        BY <2>1, <4>1 DEF Pinged
      <4>2. CASE PingFails
        BY <2>1, <4>2 DEF PingFails
      <4> QED BY <2>3, <4>1, <4>2
    <3> QED BY <1>1, <2>1, <3>1, <3>2 DEF HealthyMeansAnswered
  <2>4. CASE HealthComputed
    <3>1. probe' = NoProbe /\ probe.open
      BY <2>4 DEF HealthComputed
    <3>2. tokens = Controller
      BY <2>1, <3>1 DEF ProcessInv
    <3>3. /\ verdict'.answered = probe.answered
          /\ verdict'.status = "healthy" => probe.answered = tokens
      BY <2>4 DEF HealthComputed, AllReachable
    <3> QED BY <3>1, <3>2, <3>3, NoProbeShape DEF HealthyMeansAnswered
  <2> QED BY <2>2, <2>3, <2>4 DEF Health
<1> QED BY <1>2, <1>3 DEF ProcessInv

LEMMA EndsProcess == ASSUME ProcessInv, Ends PROVE ProcessInv'
<1>1. pc' = "ended" /\ todo' = <<>> /\ tokens' = {} /\ probe' = NoProbe /\ verdict' = Nothing
  BY DEF Ends
<1>2. HealthyMeansAnswered'
  BY <1>1 DEF HealthyMeansAnswered
<1> QED BY <1>1, <1>2, EmptySeq, NoProbeShape DEF ProcessInv, Steps

(* Tool calls, the world, restarts and stuttering.                         *)
LEMMA OtherProcess ==
    ASSUME ProcessInv, UNCHANGED <<todo, tokens, vaultOk, probe>>,
           verdict' \in {verdict, Nothing}, pc' = pc \/ Restart
    PROVE  ProcessInv'
<1>1. HealthyMeansAnswered'
  BY DEF ProcessInv, HealthyMeansAnswered
<1>2. pc' = pc \/ (pc = "ended" /\ pc' = "config")
  BY DEF Restart
<1> QED BY <1>1, <1>2 DEF ProcessInv, Steps, Ahead

LEMMA ProcessStep == ProcessInv /\ [ServerNext]_serverVars => ProcessInv'
<1> SUFFICES ASSUME ProcessInv, [ServerNext]_serverVars PROVE ProcessInv'
  OBVIOUS
<1>1. CASE Exit \/ Signal \/ StdinCloses
  BY <1>1, EndsProcess DEF Exit, Signal, StdinCloses
<1>2. CASE Restart
  BY <1>2, OtherProcess DEF Restart, health
<1>3. CASE Tools \/ World \/ UNCHANGED serverVars
  BY <1>3, OtherProcess DEF Tools, World, Aside, serverVars, process, health
<1> QED BY <1>1, <1>2, <1>3, StartingProcess, HealthProcess DEF ServerNext

LEMMA RegistryStep == ServerInv /\ [ServerNext]_serverVars => RegistryInv'
<1> SUFFICES ASSUME ServerInv, [ServerNext]_serverVars PROVE RegistryInv'
  OBVIOUS
<1>1. RegistryInv /\ ProcessInv
  BY DEF ServerInv
<1>2. CASE Starting
  <2>1. ASSUME NEW c \in Call, Seed(c) PROVE RegistryInv'
    <3>1. todo # <<>> /\ todo \in Seq(Controller) /\ Ask(c, Head(todo), "seed")
      BY <1>1, <2>1 DEF Seed, ProcessInv
    <3> QED BY <1>1, <3>1, AheadOf, AskInv
  <2>2. ASSUME ~ \E c \in Call : Seed(c) PROVE Quiet
    BY <1>2, <2>2 DEF Starting, ReadConfig, TokenReady, VersionChecked, RbacStarted,
       ControllersDone, LicencesDetected, Seeded, Serve
  <2> QED BY <1>1, <2>1, <2>2, QuietInv
<1>3. CASE Exit \/ Signal \/ StdinCloses
  BY <1>1, <1>3, ForgetsInv DEF Exit, Signal, StdinCloses, Ends
<1>4. CASE Restart \/ AskHealth \/ Health
  BY <1>1, <1>4, QuietInv DEF Restart, AskHealth, Health, Pinged, PingFails, HealthComputed, Probing
<1>5. CASE Tools
  BY <1>1, <1>5, WarmInv, AskInv, CallStepInv DEF Tools
<1>6. CASE World
  BY <1>1, <1>6, WorldInv, DamageInv DEF World
<1>7. CASE UNCHANGED serverVars
  BY <1>1, <1>7, StutterInv DEF serverVars
<1> QED BY <1>2, <1>3, <1>4, <1>5, <1>6, <1>7 DEF ServerNext

LEMMA ServerAlways == ServerSpec => []ServerInv
<1>1. ServerInv /\ [ServerNext]_serverVars => ServerInv'
  BY ProcessStep, RegistryStep DEF ServerInv
<1> QED BY <1>1, ServerInitInv, PTL DEF ServerSpec

-----------------------------------------------------------------------------
(* Whatever fails during startup, at this start or at an earlier one: a    *)
(* process of main.py that serves has a token manager and a client for     *)
(* every controller, and the health tool says "healthy" only on the word   *)
(* of each of them.                                                        *)
THEOREM NoControllerPassedOver == ServerSpec => []NonePassedOver
<1>1. ServerInv => NonePassedOver
  BY DEF ServerInv, ProcessInv, NonePassedOver, ServesAll
<1> QED BY <1>1, ServerAlways, PTL

(* Through promotions, restarts, damaged entries and answers that overtake *)
(* one another: no listing or summary from the applications registry names *)
(* an application that left longer ago than MaxAge, or misses one that has *)
(* been there longer, unless a page took the place of the list.            *)
THEOREM ToldIsRecent == ServerSpec => []ToldWithinAge
<1>1. ServerInv => ToldWithinAge
  BY DEF ServerInv, RegistryInv
<1> QED BY <1>1, ServerAlways, PTL

(* What both layers of the applications registry stored is answered from   *)
(* until the disk copy expires, through any number of restarts.            *)
THEOREM FallbackHolds == ServerSpec => []KnownUntilExpiry
<1>1. ServerInv => KnownUntilExpiry
  <2> SUFFICES ASSUME ServerInv, NEW k \in Controller, Live(kept[k])
               PROVE  Found(k).apps = kept[k].apps
    BY DEF KnownUntilExpiry
  <2>1. disk[k] = kept[k] /\ (Live(mem[k]) => mem[k].apps = kept[k].apps)
    BY DEF ServerInv, RegistryInv, KeptSound
  <2> QED BY <2>1 DEF Found
<1> QED BY <1>1, ServerAlways, PTL
=============================================================================
