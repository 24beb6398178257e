----------------------------- MODULE ServiceProofs -----------------------------
(***************************************************************************)
(* What is proved of the service layer: the bundles of the daemon             *)
(* (ProfileBundles) and the work handlers that drive sessions under their      *)
(* locks (SessionWork).                                                      *)
(***************************************************************************)
EXTENDS ProfileBundles, SessionWork, LockRegistryProofs, TLAPS

(* The bundles.                                                             *)

\* A request that has the sessions listed looks at the only bundle that can have an
\* active one; a request that found it idle leaves no active one.
Guarded ==
  \A r \in Requests :
    /\ request[r].at \in {"resolved", "asking"} => request[r].bundle \in Bundles
    /\ request[r].at = "asking" =>
         \A b \in Bundles : sessions[b] = "active" => b = request[r].bundle
    /\ request[r].at = "settled" => \A b \in Bundles : sessions[b] # "active"

BundleInv ==
  /\ BundleTypeOK /\ Guarded /\ PatchTakesEffect /\ SessionsKeepTheirBundle
  /\ config # NoConfig => config >= patched

LEMMA BundleInvInit == BundleInit => BundleInv
BY BundleAssumption
DEF BundleInit, BundleInv, BundleTypeOK, Guarded, PatchTakesEffect, SessionsKeepTheirBundle,
    NoConfig, NoBundle, NotBuilt, Bundles, Waiting

\* A request that goes on or leaves while everything else stays.
LEMMA RequestMoves ==
  ASSUME BundleInv, NEW r \in Requests, UNCHANGED <<config, edits, patched, builtFrom, cached, sessions>>,
         NEW at \in {"door", "resolved", "asking", "settled"}, NEW b \in {NoBundle} \cup Bundles,
         request' = [request EXCEPT ![r] = [at |-> at, bundle |-> b]],
         at \in {"resolved", "asking"} => b \in Bundles,
         at = "asking" => b = cached,
         at = "settled" => /\ request[r].at = "asking" /\ sessions[request[r].bundle] = "idle"
  PROVE  BundleInv'
<1>. USE DEF BundleInv
<1>1. BundleTypeOK'
  BY DEF BundleTypeOK
<1>2. /\ request'[r].at = at /\ request'[r].bundle = b
      /\ \A q \in Requests \ {r} : request'[q] = request[q]
  BY DEF BundleTypeOK
<1>3. at = "asking" => \A c \in Bundles : sessions[c] = "active" => c = b
  BY DEF SessionsKeepTheirBundle
<1>4. at = "settled" => \A c \in Bundles : sessions[c] # "active"
  BY DEF Guarded
<1>5. Guarded'
  BY <1>2, <1>3, <1>4 DEF Guarded
<1>. QED  BY <1>1, <1>5 DEF PatchTakesEffect, SessionsKeepTheirBundle

\* What a PATCH or DELETE may do to the profile.
LEMMA ProfileWritten ==
  ASSUME BundleInv, WriteProfile \/ RefuseWrite
  PROVE  /\ edits' \in 1..MaxEdits /\ config' \in 0..edits' /\ patched' \in 1..edits'
         /\ config' # NoConfig => config' >= patched'
BY BundleAssumption DEF BundleInv, BundleTypeOK, WriteProfile, RefuseWrite, Written, NoConfig

LEMMA BundleStep ==
  ASSUME BundleInv, [BundleNext]_bvars
  PROVE  BundleInv'
<1>. USE DEF BundleInv
<1>1. ASSUME NEW r \in Requests, ResolveCached(r) PROVE BundleInv'
  BY <1>1, RequestMoves DEF ResolveCached, Proceeds, BundleTypeOK
<1>2. ASSUME NEW r \in Requests, NEW b \in Bundles, ResolveBuilding(r, b) PROVE BundleInv'
  <2>1. /\ cached = NoBundle /\ config # NoConfig /\ builtFrom' = [builtFrom EXCEPT ![b] = config]
        /\ cached' = b /\ request' = [request EXCEPT ![r] = [at |-> "resolved", bundle |-> b]]
        /\ UNCHANGED <<config, edits, patched, sessions>>
    BY <1>2 DEF ResolveBuilding, Proceeds
  <2>2. BundleTypeOK'
    BY <2>1, BundleAssumption DEF BundleTypeOK, NoConfig, NotBuilt
  <2>3. \A c \in Bundles : sessions[c] # "active"
    BY <2>1 DEF SessionsKeepTheirBundle, NoBundle, Bundles
  <2>4. Guarded' /\ SessionsKeepTheirBundle'
    BY <2>1, <2>3 DEF Guarded, SessionsKeepTheirBundle, BundleTypeOK
  <2>5. PatchTakesEffect'
    BY <2>1 DEF PatchTakesEffect, BundleTypeOK
  <2>. QED  BY <2>1, <2>2, <2>4, <2>5
<1>3. ASSUME NEW r \in Requests, BeginSession(r) PROVE BundleInv'
  <2>. DEFINE b == request[r].bundle
  <2>1. /\ b \in Bundles
        /\ sessions' = [sessions EXCEPT ![b] = BegunOn(b)]
        /\ request' = [request EXCEPT ![r] = Waiting]
        /\ UNCHANGED <<config, edits, patched, builtFrom, cached>>
    BY <1>3 DEF BeginSession, Leaves, Guarded
  <2>. HIDE DEF b
  <2>2. BundleTypeOK'
    BY <2>1 DEF BundleTypeOK, Waiting, BegunOn
  <2>3. \A c \in Bundles : sessions'[c] = "active" =>
          (c # b /\ sessions[c] = "active") \/ (c = b /\ cached = b /\ ~Changing)
    BY <2>1 DEF BundleTypeOK, BegunOn
  <2>4. SessionsKeepTheirBundle'
    BY <2>1, <2>3 DEF SessionsKeepTheirBundle
  <2>5. \A q \in Requests : request'[q] = request[q] \/ request'[q] = Waiting
    BY <2>1 DEF BundleTypeOK
  <2>6. Guarded'
    BY <2>3, <2>5 DEF Guarded, Changing, Waiting
  <2>. QED  BY <2>1, <2>2, <2>4, <2>6 DEF PatchTakesEffect
<1>4. ASSUME NEW r \in Requests, UseBundle(r) PROVE BundleInv'
  BY <1>4, RequestMoves DEF UseBundle, Leaves, Waiting
<1>5. ASSUME NEW r \in Requests, MutateAtOnce(r) PROVE BundleInv'
  <2>1. cached = NoBundle /\ UNCHANGED <<builtFrom, cached, sessions, request>>
    BY <1>5 DEF MutateAtOnce
  <2>2. /\ edits' \in 1..MaxEdits /\ config' \in 0..edits' /\ patched' \in 1..edits'
        /\ config' # NoConfig => config' >= patched'
    BY <1>5, ProfileWritten DEF MutateAtOnce
  <2>. QED  BY <2>1, <2>2 DEF BundleTypeOK, Guarded, PatchTakesEffect, SessionsKeepTheirBundle
<1>6. ASSUME NEW r \in Requests, AskForSessions(r) PROVE BundleInv'
  BY <1>6, RequestMoves DEF AskForSessions, Proceeds, BundleTypeOK
<1>7. ASSUME NEW r \in Requests, LookAtSessions(r) PROVE BundleInv'
  <2>1. request[r].bundle \in Bundles
    BY <1>7 DEF LookAtSessions, Guarded
  <2>. QED  BY <1>7, <2>1, RequestMoves DEF LookAtSessions, Proceeds, Leaves, Waiting
<1>8. ASSUME NEW r \in Requests, ChangeProfile(r) PROVE BundleInv'
  <2>1. /\ request[r].at = "settled" /\ cached' = NoBundle /\ UNCHANGED <<builtFrom, sessions>>
        /\ request' = [request EXCEPT ![r] = Waiting]
    BY <1>8 DEF ChangeProfile, Leaves
  <2>2. /\ edits' \in 1..MaxEdits /\ config' \in 0..edits' /\ patched' \in 1..edits'
        /\ config' # NoConfig => config' >= patched'
    BY <1>8, ProfileWritten DEF ChangeProfile
  <2>3. \A b \in Bundles : sessions[b] # "active"
    BY <2>1 DEF Guarded
  <2>4. BundleTypeOK'
    BY <2>1, <2>2 DEF BundleTypeOK, Waiting
  <2>5. \A q \in Requests : request'[q] = request[q] \/ request'[q] = Waiting
    BY <2>1 DEF BundleTypeOK
  <2>. QED  BY <2>1, <2>2, <2>3, <2>4, <2>5
            DEF Guarded, Waiting, PatchTakesEffect, SessionsKeepTheirBundle
<1>9. ASSUME NEW b \in Bundles, SettleSession(b) PROVE BundleInv'
  <2>1. /\ sessions' = [sessions EXCEPT ![b] = "idle"]
        /\ UNCHANGED <<config, edits, patched, builtFrom, cached, request>>
    BY <1>9 DEF SettleSession
  <2>2. BundleTypeOK' /\ \A c \in Bundles : sessions'[c] = "active" => sessions[c] = "active"
    BY <2>1 DEF BundleTypeOK
  <2>. QED  BY <2>1, <2>2 DEF Guarded, PatchTakesEffect, SessionsKeepTheirBundle
<1>10. CASE WriteUnguarded
  <2>1. /\ edits < MaxEdits /\ edits' = edits + 1 /\ config' = edits + 1
        /\ UNCHANGED <<patched, builtFrom, cached, sessions, request>>
    BY <1>10 DEF WriteUnguarded
  <2>2. BundleTypeOK' /\ config' >= patched'
    BY <2>1, BundleAssumption DEF BundleTypeOK
  <2>. QED  BY <2>1, <2>2 DEF Guarded, PatchTakesEffect, SessionsKeepTheirBundle
<1>11. CASE UNCHANGED bvars
  BY <1>11 DEF bvars, BundleTypeOK, Guarded, PatchTakesEffect, SessionsKeepTheirBundle
<1>. QED  BY <1>1, <1>2, <1>3, <1>4, <1>5, <1>6, <1>7, <1>8, <1>9, <1>10, <1>11 DEF BundleNext

LEMMA BundleInvariance == BundleSpec => []BundleInv
<1>1. BundleInv /\ [BundleNext]_bvars => BundleInv'
  BY BundleStep
<1>. QED  BY <1>1, BundleInvInit, PTL DEF BundleSpec

(* No bundle built before a PATCH or DELETE is cached after it, for any requests     *)
(* (_profile_mutation_guard).                                                 *)
THEOREM BundlePatchTakesEffect == BundleSpec => []PatchTakesEffect
<1>1. BundleInv => PatchTakesEffect
  BY DEF BundleInv
<1>. QED  BY <1>1, BundleInvariance, PTL

(* The bundle of a session that did not begin during a change stays cached while the  *)
(* session is active (_profile_mutation_guard).                                 *)
THEOREM BundleOfActiveSessionStays == BundleSpec => []SessionsKeepTheirBundle
<1>1. BundleInv => SessionsKeepTheirBundle
  BY DEF BundleInv
<1>. QED  BY <1>1, BundleInvariance, PTL

-----------------------------------------------------------------------------
(* The work handlers: who holds which lock.                                  *)

USE LockAssumption, WorkAssumption

OnType == [job : Jobs \cup {0}, try : Nat, to : Sessions \cup {0}, lock : Nat]

DriverType ==
  [pc : Places, on : OnType, fresh : BOOLEAN, conf : {"unset", "yes", "no"}, act : 0..MaxActs,
   did : BOOLEAN, asked : BOOLEAN, result : Results]

ItemType(j) ==
  [stage : {"absent", "queued", "leased"} \cup Ended, kind : {"none"} \cup Kinds[j],
   tries : 0..Budget[j], task : 0..MaxTasks, act : 0..MaxActs]

WorkShape ==
  /\ LockTypeOK
  /\ work = [j \in Jobs |-> work[j]] /\ \A j \in Jobs : work[j] \in ItemType(j)
  /\ sess \in [Sessions -> Snapshots]
  /\ drv \in [Drivers -> DriverType]
  /\ settled \in [Sessions -> SUBSET (0..MaxActs)]

\* An item that waits has an attempt left, and one that was taken has a kind.
Queued ==
  \A j \in Jobs :
    /\ work[j].stage = "queued" => work[j].tries < Budget[j]
    /\ work[j].stage = "queued" \/ work[j].tries > 0 => work[j].kind # "none"
    /\ work[j].stage = "leased" => work[j].tries > 0
    /\ work[j].stage = "absent" => work[j].tries = 0

\* A run works under an attempt the queue has counted; the user holds no lock.
OnTheirWork ==
  /\ drv[User].on.lock = 0 /\ drv[User].pc \in {"idle", "loaded", "driving"}
  /\ \A d \in Drivers : drv[d].pc # "idle" => To(d) \in Sessions
  /\ \A d \in Runs :
       /\ drv[d].pc = "idle" => drv[d].on.lock = 0
       /\ drv[d].pc # "idle" => /\ drv[d].on.job \in Jobs /\ drv[d].on.try >= 1
                                /\ drv[d].on.try <= work[drv[d].on.job].tries
       /\ drv[d].pc \in {"taken", "admitted"} => drv[d].on.lock = 0
       /\ drv[d].pc \in {"locked", "loaded"} => drv[d].on.lock # 0
       /\ drv[d].on.lock <= grants

\* No two runs work under one attempt, or under one grant of a lock.
Apart ==
  \A c, d \in Runs : c # d =>
    /\ drv[c].pc # "idle" /\ drv[d].pc # "idle" => OwnerOf(c) # OwnerOf(d)
    /\ drv[c].on.lock # 0 => drv[c].on.lock # drv[d].on.lock

\* A lock that is held was granted to an attempt the queue has counted; if its run is
\* still there it is the lock it works under.
LocksOwned ==
  \A k \in LockKeys : locks[k].owner # NoOwner =>
    /\ locks[k].no >= 1 /\ locks[k].no <= grants
    /\ \A j \in Jobs : \A t \in Nat : locks[k].owner = <<j, t>> => t <= work[j].tries
    /\ \A d \in Runs : drv[d].pc # "idle" /\ locks[k].owner = OwnerOf(d) =>
         /\ k = To(d) /\ locks[k].no = drv[d].on.lock
         /\ drv[d].pc \in {"locked", "loaded", "driving", "releasing"}

\* Renewed in time, a lock outlasts the work under it.
Renewed ==
  PunctualLocks =>
    \A d \in Runs : UnderLock(d) => Usable(OwnerOf(d), drv[d].on.lock, To(d))

\* A handler that is over left a result.
Finished == \A d \in Drivers : drv[d].pc \in {"releasing", "ended"} => drv[d].result # "none"

LocksInv == WorkShape /\ Queued /\ OnTheirWork /\ Apart /\ LocksOwned /\ Renewed

LEMMA IdleType == Idle \in DriverType /\ Idle.pc = "idle" /\ Idle.on.lock = 0 /\ ~Idle.did
BY DEF Idle, NoWork, DriverType, OnType, Places, Results

LEMMA LocksInvInit == WorkInit => LocksInv
<1>1. SUFFICES ASSUME WorkInit PROVE LocksInv
  OBVIOUS
<1>2. WorkShape
  BY <1>1, IdleType
  DEF WorkInit, LockInit, WorkShape, LockTypeOK, LockType, Free, NoItem, ItemType, NewSession, Snapshots
<1>3. Queued /\ OnTheirWork /\ Apart /\ LocksOwned /\ Renewed
  BY <1>1, IdleType
  DEF WorkInit, LockInit, Free, NoItem, Drivers, Queued, OnTheirWork, Apart, LocksOwned, Renewed, UnderLock, Working
<1>. QED  BY <1>2, <1>3 DEF LocksInv

\* The owner a run takes locks as.
LEMMA OwnerIsOwner ==
  ASSUME LocksInv, NEW d \in Runs, drv[d].pc # "idle"
  PROVE  OwnerOf(d) \in Owners /\ OwnerOf(d) # NoOwner
<1>1. /\ drv[d].on.job \in Jobs /\ drv[d].on.try \in Nat /\ drv[d].on.try >= 1
      /\ drv[d].on.try <= work[drv[d].on.job].tries
  BY DEF LocksInv, OnTheirWork, WorkShape, DriverType, OnType, Drivers
<1>2. drv[d].on.try \in 1..Budget[drv[d].on.job]
  BY <1>1 DEF LocksInv, WorkShape, ItemType
<1>. QED  BY <1>1, <1>2 DEF OwnerOf

\* What a driver may do without touching a lock.
Quiet(d) ==
  \/ drv'[d].on = drv[d].on /\ drv'[d].pc = drv[d].pc /\ (drv[d].asked => drv'[d].asked)
  \/ drv'[d].pc = "idle" /\ drv'[d].on.lock = 0
  \/ /\ d = User /\ drv'[d].on.lock = 0 /\ drv'[d].pc \in {"loaded", "driving"}
     /\ drv'[d].on.to \in Sessions
  \/ /\ d # User /\ drv[d].pc = "taken" /\ drv'[d].pc = "driving"
     /\ drv'[d].on.job = drv[d].on.job /\ drv'[d].on.try = drv[d].on.try
     /\ drv'[d].on.lock = drv[d].on.lock /\ drv'[d].on.to \in Sessions
  \/ /\ drv'[d].on = drv[d].on
     /\ \/ drv[d].pc = "taken" /\ drv'[d].pc = "admitted"
        \/ drv[d].pc \in {"taken", "admitted"} /\ drv'[d].pc = "ended"
        \/ /\ \/ drv[d].pc = "locked" /\ drv'[d].pc = "loaded"
              \/ drv[d].pc = "loaded" /\ drv'[d].pc = "driving"
           /\ drv[d].asked => drv'[d].asked
        \/ /\ d # User /\ drv[d].pc \in {"taken", "admitted", "locked", "loaded", "driving"}
           /\ drv'[d].pc = "releasing"

\* A run that has let go of its lock is over.
LetsGo(d) ==
  /\ d # User /\ drv[d].pc = "releasing" /\ drv'[d].pc = "ended" /\ drv'[d].on = drv[d].on
  /\ \A k \in LockKeys : locks'[k].owner # OwnerOf(d)

\* A step that grants no lock and counts no attempt.
LEMMA UngrantedKeeps ==
  ASSUME LocksInv, WorkShape', Queued', Renewed', grants' = grants,
         \A k \in LockKeys : locks'[k].owner # NoOwner =>
           locks'[k].owner = locks[k].owner /\ locks'[k].no = locks[k].no,
         \A j \in Jobs : work'[j].tries >= work[j].tries,
         \A d \in Drivers : Quiet(d) \/ LetsGo(d)
  PROVE  LocksInv'
<1>. USE DEF LocksInv
<1>1. /\ \A d \in Drivers : drv[d].on.lock \in Nat /\ drv[d].on.try \in Nat
      /\ \A j \in Jobs : work[j].tries \in Nat /\ work'[j].tries \in Nat
      /\ User \in Drivers /\ \A d \in Runs : d \in Drivers /\ d # User
  BY DEF WorkShape, DriverType, OnType, ItemType, Drivers
<1>2. ASSUME NEW d \in Runs
      PROVE  \/ drv'[d].pc = "idle" /\ drv'[d].on.lock = 0
             \/ /\ drv[d].pc # "idle" /\ drv'[d].pc # "idle"
                /\ drv'[d].on.job = drv[d].on.job /\ drv'[d].on.try = drv[d].on.try
                /\ drv'[d].on.lock = drv[d].on.lock
                /\ drv'[d].on.to = drv[d].on.to \/ drv[d].pc = "taken"
                /\ drv'[d].on.to \in Sessions
  BY <1>1 DEF Quiet, LetsGo, OnTheirWork, To
<1>3. OnTheirWork'
  <2>1. drv'[User].on.lock = 0 /\ drv'[User].pc \in {"idle", "loaded", "driving"}
    BY <1>1 DEF Quiet, LetsGo, OnTheirWork
  <2>2. drv'[User].pc # "idle" => drv'[User].on.to \in Sessions
    BY <1>1 DEF Quiet, LetsGo, OnTheirWork, To
  <2>3. \A d \in Drivers : drv'[d].pc # "idle" => drv'[d].on.to \in Sessions
    BY <1>2, <2>2 DEF Drivers
  <2>4. ASSUME NEW d \in Runs
        PROVE  /\ drv'[d].pc = "idle" => drv'[d].on.lock = 0
               /\ drv'[d].pc # "idle" => /\ drv'[d].on.job \in Jobs /\ drv'[d].on.try >= 1
                                         /\ drv'[d].on.try <= work'[drv'[d].on.job].tries
               /\ drv'[d].on.lock <= grants'
    BY <1>1, <1>2 DEF OnTheirWork, WorkShape, LockTypeOK
  <2>5. ASSUME NEW d \in Runs
        PROVE  /\ drv'[d].pc \in {"taken", "admitted"} => drv'[d].on.lock = 0
               /\ drv'[d].pc \in {"locked", "loaded"} => drv'[d].on.lock # 0
    BY <1>1 DEF Quiet, LetsGo, OnTheirWork
  <2>. QED  BY <2>1, <2>3, <2>4, <2>5 DEF OnTheirWork, To
<1>4. Apart'
  BY <1>1, <1>2 DEF Apart, OwnerOf
<1>5. LocksOwned'
  <2>1. SUFFICES ASSUME NEW k \in LockKeys, locks'[k].owner # NoOwner
                 PROVE  /\ locks'[k].no >= 1 /\ locks'[k].no <= grants'
                        /\ \A j \in Jobs : \A t \in Nat : locks'[k].owner = <<j, t>> => t <= work'[j].tries
                        /\ \A d \in Runs : drv'[d].pc # "idle" /\ locks'[k].owner = OwnerOf(d)' =>
                             /\ k = To(d)' /\ locks'[k].no = drv'[d].on.lock
                             /\ drv'[d].pc \in {"locked", "loaded", "driving", "releasing"}
    BY DEF LocksOwned
  <2>2. locks[k].owner # NoOwner /\ locks'[k].owner = locks[k].owner /\ locks'[k].no = locks[k].no
    BY <2>1
  <2>3. locks'[k].no >= 1 /\ locks'[k].no <= grants'
    BY <2>2 DEF LocksOwned
  <2>4. ASSUME NEW j \in Jobs, NEW t \in Nat, locks'[k].owner = <<j, t>>
        PROVE  t <= work'[j].tries
    <3>1. t <= work[j].tries
      BY <2>2, <2>4 DEF LocksOwned
    <3>. QED  BY <1>1, <3>1
  <2>5. ASSUME NEW d \in Runs, drv'[d].pc # "idle", locks'[k].owner = OwnerOf(d)'
        PROVE  /\ k = To(d)' /\ locks'[k].no = drv'[d].on.lock
               /\ drv'[d].pc \in {"locked", "loaded", "driving", "releasing"}
    <3>1. drv[d].pc # "idle" /\ OwnerOf(d)' = OwnerOf(d) /\ locks[k].owner = OwnerOf(d)
      BY <1>2, <2>2, <2>5 DEF OwnerOf
    <3>2. /\ k = To(d) /\ locks[k].no = drv[d].on.lock
          /\ drv[d].pc \in {"locked", "loaded", "driving", "releasing"}
      BY <2>2, <3>1 DEF LocksOwned
    <3>3. ~LetsGo(d)
      BY <2>5, <3>1 DEF LetsGo
    <3>4. Quiet(d)
      BY <1>1, <3>3
    <3>. QED  BY <1>1, <2>2, <3>2, <3>4, <2>5 DEF Quiet, To
  <2>. QED  BY <2>3, <2>4, <2>5
<1>. QED  BY <1>3, <1>4, <1>5

LEMMA QuietKeeps ==
  ASSUME LocksInv, UNCHANGED <<locks, grants>>, WorkShape', Queued',
         \A j \in Jobs : work'[j].tries >= work[j].tries,
         \A d \in Drivers : Quiet(d)
  PROVE  LocksInv'
<1>. USE DEF LocksInv
<1>1. Renewed'
  <2>1. ASSUME NEW d \in Runs, UnderLock(d)'
        PROVE  UnderLock(d) /\ OwnerOf(d)' = OwnerOf(d) /\ drv'[d].on.lock = drv[d].on.lock /\ To(d)' = To(d)
    <3>1. Quiet(d) /\ d # User
      BY DEF Drivers
    <3>. QED  BY <2>1, <3>1 DEF Quiet, UnderLock, Working, OnTheirWork, OwnerOf, To
  <2>. QED  BY <2>1 DEF Renewed, Usable, Presents
<1>. QED  BY <1>1, UngrantedKeeps

\* Any step of another driver leaves what d works on, and a step of its own moves it.
LEMMA DriverTypes ==
  ASSUME LocksInv
  PROVE  /\ \A d \in Drivers : drv[d] \in DriverType
         /\ \A d \in Drivers : drv[d].on.lock \in Nat /\ drv[d].on.try \in Nat
         /\ \A j \in Jobs : work[j].tries \in Nat
         /\ User \in Drivers /\ \A d \in Runs : d \in Drivers /\ d # User
         /\ \A d \in Drivers : d # User => d \in Runs
BY DEF LocksInv, WorkShape, DriverType, OnType, ItemType, Drivers

\* A new attempt.
LEMMA TakeKeeps ==
  ASSUME LocksInv, NEW d \in Drivers, NEW j \in Jobs, Take(d, j)
  PROVE  LocksInv'
<1>. USE DriverTypes DEF LocksInv
<1>. DEFINE n == work[j].tries + 1
            on == [job |-> j, try |-> n, to |-> SessionOf[j], lock |-> 0]
            conf == IF work[j].kind = "tool_action" THEN "yes" ELSE "unset"
<1>1. /\ drv[d].pc = "idle" /\ d \in Runs /\ work[j].stage = "queued"
      /\ work' = [work EXCEPT ![j].stage = "leased", ![j].tries = @ + 1]
      /\ drv' = [drv EXCEPT ![d] = [Idle EXCEPT !.pc = "taken", !.on = on, !.conf = conf]]
      /\ UNCHANGED <<locks, grants, sess, settled>>
  BY DEF Take
<1>2. /\ work[j] \in ItemType(j) /\ work[j].tries < Budget[j] /\ work[j].kind # "none"
      /\ Budget[j] \in Nat /\ SessionOf[j] \in Sessions
  BY <1>1 DEF WorkShape, Queued
<1>3. n \in 1..Budget[j]
  BY <1>2 DEF ItemType
<1>4. /\ work' = [i \in Jobs |-> work'[i]] /\ \A i \in Jobs : work'[i] \in ItemType(i)
      /\ work'[j].tries = n /\ work'[j].stage = "leased" /\ work'[j].kind = work[j].kind
      /\ \A i \in Jobs \ {j} : work'[i] = work[i]
  <2>1. work' = [i \in Jobs |-> work'[i]] /\ \A i \in Jobs \ {j} : work'[i] = work[i]
    BY <1>1 DEF WorkShape
  <2>2. work'[j] = [work[j] EXCEPT !.stage = "leased", !.tries = n]
    BY <1>1 DEF WorkShape
  <2>3. work'[j] \in ItemType(j)
    <3>1. n \in 0..Budget[j]
      BY <1>3
    <3>. HIDE DEF n
    <3>. QED  BY <1>2, <2>2, <3>1 DEF ItemType
  <2>. QED  BY <1>2, <2>1, <2>2, <2>3 DEF WorkShape, ItemType
<1>5. /\ drv'[d] \in DriverType /\ drv'[d].pc = "taken" /\ drv'[d].on = on
      /\ \A c \in Drivers \ {d} : drv'[c] = drv[c]
      /\ drv' \in [Drivers -> DriverType]
  <2>1. on \in OnType /\ conf \in {"unset", "yes", "no"} /\ "taken" \in Places
    BY <1>2, <1>3 DEF OnType, Places
  <2>. DEFINE new == [Idle EXCEPT !.pc = "taken", !.on = on, !.conf = conf]
  <2>. HIDE DEF on, conf
  <2>2. new \in DriverType /\ new.pc = "taken" /\ new.on = on
    BY <2>1, IdleType DEF DriverType
  <2>3. drv' = [drv EXCEPT ![d] = new]
    BY <1>1
  <2>. HIDE DEF new
  <2>. QED  BY <2>2, <2>3 DEF WorkShape
<1>6. on.job = j /\ on.try = n /\ on.lock = 0 /\ on.to \in Sessions
  BY <1>2
<1>. HIDE DEF on, conf
<1>7. WorkShape' /\ Queued'
  BY <1>1, <1>2, <1>3, <1>4, <1>5 DEF WorkShape, Queued, LockTypeOK
<1>8. \A i \in Jobs : work'[i].tries >= work[i].tries /\ work'[i].tries \in Nat
  BY <1>3, <1>4
<1>9. OnTheirWork'
  <2>1. ASSUME NEW c \in Runs, c # d
        PROVE  /\ drv'[c].pc = "idle" => drv'[c].on.lock = 0
               /\ drv'[c].pc # "idle" => /\ drv'[c].on.job \in Jobs /\ drv'[c].on.try >= 1
                                         /\ drv'[c].on.try <= work'[drv'[c].on.job].tries
               /\ drv'[c].pc \in {"taken", "admitted"} => drv'[c].on.lock = 0
               /\ drv'[c].pc \in {"locked", "loaded"} => drv'[c].on.lock # 0
               /\ drv'[c].on.lock <= grants'
    <3>1. drv'[c] = drv[c] /\ grants' = grants
      BY <1>1, <1>5, <2>1
    <3>2. ASSUME drv[c].pc # "idle"
          PROVE  drv[c].on.job \in Jobs /\ drv[c].on.try >= 1 /\ drv[c].on.try <= work'[drv[c].on.job].tries
      <4>1. drv[c].on.job \in Jobs /\ drv[c].on.try >= 1 /\ drv[c].on.try <= work[drv[c].on.job].tries
        BY <3>2 DEF OnTheirWork
      <4>2. drv[c].on.try \in Nat
        OBVIOUS
      <4>. QED  BY <1>8, <4>1, <4>2
    <3>. QED  BY <3>1, <3>2 DEF OnTheirWork
  <2>2. /\ drv'[d].pc = "taken" /\ drv'[d].on.lock = 0 /\ drv'[d].on.job \in Jobs
        /\ drv'[d].on.try >= 1 /\ drv'[d].on.try <= work'[j].tries /\ drv'[d].on.job = j
        /\ drv'[d].on.lock <= grants'
    BY <1>1, <1>3, <1>4, <1>5, <1>6 DEF WorkShape, LockTypeOK
  <2>3. \A c \in Drivers : drv'[c].pc # "idle" => drv'[c].on.to \in Sessions
    BY <1>5, <1>6 DEF OnTheirWork, To
  <2>4. drv'[User].on.lock = 0 /\ drv'[User].pc \in {"idle", "loaded", "driving"}
    BY <1>1, <1>5 DEF OnTheirWork
  <2>. QED  BY <2>1, <2>2, <2>3, <2>4 DEF OnTheirWork, To
<1>10. ASSUME NEW c \in Runs, c # d, drv[c].pc # "idle"
       PROVE  OwnerOf(c)' = OwnerOf(c) /\ OwnerOf(c) # OwnerOf(d)'
  <2>1. OwnerOf(c)' = OwnerOf(c)
    BY <1>5, <1>10 DEF OwnerOf
  <2>2. drv[c].on.job = j => drv[c].on.try < n
    BY <1>3, <1>10 DEF OnTheirWork
  <2>. QED  BY <1>3, <1>5, <1>6, <2>1, <2>2 DEF OwnerOf
<1>11. Apart'
  <2>1. \A c \in Runs : c # d => drv'[c].pc = drv[c].pc /\ drv'[c].on.lock = drv[c].on.lock
    BY <1>5
  <2>2. \A b, c \in Runs : b # c /\ drv'[b].on.lock # 0 => drv'[b].on.lock # drv'[c].on.lock
    BY <1>5, <1>6, <2>1 DEF Apart
  <2>3. \A b, c \in Runs : b # c /\ b # d /\ c # d /\ drv'[b].pc # "idle" /\ drv'[c].pc # "idle"
          => OwnerOf(b)' # OwnerOf(c)'
    BY <1>10, <2>1 DEF Apart
  <2>4. \A c \in Runs : c # d /\ drv'[c].pc # "idle" => OwnerOf(c)' # OwnerOf(d)'
    BY <1>10, <2>1
  <2>. QED  BY <2>2, <2>3, <2>4 DEF Apart
<1>12. LocksOwned'
  <2>1. SUFFICES ASSUME NEW k \in LockKeys, locks[k].owner # NoOwner
                 PROVE  /\ locks[k].no >= 1 /\ locks[k].no <= grants
                        /\ \A i \in Jobs : \A t \in Nat : locks[k].owner = <<i, t>> => t <= work'[i].tries
                        /\ \A c \in Runs : drv'[c].pc # "idle" /\ locks[k].owner = OwnerOf(c)' =>
                             /\ k = To(c)' /\ locks[k].no = drv'[c].on.lock
                             /\ drv'[c].pc \in {"locked", "loaded", "driving", "releasing"}
    BY <1>1, ZenonT(60) DEF LocksOwned
  <2>2. /\ locks[k].no >= 1 /\ locks[k].no <= grants
        /\ \A i \in Jobs : \A t \in Nat : locks[k].owner = <<i, t>> => t <= work[i].tries
    BY <2>1 DEF LocksOwned
  <2>3. ASSUME NEW i \in Jobs, NEW t \in Nat, locks[k].owner = <<i, t>>
        PROVE  t <= work'[i].tries
    <3>1. t <= work[i].tries
      BY <2>2, <2>3
    <3>. QED  BY <1>8, <3>1
  <2>4. locks[k].owner # OwnerOf(d)'
    <3>1. OwnerOf(d)' = <<j, n>>
      BY <1>5, <1>6 DEF OwnerOf
    <3>2. ~(n <= work[j].tries) /\ n \in Nat
      BY <1>3
    <3>. QED  BY <2>2, <3>1, <3>2
  <2>5. ASSUME NEW c \in Runs, drv'[c].pc # "idle", locks[k].owner = OwnerOf(c)'
        PROVE  /\ k = To(c)' /\ locks[k].no = drv'[c].on.lock
               /\ drv'[c].pc \in {"locked", "loaded", "driving", "releasing"}
    <3>1. c # d
      BY <2>4, <2>5
    <3>2. drv'[c] = drv[c]
      BY <1>5, <3>1
    <3>3. drv[c].pc # "idle" /\ locks[k].owner = OwnerOf(c)
      BY <2>5, <3>2 DEF OwnerOf
    <3>4. /\ k = To(c) /\ locks[k].no = drv[c].on.lock
          /\ drv[c].pc \in {"locked", "loaded", "driving", "releasing"}
      BY <2>1, <3>3 DEF LocksOwned
    <3>. QED  BY <3>2, <3>4 DEF To
  <2>. QED  BY <2>2, <2>3, <2>5
<1>13. Renewed'
  <2>1. ASSUME NEW c \in Runs, UnderLock(c)'
        PROVE  UnderLock(c) /\ OwnerOf(c)' = OwnerOf(c) /\ drv'[c].on.lock = drv[c].on.lock /\ To(c)' = To(c)
    <3>1. c # d
      BY <1>5, <2>1 DEF UnderLock, Working
    <3>. QED  BY <1>5, <2>1, <3>1 DEF UnderLock, Working, OwnerOf, To
  <2>. QED  BY <1>1, <2>1 DEF Renewed, Usable, Presents
<1>. QED  BY <1>7, <1>9, <1>11, <1>12, <1>13

\* The sweep, and any step that frees locks whose lease has run out.
LEMMA Sweeping ==
  ASSUME LocksInv
  PROVE  /\ AfterSweep \in [LockKeys -> LockType]
         /\ \A k \in LockKeys : AfterSweep[k] = Free \/ AfterSweep[k] = locks[k]
         /\ \A k \in LockKeys : locks[k].left > 0 => AfterSweep[k] = locks[k]
<1>1. \A k \in LockKeys : locks[k] \in LockType
  BY DEF LocksInv, WorkShape, LockTypeOK
<1>2. Free \in LockType
  BY DEF Free, LockType
<1>. QED  BY <1>1, <1>2 DEF AfterSweep, Swept, LockType

\* Drivers that change nothing but the place they are at.
LEMMA PlaceType ==
  ASSUME LocksInv, NEW d \in Drivers, NEW place \in Places, Goes(d, place)
  PROVE  /\ drv' \in [Drivers -> DriverType] /\ drv'[d].pc = place /\ drv'[d].on = drv[d].on
         /\ drv'[d].did = drv[d].did /\ drv'[d].act = drv[d].act
         /\ drv'[d].result = drv[d].result
         /\ \A c \in Drivers \ {d} : drv'[c] = drv[c]
<1>. DEFINE new == [drv[d] EXCEPT !.pc = place]
<1>1. drv[d] \in DriverType
  BY DriverTypes
<1>2. /\ new \in DriverType /\ new.pc = place /\ new.on = drv[d].on
      /\ new.did = drv[d].did /\ new.act = drv[d].act /\ new.result = drv[d].result
  BY <1>1 DEF DriverType
<1>3. drv' = [drv EXCEPT ![d] = new]
  BY DEF Goes
<1>4. drv \in [Drivers -> DriverType]
  BY DEF LocksInv, WorkShape
<1>. HIDE DEF new
<1>5. drv' \in [Drivers -> DriverType]
  BY <1>2, <1>3, <1>4
<1>6. drv'[d] = new /\ \A c \in Drivers \ {d} : drv'[c] = drv[c]
  BY <1>3, <1>4
<1>. QED  BY <1>2, <1>5, <1>6

LEMMA GetsType ==
  ASSUME LocksInv, NEW d \in Runs, NEW place \in Places, NEW result \in Results,
         Gets(d, place, result)
  PROVE  /\ drv' \in [Drivers -> DriverType] /\ drv'[d].pc = place /\ drv'[d].on = drv[d].on
         /\ drv'[d].did = drv[d].did /\ drv'[d].act = drv[d].act
         /\ drv'[d].result \in {result, "retry"}
         /\ \A c \in Drivers \ {d} : drv'[c] = drv[c]
<1>1. d # User /\ d \in Drivers
  BY DriverTypes
<1>. DEFINE left == IF drv[d].asked THEN "retry" ELSE result
            new == [drv[d] EXCEPT !.pc = place, !.asked = FALSE, !.result = left]
<1>2. drv' = [drv EXCEPT ![d] = new]
  BY <1>1 DEF Gets, Left
<1>3. drv[d] \in DriverType /\ left \in Results /\ left \in {result, "retry"}
  BY <1>1, DriverTypes DEF Results
<1>. HIDE DEF left
<1>4. /\ new \in DriverType /\ new.pc = place /\ new.on = drv[d].on
      /\ new.did = drv[d].did /\ new.act = drv[d].act /\ new.result = left
  BY <1>3 DEF DriverType
<1>5. drv \in [Drivers -> DriverType] /\ drv' = [drv EXCEPT ![d] = new]
  BY <1>2 DEF LocksInv, WorkShape
<1>. HIDE DEF new
<1>. QED  BY <1>1, <1>3, <1>4, <1>5

\* A cancelled handler goes on as it was.
LEMMA CancelsType ==
  ASSUME LocksInv, NEW d \in Drivers, Cancels(d)
  PROVE  /\ drv' \in [Drivers -> DriverType]
         /\ drv'[d].pc = drv[d].pc /\ drv'[d].on = drv[d].on /\ drv'[d].act = drv[d].act
         /\ drv'[d].did = drv[d].did /\ drv'[d].fresh = drv[d].fresh
         /\ drv'[d].result = drv[d].result /\ drv'[d].asked
         /\ \A c \in Drivers \ {d} : drv'[c] = drv[c]
<1>. DEFINE new == [drv[d] EXCEPT !.asked = TRUE]
<1>1. drv[d] \in DriverType /\ drv \in [Drivers -> DriverType]
  BY DriverTypes DEF LocksInv, WorkShape
<1>2. /\ new \in DriverType /\ new.pc = drv[d].pc /\ new.on = drv[d].on /\ new.act = drv[d].act
      /\ new.did = drv[d].did /\ new.fresh = drv[d].fresh /\ new.result = drv[d].result /\ new.asked
  BY <1>1 DEF DriverType
<1>3. drv' = [drv EXCEPT ![d] = new]
  BY DEF Cancels
<1>. HIDE DEF new
<1>. QED  BY <1>1, <1>2, <1>3

LEMMA BeatLockKeeps ==
  ASSUME LocksInv, NEW d \in Drivers, BeatLock(d)
  PROVE  LocksInv'
<1>. USE DriverTypes DEF LocksInv
<1>1. /\ d \in Runs /\ drv[d].on.lock # 0 /\ drv[d].pc \in {"locked", "loaded", "driving"}
      /\ UNCHANGED <<work, sess, settled>>
  BY DEF BeatLock, UnderLock, Working, OnTheirWork
<1>2. CASE HeartbeatLock(OwnerOf(d), drv[d].on.lock, To(d)) /\ UNCHANGED drv
  <2>1. To(d) \in LockKeys /\ locks[To(d)].left > 0
    BY <1>1, <1>2 DEF OnTheirWork, Sessions, HeartbeatLock, Usable
  <2>2. /\ locks' \in [LockKeys -> LockType] /\ grants' = grants
        /\ \A k \in LockKeys : /\ locks'[k].owner = locks[k].owner /\ locks'[k].no = locks[k].no
                               /\ locks[k].left > 0 => locks'[k].left > 0
    BY <1>2, <2>1, SMTT(30) DEF HeartbeatLock, WorkShape, LockTypeOK, LockType
  <2>3. WorkShape' /\ Queued'
    BY <1>1, <1>2, <2>2 DEF WorkShape, LockTypeOK, Queued
  <2>4. Renewed'
    <3>1. ASSUME NEW c \in Runs, UnderLock(c)
          PROVE  To(c) \in LockKeys
      BY <3>1 DEF UnderLock, Working, OnTheirWork, Sessions
    <3>. QED  BY <1>2, <2>2, <3>1 DEF Renewed, UnderLock, Working, Usable, Presents, OwnerOf, To
  <2>. QED  BY <1>1, <1>2, <2>2, <2>3, <2>4, UngrantedKeeps DEF Quiet
<1>3. CASE LockLost(OwnerOf(d), drv[d].on.lock) /\ Cancels(d)
  <2>1. /\ drv' \in [Drivers -> DriverType] /\ drv'[d].pc = drv[d].pc /\ drv'[d].on = drv[d].on
        /\ drv'[d].asked /\ \A c \in Drivers \ {d} : drv'[c] = drv[c]
    BY <1>3, CancelsType
  <2>2. grants' = grants /\ (locks' = AfterSweep \/ locks' = locks)
    BY <1>3 DEF LockLost
  <2>3. /\ locks' \in [LockKeys -> LockType]
        /\ \A k \in LockKeys : locks'[k] = Free \/ locks'[k] = locks[k]
        /\ \A k \in LockKeys : locks[k].left > 0 => locks'[k] = locks[k]
    BY <2>2, Sweeping DEF WorkShape, LockTypeOK
  <2>4. WorkShape' /\ Queued'
    BY <1>1, <2>1, <2>2, <2>3 DEF WorkShape, LockTypeOK, Queued
  <2>5. Renewed'
    <3>1. ASSUME NEW c \in Runs, UnderLock(c)', PunctualLocks
          PROVE  Usable(OwnerOf(c), drv[c].on.lock, To(c))' /\ drv'[c] = drv[c]
      <4>1. c # d
        BY <2>1, <3>1 DEF UnderLock, Working
      <4>2. drv'[c] = drv[c]
        BY <2>1, <4>1
      <4>3. UnderLock(c) /\ To(c) \in LockKeys
        BY <3>1, <4>2 DEF UnderLock, Working, OnTheirWork, Sessions
      <4>4. Usable(OwnerOf(c), drv[c].on.lock, To(c))
        BY <3>1, <4>3 DEF Renewed
      <4>. QED  BY <2>3, <4>2, <4>3, <4>4 DEF Usable, Presents, OwnerOf, To
    <3>. QED  BY <3>1 DEF Renewed
  <2>6. \A c \in Drivers : Quiet(c)
    BY <1>1, <2>1 DEF Quiet
  <2>7. \A k \in LockKeys : locks'[k].owner # NoOwner =>
          locks'[k].owner = locks[k].owner /\ locks'[k].no = locks[k].no
    BY <2>3 DEF Free
  <2>. QED  BY <1>1, <2>2, <2>4, <2>5, <2>6, <2>7, UngrantedKeeps
<1>. QED  BY <1>2, <1>3 DEF BeatLock

LEMMA ReleaseKeeps ==
  ASSUME LocksInv, NEW d \in Drivers, ReleaseSession(d)
  PROVE  LocksInv'
<1>. USE DriverTypes DEF LocksInv
<1>1. d \in Runs /\ drv[d].pc = "releasing" /\ UNCHANGED <<work, sess, settled>>
  BY DEF ReleaseSession, OnTheirWork
<1>2. /\ drv' \in [Drivers -> DriverType] /\ drv'[d].pc = "ended" /\ drv'[d].on = drv[d].on
      /\ \A c \in Drivers \ {d} : drv'[c] = drv[c]
  BY PlaceType DEF ReleaseSession, Places
<1>3. OwnerOf(d) # NoOwner
  BY <1>1, OwnerIsOwner
<1>4. \A k \in LockKeys : locks[k].owner = OwnerOf(d) => k = To(d) /\ locks[k].no = drv[d].on.lock /\ locks[k].no >= 1
  BY <1>1, <1>3 DEF LocksOwned
\* No lock of the run is left, and no lock is touched that somebody else can use.
<1>5. /\ locks' \in [LockKeys -> LockType] /\ grants' = grants
      /\ \A k \in LockKeys : locks'[k] = Free \/ locks'[k] = locks[k]
      /\ \A k \in LockKeys : locks'[k].owner # OwnerOf(d)
      /\ \A k \in LockKeys : locks[k].left > 0 /\ locks[k].no # drv[d].on.lock => locks'[k] = locks[k]
  <2>0. Free \in LockType /\ Free.owner = NoOwner
    BY DEF Free, LockType
  <2>1. CASE drv[d].on.lock = 0
    <3>1. locks' = locks /\ grants' = grants
      BY <2>1 DEF ReleaseSession
    <3>. QED  BY <1>4, <2>1, <3>1 DEF WorkShape, LockTypeOK
  <2>2. CASE Release(OwnerOf(d), drv[d].on.lock, To(d))
    <3>1. /\ locks' = [locks EXCEPT ![To(d)] = Free] /\ grants' = grants
          /\ To(d) \in LockKeys /\ locks[To(d)].no = drv[d].on.lock
      BY <1>1, <2>2 DEF Release, Usable, Presents, OnTheirWork, Sessions
    <3>2. /\ locks' \in [LockKeys -> LockType] /\ locks'[To(d)] = Free
          /\ \A k \in LockKeys \ {To(d)} : locks'[k] = locks[k]
      BY <2>0, <3>1 DEF WorkShape, LockTypeOK
    <3>. QED  BY <1>3, <1>4, <2>0, <3>1, <3>2
  <2>3. CASE LockLost(OwnerOf(d), drv[d].on.lock)
    <3>1. grants' = grants /\ (locks' = AfterSweep \/ locks' = locks)
      BY <2>3 DEF LockLost
    <3>2. ASSUME NEW k \in LockKeys
          PROVE  locks'[k].owner # OwnerOf(d)
      <4>1. CASE locks[k].owner # OwnerOf(d)
        BY <1>3, <2>0, <3>1, <4>1, Sweeping
      <4>2. CASE locks[k].owner = OwnerOf(d)
        <5>1. Presents(OwnerOf(d), drv[d].on.lock, k)
          BY <1>4, <4>2 DEF Presents
        <5>2. locks[k].left = 0 /\ locks' = AfterSweep
          BY <2>3, <5>1 DEF LockLost, Usable, WorkShape, LockTypeOK, LockType
        <5>. QED  BY <1>3, <2>0, <5>2 DEF AfterSweep, Swept
      <4>. QED  BY <4>1, <4>2
    <3>. QED  BY <3>1, <3>2, Sweeping DEF WorkShape, LockTypeOK
  <2>. QED  BY <2>1, <2>2, <2>3 DEF ReleaseSession
<1>6. WorkShape' /\ Queued'
  BY <1>1, <1>2, <1>5 DEF WorkShape, LockTypeOK, Queued
<1>7. Renewed'
  <2>1. ASSUME NEW c \in Runs, UnderLock(c)', PunctualLocks
        PROVE  Usable(OwnerOf(c), drv[c].on.lock, To(c))'
    <3>1. c # d
      BY <1>2, <2>1 DEF UnderLock, Working
    <3>2. drv'[c] = drv[c]
      BY <1>2, <3>1
    <3>3. UnderLock(c) /\ To(c) \in LockKeys /\ drv[c].on.lock # 0
      BY <2>1, <3>2 DEF UnderLock, Working, OnTheirWork, Sessions
    <3>4. Usable(OwnerOf(c), drv[c].on.lock, To(c)) /\ drv[c].on.lock # drv[d].on.lock
      BY <1>1, <2>1, <3>1, <3>3 DEF Renewed, Apart
    <3>. QED  BY <1>5, <3>2, <3>3, <3>4 DEF Usable, Presents, OwnerOf, To
  <2>. QED  BY <2>1 DEF Renewed
<1>8. \A c \in Drivers : Quiet(c) \/ LetsGo(c)
  BY <1>1, <1>2, <1>5 DEF Quiet, LetsGo
<1>9. \A k \in LockKeys : locks'[k].owner # NoOwner =>
        locks'[k].owner = locks[k].owner /\ locks'[k].no = locks[k].no
  BY <1>5 DEF Free
<1>. QED  BY <1>1, <1>5, <1>6, <1>7, <1>8, <1>9, UngrantedKeeps

LEMMA TimeKeeps ==
  ASSUME LocksInv, Time
  PROVE  LocksInv'
<1>. USE DriverTypes DEF LocksInv
<1>1. UNCHANGED <<work, sess, drv, settled>> /\ (PunctualLocks => LocksInTime)
  BY DEF Time
<1>2. CASE ExpireLocks
  <2>1. locks' = AfterSweep /\ grants' = grants
    BY <1>2 DEF ExpireLocks
  <2>2. WorkShape' /\ Queued'
    BY <1>1, <2>1, Sweeping DEF WorkShape, LockTypeOK, Queued
  <2>3. Renewed'
    <3>1. \A c \in Runs : UnderLock(c) => To(c) \in LockKeys
      BY DEF UnderLock, Working, OnTheirWork, Sessions
    <3>. QED  BY <1>1, <2>1, <3>1, Sweeping DEF Renewed, UnderLock, Working, Usable, Presents, OwnerOf, To
  <2>4. \A k \in LockKeys : locks'[k].owner # NoOwner =>
          locks'[k].owner = locks[k].owner /\ locks'[k].no = locks[k].no
    BY <2>1, Sweeping DEF Free
  <2>. QED  BY <1>1, <2>1, <2>2, <2>3, <2>4, UngrantedKeeps DEF Quiet
<1>3. CASE LockTick
  <2>1. \A k \in LockKeys : /\ locks[k] \in LockType
                            /\ locks'[k] = [locks[k] EXCEPT !.left = IF locks[k].left > 0
                                                              THEN locks[k].left - 1 ELSE 0]
    BY <1>3 DEF LockTick, WorkShape, LockTypeOK
  <2>2. \A k \in LockKeys : /\ locks'[k] \in LockType
                            /\ locks'[k].owner = locks[k].owner /\ locks'[k].no = locks[k].no
                            /\ locks[k].left > 1 => locks'[k].left > 0
    <3>1. SUFFICES ASSUME NEW k \in LockKeys
                   PROVE  /\ locks'[k] \in LockType
                          /\ locks'[k].owner = locks[k].owner /\ locks'[k].no = locks[k].no
                          /\ locks[k].left > 1 => locks'[k].left > 0
      OBVIOUS
    <3>. DEFINE left == IF locks[k].left > 0 THEN locks[k].left - 1 ELSE 0
    <3>2. locks[k] \in LockType /\ locks'[k] = [locks[k] EXCEPT !.left = left]
      BY <2>1
    <3>3. left \in Nat /\ (locks[k].left > 1 => left > 0)
      BY <3>2 DEF LockType
    <3>. HIDE DEF left
    <3>. QED  BY <3>2, <3>3 DEF LockType
  <2>3. locks' \in [LockKeys -> LockType] /\ grants' = grants
    BY <1>3, <2>2 DEF LockTick
  <2>4. WorkShape' /\ Queued'
    BY <1>1, <2>3 DEF WorkShape, LockTypeOK, Queued
  <2>5. Renewed'
    <3>1. \A c \in Runs : UnderLock(c) => To(c) \in LockKeys
      BY DEF UnderLock, Working, OnTheirWork, Sessions
    <3>2. PunctualLocks => \A c \in Runs : UnderLock(c) => locks[To(c)].left > 1
      BY <1>1 DEF Renewed, LocksInTime
    <3>. QED  BY <1>1, <2>2, <3>1, <3>2 DEF Renewed, UnderLock, Working, Usable, Presents, OwnerOf, To
  <2>. QED  BY <1>1, <2>2, <2>3, <2>4, <2>5, UngrantedKeeps DEF Quiet
<1>. QED  BY <1>2, <1>3 DEF Time

LEMMA LockSessionKeeps ==
  ASSUME LocksInv, NEW d \in Drivers, LockSession(d)
  PROVE  LocksInv'
<1>. USE DriverTypes DEF LocksInv
<1>1. /\ drv[d].pc = "admitted" /\ d \in Runs /\ drv[d].on.lock = 0
      /\ To(d) \in LockKeys /\ UNCHANGED <<work, sess, settled>>
  BY DEF LockSession, OnTheirWork, Sessions
<1>2. CASE AcquireConflict(OwnerOf(d), To(d)) /\ Gets(d, "ended", "retry")
  <2>1. /\ drv' \in [Drivers -> DriverType] /\ drv'[d].pc = "ended" /\ drv'[d].on = drv[d].on
        /\ \A c \in Drivers \ {d} : drv'[c] = drv[c]
    BY <1>1, <1>2, GetsType DEF Places, Results
  <2>2. grants' = grants /\ locks' = AfterSweep
    BY <1>2 DEF AcquireConflict
  <2>3. WorkShape' /\ Queued'
    BY <1>1, <2>1, <2>2, Sweeping DEF WorkShape, LockTypeOK, Queued
  <2>4. Renewed'
    <3>1. ASSUME NEW c \in Runs, UnderLock(c)', PunctualLocks
          PROVE  Usable(OwnerOf(c), drv[c].on.lock, To(c))'
      <4>1. c # d
        BY <2>1, <3>1 DEF UnderLock, Working
      <4>2. drv'[c] = drv[c]
        BY <2>1, <4>1
      <4>3. UnderLock(c) /\ To(c) \in LockKeys
        BY <3>1, <4>2 DEF UnderLock, Working, OnTheirWork, Sessions
      <4>4. Usable(OwnerOf(c), drv[c].on.lock, To(c))
        BY <3>1, <4>3 DEF Renewed
      <4>. QED  BY <2>2, <4>2, <4>3, <4>4, Sweeping DEF Usable, Presents, OwnerOf, To
    <3>. QED  BY <3>1 DEF Renewed
  <2>5. \A c \in Drivers : Quiet(c)
    BY <1>1, <2>1 DEF Quiet
  <2>6. \A k \in LockKeys : locks'[k].owner # NoOwner =>
          locks'[k].owner = locks[k].owner /\ locks'[k].no = locks[k].no
    BY <2>2, Sweeping DEF Free
  <2>. QED  BY <1>1, <2>2, <2>3, <2>4, <2>5, <2>6, UngrantedKeeps
<1>3. CASE /\ AcquireFree(OwnerOf(d), To(d))
           /\ drv' = [drv EXCEPT ![d].pc = "locked", ![d].on.lock = NextGrant]
  <2>. DEFINE new == [owner |-> OwnerOf(d), no |-> grants + 1, left |-> LockTTL]
              key == To(d)
  <2>1. /\ locks' = [AfterSweep EXCEPT ![key] = new] /\ grants' = grants + 1
        /\ AfterSweep[key] = Free
    BY <1>3 DEF AcquireFree, NextGrant
  <2>2. grants \in Nat /\ OwnerOf(d) \in Owners /\ OwnerOf(d) # NoOwner
    BY <1>1, OwnerIsOwner DEF WorkShape, LockTypeOK
  <2>3. new \in LockType /\ new.owner = OwnerOf(d) /\ new.no = grants + 1 /\ new.left > 0
    BY <2>2 DEF LockType
  <2>4. key \in LockKeys
    BY <1>1
  <2>. HIDE DEF new
  <2>5. /\ locks' \in [LockKeys -> LockType] /\ locks'[key] = new
        /\ \A k \in LockKeys \ {key} : locks'[k] = Free \/ locks'[k] = locks[k]
        /\ \A k \in LockKeys \ {key} : locks[k].left > 0 => locks'[k] = locks[k]
    <3>. HIDE DEF key
    <3>. QED  BY <2>1, <2>3, <2>4, Sweeping
  <2>6. /\ drv' \in [Drivers -> DriverType] /\ drv'[d].pc = "locked" /\ drv'[d].on.lock = grants + 1
        /\ drv'[d].on.job = drv[d].on.job /\ drv'[d].on.try = drv[d].on.try /\ drv'[d].on.to = key
        /\ \A c \in Drivers \ {d} : drv'[c] = drv[c]
    <3>. DEFINE on == [drv[d].on EXCEPT !.lock = grants + 1]
                moved == [drv[d] EXCEPT !.pc = "locked", !.on = on]
    <3>1. drv[d] \in DriverType /\ drv[d].on \in OnType /\ grants + 1 \in Nat /\ "locked" \in Places
      BY <2>2 DEF DriverType, Places
    <3>2. /\ on \in OnType /\ on.lock = grants + 1 /\ on.job = drv[d].on.job
          /\ on.try = drv[d].on.try /\ on.to = drv[d].on.to
      BY <3>1 DEF OnType
    <3>. HIDE DEF on
    <3>3. moved \in DriverType /\ moved.pc = "locked" /\ moved.on = on
      BY <3>1, <3>2 DEF DriverType
    <3>4. drv' = [drv EXCEPT ![d] = moved]
      BY <1>3, ZenonT(60) DEF on, NextGrant
    <3>5. drv \in [Drivers -> DriverType]
      BY DEF WorkShape
    <3>. HIDE DEF moved
    <3>6. drv' \in [Drivers -> DriverType] /\ drv'[d] = moved /\ \A c \in Drivers \ {d} : drv'[c] = drv[c]
      BY <3>3, <3>4, <3>5
    <3>. QED  BY <3>2, <3>3, <3>6 DEF To
  <2>7. WorkShape' /\ Queued'
    BY <1>1, <2>1, <2>2, <2>5, <2>6 DEF WorkShape, LockTypeOK, Queued
  <2>8. OnTheirWork'
    <3>1. \A c \in Drivers : drv'[c].on.job = drv[c].on.job /\ drv'[c].on.try = drv[c].on.try
                             /\ drv'[c].on.to = drv[c].on.to
      BY <2>6 DEF To
    <3>2. \A c \in Runs : drv[c].on.lock <= grants /\ drv[c].on.lock \in Nat
      BY DEF OnTheirWork
    <3>3. \A c \in Runs : drv'[c].on.lock <= grants'
      BY <2>1, <2>2, <2>6, <3>2
    <3>4. ASSUME NEW c \in Runs
          PROVE  /\ drv'[c].pc = "idle" => drv'[c].on.lock = 0
                 /\ drv'[c].pc # "idle" => /\ drv'[c].on.job \in Jobs /\ drv'[c].on.try >= 1
                                           /\ drv'[c].on.try <= work'[drv'[c].on.job].tries
                 /\ drv'[c].pc \in {"taken", "admitted"} => drv'[c].on.lock = 0
                 /\ drv'[c].pc \in {"locked", "loaded"} => drv'[c].on.lock # 0
      <4>1. CASE c = d
        BY <1>1, <2>2, <2>6, <4>1 DEF OnTheirWork
      <4>2. CASE c # d
        BY <1>1, <2>6, <4>2 DEF OnTheirWork
      <4>. QED  BY <4>1, <4>2
    <3>5. drv'[User] = drv[User]
      BY <1>1, <2>6
    <3>6. \A c \in Drivers : drv'[c].pc # "idle" => drv'[c].on.to \in Sessions
      BY <1>1, <2>6, <3>1 DEF OnTheirWork, To
    <3>. QED  BY <3>3, <3>4, <3>5, <3>6 DEF OnTheirWork, To
  <2>9. \A c \in Runs : OwnerOf(c)' = OwnerOf(c) /\ (drv'[c].pc = "idle" <=> drv[c].pc = "idle")
    BY <1>1, <2>6 DEF OwnerOf
  <2>10. Apart'
    <3>1. \A c \in Runs : drv[c].on.lock < grants + 1
      BY <2>2 DEF OnTheirWork
    <3>. QED  BY <2>2, <2>6, <2>9, <3>1 DEF Apart
  <2>11. LocksOwned'
    <3>1. ASSUME NEW k \in LockKeys, locks'[k].owner # NoOwner
          PROVE  /\ locks'[k].no >= 1 /\ locks'[k].no <= grants'
                 /\ \A j \in Jobs : \A t \in Nat : locks'[k].owner = <<j, t>> => t <= work'[j].tries
                 /\ \A c \in Runs : drv'[c].pc # "idle" /\ locks'[k].owner = OwnerOf(c)' =>
                      /\ k = To(c)' /\ locks'[k].no = drv'[c].on.lock
                      /\ drv'[c].pc \in {"locked", "loaded", "driving", "releasing"}
      <4>1. CASE k = key
        <5>1. locks'[k].owner = OwnerOf(d) /\ locks'[k].no = grants + 1
          BY <2>3, <2>5, <4>1
        <5>2. \A j \in Jobs : \A t \in Nat : OwnerOf(d) = <<j, t>> => t <= work[j].tries
          BY <1>1 DEF OnTheirWork, OwnerOf
        <5>3. \A c \in Runs : drv'[c].pc # "idle" /\ OwnerOf(d) = OwnerOf(c)' => c = d
          BY <1>1, <2>9 DEF Apart
        <5>4. k = To(d)' /\ drv'[d].on.lock = grants + 1 /\ drv'[d].pc = "locked"
          BY <2>6, <4>1 DEF To
        <5>. QED  BY <1>1, <2>1, <2>2, <5>1, <5>2, <5>3, <5>4
      <4>2. CASE k # key
        <5>1. locks'[k] = locks[k] /\ locks[k].owner # NoOwner
          BY <2>5, <3>1, <4>2 DEF Free
        <5>2. locks[k].no >= 1 /\ locks[k].no <= grants /\ locks[k].no \in Nat
          BY <5>1 DEF LocksOwned, WorkShape, LockTypeOK, LockType
        <5>3. \A j \in Jobs : \A t \in Nat : locks[k].owner = <<j, t>> => t <= work[j].tries
          BY <5>1 DEF LocksOwned
        <5>4. locks[k].owner # OwnerOf(d)
          BY <1>1, <5>1 DEF LocksOwned
        <5>5. ASSUME NEW c \in Runs, drv'[c].pc # "idle", locks[k].owner = OwnerOf(c)'
              PROVE  /\ k = To(c)' /\ locks[k].no = drv'[c].on.lock
                     /\ drv'[c].pc \in {"locked", "loaded", "driving", "releasing"}
          <6>1. c # d /\ drv[c].pc # "idle" /\ locks[k].owner = OwnerOf(c)
            BY <2>9, <5>4, <5>5
          <6>2. drv'[c] = drv[c]
            BY <2>6, <6>1
          <6>3. /\ k = To(c) /\ locks[k].no = drv[c].on.lock
                /\ drv[c].pc \in {"locked", "loaded", "driving", "releasing"}
            BY <5>1, <6>1 DEF LocksOwned
          <6>. QED  BY <6>2, <6>3 DEF To
        <5>. QED  BY <1>1, <2>1, <2>2, <5>1, <5>2, <5>3, <5>5
      <4>. QED  BY <4>1, <4>2
    <3>. QED  BY <3>1 DEF LocksOwned
  <2>12. Renewed'
    <3>1. ASSUME NEW c \in Runs, UnderLock(c)', PunctualLocks
          PROVE  Usable(OwnerOf(c), drv[c].on.lock, To(c))'
      <4>1. CASE c = d
        <5>1. To(c)' = key /\ OwnerOf(c)' = OwnerOf(d) /\ drv'[c].on.lock = grants + 1
          BY <2>6, <2>9, <4>1 DEF To
        <5>. QED  BY <2>3, <2>5, <5>1 DEF Usable, Presents
      <4>2. CASE c # d
        <5>1. drv'[c] = drv[c]
          BY <2>6, <4>2
        <5>2. UnderLock(c) /\ To(c) \in LockKeys
          BY <3>1, <5>1 DEF UnderLock, Working, OnTheirWork, Sessions
        <5>3. Usable(OwnerOf(c), drv[c].on.lock, To(c))
          BY <3>1, <5>2 DEF Renewed
        <5>4. To(c) # key
          <6>1. AfterSweep[To(c)] = locks[To(c)] /\ locks[To(c)].left > 0
            BY <5>2, <5>3, Sweeping DEF Usable
          <6>. QED  BY <2>1, <6>1 DEF Free
        <5>. QED  BY <2>5, <5>1, <5>2, <5>3, <5>4 DEF Usable, Presents, OwnerOf, To
      <4>. QED  BY <4>1, <4>2
    <3>. QED  BY <3>1 DEF Renewed
  <2>. QED  BY <2>7, <2>8, <2>10, <2>11, <2>12
<1>. QED  BY <1>2, <1>3 DEF LockSession

-----------------------------------------------------------------------------
(* The steps that touch no lock.                                             *)

\* A commit by d, and what becomes of the other drivers of the session.
LEMMA CommitsType ==
  ASSUME LocksInv, NEW d \in Drivers, To(d) \in Sessions, NEW m \in Snapshots,
         NEW next \in DriverType, Commits(d, m, next)
  PROVE  /\ drv' \in [Drivers -> DriverType] /\ drv'[d] = next
         /\ \A c \in Drivers \ {d} : /\ drv'[c].pc = drv[c].pc /\ drv'[c].on = drv[c].on
                                     /\ drv'[c].act = drv[c].act /\ drv'[c].did = drv[c].did
                                     /\ drv'[c].result = drv[c].result /\ drv'[c].asked = drv[c].asked
                                     /\ drv'[c].fresh => drv[c].fresh /\ To(c) # To(d)
         /\ sess' \in [Sessions -> Snapshots] /\ sess'[To(d)] = m
         /\ \A s \in Sessions \ {To(d)} : sess'[s] = sess[s]
<1>1. drv \in [Drivers -> DriverType] /\ sess \in [Sessions -> Snapshots]
  BY DEF LocksInv, WorkShape
<1>2. /\ Stale(d) \in [Drivers -> DriverType]
      /\ \A c \in Drivers : /\ Stale(d)[c].pc = drv[c].pc /\ Stale(d)[c].on = drv[c].on
                            /\ Stale(d)[c].act = drv[c].act /\ Stale(d)[c].did = drv[c].did
                            /\ Stale(d)[c].result = drv[c].result /\ Stale(d)[c].asked = drv[c].asked
                            /\ c # d /\ Stale(d)[c].fresh => drv[c].fresh /\ To(c) # To(d)
  <2>1. \A c \in Drivers : LET new == [drv[c] EXCEPT !.fresh = FALSE] IN
          new \in DriverType /\ new.pc = drv[c].pc /\ new.on = drv[c].on /\ new.act = drv[c].act
          /\ new.did = drv[c].did /\ new.result = drv[c].result /\ new.asked = drv[c].asked /\ ~new.fresh
    BY <1>1 DEF DriverType
  <2>. QED  BY <1>1, <2>1 DEF Stale
<1>3. drv' = [Stale(d) EXCEPT ![d] = next] /\ sess' = [sess EXCEPT ![To(d)] = m]
  BY DEF Commits
<1>4. drv' \in [Drivers -> DriverType] /\ drv'[d] = next /\ \A c \in Drivers \ {d} : drv'[c] = Stale(d)[c]
  BY <1>2, <1>3
<1>5. /\ sess' \in [Sessions -> Snapshots] /\ sess'[To(d)] = m
      /\ \A s \in Sessions \ {To(d)} : sess'[s] = sess[s]
  BY <1>1, <1>3
<1>. QED  BY <1>2, <1>4, <1>5

\* What a handler leaves with its result.
LEMMA LeftType ==
  ASSUME LocksInv, NEW d \in Drivers, NEW place \in Places, NEW result \in Results
  PROVE  LET left == Left(d, place, result)
         IN  /\ left \in DriverType
             /\ d = User => left = Idle
             /\ d # User => /\ left.pc = place /\ left.on = drv[d].on
                            /\ left.act = drv[d].act /\ left.did = drv[d].did
                            /\ left.result \in {result, "retry"}
<1>1. drv[d] \in DriverType
  BY DriverTypes
<1>2. ASSUME NEW r \in {result, "retry"}
      PROVE  LET new == [drv[d] EXCEPT !.pc = place, !.asked = FALSE, !.result = r] IN
               new \in DriverType /\ new.pc = place /\ new.on = drv[d].on /\ new.act = drv[d].act
               /\ new.did = drv[d].did /\ new.result = r
  BY <1>1 DEF DriverType, Results
<1>. QED  BY <1>2, IdleType DEF Left

\* A driver that only moves on, in a step that leaves locks and items alone.
LEMMA MovesKeep ==
  ASSUME LocksInv, UNCHANGED <<locks, grants, work>>,
         drv' \in [Drivers -> DriverType], sess' \in [Sessions -> Snapshots],
         settled' \in [Sessions -> SUBSET (0..MaxActs)],
         NEW d \in Drivers, Quiet(d),
         \A c \in Drivers \ {d} : /\ drv'[c].pc = drv[c].pc /\ drv'[c].on = drv[c].on
                                  /\ drv'[c].asked = drv[c].asked
  PROVE  LocksInv'
<1>1. WorkShape' /\ Queued'
  BY DEF LocksInv, WorkShape, LockTypeOK, Queued
<1>2. \A c \in Drivers : Quiet(c)
  BY DEF Quiet
<1>3. \A j \in Jobs : work'[j].tries >= work[j].tries
  BY DriverTypes
<1>. QED  BY <1>1, <1>2, <1>3, QuietKeeps

\* A handler that ends with a result; the user has nothing to release.
LEMMA LeavesKeep ==
  ASSUME LocksInv, UNCHANGED <<locks, grants, work, sess, settled>>,
         NEW d \in Drivers, drv[d].pc \in {"locked", "loaded", "driving"},
         NEW result \in Results, Gets(d, "releasing", result)
  PROVE  LocksInv'
<1>1. Left(d, "releasing", result) \in DriverType
  BY LeftType DEF Places
<1>2. /\ d = User => Left(d, "releasing", result) = Idle
      /\ d # User => Left(d, "releasing", result).pc = "releasing" /\ Left(d, "releasing", result).on = drv[d].on
  BY LeftType DEF Places
<1>3. /\ drv' \in [Drivers -> DriverType] /\ drv'[d] = Left(d, "releasing", result)
      /\ \A c \in Drivers \ {d} : drv'[c] = drv[c]
  BY <1>1 DEF Gets, LocksInv, WorkShape
<1>4. sess' \in [Sessions -> Snapshots] /\ settled' \in [Sessions -> SUBSET (0..MaxActs)]
  BY DEF LocksInv, WorkShape
<1>. QED  BY <1>2, <1>3, <1>4, IdleType, MovesKeep DEF Quiet

LEMMA HandlersKeep ==
  ASSUME LocksInv, NEW d \in Drivers,
         HandleWork(d) \/ HandleGoal(d) \/ Load(d) \/ Begin(d) \/ Perform(d) \/ LoseLease(d) \/ Unwind(d)
         \/ Crash(d)
  PROVE  LocksInv'
<1>. USE DriverTypes DEF LocksInv
<1>1. drv \in [Drivers -> DriverType] /\ sess \in [Sessions -> Snapshots]
      /\ settled \in [Sessions -> SUBSET (0..MaxActs)]
  BY DEF WorkShape
<1>2. CASE HandleWork(d)
  <2>1. /\ drv[d].pc = "taken" /\ d \in Runs /\ UNCHANGED <<locks, grants, work, sess, settled>>
        /\ Goes(d, "admitted") \/ (Gets(d, "ended", Look(d)) /\ Look(d) # "go")
    BY <1>2 DEF HandleWork, OnTheirWork
  <2>2. Kind(d) \in {"agent_session", "task", "tool_action"}
    <3>1. drv[d].on.job \in Jobs /\ work[drv[d].on.job].kind # "none"
      BY <2>1 DEF OnTheirWork, Queued
    <3>2. work[drv[d].on.job].kind \in {"none"} \cup Kinds[drv[d].on.job]
      BY <3>1 DEF WorkShape, ItemType
    <3>3. Kind(d) \in {"agent_session", "task", "tool_action", "agent_goal"}
      BY <3>1, <3>2 DEF Kind, Named
    <3>. QED  BY <1>2, <3>3 DEF HandleWork
  <2>3. Look(d) \in Results \cup {"go"}
    BY <2>2 DEF Look, Results
  <2>4. CASE Goes(d, "admitted")
    BY <1>1, <2>1, <2>4, PlaceType, MovesKeep DEF Quiet, Places
  <2>5. CASE Gets(d, "ended", Look(d)) /\ Look(d) # "go"
    BY <1>1, <2>1, <2>3, <2>5, GetsType, MovesKeep DEF Quiet, Places
  <2>. QED  BY <2>1, <2>4, <2>5
<1>3. CASE HandleGoal(d)
  <2>1. drv[d].pc = "taken" /\ d \in Runs /\ UNCHANGED <<locks, grants, work, settled>>
    BY <1>3 DEF HandleGoal, OnTheirWork
  <2>2. PICK s \in Sessions :
          /\ sess' = [sess EXCEPT ![s].status = "running"]
          /\ drv' = [drv EXCEPT ![d].pc = "driving", ![d].on.to = s, ![d].fresh = TRUE]
    BY <1>3 DEF HandleGoal
  <2>3. sess' \in [Sessions -> Snapshots]
    BY <1>1, <2>2, ZenonT(60) DEF Snapshots
  <2>4. /\ drv' \in [Drivers -> DriverType] /\ drv'[d].pc = "driving" /\ drv'[d].on.to = s
        /\ drv'[d].on.job = drv[d].on.job /\ drv'[d].on.try = drv[d].on.try
        /\ drv'[d].on.lock = drv[d].on.lock
        /\ \A c \in Drivers \ {d} : drv'[c] = drv[c]
    <3>. DEFINE on == [drv[d].on EXCEPT !.to = s]
                moved == [drv[d] EXCEPT !.pc = "driving", !.on = on, !.fresh = TRUE]
    <3>1. drv[d] \in DriverType /\ drv[d].on \in OnType /\ "driving" \in Places
      BY DEF DriverType, Places
    <3>2. on \in OnType /\ on.to = s /\ on.job = drv[d].on.job /\ on.try = drv[d].on.try /\ on.lock = drv[d].on.lock
      BY <3>1 DEF OnType
    <3>. HIDE DEF on
    <3>3. moved \in DriverType /\ moved.pc = "driving" /\ moved.on = on
      BY <3>1, <3>2 DEF DriverType
    <3>4. drv' = [drv EXCEPT ![d] = moved]
      BY <2>2, ZenonT(60) DEF on
    <3>. HIDE DEF moved
    <3>5. drv' \in [Drivers -> DriverType] /\ drv'[d] = moved /\ \A c \in Drivers \ {d} : drv'[c] = drv[c]
      BY <1>1, <3>3, <3>4
    <3>. QED  BY <3>2, <3>3, <3>5
  <2>. QED  BY <1>1, <2>1, <2>3, <2>4, MovesKeep DEF Quiet
<1>4. CASE Load(d)
  <2>1. /\ drv[d].pc = "locked" /\ d \in Runs /\ To(d) \in Sessions
        /\ UNCHANGED <<locks, grants, work, settled>>
    BY <1>4 DEF Load, OnTheirWork
  <2>. DEFINE s == Stored(d)
  <2>2. s \in Snapshots
    BY <1>1, <2>1 DEF Stored
  <2>3. CASE Gets(d, "releasing", "failed") /\ UNCHANGED sess
    BY <1>1, <2>1, <2>3, GetsType, MovesKeep DEF Quiet, Places, Results
  <2>4. CASE Commits(d, [s EXCEPT !.status = "failed", !.pending = 0], Left(d, "releasing", "failed"))
    <3>1. [s EXCEPT !.status = "failed", !.pending = 0] \in Snapshots
      <4>1. 0 \in 0..MaxActs
        OBVIOUS
      <4>. HIDE DEF s
      <4>. QED  BY <2>2, <4>1 DEF Snapshots, Ended
    <3>2. Left(d, "releasing", "failed") \in DriverType
      BY LeftType DEF Places, Results
    <3>3. Left(d, "releasing", "failed").pc = "releasing" /\ Left(d, "releasing", "failed").on = drv[d].on
      BY <2>1, LeftType DEF Places, Results
    <3>. QED  BY <1>1, <2>1, <2>4, <3>1, <3>2, <3>3, CommitsType, MovesKeep DEF Quiet
  <2>5. CASE /\ drv' = [drv EXCEPT ![d].pc = "loaded", ![d].fresh = TRUE,
                          ![d].act = IF drv[d].conf = "yes" THEN s.pending ELSE 0]
             /\ UNCHANGED sess
    <3>. DEFINE act == IF drv[d].conf = "yes" THEN s.pending ELSE 0
                moved == [drv[d] EXCEPT !.pc = "loaded", !.fresh = TRUE, !.act = act]
    <3>1. act \in 0..MaxActs
      BY <2>2 DEF Snapshots
    <3>2. drv[d] \in DriverType /\ drv' = [drv EXCEPT ![d] = moved]
      BY <2>5
    <3>. HIDE DEF act
    <3>3. moved \in DriverType /\ moved.pc = "loaded" /\ moved.on = drv[d].on /\ moved.asked = drv[d].asked
      BY <3>1, <3>2 DEF DriverType, Places
    <3>. HIDE DEF moved
    <3>4. drv' \in [Drivers -> DriverType] /\ drv'[d] = moved /\ \A c \in Drivers \ {d} : drv'[c] = drv[c]
      BY <1>1, <3>2, <3>3
    <3>. QED  BY <1>1, <2>1, <2>5, <3>3, <3>4, MovesKeep DEF Quiet
  <2>. QED  BY <1>4, <2>3, <2>4, <2>5 DEF Load
<1>5. CASE Begin(d)
  <2>1. /\ drv[d].pc = "loaded" /\ To(d) \in Sessions /\ UNCHANGED <<locks, grants, work, settled>>
    BY <1>5 DEF Begin, OnTheirWork
  <2>. DEFINE m == [Stored(d) EXCEPT !.status = "running", !.pending = IF drv[d].conf = "no" THEN 0 ELSE @]
              next == [drv[d] EXCEPT !.pc = "driving"]
              last == Left(d, "releasing", "retry")
  <2>2. CASE Commits(d, m, IF drv[d].asked THEN last ELSE next)
    <3>1. Stored(d) \in Snapshots /\ drv[d] \in DriverType
      BY <1>1, <2>1 DEF Stored
    <3>2. m \in Snapshots
      <4>. DEFINE left == IF drv[d].conf = "no" THEN 0 ELSE Stored(d).pending
      <4>1. left \in 0..MaxActs
        BY <3>1 DEF Snapshots
      <4>2. m = [Stored(d) EXCEPT !.status = "running", !.pending = left]
        OBVIOUS
      <4>. HIDE DEF left, m
      <4>. QED  BY <3>1, <4>1, <4>2 DEF Snapshots
    <3>3. /\ next \in DriverType /\ next.pc = "driving" /\ next.on = drv[d].on /\ next.asked = drv[d].asked
          /\ last \in DriverType /\ (d = User => last = Idle)
          /\ d # User => last.pc = "releasing" /\ last.on = drv[d].on
      BY <3>1, LeftType DEF DriverType, Places, Results
    <3>. DEFINE moved == IF drv[d].asked THEN last ELSE next
    <3>4. /\ moved \in DriverType
          /\ moved = last \/ (moved = next /\ moved.asked = drv[d].asked)
      BY <3>3
    <3>5. Commits(d, m, moved)
      BY <2>2
    <3>. HIDE DEF m, next, last, moved
    <3>6. /\ drv' \in [Drivers -> DriverType] /\ drv'[d] = moved /\ sess' \in [Sessions -> Snapshots]
          /\ \A c \in Drivers \ {d} : /\ drv'[c].pc = drv[c].pc /\ drv'[c].on = drv[c].on
                                      /\ drv'[c].asked = drv[c].asked
      BY <2>1, <3>2, <3>4, <3>5, CommitsType
    <3>7. Quiet(d)
      BY <2>1, <3>3, <3>4, <3>6, IdleType DEF Quiet
    <3>. QED  BY <1>1, <2>1, <3>6, <3>7, MovesKeep
  <2>3. CASE Gets(d, "releasing", "retry") /\ UNCHANGED sess
    BY <2>1, <2>3, LeavesKeep DEF Results
  <2>. QED  BY <1>5, <2>2, <2>3 DEF Begin
<1>6. CASE Perform(d)
  <2>1. drv' = [drv EXCEPT ![d].did = TRUE] /\ UNCHANGED <<locks, grants, work, sess, settled>>
    BY <1>6 DEF Perform
  <2>. DEFINE new == [drv[d] EXCEPT !.did = TRUE]
  <2>2. new \in DriverType /\ new.pc = drv[d].pc /\ new.on = drv[d].on /\ new.asked = drv[d].asked
    BY <1>1 DEF DriverType
  <2>3. drv' = [drv EXCEPT ![d] = new]
    BY <2>1
  <2>. HIDE DEF new
  <2>4. drv' \in [Drivers -> DriverType] /\ drv'[d] = new /\ \A c \in Drivers \ {d} : drv'[c] = drv[c]
    BY <1>1, <2>2, <2>3
  <2>. QED  BY <1>1, <2>1, <2>2, <2>4, MovesKeep DEF Quiet
<1>7. CASE LoseLease(d) \/ Unwind(d)
  <2>1. /\ UNCHANGED <<locks, grants, work, sess, settled>>
        /\ \/ Cancels(d)
           \/ /\ drv[d].pc \in {"taken", "admitted"} /\ d \in Runs /\ Gets(d, "ended", "retry")
           \/ Working(d) /\ Gets(d, "releasing", "retry")
    BY <1>7 DEF LoseLease, Unwind, Drivers, Working
  <2>2. CASE Cancels(d)
    BY <1>1, <2>1, <2>2, CancelsType, MovesKeep DEF Quiet
  <2>3. CASE drv[d].pc \in {"taken", "admitted"} /\ d \in Runs /\ Gets(d, "ended", "retry")
    BY <1>1, <2>1, <2>3, GetsType, MovesKeep DEF Quiet, Places, Results
  <2>4. CASE Working(d) /\ Gets(d, "releasing", "retry")
    BY <2>1, <2>4, LeavesKeep DEF Working, Results
  <2>. QED  BY <2>1, <2>2, <2>3, <2>4
<1>8. CASE Crash(d)
  <2>1. drv' = [drv EXCEPT ![d] = Idle] /\ UNCHANGED <<locks, grants, work, sess, settled>>
    BY <1>8 DEF Crash
  <2>2. drv' \in [Drivers -> DriverType] /\ drv'[d] = Idle /\ \A c \in Drivers \ {d} : drv'[c] = drv[c]
    BY <1>1, <2>1, IdleType
  <2>. QED  BY <1>1, <2>1, <2>2, IdleType, MovesKeep DEF Quiet
<1>. QED  BY <1>2, <1>3, <1>4, <1>5, <1>6, <1>7, <1>8

LEMMA SettleKeeps ==
  ASSUME LocksInv, NEW d \in Drivers, Settle(d)
  PROVE  LocksInv'
<1>. USE DriverTypes DEF LocksInv
<1>1. /\ drv \in [Drivers -> DriverType] /\ settled \in [Sessions -> SUBSET (0..MaxActs)]
      /\ sess \in [Sessions -> Snapshots]
      /\ drv[d].pc = "driving" /\ To(d) \in Sessions /\ UNCHANGED <<locks, grants, work>>
      /\ drv[d].act \in 0..MaxActs
  BY DEF WorkShape, Settle, OnTheirWork, DriverType
<1>2. CASE Gets(d, "releasing", "retry") /\ UNCHANGED <<sess, settled>>
  BY <1>1, <1>2, LeavesKeep DEF Results
<1>3. CASE /\ \E m \in Outcomes(Stored(d)) :
                Commits(d, m, Left(d, "releasing", IF m.status = "failed" THEN "failed" ELSE "completed"))
           /\ settled' = IF d # User /\ drv[d].did
                         THEN [settled EXCEPT ![To(d)] = @ \cup {drv[d].act}] ELSE settled
  <2>1. PICK m \in Outcomes(Stored(d)) :
          Commits(d, m, Left(d, "releasing", IF m.status = "failed" THEN "failed" ELSE "completed"))
    BY <1>3
  <2>2. m \in Snapshots
    BY <2>1 DEF Outcomes
  <2>. DEFINE result == IF m.status = "failed" THEN "failed" ELSE "completed"
  <2>3. result \in Results
    BY DEF Results
  <2>4. Commits(d, m, Left(d, "releasing", result))
    BY <2>1
  <2>. HIDE DEF result
  <2>5. /\ Left(d, "releasing", result) \in DriverType
        /\ d = User => Left(d, "releasing", result) = Idle
        /\ d # User => Left(d, "releasing", result).pc = "releasing" /\ Left(d, "releasing", result).on = drv[d].on
    BY <2>3, LeftType DEF Places
  <2>6. settled' \in [Sessions -> SUBSET (0..MaxActs)]
    BY <1>1, <1>3
  <2>7. /\ drv' \in [Drivers -> DriverType] /\ drv'[d] = Left(d, "releasing", result)
        /\ \A c \in Drivers \ {d} : /\ drv'[c].pc = drv[c].pc /\ drv'[c].on = drv[c].on
                                    /\ drv'[c].asked = drv[c].asked
        /\ sess' \in [Sessions -> Snapshots]
    BY <1>1, <2>2, <2>4, <2>5, CommitsType
  <2>. QED  BY <1>1, <2>5, <2>6, <2>7, IdleType, MovesKeep DEF Quiet
<1>. QED  BY <1>2, <1>3 DEF Settle

\* The user's control calls.
LEMMA ControlType ==
  ASSUME LocksInv, NEW s \in Sessions, NEW status \in {"waiting", "cancelled"}, UserControls(s, status)
  PROVE  /\ sess' \in [Sessions -> Snapshots] /\ drv' \in [Drivers -> DriverType]
         /\ sess'[s].acts = sess[s].acts /\ sess'[s].pending \in {0, sess[s].pending}
         /\ \A q \in Sessions \ {s} : sess'[q] = sess[q]
         /\ \A c \in Drivers : /\ drv'[c].pc = drv[c].pc /\ drv'[c].on = drv[c].on
                               /\ drv'[c].act = drv[c].act /\ drv'[c].did = drv[c].did /\ drv'[c].result = drv[c].result
                               /\ drv'[c].asked = drv[c].asked /\ (drv'[c].fresh => drv[c].fresh /\ To(c) # s)
<1>1. sess \in [Sessions -> Snapshots] /\ drv \in [Drivers -> DriverType]
  BY DEF LocksInv, WorkShape
<1>2. ASSUME NEW c \in Drivers
      PROVE  /\ [drv[c] EXCEPT !.fresh = FALSE] \in DriverType
             /\ [drv[c] EXCEPT !.fresh = FALSE].pc = drv[c].pc
             /\ [drv[c] EXCEPT !.fresh = FALSE].on = drv[c].on
             /\ [drv[c] EXCEPT !.fresh = FALSE].act = drv[c].act
             /\ [drv[c] EXCEPT !.fresh = FALSE].did = drv[c].did
             /\ [drv[c] EXCEPT !.fresh = FALSE].result = drv[c].result
             /\ [drv[c] EXCEPT !.fresh = FALSE].asked = drv[c].asked
             /\ ~[drv[c] EXCEPT !.fresh = FALSE].fresh
  <2>1. drv[c] \in DriverType
    BY <1>1
  <2>. QED  BY <2>1 DEF DriverType
<1>3. /\ drv' \in [Drivers -> DriverType]
      /\ \A c \in Drivers : /\ drv'[c].pc = drv[c].pc /\ drv'[c].on = drv[c].on
                            /\ drv'[c].act = drv[c].act /\ drv'[c].did = drv[c].did /\ drv'[c].result = drv[c].result
                            /\ drv'[c].asked = drv[c].asked /\ (drv'[c].fresh => drv[c].fresh /\ To(c) # s)
  <2>1. \A c \in Drivers : drv'[c] = IF To(c) = s THEN [drv[c] EXCEPT !.fresh = FALSE] ELSE drv[c]
    BY DEF UserControls
  <2>2. drv' = [c \in Drivers |-> drv'[c]]
    BY DEF UserControls
  <2>3. ASSUME NEW c \in Drivers
        PROVE  /\ drv'[c] \in DriverType /\ drv'[c].pc = drv[c].pc /\ drv'[c].on = drv[c].on
               /\ drv'[c].act = drv[c].act /\ drv'[c].did = drv[c].did /\ drv'[c].result = drv[c].result
               /\ drv'[c].asked = drv[c].asked /\ (drv'[c].fresh => drv[c].fresh /\ To(c) # s)
    <3>1. CASE To(c) # s
      BY <1>1, <2>1, <3>1
    <3>2. CASE To(c) = s
      BY <1>2, <2>1, <3>2
    <3>. QED  BY <2>1, <3>1, <3>2
  <2>. QED  BY <2>2, <2>3
<1>. DEFINE left == IF status = "cancelled" THEN 0 ELSE sess[s].pending
            new == [sess[s] EXCEPT !.status = status, !.pending = left]
<1>4. left \in 0..MaxActs /\ left \in {0, sess[s].pending} /\ sess[s] \in Snapshots
  BY <1>1 DEF Snapshots
<1>5. sess' = [sess EXCEPT ![s] = new]
  BY <1>1 DEF UserControls
<1>. HIDE DEF left
<1>6. new \in Snapshots /\ new.acts = sess[s].acts /\ new.pending = left
  BY <1>4 DEF Snapshots, Ended
<1>. HIDE DEF new
<1>7. sess' \in [Sessions -> Snapshots] /\ sess'[s] = new /\ \A q \in Sessions \ {s} : sess'[q] = sess[q]
  BY <1>1, <1>5, <1>6
<1>. QED  BY <1>3, <1>4, <1>6, <1>7

LEMMA UserKeeps ==
  ASSUME LocksInv, NEW s \in Sessions, UserNext(s)
  PROVE  LocksInv'
<1>. USE DriverTypes DEF LocksInv
<1>1. /\ drv \in [Drivers -> DriverType] /\ settled \in [Sessions -> SUBSET (0..MaxActs)]
      /\ sess \in [Sessions -> Snapshots]
  BY DEF WorkShape
<1>2. CASE UserRuns(s)
  <2>. DEFINE on == [NoWork EXCEPT !.to = s]
              new == [Idle EXCEPT !.pc = "driving", !.on = on, !.fresh = TRUE]
  <2>2. drv' = [drv EXCEPT ![User] = new] /\ UNCHANGED <<locks, grants, work, settled>>
    BY <1>2 DEF UserRuns, Idle
  <2>1. new \in DriverType /\ new.pc = "driving" /\ new.on.lock = 0 /\ new.on.to = s
    <3>1. on \in OnType /\ on.lock = 0 /\ on.to = s
      BY DEF NoWork, OnType
    <3>. HIDE DEF on
    <3>. QED  BY <3>1, IdleType DEF DriverType, Places
  <2>3. sess' \in [Sessions -> Snapshots]
    BY <1>1, <1>2 DEF UserRuns, Snapshots
  <2>. HIDE DEF new
  <2>4. drv' \in [Drivers -> DriverType] /\ drv'[User] = new /\ \A c \in Drivers \ {User} : drv'[c] = drv[c]
    BY <1>1, <2>1, <2>2
  <2>. QED  BY <1>1, <2>1, <2>2, <2>3, <2>4, MovesKeep DEF Quiet
<1>3. ASSUME NEW conf \in {"unset", "yes", "no"}, UserResumes(s, conf)
      PROVE  LocksInv'
  <2>. DEFINE act == IF conf = "yes" THEN sess[s].pending ELSE 0
              on == [NoWork EXCEPT !.to = s]
              new == [Idle EXCEPT !.pc = "loaded", !.on = on, !.fresh = TRUE, !.conf = conf, !.act = act]
  <2>1. act \in 0..MaxActs
    BY <1>1 DEF Snapshots
  <2>2. drv' = [drv EXCEPT ![User] = new] /\ UNCHANGED <<locks, grants, work, sess, settled>>
    BY <1>3 DEF UserResumes, Idle
  <2>. HIDE DEF act
  <2>3. new \in DriverType /\ new.pc = "loaded" /\ new.on.lock = 0 /\ new.on.to = s
    <3>1. on \in OnType /\ on.lock = 0 /\ on.to = s
      BY DEF NoWork, OnType
    <3>. HIDE DEF on
    <3>. QED  BY <2>1, <3>1, IdleType DEF DriverType, Places
  <2>. HIDE DEF new
  <2>4. drv' \in [Drivers -> DriverType] /\ drv'[User] = new /\ \A c \in Drivers \ {User} : drv'[c] = drv[c]
    BY <1>1, <2>2, <2>3
  <2>. QED  BY <1>1, <2>2, <2>3, <2>4, MovesKeep DEF Quiet
<1>4. ASSUME NEW status \in {"waiting", "cancelled"}, UserControls(s, status)
      PROVE  LocksInv'
  <2>1. UNCHANGED <<locks, grants, work, settled>>
    BY <1>4 DEF UserControls
  <2>. QED  BY <1>1, <1>4, <2>1, ControlType, MovesKeep DEF Quiet
<1>. QED  BY <1>2, <1>3, <1>4 DEF UserNext

\* The items: how they are scheduled, put back and settled.
LEMMA QueueKeeps ==
  ASSUME LocksInv, Finished,
         \/ \E j \in Jobs : Lapse(j) \/ \E kind \in Kinds[j] : Schedule(j, kind)
         \/ \E d \in Drivers : Report(d)
  PROVE  LocksInv'
<1>. USE DriverTypes DEF LocksInv
<1>1. /\ work = [j \in Jobs |-> work[j]] /\ \A j \in Jobs : work[j] \in ItemType(j)
      /\ sess \in [Sessions -> Snapshots] /\ drv \in [Drivers -> DriverType]
  BY DEF WorkShape
\* An item that goes on with the attempts and the kind it has.
<1>2. ASSUME NEW j \in Jobs, NEW stage \in {"queued"} \cup Ended,
             work[j].stage = "leased", work' = [work EXCEPT ![j].stage = stage],
             stage = "queued" => work[j].tries < Budget[j] /\ work[j].kind # "none"
      PROVE  /\ work' = [i \in Jobs |-> work'[i]] /\ \A i \in Jobs : work'[i] \in ItemType(i)
             /\ \A i \in Jobs : work'[i].tries = work[i].tries
             /\ Queued'
  <2>. DEFINE new == [work[j] EXCEPT !.stage = stage]
  <2>1. /\ new \in ItemType(j) /\ new.tries = work[j].tries /\ new.stage = stage
        /\ new.kind = work[j].kind /\ stage \notin {"absent", "leased"}
    BY <1>1 DEF ItemType, Ended
  <2>2. work' = [work EXCEPT ![j] = new]
    BY <1>1, <1>2
  <2>. HIDE DEF new
  <2>3. work' = [i \in Jobs |-> work'[i]] /\ work'[j] = new /\ \A i \in Jobs \ {j} : work'[i] = work[i]
    BY <1>1, <2>2
  <2>4. Queued'
    BY <1>1, <1>2, <2>1, <2>3 DEF Queued
  <2>. QED  BY <1>1, <2>1, <2>3, <2>4
<1>3. \A j \in Jobs : work[j].tries \in Nat /\ Budget[j] \in Nat \ {0}
  OBVIOUS
<1>4. ASSUME NEW j \in Jobs, NEW stage \in {"queued"} \cup Ended,
             work[j].stage = "leased", work' = [work EXCEPT ![j].stage = stage],
             stage = "queued" => work[j].tries < Budget[j]
      PROVE  /\ work' = [i \in Jobs |-> work'[i]] /\ \A i \in Jobs : work'[i] \in ItemType(i)
             /\ \A i \in Jobs : work'[i].tries >= work[i].tries
             /\ Queued'
  <2>1. work[j].kind # "none"
    BY <1>3, <1>4 DEF Queued
  <2>2. /\ work' = [i \in Jobs |-> work'[i]] /\ \A i \in Jobs : work'[i] \in ItemType(i)
        /\ \A i \in Jobs : work'[i].tries = work[i].tries
        /\ Queued'
    BY <1>2, <1>4, <2>1
  <2>3. \A i \in Jobs : work'[i].tries >= work[i].tries
    BY <1>3, <2>2
  <2>. QED  BY <2>2, <2>3
<1>5. \A j \in Jobs : /\ Requeued(j) \in {"queued"} \cup Ended
                      /\ Requeued(j) = "queued" => work[j].tries < Budget[j]
  BY DEF Requeued, Ended
<1>6. ASSUME NEW j \in Jobs, Lapse(j)
      PROVE  LocksInv'
  <2>1. /\ work[j].stage = "leased" /\ work' = [work EXCEPT ![j].stage = Requeued(j)]
        /\ UNCHANGED <<locks, grants, sess, drv, settled>>
    BY <1>6 DEF Lapse
  <2>2. /\ work' = [i \in Jobs |-> work'[i]] /\ \A i \in Jobs : work'[i] \in ItemType(i)
        /\ \A i \in Jobs : work'[i].tries >= work[i].tries
        /\ Queued'
    BY <1>4, <1>5, <2>1
  <2>3. WorkShape'
    BY <1>1, <2>1, <2>2 DEF WorkShape, LockTypeOK
  <2>. QED  BY <2>1, <2>2, <2>3, QuietKeeps DEF Quiet
<1>7. ASSUME NEW j \in Jobs, NEW kind \in Kinds[j], Schedule(j, kind)
      PROVE  LocksInv'
  <2>. DEFINE s == sess[SessionOf[j]]
              new == [stage |-> "queued", kind |-> kind, tries |-> 0, task |-> s.task, act |-> s.pending]
  <2>1. work[j].stage = "absent" /\ work' = [work EXCEPT ![j] = new]
        /\ UNCHANGED <<locks, grants, sess, drv, settled>>
    BY <1>7 DEF Schedule
  <2>2. s \in Snapshots
    BY <1>1
  <2>3. new \in ItemType(j) /\ new.stage = "queued" /\ new.tries = 0 /\ new.kind # "none"
    <3>1. s.task \in 0..MaxTasks /\ s.pending \in 0..MaxActs /\ kind # "none" /\ 0 \in 0..Budget[j]
      BY <1>3, <2>2 DEF Snapshots
    <3>. HIDE DEF s
    <3>. QED  BY <3>1 DEF ItemType
  <2>. HIDE DEF new
  <2>4. work' = [i \in Jobs |-> work'[i]] /\ work'[j] = new /\ \A i \in Jobs \ {j} : work'[i] = work[i]
    BY <1>1, <2>1
  <2>5. Queued' /\ \A i \in Jobs : work'[i] \in ItemType(i)
    BY <1>1, <1>3, <2>3, <2>4 DEF Queued
  <2>6. WorkShape'
    BY <1>1, <2>1, <2>4, <2>5 DEF WorkShape, LockTypeOK
  <2>7. \A i \in Jobs : work'[i].tries >= work[i].tries
    BY <1>3, <2>1, <2>3, <2>4 DEF Queued
  <2>. QED  BY <2>1, <2>5, <2>6, <2>7, QuietKeeps DEF Quiet
<1>8. ASSUME NEW d \in Drivers, Report(d)
      PROVE  LocksInv'
  <2>1. /\ drv[d].pc = "ended" /\ d \in Runs /\ drv' = [drv EXCEPT ![d] = Idle]
        /\ UNCHANGED <<locks, grants, sess, settled>>
    BY <1>8 DEF Report
  <2>2. /\ work' = [i \in Jobs |-> work'[i]] /\ \A i \in Jobs : work'[i] \in ItemType(i)
        /\ \A i \in Jobs : work'[i].tries >= work[i].tries
        /\ Queued'
    <3>1. CASE Leased(d)
      <4>. DEFINE j == drv[d].on.job
                  stage == IF drv[d].result = "retry" THEN Requeued(j) ELSE drv[d].result
      <4>1. j \in Jobs /\ work[j].stage = "leased" /\ work' = [work EXCEPT ![j].stage = stage]
        BY <1>8, <2>1, <3>1 DEF Report, OnTheirWork, Leased
      <4>2. drv[d].result \in {"completed", "failed", "retry"}
        BY <1>1, <2>1 DEF DriverType, Results, Finished
      <4>3. stage \in {"queued"} \cup Ended /\ (stage = "queued" => work[j].tries < Budget[j])
        BY <1>5, <4>1, <4>2 DEF Ended
      <4>. HIDE DEF j, stage
      <4>. QED  BY <1>4, <4>1, <4>3
    <3>2. CASE UNCHANGED work
      BY <1>1, <1>3, <3>2 DEF Queued
    <3>. QED  BY <1>8, <3>1, <3>2 DEF Report
  <2>3. drv' \in [Drivers -> DriverType] /\ drv'[d] = Idle /\ \A c \in Drivers \ {d} : drv'[c] = drv[c]
    BY <1>1, <2>1, IdleType
  <2>4. WorkShape'
    BY <1>1, <2>1, <2>2, <2>3 DEF WorkShape, LockTypeOK
  <2>. QED  BY <2>1, <2>2, <2>3, <2>4, IdleType, QuietKeeps DEF Quiet
<1>. QED  BY <1>6, <1>7, <1>8

-----------------------------------------------------------------------------
(* The confirmed actions.                                                    *)

\* An action that was settled was asked for, and is no longer pending; a run works on
\* an action the session has asked for, under a lock, and not on a settled one.
ActsInv ==
  /\ Finished
  /\ \A s \in Sessions :
       /\ sess[s].pending <= sess[s].acts
       /\ \A a \in settled[s] : 1 <= a /\ a <= sess[s].acts /\ a # sess[s].pending
  /\ \A d \in Drivers :
       /\ drv[d].pc \in {"loaded", "driving"} => drv[d].act <= sess[To(d)].acts
       /\ drv[d].did => drv[d].act # 0 /\ drv[d].pc \in {"driving", "releasing", "ended"}
  /\ \A d \in Runs : drv[d].on.lock = 0 => drv[d].act = 0
  /\ PunctualLocks =>
       \A d \in Runs : drv[d].pc \in {"loaded", "driving"} /\ ~drv[d].did /\ ~Overstays(d)
                         => drv[d].act \notin settled[To(d)]

\* What a step may do to a driver, and to a session.
Over(d) ==
  drv'[d].pc \in {"releasing", "ended"} =>
    \/ drv'[d].result # "none"
    \/ drv'[d].result = drv[d].result /\ drv[d].pc \in {"releasing", "ended"}

Acted(d) ==
  \/ drv'[d].act = 0 /\ ~drv'[d].did
  \/ /\ drv'[d].act = drv[d].act /\ drv'[d].did = drv[d].did /\ drv'[d].on = drv[d].on
     /\ drv'[d].pc \in {"loaded", "driving"} => drv[d].pc \in {"loaded", "driving"}
     /\ drv'[d].pc = drv[d].pc \/ drv'[d].pc \in {"driving", "releasing", "ended"} \/ ~drv[d].did
  \/ /\ drv'[d].act = drv[d].act /\ drv[d].act # 0 /\ drv'[d].did /\ drv'[d].on = drv[d].on
     /\ drv[d].pc = "driving" /\ drv'[d].pc = "driving"
  \/ /\ drv'[d].act = sess'[To(d)'].pending /\ ~drv'[d].did /\ To(d)' \in Sessions
     /\ d = User \/ drv'[d].on.lock # 0

Asked(s) ==
  /\ sess'[s].acts >= sess[s].acts
  /\ \/ sess'[s].pending = 0
     \/ sess'[s].pending = sess[s].pending
     \/ sess'[s].pending = sess'[s].acts /\ sess'[s].acts > sess[s].acts

Settled(d) ==
  /\ drv[d].pc = "driving" /\ drv[d].fresh /\ drv[d].did /\ drv'[d].pc \notin {"loaded", "driving"}
  /\ settled' = [settled EXCEPT ![To(d)] = @ \cup {drv[d].act}]
  /\ sess'[To(d)].pending = 0 \/ sess'[To(d)].pending > sess[To(d)].acts

Same(d) ==
  /\ drv'[d].pc = drv[d].pc /\ drv'[d].on = drv[d].on /\ drv'[d].act = drv[d].act
  /\ drv'[d].did = drv[d].did /\ drv'[d].result = drv[d].result

LEMMA SameActs == ASSUME NEW d, Same(d) PROVE Over(d) /\ Acted(d)
BY DEF Same, Over, Acted

LEMMA SameAsked == ASSUME LocksInv, NEW s \in Sessions, sess'[s] = sess[s] PROVE Asked(s)
BY DEF LocksInv, WorkShape, Snapshots, Asked

\* Leaving the handler with a result, and moving on.
LEMMA GetsActs ==
  ASSUME LocksInv, NEW d \in Drivers, NEW place \in {"releasing", "ended"},
         NEW result \in Results \ {"none"}, Gets(d, place, result)
  PROVE  \A c \in Drivers : Over(c) /\ Acted(c)
<1>. DEFINE left == Left(d, place, result)
<1>1. /\ left \in DriverType
      /\ d = User => left = Idle
      /\ d # User => /\ left.pc = place /\ left.on = drv[d].on
                     /\ left.act = drv[d].act /\ left.did = drv[d].did
                     /\ left.result \in {result, "retry"}
  BY LeftType DEF Places, Results
<1>2. drv \in [Drivers -> DriverType] /\ drv' = [drv EXCEPT ![d] = left]
  BY DEF LocksInv, WorkShape, Gets
<1>. HIDE DEF left
<1>3. drv'[d] = left /\ \A c \in Drivers \ {d} : drv'[c] = drv[c]
  BY <1>1, <1>2
<1>4. \A c \in Drivers \ {d} : Same(c)
  BY <1>3 DEF Same
<1>5. Over(d) /\ Acted(d)
  BY <1>1, <1>3 DEF Over, Acted, Idle
<1>. QED  BY <1>4, <1>5, SameActs

LEMMA GoesActs ==
  ASSUME LocksInv, NEW d \in Drivers, NEW place \in Places, Goes(d, place),
         \/ place = "admitted" /\ ~drv[d].did
         \/ place = "ended" /\ drv[d].pc = "releasing"
  PROVE  \A c \in Drivers : Over(c) /\ Acted(c)
<1>1. \A c \in Drivers \ {d} : Same(c)
  BY PlaceType DEF Same
<1>2. Over(d) /\ Acted(d)
  BY PlaceType DEF Over, Acted
<1>. QED  BY <1>1, <1>2, SameActs

LEMMA DriverSteps ==
  ASSUME LocksInv, ActsInv, NEW d \in Drivers, DriverNext(d), ~Settle(d)
  PROVE  /\ \A c \in Drivers : Over(c) /\ Acted(c)
         /\ \A s \in Sessions : Asked(s)
         /\ settled' = settled
<1>. USE DriverTypes
<1>1. /\ drv \in [Drivers -> DriverType] /\ sess \in [Sessions -> Snapshots]
      /\ User \in Drivers
  BY DEF LocksInv, WorkShape
<1>2. \A s \in Sessions : sess[s].acts \in Nat /\ sess[s].pending \in Nat
  BY <1>1 DEF Snapshots
<1>3. ASSUME NEW j \in Jobs, Take(d, j)
      PROVE  /\ \A c \in Drivers : Over(c) /\ Acted(c)
             /\ sess' = sess /\ settled' = settled
  <2>1. /\ sess' = sess /\ settled' = settled
        /\ \E on, conf : drv' = [drv EXCEPT ![d] = [Idle EXCEPT !.pc = "taken", !.on = on, !.conf = conf]]
    BY <1>3 DEF Take
  <2>2. drv'[d].pc = "taken" /\ drv'[d].act = 0 /\ ~drv'[d].did /\ \A c \in Drivers \ {d} : drv'[c] = drv[c]
    BY <1>1, <2>1 DEF Idle
  <2>. QED  BY <2>1, <2>2, SameActs DEF Over, Acted, Same
<1>4. CASE Report(d) \/ Crash(d)
  <2>1. /\ sess' = sess /\ settled' = settled /\ drv' = [drv EXCEPT ![d] = Idle]
    BY <1>4 DEF Report, Crash
  <2>2. drv'[d] = Idle /\ \A c \in Drivers \ {d} : drv'[c] = drv[c]
    BY <1>1, <2>1
  <2>3. Over(d) /\ Acted(d)
    BY <2>2 DEF Over, Acted, Idle
  <2>. QED  BY <1>2, <2>1, <2>2, <2>3, SameActs DEF Same, Asked
<1>5. CASE HandleWork(d)
  <2>1. /\ drv[d].pc = "taken" /\ d \in Runs /\ sess' = sess /\ settled' = settled
        /\ Goes(d, "admitted") \/ (Gets(d, "ended", Look(d)) /\ Look(d) # "go")
    BY <1>5 DEF HandleWork, LocksInv, OnTheirWork
  <2>2. ~drv[d].did
    BY <2>1 DEF ActsInv
  <2>3. Look(d) \in (Results \ {"none"}) \cup {"go"}
    <3>1. drv[d].on.job \in Jobs /\ work[drv[d].on.job].kind # "none"
      BY <2>1 DEF LocksInv, OnTheirWork, Queued
    <3>2. work[drv[d].on.job].kind \in {"none"} \cup Kinds[drv[d].on.job]
      BY <3>1 DEF LocksInv, WorkShape, ItemType
    <3>3. Kind(d) \in {"agent_session", "task", "tool_action", "agent_goal"}
      BY <3>1, <3>2 DEF Kind, Named
    <3>4. Kind(d) \in {"agent_session", "task", "tool_action"}
      BY <1>5, <3>3 DEF HandleWork
    <3>. QED  BY <3>4 DEF Look, Results
  <2>4. \A c \in Drivers : Over(c) /\ Acted(c)
    BY <2>1, <2>2, <2>3, GoesActs, GetsActs DEF Places
  <2>. QED  BY <1>2, <2>1, <2>4 DEF Asked
<1>6. CASE HandleGoal(d)
  <2>1. drv[d].pc = "taken" /\ d \in Runs /\ settled' = settled
    BY <1>6 DEF HandleGoal, LocksInv, OnTheirWork
  <2>2. drv[d].act = 0 /\ ~drv[d].did
    BY <2>1 DEF ActsInv, LocksInv, OnTheirWork
  <2>3. PICK s \in Sessions :
          /\ sess' = [sess EXCEPT ![s].status = "running"]
          /\ drv' = [drv EXCEPT ![d].pc = "driving", ![d].on.to = s, ![d].fresh = TRUE]
    BY <1>6 DEF HandleGoal
  <2>4. \A q \in Sessions : sess'[q].acts = sess[q].acts /\ sess'[q].pending = sess[q].pending
    BY <1>1, <2>3 DEF Snapshots
  <2>5. drv' = [drv EXCEPT ![d] = [drv[d] EXCEPT !.pc = "driving", !.on = [drv[d].on EXCEPT !.to = s], !.fresh = TRUE]]
    BY <2>3, ZenonT(60)
  <2>6. /\ drv'[d].pc = "driving" /\ drv'[d].act = drv[d].act /\ drv'[d].did = drv[d].did
        /\ \A c \in Drivers \ {d} : drv'[c] = drv[c]
    BY <1>1, <2>5 DEF DriverType
  <2>. QED  BY <1>2, <2>1, <2>2, <2>4, <2>6, SameActs DEF Over, Acted, Same, Asked
<1>7. CASE LockSession(d)
  <2>1. drv[d].pc = "admitted" /\ sess' = sess /\ settled' = settled /\ ~drv[d].did
    BY <1>7 DEF LockSession, ActsInv
  <2>2. CASE Gets(d, "ended", "retry")
    BY <1>2, <2>1, <2>2, GetsActs DEF Results, Asked
  <2>3. CASE drv' = [drv EXCEPT ![d].pc = "locked", ![d].on.lock = NextGrant]
    <3>1. drv[d].act = 0
      BY <2>1 DEF ActsInv, LocksInv, OnTheirWork
    <3>2. drv' = [drv EXCEPT ![d] = [drv[d] EXCEPT !.pc = "locked", !.on = [drv[d].on EXCEPT !.lock = NextGrant]]]
      BY <2>3, ZenonT(60)
    <3>3. /\ drv'[d].pc = "locked" /\ drv'[d].act = drv[d].act /\ drv'[d].did = drv[d].did
          /\ \A c \in Drivers \ {d} : drv'[c] = drv[c]
      BY <1>1, <3>2 DEF DriverType
    <3>. QED  BY <1>2, <2>1, <3>1, <3>3, SameActs DEF Over, Acted, Same, Asked
  <2>. QED  BY <1>7, <2>2, <2>3 DEF LockSession
<1>8. CASE Load(d)
  <2>1. /\ drv[d].pc = "locked" /\ d \in Runs /\ To(d) \in Sessions /\ settled' = settled
        /\ ~drv[d].did /\ drv[d].on.lock # 0
    BY <1>8 DEF Load, LocksInv, OnTheirWork, ActsInv
  <2>. DEFINE s == Stored(d)
  <2>2. s \in Snapshots
    BY <1>1, <2>1 DEF Stored
  <2>3. CASE Gets(d, "releasing", "failed") /\ UNCHANGED sess
    BY <1>2, <2>1, <2>3, GetsActs DEF Results, Asked
  <2>4. CASE Commits(d, [s EXCEPT !.status = "failed", !.pending = 0], Left(d, "releasing", "failed"))
    <3>. DEFINE m == [s EXCEPT !.status = "failed", !.pending = 0]
    <3>1. m \in Snapshots /\ m.pending = 0 /\ m.acts = sess[To(d)].acts
      <4>1. 0 \in 0..MaxActs /\ s.acts = sess[To(d)].acts
        BY DEF Stored
      <4>. HIDE DEF s
      <4>. QED  BY <2>2, <4>1 DEF Snapshots, Ended
    <3>. HIDE DEF m
    <3>2. /\ Left(d, "releasing", "failed") \in DriverType
          /\ Left(d, "releasing", "failed").pc = "releasing" /\ Left(d, "releasing", "failed").on = drv[d].on
          /\ Left(d, "releasing", "failed").act = drv[d].act /\ Left(d, "releasing", "failed").did = drv[d].did
          /\ Left(d, "releasing", "failed").result # "none"
      BY <2>1, LeftType DEF Places, Results
    <3>3. Commits(d, m, Left(d, "releasing", "failed"))
      BY <2>4 DEF m
    <3>4. /\ drv'[d] = Left(d, "releasing", "failed") /\ \A c \in Drivers \ {d} : Same(c)
          /\ sess'[To(d)] = m /\ \A q \in Sessions \ {To(d)} : sess'[q] = sess[q]
      BY <2>1, <3>1, <3>2, <3>3, CommitsType DEF Same
    <3>5. Over(d) /\ Acted(d)
      BY <2>1, <3>2, <3>4 DEF Over, Acted
    <3>. QED  BY <1>2, <2>1, <3>1, <3>4, <3>5, SameActs DEF Asked
  <2>5. CASE /\ drv' = [drv EXCEPT ![d].pc = "loaded", ![d].fresh = TRUE,
                          ![d].act = IF drv[d].conf = "yes" THEN s.pending ELSE 0]
             /\ UNCHANGED sess
    <3>1. /\ drv'[d].pc = "loaded" /\ drv'[d].did = drv[d].did /\ drv'[d].on = drv[d].on
          /\ drv'[d].act = IF drv[d].conf = "yes" THEN s.pending ELSE 0
          /\ \A c \in Drivers \ {d} : drv'[c] = drv[c]
      BY <1>1, <2>5 DEF DriverType
    <3>2. To(d)' = To(d) /\ s.pending = sess[To(d)].pending
      BY <3>1 DEF To, Stored
    <3>3. Over(d) /\ Acted(d)
      BY <2>1, <2>5, <3>1, <3>2 DEF Over, Acted
    <3>4. \A c \in Drivers \ {d} : Same(c)
      BY <3>1 DEF Same
    <3>5. \A q \in Sessions : sess'[q] = sess[q]
      BY <2>5
    <3>. QED  BY <2>1, <3>3, <3>4, <3>5, SameActs, SameAsked
  <2>. QED  BY <1>8, <2>3, <2>4, <2>5 DEF Load
<1>9. CASE Begin(d)
  <2>1. drv[d].pc = "loaded" /\ To(d) \in Sessions /\ settled' = settled
    BY <1>9 DEF Begin, LocksInv, OnTheirWork
  <2>. DEFINE left == IF drv[d].conf = "no" THEN 0 ELSE Stored(d).pending
              m == [Stored(d) EXCEPT !.status = "running", !.pending = left]
              next == [drv[d] EXCEPT !.pc = "driving"]
              last == Left(d, "releasing", "retry")
  <2>2. CASE Commits(d, m, IF drv[d].asked THEN last ELSE next)
    <3>1. /\ Stored(d) \in Snapshots /\ drv[d] \in DriverType /\ Stored(d) = sess[To(d)]
          /\ left \in {0, Stored(d).pending}
      BY <1>1, <2>1 DEF Stored
    <3>2. left \in 0..MaxActs
      BY <3>1 DEF Snapshots
    <3>. HIDE DEF left
    <3>3. m \in Snapshots /\ m.pending = left /\ m.acts = Stored(d).acts
      BY <3>1, <3>2 DEF Snapshots
    <3>4. /\ next \in DriverType /\ next.pc = "driving" /\ next.on = drv[d].on
          /\ next.act = drv[d].act /\ next.did = drv[d].did
          /\ last \in DriverType /\ (d = User => last = Idle)
          /\ d # User => /\ last.pc = "releasing" /\ last.on = drv[d].on /\ last.act = drv[d].act
                         /\ last.did = drv[d].did /\ last.result # "none"
      BY <3>1, LeftType DEF DriverType, Places, Results
    <3>. HIDE DEF m, next, last
    <3>5. /\ drv'[d] \in {next, last} /\ \A c \in Drivers \ {d} : Same(c)
          /\ sess'[To(d)] = m /\ \A q \in Sessions \ {To(d)} : sess'[q] = sess[q]
      BY <2>1, <2>2, <3>3, <3>4, CommitsType DEF Same
    <3>6. Over(d) /\ Acted(d)
      BY <2>1, <3>4, <3>5, IdleType DEF Over, Acted, Idle
    <3>. QED  BY <1>2, <2>1, <3>1, <3>3, <3>5, <3>6, SameActs DEF Asked
  <2>3. CASE Gets(d, "releasing", "retry") /\ UNCHANGED sess
    BY <1>2, <2>1, <2>3, GetsActs DEF Results, Asked
  <2>. QED  BY <1>9, <2>2, <2>3 DEF Begin
<1>10. CASE Perform(d)
  <2>1. /\ drv[d].pc = "driving" /\ drv[d].act # 0 /\ drv' = [drv EXCEPT ![d].did = TRUE]
        /\ sess' = sess /\ settled' = settled
    BY <1>10 DEF Perform
  <2>2. /\ drv'[d].pc = "driving" /\ drv'[d].on = drv[d].on /\ drv'[d].act = drv[d].act /\ drv'[d].did
        /\ \A c \in Drivers \ {d} : drv'[c] = drv[c]
    BY <1>1, <2>1 DEF DriverType
  <2>3. \A c \in Drivers \ {d} : Same(c)
    BY <2>2 DEF Same
  <2>4. Over(d) /\ Acted(d)
    BY <2>1, <2>2 DEF Over, Acted
  <2>5. \A q \in Sessions : sess'[q] = sess[q]
    BY <2>1
  <2>. QED  BY <2>1, <2>3, <2>4, <2>5, SameActs, SameAsked
<1>11. CASE BeatLock(d)
  <2>1. sess' = sess /\ settled' = settled /\ (drv' = drv \/ Cancels(d))
    BY <1>11 DEF BeatLock
  <2>2. \A c \in Drivers : Same(c)
    BY <2>1, CancelsType DEF Same
  <2>. QED  BY <1>2, <2>1, <2>2, SameActs DEF Asked
<1>12. CASE LoseLease(d) \/ Unwind(d)
  <2>1. /\ sess' = sess /\ settled' = settled
        /\ Cancels(d) \/ \E place \in {"releasing", "ended"} : Gets(d, place, "retry")
    BY <1>12 DEF LoseLease, Unwind
  <2>2. CASE Cancels(d)
    <3>1. \A c \in Drivers : Same(c)
      BY <2>2, CancelsType DEF Same
    <3>. QED  BY <1>2, <2>1, <3>1, SameActs DEF Asked
  <2>3. CASE \E place \in {"releasing", "ended"} : Gets(d, place, "retry")
    BY <1>2, <2>1, <2>3, GetsActs DEF Results, Asked
  <2>. QED  BY <2>1, <2>2, <2>3
<1>13. CASE ReleaseSession(d)
  <2>1. drv[d].pc = "releasing" /\ sess' = sess /\ settled' = settled /\ Goes(d, "ended")
    BY <1>13 DEF ReleaseSession
  <2>. QED  BY <1>2, <2>1, GoesActs DEF Places, Asked
<1>. QED
  BY <1>2, <1>3, <1>4, <1>5, <1>6, <1>7, <1>8, <1>9, <1>10, <1>11, <1>12, <1>13
  DEF DriverNext, Asked

LEMMA SettleSteps ==
  ASSUME LocksInv, ActsInv, NEW d \in Drivers, Settle(d)
  PROVE  /\ \A c \in Drivers : Over(c) /\ Acted(c)
         /\ \A s \in Sessions : Asked(s)
         /\ settled' = settled \/ (d \in Runs /\ Settled(d))
<1>. USE DriverTypes
<1>1. /\ drv \in [Drivers -> DriverType] /\ sess \in [Sessions -> Snapshots]
      /\ drv[d].pc = "driving" /\ To(d) \in Sessions /\ drv[d].on.to = To(d)
  BY DEF LocksInv, WorkShape, Settle, OnTheirWork, To
<1>2. CASE Gets(d, "releasing", "retry") /\ UNCHANGED <<sess, settled>>
  <2>1. \A q \in Sessions : sess'[q] = sess[q]
    BY <1>2
  <2>. QED  BY <1>2, <2>1, GetsActs, SameAsked DEF Results
<1>3. CASE /\ drv[d].fresh
           /\ \E m \in Outcomes(Stored(d)) :
                Commits(d, m, Left(d, "releasing", IF m.status = "failed" THEN "failed" ELSE "completed"))
           /\ settled' = IF d # User /\ drv[d].did
                         THEN [settled EXCEPT ![To(d)] = @ \cup {drv[d].act}] ELSE settled
  <2>1. PICK m \in Outcomes(Stored(d)) :
          Commits(d, m, Left(d, "releasing", IF m.status = "failed" THEN "failed" ELSE "completed"))
    BY <1>3
  <2>2. /\ m \in Snapshots /\ sess[To(d)] \in Snapshots
        /\ \/ m.pending = 0 /\ m.acts = sess[To(d)].acts
           \/ m.pending = m.acts /\ m.acts = sess[To(d)].acts + 1
    BY <1>1, <2>1 DEF Outcomes, Stored
  <2>. DEFINE result == IF m.status = "failed" THEN "failed" ELSE "completed"
  <2>3. result \in Results \ {"none"}
    BY DEF Results
  <2>4. Commits(d, m, Left(d, "releasing", result))
    BY <2>1
  <2>. HIDE DEF result
  <2>5. /\ Left(d, "releasing", result) \in DriverType
        /\ d = User => Left(d, "releasing", result) = Idle
        /\ d # User => /\ Left(d, "releasing", result).pc = "releasing"
                       /\ Left(d, "releasing", result).on = drv[d].on
                       /\ Left(d, "releasing", result).act = drv[d].act
                       /\ Left(d, "releasing", result).did = drv[d].did
                       /\ Left(d, "releasing", result).result \in {result, "retry"}
    BY <2>3, LeftType DEF Places
  <2>6. /\ drv'[d] = Left(d, "releasing", result) /\ \A c \in Drivers \ {d} : Same(c)
        /\ sess'[To(d)] = m /\ \A q \in Sessions \ {To(d)} : sess'[q] = sess[q]
    BY <1>1, <2>2, <2>4, <2>5, CommitsType DEF Same
  <2>7. Over(d) /\ Acted(d)
    BY <2>3, <2>5, <2>6 DEF Over, Acted, Idle
  <2>8. Asked(To(d))
    BY <1>1, <2>2, <2>6 DEF Asked, Snapshots
  <2>9. settled' = settled \/ (d \in Runs /\ Settled(d))
    <3>1. CASE d # User /\ drv[d].did
      <4>1. drv'[d].pc = "releasing"
        BY <2>5, <2>6, <3>1
      <4>2. sess'[To(d)].pending = 0 \/ sess'[To(d)].pending > sess[To(d)].acts
        BY <2>2, <2>6 DEF Snapshots
      <4>. QED  BY <1>1, <1>3, <3>1, <4>1, <4>2 DEF Settled
    <3>2. CASE ~(d # User /\ drv[d].did)
      BY <1>3, <3>2
    <3>. QED  BY <3>1, <3>2
  <2>. QED  BY <1>1, <2>6, <2>7, <2>8, <2>9, SameActs, SameAsked
<1>. QED  BY <1>2, <1>3 DEF Settle

LEMMA UserSteps ==
  ASSUME LocksInv, ActsInv, NEW s \in Sessions, UserNext(s)
  PROVE  /\ \A c \in Drivers : Over(c) /\ Acted(c)
         /\ \A q \in Sessions : Asked(q)
         /\ settled' = settled
<1>. USE DriverTypes
<1>1. /\ drv \in [Drivers -> DriverType] /\ sess \in [Sessions -> Snapshots]
  BY DEF LocksInv, WorkShape
<1>2. CASE UserRuns(s)
  <2>. DEFINE new == [Idle EXCEPT !.pc = "driving", !.on.to = s, !.fresh = TRUE]
  <2>1. /\ drv' = [drv EXCEPT ![User] = new] /\ settled' = settled
        /\ sess' = [sess EXCEPT ![s].status = "running"]
    BY <1>2 DEF UserRuns
  <2>2. new.pc = "driving" /\ new.act = 0 /\ new.did = FALSE
    BY DEF Idle
  <2>. HIDE DEF new
  <2>3. drv'[User] = new /\ \A c \in Drivers \ {User} : drv'[c] = drv[c]
    BY <1>1, <2>1
  <2>4. \A q \in Sessions : sess'[q].acts = sess[q].acts /\ sess'[q].pending = sess[q].pending
    BY <1>1, <2>1 DEF Snapshots
  <2>5. \A q \in Sessions : Asked(q)
    BY <1>1, <2>4 DEF Asked, Snapshots
  <2>6. Over(User) /\ Acted(User) /\ \A c \in Drivers \ {User} : Same(c)
    BY <2>2, <2>3 DEF Over, Acted, Same
  <2>. QED  BY <2>1, <2>5, <2>6, SameActs
<1>3. ASSUME NEW conf \in {"unset", "yes", "no"}, UserResumes(s, conf)
      PROVE  /\ \A c \in Drivers : Over(c) /\ Acted(c)
             /\ \A q \in Sessions : Asked(q)
             /\ settled' = settled
  <2>. DEFINE act == IF conf = "yes" THEN sess[s].pending ELSE 0
              new == [Idle EXCEPT !.pc = "loaded", !.on.to = s, !.fresh = TRUE, !.conf = conf, !.act = act]
  <2>1. /\ drv' = [drv EXCEPT ![User] = new] /\ settled' = settled /\ sess' = sess
    BY <1>3 DEF UserResumes
  <2>2. new.pc = "loaded" /\ new.act = act /\ new.did = FALSE /\ new.on.to = s
    BY DEF Idle, NoWork
  <2>. HIDE DEF new
  <2>3. drv'[User] = new /\ \A c \in Drivers \ {User} : drv'[c] = drv[c]
    BY <1>1, <2>1
  <2>4. Over(User) /\ Acted(User) /\ \A c \in Drivers \ {User} : Same(c)
    BY <2>1, <2>2, <2>3 DEF Over, Acted, Same, To
  <2>. QED  BY <2>1, <2>4, SameActs, SameAsked
<1>4. ASSUME NEW status \in {"waiting", "cancelled"}, UserControls(s, status)
      PROVE  /\ \A c \in Drivers : Over(c) /\ Acted(c)
             /\ \A q \in Sessions : Asked(q)
             /\ settled' = settled
  <2>1. settled' = settled
    BY <1>4 DEF UserControls
  <2>2. /\ sess'[s].acts = sess[s].acts /\ sess'[s].pending \in {0, sess[s].pending}
        /\ \A q \in Sessions \ {s} : sess'[q] = sess[q]
        /\ \A c \in Drivers : Same(c)
    BY <1>4, ControlType DEF Same
  <2>3. Asked(s)
    BY <1>1, <2>2 DEF Asked, Snapshots
  <2>. QED  BY <2>1, <2>2, <2>3, SameActs, SameAsked
<1>. QED  BY <1>2, <1>3, <1>4 DEF UserNext

\* Renewed in time, no two grants of one lock are good, so no two runs work under it.
LEMMA OneRun ==
  ASSUME LocksInv, PunctualLocks, NEW c \in Runs, NEW d \in Runs,
         UnderLock(c), UnderLock(d), To(c) = To(d)
  PROVE  c = d
<1>1. locks[To(c)].no = drv[c].on.lock /\ locks[To(d)].no = drv[d].on.lock
  BY DEF LocksInv, Renewed, Usable, Presents
<1>. QED  BY <1>1 DEF LocksInv, Apart, UnderLock, Working

-----------------------------------------------------------------------------
(* What the handlers do to the registry beneath.                             *)

\* The registry numbers no more grants than it is bounded to.
GrantsBounded == grants <= MaxGrants

\* What a run presents to the registry is an owner id and a lease number.
LEMMA RunPresents ==
  ASSUME LocksInv, GrantsBounded, NEW d \in Drivers, drv[d].on.lock # 0
  PROVE  OwnerOf(d) \in Owners /\ drv[d].on.lock \in 1..MaxGrants /\ To(d) \in LockKeys
<1>1. d \in Runs /\ drv[d].pc # "idle"
  BY DriverTypes DEF LocksInv, OnTheirWork
<1>2. drv[d].on.lock \in Nat /\ drv[d].on.lock <= grants /\ grants \in Nat /\ MaxGrants \in Nat
  BY <1>1, DriverTypes DEF LocksInv, OnTheirWork, WorkShape, LockTypeOK
<1>. QED  BY <1>1, <1>2, OwnerIsOwner DEF LocksInv, OnTheirWork, GrantsBounded, Sessions

LEMMA WorkStepIsLockStep ==
  ASSUME LocksInv, GrantsBounded, [WorkNext]_svars
  PROVE  [LockNext]_lvars
<1>1. CASE UNCHANGED <<locks, grants>>
  BY <1>1 DEF lvars
<1>2. CASE Time
  BY <1>2 DEF Time, LockNext
<1>3. ASSUME NEW d \in Drivers, LockSession(d)
      PROVE  LockNext
  <2>1. d \in Runs /\ drv[d].pc # "idle"
    BY <1>3, DriverTypes DEF LockSession, LocksInv, OnTheirWork
  <2>2. OwnerOf(d) \in Owners /\ To(d) \in LockKeys
    BY <2>1, OwnerIsOwner DEF LocksInv, OnTheirWork, Sessions, Drivers
  <2>. QED  BY <1>3, <2>2 DEF LockSession, LockNext
<1>4. ASSUME NEW d \in Drivers, BeatLock(d)
      PROVE  LockNext
  <2>1. drv[d].on.lock # 0
    BY <1>4 DEF BeatLock, UnderLock, Working
  <2>. QED  BY <1>4, <2>1, RunPresents DEF BeatLock, LockNext
<1>5. ASSUME NEW d \in Drivers, ReleaseSession(d)
      PROVE  [LockNext]_lvars
  <2>1. CASE drv[d].on.lock = 0
    BY <1>5, <2>1 DEF ReleaseSession, lvars
  <2>2. CASE drv[d].on.lock # 0
    BY <1>5, <2>2, RunPresents DEF ReleaseSession, LockNext
  <2>. QED  BY <2>1, <2>2
<1>6. ASSUME NEW j \in Jobs, Lapse(j) \/ \E kind \in Kinds[j] : Schedule(j, kind)
      PROVE  UNCHANGED <<locks, grants>>
  BY <1>6 DEF Lapse, Schedule
<1>7. ASSUME NEW d \in Drivers, DriverNext(d)
      PROVE  \/ UNCHANGED <<locks, grants>>
             \/ LockSession(d) \/ BeatLock(d) \/ ReleaseSession(d)
  BY <1>7 DEF DriverNext, Take, Report, HandleWork, HandleGoal, Load, Begin, Perform, Settle, LoseLease,
              Unwind, Crash
<1>8. ASSUME NEW s \in Sessions, UserNext(s)
      PROVE  UNCHANGED <<locks, grants>>
  BY <1>8 DEF UserNext, UserRuns, UserResumes, UserControls
<1>9. CASE UNCHANGED svars
  BY <1>9 DEF svars, lvars
<1>. QED  BY <1>1, <1>2, <1>3, <1>4, <1>5, <1>6, <1>7, <1>8, <1>9 DEF WorkNext

LEMMA GrantsStayBounded == GrantsBounded /\ [LockNext]_lvars => GrantsBounded'
BY DEF GrantsBounded, LockNext, lvars, ExpireLocks, LockTick, AcquireFree, AcquireOwned,
       AcquireConflict, LockLost, HeartbeatLock, Release

-----------------------------------------------------------------------------
(* Who may commit.                                                           *)

\* The driver has committed, and its snapshot is still the stored one.
Writes(d) == drv[d].pc = "driving" /\ drv[d].fresh

\* A run that resumes a session under a lock.
Resumes(d) == drv[d].pc \in {"loaded", "driving"} /\ drv[d].on.lock # 0

\* While a driver may commit its session is running, and no other driver may; a run that
\* may commit under a lock leaves no other at work but one that overstays.
DriveInv ==
  /\ GrantsBounded
  /\ \A c \in Drivers : Writes(c) => sess[To(c)].status = "running"
  /\ \A c, d \in Drivers : Writes(c) /\ Writes(d) /\ To(c) = To(d) => c = d
  /\ PunctualLocks =>
       \A c, d \in Runs :
         c # d /\ Writes(c) /\ Resumes(c) /\ Resumes(d) /\ To(c) = To(d) => Overstays(d)

\* How a driver comes to be one that may commit: it was, it begins, or its session is new.
Starting(c) ==
  /\ drv[c].pc = "loaded" /\ ~drv[c].asked /\ drv'[c].on = drv[c].on /\ To(c) \in Sessions
  /\ sess'[To(c)].status = "running" /\ UNCHANGED <<locks, grants>>
  /\ \A d \in Drivers \ {c} : /\ drv'[d].pc = drv[d].pc /\ drv'[d].on = drv[d].on
                              /\ drv'[d].asked = drv[d].asked
                              /\ drv'[d].fresh => To(d) # To(c)

Creating(c) ==
  /\ To(c)' \in Sessions /\ drv'[c].on.lock = 0
  /\ sess[To(c)'].status = "none" /\ sess'[To(c)'].status = "running"
  /\ \A d \in Drivers \ {c} : drv'[d] = drv[d]

Keeping(c) == Writes(c) /\ drv'[c].on = drv[c].on /\ sess'[To(c)] = sess[To(c)]

MayDrive(c) == Writes(c)' => Keeping(c) \/ Starting(c) \/ Creating(c)

\* How a run comes to be one that resumes.
Resumed(d) ==
  d \in Runs /\ Resumes(d)' =>
    /\ drv'[d].on = drv[d].on /\ (drv[d].asked => drv'[d].asked)
    /\ drv[d].pc \in {"loaded", "driving"} \/ (drv[d].pc = "locked" /\ sess[To(d)].status = "waiting")

\* A driver that another one's step leaves where it is.
Bystander(c) ==
  /\ drv'[c].pc = drv[c].pc /\ drv'[c].on = drv[c].on /\ drv'[c].asked = drv[c].asked
  /\ Writes(c)' => Writes(c) /\ sess'[To(c)] = sess[To(c)]

LEMMA Bystanders == ASSUME NEW c, Bystander(c) PROVE MayDrive(c) /\ Resumed(c)
BY DEF Bystander, MayDrive, Resumed, Keeping, Resumes

\* A driver that is neither at work nor a run that resumes.
LEMMA AtRest ==
  ASSUME NEW c, drv'[c].pc \notin {"loaded", "driving"}
  PROVE  MayDrive(c) /\ Resumed(c)
BY DEF MayDrive, Resumed, Writes, Resumes

\* A step that changes no session.
LEMMA SessionsStay ==
  ASSUME NEW c, sess' = sess, drv'[c] = drv[c]
  PROVE  Bystander(c)
BY DEF Bystander, Writes

\* A commit by another driver.
LEMMA OthersCommit ==
  ASSUME LocksInv, NEW d \in Drivers, To(d) \in Sessions, NEW m \in Snapshots,
         NEW next \in DriverType, Commits(d, m, next)
  PROVE  \A c \in Drivers \ {d} : Bystander(c)
<1>1. /\ \A c \in Drivers \ {d} : /\ drv'[c].pc = drv[c].pc /\ drv'[c].on = drv[c].on
                                  /\ drv'[c].asked = drv[c].asked
                                  /\ drv'[c].fresh => drv[c].fresh /\ To(c) # To(d)
      /\ \A s \in Sessions \ {To(d)} : sess'[s] = sess[s]
  BY CommitsType
<1>2. \A c \in Drivers : drv[c].pc = "driving" => To(c) \in Sessions
  BY DEF LocksInv, OnTheirWork
<1>3. ASSUME NEW c \in Drivers \ {d}, drv'[c].pc = "driving", drv'[c].fresh
      PROVE  drv[c].pc = "driving" /\ drv[c].fresh /\ sess'[To(c)] = sess[To(c)]
  <2>1. drv[c].pc = "driving" /\ drv[c].fresh /\ To(c) # To(d)
    BY <1>1, <1>3, Zenon
  <2>. QED  BY <1>1, <1>2, <2>1
<1>4. ASSUME NEW c \in Drivers \ {d}
      PROVE  drv'[c].pc = "driving" /\ drv'[c].fresh =>
               drv[c].pc = "driving" /\ drv[c].fresh /\ sess'[To(c)] = sess[To(c)]
  BY <1>3, Zenon
<1>. QED  BY <1>1, <1>4, Zenon DEF Bystander, Writes

LEMMA DriveSteps ==
  ASSUME LocksInv, DriveInv, NEW d \in Drivers, DriverNext(d)
  PROVE  \A c \in Drivers : MayDrive(c) /\ Resumed(c)
<1>. USE DriverTypes
<1>1. /\ drv \in [Drivers -> DriverType] /\ sess \in [Sessions -> Snapshots]
  BY DEF LocksInv, WorkShape
<1>2. ASSUME sess' = sess, NEW new, drv' = [drv EXCEPT ![d] = new], new.pc \notin {"loaded", "driving"}
      PROVE  \A c \in Drivers : MayDrive(c) /\ Resumed(c)
  <2>1. drv'[d] = new /\ \A c \in Drivers \ {d} : drv'[c] = drv[c]
    BY <1>1, <1>2
  <2>. QED  BY <1>2, <2>1, SessionsStay, Bystanders, AtRest
<1>3. ASSUME sess' = sess, NEW place \in {"releasing", "ended"}, NEW result \in Results, Gets(d, place, result)
      PROVE  \A c \in Drivers : MayDrive(c) /\ Resumed(c)
  <2>. DEFINE left == Left(d, place, result)
  <2>1. left.pc \notin {"loaded", "driving"}
    BY <1>3, LeftType, IdleType DEF Places
  <2>2. drv' = [drv EXCEPT ![d] = left]
    BY <1>3 DEF Gets
  <2>. HIDE DEF left
  <2>. QED  BY <1>2, <1>3, <2>1, <2>2
<1>4. ASSUME sess' = sess, Cancels(d)
      PROVE  \A c \in Drivers : MayDrive(c) /\ Resumed(c)
  <2>1. Bystander(d) \/ (/\ drv'[d].pc = drv[d].pc /\ drv'[d].on = drv[d].on /\ drv'[d].asked
                          /\ drv'[d].fresh = drv[d].fresh)
    BY <1>4, CancelsType
  <2>2. MayDrive(d) /\ Resumed(d)
    BY <1>4, CancelsType DEF MayDrive, Resumed, Keeping, Writes, Resumes
  <2>. QED  BY <1>4, <2>2, CancelsType, SessionsStay, Bystanders
<1>5. ASSUME NEW m \in Snapshots, NEW next \in DriverType, To(d) \in Sessions, Commits(d, m, next),
             next.pc \notin {"loaded", "driving"}
      PROVE  \A c \in Drivers : MayDrive(c) /\ Resumed(c)
  <2>1. drv'[d] = next
    BY <1>5, CommitsType
  <2>. QED  BY <1>5, <2>1, OthersCommit, Bystanders, AtRest
<1>6. CASE (\E j \in Jobs : Take(d, j)) \/ Report(d) \/ Crash(d)
  <2>1. /\ sess' = sess
        /\ \/ \E on, conf : drv' = [drv EXCEPT ![d] = [Idle EXCEPT !.pc = "taken", !.on = on, !.conf = conf]]
           \/ drv' = [drv EXCEPT ![d] = Idle]
    BY <1>6 DEF Take, Report, Crash
  <2>2. /\ \A on, conf : [Idle EXCEPT !.pc = "taken", !.on = on, !.conf = conf].pc = "taken"
        /\ Idle.pc = "idle"
    BY DEF Idle
  <2>. QED  BY <1>2, <2>1, <2>2
<1>7. CASE HandleWork(d)
  <2>1. sess' = sess /\ drv[d].pc = "taken" /\ d \in Runs
    BY <1>7 DEF HandleWork, LocksInv, OnTheirWork
  <2>2. Kind(d) \in {"agent_session", "task", "tool_action"}
    <3>1. drv[d].on.job \in Jobs /\ work[drv[d].on.job].kind # "none"
      BY <2>1 DEF LocksInv, OnTheirWork, Queued
    <3>2. work[drv[d].on.job].kind \in {"none"} \cup Kinds[drv[d].on.job]
      BY <3>1 DEF LocksInv, WorkShape, ItemType
    <3>. QED  BY <1>7, <3>1, <3>2 DEF Kind, Named, HandleWork
  <2>3. Goes(d, "admitted") \/ (Gets(d, "ended", Look(d)) /\ Look(d) \in Results)
    BY <1>7, <2>2 DEF HandleWork, Look, Results
  <2>4. CASE Goes(d, "admitted")
    <3>1. drv'[d].pc = "admitted" /\ \A c \in Drivers \ {d} : drv'[c] = drv[c]
      BY <2>4, PlaceType DEF Places
    <3>. QED  BY <2>1, <3>1, SessionsStay, Bystanders, AtRest
  <2>. QED  BY <1>3, <2>1, <2>3, <2>4
<1>8. CASE HandleGoal(d)
  <2>1. drv[d].pc = "taken" /\ d \in Runs /\ drv[d].on.lock = 0
    BY <1>8 DEF HandleGoal, LocksInv, OnTheirWork
  <2>2. PICK s \in Sessions :
          /\ sess[s].status = "none" /\ sess' = [sess EXCEPT ![s].status = "running"]
          /\ drv' = [drv EXCEPT ![d].pc = "driving", ![d].on.to = s, ![d].fresh = TRUE]
    BY <1>8 DEF HandleGoal
  <2>3. sess'[s].status = "running" /\ \A q \in Sessions \ {s} : sess'[q] = sess[q]
    BY <1>1, <2>2 DEF Snapshots
  <2>4. drv' = [drv EXCEPT ![d] = [drv[d] EXCEPT !.pc = "driving", !.on = [drv[d].on EXCEPT !.to = s], !.fresh = TRUE]]
    BY <2>2, ZenonT(60)
  <2>5. /\ drv'[d].on.to = s /\ drv'[d].on.lock = 0
        /\ \A c \in Drivers \ {d} : drv'[c] = drv[c]
    BY <1>1, <2>1, <2>4 DEF DriverType, OnType
  <2>6. MayDrive(d) /\ Resumed(d)
    BY <2>2, <2>3, <2>5 DEF MayDrive, Resumed, Creating, Resumes, To
  <2>7. \A c \in Drivers \ {d} : Bystander(c)
    <3>1. \A c \in Drivers : Writes(c) => To(c) # s /\ To(c) \in Sessions
      BY <2>2 DEF DriveInv, LocksInv, OnTheirWork, Writes
    <3>2. \A c \in Drivers \ {d} : Writes(c)' => Writes(c)
      BY <2>5 DEF Writes
    <3>. QED  BY <2>3, <2>5, <3>1, <3>2 DEF Bystander
  <2>. QED  BY <2>6, <2>7, Bystanders
<1>9. CASE LockSession(d)
  <2>1. sess' = sess
    BY <1>9 DEF LockSession
  <2>2. CASE Gets(d, "ended", "retry")
    BY <1>3, <2>1, <2>2 DEF Results
  <2>3. CASE drv' = [drv EXCEPT ![d].pc = "locked", ![d].on.lock = NextGrant]
    <3>2. drv' = [drv EXCEPT ![d] = [drv[d] EXCEPT !.pc = "locked", !.on = [drv[d].on EXCEPT !.lock = NextGrant]]]
      BY <2>3, ZenonT(60)
    <3>3. drv'[d].pc = "locked" /\ \A c \in Drivers \ {d} : drv'[c] = drv[c]
      BY <1>1, <3>2 DEF DriverType
    <3>. QED  BY <2>1, <3>3, SessionsStay, Bystanders, AtRest
  <2>. QED  BY <1>9, <2>2, <2>3 DEF LockSession
<1>10. CASE Load(d)
  <2>1. drv[d].pc = "locked" /\ To(d) \in Sessions /\ ~drv[d].asked
    BY <1>10 DEF Load, LocksInv, OnTheirWork
  <2>. DEFINE s == Stored(d)
  <2>2. s \in Snapshots /\ s = sess[To(d)]
    BY <1>1, <2>1 DEF Stored
  <2>3. CASE Gets(d, "releasing", "failed") /\ UNCHANGED sess
    BY <1>3, <2>3 DEF Results
  <2>4. CASE Commits(d, [s EXCEPT !.status = "failed", !.pending = 0], Left(d, "releasing", "failed"))
    <3>. DEFINE m == [s EXCEPT !.status = "failed", !.pending = 0]
                next == Left(d, "releasing", "failed")
    <3>1. m \in Snapshots
      <4>1. 0 \in 0..MaxActs
        OBVIOUS
      <4>. HIDE DEF s
      <4>. QED  BY <2>2, <4>1 DEF Snapshots, Ended
    <3>2. next \in DriverType /\ next.pc \notin {"loaded", "driving"}
      BY LeftType, IdleType DEF Places, Results
    <3>3. Commits(d, m, next)
      BY <2>4
    <3>. HIDE DEF m, next
    <3>. QED  BY <1>5, <2>1, <3>1, <3>2, <3>3
  <2>5. CASE /\ s.status = "waiting"
             /\ drv' = [drv EXCEPT ![d].pc = "loaded", ![d].fresh = TRUE,
                          ![d].act = IF drv[d].conf = "yes" THEN s.pending ELSE 0]
             /\ UNCHANGED sess
    <3>1. /\ drv'[d].pc = "loaded" /\ drv'[d].on = drv[d].on
          /\ \A c \in Drivers \ {d} : drv'[c] = drv[c]
      BY <1>1, <2>5 DEF DriverType
    <3>2. MayDrive(d) /\ Resumed(d)
      BY <2>1, <2>2, <2>5, <3>1 DEF MayDrive, Resumed, Writes
    <3>. QED  BY <2>5, <3>1, <3>2, SessionsStay, Bystanders
  <2>. QED  BY <1>10, <2>3, <2>4, <2>5 DEF Load
<1>11. CASE Begin(d)
  <2>1. drv[d].pc = "loaded" /\ To(d) \in Sessions /\ UNCHANGED <<locks, grants>>
    BY <1>11 DEF Begin, LocksInv, OnTheirWork
  <2>. DEFINE left == IF drv[d].conf = "no" THEN 0 ELSE Stored(d).pending
              m == [Stored(d) EXCEPT !.status = "running", !.pending = left]
              next == [drv[d] EXCEPT !.pc = "driving"]
              last == Left(d, "releasing", "retry")
  <2>2. CASE Commits(d, m, IF drv[d].asked THEN last ELSE next)
    <3>1. Stored(d) \in Snapshots /\ drv[d] \in DriverType /\ left \in {0, Stored(d).pending}
      BY <1>1, <2>1 DEF Stored
    <3>2. left \in 0..MaxActs
      BY <3>1 DEF Snapshots
    <3>. HIDE DEF left
    <3>3. m \in Snapshots /\ m.status = "running"
      BY <3>1, <3>2 DEF Snapshots
    <3>4. /\ next \in DriverType /\ next.pc = "driving" /\ next.on = drv[d].on
          /\ next.asked = drv[d].asked /\ next.fresh = drv[d].fresh
          /\ last \in DriverType /\ last.pc \notin {"loaded", "driving"}
      BY <3>1, LeftType, IdleType DEF DriverType, Places, Results
    <3>. HIDE DEF m, next, last
    <3>5. CASE drv[d].asked
      BY <1>5, <2>1, <2>2, <3>3, <3>4, <3>5
    <3>6. CASE ~drv[d].asked
      <4>1. /\ drv'[d] = next /\ sess'[To(d)].status = "running"
            /\ \A c \in Drivers \ {d} : /\ drv'[c].pc = drv[c].pc /\ drv'[c].on = drv[c].on
                                        /\ drv'[c].asked = drv[c].asked
                                        /\ drv'[c].fresh => drv[c].fresh /\ To(c) # To(d)
        BY <2>1, <2>2, <3>3, <3>4, <3>6, CommitsType
      <4>2. MayDrive(d) /\ Resumed(d)
        <5>1. drv'[d].on = drv[d].on /\ drv'[d].asked = drv[d].asked
          BY <3>4, <4>1
        <5>0. \A c \in Drivers \ {d} : /\ drv'[c].pc = drv[c].pc /\ drv'[c].on = drv[c].on
                                       /\ drv'[c].asked = drv[c].asked
                                       /\ drv'[c].fresh => To(c) # To(d)
          BY <4>1, Zenon
        <5>2. Starting(d)
          BY <2>1, <3>6, <4>1, <5>0, <5>1 DEF Starting
        <5>. QED  BY <2>1, <5>1, <5>2 DEF MayDrive, Resumed
      <4>3. \A c \in Drivers \ {d} : Bystander(c)
        BY <2>1, <2>2, <3>3, <3>4, <3>6, OthersCommit
      <4>. QED  BY <4>2, <4>3, Bystanders
    <3>. QED  BY <3>5, <3>6
  <2>3. CASE Gets(d, "releasing", "retry") /\ UNCHANGED sess
    BY <1>3, <2>3 DEF Results
  <2>. QED  BY <1>11, <2>2, <2>3 DEF Begin
<1>12. CASE Perform(d)
  <2>1. sess' = sess /\ drv' = [drv EXCEPT ![d].did = TRUE]
    BY <1>12 DEF Perform
  <2>2. /\ drv'[d].pc = drv[d].pc /\ drv'[d].on = drv[d].on /\ drv'[d].asked = drv[d].asked
        /\ drv'[d].fresh = drv[d].fresh /\ \A c \in Drivers \ {d} : drv'[c] = drv[c]
    BY <1>1, <2>1 DEF DriverType
  <2>3. Bystander(d)
    BY <2>1, <2>2 DEF Bystander, Writes
  <2>. QED  BY <2>1, <2>2, <2>3, SessionsStay, Bystanders
<1>13. CASE Settle(d)
  <2>1. To(d) \in Sessions
    BY <1>13 DEF Settle, LocksInv, OnTheirWork
  <2>2. CASE Gets(d, "releasing", "retry") /\ UNCHANGED sess
    BY <1>3, <2>2 DEF Results
  <2>3. CASE \E m \in Outcomes(Stored(d)) :
               Commits(d, m, Left(d, "releasing", IF m.status = "failed" THEN "failed" ELSE "completed"))
    <3>1. PICK m \in Outcomes(Stored(d)) :
            Commits(d, m, Left(d, "releasing", IF m.status = "failed" THEN "failed" ELSE "completed"))
      BY <2>3
    <3>. DEFINE next == Left(d, "releasing", IF m.status = "failed" THEN "failed" ELSE "completed")
    <3>2. next \in DriverType /\ next.pc \notin {"loaded", "driving"}
      BY LeftType, IdleType DEF Places, Results
    <3>3. m \in Snapshots /\ Commits(d, m, next)
      BY <3>1 DEF Outcomes
    <3>. HIDE DEF next
    <3>. QED  BY <1>5, <2>1, <3>2, <3>3
  <2>. QED  BY <1>13, <2>2, <2>3 DEF Settle
<1>14. CASE BeatLock(d) \/ LoseLease(d) \/ Unwind(d)
  <2>1. sess' = sess
    BY <1>14 DEF BeatLock, LoseLease, Unwind
  <2>2. CASE drv' = drv
    BY <2>1, <2>2, SessionsStay, Bystanders
  <2>3. CASE \E place \in {"releasing", "ended"} : Gets(d, place, "retry")
    BY <1>3, <2>1, <2>3 DEF Results
  <2>. QED  BY <1>4, <1>14, <2>1, <2>2, <2>3 DEF BeatLock, LoseLease, Unwind
<1>15. CASE ReleaseSession(d)
  <2>1. sess' = sess /\ Goes(d, "ended")
    BY <1>15 DEF ReleaseSession
  <2>2. drv'[d].pc = "ended" /\ \A c \in Drivers \ {d} : drv'[c] = drv[c]
    BY <2>1, PlaceType DEF Places
  <2>. QED  BY <2>1, <2>2, SessionsStay, Bystanders, AtRest
<1>. QED
  BY <1>6, <1>7, <1>8, <1>9, <1>10, <1>11, <1>12, <1>13, <1>14, <1>15 DEF DriverNext

\* The user's steps, those of the queue, and time.
LEMMA DriveOthers ==
  ASSUME LocksInv, DriveInv,
         \/ \E s \in Sessions : UserNext(s)
         \/ drv' = drv /\ sess' = sess
  PROVE  \A c \in Drivers : MayDrive(c) /\ Resumed(c)
<1>. USE DriverTypes
<1>1. /\ drv \in [Drivers -> DriverType] /\ sess \in [Sessions -> Snapshots]
      /\ \A c \in Drivers : drv[c].pc = "driving" => To(c) \in Sessions
  BY DEF LocksInv, WorkShape, OnTheirWork
<1>2. CASE drv' = drv /\ sess' = sess
  BY <1>2, SessionsStay, Bystanders
<1>3. ASSUME NEW s \in Sessions, UserRuns(s)
      PROVE  \A c \in Drivers : MayDrive(c) /\ Resumed(c)
  <2>. DEFINE new == [Idle EXCEPT !.pc = "driving", !.on.to = s, !.fresh = TRUE]
  <2>1. /\ sess[s].status = "none" /\ sess' = [sess EXCEPT ![s].status = "running"]
        /\ drv' = [drv EXCEPT ![User] = new]
    BY <1>3 DEF UserRuns
  <2>2. new.on.to = s /\ new.on.lock = 0
    BY DEF Idle, NoWork
  <2>. HIDE DEF new
  <2>3. drv'[User] = new /\ \A c \in Drivers \ {User} : drv'[c] = drv[c]
    BY <1>1, <2>1
  <2>4. sess'[s].status = "running" /\ \A q \in Sessions \ {s} : sess'[q] = sess[q]
    BY <1>1, <2>1 DEF Snapshots
  <2>5. MayDrive(User) /\ Resumed(User)
    BY <2>1, <2>2, <2>3, <2>4 DEF MayDrive, Creating, Resumed, To
  <2>6. \A c \in Drivers \ {User} : Bystander(c)
    <3>1. \A c \in Drivers : Writes(c) => To(c) # s /\ To(c) \in Sessions
      BY <1>1, <2>1 DEF DriveInv, Writes
    <3>2. \A c \in Drivers \ {User} : Writes(c)' => Writes(c)
      BY <2>3 DEF Writes
    <3>. QED  BY <2>3, <2>4, <3>1, <3>2 DEF Bystander
  <2>. QED  BY <2>5, <2>6, Bystanders
<1>4. ASSUME NEW s \in Sessions, NEW conf \in {"unset", "yes", "no"}, UserResumes(s, conf)
      PROVE  \A c \in Drivers : MayDrive(c) /\ Resumed(c)
  <2>. DEFINE act == IF conf = "yes" THEN sess[s].pending ELSE 0
              new == [Idle EXCEPT !.pc = "loaded", !.on.to = s, !.fresh = TRUE, !.conf = conf, !.act = act]
  <2>1. drv' = [drv EXCEPT ![User] = new] /\ sess' = sess
    BY <1>4 DEF UserResumes
  <2>2. new.pc = "loaded"
    BY DEF Idle
  <2>. HIDE DEF new
  <2>3. drv'[User] = new /\ \A c \in Drivers \ {User} : drv'[c] = drv[c]
    BY <1>1, <2>1
  <2>4. MayDrive(User) /\ Resumed(User)
    BY <2>2, <2>3 DEF MayDrive, Writes, Resumed
  <2>. QED  BY <2>1, <2>3, <2>4, SessionsStay, Bystanders
<1>5. ASSUME NEW s \in Sessions, NEW status \in {"waiting", "cancelled"}, UserControls(s, status)
      PROVE  \A c \in Drivers : MayDrive(c) /\ Resumed(c)
  <2>1. /\ \A q \in Sessions \ {s} : sess'[q] = sess[q]
        /\ \A c \in Drivers : /\ drv'[c].pc = drv[c].pc /\ drv'[c].on = drv[c].on
                              /\ drv'[c].asked = drv[c].asked /\ (drv'[c].fresh => drv[c].fresh /\ To(c) # s)
    BY <1>5, ControlType
  <2>2. \A c \in Drivers : Bystander(c)
    BY <1>1, <2>1 DEF Bystander, Writes
  <2>. QED  BY <2>2, Bystanders
<1>. QED  BY <1>2, <1>3, <1>4, <1>5 DEF UserNext

\* A lock that a run has lost is never again the one it was granted.
LEMMA NotRevived ==
  ASSUME LockTypeOK, [LockNext]_lvars, NEW o, NEW n \in Nat, n <= grants, NEW k \in LockKeys,
         Usable(o, n, k)'
  PROVE  Usable(o, n, k)
<1>. USE DEF LockTypeOK
<1>1. /\ locks'[k].owner = o /\ locks'[k].no = n /\ locks'[k].left > 0
      /\ locks \in [LockKeys -> LockType] /\ Free.left = 0
  BY DEF Usable, Presents, Free
<1>2. ASSUME \/ locks'[k] = locks[k] \/ locks'[k] = Free
             \/ locks[k].left > 0 /\ locks'[k].owner = locks[k].owner /\ locks'[k].no = locks[k].no
      PROVE  Usable(o, n, k)
  BY <1>1, <1>2 DEF Usable, Presents
<1>3. CASE UNCHANGED lvars
  BY <1>2, <1>3 DEF lvars
<1>4. \A q \in LockKeys : AfterSweep[q] \in {locks[q], Free}
  BY DEF AfterSweep, Swept
<1>5. CASE LockTick
  <2>. DEFINE left == IF locks[k].left > 0 THEN locks[k].left - 1 ELSE 0
  <2>1. locks'[k] = [locks[k] EXCEPT !.left = left] /\ locks[k] \in LockType
    BY <1>1, <1>5 DEF LockTick
  <2>2. left > 0 => locks[k].left > 0
    BY <2>1 DEF LockType
  <2>. HIDE DEF left
  <2>3. locks'[k].left = left /\ locks'[k].owner = locks[k].owner /\ locks'[k].no = locks[k].no
    BY <2>1 DEF LockType
  <2>. QED  BY <1>1, <1>2, <2>2, <2>3
<1>6. ASSUME NEW p \in Owners, NEW q \in LockKeys, AcquireFree(p, q)
      PROVE  Usable(o, n, k)
  <2>. DEFINE new == [owner |-> p, no |-> NextGrant, left |-> LockTTL]
  <2>1. locks' = [AfterSweep EXCEPT ![q] = new] /\ new.no = grants + 1
    BY <1>6 DEF AcquireFree, NextGrant
  <2>. HIDE DEF new
  <2>2. CASE k = q
    <3>1. locks'[k] = new
      BY <2>1, <2>2 DEF AfterSweep
    <3>. QED  BY <1>1, <2>1, <3>1
  <2>3. CASE k # q
    BY <1>2, <1>4, <2>1, <2>3 DEF AfterSweep
  <2>. QED  BY <2>2, <2>3
<1>7. ASSUME NEW p, NEW i, NEW q \in LockKeys, HeartbeatLock(p, i, q) \/ Release(p, i, q)
      PROVE  Usable(o, n, k)
  <2>1. CASE HeartbeatLock(p, i, q)
    <3>1. locks' = [locks EXCEPT ![q].left = LockTTL] /\ locks[q].left > 0
      BY <2>1 DEF HeartbeatLock, Usable
    <3>2. \/ locks'[k] = locks[k]
          \/ locks[k].left > 0 /\ locks'[k].owner = locks[k].owner /\ locks'[k].no = locks[k].no
      BY <1>1, <3>1 DEF LockType
    <3>. QED  BY <1>2, <3>2
  <2>2. CASE Release(p, i, q)
    BY <1>1, <1>2, <2>2 DEF Release
  <2>. QED  BY <1>7, <2>1, <2>2
<1>8. ASSUME locks' = AfterSweep \/ locks' = locks
      PROVE  Usable(o, n, k)
  BY <1>2, <1>4, <1>8
<1>9. CASE LockNext
  BY <1>5, <1>6, <1>7, <1>8, <1>9 DEF LockNext, ExpireLocks, AcquireOwned, AcquireConflict, LockLost
<1>. QED  BY <1>3, <1>9

LEMMA StaysOver ==
  ASSUME LocksInv, GrantsBounded, [WorkNext]_svars, NEW d \in Runs, drv[d].pc # "idle",
         drv'[d].on = drv[d].on, drv[d].asked => drv'[d].asked, Overstays(d)
  PROVE  Overstays(d)'
<1>1. /\ drv[d].on.lock \in Nat /\ drv[d].on.lock <= grants /\ To(d) \in LockKeys
      /\ LockTypeOK
  BY DriverTypes DEF LocksInv, OnTheirWork, WorkShape, Sessions
<1>2. OwnerOf(d)' = OwnerOf(d) /\ To(d)' = To(d)
  BY DEF OwnerOf, To
<1>3. [LockNext]_lvars
  BY WorkStepIsLockStep
<1>4. Usable(OwnerOf(d), drv[d].on.lock, To(d))' => Usable(OwnerOf(d), drv[d].on.lock, To(d))
  <2>. DEFINE o == <<drv[d].on.job, drv[d].on.try>>
              k == drv[d].on.to
              n == drv[d].on.lock
  <2>1. Usable(OwnerOf(d), drv[d].on.lock, To(d))' =>
          locks'[k].owner = o /\ locks'[k].no = n /\ locks'[k].left > 0
    BY DEF Usable, Presents, OwnerOf, To
  <2>. QED  BY <1>1, <1>3, <2>1, NotRevived DEF Usable, Presents, OwnerOf, To
<1>. QED  BY <1>4 DEF Overstays

LEMMA DriveKeeps ==
  ASSUME LocksInv, LocksInv', DriveInv, [WorkNext]_svars,
         \A c \in Drivers : MayDrive(c) /\ Resumed(c)
  PROVE  DriveInv'
<1>. USE DriverTypes
<1>1. GrantsBounded'
  <2>1. [LockNext]_lvars /\ GrantsBounded
    BY WorkStepIsLockStep DEF DriveInv
  <2>. QED  BY <2>1, GrantsStayBounded
<1>2. ASSUME NEW c \in Drivers, Writes(c)'
      PROVE  sess'[To(c)'].status = "running"
  BY <1>2 DEF MayDrive, Keeping, Starting, Creating, DriveInv, To
<1>3. ASSUME NEW c \in Drivers, NEW d \in Drivers, Writes(c)', Writes(d)', To(c)' = To(d)', c # d
      PROVE  FALSE
  <2>1. ASSUME NEW a \in Drivers, NEW b \in Drivers, Writes(b)', To(a)' = To(b)', a # b,
               Starting(a) \/ Creating(a)
        PROVE  FALSE
    <3>1. CASE Starting(a)
      BY <2>1, <3>1 DEF Starting, Writes, To
    <3>2. CASE Creating(a)
      <4>1. drv'[b] = drv[b]
        BY <2>1, <3>2 DEF Creating
      <4>2. Writes(b) /\ To(b) = To(a)'
        BY <2>1, <4>1 DEF Writes, To
      <4>. QED  BY <3>2, <4>2 DEF Creating, DriveInv
    <3>. QED  BY <2>1, <3>1, <3>2
  <2>2. Keeping(c) /\ Keeping(d)
    BY <1>3, <2>1 DEF MayDrive
  <2>3. To(c) = To(d)
    BY <1>3, <2>2 DEF Keeping, To
  <2>. QED  BY <1>3, <2>2, <2>3 DEF Keeping, DriveInv
<1>4. ASSUME PunctualLocks, NEW c \in Runs, NEW d \in Runs, c # d, Writes(c)', Resumes(c)', Resumes(d)',
             To(c)' = To(d)'
      PROVE  Overstays(d)'
  <2>1. /\ drv'[c].on = drv[c].on /\ drv'[d].on = drv[d].on /\ (drv[d].asked => drv'[d].asked)
        /\ drv[c].on.lock # 0 /\ drv[d].on.lock # 0 /\ To(c) = To(d)
        /\ \/ drv[d].pc \in {"loaded", "driving"}
           \/ drv[d].pc = "locked" /\ sess[To(d)].status = "waiting"
    BY <1>4 DEF Resumed, Resumes, To
  <2>2. Overstays(d)
    <3>1. CASE Keeping(c)
      <4>1. sess[To(c)].status = "running" /\ Resumes(c)
        BY <2>1, <3>1 DEF Keeping, DriveInv, Writes, Resumes
      <4>2. Resumes(d)
        BY <2>1, <4>1 DEF Resumes
      <4>. QED  BY <1>4, <2>1, <3>1, <4>1, <4>2 DEF Keeping, DriveInv
    <3>2. CASE Starting(c)
      <4>1. UnderLock(c)
        BY <2>1, <3>2 DEF Starting, UnderLock, Working
      <4>2. drv[d].asked
        BY <1>4, <2>1, <4>1, OneRun DEF UnderLock, Working
      <4>3. locks[To(c)].no = drv[c].on.lock /\ drv[c].on.lock # drv[d].on.lock
        BY <1>4, <2>1, <4>1 DEF LocksInv, Renewed, Apart, Usable, Presents
      <4>. QED  BY <2>1, <4>2, <4>3 DEF Overstays, Usable, Presents
    <3>3. CASE Creating(c)
      BY <2>1, <3>3 DEF Creating
    <3>. QED  BY <1>4, <3>1, <3>2, <3>3 DEF MayDrive
  <2>. QED  BY <2>1, <2>2, StaysOver DEF DriveInv
<1>. QED  BY <1>1, <1>2, <1>3, <1>4 DEF DriveInv

LEMMA ActsKeep ==
  ASSUME LocksInv, LocksInv', ActsInv, DriveInv, [WorkNext]_svars,
         \A c \in Drivers : Over(c) /\ Acted(c) /\ Resumed(c), \A s \in Sessions : Asked(s),
         settled' = settled \/ \E d \in Runs : Settled(d)
  PROVE  ActsInv'
<1>. USE DriverTypes
<1>1. /\ \A s \in Sessions : sess[s] \in Snapshots /\ sess'[s] \in Snapshots
      /\ \A d \in Drivers : drv[d].act \in Nat /\ drv'[d].act \in Nat
      /\ \A s \in Sessions : settled[s] \subseteq Nat /\ settled'[s] \subseteq Nat
      /\ settled \in [Sessions -> SUBSET (0..MaxActs)]
  BY DEF LocksInv, WorkShape, DriverType
<1>2. \A s \in Sessions : /\ sess[s].acts \in Nat /\ sess'[s].acts \in Nat
                          /\ sess[s].pending \in Nat /\ sess'[s].pending \in Nat
  BY <1>1 DEF Snapshots
<1>3. Finished'
  BY DEF Over, ActsInv, Finished
<1>4. ASSUME NEW s \in Sessions, NEW a \in settled'[s], a \notin settled[s]
      PROVE  \E d \in Runs : Settled(d) /\ s = To(d) /\ a = drv[d].act
  <2>1. settled' # settled
    BY <1>4
  <2>2. PICK d \in Runs : Settled(d)
    BY <2>1
  <2>3. settled' = [settled EXCEPT ![To(d)] = @ \cup {drv[d].act}]
    BY <2>2 DEF Settled
  <2>4. settled'[s] = IF s = To(d) THEN settled[s] \cup {drv[d].act} ELSE settled[s]
    BY <1>1, <2>3
  <2>5. s = To(d) /\ a = drv[d].act
    BY <1>4, <2>4
  <2>. QED  BY <2>2, <2>5
<1>5. ASSUME NEW s \in Sessions
      PROVE  /\ sess'[s].pending <= sess'[s].acts
             /\ \A a \in settled'[s] : 1 <= a /\ a <= sess'[s].acts /\ a # sess'[s].pending
  <2>1. Asked(s)
    OBVIOUS
  <2>2. sess'[s].pending <= sess'[s].acts
    BY <1>2, <2>1 DEF Asked, ActsInv
  <2>3. ASSUME NEW a \in settled'[s]
        PROVE  1 <= a /\ a <= sess'[s].acts /\ a # sess'[s].pending
    <3>0. a \in Nat
      BY <1>1
    <3>1. CASE a \in settled[s]
      <4>1. 1 <= a /\ a <= sess[s].acts /\ a # sess[s].pending
        BY <3>1 DEF ActsInv
      <4>. QED  BY <1>2, <2>1, <3>0, <4>1 DEF Asked
    <3>2. CASE a \notin settled[s]
      <4>1. PICK d \in Runs : Settled(d) /\ s = To(d) /\ a = drv[d].act
        BY <1>4, <3>2
      <4>2. a # 0 /\ a <= sess[s].acts
        BY <4>1 DEF Settled, ActsInv
      <4>3. sess'[s].pending = 0 \/ sess'[s].pending > sess[s].acts
        BY <4>1 DEF Settled
      <4>. QED  BY <1>2, <2>1, <3>0, <4>2, <4>3 DEF Asked
    <3>. QED  BY <3>1, <3>2
  <2>. QED  BY <2>2, <2>3
<1>6. ASSUME NEW d \in Drivers
      PROVE  /\ drv'[d].pc \in {"loaded", "driving"} => drv'[d].act <= sess'[To(d)'].acts
             /\ drv'[d].did => drv'[d].act # 0 /\ drv'[d].pc \in {"driving", "releasing", "ended"}
             /\ d \in Runs /\ drv'[d].on.lock = 0 => drv'[d].act = 0
  <2>1. Acted(d) /\ (drv[d].did => drv[d].act # 0 /\ drv[d].pc \in {"driving", "releasing", "ended"})
    BY DEF ActsInv
  <2>2. ASSUME drv'[d].pc \in {"loaded", "driving"}
        PROVE  drv'[d].act <= sess'[To(d)'].acts
    <3>0. To(d)' \in Sessions
      BY <2>2 DEF LocksInv, OnTheirWork
    <3>1. CASE drv'[d].act = 0
      BY <1>2, <3>0, <3>1
    <3>2. CASE drv'[d].act = drv[d].act /\ drv'[d].on = drv[d].on /\ drv[d].pc \in {"loaded", "driving"}
      <4>1. To(d)' = To(d) /\ drv[d].act <= sess[To(d)].acts /\ To(d) \in Sessions
        BY <3>0, <3>2 DEF ActsInv, To
      <4>2. Asked(To(d))
        BY <4>1
      <4>. QED  BY <1>1, <1>2, <3>2, <4>1, <4>2 DEF Asked
    <3>3. CASE drv'[d].act = sess'[To(d)'].pending
      BY <1>5, <3>0, <3>3
    <3>. QED  BY <2>1, <2>2, <3>1, <3>2, <3>3 DEF Acted
  <2>3. drv'[d].did => drv'[d].act # 0 /\ drv'[d].pc \in {"driving", "releasing", "ended"}
    BY <2>1 DEF Acted
  <2>4. d \in Runs /\ drv'[d].on.lock = 0 => drv'[d].act = 0
    BY <2>1 DEF Acted, ActsInv
  <2>. QED  BY <2>2, <2>3, <2>4
<1>7. ASSUME PunctualLocks, NEW d \in Runs, drv'[d].pc \in {"loaded", "driving"}, ~drv'[d].did,
             ~Overstays(d)', drv'[d].act \in settled'[To(d)']
      PROVE  FALSE
  <2>0. To(d)' \in Sessions /\ d \in Drivers /\ d # User
    BY <1>7 DEF LocksInv, OnTheirWork
  <2>1. drv'[d].act # 0 /\ drv'[d].act # sess'[To(d)'].pending
    BY <1>1, <1>5, <1>7, <2>0
  <2>2. CASE /\ drv'[d].act = drv[d].act /\ drv'[d].did = drv[d].did /\ drv'[d].on = drv[d].on
             /\ drv[d].pc \in {"loaded", "driving"}
    <3>0. drv[d].on.lock # 0 /\ Resumes(d) /\ Resumes(d)'
      BY <1>7, <2>1, <2>2 DEF ActsInv, Resumes
    <3>5. ~Overstays(d)
      BY <1>7, <2>0, <2>2, <3>0, StaysOver DEF Resumed, DriveInv
    <3>1. To(d)' = To(d) /\ drv[d].act \notin settled[To(d)]
      BY <1>7, <2>2, <3>5 DEF ActsInv, To
    <3>2. PICK c \in Runs : Settled(c) /\ To(d) = To(c) /\ drv[d].act = drv[c].act
      BY <1>4, <1>7, <2>0, <2>2, <3>1
    <3>3. Writes(c) /\ Resumes(c)
      BY <2>1, <2>2, <3>2 DEF Settled, Writes, Resumes, ActsInv
    <3>4. c = d
      BY <1>7, <3>0, <3>2, <3>3, <3>5 DEF DriveInv
    <3>. QED  BY <1>7, <2>2, <3>2, <3>4 DEF Settled
  <2>. QED  BY <1>7, <2>0, <2>1, <2>2 DEF Acted
<1>. QED  BY <1>3, <1>5, <1>6, <1>7 DEF ActsInv

LEMMA WorkInvInit == WorkInit => LocksInv /\ ActsInv /\ DriveInv
<1>1. SUFFICES ASSUME WorkInit PROVE ActsInv /\ DriveInv
  BY LocksInvInit
<1>2. /\ \A d \in Drivers : drv[d].pc = "idle" /\ drv[d].act = 0 /\ drv[d].did = FALSE
      /\ \A s \in Sessions : sess[s].pending = 0 /\ sess[s].acts = 0 /\ settled[s] = {}
      /\ \A d \in Runs : d \in Drivers
  BY <1>1 DEF WorkInit, Idle, NewSession, Drivers
<1>3. GrantsBounded
  BY <1>1 DEF WorkInit, LockInit, GrantsBounded
<1>. QED  BY <1>2, <1>3 DEF ActsInv, Finished, DriveInv, Writes

LEMMA WorkStep ==
  ASSUME LocksInv, ActsInv, DriveInv, [WorkNext]_svars
  PROVE  LocksInv' /\ ActsInv' /\ DriveInv' /\ \A d \in Drivers : Acted(d)
<1>. USE DriverTypes
<1>1. CASE UNCHANGED svars
  <2>1. LocksInv'
    <3>1. WorkShape' /\ Queued' /\ \A j \in Jobs : work'[j].tries >= work[j].tries
      BY <1>1 DEF svars, LocksInv, WorkShape, LockTypeOK, Queued, ItemType
    <3>2. UNCHANGED <<locks, grants>> /\ \A d \in Drivers : Quiet(d)
      BY <1>1 DEF svars, Quiet
    <3>. QED  BY <3>1, <3>2, QuietKeeps
  <2>2. (\A d \in Drivers : Same(d)) /\ (\A s \in Sessions : sess'[s] = sess[s]) /\ settled' = settled
    BY <1>1 DEF svars, Same
  <2>3. drv' = drv /\ sess' = sess
    BY <1>1 DEF svars
  <2>. QED  BY <2>1, <2>2, <2>3, SameActs, SameAsked, ActsKeep, DriveOthers, DriveKeeps
<1>2. CASE \E j \in Jobs : Lapse(j) \/ \E kind \in Kinds[j] : Schedule(j, kind)
  <2>1. LocksInv'
    BY <1>2, QueueKeeps DEF ActsInv
  <2>2. drv' = drv /\ sess' = sess /\ settled' = settled
    BY <1>2 DEF Lapse, Schedule
  <2>3. (\A d \in Drivers : Same(d)) /\ (\A s \in Sessions : sess'[s] = sess[s])
    BY <2>2 DEF Same
  <2>. QED  BY <2>1, <2>2, <2>3, SameActs, SameAsked, ActsKeep, DriveOthers, DriveKeeps
<1>3. ASSUME NEW d \in Drivers, DriverNext(d)
      PROVE  LocksInv' /\ ActsInv' /\ DriveInv' /\ \A c \in Drivers : Acted(c)
  <2>1. LocksInv'
    BY <1>3, TakeKeeps, QueueKeeps, HandlersKeep, LockSessionKeeps, SettleKeeps, BeatLockKeeps, ReleaseKeeps
    DEF DriverNext, ActsInv
  <2>2. WorkNext
    BY <1>3 DEF WorkNext
  <2>. QED  BY <1>3, <2>1, DriverSteps, SettleSteps, DriveSteps, <2>2, ActsKeep, DriveKeeps
<1>4. ASSUME NEW s \in Sessions, UserNext(s)
      PROVE  LocksInv' /\ ActsInv' /\ DriveInv' /\ \A c \in Drivers : Acted(c)
  <2>1. WorkNext
    BY <1>4 DEF WorkNext
  <2>. QED  BY <1>4, <2>1, UserKeeps, UserSteps, DriveOthers, ActsKeep, DriveKeeps
<1>5. CASE Time
  <2>1. LocksInv'
    BY <1>5, TimeKeeps
  <2>2. drv' = drv /\ sess' = sess /\ settled' = settled
    BY <1>5 DEF Time
  <2>3. (\A d \in Drivers : Same(d)) /\ (\A s \in Sessions : sess'[s] = sess[s])
    BY <2>2 DEF Same
  <2>. QED  BY <2>1, <2>2, <2>3, SameActs, SameAsked, ActsKeep, DriveOthers, DriveKeeps
<1>. QED  BY <1>1, <1>2, <1>3, <1>4, <1>5 DEF WorkNext

\* What holds in every state the work handlers reach: an inductive invariant of locks,
\* attempts, snapshots and confirmed actions (distributed_runtime.py:362-560, 726-775).
THEOREM WorkInductive == WorkSpec => [](LocksInv /\ ActsInv /\ DriveInv)
<1>1. LocksInv /\ ActsInv /\ DriveInv /\ [WorkNext]_svars => (LocksInv /\ ActsInv /\ DriveInv)'
  BY WorkStep
<1>. QED  BY <1>1, WorkInvInit, PTL DEF WorkSpec

\* The queue, the sessions, the locks and the runs only take the values they can have.
THEOREM WorkTyped == WorkSpec => []WorkTypeOK
<1>1. ASSUME LocksInv, ActsInv
      PROVE  WorkTypeOK
  <2>1. settled \in [Sessions -> SUBSET (1..MaxActs)]
    <3>1. settled \in [Sessions -> SUBSET (0..MaxActs)]
      BY <1>1 DEF LocksInv, WorkShape
    <3>2. \A s \in Sessions : \A a \in settled[s] : 1 <= a
      BY <1>1 DEF ActsInv
    <3>3. \A s \in Sessions : settled[s] \subseteq 1..MaxActs
      BY <3>1, <3>2
    <3>. QED  BY <3>1, <3>3
  <2>2. \A d \in Drivers : drv[d].pc \in Places /\ drv[d].result \in Results
    BY <1>1, DriverTypes DEF DriverType
  <2>. QED  BY <1>1, <2>1, <2>2 DEF WorkTypeOK, LocksInv, WorkShape, ItemType
<1>. QED  BY <1>1, WorkInductive, PTL

\* The session lock does its work (_with_session_lock), as long as locks are renewed before
\* they lapse: of two runs that drive one session at the same time one works on a goal
\* item, for which no lock is taken, or was cancelled and has outlived its lock; and
\* whoever drives it, goal items and the user included, one driver at most has a snapshot
\* that it may commit.
THEOREM WorkOneWorkerPerSession ==
  ASSUME PunctualLocks PROVE WorkSpec => []OneWorkerPerSession
<1>1. ASSUME LocksInv, DriveInv
      PROVE  OneWorkerPerSession
  <2>1. ASSUME NEW c \in Runs, NEW d \in Runs, c # d, Working(c), Working(d), To(c) = To(d),
               ~Unlocked(c), ~Unlocked(d), ~Overstays(c), ~Overstays(d)
        PROVE  FALSE
    <3>1. /\ Usable(OwnerOf(c), drv[c].on.lock, To(c))
          /\ Usable(OwnerOf(d), drv[d].on.lock, To(d))
      BY <1>1, <2>1 DEF LocksInv, Renewed, UnderLock, Unlocked, Overstays
    <3>. QED  BY <1>1, <2>1, <3>1 DEF LocksInv, Apart, Unlocked, Usable, Presents
  <2>2. ASSUME NEW c \in Drivers, NEW d \in Drivers, Writes(c), Writes(d), To(c) = To(d)
        PROVE  c = d
    BY <1>1, <2>2 DEF DriveInv
  <2>. QED  BY <2>1, <2>2 DEF OneWorkerPerSession, Writes
<1>. QED  BY <1>1, WorkInductive, PTL

\* Every way out of a handler lets the session lock go (the `finally' of
\* _with_session_lock), also when it was lost, swept or granted again meanwhile.
THEOREM WorkNoLockLeftBehind == WorkSpec => []NoLockLeftBehind
<1>1. LocksInv => NoLockLeftBehind
  <2>1. SUFFICES ASSUME LocksInv, NEW d \in Runs, drv[d].pc = "ended", NEW s \in Sessions,
                        locks[s].owner = OwnerOf(d)
                 PROVE  FALSE
    BY DEF NoLockLeftBehind
  <2>2. locks[s].owner # NoOwner
    BY <2>1, OwnerIsOwner
  <2>. QED  BY <2>1, <2>2 DEF LocksInv, LocksOwned, Sessions
<1>. QED  BY <1>1, WorkInductive, PTL

\* A confirmed action whose outcome a run committed is not carried out again by any
\* other item or attempt, whatever it had read of the session before it got the lock
\* (_handle_action_work and the second look of Agent.resume), but by a tool that goes on
\* after its cancellation until its lock has lapsed.
THEOREM WorkSettledOnce ==
  ASSUME PunctualLocks PROVE WorkSpec => SettledOnce
<1>1. ASSUME LocksInv, ActsInv, DriveInv, [WorkNext]_svars, NEW d \in Runs,
             ~drv[d].did, drv'[d].did
      PROVE  drv[d].act \notin settled[To(d)] \/ Overstays(d)
  <2>1. Acted(d)
    BY <1>1, WorkStep, DriverTypes
  <2>2. drv[d].pc = "driving"
    BY <1>1, <2>1 DEF Acted
  <2>. QED  BY <1>1, <2>2 DEF ActsInv
<1>2. LocksInv /\ ActsInv /\ DriveInv /\ [WorkNext]_svars =>
        [\A d \in Runs : (~drv[d].did /\ drv'[d].did) => drv[d].act \notin settled[To(d)] \/ Overstays(d)]_svars
  BY <1>1
<1>. QED  BY <1>2, WorkInductive, PTL DEF WorkSpec, SettledOnce

-----------------------------------------------------------------------------
(* What the handlers rely on: the registry and the queue.                    *)

\* The handlers use the registry only as it may be used (locks.py): every step of a run,
\* of the queue or of a user is a step of LockRegistry or leaves it alone, so what is
\* proved of the registry holds beneath the handlers.
THEOREM WorkImplementsLocks == WorkSpec => LockSpec
<1>1. WorkInit => LockInit
  BY DEF WorkInit
<1>2. LocksInv /\ GrantsBounded /\ [WorkNext]_svars => [LockNext]_lvars
  BY WorkStepIsLockStep
<1>3. DriveInv => GrantsBounded
  BY DEF DriveInv
<1>. QED  BY <1>1, <1>2, <1>3, WorkInductive, PTL DEF WorkSpec, LockSpec

\* While the lock of a session has time left, no handler, sweep or stale release of
\* another attempt takes it away, and every grant has a higher fencing token than all
\* before it, whatever the queue retries and whichever process dies (locks.py).
THEOREM WorkLocksFenced == WorkSpec => NoTheft /\ TokensIncrease
BY WorkImplementsLocks, LockNoTheft, LockTokensIncrease

-----------------------------------------------------------------------------
\* The life of one item, held by the attempts it is leased to; MaxTries is its own
\* max_attempts.
ItemLife(j) == INSTANCE WorkLifecycle WITH
  Jobs <- {j}, Nobody <- NoOwner, MaxTries <- Budget[j],
  stage <- [i \in {j} |-> work[i].stage],
  owner <- [i \in {j} |-> IF work[i].stage = "leased" THEN <<i, work[i].tries>> ELSE NoOwner],
  tries <- [i \in {j} |-> work[i].tries]

LEMMA ItemShape ==
  ASSUME LocksInv, NEW j \in Jobs
  PROVE  /\ DOMAIN work = Jobs /\ work[j].tries \in Nat /\ Budget[j] \in Nat
         /\ DOMAIN work[j] = {"stage", "kind", "tries", "task", "act"}
<1>1. work[j] \in ItemType(j)
  BY DEF LocksInv, WorkShape
<1>2. DOMAIN work[j] = {"stage", "kind", "tries", "task", "act"}
  BY <1>1, Zenon DEF ItemType
<1>. QED  BY <1>2, DriverTypes DEF LocksInv, WorkShape

\* What a step can do to one item.
LEMMA ItemMoves ==
  ASSUME LocksInv, ActsInv, [WorkNext]_svars, NEW j \in Jobs
  PROVE  \/ work'[j].stage = work[j].stage /\ work'[j].tries = work[j].tries
         \/ work[j].stage = "absent" /\ work'[j].stage = "queued" /\ work'[j].tries = 0
         \/ /\ work[j].stage = "queued" /\ work'[j].stage = "leased"
            /\ work'[j].tries = work[j].tries + 1
         \/ /\ work[j].stage = "leased" /\ work'[j].stage \in {"queued", "completed", "failed"}
            /\ work'[j].tries = work[j].tries
            /\ work'[j].stage = "queued" => work[j].tries < Budget[j]
<1>1. DOMAIN work = Jobs /\ work[j].tries \in Nat /\ Budget[j] \in Nat
  BY DriverTypes DEF LocksInv, WorkShape
<1>2. CASE UNCHANGED work
  BY <1>2
<1>3. ASSUME NEW i \in Jobs, Lapse(i)
      PROVE  \/ i # j /\ work'[j] = work[j]
             \/ /\ i = j /\ work[j].stage = "leased" /\ work'[j].tries = work[j].tries
                /\ work'[j].stage = Requeued(j)
  BY <1>1, <1>3 DEF Lapse
<1>4. ASSUME NEW i \in Jobs, NEW kind \in Kinds[i], Schedule(i, kind)
      PROVE  \/ i # j /\ work'[j] = work[j]
             \/ work[j].stage = "absent" /\ work'[j].stage = "queued" /\ work'[j].tries = 0
  BY <1>1, <1>4 DEF Schedule
<1>5. ASSUME NEW d \in Drivers, NEW i \in Jobs, Take(d, i)
      PROVE  \/ i # j /\ work'[j] = work[j]
             \/ /\ work[j].stage = "queued" /\ work'[j].stage = "leased"
                /\ work'[j].tries = work[j].tries + 1
  BY <1>1, <1>5 DEF Take
<1>6. ASSUME NEW d \in Drivers, Report(d)
      PROVE  \/ work'[j] = work[j]
             \/ /\ work[j].stage = "leased" /\ work'[j].tries = work[j].tries
                /\ work'[j].stage \in {Requeued(j), "completed", "failed"}
  <2>1. drv[d].result \in {"completed", "failed", "retry"}
    BY <1>6, DriverTypes DEF Report, ActsInv, Finished, DriverType, Results
  <2>2. CASE Leased(d) /\ drv[d].on.job = j
    <3>1. work' = [work EXCEPT ![j].stage = IF drv[d].result = "retry" THEN Requeued(j) ELSE drv[d].result]
      BY <1>6, <2>2 DEF Report
    <3>2. work[j].stage = "leased"
      BY <2>2 DEF Leased
    <3>3. /\ work'[j].tries = work[j].tries
          /\ work'[j].stage = IF drv[d].result = "retry" THEN Requeued(j) ELSE drv[d].result
      BY <1>1, <3>1, ItemShape
    <3>. QED  BY <2>1, <3>2, <3>3
  <2>3. CASE ~Leased(d) \/ drv[d].on.job # j
    BY <1>1, <1>6, <2>3 DEF Report
  <2>. QED  BY <2>2, <2>3
<1>7. ASSUME NEW d \in Drivers, DriverNext(d)
      PROVE  UNCHANGED work \/ Report(d) \/ \E i \in Jobs : Take(d, i)
  BY <1>7 DEF DriverNext, HandleWork, HandleGoal, LockSession, Load, Begin, Perform, Settle, BeatLock,
              LoseLease, Unwind, ReleaseSession, Crash
<1>8. ASSUME (\E s \in Sessions : UserNext(s)) \/ Time \/ UNCHANGED svars
      PROVE  UNCHANGED work
  BY <1>8 DEF UserNext, UserRuns, UserResumes, UserControls, Time, svars
<1>9. Requeued(j) \in {"queued", "failed"} /\ (Requeued(j) = "queued" => work[j].tries < Budget[j])
  BY DEF Requeued
<1>10. CASE \E i \in Jobs : Lapse(i) \/ \E kind \in Kinds[i] : Schedule(i, kind)
  BY <1>3, <1>4, <1>9, <1>10
<1>11. CASE \E d \in Drivers : DriverNext(d)
  BY <1>2, <1>5, <1>6, <1>7, <1>9, <1>11
<1>. QED  BY <1>2, <1>8, <1>10, <1>11 DEF WorkNext

LEMMA ItemLives ==
  ASSUME LocksInv, ActsInv, LocksInv', [WorkNext]_svars, NEW j \in Jobs
  PROVE  ItemLife(j)!Next
<1>. USE DEF ItemLife!Stay, ItemLife!Move
<1>1. /\ work[j].tries \in Nat /\ work'[j].tries \in Nat /\ Budget[j] \in Nat
      /\ work'[j].tries <= Budget[j] /\ (work[j].stage = "leased" => work[j].tries \in 1..Budget[j])
      /\ (work[j].stage \in {"absent", "queued"} => work[j].tries < Budget[j])
  BY DEF LocksInv, WorkShape, ItemType, Queued
<1>2. \A t \in 1..Budget[j] : <<j, t>> \in Owners
  OBVIOUS
<1>. QED  BY <1>1, <1>2, ItemMoves DEF ItemLife!Next, ItemLife!Submit, ItemLife!Take, ItemLife!Return, ItemLife!Finish

\* The queue the handlers are modelled over is the one its clients are promised: every
\* item lives a life of WorkLifecycle, with its own max_attempts, held by one attempt at
\* a time, and no report, retry or expiry takes it past its last attempt or out of its
\* outcome (distributed_runtime.py, coordinator.py).
THEOREM WorkQueueIsLifecycle ==
  ASSUME NEW j \in Jobs PROVE WorkSpec => ItemLife(j)!Spec
<1>1. WorkInit => ItemLife(j)!Init
  BY DEF WorkInit, NoItem, ItemLife!Init
<1>2. (LocksInv /\ ActsInv) /\ (LocksInv /\ ActsInv)' /\ [WorkNext]_svars
        => [ItemLife(j)!Next]_(ItemLife(j)!jvars)
  BY ItemLives
<1>. QED  BY <1>1, <1>2, WorkInductive, PTL DEF WorkSpec, ItemLife!Spec

=============================================================================
