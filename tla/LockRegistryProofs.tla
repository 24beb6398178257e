------------------------- MODULE LockRegistryProofs -------------------------
(***************************************************************************)
(* Theorems about LockRegistry for every set of keys and owners.            *)
(***************************************************************************)
EXTENDS LockRegistry, TLAPS

\* A free lock is Free, a held one has a number of its own.
LInv ==
  /\ LockTypeOK
  /\ \A k \in LockKeys : locks[k].owner = NoOwner => locks[k] = Free
  /\ LeaseIdsUnique

\* What one step can do to one lock.
Granted(k) == /\ Swept(locks[k]) = Free
              /\ locks'[k].owner \in Owners /\ locks'[k].no = grants + 1
              /\ locks'[k].left \in Nat

SameLease(k) == /\ locks'[k].owner = locks[k].owner /\ locks'[k].no = locks[k].no
                /\ locks'[k].left \in Nat
                /\ locks[k].left = 0 => locks'[k].left = 0

LEMMA FreeType == Free \in LockType /\ Free.owner = NoOwner /\ Free.no = 0 /\ Free.left = 0
  BY DEF Free, LockType

\* Every step keeps, frees or grants each lock, and grants at most one.
LEMMA LockMoves ==
  ASSUME LInv, [LockNext]_lvars
  PROVE  /\ locks' \in [LockKeys -> LockType]
         /\ \/ /\ grants' = grants
               /\ \A k \in LockKeys : SameLease(k) \/ locks'[k] = Free
            \/ /\ grants' = grants + 1
               /\ \E g \in LockKeys :
                    /\ Granted(g)
                    /\ \A k \in LockKeys \ {g} : SameLease(k) \/ locks'[k] = Free
<1> DEFINE Goal == /\ locks' \in [LockKeys -> LockType]
                   /\ \/ /\ grants' = grants
                         /\ \A k \in LockKeys : SameLease(k) \/ locks'[k] = Free
                      \/ /\ grants' = grants + 1
                         /\ \E g \in LockKeys :
                              /\ Granted(g)
                              /\ \A k \in LockKeys \ {g} : SameLease(k) \/ locks'[k] = Free
<1>1. /\ AfterSweep \in [LockKeys -> LockType]
      /\ \A k \in LockKeys : AfterSweep[k] = Free \/ AfterSweep[k] = locks[k]
  BY FreeType DEF LInv, LockTypeOK, AfterSweep, Swept
<1>2. \A k \in LockKeys : locks[k] \in LockType /\ locks[k].left \in Nat
  BY DEF LInv, LockTypeOK, LockType
<1>3. CASE UNCHANGED lvars
  BY <1>2, <1>3 DEF LInv, LockTypeOK, SameLease, lvars
<1>4. CASE locks' = AfterSweep /\ grants' = grants
  BY <1>1, <1>2, <1>4 DEF SameLease
<1>5. ASSUME NEW o \in Owners, NEW k \in LockKeys, AcquireFree(o, k)
      PROVE  Goal
  <2> DEFINE new == [owner |-> o, no |-> NextGrant, left |-> LockTTL]
  <2>1. new \in LockType
    BY LockAssumption DEF LockAssumption, LockType, NextGrant, LInv, LockTypeOK
  <2>2. /\ locks' = [AfterSweep EXCEPT ![k] = new] /\ grants' = grants + 1
        /\ AfterSweep[k] = Free
    BY <1>5 DEF AcquireFree, NextGrant
  <2>3. Swept(locks[k]) = Free
    BY <2>2 DEF AfterSweep
  <2>4. new.owner = o /\ new.no = grants + 1 /\ new.left \in Nat
    BY LockAssumption DEF LockAssumption, NextGrant
  <2> HIDE DEF new
  <2>5. Granted(k)
    BY <1>1, <2>2, <2>3, <2>4 DEF Granted
  <2>6. \A j \in LockKeys \ {k} : SameLease(j) \/ locks'[j] = Free
    BY <1>1, <1>2, <2>2 DEF SameLease
  <2> QED BY <1>1, <2>1, <2>2, <2>5, <2>6
<1>6. ASSUME NEW o \in Owners, NEW n \in 1..MaxGrants, NEW k \in LockKeys,
             HeartbeatLock(o, n, k)
      PROVE  Goal
  <2>1. \A j \in LockKeys : j # k => locks'[j] = locks[j]
    BY <1>6 DEF HeartbeatLock, LInv, LockTypeOK
  <2>2. /\ locks'[k].owner = locks[k].owner /\ locks'[k].no = locks[k].no
        /\ locks'[k].left = LockTTL /\ locks[k].left # 0
        /\ locks' \in [LockKeys -> LockType] /\ grants' = grants
    BY <1>6, <1>2, LockAssumption
    DEF LockAssumption, HeartbeatLock, Usable, LInv, LockTypeOK, LockType
  <2> QED BY <1>2, <2>1, <2>2, LockAssumption DEF LockAssumption, SameLease
<1>7. ASSUME NEW o \in Owners, NEW n \in 1..MaxGrants, NEW k \in LockKeys,
             Release(o, n, k)
      PROVE  Goal
  BY <1>7, <1>2, FreeType DEF Release, SameLease, LInv, LockTypeOK
<1>8. CASE LockTick
  <2>1. \A k \in LockKeys : /\ locks'[k] \in LockType
                            /\ locks'[k].owner = locks[k].owner
                            /\ locks'[k].no = locks[k].no
                            /\ locks'[k].left \in Nat
                            /\ locks[k].left = 0 => locks'[k].left = 0
    BY <1>8, <1>2 DEF LockTick, LockType
  <2>2. locks' = [k \in LockKeys |-> locks'[k]] /\ grants' = grants
    BY <1>8 DEF LockTick
  <2> QED BY <2>1, <2>2 DEF SameLease
<1> QED
  BY <1>3, <1>4, <1>5, <1>6, <1>7, <1>8
  DEF LockNext, ExpireLocks, AcquireOwned, AcquireConflict, LockLost, lvars

LEMMA LockInitInv == LockInit => LInv
  BY FreeType DEF LockInit, LInv, LockTypeOK, LeaseIdsUnique, Held

LEMMA LockNextInv == LInv /\ [LockNext]_lvars => LInv'
<1> SUFFICES ASSUME LInv, [LockNext]_lvars PROVE LInv'
  OBVIOUS
<1>1. locks' \in [LockKeys -> LockType] /\ grants' \in Nat
  BY LockMoves DEF LInv, LockTypeOK
<1>2. \A k \in LockKeys : Held(k) => locks[k].no \in Nat /\ locks[k].no <= grants
  BY DEF LInv, LeaseIdsUnique, LockTypeOK
<1>3. CASE /\ grants' = grants
           /\ \A k \in LockKeys : SameLease(k) \/ locks'[k] = Free
  <2>1. \A k \in LockKeys : locks'[k].owner = NoOwner => locks'[k] = Free
    <3> SUFFICES ASSUME NEW k \in LockKeys, locks'[k].owner = NoOwner, SameLease(k)
                 PROVE  locks'[k] = Free
      BY <1>3
    <3>1. locks[k] = Free
      BY DEF SameLease, LInv
    <3>2. locks'[k].no = 0 /\ locks'[k].left = 0
      BY <3>1, FreeType DEF SameLease
    <3> QED BY <1>1, <3>2 DEF LockType, Free
  <2>2. LeaseIdsUnique'
    BY <1>3, FreeType DEF SameLease, LInv, LeaseIdsUnique, Held
  <2> QED BY <1>1, <2>1, <2>2 DEF LInv, LockTypeOK
<1>4. CASE /\ grants' = grants + 1
           /\ \E g \in LockKeys :
                /\ Granted(g)
                /\ \A k \in LockKeys \ {g} : SameLease(k) \/ locks'[k] = Free
  <2>1. PICK g \in LockKeys : /\ Granted(g)
                              /\ \A k \in LockKeys \ {g} : SameLease(k) \/ locks'[k] = Free
    BY <1>4
  <2>2. \A k \in LockKeys : locks'[k].owner = NoOwner => locks'[k] = Free
    <3> SUFFICES ASSUME NEW k \in LockKeys, locks'[k].owner = NoOwner, SameLease(k)
                 PROVE  locks'[k] = Free
      BY <2>1, LockAssumption DEF LockAssumption, Granted
    <3>1. locks[k] = Free
      BY DEF SameLease, LInv
    <3>2. locks'[k].no = 0 /\ locks'[k].left = 0
      BY <3>1, FreeType DEF SameLease
    <3> QED BY <1>1, <3>2 DEF LockType, Free
  <2>3. \A k \in LockKeys \ {g} : locks'[k].owner # NoOwner =>
          locks[k].owner # NoOwner /\ locks'[k].no = locks[k].no
    BY <2>1, FreeType DEF SameLease
  <2>4. grants \in Nat /\ locks'[g].no = grants + 1
    BY <2>1 DEF Granted, LInv, LockTypeOK
  <2>5. LeaseIdsUnique'
    <3> DEFINE no(k) == locks'[k].no
               mine(k) == locks'[k].owner # NoOwner
    <3>1. ASSUME NEW k \in LockKeys, k # g
          PROVE  /\ no(k) \in Nat /\ no(k) <= grants
                 /\ mine(k) => no(k) = locks[k].no /\ no(k) >= 1 /\ Held(k)
      <4>1. locks[k].no \in Nat /\ locks[k].no <= grants
        BY <2>4, FreeType DEF LInv, LeaseIdsUnique, Held
      <4>2. no(k) = locks[k].no \/ no(k) = 0
        BY <2>1, <3>1, FreeType DEF SameLease
      <4>3. mine(k) => locks[k].owner # NoOwner /\ no(k) = locks[k].no
        BY <2>3, <3>1
      <4>4. locks[k].owner # NoOwner => locks[k].no >= 1
        BY <2>4 DEF LInv, LeaseIdsUnique, Held
      <4> QED BY <4>1, <4>2, <4>3, <4>4, <2>4 DEF Held
    <3>2. no(g) = grants + 1
      BY <2>4
    <3>3. ASSUME NEW j \in LockKeys, NEW k \in LockKeys, mine(j), no(j) = no(k)
          PROVE  j = k
      <4>1. CASE j = g
        <5>1. k # g => no(k) <= grants /\ no(k) \in Nat
          BY <3>1
        <5> QED BY <2>4, <3>2, <3>3, <4>1, <5>1
      <4>2. CASE j # g
        <5>1. no(j) \in Nat /\ no(j) <= grants /\ no(j) >= 1
          BY <3>1, <3>3, <4>2
        <5>2. k # g
          BY <2>4, <3>2, <3>3, <5>1
        <5>3. no(k) = locks[k].no
          <6>1. no(k) = locks[k].no \/ no(k) = 0
            BY <2>1, <5>2, FreeType DEF SameLease
          <6> QED BY <3>3, <5>1, <6>1
        <5>4. Held(j) /\ locks[j].no = no(j)
          BY <3>1, <3>3, <4>2
        <5> QED BY <3>3, <5>3, <5>4 DEF LInv, LeaseIdsUnique
      <4> QED BY <4>1, <4>2
    <3>4. ASSUME NEW k \in LockKeys, mine(k)
          PROVE  no(k) \in 1..grants'
      <4>1. CASE k = g
        BY <1>4, <2>4, <3>2, <4>1
      <4>2. CASE k # g
        <5>1. no(k) \in Nat /\ no(k) <= grants /\ no(k) >= 1
          BY <3>1, <3>4, <4>2
        <5> QED BY <1>4, <2>4, <5>1
      <4> QED BY <4>1, <4>2
    <3> QED BY <3>3, <3>4 DEF LeaseIdsUnique, Held
  <2> QED BY <1>1, <2>2, <2>5 DEF LInv, LockTypeOK
<1> QED BY <1>3, <1>4, LockMoves

LEMMA LockInvariance == LockSpec => []LInv
<1>1. LockInit => LInv
  BY LockInitInv
<1>2. LInv /\ [LockNext]_lvars => LInv'
  BY LockNextInv
<1> QED BY <1>1, <1>2, PTL DEF LockSpec

-----------------------------------------------------------------------------
(* The registry keeps its shape (locks.py, DistributedLockLease).            *)
THEOREM LockTypes == LockSpec => []LockTypeOK
<1>1. LInv => LockTypeOK
  BY DEF LInv
<1> QED BY <1>1, LockInvariance, PTL

(* A lease id names one grant, as the unique lease_id column and the search  *)
(* of _active_lease assume (locks.py:98, locks.py:206).                      *)
THEOREM LockLeaseIdsUnique == LockSpec => []LeaseIdsUnique
<1>1. LInv => LeaseIdsUnique
  BY DEF LInv
<1> QED BY <1>1, LockInvariance, PTL

(* A lock with time left is taken from nobody (locks.py:122, acquire).       *)
THEOREM LockNoTheft == LockSpec => NoTheft
<1>1. LInv /\ [LockNext]_lvars =>
        [\A k \in LockKeys : locks[k].left > 0 =>
           \/ locks'[k] = Free
           \/ locks'[k].owner = locks[k].owner /\ locks'[k].no = locks[k].no]_lvars
  <2> SUFFICES ASSUME LInv, [LockNext]_lvars, NEW k \in LockKeys, locks[k].left > 0
               PROVE  \/ locks'[k] = Free
                      \/ /\ locks'[k].owner = locks[k].owner
                         /\ locks'[k].no = locks[k].no
    OBVIOUS
  <2>1. ~Granted(k)
    BY FreeType DEF Granted, Swept
  <2> QED BY <2>1, LockMoves DEF SameLease
<1> QED BY <1>1, LockInvariance, PTL DEF LockSpec, NoTheft

(* Fencing tokens of the lock registry strictly increase, over all keys and  *)
(* owners and through restarts: the sequence is persisted (locks.py:352).    *)
THEOREM LockTokensIncrease == LockSpec => TokensIncrease
<1>1. LInv /\ [LockNext]_lvars =>
        [/\ grants' >= grants
         /\ \A k \in LockKeys :
              (locks'[k].owner # NoOwner /\ locks'[k].no # locks[k].no)
                => locks'[k].no > grants]_lvars
  <2> SUFFICES ASSUME LInv, [LockNext]_lvars
               PROVE  /\ grants' >= grants
                      /\ \A k \in LockKeys :
                           (locks'[k].owner # NoOwner /\ locks'[k].no # locks[k].no)
                             => locks'[k].no > grants
    OBVIOUS
  <2>1. grants \in Nat
    BY DEF LInv, LockTypeOK
  <2> QED BY <2>1, LockMoves, FreeType DEF SameLease, Granted
<1> QED BY <1>1, LockInvariance, PTL DEF LockSpec, TokensIncrease

=============================================================================
