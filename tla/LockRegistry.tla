---------------------------- MODULE LockRegistry ----------------------------
(***************************************************************************)
(* The leased lock registry of universal_agent.distributed.locks.  The      *)
(* durable registries (a JSON file under a file lock, SQLite under BEGIN    *)
(* IMMEDIATE) persist the leases AND the sequence, so one shared state      *)
(* stands for all three: each operation reloads, applies the in-memory      *)
(* operation and saves, atomically, and a restart loses nothing.            *)
(*                                                                         *)
(* A grant is numbered: lease id "lock-lease-<no>" and fencing token <no>.   *)
(* Time is relative, as in WorkQueue: `left' is what remains of the lease.  *)
(***************************************************************************)
EXTENDS Integers, FiniteSets

CONSTANTS
  LockKeys,     \* lock keys, "session/<id>"
  Owners,       \* owner ids, "worker:<w>:work:<item>:lease:<lease>"
  NoOwner,      \* the lock is free
  LockTTL,      \* ttl_seconds, in ticks
  MaxGrants     \* bound: grants in the life of the registry

ASSUME LockAssumption ==
  /\ NoOwner \notin Owners
  /\ LockTTL \in Nat \ {0}               \* _lease_deadline: parse_positive_float
  /\ MaxGrants \in Nat

VARIABLES
  locks,     \* the lease of each key
  grants     \* _sequence: the number of the last grant

lvars == <<locks, grants>>

Free == [owner |-> NoOwner, no |-> 0, left |-> 0]

LockType == [owner : Owners \cup {NoOwner}, no : Nat, left : Nat]

LockInit ==
  /\ locks = [k \in LockKeys |-> Free]
  /\ grants = 0

Held(k) == locks[k].owner # NoOwner

\* A sweep frees every lock whose lease has run out.
Swept(l) == IF l.left = 0 THEN Free ELSE l

AfterSweep == [k \in LockKeys |-> Swept(locks[k])]

ExpireLocks ==
  /\ \E k \in LockKeys : Held(k) /\ locks[k].left = 0
  /\ locks' = AfterSweep
  /\ UNCHANGED grants

-----------------------------------------------------------------------------
\* Variants: the sequence recomputed from the locks held; counted the wrong way.
GrantFromHeld == 1 + Cardinality({k \in LockKeys : Held(k)})
GrantDown == grants - 1

NextGrant == grants + 1

\* Variant: does not look at the holder.
AcquireAny(o, k) ==
  /\ grants < MaxGrants
  /\ grants' = NextGrant
  /\ locks' = [AfterSweep EXCEPT ![k] =
                 [owner |-> o, no |-> NextGrant, left |-> LockTTL]]

AcquireFree(o, k) ==
  /\ AfterSweep[k] = Free
  /\ NextGrant <= MaxGrants                        \* bound
  /\ grants' = NextGrant
  /\ locks' = [AfterSweep EXCEPT ![k] =
                 [owner |-> o, no |-> NextGrant, left |-> LockTTL]]

\* The owner's own lease is returned as it is, with the time it has left.
AcquireOwned(o, k) ==
  /\ AfterSweep[k].owner = o
  /\ locks' = AfterSweep
  /\ UNCHANGED grants

\* DistributedLockConflictError; the sweep stays done.
AcquireConflict(o, k) ==
  /\ AfterSweep[k].owner \notin {o, NoOwner}
  /\ locks' = AfterSweep
  /\ UNCHANGED grants

-----------------------------------------------------------------------------
(* A lease is named by its number and presented with an owner id.            *)

Presents(o, n, k) == locks[k].owner = o /\ locks[k].no = n

Usable(o, n, k) == Presents(o, n, k) /\ locks[k].left > 0

HeartbeatLock(o, n, k) ==
  /\ Usable(o, n, k)
  /\ locks' = [locks EXCEPT ![k].left = LockTTL]
  /\ UNCHANGED grants

Release(o, n, k) ==
  /\ Usable(o, n, k)
  /\ locks' = [locks EXCEPT ![k] = Free]
  /\ UNCHANGED grants

\* DistributedLockLeaseLostError from heartbeat or release.
LockLost(o, n) ==
  /\ \A k \in LockKeys : ~Usable(o, n, k)
  /\ locks' = IF \E k \in LockKeys : Presents(o, n, k) THEN AfterSweep ELSE locks
  /\ UNCHANGED grants

LockTick ==
  /\ locks' = [k \in LockKeys |->
                 [locks[k] EXCEPT !.left = IF locks[k].left > 0
                                           THEN locks[k].left - 1 ELSE 0]]
  /\ UNCHANGED grants

LockNext ==
  \/ ExpireLocks
  \/ LockTick
  \/ \E o \in Owners, k \in LockKeys :
       \/ AcquireFree(o, k)
       \/ AcquireOwned(o, k)
       \/ AcquireConflict(o, k)
  \/ \E o \in Owners, n \in 1..MaxGrants :
       \/ LockLost(o, n)
       \/ \E k \in LockKeys : HeartbeatLock(o, n, k) \/ Release(o, n, k)

LockSpec == LockInit /\ [][LockNext]_lvars

-----------------------------------------------------------------------------
LockTypeOK ==
  /\ locks \in [LockKeys -> LockType]
  /\ grants \in Nat

(* A lease id names one grant: two keys never carry the same number, and no  *)
(* number is ahead of the sequence.  The store relies on it: lease_id is     *)
(* declared unique (locks.py:98), and _active_lease stops at the first lease *)
(* with the id it is given.                                                  *)
LeaseIdsUnique ==
  /\ \A k \in LockKeys : Held(k) => locks[k].no \in 1..grants
  /\ \A j, k \in LockKeys : (Held(j) /\ locks[j].no = locks[k].no) => j = k

(* While a lease has time left nobody else gets the lock: the only ways out  *)
(* are the owner's release and the passing of time.  An acquire, a sweep, a  *)
(* stale heartbeat or a stale release of another owner never moves it.       *)
NoTheft ==
  [][\A k \in LockKeys :
       locks[k].left > 0 =>
         \/ locks'[k] = Free
         \/ locks'[k].owner = locks[k].owner /\ locks'[k].no = locks[k].no]_lvars

(* Each grant of a lock carries a fencing token above every token handed out *)
(* before, for any key, across expiries, releases and restarts               *)
(* (test_distributed_lock_fencing_token_increments_after_release).           *)
TokensIncrease ==
  [][/\ grants' >= grants
     /\ \A k \in LockKeys :
          (locks'[k].owner # NoOwner /\ locks'[k].no # locks[k].no)
            => locks'[k].no > grants]_lvars

=============================================================================
