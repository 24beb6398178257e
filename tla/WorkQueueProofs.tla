--------------------------- MODULE WorkQueueProofs ---------------------------
(***************************************************************************)
(* Theorems about WorkQueue for every number of items, workers, processes,  *)
(* keys and every backend.  The argument is one lemma, ItemMoves: whatever  *)
(* step the queue takes, each single item makes one of the moves of an item *)
(* or stays.  Everything else is read off the moves.                        *)
(***************************************************************************)
EXTENDS WorkQueue, TLAPS

\* What WorkItem.__post_init__ and the operations keep true of one item.
ItemOK(it) ==
  /\ it \in ItemType
  /\ it.status = "leased" <=> it.lease # NoLease
  /\ it.status = "leased" => /\ it.lease.worker \in Workers
                             /\ it.lease.no = it.attempts
  /\ it.attempts <= it.max
  /\ it.max <= MaxBudget
  /\ it.status = "queued" => it.attempts < it.max

IInv ==
  /\ items \in [Items -> ItemType]
  /\ \A i \in Items : ItemOK(items[i])
  /\ OneItemPerKey
  /\ seq \in Nat
  /\ fence \in [Procs -> [Items -> Nat]]
  /\ issued \in [Items -> Nat]

-----------------------------------------------------------------------------
(* The moves of one item.                                                    *)

Active(it) == it.status \in {"queued", "leased"}

Kept(a, b) == /\ b.status = a.status /\ b.key = a.key /\ b.max = a.max
              /\ b.attempts = a.attempts /\ b.lease.worker = a.lease.worker

Submitted(a, b) == /\ a.status = "absent" /\ b.status = "queued"
                   /\ b.attempts = 0 /\ b.lease = NoLease

Taken(a, b) == /\ a.status \in {"queued", "leased"} /\ b.status = "leased"
               /\ a.attempts < a.max
               /\ b.attempts = a.attempts + 1 /\ b.key = a.key /\ b.max = a.max

Returned(a, b) == /\ a.status = "leased" /\ b.status = "queued" /\ b.lease = NoLease
                  /\ b.attempts = a.attempts /\ a.attempts < a.max
                  /\ b.key = a.key /\ b.max = a.max

Closed(a, b) == /\ a.status = "leased" /\ b.status \in {"completed", "failed"}
                /\ b.lease = NoLease /\ b.attempts = a.attempts

Aborted(a, b) == /\ Active(a) /\ b.status = "cancelled"
                 /\ b.lease = NoLease /\ b.attempts = a.attempts

Dropped(a, b) == a.status \in Terminal /\ b = NoItem

\* What can happen to an item that is already there.
Advance(a, b) ==
  \/ Kept(a, b) \/ Taken(a, b) \/ Returned(a, b)
  \/ Closed(a, b) \/ Aborted(a, b) \/ Dropped(a, b)

-----------------------------------------------------------------------------
(* Lemmas about the operators of the queue.                                  *)

LEMMA NoItemOK == ItemOK(NoItem)
  BY QueueAssumption DEF QueueAssumption, ItemOK, NoItem, NoLease, ItemType, LeaseType,
     Statuses, Terminal

LEMMA GivenBackOK ==
  ASSUME NEW it, ItemOK(it), it.status = "leased"
  PROVE  /\ ItemOK(GivenBack(it))
         /\ GivenBack(it).status \in {"queued", "failed"}
         /\ GivenBack(it).attempts = it.attempts
         /\ GivenBack(it).key = it.key /\ GivenBack(it).max = it.max
         /\ GivenBack(it).lease = NoLease
         /\ GivenBack(it).status = "queued" => it.attempts < it.max
         /\ Returned(it, GivenBack(it)) \/ Closed(it, GivenBack(it))
  BY QueueAssumption DEF QueueAssumption, ItemOK, GivenBack, ItemType, LeaseType, NoLease,
     Statuses, Terminal, Returned, Closed

\* A sweep leaves every item well formed: kept, returned or closed.
LEMMA AfterExpireOK ==
  ASSUME items \in [Items -> ItemType], \A i \in Items : ItemOK(items[i])
  PROVE  /\ AfterExpire \in [Items -> ItemType]
         /\ \A i \in Items :
              /\ ItemOK(AfterExpire[i])
              /\ \/ AfterExpire[i] = items[i]
                 \/ Returned(items[i], AfterExpire[i])
                 \/ Closed(items[i], AfterExpire[i])
<1>1. ASSUME NEW i \in Items
      PROVE  /\ ItemOK(AfterExpire[i])
             /\ \/ AfterExpire[i] = items[i]
                \/ Returned(items[i], AfterExpire[i])
                \/ Closed(items[i], AfterExpire[i])
  <2>1. CASE Expired(items[i])
    BY <2>1, GivenBackOK DEF AfterExpire, Expired
  <2>2. CASE ~Expired(items[i])
    BY <2>2 DEF AfterExpire
  <2> QED BY <2>1, <2>2
<1>2. AfterExpire = [i \in Items |-> AfterExpire[i]]
  BY DEF AfterExpire
<1>3. \A i \in Items : AfterExpire[i] \in ItemType
  BY <1>1 DEF ItemOK
<1> QED BY <1>1, <1>2, <1>3

-----------------------------------------------------------------------------
(* One lemma for all steps.                                                  *)

LEMMA EnqueueMoves ==
  ASSUME IInv, NEW kind \in Kinds, NEW prio \in Priorities,
         NEW key \in Keys \cup {NoKey}, NEW max \in Budgets, NEW delay \in Delays,
         Enqueue(kind, prio, key, max, delay)
  PROVE  /\ items' \in [Items -> ItemType]
         /\ \A i \in Items : ItemOK(items'[i])
         /\ \A i \in Items : \/ items'[i] = items[i]
                             \/ /\ i = NextId
                                /\ items'[i].key = key
                                /\ Submitted(items[i], items'[i])
<1> DEFINE new == [status |-> "queued", kind |-> kind, prio |-> prio, key |-> key,
                   max |-> max, attempts |-> 0, delay |-> delay, lease |-> NoLease]
<1>1. ItemOK(new)
  BY QueueAssumption DEF QueueAssumption, ItemOK, ItemType, LeaseType, NoLease, Statuses,
     Terminal
<1>2. NextId \in Items /\ items[NextId].status = "absent"
  BY DEF Enqueue
<1>3. items' = [items EXCEPT ![NextId] = new]
  BY DEF Enqueue
<1>4. Submitted(items[NextId], new)
  BY <1>2 DEF Submitted
<1>5. new \in ItemType /\ new.key = key
  BY <1>1 DEF ItemOK
<1> HIDE DEF new
<1> QED BY <1>1, <1>2, <1>3, <1>4, <1>5 DEF IInv

LEMMA LeaseMoves ==
  ASSUME IInv, NEW w \in Workers, NEW i \in Items, LeaseItem(w, i)
  PROVE  /\ items' \in [Items -> ItemType]
         /\ \A j \in Items : ItemOK(items'[j]) /\ Advance(items[j], items'[j])
<1> DEFINE q == AfterExpire
           taken == [q[i] EXCEPT !.status = "leased", !.attempts = q[i].attempts + 1,
                                 !.lease = NewLease(w, q, i)]
<1>1. /\ q \in [Items -> ItemType]
      /\ \A j \in Items : /\ ItemOK(q[j])
                          /\ q[j] = items[j] \/ Returned(items[j], q[j])
                             \/ Closed(items[j], q[j])
  BY AfterExpireOK DEF IInv
<1>2. items' = [q EXCEPT ![i] = taken] /\ i \in Candidates(q, w)
  BY DEF LeaseItem
<1> HIDE DEF q
<1>3. q[i].status = "queued" /\ q[i].attempts < q[i].max
  BY <1>1, <1>2 DEF Candidates, ItemOK
<1>4. NewLease(w, q, i) \in LeaseType
  BY <1>1, QueueAssumption DEF QueueAssumption, NewLease, LeaseType, Token, IInv, ItemType
<1>5. /\ NewLease(w, q, i).worker = w
      /\ NewLease(w, q, i).no = q[i].attempts + 1
  BY DEF NewLease
<1>6. NewLease(w, q, i) # NoLease
  BY <1>5, QueueAssumption DEF QueueAssumption, NoLease
<1>7. ItemOK(taken)
  <2> HIDE DEF NewLease
  <2>1. taken \in ItemType
    <3>1. q[i] \in ItemType /\ q[i].attempts + 1 \in Nat
      BY <1>1 DEF ItemType
    <3> QED BY <3>1, <1>4 DEF ItemType, Statuses
  <2> QED BY <2>1, <1>1, <1>3, <1>5, <1>6 DEF ItemOK, ItemType
<1>8. Advance(items[i], taken)
  <2>1. items[i] \in ItemType /\ q[i] \in ItemType
    BY <1>1 DEF IInv
  <2>2. q[i] = items[i] \/ Returned(items[i], q[i])
    BY <1>1, <1>3 DEF Closed
  <2>3. /\ items[i].status \in {"queued", "leased"}
        /\ items[i].attempts < items[i].max
        /\ q[i].attempts = items[i].attempts
        /\ q[i].key = items[i].key /\ q[i].max = items[i].max
    BY <2>2, <1>3 DEF Returned
  <2>4. /\ taken.status = "leased" /\ taken.attempts = q[i].attempts + 1
        /\ taken.key = q[i].key /\ taken.max = q[i].max
    BY <2>1 DEF ItemType
  <2> QED BY <2>3, <2>4 DEF Advance, Taken
<1>9. taken \in ItemType
  BY <1>7 DEF ItemOK
<1> HIDE DEF taken
<1>10. \A j \in Items : j # i => items'[j] = q[j]
  BY <1>1, <1>2
<1>11. items'[i] = taken
  BY <1>1, <1>2
<1>12. \A j \in Items : Advance(items[j], q[j])
  BY <1>1 DEF Advance, Kept
<1> QED BY <1>1, <1>2, <1>7, <1>8, <1>9, <1>10, <1>11, <1>12

LEMMA ExpireMoves ==
  ASSUME IInv, items' = AfterExpire
  PROVE  /\ items' \in [Items -> ItemType]
         /\ \A j \in Items : ItemOK(items'[j]) /\ Advance(items[j], items'[j])
  BY AfterExpireOK DEF IInv, Advance, Kept

LEMMA ReportMoves ==
  ASSUME IInv, NEW w \in Workers, NEW i \in Items, NEW n \in Nat,
         \/ Heartbeat(w, i, n) \/ Complete(w, i, n)
         \/ \E retry \in BOOLEAN : Fail(w, i, n, retry)
  PROVE  /\ items' \in [Items -> ItemType]
         /\ \A j \in Items : ItemOK(items'[j]) /\ Advance(items[j], items'[j])
<1>1. ItemOK(items[i]) /\ items \in [Items -> ItemType] /\ items[i] \in ItemType
  BY DEF IInv, ItemOK
<1>2. items[i].status = "leased" /\ items[i].lease.worker = w
  BY DEF Heartbeat, Complete, Fail, Live, Holds
<1>3. \A j \in Items : ItemOK(items[j]) /\ Kept(items[j], items[j])
  BY DEF IInv, Kept
<1>4. CASE Heartbeat(w, i, n)
  <2> DEFINE new == [items[i] EXCEPT !.lease = [items[i].lease EXCEPT !.left = TTL]]
  <2>1. items' = [items EXCEPT ![i] = new]
    BY <1>4, <1>1 DEF Heartbeat
  <2>2. [items[i].lease EXCEPT !.left = TTL] \in LeaseType
    BY <1>1, QueueAssumption DEF QueueAssumption, ItemType, LeaseType
  <2>3. new \in ItemType
    BY <1>1, <2>2 DEF ItemType
  <2>4. /\ new.lease.worker = w /\ new.lease.no = items[i].lease.no
        /\ new.status = "leased" /\ new.attempts = items[i].attempts
        /\ new.max = items[i].max /\ new.key = items[i].key
    BY <1>1, <1>2, <2>2 DEF ItemType, LeaseType
  <2> HIDE DEF new
  <2>5. new.lease # NoLease
    BY <2>4, QueueAssumption DEF QueueAssumption, NoLease
  <2>6. ItemOK(new)
    BY <1>1, <1>2, <2>3, <2>4, <2>5 DEF ItemOK
  <2>7. Advance(items[i], new)
    BY <1>2, <2>4 DEF Advance, Kept
  <2> QED BY <1>1, <1>3, <2>1, <2>3, <2>6, <2>7 DEF Advance
<1>5. CASE Complete(w, i, n)
  <2> DEFINE new == [items[i] EXCEPT !.status = "completed", !.lease = NoLease]
  <2>1. items' = [items EXCEPT ![i] = new]
    BY <1>5, <1>1 DEF Complete
  <2>2. ItemOK(new) /\ new \in ItemType
    BY <1>1, NoItemOK DEF ItemOK, NoItem, ItemType, Statuses, Terminal
  <2>3. Closed(items[i], new)
    BY <1>1, <1>2 DEF Closed, ItemType
  <2> QED BY <1>1, <1>3, <2>1, <2>2, <2>3 DEF Advance
<1>6. ASSUME NEW retry \in BOOLEAN, Fail(w, i, n, retry)
      PROVE  /\ items' \in [Items -> ItemType]
             /\ \A j \in Items : ItemOK(items'[j]) /\ Advance(items[j], items'[j])
  <2> DEFINE shut == [items[i] EXCEPT !.status = "failed", !.lease = NoLease]
             new == IF retry THEN GivenBack(items[i]) ELSE shut
  <2>1. items' = [items EXCEPT ![i] = new]
    BY <1>6 DEF Fail
  <2>2. ItemOK(shut) /\ Closed(items[i], shut)
    BY <1>1, <1>2, NoItemOK DEF ItemOK, NoItem, ItemType, Statuses, Terminal, Closed
  <2> HIDE DEF shut
  <2>3. /\ ItemOK(GivenBack(items[i]))
        /\ Returned(items[i], GivenBack(items[i])) \/ Closed(items[i], GivenBack(items[i]))
    BY <1>1, <1>2, GivenBackOK
  <2>4. ItemOK(new) /\ (Returned(items[i], new) \/ Closed(items[i], new))
    BY <2>2, <2>3
  <2> HIDE DEF new
  <2>5. new \in ItemType
    BY <2>4 DEF ItemOK
  <2> QED BY <1>1, <1>3, <2>1, <2>4, <2>5 DEF Advance
<1> QED BY <1>4, <1>5, <1>6

LEMMA CancelMoves ==
  ASSUME IInv, NEW i \in Items, Cancel(i)
  PROVE  /\ items' \in [Items -> ItemType]
         /\ \A j \in Items : ItemOK(items'[j]) /\ Advance(items[j], items'[j])
<1> DEFINE new == [items[i] EXCEPT !.status = "cancelled", !.lease = NoLease]
<1>1. ItemOK(items[i]) /\ items \in [Items -> ItemType] /\ items[i] \in ItemType
  BY DEF IInv, ItemOK
<1>2. \A j \in Items : ItemOK(items[j]) /\ Kept(items[j], items[j])
  BY DEF IInv, Kept
<1>3. items' = [items EXCEPT ![i] = new]
  BY <1>1 DEF Cancel
<1>4. ItemOK(new) /\ new \in ItemType
  BY <1>1, NoItemOK DEF ItemOK, NoItem, ItemType, Statuses, Terminal
<1>5. Aborted(items[i], new)
  BY <1>1 DEF Cancel, Aborted, Active, ItemType
<1> QED BY <1>1, <1>2, <1>3, <1>4, <1>5 DEF Advance

LEMMA PruneMoves ==
  ASSUME IInv, NEW p \in Procs, NEW old \in SUBSET Items, Prune(p, old)
  PROVE  /\ items' \in [Items -> ItemType]
         /\ \A j \in Items : ItemOK(items'[j]) /\ Advance(items[j], items'[j])
<1>1. items' = [i \in Items |-> IF i \in old THEN NoItem ELSE items[i]]
  BY DEF Prune
<1>2. NoItem \in ItemType /\ ItemOK(NoItem)
  BY NoItemOK DEF ItemOK
<1>3. \A j \in old : Dropped(items[j], NoItem)
  BY DEF Prune, Dropped
<1>4. \A j \in Items : ItemOK(items[j]) /\ items[j] \in ItemType /\ Kept(items[j], items[j])
  BY DEF IInv, Kept
<1> HIDE DEF NoItem
<1> QED BY <1>1, <1>2, <1>3, <1>4 DEF Advance

LEMMA TickMoves ==
  ASSUME IInv, Tick
  PROVE  /\ items' \in [Items -> ItemType]
         /\ \A j \in Items : ItemOK(items'[j]) /\ Advance(items[j], items'[j])
<1> DEFINE aged(x) == IF x > 0 THEN x - 1 ELSE 0
           older(l) == [l EXCEPT !.left = aged(l.left)]
           new(i) == [items[i] EXCEPT !.delay = aged(items[i].delay),
                                      !.lease = older(items[i].lease)]
<1>1. items' = [i \in Items |-> new(i)]
  BY DEF Tick, IInv, ItemType, LeaseType
<1>2. ASSUME NEW i \in Items PROVE ItemOK(new(i)) /\ new(i) \in ItemType
                                   /\ Kept(items[i], new(i))
  <2>1. ItemOK(items[i]) /\ items[i] \in ItemType /\ items[i].lease \in LeaseType
    BY DEF IInv, ItemOK, ItemType
  <2>2. \A x \in Nat : aged(x) \in Nat
    OBVIOUS
  <2> HIDE DEF aged
  <2>3. /\ older(items[i].lease) \in LeaseType
        /\ older(items[i].lease).worker = items[i].lease.worker
        /\ older(items[i].lease).no = items[i].lease.no
        /\ older(items[i].lease).token = items[i].lease.token
        /\ older(items[i].lease).left = aged(items[i].lease.left)
    BY <2>1, <2>2 DEF LeaseType
  <2>4. items[i].lease = NoLease => older(items[i].lease) = NoLease
    BY DEF aged, NoLease
  <2>5. items[i].lease # NoLease => older(items[i].lease) # NoLease
    <3>1. CASE items[i].status = "leased"
      BY <3>1, <2>1, <2>3, QueueAssumption DEF QueueAssumption, ItemOK, NoLease
    <3>2. CASE items[i].status # "leased"
      BY <3>2, <2>1 DEF ItemOK
    <3> QED BY <3>1, <3>2
  <2> HIDE DEF older
  <2>6. /\ new(i) \in ItemType /\ new(i).lease = older(items[i].lease)
        /\ new(i).status = items[i].status /\ new(i).attempts = items[i].attempts
        /\ new(i).max = items[i].max /\ new(i).key = items[i].key
    BY <2>1, <2>2, <2>3 DEF ItemType
  <2> HIDE DEF new
  <2>7. ItemOK(new(i))
    BY <2>1, <2>3, <2>4, <2>5, <2>6 DEF ItemOK
  <2> QED BY <2>3, <2>6, <2>7 DEF Kept
<1> HIDE DEF new
<1> QED BY <1>1, <1>2 DEF Advance

\* Every step but an enqueue advances each item or leaves it alone.
LEMMA StepMoves ==
  ASSUME IInv, [QueueNext]_qvars,
         ~ \E kind \in Kinds, prio \in Priorities, key \in Keys \cup {NoKey},
             max \in Budgets, delay \in Delays : Enqueue(kind, prio, key, max, delay)
  PROVE  /\ items' \in [Items -> ItemType]
         /\ \A j \in Items : ItemOK(items'[j]) /\ Advance(items[j], items'[j])
<1>1. CASE items' = items
  BY <1>1 DEF IInv, Advance, Kept
<1>2. CASE items' = AfterExpire
  BY <1>2, ExpireMoves
<1>3. CASE \E i \in Items : Cancel(i)
  BY <1>3, CancelMoves
<1>4. CASE \E p \in Procs : \E old \in SUBSET Items : Prune(p, old)
  BY <1>4, PruneMoves
<1>5. CASE WorkerCalls
  <2>1. PICK w \in Workers :
          \/ LeaseNothing(w)
          \/ \E i \in Items : LeaseItem(w, i)
          \/ \E i \in Items : \E n \in 1..items[i].max :
               \/ Heartbeat(w, i, n)
               \/ Complete(w, i, n)
               \/ \E retry \in BOOLEAN : Fail(w, i, n, retry)
               \/ LeaseLost(w, i, n)
    BY <1>5 DEF WorkerCalls
  <2>2. CASE LeaseNothing(w)
    BY <2>2, <1>2 DEF LeaseNothing
  <2>3. CASE \E i \in Items : LeaseItem(w, i)
    BY <2>3, LeaseMoves
  <2>4. ASSUME NEW i \in Items, NEW n \in 1..items[i].max,
               \/ Heartbeat(w, i, n)
               \/ Complete(w, i, n)
               \/ \E retry \in BOOLEAN : Fail(w, i, n, retry)
        PROVE  /\ items' \in [Items -> ItemType]
               /\ \A j \in Items : ItemOK(items'[j]) /\ Advance(items[j], items'[j])
    <3>1. n \in Nat
      BY DEF IInv, ItemType
    <3> QED BY <2>4, <3>1, ReportMoves
  <2>5. CASE \E i \in Items : \E n \in 1..items[i].max : LeaseLost(w, i, n)
    BY <2>5, <1>1, <1>2 DEF LeaseLost
  <2> QED BY <2>1, <2>2, <2>3, <2>4, <2>5
<1>6. CASE Tick
  BY <1>6, TickMoves
<1> QED
  BY <1>1, <1>2, <1>3, <1>4, <1>5, <1>6
  DEF QueueNext, Clients, ExpireLeases, Restart, qvars

\* The counters stay natural numbers.
LEMMA CountersOK ==
  ASSUME IInv, [QueueNext]_qvars
  PROVE  seq' \in Nat /\ fence' \in [Procs -> [Items -> Nat]] /\ issued' \in [Items -> Nat]
<1> USE DEF IInv
<1>1. ASSUME NEW w \in Workers, NEW i \in Items, LeaseItem(w, i)
      PROVE  seq' \in Nat /\ fence' \in [Procs -> [Items -> Nat]] /\ issued' \in [Items -> Nat]
  <2>1. Home[w] \in Procs /\ Token(Home[w], i) \in Nat
    BY QueueAssumption DEF QueueAssumption, Token
  <2> QED BY <1>1, <2>1 DEF LeaseItem
<1>2. ASSUME NEW p \in Procs, NEW old \in SUBSET Items, Prune(p, old)
      PROVE  seq' \in Nat /\ fence' \in [Procs -> [Items -> Nat]] /\ issued' \in [Items -> Nat]
  BY <1>2 DEF Prune
<1>3. ASSUME NEW p \in Procs, Restart(p)
      PROVE  seq' \in Nat /\ fence' \in [Procs -> [Items -> Nat]] /\ issued' \in [Items -> Nat]
  BY <1>3 DEF Restart
<1>4. CASE UNCHANGED <<seq, fence, issued>>
  BY <1>4
<1>5. ASSUME NEW kind, NEW prio, NEW key, NEW max, NEW delay,
             Enqueue(kind, prio, key, max, delay)
      PROVE  seq' \in Nat /\ fence' \in [Procs -> [Items -> Nat]] /\ issued' \in [Items -> Nat]
  BY <1>5 DEF Enqueue
<1> QED
  BY <1>1, <1>2, <1>3, <1>4, <1>5
  DEF QueueNext, Clients, WorkerCalls, ExpireLeases, Cancel, LeaseNothing, Heartbeat,
      Complete, Fail, LeaseLost, Tick, qvars

-----------------------------------------------------------------------------
(* The inductive invariant.                                                  *)

LEMMA InitInv == QueueInit => IInv
<1> SUFFICES ASSUME QueueInit PROVE IInv
  OBVIOUS
<1>1. ItemOK(NoItem) /\ NoItem \in ItemType /\ NoItem.status = "absent"
  BY NoItemOK DEF ItemOK, NoItem
<1> HIDE DEF NoItem
<1> QED BY <1>1 DEF QueueInit, IInv, OneItemPerKey

\* Unfinished items keep their keys apart: only an enqueue makes an item
\* unfinished, and it refuses the key of an unfinished item.
LEMMA KeysApart ==
  ASSUME IInv, [QueueNext]_qvars
  PROVE  OneItemPerKey'
<1>1. CASE \E kind \in Kinds, prio \in Priorities, key \in Keys \cup {NoKey},
             max \in Budgets, delay \in Delays : Enqueue(kind, prio, key, max, delay)
  <2>1. PICK kind \in Kinds, prio \in Priorities, key \in Keys \cup {NoKey},
             max \in Budgets, delay \in Delays : Enqueue(kind, prio, key, max, delay)
    BY <1>1
  <2>2. \A i \in Items : \/ items'[i] = items[i]
                         \/ i = NextId /\ items'[i].key = key
    BY <2>1, EnqueueMoves
  <2>3. key # NoKey => \A i \in Items : Active(items[i]) => items[i].key # key
    BY <2>1 DEF Enqueue, Pending, Active
  <2> QED BY <2>2, <2>3 DEF IInv, OneItemPerKey, Active
<1>2. CASE ~ \E kind \in Kinds, prio \in Priorities, key \in Keys \cup {NoKey},
             max \in Budgets, delay \in Delays : Enqueue(kind, prio, key, max, delay)
  <2>1. ASSUME NEW i \in Items, Active(items'[i])
        PROVE  Active(items[i]) /\ items'[i].key = items[i].key
    <3>1. Advance(items[i], items'[i])
      BY <1>2, StepMoves
    <3> QED
      BY <2>1, <3>1 DEF Advance, Kept, Taken, Returned, Closed, Aborted, Dropped, Active,
         NoItem, Terminal
  <2> QED BY <2>1 DEF IInv, OneItemPerKey, Active
<1> QED BY <1>1, <1>2

LEMMA NextInv == IInv /\ [QueueNext]_qvars => IInv'
<1> SUFFICES ASSUME IInv, [QueueNext]_qvars PROVE IInv'
  OBVIOUS
<1>1. /\ items' \in [Items -> ItemType]
      /\ \A i \in Items : ItemOK(items'[i])
  BY EnqueueMoves, StepMoves
<1>2. \A i \in Items : ItemOK(items[i])'
  BY <1>1 DEF ItemOK
<1> QED BY <1>1, <1>2, KeysApart, CountersOK DEF IInv

LEMMA Invariance == QueueSpec => []IInv
<1>1. QueueInit => IInv
  BY InitInv
<1>2. IInv /\ [QueueNext]_qvars => IInv'
  BY NextInv
<1> QED BY <1>1, <1>2, PTL DEF QueueSpec

-----------------------------------------------------------------------------
(* What the queue guarantees.                                                *)

(* The state of the queue keeps its shape (queue_models.py, WorkItem).       *)
THEOREM QueueTypes == QueueSpec => []TypeOK
<1>1. IInv => TypeOK
  BY DEF IInv, TypeOK
<1> QED BY <1>1, Invariance, PTL

(* No operation builds an item that WorkItem.__post_init__ rejects, for any  *)
(* number of workers, budgets and interleavings (queue_models.py:79).        *)
THEOREM QueueItemsWellFormed == QueueSpec => []ItemsWellFormed
<1>1. IInv => ItemsWellFormed
  BY DEF IInv, ItemsWellFormed, ItemOK
<1> QED BY <1>1, Invariance, PTL

(* An idempotency key has at most one unfinished item, in every backend      *)
(* (queue_memory.py, _find_idempotent).                                      *)
THEOREM QueueOneItemPerKey == QueueSpec => []OneItemPerKey
<1>1. IInv => OneItemPerKey
  BY DEF IInv
<1> QED BY <1>1, Invariance, PTL

(* A finished item keeps its outcome until it is pruned, whatever stale      *)
(* workers report (queue_memory.py, _leased_item and cancel).                *)
THEOREM QueueOutcomeIsFinal == QueueSpec => OutcomeIsFinal
<1>1. IInv /\ [QueueNext]_qvars =>
        [\A i \in Items : items[i].status \in Terminal =>
            items'[i].status \in {items[i].status, "absent"}]_qvars
  <2> SUFFICES ASSUME IInv, [QueueNext]_qvars, NEW i \in Items,
                      items[i].status \in Terminal
               PROVE  items'[i].status \in {items[i].status, "absent"}
    OBVIOUS
  <2>1. CASE \E kind \in Kinds, prio \in Priorities, key \in Keys \cup {NoKey},
               max \in Budgets, delay \in Delays : Enqueue(kind, prio, key, max, delay)
    <3>1. items'[i] = items[i] \/ Submitted(items[i], items'[i])
      BY <2>1, EnqueueMoves
    <3> QED BY <3>1 DEF Submitted, Terminal
  <2>2. CASE ~ \E kind \in Kinds, prio \in Priorities, key \in Keys \cup {NoKey},
               max \in Budgets, delay \in Delays : Enqueue(kind, prio, key, max, delay)
    <3>1. Advance(items[i], items'[i])
      BY <2>2, StepMoves
    <3> QED
      BY <3>1 DEF Advance, Kept, Taken, Returned, Closed, Aborted, Dropped, Active,
         NoItem, Terminal
  <2> QED BY <2>1, <2>2
<1> QED BY <1>1, Invariance, PTL DEF QueueSpec, OutcomeIsFinal

-----------------------------------------------------------------------------
(* Refinement.                                                               *)

LEMMA MoveRefines ==
  ASSUME IInv, NEW i \in Items, ItemOK(items'[i]),
         Advance(items[i], items'[i]) \/ Submitted(items[i], items'[i])
  PROVE  Lifecycle!Stay(i) \/ Lifecycle!Move(i)
<1> USE DEF Lifecycle!Stay, Lifecycle!Move
<1> DEFINE a == items[i]
           b == items'[i]
<1>1. ItemOK(a)
  BY DEF IInv
<1>2. CASE Kept(a, b)
  BY <1>2 DEF Kept
<1>3. CASE Submitted(a, b)
  BY <1>3 DEF Submitted, NoLease, Lifecycle!Submit
<1>4. CASE Taken(a, b)
  <2>1. b.attempts <= MaxBudget
    BY <1>4, <1>1, QueueAssumption DEF QueueAssumption, Taken, ItemOK, ItemType
  <2>2. b.lease.worker \in Workers
    BY <1>4 DEF Taken, ItemOK
  <2> QED BY <1>4, <2>1, <2>2 DEF Taken, Lifecycle!Take
<1>5. CASE Returned(a, b)
  <2>1. a.attempts < MaxBudget
    BY <1>5, <1>1, QueueAssumption DEF QueueAssumption, Returned, ItemOK, ItemType
  <2> QED BY <1>5, <2>1 DEF Returned, NoLease, Lifecycle!Return
<1>6. CASE Closed(a, b)
  BY <1>6, <1>1 DEF Closed, ItemOK, NoLease, Lifecycle!Finish
<1>7. CASE Aborted(a, b)
  BY <1>7 DEF Aborted, Active, NoLease, Lifecycle!Abort
<1>8. CASE Dropped(a, b)
  BY <1>8 DEF Dropped, NoItem, NoLease, Terminal, Lifecycle!Forget, Lifecycle!Finished
<1> QED
  BY <1>2, <1>3, <1>4, <1>5, <1>6, <1>7, <1>8 DEF Advance

(* The queue implements WorkLifecycle: every step of every backend, however  *)
(* many items it sweeps, is a step of the life cycle for each item or leaves *)
(* the item alone.                                                           *)
THEOREM QueueImplementsLifecycle == QueueSpec => ImplementsLifecycle
<1>1. QueueInit => Lifecycle!Init
  BY DEF QueueInit, NoItem, NoLease, Lifecycle!Init
<1>2. IInv /\ [QueueNext]_qvars => [Lifecycle!Next]_(Lifecycle!jvars)
  <2> SUFFICES ASSUME IInv, [QueueNext]_qvars PROVE Lifecycle!Next
    OBVIOUS
  <2> SUFFICES ASSUME NEW i \in Items PROVE Lifecycle!Stay(i) \/ Lifecycle!Move(i)
    BY DEF Lifecycle!Next
  <2>1. ItemOK(items'[i])
    BY EnqueueMoves, StepMoves
  <2>2. \A j \in Items : items'[j] = items[j] => Advance(items[j], items'[j])
    BY DEF Advance, Kept
  <2>3. Advance(items[i], items'[i]) \/ Submitted(items[i], items'[i])
    BY <2>2, EnqueueMoves, StepMoves
  <2> QED BY <2>1, <2>3, MoveRefines
<1> QED BY <1>1, <1>2, Invariance, PTL DEF QueueSpec, ImplementsLifecycle, Lifecycle!Spec

-----------------------------------------------------------------------------
(* Fencing.                                                                  *)

\* In one process that never restarts, the counter of an item that is there
\* is the highest token handed out for it.
CounterIsHighest ==
  \A p \in Procs, i \in Items : items[i].status # "absent" => issued[i] <= fence[p][i]

LEMMA CounterStaysHighest ==
  ASSUME Backend = "memory", NEW p0, Procs = {p0}
  PROVE  IInv /\ CounterIsHighest /\ [QueueNext]_qvars => CounterIsHighest'
<1> SUFFICES ASSUME IInv, CounterIsHighest, [QueueNext]_qvars PROVE CounterIsHighest'
  OBVIOUS
<1>1. CASE \E w \in Workers, i \in Items : LeaseItem(w, i)
  <2>1. PICK w \in Workers, i \in Items : LeaseItem(w, i)
    BY <1>1
  <2>2. Home[w] = p0
    BY QueueAssumption DEF QueueAssumption
  <2>3. /\ fence' = [fence EXCEPT ![p0][i] = fence[p0][i] + 1]
        /\ issued' = [issued EXCEPT ![i] = IF fence[p0][i] + 1 > issued[i]
                                           THEN fence[p0][i] + 1 ELSE issued[i]]
    BY <2>1, <2>2 DEF LeaseItem, Token
  <2>4. \A j \in Items : items'[j].status # "absent" => items[j].status # "absent"
    <3>1. ~ \E kind \in Kinds, prio \in Priorities, key \in Keys \cup {NoKey},
              max \in Budgets, delay \in Delays : Enqueue(kind, prio, key, max, delay)
      BY <2>1, <2>3, QueueAssumption DEF QueueAssumption, Enqueue, IInv
    <3> QED
      BY <3>1, StepMoves DEF Advance, Kept, Taken, Returned, Closed, Aborted, Dropped, Active,
         NoItem, Terminal
  <2>5. items[i].status # "absent"
    BY <2>1, AfterExpireOK DEF LeaseItem, Candidates, Returned, Closed, IInv
  <2> QED BY <2>3, <2>4, <2>5 DEF CounterIsHighest, IInv
<1>2. CASE \E kind \in Kinds, prio \in Priorities, key \in Keys \cup {NoKey},
             max \in Budgets, delay \in Delays : Enqueue(kind, prio, key, max, delay)
  <2>1. PICK kind \in Kinds, prio \in Priorities, key \in Keys \cup {NoKey},
             max \in Budgets, delay \in Delays : Enqueue(kind, prio, key, max, delay)
    BY <1>2
  <2>2. /\ fence' = fence /\ issued' = [issued EXCEPT ![NextId] = 0]
        /\ \A j \in Items : j # NextId => items'[j] = items[j]
    BY <2>1, EnqueueMoves DEF Enqueue
  <2> QED BY <2>2 DEF CounterIsHighest, IInv
<1>3. CASE \E p \in Procs : \E old \in SUBSET Items : Prune(p, old)
  <2>1. PICK old \in SUBSET Items : Prune(p0, old)
    BY <1>3
  <2>2. /\ fence' = [fence EXCEPT ![p0] = [i \in Items |-> IF i \in old THEN 0
                                                            ELSE fence[p0][i]]]
        /\ issued' = issued
        /\ \A i \in old : items'[i].status = "absent"
        /\ \A i \in Items \ old : items'[i] = items[i]
    BY <2>1 DEF Prune, NoItem
  <2> QED BY <2>2 DEF CounterIsHighest, IInv
<1>4. CASE /\ UNCHANGED <<fence, issued>>
           /\ ~ \E kind \in Kinds, prio \in Priorities, key \in Keys \cup {NoKey},
                  max \in Budgets, delay \in Delays : Enqueue(kind, prio, key, max, delay)
  <2>1. \A j \in Items : items'[j].status # "absent" => items[j].status # "absent"
    BY <1>4, StepMoves DEF Advance, Kept, Taken, Returned, Closed, Aborted, Dropped, Active,
       NoItem, Terminal
  <2> QED BY <1>4, <2>1 DEF CounterIsHighest
<1> QED
  BY <1>1, <1>2, <1>3, <1>4
  DEF QueueNext, Clients, WorkerCalls, ExpireLeases, Cancel, LeaseNothing, Heartbeat,
      Complete, Fail, LeaseLost, Tick, Restart, qvars

\* Only leasing gives an item a lease with another number.
LEMMA OnlyLeasingNumbers ==
  ASSUME IInv, [QueueNext]_qvars, NEW i \in Items,
         items'[i].status = "leased", items'[i].lease.no # items[i].lease.no
  PROVE  \E w \in Workers : LeaseItem(w, i)
<1>1. items' # items
  OBVIOUS
<1>2. items' # AfterExpire
  BY GivenBackOK DEF AfterExpire, Expired, IInv
<1>3. ASSUME NEW kind, NEW prio, NEW key, NEW max, NEW delay,
             Enqueue(kind, prio, key, max, delay) PROVE FALSE
  BY <1>3 DEF Enqueue, IInv
<1>4. ASSUME NEW j \in Items, Cancel(j) PROVE FALSE
  BY <1>4 DEF Cancel, IInv, ItemType
<1>5. ASSUME NEW p, NEW old, Prune(p, old) PROVE FALSE
  BY <1>5 DEF Prune, NoItem
<1>6. ASSUME NEW w, NEW j \in Items, NEW n, Heartbeat(w, j, n) \/ Complete(w, j, n)
      PROVE  FALSE
  <2>1. /\ items[j] \in ItemType /\ items[j].lease \in LeaseType
        /\ items \in [Items -> ItemType]
    BY DEF IInv, ItemType
  <2>2. CASE Heartbeat(w, j, n)
    <3>1. items'[j].lease.no = items[j].lease.no
      BY <2>1, <2>2 DEF Heartbeat, ItemType, LeaseType
    <3>2. j # i => items'[i] = items[i]
      BY <2>1, <2>2 DEF Heartbeat
    <3> QED BY <3>1, <3>2
  <2>3. CASE Complete(w, j, n)
    <3>1. items'[j].status = "completed"
      BY <2>1, <2>3 DEF Complete, ItemType
    <3>2. j # i => items'[i] = items[i]
      BY <2>1, <2>3 DEF Complete
    <3> QED BY <3>1, <3>2
  <2> QED BY <1>6, <2>2, <2>3
<1>7. ASSUME NEW w, NEW j \in Items, NEW n, NEW retry, Fail(w, j, n, retry) PROVE FALSE
  <2>1. items[j].status = "leased" /\ items[j] \in ItemType
    BY <1>7 DEF Fail, Live, Holds, IInv
  <2>2. GivenBack(items[j]).status # "leased"
    BY <2>1, GivenBackOK DEF IInv
  <2> HIDE DEF GivenBack
  <2> QED BY <1>7, <2>1, <2>2 DEF Fail, IInv, ItemType
<1>8. ASSUME Tick PROVE FALSE
  BY <1>8, ZenonT(60) DEF Tick, IInv, ItemType, LeaseType
<1>9. ASSUME NEW w \in Workers, NEW j \in Items, LeaseItem(w, j), j # i PROVE FALSE
  <2>1. items'[i] = AfterExpire[i]
    BY <1>9, AfterExpireOK DEF LeaseItem, IInv
  <2> QED BY <2>1, AfterExpireOK DEF IInv, Returned, Closed
<1> QED
  BY <1>1, <1>2, <1>3, <1>4, <1>5, <1>6, <1>7, <1>8, <1>9
  DEF QueueNext, Clients, WorkerCalls, ExpireLeases, LeaseNothing, LeaseLost, Restart, qvars

(* Fencing tokens of an item strictly increase in the in-memory queue of one *)
(* process (queue_memory.py, _next_fencing_token).  Both assumptions are     *)
(* needed: the durable queues do not reload their counters.                  *)
THEOREM MemoryFencingIncreases ==
  ASSUME Backend = "memory", NEW p0, Procs = {p0}
  PROVE  QueueSpec => FencingIncreases
<1>1. QueueInit => CounterIsHighest
  BY DEF QueueInit, CounterIsHighest, NoItem
<1>2. IInv /\ CounterIsHighest /\ [QueueNext]_qvars =>
        [\A i \in Items :
           (items'[i].status = "leased" /\ items'[i].lease.no # items[i].lease.no)
              => items'[i].lease.token > issued[i]]_qvars
  <2> SUFFICES ASSUME IInv, CounterIsHighest, [QueueNext]_qvars, NEW i \in Items,
                      items'[i].status = "leased", items'[i].lease.no # items[i].lease.no
               PROVE  items'[i].lease.token > issued[i]
    OBVIOUS
  <2>1. PICK w \in Workers : LeaseItem(w, i)
    BY OnlyLeasingNumbers
  <2>2. Home[w] = p0 /\ fence[p0][i] \in Nat /\ issued[i] \in Nat
    BY QueueAssumption DEF QueueAssumption, IInv
  <2>3. items[i].status # "absent"
    BY <2>1, AfterExpireOK DEF LeaseItem, Candidates, Returned, Closed, IInv
  <2>4. AfterExpire \in [Items -> ItemType]
    BY AfterExpireOK DEF IInv
  <2>5. items'[i].lease.token = fence[p0][i] + 1
    <3>1. items'[i].lease = NewLease(w, AfterExpire, i)
      BY <2>1, <2>4 DEF LeaseItem, ItemType
    <3> QED BY <3>1, <2>2 DEF NewLease, Token
  <2> QED BY <2>2, <2>3, <2>5 DEF CounterIsHighest
<1> QED BY <1>1, <1>2, Invariance, CounterStaysHighest, PTL DEF QueueSpec, FencingIncreases

=============================================================================
