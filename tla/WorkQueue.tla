------------------------------ MODULE WorkQueue ------------------------------
(***************************************************************************)
(* The leased work queue of universal_agent.distributed: the operations of  *)
(* InMemoryWorkQueue (queue_memory.py) and what FileWorkQueue               *)
(* (queue_file.py) and SQLiteWorkQueue (queue_sqlite.py) change of them.    *)
(* Every operation of a durable queue runs under a file lock or in one      *)
(* BEGIN IMMEDIATE transaction, reloads the shared items, applies the       *)
(* in-memory operation and saves: it is one atomic step here.  What such a  *)
(* queue does NOT reload, the fencing counters, is private to a process.    *)
(*                                                                         *)
(* Time is relative: a lease carries the time it has left, an item the time *)
(* until it becomes available, and Tick lets one unit pass.  `expires_at <= *)
(* now' of the code is "nothing left".  Among the items of the best         *)
(* priority the code takes the one available first; here any of them may be *)
(* taken, which allows everything the code can do.                          *)
(***************************************************************************)
EXTENDS Integers, FiniteSets

CONSTANTS
  MaxItem,      \* bound: work item numbers are 1..MaxItem ("work-1", ...)
  Workers,      \* worker ids that present themselves to the queue
  NoWorker,     \* no worker holds the item
  Procs,        \* operating system processes, each with its own queue object
  Home,         \* the process a worker runs in
  Kinds,        \* work kinds
  Accepts,      \* the kinds a worker has handlers for
  Keys,         \* idempotency keys
  NoKey,        \* enqueued without an idempotency key
  Priorities,   \* priorities in use
  Budgets,      \* values of max_attempts in use
  MaxBudget,    \* the largest of them
  Delays,       \* how far in the future available_at may lie
  TTL,          \* ttl_seconds of a lease, in ticks
  MaxToken,     \* bound: highest fencing token a process hands out for an item
  Backend       \* "memory", "file" or "sqlite"

ASSUME QueueAssumption ==
  /\ MaxItem \in Nat
  /\ NoWorker \notin Workers
  /\ NoKey \notin Keys
  /\ Home \in [Workers -> Procs]
  /\ Accepts \in [Workers -> SUBSET Kinds]
  /\ Priorities \subseteq Int
  /\ MaxBudget \in Nat
  /\ Budgets \subseteq 1..MaxBudget       \* parse_positive_int(max_attempts)
  /\ Delays \subseteq Nat
  /\ TTL \in Nat \ {0}                    \* parse_positive_float(ttl_seconds)
  /\ MaxToken \in Nat
  /\ Backend \in {"memory", "file", "sqlite"}

VARIABLES
  items,    \* the stored items, one record per item number
  seq,      \* _sequence of the in-memory queue, never taken back
  fence,    \* _fencing_sequences: per process, per item
  issued    \* history: the highest fencing token handed out for the item

qvars == <<items, seq, fence, issued>>

Items == 1..MaxItem
Terminal == {"completed", "failed", "cancelled"}
Statuses == {"absent", "queued", "leased"} \cup Terminal

NoLease == [worker |-> NoWorker, no |-> 0, left |-> 0, token |-> 0]

NoItem == [status |-> "absent", kind |-> NoKey, prio |-> 0, key |-> NoKey,
           max |-> 0, attempts |-> 0, delay |-> 0, lease |-> NoLease]

LeaseType == [worker : Workers \cup {NoWorker}, no : Nat, left : Nat, token : Nat]

ItemType == [status : Statuses, kind : Kinds \cup {NoKey}, prio : Int,
             key : Keys \cup {NoKey}, max : Nat, attempts : Nat,
             delay : Nat, lease : LeaseType]

QueueInit ==
  /\ items = [i \in Items |-> NoItem]
  /\ seq = 0
  /\ fence = [p \in Procs |-> [i \in Items |-> 0]]
  /\ issued = [i \in Items |-> 0]

-----------------------------------------------------------------------------
(* Enqueue.  A key already carried by an unfinished item returns that item   *)
(* unchanged, so only the other case is a step.                              *)

Present == {i \in Items : items[i].status # "absent"}

\* Variant: looks among the queued items only.
PendingQueuedOnly(k) == \E i \in Items : items[i].status = "queued" /\ items[i].key = k

\* Some unfinished item already carries the idempotency key.
Pending(k) == \E i \in Items : /\ items[i].status \in {"queued", "leased"}
                               /\ items[i].key = k

\* The durable queues recompute the sequence from the items they loaded.
NextId == IF Backend = "memory"
          THEN seq + 1
          ELSE 1 + CHOOSE m \in Present \cup {0} : \A i \in Present : i <= m

Enqueue(kind, prio, key, max, delay) ==
  /\ key # NoKey => ~Pending(key)
  /\ NextId \in Items                               \* bound
  /\ items[NextId].status = "absent"
  /\ items' = [items EXCEPT ![NextId] =
                 [status |-> "queued", kind |-> kind, prio |-> prio, key |-> key,
                  max |-> max, attempts |-> 0, delay |-> delay, lease |-> NoLease]]
  /\ issued' = [issued EXCEPT ![NextId] = 0]
  /\ seq' = IF Backend = "memory" THEN seq + 1 ELSE seq
  /\ UNCHANGED fence

-----------------------------------------------------------------------------
(* Expiry.                                                                   *)

\* Variants: one unit early; never for an item on its last attempt.
ExpiredEarly(it) == it.status = "leased" /\ it.lease.left <= 1
ExpiredIfRetryable(it) ==
  it.status = "leased" /\ it.lease.left = 0 /\ it.attempts < it.max

Expired(it) == it.status = "leased" /\ it.lease.left = 0

\* Variant: the attempts used are not looked at.
GivenBackAlways(it) == [it EXCEPT !.status = "queued", !.lease = NoLease, !.delay = 0]

\* The item goes back to the queue while it has attempts left, else it fails.
GivenBack(it) ==
  [it EXCEPT !.status = IF it.attempts < it.max THEN "queued" ELSE "failed",
             !.lease = NoLease,
             !.delay = 0]

AfterExpire ==
  [i \in Items |-> IF Expired(items[i]) THEN GivenBack(items[i]) ELSE items[i]]

ExpireLeases ==
  /\ \E i \in Items : Expired(items[i])
  /\ items' = AfterExpire
  /\ UNCHANGED <<seq, fence, issued>>

-----------------------------------------------------------------------------
(* Leasing.                                                                  *)

Candidates(q, w) ==
  {i \in Items : /\ q[i].status = "queued"
                 /\ q[i].delay = 0
                 /\ q[i].kind \in Accepts[w]}

\* Variants: the counter is not advanced; it steps back.
TokenRepeated(p, i) == fence[p][i]
TokenBelow(p, i) == fence[p][i] - 1

\* SQLiteWorkQueue.lease builds the lease without a token: the field's default.
Token(p, i) == IF Backend = "sqlite" THEN 0 ELSE fence[p][i] + 1

NewLease(w, q, i) == [worker |-> w, no |-> q[i].attempts + 1, left |-> TTL,
                      token |-> Token(Home[w], i)]

LeaseItem(w, i) ==
  LET q == AfterExpire IN
  /\ i \in Candidates(q, w)
  /\ Token(Home[w], i) <= MaxToken                  \* bound
  /\ \A j \in Candidates(q, w) : q[j].prio <= q[i].prio
  /\ items' = [q EXCEPT ![i] = [q[i] EXCEPT !.status = "leased",
                                            !.attempts = q[i].attempts + 1,
                                            !.lease = NewLease(w, q, i)]]
  /\ fence' = IF Backend = "sqlite" THEN fence
              ELSE [fence EXCEPT ![Home[w]][i] = Token(Home[w], i)]
  /\ issued' = [issued EXCEPT ![i] =
                  IF Token(Home[w], i) > issued[i] THEN Token(Home[w], i) ELSE issued[i]]
  /\ UNCHANGED seq

\* NoWorkAvailable: what expired on the way stays expired.
LeaseNothing(w) ==
  /\ Candidates(AfterExpire, w) = {}
  /\ items' = AfterExpire
  /\ UNCHANGED <<seq, fence, issued>>

-----------------------------------------------------------------------------
(* Operations on a lease, named by item and number as "lease-<item>-<no>" is. *)

Holds(w, i, n) == /\ items[i].status = "leased"
                  /\ items[i].lease.worker = w
                  /\ items[i].lease.no = n

Live(w, i, n) == Holds(w, i, n) /\ items[i].lease.left > 0

\* LeaseLostError: an expired lease is expired for good, an unknown one is not touched.
LeaseLost(w, i, n) ==
  /\ ~Live(w, i, n)
  /\ items' = IF Holds(w, i, n) THEN AfterExpire ELSE items
  /\ UNCHANGED <<seq, fence, issued>>

\* Variant: an expired lease that was not swept yet is renewed.
HeartbeatRevives(w, i, n) ==
  /\ Holds(w, i, n)
  /\ items' = [items EXCEPT ![i].lease.left = TTL]
  /\ UNCHANGED <<seq, fence, issued>>

Heartbeat(w, i, n) ==
  /\ Live(w, i, n)
  /\ items' = [items EXCEPT ![i].lease.left = TTL]
  /\ UNCHANGED <<seq, fence, issued>>

\* Variant: whoever remembers a lease of the item may complete it.
CompleteUnleased(w, i, n) ==
  /\ items[i].status \in {"queued", "leased"}
  /\ items' = [items EXCEPT ![i].status = "completed", ![i].lease = NoLease]
  /\ UNCHANGED <<seq, fence, issued>>

Complete(w, i, n) ==
  /\ Live(w, i, n)
  /\ items' = [items EXCEPT ![i].status = "completed", ![i].lease = NoLease]
  /\ UNCHANGED <<seq, fence, issued>>

Fail(w, i, n, retry) ==
  /\ Live(w, i, n)
  /\ items' = [items EXCEPT ![i] =
                 IF retry THEN GivenBack(items[i])
                 ELSE [items[i] EXCEPT !.status = "failed", !.lease = NoLease]]
  /\ UNCHANGED <<seq, fence, issued>>

-----------------------------------------------------------------------------
(* Operations on an item, which ask for no lease.                            *)

\* Variant: a finished item may be cancelled.
CancelFinished(i) ==
  /\ items[i].status # "absent"
  /\ items' = [items EXCEPT ![i].status = "cancelled", ![i].lease = NoLease]
  /\ UNCHANGED <<seq, fence, issued>>

Cancel(i) ==
  /\ items[i].status \in {"queued", "leased"}
  /\ items' = [items EXCEPT ![i].status = "cancelled", ![i].lease = NoLease]
  /\ UNCHANGED <<seq, fence, issued>>

\* `before' selects the terminal items of some age: any set of them here.
Prune(p, old) ==
  /\ old # {}
  /\ \A i \in old : items[i].status \in Terminal
  /\ items' = [i \in Items |-> IF i \in old THEN NoItem ELSE items[i]]
  /\ fence' = [fence EXCEPT ![p] = [i \in Items |-> IF i \in old THEN 0 ELSE fence[p][i]]]
  /\ UNCHANGED <<seq, issued>>

-----------------------------------------------------------------------------
(* The environment of the queue.                                             *)

Tick ==
  /\ items' = [i \in Items |->
                 [items[i] EXCEPT
                    !.delay = IF items[i].delay > 0 THEN items[i].delay - 1 ELSE 0,
                    !.lease.left = IF items[i].lease.left > 0
                                   THEN items[i].lease.left - 1 ELSE 0]]
  /\ UNCHANGED <<seq, fence, issued>>

\* A process over a durable queue starts again with fresh fencing counters.
Restart(p) ==
  /\ Backend # "memory"
  /\ fence' = [fence EXCEPT ![p] = [i \in Items |-> 0]]
  /\ UNCHANGED <<items, seq, issued>>

Clients ==
  \/ \E kind \in Kinds, prio \in Priorities, key \in Keys \cup {NoKey},
        max \in Budgets, delay \in Delays : Enqueue(kind, prio, key, max, delay)
  \/ \E i \in Items : Cancel(i)
  \/ \E p \in Procs : \E old \in SUBSET Items : Prune(p, old)
  \/ ExpireLeases

WorkerCalls ==
  \E w \in Workers :
    \/ LeaseNothing(w)
    \/ \E i \in Items : LeaseItem(w, i)
    \/ \E i \in Items : \E n \in 1..items[i].max :
         \/ Heartbeat(w, i, n)
         \/ Complete(w, i, n)
         \/ \E retry \in BOOLEAN : Fail(w, i, n, retry)
         \/ LeaseLost(w, i, n)

QueueNext ==
  \/ Clients
  \/ WorkerCalls
  \/ Tick
  \/ \E p \in Procs : Restart(p)

QueueSpec == QueueInit /\ [][QueueNext]_qvars

-----------------------------------------------------------------------------
TypeOK ==
  /\ items \in [Items -> ItemType]
  /\ seq \in Nat
  /\ fence \in [Procs -> [Items -> Nat]]
  /\ issued \in [Items -> Nat]

(* No operation ever builds an item that WorkItem.__post_init__ rejects: a   *)
(* lease exactly while leased, never more attempts than max_attempts         *)
(* (queue_models.py).  `replace' in every operation would raise otherwise,   *)
(* in the middle of an expiry sweep or a worker's report.                    *)
ItemsWellFormed ==
  \A i \in Items :
    /\ items[i].status = "leased" <=> items[i].lease # NoLease
    /\ items[i].status = "leased" => /\ items[i].lease.worker \in Workers
                                     /\ items[i].lease.no = items[i].attempts
    /\ items[i].attempts <= items[i].max
    /\ items[i].status = "queued" => items[i].attempts < items[i].max

(* One idempotency key never has two unfinished items, whichever operations  *)
(* requeue, expire, cancel or prune in between: `_find_idempotent' guards    *)
(* enqueue only, so every other operation must not bring a finished item     *)
(* back.                                                                     *)
OneItemPerKey ==
  \A i, j \in Items :
    (/\ items[i].status \in {"queued", "leased"}
     /\ items[j].status \in {"queued", "leased"}
     /\ items[i].key = items[j].key
     /\ items[i].key # NoKey) => i = j

(* A finished item keeps its outcome until it is pruned: no late complete,   *)
(* fail, cancel, expire or heartbeat of a worker that lost its lease changes *)
(* what the item ended as.                                                   *)
OutcomeIsFinal ==
  [][\A i \in Items : items[i].status \in Terminal =>
        items'[i].status \in {items[i].status, "absent"}]_qvars

(* A worker's fencing token is higher than that of every earlier lease of    *)
(* the item ("Return the next monotonic fencing token for one work item",    *)
(* queue_memory.py): a resource that has seen the new token can refuse the   *)
(* old holder.                                                               *)
FencingIncreases ==
  [][\A i \in Items :
       (items'[i].status = "leased" /\ items'[i].lease.no # items[i].lease.no)
          => items'[i].lease.token > issued[i]]_qvars

(* The queue implements the life cycle it promises (WorkLifecycle): no       *)
(* interleaving of leases, expiries, stale reports, cancellations and        *)
(* prunings makes an item jump between stages, gives it two holders or a try *)
(* too many.                                                                 *)
Lifecycle == INSTANCE WorkLifecycle WITH
  Jobs <- Items, Owners <- Workers, Nobody <- NoWorker, MaxTries <- MaxBudget,
  stage <- [i \in Items |-> items[i].status],
  owner <- [i \in Items |-> items[i].lease.worker],
  tries <- [i \in Items |-> items[i].attempts]

ImplementsLifecycle == Lifecycle!Spec

=============================================================================
