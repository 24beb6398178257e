-------------------------------- MODULE Outbox --------------------------------
(***************************************************************************)
(* The transactional outbox: publish_outbox_batch (persistence/outbox.py)    *)
(* over the leased rows of the Postgres store (persistence/postgres.py).     *)
(*                                                                         *)
(* A batch is leased in one transaction, which locks its rows until it         *)
(* commits, and read back in a second one; its events are then sent one by one, *)
(* and what became of them is recorded in two more.  Between any two of these  *)
(* other publishers may step, the lease may lapse and the process may die.  The *)
(* broker may have taken an event although the call raised.                   *)
(***************************************************************************)
EXTENDS Integers, FiniteSets

CONSTANTS
  Rows,          \* committed events, in the order of their sequence
  Publishers,    \* publisher processes; the name is the publisher_id
  Nobody,        \* the row is not leased
  BatchLimit,    \* limit
  MaxDeaths,     \* bound: deaths of processes
  PatientLeases  \* assumption on time: the lease of a publisher at work lasts

ASSUME OutboxAssumption ==
  /\ Rows \subseteq Nat
  /\ Nobody \notin Publishers
  /\ BatchLimit \in Nat \ {0}
  /\ MaxDeaths \in Nat
  /\ PatientLeases \in BOOLEAN

VARIABLES
  row,       \* the rows of the outbox
  pub,       \* where each publisher is
  sent,      \* history: events the broker has taken
  deaths

ovars == <<row, pub, sent, deaths>>

Pending == [status |-> "pending", by |-> Nobody, lapsed |-> FALSE, delayed |-> FALSE]

Resting == [pc |-> "idle", batch |-> {}, hand |-> {}, good |-> {}, bad |-> {}]

OutboxInit ==
  /\ row = [e \in Rows |-> Pending]
  /\ pub = [p \in Publishers |-> Resting]
  /\ sent = {}
  /\ deaths = 0

-----------------------------------------------------------------------------
\* _reclaim_expired_outbox_leases
Reclaimed == [e \in Rows |-> IF row[e].status = "publishing" /\ row[e].lapsed THEN Pending ELSE row[e]]

Due == {e \in Rows : Reclaimed[e].status = "pending" /\ ~Reclaimed[e].delayed}

\* The rows that transactions in progress have locked.
Locked == UNION {pub[q].batch : q \in {r \in Publishers : pub[r].pc = "locking"}}

\* lease_outbox_events, first transaction: pending rows that are due; rows another
\* transaction has locked are skipped.
LockRows(p) ==
  /\ pub[p].pc = "idle"
  /\ \E batch \in SUBSET (Due \ Locked) :
       /\ Cardinality(batch) <= BatchLimit
       /\ batch = {} => Due \subseteq Locked
       /\ pub' = [pub EXCEPT ![p] = [Resting EXCEPT !.pc = "locking", !.batch = batch]]
  /\ UNCHANGED <<row, sent, deaths>>

\* It commits.
LeaseRows(p) ==
  /\ pub[p].pc = "locking"
  /\ row' = [e \in Rows |-> IF e \in pub[p].batch
                            THEN [Pending EXCEPT !.status = "publishing", !.by = p]
                            ELSE Reclaimed[e]]
  /\ pub' = [pub EXCEPT ![p].pc = "leased"]
  /\ UNCHANGED <<sent, deaths>>

\* Second transaction: an empty tuple of ids is no filter at all.
ReadBack(p) ==
  /\ pub[p].pc = "leased"
  /\ LET hand == {e \in Rows : row[e].status = "publishing"
                               /\ (pub[p].batch # {} => e \in pub[p].batch)} IN
       pub' = [pub EXCEPT ![p] = IF hand = {} THEN Resting
                                 ELSE [@ EXCEPT !.pc = "sending", !.hand = hand]]
  /\ UNCHANGED <<row, sent, deaths>>

InHand(p) == CHOOSE e \in pub[p].hand : \A f \in pub[p].hand : e <= f

SendGood(p) ==
  /\ pub[p].pc = "sending" /\ pub[p].hand # {}
  /\ pub' = [pub EXCEPT ![p].hand = @ \ {InHand(p)}, ![p].good = @ \cup {InHand(p)}]
  /\ sent' = sent \cup {InHand(p)}
  /\ UNCHANGED <<row, deaths>>

SendBad(p) ==
  /\ pub[p].pc = "sending" /\ pub[p].hand # {}
  /\ pub' = [pub EXCEPT ![p].hand = @ \ {InHand(p)}, ![p].bad = @ \cup {InHand(p)}]
  /\ sent' \in {sent, sent \cup {InHand(p)}}
  /\ UNCHANGED <<row, deaths>>

Published == [Pending EXCEPT !.status = "published"]

\* Variant: the whole batch is marked.
MarkAll(p) ==
  /\ pub[p].pc = "sending" /\ pub[p].hand = {}
  /\ (pub[p].good \cup pub[p].bad) \cap Locked = {}
  /\ row' = [e \in Rows |-> IF e \in pub[p].good \cup pub[p].bad /\ row[e].by = p
                            THEN Published ELSE row[e]]
  /\ pub' = [pub EXCEPT ![p].pc = "marked"]
  /\ UNCHANGED <<sent, deaths>>

\* Variant: the lease's end is compared the wrong way round.
MarkLapsed(p) ==
  /\ pub[p].pc = "sending" /\ pub[p].hand = {}
  /\ pub[p].good \cap Locked = {}
  /\ row' = [e \in Rows |-> IF e \in pub[p].good /\ row[e].by = p /\ row[e].lapsed
                            THEN Published ELSE row[e]]
  /\ pub' = [pub EXCEPT ![p].pc = "marked"]
  /\ UNCHANGED <<sent, deaths>>

\* mark_outbox_published: only rows still under this publisher's lease; it waits for
\* rows another transaction has locked.
MarkPublished(p) ==
  /\ pub[p].pc = "sending" /\ pub[p].hand = {}
  /\ pub[p].good \cap Locked = {}
  /\ row' = [e \in Rows |-> IF e \in pub[p].good /\ row[e].by = p THEN Published ELSE row[e]]
  /\ pub' = [pub EXCEPT ![p].pc = "marked"]
  /\ UNCHANGED <<sent, deaths>>

\* release_outbox_events, with a retry time.
ReleaseFailed(p) ==
  /\ pub[p].pc = "marked" /\ pub[p].bad \cap Locked = {}
  /\ row' = [e \in Rows |-> IF e \in pub[p].bad /\ row[e].by = p
                            THEN [Pending EXCEPT !.delayed = TRUE] ELSE row[e]]
  /\ pub' = [pub EXCEPT ![p] = Resting]
  /\ UNCHANGED <<sent, deaths>>

-----------------------------------------------------------------------------
AtWorkOn(e) == pub[row[e].by].pc # "idle"

LeaseLapses(e) ==
  /\ row[e].status = "publishing" /\ ~row[e].lapsed
  /\ PatientLeases => ~AtWorkOn(e)
  /\ row' = [row EXCEPT ![e].lapsed = TRUE]
  /\ UNCHANGED <<pub, sent, deaths>>

RetryIsDue(e) ==
  /\ row[e].delayed
  /\ row' = [row EXCEPT ![e].delayed = FALSE]
  /\ UNCHANGED <<pub, sent, deaths>>

PublisherDies(p) ==
  /\ pub[p].pc # "idle" /\ deaths < MaxDeaths                     \* bound
  /\ pub' = [pub EXCEPT ![p] = Resting]
  /\ deaths' = deaths + 1
  /\ UNCHANGED <<row, sent>>

Publish(p) ==
  \/ LockRows(p) \/ LeaseRows(p) \/ ReadBack(p)
  \/ SendGood(p) \/ SendBad(p) \/ MarkPublished(p) \/ ReleaseFailed(p)

OutboxNext ==
  \/ \E p \in Publishers : Publish(p) \/ PublisherDies(p)
  \/ \E e \in Rows : LeaseLapses(e) \/ RetryIsDue(e)

OutboxSpec == OutboxInit /\ [][OutboxNext]_ovars

\* Publishers keep being run, time passes, and the broker takes an event that the
\* publisher holding its row offers again and again.
OutboxFairness ==
  /\ \A p \in Publishers :
       /\ WF_ovars(Publish(p))
       /\ \A e \in Rows : SF_ovars(SendGood(p) /\ InHand(p) = e /\ row[e].by = p)
  /\ \A e \in Rows : WF_ovars(LeaseLapses(e)) /\ WF_ovars(RetryIsDue(e))

LiveOutboxSpec == OutboxSpec /\ OutboxFairness

-----------------------------------------------------------------------------
OutboxTypeOK ==
  /\ row \in [Rows -> [status : {"pending", "publishing", "published"},
                       by : Publishers \cup {Nobody}, lapsed : BOOLEAN, delayed : BOOLEAN]]
  /\ pub \in [Publishers -> [pc : {"idle", "locking", "leased", "sending", "marked"},
                batch : SUBSET Rows, hand : SUBSET Rows, good : SUBSET Rows, bad : SUBSET Rows]]
  /\ sent \subseteq Rows
  /\ deaths \in 0..MaxDeaths

(* At least once: a row is only marked published when the broker took its     *)
(* event, whoever held the lease meanwhile, failed, or died                   *)
(* (publish_outbox_batch).                                                   *)
PublishedWasSent == \A e \in Rows : row[e].status = "published" => e \in sent

(* Every committed event is published in the end, although publishers die,    *)
(* leases lapse and the broker refuses it for a while.                        *)
EverythingIsPublished == \A e \in Rows : <>(row[e].status = "published")

(* "Lease, publish and acknowledge one transactional outbox batch" (outbox.py, *)
(* publish_outbox_batch): as long as the leases of publishers at work last, an *)
(* event is sent only by the publisher that has it on lease.                   *)
SendsOnlyItsLease ==
  [][\A p \in Publishers : \A e \in pub[p].hand \ pub'[p].hand :
       pub'[p].pc = "sending" => row[e].by = p]_ovars

=============================================================================
