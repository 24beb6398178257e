----------------------------- MODULE WorkerProofs -----------------------------
(***************************************************************************)
(* Theorems about QueueWorker for every number of runs, workers and items.    *)
(* The work queue under the workers takes only steps of WorkQueue, so what is *)
(* proved of the queue holds of it there too.  What the runs promise on top    *)
(* of that rests on two facts: a lease number is used up when it is handed     *)
(* out (NumbersUsedUp), or the item is not forgotten before its run ends         *)
(* (JobsRemembered), and a heartbeat in time keeps an item in hand             *)
(* (OwnHand).                                                               *)
(***************************************************************************)
EXTENDS QueueWorker, WorkQueueProofs

Busy == {"refusing", "running", "cancelling"}

JobType == [item : {0} \cup Items, no : Nat, gone : BOOLEAN]

\* A run has a job exactly from the lease to its report.
JobsPlaced ==
  \A r \in Runs : IF pc[r] \in Busy THEN job[r].item \in Items /\ job[r].no >= 1 ELSE job[r] = NoJob

WInv ==
  /\ IInv
  /\ pc \in [Runs -> Places]
  /\ job \in [Runs -> JobType]
  /\ told \in [Runs -> Results]
  /\ registry \in [Workers -> [status : WorkerStatus, left : Nat]]
  /\ JobsPlaced

-----------------------------------------------------------------------------
(* The queue under the workers.                                              *)

LEMMA BusyJob ==
  ASSUME WInv, NEW r \in Runs, pc[r] \in Busy
  PROVE  /\ IdOf[r] \in Workers /\ job[r].item \in Items /\ Item(r) \in Items
         /\ job[r].no \in Nat /\ job[r].no >= 1
BY WorkerAssumption DEF WInv, JobsPlaced, JobType, Item

LEMMA HeldNumber ==
  ASSUME IInv, NEW w \in Workers, NEW i \in Items, NEW n \in Nat, n >= 1, Live(w, i, n)
  PROVE  n \in 1..items[i].max /\ items[i].lease.no = items[i].attempts /\ items[i].attempts = n
<1>1. ItemOK(items[i]) /\ items[i].max \in Nat /\ items[i].attempts \in Nat
  BY DEF IInv, ItemType
<1>. QED  BY <1>1 DEF ItemOK, Live, Holds

\* What a busy run calls is a call of a worker, or changes nothing.
LEMMA CallsAreQueueSteps ==
  ASSUME WInv, NEW r \in Runs, pc[r] \in Busy,
         \/ Heartbeat(IdOf[r], job[r].item, job[r].no)
         \/ Complete(IdOf[r], job[r].item, job[r].no)
         \/ \E retry \in BOOLEAN : Fail(IdOf[r], job[r].item, job[r].no, retry)
         \/ LeaseLost(IdOf[r], job[r].item, job[r].no)
         \/ Cancel(job[r].item)
  PROVE  [QueueNext]_qvars
<1>. DEFINE w == IdOf[r]
            i == job[r].item
            n == job[r].no
<1>1. w \in Workers /\ i \in Items /\ n \in Nat /\ n >= 1 /\ IInv
  BY BusyJob DEF WInv
<1>. HIDE DEF w, i, n
<1>2. ASSUME \/ Heartbeat(w, i, n) \/ Complete(w, i, n)
             \/ \E retry \in BOOLEAN : Fail(w, i, n, retry)
      PROVE  QueueNext
  <2>1. Live(w, i, n)
    BY <1>2 DEF Heartbeat, Complete, Fail
  <2>2. n \in 1..items[i].max
    BY <1>1, <2>1, HeldNumber
  <2>. QED  BY <1>1, <1>2, <2>2 DEF QueueNext, WorkerCalls
<1>3. ASSUME LeaseLost(w, i, n)
      PROVE  QueueNext \/ UNCHANGED qvars
  <2>1. CASE Holds(w, i, n)
    <3>1. items[i].lease.left \in Nat
      BY <1>1 DEF IInv, ItemType, LeaseType
    <3>2. Expired(items[i])
      BY <1>3, <2>1, <3>1 DEF LeaseLost, Live, Holds, Expired
    <3>3. ExpireLeases
      BY <1>1, <1>3, <2>1, <3>2 DEF LeaseLost, ExpireLeases
    <3>. QED  BY <3>3 DEF QueueNext, Clients
  <2>2. CASE ~Holds(w, i, n)
    BY <1>3, <2>2 DEF LeaseLost, qvars
  <2>. QED  BY <2>1, <2>2
<1>4. ASSUME Cancel(i)
      PROVE  QueueNext
  BY <1>1, <1>4 DEF QueueNext, Clients
<1>. QED  BY <1>2, <1>3, <1>4 DEF w, i, n

LEMMA WorkerStepIsQueueStep ==
  ASSUME WInv, [WorkerNext]_wvars
  PROVE  [QueueNext]_qvars
<1>1. CASE Submissions \/ ExpireWork \/ CancelWork \/ PruneWork
  BY <1>1 DEF Submissions, ExpireWork, CancelWork, PruneWork, QueueNext, Clients
<1>2. CASE WorkerTick
  BY <1>2 DEF WorkerTick, QueueNext
<1>3. CASE ExpireWorkers
  BY <1>3 DEF ExpireWorkers
<1>4. ASSUME NEW w \in Workers, RegisterWorker(w) \/ \E s \in {"draining", "offline"} : Withdraw(w, s)
      PROVE  [QueueNext]_qvars
  BY <1>4 DEF RegisterWorker, Withdraw
<1>5. ASSUME NEW r \in Runs, Prepare(r) \/ Inactive(r) \/ HandlerCancelled(r) \/ Abandon(r)
      PROVE  [QueueNext]_qvars
  BY <1>5 DEF Prepare, Inactive, HandlerCancelled, Abandon
<1>6. ASSUME NEW r \in Runs, TakeNothing(r) \/ \E i \in Items : Take(r, i)
      PROVE  [QueueNext]_qvars
  <2>1. IdOf[r] \in Workers
    BY WorkerAssumption
  <2>. QED  BY <1>6, <2>1 DEF TakeNothing, Take, QueueNext, WorkerCalls
<1>7. ASSUME NEW r \in Runs, Refuse(r) \/ HandlerReturns(r)
      PROVE  [QueueNext]_qvars
  <2>1. pc[r] \in Busy
    BY <1>7 DEF Refuse, HandlerReturns, Busy
  <2>2. \/ Complete(IdOf[r], job[r].item, job[r].no)
        \/ \E retry \in BOOLEAN : Fail(IdOf[r], job[r].item, job[r].no, retry)
        \/ LeaseLost(IdOf[r], job[r].item, job[r].no)
        \/ Cancel(job[r].item)
        \/ UNCHANGED qvars
    BY <1>7 DEF Refuse, HandlerReturns, ReportCompleted, ReportCancelled, ReportFailed, ReportLost, Item
  <2>. QED  BY <2>1, <2>2, CallsAreQueueSteps
<1>8. ASSUME NEW r \in Runs, Beat(r) \/ BeatLost(r) \/ BeatUnregistered(r)
      PROVE  [QueueNext]_qvars
  <2>1. pc[r] \in Busy
    BY <1>8 DEF Beat, BeatLost, BeatUnregistered, Busy
  <2>2. \/ Heartbeat(IdOf[r], job[r].item, job[r].no)
        \/ \E retry \in BOOLEAN : Fail(IdOf[r], job[r].item, job[r].no, retry)
        \/ LeaseLost(IdOf[r], job[r].item, job[r].no)
    BY <1>8 DEF Beat, BeatLost, BeatUnregistered
  <2>. QED  BY <2>1, <2>2, CallsAreQueueSteps
<1>9. CASE UNCHANGED wvars
  BY <1>9 DEF wvars, qvars
<1>. QED  BY <1>1, <1>2, <1>3, <1>4, <1>5, <1>6, <1>7, <1>8, <1>9
          DEF WorkerNext, Operators, RunStep

-----------------------------------------------------------------------------
(* Types.                                                                    *)

\* The queue keeps its invariant under the workers.
LEMMA WorkerKeepsQueue ==
  ASSUME WInv, [WorkerNext]_wvars
  PROVE  IInv'
BY WorkerStepIsQueueStep, NextInv DEF WInv

LEMMA RegistryType ==
  ASSUME WInv, [WorkerNext]_wvars
  PROVE  registry' \in [Workers -> [status : WorkerStatus, left : Nat]]
<1>. DEFINE Record == [status : WorkerStatus, left : Nat]
<1>1. /\ registry \in [Workers -> Record] /\ Online \in Record
      /\ IdOf \in [Runs -> Workers] /\ WorkerTTL \in Nat
  BY WorkerAssumption DEF WInv, Online, WorkerStatus
<1>2. AfterRegistryExpire \in [Workers -> Record]
  BY <1>1 DEF AfterRegistryExpire, WorkerStatus
<1>3. \A w \in Workers : Renewed(w) \in [Workers -> Record] /\ Enlisted(w) \in [Workers -> Record]
  BY <1>1, <1>2 DEF Renewed, Enlisted
<1>4. CASE UNCHANGED registry
  BY <1>1, <1>4
<1>5. CASE ExpireWorkers
  BY <1>2, <1>5 DEF ExpireWorkers
<1>6. ASSUME NEW w \in Workers, RegisterWorker(w) \/ \E s \in {"draining", "offline"} : Withdraw(w, s)
      PROVE  registry' \in [Workers -> Record]
  <2>1. CASE RegisterWorker(w)
    BY <1>1, <2>1 DEF RegisterWorker
  <2>2. ASSUME NEW s \in {"draining", "offline"}, Withdraw(w, s)
        PROVE  registry' \in [Workers -> Record]
    BY <1>1, <2>2 DEF Withdraw, WorkerStatus
  <2>. QED  BY <1>6, <2>1, <2>2
<1>7. ASSUME NEW r \in Runs, Prepare(r) \/ Beat(r) \/ BeatUnregistered(r)
      PROVE  registry' \in [Workers -> Record]
  <2>1. registry' \in {Enlisted(IdOf[r]), Renewed(IdOf[r]), AfterRegistryExpire}
    BY <1>7 DEF Prepare, Beat, BeatUnregistered
  <2>. QED  BY <1>1, <1>2, <1>3, <2>1
<1>8. CASE WorkerTick
  BY <1>1, <1>8 DEF WorkerTick
<1>9. ASSUME NEW r \in Runs, RunStep(r) \/ BeatLost(r) \/ Abandon(r), ~Prepare(r)
      PROVE  UNCHANGED registry
  BY <1>9 DEF RunStep, Inactive, Take, TakeNothing, Refuse, HandlerReturns, HandlerCancelled,
              BeatLost, Abandon
<1>10. CASE Submissions \/ ExpireWork \/ CancelWork \/ PruneWork \/ UNCHANGED wvars
  BY <1>4, <1>10 DEF Submissions, ExpireWork, CancelWork, PruneWork, wvars
<1>. QED  BY <1>4, <1>5, <1>6, <1>7, <1>8, <1>9, <1>10 DEF WorkerNext, Operators

\* What a step does to the runs: all but one stay where they are, though an item may be
\* forgotten under them.
RunsStay == UNCHANGED <<pc, job, told>>

RunEnds(r) ==
  /\ pc' = [pc EXCEPT ![r] = "idle"] /\ job' = [job EXCEPT ![r] = NoJob]
  /\ \E result \in Results : told' = [told EXCEPT ![r] = result]

LEMMA RunMoves ==
  ASSUME WInv, [WorkerNext]_wvars
  PROVE  \/ RunsStay
         \/ PruneWork
         \/ \E r \in Runs :
              \/ RunEnds(r)
              \/ Prepare(r)
              \/ \E i \in Items : Take(r, i)
              \/ pc[r] = "running" /\ Goes(r, "cancelling")
<1>1. CASE Submissions \/ ExpireWork \/ CancelWork \/ WorkerTick \/ ExpireWorkers \/ UNCHANGED wvars
  BY <1>1 DEF Submissions, ExpireWork, CancelWork, WorkerTick, ExpireWorkers, wvars, RunsStay
<1>2. ASSUME NEW w \in Workers, RegisterWorker(w) \/ \E s \in {"draining", "offline"} : Withdraw(w, s)
      PROVE  RunsStay
  BY <1>2 DEF RegisterWorker, Withdraw, RunsStay
<1>3. ASSUME NEW r \in Runs, Beat(r)
      PROVE  RunsStay
  BY <1>3 DEF Beat, RunsStay
<1>4. ASSUME NEW r \in Runs, NEW result \in Results, Ends(r, result)
      PROVE  RunEnds(r)
  BY <1>4 DEF Ends, RunEnds
<1>5. ASSUME NEW r \in Runs, Inactive(r) \/ TakeNothing(r) \/ Refuse(r) \/ HandlerReturns(r)
                             \/ HandlerCancelled(r) \/ Abandon(r)
      PROVE  RunEnds(r)
  <2>1. /\ "none" \in Results /\ "no_work" \in Results /\ "worker_inactive" \in Results
        /\ "completed" \in Results /\ "cancelled" \in Results /\ "retrying" \in Results
        /\ "failed" \in Results /\ "lease_lost" \in Results /\ "raised" \in Results
    BY DEF Results
  <2>2. \E result \in Results : Ends(r, result)
    <3>. HIDE DEF Ends
    <3>1. CASE Inactive(r) \/ TakeNothing(r) \/ Abandon(r)
      BY <2>1, <3>1 DEF Inactive, TakeNothing, Abandon
    <3>2. CASE HandlerCancelled(r)
      BY <2>1, <3>2 DEF HandlerCancelled, LostResult
    <3>3. ASSUME ReportLost(r) PROVE \E result \in Results : Ends(r, result)
      BY <2>1, <3>3 DEF ReportLost, LostResult
    <3>4. ASSUME NEW retry \in BOOLEAN, ReportFailed(r, retry)
          PROVE  \E result \in Results : Ends(r, result)
      BY <2>1, <3>3, <3>4 DEF ReportFailed
    <3>5. CASE ReportCompleted(r) \/ ReportCancelled(r)
      BY <2>1, <3>3, <3>5 DEF ReportCompleted, ReportCancelled
    <3>. QED  BY <1>5, <3>1, <3>2, <3>4, <3>5 DEF Refuse, HandlerReturns
  <2>. QED  BY <1>4, <2>2
<1>6. ASSUME NEW r \in Runs, BeatLost(r) \/ BeatUnregistered(r)
      PROVE  pc[r] = "running" /\ Goes(r, "cancelling")
  BY <1>6 DEF BeatLost, BeatUnregistered
<1>. QED  BY <1>1, <1>2, <1>3, <1>5, <1>6 DEF WorkerNext, Operators, RunStep

\* A run that takes an item holds it.
LEMMA TakenIsHeld ==
  ASSUME WInv, NEW r \in Runs, NEW i \in Items, Take(r, i)
  PROVE  /\ job'[r] = [item |-> i, no |-> items[i].attempts + 1, gone |-> FALSE]
         /\ items[i].attempts \in Nat
         /\ items'[i].status = "leased" /\ items'[i].lease.worker = IdOf[r]
         /\ items'[i].lease.no = items[i].attempts + 1 /\ items'[i].lease.left = TTL
         /\ \A j \in Items \ {i} : items'[j] = AfterExpire[j]
         /\ items[i].status = "queued" \/ Expired(items[i])
<1>. DEFINE q == AfterExpire
            w == IdOf[r]
<1>1. /\ q \in [Items -> ItemType] /\ items \in [Items -> ItemType]
      /\ q[i] = items[i] \/ Returned(items[i], q[i]) \/ Closed(items[i], q[i])
      /\ items[i].attempts \in Nat
  BY AfterExpireOK DEF WInv, IInv, ItemType
<1>2. q[i].attempts = items[i].attempts
  BY <1>1 DEF Returned, Closed
<1>3. items' = [q EXCEPT ![i] = [q[i] EXCEPT !.status = "leased",
                                             !.attempts = q[i].attempts + 1,
                                             !.lease = NewLease(w, q, i)]]
      /\ i \in Candidates(q, w)
  BY DEF Take, LeaseItem
<1>4. items[i].status = "queued" \/ Expired(items[i])
  BY <1>3 DEF Candidates, AfterExpire
<1>. HIDE DEF q
<1>5. items'[i] = [q[i] EXCEPT !.status = "leased", !.attempts = q[i].attempts + 1,
                               !.lease = NewLease(w, q, i)]
  BY <1>1, <1>3
<1>. HIDE DEF w
<1>6. items'[i].status = "leased" /\ items'[i].lease = NewLease(w, q, i)
  <2>. HIDE DEF NewLease
  <2>. QED  BY <1>1, <1>5 DEF ItemType
<1>7. /\ items'[i].lease.worker = w /\ items'[i].lease.no = items[i].attempts + 1
      /\ items'[i].lease.left = TTL
  BY <1>2, <1>6 DEF NewLease
<1>8. job'[r] = [item |-> i, no |-> items'[i].lease.no, gone |-> FALSE]
  BY DEF Take, WInv
<1>9. \A j \in Items \ {i} : items'[j] = q[j]
  BY <1>1, <1>3
<1>. QED  BY <1>1, <1>4, <1>6, <1>7, <1>8, <1>9 DEF w, q

LEMMA WInvInit == WorkerInit => WInv
<1>. SUFFICES ASSUME WorkerInit PROVE WInv
  OBVIOUS
<1>1. IInv
  BY InitInv DEF WorkerInit
<1>2. NoJob \in JobType /\ "idle" \in Places /\ "none" \in Results
      /\ Unknown \in [status : WorkerStatus, left : Nat]
  BY DEF NoJob, JobType, Places, Results, Unknown, WorkerStatus
<1>3. JobsPlaced
  BY DEF WorkerInit, JobsPlaced, Busy
<1>4. /\ pc \in [Runs -> Places] /\ job \in [Runs -> JobType] /\ told \in [Runs -> Results]
      /\ registry \in [Workers -> [status : WorkerStatus, left : Nat]]
  <2>. HIDE DEF NoJob, Unknown, JobType, Places, Results, WorkerStatus
  <2>. QED  BY <1>2 DEF WorkerInit
<1>. QED  BY <1>1, <1>3, <1>4 DEF WInv

LEMMA WInvStep ==
  ASSUME WInv, [WorkerNext]_wvars
  PROVE  WInv'
<1>. DEFINE Rest == /\ pc' \in [Runs -> Places] /\ job' \in [Runs -> JobType]
                    /\ told' \in [Runs -> Results] /\ JobsPlaced'
<1>0. /\ pc \in [Runs -> Places] /\ job \in [Runs -> JobType] /\ told \in [Runs -> Results]
      /\ JobsPlaced /\ NoJob \in JobType
  BY DEF WInv, NoJob, JobType
<1>a. SUFFICES Rest
  BY WorkerKeepsQueue, RegistryType DEF WInv
<1>1. CASE RunsStay
  BY <1>0, <1>1 DEF RunsStay, JobsPlaced
<1>2. CASE PruneWork
  <2>1. PICK old \in SUBSET Items : job' = [r \in Runs |-> [job[r] EXCEPT !.gone = @ \/ Item(r) \in old]]
    BY <1>2 DEF PruneWork
  <2>2. UNCHANGED <<pc, told>>
    BY <1>2 DEF PruneWork
  <2>3. ASSUME NEW r \in Runs
        PROVE  /\ job'[r] \in JobType /\ job'[r].item = job[r].item /\ job'[r].no = job[r].no
               /\ pc[r] \notin Busy => job'[r] = NoJob
    <3>1. job'[r] = [job[r] EXCEPT !.gone = @ \/ Item(r) \in old]
      BY <2>1
    <3>2. /\ job'[r] \in JobType /\ job'[r].item = job[r].item /\ job'[r].no = job[r].no
          /\ job'[r].gone = (job[r].gone \/ Item(r) \in old)
      BY <1>0, <3>1 DEF JobType
    <3>3. pc[r] \notin Busy => job[r] = NoJob /\ Item(r) \notin old
      BY <1>0 DEF JobsPlaced, NoJob, Item, Items
    <3>4. ASSUME pc[r] \notin Busy PROVE job'[r] = NoJob
      <4>1. job[r].item = 0 /\ job[r].no = 0 /\ job[r].gone = FALSE
        BY <3>3, <3>4 DEF NoJob
      <4>2. job'[r].gone = FALSE
        BY <3>2, <3>3, <3>4, <4>1
      <4>3. job'[r] = [item |-> job'[r].item, no |-> job'[r].no, gone |-> job'[r].gone]
        BY <3>2 DEF JobType
      <4>. QED  BY <3>2, <4>1, <4>2, <4>3 DEF NoJob
    <3>. QED  BY <3>2, <3>4
  <2>4. job' \in [Runs -> JobType]
    BY <2>1, <2>3
  <2>5. pc' = pc /\ told' = told
    BY <2>2
  <2>6. JobsPlaced'
    BY <1>0, <2>3, <2>5 DEF JobsPlaced
  <2>. QED  BY <1>0, <2>4, <2>5, <2>6
<1>3. ASSUME NEW r \in Runs, RunEnds(r)
      PROVE  Rest
  BY <1>0, <1>3 DEF RunEnds, JobsPlaced, Busy, Places
<1>4. ASSUME NEW r \in Runs, Prepare(r)
      PROVE  Rest
  BY <1>0, <1>4 DEF Prepare, JobsPlaced, Busy, Places, Results
<1>5. ASSUME NEW r \in Runs, NEW i \in Items, Take(r, i)
      PROVE  Rest
  <2>1. /\ job'[r] = [item |-> i, no |-> items[i].attempts + 1, gone |-> FALSE]
        /\ items[i].attempts \in Nat
    BY <1>5, TakenIsHeld
  <2>2. job'[r] \in JobType /\ job'[r].item \in Items /\ job'[r].no >= 1
    BY <2>1 DEF JobType
  <2>3. PICK place \in {"running", "refusing"} : pc' = [pc EXCEPT ![r] = place]
    BY <1>5 DEF Take
  <2>4. told' = told /\ job' = [job EXCEPT ![r] = job'[r]]
    BY <1>0, <1>5 DEF Take
  <2>. QED  BY <1>0, <2>2, <2>3, <2>4 DEF JobsPlaced, Busy, Places
<1>6. ASSUME NEW r \in Runs, pc[r] = "running", Goes(r, "cancelling")
      PROVE  Rest
  BY <1>0, <1>6 DEF Goes, JobsPlaced, Busy, Places
<1>. QED  BY <1>1, <1>2, <1>3, <1>4, <1>5, <1>6, RunMoves

(* A run has a job exactly from the lease to its report, and the queue under the   *)
(* workers stays well formed.                                                *)
THEOREM WorkerInductive == WorkerSpec => []WInv
BY WInvInit, WInvStep, PTL DEF WorkerSpec

(* Workers, runs and the registry keep their types (WorkQueueWorker.run_once).   *)
THEOREM WorkerTypes == WorkerSpec => []WorkerTypeOK
<1>1. WInv => WorkerTypeOK
  BY DEF WInv, IInv, WorkerTypeOK, TypeOK, JobType
<1>. QED  BY <1>1, WorkerInductive, PTL

(* Whatever the workers, the registry and the operators do, the queue takes only   *)
(* steps of the work queue: everything proved of it holds of the queue that       *)
(* workers share.                                                            *)
THEOREM WorkerImplementsQueue == WorkerSpec => QueueSpec
<1>1. WorkerInit => QueueInit
  BY DEF WorkerInit
<1>2. WInv /\ [WorkerNext]_wvars => [QueueNext]_qvars
  BY WorkerStepIsQueueStep
<1>. QED  BY <1>1, <1>2, WorkerInductive, PTL DEF WorkerSpec, QueueSpec

-----------------------------------------------------------------------------
(* Reports.                                                                  *)

\* The item a run works for is the one it took, unless there is none any more.
NotReused ==
  \A r \in Runs : Item(r) # 0 =>
    \/ items[Item(r)].status = "absent"
    \/ ~job[r].gone /\ job[r].no <= items[Item(r)].attempts

\* In memory an item number is given out once, and so is every lease number of it.
NumbersUsedUp ==
  /\ \A i \in Items : items[i].status # "absent" => i <= seq
  /\ \A r \in Runs : Item(r) # 0 => Item(r) <= seq
  /\ NotReused

\* In memory what is forgotten stays forgotten, and tries only become more.
LEMMA ItemsGrow ==
  ASSUME Backend = "memory", IInv, [QueueNext]_qvars,
         \A i \in Items : items[i].status # "absent" => i <= seq
  PROVE  /\ seq \in Nat /\ seq' \in Nat /\ seq' >= seq
         /\ \A i \in Items :
              /\ items'[i].status # "absent" => i <= seq'
              /\ i <= seq /\ items[i].status = "absent" => items'[i].status = "absent"
              /\ items[i].status # "absent" /\ items'[i].status # "absent"
                   => items'[i].attempts >= items[i].attempts
<1>0. /\ seq \in Nat /\ \A i \in Items : i \in Nat /\ items[i].attempts \in Nat
  BY DEF IInv, Items, ItemType
<1>1. CASE \E kind \in Kinds, prio \in Priorities, key \in Keys \cup {NoKey},
             max \in Budgets, delay \in Delays : Enqueue(kind, prio, key, max, delay)
  <2>1. PICK kind \in Kinds, prio \in Priorities, key \in Keys \cup {NoKey},
             max \in Budgets, delay \in Delays : Enqueue(kind, prio, key, max, delay)
    BY <1>1
  <2>2. NextId = seq + 1 /\ seq' = seq + 1
    BY <2>1 DEF Enqueue, NextId
  <2>3. \A i \in Items : items'[i] = items[i] \/ i = NextId
    BY <2>1, EnqueueMoves
  <2>. QED  BY <1>0, <2>2, <2>3
<1>2. CASE ~ \E kind \in Kinds, prio \in Priorities, key \in Keys \cup {NoKey},
               max \in Budgets, delay \in Delays : Enqueue(kind, prio, key, max, delay)
  <2>1. \A i \in Items : Advance(items[i], items'[i])
    BY <1>2, StepMoves
  <2>2. seq' = seq
    BY <1>2 DEF QueueNext, qvars, Clients, WorkerCalls, Cancel, Prune, ExpireLeases, LeaseNothing,
                LeaseItem, Heartbeat, Complete, Fail, LeaseLost, Tick, Restart
  <2>3. ASSUME NEW i \in Items
        PROVE  /\ items[i].status = "absent" => items'[i].status = "absent"
               /\ items'[i].status # "absent" => items'[i].attempts >= items[i].attempts
    <3>1. Advance(items[i], items'[i]) /\ items[i].attempts \in Nat
      BY <1>0, <2>1
    <3>2. NoItem.status = "absent"
      BY DEF NoItem
    <3>. QED  BY <3>1, <3>2 DEF Advance, Kept, Taken, Returned, Closed, Aborted, Dropped, Active, Terminal
  <2>. QED  BY <1>0, <2>1, <2>2, <2>3
<1>. QED  BY <1>1, <1>2

LEMMA NumbersStayUsedUp ==
  ASSUME Backend = "memory", WInv, NumbersUsedUp, [WorkerNext]_wvars
  PROVE  NumbersUsedUp'
<1>0. IInv /\ IInv' /\ [QueueNext]_qvars /\ job \in [Runs -> JobType]
  BY WorkerStepIsQueueStep, WorkerKeepsQueue DEF WInv
<1>1. /\ seq \in Nat /\ seq' \in Nat /\ seq' >= seq
      /\ \A i \in Items :
           /\ items'[i].status # "absent" => i <= seq'
           /\ i <= seq /\ items[i].status = "absent" => items'[i].status = "absent"
           /\ items[i].status # "absent" /\ items'[i].status # "absent"
                => items'[i].attempts >= items[i].attempts
  BY <1>0, ItemsGrow DEF NumbersUsedUp
<1>2. /\ \A i \in Items : i \in Nat /\ items[i].attempts \in Nat /\ items'[i].attempts \in Nat
      /\ \A r \in Runs : Item(r) \in {0} \cup Items /\ job[r].no \in Nat
  <2>1. items \in [Items -> ItemType] /\ items' \in [Items -> ItemType]
    BY <1>0 DEF IInv
  <2>2. \A i \in Items : items[i].attempts \in Nat /\ items'[i].attempts \in Nat
    BY <2>1 DEF ItemType
  <2>3. \A r \in Runs : Item(r) \in {0} \cup Items /\ job[r].no \in Nat
    BY <1>0 DEF JobType, Item
  <2>. QED  BY <2>2, <2>3 DEF Items
<1>3. ASSUME NEW r \in Runs, job'[r].item = job[r].item, job'[r].no = job[r].no,
             job'[r].gone => job[r].gone \/ items'[Item(r)].status = "absent", Item(r) # 0
      PROVE  /\ Item(r)' <= seq'
             /\ \/ items'[Item(r)'].status = "absent"
                \/ ~job'[r].gone /\ job'[r].no <= items'[Item(r)'].attempts
  <2>1. Item(r)' = Item(r) /\ Item(r) \in Items
    BY <1>2, <1>3 DEF Item
  <2>2. /\ Item(r) <= seq
        /\ \/ items[Item(r)].status = "absent"
           \/ ~job[r].gone /\ job[r].no <= items[Item(r)].attempts
    BY <1>3 DEF NumbersUsedUp, NotReused
  <2>. QED  BY <1>1, <1>2, <1>3, <2>1, <2>2
<1>4. ASSUME NEW r \in Runs, Item(r)' # 0
      PROVE  /\ Item(r)' <= seq'
             /\ \/ items'[Item(r)'].status = "absent"
                \/ ~job'[r].gone /\ job'[r].no <= items'[Item(r)'].attempts
  <2>1. CASE job'[r] = job[r]
    BY <1>3, <1>4, <2>1 DEF Item
  <2>2. CASE PruneWork
    <3>1. PICK p \in Procs, old \in SUBSET Items :
            Prune(p, old) /\ job' = [s \in Runs |-> [job[s] EXCEPT !.gone = @ \/ Item(s) \in old]]
      BY <2>2 DEF PruneWork
    <3>2. job'[r] = [job[r] EXCEPT !.gone = @ \/ Item(r) \in old] /\ job[r] \in JobType
      BY <1>0, <3>1
    <3>3. job'[r].item = job[r].item /\ job'[r].no = job[r].no
          /\ (job'[r].gone => job[r].gone \/ Item(r) \in old)
      BY <3>2 DEF JobType
    <3>4. Item(r) \in old => items'[Item(r)].status = "absent"
      BY <3>1 DEF Prune, NoItem
    <3>. QED  BY <1>3, <1>4, <3>3, <3>4 DEF Item
  <2>3. CASE RunEnds(r)
    BY <1>0, <1>4, <2>3 DEF RunEnds, NoJob, Item
  <2>4. ASSUME NEW i \in Items, Take(r, i)
        PROVE  /\ Item(r)' <= seq'
               /\ ~job'[r].gone /\ job'[r].no <= items'[Item(r)'].attempts
    <3>1. /\ job'[r] = [item |-> i, no |-> items[i].attempts + 1, gone |-> FALSE]
          /\ items'[i].status = "leased" /\ items'[i].lease.no = items[i].attempts + 1
      BY <2>4, TakenIsHeld
    <3>2. items'[i].attempts = items[i].attempts + 1
      BY <1>0, <3>1 DEF IInv, ItemOK
    <3>. QED  BY <1>1, <1>2, <3>1, <3>2 DEF Item
  <2>. QED
    <3>1. ASSUME NEW s \in Runs, s # r, RunEnds(s) \/ \E i \in Items : Take(s, i)
          PROVE  job'[r] = job[r]
      BY <1>0, <3>1 DEF RunEnds, Take
    <3>2. ASSUME NEW s \in Runs, Prepare(s) \/ Goes(s, "cancelling")
          PROVE  job'[r] = job[r]
      BY <3>2 DEF Prepare, Goes
    <3>3. RunsStay => job'[r] = job[r]
      BY DEF RunsStay
    <3>. QED  BY <2>1, <2>2, <2>3, <2>4, <3>1, <3>2, <3>3, RunMoves
<1>. QED  BY <1>1, <1>4 DEF NumbersUsedUp, NotReused

\* A run leaves its job by one of four steps of its own.
LEMMA Endings ==
  ASSUME WInv, [WorkerNext]_wvars, NEW r \in Runs, pc[r] \in Busy, pc'[r] = "idle"
  PROVE  Refuse(r) \/ HandlerReturns(r) \/ HandlerCancelled(r) \/ Abandon(r)
<1>0. pc \in [Runs -> Places] /\ pc'[r] # pc[r]
  BY DEF WInv, Busy
<1>1. CASE RunsStay \/ PruneWork
  BY <1>0, <1>1 DEF RunsStay, PruneWork
<1>2. CASE Submissions \/ ExpireWork \/ CancelWork \/ WorkerTick \/ ExpireWorkers \/ UNCHANGED wvars
  BY <1>0, <1>2 DEF Submissions, ExpireWork, CancelWork, WorkerTick, ExpireWorkers, wvars
<1>3. ASSUME NEW w \in Workers, RegisterWorker(w) \/ \E s \in {"draining", "offline"} : Withdraw(w, s)
      PROVE  FALSE
  BY <1>0, <1>3 DEF RegisterWorker, Withdraw
<1>4. ASSUME NEW s \in Runs, Beat(s) \/ BeatLost(s) \/ BeatUnregistered(s)
      PROVE  FALSE
  BY <1>0, <1>4 DEF Beat, BeatLost, BeatUnregistered, Goes
<1>5. ASSUME NEW s \in Runs, Prepare(s) \/ \E i \in Items : Take(s, i)
      PROVE  FALSE
  BY <1>0, <1>5 DEF Prepare, Take
<1>6. ASSUME NEW s \in Runs, Inactive(s) \/ TakeNothing(s)
      PROVE  FALSE
  BY <1>0, <1>6 DEF Inactive, TakeNothing, Ends, Busy
<1>7. ASSUME NEW s \in Runs, s # r,
             Refuse(s) \/ HandlerReturns(s) \/ HandlerCancelled(s) \/ Abandon(s)
      PROVE  FALSE
  <2>1. \E result : Ends(s, result)
    BY <1>7 DEF Refuse, HandlerReturns, HandlerCancelled, Abandon, ReportCompleted, ReportCancelled,
                ReportFailed, ReportLost
  <2>. QED  BY <1>0, <1>7, <2>1 DEF Ends
<1>. QED  BY <1>1, <1>2, <1>3, <1>4, <1>5, <1>6, <1>7 DEF WorkerNext, Operators, RunStep

LEMMA ReportTrue ==
  ASSUME WInv, NotReused, [WorkerNext]_wvars,
         NEW r \in Runs, pc[r] \notin {"idle", "leasing"}, pc'[r] = "idle"
  PROVE  /\ told'[r] = "completed" => /\ ~job[r].gone
                                      /\ JobLive(r)
                                      /\ items'[Item(r)].status = "completed"
         /\ told'[r] = "lease_lost" =>
              \A i \in Items : items[i].lease.left > 0 => items'[i] = items[i]
<1>0. /\ pc[r] \in Busy /\ told \in [Runs -> Results] /\ Item(r) \in Items /\ Item(r) # 0
      /\ items \in [Items -> ItemType]
  <2>1. pc[r] \in Busy
    BY DEF WInv, Places, Busy
  <2>. QED  BY <2>1, BusyJob DEF WInv, IInv, Items
<1>1. ASSUME NEW result, Ends(r, result)
      PROVE  told'[r] = result
  BY <1>0, <1>1 DEF Ends
<1>2. ASSUME ReportLost(r)
      PROVE  /\ told'[r] # "completed"
             /\ \A i \in Items : items[i].lease.left > 0 => items'[i] = items[i]
  <2>1. told'[r] # "completed"
    BY <1>1, <1>2 DEF ReportLost, LostResult
  <2>2. items' = AfterExpire \/ items' = items
    BY <1>2 DEF ReportLost, LeaseLost
  <2>3. \A i \in Items : items[i].lease.left > 0 => AfterExpire[i] = items[i]
    BY DEF AfterExpire, Expired
  <2>. QED  BY <2>1, <2>2, <2>3
<1>3. ASSUME NEW retry \in BOOLEAN, ReportFailed(r, retry), ~ReportLost(r)
      PROVE  told'[r] \notin {"completed", "lease_lost"}
  BY <1>1, <1>3 DEF ReportFailed
<1>4. ASSUME ReportCancelled(r)
      PROVE  told'[r] \notin {"completed", "lease_lost"}
  BY <1>1, <1>4 DEF ReportCancelled
<1>5. ASSUME ReportCompleted(r), ~ReportLost(r)
      PROVE  /\ told'[r] # "lease_lost"
             /\ ~job[r].gone /\ JobLive(r) /\ items'[Item(r)].status = "completed"
  <2>1. Complete(IdOf[r], job[r].item, job[r].no) /\ Ends(r, "completed")
    BY <1>5 DEF ReportCompleted
  <2>2. JobLive(r) /\ items[Item(r)].status = "leased"
    BY <2>1 DEF Complete, JobLive, Live, Holds, Item
  <2>3. ~job[r].gone
    BY <1>0, <2>2 DEF NotReused
  <2>4. items'[Item(r)].status = "completed"
    BY <1>0, <2>1 DEF Complete, Item, ItemType
  <2>. QED  BY <1>1, <2>1, <2>2, <2>3, <2>4
<1>6. CASE Refuse(r)
  BY <1>2, <1>3, <1>6 DEF Refuse
<1>7. CASE HandlerReturns(r)
  BY <1>2, <1>3, <1>4, <1>5, <1>7 DEF HandlerReturns
<1>8. CASE HandlerCancelled(r)
  <2>1. items' = items /\ told'[r] # "completed"
    BY <1>1, <1>8 DEF HandlerCancelled, qvars, LostResult
  <2>. QED  BY <2>1
<1>9. CASE Abandon(r)
  <2>1. told'[r] = "none"
    BY <1>1, <1>9 DEF Abandon
  <2>. QED  BY <2>1
<1>. QED  BY <1>0, <1>6, <1>7, <1>8, <1>9, Endings

\* A lease that has run out is not renewed, only replaced by one with another number.
LEMMA NoRevival ==
  ASSUME IInv, [QueueNext]_qvars, NEW i \in Items,
         items[i].status = "leased", items[i].lease.left = 0,
         items'[i].status = "leased", items'[i].attempts = items[i].attempts
  PROVE  items'[i].lease.left = 0
<1>0. /\ items \in [Items -> ItemType] /\ items[i] \in ItemType /\ items[i].lease \in LeaseType
      /\ items[i].attempts \in Nat
  BY DEF IInv, ItemType
<1>1. AfterExpire[i] = GivenBack(items[i]) /\ GivenBack(items[i]).status # "leased"
      /\ GivenBack(items[i]).attempts = items[i].attempts
  BY <1>0 DEF AfterExpire, Expired, GivenBack, ItemType
<1>2. CASE items' = AfterExpire
  BY <1>1, <1>2
<1>3. CASE items'[i] = items[i]
  BY <1>3
<1>4. ASSUME NEW w \in Workers, NEW j \in Items, LeaseItem(w, j)
      PROVE  items'[i].lease.left = 0
  <2>. DEFINE q == AfterExpire
              new == [q[j] EXCEPT !.status = "leased", !.attempts = q[j].attempts + 1,
                                  !.lease = NewLease(w, q, j)]
  <2>1. items' = [q EXCEPT ![j] = new] /\ q \in [Items -> ItemType] /\ q[i] \in ItemType
    BY <1>4, AfterExpireOK DEF LeaseItem, IInv
  <2>2. q[i].attempts = items[i].attempts /\ q[i].status # "leased"
    BY <1>1
  <2>. HIDE DEF q
  <2>3. j = i => items'[i].attempts = q[i].attempts + 1
    BY <2>1 DEF ItemType
  <2>. HIDE DEF new
  <2>4. j # i => items'[i] = q[i]
    BY <2>1
  <2>. QED  BY <1>0, <2>2, <2>3, <2>4
<1>5. ASSUME NEW w \in Workers, NEW j \in Items, NEW n \in Nat,
             \/ Heartbeat(w, j, n) \/ Complete(w, j, n)
             \/ \E retry \in BOOLEAN : Fail(w, j, n, retry)
      PROVE  items'[i].lease.left = 0
  <2>1. j # i
    BY <1>5 DEF Heartbeat, Complete, Fail, Live
  <2>. QED  BY <1>0, <1>5, <2>1 DEF Heartbeat, Complete, Fail
<1>6. CASE Tick
  <2>. DEFINE left == IF items[i].lease.left > 0 THEN items[i].lease.left - 1 ELSE 0
              lease == [items[i].lease EXCEPT !.left = left]
              delay == IF items[i].delay > 0 THEN items[i].delay - 1 ELSE 0
  <2>1. items'[i] = [items[i] EXCEPT !.delay = delay, !.lease = lease]
    BY <1>0, <1>6 DEF Tick, ItemType, LeaseType
  <2>2. left = 0 /\ lease.left = left
    BY <1>0 DEF LeaseType
  <2>. HIDE DEF lease, delay
  <2>3. items'[i].lease = lease
    BY <1>0, <2>1 DEF ItemType
  <2>. QED  BY <2>2, <2>3
<1>7. ASSUME NEW j \in Items, Cancel(j)
      PROVE  items'[i].lease.left = 0
  BY <1>0, <1>7 DEF Cancel, ItemType
<1>8. ASSUME NEW p \in Procs, NEW old \in SUBSET Items, Prune(p, old)
      PROVE  items'[i].lease.left = 0
  BY <1>0, <1>8 DEF Prune, NoItem
<1>9. ASSUME NEW kind \in Kinds, NEW prio \in Priorities, NEW key \in Keys \cup {NoKey},
             NEW max \in Budgets, NEW delay \in Delays, Enqueue(kind, prio, key, max, delay)
      PROVE  items'[i] = items[i]
  BY <1>0, <1>9 DEF Enqueue
<1>10. CASE Clients
  BY <1>2, <1>3, <1>7, <1>8, <1>9, <1>10 DEF Clients, ExpireLeases
<1>11. CASE WorkerCalls
  <2>1. PICK w \in Workers :
          \/ LeaseNothing(w)
          \/ \E j \in Items : LeaseItem(w, j)
          \/ \E j \in Items : \E n \in 1..items[j].max :
               \/ Heartbeat(w, j, n) \/ Complete(w, j, n)
               \/ \E retry \in BOOLEAN : Fail(w, j, n, retry)
               \/ LeaseLost(w, j, n)
    BY <1>11 DEF WorkerCalls
  <2>. QED  BY <1>2, <1>3, <1>4, <1>5, <2>1 DEF LeaseNothing, LeaseLost
<1>12. CASE UNCHANGED qvars \/ \E p \in Procs : Restart(p)
  BY <1>3, <1>12 DEF qvars, Restart
<1>. QED  BY <1>6, <1>10, <1>11, <1>12 DEF QueueNext

\* An item that is there advances.
LEMMA PresentAdvance ==
  ASSUME IInv, [QueueNext]_qvars, NEW i \in Items, items[i].status # "absent"
  PROVE  /\ items[i].attempts \in Nat /\ items'[i].attempts \in Nat
         /\ items'[i] = items[i] \/ Advance(items[i], items'[i])
         /\ items'[i].status # "absent" => items'[i].attempts >= items[i].attempts
<1>1. items[i].attempts \in Nat /\ items'[i].attempts \in Nat
  <2>1. items \in [Items -> ItemType] /\ items' \in [Items -> ItemType]
    BY NextInv DEF IInv
  <2>. QED  BY <2>1 DEF ItemType
<1>2. items'[i] = items[i] \/ Advance(items[i], items'[i])
  BY EnqueueMoves, StepMoves DEF Submitted
<1>3. NoItem.status = "absent"
  BY DEF NoItem
<1>. QED  BY <1>1, <1>2, <1>3
          DEF Advance, Kept, Taken, Returned, Closed, Aborted, Dropped

LEMMA LostLeaseStaysLost ==
  ASSUME WInv, NotReused, [WorkerNext]_wvars,
         NEW r \in Runs, job'[r] = job[r], Item(r) # 0, ~JobLive(r),
         items[Item(r)].status = "absent" => items'[Item(r)].status = "absent"
  PROVE  ~JobLive(r)'
<1>. DEFINE w == IdOf[r]
            i == job[r].item
            n == job[r].no
<1>. SUFFICES ASSUME Live(w, i, n)' PROVE FALSE
  BY DEF JobLive
<1>0. IInv /\ IInv' /\ [QueueNext]_qvars
  BY WorkerStepIsQueueStep, WorkerKeepsQueue DEF WInv
<1>1. i \in Items /\ n \in Nat /\ ~Live(w, i, n)
  BY DEF WInv, JobType, Item, JobLive
<1>2. /\ items[i].status = "absent" \/ n <= items[i].attempts
      /\ items[i].status = "absent" => items'[i].status = "absent"
  BY DEF NotReused, Item
<1>3. /\ items'[i].status = "leased" /\ items'[i].lease.worker = w
      /\ items'[i].lease.no = n /\ items'[i].lease.left > 0
  BY DEF Live, Holds
<1>. HIDE DEF w, i, n
<1>4. ItemOK(items'[i]) /\ ItemOK(items[i]) /\ items[i].attempts \in Nat /\ items[i].lease.left \in Nat
  BY <1>0, <1>1 DEF IInv, ItemType, LeaseType
<1>5. items'[i].attempts = n
  BY <1>3, <1>4 DEF ItemOK
<1>6. /\ items[i].status # "absent" /\ items'[i].attempts >= items[i].attempts
      /\ items'[i] = items[i] \/ Advance(items[i], items'[i])
  BY <1>0, <1>1, <1>2, <1>3, PresentAdvance
<1>7. items[i].attempts = n
  BY <1>1, <1>2, <1>4, <1>5, <1>6
<1>8. Kept(items[i], items'[i])
  <2>1. ~Taken(items[i], items'[i])
    BY <1>4, <1>5, <1>7 DEF Taken
  <2>2. NoItem.status = "absent"
    BY DEF NoItem
  <2>. QED  BY <1>3, <1>6, <2>1, <2>2
            DEF Advance, Kept, Returned, Closed, Aborted, Dropped
<1>9. /\ items[i].status = "leased" /\ items[i].lease.worker = w /\ items[i].lease.no = n
  BY <1>3, <1>4, <1>7, <1>8 DEF Kept, ItemOK
<1>10. items[i].lease.left = 0
  BY <1>1, <1>4, <1>9 DEF Live, Holds
<1>. QED  BY <1>0, <1>1, <1>3, <1>5, <1>7, <1>9, <1>10, NoRevival

LEMMA NumbersAreUsedUp == WorkerSpec => [](Backend = "memory" => NumbersUsedUp)
<1>1. WorkerInit => (Backend = "memory" => NumbersUsedUp)
  BY DEF WorkerInit, QueueInit, NoItem, NumbersUsedUp, NotReused, Item, NoJob
<1>2. WInv /\ (Backend = "memory" => NumbersUsedUp) /\ [WorkerNext]_wvars
        => (Backend = "memory" => NumbersUsedUp)'
  BY NumbersStayUsedUp
<1>. QED  BY <1>1, <1>2, WorkerInductive, PTL DEF WorkerSpec

(* COMPLETED is told only to a run that still held the lease it took, and LEASE_LOST *)
(* to one that moved nothing of anyone else, however many runs share a worker id    *)
(* (worker.py, _apply_handler_result and _fail_leased_item).  The queue is the one  *)
(* in memory: a durable one numbers a new item like one it has forgotten.          *)
THEOREM WorkerReportsAreTrue ==
  ASSUME Backend = "memory"
  PROVE  WorkerSpec => ReportsAreTrue
<1>1. WInv /\ (Backend = "memory" => NumbersUsedUp) /\ [WorkerNext]_wvars =>
        [\A r \in Runs :
           (pc[r] \notin {"idle", "leasing"} /\ pc'[r] = "idle") =>
             /\ told'[r] = "completed" => /\ ~job[r].gone
                                          /\ JobLive(r)
                                          /\ items'[Item(r)].status = "completed"
             /\ told'[r] = "lease_lost" =>
                  \A i \in Items : items[i].lease.left > 0 => items'[i] = items[i]]_wvars
  BY ReportTrue DEF NumbersUsedUp
<1>. QED  BY <1>1, WorkerInductive, NumbersAreUsedUp, PTL DEF WorkerSpec, ReportsAreTrue

(* A lease that is lost stays lost for the run that took it: neither a heartbeat    *)
(* nor another run of the same worker brings it back (MemoryWorkQueue._lease).      *)
THEOREM WorkerLostStaysLost ==
  ASSUME Backend = "memory"
  PROVE  WorkerSpec => LostStaysLost
<1>1. WInv /\ (Backend = "memory" => NumbersUsedUp) /\ [WorkerNext]_wvars =>
        [\A r \in Runs :
           (pc[r] # "idle" /\ pc'[r] # "idle" /\ job'[r] = job[r] /\ Item(r) # 0
              /\ ~JobLive(r))
             => ~JobLive(r)']_wvars
  <2>1. ASSUME WInv, NumbersUsedUp, [WorkerNext]_wvars, NEW r \in Runs, Item(r) # 0
        PROVE  items[Item(r)].status = "absent" => items'[Item(r)].status = "absent"
    <3>1. IInv /\ [QueueNext]_qvars /\ Item(r) \in Items /\ Item(r) <= seq
      BY <2>1, WorkerStepIsQueueStep DEF WInv, JobType, Item, NumbersUsedUp
    <3>. QED  BY <2>1, <3>1, ItemsGrow DEF NumbersUsedUp
  <2>. QED  BY <2>1, LostLeaseStaysLost DEF NumbersUsedUp
<1>. QED  BY <1>1, WorkerInductive, NumbersAreUsedUp, PTL DEF WorkerSpec, LostStaysLost

(* Fencing tokens increase under the workers too (next_fencing_token of             *)
(* queue_memory.py).                                                          *)
THEOREM WorkerFencingIncreases ==
  ASSUME Backend = "memory", NEW p0, Procs = {p0}
  PROVE  WorkerSpec => FencingIncreases
<1>1. QueueSpec => FencingIncreases
  BY MemoryFencingIncreases
<1>. QED  BY <1>1, WorkerImplementsQueue, PTL

-----------------------------------------------------------------------------
(* One handler per item.                                                     *)

\* Whoever runs a handler for an item that is still there holds it, or the item has ended.
InHand(r) == items[Item(r)].status \in Terminal \/ JobLive(r)

OwnHand == \A r \in Runs : pc[r] = "running" /\ ~job[r].gone => InHand(r)

\* No two runs present themselves under one id.
IdsDiffer == \A r, s \in Runs : IdOf[r] = IdOf[s] => r = s

ToldApart == Backend = "memory" \/ IdsDiffer

LEMMA StillRunning ==
  ASSUME WInv, [WorkerNext]_wvars, NEW r \in Runs, pc'[r] = "running"
  PROVE  \/ /\ pc[r] = "running" /\ job'[r].item = job[r].item /\ job'[r].no = job[r].no
            /\ job[r].gone => job'[r].gone
         \/ \E i \in Items : Take(r, i)
<1>0. pc \in [Runs -> Places] /\ job \in [Runs -> JobType]
  BY DEF WInv
<1>1. CASE RunsStay
  BY <1>1 DEF RunsStay
<1>2. CASE PruneWork
  <2>1. PICK old \in SUBSET Items : job' = [s \in Runs |-> [job[s] EXCEPT !.gone = @ \/ Item(s) \in old]]
    BY <1>2 DEF PruneWork
  <2>2. job'[r] = [job[r] EXCEPT !.gone = @ \/ Item(r) \in old] /\ job[r] \in JobType /\ pc' = pc
    BY <1>0, <1>2, <2>1 DEF PruneWork
  <2>. QED  BY <2>2 DEF JobType
<1>3. ASSUME NEW s \in Runs, RunEnds(s) \/ Prepare(s) \/ Goes(s, "cancelling")
      PROVE  pc[r] = "running" /\ job'[r] = job[r]
  BY <1>0, <1>3 DEF RunEnds, Prepare, Goes
<1>4. ASSUME NEW s \in Runs, s # r, NEW i \in Items, Take(s, i)
      PROVE  pc[r] = "running" /\ job'[r] = job[r]
  BY <1>0, <1>4 DEF Take
<1>. QED  BY <1>1, <1>2, <1>3, <1>4, RunMoves

\* The item of another run, and what the calls of a run do to it.
LEMMA SweepKeepsHand ==
  ASSUME NEW r \in Runs, InHand(r), Item(r) \in Items, items \in [Items -> ItemType]
  PROVE  AfterExpire[Item(r)] = items[Item(r)]
BY DEF InHand, JobLive, Live, Holds, Item, AfterExpire, Expired, Terminal

LEMMA HandStays ==
  ASSUME WInv, NEW r \in Runs, InHand(r), Item(r) \in Items,
         job'[r].item = job[r].item, job'[r].no = job[r].no,
         items'[Item(r)] = items[Item(r)]
  PROVE  InHand(r)'
BY DEF InHand, JobLive, Live, Holds, Item

LEMMA CallsKeepHand ==
  ASSUME WInv, NEW r \in Runs, InHand(r), Item(r) \in Items,
         job'[r].item = job[r].item, job'[r].no = job[r].no,
         NEW w \in Workers, NEW j \in Items, NEW n \in Nat,
         \/ Heartbeat(w, j, n) \/ Complete(w, j, n) \/ Fail(w, j, n, FALSE)
         \/ LeaseLost(w, j, n) \/ Cancel(j)
  PROVE  InHand(r)'
<1>. DEFINE i == Item(r)
<1>0. /\ items \in [Items -> ItemType] /\ items[i] \in ItemType /\ items[i].lease \in LeaseType
      /\ TTL \in Nat /\ TTL > 0
  BY QueueAssumption DEF WInv, IInv, ItemType
<1>1. CASE items'[i] = items[i]
  BY <1>1, HandStays
<1>2. CASE LeaseLost(w, j, n)
  BY <1>0, <1>1, <1>2, SweepKeepsHand DEF LeaseLost
<1>3. CASE j # i /\ ~LeaseLost(w, j, n)
  BY <1>0, <1>1, <1>3 DEF Heartbeat, Complete, Fail, Cancel
<1>4. CASE j = i /\ Heartbeat(w, j, n)
  <2>. DEFINE lease == [items[i].lease EXCEPT !.left = TTL]
  <2>1. items'[i] = [items[i] EXCEPT !.lease = lease]
    BY <1>0, <1>4 DEF Heartbeat
  <2>2. lease.worker = items[i].lease.worker /\ lease.no = items[i].lease.no /\ lease.left = TTL
    BY <1>0 DEF LeaseType
  <2>. HIDE DEF lease
  <2>3. items'[i].lease = lease /\ items'[i].status = items[i].status
    BY <1>0, <2>1 DEF ItemType
  <2>4. items[i].status = "leased"
    BY <1>4 DEF Heartbeat, Live, Holds
  <2>5. JobLive(r)
    BY <2>4 DEF InHand, Terminal
  <2>6. items'[i].lease.left > 0 /\ items'[i].lease.worker = IdOf[r] /\ items'[i].lease.no = job[r].no
    BY <1>0, <2>2, <2>3, <2>5 DEF JobLive, Live, Holds, Item
  <2>. QED  BY <2>3, <2>4, <2>6 DEF InHand, JobLive, Live, Holds, Item
<1>5. CASE j = i /\ (Complete(w, j, n) \/ Fail(w, j, n, FALSE) \/ Cancel(j))
  <2>1. items'[i].status \in {"completed", "failed", "cancelled"}
    <3>1. CASE Complete(w, j, n)
      BY <1>0, <1>5, <3>1 DEF Complete, ItemType
    <3>2. CASE Fail(w, j, n, FALSE)
      <4>1. items' = [items EXCEPT ![j] = [items[j] EXCEPT !.status = "failed", !.lease = NoLease]]
        BY <3>2 DEF Fail
      <4>. QED  BY <1>0, <1>5, <4>1 DEF ItemType
    <3>3. CASE Cancel(j)
      BY <1>0, <1>5, <3>3 DEF Cancel, ItemType
    <3>. QED  BY <1>5, <3>1, <3>2, <3>3
  <2>2. Item(r)' = i
    BY DEF Item
  <2>. QED  BY <2>1, <2>2 DEF InHand, Terminal
<1>. QED  BY <1>2, <1>3, <1>4, <1>5

LEMMA HandKept ==
  ASSUME Punctual, NotReused \/ IdsDiffer, WInv,
         OneHandlerPerItem, OwnHand, [WorkerNext]_wvars,
         NEW r \in Runs, pc[r] = "running", pc'[r] = "running", ~job'[r].gone, ~job[r].gone,
         job'[r].item = job[r].item, job'[r].no = job[r].no
  PROVE  InHand(r)'
<1>. DEFINE i == Item(r)
<1>0. /\ items \in [Items -> ItemType] /\ items[i] \in ItemType /\ items[i].lease \in LeaseType
      /\ i \in Items /\ InHand(r) /\ items[i].status # "absent" /\ pc \in [Runs -> Places]
      /\ IdOf \in [Runs -> Workers]
  <2>1. i \in Items
    BY BusyJob DEF Busy
  <2>2. InHand(r)
    BY DEF OwnHand
  <2>3. items \in [Items -> ItemType] /\ pc \in [Runs -> Places]
    BY DEF WInv, IInv
  <2>4. items[i].status # "absent"
    BY <2>2 DEF InHand, Terminal, JobLive, Live, Holds, Item
  <2>. QED  BY <2>1, <2>2, <2>3, <2>4, WorkerAssumption DEF ItemType
<1>1. CASE items'[i] = items[i]
  BY <1>0, <1>1, HandStays
<1>2. CASE items' = AfterExpire
  BY <1>0, <1>1, <1>2, SweepKeepsHand
<1>3. CASE Submissions
  BY <1>0, <1>1, <1>3 DEF Submissions, Enqueue
<1>4. CASE CancelWork
  <2>1. \A j \in Items, w \in Workers : Cancel(j) => InHand(r)'
    BY <1>0, CallsKeepHand
  <2>2. IdOf[r] \in Workers
    BY <1>0
  <2>. QED  BY <1>4, <2>1, <2>2 DEF CancelWork
<1>5. CASE PruneWork
  <2>1. PICK p \in Procs, old \in SUBSET Items :
          Prune(p, old) /\ job' = [s \in Runs |-> [job[s] EXCEPT !.gone = @ \/ Item(s) \in old]]
    BY <1>5 DEF PruneWork
  <2>2. job'[r] = [job[r] EXCEPT !.gone = @ \/ i \in old] /\ job[r] \in JobType
    BY <2>1 DEF WInv
  <2>3. i \notin old
    BY <2>2 DEF JobType
  <2>. QED  BY <1>0, <1>1, <2>1, <2>3 DEF Prune
<1>6. CASE WorkerTick
  <2>. DEFINE left == IF items[i].lease.left > 0 THEN items[i].lease.left - 1 ELSE 0
              lease == [items[i].lease EXCEPT !.left = left]
              delay == IF items[i].delay > 0 THEN items[i].delay - 1 ELSE 0
  <2>1. items'[i] = [items[i] EXCEPT !.delay = delay, !.lease = lease]
    BY <1>0, <1>6 DEF WorkerTick, Tick, ItemType, LeaseType
  <2>2. /\ lease.worker = items[i].lease.worker /\ lease.no = items[i].lease.no
        /\ lease.left = left
    BY <1>0 DEF LeaseType
  <2>3. JobLive(r) => left > 0
    BY <1>0, <1>6 DEF WorkerTick, InTime, LeaseType
  <2>. HIDE DEF left, lease, delay
  <2>4. items'[i].lease = lease /\ items'[i].status = items[i].status
    BY <1>0, <2>1 DEF ItemType
  <2>5. Item(r)' = i
    BY DEF Item
  <2>. QED  BY <1>0, <2>2, <2>3, <2>4, <2>5 DEF InHand, JobLive, Live, Holds, Item
<1>7. ASSUME NEW s \in Runs, NEW j \in Items, Take(s, j)
      PROVE  InHand(r)'
  <2>1. j # i
    <3>1. items[j].status = "queued" \/ Expired(items[j])
      BY <1>7, TakenIsHeld
    <3>. QED  BY <1>0, <3>1 DEF InHand, Terminal, JobLive, Live, Holds, Item, Expired
  <2>2. items'[i] = AfterExpire[i]
    BY <1>0, <1>7, <2>1, TakenIsHeld
  <2>. QED  BY <1>0, <1>1, <2>2, SweepKeepsHand
<1>8. ASSUME NEW s \in Runs, pc[s] \in Busy,
             \/ Heartbeat(IdOf[s], job[s].item, job[s].no)
             \/ Complete(IdOf[s], job[s].item, job[s].no)
             \/ Fail(IdOf[s], job[s].item, job[s].no, FALSE)
             \/ LeaseLost(IdOf[s], job[s].item, job[s].no)
             \/ Cancel(job[s].item)
      PROVE  InHand(r)'
  BY <1>0, <1>8, BusyJob, CallsKeepHand
<1>9. ASSUME NEW s \in Runs, pc[s] = "running", pc'[s] # "running",
             Fail(IdOf[s], job[s].item, job[s].no, TRUE)
      PROVE  InHand(r)'
  <2>1. s # r
    BY <1>9
  <2>2. CASE Item(s) # i
    <3>1. items'[i] = items[i]
      BY <1>0, <1>9, <2>2 DEF Fail, Item
    <3>. QED  BY <1>1, <3>1
  <2>3. CASE Item(s) = i
    <3>1. /\ items[i].status = "leased" /\ items[i].lease.worker = IdOf[s]
      BY <1>9, <2>3 DEF Fail, Live, Holds, Item
    <3>2. items[i].lease.worker = IdOf[r]
      BY <1>0, <3>1 DEF InHand, Terminal, JobLive, Live, Holds, Item
    <3>3. NotReused
      BY <2>1, <3>1, <3>2 DEF IdsDiffer
    <3>4. ~job[s].gone
      <4>1. Item(s) # 0
        BY <1>0, <2>3 DEF Items
      <4>. QED  BY <2>3, <3>1, <3>3, <4>1 DEF NotReused
    <3>. QED  BY <1>9, <2>1, <2>3, <3>4 DEF OneHandlerPerItem
  <2>. QED  BY <2>2, <2>3
<1>10. CASE UNCHANGED qvars \/ ExpireWork
  BY <1>1, <1>2, <1>10 DEF qvars, ExpireWork, ExpireLeases
<1>11. ASSUME NEW s \in Runs, Refuse(s)
       PROVE  InHand(r)'
  <2>1. pc[s] \in Busy
    BY <1>11 DEF Refuse, Busy
  <2>. QED  BY <1>8, <1>11, <2>1 DEF Refuse, ReportFailed, ReportLost
<1>12. ASSUME NEW s \in Runs, HandlerReturns(s)
       PROVE  InHand(r)'
  <2>1. pc[s] \in Busy /\ pc[s] = "running"
    BY <1>12 DEF HandlerReturns, Busy
  <2>2. pc'[s] # "running"
    BY <1>0, <1>12 DEF HandlerReturns, ReportCompleted, ReportCancelled, ReportFailed, ReportLost, Ends
  <2>3. CASE ReportCompleted(s) \/ ReportLost(s)
    BY <1>8, <2>1, <2>3 DEF ReportCompleted, ReportLost
  <2>4. CASE ReportCancelled(s)
    BY <1>8, <1>10, <2>1, <2>4 DEF ReportCancelled, Item
  <2>5. ASSUME NEW retry \in BOOLEAN, ReportFailed(s, retry)
        PROVE  InHand(r)'
    <3>1. CASE retry = TRUE
      BY <1>9, <2>1, <2>2, <2>3, <2>5, <3>1 DEF ReportFailed
    <3>2. CASE retry = FALSE
      BY <1>8, <2>1, <2>3, <2>5, <3>2 DEF ReportFailed
    <3>. QED  BY <3>1, <3>2
  <2>. QED  BY <1>12, <2>3, <2>4, <2>5 DEF HandlerReturns
<1>13. ASSUME NEW s \in Runs, Beat(s) \/ BeatLost(s) \/ BeatUnregistered(s)
       PROVE  InHand(r)'
  <2>1. pc[s] \in Busy /\ pc[s] = "running"
    BY <1>13 DEF Beat, BeatLost, BeatUnregistered, Busy
  <2>2. BeatUnregistered(s) => pc'[s] # "running"
    BY <1>0 DEF BeatUnregistered, Goes
  <2>. QED  BY <1>8, <1>9, <1>13, <2>1, <2>2 DEF Beat, BeatLost, BeatUnregistered
<1>14. ASSUME NEW s \in Runs, TakeNothing(s)
       PROVE  InHand(r)'
  BY <1>2, <1>14 DEF TakeNothing, LeaseNothing
<1>15. ASSUME NEW s \in Runs, Prepare(s) \/ Inactive(s) \/ HandlerCancelled(s) \/ Abandon(s)
       PROVE  InHand(r)'
  BY <1>10, <1>15 DEF Prepare, Inactive, HandlerCancelled, Abandon
<1>16. ASSUME NEW w \in Workers, RegisterWorker(w) \/ \E s \in {"draining", "offline"} : Withdraw(w, s)
       PROVE  InHand(r)'
  BY <1>10, <1>16 DEF RegisterWorker, Withdraw
<1>17. CASE ExpireWorkers \/ UNCHANGED wvars
  BY <1>10, <1>17 DEF ExpireWorkers, wvars, qvars
<1>. QED  BY <1>3, <1>4, <1>5, <1>6, <1>7, <1>10, <1>11, <1>12, <1>13, <1>14, <1>15, <1>16, <1>17
          DEF WorkerNext, Operators, RunStep

LEMMA HandsStep ==
  ASSUME Punctual, NotReused \/ IdsDiffer, WInv,
         OneHandlerPerItem, OwnHand, [WorkerNext]_wvars
  PROVE  OneHandlerPerItem' /\ OwnHand'
<1>1. ASSUME NEW r \in Runs, pc'[r] = "running", ~job'[r].gone
      PROVE  \/ /\ pc[r] = "running" /\ ~job[r].gone
                /\ job'[r].item = job[r].item /\ job'[r].no = job[r].no
             \/ \E i \in Items : Take(r, i)
  BY <1>1, StillRunning
<1>2. OwnHand'
  <2>1. SUFFICES ASSUME NEW r \in Runs, pc'[r] = "running", ~job'[r].gone PROVE InHand(r)'
    BY DEF OwnHand
  <2>2. ASSUME NEW i \in Items, Take(r, i)
        PROVE  InHand(r)'
    <3>1. TTL > 0
      BY QueueAssumption
    <3>2. job'[r].item = i /\ job'[r].no = items[i].attempts + 1
      <4>1. job'[r] = [item |-> i, no |-> items[i].attempts + 1, gone |-> FALSE]
        BY <2>2, TakenIsHeld
      <4>. QED  BY <4>1
    <3>3. /\ items'[i].status = "leased" /\ items'[i].lease.worker = IdOf[r]
          /\ items'[i].lease.no = items[i].attempts + 1 /\ items'[i].lease.left = TTL
      BY <2>2, TakenIsHeld
    <3>. QED  BY <3>1, <3>2, <3>3 DEF InHand, JobLive, Live, Holds, Item
  <2>. QED  BY <1>1, <2>1, <2>2, HandKept
<1>3. ASSUME NEW r \in Runs, NEW s \in Runs, r # s, NEW i \in Items, Take(r, i),
             pc'[s] = "running", ~job'[s].gone
      PROVE  Item(s)' # Item(r)'
  <2>1. ~ \E j \in Items : Take(s, j)
    <3>1. pc \in [Runs -> Places] /\ pc[r] = "leasing"
      BY <1>3 DEF WInv, Take
    <3>2. PICK place \in {"running", "refusing"} : pc' = [pc EXCEPT ![r] = place]
      BY <1>3 DEF Take
    <3>3. pc'[s] = pc[s]
      BY <1>3, <3>1, <3>2
    <3>. QED  BY <1>3, <3>3 DEF Take
  <2>2. pc[s] = "running" /\ ~job[s].gone /\ Item(s)' = Item(s)
    BY <1>1, <1>3, <2>1 DEF Item
  <2>3. InHand(s)
    BY <2>2 DEF OwnHand
  <2>4. items[i].status = "queued" \/ Expired(items[i])
    BY <1>3, TakenIsHeld
  <2>5. Item(r)' = i
    <3>1. job'[r] = [item |-> i, no |-> items[i].attempts + 1, gone |-> FALSE]
      BY <1>3, TakenIsHeld
    <3>. QED  BY <3>1 DEF Item
  <2>. QED  BY <2>2, <2>3, <2>4, <2>5 DEF InHand, Terminal, JobLive, Live, Holds, Item, Expired
<1>4. OneHandlerPerItem'
  <2>1. SUFFICES ASSUME NEW r \in Runs, NEW s \in Runs, r # s,
                        pc'[r] = "running", pc'[s] = "running", ~job'[r].gone, ~job'[s].gone,
                        Item(r)' = Item(s)'
                 PROVE  FALSE
    BY DEF OneHandlerPerItem
  <2>2. ~ \E i \in Items : Take(r, i)
    BY <1>3, <2>1
  <2>3. ~ \E i \in Items : Take(s, i)
    BY <1>3, <2>1
  <2>4. pc[r] = "running" /\ pc[s] = "running" /\ ~job[r].gone /\ ~job[s].gone /\ Item(r) = Item(s)
    BY <1>1, <2>1, <2>2, <2>3 DEF Item
  <2>. QED  BY <2>1, <2>4 DEF OneHandlerPerItem
<1>. QED  BY <1>2, <1>4

(* No item is in the hands of two handlers as long as heartbeats are in time: no     *)
(* expiry, retry, cancellation or lapse of the registry gives away an item whose    *)
(* handler still runs (WorkQueueWorker.run_once).  With a durable queue this needs   *)
(* runs that are told apart by their worker ids: there a run whose item was         *)
(* forgotten can give back a later item of the same number from under a run of the   *)
(* same worker.                                                              *)
THEOREM WorkerOneHandlerPerItem ==
  ASSUME Punctual, ToldApart
  PROVE  WorkerSpec => []OneHandlerPerItem
<1>1. WorkerInit => OneHandlerPerItem /\ OwnHand
  BY DEF WorkerInit, OneHandlerPerItem, OwnHand
<1>2. WInv /\ (Backend = "memory" => NumbersUsedUp) /\ OneHandlerPerItem /\ OwnHand
        /\ [WorkerNext]_wvars => OneHandlerPerItem' /\ OwnHand'
  BY HandsStep DEF ToldApart, NumbersUsedUp
<1>. QED  BY <1>1, <1>2, WorkerInductive, NumbersAreUsedUp, PTL DEF WorkerSpec

-----------------------------------------------------------------------------
(* Durable queues.  A number comes back only when the item that had it was      *)
(* forgotten, so the promises hold there too while no item is forgotten that a   *)
(* run still works for.                                                      *)

KeepsJobs == [][\A r \in Runs : Item(r) # 0 => items'[Item(r)].status # "absent"]_wvars

\* The item a run works for is still there, and is the one it took.
JobsRemembered == NotReused /\ \A r \in Runs : Item(r) # 0 => items[Item(r)].status # "absent"

LEMMA JobsStayRemembered ==
  ASSUME WInv, JobsRemembered, [WorkerNext]_wvars,
         \A r \in Runs : Item(r) # 0 => items'[Item(r)].status # "absent"
  PROVE  JobsRemembered'
<1>0. IInv /\ IInv' /\ [QueueNext]_qvars /\ job \in [Runs -> JobType]
  BY WorkerStepIsQueueStep, WorkerKeepsQueue DEF WInv
<1>1. SUFFICES ASSUME NEW r \in Runs, Item(r)' # 0
               PROVE  /\ items'[Item(r)'].status # "absent"
                      /\ ~job'[r].gone /\ job'[r].no <= items'[Item(r)'].attempts
  BY DEF JobsRemembered, NotReused
<1>2. ASSUME job'[r].item = job[r].item, job'[r].no = job[r].no, job'[r].gone = job[r].gone
      PROVE  /\ items'[Item(r)'].status # "absent"
             /\ ~job'[r].gone /\ job'[r].no <= items'[Item(r)'].attempts
  <2>1. Item(r)' = Item(r) /\ Item(r) # 0 /\ Item(r) \in Items /\ job[r].no \in Nat
    BY <1>0, <1>1, <1>2 DEF JobType, Item
  <2>2. /\ items[Item(r)].status # "absent" /\ items'[Item(r)].status # "absent"
        /\ ~job[r].gone /\ job[r].no <= items[Item(r)].attempts
    BY <2>1 DEF JobsRemembered, NotReused
  <2>3. /\ items[Item(r)].attempts \in Nat /\ items'[Item(r)].attempts \in Nat
        /\ items'[Item(r)].attempts >= items[Item(r)].attempts
    BY <1>0, <2>1, <2>2, PresentAdvance
  <2>. QED  BY <1>2, <2>1, <2>2, <2>3
<1>3. CASE job'[r] = job[r]
  BY <1>2, <1>3
<1>4. CASE PruneWork
  <2>1. PICK p \in Procs, old \in SUBSET Items :
          Prune(p, old) /\ job' = [s \in Runs |-> [job[s] EXCEPT !.gone = @ \/ Item(s) \in old]]
    BY <1>4 DEF PruneWork
  <2>2. job'[r] = [job[r] EXCEPT !.gone = @ \/ Item(r) \in old] /\ job[r] \in JobType
    BY <1>0, <2>1
  <2>3. job'[r].item = job[r].item /\ job'[r].no = job[r].no
        /\ (Item(r) \notin old => job'[r].gone = job[r].gone)
    BY <2>2 DEF JobType
  <2>4. Item(r) # 0 /\ (Item(r) \in old => items'[Item(r)].status = "absent")
    BY <1>1, <2>1, <2>3 DEF Prune, NoItem, Item
  <2>. QED  BY <1>2, <2>3, <2>4
<1>5. CASE RunEnds(r)
  BY <1>0, <1>1, <1>5 DEF RunEnds, NoJob, Item
<1>6. ASSUME NEW i \in Items, Take(r, i)
      PROVE  /\ items'[Item(r)'].status # "absent"
             /\ ~job'[r].gone /\ job'[r].no <= items'[Item(r)'].attempts
  <2>1. /\ job'[r] = [item |-> i, no |-> items[i].attempts + 1, gone |-> FALSE]
        /\ items[i].attempts \in Nat
        /\ items'[i].status = "leased" /\ items'[i].lease.no = items[i].attempts + 1
    BY <1>6, TakenIsHeld
  <2>2. items'[i].attempts = items[i].attempts + 1
    BY <1>0, <2>1 DEF IInv, ItemOK
  <2>. QED  BY <2>1, <2>2 DEF Item
<1>. QED
  <2>1. ASSUME NEW s \in Runs, s # r, RunEnds(s) \/ \E i \in Items : Take(s, i)
        PROVE  job'[r] = job[r]
    BY <1>0, <2>1 DEF RunEnds, Take
  <2>2. ASSUME NEW s \in Runs, Prepare(s) \/ Goes(s, "cancelling")
        PROVE  job'[r] = job[r]
    BY <2>2 DEF Prepare, Goes
  <2>3. RunsStay => job'[r] = job[r]
    BY DEF RunsStay
  <2>. QED  BY <1>3, <1>4, <1>5, <1>6, <2>1, <2>2, <2>3, RunMoves

LEMMA JobsAreRemembered == WorkerSpec /\ KeepsJobs => []JobsRemembered
<1>1. WorkerInit => JobsRemembered
  BY DEF WorkerInit, JobsRemembered, NotReused, Item, NoJob
<1>2. WInv /\ JobsRemembered /\ [WorkerNext]_wvars
        /\ [\A r \in Runs : Item(r) # 0 => items'[Item(r)].status # "absent"]_wvars
        => JobsRemembered'
  <2>1. CASE UNCHANGED wvars
    BY <2>1 DEF wvars, JobsRemembered, NotReused, Item
  <2>. QED  BY <2>1, JobsStayRemembered
<1>. QED  BY <1>1, <1>2, WorkerInductive, PTL DEF WorkerSpec, KeepsJobs

(* Over every queue, durable or not, what a run reports is true, a lease once lost  *)
(* stays lost and, with heartbeats in time, no item is in the hands of two          *)
(* handlers, whatever ids the runs share, as long as nobody prunes an item that a   *)
(* run still works for (FileWorkQueue and SQLiteWorkQueue number a new item after    *)
(* the highest they still know).                                             *)
THEOREM WorkerKeepsItsWord ==
  WorkerSpec /\ KeepsJobs =>
    ReportsAreTrue /\ LostStaysLost /\ (Punctual => []OneHandlerPerItem)
<1>1. WInv /\ JobsRemembered /\ [WorkerNext]_wvars =>
        [\A r \in Runs :
           (pc[r] \notin {"idle", "leasing"} /\ pc'[r] = "idle") =>
             /\ told'[r] = "completed" => /\ ~job[r].gone
                                          /\ JobLive(r)
                                          /\ items'[Item(r)].status = "completed"
             /\ told'[r] = "lease_lost" =>
                  \A i \in Items : items[i].lease.left > 0 => items'[i] = items[i]]_wvars
  BY ReportTrue DEF JobsRemembered
<1>2. WInv /\ JobsRemembered /\ [WorkerNext]_wvars =>
        [\A r \in Runs :
           (pc[r] # "idle" /\ pc'[r] # "idle" /\ job'[r] = job[r] /\ Item(r) # 0
              /\ ~JobLive(r))
             => ~JobLive(r)']_wvars
  BY LostLeaseStaysLost DEF JobsRemembered
<1>3. WorkerInit => OneHandlerPerItem /\ OwnHand
  BY DEF WorkerInit, OneHandlerPerItem, OwnHand
<1>4. Punctual /\ WInv /\ JobsRemembered /\ OneHandlerPerItem /\ OwnHand
        /\ [WorkerNext]_wvars => OneHandlerPerItem' /\ OwnHand'
  BY HandsStep DEF JobsRemembered
<1>5. WorkerSpec /\ KeepsJobs => ReportsAreTrue
  BY <1>1, WorkerInductive, JobsAreRemembered, PTL DEF WorkerSpec, ReportsAreTrue
<1>6. WorkerSpec /\ KeepsJobs => LostStaysLost
  BY <1>2, WorkerInductive, JobsAreRemembered, PTL DEF WorkerSpec, LostStaysLost
<1>7. ASSUME Punctual
      PROVE  WorkerSpec /\ KeepsJobs => []OneHandlerPerItem
  BY <1>3, <1>4, <1>7, WorkerInductive, JobsAreRemembered, PTL DEF WorkerSpec
<1>. QED  BY <1>5, <1>6, <1>7

=============================================================================
