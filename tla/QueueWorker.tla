----------------------------- MODULE QueueWorker -----------------------------
(***************************************************************************)
(* The workers of universal_agent.distributed: WorkQueueWorker (worker.py)  *)
(* over the work queue of module WorkQueue and the worker registry          *)
(* (worker_state.py), with what the coordinator's operations do to either.  *)
(*                                                                         *)
(* A run is one call of run_once in progress.  The controller builds a      *)
(* worker for every request and takes the worker id from the request, so    *)
(* two runs may present themselves under one id.  A run yields only while   *)
(* its handler runs; against other processes each call on the durable       *)
(* registry or queue is a step of its own, so preparing, leasing and        *)
(* refusing are separate steps here.  Registry lapses are relative times    *)
(* like the leases of the queue; WorkerTTL is what a registration lasts.    *)
(***************************************************************************)
EXTENDS WorkQueue

CONSTANTS
  Runs,        \* calls of run_once in progress
  IdOf,        \* the worker id a run was given
  Handled,     \* the kinds a worker has handlers for; Accepts are its capabilities
  Drainable,   \* workers an operator may drain or take offline
  WorkerTTL,   \* worker_ttl_seconds, in ticks
  Punctual     \* assumption on time: every heartbeat comes before what it renews lapses

ASSUME WorkerAssumption ==
  /\ IdOf \in [Runs -> Workers]
  /\ Handled \in [Workers -> SUBSET Kinds]
  /\ Drainable \subseteq Workers
  /\ WorkerTTL \in Nat \ {0}
  /\ Punctual \in BOOLEAN

VARIABLES
  pc,         \* where a run is
  job,        \* the item and lease a run works for
  told,       \* status of the WorkerRunResult the run ended with
  registry    \* the registry's record of each worker

wvars == <<items, seq, fence, issued, pc, job, told, registry>>

NoJob == [item |-> 0, no |-> 0, gone |-> FALSE]

Places == {"idle", "leasing", "refusing", "running", "cancelling"}

Results == {"none", "no_work", "worker_inactive", "completed", "cancelled",
            "retrying", "failed", "lease_lost", "raised"}

WorkerStatus == {"unknown", "online", "draining", "offline", "lost"}

Unknown == [status |-> "unknown", left |-> 0]

WorkerInit ==
  /\ QueueInit
  /\ pc = [r \in Runs |-> "idle"]
  /\ job = [r \in Runs |-> NoJob]
  /\ told = [r \in Runs |-> "none"]
  /\ registry = [w \in Workers |-> Unknown]

Ends(r, result) ==
  /\ pc' = [pc EXCEPT ![r] = "idle"]
  /\ job' = [job EXCEPT ![r] = NoJob]
  /\ told' = [told EXCEPT ![r] = result]

Goes(r, place) ==
  /\ pc' = [pc EXCEPT ![r] = place]
  /\ UNCHANGED <<job, told>>

-----------------------------------------------------------------------------
(* The registry.                                                             *)

Online == [status |-> "online", left |-> WorkerTTL]

Lapsed(w) == registry[w].status \in {"online", "draining"} /\ registry[w].left = 0

\* Only workers believed present are expired.
AfterRegistryExpire ==
  [w \in Workers |-> IF Lapsed(w) THEN [status |-> "lost", left |-> 0] ELSE registry[w]]

Renewed(w) == [registry EXCEPT ![w].left = WorkerTTL]

ExpireWorkers ==
  /\ \E w \in Workers : Lapsed(w)
  /\ registry' = AfterRegistryExpire
  /\ UNCHANGED <<qvars, pc, job, told>>

RegisterWorker(w) ==
  /\ registry' = [registry EXCEPT ![w] = Online]
  /\ UNCHANGED <<qvars, pc, job, told>>

\* drain_worker and mark_worker_offline: the time left is not touched.
Withdraw(w, status) ==
  /\ w \in Drainable
  /\ registry[w].status # "unknown"
  /\ registry' = [registry EXCEPT ![w].status = status]
  /\ UNCHANGED <<qvars, pc, job, told>>

-----------------------------------------------------------------------------
(* run_once up to the handler.                                               *)

\* An unknown or lost worker registers, an online one sends a heartbeat; if that
\* finds its registration lapsed, the worker is lost and registers at once.
Enlisted(w) ==
  IF registry[w].status = "online" /\ ~Lapsed(w) THEN Renewed(w)
  ELSE IF Lapsed(w) THEN [AfterRegistryExpire EXCEPT ![w] = Online]
  ELSE [registry EXCEPT ![w] = Online]

Prepare(r) ==
  /\ pc[r] = "idle"
  /\ registry[IdOf[r]].status \notin {"draining", "offline"}
  /\ registry' = Enlisted(IdOf[r])
  /\ pc' = [pc EXCEPT ![r] = "leasing"]
  /\ told' = [told EXCEPT ![r] = "none"]
  /\ UNCHANGED <<qvars, job>>

Inactive(r) ==
  /\ pc[r] = "idle"
  /\ registry[IdOf[r]].status \in {"draining", "offline"}
  /\ Ends(r, "worker_inactive")
  /\ UNCHANGED <<qvars, registry>>

Take(r, i) ==
  /\ pc[r] = "leasing"
  /\ LeaseItem(IdOf[r], i)
  /\ job' = [job EXCEPT ![r] = [item |-> i, no |-> items'[i].lease.no, gone |-> FALSE]]
  /\ pc' = [pc EXCEPT ![r] = IF items[i].kind \in Handled[IdOf[r]]
                             THEN "running" ELSE "refusing"]
  /\ UNCHANGED <<told, registry>>

TakeNothing(r) ==
  /\ pc[r] = "leasing"
  /\ LeaseNothing(IdOf[r])
  /\ Ends(r, "no_work")
  /\ UNCHANGED <<registry>>

-----------------------------------------------------------------------------
(* Reports.  A report whose lease is gone reads the item back, and that read *)
(* raises when the item was pruned.                                          *)

Item(r) == job[r].item

JobLive(r) == Live(IdOf[r], job[r].item, job[r].no)

LostResult(r) == IF items[Item(r)].status = "absent" THEN "raised" ELSE "lease_lost"

ReportLost(r) ==
  /\ LeaseLost(IdOf[r], job[r].item, job[r].no)
  /\ Ends(r, LostResult(r))

ReportFailed(r, retry) ==
  \/ /\ Fail(IdOf[r], job[r].item, job[r].no, retry)
     /\ Ends(r, IF items'[Item(r)].status = "queued" THEN "retrying" ELSE "failed")
  \/ ReportLost(r)

ReportCompleted(r) ==
  \/ /\ Complete(IdOf[r], job[r].item, job[r].no)
     /\ Ends(r, "completed")
  \/ ReportLost(r)

\* A cancelled result cancels by item id, whatever became of the lease, and
\* leaves a finished item as it is.
ReportCancelled(r) ==
  \/ Cancel(Item(r)) /\ Ends(r, "cancelled")
  \/ /\ items[Item(r)].status \notin {"queued", "leased"}
     /\ Ends(r, IF items[Item(r)].status = "absent" THEN "raised" ELSE "cancelled")
     /\ UNCHANGED qvars

\* No handler for the kind.
Refuse(r) ==
  /\ pc[r] = "refusing"
  /\ ReportFailed(r, FALSE)
  /\ UNCHANGED <<registry>>

\* The handler returned or raised before the next heartbeat.
HandlerReturns(r) ==
  /\ pc[r] = "running"
  /\ ReportCompleted(r) \/ ReportCancelled(r) \/ \E retry \in BOOLEAN : ReportFailed(r, retry)
  /\ UNCHANGED <<registry>>

-----------------------------------------------------------------------------
(* Heartbeats while the handler runs: the queue first, then the registry.    *)

Beat(r) ==
  /\ pc[r] = "running"
  /\ registry[IdOf[r]].left > 0
  /\ Heartbeat(IdOf[r], job[r].item, job[r].no)
  /\ registry' = Renewed(IdOf[r])
  /\ UNCHANGED <<pc, job, told>>

\* The lease is gone: the handler is cancelled.
BeatLost(r) ==
  /\ pc[r] = "running"
  /\ LeaseLost(IdOf[r], job[r].item, job[r].no)
  /\ Goes(r, "cancelling")
  /\ UNCHANGED <<registry>>

\* The registration lapsed: the item is given back first, then the handler cancelled.
BeatUnregistered(r) ==
  /\ pc[r] = "running"
  /\ registry[IdOf[r]].left = 0
  /\ Fail(IdOf[r], job[r].item, job[r].no, TRUE)
  /\ registry' = AfterRegistryExpire
  /\ Goes(r, "cancelling")

\* The cancelled handler is done with its cleanup.
HandlerCancelled(r) ==
  /\ pc[r] = "cancelling"
  /\ Ends(r, LostResult(r))
  /\ UNCHANGED <<qvars, registry>>

\* The process dies, or the call of run_once is cancelled: nothing is reported.
Abandon(r) ==
  /\ pc[r] \in {"running", "cancelling"}
  /\ Ends(r, "none")
  /\ UNCHANGED <<qvars, registry>>

-----------------------------------------------------------------------------
(* The environment.                                                          *)

Submissions ==
  /\ \E kind \in Kinds, prio \in Priorities, key \in Keys \cup {NoKey},
        max \in Budgets, delay \in Delays : Enqueue(kind, prio, key, max, delay)
  /\ UNCHANGED <<pc, job, told, registry>>

CancelWork ==
  /\ \E i \in Items : Cancel(i)
  /\ UNCHANGED <<pc, job, told, registry>>

ExpireWork ==
  /\ ExpireLeases
  /\ UNCHANGED <<pc, job, told, registry>>

\* A run keeps a job whose item is forgotten: `gone' tells it from one that reuses the id.
PruneWork ==
  \E p \in Procs : \E old \in SUBSET Items :
    /\ Prune(p, old)
    /\ job' = [r \in Runs |-> [job[r] EXCEPT !.gone = @ \/ Item(r) \in old]]
    /\ UNCHANGED <<pc, told, registry>>

\* Nothing a run heartbeats for is about to lapse.
InTime ==
  \A r \in Runs : pc[r] = "running" => /\ JobLive(r) => items[Item(r)].lease.left > 1
                                       /\ registry[IdOf[r]].left > 1

WorkerTick ==
  /\ Punctual => InTime
  /\ Tick
  /\ registry' = [w \in Workers |-> [registry[w] EXCEPT !.left = IF @ > 0 THEN @ - 1 ELSE 0]]
  /\ UNCHANGED <<pc, job, told>>

Operators ==
  \/ CancelWork
  \/ PruneWork
  \/ \E w \in Workers : \/ RegisterWorker(w)
                        \/ \E s \in {"draining", "offline"} : Withdraw(w, s)

RunStep(r) ==
  \/ Prepare(r)
  \/ Inactive(r)
  \/ \E i \in Items : Take(r, i)
  \/ TakeNothing(r)
  \/ Refuse(r)
  \/ HandlerReturns(r)
  \/ HandlerCancelled(r)

WorkerNext ==
  \/ Submissions
  \/ Operators
  \/ ExpireWork
  \/ ExpireWorkers
  \/ WorkerTick
  \/ \E r \in Runs : RunStep(r) \/ Beat(r) \/ BeatLost(r) \/ BeatUnregistered(r) \/ Abandon(r)

WorkerSpec == WorkerInit /\ [][WorkerNext]_wvars

\* Time passes, and workers keep being run to the end of what they started:
\* handlers return, and requests for another run keep coming.
Running ==
  /\ WF_wvars(WorkerTick)
  /\ \A r \in Runs : WF_wvars(RunStep(r))

LiveWorkerSpec == WorkerSpec /\ Running

-----------------------------------------------------------------------------
WorkerTypeOK ==
  /\ TypeOK
  /\ pc \in [Runs -> Places]
  /\ job \in [Runs -> [item : {0} \cup Items, no : Nat, gone : BOOLEAN]]
  /\ told \in [Runs -> Results]
  /\ registry \in [Workers -> [status : WorkerStatus, left : Nat]]

(* What a run reports is what it did.  COMPLETED is told only to a run that  *)
(* still held, unexpired, the very lease it took, on the very item it took   *)
(* it on (and not on a later item with the same id), and then the item is    *)
(* completed.  A run told LEASE_LOST has moved no item that anyone else was  *)
(* working on (worker.py, _apply_handler_result and _fail_leased_item).      *)
ReportsAreTrue ==
  [][\A r \in Runs :
       (pc[r] \notin {"idle", "leasing"} /\ pc'[r] = "idle") =>
         /\ told'[r] = "completed" => /\ ~job[r].gone
                                      /\ JobLive(r)
                                      /\ items'[Item(r)].status = "completed"
         /\ told'[r] = "lease_lost" =>
              \A i \in Items : items[i].lease.left > 0 => items'[i] = items[i]]_wvars

(* As long as heartbeats are in time, no item is in the hands of two         *)
(* handlers: neither expiry, nor a retry, nor the registry gives away an     *)
(* item whose handler still runs.                                            *)
OneHandlerPerItem ==
  \A r, s \in Runs :
    (/\ pc[r] = "running" /\ pc[s] = "running"
     /\ ~job[r].gone /\ ~job[s].gone
     /\ Item(r) = Item(s)) => r = s

(* A run whose lease is gone leaves its handler at the next heartbeat, and   *)
(* until then it cannot get it back: the lease of a job, once lost, is lost. *)
LostStaysLost ==
  [][\A r \in Runs :
       (pc[r] # "idle" /\ pc'[r] # "idle" /\ job'[r] = job[r] /\ Item(r) # 0
          /\ ~JobLive(r))
         => ~JobLive(r)']_wvars

(* Every item that is submitted ends: whatever crashes, losses of leases and *)
(* retries happen, it is completed, failed or cancelled (or, after that,     *)
(* pruned), as long as time passes and some worker that is not withdrawn     *)
(* keeps being run.                                                          *)
EveryItemEnds ==
  \A i \in Items : items[i].status = "queued" ~> items[i].status \in Terminal \cup {"absent"}

=============================================================================
