------------------------------ MODULE Delegation ------------------------------
(***************************************************************************)
(* Multi-agent delegation: AgentOrchestrator.delegate_many and delegate       *)
(* (multi_agent/orchestrator.py), the DelegationManager                       *)
(* (multi_agent/delegation.py) and the instance states of the AgentRegistry    *)
(* (multi_agent/registry.py).                                                *)
(*                                                                         *)
(* The specs of a batch are delegated in waves: all whose dependencies have    *)
(* a result, concurrently.  A delegation selects its instance, reserves a      *)
(* place under its parent and marks the instance busy before it first awaits,  *)
(* so these are one step; the executor takes its time.  Several batches share   *)
(* the registry.  A spec is one request: its task id is its own.               *)
(***************************************************************************)
EXTENDS Integers, FiniteSets

CONSTANTS
  Specs,          \* the specs of all batches, in the order given
  Batches,
  BatchOf,
  Needs,          \* depends_on
  ParentOf,       \* parent_task_id, or 0
  MaxChildren,    \* max_children of each request
  Agents,         \* the instances, in the order of their ids
  Eligible,       \* the instances whose profile suits a spec
  MaxDrains       \* bound: times an instance's owner sets its status

ASSUME DelegationAssumption ==
  /\ Specs \subseteq Nat \ {0} /\ IsFiniteSet(Specs)
  /\ BatchOf \in [Specs -> Batches]
  /\ Needs \in [Specs -> SUBSET Specs]
  /\ ParentOf \in [Specs -> Specs \cup {0}]
  /\ MaxChildren \in [Specs -> Nat]
  /\ Agents \subseteq Nat
  /\ Eligible \in [Specs -> SUBSET Agents]
  /\ MaxDrains \in Nat

VARIABLES
  wave,        \* the specs each batch waits for
  outcome,     \* the result of each spec, as its batch has it
  deleg,       \* the status of the delegation of each spec
  holder,      \* the instances that carry out each spec
  agent,       \* the status of each instance
  children,    \* _child_counts
  known,       \* specs whose depth is known: _task_depths
  drains,      \* times an owner has set a status
  forced       \* history: instances whose owner ever called one at work ready, or one busy

dvars == <<wave, outcome, deleg, holder, agent, children, known, drains, forced>>

Ended == {"completed", "failed", "revoked"}

DelegationInit ==
  /\ wave = [b \in Batches |-> {}]
  /\ outcome = [t \in Specs |-> "none"]
  /\ deleg = [t \in Specs |-> "none"]
  /\ holder = [t \in Specs |-> {}]
  /\ agent = [a \in Agents |-> "ready"]
  /\ children = [t \in Specs |-> 0]
  /\ known = {}
  /\ drains = 0
  /\ forced = {}

SpecsOf(b) == {t \in Specs : BatchOf[t] = b}

\* TopologicalSorter.get_ready
InReach(b) == {t \in SpecsOf(b) : outcome[t] = "none" /\ \A n \in Needs[t] : outcome[n] # "none"}

Blocked(t) == \E n \in Needs[t] : outcome[n] # "completed"

\* The next wave; a spec with a dependency that did not complete is skipped.
NextWave(b) ==
  /\ wave[b] = {}
  /\ InReach(b) # {}
  /\ wave' = [wave EXCEPT ![b] = {t \in InReach(b) : ~Blocked(t)}]
  /\ outcome' = [t \in Specs |-> IF t \in InReach(b) /\ Blocked(t) THEN "rejected" ELSE outcome[t]]
  /\ UNCHANGED <<deleg, holder, agent, children, known, drains, forced>>

-----------------------------------------------------------------------------
\* gather starts the coroutines of a wave in their order; each reports to the wave.
Turn(t) ==
  /\ t \in wave[BatchOf[t]] /\ deleg[t] = "none" /\ outcome[t] = "none"
  /\ \A s \in wave[BatchOf[t]] : s < t => deleg[s] # "none" \/ outcome[s] # "none"

\* Variant: the batch waits until all of a wave have completed.
AnswerWhenCompleted(t, result) ==
  LET mine == wave[BatchOf[t]] IN
    /\ outcome' = [outcome EXCEPT ![t] = result]
    /\ wave' = IF \A s \in mine : outcome'[s] = "completed"
               THEN [wave EXCEPT ![BatchOf[t]] = {}] ELSE wave

\* The batch has the wave's results when all are in.
Answer(t, result) ==
  LET mine == wave[BatchOf[t]] IN
    /\ outcome' = [outcome EXCEPT ![t] = result]
    /\ wave' = IF \A s \in mine \ {t} : outcome[s] # "none"
               THEN [wave EXCEPT ![BatchOf[t]] = {}] ELSE wave

\* _select_instance: the first that is ready.
Fits(t) == {a \in Eligible[t] : agent[a] = "ready"}
Selected(t) == CHOOSE a \in Fits(t) : \A b \in Fits(t) : a <= b

\* Variant: the limit is off by one.
ReservableOneMore(t) ==
  LET p == ParentOf[t] IN p # 0 => p \in known /\ children[p] <= MaxChildren[t]

\* _reserve_delegation
Reservable(t) ==
  LET p == ParentOf[t] IN p # 0 => p \in known /\ children[p] < MaxChildren[t]

\* delegate, up to the executor's first await.
Delegate(t) ==
  /\ Turn(t)
  /\ IF Fits(t) = {} \/ ~Reservable(t)
     THEN /\ Answer(t, "rejected")
          /\ UNCHANGED <<deleg, holder, agent, children, known>>
     ELSE /\ holder' = [holder EXCEPT ![t] = {Selected(t)}]
          /\ agent' = [agent EXCEPT ![Selected(t)] = "busy"]
          /\ deleg' = [deleg EXCEPT ![t] = "running"]
          /\ children' = IF ParentOf[t] = 0 THEN children
                         ELSE [children EXCEPT ![ParentOf[t]] = @ + 1]
          /\ known' = known \cup {t}
          /\ UNCHANGED <<wave, outcome>>
  /\ UNCHANGED <<drains, forced>>

\* The instance is put back, whatever happened.
PutBack(t) ==
  /\ holder' = [holder EXCEPT ![t] = {}]
  /\ agent' = [a \in Agents |-> IF a \in holder[t] THEN "ready" ELSE agent[a]]

AtWork(t) == holder[t] # {}

\* Its batch waits for it: delegate_many was not cancelled.
Awaited(t) == AtWork(t) /\ outcome[t] = "none"

\* Variant: the result counts, whatever became of the delegation.
RespondAnyway(t, result) ==
  /\ Awaited(t)
  /\ PutBack(t)
  /\ deleg' = [deleg EXCEPT ![t] = IF @ # "running" THEN @
                                   ELSE IF result = "completed" THEN "completed" ELSE "failed"]
  /\ Answer(t, result)
  /\ UNCHANGED <<children, known, drains, forced>>

\* The executor answers, in time and within its cost; a delegation revoked meanwhile
\* can neither complete nor fail, which the batch takes for a failure.
Respond(t, result) ==
  /\ Awaited(t)
  /\ PutBack(t)
  /\ IF deleg[t] = "running"
     THEN /\ deleg' = [deleg EXCEPT ![t] = IF result = "completed" THEN "completed" ELSE "failed"]
          /\ Answer(t, result)
     ELSE Answer(t, "failed") /\ UNCHANGED deleg
  /\ UNCHANGED <<children, known, drains, forced>>

\* Variant: an executor that raises leaves its instance as it is.
RaiseHolding(t) ==
  /\ Awaited(t)
  /\ holder' = [holder EXCEPT ![t] = {}]
  /\ deleg' = IF deleg[t] = "running" THEN [deleg EXCEPT ![t] = "failed"] ELSE deleg
  /\ Answer(t, "failed")
  /\ UNCHANGED <<agent, children, known, drains, forced>>

\* It raises, takes too long, or costs too much.
Fail(t) ==
  /\ Awaited(t)
  /\ PutBack(t)
  /\ deleg' = IF deleg[t] = "running" THEN [deleg EXCEPT ![t] = "failed"] ELSE deleg
  /\ Answer(t, "failed")
  /\ UNCHANGED <<children, known, drains, forced>>

Revoke(t) ==
  /\ deleg[t] = "running"
  /\ deleg' = [deleg EXCEPT ![t] = "revoked"]
  /\ UNCHANGED <<wave, outcome, holder, agent, children, known, drains, forced>>

\* delegate_many is cancelled, and so are its executors: nobody gets a result.
CancelBatch(b) ==
  /\ \E t \in wave[b] : AtWork(t)
  /\ wave' = [wave EXCEPT ![b] = {}]
  /\ outcome' = [t \in Specs |-> IF BatchOf[t] = b /\ outcome[t] = "none" THEN "lost" ELSE outcome[t]]
  /\ UNCHANGED <<deleg, holder, agent, children, known, drains, forced>>

\* A cancelled executor ends when it has unwound; one that swallows the cancellation
\* still completes or fails its delegation.
Unwind(t) ==
  /\ AtWork(t) /\ outcome[t] = "lost"
  /\ PutBack(t)
  /\ \/ UNCHANGED deleg
     \/ /\ deleg[t] = "running"
        /\ \E end \in {"completed", "failed"} : deleg' = [deleg EXCEPT ![t] = end]
  /\ UNCHANGED <<wave, outcome, children, known, drains, forced>>

-----------------------------------------------------------------------------
\* update_instance_status: the owner of an instance sets any status, at any time.
SetStatus(a, status) ==
  /\ drains < MaxDrains                                             \* bound
  /\ agent[a] # status
  /\ agent' = [agent EXCEPT ![a] = status]
  /\ drains' = drains + 1
  /\ forced' = IF status = "busy" \/ (status = "ready" /\ \E t \in Specs : a \in holder[t])
               THEN forced \cup {a} ELSE forced
  /\ UNCHANGED <<wave, outcome, deleg, holder, children, known>>

SpecNext(t) ==
  \/ Delegate(t) \/ Fail(t) \/ Unwind(t)
  \/ \E result \in {"completed", "failed", "waiting", "cancelled"} : Respond(t, result)

Statuses == {"ready", "busy", "draining", "offline"}

DelegationNext ==
  \/ \E b \in Batches : NextWave(b) \/ CancelBatch(b)
  \/ \E t \in Specs : SpecNext(t) \/ Revoke(t)
  \/ \E a \in Agents : \E status \in Statuses : SetStatus(a, status)

DelegationSpec == DelegationInit /\ [][DelegationNext]_dvars

\* The loop runs, and every executor answers, raises or runs out of time.
DelegationFairness ==
  /\ \A b \in Batches : WF_dvars(NextWave(b))
  /\ \A t \in Specs : WF_dvars(SpecNext(t))

LiveDelegationSpec == DelegationSpec /\ DelegationFairness

-----------------------------------------------------------------------------
Outcomes == {"none", "completed", "failed", "waiting", "cancelled", "rejected", "lost"}

DelegationTypeOK ==
  /\ wave \in [Batches -> SUBSET Specs]
  /\ outcome \in [Specs -> Outcomes]
  /\ deleg \in [Specs -> {"none", "running"} \cup Ended]
  /\ holder \in [Specs -> SUBSET Agents]
  /\ agent \in [Agents -> Statuses]
  /\ children \in [Specs -> 0..Cardinality(Specs)]
  /\ known \subseteq Specs
  /\ drains \in 0..MaxDrains
  /\ forced \subseteq Agents

(* An instance carries out one task at a time, of whichever batch, although     *)
(* its status is overwritten by its owner and by the task that ends; and one     *)
(* that is busy has a task: no way a delegation may end leaves its instance     *)
(* out of reach (_select_instance, the `finally' of _execute_on_instance).      *)
(* Not so of an instance in `forced': the registry takes any status at any      *)
(* time, so an owner's READY lets a second task in beside the first, and an     *)
(* owner's BUSY keeps an idle instance out of reach (update_instance_status).    *)
OneTaskPerInstance ==
  /\ \A s, t \in Specs : (holder[s] \cap holder[t]) \ forced # {} => s = t
  /\ \A a \in Agents \ forced : agent[a] = "busy" => \E t \in Specs : a \in holder[t]

(* A spec is only carried out when all it depends on was completed, in the       *)
(* delegations' own record too, and a result its batch calls completed is one    *)
(* nobody revoked (delegate_many, DelegationManager.complete).                  *)
DependenciesCompleted ==
  /\ \A t \in Specs : deleg[t] # "none" => \A n \in Needs[t] : deleg[n] = "completed"
  /\ \A t \in Specs : outcome[t] = "completed" => deleg[t] = "completed"

Begun(p) == {t \in Specs : ParentOf[t] = p /\ deleg[t] # "none"}

(* No parent ever has more children than the request that came last allowed,      *)
(* over all batches (_reserve_delegation).                                     *)
ChildrenWithinLimit ==
  \A p \in Specs : Begun(p) # {} => \E t \in Begun(p) : Cardinality(Begun(p)) <= MaxChildren[t]

(* Every spec of a batch that is not cancelled gets a result, whatever fails,     *)
(* is revoked or drained: no wave waits for ever and none is left out.           *)
EverySpecAnswered == \A t \in Specs : <>(outcome[t] # "none")

=============================================================================
