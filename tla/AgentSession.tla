---------------------------- MODULE AgentSession ----------------------------
(***************************************************************************)
(* One session of universal_agent.runtime: the run loop (agent.py), the     *)
(* execution of its actions (actions.py), the control calls pause, cancel,  *)
(* resume and continue, and the versioned session store they all write to.  *)
(*                                                                         *)
(* A driver is the task that runs a session and holds its control lock.  An *)
(* await is a point where anyone else may step or where the driver may be   *)
(* cancelled; between two awaits the code is one step.  Commits compare     *)
(* versions; `fresh' says that a holder's version is still the stored one.  *)
(*                                                                         *)
(* What the model, the tools, the evaluators, the recovery rules and the    *)
(* users decide is arbitrary.  A proposal is a capability with target and   *)
(* arguments (its fingerprint); an action is a proposal with an action id.  *)
(***************************************************************************)
EXTENDS Integers, FiniteSets

CONSTANTS
  Sessions, Proposals, Resources,
  NoProposal,      \* no action
  NoSession,       \* nobody holds the resource
  NoResource,      \* the tool has no side effect
  ResourceOf,      \* the resource a proposal's tool changes
  Ids,             \* action ids, reused once nothing refers to them
  MaxIterations,   \* max_iterations
  MaxSteps,        \* max_recovery_steps
  MaxTries,        \* max_attempts of the recovery rule
  Threaded         \* the store commits in a worker thread (SQLite)

ASSUME SessionAssumption ==
  /\ NoProposal \notin Proposals
  /\ NoSession \notin Sessions
  /\ NoResource \notin Resources
  /\ ResourceOf \in [Proposals -> Resources \cup {NoResource}]
  /\ Ids \subseteq Nat \ {0}
  /\ MaxIterations \in Nat \ {0}
  /\ MaxSteps \in Nat \ {0}
  /\ MaxTries \in Nat
  /\ Threaded \in BOOLEAN

VARIABLES
  store,     \* the stored snapshot of each session
  drv,       \* the driver of each session
  req,       \* its SessionControl: requests to it, and a cancellation under way
  ctl,       \* a pause or cancel call that found no active driver
  locks,     \* ResourceLockRegistry
  seen,      \* InMemoryIdempotencyStore: proposals recorded for the session's task
  rule,      \* what the policies say of a proposal
  consent,   \* history: proposals a user confirmed
  ran,       \* history: proposals that succeeded in the session's task and process
  cut        \* history: those whose success was cut off before it was all told

vars == <<store, drv, req, ctl, locks, seen, rule, consent, ran, cut>>

Terminal == {"completed", "failed", "cancelled"}
Statuses == {"none", "pending", "running", "waiting"} \cup Terminal
Rules == {"allow", "confirm", "deny"}

NoAction == [what |-> NoProposal, id |-> 0]
ActionType == {NoAction} \cup [what : Proposals, id : {0} \cup Ids]

Blank == [status |-> "none", pending |-> NoAction, approved |-> {},
          cont |-> FALSE, done |-> FALSE, iter |-> 0, tries |-> 0]
StateType == [status : Statuses, pending : ActionType, approved : SUBSET Proposals,
              cont : BOOLEAN, done : BOOLEAN, iter : 0..MaxIterations,
              tries : 0..MaxTries]

\* Places where active_task is not set, and where it is.
Quiet == {"entering", "entered", "leaving"}
Active == {"top", "deciding", "driving", "checking", "tool", "announcing",
           "reconciling", "observing", "planned", "tail"}

Plans == {"loop", "start", "plain", "confirm", "reject", "refuse", "continue",
          "retry", "ask", "stop"}

NoDriver == [pc |-> "none", mem |-> Blank, fresh |-> FALSE, act |-> NoAction,
             conf |-> FALSE, plan |-> "loop", steps |-> 0, handling |-> FALSE]
DriverType == [pc : {"none"} \cup Quiet \cup Active, mem : StateType, fresh : BOOLEAN,
               act : ActionType, conf : BOOLEAN, plan : Plans, steps : 0..MaxSteps,
               handling : BOOLEAN]

NoRequest == [pause |-> FALSE, cancel |-> FALSE, hit |-> FALSE]
RequestType == [pause : BOOLEAN, cancel : BOOLEAN, hit : BOOLEAN]

NoCall == [op |-> "none", mem |-> Blank, fresh |-> FALSE]
CallType == [op : {"none", "pause", "cancel"}, mem : StateType, fresh : BOOLEAN]

Unlocked == [by |-> NoSession, id |-> 0]
LockType == [by : Sessions \cup {NoSession}, id : {0} \cup Ids]

Init ==
  /\ store = [s \in Sessions |-> Blank]
  /\ drv = [s \in Sessions |-> NoDriver]
  /\ req = [s \in Sessions |-> NoRequest]
  /\ ctl = [s \in Sessions |-> NoCall]
  /\ locks = [r \in Resources |-> Unlocked]
  /\ seen = [s \in Sessions |-> {}]
  /\ rule \in [Proposals -> Rules]
  /\ consent = [s \in Sessions |-> {}]
  /\ ran = [s \in Sessions |-> {}]
  /\ cut = [s \in Sessions |-> {}]

-----------------------------------------------------------------------------
(* Commits.  A snapshot leaves out that the session is a continuation        *)
(* (state/session.py, _copy_state).  A version conflict raises.              *)

Snapshot(m) == [m EXCEPT !.cont = FALSE]

Gone(s) ==
  /\ drv' = [drv EXCEPT ![s] = NoDriver]
  /\ req' = [req EXCEPT ![s] = NoRequest]

\* Variant: the store does not compare versions.
CommitBlind(s, m, d) ==
  /\ store' = [store EXCEPT ![s] = Snapshot(m)]
  /\ ctl' = [ctl EXCEPT ![s].fresh = FALSE]
  /\ drv' = [drv EXCEPT ![s] = [d EXCEPT !.mem = m]]
  /\ UNCHANGED req

\* The driver of s commits m and goes on as d, or fails on a version conflict.
Commit(s, m, d) ==
  IF drv[s].fresh
  THEN /\ store' = [store EXCEPT ![s] = Snapshot(m)]
       /\ ctl' = [ctl EXCEPT ![s].fresh = FALSE]
       /\ drv' = [drv EXCEPT ![s] = [d EXCEPT !.mem = m]]
       /\ UNCHANGED req
  ELSE Gone(s) /\ UNCHANGED <<store, ctl>>

At(s, place) == [drv[s] EXCEPT !.pc = place]

Goes(s, d) == drv' = [drv EXCEPT ![s] = d] /\ UNCHANGED <<store, req, ctl>>

-----------------------------------------------------------------------------
(* Resources.  A lock is known by session and action id; only that pair can  *)
(* release it.                                                               *)

Mutates(a) == ResourceOf[a] # NoResource

LockOf(s, act) == [by |-> s, id |-> act.id]

\* Variant: acquire overwrites the entry it finds.
CanLockAlways(s, act) == TRUE

CanLock(s, act) ==
  Mutates(act.what) => locks[ResourceOf[act.what]] \in {Unlocked, LockOf(s, act)}

Locked(s, act) ==
  IF Mutates(act.what) THEN [locks EXCEPT ![ResourceOf[act.what]] = LockOf(s, act)]
  ELSE locks

Released(s, act) ==
  [r \in Resources |->
     IF act # NoAction /\ ResourceOf[act.what] = r /\ locks[r] = LockOf(s, act)
     THEN Unlocked ELSE locks[r]]

\* Ids something of the session still refers to.
UsedIds(s) ==
  {drv[s].act.id, drv[s].mem.pending.id, store[s].pending.id, ctl[s].mem.pending.id}
    \cup {locks[r].id : r \in {x \in Resources : locks[x].by = s}}

-----------------------------------------------------------------------------
(* Settling: a transition, the release of what a finished session still has  *)
(* pending, and the commit.                                                  *)

Waiting(m) == [m EXCEPT !.status = "waiting"]
Failed(m) == [m EXCEPT !.status = "failed"]
Cancelled(m) == [m EXCEPT !.status = "cancelled", !.pending = NoAction]

\* The model may ask to finish; the evaluator decides, except in a continuation.
Finished(m) ==
  IF m.cont \/ m.done THEN [m EXCEPT !.status = "completed"] ELSE Failed(m)

Cleared(m) == IF m.status \in Terminal THEN [m EXCEPT !.pending = NoAction] ELSE m

Settle(s, m, place) ==
  /\ locks' = IF m.status \in Terminal THEN Released(s, m.pending) ELSE locks
  /\ Commit(s, Cleared(m), [At(s, place) EXCEPT !.act = NoAction, !.conf = FALSE, !.steps = 0])

\* RecoveryManager.decide: the rule that matches allows so many attempts.
ExhaustedLate(m) == m.tries > MaxTries           \* variant: one attempt too many

Exhausted(m) == m.tries >= MaxTries

Allowed(m, plan) == IF Exhausted(m) THEN "stop" ELSE plan

Spent(m, plan) ==
  IF plan = "stop" \/ Exhausted(m) THEN m ELSE [m EXCEPT !.tries = @ + 1]

World == <<seen, rule, consent, ran, cut>>

-----------------------------------------------------------------------------
(* Calls that start a driver.  They take the control lock and load.          *)

Free(s) == drv[s].pc = "none"

Begins(s, m, plan) ==
  /\ drv' = [drv EXCEPT ![s] = [NoDriver EXCEPT !.pc = "entering", !.mem = m,
                                                !.fresh = TRUE, !.plan = plan]]
  /\ UNCHANGED <<store, req, ctl, locks, World>>

\* A run takes the control lock only after its first commit (_run_controlled).  Whoever
\* overtakes it until then has committed: the run fails on its version and changes
\* nothing, as if it had never begun, so it is modelled as holding the lock from here.
Run(s) ==
  /\ Free(s) /\ store[s].status = "none"
  /\ store' = [store EXCEPT ![s].status = "pending"]
  /\ drv' = [drv EXCEPT ![s] = [NoDriver EXCEPT !.pc = "entering", !.fresh = TRUE,
                                   !.mem = [Blank EXCEPT !.status = "pending"],
                                   !.plan = "start"]]
  /\ UNCHANGED <<req, ctl, locks, World>>

Resume(s, confirmed) ==
  /\ Free(s) /\ store[s].status = "waiting"
  /\ store[s].pending = NoAction => confirmed = "unset"
  /\ Begins(s, store[s],
            IF store[s].pending = NoAction THEN "plain"
            ELSE CASE confirmed = "yes" -> "confirm"
                   [] confirmed = "no" -> "reject"
                   [] OTHER -> "refuse")

\* The guard leaves a cancelled session, and a pending one, free to continue.
Continue(s) ==
  /\ Free(s) /\ store[s].status \notin {"none", "running", "waiting"}
  /\ Begins(s, store[s], "continue")

-----------------------------------------------------------------------------
(* The first commit of a call, before the driver becomes the active task.    *)

\* Fingerprints and recovery attempts are counted task by task.
NextTask(s) ==
  /\ seen' = [seen EXCEPT ![s] = {}]
  /\ ran' = [ran EXCEPT ![s] = {}]
  /\ cut' = [cut EXCEPT ![s] = {}]

EnterLoop(s) ==
  /\ drv[s].pc = "entering" /\ ~req[s].hit /\ drv[s].plan \in {"start", "plain", "continue"}
  /\ LET fresh == drv[s].plan = "continue"
         m == IF fresh THEN [drv[s].mem EXCEPT !.status = "running", !.iter = 0,
                                               !.tries = 0, !.cont = TRUE]
              ELSE [drv[s].mem EXCEPT !.status = "running"]
     IN /\ Commit(s, m, [At(s, "entered") EXCEPT !.plan = "loop"])
        /\ IF fresh THEN NextTask(s) ELSE UNCHANGED <<seen, ran, cut>>
  /\ UNCHANGED <<locks, rule, consent>>

EnterConfirmed(s) ==
  /\ drv[s].pc = "entering" /\ ~req[s].hit /\ drv[s].plan = "confirm"
  /\ Commit(s, [drv[s].mem EXCEPT !.status = "running"], At(s, "entered"))
  /\ consent' = [consent EXCEPT ![s] = @ \cup {drv[s].mem.pending.what}]
  /\ UNCHANGED <<locks, seen, rule, ran, cut>>

\* A rejection releases the lock, then plans the recovery.
EnterRejected(s) ==
  /\ drv[s].pc = "entering" /\ ~req[s].hit /\ drv[s].plan = "reject"
  /\ locks' = Released(s, drv[s].mem.pending)
  /\ \E plan \in {"retry", "ask", "stop"} :
       LET m == [drv[s].mem EXCEPT !.status = "running", !.pending = NoAction]
       IN Commit(s, Spent(m, plan), [At(s, "entered") EXCEPT !.plan = Allowed(m, plan)])
  /\ UNCHANGED World

\* resume without a word on the pending action fails the session.
EnterRefused(s) ==
  /\ drv[s].pc = "entering" /\ ~req[s].hit /\ drv[s].plan = "refuse"
  /\ Settle(s, Failed(drv[s].mem), "leaving")
  /\ UNCHANGED World

\* Recovery proposes the same capability again, or an alternative one.
TakesUp(s, a) == [At(s, "driving") EXCEPT !.act = [what |-> a, id |-> 0], !.conf = FALSE]

Activate(s) ==
  /\ drv[s].pc = "entered" /\ ~req[s].hit
  /\ \/ drv[s].plan = "ask" /\ Settle(s, Waiting(drv[s].mem), "leaving")
     \/ drv[s].plan = "stop" /\ Settle(s, Failed(drv[s].mem), "leaving")
     \/ /\ drv[s].plan = "confirm"
        /\ Goes(s, [At(s, "driving") EXCEPT !.act = drv[s].mem.pending, !.conf = TRUE])
        /\ UNCHANGED locks
     \/ /\ drv[s].plan = "retry"
        /\ \E a \in Proposals : Goes(s, TakesUp(s, a))
        /\ UNCHANGED locks
  /\ UNCHANGED World

-----------------------------------------------------------------------------
(* The loop.                                                                 *)

Asked(s) == req[s].cancel \/ req[s].pause

\* _requested_control_transition; a pause request is spent by it.
ObeyRequest(s) ==
  /\ Settle(s, IF req[s].cancel THEN Cancelled(drv[s].mem) ELSE Waiting(drv[s].mem), "tail")
  /\ UNCHANGED World

\* Variant: the iteration is not counted.
NotCounted(m) == m

Counted(m) == [m EXCEPT !.iter = @ + 1]

LoopTop(s) ==
  /\ drv[s].pc = "top" \/ (drv[s].pc = "entered" /\ drv[s].plan = "loop")
  /\ ~req[s].hit
  /\ IF drv[s].mem.iter = MaxIterations
     THEN Settle(s, Failed(drv[s].mem), "tail") /\ UNCHANGED World
     ELSE \/ Settle(s, Waiting(drv[s].mem), "tail") /\ UNCHANGED World  \* time budget spent
          \/ Asked(s) /\ ObeyRequest(s)
          \/ /\ ~Asked(s)
             /\ Commit(s, Counted(drv[s].mem), At(s, "deciding"))
             /\ UNCHANGED <<locks, World>>

\* The model fails or is rejected, waits, finishes, or proposes an action.
Decide(s) ==
  /\ drv[s].pc = "deciding" /\ ~req[s].hit
  /\ \/ Settle(s, Failed(drv[s].mem), "tail")
     \/ Settle(s, Waiting(drv[s].mem), "tail")
     \/ Settle(s, Finished(drv[s].mem), "tail")
     \/ \E a \in Proposals :
          /\ Goes(s, TakesUp(s, a))
          /\ UNCHANGED locks
  /\ UNCHANGED World

\* ActionExecutor.prepare: the decision becomes an action under a new id.
Prepared(s) ==
  [At(s, "checking") EXCEPT !.steps = @ + 1,
                            !.act.id = CHOOSE n \in Ids \ UsedIds(s) : TRUE]

\* One turn of _drive: prepare, unless a confirmed action is taken up.
Drive(s) ==
  /\ drv[s].pc = "driving" /\ ~req[s].hit
  /\ \/ /\ drv[s].steps = MaxSteps
        /\ Settle(s, Failed(drv[s].mem), "tail")
        /\ UNCHANGED World
     \/ drv[s].steps < MaxSteps /\ Asked(s) /\ ObeyRequest(s)
     \/ /\ drv[s].steps < MaxSteps /\ ~Asked(s)
        /\ \/ /\ drv[s].conf
              /\ Goes(s, [At(s, "checking") EXCEPT !.steps = @ + 1])
           \/ /\ ~drv[s].conf
              /\ Ids \ UsedIds(s) # {}                          \* bound
              /\ Goes(s, Prepared(s))
        /\ UNCHANGED <<locks, World>>

-----------------------------------------------------------------------------
(* ActionExecutor.execute.                                                   *)

\* Variant: an approval given to anything stands for everything.
VerdictAnyApproval(s, a) ==
  IF rule[a] = "confirm" /\ (drv[s].conf \/ drv[s].mem.approved # {})
  THEN "allow" ELSE rule[a]

Verdict(s, a) ==
  IF rule[a] = "confirm" /\ (drv[s].conf \/ a \in drv[s].mem.approved)
  THEN "allow" ELSE rule[a]

What(s) == drv[s].act.what

Rejects(s, m) == Settle(s, Failed(m), "tail") /\ UNCHANGED World

\* Denied, unresolvable, outside the sandbox, or at a stale resource version.
Refuse(s) ==
  /\ drv[s].pc = "checking" /\ ~req[s].hit
  /\ Rejects(s, drv[s].mem)

Unpend(m) == [m EXCEPT !.pending = NoAction]

\* The same action is on record: reconcile instead of running it.
Reconcile(s) ==
  /\ drv[s].pc = "checking" /\ ~req[s].hit
  /\ Verdict(s, What(s)) # "deny"
  /\ Mutates(What(s)) /\ What(s) \in seen[s]
  /\ IF CanLock(s, drv[s].act)
     THEN /\ locks' = Locked(s, drv[s].act)
          /\ Goes(s, [At(s, "reconciling") EXCEPT !.mem = Unpend(@)])
          /\ UNCHANGED World
     ELSE Rejects(s, Unpend(drv[s].mem))

\* The lock is taken for as long as the user is asked.
AskConfirmation(s) ==
  /\ drv[s].pc = "checking" /\ ~req[s].hit
  /\ Verdict(s, What(s)) = "confirm"
  /\ What(s) \notin seen[s]
  /\ IF CanLock(s, drv[s].act)
     THEN /\ locks' = Locked(s, drv[s].act)
          /\ Commit(s, Waiting([drv[s].mem EXCEPT !.pending = drv[s].act]),
                    [At(s, "tail") EXCEPT !.act = NoAction, !.conf = FALSE, !.steps = 0])
          /\ UNCHANGED World
     ELSE Rejects(s, drv[s].mem)

\* Variant: only an unconfirmed action is recorded.
RecordedUnconfirmed(s) ==
  IF Mutates(What(s)) /\ ~drv[s].conf THEN [seen EXCEPT ![s] = @ \cup {What(s)}] ELSE seen

Recorded(s) ==
  IF Mutates(What(s)) THEN [seen EXCEPT ![s] = @ \cup {What(s)}] ELSE seen

StartTool(s) ==
  /\ drv[s].pc = "checking" /\ ~req[s].hit
  /\ Verdict(s, What(s)) = "allow"
  /\ What(s) \notin seen[s]
  /\ IF CanLock(s, drv[s].act)
     THEN /\ locks' = Locked(s, drv[s].act)
          /\ seen' = Recorded(s)
          /\ Goes(s, [At(s, "tool") EXCEPT !.mem = Unpend(@)])
          /\ UNCHANGED <<rule, consent, ran, cut>>
     ELSE Rejects(s, Unpend(drv[s].mem))

\* The record of a run that did not succeed is forgotten.
Forgotten(s) == [seen EXCEPT ![s] = @ \ {What(s)}]

\* An approval is kept once the action it was given for has succeeded.
Approved(s) ==
  IF drv[s].conf \/ What(s) \in drv[s].mem.approved
  THEN drv[s].mem.approved \cup {What(s)} ELSE drv[s].mem.approved

ToolSucceeds(s) ==
  /\ drv[s].pc = "tool"
  /\ drv' = [drv EXCEPT ![s].pc = "announcing"]
  /\ req' = [req EXCEPT ![s].hit = FALSE]            \* a tool may swallow the cancellation
  /\ ran' = [ran EXCEPT ![s] = @ \cup {What(s)}]
  /\ cut' = [cut EXCEPT ![s] = @ \ {What(s)}]
  /\ UNCHANGED <<store, ctl, locks, seen, rule, consent>>

\* The success has been told: ActionCompleted, ResourceVersionUpdated and
\* ObservationReceived, each awaited while the lock is held and the record may
\* still be forgotten.
Announced(s) ==
  /\ drv[s].pc = "announcing" /\ ~req[s].hit
  /\ locks' = Released(s, drv[s].act)
  /\ drv' = [drv EXCEPT ![s].pc = "observing", ![s].mem.approved = Approved(s),
                        ![s].plan = "loop"]
  /\ UNCHANGED <<store, req, ctl, World>>

\* FAILED: nothing was done.  TIMED_OUT or UNKNOWN: nobody knows.
ToolFails(s) ==
  /\ drv[s].pc = "tool"
  /\ locks' = Released(s, drv[s].act)
  /\ drv' = [drv EXCEPT ![s].pc = "observing", ![s].plan = "stop"]
  /\ req' = [req EXCEPT ![s].hit = FALSE]
  /\ seen' = Forgotten(s)
  /\ UNCHANGED <<store, ctl, rule, consent, ran, cut>>

\* A reconciler knows what became of the action, or nobody does.
Reconciled(s) ==
  /\ drv[s].pc = "reconciling" /\ ~req[s].hit
  /\ locks' = Released(s, drv[s].act)
  /\ \E plan \in {"loop", "stop"} : Goes(s, [At(s, "observing") EXCEPT !.plan = plan])
  /\ UNCHANGED World

-----------------------------------------------------------------------------
(* _observe and plan_recovery.  `plan' is "loop" after a success.            *)

Around(s) == [At(s, "top") EXCEPT !.act = NoAction, !.conf = FALSE, !.steps = 0]

\* The task goes on, is done, or gives way to the next one; the evaluator is
\* missing; or it finds the task failed.
Evaluate(s) ==
  /\ drv[s].pc = "observing" /\ ~req[s].hit /\ drv[s].plan = "loop"
  /\ \/ /\ \E done \in BOOLEAN : Commit(s, [drv[s].mem EXCEPT !.done = done], Around(s))
        /\ UNCHANGED <<seen, ran, cut, locks>>
     \/ /\ Commit(s, [drv[s].mem EXCEPT !.done = FALSE, !.tries = 0], Around(s))
        /\ NextTask(s)
        /\ UNCHANGED locks
     \/ Settle(s, Failed(drv[s].mem), "tail") /\ UNCHANGED <<seen, ran, cut>>
     \/ /\ Goes(s, [At(s, "observing") EXCEPT !.plan = "stop", !.mem.done = FALSE])
        /\ UNCHANGED <<seen, ran, cut, locks>>
  /\ UNCHANGED <<rule, consent>>

\* The spent attempt is committed before the recovery is carried out.
PlanRecovery(s) ==
  /\ drv[s].pc = "observing" /\ ~req[s].hit /\ drv[s].plan = "stop"
  /\ \E plan \in {"retry", "ask", "stop"} :
       LET m == drv[s].mem
       IN Commit(s, Spent(m, plan), [At(s, "planned") EXCEPT !.plan = Allowed(m, plan)])
  /\ UNCHANGED <<locks, World>>

Recover(s) ==
  /\ drv[s].pc = "planned" /\ ~req[s].hit
  /\ \/ drv[s].plan = "ask" /\ Settle(s, Waiting(drv[s].mem), "tail")
     \/ drv[s].plan = "stop" /\ Settle(s, Failed(drv[s].mem), "tail")
     \/ /\ drv[s].plan = "retry"
        /\ \E a \in Proposals : Goes(s, TakesUp(s, a))
        /\ UNCHANGED locks
  /\ UNCHANGED World

\* The event sink is done with the last event of the run.
Return(s) ==
  /\ drv[s].pc \in {"leaving", "tail"} /\ ~req[s].hit
  /\ Gone(s)
  /\ UNCHANGED <<store, ctl, locks, World>>

-----------------------------------------------------------------------------
(* Cancellation of the driver's task.                                        *)

\* The places a commit leads to: with a threaded store the cancellation may
\* strike in the commit, which the thread still carries out.
Committed == {"deciding", "top", "planned", "tail"}

\* What the executor undoes on its way out: also the record of a tool that has
\* succeeded, while that is being told.  A lock whose acquisition is still being
\* announced is not yet among it.
Unwind(s) ==
  /\ \/ locks' = IF drv[s].pc \in {"tool", "announcing", "reconciling"}
                 THEN Released(s, drv[s].act) ELSE locks
     \/ /\ drv[s].pc = "checking"
        /\ Verdict(s, What(s)) # "deny" /\ CanLock(s, drv[s].act)
        /\ locks' = Locked(s, drv[s].act)
  /\ seen' = IF drv[s].pc \in {"tool", "announcing"} THEN Forgotten(s) ELSE seen
  /\ cut' = IF drv[s].pc = "announcing" THEN [cut EXCEPT ![s] = @ \cup {What(s)}] ELSE cut
  /\ UNCHANGED <<rule, consent, ran>>

\* A requested cancellation settles the session as cancelled.
HandleCancel(s) ==
  /\ req[s].hit /\ req[s].cancel /\ drv[s].pc \in Active /\ ~drv[s].handling
  /\ LET m == Cancelled(drv[s].mem) IN
       \/ IF drv[s].fresh
          THEN /\ store' = [store EXCEPT ![s] = Snapshot(m)]
               /\ ctl' = [ctl EXCEPT ![s].fresh = FALSE]
               /\ drv' = [drv EXCEPT ![s] = [At(s, "tail") EXCEPT !.mem = m, !.act = NoAction,
                                                                  !.handling = TRUE]]
               /\ req' = [req EXCEPT ![s].hit = FALSE]
          ELSE Gone(s) /\ UNCHANGED <<store, ctl>>
       \/ Threaded /\ drv[s].pc \in Committed /\ Gone(s) /\ UNCHANGED <<store, ctl>>
  /\ Unwind(s)

\* Any other cancellation, or one more while settling, ends the driver.
DieCancelled(s) ==
  /\ req[s].hit
  /\ ~req[s].cancel \/ drv[s].handling
  /\ Gone(s)
  /\ Unwind(s)
  /\ UNCHANGED <<store, ctl>>

-----------------------------------------------------------------------------
(* pause and cancel: a request to the active driver, or a settlement of its  *)
(* own from a loaded snapshot.                                               *)

IsActive(s) == drv[s].pc \in Active

RequestPause(s) ==
  /\ IsActive(s) /\ ~req[s].pause
  /\ req' = [req EXCEPT ![s].pause = TRUE]
  /\ UNCHANGED <<store, drv, ctl, locks, World>>

RequestCancel(s) ==
  /\ IsActive(s)
  /\ req' = [req EXCEPT ![s].cancel = TRUE, ![s].hit = TRUE]
  /\ UNCHANGED <<store, drv, ctl, locks, World>>

\* The caller of run or resume is itself cancelled: a lost work lease, a closed request.
CancelCaller(s) ==
  /\ ~Free(s) /\ ~req[s].hit
  /\ req' = [req EXCEPT ![s].hit = TRUE]
  /\ UNCHANGED <<store, drv, ctl, locks, World>>

LoadForControl(s, op) ==
  /\ ~IsActive(s) /\ ctl[s].op = "none"
  /\ store[s].status \notin {"none"} \cup Terminal
  /\ ctl' = [ctl EXCEPT ![s] = [op |-> op, mem |-> store[s], fresh |-> TRUE]]
  /\ UNCHANGED <<store, drv, req, locks, World>>

SettleControl(s) ==
  /\ ctl[s].op # "none"
  /\ IF ctl[s].fresh
     THEN /\ store' = [store EXCEPT ![s] = IF ctl[s].op = "pause" THEN Waiting(ctl[s].mem)
                                           ELSE Cancelled(ctl[s].mem)]
          /\ drv' = [drv EXCEPT ![s].fresh = FALSE]
     ELSE UNCHANGED <<store, drv>>
  /\ ctl' = [ctl EXCEPT ![s] = NoCall]
  /\ UNCHANGED <<req, locks, World>>

\* The process starts again, perhaps with other policies.
Restart ==
  /\ drv' = [s \in Sessions |-> NoDriver]
  /\ req' = [s \in Sessions |-> NoRequest]
  /\ ctl' = [s \in Sessions |-> NoCall]
  /\ locks' = [r \in Resources |-> Unlocked]
  /\ seen' = [s \in Sessions |-> {}]
  /\ ran' = [s \in Sessions |-> {}]
  /\ cut' = [s \in Sessions |-> {}]
  /\ rule' \in [Proposals -> Rules]
  /\ UNCHANGED <<store, consent>>

-----------------------------------------------------------------------------
DriverStep(s) ==
  \/ EnterLoop(s) \/ EnterConfirmed(s) \/ EnterRejected(s) \/ EnterRefused(s)
  \/ Activate(s)
  \/ LoopTop(s) \/ Decide(s) \/ Drive(s)
  \/ Refuse(s) \/ Reconcile(s) \/ AskConfirmation(s) \/ StartTool(s)
  \/ ToolSucceeds(s) \/ Announced(s) \/ ToolFails(s) \/ Reconciled(s)
  \/ Evaluate(s) \/ PlanRecovery(s) \/ Recover(s)
  \/ Return(s)
  \/ HandleCancel(s) \/ DieCancelled(s)

Caller(s) ==
  \/ Run(s)
  \/ \E confirmed \in {"yes", "no", "unset"} : Resume(s, confirmed)
  \/ Continue(s)
  \/ RequestPause(s) \/ RequestCancel(s) \/ CancelCaller(s)
  \/ \E op \in {"pause", "cancel"} : LoadForControl(s, op)
  \/ SettleControl(s)

Next == Restart \/ \E s \in Sessions : Caller(s) \/ DriverStep(s)

Spec == Init /\ [][Next]_vars

\* The event loop runs every task that can go on; models, tools (under their
\* timeout) and stores answer.
LiveSpec == Spec /\ \A s \in Sessions : WF_vars(DriverStep(s))

-----------------------------------------------------------------------------
(* Properties.                                                               *)

\* Every variable stays in its type: iterations and recovery attempts stay
\* within their budgets wherever a session is stored, run or loaded.
SessionTypeOK ==
  /\ store \in [Sessions -> StateType]
  /\ drv \in [Sessions -> DriverType]
  /\ req \in [Sessions -> RequestType]
  /\ ctl \in [Sessions -> CallType]
  /\ locks \in [Resources -> LockType]
  /\ seen \in [Sessions -> SUBSET Proposals]
  /\ rule \in [Proposals -> Rules]
  /\ consent \in [Sessions -> SUBSET Proposals]
  /\ ran \in [Sessions -> SUBSET Proposals]
  /\ cut \in [Sessions -> SUBSET Proposals]

\* The session's driver is using the resource: its tool runs or has just run, or
\* what became of an earlier run is being found out.
Uses(s, r) == drv[s].pc \in {"tool", "announcing", "reconciling"} /\ ResourceOf[What(s)] = r

\* ActionExecutor.execute: two sessions never work on one resource at a time,
\* however confirmations, rejections, cancellations and restarts interleave.
OneToolPerResource ==
  \A r \in Resources : \A s, t \in Sessions : Uses(s, r) /\ Uses(t, r) => s = t

Starts(s) == drv[s].pc # "tool" /\ drv'[s].pc = "tool"

\* The policy gate before every tool call: a tool starts only on an action that
\* the policies in force do not deny, and one they want confirmed only if the
\* user confirmed that very action in this session at some time, be it before a
\* pause, a recovery or a restart.
ConsentGate ==
  [][\A s \in Sessions : Starts(s) =>
       /\ rule[drv'[s].act.what] # "deny"
       /\ rule[drv'[s].act.what] = "confirm" => drv'[s].act.what \in consent[s]]_vars

\* Successes of the task that are still on record.
Told(s) == ran[s] \ cut[s]

\* The idempotency record: within one task and one process, a side effect that
\* succeeded is not carried out again by a recovery, a new decision or a resume,
\* unless its driver was cancelled while it told of that very success: then the
\* code forgets the record (actions.py:384-386), and a resume runs the tool again.
RunsOnce ==
  [][\A s \in Sessions :
       Starts(s) /\ Mutates(drv'[s].act.what) => drv'[s].act.what \notin Told(s)]_vars

\* The version check of the store: no writer with an older snapshot brings a
\* terminal session back; only continue_session reopens it.
TerminalStaysPut ==
  [][\A s \in Sessions :
       store[s].status \in Terminal /\ store'[s].status \notin Terminal
         => drv[s].pc = "entering" /\ drv[s].plan = "continue"]_vars

\* max_iterations and max_recovery_steps: every call that drives a session
\* returns, whatever the model proposes and however often the tools fail.
RunEnds == \A s \in Sessions : drv[s].pc # "none" ~> drv[s].pc = "none"

\* "cannot cancel a terminal session": a session that was stored as completed
\* does not become a cancelled one.
TerminalIsFinal ==
  [][\A s \in Sessions :
       store[s].status = "completed" => store'[s].status # "cancelled"]_vars

\* "Release a pending confirmation lock after rejection or cancellation": when a
\* session that waits for a confirmation is cancelled, the lock that was taken for
\* the pending action is let go.
CancelReleasesPending ==
  [][\A s \in Sessions :
       /\ drv[s].pc = "none" /\ store[s].status = "waiting" /\ store[s].pending # NoAction
       /\ store'[s].status = "cancelled"
       => \A r \in Resources : locks'[r] # LockOf(s, store[s].pending)]_vars

=============================================================================
