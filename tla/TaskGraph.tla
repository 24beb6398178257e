------------------------------- MODULE TaskGraph -------------------------------
(***************************************************************************)
(* The tasks of one session: TaskManager (tasks/manager.py) as the runtime   *)
(* drives it (runtime/processing.py, runtime/transitions.py,                 *)
(* runtime/agent.py, runtime/session.py).                                    *)
(*                                                                         *)
(* Tasks are numbered in the order they were created; task 1 is the root.    *)
(* What the expanders propose and what the evaluator says of an observation   *)
(* is up to them.  The queue, the locks and the control calls around a run    *)
(* are those of AgentSession: here a step is a whole transition.              *)
(***************************************************************************)
EXTENDS Integers, Sequences

CONSTANTS
  MaxSteps,    \* lines a goal is split into, at most
  MaxGraph     \* bound: tasks of a session

ASSUME GraphAssumption == MaxSteps \in Nat /\ MaxGraph \in Nat /\ MaxSteps < MaxGraph

VARIABLES
  task,        \* the status of each task
  deps,        \* what each task depends on
  current,     \* the current task
  goal,        \* the status of the goal
  verdict,     \* the latest evaluation: the task, or the whole goal, is completed
  cont         \* is_continuation

gvars == <<task, deps, current, goal, verdict, cont>>

Settled == {"completed", "failed", "cancelled"}
TaskStatuses == {"pending", "running", "waiting"} \cup Settled
Verdicts == {"open", "task", "goal"}

Unfinished(t) == {i \in DOMAIN t : t[i] \notin Settled}

\* DefaultGoalCompiler.compile and _start_run: every step depends on the root.
GraphInit ==
  /\ \E steps \in 0..MaxSteps :
       /\ task = [i \in 1..(steps + 1) |-> IF i = 1 THEN "running" ELSE "pending"]
       /\ deps = [i \in 1..(steps + 1) |-> IF i = 1 THEN {} ELSE {1}]
  /\ current = 1
  /\ goal = "running"
  /\ verdict = "none"
  /\ cont = FALSE

\* Variant: a dependency need only be settled.
ReadySettled(t, ds) == {i \in DOMAIN t : t[i] = "pending" /\ \A j \in ds[i] : t[j] \in Settled}

\* start_next: the first pending task, in order, whose dependencies are completed.
Ready(t, ds) == {i \in DOMAIN t : t[i] = "pending" /\ \A j \in ds[i] : t[j] = "completed"}

Earliest(S) == CHOOSE i \in S : \A j \in S : i <= j

\* complete_all
AllCompleted(t) == [i \in DOMAIN t |-> IF t[i] \in Settled THEN t[i] ELSE "completed"]

\* expand: at most one new task for an observation, depending on tasks that exist.
Expansions ==
  {<<task, deps>>} \cup
  (IF Len(task) < MaxGraph                                         \* bound
   THEN {<<Append(task, "pending"), Append(deps, ds)>> : ds \in SUBSET DOMAIN task}
   ELSE {})

\* process: the tasks are expanded, the observation is evaluated, the graph moves on.
Observe(v) ==
  /\ goal = "running"
  /\ \E e \in Expansions :
       LET done == [e[1] EXCEPT ![current] = "completed"]
           ready == Ready(done, e[2])
       IN /\ deps' = e[2]
          /\ \/ v = "open" /\ task' = e[1] /\ UNCHANGED current
             \/ v = "goal" /\ task' = AllCompleted(done) /\ UNCHANGED current
             \/ v = "task" /\ ready = {} /\ task' = done /\ UNCHANGED current
             \/ v = "task" /\ ready # {} /\ current' = Earliest(ready)
                /\ task' = [done EXCEPT ![Earliest(ready)] = "running"]
  /\ verdict' = v
  /\ UNCHANGED <<goal, cont>>

\* finish: the model asks, the evaluation decides, except in a continuation.
Authorised == Unfinished(task) = {} /\ task[current] = "completed" /\ verdict = "goal"

Finish ==
  /\ goal = "running"
  /\ \/ cont /\ goal' = "completed" /\ task' = [task EXCEPT ![current] = "completed"]
     \/ ~cont /\ Authorised /\ goal' = "completed" /\ UNCHANGED task
     \/ ~cont /\ ~Authorised /\ goal' = "failed" /\ task' = [task EXCEPT ![current] = "failed"]
  /\ UNCHANGED <<deps, current, verdict, cont>>

\* fail, and pause: a question, a confirmation, a user's pause.
Stop(g) ==
  /\ goal = "running" \/ (goal = "waiting" /\ g = "failed")
  /\ goal' = g
  /\ task' = [task EXCEPT ![current] = g]
  /\ UNCHANGED <<deps, current, verdict, cont>>

\* resume works on a fresh copy of the stored session, which says nothing of cont.
Resume ==
  /\ goal = "waiting"
  /\ goal' = "running"
  /\ task' = [task EXCEPT ![current] = "running"]
  /\ cont' = FALSE
  /\ UNCHANGED <<deps, current, verdict>>

\* Variant: every task is cancelled.
CancelAll ==
  /\ goal \in {"running", "waiting"}
  /\ goal' = "cancelled"
  /\ task' = [i \in DOMAIN task |-> "cancelled"]
  /\ UNCHANGED <<deps, current, verdict, cont>>

Cancel ==
  /\ goal \in {"running", "waiting"}
  /\ goal' = "cancelled"
  /\ task' = [i \in DOMAIN task |-> IF task[i] \in Settled THEN task[i] ELSE "cancelled"]
  /\ UNCHANGED <<deps, current, verdict, cont>>

\* Variant: the message is the current task's business.
ContinueWithCurrent ==
  /\ goal \in {"completed", "failed", "cancelled"}
  /\ Len(task) < MaxGraph
  /\ task' = Append([task EXCEPT ![current] = "running"], "running")
  /\ deps' = Append(deps, {})
  /\ goal' = "running"
  /\ cont' = TRUE
  /\ UNCHANGED <<verdict, current>>

\* Variant: the seq of the message, counted from one, is taken for its place.
ContinueAtSeq ==
  /\ goal \in {"completed", "failed", "cancelled"}
  /\ Len(task) < MaxGraph
  /\ task' = Append(task, "running")
  /\ deps' = Append(deps, {})
  /\ current' = Len(task) + 2
  /\ goal' = "running"
  /\ cont' = TRUE
  /\ UNCHANGED verdict

\* continue_session: a task of its own for the user's message.
Continue ==
  /\ goal \in {"completed", "failed", "cancelled"}
  /\ Len(task) < MaxGraph                                          \* bound
  /\ task' = Append(task, "running")
  /\ deps' = Append(deps, {})
  /\ current' = Len(task) + 1
  /\ goal' = "running"
  /\ cont' = TRUE
  /\ UNCHANGED verdict

GraphNext ==
  \/ \E v \in Verdicts : Observe(v)
  \/ Finish \/ \E g \in {"waiting", "failed"} : Stop(g)
  \/ Resume \/ Cancel \/ Continue

GraphSpec == GraphInit /\ [][GraphNext]_gvars

-----------------------------------------------------------------------------
GraphTypeOK ==
  /\ Len(task) \in 1..MaxGraph /\ task \in Seq(TaskStatuses)
  /\ deps \in [DOMAIN task -> SUBSET (1..MaxGraph)]
  /\ \A i \in DOMAIN task : deps[i] \subseteq 1..(i - 1)
  /\ current \in DOMAIN task
  /\ goal \in {"running", "waiting"} \cup Settled
  /\ verdict \in Verdicts \cup {"none"}
  /\ cont \in BOOLEAN

Active == {i \in DOMAIN task : task[i] \in {"running", "waiting"}}

(* However runs pause, fail, are cancelled and continued, at most one task of  *)
(* a session is in progress, the current one, and none is once the goal is     *)
(* settled: start_next, set_current and mark_current_task leave no task behind. *)
OneActiveTask ==
  /\ Active \subseteq {current}
  /\ goal \in Settled => Active = {}

(* A task in progress has all it depends on completed, although completed and   *)
(* current tasks are set to waiting, running and failed again (start_next,     *)
(* pause, fail, resume).                                                     *)
DependenciesFirst == \A i \in Active : \A j \in deps[i] : task[j] = "completed"

(* What was settled before the current task began stays as it is: cancelling,   *)
(* completing the goal and continuing the session touch no settled task but     *)
(* the current one.                                                          *)
SettledTasksStay ==
  [][\A i \in DOMAIN task \ {current} : task[i] \in Settled => task'[i] = task[i]]_gvars

=============================================================================
