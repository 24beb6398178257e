----------------------------- MODULE SessionWork -----------------------------
(***************************************************************************)
(* The work handlers of service/distributed_runtime.py: how queued work      *)
(* items drive the sessions of the session store, each under the session's   *)
(* lock in LockRegistry.                                                     *)
(*                                                                         *)
(* A driver is a run of a worker or the user, who calls the runtime of       *)
(* another process directly and takes no session lock.  What a driver read   *)
(* or loaded it uses in a later step: `fresh' says that the snapshot it      *)
(* loaded is still the stored one.  The queue is the one of WorkLifecycle,   *)
(* where a lease may lapse at any time; an attempt is named by its number.   *)
(* What a session does once it is driven is arbitrary (AgentSession).        *)
(***************************************************************************)
EXTENDS LockRegistry

CONSTANTS
  Jobs,          \* work items
  Kinds,         \* the kinds an item may be scheduled as
  SessionOf,     \* the session an item is for
  Runs,          \* calls of run_once in progress
  User,          \* a driver that is no run
  Budget,        \* max_attempts of each item
  MaxActs,       \* bound: actions a session asks to have confirmed
  MaxTasks,      \* bound: tasks a session goes through
  PunctualLocks  \* assumption on time: a lock is renewed before it lapses

Sessions == LockKeys

Drivers == Runs \cup {User}

ASSUME WorkAssumption ==
  /\ Kinds \in [Jobs -> SUBSET {"agent_session", "task", "tool_action", "agent_goal"}]
  /\ SessionOf \in [Jobs -> Sessions]
  /\ User \notin Runs
  /\ Budget \in [Jobs -> Nat \ {0}]
  /\ MaxActs \in Nat
  /\ MaxTasks \in Nat \ {0}
  /\ Owners = UNION {{j} \X (1..Budget[j]) : j \in Jobs}
  /\ PunctualLocks \in BOOLEAN

VARIABLES
  work,      \* the work items
  sess,      \* the stored sessions
  drv,       \* the drivers
  settled    \* history: actions a run carried out before it committed what came of them

svars == <<locks, grants, work, sess, drv, settled>>

Ended == {"completed", "failed", "cancelled"}

NoItem == [stage |-> "absent", kind |-> "none", tries |-> 0, task |-> 0, act |-> 0]

\* `acts' counts the actions the session has asked to have confirmed.
NewSession == [status |-> "none", pending |-> 0, acts |-> 0, task |-> 1]

Snapshots == [status : {"none", "running", "waiting"} \cup Ended,
              pending : 0..MaxActs, acts : 0..MaxActs, task : 1..MaxTasks]

\* What a driver works on, whether its snapshot is still the stored one, the
\* confirmation it gives, its confirmed action, whether it carried it out, and
\* whether its handler was cancelled and is awaited.
NoWork == [job |-> 0, try |-> 0, to |-> 0, lock |-> 0]
Idle == [pc |-> "idle", on |-> NoWork, fresh |-> FALSE, conf |-> "unset", act |-> 0,
         did |-> FALSE, asked |-> FALSE, result |-> "none"]

Places == {"idle", "taken", "admitted", "locked", "loaded", "driving", "releasing", "ended"}
Results == {"none", "completed", "failed", "retry"}

WorkInit ==
  /\ LockInit
  /\ work = [j \in Jobs |-> NoItem]
  /\ sess = [s \in Sessions |-> NewSession]
  /\ drv = [d \in Drivers |-> Idle]
  /\ settled = [s \in Sessions |-> {}]

Goes(d, place) == drv' = [drv EXCEPT ![d].pc = place]

\* The handler has its result; what is left is to release and to report.  Whatever a
\* cancelled handler came to, its attempt failed.
Left(d, place, result) ==
  IF d = User THEN Idle
  ELSE [drv[d] EXCEPT !.pc = place, !.asked = FALSE,
                      !.result = IF drv[d].asked THEN "retry" ELSE result]

Gets(d, place, result) == drv' = [drv EXCEPT ![d] = Left(d, place, result)]

\* The owner id a run takes the lock under: its item and the lease it has of it.
OwnerOf(d) == <<drv[d].on.job, drv[d].on.try>>

To(d) == drv[d].on.to

Stored(d) == sess[To(d)]

-----------------------------------------------------------------------------
(* The queue, as its clients see it.                                         *)

Leased(d) ==
  LET on == drv[d].on IN work[on.job].stage = "leased" /\ work[on.job].tries = on.try

\* schedule_session, schedule_task, schedule_goal; schedule_action and
\* schedule_pending_actions name the action the session asks to have confirmed.
Schedule(j, kind) ==
  /\ work[j].stage = "absent"
  /\ kind \in Kinds[j]
  /\ LET s == sess[SessionOf[j]] IN
       /\ kind # "agent_goal" => s.status # "none"
       /\ kind = "tool_action" => s.pending # 0
       /\ work' = [work EXCEPT ![j] = [stage |-> "queued", kind |-> kind, tries |-> 0,
                                       task |-> s.task, act |-> s.pending]]
  /\ UNCHANGED <<locks, grants, sess, drv, settled>>

Take(d, j) ==
  /\ drv[d].pc = "idle" /\ d # User
  /\ work[j].stage = "queued"
  /\ work' = [work EXCEPT ![j].stage = "leased", ![j].tries = @ + 1]
  /\ drv' = [drv EXCEPT ![d] = [Idle EXCEPT !.pc = "taken",
               !.on = [job |-> j, try |-> work[j].tries + 1, to |-> SessionOf[j], lock |-> 0],
               !.conf = IF work[j].kind = "tool_action" THEN "yes" ELSE "unset"]]
  /\ UNCHANGED <<locks, grants, sess, settled>>

\* Variant: one attempt too many.
RequeuedOnceMore(j) == IF work[j].tries <= Budget[j] THEN "queued" ELSE "failed"

\* One more attempt, as long as the budget lasts.
Requeued(j) == IF work[j].tries < Budget[j] THEN "queued" ELSE "failed"

Lapse(j) ==
  /\ work[j].stage = "leased"
  /\ work' = [work EXCEPT ![j].stage = Requeued(j)]
  /\ UNCHANGED <<locks, grants, sess, drv, settled>>

\* A report from a run whose lease is gone changes nothing.
Report(d) ==
  /\ drv[d].pc = "ended" /\ d # User
  /\ drv' = [drv EXCEPT ![d] = Idle]
  /\ IF Leased(d)
     THEN work' = [work EXCEPT ![drv[d].on.job].stage =
                     IF drv[d].result = "retry" THEN Requeued(drv[d].on.job)
                     ELSE drv[d].result]
     ELSE UNCHANGED work
  /\ UNCHANGED <<locks, grants, sess, settled>>

-----------------------------------------------------------------------------
(* The handlers up to the lock: a first look at the session.                 *)

Named(d) == work[drv[d].on.job]

Kind(d) == Named(d).kind

\* _handle_session_work, _handle_task_work and _handle_action_work, in their order.
Look(d) ==
  LET s == Stored(d)
      settles == s.status \in Ended
      waits == s.status = "waiting"
  IN CASE Kind(d) = "agent_session" ->
            IF s.pending # 0 THEN "failed" ELSE IF settles THEN "completed"
            ELSE IF waits THEN "go" ELSE "retry"
       [] Kind(d) = "task" ->
            IF s.task # Named(d).task \/ s.pending # 0 THEN "failed"
            ELSE IF settles THEN "completed" ELSE IF waits THEN "go" ELSE "retry"
       [] Kind(d) = "tool_action" ->
            IF s.pending = 0 \/ s.task # Named(d).task \/ s.pending # Named(d).act
            THEN "failed" ELSE IF waits THEN "go" ELSE "retry"

HandleWork(d) ==
  /\ drv[d].pc = "taken" /\ Kind(d) # "agent_goal"
  /\ IF Look(d) = "go" THEN Goes(d, "admitted") ELSE Gets(d, "ended", Look(d))
  /\ UNCHANGED <<locks, grants, work, sess, settled>>

\* _handle_goal_work: run_goal creates a session, in every attempt, and drives it
\* under no session lock.
HandleGoal(d) ==
  /\ drv[d].pc = "taken" /\ Kind(d) = "agent_goal"
  /\ \E s \in Sessions :
       /\ sess[s].status = "none"
       /\ sess' = [sess EXCEPT ![s].status = "running"]
       /\ drv' = [drv EXCEPT ![d].pc = "driving", ![d].on.to = s, ![d].fresh = TRUE]
  /\ UNCHANGED <<locks, grants, work, settled>>

\* Variant: the lock is taken whoever holds it.
LockSessionAnyway(d) ==
  /\ drv[d].pc = "admitted"
  /\ AcquireAny(OwnerOf(d), To(d))
  /\ drv' = [drv EXCEPT ![d].pc = "locked", ![d].on.lock = NextGrant]
  /\ UNCHANGED <<work, sess, settled>>

\* _with_session_lock; a conflict is worth another attempt.
LockSession(d) ==
  /\ drv[d].pc = "admitted"
  /\ \/ /\ AcquireFree(OwnerOf(d), To(d))
        /\ drv' = [drv EXCEPT ![d].pc = "locked", ![d].on.lock = NextGrant]
     \/ /\ AcquireConflict(OwnerOf(d), To(d))
        /\ Gets(d, "ended", "retry")
  /\ UNCHANGED <<work, sess, settled>>

-----------------------------------------------------------------------------
(* Driving: Agent.resume, then the run loop.                                 *)

\* A commit by d: every other snapshot of the session is old now.
Stale(d) ==
  [c \in Drivers |-> IF c # d /\ To(c) = To(d) THEN [drv[c] EXCEPT !.fresh = FALSE] ELSE drv[c]]

Commits(d, m, next) ==
  /\ sess' = [sess EXCEPT ![To(d)] = m]
  /\ drv' = [Stale(d) EXCEPT ![d] = next]

\* resume loads the session and looks at it again.
Load(d) ==
  /\ drv[d].pc = "locked" /\ ~drv[d].asked
  /\ LET s == Stored(d) IN
       IF s.status # "waiting" \/ (s.pending = 0 /\ drv[d].conf # "unset")
       THEN Gets(d, "releasing", "failed") /\ UNCHANGED sess
       ELSE IF s.pending # 0 /\ drv[d].conf = "unset"
       THEN Commits(d, [s EXCEPT !.status = "failed", !.pending = 0], Left(d, "releasing", "failed"))
       ELSE /\ drv' = [drv EXCEPT ![d].pc = "loaded", ![d].fresh = TRUE,
                         ![d].act = IF drv[d].conf = "yes" THEN s.pending ELSE 0]
            /\ UNCHANGED sess
  /\ UNCHANGED <<locks, grants, work, settled>>

\* The first commit; a version conflict is raised and retried.  A rejected action
\* is no longer pending.  A handler that is cancelled meanwhile has committed, and stops.
Begin(d) ==
  /\ drv[d].pc = "loaded"
  /\ IF drv[d].fresh
     THEN Commits(d, [Stored(d) EXCEPT !.status = "running",
                               !.pending = IF drv[d].conf = "no" THEN 0 ELSE @],
                  IF drv[d].asked THEN Left(d, "releasing", "retry")
                  ELSE [drv[d] EXCEPT !.pc = "driving"])
     ELSE Gets(d, "releasing", "retry") /\ UNCHANGED sess
  /\ UNCHANGED <<locks, grants, work, settled>>

\* The confirmed action is carried out.
Perform(d) ==
  /\ drv[d].pc = "driving" /\ drv[d].act # 0 /\ ~drv[d].did
  /\ drv' = [drv EXCEPT ![d].did = TRUE]
  /\ UNCHANGED <<locks, grants, work, sess, settled>>

\* How a driven session may be left: ended, waiting, or waiting for a confirmation.
\* The bounds are those of Snapshots.
Outcomes(s) ==
  {m \in Snapshots :
     \/ /\ m.status \in Ended \cup {"waiting"} /\ m.pending = 0
        /\ m.task \in {s.task, s.task + 1} /\ m.acts = s.acts
     \/ /\ m.status = "waiting" /\ m.pending = m.acts
        /\ m.task = s.task /\ m.acts = s.acts + 1}

Settle(d) ==
  /\ drv[d].pc = "driving"
  /\ IF drv[d].fresh
     THEN /\ \E m \in Outcomes(Stored(d)) :
               Commits(d, m, Left(d, "releasing", IF m.status = "failed" THEN "failed" ELSE "completed"))
          /\ settled' = IF d # User /\ drv[d].did
                        THEN [settled EXCEPT ![To(d)] = @ \cup {drv[d].act}] ELSE settled
     ELSE Gets(d, "releasing", "retry") /\ UNCHANGED <<sess, settled>>
  /\ UNCHANGED <<locks, grants, work>>

-----------------------------------------------------------------------------
(* The lock while the handler runs, and the way out.                         *)

Working(d) == drv[d].pc \in {"locked", "loaded", "driving"}

\* Its session lock is heartbeated for.
UnderLock(d) == Working(d) /\ drv[d].on.lock # 0 /\ ~drv[d].asked

\* The handler is cancelled and awaited.  A commit under way in a thread may still come
\* about, and a tool may ignore its cancellation: then the session is driven on.
Cancels(d) == drv' = [drv EXCEPT ![d].asked = TRUE]

\* _run_with_session_lock_heartbeat: a lost lock cancels the handler.
BeatLock(d) ==
  /\ UnderLock(d)
  /\ \/ HeartbeatLock(OwnerOf(d), drv[d].on.lock, To(d)) /\ UNCHANGED drv
     \/ LockLost(OwnerOf(d), drv[d].on.lock) /\ Cancels(d)
  /\ UNCHANGED <<work, sess, settled>>

\* The worker's own heartbeat finds the work lease gone and cancels the handler.
LoseLease(d) ==
  /\ drv[d].pc \in {"taken", "admitted", "locked", "loaded", "driving"} /\ d # User
  /\ ~Leased(d) /\ ~drv[d].asked
  /\ IF Working(d) THEN Cancels(d) ELSE Gets(d, "ended", "retry")
  /\ UNCHANGED <<locks, grants, work, sess, settled>>

\* The cancelled handler gives up.
Unwind(d) ==
  /\ Working(d) /\ drv[d].asked
  /\ Gets(d, "releasing", "retry")
  /\ UNCHANGED <<locks, grants, work, sess, settled>>

\* Variant: the lock is kept when the handler did not complete.
ReleaseIfCompleted(d) ==
  /\ drv[d].pc = "releasing"
  /\ IF drv[d].on.lock # 0 /\ drv[d].result = "completed"
     THEN Release(OwnerOf(d), drv[d].on.lock, To(d)) \/ LockLost(OwnerOf(d), drv[d].on.lock)
     ELSE UNCHANGED <<locks, grants>>
  /\ Goes(d, "ended")
  /\ UNCHANGED <<work, sess, settled>>

ReleaseSession(d) ==
  /\ drv[d].pc = "releasing"
  /\ IF drv[d].on.lock # 0
     THEN Release(OwnerOf(d), drv[d].on.lock, To(d)) \/ LockLost(OwnerOf(d), drv[d].on.lock)
     ELSE UNCHANGED <<locks, grants>>
  /\ Goes(d, "ended")
  /\ UNCHANGED <<work, sess, settled>>

\* The process dies: nothing is committed, released or reported.
Crash(d) ==
  /\ drv[d].pc # "idle" /\ d # User
  /\ drv' = [drv EXCEPT ![d] = Idle]
  /\ UNCHANGED <<locks, grants, work, sess, settled>>

-----------------------------------------------------------------------------
(* The user of another process: run_goal, resume_session, pause_session and  *)
(* cancel_session.  A control call that is overtaken by a commit conflicts   *)
(* and changes nothing, so the load and the commit are one step.             *)

UserRuns(s) ==
  /\ drv[User].pc = "idle" /\ sess[s].status = "none"
  /\ sess' = [sess EXCEPT ![s].status = "running"]
  /\ drv' = [drv EXCEPT ![User] = [Idle EXCEPT !.pc = "driving", !.on.to = s, !.fresh = TRUE]]
  /\ UNCHANGED <<locks, grants, work, settled>>

UserResumes(s, conf) ==
  /\ drv[User].pc = "idle"
  /\ sess[s].status = "waiting"
  /\ (sess[s].pending = 0) = (conf = "unset")
  /\ drv' = [drv EXCEPT ![User] = [Idle EXCEPT !.pc = "loaded", !.on.to = s, !.fresh = TRUE,
                 !.conf = conf, !.act = IF conf = "yes" THEN sess[s].pending ELSE 0]]
  /\ UNCHANGED <<locks, grants, work, sess, settled>>

UserControls(s, status) ==
  /\ sess[s].status \in {"running", "waiting"}
  /\ sess' = [sess EXCEPT ![s].status = status,
                          ![s].pending = IF status = "cancelled" THEN 0 ELSE @]
  /\ drv' = [d \in Drivers |-> IF To(d) = s THEN [drv[d] EXCEPT !.fresh = FALSE] ELSE drv[d]]
  /\ UNCHANGED <<locks, grants, work, settled>>

\* Nothing a run heartbeats for is about to lapse.
LocksInTime ==
  \A d \in Runs : UnderLock(d) /\ Usable(OwnerOf(d), drv[d].on.lock, To(d)) => locks[To(d)].left > 1

Time ==
  /\ PunctualLocks => LocksInTime
  /\ LockTick \/ ExpireLocks
  /\ UNCHANGED <<work, sess, drv, settled>>

DriverNext(d) ==
  \/ \E j \in Jobs : Take(d, j)
  \/ Report(d) \/ HandleWork(d) \/ HandleGoal(d) \/ LockSession(d)
  \/ Load(d) \/ Begin(d) \/ Perform(d) \/ Settle(d)
  \/ BeatLock(d) \/ LoseLease(d) \/ Unwind(d) \/ ReleaseSession(d) \/ Crash(d)

UserNext(s) ==
  \/ UserRuns(s)
  \/ \E conf \in {"unset", "yes", "no"} : UserResumes(s, conf)
  \/ \E status \in {"waiting", "cancelled"} : UserControls(s, status)

WorkNext ==
  \/ \E j \in Jobs : Lapse(j) \/ \E kind \in Kinds[j] : Schedule(j, kind)
  \/ \E d \in Drivers : DriverNext(d)
  \/ \E s \in Sessions : UserNext(s)
  \/ Time

WorkSpec == WorkInit /\ [][WorkNext]_svars

-----------------------------------------------------------------------------
WorkTypeOK ==
  /\ LockTypeOK
  /\ \A j \in Jobs :
       work[j] \in [stage : {"absent", "queued", "leased"} \cup Ended,
                    kind : {"none"} \cup Kinds[j], tries : 0..Budget[j],
                    task : 0..MaxTasks, act : 0..MaxActs]
  /\ sess \in [Sessions -> Snapshots]
  /\ \A d \in Drivers : drv[d].pc \in Places /\ drv[d].result \in Results
  /\ settled \in [Sessions -> SUBSET (1..MaxActs)]

\* A goal item's run, and one that goes on after its cancellation, with its lock lapsed.
Unlocked(d) == drv[d].on.lock = 0

Overstays(d) == drv[d].asked /\ ~Usable(OwnerOf(d), drv[d].on.lock, To(d))

(* The session execution lock: two runs drive a session at the same time only  *)
(* if one works on a goal item, for which the code takes no lock, or goes on   *)
(* after its cancellation until its lock has lapsed; and of all that drive a   *)
(* session, these and the user included, one at most has a snapshot that it    *)
(* may commit.  So it is however leases lapse, users pause what runs, and      *)
(* processes die, as long as the lock is renewed in time.                     *)
OneWorkerPerSession ==
  /\ \A c, d \in Runs :
       c # d /\ Working(c) /\ Working(d) /\ To(c) = To(d) =>
         \E r \in {c, d} : Unlocked(r) \/ Overstays(r)
  /\ \A c, d \in Drivers :
       /\ drv[c].pc = "driving" /\ drv[c].fresh
       /\ drv[d].pc = "driving" /\ drv[d].fresh
       /\ To(c) = To(d)
       => c = d

(* The `finally' of _with_session_lock: an attempt that has come to its end   *)
(* by any way but the death of its process leaves no session locked.         *)
NoLockLeftBehind ==
  \A d \in Runs : drv[d].pc = "ended" => \A s \in Sessions : locks[s].owner # OwnerOf(d)

(* A confirmed action that one work item has carried out, and whose outcome   *)
(* reached the store, is not carried out again by another item or attempt,    *)
(* whatever each of them read of the session before it got the lock.  Left out *)
(* is a tool that ignores its cancellation until the lock has lapsed.         *)
SettledOnce ==
  [][\A d \in Runs :
       (~drv[d].did /\ drv'[d].did) => drv[d].act \notin settled[To(d)] \/ Overstays(d)]_svars

=============================================================================
