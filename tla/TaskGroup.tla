------------------------------- MODULE TaskGroup -------------------------------
(***************************************************************************)
(* CancellableTaskGroup.run (coordination/concurrency.py): coroutines run as  *)
(* guarded asyncio tasks, at most Limit of them past the semaphore; with      *)
(* cancel_on_error the first that fails aborts the others.                    *)
(*                                                                         *)
(* asyncio is modelled as it is used here.  A cancellation is a request that   *)
(* the task meets at its next step; a task that has not begun ends without     *)
(* its guard having run.  A semaphore serves its waiters in their order, and   *)
(* a newcomer waits when anybody does.  gather raises as soon as a task it     *)
(* waits for was cancelled, and cancels what it waits for when it is           *)
(* cancelled itself.                                                         *)
(***************************************************************************)
EXTENDS Integers, Sequences, FiniteSets, SequencesExt

CONSTANTS
  Coros,            \* 1..n, in the order they were given
  Limit,
  CancelOnError

ASSUME GroupAssumption ==
  /\ Coros \subseteq Nat
  /\ Limit \in Nat \ {0}
  /\ CancelOnError \in BOOLEAN

VARIABLES
  guard,     \* where each guarded task is
  asked,     \* tasks with a cancellation they have yet to meet
  queue,     \* the semaphore's waiters, in order
  abort,
  runner,    \* run(): waiting, draining, returned or raised
  stopped    \* run() was cancelled from outside

cvars == <<guard, asked, queue, abort, runner, stopped>>

\* A result was returned, or the task was cancelled: with its coroutine closed, or
\* with the coroutine never looked at.
WithResult == {"ok", "error", "aborted"}
Done == WithResult \cup {"cancelled", "untouched"}

GroupInit ==
  /\ guard = [c \in Coros |-> "fresh"]
  /\ asked = {}
  /\ queue = <<>>
  /\ abort = FALSE
  /\ runner = "waiting"
  /\ stopped = FALSE

Undone == {c \in Coros : guard[c] \notin Done}
Inside == {c \in Coros : guard[c] = "running"}

\* Past the semaphore the guard looks at abort once more.
Entered == IF abort THEN "aborted" ELSE "running"

\* Variant: nobody waits.
BeginAtOnce(c) ==
  /\ guard[c] = "fresh"
  /\ \A b \in Coros : b < c => guard[b] # "fresh"
  /\ guard' = [guard EXCEPT ![c] = IF c \in asked THEN "untouched" ELSE Entered]
  /\ asked' = asked \ {c}
  /\ UNCHANGED <<queue, abort, runner, stopped>>

\* Tasks begin in the order they were created.
Begin(c) ==
  /\ guard[c] = "fresh"
  /\ \A b \in Coros : b < c => guard[b] # "fresh"
  /\ IF c \in asked
     THEN guard' = [guard EXCEPT ![c] = "untouched"] /\ UNCHANGED queue
     ELSE IF queue = <<>> /\ Cardinality(Inside) < Limit
     THEN guard' = [guard EXCEPT ![c] = Entered] /\ UNCHANGED queue
     ELSE guard' = [guard EXCEPT ![c] = "queued"] /\ queue' = Append(queue, c)
  /\ asked' = asked \ {c}
  /\ UNCHANGED <<abort, runner, stopped>>

\* Variant: a coroutine is started whatever became of the group.
AdmitAnyway ==
  /\ queue # <<>> /\ Cardinality(Inside) < Limit
  /\ guard' = [guard EXCEPT ![Head(queue)] = "running"]
  /\ queue' = Tail(queue)
  /\ UNCHANGED <<asked, abort, runner, stopped>>

Admit ==
  /\ queue # <<>> /\ Cardinality(Inside) < Limit /\ Head(queue) \notin asked
  /\ guard' = [guard EXCEPT ![Head(queue)] = Entered]
  /\ queue' = Tail(queue)
  /\ UNCHANGED <<asked, abort, runner, stopped>>

\* A waiter is cancelled: its coroutine is closed.
Withdraw(c) ==
  /\ guard[c] = "queued" /\ c \in asked
  /\ guard' = [guard EXCEPT ![c] = IF abort THEN "aborted" ELSE "cancelled"]
  /\ \E k \in DOMAIN queue : queue[k] = c /\ queue' = RemoveAt(queue, k)
  /\ asked' = asked \ {c}
  /\ UNCHANGED <<abort, runner, stopped>>

\* It may return although a cancellation is under way.
Return(c) ==
  /\ guard[c] = "running"
  /\ guard' = [guard EXCEPT ![c] = "ok"]
  /\ asked' = asked \ {c}
  /\ UNCHANGED <<queue, abort, runner, stopped>>

\* It may raise because of one.
Raise(c) ==
  /\ guard[c] = "running"
  /\ guard' = [guard EXCEPT ![c] = "error"]
  /\ abort' = (abort \/ CancelOnError)
  /\ asked' = IF CancelOnError THEN Undone \ {c} ELSE asked \ {c}
  /\ UNCHANGED <<queue, runner, stopped>>

Yield(c) ==
  /\ guard[c] = "running" /\ c \in asked
  /\ guard' = [guard EXCEPT ![c] = IF abort THEN "aborted" ELSE "cancelled"]
  /\ asked' = asked \ {c}
  /\ UNCHANGED <<queue, abort, runner, stopped>>

-----------------------------------------------------------------------------
\* run() is cancelled: gather passes it on.
StopRun ==
  /\ runner = "waiting" /\ ~stopped
  /\ stopped' = TRUE
  /\ asked' = asked \cup Undone
  /\ UNCHANGED <<guard, queue, abort, runner>>

\* gather raises: what is left is cancelled and waited for.
Drain ==
  /\ runner = "waiting" /\ \E c \in Coros : guard[c] \in {"cancelled", "untouched"}
  /\ runner' = "draining"
  /\ asked' = asked \cup Undone
  /\ UNCHANGED <<guard, queue, abort, stopped>>

EndRun ==
  /\ runner \in {"waiting", "draining"} /\ Undone = {}
  /\ runner = "waiting" => \A c \in Coros : guard[c] \in WithResult
  /\ runner' = IF runner = "draining" \/ stopped THEN "raised" ELSE "returned"
  /\ UNCHANGED <<guard, asked, queue, abort, stopped>>

GuardNext(c) == Begin(c) \/ Withdraw(c) \/ Return(c) \/ Raise(c) \/ Yield(c)

GroupNext ==
  \/ \E c \in Coros : GuardNext(c)
  \/ Admit \/ StopRun \/ Drain \/ EndRun

GroupSpec == GroupInit /\ [][GroupNext]_cvars

-----------------------------------------------------------------------------
GroupTypeOK ==
  /\ guard \in [Coros -> {"fresh", "queued", "running"} \cup Done]
  /\ asked \subseteq Undone
  /\ ToSet(queue) = {c \in Coros : guard[c] = "queued"}
  /\ abort \in BOOLEAN /\ stopped \in BOOLEAN
  /\ runner \in {"waiting", "draining", "returned", "raised"}

(* The semaphore's bound: no more than Limit coroutines run at a time, though  *)
(* waiters are cancelled, admitted and aborted in any order.                  *)
AtMostLimit == Cardinality(Inside) <= Limit

(* After the first failure of a group with cancel_on_error no coroutine is     *)
(* started, though it was already let past the semaphore.                     *)
NoStartAfterAbort ==
  [][abort => \A c \in Coros : guard[c] # "running" => guard'[c] # "running"]_cvars

=============================================================================
