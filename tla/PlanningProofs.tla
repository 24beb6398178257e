---------------------------- MODULE PlanningProofs ----------------------------
(***************************************************************************)
(* What is proved of the tasks of a session, the task group and delegation to   *)
(* other agents.                                                            *)
(***************************************************************************)
EXTENDS TaskGraph, TaskGroup, Delegation, FiniteSetTheorems, SequenceTheorems, TLAPS

(* Every set of natural numbers has a least element.  The intervals below its *)
(* elements are finite sets, and these are well ordered by inclusion.          *)
LEMMA Least ==
  ASSUME NEW S \in SUBSET Nat, S # {}
  PROVE  \E n \in S : \A m \in S : n <= m
<1>. DEFINE Below == {0..n : n \in S}
<1>1. Below \subseteq FiniteSubsetsOf(Nat)
  <2>1. SUFFICES ASSUME NEW n \in S PROVE 0..n \in FiniteSubsetsOf(Nat)
    OBVIOUS
  <2>2. 0 \in Int /\ n \in Int /\ 0..n \subseteq Nat
    OBVIOUS
  <2>3. IsFiniteSet(0..n)
    BY <2>2, FS_Interval
  <2>. QED  BY <2>2, <2>3 DEF FiniteSubsetsOf
<1>2. Below # {}
  OBVIOUS
<1>. HIDE DEF Below
<1>3. PICK B \in Below : \A C \in Below : <<C, B>> \notin StrictSubsetOrdering(Nat)
  BY <1>1, <1>2, FS_StrictSubsetOrderingWellFounded, WFMin
<1>. USE DEF Below
<1>4. PICK n \in S : B = 0..n
  BY <1>3
<1>5. ASSUME NEW m \in S, m < n
      PROVE  FALSE
  <2>1. 0..m \subseteq 0..n /\ 0..m # 0..n
    BY <1>5
  <2>2. <<0..m, 0..n>> \in StrictSubsetOrdering(Nat)
    BY <2>1 DEF StrictSubsetOrdering
  <2>. QED  BY <1>3, <1>4, <2>2
<1>. QED  BY <1>5

-----------------------------------------------------------------------------
(* The task group.                                                          *)

\* The semaphore's waiters stand in line once each.
Lined ==
  /\ queue \in Seq(Coros)
  /\ \A j, k \in DOMAIN queue : queue[j] = queue[k] => j = k

GroupInv ==
  /\ GroupTypeOK /\ Lined
  /\ IsFiniteSet(Inside)
  /\ AtMostLimit

LEMMA GroupInvInit == GroupInit => GroupInv
<1>. SUFFICES ASSUME GroupInit PROVE GroupInv
  OBVIOUS
<1>1. queue = <<>> /\ queue \in Seq(Coros) /\ DOMAIN queue = {} /\ ToSet(queue) = {}
  BY DEF GroupInit, ToSet
<1>4. GroupTypeOK /\ Lined
  BY <1>1 DEF GroupInit, GroupTypeOK, Lined
<1>2. Inside = {}
  BY DEF GroupInit, Inside
<1>3. IsFiniteSet(Inside) /\ Cardinality(Inside) <= Limit
  BY <1>2, GroupAssumption, FS_EmptySet
<1>. QED  BY <1>3, <1>4 DEF GroupInv, AtMostLimit, GroupInit

LEMMA LineShape ==
  ASSUME Lined
  PROVE  /\ Len(queue) \in Nat /\ DOMAIN queue = 1..Len(queue)
         /\ \A k \in 1..Len(queue) : queue[k] \in Coros
         /\ \A j, k \in 1..Len(queue) : queue[j] = queue[k] => j = k
BY DEF Lined

LEMMA LineRemoved ==
  ASSUME Lined, NEW k \in DOMAIN queue, queue' = RemoveAt(queue, k)
  PROVE  Lined' /\ ToSet(queue)' = ToSet(queue) \ {queue[k]}
<1>1. Len(queue) \in Nat /\ DOMAIN queue = 1..Len(queue) /\ k \in 1..Len(queue)
  BY DEF Lined
<1>. DEFINE n == Len(queue)
            before == SubSeq(queue, 1, k - 1)
            after == SubSeq(queue, k + 1, n)
<1>2. /\ before \in Seq(Coros) /\ Len(before) = k - 1
      /\ \A i \in 1..(k - 1) : before[i] = queue[i]
  <2>1. \A i \in 1..(k - 1) : queue[i] \in Coros
    BY <1>1, LineShape
  <2>2. 1 \in Int /\ k - 1 \in Int /\ k - 1 >= 0
    BY <1>1
  <2>3. /\ SubSeq(queue, 1, k - 1) \in Seq(Coros)
        /\ Len(SubSeq(queue, 1, k - 1)) = IF 1 <= k - 1 THEN k - 1 - 1 + 1 ELSE 0
        /\ \A i \in 1..(k - 1 - 1 + 1) : SubSeq(queue, 1, k - 1)[i] = queue[1 + i - 1]
    BY <2>1, <2>2, SubSeqProperties
  <2>. QED  BY <1>1, <2>3
<1>3. /\ after \in Seq(Coros) /\ Len(after) = n - k
      /\ \A i \in 1..(n - k) : after[i] = queue[k + i]
  <2>1. \A i \in (k + 1)..n : queue[i] \in Coros
    BY <1>1, LineShape
  <2>2. k + 1 \in Int /\ n \in Int /\ n - k >= 0
    BY <1>1
  <2>3. /\ SubSeq(queue, k + 1, n) \in Seq(Coros)
        /\ Len(SubSeq(queue, k + 1, n)) = IF k + 1 <= n THEN n - (k + 1) + 1 ELSE 0
        /\ \A i \in 1..(n - (k + 1) + 1) : SubSeq(queue, k + 1, n)[i] = queue[(k + 1) + i - 1]
    BY <2>1, <2>2, SubSeqProperties
  <2>. QED  BY <1>1, <2>3
<1>4. queue' = before \o after
  BY DEF RemoveAt
<1>. HIDE DEF before, after
<1>5. /\ queue' \in Seq(Coros) /\ Len(queue') = n - 1 /\ DOMAIN queue' = 1..(n - 1)
      /\ \A i \in 1..(n - 1) : queue'[i] = IF i < k THEN queue[i] ELSE queue[i + 1]
  <2>1. /\ before \o after \in Seq(Coros)
        /\ Len(before \o after) = Len(before) + Len(after)
        /\ \A i \in 1..(Len(before) + Len(after)) :
             (before \o after)[i] = IF i <= Len(before) THEN before[i] ELSE after[i - Len(before)]
    BY <1>2, <1>3, ConcatProperties
  <2>2. queue' \in Seq(Coros) /\ Len(queue') = n - 1
    BY <1>1, <1>2, <1>3, <1>4, <2>1
  <2>3. ASSUME NEW i \in 1..(n - 1)
        PROVE  queue'[i] = IF i < k THEN queue[i] ELSE queue[i + 1]
    <3>1. queue'[i] = IF i <= k - 1 THEN before[i] ELSE after[i - (k - 1)]
      BY <1>1, <1>2, <1>3, <1>4, <2>1, SMTT(30)
    <3>2. CASE i < k
      <4>1. i \in 1..(k - 1) /\ i <= k - 1
        BY <1>1, <3>2
      <4>2. queue'[i] = before[i] /\ before[i] = queue[i]
        BY <1>2, <3>1, <4>1
      <4>. QED  BY <3>2, <4>2
    <3>3. CASE ~(i < k)
      <4>1. i - (k - 1) \in 1..(n - k) /\ k + (i - (k - 1)) = i + 1
        BY <1>1, <3>3
      <4>2. ~(i <= k - 1)
        BY <1>1, <3>3
      <4>3. queue'[i] = after[i - (k - 1)] /\ after[i - (k - 1)] = queue[i + 1]
        BY <1>3, <3>1, <4>1, <4>2
      <4>. QED  BY <3>3, <4>3
    <3>. QED  BY <3>2, <3>3
  <2>. QED  BY <2>2, <2>3
<1>6. Lined'
  BY <1>1, <1>5, LineShape DEF Lined
<1>7. ToSet(queue') \subseteq ToSet(queue) \ {queue[k]}
  <2>1. SUFFICES ASSUME NEW i \in 1..(n - 1) PROVE queue'[i] \in ToSet(queue) \ {queue[k]}
    BY <1>5 DEF ToSet
  <2>2. PICK j \in 1..n : j # k /\ queue'[i] = queue[j]
    <3>1. CASE i < k
      BY <1>1, <1>5, <3>1
    <3>2. CASE ~(i < k)
      BY <1>1, <1>5, <3>2
    <3>. QED  BY <3>1, <3>2
  <2>. QED  BY <1>1, <2>2, LineShape DEF ToSet
<1>8. ToSet(queue) \ {queue[k]} \subseteq ToSet(queue')
  <2>1. SUFFICES ASSUME NEW j \in 1..n, queue[j] # queue[k] PROVE queue[j] \in ToSet(queue')
    BY <1>1 DEF ToSet
  <2>2. PICK i \in 1..(n - 1) : queue'[i] = queue[j]
    <3>1. CASE j < k
      BY <1>1, <1>5, <3>1
    <3>2. CASE j > k
      <4>1. j - 1 \in 1..(n - 1) /\ queue'[j - 1] = queue[j]
        BY <1>1, <1>5, <3>2
      <4>. QED  BY <4>1
    <3>. QED  BY <1>1, <2>1, <3>1, <3>2
  <2>. QED  BY <1>5, <2>2 DEF ToSet
<1>. QED  BY <1>6, <1>7, <1>8

LEMMA LineAdmitted ==
  ASSUME Lined, queue # <<>>, queue' = Tail(queue)
  PROVE  /\ Lined' /\ Head(queue) \in Coros /\ Head(queue) \in ToSet(queue)
         /\ ToSet(queue)' = ToSet(queue) \ {Head(queue)}
<1>1. /\ Len(queue) \in Nat \ {0} /\ DOMAIN queue = 1..Len(queue) /\ Head(queue) = queue[1]
      /\ queue' \in Seq(Coros) /\ Len(queue') = Len(queue) - 1
      /\ DOMAIN queue' = 1..(Len(queue) - 1)
      /\ \A i \in 1..(Len(queue) - 1) : queue'[i] = queue[i + 1]
  BY HeadTailProperties DEF Lined
<1>2. Lined'
  BY <1>1, LineShape DEF Lined
<1>3. ToSet(queue') \subseteq ToSet(queue) \ {queue[1]}
  BY <1>1, LineShape DEF ToSet
<1>4. ToSet(queue) \ {queue[1]} \subseteq ToSet(queue')
  <2>1. SUFFICES ASSUME NEW j \in 1..Len(queue), queue[j] # queue[1] PROVE queue[j] \in ToSet(queue')
    BY <1>1 DEF ToSet
  <2>2. j - 1 \in 1..(Len(queue) - 1) /\ queue'[j - 1] = queue[j]
    BY <1>1, <2>1
  <2>. QED  BY <1>1, <2>2 DEF ToSet
<1>. QED  BY <1>1, <1>2, <1>3, <1>4, LineShape DEF ToSet

LEMMA LineJoined ==
  ASSUME Lined, NEW c \in Coros, c \notin ToSet(queue), queue' = Append(queue, c)
  PROVE  Lined' /\ ToSet(queue)' = ToSet(queue) \cup {c}
<1>1. /\ Len(queue) \in Nat /\ DOMAIN queue = 1..Len(queue)
      /\ queue' \in Seq(Coros) /\ Len(queue') = Len(queue) + 1
      /\ DOMAIN queue' = 1..(Len(queue) + 1)
      /\ \A i \in 1..Len(queue) : queue'[i] = queue[i]
      /\ queue'[Len(queue) + 1] = c
  BY AppendProperties DEF Lined
<1>2. \A i \in 1..Len(queue) : queue[i] # c
  BY <1>1 DEF ToSet
<1>3. Lined'
  BY <1>1, <1>2, LineShape DEF Lined
<1>. QED  BY <1>1, <1>3 DEF ToSet

\* What entering and leaving the semaphore does to the number inside.
LEMMA InsideCounts ==
  ASSUME GroupInv, NEW c \in Coros, NEW status,
         guard' = [guard EXCEPT ![c] = status],
         status = "running" => Cardinality(Inside) < Limit
  PROVE  IsFiniteSet(Inside') /\ Cardinality(Inside') <= Limit
<1>0. IsFiniteSet(Inside) /\ Cardinality(Inside) \in Nat /\ Cardinality(Inside) <= Limit
  BY FS_CardinalityType DEF GroupInv, AtMostLimit
<1>1. CASE status = "running"
  <2>1. Inside' = Inside \cup {c}
    BY <1>1 DEF Inside, GroupInv, GroupTypeOK
  <2>2. /\ IsFiniteSet(Inside \cup {c})
        /\ Cardinality(Inside \cup {c}) = IF c \in Inside THEN Cardinality(Inside) ELSE Cardinality(Inside) + 1
    BY <1>0, FS_AddElement
  <2>. QED  BY <1>0, <1>1, <2>1, <2>2, GroupAssumption
<1>2. CASE status # "running"
  <2>1. Inside' = Inside \ {c}
    BY <1>2 DEF Inside, GroupInv, GroupTypeOK
  <2>2. /\ IsFiniteSet(Inside \ {c})
        /\ Cardinality(Inside \ {c}) = IF c \in Inside THEN Cardinality(Inside) - 1 ELSE Cardinality(Inside)
    BY <1>0, FS_RemoveElement
  <2>. QED  BY <1>0, <2>1, <2>2, GroupAssumption, FS_CardinalityType
<1>. QED  BY <1>1, <1>2

LEMMA GroupInvStep ==
  ASSUME GroupInv, [GroupNext]_cvars
  PROVE  GroupInv'
<1>0. /\ GroupTypeOK /\ Lined /\ ToSet(queue) = {c \in Coros : guard[c] = "queued"}
      /\ \A c \in Coros : guard[c] \in {"fresh", "queued", "running"} \cup Done
  BY DEF GroupInv, GroupTypeOK
<1>1. ASSUME NEW c \in Coros, Begin(c)
      PROVE  GroupInv'
  <2>0. UNCHANGED <<abort, runner, stopped>> /\ asked' = asked \ {c} /\ guard[c] = "fresh" /\ c \in Undone
    BY <1>0, <1>1 DEF Begin, Undone, Done, WithResult
  <2>1. CASE c \in asked /\ guard' = [guard EXCEPT ![c] = "untouched"] /\ queue' = queue
    <3>1. GroupTypeOK' /\ Lined'
      BY <1>0, <2>0, <2>1 DEF GroupTypeOK, Lined, ToSet, Undone, Done, WithResult
    <3>2. IsFiniteSet(Inside') /\ Cardinality(Inside') <= Limit
      BY <2>1, InsideCounts
    <3>. QED  BY <2>0, <3>1, <3>2 DEF GroupInv, AtMostLimit
  <2>2. CASE Cardinality(Inside) < Limit /\ guard' = [guard EXCEPT ![c] = Entered] /\ queue' = queue
    <3>0. Entered \in {"aborted", "running"}
      BY DEF Entered
    <3>1. GroupTypeOK' /\ Lined'
      BY <1>0, <2>0, <2>2, <3>0 DEF GroupTypeOK, Lined, ToSet, Undone, Done, WithResult
    <3>2. IsFiniteSet(Inside') /\ Cardinality(Inside') <= Limit
      BY <2>2, InsideCounts
    <3>. QED  BY <2>0, <3>1, <3>2 DEF GroupInv, AtMostLimit
  <2>3. CASE guard' = [guard EXCEPT ![c] = "queued"] /\ queue' = Append(queue, c)
    <3>1. Lined' /\ ToSet(queue)' = ToSet(queue) \cup {c}
      BY <1>0, <2>0, <2>3, LineJoined
    <3>2. GroupTypeOK'
      BY <1>0, <2>0, <2>3, <3>1 DEF GroupTypeOK, Undone, Done, WithResult
    <3>3. IsFiniteSet(Inside') /\ Cardinality(Inside') <= Limit
      BY <2>3, InsideCounts
    <3>. QED  BY <2>0, <3>1, <3>2, <3>3 DEF GroupInv, AtMostLimit
  <2>. QED  BY <1>1, <2>1, <2>2, <2>3 DEF Begin
<1>2. CASE Admit
  <2>. DEFINE c == Head(queue)
  <2>1. /\ Lined' /\ c \in Coros /\ guard[c] = "queued" /\ c \in Undone
        /\ ToSet(queue)' = ToSet(queue) \ {c}
    BY <1>0, <1>2, LineAdmitted DEF Admit, Undone, Done, WithResult
  <2>2. guard' = [guard EXCEPT ![c] = Entered] /\ c \notin asked /\ Cardinality(Inside) < Limit
        /\ UNCHANGED <<asked, abort, runner, stopped>>
    BY <1>2 DEF Admit
  <2>. HIDE DEF c
  <2>3. Entered \in {"aborted", "running"}
    BY DEF Entered
  <2>4. GroupTypeOK'
    BY <1>0, <2>1, <2>2, <2>3 DEF GroupTypeOK, Undone, Done, WithResult
  <2>5. IsFiniteSet(Inside') /\ Cardinality(Inside') <= Limit
    BY <2>1, <2>2, InsideCounts
  <2>. QED  BY <2>1, <2>2, <2>4, <2>5 DEF GroupInv, AtMostLimit
<1>3. ASSUME NEW c \in Coros, Withdraw(c)
      PROVE  GroupInv'
  <2>1. PICK k \in DOMAIN queue : queue[k] = c /\ queue' = RemoveAt(queue, k)
    BY <1>3 DEF Withdraw
  <2>2. Lined' /\ ToSet(queue)' = ToSet(queue) \ {c}
    BY <1>0, <2>1, LineRemoved
  <2>3. PICK status \in {"aborted", "cancelled"} : guard' = [guard EXCEPT ![c] = status]
    BY <1>3 DEF Withdraw
  <2>4. GroupTypeOK'
    BY <1>0, <1>3, <2>2, <2>3 DEF Withdraw, GroupTypeOK, Undone, Done, WithResult
  <2>5. IsFiniteSet(Inside') /\ Cardinality(Inside') <= Limit
    BY <2>3, InsideCounts
  <2>6. c \in Undone
    BY <1>3 DEF Withdraw, Undone, Done, WithResult
  <2>. QED  BY <1>3, <2>2, <2>4, <2>5, <2>6 DEF Withdraw, GroupInv, AtMostLimit
<1>4. ASSUME NEW c \in Coros, Return(c) \/ Raise(c) \/ Yield(c)
      PROVE  GroupInv'
  <2>1. PICK status \in Done : guard' = [guard EXCEPT ![c] = status]
    BY <1>4 DEF Return, Raise, Yield, Done, WithResult
  <2>2. guard[c] = "running" /\ c \in Undone /\ UNCHANGED <<queue, runner, stopped>>
        /\ (asked' = asked \ {c} \/ asked' = Undone \ {c}) /\ abort' \in BOOLEAN
    BY <1>0, <1>4 DEF Return, Raise, Yield, Undone, Done, WithResult, GroupTypeOK
  <2>3. Undone' = Undone \ {c}
    BY <1>0, <2>1 DEF Undone, GroupTypeOK
  <2>4. GroupTypeOK' /\ Lined'
    <3>1. status # "queued" /\ guard' \in [Coros -> {"fresh", "queued", "running"} \cup Done]
      BY <2>1 DEF GroupInv, GroupTypeOK, Done, WithResult
    <3>2. {b \in Coros : guard'[b] = "queued"} = {b \in Coros : guard[b] = "queued"}
      BY <2>1, <2>2, <3>1 DEF GroupInv, GroupTypeOK
    <3>3. asked' \subseteq Undone'
      BY <1>0, <2>2, <2>3 DEF GroupTypeOK
    <3>. QED  BY <1>0, <2>2, <3>1, <3>2, <3>3 DEF GroupTypeOK, Lined, ToSet
  <2>5. IsFiniteSet(Inside') /\ Cardinality(Inside') <= Limit
    BY <2>1, InsideCounts DEF Done, WithResult
  <2>. QED  BY <2>2, <2>3, <2>4, <2>5 DEF GroupInv, AtMostLimit
<1>5. CASE StopRun \/ Drain
  <2>1. asked' = asked \cup Undone /\ UNCHANGED <<guard, queue, abort>>
        /\ runner \in {"waiting"} /\ runner' \in {"waiting", "draining"} /\ stopped' \in BOOLEAN
    BY <1>0, <1>5 DEF StopRun, Drain, GroupTypeOK
  <2>2. Undone' = Undone /\ Inside' = Inside
    BY <2>1 DEF Undone, Inside
  <2>3. GroupTypeOK' /\ Lined'
    BY <1>0, <2>1, <2>2 DEF GroupTypeOK, Lined, ToSet
  <2>. QED  BY <2>1, <2>2, <2>3 DEF GroupInv, AtMostLimit
<1>6. CASE EndRun
  <2>1. UNCHANGED <<guard, asked, queue, abort, stopped>> /\ runner' \in {"raised", "returned"} /\ Undone = {}
    BY <1>6 DEF EndRun
  <2>2. Undone' = Undone /\ Inside' = Inside
    BY <2>1 DEF Undone, Inside
  <2>3. GroupTypeOK' /\ Lined'
    BY <1>0, <2>1, <2>2 DEF GroupTypeOK, Lined, ToSet
  <2>. QED  BY <2>1, <2>2, <2>3 DEF GroupInv, AtMostLimit
<1>7. CASE UNCHANGED cvars
  <2>1. Undone' = Undone /\ Inside' = Inside
    BY <1>7 DEF cvars, Undone, Inside
  <2>. QED  BY <1>7, <2>1 DEF cvars, GroupInv, GroupTypeOK, Lined, ToSet, AtMostLimit
<1>. QED  BY <1>1, <1>2, <1>3, <1>4, <1>5, <1>6, <1>7 DEF GroupNext, GuardNext

(* The waiters of the semaphore stand in line once each, whoever waits stands     *)
(* there, and the tasks inside can be counted (CancellableTaskGroup._guard).      *)
THEOREM GroupInductive == GroupSpec => []GroupInv
BY GroupInvInit, GroupInvStep, PTL DEF GroupSpec

(* No more than Limit coroutines run at a time, for any number of coroutines and  *)
(* wherever run() is cancelled (CancellableTaskGroup.run).                       *)
THEOREM GroupAtMostLimit == GroupSpec => []AtMostLimit
<1>1. GroupInv => AtMostLimit
  BY DEF GroupInv
<1>. QED  BY <1>1, GroupInductive, PTL

(* Nothing starts after the abort, not even what the semaphore already let in      *)
(* (CancellableTaskGroup._guard).                                             *)
THEOREM GroupNoStartAfterAbort == GroupSpec => NoStartAfterAbort
<1>1. GroupInv /\ [GroupNext]_cvars =>
        [abort => \A c \in Coros : guard[c] # "running" => guard'[c] # "running"]_cvars
  <2>. SUFFICES ASSUME GroupInv, GroupNext, abort, NEW c \in Coros, guard[c] # "running"
                PROVE  guard'[c] # "running"
    OBVIOUS
  <2>1. Entered = "aborted"
    BY DEF Entered
  <2>2. \A b \in Coros : GuardNext(b) => guard'[c] # "running"
    BY <2>1 DEF GuardNext, Begin, Withdraw, Return, Raise, Yield, GroupInv, GroupTypeOK
  <2>3. Admit => guard'[c] # "running"
    BY <2>1 DEF Admit, GroupInv, GroupTypeOK
  <2>. QED  BY <2>2, <2>3 DEF GroupNext, StopRun, Drain, EndRun
<1>. QED  BY <1>1, GroupInductive, PTL DEF GroupSpec, NoStartAfterAbort

-----------------------------------------------------------------------------
(* The task graph.                                                          *)

USE GraphAssumption

\* What the current task depends on is completed, whatever its own status is.
CurrentMayRun == \A j \in deps[current] : task[j] = "completed"

GraphInv == GraphTypeOK /\ OneActiveTask /\ CurrentMayRun

\* The sizes and elements behind GraphTypeOK.
LEMMA GraphShape ==
  ASSUME GraphTypeOK
  PROVE  /\ Len(task) \in Nat \ {0} /\ Len(task) <= MaxGraph
         /\ DOMAIN task = 1..Len(task) /\ DOMAIN deps = 1..Len(task)
         /\ deps \in Seq(SUBSET (1..MaxGraph)) /\ Len(deps) = Len(task)
         /\ \A i \in 1..Len(task) : task[i] \in TaskStatuses /\ deps[i] \subseteq 1..(i - 1)
         /\ current \in 1..Len(task)
<1>1. Len(task) \in Nat \ {0} /\ DOMAIN task = 1..Len(task) /\ Len(task) <= MaxGraph
  BY DEF GraphTypeOK
<1>2. deps \in [1..Len(task) -> SUBSET (1..MaxGraph)]
  BY <1>1 DEF GraphTypeOK
<1>3. deps \in Seq(SUBSET (1..MaxGraph)) /\ Len(deps) = Len(task)
  BY <1>1, <1>2, SeqDef
<1>. QED  BY <1>1, <1>2, <1>3 DEF GraphTypeOK

\* A graph whose tasks only changed their status is well formed.
LEMMA SameShape ==
  ASSUME GraphTypeOK, NEW t, DOMAIN t = DOMAIN task, t \in [DOMAIN task -> TaskStatuses]
  PROVE  t \in Seq(TaskStatuses) /\ Len(t) = Len(task)
BY GraphShape, SeqDef

LEMMA GraphInvInit == GraphInit => GraphInv
<1>1. SUFFICES ASSUME GraphInit PROVE GraphInv
  OBVIOUS
<1>2. PICK steps \in 0..MaxSteps :
        /\ task = [i \in 1..(steps + 1) |-> IF i = 1 THEN "running" ELSE "pending"]
        /\ deps = [i \in 1..(steps + 1) |-> IF i = 1 THEN {} ELSE {1}]
  BY <1>1 DEF GraphInit
<1>. DEFINE n == steps + 1
<1>3. n \in Nat \ {0} /\ n <= MaxGraph
  BY GraphAssumption
<1>4. task \in [1..n -> TaskStatuses] /\ DOMAIN task = 1..n
  BY <1>2 DEF TaskStatuses
<1>5. task \in Seq(TaskStatuses)
  BY <1>3, <1>4, SeqDef
<1>6. Len(task) = n
  BY <1>3, <1>4, <1>5, LenProperties
<1>7. /\ deps \in [1..n -> SUBSET (1..MaxGraph)]
      /\ \A i \in 1..n : deps[i] \subseteq 1..(i - 1)
  BY <1>2, <1>3
<1>8. GraphTypeOK
  <2>1. Len(task) \in 1..MaxGraph /\ deps \in [DOMAIN task -> SUBSET (1..MaxGraph)]
    BY <1>3, <1>4, <1>6, <1>7
  <2>2. \A i \in DOMAIN task : deps[i] \subseteq 1..(i - 1)
    BY <1>4, <1>7
  <2>3. current \in DOMAIN task
    BY <1>1, <1>3, <1>4 DEF GraphInit
  <2>. HIDE DEF n
  <2>. QED  BY <1>1, <1>5, <2>1, <2>2, <2>3 DEF GraphInit, GraphTypeOK, Settled, Verdicts
<1>. QED  BY <1>1, <1>2, <1>8 DEF GraphInit, GraphInv, OneActiveTask, Active, CurrentMayRun, Settled

\* What a step does to the statuses of the tasks there were: a settled task other
\* than the current one stays, and nothing that is completed stops being so but it.
Stays == \A i \in DOMAIN task \ {current} : task[i] \in Settled => task'[i] = task[i]

LEMMA Expanded ==
  ASSUME GraphInv, NEW e \in Expansions
  PROVE  /\ e[1] \in Seq(TaskStatuses) /\ Len(e[1]) \in Len(task)..MaxGraph
         /\ e[2] \in [1..Len(e[1]) -> SUBSET (1..MaxGraph)]
         /\ \A i \in 1..Len(task) : e[1][i] = task[i] /\ e[2][i] = deps[i]
         /\ \A i \in 1..Len(e[1]) :
              e[2][i] \subseteq 1..(i - 1) /\ (i > Len(task) => e[1][i] = "pending")
<1>. USE GraphShape DEF GraphInv
<1>1. CASE e = <<task, deps>>
  <2>1. e[1] = task /\ e[2] = deps
    BY <1>1
  <2>2. task \in Seq(TaskStatuses) /\ Len(task) \in Len(task)..MaxGraph
    BY DEF GraphTypeOK
  <2>3. /\ deps \in [1..Len(task) -> SUBSET (1..MaxGraph)]
        /\ \A i \in 1..Len(task) : deps[i] \subseteq 1..(i - 1)
    BY DEF GraphTypeOK
  <2>4. \A i \in 1..Len(task) : ~(i > Len(task))
    OBVIOUS
  <2>. QED  BY <2>1, <2>2, <2>3, <2>4
<1>2. ASSUME NEW ds \in SUBSET DOMAIN task, e = <<Append(task, "pending"), Append(deps, ds)>>,
             Len(task) < MaxGraph
      PROVE  /\ e[1] \in Seq(TaskStatuses) /\ Len(e[1]) = Len(task) + 1
             /\ e[2] \in Seq(SUBSET (1..MaxGraph)) /\ Len(e[2]) = Len(task) + 1
             /\ \A i \in 1..Len(task) : e[1][i] = task[i] /\ e[2][i] = deps[i]
             /\ e[1][Len(task) + 1] = "pending" /\ e[2][Len(task) + 1] = ds
  <2>1. task \in Seq(TaskStatuses) /\ "pending" \in TaskStatuses
    BY DEF GraphTypeOK, TaskStatuses
  <2>2. ds \in SUBSET (1..MaxGraph)
    OBVIOUS
  <2>. QED  BY <1>2, <2>1, <2>2
<1>3. CASE \E ds \in SUBSET DOMAIN task :
             e = <<Append(task, "pending"), Append(deps, ds)>> /\ Len(task) < MaxGraph
  <2>. DEFINE n == Len(task)
  <2>1. PICK ds \in SUBSET DOMAIN task :
          e = <<Append(task, "pending"), Append(deps, ds)>> /\ n < MaxGraph
    BY <1>3
  <2>2. /\ e[1] \in Seq(TaskStatuses) /\ Len(e[1]) = n + 1
        /\ e[2] \in Seq(SUBSET (1..MaxGraph)) /\ Len(e[2]) = n + 1
        /\ \A i \in 1..n : e[1][i] = task[i] /\ e[2][i] = deps[i]
        /\ e[1][n + 1] = "pending" /\ e[2][n + 1] = ds
    BY <1>2, <2>1
  <2>3. n \in Nat /\ ds \subseteq 1..n /\ n < MaxGraph /\ \A i \in 1..n : deps[i] \subseteq 1..(i - 1)
    BY <2>1
  <2>. HIDE DEF n
  <2>4. Len(e[1]) \in n..MaxGraph
    BY <2>2, <2>3, GraphAssumption
  <2>5. e[2] \in [1..Len(e[1]) -> SUBSET (1..MaxGraph)]
    BY <2>2, LenProperties
  <2>6. ASSUME NEW i \in 1..(n + 1)
        PROVE  e[2][i] \subseteq 1..(i - 1) /\ (i > n => e[1][i] = "pending")
    <3>1. CASE i \in 1..n
      BY <2>2, <2>3, <3>1
    <3>2. CASE i = n + 1
      BY <2>2, <2>3, <3>2
    <3>. QED  BY <2>3, <3>1, <3>2
  <2>7. n = Len(task)
    BY DEF n
  <2>. QED  BY <2>2, <2>4, <2>5, <2>6, <2>7
<1>4. e = <<task, deps>> \/ \E ds \in SUBSET DOMAIN task :
             e = <<Append(task, "pending"), Append(deps, ds)>> /\ Len(task) < MaxGraph
  BY DEF Expansions
<1>. QED  BY <1>1, <1>3, <1>4

LEMMA ObserveKeeps ==
  ASSUME GraphInv, NEW v \in Verdicts, Observe(v)
  PROVE  GraphInv' /\ Stays
<1>1. PICK e \in Expansions :
        LET done == [e[1] EXCEPT ![current] = "completed"]
            ready == Ready(done, e[2])
        IN /\ deps' = e[2]
           /\ \/ v = "open" /\ task' = e[1] /\ UNCHANGED current
              \/ v = "goal" /\ task' = AllCompleted(done) /\ UNCHANGED current
              \/ v = "task" /\ ready = {} /\ task' = done /\ UNCHANGED current
              \/ v = "task" /\ ready # {} /\ current' = Earliest(ready)
                 /\ task' = [done EXCEPT ![Earliest(ready)] = "running"]
  BY DEF Observe
<1>. DEFINE n == Len(e[1])
            done == [e[1] EXCEPT ![current] = "completed"]
            ready == Ready(done, e[2])
<1>2. /\ e[1] \in Seq(TaskStatuses) /\ n \in Nat /\ n \in Len(task)..MaxGraph /\ DOMAIN e[1] = 1..n
      /\ e[2] \in [1..n -> SUBSET (1..MaxGraph)] /\ Len(task) \in Nat \ {0}
      /\ \A i \in 1..Len(task) : e[1][i] = task[i] /\ e[2][i] = deps[i]
      /\ \A i \in 1..n : e[2][i] \subseteq 1..(i - 1) /\ (i > Len(task) => e[1][i] = "pending")
      /\ DOMAIN task = 1..Len(task) /\ current \in 1..Len(task)
  BY Expanded, GraphShape DEF GraphInv
<1>3. goal = "running" /\ UNCHANGED <<goal, cont>> /\ verdict' = v
  BY DEF Observe
<1>4. /\ done \in [1..n -> TaskStatuses] /\ done[current] = "completed"
      /\ \A i \in 1..n : i # current => done[i] = e[1][i]
  BY <1>2 DEF TaskStatuses, Settled
\* Nothing but the current task is in progress, before and after the expansion.
<1>5. \A i \in 1..n : e[1][i] \in {"running", "waiting"} => i = current
  <2>1. \A i \in 1..Len(task) : task[i] \in {"running", "waiting"} => i = current
    BY <1>2 DEF GraphInv, OneActiveTask, Active
  <2>2. SUFFICES ASSUME NEW i \in 1..n, e[1][i] \in {"running", "waiting"}
                 PROVE  i = current
    OBVIOUS
  <2>3. ~ (i > Len(task))
    BY <1>2, <2>2
  <2>4. i \in 1..Len(task) /\ e[1][i] = task[i]
    <3>1. i \in 1..Len(task)
      BY <1>2, <2>2, <2>3
    <3>. QED  BY <1>2, <3>1
  <2>. QED  BY <2>1, <2>2, <2>4
<1>6. \A j \in e[2][current] : j \in 1..n /\ j # current /\ e[1][j] = "completed"
  <2>1. \A j \in deps[current] : task[j] = "completed" /\ j \in 1..(current - 1)
    BY GraphShape DEF GraphInv, CurrentMayRun
  <2>2. e[2][current] = deps[current]
    BY <1>2
  <2>3. SUFFICES ASSUME NEW j \in deps[current]
                 PROVE  j \in 1..n /\ j # current /\ e[1][j] = "completed"
    BY <2>2
  <2>4. task[j] = "completed" /\ j \in 1..Len(task) /\ j \in 1..n /\ j # current
    BY <1>2, <2>1
  <2>. QED  BY <1>2, <2>4
<1>7. ASSUME NEW t \in [1..n -> TaskStatuses], task' = t
      PROVE  task' \in Seq(TaskStatuses) /\ Len(task') = n /\ DOMAIN task' = 1..n
  <2>1. n \in Nat
    BY <1>2
  <2>. HIDE DEF n
  <2>2. t \in Seq(TaskStatuses)
    BY <1>7, <2>1, SeqDef
  <2>3. DOMAIN t = 1..n /\ Len(t) = n
    BY <1>7, <2>1, <2>2
  <2>. QED  BY <1>7, <2>2, <2>3
<1>8. ASSUME task' \in [1..n -> TaskStatuses], current' \in 1..n,
             \A i \in 1..n : task'[i] \in {"running", "waiting"} => i = current',
             \A j \in e[2][current'] : task'[j] = "completed"
      PROVE  GraphInv'
  <2>1. task' \in Seq(TaskStatuses) /\ Len(task') = n /\ DOMAIN task' = 1..n
    BY <1>7, <1>8
  <2>2. GraphTypeOK'
    BY <1>1, <1>2, <1>3, <1>8, <2>1 DEF GraphTypeOK, GraphInv
  <2>3. OneActiveTask'
    BY <1>3, <1>8, <2>1 DEF OneActiveTask, Active, Settled
  <2>. QED  BY <1>1, <1>8, <2>2, <2>3 DEF GraphInv, CurrentMayRun
<1>9. CASE v = "open"
  <2>1. task' = e[1] /\ current' = current
    BY <1>1, <1>9
  <2>2. task' \in [1..n -> TaskStatuses] /\ current' \in 1..n
    BY <1>2, <2>1
  <2>3. Stays
    BY <1>2, <2>1 DEF Stays
  <2>4. \A j \in e[2][current'] : task'[j] = "completed"
    BY <1>6, <2>1
  <2>5. \A i \in 1..n : task'[i] \in {"running", "waiting"} => i = current'
    BY <1>5, <2>1
  <2>. QED  BY <1>8, <2>2, <2>3, <2>4, <2>5
<1>10. CASE v = "goal"
  <2>1. task' = AllCompleted(done) /\ current' = current
    BY <1>1, <1>10
  <2>2. task' \in [1..n -> TaskStatuses] /\ \A i \in 1..n :
          task'[i] = IF done[i] \in Settled THEN done[i] ELSE "completed"
    BY <1>4, <2>1 DEF AllCompleted, TaskStatuses, Settled
  <2>3. \A i \in 1..n : task'[i] \in Settled
    BY <2>2 DEF Settled
  <2>4. \A j \in e[2][current] : task'[j] = "completed"
    BY <1>4, <1>6, <2>2 DEF Settled
  <2>5. Stays
    BY <1>2, <1>4, <2>2 DEF Stays
  <2>6. \A i \in 1..n : task'[i] \in {"running", "waiting"} => i = current'
    BY <2>3 DEF Settled
  <2>7. task' \in [1..n -> TaskStatuses]
    BY <2>2
  <2>8. current' \in 1..n /\ \A j \in e[2][current'] : task'[j] = "completed"
    BY <1>2, <2>1, <2>4, SMTT(30)
  <2>9. GraphInv'
    BY <1>8, <2>6, <2>7, <2>8
  <2>. QED  BY <2>5, <2>9
<1>11. CASE v = "task" /\ ready = {}
  <2>1. task' = done /\ current' = current
    BY <1>1, <1>11
  <2>. QED  BY <1>2, <1>4, <1>5, <1>6, <1>8, <2>1 DEF Stays
<1>12. CASE v = "task" /\ ready # {}
  <2>1. task' = [done EXCEPT ![Earliest(ready)] = "running"] /\ current' = Earliest(ready)
    BY <1>1, <1>12
  <2>2. Earliest(ready) \in ready
    <3>1. ready \in SUBSET Nat
      BY <1>2, <1>4 DEF Ready
    <3>. HIDE DEF ready
    <3>. QED  BY <1>12, <3>1, Least DEF Earliest
  <2>3. /\ Earliest(ready) \in 1..n /\ done[Earliest(ready)] = "pending"
        /\ \A j \in e[2][Earliest(ready)] : done[j] = "completed"
    BY <1>4, <2>2 DEF Ready
  <2>. DEFINE m == Earliest(ready)
  <2>. HIDE DEF m
  <2>4. /\ task' = [done EXCEPT ![m] = "running"] /\ current' = m /\ m \in 1..n
        /\ done[m] = "pending" /\ \A j \in e[2][m] : done[j] = "completed"
    BY <2>1, <2>3 DEF m
  <2>5. task' \in [1..n -> TaskStatuses]
    BY <1>4, <2>4 DEF TaskStatuses
  <2>6. \A i \in 1..n : task'[i] \in {"running", "waiting"} => i = m
    BY <1>4, <1>5, <2>4
  <2>7. \A j \in e[2][m] : task'[j] = "completed"
    BY <1>2, <1>4, <2>4
  <2>8. Stays
    BY <1>2, <1>4, <2>4 DEF Stays, Settled
  <2>. QED  BY <1>8, <2>4, <2>5, <2>6, <2>7, <2>8
<1>. QED  BY <1>9, <1>10, <1>11, <1>12 DEF Verdicts

\* A step that sets the status of the current task alone.
LEMMA SetCurrentKeeps ==
  ASSUME GraphInv, NEW s \in TaskStatuses, NEW g \in {"running", "waiting"} \cup Settled,
         task' = [task EXCEPT ![current] = s], goal' = g, cont' \in BOOLEAN,
         UNCHANGED <<deps, current, verdict>>,
         g \in Settled => s \in Settled
  PROVE  GraphInv' /\ Stays
<1>. USE DEF GraphInv
<1>1. /\ DOMAIN task' = DOMAIN task /\ task' \in [DOMAIN task -> TaskStatuses]
      /\ \A i \in DOMAIN task : i # current => task'[i] = task[i]
      /\ task'[current] = s
  BY GraphShape
<1>2. task' \in Seq(TaskStatuses) /\ Len(task') = Len(task)
  BY <1>1, SameShape
<1>3. GraphTypeOK'
  BY <1>1, <1>2 DEF GraphTypeOK
<1>4. OneActiveTask'
  BY <1>1 DEF OneActiveTask, Active, Settled
<1>5. CurrentMayRun'
  BY <1>1, GraphShape DEF CurrentMayRun
<1>. QED  BY <1>1, <1>3, <1>4, <1>5 DEF Stays

LEMMA FinishKeeps ==
  ASSUME GraphInv, Finish
  PROVE  GraphInv' /\ Stays
<1>1. CASE cont
  BY <1>1, SetCurrentKeeps DEF Finish, TaskStatuses, Settled, GraphInv, GraphTypeOK
<1>2. CASE ~cont /\ ~Authorised
  BY <1>2, SetCurrentKeeps DEF Finish, TaskStatuses, Settled, GraphInv, GraphTypeOK
<1>3. CASE ~cont /\ Authorised
  <2>1. /\ UNCHANGED <<task, deps, current, verdict, cont>> /\ goal' = "completed"
        /\ \A i \in DOMAIN task : task[i] \in Settled
    BY <1>3 DEF Finish, Authorised, Unfinished
  <2>2. GraphTypeOK'
    BY <2>1 DEF GraphInv, GraphTypeOK, Settled
  <2>3. OneActiveTask'
    BY <2>1 DEF GraphInv, OneActiveTask, Active, Settled
  <2>. QED  BY <2>1, <2>2, <2>3 DEF GraphInv, CurrentMayRun, Stays
<1>. QED  BY <1>1, <1>2, <1>3 DEF Finish

LEMMA StopKeeps ==
  ASSUME GraphInv, NEW g \in {"waiting", "failed"}, Stop(g)
  PROVE  GraphInv' /\ Stays
BY SetCurrentKeeps DEF Stop, TaskStatuses, Settled, GraphInv, GraphTypeOK

LEMMA ResumeKeeps ==
  ASSUME GraphInv, Resume
  PROVE  GraphInv' /\ Stays
BY SetCurrentKeeps DEF Resume, TaskStatuses, Settled, GraphInv, GraphTypeOK

LEMMA CancelKeeps ==
  ASSUME GraphInv, Cancel
  PROVE  GraphInv' /\ Stays
<1>. USE DEF GraphInv
<1>1. /\ UNCHANGED <<deps, current, verdict, cont>> /\ goal' = "cancelled"
      /\ DOMAIN task' = DOMAIN task
      /\ \A i \in DOMAIN task : task'[i] = IF task[i] \in Settled THEN task[i] ELSE "cancelled"
      /\ task' \in [DOMAIN task -> TaskStatuses]
  BY GraphShape DEF Cancel, TaskStatuses, Settled
<1>2. task' \in Seq(TaskStatuses) /\ Len(task') = Len(task)
  BY <1>1, SameShape
<1>3. GraphTypeOK'
  BY <1>1, <1>2 DEF GraphTypeOK, Settled
<1>4. OneActiveTask'
  BY <1>1 DEF OneActiveTask, Active, Settled
<1>5. CurrentMayRun'
  <2>1. \A j \in deps[current] : j \in DOMAIN task
    BY GraphShape
  <2>. QED  BY <1>1, <2>1 DEF CurrentMayRun, Settled
<1>. QED  BY <1>1, <1>3, <1>4, <1>5 DEF Stays

LEMMA ContinueKeeps ==
  ASSUME GraphInv, Continue
  PROVE  GraphInv' /\ Stays
<1>. USE DEF GraphInv
<1>. DEFINE n == Len(task)
<1>1. /\ task' = Append(task, "running") /\ deps' = Append(deps, {}) /\ current' = n + 1
      /\ goal' = "running" /\ cont' = TRUE /\ verdict' = verdict /\ n < MaxGraph
      /\ goal \in Settled
  BY DEF Continue, Settled
<1>2. /\ task \in Seq(TaskStatuses) /\ n \in Nat \ {0} /\ DOMAIN task = 1..n
      /\ deps \in Seq(SUBSET (1..MaxGraph)) /\ Len(deps) = n
      /\ \A i \in 1..n : deps[i] \subseteq 1..(i - 1)
  BY GraphShape DEF GraphTypeOK
<1>3. /\ task' \in Seq(TaskStatuses) /\ Len(task') = n + 1 /\ DOMAIN task' = 1..(n + 1)
      /\ \A i \in 1..n : task'[i] = task[i]
      /\ task'[n + 1] = "running"
  BY <1>1, <1>2 DEF TaskStatuses
<1>4. /\ deps' \in Seq(SUBSET (1..MaxGraph)) /\ Len(deps') = n + 1
      /\ \A i \in 1..n : deps'[i] = deps[i]
      /\ deps'[n + 1] = {}
  BY <1>1, <1>2
<1>5. deps' \in [1..(n + 1) -> SUBSET (1..MaxGraph)]
  BY <1>4
<1>6. GraphTypeOK'
  BY <1>1, <1>2, <1>3, <1>4, <1>5 DEF GraphTypeOK
<1>7. OneActiveTask'
  BY <1>1, <1>2, <1>3 DEF OneActiveTask, Active, Settled
<1>8. CurrentMayRun'
  BY <1>1, <1>4 DEF CurrentMayRun
<1>. QED  BY <1>2, <1>3, <1>6, <1>7, <1>8 DEF Stays

LEMMA GraphStep ==
  ASSUME GraphInv, [GraphNext]_gvars
  PROVE  GraphInv' /\ Stays
<1>1. CASE UNCHANGED gvars
  BY <1>1 DEF gvars, GraphInv, GraphTypeOK, OneActiveTask, Active, CurrentMayRun, Stays
<1>2. CASE GraphNext
  BY <1>2, ObserveKeeps, FinishKeeps, StopKeeps, ResumeKeeps, CancelKeeps, ContinueKeeps DEF GraphNext
<1>. QED  BY <1>1, <1>2

(* The tasks keep their types and the current task may run, for goals of any    *)
(* number of steps and sessions of any number of tasks.                        *)
THEOREM GraphInductive == GraphSpec => []GraphInv
<1>1. GraphInv /\ [GraphNext]_gvars => GraphInv'
  BY GraphStep
<1>. QED  BY <1>1, GraphInvInit, PTL DEF GraphSpec

(* At most one task of a session is in progress, the current one, and none once  *)
(* the goal is settled (start_next, set_current, mark_current_task).            *)
THEOREM GraphOneActiveTask == GraphSpec => []OneActiveTask
<1>1. GraphInv => OneActiveTask
  BY DEF GraphInv
<1>. QED  BY <1>1, GraphInductive, PTL

(* A task in progress has all it depends on completed (start_next, pause, fail,  *)
(* resume).                                                                  *)
THEOREM GraphDependenciesFirst == GraphSpec => []DependenciesFirst
<1>1. GraphInv => DependenciesFirst
  BY DEF GraphInv, OneActiveTask, CurrentMayRun, DependenciesFirst
<1>. QED  BY <1>1, GraphInductive, PTL

(* A settled task other than the current one keeps its status (complete_all,     *)
(* cancel, continue_session).                                                *)
THEOREM GraphSettledTasksStay == GraphSpec => SettledTasksStay
<1>1. GraphInv /\ [GraphNext]_gvars => [Stays]_gvars
  BY GraphStep
<1>. QED  BY <1>1, GraphInductive, PTL DEF GraphSpec, SettledTasksStay, Stays

-----------------------------------------------------------------------------
(* Delegation.                                                              *)

USE DelegationAssumption

\* A task at work waits in the wave of its batch, or unwinds after its cancellation; an
\* instance that carries it out is not ready, but by its owner's word.
AtWorkInPlace(t) ==
  /\ deleg[t] \in {"running", "revoked"}
  /\ (outcome[t] = "none" /\ t \in wave[BatchOf[t]]) \/ outcome[t] = "lost"
  /\ \A a \in holder[t] \ forced : agent[a] # "ready"

Held == \A t \in Specs : holder[t] # {} => AtWorkInPlace(t)

WavesReady ==
  \A b \in Batches : \A t \in wave[b] :
    BatchOf[t] = b /\ \A n \in Needs[t] : outcome[n] = "completed"

Counted == children = [p \in Specs |-> Cardinality(Begun(p))]

DelegationShape ==
  /\ wave \in [Batches -> SUBSET Specs]
  /\ outcome \in [Specs -> Outcomes]
  /\ deleg \in [Specs -> {"none", "running"} \cup Ended]
  /\ holder \in [Specs -> SUBSET Agents]
  /\ agent \in [Agents -> Statuses]
  /\ known \subseteq Specs
  /\ drains \in 0..MaxDrains
  /\ forced \subseteq Agents

DelegationInv ==
  /\ DelegationShape /\ Held /\ WavesReady /\ Counted
  /\ OneTaskPerInstance /\ DependenciesCompleted /\ ChildrenWithinLimit

LEMMA DelegationInvInit == DelegationInit => DelegationInv
<1>1. SUFFICES ASSUME DelegationInit PROVE DelegationInv
  OBVIOUS
<1>2. DelegationShape
  BY <1>1 DEF DelegationInit, DelegationShape, Outcomes, Statuses
<1>3. Held /\ WavesReady /\ OneTaskPerInstance /\ DependenciesCompleted
  BY <1>1 DEF DelegationInit, Held, WavesReady, OneTaskPerInstance, DependenciesCompleted
<1>4. \A p \in Specs : Begun(p) = {} /\ Cardinality(Begun(p)) = 0
  <2>1. \A p \in Specs : Begun(p) = {}
    BY <1>1 DEF DelegationInit, Begun
  <2>. QED  BY <2>1, FS_EmptySet
<1>5. Counted /\ ChildrenWithinLimit
  BY <1>1, <1>4 DEF DelegationInit, Counted, ChildrenWithinLimit
<1>. QED  BY <1>2, <1>3, <1>5 DEF DelegationInv

\* Who has begun stays so when no delegation does.
LEMMA SameChildren ==
  ASSUME Counted, ChildrenWithinLimit, UNCHANGED children,
         \A t \in Specs : deleg'[t] = "none" <=> deleg[t] = "none"
  PROVE  Counted' /\ ChildrenWithinLimit'
<1>1. \A p \in Specs : Begun(p)' = Begun(p)
  BY DEF Begun
<1>. QED  BY <1>1 DEF Counted, ChildrenWithinLimit

\* An answer completes nothing else and takes nobody who is at work out of the wave.
LEMMA Answered ==
  ASSUME DelegationShape, NEW t \in Specs, NEW r \in Outcomes \ {"none"}, Answer(t, r)
  PROVE  /\ outcome' \in [Specs -> Outcomes] /\ outcome'[t] = r
         /\ \A s \in Specs \ {t} : outcome'[s] = outcome[s]
         /\ wave' \in [Batches -> SUBSET Specs]
         /\ \A b \in Batches : wave'[b] \subseteq wave[b]
         /\ \A s \in Specs \ {t} : outcome[s] = "none" /\ s \in wave[BatchOf[s]]
                                   => s \in wave'[BatchOf[s]]
<1>. USE DEF DelegationShape
<1>1. BatchOf[t] \in Batches /\ \A s \in Specs : BatchOf[s] \in Batches
  OBVIOUS
<1>2. /\ outcome' = [outcome EXCEPT ![t] = r]
      /\ wave' = IF \A s \in wave[BatchOf[t]] \ {t} : outcome[s] # "none"
                 THEN [wave EXCEPT ![BatchOf[t]] = {}] ELSE wave
  BY DEF Answer
<1>3. outcome' \in [Specs -> Outcomes] /\ outcome'[t] = r /\ \A s \in Specs \ {t} : outcome'[s] = outcome[s]
  BY <1>2
<1>4. CASE \A s \in wave[BatchOf[t]] \ {t} : outcome[s] # "none"
  <2>1. /\ wave' \in [Batches -> SUBSET Specs] /\ wave'[BatchOf[t]] = {}
        /\ \A b \in Batches \ {BatchOf[t]} : wave'[b] = wave[b]
    BY <1>1, <1>2, <1>4
  <2>. QED  BY <1>1, <1>3, <1>4, <2>1
<1>5. CASE ~\A s \in wave[BatchOf[t]] \ {t} : outcome[s] # "none"
  <2>1. wave' = wave
    BY <1>2, <1>5
  <2>. QED  BY <1>1, <1>3, <2>1
<1>. QED  BY <1>4, <1>5

\* What a wave needs stays completed as long as no outcome is taken back.
LEMMA WavesStayReady ==
  ASSUME DelegationShape, WavesReady, \A b \in Batches : wave'[b] \subseteq wave[b],
         \A s \in Specs : outcome[s] = "completed" => outcome'[s] = "completed"
  PROVE  WavesReady'
<1>1. \A b \in Batches : \A t \in wave[b] : t \in Specs /\ Needs[t] \subseteq Specs
  BY DEF DelegationShape
<1>. QED  BY <1>1 DEF WavesReady

\* An instance put back is the only one that changes, and no other task loses its own.
LEMMA BackInPlace ==
  ASSUME DelegationInv, NEW t \in Specs, PutBack(t), UNCHANGED forced,
         deleg' \in [Specs -> {"none", "running"} \cup Ended],
         \A s \in Specs \ {t} : deleg'[s] = deleg[s],
         \A s \in Specs \ {t} : outcome'[s] = outcome[s],
         \A s \in Specs \ {t} : outcome[s] = "none" /\ s \in wave[BatchOf[s]]
                                => s \in wave'[BatchOf[s]]
  PROVE  /\ holder' \in [Specs -> SUBSET Agents] /\ agent' \in [Agents -> Statuses]
         /\ Held' /\ OneTaskPerInstance'
<1>. USE DEF DelegationInv
<1>1. /\ holder' \in [Specs -> SUBSET Agents] /\ holder'[t] = {}
      /\ \A s \in Specs \ {t} : holder'[s] = holder[s]
      /\ agent' \in [Agents -> Statuses]
      /\ \A a \in Agents : agent'[a] = IF a \in holder[t] THEN "ready" ELSE agent[a]
  BY DEF PutBack, DelegationShape, Statuses
<1>2. Held'
  <2>1. ASSUME NEW s \in Specs, holder'[s] # {}
        PROVE  AtWorkInPlace(s)'
    <3>1. s # t /\ holder'[s] = holder[s] /\ holder[s] # {} /\ holder[s] \subseteq Agents
      BY <1>1, <2>1 DEF DelegationShape
    <3>2. AtWorkInPlace(s)
      BY <3>1 DEF Held
    <3>3. \A a \in holder[s] \ forced : a \notin holder[t]
      BY <3>1 DEF OneTaskPerInstance
    <3>4. \A a \in holder'[s] \ forced' : agent'[a] # "ready"
      BY <1>1, <3>1, <3>2, <3>3 DEF AtWorkInPlace
    <3>. QED  BY <3>1, <3>2, <3>4 DEF AtWorkInPlace
  <2>. QED  BY <2>1 DEF Held
<1>3. \A s, u \in Specs : (holder'[s] \cap holder'[u]) \ forced' # {} => s = u
  BY <1>1 DEF OneTaskPerInstance
<1>4. ASSUME NEW a \in Agents \ forced', agent'[a] = "busy"
      PROVE  \E s \in Specs : a \in holder'[s]
  <2>1. a \notin holder[t] /\ agent[a] = "busy" /\ a \notin forced
    BY <1>1, <1>4
  <2>2. PICK s \in Specs : a \in holder[s]
    BY <2>1 DEF OneTaskPerInstance
  <2>. QED  BY <1>1, <2>1, <2>2
<1>. QED  BY <1>1, <1>2, <1>3, <1>4 DEF OneTaskPerInstance

\* What completed is kept by the end of a delegation.
LEMMA EndDepends ==
  ASSUME DelegationInv, NEW t \in Specs,
         deleg[t] # "none", deleg'[t] # "none", \A s \in Specs \ {t} : deleg'[s] = deleg[s],
         deleg[t] # "completed",
         \A s \in Specs : outcome'[s] = "completed" => deleg'[s] = "completed"
  PROVE  DependenciesCompleted'
<1>1. \A s \in Specs : deleg[s] = "completed" => deleg'[s] = "completed"
  OBVIOUS
<1>2. \A s \in Specs : Needs[s] \subseteq Specs /\ (deleg'[s] # "none" => deleg[s] # "none")
  OBVIOUS
<1>. QED  BY <1>1, <1>2 DEF DelegationInv, DependenciesCompleted

\* The end of a delegation its batch waits for, however it comes.
LEMMA EndKeeps ==
  ASSUME DelegationInv, NEW t \in Specs, NEW r \in Outcomes \ {"none"},
         Awaited(t), PutBack(t), Answer(t, r), UNCHANGED <<children, known, drains, forced>>,
         deleg' \in [Specs -> {"none", "running"} \cup Ended],
         \A s \in Specs \ {t} : deleg'[s] = deleg[s],
         deleg'[t] \in Ended, deleg[t] = "running" \/ deleg'[t] = deleg[t],
         r = "completed" => deleg'[t] = "completed"
  PROVE  DelegationInv'
<1>. USE DEF DelegationInv
<1>1. deleg[t] \in {"running", "revoked"} /\ outcome[t] = "none"
  BY DEF Awaited, AtWork, Held, AtWorkInPlace
<1>2. /\ outcome' \in [Specs -> Outcomes] /\ outcome'[t] = r
      /\ \A s \in Specs \ {t} : outcome'[s] = outcome[s]
      /\ wave' \in [Batches -> SUBSET Specs]
      /\ \A b \in Batches : wave'[b] \subseteq wave[b]
      /\ \A s \in Specs \ {t} : outcome[s] = "none" /\ s \in wave[BatchOf[s]]
                                => s \in wave'[BatchOf[s]]
  BY Answered
<1>3. /\ holder' \in [Specs -> SUBSET Agents] /\ agent' \in [Agents -> Statuses]
      /\ Held' /\ OneTaskPerInstance'
  BY <1>2, BackInPlace
<1>4. DelegationShape'
  BY <1>2, <1>3 DEF DelegationShape
<1>5. WavesReady'
  <2>1. \A s \in Specs : outcome[s] = "completed" => outcome'[s] = "completed"
    BY <1>1, <1>2
  <2>. QED  BY <1>2, <2>1, WavesStayReady
<1>6. DependenciesCompleted'
  <2>1. \A s \in Specs : outcome'[s] = "completed" => deleg'[s] = "completed"
    BY <1>1, <1>2 DEF DependenciesCompleted
  <2>. QED  BY <1>1, <2>1, EndDepends DEF Ended
<1>7. Counted' /\ ChildrenWithinLimit'
  BY <1>1, SameChildren DEF Ended
<1>. QED  BY <1>3, <1>4, <1>5, <1>6, <1>7

LEMMA RespondKeeps ==
  ASSUME DelegationInv, NEW t \in Specs,
         NEW result \in {"completed", "failed", "waiting", "cancelled"}, Respond(t, result)
  PROVE  DelegationInv'
<1>1. deleg[t] \in {"running", "revoked"} /\ deleg \in [Specs -> {"none", "running"} \cup Ended]
  BY DEF Respond, Awaited, AtWork, DelegationInv, Held, AtWorkInPlace, DelegationShape
<1>2. Awaited(t) /\ PutBack(t) /\ UNCHANGED <<children, known, drains, forced>>
  BY DEF Respond
<1>3. CASE deleg[t] = "running"
  <2>1. /\ deleg' = [deleg EXCEPT ![t] = IF result = "completed" THEN "completed" ELSE "failed"]
        /\ Answer(t, result) /\ result \in Outcomes \ {"none"}
    BY <1>3 DEF Respond, Outcomes
  <2>. QED  BY <1>1, <1>2, <1>3, <2>1, EndKeeps DEF Ended
<1>4. CASE deleg[t] = "revoked"
  <2>1. deleg' = deleg /\ Answer(t, "failed") /\ "failed" \in Outcomes \ {"none"}
    BY <1>4 DEF Respond, Outcomes
  <2>. QED  BY <1>1, <1>2, <1>4, <2>1, EndKeeps DEF Ended
<1>. QED  BY <1>1, <1>3, <1>4

LEMMA FailKeeps ==
  ASSUME DelegationInv, NEW t \in Specs, Fail(t)
  PROVE  DelegationInv'
<1>1. deleg[t] \in {"running", "revoked"} /\ deleg \in [Specs -> {"none", "running"} \cup Ended]
  BY DEF Fail, Awaited, AtWork, DelegationInv, Held, AtWorkInPlace, DelegationShape
<1>2. /\ Awaited(t) /\ PutBack(t) /\ UNCHANGED <<children, known, drains, forced>>
      /\ deleg' = IF deleg[t] = "running" THEN [deleg EXCEPT ![t] = "failed"] ELSE deleg
      /\ Answer(t, "failed") /\ "failed" \in Outcomes \ {"none"}
  BY DEF Fail, Outcomes
<1>. QED  BY <1>1, <1>2, EndKeeps DEF Ended

\* A cancelled executor that has unwound.
LEMMA UnwindKeeps ==
  ASSUME DelegationInv, NEW t \in Specs, Unwind(t)
  PROVE  DelegationInv'
<1>. USE DEF DelegationInv
<1>1. /\ deleg[t] \in {"running", "revoked"} /\ outcome[t] = "lost" /\ PutBack(t)
      /\ UNCHANGED <<wave, outcome, children, known, drains, forced>>
  BY DEF Unwind, AtWork, Held, AtWorkInPlace
<1>2. /\ deleg' \in [Specs -> {"none", "running"} \cup Ended]
      /\ \A s \in Specs \ {t} : deleg'[s] = deleg[s]
      /\ deleg'[t] # "none"
  <2>1. CASE deleg' = deleg
    BY <1>1, <2>1 DEF DelegationShape
  <2>2. CASE \E end \in {"completed", "failed"} : deleg' = [deleg EXCEPT ![t] = end]
    BY <2>2 DEF DelegationShape, Ended
  <2>. QED  BY <2>1, <2>2 DEF Unwind
<1>3. /\ holder' \in [Specs -> SUBSET Agents] /\ agent' \in [Agents -> Statuses]
      /\ Held' /\ OneTaskPerInstance'
  BY <1>1, <1>2, BackInPlace
<1>4. DelegationShape'
  BY <1>1, <1>2, <1>3 DEF DelegationShape
<1>5. WavesReady'
  BY <1>1 DEF WavesReady
<1>6. DependenciesCompleted'
  <2>1. \A s \in Specs : outcome'[s] = "completed" => deleg'[s] = "completed"
    BY <1>1, <1>2 DEF DependenciesCompleted
  <2>. QED  BY <1>1, <1>2, <2>1, EndDepends
<1>7. Counted' /\ ChildrenWithinLimit'
  BY <1>1, <1>2, SameChildren
<1>. QED  BY <1>3, <1>4, <1>5, <1>6, <1>7

\* A request that is turned down.
LEMMA RejectKeeps ==
  ASSUME DelegationInv, NEW t \in Specs, Turn(t), Answer(t, "rejected"),
         UNCHANGED <<deleg, holder, agent, children, known, drains, forced>>
  PROVE  DelegationInv'
<1>. USE DEF DelegationInv
<1>1. deleg[t] = "none" /\ outcome[t] = "none" /\ "rejected" \in Outcomes \ {"none"} /\ holder[t] = {}
  BY DEF Turn, Outcomes, Held, AtWorkInPlace
<1>2. /\ outcome' \in [Specs -> Outcomes] /\ outcome'[t] = "rejected"
      /\ \A s \in Specs \ {t} : outcome'[s] = outcome[s]
      /\ wave' \in [Batches -> SUBSET Specs]
      /\ \A b \in Batches : wave'[b] \subseteq wave[b]
      /\ \A s \in Specs \ {t} : outcome[s] = "none" /\ s \in wave[BatchOf[s]]
                                => s \in wave'[BatchOf[s]]
  BY <1>1, Answered
<1>3. DelegationShape'
  BY <1>2 DEF DelegationShape
<1>4. Held'
  <2>1. \A s \in Specs : holder[s] # {} => s # t
    BY <1>1
  <2>. QED  BY <1>2, <2>1 DEF Held, AtWorkInPlace
<1>5. WavesReady'
  <2>1. \A s \in Specs : outcome[s] = "completed" => outcome'[s] = "completed"
    BY <1>1, <1>2
  <2>. QED  BY <1>2, <2>1, WavesStayReady
<1>6. OneTaskPerInstance'
  BY DEF OneTaskPerInstance
<1>7. DependenciesCompleted'
  BY <1>2 DEF DependenciesCompleted
<1>8. Counted' /\ ChildrenWithinLimit'
  BY SameChildren
<1>. QED  BY <1>3, <1>4, <1>5, <1>6, <1>7, <1>8

LEMMA DelegateKeeps ==
  ASSUME DelegationInv, NEW t \in Specs, Delegate(t)
  PROVE  DelegationInv'
<1>. USE DEF DelegationInv
<1>1. CASE Fits(t) = {} \/ ~Reservable(t)
  BY <1>1, RejectKeeps DEF Delegate
<1>2. CASE Fits(t) # {} /\ Reservable(t)
  <2>. DEFINE a == Selected(t)
  <2>1. a \in Agents /\ agent[a] = "ready"
    <3>1. Fits(t) \in SUBSET Nat /\ Fits(t) \subseteq Agents
      BY DEF Fits
    <3>2. Selected(t) \in Fits(t)
      BY <1>2, <3>1, Least DEF Selected
    <3>. QED  BY <3>1, <3>2 DEF Fits
  <2>2. /\ holder' = [holder EXCEPT ![t] = {a}] /\ agent' = [agent EXCEPT ![a] = "busy"]
        /\ deleg' = [deleg EXCEPT ![t] = "running"]
        /\ children' = IF ParentOf[t] = 0 THEN children ELSE [children EXCEPT ![ParentOf[t]] = @ + 1]
        /\ known' = known \cup {t}
        /\ UNCHANGED <<wave, outcome, drains, forced>>
    BY <1>2 DEF Delegate
  <2>. HIDE DEF a
  <2>3. t \in wave[BatchOf[t]] /\ deleg[t] = "none" /\ outcome[t] = "none" /\ holder[t] = {}
    BY DEF Delegate, Turn, Held, AtWorkInPlace
  <2>4. /\ holder'[t] = {a} /\ \A s \in Specs \ {t} : holder'[s] = holder[s]
        /\ deleg'[t] = "running" /\ \A s \in Specs \ {t} : deleg'[s] = deleg[s]
        /\ agent'[a] = "busy" /\ \A b \in Agents \ {a} : agent'[b] = agent[b]
    BY <2>1, <2>2 DEF DelegationShape
  <2>5. \A s \in Specs : a \notin holder[s] \ forced
    BY <2>1 DEF Held, AtWorkInPlace
  <2>6. DelegationShape'
    BY <2>1, <2>2 DEF DelegationShape, Statuses
  <2>7. Held'
    <3>1. ASSUME NEW s \in Specs, holder'[s] # {}
          PROVE  AtWorkInPlace(s)'
      <4>1. CASE s = t
        BY <2>2, <2>3, <2>4, <4>1 DEF AtWorkInPlace
      <4>2. CASE s # t
        <5>1. AtWorkInPlace(s) /\ holder[s] \subseteq Agents
          BY <2>4, <3>1, <4>2 DEF Held, DelegationShape
        <5>. QED  BY <2>2, <2>4, <2>5, <4>2, <5>1 DEF AtWorkInPlace
      <4>. QED  BY <4>1, <4>2
    <3>. QED  BY <3>1 DEF Held
  <2>8. WavesReady'
    BY <2>2 DEF WavesReady
  <2>9. OneTaskPerInstance'
    <3>1. \A s, u \in Specs : (holder'[s] \cap holder'[u]) \ forced' # {} => s = u
      BY <2>2, <2>4, <2>5 DEF OneTaskPerInstance
    <3>2. ASSUME NEW b \in Agents \ forced', agent'[b] = "busy"
          PROVE  \E s \in Specs : b \in holder'[s]
      <4>1. CASE b = a
        BY <2>4, <4>1
      <4>2. CASE b # a
        BY <2>2, <2>3, <2>4, <3>2, <4>2 DEF OneTaskPerInstance
      <4>. QED  BY <4>1, <4>2
    <3>. QED  BY <3>1, <3>2 DEF OneTaskPerInstance
  <2>10. DependenciesCompleted'
    <3>1. \A n \in Needs[t] : deleg[n] = "completed" /\ n \in Specs
      <4>1. BatchOf[t] \in Batches /\ Needs[t] \subseteq Specs
        OBVIOUS
      <4>. QED  BY <2>3, <4>1 DEF WavesReady, DependenciesCompleted
    <3>2. \A s \in Specs : deleg[s] = "completed" => deleg'[s] = "completed"
      BY <2>3, <2>4
    <3>3. \A s \in Specs : Needs[s] \subseteq Specs
      OBVIOUS
    <3>4. \A s \in Specs : deleg'[s] # "none" => \A n \in Needs[s] : deleg'[n] = "completed"
      BY <2>4, <3>1, <3>2, <3>3 DEF DependenciesCompleted
    <3>5. \A s \in Specs : outcome'[s] = "completed" => deleg'[s] = "completed"
      BY <2>2, <3>2 DEF DependenciesCompleted
    <3>. QED  BY <3>4, <3>5 DEF DependenciesCompleted
  <2>11. ASSUME NEW p \in Specs, p # ParentOf[t]
         PROVE  Begun(p)' = Begun(p)
    BY <2>4, <2>11 DEF Begun
  <2>12. CASE ParentOf[t] = 0
    <3>1. children' = children /\ \A p \in Specs : Begun(p)' = Begun(p)
      BY <2>2, <2>11, <2>12
    <3>2. Counted' /\ ChildrenWithinLimit'
      BY <3>1 DEF Counted, ChildrenWithinLimit
    <3>. QED  BY <2>6, <2>7, <2>8, <2>9, <2>10, <3>2
  <2>13. CASE ParentOf[t] # 0
    <3>. DEFINE p == ParentOf[t]
    <3>1. p \in Specs /\ children[p] < MaxChildren[t] /\ MaxChildren[t] \in Nat
      BY <1>2, <2>13 DEF Reservable
    <3>2. Begun(p)' = Begun(p) \cup {t} /\ t \notin Begun(p) /\ IsFiniteSet(Begun(p))
      <4>1. Begun(p)' = Begun(p) \cup {t} /\ t \notin Begun(p) /\ Begun(p) \subseteq Specs
        BY <2>3, <2>4 DEF Begun
      <4>. QED  BY <4>1, FS_Subset
    <3>. HIDE DEF p
    <3>3. Cardinality(Begun(p)') = Cardinality(Begun(p)) + 1 /\ Cardinality(Begun(p)) \in Nat
      BY <3>2, FS_AddElement, FS_CardinalityType
    <3>4. children[p] = Cardinality(Begun(p)) /\ children' = [children EXCEPT ![p] = @ + 1]
      BY <2>2, <2>13, <3>1 DEF p, Counted
    <3>5. \A q \in Specs \ {p} : Begun(q)' = Begun(q)
      BY <2>11 DEF p
    <3>6. Counted'
      BY <3>1, <3>3, <3>4, <3>5 DEF Counted
    <3>7. ChildrenWithinLimit'
      <4>1. t \in Begun(p)' /\ Cardinality(Begun(p)') <= MaxChildren[t]
        BY <3>1, <3>2, <3>3, <3>4
      <4>. QED  BY <3>5, <4>1 DEF ChildrenWithinLimit
    <3>. QED  BY <2>6, <2>7, <2>8, <2>9, <2>10, <3>6, <3>7
  <2>. QED  BY <2>12, <2>13
<1>. QED  BY <1>1, <1>2

LEMMA NextWaveKeeps ==
  ASSUME DelegationInv, NEW b \in Batches, NextWave(b)
  PROVE  DelegationInv'
<1>. USE DEF DelegationInv
<1>1. /\ wave[b] = {} /\ wave' = [wave EXCEPT ![b] = {t \in InReach(b) : ~Blocked(t)}]
      /\ outcome' = [t \in Specs |-> IF t \in InReach(b) /\ Blocked(t) THEN "rejected" ELSE outcome[t]]
      /\ UNCHANGED <<deleg, holder, agent, children, known, drains, forced>>
  BY DEF NextWave
<1>2. \A t \in InReach(b) : t \in Specs /\ BatchOf[t] = b /\ outcome[t] = "none"
  BY DEF InReach, SpecsOf
<1>3. DelegationShape'
  BY <1>1, <1>2 DEF DelegationShape, Outcomes
<1>4. \A t \in Specs : outcome[t] = "completed" <=> outcome'[t] = "completed"
  BY <1>1, <1>2
<1>5. Held'
  <2>1. \A t \in Specs : holder[t] # {} =>
          \/ outcome[t] = "none" /\ BatchOf[t] # b /\ BatchOf[t] \in Batches
          \/ outcome[t] = "lost"
    BY <1>1 DEF Held, AtWorkInPlace
  <2>2. ASSUME NEW t \in Specs, holder[t] # {}
        PROVE  AtWorkInPlace(t)'
    <3>1. AtWorkInPlace(t) /\ t \notin InReach(b)
      BY <1>2, <2>1, <2>2 DEF Held
    <3>2. outcome'[t] = outcome[t]
      BY <1>1, <3>1
    <3>3. outcome[t] = "none" /\ t \in wave[BatchOf[t]] => t \in wave'[BatchOf[t]]
      BY <1>1, <2>1, <2>2 DEF DelegationShape
    <3>. QED  BY <1>1, <3>1, <3>2, <3>3 DEF AtWorkInPlace
  <2>. QED  BY <1>1, <2>2 DEF Held
<1>6. WavesReady'
  <2>1. \A t \in wave'[b] : BatchOf[t] = b /\ \A n \in Needs[t] : outcome[n] = "completed" /\ n \in Specs
    BY <1>1, <1>2 DEF Blocked, DelegationShape
  <2>2. \A c \in Batches \ {b} : \A t \in wave'[c] :
          BatchOf[t] = c /\ \A n \in Needs[t] : outcome[n] = "completed" /\ n \in Specs
    BY <1>1 DEF WavesReady, DelegationShape
  <2>. QED  BY <1>4, <2>1, <2>2 DEF WavesReady
<1>7. OneTaskPerInstance' /\ DependenciesCompleted'
  BY <1>1, <1>4 DEF OneTaskPerInstance, DependenciesCompleted
<1>8. Counted' /\ ChildrenWithinLimit'
  BY <1>1, SameChildren
<1>. QED  BY <1>3, <1>5, <1>6, <1>7, <1>8

LEMMA CancelBatchKeeps ==
  ASSUME DelegationInv, NEW b \in Batches, CancelBatch(b)
  PROVE  DelegationInv'
<1>. USE DEF DelegationInv
<1>1. /\ wave' = [wave EXCEPT ![b] = {}]
      /\ outcome' = [t \in Specs |-> IF BatchOf[t] = b /\ outcome[t] = "none" THEN "lost" ELSE outcome[t]]
      /\ UNCHANGED <<deleg, holder, agent, children, known, drains, forced>>
  BY DEF CancelBatch
<1>2. DelegationShape'
  BY <1>1 DEF DelegationShape, Outcomes
<1>3. \A t \in Specs : outcome[t] = "completed" <=> outcome'[t] = "completed"
  BY <1>1
<1>4. Held'
  <2>1. ASSUME NEW t \in Specs, AtWorkInPlace(t)
        PROVE  AtWorkInPlace(t)'
    <3>1. CASE BatchOf[t] = b
      BY <1>1, <2>1, <3>1 DEF AtWorkInPlace
    <3>2. CASE BatchOf[t] # b
      <4>1. outcome'[t] = outcome[t] /\ wave'[BatchOf[t]] = wave[BatchOf[t]]
        BY <1>1, <3>2 DEF DelegationShape
      <4>. QED  BY <1>1, <2>1, <4>1 DEF AtWorkInPlace
    <3>. QED  BY <3>1, <3>2
  <2>. QED  BY <1>1, <2>1 DEF Held
<1>5. WavesReady'
  <2>1. \A c \in Batches : wave'[c] \subseteq wave[c]
    BY <1>1 DEF DelegationShape
  <2>. QED  BY <1>3, <2>1, WavesStayReady
<1>6. OneTaskPerInstance' /\ DependenciesCompleted'
  BY <1>1, <1>3 DEF OneTaskPerInstance, DependenciesCompleted
<1>7. Counted' /\ ChildrenWithinLimit'
  BY <1>1, SameChildren
<1>. QED  BY <1>2, <1>4, <1>5, <1>6, <1>7

LEMMA RevokeKeeps ==
  ASSUME DelegationInv, NEW t \in Specs, Revoke(t)
  PROVE  DelegationInv'
<1>. USE DEF DelegationInv
<1>1. /\ deleg[t] = "running" /\ deleg' = [deleg EXCEPT ![t] = "revoked"]
      /\ UNCHANGED <<wave, outcome, holder, agent, children, known, drains, forced>>
  BY DEF Revoke
<1>2. DelegationShape'
  BY <1>1 DEF DelegationShape, Ended
<1>3. deleg'[t] = "revoked" /\ \A s \in Specs \ {t} : deleg'[s] = deleg[s]
  BY <1>1 DEF DelegationShape
<1>4. Held' /\ WavesReady' /\ OneTaskPerInstance'
  BY <1>1, <1>3 DEF Held, AtWorkInPlace, WavesReady, OneTaskPerInstance
<1>5. DependenciesCompleted'
  <2>1. \A s \in Specs : Needs[s] \subseteq Specs
    OBVIOUS
  <2>. QED  BY <1>1, <1>3, <2>1 DEF DependenciesCompleted
<1>6. Counted' /\ ChildrenWithinLimit'
  BY <1>1, <1>3, SameChildren
<1>. QED  BY <1>2, <1>4, <1>5, <1>6

LEMMA SetStatusKeeps ==
  ASSUME DelegationInv, NEW a \in Agents, NEW status \in Statuses, SetStatus(a, status)
  PROVE  DelegationInv'
<1>. USE DEF DelegationInv
<1>1. /\ drains < MaxDrains /\ drains' = drains + 1
      /\ agent' = [agent EXCEPT ![a] = status]
      /\ forced \subseteq forced' /\ forced' \subseteq forced \cup {a}
      /\ status = "busy" => a \in forced'
      /\ (status = "ready" /\ \E t \in Specs : a \in holder[t]) => a \in forced'
      /\ UNCHANGED <<wave, outcome, deleg, holder, children, known>>
  BY DEF SetStatus
<1>2. DelegationShape'
  BY <1>1 DEF DelegationShape
<1>3. agent'[a] = status /\ \A b \in Agents \ {a} : agent'[b] = agent[b]
  BY <1>1 DEF DelegationShape
<1>4. Held'
  <2>1. ASSUME NEW t \in Specs, holder[t] # {}
        PROVE  AtWorkInPlace(t)'
    <3>1. AtWorkInPlace(t) /\ holder[t] \subseteq Agents
      BY <2>1 DEF Held, DelegationShape
    <3>2. ASSUME NEW c \in holder[t] \ forced'
          PROVE  agent'[c] # "ready"
      BY <1>1, <1>3, <3>1, <3>2 DEF AtWorkInPlace
    <3>. QED  BY <1>1, <3>1, <3>2 DEF AtWorkInPlace
  <2>. QED  BY <1>1, <2>1 DEF Held
<1>5. OneTaskPerInstance'
  <2>1. \A s, u \in Specs : (holder'[s] \cap holder'[u]) \ forced' # {} => s = u
    BY <1>1 DEF OneTaskPerInstance
  <2>2. \A c \in Agents \ forced' : agent'[c] = "busy" => \E t \in Specs : c \in holder'[t]
    BY <1>1, <1>3 DEF OneTaskPerInstance
  <2>. QED  BY <2>1, <2>2 DEF OneTaskPerInstance
<1>6. WavesReady' /\ DependenciesCompleted'
  BY <1>1 DEF WavesReady, DependenciesCompleted
<1>7. Counted' /\ ChildrenWithinLimit'
  BY <1>1, SameChildren
<1>. QED  BY <1>2, <1>4, <1>5, <1>6, <1>7

(* The invariant behind the delegation's properties, for any batches, limits    *)
(* and instances.                                                            *)
THEOREM DelegationInductive == DelegationSpec => []DelegationInv
<1>1. ASSUME DelegationInv, [DelegationNext]_dvars
      PROVE  DelegationInv'
  <2>1. CASE UNCHANGED dvars
    <3>1. UNCHANGED <<wave, outcome, deleg, holder, agent, children, known, drains, forced>>
      BY <2>1 DEF dvars
    <3>2. Counted' /\ ChildrenWithinLimit'
      BY <1>1, <3>1, SameChildren DEF DelegationInv
    <3>. QED  BY <1>1, <3>1, <3>2 DEF DelegationInv, DelegationShape, Held, AtWorkInPlace, WavesReady,
                 OneTaskPerInstance, DependenciesCompleted
  <2>2. CASE DelegationNext
    BY <1>1, <2>2, NextWaveKeeps, CancelBatchKeeps, DelegateKeeps, FailKeeps, RespondKeeps,
       UnwindKeeps, RevokeKeeps, SetStatusKeeps DEF DelegationNext, SpecNext
  <2>. QED  BY <1>1, <2>1, <2>2
<1>. QED  BY <1>1, DelegationInvInit, PTL DEF DelegationSpec

(* Delegations keep their types; the child count of a spec is the number of        *)
(* delegations it has begun, and so at most that of all specs                    *)
(* (_reserve_delegation).                                                     *)
THEOREM DelegationTypes == DelegationSpec => []DelegationTypeOK
<1>1. ASSUME DelegationInv
      PROVE  DelegationTypeOK
  <2>1. ASSUME NEW p \in Specs
        PROVE  Cardinality(Begun(p)) \in 0..Cardinality(Specs)
    <3>1. Begun(p) \subseteq Specs /\ IsFiniteSet(Specs)
      BY DEF Begun
    <3>2. IsFiniteSet(Begun(p)) /\ Cardinality(Begun(p)) <= Cardinality(Specs)
      BY <3>1, FS_Subset
    <3>3. Cardinality(Begun(p)) \in Nat /\ Cardinality(Specs) \in Nat
      BY <3>1, <3>2, FS_CardinalityType
    <3>. QED  BY <3>2, <3>3
  <2>2. children \in [Specs -> 0..Cardinality(Specs)]
    BY <1>1, <2>1 DEF DelegationInv, Counted
  <2>. QED  BY <1>1, <2>2 DEF DelegationInv, DelegationShape, DelegationTypeOK
<1>. QED  BY <1>1, DelegationInductive, PTL

(* An instance carries out one task at a time and a busy one has a task, unless   *)
(* its owner called it ready at work or busy at rest: nothing the orchestrator    *)
(* does by itself breaks it (_select_instance, _execute_on_instance,             *)
(* update_instance_status).                                                   *)
THEOREM DelegationOneTask == DelegationSpec => []OneTaskPerInstance
<1>1. DelegationInv => OneTaskPerInstance
  BY DEF DelegationInv
<1>. QED  BY <1>1, DelegationInductive, PTL

(* A delegated spec has its dependencies completed, and completed results are     *)
(* completed delegations (delegate_many, complete).                            *)
THEOREM DelegationDependencies == DelegationSpec => []DependenciesCompleted
<1>1. DelegationInv => DependenciesCompleted
  BY DEF DelegationInv
<1>. QED  BY <1>1, DelegationInductive, PTL

(* No parent has more children than its limit (_reserve_delegation).              *)
THEOREM DelegationChildren == DelegationSpec => []ChildrenWithinLimit
<1>1. DelegationInv => ChildrenWithinLimit
  BY DEF DelegationInv
<1>. QED  BY <1>1, DelegationInductive, PTL

=============================================================================
