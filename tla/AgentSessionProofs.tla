------------------------- MODULE AgentSessionProofs -------------------------
(***************************************************************************)
(* Theorems about AgentSession for every number of sessions, proposals and  *)
(* resources and every budget.                                              *)
(***************************************************************************)
EXTENDS AgentSession, TLAPS

(* The invariant behind the types, in three parts: what the versioned store  *)
(* and its writers hold, the locks, and the rest.  That a driver which works *)
(* on an action has one in hand, and a confirmed call one pending, is what   *)
(* keeps the records of proposals well typed.                                *)
HasAction(d) ==
  /\ d.pc \in {"driving", "checking", "tool", "announcing", "reconciling"} => d.act # NoAction
  /\ d.pc \in {"entering", "entered"} /\ d.plan = "confirm" => d.mem.pending # NoAction

StoreOK ==
  /\ store \in [Sessions -> StateType]
  /\ drv \in [Sessions -> DriverType]
  /\ \A s \in Sessions : HasAction(drv[s])
  /\ req \in [Sessions -> RequestType]
  /\ ctl \in [Sessions -> CallType]

LocksOK == locks \in [Resources -> LockType]

WorldOK ==
  /\ seen \in [Sessions -> SUBSET Proposals]
  /\ rule \in [Proposals -> Rules]
  /\ consent \in [Sessions -> SUBSET Proposals]
  /\ ran \in [Sessions -> SUBSET Proposals]
  /\ cut \in [Sessions -> SUBSET Proposals]

TInv == StoreOK /\ LocksOK /\ WorldOK

LEMMA TypesSplit == TInv => SessionTypeOK
  BY DEF TInv, SessionTypeOK, StoreOK, LocksOK, WorldOK

-----------------------------------------------------------------------------
(* Types of the values the actions build.                                    *)

LEMMA Constants ==
  /\ MaxIterations \in Nat \ {0} /\ MaxSteps \in Nat \ {0} /\ MaxTries \in Nat
  /\ Ids \subseteq Nat \ {0} /\ Threaded \in BOOLEAN
  /\ NoSession \notin Sessions /\ NoResource \notin Resources
  BY SessionAssumption DEF SessionAssumption

LEMMA NoActionType == NoAction \in ActionType
  BY DEF NoAction, ActionType

LEMMA BlankType == Blank \in StateType
  BY NoActionType, Constants DEF Blank, StateType, Statuses, Terminal

LEMMA NoDriverType == NoDriver \in DriverType
  BY BlankType, NoActionType, Constants DEF NoDriver, DriverType, Plans

LEMMA NoCallType == NoCall \in CallType /\ NoRequest \in RequestType
  BY BlankType DEF NoCall, CallType, NoRequest, RequestType

LEMMA StateMoves ==
  ASSUME NEW m \in StateType
  PROVE  /\ Snapshot(m) \in StateType /\ Waiting(m) \in StateType
         /\ Failed(m) \in StateType /\ Cancelled(m) \in StateType
         /\ Finished(m) \in StateType /\ Cleared(m) \in StateType
         /\ Unpend(m) \in StateType
<1>1. /\ Waiting(m) \in StateType /\ Failed(m) \in StateType
      /\ [m EXCEPT !.status = "completed"] \in StateType
  BY DEF Waiting, Failed, StateType, Statuses, Terminal
<1>2. Snapshot(m) \in StateType
  BY DEF Snapshot, StateType
<1>3. Unpend(m) \in StateType /\ [m EXCEPT !.pending = NoAction] \in StateType
  BY NoActionType DEF Unpend, StateType
<1>4. Cancelled(m) \in StateType
  BY NoActionType DEF Cancelled, StateType, Statuses, Terminal
<1>5. Finished(m) \in StateType
  BY <1>1 DEF Finished
<1>6. Cleared(m) \in StateType
  BY <1>3 DEF Cleared
<1> QED
  BY <1>1, <1>2, <1>3, <1>4, <1>5, <1>6

\* A recovery attempt is counted only below the budget.
LEMMA SpentType ==
  ASSUME NEW m \in StateType, NEW plan \in {"retry", "ask", "stop"}
  PROVE  Spent(m, plan) \in StateType /\ Allowed(m, plan) \in {"retry", "ask", "stop"}
<1>1. m.tries \in Nat /\ m.tries <= MaxTries
  BY Constants DEF StateType
<1>2. CASE plan = "stop" \/ Exhausted(m)
  BY <1>2 DEF Spent, Allowed
<1>3. CASE ~(plan = "stop" \/ Exhausted(m))
  <2>1. m.tries + 1 \in 0..MaxTries
    BY <1>1, <1>3, Constants DEF Exhausted
  <2>2. [m EXCEPT !.tries = @ + 1] \in StateType
    BY <2>1 DEF StateType
  <2> QED
    BY <1>3, <2>2 DEF Spent, Allowed
<1> QED
  BY <1>2, <1>3

LEMMA CountedType ==
  ASSUME NEW m \in StateType, m.iter # MaxIterations
  PROVE  Counted(m) \in StateType
<1>1. m.iter + 1 \in 0..MaxIterations
  BY Constants DEF StateType
<1> QED
  BY <1>1 DEF Counted, StateType

\* What a driver's record may be changed into.
LEMMA DriverMoves ==
  ASSUME NEW d \in DriverType
  PROVE  /\ \A p \in {"none"} \cup Quiet \cup Active : [d EXCEPT !.pc = p] \in DriverType
         /\ \A m \in StateType : [d EXCEPT !.mem = m] \in DriverType
         /\ \A a \in ActionType : [d EXCEPT !.act = a] \in DriverType
         /\ \A b \in BOOLEAN : [d EXCEPT !.conf = b] \in DriverType
         /\ \A b \in BOOLEAN : [d EXCEPT !.fresh = b] \in DriverType
         /\ \A b \in BOOLEAN : [d EXCEPT !.handling = b] \in DriverType
         /\ \A p \in Plans : [d EXCEPT !.plan = p] \in DriverType
         /\ \A n \in 0..MaxSteps : [d EXCEPT !.steps = n] \in DriverType
  BY DEF DriverType

LEMMA DriverFields ==
  ASSUME NEW d \in DriverType
  PROVE  /\ d.mem \in StateType /\ d.act \in ActionType /\ d.plan \in Plans
         /\ d.fresh \in BOOLEAN /\ d.conf \in BOOLEAN /\ d.steps \in 0..MaxSteps
         /\ d.pc \in {"none"} \cup Quiet \cup Active /\ d.handling \in BOOLEAN
  BY DEF DriverType

-----------------------------------------------------------------------------
(* Types after the operations the actions share.                             *)

LEMMA GoneType ==
  ASSUME StoreOK, NEW s \in Sessions, Gone(s)
  PROVE  /\ drv' \in [Sessions -> DriverType] /\ req' \in [Sessions -> RequestType]
         /\ \A t \in Sessions : HasAction(drv'[t])
<1>1. HasAction(NoDriver)
  BY DEF HasAction, NoDriver
<1> QED
  BY <1>1, NoDriverType, NoCallType DEF StoreOK, Gone

LEMMA CommitType ==
  ASSUME StoreOK, NEW s \in Sessions, NEW m \in StateType, NEW d \in DriverType,
         HasAction([d EXCEPT !.mem = m]),
         Commit(s, m, d)
  PROVE  StoreOK'
<1>1. CASE drv[s].fresh
  <2>1. /\ store' = [store EXCEPT ![s] = Snapshot(m)]
        /\ ctl' = [ctl EXCEPT ![s].fresh = FALSE]
        /\ drv' = [drv EXCEPT ![s] = [d EXCEPT !.mem = m]]
        /\ req' = req
    BY <1>1 DEF Commit
  <2>2. Snapshot(m) \in StateType /\ [d EXCEPT !.mem = m] \in DriverType
    BY StateMoves, DriverMoves
  <2>3. ctl' \in [Sessions -> CallType]
    BY <2>1 DEF StoreOK, CallType
  <2> QED
    BY <2>1, <2>2, <2>3 DEF StoreOK
<1>2. CASE ~drv[s].fresh
  <2>1. Gone(s) /\ store' = store /\ ctl' = ctl
    BY <1>2 DEF Commit
  <2> QED
    BY <2>1, GoneType DEF StoreOK
<1> QED
  BY <1>1, <1>2

LEMMA GoesType ==
  ASSUME StoreOK, NEW s \in Sessions, NEW d \in DriverType, HasAction(d), Goes(s, d)
  PROVE  StoreOK'
  BY DEF StoreOK, Goes

LEMMA AtType ==
  ASSUME StoreOK, NEW s \in Sessions
  PROVE  /\ drv[s] \in DriverType /\ drv[s].mem \in StateType
         /\ store[s] \in StateType /\ drv[s].act \in ActionType
         /\ \A p \in {"none"} \cup Quiet \cup Active : At(s, p) \in DriverType
<1>1. drv[s] \in DriverType /\ store[s] \in StateType
  BY DEF StoreOK
<1>2. drv[s].mem \in StateType /\ drv[s].act \in ActionType
  BY <1>1, DriverFields
<1>3. \A p \in {"none"} \cup Quiet \cup Active : At(s, p) \in DriverType
  BY <1>1, DriverMoves DEF At
<1> QED
  BY <1>1, <1>2, <1>3

\* The places the actions name.
LEMMA PlaceTypes ==
  {"entered", "leaving", "tail", "deciding", "driving", "checking", "tool",
   "announcing", "reconciling", "observing", "planned", "top"} \subseteq {"none"} \cup Quiet \cup Active
  BY DEF Quiet, Active

\* A driver without an action in hand.
LEMMA IdleType ==
  ASSUME NEW d \in DriverType
  PROVE  [d EXCEPT !.act = NoAction, !.conf = FALSE, !.steps = 0] \in DriverType
<1>1. 0 \in 0..MaxSteps
  BY Constants
<1>2. [d EXCEPT !.act = NoAction] \in DriverType
  BY DriverMoves, NoActionType
<1> DEFINE d1 == [d EXCEPT !.act = NoAction]
           d2 == [d1 EXCEPT !.conf = FALSE]
           d3 == [d2 EXCEPT !.steps = 0]
<1>3. d2 \in DriverType
  BY <1>2, DriverMoves
<1> HIDE DEF d2
<1>4. d3 \in DriverType
  BY <1>1, <1>3, DriverMoves
<1> QED
  BY <1>4 DEF d2

LEMMA ReleasedType ==
  ASSUME LocksOK, NEW s, NEW act
  PROVE  Released(s, act) \in [Resources -> LockType]
<1>1. Unlocked \in LockType
  BY DEF Unlocked, LockType
<1> QED
  BY <1>1 DEF Released, LocksOK

LEMMA LockedType ==
  ASSUME LocksOK, NEW s \in Sessions, NEW act \in ActionType
  PROVE  Locked(s, act) \in [Resources -> LockType]
<1>1. LockOf(s, act) \in LockType
  BY DEF LockOf, LockType, ActionType, NoAction
<1> QED
  BY <1>1 DEF Locked, LocksOK

LEMMA SettleType ==
  ASSUME StoreOK, LocksOK, NEW s \in Sessions, NEW m \in StateType,
         NEW place \in {"leaving", "tail"}, Settle(s, m, place)
  PROVE  StoreOK' /\ LocksOK'
<1>1. Cleared(m) \in StateType
  BY StateMoves
<1>2. At(s, place) \in DriverType
  BY AtType, PlaceTypes
<1>3. [At(s, place) EXCEPT !.act = NoAction, !.conf = FALSE, !.steps = 0] \in DriverType
  BY <1>2, IdleType
<1> DEFINE d == [At(s, place) EXCEPT !.act = NoAction, !.conf = FALSE, !.steps = 0]
<1>6. d.pc = place /\ [d EXCEPT !.mem = Cleared(m)].pc = place
  BY <1>2 DEF DriverType, At
<1>7. HasAction([d EXCEPT !.mem = Cleared(m)])
  BY <1>6 DEF HasAction
<1>8. Commit(s, Cleared(m), d) /\ d \in DriverType
  BY <1>3 DEF Settle
<1> HIDE DEF d
<1>4. StoreOK'
  BY <1>1, <1>7, <1>8, CommitType
<1>5. LocksOK'
  BY ReleasedType DEF Settle, LocksOK
<1> QED
  BY <1>4, <1>5

-----------------------------------------------------------------------------
(* The invariant, action by action.                                          *)

LEMMA WorldStays ==
  ASSUME TInv, StoreOK', LocksOK', UNCHANGED World
  PROVE  TInv'
  BY DEF TInv, WorldOK, World

LEMMA RecordTypes ==
  ASSUME TInv, NEW s \in Sessions
  PROVE  /\ store[s] \in StateType /\ drv[s] \in DriverType
         /\ req[s] \in RequestType /\ ctl[s] \in CallType /\ ctl[s].mem \in StateType
         /\ drv[s].mem \in StateType /\ drv[s].act \in ActionType /\ HasAction(drv[s])
<1>1. /\ store[s] \in StateType /\ drv[s] \in DriverType /\ HasAction(drv[s])
      /\ req[s] \in RequestType /\ ctl[s] \in CallType
  BY DEF TInv, StoreOK
<1>2. ctl[s].mem \in StateType
  BY <1>1 DEF CallType
<1>3. drv[s].mem \in StateType /\ drv[s].act \in ActionType
  BY <1>1, DriverFields
<1> QED
  BY <1>1, <1>2, <1>3

\* A call starts: the record it builds is well typed, and a confirmation has a
\* pending action to confirm.
LEMMA BeginsType ==
  ASSUME TInv, NEW s \in Sessions, NEW m \in StateType, NEW plan \in Plans,
         plan = "confirm" => m.pending # NoAction, Begins(s, m, plan)
  PROVE  TInv'
<1> DEFINE d == [NoDriver EXCEPT !.pc = "entering", !.mem = m, !.fresh = TRUE, !.plan = plan]
<1>1. d \in DriverType
  BY NoDriverType DEF NoDriver, DriverType, Quiet
<1>2. HasAction(d)
  BY DEF HasAction, NoDriver
<1>3. drv' = [drv EXCEPT ![s] = d] /\ UNCHANGED <<store, req, ctl, locks, World>>
  BY DEF Begins
<1> HIDE DEF d
<1>4. StoreOK' /\ LocksOK'
  BY <1>1, <1>2, <1>3 DEF TInv, StoreOK, LocksOK
<1> QED
  BY <1>3, <1>4, WorldStays

LEMMA RunType ==
  ASSUME TInv, NEW s \in Sessions, Run(s)
  PROVE  TInv'
<1> DEFINE m == [Blank EXCEPT !.status = "pending"]
           d == [NoDriver EXCEPT !.pc = "entering", !.fresh = TRUE, !.mem = m,
                                 !.plan = "start"]
<1>1. m \in StateType
  BY BlankType DEF Blank, StateType, Statuses
<1>2. /\ store' = [store EXCEPT ![s] = [store[s] EXCEPT !.status = "pending"]]
      /\ drv' = [drv EXCEPT ![s] = d] /\ UNCHANGED <<req, ctl, locks, World>>
  BY DEF Run
<1> HIDE DEF m
<1>3. d \in DriverType /\ HasAction(d)
  BY <1>1, NoDriverType DEF NoDriver, DriverType, Quiet, Plans, HasAction
<1>4. [store[s] EXCEPT !.status = "pending"] \in StateType
  BY RecordTypes DEF StateType, Statuses
<1> HIDE DEF d
<1>5. StoreOK' /\ LocksOK'
  BY <1>2, <1>3, <1>4 DEF TInv, StoreOK, LocksOK
<1> QED
  BY <1>2, <1>5, WorldStays

LEMMA RequestType1 ==
  ASSUME TInv, NEW s \in Sessions, RequestPause(s) \/ RequestCancel(s) \/ CancelCaller(s)
  PROVE  TInv'
<1>1. UNCHANGED <<store, drv, ctl, locks, World>>
  BY DEF RequestPause, RequestCancel, CancelCaller
<1>2. /\ [req[s] EXCEPT !.pause = TRUE] \in RequestType
      /\ [req[s] EXCEPT !.cancel = TRUE, !.hit = TRUE] \in RequestType
      /\ [req[s] EXCEPT !.hit = TRUE] \in RequestType
  BY RecordTypes DEF RequestType
<1>3. \/ req' = [req EXCEPT ![s] = [req[s] EXCEPT !.pause = TRUE]]
      \/ req' = [req EXCEPT ![s] = [req[s] EXCEPT !.cancel = TRUE, !.hit = TRUE]]
      \/ req' = [req EXCEPT ![s] = [req[s] EXCEPT !.hit = TRUE]]
  <2>1. CASE RequestPause(s)
    BY <2>1 DEF RequestPause
  <2>2. CASE RequestCancel(s)
    BY <2>2 DEF RequestCancel, TInv, StoreOK, RequestType
  <2>3. CASE CancelCaller(s)
    BY <2>3 DEF CancelCaller
  <2> QED
    BY <2>1, <2>2, <2>3
<1>4. req' \in [Sessions -> RequestType]
  BY <1>2, <1>3 DEF TInv, StoreOK
<1>5. StoreOK' /\ LocksOK'
  BY <1>1, <1>4 DEF TInv, StoreOK, LocksOK
<1> QED
  BY <1>1, <1>5, WorldStays

LEMMA ControlType ==
  ASSUME TInv, NEW s \in Sessions,
         SettleControl(s) \/ \E op \in {"pause", "cancel"} : LoadForControl(s, op)
  PROVE  TInv'
<1>1. CASE \E op \in {"pause", "cancel"} : LoadForControl(s, op)
  <2>1. ctl' \in [Sessions -> CallType] /\ UNCHANGED <<store, drv, req, locks, World>>
    BY <1>1, RecordTypes DEF LoadForControl, TInv, StoreOK, CallType
  <2>2. StoreOK' /\ LocksOK'
    BY <2>1 DEF TInv, StoreOK, LocksOK
  <2> QED
    BY <2>1, <2>2, WorldStays
<1>2. CASE SettleControl(s)
  <2>1. Waiting(ctl[s].mem) \in StateType /\ Cancelled(ctl[s].mem) \in StateType
    BY RecordTypes, StateMoves
  <2> DEFINE d == [drv[s] EXCEPT !.fresh = FALSE]
  <2>2. d \in DriverType /\ HasAction(d)
    BY RecordTypes DEF DriverType, HasAction
  <2>3. /\ \/ drv' = drv /\ store' = store
           \/ /\ drv' = [drv EXCEPT ![s] = d]
              /\ \E m \in StateType : store' = [store EXCEPT ![s] = m]
        /\ ctl' = [ctl EXCEPT ![s] = NoCall] /\ UNCHANGED <<req, locks, World>>
    BY <1>2, <2>1 DEF SettleControl
  <2> HIDE DEF d
  <2>4. StoreOK' /\ LocksOK'
    BY <2>2, <2>3, NoCallType DEF TInv, StoreOK, LocksOK
  <2> QED
    BY <2>3, <2>4, WorldStays
<1> QED
  BY <1>1, <1>2

LEMMA CallerType ==
  ASSUME TInv, NEW s \in Sessions, Caller(s)
  PROVE  TInv'
<1>1. CASE \E confirmed \in {"yes", "no", "unset"} : Resume(s, confirmed)
  <2>1. \E plan \in Plans : /\ plan = "confirm" => store[s].pending # NoAction
                            /\ Begins(s, store[s], plan)
    BY <1>1 DEF Resume, Plans
  <2> QED
    BY <2>1, BeginsType, RecordTypes
<1>2. CASE Continue(s)
  BY <1>2, BeginsType, RecordTypes DEF Continue, Plans
<1> QED
  BY <1>1, <1>2, RunType, RequestType1, ControlType DEF Caller

LEMMA SettlesType ==
  ASSUME TInv, NEW s \in Sessions, NEW m \in StateType,
         NEW place \in {"leaving", "tail"}, Settle(s, m, place), UNCHANGED World
  PROVE  TInv'
<1>1. StoreOK' /\ LocksOK'
  BY SettleType DEF TInv
<1> QED
  BY <1>1, WorldStays

\* A driver goes on at a place where it needs no action in hand.
LEMMA PlainPlace ==
  ASSUME TInv, NEW s \in Sessions, NEW m \in StateType,
         NEW place \in {"tail", "deciding", "observing", "planned", "top"}, NEW plan \in Plans
  PROVE  /\ [At(s, place) EXCEPT !.plan = plan] \in DriverType
         /\ At(s, place) \in DriverType
         /\ HasAction([At(s, place) EXCEPT !.mem = m])
         /\ HasAction([[At(s, place) EXCEPT !.plan = plan] EXCEPT !.mem = m])
         /\ HasAction(At(s, place))
         /\ HasAction([At(s, place) EXCEPT !.plan = plan])
<1>1. At(s, place) \in DriverType /\ At(s, place).pc = place
  BY RecordTypes, PlaceTypes DEF At, DriverType
<1>2. [At(s, place) EXCEPT !.plan = plan] \in DriverType
  BY <1>1, DriverMoves
<1> DEFINE d == At(s, place)
<1> HIDE DEF d
<1>3. /\ [d EXCEPT !.mem = m].pc = place /\ d.pc = place
      /\ [[d EXCEPT !.plan = plan] EXCEPT !.mem = m].pc = place
      /\ [d EXCEPT !.plan = plan].pc = place
  BY <1>1 DEF d, DriverType
<1>4. /\ HasAction([d EXCEPT !.mem = m]) /\ HasAction(d)
      /\ HasAction([[d EXCEPT !.plan = plan] EXCEPT !.mem = m])
      /\ HasAction([d EXCEPT !.plan = plan])
  BY <1>3 DEF HasAction
<1> QED
  BY <1>1, <1>2, <1>4 DEF d

LEMMA EnterLoopType ==
  ASSUME TInv, NEW s \in Sessions, EnterLoop(s)
  PROVE  TInv'
<1> DEFINE r == [drv[s].mem EXCEPT !.status = "running"]
           n == [drv[s].mem EXCEPT !.status = "running", !.iter = 0, !.tries = 0, !.cont = TRUE]
           m == IF drv[s].plan = "continue" THEN n ELSE r
           d == [At(s, "entered") EXCEPT !.plan = "loop"]
<1>1. r \in StateType
  BY RecordTypes DEF StateType, Statuses
<1>2. 0 \in 0..MaxIterations /\ 0 \in 0..MaxTries
  BY Constants
<1>3. n \in StateType
  BY <1>2, RecordTypes DEF StateType, Statuses
<1>4. d \in DriverType
  BY RecordTypes, DriverMoves, PlaceTypes DEF At, Plans
<1>5. Commit(s, m, d)
  BY DEF EnterLoop
<1>6. m \in StateType
  BY <1>1, <1>3
<1> HIDE DEF m
<1>7. HasAction([d EXCEPT !.mem = m])
  <2>1. drv[s] \in DriverType
    BY RecordTypes
  <2>2. [d EXCEPT !.mem = m].pc = "entered" /\ [d EXCEPT !.mem = m].plan = "loop"
    BY <2>1 DEF At, DriverType
  <2> QED
    BY <2>2 DEF HasAction
<1> HIDE DEF d
<1>8. StoreOK'
  BY <1>4, <1>5, <1>6, <1>7, CommitType DEF TInv
<1>9. LocksOK' /\ WorldOK'
  BY DEF EnterLoop, NextTask, TInv, LocksOK, WorldOK
<1> QED
  BY <1>8, <1>9 DEF TInv

LEMMA EnterConfirmedType ==
  ASSUME TInv, NEW s \in Sessions, EnterConfirmed(s)
  PROVE  TInv'
<1> DEFINE r == [drv[s].mem EXCEPT !.status = "running"]
           d == At(s, "entered")
<1>1. r \in StateType /\ d \in DriverType
  BY RecordTypes, DriverMoves, PlaceTypes DEF StateType, Statuses, At
<1>2. drv[s].mem.pending # NoAction
  BY RecordTypes DEF EnterConfirmed, HasAction
<1>3. r.pending = drv[s].mem.pending
  BY RecordTypes DEF StateType
<1>4. Commit(s, r, d)
  BY DEF EnterConfirmed
<1>5. [d EXCEPT !.mem = r].pc = "entered" /\ [d EXCEPT !.mem = r].mem = r
  BY RecordTypes DEF At, DriverType
<1>6. drv[s].mem.pending \in ActionType
  BY RecordTypes DEF StateType
<1> HIDE DEF r
<1>7. HasAction([d EXCEPT !.mem = r])
  BY <1>2, <1>3, <1>5 DEF HasAction
<1> HIDE DEF d
<1>8. StoreOK'
  BY <1>1, <1>4, <1>7, CommitType DEF TInv
<1>9. drv[s].mem.pending.what \in Proposals
  BY <1>2, <1>6 DEF ActionType
<1>10. consent' = [consent EXCEPT ![s] = consent[s] \cup {drv[s].mem.pending.what}]
       /\ UNCHANGED <<locks, seen, rule, ran, cut>>
  BY DEF EnterConfirmed
<1>11. LocksOK' /\ WorldOK'
  BY <1>9, <1>10 DEF TInv, LocksOK, WorldOK
<1> QED
  BY <1>8, <1>11 DEF TInv

LEMMA EnterRejectedType ==
  ASSUME TInv, NEW s \in Sessions, EnterRejected(s)
  PROVE  TInv'
<1> DEFINE m == [drv[s].mem EXCEPT !.status = "running", !.pending = NoAction]
<1>1. PICK plan \in {"retry", "ask", "stop"} :
        Commit(s, Spent(m, plan), [At(s, "entered") EXCEPT !.plan = Allowed(m, plan)])
  BY DEF EnterRejected
<1>2. m \in StateType
  BY RecordTypes, NoActionType DEF StateType, Statuses
<1> HIDE DEF m
<1> DEFINE d == [At(s, "entered") EXCEPT !.plan = Allowed(m, plan)]
<1>3. Spent(m, plan) \in StateType /\ Allowed(m, plan) \in {"retry", "ask", "stop"}
  BY <1>2, SpentType
<1>4. d \in DriverType
  BY <1>3, RecordTypes, DriverMoves, PlaceTypes DEF At, Plans
<1>5. [d EXCEPT !.mem = Spent(m, plan)].plan = Allowed(m, plan)
      /\ [d EXCEPT !.mem = Spent(m, plan)].pc = "entered"
  BY RecordTypes DEF At, DriverType
<1>6. HasAction([d EXCEPT !.mem = Spent(m, plan)])
  BY <1>3, <1>5 DEF HasAction
<1>7. Commit(s, Spent(m, plan), d)
  BY <1>1
<1> HIDE DEF d
<1>8. StoreOK'
  BY <1>3, <1>4, <1>6, <1>7, CommitType DEF TInv
<1>9. LocksOK'
  BY ReleasedType DEF TInv, EnterRejected, LocksOK
<1>10. UNCHANGED World
  BY DEF EnterRejected
<1> QED
  BY <1>8, <1>9, <1>10, WorldStays

LEMMA EnterRefusedType ==
  ASSUME TInv, NEW s \in Sessions, EnterRefused(s)
  PROVE  TInv'
  BY RecordTypes, StateMoves, SettlesType DEF EnterRefused

\* Taking up a proposal: an action in hand.
LEMMA TakesUpType ==
  ASSUME TInv, NEW s \in Sessions, NEW a \in Proposals
  PROVE  TakesUp(s, a) \in DriverType /\ HasAction(TakesUp(s, a))
<1>1. [what |-> a, id |-> 0] \in ActionType /\ [what |-> a, id |-> 0] # NoAction
  BY SessionAssumption DEF ActionType, NoAction, SessionAssumption
<1>2. drv[s] \in DriverType
  BY RecordTypes
<1>3. TakesUp(s, a) \in DriverType
  BY <1>1, <1>2 DEF TakesUp, At, DriverType, Active
<1>4. TakesUp(s, a).act = [what |-> a, id |-> 0] /\ TakesUp(s, a).pc = "driving"
  BY <1>2 DEF TakesUp, At, DriverType
<1> QED
  BY <1>1, <1>3, <1>4 DEF HasAction

LEMMA GoesOn ==
  ASSUME TInv, NEW s \in Sessions, NEW d \in DriverType, HasAction(d), Goes(s, d),
         UNCHANGED locks, UNCHANGED World
  PROVE  TInv'
<1>1. StoreOK' /\ LocksOK'
  BY GoesType DEF TInv, LocksOK
<1> QED
  BY <1>1, WorldStays

LEMMA ActivateType ==
  ASSUME TInv, NEW s \in Sessions, Activate(s)
  PROVE  TInv'
<1>1. UNCHANGED World /\ drv[s].pc = "entered"
  BY DEF Activate
<1>2. CASE drv[s].plan = "ask" /\ Settle(s, Waiting(drv[s].mem), "leaving")
  BY <1>1, <1>2, RecordTypes, StateMoves, SettlesType
<1>3. CASE drv[s].plan = "stop" /\ Settle(s, Failed(drv[s].mem), "leaving")
  BY <1>1, <1>3, RecordTypes, StateMoves, SettlesType
<1> DEFINE d == [At(s, "driving") EXCEPT !.act = drv[s].mem.pending, !.conf = TRUE]
<1>4. CASE drv[s].plan = "confirm" /\ Goes(s, d) /\ UNCHANGED locks
  <2>2. drv[s].mem.pending # NoAction /\ drv[s].mem.pending \in ActionType
    BY <1>1, <1>4, RecordTypes DEF HasAction, StateType
  <2>3. drv[s] \in DriverType
    BY RecordTypes
  <2>4. d \in DriverType
    BY <2>2, <2>3 DEF At, DriverType, Active
  <2>5. d.pc = "driving" /\ d.act = drv[s].mem.pending
    BY <2>3 DEF At, DriverType
  <2>6. HasAction(d)
    BY <2>2, <2>5 DEF HasAction
  <2> HIDE DEF d
  <2> QED
    BY <1>1, <1>4, <2>4, <2>6, GoesOn
<1>5. CASE UNCHANGED locks /\ \E a \in Proposals : Goes(s, TakesUp(s, a))
  BY <1>1, <1>5, TakesUpType, GoesOn
<1> QED
  BY <1>2, <1>3, <1>4, <1>5 DEF Activate

LEMMA RecoverType ==
  ASSUME TInv, NEW s \in Sessions, Recover(s)
  PROVE  TInv'
<1>1. UNCHANGED World
  BY DEF Recover
<1>2. CASE Settle(s, Waiting(drv[s].mem), "tail") \/ Settle(s, Failed(drv[s].mem), "tail")
  BY <1>1, <1>2, RecordTypes, StateMoves, SettlesType
<1>3. CASE UNCHANGED locks /\ \E a \in Proposals : Goes(s, TakesUp(s, a))
  BY <1>1, <1>3, TakesUpType, GoesOn
<1> QED
  BY <1>2, <1>3 DEF Recover

LEMMA ObeyType ==
  ASSUME TInv, NEW s \in Sessions, ObeyRequest(s)
  PROVE  TInv'
  BY RecordTypes, StateMoves, SettlesType DEF ObeyRequest

LEMMA LoopTopType ==
  ASSUME TInv, NEW s \in Sessions, LoopTop(s)
  PROVE  TInv'
<1>1. CASE /\ Settle(s, Failed(drv[s].mem), "tail") \/ Settle(s, Waiting(drv[s].mem), "tail")
           /\ UNCHANGED World
  BY <1>1, RecordTypes, StateMoves, SettlesType
<1>2. CASE /\ drv[s].mem.iter # MaxIterations
           /\ Commit(s, Counted(drv[s].mem), At(s, "deciding"))
           /\ UNCHANGED <<locks, World>>
  <2>1. Counted(drv[s].mem) \in StateType
    BY <1>2, RecordTypes, CountedType
  <2>2. "loop" \in Plans
    BY DEF Plans
  <2>3. StoreOK'
    BY <1>2, <2>1, <2>2, PlainPlace, CommitType DEF TInv
  <2>4. LocksOK' /\ UNCHANGED World
    BY <1>2 DEF TInv, LocksOK
  <2> QED
    BY <2>3, <2>4, WorldStays
<1> QED
  BY <1>1, <1>2, ObeyType DEF LoopTop

LEMMA DecideType ==
  ASSUME TInv, NEW s \in Sessions, Decide(s)
  PROVE  TInv'
<1>1. UNCHANGED World
  BY DEF Decide
<1>2. CASE \/ Settle(s, Failed(drv[s].mem), "tail") \/ Settle(s, Waiting(drv[s].mem), "tail")
           \/ Settle(s, Finished(drv[s].mem), "tail")
  BY <1>1, <1>2, RecordTypes, StateMoves, SettlesType
<1>3. CASE \E a \in Proposals : Goes(s, TakesUp(s, a)) /\ UNCHANGED locks
  BY <1>1, <1>3, TakesUpType, GoesOn
<1> QED
  BY <1>2, <1>3 DEF Decide

LEMMA DriveType ==
  ASSUME TInv, NEW s \in Sessions, Drive(s)
  PROVE  TInv'
<1> DEFINE d1 == [At(s, "checking") EXCEPT !.steps = @ + 1]
           n == CHOOSE k \in Ids \ UsedIds(s) : TRUE
           d2 == [At(s, "checking") EXCEPT !.steps = @ + 1, !.act.id = n]
<1>0. drv[s] \in DriverType
  BY RecordTypes
<1>1. drv[s].pc = "driving" /\ drv[s].act \in ActionType /\ drv[s].act # NoAction
  BY RecordTypes DEF Drive, HasAction
<1>2. CASE Settle(s, Failed(drv[s].mem), "tail") /\ UNCHANGED World
  BY <1>2, RecordTypes, StateMoves, SettlesType
<1>3. ASSUME drv[s].steps < MaxSteps
      PROVE  d1 \in DriverType /\ d1.pc = "checking" /\ d1.act = drv[s].act
  <2>1. drv[s].steps + 1 \in 0..MaxSteps
    BY <1>0, <1>3, DriverFields, Constants
  <2> QED
    BY <1>0, <2>1 DEF At, DriverType, Active
<1>4. CASE drv[s].steps < MaxSteps /\ Goes(s, d1) /\ UNCHANGED <<locks, World>>
  <2>1. d1 \in DriverType /\ HasAction(d1)
    BY <1>1, <1>3, <1>4 DEF HasAction
  <2> HIDE DEF d1
  <2> QED
    BY <1>4, <2>1, GoesOn
<1>5. CASE /\ drv[s].steps < MaxSteps /\ Ids \ UsedIds(s) # {}
           /\ Goes(s, d2) /\ UNCHANGED <<locks, World>>
  <2>1. n \in Ids
    BY <1>5
  <2>2. [drv[s].act EXCEPT !.id = n] \in ActionType /\ [drv[s].act EXCEPT !.id = n] # NoAction
    <3>1. drv[s].act \in [what : Proposals, id : {0} \cup Ids]
      BY <1>1 DEF ActionType
    <3> HIDE DEF n
    <3> QED
      BY <2>1, <3>1, SessionAssumption DEF ActionType, NoAction, SessionAssumption
  <2>3. d1 \in DriverType /\ d1.act = drv[s].act /\ d1.pc = "checking"
    BY <1>3, <1>5
  <2>4. d2 = [d1 EXCEPT !.act = [drv[s].act EXCEPT !.id = n]]
    BY <1>0, <2>3 DEF At, DriverType
  <2> HIDE DEF d1, d2, n
  <2>5. d2 \in DriverType
    BY <2>2, <2>3, <2>4, DriverMoves
  <2>6. d2.act = [drv[s].act EXCEPT !.id = n] /\ d2.pc = "checking"
    BY <2>3, <2>4 DEF DriverType
  <2>7. HasAction(d2)
    BY <2>2, <2>6 DEF HasAction
  <2> QED
    BY <1>5, <2>5, <2>7, GoesOn
<1> QED
  BY <1>2, <1>4, <1>5, ObeyType DEF Drive, Prepared

\* Where the executor works on an action, it is a proposal.
LEMMA InHand ==
  ASSUME TInv, NEW s \in Sessions,
         drv[s].pc \in {"driving", "checking", "tool", "announcing", "reconciling"}
  PROVE  What(s) \in Proposals
<1>1. drv[s].act \in ActionType /\ drv[s].act # NoAction
  BY RecordTypes DEF HasAction
<1> QED
  BY <1>1 DEF What, ActionType

LEMMA RejectsType ==
  ASSUME TInv, NEW s \in Sessions, NEW m \in StateType, Rejects(s, m)
  PROVE  TInv'
  BY StateMoves, SettlesType DEF Rejects

\* The action is carried on with at another place, and nothing is pending.
LEMMA CarriedOn ==
  ASSUME TInv, NEW s \in Sessions, drv[s].pc = "checking", NEW place \in {"tool", "reconciling"}
  PROVE  /\ [At(s, place) EXCEPT !.mem = Unpend(@)] \in DriverType
         /\ HasAction([At(s, place) EXCEPT !.mem = Unpend(@)])
<1> DEFINE d == At(s, place)
           e == [d EXCEPT !.mem = Unpend(@)]
<1>0. drv[s] \in DriverType /\ drv[s].act # NoAction
  BY RecordTypes DEF HasAction
<1>1. d \in DriverType /\ d.pc = place /\ d.act = drv[s].act
  BY <1>0, PlaceTypes DEF At, DriverType
<1> HIDE DEF d
<1>2. Unpend(d.mem) \in StateType
  BY <1>1, DriverFields, StateMoves
<1>3. e \in DriverType
  BY <1>1, <1>2, DriverMoves
<1>4. e.pc = place /\ e.act = drv[s].act
  BY <1>1 DEF DriverType
<1>5. HasAction(e)
  BY <1>0, <1>4 DEF HasAction
<1> QED
  BY <1>3, <1>5 DEF d

LEMMA GateTypes ==
  ASSUME TInv, NEW s \in Sessions, Refuse(s) \/ Reconcile(s) \/ AskConfirmation(s)
  PROVE  TInv'
<1>0. Unpend(drv[s].mem) \in StateType
  BY RecordTypes, StateMoves
<1>1. CASE Refuse(s)
  BY <1>1, RecordTypes, RejectsType DEF Refuse
<1>2. CASE Reconcile(s)
  <2>1. CASE Rejects(s, Unpend(drv[s].mem))
    BY <1>0, <2>1, RejectsType
  <2>2. CASE /\ locks' = Locked(s, drv[s].act)
             /\ Goes(s, [At(s, "reconciling") EXCEPT !.mem = Unpend(@)])
             /\ UNCHANGED World
    <3>1. StoreOK'
      BY <1>2, <2>2, CarriedOn, GoesType DEF Reconcile, TInv
    <3>2. LocksOK'
      BY <2>2, LockedType, RecordTypes DEF TInv, LocksOK
    <3> QED
      BY <2>2, <3>1, <3>2, WorldStays
  <2> QED
    BY <1>2, <2>1, <2>2 DEF Reconcile
<1>3. CASE AskConfirmation(s)
  <2>1. CASE Rejects(s, drv[s].mem)
    BY <2>1, RecordTypes, RejectsType
  <2> DEFINE a == [drv[s].mem EXCEPT !.pending = drv[s].act]
             d == [At(s, "tail") EXCEPT !.act = NoAction, !.conf = FALSE, !.steps = 0]
  <2>2. CASE /\ locks' = Locked(s, drv[s].act)
             /\ Commit(s, Waiting(a), d)
             /\ UNCHANGED World
    <3>1. a \in StateType
      BY RecordTypes DEF StateType
    <3> HIDE DEF a
    <3>2. Waiting(a) \in StateType
      BY <3>1, StateMoves
    <3>3. d \in DriverType
      BY RecordTypes, PlaceTypes, DriverMoves, IdleType DEF At
    <3>4. [d EXCEPT !.mem = Waiting(a)].pc = "tail"
      BY RecordTypes DEF At, DriverType
    <3> HIDE DEF d
    <3>5. HasAction([d EXCEPT !.mem = Waiting(a)])
      BY <3>4 DEF HasAction
    <3>6. StoreOK'
      BY <2>2, <3>2, <3>3, <3>5, CommitType DEF TInv
    <3>7. LocksOK'
      BY <2>2, LockedType, RecordTypes DEF TInv, LocksOK
    <3> QED
      BY <2>2, <3>6, <3>7, WorldStays
  <2> QED
    BY <1>3, <2>1, <2>2 DEF AskConfirmation
<1> QED
  BY <1>1, <1>2, <1>3

LEMMA StartToolType ==
  ASSUME TInv, NEW s \in Sessions, StartTool(s)
  PROVE  TInv'
<1>1. CASE Rejects(s, Unpend(drv[s].mem))
  BY <1>1, RecordTypes, StateMoves, RejectsType
<1>2. CASE /\ locks' = Locked(s, drv[s].act)
           /\ seen' = Recorded(s)
           /\ Goes(s, [At(s, "tool") EXCEPT !.mem = Unpend(@)])
           /\ UNCHANGED <<rule, consent, ran, cut>>
  <2>1. StoreOK'
    BY <1>2, CarriedOn, GoesType DEF StartTool, TInv
  <2>2. LocksOK'
    BY <1>2, LockedType, RecordTypes DEF TInv, LocksOK
  <2>3. What(s) \in Proposals
    BY InHand DEF StartTool
  <2>4. WorldOK'
    BY <1>2, <2>3 DEF Recorded, TInv, WorldOK
  <2> QED
    BY <2>1, <2>2, <2>4 DEF TInv
<1> QED
  BY <1>1, <1>2 DEF StartTool

\* The end of a tool, known or not, and the end of telling a success.
LEMMA ToolType ==
  ASSUME TInv, NEW s \in Sessions, ToolSucceeds(s) \/ ToolFails(s)
  PROVE  TInv'
<1>0. drv[s] \in DriverType /\ What(s) \in Proposals /\ req[s] \in RequestType
  BY RecordTypes, InHand DEF ToolSucceeds, ToolFails
<1>1. LocksOK'
  BY ReleasedType DEF ToolSucceeds, ToolFails, TInv, LocksOK
<1>2. req' \in [Sessions -> RequestType]
  <2>1. [req[s] EXCEPT !.hit = FALSE] \in RequestType
    BY <1>0 DEF RequestType
  <2>2. req' = [req EXCEPT ![s] = [req[s] EXCEPT !.hit = FALSE]]
    BY DEF ToolSucceeds, ToolFails
  <2> QED
    BY <2>1, <2>2 DEF TInv, StoreOK
<1>3. CASE ToolSucceeds(s)
  <2> DEFINE d == [drv[s] EXCEPT !.pc = "announcing"]
  <2>1. drv' = [drv EXCEPT ![s] = d]
    BY <1>3 DEF ToolSucceeds
  <2>2. d \in DriverType /\ HasAction(d)
    BY <1>0, <1>3, RecordTypes DEF ToolSucceeds, HasAction, DriverType, Active
  <2> HIDE DEF d
  <2>3. StoreOK'
    BY <1>2, <1>3, <2>1, <2>2 DEF ToolSucceeds, TInv, StoreOK
  <2>4. WorldOK'
    BY <1>0, <1>3 DEF ToolSucceeds, TInv, WorldOK
  <2> QED
    BY <1>1, <2>3, <2>4 DEF TInv
<1>4. CASE ToolFails(s)
  <2> DEFINE d == [drv[s] EXCEPT !.pc = "observing", !.plan = "stop"]
  <2>1. drv' = [drv EXCEPT ![s] = d]
    BY <1>0, <1>4 DEF ToolFails, TInv, StoreOK, DriverType
  <2>2. d \in DriverType /\ d.pc = "observing"
    BY <1>0 DEF DriverType, Active, Plans
  <2>3. HasAction(d)
    BY <2>2 DEF HasAction
  <2> HIDE DEF d
  <2>4. StoreOK'
    BY <1>2, <1>4, <2>1, <2>2, <2>3 DEF ToolFails, TInv, StoreOK
  <2>5. WorldOK'
    BY <1>0, <1>4 DEF ToolFails, Forgotten, TInv, WorldOK
  <2> QED
    BY <1>1, <2>4, <2>5 DEF TInv
<1> QED
  BY <1>3, <1>4

LEMMA AnnouncedType ==
  ASSUME TInv, NEW s \in Sessions, Announced(s)
  PROVE  TInv'
<1> DEFINE a == [drv[s].mem EXCEPT !.approved = Approved(s)]
           d == [drv[s] EXCEPT !.pc = "observing", !.mem = a, !.plan = "loop"]
<1>0. drv[s] \in DriverType /\ What(s) \in Proposals
  BY RecordTypes, InHand DEF Announced
<1>1. a \in StateType
  BY <1>0, RecordTypes DEF Approved, StateType
<1>2. drv' = [drv EXCEPT ![s] = d]
  BY <1>0 DEF Announced, TInv, StoreOK, DriverType
<1> HIDE DEF a
<1>3. d \in DriverType /\ d.pc = "observing"
  BY <1>0, <1>1 DEF DriverType, Active, Plans
<1>4. HasAction(d)
  BY <1>3 DEF HasAction
<1> HIDE DEF d
<1>5. StoreOK'
  BY <1>2, <1>3, <1>4 DEF Announced, TInv, StoreOK
<1>6. LocksOK' /\ UNCHANGED World
  BY ReleasedType DEF Announced, TInv, LocksOK
<1> QED
  BY <1>5, <1>6, WorldStays

LEMMA ReconciledType ==
  ASSUME TInv, NEW s \in Sessions, Reconciled(s)
  PROVE  TInv'
<1>1. PICK plan \in {"loop", "stop"} : Goes(s, [At(s, "observing") EXCEPT !.plan = plan])
  BY DEF Reconciled
<1>2. plan \in Plans
  BY DEF Plans
<1>3. StoreOK'
  BY <1>1, <1>2, BlankType, PlainPlace, GoesType DEF TInv
<1>4. LocksOK'
  BY ReleasedType DEF Reconciled, TInv, LocksOK
<1>5. WorldOK'
  BY DEF Reconciled, World, TInv, WorldOK
<1> QED
  BY <1>3, <1>4, <1>5 DEF TInv

LEMMA EvaluateType ==
  ASSUME TInv, NEW s \in Sessions, Evaluate(s)
  PROVE  TInv'
<1> DEFINE m1(done) == [drv[s].mem EXCEPT !.done = done]
           m2 == [drv[s].mem EXCEPT !.done = FALSE, !.tries = 0]
           d == [At(s, "observing") EXCEPT !.plan = "stop", !.mem.done = FALSE]
<1>0. drv[s] \in DriverType /\ drv[s].mem \in StateType /\ "loop" \in Plans /\ "stop" \in Plans
  BY RecordTypes DEF Plans
<1>a. \A done \in BOOLEAN : m1(done) \in StateType
  BY <1>0 DEF StateType
<1>z. 0 \in 0..MaxTries
  BY Constants
<1>b. m2 \in StateType
  BY <1>0, <1>z DEF StateType
<1>c. Around(s) \in DriverType /\ \A m \in StateType : HasAction([Around(s) EXCEPT !.mem = m])
  <2> DEFINE e == Around(s)
  <2>1. e \in DriverType
    BY <1>0, PlaceTypes, DriverMoves, IdleType DEF Around, At
  <2>2. e.pc = "top"
    BY <1>0 DEF Around, At, DriverType
  <2> HIDE DEF e
  <2>3. \A m \in StateType : [e EXCEPT !.mem = m].pc = "top"
    BY <2>1, <2>2 DEF DriverType
  <2>4. \A m \in StateType : HasAction([e EXCEPT !.mem = m])
    BY <2>3 DEF HasAction
  <2> QED
    BY <2>1, <2>4 DEF e
<1>w. WorldOK'
  BY DEF Evaluate, NextTask, TInv, WorldOK
<1>1. CASE /\ \E done \in BOOLEAN : Commit(s, m1(done), Around(s))
           /\ UNCHANGED locks
  <2>1. PICK done \in BOOLEAN : Commit(s, m1(done), Around(s))
    BY <1>1
  <2>2. m1(done) \in StateType
    BY <1>a
  <2> HIDE DEF m1
  <2>3. StoreOK'
    BY <1>c, <2>1, <2>2, CommitType DEF TInv
  <2> QED
    BY <1>1, <1>w, <2>3 DEF TInv, LocksOK
<1>2. CASE Commit(s, m2, Around(s)) /\ UNCHANGED locks
  <2> HIDE DEF m2
  <2>1. StoreOK'
    BY <1>2, <1>b, <1>c, CommitType DEF TInv
  <2> QED
    BY <1>2, <1>w, <2>1 DEF TInv, LocksOK
<1>3. CASE Settle(s, Failed(drv[s].mem), "tail")
  <2>1. StoreOK' /\ LocksOK'
    BY <1>0, <1>3, StateMoves, SettleType DEF TInv
  <2> QED
    BY <1>w, <2>1 DEF TInv
<1>4. CASE Goes(s, d) /\ UNCHANGED locks
  <2>1. d = [[At(s, "observing") EXCEPT !.plan = "stop"] EXCEPT !.mem = m1(FALSE)]
    BY <1>0 DEF At, DriverType
  <2>2. m1(FALSE) \in StateType
    BY <1>a
  <2> HIDE DEF d, m1
  <2>3. d \in DriverType /\ HasAction(d)
    BY <1>0, <2>1, <2>2, PlainPlace, DriverMoves
  <2>4. StoreOK'
    BY <1>4, <2>3, GoesType DEF TInv
  <2> QED
    BY <1>4, <1>w, <2>4 DEF TInv, LocksOK
<1> QED
  BY <1>1, <1>2, <1>3, <1>4 DEF Evaluate

LEMMA PlanRecoveryType ==
  ASSUME TInv, NEW s \in Sessions, PlanRecovery(s)
  PROVE  TInv'
<1> DEFINE m == drv[s].mem
<1>1. PICK plan \in {"retry", "ask", "stop"} :
        Commit(s, Spent(m, plan), [At(s, "planned") EXCEPT !.plan = Allowed(m, plan)])
  BY DEF PlanRecovery
<1>2. Spent(m, plan) \in StateType /\ Allowed(m, plan) \in Plans
  BY RecordTypes, SpentType DEF Plans
<1>3. StoreOK'
  BY <1>1, <1>2, PlainPlace, CommitType DEF TInv
<1>4. LocksOK' /\ UNCHANGED World
  BY DEF PlanRecovery, TInv, LocksOK
<1> QED
  BY <1>3, <1>4, WorldStays

LEMMA ReturnType ==
  ASSUME TInv, NEW s \in Sessions, Return(s)
  PROVE  TInv'
<1>1. Gone(s) /\ UNCHANGED <<store, ctl, locks, World>>
  BY DEF Return
<1>2. StoreOK' /\ LocksOK'
  BY <1>1, GoneType DEF TInv, StoreOK, LocksOK
<1> QED
  BY <1>1, <1>2, WorldStays

LEMMA UnwindType ==
  ASSUME TInv, NEW s \in Sessions, Unwind(s)
  PROVE  LocksOK' /\ WorldOK'
<1>1. LocksOK'
  BY ReleasedType, LockedType, RecordTypes DEF Unwind, TInv, LocksOK
<1>2. seen' \in [Sessions -> SUBSET Proposals]
  BY DEF Unwind, Forgotten, TInv, WorldOK
<1>3. cut' \in [Sessions -> SUBSET Proposals]
  <2>1. drv[s].pc = "announcing" => What(s) \in Proposals
    BY InHand
  <2> QED
    BY <2>1 DEF Unwind, TInv, WorldOK
<1>4. UNCHANGED <<rule, consent, ran>>
  BY DEF Unwind
<1> QED
  BY <1>1, <1>2, <1>3, <1>4 DEF TInv, WorldOK

LEMMA CancelledTypes ==
  ASSUME TInv, NEW s \in Sessions, HandleCancel(s) \/ DieCancelled(s)
  PROVE  TInv'
<1>1. LocksOK' /\ WorldOK'
  BY UnwindType DEF HandleCancel, DieCancelled
<1>2. CASE Gone(s) /\ UNCHANGED <<store, ctl>>
  <2>1. StoreOK'
    BY <1>2, GoneType DEF TInv, StoreOK
  <2> QED
    BY <1>1, <2>1 DEF TInv
<1> DEFINE m == Cancelled(drv[s].mem)
           d == [At(s, "tail") EXCEPT !.mem = m, !.act = NoAction, !.handling = TRUE]
<1>3. CASE /\ store' = [store EXCEPT ![s] = Snapshot(m)]
           /\ ctl' = [ctl EXCEPT ![s].fresh = FALSE]
           /\ drv' = [drv EXCEPT ![s] = d]
           /\ req' = [req EXCEPT ![s].hit = FALSE]
  <2>1. m \in StateType
    BY RecordTypes, StateMoves
  <2> HIDE DEF m
  <2>2. Snapshot(m) \in StateType
    BY <2>1, StateMoves
  <2>3. d \in DriverType /\ d.pc = "tail"
    BY <2>1, RecordTypes, NoActionType DEF At, DriverType, Active
  <2>4. HasAction(d)
    BY <2>3 DEF HasAction
  <2> HIDE DEF d
  <2>5. /\ [ctl[s] EXCEPT !.fresh = FALSE] \in CallType
        /\ [req[s] EXCEPT !.hit = FALSE] \in RequestType
    BY RecordTypes DEF CallType, RequestType
  <2>6. /\ ctl' = [ctl EXCEPT ![s] = [ctl[s] EXCEPT !.fresh = FALSE]]
        /\ req' = [req EXCEPT ![s] = [req[s] EXCEPT !.hit = FALSE]]
    BY <1>3
  <2>7. StoreOK'
    BY <1>3, <2>2, <2>3, <2>4, <2>5, <2>6 DEF TInv, StoreOK
  <2> QED
    BY <1>1, <2>7 DEF TInv
<1> QED
  BY <1>2, <1>3 DEF HandleCancel, DieCancelled

LEMMA RestartType ==
  ASSUME TInv, Restart
  PROVE  TInv'
<1>1. HasAction(NoDriver)
  BY DEF HasAction, NoDriver
<1>2. StoreOK'
  BY <1>1, NoDriverType, NoCallType DEF Restart, TInv, StoreOK
<1>3. Unlocked \in LockType
  BY DEF Unlocked, LockType
<1>4. LocksOK' /\ WorldOK'
  BY <1>3 DEF Restart, TInv, LocksOK, WorldOK
<1> QED
  BY <1>2, <1>4 DEF TInv

LEMMA DriverStepType ==
  ASSUME TInv, NEW s \in Sessions, DriverStep(s)
  PROVE  TInv'
<1>1. CASE EnterLoop(s) \/ EnterConfirmed(s) \/ EnterRejected(s) \/ EnterRefused(s) \/ Activate(s)
  BY <1>1, EnterLoopType, EnterConfirmedType, EnterRejectedType, EnterRefusedType, ActivateType
<1>2. CASE LoopTop(s) \/ Decide(s) \/ Drive(s)
  BY <1>2, LoopTopType, DecideType, DriveType
<1>3. CASE Refuse(s) \/ Reconcile(s) \/ AskConfirmation(s) \/ StartTool(s)
  BY <1>3, GateTypes, StartToolType
<1>4. CASE ToolSucceeds(s) \/ Announced(s) \/ ToolFails(s) \/ Reconciled(s)
  BY <1>4, ToolType, AnnouncedType, ReconciledType
<1>5. CASE Evaluate(s) \/ PlanRecovery(s) \/ Recover(s) \/ Return(s)
  BY <1>5, EvaluateType, PlanRecoveryType, RecoverType, ReturnType
<1>6. CASE HandleCancel(s) \/ DieCancelled(s)
  BY <1>6, CancelledTypes
<1> QED
  BY <1>1, <1>2, <1>3, <1>4, <1>5, <1>6 DEF DriverStep

LEMMA InitTypes == Init => TInv
<1> SUFFICES ASSUME Init PROVE TInv
  OBVIOUS
<1>1. HasAction(NoDriver)
  BY DEF HasAction, NoDriver
<1>2. StoreOK
  BY <1>1, BlankType, NoDriverType, NoCallType DEF Init, StoreOK
<1>3. Unlocked \in LockType
  BY DEF Unlocked, LockType
<1>4. LocksOK /\ WorldOK
  BY <1>3 DEF Init, LocksOK, WorldOK
<1> QED
  BY <1>2, <1>4 DEF TInv

LEMMA NextTypes == TInv /\ [Next]_vars => TInv'
<1> SUFFICES ASSUME TInv, [Next]_vars PROVE TInv'
  OBVIOUS
<1>1. CASE UNCHANGED vars
  BY <1>1 DEF vars, TInv, StoreOK, LocksOK, WorldOK
<1> QED
  BY <1>1, RestartType, CallerType, DriverStepType DEF Next

LEMMA TypesInvariant == Spec => []TInv
  BY InitTypes, NextTypes, PTL DEF Spec

(* Type correctness of AgentSession: iterations and recovery attempts stay   *)
(* within max_iterations and the rule's max_attempts wherever a session is   *)
(* stored, driven or loaded, and only proposals are recorded, confirmed or   *)
(* run (runtime/agent.py, runtime/actions.py, recovery/manager.py).          *)
THEOREM SessionTypes == Spec => []SessionTypeOK
<1>1. TInv => SessionTypeOK
  BY TypesSplit
<1> QED
  BY <1>1, TypesInvariant, PTL

-----------------------------------------------------------------------------
(* One tool per resource.  The invariant behind it: a driver at its tool, or *)
(* finding out what became of one, holds the lock of the resource under its  *)
(* own action id.  It is inductive because a step of a session frees and     *)
(* takes only locks that are free or that session's.                         *)

ToolPlaces == {"tool", "announcing", "reconciling"}

InTool(s) == drv[s].pc \in ToolPlaces

Holding(s) ==
  InTool(s) /\ ResourceOf[What(s)] \in Resources
    => locks[ResourceOf[What(s)]] = LockOf(s, drv[s].act)

ToolHoldsLock == \A s \in Sessions : Holding(s)

\* What any step of session s does to the drivers and to the locks.
OthersStay(s) == \A t \in Sessions \ {s} : drv'[t] = drv[t]

OwnLocks(s) ==
  \A r \in Resources :
    \/ locks'[r] = locks[r]
    \/ locks[r].by \in {s, NoSession} /\ locks'[r].by \in {s, NoSession}

\* It tells of its success under the lock it worked under.
StaysInTool(s) ==
  /\ \/ drv'[s].pc = drv[s].pc
     \/ drv[s].pc = "tool" /\ drv'[s].pc = "announcing"
  /\ drv'[s].act = drv[s].act
  /\ locks' = locks

\* A tool is started only past the gate, and put on record.
StartsTool(s) ==
  /\ drv[s].pc = "checking" /\ Verdict(s, What(s)) = "allow" /\ What(s) \notin seen[s]
  /\ seen' = Recorded(s) /\ UNCHANGED <<rule, consent, ran, cut>>

EntersTool(s) ==
  /\ drv'[s].act = drv[s].act /\ locks' = Locked(s, drv[s].act)
  /\ drv'[s].pc = "tool" => StartsTool(s)

Footprint(s) ==
  /\ OthersStay(s)
  /\ OwnLocks(s)
  /\ drv'[s].pc \in ToolPlaces => StaysInTool(s) \/ EntersTool(s)

LEMMA ReleasedOwn ==
  ASSUME TInv, NEW s \in Sessions, NEW act, locks' = Released(s, act)
  PROVE  OwnLocks(s)
  BY DEF OwnLocks, Released, LockOf, Unlocked

LEMMA SameLocksOwn ==
  ASSUME NEW s \in Sessions, locks' = locks
  PROVE  OwnLocks(s)
  BY DEF OwnLocks

LEMMA LockedOwn ==
  ASSUME TInv, NEW s \in Sessions, NEW act \in ActionType, CanLock(s, act),
         locks' = Locked(s, act)
  PROVE  OwnLocks(s)
<1>1. CASE Mutates(act.what)
  <2>1. locks' = [locks EXCEPT ![ResourceOf[act.what]] = LockOf(s, act)]
    BY <1>1 DEF Locked
  <2>2. locks[ResourceOf[act.what]] \in {Unlocked, LockOf(s, act)}
    BY <1>1 DEF CanLock
  <2> QED
    BY <2>1, <2>2 DEF OwnLocks, Unlocked, LockOf, TInv, LocksOK
<1>2. CASE ~Mutates(act.what)
  BY <1>2 DEF Locked, OwnLocks
<1> QED
  BY <1>1, <1>2

LEMMA GonePrint ==
  ASSUME TInv, NEW s \in Sessions, Gone(s)
  PROVE  OthersStay(s) /\ drv'[s].pc = "none"
  BY DEF Gone, TInv, StoreOK, OthersStay, NoDriver

LEMMA CommitPrint ==
  ASSUME TInv, NEW s \in Sessions, NEW m, NEW d \in DriverType, Commit(s, m, d)
  PROVE  OthersStay(s) /\ drv'[s].pc \in {"none", d.pc}
<1>1. CASE Gone(s)
  BY <1>1, GonePrint
<1>2. CASE drv' = [drv EXCEPT ![s] = [d EXCEPT !.mem = m]]
  BY <1>2 DEF TInv, StoreOK, OthersStay, DriverType
<1> QED
  BY <1>1, <1>2 DEF Commit

LEMMA SettlePrint ==
  ASSUME TInv, NEW s \in Sessions, NEW m \in StateType,
         NEW place \in {"leaving", "tail"}, Settle(s, m, place)
  PROVE  Footprint(s)
<1> DEFINE d == [At(s, place) EXCEPT !.act = NoAction, !.conf = FALSE, !.steps = 0]
<1>0. At(s, place) \in DriverType /\ At(s, place).pc = place
  BY RecordTypes, PlaceTypes, DriverMoves DEF At, DriverType
<1>1. d \in DriverType /\ d.pc = place
  BY <1>0, IdleType DEF DriverType
<1>2. Commit(s, Cleared(m), d)
  BY DEF Settle
<1> HIDE DEF d
<1>3. OthersStay(s) /\ drv'[s].pc \in {"none", place}
  BY <1>1, <1>2, CommitPrint
<1>4. OwnLocks(s)
  BY ReleasedOwn, SameLocksOwn DEF Settle
<1> QED
  BY <1>3, <1>4 DEF Footprint, ToolPlaces

LEMMA GoesPrint ==
  ASSUME TInv, NEW s \in Sessions, NEW d, Goes(s, d)
  PROVE  OthersStay(s) /\ drv'[s] = d
  BY DEF Goes, TInv, StoreOK, OthersStay

\* A step to a place without a tool leaves the locks or releases some.
LEMMA PlainPrint ==
  ASSUME TInv, NEW s \in Sessions, OthersStay(s),
         drv'[s].pc \notin {"tool", "announcing", "reconciling"}, OwnLocks(s)
  PROVE  Footprint(s)
  BY DEF Footprint, ToolPlaces

LEMMA CallerPrint ==
  ASSUME TInv, NEW s \in Sessions, Caller(s)
  PROVE  Footprint(s)
<1>0. drv[s] \in DriverType
  BY RecordTypes
<1>1. OwnLocks(s) /\ locks' = locks
  <2>1. locks' = locks
    BY DEF Caller, Run, Resume, Continue, Begins, RequestPause, RequestCancel, CancelCaller,
           LoadForControl, SettleControl
  <2> QED
    BY <2>1, SameLocksOwn
<1>2. CASE \E d : drv' = [drv EXCEPT ![s] = d] /\ d.pc = "entering"
  <2>1. OthersStay(s) /\ drv'[s].pc = "entering"
    BY <1>2 DEF TInv, StoreOK, OthersStay
  <2> QED
    BY <1>1, <2>1, PlainPrint
<1>3. CASE drv' = drv
  BY <1>1, <1>3 DEF Footprint, OthersStay, StaysInTool
<1>4. CASE drv' = [drv EXCEPT ![s].fresh = FALSE]
  <2>1. OthersStay(s) /\ drv'[s] = [drv[s] EXCEPT !.fresh = FALSE]
    BY <1>4 DEF TInv, StoreOK, OthersStay
  <2>2. drv'[s].pc = drv[s].pc /\ drv'[s].act = drv[s].act
    BY <1>0, <2>1 DEF DriverType
  <2> QED
    BY <1>1, <2>1, <2>2 DEF Footprint, StaysInTool
<1>5. CASE \E m \in StateType, plan \in Plans : Begins(s, m, plan)
  <2>1. PICK m \in StateType, plan \in Plans : Begins(s, m, plan)
    BY <1>5
  <2> DEFINE d == [NoDriver EXCEPT !.pc = "entering", !.mem = m, !.fresh = TRUE, !.plan = plan]
  <2>2. drv' = [drv EXCEPT ![s] = d] /\ d.pc = "entering"
    BY <2>1, NoDriverType DEF Begins, NoDriver
  <2> QED
    BY <1>2, <2>2
<1>6. CASE Run(s)
  <2> DEFINE d == [NoDriver EXCEPT !.pc = "entering", !.fresh = TRUE,
                     !.mem = [Blank EXCEPT !.status = "pending"], !.plan = "start"]
  <2>1. drv' = [drv EXCEPT ![s] = d] /\ d.pc = "entering"
    BY <1>6 DEF Run, NoDriver
  <2> QED
    BY <1>2, <2>1
<1>7. CASE \/ \E confirmed \in {"yes", "no", "unset"} : Resume(s, confirmed)
           \/ Continue(s)
  <2>1. \E plan \in Plans : Begins(s, store[s], plan)
    BY <1>7 DEF Resume, Continue, Plans
  <2> QED
    BY <1>5, <2>1, RecordTypes
<1>8. CASE \/ RequestPause(s) \/ RequestCancel(s) \/ CancelCaller(s)
           \/ \E op \in {"pause", "cancel"} : LoadForControl(s, op)
  BY <1>3, <1>8 DEF RequestPause, RequestCancel, CancelCaller, LoadForControl
<1>9. CASE SettleControl(s)
  BY <1>3, <1>4, <1>9 DEF SettleControl
<1> QED
  BY <1>6, <1>7, <1>8, <1>9 DEF Caller

LEMMA EnterPrint ==
  ASSUME TInv, NEW s \in Sessions,
         EnterLoop(s) \/ EnterConfirmed(s) \/ EnterRejected(s) \/ EnterRefused(s)
  PROVE  Footprint(s)
<1>0. At(s, "entered") \in DriverType /\ At(s, "entered").pc = "entered"
  BY RecordTypes, PlaceTypes, DriverMoves DEF At, DriverType
<1>1. OwnLocks(s)
  <2>1. CASE EnterLoop(s) \/ EnterConfirmed(s)
    BY <2>1, SameLocksOwn DEF EnterLoop, EnterConfirmed
  <2>2. CASE EnterRejected(s)
    BY <2>2, ReleasedOwn DEF EnterRejected
  <2>3. CASE EnterRefused(s)
    BY <2>3, SettlePrint, RecordTypes, StateMoves DEF EnterRefused, Footprint
  <2> QED
    BY <2>1, <2>2, <2>3
<1>2. ASSUME NEW m, NEW plan \in Plans, Commit(s, m, [At(s, "entered") EXCEPT !.plan = plan])
      PROVE  Footprint(s)
  <2> DEFINE d == [At(s, "entered") EXCEPT !.plan = plan]
  <2>1. d \in DriverType /\ d.pc = "entered"
    BY <1>0, DriverMoves DEF DriverType
  <2>2. Commit(s, m, d)
    BY <1>2
  <2> HIDE DEF d
  <2>3. OthersStay(s) /\ drv'[s].pc \in {"none", "entered"}
    BY <2>1, <2>2, CommitPrint
  <2> QED
    BY <1>1, <2>3, PlainPrint
<1>3. CASE EnterLoop(s)
  BY <1>2, <1>3 DEF EnterLoop, Plans
<1>4. CASE EnterConfirmed(s)
  <2>1. PICK m : Commit(s, m, At(s, "entered"))
    BY <1>4 DEF EnterConfirmed
  <2>2. OthersStay(s) /\ drv'[s].pc \in {"none", "entered"}
    BY <1>0, <2>1, CommitPrint
  <2> QED
    BY <1>1, <2>2, PlainPrint
<1>5. CASE EnterRejected(s)
  <2> DEFINE m == [drv[s].mem EXCEPT !.status = "running", !.pending = NoAction]
  <2>1. PICK plan \in {"retry", "ask", "stop"} :
          Commit(s, Spent(m, plan), [At(s, "entered") EXCEPT !.plan = Allowed(m, plan)])
    BY <1>5 DEF EnterRejected
  <2>2. Allowed(m, plan) \in Plans
    BY <2>1 DEF Allowed, Plans
  <2> QED
    BY <1>2, <2>1, <2>2
<1>6. CASE EnterRefused(s)
  BY <1>6, SettlePrint, RecordTypes, StateMoves DEF EnterRefused
<1> QED
  BY <1>3, <1>4, <1>5, <1>6

LEMMA TakesUpPrint ==
  ASSUME TInv, NEW s \in Sessions, NEW a \in Proposals, Goes(s, TakesUp(s, a)), locks' = locks
  PROVE  Footprint(s)
<1>1. TakesUp(s, a).pc = "driving"
  BY RecordTypes DEF TakesUp, At, DriverType
<1>2. OthersStay(s) /\ drv'[s].pc = "driving"
  BY <1>1, GoesPrint
<1> QED
  BY <1>2, SameLocksOwn, PlainPrint

LEMMA ObeyPrint ==
  ASSUME TInv, NEW s \in Sessions, ObeyRequest(s)
  PROVE  Footprint(s)
  BY RecordTypes, StateMoves, SettlePrint DEF ObeyRequest

LEMMA LoopPrint ==
  ASSUME TInv, NEW s \in Sessions,
         Activate(s) \/ LoopTop(s) \/ Decide(s) \/ Drive(s) \/ Recover(s)
  PROVE  Footprint(s)
<1>1. CASE \E m \in {Failed(drv[s].mem), Waiting(drv[s].mem), Finished(drv[s].mem)},
               place \in {"leaving", "tail"} : Settle(s, m, place)
  BY <1>1, RecordTypes, StateMoves, SettlePrint
<1>2. CASE (\E a \in Proposals : Goes(s, TakesUp(s, a))) /\ locks' = locks
  BY <1>2, TakesUpPrint
<1>3. CASE Activate(s)
  <2> DEFINE d == [At(s, "driving") EXCEPT !.act = drv[s].mem.pending, !.conf = TRUE]
  <2>1. CASE Goes(s, d) /\ locks' = locks
    <3>1. d.pc = "driving"
      BY RecordTypes DEF At, DriverType
    <3>2. OthersStay(s) /\ drv'[s].pc = "driving"
      BY <2>1, <3>1, GoesPrint
    <3> QED
      BY <2>1, <3>2, SameLocksOwn, PlainPrint
  <2> QED
    BY <1>1, <1>2, <1>3, <2>1 DEF Activate
<1>4. CASE LoopTop(s)
  <2>1. CASE Commit(s, Counted(drv[s].mem), At(s, "deciding")) /\ locks' = locks
    <3>1. At(s, "deciding") \in DriverType /\ At(s, "deciding").pc = "deciding"
      BY RecordTypes, PlaceTypes, DriverMoves DEF At, DriverType
    <3>2. OthersStay(s) /\ drv'[s].pc \in {"none", "deciding"}
      BY <2>1, <3>1, CommitPrint
    <3> QED
      BY <2>1, <3>2, SameLocksOwn, PlainPrint
  <2> QED
    BY <1>1, <1>4, <2>1, ObeyPrint DEF LoopTop
<1>5. CASE Decide(s)
  BY <1>1, <1>2, <1>5 DEF Decide
<1>6. CASE Drive(s)
  <2>1. CASE \E d : Goes(s, d) /\ d.pc = "checking" /\ locks' = locks
    <3>1. OthersStay(s) /\ drv'[s].pc = "checking"
      BY <2>1, GoesPrint
    <3> QED
      BY <2>1, <3>1, SameLocksOwn, PlainPrint
  <2> DEFINE n == CHOOSE k \in Ids \ UsedIds(s) : TRUE
             d1 == [At(s, "checking") EXCEPT !.steps = @ + 1]
             d2 == [At(s, "checking") EXCEPT !.steps = @ + 1, !.act.id = n]
  <2>2. d1.pc = "checking" /\ d2.pc = "checking"
    <3> HIDE DEF n
    <3> QED
      BY RecordTypes DEF At, DriverType
  <2>3. CASE (Goes(s, d1) \/ Goes(s, d2)) /\ locks' = locks
    <3> HIDE DEF d1, d2
    <3> QED
      BY <2>1, <2>2, <2>3
  <2> QED
    BY <1>1, <1>6, <2>3, ObeyPrint DEF Drive, Prepared
<1>7. CASE Recover(s)
  BY <1>1, <1>2, <1>7 DEF Recover
<1> QED
  BY <1>3, <1>4, <1>5, <1>6, <1>7

LEMMA RejectsPrint ==
  ASSUME TInv, NEW s \in Sessions, NEW m \in StateType, Rejects(s, m)
  PROVE  Footprint(s)
  BY StateMoves, SettlePrint DEF Rejects

\* The executor takes the lock and goes to work.
LEMMA EntersPrint ==
  ASSUME TInv, NEW s \in Sessions, NEW place \in {"tool", "reconciling"},
         CanLock(s, drv[s].act), locks' = Locked(s, drv[s].act),
         Goes(s, [At(s, place) EXCEPT !.mem = Unpend(@)]),
         place = "tool" => StartsTool(s)
  PROVE  Footprint(s)
<1> DEFINE d == [At(s, place) EXCEPT !.mem = Unpend(@)]
<1>1. d.act = drv[s].act /\ d.pc = place
  BY RecordTypes DEF At, DriverType
<1>2. Goes(s, d)
  OBVIOUS
<1> HIDE DEF d
<1>3. OthersStay(s) /\ drv'[s].act = drv[s].act /\ drv'[s].pc = place
  BY <1>1, <1>2, GoesPrint
<1>4. OwnLocks(s)
  BY RecordTypes, LockedOwn
<1> QED
  BY <1>3, <1>4 DEF Footprint, EntersTool

LEMMA ExecutorPrint ==
  ASSUME TInv, NEW s \in Sessions,
         Refuse(s) \/ Reconcile(s) \/ AskConfirmation(s) \/ StartTool(s)
  PROVE  Footprint(s)
<1>0. drv[s].mem \in StateType /\ Unpend(drv[s].mem) \in StateType
  BY RecordTypes, StateMoves
<1>1. CASE Refuse(s)
  BY <1>0, <1>1, RejectsPrint DEF Refuse
<1>2. CASE Reconcile(s)
  BY <1>0, <1>2, RejectsPrint, EntersPrint DEF Reconcile
<1>3. CASE StartTool(s)
  <2>1. CASE CanLock(s, drv[s].act)
    BY <1>3, <2>1, EntersPrint DEF StartTool, StartsTool
  <2>2. CASE ~CanLock(s, drv[s].act)
    BY <1>0, <1>3, <2>2, RejectsPrint DEF StartTool
  <2> QED
    BY <2>1, <2>2
<1>4. CASE AskConfirmation(s)
  <2> DEFINE m == Waiting([drv[s].mem EXCEPT !.pending = drv[s].act])
             d == [At(s, "tail") EXCEPT !.act = NoAction, !.conf = FALSE, !.steps = 0]
  <2>1. CASE CanLock(s, drv[s].act) /\ locks' = Locked(s, drv[s].act) /\ Commit(s, m, d)
    <3>1. At(s, "tail") \in DriverType /\ At(s, "tail").pc = "tail"
      BY RecordTypes, PlaceTypes, DriverMoves DEF At, DriverType
    <3>2. d \in DriverType /\ d.pc = "tail"
      BY <3>1, IdleType DEF DriverType
    <3> HIDE DEF d, m
    <3>3. OthersStay(s) /\ drv'[s].pc \in {"none", "tail"}
      BY <2>1, <3>2, CommitPrint
    <3>4. OwnLocks(s)
      BY <2>1, RecordTypes, LockedOwn
    <3> QED
      BY <3>3, <3>4, PlainPrint
  <2> QED
    BY <1>0, <1>4, <2>1, RejectsPrint DEF AskConfirmation
<1> QED
  BY <1>1, <1>2, <1>3, <1>4

LEMMA OutcomePrint ==
  ASSUME TInv, NEW s \in Sessions,
         ToolSucceeds(s) \/ Announced(s) \/ ToolFails(s) \/ Reconciled(s)
  PROVE  Footprint(s)
<1>0. drv[s] \in DriverType /\ drv \in [Sessions -> DriverType]
  BY RecordTypes DEF TInv, StoreOK
<1>1. CASE ToolSucceeds(s)
  <2>1. OthersStay(s) /\ drv'[s].pc = "announcing" /\ drv'[s].act = drv[s].act
    BY <1>0, <1>1 DEF ToolSucceeds, OthersStay, DriverType
  <2>2. StaysInTool(s)
    BY <1>1, <2>1 DEF ToolSucceeds, StaysInTool
  <2> QED
    BY <2>1, <2>2, SameLocksOwn DEF Footprint, StaysInTool
<1>2. CASE Announced(s) \/ ToolFails(s)
  <2>1. OthersStay(s) /\ drv'[s].pc = "observing"
    BY <1>0, <1>2 DEF Announced, ToolFails, OthersStay, DriverType
  <2>2. OwnLocks(s)
    BY <1>2, ReleasedOwn DEF Announced, ToolFails
  <2> QED
    BY <2>1, <2>2, PlainPrint
<1>3. CASE Reconciled(s)
  <2>1. PICK plan : Goes(s, [At(s, "observing") EXCEPT !.plan = plan])
    BY <1>3 DEF Reconciled
  <2>2. [At(s, "observing") EXCEPT !.plan = plan].pc = "observing"
    BY <1>0 DEF At, DriverType
  <2>3. OthersStay(s) /\ drv'[s].pc = "observing" /\ OwnLocks(s)
    BY <1>3, <2>1, <2>2, GoesPrint, ReleasedOwn DEF Reconciled
  <2> QED
    BY <2>3, PlainPrint
<1> QED
  BY <1>1, <1>2, <1>3

LEMMA ObservePrint ==
  ASSUME TInv, NEW s \in Sessions, Evaluate(s) \/ PlanRecovery(s) \/ Return(s)
  PROVE  Footprint(s)
<1>0. drv[s] \in DriverType
  BY RecordTypes
<1>1. ASSUME NEW m, NEW d \in DriverType, d.pc \in {"top", "planned"},
             Commit(s, m, d), locks' = locks
      PROVE  Footprint(s)
  <2>1. OthersStay(s) /\ drv'[s].pc \notin {"tool", "announcing", "reconciling"}
    BY <1>1, CommitPrint
  <2> QED
    BY <1>1, <2>1, SameLocksOwn, PlainPrint
<1>2. CASE Evaluate(s)
  <2>1. At(s, "top") \in DriverType /\ At(s, "top").pc = "top"
    BY RecordTypes, PlaceTypes, DriverMoves DEF At, DriverType
  <2>2. Around(s) \in DriverType /\ Around(s).pc = "top"
    BY <2>1, IdleType DEF Around, DriverType
  <2>3. CASE locks' = locks /\ \E m : Commit(s, m, Around(s))
    BY <1>1, <2>2, <2>3
  <2>4. CASE Settle(s, Failed(drv[s].mem), "tail")
    BY <2>4, RecordTypes, StateMoves, SettlePrint
  <2> DEFINE d == [At(s, "observing") EXCEPT !.plan = "stop", !.mem.done = FALSE]
  <2>5. CASE Goes(s, d) /\ locks' = locks
    <3>1. d.pc = "observing"
      BY <1>0 DEF At, DriverType
    <3>2. OthersStay(s) /\ drv'[s].pc = "observing"
      BY <2>5, <3>1, GoesPrint
    <3> QED
      BY <2>5, <3>2, SameLocksOwn, PlainPrint
  <2> QED
    BY <1>2, <2>3, <2>4, <2>5 DEF Evaluate
<1>3. CASE PlanRecovery(s)
  <2>1. PICK plan \in {"retry", "ask", "stop"} :
          Commit(s, Spent(drv[s].mem, plan),
                 [At(s, "planned") EXCEPT !.plan = Allowed(drv[s].mem, plan)])
    BY <1>3 DEF PlanRecovery
  <2> DEFINE d == [At(s, "planned") EXCEPT !.plan = Allowed(drv[s].mem, plan)]
  <2>2. Allowed(drv[s].mem, plan) \in Plans
    BY <2>1 DEF Allowed, Plans
  <2>3. d \in DriverType /\ d.pc = "planned"
    BY <1>0, <2>2, PlaceTypes, DriverMoves DEF At, DriverType
  <2>4. Commit(s, Spent(drv[s].mem, plan), d) /\ locks' = locks
    BY <1>3, <2>1 DEF PlanRecovery
  <2> HIDE DEF d
  <2> QED
    BY <1>1, <2>3, <2>4
<1>4. CASE Return(s)
  BY <1>4, GonePrint, SameLocksOwn, PlainPrint DEF Return
<1> QED
  BY <1>2, <1>3, <1>4

\* A cancelled driver leaves its tool and unwinds.
LEMMA CancelPrint ==
  ASSUME TInv, NEW s \in Sessions, HandleCancel(s) \/ DieCancelled(s)
  PROVE  Footprint(s)
<1>1. OwnLocks(s)
  <2>1. CASE locks' = locks
    BY <2>1, SameLocksOwn
  <2>2. CASE locks' = Released(s, drv[s].act)
    BY <2>2, ReleasedOwn
  <2>3. CASE CanLock(s, drv[s].act) /\ locks' = Locked(s, drv[s].act)
    BY <2>3, RecordTypes, LockedOwn
  <2> QED
    BY <2>1, <2>2, <2>3 DEF HandleCancel, DieCancelled, Unwind
<1>2. CASE Gone(s)
  BY <1>1, <1>2, GonePrint, PlainPrint
<1> DEFINE d == [At(s, "tail") EXCEPT !.mem = Cancelled(drv[s].mem), !.act = NoAction,
                                      !.handling = TRUE]
<1>3. CASE drv' = [drv EXCEPT ![s] = d]
  <2>1. d.pc = "tail"
    BY RecordTypes DEF At, DriverType
  <2> HIDE DEF d
  <2>2. OthersStay(s) /\ drv'[s].pc = "tail"
    BY <1>3, <2>1 DEF TInv, StoreOK, OthersStay
  <2> QED
    BY <1>1, <2>2, PlainPrint
<1> QED
  BY <1>2, <1>3 DEF HandleCancel, DieCancelled

LEMMA StepPrint ==
  ASSUME TInv, NEW s \in Sessions, Caller(s) \/ DriverStep(s)
  PROVE  Footprint(s)
<1>1. CASE EnterLoop(s) \/ EnterConfirmed(s) \/ EnterRejected(s) \/ EnterRefused(s)
  BY <1>1, EnterPrint
<1>2. CASE Activate(s) \/ LoopTop(s) \/ Decide(s) \/ Drive(s) \/ Recover(s)
  BY <1>2, LoopPrint
<1>3. CASE Refuse(s) \/ Reconcile(s) \/ AskConfirmation(s) \/ StartTool(s)
  BY <1>3, ExecutorPrint
<1>4. CASE ToolSucceeds(s) \/ Announced(s) \/ ToolFails(s) \/ Reconciled(s)
  BY <1>4, OutcomePrint
<1>5. CASE Evaluate(s) \/ PlanRecovery(s) \/ Return(s)
  BY <1>5, ObservePrint
<1>6. CASE HandleCancel(s) \/ DieCancelled(s)
  BY <1>6, CancelPrint
<1> QED
  BY <1>1, <1>2, <1>3, <1>4, <1>5, <1>6, CallerPrint DEF DriverStep

-----------------------------------------------------------------------------
\* Nothing a session does takes away the lock another one works under, and it
\* reaches its own tool only with the lock.
LEMMA FootprintKeepsLocks ==
  ASSUME TInv, ToolHoldsLock, NEW s \in Sessions, Footprint(s)
  PROVE  ToolHoldsLock'
<1> SUFFICES ASSUME NEW t \in Sessions PROVE Holding(t)'
  BY DEF ToolHoldsLock
<1>1. CASE t # s
  <2> SUFFICES ASSUME InTool(t)', ResourceOf[drv'[t].act.what] \in Resources
               PROVE  locks'[ResourceOf[drv'[t].act.what]] = [by |-> t, id |-> drv'[t].act.id]
    BY DEF Holding, What, LockOf
  <2>1. drv'[t] = drv[t]
    BY <1>1 DEF Footprint, OthersStay
  <2> DEFINE r == ResourceOf[drv[t].act.what]
  <2>2. r \in Resources /\ locks[r] = [by |-> t, id |-> drv[t].act.id]
    BY <2>1 DEF ToolHoldsLock, Holding, InTool, What, LockOf
  <2>3. locks[r].by \notin {s, NoSession}
    BY <1>1, <2>2, Constants
  <2>4. locks'[r] = locks[r]
    BY <2>2, <2>3 DEF Footprint, OwnLocks
  <2> QED
    BY <2>1, <2>2, <2>4
<1>2. CASE t = s
  <2> SUFFICES ASSUME drv'[s].pc \in ToolPlaces,
                      ResourceOf[drv'[s].act.what] \in Resources
               PROVE  locks'[ResourceOf[drv'[s].act.what]] = [by |-> s, id |-> drv'[s].act.id]
    BY <1>2 DEF Holding, InTool, What, LockOf
  <2>1. CASE StaysInTool(s)
    BY <2>1 DEF StaysInTool, ToolHoldsLock, Holding, InTool, ToolPlaces, What, LockOf
  <2>2. CASE EntersTool(s)
    <3>1. Mutates(drv[s].act.what)
      BY <2>2, Constants DEF EntersTool, Mutates
    <3> QED
      BY <2>2, <3>1 DEF EntersTool, Locked, LockOf, TInv, LocksOK
  <2> QED
    BY <2>1, <2>2 DEF Footprint
<1> QED
  BY <1>1, <1>2

LEMMA InitLocks == Init => ToolHoldsLock
  BY DEF Init, ToolHoldsLock, Holding, InTool, ToolPlaces, NoDriver

LEMMA NextLocks == TInv /\ ToolHoldsLock /\ [Next]_vars => ToolHoldsLock'
<1> SUFFICES ASSUME TInv, ToolHoldsLock, [Next]_vars PROVE ToolHoldsLock'
  OBVIOUS
<1>1. CASE UNCHANGED vars
  BY <1>1 DEF vars, ToolHoldsLock, Holding, InTool, What, LockOf
<1>2. CASE Restart
  BY <1>2 DEF Restart, ToolHoldsLock, Holding, InTool, ToolPlaces, NoDriver
<1>3. CASE \E s \in Sessions : Caller(s) \/ DriverStep(s)
  BY <1>3, StepPrint, FootprintKeepsLocks
<1> QED
  BY <1>1, <1>2, <1>3 DEF Next

(* The driver at a tool, telling of its success, or at its reconciler holds   *)
(* the lock of the resource (ActionExecutor.execute;                          *)
(* ResourceLockRegistry.acquire and release).                                 *)
THEOREM SessionToolHoldsLock == Spec => []ToolHoldsLock
<1>1. Spec => []TInv
  BY TypesInvariant
<1> QED
  BY <1>1, InitLocks, NextLocks, PTL DEF Spec

(* Two sessions never work on one resource at a time, however many of them   *)
(* there are and whatever confirmations, rejections, recoveries,             *)
(* cancellations and restarts interleave (ActionExecutor.execute).           *)
THEOREM SessionOneToolPerResource == Spec => []OneToolPerResource
<1>1. ToolHoldsLock => OneToolPerResource
  <2> SUFFICES ASSUME ToolHoldsLock, NEW r \in Resources, NEW s \in Sessions, NEW t \in Sessions,
                      Uses(s, r), Uses(t, r)
               PROVE  s = t
    BY DEF OneToolPerResource
  <2>1. locks[r] = LockOf(s, drv[s].act) /\ locks[r] = LockOf(t, drv[t].act)
    BY DEF ToolHoldsLock, Holding, InTool, ToolPlaces, Uses
  <2> QED
    BY <2>1 DEF LockOf
<1> QED
  BY <1>1, SessionToolHoldsLock, PTL

-----------------------------------------------------------------------------
(* The record of what ran.  The invariant behind RunsOnce: a side effect that *)
(* succeeded in the task is on record, unless its driver was cancelled while  *)
(* it told of that success; and while a tool runs, its proposal is on record  *)
(* and is not one of those successes, so that a failure forgets none of them. *)

Ledger(s) ==
  /\ \A a \in Told(s) : Mutates(a) => a \in seen[s]
  /\ drv[s].pc = "tool" /\ Mutates(What(s)) => What(s) \in seen[s] \ Told(s)

Ledgers == \A s \in Sessions : Ledger(s)

EndsTool(s) ==
  /\ drv[s].pc = "tool" /\ drv'[s].pc # "tool"
  /\ \/ seen'[s] = seen[s] /\ Told(s)' = Told(s) \cup {What(s)}
     \/ seen'[s] = seen[s] \ {What(s)} /\ Told(s)' = Told(s)

\* The driver is cancelled while it tells of a success: the record is lost.
CutsOff(s) ==
  /\ drv[s].pc = "announcing" /\ drv'[s].pc # "tool"
  /\ seen'[s] = seen[s] \ {What(s)} /\ Told(s)' = Told(s) \ {What(s)}

\* What any step of session s does to the records.
LedgerStep(s) ==
  /\ \A t \in Sessions \ {s} : seen'[t] = seen[t] /\ Told(t)' = Told(t)
  /\ \/ seen'[s] = seen[s] /\ Told(s)' = Told(s)
     \/ Told(s)' = {} /\ drv[s].pc \in {"entering", "observing"}
     \/ StartsTool(s)
     \/ EndsTool(s)
     \/ CutsOff(s)

LEMMA SameLedger ==
  ASSUME NEW s \in Sessions, seen' = seen, ran' = ran, cut' = cut
  PROVE  LedgerStep(s)
  BY DEF LedgerStep, Told

LEMMA NextTaskLedger ==
  ASSUME TInv, NEW s \in Sessions, NextTask(s), drv[s].pc \in {"entering", "observing"}
  PROVE  LedgerStep(s)
  BY DEF NextTask, TInv, WorldOK, LedgerStep, Told

LEMMA UnwindLedger ==
  ASSUME TInv, NEW s \in Sessions, HandleCancel(s) \/ DieCancelled(s)
  PROVE  LedgerStep(s)
<1>1. drv'[s].pc \in {"none", "tail"}
  <2>1. CASE Gone(s)
    BY <2>1, GonePrint
  <2> DEFINE d == [At(s, "tail") EXCEPT !.mem = Cancelled(drv[s].mem), !.act = NoAction,
                                        !.handling = TRUE]
  <2>2. CASE drv' = [drv EXCEPT ![s] = d]
    <3>1. d.pc = "tail"
      BY RecordTypes DEF At, DriverType
    <3> HIDE DEF d
    <3> QED
      BY <2>2, <3>1 DEF TInv, StoreOK
  <2> QED
    BY <2>1, <2>2 DEF HandleCancel, DieCancelled
<1>2. Unwind(s)
  BY DEF HandleCancel, DieCancelled
<1>3. CASE drv[s].pc = "tool"
  BY <1>1, <1>2, <1>3 DEF Unwind, Forgotten, TInv, WorldOK, LedgerStep, EndsTool, Told
<1>4. CASE drv[s].pc = "announcing"
  BY <1>1, <1>2, <1>4 DEF Unwind, Forgotten, TInv, WorldOK, LedgerStep, CutsOff, Told
<1>5. CASE drv[s].pc \notin {"tool", "announcing"}
  <2>1. UNCHANGED <<seen, ran, cut>>
    BY <1>2, <1>5 DEF Unwind
  <2> QED
    BY <2>1, SameLedger
<1> QED
  BY <1>3, <1>4, <1>5

LEMMA StepLedger ==
  ASSUME TInv, NEW s \in Sessions, Caller(s) \/ DriverStep(s)
  PROVE  LedgerStep(s)
<1>1. CASE Caller(s)
  <2>1. UNCHANGED World
    BY <1>1 DEF Caller, Run, Resume, Continue, Begins, RequestPause, RequestCancel,
                CancelCaller, LoadForControl, SettleControl
  <2> QED
    BY <2>1, SameLedger DEF World
<1>2. CASE EnterLoop(s) \/ Evaluate(s)
  <2>1. CASE UNCHANGED <<seen, ran, cut>>
    BY <2>1, SameLedger
  <2>2. CASE NextTask(s)
    BY <1>2, <2>2, NextTaskLedger DEF EnterLoop, Evaluate
  <2> QED
    BY <1>2, <2>1, <2>2 DEF EnterLoop, Evaluate
<1>3. CASE \/ EnterConfirmed(s) \/ EnterRejected(s) \/ EnterRefused(s) \/ Activate(s)
           \/ LoopTop(s) \/ Decide(s) \/ Drive(s)
  <2>1. UNCHANGED <<seen, ran, cut>>
    BY <1>3 DEF EnterConfirmed, EnterRejected, EnterRefused, Activate, LoopTop, ObeyRequest,
                Decide, Drive, World
  <2> QED
    BY <2>1, SameLedger
<1>4. CASE \/ Refuse(s) \/ Reconcile(s) \/ AskConfirmation(s) \/ Reconciled(s)
           \/ Announced(s) \/ PlanRecovery(s) \/ Recover(s) \/ Return(s)
  <2>1. UNCHANGED <<seen, ran, cut>>
    BY <1>4 DEF Refuse, Reconcile, AskConfirmation, Reconciled, Rejects, Announced,
                PlanRecovery, Recover, Return, World
  <2> QED
    BY <2>1, SameLedger
<1>5. CASE StartTool(s)
  <2>1. CASE CanLock(s, drv[s].act)
    <3>1. StartsTool(s)
      BY <1>5, <2>1 DEF StartTool, StartsTool
    <3> QED
      BY <3>1 DEF StartsTool, Recorded, LedgerStep, TInv, WorldOK, Told
  <2>2. CASE ~CanLock(s, drv[s].act)
    BY <1>5, <2>2, SameLedger DEF StartTool, Rejects, World
  <2> QED
    BY <2>1, <2>2
<1>6. CASE ToolSucceeds(s) \/ ToolFails(s)
  <2>1. drv'[s].pc \in {"announcing", "observing"} /\ drv[s].pc = "tool"
    BY <1>6, RecordTypes DEF ToolSucceeds, ToolFails, TInv, StoreOK, DriverType
  <2>2. CASE ToolSucceeds(s)
    BY <2>1, <2>2 DEF ToolSucceeds, LedgerStep, EndsTool, TInv, WorldOK, Told
  <2>3. CASE ToolFails(s)
    BY <2>1, <2>3 DEF ToolFails, Forgotten, LedgerStep, EndsTool, TInv, WorldOK, Told
  <2> QED
    BY <1>6, <2>2, <2>3
<1>7. CASE HandleCancel(s) \/ DieCancelled(s)
  BY <1>7, UnwindLedger
<1> QED
  BY <1>1, <1>2, <1>3, <1>4, <1>5, <1>6, <1>7 DEF DriverStep

LEMMA LedgerKept ==
  ASSUME TInv, Ledgers, NEW s \in Sessions, Footprint(s), LedgerStep(s)
  PROVE  Ledgers'
<1> SUFFICES ASSUME NEW t \in Sessions PROVE Ledger(t)'
  BY DEF Ledgers
<1>1. CASE t # s
  <2>1. drv'[t] = drv[t] /\ seen'[t] = seen[t] /\ Told(t)' = Told(t) /\ Ledger(t)
    BY <1>1 DEF Footprint, OthersStay, LedgerStep, Ledgers
  <2> QED
    BY <2>1 DEF Ledger, What, Mutates
<1>2. CASE t = s
  <2>1. Ledger(s)
    BY DEF Ledgers
  <2>2. CASE seen'[s] = seen[s] /\ Told(s)' = Told(s)
    <3>1. CASE drv'[s].pc = "tool"
      <4>1. CASE StaysInTool(s)
        BY <1>2, <2>1, <2>2, <3>1, <4>1 DEF StaysInTool, Ledger, What, Mutates
      <4>2. CASE EntersTool(s)
        <5>1. What(s)' = What(s) /\ What(s) \notin seen[s] /\ seen' = Recorded(s)
          BY <3>1, <4>2 DEF EntersTool, StartsTool, What
        <5>2. ~Mutates(What(s))
          BY <2>2, <5>1 DEF Recorded, TInv, WorldOK
        <5> QED
          BY <1>2, <2>1, <2>2, <5>1, <5>2 DEF Ledger, Mutates
      <4> QED
        BY <3>1, <4>1, <4>2 DEF Footprint, ToolPlaces
    <3>2. CASE drv'[s].pc # "tool"
      BY <1>2, <2>1, <2>2, <3>2 DEF Ledger, Mutates
    <3> QED
      BY <3>1, <3>2 DEF ToolPlaces
  <2>3. CASE Told(s)' = {} /\ drv[s].pc \in {"entering", "observing"}
    <3>1. drv'[s].pc # "tool"
      BY <2>3 DEF Footprint, ToolPlaces, StaysInTool, EntersTool, StartsTool
    <3> QED
      BY <1>2, <2>3, <3>1 DEF Ledger
  <2>4. CASE StartsTool(s)
    <3>1. /\ seen'[s] = IF Mutates(What(s)) THEN seen[s] \cup {What(s)} ELSE seen[s]
          /\ Told(s)' = Told(s) /\ What(s) \notin seen[s] /\ drv[s].pc = "checking"
      BY <2>4 DEF StartsTool, Recorded, TInv, WorldOK, Told
    <3>2. drv'[s].pc = "tool" => What(s)' = What(s)
      BY <3>1 DEF Footprint, ToolPlaces, StaysInTool, EntersTool, What
    <3> QED
      BY <1>2, <2>1, <3>1, <3>2 DEF Ledger, Mutates
  <2>5. CASE EndsTool(s)
    BY <1>2, <2>1, <2>5 DEF EndsTool, Ledger, Mutates
  <2>6. CASE CutsOff(s)
    BY <1>2, <2>1, <2>6 DEF CutsOff, Ledger, Mutates
  <2> QED
    BY <2>2, <2>3, <2>4, <2>5, <2>6 DEF LedgerStep
<1> QED
  BY <1>1, <1>2

LEMMA InitLedger == Init => Ledgers
  BY DEF Init, Ledgers, Ledger, Told, NoDriver

LEMMA NextLedger == TInv /\ Ledgers /\ [Next]_vars => Ledgers'
<1> SUFFICES ASSUME TInv, Ledgers, [Next]_vars PROVE Ledgers'
  OBVIOUS
<1>1. CASE UNCHANGED vars
  BY <1>1 DEF vars, Ledgers, Ledger, Told, What, Mutates
<1>2. CASE Restart
  BY <1>2 DEF Restart, Ledgers, Ledger, Told, NoDriver
<1>3. CASE \E s \in Sessions : Caller(s) \/ DriverStep(s)
  BY <1>3, StepPrint, StepLedger, LedgerKept
<1> QED
  BY <1>1, <1>2, <1>3 DEF Next

(* A side effect that succeeded in the task is on record for as long as the   *)
(* process and the task last, unless its driver was cancelled while it told   *)
(* of the success; in particular a tool's failure and a cancellation of a     *)
(* tool at work forget no success (runtime/actions.py, execute and its        *)
(* InMemoryIdempotencyStore).                                                 *)
THEOREM SessionLedger == Spec => []Ledgers
  BY TypesInvariant, InitLedger, NextLedger, PTL DEF Spec

\* Only a step of its own past the gate starts a session's tool.
LEMMA StartPassesGate ==
  ASSUME TInv, [Next]_vars, NEW s \in Sessions, Starts(s)
  PROVE  StartsTool(s) /\ drv'[s].act = drv[s].act
<1>1. CASE UNCHANGED vars
  BY <1>1 DEF vars, Starts
<1>2. CASE Restart
  BY <1>2 DEF Restart, Starts, NoDriver
<1>3. ASSUME NEW t \in Sessions, Caller(t) \/ DriverStep(t)
      PROVE  StartsTool(s) /\ drv'[s].act = drv[s].act
  <2>1. Footprint(t)
    BY <1>3, StepPrint
  <2> QED
    BY <2>1 DEF Footprint, ToolPlaces, OthersStay, StaysInTool, EntersTool, Starts
<1> QED
  BY <1>1, <1>2, <1>3 DEF Next

(* Within one task and one process no side effect that succeeded is carried   *)
(* out again, whatever recovery, the model, resume or continue propose and    *)
(* however often tools fail or are cancelled, unless the driver was cancelled *)
(* after the tool's success and before the success was told to its end, when  *)
(* the record of it is forgotten (ActionExecutor.execute and its idempotency  *)
(* store).                                                                    *)
THEOREM SessionRunsOnce == Spec => RunsOnce
<1>1. TInv /\ Ledgers /\ [Next]_vars
        => [\A s \in Sessions : Starts(s) /\ Mutates(drv'[s].act.what)
              => drv'[s].act.what \notin Told(s)]_vars
  BY StartPassesGate DEF StartsTool, Ledgers, Ledger, What
<1> QED
  BY <1>1, TypesInvariant, SessionLedger, PTL DEF Spec, RunsOnce

-----------------------------------------------------------------------------
(* Approvals and statuses.  The invariant behind ConsentGate: every approval   *)
(* that is stored, loaded or driven, and every action a driver takes for       *)
(* confirmed, is of a proposal the user confirmed.  Behind TerminalStaysPut: a *)
(* writer whose snapshot is still the stored one does not stand on a terminal  *)
(* session, unless it is about to continue it or is done with it.             *)

Working == {"entered"} \cup (Active \ {"tail"})

Backed(d, C) ==
  /\ d.mem.approved \subseteq C
  /\ d.conf /\ d.act # NoAction => d.act.what \in C
  /\ d.pc = "entered" /\ d.plan = "confirm" => d.mem.pending.what \in C

Runs(d) == d.pc \in Working => d.mem.status = "running"

Reopens(s) == drv[s].pc = "entering" /\ drv[s].plan = "continue"

MayCommit(s) == drv[s].fresh /\ drv[s].pc \in Working \cup {"entering"}

Sound(s) ==
  /\ store[s].approved \subseteq consent[s]
  /\ ctl[s].mem.approved \subseteq consent[s]
  /\ Backed(drv[s], consent[s])
  /\ Runs(drv[s])
  /\ MayCommit(s) /\ store[s].status \in Terminal => Reopens(s)
  /\ ctl[s].op # "none" /\ ctl[s].fresh => store[s].status \notin Terminal \cup {"none"}

AllSound == \A s \in Sessions : Sound(s)

\* What any step of session s does to the others and to the stored snapshot.
Elsewhere(s) ==
  \A t \in Sessions \ {s} :
    store'[t] = store[t] /\ drv'[t] = drv[t] /\ ctl'[t] = ctl[t] /\ consent'[t] = consent[t]

Reopening(s) ==
  store[s].status \in Terminal /\ store'[s].status \notin Terminal => Reopens(s)

SoundStep(s) == Elsewhere(s) /\ Sound(s)' /\ Reopening(s)

\* A driver's record with other memory, and at another place under another plan.
With(d, m) == [d EXCEPT !.mem = m]
Moved(s, place, plan) == [At(s, place) EXCEPT !.plan = plan]

LEMMA WithFields ==
  ASSUME NEW d \in DriverType, NEW m \in StateType
  PROVE  /\ With(d, m) \in DriverType /\ With(d, m).mem = m
         /\ With(d, m).pc = d.pc /\ With(d, m).plan = d.plan /\ With(d, m).act = d.act
         /\ With(d, m).conf = d.conf /\ With(d, m).fresh = d.fresh
  BY DEF With, DriverType

\* A driver of s commits m where it may.
LEMMA CommitSound ==
  ASSUME TInv, NEW s \in Sessions, Sound(s), NEW m \in StateType, NEW d \in DriverType,
         Commit(s, m, d), drv[s].pc \in Working \cup {"entering"},
         consent' \in [Sessions -> SUBSET Proposals],
         \A t \in Sessions \ {s} : consent'[t] = consent[t],
         consent[s] \subseteq consent'[s],
         Backed(With(d, m), consent'[s]),
         Runs(With(d, m)),
         m.status \in Terminal => d.pc \in {"leaving", "tail"},
         d.pc # "entering"
  PROVE  SoundStep(s)
<1>0. /\ store \in [Sessions -> StateType] /\ drv \in [Sessions -> DriverType]
      /\ ctl \in [Sessions -> CallType]
  BY DEF TInv, StoreOK
<1>1. CASE drv[s].fresh
  <2>1. /\ store' = [store EXCEPT ![s] = Snapshot(m)]
        /\ ctl' = [ctl EXCEPT ![s].fresh = FALSE]
        /\ drv' = [drv EXCEPT ![s] = With(d, m)]
    BY <1>1 DEF Commit, With
  <2>2. Elsewhere(s)
    BY <1>0, <2>1 DEF Elsewhere
  <2>3. drv'[s] = With(d, m) /\ drv'[s].pc = d.pc /\ drv'[s].mem = m
    BY <1>0, <2>1, WithFields
  <2>4. /\ store'[s].approved = m.approved /\ store'[s].status = m.status
        /\ ctl'[s].mem = ctl[s].mem /\ ~ctl'[s].fresh
    BY <1>0, <2>1 DEF Snapshot, StateType, CallType
  <2>5. Reopening(s)
    BY <1>1 DEF Reopening, Sound, MayCommit
  <2>6. m.approved \subseteq consent'[s]
    BY <2>3 DEF Backed
  <2>7. m.status \in Terminal => drv'[s].pc \notin Working \cup {"entering"}
    BY <2>3 DEF Working, Active
  <2>8. Sound(s)'
    BY <2>3, <2>4, <2>6, <2>7 DEF Sound, Backed, Runs, MayCommit
  <2> QED
    BY <2>2, <2>5, <2>8 DEF SoundStep
<1>2. CASE ~drv[s].fresh
  <2>1. store' = store /\ ctl' = ctl /\ drv' = [drv EXCEPT ![s] = NoDriver]
    BY <1>2 DEF Commit, Gone
  <2>2. drv'[s] = NoDriver
    BY <1>0, <2>1
  <2>3. Elsewhere(s) /\ Reopening(s)
    BY <1>0, <2>1 DEF Elsewhere, Reopening
  <2>4. Sound(s)'
    BY <2>1, <2>2 DEF Sound, Backed, Runs, MayCommit, NoDriver, Blank, Working, Active
  <2> QED
    BY <2>3, <2>4 DEF SoundStep
<1> QED
  BY <1>1, <1>2

\* A driver of s goes on without committing.
LEMMA GoesSound ==
  ASSUME TInv, NEW s \in Sessions, Sound(s), NEW d \in DriverType,
         drv' = [drv EXCEPT ![s] = d], UNCHANGED <<store, ctl, consent>>,
         drv[s].pc \in Working,
         Backed(d, consent[s]), Runs(d), d.fresh = drv[s].fresh, d.pc # "entering"
  PROVE  SoundStep(s)
<1>1. drv \in [Sessions -> DriverType]
  BY DEF TInv, StoreOK
<1>2. Elsewhere(s) /\ Reopening(s) /\ drv'[s] = d
  BY <1>1 DEF Elsewhere, Reopening
<1>3. drv[s].fresh => store[s].status \notin Terminal
  BY DEF Sound, MayCommit, Reopens, Working, Active
<1>4. Sound(s)'
  BY <1>2, <1>3 DEF Sound, MayCommit
<1> QED
  BY <1>2, <1>4 DEF SoundStep

\* A driver of s ends.
LEMMA GoneSound ==
  ASSUME TInv, NEW s \in Sessions, Sound(s), Gone(s), UNCHANGED <<store, ctl>>,
         consent' = consent
  PROVE  SoundStep(s)
<1>1. drv' = [drv EXCEPT ![s] = NoDriver] /\ drv \in [Sessions -> DriverType]
  BY DEF Gone, TInv, StoreOK
<1>2. Elsewhere(s) /\ Reopening(s) /\ drv'[s] = NoDriver
  BY <1>1 DEF Elsewhere, Reopening
<1>3. Sound(s)'
  BY <1>2 DEF Sound, Backed, Runs, MayCommit, NoDriver, Blank, Working, Active
<1> QED
  BY <1>2, <1>3 DEF SoundStep

LEMMA SettleSound ==
  ASSUME TInv, NEW s \in Sessions, Sound(s), NEW m \in StateType,
         NEW place \in {"leaving", "tail"}, Settle(s, m, place),
         drv[s].pc \in Working \cup {"entering"}, consent' = consent,
         m.approved \subseteq consent[s]
  PROVE  SoundStep(s)
<1> DEFINE d == [At(s, place) EXCEPT !.act = NoAction, !.conf = FALSE, !.steps = 0]
<1>0. At(s, place) \in DriverType /\ At(s, place).pc = place
  BY RecordTypes, PlaceTypes, DriverMoves DEF At, DriverType
<1>1. d \in DriverType /\ d.pc = place /\ ~d.conf
  BY <1>0, IdleType DEF DriverType
<1>2. Commit(s, Cleared(m), d)
  BY DEF Settle
<1> HIDE DEF d
<1>3. Cleared(m) \in StateType /\ Cleared(m).approved = m.approved
  BY StateMoves DEF Cleared, StateType
<1> DEFINE e == With(d, Cleared(m))
<1>4. e.mem = Cleared(m) /\ e.pc = place /\ ~e.conf
  BY <1>1, <1>3, WithFields
<1>5. Backed(e, consent[s]) /\ Runs(e)
  BY <1>3, <1>4 DEF Backed, Runs, Working, Active
<1>6. consent \in [Sessions -> SUBSET Proposals]
  BY DEF TInv, WorldOK
<1>7. d.pc \in {"leaving", "tail"} /\ d.pc # "entering"
  BY <1>1
<1> HIDE DEF e
<1> QED
  BY <1>1, <1>2, <1>3, <1>5, <1>6, <1>7, CommitSound DEF e

LEMMA MovedFields ==
  ASSUME TInv, NEW s \in Sessions, NEW place \in {"none"} \cup Quiet \cup Active,
         NEW plan \in Plans
  PROVE  LET d == Moved(s, place, plan) IN
         /\ d \in DriverType /\ d.pc = place /\ d.plan = plan /\ d.mem = drv[s].mem
         /\ d.act = drv[s].act /\ d.conf = drv[s].conf /\ d.fresh = drv[s].fresh
<1> DEFINE a == At(s, place)
<1>1. /\ a \in DriverType /\ a.pc = place /\ a.mem = drv[s].mem /\ a.act = drv[s].act
      /\ a.conf = drv[s].conf /\ a.fresh = drv[s].fresh
  BY RecordTypes, DriverMoves DEF At, DriverType
<1>2. Moved(s, place, plan) = [a EXCEPT !.plan = plan]
  BY DEF Moved
<1> HIDE DEF a
<1>3. [a EXCEPT !.plan = plan] \in DriverType
  BY <1>1, DriverMoves
<1>4. LET b == [a EXCEPT !.plan = plan] IN
      /\ b.pc = a.pc /\ b.plan = plan /\ b.mem = a.mem /\ b.act = a.act
      /\ b.conf = a.conf /\ b.fresh = a.fresh
  BY <1>1 DEF DriverType
<1> QED
  BY <1>1, <1>2, <1>3, <1>4

LEMMA StayedRecord ==
  ASSUME TInv, NEW s \in Sessions, NEW place
  PROVE  At(s, place) = Moved(s, place, drv[s].plan)
  BY RecordTypes DEF At, Moved, DriverType

\* A commit at a place the driver goes on from, under a plan that confirms nothing.
LEMMA CommitsOn ==
  ASSUME TInv, NEW s \in Sessions, Sound(s), NEW place \in Working, NEW plan \in Plans,
         NEW m \in StateType, Commit(s, m, Moved(s, place, plan)),
         drv[s].pc \in Working \cup {"entering"}, consent' = consent,
         m.approved \subseteq consent[s], m.status = "running",
         place # "entered" \/ plan # "confirm"
  PROVE  SoundStep(s)
<1> DEFINE d == Moved(s, place, plan)
           e == With(d, m)
<1>0. place \in {"none"} \cup Quiet \cup Active
  BY DEF Working, Quiet
<1>1. /\ d \in DriverType /\ d.pc = place /\ d.plan = plan /\ d.act = drv[s].act
      /\ d.conf = drv[s].conf
  BY <1>0, MovedFields
<1>2. /\ e.pc = place /\ e.plan = plan /\ e.mem = m /\ e.act = drv[s].act
      /\ e.conf = drv[s].conf
  BY <1>1, WithFields
<1>3. consent \in [Sessions -> SUBSET Proposals] /\ Backed(drv[s], consent[s])
  BY DEF TInv, WorldOK, Sound
<1>4. d.pc # "entering" /\ m.status \notin Terminal
  BY <1>1 DEF Working, Active, Terminal
<1>5. Backed(e, consent[s]) /\ Runs(e)
  BY <1>2, <1>3 DEF Backed, Runs
<1> HIDE DEF d
<1> QED
  BY <1>1, <1>3, <1>4, <1>5, CommitSound DEF d

\* What the memory of a running driver is changed into keeps its approvals.
LEMMA SameApprovals ==
  ASSUME NEW m \in StateType
  PROVE  /\ \A x \in {Waiting(m), Failed(m), Cancelled(m), Finished(m), Unpend(m)} :
              x.approved = m.approved
         /\ Counted(m).approved = m.approved /\ Counted(m).status = m.status
         /\ Unpend(m).status = m.status
         /\ \A plan : Spent(m, plan).approved = m.approved /\ Spent(m, plan).status = m.status
  BY DEF Waiting, Failed, Cancelled, Finished, Unpend, Counted, Spent, StateType

\* Settling what the driver has in memory.
LEMMA SettlesSound ==
  ASSUME TInv, NEW s \in Sessions, Sound(s), drv[s].pc \in Working \cup {"entering"},
         NEW place \in {"leaving", "tail"}, consent' = consent,
         NEW n \in {drv[s].mem, Unpend(drv[s].mem)},
         \E m \in {Waiting(n), Failed(n), Cancelled(n), Finished(n)} : Settle(s, m, place)
  PROVE  SoundStep(s)
<1>1. drv[s].mem \in StateType
  BY RecordTypes
<1>2. n \in StateType /\ n.approved = drv[s].mem.approved
  BY <1>1, StateMoves, SameApprovals
<1>3. PICK m \in {Waiting(n), Failed(n), Cancelled(n), Finished(n)} : Settle(s, m, place)
  OBVIOUS
<1>4. m \in StateType /\ m.approved = n.approved
  BY <1>2, <1>3, StateMoves, SameApprovals
<1>5. m.approved \subseteq consent[s]
  BY <1>2, <1>4 DEF Sound, Backed
<1> QED
  BY <1>3, <1>4, <1>5, SettleSound

LEMMA CallerSound ==
  ASSUME TInv, NEW s \in Sessions, Sound(s), Caller(s)
  PROVE  SoundStep(s)
<1>0. /\ store \in [Sessions -> StateType] /\ drv \in [Sessions -> DriverType]
      /\ ctl \in [Sessions -> CallType] /\ consent' = consent
  BY DEF TInv, StoreOK, Caller, Run, Resume, Continue, Begins, RequestPause, RequestCancel,
         CancelCaller, LoadForControl, SettleControl, World
<1>1. ASSUME NEW plan \in Plans, Begins(s, store[s], plan),
             store[s].status \in Terminal => plan = "continue"
      PROVE  SoundStep(s)
  <2> DEFINE d == [NoDriver EXCEPT !.pc = "entering", !.mem = store[s], !.fresh = TRUE,
                                   !.plan = plan]
  <2>1. drv' = [drv EXCEPT ![s] = d] /\ UNCHANGED <<store, ctl>>
    BY <1>1 DEF Begins
  <2>2. d.pc = "entering" /\ d.plan = plan /\ d.mem = store[s] /\ ~d.conf /\ d.fresh
    BY DEF NoDriver
  <2> HIDE DEF d
  <2>3. drv'[s] = d /\ Elsewhere(s) /\ Reopening(s)
    BY <1>0, <2>1 DEF Elsewhere, Reopening
  <2>4. Sound(s)'
    BY <1>0, <1>1, <2>1, <2>2, <2>3 DEF Sound, Backed, Runs, Reopens, Working, Active
  <2> QED
    BY <2>3, <2>4 DEF SoundStep
<1>2. CASE \/ \E confirmed \in {"yes", "no", "unset"} : Resume(s, confirmed)
           \/ Continue(s)
  <2>1. \E plan \in Plans : Begins(s, store[s], plan)
                            /\ (store[s].status \in Terminal => plan = "continue")
    BY <1>2 DEF Resume, Continue, Plans, Terminal
  <2> QED
    BY <1>1, <2>1
<1>3. CASE Run(s)
  <2> DEFINE d == [NoDriver EXCEPT !.pc = "entering", !.fresh = TRUE,
                     !.mem = [Blank EXCEPT !.status = "pending"], !.plan = "start"]
  <2>1. /\ drv' = [drv EXCEPT ![s] = d] /\ UNCHANGED ctl /\ store[s].status = "none"
        /\ store' = [store EXCEPT ![s].status = "pending"]
    BY <1>3 DEF Run
  <2>2. d.pc = "entering" /\ d.plan = "start" /\ d.mem.approved = {} /\ ~d.conf
    BY DEF NoDriver, Blank
  <2> HIDE DEF d
  <2>3. /\ drv'[s] = d /\ Elsewhere(s)
        /\ store'[s].status = "pending" /\ store'[s].approved = store[s].approved
    BY <1>0, <2>1 DEF Elsewhere, StateType
  <2>4. Reopening(s) /\ Sound(s)'
    BY <1>0, <2>1, <2>2, <2>3 DEF Reopening, Sound, Backed, Runs, Working, Active, Terminal
  <2> QED
    BY <2>3, <2>4 DEF SoundStep
<1>4. CASE RequestPause(s) \/ RequestCancel(s) \/ CancelCaller(s)
  BY <1>0, <1>4 DEF RequestPause, RequestCancel, CancelCaller, SoundStep, Elsewhere, Reopening,
                    Sound, MayCommit, Reopens
<1>5. CASE \E op \in {"pause", "cancel"} : LoadForControl(s, op)
  <2>1. /\ UNCHANGED <<store, drv>> /\ store[s].status \notin {"none"} \cup Terminal
        /\ \E op : ctl' = [ctl EXCEPT ![s] = [op |-> op, mem |-> store[s], fresh |-> TRUE]]
    BY <1>5 DEF LoadForControl
  <2>2. ctl'[s].mem = store[s] /\ Elsewhere(s) /\ Reopening(s)
    BY <1>0, <2>1 DEF Elsewhere, Reopening
  <2>3. Sound(s)'
    BY <1>0, <2>1, <2>2 DEF Sound, MayCommit, Reopens
  <2> QED
    BY <2>2, <2>3 DEF SoundStep
<1>6. CASE SettleControl(s)
  <2>1. ctl' = [ctl EXCEPT ![s] = NoCall] /\ ctl[s].mem \in StateType
    BY <1>6, RecordTypes DEF SettleControl
  <2>2. ctl'[s] = NoCall
    BY <1>0, <2>1
  <2>3. NoCall.mem.approved = {} /\ NoCall.op = "none"
    BY DEF NoCall, Blank
  <2>4. CASE ~ctl[s].fresh
    <3>1. UNCHANGED <<store, drv>>
      BY <1>6, <2>4 DEF SettleControl
    <3>2. Elsewhere(s) /\ Reopening(s)
      BY <1>0, <2>1, <3>1 DEF Elsewhere, Reopening
    <3>3. Sound(s)'
      BY <1>0, <2>2, <2>3, <3>1 DEF Sound, MayCommit, Reopens
    <3> QED
      BY <3>2, <3>3 DEF SoundStep
  <2>5. CASE ctl[s].fresh
    <3> DEFINE m == IF ctl[s].op = "pause" THEN Waiting(ctl[s].mem) ELSE Cancelled(ctl[s].mem)
    <3>1. store' = [store EXCEPT ![s] = m] /\ drv' = [drv EXCEPT ![s].fresh = FALSE]
      BY <1>6, <2>5 DEF SettleControl
    <3>2. m.approved = ctl[s].mem.approved
      BY <2>1, SameApprovals
    <3> HIDE DEF m
    <3>3. /\ drv'[s].pc = drv[s].pc /\ drv'[s].mem = drv[s].mem /\ drv'[s].act = drv[s].act
          /\ drv'[s].conf = drv[s].conf /\ drv'[s].plan = drv[s].plan /\ ~drv'[s].fresh
          /\ store'[s] = m
      BY <1>0, <3>1 DEF DriverType
    <3>4. Elsewhere(s)
      BY <1>0, <2>1, <3>1 DEF Elsewhere
    <3>5. Reopening(s)
      BY <1>6, <2>5 DEF Reopening, Sound, SettleControl
    <3>6. Sound(s)'
      BY <1>0, <2>2, <2>3, <3>2, <3>3 DEF Sound, Backed, Runs, MayCommit
    <3> QED
      BY <3>4, <3>5, <3>6 DEF SoundStep
  <2> QED
    BY <2>4, <2>5
<1> QED
  BY <1>2, <1>3, <1>4, <1>5, <1>6 DEF Caller

\* Going on at a place with the memory the driver has, or with nothing pending.
LEMMA MovesOn ==
  ASSUME TInv, NEW s \in Sessions, Sound(s), NEW d \in DriverType,
         drv' = [drv EXCEPT ![s] = d], UNCHANGED <<store, ctl, consent>>,
         drv[s].pc \in Working, d.pc \notin {"entering", "entered"}, d.fresh = drv[s].fresh,
         d.mem.approved = drv[s].mem.approved, d.mem.status = drv[s].mem.status,
         d.conf /\ d.act # NoAction => d.act.what \in consent[s]
  PROVE  SoundStep(s)
<1>1. Backed(d, consent[s]) /\ Runs(d)
  BY DEF Sound, Backed, Runs
<1> QED
  BY <1>1, GoesSound

LEMMA WorkingPlaces ==
  /\ {"top", "deciding", "driving", "checking", "tool", "announcing", "reconciling",
      "observing", "planned", "entered"} \subseteq Working
  /\ Working \subseteq {"none"} \cup Quiet \cup Active
  /\ {"loop", "retry", "ask", "stop", "start"} \subseteq Plans
  BY DEF Working, Active, Quiet, Plans

LEMMA EnterSound ==
  ASSUME TInv, NEW s \in Sessions, Sound(s),
         EnterLoop(s) \/ EnterConfirmed(s) \/ EnterRejected(s) \/ EnterRefused(s)
  PROVE  SoundStep(s)
<1>0. drv[s].mem \in StateType /\ drv[s] \in DriverType /\ drv[s].mem.approved \subseteq consent[s]
  BY RecordTypes DEF Sound, Backed
<1>1. CASE EnterLoop(s)
  <2> DEFINE r == [drv[s].mem EXCEPT !.status = "running"]
             n == [drv[s].mem EXCEPT !.status = "running", !.iter = 0, !.tries = 0, !.cont = TRUE]
             m == IF drv[s].plan = "continue" THEN n ELSE r
  <2>1. 0 \in 0..MaxIterations /\ 0 \in 0..MaxTries
    BY Constants
  <2>2. r \in StateType /\ n \in StateType
    BY <1>0, <2>1 DEF StateType, Statuses
  <2>3. /\ m \in StateType /\ m.status = "running" /\ m.approved = drv[s].mem.approved
    BY <1>0, <2>2 DEF StateType
  <2>4. Commit(s, m, Moved(s, "entered", "loop")) /\ drv[s].pc = "entering" /\ consent' = consent
    BY <1>1 DEF EnterLoop, Moved
  <2> HIDE DEF m
  <2> QED
    BY <1>0, <2>3, <2>4, CommitsOn, WorkingPlaces
<1>2. CASE EnterConfirmed(s)
  <2> DEFINE m == [drv[s].mem EXCEPT !.status = "running"]
             d == Moved(s, "entered", drv[s].plan)
             e == With(d, m)
  <2>1. /\ m \in StateType /\ m.status = "running" /\ m.approved = drv[s].mem.approved
        /\ m.pending = drv[s].mem.pending
    BY <1>0 DEF StateType, Statuses
  <2>2. /\ Commit(s, m, At(s, "entered")) /\ drv[s].pc = "entering"
        /\ consent' = [consent EXCEPT ![s] = consent[s] \cup {drv[s].mem.pending.what}]
    BY <1>2 DEF EnterConfirmed
  <2>3. Commit(s, m, d)
    BY <2>2, StayedRecord
  <2>4. /\ d \in DriverType /\ d.pc = "entered" /\ d.act = drv[s].act /\ d.conf = drv[s].conf
    BY <1>0, MovedFields, WorkingPlaces DEF DriverType
  <2> HIDE DEF m
  <2>5. e.pc = "entered" /\ e.mem = m /\ e.act = drv[s].act /\ e.conf = drv[s].conf
    BY <2>1, <2>4, WithFields
  <2>6. /\ consent \in [Sessions -> SUBSET Proposals] /\ consent' \in [Sessions -> SUBSET Proposals]
    BY <1>2, EnterConfirmedType DEF TInv, WorldOK
  <2>7. /\ consent'[s] = consent[s] \cup {drv[s].mem.pending.what}
        /\ \A t \in Sessions \ {s} : consent'[t] = consent[t]
    BY <2>2, <2>6
  <2>8. Backed(e, consent'[s]) /\ Runs(e)
    BY <1>0, <2>1, <2>5, <2>7 DEF Backed, Runs, Sound
  <2>9. m.status \notin Terminal /\ d.pc # "entering"
    BY <2>1, <2>4 DEF Terminal
  <2> HIDE DEF d
  <2> QED
    BY <2>1, <2>2, <2>3, <2>4, <2>6, <2>7, <2>8, <2>9, CommitSound DEF d
<1>3. CASE EnterRejected(s)
  <2> DEFINE m == [drv[s].mem EXCEPT !.status = "running", !.pending = NoAction]
  <2>1. PICK plan \in {"retry", "ask", "stop"} :
          Commit(s, Spent(m, plan), Moved(s, "entered", Allowed(m, plan)))
    BY <1>3 DEF EnterRejected, Moved
  <2>2. m \in StateType /\ m.status = "running" /\ m.approved = drv[s].mem.approved
    BY <1>0, NoActionType DEF StateType, Statuses
  <2> HIDE DEF m
  <2>3. /\ Spent(m, plan) \in StateType /\ Spent(m, plan).status = "running"
        /\ Spent(m, plan).approved = drv[s].mem.approved
        /\ Allowed(m, plan) \in Plans /\ Allowed(m, plan) # "confirm"
    BY <2>2, SpentType, SameApprovals DEF Plans
  <2>4. drv[s].pc = "entering" /\ consent' = consent
    BY <1>3 DEF EnterRejected, World
  <2> QED
    BY <1>0, <2>1, <2>3, <2>4, CommitsOn, WorkingPlaces
<1>4. CASE EnterRefused(s)
  BY <1>4, SettlesSound DEF EnterRefused, World
<1> QED
  BY <1>1, <1>2, <1>3, <1>4

LEMMA TakesUpSound ==
  ASSUME TInv, NEW s \in Sessions, Sound(s), NEW a \in Proposals, Goes(s, TakesUp(s, a)),
         drv[s].pc \in Working, consent' = consent
  PROVE  SoundStep(s)
<1> DEFINE d == TakesUp(s, a)
<1>1. d \in DriverType
  BY TakesUpType
<1>2. d.pc = "driving" /\ ~d.conf /\ d.mem = drv[s].mem /\ d.fresh = drv[s].fresh
  BY RecordTypes DEF TakesUp, At, DriverType
<1>3. drv' = [drv EXCEPT ![s] = d] /\ UNCHANGED <<store, ctl, consent>>
  BY DEF Goes
<1> HIDE DEF d
<1> QED
  BY <1>1, <1>2, <1>3, MovesOn

LEMMA ObeySound ==
  ASSUME TInv, NEW s \in Sessions, Sound(s), ObeyRequest(s), drv[s].pc \in Working
  PROVE  SoundStep(s)
  BY SettlesSound DEF ObeyRequest, World

LEMMA ActivateSound ==
  ASSUME TInv, NEW s \in Sessions, Sound(s), Activate(s)
  PROVE  SoundStep(s)
<1>0. consent' = consent /\ drv[s].pc = "entered" /\ drv[s].pc \in Working
  BY WorkingPlaces DEF Activate, World
<1>1. CASE Settle(s, Waiting(drv[s].mem), "leaving") \/ Settle(s, Failed(drv[s].mem), "leaving")
  BY <1>0, <1>1, SettlesSound
<1>2. CASE \E a \in Proposals : Goes(s, TakesUp(s, a))
  BY <1>0, <1>2, TakesUpSound
<1> DEFINE d == [At(s, "driving") EXCEPT !.act = drv[s].mem.pending, !.conf = TRUE]
<1>3. CASE drv[s].plan = "confirm" /\ Goes(s, d)
  <2>1. drv[s].mem.pending.what \in consent[s]
    BY <1>0, <1>3 DEF Sound, Backed
  <2>2. /\ d.pc = "driving" /\ d.act = drv[s].mem.pending /\ d.mem = drv[s].mem
        /\ d.fresh = drv[s].fresh
    BY RecordTypes DEF At, DriverType
  <2>3. d \in DriverType
    BY RecordTypes DEF At, DriverType, StateType, Active
  <2>4. drv' = [drv EXCEPT ![s] = d] /\ UNCHANGED <<store, ctl>>
    BY <1>3 DEF Goes
  <2> HIDE DEF d
  <2> QED
    BY <1>0, <2>1, <2>2, <2>3, <2>4, MovesOn
<1> QED
  BY <1>1, <1>2, <1>3 DEF Activate

LEMMA LoopSound ==
  ASSUME TInv, NEW s \in Sessions, Sound(s),
         LoopTop(s) \/ Decide(s) \/ Drive(s) \/ Recover(s)
  PROVE  SoundStep(s)
<1>0. consent' = consent /\ drv[s].pc \in Working
  BY WorkingPlaces DEF LoopTop, Decide, Drive, Recover, ObeyRequest, World
<1>1. CASE \E m \in {Failed(drv[s].mem), Waiting(drv[s].mem), Finished(drv[s].mem)} :
             Settle(s, m, "tail")
  BY <1>0, <1>1, SettlesSound
<1>2. CASE \E a \in Proposals : Goes(s, TakesUp(s, a))
  BY <1>0, <1>2, TakesUpSound
<1>3. CASE ObeyRequest(s)
  BY <1>0, <1>3, ObeySound
<1>4. CASE LoopTop(s)
  <2>1. CASE drv[s].mem.iter # MaxIterations /\ Commit(s, Counted(drv[s].mem), At(s, "deciding"))
    <3>1. /\ Counted(drv[s].mem) \in StateType /\ drv[s].mem \in StateType
          /\ drv[s].plan \in Plans
      BY <2>1, RecordTypes, CountedType, DriverFields
    <3>2. Commit(s, Counted(drv[s].mem), Moved(s, "deciding", drv[s].plan))
      BY <2>1, StayedRecord
    <3>3. drv[s].mem.status = "running" /\ drv[s].mem.approved \subseteq consent[s]
      BY <1>0 DEF Sound, Runs, Backed
    <3>4. Counted(drv[s].mem).status = "running" /\ Counted(drv[s].mem).approved \subseteq consent[s]
      BY <3>1, <3>3, SameApprovals
    <3> QED
      BY <1>0, <3>1, <3>2, <3>4, CommitsOn, WorkingPlaces
  <2> QED
    BY <1>1, <1>3, <1>4, <2>1 DEF LoopTop
<1>5. CASE Decide(s)
  BY <1>1, <1>2, <1>5 DEF Decide
<1>6. CASE Drive(s)
  <2> DEFINE n == CHOOSE k \in Ids \ UsedIds(s) : TRUE
             d1 == [At(s, "checking") EXCEPT !.steps = @ + 1]
             d2 == [At(s, "checking") EXCEPT !.steps = @ + 1, !.act.id = n]
  <2>0. TInv'
    BY <1>6, DriveType
  <2>1. /\ d1.pc = "checking" /\ d1.mem = drv[s].mem /\ d1.fresh = drv[s].fresh
        /\ d1.conf = drv[s].conf /\ d1.act = drv[s].act
        /\ d2.pc = "checking" /\ d2.mem = drv[s].mem /\ d2.fresh = drv[s].fresh
        /\ d2.conf = drv[s].conf
    <3> HIDE DEF n
    <3> QED
      BY RecordTypes DEF At, DriverType
  <2>2. CASE Goes(s, d1) \/ (~drv[s].conf /\ Goes(s, d2))
    <3>1. \E d : /\ drv' = [drv EXCEPT ![s] = d] /\ UNCHANGED <<store, ctl>>
                 /\ d.pc = "checking" /\ d.mem = drv[s].mem /\ d.fresh = drv[s].fresh
                 /\ d.conf => drv[s].conf /\ d.act = drv[s].act
      <4> HIDE DEF d1, d2
      <4>1. CASE Goes(s, d1)
        BY <2>1, <4>1 DEF Goes
      <4>2. CASE ~drv[s].conf /\ Goes(s, d2)
        BY <2>1, <4>2 DEF Goes
      <4> QED
        BY <2>2, <4>1, <4>2
    <3>2. PICK d : /\ drv' = [drv EXCEPT ![s] = d] /\ UNCHANGED <<store, ctl>>
                   /\ d.pc = "checking" /\ d.mem = drv[s].mem /\ d.fresh = drv[s].fresh
                   /\ d.conf => drv[s].conf /\ d.act = drv[s].act
      BY <3>1
    <3>3. d \in DriverType
      BY <2>0, <3>2 DEF TInv, StoreOK
    <3>4. d.conf /\ d.act # NoAction => d.act.what \in consent[s]
      BY <3>2 DEF Sound, Backed
    <3> QED
      BY <1>0, <3>2, <3>3, <3>4, MovesOn
  <2> QED
    BY <1>1, <1>3, <1>6, <2>2 DEF Drive, Prepared
<1>7. CASE Recover(s)
  BY <1>1, <1>2, <1>7 DEF Recover
<1> QED
  BY <1>4, <1>5, <1>6, <1>7

LEMMA ExecutorSound ==
  ASSUME TInv, NEW s \in Sessions, Sound(s),
         Refuse(s) \/ Reconcile(s) \/ AskConfirmation(s) \/ StartTool(s)
  PROVE  SoundStep(s)
<1>0. /\ consent' = consent /\ drv[s].pc = "checking" /\ drv[s].pc \in Working
      /\ drv[s].mem \in StateType /\ drv[s].mem.approved \subseteq consent[s]
  BY RecordTypes, WorkingPlaces
     DEF Refuse, Reconcile, AskConfirmation, StartTool, Rejects, World, Sound, Backed
<1>1. ASSUME NEW m \in {drv[s].mem, Unpend(drv[s].mem)}, Rejects(s, m)
      PROVE  SoundStep(s)
  BY <1>0, <1>1, SettlesSound DEF Rejects
<1>2. ASSUME NEW place \in {"tool", "reconciling"},
             Goes(s, [At(s, place) EXCEPT !.mem = Unpend(@)])
      PROVE  SoundStep(s)
  <2> DEFINE d == [At(s, place) EXCEPT !.mem = Unpend(@)]
  <2>1. d \in DriverType
    BY <1>0, CarriedOn
  <2>2. /\ d.pc = place /\ d.mem = Unpend(drv[s].mem) /\ d.fresh = drv[s].fresh
        /\ d.conf = drv[s].conf /\ d.act = drv[s].act
    BY RecordTypes DEF At, DriverType
  <2>3. drv' = [drv EXCEPT ![s] = d] /\ UNCHANGED <<store, ctl>>
    BY <1>2 DEF Goes
  <2> HIDE DEF d
  <2>4. d.mem.approved = drv[s].mem.approved /\ d.mem.status = drv[s].mem.status
    BY <1>0, <2>2, SameApprovals
  <2>5. d.conf /\ d.act # NoAction => d.act.what \in consent[s]
    BY <2>2 DEF Sound, Backed
  <2> QED
    BY <1>0, <2>1, <2>2, <2>3, <2>4, <2>5, MovesOn
<1>3. CASE Refuse(s)
  BY <1>1, <1>3 DEF Refuse
<1>4. CASE Reconcile(s)
  BY <1>1, <1>2, <1>4 DEF Reconcile
<1>5. CASE StartTool(s)
  BY <1>1, <1>2, <1>5 DEF StartTool
<1>6. CASE AskConfirmation(s)
  <2> DEFINE a == [drv[s].mem EXCEPT !.pending = drv[s].act]
             d == [At(s, "tail") EXCEPT !.act = NoAction, !.conf = FALSE, !.steps = 0]
             e == With(d, Waiting(a))
  <2>1. CASE Commit(s, Waiting(a), d)
    <3>1. a \in StateType /\ a.approved = drv[s].mem.approved
      BY <1>0, RecordTypes DEF StateType
    <3> HIDE DEF a
    <3>2. Waiting(a) \in StateType /\ Waiting(a).approved = drv[s].mem.approved
      BY <3>1, StateMoves, SameApprovals
    <3>3. At(s, "tail") \in DriverType /\ At(s, "tail").pc = "tail"
      BY RecordTypes, PlaceTypes, DriverMoves DEF At, DriverType
    <3>4. d \in DriverType /\ d.pc = "tail" /\ ~d.conf
      BY <3>3, IdleType DEF DriverType
    <3> HIDE DEF d
    <3>5. e.pc = "tail" /\ e.mem = Waiting(a) /\ ~e.conf
      BY <3>2, <3>4, WithFields
    <3>6. Backed(e, consent[s]) /\ Runs(e)
      BY <1>0, <3>2, <3>5 DEF Backed, Runs, Working, Active
    <3>7. consent \in [Sessions -> SUBSET Proposals]
      BY DEF TInv, WorldOK
    <3>8. d.pc \in {"leaving", "tail"} /\ d.pc # "entering"
      BY <3>4
    <3> QED
      BY <1>0, <2>1, <3>2, <3>4, <3>6, <3>7, <3>8, CommitSound
  <2> QED
    BY <1>1, <1>6, <2>1 DEF AskConfirmation
<1> QED
  BY <1>3, <1>4, <1>5, <1>6

LEMMA OutcomeSound ==
  ASSUME TInv, NEW s \in Sessions, Sound(s),
         ToolSucceeds(s) \/ Announced(s) \/ ToolFails(s) \/ Reconciled(s)
  PROVE  SoundStep(s)
<1>0. /\ UNCHANGED <<store, ctl, consent>> /\ drv[s].pc \in Working /\ drv[s] \in DriverType
      /\ drv \in [Sessions -> DriverType]
  BY RecordTypes, WorkingPlaces
     DEF ToolSucceeds, Announced, ToolFails, Reconciled, Goes, World, TInv, StoreOK
<1>1. drv[s].conf /\ drv[s].act # NoAction => drv[s].act.what \in consent[s]
  BY DEF Sound, Backed
<1>2. CASE Announced(s)
  <2> DEFINE a == [drv[s].mem EXCEPT !.approved = Approved(s)]
             d == [drv[s] EXCEPT !.pc = "observing", !.mem = a, !.plan = "loop"]
  <2>1. drv' = [drv EXCEPT ![s] = d]
    BY <1>0, <1>2 DEF Announced, DriverType
  <2>2. a.approved = Approved(s) /\ a.status = drv[s].mem.status
    BY RecordTypes DEF StateType
  <2>3. drv[s].act # NoAction /\ drv[s].mem.approved \subseteq consent[s]
    BY <1>2, RecordTypes DEF HasAction, Announced, Sound, Backed
  <2>4. Approved(s) \subseteq consent[s]
    BY <1>1, <2>3 DEF Approved, What
  <2> HIDE DEF a
  <2>5. /\ d.pc = "observing" /\ d.mem = a /\ d.act = drv[s].act /\ d.conf = drv[s].conf
        /\ d.fresh = drv[s].fresh
    BY <1>0 DEF DriverType
  <2>6. drv' \in [Sessions -> DriverType]
    BY <1>2, AnnouncedType DEF TInv, StoreOK
  <2>7. d \in DriverType
    BY <1>0, <2>1, <2>6
  <2>8. Backed(d, consent[s]) /\ Runs(d)
    BY <1>0, <1>1, <2>2, <2>4, <2>5 DEF Backed, Runs, Sound
  <2> HIDE DEF d
  <2> QED
    BY <1>0, <2>1, <2>5, <2>7, <2>8, GoesSound
<1>3. CASE ToolFails(s)
  <2> DEFINE d == [drv[s] EXCEPT !.pc = "observing", !.plan = "stop"]
  <2>1. drv' = [drv EXCEPT ![s] = d]
    BY <1>0, <1>3 DEF ToolFails, DriverType
  <2>2. /\ d \in DriverType /\ d.pc = "observing" /\ d.mem = drv[s].mem /\ d.act = drv[s].act
        /\ d.conf = drv[s].conf /\ d.fresh = drv[s].fresh
    BY <1>0 DEF DriverType, Active, Plans
  <2> HIDE DEF d
  <2> QED
    BY <1>0, <1>1, <2>1, <2>2, MovesOn
<1>4. CASE Reconciled(s)
  <2>1. PICK plan \in {"loop", "stop"} : Goes(s, Moved(s, "observing", plan))
    BY <1>4 DEF Reconciled, Moved
  <2> DEFINE d == Moved(s, "observing", plan)
  <2>2. /\ d \in DriverType /\ d.pc = "observing" /\ d.mem = drv[s].mem /\ d.act = drv[s].act
        /\ d.conf = drv[s].conf /\ d.fresh = drv[s].fresh
    BY <2>1, MovedFields, WorkingPlaces
  <2>3. drv' = [drv EXCEPT ![s] = d]
    BY <2>1 DEF Goes
  <2> HIDE DEF d
  <2> QED
    BY <1>0, <1>1, <2>2, <2>3, MovesOn
<1>5. CASE ToolSucceeds(s)
  <2> DEFINE d == At(s, "announcing")
  <2>1. drv' = [drv EXCEPT ![s] = d]
    BY <1>5 DEF ToolSucceeds, At
  <2>2. /\ d \in DriverType /\ d.pc = "announcing" /\ d.mem = drv[s].mem /\ d.act = drv[s].act
        /\ d.conf = drv[s].conf /\ d.fresh = drv[s].fresh
    BY <1>0 DEF At, DriverType, Active
  <2> HIDE DEF d
  <2> QED
    BY <1>0, <1>1, <2>1, <2>2, MovesOn
<1> QED
  BY <1>2, <1>3, <1>4, <1>5

LEMMA EvaluateSound ==
  ASSUME TInv, NEW s \in Sessions, Sound(s), Evaluate(s)
  PROVE  SoundStep(s)
<1>0. /\ consent' = consent /\ drv[s].pc = "observing" /\ drv[s].pc \in Working
      /\ drv[s] \in DriverType /\ drv[s].mem \in StateType
      /\ drv[s].mem.status = "running" /\ drv[s].mem.approved \subseteq consent[s]
  BY RecordTypes, WorkingPlaces DEF Evaluate, Sound, Runs, Backed
<1>1. ASSUME NEW m \in StateType, Commit(s, m, Around(s)), m.status = "running",
             m.approved \subseteq consent[s]
      PROVE  SoundStep(s)
  <2> DEFINE d == Around(s)
             e == With(d, m)
  <2>1. At(s, "top") \in DriverType /\ At(s, "top").pc = "top"
    BY <1>0, PlaceTypes, DriverMoves DEF At, DriverType
  <2>2. d \in DriverType /\ d.pc = "top" /\ ~d.conf
    BY <2>1, IdleType DEF Around, DriverType
  <2> HIDE DEF d
  <2>3. e.pc = "top" /\ e.mem = m /\ ~e.conf
    BY <2>2, WithFields
  <2>4. Backed(e, consent[s]) /\ Runs(e)
    BY <1>1, <2>3 DEF Backed, Runs
  <2>5. consent \in [Sessions -> SUBSET Proposals] /\ m.status \notin Terminal /\ d.pc # "entering"
    BY <1>1, <2>2 DEF TInv, WorldOK, Terminal
  <2> QED
    BY <1>0, <1>1, <2>2, <2>4, <2>5, CommitSound DEF d
<1> DEFINE m1(done) == [drv[s].mem EXCEPT !.done = done]
           m2 == [drv[s].mem EXCEPT !.done = FALSE, !.tries = 0]
           d == [At(s, "observing") EXCEPT !.plan = "stop", !.mem.done = FALSE]
<1>2. \A done \in BOOLEAN : /\ m1(done) \in StateType /\ m1(done).status = "running"
                            /\ m1(done).approved \subseteq consent[s]
  BY <1>0 DEF StateType
<1>3. 0 \in 0..MaxTries
  BY Constants
<1>4. m2 \in StateType /\ m2.status = "running" /\ m2.approved \subseteq consent[s]
  BY <1>0, <1>3 DEF StateType
<1>5. CASE \E done \in BOOLEAN : Commit(s, m1(done), Around(s))
  <2> HIDE DEF m1
  <2> QED
    BY <1>1, <1>2, <1>5
<1>6. CASE Commit(s, m2, Around(s))
  <2> HIDE DEF m2
  <2> QED
    BY <1>1, <1>4, <1>6
<1>7. CASE Settle(s, Failed(drv[s].mem), "tail")
  BY <1>0, <1>7, SettlesSound
<1>8. CASE Goes(s, d)
  <2>1. drv' = [drv EXCEPT ![s] = d] /\ UNCHANGED <<store, ctl>>
    BY <1>8 DEF Goes
  <2>2. /\ d.pc = "observing" /\ d.mem = m1(FALSE) /\ d.act = drv[s].act
        /\ d.conf = drv[s].conf /\ d.fresh = drv[s].fresh
    BY <1>0 DEF At, DriverType
  <2>3. d \in DriverType
    <3>1. drv' \in [Sessions -> DriverType]
      BY EvaluateType DEF TInv, StoreOK
    <3>2. drv'[s] = d
      BY <2>1 DEF TInv, StoreOK
    <3> HIDE DEF d
    <3> QED
      BY <3>1, <3>2
  <2>4. d.conf /\ d.act # NoAction => d.act.what \in consent[s]
    BY <2>2 DEF Sound, Backed
  <2>5. d.mem.approved = drv[s].mem.approved /\ d.mem.status = drv[s].mem.status
    BY <1>0, <2>2 DEF StateType
  <2> HIDE DEF d, m1
  <2> QED
    BY <1>0, <2>1, <2>2, <2>3, <2>4, <2>5, MovesOn
<1> QED
  BY <1>5, <1>6, <1>7, <1>8 DEF Evaluate

LEMMA PlanRecoverySound ==
  ASSUME TInv, NEW s \in Sessions, Sound(s), PlanRecovery(s)
  PROVE  SoundStep(s)
<1> DEFINE m == drv[s].mem
<1>1. PICK plan \in {"retry", "ask", "stop"} :
        Commit(s, Spent(m, plan), Moved(s, "planned", Allowed(m, plan)))
  BY DEF PlanRecovery, Moved
<1>2. /\ consent' = consent /\ drv[s].pc = "observing" /\ drv[s].pc \in Working
      /\ m \in StateType /\ m.status = "running" /\ m.approved \subseteq consent[s]
  BY RecordTypes, WorkingPlaces DEF PlanRecovery, World, Sound, Runs, Backed
<1> HIDE DEF m
<1>3. /\ Spent(m, plan) \in StateType /\ Allowed(m, plan) \in Plans
      /\ Spent(m, plan).status = "running" /\ Spent(m, plan).approved \subseteq consent[s]
  BY <1>2, SpentType, SameApprovals DEF Plans
<1> QED
  BY <1>1, <1>2, <1>3, CommitsOn, WorkingPlaces

LEMMA LeaveSound ==
  ASSUME TInv, NEW s \in Sessions, Sound(s), Return(s) \/ HandleCancel(s) \/ DieCancelled(s)
  PROVE  SoundStep(s)
<1>0. consent' = consent
  BY DEF Return, HandleCancel, DieCancelled, Unwind, World
<1>1. CASE Gone(s) /\ UNCHANGED <<store, ctl>>
  BY <1>0, <1>1, GoneSound
<1> DEFINE m == Cancelled(drv[s].mem)
           d == [At(s, "tail") EXCEPT !.mem = m, !.act = NoAction, !.handling = TRUE]
<1>2. CASE /\ store' = [store EXCEPT ![s] = Snapshot(m)]
           /\ ctl' = [ctl EXCEPT ![s].fresh = FALSE]
           /\ drv' = [drv EXCEPT ![s] = d]
  <2>0. /\ store \in [Sessions -> StateType] /\ drv \in [Sessions -> DriverType]
        /\ ctl \in [Sessions -> CallType] /\ drv[s] \in DriverType /\ drv[s].mem \in StateType
    BY RecordTypes DEF TInv, StoreOK
  <2>1. m \in StateType /\ m.approved = drv[s].mem.approved /\ m.status = "cancelled"
    BY <2>0, StateMoves DEF Cancelled, StateType
  <2> HIDE DEF m
  <2>2. Snapshot(m).approved = m.approved /\ Snapshot(m).status = "cancelled"
    BY <2>1 DEF Snapshot, StateType
  <2>3. d.pc = "tail" /\ d.mem = m /\ d.act = NoAction
    BY <2>0 DEF At, DriverType
  <2> HIDE DEF d
  <2>4. /\ drv'[s] = d /\ store'[s] = Snapshot(m) /\ ctl'[s].mem = ctl[s].mem /\ ~ctl'[s].fresh
    BY <1>2, <2>0 DEF CallType
  <2>5. Elsewhere(s)
    BY <1>0, <1>2, <2>0 DEF Elsewhere
  <2>6. Reopening(s)
    BY <2>2, <2>4 DEF Reopening, Terminal
  <2>7. Sound(s)'
    BY <1>0, <2>1, <2>2, <2>3, <2>4 DEF Sound, Backed, Runs, MayCommit, Working, Active
  <2> QED
    BY <2>5, <2>6, <2>7 DEF SoundStep
<1> QED
  BY <1>1, <1>2 DEF Return, HandleCancel, DieCancelled

LEMMA StepSound ==
  ASSUME TInv, NEW s \in Sessions, Sound(s), Caller(s) \/ DriverStep(s)
  PROVE  SoundStep(s)
<1>1. CASE EnterLoop(s) \/ EnterConfirmed(s) \/ EnterRejected(s) \/ EnterRefused(s)
  BY <1>1, EnterSound
<1>2. CASE LoopTop(s) \/ Decide(s) \/ Drive(s) \/ Recover(s)
  BY <1>2, LoopSound
<1>3. CASE Refuse(s) \/ Reconcile(s) \/ AskConfirmation(s) \/ StartTool(s)
  BY <1>3, ExecutorSound
<1>4. CASE ToolSucceeds(s) \/ Announced(s) \/ ToolFails(s) \/ Reconciled(s)
  BY <1>4, OutcomeSound
<1>5. CASE Return(s) \/ HandleCancel(s) \/ DieCancelled(s)
  BY <1>5, LeaveSound
<1> QED
  BY <1>1, <1>2, <1>3, <1>4, <1>5, CallerSound, ActivateSound, EvaluateSound, PlanRecoverySound
     DEF DriverStep

LEMMA InitSound == Init => AllSound
  BY DEF Init, AllSound, Sound, Backed, Runs, MayCommit, Reopens, NoDriver, NoCall, Blank,
         Working, Active, Terminal

\* Every step keeps the invariant and opens a terminal session only to continue it.
LEMMA NextSound ==
  ASSUME TInv, AllSound, [Next]_vars
  PROVE  AllSound' /\ \A s \in Sessions : Reopening(s)
<1>1. CASE UNCHANGED vars
  BY <1>1 DEF vars, AllSound, Sound, MayCommit, Reopens, Reopening
<1>2. CASE Restart
  <2>1. \A s \in Sessions : drv'[s] = NoDriver /\ ctl'[s] = NoCall
    BY <1>2 DEF Restart
  <2>2. UNCHANGED <<store, consent>>
    BY <1>2 DEF Restart
  <2> QED
    BY <2>1, <2>2 DEF AllSound, Sound, Backed, Runs, MayCommit, Reopening, NoDriver, NoCall,
                      Blank, Working, Active
<1>3. ASSUME NEW s \in Sessions, Caller(s) \/ DriverStep(s)
      PROVE  AllSound' /\ \A t \in Sessions : Reopening(t)
  <2>1. SoundStep(s)
    BY <1>3, StepSound DEF AllSound
  <2>2. ASSUME NEW t \in Sessions, t # s
        PROVE  Sound(t)' /\ Reopening(t)
    BY <2>1, <2>2 DEF SoundStep, Elsewhere, AllSound, Sound, MayCommit, Reopens, Reopening
  <2> QED
    BY <2>1, <2>2 DEF SoundStep, AllSound
<1> QED
  BY <1>1, <1>2, <1>3 DEF Next

(* Approvals come from confirmations of the very proposal, in whatever copy of *)
(* the session they are found, and a snapshot that is still the stored one is  *)
(* in the hands of nobody who would revive a finished session                  *)
(* (runtime/agent.py, resume and _settle; persistence, the version check).     *)
THEOREM SessionSound == Spec => []AllSound
<1>1. AllSound /\ TInv /\ [Next]_vars => AllSound'
  BY NextSound
<1> QED
  BY <1>1, TypesInvariant, InitSound, PTL DEF Spec

(* No tool starts on an action the policies in force deny, and none they want  *)
(* confirmed without the user's word on that very action in this session,      *)
(* through pauses, recoveries, restarts and changes of policy                  *)
(* (ActionExecutor.execute).                                                  *)
THEOREM SessionConsentGate == Spec => ConsentGate
<1>1. TInv /\ AllSound /\ [Next]_vars
        => [\A s \in Sessions : Starts(s) =>
              /\ rule[drv'[s].act.what] # "deny"
              /\ rule[drv'[s].act.what] = "confirm" => drv'[s].act.what \in consent[s]]_vars
  <2> SUFFICES ASSUME TInv, AllSound, [Next]_vars, NEW s \in Sessions, Starts(s)
               PROVE  /\ rule[drv'[s].act.what] # "deny"
                      /\ rule[drv'[s].act.what] = "confirm" => drv'[s].act.what \in consent[s]
    OBVIOUS
  <2>1. /\ drv[s].pc = "checking" /\ Verdict(s, What(s)) = "allow"
        /\ drv'[s].act = drv[s].act
    BY StartPassesGate DEF StartsTool
  <2>2. drv[s].act # NoAction /\ Backed(drv[s], consent[s])
    BY <2>1, RecordTypes DEF HasAction, AllSound, Sound
  <2> QED
    BY <2>1, <2>2 DEF Verdict, What, Backed
<1> QED
  BY <1>1, TypesInvariant, SessionSound, PTL DEF Spec, ConsentGate

(* No writer with an older snapshot brings a finished session back, however    *)
(* pause, cancel, resume and the running driver cross each other; only         *)
(* continue_session reopens it (runtime/agent.py; the stores' version check).  *)
THEOREM SessionTerminalStaysPut == Spec => TerminalStaysPut
<1>1. TInv /\ AllSound /\ [Next]_vars
        => [\A s \in Sessions :
              store[s].status \in Terminal /\ store'[s].status \notin Terminal
                => drv[s].pc = "entering" /\ drv[s].plan = "continue"]_vars
  BY NextSound DEF Reopening, Reopens
<1> QED
  BY <1>1, TypesInvariant, SessionSound, PTL DEF Spec, TerminalStaysPut

-----------------------------------------------------------------------------
(* Outcomes.  "cannot cancel a terminal session" does not hold of the code     *)
(* (see TerminalIsFinal): the driver of a session still counts as active while *)
(* its last event is emitted.  That is the only way.                           *)

\* A cancel call found the driver at its last place, with the outcome committed.
LateCancel(s) ==
  /\ drv[s].pc = "tail" /\ drv[s].fresh /\ req[s].cancel /\ req[s].hit
  /\ store'[s].status = "cancelled"

Overwrites(s) == store[s].status \in Terminal /\ store'[s] # store[s]

Continued(s) == Reopens(s) /\ store'[s].status = "running"

OutcomesChange == [][\A s \in Sessions : Overwrites(s) => Continued(s) \/ LateCancel(s)]_vars

\* A driver writes only with the stored version in hand, and before it is done.
LEMMA DriverWrites ==
  ASSUME NEW s \in Sessions, DriverStep(s), ~HandleCancel(s), store' # store
  PROVE  MayCommit(s)
<1>1. ASSUME NEW m, NEW d, Commit(s, m, d) \/ \E place : Settle(s, m, place)
      PROVE  drv[s].fresh
  BY <1>1 DEF Commit, Settle
<1>2. ASSUME ObeyRequest(s) \/ \E m : Rejects(s, m)
      PROVE  drv[s].fresh
  BY <1>1, <1>2 DEF ObeyRequest, Rejects
<1>3. CASE EnterLoop(s) \/ EnterConfirmed(s) \/ EnterRejected(s) \/ EnterRefused(s)
  BY <1>1, <1>3 DEF EnterLoop, EnterConfirmed, EnterRejected, EnterRefused, MayCommit
<1>4. CASE Activate(s)
  BY <1>1, <1>4 DEF Activate, Goes, MayCommit, Working
<1>5. CASE LoopTop(s)
  BY <1>1, <1>2, <1>5 DEF LoopTop, MayCommit, Working, Active
<1>6. CASE Decide(s) \/ Drive(s)
  BY <1>1, <1>2, <1>6 DEF Decide, Drive, Goes, MayCommit, Working, Active
<1>7. CASE Refuse(s) \/ Reconcile(s) \/ AskConfirmation(s) \/ StartTool(s)
  BY <1>1, <1>2, <1>7
     DEF Refuse, Reconcile, AskConfirmation, StartTool, Goes, MayCommit, Working, Active
<1>8. CASE Evaluate(s) \/ PlanRecovery(s) \/ Recover(s)
  BY <1>1, <1>8 DEF Evaluate, PlanRecovery, Recover, Goes, MayCommit, Working, Active
<1>9. CASE \/ ToolSucceeds(s) \/ Announced(s) \/ ToolFails(s) \/ Reconciled(s)
           \/ Return(s) \/ DieCancelled(s)
  BY <1>9 DEF ToolSucceeds, Announced, ToolFails, Reconciled, Goes, Return, DieCancelled
<1> QED
  BY <1>3, <1>4, <1>5, <1>6, <1>7, <1>8, <1>9 DEF DriverStep

\* The cancellation a driver handles: at work, or with its outcome committed.
LEMMA CancelWrites ==
  ASSUME TInv, NEW s \in Sessions, HandleCancel(s), store' # store
  PROVE  MayCommit(s) \/ LateCancel(s)
<1>1. drv[s].fresh /\ req[s].hit /\ req[s].cancel /\ drv[s].pc \in Active
  BY DEF HandleCancel
<1>2. store' = [store EXCEPT ![s] = Snapshot(Cancelled(drv[s].mem))]
  BY DEF HandleCancel
<1>3. drv[s].mem \in StateType /\ store \in [Sessions -> StateType]
  BY RecordTypes DEF TInv, StoreOK
<1>4. Snapshot(Cancelled(drv[s].mem)).status = "cancelled"
  BY <1>3 DEF Snapshot, Cancelled, StateType
<1>5. store'[s].status = "cancelled"
  BY <1>2, <1>3, <1>4
<1> QED
  BY <1>1, <1>5 DEF MayCommit, LateCancel, Working

\* A driver that is about to continue a session writes only that it runs.
LEMMA ReopenWrites ==
  ASSUME TInv, NEW s \in Sessions, DriverStep(s), Reopens(s), store' # store
  PROVE  store'[s].status = "running"
<1>1. EnterLoop(s)
  BY DEF Reopens, DriverStep, EnterLoop, EnterConfirmed, EnterRejected, EnterRefused, Activate,
         LoopTop, Decide, Drive, Refuse, Reconcile, AskConfirmation, StartTool, ToolSucceeds,
         Announced, ToolFails, Reconciled, Evaluate, PlanRecovery, Recover, Return, HandleCancel,
         DieCancelled, Active
<1> DEFINE m == [drv[s].mem EXCEPT !.status = "running", !.iter = 0, !.tries = 0, !.cont = TRUE]
<1>2. Commit(s, m, [At(s, "entered") EXCEPT !.plan = "loop"])
  BY <1>1 DEF EnterLoop, Reopens
<1>3. Snapshot(m).status = "running"
  BY RecordTypes DEF Snapshot, StateType
<1> HIDE DEF m
<1>4. store' = [store EXCEPT ![s] = Snapshot(m)]
  BY <1>2 DEF Commit
<1> QED
  BY <1>3, <1>4 DEF TInv, StoreOK

\* A control call settles what it loaded, and it loads no finished session.
LEMMA CallerOverwrites ==
  ASSUME NEW s \in Sessions, Sound(s), Caller(s), store' # store
  PROVE  store[s].status \notin Terminal
<1>1. CASE Run(s)
  BY <1>1 DEF Run, Terminal
<1>2. CASE SettleControl(s)
  BY <1>2 DEF SettleControl, Sound
<1> QED
  BY <1>1, <1>2 DEF Caller, Resume, Continue, Begins, RequestPause, RequestCancel, CancelCaller,
                    LoadForControl

(* What a session ended as, and everything stored with it, is written again     *)
(* only by continue_session, or by the cancellation of the driver that has just *)
(* committed it: no other caller, no older snapshot and no restart does it      *)
(* (runtime/agent.py, cancel and _settle).                                    *)
THEOREM SessionOutcomesChange == Spec => OutcomesChange
<1>1. TInv /\ AllSound /\ [Next]_vars
        => [\A s \in Sessions : Overwrites(s) => Continued(s) \/ LateCancel(s)]_vars
  <2> SUFFICES ASSUME TInv, AllSound, Next, NEW t \in Sessions, Overwrites(t)
               PROVE  Continued(t) \/ LateCancel(t)
    BY DEF vars
  <2>1. store' # store /\ Sound(t)
    BY DEF Overwrites, AllSound
  <2>2. PICK s \in Sessions : Caller(s) \/ DriverStep(s)
    BY <2>1 DEF Next, Restart
  <2>3. SoundStep(s)
    BY <2>2, StepSound DEF AllSound
  <2>4. s = t
    BY <2>3 DEF SoundStep, Elsewhere, Overwrites
  <2>5. DriverStep(t)
    BY <2>1, <2>2, <2>4, CallerOverwrites DEF Overwrites
  <2>6. MayCommit(t) \/ LateCancel(t)
    BY <2>1, <2>5, DriverWrites, CancelWrites
  <2>7. MayCommit(t) => Continued(t)
    BY <2>1, <2>5, ReopenWrites DEF Sound, Overwrites, Continued
  <2> QED
    BY <2>6, <2>7
<1> QED
  BY <1>1, TypesInvariant, SessionSound, PTL DEF Spec, OutcomesChange

=============================================================================
