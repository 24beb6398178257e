---------------------------- MODULE WorkLifecycle ----------------------------
(***************************************************************************)
(* What the work queue promises to those who submit work and to those who   *)
(* do it, without leases, clocks, kinds, tokens or processes: every item is *)
(* submitted once, is held by one worker at a time, is taken a bounded      *)
(* number of times, is done only from the hands of a holder, and is         *)
(* forgotten only when finished.  One step of the queue may move several    *)
(* items: a sweep gives back what the absent workers held.                  *)
(***************************************************************************)
EXTENDS Integers

CONSTANTS Jobs, Owners, Nobody, MaxTries

VARIABLES stage, owner, tries

jvars == <<stage, owner, tries>>

Finished == {"completed", "failed", "cancelled"}

Init ==
  /\ stage = [j \in Jobs |-> "absent"]
  /\ owner = [j \in Jobs |-> Nobody]
  /\ tries = [j \in Jobs |-> 0]

Stay(j) == stage'[j] = stage[j] /\ owner'[j] = owner[j] /\ tries'[j] = tries[j]

Submit(j) == /\ stage[j] = "absent" /\ stage'[j] = "queued"
             /\ owner'[j] = Nobody /\ tries'[j] = 0

\* A worker takes a queued item, or one whose holder let the lease run out.
Take(j) == /\ stage[j] \in {"queued", "leased"} /\ stage'[j] = "leased"
           /\ owner'[j] \in Owners
           /\ tries'[j] = tries[j] + 1 /\ tries'[j] <= MaxTries

\* The holder gives up, or its lease runs out: another try while any is left.
Return(j) == /\ stage[j] = "leased" /\ stage'[j] = "queued"
             /\ owner'[j] = Nobody
             /\ tries'[j] = tries[j] /\ tries[j] < MaxTries

Finish(j) == /\ stage[j] = "leased" /\ stage'[j] \in {"completed", "failed"}
             /\ owner[j] \in Owners /\ owner'[j] = Nobody
             /\ tries'[j] = tries[j]

Abort(j) == /\ stage[j] \in {"queued", "leased"} /\ stage'[j] = "cancelled"
            /\ owner'[j] = Nobody /\ tries'[j] = tries[j]

Forget(j) == /\ stage[j] \in Finished /\ stage'[j] = "absent"
             /\ owner'[j] = Nobody /\ tries'[j] = 0

Move(j) == Submit(j) \/ Take(j) \/ Return(j) \/ Finish(j) \/ Abort(j) \/ Forget(j)

Next == \A j \in Jobs : Stay(j) \/ Move(j)

Spec == Init /\ [][Next]_jvars

=============================================================================
