----------------------------- MODULE MCComponents -----------------------------
(* Small instances of the components that stand alone, checked side by side: a  *)
(* behaviour is one of `part', while the others are at rest.                   *)
EXTENDS LockRegistry, FileJournal, Outbox, MCEventFeed, TaskGraph, TaskGroup,
        Delegation, WorldProjection, ProfileBundles, SessionRebuild

CONSTANTS b1, b2

VARIABLE part

Parts == {"locks", "journal", "outbox", "feed", "graph", "group", "delegation", "world", "bundles",
          "rebuild"}

\* A batch of a spec and two that need it, its children; another batch with one more.
TwoBatches == <<b1, b1, b1, b2>>
BothNeedTheFirst == <<{}, {1}, {1}, {}>>
ChildrenOfTheFirst == <<0, 1, 1, 1>>
ChildLimits == <<0, 1, 1, 2>>
SuitedInstances == <<{1, 2}, {1, 2}, {2}, {1}>>

\* Three values of one attribute, the first observed with the most confidence.
TheClaims == <<"ready", "ready", "kind", "ready", "ready", "ready">>
TheValues == <<"yes", "no", "pod", "maybe", "yes", "no">>
TheConfidence == <<2, 1, 1, 1, 1, 1>>

OutboxAtRest ==
  /\ row = [e \in Rows |-> Published] /\ sent = Rows
  /\ pub = [p \in Publishers |-> Resting] /\ deaths = 0

DelegationAtRest ==
  /\ outcome = [t \in Specs |-> "lost"]
  /\ wave = [b \in Batches |-> {}]
  /\ deleg = [t \in Specs |-> "none"] /\ holder = [t \in Specs |-> {}]
  /\ agent = [a \in Agents |-> "ready"]
  /\ children = [t \in Specs |-> 0] /\ known = {} /\ drains = 0 /\ forced = {}

PartsInit ==
  /\ part \in Parts
  /\ LockInit /\ JournalInit /\ FeedInit /\ GroupInit /\ WorldInit /\ BundleInit
  /\ RebuildInit
  /\ GraphInit /\ (part # "graph" => Len(task) = 1)
  /\ IF part = "outbox" THEN OutboxInit ELSE OutboxAtRest
  /\ IF part = "delegation" THEN DelegationInit ELSE DelegationAtRest

PartsNext ==
  /\ \/ part = "locks" /\ LockNext
        /\ UNCHANGED <<jvars, ovars, fvars, gvars, cvars, dvars, pvars, bvars, rvars>>
     \/ part = "journal" /\ JournalNext
        /\ UNCHANGED <<lvars, ovars, fvars, gvars, cvars, dvars, pvars, bvars, rvars>>
     \/ part = "outbox" /\ OutboxNext
        /\ UNCHANGED <<lvars, jvars, fvars, gvars, cvars, dvars, pvars, bvars, rvars>>
     \/ part = "feed" /\ FeedNext
        /\ UNCHANGED <<lvars, jvars, ovars, gvars, cvars, dvars, pvars, bvars, rvars>>
     \/ part = "graph" /\ GraphNext
        /\ UNCHANGED <<lvars, jvars, ovars, fvars, cvars, dvars, pvars, bvars, rvars>>
     \/ part = "group" /\ GroupNext
        /\ UNCHANGED <<lvars, jvars, ovars, fvars, gvars, dvars, pvars, bvars, rvars>>
     \/ part = "delegation" /\ DelegationNext
        /\ UNCHANGED <<lvars, jvars, ovars, fvars, gvars, cvars, pvars, bvars, rvars>>
     \/ part = "world" /\ WorldNext
        /\ UNCHANGED <<lvars, jvars, ovars, fvars, gvars, cvars, dvars, bvars, rvars>>
     \/ part = "bundles" /\ BundleNext
        /\ UNCHANGED <<lvars, jvars, ovars, fvars, gvars, cvars, dvars, pvars, rvars>>
     \/ part = "rebuild" /\ RebuildNext
        /\ UNCHANGED <<lvars, jvars, ovars, fvars, gvars, cvars, dvars, pvars, bvars>>
  /\ UNCHANGED part

\* OutboxFairness, FeedFairness and DelegationFairness, each of the part at work.
PartsFairness ==
  /\ \A p \in Publishers :
       /\ WF_ovars(part = "outbox" /\ Publish(p))
       /\ \A e \in Rows : SF_ovars(part = "outbox" /\ SendGood(p) /\ InHand(p) = e /\ row[e].by = p)
  /\ \A e \in Rows :
       WF_ovars(part = "outbox" /\ LeaseLapses(e)) /\ WF_ovars(part = "outbox" /\ RetryIsDue(e))
  /\ \A w \in Watchers :
       WF_fvars(part = "feed" /\ Step(w)) /\ WF_fvars(part = "feed" /\ (Wake(w) \/ Timeout(w)))
  /\ \A b \in Batches : WF_dvars(part = "delegation" /\ NextWave(b))
  /\ \A t \in Specs : WF_dvars(part = "delegation" /\ SpecNext(t))

PartsSpec ==
  /\ PartsInit
  /\ [][PartsNext]_<<part, lvars, jvars, ovars, fvars, gvars, cvars, dvars, pvars, bvars, rvars>>
  /\ PartsFairness

(* The state of every component has its type.                                 *)
PartsTypeOK ==
  /\ LockTypeOK /\ JournalTypeOK /\ OutboxTypeOK /\ FeedTypeOK /\ GraphTypeOK
  /\ GroupTypeOK /\ DelegationTypeOK /\ WorldTypeOK /\ BundleTypeOK /\ RebuildTypeOK

=============================================================================
