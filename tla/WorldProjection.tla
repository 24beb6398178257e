---------------------------- MODULE WorldProjection ----------------------------
(***************************************************************************)
(* What a session believes: the evidence store (evidence/store.py), the       *)
(* world model that is projected from it (world/model.py) and the hydration    *)
(* that rebuilds both from a snapshot (runtime/session.py).                    *)
(*                                                                         *)
(* Evidence arrives in any order of observation; of each claim the world        *)
(* keeps a bucket that is trimmed as it grows.  Pieces of evidence are          *)
(* numbered in the order of (observed_at, id).  One subject stands for all;     *)
(* the claim Kind makes it an entity, the others are its attributes.            *)
(***************************************************************************)
EXTENDS Integers, FiniteSets

CONSTANTS
  Observed,     \* the pieces of evidence there can be
  Claims,
  Kind,         \* the claim "kind"
  Values,
  NoValue,
  ClaimOf, ValueOf, Confidence,
  Cap           \* max_evidence_per_fact

ASSUME WorldAssumption ==
  /\ Observed \subseteq Nat
  /\ Kind \in Claims
  /\ NoValue \notin Values
  /\ ClaimOf \in [Observed -> Claims]
  /\ ValueOf \in [Observed -> Values]
  /\ Confidence \in [Observed -> Nat]
  /\ Cap \in Nat \ {0}

VARIABLES
  evidence,  \* the session's evidence in the store
  todo,      \* evidence a hydration has yet to apply
  facts,     \* the bucket of each claim
  entity,    \* the subject is an entity
  attr,      \* its attributes
  saved      \* the evidence of the session's snapshot

pvars == <<evidence, todo, facts, entity, attr, saved>>

WorldInit ==
  /\ evidence = {} /\ todo = {} /\ saved = {}
  /\ facts = [c \in Claims |-> {}]
  /\ entity = FALSE
  /\ attr = [c \in Claims |-> NoValue]

-----------------------------------------------------------------------------
\* Arbitration: (confidence, observed_at, id)
Beats(e, f) ==
  Confidence[e] > Confidence[f] \/ (Confidence[e] = Confidence[f] /\ e >= f)

\* _current_fact: the one that beats all, if there is any evidence.
Winners(b) == {e \in b : \A f \in b : Beats(e, f)}

\* The newest observation of each value.
Newest(b) == {e \in b : \A f \in b : ValueOf[f] = ValueOf[e] => f <= e}

Keep(b) == Winners(b) \cup Newest(b)

\* Variant: the most recent observations only.
TrimToRecent(b) == {e \in b : Cardinality({f \in b : f > e}) < Cap}

\* _trim_fact_bucket: these, and the most recent of the others up to the cap.
Trim(b) ==
  LET others == b \ Keep(b) IN
    IF Cardinality(b) <= Cap THEN b
    ELSE Keep(b) \cup
         {e \in others : Cardinality(Keep(b)) + Cardinality({f \in others : f > e}) < Cap}

Bucketed(e) == [facts EXCEPT ![ClaimOf[e]] = Trim(@ \cup {e})]

\* The value of the current fact.
Current(b) == IF b = {} THEN NoValue ELSE ValueOf[CHOOSE e \in Winners(b) : TRUE]

\* Attributes that the entity has already are merged over the facts.
Merged(new) ==
  [c \in Claims |-> IF c = Kind \/ attr[c] # NoValue THEN attr[c] ELSE Current(new[c])]

\* Variant: an entity that is new does not look at the facts.
ApplyToKnownEntity(e) ==
  /\ facts' = Bucketed(e)
  /\ entity' = (entity \/ ClaimOf[e] = Kind)
  /\ attr' = IF entity THEN Merged(facts') ELSE attr

\* apply_fact, then apply_entity when the claim is the subject's kind.
Apply(e) ==
  /\ facts' = Bucketed(e)
  /\ entity' = (entity \/ ClaimOf[e] = Kind)
  /\ attr' = IF entity' THEN Merged(facts') ELSE attr

\* Evidence is recorded and applied; what is in the store already is not applied again.
RecordEvidence(e) ==
  /\ todo = {} /\ e \notin evidence
  /\ evidence' = evidence \cup {e}
  /\ Apply(e)
  /\ UNCHANGED <<todo, saved>>

Save ==
  /\ todo = {} /\ saved # evidence
  /\ saved' = evidence
  /\ UNCHANGED <<evidence, todo, facts, entity, attr>>

\* hydrate_session, in this process or another: what was not saved is lost.
Hydrate ==
  /\ evidence' = saved /\ todo' = saved
  /\ facts' = [c \in Claims |-> {}]
  /\ entity' = FALSE
  /\ attr' = [c \in Claims |-> NoValue]
  /\ UNCHANGED saved

Replay(e) ==
  /\ e \in todo /\ \A f \in todo : e <= f
  /\ todo' = todo \ {e}
  /\ Apply(e)
  /\ UNCHANGED <<evidence, saved>>

WorldNext ==
  \/ \E e \in Observed : RecordEvidence(e) \/ Replay(e)
  \/ Save \/ Hydrate

WorldSpec == WorldInit /\ [][WorldNext]_pvars

-----------------------------------------------------------------------------
WorldTypeOK ==
  /\ evidence \subseteq Observed /\ saved \subseteq Observed /\ todo \subseteq evidence
  /\ facts \in [Claims -> SUBSET Observed]
  /\ entity \in BOOLEAN
  /\ attr \in [Claims -> Values \cup {NoValue}]

\* The evidence for a claim that the world has been told of.
Told(c) == {e \in evidence \ todo : ClaimOf[e] = c}

ValuesIn(b) == {ValueOf[e] : e \in b}

(* In whatever order evidence arrived, was trimmed and was replayed, a bucket   *)
(* arbitrates as all the evidence would: the same current fact, and the same   *)
(* values to tell a conflict by (_trim_fact_bucket, snapshot, hydrate_session). *)
TrimKeepsMeaning ==
  \A c \in Claims :
    /\ facts[c] \subseteq Told(c)
    /\ Winners(facts[c]) = Winners(Told(c))
    /\ ValuesIn(facts[c]) = ValuesIn(Told(c))

(* An entity shows every claim there is evidence for, with a value that some      *)
(* evidence has, whether the entity or the fact came first, and again after the  *)
(* hydration (_refresh_entity_attributes, apply_entity).                        *)
EntityShowsItsClaims ==
  entity => \A c \in Claims \ {Kind} :
    /\ attr[c] = NoValue <=> Told(c) = {}
    /\ attr[c] # NoValue => attr[c] \in ValuesIn(Told(c))

=============================================================================
