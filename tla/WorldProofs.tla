------------------------------ MODULE WorldProofs ------------------------------
(***************************************************************************)
(* What is proved of the world a session projects from its evidence, for any   *)
(* evidence, confidences and cap.                                            *)
(***************************************************************************)
EXTENDS WorldProjection, FiniteSetTheorems, TLAPS

USE WorldAssumption

(* Arbitration is a total order: exactly one piece of a set that is finite and     *)
(* not empty beats all others, for the sets of those that beat a piece are finite  *)
(* and well ordered by inclusion.                                             *)
LEMMA OneWinner ==
  ASSUME NEW b \in SUBSET Observed, IsFiniteSet(b)
  PROVE  /\ b # {} => Winners(b) # {}
         /\ \A e, f \in Winners(b) : e = f
<1>1. /\ \A e \in b : e \in Nat /\ Confidence[e] \in Nat
      /\ \A e, f \in b : Beats(e, f) \/ Beats(f, e)
      /\ \A e, f \in b : Beats(e, f) /\ Beats(f, e) => e = f
      /\ \A e, f, g \in b : Beats(e, f) /\ Beats(f, g) => Beats(e, g)
  <2>1. \A e \in b : e \in Nat /\ Confidence[e] \in Nat
    OBVIOUS
  <2>. QED  BY <2>1 DEF Beats
<1>2. \A e, f \in Winners(b) : e = f
  BY <1>1 DEF Winners
<1>3. ASSUME b # {}
      PROVE  Winners(b) # {}
  <2>. DEFINE Above(e) == {f \in b : Beats(f, e)}
              All == {Above(e) : e \in b}
  <2>1. All \subseteq FiniteSubsetsOf(b)
    <3>1. SUFFICES ASSUME NEW e \in b PROVE Above(e) \in FiniteSubsetsOf(b)
      OBVIOUS
    <3>2. Above(e) \subseteq b /\ IsFiniteSet(Above(e))
      BY FS_Subset
    <3>. QED  BY <3>2 DEF FiniteSubsetsOf
  <2>2. All # {}
    <3>1. PICK e \in b : TRUE
      BY <1>3
    <3>2. Above(e) \in All
      OBVIOUS
    <3>. QED  BY <3>2
  <2>. HIDE DEF All
  <2>3. PICK B \in All : \A C \in All : <<C, B>> \notin StrictSubsetOrdering(b)
    BY <2>1, <2>2, FS_StrictSubsetOrderingWellFounded, WFMin
  <2>. USE DEF All
  <2>4. PICK e \in b : B = Above(e)
    BY <2>3
  <2>5. ASSUME NEW f \in b, Beats(f, e), f # e
        PROVE  FALSE
    <3>1. Above(f) \subseteq Above(e) /\ Above(f) # Above(e)
      BY <1>1, <2>5
    <3>2. <<Above(f), Above(e)>> \in StrictSubsetOrdering(b)
      BY <3>1 DEF StrictSubsetOrdering
    <3>. QED  BY <2>3, <2>4, <3>2
  <2>6. \A f \in b : Beats(e, f)
    BY <1>1, <2>5
  <2>. QED  BY <2>6 DEF Winners
<1>. QED  BY <1>2, <1>3

\* Every value of a finite set has a newest observation.
LEMMA NewestOfEach ==
  ASSUME NEW b \in SUBSET Observed, IsFiniteSet(b), NEW e \in b
  PROVE  \E f \in Newest(b) : ValueOf[f] = ValueOf[e]
<1>. DEFINE Same == {f \in b : ValueOf[f] = ValueOf[e]}
            Above(f) == {g \in Same : g >= f}
            All == {Above(f) : f \in Same}
<1>1. IsFiniteSet(Same) /\ e \in Same /\ \A f \in Same : f \in Nat /\ f \in b
  BY FS_Subset
<1>. HIDE DEF Same
<1>2. All \subseteq FiniteSubsetsOf(Same) /\ All # {}
  <2>1. ASSUME NEW f \in Same PROVE Above(f) \in FiniteSubsetsOf(Same)
    <3>1. Above(f) \subseteq Same /\ IsFiniteSet(Above(f))
      BY <1>1, FS_Subset
    <3>. QED  BY <3>1 DEF FiniteSubsetsOf
  <2>2. Above(e) \in All
    BY <1>1
  <2>. HIDE DEF Above
  <2>. QED  BY <2>1, <2>2
<1>. HIDE DEF All
<1>3. PICK B \in All : \A C \in All : <<C, B>> \notin StrictSubsetOrdering(Same)
  BY <1>2, <1>1, FS_StrictSubsetOrderingWellFounded, WFMin
<1>. USE DEF All
<1>4. PICK f \in Same : B = Above(f)
  BY <1>3
<1>. HIDE DEF Same
<1>5. ASSUME NEW g \in Same, g > f
      PROVE  FALSE
  <2>1. f \in Nat /\ g \in Nat /\ \A h \in Same : h \in Nat
    BY <1>1
  <2>2. \A h \in Same : h >= g => h >= f
    BY <1>5, <2>1
  <2>3. f \in Above(f) /\ f \notin Above(g)
    BY <1>5, <2>1
  <2>4. Above(g) \subseteq Above(f) /\ Above(g) # Above(f)
    BY <2>2, <2>3
  <2>5. <<Above(g), Above(f)>> \in StrictSubsetOrdering(Same)
    BY <2>4 DEF StrictSubsetOrdering
  <2>6. Above(g) \in All
    OBVIOUS
  <2>. QED  BY <1>3, <1>4, <2>5, <2>6
<1>6. \A g \in Same : g <= f
  BY <1>1, <1>5
<1>. QED  BY <1>6 DEF Newest, Same

\* Trimming keeps what matters and adds nothing.
LEMMA TrimBetween ==
  ASSUME NEW b
  PROVE  Keep(b) \subseteq Trim(b) /\ Trim(b) \subseteq b
<1>1. Keep(b) \subseteq b
  BY DEF Keep, Winners, Newest
<1>. QED  BY <1>1 DEF Trim

\* What matters of a set that grows by one piece mattered before, or is the piece.
LEMMA KeepGrows ==
  ASSUME NEW all, NEW b, NEW e, Keep(all) \subseteq b, b \subseteq all
  PROVE  Keep(all \cup {e}) \subseteq Keep(b \cup {e})
BY DEF Keep, Winners, Newest

\* A bucket between what matters and all the evidence means the same.
LEMMA SameMeaning ==
  ASSUME NEW all \in SUBSET Observed, IsFiniteSet(all), NEW b \in SUBSET all, Keep(all) \subseteq b
  PROVE  Winners(b) = Winners(all) /\ ValuesIn(b) = ValuesIn(all)
<1>1. Winners(all) \subseteq Winners(b)
  BY DEF Keep, Winners
<1>2. Winners(b) \subseteq Winners(all)
  <2>1. SUFFICES ASSUME NEW e \in Winners(b) PROVE e \in Winners(all)
    OBVIOUS
  <2>2. all # {}
    BY <2>1 DEF Winners
  <2>3. PICK w \in Winners(all) : TRUE
    BY <2>2, OneWinner
  <2>4. IsFiniteSet(b) /\ w \in Winners(b)
    BY <1>1, <2>3, FS_Subset
  <2>. QED  BY <2>1, <2>3, <2>4, OneWinner
<1>3. ValuesIn(all) \subseteq ValuesIn(b)
  <2>1. SUFFICES ASSUME NEW e \in all PROVE ValueOf[e] \in ValuesIn(b)
    BY DEF ValuesIn
  <2>2. PICK f \in Newest(all) : ValueOf[f] = ValueOf[e]
    BY NewestOfEach
  <2>. QED  BY <2>2 DEF Keep, ValuesIn
<1>. QED  BY <1>1, <1>2, <1>3 DEF ValuesIn

-----------------------------------------------------------------------------
WorldInv ==
  /\ WorldTypeOK /\ IsFiniteSet(evidence) /\ IsFiniteSet(saved)
  /\ \A c \in Claims : Keep(Told(c)) \subseteq facts[c] /\ facts[c] \subseteq Told(c)
  /\ \A c \in Claims : attr[c] # NoValue => entity /\ attr[c] \in ValuesIn(Told(c))
  /\ entity => \A c \in Claims \ {Kind} : attr[c] = NoValue => Told(c) = {}

LEMMA ToldFinite ==
  ASSUME WorldInv, NEW c \in Claims
  PROVE  Told(c) \in SUBSET Observed /\ IsFiniteSet(Told(c))
<1>1. Told(c) \subseteq evidence /\ evidence \subseteq Observed /\ IsFiniteSet(evidence)
  BY DEF Told, WorldInv, WorldTypeOK
<1>. QED  BY <1>1, FS_Subset

LEMMA CurrentShown ==
  ASSUME NEW b \in SUBSET Observed, IsFiniteSet(b)
  PROVE  /\ Current(b) = NoValue <=> b = {}
         /\ Current(b) # NoValue => Current(b) \in ValuesIn(b)
<1>1. CASE b = {}
  BY <1>1 DEF Current
<1>2. CASE b # {}
  <2>. DEFINE w == CHOOSE e \in Winners(b) : TRUE
  <2>1. w \in b
    <3>1. w \in Winners(b)
      BY <1>2, OneWinner
    <3>. HIDE DEF w
    <3>. QED  BY <3>1 DEF Winners
  <2>2. Current(b) = ValueOf[w]
    BY <1>2 DEF Current
  <2>. HIDE DEF w
  <2>3. ValueOf[w] \in Values
    BY <2>1
  <2>. QED  BY <1>2, <2>1, <2>2, <2>3 DEF ValuesIn
<1>. QED  BY <1>1, <1>2

LEMMA ApplyKeeps ==
  ASSUME WorldInv, NEW e \in Observed, Apply(e),
         evidence' \ todo' = (evidence \ todo) \cup {e},
         evidence' \subseteq Observed, todo' \subseteq evidence', UNCHANGED saved,
         IsFiniteSet(evidence')
  PROVE  WorldInv'
<1>. USE DEF WorldInv
<1>1. \A c \in Claims : Told(c)' = Told(c) \cup (IF c = ClaimOf[e] THEN {e} ELSE {})
  BY DEF Told
<1>2. /\ ClaimOf[e] \in Claims
      /\ facts' = [facts EXCEPT ![ClaimOf[e]] = Trim(@ \cup {e})]
  BY DEF Apply, Bucketed
<1>3. \A c \in Claims : Keep(Told(c)') \subseteq facts'[c] /\ facts'[c] \subseteq Told(c)'
  <2>1. ASSUME NEW c \in Claims, c = ClaimOf[e]
        PROVE  Keep(Told(c)') \subseteq facts'[c] /\ facts'[c] \subseteq Told(c)'
    <3>1. facts'[c] = Trim(facts[c] \cup {e}) /\ Told(c)' = Told(c) \cup {e}
      BY <1>1, <1>2, <2>1 DEF WorldTypeOK
    <3>2. Keep(Told(c)) \subseteq facts[c] /\ facts[c] \subseteq Told(c)
      OBVIOUS
    <3>3. Keep(Told(c) \cup {e}) \subseteq Keep(facts[c] \cup {e})
      BY <3>2, KeepGrows
    <3>. DEFINE b == facts[c] \cup {e}
                all == Told(c) \cup {e}
    <3>4. Keep(b) \subseteq Trim(b) /\ Trim(b) \subseteq b
      BY TrimBetween
    <3>5. b \subseteq all /\ Keep(all) \subseteq Keep(b)
      BY <3>2, <3>3
    <3>6. facts'[c] = Trim(b) /\ Told(c)' = all
      BY <3>1
    <3>. HIDE DEF b, all
    <3>. QED  BY <3>4, <3>5, <3>6
  <2>2. ASSUME NEW c \in Claims, c # ClaimOf[e]
        PROVE  Keep(Told(c)') \subseteq facts'[c] /\ facts'[c] \subseteq Told(c)'
    <3>1. facts'[c] = facts[c] /\ Told(c)' = Told(c)
      BY <1>1, <1>2, <2>2 DEF WorldTypeOK
    <3>. QED  BY <3>1
  <2>. QED  BY <2>1, <2>2
<1>4. facts' \in [Claims -> SUBSET Observed]
  <2>1. \A c \in Claims : facts'[c] \subseteq Observed
    BY <1>3 DEF Told
  <2>. QED  BY <1>2, <2>1 DEF WorldTypeOK
<1>5. \A c \in Claims : Told(c)' \in SUBSET Observed /\ IsFiniteSet(Told(c)') /\ IsFiniteSet(facts'[c])
  <2>1. \A c \in Claims : Told(c)' \subseteq evidence'
    BY DEF Told
  <2>. QED  BY <1>3, <2>1, FS_Subset
<1>6. ASSUME NEW c \in Claims
      PROVE  /\ Current(facts'[c]) = NoValue => Told(c)' = {}
             /\ Current(facts'[c]) # NoValue => Current(facts'[c]) \in ValuesIn(Told(c)')
  <2>2. ValuesIn(facts'[c]) = ValuesIn(Told(c)')
    BY <1>3, <1>5, SameMeaning
  <2>3. /\ Current(facts'[c]) = NoValue <=> facts'[c] = {}
        /\ Current(facts'[c]) # NoValue => Current(facts'[c]) \in ValuesIn(facts'[c])
    BY <1>4, <1>5, CurrentShown
  <2>4. facts'[c] = {} => Told(c)' = {}
    BY <2>2 DEF ValuesIn
  <2>. QED  BY <2>2, <2>3, <2>4
<1>7. entity' = (entity \/ ClaimOf[e] = Kind) /\ entity' \in BOOLEAN /\ (entity => entity')
  BY DEF Apply, WorldTypeOK
<1>8. \A c \in Claims : ValuesIn(Told(c)) \subseteq ValuesIn(Told(c)')
  BY <1>1 DEF ValuesIn
<1>9. CASE entity'
  <2>1. attr' = [c \in Claims |-> IF c = Kind \/ attr[c] # NoValue THEN attr[c] ELSE Current(facts'[c])]
    BY <1>9 DEF Apply, Merged
  <2>2. \A c \in Claims : ValuesIn(Told(c)') \subseteq Values
    BY <1>5 DEF ValuesIn
  <2>3. \A c \in Claims : attr'[c] # NoValue => attr'[c] \in ValuesIn(Told(c)')
    BY <1>6, <1>8, <2>1
  <2>4. \A c \in Claims : attr'[c] \in Values \cup {NoValue}
    BY <2>2, <2>3
  <2>5. attr' \in [Claims -> Values \cup {NoValue}]
    BY <2>1, <2>4
  <2>6. ASSUME NEW c \in Claims \ {Kind}, attr'[c] = NoValue
        PROVE  Told(c)' = {}
    <3>1. Current(facts'[c]) = NoValue
      BY <2>1, <2>6
    <3>. QED  BY <1>6, <3>1
  <2>. QED  BY <1>3, <1>4, <1>7, <1>9, <2>3, <2>5, <2>6 DEF WorldTypeOK
<1>10. CASE ~entity'
  <2>1. attr' = attr /\ ~entity
    BY <1>7, <1>10 DEF Apply
  <2>. QED  BY <1>3, <1>4, <1>7, <1>10, <2>1 DEF WorldTypeOK
<1>. QED  BY <1>9, <1>10

\* A world that has been told of nothing.
LEMMA EmptyWorld ==
  ASSUME evidence' = todo', evidence' \subseteq Observed, IsFiniteSet(evidence'),
         saved' \subseteq Observed, IsFiniteSet(saved'),
         facts' = [c \in Claims |-> {}], entity' = FALSE, attr' = [c \in Claims |-> NoValue]
  PROVE  WorldInv'
<1>1. \A c \in Claims : Told(c)' = {} /\ Keep(Told(c)') = {}
  BY DEF Told, Keep, Winners, Newest
<1>. QED  BY <1>1 DEF WorldInv, WorldTypeOK

LEMMA WorldInvInit == WorldInit => WorldInv
<1>1. SUFFICES ASSUME WorldInit PROVE WorldInv
  OBVIOUS
<1>2. \A c \in Claims : Told(c) = {} /\ Keep(Told(c)) = {}
  BY <1>1 DEF WorldInit, Told, Keep, Winners, Newest
<1>. QED  BY <1>1, <1>2, FS_EmptySet DEF WorldInit, WorldInv, WorldTypeOK

LEMMA WorldInvNext == WorldInv /\ [WorldNext]_pvars => WorldInv'
<1>1. SUFFICES ASSUME WorldInv, [WorldNext]_pvars PROVE WorldInv'
  OBVIOUS
<1>. USE DEF WorldInv
<1>2. ASSUME NEW e \in Observed, RecordEvidence(e)
      PROVE  WorldInv'
  <2>1. /\ Apply(e) /\ todo = {} /\ evidence' = evidence \cup {e} /\ UNCHANGED <<todo, saved>>
    BY <1>2 DEF RecordEvidence
  <2>2. IsFiniteSet(evidence') /\ evidence' \subseteq Observed
    BY <1>1, <2>1, FS_AddElement DEF WorldTypeOK
  <2>. QED  BY <1>1, <2>1, <2>2, ApplyKeeps
<1>3. ASSUME NEW e \in Observed, Replay(e)
      PROVE  WorldInv'
  <2>1. /\ Apply(e) /\ e \in todo /\ todo' = todo \ {e} /\ UNCHANGED <<evidence, saved>>
    BY <1>3 DEF Replay
  <2>2. /\ evidence' \ todo' = (evidence \ todo) \cup {e} /\ evidence' \subseteq Observed
        /\ todo' \subseteq evidence' /\ IsFiniteSet(evidence')
    BY <1>1, <2>1 DEF WorldTypeOK
  <2>. QED  BY <1>1, <2>1, <2>2, ApplyKeeps
<1>4. CASE Save
  BY <1>1, <1>4 DEF Save, WorldTypeOK, Told
<1>5. CASE Hydrate
  BY <1>1, <1>5, EmptyWorld DEF Hydrate, WorldTypeOK
<1>6. CASE UNCHANGED pvars
  BY <1>1, <1>6 DEF pvars, WorldTypeOK, Told
<1>. QED  BY <1>1, <1>2, <1>3, <1>4, <1>5, <1>6 DEF WorldNext

(* What a bucket must keep it keeps, and it holds nothing but what the world was  *)
(* told, however evidence arrives and is replayed (_trim_fact_bucket).          *)
THEOREM WorldInductive == WorldSpec => []WorldInv
BY WorldInvInit, WorldInvNext, PTL DEF WorldSpec

(* Trimming changes neither the current fact nor the values in conflict            *)
(* (_trim_fact_bucket, snapshot).                                             *)
THEOREM WorldTrimKeepsMeaning == WorldSpec => []TrimKeepsMeaning
<1>1. WorldInv => TrimKeepsMeaning
  BY ToldFinite, SameMeaning DEF WorldInv, TrimKeepsMeaning
<1>. QED  BY <1>1, WorldInductive, PTL

(* An entity shows every claim there is evidence for, with one of its values        *)
(* (_refresh_entity_attributes, apply_entity).                                 *)
THEOREM WorldEntityShows == WorldSpec => []EntityShowsItsClaims
<1>1. WorldInv => EntityShowsItsClaims
  BY DEF WorldInv, EntityShowsItsClaims, ValuesIn
<1>. QED  BY <1>1, WorldInductive, PTL

=============================================================================
