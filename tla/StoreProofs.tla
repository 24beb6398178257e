------------------------------ MODULE StoreProofs ------------------------------
(***************************************************************************)
(* What is proved of the stores: the outbox is at least once, the file store  *)
(* implements the atomic store, a rebuilt session is what was committed, and a  *)
(* watcher of the journal gets every event of its scope once, in order.        *)
(***************************************************************************)
EXTENDS Outbox, FileJournal, SessionRebuild, EventFeed, FiniteSetTheorems,
        SequenceTheorems, TLAPS

(* Every set of natural numbers has a least element.  The intervals below its *)
(* elements are finite sets, and these are well ordered by inclusion.          *)
LEMMA Least ==
  ASSUME NEW S \in SUBSET Nat, S # {}
  PROVE  \E n \in S : \A m \in S : n <= m
<1>. DEFINE Below == {0..n : n \in S}
<1>1. Below \subseteq FiniteSubsetsOf(Nat)
  <2>1. SUFFICES ASSUME NEW n \in S PROVE 0..n \in FiniteSubsetsOf(Nat)
    OBVIOUS
  <2>2. 0 \in Int /\ n \in Int /\ 0..n \subseteq Nat
    OBVIOUS
  <2>3. IsFiniteSet(0..n)
    BY <2>2, FS_Interval
  <2>. QED  BY <2>2, <2>3 DEF FiniteSubsetsOf
<1>2. Below # {}
  OBVIOUS
<1>. HIDE DEF Below
<1>3. PICK B \in Below : \A C \in Below : <<C, B>> \notin StrictSubsetOrdering(Nat)
  BY <1>1, <1>2, FS_StrictSubsetOrderingWellFounded, WFMin
<1>. USE DEF Below
<1>4. PICK n \in S : B = 0..n
  BY <1>3
<1>5. ASSUME NEW m \in S, m < n
      PROVE  FALSE
  <2>1. 0..m \subseteq 0..n /\ 0..m # 0..n
    BY <1>5
  <2>2. <<0..m, 0..n>> \in StrictSubsetOrdering(Nat)
    BY <2>1 DEF StrictSubsetOrdering
  <2>. QED  BY <1>3, <1>4, <2>2
<1>. QED  BY <1>5

-----------------------------------------------------------------------------
(* Watching the journal.                                                    *)

\* The last event a consumer got.
LastGot(w) == IF got[w] = <<>> THEN 0 ELSE got[w][Len(got[w])]

\* An open watcher stands where its consumer does, and what it still has to hand out
\* comes next and has no gap.
NextWithoutGap ==
  \A w \in Watchers :
    /\ watch[w].pc # "closed" => watch[w].cursor = LastGot(w)
    /\ watch[w].batch \subseteq After(w, watch[w].cursor)
    /\ \A n \in watch[w].batch : \A m \in After(w, watch[w].cursor) : m < n => m \in watch[w].batch

FeedInv == FeedTypeOK /\ InOrderOnceEach /\ NextWithoutGap

LEMMA FeedInvInit == FeedInit => FeedInv
<1>. SUFFICES ASSUME FeedInit PROVE FeedInv
  OBVIOUS
<1>1. feed \in Seq(FeedSessions) /\ Len(feed) = 0 /\ \A w \in Watchers : got[w] = <<>> /\ got[w] \in Seq(1..MaxFeed)
  BY DEF FeedInit
<1>2. FeedTypeOK
  BY <1>1, FeedAssumption DEF FeedInit, FeedTypeOK, Closed
<1>3. InOrderOnceEach
  BY <1>1 DEF InOrderOnceEach
<1>4. NextWithoutGap
  BY DEF FeedInit, NextWithoutGap, Closed
<1>. QED  BY <1>2, <1>3, <1>4 DEF FeedInv

LEMMA WantedType ==
  ASSUME FeedTypeOK, NEW w \in Watchers
  PROVE  /\ Len(feed) \in Nat /\ DOMAIN feed = 1..Len(feed)
         /\ Wanted(w) \subseteq 1..Len(feed) /\ Wanted(w) \subseteq 1..MaxFeed
         /\ \A n \in Wanted(w) : n \in Nat
         /\ IsFiniteSet(Wanted(w))
<1>1. /\ Len(feed) \in Nat /\ DOMAIN feed = 1..Len(feed) /\ Len(feed) <= MaxFeed
  BY DEF FeedTypeOK
<1>2. IsFiniteSet(1..Len(feed))
  BY <1>1, FS_Interval
<1>3. Wanted(w) \subseteq 1..Len(feed)
  BY <1>1 DEF Wanted
<1>. QED  BY <1>1, <1>2, <1>3, FS_Subset, FeedAssumption

\* What a consumer has is counted by what it wanted up to the last of it.
LEMMA GotCounts ==
  ASSUME FeedTypeOK, InOrderOnceEach, NEW w \in Watchers
  PROVE  /\ LastGot(w) \in 0..MaxFeed /\ Len(got[w]) \in Nat
         /\ Cardinality({m \in Wanted(w) : m <= LastGot(w)}) = Len(got[w])
<1>1. Len(got[w]) \in Nat /\ DOMAIN got[w] = 1..Len(got[w]) /\ got[w] \in Seq(1..MaxFeed)
  BY DEF FeedTypeOK
<1>2. CASE got[w] = <<>>
  <2>1. {m \in Wanted(w) : m <= 0} = {}
    BY WantedType
  <2>2. LastGot(w) = 0 /\ Len(got[w]) = 0
    BY <1>1, <1>2 DEF LastGot
  <2>3. {m \in Wanted(w) : m <= LastGot(w)} = {}
    BY <2>1, <2>2
  <2>4. 0 \in 0..MaxFeed
    BY FeedAssumption
  <2>. QED  BY <1>1, <2>2, <2>3, <2>4, FS_EmptySet
<1>3. CASE got[w] # <<>>
  <2>. DEFINE n == got[w][Len(got[w])]
  <2>1. Len(got[w]) \in DOMAIN got[w] /\ Len(got[w]) > 0
    BY <1>1, <1>3
  <2>2. n \in Wanted(w) /\ Cardinality({m \in Wanted(w) : m < n}) = Len(got[w]) - 1
    BY <2>1 DEF InOrderOnceEach
  <2>3. IsFiniteSet({m \in Wanted(w) : m < n}) /\ n \in Nat /\ n \in 1..MaxFeed
    BY <2>2, WantedType, FS_Subset
  <2>4. {m \in Wanted(w) : m <= n} = {m \in Wanted(w) : m < n} \cup {n}
    BY <2>2, WantedType
  <2>5. Cardinality({m \in Wanted(w) : m < n} \cup {n}) = Cardinality({m \in Wanted(w) : m < n}) + 1
    <3>1. n \notin {m \in Wanted(w) : m < n}
      BY <2>3
    <3>. QED  BY <2>3, <3>1, FS_AddElement
  <2>6. LastGot(w) = n
    BY <1>3 DEF LastGot
  <2>. HIDE DEF n
  <2>7. Cardinality({m \in Wanted(w) : m <= n}) = Len(got[w])
    <3>1. Cardinality({m \in Wanted(w) : m <= n}) = Cardinality({m \in Wanted(w) : m < n}) + 1
      BY <2>4, <2>5
    <3>. QED  BY <1>1, <2>2, <3>1
  <2>. QED  BY <1>1, <2>3, <2>6, <2>7, FeedAssumption
<1>. QED  BY <1>2, <1>3

\* A page holds the events that come next.
LEMMA PageIsNext ==
  ASSUME FeedTypeOK, NEW w \in Watchers, NEW c
  PROVE  /\ Page(w, c) \subseteq After(w, c)
         /\ \A n \in Page(w, c) : \A m \in After(w, c) : m < n => m \in Page(w, c)
<1>1. \A n \in After(w, c) : n \in Nat
  BY WantedType DEF After
<1>2. IsFiniteSet(After(w, c))
  BY WantedType, FS_Subset DEF After
<1>3. ASSUME NEW n \in Page(w, c), NEW m \in After(w, c), m < n
      PROVE  m \in Page(w, c)
  <2>. DEFINE Below(k) == {j \in After(w, c) : j < k}
  <2>1. Below(m) \subseteq Below(n) /\ n \in After(w, c)
    BY <1>1, <1>3 DEF Page
  <2>2. IsFiniteSet(Below(n)) /\ IsFiniteSet(Below(m)) /\ Cardinality(Below(m)) <= Cardinality(Below(n))
    <3>1. IsFiniteSet(Below(n))
      BY <1>2, FS_Subset
    <3>. QED  BY <2>1, <3>1, FS_Subset
  <2>3. Cardinality(Below(m)) \in Nat /\ Cardinality(Below(n)) \in Nat
    BY <2>2, FS_CardinalityType
  <2>4. KindOf[w] = "broker" => Cardinality(Below(n)) < CatchUp
    BY <1>3 DEF Page
  <2>5. KindOf[w] = "broker" => Cardinality(Below(m)) < CatchUp
    BY <2>2, <2>3, <2>4, FeedAssumption
  <2>. QED  BY <2>5 DEF Page
<1>. QED  BY <1>3 DEF Page

\* What the journal holds already is not disturbed by an event that is appended.
LEMMA EmitKeeps ==
  ASSUME FeedInv, NEW s \in FeedSessions, Emit(s)
  PROVE  FeedInv'
<1>0. FeedTypeOK /\ InOrderOnceEach /\ NextWithoutGap
  BY DEF FeedInv
<1>1. /\ Len(feed) \in Nat /\ DOMAIN feed = 1..Len(feed)
      /\ feed' \in Seq(FeedSessions) /\ Len(feed') = Len(feed) + 1
      /\ DOMAIN feed' = 1..(Len(feed) + 1)
      /\ \A i \in 1..Len(feed) : feed'[i] = feed[i]
  BY <1>0, AppendProperties DEF FeedTypeOK, Emit
<1>2. ASSUME NEW w \in Watchers
      PROVE  /\ \A n : n \in Wanted(w)' => n \in Wanted(w) \/ n = Len(feed) + 1
             /\ Wanted(w) \subseteq Wanted(w)'
  BY <1>1 DEF Wanted, InScope
<1>3. /\ got' = got /\ drops' = drops /\ Len(feed) < MaxFeed
      /\ \A w \in Watchers : watch'[w].pc = watch[w].pc /\ watch'[w].cursor = watch[w].cursor
                             /\ watch'[w].batch = watch[w].batch
  BY <1>0 DEF Emit, FeedTypeOK
<1>4. FeedTypeOK'
  <2>1. watch' \in [Watchers -> [pc : {"closed", "reading", "serving", "waiting"},
                                 cursor : 0..MaxFeed, batch : SUBSET (1..MaxFeed), signal : BOOLEAN]]
    BY <1>0 DEF Emit, FeedTypeOK
  <2>. QED  BY <1>0, <1>1, <1>3, <2>1, FeedAssumption DEF FeedTypeOK
<1>5. InOrderOnceEach'
  <2>1. SUFFICES ASSUME NEW w \in Watchers, NEW i \in DOMAIN got[w]
                 PROVE  LET n == got[w][i] IN
                          n \in Wanted(w)' /\ Cardinality({m \in Wanted(w)' : m < n}) = i - 1
    BY <1>3 DEF InOrderOnceEach
  <2>. DEFINE n == got[w][i]
  <2>2. n \in Wanted(w) /\ Cardinality({m \in Wanted(w) : m < n}) = i - 1
    BY <1>0 DEF InOrderOnceEach
  <2>3. n \in 1..Len(feed)
    BY <1>0, <2>2, WantedType
  <2>4. {m \in Wanted(w)' : m < n} = {m \in Wanted(w) : m < n}
    BY <1>1, <1>2, <2>3
  <2>. QED  BY <1>2, <2>2, <2>4
<1>6. NextWithoutGap'
  <2>1. SUFFICES ASSUME NEW w \in Watchers
                 PROVE  /\ watch[w].pc # "closed" => watch[w].cursor = LastGot(w)
                        /\ watch[w].batch \subseteq After(w, watch[w].cursor)'
                        /\ \A n \in watch[w].batch : \A m \in Wanted(w)' :
                             m > watch[w].cursor /\ m < n => m \in watch[w].batch
    BY <1>3 DEF NextWithoutGap, LastGot, After
  <2>2. /\ watch[w].batch \subseteq Wanted(w)
        /\ \A n \in watch[w].batch : n > watch[w].cursor
        /\ \A n \in watch[w].batch : \A m \in Wanted(w) :
                             m > watch[w].cursor /\ m < n => m \in watch[w].batch
    BY <1>0 DEF NextWithoutGap, After
  <2>3. \A n \in watch[w].batch : n \in 1..Len(feed)
    BY <1>0, <2>2, WantedType
  <2>4. ASSUME NEW n \in watch[w].batch, NEW m \in Wanted(w)', m > watch[w].cursor, m < n
        PROVE  m \in watch[w].batch
    BY <1>1, <1>2, <2>2, <2>3, <2>4
  <2>5. watch[w].batch \subseteq After(w, watch[w].cursor)'
    BY <1>2, <1>3, <2>2 DEF After
  <2>. QED  BY <1>0, <2>4, <2>5 DEF NextWithoutGap
<1>. QED  BY <1>4, <1>5, <1>6 DEF FeedInv

\* The event that is handed out is the next one.
LEMMA DeliverKeeps ==
  ASSUME FeedInv, NEW w \in Watchers, Deliver(w)
  PROVE  FeedInv'
<1>0. FeedTypeOK /\ InOrderOnceEach /\ NextWithoutGap
  BY DEF FeedInv
<1>. DEFINE b == watch[w].batch
            c == watch[w].cursor
            n == Min(b)
<1>1. b \subseteq After(w, c) /\ b # {} /\ b \subseteq Wanted(w) /\ c = LastGot(w)
      /\ \A j \in b : \A m \in After(w, c) : m < j => m \in b
  BY <1>0 DEF NextWithoutGap, Deliver, After
<1>2. n \in b /\ \A m \in b : n <= m
  <2>1. b \in SUBSET Nat
    BY <1>0, <1>1, WantedType
  <2>2. \E j \in b : \A m \in b : j <= m
    BY <1>1, <2>1, Least
  <2>. QED  BY <2>2 DEF Min
<1>3. /\ got' = [got EXCEPT ![w] = Append(@, n)] /\ feed' = feed /\ drops' = drops
      /\ watch' = [watch EXCEPT ![w].batch = b \ {n}, ![w].cursor = n]
  BY DEF Deliver
<1>. HIDE DEF n
<1>4. /\ n \in Wanted(w) /\ n \in 1..MaxFeed /\ n \in 0..MaxFeed /\ n > c /\ c \in 0..MaxFeed
      /\ n \in Nat /\ c \in Nat /\ b \ {n} \in SUBSET (1..MaxFeed)
  BY <1>0, <1>1, <1>2, FeedAssumption, WantedType DEF After, FeedTypeOK
<1>5. /\ got' \in [Watchers -> Seq(1..MaxFeed)]
      /\ Len(got[w]) \in Nat /\ DOMAIN got[w] = 1..Len(got[w])
      /\ got'[w] # <<>> /\ Len(got'[w]) = Len(got[w]) + 1
      /\ DOMAIN got'[w] = 1..(Len(got[w]) + 1)
      /\ \A i \in 1..Len(got[w]) : got'[w][i] = got[w][i]
      /\ got'[w][Len(got[w]) + 1] = n
      /\ \A v \in Watchers \ {w} : got'[v] = got[v]
  <2>1. got[w] \in Seq(1..MaxFeed) /\ got \in [Watchers -> Seq(1..MaxFeed)]
    BY <1>0 DEF FeedTypeOK
  <2>2. got'[w] = Append(got[w], n)
    BY <1>3, <2>1
  <2>. QED  BY <1>3, <1>4, <2>1, <2>2, AppendProperties
<1>6. /\ watch' \in [Watchers -> [pc : {"closed", "reading", "serving", "waiting"},
                                  cursor : 0..MaxFeed, batch : SUBSET (1..MaxFeed), signal : BOOLEAN]]
      /\ watch'[w].pc = watch[w].pc /\ watch'[w].batch = b \ {n} /\ watch'[w].cursor = n
      /\ \A v \in Watchers \ {w} : watch'[v] = watch[v]
  <2>1. watch' = [watch EXCEPT ![w] = [@ EXCEPT !.batch = b \ {n}, !.cursor = n]]
    BY <1>0, <1>3 DEF FeedTypeOK
  <2>2. watch[w] \in [pc : {"closed", "reading", "serving", "waiting"},
                      cursor : 0..MaxFeed, batch : SUBSET (1..MaxFeed), signal : BOOLEAN]
    BY <1>0 DEF FeedTypeOK
  <2>3. /\ watch'[w] = [watch[w] EXCEPT !.batch = b \ {n}, !.cursor = n]
        /\ \A v \in Watchers \ {w} : watch'[v] = watch[v]
        /\ DOMAIN watch' = Watchers /\ watch' = [v \in Watchers |-> watch'[v]]
    BY <1>0, <2>1 DEF FeedTypeOK
  <2>. HIDE DEF b
  <2>4. /\ watch'[w] \in [pc : {"closed", "reading", "serving", "waiting"},
                      cursor : 0..MaxFeed, batch : SUBSET (1..MaxFeed), signal : BOOLEAN]
        /\ watch'[w].pc = watch[w].pc /\ watch'[w].batch = b \ {n} /\ watch'[w].cursor = n
    BY <1>4, <2>2, <2>3
  <2>. QED  BY <1>0, <2>3, <2>4, ZenonT(60) DEF FeedTypeOK
<1>. HIDE DEF b, c
<1>7. FeedTypeOK'
  BY <1>0, <1>3, <1>5, <1>6 DEF FeedTypeOK
<1>8. \A v \in Watchers : Wanted(v)' = Wanted(v)
  BY <1>3 DEF Wanted, InScope
<1>9. InOrderOnceEach'
  <2>1. SUFFICES ASSUME NEW v \in Watchers, NEW i \in DOMAIN got'[v]
                 PROVE  LET k == got'[v][i] IN
                          k \in Wanted(v) /\ Cardinality({m \in Wanted(v) : m < k}) = i - 1
    BY <1>8 DEF InOrderOnceEach
  <2>2. CASE v = w /\ i = Len(got[w]) + 1
    <3>1. \A m \in Wanted(w) : m < n <=> m <= LastGot(w)
      <4>1. \A m \in Wanted(w) : m \in Nat
        BY <1>0, WantedType
      <4>2. \A m \in Wanted(w) : m > c => ~(m < n)
        <5>1. \A m \in Wanted(w) : m > c /\ m < n => m \in b
          BY <1>1, <1>2 DEF After
        <5>. QED  BY <1>2, <1>4, <4>1, <5>1
      <4>. QED  BY <1>1, <1>4, <4>1, <4>2
    <3>2. {m \in Wanted(w) : m < n} = {m \in Wanted(w) : m <= LastGot(w)}
      BY <3>1
    <3>3. Cardinality({m \in Wanted(w) : m < n}) = Len(got[w])
      BY <1>0, <3>2, GotCounts
    <3>4. got'[v][i] = n /\ i - 1 = Len(got[w])
      BY <1>5, <2>2
    <3>. QED  BY <1>4, <2>2, <3>3, <3>4
  <2>3. CASE i \in DOMAIN got[v] /\ got'[v][i] = got[v][i]
    BY <1>0, <2>3 DEF InOrderOnceEach
  <2>. QED  BY <1>5, <2>1, <2>2, <2>3
<1>10. NextWithoutGap'
  <2>1. SUFFICES ASSUME NEW v \in Watchers
                 PROVE  /\ watch'[v].pc # "closed" => watch'[v].cursor = LastGot(v)'
                        /\ watch'[v].batch \subseteq After(v, watch'[v].cursor)
                        /\ \A j \in watch'[v].batch : \A m \in After(v, watch'[v].cursor) :
                             m < j => m \in watch'[v].batch
    BY <1>8 DEF NextWithoutGap, After
  <2>2. CASE v # w
    BY <1>0, <1>5, <1>6, <2>2 DEF NextWithoutGap, LastGot
  <2>3. CASE v = w
    <3>1. LastGot(w)' = n
      BY <1>5 DEF LastGot
    <3>2. \A m \in Wanted(w) : m \in Nat
      BY <1>0, WantedType
    <3>3. b \ {n} \subseteq After(w, n)
      BY <1>1, <1>2, <1>4, <3>2 DEF After
    <3>4. ASSUME NEW j \in b \ {n}, NEW m \in After(w, n), m < j
          PROVE  m \in b \ {n}
      <4>1. m \in After(w, c) /\ m # n
        BY <1>4, <3>2 DEF After
      <4>. QED  BY <1>1, <3>4, <4>1
    <3>. QED  BY <1>6, <2>3, <3>1, <3>3, <3>4
  <2>. QED  BY <2>2, <2>3
<1>. QED  BY <1>7, <1>9, <1>10 DEF FeedInv

LEMMA FeedInvStep ==
  ASSUME FeedInv, [FeedNext]_fvars
  PROVE  FeedInv'
<1>0. FeedTypeOK /\ InOrderOnceEach /\ NextWithoutGap
  BY DEF FeedInv
<1>1. ASSUME NEW s \in FeedSessions, Emit(s)
      PROVE  FeedInv'
  BY <1>1, EmitKeeps
<1>2. ASSUME NEW w \in Watchers, Deliver(w)
      PROVE  FeedInv'
  BY <1>2, DeliverKeeps
<1>3. ASSUME UNCHANGED <<feed, got>>, drops' \in 0..MaxDrops,
             NEW w \in Watchers, NEW rec \in [pc : {"closed", "reading", "serving", "waiting"},
                             cursor : 0..MaxFeed, batch : SUBSET (1..MaxFeed), signal : BOOLEAN],
             watch' = [watch EXCEPT ![w] = rec],
             rec.pc # "closed" => rec.cursor = LastGot(w),
             rec.batch \subseteq After(w, rec.cursor),
             \A n \in rec.batch : \A m \in After(w, rec.cursor) : m < n => m \in rec.batch
      PROVE  FeedInv'
  <2>1. \A v \in Watchers : Wanted(v)' = Wanted(v) /\ LastGot(v)' = LastGot(v)
    BY <1>3 DEF Wanted, InScope, LastGot
  <2>2. FeedTypeOK'
    BY <1>0, <1>3 DEF FeedTypeOK
  <2>3. InOrderOnceEach'
    BY <1>0, <1>3, <2>1 DEF InOrderOnceEach
  <2>4. \A v \in Watchers : watch'[v] = IF v = w THEN rec ELSE watch[v]
    BY <1>0, <1>3 DEF FeedTypeOK
  <2>5. NextWithoutGap'
    BY <1>0, <1>3, <2>1, <2>4 DEF NextWithoutGap, After
  <2>. QED  BY <2>2, <2>3, <2>5 DEF FeedInv
<1>4. ASSUME NEW w \in Watchers
      PROVE  /\ watch[w] \in [pc : {"closed", "reading", "serving", "waiting"},
                             cursor : 0..MaxFeed, batch : SUBSET (1..MaxFeed), signal : BOOLEAN]
             /\ watch[w].pc # "closed" => watch[w].cursor = LastGot(w)
             /\ watch[w].batch \subseteq After(w, watch[w].cursor)
             /\ \A n \in watch[w].batch : \A m \in After(w, watch[w].cursor) :
                   m < n => m \in watch[w].batch
             /\ LastGot(w) \in 0..MaxFeed /\ drops \in 0..MaxDrops
             /\ watch \in [Watchers -> [pc : {"closed", "reading", "serving", "waiting"},
                             cursor : 0..MaxFeed, batch : SUBSET (1..MaxFeed), signal : BOOLEAN]]
  BY <1>0, GotCounts DEF FeedTypeOK, NextWithoutGap
<1>5. ASSUME NEW w \in Watchers, Open(w)
      PROVE  FeedInv'
  <2>. DEFINE rec == [Closed EXCEPT !.pc = "reading", !.cursor = LastGot(w)]
  <2>1. watch' = [watch EXCEPT ![w] = rec] /\ UNCHANGED <<feed, got, drops>>
    BY <1>5 DEF Open, LastGot
  <2>2. /\ rec \in [pc : {"closed", "reading", "serving", "waiting"},
                   cursor : 0..MaxFeed, batch : SUBSET (1..MaxFeed), signal : BOOLEAN]
        /\ rec.cursor = LastGot(w) /\ rec.batch = {}
    BY <1>4 DEF Closed
  <2>. HIDE DEF rec
  <2>. QED  BY <1>3, <1>4, <2>1, <2>2
<1>6. ASSUME NEW w \in Watchers, Read(w)
      PROVE  FeedInv'
  <2>. DEFINE page == Page(w, watch[w].cursor)
              rec == [watch[w] EXCEPT !.batch = page,
                        !.pc = IF page = {} /\ KindOf[w] # "memory" THEN "waiting" ELSE "serving"]
  <2>1. watch' = [watch EXCEPT ![w] = rec] /\ UNCHANGED <<feed, got, drops>> /\ watch[w].pc # "closed"
    BY <1>4, <1>6 DEF Read
  <2>2. /\ page \subseteq After(w, watch[w].cursor) /\ page \in SUBSET (1..MaxFeed)
        /\ \A n \in page : \A m \in After(w, watch[w].cursor) : m < n => m \in page
    BY <1>0, PageIsNext, WantedType DEF After
  <2>. HIDE DEF page
  <2>3. rec \in [pc : {"closed", "reading", "serving", "waiting"},
                 cursor : 0..MaxFeed, batch : SUBSET (1..MaxFeed), signal : BOOLEAN]
        /\ rec.cursor = watch[w].cursor /\ rec.batch = page
    BY <1>4, <2>2
  <2>. HIDE DEF rec
  <2>. QED  BY <1>3, <1>4, <2>1, <2>2, <2>3
<1>7. ASSUME NEW w \in Watchers, AskForMore(w) \/ Notify(w) \/ Wake(w) \/ Timeout(w)
      PROVE  FeedInv'
  <2>1. PICK place \in {"reading", "serving", "waiting"}, sig \in BOOLEAN :
          watch' = [watch EXCEPT ![w] = [@ EXCEPT !.pc = place, !.signal = sig]]
    <3>1. CASE AskForMore(w)
      BY <1>4, <3>1 DEF AskForMore
    <3>2. CASE Notify(w)
      BY <1>4, <3>2, ZenonT(60) DEF Notify
    <3>3. CASE Wake(w)
      BY <1>4, <3>3 DEF Wake
    <3>4. CASE Timeout(w)
      <4>1. CASE KindOf[w] = "memory"
        <5>1. watch' = [watch EXCEPT ![w].pc = "serving"]
          BY <3>4, <4>1 DEF Timeout
        <5>2. watch' = [watch EXCEPT ![w] = [@ EXCEPT !.pc = "serving", !.signal = watch[w].signal]]
          BY <1>4, <5>1
        <5>. QED  BY <1>4, <5>2
      <4>2. CASE KindOf[w] # "memory"
        <5>1. watch' = [watch EXCEPT ![w].pc = "reading"]
          BY <3>4, <4>2 DEF Timeout
        <5>2. watch' = [watch EXCEPT ![w] = [@ EXCEPT !.pc = "reading", !.signal = watch[w].signal]]
          BY <1>4, <5>1
        <5>. QED  BY <1>4, <5>2
      <4>. QED  BY <4>1, <4>2
    <3>. QED  BY <1>7, <3>1, <3>2, <3>3, <3>4
  <2>2. UNCHANGED <<feed, got, drops>> /\ watch[w].pc # "closed"
    BY <1>7 DEF AskForMore, Notify, Wake, Timeout
  <2>. DEFINE rec == [watch[w] EXCEPT !.pc = place, !.signal = sig]
  <2>3. watch' = [watch EXCEPT ![w] = rec]
    BY <1>4, <2>1
  <2>4. rec \in [pc : {"closed", "reading", "serving", "waiting"},
                 cursor : 0..MaxFeed, batch : SUBSET (1..MaxFeed), signal : BOOLEAN]
        /\ rec.cursor = watch[w].cursor /\ rec.batch = watch[w].batch
    BY <1>4
  <2>. HIDE DEF rec
  <2>5. /\ rec.pc # "closed" => rec.cursor = LastGot(w)
        /\ rec.batch \subseteq After(w, rec.cursor)
        /\ \A n \in rec.batch : \A m \in After(w, rec.cursor) : m < n => m \in rec.batch
    BY <1>4, <2>2, <2>4
  <2>. QED  BY <1>3, <1>4, <2>2, <2>3, <2>4, <2>5
<1>8. ASSUME NEW w \in Watchers, Drop(w)
      PROVE  FeedInv'
  <2>1. watch' = [watch EXCEPT ![w] = Closed] /\ UNCHANGED <<feed, got>> /\ drops' \in 0..MaxDrops
    BY <1>4, <1>8, FeedAssumption DEF Drop
  <2>2. Closed \in [pc : {"closed", "reading", "serving", "waiting"},
                    cursor : 0..MaxFeed, batch : SUBSET (1..MaxFeed), signal : BOOLEAN]
        /\ Closed.pc = "closed" /\ Closed.batch = {}
    <3>1. 0 \in 0..MaxFeed
      BY FeedAssumption
    <3>. QED  BY <3>1 DEF Closed
  <2>. QED  BY <1>3, <2>1, <2>2
<1>9. CASE UNCHANGED fvars
  <2>1. feed' = feed /\ watch' = watch /\ got' = got /\ drops' = drops
    BY <1>9 DEF fvars
  <2>2. \A v \in Watchers : Wanted(v)' = Wanted(v) /\ LastGot(v)' = LastGot(v)
    BY <2>1 DEF Wanted, InScope, LastGot
  <2>3. FeedTypeOK'
    BY <1>0, <2>1 DEF FeedTypeOK
  <2>4. InOrderOnceEach'
    BY <1>0, <2>1, <2>2 DEF InOrderOnceEach
  <2>5. NextWithoutGap'
    BY <1>0, <2>1, <2>2 DEF NextWithoutGap, After
  <2>. QED  BY <2>3, <2>4, <2>5 DEF FeedInv
<1>. QED  BY <1>1, <1>2, <1>5, <1>6, <1>7, <1>8, <1>9 DEF FeedNext, Step

(* An open watcher stands where its consumer does, and what it has in hand comes  *)
(* next without a gap (watch_events of the event streams).                      *)
THEOREM FeedInductive == FeedSpec => []FeedInv
BY FeedInvInit, FeedInvStep, PTL DEF FeedSpec

(* A consumer gets the events of its scope in order, each once and none left out,  *)
(* for any number of watchers of each kind, any page size, and any number of       *)
(* dropped connections (watch_events, filter_events).                            *)
THEOREM FeedInOrderOnceEach == FeedSpec => []InOrderOnceEach
<1>1. FeedInv => InOrderOnceEach
  BY DEF FeedInv
<1>. QED  BY <1>1, FeedInductive, PTL

-----------------------------------------------------------------------------
(* The outbox.                                                              *)

USE OutboxAssumption

\* What a publisher counts as sent the broker has taken.
GoodWasSent == \A p \in Publishers : pub[p].good \subseteq sent

OutboxInv == OutboxTypeOK /\ GoodWasSent /\ PublishedWasSent

LEMMA InHandType ==
  ASSUME OutboxTypeOK, NEW p \in Publishers, pub[p].hand # {}
  PROVE  InHand(p) \in Rows
<1>1. pub[p].hand \in SUBSET Nat /\ pub[p].hand \subseteq Rows
  BY DEF OutboxTypeOK
<1>2. \E e \in pub[p].hand : \A f \in pub[p].hand : e <= f
  BY <1>1, Least
<1>. QED  BY <1>1, <1>2 DEF InHand

LEMMA OutboxInvInit == OutboxInit => OutboxInv
BY DEF OutboxInit, OutboxInv, OutboxTypeOK, GoodWasSent, PublishedWasSent, Pending, Resting

LEMMA ReclaimedType ==
  ASSUME OutboxTypeOK
  PROVE  /\ Reclaimed \in [Rows -> [status : {"pending", "publishing", "published"},
                                    by : Publishers \cup {Nobody}, lapsed : BOOLEAN, delayed : BOOLEAN]]
         /\ \A e \in Rows : Reclaimed[e].status = "published" => row[e].status = "published"
BY DEF OutboxTypeOK, Reclaimed, Pending

LEMMA OutboxInvStep ==
  ASSUME OutboxInv, [OutboxNext]_ovars
  PROVE  OutboxInv'
<1>. USE DEF OutboxInv
<1>1. ASSUME NEW p \in Publishers, LeaseRows(p)
      PROVE  OutboxInv'
  <2>1. /\ row' = [e \in Rows |-> IF e \in pub[p].batch
                                  THEN [Pending EXCEPT !.status = "publishing", !.by = p]
                                  ELSE Reclaimed[e]]
        /\ pub' = [pub EXCEPT ![p] = [pub[p] EXCEPT !.pc = "leased"]]
        /\ UNCHANGED <<sent, deaths>>
    BY <1>1 DEF LeaseRows
  <2>2. /\ row' \in [Rows -> [status : {"pending", "publishing", "published"},
                       by : Publishers \cup {Nobody}, lapsed : BOOLEAN, delayed : BOOLEAN]]
        /\ \A e \in Rows : row'[e].status = "published" => row[e].status = "published"
    BY <2>1, ReclaimedType DEF Pending
  <2>3. /\ \A q \in Publishers : pub'[q].good = pub[q].good
        /\ pub' \in [Publishers -> [pc : {"idle", "locking", "leased", "sending", "marked"},
                batch : SUBSET Rows, hand : SUBSET Rows, good : SUBSET Rows, bad : SUBSET Rows]]
    BY <2>1, ZenonT(60) DEF OutboxTypeOK
  <2>. QED  BY <2>1, <2>2, <2>3 DEF OutboxTypeOK, GoodWasSent, PublishedWasSent
<1>10. ASSUME NEW p \in Publishers, LockRows(p)
       PROVE  OutboxInv'
  <2>1. PICK batch \in SUBSET Rows :
          pub' = [pub EXCEPT ![p] = [Resting EXCEPT !.pc = "locking", !.batch = batch]]
    BY <1>10 DEF LockRows, Due
  <2>2. UNCHANGED <<row, sent, deaths>>
    BY <1>10 DEF LockRows
  <2>3. OutboxTypeOK'
    BY <2>1, <2>2 DEF OutboxTypeOK, Resting
  <2>4. GoodWasSent'
    BY <2>1, <2>2 DEF GoodWasSent, OutboxTypeOK, Resting
  <2>. QED  BY <2>2, <2>3, <2>4 DEF PublishedWasSent
<1>2. ASSUME NEW p \in Publishers, ReadBack(p)
      PROVE  OutboxInv'
  <2>1. OutboxTypeOK'
    BY <1>2, ZenonT(60) DEF ReadBack, OutboxTypeOK, Resting
  <2>2. GoodWasSent'
    BY <1>2 DEF ReadBack, OutboxTypeOK, GoodWasSent, Resting
  <2>. QED  BY <1>2, <2>1, <2>2 DEF ReadBack, PublishedWasSent
<1>3. ASSUME NEW p \in Publishers, SendGood(p)
      PROVE  OutboxInv'
  <2>1. InHand(p) \in Rows
    BY <1>3, InHandType DEF SendGood
  <2>2. pub' = [pub EXCEPT ![p] = [pub[p] EXCEPT !.hand = @ \ {InHand(p)}, !.good = @ \cup {InHand(p)}]]
    BY <1>3 DEF SendGood
  <2>3. [pub[p] EXCEPT !.hand = @ \ {InHand(p)}, !.good = @ \cup {InHand(p)}] \in
          [pc : {"idle", "locking", "leased", "sending", "marked"},
           batch : SUBSET Rows, hand : SUBSET Rows, good : SUBSET Rows, bad : SUBSET Rows]
    BY <2>1 DEF OutboxTypeOK
  <2>4. OutboxTypeOK'
    BY <1>3, <2>1, <2>2, <2>3 DEF SendGood, OutboxTypeOK
  <2>5. GoodWasSent'
    BY <1>3, <2>1 DEF SendGood, OutboxTypeOK, GoodWasSent
  <2>. QED  BY <1>3, <2>4, <2>5 DEF SendGood, PublishedWasSent
<1>4. ASSUME NEW p \in Publishers, SendBad(p)
      PROVE  OutboxInv'
  <2>1. InHand(p) \in Rows
    BY <1>4, InHandType DEF SendBad
  <2>2. OutboxTypeOK' /\ sent \subseteq sent'
    BY <1>4, <2>1, ZenonT(60) DEF SendBad, OutboxTypeOK
  <2>3. GoodWasSent'
    BY <1>4, <2>2 DEF SendBad, OutboxTypeOK, GoodWasSent
  <2>. QED  BY <1>4, <2>2, <2>3 DEF SendBad, PublishedWasSent
<1>5. ASSUME NEW p \in Publishers, MarkPublished(p)
      PROVE  OutboxInv'
  <2>1. OutboxTypeOK'
    BY <1>5, ZenonT(60) DEF MarkPublished, OutboxTypeOK, Published, Pending
  <2>2. GoodWasSent'
    BY <1>5 DEF MarkPublished, OutboxTypeOK, GoodWasSent
  <2>3. PublishedWasSent'
    BY <1>5 DEF MarkPublished, GoodWasSent, PublishedWasSent
  <2>. QED  BY <2>1, <2>2, <2>3
<1>6. ASSUME NEW p \in Publishers, ReleaseFailed(p)
      PROVE  OutboxInv'
  <2>1. OutboxTypeOK'
    BY <1>6 DEF ReleaseFailed, OutboxTypeOK, Resting, Pending
  <2>2. GoodWasSent'
    BY <1>6 DEF ReleaseFailed, OutboxTypeOK, GoodWasSent, Resting
  <2>3. PublishedWasSent'
    BY <1>6 DEF ReleaseFailed, PublishedWasSent, Pending
  <2>. QED  BY <2>1, <2>2, <2>3
<1>7. ASSUME NEW p \in Publishers, PublisherDies(p)
      PROVE  OutboxInv'
  <2>1. OutboxTypeOK'
    BY <1>7 DEF PublisherDies, OutboxTypeOK, Resting
  <2>2. GoodWasSent'
    BY <1>7 DEF PublisherDies, OutboxTypeOK, GoodWasSent, Resting
  <2>. QED  BY <1>7, <2>1, <2>2 DEF PublisherDies, PublishedWasSent
<1>8. ASSUME NEW e \in Rows, LeaseLapses(e) \/ RetryIsDue(e)
      PROVE  OutboxInv'
  <2>1. OutboxTypeOK'
    <3>1. row' \in [Rows -> [status : {"pending", "publishing", "published"},
                             by : Publishers \cup {Nobody}, lapsed : BOOLEAN, delayed : BOOLEAN]]
      <4>1. CASE row' = [row EXCEPT ![e] = [row[e] EXCEPT !.lapsed = TRUE]]
        BY <4>1, ZenonT(60) DEF OutboxTypeOK
      <4>2. CASE row' = [row EXCEPT ![e] = [row[e] EXCEPT !.delayed = FALSE]]
        BY <4>2, ZenonT(60) DEF OutboxTypeOK
      <4>. QED  BY <1>8, <4>1, <4>2 DEF LeaseLapses, RetryIsDue
    <3>. QED  BY <1>8, <3>1 DEF LeaseLapses, RetryIsDue, OutboxTypeOK
  <2>2. \A f \in Rows : row'[f].status = row[f].status
    BY <1>8 DEF LeaseLapses, RetryIsDue, OutboxTypeOK
  <2>. QED  BY <1>8, <2>1, <2>2 DEF LeaseLapses, RetryIsDue, GoodWasSent, PublishedWasSent
<1>9. CASE UNCHANGED ovars
  BY <1>9 DEF ovars, OutboxTypeOK, GoodWasSent, PublishedWasSent
<1>. QED  BY <1>1, <1>2, <1>3, <1>4, <1>5, <1>6, <1>7, <1>8, <1>9, <1>10 DEF OutboxNext, Publish

(* The rows and the publishers keep their types, and what a publisher counts   *)
(* as sent was sent.                                                         *)
THEOREM OutboxInductive == OutboxSpec => []OutboxInv
BY OutboxInvInit, OutboxInvStep, PTL DEF OutboxSpec

(* At least once: a row is only marked published when the broker took its       *)
(* event (publish_outbox_batch), for any number of rows and publishers and      *)
(* whatever leases lapse, sends fail and publishers die.                       *)
THEOREM OutboxAtLeastOnce == OutboxSpec => []PublishedWasSent
<1>1. OutboxInv => PublishedWasSent
  BY DEF OutboxInv
<1>. QED  BY <1>1, OutboxInductive, PTL

\* The rows a publisher at work was given are still its own.
BatchIsLeased ==
  \A p \in Publishers : pub[p].pc \in {"leased", "sending"} /\ pub[p].batch # {} =>
    /\ pub[p].hand \subseteq pub[p].batch
    /\ \A e \in pub[p].batch : row[e].status = "publishing" /\ row[e].by = p /\ ~row[e].lapsed

\* The rows that a transaction in progress has locked are due, and locked by it alone.
LockedAreDue ==
  /\ \A p \in Publishers : pub[p].pc = "locking" =>
       /\ pub[p].hand = {}
       /\ \A e \in pub[p].batch : row[e].status = "pending" \/ (row[e].status = "publishing" /\ row[e].lapsed)
  /\ \A p, q \in Publishers :
       pub[p].pc = "locking" /\ pub[q].pc = "locking" /\ pub[p].batch \cap pub[q].batch # {} => p = q

\* A publisher that was given rows sends these only.
SendsItsBatch ==
  \A p \in Publishers : \A e \in pub[p].hand \ pub'[p].hand :
    pub'[p].pc = "sending" /\ pub[p].batch # {} => row[e].by = p

\* A row under the lease of a publisher at work is nobody else's to change.
Stands(e, p) ==
  row[e].status = "publishing" /\ row[e].by = p /\ ~row[e].lapsed
    => row'[e].status = "publishing" /\ row'[e].by = p /\ ~row'[e].lapsed

\* A publisher that stays where it is, or goes on with its batch, keeps it.
LEMMA BatchKept ==
  ASSUME OutboxTypeOK, BatchIsLeased, NEW p \in Publishers,
         pub[p].pc \in {"leased", "sending"}, pub'[p].batch = pub[p].batch,
         pub'[p].hand \subseteq pub[p].hand, \A e \in Rows : Stands(e, p)
  PROVE  pub'[p].batch # {} =>
           /\ pub'[p].hand \subseteq pub'[p].batch
           /\ \A e \in pub'[p].batch :
                row'[e].status = "publishing" /\ row'[e].by = p /\ ~row'[e].lapsed
<1>1. pub[p].batch \subseteq Rows
  BY DEF OutboxTypeOK
<1>. QED  BY <1>1 DEF BatchIsLeased, Stands

LEMMA LocksStayDue ==
  ASSUME OutboxTypeOK, LockedAreDue, [OutboxNext]_ovars
  PROVE  LockedAreDue'
<1>. DEFINE IsDue(e) == row[e].status = "pending" \/ (row[e].status = "publishing" /\ row[e].lapsed)
<1>1. \A q \in Publishers : pub[q].batch \subseteq Rows /\ pub[q].good \subseteq Rows /\ pub[q].bad \subseteq Rows
  BY DEF OutboxTypeOK
<1>2. /\ \A q \in Publishers : pub'[q].pc = "locking" =>
           pub'[q].hand = {} /\ \A e \in pub'[q].batch : IsDue(e)'
      /\ \A p, q \in Publishers :
           pub'[p].pc = "locking" /\ pub'[q].pc = "locking" /\ pub'[p].batch \cap pub'[q].batch # {}
             => p = q
      => LockedAreDue'
  BY DEF LockedAreDue
<1>3. ASSUME \A q \in Publishers : pub'[q].pc = "locking" => pub'[q] = pub[q],
             \A e \in Locked' : IsDue(e) => IsDue(e)'
      PROVE  LockedAreDue'
  <2>1. \A q \in Publishers : pub'[q].pc = "locking" => pub'[q].batch \subseteq Locked'
    BY DEF Locked
  <2>. QED  BY <1>2, <1>3, <2>1 DEF LockedAreDue
<1>4. ASSUME NEW p \in Publishers, LockRows(p)
      PROVE  LockedAreDue'
  <2>1. PICK batch \in SUBSET (Due \ Locked) :
          pub' = [pub EXCEPT ![p] = [Resting EXCEPT !.pc = "locking", !.batch = batch]]
    BY <1>4 DEF LockRows
  <2>2. row' = row
    BY <1>4 DEF LockRows
  <2>3. /\ pub'[p].batch = batch /\ pub'[p].hand = {}
        /\ \A q \in Publishers \ {p} : pub'[q] = pub[q]
    BY <2>1 DEF OutboxTypeOK, Resting
  <2>4. \A e \in batch : IsDue(e)
    BY DEF Due, Reclaimed
  <2>5. \A q \in Publishers \ {p} : pub[q].pc = "locking" => pub[q].batch \cap batch = {}
    BY DEF Locked
  <2>. QED  BY <1>2, <2>2, <2>3, <2>4, <2>5 DEF LockedAreDue
<1>5. ASSUME NEW p \in Publishers, LeaseRows(p)
      PROVE  LockedAreDue'
  <2>1. /\ pub'[p].pc = "leased" /\ \A q \in Publishers \ {p} : pub'[q] = pub[q]
        /\ pub[p].pc = "locking"
    BY <1>5 DEF LeaseRows, OutboxTypeOK
  <2>2. ASSUME NEW q \in Publishers, pub'[q].pc = "locking", NEW e \in pub[q].batch
        PROVE  e \in Rows /\ e \notin pub[p].batch
    BY <1>1, <2>1, <2>2 DEF LockedAreDue
  <2>3. \A q \in Publishers : pub'[q].pc = "locking" => \A e \in pub[q].batch : IsDue(e) => IsDue(e)'
    BY <1>5, <2>2 DEF LeaseRows, Reclaimed, Pending
  <2>. QED  BY <1>2, <2>1, <2>3 DEF LockedAreDue
<1>6. ASSUME NEW p \in Publishers,
             ReadBack(p) \/ SendGood(p) \/ SendBad(p) \/ MarkPublished(p) \/ ReleaseFailed(p) \/ PublisherDies(p)
      PROVE  LockedAreDue'
  <2>1. pub'[p].pc # "locking" /\ \A q \in Publishers \ {p} : pub'[q] = pub[q]
    <3>1. CASE ReleaseFailed(p) \/ PublisherDies(p)
      BY <3>1 DEF ReleaseFailed, PublisherDies, OutboxTypeOK, Resting
    <3>5. CASE ReadBack(p)
      <4>1. \E hand : pub' = [pub EXCEPT ![p] = IF hand = {} THEN Resting
                                   ELSE [pub[p] EXCEPT !.pc = "sending", !.hand = hand]]
        BY <3>5 DEF ReadBack
      <4>. QED  BY <4>1 DEF OutboxTypeOK, Resting
    <3>2. CASE SendGood(p)
      BY <3>2 DEF SendGood, OutboxTypeOK
    <3>3. CASE SendBad(p)
      BY <3>3 DEF SendBad, OutboxTypeOK
    <3>4. CASE MarkPublished(p)
      BY <3>4 DEF MarkPublished, OutboxTypeOK
    <3>. QED  BY <1>6, <3>1, <3>2, <3>3, <3>4, <3>5
  <2>2. \A q \in Publishers : pub'[q].pc = "locking" => pub'[q] = pub[q]
    BY <2>1
  <2>3. ASSUME NEW e \in Locked'
        PROVE  e \in Rows /\ row'[e] = row[e]
    <3>1. e \in Locked /\ e \in Rows
      BY <1>1, <2>2, <2>3 DEF Locked
    <3>. QED  BY <1>6, <3>1 DEF ReadBack, SendGood, SendBad, MarkPublished, ReleaseFailed, PublisherDies,
                   OutboxTypeOK
  <2>. QED  BY <1>3, <2>2, <2>3
<1>7. ASSUME NEW f \in Rows, LeaseLapses(f) \/ RetryIsDue(f)
      PROVE  LockedAreDue'
  <2>1. pub' = pub /\ \A e \in Locked' : e \in Rows
    BY <1>1, <1>7 DEF LeaseLapses, RetryIsDue, Locked
  <2>2. \A e \in Rows : IsDue(e) => IsDue(e)'
    BY <1>7 DEF LeaseLapses, RetryIsDue, OutboxTypeOK
  <2>. QED  BY <1>3, <2>1, <2>2
<1>8. CASE UNCHANGED ovars
  BY <1>3, <1>8 DEF ovars
<1>. QED  BY <1>4, <1>5, <1>6, <1>7, <1>8 DEF OutboxNext, Publish

LEMMA BatchStaysLeased ==
  ASSUME PatientLeases, OutboxTypeOK, LockedAreDue, BatchIsLeased, [OutboxNext]_ovars
  PROVE  BatchIsLeased'
<1>1. SUFFICES ASSUME NEW p \in Publishers, pub'[p].pc \in {"leased", "sending"}
               PROVE  pub'[p].batch # {} =>
                        /\ pub'[p].hand \subseteq pub'[p].batch
                        /\ \A e \in pub'[p].batch :
                             row'[e].status = "publishing" /\ row'[e].by = p /\ ~row'[e].lapsed
  BY DEF BatchIsLeased
<1>2. \A q \in Publishers : q # Nobody /\ pub[q].batch \subseteq Rows
  BY DEF OutboxTypeOK
<1>3. ASSUME NEW q \in Publishers, LeaseRows(q)
      PROVE  \/ q = p /\ pub'[p].hand = {} /\ \A e \in pub'[p].batch :
                   row'[e].status = "publishing" /\ row'[e].by = p /\ ~row'[e].lapsed
             \/ pub'[p] = pub[p] /\ \A e \in Rows : Stands(e, p)
  <2>1. /\ row' = [e \in Rows |-> IF e \in pub[q].batch
                                  THEN [Pending EXCEPT !.status = "publishing", !.by = q]
                                  ELSE Reclaimed[e]]
        /\ pub' = [pub EXCEPT ![q] = [pub[q] EXCEPT !.pc = "leased"]] /\ pub[q].pc = "locking"
    BY <1>3 DEF LeaseRows
  <2>2. CASE q = p
    BY <1>2, <2>1, <2>2 DEF OutboxTypeOK, LockedAreDue, Pending
  <2>3. CASE q # p
    <3>1. pub'[p] = pub[p]
      BY <2>1, <2>3 DEF OutboxTypeOK
    <3>2. ASSUME NEW e \in Rows, row[e].status = "publishing", row[e].by = p, ~row[e].lapsed
          PROVE  row'[e] = row[e]
      <4>1. Reclaimed[e] = row[e] /\ e \notin pub[q].batch
        BY <2>1, <3>2 DEF Reclaimed, LockedAreDue
      <4>. QED  BY <2>1, <4>1
    <3>. QED  BY <3>1, <3>2 DEF Stands
  <2>. QED  BY <2>2, <2>3
<1>4. ASSUME NEW q \in Publishers, ReadBack(q)
      PROVE  \/ q = p /\ pub'[p].batch = pub[p].batch /\ pub[p].pc = "leased"
                /\ (pub[p].batch # {} => pub'[p].hand \subseteq pub[p].batch)
             \/ pub'[p] = pub[p]
  BY <1>1, <1>4 DEF ReadBack, OutboxTypeOK, Resting
<1>5. ASSUME NEW q \in Publishers, SendGood(q) \/ SendBad(q)
      PROVE  /\ pub[p].pc \in {"leased", "sending"} /\ pub'[p].batch = pub[p].batch
             /\ pub'[p].hand \subseteq pub[p].hand
  BY <1>1, <1>5 DEF SendGood, SendBad, OutboxTypeOK
<1>6. ASSUME NEW q \in Publishers, MarkPublished(q) \/ ReleaseFailed(q) \/ PublisherDies(q)
      PROVE  q # p /\ pub'[p] = pub[p] /\ \A e \in Rows : Stands(e, p)
  <2>1. q # p /\ pub'[p] = pub[p]
    BY <1>1, <1>6 DEF MarkPublished, ReleaseFailed, PublisherDies, OutboxTypeOK, Resting
  <2>. QED  BY <1>6, <2>1 DEF MarkPublished, ReleaseFailed, PublisherDies, Stands
\* A lease lapses only when its publisher is at rest.
<1>7. ASSUME NEW e \in Rows, LeaseLapses(e) \/ RetryIsDue(e)
      PROVE  pub' = pub /\ \A f \in Rows : Stands(f, p)
  <2>1. pub' = pub
    BY <1>7 DEF LeaseLapses, RetryIsDue
  <2>2. \A f \in Rows : row'[f].status = row[f].status /\ row'[f].by = row[f].by
                        /\ (f # e => row'[f] = row[f])
    BY <1>7 DEF LeaseLapses, RetryIsDue, OutboxTypeOK
  <2>3. row[e].by = p => row'[e].lapsed = row[e].lapsed
    BY <1>1, <1>7, <2>1 DEF LeaseLapses, RetryIsDue, AtWorkOn, OutboxTypeOK
  <2>. QED  BY <2>1, <2>2, <2>3 DEF Stands
<1>8. CASE \E q \in Publishers : LeaseRows(q)
  BY <1>1, <1>3, <1>8, BatchKept
<1>9. CASE \E q \in Publishers : ReadBack(q)
  <2>1. \A e \in Rows : row'[e] = row[e]
    BY <1>9 DEF ReadBack
  <2>2. /\ pub[p].pc \in {"leased", "sending"} /\ pub'[p].batch = pub[p].batch
        /\ pub[p].batch # {} => pub'[p].hand \subseteq pub[p].batch
    BY <1>1, <1>4, <1>9 DEF BatchIsLeased
  <2>3. ASSUME pub[p].batch # {}
        PROVE  \A e \in pub[p].batch : row[e].status = "publishing" /\ row[e].by = p /\ ~row[e].lapsed
    BY <2>2, <2>3 DEF BatchIsLeased
  <2>4. \A e \in pub[p].batch : row'[e] = row[e]
    BY <1>2, <2>1
  <2>. QED  BY <2>2, <2>3, <2>4
<1>10. CASE \E q \in Publishers : SendGood(q) \/ SendBad(q)
  <2>1. \A e \in Rows : Stands(e, p)
    BY <1>10 DEF SendGood, SendBad, Stands
  <2>. QED  BY <1>5, <1>10, <2>1, BatchKept
<1>11. CASE \E q \in Publishers : MarkPublished(q) \/ ReleaseFailed(q) \/ PublisherDies(q)
  BY <1>1, <1>6, <1>11, BatchKept
<1>12. CASE \E e \in Rows : LeaseLapses(e) \/ RetryIsDue(e)
  BY <1>1, <1>7, <1>12, BatchKept
<1>13. CASE UNCHANGED ovars
  BY <1>1, <1>13, BatchKept DEF ovars, Stands
<1>14. CASE \E q \in Publishers : LockRows(q)
  <2>1. pub'[p] = pub[p] /\ row' = row
    BY <1>1, <1>14 DEF LockRows, OutboxTypeOK, Resting
  <2>. QED  BY <1>1, <2>1, BatchKept DEF Stands
<1>. QED  BY <1>14, <1>8, <1>9, <1>10, <1>11, <1>12, <1>13 DEF OutboxNext, Publish

(* "Lease, publish and acknowledge" (outbox.py): as long as the leases of       *)
(* publishers at work last, a publisher that was given rows sends only rows it   *)
(* has on lease.  What outbox_leased finds takes a lease that came back empty.  *)
THEOREM OutboxSendsItsBatch ==
  ASSUME PatientLeases
  PROVE  OutboxSpec => [][SendsItsBatch]_ovars
<1>1. OutboxInit => LockedAreDue /\ BatchIsLeased
  BY DEF OutboxInit, LockedAreDue, BatchIsLeased, Resting
<1>2. OutboxInv /\ LockedAreDue /\ BatchIsLeased /\ [OutboxNext]_ovars => LockedAreDue' /\ BatchIsLeased'
  BY LocksStayDue, BatchStaysLeased DEF OutboxInv
<1>3. OutboxInv /\ BatchIsLeased /\ [OutboxNext]_ovars => [SendsItsBatch]_ovars
  <2>1. SUFFICES ASSUME OutboxInv, BatchIsLeased, OutboxNext, NEW p \in Publishers,
                        NEW e \in pub[p].hand \ pub'[p].hand, pub'[p].pc = "sending",
                        pub[p].batch # {}
                 PROVE  row[e].by = p
    BY DEF SendsItsBatch
  <2>2. pub'[p] # pub[p]
    BY <2>1
  <2>3. ASSUME NEW q \in Publishers, Publish(q) \/ PublisherDies(q)
        PROVE  pub[p].pc \in {"leased", "sending"}
    <3>0. DOMAIN pub = Publishers
      BY <2>1 DEF OutboxInv, OutboxTypeOK
    <3>1. q = p
      <4>1. \E new : pub' = [pub EXCEPT ![q] = new]
        BY <2>3 DEF Publish, LockRows, LeaseRows, ReadBack, SendGood, SendBad, MarkPublished,
                    ReleaseFailed, PublisherDies
      <4>. QED  BY <2>2, <3>0, <4>1
    <3>2. CASE LockRows(p) \/ LeaseRows(p) \/ MarkPublished(p) \/ ReleaseFailed(p) \/ PublisherDies(p)
      <4>1. pub'[p].pc \in {"locking", "leased", "marked", "idle"}
        <5>0. CASE LockRows(p)
          BY <3>0, <5>0 DEF LockRows, Resting
        <5>1. CASE LeaseRows(p)
          BY <3>0, <5>1 DEF LeaseRows
        <5>2. CASE MarkPublished(p)
          BY <3>0, <5>2 DEF MarkPublished
        <5>3. CASE ReleaseFailed(p) \/ PublisherDies(p)
          BY <3>0, <5>3 DEF ReleaseFailed, PublisherDies, Resting
        <5>. QED  BY <3>2, <5>0, <5>1, <5>2, <5>3
      <4>. QED  BY <2>1, <4>1
    <3>3. CASE ReadBack(p) \/ SendGood(p) \/ SendBad(p)
      BY <3>3 DEF ReadBack, SendGood, SendBad
    <3>. QED  BY <2>3, <3>1, <3>2, <3>3 DEF Publish
  <2>4. pub[p].pc \in {"leased", "sending"}
    <3>1. ~\E e1 \in Rows : LeaseLapses(e1) \/ RetryIsDue(e1)
      BY <2>2 DEF LeaseLapses, RetryIsDue
    <3>2. PICK q \in Publishers : Publish(q) \/ PublisherDies(q)
      BY <2>1, <3>1 DEF OutboxNext
    <3>. QED  BY <2>3, <3>2
  <2>. QED  BY <2>1, <2>4 DEF BatchIsLeased
<1>. QED  BY <1>1, <1>2, <1>3, OutboxInductive, PTL DEF OutboxSpec

-----------------------------------------------------------------------------
(* The file store.                                                          *)

USE JournalAssumption

\* Event ids are given once; an operation in progress is somebody's.
OpOK ==
  /\ op \in [pc : {"none", "recover", "snapshot", "append", "unlink"},
             todo : {"none", "load", "save", "commit", "append", "done"},
             by : Writers \cup {"nobody"}, event : Nat]
  /\ op.pc # "none" => op.by \in Writers
  /\ op.todo = "append" => op.pc = "append" /\ op.event \in 1..events
  /\ op.todo = "commit" =>
       /\ op.event \in 1..events /\ op.event \notin lines \cup lost
       /\ record.event < op.event

\* The record is never behind the snapshot, and its event has an id.
RecordOK == record # NoRecord => record.event \in 1..events /\ snap <= record.version

\* How far the record has been applied.
Applied ==
  /\ op.pc = "snapshot" => record # NoRecord
  /\ op.pc \in {"append", "unlink"} /\ op.todo # "append" =>
       record # NoRecord /\ snap = record.version
  /\ op.pc = "unlink" => op.todo # "append" /\ record.event \in lines \cup lost

JInv == JournalTypeOK /\ lines \subseteq 1..events /\ OpOK /\ RecordOK /\ Applied

LEMMA JInvInit == JournalInit => JInv
BY DEF JournalInit, JInv, JournalTypeOK, OpOK, RecordOK, Applied, NoOp, NoRecord, Clean, Piece

\* What a step may do to the store that a reader sees.
Seen == <<Version, Journal \cup lost, seen>>

LEMMA StartKeeps ==
  ASSUME JInv, NEW w \in Writers, NEW todo \in {"load", "save", "commit"},
         StartOp(w, todo) \/ StartAppend(w)
  PROVE  JInv' /\ UNCHANGED Seen
<1>1. /\ events \in Nat /\ events' \in {events, events + 1} /\ events' \in 0..MaxEvents
      /\ UNCHANGED <<snap, lines, tail, record, seen, lost>>
  BY DEF StartOp, StartAppend, JInv, JournalTypeOK
<1>2. 1..events \subseteq 1..events' /\ events + 1 \notin lines \cup lost
  BY <1>1 DEF JInv, JournalTypeOK
<1>3. record.event \in 0..events
  BY <1>1 DEF JInv, JournalTypeOK, RecordOK, NoRecord
<1>4. \/ /\ op' = [pc |-> "recover", todo |-> todo, by |-> w, event |-> events + 1]
         /\ todo = "commit" => events' = events + 1
      \/ /\ op' = [pc |-> "append", todo |-> "append", by |-> w, event |-> events + 1]
         /\ events' = events + 1
  BY DEF StartOp, StartAppend
<1>5. JournalTypeOK' /\ lines' \subseteq 1..events'
  BY <1>1, <1>2, <1>4 DEF JInv, JournalTypeOK
<1>6. OpOK'
  BY <1>1, <1>2, <1>3, <1>4 DEF OpOK
<1>7. RecordOK' /\ Applied'
  BY <1>1, <1>2, <1>4 DEF JInv, RecordOK, Applied
<1>. QED  BY <1>1, <1>5, <1>6, <1>7 DEF JInv, Seen, Version, Journal

LEMMA ReplayKeeps ==
  ASSUME JInv, ReplayRecord
  PROVE  JInv' /\ UNCHANGED Seen
<1>1. op' = [op EXCEPT !.pc = "snapshot"] /\ op.pc = "recover" /\ record # NoRecord
      /\ UNCHANGED <<snap, lines, tail, record, seen, events, lost>>
  BY DEF ReplayRecord, Goto
<1>2. JournalTypeOK' /\ OpOK'
  BY <1>1 DEF JInv, JournalTypeOK, OpOK
<1>3. RecordOK' /\ Applied'
  BY <1>1 DEF JInv, OpOK, RecordOK, Applied
<1>. QED  BY <1>1, <1>2, <1>3 DEF JInv, Seen, Version, Journal

LEMMA DieKeeps ==
  ASSUME JInv, Die \/ ConflictingCommit
  PROVE  JInv' /\ UNCHANGED Seen
<1>1. op' = NoOp /\ UNCHANGED <<snap, lines, tail, record, seen, events, lost>>
  BY DEF Die, ConflictingCommit
<1>2. JournalTypeOK' /\ OpOK'
  BY <1>1 DEF JInv, JournalTypeOK, OpOK, NoOp
<1>3. RecordOK' /\ Applied'
  BY <1>1 DEF JInv, RecordOK, Applied, NoOp
<1>. QED  BY <1>1, <1>2, <1>3 DEF JInv, Seen, Version, Journal

LEMMA LoadLearns ==
  ASSUME JInv, FinishLoad
  PROVE  JInv' /\ Atomic!AtomicNext
<1>1. op.by \in Writers
  BY DEF FinishLoad, JInv, OpOK
<1>2. JInv'
  BY <1>1 DEF FinishLoad, NoOp, JInv, JournalTypeOK, OpOK, RecordOK, Applied
<1>3. Atomic!Learn(op.by)
  BY DEF FinishLoad, Atomic!Learn, Version, Journal
<1>. QED  BY <1>1, <1>2, <1>3 DEF Atomic!AtomicNext

LEMMA SaveSaves ==
  ASSUME JInv, FinishSave
  PROVE  JInv' /\ Atomic!AtomicNext
<1>1. op.by \in Writers
  BY DEF FinishSave, JInv, OpOK
<1>2. JInv'
  BY <1>1 DEF FinishSave, NoOp, JInv, JournalTypeOK, OpOK, RecordOK, Applied
<1>3. Atomic!SaveOnly(op.by)
  BY DEF FinishSave, Atomic!SaveOnly, Version, Journal
<1>. QED  BY <1>1, <1>2, <1>3 DEF Atomic!AtomicNext

LEMMA RecordCommits ==
  ASSUME JInv, WriteRecord
  PROVE  JInv' /\ Atomic!AtomicNext
<1>1. op.by \in Writers /\ op.event \in 1..MaxEvents /\ snap \in 0..MaxVersion
  BY DEF WriteRecord, JInv, OpOK, JournalTypeOK
<1>2. record' = [version |-> snap + 1, event |-> op.event] /\ record' # NoRecord
  BY <1>1 DEF WriteRecord, NoRecord
<1>3. JInv'
  <2>1. JournalTypeOK'
    BY <1>1, <1>2 DEF WriteRecord, JInv, JournalTypeOK
  <2>2. OpOK' /\ lines' \subseteq 1..events'
    BY <1>2 DEF WriteRecord, JInv, OpOK
  <2>3. RecordOK' /\ Applied'
    BY <1>1, <1>2 DEF WriteRecord, JInv, OpOK, RecordOK, Applied
  <2>. QED  BY <2>1, <2>2, <2>3 DEF JInv
<1>4. Atomic!CommitBoth(op.by, op.event)
  BY <1>1, <1>2 DEF WriteRecord, Atomic!CommitBoth, Version, Journal, JInv, OpOK
<1>. QED  BY <1>1, <1>3, <1>4 DEF Atomic!AtomicNext

LEMMA SnapshotKeeps ==
  ASSUME JInv, WriteSnapshot
  PROVE  JInv' /\ UNCHANGED Seen
<1>1. record # NoRecord /\ record.version \in 0..MaxVersion /\ snap' = record.version
  BY DEF WriteSnapshot, JInv, JournalTypeOK, Applied, RecordOK
<1>. QED  BY <1>1 DEF WriteSnapshot, Goto, JInv, JournalTypeOK, OpOK, RecordOK, Applied, Seen, Version, Journal

LEMMA LineType ==
  ASSUME JInv, op.pc = "append"
  PROVE  /\ Line \in 1..events /\ Line \in 1..MaxEvents
         /\ op.todo # "append" => Line = record.event /\ record # NoRecord
         /\ op.todo = "commit" => Line # op.event
BY DEF JInv, OpOK, Applied, RecordOK, Line, JournalTypeOK

LEMMA GlueKeeps ==
  ASSUME JInv, NEW line \in {Piece} \cup (1..events), Glue(line), tail # Clean
  PROVE  /\ lines' \cup lost' = lines \cup lost \cup (IF line = Piece THEN {} ELSE {line})
         /\ lines' \subseteq lines /\ lost' \subseteq 1..events
         /\ tail \notin lines'
<1>1. tail = Piece \/ tail \in lines
  BY DEF JInv, JournalTypeOK
<1>2. Piece \notin 1..events /\ lines \subseteq 1..events /\ lost \subseteq 1..events /\ events \in Nat
  BY DEF Piece, JInv, JournalTypeOK
<1>. QED  BY <1>1, <1>2 DEF Glue

LEMMA AppendAppends ==
  ASSUME JInv, AppendLine
  PROVE  JInv' /\ (Atomic!AtomicNext \/ UNCHANGED Seen)
<1>0. op.pc = "append"
  BY DEF AppendLine
<1>1. /\ Line \in 1..events /\ Line \in 1..MaxEvents
      /\ op.todo # "append" => Line = record.event /\ record # NoRecord
      /\ op.todo = "commit" => Line # op.event
  BY <1>0, LineType
<1>2. /\ lines' \cup lost' = lines \cup lost \cup {Line}
      /\ lines' \subseteq 1..events /\ lost' \subseteq 1..events
      /\ tail' \in {Clean, Piece} \cup lines'
  <2>1. CASE Line \in lines
    BY <2>1 DEF AppendLine, JInv, JournalTypeOK
  <2>2. CASE Line \notin lines /\ tail = Clean
    BY <1>1, <2>2 DEF AppendLine, JInv, JournalTypeOK
  <2>3. CASE Line \notin lines /\ tail # Clean
    <3>1. Glue(Line) /\ tail' = Clean
      BY <2>3 DEF AppendLine
    <3>2. Line # Piece
      BY <1>1 DEF Piece
    <3>. QED  BY <1>1, <2>3, <3>1, <3>2, GlueKeeps DEF JInv
  <2>. QED  BY <2>1, <2>2, <2>3
<1>3. UNCHANGED <<snap, record, seen, events>> /\ lines \subseteq 1..events
      /\ op' = IF op.todo = "append" THEN NoOp ELSE [op EXCEPT !.pc = "unlink"]
  BY DEF AppendLine, JInv, Goto
<1>4. JInv'
  <2>1. JournalTypeOK'
    BY <1>2, <1>3 DEF JInv, JournalTypeOK, OpOK, NoOp
  <2>2. OpOK'
    BY <1>0, <1>1, <1>2, <1>3 DEF JInv, OpOK, NoOp
  <2>3. RecordOK' /\ Applied'
    BY <1>0, <1>1, <1>2, <1>3 DEF JInv, OpOK, RecordOK, Applied, NoOp
  <2>. QED  BY <1>2, <1>3, <2>1, <2>2, <2>3 DEF JInv
<1>5. Version' = Version /\ Journal' \cup lost' = Journal \cup lost \cup {Line}
  BY <1>2, <1>3 DEF Version, Journal
<1>6. CASE op.todo = "append"
  <2>1. Atomic!AppendOnly(Line)
    BY <1>3, <1>5 DEF Atomic!AppendOnly
  <2>. QED  BY <1>1, <1>4, <2>1 DEF Atomic!AtomicNext
<1>7. CASE op.todo # "append"
  <2>1. Line \in Journal
    BY <1>1, <1>7 DEF Journal
  <2>. QED  BY <1>3, <1>4, <1>5, <2>1 DEF Seen
<1>. QED  BY <1>6, <1>7

LEMMA UnlinkLearns ==
  ASSUME JInv, Unlink
  PROVE  JInv' /\ (Atomic!AtomicNext \/ UNCHANGED Seen)
<1>1. record # NoRecord /\ snap = record.version /\ record.event \in lines \cup lost
      /\ op.by \in Writers /\ record' = NoRecord
  BY DEF Unlink, JInv, Applied, OpOK
<1>2. Version' = Version /\ Journal' \cup lost' = Journal \cup lost /\ Version' = snap
  BY <1>1 DEF Unlink, Version, Journal
<1>3. JInv'
  <2>0. /\ op' = NoOp \/ op' = [op EXCEPT !.pc = "recover"]
        /\ seen' = seen \/ seen' = [seen EXCEPT ![op.by] = snap]
        /\ UNCHANGED <<snap, lines, tail, events, lost>>
    BY DEF Unlink, Goto
  <2>1. JournalTypeOK' /\ lines' \subseteq 1..events'
    BY <1>1, <2>0 DEF NoOp, NoRecord, JInv, JournalTypeOK, OpOK
  <2>2. OpOK'
    BY <1>1 DEF Unlink, Goto, NoOp, NoRecord, JInv, OpOK, Applied, JournalTypeOK
  <2>3. RecordOK' /\ Applied'
    BY <1>1 DEF Unlink, Goto, NoOp, JInv, OpOK, RecordOK, Applied
  <2>. QED  BY <2>1, <2>2, <2>3 DEF JInv
<1>4. CASE op.todo = "done"
  <2>1. Atomic!Learn(op.by)
    BY <1>2, <1>4 DEF Unlink, Atomic!Learn
  <2>. QED  BY <1>1, <1>3, <2>1 DEF Atomic!AtomicNext
<1>5. CASE op.todo # "done"
  BY <1>2, <1>3, <1>5 DEF Unlink, Seen
<1>. QED  BY <1>4, <1>5

LEMMA TearKeeps ==
  ASSUME JInv, DieTearing
  PROVE  JInv' /\ (Atomic!AtomicNext \/ UNCHANGED Seen)
<1>0. op.pc = "append"
  BY DEF DieTearing
<1>1. /\ Line \in 1..events /\ Line \in 1..MaxEvents
      /\ op.todo # "append" => Line = record.event /\ record # NoRecord
  BY <1>0, LineType
<1>2. UNCHANGED <<snap, record, seen, events>> /\ op' = NoOp /\ lines \subseteq 1..events
  BY DEF DieTearing, JInv
<1>3. /\ \/ lines' \cup lost' = lines \cup lost
         \/ lines' \cup lost' = lines \cup lost \cup {Line}
      /\ lines' \subseteq 1..events /\ lost' \subseteq 1..events
      /\ tail' \in {Clean, Piece} \cup lines'
  <2>1. CASE tail = Clean
    BY <1>1, <2>1 DEF DieTearing, JInv, JournalTypeOK, Clean
  <2>2. CASE tail # Clean
    <3>1. Glue(Piece) /\ tail' = Piece
      BY <2>2 DEF DieTearing
    <3>. QED  BY <1>2, <2>2, <3>1, GlueKeeps
  <2>. QED  BY <2>1, <2>2
<1>4. JInv'
  <2>1. JournalTypeOK'
    BY <1>2, <1>3 DEF JInv, JournalTypeOK, NoOp
  <2>. QED  BY <1>2, <1>3, <2>1 DEF JInv, OpOK, RecordOK, Applied, NoOp
<1>5. Version' = Version
      /\ (Journal' \cup lost' = Journal \cup lost \/ Journal' \cup lost' = Journal \cup lost \cup {Line})
  BY <1>2, <1>3 DEF Version, Journal
<1>6. CASE Journal' \cup lost' = Journal \cup lost
  BY <1>2, <1>4, <1>5, <1>6 DEF Seen
<1>7. CASE Journal' \cup lost' = Journal \cup lost \cup {Line}
  <2>1. Atomic!AppendOnly(Line)
    BY <1>2, <1>5, <1>7 DEF Atomic!AppendOnly
  <2>. QED  BY <1>1, <1>4, <2>1 DEF Atomic!AtomicNext
<1>. QED  BY <1>5, <1>6, <1>7

LEMMA JournalStep ==
  ASSUME JInv, [JournalNext]_jvars
  PROVE  JInv' /\ [Atomic!AtomicNext]_(Atomic!avars)
<1>1. CASE UNCHANGED jvars
  BY <1>1 DEF jvars, JInv, JournalTypeOK, OpOK, RecordOK, Applied, Atomic!avars, Version, Journal
<1>2. UNCHANGED Seen => UNCHANGED Atomic!avars
  BY DEF Seen, Atomic!avars
<1>3. CASE JournalNext
  BY <1>2, <1>3, StartKeeps, ReplayKeeps, DieKeeps, LoadLearns, SaveSaves, RecordCommits, SnapshotKeeps,
     AppendAppends, UnlinkLearns, TearKeeps DEF JournalNext
<1>. QED  BY <1>1, <1>3

(* A commit record never lags behind its snapshot and names an event with an   *)
(* id, and an operation is at unlink only when all of its record is applied    *)
(* (commit_session_event, _recover_commits).                                  *)
THEOREM JournalInductive == JournalSpec => []JInv
<1>1. JInv /\ [JournalNext]_jvars => JInv'
  BY JournalStep
<1>. QED  BY <1>1, JInvInit, PTL DEF JournalSpec

(* Snapshot and event move together wherever a process dies between the four   *)
(* writes of a commit, for any number of processes, events and versions         *)
(* (FileRuntimeStore.commit_session_event, _recover_commits).                   *)
THEOREM JournalImplementsAtomicStore == JournalSpec => ImplementsAtomicStore
<1>1. JournalInit => Atomic!AtomicInit
  BY DEF JournalInit, Atomic!AtomicInit, Version, Journal, NoRecord
<1>2. JInv /\ [JournalNext]_jvars => [Atomic!AtomicNext]_(Atomic!avars)
  BY JournalStep
<1>. QED  BY <1>1, <1>2, JournalInductive, PTL DEF JournalSpec, ImplementsAtomicStore, Atomic!AtomicSpec

-----------------------------------------------------------------------------
(* A session rebuilt from its journal.                                      *)

USE RebuildAssumption

LEMMA Greatest ==
  ASSUME NEW k \in Nat, NEW S \in SUBSET (0..k), S # {}
  PROVE  /\ Latest(S) \in S
         /\ \A m \in S : m <= Latest(S)
<1>. DEFINE T == {k - n : n \in S}
<1>1. T \in SUBSET Nat /\ T # {}
  <2>1. \A n \in S : n \in 0..k /\ k - n \in Nat
    OBVIOUS
  <2>2. T \subseteq Nat
    BY <2>1
  <2>3. T # {}
    BY S # {}
  <2>. QED  BY <2>2, <2>3
<1>2. PICK t \in T : \A u \in T : t <= u
  <2>. HIDE DEF T
  <2>. QED  BY <1>1, Least
<1>3. PICK n \in S : t = k - n
  BY <1>2
<1>4. \A m \in S : m <= n
  <2>1. SUFFICES ASSUME NEW m \in S PROVE m <= n
    OBVIOUS
  <2>2. k - m \in T
    OBVIOUS
  <2>3. m \in 0..k /\ n \in 0..k
    OBVIOUS
  <2>4. k - n <= k - m
    BY <1>2, <1>3, <2>2
  <2>. QED  BY <2>3, <2>4
<1>. QED  BY <1>4 DEF Latest

\* What has returned can be read back, and hangs on no line without its newline.
ReturnedIsWritten ==
  /\ returned \subseteq written /\ written \subseteq index /\ index \subseteq stored
  /\ ending \notin returned
  /\ kept.version <= made /\ \A h \in Holders : held[h] <= made

RebuildInv == RebuildTypeOK /\ ReturnedIsWritten /\ RebuildsWhatWasCommitted

LEMMA RebuildInvInit == RebuildInit => RebuildInv
BY DEF RebuildInit, RebuildInv, RebuildTypeOK, ReturnedIsWritten, RebuildsWhatWasCommitted, Missing,
       NotHeld, Newline

LEMMA WrittenKeeps ==
  ASSUME RebuildInv
  PROVE  returned \subseteq WrittenAfterEvent /\ WrittenAfterEvent \subseteq written
BY DEF WrittenAfterEvent, RebuildInv, ReturnedIsWritten

LEMMA ComeBack ==
  ASSUME RebuildInv, NEW S \in SUBSET stored', ComesBackWith(S),
         made' \in {made, made + 1}, made' \in 0..MaxStates,
         stored \subseteq stored', stored' \subseteq 1..made',
         ending' \in {Newline, Torn} \cup S, returned \subseteq S, ending' \notin returned
  PROVE  RebuildInv'
<1>1. S \subseteq 1..made'
  OBVIOUS
<1>2. RebuildTypeOK'
  BY <1>1 DEF ComesBackWith, RebuildInv, RebuildTypeOK, Missing, NotHeld
<1>3. ReturnedIsWritten'
  BY DEF ComesBackWith, RebuildInv, RebuildTypeOK, ReturnedIsWritten, Missing, NotHeld
<1>. QED  BY <1>2, <1>3 DEF RebuildInv, ComesBackWith, RebuildsWhatWasCommitted, Missing

LEMMA RebuildInvStep ==
  ASSUME RebuildInv, [RebuildNext]_rvars
  PROVE  RebuildInv'
<1>. USE DEF RebuildInv
<1>0. /\ returned \subseteq WrittenAfterEvent /\ WrittenAfterEvent \subseteq written
      /\ made \in Nat /\ 0 \notin returned /\ -1 \notin returned
  BY WrittenKeeps DEF RebuildTypeOK
<1>1. ASSUME NEW h \in Holders, Load(h)
      PROVE  RebuildInv'
  <2>1. RebuildTypeOK'
    BY <1>1 DEF Load, RebuildTypeOK
  <2>2. ReturnedIsWritten'
    BY <1>1 DEF Load, RebuildTypeOK, ReturnedIsWritten
  <2>. QED  BY <1>1, <2>1, <2>2 DEF Load, RebuildsWhatWasCommitted
<1>2. ASSUME NEW h \in Holders, Rebuild(h)
      PROVE  RebuildInv'
  <2>1. index \in SUBSET (0..made) /\ index # {}
    BY <1>2 DEF Rebuild, RebuildTypeOK
  <2>2. Latest(index) \in index /\ \A m \in index : m <= Latest(index)
    BY <1>0, <2>1, Greatest
  <2>3. RebuildTypeOK'
    <3>1. Latest(index) \in 0..MaxStates
      <4>1. Latest(index) \in index
        BY <2>2
      <4>2. index \subseteq 1..made /\ made \in 0..MaxStates
        BY DEF RebuildTypeOK
      <4>3. index \subseteq 0..MaxStates
        BY <4>2
      <4>. QED  BY <4>1, <4>3
    <3>. QED  BY <1>2, <3>1 DEF Rebuild, RebuildTypeOK
  <2>4. ReturnedIsWritten'
    BY <1>0, <1>2 DEF Rebuild, RebuildTypeOK, ReturnedIsWritten
  <2>5. RebuildsWhatWasCommitted'
    BY <1>2, <2>2 DEF Rebuild, ReturnedIsWritten, RebuildsWhatWasCommitted
  <2>. QED  BY <2>3, <2>4, <2>5
<1>3. ASSUME NEW h \in Holders, Commit(h)
      PROVE  RebuildInv'
  <2>1. kept.version \in 0..made
    BY <1>3 DEF Commit, RebuildTypeOK, ReturnedIsWritten, NotHeld
  <2>2. RebuildTypeOK'
    BY <1>0, <1>3, <2>1 DEF Commit, RebuildTypeOK
  <2>3. ReturnedIsWritten'
    <3>1. returned' \subseteq written' /\ written' \subseteq index' /\ index' \subseteq stored'
      BY <1>0, <1>3 DEF Commit, ReturnedIsWritten
    <3>2. ending' \notin returned'
      BY <1>0, <1>3 DEF Commit, Newline
    <3>. QED  BY <1>0, <1>3, <2>1, <3>1, <3>2 DEF Commit, RebuildTypeOK, ReturnedIsWritten
  <2>4. RebuildsWhatWasCommitted'
    BY <1>0, <1>3 DEF Commit, RebuildTypeOK, RebuildsWhatWasCommitted
  <2>. QED  BY <2>2, <2>3, <2>4
<1>4. ASSUME NEW h \in Holders, Refuse(h)
      PROVE  RebuildInv'
  <2>1. RebuildTypeOK'
    BY <1>0, <1>4 DEF Refuse, RebuildTypeOK, NotHeld
  <2>2. ReturnedIsWritten'
    BY <1>0, <1>4 DEF Refuse, RebuildTypeOK, ReturnedIsWritten, Newline, NotHeld
  <2>. QED  BY <1>4, <2>1, <2>2 DEF Refuse, RebuildsWhatWasCommitted
<1>5. CASE EmitEvent
  <2>1. RebuildTypeOK'
    BY <1>0, <1>5 DEF EmitEvent, RebuildTypeOK
  <2>2. ReturnedIsWritten'
    BY <1>0, <1>5 DEF EmitEvent, ReturnedIsWritten, Newline
  <2>. QED  BY <1>5, <2>1, <2>2 DEF EmitEvent, RebuildsWhatWasCommitted
<1>6. CASE ProcessDies
  <2>1. returned \subseteq written /\ written \subseteq stored /\ ending \notin returned
    BY DEF ReturnedIsWritten
  <2>. QED  BY <1>6, <2>1, ComeBack DEF ProcessDies, RebuildTypeOK
<1>7. CASE DieInEvent
  <2>1. WrittenAfterEvent \subseteq stored /\ Torn \notin returned
    BY <1>0 DEF ReturnedIsWritten, Torn
  <2>. QED  BY <1>0, <1>7, <2>1, ComeBack DEF DieInEvent, RebuildTypeOK
<1>8. ASSUME NEW h \in Holders, DieInCommit(h)
      PROVE  RebuildInv'
  <2>1. /\ made' = made + 1 /\ made' \in 0..MaxStates
        /\ stored' = stored \cup {made + 1} /\ stored' \subseteq 1..made'
        /\ made + 1 \notin returned
    BY <1>0, <1>8 DEF DieInCommit, RebuildTypeOK
  <2>2. WrittenAfterEvent \subseteq stored
    BY <1>0 DEF ReturnedIsWritten
  <2>3. CASE ending' \in {Newline, Torn} /\ ComesBackWith(WrittenAfterEvent)
    BY <1>0, <2>1, <2>2, <2>3, ComeBack DEF Newline, Torn
  <2>4. CASE ending' = made + 1 /\ ComesBackWith(WrittenAfterEvent \cup {made + 1})
    BY <1>0, <2>1, <2>2, <2>4, ComeBack
  <2>. QED  BY <1>8, <2>3, <2>4 DEF DieInCommit
<1>9. ASSUME NEW h \in Holders, SaveIteration(h)
      PROVE  RebuildInv'
  <2>1. kept.version \in 0..made
    BY <1>9 DEF SaveIteration, RebuildTypeOK, ReturnedIsWritten, NotHeld
  <2>2. RebuildTypeOK'
    BY <1>0, <1>9, <2>1 DEF SaveIteration, RebuildTypeOK
  <2>3. ReturnedIsWritten'
    BY <1>0, <1>9, <2>1 DEF SaveIteration, RebuildTypeOK, ReturnedIsWritten
  <2>4. RebuildsWhatWasCommitted'
    BY <1>0, <1>9 DEF SaveIteration, RebuildTypeOK, RebuildsWhatWasCommitted
  <2>. QED  BY <2>2, <2>3, <2>4
<1>10. ASSUME NEW h \in Holders, Reject(h)
       PROVE  RebuildInv'
  <2>1. kept.version \in 0..made
    BY <1>10 DEF Reject, RebuildTypeOK, ReturnedIsWritten, NotHeld
  <2>2. /\ WrittenAfterState(made + 1) \subseteq written \cup {made + 1}
        /\ returned' \subseteq WrittenAfterState(made + 1)
    BY <1>0, <1>10 DEF Reject, WrittenAfterState, ReturnedIsWritten
  <2>3. returned' \subseteq returned \cup {made + 1}
    BY <1>10 DEF Reject
  <2>4. RebuildTypeOK'
    <3>1. made + 1 \in 0..MaxStates /\ kept.version + 1 \in -1..MaxStates /\ made' = made + 1
      BY <1>0, <1>10, <2>1 DEF Reject, RebuildTypeOK
    <3>2. kept' \in [version : -1..MaxStates, state : 0..MaxStates]
      BY <1>10, <3>1 DEF Reject
    <3>3. held' \in [Holders -> -1..MaxStates]
      BY <1>10 DEF Reject, RebuildTypeOK, NotHeld
    <3>4. written' \subseteq 1..made' /\ index' \subseteq 1..made' /\ stored' \subseteq 1..made'
      <4>1. 1..made \cup {made + 1} \subseteq 1..made'
        BY <1>0, <3>1
      <4>2. written \subseteq 1..made /\ index \subseteq 1..made /\ stored \subseteq 1..made
        BY DEF RebuildTypeOK
      <4>3. written' = WrittenAfterState(made + 1)
        BY <1>10 DEF Reject
      <4>. QED  BY <1>10, <2>2, <4>1, <4>2, <4>3 DEF Reject
    <3>5. returned' \subseteq stored'
      BY <1>10, <2>3 DEF Reject, RebuildTypeOK
    <3>. QED  BY <1>10, <3>1, <3>2, <3>3, <3>4, <3>5 DEF Reject, RebuildTypeOK
  <2>5. ReturnedIsWritten'
    <3>1. returned' \subseteq written' /\ written' \subseteq index' /\ index' \subseteq stored'
      BY <1>10, <2>2 DEF Reject, ReturnedIsWritten
    <3>2. ending' \notin returned'
      BY <1>0, <1>10, <2>3 DEF Reject, Newline
    <3>. QED  BY <1>0, <1>10, <2>1, <3>1, <3>2 DEF Reject, RebuildTypeOK, ReturnedIsWritten, NotHeld
  <2>6. RebuildsWhatWasCommitted'
    BY <1>0, <1>10, <2>3 DEF Reject, RebuildTypeOK, RebuildsWhatWasCommitted
  <2>. QED  BY <2>4, <2>5, <2>6
<1>11. ASSUME NEW h \in Holders, RefuseSilently(h)
       PROVE  RebuildInv'
  BY <1>0, <1>11 DEF RefuseSilently, RebuildTypeOK, ReturnedIsWritten, RebuildsWhatWasCommitted, NotHeld
<1>12. ASSUME NEW h \in Holders, DieInReject(h)
       PROVE  RebuildInv'
  <2>1. /\ made' = made + 1 /\ made' \in 0..MaxStates
        /\ stored' = stored \cup {made + 1} /\ stored' \subseteq 1..made'
        /\ made + 1 \notin returned
    BY <1>0, <1>12 DEF DieInReject, RebuildTypeOK
  <2>2. WrittenAfterEvent \subseteq stored /\ written \subseteq stored
    BY <1>0 DEF ReturnedIsWritten
  <2>3. CASE ending' = ending /\ ComesBackWith(written)
    <3>1. returned \subseteq written /\ ending \notin returned /\ ending \in {Newline, Torn} \cup written
      BY DEF ReturnedIsWritten, RebuildTypeOK
    <3>. QED  BY <2>1, <2>2, <2>3, <3>1, ComeBack
  <2>4. CASE ending' = Torn /\ ComesBackWith(WrittenAfterEvent)
    BY <1>0, <2>1, <2>2, <2>4, ComeBack DEF Torn
  <2>5. CASE ending = Newline /\ ending' = made + 1 /\ ComesBackWith(WrittenAfterState(made + 1))
    <3>1. WrittenAfterState(made + 1) = written \cup {made + 1} /\ returned \subseteq written
      BY <2>5 DEF WrittenAfterState, ReturnedIsWritten
    <3>. QED  BY <2>1, <2>2, <2>5, <3>1, ComeBack
  <2>. QED  BY <1>12, <2>3, <2>4, <2>5 DEF DieInReject
<1>13. CASE UNCHANGED rvars
  BY <1>13 DEF rvars, RebuildTypeOK, ReturnedIsWritten, RebuildsWhatWasCommitted
<1>. QED  BY <1>1, <1>2, <1>3, <1>4, <1>5, <1>6, <1>7, <1>8, <1>9, <1>10, <1>11, <1>12, <1>13
     DEF RebuildNext

(* What was committed comes back: for any number of holders, states and deaths,   *)
(* wherever a line is torn or glued to the next, load_session of               *)
(* EventSourcedSessionStore returns a state the store accepted and none older    *)
(* than one whose commit returned, rejections and saved iterations between them    *)
(* included; it loses none of the rejections whose line is not glued.             *)
THEOREM RebuildKeepsCommits == RebuildSpec => []RebuildsWhatWasCommitted
<1>1. RebuildInv => RebuildsWhatWasCommitted
  BY DEF RebuildInv
<1>. QED  BY <1>1, RebuildInvInit, RebuildInvStep, PTL DEF RebuildSpec

=============================================================================
