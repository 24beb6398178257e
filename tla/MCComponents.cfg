\* Each component at the smallest size at which its cases happen.
CONSTANTS
  s1 = s1
  s2 = s2
  w1 = w1
  w2 = w2
  w3 = w3
  b1 = b1
  b2 = b2
  LockKeys = {k1, k2}
  Owners = {o1, o2, o3}
  NoOwner = NoOwner
  LockTTL = 2
  MaxGrants = 5
  Writers = {x1, x2}
  MaxEvents = 3
  MaxVersion = 2
  Rows = {1, 2}
  Publishers = {p1, p2}
  Nobody = Nobody
  BatchLimit = 1
  MaxDeaths = 1
  PatientLeases = TRUE
  FeedSessions = {s1, s2}
  Everything = Everything
  Watchers = {w1, w2, w3}
  KindOf <- OneOfEachKind
  ScopeOf <- TheirScopes
  CatchUp = 1
  MaxFeed = 2
  MaxDrops = 1
  MaxSteps = 2
  MaxGraph = 4
  Coros = {1, 2, 3, 4}
  Limit = 2
  CancelOnError = TRUE
  Specs = {1, 2, 3, 4}
  Batches = {b1, b2}
  BatchOf <- TwoBatches
  Needs <- BothNeedTheFirst
  ParentOf <- ChildrenOfTheFirst
  MaxChildren <- ChildLimits
  Agents = {1, 2}
  Eligible <- SuitedInstances
  MaxDrains = 2
  Observed = {1, 2, 3, 4, 5, 6}
  Claims = {"kind", "ready"}
  Kind = "kind"
  Values = {"yes", "no", "maybe", "pod"}
  NoValue = "none"
  ClaimOf <- TheClaims
  ValueOf <- TheValues
  Confidence <- TheConfidence
  Cap = 3
  Requests = {q1, q2, q3}
  MaxBundles = 2
  MaxEdits = 3
  Holders = {h1, h2}
  MaxStates = 4
  MaxLosses = 3
SPECIFICATION PartsSpec
INVARIANTS
  PartsTypeOK
  PublishedWasSent
  InOrderOnceEach
  OneActiveTask
  DependenciesFirst
  AtMostLimit
  OneTaskPerInstance
  DependenciesCompleted
  ChildrenWithinLimit
  TrimKeepsMeaning
  EntityShowsItsClaims
  PatchTakesEffect
  SessionsKeepTheirBundle
  RebuildsWhatWasCommitted
PROPERTIES
  NoTheft
  TokensIncrease
  ImplementsAtomicStore
  EverythingIsPublished
  EveryEventArrives
  SettledTasksStay
  NoStartAfterAbort
  EverySpecAnswered
CHECK_DEADLOCK FALSE
