\* Heartbeats late or missing; two runs under one worker id, one queue in memory.
CONSTANTS
  w1 = w1
  w2 = w2
  r1 = r1
  r2 = r2
  p1 = p1
  p2 = p2
  NoWorker = NoWorker
  NoKey = NoKey
  MaxItem = 2
  Workers = {w1, w2}
  Procs = {p1, p2}
  Home <- TwoProcesses
  Kinds = {"goal"}
  Accepts <- AcceptAll
  Handled <- HandleGoals
  Keys = {}
  Priorities = {0}
  Budgets = {2}
  MaxBudget = 2
  Delays = {0}
  TTL = 1
  MaxToken = 3
  Backend = "memory"
  Runs = {r1, r2}
  IdOf <- SharedId
  Drainable = {}
  WorkerTTL = 1
  Punctual = FALSE
SPECIFICATION LiveWorkerSpec
INVARIANTS
  WorkerTypeOK
PROPERTIES
  ReportsAreTrue
  LostStaysLost
  FencingIncreases
  EveryItemEnds
