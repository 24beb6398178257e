\* Heartbeats in time; two workers over one durable queue.
CONSTANTS
  w1 = w1
  w2 = w2
  r1 = r1
  r2 = r2
  p1 = p1
  p2 = p2
  NoWorker = NoWorker
  NoKey = NoKey
  MaxItem = 1
  Workers = {w1, w2}
  Procs = {p1, p2}
  Home <- TwoProcesses
  Kinds = {"goal", "task"}
  Accepts <- AcceptAll
  Handled <- HandleGoals
  Keys = {}
  Priorities = {0}
  Budgets = {2}
  MaxBudget = 2
  Delays = {0}
  TTL = 2
  MaxToken = 3
  Backend = "sqlite"
  Runs = {r1, r2}
  IdOf <- OwnIds
  Drainable = {w1}
  WorkerTTL = 2
  Punctual = TRUE
SPECIFICATION WorkerSpec
INVARIANTS
  OneHandlerPerItem
