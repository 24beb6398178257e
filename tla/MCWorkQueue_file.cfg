\* FileWorkQueue: two processes, one worker in each, two items.
CONSTANTS
  w1 = w1
  w2 = w2
  p1 = p1
  p2 = p2
  NoWorker = NoWorker
  NoKey = NoKey
  MaxItem = 2
  Workers = {w1, w2}
  Procs = {p1, p2}
  Home <- TwoProcesses
  Kinds = {"goal"}
  Accepts <- AcceptAll
  Keys = {"k"}
  Priorities = {0}
  Budgets = {2}
  MaxBudget = 2
  Delays = {0, 1}
  TTL = 1
  MaxToken = 2
  Backend = "file"
SPECIFICATION QueueSpec
INVARIANTS
  OneItemPerKey
PROPERTIES
  ImplementsLifecycle
