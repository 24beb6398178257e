\* One session, an action item and one of any other kind, two runs and a user.
CONSTANTS
  s1 = s1
  j1 = j1
  j2 = j2
  r1 = r1
  r2 = r2
  LockKeys = {s1}
  Owners <- Leases
  NoOwner = NoOwner
  LockTTL = 2
  MaxGrants = 3
  Jobs = {j1, j2}
  Kinds <- TwoItems
  SessionOf <- AllForOne
  Runs = {r1, r2}
  User = User
  Budget <- Attempts
  MaxActs = 1
  MaxTasks = 1
  PunctualLocks = TRUE
SPECIFICATION WorkSpec
INVARIANTS
  WorkTypeOK
  OneWorkerPerSession
  NoLockLeftBehind
PROPERTIES
  SettledOnce
VIEW UpToEnds
SYMMETRY Interchangeable
CHECK_DEADLOCK FALSE
