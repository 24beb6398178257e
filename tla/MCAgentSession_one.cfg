\* One session, one side effect, every order of calls and failures.
CONSTANTS
  s1 = s1
  s2 = s2
  a1 = a1
  a2 = a2
  res = res
  NoProposal = NoProposal
  NoSession = NoSession
  NoResource = NoResource
  Sessions = {s1}
  Proposals = {a1}
  Resources = {res}
  ResourceOf <- Writes
  Ids = {1, 2, 3, 4}
  MaxIterations = 1
  MaxSteps = 2
  MaxTries = 1
  Threaded = TRUE
SPECIFICATION LiveSpec
INVARIANTS
  SessionTypeOK
PROPERTIES
  RunsOnce
  TerminalStaysPut
  RunEnds
