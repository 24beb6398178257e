\* Two sessions whose tools change one resource.
CONSTANTS
  s1 = s1
  s2 = s2
  a1 = a1
  a2 = a2
  res = res
  NoProposal = NoProposal
  NoSession = NoSession
  NoResource = NoResource
  Sessions = {s1, s2}
  Proposals = {a1}
  Resources = {res}
  ResourceOf <- Writes
  Ids = {1, 2, 3, 4}
  MaxIterations = 1
  MaxSteps = 1
  MaxTries = 0
  Threaded = FALSE
SPECIFICATION Spec
INVARIANTS
  OneToolPerResource

CONSTRAINT Contending
SYMMETRY Symmetric
