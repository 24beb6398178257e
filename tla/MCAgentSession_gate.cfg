\* Two proposals that only read: which of them was approved.
CONSTANTS
  s1 = s1
  s2 = s2
  a1 = a1
  a2 = a2
  res = res
  NoProposal = NoProposal
  NoSession = NoSession
  NoResource = NoResource
  Sessions = {s1}
  Proposals = {a1, a2}
  Resources = {res}
  ResourceOf <- Reads
  Ids = {1, 2, 3, 4}
  MaxIterations = 2
  MaxSteps = 1
  MaxTries = 0
  Threaded = FALSE
SPECIFICATION Spec
PROPERTIES
  ConsentGate
CONSTRAINT Approving
