CONSTANTS
  c1 = c1
  c2 = c2
  i1 = i1
  i2 = i2
  r1 = r1
  r2 = r2
  r3 = r3
  p1 = p1
  p2 = p2
  None = None
  Callers <- TwoCallers
  Images <- TwoImages
  Ids <- ThreeIds
  Pids <- TwoPids
  MaxNoise = 1
SYMMETRY Symmetric
SPECIFICATION Spec
INVARIANTS
    SafetyInv
    AnswerMatchesRequest
PROPERTIES
    FailureLeavesNoProcess
