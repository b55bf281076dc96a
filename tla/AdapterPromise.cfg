CONSTANTS
  c1 = c1
  i1 = i1
  i2 = i2
  r1 = r1
  r2 = r2
  r3 = r3
  p1 = p1
  p2 = p2
  None = None
  Callers <- OneCaller
  Images <- TwoImages
  Ids <- ThreeIds
  Pids <- TwoPids
  MaxNoise = 0
  UsePersistent = TRUE
  FallbackToOneshot = TRUE
SPECIFICATION AdapterSpec
INVARIANTS
    AdapterInv
PROPERTIES
    KeepsPromise
    CloseLeavesNoProcess
