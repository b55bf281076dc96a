SPECIFICATION Spec
CONSTANTS
  a1 = a1
  a2 = a2
  s1 = s1
  None = None
  Apps <- OneApp
  Inspecting <- OneApp
  Deleting <- OneApp
  Sources <- OneSource
  Managed <- OneSource
  MaxShots = 3
  MaxFaults = 1
INVARIANTS
    HistoryInv
    OwnDescription
    ProcessingHasOwner
PROPERTIES
    FailureKeepsDescription
