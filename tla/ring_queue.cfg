CONSTANTS
  e1 = e1
  e2 = e2
  e3 = e3
  MAX_SIZE = 4
  Elements <- MCElements
SPECIFICATION Spec
SYMMETRY Alike
INVARIANTS
  RingOK
PROPERTIES
  ImplementsFifo
  WalksVisitTheQueue
