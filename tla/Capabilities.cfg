SPECIFICATION Spec
CONSTANTS
  Callers = {c1, c2}
  Features <- MCFeatures
  Offered <- MCOffered
  MaxCalls = 3
INVARIANTS
  MeterSensorsInsideBlock
  KeptUnlessRefused
  NotAskedAgain
PROPERTIES
  ListedSensorsDelivered
SYMMETRY Symmetry
CHECK_DEADLOCK FALSE
