SPECIFICATION Spec
CONSTANTS
  Callers = {c1, c2}
  Order <- MCOrder
  Restricted <- MCRestricted
  Variant <- MCVariant
  Groups <- MCGroups
  Slots <- MCSlots
  MaxCalls = 3
INVARIANTS
  SettingsKeptUnlessRefused
PROPERTIES
  ReadingFailsForCause
  FailureForgetsASetting
SYMMETRY Symmetry
CHECK_DEADLOCK FALSE
