SPECIFICATION Spec
CONSTANTS
  Callers = {c1, c2}
  Families = {"ET", "ES arm 7", "ES v2"}
  Asked <- MCAsked
  Found <- MCFound
  Days <- MCDays
  Week = 62
  GroupWrites <- MCGroupWrites
  MaxCalls = 3
INVARIANTS
  NeverThirdMode
PROPERTIES
  SuccessfulChangeHolds
  AnswersAModeInForce
  DaysKept
SYMMETRY Symmetry
CHECK_DEADLOCK FALSE
