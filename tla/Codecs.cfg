SPECIFICATION Spec
CONSTANTS
  Commands <- MCCommands
  Fill <- MCFill
  Payloads <- MCPayloads
  Aa55Types <- MCAa55Types
  Parts <- MCParts
  Registers <- MCRegisters
  Powers <- MCPowers
  Socs <- MCSocs
INVARIANTS
  AnswersToldApart
  RejectionsAreTheInverters
  PiecesAddUp
  Aa55FramesAgree
  NumbersReadBack
  TimeOfUseReadsBack
  WideValuesRead
  GroupsReadBack
  TablesAgree
CHECK_DEADLOCK FALSE
