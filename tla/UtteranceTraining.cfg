SPECIFICATION Spec
CONSTANTS
  Phones = {"SIL", "+N", "A", "B", "C"}
  Fillers = {"SIL", "+N"}
  SIL = "SIL"
  One = 48
  Unit = 6144
  Setups <- Sessions
INVARIANTS
  TypeOK
  PathsKept
  EveryContextIsModelled
  BuildersAgree
  MassIsOne
  CountsAreExpectations
  OutcomeIsJustified
CHECK_DEADLOCK FALSE
