SPECIFICATION Spec
CONSTANTS
  Phones = {"SIL", "+N", "A", "B", "C"}
  Fillers = {"SIL", "+N"}
  SIL = "SIL"
  One = 48
  Unit = 6144
  Setups <- PauseBypassed
INVARIANT CountedTransitionsAreInternal
CHECK_DEADLOCK FALSE
