SPECIFICATION Spec
CONSTANTS
  NIter = 2
  ParameterFiles <- Parameters2
  Mappings = {m1, m2}
  Updates = {u1, u2}
  Absent = Absent
  Torn = Torn
  MaxStages = 2
  MaxRestores = 1
  MaxFaults = 2
  MaxEdits = 1
SYMMETRY Symmetry
INVARIANTS TypeOK HealthyIsEarned MarkerMeansComplete RestoreIsAllOrNothing NothingIsLost MappingIsKept
CHECK_DEADLOCK FALSE
