SPECIFICATION Spec
CONSTANTS
  GeneratedNames <- ThreeEntries
  Foreigners <- TwoForeigners
  MaxFaults = 3
  MaxMeddling = 2
INVARIANTS TypeOK OldIsKept OnlyApprovedIsRemoved EndsWhole
CHECK_DEADLOCK FALSE
