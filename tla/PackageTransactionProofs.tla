------------------------ MODULE PackageTransactionProofs ------------------------
(***************************************************************************)
(* What TLAPS proves of the package transaction, for every list of entries *)
(* and any number of errors and of moves by other processes.               *)
(***************************************************************************)
EXTENDS PackageTransaction, Integers, TLAPS

LEMMA NamesShape ==
    /\ Len(Names) \in Nat /\ Len(Names) >= 1
    /\ \A k \in 1 .. Len(Names) : Names[k] \in Name
    /\ DOMAIN Names = 1 .. Len(Names)
  <1>1. CASE named
    BY <1>1 DEF Names, Name
  <1>2. CASE ~named
    <2>1. Len(GeneratedNames) \in Nat /\ Len(GeneratedNames) >= 1
      BY ConstantsAssumption
    <2>2. DOMAIN GeneratedNames = 1 .. Len(GeneratedNames)
      BY ConstantsAssumption
    <2> QED
      BY <1>2, <2>1, <2>2 DEF Names, Name
  <1> QED
    BY <1>1, <1>2

LEMMA ObjectShape ==
    /\ \A n \in Name : /\ Old(n) \in Ours /\ New(n) \in Ours /\ New(n)[1] = "new"
                       /\ New(n) # NoObject
    /\ Ours \subseteq Object /\ NoObject \notin Object
  BY ForeignersAssumption DEF Old, New, Ours, Object, NoObject

\* Where an object is can be told by the first half of its place.
LEMMA PlaceShape ==
    /\ Gone[1] = "gone" /\ Nowhere[1] = "nowhere" /\ Elsewhere[1] = "elsewhere"
    /\ \A S \in SUBSET STRING : \A l \in S \X Name : l[1] \in S
    /\ Place = (Area \X Name) \cup {Nowhere, Gone, Elsewhere}
  BY DEF Gone, Nowhere, Elsewhere, Place, Location

LEMMA InitSafe == Init => Safe
  <1> SUFFICES ASSUME Init PROVE Safe
    OBVIOUS
  <1> USE NamesShape, ObjectShape
  <1>1. PICK present \in SUBSET {Names[k] : k \in DOMAIN Names} :
          place = [o \in Object |->
            CASE \E n \in present : o = Old(n) -> <<"public", o[2]>>
              [] \E k \in DOMAIN Names : o = New(Names[k]) -> <<"staging", o[2]>>
              [] OTHER -> Nowhere]
    BY DEF Init
  <1>2. present \subseteq Name
    BY <1>1
  <1>3. ASSUME NEW o \in Object
        PROVE  \/ (\E n \in Name : o = Old(n)) /\ place[o] \in {"public"} \X Name
               \/ (\E n \in Name : o = New(n)) /\ place[o] \in {"staging"} \X Name
               \/ place[o] = Nowhere
    BY <1>1, <1>2 DEF Old, New
  <1>4. place \in [Object -> Place]
    BY <1>1, <1>3 DEF Place, Location, Area
  <1>5. TypeOK
    <2>1. ControlOK
      <3>1. phase \in Phase /\ position \in 1 .. Len(Names) /\ moving = "none"
        BY DEF Init, Phase, Before
      <3>2. named \in BOOLEAN /\ raised \in BOOLEAN
        BY DEF Init
      <3> QED
        BY <3>1, <3>2 DEF ControlOK
    <2>2. PlacesOK
      BY <1>4 DEF Init, PlacesOK
    <2>3. EntriesOK
      BY DEF Init, EntriesOK
    <2>4. ResultOK
      <3>1. outcome = "none" /\ faults \in 0 .. MaxFaults
            /\ meddling \in 0 .. MaxMeddling
        BY ConstantsAssumption DEF Init
      <3>2. backup \in BOOLEAN /\ refused \in BOOLEAN /\ committed \in BOOLEAN
        BY DEF Init
      <3> QED
        BY <3>1, <3>2 DEF ResultOK
    <2> QED
      BY <2>1, <2>2, <2>3, <2>4 DEF TypeOK
  <1>6. \A o \in Object : place[o] # Gone /\ o \notin InRecovery
    <2> SUFFICES ASSUME NEW o \in Object PROVE place[o] # Gone /\ o \notin InRecovery
      OBVIOUS
    <2>1. place[o][1] \in {"public", "staging", "nowhere"}
      BY <1>3, PlaceShape
    <2>2. place[o] \notin {"backup", "quarantine"} \X Name
      BY <2>1, PlaceShape
    <2> QED
      BY <2>1, <2>2, PlaceShape DEF InRecovery
  <1>7. OnlyApprovedIsRemoved /\ OldIsKept
    BY <1>6 DEF OnlyApprovedIsRemoved, OldIsKept, InRecovery
  <1>8. StagedIsNew
    <2> SUFFICES ASSUME NEW o \in Ours, place[o] \in {"staging"} \X Name
                 PROVE  o[1] = "new"
      BY DEF StagedIsNew
    <2>1. place[o][1] = "staging"
      BY PlaceShape
    <2>2. \E n \in Name : o = New(n)
      BY <1>3, <2>1, PlaceShape
    <2> QED
      BY <2>2
  <1>9. InstalledIsNew
    <2>1. \A n \in Name : original[New(n)][1] # "public"
      <3> SUFFICES ASSUME NEW n \in Name PROVE place[New(n)][1] # "public"
        BY DEF Init
      <3>1. \A m \in Name : New(n) # Old(m)
        BY DEF New, Old
      <3> QED
        BY <1>3, <3>1, PlaceShape
    <2> QED
      BY <2>1 DEF Init, InstalledIsNew
  <1>10. RetainedIsApproved /\ RecoveryIsOpen
    BY DEF Init, RetainedIsApproved, RecoveryIsOpen, After
  <1> QED
    BY <1>5, <1>7, <1>8, <1>9, <1>10 DEF Safe

(* Control: the phases an action can lead to.                              *)

LEMMA RollBackGoes == RollBack => GoTo("quarantine", Len(Names)) /\ outcome' = "raised"
  BY DEF RollBack

LEMMA AfterRetainedGoes ==
    ASSUME TypeOK, AfterRetained
    PROVE  \/ \E k \in 1 .. Len(Names) : GoTo("open", k)
           \/ GoTo("openStaged", 1) /\ \A n \in Name : retained'[n] = NoObject
           \/ GoTo("validate", 1)
  <1> USE NamesShape
  <1>1. CASE position < Len(Names)
    BY <1>1 DEF AfterRetained, TypeOK, ControlOK
  <1>2. CASE ~(position < Len(Names))
    BY <1>2 DEF AfterRetained
  <1> QED
    BY <1>1, <1>2

LEMMA AfterInstalledGoes ==
    ASSUME TypeOK, AfterInstalled
    PROVE  \/ position < Len(Names) /\ \E k \in 1 .. Len(Names) : GoTo("openStaged", k)
           \/ position = Len(Names) /\ GoTo("remove", 1)
  <1>1. position \in 1 .. Len(Names) /\ Len(Names) \in Nat
    BY NamesShape DEF TypeOK, ControlOK
  <1>2. position < Len(Names) \/ position = Len(Names)
    BY <1>1
  <1>3. CASE position < Len(Names)
    <2>1. position + 1 \in 1 .. Len(Names)
      BY <1>1, <1>3
    <2> QED
      BY <1>3, <2>1 DEF AfterInstalled
  <1>4. CASE position = Len(Names)
    <2>1. ~(position < Len(Names))
      BY <1>1, <1>4
    <2> QED
      BY <1>4, <2>1 DEF AfterInstalled
  <1> QED
    BY <1>2, <1>3, <1>4

LEMMA PrecedingGoes ==
    ASSUME TypeOK, phase \in {"quarantine", "restore", "discard"}, Preceding
    PROVE  \E p \in Rollback, k \in 1 .. Len(Names) : GoTo(p, k)
  <1> USE NamesShape
  <1>1. CASE position > 1
    <2>1. position - 1 \in 1 .. Len(Names) /\ phase \in Rollback
      BY <1>1 DEF TypeOK, ControlOK, Rollback
    <2> QED
      BY <1>1, <2>1 DEF Preceding
  <1>2. CASE ~(position > 1)
    <2>1. Len(Names) \in 1 .. Len(Names) /\ 1 \in 1 .. Len(Names)
      OBVIOUS
    <2> QED
      BY <1>2, <2>1 DEF Preceding, Rollback
  <1> QED
    BY <1>1, <1>2

LEMMA GoToType ==
    ASSUME ControlOK, named' = named, NEW p \in Phase, NEW k \in 1 .. Len(Names),
           GoTo(p, k)
    PROVE  ControlOK'
  BY DEF ControlOK, GoTo, Names

LEMMA MoveType ==
    ASSUME ControlOK, named' = named, NEW p \in Phase, NEW k \in 1 .. Len(Names),
           Move(p, k)
    PROVE  ControlOK'
  BY DEF ControlOK, Move, Names

\* The first and the last entry, and the one the transaction is at.
LEMMA Positions ==
    ASSUME TypeOK
    PROVE  /\ 1 \in 1 .. Len(Names) /\ Len(Names) \in 1 .. Len(Names)
           /\ position \in 1 .. Len(Names) /\ Here \in Name
           /\ position < Len(Names) => position + 1 \in 1 .. Len(Names)
  BY NamesShape DEF TypeOK, ControlOK, Here

LEMMA LeaveType ==
    ASSUME TypeOK, named' = named, NEW o, Leave(o)
    PROVE  ControlOK'
  <1>1. "close" \in Phase
    BY DEF Phase
  <1> QED
    BY <1>1, GoToType, Positions DEF Leave, TypeOK

LEMMA RollBackType ==
    ASSUME TypeOK, named' = named, RollBack
    PROVE  ControlOK'
  <1>1. "quarantine" \in Phase
    BY DEF Phase, Rollback
  <1> QED
    BY <1>1, GoToType, Positions DEF RollBack, TypeOK

LEMMA PrecedingType ==
    ASSUME TypeOK, named' = named, phase \in {"quarantine", "restore", "discard"},
           Preceding
    PROVE  ControlOK'
  <1>1. Rollback \subseteq Phase
    BY DEF Phase
  <1> QED
    BY <1>1, PrecedingGoes, GoToType DEF TypeOK

LEMMA AfterRetainedType ==
    ASSUME TypeOK, named' = named, AfterRetained
    PROVE  ControlOK'
  <1>1. {"open", "openStaged", "validate"} \subseteq Phase
    BY DEF Phase, Before
  <1> QED
    BY <1>1, AfterRetainedGoes, GoToType, Positions DEF TypeOK

LEMMA AfterInstalledType ==
    ASSUME TypeOK, named' = named, AfterInstalled
    PROVE  ControlOK'
  <1>1. {"openStaged", "remove"} \subseteq Phase
    BY DEF Phase, Before, After
  <1> QED
    BY <1>1, AfterInstalledGoes, GoToType, Positions DEF TypeOK

LEMMA FaultType ==
    ASSUME ResultOK, Fault
    PROVE  faults' \in 0 .. MaxFaults
  BY ConstantsAssumption DEF ResultOK, Fault

LEMMA MovedType ==
    ASSUME TypeOK, moving # "none", RecoveryIsOpen
    PROVE  Moved \in [Object -> Place] /\ Target \in {"public", "backup", "quarantine"}
  <1>1. Target \in {"public", "backup", "quarantine"}
    BY DEF RecoveryIsOpen, Target
  <1>2. <<Target, Here>> \in Place
    BY <1>1, Positions DEF Place, Location, Area
  <1> QED
    BY <1>1, <1>2 DEF Moved, TypeOK, PlacesOK

\* Every action keeps the types.
LEMMA TypeStep ==
    ASSUME TypeOK, RecoveryIsOpen, [Next]_vars
    PROVE  TypeOK'
  <1> USE Positions
  <1>1. ASSUME Start PROVE TypeOK'
    <2>1. ControlOK'
      <3>1. CASE GoTo("create", 1)
        BY <1>1, <3>1, GoToType DEF Start, history, TypeOK, Phase, Before
      <3>2. CASE Leave("raised")
        BY <1>1, <3>2, LeaveType DEF Start, history
      <3> QED
        BY <1>1, <3>1, <3>2 DEF Start
    <2>2. outcome' \in {"none", "returned", "raised"} /\ faults' \in 0 .. MaxFaults
      BY <1>1, FaultType DEF Start, Leave, TypeOK, ResultOK
    <2> QED
      BY <1>1, <2>1, <2>2 DEF Start, TypeOK, PlacesOK, EntriesOK, ResultOK, entries,
         history
  <1>2. ASSUME Create PROVE TypeOK'
    <2>1. ControlOK'
      <3>1. CASE GoTo("open", 1)
        BY <1>2, <3>1, GoToType DEF Create, history, TypeOK, Phase, Before
      <3>2. CASE Leave("raised")
        BY <1>2, <3>2, LeaveType DEF Create, history
      <3> QED
        BY <1>2, <3>1, <3>2 DEF Create
    <2>2. outcome' \in {"none", "returned", "raised"} /\ faults' \in 0 .. MaxFaults
      BY <1>2, FaultType DEF Create, Leave, TypeOK, ResultOK
    <2>3. backup' \in BOOLEAN
      BY <1>2 DEF Create, TypeOK, ResultOK
    <2> QED
      BY <1>2, <2>1, <2>2, <2>3 DEF Create, TypeOK, PlacesOK, EntriesOK, ResultOK,
         entries, history
  <1>3. ASSUME Open PROVE TypeOK'
    <2>1. ControlOK'
      <3>1. CASE AfterRetained
        BY <1>3, <3>1, AfterRetainedType DEF Open, history
      <3>2. CASE Move("retain", position)
        BY <1>3, <3>2, MoveType DEF Open, history, TypeOK, Phase, Before
      <3>3. CASE OpenFails
        BY <1>3, <3>3, LeaveType, RollBackType DEF Open, OpenFails, history
      <3> QED
        BY <1>3, <3>1, <3>2, <3>3 DEF Open
    <2>2. faults' \in 0 .. MaxFaults
      BY <1>3, FaultType DEF Open, TypeOK, ResultOK
    <2>3. outcome' \in {"none", "returned", "raised"}
      BY <1>3 DEF Open, OpenFails, Leave, RollBack, TypeOK, ResultOK
    <2>4. retained' \in [Name -> Object \cup {NoObject}]
      BY <1>3 DEF Open, At, TypeOK, EntriesOK
    <2> QED
      BY <1>3, <2>1, <2>2, <2>3, <2>4 DEF Open, TypeOK, PlacesOK, EntriesOK,
         ResultOK, history
  <1>4. ASSUME Validate PROVE TypeOK'
    <2>1. ControlOK'
      <3>1. CASE GoTo("openStaged", 1)
        BY <1>4, <3>1, GoToType DEF Validate, TypeOK, Phase, Before
      <3>2. CASE RollBack
        BY <1>4, <3>2, RollBackType DEF Validate
      <3> QED
        BY <1>4, <3>1, <3>2 DEF Validate
    <2>2. outcome' \in {"none", "returned", "raised"}
      BY <1>4 DEF Validate, RollBack, TypeOK, ResultOK
    <2>3. refused' \in BOOLEAN
      BY <1>4 DEF Validate, TypeOK, ResultOK
    <2>4. approved' \subseteq Object
      BY <1>4 DEF Validate, TypeOK, EntriesOK
    <2> QED
      BY <1>4, <2>1, <2>2, <2>3, <2>4 DEF Validate, TypeOK, PlacesOK, EntriesOK,
         ResultOK, entries
  <1>5. ASSUME OpenStaged PROVE TypeOK'
    <2>1. ControlOK'
      <3>1. CASE Move("install", position)
        BY <1>5, <3>1, MoveType DEF OpenStaged, history, TypeOK, Phase, Before
      <3>2. CASE RollBack
        BY <1>5, <3>2, RollBackType DEF OpenStaged, history
      <3> QED
        BY <1>5, <3>1, <3>2 DEF OpenStaged
    <2>2. faults' \in 0 .. MaxFaults
      BY <1>5, FaultType DEF OpenStaged, TypeOK, ResultOK
    <2>3. outcome' \in {"none", "returned", "raised"}
      BY <1>5 DEF OpenStaged, RollBack, TypeOK, ResultOK
    <2>4. installed' \in [Name -> Object \cup {NoObject}]
      BY <1>5, ObjectShape DEF OpenStaged, TypeOK, EntriesOK
    <2> QED
      BY <1>5, <2>1, <2>2, <2>3, <2>4 DEF OpenStaged, TypeOK, PlacesOK, EntriesOK,
         ResultOK, history
  <1>6. ASSUME Rename PROVE TypeOK'
    <2>1. moving # "none"
      BY <1>6 DEF Rename
    <2>2. place' \in [Object -> Place]
      BY <1>6, <2>1, MovedType DEF Rename, TypeOK, PlacesOK
    <2>3. raised' \in BOOLEAN
      BY <1>6 DEF Rename
    <2>4. faults' \in 0 .. MaxFaults
      BY <1>6, FaultType DEF Rename, TypeOK, ResultOK
    <2>5. ControlOK'
      BY <1>6, <2>3 DEF Rename, TypeOK, ControlOK, Names, history
    <2> QED
      BY <1>6, <2>2, <2>4, <2>5 DEF Rename, TypeOK, PlacesOK, EntriesOK, ResultOK,
         entries, result, history
  <1>7. ASSUME Reconcile PROVE TypeOK'
    <2>1. named' = named /\ place' = place /\ original' = original
      BY <1>7 DEF Reconcile
    <2>2. ControlOK'
      <3>1. CASE AfterRetained
        BY <2>1, <3>1, AfterRetainedType
      <3>2. CASE AfterInstalled
        BY <2>1, <3>2, AfterInstalledType
      <3>3. CASE RollBack
        BY <2>1, <3>3, RollBackType
      <3>4. CASE phase \in {"quarantine", "restore"} /\ Preceding
        BY <2>1, <3>4, PrecedingType
      <3> QED
        BY <1>7, <3>1, <3>2, <3>3, <3>4 DEF Reconcile
    <2>3. outcome' \in {"none", "returned", "raised"}
      BY <1>7 DEF Reconcile, RollBack, TypeOK, ResultOK
    <2>4. faults' \in 0 .. MaxFaults
      BY <1>7, FaultType DEF Reconcile, TypeOK, ResultOK
    <2>5. quarantined' \subseteq Name
      BY <1>7 DEF Reconcile, TypeOK, EntriesOK
    <2>6. committed' \in BOOLEAN
      BY <1>7 DEF Reconcile, TypeOK, ResultOK
    <2> QED
      BY <1>7, <2>1, <2>2, <2>3, <2>4, <2>5, <2>6 DEF Reconcile, TypeOK, PlacesOK,
         EntriesOK, ResultOK
  <1>8. ASSUME LookBack PROVE TypeOK'
    <2>1. ControlOK'
      <3>1. CASE Move(phase, position)
        BY <1>8, <3>1, MoveType DEF LookBack, history, TypeOK, ControlOK
      <3>2. CASE Preceding
        BY <1>8, <3>2, PrecedingType DEF LookBack, history
      <3> QED
        BY <1>8, <3>1, <3>2 DEF LookBack
    <2>2. faults' \in 0 .. MaxFaults
      BY <1>8, FaultType DEF LookBack, TypeOK, ResultOK
    <2> QED
      BY <1>8, <2>1, <2>2 DEF LookBack, TypeOK, PlacesOK, EntriesOK, ResultOK,
         entries, result, history
  <1>9. ASSUME Discard PROVE TypeOK'
    <2>1. ControlOK'
      BY <1>9, PrecedingType DEF Discard, history
    <2>2. faults' \in 0 .. MaxFaults
      BY <1>9, FaultType DEF Discard, TypeOK, ResultOK
    <2>3. place' \in [Object -> Place]
      BY <1>9, PlaceShape DEF Discard, TypeOK, PlacesOK
    <2> QED
      BY <1>9, <2>1, <2>2, <2>3 DEF Discard, TypeOK, PlacesOK, EntriesOK, ResultOK,
         entries, result, history
  <1>10. ASSUME Tidy PROVE TypeOK'
    <2>1. ControlOK'
      BY <1>10, LeaveType DEF Tidy, history
    <2>2. faults' \in 0 .. MaxFaults
      BY <1>10, FaultType DEF Tidy, TypeOK, ResultOK
    <2>3. backup' \in BOOLEAN
      BY <1>10 DEF Tidy, TypeOK, ResultOK
    <2> QED
      BY <1>10, <2>1, <2>2, <2>3 DEF Tidy, Leave, TypeOK, PlacesOK, EntriesOK,
         ResultOK, entries, history
  <1>11. ASSUME Remove PROVE TypeOK'
    <2>1. ControlOK'
      <3>1. CASE Leave("raised")
        BY <1>11, <3>1, LeaveType DEF Remove, history
      <3>2. CASE position < Len(Names) /\ GoTo("remove", position + 1)
        BY <1>11, <3>2, GoToType DEF Remove, history, TypeOK, Phase, After
      <3>3. CASE GoTo("removeBackup", 1)
        BY <1>11, <3>3, GoToType DEF Remove, history, TypeOK, Phase, After
      <3> QED
        BY <1>11, <3>1, <3>2, <3>3 DEF Remove
    <2>2. faults' \in 0 .. MaxFaults
      BY <1>11, FaultType DEF Remove, TypeOK, ResultOK
    <2>3. place' \in [Object -> Place]
      BY <1>11, PlaceShape DEF Remove, TypeOK, PlacesOK
    <2>4. outcome' \in {"none", "returned", "raised"}
      BY <1>11 DEF Remove, Leave, TypeOK, ResultOK
    <2> QED
      BY <1>11, <2>1, <2>2, <2>3, <2>4 DEF Remove, TypeOK, PlacesOK, EntriesOK,
         ResultOK, entries, history
  <1>12. ASSUME RemoveBackup PROVE TypeOK'
    <2>1. ControlOK'
      BY <1>12, LeaveType DEF RemoveBackup, history
    <2>2. faults' \in 0 .. MaxFaults
      BY <1>12, FaultType DEF RemoveBackup, TypeOK, ResultOK
    <2>3. backup' \in BOOLEAN
      BY <1>12 DEF RemoveBackup, TypeOK, ResultOK
    <2>4. outcome' \in {"none", "returned", "raised"}
      BY <1>12 DEF RemoveBackup, Leave
    <2> QED
      BY <1>12, <2>1, <2>2, <2>3, <2>4 DEF RemoveBackup, TypeOK, PlacesOK, EntriesOK,
         ResultOK, entries, history
  <1>13. ASSUME Close PROVE TypeOK'
    <2>1. ControlOK'
      BY <1>13, GoToType DEF Close, history, TypeOK, Phase
    <2>2. place' \in [Object -> Place]
      BY <1>13, PlaceShape DEF Close, TypeOK, PlacesOK
    <2> QED
      BY <1>13, <2>1, <2>2 DEF Close, TypeOK, PlacesOK, EntriesOK, ResultOK, entries,
         result, history
  <1>14. ASSUME Meddle PROVE TypeOK'
    <2>1. meddling' \in 0 .. MaxMeddling
      BY <1>14, ConstantsAssumption DEF Meddle, TypeOK, ResultOK
    <2>2. place' \in [Object -> Place]
      <3>1. \A k \in DOMAIN Names : Names[k] \in Name
        BY NamesShape
      <3> QED
        BY <1>14, <3>1, PlaceShape DEF Meddle, TypeOK, PlacesOK, Area
    <2> QED
      BY <1>14, <2>1, <2>2 DEF Meddle, TypeOK, ControlOK, PlacesOK, EntriesOK,
         ResultOK, control, entries, result, history, Names
  <1>15. ASSUME UNCHANGED vars PROVE TypeOK'
    BY <1>15 DEF vars, control, entries, result, history, TypeOK, ControlOK, PlacesOK,
       EntriesOK, ResultOK, Names
  <1> QED
    BY <1>1, <1>2, <1>3, <1>4, <1>5, <1>6, <1>7, <1>8, <1>9, <1>10, <1>11, <1>12,
       <1>13, <1>14, <1>15 DEF Next

\* The recovery directory is open while anything moves.
LEMMA RecoveryStep ==
    ASSUME TypeOK, RecoveryIsOpen, [Next]_vars
    PROVE  RecoveryIsOpen'
  <1> USE DEF RecoveryIsOpen, After
  <1>1. ASSUME NEW p \in {"open", "openStaged", "validate", "quarantine", "restore",
                          "discard", "tidy"},
               NEW k, GoTo(p, k), backup'
        PROVE  RecoveryIsOpen'
    BY <1>1 DEF GoTo
  <1>2. ASSUME NEW o, Leave(o) PROVE RecoveryIsOpen'
    BY <1>2 DEF Leave, GoTo
  <1>3. ASSUME RollBack, backup' PROVE RecoveryIsOpen'
    BY <1>1, <1>3 DEF RollBack
  <1>4. ASSUME Preceding, phase \in {"quarantine", "restore", "discard"}, backup'
        PROVE  RecoveryIsOpen'
    BY <1>1, <1>4, PrecedingGoes DEF Rollback
  <1>5. ASSUME AfterRetained, backup' PROVE RecoveryIsOpen'
    BY <1>1, <1>5, AfterRetainedGoes
  <1>6. CASE Start
    BY <1>2, <1>6 DEF Start, GoTo
  <1>7. CASE Create
    BY <1>2, <1>7 DEF Create, GoTo
  <1>8. CASE Open
    <2>1. backup'
      BY <1>8 DEF Open
    <2> QED
      BY <1>2, <1>3, <1>5, <1>8, <2>1 DEF Open, OpenFails, Move
  <1>9. CASE Validate
    <2>1. backup'
      BY <1>9 DEF Validate
    <2> QED
      BY <1>1, <1>3, <1>9, <2>1 DEF Validate
  <1>10. CASE OpenStaged
    <2>1. backup'
      BY <1>10 DEF OpenStaged
    <2> QED
      BY <1>3, <1>10, <2>1 DEF OpenStaged, Move
  <1>11. CASE Rename
    BY <1>11 DEF Rename, result, history
  <1>12. CASE Reconcile
    <2>1. backup'
      BY <1>12 DEF Reconcile
    <2>2. CASE ~RollBack /\ phase = "install"
      <3>1. AfterInstalled
        BY <1>12, <2>2 DEF Reconcile
      <3>2. CASE position < Len(Names)
        BY <1>1, <2>1, <3>1, <3>2, AfterInstalledGoes, Positions, NamesShape
      <3>3. CASE position = Len(Names)
        <4>1. committed'
          BY <1>12, <2>2, <3>3 DEF Reconcile
        <4> QED
          BY <2>1, <3>1, <3>3, <4>1, AfterInstalledGoes, Positions, NamesShape DEF GoTo
      <3> QED
        BY <3>1, <3>2, <3>3, AfterInstalledGoes
    <2> QED
      BY <1>3, <1>4, <1>5, <1>12, <2>1, <2>2 DEF Reconcile
  <1>13. CASE LookBack
    <2>1. backup'
      BY <1>13 DEF LookBack, result
    <2> QED
      BY <1>4, <1>13, <2>1 DEF LookBack, Move
  <1>14. CASE Discard
    BY <1>4, <1>14 DEF Discard, result
  <1>15. CASE Tidy
    BY <1>2, <1>15 DEF Tidy
  <1>16. CASE Remove
    BY <1>2, <1>16 DEF Remove, GoTo, history
  <1>17. CASE RemoveBackup
    BY <1>2, <1>17 DEF RemoveBackup
  <1>18. CASE Close
    BY <1>18 DEF Close, GoTo
  <1>19. CASE Meddle \/ UNCHANGED vars
    BY <1>19 DEF Meddle, vars, control, result, history
  <1> QED
    BY <1>6, <1>7, <1>8, <1>9, <1>10, <1>11, <1>12, <1>13, <1>14, <1>15, <1>16,
       <1>17, <1>18, <1>19 DEF Next

\* What is validated is what was retained.
LEMMA RetainedStep ==
    ASSUME TypeOK, RetainedIsApproved, [Next]_vars
    PROVE  RetainedIsApproved'
  <1> USE DEF RetainedIsApproved, After
  <1>1. ASSUME NEW p \in {"create", "open", "validate", "quarantine", "restore",
                          "discard", "tidy", "close", "end"}, phase' = p
        PROVE  RetainedIsApproved'
    BY <1>1
  <1>2. ASSUME UNCHANGED <<retained, approved>>,
               phase \in {"openStaged", "install", "remove", "removeBackup"}
        PROVE  RetainedIsApproved'
    BY <1>2
  <1>3. ASSUME NEW o, Leave(o) PROVE RetainedIsApproved'
    BY <1>1, <1>3 DEF Leave, GoTo
  <1>4. ASSUME RollBack PROVE RetainedIsApproved'
    BY <1>1, <1>4 DEF RollBack, GoTo
  <1>5. ASSUME Preceding, phase \in {"quarantine", "restore", "discard"}
        PROVE  RetainedIsApproved'
    BY <1>1, <1>5, PrecedingGoes DEF Rollback, GoTo
  <1>6. ASSUME AfterRetained PROVE RetainedIsApproved'
    BY <1>1, <1>6, AfterRetainedGoes DEF GoTo
  <1>7. CASE Start
    BY <1>1, <1>3, <1>7 DEF Start, GoTo
  <1>8. CASE Create
    BY <1>1, <1>3, <1>8 DEF Create, GoTo
  <1>9. CASE Open
    BY <1>3, <1>4, <1>6, <1>9 DEF Open, OpenFails, Move
  <1>10. CASE Validate
    BY <1>4, <1>10 DEF Validate, entries
  <1>11. CASE OpenStaged
    BY <1>2, <1>11 DEF OpenStaged, history
  <1>12. CASE Rename
    BY <1>12 DEF Rename, entries, history
  <1>13. CASE Reconcile
    BY <1>2, <1>4, <1>5, <1>6, <1>13 DEF Reconcile
  <1>14. CASE LookBack
    BY <1>5, <1>14 DEF LookBack, Move
  <1>15. CASE Discard
    BY <1>5, <1>15 DEF Discard
  <1>16. CASE Tidy \/ RemoveBackup
    BY <1>3, <1>16 DEF Tidy, RemoveBackup
  <1>17. CASE Remove
    BY <1>2, <1>17 DEF Remove, entries, history
  <1>18. CASE Close
    BY <1>1, <1>18 DEF Close, GoTo
  <1>19. CASE Meddle \/ UNCHANGED vars
    BY <1>19 DEF Meddle, vars, control, entries, history
  <1> QED
    BY <1>7, <1>8, <1>9, <1>10, <1>11, <1>12, <1>13, <1>14, <1>15, <1>16, <1>17,
       <1>18, <1>19 DEF Next

\* Only what the transaction staged is ever installed.
LEMMA InstalledStep ==
    ASSUME TypeOK, InstalledIsNew, [Next]_vars
    PROVE  InstalledIsNew'
  <1> USE DEF InstalledIsNew
  <1>1. original' = original
    BY DEF Next, Start, Create, Open, Validate, OpenStaged, Rename, Reconcile,
       LookBack, Discard, Tidy, Remove, RemoveBackup, Close, Meddle, vars, history
  <1>2. CASE installed' = installed
    BY <1>1, <1>2
  <1>3. CASE OpenStaged
    BY <1>1, <1>3 DEF OpenStaged, TypeOK, EntriesOK
  <1> QED
    BY <1>2, <1>3 DEF Next, Start, Create, Open, Validate, Rename, Reconcile,
       LookBack, Discard, Tidy, Remove, RemoveBackup, Close, Meddle, vars, entries

(* Where objects go.                                                       *)

\* An object stays where it is, is renamed, is taken away or put there by
\* another process, or is removed by its identity.
LEMMA ObjectMoves ==
    ASSUME TypeOK, RecoveryIsOpen, InstalledIsNew, [Next]_vars,
           NEW o \in Object, place'[o] # place[o]
    PROVE  \/ /\ moving = "rename" /\ phase \in {"retain", "install", "quarantine", "restore"}
              /\ place'[o][1] \in {"public", "backup", "quarantine"}
              /\ place'[o][1] # "public" => phase \in {"retain", "quarantine"}
           \/ o \in Foreigners /\ place'[o][1] \in {"public", "staging"}
           \/ place'[o] = Elsewhere
           \/ place'[o] = Gone /\ \E n \in Name : o = New(n)
           \/ place'[o] = Gone /\ o \in Ours /\ place[o] \in {"staging"} \X Name
           \/ place'[o] = Gone /\ phase = "remove" /\ \E n \in Name : retained[n] = o
  <1> USE Positions
  <1>1. CASE Rename
    <2>1. moving = "rename"
      BY <1>1 DEF Rename
    <2>2. place'[o] = <<Target, Here>>
      BY <1>1 DEF Rename, Moved
    <2>3. Target \in {"public", "backup", "quarantine"}
      BY <2>1, MovedType
    <2>4. Target # "public" => phase \in {"retain", "quarantine"}
      BY <2>1 DEF RecoveryIsOpen, Target
    <2> QED
      BY <2>1, <2>2, <2>3, <2>4 DEF RecoveryIsOpen
  <1>2. CASE Discard
    <2>1. place' = [place EXCEPT ![installed[Here]] = Gone]
          /\ installed[Here] # NoObject
      BY <1>2 DEF Discard, IsAt
    <2>2. installed[Here] = New(Here)
      BY <2>1 DEF InstalledIsNew
    <2> QED
      BY <2>1, <2>2, ObjectShape DEF TypeOK, PlacesOK
  <1>3. CASE Remove
    BY <1>3 DEF Remove, TypeOK, PlacesOK
  <1>4. CASE Close
    BY <1>4 DEF Close
  <1>5. CASE Meddle
    BY <1>5, PlaceShape DEF Meddle, TypeOK, PlacesOK
  <1> QED
    BY <1>1, <1>2, <1>3, <1>4, <1>5 DEF Next, Start, Create, Open, Validate,
       OpenStaged, Reconcile, LookBack, Tidy, RemoveBackup, vars

LEMMA StagedStep ==
    ASSUME Safe, [Next]_vars
    PROVE  StagedIsNew'
  <1> SUFFICES ASSUME NEW o \in Ours, place'[o] \in {"staging"} \X Name
               PROVE  o[1] = "new"
    BY DEF StagedIsNew
  <1>1. place'[o][1] = "staging"
    BY PlaceShape
  <1>2. place'[o] = place[o]
    <2>1. o \in Object /\ o \notin Foreigners
      BY ObjectShape, ForeignersAssumption
    <2> QED
      BY <1>1, <2>1, ObjectMoves, PlaceShape DEF Safe
  <1> QED
    BY <1>2 DEF Safe, StagedIsNew

\* Nothing but an approved object or a new entry goes.
LEMMA ApprovedStep ==
    ASSUME Safe, [Next]_vars
    PROVE  OnlyApprovedIsRemoved'
  <1> SUFFICES ASSUME NEW o \in Object, place'[o] = Gone
               PROVE  o \in approved' \cup {New(n) : n \in Name}
    BY DEF OnlyApprovedIsRemoved
  <1>1. approved \subseteq approved'
    BY DEF Next, Start, Create, Open, Validate, OpenStaged, Rename, Reconcile,
       LookBack, Discard, Tidy, Remove, RemoveBackup, Close, Meddle, vars, history
  <1>2. CASE place[o] = Gone
    BY <1>1, <1>2 DEF Safe, OnlyApprovedIsRemoved
  <1>3. CASE place[o] # Gone
    <2>1. CASE o \in Ours /\ place[o] \in {"staging"} \X Name
      BY <2>1 DEF Safe, StagedIsNew, Ours, New
    <2>2. CASE phase = "remove" /\ \E n \in Name : retained[n] = o
      BY <1>1, <2>2, ObjectShape DEF Safe, RetainedIsApproved, After
    <2> QED
      BY <1>3, <2>1, <2>2, ObjectMoves, PlaceShape DEF Safe
  <1> QED
    BY <1>2, <1>3

\* No old entry goes before every new one was installed, and the recovery
\* directory never goes with something in it.
LEMMA OldStep ==
    ASSUME Safe, [Next]_vars, RecoveryIsOpen'
    PROVE  OldIsKept'
  <1>1. original' = original
    BY DEF Next, Start, Create, Open, Validate, OpenStaged, Rename, Reconcile,
       LookBack, Discard, Tidy, Remove, RemoveBackup, Close, Meddle, vars, history
  <1>2. committed => committed'
    <2>1. CASE Reconcile
      BY <2>1 DEF Reconcile
    <2> QED
      BY <2>1 DEF Next, Start, Create, Open, Validate, OpenStaged, Rename,
         LookBack, Discard, Tidy, Remove, RemoveBackup, Close, Meddle, vars, history
  <1>3. ASSUME NEW o \in Object, original[o][1] = "public", place'[o] = Gone
        PROVE  committed'
    <2>1. \A n \in Name : o # New(n)
      BY <1>3 DEF Safe, InstalledIsNew
    <2>2. CASE place[o] = Gone
      BY <1>2, <1>3, <2>2 DEF Safe, OldIsKept
    <2>3. CASE place[o] # Gone
      <3>1. ~(o \in Ours /\ place[o] \in {"staging"} \X Name)
        BY <2>1 DEF Safe, StagedIsNew, Ours, New
      <3>2. phase = "remove"
        BY <1>3, <2>1, <2>3, <3>1, ObjectMoves, PlaceShape DEF Safe
      <3> QED
        BY <1>2, <3>2 DEF Safe, RecoveryIsOpen, After
    <2> QED
      BY <2>2, <2>3
  <1>4. ASSUME InRecovery' # {} PROVE backup'
    <2>1. PICK o \in Object : place'[o] \in {"backup", "quarantine"} \X Name
      BY <1>4 DEF InRecovery
    <2>2. place'[o][1] \in {"backup", "quarantine"}
      BY <2>1, PlaceShape
    <2>3. CASE place'[o] # place[o]
      <3>1. moving = "rename" /\ phase \in {"retain", "quarantine"}
        BY <2>2, <2>3, ObjectMoves, PlaceShape DEF Safe
      <3>2. backup
        BY <3>1 DEF Safe, RecoveryIsOpen
      <3> QED
        BY <3>1, <3>2 DEF Next, Start, Create, Open, Validate, OpenStaged, Rename,
           Reconcile, LookBack, Discard, Tidy, Remove, RemoveBackup, Close, Meddle,
           vars, result
    <2>4. CASE place'[o] = place[o]
      <3>1. o \in InRecovery
        BY <2>1, <2>4 DEF InRecovery
      <3>2. backup
        BY <3>1 DEF Safe, OldIsKept
      <3> QED
        BY <3>1, <3>2 DEF Next, Start, Create, Open, Validate, OpenStaged, Rename,
           Reconcile, LookBack, Discard, Tidy, Remove, RemoveBackup, Close, Meddle,
           vars, result
    <2> QED
      BY <2>3, <2>4
  <1> QED
    BY <1>1, <1>3, <1>4 DEF OldIsKept

LEMMA SafeStep == Safe /\ [Next]_vars => Safe'
  <1> SUFFICES ASSUME Safe, [Next]_vars PROVE Safe'
    OBVIOUS
  <1>1. TypeOK' /\ RecoveryIsOpen'
    BY TypeStep, RecoveryStep DEF Safe
  <1>2. RetainedIsApproved' /\ InstalledIsNew'
    BY RetainedStep, InstalledStep DEF Safe
  <1>3. StagedIsNew' /\ OnlyApprovedIsRemoved' /\ OldIsKept'
    BY <1>1, StagedStep, ApprovedStep, OldStep
  <1> QED
    BY <1>1, <1>2, <1>3 DEF Safe

LEMMA SafeHolds == Spec => []Safe
  BY InitSafe, SafeStep, PTL DEF Spec

-----------------------------------------------------------------------------
\* Every variable keeps its type.
THEOREM TypeCorrect == Spec => []TypeOK
  <1>1. Safe => TypeOK
    BY DEF Safe
  <1> QED
    BY <1>1, SafeHolds, PTL

\* Whatever errors occur and whatever other processes do at the public names,
\* only what validation accepted and the transaction's own entries are removed.
THEOREM RemovalIsApproved == Spec => []OnlyApprovedIsRemoved
  <1>1. Safe => OnlyApprovedIsRemoved
    BY DEF Safe
  <1> QED
    BY <1>1, SafeHolds, PTL

\* Until every new entry is installed no old entry is removed, and the recovery
\* directory stays while it holds anything.
THEOREM OldSurvives == Spec => []OldIsKept
  <1>1. Safe => OldIsKept
    BY DEF Safe
  <1> QED
    BY <1>1, SafeHolds, PTL

-----------------------------------------------------------------------------
(* The entries, step by step, while no other process acts.                 *)

LEMMA NamesDiffer ==
    \A j, k \in 1 .. Len(Names) : Names[j] = Names[k] => j = k
  <1>1. CASE named
    BY <1>1 DEF Names
  <1>2. CASE ~named
    BY <1>2, NamesAssumption, NamesShape DEF Names
  <1> QED
    BY <1>1, <1>2

LEMMA PairsDiffer ==
    /\ \A n, m \in Name : /\ Old(n) # New(m) /\ (Old(n) = Old(m) => n = m)
                          /\ (New(n) = New(m) => n = m)
    /\ \A n \in Name : Old(n)[2] = n /\ New(n)[2] = n
    /\ \A o \in Ours : \E n \in Name : o = Old(n) \/ o = New(n)
  BY DEF Old, New, Ours

LEMMA PlacesDiffer ==
    /\ Area = {"public", "staging", "backup", "quarantine"}
    /\ \A a, n : <<a, n>> # Nowhere => a # "nowhere" \/ n # ""
    /\ \A a \in Area : \A n : <<a, n>> # Nowhere /\ <<a, n>> # Gone
  BY DEF Area, Nowhere, Gone

LEMMA PublicDiffers ==
    /\ \A n : <<"public", n>> # Nowhere /\ <<"public", n>> # Gone
    /\ \A S, m, l : l \in S \X {m} => l[1] \in S /\ l[2] = m
    /\ \A n : <<"public", n>>[1] = "public"
  BY DEF Nowhere, Gone

\* Only the two objects of its own can have a name.
LEMMA AtShape ==
    ASSUME NobodyElseActed, NEW a \in Area, NEW n \in Name
    PROVE  At(a, n) \subseteq {Old(n), New(n)}
  <1> SUFFICES ASSUME NEW o \in Object, place[o] = <<a, n>>
               PROVE  o \in {Old(n), New(n)}
    BY DEF At
  <1>1. o \in Ours /\ place[o] \in Area \X {o[2]}
    BY PlacesDiffer DEF NobodyElseActed
  <1>2. o[2] = n
    BY <1>1
  <1> QED
    BY <1>1, <1>2, PairsDiffer

\* How far an entry is depends on its two objects and on what was noted of it.
LEMMA EntryFrame ==
    ASSUME NEW n \in Name, original' = original,
           place'[Old(n)] = place[Old(n)], place'[New(n)] = place[New(n)],
           retained'[n] = retained[n], installed'[n] = installed[n]
    PROVE  /\ Untouched(n)' <=> Untouched(n)
           /\ Retained(n)' <=> Retained(n)
           /\ Installed(n)' <=> Installed(n)
           /\ Undecided(n)' <=> Undecided(n)
           /\ Withdrawn(n)' <=> Withdrawn(n)
           /\ Restored(n)' <=> Restored(n)
           /\ Swapped(n)' <=> Swapped(n)
  <1>1. WasThere(n)' <=> WasThere(n)
    BY DEF WasThere
  <1>2. Noted(n)' <=> Noted(n)
    BY <1>1 DEF Noted
  <1>3. \A A : (OldIn(n, A)' <=> OldIn(n, A)) /\ (NewIn(n, A)' <=> NewIn(n, A))
    BY <1>1 DEF OldIn, NewIn
  <1> QED
    BY <1>2, <1>3 DEF Untouched, Retained, Installed, Undecided, Withdrawn, Restored,
                      Swapped

\* An error takes every entry from where it is to the rollback.
LEMMA ForwardIsUndecided ==
    ASSUME TypeOK, Orderly, phase \in Before, NEW k \in 1 .. Len(Names)
    PROVE  Undecided(Names[k])
  <1> DEFINE n == Names[k]
  <1>1. \/ Untouched(n) \/ Retained(n) \/ Retaining(n)
        \/ Installing(n) \/ Installed(n)
    <2>1. position \in Nat /\ k \in Nat
      BY NamesShape DEF TypeOK, ControlOK
    <2> QED
      BY <2>1 DEF Orderly, Progress, Before
  <1> QED
    BY <1>1, PlacesDiffer DEF Untouched, Retained, Retaining, Installing, Installed,
           Undecided, Underway, OldIn, NewIn

\* What every step leaves alone.
LEMMA HistoryFrame ==
    ASSUME [Next]_vars
    PROVE  /\ faults' \in {faults, faults - 1} /\ (refused => refused')
           /\ named' = named /\ original' = original /\ Names' = Names
           /\ meddling' = meddling \/ Meddle
  <1> DEFINE Kept == /\ faults' \in {faults, faults - 1} /\ (refused => refused')
                     /\ named' = named /\ original' = original
                     /\ meddling' = meddling \/ Meddle
  <1>1. ASSUME Start PROVE Kept
    BY <1>1 DEF Start, history, Fault
  <1>2. ASSUME Create PROVE Kept
    BY <1>2 DEF Create, history, Fault
  <1>3. ASSUME Open PROVE Kept
    BY <1>3 DEF Open, history, Fault
  <1>4. ASSUME Validate PROVE Kept
    BY <1>4 DEF Validate, history, Fault
  <1>5. ASSUME OpenStaged PROVE Kept
    BY <1>5 DEF OpenStaged, history, Fault
  <1>6. ASSUME Rename PROVE Kept
    BY <1>6 DEF Rename, history, Fault
  <1>7. ASSUME Reconcile PROVE Kept
    BY <1>7 DEF Reconcile, history, Fault
  <1>8. ASSUME LookBack PROVE Kept
    BY <1>8 DEF LookBack, history, Fault
  <1>9. ASSUME Discard PROVE Kept
    BY <1>9 DEF Discard, history, Fault
  <1>10. ASSUME Tidy PROVE Kept
    BY <1>10 DEF Tidy, history, Fault
  <1>11. ASSUME Remove PROVE Kept
    BY <1>11 DEF Remove, history, Fault
  <1>12. ASSUME RemoveBackup PROVE Kept
    BY <1>12 DEF RemoveBackup, history, Fault
  <1>13. ASSUME Close PROVE Kept
    BY <1>13 DEF Close, history, Fault
  <1>14. ASSUME Meddle PROVE Kept
    BY <1>14 DEF Meddle, history
  <1>15. ASSUME UNCHANGED vars PROVE Kept
    BY <1>15 DEF vars, history
  <1>16. Kept
    BY <1>1, <1>2, <1>3, <1>4, <1>5, <1>6, <1>7, <1>8, <1>9, <1>10, <1>11, <1>12, <1>13, <1>14,
       <1>15 DEF Next
  <1> QED
    BY <1>16 DEF Names

LEMMA FaultsLeft ==
    ASSUME NEW before \in Int, NEW now \in Int, NEW most \in Int,
           now = before \/ now = before - 1, NEW p, NEW q, p => q,
           now + (IF q THEN 0 ELSE 1) >= most
    PROVE  before + (IF p THEN 0 ELSE 1) >= most
  OBVIOUS

\* With the bounds of EndsWhole, an error is the only one.
LEMMA CalmBefore ==
    ASSUME TypeOK, [Next]_vars, Calm'
    PROVE  Calm /\ meddling' = meddling
  <1>1. /\ meddling \in 0 .. MaxMeddling /\ faults \in 0 .. MaxFaults
        /\ MaxMeddling \in Nat /\ MaxFaults \in Nat
    BY ConstantsAssumption DEF TypeOK, ResultOK
  <1>2. meddling' = meddling
    <2>1. meddling' = MaxMeddling
      BY DEF Calm
    <2>2. CASE Meddle
      BY <1>1, <2>1, <2>2 DEF Meddle
    <2> QED
      BY <2>2, HistoryFrame
  <1>3. faults' + (IF refused' THEN 0 ELSE 1) >= MaxFaults
    BY DEF Calm
  <1>4. faults' \in {faults, faults - 1} /\ (refused => refused')
    BY HistoryFrame
  <1>5. /\ faults \in Int /\ faults' \in Int /\ MaxFaults \in Int
        /\ faults' = faults \/ faults' = faults - 1
    BY <1>1, <1>4
  <1> QED
    BY <1>2, <1>3, <1>4, <1>5, FaultsLeft DEF Calm

LEMMA OnlyError ==
    ASSUME TypeOK, Fault, refused => refused'
    PROVE  Spent' /\ (Spent => ~Calm')
  <1>1. faults \in 0 .. MaxFaults /\ MaxFaults \in Nat /\ faults' = faults - 1
    BY ConstantsAssumption DEF TypeOK, ResultOK, Fault
  <1> QED
    BY <1>1 DEF Spent, Calm

\* Who has the public names is settled by the entries one by one.
LEMMA OldIsPublic ==
    ASSUME NobodyElseActed, OriginalIsOld,
           \A k \in 1 .. Len(Names) :
             OldIn(Names[k], {"public"}) /\ place[New(Names[k])] # <<"public", Names[k]>>
    PROVE  PublicIs("old")
  <1> SUFFICES ASSUME NEW k \in 1 .. Len(Names)
               PROVE  At("public", Names[k]) =
                        {o \in Object : original[o] = <<"public", Names[k]>>}
    BY NamesShape DEF PublicIs
  <1> DEFINE n == Names[k]
  <1>1. n \in Name /\ At("public", n) \subseteq {Old(n)}
    BY NamesShape, AtShape, PlacesDiffer DEF At
  <1>2. {o \in Object : original[o] = <<"public", n>>} =
          IF WasThere(n) THEN {Old(n)} ELSE {}
    BY <1>1, ObjectShape DEF WasThere, OriginalIsOld
  <1>3. Old(n) \in At("public", n) <=> WasThere(n)
    <2>1. CASE WasThere(n)
      BY <1>1, <2>1, ObjectShape DEF OldIn, At
    <2>2. CASE ~WasThere(n)
      <3>1. place[Old(n)] = Nowhere
        BY <2>2 DEF OldIn
      <3> QED
        BY <2>2, <3>1, PlacesDiffer DEF At
    <2> QED
      BY <2>1, <2>2
  <1> QED
    BY <1>1, <1>2, <1>3

LEMMA NewIsPublic ==
    ASSUME NobodyElseActed, \A k \in 1 .. Len(Names) : Swapped(Names[k])
    PROVE  PublicIs("new")
  <1> SUFFICES ASSUME NEW k \in 1 .. Len(Names)
               PROVE  At("public", Names[k]) = {New(Names[k])}
    BY NamesShape DEF PublicIs
  <1> DEFINE n == Names[k]
  <1>1. n \in Name /\ At("public", n) \subseteq {New(n), Old(n)}
    BY NamesShape, AtShape, PlacesDiffer
  <1>2. New(n) \in At("public", n) /\ Old(n) \notin At("public", n)
    BY <1>1, ObjectShape DEF Swapped, NewIn, At
  <1> QED
    BY <1>1, <1>2

LEMMA PublicFrame ==
    ASSUME original' = original, Names' = Names,
           \A o \in Object, n \in Name :
             place'[o] = <<"public", n>> <=> place[o] = <<"public", n>>
    PROVE  /\ PublicIs("new")' <=> PublicIs("new")
           /\ PublicIs("old")' <=> PublicIs("old")
  <1>1. \A n \in Name : At("public", n)' = At("public", n)
    BY DEF At
  <1> QED
    BY <1>1, NamesShape DEF PublicIs

\* What there is to show of an entry when the transaction goes on.
LEMMA ProgressAfterGo ==
    ASSUME Names' = Names, NEW p, NEW j, GoTo(p, j), p \notin {"retain", "install"},
           NEW k, NEW n, n = Names[k],
           p \in {"start", "create"} \/ (p = "open" /\ k >= j) => Untouched(n)',
           p = "validate" \/ (p = "open" /\ k < j) \/ (p = "openStaged" /\ k >= j)
             => Retained(n)',
           p = "openStaged" /\ k < j => Installed(n)',
           p = "quarantine" => IF k > j THEN Withdrawn(n)' ELSE Undecided(n)',
           p = "restore" => IF k > j THEN Restored(n)' ELSE Withdrawn(n)',
           p \in {"discard", "tidy"} => Restored(n)',
           p \in After => Swapped(n)'
    PROVE  Progress(k)'
  <1>1. n = Names[k]' /\ phase' = p /\ position' = j /\ moving' = "none"
    BY DEF GoTo
  <1> QED
    BY <1>1 DEF Progress

LEMMA NobodyElseFrame ==
    ASSUME NobodyElseActed, \A o \in Object : place'[o] \in {place[o], Gone}
    PROVE  NobodyElseActed'
  BY DEF NobodyElseActed

\* An error before the last install: everything is still to be decided.
LEMMA RollBackStep ==
    ASSUME Orderly, original' = original, Names' = Names, RollBack,
           UNCHANGED <<place, retained, installed, committed>>, Spent', ~committed,
           \A k \in 1 .. Len(Names) : Undecided(Names[k])
    PROVE  Orderly'
  <1>1. GoTo("quarantine", Len(Names)) /\ outcome' = "raised"
    BY RollBackGoes
  <1>2. NobodyElseActed'
    BY NobodyElseFrame DEF Orderly
  <1>3. Told'
    BY <1>1 DEF GoTo, Told, Before, Rollback, After
  <1>4. ASSUME NEW k \in 1 .. Len(Names) PROVE Progress(k)'
    <2>1. PICK n : n = Names[k]
      OBVIOUS
    <2>2. n \in Name /\ Undecided(n)
      BY <2>1, NamesShape
    <2>3. Undecided(n)'
      BY <2>2, EntryFrame
    <2>4. ~(k > Len(Names))
      BY NamesShape
    <2> QED
      BY <1>1, <2>1, <2>3, <2>4, ProgressAfterGo DEF After
  <1> QED
    BY <1>2, <1>3, <1>4 DEF Orderly

\* Nothing is left to do but to leave.
LEMMA LeaveStep ==
    ASSUME Orderly, Names' = Names, NEW o, Leave(o), outcome' # "none",
           outcome' = "returned" => committed, committed' = committed,
           NobodyElseActed', PublicIs(IF committed THEN "new" ELSE "old")'
    PROVE  Orderly'
  <1>1. phase' = "close" /\ position' = 1 /\ moving' = "none" /\ raised' = FALSE
    BY DEF Leave, GoTo
  <1>2. Told'
    BY <1>1 DEF Told, Before, Rollback, After
  <1>3. \A k : Progress(k)'
    BY <1>1 DEF Progress, After
  <1> QED
    BY <1>2, <1>3 DEF Orderly

\* Leaving with every entry untouched or put back.
LEMMA LeaveOld ==
    ASSUME Safe, OriginalIsOld, Orderly, original' = original, Names' = Names,
           Leave("raised"), UNCHANGED <<place, committed>>, ~committed,
           \A k \in 1 .. Len(Names) : Untouched(Names[k]) \/ Restored(Names[k])
    PROVE  Orderly'
  <1>1. PublicIs("old")
    <2>1. ASSUME NEW k \in 1 .. Len(Names)
          PROVE  /\ OldIn(Names[k], {"public"})
                 /\ place[New(Names[k])] # <<"public", Names[k]>>
      <3>1. \/ place[New(Names[k])] = Gone
            \/ place[New(Names[k])][1] \in {"staging", "quarantine"}
        BY <2>1, PublicDiffers DEF Untouched, Restored, NewIn
      <3> QED
        BY <2>1, <3>1, PublicDiffers DEF Untouched, Restored
    <2> QED
      BY <2>1, OldIsPublic DEF Orderly
  <1>2. PublicIs("old")'
    BY <1>1, PublicFrame
  <1>3. NobodyElseActed'
    BY NobodyElseFrame DEF Orderly
  <1>4. outcome' = "raised"
    BY DEF Leave
  <1> QED
    BY <1>2, <1>3, <1>4, LeaveStep

\* Leaving with every new entry in place, or nothing new to remove of the old.
LEMMA LeaveNew ==
    ASSUME Safe, Orderly, original' = original, Names' = Names, NEW o, Leave(o),
           o # "none", committed' = committed, committed,
           \A x \in Object : place'[x] = place[x] \/ (place'[x] = Gone /\
                                place[x] \in {"backup"} \X Name),
           \A k \in 1 .. Len(Names) : Swapped(Names[k])
    PROVE  Orderly'
  <1>1. PublicIs("new")
    BY NewIsPublic DEF Orderly
  <1>2. PublicIs("new")'
    <2>1. \A x \in Object, n \in Name :
            place'[x] = <<"public", n>> <=> place[x] = <<"public", n>>
      <3> SUFFICES ASSUME NEW x \in Object, NEW n \in Name, place'[x] = Gone,
                          place[x] \in {"backup"} \X Name
                   PROVE  place'[x] # <<"public", n>> /\ place[x] # <<"public", n>>
        OBVIOUS
      <3>1. place[x][1] = "backup"
        BY PlaceShape
      <3> QED
        BY <3>1, PublicDiffers
    <2> QED
      BY <1>1, <2>1, PublicFrame
  <1>3. NobodyElseActed'
    BY NobodyElseFrame DEF Orderly
  <1>4. outcome' = o
    BY DEF Leave
  <1> QED
    BY <1>2, <1>3, <1>4, LeaveStep

\* Going on with the next entry, or the next phase, before the last install.
LEMMA ForwardStep ==
    ASSUME Orderly, Names' = Names, outcome' = outcome, outcome = "none",
           committed' = committed, ~committed, NobodyElseActed',
           NEW p \in {"create", "open", "validate", "openStaged"}, NEW j, GoTo(p, j),
           \A k \in 1 .. Len(Names) : Progress(k)'
    PROVE  Orderly'
  <1>1. Told'
    BY DEF GoTo, Told, Before, Rollback, After
  <1> QED
    BY <1>1 DEF Orderly

LEMMA AfterRetainedStep ==
    ASSUME TypeOK, Orderly, original' = original, Names' = Names,
           UNCHANGED <<place, retained, installed, committed, outcome>>, AfterRetained,
           phase \in Before,
           \A k \in 1 .. Len(Names) :
             IF k > position THEN Untouched(Names[k]) ELSE Retained(Names[k])
    PROVE  Orderly'
  <1>1. NobodyElseActed' /\ outcome = "none" /\ ~committed
    BY NobodyElseFrame DEF Orderly, Told
  <1>2. /\ position \in 1 .. Len(Names) /\ Len(Names) \in Nat
        /\ 1 .. Len(Names) \subseteq Nat
    BY NamesShape DEF TypeOK, ControlOK
  <1>3. ASSUME NEW k \in 1 .. Len(Names), NEW n, n = Names[k]
        PROVE  IF k > position THEN Untouched(n)' ELSE Retained(n)'
    <2>1. n \in Name
      BY <1>3, NamesShape
    <2> QED
      BY <1>3, <2>1, EntryFrame
  <1>4. CASE position < Len(Names)
    <2>1. GoTo("open", position + 1)
      BY <1>4 DEF AfterRetained
    <2>2. ASSUME NEW k \in 1 .. Len(Names) PROVE Progress(k)'
      <3>1. PICK n : n = Names[k]
        OBVIOUS
      <3>2. k \in Nat /\ (k >= position + 1 <=> k > position)
            /\ (k < position + 1 <=> ~(k > position))
        BY <1>2
      <3>3. PICK j : j = position + 1
        OBVIOUS
      <3>4. GoTo("open", j)
        BY <2>1, <3>3
      <3> QED
        BY <1>3, <3>1, <3>2, <3>3, <3>4, ProgressAfterGo DEF After
    <2> QED
      BY <1>1, <2>1, <2>2, ForwardStep
  <1>5. CASE ~(position < Len(Names))
    <2>1. PICK p \in {"openStaged", "validate"} : GoTo(p, 1)
      BY <1>5 DEF AfterRetained
    <2>2. ASSUME NEW k \in 1 .. Len(Names) PROVE Progress(k)'
      <3>1. PICK n : n = Names[k]
        OBVIOUS
      <3>2. ~(k > position) /\ ~(k < 1)
        BY <1>2, <1>5
      <3> QED
        BY <1>3, <2>1, <3>1, <3>2, ProgressAfterGo DEF After
    <2> QED
      BY <1>1, <2>1, <2>2, ForwardStep
  <1> QED
    BY <1>4, <1>5

LEMMA StartStep ==
    ASSUME Safe, OriginalIsOld, Orderly, original' = original, Names' = Names,
           Start \/ Create
    PROVE  Orderly'
  <1>1. /\ UNCHANGED <<place, retained, installed, committed>>
        /\ phase \in {"start", "create"}
    BY DEF Start, Create, entries, history
  <1>2. ~committed /\ outcome = "none" /\ NobodyElseActed'
    BY <1>1, NobodyElseFrame DEF Orderly, Told, Before
  <1>3. \A k \in 1 .. Len(Names) : Untouched(Names[k])
    BY <1>1 DEF Orderly, Progress
  <1>4. CASE Leave("raised")
    BY <1>1, <1>2, <1>3, <1>4, LeaveOld
  <1>5. ASSUME NEW p \in {"create", "open"}, GoTo(p, 1), outcome' = outcome
        PROVE  Orderly'
    <2>1. ASSUME NEW k \in 1 .. Len(Names) PROVE Progress(k)'
      <3>1. PICK n : n = Names[k]
        OBVIOUS
      <3>2. n \in Name /\ Untouched(n) /\ k >= 1 /\ ~(k < 1)
        BY <1>3, <3>1, NamesShape
      <3>3. Untouched(n)'
        BY <1>1, <3>2, EntryFrame
      <3> QED
        BY <1>5, <3>1, <3>2, <3>3, ProgressAfterGo DEF After
    <2> QED
      BY <1>1, <1>2, <1>5, <2>1, ForwardStep
  <1> QED
    BY <1>4, <1>5 DEF Start, Create

\* Before it is opened, an entry is at its public name exactly if it was there.
LEMMA OpenShape ==
    ASSUME Safe, Orderly, Untouched(Here)
    PROVE  At("public", Here) = IF WasThere(Here) THEN {Old(Here)} ELSE {}
  <1>1. Here \in Name /\ Old(Here) \in Object
    BY Positions, ObjectShape DEF Safe
  <1>2. At("public", Here) \subseteq {Old(Here), New(Here)}
    BY <1>1, AtShape, PlacesDiffer DEF Orderly
  <1>3. New(Here) \notin At("public", Here)
    <2>1. place[New(Here)][1] = "staging"
      BY PublicDiffers DEF Untouched, NewIn
    <2> QED
      BY <2>1, PublicDiffers DEF At
  <1>4. CASE WasThere(Here)
    BY <1>1, <1>2, <1>3, <1>4 DEF Untouched, OldIn, At
  <1>5. CASE ~WasThere(Here)
    <2>1. place[Old(Here)] = Nowhere
      BY <1>5 DEF Untouched, OldIn
    <2>2. Old(Here) \notin At("public", Here)
      BY <2>1, PublicDiffers DEF At
    <2> QED
      BY <1>2, <1>3, <1>5, <2>2
  <1> QED
    BY <1>4, <1>5

\* The entries the transaction is not at.
LEMMA OthersDiffer ==
    ASSUME TypeOK, NEW k \in 1 .. Len(Names), k # position
    PROVE  Names[k] \in Name /\ Names[k] # Here
  BY NamesShape, NamesDiffer DEF Here, TypeOK, ControlOK

LEMMA OpenStep ==
    ASSUME Safe, OriginalIsOld, Orderly, original' = original, Names' = Names, Calm',
           refused' = refused, Open
    PROVE  Orderly'
  <1>1. /\ phase = "open" /\ UNCHANGED <<place, installed, committed, named>>
    BY DEF Open, history
  <1>2. ~committed /\ outcome = "none" /\ NobodyElseActed'
    BY <1>1, NobodyElseFrame DEF Orderly, Told, Before
  <1>3. /\ position \in 1 .. Len(Names) /\ Len(Names) \in Nat
        /\ 1 .. Len(Names) \subseteq Nat /\ Here = Names[position]
        /\ Here \in Name /\ TypeOK
    BY NamesShape DEF Safe, TypeOK, ControlOK, Here
  <1>4. ASSUME NEW k \in 1 .. Len(Names)
        PROVE  IF k >= position THEN Untouched(Names[k]) ELSE Retained(Names[k])
    BY <1>1, <1>3 DEF Orderly, Progress
  <1>5. Untouched(Here)
    BY <1>3, <1>4
  <1>6. CASE At("public", Here) = {} /\ retained' = retained /\ outcome' = outcome
             /\ AfterRetained
    <2>1. ~WasThere(Here)
      BY <1>5, <1>6, OpenShape
    <2>2. Retained(Here)
      BY <1>5, <2>1 DEF Untouched, Retained, Noted, OldIn
    <2>3. ASSUME NEW k \in 1 .. Len(Names)
          PROVE  IF k > position THEN Untouched(Names[k]) ELSE Retained(Names[k])
      BY <1>3, <1>4, <2>2
    <2> QED
      BY <1>1, <1>3, <1>6, <2>3, AfterRetainedStep DEF Before
  <1>7. ASSUME NEW o \in At("public", Here), Move("retain", position),
               retained' = [retained EXCEPT ![Here] = o], outcome' = outcome
        PROVE  Orderly'
    <2>1. WasThere(Here) /\ o = Old(Here)
      BY <1>5, <1>7, OpenShape
    <2>2. /\ phase' = "retain" /\ position' = position /\ moving' = "rename"
          /\ raised' = FALSE
      BY <1>7 DEF Move
    <2>3. retained \in [Name -> Object \cup {NoObject}]
      BY <1>3 DEF TypeOK, EntriesOK
    <2>4. ASSUME NEW n \in Name, n = Here PROVE Retaining(n)'
      <3>1. retained'[n] = Old(n)
        BY <1>7, <2>1, <2>3, <2>4
      <3>2. WasThere(n)' /\ WasThere(n)
        BY <2>1, <2>4 DEF WasThere
      <3>3. OldIn(n, {"public"})' /\ NewIn(n, {"staging"})' /\ installed'[n] = NoObject
        BY <1>1, <1>5, <2>4, <3>2 DEF Untouched, OldIn, NewIn
      <3>4. Underway("public", "backup")' = {"public"}
        BY <2>2 DEF Underway
      <3> QED
        BY <3>1, <3>2, <3>3, <3>4 DEF Retaining, Noted
    <2>5. ASSUME NEW k \in 1 .. Len(Names) PROVE Progress(k)'
      <3>1. PICK n : n = Names[k]
        OBVIOUS
      <3>2. n \in Name /\ n = Names[k]'
        BY <3>1, NamesShape
      <3>3. CASE k = position
        <4>1. Retaining(n)'
          BY <1>3, <2>4, <3>1, <3>2, <3>3
        <4> QED
          BY <1>3, <2>2, <3>2, <3>3, <4>1 DEF Progress, After
      <3>4. CASE k # position
        <4>1. n # Here
          BY <1>3, <3>1, <3>4, OthersDiffer
        <4>2. retained'[n] = retained[n]
          BY <1>7, <2>3, <3>2, <4>1
        <4>3. IF k >= position THEN Untouched(n)' ELSE Retained(n)'
          BY <1>1, <1>4, <3>1, <3>2, <4>2, EntryFrame
        <4> QED
          BY <1>3, <2>2, <3>2, <3>4, <4>3 DEF Progress, After
      <3> QED
        BY <3>3, <3>4
    <2>6. Told'
      BY <1>1, <1>2, <1>7, <2>2 DEF Told, Before, Rollback, After
    <2> QED
      BY <1>2, <2>5, <2>6 DEF Orderly
  <1>8. CASE Fault /\ OpenFails /\ retained' = retained
    <2>1. Spent'
      BY <1>3, <1>8, OnlyError
    <2>2. CASE named
      <3>1. \A k \in 1 .. Len(Names) : Untouched(Names[k])
        BY <1>3, <1>4, <2>2 DEF Names
      <3> QED
        BY <1>1, <1>2, <1>8, <2>2, <3>1, LeaveOld DEF OpenFails
    <2>3. CASE ~named
      <3>1. \A k \in 1 .. Len(Names) : Undecided(Names[k])
        BY <1>1, <1>3, ForwardIsUndecided DEF Before
      <3> QED
        BY <1>1, <1>2, <1>8, <2>1, <2>3, <3>1, RollBackStep DEF OpenFails
    <2> QED
      BY <2>2, <2>3
  <1> QED
    BY <1>6, <1>7, <1>8 DEF Open

LEMMA ValidateStep ==
    ASSUME Safe, Orderly, original' = original, Names' = Names, Validate
    PROVE  Orderly'
  <1>1. /\ UNCHANGED <<place, retained, installed, committed>> /\ phase = "validate"
    BY DEF Validate, entries
  <1>2. ~committed /\ outcome = "none" /\ NobodyElseActed' /\ TypeOK
    BY <1>1, NobodyElseFrame DEF Orderly, Told, Before, Safe
  <1>3. CASE GoTo("openStaged", 1) /\ outcome' = outcome
    <2>1. ASSUME NEW k \in 1 .. Len(Names) PROVE Progress(k)'
      <3>1. PICK n : n = Names[k]
        OBVIOUS
      <3>2. n \in Name /\ Retained(n) /\ ~(k < 1)
        BY <1>1, <3>1, NamesShape DEF Orderly, Progress
      <3>3. Retained(n)'
        BY <1>1, <3>2, EntryFrame
      <3> QED
        BY <1>3, <3>1, <3>2, <3>3, ProgressAfterGo DEF After
    <2> QED
      BY <1>1, <1>2, <1>3, <2>1, ForwardStep
  <1>4. CASE RollBack /\ refused' = TRUE
    <2>1. Spent'
      BY <1>4 DEF Spent
    <2>2. \A k \in 1 .. Len(Names) : Undecided(Names[k])
      BY <1>1, <1>2, ForwardIsUndecided DEF Before
    <2> QED
      BY <1>1, <1>2, <1>4, <2>1, <2>2, RollBackStep
  <1> QED
    BY <1>3, <1>4 DEF Validate

LEMMA OpenStagedStep ==
    ASSUME Safe, Orderly, original' = original, Names' = Names, Calm',
           refused' = refused, OpenStaged
    PROVE  Orderly'
  <1>1. /\ phase = "openStaged" /\ UNCHANGED <<place, retained, committed>>
    BY DEF OpenStaged, history
  <1>2. ~committed /\ outcome = "none" /\ NobodyElseActed'
    BY <1>1, NobodyElseFrame DEF Orderly, Told, Before
  <1>3. /\ position \in 1 .. Len(Names) /\ 1 .. Len(Names) \subseteq Nat
        /\ Here = Names[position] /\ Here \in Name /\ TypeOK
    BY NamesShape DEF Safe, TypeOK, ControlOK, Here
  <1>4. ASSUME NEW k \in 1 .. Len(Names)
        PROVE  IF k >= position THEN Retained(Names[k]) ELSE Installed(Names[k])
    BY <1>1, <1>3 DEF Orderly, Progress
  <1>5. Retained(Here)
    BY <1>3, <1>4
  <1>6. CASE /\ installed' = [installed EXCEPT ![Here] = New(Here)]
             /\ Move("install", position) /\ outcome' = outcome
    <2>1. /\ phase' = "install" /\ position' = position /\ moving' = "rename"
          /\ raised' = FALSE
      BY <1>6 DEF Move
    <2>2. installed \in [Name -> Object \cup {NoObject}]
      BY <1>3 DEF TypeOK, EntriesOK
    <2>3. ASSUME NEW n \in Name, n = Here PROVE Installing(n)'
      <3>1. installed'[n] = New(n)
        BY <1>6, <2>2, <2>3
      <3>2. /\ OldIn(n, {"backup"})' /\ NewIn(n, {"staging"})' /\ Noted(n)'
        BY <1>1, <1>5, <2>3 DEF Retained, OldIn, NewIn, Noted, WasThere
      <3>3. Underway("staging", "public")' = {"staging"}
        BY <2>1 DEF Underway
      <3> QED
        BY <3>1, <3>2, <3>3 DEF Installing
    <2>4. ASSUME NEW k \in 1 .. Len(Names) PROVE Progress(k)'
      <3>1. PICK n : n = Names[k]
        OBVIOUS
      <3>2. n \in Name /\ n = Names[k]'
        BY <3>1, NamesShape
      <3>3. CASE k = position
        <4>1. Installing(n)'
          BY <1>3, <2>3, <3>1, <3>2, <3>3
        <4> QED
          BY <1>3, <2>1, <3>2, <3>3, <4>1 DEF Progress, After
      <3>4. CASE k # position
        <4>1. n # Here
          BY <1>3, <3>1, <3>4, OthersDiffer
        <4>2. installed'[n] = installed[n]
          BY <1>6, <2>2, <3>2, <4>1
        <4>3. IF k >= position THEN Retained(n)' ELSE Installed(n)'
          BY <1>1, <1>4, <3>1, <3>2, <4>2, EntryFrame
        <4> QED
          BY <1>3, <2>1, <3>2, <3>4, <4>3 DEF Progress, After
      <3> QED
        BY <3>3, <3>4
    <2>5. Told'
      BY <1>1, <1>2, <1>6, <2>1 DEF Told, Before, Rollback, After
    <2> QED
      BY <1>2, <2>4, <2>5 DEF Orderly
  <1>7. CASE Fault /\ RollBack /\ installed' = installed
    <2>1. Spent'
      BY <1>3, <1>7, OnlyError
    <2>2. \A k \in 1 .. Len(Names) : Undecided(Names[k])
      BY <1>1, <1>3, ForwardIsUndecided DEF Before
    <2> QED
      BY <1>1, <1>2, <1>7, <2>1, <2>2, RollBackStep
  <1> QED
    BY <1>6, <1>7 DEF OpenStaged

\* A rename that finds its entry at the source and nothing at the target.
LEMMA MoveShape ==
    ASSUME TypeOK, NobodyElseActed, moving # "none", RecoveryIsOpen,
           NEW e, NEW f, {e, f} = {Old(Here), New(Here)}, e # f,
           place[e] = <<Source, Here>>,
           place[f] \notin {<<Source, Here>>, <<Target, Here>>}
    PROVE  /\ Moved = [place EXCEPT ![e] = <<Target, Here>>]
           /\ Moved[e] = <<Target, Here>> /\ Moved # place
           /\ \A o \in Object \ {e} : Moved[o] = place[o]
  <1>1. /\ Source \in Area /\ Target \in Area /\ Source # Target
    BY DEF RecoveryIsOpen, Source, Target, Area
  <1>2. Here \in Name /\ e \in Object /\ f \in Object
    BY Positions, ObjectShape
  <1>3. At(Source, Here) = {e}
    BY <1>1, <1>2, AtShape DEF At
  <1>4. At(Target, Here) = {}
    BY <1>1, <1>2, AtShape DEF At
  <1>5. place \in [Object -> Place]
    BY DEF TypeOK, PlacesOK
  <1>6. Moved = [place EXCEPT ![e] = <<Target, Here>>]
    BY <1>2, <1>3, <1>4, <1>5 DEF Moved
  <1> QED
    BY <1>1, <1>2, <1>5, <1>6

\* The object a rename is about to move is at the source, the other own object of
\* the entry at neither name.
LEMMA RenameShape ==
    ASSUME Safe, Orderly, moving = "rename",
           NEW e, e = IF phase \in {"retain", "restore"} THEN Old(Here) ELSE New(Here)
    PROVE  /\ phase \in {"retain", "install", "quarantine", "restore"}
           /\ Moved = [place EXCEPT ![e] = <<Target, Here>>]
           /\ Moved[e] = <<Target, Here>> /\ Moved # place
           /\ \A o \in Object \ {e} : Moved[o] = place[o]
  <1>1. phase \in {"retain", "install", "quarantine", "restore"}
    BY DEF Safe, RecoveryIsOpen
  <1>2. TypeOK /\ RecoveryIsOpen /\ NobodyElseActed /\ Here \in Name
    BY Positions DEF Safe, Orderly
  <1>3. Progress(position) /\ Here = Names[position] /\ ~(position > position)
    BY <1>2, NamesShape DEF Orderly, TypeOK, ControlOK, Here
  <1>4. \A a, b, S : a \in {b} \X {Here} => a = <<b, Here>>
    OBVIOUS
  <1>5. PICK f : f = IF phase \in {"retain", "restore"} THEN New(Here) ELSE Old(Here)
    OBVIOUS
  <1>6. {e, f} = {Old(Here), New(Here)} /\ e # f
    BY <1>2, <1>5, PairsDiffer
  <1>7. place[e] = <<Source, Here>> /\ place[f] \notin {<<Source, Here>>, <<Target, Here>>}
    <2>1. CASE phase = "retain"
      <3>1. Retaining(Here)
        BY <1>3, <2>1 DEF Progress
      <3>2. place[e] = <<"public", Here>> /\ place[f][1] = "staging"
        BY <1>5, <2>1, <3>1, PublicDiffers DEF Retaining, Underway, OldIn, NewIn
      <3> QED
        BY <2>1, <3>2 DEF Source, Target
    <2>2. CASE phase = "install"
      <3>1. Installing(Here)
        BY <1>3, <2>2 DEF Progress, Before
      <3>2. place[e] = <<"staging", Here>> /\ place[f] \in {"backup"} \X {Here} \cup {Nowhere}
        BY <1>5, <2>2, <3>1 DEF Installing, Underway, OldIn, NewIn
      <3>3. place[f][1] \in {"backup", "nowhere"}
        BY <3>2, PublicDiffers, PlaceShape
      <3> QED
        BY <2>2, <3>2, <3>3 DEF Source, Target
    <2>3. CASE phase = "quarantine"
      <3>1. Withdrawing(Here)
        BY <1>3, <2>3 DEF Progress
      <3>2. place[e] = <<"public", Here>> /\ place[f] \in {"backup"} \X {Here} \cup {Nowhere}
        BY <1>5, <2>3, <3>1 DEF Withdrawing, Underway, OldIn, NewIn
      <3>3. place[f][1] \in {"backup", "nowhere"}
        BY <3>2, PublicDiffers, PlaceShape
      <3> QED
        BY <2>3, <3>2, <3>3 DEF Source, Target
    <2>4. CASE phase = "restore"
      <3>1. Restoring(Here)
        BY <1>3, <2>4 DEF Progress
      <3>2. place[e] = <<"backup", Here>> /\ place[f][1] \in {"staging", "quarantine"}
        BY <1>5, <2>4, <3>1, PublicDiffers DEF Restoring, Underway, OldIn, NewIn
      <3> QED
        BY <2>4, <3>2 DEF Source, Target
    <2> QED
      BY <1>1, <2>1, <2>2, <2>3, <2>4
  <1>8. moving # "none"
    OBVIOUS
  <1> QED
    BY <1>1, <1>2, <1>6, <1>7, <1>8, MoveShape

LEMMA RenameStep ==
    ASSUME Safe, Orderly, original' = original, Names' = Names, Calm',
           refused' = refused, Rename
    PROVE  Orderly'
  <1>1. /\ moving = "rename" /\ moving' = "reconcile"
        /\ UNCHANGED <<phase, position, retained, installed, outcome, committed>>
    BY DEF Rename, entries, result, history
  <1>2. /\ position \in 1 .. Len(Names) /\ Len(Names) \in Nat
        /\ Here = Names[position] /\ Here \in Name /\ TypeOK
        /\ 1 .. Len(Names) \subseteq Nat
    BY NamesShape DEF Safe, TypeOK, ControlOK, Here
  <1>3. PICK e : e = IF phase \in {"retain", "restore"} THEN Old(Here) ELSE New(Here)
    OBVIOUS
  <1>4. /\ phase \in {"retain", "install", "quarantine", "restore"}
        /\ Moved = [place EXCEPT ![e] = <<Target, Here>>]
        /\ Moved[e] = <<Target, Here>> /\ Moved # place
        /\ \A o \in Object \ {e} : Moved[o] = place[o]
    BY <1>1, <1>3, RenameShape
  <1>5. \/ place' = Moved /\ raised' = FALSE /\ faults' = faults
        \/ place' \in {place, Moved} /\ raised' = TRUE /\ Fault
    BY <1>4 DEF Rename
  <1>6. Fault => Spent' /\ ~Spent
    BY <1>2, OnlyError
  <1>7. /\ phase \in {"quarantine", "restore"} => Spent
        /\ Spent /\ faults' = faults => Spent'
    BY DEF Orderly, Told, Rollback, Spent
  <1>8. e \in Ours /\ e[2] = Here /\ e \in Object
    BY <1>2, <1>3, PairsDiffer, ObjectShape
  <1>9. NobodyElseActed'
    <2>1. Target \in Area
      BY <1>4 DEF Target, Area
    <2>2. \A o \in Object : place'[o] = place[o] \/ (o = e /\ place'[o] = <<Target, Here>>)
      BY <1>4, <1>5
    <2> QED
      <3>1. <<Target, Here>> \in Area \X {e[2]}
        BY <1>8, <2>1
      <3>2. ASSUME NEW o \in Object
            PROVE  \/ place'[o] \in {Nowhere, Gone}
                   \/ o \in Ours /\ place'[o] \in Area \X {o[2]}
        <4>1. CASE place'[o] = place[o]
          BY <4>1 DEF Orderly, NobodyElseActed
        <4>2. CASE o = e /\ place'[o] = <<Target, Here>>
          BY <1>8, <3>1, <4>2
        <4> QED
          BY <2>2, <4>1, <4>2
      <3> QED
        BY <3>2 DEF NobodyElseActed
  <1>10. Told'
    <2>1. raised' => Spent'
      BY <1>5, <1>6
    <2>2. phase \in Rollback => Spent'
      BY <1>4, <1>5, <1>6, <1>7 DEF Rollback
    <2> QED
      BY <1>1, <1>4, <2>1, <2>2 DEF Orderly, Told, Before, Rollback, After
  <1>11. ASSUME NEW k \in 1 .. Len(Names), k # position PROVE Progress(k)'
    <2>1. PICK n : n = Names[k]
      OBVIOUS
    <2>2. n \in Name /\ n # Here
      BY <1>2, <1>11, <2>1, OthersDiffer
    <2>3. Old(n) # e /\ New(n) # e /\ Old(n) \in Object /\ New(n) \in Object
      BY <1>2, <1>3, <2>2, PairsDiffer, ObjectShape
    <2>4. place'[Old(n)] = place[Old(n)] /\ place'[New(n)] = place[New(n)]
      BY <1>4, <1>5, <2>3
    <2>5. Progress(k) /\ n = Names[k]'
      BY <2>1 DEF Orderly
    <2> QED
      BY <1>1, <1>2, <1>4, <1>11, <2>1, <2>2, <2>4, <2>5, EntryFrame
         DEF Progress, After
  <1>12. ASSUME NEW n, n = Here
         PROVE  /\ phase = "retain" => Retaining(n)'
                /\ phase = "install" => Installing(n)'
                /\ phase = "quarantine" => Withdrawing(n)'
                /\ phase = "restore" => Restoring(n)'
    <2>1. n \in Name /\ Progress(position) /\ n = Names[position] /\ Old(n) # New(n)
          /\ Old(n) \in Object /\ New(n) \in Object
      BY <1>2, <1>12, PairsDiffer, ObjectShape DEF Orderly
    <2>2. WasThere(n)' <=> WasThere(n)
      BY DEF WasThere
    <2>3. Noted(n)' <=> Noted(n)
      BY <1>1, <2>2 DEF Noted
    <2>4. ASSUME phase = "retain" PROVE Retaining(n)'
      <3>1. Retaining(n) /\ e = Old(n) /\ Target = "backup"
        BY <1>3, <1>12, <2>1, <2>4 DEF Progress, Target
      <3>2. place'[New(n)] = place[New(n)]
        BY <1>4, <1>5, <2>1, <3>1
      <3>3. place'[Old(n)] \in Underway("public", "backup")' \X {n}
        <4>1. place[Old(n)] \in {"public"} \X {n}
          BY <1>1, <3>1 DEF Retaining, OldIn, Underway
        <4> QED
          BY <1>1, <1>4, <1>5, <1>12, <3>1, <4>1 DEF Underway
      <3> QED
        BY <1>1, <2>2, <2>3, <3>1, <3>2, <3>3 DEF Retaining, OldIn, NewIn
    <2>5. ASSUME phase = "install" PROVE Installing(n)'
      <3>1. Installing(n) /\ e = New(n) /\ Target = "public"
        BY <1>3, <1>12, <2>1, <2>5 DEF Progress, Before, Target
      <3>2. place'[Old(n)] = place[Old(n)]
        BY <1>4, <1>5, <2>1, <3>1
      <3>3. place'[New(n)] \in Underway("staging", "public")' \X {n}
        <4>1. place[New(n)] \in {"staging"} \X {n}
          BY <1>1, <3>1 DEF Installing, NewIn, Underway
        <4> QED
          BY <1>1, <1>4, <1>5, <1>12, <3>1, <4>1 DEF Underway
      <3> QED
        BY <1>1, <2>2, <2>3, <3>1, <3>2, <3>3 DEF Installing, OldIn, NewIn
    <2>6. ASSUME phase = "quarantine" PROVE Withdrawing(n)'
      <3>1. Withdrawing(n) /\ e = New(n) /\ Target = "quarantine"
        BY <1>1, <1>2, <1>3, <1>12, <2>1, <2>6 DEF Progress, Target
      <3>2. place' = Moved /\ raised' = FALSE
        BY <1>5, <1>6, <1>7, <2>6
      <3>3. place'[Old(n)] = place[Old(n)]
        BY <1>4, <2>1, <3>1, <3>2
      <3>4. place'[New(n)] \in Underway("public", "quarantine")' \X {n}
        BY <1>1, <1>4, <1>12, <3>1, <3>2 DEF Underway
      <3> QED
        BY <1>1, <2>2, <2>3, <3>1, <3>2, <3>3, <3>4 DEF Withdrawing, OldIn, NewIn
    <2>7. ASSUME phase = "restore" PROVE Restoring(n)'
      <3>1. Restoring(n) /\ e = Old(n) /\ Target = "public"
        BY <1>1, <1>2, <1>3, <1>12, <2>1, <2>7 DEF Progress, Target
      <3>2. place' = Moved /\ raised' = FALSE
        BY <1>5, <1>6, <1>7, <2>7
      <3>3. place'[New(n)] = place[New(n)]
        BY <1>4, <2>1, <3>1, <3>2
      <3>4. place'[Old(n)] \in Underway("backup", "public")' \X {n}
        BY <1>1, <1>4, <1>12, <3>1, <3>2 DEF Underway
      <3> QED
        BY <1>1, <2>2, <2>3, <3>1, <3>2, <3>3, <3>4 DEF Restoring, OldIn, NewIn
    <2> QED
      BY <2>4, <2>5, <2>6, <2>7
  <1>13. ASSUME NEW k \in 1 .. Len(Names), k = position PROVE Progress(k)'
    <2>1. PICK n : n = Here
      OBVIOUS
    <2>2. n = Names[k]' /\ position' = k /\ ~(k > k) /\ ~(k < k)
      BY <1>1, <1>2, <1>13, <2>1
    <2> QED
      BY <1>1, <1>4, <1>12, <2>1, <2>2 DEF Progress, After
  <1> QED
    BY <1>9, <1>10, <1>11, <1>13 DEF Orderly

\* Rollback comes to an entry with those after it done.
LEMMA PrecedingStep ==
    ASSUME TypeOK, Orderly, Names' = Names, UNCHANGED <<committed, outcome>>, Spent',
           NobodyElseActed', phase \in {"quarantine", "restore", "discard"}, Preceding,
           \A k \in 1 .. Len(Names), n \in Name : n = Names[k] =>
             /\ phase = "quarantine" =>
                  IF k >= position THEN Withdrawn(n)' ELSE Undecided(n)'
             /\ phase = "restore" =>
                  IF k >= position THEN Restored(n)' ELSE Withdrawn(n)'
             /\ phase = "discard" => Restored(n)'
    PROVE  Orderly'
  <1>1. /\ position \in 1 .. Len(Names) /\ Len(Names) \in Nat
        /\ 1 .. Len(Names) \subseteq Nat /\ outcome = "raised" /\ ~committed
    BY NamesShape DEF TypeOK, ControlOK, Orderly, Told, Rollback
  <1>2. ASSUME NEW p \in Rollback, NEW j, GoTo(p, j) PROVE Told'
    BY <1>1, <1>2 DEF GoTo, Told, Before, Rollback, After
  <1>3. CASE position > 1
    <2>1. PICK p \in {"quarantine", "restore", "discard"} : p = phase
      OBVIOUS
    <2>2. PICK j : j = position - 1
      OBVIOUS
    <2>3. GoTo(p, j)
      BY <1>3, <2>1, <2>2 DEF Preceding
    <2>4. ASSUME NEW k \in 1 .. Len(Names) PROVE Progress(k)'
      <3>1. PICK n \in Name : n = Names[k]
        BY NamesShape
      <3>2. k > j <=> k >= position
        BY <1>1, <2>2
      <3> QED
        BY <2>1, <2>3, <3>1, <3>2, ProgressAfterGo DEF After
    <2>5. Told'
      BY <1>2, <2>1, <2>3 DEF Rollback
    <2> QED
      BY <2>4, <2>5 DEF Orderly
  <1>4. CASE ~(position > 1)
    <2>1. \A k \in 1 .. Len(Names) : k >= position /\ ~(k > Len(Names))
      BY <1>1, <1>4
    <2>2. PICK l : l = Len(Names)
      OBVIOUS
    <2>3. CASE phase = "quarantine"
      <3>1. GoTo("restore", l)
        BY <1>4, <2>2, <2>3 DEF Preceding
      <3>2. ASSUME NEW k \in 1 .. Len(Names) PROVE Progress(k)'
        <4>1. PICK n \in Name : n = Names[k]
          BY NamesShape
        <4>2. Withdrawn(n)' /\ ~(k > l)
          BY <2>1, <2>2, <2>3, <4>1
        <4> QED
          BY <3>1, <4>1, <4>2, ProgressAfterGo DEF After
      <3>3. Told'
        BY <1>2, <3>1 DEF Rollback
      <3> QED
        BY <3>2, <3>3 DEF Orderly
    <2>4. ASSUME phase \in {"restore", "discard"} PROVE Orderly'
      <3>1. PICK p \in {"discard", "tidy"} : \E j : GoTo(p, j)
        BY <1>4, <2>4 DEF Preceding
      <3>2. ASSUME NEW k \in 1 .. Len(Names) PROVE Progress(k)'
        <4>1. PICK n \in Name : n = Names[k]
          BY NamesShape
        <4>2. Restored(n)'
          BY <2>1, <2>4, <4>1
        <4> QED
          BY <3>1, <4>1, <4>2, ProgressAfterGo DEF After
      <3>3. Told'
        BY <1>2, <3>1 DEF Rollback
      <3> QED
        BY <3>2, <3>3 DEF Orderly
    <2> QED
      BY <2>3, <2>4
  <1> QED
    BY <1>3, <1>4

\* With the new entry at its public name and the old one in the recovery directory.
LEMMA InstalledIsSwapped ==
    ASSUME NEW n, Installed(n)
    PROVE  Swapped(n)
  <1>1. place[Old(n)] \in {"backup"} \X {n} \cup {Nowhere}
    BY DEF Installed, OldIn
  <1>2. place[Old(n)][1] \in {"backup", "nowhere"}
    BY <1>1, PublicDiffers, PlaceShape
  <1> QED
    BY <1>2, PublicDiffers DEF Installed, Swapped, Noted

\* A rename that did not raise has moved the entry.
LEMMA ReconcileShape ==
    ASSUME Safe, Orderly, moving = "reconcile", ~raised
    PROVE  /\ phase \in {"retain", "install", "quarantine", "restore"} /\ IsMoved
           /\ phase = "retain" => Retained(Here)
           /\ phase = "install" => Installed(Here)
           /\ phase = "quarantine" => Withdrawn(Here)
           /\ phase = "restore" => Restored(Here)
  <1>1. phase \in {"retain", "install", "quarantine", "restore"}
    BY DEF Safe, RecoveryIsOpen
  <1>2. /\ Progress(position) /\ Here = Names[position] /\ Here \in Name
        /\ ~(position > position) /\ ~(position < position)
        /\ Old(Here) # NoObject /\ New(Here) # NoObject
    BY NamesShape, Positions, ObjectShape
       DEF Safe, Orderly, TypeOK, ControlOK, Here
  <1>3. \A from, to : Underway(from, to) = {to}
    BY DEF Underway
  <1>4. CASE phase = "retain"
    <2>1. Retaining(Here)
      BY <1>2, <1>4 DEF Progress
    <2> QED
      BY <1>2, <1>3, <1>4, <2>1 DEF Retaining, Retained, Noted, OldIn, IsMoved, IsAt,
         Entry, Target
  <1>5. CASE phase = "install"
    <2>1. Installing(Here)
      BY <1>2, <1>5 DEF Progress, Before
    <2> QED
      BY <1>2, <1>3, <1>5, <2>1 DEF Installing, Installed, NewIn, IsMoved, IsAt,
         Entry, Target
  <1>6. CASE phase = "quarantine"
    <2>1. Withdrawing(Here)
      BY <1>2, <1>6 DEF Progress
    <2>2. IsMoved
      BY <1>2, <1>3, <1>6, <2>1 DEF Withdrawing, NewIn, IsMoved, IsAt, Entry, Target
    <2>3. Withdrawn(Here)
      BY <1>3, <2>1 DEF Withdrawing, Withdrawn, OldIn, NewIn
    <2> QED
      BY <1>6, <2>2, <2>3
  <1>7. CASE phase = "restore"
    <2>1. Restoring(Here)
      BY <1>2, <1>7 DEF Progress
    <2> QED
      BY <1>2, <1>3, <1>7, <2>1 DEF Restoring, Restored, Noted, OldIn, IsMoved, IsAt,
         Entry, Target
  <1> QED
    BY <1>1, <1>4, <1>5, <1>6, <1>7

LEMMA LengthShape == Len(Names) \in Nat /\ 1 .. Len(Names) \subseteq Nat
  BY NamesShape

LEMMA AfterInstalledStep ==
    ASSUME TypeOK, Orderly, original' = original, Names' = Names,
           UNCHANGED <<place, retained, installed, outcome>>, AfterInstalled,
           phase = "install", committed' = committed \/ position = Len(Names),
           position = Len(Names) => committed',
           \A k \in 1 .. Len(Names) :
             IF k > position THEN Retained(Names[k]) ELSE Installed(Names[k])
    PROVE  Orderly'
  <1>1. NobodyElseActed' /\ outcome = "none" /\ ~committed
    BY NobodyElseFrame DEF Orderly, Told, Before
  <1>2. /\ position \in 1 .. Len(Names) /\ Len(Names) \in Nat
        /\ 1 .. Len(Names) \subseteq Nat
    BY Positions, LengthShape
  <1>3. CASE position < Len(Names)
    <2>1. PICK j : j = position + 1
      OBVIOUS
    <2>2. GoTo("openStaged", j)
      BY <1>3, <2>1 DEF AfterInstalled
    <2>3. ASSUME NEW k \in 1 .. Len(Names) PROVE Progress(k)'
      <3>1. PICK n \in Name : n = Names[k]
        BY NamesShape
      <3>2. (k >= j <=> k > position) /\ (k < j <=> ~(k > position))
        BY <1>2, <2>1
      <3>3. IF k > position THEN Retained(n)' ELSE Installed(n)'
        BY <3>1, EntryFrame
      <3> QED
        BY <2>2, <3>1, <3>2, <3>3, ProgressAfterGo DEF After
    <2>4. committed' = committed
      BY <1>2, <1>3
    <2> QED
      BY <1>1, <2>2, <2>3, <2>4, ForwardStep
  <1>4. CASE ~(position < Len(Names))
    <2>1. GoTo("remove", 1) /\ committed'
      BY <1>2, <1>4 DEF AfterInstalled
    <2>2. ASSUME NEW k \in 1 .. Len(Names) PROVE Progress(k)'
      <3>1. PICK n \in Name : n = Names[k]
        BY NamesShape
      <3>2. ~(k > position)
        BY <1>2, <1>4
      <3>3. Swapped(n)
        BY <3>1, <3>2, InstalledIsSwapped
      <3>4. Swapped(n)'
        BY <3>3, EntryFrame
      <3> QED
        BY <2>1, <3>1, <3>4, ProgressAfterGo
    <2>3. Told'
      BY <1>1, <2>1 DEF GoTo, Told, Before, Rollback, After
    <2> QED
      BY <1>1, <2>2, <2>3 DEF Orderly
  <1> QED
    BY <1>3, <1>4

LEMMA ReconcileStep ==
    ASSUME Safe, Orderly, original' = original, Names' = Names, Calm',
           refused' = refused, Reconcile
    PROVE  Orderly'
  <1>1. /\ moving = "reconcile" /\ UNCHANGED <<place, retained, installed>>
        /\ phase \in {"retain", "install", "quarantine", "restore"}
    BY DEF Reconcile, Safe, RecoveryIsOpen
  <1>2. NobodyElseActed'
    BY <1>1, NobodyElseFrame DEF Orderly
  <1>3. /\ position \in 1 .. Len(Names) /\ Len(Names) \in Nat /\ TypeOK
        /\ 1 .. Len(Names) \subseteq Nat /\ Here = Names[position]
    BY NamesShape DEF Safe, TypeOK, ControlOK, Here
  <1>4. Fault => Spent' /\ ~Spent
    BY <1>3, OnlyError
  <1>5. /\ Spent /\ faults' = faults => Spent'
        /\ raised => Spent
        /\ phase \in {"quarantine", "restore"} => Spent /\ ~raised
    <2>1. Progress(position) /\ ~(position > position)
      BY <1>3 DEF Orderly
    <2> QED
      BY <1>1, <2>1 DEF Orderly, Told, Rollback, Spent, Progress, Withdrawing, Restoring
  <1>6. PICK ok \in BOOLEAN :
          /\ IF ok THEN IsMoved /\ faults' = faults
                   ELSE (~IsMoved /\ faults' = faults) \/ Fault
          /\ committed' = (committed \/ (ok /\ phase = "install"
                                          /\ position = Len(Names)))
          /\ CASE phase \in {"quarantine", "restore"} ->
                    Preceding /\ UNCHANGED outcome
               [] phase = "retain" /\ ok -> AfterRetained /\ UNCHANGED outcome
               [] phase = "install" /\ ok -> AfterInstalled /\ UNCHANGED outcome
               [] OTHER -> RollBack
    BY DEF Reconcile
  <1>7. committed \in BOOLEAN
    BY <1>3 DEF TypeOK, ResultOK
  <1>8. CASE phase \in {"retain", "install"} /\ ~ok
    <2>1. RollBack /\ committed' = committed
      BY <1>6, <1>7, <1>8
    <2>2. Spent'
      <3>1. CASE ~IsMoved /\ faults' = faults
        <4>1. raised
          BY <1>1, <3>1, ReconcileShape
        <4> QED
          BY <1>5, <3>1, <4>1
      <3> QED
        BY <1>4, <1>6, <1>8, <3>1
    <2>3. ~committed
      BY <1>8 DEF Orderly, Told, Before
    <2>4. \A k \in 1 .. Len(Names) : Undecided(Names[k])
      BY <1>3, <1>8, ForwardIsUndecided DEF Before
    <2> QED
      BY <1>1, <2>1, <2>2, <2>3, <2>4, RollBackStep
  <1>9. CASE phase \in {"retain", "install"} /\ ok
    <2>1. ~raised
      BY <1>6, <1>9 DEF IsMoved
    <2>2. CASE phase = "retain"
      <3>1. committed' = committed /\ outcome' = outcome /\ AfterRetained
        BY <1>6, <1>7, <1>9, <2>2
      <3>2. Retained(Here)
        BY <1>1, <2>1, <2>2, ReconcileShape
      <3>3. ASSUME NEW k \in 1 .. Len(Names)
            PROVE  IF k > position THEN Untouched(Names[k]) ELSE Retained(Names[k])
        <4>1. k > position \/ k = position \/ k < position
          BY <1>3
        <4> QED
          BY <1>3, <2>2, <3>2, <4>1 DEF Orderly, Progress
      <3> QED
        BY <1>1, <1>3, <2>2, <3>1, <3>3, AfterRetainedStep DEF Before
    <2>3. CASE phase = "install"
      <3>1. outcome' = outcome /\ AfterInstalled
            /\ (position = Len(Names) => committed')
            /\ (committed' = committed \/ position = Len(Names))
        BY <1>6, <1>7, <1>9, <2>3
      <3>2. Installed(Here)
        BY <1>1, <2>1, <2>3, ReconcileShape
      <3>3. ASSUME NEW k \in 1 .. Len(Names)
            PROVE  IF k > position THEN Retained(Names[k]) ELSE Installed(Names[k])
        <4>1. k > position \/ k = position \/ k < position
          BY <1>3
        <4> QED
          BY <1>3, <2>3, <3>2, <4>1 DEF Orderly, Progress
      <3> QED
        BY <1>1, <1>3, <2>3, <3>1, <3>3, AfterInstalledStep
    <2> QED
      BY <1>9, <2>2, <2>3
  <1>10. CASE phase \in {"quarantine", "restore"}
    <2>1. Preceding /\ outcome' = outcome /\ committed' = committed
      BY <1>6, <1>7, <1>10
    <2>2. Spent'
      BY <1>4, <1>5, <1>6, <1>10
    <2>3. /\ phase = "quarantine" => Withdrawn(Here)
          /\ phase = "restore" => Restored(Here)
      BY <1>1, <1>5, <1>10, ReconcileShape
    <2>4. ASSUME NEW k \in 1 .. Len(Names), NEW n \in Name, n = Names[k]
          PROVE  /\ phase = "quarantine" =>
                      IF k >= position THEN Withdrawn(n)' ELSE Undecided(n)'
                 /\ phase = "restore" =>
                      IF k >= position THEN Restored(n)' ELSE Withdrawn(n)'
      <3>1. k > position \/ k = position \/ (k < position /\ ~(k >= position)
                                             /\ ~(k > position))
        BY <1>3
      <3>2. k >= position <=> k > position \/ k = position
        BY <1>3
      <3>3. /\ phase = "quarantine" =>
                 IF k >= position THEN Withdrawn(n) ELSE Undecided(n)
            /\ phase = "restore" =>
                 IF k >= position THEN Restored(n) ELSE Withdrawn(n)
        BY <1>3, <2>3, <2>4, <3>1, <3>2 DEF Orderly, Progress
      <3> QED
        BY <1>1, <3>3, EntryFrame
    <2> QED
      BY <1>2, <1>3, <1>10, <2>1, <2>2, <2>4, PrecedingStep
  <1> QED
    BY <1>1, <1>8, <1>9, <1>10

\* What rollback finds of an entry it has not moved yet.
LEMMA LookBackShape ==
    ASSUME Safe, Orderly, moving = "none", phase \in {"quarantine", "restore"}
    PROVE  /\ phase = "quarantine" =>
                IF IsAt(Entry, <<Source, Here>>)
                  THEN /\ Noted(Here) /\ OldIn(Here, {"backup"})
                       /\ NewIn(Here, {"public"}) /\ installed[Here] = New(Here)
                  ELSE Withdrawn(Here)
           /\ phase = "restore" =>
                IF IsAt(Entry, <<Source, Here>>)
                  THEN /\ WasThere(Here) /\ Noted(Here) /\ OldIn(Here, {"backup"})
                       /\ NewIn(Here, {"staging", "quarantine"})
                  ELSE Restored(Here)
  <1>1. /\ Progress(position) /\ Here = Names[position] /\ Here \in Name
        /\ ~(position > position)
        /\ Old(Here) # NoObject /\ New(Here) # NoObject
    BY NamesShape, Positions, ObjectShape
       DEF Safe, Orderly, TypeOK, ControlOK, Here
  <1>2. CASE phase = "quarantine"
    <2>1. Undecided(Here) /\ Entry = installed[Here] /\ Source = "public"
      BY <1>1, <1>2 DEF Progress, Entry, Source
    <2>2. CASE IsAt(Entry, <<Source, Here>>)
      <3>1. installed[Here] = New(Here) /\ place[New(Here)] = <<"public", Here>>
        BY <1>1, <2>1, <2>2 DEF IsAt, Safe, InstalledIsNew
      <3>2. NewIn(Here, {"public"}) /\ OldIn(Here, {"backup"})
        BY <2>1, <3>1 DEF Undecided, NewIn
      <3>3. OldIn(Here, {"public"}) => ~WasThere(Here)
        <4>1. WasThere(Here) => place[Old(Here)][1] = "backup"
          BY <3>2, PublicDiffers DEF OldIn
        <4> QED
          BY <4>1, PublicDiffers DEF OldIn
      <3>4. Noted(Here)
        BY <2>1, <3>3 DEF Undecided, Noted
      <3> QED
        BY <1>2, <2>2, <3>1, <3>2, <3>4
    <2>3. CASE ~IsAt(Entry, <<Source, Here>>)
      <3>1. ~NewIn(Here, {"public"})
        <4> SUFFICES ASSUME NewIn(Here, {"public"}) PROVE FALSE
          OBVIOUS
        <4>1. installed[Here] = New(Here) /\ place[New(Here)] = <<"public", Here>>
          BY <2>1 DEF Undecided, NewIn
        <4> QED
          BY <1>1, <2>1, <2>3, <4>1 DEF IsAt
      <3>2. NewIn(Here, {"staging", "quarantine"})
        BY <2>1, <3>1 DEF Undecided, NewIn
      <3> QED
        BY <1>2, <2>1, <2>3, <3>2 DEF Undecided, Withdrawn
    <2> QED
      BY <1>2, <2>2, <2>3
  <1>3. CASE phase = "restore"
    <2>1. Withdrawn(Here) /\ Entry = retained[Here] /\ Source = "backup"
      BY <1>1, <1>3 DEF Progress, Entry, Source
    <2>2. CASE IsAt(Entry, <<Source, Here>>)
      <3>1. retained[Here] # NoObject /\ place[retained[Here]] = <<"backup", Here>>
        BY <2>1, <2>2 DEF IsAt
      <3>2. Noted(Here) /\ WasThere(Here) /\ retained[Here] = Old(Here)
        BY <2>1, <3>1 DEF Withdrawn, Noted
      <3> QED
        BY <1>3, <2>1, <2>2, <3>1, <3>2 DEF Withdrawn, OldIn
    <2>3. CASE ~IsAt(Entry, <<Source, Here>>)
      <3>1. OldIn(Here, {"public"})
        <4>1. CASE WasThere(Here) /\ Noted(Here)
          <5>1. place[Old(Here)] # <<"backup", Here>>
            BY <1>1, <2>1, <2>3, <4>1 DEF Noted, IsAt
          <5> QED
            BY <2>1, <4>1, <5>1 DEF Withdrawn, OldIn
        <4> QED
          BY <2>1, <4>1 DEF Withdrawn, OldIn
      <3> QED
        BY <1>3, <2>1, <2>3, <3>1 DEF Withdrawn, Restored
    <2> QED
      BY <1>3, <2>2, <2>3
  <1> QED
    BY <1>2, <1>3

LEMMA LookBackStep ==
    ASSUME Safe, Orderly, original' = original, Names' = Names, Calm',
           refused' = refused, LookBack
    PROVE  Orderly'
  <1>1. /\ moving = "none" /\ phase \in {"quarantine", "restore"}
        /\ UNCHANGED <<place, retained, installed, committed, outcome>>
    BY DEF LookBack, entries, result, history
  <1>2. NobodyElseActed' /\ outcome = "raised" /\ ~committed /\ Spent
    BY <1>1, NobodyElseFrame DEF Orderly, Told, Rollback
  <1>3. /\ position \in 1 .. Len(Names) /\ TypeOK
        /\ 1 .. Len(Names) \subseteq Nat /\ Here = Names[position]
    BY NamesShape DEF Safe, TypeOK, ControlOK, Here
  <1>4. faults' = faults /\ Spent'
    <2>1. ~Fault
      BY <1>2, <1>3, OnlyError
    <2> QED
      BY <1>2, <2>1 DEF LookBack, Spent
  <1>5. ASSUME NEW k \in 1 .. Len(Names), k # position
        PROVE  /\ phase = "quarantine" =>
                    IF k > position THEN Withdrawn(Names[k]) ELSE Undecided(Names[k])
               /\ phase = "restore" =>
                    IF k > position THEN Restored(Names[k]) ELSE Withdrawn(Names[k])
    BY <1>1, <1>5 DEF Orderly, Progress
  <1>6. CASE ~IsAt(Entry, <<Source, Here>>)
    <2>1. Preceding
      BY <1>2, <1>3, <1>6, OnlyError DEF LookBack
    <2>2. ASSUME NEW k \in 1 .. Len(Names), NEW n \in Name, n = Names[k]
          PROVE  /\ phase = "quarantine" =>
                      IF k >= position THEN Withdrawn(n)' ELSE Undecided(n)'
                 /\ phase = "restore" =>
                      IF k >= position THEN Restored(n)' ELSE Withdrawn(n)'
      <3>1. k >= position <=> (k > position \/ k = position)
        BY <1>3
      <3>2. /\ phase = "quarantine" =>
                 IF k >= position THEN Withdrawn(n) ELSE Undecided(n)
            /\ phase = "restore" =>
                 IF k >= position THEN Restored(n) ELSE Withdrawn(n)
        BY <1>1, <1>3, <1>5, <1>6, <2>2, <3>1, LookBackShape
      <3> QED
        BY <1>1, <3>2, EntryFrame
    <2> QED
      BY <1>1, <1>2, <1>3, <1>4, <2>1, <2>2, PrecedingStep
  <1>7. CASE IsAt(Entry, <<Source, Here>>)
    <2>1. Move(phase, position)
      BY <1>2, <1>3, <1>7, OnlyError DEF LookBack
    <2>2. /\ phase' = phase /\ position' = position /\ moving' = "rename"
          /\ raised' = FALSE
      BY <2>1 DEF Move
    <2>3. ASSUME NEW n \in Name, n = Here
          PROVE  /\ phase = "quarantine" => Withdrawing(n)'
                 /\ phase = "restore" => Restoring(n)'
      <3>1. \A from, to : Underway(from, to)' = {from}
        BY <2>2 DEF Underway
      <3>2. WasThere(n)' <=> WasThere(n)
        BY DEF WasThere
      <3>3. Noted(n)' <=> Noted(n)
        BY <1>1, <3>2 DEF Noted
      <3>4. \A A : (OldIn(n, A)' <=> OldIn(n, A)) /\ (NewIn(n, A)' <=> NewIn(n, A))
        BY <1>1, <3>2 DEF OldIn, NewIn
      <3>5. phase = "quarantine" => Withdrawing(n)'
        BY <1>1, <1>7, <2>2, <2>3, <3>1, <3>3, <3>4, LookBackShape DEF Withdrawing
      <3>6. phase = "restore" => Restoring(n)'
        BY <1>1, <1>7, <2>2, <2>3, <3>1, <3>2, <3>3, <3>4, LookBackShape DEF Restoring
      <3> QED
        BY <3>5, <3>6
    <2>4. ASSUME NEW k \in 1 .. Len(Names) PROVE Progress(k)'
      <3>1. PICK n \in Name : n = Names[k]
        BY NamesShape
      <3>2. n = Names[k]'
        BY <3>1
      <3>3. CASE k = position
        <4>1. ~(k > k) /\ ~(k < k)
          BY <1>3
        <4> QED
          BY <1>1, <1>3, <2>2, <2>3, <3>1, <3>2, <3>3, <4>1 DEF Progress, After
      <3>4. CASE k # position
        <4>1. /\ phase = "quarantine" =>
                   IF k > position THEN Withdrawn(n)' ELSE Undecided(n)'
              /\ phase = "restore" =>
                   IF k > position THEN Restored(n)' ELSE Withdrawn(n)'
          BY <1>1, <1>5, <3>1, <3>4, EntryFrame
        <4> QED
          BY <1>1, <2>2, <3>2, <3>4, <4>1 DEF Progress, After
      <3> QED
        BY <3>3, <3>4
    <2>5. Told'
      BY <1>1, <1>2, <1>4, <2>2 DEF Told, Before, Rollback, After
    <2> QED
      BY <1>2, <2>4, <2>5 DEF Orderly
  <1> QED
    BY <1>6, <1>7

LEMMA DiscardStep ==
    ASSUME Safe, Orderly, original' = original, Names' = Names, Calm',
           refused' = refused, Discard
    PROVE  Orderly'
  <1>1. /\ phase = "discard" /\ Preceding
        /\ UNCHANGED <<retained, installed, committed, outcome>>
    BY DEF Discard, entries, result, history
  <1>2. TypeOK /\ Spent /\ Here \in Name /\ position \in 1 .. Len(Names)
    BY <1>1, Positions DEF Orderly, Told, Rollback, Safe
  <1>3. ~Fault
    BY <1>2, OnlyError
  <1>4. Spent'
    BY <1>2, <1>3 DEF Discard, Spent
  <1>5. \A o \in Object : \/ place'[o] = place[o]
                          \/ o = New(Here) /\ place'[o] = Gone
    <2>1. installed[Here] \in {New(Here), NoObject}
      BY <1>2 DEF Safe, InstalledIsNew
    <2>2. place \in [Object -> Place]
      BY <1>2 DEF TypeOK, PlacesOK
    <2>3. CASE /\ IsAt(installed[Here], <<"quarantine", Here>>)
               /\ place' = [place EXCEPT ![installed[Here]] = Gone]
      BY <2>1, <2>2, <2>3 DEF IsAt
    <2>4. CASE place' = place
      BY <2>4
    <2> QED
      BY <1>3, <2>3, <2>4 DEF Discard
  <1>6. NobodyElseActed'
    BY <1>5, NobodyElseFrame DEF Orderly
  <1>7. ASSUME NEW k \in 1 .. Len(Names), NEW n \in Name, n = Names[k]
        PROVE  Restored(n)'
    <2>1. Restored(n)
      BY <1>1, <1>7 DEF Orderly, Progress
    <2>2. place'[Old(n)] = place[Old(n)] /\ place'[New(n)] \in {place[New(n)], Gone}
      BY <1>2, <1>5, PairsDiffer, ObjectShape
    <2>3. WasThere(n)' <=> WasThere(n)
      BY DEF WasThere
    <2> QED
      BY <2>1, <2>2, <2>3 DEF Restored, OldIn, NewIn
  <1> QED
    BY <1>1, <1>2, <1>4, <1>6, <1>7, PrecedingStep

LEMMA TidyStep ==
    ASSUME Safe, OriginalIsOld, Orderly, original' = original, Names' = Names, Tidy
    PROVE  Orderly'
  <1>1. /\ phase = "tidy" /\ Leave(outcome) /\ UNCHANGED <<place, committed>>
    BY DEF Tidy, history
  <1>2. outcome = "raised" /\ ~committed
    BY <1>1 DEF Orderly, Told, Rollback
  <1>3. \A k \in 1 .. Len(Names) : Restored(Names[k])
    BY <1>1 DEF Orderly, Progress
  <1> QED
    BY <1>1, <1>2, <1>3, LeaveOld

LEMMA RemoveStep ==
    ASSUME Safe, Orderly, original' = original, Names' = Names, Remove
    PROVE  Orderly'
  <1>1. /\ phase = "remove" /\ UNCHANGED <<retained, installed, committed>>
    BY DEF Remove, entries, history
  <1>2. TypeOK /\ Here \in Name /\ position \in 1 .. Len(Names) /\ Len(Names) \in Nat
        /\ outcome = "none" /\ committed
    BY <1>1, Positions, LengthShape DEF Orderly, Told, After, Safe
  <1>3. \A k \in 1 .. Len(Names) : Swapped(Names[k])
    BY <1>1 DEF Orderly, Progress, After
  <1>4. \A o \in Object : \/ place'[o] = place[o]
                          \/ /\ o = Old(Here) /\ place'[o] = Gone
                             /\ place[o] \in {"backup"} \X Name
    <2>1. retained[Here] \in {Old(Here), NoObject}
      BY <1>2, <1>3 DEF Swapped, Here
    <2>2. place \in [Object -> Place]
      BY <1>2 DEF TypeOK, PlacesOK
    <2>3. CASE /\ IsAt(retained[Here], <<"backup", Here>>)
               /\ place' = [place EXCEPT ![retained[Here]] = Gone]
      <3>1. /\ retained[Here] = Old(Here) /\ place[Old(Here)] = <<"backup", Here>>
            /\ place' = [place EXCEPT ![Old(Here)] = Gone]
        BY <2>1, <2>3 DEF IsAt
      <3>2. place[Old(Here)] \in {"backup"} \X Name
        BY <1>2, <3>1
      <3> QED
        BY <2>2, <3>1, <3>2
    <2>4. CASE place' = place
      BY <2>4
    <2> QED
      BY <2>3, <2>4 DEF Remove
  <1>5. CASE Leave("raised")
    <2>1. \A x \in Object : \/ place'[x] = place[x]
                            \/ place'[x] = Gone /\ place[x] \in {"backup"} \X Name
      BY <1>4
    <2>2. committed' = committed /\ committed
      BY <1>1, <1>2
    <2> QED
      BY <1>3, <1>5, <2>1, <2>2, LeaveNew
  <1>6. ASSUME NEW p \in {"remove", "removeBackup"}, NEW j, GoTo(p, j),
               outcome' = outcome
        PROVE  Orderly'
    <2>1. NobodyElseActed'
      BY <1>4, NobodyElseFrame DEF Orderly
    <2>2. ASSUME NEW k \in 1 .. Len(Names) PROVE Progress(k)'
      <3>1. PICK n \in Name : n = Names[k]
        BY NamesShape
      <3>2. Swapped(n)
        BY <1>3, <3>1
      <3>3. place'[New(n)] = place[New(n)] /\ place'[Old(n)] \in {place[Old(n)], Gone}
        BY <1>2, <1>4, PairsDiffer, ObjectShape
      <3>4. Swapped(n)'
        BY <1>1, <3>2, <3>3, PublicDiffers DEF Swapped, NewIn
      <3> QED
        BY <1>6, <3>1, <3>4, ProgressAfterGo
    <2>3. Told'
      BY <1>1, <1>2, <1>6 DEF GoTo, Told, Before, Rollback, After
    <2> QED
      BY <2>1, <2>2, <2>3 DEF Orderly
  <1>7. \/ Leave("raised")
        \/ /\ outcome' = outcome
           /\ IF position < Len(Names) THEN GoTo("remove", position + 1)
                                       ELSE GoTo("removeBackup", 1)
    BY DEF Remove
  <1> QED
    BY <1>5, <1>6, <1>7

LEMMA RemoveBackupStep ==
    ASSUME Safe, Orderly, original' = original, Names' = Names, RemoveBackup
    PROVE  Orderly'
  <1>1. /\ phase = "removeBackup" /\ UNCHANGED <<place, committed>>
    BY DEF RemoveBackup, history
  <1>2. committed /\ \A k \in 1 .. Len(Names) : Swapped(Names[k])
    BY <1>1 DEF Orderly, Told, Progress, After
  <1>3. PICK o \in {"returned", "raised"} : Leave(o)
    BY DEF RemoveBackup
  <1> QED
    BY <1>1, <1>2, <1>3, LeaveNew

LEMMA CloseStep ==
    ASSUME Safe, Orderly, original' = original, Names' = Names, Close
    PROVE  Orderly'
  <1>1. /\ phase = "close" /\ phase' = "end" /\ moving' = "none" /\ raised' = FALSE
        /\ UNCHANGED <<outcome, committed>>
    BY DEF Close, GoTo, result, history
  <1>2. \A o \in Object : \/ place'[o] = place[o]
                          \/ place'[o] = Gone /\ place[o] \in {"staging"} \X Name
    BY DEF Close, Safe, TypeOK, PlacesOK
  <1>3. NobodyElseActed'
    BY <1>2, NobodyElseFrame DEF Orderly
  <1>4. /\ outcome # "none" /\ (outcome = "returned" => committed)
        /\ PublicIs(IF committed THEN "new" ELSE "old")
    BY <1>1 DEF Orderly, Told
  <1>5. \A o \in Object, n \in Name :
          place'[o] = <<"public", n>> <=> place[o] = <<"public", n>>
    <2> SUFFICES ASSUME NEW o \in Object, NEW n \in Name, place'[o] = Gone,
                        place[o] \in {"staging"} \X Name
                 PROVE  place'[o] # <<"public", n>> /\ place[o] # <<"public", n>>
      BY <1>2
    <2>1. place[o][1] = "staging"
      BY PlaceShape
    <2> QED
      BY <2>1, PublicDiffers
  <1>6. PublicIs(IF committed THEN "new" ELSE "old")'
    BY <1>1, <1>4, <1>5, PublicFrame
  <1>7. Told'
    BY <1>1, <1>4, <1>6 DEF Told, Before, Rollback, After
  <1>8. \A k : Progress(k)'
    BY <1>1 DEF Progress, After
  <1> QED
    BY <1>3, <1>7, <1>8 DEF Orderly

LEMMA WholeInit == Init => Whole
  <1> SUFFICES ASSUME Init PROVE Whole
    OBVIOUS
  <1>1. PICK present \in SUBSET {Names[k] : k \in DOMAIN Names} :
          place = [o \in Object |->
            CASE \E n \in present : o = Old(n) -> <<"public", o[2]>>
              [] \E k \in DOMAIN Names : o = New(Names[k]) -> <<"staging", o[2]>>
              [] OTHER -> Nowhere]
    BY DEF Init
  <1>2. present \subseteq Name
    BY <1>1, NamesShape
  <1>3. ASSUME NEW o \in Object
        PROVE  \/ \E n \in present : o = Old(n) /\ place[o] = <<"public", n>>
               \/ \E n \in Name : o = New(n) /\ place[o] = <<"staging", n>>
               \/ (\A n \in present : o # Old(n)) /\ place[o] = Nowhere
    <2>1. CASE \E n \in present : o = Old(n)
      <3>1. ~\E k \in DOMAIN Names : o = New(Names[k])
        BY <1>2, <2>1, NamesShape, PairsDiffer
      <3>2. place[o] = <<"public", o[2]>>
        BY <1>1, <2>1, <3>1
      <3> QED
        BY <1>2, <2>1, <3>2, PairsDiffer
    <2>2. CASE (\A n \in present : o # Old(n)) /\ \E k \in DOMAIN Names : o = New(Names[k])
      BY <1>1, <2>2, NamesShape, PairsDiffer
    <2>3. CASE (\A n \in present : o # Old(n)) /\ ~\E k \in DOMAIN Names : o = New(Names[k])
      BY <1>1, <2>3
    <2> QED
      BY <2>1, <2>2, <2>3
  <1>4. ASSUME NEW n \in Name, n \in {Names[k] : k \in DOMAIN Names}
        PROVE  place[New(n)] = <<"staging", n>>
    <2>1. \A m \in present : New(n) # Old(m)
      BY <1>2, PairsDiffer
    <2>2. New(n) \in Object /\ New(n)[2] = n
      BY ObjectShape, PairsDiffer
    <2> QED
      BY <1>1, <1>4, <2>1, <2>2
  <1>5. original = place /\ phase = "start"
    BY DEF Init
  <1>6. OriginalIsOld
    <2> SUFFICES ASSUME NEW o \in Object, NEW n \in Name, place[o] = <<"public", n>>
                 PROVE  o = Old(n)
      BY <1>5 DEF OriginalIsOld
    <2>1. PICK m \in present : o = Old(m) /\ place[o] = <<"public", m>>
      BY <1>3, PublicDiffers
    <2> QED
      BY <2>1
  <1>7. NobodyElseActed
    <2> SUFFICES ASSUME NEW o \in Object, place[o] # Nowhere
                 PROVE  o \in Ours /\ place[o] \in Area \X {o[2]}
      BY DEF NobodyElseActed
    <2>1. PICK n \in Name, a \in Area : (o = Old(n) \/ o = New(n)) /\ place[o] = <<a, n>>
      BY <1>2, <1>3, PlacesDiffer
    <2> QED
      BY <2>1, PairsDiffer, ObjectShape
  <1>8. Told
    BY DEF Init, Told, Before, Rollback, After
  <1>9. ASSUME NEW k \in 1 .. Len(Names) PROVE Progress(k)
    <2>1. PICK n \in Name : n = Names[k] /\ n \in {Names[j] : j \in DOMAIN Names}
      BY NamesShape
    <2>2. NewIn(n, {"staging"})
      <3>1. place[New(n)] = <<"staging", n>>
        BY <1>4, <2>1
      <3> QED
        BY <3>1 DEF NewIn
    <2>3. OldIn(n, {"public"})
      <3>1. Old(n) \in Object /\ \A m \in Name : Old(n) # New(m) /\ (Old(n) = Old(m) => n = m)
        BY ObjectShape, PairsDiffer
      <3>2. place[Old(n)] \in {<<"public", n>>, Nowhere}
        BY <1>2, <1>3, <3>1
      <3> QED
        <4>1. CASE place[Old(n)] = <<"public", n>>
          BY <1>5, <4>1 DEF OldIn, WasThere
        <4>2. CASE place[Old(n)] = Nowhere
          BY <1>5, <4>2, PublicDiffers DEF OldIn, WasThere
        <4> QED
          BY <3>2, <4>1, <4>2
    <2>4. Untouched(n)
      BY <2>2, <2>3 DEF Init, Untouched
    <2> QED
      BY <1>5, <2>1, <2>4 DEF Progress, After
  <1> QED
    BY <1>6, <1>7, <1>8, <1>9 DEF Whole, Orderly

LEMMA StutterStep ==
    ASSUME Orderly, Names' = Names, UNCHANGED vars
    PROVE  Orderly'
  <1>1. /\ UNCHANGED <<phase, position, moving, raised, place, retained, installed>>
        /\ UNCHANGED <<outcome, faults, refused, original, committed>>
    BY DEF vars, control, entries, result, history
  <1>2. NobodyElseActed'
    BY <1>1, NobodyElseFrame DEF Orderly
  <1>3. Told'
    <2>1. PublicIs("new")' <=> PublicIs("new")
      BY <1>1, PublicFrame
    <2>2. PublicIs("old")' <=> PublicIs("old")
      BY <1>1, PublicFrame
    <2>3. PublicIs(IF committed THEN "new" ELSE "old")' <=>
            PublicIs(IF committed THEN "new" ELSE "old")
      BY <1>1, <2>1, <2>2
    <2> QED
      BY <1>1, <2>3 DEF Orderly, Told, Spent
  <1>4. ASSUME NEW k \in 1 .. Len(Names) PROVE Progress(k)'
    <2>1. PICK n \in Name : n = Names[k]
      BY NamesShape
    <2>2. WasThere(n)' <=> WasThere(n)
      BY <1>1 DEF WasThere
    <2>3. Noted(n)' <=> Noted(n)
      BY <1>1, <2>2 DEF Noted
    <2>4. \A A : (OldIn(n, A)' <=> OldIn(n, A)) /\ (NewIn(n, A)' <=> NewIn(n, A))
      BY <1>1, <2>2 DEF OldIn, NewIn
    <2>5. \A from, to : Underway(from, to)' = Underway(from, to)
      BY <1>1 DEF Underway
    <2>6. /\ Retaining(n)' <=> Retaining(n)
          /\ Installing(n)' <=> Installing(n)
          /\ Withdrawing(n)' <=> Withdrawing(n)
          /\ Restoring(n)' <=> Restoring(n)
      BY <1>1, <2>2, <2>3, <2>4, <2>5 DEF Retaining, Installing, Withdrawing, Restoring
    <2>7. Progress(k) /\ n = Names[k]'
      BY <2>1 DEF Orderly
    <2> QED
      BY <1>1, <2>1, <2>6, <2>7, EntryFrame DEF Progress, After
  <1> QED
    BY <1>2, <1>3, <1>4 DEF Orderly

LEMMA OrderlyStep ==
    ASSUME Safe, OriginalIsOld, Orderly, [Next]_vars, Calm'
    PROVE  Orderly'
  <1>1. original' = original /\ Names' = Names /\ meddling' = meddling /\ TypeOK
    BY HistoryFrame, CalmBefore DEF Safe
  <1>2. CASE Start \/ Create
    BY <1>1, <1>2, StartStep
  <1>3. CASE Open
    BY <1>1, <1>3, OpenStep DEF Open, history
  <1>4. CASE Validate
    BY <1>1, <1>4, ValidateStep
  <1>5. CASE OpenStaged
    BY <1>1, <1>5, OpenStagedStep DEF OpenStaged, history
  <1>6. CASE Rename
    BY <1>1, <1>6, RenameStep DEF Rename, history
  <1>7. CASE Reconcile
    BY <1>1, <1>7, ReconcileStep DEF Reconcile
  <1>8. CASE LookBack
    BY <1>1, <1>8, LookBackStep DEF LookBack, history
  <1>9. CASE Discard
    BY <1>1, <1>9, DiscardStep DEF Discard, history
  <1>10. CASE Tidy
    BY <1>1, <1>10, TidyStep
  <1>11. CASE Remove
    BY <1>1, <1>11, RemoveStep
  <1>12. CASE RemoveBackup
    BY <1>1, <1>12, RemoveBackupStep
  <1>13. CASE Close
    BY <1>1, <1>13, CloseStep
  <1>14. CASE Meddle
    BY <1>1, <1>14, ConstantsAssumption DEF Meddle, TypeOK, ResultOK
  <1>15. CASE UNCHANGED vars
    BY <1>1, <1>15, StutterStep
  <1> QED
    BY <1>2, <1>3, <1>4, <1>5, <1>6, <1>7, <1>8, <1>9, <1>10, <1>11, <1>12, <1>13,
       <1>14, <1>15 DEF Next

LEMMA WholeStep == Safe /\ Whole /\ [Next]_vars => Whole'
  <1> SUFFICES ASSUME Safe, Whole, [Next]_vars PROVE Whole'
    OBVIOUS
  <1>1. OriginalIsOld'
    BY HistoryFrame DEF Whole, OriginalIsOld
  <1>2. ASSUME Calm' PROVE Orderly'
    <2>1. Calm
      BY <1>2, CalmBefore DEF Safe
    <2> QED
      BY <1>2, <2>1, OrderlyStep DEF Whole
  <1> QED
    BY <1>1, <1>2 DEF Whole

\* With no other process at work, and a refusal or at most one error at any point,
\* before or after it took effect, in the transaction or in its recovery, a call
\* that returned leaves exactly the new entries at the public names, and one that
\* raised exactly the old ones, unless every new one had been installed.
THEOREM PublicationIsWhole == Spec => []EndsWhole
  <1>1. Safe /\ Whole /\ [Next]_vars => Whole'
    BY WholeStep
  <1>2. Spec => []Whole
    BY WholeInit, <1>1, SafeHolds, PTL DEF Spec
  <1>3. Whole => EndsWhole
    BY DEF Whole, Orderly, Told, Calm, EndsWhole
  <1> QED
    BY <1>2, <1>3, PTL

=============================================================================
