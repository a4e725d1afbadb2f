-------------------------- MODULE PackageTransaction --------------------------
(***************************************************************************)
(* Publication of a model package over an existing one (lib/steps/         *)
(* package.py, the descriptor-anchored transactions of macOS and Linux).   *)
(*                                                                         *)
(* A named package is one directory entry, an unnamed one several; the two *)
(* transactions retain, validate, install and clean each entry in the same *)
(* way and are one model.  A file object is its identity (device, inode),  *)
(* and place says where it is; names are followed by renames, identities   *)
(* by checks.  Any operation may raise, before or after it took effect,    *)
(* and another process may move objects from and to the exposed names      *)
(* between any two operations.                                             *)
(***************************************************************************)
EXTENDS Naturals, Sequences, FiniteSets

CONSTANTS
    GeneratedNames, \* entries of an unnamed package, in order
    Foreigners,     \* objects of other processes
    MaxFaults,      \* bound: operations that raise for an outside reason
    MaxMeddling     \* bound: moves by other processes

ASSUME ConstantsAssumption ==
    /\ GeneratedNames \in Seq(STRING) \ {<<>>} /\ MaxFaults \in Nat
    /\ MaxMeddling \in Nat

\* The entries of a package are different files.
ASSUME NamesAssumption ==
    \A j, k \in DOMAIN GeneratedNames : GeneratedNames[j] = GeneratedNames[k] => j = k

Name == {GeneratedNames[k] : k \in DOMAIN GeneratedNames} \cup {"package"}
Old(n) == <<"old", n>>
New(n) == <<"new", n>>
Ours == {"old", "new"} \X Name
Object == Ours \cup Foreigners
NoObject == <<"none", "none">>

ASSUME ForeignersAssumption == Foreigners \cap (Ours \cup {NoObject}) = {}

Area == {"public", "staging", "backup", "quarantine"}
Location == Area \X Name
Nowhere == <<"nowhere", "">>      \* not created yet, or absent from the start
Gone == <<"gone", "">>            \* removed
Elsewhere == <<"elsewhere", "">>  \* moved away by another process
Place == Location \cup {Nowhere, Gone, Elsewhere}

VARIABLES
    named,      \* publish under a model name, or the entries of a directory
    phase,      \* what the transaction is doing
    position,   \* the entry it is at
    moving,     \* where a rename is: "none", "rename", "reconcile"
    raised,     \* the rename raised
    place,      \* of every object
    retained,   \* identity opened at each public name before it was moved
    installed,  \* identity opened at each staged name before it was moved
    quarantined,\* names whose installed identity was moved back
    backup,     \* the recovery directory exists
    outcome,    \* "none" while running, then "returned" or "raised"
    faults, meddling, \* what is left of the bounds
    original,   \* history: place at the start
    approved,   \* history: objects that validation has accepted
    refused,    \* history: validation refused to replace what was retained
    committed   \* history: every entry was installed

control == <<phase, position, moving, raised>>
entries == <<retained, installed, quarantined>>
result == <<backup, outcome>>
history == <<named, original, approved, refused, committed>>
vars == <<control, place, entries, result, faults, meddling, history>>

Names == IF named THEN <<"package">> ELSE GeneratedNames
Here == Names[position]
IsAt(o, l) == o # NoObject /\ place[o] = l
At(area, n) == {o \in Object : place[o] = <<area, n>>}

\* A staged named package lies in the public parent, staged entries do not.
Exposed(l) == l[1] = "public" \/ (named /\ l[1] = "staging")

Before == {"start", "create", "open", "retain", "validate", "openStaged",
           "install"}
Rollback == {"quarantine", "restore", "discard", "tidy"}
After == {"remove", "removeBackup"}

Init ==
    /\ named \in BOOLEAN
    /\ \E present \in SUBSET {Names[k] : k \in DOMAIN Names} :
         place = [o \in Object |->
           CASE \E n \in present : o = Old(n) -> <<"public", o[2]>>
             [] \E k \in DOMAIN Names : o = New(Names[k]) -> <<"staging", o[2]>>
             [] OTHER -> Nowhere]
    /\ phase = "start" /\ position = 1 /\ moving = "none" /\ raised = FALSE
    /\ retained = [n \in Name |-> NoObject]
    /\ installed = [n \in Name |-> NoObject] /\ quarantined = {}
    /\ backup = FALSE /\ outcome = "none"
    /\ faults = MaxFaults /\ meddling = MaxMeddling
    /\ original = place /\ approved = {}
    /\ refused = FALSE /\ committed = FALSE

Fault == faults > 0 /\ faults' = faults - 1

GoTo(p, k) == /\ phase' = p /\ position' = k
              /\ moving' = "none" /\ raised' = FALSE

\* A move begins with the rename of whatever has the name.
Move(p, k) == /\ phase' = p /\ position' = k
              /\ moving' = "rename" /\ raised' = FALSE

-----------------------------------------------------------------------------
(* Where an error leads                                                    *)

\* (Mistaken: only installs known to have succeeded are rolled back.)
RollBackKnown ==
    /\ outcome' = "raised"
    /\ IF position = 1 THEN GoTo("restore", Len(Names))
                       ELSE GoTo("quarantine", position - 1)

\* Errors inside the transaction roll it back; before the recovery directory
\* is in use, and after the last install, they just leave.
RollBack == /\ outcome' = "raised" /\ GoTo("quarantine", Len(Names))
Leave(o) == /\ outcome' = o /\ GoTo("close", 1)

OpenFails == IF named THEN Leave("raised") ELSE RollBack

AfterRetained == IF position < Len(Names) THEN GoTo("open", position + 1)
                 ELSE IF \A n \in Name : retained'[n] = NoObject
                        THEN GoTo("openStaged", 1) ELSE GoTo("validate", 1)

\* (Mistaken: the loop over the entries runs one too far.)
AfterInstalledAndOne == IF position <= Len(Names)
                          THEN GoTo("openStaged", position + 1)
                          ELSE GoTo("remove", 1)

AfterInstalled == IF position < Len(Names) THEN GoTo("openStaged", position + 1)
                  ELSE GoTo("remove", 1)

\* Rollback goes through the names backwards, and notes what fails.
Preceding == IF position > 1 THEN GoTo(phase, position - 1)
             ELSE CASE phase = "quarantine" -> GoTo("restore", Len(Names))
                    [] phase = "restore" -> GoTo("discard", Len(Names))
                    [] phase = "discard" -> GoTo("tidy", 1)

-----------------------------------------------------------------------------
(* The transaction                                                         *)

\* The staging directory must still have its name.
Start ==
    /\ phase = "start"
    /\ \/ /\ named => place[New("package")] = <<"staging", "package">>
          /\ GoTo("create", 1) /\ UNCHANGED <<outcome, faults>>
       \/ /\ named /\ place[New("package")] # <<"staging", "package">>
          /\ Leave("raised") /\ UNCHANGED faults
       \/ Fault /\ Leave("raised")
    /\ UNCHANGED <<place, entries, backup, meddling, history>>

Create ==
    /\ phase = "create"
    /\ \/ backup' = TRUE /\ GoTo("open", 1) /\ UNCHANGED <<outcome, faults>>
       \/ Fault /\ Leave("raised") /\ UNCHANGED backup
    /\ UNCHANGED <<place, entries, meddling, history>>

\* The object to retain is whatever has the public name now.
Open ==
    /\ phase = "open" /\ UNCHANGED <<place, installed, quarantined, backup,
                                     meddling, history>>
    /\ \/ /\ At("public", Here) = {} /\ UNCHANGED <<retained, outcome, faults>>
          /\ AfterRetained
       \/ \E o \in At("public", Here) :
            /\ retained' = [retained EXCEPT ![Here] = o]
            /\ Move("retain", position) /\ UNCHANGED <<outcome, faults>>
       \/ Fault /\ OpenFails /\ UNCHANGED retained

\* Validation reads the retained objects through their descriptors: structure,
\* marker, consent and overlap with the source model decide.
Validate ==
    /\ phase = "validate" /\ UNCHANGED <<place, entries, backup, faults, meddling,
                                         named, original, committed>>
    /\ \/ /\ approved' = approved \cup ({retained[n] : n \in Name} \ {NoObject})
          /\ GoTo("openStaged", 1) /\ UNCHANGED <<outcome, refused>>
       \/ RollBack /\ refused' = TRUE /\ UNCHANGED approved

\* Staged entries count as installed before their rename: rollback looks where
\* they are.
OpenStaged ==
    /\ phase = "openStaged"
    /\ \/ /\ installed' = [installed EXCEPT ![Here] = New(Here)]
          /\ Move("install", position) /\ UNCHANGED <<outcome, faults>>
       \/ ~named /\ Fault /\ RollBack /\ UNCHANGED installed
    /\ UNCHANGED <<place, retained, quarantined, backup, meddling, history>>

Entry == IF phase \in {"retain", "restore"} THEN retained[Here]
                                            ELSE installed[Here]
Source == CASE phase \in {"retain", "quarantine"} -> "public"
            [] phase = "install" -> "staging"
            [] phase = "restore" -> "backup"
Target == CASE phase = "retain" -> "backup"
            [] phase = "quarantine" -> "quarantine"
            [] phase \in {"install", "restore"} -> "public"

\* (Mistaken: a rename that replaces what has the target name.)
ReplacingMove ==
    [o \in Object |-> IF o \in At(Source, Here) THEN <<Target, Here>>
                      ELSE IF o \in At(Target, Here) /\ At(Source, Here) # {}
                        THEN Gone ELSE place[o]]

\* renameat2 with RENAME_NOREPLACE moves whatever has the source name, if any,
\* and only to a free name.
Moved ==
    [o \in Object |-> IF o \in At(Source, Here) /\ At(Target, Here) = {}
                        THEN <<Target, Here>> ELSE place[o]]

Rename ==
    /\ moving = "rename" /\ moving' = "reconcile"
    /\ \/ place' = Moved /\ raised' = (Moved = place) /\ UNCHANGED faults
       \/ place' \in {place, Moved} /\ raised' = TRUE /\ Fault
    /\ UNCHANGED <<phase, position, entries, result, meddling, history>>

\* The outcome of a rename is read off both names: only if it did not raise and
\* the open identity is at the target has the entry moved.
IsMoved == ~raised /\ IsAt(Entry, <<Target, Here>>)

Reconcile ==
    /\ moving = "reconcile"
    /\ \E ok \in BOOLEAN :
         /\ IF ok THEN IsMoved /\ UNCHANGED faults
                  ELSE (~IsMoved /\ UNCHANGED faults) \/ Fault
         /\ quarantined' = IF ok /\ phase = "quarantine"
                             THEN quarantined \cup {Here} ELSE quarantined
         /\ committed' = (committed \/ (ok /\ phase = "install"
                                          /\ position = Len(Names)))
         /\ UNCHANGED <<retained, installed>>
         /\ CASE phase \in {"quarantine", "restore"} ->
                   Preceding /\ UNCHANGED outcome
              [] phase = "retain" /\ ok -> AfterRetained /\ UNCHANGED outcome
              [] phase = "install" /\ ok -> AfterInstalled /\ UNCHANGED outcome
              [] OTHER -> RollBack
    /\ UNCHANGED <<place, backup, meddling, named, original, approved,
                   refused>>

\* Rollback moves an entry back only from where it finds it.
LookBack ==
    /\ phase \in {"quarantine", "restore"} /\ moving = "none"
    /\ \/ /\ IsAt(Entry, <<Source, Here>>)
          /\ Move(phase, position) /\ UNCHANGED faults
       \/ /\ ~IsAt(Entry, <<Source, Here>>)
          /\ Preceding /\ UNCHANGED faults
       \/ Fault /\ Preceding
    /\ UNCHANGED <<place, entries, result, meddling, history>>

\* What was moved back is removed, under its own identity.
Discard ==
    /\ phase = "discard"
    /\ \/ /\ Here \in quarantined
          /\ IsAt(installed[Here], <<"quarantine", Here>>)
          /\ place' = [place EXCEPT ![installed[Here]] = Gone]
          /\ UNCHANGED faults
       \/ /\ Here \in quarantined => ~IsAt(installed[Here], <<"quarantine", Here>>)
          /\ UNCHANGED <<place, faults>>
       \/ Here \in quarantined /\ Fault /\ UNCHANGED place
    /\ Preceding
    /\ UNCHANGED <<entries, result, meddling, history>>

InRecovery == {o \in Object : place[o] \in {"backup", "quarantine"} \X Name}

\* (Mistaken: the recovery directory is removed with what is in it.)
TidyAll ==
    /\ phase = "tidy" /\ backup' = FALSE
    /\ place' = [o \in Object |-> IF o \in InRecovery THEN Gone ELSE place[o]]
    /\ Leave(outcome)
    /\ UNCHANGED <<entries, faults, meddling, history>>

\* The recovery directory goes only if it is empty.
Tidy ==
    /\ phase = "tidy"
    /\ \/ backup' = (InRecovery # {}) /\ UNCHANGED faults
       \/ Fault /\ UNCHANGED backup
    /\ Leave(outcome)
    /\ UNCHANGED <<place, entries, meddling, history>>

\* The new package is in place: the old entries go, each under its own identity;
\* from here on an error does not undo anything.
Remove ==
    /\ phase = "remove" /\ UNCHANGED <<entries, backup, meddling, history>>
    /\ LET old == retained[Here]
           Next1 == IF position < Len(Names) THEN GoTo("remove", position + 1)
                                             ELSE GoTo("removeBackup", 1)
           Free == [place EXCEPT ![old] = Gone]
       IN  \/ old = NoObject /\ Next1 /\ UNCHANGED <<place, outcome, faults>>
           \/ /\ IsAt(old, <<"backup", Here>>)
              /\ \/ place' = Free /\ Next1 /\ UNCHANGED <<outcome, faults>>
                 \/ place' \in {place, Free} /\ Fault /\ Leave("raised")
           \/ /\ old # NoObject /\ ~IsAt(old, <<"backup", Here>>)
              /\ Leave("raised") /\ UNCHANGED <<place, faults>>

RemoveBackup ==
    /\ phase = "removeBackup"
    /\ \/ /\ backup' = (InRecovery # {}) /\ UNCHANGED faults
          /\ Leave(IF InRecovery = {} THEN "returned" ELSE "raised")
       \/ backup' \in {backup, InRecovery # {}} /\ Fault /\ Leave("raised")
    /\ UNCHANGED <<place, entries, meddling, history>>

\* The staging directory is removed, or a warning logged.
Close ==
    /\ phase = "close" /\ GoTo("end", 1)
    /\ place' \in {place, [o \in Object |->
                             IF place[o] \in {"staging"} \X Name /\ o \in Ours
                               THEN Gone ELSE place[o]]}
    /\ UNCHANGED <<entries, result, faults, meddling, history>>

\* Another process puts an object at a free name or takes one away.
Meddle ==
    /\ phase # "end" /\ meddling > 0 /\ meddling' = meddling - 1
    /\ \E n \in {Names[k] : k \in DOMAIN Names}, a \in {"public", "staging"} :
         /\ Exposed(<<a, n>>)
         /\ \/ \E f \in Foreigners :
                 /\ place[f] = Nowhere /\ At(a, n) = {}
                 /\ place' = [place EXCEPT ![f] = <<a, n>>]
            \/ \E o \in At(a, n) : place' = [place EXCEPT ![o] = Elsewhere]
    /\ UNCHANGED <<control, entries, result, faults, history>>

Next == \/ Start \/ Create \/ Open \/ Validate \/ OpenStaged
        \/ Rename \/ Reconcile \/ LookBack \/ Discard \/ Tidy
        \/ Remove \/ RemoveBackup \/ Close \/ Meddle

Spec == Init /\ [][Next]_vars

-----------------------------------------------------------------------------
(* Properties                                                              *)

Phase == Before \cup Rollback \cup After \cup {"close", "end"}

ControlOK ==
    /\ named \in BOOLEAN
    /\ phase \in Phase /\ position \in 1 .. Len(Names)
    /\ moving \in {"none", "rename", "reconcile"} /\ raised \in BOOLEAN

PlacesOK == place \in [Object -> Place] /\ original \in [Object -> Place]

EntriesOK ==
    /\ retained \in [Name -> Object \cup {NoObject}]
    /\ installed \in [Name -> Object \cup {NoObject}]
    /\ quarantined \subseteq Name /\ approved \subseteq Object

ResultOK ==
    /\ outcome \in {"none", "returned", "raised"}
    /\ faults \in 0 .. MaxFaults /\ meddling \in 0 .. MaxMeddling
    /\ backup \in BOOLEAN /\ refused \in BOOLEAN /\ committed \in BOOLEAN

TypeOK == ControlOK /\ PlacesOK /\ EntriesOK /\ ResultOK

\* Nothing that validation has not accepted is ever removed or replaced: not an
\* object put at a public name between any two operations of the transaction,
\* not a destination that turns out to be no package (package-safety.md).
OnlyApprovedIsRemoved ==
    \A o \in Object : place[o] = Gone => o \in approved \cup {New(n) : n \in Name}

\* No error, in the transaction or in its recovery, and no death at any moment
\* loses the old package: until every new entry was installed each old entry is
\* at its public name, in the recovery directory, or where another process took
\* it; and a recovery directory with anything in it is never removed.
OldIsKept ==
    /\ \A o \in Object : original[o][1] = "public" /\ place[o] = Gone => committed
    /\ InRecovery # {} => backup

PublicIs(which) ==
    \A k \in DOMAIN Names :
      At("public", Names[k]) =
        IF which = "new" THEN {New(Names[k])}
        ELSE {o \in Object : original[o] = <<"public", Names[k]>>}

\* With no other process at work, and validation refusing or at most one
\* operation failing before or after it took effect, the public names end with
\* the new package or exactly the old one: new if the call returned, and old
\* unless every entry had been installed when it raised.
EndsWhole ==
    /\ phase = "end" /\ meddling = MaxMeddling
    /\ faults + (IF refused THEN 0 ELSE 1) >= MaxFaults
    =>
      /\ outcome = "returned" => PublicIs("new")
      /\ outcome = "raised" => PublicIs(IF committed THEN "new" ELSE "old")

-----------------------------------------------------------------------------
(* The inductive invariant behind the first two.                           *)

\* A rename never puts anything into the staging directory.
StagedIsNew ==
    \A o \in Ours : place[o] \in {"staging"} \X Name => o[1] = "new"

\* From validation on, what was retained is what validation has accepted.
RetainedIsApproved ==
    phase \in {"openStaged", "install"} \cup After =>
      \A n \in Name : retained[n] \in approved \cup {NoObject}

\* What is called installed is the new entry of that name, which was not at a
\* public name to begin with.
InstalledIsNew ==
    \A n \in Name : /\ installed[n] \in {New(n), NoObject}
                    /\ original[New(n)][1] # "public"

\* Entries move only while the recovery directory is there to hold them, and
\* the old ones go only after the last install.
RecoveryIsOpen ==
    /\ moving # "none" => phase \in {"retain", "install", "quarantine", "restore"}
    /\ phase \notin {"start", "create", "close", "end"} => backup
    /\ phase \in After => committed

Safe ==
    /\ TypeOK /\ OnlyApprovedIsRemoved /\ OldIsKept
    /\ StagedIsNew /\ RetainedIsApproved /\ InstalledIsNew /\ RecoveryIsOpen

-----------------------------------------------------------------------------
(* The inductive invariant behind EndsWhole: how far each entry is while   *)
(* no other process acts and no more than one operation has failed.        *)

Calm == /\ meddling = MaxMeddling
        /\ faults + (IF refused THEN 0 ELSE 1) >= MaxFaults
Spent == refused \/ faults < MaxFaults

WasThere(n) == original[Old(n)] = <<"public", n>>
OldIn(n, areas) == IF WasThere(n) THEN place[Old(n)] \in areas \X {n}
                                  ELSE place[Old(n)] = Nowhere
NewIn(n, areas) == place[New(n)] \in areas \X {n}
Noted(n) == retained[n] = IF WasThere(n) THEN Old(n) ELSE NoObject

\* Where a rename may have left the entry, until its outcome is read.
Underway(from, to) == IF moving = "rename" THEN {from}
                      ELSE IF raised THEN {from, to} ELSE {to}

Untouched(n) == /\ OldIn(n, {"public"}) /\ NewIn(n, {"staging"})
                /\ retained[n] = NoObject /\ installed[n] = NoObject
Retaining(n) == /\ WasThere(n) /\ Noted(n) /\ OldIn(n, Underway("public", "backup"))
                /\ NewIn(n, {"staging"}) /\ installed[n] = NoObject
Retained(n) == /\ Noted(n) /\ OldIn(n, {"backup"})
               /\ NewIn(n, {"staging"}) /\ installed[n] = NoObject
Installing(n) == /\ Noted(n) /\ OldIn(n, {"backup"})
                 /\ NewIn(n, Underway("staging", "public")) /\ installed[n] = New(n)
Installed(n) == /\ Noted(n) /\ OldIn(n, {"backup"})
                /\ NewIn(n, {"public"}) /\ installed[n] = New(n)

\* To be rolled back: wherever it is, what was noted of it tells.
Undecided(n) == /\ OldIn(n, {"public", "backup"}) /\ NewIn(n, {"staging", "public"})
                /\ Noted(n) \/ (retained[n] = NoObject /\ OldIn(n, {"public"}))
                /\ NewIn(n, {"public"}) => installed[n] = New(n) /\ OldIn(n, {"backup"})
Withdrawing(n) == /\ Noted(n) /\ OldIn(n, {"backup"}) /\ ~raised
                  /\ NewIn(n, Underway("public", "quarantine")) /\ installed[n] = New(n)
Withdrawn(n) == /\ OldIn(n, {"public", "backup"}) /\ NewIn(n, {"staging", "quarantine"})
                /\ Noted(n) \/ (retained[n] = NoObject /\ OldIn(n, {"public"}))
Restoring(n) == /\ WasThere(n) /\ Noted(n) /\ ~raised
                /\ OldIn(n, Underway("backup", "public"))
                /\ NewIn(n, {"staging", "quarantine"})
Restored(n) == /\ OldIn(n, {"public"})
               /\ place[New(n)] = Gone \/ NewIn(n, {"staging", "quarantine"})
Swapped(n) == /\ NewIn(n, {"public"}) /\ place[Old(n)] # <<"public", n>>
              /\ retained[n] \in {Old(n), NoObject}

Progress(k) ==
  LET n == Names[k] IN
  /\ \/ phase \in {"start", "create"}
     \/ phase = "open" /\ k >= position
     \/ phase = "retain" /\ k > position
     => Untouched(n)
  /\ phase = "retain" /\ k = position => Retaining(n)
  /\ \/ phase = "validate"
     \/ phase \in {"open", "retain"} /\ k < position
     \/ phase = "openStaged" /\ k >= position
     \/ phase = "install" /\ k > position
     => Retained(n)
  /\ phase = "install" /\ k = position => Installing(n)
  /\ phase \in {"openStaged", "install"} /\ k < position => Installed(n)
  /\ phase = "quarantine" =>
       IF k > position THEN Withdrawn(n)
       ELSE IF k = position /\ moving # "none" THEN Withdrawing(n) ELSE Undecided(n)
  /\ phase = "restore" =>
       IF k > position THEN Restored(n)
       ELSE IF k = position /\ moving # "none" THEN Restoring(n) ELSE Withdrawn(n)
  /\ phase \in {"discard", "tidy"} => Restored(n)
  /\ phase \in After => Swapped(n)

NobodyElseActed ==
  \A o \in Object : \/ place[o] \in {Nowhere, Gone}
                    \/ o \in Ours /\ place[o] \in Area \X {o[2]}

\* How the phase and the outcome tell of the error that was met.
Told ==
  /\ phase \in {"retain", "install"} => moving # "none"
  /\ raised => moving = "reconcile" /\ Spent
  /\ phase \in Before => outcome = "none" /\ ~committed
  /\ phase \in Rollback => outcome = "raised" /\ ~committed /\ Spent
  /\ phase \in After => outcome = "none" /\ committed
  /\ phase \in {"close", "end"} =>
       /\ outcome # "none" /\ (outcome = "returned" => committed)
       /\ PublicIs(IF committed THEN "new" ELSE "old")

Orderly == NobodyElseActed /\ Told /\ \A k \in 1 .. Len(Names) : Progress(k)

\* The old package is what was at the public names.
OriginalIsOld ==
  \A o \in Object, n \in Name : original[o] = <<"public", n>> => o = Old(n)

Whole == OriginalIsOld /\ (Calm => Orderly)
=============================================================================
