\* Two faults: one takes the VLE client away, one brings it back.  The stream is
\* finite, so the connector stops when all of it has settled.
SPECIFICATION FairSpec
CONSTANTS
  e1 = e1
  m1 = m1
  Modules = {m1}
  Enrolments = {e1}
  Registrations = {r1}
  EnrolmentOf <- MCEnrolmentOf
  ModuleOf <- MCModuleOf
  StatusChanges = {"intermitting"}
  MaxEvents = 4
  MaxAttempts = 3
  FirstCount = 1
  MaxFaults = 2
  NoRow = NoRow
  NoAccess = NoAccess
CHECK_DEADLOCK FALSE
INVARIANTS
  TypeOK
  NoEventProcessedTwice
  SyncedRowsAreInVle
  RosterAgrees
PROPERTIES
  EveryEventSettles
