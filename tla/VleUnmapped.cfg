\* A registration that was processed without a mapping is never repaired.
SPECIFICATION FairSpec
CONSTANTS
  e1 = e1
  m1 = m1
  Modules = {m1}
  Enrolments = {e1}
  Registrations = {r1}
  EnrolmentOf <- MCEnrolmentOf
  ModuleOf <- MCModuleOf
  StatusChanges = {"suspended"}
  MaxEvents = 3
  MaxAttempts = 3
  FirstCount = 1
  MaxFaults = 0
  NoRow = NoRow
  NoAccess = NoAccess
CHECK_DEADLOCK FALSE
PROPERTIES
  ProcessedRegistrationsAreMapped
