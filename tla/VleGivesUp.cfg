\* An event whose handler fails is given up one attempt before the last.
SPECIFICATION Spec
CONSTANTS
  e1 = e1
  m1 = m1
  Modules = {m1}
  Enrolments = {e1}
  Registrations = {r1}
  EnrolmentOf <- MCEnrolmentOf
  ModuleOf <- MCModuleOf
  StatusChanges = {"suspended"}
  MaxEvents = 3
  MaxAttempts = 3
  FirstCount = 1
  MaxFaults = 0
  NoRow = NoRow
  NoAccess = NoAccess
CHECK_DEADLOCK FALSE
INVARIANTS
  GivenUpAfterMaxAttempts
