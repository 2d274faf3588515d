\* A reinstated student's access to the VLE stays suspended.
SPECIFICATION Spec
CONSTANTS
  e1 = e1
  m1 = m1
  Modules = {m1}
  Enrolments = {e1}
  Registrations = {r1}
  EnrolmentOf <- MCEnrolmentOf
  ModuleOf <- MCModuleOf
  StatusChanges = {"suspended", "enrolled"}
  MaxEvents = 5
  MaxAttempts = 3
  FirstCount = 1
  MaxFaults = 0
  NoRow = NoRow
  NoAccess = NoAccess
CHECK_DEADLOCK FALSE
INVARIANTS
  EnrolledStudentsHaveAccess
