SPECIFICATION Spec
CONSTANTS
  q1 = q1
  q2 = q2
  q3 = q3
  Requests = {q1, q2, q3}
  Calls <- MCCalls
  Scenarios <- MCScenarios
  Faults = TRUE
  Absent = Absent
  p1 = p1
  p2 = p2
  e1 = e1
  e2 = e2
  e3 = e3
  e4 = e4
  Persons = {p1, p2}
  Enrolments = {e1, e2, e3, e4}
  PersonOf <- MCPersonOf
  Deceased = {p2}
  i1 = i1
  i2 = i2
  Instances = {i1, i2}
  a = a
  b = b
  c = c
  Offerings = {a, b, c}
  Modules = {a, b, c}
  ModuleOf <- MCSelf
  PeriodOf <- MCPeriodOf
  Capacity <- MCCapacity
  Credits <- MCCredits
  MaxCredits = 20
  Rules <- MCRules
  r1 = r1
  r2 = r2
  r3 = r3
  r4 = r4
  Rows = {r1, r2, r3, r4}
  s1 = s1
  Proposals = {s1}
  Items = {a, b, c}
  ModuleOfItem <- MCSelf
  OfferingOf <- MCOfferingOf
  Compulsory = {a}
  Groups <- MCGroups
  CreditLoad <- MCCreditLoad
  Bindings = {"x", "y"}
  Awards = {"award1", "award2"}
  spring = spring
  RatifiedPeriods = {spring}
SYMMETRY Symmetry
CHECK_DEADLOCK FALSE
INVARIANTS
  TypeOK
  PersonStatusFollows
  LedgerIsHistory
  OneAwardPerEnrolment
  AnnouncedAwardsGraduated
  CapacityKept
  RegistrationsWithinLimits
  ClosedInstancesAreDecided
  ChangesWereApproved
  ConfirmedMeansRegistered
  UndecidedRegisterNothing
  OneBindingPerEnrolment
PROPERTIES
  RegisteredInTime
  FinalRegistrationsStay
