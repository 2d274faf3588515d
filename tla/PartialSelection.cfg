SPECIFICATION Spec
CONSTANTS
  q1 = q1
  q2 = q2
  q3 = q3
  Requests = {q1}
  Calls <- MCCalls
  Scenarios <- MCSubmissionAlone
  Faults = FALSE
  Absent = Absent
  p1 = p1
  p2 = p2
  e1 = e1
  e2 = e2
  e3 = e3
  e4 = e4
  Persons = {p1, p2}
  Enrolments = {e1, e2, e3, e4}
  PersonOf <- MCPersonOf
  Deceased = {p2}
  i1 = i1
  i2 = i2
  Instances = {i1, i2}
  a = a
  b = b
  c = c
  Offerings = {a, b, c}
  Modules = {a, b, c}
  ModuleOf <- MCSelf
  PeriodOf <- MCPeriodOf
  Capacity <- MCCapacity
  Credits <- MCCredits
  MaxCredits = 40
  Rules <- MCPairRules
  r1 = r1
  r2 = r2
  r3 = r3
  r4 = r4
  Rows = {r1, r2, r3, r4}
  s1 = s1
  Proposals = {s1}
  Items = {a, b, c}
  ModuleOfItem <- MCSelf
  OfferingOf <- MCOfferedItem
  Compulsory = {a}
  Groups <- MCGroups
  CreditLoad <- MCWideLoad
  Bindings = {"x", "y"}
  Awards = {"award1", "award2"}
  spring = spring
  RatifiedPeriods = {spring}
CHECK_DEADLOCK FALSE
INVARIANT NoPartialRegistration
