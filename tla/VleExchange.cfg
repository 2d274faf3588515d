\* Every request is served once, so the exchange comes to an end.
SPECIFICATION FairSpec
CONSTANTS
  a1 = a1
  dv = dv
  dx = dx
  m1 = m1
  m2 = m2
  q1 = q1
  q2 = q2
  q3 = q3
  Requests = {q1, q2, q3, "loop", "pass"}
  Calls <- MCCalls
  Faults = TRUE
  Absent = Absent
  Adjustments = {a1}
  Distributions = {dv, dx}
  AdjustmentOf <- MCAdjustmentOf
  TargetOf <- MCTargetOf
  Systems = {"vle", "exams"}
  References = {m1, m2}
  Loop = "loop"
  Pass = "pass"
  MaxAttempts = 3
  FirstCount = 1
  MaxFaults = 2
  Scenarios <- MCScenarios
CHECK_DEADLOCK FALSE
INVARIANTS
  TypeOK
  RecordsAgree
  EchoDiesOut
  MarksAreSubmittedOnce
PROPERTIES
  ExpiryIsFinal
  AnnouncedIsAcknowledged
