\* A write read before ratification replaces the locked version after it.
SPECIFICATION Spec
CONSTANTS
  m1 = m1
  m3 = m3
  r1 = r1
  r2 = r2
  e1 = e1
  c1 = c1
  Marks = {m1, m3}
  Registrations = {r1, r2}
  Enrolments = {e1}
  Components = {c1}
  Values = {v1}
  Boards = {b1}
  Requests = {q1, q2}
  Cases = {}
  MarkOf <- MCMarkOf
  EnrolmentOf <- MCEnrolmentOf
  Scope <- MCScope
  CaseOf <- MCCaseOf
  MemberCounts = {0, 3}
  MaxPackVersion = 0
  MaxAmendments = 1
  ExaminerRequired = TRUE
  QuorumRequired = TRUE
  DeferralEnabled = TRUE
  FlagsFail = FALSE
  Absent = Absent
  NoMark = NoMark
  NoBoard = NoBoard
  NoQuorum = NoQuorum
PROPERTY LockedChangesOnlyByAmendment
