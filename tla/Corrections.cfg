\* Correction cases and amendments against every overlapping write; no board.
SPECIFICATION Spec
CONSTANTS
  m1 = m1
  m3 = m3
  r1 = r1
  r2 = r2
  e1 = e1
  c1 = c1
  Marks = {m1}
  Registrations = {r1}
  Enrolments = {e1}
  Components = {c1}
  Values = {v1}
  Boards = {}
  Requests = {q1, q2}
  Cases = {k1}
  MarkOf <- MCMarkOf
  EnrolmentOf <- MCEnrolmentOf
  Scope <- MCScope
  CaseOf <- MCCaseOf
  MemberCounts = {}
  MaxPackVersion = 0
  MaxAmendments = 1
  ExaminerRequired = FALSE
  QuorumRequired = FALSE
  DeferralEnabled = FALSE
  FlagsFail = FALSE
  Absent = Absent
  NoMark = NoMark
  NoBoard = NoBoard
  NoQuorum = NoQuorum
SYMMETRY GovernanceSymmetry
INVARIANTS
  LocksHaveProvenance
  CaseVersionsFollowTransitions
  AmendmentsWereUpheld
PROPERTIES
  SealedChangesOnlyByAmendment
