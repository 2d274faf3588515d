--------------------------- MODULE GovernanceProofs ---------------------------
(***************************************************************************)
(* Proofs about AssessmentGovernance, for any sets of records, boards,     *)
(* cases and requests and any settings of the flags.                       *)
(***************************************************************************)
EXTENDS AssessmentGovernance, TLAPS

(***************************************************************************)
(* Type correctness                                                        *)
(***************************************************************************)

\* What a request is about to do tells which fields its state has.
LEMMA RequestShape ==
  ASSUME NEW s \in Request
  PROVE  /\ s.at = "basis" => s \in [at : {"basis"}, target : Registrations \cup Enrolments]
         /\ s.at = "target" => s \in [at : {"target"}, target : Registrations \cup Enrolments,
                                      content : Contents]
         /\ s.at = "write" => s \in [at : {"write"}, target : Records, content : Contents,
                                     seen : Row \cup {Absent}]
         /\ s.at = "signoff" => s \in [at : {"signoff"}, board : Boards,
                                       quorum : (Nat \ {0}) \cup {NoQuorum}]
         /\ s.at = "cover" => s \in [at : {"cover"}, board : Boards]
         /\ s.at = "decisions" => s \in [at : {"decisions"}, board : Boards, covered : SUBSET Covered]
         /\ s.at = "ratify" => s \in [at : {"ratify"}, board : Boards, covered : SUBSET Covered,
                                      decided : SUBSET Enrolments]
         /\ s.at \in {"announceBoard", "announce"} =>
              s \in [at : {"announceBoard", "announce"}, board : Boards, pending : SUBSET Covered]
         /\ s.at \in {"defer", "reopen", "packLock"} =>
              s \in [at : {"defer", "reopen", "packLock"}, board : Boards]
         /\ s.at = "quorum" => s \in [at : {"quorum"}, board : Boards, count : Nat \ {0}]
         /\ s.at = "pack" => s \in [at : {"pack"}, board : Boards, previous : Nat]
         /\ s.at = "advance" => s \in [at : {"advance"}, case : Cases, status : Statuses]
         /\ s.at = "amend" => s \in [at : {"amend"}, case : Cases, target : Records, content : Contents]
         /\ s.at = "amendWrite" => s \in [at : {"amendWrite"}, case : Cases, target : Records,
                                          content : Contents, seen : Row]
BY DEF Request, AcademicRequest, BoardRequest, CorrectionRequest, Idle

LEMMA ContentsByKind ==
  /\ \A x \in Marks : ContentsOf(x) = Values
  /\ \A x \in Registrations : ContentsOf(x) = Aggregates
  /\ \A x \in Enrolments : ContentsOf(x) = Outcomes
  /\ \A x \in Records : ContentsOf(x) \subseteq Contents
BY RecordsAssumption DEF ContentsOf, Contents, Records

LEMMA MarkOfType ==
  \A m \in Marks : MarkOf[m].registration \in Registrations
BY MarkOfAssumption

LEMMA OutcomesType ==
  ASSUME TypeOK, NEW e \in Enrolments
  PROVE  OutcomesOf(e) \in Outcomes
<1> DEFINE v(r) == IF EnrolmentOf[r] = e /\ Present(r) THEN record[r].content ELSE NoMark
<1>1. ASSUME NEW r \in Registrations PROVE v(r) \in Aggregates \cup {NoMark}
  BY <1>1, ContentsByKind DEF TypeOK, ContentsFit, Records
<1>2. [r \in Registrations |-> v(r)] \in [Registrations -> Aggregates \cup {NoMark}]
  BY <1>1
<1> QED  BY <1>2 DEF OutcomesOf, Outcomes

LEMMA NextVersionType ==
  ASSUME NEW seen \in Row \cup {Absent}, NEW content \in Contents
  PROVE  /\ NextVersion(seen, content) \in Row
         /\ NextVersion(seen, content).content = content
BY DEF NextVersion, Fresh, Row

\* Changing one request's state, and one record, keeps the contents fitting.
LEMMA StepKeepsContentsFit ==
  ASSUME TypeOK, NEW q \in Requests,
         NEW s \in Request, req' = [req EXCEPT ![q] = s],
         s.at \in {"target", "write", "amend", "amendWrite"} => s.content \in ContentsOf(s.target),
         record' \in [Records -> Row \cup {Absent}],
         \A x \in Records : \/ record'[x] = record[x]
                            \/ record'[x].content \in ContentsOf(x)
                            \/ Present(x) /\ record'[x].content = record[x].content
  PROVE  /\ ContentsFit'
         /\ req' \in [Requests -> Request]
<1>1. req' \in [Requests -> Request]
  BY DEF TypeOK
<1>2. ASSUME NEW x \in Records, record'[x] # Absent
      PROVE  record'[x].content \in ContentsOf(x)
  BY <1>2 DEF TypeOK, ContentsFit, Present
<1>3. ASSUME NEW p \in Requests, req'[p].at \in {"target", "write", "amend", "amendWrite"}
      PROVE  req'[p].content \in ContentsOf(req'[p].target)
  <2>1. CASE p = q  BY <1>3, <2>1 DEF TypeOK
  <2>2. CASE p # q  BY <1>3, <2>2 DEF TypeOK, ContentsFit
  <2> QED  BY <2>1, <2>2
<1> QED  BY <1>1, <1>2, <1>3 DEF ContentsFit, Present, ContentsOf

LEMMA AcademicTypeOK ==
  ASSUME TypeOK, AcademicNext, UNCHANGED <<boardVars, correctionVars>>
  PROVE  TypeOK'
<1> SUFFICES ContentsFit' /\ record' \in [Records -> Row \cup {Absent}] /\ req' \in [Requests -> Request]
  BY DEF TypeOK, boardVars, correctionVars
<1>q. PICK q \in Requests :
        \/ IngestMark(q) \/ UpdateMarkRead(q) \/ EvaluateProgression(q)
        \/ ReadMarks(q) \/ ReadOutcomes(q) \/ ReadTarget(q) \/ Write(q)
        \/ RequestFails(q)
  BY DEF AcademicNext
<1>t. /\ req[q] \in Request
      /\ record \in [Records -> Row \cup {Absent}]
      /\ Idle \in Request
      /\ Idle.at = "idle"
      /\ Registrations \cup Enrolments \cup Marks = Records
  BY DEF TypeOK, Request, AcademicRequest, Idle, Records
<1>1. CASE IngestMark(q)
  <2>1. PICK m \in Marks, v \in Values :
          /\ record' = [record EXCEPT ![m] = Fresh(v)]
          /\ req' = [req EXCEPT ![q] = [at |-> "basis", target |-> MarkOf[m].registration]]
    BY <1>1 DEF IngestMark
  <2>2. Fresh(v) \in Row /\ Fresh(v).content = v
    BY DEF Fresh, Row, Contents
  <2>3. [at |-> "basis", target |-> MarkOf[m].registration] \in Request
    BY MarkOfType DEF Request, AcademicRequest
  <2>4. record' \in [Records -> Row \cup {Absent}]
    BY <1>t, <2>1, <2>2
  <2>5. \A x \in Records : record'[x] = record[x] \/ record'[x].content \in ContentsOf(x)
    BY <1>t, <2>1, <2>2, ContentsByKind
  <2> QED  BY <2>1, <2>3, <2>4, <2>5, StepKeepsContentsFit
<1>2. CASE UpdateMarkRead(q)
  <2>1. PICK m \in Marks, v \in Values :
          req' = [req EXCEPT ![q] = [at |-> "write", target |-> m, content |-> v, seen |-> record[m]]]
    BY <1>2 DEF UpdateMarkRead
  <2>2. [at |-> "write", target |-> m, content |-> v, seen |-> record[m]] \in Request
    BY <1>t DEF Request, AcademicRequest, Contents
  <2> QED  BY <1>2, <1>t, <2>1, <2>2, ContentsByKind, StepKeepsContentsFit DEF UpdateMarkRead
<1>3. CASE EvaluateProgression(q)
  <2>1. PICK e \in Enrolments : req' = [req EXCEPT ![q] = [at |-> "basis", target |-> e]]
    BY <1>3 DEF EvaluateProgression
  <2>2. [at |-> "basis", target |-> e] \in Request
    BY DEF Request, AcademicRequest
  <2> QED  BY <1>3, <1>t, <2>1, <2>2, StepKeepsContentsFit DEF EvaluateProgression
<1>4. CASE ReadMarks(q)
  <2> DEFINE r == req[q].target
  <2>1. PICK a \in AggregatesOf(r) :
          req' = [req EXCEPT ![q] = IF a = Unmarked THEN Idle
                                    ELSE [at |-> "target", target |-> r, content |-> a]]
    BY <1>4 DEF ReadMarks
  <2>2. r \in Registrations /\ a \in Aggregates
    BY <1>4, <2>1 DEF ReadMarks, AggregatesOf
  <2>3. [at |-> "target", target |-> r, content |-> a] \in Request
    BY <2>2 DEF Request, AcademicRequest, Contents
  <2>4. CASE a = Unmarked  BY <1>4, <1>t, <2>1, <2>4, StepKeepsContentsFit DEF ReadMarks
  <2>5. CASE a # Unmarked
    BY <1>4, <1>t, <2>1, <2>2, <2>3, <2>5, ContentsByKind, StepKeepsContentsFit DEF ReadMarks
  <2> QED  BY <2>4, <2>5
<1>5. CASE ReadOutcomes(q)
  <2> DEFINE e == req[q].target
             s == [at |-> "target", target |-> e, content |-> OutcomesOf(e)]
  <2>1. e \in Enrolments /\ req' = [req EXCEPT ![q] = s] /\ record' = record
    BY <1>5 DEF ReadOutcomes
  <2>2. OutcomesOf(e) \in Outcomes
    BY <2>1, OutcomesType
  <2>3. s \in Request /\ s.content \in ContentsOf(s.target)
    BY <2>1, <2>2, ContentsByKind DEF Request, AcademicRequest, Contents
  <2> QED  BY <1>t, <2>1, <2>3, StepKeepsContentsFit
<1>6. CASE ReadTarget(q)
  <2> DEFINE x == req[q].target
             s == [at |-> "write", target |-> x, content |-> req[q].content, seen |-> record[x]]
  <2>1. req[q] \in [at : {"target"}, target : Registrations \cup Enrolments, content : Contents]
    BY <1>6, <1>t, RequestShape DEF ReadTarget
  <2>2. req' = [req EXCEPT ![q] = s] /\ record' = record
    BY <1>6 DEF ReadTarget
  <2>3. s \in Request
    BY <1>t, <2>1 DEF Request, AcademicRequest
  <2>4. s.content \in ContentsOf(s.target)
    BY <2>1 DEF TypeOK, ContentsFit
  <2> QED  BY <1>t, <2>2, <2>3, <2>4, StepKeepsContentsFit
<1>7. CASE Write(q)
  <2> DEFINE x == req[q].target
             n == NextVersion(req[q].seen, req[q].content)
             s == IF x \in Marks THEN [at |-> "basis", target |-> MarkOf[x].registration] ELSE Idle
  <2>1. req[q] \in [at : {"write"}, target : Records, content : Contents, seen : Row \cup {Absent}]
    BY <1>7, <1>t, RequestShape DEF Write
  <2>2. req' = [req EXCEPT ![q] = s] /\ record' = [record EXCEPT ![x] = n]
    BY <1>7 DEF Write
  <2>3. s \in Request /\ s.at \in {"basis", "idle"}
    BY <1>t, MarkOfType DEF Request, AcademicRequest
  <2>4. n \in Row /\ n.content = req[q].content /\ req[q].content \in ContentsOf(x)
    BY <2>1, NextVersionType DEF TypeOK, ContentsFit
  <2>5. record' \in [Records -> Row \cup {Absent}]
    BY <1>t, <2>1, <2>2, <2>4
  <2>6. \A y \in Records : record'[y] = record[y] \/ record'[y].content \in ContentsOf(y)
    BY <1>t, <2>1, <2>2, <2>4
  <2> QED  BY <2>2, <2>3, <2>5, <2>6, StepKeepsContentsFit
<1>8. CASE RequestFails(q)
  BY <1>8, <1>t, StepKeepsContentsFit DEF RequestFails
<1> QED  BY <1>q, <1>1, <1>2, <1>3, <1>4, <1>5, <1>6, <1>7, <1>8

LEMMA RatifiedType ==
  ASSUME NEW row \in Row, NEW x \in Records, NEW b \in Boards
  PROVE  /\ Ratified(row, x, b) \in Row
         /\ Ratified(row, x, b).content = row.content
         /\ Ratified(row, x, b).locked
         /\ Ratified(row, x, b).board = IF x \in Enrolments THEN b ELSE row.board
BY DEF Ratified, Row

LEMMA BoardTypeOK ==
  ASSUME TypeOK, BoardNext, UNCHANGED correctionVars
  PROVE  TypeOK'
<1>q. PICK q \in Requests :
        \/ RecordSignoff(q) \/ DeferRead(q) \/ ReopenRead(q) \/ QuorumRead(q) \/ BoardWrite(q)
        \/ RatifyRead(q) \/ RatifyCheck(q) \/ RatifyCover(q) \/ RatifyDecisions(q) \/ RatifyWrite(q)
        \/ AnnounceBoard(q) \/ AnnounceResult(q)
        \/ PackRead(q) \/ PackLock(q) \/ PackWrite(q)
  BY DEF BoardNext
<1>t. /\ req[q] \in Request
      /\ record \in [Records -> Row \cup {Absent}]
      /\ boards \in [Boards -> Board]
      /\ packs \in [Boards -> SUBSET Pack]
      /\ Idle \in Request
      /\ Idle.at = "idle"
  BY DEF TypeOK, Request, AcademicRequest, Idle
<1>k. versions' = versions /\ ledger' = ledger
  BY DEF correctionVars
\* It is enough to look at the request's new state and at the board variables.
<1>s. ASSUME NEW s \in Request, req' = [req EXCEPT ![q] = s], record' = record,
             s.at \notin {"target", "write", "amend", "amendWrite"},
             boards' \in [Boards -> Board], packs' \in [Boards -> SUBSET Pack],
             announcedBoards' \subseteq Boards,
             announced' \subseteq [board : Boards, registration : Registrations, content : Contents]
      PROVE  TypeOK'
  <2>1. ContentsFit' /\ req' \in [Requests -> Request]
    BY <1>s, <1>t, StepKeepsContentsFit
  <2> QED  BY <2>1, <1>s, <1>t, <1>k DEF TypeOK
<1>1. CASE RecordSignoff(q)
  <2>1. req' = [req EXCEPT ![q] = Idle]
    BY <1>1 DEF RecordSignoff, TypeOK
  <2>2. boards' \in [Boards -> Board]
    BY <1>1, <1>t DEF RecordSignoff, Board
  <2> QED  BY <1>1, <1>t, <1>s, <2>1, <2>2 DEF RecordSignoff, TypeOK
<1>2. CASE DeferRead(q)
  <2>1. PICK b \in Boards : req' = [req EXCEPT ![q] = [at |-> "defer", board |-> b]]
    BY <1>2 DEF DeferRead, Goto
  <2>2. [at |-> "defer", board |-> b] \in Request
    BY DEF Request, BoardRequest
  <2> QED  BY <1>2, <1>s, <2>1, <2>2 DEF DeferRead, TypeOK, boardVars
<1>3. CASE ReopenRead(q)
  <2>1. PICK b \in Boards : req' = [req EXCEPT ![q] = [at |-> "reopen", board |-> b]]
    BY <1>3 DEF ReopenRead, Goto
  <2>2. [at |-> "reopen", board |-> b] \in Request
    BY DEF Request, BoardRequest
  <2> QED  BY <1>3, <1>s, <2>1, <2>2 DEF ReopenRead, TypeOK, boardVars
<1>4. CASE QuorumRead(q)
  <2>1. PICK b \in Boards, count \in MemberCounts :
          /\ CountAccepted(count)
          /\ req' = [req EXCEPT ![q] = [at |-> "quorum", board |-> b, count |-> count]]
    BY <1>4 DEF QuorumRead, Goto
  <2>2. count \in Nat \ {0}
    BY <2>1, MemberCountsAssumption DEF CountAccepted
  <2>3. [at |-> "quorum", board |-> b, count |-> count] \in Request
    BY <2>2 DEF Request, BoardRequest
  <2> QED  BY <1>4, <1>s, <2>1, <2>3 DEF QuorumRead, TypeOK, boardVars
<1>5. CASE BoardWrite(q)
  <2> DEFINE b == req[q].board
  <2>1. b \in Boards /\ (req[q].at = "quorum" => req[q].count \in Nat \ {0})
    BY <1>5, <1>t, RequestShape DEF BoardWrite
  <2>2. boards[b] \in Board
    BY <1>t, <2>1
  <2>3. /\ [boards[b] EXCEPT !.deferred = TRUE] \in Board
        /\ [boards[b] EXCEPT !.deferred = FALSE] \in Board
        /\ req[q].at = "quorum" => [boards[b] EXCEPT !.quorum = req[q].count] \in Board
    BY <2>1, <2>2 DEF Board
  <2>4. PICK new : /\ boards' = [boards EXCEPT ![b] = new]
                   /\ new \in Board
    <3>1. CASE req[q].at = "defer"
      <4>1. boards' = [boards EXCEPT ![b] = [boards[b] EXCEPT !.deferred = TRUE]]
        BY <1>5, <1>t, <2>1, <3>1 DEF BoardWrite
      <4> QED  BY <4>1, <2>3
    <3>2. CASE req[q].at = "reopen"
      <4>1. boards' = [boards EXCEPT ![b] = [boards[b] EXCEPT !.deferred = FALSE]]
        BY <1>5, <1>t, <2>1, <3>2 DEF BoardWrite
      <4> QED  BY <4>1, <2>3
    <3>3. CASE req[q].at = "quorum"
      <4>1. boards' = [boards EXCEPT ![b] = [boards[b] EXCEPT !.quorum = req[q].count]]
        BY <1>5, <1>t, <2>1, <3>3 DEF BoardWrite
      <4> QED  BY <4>1, <2>3, <3>3
    <3> QED  BY <1>5, <3>1, <3>2, <3>3 DEF BoardWrite
  <2>5. boards' \in [Boards -> Board]
    BY <1>t, <2>4
  <2> QED  BY <1>5, <1>t, <1>s, <2>5 DEF BoardWrite, Goto, TypeOK
<1>6. CASE RatifyRead(q)
  <2>1. PICK b \in Boards :
          req' = [req EXCEPT ![q] = [at |-> "signoff", board |-> b, quorum |-> boards[b].quorum]]
    BY <1>6 DEF RatifyRead, Goto
  <2>2. boards[b].quorum \in (Nat \ {0}) \cup {NoQuorum}
    BY <1>t DEF Board
  <2>3. [at |-> "signoff", board |-> b, quorum |-> boards[b].quorum] \in Request
    BY <2>2 DEF Request, BoardRequest
  <2> QED  BY <1>6, <1>s, <2>1, <2>3 DEF RatifyRead, TypeOK, boardVars
<1>7. CASE RatifyCheck(q)
  <2>1. req[q].board \in Boards
    BY <1>7, <1>t, RequestShape DEF RatifyCheck
  <2>2. [at |-> "cover", board |-> req[q].board] \in Request
    BY <2>1 DEF Request, BoardRequest
  <2> QED  BY <1>7, <1>s, <2>2 DEF RatifyCheck, Goto, TypeOK, boardVars
<1>8. CASE RatifyCover(q)
  <2> DEFINE present == { r \in Scope[req[q].board] : Present(r) }
             covered == { [registration |-> r, content |-> record[r].content] : r \in present }
             s == [at |-> "decisions", board |-> req[q].board, covered |-> covered]
  <2>1. req[q].board \in Boards
    BY <1>8, <1>t, RequestShape DEF RatifyCover
  <2>2. \A r \in present : r \in Registrations /\ record[r] \in Row
    BY <1>t, <2>1, ScopeAssumption DEF Present, Records
  <2>3. covered \in SUBSET Covered
    BY <2>2 DEF Covered, Row
  <2>4. s \in Request
    BY <2>1, <2>3 DEF Request, BoardRequest
  <2>5. req' = [req EXCEPT ![q] = s]
    BY <1>8 DEF RatifyCover, Goto
  <2> QED  BY <1>8, <1>s, <2>4, <2>5 DEF RatifyCover, TypeOK, boardVars
<1>9. CASE RatifyDecisions(q)
  <2> PICK qualified \in SUBSET ScopeEnrolments(req[q].board) :
             Goto(q, [at |-> "ratify", board |-> req[q].board, covered |-> req[q].covered,
                      decided |-> { e \in qualified : Present(e) }])
    BY <1>9 DEF RatifyDecisions
  <2> DEFINE decided == { e \in qualified : Present(e) }
             s == [at |-> "ratify", board |-> req[q].board, covered |-> req[q].covered,
                   decided |-> decided]
  <2>1. req[q].board \in Boards /\ req[q].covered \in SUBSET Covered
    BY <1>9, <1>t, RequestShape DEF RatifyDecisions
  <2>2. decided \in SUBSET Enrolments
    BY <2>1, ScopeAssumption, EnrolmentOfAssumption DEF ScopeEnrolments
  <2>3. s \in Request
    BY <2>1, <2>2 DEF Request, BoardRequest
  <2>4. req' = [req EXCEPT ![q] = s]
    BY DEF Goto
  <2> QED  BY <1>9, <1>s, <2>3, <2>4 DEF RatifyDecisions, TypeOK, boardVars
<1>10. CASE RatifyWrite(q)
  <2> DEFINE b == req[q].board
             s == [at |-> "announceBoard", board |-> b, pending |-> req[q].covered]
  <2>1. b \in Boards /\ req[q].covered \in SUBSET Covered
    BY <1>10, <1>t, RequestShape DEF RatifyWrite
  <2>2. req' = [req EXCEPT ![q] = s]
    BY <1>10 DEF RatifyWrite, Goto
  <2>3. s \in Request
    BY <2>1 DEF Request, BoardRequest
  <2>4. \A x \in Records :
          \/ record'[x] = record[x]
          \/ /\ Present(x)
             /\ record'[x] = Ratified(record[x], x, b)
    BY <1>10 DEF RatifyWrite, LockedBy
  <2>5. \A x \in Records :
          /\ record'[x] \in Row \cup {Absent}
          /\ record'[x] = record[x] \/ (Present(x) /\ record'[x].content = record[x].content)
    BY <1>t, <2>1, <2>4, RatifiedType DEF Present
  <2>6. record' \in [Records -> Row \cup {Absent}]
    <3>1. record' = [x \in Records |-> record'[x]]
      BY <1>10 DEF RatifyWrite
    <3> QED  BY <2>5, <3>1
  <2>7. ContentsFit' /\ req' \in [Requests -> Request]
    BY <2>2, <2>3, <2>5, <2>6, StepKeepsContentsFit
  <2>8. boards' \in [Boards -> Board]
    BY <1>10, <1>t DEF RatifyWrite, Board
  <2> QED  BY <1>10, <1>k, <2>6, <2>7, <2>8 DEF RatifyWrite, TypeOK
<1>11. CASE AnnounceBoard(q)
  <2> DEFINE next == [req[q] EXCEPT !.at = "announce"]
  <2>1. req[q] \in [at : {"announceBoard", "announce"}, board : Boards, pending : SUBSET Covered]
    BY <1>11, <1>t, RequestShape DEF AnnounceBoard
  <2>2. next \in Request /\ next.at = "announce"
    BY <2>1 DEF Request, BoardRequest
  <2>3. announcedBoards' \subseteq Boards
    BY <1>11, <2>1 DEF AnnounceBoard, TypeOK
  <2>4. CASE req[q].pending = {}
    BY <1>11, <1>t, <1>s, <2>3, <2>4 DEF AnnounceBoard, Goto, TypeOK
  <2>5. CASE req[q].pending # {}
    BY <1>11, <1>t, <1>s, <2>2, <2>3, <2>5 DEF AnnounceBoard, Goto, TypeOK
  <2> QED  BY <2>4, <2>5
<1>12. CASE AnnounceResult(q)
  <2>1. PICK c \in req[q].pending :
          /\ announced' = announced \cup {[board |-> req[q].board, registration |-> c.registration,
                                           content |-> c.content]}
          /\ Goto(q, IF req[q].pending = {c} THEN Idle
                     ELSE [req[q] EXCEPT !.pending = @ \ {c}])
    BY <1>12 DEF AnnounceResult
  <2> DEFINE next == [req[q] EXCEPT !.pending = @ \ {c}]
  <2>2. req[q] \in [at : {"announceBoard", "announce"}, board : Boards, pending : SUBSET Covered]
    BY <1>12, <1>t, RequestShape DEF AnnounceResult
  <2>3. next \in Request /\ next.at = "announce"
    BY <1>12, <2>2 DEF AnnounceResult, Request, BoardRequest
  <2>4. announced' \subseteq [board : Boards, registration : Registrations, content : Contents]
    BY <2>1, <2>2 DEF Covered, TypeOK
  <2>5. CASE req[q].pending = {c}
    BY <1>12, <1>t, <1>s, <2>1, <2>4, <2>5 DEF AnnounceResult, Goto, TypeOK
  <2>6. CASE req[q].pending # {c}
    BY <1>12, <1>t, <1>s, <2>1, <2>3, <2>4, <2>6 DEF AnnounceResult, Goto, TypeOK
  <2> QED  BY <2>5, <2>6
<1>13. CASE PackRead(q)
  <2>1. PICK b \in Boards : req' = [req EXCEPT ![q] = [at |-> "packLock", board |-> b]]
    BY <1>13 DEF PackRead, Goto
  <2>2. [at |-> "packLock", board |-> b] \in Request
    BY DEF Request, BoardRequest
  <2> QED  BY <1>13, <1>s, <2>1, <2>2 DEF PackRead, TypeOK, boardVars
<1>14. CASE PackLock(q)
  <2> DEFINE b == req[q].board
  <2>1. b \in Boards
    BY <1>14, <1>t, RequestShape DEF PackLock
  <2>2. PICK previous \in IF CurrentPacks(b) = {} THEN {0} ELSE { p.version : p \in CurrentPacks(b) } :
          req' = [req EXCEPT ![q] = [at |-> "pack", board |-> b, previous |-> previous]]
    BY <1>14 DEF PackLock, Goto
  <2>3. previous \in Nat
    BY <1>t, <2>1, <2>2 DEF CurrentPacks, Pack
  <2>4. [at |-> "pack", board |-> b, previous |-> previous] \in Request
    BY <2>1, <2>3 DEF Request, BoardRequest
  <2> QED  BY <1>14, <1>s, <2>2, <2>4 DEF PackLock, TypeOK, boardVars
<1>15. CASE PackWrite(q)
  <2> DEFINE b == req[q].board
             previous == req[q].previous
             kept == { IF p.version = previous THEN [p EXCEPT !.superseded = TRUE] ELSE p : p \in packs[b] }
  <2>1. b \in Boards /\ previous \in Nat
    BY <1>15, <1>t, RequestShape DEF PackWrite
  <2>2. kept \subseteq Pack
    <3>1. ASSUME NEW p \in packs[b] PROVE p \in Pack
      BY <1>t, <2>1, <3>1
    <3>2. ASSUME NEW p \in Pack PROVE [p EXCEPT !.superseded = TRUE] \in Pack
      BY <3>2 DEF Pack
    <3> QED  BY <3>1, <3>2
  <2>3. [version |-> previous + 1, superseded |-> FALSE] \in Pack
    BY <2>1 DEF Pack
  <2>4. packs' = [packs EXCEPT ![b] = kept \cup {[version |-> previous + 1, superseded |-> FALSE]}]
    BY <1>15 DEF PackWrite
  <2>5. packs' \in [Boards -> SUBSET Pack]
    BY <1>t, <2>2, <2>3, <2>4
  <2> QED  BY <1>15, <1>t, <1>s, <2>5 DEF PackWrite, Goto, TypeOK
<1> QED
  BY <1>q, <1>1, <1>2, <1>3, <1>4, <1>5, <1>6, <1>7, <1>8, <1>9, <1>10, <1>11, <1>12, <1>13,
     <1>14, <1>15

LEMMA CorrectionTypeOK ==
  ASSUME TypeOK, CorrectionNext, UNCHANGED boardVars
  PROVE  TypeOK'
<1>q. PICK q \in Requests :
        \/ OpenCase(q) \/ AdvanceRead(q) \/ AdvanceWrite(q)
        \/ AmendCheck(q) \/ AmendRead(q) \/ AmendWrite(q)
  BY DEF CorrectionNext
<1>t. /\ req[q] \in Request
      /\ record \in [Records -> Row \cup {Absent}]
      /\ versions \in [Cases -> Seq(Statuses)]
      /\ ledger \in Seq(Amendment)
      /\ Idle \in Request
      /\ Idle.at = "idle"
  BY DEF TypeOK, Request, AcademicRequest, Idle
<1>s. ASSUME ContentsFit', req' \in [Requests -> Request],
             record' \in [Records -> Row \cup {Absent}],
             versions' \in [Cases -> Seq(Statuses)], ledger' \in Seq(Amendment)
      PROVE  TypeOK'
  BY <1>s DEF TypeOK, boardVars
<1>1. CASE OpenCase(q)
  <2>1. req' = [req EXCEPT ![q] = Idle]
    BY <1>1 DEF OpenCase, TypeOK
  <2>2. <<"open">> \in Seq(Statuses)
    BY DEF Statuses
  <2>3. versions' \in [Cases -> Seq(Statuses)]
    BY <1>1, <1>t, <2>2 DEF OpenCase
  <2> QED  BY <1>1, <1>t, <1>s, <2>1, <2>3, StepKeepsContentsFit DEF OpenCase
<1>2. CASE AdvanceRead(q)
  <2>0. PICK c \in Cases :
          /\ Opened(c)
          /\ \E s \in Transitions[Current(c)] :
               req' = [req EXCEPT ![q] = [at |-> "advance", case |-> c, status |-> s]]
    BY <1>2 DEF AdvanceRead
  <2>1. PICK s \in Transitions[Current(c)] :
          req' = [req EXCEPT ![q] = [at |-> "advance", case |-> c, status |-> s]]
    BY <2>0
  <2>2. Current(c) \in Statuses
    BY <1>t, <2>0 DEF Opened, Current
  <2>3. s \in Statuses
    BY <2>1, <2>2 DEF Transitions, Statuses
  <2>4. [at |-> "advance", case |-> c, status |-> s] \in Request
    BY <2>3 DEF Request, CorrectionRequest
  <2> QED  BY <1>2, <1>t, <1>s, <2>1, <2>4, StepKeepsContentsFit DEF AdvanceRead, correctionVars
<1>3. CASE AdvanceWrite(q)
  <2>1. req[q].case \in Cases /\ req[q].status \in Statuses
    BY <1>3, <1>t, RequestShape DEF AdvanceWrite
  <2>2. versions' \in [Cases -> Seq(Statuses)]
    BY <1>3, <1>t, <2>1 DEF AdvanceWrite
  <2> QED  BY <1>3, <1>t, <1>s, <2>2, StepKeepsContentsFit DEF AdvanceWrite
<1>4. CASE AmendCheck(q)
  <2>1. PICK c \in Cases, x \in Records : \E content \in ContentsOf(x) :
          req' = [req EXCEPT ![q] = [at |-> "amend", case |-> c, target |-> x, content |-> content]]
    BY <1>4 DEF AmendCheck
  <2>2. PICK content \in ContentsOf(x) :
          req' = [req EXCEPT ![q] = [at |-> "amend", case |-> c, target |-> x, content |-> content]]
    BY <2>1
  <2>3. [at |-> "amend", case |-> c, target |-> x, content |-> content] \in Request
    BY ContentsByKind DEF Request, CorrectionRequest
  <2> QED  BY <1>4, <1>t, <1>s, <2>2, <2>3, StepKeepsContentsFit DEF AmendCheck, correctionVars
<1>5. CASE AmendRead(q)
  <2> DEFINE x == req[q].target
             s == [at |-> "amendWrite", case |-> req[q].case, target |-> x,
                   content |-> req[q].content, seen |-> record[x]]
  <2>1. req[q] \in [at : {"amend"}, case : Cases, target : Records, content : Contents]
    BY <1>5, <1>t, RequestShape DEF AmendRead
  <2>2. record[x] \in Row
    BY <1>5, <1>t, <2>1 DEF AmendRead, Present
  <2>3. s \in Request
    BY <2>1, <2>2 DEF Request, CorrectionRequest
  <2>4. s.content \in ContentsOf(s.target)
    BY <2>1 DEF TypeOK, ContentsFit
  <2> QED  BY <1>5, <1>t, <1>s, <2>3, <2>4, StepKeepsContentsFit DEF AmendRead, correctionVars
<1>6. CASE AmendWrite(q)
  <2> DEFINE x == req[q].target
             seen == req[q].seen
             n == [seen EXCEPT !.content = req[q].content, !.locked = TRUE]
             a == [case |-> req[q].case, target |-> x, before |-> seen, after |-> req[q].content]
  <2>1. req[q] \in [at : {"amendWrite"}, case : Cases, target : Records,
                    content : Contents, seen : Row]
    BY <1>6, <1>t, RequestShape DEF AmendWrite
  <2>2. n \in Row /\ n.content = req[q].content
    BY <2>1 DEF Row
  <2>3. req[q].content \in ContentsOf(x)
    BY <2>1 DEF TypeOK, ContentsFit
  <2>4. record' = [record EXCEPT ![x] = n] /\ ledger' = Append(ledger, a)
    BY <1>6 DEF AmendWrite
  <2>5. record' \in [Records -> Row \cup {Absent}]
    BY <1>t, <2>1, <2>2, <2>4
  <2>6. \A y \in Records : record'[y] = record[y] \/ record'[y].content \in ContentsOf(y)
    BY <1>t, <2>1, <2>2, <2>3, <2>4
  <2>7. ledger' \in Seq(Amendment)
    BY <1>t, <2>1, <2>4 DEF Amendment
  <2> QED  BY <1>6, <1>t, <1>s, <2>5, <2>6, <2>7, StepKeepsContentsFit DEF AmendWrite
<1> QED  BY <1>q, <1>1, <1>2, <1>3, <1>4, <1>5, <1>6

LEMMA InitTypeOK == Init => TypeOK
<1> SUFFICES ASSUME Init PROVE TypeOK
  OBVIOUS
<1>1. Idle \in Request
  BY DEF Request, AcademicRequest
<1>2. ContentsFit
  BY DEF Init, AcademicInit, ContentsFit, Present, Idle
<1>3. boards \in [Boards -> Board]
  BY DEF Init, BoardInit, Board
<1>4. versions \in [Cases -> Seq(Statuses)] /\ ledger \in Seq(Amendment)
  BY DEF Init, CorrectionInit
<1> QED  BY <1>1, <1>2, <1>3, <1>4 DEF Init, AcademicInit, BoardInit, TypeOK

LEMMA NextTypeOK == TypeOK /\ [Next]_vars => TypeOK'
<1> SUFFICES ASSUME TypeOK, [Next]_vars PROVE TypeOK'
  OBVIOUS
<1>1. CASE AcademicNext /\ UNCHANGED <<boardVars, correctionVars>>
  BY <1>1, AcademicTypeOK
<1>2. CASE BoardNext /\ UNCHANGED correctionVars
  BY <1>2, BoardTypeOK
<1>3. CASE CorrectionNext /\ UNCHANGED boardVars
  BY <1>3, CorrectionTypeOK
<1>4. CASE UNCHANGED vars
  BY <1>4 DEF vars, boardVars, correctionVars, TypeOK, ContentsFit, Present
<1> QED  BY <1>1, <1>2, <1>3, <1>4 DEF Next

\* Every record and every request of the assessment, board and correction services
\* stays well formed; in particular no decision is computed from a mark.
THEOREM TypeCorrect == Spec => []TypeOK
<1> QED  BY InitTypeOK, NextTypeOK, PTL DEF Spec

-------------------------------------------------------------------------------
(***************************************************************************)
(* Ratification and its announcement                                       *)
(***************************************************************************)

\* What a ratification in progress has established, at each of its steps.
RatifyingBoardsMet ==
  \A q \in Requests :
    /\ req[q].at = "signoff" /\ req[q].quorum # NoQuorum =>
         boards[req[q].board].quorum # NoQuorum
    /\ req[q].at \in {"cover", "decisions", "ratify"} => Preconditions(req[q].board)

\* What a ratification carries from its reads is in the scope of its board.
CarriedInScope ==
  \A q \in Requests :
    /\ req[q].at \in {"decisions", "ratify"} =>
         RegistrationsOf(req[q].covered) \subseteq Scope[req[q].board]
    /\ req[q].at = "ratify" => req[q].decided \subseteq ScopeEnrolments(req[q].board)
    /\ req[q].at \in {"announceBoard", "announce"} =>
         /\ boards[req[q].board].ratified
         /\ RegistrationsOf(req[q].pending) \subseteq Scope[req[q].board]
    /\ req[q].at = "announce" => req[q].board \in announcedBoards

BoardInv ==
  /\ TypeOK
  /\ RatifyingBoardsMet
  /\ CarriedInScope
  /\ RatifiedBoardsMetPreconditions
  /\ AnnouncementsFollowRatification

RatifyAt == {"signoff", "cover", "decisions", "ratify", "announceBoard", "announce"}

RatifyStep(q) ==
  \/ RatifyRead(q) \/ RatifyCheck(q) \/ RatifyCover(q) \/ RatifyDecisions(q) \/ RatifyWrite(q)
  \/ AnnounceBoard(q) \/ AnnounceResult(q)

\* Only the steps of ratifyBoard bring a request to one of its steps.
LEMMA OnlyRatifyStepsRatify ==
  ASSUME TypeOK, Next, NEW p \in Requests, req'[p].at \in RatifyAt
  PROVE  req'[p] = req[p] \/ RatifyStep(p)
<1>t. req \in [Requests -> Request]
  BY DEF TypeOK
<1>1. CASE AcademicNext
  <2>q. PICK q \in Requests :
          \/ IngestMark(q) \/ UpdateMarkRead(q) \/ EvaluateProgression(q)
          \/ ReadMarks(q) \/ ReadOutcomes(q) \/ ReadTarget(q) \/ Write(q)
          \/ RequestFails(q)
    BY <1>1 DEF AcademicNext
  <2>1. CASE IngestMark(q)  BY <2>1, <1>t DEF IngestMark, RatifyAt
  <2>2. CASE UpdateMarkRead(q)  BY <2>2, <1>t DEF UpdateMarkRead, RatifyAt
  <2>3. CASE EvaluateProgression(q)  BY <2>3, <1>t DEF EvaluateProgression, RatifyAt
  <2>4. CASE ReadMarks(q)  BY <2>4, <1>t DEF ReadMarks, RatifyAt, Idle
  <2>5. CASE ReadOutcomes(q)  BY <2>5, <1>t DEF ReadOutcomes, RatifyAt
  <2>6. CASE ReadTarget(q)  BY <2>6, <1>t DEF ReadTarget, RatifyAt
  <2>7. CASE Write(q)  BY <2>7, <1>t DEF Write, RatifyAt, Idle
  <2>8. CASE RequestFails(q)  BY <2>8, <1>t DEF RequestFails, RatifyAt, Idle
  <2> QED  BY <2>q, <2>1, <2>2, <2>3, <2>4, <2>5, <2>6, <2>7, <2>8
<1>2. CASE BoardNext
  <2>q. PICK q \in Requests :
          \/ RecordSignoff(q) \/ DeferRead(q) \/ ReopenRead(q) \/ QuorumRead(q) \/ BoardWrite(q)
          \/ RatifyStep(q) \/ PackRead(q) \/ PackLock(q) \/ PackWrite(q)
    BY <1>2 DEF BoardNext, RatifyStep
  <2>1. CASE RecordSignoff(q)  BY <2>1, <1>t DEF RecordSignoff
  <2>2. CASE DeferRead(q)  BY <2>2, <1>t DEF DeferRead, Goto, RatifyAt
  <2>3. CASE ReopenRead(q)  BY <2>3, <1>t DEF ReopenRead, Goto, RatifyAt
  <2>4. CASE QuorumRead(q)  BY <2>4, <1>t DEF QuorumRead, Goto, RatifyAt
  <2>5. CASE BoardWrite(q)  BY <2>5, <1>t DEF BoardWrite, Goto, RatifyAt, Idle
  <2>6. CASE RatifyStep(q) /\ p # q
    BY <2>6, <1>t DEF RatifyStep, RatifyRead, RatifyCheck, RatifyCover, RatifyDecisions, RatifyWrite,
                      AnnounceBoard, AnnounceResult, Goto
  <2>7. CASE PackRead(q)  BY <2>7, <1>t DEF PackRead, Goto, RatifyAt
  <2>8. CASE PackLock(q)  BY <2>8, <1>t DEF PackLock, Goto, RatifyAt
  <2>9. CASE PackWrite(q)  BY <2>9, <1>t DEF PackWrite, Goto, RatifyAt, Idle
  <2> QED  BY <2>q, <2>1, <2>2, <2>3, <2>4, <2>5, <2>6, <2>7, <2>8, <2>9
<1>3. CASE CorrectionNext
  <2>q. PICK q \in Requests :
          \/ OpenCase(q) \/ AdvanceRead(q) \/ AdvanceWrite(q)
          \/ AmendCheck(q) \/ AmendRead(q) \/ AmendWrite(q)
    BY <1>3 DEF CorrectionNext
  <2>1. CASE OpenCase(q)  BY <2>1, <1>t DEF OpenCase
  <2>2. CASE AdvanceRead(q)  BY <2>2, <1>t DEF AdvanceRead, RatifyAt
  <2>3. CASE AdvanceWrite(q)  BY <2>3, <1>t DEF AdvanceWrite, RatifyAt, Idle
  <2>4. CASE AmendCheck(q)  BY <2>4, <1>t DEF AmendCheck, RatifyAt
  <2>5. CASE AmendRead(q)  BY <2>5, <1>t DEF AmendRead, RatifyAt
  <2>6. CASE AmendWrite(q)  BY <2>6, <1>t DEF AmendWrite, RatifyAt, Idle
  <2> QED  BY <2>q, <2>1, <2>2, <2>3, <2>4, <2>5, <2>6
<1> QED  BY <1>1, <1>2, <1>3 DEF Next

\* What a board has, it keeps: ratification, sign-off and a quorum.
LEMMA BoardsKeep ==
  ASSUME TypeOK, Next, NEW b \in Boards
  PROVE  /\ boards[b].ratified => boards'[b].ratified
         /\ boards[b].signedOff => boards'[b].signedOff
         /\ boards[b].quorum # NoQuorum => boards'[b].quorum # NoQuorum
         /\ b \in announcedBoards => b \in announcedBoards'
<1>t. boards \in [Boards -> Board] /\ \A q \in Requests : req[q] \in Request
  BY DEF TypeOK
<1>b. boards[b] \in [ratified : BOOLEAN, deferred : BOOLEAN, signedOff : BOOLEAN,
                     quorum : (Nat \ {0}) \cup {NoQuorum}]
  BY <1>t DEF Board
<1>1. CASE AcademicNext /\ UNCHANGED <<boardVars, correctionVars>>
  BY <1>1 DEF boardVars
<1>2. CASE CorrectionNext /\ UNCHANGED boardVars
  BY <1>2 DEF boardVars
<1>3. CASE BoardNext
  <2>q. PICK q \in Requests :
          \/ RecordSignoff(q) \/ BoardWrite(q) \/ RatifyWrite(q)
          \/ UNCHANGED boards /\ (AnnounceBoard(q) \/ UNCHANGED announcedBoards)
    BY <1>3 DEF BoardNext, DeferRead, ReopenRead, QuorumRead, RatifyRead, RatifyCheck, RatifyCover,
                RatifyDecisions, AnnounceBoard, AnnounceResult, PackRead, PackLock, PackWrite, boardVars
  <2>1. CASE RecordSignoff(q)
    BY <2>1, <1>t, <1>b DEF RecordSignoff
  <2>2. CASE BoardWrite(q)
    <3>1. req[q].at = "quorum" => req[q].count \in Nat \ {0}
      BY <1>t, RequestShape
    <3>2. announcedBoards' = announcedBoards
      BY <2>2 DEF BoardWrite
    <3>3. CASE req[q].board # b  BY <2>2, <3>2, <3>3, <1>t DEF BoardWrite
    <3>4. CASE req[q].board = b /\ req[q].at = "defer"
      BY <2>2, <3>2, <3>4, <1>t, <1>b DEF BoardWrite
    <3>5. CASE req[q].board = b /\ req[q].at = "reopen"
      BY <2>2, <3>2, <3>5, <1>t, <1>b DEF BoardWrite
    <3>6. CASE req[q].board = b /\ req[q].at = "quorum"
      BY <2>2, <3>1, <3>2, <3>6, <1>t, <1>b, MemberCountsAssumption DEF BoardWrite
    <3> QED  BY <2>2, <3>3, <3>4, <3>5, <3>6 DEF BoardWrite
  <2>3. CASE RatifyWrite(q)
    BY <2>3, <1>t, <1>b DEF RatifyWrite
  <2>4. CASE UNCHANGED boards /\ (AnnounceBoard(q) \/ UNCHANGED announcedBoards)
    BY <2>4 DEF AnnounceBoard
  <2> QED  BY <2>q, <2>1, <2>2, <2>3, <2>4
<1> QED  BY <1>1, <1>2, <1>3 DEF Next

LEMMA StepRatifyingBoardsMet ==
  ASSUME BoardInv, Next
  PROVE  RatifyingBoardsMet'
<1>t. /\ req \in [Requests -> Request]
      /\ boards \in [Boards -> Board]
      /\ TypeOK
  BY DEF BoardInv, TypeOK
<1> SUFFICES ASSUME NEW p \in Requests, req'[p].at \in {"signoff", "cover", "decisions", "ratify"}
             PROVE  /\ req'[p].at = "signoff" /\ req'[p].quorum # NoQuorum =>
                         boards'[req'[p].board].quorum # NoQuorum
                    /\ req'[p].at \in {"cover", "decisions", "ratify"} =>
                         /\ ExaminerRequired => boards'[req'[p].board].signedOff
                         /\ QuorumRequired /\ ~FlagsFail =>
                              boards'[req'[p].board].quorum # NoQuorum
  BY DEF RatifyingBoardsMet, Preconditions
<1>1. CASE req'[p] = req[p]
  <2>1. req[p].board \in Boards
    BY <1>1, <1>t, RequestShape
  <2> QED  BY <1>1, <1>t, <2>1, BoardsKeep DEF BoardInv, RatifyingBoardsMet, Preconditions
<1>2. CASE RatifyRead(p)
  <2>1. PICK b \in Boards :
          req' = [req EXCEPT ![p] = [at |-> "signoff", board |-> b, quorum |-> boards[b].quorum]]
    BY <1>2 DEF RatifyRead, Goto
  <2>2. boards' = boards
    BY <1>2 DEF RatifyRead, boardVars
  <2> QED  BY <1>t, <2>1, <2>2
<1>3. CASE RatifyCheck(p)
  <2>1. req' = [req EXCEPT ![p] = [at |-> "cover", board |-> req[p].board]] /\ boards' = boards
    BY <1>3 DEF RatifyCheck, Goto, boardVars
  <2>2. ExaminerRequired => boards[req[p].board].signedOff
    BY <1>3, FlagsAssumption DEF RatifyCheck, SignOffMet, Evaluated
  <2>3. QuorumRequired /\ ~FlagsFail => req[p].quorum # NoQuorum
    BY <1>3, FlagsAssumption DEF RatifyCheck, QuorumMet, Evaluated
  <2>4. req[p].quorum # NoQuorum => boards[req[p].board].quorum # NoQuorum
    BY <1>3 DEF RatifyCheck, BoardInv, RatifyingBoardsMet
  <2> QED  BY <1>t, <2>1, <2>2, <2>3, <2>4 DEF Preconditions
<1>4. CASE RatifyCover(p)
  <2>1. req'[p].board = req[p].board /\ req'[p].at = "decisions" /\ boards' = boards
    BY <1>4, <1>t DEF RatifyCover, Goto, boardVars
  <2> QED  BY <1>4, <2>1 DEF RatifyCover, BoardInv, RatifyingBoardsMet, Preconditions
<1>5. CASE RatifyDecisions(p)
  <2>1. req'[p].board = req[p].board /\ req'[p].at = "ratify" /\ boards' = boards
    BY <1>5, <1>t DEF RatifyDecisions, Goto, boardVars
  <2> QED  BY <1>5, <2>1 DEF RatifyDecisions, BoardInv, RatifyingBoardsMet, Preconditions
<1>6. CASE RatifyWrite(p)
  BY <1>6, <1>t DEF RatifyWrite, Goto
<1>7. CASE AnnounceBoard(p)
  <2>1. req[p] \in [at : {"announceBoard", "announce"}, board : Boards, pending : SUBSET Covered]
    BY <1>7, <1>t, RequestShape DEF AnnounceBoard
  <2> QED  BY <1>7, <1>t, <2>1 DEF AnnounceBoard, Goto, Idle
<1>8. CASE AnnounceResult(p)
  <2>1. req[p] \in [at : {"announceBoard", "announce"}, board : Boards, pending : SUBSET Covered]
    BY <1>8, <1>t, RequestShape DEF AnnounceResult
  <2>2. req'[p].at \in {"idle", "announce"}
    BY <1>8, <1>t, <2>1 DEF AnnounceResult, Goto, Idle
  <2> QED  BY <2>2
<1> QED
  BY <1>t, <1>1, <1>2, <1>3, <1>4, <1>5, <1>6, <1>7, <1>8, OnlyRatifyStepsRatify
  DEF RatifyStep, RatifyAt

LEMMA StepRatifiedBoardsMet ==
  ASSUME BoardInv, Next
  PROVE  RatifiedBoardsMetPreconditions'
<1>t. boards \in [Boards -> Board] /\ TypeOK /\ \A q \in Requests : req[q] \in Request
  BY DEF BoardInv, TypeOK
<1> SUFFICES ASSUME NEW b \in Boards, boards'[b].ratified
             PROVE  Preconditions(b)'
  BY DEF RatifiedBoardsMetPreconditions
<1>1. Preconditions(b) => Preconditions(b)'
  BY <1>t, BoardsKeep DEF Preconditions
<1>2. CASE boards[b].ratified
  BY <1>1, <1>2 DEF BoardInv, RatifiedBoardsMetPreconditions
<1>3. CASE ~boards[b].ratified
  <2>1. PICK q \in Requests : RecordSignoff(q) \/ BoardWrite(q) \/ RatifyWrite(q)
    BY <1>3 DEF Next, BoardNext, DeferRead, ReopenRead, QuorumRead, RatifyRead, RatifyCheck, RatifyCover,
                RatifyDecisions, AnnounceBoard, AnnounceResult, PackRead, PackLock, PackWrite, boardVars
  <2>2. ~RecordSignoff(q)
    BY <1>t, <1>3 DEF RecordSignoff, Board
  <2>3. ~BoardWrite(q)
    <3>1. BoardWrite(q) => boards[b] \in Board /\ req[q].board \in Boards
      BY <1>t, RequestShape DEF BoardWrite
    <3>2. CASE req[q].at = "defer"  BY <1>t, <1>3, <3>1, <3>2 DEF BoardWrite, Board
    <3>3. CASE req[q].at = "reopen"  BY <1>t, <1>3, <3>1, <3>3 DEF BoardWrite, Board
    <3>4. CASE req[q].at = "quorum"  BY <1>t, <1>3, <3>1, <3>4 DEF BoardWrite, Board
    <3> QED  BY <3>2, <3>3, <3>4 DEF BoardWrite
  <2>4. RatifyWrite(q) /\ req[q].board = b
    BY <1>t, <1>3, <2>1, <2>2, <2>3 DEF RatifyWrite
  <2>5. Preconditions(b)
    BY <2>4 DEF BoardInv, RatifyingBoardsMet, RatifyWrite
  <2> QED  BY <1>1, <2>5
<1> QED  BY <1>2, <1>3

LEMMA StepCarriedInScope ==
  ASSUME BoardInv, Next
  PROVE  CarriedInScope'
<1>t. /\ req \in [Requests -> Request]
      /\ boards \in [Boards -> Board]
      /\ TypeOK
  BY DEF BoardInv, TypeOK
<1> SUFFICES ASSUME NEW p \in Requests,
                    req'[p].at \in {"decisions", "ratify", "announceBoard", "announce"}
             PROVE  /\ req'[p].at \in {"decisions", "ratify"} =>
                         RegistrationsOf(req'[p].covered) \subseteq Scope[req'[p].board]
                    /\ req'[p].at = "ratify" =>
                         req'[p].decided \subseteq ScopeEnrolments(req'[p].board)
                    /\ req'[p].at \in {"announceBoard", "announce"} =>
                         /\ boards'[req'[p].board].ratified
                         /\ RegistrationsOf(req'[p].pending) \subseteq Scope[req'[p].board]
                    /\ req'[p].at = "announce" => req'[p].board \in announcedBoards'
  BY DEF CarriedInScope, RegistrationsOf, ScopeEnrolments
<1>1. CASE req'[p] = req[p]
  <2>1. req[p].board \in Boards
    BY <1>1, <1>t, RequestShape
  <2> QED  BY <1>1, <1>t, <2>1, BoardsKeep DEF BoardInv, CarriedInScope
<1>2. CASE RatifyRead(p)
  BY <1>2, <1>t DEF RatifyRead, Goto
<1>3. CASE RatifyCheck(p)
  BY <1>3, <1>t DEF RatifyCheck, Goto
<1>4. CASE RatifyCover(p)
  <2> DEFINE present == { r \in Scope[req[p].board] : Present(r) }
             covered == { [registration |-> r, content |-> record[r].content] : r \in present }
  <2>1. req'[p] = [at |-> "decisions", board |-> req[p].board, covered |-> covered]
    BY <1>4, <1>t DEF RatifyCover, Goto
  <2>2. RegistrationsOf(covered) \subseteq Scope[req[p].board]
    BY DEF RegistrationsOf
  <2> QED  BY <2>1, <2>2
<1>5. CASE RatifyDecisions(p)
  <2> PICK qualified \in SUBSET ScopeEnrolments(req[p].board) :
             Goto(p, [at |-> "ratify", board |-> req[p].board, covered |-> req[p].covered,
                      decided |-> { e \in qualified : Present(e) }])
    BY <1>5 DEF RatifyDecisions
  <2> DEFINE decided == { e \in qualified : Present(e) }
  <2>1. req'[p] = [at |-> "ratify", board |-> req[p].board, covered |-> req[p].covered,
                   decided |-> decided]
    BY <1>t DEF Goto
  <2>2. RegistrationsOf(req[p].covered) \subseteq Scope[req[p].board]
    BY <1>5 DEF RatifyDecisions, BoardInv, CarriedInScope
  <2> QED  BY <2>1, <2>2
<1>6. CASE RatifyWrite(p)
  <2>1. req'[p] = [at |-> "announceBoard", board |-> req[p].board, pending |-> req[p].covered]
    BY <1>6, <1>t DEF RatifyWrite, Goto
  <2>2. req[p].board \in Boards
    BY <1>6, <1>t, RequestShape DEF RatifyWrite
  <2>3. boards'[req[p].board].ratified
    BY <1>6, <1>t, <2>2 DEF RatifyWrite, Board
  <2>4. RegistrationsOf(req[p].covered) \subseteq Scope[req[p].board]
    BY <1>6 DEF RatifyWrite, BoardInv, CarriedInScope
  <2> QED  BY <2>1, <2>3, <2>4
<1>7. CASE AnnounceBoard(p)
  <2>1. req[p] \in [at : {"announceBoard", "announce"}, board : Boards, pending : SUBSET Covered]
    BY <1>7, <1>t, RequestShape DEF AnnounceBoard
  <2>2. /\ req'[p] = [req[p] EXCEPT !.at = "announce"]
        /\ announcedBoards' = announcedBoards \cup {req[p].board}
        /\ boards' = boards
    BY <1>7, <1>t DEF AnnounceBoard, Goto, Idle
  <2>3. /\ boards[req[p].board].ratified
        /\ RegistrationsOf(req[p].pending) \subseteq Scope[req[p].board]
    BY <1>7 DEF AnnounceBoard, BoardInv, CarriedInScope
  <2>4. req'[p].board = req[p].board /\ req'[p].pending = req[p].pending /\ req'[p].at = "announce"
    BY <2>1, <2>2
  <2> QED  BY <2>2, <2>3, <2>4
<1>8. CASE AnnounceResult(p)
  <2>1. req[p] \in [at : {"announceBoard", "announce"}, board : Boards, pending : SUBSET Covered]
    BY <1>8, <1>t, RequestShape DEF AnnounceResult
  <2>2. PICK c \in req[p].pending :
          Goto(p, IF req[p].pending = {c} THEN Idle ELSE [req[p] EXCEPT !.pending = @ \ {c}])
    BY <1>8 DEF AnnounceResult
  <2>3. req'[p] = [req[p] EXCEPT !.pending = @ \ {c}]
    BY <1>t, <2>2 DEF Goto, Idle
  <2>4. /\ req'[p].board = req[p].board
        /\ req'[p].pending \subseteq req[p].pending
        /\ req'[p].at = "announce"
    BY <1>8, <2>1, <2>3 DEF AnnounceResult
  <2>5. RegistrationsOf(req'[p].pending) \subseteq RegistrationsOf(req[p].pending)
    BY <2>4 DEF RegistrationsOf
  <2>6. boards' = boards /\ announcedBoards' = announcedBoards /\ req[p].at = "announce"
    BY <1>8 DEF AnnounceResult
  <2>7. /\ boards[req[p].board].ratified
        /\ RegistrationsOf(req[p].pending) \subseteq Scope[req[p].board]
        /\ req[p].board \in announcedBoards
    BY <2>6 DEF BoardInv, CarriedInScope
  <2> QED  BY <2>4, <2>5, <2>6, <2>7
<1> QED
  BY <1>t, <1>1, <1>2, <1>3, <1>4, <1>5, <1>6, <1>7, <1>8, OnlyRatifyStepsRatify
  DEF RatifyStep, RatifyAt

LEMMA StepAnnouncementsFollow ==
  ASSUME BoardInv, Next
  PROVE  AnnouncementsFollowRatification'
<1>t. TypeOK /\ announcedBoards \subseteq Boards /\ \A q \in Requests : req[q] \in Request
  BY DEF BoardInv, TypeOK
<1>i. AnnouncementsFollowRatification
  BY DEF BoardInv
<1>1. CASE UNCHANGED <<announcedBoards, announced>>
  BY <1>t, <1>i, <1>1, BoardsKeep DEF AnnouncementsFollowRatification
<1>2. ASSUME NEW q \in Requests, AnnounceBoard(q) PROVE AnnouncementsFollowRatification'
  <2>1. req[q].board \in Boards
    BY <1>t, <1>2, RequestShape DEF AnnounceBoard
  <2>2. boards[req[q].board].ratified
    BY <1>2 DEF AnnounceBoard, BoardInv, CarriedInScope
  <2> QED  BY <1>i, <1>2, <2>2 DEF AnnounceBoard, AnnouncementsFollowRatification
<1>3. ASSUME NEW q \in Requests, AnnounceResult(q) PROVE AnnouncementsFollowRatification'
  <2>1. PICK c \in req[q].pending :
          announced' = announced \cup {[board |-> req[q].board, registration |-> c.registration,
                                        content |-> c.content]}
    BY <1>3 DEF AnnounceResult
  <2>2. c.registration \in Scope[req[q].board] /\ req[q].board \in announcedBoards
    BY <1>3 DEF AnnounceResult, BoardInv, CarriedInScope, RegistrationsOf
  <2> QED  BY <1>i, <1>3, <2>1, <2>2 DEF AnnounceResult, AnnouncementsFollowRatification
<1> QED
  BY <1>1, <1>2, <1>3
  DEF Next, BoardNext, RecordSignoff, DeferRead, ReopenRead, QuorumRead, BoardWrite, RatifyRead,
      RatifyCheck, RatifyCover, RatifyDecisions, RatifyWrite, PackRead, PackLock, PackWrite, boardVars

LEMMA InitBoardInv == Init => BoardInv
<1>1. ASSUME Init PROVE BoardInv
  <2>1. TypeOK
    BY <1>1, InitTypeOK
  <2>2. RatifyingBoardsMet /\ CarriedInScope
    BY <1>1 DEF Init, AcademicInit, RatifyingBoardsMet, CarriedInScope, Idle
  <2>3. RatifiedBoardsMetPreconditions /\ AnnouncementsFollowRatification
    BY <1>1 DEF Init, BoardInit, RatifiedBoardsMetPreconditions, AnnouncementsFollowRatification
  <2> QED  BY <2>1, <2>2, <2>3 DEF BoardInv
<1> QED  BY <1>1

LEMMA NextBoardInv == BoardInv /\ [Next]_vars => BoardInv'
<1>1. ASSUME BoardInv, Next PROVE BoardInv'
  <2>1. TypeOK'
    BY <1>1, NextTypeOK DEF BoardInv
  <2> QED
    BY <1>1, <2>1, StepRatifyingBoardsMet, StepRatifiedBoardsMet, StepCarriedInScope,
       StepAnnouncementsFollow DEF BoardInv
<1>2. ASSUME BoardInv, UNCHANGED vars PROVE BoardInv'
  <2>1. TypeOK'
    BY <1>2, NextTypeOK DEF BoardInv
  <2> QED
    BY <1>2, <2>1 DEF BoardInv, vars, boardVars, correctionVars, RatifyingBoardsMet, CarriedInScope,
       RatifiedBoardsMetPreconditions, Preconditions, AnnouncementsFollowRatification
<1> QED  BY <1>1, <1>2

LEMMA BoardInvariant == Spec => []BoardInv
BY InitBoardInv, NextBoardInv, PTL DEF Spec

\* No overlap of requests, and no failing flag, ratifies a board that lacks a
\* required examiner sign-off; and none, while flags can be evaluated, one that
\* lacks a required quorum.
THEOREM RatificationIsAuthorised == Spec => []RatifiedBoardsMetPreconditions
<1>1. BoardInv => RatifiedBoardsMetPreconditions
  BY DEF BoardInv
<1> QED  BY <1>1, BoardInvariant, PTL

\* Consumers never hear of a ratified result before its board, or of a board that
\* is not ratified, or of a result outside the board's scope.
THEOREM AnnouncementsAreTrue == Spec => []AnnouncementsFollowRatification
<1>1. BoardInv => AnnouncementsFollowRatification
  BY DEF BoardInv
<1> QED  BY <1>1, BoardInvariant, PTL

-------------------------------------------------------------------------------
(***************************************************************************)
(* Sealed records                                                          *)
(***************************************************************************)

\* Only the two reads that check a lock bring a request to its write.
LEMMA OnlyLockChecksBeginWrites ==
  ASSUME TypeOK, Next, NEW p \in Requests, req'[p].at = "write"
  PROVE  req'[p] = req[p] \/ UpdateMarkRead(p) \/ ReadTarget(p)
<1>t. req \in [Requests -> Request]
  BY DEF TypeOK
<1>1. CASE AcademicNext
  <2>q. PICK q \in Requests :
          \/ IngestMark(q) \/ UpdateMarkRead(q) \/ EvaluateProgression(q)
          \/ ReadMarks(q) \/ ReadOutcomes(q) \/ ReadTarget(q) \/ Write(q)
          \/ RequestFails(q)
    BY <1>1 DEF AcademicNext
  <2>1. CASE IngestMark(q)  BY <2>1, <1>t DEF IngestMark
  <2>2. CASE UpdateMarkRead(q)  BY <2>2, <1>t DEF UpdateMarkRead
  <2>3. CASE EvaluateProgression(q)  BY <2>3, <1>t DEF EvaluateProgression
  <2>4. CASE ReadMarks(q)  BY <2>4, <1>t DEF ReadMarks, Idle
  <2>5. CASE ReadOutcomes(q)  BY <2>5, <1>t DEF ReadOutcomes
  <2>6. CASE ReadTarget(q)  BY <2>6, <1>t DEF ReadTarget
  <2>7. CASE Write(q)  BY <2>7, <1>t DEF Write, Idle
  <2>8. CASE RequestFails(q)  BY <2>8, <1>t DEF RequestFails, Idle
  <2> QED  BY <2>q, <2>1, <2>2, <2>3, <2>4, <2>5, <2>6, <2>7, <2>8
<1>2. CASE BoardNext
  <2>q. PICK q \in Requests :
          \/ RecordSignoff(q) \/ DeferRead(q) \/ ReopenRead(q) \/ QuorumRead(q) \/ BoardWrite(q)
          \/ RatifyRead(q) \/ RatifyCheck(q) \/ RatifyCover(q) \/ RatifyDecisions(q)
          \/ RatifyWrite(q) \/ AnnounceBoard(q) \/ AnnounceResult(q)
          \/ PackRead(q) \/ PackLock(q) \/ PackWrite(q)
    BY <1>2 DEF BoardNext
  <2>1. CASE RecordSignoff(q)  BY <2>1, <1>t DEF RecordSignoff
  <2>2. CASE DeferRead(q)  BY <2>2, <1>t DEF DeferRead, Goto
  <2>9. CASE ReopenRead(q)  BY <2>9, <1>t DEF ReopenRead, Goto
  <2>8. CASE QuorumRead(q)  BY <2>8, <1>t DEF QuorumRead, Goto
  <2>3. CASE BoardWrite(q) \/ PackWrite(q)  BY <2>3, <1>t DEF BoardWrite, PackWrite, Goto, Idle
  <2>4. CASE RatifyRead(q) \/ RatifyCheck(q) \/ RatifyCover(q)
    BY <2>4, <1>t DEF RatifyRead, RatifyCheck, RatifyCover, Goto
  <2>5. CASE RatifyDecisions(q) \/ RatifyWrite(q)
    BY <2>5, <1>t DEF RatifyDecisions, RatifyWrite, Goto
  <2>6. CASE AnnounceBoard(q) \/ AnnounceResult(q)
    <3>1. req[q] \in [at : {"announceBoard", "announce"}, board : Boards, pending : SUBSET Covered]
      BY <2>6, <1>t, RequestShape DEF AnnounceBoard, AnnounceResult
    <3> QED  BY <2>6, <3>1, <1>t DEF AnnounceBoard, AnnounceResult, Goto, Idle
  <2>7. CASE PackRead(q) \/ PackLock(q)  BY <2>7, <1>t DEF PackRead, PackLock, Goto
  <2> QED  BY <2>q, <2>1, <2>2, <2>3, <2>4, <2>5, <2>6, <2>7, <2>8, <2>9
<1>3. CASE CorrectionNext
  <2>q. PICK q \in Requests :
          \/ OpenCase(q) \/ AdvanceRead(q) \/ AdvanceWrite(q)
          \/ AmendCheck(q) \/ AmendRead(q) \/ AmendWrite(q)
    BY <1>3 DEF CorrectionNext
  <2>1. CASE OpenCase(q)  BY <2>1, <1>t DEF OpenCase
  <2>2. CASE AdvanceRead(q)  BY <2>2, <1>t DEF AdvanceRead
  <2>3. CASE AdvanceWrite(q)  BY <2>3, <1>t DEF AdvanceWrite, Idle
  <2>4. CASE AmendCheck(q)  BY <2>4, <1>t DEF AmendCheck
  <2>5. CASE AmendRead(q)  BY <2>5, <1>t DEF AmendRead
  <2>6. CASE AmendWrite(q)  BY <2>6, <1>t DEF AmendWrite, Idle
  <2> QED  BY <2>q, <2>1, <2>2, <2>3, <2>4, <2>5, <2>6
<1> QED  BY <1>1, <1>2, <1>3 DEF Next

\* Nobody comes to hold an unlocked version of a locked record.
LEMMA NoNewWriteOutstanding ==
  ASSUME TypeOK, Next, NEW x \in Records, Locked(x), WriteOutstanding(x)'
  PROVE  WriteOutstanding(x)
<1>t. req \in [Requests -> Request]
  BY DEF TypeOK
<1>1. PICK p \in Requests : req'[p].at = "write" /\ req'[p].target = x /\ req'[p].seen # Absent
  BY DEF WriteOutstanding
<1>2. ~UpdateMarkRead(p)
  BY <1>1, <1>t DEF UpdateMarkRead, NotLocked, Locked
<1>3. ~ReadTarget(p)
  BY <1>1, <1>t DEF ReadTarget, NotLocked, Locked
<1> QED  BY <1>1, <1>2, <1>3, OnlyLockChecksBeginWrites DEF WriteOutstanding

\* The four steps that write records.
LEMMA RecordWriters ==
  ASSUME Next
  PROVE  \/ record' = record
         \/ \E q \in Requests : IngestMark(q) \/ Write(q) \/ RatifyWrite(q) \/ AmendWrite(q)
BY DEF Next, AcademicNext, UpdateMarkRead, EvaluateProgression, ReadMarks, ReadOutcomes, ReadTarget,
       RequestFails, BoardNext, RecordSignoff, DeferRead, ReopenRead, QuorumRead, BoardWrite,
       RatifyRead, RatifyCheck, RatifyCover, RatifyDecisions, AnnounceBoard, AnnounceResult, PackRead,
       PackLock, PackWrite, CorrectionNext, OpenCase, AdvanceRead, AdvanceWrite, AmendCheck, AmendRead

LEMMA SealedWrites ==
  ASSUME TypeOK, Next, NEW x \in Records, Sealed(x)
  PROVE  /\ record'[x] # Absent /\ record'[x].locked
         /\ record'[x].content # record[x].content => AmendedNow(x)
<1>t. /\ record \in [Records -> Row \cup {Absent}]
      /\ \A q \in Requests : req[q] \in Request
      /\ ledger \in Seq(Amendment)
  BY DEF TypeOK
<1>x. record[x] # Absent /\ record[x].locked /\ record[x] \in Row
  BY <1>t DEF Sealed, Locked, Present
<1>1. CASE record' = record
  BY <1>1, <1>x
<1>2. ASSUME NEW q \in Requests, IngestMark(q) PROVE record'[x] = record[x]
  <2>1. PICK m \in Marks, v \in Values : ~Present(m) /\ record' = [record EXCEPT ![m] = Fresh(v)]
    BY <1>2 DEF IngestMark
  <2>2. m # x
    BY <1>x, <2>1 DEF Present
  <2> QED  BY <1>t, <2>1, <2>2
<1>3. ASSUME NEW q \in Requests, Write(q) PROVE record'[x] = record[x]
  <2>1. req[q].target # x
    <3>1. req[q].target = x => req[q].seen # Absent
      BY <1>3, <1>x DEF Write, Accepted, Present
    <3> QED  BY <1>3, <3>1 DEF Write, Sealed, WriteOutstanding
  <2> QED  BY <1>3, <1>t, <2>1 DEF Write
<1>4. ASSUME NEW q \in Requests, RatifyWrite(q)
      PROVE  /\ record'[x] # Absent /\ record'[x].locked
             /\ record'[x].content = record[x].content
  <2>1. req[q].board \in Boards
    BY <1>4, <1>t, RequestShape DEF RatifyWrite
  <2>2. record'[x] = record[x] \/ record'[x] = Ratified(record[x], x, req[q].board)
    BY <1>4 DEF RatifyWrite
  <2> QED  BY <1>x, <2>1, <2>2, RatifiedType, AbsentAssumption
<1>5. ASSUME NEW q \in Requests, AmendWrite(q)
      PROVE  /\ record'[x] # Absent /\ record'[x].locked
             /\ record'[x].content # record[x].content => AmendedNow(x)
  <2> DEFINE y == req[q].target
             n == [req[q].seen EXCEPT !.content = req[q].content, !.locked = TRUE]
             a == [case |-> req[q].case, target |-> y, before |-> req[q].seen,
                   after |-> req[q].content]
  <2>1. req[q] \in [at : {"amendWrite"}, case : Cases, target : Records,
                    content : Contents, seen : Row]
    BY <1>5, <1>t, RequestShape DEF AmendWrite
  <2>2. record' = [record EXCEPT ![y] = n] /\ ledger' = Append(ledger, a)
    BY <1>5 DEF AmendWrite
  <2>3. CASE y # x
    BY <1>x, <1>t, <2>2, <2>3
  <2>4. CASE y = x
    <3>1. n \in Row /\ n.content = req[q].content /\ n.locked
      BY <2>1 DEF Row
    <3>2. record'[x] = n
      BY <1>t, <2>2, <2>4
    <3>3. Len(ledger') = Len(ledger) + 1 /\ ledger'[Len(ledger')] = a
      BY <1>t, <2>1, <2>2 DEF Amendment
    <3>4. AmendedNow(x)
      BY <2>4, <3>1, <3>2, <3>3 DEF AmendedNow
    <3> QED  BY <3>1, <3>2, <3>4, AbsentAssumption
  <2> QED  BY <2>3, <2>4
<1> QED  BY <1>1, <1>2, <1>3, <1>4, <1>5, <1>x, RecordWriters

\* Once a record is locked, and the writes outstanding at that moment are over, no
\* later overlap of requests unlocks it or changes it, but for an amendment that
\* the ledger records.  (The lock checks in front of every write are what matters.)
THEOREM SealedIsSealed == Spec => SealedChangesOnlyByAmendment
<1> DEFINE Kept == \A x \in Records : Sealed(x) =>
                     /\ Sealed(x)'
                     /\ record'[x].content # record[x].content => AmendedNow(x)
<1>1. TypeOK /\ [Next]_vars => [Kept]_vars
  <2> SUFFICES ASSUME TypeOK, Next, NEW x \in Records, Sealed(x)
               PROVE  /\ Sealed(x)'
                      /\ record'[x].content # record[x].content => AmendedNow(x)
    OBVIOUS
  <2>1. /\ record'[x] # Absent /\ record'[x].locked
        /\ record'[x].content # record[x].content => AmendedNow(x)
    BY SealedWrites
  <2>2. ~WriteOutstanding(x)'
    BY NoNewWriteOutstanding DEF Sealed
  <2> QED  BY <2>1, <2>2 DEF Sealed, Locked, Present
<1>2. Spec => [][Kept]_vars
  BY <1>1, TypeCorrect, PTL DEF Spec
<1> QED  BY <1>2 DEF SealedChangesOnlyByAmendment

-------------------------------------------------------------------------------
(* Provenance: where locks, amendments, versions of cases and data packs   *)
(* come from.                                                              *)

\* Each of these states is reached by one read (or, for a write, one of two).
LEMMA OnlyReadsBegin ==
  ASSUME TypeOK, Next, NEW p \in Requests, req'[p] # req[p]
  PROVE  /\ req'[p].at = "write" => UpdateMarkRead(p) \/ ReadTarget(p)
         /\ req'[p].at = "advance" => AdvanceRead(p)
         /\ req'[p].at = "amend" => AmendCheck(p)
         /\ req'[p].at = "amendWrite" => AmendRead(p)
         /\ req'[p].at = "pack" => PackLock(p)
<1>t. req \in [Requests -> Request]
  BY DEF TypeOK
<1>1. req'[p].at = "write" => UpdateMarkRead(p) \/ ReadTarget(p)
  BY OnlyLockChecksBeginWrites
<1>2. CASE AcademicNext
  <2>q. PICK q \in Requests :
          \/ IngestMark(q) \/ UpdateMarkRead(q) \/ EvaluateProgression(q)
          \/ ReadMarks(q) \/ ReadOutcomes(q) \/ ReadTarget(q) \/ Write(q)
          \/ RequestFails(q)
    BY <1>2 DEF AcademicNext
  <2> SUFFICES req'[p].at \notin {"advance", "amend", "amendWrite", "pack"}
    BY <1>1
  <2>1. CASE IngestMark(q)  BY <2>1, <1>t DEF IngestMark
  <2>2. CASE UpdateMarkRead(q)  BY <2>2, <1>t DEF UpdateMarkRead
  <2>3. CASE EvaluateProgression(q)  BY <2>3, <1>t DEF EvaluateProgression
  <2>4. CASE ReadMarks(q)  BY <2>4, <1>t DEF ReadMarks, Idle
  <2>5. CASE ReadOutcomes(q)  BY <2>5, <1>t DEF ReadOutcomes
  <2>6. CASE ReadTarget(q)  BY <2>6, <1>t DEF ReadTarget
  <2>7. CASE Write(q)  BY <2>7, <1>t DEF Write, Idle
  <2>8. CASE RequestFails(q)  BY <2>8, <1>t DEF RequestFails, Idle
  <2> QED  BY <2>q, <2>1, <2>2, <2>3, <2>4, <2>5, <2>6, <2>7, <2>8
<1>3. CASE BoardNext
  <2>q. PICK q \in Requests :
          \/ RecordSignoff(q) \/ DeferRead(q) \/ ReopenRead(q) \/ QuorumRead(q) \/ BoardWrite(q)
          \/ RatifyRead(q) \/ RatifyCheck(q) \/ RatifyCover(q) \/ RatifyDecisions(q)
          \/ RatifyWrite(q) \/ AnnounceBoard(q) \/ AnnounceResult(q)
          \/ PackRead(q) \/ PackLock(q) \/ PackWrite(q)
    BY <1>3 DEF BoardNext
  <2> SUFFICES /\ req'[p].at \notin {"advance", "amend", "amendWrite"}
               /\ req'[p].at = "pack" => PackLock(p)
    BY <1>1
  <2>1. CASE RecordSignoff(q)  BY <2>1, <1>t DEF RecordSignoff
  <2>2. CASE DeferRead(q)  BY <2>2, <1>t DEF DeferRead, Goto
  <2>10. CASE ReopenRead(q)  BY <2>10, <1>t DEF ReopenRead, Goto
  <2>3. CASE QuorumRead(q)  BY <2>3, <1>t DEF QuorumRead, Goto
  <2>4. CASE BoardWrite(q) \/ PackWrite(q)  BY <2>4, <1>t DEF BoardWrite, PackWrite, Goto, Idle
  <2>5. CASE RatifyRead(q) \/ RatifyCheck(q) \/ RatifyCover(q)
    BY <2>5, <1>t DEF RatifyRead, RatifyCheck, RatifyCover, Goto
  <2>6. CASE RatifyDecisions(q) \/ RatifyWrite(q)
    BY <2>6, <1>t DEF RatifyDecisions, RatifyWrite, Goto
  <2>7. CASE AnnounceBoard(q) \/ AnnounceResult(q)
    <3>1. req[q] \in [at : {"announceBoard", "announce"}, board : Boards, pending : SUBSET Covered]
      BY <2>7, <1>t, RequestShape DEF AnnounceBoard, AnnounceResult
    <3> QED  BY <2>7, <3>1, <1>t DEF AnnounceBoard, AnnounceResult, Goto, Idle
  <2>8. CASE PackRead(q)  BY <2>8, <1>t DEF PackRead, Goto
  <2>9. CASE PackLock(q)
    <3>1. PICK previous : req' = [req EXCEPT ![q] = [at |-> "pack", board |-> req[q].board,
                                                     previous |-> previous]]
      BY <2>9 DEF PackLock, Goto
    <3>2. p = q
      BY <1>t, <3>1
    <3> QED  BY <2>9, <1>t, <3>1, <3>2
  <2> QED  BY <2>q, <2>1, <2>2, <2>3, <2>4, <2>5, <2>6, <2>7, <2>8, <2>9, <2>10
<1>4. CASE CorrectionNext
  <2>q. PICK q \in Requests :
          \/ OpenCase(q) \/ AdvanceRead(q) \/ AdvanceWrite(q)
          \/ AmendCheck(q) \/ AmendRead(q) \/ AmendWrite(q)
    BY <1>4 DEF CorrectionNext
  <2> SUFFICES /\ req'[p].at = "advance" => AdvanceRead(p)
               /\ req'[p].at = "amend" => AmendCheck(p)
               /\ req'[p].at = "amendWrite" => AmendRead(p)
               /\ req'[p].at # "pack"
    BY <1>1
  <2>1. CASE OpenCase(q)  BY <2>1, <1>t DEF OpenCase
  <2>2. CASE AdvanceRead(q)
    <3>1. PICK c, s : req' = [req EXCEPT ![q] = [at |-> "advance", case |-> c, status |-> s]]
      BY <2>2 DEF AdvanceRead
    <3>2. p = q
      BY <1>t, <3>1
    <3> QED  BY <2>2, <1>t, <3>1, <3>2
  <2>3. CASE AdvanceWrite(q)  BY <2>3, <1>t DEF AdvanceWrite, Idle
  <2>4. CASE AmendCheck(q)
    <3>1. PICK c, x, content :
            req' = [req EXCEPT ![q] = [at |-> "amend", case |-> c, target |-> x, content |-> content]]
      BY <2>4 DEF AmendCheck
    <3>2. p = q
      BY <1>t, <3>1
    <3> QED  BY <2>4, <1>t, <3>1, <3>2
  <2>5. CASE AmendRead(q)  BY <2>5, <1>t DEF AmendRead
  <2>6. CASE AmendWrite(q)  BY <2>6, <1>t DEF AmendWrite, Idle
  <2> QED  BY <2>q, <2>1, <2>2, <2>3, <2>4, <2>5, <2>6
<1> QED  BY <1>2, <1>3, <1>4 DEF Next

\* Two steps write versions of cases, one the ledger, and one data packs.
LEMMA HistoryWriters ==
  ASSUME Next
  PROVE  /\ versions' = versions \/ \E q \in Requests : OpenCase(q) \/ AdvanceWrite(q)
         /\ ledger' = ledger \/ \E q \in Requests : AmendWrite(q)
         /\ packs' = packs \/ \E q \in Requests : PackWrite(q)
BY DEF Next, BoardNext, RecordSignoff, DeferRead, ReopenRead, QuorumRead, BoardWrite, RatifyRead,
       RatifyCheck, RatifyCover, RatifyDecisions, RatifyWrite, AnnounceBoard, AnnounceResult, PackRead,
       PackLock, boardVars, correctionVars, CorrectionNext, OpenCase, AdvanceRead, AdvanceWrite,
       AmendCheck, AmendRead, AmendWrite

-------------------------------------------------------------------------------
(***************************************************************************)
(* Correction cases                                                        *)
(***************************************************************************)

Allowed(c, status, k) == \E j \in 1..k : status \in Transitions[versions[c][j]]

\* A case starts open, and a change of status that is outstanding was allowed from
\* a version that is on record.
CaseInv ==
  /\ TypeOK
  /\ \A c \in Cases : Opened(c) => versions[c][1] = "open"
  /\ CaseVersionsFollowTransitions
  /\ \A q \in Requests : req[q].at = "advance" =>
       /\ Opened(req[q].case)
       /\ Allowed(req[q].case, req[q].status, Len(versions[req[q].case]))

\* Versions are only added: a case is opened once, and changed by appending.
LEMMA VersionsGrow ==
  ASSUME CaseInv, Next, NEW c \in Cases
  PROVE  \/ versions'[c] = versions[c]
         \/ ~Opened(c) /\ versions'[c] = <<"open">>
         \/ /\ Opened(c)
            /\ \E s \in Statuses :
                 /\ versions'[c] = Append(versions[c], s)
                 /\ Allowed(c, s, Len(versions[c]))
<1>t. /\ versions \in [Cases -> Seq(Statuses)]
      /\ \A q \in Requests : req[q] \in Request
  BY DEF CaseInv, TypeOK
<1>1. ASSUME NEW q \in Requests, OpenCase(q)
      PROVE  versions'[c] = versions[c] \/ (~Opened(c) /\ versions'[c] = <<"open">>)
  BY <1>1, <1>t DEF OpenCase
<1>2. ASSUME NEW q \in Requests, AdvanceWrite(q), versions'[c] # versions[c]
      PROVE  /\ Opened(c)
             /\ \E s \in Statuses :
                  /\ versions'[c] = Append(versions[c], s)
                  /\ Allowed(c, s, Len(versions[c]))
  <2>1. req[q].status \in Statuses /\ req[q].case \in Cases
    BY <1>2, <1>t, RequestShape DEF AdvanceWrite
  <2>2. req[q].case = c /\ versions'[c] = Append(versions[c], req[q].status)
    BY <1>2, <1>t, <2>1 DEF AdvanceWrite
  <2> QED  BY <1>2, <2>1, <2>2 DEF AdvanceWrite, CaseInv
<1> QED  BY <1>1, <1>2, HistoryWriters

\* What is on record stays on record.
LEMMA VersionsStay ==
  ASSUME CaseInv, Next, NEW c \in Cases
  PROVE  /\ Opened(c) => Opened(c)'
         /\ Len(versions[c]) \in Nat /\ Len(versions'[c]) \in Nat
         /\ Len(versions[c]) <= Len(versions'[c])
         /\ \A i \in 1..Len(versions[c]) : versions'[c][i] = versions[c][i]
         /\ \A s : Was(c, s) => Was(c, s)'
<1>t. versions[c] \in Seq(Statuses)
  BY DEF CaseInv, TypeOK
<1>1. /\ Opened(c) => Opened(c)'
      /\ Len(versions[c]) \in Nat /\ Len(versions'[c]) \in Nat
      /\ Len(versions[c]) <= Len(versions'[c])
      /\ \A i \in 1..Len(versions[c]) : versions'[c][i] = versions[c][i]
  <2>1. CASE versions'[c] = versions[c]
    BY <1>t, <2>1 DEF Opened
  <2>2. CASE ~Opened(c) /\ versions'[c] = <<"open">>
    BY <1>t, <2>2 DEF Opened
  <2>3. ASSUME Opened(c), NEW s \in Statuses, versions'[c] = Append(versions[c], s)
        PROVE  /\ Opened(c)'
               /\ Len(versions[c]) \in Nat /\ Len(versions'[c]) \in Nat
               /\ Len(versions[c]) <= Len(versions'[c])
               /\ \A i \in 1..Len(versions[c]) : versions'[c][i] = versions[c][i]
    BY <1>t, <2>3 DEF Opened
  <2> QED  BY <2>1, <2>2, <2>3, VersionsGrow
<1>2. ASSUME NEW s, Was(c, s) PROVE Was(c, s)'
  BY <1>1, <1>2 DEF Was
<1> QED  BY <1>1, <1>2

LEMMA StepCases ==
  ASSUME CaseInv, Next
  PROVE  CaseInv'
<1>t. /\ TypeOK /\ TypeOK'
      /\ req \in [Requests -> Request]
      /\ \A c \in Cases : versions[c] \in Seq(Statuses)
  BY NextTypeOK DEF CaseInv, TypeOK
<1>1. ASSUME NEW c \in Cases, Opened(c)'
      PROVE  versions'[c][1] = "open"
  <2>1. CASE Opened(c)
    <3>1. versions[c][1] = "open" /\ 1 \in 1..Len(versions[c])
      BY <1>t, <2>1 DEF CaseInv, Opened
    <3> QED  BY <3>1, VersionsStay
  <2>2. CASE ~Opened(c)
    BY <1>1, <2>2, VersionsGrow DEF Opened
  <2> QED  BY <2>1, <2>2
<1>2. ASSUME NEW c \in Cases, NEW i \in 2..Len(versions'[c])
      PROVE  \E j \in 1..(i - 1) : versions'[c][i] \in Transitions[versions'[c][j]]
  <2>1. CASE i \in 2..Len(versions[c])
    <3>1. PICK j \in 1..(i - 1) : versions[c][i] \in Transitions[versions[c][j]]
      BY <2>1 DEF CaseInv, CaseVersionsFollowTransitions
    <3>2. i \in 1..Len(versions[c]) /\ j \in 1..Len(versions[c])
      BY <1>t, <2>1, <3>1
    <3> QED  BY <3>1, <3>2, VersionsStay
  <2>2. CASE i \notin 2..Len(versions[c])
    <3>1. PICK s \in Statuses : /\ versions'[c] = Append(versions[c], s)
                                /\ Allowed(c, s, Len(versions[c]))
      <4>1. versions'[c] # versions[c]
        BY <2>2
      <4>2. versions'[c] # <<"open">>
        OBVIOUS
      <4> QED  BY <4>1, <4>2, VersionsGrow
    <3>2. PICK j \in 1..Len(versions[c]) : s \in Transitions[versions[c][j]]
      BY <3>1 DEF Allowed
    <3>3. i = Len(versions[c]) + 1 /\ versions'[c][i] = s
      BY <1>t, <2>2, <3>1
    <3>4. versions'[c][j] = versions[c][j] /\ j \in 1..(i - 1)
      BY <1>t, <3>2, <3>3, VersionsStay
    <3> QED  BY <3>2, <3>3, <3>4
  <2> QED  BY <2>1, <2>2
<1>3. ASSUME NEW p \in Requests, req'[p].at = "advance"
      PROVE  /\ versions'[req'[p].case] # <<>>
             /\ \E j \in 1..Len(versions'[req'[p].case]) :
                  req'[p].status \in Transitions[versions'[req'[p].case][j]]
  <2> DEFINE c == req'[p].case
             s == req'[p].status
  <2>1. c \in Cases /\ Opened(c) /\ Allowed(c, s, Len(versions[c]))
    <3>1. CASE req'[p] = req[p]
      BY <1>3, <1>t, <3>1, RequestShape DEF CaseInv
    <3>2. CASE req'[p] # req[p]
      <4>1. AdvanceRead(p)
        BY <1>3, <1>t, <3>2, OnlyReadsBegin
      <4>2. PICK d \in Cases :
              /\ Opened(d)
              /\ \E r \in Transitions[Current(d)] :
                   req' = [req EXCEPT ![p] = [at |-> "advance", case |-> d, status |-> r]]
        BY <4>1 DEF AdvanceRead
      <4>3. c = d /\ s \in Transitions[Current(c)]
        BY <1>t, <4>2
      <4>4. Len(versions[c]) \in 1..Len(versions[c])
        BY <1>t, <4>2, <4>3 DEF Opened
      <4> QED  BY <4>2, <4>3, <4>4 DEF Current, Allowed
    <3> QED  BY <3>1, <3>2
  <2>2. PICK j \in 1..Len(versions[c]) : s \in Transitions[versions[c][j]]
    BY <2>1 DEF Allowed
  <2>3. j \in 1..Len(versions'[c]) /\ versions'[c][j] = versions[c][j] /\ versions'[c] # <<>>
    BY <2>1, <2>2, VersionsStay DEF Opened
  <2> QED  BY <2>2, <2>3
<1> QED  BY <1>t, <1>1, <1>2, <1>3 DEF CaseInv, CaseVersionsFollowTransitions, Allowed, Opened

LEMMA CaseInvariant == Spec => []CaseInv
<1>1. Init => CaseInv
  BY InitTypeOK DEF Init, CorrectionInit, AcademicInit, Idle, CaseInv, Opened,
                    CaseVersionsFollowTransitions
<1>2. CaseInv /\ [Next]_vars => CaseInv'
  <2>1. CaseInv /\ UNCHANGED vars => CaseInv'
    BY NextTypeOK DEF CaseInv, vars, correctionVars, Opened, Allowed, CaseVersionsFollowTransitions
  <2> QED  BY <2>1, StepCases
<1> QED  BY <1>1, <1>2, PTL DEF Spec

\* However changes of status overlap, every version of a case but the first follows
\* from one that was on record before it, by ALLOWED_STATUS_TRANSITIONS.
THEOREM CasesFollowTransitions == Spec => []CaseVersionsFollowTransitions
<1>1. CaseInv => CaseVersionsFollowTransitions
  BY DEF CaseInv
<1> QED  BY <1>1, CaseInvariant, PTL

-------------------------------------------------------------------------------
(***************************************************************************)
(* Amendments                                                              *)
(***************************************************************************)

\* A request that is about to amend found its case upheld; one that is about to
\* write found the record to be the student's.
AmendInv ==
  /\ CaseInv
  /\ AmendmentsWereUpheld
  /\ \A q \in Requests :
       /\ req[q].at \in {"amend", "amendWrite"} =>
            Was(req[q].case, "upheld") /\ Was(req[q].case, "under-review")
       /\ req[q].at = "amendWrite" => CaseOf[req[q].case] = Owner(req[q].target)

\* Only a case under review can be upheld.
LEMMA UpheldWasReviewed ==
  ASSUME CaseInv, NEW c \in Cases, Was(c, "upheld")
  PROVE  Was(c, "under-review")
<1>t. versions[c] \in Seq(Statuses)
  BY DEF CaseInv, TypeOK
<1>1. PICK i \in 1..Len(versions[c]) : versions[c][i] = "upheld"
  BY DEF Was
<1>2. i # 1
  BY <1>t, <1>1 DEF CaseInv, Opened
<1>3. PICK j \in 1..(i - 1) : versions[c][i] \in Transitions[versions[c][j]]
  BY <1>t, <1>1, <1>2 DEF CaseInv, CaseVersionsFollowTransitions
<1>4. j \in 1..Len(versions[c]) /\ versions[c][j] \in Statuses
  BY <1>t, <1>1, <1>3
<1>5. versions[c][j] = "under-review"
  BY <1>1, <1>3, <1>4 DEF Transitions, Statuses
<1> QED  BY <1>4, <1>5 DEF Was

\* The ledger is only added to, by a request that is about to write an amendment.
LEMMA LedgerGrows ==
  ASSUME TypeOK, Next
  PROVE  \/ ledger' = ledger
         \/ \E q \in Requests :
              /\ req[q] \in [at : {"amendWrite"}, case : Cases, target : Records,
                             content : Contents, seen : Row]
              /\ AmendWrite(q)
              /\ ledger' = Append(ledger, [case |-> req[q].case, target |-> req[q].target,
                                           before |-> req[q].seen, after |-> req[q].content])
              /\ Len(ledger') = Len(ledger) + 1
              /\ ledger'[Len(ledger')] = [case |-> req[q].case, target |-> req[q].target,
                                          before |-> req[q].seen, after |-> req[q].content]
              /\ \A i \in 1..Len(ledger) : ledger'[i] = ledger[i]
<1> SUFFICES ASSUME ledger' # ledger
             PROVE  \E q \in Requests :
                      /\ req[q] \in [at : {"amendWrite"}, case : Cases, target : Records,
                                     content : Contents, seen : Row]
                      /\ AmendWrite(q)
                      /\ ledger' = Append(ledger, [case |-> req[q].case, target |-> req[q].target,
                                                   before |-> req[q].seen, after |-> req[q].content])
                      /\ Len(ledger') = Len(ledger) + 1
                      /\ ledger'[Len(ledger')] = [case |-> req[q].case, target |-> req[q].target,
                                                  before |-> req[q].seen, after |-> req[q].content]
                      /\ \A i \in 1..Len(ledger) : ledger'[i] = ledger[i]
  OBVIOUS
<1>t. ledger \in Seq(Amendment) /\ \A q \in Requests : req[q] \in Request
  BY DEF TypeOK
<1>1. PICK q \in Requests : AmendWrite(q)
  BY HistoryWriters
<1>2. req[q] \in [at : {"amendWrite"}, case : Cases, target : Records,
                  content : Contents, seen : Row]
  BY <1>1, <1>t, RequestShape DEF AmendWrite
<1> DEFINE a == [case |-> req[q].case, target |-> req[q].target, before |-> req[q].seen,
                 after |-> req[q].content]
<1>3. a \in Amendment
  BY <1>2 DEF Amendment
<1>4. ledger' = Append(ledger, a)
  BY <1>1 DEF AmendWrite
<1>5. /\ Len(ledger') = Len(ledger) + 1
      /\ ledger'[Len(ledger')] = a
      /\ \A i \in 1..Len(ledger) : ledger'[i] = ledger[i]
  BY <1>t, <1>3, <1>4
<1> QED  BY <1>1, <1>2, <1>4, <1>5

LEMMA StepAmendments ==
  ASSUME AmendInv, Next
  PROVE  AmendInv'
<1>t. /\ TypeOK /\ TypeOK' /\ CaseInv /\ CaseInv'
      /\ req \in [Requests -> Request]
      /\ ledger \in Seq(Amendment)
  BY NextTypeOK, StepCases DEF AmendInv, CaseInv, TypeOK
<1>1. ASSUME NEW i \in 1..Len(ledger')
      PROVE  /\ \E c \in Cases : /\ c = ledger'[i].case
                                 /\ Was(c, "upheld")' /\ Was(c, "under-review")'
             /\ CaseOf[ledger'[i].case] = Owner(ledger'[i].target)
  <2>1. CASE i \in 1..Len(ledger) /\ ledger'[i] = ledger[i]
    <3>1. /\ Was(ledger[i].case, "upheld") /\ Was(ledger[i].case, "under-review")
          /\ CaseOf[ledger[i].case] = Owner(ledger[i].target)
      BY <2>1 DEF AmendInv, AmendmentsWereUpheld
    <3>2. ledger[i] \in Amendment
      BY <1>t, <2>1
    <3>4. ledger[i].case \in Cases
      BY <3>2 DEF Amendment
    <3> QED  BY <1>t, <2>1, <3>1, <3>4, VersionsStay DEF Was
  <2>2. CASE ~(i \in 1..Len(ledger) /\ ledger'[i] = ledger[i])
    <3>1. PICK q \in Requests :
            /\ AmendWrite(q) /\ req[q].case \in Cases
            /\ Len(ledger') = Len(ledger) + 1
            /\ ledger'[Len(ledger')].case = req[q].case
            /\ ledger'[Len(ledger')].target = req[q].target
            /\ \A k \in 1..Len(ledger) : ledger'[k] = ledger[k]
      <4>1. ledger' # ledger
        BY <2>2
      <4>2. PICK q \in Requests :
              /\ req[q] \in [at : {"amendWrite"}, case : Cases, target : Records,
                             content : Contents, seen : Row]
              /\ AmendWrite(q)
              /\ Len(ledger') = Len(ledger) + 1
              /\ ledger'[Len(ledger')] = [case |-> req[q].case, target |-> req[q].target,
                                          before |-> req[q].seen, after |-> req[q].content]
              /\ \A k \in 1..Len(ledger) : ledger'[k] = ledger[k]
        BY <1>t, <4>1, LedgerGrows
      <4> QED  BY <4>2
    <3>2. i = Len(ledger')
      BY <1>t, <2>2, <3>1
    <3>3. /\ Was(req[q].case, "upheld") /\ Was(req[q].case, "under-review")
          /\ CaseOf[req[q].case] = Owner(req[q].target)
      BY <3>1 DEF AmendInv, AmendWrite
    <3> QED  BY <1>t, <3>1, <3>2, <3>3, VersionsStay DEF Was
  <2> QED  BY <2>1, <2>2
<1>2. ASSUME NEW p \in Requests, req'[p].at \in {"amend", "amendWrite"}
      PROVE  /\ req'[p].case \in Cases
             /\ Was(req'[p].case, "upheld") /\ Was(req'[p].case, "under-review")
             /\ req'[p].at = "amendWrite" => CaseOf[req'[p].case] = Owner(req'[p].target)
  <2>1. CASE req'[p] = req[p]
    BY <1>2, <1>t, <2>1, RequestShape DEF AmendInv
  <2>2. CASE AmendCheck(p)
    <3>1. PICK c \in Cases, x \in Records : \E content \in ContentsOf(x) :
            /\ Upheld(c)
            /\ req' = [req EXCEPT ![p] = [at |-> "amend", case |-> c, target |-> x,
                                          content |-> content]]
      BY <2>2 DEF AmendCheck
    <3>2. req'[p].case = c /\ req'[p].at = "amend"
      BY <1>t, <3>1
    <3>3. Was(c, "upheld")
      <4>1. versions[c] \in Seq(Statuses)
        BY <1>t DEF TypeOK
      <4> QED  BY <3>1, <4>1 DEF Upheld, Opened, Current, Was
    <3> QED  BY <1>t, <3>1, <3>2, <3>3, UpheldWasReviewed
  <2>3. CASE AmendRead(p)
    <3>1. req[p] \in [at : {"amend"}, case : Cases, target : Records, content : Contents]
      BY <1>t, <2>3, RequestShape DEF AmendRead
    <3>2. /\ req'[p].case = req[p].case /\ req'[p].target = req[p].target
          /\ CaseOf[req[p].case] = Owner(req[p].target)
      BY <1>t, <2>3 DEF AmendRead
    <3> QED  BY <3>1, <3>2 DEF AmendInv
  <2> QED  BY <1>2, <1>t, <2>1, <2>2, <2>3, OnlyReadsBegin
<1>3. ASSUME NEW p \in Requests, req'[p].at \in {"amend", "amendWrite"}
      PROVE  \E c \in Cases : /\ c = req'[p].case
                              /\ Was(c, "upheld")' /\ Was(c, "under-review")'
  BY <1>2, <1>3, <1>t, VersionsStay
<1>4. AmendmentsWereUpheld'
  BY <1>1 DEF AmendmentsWereUpheld, Was, Owner
<1>5. ASSUME NEW p \in Requests
      PROVE  /\ req'[p].at \in {"amend", "amendWrite"} =>
                  Was(req[p].case, "upheld")' /\ Was(req[p].case, "under-review")'
             /\ req'[p].at = "amendWrite" => CaseOf[req'[p].case] = Owner(req[p].target)'
  BY <1>2, <1>3 DEF Was, Owner
<1> QED  BY <1>t, <1>4, <1>5 DEF AmendInv

LEMMA AmendInvariant == Spec => []AmendInv
<1>1. Init => AmendInv
  <2>1. Init => CaseInv
    BY InitTypeOK DEF Init, CorrectionInit, AcademicInit, Idle, CaseInv, Opened,
                      CaseVersionsFollowTransitions
  <2> QED  BY <2>1 DEF Init, CorrectionInit, AcademicInit, Idle, AmendInv, AmendmentsWereUpheld
<1>2. AmendInv /\ [Next]_vars => AmendInv'
  <2>1. ASSUME AmendInv, UNCHANGED vars PROVE AmendInv'
    <3>1. CaseInv'
      BY <2>1, NextTypeOK DEF AmendInv, CaseInv, vars, correctionVars, Opened, Allowed,
                              CaseVersionsFollowTransitions
    <3>2. UNCHANGED <<req, versions, ledger>>
      BY <2>1 DEF vars, correctionVars
    <3> QED  BY <2>1, <3>1, <3>2 DEF AmendInv, AmendmentsWereUpheld, Was, Owner
  <2> QED  BY <2>1, StepAmendments
<1> QED  BY <1>1, <1>2, PTL DEF Spec

\* No overlap of status changes and amendments amends a record outside a case of its
\* own student that was reviewed and upheld.
THEOREM AmendmentsAreAuthorised == Spec => []AmendmentsWereUpheld
<1>1. AmendInv => AmendmentsWereUpheld
  BY DEF AmendInv
<1> QED  BY <1>1, AmendInvariant, PTL

-------------------------------------------------------------------------------
(***************************************************************************)
(* Locks                                                                   *)
(***************************************************************************)

\* What LocksHaveProvenance says of a row of x, current or read earlier.
RowHasProvenance(x, row) ==
  /\ row.locked => \/ Amended(x)
                   \/ \E b \in Boards : boards[b].ratified /\ x \in ScopeRecords(b)
  /\ row.board # NoBoard => boards[row.board].ratified /\ x \in ScopeEnrolments(row.board)

\* The rows that requests carry from a read to a write have provenance as well.
LocksInv ==
  /\ BoardInv
  /\ \A x \in Records : Present(x) => RowHasProvenance(x, record[x])
  /\ \A q \in Requests :
       req[q].at \in {"write", "amendWrite"} /\ req[q].seen # Absent =>
         RowHasProvenance(req[q].target, req[q].seen)

LEMMA ProvenanceStays ==
  ASSUME TypeOK, Next, NEW x, NEW row \in Row, RowHasProvenance(x, row)
  PROVE  RowHasProvenance(x, row)'
<1>1. Amended(x) => Amended(x)'
  <2>1. CASE ledger' = ledger
    BY <2>1 DEF Amended
  <2>2. ASSUME ledger' # ledger, Amended(x) PROVE Amended(x)'
    <3>1. PICK i \in 1..Len(ledger) : ledger[i].target = x
      BY <2>2 DEF Amended
    <3>2. ledger'[i] = ledger[i] /\ Len(ledger') = Len(ledger) + 1
      BY <2>2, LedgerGrows
    <3>3. i \in 1..Len(ledger')
      BY <3>2 DEF TypeOK
    <3> QED  BY <3>1, <3>2, <3>3 DEF Amended
  <2> QED  BY <2>1, <2>2
<1>2. \A b \in Boards : boards[b].ratified => boards'[b].ratified
  BY BoardsKeep
<1>3. row.board \in Boards \cup {NoBoard}
  BY DEF Row
<1> QED
  BY <1>1, <1>2, <1>3 DEF RowHasProvenance, ScopeRecords, ScopeEnrolments

LEMMA FreshHasProvenance ==
  ASSUME NEW x, NEW content
  PROVE  RowHasProvenance(x, Fresh(content)) /\ RowHasProvenance(x, Fresh(content))'
BY NoBoardAssumption DEF RowHasProvenance, Fresh

\* Whatever a step writes has provenance: it was there, is new, carries what was
\* read, is locked by a board that ratifies, or is entered in the ledger.
LEMMA WrittenHasProvenance ==
  ASSUME LocksInv, Next, NEW x \in Records, record'[x] # Absent
  PROVE  RowHasProvenance(x, record[x])'
<1>t. /\ TypeOK /\ BoardInv
      /\ record \in [Records -> Row \cup {Absent}]
      /\ \A q \in Requests : req[q] \in Request
  BY DEF LocksInv, BoardInv, TypeOK
<1>1. CASE record'[x] = record[x]
  <2>1. record[x] \in Row /\ RowHasProvenance(x, record[x])
    BY <1>t, <1>1 DEF LocksInv, Present
  <2>2. ASSUME NEW row, row = record[x] PROVE RowHasProvenance(x, row)'
    BY <1>t, <2>1, <2>2, ProvenanceStays
  <2> QED  BY <1>1, <2>2 DEF RowHasProvenance, Amended, ScopeRecords, ScopeEnrolments
<1>2. ASSUME NEW q \in Requests, IngestMark(q), record'[x] # record[x]
      PROVE  \E v : record'[x] = Fresh(v)
  BY <1>2, <1>t DEF IngestMark
<1>3. ASSUME NEW q \in Requests, Write(q), record'[x] # record[x]
      PROVE  \E v : \/ record'[x] = Fresh(v)
                    \/ \E row \in Row : /\ record'[x] = [row EXCEPT !.content = v]
                                        /\ RowHasProvenance(x, row)
  <2>1. req[q] \in [at : {"write"}, target : Records, content : Contents, seen : Row \cup {Absent}]
    BY <1>3, <1>t, RequestShape DEF Write
  <2>2. req[q].target = x /\ record'[x] = NextVersion(req[q].seen, req[q].content)
    BY <1>3, <1>t, <2>1 DEF Write
  <2>3. req[q].seen # Absent => req[q].seen \in Row /\ RowHasProvenance(x, req[q].seen)
    BY <2>1, <2>2 DEF LocksInv
  <2> QED  BY <2>2, <2>3 DEF NextVersion
<1>4. ASSUME NEW q \in Requests, RatifyWrite(q), record'[x] # record[x]
      PROVE  RowHasProvenance(x, record[x])'
  <2> DEFINE b == req[q].board
  <2>1. req[q] \in [at : {"ratify"}, board : Boards, covered : SUBSET Covered,
                    decided : SUBSET Enrolments]
    BY <1>4, <1>t, RequestShape DEF RatifyWrite
  <2>2. /\ record'[x] = Ratified(record[x], x, b) /\ record[x] # Absent
        /\ \/ x \in RegistrationsOf(req[q].covered) \cup req[q].decided
           \/ x \in Marks /\ MarkOf[x].registration \in RegistrationsOf(req[q].covered)
    BY <1>4 DEF RatifyWrite, LockedBy, Present
  <2>3. /\ RegistrationsOf(req[q].covered) \subseteq Scope[b]
        /\ req[q].decided \subseteq ScopeEnrolments(b)
    BY <1>4, <1>t DEF BoardInv, CarriedInScope, RatifyWrite
  <2>4. x \in ScopeRecords(b)
    BY <2>2, <2>3 DEF ScopeRecords
  <2>5. boards'[b].ratified
    BY <1>4, <1>t, <2>1 DEF RatifyWrite, TypeOK, Board
  <2>6. x \in Enrolments => x \in ScopeEnrolments(b)
    <3>1. RegistrationsOf(req[q].covered) \subseteq Registrations
      BY <2>1, <2>3, ScopeAssumption
    <3> QED  BY <2>2, <2>3, <3>1, RecordsAssumption
  <2>7. record[x] \in Row /\ RowHasProvenance(x, record[x])
    BY <1>t, <2>2 DEF LocksInv, Present
  <2>8. record'[x].board = IF x \in Enrolments THEN b ELSE record[x].board
    BY <2>1, <2>2, <2>7, RatifiedType
  <2>9. ASSUME x \notin Enrolments, record[x].board # NoBoard
        PROVE  boards'[record[x].board].ratified /\ x \in ScopeEnrolments(record[x].board)
    <3>1. boards[record[x].board].ratified /\ x \in ScopeEnrolments(record[x].board)
      BY <2>7, <2>9 DEF RowHasProvenance
    <3>2. record[x].board \in Boards
      BY <2>7, <2>9 DEF Row
    <3> QED  BY <1>t, <3>1, <3>2, BoardsKeep
  <2>10. record'[x].board # NoBoard =>
           boards'[record'[x].board].ratified /\ x \in ScopeEnrolments(record'[x].board)
    BY <2>5, <2>6, <2>8, <2>9
  <2> QED
    BY <2>1, <2>4, <2>5, <2>10 DEF RowHasProvenance, ScopeRecords, ScopeEnrolments
<1>5. ASSUME NEW q \in Requests, AmendWrite(q), record'[x] # record[x]
      PROVE  RowHasProvenance(x, record[x])'
  <2>1. req[q] \in [at : {"amendWrite"}, case : Cases, target : Records,
                    content : Contents, seen : Row]
    BY <1>5, <1>t, RequestShape DEF AmendWrite
  <2> DEFINE seen == req[q].seen
  <2>2. /\ req[q].target = x
        /\ record'[x] = [seen EXCEPT !.content = req[q].content, !.locked = TRUE]
    BY <1>5, <1>t, <2>1 DEF AmendWrite
  <2>3. record'[x].board = seen.board /\ seen \in Row
    BY <2>1, <2>2 DEF Row
  <2>4. RowHasProvenance(x, seen)
    BY <1>5, <2>1, <2>2, AbsentAssumption DEF LocksInv, AmendWrite
  <2>5. ASSUME seen.board # NoBoard
        PROVE  boards'[seen.board].ratified /\ x \in ScopeEnrolments(seen.board)
    <3>1. boards[seen.board].ratified /\ seen.board \in Boards /\ x \in ScopeEnrolments(seen.board)
      BY <2>3, <2>4, <2>5 DEF RowHasProvenance, Row
    <3> QED  BY <1>t, <3>1, BoardsKeep
  <2>6. Amended(x)'
    <3> DEFINE a == [case |-> req[q].case, target |-> x, before |-> seen, after |-> req[q].content]
    <3>1. a \in Amendment
      BY <2>1, <2>2 DEF Amendment
    <3>2. ledger' = Append(ledger, a) /\ ledger \in Seq(Amendment)
      BY <1>5, <1>t, <2>2 DEF AmendWrite, TypeOK
    <3>3. Len(ledger') \in 1..Len(ledger') /\ ledger'[Len(ledger')] = a
      BY <3>1, <3>2
    <3> QED  BY <3>3 DEF Amended
  <2> QED  BY <2>2, <2>3, <2>5, <2>6 DEF RowHasProvenance, ScopeEnrolments, Amended
<1>6. ASSUME NEW v, record'[x] = Fresh(v) PROVE RowHasProvenance(x, record[x])'
  BY <1>6, FreshHasProvenance DEF RowHasProvenance, ScopeRecords, ScopeEnrolments, Amended
<1>7. ASSUME NEW v, NEW row \in Row, record'[x] = [row EXCEPT !.content = v], RowHasProvenance(x, row)
      PROVE  RowHasProvenance(x, record[x])'
  <2>1. record'[x].locked = row.locked /\ record'[x].board = row.board
    BY <1>7 DEF Row
  <2>2. RowHasProvenance(x, row)'
    BY <1>t, <1>7, ProvenanceStays
  <2> QED  BY <2>1, <2>2 DEF RowHasProvenance, ScopeRecords, ScopeEnrolments, Amended
<1> QED  BY <1>1, <1>2, <1>3, <1>4, <1>5, <1>6, <1>7, RecordWriters

LEMMA CarriedHasProvenance ==
  ASSUME LocksInv, Next, NEW p \in Requests,
         req'[p].at \in {"write", "amendWrite"}, req'[p].seen # Absent
  PROVE  RowHasProvenance(req[p].target, req[p].seen)'
<1>t. TypeOK /\ req \in [Requests -> Request] /\ record \in [Records -> Row \cup {Absent}]
  BY DEF LocksInv, BoardInv, TypeOK
<1>1. /\ req'[p].seen \in Row
      /\ RowHasProvenance(req'[p].target, req'[p].seen)
  <2>1. CASE req'[p] = req[p]
    <3>1. req[p].seen \in Row
      BY <1>t, <2>1, RequestShape
    <3> QED  BY <2>1, <3>1 DEF LocksInv
  <2>2. ASSUME NEW x \in Records, req'[p].target = x, req'[p].seen = record[x]
        PROVE  req'[p].seen \in Row /\ RowHasProvenance(req'[p].target, req'[p].seen)
    BY <1>t, <2>2 DEF LocksInv, Present
  <2>3. CASE UpdateMarkRead(p)
    BY <1>t, <2>2, <2>3 DEF UpdateMarkRead, Records
  <2>4. CASE ReadTarget(p)
    <3>1. req[p].target \in Records
      BY <1>t, <2>4, RequestShape DEF ReadTarget, Records
    <3> QED  BY <1>t, <2>2, <2>4, <3>1 DEF ReadTarget
  <2>5. CASE AmendRead(p)
    <3>1. req[p].target \in Records
      BY <1>t, <2>5, RequestShape DEF AmendRead
    <3> QED  BY <1>t, <2>2, <2>5, <3>1 DEF AmendRead
  <2> QED  BY <1>t, <2>1, <2>3, <2>4, <2>5, OnlyReadsBegin
<1>2. ASSUME NEW x, NEW row \in Row, RowHasProvenance(x, row) PROVE RowHasProvenance(x, row)'
  BY <1>t, <1>2, ProvenanceStays
<1> QED  BY <1>1, <1>2 DEF RowHasProvenance, ScopeRecords, ScopeEnrolments, Amended

LEMMA LocksInvariant == Spec => []LocksInv
<1>1. Init => LocksInv
  <2>1. Init => BoardInv
    BY InitBoardInv
  <2> QED  BY <2>1 DEF Init, AcademicInit, LocksInv, Present, Idle
<1>2. LocksInv /\ [Next]_vars => LocksInv'
  <2>1. ASSUME LocksInv, Next PROVE LocksInv'
    <3>1. BoardInv'
      BY <2>1, NextBoardInv DEF LocksInv
    <3>2. ASSUME NEW x \in Records, record'[x] # Absent PROVE RowHasProvenance(x, record[x])'
      BY <2>1, <3>2, WrittenHasProvenance
    <3>3. ASSUME NEW p \in Requests, req'[p].at \in {"write", "amendWrite"}, req'[p].seen # Absent
          PROVE  RowHasProvenance(req[p].target, req[p].seen)'
      BY <2>1, <3>3, CarriedHasProvenance
    <3> QED
      BY <3>1, <3>2, <3>3
      DEF LocksInv, Present, RowHasProvenance, ScopeRecords, ScopeEnrolments, Amended
  <2>2. ASSUME LocksInv, UNCHANGED vars PROVE LocksInv'
    <3>1. BoardInv'
      BY <2>2, NextBoardInv DEF LocksInv
    <3>2. UNCHANGED <<record, req, boards, ledger>>
      BY <2>2 DEF vars, boardVars, correctionVars
    <3> QED
      BY <2>2, <3>1, <3>2
      DEF LocksInv, Present, RowHasProvenance, ScopeRecords, ScopeEnrolments, Amended
  <2> QED  BY <2>1, <2>2
<1> QED  BY <1>1, <1>2, PTL DEF Spec

\* No overlap of writes, ratifications and amendments locks a record that no ratified
\* board covers and no amendment names, or leaves the name of a board on a decision
\* outside its scope.
THEOREM LocksAreAccountedFor == Spec => []LocksHaveProvenance
<1>1. LocksInv => LocksHaveProvenance
  BY DEF LocksInv, RowHasProvenance, LocksHaveProvenance
<1> QED  BY <1>1, LocksInvariant, PTL

-------------------------------------------------------------------------------
(***************************************************************************)
(* Data packs                                                              *)
(***************************************************************************)

\* The packs of a board of which n were generated.
Numbered(n) == { [version |-> i, superseded |-> i < n] : i \in 1..n }

\* One request at most is between the advisory lock of a board and its commit, and
\* it goes by the number of packs there are.
PacksInv ==
  /\ TypeOK
  /\ \A b \in Boards : \E n \in 0..MaxPackVersion : packs[b] = Numbered(n)
  /\ \A q \in Requests : req[q].at = "pack" =>
       /\ req[q].previous < MaxPackVersion
       /\ packs[req[q].board] = Numbered(req[q].previous)
  /\ \A p, q \in Requests :
       req[p].at = "pack" /\ req[q].at = "pack" /\ req[p].board = req[q].board => p = q

\* The current pack is the one with the highest number.
LEMMA CurrentPack ==
  ASSUME NEW b \in Boards, NEW n \in Nat, packs[b] = Numbered(n)
  PROVE  IF n = 0 THEN CurrentPacks(b) = {}
         ELSE CurrentPacks(b) = {[version |-> n, superseded |-> FALSE]}
<1>1. CASE n = 0
  BY <1>1 DEF CurrentPacks, Numbered
<1>2. CASE n # 0
  <2>1. ASSUME NEW p \in CurrentPacks(b) PROVE p = [version |-> n, superseded |-> FALSE]
    <3>1. PICK i \in 1..n : p = [version |-> i, superseded |-> i < n]
      BY <2>1 DEF CurrentPacks, Numbered
    <3>2. ~(i < n)
      BY <2>1, <3>1 DEF CurrentPacks
    <3>3. i = n /\ (n < n) = FALSE
      BY <3>2
    <3> QED  BY <3>1, <3>3
  <2>2. [version |-> n, superseded |-> FALSE] \in CurrentPacks(b)
    <3>1. n \in 1..n /\ (n < n) = FALSE
      BY <1>2
    <3>2. [version |-> n, superseded |-> n < n] \in Numbered(n)
      BY <3>1 DEF Numbered
    <3> QED  BY <3>1, <3>2 DEF CurrentPacks
  <2> QED  BY <1>2, <2>1, <2>2
<1> QED  BY <1>1, <1>2

\* The next pack has the next number, and supersedes the last.
LEMMA NextPack ==
  ASSUME NEW n \in Nat
  PROVE  { IF p.version = n THEN [p EXCEPT !.superseded = TRUE] ELSE p : p \in Numbered(n) }
           \cup {[version |-> n + 1, superseded |-> FALSE]} = Numbered(n + 1)
<1> DEFINE f(p) == IF p.version = n THEN [p EXCEPT !.superseded = TRUE] ELSE p
           old(i) == [version |-> i, superseded |-> i < n]
           new(i) == [version |-> i, superseded |-> i < n + 1]
<1>1. ASSUME NEW i \in 1..n PROVE f(old(i)) = new(i)
  <2>1. CASE i = n
    <3>1. f(old(i)) = [version |-> i, superseded |-> TRUE]
      BY <2>1
    <3>2. (i < n + 1) = TRUE
      BY <1>1
    <3> QED  BY <3>1, <3>2
  <2>2. CASE i # n
    <3>1. f(old(i)) = old(i)
      BY <2>2
    <3>2. (i < n) = TRUE /\ (i < n + 1) = TRUE
      BY <1>1, <2>2
    <3> QED  BY <3>1, <3>2
  <2> QED  BY <2>1, <2>2
<1>2. new(n + 1) = [version |-> n + 1, superseded |-> FALSE]
  <2>1. (n + 1 < n + 1) = FALSE
    OBVIOUS
  <2> QED  BY <2>1
<1>3. Numbered(n) = { old(i) : i \in 1..n } /\ Numbered(n + 1) = { new(i) : i \in 1..(n + 1) }
  BY DEF Numbered
<1> HIDE DEF f, old, new
<1>4. { f(p) : p \in Numbered(n) } = { new(i) : i \in 1..n }
  BY <1>1, <1>3
<1>5. { new(i) : i \in 1..(n + 1) } = { new(i) : i \in 1..n } \cup {new(n + 1)}
  <2>1. 1..(n + 1) = (1..n) \cup {n + 1}
    OBVIOUS
  <2> QED  BY <2>1
<1>6. { f(p) : p \in Numbered(n) } \cup {[version |-> n + 1, superseded |-> FALSE]} = Numbered(n + 1)
  BY <1>2, <1>3, <1>4, <1>5
<1> QED  BY <1>6 DEF f

\* A pack is written by the one request that holds the board's lock.
LEMMA PackWritten ==
  ASSUME PacksInv, NEW q \in Requests, PackWrite(q)
  PROVE  /\ req[q].board \in Boards /\ req[q].previous \in Nat
         /\ packs' = [packs EXCEPT ![req[q].board] = Numbered(req[q].previous + 1)]
         /\ req[q].previous < MaxPackVersion
<1>1. req[q] \in [at : {"pack"}, board : Boards, previous : Nat]
  BY RequestShape DEF PacksInv, TypeOK, PackWrite
<1>2. packs[req[q].board] = Numbered(req[q].previous) /\ req[q].previous < MaxPackVersion
  BY DEF PacksInv, PackWrite
<1>3. packs' = [packs EXCEPT ![req[q].board] =
                  { IF p.version = req[q].previous THEN [p EXCEPT !.superseded = TRUE] ELSE p :
                      p \in packs[req[q].board] }
                    \cup {[version |-> req[q].previous + 1, superseded |-> FALSE]}]
  BY DEF PackWrite
<1> QED  BY <1>1, <1>2, <1>3, NextPack

LEMMA StepPacks ==
  ASSUME PacksInv, Next
  PROVE  PacksInv'
<1>t. /\ TypeOK /\ TypeOK'
      /\ req \in [Requests -> Request]
      /\ packs \in [Boards -> SUBSET Pack]
  BY NextTypeOK DEF PacksInv, TypeOK
<1>1. ASSUME NEW b \in Boards
      PROVE  \E n \in 0..MaxPackVersion : packs'[b] = Numbered(n)
  <2>1. PICK n \in 0..MaxPackVersion : packs[b] = Numbered(n)
    BY DEF PacksInv
  <2>2. ASSUME NEW q \in Requests, PackWrite(q), req[q].board = b
        PROVE  \E m \in 0..MaxPackVersion : packs'[b] = Numbered(m)
    <3>1. req[q].previous + 1 \in 0..MaxPackVersion
      BY <2>2, PackWritten, MaxPackVersionAssumption
    <3> QED  BY <1>t, <2>2, <3>1, PackWritten
  <2>3. ASSUME NEW q \in Requests, PackWrite(q), req[q].board # b
        PROVE  packs'[b] = packs[b]
    BY <1>t, <2>3, PackWritten
  <2> QED  BY <2>1, <2>2, <2>3, HistoryWriters
<1>2. ASSUME NEW p \in Requests, req'[p].at = "pack", req'[p] = req[p]
      PROVE  packs'[req[p].board] = packs[req[p].board]
  <2>1. req[p].board \in Boards
    BY <1>t, <1>2, RequestShape
  <2>2. ASSUME NEW q \in Requests, PackWrite(q) PROVE req[q].board # req[p].board
    <3>1. q # p
      BY <1>t, <1>2, <2>2 DEF PackWrite, Goto, Idle
    <3> QED  BY <1>2, <2>2, <3>1 DEF PacksInv, PackWrite
  <2>3. ASSUME NEW q \in Requests, PackWrite(q) PROVE packs'[req[p].board] = packs[req[p].board]
    BY <1>t, <2>1, <2>2, <2>3, PackWritten
  <2> QED  BY <2>3, HistoryWriters
<1>3. ASSUME NEW p \in Requests, PackLock(p), req'[p].at = "pack"
      PROVE  /\ req'[p].previous < MaxPackVersion
             /\ packs'[req'[p].board] = Numbered(req'[p].previous)
             /\ req'[p].board = req[p].board
             /\ ~PackLocked(req[p].board)
  <2> DEFINE b == req[p].board
  <2>1. b \in Boards
    BY <1>t, <1>3, RequestShape DEF PackLock
  <2>2. PICK previous \in IF CurrentPacks(b) = {} THEN {0} ELSE { x.version : x \in CurrentPacks(b) } :
          /\ previous < MaxPackVersion
          /\ req' = [req EXCEPT ![p] = [at |-> "pack", board |-> b, previous |-> previous]]
          /\ ~PackLocked(b) /\ packs' = packs
    BY <1>3 DEF PackLock, Goto, boardVars
  <2>3. PICK n \in 0..MaxPackVersion : packs[b] = Numbered(n)
    BY <2>1 DEF PacksInv
  <2>4. previous = n
    <3>1. CASE n = 0
      BY <2>1, <2>2, <2>3, <3>1, CurrentPack
    <3>2. CASE n # 0
      <4>1. CurrentPacks(b) = {[version |-> n, superseded |-> FALSE]}
        BY <2>1, <2>3, <3>2, CurrentPack
      <4> QED  BY <2>2, <4>1
    <3> QED  BY <3>1, <3>2
  <2> QED  BY <1>t, <2>2, <2>3, <2>4
<1>4. ASSUME NEW p \in Requests, req'[p].at = "pack"
      PROVE  /\ req'[p].previous < MaxPackVersion
             /\ packs'[req'[p].board] = Numbered(req'[p].previous)
             /\ req'[p].board = req[p].board
             /\ req[p] # req'[p] => ~PackLocked(req[p].board)
  <2>1. CASE req'[p] = req[p]
    BY <1>2, <1>4, <2>1 DEF PacksInv
  <2>2. CASE req'[p] # req[p]
    BY <1>t, <1>3, <1>4, <2>2, OnlyReadsBegin
  <2> QED  BY <2>1, <2>2
<1>5. ASSUME NEW p \in Requests, NEW q \in Requests, req'[p].at = "pack", req'[q].at = "pack",
             req'[p].board = req'[q].board, p # q
      PROVE  FALSE
  <2>1. req'[p] = req[p] \/ req'[q] = req[q]
    <3>1. ASSUME req'[p] # req[p] PROVE req'[q] = req[q]
      <4>1. PackLock(p)
        BY <1>t, <1>5, <3>1, OnlyReadsBegin
      <4> QED  BY <1>t, <1>5, <4>1 DEF PackLock, Goto
    <3> QED  BY <3>1
  <2> QED  BY <1>4, <1>5, <2>1 DEF PacksInv, PackLocked
<1> QED  BY <1>t, <1>1, <1>4, <1>5 DEF PacksInv, Numbered

LEMMA PacksInvariant == Spec => []PacksInv
<1>1. Init => PacksInv
  <2>1. Init => \A b \in Boards : packs[b] = Numbered(0)
    BY DEF Init, BoardInit, Numbered
  <2> QED
    BY <2>1, InitTypeOK, MaxPackVersionAssumption DEF Init, AcademicInit, Idle, PacksInv
<1>2. PacksInv /\ [Next]_vars => PacksInv'
  <2>1. ASSUME PacksInv, UNCHANGED vars PROVE PacksInv'
    <3>1. TypeOK' /\ UNCHANGED <<req, packs>>
      BY <2>1, NextTypeOK DEF PacksInv, vars, boardVars
    <3> QED  BY <2>1, <3>1 DEF PacksInv, Numbered
  <2> QED  BY <2>1, StepPacks
<1> QED  BY <1>1, <1>2, PTL DEF Spec

\* However requests for packs overlap, the packs of a board are numbered without gaps,
\* only the last is current, and no request that holds the lock can run into the
\* unique indexes.
THEOREM PacksAreNumberedOn == Spec => []PacksAreNumbered
<1>1. PacksInv => PacksAreNumbered
  <2> SUFFICES ASSUME PacksInv, NEW b \in Boards
               PROVE  /\ \E n \in 0..MaxPackVersion :
                           packs[b] = { [version |-> i, superseded |-> i < n] : i \in 1..n }
                      /\ \A q \in Requests : req[q].at = "pack" /\ req[q].board = b =>
                           PackAccepted(b, req[q].previous)
    BY DEF PacksAreNumbered
  <2>1. \E n \in 0..MaxPackVersion : packs[b] = Numbered(n)
    BY DEF PacksInv
  <2>2. ASSUME NEW q \in Requests, req[q].at = "pack", req[q].board = b
        PROVE  PackAccepted(b, req[q].previous)
    <3> DEFINE n == req[q].previous
    <3>1. n \in Nat /\ packs[b] = Numbered(n)
      BY <2>2, RequestShape DEF PacksInv, TypeOK
    <3>2. \A p \in packs[b] : p.version # n + 1
      BY <3>1 DEF Numbered
    <3>3. \A p \in CurrentPacks(b) : p.version = n
      BY <3>1, CurrentPack
    <3> QED  BY <3>2, <3>3 DEF PackAccepted
  <2> QED  BY <2>1, <2>2 DEF Numbered
<1> QED  BY <1>1, PacksInvariant, PTL

===============================================================================
