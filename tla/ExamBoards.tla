------------------------------ MODULE ExamBoards ------------------------------
(***************************************************************************)
(* Exam boards: deferral, quorum, examiner sign-off, data packs, and the   *)
(* ratification that locks the records a board covers and announces it     *)
(* (apps/api/src/platform/governance/board-service.ts).                    *)
(*                                                                         *)
(* ratifyBoard reads the board, the sign-offs, the flags, the results it   *)
(* covers and the decisions it covers, each in a transaction of its own;   *)
(* writes in one transaction; and publishes one event after the other.     *)
(***************************************************************************)
EXTENDS AcademicRecords, FiniteSets

CONSTANTS
  Scope,             \* the registrations that each board covers
  MemberCounts,      \* the quorum counts that are submitted
  MaxPackVersion,    \* bound on the packs of a board
  ExaminerRequired,  \* flag exam-board.external-examiner.required
  QuorumRequired,    \* flag exam-board.quorum.required
  DeferralEnabled,   \* flag exam-board.deferral.enabled
  FlagsFail,         \* whether the evaluation of a flag may fail
  NoQuorum

ASSUME ScopeAssumption == Scope \in [Boards -> SUBSET Registrations]
ASSUME MemberCountsAssumption == MemberCounts \subseteq Nat /\ NoQuorum \notin Nat
ASSUME MaxPackVersionAssumption == MaxPackVersion \in Nat
ASSUME FlagsAssumption ==
  {ExaminerRequired, QuorumRequired, DeferralEnabled, FlagsFail} \subseteq BOOLEAN

VARIABLES
  boards,           \* the exam_board rows
  packs,            \* the data packs of each board
  announcedBoards,  \* boards announced as ratified
  announced         \* results announced as ratified

boardVars == <<boards, packs, announcedBoards, announced>>

Board == [ratified : BOOLEAN, deferred : BOOLEAN, signedOff : BOOLEAN,
          quorum : (Nat \ {0}) \cup {NoQuorum}]

Covered == [registration : Registrations, content : Contents]

Pack == [version : Nat \ {0}, superseded : BOOLEAN]

\* signoff .. announce are the steps of ratifyBoard, in order; packLock and pack
\* those of generateDataPack; defer, reopen and quorum outstanding writes.
BoardRequest ==
  [at : {"signoff"}, board : Boards, quorum : (Nat \ {0}) \cup {NoQuorum}]
    \cup [at : {"cover"}, board : Boards]
    \cup [at : {"decisions"}, board : Boards, covered : SUBSET Covered]
    \cup [at : {"ratify"}, board : Boards, covered : SUBSET Covered, decided : SUBSET Enrolments]
    \cup [at : {"announceBoard", "announce"}, board : Boards, pending : SUBSET Covered]
    \cup [at : {"defer", "reopen", "packLock"}, board : Boards]
    \cup [at : {"quorum"}, board : Boards, count : Nat \ {0}]
    \cup [at : {"pack"}, board : Boards, previous : Nat]

-------------------------------------------------------------------------------

\* evaluateBooleanFlag: the fallback when the flag cannot be evaluated.
Evaluated(flag, fallback) == IF FlagsFail THEN {flag, fallback} ELSE {flag}

\* A mutant for SignOffMet: the sign-off is not asked for.
SignOffSkipped(b) == TRUE

SignOffMet(b) ==
  \E required \in Evaluated(ExaminerRequired, TRUE) : required => boards[b].signedOff

\* The board's quorum is the one that was read with the board.
QuorumMet(quorum) ==
  \E required \in Evaluated(QuorumRequired, FALSE) : required => quorum # NoQuorum

\* A mutant for CountAccepted: an off-by-one.
CountAcceptedFromZero(count) == count >= 0

\* A count that recordQuorum accepts.
CountAccepted(count) == count >= 1

\* The enrolments of the registrations in scope, whatever their status.
ScopeEnrolments(b) == { EnrolmentOf[r] : r \in Scope[b] }

RegistrationsOf(covered) == { c.registration : c \in covered }

\* A mutant for LockedBy: the marks are not restricted to the covered results.
LockedByAllMarks(covered, decided) ==
  { x \in Records : /\ Present(x)
                    /\ x \in RegistrationsOf(covered) \cup decided \cup Marks }

\* The records that the ratification transaction locks: the covered results, the
\* marks of their registrations, and the covered decisions, if still there.
LockedBy(covered, decided) ==
  { x \in Records : /\ Present(x)
                    /\ \/ x \in RegistrationsOf(covered) \cup decided
                       \/ x \in Marks /\ MarkOf[x].registration \in RegistrationsOf(covered) }

\* The board is written to the decisions only.
Ratified(row, x, b) ==
  [row EXCEPT !.locked = TRUE, !.board = IF x \in Enrolments THEN b ELSE @]

CurrentPacks(b) == { p \in packs[b] : ~p.superseded }

\* A mutant for PackLocked: no advisory lock.
PackLockedNever(b) == FALSE

\* pg_advisory_xact_lock: held until the transaction of generateDataPack ends.
PackLocked(b) == \E q \in Requests : req[q].at = "pack" /\ req[q].board = b

\* The unique indexes on (board, version) and on the board's current pack.
PackAccepted(b, previous) ==
  /\ \A p \in packs[b] : p.version # previous + 1
  /\ \A p \in CurrentPacks(b) : p.version = previous

-------------------------------------------------------------------------------

BoardInit ==
  /\ boards = [b \in Boards |-> [ratified |-> FALSE, deferred |-> FALSE,
                                 signedOff |-> FALSE, quorum |-> NoQuorum]]
  /\ packs = [b \in Boards |-> {}]
  /\ announcedBoards = {}
  /\ announced = {}

Goto(q, state) == req' = [req EXCEPT ![q] = state]

\* recordExternalExaminerSignoff: allowed at any time, ratified or not.
RecordSignoff(q) ==
  /\ req[q] = Idle
  /\ \E b \in Boards : boards' = [boards EXCEPT ![b].signedOff = TRUE]
  /\ UNCHANGED <<record, req, packs, announcedBoards, announced>>

DeferRead(q) ==
  /\ req[q] = Idle
  /\ TRUE \in Evaluated(DeferralEnabled, FALSE)
  /\ \E b \in Boards :
       /\ ~boards[b].ratified
       /\ ~boards[b].deferred
       /\ Goto(q, [at |-> "defer", board |-> b])
  /\ UNCHANGED <<record, boardVars>>

ReopenRead(q) ==
  /\ req[q] = Idle
  /\ \E b \in Boards :
       /\ ~boards[b].ratified
       /\ boards[b].deferred
       /\ Goto(q, [at |-> "reopen", board |-> b])
  /\ UNCHANGED <<record, boardVars>>

QuorumRead(q) ==
  /\ req[q] = Idle
  /\ \E b \in Boards, count \in MemberCounts :
       /\ ~boards[b].ratified
       /\ CountAccepted(count)
       /\ Goto(q, [at |-> "quorum", board |-> b, count |-> count])
  /\ UNCHANGED <<record, boardVars>>

\* The updates of deferBoard, reopenBoard and recordQuorum: by id only, with no
\* regard to what has become of the board since it was read.
BoardWrite(q) ==
  /\ req[q].at \in {"defer", "reopen", "quorum"}
  /\ boards' = [boards EXCEPT ![req[q].board] =
                  CASE req[q].at = "defer"  -> [@ EXCEPT !.deferred = TRUE]
                    [] req[q].at = "reopen" -> [@ EXCEPT !.deferred = FALSE]
                    [] req[q].at = "quorum" -> [@ EXCEPT !.quorum = req[q].count]]
  /\ Goto(q, Idle)
  /\ UNCHANGED <<record, packs, announcedBoards, announced>>

-------------------------------------------------------------------------------

RatifyRead(q) ==
  /\ req[q] = Idle
  /\ \E b \in Boards :
       /\ ~boards[b].ratified
       /\ ~boards[b].deferred
       /\ Goto(q, [at |-> "signoff", board |-> b, quorum |-> boards[b].quorum])
  /\ UNCHANGED <<record, boardVars>>

\* The sign-off is read now; the quorum is the one read with the board.
RatifyCheck(q) ==
  /\ req[q].at = "signoff"
  /\ SignOffMet(req[q].board)
  /\ QuorumMet(req[q].quorum)
  /\ Goto(q, [at |-> "cover", board |-> req[q].board])
  /\ UNCHANGED <<record, boardVars>>

\* A mutant for RatifyCover: the results are not restricted to the board's scope.
RatifyCoverAll(q) ==
  /\ req[q].at = "cover"
  /\ LET present == { r \in Registrations : Present(r) } IN
       Goto(q, [at |-> "decisions", board |-> req[q].board,
                covered |-> { [registration |-> r, content |-> record[r].content] : r \in present }])
  /\ UNCHANGED <<record, boardVars>>

\* getCoveredModuleResults
RatifyCover(q) ==
  /\ req[q].at = "cover"
  /\ LET present == { r \in Scope[req[q].board] : Present(r) } IN
       Goto(q, [at |-> "decisions", board |-> req[q].board,
                covered |-> { [registration |-> r, content |-> record[r].content] : r \in present }])
  /\ UNCHANGED <<record, boardVars>>

\* getCoveredProgressionDecisions, of the enrolments that are 'enrolled' and have a
\* registration that stands: statuses are another component's, so any may qualify.
RatifyDecisions(q) ==
  /\ req[q].at = "decisions"
  /\ \E qualified \in SUBSET ScopeEnrolments(req[q].board) :
       Goto(q, [at |-> "ratify", board |-> req[q].board, covered |-> req[q].covered,
                decided |-> { e \in qualified : Present(e) }])
  /\ UNCHANGED <<record, boardVars>>

\* The transaction, by ids: the board is ratified and the current versions of the
\* covered records, whatever they have become, are locked.  Each of its UPDATEs waits
\* for a row that is being replaced and then skips it, which leaves what a Write right
\* after it leaves: that Write does not check the lock again either.
RatifyWrite(q) ==
  /\ req[q].at = "ratify"
  /\ LET b == req[q].board
         lockedBy == LockedBy(req[q].covered, req[q].decided)
     IN /\ boards' = [boards EXCEPT ![b].ratified = TRUE]
        /\ record' = [x \in Records |-> IF x \in lockedBy THEN Ratified(record[x], x, b)
                                                          ELSE record[x]]
        /\ Goto(q, [at |-> "announceBoard", board |-> b, pending |-> req[q].covered])
  /\ UNCHANGED <<packs, announcedBoards, announced>>

\* exam-board.ratified and record.locked
AnnounceBoard(q) ==
  /\ req[q].at = "announceBoard"
  /\ announcedBoards' = announcedBoards \cup {req[q].board}
  /\ Goto(q, IF req[q].pending = {} THEN Idle ELSE [req[q] EXCEPT !.at = "announce"])
  /\ UNCHANGED <<record, boards, packs, announced>>

\* module-result.ratified, for one covered result after the other, with the
\* content read before the transaction.
AnnounceResult(q) ==
  /\ req[q].at = "announce"
  /\ \E c \in req[q].pending :
       /\ announced' = announced \cup {[board |-> req[q].board, registration |-> c.registration,
                                        content |-> c.content]}
       /\ Goto(q, IF req[q].pending = {c} THEN Idle
                  ELSE [req[q] EXCEPT !.pending = @ \ {c}])
  /\ UNCHANGED <<record, boards, packs, announcedBoards>>

-------------------------------------------------------------------------------

\* generateDataPack checks the board, and builds the profiles.
PackRead(q) ==
  /\ req[q] = Idle
  /\ \E b \in Boards :
       /\ ~boards[b].ratified
       /\ Goto(q, [at |-> "packLock", board |-> b])
  /\ UNCHANGED <<record, boardVars>>

\* The transaction takes the advisory lock, then reads the current pack.
PackLock(q) ==
  /\ req[q].at = "packLock"
  /\ LET b == req[q].board
         current == CurrentPacks(b)
     IN /\ ~PackLocked(b)
        /\ \E previous \in IF current = {} THEN {0} ELSE { p.version : p \in current } :
             /\ previous < MaxPackVersion
             /\ Goto(q, [at |-> "pack", board |-> b, previous |-> previous])
  /\ UNCHANGED <<record, boardVars>>

PackWrite(q) ==
  /\ req[q].at = "pack"
  /\ LET b == req[q].board
         previous == req[q].previous
     IN /\ PackAccepted(b, previous)
        /\ packs' = [packs EXCEPT ![b] =
                       { IF p.version = previous THEN [p EXCEPT !.superseded = TRUE] ELSE p : p \in packs[b] }
                         \cup {[version |-> previous + 1, superseded |-> FALSE]}]
  /\ Goto(q, Idle)
  /\ UNCHANGED <<record, boards, announcedBoards, announced>>

BoardNext ==
  \E q \in Requests :
    \/ RecordSignoff(q) \/ DeferRead(q) \/ ReopenRead(q) \/ QuorumRead(q) \/ BoardWrite(q)
    \/ RatifyRead(q) \/ RatifyCheck(q) \/ RatifyCover(q) \/ RatifyDecisions(q) \/ RatifyWrite(q)
    \/ AnnounceBoard(q) \/ AnnounceResult(q)
    \/ PackRead(q) \/ PackLock(q) \/ PackWrite(q)

===============================================================================
