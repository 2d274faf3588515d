------------------------- MODULE AssessmentGovernance -------------------------
(***************************************************************************)
(* Assessment, exam boards and corrections together: the requests of all   *)
(* of them interleave on the same records.                                 *)
(***************************************************************************)
EXTENDS ExamBoards, Corrections

vars == <<record, req, boardVars, correctionVars>>

Init == AcademicInit /\ BoardInit /\ CorrectionInit

Next ==
  \/ AcademicNext   /\ UNCHANGED <<boardVars, correctionVars>>
  \/ BoardNext      /\ UNCHANGED correctionVars
  \/ CorrectionNext /\ UNCHANGED boardVars

Spec == Init /\ [][Next]_vars

Request == AcademicRequest \cup BoardRequest \cup CorrectionRequest

\* Marks hold values, results aggregates and decisions outcomes; and so do the
\* contents that requests are about to write to them.
ContentsFit ==
  /\ \A x \in Records : Present(x) => record[x].content \in ContentsOf(x)
  /\ \A q \in Requests : req[q].at \in {"target", "write", "amend", "amendWrite"} =>
       req[q].content \in ContentsOf(req[q].target)

TypeOK ==
  /\ ContentsFit
  /\ record \in [Records -> Row \cup {Absent}]
  /\ req \in [Requests -> Request]
  /\ boards \in [Boards -> Board]
  /\ packs \in [Boards -> SUBSET Pack]
  /\ announcedBoards \subseteq Boards
  /\ announced \subseteq [board : Boards, registration : Registrations, content : Contents]
  /\ versions \in [Cases -> Seq(Statuses)]
  /\ ledger \in Seq(Amendment)

-------------------------------------------------------------------------------
(***************************************************************************)
(* Locks                                                                   *)
(***************************************************************************)

Locked(x) == Present(x) /\ record[x].locked

\* A request read the record before it was locked, and has yet to write it.
WriteOutstanding(x) ==
  \E q \in Requests : req[q].at = "write" /\ req[q].target = x /\ req[q].seen # Absent

Sealed(x) == Locked(x) /\ ~WriteOutstanding(x)

\* This step is an amendment of x, and the ledger says to what.
AmendedNow(x) ==
  /\ Len(ledger') = Len(ledger) + 1
  /\ ledger'[Len(ledger')].target = x
  /\ ledger'[Len(ledger')].after = record'[x].content

\* A locked record is sealed once the writes that were outstanding when it was
\* locked are over.  It stays sealed for good, and its content changes only with
\* an entry in the ledger (assertNotLocked, and CorrectionService.applyAmendment).
SealedChangesOnlyByAmendment ==
  [][\A x \in Records : Sealed(x) =>
       /\ Sealed(x)'
       /\ record'[x].content # record[x].content => AmendedNow(x)]_vars

\* docs/requirements/functional-requirements.md:113, GOV-004: "Locked records shall
\* not be modifiable outside of an approved formal correction or appeal workflow."
LockedChangesOnlyByAmendment ==
  [][\A x \in Records : Locked(x) =>
       /\ Locked(x)'
       /\ record'[x].content # record[x].content => AmendedNow(x)]_vars

Amended(x) == \E i \in 1..Len(ledger) : ledger[i].target = x

ScopeRecords(b) ==
  { x \in Records : \/ x \in Scope[b] \cup ScopeEnrolments(b)
                    \/ x \in Marks /\ MarkOf[x].registration \in Scope[b] }

\* Nothing but ratification and amendment locks a record: a locked record is in
\* the scope of a ratified board or in the ledger, and the board that a decision
\* names is ratified and has it in scope (ratifyBoard, applyAmendment).
LocksHaveProvenance ==
  \A x \in Records : Present(x) =>
    /\ record[x].locked => \/ Amended(x)
                           \/ \E b \in Boards : boards[b].ratified /\ x \in ScopeRecords(b)
    /\ record[x].board # NoBoard => /\ boards[record[x].board].ratified
                                    /\ x \in ScopeEnrolments(record[x].board)

-------------------------------------------------------------------------------
(***************************************************************************)
(* Boards                                                                  *)
(***************************************************************************)

\* A ratified board has an examiner's sign-off when the tenant requires one, even
\* if flags cannot be evaluated; and a quorum when the tenant requires one, unless
\* they cannot (ratifyBoard, evaluateBooleanFlag).
Preconditions(b) ==
  /\ ExaminerRequired => boards[b].signedOff
  /\ QuorumRequired /\ ~FlagsFail => boards[b].quorum # NoQuorum

RatifiedBoardsMetPreconditions == \A b \in Boards : boards[b].ratified => Preconditions(b)

\* A result is announced as ratified only after its board, which is ratified and
\* has the result in scope (the events that ratifyBoard publishes).
AnnouncementsFollowRatification ==
  /\ \A b \in announcedBoards : boards[b].ratified
  /\ \A a \in announced : a.board \in announcedBoards /\ a.registration \in Scope[a.board]

\* generateDataPack numbers the packs of a board without gaps, only the last is
\* current, and the advisory lock keeps two requests from running into the
\* unique indexes (the packs of one board are generated one after the other).
PacksAreNumbered ==
  \A b \in Boards :
    /\ \E n \in 0..MaxPackVersion :
         packs[b] = { [version |-> i, superseded |-> i < n] : i \in 1..n }
    /\ \A q \in Requests : req[q].at = "pack" /\ req[q].board = b => PackAccepted(b, req[q].previous)

-------------------------------------------------------------------------------
(***************************************************************************)
(* Corrections                                                             *)
(***************************************************************************)

\* Every version of a case but the first is an allowed successor of an earlier
\* one, however status changes overlap (advanceCaseStatus).
CaseVersionsFollowTransitions ==
  \A c \in Cases : \A i \in 2..Len(versions[c]) :
    \E j \in 1..(i - 1) : versions[c][i] \in Transitions[versions[c][j]]

Was(c, status) == \E i \in 1..Len(versions[c]) : versions[c][i] = status

\* Every amendment was made under a case of the record's own enrolment that had
\* been reviewed and upheld (applyAmendment).
AmendmentsWereUpheld ==
  \A i \in 1..Len(ledger) :
    LET c == ledger[i].case IN
      /\ Was(c, "upheld") /\ Was(c, "under-review")
      /\ CaseOf[c] = Owner(ledger[i].target)

===============================================================================
