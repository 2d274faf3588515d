-------------------------------- MODULE Awards --------------------------------
(***************************************************************************)
(* The conferral of awards (apps/api/src/platform/progression/             *)
(* award-service.ts): the award is inserted in one transaction, and the    *)
(* enrolment graduates by transitionStatus, which checks it again.         *)
(***************************************************************************)
EXTENDS Registrations

CONSTANTS
  Awards,           \* identifiers of award rows
  RatifiedPeriods   \* periods that a ratified exam board covers

VARIABLES
  awards,           \* the enrolment of each current award
  announcedAwards   \* enrolments whose award was published as conferred

awardVars == <<awards, announcedAwards>>

AwardsOf(e) == { a \in Awards : awards[a] = e }

\* #ensureRatifiedBoardCoversEnrolment: a current registration, whatever its status,
\* in a period of a ratified board.
BoardCovers(e) ==
  \E r \in RowsOf(e, {"registered", "withdrawn", "completed"}) :
    PeriodOf[registrations[r].offering] \in RatifiedPeriods

\* A mutant for AwardIndex: the unique index is on the identifier alone.
AwardIndexById(e) == TRUE

\* award_enrolment_current_unique.
AwardIndex(e) == AwardsOf(e) = {}

\* A mutant for AfterAward: the award is announced before the graduation.
AfterAwardAnnounced(e, status) == [at |-> "announceAward", enrolment |-> e]

\* What follows the award: the graduation, unless the enrolment was graduated when
\* it was read, and the announcement.
AfterAward(e, status) ==
  LET announce == [at |-> "announceAward", enrolment |-> e]
  IN  IF status = "graduated" THEN announce
      ELSE [at |-> "transitionStatus", enrolment |-> e, to |-> "graduated",
            then |-> announce]

-------------------------------------------------------------------------------

\* conferAward and conferResearchAward: the enrolment is read; only the former asks
\* for a board, and for the classification that is recommended.
ReadAwardEnrolment(q) ==
  /\ req[q].at \in {"conferAward", "conferResearchAward"}
  /\ LET e == req[q].enrolment
     IN  Reads(q, IF enrolments[e] = Absent THEN Done
                  ELSE [at |-> IF req[q].at = "conferAward" THEN "awardBoard" ELSE "awardExisting",
                        enrolment |-> e, status |-> enrolments[e]])
  /\ UNCHANGED awardVars

CheckAwardBoard(q) ==
  /\ req[q].at = "awardBoard"
  /\ Reads(q, IF BoardCovers(req[q].enrolment) THEN [req[q] EXCEPT !.at = "awardExisting"]
              ELSE Done)
  /\ UNCHANGED awardVars

CheckAward(q) ==
  /\ req[q].at = "awardExisting"
  /\ Reads(q, IF AwardsOf(req[q].enrolment) = {} THEN [req[q] EXCEPT !.at = "insertAward"]
              ELSE Done)
  /\ UNCHANGED awardVars

InsertAward(q) ==
  /\ req[q].at = "insertAward"
  /\ LET e == req[q].enrolment
     IN  IF AwardIndex(e)
         THEN /\ \E a \in Unused(awards) :
                   /\ a = CHOOSE x \in Unused(awards) : TRUE
                   /\ awards' = [awards EXCEPT ![a] = e]
              /\ Writes(q, {<<"award", e>>}, AfterAward(e, req[q].status))
         ELSE Reads(q, Done) /\ UNCHANGED awards
  /\ UNCHANGED announcedAwards

AnnounceAward(q) ==
  /\ req[q].at = "announceAward"
  /\ announcedAwards' = announcedAwards \cup {req[q].enrolment}
  /\ Reads(q, Done)
  /\ UNCHANGED awards

AwardStep(q) ==
  \/ ReadAwardEnrolment(q)
  \/ CheckAwardBoard(q)
  \/ CheckAward(q)
  \/ InsertAward(q)
  \/ AnnounceAward(q)

===============================================================================
