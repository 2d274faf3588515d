------------------------------ MODULE Enrolments ------------------------------
(***************************************************************************)
(* Enrolments, their transition ledger, and the coarse lifecycle status of *)
(* the person (apps/api/src/platform/enrolment/service.ts).                *)
(*                                                                         *)
(* transitionStatus reads the current version and validates the change in  *)
(* one transaction, and writes in another.  Within the second, the status  *)
(* of the person is derived from the enrolments that transaction can see:  *)
(* committed ones, and its own.                                            *)
(***************************************************************************)
EXTENDS ServiceCalls, Sequences

CONSTANTS
  Persons,
  Enrolments,
  PersonOf,    \* [Enrolments -> Persons]
  Deceased     \* persons whom an administrator recorded as deceased or merged

ASSUME PersonOfAssumption == PersonOf \in [Enrolments -> Persons]
ASSUME DeceasedAssumption == Deceased \subseteq Persons

VARIABLES
  enrolments,    \* the status of the current version of each enrolment
  ledger,        \* enrolment_status_transition: from and to of each change
  personStatus   \* person_status_code

enrolmentVars == <<enrolments, ledger, personStatus>>

Statuses == {"enrolled", "intermitting", "suspended", "withdrawn", "graduated"}

PersonStatuses == {"prospective", "student", "alumnus", "deceased"}

\* ALLOWED_TRANSITIONS; an absent enrolment is not found.
AllowedFrom(status) ==
  CASE status = "enrolled" -> {"intermitting", "withdrawn", "suspended", "graduated"}
    [] status \in {"intermitting", "suspended"} -> {"enrolled", "withdrawn"}
    [] OTHER -> {}

\* A mutant for DerivedStatus: the code of the enrolment instead of the person's.
DerivedStatusRaw(statuses) ==
  IF statuses \cap {"enrolled", "intermitting", "suspended"} # {} THEN "student" ELSE "graduated"

\* derivePersonStatus, of the current enrolments of a person.
DerivedStatus(statuses) ==
  CASE statuses = {} -> "prospective"
    [] statuses \cap {"enrolled", "intermitting", "suspended"} # {} -> "student"
    [] OTHER -> IF "graduated" \in statuses THEN "alumnus" ELSE "student"

StatusesOf(p, current) ==
  { current[e] : e \in { f \in Enrolments : PersonOf[f] = p /\ current[f] # Absent } }

\* A mutant for PersonUpdate: the status is derived without the change itself.
PersonUpdateBeforeWrite(p, current) ==
  LET derived == DerivedStatus(StatusesOf(p, enrolments))
  IN  IF p \in Deceased \/ derived = personStatus[p] THEN Absent ELSE derived

\* #updatePersonStatusFromEnrolments: the status to be written, if any.
PersonUpdate(p, current) ==
  LET derived == DerivedStatus(StatusesOf(p, current))
  IN  IF p \in Deceased \/ derived = personStatus[p] THEN Absent ELSE derived

\* The row that another open transaction has closed and replaced.
EnrolmentLocked(e) ==
  \E q \in Requests : req[q].at = "commitEnrolment" /\ req[q].enrolment = e

-------------------------------------------------------------------------------

\* The versions an enrolment has been through are its ledger.
EnrolmentsInit(initial) ==
  /\ enrolments = initial
  /\ ledger = [e \in Enrolments |->
                 IF initial[e] \in {Absent, "enrolled"} THEN <<>>
                 ELSE << [from |-> "enrolled", to |-> initial[e]] >>]
  /\ personStatus = [p \in Persons |-> IF p \in Deceased THEN "deceased"
                                       ELSE DerivedStatus(StatusesOf(p, initial))]

\* transitionStatus: getEnrolment and the validation of the change.
ReadTransition(q) ==
  /\ req[q].at = "transitionStatus"
  /\ LET e == req[q].enrolment
         from == enrolments[e]
     IN  IF req[q].to \in AllowedFrom(from)
         THEN Reads(q, [at |-> "writeTransition", enrolment |-> e, from |-> from,
                        to |-> req[q].to, then |-> req[q].then])
         ELSE Reads(q, Done)
  /\ UNCHANGED enrolmentVars

\* The transaction of transitionStatus up to its commit.  Whatever version is current
\* is closed.  A transaction that waited for the row of another one finds it closed,
\* and its own insert breaks the index on the current version.
WriteTransition(q) ==
  /\ req[q].at = "writeTransition"
  /\ LET e == req[q].enrolment
     IN  IF EnrolmentLocked(e)
         THEN Reads(q, Done)
         ELSE Reads(q, [at |-> "commitEnrolment", enrolment |-> e,
                        from |-> req[q].from, to |-> req[q].to,
                        person |-> PersonUpdate(PersonOf[e],
                                                [enrolments EXCEPT ![e] = req[q].to]),
                        then |-> req[q].then])
  /\ UNCHANGED enrolmentVars

\* createEnrolment, up to its commit: a new enrolment of the person.
WriteEnrolment(q) ==
  /\ req[q].at = "createEnrolment"
  /\ \E e \in Enrolments :
       /\ PersonOf[e] = req[q].person /\ enrolments[e] = Absent /\ ~EnrolmentLocked(e)
       /\ Reads(q, [at |-> "commitEnrolment", enrolment |-> e,
                    from |-> Absent, to |-> "enrolled",
                    person |-> PersonUpdate(PersonOf[e],
                                            [enrolments EXCEPT ![e] = "enrolled"]),
                    then |-> Done])
  /\ UNCHANGED enrolmentVars

\* A mutant for LedgerEntry: the entry names the status found at the commit.
LedgerEntryAtCommit(state) == [from |-> enrolments[state.enrolment], to |-> state.to]

\* The ledger entry names the status that was read.
LedgerEntry(state) == [from |-> state.from, to |-> state.to]

\* Either transaction commits: the version, its ledger entry, the person's status.
CommitEnrolment(q) ==
  /\ req[q].at = "commitEnrolment"
  /\ LET s == req[q]
         p == PersonOf[s.enrolment]
     IN  /\ enrolments' = [enrolments EXCEPT ![s.enrolment] = s.to]
         /\ ledger' = IF s.from = Absent THEN ledger
                      ELSE [ledger EXCEPT ![s.enrolment] = Append(@, LedgerEntry(s))]
         /\ personStatus' = IF s.person = Absent THEN personStatus
                            ELSE [personStatus EXCEPT ![p] = s.person]
         /\ Writes(q, {s.enrolment, p}, s.then)

EnrolmentStep(q) ==
  \/ ReadTransition(q)
  \/ WriteTransition(q)
  \/ WriteEnrolment(q)
  \/ CommitEnrolment(q)

===============================================================================
