----------------------------- MODULE Corrections -----------------------------
(***************************************************************************)
(* Correction cases, and the amendments that an upheld case authorises     *)
(* (apps/api/src/platform/governance/correction-service.ts).               *)
(*                                                                         *)
(* A case is a bitemporal record: all of its versions stay in the table,   *)
(* and the last is the current one.  The ledger of amendments is append-   *)
(* only.                                                                   *)
(***************************************************************************)
EXTENDS AcademicRecords, Sequences

CONSTANTS
  Cases,
  CaseOf,        \* the enrolment each case is about
  MaxAmendments  \* bound on the ledger

ASSUME CaseOfAssumption == CaseOf \in [Cases -> Enrolments]

VARIABLES
  versions,  \* the status of every version of each case, in recorded order
  ledger     \* the post-ratification amendments, in recorded order

correctionVars == <<versions, ledger>>

Statuses == {"open", "under-review", "upheld", "not-upheld", "withdrawn"}

\* ALLOWED_STATUS_TRANSITIONS
Transitions ==
  [s \in Statuses |->
     CASE s = "open"         -> {"under-review", "not-upheld", "withdrawn"}
       [] s = "under-review" -> {"upheld", "not-upheld", "withdrawn"}
       [] OTHER              -> {}]

Amendment == [case : Cases, target : Records, before : Row, after : Contents]

\* advance: an outstanding status change; amend: the case was found upheld;
\* amendWrite: the transaction has read the record it amends.
CorrectionRequest ==
  [at : {"advance"}, case : Cases, status : Statuses]
    \cup [at : {"amend"}, case : Cases, target : Records, content : Contents]
    \cup [at : {"amendWrite"}, case : Cases, target : Records, content : Contents, seen : Row]

Current(c) == versions[c][Len(versions[c])]

Opened(c) == versions[c] # <<>>

\* assertCaseOwnsEntity compares the case's enrolment with this one.
Owner(x) ==
  CASE x \in Marks         -> EnrolmentOf[MarkOf[x].registration]
    [] x \in Registrations -> EnrolmentOf[x]
    [] x \in Enrolments    -> x

CorrectionInit ==
  /\ versions = [c \in Cases |-> <<>>]
  /\ ledger = <<>>

OpenCase(q) ==
  /\ req[q] = Idle
  /\ \E c \in Cases :
       /\ ~Opened(c)
       /\ versions' = [versions EXCEPT ![c] = <<"open">>]
  /\ UNCHANGED <<record, req, ledger>>

\* A mutant for AdvanceRead: the transition is not validated.
AdvanceReadUnchecked(q) ==
  /\ req[q] = Idle
  /\ \E c \in Cases, s \in Statuses :
       /\ Opened(c)
       /\ req' = [req EXCEPT ![q] = [at |-> "advance", case |-> c, status |-> s]]
  /\ UNCHANGED <<record, correctionVars>>

\* advanceCaseStatus reads the case and validates the transition.
AdvanceRead(q) ==
  /\ req[q] = Idle
  /\ \E c \in Cases :
       /\ Opened(c)
       /\ \E s \in Transitions[Current(c)] :
            req' = [req EXCEPT ![q] = [at |-> "advance", case |-> c, status |-> s]]
  /\ UNCHANGED <<record, correctionVars>>

\* The next version of the case, whatever the current one has become.
AdvanceWrite(q) ==
  /\ req[q].at = "advance"
  /\ versions' = [versions EXCEPT ![req[q].case] = Append(@, req[q].status)]
  /\ req' = [req EXCEPT ![q] = Idle]
  /\ UNCHANGED <<record, ledger>>

\* A mutant for Upheld: an open case is enough.
UpheldOrOpen(c) == Opened(c)

\* applyAmendment checks that the case is upheld.
Upheld(c) == Opened(c) /\ Current(c) = "upheld"

AmendCheck(q) ==
  /\ req[q] = Idle
  /\ \E c \in Cases, x \in Records :
       /\ Upheld(c)
       /\ \E content \in ContentsOf(x) :
            req' = [req EXCEPT ![q] = [at |-> "amend", case |-> c, target |-> x, content |-> content]]
  /\ UNCHANGED <<record, correctionVars>>

\* dispatchAmendment, SELECT: ratified or not, locked or not.
AmendRead(q) ==
  /\ req[q].at = "amend"
  /\ LET x == req[q].target IN
       /\ Present(x)
       /\ CaseOf[req[q].case] = Owner(x)
       /\ req' = [req EXCEPT ![q] = [at |-> "amendWrite", case |-> req[q].case, target |-> x,
                                     content |-> req[q].content, seen |-> record[x]]]
  /\ UNCHANGED <<record, correctionVars>>

\* A mutant for AmendWrite: no ledger entry is written.
AmendWriteUnledgered(q) ==
  /\ req[q].at = "amendWrite"
  /\ LET x == req[q].target
         seen == req[q].seen
     IN record' = [record EXCEPT ![x] = [seen EXCEPT !.content = req[q].content, !.locked = TRUE]]
  /\ req' = [req EXCEPT ![q] = Idle]
  /\ UNCHANGED <<versions, ledger>>

\* dispatchAmendment, UPDATE and INSERT, and the ledger entry.
AmendWrite(q) ==
  /\ req[q].at = "amendWrite"
  /\ Len(ledger) < MaxAmendments
  /\ LET x == req[q].target
         seen == req[q].seen
     IN /\ record' = [record EXCEPT ![x] = [seen EXCEPT !.content = req[q].content, !.locked = TRUE]]
        /\ ledger' = Append(ledger, [case |-> req[q].case, target |-> x,
                                     before |-> seen, after |-> req[q].content])
  /\ req' = [req EXCEPT ![q] = Idle]
  /\ UNCHANGED versions

CorrectionNext ==
  \E q \in Requests :
    OpenCase(q) \/ AdvanceRead(q) \/ AdvanceWrite(q)
      \/ AmendCheck(q) \/ AmendRead(q) \/ AmendWrite(q)

===============================================================================
