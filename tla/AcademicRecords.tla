--------------------------- MODULE AcademicRecords ---------------------------
(***************************************************************************)
(* Marks, module results and progression decisions, and the requests of    *)
(* the assessment and progression services that write them                 *)
(* (apps/api/src/platform/assessment, platform/progression).               *)
(*                                                                         *)
(* A service method is a sequence of awaited statements.  Every read and   *)
(* every transaction is a step of its own, so requests interleave between  *)
(* a read and the write that relies on it.  The last transaction of a      *)
(* method, which closes the current version of a record and inserts the    *)
(* next one, is one step: module BitemporalUpdate shows that it takes      *)
(* effect at its commit, or not at all.                                    *)
(*                                                                         *)
(* Data is abstract.  The content of a mark is a value; the content of a   *)
(* module result is the marks it was aggregated from, and the content of a *)
(* progression decision is the results it was decided on: two contents     *)
(* differ when what they were computed from differs.                       *)
(***************************************************************************)
EXTENDS Naturals

CONSTANTS
  Marks, Registrations, Enrolments,  \* the ids of the three kinds of record;
                                     \* a registration has one module result,
                                     \* an enrolment one decision
  Components,                        \* assessment components of an offering
  Values,                            \* the values of a mark
  Boards,                            \* exam boards
  Requests,                          \* requests that the API serves
  MarkOf,                            \* what each mark is a mark of
  EnrolmentOf,                       \* the enrolment of each registration
  Absent, NoMark, NoBoard

Records == Marks \cup Registrations \cup Enrolments

ASSUME RecordsAssumption ==
  /\ Marks \cap Registrations = {}
  /\ Marks \cap Enrolments = {}
  /\ Registrations \cap Enrolments = {}
ASSUME MarkOfAssumption ==
  MarkOf \in [Marks -> [registration : Registrations, component : Components, attempt : Nat]]
ASSUME EnrolmentOfAssumption == EnrolmentOf \in [Registrations -> Enrolments]
ASSUME NoBoardAssumption == NoBoard \notin Boards

VARIABLES
  record,  \* the current version of each record, or Absent
  req      \* what each request is about to do

Aggregates == [Components -> Values \cup {NoMark}]

Outcomes == [Registrations -> Aggregates \cup {NoMark}]

Contents == Values \cup Aggregates \cup Outcomes

ContentsOf(x) ==
  CASE x \in Marks         -> Values
    [] x \in Registrations -> Aggregates
    [] x \in Enrolments    -> Outcomes

\* board: the exam_board_id of a decision; a mark or a result has none.
Row == [content : Contents, locked : BOOLEAN, board : Boards \cup {NoBoard}]

\* Absent is not a row: TLC compares it with rows as a model value.
ASSUME AbsentAssumption == Absent \notin Row

Idle == [at |-> "idle"]

\* basis: recalculate or evaluateProgression is about to read what it computes
\* from; target: about to read the record it replaces; write: about to replace it.
AcademicRequest ==
  {Idle}
    \cup [at : {"basis"}, target : Registrations \cup Enrolments]
    \cup [at : {"target"}, target : Registrations \cup Enrolments, content : Contents]
    \cup [at : {"write"}, target : Records, content : Contents, seen : Row \cup {Absent}]

Present(x) == record[x] # Absent

Fresh(content) == [content |-> content, locked |-> FALSE, board |-> NoBoard]

-------------------------------------------------------------------------------

\* A mutant for NotLocked: the check is missing.
NotLockedUnchecked(row) == TRUE

\* lock.ts: assertNotLocked, on the version that the request has read.
NotLocked(row) == ~row.locked

\* The version that replaces the one the request has seen.  Everything but the
\* content is carried over from what was seen; a first version starts unlocked.
NextVersion(seen, content) ==
  IF seen = Absent THEN Fresh(content) ELSE [seen EXCEPT !.content = content]

\* The unique index on current versions refuses a first version when a concurrent
\* request has inserted one since.
Accepted(x, seen) == seen = Absent => ~Present(x)

\* getComponentMarks: the latest attempt at each component counts; between marks
\* of the same attempt the order of the rows, which is unspecified, decides.
LatestMarks(r, c) ==
  LET candidates == { m \in Marks : /\ Present(m)
                                    /\ MarkOf[m].registration = r
                                    /\ MarkOf[m].component = c }
  IN { m \in candidates : \A n \in candidates : MarkOf[n].attempt <= MarkOf[m].attempt }

AggregatesOf(r) ==
  { a \in Aggregates : \A c \in Components :
      IF LatestMarks(r, c) = {} THEN a[c] = NoMark
                                ELSE \E m \in LatestMarks(r, c) : a[c] = record[m].content }

\* getModuleOutcomes: the current results of the enrolment.
OutcomesOf(e) ==
  [r \in Registrations |-> IF EnrolmentOf[r] = e /\ Present(r) THEN record[r].content ELSE NoMark]

Unmarked == [c \in Components |-> NoMark]

-------------------------------------------------------------------------------

AcademicInit ==
  /\ record = [x \in Records |-> Absent]
  /\ req = [q \in Requests |-> Idle]

\* ingestMark: a new mark, never locked and whatever its registration's state;
\* then recalculate.
IngestMark(q) ==
  /\ req[q] = Idle
  /\ \E m \in Marks, v \in Values :
       /\ ~Present(m)
       /\ record' = [record EXCEPT ![m] = Fresh(v)]
       /\ req' = [req EXCEPT ![q] = [at |-> "basis", target |-> MarkOf[m].registration]]

\* updateMark reads the current mark and checks its lock.
UpdateMarkRead(q) ==
  /\ req[q] = Idle
  /\ \E m \in Marks, v \in Values :
       /\ Present(m)
       /\ NotLocked(record[m])
       /\ req' = [req EXCEPT ![q] = [at |-> "write", target |-> m, content |-> v, seen |-> record[m]]]
  /\ UNCHANGED record

\* evaluateProgression is called.
EvaluateProgression(q) ==
  /\ req[q] = Idle
  /\ \E e \in Enrolments : req' = [req EXCEPT ![q] = [at |-> "basis", target |-> e]]
  /\ UNCHANGED record

\* recalculate reads the marks; without any it returns null.
ReadMarks(q) ==
  /\ req[q].at = "basis"
  /\ req[q].target \in Registrations
  /\ \E a \in AggregatesOf(req[q].target) :
       req' = [req EXCEPT ![q] =
                 IF a = Unmarked THEN Idle
                 ELSE [at |-> "target", target |-> req[q].target, content |-> a]]
  /\ UNCHANGED record

\* evaluateProgression reads the results of the enrolment.
ReadOutcomes(q) ==
  /\ req[q].at = "basis"
  /\ req[q].target \in Enrolments
  /\ req' = [req EXCEPT ![q] = [at |-> "target", target |-> req[q].target,
                                content |-> OutcomesOf(req[q].target)]]
  /\ UNCHANGED record

\* Both read the record they are about to replace, and check its lock.
ReadTarget(q) ==
  /\ req[q].at = "target"
  /\ LET x == req[q].target IN
       /\ Present(x) => NotLocked(record[x])
       /\ req' = [req EXCEPT ![q] = [at |-> "write", target |-> x,
                                     content |-> req[q].content, seen |-> record[x]]]
  /\ UNCHANGED record

\* The transaction that replaces the current version.  After a mark comes
\* recalculate; after a result or a decision the request is done.
Write(q) ==
  /\ req[q].at = "write"
  /\ LET x == req[q].target IN
       /\ Accepted(x, req[q].seen)
       /\ record' = [record EXCEPT ![x] = NextVersion(req[q].seen, req[q].content)]
       /\ req' = [req EXCEPT ![q] =
                    IF x \in Marks THEN [at |-> "basis", target |-> MarkOf[x].registration]
                                   ELSE Idle]

\* A request ends between two steps, or a step refuses: a lock or a precondition
\* check throws, a constraint aborts the transaction, the event bus is not
\* connected, or the process or the connection is lost.
RequestFails(q) ==
  /\ req[q] # Idle
  /\ req' = [req EXCEPT ![q] = Idle]
  /\ UNCHANGED record

AcademicNext ==
  \E q \in Requests :
    \/ IngestMark(q) \/ UpdateMarkRead(q) \/ EvaluateProgression(q)
    \/ ReadMarks(q) \/ ReadOutcomes(q) \/ ReadTarget(q) \/ Write(q)
    \/ RequestFails(q)

===============================================================================
