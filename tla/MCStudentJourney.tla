--------------------------- MODULE MCStudentJourney ---------------------------
(***************************************************************************)
(* Four enrolments of two persons, three modules of one period, and the    *)
(* states from which requests of one area, and their neighbours, start.    *)
(***************************************************************************)
EXTENDS StudentJourney, TLC

CONSTANTS e1, e2, e3, e4, p1, p2, a, b, c, r1, r2, r3, r4, i1, i2, s1, spring, q1, q2, q3

Symmetry == Permutations(Requests)

MCPersonOf == (e1 :> p1) @@ (e2 :> p1) @@ (e3 :> p1) @@ (e4 :> p2)

\* b is taken together with a; c needs a completed, and excludes b; a has one place.
MCRules == { [type |-> "co-requisite", module |-> b, related |-> a],
             [type |-> "prerequisite", module |-> c, related |-> a],
             [type |-> "exclusion", module |-> b, related |-> c] }

MCSelf == [o \in Offerings |-> o]
MCPeriodOf == [o \in Offerings |-> spring]
MCCapacity == [o \in Offerings |-> IF o = a THEN 1 ELSE Absent]
MCCredits == [m \in Modules |-> IF m = c THEN 20 ELSE 10]
MCGroups == { [members |-> {a, c}, compulsory |-> TRUE, min |-> 1, max |-> 2] }
MCCreditLoad == [min |-> 10, max |-> 30]

\* The items of a proposal are named for their modules.
MCOfferingOf == [i \in Items |-> IF i = c THEN Absent ELSE i]

-------------------------------------------------------------------------------

Nothing == [r \in Rows |-> Absent]
Row(e, o, status) == [enrolment |-> e, offering |-> o, status |-> status, by |-> Staff]
Two(e) == [f \in Enrolments |-> IF f = e3 THEN Absent ELSE IF f = e1 THEN e ELSE "enrolled"]

Base ==
  [calls |-> {}, enrolments |-> Two("enrolled"), instances |-> [i \in Instances |-> Absent],
   registrations |-> Nothing, windows |-> [p \in Periods |-> "unrestricted"],
   proposals |-> [p \in Proposals |-> Absent], items |-> [p \in Proposals |-> {}]]

ToStatus(e, s) == [at |-> "transitionStatus", enrolment |-> e, to |-> s, then |-> Done]
Register(e, o) == NewRegistration(e, o, FALSE, Staff, Done)

\* The end of a student's journey: e1 is covered by a ratified board, e2 is not.
Graduation ==
  [Base EXCEPT
     !.registrations = [Nothing EXCEPT ![r1] = Row(e1, a, "completed")],
     !.calls = {ToStatus(e1, "graduated"), ToStatus(e1, "suspended"), ToStatus(e2, "withdrawn"),
                ToStatus(e4, "withdrawn"),
                [at |-> "createEnrolment", person |-> p1],
                [at |-> "conferAward", enrolment |-> e1],
                [at |-> "conferAward", enrolment |-> e2],
                [at |-> "conferResearchAward", enrolment |-> e1]}]

Intermission ==
  [Graduation EXCEPT
     !.enrolments = [Two("intermitting") EXCEPT ![e2] = "graduated"],
     !.calls = {ToStatus(e1, "enrolled"), ToStatus(e1, "withdrawn"),
                [at |-> "createEnrolment", person |-> p1],
                [at |-> "conferAward", enrolment |-> e1],
                [at |-> "conferResearchAward", enrolment |-> e2]}]

\* Registrations by staff, beside an outstanding change request.
Register1(e, o) == [action |-> "register", enrolment |-> e, offering |-> o]
Running1(context, task) ==
  [context |-> context, status |-> "running", task |-> task, decisions |-> {}]

Registering ==
  [Base EXCEPT
     !.registrations = [Nothing EXCEPT ![r1] = Row(e2, a, "registered"),
                                       ![r2] = Row(e1, c, "registered")],
     !.calls = {Register(e1, a), Register(e4, a), Register(e1, b), Register(e2, b),
                Transition(r1, "withdrawn", Staff), Transition(r1, "completed", Staff),
                Transition(r2, "completed", Staff), ToStatus(e2, "suspended")}]

Requesting ==
  [Base EXCEPT
     !.registrations = [Nothing EXCEPT ![r1] = Row(e2, b, "registered")],
     !.instances = [Base.instances EXCEPT ![i1] = Running1(Register1(e1, a), "assigned")],
     !.calls = {Register(e1, a),
                [at |-> "requestChange", context |-> Register1(e1, a)],
                [at |-> "requestChange", context |-> [action |-> "withdraw", registration |-> r1]],
                Transition(r1, "completed", Staff)}
        \cup [at : {"decideChange"}, instance : {i1, i2}, decision : {"approved", "rejected"}]]

Windowed(phase) ==
  [Base EXCEPT
     !.windows = [p \in Periods |-> phase],
     !.calls = {Register(e1, a), Register(e4, a)}
        \cup [at : {"createWindow", "updateWindow"}, period : Periods, phase : {"open", "after"}]]

\* A draft, a waitlisted proposal, and none yet.
ItemCall == [at : {"addItem", "removeItem"}, proposal : {s1}, item : Items]
Decision == [at : {"decideProposal"}, proposal : {s1},
             decision : {"approved", "rejected", "returned"}]
Submission == {[at |-> "submitProposal", proposal |-> s1]}
RowOf(status, i) == [enrolment |-> e1, workflow |-> i, status |-> status]

Selecting(list) ==
  [Base EXCEPT
     !.registrations = [Nothing EXCEPT ![r1] = Row(e1, a, "withdrawn")],
     !.proposals = [Base.proposals EXCEPT ![s1] = RowOf("draft", Absent)],
     !.items = [Base.items EXCEPT ![s1] = list],
     !.calls = Submission \cup Decision \cup {Register(e4, a)}
        \cup { i \in ItemCall : i.item \in {a, b} /\ (i.at = "addItem") = (i.item \notin list)}]

Allocating ==
  [Base EXCEPT
     !.registrations = [Nothing EXCEPT ![r1] = Row(e4, a, "registered")],
     !.instances = [Base.instances EXCEPT
        ![i1] = Running1([action |-> "allocate", proposal |-> s1], "assigned")],
     !.proposals = [Base.proposals EXCEPT ![s1] = RowOf("waitlisted", i1)],
     !.items = [Base.items EXCEPT ![s1] = {a}],
     !.calls = Submission \cup Decision
        \cup {Transition(r1, "withdrawn", Staff),
              [at |-> "decideChange", instance |-> i1, decision |-> "approved"]}]

Proposing ==
  [Base EXCEPT
     !.calls = {[at |-> "createProposal", enrolment |-> e1],
                [at |-> "setCurriculumBinding", enrolment |-> e1]} \cup Submission
        \cup {[at |-> "addItem", proposal |-> s1, item |-> b]}]

MCScenarios ==
  {Graduation, Intermission, Registering, Requesting, Windowed("none"), Windowed("open"),
   Windowed("before"), Selecting({a, b}), Selecting({a}), Allocating, Proposing}

\* One student submits all three modules, and b still is taken together with a.
MCSubmissionAlone == {[Selecting({a, b, c}) EXCEPT !.calls = Submission]}
MCPairRules == { [type |-> "co-requisite", module |-> b, related |-> a] }
MCOfferedItem == [i \in Items |-> i]
MCWideLoad == [min |-> 10, max |-> 40]

MCCalls == UNION { s.calls : s \in MCScenarios }
===============================================================================
