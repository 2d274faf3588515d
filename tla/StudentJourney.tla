---------------------------- MODULE StudentJourney ----------------------------
(***************************************************************************)
(* A student's journey: enrolment, module selection and registration, and  *)
(* the award.  The services share the enrolment and its registrations;     *)
(* requests of all of them run side by side.                               *)
(*                                                                         *)
(* Most checks of these services precede the write in a transaction of     *)
(* their own.  The properties say what they are worth: a limit is broken   *)
(* only where a request wrote what another had written meanwhile.          *)
(***************************************************************************)
EXTENDS ModuleSelection, Awards

CONSTANT Scenarios   \* the states from which, and the calls with which, requests start

vars == <<callVars, enrolmentVars, instances, registrationVars, selectionVars, awardVars>>

Changes ==
  [action : {"register"}, enrolment : Enrolments, offering : Offerings]
    \cup [action : {"withdraw"}, registration : Rows]

Contexts == Changes \cup [action : {"allocate"}, proposal : Proposals]

Origins ==
  {Staff} \cup { ChangeRequest(i) : i \in Instances }
    \cup [kind : {"proposal"}, proposal : Proposals, status : ProposalStatuses]

\* What the routes of these services may ask for.
Call ==
  [at : {"transitionStatus"}, enrolment : Enrolments, to : Statuses, then : {Done}]
    \cup [at : {"createEnrolment"}, person : Persons]
    \cup [at : {"conferAward", "conferResearchAward"}, enrolment : Enrolments]
    \cup [at : {"createRegistration"}, check : {1}, enrolment : Enrolments, offering : Offerings,
          skip : {FALSE}, by : {Staff}, then : {Done}]
    \cup [at : {"transitionRegistration"}, registration : Rows, to : {"withdrawn", "completed"},
          by : {Staff}]
    \cup [at : {"requestChange"}, context : Changes]
    \cup [at : {"decideChange"}, instance : Instances, decision : {"approved", "rejected"}]
    \cup [at : {"createWindow", "updateWindow"}, period : Periods, phase : Phases]
    \cup [at : {"createProposal", "setCurriculumBinding"}, enrolment : Enrolments]
    \cup [at : {"addItem", "removeItem"}, proposal : Proposals, item : Items]
    \cup [at : {"submitProposal"}, proposal : Proposals]
    \cup [at : {"decideProposal"}, proposal : Proposals,
          decision : {"approved", "rejected", "returned"}]

\* Absent is none of the things it stands for the absence of.
ASSUME AbsentAssumption ==
  /\ Absent \notin Statuses \cup PersonStatuses \cup Enrolments \cup Instances
  /\ Absent \notin Offerings \cup Bindings
  /\ Absent \notin Instance(Contexts)
  /\ Absent \notin Registration(Origins)
  /\ Absent \notin Proposal

ASSUME CallsAssumption == Calls \subseteq Call

\* A scenario is a state that the services may leave behind.  The history of its rows
\* begins with it: they count as entered by staff.
ASSUME ScenariosAssumption ==
  \A s \in Scenarios :
    /\ s.calls \subseteq Calls
    /\ s.enrolments \in [Enrolments -> Statuses \cup {Absent}]
    /\ s.instances \in [Instances -> Instance(Contexts) \cup {Absent}]
    /\ s.registrations \in [Rows -> Registration({Staff}) \cup {Absent}]
    /\ s.windows \in [Periods -> Phases \cup {"unrestricted", "none"}]
    /\ s.proposals \in [Proposals -> Proposal \cup {Absent}]
    /\ s.items \in [Proposals -> SUBSET Items]
    /\ \A i \in Instances :
         s.instances[i] # Absent /\ s.instances[i].status = "completed" =>
           s.instances[i].decisions # {} /\ s.instances[i].task # "assigned"
    /\ \A p \in Proposals :
         s.proposals[p] # Absent /\ s.proposals[p].workflow # Absent =>
           s.instances[s.proposals[p].workflow] # Absent

\* Nothing has gone wrong before a scenario begins: no proposal is confirmed of which
\* the registrations are not known, no offering is beyond its capacity, no enrolment is
\* registered twice for an offering or beyond the credits of a period.
ASSUME LimitsAssumption ==
  \A s \in Scenarios :
    /\ \A p \in Proposals : s.proposals[p] # Absent => s.proposals[p].status # "confirmed"
    /\ \A o \in Offerings :
         Capacity[o] # Absent =>
           Cardinality({ r \in Rows : /\ s.registrations[r] # Absent
                                     /\ s.registrations[r].offering = o
                                     /\ s.registrations[r].status = "registered" })
             <= Capacity[o]
    /\ \A r, x \in { y \in Rows : /\ s.registrations[y] # Absent
                                /\ s.registrations[y].status \in Active } :
         /\ s.registrations[r].enrolment = s.registrations[x].enrolment
         /\ s.registrations[r].offering = s.registrations[x].offering
         => r = x
    /\ \A e \in Enrolments, period \in Periods :
         CreditsIn(s.registrations, e, period) <= MaxCredits

\* A table has finitely many rows.
ASSUME RowsAssumption == IsFiniteSet(Rows)

Init ==
  \E s \in Scenarios :
    /\ CallsInit(s.calls)
    /\ EnrolmentsInit(s.enrolments)
    /\ instances = s.instances
    /\ registrations = s.registrations
    /\ windows = s.windows
    /\ proposals = s.proposals
    /\ items = s.items
    /\ bindings = [e \in Enrolments |-> {}]
    /\ awards = [a \in Awards |-> Absent]
    /\ announcedAwards = {}

Step(q) ==
  \/ EnrolmentStep(q) /\ UNCHANGED <<instances, registrationVars, selectionVars, awardVars>>
  \/ WorkflowStep(q) /\ UNCHANGED <<enrolmentVars, registrationVars, selectionVars, awardVars>>
  \/ RegistrationStep(q) /\ UNCHANGED <<enrolmentVars, instances, selectionVars, awardVars>>
  \/ SelectionStep(q) /\ UNCHANGED <<enrolmentVars, instances, registrationVars, awardVars>>
  \/ AwardStep(q) /\ UNCHANGED <<enrolmentVars, instances, registrationVars, selectionVars>>
  \/ /\ Fail(q)
     /\ UNCHANGED <<enrolmentVars, instances, registrationVars, selectionVars, awardVars>>

TimePasses ==
  /\ \E period \in Periods : WindowPasses(period)
  /\ UNCHANGED <<enrolmentVars, instances, selectionVars, awardVars>>

Next == (\E q \in Requests : Step(q)) \/ TimePasses

Spec == Init /\ [][Next]_vars

-------------------------------------------------------------------------------

\* Every variable has its type, and the entities that may be suspect are the ones
\* that some request writes.
TypeOK ==
  /\ enrolments \in [Enrolments -> Statuses \cup {Absent}]
  /\ ledger \in [Enrolments -> Seq([from : Statuses, to : Statuses])]
  /\ personStatus \in [Persons -> PersonStatuses]
  /\ instances \in [Instances -> Instance(Contexts) \cup {Absent}]
  /\ registrations \in [Rows -> Registration(Origins) \cup {Absent}]
  /\ windows \in [Periods -> Phases \cup {"unrestricted", "none"}]
  /\ proposals \in [Proposals -> Proposal \cup {Absent}]
  /\ items \in [Proposals -> SUBSET Items]
  /\ bindings \in [Enrolments -> SUBSET Bindings]
  /\ awards \in [Awards -> Enrolments \cup {Absent}]
  /\ announcedAwards \subseteq Enrolments

\* The status of a person is the one derived from all current enrolments, and an
\* administrator's "deceased" stays, unless two enrolments of the person were changed
\* by transactions that did not see each other (enrolment/service.ts).
PersonStatusFollows ==
  \A p \in Persons \ suspect :
    personStatus[p] = IF p \in Deceased THEN "deceased"
                      ELSE DerivedStatus(StatusesOf(p, enrolments))

\* The ledger of an enrolment is the chain of legal changes from "enrolled" to its
\* current status.  Every entry is legal by itself even after an overlap; what an
\* overlap breaks is the chain (transitionStatus of enrolment/service.ts).
LedgerIsHistory ==
  \A e \in Enrolments :
    LET l == ledger[e]
        before(n) == IF n = 1 THEN "enrolled" ELSE l[n - 1].to
    IN  /\ \A n \in DOMAIN l : l[n].to \in AllowedFrom(l[n].from)
        /\ e \in suspect \/ \A n \in DOMAIN l : l[n].from = before(n)
        /\ enrolments[e] # Absent => enrolments[e] = before(Len(l) + 1)

\* No enrolment has two current awards, however its conferrals overlap
\* (award-service.ts, and the index of the award table).
OneAwardPerEnrolment == \A e \in Enrolments : Cardinality(AwardsOf(e)) <= 1

\* An award is announced for a graduated enrolment only: the announcement follows the
\* award and the graduation (award-service.ts).
AnnouncedAwardsGraduated ==
  \A e \in announcedAwards \ suspect : AwardsOf(e) # {} /\ enrolments[e] = "graduated"

\* An offering is filled beyond its capacity only by a decision of an approver, by a
\* proposal whose items were changed under its confirmation, or by an overlap
\* (registration/service.ts, module-selection/service.ts).
CapacityKept ==
  \A o \in Offerings \ suspect :
    \/ Capacity[o] = Absent \/ Cardinality(Registered(o)) <= Capacity[o]
    \/ \E r \in Registered(o) :
         LET by == registrations[r].by
         IN  by.kind = "proposal" /\ (by.status = "approved" \/ by.proposal \in suspect)

\* One active registration of an offering, and the credits of a period within the
\* limit, unless two requests registered one enrolment at once (registration/service.ts).
RegistrationsWithinLimits ==
  \A e \in Enrolments :
    \/ <<"registrations", e>> \in suspect
    \/ /\ \A o \in Offerings : Cardinality(Duplicates(e, o)) <= 1
       /\ \A period \in Periods : RegisteredCredits(e, period) <= MaxCredits

\* A registration is inserted while its enrolment is enrolled and the window of its
\* period is open, unless that changed while the request was checking the rest
\* (createRegistration of registration/service.ts).
RegisteredInTime ==
  [][\A r \in Rows :
       registrations[r] = Absent /\ registrations'[r] # Absent =>
         LET e == registrations'[r].enrolment
             period == PeriodOf[registrations'[r].offering]
         IN  \E q \in Requests :
               /\ req'[q] # req[q]
               /\ enrolments[e] = "enrolled" \/ e \in overlapped[q]
               /\ WindowOpen(period) \/ period \in overlapped[q]]_vars

\* A withdrawn or completed registration stays what it is, unless a request wrote
\* over a change that it had not seen (#transitionRegistration).
FinalRegistrationsStay ==
  [][\A r \in Rows :
       registrations[r] # Absent /\ registrations[r].status # "registered" =>
         registrations'[r] = registrations[r] \/ r \in suspect']_vars

\* A closed instance has a decision, and its task is not left in a queue, unless the
\* decision came before the task (decideChangeRequest, decideProposal).
ClosedInstancesAreDecided ==
  \A i \in Instances :
    Exists(i) /\ instances[i].status = "completed" =>
      /\ instances[i].decisions # {}
      /\ instances[i].task = "assigned" => i \in suspect

\* Nothing is registered for a change request without an approval on record, and only
\* once the request is closed (decideChangeRequest).
ChangesWereApproved ==
  \A r \in Rows :
    registrations[r] # Absent /\ registrations[r].by.kind = "request" =>
      LET i == registrations[r].by.instance
      IN  "approved" \in instances[i].decisions /\ instances[i].status = "completed"

\* The rows that came of a proposal.
RowsBy(p) ==
  { r \in Rows : /\ registrations[r] # Absent
                 /\ registrations[r].by.kind = "proposal"
                 /\ registrations[r].by.proposal = p }

\* A confirmed proposal has registered every item that has an offering, unless the
\* proposal was changed under its confirmation (#confirmProposal).
ConfirmedMeansRegistered ==
  \A p \in Proposals \ suspect :
    proposals[p] # Absent /\ proposals[p].status = "confirmed" =>
      { OfferingOf[i] : i \in Offered(items[p]) }
        \subseteq { registrations[r].offering : r \in RowsBy(p) }

\* A proposal that is neither validated nor approved has registered nothing
\* (submitProposal, decideProposal).
UndecidedRegisterNothing ==
  \A p \in Proposals \ suspect :
    RowsBy(p) # {} => proposals[p].status \in {"validated", "approved", "confirmed"}

\* BR-4 of docs/business-processes/03-curriculum-and-module-registration/
\* bp-03-004-validate-and-approve-module-selection.md: a proposal ends confirmed, or
\* returned without registrations, never with some of its registrations.
NoPartialRegistration ==
  (\A q \in Requests : ~InFlight(q)) =>
    \A p \in Proposals : RowsBy(p) # {} => proposals[p].status = "confirmed"

\* An enrolment has one current binding at most, unless two requests bound it at once
\* (setCurriculumBinding, #resolveCurriculumBinding).
OneBindingPerEnrolment ==
  \A e \in Enrolments :
    <<"binding", e>> \in suspect \/ Cardinality(bindings[e]) <= 1

===============================================================================
