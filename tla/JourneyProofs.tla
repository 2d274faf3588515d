---------------------------- MODULE JourneyProofs ----------------------------
(***************************************************************************)
(* Theorems about module StudentJourney, for every number of requests,     *)
(* enrolments, offerings and rows, and every set of scenarios: what the    *)
(* modules about enrolments, registrations and module selection rest on.   *)
(*                                                                         *)
(* The first part is the type invariant, with the type of the control      *)
(* states of the requests that it needs.  The second is what a step does   *)
(* to the history of overlaps.  A request that does not take the step (a   *)
(* bystander) keeps its control state, and what the step changed is among  *)
(* what the bystander is overlapped by.  The request that takes it arrives *)
(* in a control state from one of a few others, and what it wrote in spite *)
(* of an overlap is suspect.  An invariant thus says of a control state    *)
(* what the request has read, unless the request is overlapped there.      *)
(***************************************************************************)
EXTENDS StudentJourney, TLAPS

-------------------------------------------------------------------------------
(* The control states of a request.  What a request has read about an       *)
(* instance, a proposal or a registration still exists: nothing is deleted. *)

Present(table) == { x \in DOMAIN table : table[x] # Absent }

Decisions == {"approved", "rejected", "returned"}
Tasks == {"none", "assigned", "completed"}

\* The row of a proposal that may refer to one of the instances.
ProposalOver(I) ==
  [enrolment : Enrolments, workflow : I \cup {Absent}, status : ProposalStatuses]

Announcing == [at : {"announceAward"}, enrolment : Enrolments]

EnrolmentRequest ==
  [at : {"transitionStatus"}, enrolment : Enrolments, to : Statuses, then : Announcing \cup {Done}]
    \cup [at : {"writeTransition"}, enrolment : Enrolments, from : Statuses, to : Statuses,
          then : Announcing \cup {Done}]
    \cup [at : {"commitEnrolment"}, enrolment : Enrolments, from : Statuses \cup {Absent},
          to : Statuses, person : PersonStatuses \cup {Absent}, then : Announcing \cup {Done}]

AwardRequest ==
  Announcing
    \cup [at : {"awardBoard", "awardExisting", "insertAward"}, enrolment : Enrolments,
          status : Statuses]

Confirming(P) == [at : {"confirmProposal"}, proposal : P]

Validating(P) == [at : {"validate"}, proposal : P, items : SUBSET Items]

Overwriting(I, P) ==
  [at : {"writeProposal"}, proposal : P, row : ProposalOver(I), status : ProposalStatuses,
   instance : I \cup {Absent}, then : Validating(P) \cup Confirming(P) \cup {Done}]

Registering(I, P) ==
  [at : {"registerItems"}, proposal : P, row : ProposalOver(I), left : SUBSET Offered(Items)]

Creating(I, P) ==
  [at : {"createRegistration", "insertRegistration"}, check : 1..6, enrolment : Enrolments,
   offering : Offerings, skip : BOOLEAN, by : Origins, then : Registering(I, P) \cup {Done}]

Changing(R) ==
  [at : {"transitionRegistration"}, registration : Rows, to : {"withdrawn", "completed"},
   by : Origins]
    \cup [at : {"writeRegistration"}, registration : R, to : {"withdrawn", "completed"},
          by : Origins]

\* What follows the approval of a change request.
Approved ==
  [at : {"createRegistration"}, check : {1}, enrolment : Enrolments, offering : Offerings,
   skip : {FALSE}, by : [kind : {"request"}, instance : Instances], then : {Done}]
    \cup [at : {"transitionRegistration"}, registration : Rows, to : {"withdrawn"},
          by : [kind : {"request"}, instance : Instances]]

WorkflowRequest(I, P) ==
  [at : {"startInstance"}, context : Contexts, then : Overwriting(I, P) \cup {Done}]
    \cup [at : {"assignTask"}, instance : I, then : Overwriting(I, P) \cup {Done}]
    \cup [at : {"findTask"}, instance : I, decision : {"approved", "rejected"},
          then : Approved \cup {Done}]
    \cup [at : {"recordDecision", "completeTask", "completeInstance"}, instance : I,
          decision : Decisions, task : Tasks,
          then : Overwriting(I, P) \cup Approved \cup {Done}]

InsertingProposal == [at : {"insertProposal"}, enrolment : Enrolments]

BindingRequest ==
  [at : {"closeBinding", "insertBinding"}, enrolment : Enrolments,
   binding : Bindings \cup {Absent}, then : InsertingProposal \cup {Done}]
    \cup InsertingProposal

SelectionRequest(I, P) ==
  Validating(P) \cup Confirming(P) \cup Overwriting(I, P) \cup Registering(I, P)
    \cup [at : {"populate"}, proposal : P, left : SUBSET Items]
    \cup [at : {"writeItem"}, proposal : P, item : Items, adding : BOOLEAN]
    \cup [at : {"submitItems", "confirmItems"}, proposal : P, row : ProposalOver(I)]
    \cup [at : {"capacity"}, proposal : P, items : SUBSET Items, valid : BOOLEAN]
    \cup [at : {"verdict"}, proposal : P, verdict : {"returned", "waitlisted", "validated"}]

\* I, P, R: the instances, proposals and registrations that exist.
Request(I, P, R) ==
  {Done} \cup Call \cup EnrolmentRequest \cup AwardRequest \cup WorkflowRequest(I, P)
    \cup Creating(I, P) \cup Changing(R) \cup BindingRequest \cup SelectionRequest(I, P)

KnownRequest == Request(Present(instances), Present(proposals), Present(registrations))

TypeInv ==
  /\ TypeOK
  /\ req \in [Requests -> KnownRequest]
  /\ proposals \in [Proposals -> ProposalOver(Present(instances)) \cup {Absent}]
  /\ DOMAIN overlapped = Requests

\* What is known of a request in each of its control states.
LEMMA RequestShape ==
  ASSUME NEW I, NEW P, NEW R, NEW r \in Request(I, P, R)
  PROVE
    /\ r.at = "transitionStatus" => r \in EnrolmentRequest
    /\ r.at = "writeTransition" => r \in EnrolmentRequest
    /\ r.at = "commitEnrolment" => r \in EnrolmentRequest
    /\ r.at = "createEnrolment" => r \in [at : {"createEnrolment"}, person : Persons]
    /\ r.at \in {"conferAward", "conferResearchAward"} =>
         r \in [at : {"conferAward", "conferResearchAward"}, enrolment : Enrolments]
    /\ r.at \in {"awardBoard", "awardExisting", "insertAward"} =>
         r \in [at : {"awardBoard", "awardExisting", "insertAward"}, enrolment : Enrolments,
                status : Statuses]
    /\ r.at = "announceAward" => r \in Announcing
    /\ r.at = "startInstance" =>
         r \in [at : {"startInstance"}, context : Contexts, then : Overwriting(I, P) \cup {Done}]
    /\ r.at = "assignTask" =>
         r \in [at : {"assignTask"}, instance : I, then : Overwriting(I, P) \cup {Done}]
    /\ r.at = "findTask" =>
         r \in [at : {"findTask"}, instance : I, decision : {"approved", "rejected"},
                then : Approved \cup {Done}]
    /\ r.at \in {"recordDecision", "completeTask", "completeInstance"} =>
         r \in [at : {"recordDecision", "completeTask", "completeInstance"}, instance : I,
                decision : Decisions, task : Tasks,
                then : Overwriting(I, P) \cup Approved \cup {Done}]
    /\ r.at \in {"createRegistration", "insertRegistration"} => r \in Creating(I, P)
    /\ r.at \in {"transitionRegistration", "writeRegistration"} => r \in Changing(R)
    /\ r.at = "requestChange" => r \in [at : {"requestChange"}, context : Changes]
    /\ r.at = "decideChange" =>
         r \in [at : {"decideChange"}, instance : Instances, decision : {"approved", "rejected"}]
    /\ r.at \in {"createWindow", "updateWindow"} =>
         r \in [at : {"createWindow", "updateWindow"}, period : Periods, phase : Phases]
    /\ r.at \in {"createProposal", "setCurriculumBinding"} =>
         r \in [at : {"createProposal", "setCurriculumBinding"}, enrolment : Enrolments]
    /\ r.at \in {"closeBinding", "insertBinding"} =>
         r \in [at : {"closeBinding", "insertBinding"}, enrolment : Enrolments,
                binding : Bindings \cup {Absent}, then : InsertingProposal \cup {Done}]
    /\ r.at = "insertProposal" => r \in InsertingProposal
    /\ r.at \in {"addItem", "removeItem"} =>
         r \in [at : {"addItem", "removeItem"}, proposal : Proposals, item : Items]
    /\ r.at = "submitProposal" => r \in [at : {"submitProposal"}, proposal : Proposals]
    /\ r.at = "decideProposal" =>
         r \in [at : {"decideProposal"}, proposal : Proposals, decision : Decisions]
    /\ r.at = "validate" => r \in Validating(P)
    /\ r.at = "confirmProposal" => r \in Confirming(P)
    /\ r.at = "writeProposal" => r \in Overwriting(I, P)
    /\ r.at = "registerItems" => r \in Registering(I, P)
    /\ r.at = "populate" => r \in [at : {"populate"}, proposal : P, left : SUBSET Items]
    /\ r.at = "writeItem" =>
         r \in [at : {"writeItem"}, proposal : P, item : Items, adding : BOOLEAN]
    /\ r.at \in {"submitItems", "confirmItems"} =>
         r \in [at : {"submitItems", "confirmItems"}, proposal : P, row : ProposalOver(I)]
    /\ r.at = "capacity" =>
         r \in [at : {"capacity"}, proposal : P, items : SUBSET Items, valid : BOOLEAN]
    /\ r.at = "verdict" =>
         r \in [at : {"verdict"}, proposal : P, verdict : {"returned", "waitlisted", "validated"}]
<1>1. \/ r \in {Done} \cup AwardRequest \cup EnrolmentRequest
      \/ r \in Creating(I, P) \cup Changing(R) \cup BindingRequest
      \/ r \in WorkflowRequest(I, P) \cup SelectionRequest(I, P)
      \/ r \in Call
  BY DEF Request
<1>2. CASE r \in {Done} \cup AwardRequest \cup EnrolmentRequest
  BY <1>2 DEF Done, AwardRequest, EnrolmentRequest, Announcing
<1>3. CASE r \in Creating(I, P) \cup Changing(R) \cup BindingRequest
  BY <1>3 DEF Creating, Changing, BindingRequest, InsertingProposal
<1>4. CASE r \in WorkflowRequest(I, P)
  BY <1>4 DEF WorkflowRequest
<1>5. CASE r \in SelectionRequest(I, P)
  BY <1>5 DEF SelectionRequest, Validating, Confirming, Overwriting, Registering
<1>6. CASE r \in Call
  <2>1. CASE r \in [at : {"transitionStatus"}, enrolment : Enrolments, to : Statuses, then : {Done}]
    BY <2>1 DEF EnrolmentRequest
  <2>2. CASE r \in [at : {"createRegistration"}, check : {1}, enrolment : Enrolments,
                   offering : Offerings, skip : {FALSE}, by : {Staff}, then : {Done}]
    <3>1. PICK e \in Enrolments, o \in Offerings :
            r = [at |-> "createRegistration", check |-> 1, enrolment |-> e, offering |-> o,
                 skip |-> FALSE, by |-> Staff, then |-> Done]
      BY <2>2
    <3>2. 1 \in 1..6 /\ Staff \in Origins
      BY DEF Origins
    <3>3. r \in Creating(I, P)
      BY <3>1, <3>2 DEF Creating
    <3>4. r.at = "createRegistration"
      BY <3>1
    <3> QED  BY <3>3, <3>4
  <2>3. CASE r \in [at : {"transitionRegistration"}, registration : Rows,
                   to : {"withdrawn", "completed"}, by : {Staff}]
    BY <2>3 DEF Changing, Origins
  <2>4. CASE r \in [at : {"decideProposal"}, proposal : Proposals,
                   decision : {"approved", "rejected", "returned"}]
    BY <2>4 DEF Decisions
  <2> QED  BY <1>6, <2>1, <2>2, <2>3, <2>4 DEF Call
<1> QED  BY <1>1, <1>2, <1>3, <1>4, <1>5, <1>6

\* What exists stays, and so what a request is about remains what it was.
LEMMA PartsGrow ==
  ASSUME NEW I, NEW P, NEW R, NEW I2, NEW P2, NEW R2,
         I \subseteq I2, P \subseteq P2, R \subseteq R2
  PROVE  /\ ProposalOver(I) \subseteq ProposalOver(I2)
         /\ Overwriting(I, P) \subseteq Overwriting(I2, P2)
         /\ Registering(I, P) \subseteq Registering(I2, P2)
         /\ Creating(I, P) \subseteq Creating(I2, P2)
         /\ Changing(R) \subseteq Changing(R2)
         /\ WorkflowRequest(I, P) \subseteq WorkflowRequest(I2, P2)
         /\ SelectionRequest(I, P) \subseteq SelectionRequest(I2, P2)
<1>1. ProposalOver(I) \subseteq ProposalOver(I2)
  BY DEF ProposalOver
<1>2. Validating(P) \subseteq Validating(P2) /\ Confirming(P) \subseteq Confirming(P2)
  BY DEF Validating, Confirming
<1>3. Overwriting(I, P) \subseteq Overwriting(I2, P2)
  BY <1>1, <1>2 DEF Overwriting
<1>4. Registering(I, P) \subseteq Registering(I2, P2)
  BY <1>1 DEF Registering
<1>5. Creating(I, P) \subseteq Creating(I2, P2)
  BY <1>4 DEF Creating
<1>6. Changing(R) \subseteq Changing(R2)
  BY DEF Changing
<1>7. WorkflowRequest(I, P) \subseteq WorkflowRequest(I2, P2)
  BY <1>3 DEF WorkflowRequest
<1>8. SelectionRequest(I, P) \subseteq SelectionRequest(I2, P2)
  BY <1>1, <1>2, <1>3, <1>4 DEF SelectionRequest
<1> QED  BY <1>1, <1>3, <1>4, <1>5, <1>6, <1>7, <1>8

LEMMA ApprovedTyped ==
  ASSUME NEW I, NEW P, NEW R
  PROVE  Approved \subseteq Creating(I, P) \cup Changing(R)
<1>1. ASSUME NEW r \in [at : {"createRegistration"}, check : {1}, enrolment : Enrolments,
                      offering : Offerings, skip : {FALSE},
                      by : [kind : {"request"}, instance : Instances], then : {Done}]
      PROVE  r \in Creating(I, P)
  <2>1. PICK e \in Enrolments, o \in Offerings, by \in [kind : {"request"}, instance : Instances] :
          r = [at |-> "createRegistration", check |-> 1, enrolment |-> e, offering |-> o,
               skip |-> FALSE, by |-> by, then |-> Done]
    BY <1>1
  <2>2. 1 \in 1..6 /\ by \in Origins
    BY DEF Origins, ChangeRequest
  <2> QED  BY <2>1, <2>2 DEF Creating
<1>2. ASSUME NEW r \in [at : {"transitionRegistration"}, registration : Rows, to : {"withdrawn"},
                      by : [kind : {"request"}, instance : Instances]]
      PROVE  r \in Changing(R)
  BY <1>2 DEF Changing, Origins, ChangeRequest
<1> QED  BY <1>1, <1>2 DEF Approved

LEMMA RequestGrows ==
  ASSUME NEW I, NEW P, NEW R, NEW I2, NEW P2, NEW R2, NEW r \in Request(I, P, R),
         I \subseteq I2, P \subseteq P2, R \subseteq R2
  PROVE  r \in Request(I2, P2, R2)
<1>1. /\ Creating(I, P) \subseteq Creating(I2, P2)
      /\ Changing(R) \subseteq Changing(R2)
      /\ WorkflowRequest(I, P) \subseteq WorkflowRequest(I2, P2)
      /\ SelectionRequest(I, P) \subseteq SelectionRequest(I2, P2)
  BY PartsGrow
<1> QED  BY <1>1 DEF Request

LEMMA UnusedChosen ==
  ASSUME NEW D, NEW V, NEW t \in [D -> V], Unused(t) # {}
  PROVE  /\ (CHOOSE x \in Unused(t) : TRUE) \in D
         /\ t[CHOOSE x \in Unused(t) : TRUE] = Absent
BY DEF Unused

-------------------------------------------------------------------------------
(* The type invariant.                                                      *)

\* Of a step, all that the types of the requests depend on.
GoesTo(q, r) ==
  /\ req' = [req EXCEPT ![q] = r]
  /\ DOMAIN overlapped' = Requests

LEMMA StepGoesTo ==
  ASSUME TypeInv, NEW q \in Requests, NEW r, NEW W, Reads(q, r) \/ Writes(q, W, r)
  PROVE  GoesTo(q, r)
<1>1. CASE Reads(q, r)
  BY <1>1 DEF Reads, GoesTo, TypeInv
<1>2. CASE Writes(q, W, r)
  BY <1>2 DEF Writes, GoesTo, TypeInv
<1> QED  BY <1>1, <1>2

LEMMA GoesToTyped ==
  ASSUME TypeInv, NEW q \in Requests, NEW r \in KnownRequest', GoesTo(q, r),
         Present(instances) \subseteq Present(instances)',
         Present(proposals) \subseteq Present(proposals)',
         Present(registrations) \subseteq Present(registrations)'
  PROVE  req' \in [Requests -> KnownRequest'] /\ DOMAIN overlapped' = Requests
<1>1. ASSUME NEW p \in Requests PROVE req[p] \in KnownRequest'
  <2>1. req[p] \in Request(Present(instances), Present(proposals), Present(registrations))
    BY DEF TypeInv, KnownRequest
  <2> QED  BY <2>1, RequestGrows DEF KnownRequest
<1> QED  BY <1>1 DEF GoesTo, TypeInv

\* The type invariant after a step that only reads.
LEMMA ReadTyped ==
  ASSUME TypeInv, NEW q \in Requests, NEW r \in KnownRequest, Reads(q, r),
         UNCHANGED <<enrolmentVars, instances, registrationVars, selectionVars, awardVars>>
  PROVE  TypeInv'
<1> USE DEF enrolmentVars, registrationVars, selectionVars, awardVars
<1>1. KnownRequest' = KnownRequest
  BY DEF KnownRequest, Present
<1>2. GoesTo(q, r)
  BY StepGoesTo
<1>3. req' \in [Requests -> KnownRequest'] /\ DOMAIN overlapped' = Requests
  BY <1>2 DEF GoesTo, TypeInv, KnownRequest, Present
<1>4. TypeOK'
  BY DEF TypeInv, TypeOK
<1>5. proposals' \in [Proposals -> ProposalOver(Present(instances)') \cup {Absent}]
  BY DEF TypeInv, Present
<1> QED  BY <1>3, <1>4, <1>5 DEF TypeInv

LEMMA DoneTyped == Done \in KnownRequest
BY DEF KnownRequest, Request

\* AllowedFrom allows something from a status only.
LEMMA AllowedTyped ==
  ASSUME NEW from, NEW to, to \in AllowedFrom(from)
  PROVE  from \in Statuses /\ to \in Statuses
BY DEF AllowedFrom, Statuses

LEMMA DerivedTyped ==
  ASSUME NEW s
  PROVE  DerivedStatus(s) \in PersonStatuses
BY DEF DerivedStatus, PersonStatuses

LEMMA EnrolmentTyped ==
  ASSUME TypeInv, NEW q \in Requests, EnrolmentStep(q),
         UNCHANGED <<instances, registrationVars, selectionVars, awardVars>>
  PROVE  TypeInv'
<1> USE RequestShape DEF KnownRequest
<1>q. req[q] \in KnownRequest
  BY DEF TypeInv
<1>1. CASE ReadTransition(q)
  <2>1. req[q] \in EnrolmentRequest /\ req[q].at = "transitionStatus"
    BY <1>q, <1>1 DEF ReadTransition
  <2>2. CASE req[q].to \in AllowedFrom(enrolments[req[q].enrolment])
    <3> DEFINE r == [at |-> "writeTransition", enrolment |-> req[q].enrolment,
                     from |-> enrolments[req[q].enrolment], to |-> req[q].to, then |-> req[q].then]
    <3>1. r \in KnownRequest
      BY <2>1, <2>2, AllowedTyped DEF EnrolmentRequest, Request
    <3>2. Reads(q, r) /\ UNCHANGED enrolmentVars
      BY <1>1, <2>2 DEF ReadTransition
    <3> HIDE DEF r
    <3> QED  BY <3>1, <3>2, ReadTyped
  <2>3. CASE req[q].to \notin AllowedFrom(enrolments[req[q].enrolment])
    <3>1. Reads(q, Done) /\ UNCHANGED enrolmentVars
      BY <1>1, <2>3 DEF ReadTransition
    <3> QED  BY <3>1, DoneTyped, ReadTyped
  <2> QED  BY <2>2, <2>3
<1>2. CASE WriteTransition(q)
  <2>1. req[q] \in EnrolmentRequest /\ req[q].at = "writeTransition"
    BY <1>q, <1>2 DEF WriteTransition
  <2>2. CASE ~EnrolmentLocked(req[q].enrolment)
    <3> DEFINE u == PersonUpdate(PersonOf[req[q].enrolment],
                                 [enrolments EXCEPT ![req[q].enrolment] = req[q].to])
               r == [at |-> "commitEnrolment", enrolment |-> req[q].enrolment,
                     from |-> req[q].from, to |-> req[q].to, person |-> u, then |-> req[q].then]
    <3>1. u \in PersonStatuses \cup {Absent}
      BY DerivedTyped DEF PersonUpdate
    <3>2. Reads(q, r) /\ UNCHANGED enrolmentVars
      BY <1>2, <2>2 DEF WriteTransition
    <3> HIDE DEF u
    <3>3. r \in KnownRequest
      BY <2>1, <3>1 DEF EnrolmentRequest, Request
    <3> HIDE DEF r
    <3> QED  BY <3>2, <3>3, ReadTyped
  <2>3. CASE EnrolmentLocked(req[q].enrolment)
    <3>1. Reads(q, Done) /\ UNCHANGED enrolmentVars
      BY <1>2, <2>3 DEF WriteTransition
    <3> QED  BY <3>1, DoneTyped, ReadTyped
  <2> QED  BY <2>2, <2>3
<1>3. CASE WriteEnrolment(q)
  <2>1. PICK e \in Enrolments :
          Reads(q, [at |-> "commitEnrolment", enrolment |-> e, from |-> Absent, to |-> "enrolled",
                    person |-> PersonUpdate(PersonOf[e], [enrolments EXCEPT ![e] = "enrolled"]),
                    then |-> Done])
    BY <1>3 DEF WriteEnrolment
  <2> DEFINE u == PersonUpdate(PersonOf[e], [enrolments EXCEPT ![e] = "enrolled"])
             r == [at |-> "commitEnrolment", enrolment |-> e, from |-> Absent, to |-> "enrolled",
                   person |-> u, then |-> Done]
  <2>2. u \in PersonStatuses \cup {Absent}
    BY DerivedTyped DEF PersonUpdate
  <2>3. Reads(q, r) /\ UNCHANGED enrolmentVars
    BY <1>3, <2>1 DEF WriteEnrolment
  <2> HIDE DEF u
  <2>4. r \in KnownRequest
    BY <2>2 DEF EnrolmentRequest, Request, Statuses
  <2> HIDE DEF r
  <2> QED  BY <2>3, <2>4, ReadTyped
<1>4. CASE CommitEnrolment(q)
  <2>1. req[q] \in EnrolmentRequest /\ req[q].at = "commitEnrolment"
    BY <1>q, <1>4 DEF CommitEnrolment
  <2>2. /\ req[q].enrolment \in Enrolments /\ req[q].to \in Statuses
        /\ req[q].from \in Statuses \cup {Absent} /\ req[q].person \in PersonStatuses \cup {Absent}
        /\ req[q].then \in Announcing \cup {Done}
    BY <2>1 DEF EnrolmentRequest
  <2>3. req[q].then \in KnownRequest'
    BY <2>2 DEF Request, AwardRequest
  <2>4. GoesTo(q, req[q].then)
    BY <1>4, StepGoesTo DEF CommitEnrolment
  <2>5. req' \in [Requests -> KnownRequest'] /\ DOMAIN overlapped' = Requests
    BY <2>3, <2>4, GoesToTyped DEF registrationVars, selectionVars, Present
  <2>6. enrolments' \in [Enrolments -> Statuses \cup {Absent}]
    BY <1>4, <2>2 DEF CommitEnrolment, TypeInv, TypeOK
  <2>7. ledger' \in [Enrolments -> Seq([from : Statuses, to : Statuses])]
    <3> DEFINE Entry == [from : Statuses, to : Statuses]
    <3>1. ledger \in [Enrolments -> Seq(Entry)]
      BY DEF TypeInv, TypeOK
    <3>2. req[q].from # Absent => LedgerEntry(req[q]) \in Entry
      BY <2>2 DEF LedgerEntry
    <3> HIDE DEF Entry
    <3>3. CASE req[q].from # Absent
      <4>1. Append(ledger[req[q].enrolment], LedgerEntry(req[q])) \in Seq(Entry)
        BY <2>2, <3>1, <3>2, <3>3
      <4>2. ledger' = [ledger EXCEPT ![req[q].enrolment] =
                         Append(ledger[req[q].enrolment], LedgerEntry(req[q]))]
        BY <1>4, <3>3 DEF CommitEnrolment
      <4> QED  BY <2>2, <3>1, <4>1, <4>2 DEF Entry
    <3>4. CASE req[q].from = Absent
      BY <1>4, <3>1, <3>4 DEF CommitEnrolment, Entry
    <3> QED  BY <3>3, <3>4
  <2>8. personStatus' \in [Persons -> PersonStatuses]
    BY <1>4, <2>2 DEF CommitEnrolment, TypeInv, TypeOK
  <2>9. TypeOK'
    BY <2>6, <2>7, <2>8 DEF TypeInv, TypeOK, registrationVars, selectionVars, awardVars
  <2>10. proposals' \in [Proposals -> ProposalOver(Present(instances)') \cup {Absent}]
    BY DEF TypeInv, Present, selectionVars
  <2> QED  BY <2>5, <2>9, <2>10 DEF TypeInv
<1> QED  BY <1>1, <1>2, <1>3, <1>4 DEF EnrolmentStep

\* The type invariant after a step that writes one workflow instance.
LEMMA InstanceWritten ==
  ASSUME TypeInv, NEW q \in Requests, NEW i \in Instances, NEW v \in Instance(Contexts),
         NEW r \in Request(Present(instances) \cup {i}, Present(proposals), Present(registrations)),
         instances' = [instances EXCEPT ![i] = v], GoesTo(q, r),
         UNCHANGED <<enrolmentVars, registrationVars, selectionVars, awardVars>>
  PROVE  TypeInv'
<1> USE DEF enrolmentVars, registrationVars, selectionVars, awardVars
<1>1. /\ instances' \in [Instances -> Instance(Contexts) \cup {Absent}]
      /\ Present(instances') = Present(instances) \cup {i}
  <2> DEFINE V == Instance(Contexts)
  <2>1. instances \in [Instances -> V \cup {Absent}] /\ Absent \notin V /\ v \in V
    BY AbsentAssumption DEF TypeInv, TypeOK
  <2> HIDE DEF V
  <2>2. /\ [instances EXCEPT ![i] = v] \in [Instances -> V \cup {Absent}]
        /\ Present([instances EXCEPT ![i] = v]) = Present(instances) \cup {i}
    BY <2>1 DEF Present
  <2> QED  BY <2>2 DEF V
<1>2. Present(instances)' = Present(instances')
  BY DEF Present
<1>3. r \in KnownRequest'
  BY <1>1, <1>2 DEF KnownRequest, Present
<1>4. req' \in [Requests -> KnownRequest'] /\ DOMAIN overlapped' = Requests
  BY <1>1, <1>2, <1>3, GoesToTyped DEF Present
<1>5. proposals' \in [Proposals -> ProposalOver(Present(instances)') \cup {Absent}]
  BY <1>1, <1>2, PartsGrow DEF TypeInv
<1>6. TypeOK'
  BY <1>1 DEF TypeInv, TypeOK
<1> QED  BY <1>4, <1>5, <1>6 DEF TypeInv

LEMMA WorkflowTyped ==
  ASSUME TypeInv, NEW q \in Requests, WorkflowStep(q),
         UNCHANGED <<enrolmentVars, registrationVars, selectionVars, awardVars>>
  PROVE  TypeInv'
<1> DEFINE I == Present(instances)
           P == Present(proposals)
           R == Present(registrations)
           i == req[q].instance
<1>q. req[q] \in Request(I, P, R)
  BY DEF TypeInv, KnownRequest
<1>t. /\ instances \in [Instances -> Instance(Contexts) \cup {Absent}]
      /\ I \subseteq Instances
      /\ \A x \in I : instances[x] \in Instance(Contexts)
  BY DEF TypeInv, TypeOK, Present
<1> HIDE DEF I, P, R
<1>1. CASE StartInstance(q)
  <2> DEFINE x == CHOOSE j \in Unused(instances) : TRUE
             v == [context |-> req[q].context, status |-> "running", task |-> "none", decisions |-> {}]
             r == [at |-> "assignTask", instance |-> x, then |-> req[q].then]
  <2>1. req[q].context \in Contexts /\ req[q].then \in Overwriting(I, P) \cup {Done}
    BY <1>q, <1>1, RequestShape DEF StartInstance
  <2>2. x \in Instances
    BY <1>1, <1>t, UnusedChosen DEF StartInstance
  <2>3. v \in Instance(Contexts)
    BY <2>1 DEF Instance
  <2>4. instances' = [instances EXCEPT ![x] = v]
    BY <1>1 DEF StartInstance
  <2>5. GoesTo(q, r)
    BY <1>1, StepGoesTo DEF StartInstance
  <2> HIDE DEF x, v
  <2>6. r \in Request(I \cup {x}, P, R)
    <3>1. I \subseteq I \cup {x} /\ P \subseteq P /\ R \subseteq R
      OBVIOUS
    <3>2. Overwriting(I, P) \subseteq Overwriting(I \cup {x}, P)
      BY <3>1, PartsGrow
    <3>3. req[q].then \in Overwriting(I \cup {x}, P) \cup {Done}
      BY <2>1, <3>2
    <3> QED  BY <3>3 DEF Request, WorkflowRequest
  <2> HIDE DEF r
  <2> QED  BY <2>2, <2>3, <2>4, <2>5, <2>6, InstanceWritten DEF I, P, R
<1>2. CASE AssignTask(q)
  <2> DEFINE next == IF req[q].then = Done THEN Done ELSE [req[q].then EXCEPT !.instance = i]
             v == [instances[i] EXCEPT !.task = "assigned"]
  <2>1. i \in I /\ req[q].then \in Overwriting(I, P) \cup {Done}
    BY <1>q, <1>2, RequestShape DEF AssignTask
  <2>2. v \in Instance(Contexts)
    BY <1>t, <2>1 DEF Instance
  <2>3. instances' = [instances EXCEPT ![i] = v]
    BY <1>2 DEF AssignTask
  <2>4. GoesTo(q, next)
    BY <1>2, StepGoesTo DEF AssignTask
  <2>5. next \in Request(I \cup {i}, P, R)
    <3>1. I \cup {i} = I
      BY <2>1
    <3>2. CASE req[q].then # Done
      <4>1. next \in Overwriting(I, P)
        BY <2>1, <3>2 DEF Overwriting
      <4> QED  BY <3>1, <4>1 DEF Request, SelectionRequest
    <3>3. CASE req[q].then = Done
      BY <3>3 DEF Request
    <3> QED  BY <3>2, <3>3
  <2> HIDE DEF next, v
  <2> QED  BY <1>t, <2>1, <2>2, <2>3, <2>4, <2>5, InstanceWritten DEF I, P, R
<1>3. CASE RecordDecision(q) \/ CompleteTask(q) \/ CompleteInstance(q)
  <2> DEFINE S == [at : {"recordDecision", "completeTask", "completeInstance"}, instance : I,
                   decision : Decisions, task : Tasks,
                   then : Overwriting(I, P) \cup Approved \cup {Done}]
  <2>1. req[q] \in S
    BY <1>q, <1>3, RequestShape DEF RecordDecision, CompleteTask, CompleteInstance
  <2>2. i \in I /\ i \in Instances /\ I \cup {i} = I /\ instances[i] \in Instance(Contexts)
    BY <1>t, <2>1
  <2>3. \A a \in {"completeTask", "completeInstance"} :
          [req[q] EXCEPT !.at = a] \in Request(I \cup {i}, P, R)
    BY <2>1, <2>2 DEF Request, WorkflowRequest
  <2>4. req[q].then \in Request(I \cup {i}, P, R)
    BY <2>1, <2>2, ApprovedTyped DEF Request, SelectionRequest
  <2>5. CASE RecordDecision(q)
    <3> DEFINE v == [instances[i] EXCEPT !.decisions = @ \cup {req[q].decision}]
               r == [req[q] EXCEPT !.at = "completeTask"]
    <3>1. v \in Instance(Contexts)
      BY <2>1, <2>2 DEF Instance, Decisions
    <3>2. instances' = [instances EXCEPT ![i] = v] /\ Writes(q, {i}, r)
      BY <2>5 DEF RecordDecision
    <3>3. GoesTo(q, r) /\ r \in Request(I \cup {i}, P, R)
      BY <2>3, <3>2, StepGoesTo
    <3> HIDE DEF v, r
    <3> QED  BY <2>2, <3>1, <3>2, <3>3, InstanceWritten DEF I, P, R
  <2>6. CASE CompleteTask(q)
    <3> DEFINE v == [instances[i] EXCEPT !.task = "completed"]
               r == [req[q] EXCEPT !.at = "completeInstance"]
    <3>1. v \in Instance(Contexts)
      BY <2>2 DEF Instance
    <3>2. r \in Request(I \cup {i}, P, R)
      BY <2>3
    <3> HIDE DEF v, r
    <3>3. CASE req[q].task = "none"
      <4>1. Reads(q, r) /\ UNCHANGED instances
        BY <2>6, <3>3 DEF CompleteTask, r
      <4>2. r \in KnownRequest
        BY <2>2, <3>2 DEF KnownRequest, I, P, R
      <4> QED  BY <4>1, <4>2, ReadTyped
    <3>4. CASE req[q].task # "none"
      <4>1. instances' = [instances EXCEPT ![i] = v] /\ Writes(q, {i}, r)
        BY <2>6, <3>4 DEF CompleteTask, v, r
      <4>2. GoesTo(q, r)
        BY <4>1, StepGoesTo
      <4> QED  BY <2>2, <3>1, <3>2, <4>1, <4>2, InstanceWritten DEF I, P, R
    <3> QED  BY <3>3, <3>4
  <2>7. CASE CompleteInstance(q)
    <3> DEFINE v == [instances[i] EXCEPT !.status = "completed"]
    <3>1. v \in Instance(Contexts)
      BY <2>2 DEF Instance
    <3>2. instances' = [instances EXCEPT ![i] = v] /\ Writes(q, {i}, req[q].then)
      BY <2>7 DEF CompleteInstance
    <3>3. GoesTo(q, req[q].then)
      BY <3>2, StepGoesTo
    <3> HIDE DEF v
    <3> QED  BY <2>2, <2>4, <3>1, <3>2, <3>3, InstanceWritten DEF I, P, R
  <2> QED  BY <1>3, <2>5, <2>6, <2>7
<1> QED  BY <1>1, <1>2, <1>3 DEF WorkflowStep

\* The type invariant after a step that writes one registration.
LEMMA RegistrationWritten ==
  ASSUME TypeInv, NEW q \in Requests, NEW x \in Rows, NEW v \in Registration(Origins),
         NEW r \in KnownRequest,
         registrations' = [registrations EXCEPT ![x] = v], GoesTo(q, r),
         UNCHANGED <<enrolmentVars, instances, windows, selectionVars, awardVars>>
  PROVE  TypeInv'
<1> USE DEF enrolmentVars, selectionVars, awardVars
<1>1. /\ registrations' \in [Rows -> Registration(Origins) \cup {Absent}]
      /\ Present(registrations) \subseteq Present(registrations')
  <2> DEFINE V == Registration(Origins)
  <2>1. registrations \in [Rows -> V \cup {Absent}] /\ Absent \notin V /\ v \in V
    BY AbsentAssumption DEF TypeInv, TypeOK
  <2> HIDE DEF V
  <2>2. /\ [registrations EXCEPT ![x] = v] \in [Rows -> V \cup {Absent}]
        /\ Present(registrations) \subseteq Present([registrations EXCEPT ![x] = v])
    BY <2>1 DEF Present
  <2> QED  BY <2>2 DEF V
<1>2. Present(registrations)' = Present(registrations')
  BY DEF Present
<1>3. r \in KnownRequest'
  BY <1>1, <1>2, RequestGrows DEF KnownRequest, Present
<1>4. req' \in [Requests -> KnownRequest'] /\ DOMAIN overlapped' = Requests
  BY <1>1, <1>2, <1>3, GoesToTyped DEF Present
<1>5. proposals' \in [Proposals -> ProposalOver(Present(instances)') \cup {Absent}]
  BY DEF TypeInv, Present
<1>6. TypeOK'
  BY <1>1 DEF TypeInv, TypeOK
<1> QED  BY <1>4, <1>5, <1>6 DEF TypeInv

LEMMA RegistrationTyped ==
  ASSUME TypeInv, NEW q \in Requests, RegistrationStep(q),
         UNCHANGED <<enrolmentVars, instances, selectionVars, awardVars>>
  PROVE  TypeInv'
<1> DEFINE I == Present(instances)
           P == Present(proposals)
           R == Present(registrations)
<1>q. req[q] \in Request(I, P, R)
  BY DEF TypeInv, KnownRequest
<1>d. Done \in Request(I, P, R)
  BY DEF Request
<1>r. ASSUME NEW r \in Request(I, P, R), Reads(q, r), UNCHANGED registrationVars
      PROVE  TypeInv'
  BY <1>r, ReadTyped DEF KnownRequest
<1>t. /\ registrations \in [Rows -> Registration(Origins) \cup {Absent}]
      /\ R = { x \in Rows : registrations[x] # Absent }
      /\ \A x \in R : registrations[x] \in Registration(Origins)
      /\ I = { i \in Instances : instances[i] # Absent }
      /\ \A i \in I : instances[i] \in Instance(Contexts)
  BY DEF TypeInv, TypeOK, Present
<1> HIDE DEF I, P, R
<1>1. CASE CheckRegistration(q)
  <2>1. req[q] \in Creating(I, P) /\ req[q].at = "createRegistration"
    BY <1>q, <1>1, RequestShape DEF CheckRegistration
  <2>2. [req[q] EXCEPT !.at = "insertRegistration"] \in Creating(I, P)
    BY <2>1 DEF Creating
  <2>3. req[q].check # Len(Checks) => [req[q] EXCEPT !.check = @ + 1] \in Creating(I, P)
    <3>1. Len(Checks) = 6
      BY DEF Checks
    <3>2. req[q].check \in 1..6
      BY <2>1 DEF Creating
    <3>3. req[q].check # 6 => req[q].check + 1 \in 1..6
      BY <3>2
    <3> QED  BY <2>1, <3>1, <3>3 DEF Creating
  <2>4. PICK r \in Creating(I, P) \cup {Done} : Reads(q, r) /\ UNCHANGED registrationVars
    BY <1>1, <2>2, <2>3 DEF CheckRegistration
  <2> QED  BY <1>r, <2>4 DEF Request
<1>2. CASE InsertRegistration(q)
  <2> DEFINE x == CHOOSE y \in Unused(registrations) : TRUE
             v == [enrolment |-> req[q].enrolment, offering |-> req[q].offering,
                   status |-> "registered", by |-> req[q].by]
  <2>1. req[q] \in Creating(I, P)
    BY <1>q, <1>2, RequestShape DEF InsertRegistration
  <2>2. x \in Rows
    BY <1>2, <1>t, UnusedChosen DEF InsertRegistration
  <2>3. v \in Registration(Origins)
    BY <2>1 DEF Registration, Creating
  <2>4. req[q].then \in KnownRequest
    BY <2>1 DEF Creating, Request, SelectionRequest, KnownRequest, I, P
  <2>5. registrations' = [registrations EXCEPT ![x] = v] /\ UNCHANGED windows
    BY <1>2 DEF InsertRegistration
  <2>6. GoesTo(q, req[q].then)
    BY <1>2, StepGoesTo DEF InsertRegistration
  <2> HIDE DEF x, v
  <2> QED  BY <2>2, <2>3, <2>4, <2>5, <2>6, RegistrationWritten
<1>3. CASE ReadRegistration(q)
  <2>1. req[q] \in Changing(R) /\ req[q].at = "transitionRegistration"
    BY <1>q, <1>3, RequestShape DEF ReadRegistration
  <2>2. MayChange(req[q].registration) =>
          [req[q] EXCEPT !.at = "writeRegistration"] \in Changing(R)
    BY <1>t, <2>1 DEF Changing, MayChange
  <2>3. PICK r \in Changing(R) \cup {Done} : Reads(q, r) /\ UNCHANGED registrationVars
    BY <1>3, <2>2 DEF ReadRegistration
  <2> QED  BY <1>r, <2>3 DEF Request
<1>4. CASE WriteRegistration(q)
  <2> DEFINE x == req[q].registration
             v == [registrations[x] EXCEPT !.status = req[q].to]
  <2>1. x \in R /\ req[q].to \in {"withdrawn", "completed"}
    BY <1>q, <1>4, RequestShape DEF WriteRegistration, Changing
  <2>2. v \in Registration(Origins)
    BY <1>t, <2>1 DEF Registration
  <2>3. registrations' = [registrations EXCEPT ![x] = v] /\ UNCHANGED windows
    BY <1>4 DEF WriteRegistration
  <2>4. GoesTo(q, Done)
    BY <1>4, StepGoesTo DEF WriteRegistration
  <2> HIDE DEF v
  <2> QED  BY <1>t, <2>1, <2>2, <2>3, <2>4, DoneTyped, RegistrationWritten
<1>5. CASE RequestChange(q)
  <2>1. req[q].context \in Contexts
    BY <1>q, <1>5, RequestShape DEF RequestChange, Contexts
  <2>2. [at |-> "startInstance", context |-> req[q].context, then |-> Done] \in Request(I, P, R)
    BY <2>1 DEF Request, WorkflowRequest
  <2>3. \/ Reads(q, Done) /\ UNCHANGED registrationVars
        \/ /\ Reads(q, [at |-> "startInstance", context |-> req[q].context, then |-> Done])
           /\ UNCHANGED registrationVars
    BY <1>5 DEF RequestChange
  <2> QED  BY <1>d, <1>r, <2>2, <2>3
<1>6. CASE DecideChange(q)
  <2> DEFINE i == req[q].instance
             d == req[q].decision
  <2>1. i \in Instances /\ d \in {"approved", "rejected"}
    BY <1>q, <1>6, RequestShape DEF DecideChange
  <2>2. CASE IsChangeRequest(i) /\ Running(i)
    <3>1. i \in I /\ instances[i] \in Instance(Contexts)
      BY <1>t, <2>1, <2>2 DEF Running, Exists
    <3>2. instances[i].context \in Changes
      BY <2>2, <3>1 DEF IsChangeRequest, Instance, Contexts
    <3>3. AfterDecision(i, d) \in Approved \cup {Done}
      <4>1. ChangeRequest(i) \in [kind : {"request"}, instance : Instances]
        BY <2>1 DEF ChangeRequest
      <4>2. CASE d # "approved"
        BY <4>2 DEF AfterDecision
      <4>3. CASE d = "approved" /\ instances[i].context.action = "register"
        <5>1. instances[i].context \in
                [action : {"register"}, enrolment : Enrolments, offering : Offerings]
          BY <3>2, <4>3 DEF Changes
        <5>2. AfterDecision(i, d) =
                NewRegistration(instances[i].context.enrolment, instances[i].context.offering,
                                FALSE, ChangeRequest(i), Done)
          BY <4>3 DEF AfterDecision
        <5> QED  BY <4>1, <5>1, <5>2 DEF NewRegistration, Approved
      <4>4. CASE d = "approved" /\ instances[i].context.action # "register"
        <5>1. instances[i].context \in [action : {"withdraw"}, registration : Rows]
          BY <3>2, <4>4 DEF Changes
        <5>2. AfterDecision(i, d) =
                Transition(instances[i].context.registration, "withdrawn", ChangeRequest(i))
          BY <4>4 DEF AfterDecision
        <5>3. AfterDecision(i, d) \in [at : {"transitionRegistration"}, registration : Rows,
                to : {"withdrawn"}, by : [kind : {"request"}, instance : Instances]]
          BY <4>1, <5>1, <5>2 DEF Transition
        <5> QED  BY <5>3 DEF Approved
      <4> QED  BY <4>2, <4>3, <4>4
    <3> DEFINE next == AfterDecision(i, d)
               r == [at |-> "findTask", instance |-> i, decision |-> d, then |-> next]
    <3>4. r \in Request(I, P, R)
      <4> HIDE DEF next
      <4> QED  BY <2>1, <3>1, <3>3 DEF Request, WorkflowRequest, next
    <3>5. Reads(q, r) /\ UNCHANGED registrationVars
      BY <1>6, <2>2 DEF DecideChange
    <3> HIDE DEF r
    <3> QED  BY <1>r, <3>4, <3>5
  <2>3. CASE ~(IsChangeRequest(i) /\ Running(i))
    <3>1. Reads(q, Done) /\ UNCHANGED registrationVars
      BY <1>6, <2>3 DEF DecideChange
    <3> QED  BY <1>d, <1>r, <3>1
  <2> QED  BY <2>2, <2>3
<1>7. CASE FindTask(q)
  <2> DEFINE i == req[q].instance
             r == Closing(i, req[q].decision, req[q].then)
  <2>1. /\ i \in I /\ req[q].decision \in Decisions
        /\ req[q].then \in Approved \cup {Done}
    BY <1>q, <1>7, RequestShape DEF FindTask, Decisions
  <2>2. instances[i].task \in Tasks
    BY <1>t, <2>1 DEF Instance, Tasks
  <2>3. r \in Request(I, P, R)
    BY <2>1, <2>2 DEF Closing, Request, WorkflowRequest
  <2>4. Reads(q, r) /\ UNCHANGED registrationVars
    BY <1>7 DEF FindTask
  <2> HIDE DEF r
  <2> QED  BY <1>r, <2>3, <2>4
<1>8. CASE SetWindow(q)
  <2>1. req[q].period \in Periods /\ req[q].phase \in Phases
    BY <1>q, <1>8, RequestShape DEF SetWindow
  <2>2. GoesTo(q, Done)
    BY <1>8, StepGoesTo DEF SetWindow
  <2>3. windows' \in [Periods -> Phases \cup {"unrestricted", "none"}] /\ UNCHANGED registrations
    BY <1>8, <2>1 DEF SetWindow, TypeInv, TypeOK
  <2>4. TypeOK'
    BY <2>3 DEF TypeInv, TypeOK, enrolmentVars, selectionVars, awardVars
  <2>5. req' \in [Requests -> KnownRequest'] /\ DOMAIN overlapped' = Requests
    BY <2>2, <2>3, DoneTyped DEF GoesTo, TypeInv, KnownRequest, Present, selectionVars
  <2>6. proposals' \in [Proposals -> ProposalOver(Present(instances)') \cup {Absent}]
    BY DEF TypeInv, Present, selectionVars
  <2> QED  BY <2>4, <2>5, <2>6 DEF TypeInv
<1> QED  BY <1>1, <1>2, <1>3, <1>4, <1>5, <1>6, <1>7, <1>8 DEF RegistrationStep

\* The type invariant after a step that writes one proposal.
LEMMA ProposalWritten ==
  ASSUME TypeInv, NEW q \in Requests, NEW x \in Proposals,
         NEW v \in ProposalOver(Present(instances)),
         NEW r \in Request(Present(instances), Present(proposals) \cup {x}, Present(registrations)),
         proposals' = [proposals EXCEPT ![x] = v], GoesTo(q, r),
         UNCHANGED <<enrolmentVars, instances, registrationVars, items, bindings, awardVars>>
  PROVE  TypeInv'
<1> USE DEF enrolmentVars, registrationVars, awardVars
<1>1. /\ proposals' \in [Proposals -> ProposalOver(Present(instances)) \cup {Absent}]
      /\ Present(proposals') = Present(proposals) \cup {x}
  <2> DEFINE V == ProposalOver(Present(instances))
  <2>1. V \subseteq Proposal
    BY DEF TypeInv, TypeOK, Present, ProposalOver, Proposal
  <2>2. proposals \in [Proposals -> V \cup {Absent}] /\ Absent \notin V /\ v \in V
    BY <2>1, AbsentAssumption DEF TypeInv, TypeOK
  <2> HIDE DEF V
  <2>3. /\ [proposals EXCEPT ![x] = v] \in [Proposals -> V \cup {Absent}]
        /\ Present([proposals EXCEPT ![x] = v]) = Present(proposals) \cup {x}
    BY <2>2 DEF Present
  <2> QED  BY <2>3 DEF V
<1>2. Present(proposals)' = Present(proposals')
  BY DEF Present
<1>3. r \in KnownRequest'
  BY <1>1, <1>2 DEF KnownRequest, Present
<1>4. req' \in [Requests -> KnownRequest'] /\ DOMAIN overlapped' = Requests
  BY <1>1, <1>2, <1>3, GoesToTyped DEF Present
<1>5. proposals' \in [Proposals -> ProposalOver(Present(instances)') \cup {Absent}]
  BY <1>1 DEF Present
<1>6. proposals' \in [Proposals -> Proposal \cup {Absent}]
  BY <1>1 DEF TypeInv, TypeOK, Present, ProposalOver, Proposal
<1>7. TypeOK'
  BY <1>6 DEF TypeInv, TypeOK
<1> QED  BY <1>4, <1>5, <1>7 DEF TypeInv

\* The type invariant after a step that writes items, bindings or awards.
LEMMA DetailWritten ==
  ASSUME TypeInv, NEW q \in Requests, NEW r \in KnownRequest, GoesTo(q, r),
         items' \in [Proposals -> SUBSET Items],
         bindings' \in [Enrolments -> SUBSET Bindings],
         awards' \in [Awards -> Enrolments \cup {Absent}],
         announcedAwards' \subseteq Enrolments,
         UNCHANGED <<enrolmentVars, instances, registrationVars, proposals>>
  PROVE  TypeInv'
<1> USE DEF enrolmentVars, registrationVars
<1>1. req' \in [Requests -> KnownRequest'] /\ DOMAIN overlapped' = Requests
  BY DEF GoesTo, TypeInv, KnownRequest, Present
<1>2. proposals' \in [Proposals -> ProposalOver(Present(instances)') \cup {Absent}]
  BY DEF TypeInv, Present
<1>3. TypeOK'
  BY DEF TypeInv, TypeOK
<1> QED  BY <1>1, <1>2, <1>3 DEF TypeInv

LEMMA VerdictTyped ==
  ASSUME NEW valid, NEW list
  PROVE  Verdict(valid, list) \in {"returned", "waitlisted", "validated"}
BY DEF Verdict

LEMMA SelectionTyped ==
  ASSUME TypeInv, NEW q \in Requests, SelectionStep(q),
         UNCHANGED <<enrolmentVars, instances, registrationVars, awardVars>>
  PROVE  TypeInv'
<1> DEFINE I == Present(instances)
           P == Present(proposals)
           R == Present(registrations)
           p == req[q].proposal
<1>q. req[q] \in Request(I, P, R)
  BY DEF TypeInv, KnownRequest
<1>d. Done \in Request(I, P, R)
  BY DEF Request
<1>r. ASSUME NEW r \in Request(I, P, R), Reads(q, r), UNCHANGED selectionVars
      PROVE  TypeInv'
  BY <1>r, ReadTyped DEF KnownRequest
<1>w. ASSUME NEW r \in Request(I, P, R), GoesTo(q, r),
             items' \in [Proposals -> SUBSET Items], bindings' \in [Enrolments -> SUBSET Bindings],
             UNCHANGED proposals
      PROVE  TypeInv'
  BY <1>w, DetailWritten DEF KnownRequest, TypeInv, TypeOK, awardVars
<1>t. /\ P = { x \in Proposals : proposals[x] # Absent }
      /\ \A x \in P : proposals[x] \in ProposalOver(I)
      /\ I = { i \in Instances : instances[i] # Absent }
      /\ \A i \in I : instances[i] \in Instance(Contexts)
      /\ items \in [Proposals -> SUBSET Items]
      /\ bindings \in [Enrolments -> SUBSET Bindings]
  BY DEF TypeInv, TypeOK, Present
<1> HIDE DEF I, P, R
<1>o. ASSUME NEW x \in P, NEW row \in ProposalOver(I), NEW status \in ProposalStatuses,
             NEW then \in Validating(P) \cup Confirming(P) \cup {Done}
      PROVE  WriteOver(x, row, status, then) \in Overwriting(I, P)
  BY DEF WriteOver, Overwriting, ProposalOver
<1>a. ASSUME NEW x \in P, NEW status
      PROVE  AfterStatus(x, status) \in Confirming(P) \cup {Done}
  BY DEF AfterStatus, Confirming
<1>1. CASE CreateProposal(q)
  <2> DEFINE insert == [at |-> "insertProposal", enrolment |-> req[q].enrolment]
             bind == [at |-> "insertBinding", enrolment |-> req[q].enrolment, binding |-> Absent,
                      then |-> insert]
  <2>1. req[q].enrolment \in Enrolments
    BY <1>q, <1>1, RequestShape DEF CreateProposal
  <2>2. insert \in Request(I, P, R) /\ bind \in Request(I, P, R)
    BY <2>1 DEF Request, BindingRequest, InsertingProposal
  <2>3. (Reads(q, Done) \/ Reads(q, bind) \/ Reads(q, insert)) /\ UNCHANGED selectionVars
    BY <1>1 DEF CreateProposal
  <2> HIDE DEF insert, bind
  <2> QED  BY <1>d, <1>r, <2>2, <2>3
<1>2. CASE ReadBinding(q)
  <2>1. req[q].enrolment \in Enrolments
    BY <1>q, <1>2, RequestShape DEF ReadBinding
  <2>2. PICK r : /\ Reads(q, r) /\ UNCHANGED selectionVars
                 /\ \E b \in Bindings \cup {Absent}, at \in {"insertBinding", "closeBinding"} :
                      r = [at |-> at, enrolment |-> req[q].enrolment, binding |-> b, then |-> Done]
    <3>1. CASE bindings[req[q].enrolment] = {}
      BY <1>2, <3>1 DEF ReadBinding
    <3>2. CASE bindings[req[q].enrolment] # {}
      <4> DEFINE insert(b) == [at |-> "insertBinding", enrolment |-> req[q].enrolment,
                               binding |-> b, then |-> Done]
      <4>1. PICK b \in bindings[req[q].enrolment] :
              Reads(q, [insert(b) EXCEPT !.at = "closeBinding"]) /\ UNCHANGED selectionVars
        BY <1>2, <3>2 DEF ReadBinding
      <4>2. b \in Bindings
        BY <1>t, <2>1
      <4>3. [insert(b) EXCEPT !.at = "closeBinding"] =
              [at |-> "closeBinding", enrolment |-> req[q].enrolment, binding |-> b, then |-> Done]
        OBVIOUS
      <4> HIDE DEF insert
      <4> QED  BY <4>1, <4>2, <4>3
    <3> QED  BY <3>1, <3>2
  <2>3. r \in Request(I, P, R)
    BY <2>1, <2>2 DEF Request, BindingRequest
  <2> QED  BY <1>r, <2>2, <2>3
<1>3. CASE CloseBinding(q)
  <2> DEFINE r == [req[q] EXCEPT !.at = "insertBinding"]
  <2>1. req[q] \in [at : {"closeBinding", "insertBinding"}, enrolment : Enrolments,
                    binding : Bindings \cup {Absent}, then : InsertingProposal \cup {Done}]
    BY <1>q, <1>3, RequestShape DEF CloseBinding
  <2>2. r \in Request(I, P, R)
    BY <2>1 DEF Request, BindingRequest
  <2>3. GoesTo(q, r)
    BY <1>3, StepGoesTo DEF CloseBinding
  <2>4. bindings' \in [Enrolments -> SUBSET Bindings] /\ UNCHANGED <<proposals, items>>
    BY <1>3, <1>t DEF CloseBinding
  <2> HIDE DEF r
  <2> QED  BY <1>t, <1>w, <2>2, <2>3, <2>4
<1>4. CASE InsertBinding(q)
  <2>1. /\ req[q].enrolment \in Enrolments
        /\ req[q].binding \in Bindings \cup {Absent}
        /\ req[q].then \in InsertingProposal \cup {Done}
    BY <1>q, <1>4, RequestShape DEF InsertBinding
  <2>2. req[q].then \in Request(I, P, R)
    BY <2>1 DEF Request, BindingRequest
  <2>3. PICK b \in Bindings :
          \/ Reads(q, Done) /\ UNCHANGED bindings
          \/ /\ bindings' = [bindings EXCEPT ![req[q].enrolment] = @ \cup {b}]
             /\ Writes(q, {<<"binding", req[q].enrolment>>}, req[q].then)
    <3>1. CASE req[q].binding = Absent
      BY <1>4, <3>1 DEF InsertBinding
    <3>2. CASE req[q].binding # Absent
      BY <1>4, <2>1, <3>2 DEF InsertBinding
    <3> QED  BY <3>1, <3>2
  <2>4. UNCHANGED <<proposals, items>>
    BY <1>4 DEF InsertBinding
  <2>5. CASE Reads(q, Done) /\ UNCHANGED bindings
    BY <1>d, <1>r, <2>4, <2>5 DEF selectionVars
  <2>6. CASE /\ bindings' = [bindings EXCEPT ![req[q].enrolment] = @ \cup {b}]
             /\ Writes(q, {<<"binding", req[q].enrolment>>}, req[q].then)
    <3>1. GoesTo(q, req[q].then)
      BY <2>6, StepGoesTo
    <3>2. bindings' \in [Enrolments -> SUBSET Bindings]
      BY <1>t, <2>1, <2>6
    <3> QED  BY <1>t, <1>w, <2>2, <2>4, <3>1, <3>2
  <2> QED  BY <2>3, <2>5, <2>6
<1>5. CASE InsertProposal(q)
  <2> DEFINE x == CHOOSE y \in Unused(proposals) : TRUE
             v == [enrolment |-> req[q].enrolment, status |-> "draft", workflow |-> Absent]
             r == IF Compulsory = {} THEN Done
                  ELSE [at |-> "populate", proposal |-> x, left |-> Compulsory]
  <2>1. req[q].enrolment \in Enrolments
    BY <1>q, <1>5, RequestShape DEF InsertProposal, InsertingProposal
  <2>2. x \in Proposals
    <3>1. proposals \in [Proposals -> Proposal \cup {Absent}]
      BY DEF TypeInv, TypeOK
    <3> QED  BY <1>5, <3>1, UnusedChosen DEF InsertProposal
  <2>3. v \in ProposalOver(I)
    BY <2>1 DEF ProposalOver, ProposalStatuses
  <2>4. r \in Request(I, P \cup {x}, R)
    BY ItemsAssumption DEF Request, SelectionRequest
  <2>5. proposals' = [proposals EXCEPT ![x] = v] /\ UNCHANGED <<items, bindings>>
    BY <1>5 DEF InsertProposal
  <2>6. GoesTo(q, r)
    BY <1>5, StepGoesTo DEF InsertProposal
  <2> HIDE DEF x, v, r
  <2> QED  BY <2>2, <2>3, <2>4, <2>5, <2>6, ProposalWritten DEF I, P, R
<1>6. CASE PopulateItem(q)
  <2>1. req[q] \in [at : {"populate"}, proposal : P, left : SUBSET Items]
    BY <1>q, <1>6, RequestShape DEF PopulateItem
  <2>2. PICK i \in req[q].left :
          /\ items' = [items EXCEPT ![p] = @ \cup {i}]
          /\ Writes(q, {p}, IF req[q].left = {i} THEN Done ELSE [req[q] EXCEPT !.left = @ \ {i}])
    BY <1>6 DEF PopulateItem
  <2> DEFINE r == IF req[q].left = {i} THEN Done ELSE [req[q] EXCEPT !.left = @ \ {i}]
  <2>3. r \in Request(I, P, R)
    BY <2>1 DEF Request, SelectionRequest
  <2>4. GoesTo(q, r)
    BY <2>2, StepGoesTo
  <2>5. items' \in [Proposals -> SUBSET Items]
    BY <1>t, <2>1, <2>2
  <2>6. UNCHANGED <<proposals, bindings>>
    BY <1>6 DEF PopulateItem
  <2> HIDE DEF r
  <2> QED  BY <1>t, <1>w, <2>3, <2>4, <2>5, <2>6
<1>7. CASE EditItem(q)
  <2> DEFINE r == [at |-> "writeItem", proposal |-> p, item |-> req[q].item,
                   adding |-> req[q].at = "addItem"]
  <2>1. p \in Proposals /\ req[q].item \in Items
    BY <1>q, <1>7, RequestShape DEF EditItem
  <2>2. CASE proposals[p] # Absent /\ Editable(proposals[p].status)
    <3>1. r \in Request(I, P, R)
      BY <1>t, <2>1, <2>2 DEF Request, SelectionRequest
    <3>2. Reads(q, r) /\ UNCHANGED selectionVars
      BY <1>7, <2>2 DEF EditItem
    <3> HIDE DEF r
    <3> QED  BY <1>r, <3>1, <3>2
  <2>3. CASE ~(proposals[p] # Absent /\ Editable(proposals[p].status))
    <3>1. Reads(q, Done) /\ UNCHANGED selectionVars
      BY <1>7, <2>3 DEF EditItem
    <3> QED  BY <1>d, <1>r, <3>1
  <2> QED  BY <2>2, <2>3
<1>8. CASE WriteItem(q)
  <2>1. req[q] \in [at : {"writeItem"}, proposal : P, item : Items, adding : BOOLEAN]
    BY <1>q, <1>8, RequestShape DEF WriteItem
  <2>2. GoesTo(q, Done)
    BY <1>8, StepGoesTo DEF WriteItem
  <2>3. items' \in [Proposals -> SUBSET Items] /\ UNCHANGED <<proposals, bindings>>
    BY <1>8, <1>t, <2>1 DEF WriteItem
  <2> QED  BY <1>d, <1>t, <1>w, <2>2, <2>3
<1>9. CASE SubmitProposal(q)
  <2> DEFINE r == [at |-> "submitItems", proposal |-> p, row |-> proposals[p]]
  <2>1. p \in Proposals
    BY <1>q, <1>9, RequestShape DEF SubmitProposal
  <2>2. proposals[p] # Absent => r \in Request(I, P, R)
    BY <1>t, <2>1 DEF Request, SelectionRequest
  <2>3. /\ Reads(q, Done) \/ (proposals[p] # Absent /\ Reads(q, r))
        /\ UNCHANGED selectionVars
    BY <1>9 DEF SubmitProposal
  <2> HIDE DEF r
  <2> QED  BY <1>d, <1>r, <2>2, <2>3
<1>10. CASE SubmitItems(q)
  <2> DEFINE r == WriteOver(p, req[q].row, "submitted",
                            [at |-> "validate", proposal |-> p, items |-> items[p]])
  <2>1. p \in P /\ req[q].row \in ProposalOver(I)
    BY <1>q, <1>10, RequestShape DEF SubmitItems
  <2>2. [at |-> "validate", proposal |-> p, items |-> items[p]] \in Validating(P)
    BY <1>t, <2>1 DEF Validating
  <2>3. r \in Overwriting(I, P)
    BY <1>o, <2>1, <2>2 DEF ProposalStatuses
  <2>4. (Reads(q, Done) \/ Reads(q, r)) /\ UNCHANGED selectionVars
    BY <1>10 DEF SubmitItems
  <2> HIDE DEF r
  <2>5. r \in Request(I, P, R)
    BY <2>3 DEF Request, SelectionRequest
  <2> QED  BY <1>d, <1>r, <2>4, <2>5
<1>11. CASE WriteProposal(q)
  <2> DEFINE v == [req[q].row EXCEPT !.status = req[q].status, !.workflow = req[q].instance]
  <2>1. req[q] \in Overwriting(I, P)
    BY <1>q, <1>11, RequestShape DEF WriteProposal
  <2>2. p \in Proposals /\ P \cup {p} = P
    BY <1>t, <2>1 DEF Overwriting
  <2>3. v \in ProposalOver(I)
    BY <2>1 DEF Overwriting, ProposalOver
  <2>4. req[q].then \in Request(I, P \cup {p}, R)
    BY <2>1, <2>2 DEF Overwriting, Request, SelectionRequest
  <2>5. proposals' = [proposals EXCEPT ![p] = v] /\ UNCHANGED <<items, bindings>>
    BY <1>11 DEF WriteProposal
  <2>6. GoesTo(q, req[q].then)
    BY <1>11, StepGoesTo DEF WriteProposal
  <2> HIDE DEF v
  <2> QED  BY <2>2, <2>3, <2>4, <2>5, <2>6, ProposalWritten DEF I, P, R
<1>12. CASE ValidateSelection(q)
  <2> DEFINE u == Valid(proposals[p].enrolment, req[q].items)
             r == [at |-> "capacity", proposal |-> p, items |-> req[q].items, valid |-> u]
  <2>1. p \in P /\ req[q].items \in SUBSET Items
    BY <1>q, <1>12, RequestShape DEF ValidateSelection, Validating
  <2>2. u \in BOOLEAN
    BY DEF Valid
  <2>3. Reads(q, r) /\ UNCHANGED selectionVars
    BY <1>12 DEF ValidateSelection
  <2> HIDE DEF u
  <2>4. r \in Request(I, P, R)
    BY <2>1, <2>2 DEF Request, SelectionRequest
  <2> HIDE DEF r
  <2> QED  BY <1>r, <2>3, <2>4
<1>13. CASE ValidateCapacity(q)
  <2> DEFINE u == Verdict(req[q].valid, req[q].items)
             r == [at |-> "verdict", proposal |-> p, verdict |-> u]
  <2>1. p \in P
    BY <1>q, <1>13, RequestShape DEF ValidateCapacity
  <2>2. u \in {"returned", "waitlisted", "validated"}
    BY VerdictTyped
  <2>3. Reads(q, r) /\ UNCHANGED selectionVars
    BY <1>13 DEF ValidateCapacity
  <2> HIDE DEF u
  <2>4. r \in Request(I, P, R)
    BY <2>1, <2>2 DEF Request, SelectionRequest
  <2> HIDE DEF r
  <2> QED  BY <1>r, <2>3, <2>4
<1>14. CASE CarryOutVerdict(q)
  <2> DEFINE write == WriteOver(p, proposals[p], req[q].verdict, AfterStatus(p, req[q].verdict))
             start == [at |-> "startInstance", then |-> write,
                       context |-> [action |-> "allocate", proposal |-> p]]
  <2>1. p \in P /\ p \in Proposals /\ req[q].verdict \in ProposalStatuses
    BY <1>q, <1>14, <1>t, RequestShape DEF CarryOutVerdict, ProposalStatuses
  <2>2. write \in Overwriting(I, P)
    BY <1>a, <1>o, <1>t, <2>1
  <2>3. (Reads(q, start) \/ Reads(q, write)) /\ UNCHANGED selectionVars
    BY <1>14 DEF CarryOutVerdict
  <2> HIDE DEF write
  <2>4. start \in Request(I, P, R) /\ write \in Request(I, P, R)
    BY <2>1, <2>2 DEF Request, SelectionRequest, WorkflowRequest, Contexts
  <2> HIDE DEF start
  <2> QED  BY <1>r, <2>3, <2>4
<1>15. CASE DecideProposal(q)
  <2> DEFINE row == proposals[p]
             d == req[q].decision
             write == WriteOver(p, row, d, AfterStatus(p, d))
             r == Closing(row.workflow, d, write)
  <2>1. p \in Proposals /\ d \in Decisions
    BY <1>q, <1>15, RequestShape DEF DecideProposal
  <2>2. /\ \/ Reads(q, Done)
           \/ row # Absent /\ row.workflow = Absent /\ Reads(q, write)
           \/ row # Absent /\ row.workflow # Absent /\ Reads(q, r)
        /\ UNCHANGED selectionVars
    BY <1>15 DEF DecideProposal
  <2>3. CASE row # Absent
    <3>1. p \in P /\ row \in ProposalOver(I)
      BY <1>t, <2>1, <2>3
    <3>2. write \in Overwriting(I, P)
      BY <1>a, <1>o, <2>1, <3>1 DEF Decisions, ProposalStatuses
    <3>3. row.workflow # Absent => row.workflow \in I /\ instances[row.workflow].task \in Tasks
      BY <1>t, <3>1 DEF ProposalOver, Instance, Tasks
    <3> HIDE DEF write
    <3>4. write \in Request(I, P, R)
      BY <3>2 DEF Request, SelectionRequest
    <3>5. row.workflow # Absent => r \in Request(I, P, R)
      BY <2>1, <3>2, <3>3 DEF Closing, Request, WorkflowRequest
    <3> HIDE DEF r, row
    <3> QED  BY <1>d, <1>r, <2>2, <3>4, <3>5
  <2>4. CASE row = Absent
    BY <1>d, <1>r, <2>2, <2>4
  <2> QED  BY <2>3, <2>4
<1>16. CASE ConfirmProposal(q)
  <2> DEFINE r == [at |-> "confirmItems", proposal |-> p, row |-> proposals[p]]
  <2>1. p \in P
    BY <1>q, <1>16, RequestShape DEF ConfirmProposal, Confirming
  <2>2. r \in Request(I, P, R)
    BY <1>t, <2>1 DEF Request, SelectionRequest
  <2>3. Reads(q, r) /\ UNCHANGED selectionVars
    BY <1>16 DEF ConfirmProposal
  <2> HIDE DEF r
  <2> QED  BY <1>r, <2>2, <2>3
<1>17. CASE ConfirmItems(q)
  <2> DEFINE r == [at |-> "registerItems", proposal |-> p, row |-> req[q].row,
                   left |-> Offered(items[p])]
  <2>1. p \in P /\ req[q].row \in ProposalOver(I)
    BY <1>q, <1>17, RequestShape DEF ConfirmItems
  <2>2. Offered(items[p]) \subseteq Offered(Items)
    BY <1>t, <2>1 DEF Offered
  <2>3. r \in Request(I, P, R)
    BY <2>1, <2>2 DEF Request, SelectionRequest, Registering
  <2>4. Reads(q, r) /\ UNCHANGED selectionVars
    BY <1>17 DEF ConfirmItems
  <2> HIDE DEF r
  <2> QED  BY <1>r, <2>3, <2>4
<1>18. CASE RegisterItems(q)
  <2>1. req[q] \in Registering(I, P)
    BY <1>q, <1>18, RequestShape DEF RegisterItems
  <2>2. CASE req[q].left = {}
    <3> DEFINE r == WriteOver(p, req[q].row, "confirmed", Done)
    <3>1. r \in Overwriting(I, P)
      BY <1>o, <2>1 DEF Registering, ProposalStatuses
    <3>2. r \in Request(I, P, R)
      BY <3>1 DEF Request, SelectionRequest
    <3>3. Reads(q, r) /\ UNCHANGED selectionVars
      BY <1>18, <2>2 DEF RegisterItems
    <3> HIDE DEF r
    <3> QED  BY <1>r, <3>2, <3>3
  <2>3. CASE req[q].left # {}
    <3>1. PICK i \in req[q].left : Reads(q, ItemRegistration(q, i)) /\ UNCHANGED selectionVars
      BY <1>18, <2>3 DEF RegisterItems
    <3>2. OfferingOf[i] \in Offerings
      BY <2>1, ItemsAssumption DEF Registering, Offered
    <3>3. [req[q] EXCEPT !.left = @ \ {i}] \in Registering(I, P)
      BY <2>1 DEF Registering
    <3>4. ByProposal(p, req[q].row) \in Origins
      BY <1>t, <2>1 DEF ByProposal, Origins, Registering, ProposalOver
    <3>5. req[q].row.enrolment \in Enrolments /\ 1 \in 1..6 /\ TRUE \in BOOLEAN
      BY <2>1 DEF Registering, ProposalOver
    <3>6. ItemRegistration(q, i) \in Creating(I, P)
      BY <3>2, <3>3, <3>4, <3>5 DEF ItemRegistration, NewRegistration, Creating
    <3>7. ItemRegistration(q, i) \in Request(I, P, R)
      BY <3>6 DEF Request
    <3> QED  BY <1>r, <3>1, <3>7
  <2> QED  BY <2>2, <2>3
<1> QED  BY <1>1, <1>2, <1>3, <1>4, <1>5, <1>6, <1>7, <1>8, <1>9, <1>10, <1>11, <1>12, <1>13,
            <1>14, <1>15, <1>16, <1>17, <1>18 DEF SelectionStep

LEMMA AwardTyped ==
  ASSUME TypeInv, NEW q \in Requests, AwardStep(q),
         UNCHANGED <<enrolmentVars, instances, registrationVars, selectionVars>>
  PROVE  TypeInv'
<1> DEFINE e == req[q].enrolment
<1>q. req[q] \in KnownRequest
  BY DEF TypeInv
<1>r. ASSUME NEW r \in KnownRequest, Reads(q, r), UNCHANGED awardVars
      PROVE  TypeInv'
  BY <1>r, ReadTyped
<1> USE RequestShape DEF KnownRequest
<1>1. CASE ReadAwardEnrolment(q)
  <2> DEFINE at == IF req[q].at = "conferAward" THEN "awardBoard" ELSE "awardExisting"
             r == [at |-> at, enrolment |-> e, status |-> enrolments[e]]
  <2>1. e \in Enrolments
    BY <1>q, <1>1 DEF ReadAwardEnrolment
  <2>2. enrolments[e] # Absent => r \in KnownRequest
    BY <2>1 DEF Request, AwardRequest, TypeInv, TypeOK
  <2>3. /\ Reads(q, Done) \/ (enrolments[e] # Absent /\ Reads(q, r))
        /\ UNCHANGED awardVars
    BY <1>1 DEF ReadAwardEnrolment
  <2> HIDE DEF r
  <2> QED  BY <1>r, <2>2, <2>3, DoneTyped
<1>2. CASE CheckAwardBoard(q) \/ CheckAward(q)
  <2>1. req[q] \in [at : {"awardBoard", "awardExisting", "insertAward"}, enrolment : Enrolments,
                    status : Statuses]
    BY <1>q, <1>2 DEF CheckAwardBoard, CheckAward
  <2>2. PICK at \in {"awardExisting", "insertAward"} :
          /\ Reads(q, Done) \/ Reads(q, [req[q] EXCEPT !.at = at])
          /\ UNCHANGED awardVars
    <3>1. CASE CheckAwardBoard(q)
      BY <3>1 DEF CheckAwardBoard
    <3>2. CASE CheckAward(q)
      BY <3>2 DEF CheckAward
    <3> QED  BY <1>2, <3>1, <3>2
  <2>3. [req[q] EXCEPT !.at = at] \in KnownRequest
    BY <2>1 DEF Request, AwardRequest
  <2> QED  BY <1>r, <2>2, <2>3, DoneTyped
<1>3. CASE InsertAward(q)
  <2>1. e \in Enrolments
    BY <1>q, <1>3 DEF InsertAward
  <2>2. CASE AwardIndex(e)
    <3>1. PICK a \in Unused(awards) :
            awards' = [awards EXCEPT ![a] = e] /\ UNCHANGED announcedAwards
      BY <1>3, <2>2 DEF InsertAward
    <3>2. awards' \in [Awards -> Enrolments \cup {Absent}] /\ announcedAwards' \subseteq Enrolments
      BY <2>1, <3>1 DEF TypeInv, TypeOK
    <3>3. GoesTo(q, AfterAward(e, req[q].status))
      BY <1>3, <2>2, StepGoesTo DEF InsertAward
    <3>4. AfterAward(e, req[q].status) \in KnownRequest
      BY <2>1 DEF AfterAward, Request, AwardRequest, EnrolmentRequest, Announcing, Statuses
    <3> QED  BY <3>2, <3>3, <3>4, DetailWritten DEF TypeInv, TypeOK, selectionVars
  <2>3. CASE ~AwardIndex(e)
    <3>1. Reads(q, Done) /\ UNCHANGED awardVars
      BY <1>3, <2>3 DEF InsertAward, awardVars
    <3> QED  BY <1>r, <3>1, DoneTyped
  <2> QED  BY <2>2, <2>3
<1>4. CASE AnnounceAward(q)
  <2>1. e \in Enrolments
    BY <1>q, <1>4 DEF AnnounceAward, Announcing
  <2>2. awards' \in [Awards -> Enrolments \cup {Absent}] /\ announcedAwards' \subseteq Enrolments
    BY <1>4, <2>1 DEF AnnounceAward, TypeInv, TypeOK
  <2>3. GoesTo(q, Done)
    BY <1>4, StepGoesTo DEF AnnounceAward
  <2> QED  BY <2>2, <2>3, DoneTyped, DetailWritten DEF TypeInv, TypeOK, selectionVars
<1> QED  BY <1>1, <1>2, <1>3, <1>4 DEF AwardStep

LEMMA InitTyped == Init => TypeInv
<1> SUFFICES ASSUME Init PROVE TypeInv
  OBVIOUS
<1>1. PICK s \in Scenarios :
        /\ CallsInit(s.calls) /\ EnrolmentsInit(s.enrolments)
        /\ instances = s.instances /\ registrations = s.registrations /\ windows = s.windows
        /\ proposals = s.proposals /\ items = s.items
        /\ bindings = [e \in Enrolments |-> {}] /\ awards = [a \in Awards |-> Absent]
        /\ announcedAwards = {}
  BY DEF Init
<1>2. /\ s.calls \subseteq Calls
      /\ s.enrolments \in [Enrolments -> Statuses \cup {Absent}]
      /\ s.instances \in [Instances -> Instance(Contexts) \cup {Absent}]
      /\ s.registrations \in [Rows -> Registration({Staff}) \cup {Absent}]
      /\ s.windows \in [Periods -> Phases \cup {"unrestricted", "none"}]
      /\ s.proposals \in [Proposals -> Proposal \cup {Absent}]
      /\ s.items \in [Proposals -> SUBSET Items]
      /\ \A p \in Proposals :
           s.proposals[p] # Absent /\ s.proposals[p].workflow # Absent =>
             s.instances[s.proposals[p].workflow] # Absent
  BY ScenariosAssumption
<1>3. ledger \in [Enrolments -> Seq([from : Statuses, to : Statuses])]
  <2>1. ASSUME NEW e \in Enrolments
        PROVE  (IF s.enrolments[e] \in {Absent, "enrolled"} THEN <<>>
                ELSE << [from |-> "enrolled", to |-> s.enrolments[e]] >>)
                 \in Seq([from : Statuses, to : Statuses])
    <3>1. s.enrolments[e] \in Statuses \cup {Absent} /\ "enrolled" \in Statuses
      BY <1>2 DEF Statuses
    <3>2. s.enrolments[e] # Absent =>
            [from |-> "enrolled", to |-> s.enrolments[e]] \in [from : Statuses, to : Statuses]
      BY <3>1
    <3> DEFINE Entry == [from : Statuses, to : Statuses]
    <3>3. s.enrolments[e] # Absent =>
            << [from |-> "enrolled", to |-> s.enrolments[e]] >> \in Seq(Entry)
      <4> DEFINE x == [from |-> "enrolled", to |-> s.enrolments[e]]
      <4>1. s.enrolments[e] # Absent => x \in Entry
        BY <3>2
      <4> HIDE DEF Entry, x
      <4>2. s.enrolments[e] # Absent => <<x>> \in Seq(Entry)
        BY <4>1
      <4> QED  BY <4>2 DEF x
    <3>4. <<>> \in Seq(Entry)
      OBVIOUS
    <3> QED  BY <3>3, <3>4
  <2> QED  BY <1>1, <2>1 DEF EnrolmentsInit
<1>4. personStatus \in [Persons -> PersonStatuses]
  <2>1. personStatus = [p \in Persons |-> IF p \in Deceased THEN "deceased"
                                          ELSE DerivedStatus(StatusesOf(p, s.enrolments))]
    BY <1>1 DEF EnrolmentsInit
  <2>2. "deceased" \in PersonStatuses
    BY DEF PersonStatuses
  <2> QED  BY <2>1, <2>2, DerivedTyped
<1>5. registrations \in [Rows -> Registration(Origins) \cup {Absent}]
  <2>1. Registration({Staff}) \subseteq Registration(Origins)
    BY DEF Registration, Origins
  <2> QED  BY <1>1, <1>2, <2>1
<1>6. TypeOK
  BY <1>1, <1>2, <1>3, <1>4, <1>5 DEF TypeOK, EnrolmentsInit
<1>7. req \in [Requests -> KnownRequest] /\ DOMAIN overlapped = Requests
  <2>1. Calls \subseteq KnownRequest
    BY CallsAssumption DEF KnownRequest, Request
  <2> QED  BY <1>1, <1>2, <2>1 DEF CallsInit
<1>8. proposals \in [Proposals -> ProposalOver(Present(instances)) \cup {Absent}]
  <2>1. ASSUME NEW p \in Proposals, proposals[p] # Absent
        PROVE  proposals[p] \in ProposalOver(Present(instances))
    <3>1. proposals[p] \in Proposal
      BY <1>1, <1>2, <2>1
    <3>2. proposals[p].workflow \in Present(instances) \cup {Absent}
      BY <1>1, <1>2, <2>1, <3>1 DEF Proposal, Present
    <3> QED  BY <3>1, <3>2 DEF Proposal, ProposalOver
  <2> QED  BY <1>1, <1>2, <2>1
<1> QED  BY <1>6, <1>7, <1>8 DEF TypeInv

LEMMA NextTyped ==
  ASSUME TypeInv, [Next]_vars
  PROVE  TypeInv'
<1>1. CASE UNCHANGED vars
  BY <1>1 DEF vars, callVars, enrolmentVars, registrationVars, selectionVars, awardVars,
              TypeInv, TypeOK, KnownRequest, Present
<1>2. CASE TimePasses
  <2>1. PICK period \in Periods : WindowPasses(period)
    BY <1>2 DEF TimePasses
  <2>2. windows' \in [Periods -> Phases \cup {"unrestricted", "none"}]
    BY <2>1 DEF WindowPasses, TypeInv, TypeOK, Phases
  <2>3. UNCHANGED <<registrations, req>> /\ DOMAIN overlapped' = Requests
    BY <2>1 DEF WindowPasses
  <2> QED  BY <1>2, <2>2, <2>3 DEF TimePasses, enrolmentVars, selectionVars, awardVars,
                                   TypeInv, TypeOK, KnownRequest, Present
<1>3. ASSUME NEW q \in Requests, Step(q) PROVE TypeInv'
  <2>1. CASE /\ Fail(q)
             /\ UNCHANGED <<enrolmentVars, instances, registrationVars, selectionVars, awardVars>>
    BY <2>1, DoneTyped, ReadTyped DEF Fail
  <2> QED  BY <1>3, <2>1, EnrolmentTyped, WorkflowTyped, RegistrationTyped, SelectionTyped,
              AwardTyped DEF Step
<1> QED  BY <1>1, <1>2, <1>3 DEF Next

\* Every step keeps every variable in its type, and what a request is about to write
\* fits what it writes it to.
LEMMA TypeInvariant == Spec => []TypeInv
<1> QED  BY InitTyped, NextTyped, PTL DEF Spec

\* Every variable of the journey has its type, in every interleaving of the requests
\* of all six services (TypeOK of StudentJourney).
THEOREM TypeCorrect == Spec => []TypeOK
<1>1. TypeInv => TypeOK
  BY DEF TypeInv
<1> QED  BY <1>1, TypeInvariant, PTL

-------------------------------------------------------------------------------
(* Overlaps.                                                                *)

\* A registration counts for its offering and for its enrolment.
Touched(row, r) == {r, row.offering, <<"registrations", row.enrolment>>}

\* What the bystander of a step sees of it.
Bystander(p) ==
  /\ req'[p] = req[p]
  /\ InFlight(p) =>
       /\ overlapped[p] \subseteq overlapped'[p]
       /\ \A e \in Enrolments :
            enrolments'[e] = enrolments[e] \/ {e, PersonOf[e]} \subseteq overlapped'[p]
       /\ \A x \in Persons : personStatus'[x] = personStatus[x] \/ x \in overlapped'[p]
       /\ \A i \in Instances : instances'[i] = instances[i] \/ i \in overlapped'[p]
       /\ \A r \in Rows :
            registrations'[r] = registrations[r] \/ Touched(registrations'[r], r) \subseteq overlapped'[p]
       /\ \A t \in Periods : windows'[t] = windows[t] \/ t \in overlapped'[p]
       /\ \A x \in Proposals : (proposals'[x] = proposals[x] /\ items'[x] = items[x])
                                 \/ x \in overlapped'[p]
       /\ \A e \in Enrolments : bindings'[e] = bindings[e] \/ <<"binding", e>> \in overlapped'[p]

\* What the request that takes a step has written.
Changed(W) ==
  /\ \A e \in Enrolments : enrolments'[e] = enrolments[e] \/ {e, PersonOf[e]} \subseteq W
  /\ \A x \in Persons : personStatus'[x] = personStatus[x] \/ x \in W
  /\ \A i \in Instances : instances'[i] = instances[i] \/ i \in W
  /\ \A r \in Rows :
       registrations'[r] = registrations[r] \/ Touched(registrations'[r], r) \subseteq W
  /\ \A t \in Periods : windows'[t] = windows[t] \/ t \in W
  /\ \A x \in Proposals : (proposals'[x] = proposals[x] /\ items'[x] = items[x]) \/ x \in W
  /\ \A e \in Enrolments : bindings'[e] = bindings[e] \/ <<"binding", e>> \in W

Writer(q, W) ==
  /\ Changed(W)
  /\ req'[q] = Done \/ overlapped'[q] = overlapped[q]
  /\ suspect \subseteq suspect' /\ W \cap overlapped[q] \subseteq suspect'
  /\ \A p \in Requests \ {q} :
       req'[p] = req[p] /\ (InFlight(p) => overlapped[p] \cup W \subseteq overlapped'[p])

LEMMA ReadsIsWriter ==
  ASSUME TypeInv, NEW q \in Requests, NEW r, Reads(q, r),
         UNCHANGED <<enrolments, personStatus, instances, registrations, windows, proposals,
                     items, bindings>>
  PROVE  Writer(q, {}) /\ req'[q] = r
BY DEF Reads, Writer, Changed, TypeInv

LEMMA WritesIsWriter ==
  ASSUME TypeInv, NEW q \in Requests, NEW r, NEW W, Writes(q, W, r), Changed(W)
  PROVE  Writer(q, W) /\ req'[q] = r
BY DEF Writes, Writer, TypeInv

\* No request in a control state of its own is still its call.
Entries ==
  {"done", "transitionStatus", "createEnrolment", "conferAward", "conferResearchAward",
   "createRegistration", "transitionRegistration", "requestChange", "decideChange",
   "createWindow", "updateWindow", "createProposal", "setCurriculumBinding", "addItem",
   "removeItem", "submitProposal", "decideProposal"}

LEMMA UnderWay ==
  ASSUME NEW q \in Requests, req[q].at \notin Entries
  PROVE  InFlight(q)
<1>1. \A c \in Call : c.at \in Entries
  BY DEF Call, Entries
<1>2. Done.at \in Entries
  BY DEF Done, Entries
<1> QED  BY <1>1, <1>2, CallsAssumption DEF InFlight

\* The row that a request is about to rewrite exists.
LEMMA Rewritten ==
  ASSUME TypeInv, NEW q \in Requests, req[q].at = "writeRegistration"
  PROVE  /\ req[q].registration \in Rows
         /\ registrations[req[q].registration] \in Registration(Origins)
         /\ req[q].to \in {"withdrawn", "completed"}
<1> DEFINE R == Present(registrations)
<1>1. req[q] \in Request(Present(instances), Present(proposals), R)
  BY DEF TypeInv, KnownRequest
<1>2. \A r \in R : r \in Rows /\ registrations[r] \in Registration(Origins)
  BY DEF TypeInv, TypeOK, Present
<1> HIDE DEF R
<1>3. req[q] \in Changing(R)
  BY <1>1, RequestShape
<1> QED  BY <1>2, <1>3 DEF Changing

LEMMA StepWrites ==
  ASSUME TypeInv, NEW q \in Requests, Step(q)
  PROVE  \E W : Writer(q, W)
<1> USE DEF enrolmentVars, registrationVars, selectionVars, awardVars
<1>r. ASSUME \E r : Reads(q, r),
             UNCHANGED <<enrolments, personStatus, instances, registrations, windows, proposals,
                         items, bindings>>
      PROVE  \E W : Writer(q, W)
  BY <1>r, ReadsIsWriter
<1>w. ASSUME NEW W, \E r : Writes(q, W, r), Changed(W)
      PROVE  Writer(q, W)
  BY <1>w, WritesIsWriter
<1>t. TypeOK
  BY DEF TypeInv
<1>1. CASE EnrolmentStep(q) /\ UNCHANGED <<instances, registrationVars, selectionVars, awardVars>>
  <2>1. CASE ReadTransition(q)
    BY <1>1, <1>r, <2>1 DEF ReadTransition
  <2>2. CASE WriteTransition(q)
    BY <1>1, <1>r, <2>2 DEF WriteTransition
  <2>3. CASE WriteEnrolment(q)
    BY <1>1, <1>r, <2>3 DEF WriteEnrolment
  <2>4. CASE CommitEnrolment(q)
    <3> DEFINE W == {req[q].enrolment, PersonOf[req[q].enrolment]}
    <3>1. \A e \in Enrolments : enrolments'[e] = enrolments[e] \/ {e, PersonOf[e]} \subseteq W
      BY <1>t, <2>4 DEF CommitEnrolment, TypeOK
    <3>2. \A x \in Persons : personStatus'[x] = personStatus[x] \/ x \in W
      BY <1>t, <2>4 DEF CommitEnrolment, TypeOK
    <3>3. \E r : Writes(q, W, r)
      BY <2>4 DEF CommitEnrolment
    <3> HIDE DEF W
    <3> QED  BY <1>1, <1>w, <3>1, <3>2, <3>3 DEF Changed
  <2> QED  BY <1>1, <2>1, <2>2, <2>3, <2>4 DEF EnrolmentStep
<1>2. CASE WorkflowStep(q) /\ UNCHANGED <<enrolmentVars, registrationVars, selectionVars, awardVars>>
  <2> DEFINE x == IF req[q].at = "startInstance" THEN CHOOSE j \in Unused(instances) : TRUE
                  ELSE req[q].instance
  <2>1. \/ \E r : Reads(q, r) /\ UNCHANGED instances
        \/ \E r : Writes(q, {x}, r) /\ \A i \in Instances : instances'[i] = instances[i] \/ i = x
    <3> USE <1>t DEF TypeOK
    <3>1. CASE StartInstance(q)
      BY <3>1 DEF StartInstance
    <3>2. CASE AssignTask(q)
      BY <3>2 DEF AssignTask
    <3>3. CASE RecordDecision(q)
      BY <3>3 DEF RecordDecision
    <3>4. CASE CompleteTask(q)
      BY <3>4 DEF CompleteTask
    <3>5. CASE CompleteInstance(q)
      BY <3>5 DEF CompleteInstance
    <3> QED  BY <1>2, <3>1, <3>2, <3>3, <3>4, <3>5 DEF WorkflowStep
  <2> HIDE DEF x
  <2>2. CASE \E r : Reads(q, r) /\ UNCHANGED instances
    BY <1>2, <1>r, <2>2
  <2>3. CASE \E r : Writes(q, {x}, r) /\ \A i \in Instances : instances'[i] = instances[i] \/ i = x
    <3>1. Changed({x})
      BY <1>2, <2>3 DEF Changed
    <3> QED  BY <1>w, <2>3, <3>1
  <2> QED  BY <2>1, <2>2, <2>3
<1>3. CASE RegistrationStep(q) /\ UNCHANGED <<enrolmentVars, instances, selectionVars, awardVars>>
  <2>1. CASE InsertRegistration(q)
    <3> DEFINE x == CHOOSE y \in Unused(registrations) : TRUE
               W == {x, req[q].offering, <<"registrations", req[q].enrolment>>}
    <3>1. \A r \in Rows :
            registrations'[r] = registrations[r] \/ Touched(registrations'[r], r) \subseteq W
      BY <1>t, <2>1 DEF InsertRegistration, TypeOK, Touched
    <3>2. (\E r : Writes(q, W, r)) /\ UNCHANGED windows
      BY <2>1 DEF InsertRegistration
    <3> HIDE DEF W
    <3> QED  BY <1>3, <1>w, <3>1, <3>2 DEF Changed
  <2>2. CASE WriteRegistration(q)
    <3> DEFINE x == req[q].registration
               W == {x, registrations[x].offering, <<"registrations", registrations[x].enrolment>>}
    <3>0. registrations[x] \in Registration(Origins) /\ x \in Rows
      BY <2>2, Rewritten DEF WriteRegistration
    <3>1. \A r \in Rows :
            registrations'[r] = registrations[r] \/ Touched(registrations'[r], r) \subseteq W
      BY <1>t, <2>2, <3>0 DEF WriteRegistration, TypeOK, Touched, Registration
    <3>2. (\E r : Writes(q, W, r)) /\ UNCHANGED windows
      BY <2>2 DEF WriteRegistration
    <3> HIDE DEF W
    <3> QED  BY <1>3, <1>w, <3>1, <3>2 DEF Changed
  <2>3. CASE SetWindow(q)
    <3> DEFINE W == {req[q].period}
    <3>1. CASE Reads(q, Done) /\ UNCHANGED windows
      BY <1>3, <1>r, <2>3, <3>1 DEF SetWindow
    <3>2. CASE Writes(q, W, Done)
      <4>1. (\A t \in Periods : windows'[t] = windows[t] \/ t \in W) /\ UNCHANGED registrations
        BY <1>t, <2>3 DEF SetWindow, TypeOK
      <4> HIDE DEF W
      <4> QED  BY <1>3, <1>w, <3>2, <4>1 DEF Changed
    <3> QED  BY <2>3, <3>1, <3>2 DEF SetWindow
  <2>4. CASE \/ CheckRegistration(q) \/ ReadRegistration(q) \/ RequestChange(q)
             \/ DecideChange(q) \/ FindTask(q)
    <3>1. (\E r : Reads(q, r)) /\ UNCHANGED registrationVars
      BY <2>4 DEF CheckRegistration, ReadRegistration, RequestChange, DecideChange, FindTask
    <3> QED  BY <1>3, <1>r, <3>1
  <2> QED  BY <1>3, <2>1, <2>2, <2>3, <2>4 DEF RegistrationStep
<1>4. CASE SelectionStep(q) /\ UNCHANGED <<enrolmentVars, instances, registrationVars, awardVars>>
  <2>1. CASE CloseBinding(q) \/ InsertBinding(q)
    <3> DEFINE W == {<<"binding", req[q].enrolment>>}
    <3>1. \A e \in Enrolments : bindings'[e] = bindings[e] \/ <<"binding", e>> \in W
      <4>1. CASE CloseBinding(q)
        BY <1>t, <4>1 DEF CloseBinding, TypeOK
      <4>2. CASE InsertBinding(q)
        BY <1>t, <4>2 DEF InsertBinding, TypeOK
      <4> QED  BY <2>1, <4>1, <4>2
    <3>2. UNCHANGED <<proposals, items>>
      BY <2>1 DEF CloseBinding, InsertBinding
    <3>3. \/ (\E r : Reads(q, r)) /\ UNCHANGED bindings
          \/ \E r : Writes(q, W, r)
      BY <2>1 DEF CloseBinding, InsertBinding
    <3> HIDE DEF W
    <3>4. CASE (\E r : Reads(q, r)) /\ UNCHANGED bindings
      BY <1>4, <1>r, <3>2, <3>4
    <3>5. CASE \E r : Writes(q, W, r)
      BY <1>4, <1>w, <3>1, <3>2, <3>5 DEF Changed
    <3> QED  BY <3>3, <3>4, <3>5
  <2>2. CASE InsertProposal(q) \/ PopulateItem(q) \/ WriteItem(q) \/ WriteProposal(q)
    <3> DEFINE x == IF req[q].at = "insertProposal" THEN CHOOSE j \in Unused(proposals) : TRUE
                    ELSE req[q].proposal
               W == {x}
    <3>1. /\ \A y \in Proposals : (proposals'[y] = proposals[y] /\ items'[y] = items[y]) \/ y = x
          /\ UNCHANGED bindings
          /\ \E r : Writes(q, W, r)
      <4>1. CASE InsertProposal(q)
        BY <1>t, <4>1 DEF InsertProposal, TypeOK
      <4>2. CASE PopulateItem(q)
        BY <1>t, <4>2 DEF PopulateItem, TypeOK
      <4>3. CASE WriteItem(q)
        BY <1>t, <4>3 DEF WriteItem, TypeOK
      <4>4. CASE WriteProposal(q)
        BY <1>t, <4>4 DEF WriteProposal, TypeOK
      <4> QED  BY <2>2, <4>1, <4>2, <4>3, <4>4
    <3> HIDE DEF x
    <3>2. Changed(W)
      BY <1>4, <3>1 DEF Changed
    <3> QED  BY <1>w, <3>1, <3>2
  <2>3. CASE \/ CreateProposal(q) \/ ReadBinding(q) \/ EditItem(q) \/ SubmitProposal(q)
             \/ SubmitItems(q) \/ ValidateSelection(q) \/ ValidateCapacity(q)
    <3>1. (\E r : Reads(q, r)) /\ UNCHANGED selectionVars
      BY <2>3 DEF CreateProposal, ReadBinding, EditItem, SubmitProposal, SubmitItems,
                  ValidateSelection, ValidateCapacity
    <3> QED  BY <1>4, <1>r, <3>1
  <2>4. CASE \/ CarryOutVerdict(q) \/ DecideProposal(q) \/ ConfirmProposal(q) \/ ConfirmItems(q)
             \/ RegisterItems(q)
    <3>1. (\E r : Reads(q, r)) /\ UNCHANGED selectionVars
      BY <2>4 DEF CarryOutVerdict, DecideProposal, ConfirmProposal, ConfirmItems, RegisterItems
    <3> QED  BY <1>4, <1>r, <3>1
  <2> QED  BY <1>4, <2>1, <2>2, <2>3, <2>4 DEF SelectionStep
<1>5. CASE AwardStep(q) /\ UNCHANGED <<enrolmentVars, instances, registrationVars, selectionVars>>
  <2>1. \/ \E r : Reads(q, r)
        \/ \E r, W : Writes(q, W, r)
    BY <1>5 DEF AwardStep, ReadAwardEnrolment, CheckAwardBoard, CheckAward, InsertAward, AnnounceAward
  <2>2. \A W : Changed(W)
    BY <1>5 DEF Changed
  <2> QED  BY <1>5, <1>r, <1>w, <2>1, <2>2
<1>6. CASE /\ Fail(q)
           /\ UNCHANGED <<enrolmentVars, instances, registrationVars, selectionVars, awardVars>>
  BY <1>6, <1>r DEF Fail
<1> QED  BY <1>1, <1>2, <1>3, <1>4, <1>5, <1>6 DEF Step

\* A request takes a step, or stands by.
LEMMA NextBystanders ==
  ASSUME TypeInv, [Next]_vars, NEW p \in Requests
  PROVE  Bystander(p) \/ Step(p)
<1>1. CASE UNCHANGED vars
  BY <1>1 DEF vars, callVars, enrolmentVars, registrationVars, selectionVars, Bystander
<1>2. CASE TimePasses
  <2>1. PICK t \in Periods : WindowPasses(t)
    BY <1>2 DEF TimePasses
  <2>2. /\ req' = req /\ registrations' = registrations
        /\ \A u \in Periods : windows'[u] = windows[u] \/ u = t
        /\ InFlight(p) => overlapped'[p] = overlapped[p] \cup {t}
    BY <2>1 DEF WindowPasses, TypeInv, TypeOK
  <2> QED  BY <1>2, <2>2 DEF TimePasses, enrolmentVars, selectionVars, Bystander
<1>3. ASSUME NEW q \in Requests, Step(q), q # p PROVE Bystander(p)
  <2>1. PICK W : Writer(q, W)
    BY <1>3, StepWrites
  <2> QED  BY <1>3, <2>1 DEF Writer, Changed, Bystander
<1> QED  BY <1>1, <1>2, <1>3 DEF Next

\* Suspicion is never dropped.
LEMMA SuspectGrows ==
  ASSUME TypeInv, [Next]_vars
  PROVE  suspect \subseteq suspect'
<1>1. CASE UNCHANGED vars
  BY <1>1 DEF vars, callVars
<1>2. CASE TimePasses
  BY <1>2 DEF TimePasses, WindowPasses
<1>3. ASSUME NEW q \in Requests, Step(q) PROVE suspect \subseteq suspect'
  BY <1>3, StepWrites DEF Writer
<1> QED  BY <1>1, <1>2, <1>3 DEF Next

-------------------------------------------------------------------------------
(* From where a request arrives in a control state.                         *)

LEMMA Arrives ==
  ASSUME TypeInv, NEW q \in Requests, NEW r, NEW W, Reads(q, r) \/ Writes(q, W, r)
  PROVE  req'[q] = r
BY DEF Reads, Writes, TypeInv

LEMMA EnrolmentArrivals ==
  ASSUME TypeInv, NEW q \in Requests, EnrolmentStep(q)
  PROVE  \/ ReadTransition(q) /\ req'[q].at \in {"writeTransition", "done"}
         \/ WriteTransition(q) /\ req'[q].at \in {"commitEnrolment", "done"}
         \/ WriteEnrolment(q) /\ req'[q].at \in {"commitEnrolment", "done"}
         \/ CommitEnrolment(q) /\ req'[q].at \in {"announceAward", "done"}
<1>1. CASE ReadTransition(q)
  BY <1>1 DEF ReadTransition, Done, Reads, TypeInv
<1>2. CASE WriteTransition(q)
  BY <1>2 DEF WriteTransition, Done, Reads, TypeInv
<1>3. CASE WriteEnrolment(q)
  <2>1. PICK r : Reads(q, r) /\ r.at = "commitEnrolment"
    BY <1>3 DEF WriteEnrolment
  <2> QED  BY <1>3, <2>1 DEF Reads, TypeInv
<1>4. CASE CommitEnrolment(q)
  <2>1. req'[q] = req[q].then
    BY <1>4, Arrives DEF CommitEnrolment
  <2>2. req[q] \in EnrolmentRequest /\ req[q].at = "commitEnrolment"
    BY <1>4, RequestShape DEF CommitEnrolment, TypeInv, KnownRequest
  <2> QED  BY <1>4, <2>1, <2>2 DEF EnrolmentRequest, Announcing, Done
<1> QED  BY <1>1, <1>2, <1>3, <1>4 DEF EnrolmentStep

LEMMA WorkflowArrivals ==
  ASSUME TypeInv, NEW q \in Requests, WorkflowStep(q)
  PROVE  \/ StartInstance(q) /\ req'[q].at = "assignTask"
         \/ AssignTask(q) /\ req'[q].at \in {"writeProposal", "done"}
         \/ RecordDecision(q) /\ req'[q].at = "completeTask"
         \/ CompleteTask(q) /\ req'[q].at = "completeInstance"
         \/ /\ CompleteInstance(q)
            /\ req'[q].at \in {"writeProposal", "createRegistration", "transitionRegistration", "done"}
<1> DEFINE I == Present(instances)
           P == Present(proposals)
           R == Present(registrations)
<1>q. req[q] \in Request(I, P, R)
  BY DEF TypeInv, KnownRequest
<1> HIDE DEF I, P, R
<1>1. CASE StartInstance(q)
  BY <1>1, Arrives DEF StartInstance
<1>2. CASE AssignTask(q)
  <2>1. req[q].then \in Overwriting(I, P) \cup {Done}
    BY <1>q, <1>2, RequestShape DEF AssignTask
  <2>2. req'[q] = IF req[q].then = Done THEN Done ELSE [req[q].then EXCEPT !.instance = req[q].instance]
    BY <1>2, Arrives DEF AssignTask
  <2> QED  BY <1>2, <2>1, <2>2 DEF Overwriting, Done
<1>3. CASE RecordDecision(q) \/ CompleteTask(q) \/ CompleteInstance(q)
  <2>1. req[q] \in [at : {"recordDecision", "completeTask", "completeInstance"}, instance : I,
                    decision : Decisions, task : Tasks,
                    then : Overwriting(I, P) \cup Approved \cup {Done}]
    BY <1>q, <1>3, RequestShape DEF RecordDecision, CompleteTask, CompleteInstance
  <2>2. CASE RecordDecision(q)
    <3>1. req'[q] = [req[q] EXCEPT !.at = "completeTask"]
      BY <2>2, Arrives DEF RecordDecision
    <3> QED  BY <2>1, <2>2, <3>1
  <2>3. CASE CompleteTask(q)
    <3>1. req'[q] = [req[q] EXCEPT !.at = "completeInstance"]
      BY <2>3, Arrives DEF CompleteTask
    <3> QED  BY <2>1, <2>3, <3>1
  <2>4. CASE CompleteInstance(q)
    <3>1. req'[q] = req[q].then
      BY <2>4, Arrives DEF CompleteInstance
    <3>2. \A r \in Approved : r.at \in {"createRegistration", "transitionRegistration"}
      BY DEF Approved
    <3> QED  BY <2>1, <2>4, <3>1, <3>2 DEF Overwriting, Done
  <2> QED  BY <1>3, <2>2, <2>3, <2>4
<1> QED  BY <1>1, <1>2, <1>3 DEF WorkflowStep

LEMMA RegistrationArrivals ==
  ASSUME TypeInv, NEW q \in Requests, RegistrationStep(q)
  PROVE  \/ /\ CheckRegistration(q)
            /\ req'[q].at \in {"createRegistration", "insertRegistration", "done"}
         \/ InsertRegistration(q) /\ req'[q].at \in {"registerItems", "done"}
         \/ ReadRegistration(q) /\ req'[q].at \in {"writeRegistration", "done"}
         \/ WriteRegistration(q) /\ req'[q].at = "done"
         \/ RequestChange(q) /\ req'[q].at \in {"startInstance", "done"}
         \/ DecideChange(q) /\ req'[q].at \in {"findTask", "done"}
         \/ FindTask(q) /\ req'[q].at = "recordDecision"
         \/ SetWindow(q) /\ req'[q].at = "done"
<1> DEFINE I == Present(instances)
           P == Present(proposals)
           R == Present(registrations)
<1>q. req[q] \in Request(I, P, R)
  BY DEF TypeInv, KnownRequest
<1> HIDE DEF I, P, R
<1>1. CASE CheckRegistration(q) \/ InsertRegistration(q)
  <2>1. req[q] \in Creating(I, P)
    BY <1>q, <1>1, RequestShape DEF CheckRegistration, InsertRegistration
  <2>2. CASE CheckRegistration(q)
    <3>1. \/ req'[q] = Done
          \/ req'[q] = [req[q] EXCEPT !.at = "insertRegistration"]
          \/ req[q].at = "createRegistration" /\ req'[q] = [req[q] EXCEPT !.check = @ + 1]
      BY <2>2, Arrives DEF CheckRegistration
    <3> QED  BY <2>1, <2>2, <3>1 DEF Creating, Done
  <2>3. CASE InsertRegistration(q)
    <3>1. req'[q] = req[q].then
      BY <2>3, Arrives DEF InsertRegistration
    <3> QED  BY <2>1, <2>3, <3>1 DEF Creating, Registering, Done
  <2> QED  BY <1>1, <2>2, <2>3
<1>2. CASE ReadRegistration(q)
  <2>1. req[q] \in Changing(R)
    BY <1>q, <1>2, RequestShape DEF ReadRegistration
  <2>2. req'[q] = Done \/ req'[q] = [req[q] EXCEPT !.at = "writeRegistration"]
    BY <1>2, Arrives DEF ReadRegistration
  <2> QED  BY <1>2, <2>1, <2>2 DEF Changing, Done
<1>3. CASE WriteRegistration(q)
  BY <1>3, Arrives DEF WriteRegistration, Done
<1>4. CASE RequestChange(q)
  <2> DEFINE r == [at |-> "startInstance", context |-> req[q].context, then |-> Done]
  <2>1. Reads(q, r) \/ Reads(q, Done)
    BY <1>4 DEF RequestChange
  <2> QED  BY <1>4, <2>1 DEF Reads, TypeInv, Done
<1>5. CASE DecideChange(q)
  <2> DEFINE i == req[q].instance
             r == IF IsChangeRequest(i) /\ Running(i)
                  THEN [at |-> "findTask", instance |-> i, decision |-> req[q].decision,
                        then |-> AfterDecision(i, req[q].decision)]
                  ELSE Done
  <2>1. Reads(q, r)
    BY <1>5 DEF DecideChange
  <2>2. r.at \in {"findTask", "done"}
    BY DEF Done
  <2> HIDE DEF r
  <2> QED  BY <1>5, <2>1, <2>2 DEF Reads, TypeInv
<1>7. CASE FindTask(q)
  <2> DEFINE r == Closing(req[q].instance, req[q].decision, req[q].then)
  <2>1. Reads(q, r)
    BY <1>7 DEF FindTask
  <2>2. r.at = "recordDecision"
    BY DEF Closing
  <2> HIDE DEF r
  <2> QED  BY <1>7, <2>1, <2>2 DEF Reads, TypeInv
<1>6. CASE SetWindow(q)
  BY <1>6, Arrives DEF SetWindow, Done
<1> QED  BY <1>1, <1>2, <1>3, <1>4, <1>5, <1>6, <1>7 DEF RegistrationStep

LEMMA SelectionArrivals ==
  ASSUME TypeInv, NEW q \in Requests, SelectionStep(q)
  PROVE  \/ CreateProposal(q) /\ req'[q].at \in {"insertBinding", "insertProposal", "done"}
         \/ ReadBinding(q) /\ req'[q].at \in {"insertBinding", "closeBinding"}
         \/ CloseBinding(q) /\ req'[q].at = "insertBinding"
         \/ InsertBinding(q) /\ req'[q].at \in {"insertProposal", "done"}
         \/ InsertProposal(q) /\ req'[q].at \in {"populate", "done"}
         \/ PopulateItem(q) /\ req'[q].at \in {"populate", "done"}
         \/ EditItem(q) /\ req'[q].at \in {"writeItem", "done"}
         \/ WriteItem(q) /\ req'[q].at = "done"
         \/ SubmitProposal(q) /\ req'[q].at \in {"submitItems", "done"}
         \/ SubmitItems(q) /\ req'[q].at \in {"writeProposal", "done"}
         \/ WriteProposal(q) /\ req'[q].at \in {"validate", "confirmProposal", "done"}
         \/ ValidateSelection(q) /\ req'[q].at = "capacity"
         \/ ValidateCapacity(q) /\ req'[q].at = "verdict"
         \/ CarryOutVerdict(q) /\ req'[q].at \in {"startInstance", "writeProposal"}
         \/ DecideProposal(q) /\ req'[q].at \in {"recordDecision", "writeProposal", "done"}
         \/ ConfirmProposal(q) /\ req'[q].at = "confirmItems"
         \/ ConfirmItems(q) /\ req'[q].at = "registerItems"
         \/ RegisterItems(q) /\ req'[q].at \in {"createRegistration", "writeProposal"}
<1> DEFINE I == Present(instances)
           P == Present(proposals)
           R == Present(registrations)
           p == req[q].proposal
<1>q. req[q] \in Request(I, P, R)
  BY DEF TypeInv, KnownRequest
<1>r. ASSUME NEW r, Reads(q, r) PROVE req'[q] = r
  BY <1>r DEF Reads, TypeInv
<1>w. ASSUME NEW r, NEW W, Writes(q, W, r) PROVE req'[q] = r
  BY <1>w DEF Writes, TypeInv
<1> HIDE DEF I, P, R
<1>1. CASE CreateProposal(q)
  <2>1. PICK r : Reads(q, r) /\ r.at \in {"insertBinding", "insertProposal", "done"}
    BY <1>1 DEF CreateProposal, Done
  <2> QED  BY <1>1, <1>r, <2>1
<1>2. CASE ReadBinding(q)
  <2>1. PICK r : Reads(q, r) /\ r.at \in {"insertBinding", "closeBinding"}
    <3> DEFINE insert(b) == [at |-> "insertBinding", enrolment |-> req[q].enrolment,
                             binding |-> b, then |-> Done]
    <3>1. \/ Reads(q, insert(Absent))
          \/ \E b \in bindings[req[q].enrolment] : Reads(q, [insert(b) EXCEPT !.at = "closeBinding"])
      BY <1>2 DEF ReadBinding
    <3>2. /\ insert(Absent).at = "insertBinding"
          /\ \A b : [insert(b) EXCEPT !.at = "closeBinding"].at = "closeBinding"
      OBVIOUS
    <3> HIDE DEF insert
    <3> QED  BY <3>1, <3>2
  <2> QED  BY <1>2, <1>r, <2>1
<1>3. CASE CloseBinding(q) \/ InsertBinding(q)
  <2>1. req[q] \in [at : {"closeBinding", "insertBinding"}, enrolment : Enrolments,
                    binding : Bindings \cup {Absent}, then : InsertingProposal \cup {Done}]
    BY <1>q, <1>3, RequestShape DEF CloseBinding, InsertBinding
  <2>2. CASE CloseBinding(q)
    <3>1. req'[q] = [req[q] EXCEPT !.at = "insertBinding"]
      BY <1>w, <2>2 DEF CloseBinding
    <3> QED  BY <2>1, <2>2, <3>1
  <2>3. CASE InsertBinding(q)
    <3>1. req'[q] \in {Done, req[q].then}
      BY <1>r, <1>w, <2>3 DEF InsertBinding
    <3> QED  BY <2>1, <2>3, <3>1 DEF InsertingProposal, Done
  <2> QED  BY <1>3, <2>2, <2>3
<1>4. CASE InsertProposal(q)
  <2> DEFINE x == CHOOSE y \in Unused(proposals) : TRUE
             r == IF Compulsory = {} THEN Done
                  ELSE [at |-> "populate", proposal |-> x, left |-> Compulsory]
  <2>1. Writes(q, {x}, r)
    BY <1>4 DEF InsertProposal
  <2>2. r.at \in {"populate", "done"}
    BY DEF Done
  <2> HIDE DEF r, x
  <2> QED  BY <1>4, <1>w, <2>1, <2>2
<1>5. CASE PopulateItem(q)
  <2>1. req[q] \in [at : {"populate"}, proposal : P, left : SUBSET Items]
    BY <1>q, <1>5, RequestShape DEF PopulateItem
  <2>2. PICK i : req'[q] = IF req[q].left = {i} THEN Done ELSE [req[q] EXCEPT !.left = @ \ {i}]
    BY <1>5, <1>w DEF PopulateItem
  <2> QED  BY <1>5, <2>1, <2>2 DEF Done
<1>6. CASE EditItem(q)
  <2>1. PICK r : Reads(q, r) /\ r.at \in {"writeItem", "done"}
    <3> DEFINE r == [at |-> "writeItem", proposal |-> p, item |-> req[q].item,
                     adding |-> req[q].at = "addItem"]
    <3>1. Reads(q, r) \/ Reads(q, Done)
      BY <1>6 DEF EditItem
    <3>2. r.at = "writeItem" /\ Done.at = "done"
      BY DEF Done
    <3> HIDE DEF r
    <3> QED  BY <3>1, <3>2
  <2> QED  BY <1>6, <1>r, <2>1
<1>7. CASE WriteItem(q)
  BY <1>7, <1>w DEF WriteItem, Done
<1>8. CASE SubmitProposal(q)
  <2>1. \/ req'[q] = Done
        \/ req'[q] = [at |-> "submitItems", proposal |-> p, row |-> proposals[p]]
    BY <1>8, <1>r DEF SubmitProposal
  <2> QED  BY <1>8, <2>1 DEF Done
<1>9. CASE SubmitItems(q)
  <2>1. \/ req'[q] = Done
        \/ req'[q] = WriteOver(p, req[q].row, "submitted",
                               [at |-> "validate", proposal |-> p, items |-> items[p]])
    BY <1>9, <1>r DEF SubmitItems
  <2> QED  BY <1>9, <2>1 DEF Done, WriteOver
<1>10. CASE WriteProposal(q)
  <2>1. req'[q] = req[q].then
    BY <1>10, <1>w DEF WriteProposal
  <2>2. req[q].then \in Validating(P) \cup Confirming(P) \cup {Done}
    BY <1>q, <1>10, RequestShape DEF WriteProposal, Overwriting
  <2> QED  BY <1>10, <2>1, <2>2 DEF Validating, Confirming, Done
<1>11. CASE ValidateSelection(q)
  <2>1. PICK v : req'[q] = [at |-> "capacity", proposal |-> p, items |-> req[q].items, valid |-> v]
    BY <1>11, <1>r DEF ValidateSelection
  <2> QED  BY <1>11, <2>1
<1>12. CASE ValidateCapacity(q)
  <2>1. PICK v : req'[q] = [at |-> "verdict", proposal |-> p, verdict |-> v]
    BY <1>12, <1>r DEF ValidateCapacity
  <2> QED  BY <1>12, <2>1
<1>13. CASE CarryOutVerdict(q)
  <2> DEFINE w == WriteOver(p, proposals[p], req[q].verdict, AfterStatus(p, req[q].verdict))
  <2>1. \/ req'[q] = w
        \/ req'[q] = [at |-> "startInstance", then |-> w,
                      context |-> [action |-> "allocate", proposal |-> p]]
    BY <1>13, <1>r DEF CarryOutVerdict
  <2>2. w.at = "writeProposal"
    BY DEF WriteOver
  <2> HIDE DEF w
  <2> QED  BY <1>13, <2>1, <2>2
<1>14. CASE DecideProposal(q)
  <2> DEFINE w == WriteOver(p, proposals[p], req[q].decision, AfterStatus(p, req[q].decision))
             c == Closing(proposals[p].workflow, req[q].decision, w)
  <2>1. req'[q] \in {Done, w, c}
    BY <1>14, <1>r DEF DecideProposal
  <2>2. w.at = "writeProposal" /\ c.at = "recordDecision" /\ Done.at = "done"
    BY DEF WriteOver, Closing, Done
  <2> HIDE DEF w, c
  <2> QED  BY <1>14, <2>1, <2>2
<1>15. CASE ConfirmProposal(q)
  BY <1>15, <1>r DEF ConfirmProposal
<1>16. CASE ConfirmItems(q)
  BY <1>16, <1>r DEF ConfirmItems
<1>17. CASE RegisterItems(q)
  <2>1. \/ req'[q] = WriteOver(p, req[q].row, "confirmed", Done)
        \/ \E i : req'[q] = ItemRegistration(q, i)
    BY <1>17, <1>r DEF RegisterItems
  <2>2. ASSUME NEW i PROVE ItemRegistration(q, i).at = "createRegistration"
    BY DEF ItemRegistration, NewRegistration
  <2>3. WriteOver(p, req[q].row, "confirmed", Done).at = "writeProposal"
    BY DEF WriteOver
  <2> QED  BY <1>17, <2>1, <2>2, <2>3
<1> QED  BY <1>1, <1>2, <1>3, <1>4, <1>5, <1>6, <1>7, <1>8, <1>9, <1>10, <1>11, <1>12, <1>13,
            <1>14, <1>15, <1>16, <1>17 DEF SelectionStep

LEMMA AwardArrivals ==
  ASSUME TypeInv, NEW q \in Requests, AwardStep(q)
  PROVE  \/ ReadAwardEnrolment(q) /\ req'[q].at \in {"awardBoard", "awardExisting", "done"}
         \/ CheckAwardBoard(q) /\ req'[q].at \in {"awardExisting", "done"}
         \/ CheckAward(q) /\ req'[q].at \in {"insertAward", "done"}
         \/ InsertAward(q) /\ req'[q].at \in {"transitionStatus", "announceAward", "done"}
         \/ AnnounceAward(q) /\ req'[q].at = "done"
<1>r. ASSUME NEW r, Reads(q, r) PROVE req'[q] = r
  BY <1>r DEF Reads, TypeInv
<1>w. ASSUME NEW r, NEW W, Writes(q, W, r) PROVE req'[q] = r
  BY <1>w DEF Writes, TypeInv
<1>1. CASE ReadAwardEnrolment(q)
  <2>1. \/ req'[q] = Done
        \/ \E at \in {"awardBoard", "awardExisting"} :
             req'[q] = [at |-> at, enrolment |-> req[q].enrolment,
                        status |-> enrolments[req[q].enrolment]]
    BY <1>1, <1>r DEF ReadAwardEnrolment
  <2> QED  BY <1>1, <2>1 DEF Done
<1>2. CASE CheckAwardBoard(q) \/ CheckAward(q)
  <2>1. req[q] \in [at : {"awardBoard", "awardExisting", "insertAward"}, enrolment : Enrolments,
                    status : Statuses]
    BY <1>2, RequestShape DEF CheckAwardBoard, CheckAward, TypeInv, KnownRequest
  <2>2. CASE CheckAwardBoard(q)
    <3>1. req'[q] \in {Done, [req[q] EXCEPT !.at = "awardExisting"]}
      BY <1>r, <2>2 DEF CheckAwardBoard
    <3> QED  BY <2>1, <2>2, <3>1 DEF Done
  <2>3. CASE CheckAward(q)
    <3>1. req'[q] \in {Done, [req[q] EXCEPT !.at = "insertAward"]}
      BY <1>r, <2>3 DEF CheckAward
    <3> QED  BY <2>1, <2>3, <3>1 DEF Done
  <2> QED  BY <1>2, <2>2, <2>3
<1>3. CASE InsertAward(q)
  <2>1. req'[q] \in {Done, AfterAward(req[q].enrolment, req[q].status)}
    BY <1>3, <1>r, <1>w DEF InsertAward
  <2> QED  BY <1>3, <2>1 DEF AfterAward, Done
<1>4. CASE AnnounceAward(q)
  BY <1>4, <1>r DEF AnnounceAward, Done
<1> QED  BY <1>1, <1>2, <1>3, <1>4 DEF AwardStep

\* All of them together: from where a request arrives in each of its control states.
LEMMA Arrivals ==
  ASSUME TypeInv, NEW q \in Requests, Step(q)
  PROVE
    LET at == req'[q].at
    IN  /\ at = "writeTransition" => ReadTransition(q)
        /\ at = "commitEnrolment" => WriteTransition(q) \/ WriteEnrolment(q)
        /\ at = "transitionStatus" => InsertAward(q)
        /\ at = "announceAward" => InsertAward(q) \/ CommitEnrolment(q)
        /\ at = "awardExisting" => ReadAwardEnrolment(q) \/ CheckAwardBoard(q)
        /\ at = "insertAward" => CheckAward(q)
        /\ at = "startInstance" => RequestChange(q) \/ CarryOutVerdict(q)
        /\ at = "assignTask" => StartInstance(q)
        /\ at = "findTask" => DecideChange(q)
        /\ at = "recordDecision" => FindTask(q) \/ DecideProposal(q)
        /\ at = "completeTask" => RecordDecision(q)
        /\ at = "completeInstance" => CompleteTask(q)
        /\ at = "createRegistration" => CheckRegistration(q) \/ CompleteInstance(q) \/ RegisterItems(q)
        /\ at = "insertRegistration" => CheckRegistration(q)
        /\ at = "transitionRegistration" => CompleteInstance(q)
        /\ at = "writeRegistration" => ReadRegistration(q)
        /\ at = "closeBinding" => ReadBinding(q)
        /\ at = "insertBinding" => CreateProposal(q) \/ ReadBinding(q) \/ CloseBinding(q)
        /\ at = "insertProposal" => CreateProposal(q) \/ InsertBinding(q)
        /\ at = "populate" => InsertProposal(q) \/ PopulateItem(q)
        /\ at = "writeItem" => EditItem(q)
        /\ at = "submitItems" => SubmitProposal(q)
        /\ at = "writeProposal" =>
             \/ SubmitItems(q) \/ CarryOutVerdict(q) \/ DecideProposal(q) \/ RegisterItems(q)
             \/ AssignTask(q) \/ CompleteInstance(q)
        /\ at = "validate" => WriteProposal(q)
        /\ at = "capacity" => ValidateSelection(q)
        /\ at = "verdict" => ValidateCapacity(q)
        /\ at = "confirmProposal" => WriteProposal(q)
        /\ at = "confirmItems" => ConfirmProposal(q)
        /\ at = "registerItems" => ConfirmItems(q) \/ InsertRegistration(q)
<1>1. CASE EnrolmentStep(q)
  BY <1>1, EnrolmentArrivals
<1>2. CASE WorkflowStep(q)
  BY <1>2, WorkflowArrivals
<1>3. CASE RegistrationStep(q)
  BY <1>3, RegistrationArrivals
<1>4. CASE SelectionStep(q)
  BY <1>4, SelectionArrivals
<1>5. CASE AwardStep(q)
  BY <1>5, AwardArrivals
<1>6. CASE Fail(q)
  BY <1>6 DEF Fail, Reads, TypeInv, Done
<1> QED  BY <1>1, <1>2, <1>3, <1>4, <1>5, <1>6 DEF Step

===============================================================================
