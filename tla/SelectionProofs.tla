---------------------------- MODULE SelectionProofs ----------------------------
(***************************************************************************)
(* Theorems about module selection, the places of an offering and the      *)
(* limits of an enrolment, for every number of requests, proposals, items, *)
(* offerings and rows.                                                     *)
(*                                                                         *)
(* A proposal is accepted once its status is validated, approved or        *)
(* confirmed.  A request that writes a proposal decides it, and then has   *)
(* read it while it was not accepted, or confirms it, and then is the one  *)
(* that accepted it.  Whatever else is written to an accepted proposal is  *)
(* written in spite of an overlap, which makes the proposal suspect.       *)
(*                                                                         *)
(* The credits of a period are a sum over a set of rows.  That a finite    *)
(* set has sums, and that the fold computes them, is shown by the smallest *)
(* set for which it would fail.                                            *)
(***************************************************************************)
EXTENDS RegistrationProofs, WellFoundedInduction

-------------------------------------------------------------------------------
(* The requests on their way to a proposal, an instance or a registration.  *)

LEMMA SelectionFrame ==
  ASSUME NEW q \in Requests, Step(q)
  PROVE  \/ UNCHANGED <<proposals, items>>
         \/ InsertProposal(q) \/ PopulateItem(q) \/ WriteItem(q) \/ WriteProposal(q)
BY DEF Step, SelectionStep, CreateProposal, ReadBinding, CloseBinding, InsertBinding, EditItem,
       SubmitProposal, SubmitItems, ValidateSelection, ValidateCapacity, CarryOutVerdict,
       DecideProposal, ConfirmProposal, ConfirmItems, RegisterItems, selectionVars

LEMMA AfterStatusShape ==
  ASSUME NEW p, NEW status
  PROVE  \/ AfterStatus(p, status) = Done
         \/ /\ status \in {"validated", "approved"}
            /\ AfterStatus(p, status) = [at |-> "confirmProposal", proposal |-> p]
BY DEF AfterStatus

\* The shape of a request that overwrites a proposal.
LEMMA OverwritingShape ==
  ASSUME TypeInv, NEW q \in Requests, req[q].at = "writeProposal"
  PROVE  /\ req[q].proposal \in Proposals /\ proposals[req[q].proposal] # Absent
         /\ req[q].row \in Proposal /\ req[q].status \in ProposalStatuses
         /\ req[q].then.at \in {"validate", "confirmProposal", "done"}
<1> DEFINE I == Present(instances)
           P == Present(proposals)
<1>1. req[q] \in Overwriting(I, P)
  BY RequestShape DEF TypeInv, KnownRequest
<1>2. I \subseteq Instances /\ \A p \in P : p \in Proposals /\ proposals[p] # Absent
  BY DEF TypeInv, TypeOK, Present
<1> HIDE DEF I, P
<1>3. ProposalOver(I) \subseteq Proposal
  BY <1>2 DEF ProposalOver, Proposal
<1>4. /\ req[q].proposal \in P /\ req[q].row \in ProposalOver(I)
      /\ req[q].status \in ProposalStatuses
      /\ req[q].then \in Validating(P) \cup Confirming(P) \cup {Done}
  BY <1>1 DEF Overwriting
<1> QED  BY <1>2, <1>3, <1>4 DEF Validating, Confirming, Done

\* From where a request arrives on its way to a verdict, a decision or a confirmation,
\* and with what.
LEMMA DecidingMoves ==
  ASSUME TypeInv, NEW q \in Requests, Step(q)
  PROVE
    LET s == req[q]
        r == req'[q]
    IN  /\ r.at = "populate" =>
             \/ InsertProposal(q) /\ proposals'[r.proposal].status = "draft"
             \/ PopulateItem(q) /\ r.proposal = s.proposal
        /\ r.at = "writeItem" =>
             EditItem(q) /\ r.proposal = s.proposal /\ Editable(proposals[s.proposal].status)
        /\ r.at = "submitItems" =>
             SubmitProposal(q) /\ r.proposal = s.proposal /\ Editable(proposals[s.proposal].status)
        /\ r.at = "validate" => WriteProposal(q) /\ r = s.then
        /\ r.at = "capacity" =>
             ValidateSelection(q) /\ r.proposal = s.proposal /\ r.items = s.items
        /\ r.at = "verdict" =>
             /\ ValidateCapacity(q) /\ r.proposal = s.proposal
             /\ r.verdict = Verdict(s.valid, s.items)
        /\ r.at = "confirmProposal" => WriteProposal(q) /\ r = s.then
        /\ r.at = "confirmItems" =>
             ConfirmProposal(q) /\ r.proposal = s.proposal /\ r.row = proposals[s.proposal]
<1> DEFINE s == req[q]
           r == req'[q]
           p == s.proposal
<1>a. /\ r.at = "populate" => InsertProposal(q) \/ PopulateItem(q)
      /\ r.at = "writeItem" => EditItem(q)
      /\ r.at = "submitItems" => SubmitProposal(q)
      /\ r.at = "validate" => WriteProposal(q)
      /\ r.at = "capacity" => ValidateSelection(q)
      /\ r.at = "verdict" => ValidateCapacity(q)
      /\ r.at = "confirmProposal" => WriteProposal(q)
      /\ r.at = "confirmItems" => ConfirmProposal(q)
  BY Arrivals
<1>1. ASSUME InsertProposal(q), r.at = "populate" PROVE proposals'[r.proposal].status = "draft"
  <2> DEFINE V == Proposal \cup {Absent}
             x == CHOOSE y \in Unused(proposals) : TRUE
             row == [enrolment |-> s.enrolment, status |-> "draft", workflow |-> Absent]
             next == [at |-> "populate", proposal |-> x, left |-> Compulsory]
  <2>1. proposals \in [Proposals -> V]
    BY DEF TypeInv, TypeOK
  <2> HIDE DEF V
  <2>2. x \in Proposals
    BY <1>1, <2>1, UnusedChosen DEF InsertProposal
  <2>3. /\ proposals' = [proposals EXCEPT ![x] = row]
        /\ Writes(q, {x}, IF Compulsory = {} THEN Done ELSE next)
    BY <1>1 DEF InsertProposal
  <2> HIDE DEF x
  <2>4. r = IF Compulsory = {} THEN Done ELSE next
    BY <2>3, Arrives
  <2>5. r.proposal = x
    BY <1>1, <2>4 DEF Done
  <2>6. proposals'[x] = row
    BY <2>1, <2>2, <2>3
  <2> QED  BY <2>5, <2>6
<1>2. ASSUME PopulateItem(q), r.at = "populate" PROVE r.proposal = p
  <2>1. s \in [at : {"populate"}, proposal : Present(proposals), left : SUBSET Items]
    BY <1>2, RequestShape DEF PopulateItem, TypeInv, KnownRequest
  <2>2. PICK i : r = IF s.left = {i} THEN Done ELSE [s EXCEPT !.left = @ \ {i}]
    BY <1>2, Arrives DEF PopulateItem
  <2> QED  BY <1>2, <2>1, <2>2 DEF Done
<1>3. ASSUME EditItem(q), r.at = "writeItem"
      PROVE  r.proposal = p /\ Editable(proposals[p].status)
  <2> DEFINE next == [at |-> "writeItem", proposal |-> p, item |-> s.item,
                      adding |-> s.at = "addItem"]
             may == proposals[p] # Absent /\ Editable(proposals[p].status)
  <2>1. Reads(q, IF may THEN next ELSE Done)
    BY <1>3 DEF EditItem
  <2>2. next.proposal = p /\ Done.at = "done"
    BY DEF Done
  <2> HIDE DEF next, may
  <2>3. r = IF may THEN next ELSE Done
    BY <2>1, Arrives
  <2>4. may /\ r = next
    BY <1>3, <2>2, <2>3
  <2> QED  BY <2>2, <2>4 DEF may
<1>4. ASSUME SubmitProposal(q), r.at = "submitItems"
      PROVE  r.proposal = p /\ Editable(proposals[p].status)
  <2>1. \/ r = Done
        \/ /\ r = [at |-> "submitItems", proposal |-> p, row |-> proposals[p]]
           /\ Editable(proposals[p].status)
    BY <1>4, Arrives DEF SubmitProposal
  <2> QED  BY <1>4, <2>1 DEF Done
<1>5. ASSUME WriteProposal(q) PROVE r = s.then
  BY <1>5, Arrives DEF WriteProposal
<1>6. ASSUME ValidateSelection(q) PROVE r.proposal = p /\ r.items = s.items
  <2>1. PICK v : r = [at |-> "capacity", proposal |-> p, items |-> s.items, valid |-> v]
    BY <1>6, Arrives DEF ValidateSelection
  <2> QED  BY <2>1
<1>7. ASSUME ValidateCapacity(q) PROVE r.proposal = p /\ r.verdict = Verdict(s.valid, s.items)
  <2>1. r = [at |-> "verdict", proposal |-> p, verdict |-> Verdict(s.valid, s.items)]
    BY <1>7, Arrives DEF ValidateCapacity
  <2> QED  BY <2>1
<1>8. ASSUME ConfirmProposal(q) PROVE r.proposal = p /\ r.row = proposals[p]
  BY <1>8, Arrives DEF ConfirmProposal
<1> QED  BY <1>a, <1>1, <1>2, <1>3, <1>4, <1>5, <1>6, <1>7, <1>8

\* The same of the write of a proposal, at once or after an instance is started or closed.
Intended(s) ==
  IF s.at \in ClosingStates \cup {"startInstance", "assignTask"} THEN s.then ELSE s

LEMMA WritingMoves ==
  ASSUME TypeInv, NEW q \in Requests, Step(q)
  PROVE
    LET s == req[q]
        r == req'[q]
        Decided(w) == /\ w.proposal = s.proposal /\ w.then = AfterStatus(s.proposal, s.decision)
                      /\ w.status = s.decision /\ s.decision \in Decisions
                      /\ Decidable(proposals[s.proposal].status)
    IN  /\ r.at = "writeProposal" =>
             \/ /\ SubmitItems(q) /\ r.proposal = s.proposal /\ r.status = "submitted"
                /\ r.then = [at |-> "validate", proposal |-> s.proposal, items |-> items[s.proposal]]
             \/ /\ CarryOutVerdict(q) /\ r.proposal = s.proposal /\ r.status = s.verdict
                /\ r.then = AfterStatus(s.proposal, s.verdict)
             \/ DecideProposal(q) /\ Decided(r)
             \/ /\ RegisterItems(q) /\ s.left = {} /\ r.proposal = s.proposal
                /\ r.status = "confirmed" /\ r.then = Done
             \/ /\ AssignTask(q) /\ s.then.at = "writeProposal" /\ r.proposal = s.then.proposal
                /\ r.status = s.then.status /\ r.then = s.then.then
             \/ CompleteInstance(q) /\ r = s.then
        /\ r.at = "startInstance" =>
             \/ RequestChange(q) /\ r.then = Done
             \/ /\ CarryOutVerdict(q) /\ r.then.at = "writeProposal" /\ r.then.proposal = s.proposal
                /\ r.then.status = "waitlisted" /\ r.then.then = Done
        /\ r.at = "assignTask" => StartInstance(q) /\ r.then = s.then
        /\ r.at = "recordDecision" =>
             \/ FindTask(q) /\ r.then.at # "writeProposal"
             \/ DecideProposal(q) /\ Decided(r.then)
        /\ r.at \in {"completeTask", "completeInstance"} =>
             s.at \in ClosingStates /\ r.then = s.then
<1> DEFINE s == req[q]
           r == req'[q]
           p == s.proposal
           Decided(w) == /\ w.proposal = p /\ w.then = AfterStatus(p, s.decision)
                         /\ w.status = s.decision /\ s.decision \in Decisions
                         /\ Decidable(proposals[p].status)
<1>a. /\ r.at = "writeProposal" =>
           \/ SubmitItems(q) \/ CarryOutVerdict(q) \/ DecideProposal(q) \/ RegisterItems(q)
           \/ AssignTask(q) \/ CompleteInstance(q)
      /\ r.at = "startInstance" => RequestChange(q) \/ CarryOutVerdict(q)
      /\ r.at = "assignTask" => StartInstance(q)
      /\ r.at = "recordDecision" => FindTask(q) \/ DecideProposal(q)
      /\ r.at = "completeTask" => RecordDecision(q)
      /\ r.at = "completeInstance" => CompleteTask(q)
  BY Arrivals
<1>w. ASSUME NEW x, NEW row, NEW status, NEW then
      PROVE  LET w == WriteOver(x, row, status, then)
             IN  w.at = "writeProposal" /\ w.proposal = x /\ w.status = status /\ w.then = then
  BY DEF WriteOver
<1>1. ASSUME SubmitItems(q), r.at = "writeProposal"
      PROVE  /\ r.proposal = p /\ r.status = "submitted"
             /\ r.then = [at |-> "validate", proposal |-> p, items |-> items[p]]
  <2> DEFINE next == [at |-> "validate", proposal |-> p, items |-> items[p]]
  <2>1. r = Done \/ r = WriteOver(p, s.row, "submitted", next)
    BY <1>1, Arrives DEF SubmitItems
  <2> HIDE DEF next
  <2>2. r = WriteOver(p, s.row, "submitted", next)
    BY <1>1, <2>1 DEF Done
  <2>3. r.proposal = p /\ r.status = "submitted" /\ r.then = next
    BY <1>w, <2>2
  <2> QED  BY <2>3 DEF next
<1>2. ASSUME CarryOutVerdict(q)
      PROVE  \/ /\ r.at = "writeProposal" /\ r.proposal = p /\ r.status = s.verdict
                /\ r.then = AfterStatus(p, s.verdict)
             \/ /\ r.at = "startInstance" /\ r.then.at = "writeProposal" /\ r.then.proposal = p
                /\ r.then.status = "waitlisted" /\ r.then.then = Done
  <2> DEFINE after == AfterStatus(p, s.verdict)
             w == WriteOver(p, proposals[p], s.verdict, after)
             start == [at |-> "startInstance", then |-> w,
                       context |-> [action |-> "allocate", proposal |-> p]]
  <2>1. r = IF s.verdict = "waitlisted" THEN start ELSE w
    BY <1>2, Arrives DEF CarryOutVerdict
  <2>2. w.at = "writeProposal" /\ w.proposal = p /\ w.status = s.verdict /\ w.then = after
    BY <1>w
  <2>3. s.verdict = "waitlisted" => after = Done
    BY DEF AfterStatus
  <2> HIDE DEF w, after
  <2>4. start.at = "startInstance" /\ start.then = w
    OBVIOUS
  <2> HIDE DEF start
  <2> QED  BY <2>1, <2>2, <2>3, <2>4 DEF after
<1>3. ASSUME DecideProposal(q)
      PROVE  /\ r.at = "writeProposal" => Decided(r)
             /\ r.at = "recordDecision" => Decided(r.then)
  <2> DEFINE after == AfterStatus(p, s.decision)
             w == WriteOver(p, proposals[p], s.decision, after)
             c == Closing(proposals[p].workflow, s.decision, w)
  <2>1. r = Done \/ (r \in {w, c} /\ Decidable(proposals[p].status))
    BY <1>3, Arrives DEF DecideProposal
  <2>2. w.at = "writeProposal" /\ w.proposal = p /\ w.status = s.decision /\ w.then = after
    BY <1>w
  <2>3. s.decision \in Decisions
    <3>1. s \in [at : {"decideProposal"}, proposal : Proposals, decision : Decisions]
      BY <1>3, RequestShape DEF DecideProposal, TypeInv, KnownRequest
    <3> QED  BY <3>1
  <2> HIDE DEF w, after
  <2>4. c.at = "recordDecision" /\ c.then = w
    BY DEF Closing
  <2> HIDE DEF c
  <2> QED  BY <2>1, <2>2, <2>3, <2>4 DEF after, Done
<1>4. ASSUME RegisterItems(q), r.at = "writeProposal"
      PROVE  s.left = {} /\ r.proposal = p /\ r.status = "confirmed" /\ r.then = Done
  <2>1. \/ s.left = {} /\ r = WriteOver(p, s.row, "confirmed", Done)
        \/ \E i \in s.left : r = ItemRegistration(q, i)
    BY <1>4, Arrives DEF RegisterItems
  <2>2. \A i : ItemRegistration(q, i).at = "createRegistration"
    BY DEF ItemRegistration, NewRegistration
  <2>3. s.left = {} /\ r = WriteOver(p, s.row, "confirmed", Done)
    BY <1>4, <2>1, <2>2
  <2> QED  BY <1>w, <2>3
<1>5. ASSUME AssignTask(q), r.at = "writeProposal"
      PROVE  /\ s.then.at = "writeProposal" /\ r.proposal = s.then.proposal
             /\ r.status = s.then.status /\ r.then = s.then.then
  <2> DEFINE I == Present(instances)
             P == Present(proposals)
  <2>1. s \in [at : {"assignTask"}, instance : I, then : Overwriting(I, P) \cup {Done}]
    BY <1>5, RequestShape DEF AssignTask, TypeInv, KnownRequest
  <2> HIDE DEF I, P
  <2>2. r = IF s.then = Done THEN Done ELSE [s.then EXCEPT !.instance = s.instance]
    BY <1>5, Arrives DEF AssignTask
  <2> QED  BY <1>5, <2>1, <2>2 DEF Overwriting, Done
<1>6. ASSUME CompleteInstance(q) PROVE r = s.then
  BY <1>6, Arrives DEF CompleteInstance
<1>7. ASSUME RequestChange(q), r.at = "startInstance" PROVE r.then = Done
  <2> DEFINE next == [at |-> "startInstance", context |-> s.context, then |-> Done]
  <2>1. Reads(q, next) \/ Reads(q, Done)
    BY <1>7 DEF RequestChange
  <2>2. r = next \/ r = Done
    BY <2>1, Arrives
  <2> QED  BY <1>7, <2>2 DEF Done
<1>8. ASSUME StartInstance(q) PROVE r.then = s.then
  <2>1. PICK i : r = [at |-> "assignTask", instance |-> i, then |-> s.then]
    BY <1>8, Arrives DEF StartInstance
  <2> QED  BY <2>1
<1>9. ASSUME FindTask(q) PROVE r.then.at # "writeProposal"
  <2>1. s.then \in Approved \cup {Done}
    <3> DEFINE I == Present(instances)
    <3>1. s \in [at : {"findTask"}, instance : I, decision : {"approved", "rejected"},
                 then : Approved \cup {Done}]
      BY <1>9, RequestShape DEF FindTask, TypeInv, KnownRequest
    <3> HIDE DEF I
    <3> QED  BY <3>1
  <2>2. r.then = s.then
    <3>1. r = Closing(s.instance, s.decision, s.then)
      BY <1>9, Arrives DEF FindTask
    <3> HIDE DEF r
    <3> QED  BY <3>1 DEF Closing
  <2>3. /\ \A next \in Approved : next.at # "writeProposal"
        /\ Done.at # "writeProposal"
    BY DEF Approved, Done
  <2> HIDE DEF s, r
  <2> QED  BY <2>1, <2>2, <2>3
<1>10. ASSUME RecordDecision(q) \/ CompleteTask(q)
       PROVE  s.at \in ClosingStates /\ r.then = s.then
  <2>1. s.at \in ClosingStates
    BY <1>10 DEF RecordDecision, CompleteTask, ClosingStates
  <2>2. \E a \in ClosingStates : r = [s EXCEPT !.at = a]
    BY <1>10, Arrives DEF RecordDecision, CompleteTask, ClosingStates
  <2> QED  BY <2>1, <2>2, ClosingShape
<1> HIDE DEF Decided
<1>b. /\ r.at = "writeProposal" =>
           \/ SubmitItems(q) /\ r.proposal = p /\ r.status = "submitted"
              /\ r.then = [at |-> "validate", proposal |-> p, items |-> items[p]]
           \/ CarryOutVerdict(q) /\ r.proposal = p /\ r.status = s.verdict
              /\ r.then = AfterStatus(p, s.verdict)
           \/ DecideProposal(q) /\ Decided(r)
           \/ RegisterItems(q) /\ s.left = {} /\ r.proposal = p /\ r.status = "confirmed"
              /\ r.then = Done
           \/ AssignTask(q) /\ s.then.at = "writeProposal" /\ r.proposal = s.then.proposal
              /\ r.status = s.then.status /\ r.then = s.then.then
           \/ CompleteInstance(q) /\ r = s.then
  BY <1>a, <1>1, <1>2, <1>3, <1>4, <1>5, <1>6
<1>c. /\ r.at = "startInstance" =>
           \/ RequestChange(q) /\ r.then = Done
           \/ CarryOutVerdict(q) /\ r.then.at = "writeProposal" /\ r.then.proposal = p
              /\ r.then.status = "waitlisted" /\ r.then.then = Done
      /\ r.at = "assignTask" => StartInstance(q) /\ r.then = s.then
      /\ r.at = "recordDecision" =>
           \/ FindTask(q) /\ r.then.at # "writeProposal"
           \/ DecideProposal(q) /\ Decided(r.then)
      /\ r.at \in {"completeTask", "completeInstance"} =>
           s.at \in ClosingStates /\ r.then = s.then
  BY <1>a, <1>2, <1>3, <1>7, <1>8, <1>9, <1>10
<1> QED  BY <1>b, <1>c DEF Decided

\* The same of the registration of the items, and of registrations in general.
LEMMA CreatingMoves ==
  ASSUME TypeInv, NEW q \in Requests, Step(q)
  PROVE
    LET s == req[q]
        r == req'[q]
    IN  /\ r.at = "registerItems" =>
             \/ /\ ConfirmItems(q) /\ r.proposal = s.proposal /\ r.row = s.row
                /\ r.left = Offered(items[s.proposal])
             \/ InsertRegistration(q) /\ r = s.then
        /\ r.at \in CreatingStates =>
             \/ /\ CheckRegistration(q) /\ r.enrolment = s.enrolment /\ r.offering = s.offering
                /\ r.skip = s.skip /\ r.by = s.by /\ r.then = s.then
                /\ Passes(Checks[s.check], s.enrolment, s.offering, s.skip) /\ s.check \in 1..6
                /\ r.at = "insertRegistration" => s.check = 6
                /\ r.at = "createRegistration" => r.check = s.check + 1
             \/ CompleteInstance(q) /\ r = s.then /\ r \in Approved
             \/ /\ RegisterItems(q) /\ r.at = "createRegistration" /\ r.check = 1
                /\ r.enrolment = s.row.enrolment
                /\ r.by = [kind |-> "proposal", proposal |-> s.proposal, status |-> s.row.status]
                /\ r.then.at = "registerItems" /\ r.then.proposal = s.proposal
                /\ r.then.row = s.row
                /\ \E i \in s.left : r.offering = OfferingOf[i] /\ r.then.left = s.left \ {i}
<1> DEFINE s == req[q]
           r == req'[q]
           p == s.proposal
<1>a. /\ r.at = "registerItems" => ConfirmItems(q) \/ InsertRegistration(q)
      /\ r.at = "createRegistration" => CheckRegistration(q) \/ CompleteInstance(q) \/ RegisterItems(q)
      /\ r.at = "insertRegistration" => CheckRegistration(q)
  BY Arrivals
<1>1. ASSUME ConfirmItems(q)
      PROVE  r.proposal = p /\ r.row = s.row /\ r.left = Offered(items[p])
  <2> DEFINE left == Offered(items[p])
  <2>1. r = [at |-> "registerItems", proposal |-> p, row |-> s.row, left |-> left]
    BY <1>1, Arrives DEF ConfirmItems
  <2> HIDE DEF left
  <2> QED  BY <2>1 DEF left
<1>2. ASSUME InsertRegistration(q) PROVE r = s.then
  BY <1>2, Arrives DEF InsertRegistration
<1>3. ASSUME CheckRegistration(q), r.at \in CreatingStates
      PROVE  /\ r.enrolment = s.enrolment /\ r.offering = s.offering
             /\ r.skip = s.skip /\ r.by = s.by /\ r.then = s.then
             /\ Passes(Checks[s.check], s.enrolment, s.offering, s.skip) /\ s.check \in 1..6
             /\ r.at = "insertRegistration" => s.check = 6
             /\ r.at = "createRegistration" => r.check = s.check + 1
  <2>1. s \in Creating(Present(instances), Present(proposals)) /\ s.at = "createRegistration"
    BY <1>3, RequestShape DEF CheckRegistration, TypeInv, KnownRequest
  <2>2. s.check \in 1..6
    BY <2>1 DEF Creating
  <2>3. Len(Checks) = 6
    BY DEF Checks
  <2>4. r = IF ~Passes(Checks[s.check], s.enrolment, s.offering, s.skip) THEN Done
            ELSE IF s.check = 6 THEN [s EXCEPT !.at = "insertRegistration"]
            ELSE [s EXCEPT !.check = @ + 1]
    BY <1>3, <2>3, Arrives DEF CheckRegistration
  <2>5. /\ Passes(Checks[s.check], s.enrolment, s.offering, s.skip)
        /\ r = IF s.check = 6 THEN [s EXCEPT !.at = "insertRegistration"]
               ELSE [s EXCEPT !.check = @ + 1]
    BY <1>3, <2>4 DEF Done, CreatingStates
  <2>6. /\ r.enrolment = s.enrolment /\ r.offering = s.offering
        /\ r.skip = s.skip /\ r.by = s.by /\ r.then = s.then
        /\ r.at = "insertRegistration" => s.check = 6
        /\ r.at = "createRegistration" => r.check = s.check + 1
    BY <2>1, <2>2, <2>5 DEF Creating
  <2> QED  BY <2>2, <2>5, <2>6
<1>4. ASSUME CompleteInstance(q), r.at = "createRegistration" PROVE r = s.then /\ r \in Approved
  <2>1. s.at \in ClosingStates /\ r = s.then
    BY <1>4, Arrives DEF CompleteInstance, ClosingStates
  <2>2. s.then \in Overwriting(Present(instances), Present(proposals)) \cup Approved \cup {Done}
    BY <2>1, ClosingShape
  <2> QED  BY <1>4, <2>1, <2>2 DEF Overwriting, Done
<1>5. ASSUME RegisterItems(q), r.at = "createRegistration"
      PROVE  /\ r.check = 1
             /\ r.enrolment = s.row.enrolment
             /\ r.by = [kind |-> "proposal", proposal |-> p, status |-> s.row.status]
             /\ r.then.at = "registerItems" /\ r.then.proposal = p /\ r.then.row = s.row
             /\ \E i \in s.left : r.offering = OfferingOf[i] /\ r.then.left = s.left \ {i}
  <2>1. \/ r = WriteOver(p, s.row, "confirmed", Done)
        \/ \E i \in s.left : r = ItemRegistration(q, i)
    BY <1>5, Arrives DEF RegisterItems
  <2>2. WriteOver(p, s.row, "confirmed", Done).at = "writeProposal"
    BY DEF WriteOver
  <2>3. PICK i \in s.left : r = ItemRegistration(q, i)
    BY <1>5, <2>1, <2>2
  <2>4. s \in Registering(Present(instances), Present(proposals))
    BY <1>5, RequestShape DEF RegisterItems, TypeInv, KnownRequest
  <2> DEFINE rest == [s EXCEPT !.left = @ \ {i}]
             by == [kind |-> "proposal", proposal |-> p, status |-> s.row.status]
  <2>5. /\ rest.at = "registerItems" /\ rest.proposal = p /\ rest.row = s.row
        /\ rest.left = s.left \ {i}
    BY <2>4 DEF Registering
  <2>6. r = NewRegistration(s.row.enrolment, OfferingOf[i], TRUE, by, rest)
    BY <2>3 DEF ItemRegistration, ByProposal
  <2> HIDE DEF rest, by
  <2>7. /\ r.check = 1 /\ r.enrolment = s.row.enrolment /\ r.by = by /\ r.then = rest
        /\ r.offering = OfferingOf[i]
    BY <2>6 DEF NewRegistration
  <2> QED  BY <2>5, <2>7 DEF by
<1>6. ASSUME CreatingStates = {"createRegistration", "insertRegistration"}
      PROVE  r.at \in CreatingStates =>
               \/ CheckRegistration(q) \/ (CompleteInstance(q) /\ r.at = "createRegistration")
               \/ (RegisterItems(q) /\ r.at = "createRegistration")
  BY <1>a, <1>6
<1> QED  BY <1>a, <1>1, <1>2, <1>3, <1>4, <1>5, <1>6 DEF CreatingStates

-------------------------------------------------------------------------------
(* Accepted proposals.                                                      *)

Accepting == {"validated", "approved", "confirmed"}

Accepted(p) == proposals[p] # Absent /\ proposals[p].status \in Accepting

\* A write of the proposal by the request makes the proposal suspect, or it is that already.
Loose(q, p) == p \in overlapped[q] \/ p \in suspect

\* The request has read the proposal, or made it, and is to write it or its items.
Deciding(s, p) ==
  \/ /\ s.at \in {"populate", "writeItem", "submitItems", "validate", "capacity", "verdict"}
     /\ s.proposal = p
  \/ LET w == Intended(s)
     IN  w.at = "writeProposal" /\ w.status # "confirmed" /\ w.proposal = p

\* The request has accepted the proposal, and registers its items.
Confirms(s, p) ==
  \/ s.at \in {"confirmProposal", "confirmItems", "registerItems"} /\ s.proposal = p
  \/ s.at \in CreatingStates /\ s.by.kind = "proposal" /\ s.by.proposal = p
  \/ s.at = "writeProposal" /\ s.status = "confirmed" /\ s.proposal = p

\* A write and what follows it are about the same proposal.
WriteChained(w) ==
  /\ w.status = "confirmed" => w.then = Done
  /\ w.then.at = "confirmProposal" =>
       w.then.proposal = w.proposal /\ w.status \in {"validated", "approved"}
  /\ w.then.at = "validate" => w.then.proposal = w.proposal /\ w.status = "submitted"

\* What a request carries from one service into another.
Chained(s) ==
  /\ s.at = "writeProposal" => WriteChained(s)
  /\ s.at # "writeProposal" /\ Intended(s).at = "writeProposal" =>
       /\ WriteChained(Intended(s))
       /\ Intended(s).status \notin {"confirmed", "validated", "submitted"}
  /\ s.at \in CreatingStates =>
       IF s.by.kind = "proposal"
       THEN /\ s.then.at = "registerItems" /\ s.then.proposal = s.by.proposal
            /\ s.then.row.status = s.by.status /\ s.then.row.enrolment = s.enrolment
       ELSE s.then = Done /\ ~s.skip

SelectionInv ==
  /\ \A q \in Requests : Chained(req[q])
  /\ \A q \in Requests, p \in Proposals :
       /\ Deciding(req[q], p) => ~Accepted(p) \/ Loose(q, p)
       /\ Confirms(req[q], p) => Accepted(p) \/ p \in suspect
  /\ \A q, r \in Requests, p \in Proposals :
       q # r /\ Confirms(req[q], p) /\ Confirms(req[r], p) => p \in suspect
  /\ \A p \in Proposals : RowsBy(p) # {} => Accepted(p) \/ p \in suspect

LEMMA InitSelection == Init => SelectionInv
<1> SUFFICES ASSUME Init PROVE SelectionInv
  OBVIOUS
<1>1. ASSUME NEW q \in Requests
      PROVE  Chained(req[q]) /\ \A p : ~Deciding(req[q], p) /\ ~Confirms(req[q], p)
  <2>1. req[q] \in Call
    BY CallsAssumption, ScenariosAssumption DEF Init, CallsInit
  <2>2. /\ req[q].at \in Entries \ {"done"}
        /\ req[q].at = "createRegistration" => req[q].by = Staff /\ req[q].then = Done /\ ~req[q].skip
    BY <2>1 DEF Call, Entries
  <2>3. Intended(req[q]) = req[q] /\ req[q].at # "insertRegistration"
    BY <2>2 DEF Intended, ClosingStates, Entries
  <2>4. Staff.kind # "proposal"
    BY DEF Staff
  <2>5. Chained(req[q])
    BY <2>2, <2>3, <2>4 DEF Chained, CreatingStates, Entries
  <2>6. \A p : ~Deciding(req[q], p)
    BY <2>2, <2>3 DEF Deciding, Entries
  <2>7. \A p : ~Confirms(req[q], p)
    BY <2>2, <2>3, <2>4 DEF Confirms, CreatingStates, Entries
  <2> QED  BY <2>5, <2>6, <2>7
<1>2. \A p \in Proposals : RowsBy(p) = {}
  <2>1. registrations \in [Rows -> Registration({Staff}) \cup {Absent}]
    BY ScenariosAssumption DEF Init
  <2>2. \A r \in Rows : registrations[r] # Absent => registrations[r].by.kind # "proposal"
    BY <2>1 DEF Registration, Staff
  <2> QED  BY <2>2 DEF RowsBy
<1> QED  BY <1>1, <1>2 DEF SelectionInv

LEMMA ChainedStays ==
  ASSUME TypeInv, NEW q \in Requests, Step(q), Chained(req[q])
  PROVE  Chained(req'[q])
<1> DEFINE s == req[q]
           r == req'[q]
<1>a. ASSUME NEW p, NEW status, NEW w, w.proposal = p, w.status = status,
             w.then = AfterStatus(p, status), status # "confirmed"
      PROVE  WriteChained(w)
  <2>1. AfterStatus(p, status) = Done => w.then.at = "done"
    BY <1>a DEF Done
  <2>2. AfterStatus(p, status) = [at |-> "confirmProposal", proposal |-> p] =>
          w.then.at = "confirmProposal" /\ w.then.proposal = p
    BY <1>a
  <2> QED  BY <1>a, <2>1, <2>2, AfterStatusShape DEF WriteChained
<1>s. Intended(s).at = "writeProposal" => WriteChained(Intended(s))
  BY DEF Chained, Intended, ClosingStates
<1>d. ASSUME NEW w, w.proposal = s.proposal, w.then = AfterStatus(s.proposal, s.decision),
             w.status = s.decision, s.decision \in Decisions
      PROVE  WriteChained(w) /\ w.status \notin {"confirmed", "validated", "submitted"}
  BY <1>d, <1>a DEF Decisions
<1>1. r.at = "writeProposal" => WriteChained(r)
  <2> HAVE r.at = "writeProposal"
  <2>1. CASE /\ SubmitItems(q) /\ r.proposal = s.proposal /\ r.status = "submitted"
             /\ r.then = [at |-> "validate", proposal |-> s.proposal, items |-> items[s.proposal]]
    <3>1. r.then.at = "validate" /\ r.then.proposal = s.proposal
      BY <2>1
    <3> QED  BY <2>1, <3>1 DEF WriteChained
  <2>2. CASE /\ CarryOutVerdict(q) /\ r.proposal = s.proposal /\ r.status = s.verdict
             /\ r.then = AfterStatus(s.proposal, s.verdict)
    <3>1. s.verdict # "confirmed"
      <4>1. s \in [at : {"verdict"}, proposal : Present(proposals),
                   verdict : {"returned", "waitlisted", "validated"}]
        BY <2>2, RequestShape DEF CarryOutVerdict, TypeInv, KnownRequest
      <4> QED  BY <4>1
    <3> QED  BY <1>a, <2>2, <3>1
  <2>3. CASE /\ r.proposal = s.proposal /\ r.then = AfterStatus(s.proposal, s.decision)
             /\ r.status = s.decision /\ s.decision \in Decisions
    BY <1>d, <2>3
  <2>4. CASE r.status = "confirmed" /\ r.then = Done
    BY <2>4 DEF WriteChained, Done
  <2>5. CASE /\ AssignTask(q) /\ s.then.at = "writeProposal" /\ r.proposal = s.then.proposal
             /\ r.status = s.then.status /\ r.then = s.then.then
    <3>1. Intended(s) = s.then
      BY <2>5 DEF AssignTask, Intended
    <3>2. WriteChained(s.then)
      BY <1>s, <2>5, <3>1
    <3> QED  BY <2>5, <3>2 DEF WriteChained
  <2>6. CASE CompleteInstance(q) /\ r = s.then
    <3>1. Intended(s) = s.then
      BY <2>6 DEF CompleteInstance, Intended, ClosingStates
    <3> QED  BY <1>s, <2>6, <3>1
  <2> QED  BY <2>1, <2>2, <2>3, <2>4, <2>5, <2>6, WritingMoves
<1>2. r.at # "writeProposal" /\ Intended(r).at = "writeProposal" =>
        WriteChained(Intended(r)) /\ Intended(r).status \notin {"confirmed", "validated", "submitted"}
  <2> HAVE r.at # "writeProposal" /\ Intended(r).at = "writeProposal"
  <2>0. r.at \in ClosingStates \cup {"startInstance", "assignTask"} /\ Intended(r) = r.then
    BY DEF Intended
  <2>1. CASE r.at = "startInstance"
    <3>1. \/ r.then = Done
          \/ r.then.at = "writeProposal" /\ r.then.status = "waitlisted" /\ r.then.then = Done
      BY <2>1, WritingMoves
    <3>2. r.then.at = "writeProposal" /\ r.then.status = "waitlisted" /\ r.then.then.at = "done"
      BY <2>0, <3>1 DEF Done
    <3> QED  BY <2>0, <3>2 DEF WriteChained
  <2>2. CASE r.at = "recordDecision"
    BY <1>d, <2>0, <2>2, WritingMoves
  <2>3. CASE r.at \in {"assignTask", "completeTask", "completeInstance"}
    <3>1. r.then = s.then /\ s.at \in ClosingStates \cup {"startInstance"}
      BY <2>3, WritingMoves DEF StartInstance
    <3>2. Intended(s) = s.then /\ s.at # "writeProposal"
      BY <3>1 DEF Intended, ClosingStates
    <3> QED  BY <2>0, <3>1, <3>2 DEF Chained
  <2> QED  BY <2>0, <2>1, <2>2, <2>3 DEF ClosingStates
<1>3. r.at \in CreatingStates =>
        IF r.by.kind = "proposal"
        THEN /\ r.then.at = "registerItems" /\ r.then.proposal = r.by.proposal
             /\ r.then.row.status = r.by.status /\ r.then.row.enrolment = r.enrolment
        ELSE r.then = Done /\ ~r.skip
  <2> HAVE r.at \in CreatingStates
  <2>1. CASE /\ CheckRegistration(q) /\ r.enrolment = s.enrolment /\ r.skip = s.skip
             /\ r.by = s.by /\ r.then = s.then
    <3>1. s.at \in CreatingStates
      BY <2>1 DEF CheckRegistration, CreatingStates
    <3> QED  BY <2>1, <3>1 DEF Chained
  <2>2. CASE r \in Approved
    <3>1. r.by.kind = "request" /\ r.then = Done /\ r.skip = FALSE
      BY <2>2 DEF Approved, CreatingStates
    <3> QED  BY <3>1
  <2>3. CASE /\ r.enrolment = s.row.enrolment
             /\ r.by = [kind |-> "proposal", proposal |-> s.proposal, status |-> s.row.status]
             /\ r.then.at = "registerItems" /\ r.then.proposal = s.proposal /\ r.then.row = s.row
    <3>1. r.by.kind = "proposal" /\ r.by.proposal = s.proposal /\ r.by.status = s.row.status
      BY <2>3
    <3> QED  BY <2>3, <3>1
  <2> QED  BY <2>1, <2>2, <2>3, CreatingMoves
<1> QED  BY <1>1, <1>2, <1>3 DEF Chained

LEMMA ProposalOverwritten ==
  ASSUME TypeInv, NEW q \in Requests, WriteProposal(q)
  PROVE  LET p == req[q].proposal
         IN  /\ p \in Proposals /\ items' = items
             /\ proposals'[p] # Absent /\ proposals'[p].status = req[q].status
             /\ \A x \in Proposals : x # p => proposals'[x] = proposals[x]
             /\ p \in overlapped[q] => p \in suspect'
<1> DEFINE s == req[q]
           p == s.proposal
           row == [s.row EXCEPT !.status = s.status, !.workflow = s.instance]
           V == Proposal \cup {Absent}
<1>1. p \in Proposals /\ s.row \in Proposal /\ s.status \in ProposalStatuses
  BY OverwritingShape DEF WriteProposal
<1>2. s.instance \in Instances \cup {Absent}
  <2>1. s \in Overwriting(Present(instances), Present(proposals))
    BY RequestShape DEF WriteProposal, TypeInv, KnownRequest
  <2> QED  BY <2>1 DEF Overwriting, Present, TypeInv, TypeOK
<1>3. row \in Proposal /\ row.status = s.status
  BY <1>1, <1>2 DEF Proposal
<1>4. proposals \in [Proposals -> V]
  BY DEF TypeInv, TypeOK
<1>5. /\ proposals' = [proposals EXCEPT ![p] = row] /\ items' = items
      /\ Writes(q, {p}, s.then)
  BY DEF WriteProposal
<1> HIDE DEF V, row
<1>6. proposals'[p] = row /\ \A x \in Proposals : x # p => proposals'[x] = proposals[x]
  BY <1>1, <1>4, <1>5
<1>7. p \in overlapped[q] => p \in suspect'
  BY <1>5 DEF Writes
<1> QED  BY <1>1, <1>3, <1>5, <1>6, <1>7, AbsentAssumption

\* What a step may do to a proposal and its items.
LEMMA ProposalMoves ==
  ASSUME TypeInv, NEW q \in Requests, Step(q), NEW p \in Proposals
  PROVE  \/ proposals'[p] = proposals[p] /\ items'[p] = items[p]
         \/ /\ InsertProposal(q) /\ proposals[p] = Absent /\ items'[p] = items[p]
            /\ proposals'[p].status = "draft"
         \/ /\ Deciding(req[q], p) /\ proposals'[p] = proposals[p]
            /\ p \in overlapped[q] => p \in suspect'
         \/ WriteProposal(q) /\ req[q].proposal = p /\ items'[p] = items[p]
<1> DEFINE s == req[q]
<1>1. CASE UNCHANGED <<proposals, items>>
  BY <1>1
<1>2. CASE InsertProposal(q)
  <2> DEFINE V == Proposal \cup {Absent}
             x == CHOOSE y \in Unused(proposals) : TRUE
             row == [enrolment |-> s.enrolment, status |-> "draft", workflow |-> Absent]
  <2>1. proposals \in [Proposals -> V]
    BY DEF TypeInv, TypeOK
  <2> HIDE DEF V
  <2>2. x \in Proposals /\ proposals[x] = Absent
    BY <1>2, <2>1, UnusedChosen DEF InsertProposal
  <2>3. proposals' = [proposals EXCEPT ![x] = row] /\ items' = items
    BY <1>2 DEF InsertProposal
  <2>4. row.status = "draft"
    OBVIOUS
  <2> HIDE DEF x, row
  <2>5. CASE p = x
    BY <1>2, <2>1, <2>2, <2>3, <2>4, <2>5
  <2>6. CASE p # x
    BY <2>1, <2>3, <2>6
  <2> QED  BY <2>5, <2>6
<1>3. CASE PopulateItem(q)
  <2>1. PICK i, r : /\ items' = [items EXCEPT ![s.proposal] = @ \cup {i}]
                    /\ Writes(q, {s.proposal}, r)
    BY <1>3 DEF PopulateItem
  <2>2. s.at = "populate" /\ proposals' = proposals
    BY <1>3 DEF PopulateItem
  <2>3. CASE s.proposal = p
    BY <2>1, <2>2, <2>3 DEF Deciding, Writes
  <2>4. CASE s.proposal # p
    BY <2>1, <2>2, <2>4 DEF TypeInv, TypeOK
  <2> QED  BY <2>3, <2>4
<1>4. CASE WriteItem(q)
  <2>1. PICK list : items' = [items EXCEPT ![s.proposal] = list]
    BY <1>4 DEF WriteItem
  <2>2. s.at = "writeItem" /\ proposals' = proposals /\ Writes(q, {s.proposal}, Done)
    BY <1>4 DEF WriteItem
  <2>3. CASE s.proposal = p
    BY <2>2, <2>3 DEF Deciding, Writes
  <2>4. CASE s.proposal # p
    BY <2>1, <2>2, <2>4 DEF TypeInv, TypeOK
  <2> QED  BY <2>3, <2>4
<1>5. CASE WriteProposal(q)
  BY <1>5, ProposalOverwritten
<1> QED  BY <1>1, <1>2, <1>3, <1>4, <1>5, SelectionFrame

\* Whatever is written to an accepted proposal is written in spite of an overlap, except
\* its confirmation.
LEMMA AcceptedStays ==
  ASSUME TypeInv, SelectionInv, NEW q \in Requests, Step(q), NEW p \in Proposals, Accepted(p)
  PROVE  \/ p \in suspect'
         \/ /\ items'[p] = items[p]
            /\ \/ proposals'[p] = proposals[p]
               \/ /\ WriteProposal(q) /\ Confirms(req[q], p)
                  /\ proposals'[p] # Absent /\ proposals'[p].status = "confirmed"
<1> DEFINE s == req[q]
<1>s. suspect \subseteq suspect'
  BY SuspectGrows DEF Next
<1>d. Deciding(s, p) => Loose(q, p)
  BY DEF SelectionInv
<1>1. CASE Deciding(s, p) /\ (p \in overlapped[q] => p \in suspect')
  BY <1>1, <1>d, <1>s DEF Loose
<1>2. CASE WriteProposal(q) /\ s.proposal = p /\ items'[p] = items[p]
  <2>1. /\ s.at = "writeProposal" /\ proposals'[p] # Absent /\ proposals'[p].status = s.status
        /\ p \in overlapped[q] => p \in suspect'
    BY <1>2, ProposalOverwritten DEF WriteProposal
  <2>2. CASE s.status = "confirmed"
    BY <1>2, <2>1, <2>2 DEF Confirms
  <2>3. CASE s.status # "confirmed"
    <3>1. Deciding(s, p)
      BY <1>2, <2>1, <2>3 DEF Deciding, Intended, ClosingStates
    <3> QED  BY <2>1, <3>1, <1>d, <1>s DEF Loose
  <2> QED  BY <2>2, <2>3
<1> QED  BY <1>1, <1>2, ProposalMoves DEF Accepted

LEMMA AcceptedKept ==
  ASSUME TypeInv, SelectionInv, [Next]_vars, NEW p \in Proposals, Accepted(p) \/ p \in suspect
  PROVE  Accepted(p)' \/ p \in suspect'
<1>1. CASE p \in suspect
  BY <1>1, SuspectGrows
<1>2. ASSUME Accepted(p), NEW q \in Requests, Step(q)
      PROVE  Accepted(p)' \/ p \in suspect'
  BY <1>2, AcceptedStays DEF Accepted, Accepting
<1>3. CASE UNCHANGED vars \/ TimePasses
  <2>1. proposals' = proposals
    BY <1>3 DEF vars, TimePasses, selectionVars
  <2> QED  BY <2>1, SuspectGrows DEF Accepted
<1> QED  BY <1>1, <1>2, <1>3 DEF Next

\* A request that decides a proposal has decided it before, or finds it undecided.
LEMMA DecidesFrom ==
  ASSUME TypeInv, NEW q \in Requests, Step(q), Chained(req[q]), NEW p, Deciding(req'[q], p)
  PROVE  \/ ~Accepted(p)'
         \/ Deciding(req[q], p) /\ proposals'[p] = proposals[p]
<1> DEFINE s == req[q]
           r == req'[q]
<1>f. ~InsertProposal(q) /\ ~WriteProposal(q) => proposals' = proposals
  BY SelectionFrame DEF PopulateItem, WriteItem
<1>e. ASSUME NEW a, Editable(proposals[a].status) \/ Decidable(proposals[a].status)
      PROVE  proposals[a].status \notin Accepting
  BY <1>e DEF Editable, Decidable, Accepting
<1>b. /\ SubmitItems(q) => s.at = "submitItems"
      /\ CarryOutVerdict(q) => s.at = "verdict"
      /\ DecideProposal(q) => s.at = "decideProposal"
      /\ RegisterItems(q) => s.at = "registerItems"
      /\ AssignTask(q) => s.at = "assignTask"
      /\ CompleteInstance(q) => s.at = "completeInstance"
  BY DEF SubmitItems, CarryOutVerdict, DecideProposal, RegisterItems, AssignTask, CompleteInstance
<1>1. CASE r.at = "populate" /\ r.proposal = p
  <2>1. CASE InsertProposal(q) /\ proposals'[r.proposal].status = "draft"
    BY <1>1, <2>1 DEF Accepted, Accepting
  <2>2. CASE PopulateItem(q) /\ r.proposal = s.proposal
    BY <1>1, <2>2 DEF PopulateItem, Deciding
  <2> QED  BY <1>1, <2>1, <2>2, DecidingMoves
<1>2. CASE r.at \in {"writeItem", "submitItems"} /\ r.proposal = p
  <2>1. /\ EditItem(q) \/ SubmitProposal(q)
        /\ Editable(proposals[p].status)
    BY <1>2, DecidingMoves
  <2>2. proposals' = proposals
    BY <2>1 DEF EditItem, SubmitProposal, selectionVars
  <2> QED  BY <1>e, <2>1, <2>2 DEF Accepted
<1>3. CASE r.at = "validate" /\ r.proposal = p
  <2>1. WriteProposal(q) /\ r = s.then
    BY <1>3, DecidingMoves
  <2>2. s.status = "submitted" /\ s.proposal = p
    BY <1>3, <2>1 DEF WriteProposal, Chained, WriteChained
  <2>3. proposals'[p].status = "submitted"
    BY <2>1, <2>2, ProposalOverwritten
  <2> QED  BY <2>3 DEF Accepted, Accepting
<1>4. CASE r.at \in {"capacity", "verdict"} /\ r.proposal = p
  <2>1. (ValidateSelection(q) \/ ValidateCapacity(q)) /\ r.proposal = s.proposal
    BY <1>4, DecidingMoves
  <2> QED  BY <1>4, <2>1 DEF ValidateSelection, ValidateCapacity, Deciding, selectionVars
<1>5. CASE LET w == Intended(r)
           IN  w.at = "writeProposal" /\ w.status # "confirmed" /\ w.proposal = p
  <2>1. PICK w : w = Intended(r)
    OBVIOUS
  <2>2. \/ /\ SubmitItems(q) \/ CarryOutVerdict(q)
           /\ w.proposal = s.proposal
        \/ /\ DecideProposal(q) /\ w.proposal = s.proposal
           /\ Decidable(proposals[s.proposal].status)
        \/ /\ Intended(s).at = "writeProposal" /\ Intended(s).proposal = w.proposal
           /\ Intended(s).status = w.status
           /\ s.at # "writeProposal"
    <3>1. CASE r.at = "writeProposal"
      <4>1. w = r
        BY <2>1, <3>1 DEF Intended, ClosingStates
      <4>2. CASE SubmitItems(q) \/ CarryOutVerdict(q) \/ DecideProposal(q)
        BY <1>b, <3>1, <4>1, <4>2, WritingMoves
      <4>3. CASE RegisterItems(q)
        BY <1>5, <1>b, <2>1, <3>1, <4>1, <4>3, WritingMoves
      <4>4. CASE AssignTask(q) \/ CompleteInstance(q)
        <5>1. Intended(s) = s.then /\ s.at # "writeProposal"
          BY <4>4 DEF AssignTask, CompleteInstance, Intended, ClosingStates
        <5>2. s.then.at = "writeProposal" /\ s.then.proposal = r.proposal /\ s.then.status = r.status
          BY <1>b, <3>1, <4>4, WritingMoves
        <5> QED  BY <4>1, <5>1, <5>2
      <4> QED  BY <3>1, <4>2, <4>3, <4>4, WritingMoves
    <3>2. CASE r.at \in ClosingStates \cup {"startInstance", "assignTask"}
      <4>1. w = r.then /\ r.then.at = "writeProposal"
        BY <1>5, <2>1, <3>2 DEF Intended
      <4>2. CASE r.at = "startInstance"
        <5>1. r.then = Done \/ (CarryOutVerdict(q) /\ r.then.proposal = s.proposal)
          BY <4>2, WritingMoves
        <5> QED  BY <4>1, <5>1 DEF Done
      <4>3. CASE r.at = "recordDecision"
        BY <4>1, <4>3, WritingMoves
      <4>4. CASE r.at \in {"assignTask", "completeTask", "completeInstance"}
        <5>1. r.then = s.then /\ s.at \in ClosingStates \cup {"startInstance"}
          BY <4>4, WritingMoves DEF StartInstance
        <5> QED  BY <4>1, <5>1 DEF Intended, ClosingStates
      <4> QED  BY <3>2, <4>2, <4>3, <4>4 DEF ClosingStates
    <3>3. CASE r.at \notin ClosingStates \cup {"startInstance", "assignTask", "writeProposal"}
      BY <1>5, <3>3 DEF Intended
    <3> QED  BY <3>1, <3>2, <3>3
  <2>3. CASE (SubmitItems(q) \/ CarryOutVerdict(q)) /\ w.proposal = s.proposal
    BY <1>5, <2>1, <2>3 DEF SubmitItems, CarryOutVerdict, Deciding, selectionVars
  <2>4. CASE /\ DecideProposal(q) /\ w.proposal = s.proposal
             /\ Decidable(proposals[s.proposal].status)
    BY <1>5, <1>e, <2>1, <2>4 DEF DecideProposal, Accepted, selectionVars
  <2>5. CASE /\ Intended(s).at = "writeProposal" /\ Intended(s).proposal = w.proposal
             /\ Intended(s).status = w.status /\ s.at # "writeProposal"
    <3>1. Deciding(s, p)
      BY <1>5, <2>1, <2>5 DEF Deciding
    <3>2. s.at \in ClosingStates \cup {"startInstance", "assignTask"}
      BY <2>5 DEF Intended
    <3>3. proposals' = proposals
      BY <1>f, <3>2 DEF InsertProposal, WriteProposal, ClosingStates
    <3> QED  BY <3>1, <3>3
  <2> QED  BY <2>2, <2>3, <2>4, <2>5
<1> QED  BY <1>1, <1>2, <1>3, <1>4, <1>5 DEF Deciding

\* A request that confirms a proposal has confirmed it before, or has just accepted it.
LEMMA ConfirmsFrom ==
  ASSUME TypeInv, NEW q \in Requests, Step(q), Chained(req[q]), NEW p, Confirms(req'[q], p)
  PROVE  \/ /\ Confirms(req[q], p) /\ UNCHANGED <<proposals, items>>
            /\ req'[q].at \in CreatingStates => req'[q].then # Done
         \/ /\ WriteProposal(q) /\ req[q].proposal = p /\ req'[q] = req[q].then
            /\ req'[q].at = "confirmProposal"
            /\ req[q].status \in {"validated", "approved"}
<1> DEFINE s == req[q]
           r == req'[q]
<1>f. /\ ConfirmProposal(q) => s.at = "confirmProposal" /\ UNCHANGED <<proposals, items>>
      /\ ConfirmItems(q) => s.at = "confirmItems" /\ UNCHANGED <<proposals, items>>
      /\ RegisterItems(q) => s.at = "registerItems" /\ UNCHANGED <<proposals, items>>
  BY DEF ConfirmProposal, ConfirmItems, RegisterItems, selectionVars
<1>g. CheckRegistration(q) \/ InsertRegistration(q) =>
        s.at \in CreatingStates /\ UNCHANGED <<proposals, items>>
  <2> HAVE CheckRegistration(q) \/ InsertRegistration(q)
  <2>1. s.at \in CreatingStates
    BY DEF CheckRegistration, InsertRegistration, CreatingStates
  <2>2. ~InsertProposal(q) /\ ~PopulateItem(q) /\ ~WriteItem(q) /\ ~WriteProposal(q)
    BY <2>1 DEF InsertProposal, PopulateItem, WriteItem, WriteProposal, CreatingStates
  <2> QED  BY <2>1, <2>2, SelectionFrame
<1>1. CASE r.at = "confirmProposal" /\ r.proposal = p
  <2>1. WriteProposal(q) /\ r = s.then
    BY <1>1, DecidingMoves
  <2>2. s.status \in {"validated", "approved"} /\ s.proposal = p
    BY <1>1, <2>1 DEF WriteProposal, Chained, WriteChained
  <2> QED  BY <1>1, <2>1, <2>2
<1>2. CASE r.at = "confirmItems" /\ r.proposal = p
  <2>1. ConfirmProposal(q) /\ r.proposal = s.proposal
    BY <1>2, DecidingMoves
  <2> QED  BY <1>2, <1>f, <2>1 DEF Confirms, CreatingStates
<1>3. CASE r.at = "registerItems" /\ r.proposal = p
  <2>1. \/ ConfirmItems(q) /\ r.proposal = s.proposal
        \/ InsertRegistration(q) /\ r = s.then
    BY <1>3, CreatingMoves
  <2>2. CASE ConfirmItems(q) /\ r.proposal = s.proposal
    BY <1>3, <1>f, <2>2 DEF Confirms, CreatingStates
  <2>3. CASE InsertRegistration(q) /\ r = s.then
    <3>1. s.by.kind = "proposal" /\ s.by.proposal = p
      BY <1>3, <1>g, <2>3 DEF Chained, Done
    <3> QED  BY <1>3, <1>g, <2>3, <3>1 DEF Confirms, CreatingStates
  <2> QED  BY <2>1, <2>2, <2>3
<1>4. CASE r.at \in CreatingStates /\ r.by.kind = "proposal" /\ r.by.proposal = p
  <2>1. CASE CheckRegistration(q) /\ r.by = s.by /\ r.then = s.then
    <3>1. s.then.at = "registerItems"
      BY <1>4, <1>g, <2>1 DEF Chained
    <3> QED  BY <1>4, <1>g, <2>1, <3>1 DEF Confirms, Done
  <2>2. CASE r \in Approved
    BY <1>4, <2>2 DEF Approved, CreatingStates
  <2>3. CASE /\ RegisterItems(q) /\ r.then.at = "registerItems"
             /\ r.by = [kind |-> "proposal", proposal |-> s.proposal, status |-> s.row.status]
    BY <1>4, <1>f, <2>3 DEF Confirms, Done
  <2> QED  BY <1>4, <2>1, <2>2, <2>3, CreatingMoves
<1>5. CASE r.at = "writeProposal" /\ r.status = "confirmed" /\ r.proposal = p
  <2>1. CASE RegisterItems(q) /\ r.proposal = s.proposal
    BY <1>5, <1>f, <2>1 DEF Confirms, CreatingStates
  <2>2. CASE AssignTask(q) /\ s.then.at = "writeProposal" /\ r.status = s.then.status
    <3>1. s.at # "writeProposal" /\ Intended(s) = s.then
      BY <2>2 DEF AssignTask, Intended
    <3> QED  BY <1>5, <2>2, <3>1 DEF Chained
  <2>3. CASE CompleteInstance(q) /\ r = s.then
    <3>1. s.at # "writeProposal" /\ Intended(s) = s.then
      BY <2>3 DEF CompleteInstance, Intended, ClosingStates
    <3> QED  BY <1>5, <2>3, <3>1 DEF Chained
  <2>4. CASE CarryOutVerdict(q) /\ r.status = s.verdict
    <3>1. s \in [at : {"verdict"}, proposal : Present(proposals),
                 verdict : {"returned", "waitlisted", "validated"}]
      BY <2>4, RequestShape DEF CarryOutVerdict, TypeInv, KnownRequest
    <3> QED  BY <1>5, <2>4, <3>1
  <2>5. CASE s.decision \in Decisions /\ r.status = s.decision
    BY <1>5, <2>5 DEF Decisions
  <2>6. r.status # "submitted"
    BY <1>5
  <2> QED  BY <1>5, <2>1, <2>2, <2>3, <2>4, <2>5, <2>6, WritingMoves
<1> QED  BY <1>1, <1>2, <1>3, <1>4, <1>5 DEF Confirms

\* A row is one that was there before, or one that a request has inserted.
LEMMA RowArrives ==
  ASSUME TypeInv, [Next]_vars, NEW r \in Rows, registrations'[r] # Absent, registrations[r] = Absent
  PROVE  \E q \in Requests :
           /\ Step(q) /\ InsertRegistration(q)
           /\ registrations'[r] = [enrolment |-> req[q].enrolment, offering |-> req[q].offering,
                                   status |-> "registered", by |-> req[q].by]
           /\ \A x \in Rows : x # r => registrations'[x] = registrations[x]
           /\ req[q].offering \in overlapped[q] => req[q].offering \in suspect'
<1>1. ASSUME NEW q \in Requests, WriteRegistration(q) PROVE FALSE
  <2>1. registrations[req[q].registration] # Absent /\ req[q].registration \in Rows
    BY <1>1, Rewritten, AbsentAssumption DEF WriteRegistration
  <2> QED  BY <1>1, <2>1 DEF WriteRegistration, TypeInv, TypeOK
<1>2. PICK q \in Requests : Step(q) /\ InsertRegistration(q)
  BY <1>1, RegistrationFrame
<1> DEFINE row == [enrolment |-> req[q].enrolment, offering |-> req[q].offering,
                   status |-> "registered", by |-> req[q].by]
           V == Registration(Origins) \cup {Absent}
<1>3. PICK x \in Rows : registrations' = [registrations EXCEPT ![x] = row]
                        /\ Writes(q, {x, req[q].offering, <<"registrations", req[q].enrolment>>},
                                  req[q].then)
  BY <1>2, RowInserted
<1>4. registrations \in [Rows -> V]
  BY DEF TypeInv, TypeOK
<1> HIDE DEF row, V
<1>5. x = r
  BY <1>3, <1>4
<1>6. registrations'[r] = row /\ \A y \in Rows : y # r => registrations'[y] = registrations[y]
  BY <1>3, <1>4, <1>5
<1>7. req[q].offering \in overlapped[q] => req[q].offering \in suspect'
  BY <1>3 DEF Writes
<1> QED  BY <1>2, <1>6, <1>7 DEF row

\* A request that decides or confirms a proposal is no longer its call.
LEMMA SelectingUnderWay ==
  ASSUME TypeInv, NEW q \in Requests, Chained(req[q]), NEW p,
         Deciding(req[q], p) \/ Confirms(req[q], p)
  PROVE  InFlight(q)
<1> DEFINE s == req[q]
<1>1. CASE s.at \notin Entries
  BY <1>1, UnderWay
<1>2. CASE s.at \in Entries
  <2>1. ~Deciding(s, p)
    BY <1>2 DEF Deciding, Intended, ClosingStates, Entries
  <2>2. s.at = "createRegistration" /\ s.by.kind = "proposal"
    BY <1>2, <2>1 DEF Confirms, CreatingStates, Entries
  <2>3. \A c \in Call : c.at = "createRegistration" => c.by = Staff
    BY DEF Call
  <2>4. Staff.kind = "staff"
    BY DEF Staff
  <2> QED  BY <2>2, <2>3, <2>4, CallsAssumption DEF InFlight, Done
<1> QED  BY <1>1, <1>2

LEMMA BystanderKeepsDeciding ==
  ASSUME TypeInv, SelectionInv, [Next]_vars, NEW q \in Requests, Bystander(q),
         NEW p \in Proposals, Deciding(req[q], p)
  PROVE  ~Accepted(p)' \/ Loose(q, p)'
<1>1. InFlight(q) /\ (~Accepted(p) \/ Loose(q, p))
  BY SelectingUnderWay DEF SelectionInv
<1>2. CASE Loose(q, p)
  BY <1>1, <1>2, SuspectGrows DEF Loose, Bystander
<1>3. CASE ~Accepted(p)
  BY <1>1, <1>3 DEF Loose, Bystander, Accepted
<1> QED  BY <1>1, <1>2, <1>3

LEMMA StepKeepsDeciding ==
  ASSUME TypeInv, SelectionInv, NEW q \in Requests, Step(q),
         NEW p \in Proposals, Deciding(req'[q], p)
  PROVE  ~Accepted(p)' \/ Loose(q, p)'
<1>1. CASE ~Accepted(p)'
  BY <1>1
<1>2. CASE Deciding(req[q], p) /\ proposals'[p] = proposals[p]
  <2>1. ~Accepted(p) \/ Loose(q, p)
    BY <1>2 DEF SelectionInv
  <2>2. overlapped'[q] = overlapped[q] /\ suspect \subseteq suspect'
    <3>1. req'[q] # Done
      BY DEF Deciding, Intended, ClosingStates, Done
    <3> QED  BY <3>1, StepWrites DEF Writer
  <2> QED  BY <1>2, <2>1, <2>2 DEF Accepted, Loose
<1> QED  BY <1>1, <1>2, DecidesFrom DEF SelectionInv

LEMMA StepKeepsConfirms ==
  ASSUME TypeInv, SelectionInv, NEW q \in Requests, Step(q),
         NEW p \in Proposals, Confirms(req'[q], p)
  PROVE  /\ Accepted(p)' \/ p \in suspect'
         /\ \A r \in Requests : r # q /\ Confirms(req[r], p) => p \in suspect'
<1>s. suspect \subseteq suspect'
  BY SuspectGrows DEF Next
<1>1. CASE Confirms(req[q], p) /\ UNCHANGED <<proposals, items>>
  <2>1. Accepted(p) \/ p \in suspect
    BY <1>1 DEF SelectionInv
  <2>2. \A r \in Requests : r # q /\ Confirms(req[r], p) => p \in suspect
    BY <1>1 DEF SelectionInv
  <2> QED  BY <1>1, <1>s, <2>1, <2>2 DEF Accepted
<1>2. CASE /\ WriteProposal(q) /\ req[q].proposal = p
           /\ req[q].status \in {"validated", "approved"}
  <2>1. /\ proposals'[p] # Absent /\ proposals'[p].status = req[q].status
        /\ p \in overlapped[q] => p \in suspect'
    BY <1>2, ProposalOverwritten
  <2>2. Accepted(p)'
    BY <1>2, <2>1 DEF Accepted, Accepting
  <2>3. ASSUME NEW r \in Requests, r # q, Confirms(req[r], p) PROVE p \in suspect'
    <3>1. Deciding(req[q], p)
      BY <1>2 DEF WriteProposal, Deciding, Intended, ClosingStates
    <3>2. (~Accepted(p) \/ Loose(q, p)) /\ (Accepted(p) \/ p \in suspect)
      BY <2>3, <3>1 DEF SelectionInv
    <3> QED  BY <1>s, <2>1, <3>2 DEF Loose
  <2> QED  BY <2>2, <2>3
<1> QED  BY <1>1, <1>2, ConfirmsFrom DEF SelectionInv

LEMMA RowsOfAccepted ==
  ASSUME TypeInv, SelectionInv, [Next]_vars, NEW p \in Proposals, RowsBy(p)' # {}
  PROVE  Accepted(p)' \/ p \in suspect'
<1>1. PICK r \in Rows : /\ registrations'[r] # Absent
                        /\ registrations'[r].by.kind = "proposal"
                        /\ registrations'[r].by.proposal = p
  BY DEF RowsBy
<1>2. Accepted(p) \/ p \in suspect
  <2>1. CASE registrations[r] # Absent
    <3>1. registrations'[r].by = registrations[r].by
      BY <2>1, RowsStay
    <3>2. r \in RowsBy(p)
      BY <1>1, <2>1, <3>1 DEF RowsBy
    <3> QED  BY <3>2 DEF SelectionInv
  <2>2. CASE registrations[r] = Absent
    <3>1. PICK q \in Requests :
            /\ InsertRegistration(q)
            /\ registrations'[r] = [enrolment |-> req[q].enrolment, offering |-> req[q].offering,
                                    status |-> "registered", by |-> req[q].by]
      BY <1>1, <2>2, RowArrives
    <3>2. registrations'[r].by = req[q].by
      BY <3>1
    <3>3. Confirms(req[q], p)
      BY <1>1, <3>1, <3>2 DEF InsertRegistration, Confirms, CreatingStates
    <3> QED  BY <3>3 DEF SelectionInv
  <2> QED  BY <2>1, <2>2
<1> QED  BY <1>2, AcceptedKept

LEMMA NextSelection ==
  ASSUME TypeInv, SelectionInv, [Next]_vars
  PROVE  SelectionInv'
<1>1. ASSUME NEW q \in Requests PROVE Chained(req'[q])
  <2>1. Chained(req[q])
    BY DEF SelectionInv
  <2>2. CASE Bystander(q)
    BY <2>1, <2>2 DEF Bystander
  <2>3. CASE Step(q)
    BY <2>1, <2>3, ChainedStays
  <2> QED  BY <2>2, <2>3, NextBystanders
<1>2. ASSUME NEW q \in Requests, NEW p \in Proposals, Deciding(req'[q], p)
      PROVE  ~Accepted(p)' \/ Loose(q, p)'
  <2>1. CASE Bystander(q)
    <3>1. Deciding(req[q], p)
      BY <1>2, <2>1 DEF Bystander
    <3> QED  BY <2>1, <3>1, BystanderKeepsDeciding
  <2>2. CASE Step(q)
    BY <1>2, <2>2, StepKeepsDeciding
  <2> QED  BY <2>1, <2>2, NextBystanders
<1>3. ASSUME NEW q \in Requests, NEW p \in Proposals, Confirms(req'[q], p)
      PROVE  Accepted(p)' \/ p \in suspect'
  <2>1. CASE Bystander(q)
    <3>1. Confirms(req[q], p)
      BY <1>3, <2>1 DEF Bystander
    <3>2. Accepted(p) \/ p \in suspect
      BY <3>1 DEF SelectionInv
    <3> QED  BY <3>2, AcceptedKept
  <2>2. CASE Step(q)
    BY <1>3, <2>2, StepKeepsConfirms
  <2> QED  BY <2>1, <2>2, NextBystanders
<1>4. ASSUME NEW q \in Requests, NEW r \in Requests, NEW p \in Proposals,
             q # r, Confirms(req'[q], p), Confirms(req'[r], p)
      PROVE  p \in suspect'
  <2>1. CASE UNCHANGED req
    <3>1. p \in suspect
      BY <1>4, <2>1 DEF SelectionInv
    <3> QED  BY <3>1, SuspectGrows
  <2>2. ASSUME NEW x \in Requests, Step(x) PROVE p \in suspect'
    <3>1. \A y \in Requests \ {x} : req'[y] = req[y]
      BY <2>2, StepWrites DEF Writer
    <3>2. CASE x = q
      BY <1>4, <2>2, <3>1, <3>2, StepKeepsConfirms
    <3>3. CASE x = r
      BY <1>4, <2>2, <3>1, <3>3, StepKeepsConfirms
    <3>4. CASE x # q /\ x # r
      <4>1. p \in suspect
        BY <1>4, <3>1, <3>4 DEF SelectionInv
      <4> QED  BY <4>1, SuspectGrows
    <3> QED  BY <3>2, <3>3, <3>4
  <2>3. CASE UNCHANGED vars \/ TimePasses
    BY <2>1, <2>3 DEF vars, callVars, TimePasses, WindowPasses
  <2> QED  BY <2>2, <2>3 DEF Next
<1>5. ASSUME NEW p \in Proposals, RowsBy(p)' # {} PROVE Accepted(p)' \/ p \in suspect'
  BY <1>5, RowsOfAccepted
<1> QED  BY <1>1, <1>2, <1>3, <1>4, <1>5 DEF SelectionInv

LEMMA SelectionInvariant == Spec => []SelectionInv
<1>1. TypeInv /\ SelectionInv /\ [Next]_vars => SelectionInv'
  BY NextSelection
<1> QED  BY InitSelection, TypeInvariant, <1>1, PTL DEF Spec

\* A proposal that has registered anything is validated, approved or confirmed, unless
\* it was written by two requests at once: no verdict or decision is carried out over
\* an accepted proposal, and nothing is registered before it is accepted
\* (submitProposal, decideProposal).
THEOREM RegisteredProposalsAreAccepted == Spec => []UndecidedRegisterNothing
<1>1. SelectionInv => UndecidedRegisterNothing
  BY DEF SelectionInv, UndecidedRegisterNothing, Accepted, Accepting
<1> QED  BY SelectionInvariant, <1>1, PTL

-------------------------------------------------------------------------------
(* The registrations of a confirmed proposal.                               *)

OfferingsOf(list) == { OfferingOf[i] : i \in list }

\* The offerings that the request is still to register.
Due(s) ==
  CASE s.at = "registerItems"  -> OfferingsOf(s.left)
    [] s.at \in CreatingStates -> {s.offering} \cup OfferingsOf(s.then.left)
    [] OTHER                   -> {}

\* Every item that has an offering is registered, or due.
Filled(p, due) ==
  \A i \in Offered(items[p]) :
    OfferingOf[i] \in due \/ \E r \in RowsBy(p) : registrations[r].offering = OfferingOf[i]

FilledInv ==
  /\ \A q \in Requests, p \in Proposals :
       Confirms(req[q], p) /\ req[q].at \notin {"confirmProposal", "confirmItems"} =>
         Filled(p, Due(req[q])) \/ Loose(q, p)
  /\ \A p \in Proposals :
       proposals[p] # Absent /\ proposals[p].status = "confirmed" =>
         Filled(p, {}) \/ p \in suspect

LEMMA DueOf ==
  ASSUME NEW s
  PROVE  /\ s.at = "registerItems" => Due(s) = OfferingsOf(s.left)
         /\ s.at \in CreatingStates => Due(s) = {s.offering} \cup OfferingsOf(s.then.left)
         /\ s.at = "writeProposal" => Due(s) = {}
BY DEF Due, CreatingStates

LEMMA InitFilled == Init => FilledInv
<1> SUFFICES ASSUME Init PROVE FilledInv
  OBVIOUS
<1>1. ASSUME NEW q \in Requests, NEW p PROVE ~Confirms(req[q], p)
  <2>1. req[q] \in Call
    BY CallsAssumption, ScenariosAssumption DEF Init, CallsInit
  <2>2. /\ req[q].at \in Entries
        /\ req[q].at = "createRegistration" => req[q].by = Staff
    BY <2>1 DEF Call, Entries
  <2>3. Staff.kind # "proposal"
    BY DEF Staff
  <2> QED  BY <2>2, <2>3 DEF Confirms, CreatingStates, Entries
<1>2. \A p \in Proposals : proposals[p] # Absent => proposals[p].status # "confirmed"
  BY LimitsAssumption DEF Init
<1> QED  BY <1>1, <1>2 DEF FilledInv

\* The rows of a proposal stay, with their offerings.
LEMMA RowsByStay ==
  ASSUME TypeInv, [Next]_vars, NEW p, NEW r \in RowsBy(p)
  PROVE  r \in RowsBy(p)' /\ registrations'[r].offering = registrations[r].offering
BY RowsStay DEF RowsBy

LEMMA FilledStays ==
  ASSUME TypeInv, [Next]_vars, NEW p, NEW due, NEW due2, Filled(p, due), items'[p] = items[p],
         \A o \in due : o \in due2 \/ \E r \in RowsBy(p)' : registrations'[r].offering = o
  PROVE  \A i \in Offered(items'[p]) :
           OfferingOf[i] \in due2 \/ \E r \in RowsBy(p)' : registrations'[r].offering = OfferingOf[i]
<1> TAKE i \in Offered(items'[p])
<1>1. i \in Offered(items[p])
  OBVIOUS
<1>2. CASE OfferingOf[i] \in due
  BY <1>2
<1>3. CASE \E r \in RowsBy(p) : registrations[r].offering = OfferingOf[i]
  BY <1>3, RowsByStay
<1> QED  BY <1>1, <1>2, <1>3 DEF Filled

LEMMA FilledKept ==
  ASSUME TypeInv, [Next]_vars, NEW p, Filled(p, {}), items'[p] = items[p]
  PROVE  Filled(p, {})'
<1>1. \A i \in Offered(items[p]) :
        \E r \in RowsBy(p) : registrations[r].offering = OfferingOf[i]
  BY DEF Filled
<1>2. \A i \in Offered(items'[p]) :
        \E r \in RowsBy(p)' : registrations'[r].offering = OfferingOf[i]
  BY <1>1, RowsByStay
<1> QED  BY <1>2 DEF Filled

LEMMA BystanderKeepsFilled ==
  ASSUME TypeInv, SelectionInv, FilledInv, [Next]_vars, NEW q \in Requests, Bystander(q),
         NEW p \in Proposals, Confirms(req[q], p),
         req[q].at \notin {"confirmProposal", "confirmItems"}
  PROVE  (Filled(p, Due(req[q])) \/ Loose(q, p))'
<1>1. InFlight(q) /\ (Filled(p, Due(req[q])) \/ Loose(q, p)) /\ req'[q] = req[q]
  BY SelectingUnderWay DEF SelectionInv, FilledInv, Bystander
<1>2. CASE Loose(q, p)
  BY <1>1, <1>2, SuspectGrows DEF Loose, Bystander
<1>3. CASE p \in overlapped'[q]
  BY <1>3 DEF Loose
<1>4. CASE Filled(p, Due(req[q])) /\ items'[p] = items[p]
  <2>1. PICK due : due = Due(req[q])
    OBVIOUS
  <2>2. Due(req'[q]) = due
    BY <1>1, <2>1
  <2>3. \A i \in Offered(items'[p]) :
          OfferingOf[i] \in due \/ \E r \in RowsBy(p)' : registrations'[r].offering = OfferingOf[i]
    BY <1>4, <2>1, FilledStays
  <2> QED  BY <2>2, <2>3 DEF Filled
<1> QED  BY <1>1, <1>2, <1>3, <1>4 DEF Bystander

LEMMA StepKeepsFilled ==
  ASSUME TypeInv, SelectionInv, FilledInv, NEW q \in Requests, Step(q),
         NEW p \in Proposals, Confirms(req'[q], p),
         req'[q].at \notin {"confirmProposal", "confirmItems"}
  PROVE  (Filled(p, Due(req[q])) \/ Loose(q, p))'
<1> DEFINE s == req[q]
           r == req'[q]
<1>n. [Next]_vars
  BY DEF Next
<1>c. Chained(s)
  BY DEF SelectionInv
<1>1. Confirms(s, p) /\ UNCHANGED <<proposals, items>>
  BY <1>c, ConfirmsFrom
<1>2. CASE ConfirmItems(q) /\ r.at = "registerItems" /\ r.left = Offered(items[s.proposal])
  <2>1. s.proposal = p
    BY <1>1, <1>2 DEF ConfirmItems, Confirms, CreatingStates
  <2>2. Due(r) = OfferingsOf(Offered(items'[p]))
    BY <1>1, <1>2, <2>1, DueOf
  <2>3. PICK due : due = Due(r)
    OBVIOUS
  <2>4. \A i \in Offered(items'[p]) : OfferingOf[i] \in due
    BY <2>2, <2>3 DEF OfferingsOf
  <2> QED  BY <2>3, <2>4 DEF Filled
<1>3. CASE s.at \notin {"confirmProposal", "confirmItems"}
  <2>1. Filled(p, Due(s)) \/ Loose(q, p)
    BY <1>1, <1>3 DEF FilledInv
  <2>2. overlapped'[q] = overlapped[q] /\ suspect \subseteq suspect'
    <3>1. r # Done
      BY DEF Confirms, CreatingStates, Done
    <3> QED  BY <3>1, StepWrites DEF Writer
  <2>3. ASSUME NEW o \in Due(s)
        PROVE  o \in Due(r) \/ \E x \in RowsBy(p)' : registrations'[x].offering = o
    <3>1. CASE InsertRegistration(q) /\ r = s.then
      <4>1. /\ s.at \in CreatingStates /\ s.at = "insertRegistration"
            /\ s.by.kind = "proposal" /\ s.by.proposal = p /\ r.at = "registerItems"
        BY <1>c, <1>1, <3>1 DEF InsertRegistration, CreatingStates, Confirms, Chained
      <4>2. Due(s) = {s.offering} \cup OfferingsOf(r.left) /\ Due(r) = OfferingsOf(r.left)
        BY <3>1, <4>1 DEF Due, CreatingStates
      <4>3. \E x \in RowsBy(p)' : registrations'[x].offering = s.offering
        <5> DEFINE row == [enrolment |-> s.enrolment, offering |-> s.offering,
                           status |-> "registered", by |-> s.by]
                   V == Registration(Origins) \cup {Absent}
        <5>1. PICK x \in Rows : registrations' = [registrations EXCEPT ![x] = row]
          BY <3>1, RowInserted
        <5>2. registrations \in [Rows -> V]
          BY DEF TypeInv, TypeOK
        <5>3. row.by = s.by /\ row.offering = s.offering /\ row # Absent
          <6>1. row \in Registration(Origins)
            BY <4>1, CreatingShape DEF Registration
          <6> QED  BY <6>1, AbsentAssumption
        <5> HIDE DEF row, V
        <5>4. registrations'[x] = row
          BY <5>1, <5>2
        <5> QED  BY <4>1, <5>3, <5>4 DEF RowsBy
      <4> QED  BY <2>3, <4>2, <4>3
    <3>2. CASE CheckRegistration(q) /\ r.at \in CreatingStates /\ r.offering = s.offering /\ r.then = s.then
      <4>1. s.at \in CreatingStates
        BY <3>2 DEF CheckRegistration, CreatingStates
      <4>2. Due(r) = Due(s)
        BY <3>2, <4>1, DueOf
      <4> QED  BY <2>3, <4>2
    <3>3. CASE RegisterItems(q)
      <4>1. s.at = "registerItems" /\ Due(s) = OfferingsOf(s.left)
        BY <3>3, DueOf DEF RegisterItems
      <4>2. PICK j \in s.left : o = OfferingOf[j]
        BY <2>3, <4>1 DEF OfferingsOf
      <4>3. CASE r.at = "writeProposal"
        <5>1. s.left = {}
          BY <4>1, <4>3, WritingMoves DEF SubmitItems, CarryOutVerdict, DecideProposal, AssignTask,
                 CompleteInstance
        <5> QED  BY <4>2, <5>1
      <4>4. CASE r.at # "writeProposal"
        <5>1. r.at \in CreatingStates
          BY <3>3, <4>4, SelectionArrivals DEF CreatingStates, SelectionStep, RegisterItems,
                 CreateProposal, ReadBinding, CloseBinding, InsertBinding, InsertProposal,
                 PopulateItem, EditItem, WriteItem, SubmitProposal, SubmitItems, WriteProposal,
                 ValidateSelection, ValidateCapacity, CarryOutVerdict, DecideProposal,
                 ConfirmProposal, ConfirmItems
        <5>2. PICK i \in s.left : r.offering = OfferingOf[i] /\ r.then.left = s.left \ {i}
          BY <4>1, <5>1, CreatingMoves DEF CheckRegistration, CompleteInstance
        <5>3. Due(r) = {OfferingOf[i]} \cup OfferingsOf(s.left \ {i})
          BY <5>1, <5>2 DEF Due, CreatingStates
        <5> QED  BY <4>2, <5>3 DEF OfferingsOf
      <4> QED  BY <4>3, <4>4
    <3>4. InsertRegistration(q) \/ CheckRegistration(q) \/ RegisterItems(q)
      <4>1. s.at \in CreatingStates \cup {"registerItems"}
        BY <2>3 DEF Due
      <4>2. CASE r.at \in CreatingStates
        <5>1. ~CompleteInstance(q)
          BY <4>1 DEF CompleteInstance, CreatingStates
        <5> QED  BY <4>2, <5>1, CreatingMoves
      <4>3. CASE r.at = "registerItems"
        <5>1. ~ConfirmItems(q)
          BY <1>3 DEF ConfirmItems
        <5> QED  BY <4>3, <5>1, CreatingMoves
      <4>4. CASE r.at = "writeProposal"
        <5>1. ~SubmitItems(q) /\ ~CarryOutVerdict(q) /\ ~DecideProposal(q) /\ ~AssignTask(q)
              /\ ~CompleteInstance(q)
          BY <4>1 DEF SubmitItems, CarryOutVerdict, DecideProposal, AssignTask, CompleteInstance,
                 CreatingStates
        <5> QED  BY <4>4, <5>1, WritingMoves
      <4> QED  BY <4>2, <4>3, <4>4 DEF Confirms
    <3>5. CASE InsertRegistration(q)
      <4>1. r = s.then
        BY <3>5, Arrives DEF InsertRegistration
      <4> QED  BY <3>1, <3>5, <4>1
    <3>6. CASE CheckRegistration(q)
      <4>1. r.at \in CreatingStates
        <5>1. r.at \in {"createRegistration", "insertRegistration", "done"}
          BY <3>6, RegistrationArrivals DEF RegistrationStep, CheckRegistration, InsertRegistration,
                 ReadRegistration, WriteRegistration, RequestChange, DecideChange,
                 FindTask, SetWindow
        <5> QED  BY <5>1 DEF Confirms, CreatingStates
      <4>2. r.offering = s.offering /\ r.then = s.then
        BY <3>6, <4>1, CreatingMoves DEF CheckRegistration, CompleteInstance, RegisterItems
      <4> QED  BY <3>2, <3>6, <4>1, <4>2
    <3> QED  BY <3>3, <3>4, <3>5, <3>6
  <2>4. CASE Loose(q, p)
    BY <2>2, <2>4 DEF Loose
  <2>5. CASE Filled(p, Due(s))
    <3>1. PICK due, due2 : due = Due(s) /\ due2 = Due(r)
      OBVIOUS
    <3>2. \A i \in Offered(items'[p]) :
            OfferingOf[i] \in due2 \/ \E x \in RowsBy(p)' : registrations'[x].offering = OfferingOf[i]
      BY <1>n, <1>1, <2>3, <2>5, <3>1, FilledStays
    <3> QED  BY <3>1, <3>2 DEF Filled
  <2> QED  BY <2>1, <2>4, <2>5
<1>4. CASE s.at = "confirmItems"
  <2>1. ConfirmItems(q) /\ r.at = "registerItems" /\ r.left = Offered(items[s.proposal])
    <3>1. /\ ~InsertRegistration(q) /\ ~CheckRegistration(q) /\ ~CompleteInstance(q)
          /\ ~RegisterItems(q)
      BY <1>4 DEF InsertRegistration, CheckRegistration, CompleteInstance, RegisterItems
    <3>2. ~SubmitItems(q) /\ ~CarryOutVerdict(q) /\ ~DecideProposal(q) /\ ~AssignTask(q)
      BY <1>4 DEF SubmitItems, CarryOutVerdict, DecideProposal, AssignTask
    <3>3. r.at = "registerItems"
      BY <3>1, <3>2, CreatingMoves, WritingMoves DEF Confirms
    <3> QED  BY <3>1, <3>3, CreatingMoves
  <2> QED  BY <1>2, <2>1
<1>5. CASE s.at = "confirmProposal"
  <2>1. /\ ~InsertRegistration(q) /\ ~CheckRegistration(q) /\ ~CompleteInstance(q)
        /\ ~RegisterItems(q) /\ ~ConfirmItems(q)
    BY <1>5 DEF InsertRegistration, CheckRegistration, CompleteInstance, RegisterItems, ConfirmItems
  <2>2. ~SubmitItems(q) /\ ~CarryOutVerdict(q) /\ ~DecideProposal(q) /\ ~AssignTask(q)
    BY <1>5 DEF SubmitItems, CarryOutVerdict, DecideProposal, AssignTask
  <2>3. r.at # "registerItems" /\ r.at \notin CreatingStates
    BY <2>1, CreatingMoves
  <2>4. r.at # "writeProposal"
    BY <2>1, <2>2, WritingMoves
  <2> QED  BY <2>3, <2>4 DEF Confirms
<1> QED  BY <1>3, <1>4, <1>5

LEMMA ConfirmedFilled ==
  ASSUME TypeInv, SelectionInv, FilledInv, NEW q \in Requests, Step(q), NEW p \in Proposals,
         proposals'[p] # Absent, proposals'[p].status = "confirmed"
  PROVE  (Filled(p, {}) \/ p \in suspect)'
<1> DEFINE s == req[q]
<1>n. [Next]_vars
  BY DEF Next
<1>s. suspect \subseteq suspect'
  BY <1>n, SuspectGrows
<1>1. ASSUME Filled(p, {}), items'[p] = items[p] PROVE Filled(p, {})'
  BY <1>n, <1>1, FilledKept
<1>2. CASE proposals'[p] = proposals[p]
  <2>1. Accepted(p) /\ (Filled(p, {}) \/ p \in suspect)
    BY <1>2 DEF FilledInv, Accepted, Accepting
  <2>2. p \in suspect' \/ items'[p] = items[p]
    BY <2>1, AcceptedStays
  <2> QED  BY <1>1, <1>s, <2>1, <2>2
<1>3. CASE WriteProposal(q) /\ s.proposal = p /\ items'[p] = items[p]
  <2>1. s.status = "confirmed" /\ (p \in overlapped[q] => p \in suspect')
    BY <1>3, ProposalOverwritten
  <2>2. s.at = "writeProposal" /\ Confirms(s, p)
    BY <1>3, <2>1 DEF WriteProposal, Confirms
  <2>3. Due(s) = {}
    BY <2>2, DueOf
  <2>4. Filled(p, Due(s)) \/ Loose(q, p)
    BY <2>2 DEF FilledInv
  <2> QED  BY <1>1, <1>3, <1>s, <2>1, <2>3, <2>4 DEF Loose
<1> QED  BY <1>2, <1>3, ProposalMoves

LEMMA NextFilled ==
  ASSUME TypeInv, SelectionInv, FilledInv, [Next]_vars
  PROVE  FilledInv'
<1>1. ASSUME NEW q \in Requests, NEW p \in Proposals, Confirms(req'[q], p),
             req'[q].at \notin {"confirmProposal", "confirmItems"}
      PROVE  (Filled(p, Due(req[q])) \/ Loose(q, p))'
  <2>1. CASE Bystander(q)
    <3>1. req'[q] = req[q]
      BY <2>1 DEF Bystander
    <3> QED  BY <1>1, <2>1, <3>1, BystanderKeepsFilled
  <2>2. CASE Step(q)
    BY <1>1, <2>2, StepKeepsFilled
  <2> QED  BY <2>1, <2>2, NextBystanders
<1>2. ASSUME NEW p \in Proposals, proposals'[p] # Absent, proposals'[p].status = "confirmed"
      PROVE  (Filled(p, {}) \/ p \in suspect)'
  <2>1. CASE UNCHANGED vars \/ TimePasses
    <3>1. proposals' = proposals /\ items' = items
      BY <2>1 DEF vars, TimePasses, selectionVars
    <3>2. Filled(p, {}) \/ p \in suspect
      BY <1>2, <3>1 DEF FilledInv
    <3>3. CASE Filled(p, {})
      BY <3>1, <3>3, FilledKept
    <3> QED  BY <3>2, <3>3, SuspectGrows
  <2> QED  BY <1>2, <2>1, ConfirmedFilled DEF Next
<1> QED  BY <1>1, <1>2 DEF FilledInv

LEMMA FilledInvariant == Spec => []FilledInv
<1>1. TypeInv /\ SelectionInv /\ FilledInv /\ [Next]_vars => FilledInv'
  BY NextFilled
<1> QED  BY InitFilled, TypeInvariant, SelectionInvariant, <1>1, PTL DEF Spec

\* A confirmed proposal has registered every item that has an offering: the status is
\* written after the last of the registrations, and the items of an accepted proposal
\* are changed by requests that overlap its confirmation only (#confirmProposal).
THEOREM ConfirmedProposalsAreRegistered == Spec => []ConfirmedMeansRegistered
<1>1. FilledInv => ConfirmedMeansRegistered
  <2> SUFFICES ASSUME FilledInv, NEW p \in Proposals \ suspect,
                      proposals[p] # Absent, proposals[p].status = "confirmed"
               PROVE  { OfferingOf[i] : i \in Offered(items[p]) }
                        \subseteq { registrations[r].offering : r \in RowsBy(p) }
    BY DEF ConfirmedMeansRegistered
  <2>1. Filled(p, {})
    BY DEF FilledInv
  <2> QED  BY <2>1 DEF Filled
<1> QED  BY FilledInvariant, <1>1, PTL

-------------------------------------------------------------------------------
(* The places of an offering.                                               *)

\* The request has found a place, unless rows of the offering have been written since.
Free(q, o) == HasCapacity(o) \/ o \in overlapped[q]

AllFree(q, p) == \A i \in Offered(items[p]) : Free(q, OfferingOf[i])

\* What the enrolment has already is refused as a duplicate, and takes no place.
FreeOrRefused(q, e, o) == Free(q, o) \/ Duplicates(e, o) # {}

Settled(q, e, list) == \A i \in list : FreeOrRefused(q, e, OfferingOf[i])

\* The places that a verdict has found for the items of a proposal.
Checked(q, s, p) ==
  /\ s.at \in {"validate", "capacity"} /\ s.proposal = p => s.items = items[p] \/ Loose(q, p)
  /\ s.at = "writeProposal" /\ s.proposal = p /\ s.then.at = "validate" =>
       s.then.items = items[p] \/ Loose(q, p)
  /\ s.at = "verdict" /\ s.proposal = p /\ s.verdict = "validated" => AllFree(q, p) \/ Loose(q, p)
  /\ s.at = "writeProposal" /\ s.proposal = p /\ s.status = "validated" =>
       AllFree(q, p) \/ Loose(q, p)

\* The places of the items while they are registered; an approver has not looked at them.
Placed(q, s, p) ==
  Confirms(s, p) =>
    \/ p \in suspect
    \/ /\ s.at = "confirmProposal" => proposals[p].status = "approved" \/ AllFree(q, p)
       /\ s.at = "confirmItems" => s.row.status = "approved" \/ AllFree(q, p)
       /\ s.at = "registerItems" =>
            s.row.status = "approved" \/ Settled(q, s.row.enrolment, s.left)
       /\ s.at \in CreatingStates =>
            \/ s.by.status = "approved"
            \/ /\ Settled(q, s.enrolment, s.then.left)
               /\ \/ Free(q, s.offering)
                  \/ /\ s.at = "createRegistration" /\ s.check <= 3
                     /\ Duplicates(s.enrolment, s.offering) # {}

\* The place of a registration that does not come of a proposal.
Direct(q, s) ==
  /\ s.at \in CreatingStates /\ s.by.kind # "proposal"
  /\ s.at = "insertRegistration" \/ s.check >= 5
  => Free(q, s.offering)

\* The registrations that were to find a place.
Ordinary(o) ==
  { r \in Registered(o) :
      LET by == registrations[r].by
      IN  ~(by.kind = "proposal" /\ (by.status = "approved" \/ by.proposal \in suspect)) }

PlacesFit(o) == o \in suspect \/ Capacity[o] = Absent \/ Cardinality(Ordinary(o)) <= Capacity[o]

CapacityInv ==
  /\ \A q \in Requests, p \in Proposals : Checked(q, req[q], p) /\ Placed(q, req[q], p)
  /\ \A q \in Requests : Direct(q, req[q])
  /\ \A o \in Offerings : PlacesFit(o)

LEMMA InitCapacity == Init => CapacityInv
<1> SUFFICES ASSUME Init PROVE CapacityInv
  OBVIOUS
<1>1. ASSUME NEW q \in Requests
      PROVE  /\ req[q].at \in Entries
             /\ req[q].at = "createRegistration" => req[q].by.kind = "staff" /\ req[q].check = 1
  <2>1. req[q] \in Call
    BY CallsAssumption, ScenariosAssumption DEF Init, CallsInit
  <2>2. /\ req[q].at \in Entries
        /\ req[q].at = "createRegistration" => req[q].by = Staff /\ req[q].check = 1
    BY <2>1 DEF Call, Entries
  <2> QED  BY <2>2 DEF Staff
<1>2. ASSUME NEW q \in Requests, NEW p PROVE Checked(q, req[q], p) /\ Placed(q, req[q], p)
  <2>1. Checked(q, req[q], p)
    BY <1>1 DEF Checked, Entries
  <2>2. ~Confirms(req[q], p)
    BY <1>1 DEF Confirms, CreatingStates, Entries
  <2> QED  BY <2>1, <2>2 DEF Placed
<1>3. ASSUME NEW q \in Requests PROVE Direct(q, req[q])
  BY <1>1 DEF Direct, CreatingStates, Entries
<1>4. ASSUME NEW o \in Offerings PROVE PlacesFit(o)
  <2>1. CASE Capacity[o] # Absent
    <3>1. Registered(o) \subseteq Rows /\ IsFiniteSet(Registered(o))
      BY RowsAssumption, FS_Subset DEF Registered
    <3>2. Cardinality(Registered(o)) <= Capacity[o]
      BY <2>1, LimitsAssumption DEF Init, Registered
    <3>3. Ordinary(o) \subseteq Registered(o)
      BY DEF Ordinary
    <3>4. Cardinality(Ordinary(o)) <= Cardinality(Registered(o))
      BY <3>1, <3>3, FS_Subset
    <3>5. Cardinality(Ordinary(o)) \in Nat /\ Cardinality(Registered(o)) \in Nat
      BY <3>1, <3>3, FS_Subset, FS_CardinalityType
    <3>6. Capacity[o] \in Nat
      BY <2>1, CapacityAssumption
    <3> QED  BY <3>2, <3>4, <3>5, <3>6 DEF PlacesFit
  <2> QED  BY <2>1 DEF PlacesFit
<1> QED  BY <1>2, <1>3, <1>4 DEF CapacityInv

\* Where no row of an offering changes, its places do not.
LEMMA PlacesStay ==
  ASSUME TypeInv, [Next]_vars, NEW o,
         \A r \in Rows : registrations'[r] = registrations[r] \/ registrations'[r].offering # o
  PROVE  /\ Registered(o)' = Registered(o) /\ HasCapacity(o)' = HasCapacity(o)
         /\ \A e : Duplicates(e, o)' = Duplicates(e, o)
<1>1. ASSUME NEW r \in Rows, registrations'[r] # registrations[r]
      PROVE  /\ registrations'[r].offering # o
             /\ registrations[r] # Absent => registrations[r].offering # o
  BY <1>1, RowsStay
<1>2. Registered(o)' = Registered(o)
  BY <1>1 DEF Registered
<1>3. \A e : Duplicates(e, o)' = Duplicates(e, o)
  BY <1>1 DEF Duplicates, RowsOf
<1> QED  BY <1>2, <1>3 DEF HasCapacity

LEMMA FreeStays ==
  ASSUME TypeInv, [Next]_vars, NEW q \in Requests, Bystander(q), InFlight(q), NEW o
  PROVE  /\ Free(q, o) => Free(q, o)'
         /\ \A e : FreeOrRefused(q, e, o) => FreeOrRefused(q, e, o)'
<1>1. CASE o \in overlapped'[q]
  BY <1>1 DEF Free, FreeOrRefused
<1>2. CASE o \notin overlapped'[q]
  <2>1. \A r \in Rows : registrations'[r] = registrations[r] \/ registrations'[r].offering # o
    BY <1>2 DEF Bystander, Touched
  <2>2. HasCapacity(o)' = HasCapacity(o) /\ \A e : Duplicates(e, o)' = Duplicates(e, o)
    BY <2>1, PlacesStay
  <2>3. o \notin overlapped[q]
    BY <1>2 DEF Bystander
  <2> QED  BY <2>2, <2>3 DEF Free, FreeOrRefused
<1> QED  BY <1>1, <1>2

LEMMA AllFreeStays ==
  ASSUME TypeInv, [Next]_vars, NEW q \in Requests, Bystander(q), InFlight(q), NEW p,
         AllFree(q, p), items'[p] = items[p]
  PROVE  AllFree(q, p)'
<1>1. \A i \in Offered(items'[p]) : Free(q, OfferingOf[i])
  BY DEF AllFree
<1>2. \A i \in Offered(items'[p]) : Free(q, OfferingOf[i])'
  BY <1>1, FreeStays
<1> QED  BY <1>2 DEF AllFree

LEMMA SettledStays ==
  ASSUME TypeInv, [Next]_vars, NEW q \in Requests, Bystander(q), InFlight(q),
         NEW e, NEW list, Settled(q, e, list)
  PROVE  Settled(q, e, list)'
<1>1. \A i \in list : FreeOrRefused(q, e, OfferingOf[i])'
  BY FreeStays DEF Settled
<1> QED  BY <1>1 DEF Settled

LEMMA BystanderKeepsChecked ==
  ASSUME TypeInv, CapacityInv, [Next]_vars, NEW q \in Requests, Bystander(q), NEW p \in Proposals
  PROVE  Checked(q, req[q], p)'
<1> DEFINE s == req[q]
<1>r. req'[q] = s /\ Checked(q, s, p)
  BY DEF Bystander, CapacityInv
<1>1. CASE s.at \in {"validate", "capacity", "verdict", "writeProposal"}
  <2>1. InFlight(q)
    BY <1>1, UnderWay DEF Entries
  <2>2. Loose(q, p) => Loose(q, p)'
    BY <2>1, SuspectGrows DEF Loose, Bystander
  <2>3. items'[p] = items[p] \/ Loose(q, p)'
    BY <2>1 DEF Loose, Bystander
  <2>4. AllFree(q, p) => AllFree(q, p)' \/ Loose(q, p)'
    BY <2>1, <2>3, AllFreeStays
  <2> QED  BY <1>r, <2>2, <2>3, <2>4 DEF Checked
<1>2. CASE s.at \notin {"validate", "capacity", "verdict", "writeProposal"}
  BY <1>r, <1>2 DEF Checked
<1> QED  BY <1>1, <1>2

\* A proposal that is being confirmed stays approved, and keeps its items.
LEMMA ConfirmedAlone ==
  ASSUME TypeInv, SelectionInv, [Next]_vars, NEW q \in Requests, Bystander(q),
         NEW p \in Proposals, Confirms(req[q], p), req[q].at # "writeProposal", p \notin suspect'
  PROVE  proposals'[p] = proposals[p] /\ items'[p] = items[p]
<1>1. Accepted(p) /\ \A x \in Requests : x # q => ~Confirms(req[x], p)
  BY SuspectGrows DEF SelectionInv
<1>2. CASE UNCHANGED vars \/ TimePasses
  BY <1>2 DEF vars, TimePasses, selectionVars
<1>3. ASSUME NEW x \in Requests, Step(x)
      PROVE  proposals'[p] = proposals[p] /\ items'[p] = items[p]
  <2>1. ~(WriteProposal(x) /\ Confirms(req[x], p))
    BY <1>1 DEF WriteProposal
  <2> QED  BY <1>1, <1>3, <2>1, AcceptedStays
<1> QED  BY <1>2, <1>3 DEF Next

LEMMA BystanderKeepsPlaced ==
  ASSUME TypeInv, SelectionInv, CapacityInv, [Next]_vars, NEW q \in Requests, Bystander(q),
         NEW p \in Proposals
  PROVE  Placed(q, req[q], p)'
<1> DEFINE s == req[q]
<1>r. req'[q] = s /\ Placed(q, s, p)
  BY DEF Bystander, CapacityInv
<1> SUFFICES ASSUME Confirms(s, p), p \notin suspect' PROVE Placed(q, s, p)'
  BY <1>r DEF Placed
<1>1. InFlight(q) /\ p \notin suspect
  BY SelectingUnderWay, SuspectGrows DEF SelectionInv
<1>2. CASE s.at \in {"confirmProposal", "confirmItems"}
  <2>1. proposals'[p] = proposals[p] /\ items'[p] = items[p]
    BY <1>2, ConfirmedAlone
  <2>2. AllFree(q, p) => AllFree(q, p)'
    BY <1>1, <2>1, AllFreeStays
  <2> QED  BY <1>r, <1>1, <1>2, <2>1, <2>2 DEF Placed, CreatingStates
<1>3. CASE s.at = "registerItems"
  <2>1. PICK e, list : e = s.row.enrolment /\ list = s.left
    OBVIOUS
  <2>2. Settled(q, e, list) => Settled(q, e, list)'
    BY <1>1, SettledStays
  <2>3. s.row.status = "approved" \/ Settled(q, e, list)
    BY <1>r, <1>1, <1>3, <2>1 DEF Placed
  <2> QED  BY <1>r, <1>1, <1>3, <2>1, <2>2, <2>3 DEF Placed, CreatingStates
<1>4. CASE s.at \in CreatingStates
  <2>1. PICK e, o, list : e = s.enrolment /\ o = s.offering /\ list = s.then.left
    OBVIOUS
  <2>2. /\ Settled(q, e, list) => Settled(q, e, list)'
        /\ Free(q, o) => Free(q, o)'
        /\ FreeOrRefused(q, e, o) => FreeOrRefused(q, e, o)'
    BY <1>1, SettledStays, FreeStays
  <2>3. \/ s.by.status = "approved"
        \/ /\ Settled(q, e, list)
           /\ \/ Free(q, o)
              \/ s.at = "createRegistration" /\ s.check <= 3 /\ Duplicates(e, o) # {}
    BY <1>r, <1>1, <1>4, <2>1 DEF Placed
  <2>4. \/ s.by.status = "approved"
        \/ /\ Settled(q, e, list)'
           /\ \/ Free(q, o)'
              \/ s.at = "createRegistration" /\ s.check <= 3 /\ Duplicates(e, o)' # {}
    BY <2>2, <2>3 DEF FreeOrRefused
  <2> QED  BY <1>r, <1>4, <2>1, <2>4 DEF Placed, CreatingStates
<1>5. CASE s.at = "writeProposal"
  BY <1>r, <1>5 DEF Placed, CreatingStates
<1> QED  BY <1>2, <1>3, <1>4, <1>5 DEF Confirms

LEMMA BystanderKeepsDirect ==
  ASSUME TypeInv, CapacityInv, [Next]_vars, NEW q \in Requests, Bystander(q)
  PROVE  Direct(q, req[q])'
<1> DEFINE s == req[q]
<1>r. req'[q] = s /\ Direct(q, s)
  BY DEF Bystander, CapacityInv
<1>1. CASE s.at = "insertRegistration" \/ (s.at = "createRegistration" /\ s.check >= 5)
  <2>1. InFlight(q)
    BY <1>1, CreatingShape, Checking, UnderWay DEF Entries
  <2>2. PICK o : o = s.offering
    OBVIOUS
  <2>3. Free(q, o) => Free(q, o)'
    BY <2>1, FreeStays
  <2> QED  BY <1>r, <1>1, <2>2, <2>3 DEF Direct
<1>2. CASE s.at # "insertRegistration" /\ ~(s.at = "createRegistration" /\ s.check >= 5)
  BY <1>r, <1>2 DEF Direct, CreatingStates
<1> QED  BY <1>1, <1>2

\* Which request writes the status that a verdict or a confirmation asks for.
LEMMA WrittenStatus ==
  ASSUME TypeInv, NEW q \in Requests, Step(q), Chained(req[q]), req'[q].at = "writeProposal"
  PROVE  LET s == req[q]
             r == req'[q]
         IN  /\ r.status = "submitted" =>
                  /\ SubmitItems(q) /\ r.proposal = s.proposal
                  /\ r.then.items = items[s.proposal]
             /\ r.status = "validated" =>
                  CarryOutVerdict(q) /\ r.proposal = s.proposal /\ s.verdict = "validated"
<1> DEFINE s == req[q]
           r == req'[q]
<1>1. CASE SubmitItems(q) /\ r.proposal = s.proposal /\ r.status = "submitted"
           /\ r.then = [at |-> "validate", proposal |-> s.proposal, items |-> items[s.proposal]]
  <2>1. r.then.items = items[s.proposal] /\ r.status # "validated"
    BY <1>1
  <2> QED  BY <1>1, <2>1
<1>2. CASE CarryOutVerdict(q) /\ r.proposal = s.proposal /\ r.status = s.verdict
  <2>1. s \in [at : {"verdict"}, proposal : Present(proposals),
               verdict : {"returned", "waitlisted", "validated"}]
    BY <1>2, RequestShape DEF CarryOutVerdict, TypeInv, KnownRequest
  <2>2. s.verdict # "submitted"
    BY <2>1
  <2> QED  BY <1>2, <2>2
<1>3. CASE r.status = s.decision /\ s.decision \in Decisions
  BY <1>3 DEF Decisions
<1>4. CASE r.status = "confirmed"
  BY <1>4
<1>5. CASE AssignTask(q) /\ s.then.at = "writeProposal" /\ r.status = s.then.status
  <2>1. s.at # "writeProposal" /\ Intended(s) = s.then
    BY <1>5 DEF AssignTask, Intended
  <2> QED  BY <1>5, <2>1 DEF Chained
<1>6. CASE CompleteInstance(q) /\ r = s.then
  <2>1. s.at # "writeProposal" /\ Intended(s) = s.then
    BY <1>6 DEF CompleteInstance, Intended, ClosingStates
  <2> QED  BY <1>6, <2>1 DEF Chained
<1> QED  BY <1>1, <1>2, <1>3, <1>4, <1>5, <1>6, WritingMoves

\* A request that looks at a proposal leaves the registrations as they are.
LEMMA SelectionKeepsRows ==
  ASSUME NEW q \in Requests, Step(q),
         req[q].at \in {"submitItems", "writeProposal", "validate", "capacity", "verdict",
                        "confirmProposal", "confirmItems", "registerItems", "createRegistration"}
  PROVE  registrations' = registrations
<1>1. ~InsertRegistration(q) /\ ~WriteRegistration(q)
  BY DEF InsertRegistration, WriteRegistration
<1> QED  BY <1>1 DEF Step, RegistrationStep, CheckRegistration, ReadRegistration, RequestChange,
                     DecideChange, FindTask, SetWindow, registrationVars

LEMMA StepKeepsFree ==
  ASSUME TypeInv, NEW q \in Requests, Step(q), req'[q] # Done, registrations' = registrations,
         NEW o
  PROVE  /\ Free(q, o) => Free(q, o)'
         /\ \A e : FreeOrRefused(q, e, o) => FreeOrRefused(q, e, o)'
<1>1. overlapped'[q] = overlapped[q]
  BY StepWrites DEF Writer
<1>2. HasCapacity(o)' = HasCapacity(o) /\ \A e : Duplicates(e, o)' = Duplicates(e, o)
  BY DEF HasCapacity, Registered, Duplicates, RowsOf
<1> QED  BY <1>1, <1>2 DEF Free, FreeOrRefused

LEMMA StepKeepsAllFree ==
  ASSUME TypeInv, NEW q \in Requests, Step(q), req'[q] # Done, registrations' = registrations,
         NEW p, AllFree(q, p), items'[p] = items[p]
  PROVE  AllFree(q, p)'
<1>1. \A i \in Offered(items'[p]) : Free(q, OfferingOf[i])'
  BY StepKeepsFree DEF AllFree
<1> QED  BY <1>1 DEF AllFree

LEMMA StepKeepsLoose ==
  ASSUME TypeInv, NEW q \in Requests, Step(q), req'[q] # Done, NEW p, Loose(q, p)
  PROVE  Loose(q, p)'
BY StepWrites DEF Writer, Loose

LEMMA StepKeepsChecked ==
  ASSUME TypeInv, SelectionInv, CapacityInv, NEW q \in Requests, Step(q), NEW p \in Proposals
  PROVE  Checked(q, req[q], p)'
<1> DEFINE s == req[q]
           r == req'[q]
<1>c. Chained(s) /\ Checked(q, s, p)
  BY DEF SelectionInv, CapacityInv
<1>1. CASE r.at = "validate" /\ r.proposal = p
  <2>1. WriteProposal(q) /\ r = s.then
    BY <1>1, DecidingMoves
  <2>2. s.at = "writeProposal" /\ s.proposal = p /\ items'[p] = items[p]
    BY <1>c, <1>1, <2>1 DEF WriteProposal, Chained, WriteChained
  <2>3. r.items = items'[p] \/ Loose(q, p)
    BY <1>c, <1>1, <2>1, <2>2 DEF Checked
  <2>4. Loose(q, p) => Loose(q, p)'
    BY <1>1, StepKeepsLoose DEF Done
  <2> QED  BY <1>1, <2>3, <2>4 DEF Checked
<1>2. CASE r.at = "capacity" /\ r.proposal = p
  <2>1. ValidateSelection(q) /\ r.proposal = s.proposal /\ r.items = s.items
    BY <1>2, DecidingMoves
  <2>2. s.at = "validate" /\ items' = items
    BY <2>1 DEF ValidateSelection, selectionVars
  <2>3. Loose(q, p) => Loose(q, p)'
    BY <1>2, StepKeepsLoose DEF Done
  <2> QED  BY <1>c, <1>2, <2>1, <2>2, <2>3 DEF Checked
<1>3. CASE r.at = "verdict" /\ r.proposal = p /\ r.verdict = "validated"
  <2>1. ValidateCapacity(q) /\ s.proposal = p /\ Verdict(s.valid, s.items) = "validated"
    BY <1>3, DecidingMoves
  <2>2. s.at = "capacity" /\ items' = items
    BY <2>1 DEF ValidateCapacity, selectionVars
  <2>3. \A i \in Offered(s.items) : HasCapacity(OfferingOf[i])
    BY <2>1 DEF Verdict
  <2>4. registrations' = registrations
    BY <2>2, SelectionKeepsRows
  <2>5. s.items = items[p] => AllFree(q, p)
    BY <2>3 DEF AllFree, Free
  <2>6. AllFree(q, p) => AllFree(q, p)'
    BY <1>3, <2>2, <2>4, StepKeepsAllFree DEF Done
  <2>7. Loose(q, p) => Loose(q, p)'
    BY <1>3, StepKeepsLoose DEF Done
  <2>8. s.items = items[p] \/ Loose(q, p)
    BY <1>c, <2>1, <2>2 DEF Checked
  <2> QED  BY <1>3, <2>5, <2>6, <2>7, <2>8 DEF Checked
<1>4. CASE r.at = "writeProposal" /\ r.proposal = p
  <2>1. r.then.at = "validate" => r.status = "submitted"
    BY <1>c, <1>4, ChainedStays DEF Chained, WriteChained
  <2>2. r.status = "submitted" => r.then.items = items'[p]
    <3> HAVE r.status = "submitted"
    <3>1. SubmitItems(q) /\ r.then.items = items[p]
      BY <1>c, <1>4, WrittenStatus
    <3> QED  BY <3>1 DEF SubmitItems, selectionVars
  <2>3. r.status = "validated" => AllFree(q, p)' \/ Loose(q, p)'
    <3> HAVE r.status = "validated"
    <3>1. CarryOutVerdict(q) /\ s.proposal = p /\ s.verdict = "validated"
      BY <1>c, <1>4, WrittenStatus
    <3>2. s.at = "verdict" /\ items' = items /\ r # Done
      BY <1>4, <3>1 DEF CarryOutVerdict, selectionVars, Done
    <3>3. registrations' = registrations
      BY <3>2, SelectionKeepsRows
    <3>4. AllFree(q, p) \/ Loose(q, p)
      BY <1>c, <3>1, <3>2 DEF Checked
    <3> QED  BY <3>2, <3>3, <3>4, StepKeepsAllFree, StepKeepsLoose
  <2> QED  BY <1>4, <2>1, <2>2, <2>3 DEF Checked
<1> QED  BY <1>1, <1>2, <1>3, <1>4 DEF Checked

\* The registration that a request inserts refuses any other of the same offering.
LEMMA InsertSettles ==
  ASSUME TypeInv, NEW q \in Requests, Step(q), InsertRegistration(q), req'[q] # Done,
         NEW e, e = req[q].enrolment, NEW list, Settled(q, e, list)
  PROVE  Settled(q, e, list)'
<1> DEFINE s == req[q]
           row == [enrolment |-> s.enrolment, offering |-> s.offering,
                   status |-> "registered", by |-> s.by]
           V == Registration(Origins) \cup {Absent}
<1>n. [Next]_vars
  BY DEF Next
<1>1. PICK x \in Rows : /\ registrations[x] = Absent
                        /\ registrations' = [registrations EXCEPT ![x] = row]
  BY RowInserted
<1>2. registrations \in [Rows -> V]
  BY DEF TypeInv, TypeOK
<1>3. /\ row # Absent /\ row.enrolment = s.enrolment /\ row.offering = s.offering
      /\ row.status \in Active
  <2>1. row \in Registration(Origins)
    BY CreatingShape DEF Registration, InsertRegistration
  <2> QED  BY <2>1, AbsentAssumption DEF Active
<1> HIDE DEF row, V
<1>4. registrations'[x] = row /\ \A y \in Rows : y # x => registrations'[y] = registrations[y]
  BY <1>1, <1>2
<1>5. PICK mine : mine = s.offering
  OBVIOUS
<1>6. x \in Duplicates(e, mine)'
  BY <1>3, <1>4, <1>5 DEF Duplicates, RowsOf
<1>7. overlapped'[q] = overlapped[q]
  BY StepWrites DEF Writer
<1>8. ASSUME NEW i \in list PROVE FreeOrRefused(q, e, OfferingOf[i])'
  <2>1. PICK o : o = OfferingOf[i]
    OBVIOUS
  <2>2. CASE o = mine
    BY <1>6, <2>1, <2>2 DEF FreeOrRefused
  <2>3. CASE o # mine
    <3>1. \A r \in Rows : registrations'[r] = registrations[r] \/ registrations'[r].offering # o
      BY <1>3, <1>4, <1>5, <2>3
    <3>2. HasCapacity(o)' = HasCapacity(o) /\ \A f : Duplicates(f, o)' = Duplicates(f, o)
      BY <1>n, <3>1, PlacesStay
    <3>3. FreeOrRefused(q, e, o)
      BY <2>1 DEF Settled
    <3> QED  BY <1>7, <2>1, <3>2, <3>3 DEF FreeOrRefused, Free
  <2> QED  BY <2>2, <2>3
<1> QED  BY <1>8 DEF Settled

LEMMA StepKeepsPlaced ==
  ASSUME TypeInv, SelectionInv, CapacityInv, NEW q \in Requests, Step(q), NEW p \in Proposals
  PROVE  Placed(q, req[q], p)'
<1> DEFINE s == req[q]
           r == req'[q]
<1> SUFFICES ASSUME Confirms(r, p), p \notin suspect' PROVE Placed(q, s, p)'
  BY DEF Placed
<1>c. Chained(s) /\ Checked(q, s, p) /\ Placed(q, s, p) /\ r # Done /\ Chained(r)
  BY ChainedStays DEF SelectionInv, CapacityInv, Confirms, CreatingStates, Done
<1>s. p \notin suspect
  BY SuspectGrows DEF Next
<1>1. CASE r.at = "confirmProposal"
  <2>1. WriteProposal(q) /\ s.proposal = p /\ s.status \in {"validated", "approved"}
    <3>1. WriteProposal(q) /\ r = s.then /\ r.proposal = p
      BY <1>1, DecidingMoves DEF Confirms, CreatingStates
    <3> QED  BY <1>c, <1>1, <3>1 DEF WriteProposal, Chained, WriteChained
  <2>2. /\ s.at = "writeProposal" /\ items' = items
        /\ proposals'[p].status = s.status /\ (p \in overlapped[q] => p \in suspect')
    BY <2>1, ProposalOverwritten DEF WriteProposal
  <2>3. CASE s.status = "validated"
    <3>1. AllFree(q, p)
      BY <1>c, <1>s, <2>1, <2>2, <2>3 DEF Checked, Loose
    <3>2. AllFree(q, p)'
      BY <1>c, <2>2, <3>1, SelectionKeepsRows, StepKeepsAllFree
    <3> QED  BY <1>1, <3>2 DEF Placed, CreatingStates
  <2>4. CASE s.status = "approved"
    BY <1>1, <2>2, <2>4 DEF Placed, CreatingStates
  <2> QED  BY <2>1, <2>3, <2>4
<1>2. CASE r.at = "confirmItems"
  <2>1. ConfirmProposal(q) /\ s.proposal = p /\ r.row = proposals[p]
    BY <1>2, DecidingMoves DEF Confirms, CreatingStates
  <2>2. s.at = "confirmProposal" /\ items' = items
    BY <2>1 DEF ConfirmProposal, selectionVars
  <2>3. proposals[p].status = "approved" \/ AllFree(q, p)
    BY <1>c, <1>s, <2>1, <2>2 DEF Placed, Confirms
  <2>4. AllFree(q, p) => AllFree(q, p)'
    BY <1>c, <2>2, SelectionKeepsRows, StepKeepsAllFree
  <2> QED  BY <1>2, <2>1, <2>3, <2>4 DEF Placed, CreatingStates
<1>3. CASE ConfirmItems(q) /\ r.at = "registerItems"
  <2>1. s.proposal = p /\ r.row = s.row /\ r.left = Offered(items[p])
    <3>1. ~InsertRegistration(q)
      BY <1>3 DEF ConfirmItems, InsertRegistration
    <3>2. r.proposal = p
      BY <1>3 DEF Confirms, CreatingStates
    <3> QED  BY <1>3, <3>1, <3>2, CreatingMoves
  <2>2. s.at = "confirmItems" /\ items' = items
    BY <1>3 DEF ConfirmItems, selectionVars
  <2>3. s.row.status = "approved" \/ AllFree(q, p)
    BY <1>c, <1>s, <2>1, <2>2 DEF Placed, Confirms, CreatingStates
  <2>4. AllFree(q, p) => AllFree(q, p)'
    BY <1>c, <2>2, SelectionKeepsRows, StepKeepsAllFree
  <2>5. PICK e, list : e = r.row.enrolment /\ list = r.left
    OBVIOUS
  <2>6. AllFree(q, p)' => Settled(q, e, list)'
    BY <2>1, <2>2, <2>5 DEF AllFree, Settled, FreeOrRefused
  <2> QED  BY <1>3, <2>1, <2>3, <2>4, <2>5, <2>6 DEF Placed, CreatingStates
<1>4. CASE InsertRegistration(q) /\ r.at = "registerItems"
  <2>1. r = s.then /\ s.at = "insertRegistration" /\ s.at \in CreatingStates
    BY <1>4, CreatingMoves DEF InsertRegistration, ConfirmItems, CreatingStates
  <2>2. /\ s.by.kind = "proposal" /\ s.by.proposal = p
        /\ r.row.status = s.by.status /\ r.row.enrolment = s.enrolment
    BY <1>c, <1>4, <2>1 DEF Chained, Confirms, CreatingStates, Done
  <2>3. s.by.status = "approved" \/ Settled(q, s.enrolment, r.left)
    BY <1>c, <1>s, <2>1, <2>2 DEF Placed, Confirms
  <2>4. PICK e, list : e = s.enrolment /\ list = r.left
    OBVIOUS
  <2>5. Settled(q, e, list) => Settled(q, e, list)'
    BY <1>4, <1>c, <2>4, InsertSettles
  <2> QED  BY <1>4, <2>2, <2>3, <2>4, <2>5 DEF Placed, CreatingStates
<1>5. CASE CheckRegistration(q) /\ r.at \in CreatingStates
  <2>1. /\ r.enrolment = s.enrolment /\ r.offering = s.offering /\ r.by = s.by /\ r.then = s.then
        /\ Passes(Checks[s.check], s.enrolment, s.offering, s.skip) /\ s.check \in 1..6
        /\ r.at = "insertRegistration" => s.check = 6
        /\ r.at = "createRegistration" => r.check = s.check + 1
    BY <1>5, CreatingMoves DEF CheckRegistration, CompleteInstance, RegisterItems
  <2>2. s.at = "createRegistration" /\ s.at \in CreatingStates
    BY <1>5 DEF CheckRegistration, CreatingStates
  <2>3. s.by.kind = "proposal" /\ s.by.proposal = p
    BY <1>5, <2>1 DEF Confirms, CreatingStates
  <2>4. PICK e, o, list : e = s.enrolment /\ o = s.offering /\ list = s.then.left
    OBVIOUS
  <2>5. \/ s.by.status = "approved"
        \/ /\ Settled(q, e, list)
           /\ Free(q, o) \/ (s.check <= 3 /\ Duplicates(e, o) # {})
    BY <1>c, <1>s, <2>2, <2>3, <2>4 DEF Placed, Confirms
  <2>6. s.check = 3 => Duplicates(e, o) = {}
    <3>1. Checks[3] = "duplicate"
      BY DEF Checks
    <3>2. Passes("duplicate", e, o, s.skip) => Duplicates(e, o) = {}
      BY DEF Passes
    <3> QED  BY <2>1, <2>4, <3>1, <3>2
  <2>7. registrations' = registrations
    BY <2>2, SelectionKeepsRows
  <2>8. /\ Free(q, o) => Free(q, o)'
        /\ Settled(q, e, list) => Settled(q, e, list)'
        /\ Duplicates(e, o)' = Duplicates(e, o)
    BY <1>c, <2>7, StepKeepsFree DEF Settled, Duplicates, RowsOf
  <2>9. \/ s.by.status = "approved"
        \/ /\ Settled(q, e, list)'
           /\ \/ Free(q, o)'
              \/ r.at = "createRegistration" /\ r.check <= 3 /\ Duplicates(e, o)' # {}
    <3>1. CASE s.check <= 2
      <4>1. r.at = "createRegistration" /\ r.check <= 3
        BY <1>5, <2>1, <3>1 DEF CreatingStates
      <4> QED  BY <2>5, <2>8, <4>1
    <3>2. CASE s.check >= 3
      BY <2>1, <2>5, <2>6, <2>8, <3>2
    <3> QED  BY <2>1, <3>1, <3>2
  <2> QED  BY <1>5, <2>1, <2>4, <2>9 DEF Placed, CreatingStates
<1>6. CASE RegisterItems(q) /\ r.at \in CreatingStates
  <2>1. /\ r.at = "createRegistration" /\ r.check = 1 /\ r.enrolment = s.row.enrolment
        /\ r.by = [kind |-> "proposal", proposal |-> s.proposal, status |-> s.row.status]
    BY <1>6, CreatingMoves DEF CheckRegistration, CompleteInstance, RegisterItems
  <2>2. PICK i \in s.left : r.offering = OfferingOf[i] /\ r.then.left = s.left \ {i}
    BY <1>6, CreatingMoves DEF CheckRegistration, CompleteInstance, RegisterItems
  <2>3. s.at = "registerItems" /\ s.proposal = p /\ r.by.status = s.row.status
    BY <1>6, <2>1 DEF RegisterItems, Confirms, CreatingStates
  <2>4. s.row.status = "approved" \/ Settled(q, s.row.enrolment, s.left)
    BY <1>c, <1>s, <2>3 DEF Placed, Confirms
  <2>5. registrations' = registrations
    BY <2>3, SelectionKeepsRows
  <2>6. PICK e, o, list : e = r.enrolment /\ o = r.offering /\ list = r.then.left
    OBVIOUS
  <2>7. Settled(q, s.row.enrolment, s.left) => FreeOrRefused(q, e, o)' /\ Settled(q, e, list)'
    <3> HAVE Settled(q, s.row.enrolment, s.left)
    <3>1. \A j \in s.left : FreeOrRefused(q, e, OfferingOf[j])
      BY <2>1, <2>6 DEF Settled
    <3>2. \A j \in s.left : FreeOrRefused(q, e, OfferingOf[j])'
      BY <1>c, <2>5, <3>1, StepKeepsFree
    <3> QED  BY <2>2, <2>6, <3>2 DEF Settled
  <2>8. FreeOrRefused(q, e, o)' => Free(q, o)' \/ Duplicates(e, o)' # {}
    BY DEF FreeOrRefused
  <2> QED  BY <2>1, <2>3, <2>4, <2>6, <2>7, <2>8 DEF Placed, CreatingStates
<1>7. CASE r.at = "writeProposal"
  BY <1>7 DEF Placed, CreatingStates
<1>8. r.at \in CreatingStates => CheckRegistration(q) \/ RegisterItems(q)
  <2>1. r \notin Approved
    BY DEF Approved, Confirms, CreatingStates
  <2> QED  BY <2>1, CreatingMoves
<1>9. r.at = "registerItems" => ConfirmItems(q) \/ InsertRegistration(q)
  BY CreatingMoves
<1> QED  BY <1>1, <1>2, <1>3, <1>4, <1>5, <1>6, <1>7, <1>8, <1>9 DEF Confirms

LEMMA StepKeepsDirect ==
  ASSUME TypeInv, SelectionInv, CapacityInv, NEW q \in Requests, Step(q)
  PROVE  Direct(q, req[q])'
<1> DEFINE s == req[q]
           r == req'[q]
<1> SUFFICES ASSUME r.at \in CreatingStates, r.by.kind # "proposal",
                    r.at = "insertRegistration" \/ r.check >= 5
             PROVE  Direct(q, s)'
  BY DEF Direct
<1>1. CASE CheckRegistration(q)
  <2>1. /\ r.enrolment = s.enrolment /\ r.offering = s.offering /\ r.by = s.by
        /\ Passes(Checks[s.check], s.enrolment, s.offering, s.skip) /\ s.check \in 1..6
        /\ r.at = "insertRegistration" => s.check = 6
        /\ r.at = "createRegistration" => r.check = s.check + 1
    BY <1>1, CreatingMoves DEF CheckRegistration, CompleteInstance, RegisterItems
  <2>2. s.at = "createRegistration" /\ s.at \in CreatingStates /\ s.check >= 4
    BY <1>1, <2>1 DEF CheckRegistration, CreatingStates
  <2>3. ~s.skip
    BY <2>1, <2>2 DEF SelectionInv, Chained
  <2>4. PICK o : o = s.offering
    OBVIOUS
  <2>5. s.check = 4 => HasCapacity(o)
    <3>1. Checks[4] = "capacity"
      BY DEF Checks
    <3>2. Passes("capacity", s.enrolment, o, s.skip) => s.skip \/ HasCapacity(o)
      BY DEF Passes
    <3> QED  BY <2>1, <2>3, <2>4, <3>1, <3>2
  <2>6. s.check >= 5 => Free(q, o)
    BY <2>1, <2>2, <2>4 DEF CapacityInv, Direct
  <2>7. Free(q, o)
    BY <2>1, <2>2, <2>5, <2>6 DEF Free
  <2>8. r # Done /\ registrations' = registrations
    BY <2>2, SelectionKeepsRows DEF CreatingStates, Done
  <2>9. Free(q, o)'
    BY <2>7, <2>8, StepKeepsFree
  <2> QED  BY <2>1, <2>4, <2>9 DEF Direct
<1>2. CASE r \in Approved
  <2>1. r.at = "createRegistration" /\ r.check = 1
    BY <1>2 DEF Approved, CreatingStates
  <2> QED  BY <2>1
<1>3. CASE r.by = [kind |-> "proposal", proposal |-> s.proposal, status |-> s.row.status]
  BY <1>3
<1> QED  BY <1>1, <1>2, <1>3, CreatingMoves

\* A registration that was to find a place is inserted where there is one.
LEMMA InsertFinds ==
  ASSUME TypeInv, SelectionInv, CapacityInv, [Next]_vars, NEW o \in Offerings, o \notin suspect',
         NEW r \in Ordinary(o)', registrations[r] = Absent
  PROVE  /\ HasCapacity(o)
         /\ \A x \in Rows : x # r => registrations'[x] = registrations[x]
<1>1. r \in Rows /\ registrations'[r] # Absent /\ registrations'[r].offering = o
  BY DEF Ordinary, Registered
<1>2. PICK q \in Requests :
        /\ Step(q) /\ InsertRegistration(q)
        /\ registrations'[r] = [enrolment |-> req[q].enrolment, offering |-> req[q].offering,
                                status |-> "registered", by |-> req[q].by]
        /\ \A x \in Rows : x # r => registrations'[x] = registrations[x]
        /\ req[q].offering \in overlapped[q] => req[q].offering \in suspect'
  BY <1>1, RowArrives
<1> DEFINE s == req[q]
<1>3. /\ s.at = "insertRegistration" /\ s.at \in CreatingStates
      /\ s.offering = o /\ registrations'[r].by = s.by
  BY <1>1, <1>2 DEF InsertRegistration, CreatingStates
<1>4. Free(q, o)
  <2>1. CASE s.by.kind # "proposal"
    BY <1>3, <2>1 DEF CapacityInv, Direct
  <2>2. CASE s.by.kind = "proposal"
    <3>1. s.by.proposal \in Proposals
      <4>1. s.by \in Origins
        BY <1>3, CreatingShape
      <4> QED  BY <2>2, <4>1 DEF Origins, Staff, ChangeRequest
    <3>2. s.by.status # "approved" /\ s.by.proposal \notin suspect
      BY <1>3, <2>2, SuspectGrows DEF Ordinary
    <3>3. Confirms(s, s.by.proposal)
      BY <1>3, <2>2 DEF Confirms
    <3>4. Placed(q, s, s.by.proposal)
      BY <3>1 DEF CapacityInv
    <3> QED  BY <1>3, <3>2, <3>3, <3>4 DEF Placed
  <2> QED  BY <2>1, <2>2
<1> QED  BY <1>2, <1>3, <1>4 DEF Free

LEMMA PlacesKept ==
  ASSUME TypeInv, SelectionInv, CapacityInv, [Next]_vars, NEW o \in Offerings
  PROVE  PlacesFit(o)'
<1> SUFFICES ASSUME o \notin suspect', Capacity[o] # Absent
             PROVE  Cardinality(Ordinary(o)') <= Capacity[o]
  BY DEF PlacesFit
<1>s. suspect \subseteq suspect'
  BY SuspectGrows
<1>c. Capacity[o] \in Nat /\ Cardinality(Ordinary(o)) <= Capacity[o]
  BY <1>s, CapacityAssumption DEF CapacityInv, PlacesFit
<1>f. /\ Ordinary(o) \subseteq Registered(o) /\ Registered(o) \subseteq Rows
      /\ IsFiniteSet(Registered(o)) /\ IsFiniteSet(Ordinary(o))
      /\ Cardinality(Registered(o)) \in Nat /\ Cardinality(Ordinary(o)) \in Nat
      /\ Cardinality(Ordinary(o)) <= Cardinality(Registered(o))
  <2>1. Ordinary(o) \subseteq Registered(o) /\ Registered(o) \subseteq Rows
    BY DEF Ordinary, Registered
  <2>2. IsFiniteSet(Registered(o))
    BY <2>1, RowsAssumption, FS_Subset
  <2> QED  BY <2>1, <2>2, FS_Subset, FS_CardinalityType
<1>1. ASSUME NEW r \in Ordinary(o)', registrations[r] # Absent PROVE r \in Ordinary(o)
  <2>1. r \in Rows /\ registrations'[r].offering = o /\ registrations'[r].status = "registered"
    BY <1>1 DEF Ordinary, Registered
  <2>2. /\ registrations[r].offering = o /\ registrations[r].by = registrations'[r].by
        /\ registrations[r].status = "registered"
    BY <1>1, <2>1, RowsStay
  <2> QED  BY <1>1, <1>s, <2>1, <2>2 DEF Ordinary, Registered
<1>2. CASE \A r \in Ordinary(o)' : registrations[r] # Absent
  <2>1. Ordinary(o)' \subseteq Ordinary(o)
    BY <1>1, <1>2
  <2>2. Cardinality(Ordinary(o)') \in Nat /\ Cardinality(Ordinary(o)') <= Cardinality(Ordinary(o))
    BY <1>f, <2>1, FS_Subset, FS_CardinalityType
  <2> QED  BY <1>c, <1>f, <2>2
<1>3. ASSUME NEW r \in Ordinary(o)', registrations[r] = Absent
      PROVE  Cardinality(Ordinary(o)') <= Capacity[o]
  <2>1. /\ HasCapacity(o)
        /\ \A x \in Rows : x # r => registrations'[x] = registrations[x]
    BY <1>3, InsertFinds
  <2>2. Cardinality(Registered(o)) < Capacity[o]
    BY <2>1 DEF HasCapacity
  <2>3. Ordinary(o)' \subseteq Ordinary(o) \cup {r}
    <3> SUFFICES ASSUME NEW x \in Ordinary(o)', x # r PROVE x \in Ordinary(o)
      OBVIOUS
    <3>1. x \in Rows /\ registrations'[x] # Absent
      BY DEF Ordinary, Registered
    <3> QED  BY <1>1, <2>1, <3>1
  <2>4. /\ IsFiniteSet(Ordinary(o) \cup {r})
        /\ Cardinality(Ordinary(o) \cup {r}) <= Cardinality(Ordinary(o)) + 1
        /\ Cardinality(Ordinary(o) \cup {r}) \in Nat
    <3>1. PICK S : S = Ordinary(o)
      OBVIOUS
    <3>2. IsFiniteSet(S) /\ Cardinality(S) \in Nat
      BY <1>f, <3>1
    <3>3. /\ IsFiniteSet(S \cup {r})
          /\ Cardinality(S \cup {r}) = IF r \in S THEN Cardinality(S) ELSE Cardinality(S) + 1
      BY <3>2, FS_AddElement
    <3>4. /\ Cardinality(S \cup {r}) <= Cardinality(S) + 1
          /\ Cardinality(S \cup {r}) \in Nat
      BY <3>2, <3>3
    <3> QED  BY <3>1, <3>3, <3>4
  <2>5. Cardinality(Ordinary(o)') \in Nat
        /\ Cardinality(Ordinary(o)') <= Cardinality(Ordinary(o) \cup {r})
    BY <2>3, <2>4, FS_Subset, FS_CardinalityType
  <2> QED  BY <1>c, <1>f, <2>2, <2>4, <2>5
<1> QED  BY <1>2, <1>3

LEMMA NextCapacity ==
  ASSUME TypeInv, SelectionInv, CapacityInv, [Next]_vars
  PROVE  CapacityInv'
<1>1. ASSUME NEW q \in Requests, NEW p \in Proposals
      PROVE  Checked(q, req[q], p)' /\ Placed(q, req[q], p)'
  BY NextBystanders, BystanderKeepsChecked, StepKeepsChecked, BystanderKeepsPlaced, StepKeepsPlaced
<1>2. ASSUME NEW q \in Requests PROVE Direct(q, req[q])'
  BY NextBystanders, BystanderKeepsDirect, StepKeepsDirect
<1>3. ASSUME NEW o \in Offerings PROVE PlacesFit(o)'
  BY PlacesKept
<1> QED  BY <1>1, <1>2, <1>3 DEF CapacityInv

LEMMA CapacityInvariant == Spec => []CapacityInv
<1>1. TypeInv /\ SelectionInv /\ CapacityInv /\ [Next]_vars => CapacityInv'
  BY NextCapacity
<1> QED  BY InitCapacity, TypeInvariant, SelectionInvariant, <1>1, PTL DEF Spec

\* An offering is filled beyond its capacity only by a proposal that an approver let
\* through, by one whose items were changed under its confirmation, or by two requests
\* that wrote its registrations at once: every other request has found a place for what
\* it inserts, before the six checks or among them (createRegistration, submitProposal).
THEOREM OfferingsKeepTheirCapacity == Spec => []CapacityKept
<1>1. CapacityInv => CapacityKept
  <2> SUFFICES ASSUME CapacityInv, NEW o \in Offerings \ suspect,
                      \A r \in Registered(o) :
                        LET by == registrations[r].by
                        IN  ~(by.kind = "proposal" /\ (by.status = "approved" \/ by.proposal \in suspect))
               PROVE  Capacity[o] = Absent \/ Cardinality(Registered(o)) <= Capacity[o]
    BY DEF CapacityKept
  <2>1. Ordinary(o) = Registered(o)
    BY DEF Ordinary
  <2> QED  BY <2>1 DEF CapacityInv, PlacesFit
<1> QED  BY CapacityInvariant, <1>1, PTL

-------------------------------------------------------------------------------
(* Sums over a finite set.                                                  *)

\* g gives the sum of c over each subset of X, whichever element is taken first.
Sums(g, c, X) ==
  /\ g \in [SUBSET X -> Nat]
  /\ g[{}] = 0
  /\ \A S \in SUBSET X : \A x \in S : g[S] = c[x] + g[S \ {x}]

LEMMA SumsOfOneMore ==
  ASSUME NEW X, NEW y \in X, NEW c \in [X -> Nat], NEW g, Sums(g, c, X \ {y})
  PROVE  \E h : Sums(h, c, X)
<1> DEFINE h == [S \in SUBSET X |-> IF y \in S THEN c[y] + g[S \ {y}] ELSE g[S]]
<1>g. /\ \A S \in SUBSET (X \ {y}) : g[S] \in Nat
      /\ g[{}] = 0
      /\ \A S \in SUBSET (X \ {y}) : \A x \in S : g[S] = c[x] + g[S \ {x}]
  BY DEF Sums
<1>c. \A x \in X : c[x] \in Nat
  OBVIOUS
<1>h. \A S \in SUBSET X : h[S] = IF y \in S THEN c[y] + g[S \ {y}] ELSE g[S]
  OBVIOUS
<1>1. h \in [SUBSET X -> Nat]
  <2>1. ASSUME NEW S \in SUBSET X
        PROVE  (IF y \in S THEN c[y] + g[S \ {y}] ELSE g[S]) \in Nat
    <3>1. CASE y \in S
      <4>1. g[S \ {y}] \in Nat /\ c[y] \in Nat
        BY <1>g, <1>c
      <4> QED  BY <3>1, <4>1
    <3>2. CASE y \notin S
      <4>1. S \in SUBSET (X \ {y})
        BY <3>2
      <4> QED  BY <1>g, <3>2, <4>1
    <3> QED  BY <3>1, <3>2
  <2> QED  BY <2>1
<1> HIDE DEF h
<1>2. h[{}] = 0
  BY <1>g, <1>h
<1>3. ASSUME NEW S \in SUBSET X, NEW x \in S PROVE h[S] = c[x] + h[S \ {x}]
  <2>1. CASE y \notin S
    <3>1. S \in SUBSET (X \ {y}) /\ S \ {x} \in SUBSET X
      BY <2>1
    <3>2. h[S] = g[S] /\ h[S \ {x}] = g[S \ {x}]
      BY <1>h, <2>1, <3>1
    <3> QED  BY <1>g, <3>1, <3>2
  <2>2. CASE x = y
    <3>1. S \ {x} \in SUBSET X /\ y \notin S \ {x}
      BY <2>2
    <3>2. h[S] = c[y] + g[S \ {y}] /\ h[S \ {x}] = g[S \ {x}]
      BY <1>h, <2>2, <3>1
    <3> QED  BY <2>2, <3>2
  <2>3. CASE y \in S /\ x # y
    <3>1. /\ S \ {y} \in SUBSET (X \ {y}) /\ x \in S \ {y} /\ S \ {x} \in SUBSET X
          /\ y \in S \ {x} /\ (S \ {x}) \ {y} = (S \ {y}) \ {x}
          /\ (S \ {y}) \ {x} \in SUBSET (X \ {y})
      BY <2>3
    <3>2. /\ h[S] = c[y] + g[S \ {y}]
          /\ h[S \ {x}] = c[y] + g[(S \ {x}) \ {y}]
      BY <1>h, <2>3, <3>1
    <3>3. g[S \ {y}] = c[x] + g[(S \ {y}) \ {x}]
      BY <1>g, <3>1
    <3>4. c[x] \in Nat /\ c[y] \in Nat /\ g[(S \ {y}) \ {x}] \in Nat
      BY <1>g, <1>c, <3>1
    <3>5. PICK a, b, d \in Nat : a = c[x] /\ b = c[y] /\ d = g[(S \ {y}) \ {x}]
      BY <3>4
    <3>6. h[S] = b + (a + d) /\ h[S \ {x}] = b + d
      BY <3>1, <3>2, <3>3, <3>5
    <3> QED  BY <3>5, <3>6
  <2> QED  BY <2>1, <2>2, <2>3
<1> QED  BY <1>1, <1>2, <1>3 DEF Sums

\* A finite set has its sums: a smallest one without them would be one element larger
\* than a set that has them.
LEMMA SumsExist ==
  ASSUME NEW X, IsFiniteSet(X), NEW c \in [X -> Nat]
  PROVE  \E g : Sums(g, c, X)
<1> DEFINE Summed(Y) == \E g : Sums(g, c, Y)
           T == {n \in Nat : \E Y \in SUBSET X : Cardinality(Y) = n /\ ~Summed(Y)}
<1>f. ASSUME NEW Y \in SUBSET X PROVE IsFiniteSet(Y) /\ Cardinality(Y) \in Nat
  BY FS_Subset, FS_CardinalityType
<1>1. CASE T = {}
  <2>1. Cardinality(X) \in Nat /\ X \in SUBSET X
    BY <1>f
  <2>2. Summed(X)
    BY <1>1, <2>1
  <2> QED  BY <2>2
<1>2. CASE T # {}
  <2>1. PICK n \in T : \A m \in T : ~(<<m, n>> \in OpToRel(<, Nat))
    <3>1. T \subseteq Nat
      OBVIOUS
    <3> HIDE DEF T
    <3> QED  BY <1>2, <3>1, NatLessThanWellFounded, WFMin
  <2>2. PICK Y \in SUBSET X : Cardinality(Y) = n /\ ~Summed(Y)
    OBVIOUS
  <2>3. Y # {}
    <3> SUFFICES ASSUME Y = {} PROVE FALSE
      OBVIOUS
    <3> DEFINE g == [S \in {{}} |-> 0]
    <3>1. g \in [SUBSET {} -> Nat] /\ g[{}] = 0
      <4>1. SUBSET {} = {{}}
        OBVIOUS
      <4> QED  BY <4>1
    <3> HIDE DEF g
    <3>2. Sums(g, c, {})
      BY <3>1 DEF Sums
    <3> QED  BY <2>2, <3>2
  <2>4. PICK y \in Y : TRUE
    BY <2>3
  <2>5. /\ IsFiniteSet(Y) /\ Cardinality(Y \ {y}) = n - 1
        /\ Y \ {y} \in SUBSET X /\ Cardinality(Y \ {y}) \in Nat /\ n \in Nat
    BY <1>f, <2>2, FS_RemoveElement
  <2>6. n - 1 \notin T
    <3>1. n - 1 \in Nat /\ n - 1 < n
      BY <2>5
    <3> HIDE DEF T
    <3> QED  BY <2>1, <2>5, <3>1 DEF OpToRel
  <2>7. Summed(Y \ {y})
    BY <2>5, <2>6
  <2>8. c \in [X -> Nat] /\ \A x \in Y : c[x] \in Nat
    BY <2>2
  <2> DEFINE d == [x \in Y |-> c[x]]
  <2>9. d \in [Y -> Nat] /\ \A x \in Y : d[x] = c[x]
    BY <2>8
  <2> HIDE DEF d
  <2>10. PICK g : Sums(g, d, Y \ {y})
    <3>1. PICK g : Sums(g, c, Y \ {y})
      BY <2>7
    <3>2. \A S \in SUBSET (Y \ {y}) : \A x \in S : d[x] = c[x]
      BY <2>9
    <3>3. Sums(g, d, Y \ {y})
      BY <3>1, <3>2 DEF Sums
    <3> QED  BY <3>3
  <2>11. PICK h : Sums(h, d, Y)
    BY <2>4, <2>9, <2>10, SumsOfOneMore
  <2>12. Sums(h, c, Y)
    BY <2>9, <2>11 DEF Sums
  <2> QED  BY <2>2, <2>12
<1> QED  BY <1>1, <1>2
-------------------------------------------------------------------------------
(* The credits of the registrations of an enrolment.                        *)

Worth(table, r) == Credits[ModuleOf[table[r].offering]]

Chosen(s) == CHOOSE x \in s : TRUE

IsFold(it, table, X) ==
  it = [s \in SUBSET X |->
          IF s = {} THEN 0 ELSE Worth(table, Chosen(s)) + it[s \ {Chosen(s)}]]

\* What the fold over a set computes is its sum.
LEMMA CreditsUnfold ==
  ASSUME NEW table, NEW e, NEW t
  PROVE  CreditsIn(table, e, t)
           = (CHOOSE it : IsFold(it, table, RegisteredIn(table, e, t)))[RegisteredIn(table, e, t)]
BY DEF CreditsIn, MapThenSumSet, MapThenFoldSet, IsFold, Worth, Chosen

LEMMA FoldIsSum ==
  ASSUME NEW X, IsFiniteSet(X), NEW S \in SUBSET X, NEW c, NEW g, Sums(g, c, X),
         NEW table, \A r \in S : c[r] = Worth(table, r)
  PROVE  (CHOOSE it : IsFold(it, table, S))[S] = g[S]
<1> DEFINE it == CHOOSE f : IsFold(f, table, S)
<1>s. \A s \in SUBSET S : s # {} => Chosen(s) \in s
  BY DEF Chosen
<1>g. \A s \in SUBSET S : g[s] = IF s = {} THEN 0 ELSE Worth(table, Chosen(s)) + g[s \ {Chosen(s)}]
  <2> SUFFICES ASSUME NEW s \in SUBSET S
               PROVE  g[s] = IF s = {} THEN 0 ELSE Worth(table, Chosen(s)) + g[s \ {Chosen(s)}]
    OBVIOUS
  <2>1. CASE s = {}
    BY <2>1 DEF Sums
  <2>2. CASE s # {}
    <3>1. Chosen(s) \in s /\ s \in SUBSET X
      BY <1>s, <2>2
    <3>2. g[s] = c[Chosen(s)] + g[s \ {Chosen(s)}]
      BY <3>1 DEF Sums
    <3>3. c[Chosen(s)] = Worth(table, Chosen(s))
      BY <3>1
    <3> QED  BY <2>2, <3>2, <3>3
  <2> QED  BY <2>1, <2>2
<1>1. IsFold(it, table, S)
  <2> DEFINE f == [s \in SUBSET S |-> g[s]]
  <2>1. \A s \in SUBSET S : f[s] = g[s] /\ f[s \ {Chosen(s)}] = g[s \ {Chosen(s)}]
    OBVIOUS
  <2>2. f = [s \in SUBSET S |->
               IF s = {} THEN 0 ELSE Worth(table, Chosen(s)) + f[s \ {Chosen(s)}]]
    <3> HIDE DEF f
    <3>1. \A s \in SUBSET S :
            f[s] = IF s = {} THEN 0 ELSE Worth(table, Chosen(s)) + f[s \ {Chosen(s)}]
      BY <1>g, <2>1
    <3>2. f = [s \in SUBSET S |-> f[s]]
      BY DEF f
    <3> QED  BY <3>1, <3>2
  <2>3. \E h : IsFold(h, table, S)
    <3> HIDE DEF f
    <3> QED  BY <2>2 DEF IsFold
  <2> QED  BY <2>3
<1> HIDE DEF it
<1>2. \A s \in SUBSET S :
        it[s] = IF s = {} THEN 0 ELSE Worth(table, Chosen(s)) + it[s \ {Chosen(s)}]
  BY <1>1 DEF IsFold
<1> DEFINE T == {n \in Nat : \E s \in SUBSET S : Cardinality(s) = n /\ it[s] # g[s]}
<1>f. ASSUME NEW s \in SUBSET S PROVE IsFiniteSet(s) /\ Cardinality(s) \in Nat
  BY FS_Subset, FS_CardinalityType
<1>3. CASE T = {}
  <2>1. Cardinality(S) \in Nat /\ S \in SUBSET S
    BY <1>f
  <2>2. it[S] = g[S]
    BY <1>3, <2>1
  <2> QED  BY <2>2 DEF it
<1>4. CASE T # {}
  <2>1. PICK n \in T : \A m \in T : ~(<<m, n>> \in OpToRel(<, Nat))
    <3>1. T \subseteq Nat
      OBVIOUS
    <3> HIDE DEF T
    <3> QED  BY <1>4, <3>1, NatLessThanWellFounded, WFMin
  <2>2. PICK s \in SUBSET S : Cardinality(s) = n /\ it[s] # g[s]
    OBVIOUS
  <2>3. s # {} /\ Chosen(s) \in s
    BY <1>s, <1>g, <1>2, <2>2
  <2>4. PICK x : x = Chosen(s)
    OBVIOUS
  <2>5. /\ s \ {x} \in SUBSET S /\ Cardinality(s \ {x}) = n - 1
        /\ Cardinality(s \ {x}) \in Nat /\ n \in Nat
    BY <1>f, <2>2, <2>3, <2>4, FS_RemoveElement
  <2>6. n - 1 \notin T
    <3>1. n - 1 \in Nat /\ n - 1 < n
      BY <2>5
    <3> HIDE DEF T
    <3> QED  BY <2>1, <2>5, <3>1 DEF OpToRel
  <2>7. it[s \ {x}] = g[s \ {x}]
    BY <2>5, <2>6
  <2> QED  BY <1>g, <1>2, <2>2, <2>3, <2>4, <2>7
<1> QED  BY <1>3, <1>4

LEMMA CreditsAreSums ==
  ASSUME NEW c, NEW g, Sums(g, c, Rows), NEW table, NEW e, NEW t,
         \A r \in RegisteredIn(table, e, t) : c[r] = Worth(table, r)
  PROVE  CreditsIn(table, e, t) = g[RegisteredIn(table, e, t)]
<1>1. PICK S \in SUBSET Rows : S = RegisteredIn(table, e, t)
  BY DEF RegisteredIn
<1>2. \A r \in S : c[r] = Worth(table, r)
  BY <1>1
<1>3. (CHOOSE it : IsFold(it, table, S))[S] = g[S]
  BY <1>2, RowsAssumption, FoldIsSum
<1>4. CreditsIn(table, e, t) = (CHOOSE it : IsFold(it, table, S))[S]
  BY <1>1, CreditsUnfold
<1> QED  BY <1>1, <1>3, <1>4

LEMMA CreditsCompared ==
  ASSUME NEW a \in [Rows -> Registration(Origins) \cup {Absent}],
         NEW b \in [Rows -> Registration(Origins) \cup {Absent}],
         NEW e, NEW t,
         \A r \in RegisteredIn(a, e, t) : b[r] # Absent /\ b[r].offering = a[r].offering
  PROVE  LET before == RegisteredIn(a, e, t)
             after == RegisteredIn(b, e, t)
         IN  /\ CreditsIn(a, e, t) \in Nat /\ CreditsIn(b, e, t) \in Nat
             /\ after = before => CreditsIn(b, e, t) = CreditsIn(a, e, t)
             /\ \A x \in before :
                  after = before \ {x} => CreditsIn(b, e, t) <= CreditsIn(a, e, t)
             /\ \A x \in Rows \ before :
                  after = before \cup {x} =>
                    CreditsIn(b, e, t) = CreditsIn(a, e, t) + Credits[ModuleOf[b[x].offering]]
<1> DEFINE before == RegisteredIn(a, e, t)
           after == RegisteredIn(b, e, t)
           c == [r \in Rows |-> IF b[r] = Absent THEN 0 ELSE Worth(b, r)]
<1>v. \A r \in Rows : b[r] # Absent => b[r].offering \in Offerings
  BY DEF Registration
<1>w. \A o \in Offerings : Credits[ModuleOf[o]] \in Nat
  BY CreditsAssumption, OfferingsAssumption
<1>r. before \in SUBSET Rows /\ after \in SUBSET Rows
  BY DEF RegisteredIn
<1>c. /\ c \in [Rows -> Nat]
      /\ \A r \in before : c[r] = Worth(a, r)
      /\ \A r \in after : c[r] = Worth(b, r)
      /\ \A r \in Rows : b[r] # Absent => c[r] = Credits[ModuleOf[b[r].offering]]
  <2>1. \A r \in Rows : (IF b[r] = Absent THEN 0 ELSE Worth(b, r)) \in Nat
    BY <1>v, <1>w DEF Worth
  <2>2. c \in [Rows -> Nat]
    BY <2>1
  <2>3. \A r \in after : r \in Rows /\ b[r] # Absent
    BY DEF RegisteredIn
  <2>4. \A r \in before : r \in Rows /\ Worth(a, r) = Worth(b, r) /\ b[r] # Absent
    BY <1>r DEF Worth
  <2> HIDE DEF before, after
  <2>5. \A r \in Rows : b[r] # Absent => c[r] = Worth(b, r)
    OBVIOUS
  <2> HIDE DEF c
  <2> QED  BY <2>2, <2>3, <2>4, <2>5 DEF Worth
<1> HIDE DEF c
<1>1. PICK g : Sums(g, c, Rows)
  BY <1>c, RowsAssumption, SumsExist
<1>2. CreditsIn(a, e, t) = g[before]
  <2>1. \A r \in before : c[r] = Worth(a, r)
    BY <1>c
  <2> QED  BY <1>1, <2>1, CreditsAreSums
<1>3. CreditsIn(b, e, t) = g[after]
  <2>1. \A r \in after : c[r] = Worth(b, r)
    BY <1>c
  <2> QED  BY <1>1, <2>1, CreditsAreSums
<1> HIDE DEF before, after
<1>4. g[before] \in Nat /\ g[after] \in Nat
  BY <1>1, <1>r DEF Sums
<1>5. ASSUME NEW x \in before, after = before \ {x} PROVE g[after] <= g[before]
  <2>1. g[before] = c[x] + g[after] /\ c[x] \in Nat
    BY <1>1, <1>c, <1>r, <1>5 DEF Sums
  <2> QED  BY <1>4, <2>1
<1>6. ASSUME NEW x \in Rows, x \notin before, after = before \cup {x}
      PROVE  g[after] = g[before] + Credits[ModuleOf[b[x].offering]]
  <2>1. x \in after /\ after \ {x} = before
    BY <1>6
  <2>2. g[after] = c[x] + g[before] /\ c[x] \in Nat
    BY <1>1, <1>c, <1>r, <2>1 DEF Sums
  <2>3. c[x] = Credits[ModuleOf[b[x].offering]]
    <3>1. b[x] # Absent
      BY <2>1 DEF after, RegisteredIn
    <3> QED  BY <1>c, <3>1
  <2> QED  BY <1>4, <2>2, <2>3
<1> QED  BY <1>2, <1>3, <1>4, <1>5, <1>6 DEF before, after

-------------------------------------------------------------------------------
(* The limits of an enrolment.                                              *)

RegistrationsOf(e) == <<"registrations", e>>

\* What a request has found of an enrolment's registrations, unless they have been
\* written since.
LimitsFits(q, s) ==
  /\ s.at = "insertRegistration" \/ (s.at = "createRegistration" /\ s.check >= 4) =>
       Duplicates(s.enrolment, s.offering) = {} \/ RegistrationsOf(s.enrolment) \in overlapped[q]
  /\ s.at = "insertRegistration" =>
       CreditsAllow(s.enrolment, s.offering) \/ RegistrationsOf(s.enrolment) \in overlapped[q]
  /\ s.at = "writeRegistration" =>
       LET row == registrations[s.registration]
       IN  row.status = "registered" \/ RegistrationsOf(row.enrolment) \in overlapped[q]

Within(e) ==
  /\ \A r, x \in RowsOf(e, Active) : registrations[r].offering = registrations[x].offering => r = x
  /\ \A t \in Periods : RegisteredCredits(e, t) <= MaxCredits

LimitsInv ==
  /\ \A q \in Requests : LimitsFits(q, req[q])
  /\ \A e \in Enrolments : RegistrationsOf(e) \in suspect \/ Within(e)

LEMMA InitLimits == Init => LimitsInv
<1> SUFFICES ASSUME Init PROVE LimitsInv
  OBVIOUS
<1>1. ASSUME NEW q \in Requests PROVE LimitsFits(q, req[q])
  <2>1. req[q] \in Call
    BY CallsAssumption, ScenariosAssumption DEF Init, CallsInit
  <2>2. /\ req[q].at \notin {"writeRegistration", "insertRegistration"}
        /\ req[q].at = "createRegistration" => req[q].check = 1
    BY <2>1 DEF Call
  <2> QED  BY <2>2 DEF LimitsFits
<1>2. ASSUME NEW e \in Enrolments PROVE Within(e)
  <2>1. PICK s \in Scenarios : registrations = s.registrations
    BY DEF Init
  <2>2. \A r, x \in { y \in Rows : registrations[y] # Absent /\ registrations[y].status \in Active } :
          /\ registrations[r].enrolment = registrations[x].enrolment
          /\ registrations[r].offering = registrations[x].offering
          => r = x
    BY <2>1, LimitsAssumption
  <2>3. \A t \in Periods : RegisteredCredits(e, t) <= MaxCredits
    BY <2>1, LimitsAssumption DEF RegisteredCredits
  <2> QED  BY <2>2, <2>3 DEF Within, RowsOf
<1> QED  BY <1>1, <1>2 DEF LimitsInv

\* Where no row of an enrolment changes, its limits do not.
LEMMA LimitsStay ==
  ASSUME TypeInv, TypeInv', [Next]_vars, NEW e,
         \A r \in Rows : registrations'[r] = registrations[r] \/ registrations'[r].enrolment # e
  PROVE  /\ \A o : Duplicates(e, o)' = Duplicates(e, o)
         /\ \A t : RegisteredCredits(e, t)' = RegisteredCredits(e, t)
         /\ \A o : CreditsAllow(e, o)' = CreditsAllow(e, o)
         /\ Within(e)' = Within(e)
<1>t. /\ registrations \in [Rows -> Registration(Origins) \cup {Absent}]
      /\ registrations' \in [Rows -> Registration(Origins) \cup {Absent}]
  BY DEF TypeInv, TypeOK
<1>1. ASSUME NEW r \in Rows, registrations'[r] # registrations[r]
      PROVE  /\ registrations'[r].enrolment # e
             /\ registrations[r] # Absent => registrations[r].enrolment # e
  BY <1>1, RowsStay
<1>2. ASSUME NEW statuses
      PROVE  /\ RowsOf(e, statuses)' = RowsOf(e, statuses)
             /\ \A r \in RowsOf(e, statuses) : registrations'[r] = registrations[r]
  BY <1>1 DEF RowsOf
<1>3. \A o : Duplicates(e, o)' = Duplicates(e, o)
  BY <1>2 DEF Duplicates
<1>4. ASSUME NEW t PROVE RegisteredCredits(e, t)' = RegisteredCredits(e, t)
  <2>1. /\ RegisteredIn(registrations', e, t) = RegisteredIn(registrations, e, t)
        /\ \A r \in RegisteredIn(registrations, e, t) :
             registrations[r] # Absent /\ registrations'[r] = registrations[r]
    BY <1>1 DEF RegisteredIn
  <2>2. CreditsIn(registrations', e, t) = CreditsIn(registrations, e, t)
    BY <1>t, <2>1, CreditsCompared
  <2> QED  BY <2>2 DEF RegisteredCredits
<1>5. \A o : CreditsAllow(e, o)' = CreditsAllow(e, o)
  BY <1>4 DEF CreditsAllow
<1>6. Within(e)' = Within(e)
  BY <1>2, <1>4 DEF Within
<1> QED  BY <1>3, <1>4, <1>5, <1>6

\* A row of an enrolment is written by a request that has noticed it.
LEMMA BystanderKeepsLimits ==
  ASSUME TypeInv, TypeInv', LimitsInv, [Next]_vars, NEW q \in Requests, Bystander(q)
  PROVE  LimitsFits(q, req[q])'
<1> DEFINE s == req[q]
<1>r. req'[q] = s /\ LimitsFits(q, s)
  BY DEF Bystander, LimitsInv
<1>1. ASSUME InFlight(q), NEW e, RegistrationsOf(e) \notin overlapped'[q]
      PROVE  /\ RegistrationsOf(e) \notin overlapped[q]
             /\ \A o : Duplicates(e, o)' = Duplicates(e, o)
             /\ \A o : CreditsAllow(e, o)' = CreditsAllow(e, o)
  <2>1. \A r \in Rows : registrations'[r] = registrations[r] \/ registrations'[r].enrolment # e
    BY <1>1 DEF Bystander, Touched, RegistrationsOf
  <2>2. RegistrationsOf(e) \notin overlapped[q]
    BY <1>1 DEF Bystander
  <2> QED  BY <2>1, <2>2, LimitsStay
<1>2. CASE s.at = "insertRegistration" \/ (s.at = "createRegistration" /\ s.check >= 4)
  <2>1. InFlight(q)
    BY <1>2, CreatingShape, Checking, UnderWay DEF Entries
  <2>2. PICK e, o : e = s.enrolment /\ o = s.offering
    OBVIOUS
  <2>3. Duplicates(e, o)' = {} \/ RegistrationsOf(e) \in overlapped'[q]
    BY <1>r, <1>1, <1>2, <2>1, <2>2 DEF LimitsFits
  <2>4. s.at = "insertRegistration" => CreditsAllow(e, o)' \/ RegistrationsOf(e) \in overlapped'[q]
    BY <1>r, <1>1, <1>2, <2>1, <2>2 DEF LimitsFits
  <2> QED  BY <1>r, <1>2, <2>2, <2>3, <2>4 DEF LimitsFits
<1>3. CASE s.at = "writeRegistration"
  <2>1. InFlight(q)
    BY <1>3, UnderWay DEF Entries
  <2>2. PICK x \in Rows : x = s.registration
    BY <1>3, Rewritten
  <2>3. registrations[x] # Absent
    BY <1>3, <2>2, Rewritten, AbsentAssumption
  <2>4. /\ registrations'[x].enrolment = registrations[x].enrolment
        /\ \/ registrations'[x] = registrations[x]
           \/ RegistrationsOf(registrations'[x].enrolment) \in overlapped'[q]
    BY <2>1, <2>3, RowsStay DEF Bystander, Touched, RegistrationsOf
  <2>5. \/ registrations[x].status = "registered"
        \/ RegistrationsOf(registrations[x].enrolment) \in overlapped[q]
    BY <1>r, <1>3, <2>2 DEF LimitsFits
  <2>6. overlapped[q] \subseteq overlapped'[q]
    BY <2>1 DEF Bystander
  <2>7. \/ registrations'[x].status = "registered"
        \/ RegistrationsOf(registrations'[x].enrolment) \in overlapped'[q]
    BY <2>4, <2>5, <2>6
  <2> QED  BY <1>r, <1>3, <2>2, <2>7 DEF LimitsFits
<1>4. CASE ~(s.at = "insertRegistration" \/ (s.at = "createRegistration" /\ s.check >= 4))
           /\ s.at # "writeRegistration"
  BY <1>r, <1>4 DEF LimitsFits
<1> QED  BY <1>2, <1>3, <1>4

\* The check that makes each part of it true comes right before.
LEMMA StepKeepsLimits ==
  ASSUME TypeInv, LimitsInv, NEW q \in Requests, Step(q)
  PROVE  LimitsFits(q, req[q])'
<1> DEFINE s == req[q]
           r == req'[q]
<1>f. LimitsFits(q, s)
  BY DEF LimitsInv
<1>1. CASE r.at \in CreatingStates
  <2>1. CASE CheckRegistration(q)
    <3>1. /\ r.enrolment = s.enrolment /\ r.offering = s.offering
          /\ Passes(Checks[s.check], s.enrolment, s.offering, s.skip) /\ s.check \in 1..6
          /\ r.at = "insertRegistration" => s.check = 6
          /\ r.at = "createRegistration" => r.check = s.check + 1
      BY <1>1, <2>1, CreatingMoves DEF CheckRegistration, CompleteInstance, RegisterItems
    <3>2. s.at = "createRegistration" /\ r # Done
      BY <1>1, <2>1 DEF CheckRegistration, CreatingStates, Done
    <3>3. registrations' = registrations /\ overlapped'[q] = overlapped[q]
      BY <3>2, SelectionKeepsRows, StepWrites DEF Writer
    <3>4. PICK e, o : e = s.enrolment /\ o = s.offering
      OBVIOUS
    <3>5. Checks[3] = "duplicate" /\ Checks[6] = "credits"
      BY DEF Checks
    <3>6. s.check = 3 => Duplicates(e, o) = {}
      BY <3>1, <3>4, <3>5 DEF Passes
    <3>7. s.check = 6 => CreditsAllow(e, o)
      BY <3>1, <3>4, <3>5 DEF Passes
    <3>8. s.check >= 4 => Duplicates(e, o) = {} \/ RegistrationsOf(e) \in overlapped[q]
      BY <1>f, <3>2, <3>4 DEF LimitsFits
    <3>9. /\ Duplicates(e, o)' = Duplicates(e, o)
          /\ CreditsAllow(e, o)' = CreditsAllow(e, o)
      BY <3>3 DEF Duplicates, RowsOf, CreditsAllow, RegisteredCredits
    <3>10. /\ r.at = "insertRegistration" \/ (r.at = "createRegistration" /\ r.check >= 4) =>
                Duplicates(e, o)' = {} \/ RegistrationsOf(e) \in overlapped'[q]
           /\ r.at = "insertRegistration" => CreditsAllow(e, o)'
      BY <3>1, <3>3, <3>6, <3>7, <3>8, <3>9
    <3> QED  BY <1>1, <3>1, <3>4, <3>10 DEF LimitsFits, CreatingStates
  <2>2. CASE r \in Approved
    <3>1. r.at = "createRegistration" /\ r.check = 1
      BY <1>1, <2>2 DEF Approved, CreatingStates
    <3> QED  BY <3>1 DEF LimitsFits
  <2>3. CASE r.at = "createRegistration" /\ r.check = 1
    BY <2>3 DEF LimitsFits
  <2> QED  BY <1>1, <2>1, <2>2, <2>3, CreatingMoves
<1>2. CASE r.at = "writeRegistration"
  <2>1. ReadRegistration(q)
    BY <1>2, Arrivals
  <2>2. s \in Changing(Present(registrations))
    BY <2>1, RequestShape DEF ReadRegistration, TypeInv, KnownRequest
  <2>3. r = IF MayChange(s.registration) THEN [s EXCEPT !.at = "writeRegistration"] ELSE Done
    BY <2>1, Arrives DEF ReadRegistration
  <2>4. MayChange(s.registration) /\ r.registration = s.registration
    BY <1>2, <2>2, <2>3 DEF Done, Changing
  <2>5. registrations' = registrations
    BY <2>1 DEF ReadRegistration, registrationVars
  <2> QED  BY <1>2, <2>4, <2>5 DEF LimitsFits, MayChange
<1>3. CASE r.at \notin CreatingStates \cup {"writeRegistration"}
  BY <1>3 DEF LimitsFits, CreatingStates
<1> QED  BY <1>1, <1>2, <1>3

-------------------------------------------------------------------------------
(* The steps that write a registration.                                     *)

LEMMA InsertKeepsWithin ==
  ASSUME TypeInv, TypeInv', LimitsInv, [Next]_vars, NEW q \in Requests, InsertRegistration(q),
         NEW e \in Enrolments, e = req[q].enrolment, Within(e), RegistrationsOf(e) \notin suspect'
  PROVE  Within(e)'
<1> DEFINE s == req[q]
<1>t. /\ registrations \in [Rows -> Registration(Origins) \cup {Absent}]
      /\ registrations' \in [Rows -> Registration(Origins) \cup {Absent}]
  BY DEF TypeInv, TypeOK
<1>1. PICK r \in Rows :
        /\ registrations[r] = Absent
        /\ registrations' = [registrations EXCEPT ![r] =
                               [enrolment |-> s.enrolment, offering |-> s.offering,
                                status |-> "registered", by |-> s.by]]
        /\ Writes(q, {r, s.offering, <<"registrations", s.enrolment>>}, s.then)
  BY RowInserted
<1>2. /\ \A x \in Rows \ {r} : registrations'[x] = registrations[x]
      /\ registrations'[r] = [enrolment |-> s.enrolment, offering |-> s.offering,
                              status |-> "registered", by |-> s.by]
  BY <1>t, <1>1
<1>3. RegistrationsOf(e) \notin overlapped[q]
  BY <1>1 DEF Writes, RegistrationsOf
<1>4. /\ s.at = "insertRegistration" /\ s.offering \in Offerings
      /\ Duplicates(e, s.offering) = {} /\ CreditsAllow(e, s.offering)
  BY <1>3, CreatingShape DEF InsertRegistration, LimitsInv, LimitsFits
<1>a. registrations'[r] # Absent
  BY <1>t, <1>1, <1>2, AbsentAssumption, RowsStay, CreatingShape DEF Registration, InsertRegistration
<1>5. \A x, y \in RowsOf(e, Active)' : registrations'[x].offering = registrations'[y].offering => x = y
  <2>1. \A x \in RowsOf(e, Active)' \ {r} :
          /\ x \in RowsOf(e, Active)
          /\ registrations'[x].offering = registrations[x].offering
          /\ registrations[x].offering # s.offering
    BY <1>2, <1>4 DEF RowsOf, Duplicates
  <2>2. registrations'[r].offering = s.offering
    BY <1>2
  <2> QED  BY <2>1, <2>2 DEF Within
<1>6. ASSUME NEW t \in Periods PROVE RegisteredCredits(e, t)' <= MaxCredits
  <2>1. \A x \in RegisteredIn(registrations, e, t) :
          /\ x \in Rows /\ x # r /\ registrations[x] # Absent
          /\ registrations'[x] # Absent /\ registrations'[x].offering = registrations[x].offering
    BY <1>1, <1>2 DEF RegisteredIn
  <2>2. RegisteredIn(registrations', e, t) =
          IF PeriodOf[s.offering] = t THEN RegisteredIn(registrations, e, t) \cup {r}
          ELSE RegisteredIn(registrations, e, t)
    BY <1>1, <1>2, <1>a DEF RegisteredIn
  <2>3. CreditsIn(registrations, e, t) <= MaxCredits
    BY DEF Within, RegisteredCredits
  <2>4. CASE PeriodOf[s.offering] # t
    <3>1. CreditsIn(registrations', e, t) = CreditsIn(registrations, e, t)
      BY <1>t, <2>1, <2>2, <2>4, CreditsCompared
    <3> QED  BY <2>3, <3>1 DEF RegisteredCredits
  <2>5. CASE PeriodOf[s.offering] = t
    <3>1. CreditsIn(registrations, e, t) + Credits[ModuleOf[s.offering]] <= MaxCredits
      BY <1>4, <2>5 DEF CreditsAllow, RegisteredCredits
    <3>2. registrations'[r].offering = s.offering /\ r \in Rows \ RegisteredIn(registrations, e, t)
      BY <1>2, <2>1
    <3>3. CreditsIn(registrations', e, t)
            = CreditsIn(registrations, e, t) + Credits[ModuleOf[s.offering]]
      BY <1>t, <2>1, <2>2, <2>5, <3>2, CreditsCompared
    <3> QED  BY <3>1, <3>3 DEF RegisteredCredits
  <2> QED  BY <2>4, <2>5
<1> QED  BY <1>5, <1>6 DEF Within

LEMMA WriteKeepsWithin ==
  ASSUME TypeInv, TypeInv', LimitsInv, [Next]_vars, NEW q \in Requests, WriteRegistration(q),
         NEW r \in Rows, r = req[q].registration,
         NEW e \in Enrolments, e = registrations[r].enrolment, Within(e),
         RegistrationsOf(e) \notin suspect'
  PROVE  Within(e)'
<1>t. /\ registrations \in [Rows -> Registration(Origins) \cup {Absent}]
      /\ registrations' \in [Rows -> Registration(Origins) \cup {Absent}]
  BY DEF TypeInv, TypeOK
<1>1. /\ registrations[r] \in Registration(Origins)
      /\ req[q].to \in {"withdrawn", "completed"} /\ registrations[r] # Absent
  BY Rewritten, AbsentAssumption DEF WriteRegistration
<1>2. /\ registrations' = [registrations EXCEPT ![r].status = req[q].to]
      /\ RegistrationsOf(e) \notin overlapped[q]
  BY DEF WriteRegistration, Writes, RegistrationsOf
<1>3. registrations[r].status = "registered"
  BY <1>2 DEF LimitsInv, LimitsFits, WriteRegistration
<1>4. /\ \A x \in Rows \ {r} : registrations'[x] = registrations[x]
      /\ registrations'[r].status = req[q].to
      /\ registrations'[r].offering = registrations[r].offering
      /\ registrations'[r] # Absent
  <2>1. \A x \in Rows \ {r} : registrations'[x] = registrations[x]
    BY <1>t, <1>2
  <2>2. registrations'[r] = [registrations[r] EXCEPT !.status = req[q].to]
    BY <1>t, <1>2
  <2>3. registrations'[r].status = req[q].to
    BY <1>1, <2>2 DEF Registration
  <2> QED  BY <1>1, <2>1, <2>3, RowsStay
<1>5. \A x, y \in RowsOf(e, Active)' : registrations'[x].offering = registrations'[y].offering => x = y
  <2>1. \A x \in RowsOf(e, Active)' :
          x \in RowsOf(e, Active) /\ registrations'[x].offering = registrations[x].offering
    BY <1>1, <1>3, <1>4 DEF RowsOf, Active
  <2> QED  BY <2>1 DEF Within
<1>6. ASSUME NEW t \in Periods PROVE RegisteredCredits(e, t)' <= MaxCredits
  <2>1. \A x \in RegisteredIn(registrations, e, t) :
          registrations'[x] # Absent /\ registrations'[x].offering = registrations[x].offering
    BY <1>4 DEF RegisteredIn
  <2>2. RegisteredIn(registrations', e, t) = RegisteredIn(registrations, e, t) \ {r}
    BY <1>1, <1>4 DEF RegisteredIn
  <2>3. CreditsIn(registrations, e, t) <= MaxCredits
    BY DEF Within, RegisteredCredits
  <2>4. /\ CreditsIn(registrations, e, t) \in Nat /\ CreditsIn(registrations', e, t) \in Nat
        /\ CreditsIn(registrations', e, t) <= CreditsIn(registrations, e, t)
    <3>1. CASE r \in RegisteredIn(registrations, e, t)
      BY <1>t, <2>1, <2>2, <3>1, CreditsCompared
    <3>2. CASE r \notin RegisteredIn(registrations, e, t)
      <4>1. RegisteredIn(registrations', e, t) = RegisteredIn(registrations, e, t)
        BY <2>2, <3>2
      <4> QED  BY <1>t, <2>1, <4>1, CreditsCompared
    <3> QED  BY <3>1, <3>2
  <2> QED  BY <2>3, <2>4, CreditsAssumption DEF RegisteredCredits
<1> QED  BY <1>5, <1>6 DEF Within

LEMMA NextLimits ==
  ASSUME TypeInv, TypeInv', LimitsInv, [Next]_vars
  PROVE  LimitsInv'
<1>1. ASSUME NEW q \in Requests PROVE LimitsFits(q, req[q])'
  BY NextBystanders, BystanderKeepsLimits, StepKeepsLimits
<1>2. ASSUME NEW e \in Enrolments, RegistrationsOf(e) \notin suspect' PROVE Within(e)'
  <2>1. Within(e)
    BY <1>2, SuspectGrows DEF LimitsInv
  <2>2. CASE UNCHANGED registrations
    BY <2>1, <2>2, LimitsStay
  <2>3. ASSUME NEW q \in Requests, InsertRegistration(q) PROVE Within(e)'
    <3>1. CASE e = req[q].enrolment
      BY <1>2, <2>1, <2>3, <3>1, InsertKeepsWithin
    <3>2. CASE e # req[q].enrolment
      <4>1. PICK r \in Rows :
              registrations' = [registrations EXCEPT ![r] =
                                  [enrolment |-> req[q].enrolment, offering |-> req[q].offering,
                                   status |-> "registered", by |-> req[q].by]]
        BY <2>3, RowInserted
      <4>2. \A x \in Rows : registrations'[x] = registrations[x] \/ registrations'[x].enrolment # e
        BY <3>2, <4>1 DEF TypeInv, TypeOK
      <4> QED  BY <2>1, <4>2, LimitsStay
    <3> QED  BY <3>1, <3>2
  <2>4. ASSUME NEW q \in Requests, WriteRegistration(q) PROVE Within(e)'
    <3>1. PICK r \in Rows : r = req[q].registration
      BY <2>4, Rewritten DEF WriteRegistration
    <3>2. CASE e = registrations[r].enrolment
      BY <1>2, <2>1, <2>4, <3>1, <3>2, WriteKeepsWithin
    <3>3. CASE e # registrations[r].enrolment
      <4>1. registrations[r] # Absent
        BY <2>4, <3>1, Rewritten, AbsentAssumption DEF WriteRegistration
      <4>2. \A x \in Rows : x # r => registrations'[x] = registrations[x]
        BY <2>4, <3>1 DEF WriteRegistration, TypeInv, TypeOK
      <4>3. registrations'[r].enrolment # e
        BY <3>3, <4>1, RowsStay
      <4> QED  BY <2>1, <4>2, <4>3, LimitsStay
    <3> QED  BY <3>2, <3>3
  <2> QED  BY <2>2, <2>3, <2>4, RegistrationFrame
<1> QED  BY <1>1, <1>2 DEF LimitsInv

LEMMA LimitsInvariant == Spec => []LimitsInv
<1>1. TypeInv /\ TypeInv' /\ LimitsInv /\ [Next]_vars => LimitsInv'
  BY NextLimits
<1> QED  BY InitLimits, TypeInvariant, <1>1, PTL DEF Spec

\* An enrolment has one active registration of an offering, and no more credits in a period
\* than the limit, although the two checks and the insert are transactions of their own,
\* unless registrations of it were written in between (createRegistration).
THEOREM RegistrationsAreWithinLimits == Spec => []RegistrationsWithinLimits
<1>1. LimitsInv => RegistrationsWithinLimits
  <2> SUFFICES ASSUME LimitsInv, NEW e \in Enrolments, <<"registrations", e>> \notin suspect
               PROVE  /\ \A o \in Offerings : Cardinality(Duplicates(e, o)) <= 1
                      /\ \A period \in Periods : RegisteredCredits(e, period) <= MaxCredits
    BY DEF RegistrationsWithinLimits
  <2>1. Within(e)
    BY DEF LimitsInv, RegistrationsOf
  <2>2. ASSUME NEW o \in Offerings PROVE Cardinality(Duplicates(e, o)) <= 1
    <3>1. \A r, x \in Duplicates(e, o) : r = x
      BY <2>1 DEF Within, Duplicates
    <3>2. CASE Duplicates(e, o) = {}
      <4>1. Cardinality({}) = 0
        BY FS_EmptySet
      <4> QED  BY <3>2, <4>1
    <3>3. CASE Duplicates(e, o) # {}
      <4>1. PICK r \in Duplicates(e, o) : TRUE
        BY <3>3
      <4>2. Duplicates(e, o) = {r}
        BY <3>1
      <4>3. Cardinality({r}) = 1
        BY FS_Singleton
      <4> QED  BY <4>2, <4>3
    <3> QED  BY <3>2, <3>3
  <2> QED  BY <2>1, <2>2 DEF Within
<1> QED  BY LimitsInvariant, <1>1, PTL

===============================================================================
