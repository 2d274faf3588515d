--------------------------- MODULE ModuleSelection ---------------------------
(***************************************************************************)
(* Module selection proposals: items, submission and validation, allocation*)
(* by an approver, confirmation as registrations, and the binding of an    *)
(* enrolment to a rule set (apps/api/src/platform/module-selection/        *)
(* service.ts).                                                            *)
(*                                                                         *)
(* A status is written over the row that was read earlier; the items have  *)
(* no version, and confirmation reads them again.                          *)
(***************************************************************************)
EXTENDS Registrations

CONSTANTS
  Proposals,
  Items,        \* identifiers of module_selection_proposal_item rows
  ModuleOfItem,
  OfferingOf,   \* the offering of each item, or Absent
  Compulsory,   \* the items that createProposal adds
  Groups,       \* module groups of the rule set: [members, compulsory, min, max]
  CreditLoad,   \* getCreditLoadRequirement: [min, max]
  Bindings      \* identifiers of enrolment_curriculum_binding rows

ASSUME ItemsAssumption ==
  /\ ModuleOfItem \in [Items -> Modules]
  /\ OfferingOf \in [Items -> Offerings \cup {Absent}]
  /\ Compulsory \subseteq Items

VARIABLES
  proposals,   \* the current version of each proposal
  items,       \* the items of each proposal
  bindings     \* the current bindings of each enrolment

selectionVars == <<proposals, items, bindings>>

ProposalStatuses == {"draft", "submitted", "validated", "waitlisted", "approved",
                     "confirmed", "rejected", "returned"}

Proposal == [enrolment : Enrolments, workflow : Instances \cup {Absent},
             status : ProposalStatuses]

-------------------------------------------------------------------------------

ItemCredits(list) == MapThenSumSet(LAMBDA i : Credits[ModuleOfItem[i]], list)

\* #checkRelationships: a co-requisite may be another item of the proposal.
RelationshipsHold(e, item, list) ==
  \A rule \in { x \in Rules : x.module = ModuleOfItem[item] } :
    CASE rule.type = "prerequisite" -> HasRelated(e, rule.related, {"completed"}, Periods)
      [] rule.type = "exclusion"    -> ~HasRelated(e, rule.related, Active, Periods)
      [] rule.type = "co-requisite" -> \/ \E i \in list : ModuleOfItem[i] = rule.related
                                       \/ HasRelated(e, rule.related, Active, Periods)

\* #checkGroups; a group without a selection counts only if it is compulsory.
GroupsHold(list) ==
  \A g \in Groups :
    LET selected == { i \in list : ModuleOfItem[i] \in g.members }
    IN  selected # {} \/ g.compulsory => Cardinality(selected) \in g.min..g.max

\* The part of #validateSelection that depends on the items alone.
SelectionAllowed(list) ==
  /\ \A i, j \in list : i # j => ModuleOfItem[i] # ModuleOfItem[j]
  /\ GroupsHold(list)
  /\ ItemCredits(list) \in CreditLoad.min..CreditLoad.max

Offered(list) == { i \in list : OfferingOf[i] # Absent }

\* #validateSelection: the errors, which are found before capacity is looked at or
\* depend on nothing that changes.
Valid(e, list) == SelectionAllowed(list) /\ \A i \in list : RelationshipsHold(e, i, list)

\* submitProposal: an error outweighs a conflict of capacity.
Verdict(valid, list) ==
  CASE ~valid -> "returned"
    [] valid /\ (\E i \in Offered(list) : ~HasCapacity(OfferingOf[i])) -> "waitlisted"
    [] OTHER -> "validated"

\* #ensureEditable, and the check of submitProposal.
Editable(status) == status \in {"draft", "returned"}

Decidable(status) == status \in {"waitlisted", "submitted"}

\* The statement of #transitionProposal: a copy of the row, with another status.
WriteOver(p, row, status, then) ==
  [at |-> "writeProposal", proposal |-> p, row |-> row, status |-> status,
   instance |-> row.workflow, then |-> then]

\* A mutant for AfterStatus: a rejected proposal is confirmed as well.
AfterStatusUnlessReturned(p, status) ==
  IF status # "returned" THEN [at |-> "confirmProposal", proposal |-> p] ELSE Done

\* #confirmProposal follows a verdict or a decision in favour.
AfterStatus(p, status) ==
  IF status \in {"validated", "approved"} THEN [at |-> "confirmProposal", proposal |-> p]
  ELSE Done

-------------------------------------------------------------------------------

\* A mutant for Unbound: an enrolment that is bound is bound again.
UnboundAlways(e) == TRUE

Unbound(e) == bindings[e] = {}

\* createProposal: #resolveCurriculumBinding looks for a binding.
CreateProposal(q) ==
  /\ req[q].at = "createProposal"
  /\ LET e == req[q].enrolment
     IN  Reads(q, CASE enrolments[e] = Absent -> Done
                    [] Unbound(e)       -> [at |-> "insertBinding", enrolment |-> e,
                                            binding |-> Absent,
                                            then |-> [at |-> "insertProposal", enrolment |-> e]]
                    [] OTHER -> [at |-> "insertProposal", enrolment |-> e])
  /\ UNCHANGED selectionVars

\* setCurriculumBinding: the current binding is read, and closed on its own.
ReadBinding(q) ==
  /\ req[q].at = "setCurriculumBinding"
  /\ LET e == req[q].enrolment
         insert(b) == [at |-> "insertBinding", enrolment |-> e, binding |-> b, then |-> Done]
     IN  IF bindings[e] = {}
         THEN Reads(q, insert(Absent))
         ELSE \E b \in bindings[e] : Reads(q, [insert(b) EXCEPT !.at = "closeBinding"])
  /\ UNCHANGED selectionVars

CloseBinding(q) ==
  /\ req[q].at = "closeBinding"
  /\ LET e == req[q].enrolment
     IN  /\ bindings' = [bindings EXCEPT ![e] = @ \ {req[q].binding}]
         /\ Writes(q, {<<"binding", e>>}, [req[q] EXCEPT !.at = "insertBinding"])
  /\ UNCHANGED <<proposals, items>>

\* The insert of a new binding, or of the next version of the one that was closed;
\* the index allows one current version of it.
InsertBinding(q) ==
  /\ req[q].at = "insertBinding"
  /\ LET e == req[q].enrolment
         unused == Bindings \ UNION { bindings[f] : f \in Enrolments }
     IN  \E b \in IF req[q].binding = Absent THEN unused ELSE {req[q].binding} :
           IF b \in bindings[e]
           THEN Reads(q, Done) /\ UNCHANGED bindings
           ELSE /\ bindings' = [bindings EXCEPT ![e] = @ \cup {b}]
                /\ Writes(q, {<<"binding", e>>}, req[q].then)
  /\ UNCHANGED <<proposals, items>>

\* createProposal: the draft; #populateCompulsoryItems follows, item by item.
InsertProposal(q) ==
  /\ req[q].at = "insertProposal"
  /\ Unused(proposals) # {}
  /\ LET p == CHOOSE x \in Unused(proposals) : TRUE
     IN  /\ proposals' = [proposals EXCEPT ![p] =
                            [enrolment |-> req[q].enrolment, status |-> "draft",
                             workflow |-> Absent]]
         /\ Writes(q, {p}, IF Compulsory = {} THEN Done
                           ELSE [at |-> "populate", proposal |-> p, left |-> Compulsory])
  /\ UNCHANGED <<items, bindings>>

PopulateItem(q) ==
  /\ req[q].at = "populate"
  /\ LET p == req[q].proposal
         left == req[q].left
     IN  \E i \in left :
           /\ items' = [items EXCEPT ![p] = @ \cup {i}]
           /\ Writes(q, {p}, IF left = {i} THEN Done ELSE [req[q] EXCEPT !.left = @ \ {i}])
  /\ UNCHANGED <<proposals, bindings>>

\* addItem and removeItem: #ensureEditable in a transaction of its own.
EditItem(q) ==
  /\ req[q].at \in {"addItem", "removeItem"}
  /\ LET p == req[q].proposal
     IN  Reads(q, IF proposals[p] # Absent /\ Editable(proposals[p].status)
                  THEN [at |-> "writeItem", proposal |-> p, item |-> req[q].item,
                        adding |-> req[q].at = "addItem"]
                  ELSE Done)
  /\ UNCHANGED selectionVars

WriteItem(q) ==
  /\ req[q].at = "writeItem"
  /\ LET p == req[q].proposal
     IN  /\ items' = [items EXCEPT ![p] = IF req[q].adding THEN @ \cup {req[q].item}
                                          ELSE @ \ {req[q].item}]
         /\ Writes(q, {p}, Done)
  /\ UNCHANGED <<proposals, bindings>>

\* submitProposal: the row is read, and then the items.
SubmitProposal(q) ==
  /\ req[q].at = "submitProposal"
  /\ LET p == req[q].proposal
         row == proposals[p]
     IN  Reads(q, IF row # Absent /\ Editable(row.status)
                  THEN [at |-> "submitItems", proposal |-> p, row |-> row]
                  ELSE Done)
  /\ UNCHANGED selectionVars

SubmitItems(q) ==
  /\ req[q].at = "submitItems"
  /\ LET p == req[q].proposal
     IN  Reads(q, IF items[p] # {}
                  THEN WriteOver(p, req[q].row, "submitted",
                                 [at |-> "validate", proposal |-> p, items |-> items[p]])
                  ELSE Done)
  /\ UNCHANGED selectionVars

\* #transitionProposal: whatever version is current is closed, and replaced by the copy.
WriteProposal(q) ==
  /\ req[q].at = "writeProposal"
  /\ LET p == req[q].proposal
     IN  /\ proposals' = [proposals EXCEPT ![p] = [req[q].row EXCEPT !.status = req[q].status,
                                                                      !.workflow = req[q].instance]]
         /\ Writes(q, {p}, req[q].then)
  /\ UNCHANGED <<items, bindings>>

\* submitProposal: #validateSelection of the items that were read before, the
\* registrations first and then the capacity.
ValidateSelection(q) ==
  /\ req[q].at = "validate"
  /\ LET p == req[q].proposal
     IN  Reads(q, [at |-> "capacity", proposal |-> p, items |-> req[q].items,
                   valid |-> Valid(proposals[p].enrolment, req[q].items)])
  /\ UNCHANGED selectionVars

ValidateCapacity(q) ==
  /\ req[q].at = "capacity"
  /\ Reads(q, [at |-> "verdict", proposal |-> req[q].proposal,
               verdict |-> Verdict(req[q].valid, req[q].items)])
  /\ UNCHANGED selectionVars

\* submitProposal: the row is read again, and the verdict is carried out.  (For a valid
\* proposal it is read twice in a row; the first of these reads is not used.)
CarryOutVerdict(q) ==
  /\ req[q].at = "verdict"
  /\ LET p == req[q].proposal
         verdict == req[q].verdict
         write == WriteOver(p, proposals[p], verdict, AfterStatus(p, verdict))
     IN  Reads(q, IF verdict = "waitlisted"
                  THEN [at |-> "startInstance", then |-> write,
                        context |-> [action |-> "allocate", proposal |-> p]]
                  ELSE write)
  /\ UNCHANGED selectionVars

\* decideProposal: the row is read; the workflow, if any, is closed first.
DecideProposal(q) ==
  /\ req[q].at = "decideProposal"
  /\ LET p == req[q].proposal
         row == proposals[p]
         decision == req[q].decision
         write == WriteOver(p, row, decision, AfterStatus(p, decision))
     IN  Reads(q, CASE row = Absent -> Done
                    [] row # Absent /\ ~Decidable(row.status) -> Done
                    [] row # Absent /\ Decidable(row.status) /\ row.workflow = Absent -> write
                    [] OTHER -> Closing(row.workflow, decision, write))
  /\ UNCHANGED selectionVars

\* #confirmProposal: the row is read again, and then the items.
ConfirmProposal(q) ==
  /\ req[q].at = "confirmProposal"
  /\ LET p == req[q].proposal
     IN  Reads(q, [at |-> "confirmItems", proposal |-> p, row |-> proposals[p]])
  /\ UNCHANGED selectionVars

ConfirmItems(q) ==
  /\ req[q].at = "confirmItems"
  /\ LET p == req[q].proposal
     IN  Reads(q, [at |-> "registerItems", proposal |-> p, row |-> req[q].row,
                   left |-> Offered(items[p])])
  /\ UNCHANGED selectionVars

ByProposal(p, row) == [kind |-> "proposal", proposal |-> p, status |-> row.status]

\* A mutant for ItemRegistration: a refused registration is passed over.
ItemRegistrationSkipped(q, i) ==
  LET rest == [req[q] EXCEPT !.left = @ \ {i}]
      e == req[q].row.enrolment
  IN  IF RulesSatisfied(e, OfferingOf[i])
      THEN NewRegistration(e, OfferingOf[i], TRUE, ByProposal(req[q].proposal, req[q].row), rest)
      ELSE rest

\* #confirmProposal: an item is registered, without a check of capacity.
ItemRegistration(q, i) ==
  NewRegistration(req[q].row.enrolment, OfferingOf[i], TRUE,
                  ByProposal(req[q].proposal, req[q].row), [req[q] EXCEPT !.left = @ \ {i}])

\* #confirmProposal: one registration after another, then the status.
RegisterItems(q) ==
  /\ req[q].at = "registerItems"
  /\ IF req[q].left = {}
     THEN Reads(q, WriteOver(req[q].proposal, req[q].row, "confirmed", Done))
     ELSE \E i \in req[q].left : Reads(q, ItemRegistration(q, i))
  /\ UNCHANGED selectionVars

SelectionStep(q) ==
  \/ CreateProposal(q)
  \/ ReadBinding(q)
  \/ CloseBinding(q)
  \/ InsertBinding(q)
  \/ InsertProposal(q)
  \/ PopulateItem(q)
  \/ EditItem(q)
  \/ WriteItem(q)
  \/ SubmitProposal(q)
  \/ SubmitItems(q)
  \/ WriteProposal(q)
  \/ ValidateSelection(q)
  \/ ValidateCapacity(q)
  \/ CarryOutVerdict(q)
  \/ DecideProposal(q)
  \/ ConfirmProposal(q)
  \/ ConfirmItems(q)
  \/ RegisterItems(q)

===============================================================================
