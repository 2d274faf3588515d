------------------------ MODULE MCAssessmentGovernance ------------------------
(***************************************************************************)
(* Model-checking instances of AssessmentGovernance.  There is one student *)
(* and one component.  The board covers registration r1 only.  All marks   *)
(* are of r1, one attempt each, except for m3.                             *)
(***************************************************************************)
EXTENDS AssessmentGovernance, TLC

CONSTANTS m1, m3, r1, r2, e1, c1

MCMarkOf ==
  [m \in Marks |-> [registration |-> IF m = m3 THEN r2 ELSE r1, component |-> c1,
                    attempt |-> IF m = m1 THEN 1 ELSE 2]]

MCEnrolmentOf == [r \in Registrations |-> e1]
MCScope == [b \in Boards |-> {r1}]
MCCaseOf == [c \in Cases |-> e1]

GovernanceSymmetry == Permutations(Requests)

===============================================================================
