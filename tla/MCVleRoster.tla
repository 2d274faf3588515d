----------------------------- MODULE MCVleRoster -----------------------------
(***************************************************************************)
(* Model-checking instances of VleRoster: every registration is of one     *)
(* student, on one module.                                                 *)
(***************************************************************************)
EXTENDS VleRoster, TLC

CONSTANTS e1, m1

MCEnrolmentOf == [r \in Registrations |-> e1]
MCModuleOf == [r \in Registrations |-> m1]

RosterSymmetry == Permutations(Registrations)

===============================================================================
