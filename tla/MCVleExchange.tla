------------------------------ MODULE MCVleExchange ----------------------------
(***************************************************************************)
(* One adjustment, owed to the VLE and to the examinations system, and the *)
(* users' calls that may meet while it is distributed; two marks.          *)
(***************************************************************************)
EXTENDS VleExchange, TLC

CONSTANTS a1, dv, dx, m1, m2, q1, q2, q3

MCAdjustmentOf == (dv :> a1) @@ (dx :> a1)
MCTargetOf == (dv :> "vle") @@ (dx :> "exams")

AckOf(d, target) == Acknowledge(d, target, Done, Done)
Submit(r) == [at |-> "submitMark", reference |-> r]
On(at) == [at |-> at, adjustment |-> a1]

MCCalls == {AckOf(dv, "vle"), AckOf(dx, "exams"), AckOf(dx, "vle"),
            On("recordAdjustment"), On("expireAdjustment"), On("attachOutcomeDocument"),
            Submit(m1), Submit(m2)}

Ask(x, y, z) == (q1 :> x) @@ (q2 :> y) @@ (q3 :> z)

\* The adjustment is recorded before anyone asks, or by one of the requests.
MCScenarios ==
  { [versions |-> (a1 :> 1), faults |-> 0,
     calls |-> Ask(AckOf(dv, "vle"), AckOf(dx, "vle"), Done)],
    [versions |-> (a1 :> 1), faults |-> MaxFaults - 1,
     calls |-> Ask(AckOf(dv, "vle"), AckOf(dv, "vle"), Done)],
    [versions |-> (a1 :> 1), faults |-> MaxFaults,
     calls |-> Ask(AckOf(dv, "vle"), On("expireAdjustment"), On("attachOutcomeDocument"))],
    [versions |-> (a1 :> 1), faults |-> MaxFaults,
     calls |-> Ask(On("attachOutcomeDocument"), On("expireAdjustment"),
                   On("attachOutcomeDocument"))],
    [versions |-> (a1 :> 0), faults |-> MaxFaults - 1,
     calls |-> Ask(On("recordAdjustment"), AckOf(dx, "exams"), On("expireAdjustment"))],
    [versions |-> (a1 :> 0), faults |-> MaxFaults,
     calls |-> Ask(Submit(m1), Submit(m1), Submit(m1))],
    [versions |-> (a1 :> 0), faults |-> MaxFaults,
     calls |-> Ask(Submit(m1), Submit(m1), Submit(m2))] }

===============================================================================
