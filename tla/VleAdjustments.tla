---------------------------- MODULE VleAdjustments ----------------------------
(***************************************************************************)
(* The adjustment flow between the SRS and the VLE connector: the handler  *)
(* of distributed events (f-sis-vle-02), the message loop that calls it,   *)
(* the reconciliation of adjustments, and the SRS they both acknowledge    *)
(* to, which publishes a distributed event each time.                      *)
(*                                                                         *)
(* The handler runs in one database transaction.  Its calls to the VLE and *)
(* to the SRS take effect at once and stay when the transaction rolls      *)
(* back.  A connector that crashes comes back after the SRS has finished   *)
(* serving what it had asked for.                                          *)
(***************************************************************************)
EXTENDS Adjustments, FiniteSets

CONSTANTS
  Loop, Pass,     \* the connector's message loop and its reconciliation
  MaxAttempts,    \* maxAttempts, also the consumer's max_deliver
  FirstCount,     \* redeliveryCount of a first delivery: 1 in nats.js
  MaxFaults       \* bound on failed calls, lost acknowledgements and crashes

ASSUME ConnectorAssumption ==
  /\ Loop \in Requests /\ Pass \in Requests /\ Loop # Pass
  /\ MaxAttempts \in Nat \ {0} /\ FirstCount \in {0, 1} /\ MaxFaults \in Nat

Connector == {Loop, Pass}
Users == Requests \ Connector

VARIABLES
  vle,        \* the distributions whose adjustment the VLE has been given
  row,        \* the adjustment map: the status of each distribution's row
  ledger,     \* the events with a 'processed' ledger row
  canApply,   \* whether the connector was given a VLE client
  canAck,     \* whether it was given an SRS client
  blind,      \* the distributions recorded as applied without a VLE client
  faults

connectorVars == <<row, ledger, blind>>
config == <<canApply, canAck>>
srsVars == <<adjustmentVars, events>>
flowVars == <<srsVars, vle, connectorVars, config, faults>>

Settling(s, ack) == [at |-> "settle", seq |-> s, ack |-> ack]

\* deliveryCount + 1 >= maxAttempts, where deliveryCount = FirstCount at first.
GivesUp(s) == events[s].deliveries + FirstCount >= MaxAttempts

-------------------------------------------------------------------------------
(* The message loop and the handler.                                       *)

\* The server delivers any event that is not acknowledged, so often; dispatch
\* skips an event that has been processed.
Deliver(s) ==
  /\ req[Loop] = Done
  /\ ~events[s].acked
  /\ events[s].deliveries < MaxAttempts
  /\ events' = [events EXCEPT ![s].deliveries = @ + 1]
  /\ Reads(Loop, IF s \in ledger THEN Settling(s, TRUE)
                                 ELSE [at |-> "handle", seq |-> s])
  /\ UNCHANGED <<adjustmentVars, vle, connectorVars, config, faults>>

\* A mutant for Skipped: the handler does not look for its own map row.
SkippedForOthers(d) == TargetOf[d] # "vle"

\* The target is another system, or the map row says 'acknowledged'.
Skipped(d) == TargetOf[d] # "vle" \/ row[d] = "acknowledged"

Examine ==
  /\ req[Loop].at = "handle"
  /\ LET s == req[Loop].seq IN
       Reads(Loop, [at  |-> IF Skipped(events[s].dist) THEN "commit" ELSE "apply",
                    seq |-> s, writes |-> ~Skipped(events[s].dist)])
  /\ UNCHANGED <<srsVars, vle, connectorVars, config, faults>>

\* acknowledgeDistribution takes a 404 for success; other errors end the handler.
AfterApply(c) ==
  IF canAck THEN Acknowledge(events[c.seq].dist, "vle", [c EXCEPT !.at = "commit"],
                             Settling(c.seq, GivesUp(c.seq)))
            ELSE [c EXCEPT !.at = "commit"]

\* applyAdjustment, if there is a client, then acknowledgeDistribution.
Apply ==
  /\ req[Loop].at = "apply"
  /\ vle' = IF canApply THEN vle \cup {events[req[Loop].seq].dist} ELSE vle
  /\ Reads(Loop, AfterApply(req[Loop]))
  /\ UNCHANGED <<srsVars, connectorVars, config, faults>>

\* A mutant for RowStatus: the status is left to the column's default.
RowStatusDefault == IF canAck THEN "acknowledged" ELSE "pending"

RowStatus == IF canAck THEN "acknowledged" ELSE "applied"

\* The transaction writes the map row and the 'processed' ledger row together.
Commit ==
  /\ req[Loop].at = "commit"
  /\ LET s == req[Loop].seq
         d == events[s].dist
     IN  /\ ledger' = ledger \cup {s}
         /\ row' = IF req[Loop].writes THEN [row EXCEPT ![d] = RowStatus] ELSE row
         /\ blind' = IF req[Loop].writes /\ ~canApply THEN blind \cup {d} ELSE blind
         /\ Reads(Loop, Settling(s, TRUE))
  /\ UNCHANGED <<srsVars, vle, config, faults>>

\* msg.ack() or msg.nak()
Settle ==
  /\ req[Loop].at = "settle"
  /\ events' = [events EXCEPT ![req[Loop].seq].acked = req[Loop].ack]
  /\ Reads(Loop, Done)
  /\ UNCHANGED <<adjustmentVars, vle, connectorVars, config, faults>>

-------------------------------------------------------------------------------
(* reconcileAdjustments, in no transaction of its own.                     *)

\* A mutant for Drifted: it looks for rows that no code writes.
DriftedPending == { d \in Distributions : row[d] = "pending" }

\* findAppliedAdjustments
Drifted == { d \in Distributions : row[d] = "applied" }

NextRow(rows) == IF rows = {} THEN Done ELSE [at |-> "rows", rows |-> rows]

PassRead ==
  /\ req[Pass] = Done
  /\ canAck
  /\ Drifted # {}
  /\ Reads(Pass, NextRow(Drifted))
  /\ UNCHANGED <<srsVars, vle, connectorVars, config, faults>>

\* acknowledgeDistribution for the next row; its failure leaves the row as it is.
PassAcknowledge(d) ==
  /\ req[Pass].at = "rows"
  /\ d \in req[Pass].rows
  /\ LET rest == NextRow(req[Pass].rows \ {d})
         mark == [at |-> "mark", dist |-> d, next |-> rest]
     IN  Reads(Pass, Acknowledge(d, "vle", mark, rest))
  /\ UNCHANGED <<srsVars, vle, connectorVars, config, faults>>

\* updateAdjustmentAcknowledged
PassMark ==
  /\ req[Pass].at = "mark"
  /\ row' = [row EXCEPT ![req[Pass].dist] = "acknowledged"]
  /\ Reads(Pass, req[Pass].next)
  /\ UNCHANGED <<srsVars, vle, ledger, blind, config, faults>>

-------------------------------------------------------------------------------
(* The SRS at work, and what fails.                                        *)

ServeAny(q) == Serve(q) /\ UNCHANGED <<vle, connectorVars, config, faults>>

Fault == faults < MaxFaults /\ faults' = faults + 1

\* What the loop or the pass goes on to when the call or the statement it awaits throws.
AfterFailure(c) ==
  CASE c.at \in {"acknowledge", "distribute", "announce"} -> c.failed
    [] c.at \in {"handle", "apply", "commit"} -> Settling(c.seq, GivesUp(c.seq))
    [] c.at = "mark" -> c.next

\* Nothing is left of a transaction that was open; what was committed or
\* published before stays.
Throws(q) ==
  /\ Fault
  /\ req[q].at \notin {"done", "settle", "rows"}
  /\ Reads(q, AfterFailure(req[q]))
  /\ UNCHANGED <<srsVars, vle, connectorVars, config>>

\* The VLE applies the adjustment and its answer is lost.
AppliedUnanswered ==
  /\ Fault
  /\ req[Loop].at = "apply"
  /\ canApply
  /\ vle' = vle \cup {events[req[Loop].seq].dist}
  /\ Reads(Loop, AfterFailure(req[Loop]))
  /\ UNCHANGED <<srsVars, connectorVars, config>>

BusDown(q) == Fault /\ Announce(q, FALSE) /\ UNCHANGED <<vle, connectorVars, config>>

\* msg.ack() is not confirmed: the server redelivers when it was lost.
AckLost ==
  /\ Fault
  /\ req[Loop].at = "settle"
  /\ Reads(Loop, Done)
  /\ UNCHANGED <<srsVars, vle, connectorVars, config>>

\* A restart may change the configuration that gives the connector its clients.
Crash ==
  /\ Fault
  /\ \A q \in Connector : req[q].at \notin {"distribute", "announce"}
  /\ req' = [q \in Requests |-> IF q \in Connector THEN Done ELSE req[q]]
  /\ overlapped' = [q \in Requests |-> IF q \in Connector THEN {} ELSE overlapped[q]]
  /\ canApply' \in BOOLEAN
  /\ canAck' \in BOOLEAN
  /\ UNCHANGED <<suspect, srsVars, vle, connectorVars>>

-------------------------------------------------------------------------------
\* An adjustment starts with a version or none, and some faults are spent already.
FlowInit(initial, spent) ==
  /\ versions = initial
  /\ current = initial
  /\ dist = [d \in Distributions |->
               IF initial[AdjustmentOf[d]] = 0 THEN Absent ELSE "pending"]
  /\ events = <<>>
  /\ vle = {}
  /\ row = [d \in Distributions |-> Absent]
  /\ ledger = {}
  /\ canApply \in BOOLEAN
  /\ canAck \in BOOLEAN
  /\ blind = {}
  /\ faults = spent

LoopStep ==
  \/ \E s \in DOMAIN events : Deliver(s)
  \/ Examine \/ Apply \/ Commit \/ Settle
  \/ ServeAny(Loop)

PassStep ==
  \/ PassRead \/ PassMark
  \/ \E d \in Distributions : PassAcknowledge(d)
  \/ ServeAny(Pass)

Failure ==
  \/ \E q \in Connector : Throws(q)
  \/ \E q \in Requests : BusDown(q)
  \/ AppliedUnanswered \/ AckLost \/ Crash

===============================================================================
