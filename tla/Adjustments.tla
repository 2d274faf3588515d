------------------------------ MODULE Adjustments ------------------------------
(***************************************************************************)
(* Reasonable adjustments in the SRS (adjustments/adjustment-service.ts):  *)
(* an adjustment, the distributions it owes to other systems, and the      *)
(* distributed events that announce an acknowledged distribution.          *)
(*                                                                         *)
(* An adjustment is kept as versions, of which the database admits one     *)
(* current one.  Expiry closes the current version and opens none; a       *)
(* document is attached by closing the version that was read, by its own   *)
(* identifier, and inserting another.  Valid times, the content of an      *)
(* adjustment and the events that no connector here consumes are left out. *)
(***************************************************************************)
EXTENDS ServiceCalls, Integers, Sequences

CONSTANTS
  Adjustments, Distributions,
  AdjustmentOf, TargetOf,   \* of a distribution, from the scope of its adjustment
  Systems                   \* the target systems

ASSUME DistributionAssumption ==
  /\ AdjustmentOf \in [Distributions -> Adjustments]
  /\ TargetOf \in [Distributions -> Systems]
  /\ Absent \notin Systems

VARIABLES
  current,    \* the number of the current version of each adjustment, or 0
  versions,   \* how many versions each adjustment has had
  dist,       \* the status of each distribution, or Absent
  events      \* SRS_EVENTS: the distributed events, with what the server holds of each

adjustmentVars == <<current, versions, dist>>

Statuses == {"pending", "distributed", "superseded"}

DistributionsOf(a) == { d \in Distributions : AdjustmentOf[d] = a }

Become(ds, status) == [d \in Distributions |-> IF d \in ds THEN status ELSE dist[d]]

-------------------------------------------------------------------------------
\* recordAdjustment: the adjustment and its pending distributions.
RecordAdjustment(q) ==
  /\ req[q].at = "recordAdjustment"
  /\ LET a == req[q].adjustment IN
       /\ versions[a] = 0
       /\ versions' = [versions EXCEPT ![a] = 1]
       /\ current' = [current EXCEPT ![a] = 1]
       /\ dist' = Become(DistributionsOf(a), "pending")
       /\ Writes(q, {a} \cup DistributionsOf(a), Done)
  /\ UNCHANGED events

-------------------------------------------------------------------------------
(* acknowledgeDistribution.  A call holds what its caller goes on to: after *)
(* it is served, is refused (404) or fails.                                *)

Acknowledge(d, target, then, failed) ==
  [at |-> "acknowledge", dist |-> d, target |-> target, then |-> then, failed |-> failed]

\* A mutant for Known: any version of the adjustment will do.
KnownEver(a) == versions[a] > 0

\* #getCurrentAdjustment
Known(a) == current[a] # 0

\* The adjustment and the distribution are read; either may not be found.
AcknowledgeRead(q) ==
  /\ req[q].at = "acknowledge"
  /\ LET c == req[q] IN
       Reads(q, IF Known(AdjustmentOf[c.dist]) /\ TargetOf[c.dist] = c.target
                THEN [c EXCEPT !.at = "distribute"]
                ELSE c.then)
  /\ UNCHANGED <<adjustmentVars, events>>

\* The update does not look at the status it replaces.
Distribute(q) ==
  /\ req[q].at = "distribute"
  /\ dist' = Become({req[q].dist}, "distributed")
  /\ Writes(q, {req[q].dist}, [req[q] EXCEPT !.at = "announce"])
  /\ UNCHANGED <<current, versions, events>>

\* The event is published, unless the bus is not connected.
Announce(q, connected) ==
  /\ req[q].at = "announce"
  /\ events' = IF connected
               THEN Append(events, [dist |-> req[q].dist, by |-> q, deliveries |-> 0,
                                    acked |-> FALSE])
               ELSE events
  /\ Reads(q, req[q].then)
  /\ UNCHANGED adjustmentVars

-------------------------------------------------------------------------------
\* expireAdjustment reads the current version, which must exist ...
ExpireRead(q) ==
  /\ req[q].at = "expireAdjustment"
  /\ LET a == req[q].adjustment IN
       Reads(q, IF Known(a) THEN [at |-> "close", adjustment |-> a] ELSE Done)
  /\ UNCHANGED <<adjustmentVars, events>>

\* ... begins the update of whichever version is current by then ...
ExpireBegin(q) ==
  /\ req[q].at = "close"
  /\ Reads(q, [at |-> "closed", adjustment |-> req[q].adjustment,
               version |-> current[req[q].adjustment]])
  /\ UNCHANGED <<adjustmentVars, events>>

\* A mutant for Owed: whatever its status, a distribution is superseded.
OwedEver(a) == DistributionsOf(a)

Owed(a) == { d \in DistributionsOf(a) : dist[d] = "pending" }

\* ... closes that version unless it has been replaced meanwhile (the update finds
\* a closed row and does not see the new one), and supersedes what is pending.
Expire(q) ==
  /\ req[q].at = "closed"
  /\ LET a == req[q].adjustment IN
       /\ current' = [current EXCEPT ![a] = IF @ = req[q].version THEN 0 ELSE @]
       /\ dist' = Become(Owed(a), "superseded")
       /\ Writes(q, {a} \cup DistributionsOf(a), Done)
  /\ UNCHANGED <<versions, events>>

-------------------------------------------------------------------------------
\* attachOutcomeDocument reads the current version, in the transaction that ...
AttachRead(q) ==
  /\ req[q].at = "attachOutcomeDocument"
  /\ LET a == req[q].adjustment IN
       Reads(q, IF Known(a)
                THEN [at |-> "attach", adjustment |-> a, version |-> current[a]]
                ELSE Done)
  /\ UNCHANGED <<adjustmentVars, events>>

\* ... closes it by its own identifier, closed already or not, and inserts another.
\* The index of current versions refuses a second one.
Attach(q) ==
  /\ req[q].at = "attach"
  /\ LET a == req[q].adjustment IN
       /\ current[a] \in {0, req[q].version}
       /\ versions' = [versions EXCEPT ![a] = @ + 1]
       /\ current' = [current EXCEPT ![a] = versions[a] + 1]
       /\ Writes(q, {a}, Done)
  /\ UNCHANGED <<dist, events>>

AttachRefused(q) ==
  /\ req[q].at = "attach"
  /\ current[req[q].adjustment] \notin {0, req[q].version}
  /\ Reads(q, Done)
  /\ UNCHANGED <<adjustmentVars, events>>

-------------------------------------------------------------------------------
\* The next transaction of a request that the SRS is serving.
Serve(q) ==
  \/ RecordAdjustment(q)
  \/ AcknowledgeRead(q) \/ Distribute(q) \/ Announce(q, TRUE)
  \/ ExpireRead(q) \/ ExpireBegin(q) \/ Expire(q)
  \/ AttachRead(q) \/ Attach(q) \/ AttachRefused(q)

===============================================================================
