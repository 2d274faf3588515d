------------------------------ MODULE VleExchange ------------------------------
(***************************************************************************)
(* What the SRS and the VLE connector exchange beside the roster:          *)
(* adjustments one way (VleAdjustments) and marks the other (VleMarks),    *)
(* with the users whose requests are served meanwhile.                     *)
(***************************************************************************)
EXTENDS VleAdjustments, VleMarks

\* The states to start from, each with the users' calls and how many of the faults
\* are spent already.
CONSTANT Scenarios

vars == <<callVars, flowVars, markVars>>

UserCall ==
  [at : {"acknowledge"}, dist : Distributions, target : Systems, then : {Done}, failed : {Done}]
    \cup [at : {"recordAdjustment", "expireAdjustment", "attachOutcomeDocument"},
          adjustment : Adjustments]
    \cup [at : {"submitMark"}, reference : References]

ASSUME CallsAssumption == Calls \subseteq UserCall

ASSUME ScenariosAssumption ==
  \A sc \in Scenarios :
    /\ sc.calls \in [Users -> Calls \cup {Done}]
    /\ sc.versions \in [Adjustments -> {0, 1}]
    /\ sc.faults \in 0..MaxFaults

\* Absent is none of the statuses it stands for the absence of.
ASSUME AbsentAssumption == Absent \notin Statuses \cup {"applied", "acknowledged"}

Init ==
  \E sc \in Scenarios :
    /\ req = [q \in Requests |-> IF q \in Users THEN sc.calls[q] ELSE Done]
    /\ overlapped = [q \in Requests |-> {}]
    /\ suspect = {}
    /\ FlowInit(sc.versions, sc.faults)
    /\ MarksInit

\* A user's request takes its next step, or ends with an error.
UserStep(q) ==
  \/ ServeAny(q) /\ UNCHANGED markVars
  \/ SubmitStep(q) /\ UNCHANGED flowVars
  \/ Fail(q) /\ MarkFails(q) /\ UNCHANGED flowVars

\* The message loop and the pass of reconciliation submit no mark.
LoopRuns == LoopStep /\ UNCHANGED markVars
PassRuns == PassStep /\ UNCHANGED markVars

Next ==
  \/ LoopRuns
  \/ PassRuns
  \/ Failure /\ UNCHANGED markVars
  \/ \E q \in Users : UserStep(q)

Spec == Init /\ [][Next]_vars

(* The loop and the pass await each of their calls for as long as the      *)
(* connector runs, the server redelivers, and reconciliation is run again  *)
(* and again.  Nothing says that a user's request is made or ends.         *)
FairSpec == Spec /\ WF_vars(LoopRuns) /\ WF_vars(PassRuns)

-------------------------------------------------------------------------------
Event == [dist : Distributions, by : Requests, deliveries : 0..MaxAttempts, acked : BOOLEAN]

TypeOK ==
  /\ DOMAIN req = Requests
  /\ overlapped \in [Requests -> SUBSET (Adjustments \cup Distributions \cup References)]
  /\ suspect \subseteq Adjustments \cup Distributions \cup References
  /\ versions \in [Adjustments -> Nat]
  /\ \A a \in Adjustments : current[a] \in {0, versions[a]}
  /\ dist \in [Distributions -> Statuses \cup {Absent}]
  /\ events \in Seq(Event)
  /\ vle \subseteq Distributions /\ blind \subseteq Distributions
  /\ row \in [Distributions -> {"applied", "acknowledged", Absent}]
  /\ ledger \subseteq DOMAIN events
  /\ canApply \in BOOLEAN /\ canAck \in BOOLEAN
  /\ faults \in 0..MaxFaults
  /\ marks \in [References -> Nat]
  /\ \A r \in References : receipt[r] \in 0..marks[r]
  /\ unanswered \subseteq References

\* The records of the three systems agree, whatever fails half way: what the VLE
\* was given, the SRS calls distributed; a map row stands for an adjustment that
\* the VLE has, unless it was written without a VLE client; what is pending is
\* owed by a current adjustment, and what is superseded by an expired one, unless
\* a document was attached while it expired.
RecordsAgree ==
  /\ \A d \in vle : dist[d] = "distributed" /\ TargetOf[d] = "vle"
  /\ \A d \in Distributions : row[d] # Absent => d \in vle \cup blind
  /\ \A d \in Distributions : dist[d] = "pending" => current[AdjustmentOf[d]] # 0
  /\ \A d \in Distributions :
       dist[d] = "superseded" /\ AdjustmentOf[d] \notin suspect
         => current[AdjustmentOf[d]] = 0

\* The events of one distribution that a request of the connector has caused.
Caused(q, d) == Cardinality({ s \in DOMAIN events : events[s].dist = d /\ events[s].by = q })

\* The SRS answers each acknowledgement with a distributed event, which comes
\* back to the connector that made it.  The echo dies out: of one distribution,
\* the handler causes one event, and one more for each call or restart that fails;
\* the pass, which has nothing to do before a restart gave it a client, causes as
\* many as have failed.
EchoDiesOut ==
  \A d \in Distributions : Caused(Loop, d) <= faults + 1 /\ Caused(Pass, d) <= faults

\* An expired adjustment stays expired, a superseded distribution superseded, and
\* a distributed one distributed: unless a request that had read the adjustment
\* before it expired writes after that.  (A document attached that way brings the
\* adjustment back, and with it what was superseded.)
ExpiryIsFinal ==
  [][/\ \A a \in Adjustments \ suspect' :
          versions[a] > 0 /\ current[a] = 0 => current'[a] = 0
     /\ \A d \in Distributions :
          \/ dist[d] \in {Absent, "pending"}
          \/ dist'[d] = dist[d]
          \/ dist[d] = "superseded" /\ {d, AdjustmentOf[d]} \cap suspect' # {}]_vars

\* Acknowledged without having been processed, or delivered as often as the server will.
GivenUp(s) == s \notin ledger /\ (events[s].acked \/ events[s].deliveries = MaxAttempts)

Answered(s) ==
  LET d == events[s].dist
  IN  row[d] = "acknowledged" \/ (row[d] = "applied" /\ ~canAck) \/ GivenUp(s)

\* A distribution to the VLE that is announced is acknowledged by the connector
\* sooner or later, by the handler or, when the connector was without an SRS client
\* at the time, by reconciliation: unless it gives the event up, or goes on without a
\* client.  (A user's acknowledgement causes one event, and the connector's are bounded
\* by EchoDiesOut.)
AnnouncedIsAcknowledged ==
  \A s \in 1..(Cardinality(Users) + 2 * MaxFaults + 1) :
    (s \in DOMAIN events /\ TargetOf[events[s].dist] = "vle")
      ~> (s \in DOMAIN events /\ Answered(s))

\* The SRS gets a mark once, however often the connector submits it, and the receipt
\* names it: unless two submissions overlap, or one gets no answer for a mark that was
\* stored (MarkSubmissionService, and ingestMark, which does not look for the
\* reference).
MarksAreSubmittedOnce ==
  \A r \in References \ (suspect \cup unanswered) :
    Outstanding(r) \/ (marks[r] = receipt[r] /\ marks[r] <= 1)

===============================================================================
