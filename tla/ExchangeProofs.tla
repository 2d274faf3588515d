---------------------------- MODULE ExchangeProofs ----------------------------
(***************************************************************************)
(* Theorems about VleExchange, for any number of adjustments, references,  *)
(* users, attempts and faults.                                             *)
(*                                                                         *)
(* The invariant has four parts: the types, with the control states of the *)
(* loop, the pass and the users; what the SRS holds and what its requests  *)
(* have read of it; what the connector holds; and how often the echo can   *)
(* still come.  Marks have a part of their own.                            *)
(***************************************************************************)
EXTENDS VleExchange, FiniteSetTheorems, TLAPS

-------------------------------------------------------------------------------
(* The control states.                                                     *)

\* acknowledgeDistribution is being served.
Serving == {"acknowledge", "distribute", "announce"}

\* S: the sequence numbers of the events.
Settles(S) == [at : {"settle"}, seq : S, ack : BOOLEAN]

Handles(S) == [at : {"apply", "commit"}, seq : S, writes : BOOLEAN]

LoopState(S) ==
  {Done} \cup [at : {"handle"}, seq : S] \cup Handles(S) \cup Settles(S)
    \cup [at : Serving, dist : Distributions, target : {"vle"}, then : Handles(S),
          failed : Settles(S)]

Remaining == {Done} \cup [at : {"rows"}, rows : SUBSET Distributions]

Marking == [at : {"mark"}, dist : Distributions, next : Remaining]

PassState ==
  Remaining \cup Marking
    \cup [at : Serving, dist : Distributions, target : {"vle"}, then : Marking,
          failed : Remaining]

UserState ==
  {Done}
    \cup [at : Serving, dist : Distributions, target : Systems, then : {Done}, failed : {Done}]
    \cup [at : {"recordAdjustment", "expireAdjustment", "attachOutcomeDocument", "close"},
          adjustment : Adjustments]
    \cup [at : {"closed", "attach"}, adjustment : Adjustments, version : Nat]
    \cup [at : {"submitMark", "ingestMark"}, reference : References]
    \cup [at : {"storeReceipt"}, reference : References, mark : Nat]

StateOf(q, S) ==
  IF q = Loop THEN LoopState(S) ELSE IF q = Pass THEN PassState ELSE UserState

CallTypes ==
  /\ DOMAIN req = Requests
  /\ overlapped \in [Requests -> SUBSET (Adjustments \cup Distributions \cup References)]
  /\ suspect \subseteq Adjustments \cup Distributions \cup References
  /\ \A q \in Requests : req[q] \in StateOf(q, DOMAIN events)

SrsTypes ==
  /\ versions \in [Adjustments -> Nat]
  /\ current \in [Adjustments -> Nat]
  /\ \A a \in Adjustments : current[a] \in {0, versions[a]}
  /\ dist \in [Distributions -> Statuses \cup {Absent}]
  /\ events \in Seq(Event)

ConnectorTypes ==
  /\ vle \subseteq Distributions /\ blind \subseteq Distributions
  /\ row \in [Distributions -> {"applied", "acknowledged", Absent}]
  /\ ledger \subseteq DOMAIN events
  /\ canApply \in BOOLEAN /\ canAck \in BOOLEAN
  /\ faults \in 0..MaxFaults

MarkTypes ==
  /\ marks \in [References -> Nat]
  /\ receipt \in [References -> Nat]
  /\ \A r \in References : receipt[r] \in 0..marks[r]
  /\ unanswered \subseteq References
  /\ \A q \in Requests : req[q].at = "storeReceipt" => req[q].mark <= marks[req[q].reference]

TypeInv == CallTypes /\ SrsTypes /\ ConnectorTypes /\ MarkTypes

-------------------------------------------------------------------------------
(* The SRS.                                                                *)

\* What a request has read of an adjustment or a distribution is still so, unless it
\* is overlapped.
Reading(q) ==
  LET c == req[q] IN
  /\ c.at = "closed" => current[c.adjustment] = c.version \/ c.adjustment \in overlapped[q]
  /\ c.at = "attach" =>
       /\ c.version # 0
       /\ current[c.adjustment] = c.version \/ c.adjustment \in overlapped[q]
  /\ c.at = "distribute" =>
       /\ versions[AdjustmentOf[c.dist]] > 0
       /\ \/ dist[c.dist] # "superseded"
          \/ AdjustmentOf[c.dist] \in suspect
          \/ c.dist \in overlapped[q]
  /\ c.at = "announce" => dist[c.dist] = "distributed"

SrsInv ==
  /\ \A d \in Distributions :
       /\ dist[d] # Absent => versions[AdjustmentOf[d]] > 0
       /\ dist[d] = "pending" => current[AdjustmentOf[d]] # 0
       /\ dist[d] = "superseded" /\ AdjustmentOf[d] \notin suspect
            => current[AdjustmentOf[d]] = 0
  /\ \A s \in DOMAIN events : dist[events[s].dist] = "distributed"
  /\ \A q \in Requests : Reading(q)

-------------------------------------------------------------------------------
(* The connector.                                                          *)

\* The distribution that the loop is about to write a row of.
InHand(d) ==
  LET c == req[Loop] IN
  \/ c.at \in {"apply", "commit"} /\ c.writes /\ events[c.seq].dist = d
  \/ c.at \in Serving /\ c.dist = d

\* The loop writes a row after it has told the VLE, and acknowledges with a client.
LoopFits ==
  LET c == req[Loop] IN
  /\ c.at = "apply" => c.writes
  /\ c.at \in Serving =>
       /\ canAck /\ c.then.at = "commit" /\ c.then.writes
       /\ events[c.then.seq].dist = c.dist
  /\ \A d \in Distributions : InHand(d) =>
       /\ TargetOf[d] = "vle" /\ dist[d] = "distributed"
       /\ c.at # "apply" /\ canApply => d \in vle
       /\ canAck \/ row[d] # "acknowledged"

RowsOf(c) == IF c = Done THEN {} ELSE c.rows

\* The distributions that the pass is yet to announce.
Ahead(c) ==
  IF c.at = "mark" THEN RowsOf(c.next)
  ELSE IF c.at \in Serving THEN {c.dist} \cup RowsOf(c.failed)
  ELSE RowsOf(c)

\* The pass works on rows that were there, each of them once, and began with a client
\* that a restart had given it.
PassFits ==
  LET c == req[Pass] IN
  /\ c # Done => canAck /\ faults > 0
  /\ c.at = "mark" => row[c.dist] # Absent /\ c.dist \notin RowsOf(c.next)
  /\ c.at \in Serving => /\ c.then.dist = c.dist /\ c.then.next = c.failed
                         /\ c.dist \notin RowsOf(c.failed)
  /\ \A d \in Ahead(c) : row[d] # Absent

ConnectorInv ==
  /\ \A d \in vle : dist[d] = "distributed" /\ TargetOf[d] = "vle"
  /\ \A d \in Distributions : row[d] # Absent => d \in vle \cup blind
  /\ \A d \in Distributions : canAck /\ row[d] = "applied" => faults > 0
  /\ LoopFits
  /\ PassFits

-------------------------------------------------------------------------------
(* The echo.                                                               *)

\* The loop has announced the distribution and will not do so again, if nothing fails.
LoopSpent(d) ==
  LET c == req[Loop] IN
  \/ row[d] = "acknowledged" /\ ~(c.at \in {"apply"} \cup Serving /\ InHand(d))
  \/ c.at = "commit" /\ InHand(d) /\ canAck

PassSpent(d) ==
  /\ d \notin Ahead(req[Pass])
  /\ row[d] = "acknowledged" \/ (req[Pass].at = "mark" /\ req[Pass].dist = d)

EchoInv ==
  \A d \in Distributions :
    /\ Caused(Loop, d) <= faults + 1
    /\ LoopSpent(d) \/ Caused(Loop, d) <= faults
    /\ Caused(Pass, d) <= faults
    /\ PassSpent(d) \/ Caused(Pass, d) = 0 \/ Caused(Pass, d) + 1 <= faults

-------------------------------------------------------------------------------
(* Marks.                                                                  *)

\* A submission other than q's is outstanding.
OutstandingBut(q, r) ==
  \E p \in Requests \ {q} : req[p].at = "storeReceipt" /\ req[p].reference = r

\* A submission that nothing has overlapped knows how many marks there are.
MarkFits(r) ==
  /\ Outstanding(r) \/ (marks[r] = receipt[r] /\ marks[r] <= 1)
  /\ \A q \in Requests :
       /\ req[q].at = "ingestMark" /\ req[q].reference = r /\ r \notin overlapped[q]
            => receipt[r] = 0 /\ (marks[r] = 0 \/ OutstandingBut(q, r))
       /\ req[q].at = "storeReceipt" /\ req[q].reference = r /\ r \notin overlapped[q]
            => req[q].mark = marks[r] /\ (marks[r] = 1 \/ OutstandingBut(q, r))

MarkInv == \A r \in References \ (suspect \cup unanswered) : MarkFits(r)

-------------------------------------------------------------------------------
(* What is known of a request in each of its control states.               *)

LEMMA LoopShape ==
  ASSUME NEW S, NEW c \in LoopState(S)
  PROVE  /\ c.at \in {"done", "handle", "apply", "commit", "settle"} \cup Serving
         /\ c.at = "done" => c = Done
         /\ c.at = "handle" => c \in [at : {"handle"}, seq : S]
         /\ c.at \in {"apply", "commit"} => c \in Handles(S)
         /\ c.at = "settle" => c \in Settles(S)
         /\ c.at \in Serving =>
              c \in [at : Serving, dist : Distributions, target : {"vle"}, then : Handles(S),
                     failed : Settles(S)]
BY DEF LoopState, Done, Handles, Settles, Serving

LEMMA PassShape ==
  ASSUME NEW c \in PassState
  PROVE  /\ c.at \in {"done", "rows", "mark"} \cup Serving
         /\ c.at = "done" => c = Done
         /\ c.at = "rows" => c \in [at : {"rows"}, rows : SUBSET Distributions]
         /\ c.at = "mark" => c \in Marking
         /\ c.at \in Serving =>
              c \in [at : Serving, dist : Distributions, target : {"vle"}, then : Marking,
                     failed : Remaining]
BY DEF PassState, Remaining, Marking, Done, Serving

LEMMA UserShape ==
  ASSUME NEW c \in UserState
  PROVE  /\ c.at \notin {"handle", "apply", "commit", "settle", "rows", "mark"}
         /\ c.at = "done" => c = Done
         /\ c.at \in Serving =>
              c \in [at : Serving, dist : Distributions, target : Systems, then : {Done},
                     failed : {Done}]
         /\ c.at \in {"recordAdjustment", "expireAdjustment", "attachOutcomeDocument", "close"} =>
              c \in [at : {"recordAdjustment", "expireAdjustment", "attachOutcomeDocument", "close"},
                     adjustment : Adjustments]
         /\ c.at \in {"closed", "attach"} =>
              c \in [at : {"closed", "attach"}, adjustment : Adjustments, version : Nat]
         /\ c.at \in {"submitMark", "ingestMark"} =>
              c \in [at : {"submitMark", "ingestMark"}, reference : References]
         /\ c.at = "storeReceipt" =>
              c \in [at : {"storeReceipt"}, reference : References, mark : Nat]
BY DEF UserState, Done, Serving

\* A request that the SRS is serving may be anyone's.
LEMMA ServingShape ==
  ASSUME NEW q \in Requests, NEW S, NEW c \in StateOf(q, S), c.at \in Serving
  PROVE  /\ c.dist \in Distributions
         /\ c.then \in StateOf(q, S) /\ c.failed \in StateOf(q, S)
         /\ c.then.at # "storeReceipt" /\ c.failed.at # "storeReceipt"
         /\ \A at \in Serving : /\ [c EXCEPT !.at = at] \in StateOf(q, S)
                                /\ [c EXCEPT !.at = at] # Done
<1>1. CASE q = Loop
  <2>1. c \in [at : Serving, dist : Distributions, target : {"vle"}, then : Handles(S),
               failed : Settles(S)]
    BY <1>1, LoopShape DEF StateOf
  <2>2. c.then \in Handles(S) /\ c.failed \in Settles(S)
    BY <2>1
  <2>3. \A at \in Serving :
          [c EXCEPT !.at = at] \in [at : Serving, dist : Distributions, target : {"vle"},
                                    then : Handles(S), failed : Settles(S)]
    BY <2>1
  <2>4. \A at \in Serving : [c EXCEPT !.at = at].at = at
    BY <2>1
  <2> QED  BY <1>1, <2>1, <2>2, <2>3, <2>4 DEF StateOf, LoopState, Handles, Settles, Serving, Done
<1>2. CASE q # Loop /\ q = Pass
  <2>1. c \in [at : Serving, dist : Distributions, target : {"vle"}, then : Marking,
               failed : Remaining]
    BY <1>2, PassShape DEF StateOf
  <2>2. c.then \in Marking /\ c.failed \in Remaining
    BY <2>1
  <2>3. \A at \in Serving :
          [c EXCEPT !.at = at] \in [at : Serving, dist : Distributions, target : {"vle"},
                                    then : Marking, failed : Remaining]
    BY <2>1
  <2>4. \A at \in Serving : [c EXCEPT !.at = at].at = at
    BY <2>1
  <2> QED  BY <1>2, <2>1, <2>2, <2>3, <2>4 DEF StateOf, PassState, Marking, Remaining, Serving, Done
<1>3. CASE q # Loop /\ q # Pass
  <2>1. c \in [at : Serving, dist : Distributions, target : Systems, then : {Done}, failed : {Done}]
    BY <1>3, UserShape DEF StateOf
  <2>3. \A at \in Serving :
          [c EXCEPT !.at = at] \in [at : Serving, dist : Distributions, target : Systems,
                                    then : {Done}, failed : {Done}]
    BY <2>1
  <2>4. \A at \in Serving : [c EXCEPT !.at = at].at = at
    BY <2>1
  <2> QED  BY <1>3, <2>1, <2>3, <2>4 DEF StateOf, UserState, Serving, Done
<1> QED  BY <1>1, <1>2, <1>3

LEMMA StatesGrow ==
  ASSUME NEW S, NEW T, S \subseteq T, NEW q, NEW c \in StateOf(q, S)
  PROVE  c \in StateOf(q, T)
<1>1. ASSUME NEW h \in Handles(S) PROVE h \in Handles(T)
  BY <1>1 DEF Handles
<1>2. ASSUME NEW h \in Settles(S) PROVE h \in Settles(T)
  BY <1>2 DEF Settles
<1>3. CASE q = Loop
  <2>1. c \in LoopState(S)
    BY <1>3 DEF StateOf
  <2>2. CASE c.at \in Serving
    <3>1. c \in [at : Serving, dist : Distributions, target : {"vle"}, then : Handles(S),
                 failed : Settles(S)]
      BY <2>1, <2>2, LoopShape
    <3>2. c.then \in Handles(T) /\ c.failed \in Settles(T)
      BY <3>1, <1>1, <1>2
    <3>3. c \in [at : Serving, dist : Distributions, target : {"vle"}, then : Handles(T),
                 failed : Settles(T)]
      BY <3>1, <3>2
    <3> QED  BY <3>3, <1>3 DEF LoopState, StateOf
  <2>3. CASE c.at \notin Serving
    BY <2>1, <2>3, <1>3, LoopShape, <1>1, <1>2 DEF LoopState, StateOf
  <2> QED  BY <2>2, <2>3
<1>4. CASE q # Loop
  BY <1>4 DEF StateOf
<1> QED  BY <1>3, <1>4

LEMMA ReadingInFlight ==
  ASSUME NEW q, req[q].at \in {"distribute", "announce", "close", "closed", "attach",
                               "ingestMark", "storeReceipt"}
  PROVE  InFlight(q)
BY CallsAssumption DEF InFlight, UserCall, Done

-------------------------------------------------------------------------------
(* What a step does to the requests and to the history of overlaps.        *)

LEMMA ReadsHistory ==
  ASSUME CallTypes, NEW q \in Requests, NEW n, Reads(q, n)
  PROVE  /\ DOMAIN req' = Requests /\ req'[q] = n
         /\ suspect' = suspect
         /\ overlapped' \in [Requests -> SUBSET (Adjustments \cup Distributions \cup References)]
         /\ n # Done => overlapped'[q] = overlapped[q]
         /\ \A p \in Requests \ {q} : req'[p] = req[p] /\ overlapped'[p] = overlapped[p]
BY DEF CallTypes, Reads

LEMMA WritesHistory ==
  ASSUME CallTypes, NEW q \in Requests, NEW n,
         NEW E \in SUBSET (Adjustments \cup Distributions \cup References), Writes(q, E, n)
  PROVE  /\ DOMAIN req' = Requests /\ req'[q] = n
         /\ suspect' = suspect \cup (E \cap overlapped[q])
         /\ suspect' \subseteq Adjustments \cup Distributions \cup References
         /\ overlapped' \in [Requests -> SUBSET (Adjustments \cup Distributions \cup References)]
         /\ n # Done => overlapped'[q] = overlapped[q]
         /\ \A p \in Requests \ {q} :
              req'[p] = req[p] /\ (InFlight(p) => overlapped'[p] = overlapped[p] \cup E)
<1>1. overlapped' = [r \in Requests |->
                      IF r = q THEN IF n = Done THEN {} ELSE overlapped[r]
                      ELSE IF InFlight(r) THEN overlapped[r] \cup E ELSE {}]
  BY DEF Writes
<1>2. req' = [req EXCEPT ![q] = n] /\ suspect' = suspect \cup (E \cap overlapped[q])
  BY DEF Writes
<1>3. \A r \in Requests : overlapped[r] \in SUBSET (Adjustments \cup Distributions \cup References)
  BY DEF CallTypes
<1>4. overlapped' \in [Requests -> SUBSET (Adjustments \cup Distributions \cup References)]
  BY <1>1, <1>3
<1>5. n # Done => overlapped'[q] = overlapped[q]
  BY <1>1
<1>6. \A p \in Requests \ {q} : InFlight(p) => overlapped'[p] = overlapped[p] \cup E
  BY <1>1
<1> QED  BY <1>2, <1>4, <1>5, <1>6 DEF CallTypes

LEMMA CallsTyped ==
  ASSUME TypeInv, NEW q \in Requests, NEW n,
         Reads(q, n) \/ \E E \in SUBSET (Adjustments \cup Distributions \cup References) : Writes(q, E, n),
         DOMAIN events \subseteq DOMAIN events', n \in StateOf(q, DOMAIN events')
  PROVE  CallTypes'
<1> USE DEF TypeInv
<1>1. /\ DOMAIN req' = Requests /\ req'[q] = n
      /\ overlapped' \in [Requests -> SUBSET (Adjustments \cup Distributions \cup References)]
      /\ suspect' \subseteq Adjustments \cup Distributions \cup References
      /\ \A p \in Requests \ {q} : req'[p] = req[p]
  <2>1. CASE Reads(q, n)
    BY <2>1, ReadsHistory DEF CallTypes
  <2>2. ASSUME NEW E \in SUBSET (Adjustments \cup Distributions \cup References), Writes(q, E, n)
        PROVE  <1>1!:
    BY <2>2, WritesHistory
  <2> QED  BY <2>1, <2>2
<1>2. ASSUME NEW p \in Requests \ {q} PROVE req[p] \in StateOf(p, DOMAIN events')
  BY StatesGrow DEF CallTypes
<1>3. \A p \in Requests : req'[p] \in StateOf(p, DOMAIN events')
  BY <1>1, <1>2
<1> QED  BY <1>1, <1>3 DEF CallTypes, StateOf, LoopState, PassState, UserState, Handles, Settles

\* Steps that are not about marks.
LEMMA MarksStay ==
  ASSUME TypeInv, NEW q \in Requests, NEW n,
         Reads(q, n) \/ \E E \in SUBSET (Adjustments \cup Distributions \cup References) : Writes(q, E, n),
         n.at # "storeReceipt", UNCHANGED <<marks, receipt>>, unanswered' \subseteq References
  PROVE  MarkTypes'
<1>1. req'[q] = n /\ \A p \in Requests \ {q} : req'[p] = req[p]
  BY ReadsHistory, WritesHistory DEF TypeInv
<1> QED  BY <1>1 DEF TypeInv, MarkTypes

-------------------------------------------------------------------------------
(* Types.                                                                  *)

LEMMA UsersOnly ==
  ASSUME CallTypes, NEW q \in Requests,
         req[q].at \in {"recordAdjustment", "expireAdjustment", "attachOutcomeDocument", "close",
                        "closed", "attach", "submitMark", "ingestMark", "storeReceipt"}
  PROVE  q # Loop /\ q # Pass /\ req[q] \in UserState
BY LoopShape, PassShape DEF CallTypes, StateOf, Serving

LEMMA ConnectorStates ==
  ASSUME CallTypes
  PROVE  /\ req[Loop] \in LoopState(DOMAIN events)
         /\ req[Pass] \in PassState
BY ConnectorAssumption DEF CallTypes, StateOf

LEMMA EventTypes ==
  ASSUME SrsTypes
  PROVE  /\ DOMAIN events = 1..Len(events) /\ Len(events) \in Nat
         /\ \A s \in DOMAIN events : events[s] \in Event /\ events[s].dist \in Distributions
<1>1. events \in Seq(Event)
  BY DEF SrsTypes
<1>2. DOMAIN events = 1..Len(events) /\ Len(events) \in Nat /\ \A s \in DOMAIN events : events[s] \in Event
  BY <1>1
<1>3. \A e \in Event : e.dist \in Distributions
  BY DEF Event
<1> QED  BY <1>2, <1>3

LEMMA BecomeType ==
  ASSUME SrsTypes, NEW ds, NEW status \in Statuses
  PROVE  Become(ds, status) \in [Distributions -> Statuses \cup {Absent}]
BY DEF SrsTypes, Become

LEMMA InitTypes == Init => TypeInv
<1> SUFFICES ASSUME Init PROVE TypeInv
  OBVIOUS
<1> PICK sc \in Scenarios :
      /\ req = [q \in Requests |-> IF q \in Users THEN sc.calls[q] ELSE Done]
      /\ overlapped = [q \in Requests |-> {}]
      /\ suspect = {}
      /\ FlowInit(sc.versions, sc.faults)
      /\ MarksInit
  BY DEF Init
<1>1. /\ sc.calls \in [Users -> Calls \cup {Done}]
      /\ sc.versions \in [Adjustments -> {0, 1}] /\ sc.faults \in 0..MaxFaults
  BY ScenariosAssumption
<1>2. \A q \in Users : sc.calls[q] \in UserCall \cup {Done}
  BY <1>1, CallsAssumption
<1>3. \A q \in Users : sc.calls[q] \in UserState /\ sc.calls[q].at # "storeReceipt"
  <2>1. ASSUME NEW c \in UserCall PROVE c \in UserState /\ c.at # "storeReceipt"
    <3>1. CASE c \in [at : {"acknowledge"}, dist : Distributions, target : Systems, then : {Done},
                      failed : {Done}]
      BY <3>1 DEF UserState, Serving
    <3>2. CASE c \in [at : {"recordAdjustment", "expireAdjustment", "attachOutcomeDocument"},
                      adjustment : Adjustments]
      BY <3>2 DEF UserState
    <3>3. CASE c \in [at : {"submitMark"}, reference : References]
      BY <3>3 DEF UserState
    <3> QED  BY <3>1, <3>2, <3>3 DEF UserCall
  <2>2. Done \in UserState /\ Done.at # "storeReceipt"
    BY DEF UserState, Done
  <2> QED  BY <2>1, <2>2, <1>2
<1>4. \A q \in Requests : req[q] \in StateOf(q, DOMAIN events) /\ req[q].at # "storeReceipt"
  BY <1>3, ConnectorAssumption
     DEF StateOf, LoopState, PassState, Remaining, Users, Connector, Done
<1>5. CallTypes
  BY <1>4 DEF CallTypes
<1>6. SrsTypes
  <2>1. \A d \in Distributions : sc.versions[AdjustmentOf[d]] \in {0, 1}
    BY <1>1, DistributionAssumption
  <2>2. dist \in [Distributions -> Statuses \cup {Absent}]
    BY <2>1 DEF FlowInit, Statuses
  <2> QED  BY <1>1, <2>2 DEF FlowInit, SrsTypes
<1>7. ConnectorTypes
  BY <1>1 DEF FlowInit, ConnectorTypes
<1>8. MarkTypes
  BY <1>4 DEF MarksInit, MarkTypes
<1> QED  BY <1>5, <1>6, <1>7, <1>8 DEF TypeInv

\* A served transaction of the SRS, or a publication that fails.
LEMMA SrsKeepsTypes ==
  ASSUME TypeInv, NEW q \in Requests, Serve(q) \/ Announce(q, FALSE),
         UNCHANGED <<vle, connectorVars, config, markVars>>, faults' \in 0..MaxFaults
  PROVE  TypeInv'
<1> DEFINE c == req[q]
<1> USE DEF TypeInv
<1>c. c \in StateOf(q, DOMAIN events)
  BY DEF CallTypes
<1>u. ASSUME NEW n \in UserState, q # Loop, q # Pass PROVE \A S : n \in StateOf(q, S)
  BY <1>u DEF StateOf
<1>d. Done \in UserState
  BY DEF UserState
<1>1. ASSUME ledger' \subseteq DOMAIN events' PROVE ConnectorTypes'
  BY <1>1 DEF ConnectorTypes, connectorVars, config
<1>2. ASSUME UNCHANGED events, UNCHANGED adjustmentVars PROVE SrsTypes' /\ ConnectorTypes'
  BY <1>2, <1>1 DEF SrsTypes, adjustmentVars, ConnectorTypes, connectorVars
<1>3. ASSUME RecordAdjustment(q) PROVE TypeInv'
  <2> DEFINE a == c.adjustment
  <2>1. q # Loop /\ q # Pass /\ a \in Adjustments
    BY <1>3, UsersOnly, UserShape DEF RecordAdjustment
  <2>2. {a} \cup DistributionsOf(a) \in SUBSET (Adjustments \cup Distributions \cup References)
    BY <2>1 DEF DistributionsOf
  <2>3. CallTypes'
    BY <1>3, <2>1, <2>2, <1>u, <1>d, CallsTyped DEF RecordAdjustment
  <2>4. dist' \in [Distributions -> Statuses \cup {Absent}]
    BY <1>3, BecomeType DEF RecordAdjustment, Statuses
  <2>5. SrsTypes'
    BY <1>3, <2>1, <2>4 DEF RecordAdjustment, SrsTypes
  <2>6. ConnectorTypes'
    BY <1>3, <1>1 DEF RecordAdjustment, ConnectorTypes, connectorVars
  <2>7. MarkTypes'
    BY <1>3, <2>2, MarksStay DEF RecordAdjustment, MarkTypes, markVars, Done
  <2> QED  BY <2>3, <2>5, <2>6, <2>7
<1>4. ASSUME AcknowledgeRead(q) PROVE TypeInv'
  <2> DEFINE n == IF Known(AdjustmentOf[c.dist]) /\ TargetOf[c.dist] = c.target
                  THEN [c EXCEPT !.at = "distribute"] ELSE c.then
  <2>1. Reads(q, n) /\ c.at \in Serving
    BY <1>4 DEF AcknowledgeRead, Serving
  <2>2. n \in StateOf(q, DOMAIN events) /\ n.at # "storeReceipt"
    <3>1. [c EXCEPT !.at = "distribute"].at = "distribute"
      BY <1>c, <2>1 DEF StateOf, LoopState, PassState, UserState, Remaining, Marking, Done, Serving, Settles, Handles
    <3> QED  BY <3>1, <1>c, <2>1, ServingShape DEF Serving
  <2> HIDE DEF n
  <2>3. CallTypes'
    BY <1>4, <2>1, <2>2, CallsTyped DEF AcknowledgeRead
  <2>4. MarkTypes'
    BY <2>1, <2>2, MarksStay DEF MarkTypes, markVars
  <2> QED  BY <1>4, <1>2, <2>3, <2>4 DEF AcknowledgeRead
<1>5. ASSUME Distribute(q) PROVE TypeInv'
  <2> DEFINE n == [c EXCEPT !.at = "announce"]
  <2>1. Writes(q, {c.dist}, n) /\ c.at \in Serving
    BY <1>5 DEF Distribute, Serving
  <2>2. n \in StateOf(q, DOMAIN events) /\ n.at = "announce" /\ c.dist \in Distributions
    <3>1. [c EXCEPT !.at = "announce"].at = "announce"
      BY <1>c, <2>1 DEF StateOf, LoopState, PassState, UserState, Remaining, Marking, Done, Serving, Settles, Handles
    <3> QED  BY <3>1, <1>c, <2>1, ServingShape DEF Serving
  <2> HIDE DEF n
  <2>3. CallTypes'
    BY <1>5, <2>1, <2>2, CallsTyped DEF Distribute
  <2>4. MarkTypes'
    BY <2>1, <2>2, MarksStay DEF MarkTypes, markVars
  <2>5. dist' \in [Distributions -> Statuses \cup {Absent}]
    BY <1>5, BecomeType DEF Distribute, Statuses
  <2>6. SrsTypes'
    BY <1>5, <2>5 DEF Distribute, SrsTypes
  <2>7. ConnectorTypes'
    BY <1>5, <1>1 DEF Distribute, ConnectorTypes, connectorVars
  <2> QED  BY <2>3, <2>4, <2>6, <2>7
<1>6. ASSUME NEW connected \in BOOLEAN, Announce(q, connected) PROVE TypeInv'
  <2> DEFINE e == [dist |-> c.dist, by |-> q, deliveries |-> 0, acked |-> FALSE]
  <2>1. Reads(q, c.then) /\ c.at \in Serving
    BY <1>6 DEF Announce, Serving
  <2>2. c.then \in StateOf(q, DOMAIN events) /\ c.then.at # "storeReceipt" /\ c.dist \in Distributions
    BY <1>c, <2>1, ServingShape
  <2>3. e \in Event
    BY <2>2, ConnectorAssumption DEF Event
  <2> HIDE DEF e
  <2>4. events' = Append(events, e) \/ events' = events
    BY <1>6 DEF Announce, e
  <2>5. events' \in Seq(Event) /\ DOMAIN events \subseteq DOMAIN events'
    <3>1. events \in Seq(Event)
      BY DEF SrsTypes
    <3>2. Append(events, e) \in Seq(Event) /\ DOMAIN events \subseteq DOMAIN Append(events, e)
      BY <3>1, <2>3
    <3> QED  BY <3>1, <3>2, <2>4
  <2>6. CallTypes'
    BY <2>1, <2>2, <2>5, CallsTyped, StatesGrow
  <2>7. MarkTypes'
    BY <2>1, <2>2, MarksStay DEF MarkTypes, markVars
  <2>8. SrsTypes'
    BY <1>6, <2>5 DEF Announce, adjustmentVars, SrsTypes
  <2>9. ConnectorTypes'
    BY <2>5, <1>1 DEF ConnectorTypes, connectorVars
  <2> QED  BY <2>6, <2>7, <2>8, <2>9
<1>7. ASSUME ExpireRead(q) \/ ExpireBegin(q) \/ AttachRead(q) \/ AttachRefused(q) PROVE TypeInv'
  <2>1. q # Loop /\ q # Pass /\ c.adjustment \in Adjustments /\ current[c.adjustment] \in Nat
    BY <1>7, UsersOnly, UserShape DEF ExpireRead, ExpireBegin, AttachRead, AttachRefused, SrsTypes
  <2>2. \E n \in UserState : Reads(q, n) /\ n.at # "storeReceipt"
    <3>1. [at |-> "close", adjustment |-> c.adjustment] \in UserState
      BY <2>1 DEF UserState
    <3>2. \A at \in {"closed", "attach"} :
            [at |-> at, adjustment |-> c.adjustment, version |-> current[c.adjustment]] \in UserState
      BY <2>1 DEF UserState
    <3>3. CASE ExpireRead(q)
      BY <3>3, <3>1, <1>d DEF ExpireRead, Done
    <3>4. CASE ExpireBegin(q)
      BY <3>4, <3>2 DEF ExpireBegin
    <3>5. CASE AttachRead(q)
      BY <3>5, <3>2, <1>d DEF AttachRead, Done
    <3>6. CASE AttachRefused(q)
      BY <3>6, <1>d DEF AttachRefused, Done
    <3> QED  BY <3>3, <3>4, <3>5, <3>6, <1>7
  <2>3. UNCHANGED events /\ UNCHANGED adjustmentVars
    BY <1>7 DEF ExpireRead, ExpireBegin, AttachRead, AttachRefused
  <2>4. CallTypes'
    BY <2>1, <2>2, <2>3, <1>u, CallsTyped
  <2>5. MarkTypes'
    BY <2>2, MarksStay DEF MarkTypes, markVars
  <2> QED  BY <2>3, <2>4, <2>5, <1>2
<1>8. ASSUME Expire(q) PROVE TypeInv'
  <2> DEFINE a == c.adjustment
  <2>1. q # Loop /\ q # Pass /\ a \in Adjustments
    BY <1>8, UsersOnly, UserShape DEF Expire
  <2>2. {a} \cup DistributionsOf(a) \in SUBSET (Adjustments \cup Distributions \cup References)
    BY <2>1 DEF DistributionsOf
  <2>3. CallTypes'
    BY <1>8, <2>1, <2>2, <1>u, <1>d, CallsTyped DEF Expire
  <2>4. dist' \in [Distributions -> Statuses \cup {Absent}]
    BY <1>8, BecomeType DEF Expire, Statuses
  <2>5. SrsTypes'
    BY <1>8, <2>1, <2>4 DEF Expire, SrsTypes
  <2>6. ConnectorTypes'
    BY <1>8, <1>1 DEF Expire, ConnectorTypes, connectorVars
  <2>7. MarkTypes'
    BY <1>8, <2>2, MarksStay DEF Expire, MarkTypes, markVars, Done
  <2> QED  BY <2>3, <2>5, <2>6, <2>7
<1>9. ASSUME Attach(q) PROVE TypeInv'
  <2> DEFINE a == c.adjustment
  <2>1. q # Loop /\ q # Pass /\ a \in Adjustments
    BY <1>9, UsersOnly, UserShape DEF Attach
  <2>2. {a} \in SUBSET (Adjustments \cup Distributions \cup References)
    BY <2>1
  <2>3. CallTypes'
    BY <1>9, <2>1, <2>2, <1>u, <1>d, CallsTyped DEF Attach
  <2>5. SrsTypes'
    BY <1>9, <2>1 DEF Attach, SrsTypes
  <2>6. ConnectorTypes'
    BY <1>9, <1>1 DEF Attach, ConnectorTypes, connectorVars
  <2>7. MarkTypes'
    BY <1>9, <2>2, MarksStay DEF Attach, MarkTypes, markVars, Done
  <2> QED  BY <2>3, <2>5, <2>6, <2>7
<1> QED  BY <1>3, <1>4, <1>5, <1>6, <1>7, <1>8, <1>9 DEF Serve

LEMMA EventUpdated ==
  ASSUME SrsTypes, NEW s \in DOMAIN events, NEW e \in Event, events' = [events EXCEPT ![s] = e]
  PROVE  events' \in Seq(Event) /\ DOMAIN events' = DOMAIN events
BY DEF SrsTypes

\* The steps of the message loop.
LEMMA LoopKeepsTypes ==
  ASSUME TypeInv, UNCHANGED markVars,
         (\E s \in DOMAIN events : Deliver(s)) \/ Examine \/ Apply \/ Commit \/ Settle
  PROVE  TypeInv'
<1> DEFINE c == req[Loop]
           S == DOMAIN events
<1> USE DEF TypeInv
<1>c. c \in LoopState(S) /\ Loop \in Requests
  BY ConnectorStates, ConnectorAssumption
<1>s. \A n, T : n \in LoopState(T) => n \in StateOf(Loop, T)
  BY DEF StateOf
<1>m. ASSUME NEW n \in LoopState(S), Reads(Loop, n) PROVE MarkTypes'
  <2>1. n.at # "storeReceipt"
    BY LoopShape DEF Serving
  <2> QED  BY <2>1, <1>m, <1>c, MarksStay DEF MarkTypes, markVars
<1>t. ASSUME NEW n \in LoopState(S), Reads(Loop, n), DOMAIN events' = S PROVE CallTypes'
  BY <1>t, <1>c, <1>s, CallsTyped
<1>g. ASSUME NEW s \in S, NEW b \in BOOLEAN PROVE Settling(s, b) \in LoopState(S)
  BY DEF Settling, LoopState, Settles
<1>1. ASSUME NEW s \in S, Deliver(s) PROVE TypeInv'
  <2> DEFINE n == IF s \in ledger THEN Settling(s, TRUE) ELSE [at |-> "handle", seq |-> s]
             e == [events[s] EXCEPT !.deliveries = @ + 1]
  <2>1. n \in LoopState(S)
    BY <1>g DEF LoopState
  <2>2. events' = [events EXCEPT ![s] = e] /\ events[s].deliveries < MaxAttempts
    BY <1>1 DEF Deliver
  <2>3. events[s] \in Event
    BY EventTypes
  <2>4. e \in Event
    BY <2>2, <2>3, ConnectorAssumption DEF Event
  <2>5. Reads(Loop, n)
    BY <1>1 DEF Deliver
  <2> HIDE DEF n, e
  <2>6. events' \in Seq(Event) /\ DOMAIN events' = S
    BY <2>2, <2>4, EventUpdated
  <2>7. SrsTypes' /\ ConnectorTypes'
    BY <1>1, <2>6 DEF Deliver, SrsTypes, adjustmentVars, ConnectorTypes, connectorVars, config
  <2> QED  BY <2>1, <2>5, <2>6, <2>7, <1>m, <1>t
<1>2. ASSUME Examine PROVE TypeInv'
  <2> DEFINE n == [at |-> IF Skipped(events[c.seq].dist) THEN "commit" ELSE "apply",
                   seq |-> c.seq, writes |-> ~Skipped(events[c.seq].dist)]
  <2>1. c.seq \in S
    BY <1>2, <1>c, LoopShape DEF Examine
  <2>2. n \in Handles(S)
    BY <2>1 DEF Handles
  <2>3. Reads(Loop, n)
    BY <1>2 DEF Examine
  <2> HIDE DEF n
  <2>4. n \in LoopState(S)
    BY <2>2 DEF LoopState
  <2>5. SrsTypes' /\ ConnectorTypes' /\ DOMAIN events' = S
    BY <1>2 DEF Examine, SrsTypes, srsVars, adjustmentVars, ConnectorTypes, connectorVars, config
  <2> QED  BY <2>3, <2>4, <2>5, <1>m, <1>t
<1>3. ASSUME Apply PROVE TypeInv'
  <2> DEFINE h == [c EXCEPT !.at = "commit"]
  <2>1. c \in Handles(S) /\ c.at = "apply"
    BY <1>3, <1>c, LoopShape DEF Apply
  <2>2. h \in Handles(S) /\ c.seq \in S
    BY <2>1 DEF Handles
  <2>3. events[c.seq].dist \in Distributions
    BY <2>2, EventTypes
  <2>4. Settling(c.seq, GivesUp(c.seq)) \in Settles(S)
    BY <2>2 DEF Settling, Settles, GivesUp
  <2> HIDE DEF h
  <2>5. Acknowledge(events[c.seq].dist, "vle", h, Settling(c.seq, GivesUp(c.seq))) \in LoopState(S)
    BY <2>2, <2>3, <2>4 DEF Acknowledge, LoopState, Serving
  <2>6. AfterApply(c) \in LoopState(S)
    BY <2>2, <2>5 DEF AfterApply, LoopState, h
  <2>7. Reads(Loop, AfterApply(c))
    BY <1>3 DEF Apply
  <2>8. SrsTypes' /\ ConnectorTypes' /\ DOMAIN events' = S
    BY <1>3, <2>3 DEF Apply, SrsTypes, srsVars, adjustmentVars, ConnectorTypes, connectorVars, config
  <2> QED  BY <2>6, <2>7, <2>8, <1>m, <1>t
<1>4. ASSUME Commit PROVE TypeInv'
  <2>1. c \in Handles(S)
    BY <1>4, <1>c, LoopShape DEF Commit
  <2>2. c.seq \in S
    BY <2>1 DEF Handles
  <2>3. events[c.seq].dist \in Distributions
    BY <2>2, EventTypes
  <2>4. Reads(Loop, Settling(c.seq, TRUE)) /\ Settling(c.seq, TRUE) \in LoopState(S)
    BY <1>4, <2>2, <1>g DEF Commit
  <2>5. row' \in [Distributions -> {"applied", "acknowledged", Absent}]
    BY <1>4 DEF Commit, ConnectorTypes, RowStatus
  <2>6. SrsTypes' /\ ConnectorTypes' /\ DOMAIN events' = S
    BY <1>4, <2>2, <2>3, <2>5 DEF Commit, SrsTypes, srsVars, adjustmentVars, ConnectorTypes, config
  <2> QED  BY <2>4, <2>6, <1>m, <1>t
<1>5. ASSUME Settle PROVE TypeInv'
  <2> DEFINE s == c.seq
             e == [events[s] EXCEPT !.acked = c.ack]
  <2>1. c \in Settles(S)
    BY <1>5, <1>c, LoopShape DEF Settle
  <2>2. s \in S /\ c.ack \in BOOLEAN
    BY <2>1 DEF Settles
  <2>3. events[s] \in Event
    BY <2>2, EventTypes
  <2>4. e \in Event
    BY <2>2, <2>3 DEF Event
  <2>5. events' = [events EXCEPT ![s] = e]
    BY <1>5 DEF Settle
  <2> HIDE DEF e
  <2>6. events' \in Seq(Event) /\ DOMAIN events' = S
    BY <2>2, <2>4, <2>5, EventUpdated
  <2>7. SrsTypes' /\ ConnectorTypes'
    BY <1>5, <2>6 DEF Settle, SrsTypes, adjustmentVars, ConnectorTypes, connectorVars, config
  <2>8. Reads(Loop, Done) /\ Done \in LoopState(S)
    BY <1>5 DEF Settle, LoopState
  <2> QED  BY <2>6, <2>7, <2>8, <1>m, <1>t
<1> QED  BY <1>1, <1>2, <1>3, <1>4, <1>5

LEMMA PassKeepsTypes ==
  ASSUME TypeInv, UNCHANGED markVars,
         PassRead \/ PassMark \/ \E d \in Distributions : PassAcknowledge(d)
  PROVE  TypeInv'
<1> DEFINE c == req[Pass]
           S == DOMAIN events
<1> USE DEF TypeInv
<1>c. c \in PassState /\ Pass \in Requests
  BY ConnectorStates, ConnectorAssumption
<1>s. \A n \in PassState : \A T : n \in StateOf(Pass, T)
  BY ConnectorAssumption DEF StateOf
<1>t. ASSUME NEW n \in PassState, Reads(Pass, n), UNCHANGED srsVars PROVE CallTypes' /\ MarkTypes' /\ SrsTypes'
  <2>1. n.at # "storeReceipt"
    BY PassShape DEF Serving
  <2>2. MarkTypes'
    BY <2>1, <1>t, <1>c, MarksStay DEF MarkTypes, markVars
  <2>3. CallTypes'
    BY <1>t, <1>c, <1>s, CallsTyped DEF srsVars
  <2>4. SrsTypes'
    BY <1>t DEF SrsTypes, srsVars, adjustmentVars
  <2> QED  BY <2>2, <2>3, <2>4
<1>n. \A rows \in SUBSET Distributions : NextRow(rows) \in Remaining
  BY DEF NextRow, Remaining
<1>1. ASSUME PassRead PROVE TypeInv'
  <2>1. NextRow(Drifted) \in PassState
    BY <1>n DEF Drifted, PassState
  <2> QED  BY <1>1, <2>1, <1>t DEF PassRead, srsVars, ConnectorTypes, connectorVars, config
<1>2. ASSUME NEW d \in Distributions, PassAcknowledge(d) PROVE TypeInv'
  <2> DEFINE rest == NextRow(c.rows \ {d})
             mark == [at |-> "mark", dist |-> d, next |-> rest]
  <2>1. c.rows \in SUBSET Distributions
    BY <1>2, <1>c, PassShape DEF PassAcknowledge
  <2>2. rest \in Remaining
    BY <2>1, <1>n
  <2> HIDE DEF rest
  <2>3. mark \in Marking
    BY <2>2 DEF Marking
  <2> HIDE DEF mark
  <2>4. Acknowledge(d, "vle", mark, rest) \in PassState
    BY <2>2, <2>3 DEF Acknowledge, PassState, Serving
  <2>5. Reads(Pass, Acknowledge(d, "vle", mark, rest))
    BY <1>2 DEF PassAcknowledge, mark, rest
  <2> QED  BY <1>2, <2>4, <2>5, <1>t DEF PassAcknowledge, srsVars, ConnectorTypes, connectorVars, config
<1>3. ASSUME PassMark PROVE TypeInv'
  <2>1. c \in Marking
    BY <1>3, <1>c, PassShape DEF PassMark
  <2>2. c.next \in PassState /\ c.dist \in Distributions
    BY <2>1 DEF Marking, PassState
  <2> QED  BY <1>3, <2>2, <1>t DEF PassMark, srsVars, ConnectorTypes, config
<1> QED  BY <1>1, <1>2, <1>3

\* What a step of the connector goes on to when it fails.
LEMMA AfterFailureIs ==
  ASSUME NEW c
  PROVE  /\ c.at \in Serving => AfterFailure(c) = c.failed
         /\ c.at \in {"handle", "apply", "commit"} => AfterFailure(c) = Settling(c.seq, GivesUp(c.seq))
         /\ c.at = "mark" => AfterFailure(c) = c.next
BY DEF AfterFailure, Serving

LEMMA FailureKeepsTypes ==
  ASSUME TypeInv, UNCHANGED markVars,
         (\E q \in Connector : Throws(q)) \/ AppliedUnanswered \/ AckLost \/ Crash
  PROVE  TypeInv'
<1> DEFINE S == DOMAIN events
<1> USE DEF TypeInv
<1>c. /\ req[Loop] \in LoopState(S) /\ Loop \in Requests
      /\ req[Pass] \in PassState /\ Pass \in Requests
  BY ConnectorStates, ConnectorAssumption
<1>t. ASSUME NEW q \in Requests, NEW n \in StateOf(q, S), n.at # "storeReceipt", Reads(q, n), UNCHANGED events
      PROVE  CallTypes' /\ MarkTypes'
  BY <1>t, CallsTyped, MarksStay DEF MarkTypes, markVars
<1>g. ASSUME NEW c \in LoopState(S), c.at \in {"handle", "apply", "commit"}
      PROVE  AfterFailure(c) \in LoopState(S) /\ AfterFailure(c).at # "storeReceipt" /\ c.seq \in S
  <2>1. c.seq \in S
    BY <1>g, LoopShape DEF Handles
  <2>2. Settling(c.seq, GivesUp(c.seq)) \in Settles(S)
    BY <2>1 DEF Settling, Settles, GivesUp
  <2>3. AfterFailure(c) = Settling(c.seq, GivesUp(c.seq))
    BY <1>g, AfterFailureIs
  <2> QED  BY <2>1, <2>2, <2>3 DEF LoopState, Settles
<1>f. ASSUME Fault PROVE faults' \in 0..MaxFaults
  BY <1>f, ConnectorAssumption DEF Fault, ConnectorTypes
<1>1. ASSUME NEW q \in Connector, Throws(q) PROVE TypeInv'
  <2> DEFINE c == req[q]
             n == AfterFailure(c)
  <2>1. q \in Requests /\ c \in StateOf(q, S)
    BY <1>c DEF Connector, CallTypes
  <2>2. n \in StateOf(q, S) /\ n.at # "storeReceipt"
    <3>1. CASE c.at \in Serving
      BY <3>1, <2>1, ServingShape, AfterFailureIs
    <3>2. CASE q = Loop /\ c.at \notin Serving
      BY <3>2, <1>c, <1>g, LoopShape, <1>1 DEF Throws, StateOf
    <3>3. CASE q = Pass /\ c.at \notin Serving
      <4>1. c.at = "mark" /\ c \in Marking
        BY <3>3, <1>c, PassShape, <1>1 DEF Throws
      <4>2. n \in Remaining
        BY <4>1, AfterFailureIs DEF Marking
      <4> QED  BY <4>2, <3>3, ConnectorAssumption DEF StateOf, PassState, Remaining, Done
    <3> QED  BY <3>1, <3>2, <3>3 DEF Connector
  <2> HIDE DEF n
  <2>3. Reads(q, n) /\ UNCHANGED <<srsVars, vle, connectorVars, config>>
    BY <1>1 DEF Throws, n
  <2>4. SrsTypes' /\ ConnectorTypes'
    BY <1>1, <1>f, <2>3 DEF Throws, SrsTypes, srsVars, adjustmentVars, ConnectorTypes, connectorVars, config
  <2> QED  BY <2>1, <2>2, <2>3, <2>4, <1>t DEF srsVars
<1>2. ASSUME AppliedUnanswered PROVE TypeInv'
  <2> DEFINE c == req[Loop]
             n == AfterFailure(c)
  <2>1. n \in StateOf(Loop, S) /\ n.at # "storeReceipt" /\ c.seq \in S
    BY <1>2, <1>c, <1>g DEF AppliedUnanswered, StateOf
  <2>2. events[c.seq].dist \in Distributions
    BY <2>1, EventTypes
  <2> HIDE DEF n
  <2>3. Reads(Loop, n) /\ UNCHANGED <<srsVars, connectorVars, config>>
    BY <1>2 DEF AppliedUnanswered, n
  <2>4. SrsTypes' /\ ConnectorTypes'
    BY <1>2, <1>f, <2>2, <2>3 DEF AppliedUnanswered, SrsTypes, srsVars, adjustmentVars, ConnectorTypes, connectorVars, config
  <2> QED  BY <1>c, <2>1, <2>3, <2>4, <1>t DEF srsVars
<1>3. ASSUME AckLost PROVE TypeInv'
  <2>1. Done \in StateOf(Loop, S) /\ Done.at # "storeReceipt"
    BY DEF StateOf, LoopState, Done
  <2>2. Reads(Loop, Done) /\ UNCHANGED <<srsVars, vle, connectorVars, config>>
    BY <1>3 DEF AckLost
  <2>3. SrsTypes' /\ ConnectorTypes'
    BY <1>3, <1>f, <2>2 DEF AckLost, SrsTypes, srsVars, adjustmentVars, ConnectorTypes, connectorVars, config
  <2> QED  BY <1>c, <2>1, <2>2, <2>3, <1>t DEF srsVars
<1>4. ASSUME Crash PROVE TypeInv'
  <2>1. /\ req' = [q \in Requests |-> IF q \in Connector THEN Done ELSE req[q]]
        /\ overlapped' = [q \in Requests |-> IF q \in Connector THEN {} ELSE overlapped[q]]
        /\ UNCHANGED <<suspect, srsVars, vle, connectorVars>>
        /\ canApply' \in BOOLEAN /\ canAck' \in BOOLEAN
    BY <1>4 DEF Crash
  <2>2. Done \in LoopState(S) /\ Done \in PassState /\ Done.at # "storeReceipt"
    BY DEF LoopState, PassState, Remaining, Done
  <2>3. \A q \in Connector : Done \in StateOf(q, S)
    BY <2>2 DEF Connector, StateOf
  <2>4. \A q \in Requests : req'[q] \in StateOf(q, S)
    BY <2>1, <2>3 DEF CallTypes
  <2>5. CallTypes'
    <3>1. DOMAIN events' = S
      BY <2>1 DEF srsVars
    <3>2. \A q \in Requests : req'[q] \in StateOf(q, DOMAIN events')
      BY <2>4, <3>1
    <3> QED  BY <2>1, <3>2 DEF CallTypes, StateOf, LoopState, PassState, UserState, Handles, Settles
  <2>6. SrsTypes'
    BY <2>1 DEF SrsTypes, srsVars, adjustmentVars
  <2>7. ConnectorTypes'
    BY <1>4, <2>1, <1>f DEF Crash, ConnectorTypes, connectorVars, srsVars
  <2>8. MarkTypes'
    BY <2>1, <2>2 DEF MarkTypes, markVars
  <2> QED  BY <2>5, <2>6, <2>7, <2>8
<1> QED  BY <1>1, <1>2, <1>3, <1>4

\* A submission of a mark, or a user's request that fails.
LEMMA MarkStepsKeepTypes ==
  ASSUME TypeInv, NEW q \in Users, SubmitStep(q) \/ (Fail(q) /\ MarkFails(q)), UNCHANGED flowVars
  PROVE  TypeInv'
<1> DEFINE c == req[q]
           r == c.reference
           S == DOMAIN events
<1> USE DEF TypeInv
<1>c. q \in Requests /\ q # Loop /\ q # Pass /\ c \in UserState
  BY DEF Users, Connector, CallTypes, StateOf
<1>s. \A n \in UserState : \A T : n \in StateOf(q, T)
  BY <1>c DEF StateOf
<1>f. SrsTypes' /\ ConnectorTypes' /\ events' = events
  BY DEF flowVars, srsVars, adjustmentVars, connectorVars, config, SrsTypes, ConnectorTypes
<1>t. ASSUME NEW n \in UserState,
             Reads(q, n) \/ \E E \in SUBSET (Adjustments \cup Distributions \cup References) : Writes(q, E, n)
      PROVE  CallTypes'
  BY <1>t, <1>c, <1>s, <1>f, CallsTyped
<1>d. Done \in UserState /\ Done.at # "storeReceipt"
  BY DEF UserState, Done
<1>1. ASSUME ReadReceipt(q) PROVE TypeInv'
  <2> DEFINE n == [c EXCEPT !.at = "ingestMark"]
  <2>1. c \in [at : {"submitMark", "ingestMark"}, reference : References]
    BY <1>1, <1>c, UserShape DEF ReadReceipt
  <2>2. n \in UserState /\ n.at # "storeReceipt"
    BY <2>1 DEF UserState
  <2> HIDE DEF n
  <2>3. \E m \in {n, Done} : Reads(q, m)
    BY <1>1 DEF ReadReceipt, n
  <2>4. CallTypes'
    BY <2>2, <2>3, <1>d, <1>t
  <2>5. MarkTypes'
    BY <1>1, <1>c, <2>2, <2>3, <1>d, MarksStay DEF ReadReceipt, MarkTypes, markVars
  <2> QED  BY <1>f, <2>4, <2>5
<1>2. ASSUME IngestMark(q) PROVE TypeInv'
  <2> DEFINE n == [at |-> "storeReceipt", reference |-> r, mark |-> marks[r] + 1]
  <2>1. r \in References /\ marks[r] \in Nat
    BY <1>2, <1>c, UserShape DEF IngestMark, MarkTypes
  <2>2. n \in UserState
    BY <2>1 DEF UserState
  <2>3. Writes(q, {r}, n) /\ {r} \in SUBSET (Adjustments \cup Distributions \cup References)
    BY <1>2, <2>1 DEF IngestMark
  <2>4. req'[q] = n /\ \A p \in Requests \ {q} : req'[p] = req[p]
    BY <2>3, <1>c, WritesHistory
  <2>5. marks' = [marks EXCEPT ![r] = @ + 1] /\ UNCHANGED <<receipt, unanswered>>
    BY <1>2 DEF IngestMark
  <2>6. CallTypes'
    BY <2>2, <2>3, <1>t
  <2>7. \A x \in References : marks[x] \in Nat /\ marks'[x] \in Nat /\ marks[x] <= marks'[x]
    BY <2>5 DEF MarkTypes
  <2>8. n.mark <= marks'[n.reference]
    BY <2>1, <2>5 DEF MarkTypes
  <2>9. ASSUME NEW p \in Requests, req'[p].at = "storeReceipt"
        PROVE  req'[p].mark <= marks'[req'[p].reference]
    <3>1. CASE p = q
      BY <3>1, <2>4, <2>8
    <3>2. CASE p # q
      <4>1. req'[p] = req[p] /\ req[p] \in UserState /\ req[p].mark <= marks[req[p].reference]
        BY <3>2, <2>4, <2>9, UsersOnly DEF MarkTypes
      <4>2. req[p].reference \in References /\ req[p].mark \in Nat
        BY <4>1, <2>9, UserShape
      <4> QED  BY <4>1, <4>2, <2>7
    <3> QED  BY <3>1, <3>2
  <2>10. marks' \in [References -> Nat] /\ \A x \in References : receipt'[x] \in 0..marks'[x]
    <3>1. marks' \in [References -> Nat]
      BY <2>1, <2>5 DEF MarkTypes
    <3> QED  BY <3>1, <2>5, <2>7 DEF MarkTypes
  <2>11. MarkTypes'
    BY <2>5, <2>9, <2>10 DEF MarkTypes
  <2> QED  BY <1>f, <2>6, <2>11
<1>3. ASSUME StoreReceipt(q) PROVE TypeInv'
  <2>1. c \in [at : {"storeReceipt"}, reference : References, mark : Nat] /\ c.mark <= marks[r]
    BY <1>3, <1>c, UserShape DEF StoreReceipt, MarkTypes
  <2>2. Writes(q, {r}, Done) /\ {r} \in SUBSET (Adjustments \cup Distributions \cup References)
    BY <1>3, <2>1 DEF StoreReceipt
  <2>3. req'[q] = Done /\ \A p \in Requests \ {q} : req'[p] = req[p]
    BY <2>2, <1>c, WritesHistory
  <2>4. CallTypes'
    BY <2>2, <1>d, <1>t
  <2>5. MarkTypes'
    BY <1>3, <2>1, <2>3, <1>d DEF StoreReceipt, MarkTypes
  <2> QED  BY <1>f, <2>4, <2>5
<1>4. ASSUME Fail(q), MarkFails(q) PROVE TypeInv'
  <2>1. Reads(q, Done)
    BY <1>4 DEF Fail
  <2>2. c.at = "storeReceipt" => r \in References
    BY <1>c, UserShape
  <2>3. UNCHANGED <<marks, receipt>> /\ unanswered' \subseteq References
    BY <1>4, <2>2 DEF MarkFails, MarkTypes
  <2>4. MarkTypes'
    BY <2>1, <2>3, <1>c, <1>d, MarksStay
  <2> QED  BY <1>f, <2>1, <2>4, <1>d, <1>t
<1> QED  BY <1>1, <1>2, <1>3, <1>4 DEF SubmitStep

\* The steps of the exchange, each with what it leaves alone.
SrsStep(q) ==
  /\ Serve(q) \/ Announce(q, FALSE)
  /\ UNCHANGED <<vle, connectorVars, config, markVars>>
  /\ faults' \in {faults, faults + 1} /\ faults' \in 0..MaxFaults

LEMMA StepCases ==
  ASSUME TypeInv, [Next]_vars
  PROVE  \/ \E q \in Requests : SrsStep(q)
         \/ UNCHANGED markVars /\ \E s \in DOMAIN events : Deliver(s)
         \/ UNCHANGED markVars /\ (Examine \/ Apply \/ Commit \/ Settle)
         \/ UNCHANGED markVars /\ (PassRead \/ PassMark)
         \/ UNCHANGED markVars /\ \E d \in Distributions : PassAcknowledge(d)
         \/ UNCHANGED markVars /\ \E q \in Connector : Throws(q)
         \/ UNCHANGED markVars /\ (AppliedUnanswered \/ AckLost \/ Crash)
         \/ UNCHANGED flowVars /\ \E q \in Users : SubmitStep(q) \/ (Fail(q) /\ MarkFails(q))
         \/ UNCHANGED vars
<1>1. faults \in 0..MaxFaults /\ MaxFaults \in Nat
  BY ConnectorAssumption DEF TypeInv, ConnectorTypes
<1>2. ASSUME NEW q \in Requests, ServeAny(q), UNCHANGED markVars PROVE SrsStep(q)
  BY <1>1, <1>2 DEF ServeAny, SrsStep
<1>3. ASSUME NEW q \in Requests, BusDown(q), UNCHANGED markVars PROVE SrsStep(q)
  <2>1. faults' \in {faults, faults + 1} /\ faults' \in 0..MaxFaults
    BY <1>1, <1>3 DEF BusDown, Fault
  <2>2. Announce(q, FALSE) /\ UNCHANGED <<vle, connectorVars, config, markVars>>
    BY <1>3 DEF BusDown
  <2> QED  BY <2>1, <2>2 DEF SrsStep
<1>4. CASE LoopRuns
  BY <1>4, <1>2, ConnectorAssumption DEF LoopRuns, LoopStep
<1>5. CASE PassRuns
  BY <1>5, <1>2, ConnectorAssumption DEF PassRuns, PassStep
<1>6. CASE Failure /\ UNCHANGED markVars
  <2>1. CASE \E q \in Requests : BusDown(q)
    BY <2>1, <1>6, <1>3
  <2>2. CASE \E q \in Connector : Throws(q)
    BY <2>2, <1>6
  <2>3. CASE AppliedUnanswered \/ AckLost \/ Crash
    BY <2>3, <1>6
  <2> QED  BY <2>1, <2>2, <2>3, <1>6 DEF Failure
<1>7. ASSUME NEW q \in Users, UserStep(q)
      PROVE  \/ SrsStep(q)
             \/ UNCHANGED flowVars /\ (SubmitStep(q) \/ (Fail(q) /\ MarkFails(q)))
  <2>1. q \in Requests
    BY DEF Users
  <2>2. CASE ServeAny(q) /\ UNCHANGED markVars
    BY <2>1, <2>2, <1>2
  <2>3. CASE SubmitStep(q) /\ UNCHANGED flowVars
    BY <2>3
  <2>4. CASE Fail(q) /\ MarkFails(q) /\ UNCHANGED flowVars
    BY <2>4
  <2> QED  BY <1>7, <2>2, <2>3, <2>4 DEF UserStep
<1> QED  BY <1>4, <1>5, <1>6, <1>7 DEF Next, Users

LEMMA NextTypes ==
  ASSUME TypeInv, [Next]_vars
  PROVE  TypeInv'
<1>1. ASSUME NEW q \in Requests, SrsStep(q) PROVE TypeInv'
  BY <1>1, SrsKeepsTypes DEF SrsStep
<1>2. CASE UNCHANGED vars
  <2>1. UNCHANGED <<callVars, srsVars, vle, connectorVars, config, faults, markVars>>
    BY <1>2 DEF vars, flowVars
  <2>2. CallTypes'
    BY <2>1 DEF callVars, srsVars, TypeInv, CallTypes, StateOf, LoopState, PassState, UserState, Handles, Settles
  <2>3. SrsTypes' /\ ConnectorTypes' /\ MarkTypes'
    BY <2>1 DEF callVars, srsVars, adjustmentVars, connectorVars, config, markVars, TypeInv,
                SrsTypes, ConnectorTypes, MarkTypes
  <2> QED  BY <2>2, <2>3 DEF TypeInv
<1> QED  BY <1>1, <1>2, StepCases, LoopKeepsTypes, PassKeepsTypes, FailureKeepsTypes, MarkStepsKeepTypes

LEMMA TypesHold == TypeInv => TypeOK
BY DEF TypeInv, CallTypes, SrsTypes, ConnectorTypes, MarkTypes, TypeOK

-------------------------------------------------------------------------------
(* The SRS.                                                                *)

LEMMA ReadingShape ==
  ASSUME TypeInv, NEW p \in Requests
  PROVE  /\ req[p].at \in {"closed", "attach"} =>
              req[p].adjustment \in Adjustments /\ req[p].version \in Nat
         /\ req[p].at \in {"distribute", "announce"} =>
              /\ req[p].dist \in Distributions /\ AdjustmentOf[req[p].dist] \in Adjustments
<1>1. req[p].at \in {"closed", "attach"} =>
        req[p].adjustment \in Adjustments /\ req[p].version \in Nat
  BY UsersOnly, UserShape DEF TypeInv
<1>2. req[p].at \in {"distribute", "announce"} => req[p].dist \in Distributions
  BY ServingShape DEF TypeInv, CallTypes, Serving
<1> QED  BY <1>1, <1>2, DistributionAssumption

\* Those that do not take the step.
LEMMA WriteKeepsReading ==
  ASSUME TypeInv, NEW q \in Requests, NEW n,
         NEW E \in SUBSET (Adjustments \cup Distributions \cup References), Writes(q, E, n),
         NEW p \in Requests \ {q}, Reading(p),
         \A a \in Adjustments \ E : current'[a] = current[a],
         \A a \in Adjustments : versions[a] > 0 => versions'[a] > 0,
         \A d \in Distributions : dist'[d] = "superseded" => dist[d] = "superseded" \/ d \in E,
         \A d \in Distributions : dist[d] = "distributed" => dist'[d] = "distributed"
  PROVE  Reading(p)'
<1>1. /\ req'[p] = req[p] /\ suspect \subseteq suspect'
      /\ InFlight(p) => overlapped'[p] = overlapped[p] \cup E
  BY WritesHistory DEF TypeInv
<1>2. req[p].at \in {"closed", "attach", "distribute", "announce"} =>
        overlapped'[p] = overlapped[p] \cup E
  BY <1>1, ReadingInFlight
<1>3. CASE req[p].at = "closed"
  BY <1>1, <1>2, <1>3, ReadingShape DEF Reading
<1>4. CASE req[p].at = "attach"
  BY <1>1, <1>2, <1>4, ReadingShape DEF Reading
<1>5. CASE req[p].at = "distribute"
  BY <1>1, <1>2, <1>5, ReadingShape DEF Reading
<1>6. CASE req[p].at = "announce"
  BY <1>1, <1>6, ReadingShape DEF Reading
<1>7. CASE req[p].at \notin {"closed", "attach", "distribute", "announce"}
  BY <1>1, <1>7 DEF Reading
<1> QED  BY <1>3, <1>4, <1>5, <1>6, <1>7

\* Steps that write no adjustment, distribution or new event, and read nothing of them.
LEMMA QuietKeepsSrs ==
  ASSUME SrsInv, UNCHANGED adjustmentVars, suspect \subseteq suspect',
         DOMAIN events' = DOMAIN events, \A s \in DOMAIN events : events'[s].dist = events[s].dist,
         \A p \in Requests : \/ req'[p].at \notin {"closed", "attach", "distribute", "announce"}
                             \/ req'[p] = req[p] /\ overlapped[p] \subseteq overlapped'[p]
  PROVE  SrsInv'
<1>1. current' = current /\ versions' = versions /\ dist' = dist
  BY DEF adjustmentVars
<1>2. ASSUME NEW p \in Requests PROVE Reading(p)'
  <2>1. CASE req'[p].at \notin {"closed", "attach", "distribute", "announce"}
    BY <2>1 DEF Reading
  <2>2. CASE req'[p] = req[p] /\ overlapped[p] \subseteq overlapped'[p]
    BY <2>2, <1>1 DEF SrsInv, Reading
  <2> QED  BY <2>1, <2>2
<1> QED  BY <1>1, <1>2 DEF SrsInv

LEMMA InitSrs == Init => SrsInv
<1> SUFFICES ASSUME Init PROVE SrsInv
  OBVIOUS
<1> PICK sc \in Scenarios :
      /\ req = [q \in Requests |-> IF q \in Users THEN sc.calls[q] ELSE Done]
      /\ FlowInit(sc.versions, sc.faults)
  BY DEF Init
<1>1. /\ sc.calls \in [Users -> Calls \cup {Done}]
      /\ sc.versions \in [Adjustments -> {0, 1}]
  BY ScenariosAssumption
<1>2. ASSUME NEW q \in Requests PROVE Reading(q)
  <2>1. req[q] = Done \/ req[q] \in UserCall
    BY <1>1, CallsAssumption
  <2>2. req[q].at \notin {"closed", "attach", "distribute", "announce"}
    BY <2>1 DEF UserCall, Done
  <2> QED  BY <2>2 DEF Reading
<1>3. \A d \in Distributions : AdjustmentOf[d] \in Adjustments
  BY DistributionAssumption
<1>4. \A d \in Distributions :
        /\ dist[d] # Absent => versions[AdjustmentOf[d]] > 0
        /\ dist[d] = "pending" => current[AdjustmentOf[d]] # 0
        /\ dist[d] # "superseded"
  BY <1>1, <1>3, AbsentAssumption DEF FlowInit, Statuses
<1> QED  BY <1>2, <1>4 DEF FlowInit, SrsInv

LEMMA SrsKeepsSrs ==
  ASSUME TypeInv, SrsInv, NEW q \in Requests, Serve(q) \/ Announce(q, FALSE)
  PROVE  SrsInv'
<1> DEFINE c == req[q]
           Ids == Adjustments \cup Distributions \cup References
<1>t. CallTypes /\ SrsTypes
  BY DEF TypeInv
<1>d. \A d \in Distributions :
        /\ AdjustmentOf[d] \in Adjustments
        /\ d \in DistributionsOf(AdjustmentOf[d])
        /\ \A a : d \in DistributionsOf(a) <=> a = AdjustmentOf[d]
  BY DistributionAssumption DEF DistributionsOf
<1>v. \A a \in Adjustments : /\ versions[a] \in Nat /\ current[a] \in Nat
                             /\ current[a] \in {0, versions[a]}
  BY <1>t DEF SrsTypes
<1>e. \A s \in DOMAIN events : events[s].dist \in Distributions
  BY <1>t, EventTypes
<1>x. Absent # "pending" /\ Absent # "distributed" /\ Absent # "superseded"
  BY AbsentAssumption DEF Statuses
<1>1. ASSUME RecordAdjustment(q) PROVE SrsInv'
  <2> DEFINE a == c.adjustment
             E == {a} \cup DistributionsOf(a)
  <2>1. a \in Adjustments
    BY <1>1, <1>t, UsersOnly, UserShape DEF RecordAdjustment
  <2>2. /\ versions[a] = 0 /\ versions' = [versions EXCEPT ![a] = 1]
        /\ current' = [current EXCEPT ![a] = 1]
        /\ dist' = Become(DistributionsOf(a), "pending")
        /\ Writes(q, E, Done) /\ events' = events
    BY <1>1 DEF RecordAdjustment
  <2>3. E \in SUBSET Ids
    BY <2>1 DEF DistributionsOf
  <2>4. /\ \A b \in Adjustments : b # a => versions'[b] = versions[b] /\ current'[b] = current[b]
        /\ versions'[a] = 1 /\ current'[a] = 1
    BY <2>1, <2>2, <1>t DEF SrsTypes
  <2>5. \A d \in Distributions : dist'[d] = IF AdjustmentOf[d] = a THEN "pending" ELSE dist[d]
    BY <2>2, <1>d DEF Become
  <2>6. \A d \in Distributions : AdjustmentOf[d] = a => dist[d] = Absent
    BY <2>2 DEF SrsInv
  <2>7. req'[q] = Done /\ suspect \subseteq suspect'
    BY <2>2, <2>3, <1>t, WritesHistory
  <2> HIDE DEF E
  <2>8. ASSUME NEW p \in Requests \ {q} PROVE Reading(p)'
    <3>1. \A b \in Adjustments \ E : current'[b] = current[b]
      BY <2>4 DEF E
    <3>2. \A b \in Adjustments : versions[b] > 0 => versions'[b] > 0
      BY <2>4
    <3>3. /\ \A d \in Distributions : dist'[d] = "superseded" => dist[d] = "superseded" \/ d \in E
          /\ \A d \in Distributions : dist[d] = "distributed" => dist'[d] = "distributed"
      BY <2>5, <2>6, <1>x
    <3>4. Reading(p)
      BY DEF SrsInv
    <3> QED  BY <3>1, <3>2, <3>3, <3>4, <2>2, <2>3, WriteKeepsReading
  <2>9. Reading(q)'
    BY <2>7 DEF Reading, Done
  <2>10. \A d \in Distributions :
           /\ dist'[d] # Absent => versions'[AdjustmentOf[d]] > 0
           /\ dist'[d] = "pending" => current'[AdjustmentOf[d]] # 0
           /\ dist'[d] = "superseded" /\ AdjustmentOf[d] \notin suspect' => current'[AdjustmentOf[d]] = 0
    BY <2>4, <2>5, <2>7, <1>d DEF SrsInv
  <2>11. \A s \in DOMAIN events' : dist'[events'[s].dist] = "distributed"
    BY <2>2, <2>5, <2>6, <1>e, <1>x DEF SrsInv
  <2> QED  BY <2>8, <2>9, <2>10, <2>11 DEF SrsInv
<1>2. ASSUME AcknowledgeRead(q) PROVE SrsInv'
  <2> DEFINE d == c.dist
             n == IF Known(AdjustmentOf[d]) /\ TargetOf[d] = c.target
                  THEN [c EXCEPT !.at = "distribute"] ELSE c.then
  <2>1. Reads(q, n) /\ c.at \in Serving /\ c.at = "acknowledge" /\ events' = events /\ UNCHANGED adjustmentVars
    BY <1>2 DEF AcknowledgeRead, Serving
  <2>2. c \in StateOf(q, DOMAIN events) /\ d \in Distributions
    BY <2>1, <1>t, ServingShape DEF CallTypes
  <2>3. c.then.at \notin {"closed", "attach", "distribute", "announce"}
    BY <2>1, <2>2, LoopShape, PassShape, UserShape DEF StateOf, Handles, Marking, Done
  <2>4. [c EXCEPT !.at = "distribute"].at = "distribute" /\ [c EXCEPT !.at = "distribute"].dist = d
    BY <2>1, <2>2, LoopShape, PassShape, UserShape DEF StateOf
  <2>5. /\ req'[q] = n /\ suspect' = suspect
        /\ \A p \in Requests \ {q} : req'[p] = req[p] /\ overlapped'[p] = overlapped[p]
    BY <2>1, <1>t, ReadsHistory
  <2>6. UNCHANGED <<current, versions, dist>>
    BY <2>1 DEF adjustmentVars
  <2>7. Reading(q)'
    <3>1. CASE Known(AdjustmentOf[d]) /\ TargetOf[d] = c.target
      <4>1. current[AdjustmentOf[d]] # 0
        BY <3>1 DEF Known
      <4>2. versions[AdjustmentOf[d]] > 0
        BY <4>1, <2>2, <1>d, <1>v
      <4>3. dist[d] # "superseded" \/ AdjustmentOf[d] \in suspect
        BY <4>1, <2>2 DEF SrsInv
      <4>4. req'[q].at = "distribute" /\ req'[q].dist = d
        BY <2>4, <2>5, <3>1
      <4> QED  BY <4>2, <4>3, <4>4, <2>5, <2>6 DEF Reading
    <3>2. CASE ~(Known(AdjustmentOf[d]) /\ TargetOf[d] = c.target)
      <4>1. req'[q] = c.then
        BY <3>2, <2>5
      <4> QED  BY <4>1, <2>3 DEF Reading
    <3> QED  BY <3>1, <3>2
  <2>8. ASSUME NEW p \in Requests \ {q} PROVE Reading(p)'
    BY <2>5, <2>6 DEF SrsInv, Reading
  <2> QED  BY <2>1, <2>5, <2>6, <2>7, <2>8 DEF SrsInv
<1>3. ASSUME Distribute(q) PROVE SrsInv'
  <2> DEFINE d == c.dist
             n == [c EXCEPT !.at = "announce"]
  <2>1. /\ Writes(q, {d}, n) /\ c.at \in Serving /\ c.at = "distribute"
        /\ events' = events /\ current' = current /\ versions' = versions
        /\ dist' = Become({d}, "distributed")
    BY <1>3 DEF Distribute, Serving
  <2>2. c \in StateOf(q, DOMAIN events) /\ d \in Distributions
    BY <2>1, <1>t, ServingShape DEF CallTypes
  <2>3. n.at = "announce" /\ n.dist = d
    BY <2>1, <2>2, LoopShape, PassShape, UserShape DEF StateOf
  <2> HIDE DEF n
  <2>4. \A x \in Distributions : dist'[x] = IF x = d THEN "distributed" ELSE dist[x]
    BY <2>1 DEF Become
  <2>5. {d} \in SUBSET Ids
    BY <2>2
  <2>6. req'[q] = n /\ suspect \subseteq suspect'
    BY <2>1, <2>5, <1>t, WritesHistory
  <2>7. Reading(q)'
    BY <2>3, <2>4, <2>6, <2>2 DEF Reading
  <2>8. ASSUME NEW p \in Requests \ {q} PROVE Reading(p)'
    <3>1. Reading(p)
      BY DEF SrsInv
    <3> QED  BY <3>1, <2>1, <2>4, <2>5, WriteKeepsReading
  <2>9. versions[AdjustmentOf[d]] > 0
    BY <2>1 DEF SrsInv, Reading
  <2>10. \A x \in Distributions :
           /\ dist'[x] # Absent => versions[AdjustmentOf[x]] > 0
           /\ dist'[x] = "pending" => current[AdjustmentOf[x]] # 0
           /\ dist'[x] = "superseded" /\ AdjustmentOf[x] \notin suspect' => current[AdjustmentOf[x]] = 0
    BY <2>4, <2>6, <2>9 DEF SrsInv
  <2>11. \A s \in DOMAIN events : dist'[events[s].dist] = "distributed"
    BY <2>4, <1>e DEF SrsInv
  <2> QED  BY <2>1, <2>7, <2>8, <2>10, <2>11 DEF SrsInv
<1>4. ASSUME NEW connected \in BOOLEAN, Announce(q, connected) PROVE SrsInv'
  <2> DEFINE e == [dist |-> c.dist, by |-> q, deliveries |-> 0, acked |-> FALSE]
  <2>1. Reads(q, c.then) /\ c.at \in Serving /\ c.at = "announce" /\ UNCHANGED adjustmentVars
    BY <1>4 DEF Announce, Serving
  <2>2. c \in StateOf(q, DOMAIN events) /\ c.dist \in Distributions
    BY <2>1, <1>t, ServingShape DEF CallTypes
  <2>3. c.then.at \notin {"closed", "attach", "distribute", "announce"}
    BY <2>1, <2>2, LoopShape, PassShape, UserShape DEF StateOf, Handles, Marking, Done
  <2>5. /\ req'[q] = c.then /\ suspect' = suspect
        /\ \A p \in Requests \ {q} : req'[p] = req[p] /\ overlapped'[p] = overlapped[p]
    BY <2>1, <1>t, ReadsHistory
  <2>6. UNCHANGED <<current, versions, dist>>
    BY <2>1 DEF adjustmentVars
  <2>7. dist[c.dist] = "distributed"
    BY <2>1 DEF SrsInv, Reading
  <2>8. events' = events \/ events' = Append(events, e)
    BY <1>4 DEF Announce
  <2>9. e.dist = c.dist
    OBVIOUS
  <2> HIDE DEF e
  <2>10. \A s \in DOMAIN Append(events, e) :
           \/ s \in DOMAIN events /\ Append(events, e)[s] = events[s]
           \/ Append(events, e)[s] = e
    <3>1. events \in Seq(Event)
      BY <1>t DEF SrsTypes
    <3> QED  BY <3>1
  <2>11. \A s \in DOMAIN events' : dist'[events'[s].dist] = "distributed"
    BY <2>6, <2>7, <2>8, <2>9, <2>10 DEF SrsInv
  <2>12. ASSUME NEW p \in Requests \ {q} PROVE Reading(p)'
    BY <2>5, <2>6 DEF SrsInv, Reading
  <2>13. Reading(q)'
    BY <2>3, <2>5 DEF Reading
  <2> QED  BY <2>5, <2>6, <2>11, <2>12, <2>13 DEF SrsInv
<1>5. ASSUME ExpireRead(q) \/ ExpireBegin(q) \/ AttachRead(q) \/ AttachRefused(q) PROVE SrsInv'
  <2> DEFINE a == c.adjustment
  <2>1. a \in Adjustments
    BY <1>5, <1>t, UsersOnly, UserShape DEF ExpireRead, ExpireBegin, AttachRead, AttachRefused
  <2>2. /\ UNCHANGED <<current, versions, dist>> /\ events' = events
        /\ \E n : Reads(q, n)
    BY <1>5 DEF ExpireRead, ExpireBegin, AttachRead, AttachRefused, adjustmentVars
  <2>3. /\ suspect' = suspect
        /\ \A p \in Requests \ {q} : req'[p] = req[p] /\ overlapped'[p] = overlapped[p]
    BY <2>2, <1>t, ReadsHistory
  <2>4. ASSUME NEW p \in Requests \ {q} PROVE Reading(p)'
    BY <2>2, <2>3 DEF SrsInv, Reading
  <2>5. \/ req'[q] \in {Done, [at |-> "close", adjustment |-> a]}
        \/ req'[q] = [at |-> "closed", adjustment |-> a, version |-> current[a]]
        \/ current[a] # 0 /\ req'[q] = [at |-> "attach", adjustment |-> a, version |-> current[a]]
    BY <1>5, <1>t DEF ExpireRead, ExpireBegin, AttachRead, AttachRefused, Reads, CallTypes, Known
  <2>6. Reading(q)'
    BY <2>2, <2>5 DEF Reading, Done
  <2> QED  BY <2>2, <2>3, <2>4, <2>6 DEF SrsInv
<1>6. ASSUME Expire(q) PROVE SrsInv'
  <2> DEFINE a == c.adjustment
             E == {a} \cup DistributionsOf(a)
  <2>1. a \in Adjustments
    BY <1>6, <1>t, UsersOnly, UserShape DEF Expire
  <2>2. /\ c.at = "closed" /\ versions' = versions /\ events' = events
        /\ current' = [current EXCEPT ![a] = IF @ = c.version THEN 0 ELSE @]
        /\ dist' = Become(Owed(a), "superseded")
        /\ Writes(q, E, Done)
    BY <1>6 DEF Expire
  <2>3. E \in SUBSET Ids
    BY <2>1 DEF DistributionsOf
  <2>4. /\ \A b \in Adjustments : b # a => current'[b] = current[b]
        /\ current'[a] = IF current[a] = c.version THEN 0 ELSE current[a]
    BY <2>1, <2>2, <1>t DEF SrsTypes
  <2>5. \A d \in Distributions :
          dist'[d] = IF AdjustmentOf[d] = a /\ dist[d] = "pending" THEN "superseded" ELSE dist[d]
    BY <2>2, <1>d DEF Become, Owed
  <2>6. req'[q] = Done /\ suspect' = suspect \cup (E \cap overlapped[q])
    BY <2>2, <2>3, <1>t, WritesHistory
  <2>7. a \notin suspect' => current[a] = c.version
    BY <2>2, <2>6 DEF SrsInv, Reading
  <2>8. ASSUME NEW p \in Requests \ {q} PROVE Reading(p)'
    <3>1. \A b \in Adjustments \ E : current'[b] = current[b]
      BY <2>4
    <3>2. \A b \in Adjustments : versions[b] > 0 => versions'[b] > 0
      BY <2>2
    <3>3. /\ \A d \in Distributions : dist'[d] = "superseded" => dist[d] = "superseded" \/ d \in E
          /\ \A d \in Distributions : dist[d] = "distributed" => dist'[d] = "distributed"
      BY <2>5, <1>d
    <3>4. Reading(p)
      BY DEF SrsInv
    <3> HIDE DEF E
    <3> QED  BY <3>1, <3>2, <3>3, <3>4, <2>2, <2>3, WriteKeepsReading
  <2>9. Reading(q)'
    BY <2>6 DEF Reading, Done
  <2>10. \A d \in Distributions :
           /\ dist'[d] # Absent => versions'[AdjustmentOf[d]] > 0
           /\ dist'[d] = "pending" => current'[AdjustmentOf[d]] # 0
           /\ dist'[d] = "superseded" /\ AdjustmentOf[d] \notin suspect' => current'[AdjustmentOf[d]] = 0
    <3> SUFFICES ASSUME NEW d \in Distributions
                 PROVE  /\ dist'[d] # Absent => versions'[AdjustmentOf[d]] > 0
                        /\ dist'[d] = "pending" => current'[AdjustmentOf[d]] # 0
                        /\ dist'[d] = "superseded" /\ AdjustmentOf[d] \notin suspect'
                             => current'[AdjustmentOf[d]] = 0
      OBVIOUS
    <3>1. dist[d] # Absent => versions[AdjustmentOf[d]] > 0
      BY DEF SrsInv
    <3>2. suspect \subseteq suspect'
      BY <2>6
    <3> HIDE DEF E
    <3>3. CASE AdjustmentOf[d] = a
      BY <3>1, <3>3, <2>2, <2>4, <2>5, <2>7, <1>x
    <3>4. CASE AdjustmentOf[d] # a
      BY <3>1, <3>2, <3>4, <2>2, <2>4, <2>5, <1>d DEF SrsInv
    <3> QED  BY <3>3, <3>4
  <2>11. \A s \in DOMAIN events' : dist'[events'[s].dist] = "distributed"
    BY <2>2, <2>5, <1>e DEF SrsInv
  <2> QED  BY <2>8, <2>9, <2>10, <2>11 DEF SrsInv
<1>7. ASSUME Attach(q) PROVE SrsInv'
  <2> DEFINE a == c.adjustment
  <2>1. a \in Adjustments
    BY <1>7, <1>t, UsersOnly, UserShape DEF Attach
  <2>2. /\ c.at = "attach" /\ events' = events /\ dist' = dist
        /\ current[a] \in {0, c.version}
        /\ versions' = [versions EXCEPT ![a] = @ + 1]
        /\ current' = [current EXCEPT ![a] = versions[a] + 1]
        /\ Writes(q, {a}, Done)
    BY <1>7 DEF Attach
  <2>3. {a} \in SUBSET Ids
    BY <2>1
  <2>4. /\ \A b \in Adjustments : b # a => current'[b] = current[b] /\ versions'[b] = versions[b]
        /\ current'[a] = versions[a] + 1 /\ versions'[a] = versions[a] + 1
    BY <2>1, <2>2, <1>t DEF SrsTypes
  <2>6. req'[q] = Done /\ suspect' = suspect \cup ({a} \cap overlapped[q])
    BY <2>2, <2>3, <1>t, WritesHistory
  <2>7. a \notin suspect' => current[a] # 0
    BY <2>2, <2>6 DEF SrsInv, Reading
  <2>8. ASSUME NEW p \in Requests \ {q} PROVE Reading(p)'
    <3>2. \A b \in Adjustments : versions[b] > 0 => versions'[b] > 0
      BY <2>4, <1>v
    <3>4. Reading(p)
      BY DEF SrsInv
    <3> QED  BY <3>2, <3>4, <2>2, <2>3, <2>4, WriteKeepsReading
  <2>9. Reading(q)'
    BY <2>6 DEF Reading, Done
  <2>10. \A d \in Distributions :
           /\ dist'[d] # Absent => versions'[AdjustmentOf[d]] > 0
           /\ dist'[d] = "pending" => current'[AdjustmentOf[d]] # 0
           /\ dist'[d] = "superseded" /\ AdjustmentOf[d] \notin suspect' => current'[AdjustmentOf[d]] = 0
    BY <2>2, <2>4, <2>6, <2>7, <1>d, <1>v DEF SrsInv
  <2> QED  BY <2>2, <2>8, <2>9, <2>10 DEF SrsInv
<1> QED  BY <1>1, <1>2, <1>3, <1>4, <1>5, <1>6, <1>7 DEF Serve

\* What the steps outside the SRS have in common.
Quiet ==
  /\ UNCHANGED adjustmentVars
  /\ DOMAIN events' = DOMAIN events
  /\ \A s \in DOMAIN events : events'[s].dist = events[s].dist /\ events'[s].by = events[s].by
  /\ suspect \subseteq suspect'
  /\ \A p \in Requests : \/ req'[p].at \notin {"closed", "attach", "distribute", "announce"}
                         \/ req'[p] = req[p] /\ overlapped[p] \subseteq overlapped'[p]

LEMMA QuietReads ==
  ASSUME TypeInv, NEW q \in Requests, NEW n, Reads(q, n), UNCHANGED adjustmentVars,
         n.at \notin {"closed", "attach", "distribute", "announce"},
         \/ events' = events
         \/ \E s \in DOMAIN events, e \in Event :
              /\ events' = [events EXCEPT ![s] = e]
              /\ e.dist = events[s].dist /\ e.by = events[s].by
  PROVE  Quiet
<1>1. /\ req'[q] = n /\ suspect' = suspect
      /\ \A p \in Requests \ {q} : req'[p] = req[p] /\ overlapped'[p] = overlapped[p]
  BY ReadsHistory DEF TypeInv
<1>2. /\ DOMAIN events' = DOMAIN events
      /\ \A s \in DOMAIN events : events'[s].dist = events[s].dist /\ events'[s].by = events[s].by
  OBVIOUS
<1> QED  BY <1>1, <1>2 DEF Quiet

LEMMA OthersAreQuiet ==
  ASSUME TypeInv,
         \/ \E s \in DOMAIN events : Deliver(s)
         \/ Examine \/ Apply \/ Commit \/ Settle
         \/ PassRead \/ PassMark
         \/ \E d \in Distributions : PassAcknowledge(d)
         \/ \E q \in Connector : Throws(q)
         \/ AppliedUnanswered \/ AckLost \/ Crash
         \/ UNCHANGED flowVars /\ \E q \in Users : SubmitStep(q) \/ (Fail(q) /\ MarkFails(q))
         \/ UNCHANGED vars
  PROVE  Quiet
<1> DEFINE S == DOMAIN events
<1>t. CallTypes /\ SrsTypes /\ Loop \in Requests /\ Pass \in Requests
  BY ConnectorAssumption DEF TypeInv
<1>c. req[Loop] \in LoopState(S) /\ req[Pass] \in PassState
  BY <1>t, ConnectorStates
<1>e. \A s \in S : events[s] \in Event
  BY <1>t, EventTypes
<1>g. \A s, b : Settling(s, b).at = "settle"
  BY DEF Settling
<1>1. ASSUME NEW s \in S, Deliver(s) PROVE Quiet
  <2> DEFINE n == IF s \in ledger THEN Settling(s, TRUE) ELSE [at |-> "handle", seq |-> s]
             e == [events[s] EXCEPT !.deliveries = @ + 1]
  <2>1. events[s] \in Event /\ events[s].deliveries < MaxAttempts
    BY <1>1, <1>e DEF Deliver
  <2>2. e \in Event /\ e.dist = events[s].dist /\ e.by = events[s].by
    BY <2>1, ConnectorAssumption DEF Event
  <2>3. n.at \notin {"closed", "attach", "distribute", "announce"}
    BY <1>g
  <2>4. events' = [events EXCEPT ![s] = e] /\ Reads(Loop, n) /\ UNCHANGED adjustmentVars
    BY <1>1 DEF Deliver
  <2> HIDE DEF n, e
  <2> QED  BY <2>2, <2>3, <2>4, <1>t, QuietReads
<1>2. CASE Settle
  <2> DEFINE s == req[Loop].seq
             e == [events[s] EXCEPT !.acked = req[Loop].ack]
  <2>1. s \in S /\ req[Loop].ack \in BOOLEAN
    BY <1>2, <1>c, LoopShape DEF Settle, Settles
  <2>2. e \in Event /\ e.dist = events[s].dist /\ e.by = events[s].by
    BY <2>1, <1>e DEF Event
  <2>4. events' = [events EXCEPT ![s] = e] /\ Reads(Loop, Done) /\ UNCHANGED adjustmentVars
    BY <1>2 DEF Settle
  <2> HIDE DEF e
  <2>5. Done.at \notin {"closed", "attach", "distribute", "announce"}
    BY DEF Done
  <2> QED  BY <2>1, <2>2, <2>4, <2>5, <1>t, QuietReads
<1>3. ASSUME NEW q \in Requests, NEW n, Reads(q, n), UNCHANGED srsVars,
             n.at \in {"done", "handle", "apply", "commit", "settle", "rows", "mark", "acknowledge",
                       "ingestMark"}
      PROVE  Quiet
  BY <1>3, QuietReads DEF srsVars
<1>4. CASE Examine
  BY <1>3, <1>4, <1>t DEF Examine
<1>5. CASE Apply
  <2>1. req[Loop] \in Handles(S)
    BY <1>5, <1>c, LoopShape DEF Apply
  <2>2. [req[Loop] EXCEPT !.at = "commit"].at = "commit"
    BY <2>1 DEF Handles
  <2>3. AfterApply(req[Loop]).at \in {"acknowledge", "commit"}
    BY <2>2 DEF AfterApply, Acknowledge
  <2> QED  BY <1>3, <1>5, <1>t, <2>3 DEF Apply
<1>6. CASE Commit
  BY <1>3, <1>6, <1>t, <1>g DEF Commit
<1>7. CASE PassRead
  BY <1>3, <1>7, <1>t DEF PassRead, NextRow, Done
<1>8. CASE PassMark
  <2>1. req[Pass] \in Marking
    BY <1>8, <1>c, PassShape DEF PassMark
  <2>2. req[Pass].next.at \in {"done", "rows"}
    BY <2>1 DEF Marking, Remaining, Done
  <2> QED  BY <1>3, <1>8, <1>t, <2>2 DEF PassMark
<1>9. ASSUME NEW d \in Distributions, PassAcknowledge(d) PROVE Quiet
  <2>1. \E n : Reads(Pass, n) /\ n.at = "acknowledge" /\ UNCHANGED srsVars
    BY <1>9 DEF PassAcknowledge, Acknowledge
  <2> QED  BY <2>1, <1>3, <1>t
<1>10. ASSUME NEW q \in Connector, Throws(q) PROVE Quiet
  <2>1. AfterFailure(req[q]).at \in {"done", "rows", "settle"}
    <3>1. CASE q = Loop
      <4>1. req[q].at \in Serving \cup {"handle", "apply", "commit"}
        BY <1>10, <3>1, <1>c, LoopShape DEF Throws
      <4>2. CASE req[q].at \in Serving
        BY <4>2, <3>1, <1>c, LoopShape, AfterFailureIs DEF Settles
      <4>3. CASE req[q].at \in {"handle", "apply", "commit"}
        BY <4>3, <1>g, AfterFailureIs
      <4> QED  BY <4>1, <4>2, <4>3
    <3>2. CASE q = Pass
      <4>1. req[q].at \in Serving \cup {"mark"}
        BY <1>10, <3>2, <1>c, PassShape DEF Throws
      <4>2. CASE req[q].at \in Serving
        BY <4>2, <3>2, <1>c, PassShape, AfterFailureIs DEF Remaining, Done
      <4>3. CASE req[q].at = "mark"
        BY <4>3, <3>2, <1>c, PassShape, AfterFailureIs DEF Marking, Remaining, Done
      <4> QED  BY <4>1, <4>2, <4>3
    <3> QED  BY <3>1, <3>2 DEF Connector
  <2>2. q \in Requests
    BY <1>t DEF Connector
  <2> QED  BY <1>3, <1>10, <2>1, <2>2 DEF Throws
<1>11. CASE AppliedUnanswered
  <2>1. AfterFailure(req[Loop]).at = "settle"
    BY <1>11, <1>g, AfterFailureIs DEF AppliedUnanswered
  <2> QED  BY <1>3, <1>11, <1>t, <2>1 DEF AppliedUnanswered
<1>12. CASE AckLost
  BY <1>3, <1>12, <1>t DEF AckLost, Done
<1>13. CASE Crash
  <2>1. /\ \A q \in Requests : req'[q] = IF q \in Connector THEN Done ELSE req[q]
        /\ \A q \in Requests : overlapped'[q] = IF q \in Connector THEN {} ELSE overlapped[q]
        /\ UNCHANGED <<suspect, srsVars>>
    BY <1>13 DEF Crash
  <2> QED  BY <2>1 DEF Quiet, srsVars, Done
<1>14. ASSUME NEW q \in Users, SubmitStep(q) \/ (Fail(q) /\ MarkFails(q)), UNCHANGED flowVars
       PROVE  Quiet
  <2>1. q \in Requests /\ UNCHANGED srsVars
    BY <1>14 DEF Users, flowVars
  <2>2. CASE ReadReceipt(q)
    <3>1. req[q].at = "submitMark"
      BY <2>2 DEF ReadReceipt
    <3>2. req[q] \in [at : {"submitMark", "ingestMark"}, reference : References]
      BY <3>1, <2>1, <1>t, UsersOnly, UserShape
    <3>3. [req[q] EXCEPT !.at = "ingestMark"].at = "ingestMark"
      BY <3>2
    <3> QED  BY <1>3, <2>1, <2>2, <3>3 DEF ReadReceipt, Done
  <2>3. ASSUME NEW n, NEW r \in References, Writes(q, {r}, n), n.at \in {"done", "storeReceipt"} PROVE Quiet
    <3>1. /\ req'[q] = n /\ suspect \subseteq suspect'
          /\ \A p \in Requests \ {q} :
               req'[p] = req[p] /\ (InFlight(p) => overlapped'[p] = overlapped[p] \cup {r})
      BY <2>1, <2>3, <1>t, WritesHistory
    <3>2. UNCHANGED <<adjustmentVars, events>>
      BY <2>1 DEF srsVars
    <3> QED  BY <2>3, <3>1, <3>2, ReadingInFlight DEF Quiet
  <2>4. CASE IngestMark(q)
    BY <2>1, <2>3, <2>4, <1>t, UsersOnly, UserShape DEF IngestMark
  <2>5. CASE StoreReceipt(q)
    BY <2>1, <2>3, <2>5, <1>t, UsersOnly, UserShape DEF StoreReceipt, Done
  <2>6. CASE Fail(q)
    BY <1>3, <2>1, <2>6 DEF Fail, Done
  <2> QED  BY <1>14, <2>2, <2>4, <2>5, <2>6 DEF SubmitStep
<1>15. CASE UNCHANGED vars
  BY <1>15 DEF vars, callVars, flowVars, srsVars, Quiet
<1> QED  BY <1>1, <1>2, <1>4, <1>5, <1>6, <1>7, <1>8, <1>9, <1>10, <1>11, <1>12, <1>13, <1>14, <1>15

LEMMA NextIsSrsOrQuiet ==
  ASSUME TypeInv, [Next]_vars
  PROVE  (\E q \in Requests : SrsStep(q)) \/ Quiet
BY StepCases, OthersAreQuiet

LEMMA NextSrs ==
  ASSUME TypeInv, SrsInv, [Next]_vars
  PROVE  SrsInv'
<1>1. ASSUME NEW q \in Requests, SrsStep(q) PROVE SrsInv'
  BY <1>1, SrsKeepsSrs DEF SrsStep
<1>2. CASE Quiet
  BY <1>2, QuietKeepsSrs DEF Quiet
<1> QED  BY <1>1, <1>2, NextIsSrsOrQuiet

\* A step of the SRS after which an expired adjustment, a superseded or a distributed
\* distribution is another: the request that took it was overlapped.
LEMMA StepKeepsExpiry ==
  ASSUME TypeInv, SrsInv, [Next]_vars
  PROVE  /\ \A a \in Adjustments \ suspect' :
              versions[a] > 0 /\ current[a] = 0 => current'[a] = 0
         /\ \A d \in Distributions :
              \/ dist[d] \in {Absent, "pending"}
              \/ dist'[d] = dist[d]
              \/ dist[d] = "superseded" /\ {d, AdjustmentOf[d]} \cap suspect' # {}
<1> DEFINE Final == /\ \A a \in Adjustments \ suspect' :
                         versions[a] > 0 /\ current[a] = 0 => current'[a] = 0
                    /\ \A d \in Distributions :
                         \/ dist[d] \in {Absent, "pending"}
                         \/ dist'[d] = dist[d]
                         \/ dist[d] = "superseded" /\ {d, AdjustmentOf[d]} \cap suspect' # {}
           Ids == Adjustments \cup Distributions \cup References
<1>t. CallTypes /\ SrsTypes
  BY DEF TypeInv
<1>d. \A d \in Distributions :
        /\ AdjustmentOf[d] \in Adjustments
        /\ \A a : d \in DistributionsOf(a) <=> a = AdjustmentOf[d]
  BY DistributionAssumption DEF DistributionsOf
<1>1. CASE UNCHANGED <<current, dist>>
  BY <1>1
<1>2. ASSUME NEW q \in Requests, RecordAdjustment(q) PROVE Final
  <2> DEFINE a == req[q].adjustment
  <2>1. a \in Adjustments
    BY <1>2, <1>t, UsersOnly, UserShape DEF RecordAdjustment
  <2>2. /\ versions[a] = 0
        /\ \A b \in Adjustments : b # a => current'[b] = current[b]
        /\ \A d \in Distributions : dist'[d] = IF AdjustmentOf[d] = a THEN "pending" ELSE dist[d]
    BY <1>2, <2>1, <1>t, <1>d DEF RecordAdjustment, SrsTypes, Become
  <2>3. \A d \in Distributions : AdjustmentOf[d] = a => dist[d] = Absent
    BY <2>2 DEF SrsInv
  <2> QED  BY <2>2, <2>3
<1>3. ASSUME NEW q \in Requests, Distribute(q) PROVE Final
  <2> DEFINE d == req[q].dist
  <2>1. d \in Distributions /\ req[q].at = "distribute"
    BY <1>3, ReadingShape DEF Distribute
  <2>2. /\ current' = current
        /\ \A x \in Distributions : dist'[x] = IF x = d THEN "distributed" ELSE dist[x]
    BY <1>3 DEF Distribute, Become
  <2>3. \E n : Writes(q, {d}, n)
    BY <1>3 DEF Distribute
  <2>4. suspect' = suspect \cup ({d} \cap overlapped[q])
    BY <2>1, <2>3, <1>t, WritesHistory
  <2>5. dist[d] # "superseded" \/ AdjustmentOf[d] \in suspect \/ d \in overlapped[q]
    BY <2>1 DEF SrsInv, Reading
  <2>6. dist[d] \in {Absent, "pending", "distributed", "superseded"}
    BY <2>1, <1>t DEF SrsTypes, Statuses
  <2> QED  BY <2>2, <2>4, <2>5, <2>6
<1>4. ASSUME NEW q \in Requests, Expire(q) PROVE Final
  <2> DEFINE a == req[q].adjustment
  <2>1. a \in Adjustments
    BY <1>4, <1>t, UsersOnly, UserShape DEF Expire
  <2>2. /\ \A b \in Adjustments : current'[b] \in {0, current[b]}
        /\ \A d \in Distributions : dist'[d] = dist[d] \/ dist[d] = "pending"
    BY <1>4, <2>1, <1>t DEF Expire, SrsTypes, Become, Owed
  <2> QED  BY <2>2
<1>5. ASSUME NEW q \in Requests, Attach(q) PROVE Final
  <2> DEFINE a == req[q].adjustment
  <2>1. a \in Adjustments /\ req[q].at = "attach"
    BY <1>5, <1>t, UsersOnly, UserShape DEF Attach
  <2>2. /\ dist' = dist /\ current[a] \in {0, req[q].version}
        /\ \A b \in Adjustments : b # a => current'[b] = current[b]
        /\ Writes(q, {a}, Done)
    BY <1>5, <2>1, <1>t DEF Attach, SrsTypes
  <2>3. suspect' = suspect \cup ({a} \cap overlapped[q])
    BY <2>1, <2>2, <1>t, WritesHistory
  <2>4. current[a] = 0 => a \in overlapped[q]
    BY <2>1, <2>2 DEF SrsInv, Reading
  <2> QED  BY <2>2, <2>3, <2>4
<1>6. ASSUME NEW q \in Requests, SrsStep(q) PROVE Final
  <2>1. \/ RecordAdjustment(q) \/ Distribute(q) \/ Expire(q) \/ Attach(q)
        \/ UNCHANGED <<current, dist>>
    BY <1>6 DEF SrsStep, Serve, AcknowledgeRead, Announce, ExpireRead, ExpireBegin, AttachRead,
                AttachRefused, adjustmentVars
  <2> QED  BY <2>1, <1>1, <1>2, <1>3, <1>4, <1>5
<1>7. CASE Quiet
  BY <1>7, <1>1 DEF Quiet, adjustmentVars
<1> QED  BY <1>6, <1>7, NextIsSrsOrQuiet

-------------------------------------------------------------------------------
(* The connector.                                                          *)

LEMMA DistributedStays ==
  ASSUME TypeInv, SrsInv, [Next]_vars, NEW d \in Distributions, dist[d] = "distributed"
  PROVE  dist'[d] = "distributed"
BY StepKeepsExpiry, AbsentAssumption DEF Statuses

\* The events that the loop and the pass hold.
LEMMA LoopHolds ==
  ASSUME TypeInv
  PROVE  /\ req[Loop].at \in {"done", "handle", "apply", "commit", "settle"} \cup Serving
         /\ req[Loop].at \in {"handle", "apply", "commit", "settle"} =>
              req[Loop].seq \in DOMAIN events /\ events[req[Loop].seq].dist \in Distributions
         /\ req[Loop].at \in {"apply", "commit"} => req[Loop] \in Handles(DOMAIN events)
         /\ req[Loop].at \in Serving =>
              /\ req[Loop].dist \in Distributions
              /\ req[Loop].then \in Handles(DOMAIN events)
              /\ req[Loop].failed \in Settles(DOMAIN events)
              /\ req[Loop].then.seq \in DOMAIN events
              /\ \A at \in Serving : LET n == [req[Loop] EXCEPT !.at = at] IN
                   n.at = at /\ n.dist = req[Loop].dist /\ n.then = req[Loop].then
                     /\ n.failed = req[Loop].failed
<1> DEFINE c == req[Loop]
<1>1. c \in LoopState(DOMAIN events)
  BY ConnectorStates DEF TypeInv
<1> HIDE DEF c
<1>2. \A s \in DOMAIN events : events[s].dist \in Distributions
  BY EventTypes DEF TypeInv
<1>3. c.at \in {"handle", "apply", "commit", "settle"} => c.seq \in DOMAIN events
  BY <1>1, LoopShape DEF Handles, Settles
<1>4. ASSUME c.at \in Serving
      PROVE  /\ c.dist \in Distributions
             /\ c.then \in Handles(DOMAIN events)
             /\ c.failed \in Settles(DOMAIN events)
             /\ c.then.seq \in DOMAIN events
             /\ \A at \in Serving : LET n == [c EXCEPT !.at = at] IN
                  n.at = at /\ n.dist = c.dist /\ n.then = c.then /\ n.failed = c.failed
  <2>1. c \in [at : Serving, dist : Distributions, target : {"vle"}, then : Handles(DOMAIN events),
               failed : Settles(DOMAIN events)]
    BY <1>1, <1>4, LoopShape
  <2>2. c.then \in Handles(DOMAIN events) /\ c.failed \in Settles(DOMAIN events) /\ c.dist \in Distributions
    BY <2>1
  <2>3. c.then.seq \in DOMAIN events
    BY <2>2 DEF Handles
  <2> QED  BY <2>1, <2>2, <2>3
<1> QED  BY <1>1, <1>2, <1>3, <1>4, LoopShape DEF c

LEMMA PassHolds ==
  ASSUME TypeInv
  PROVE  /\ req[Pass].at \in {"done", "rows", "mark"} \cup Serving
         /\ req[Pass].at = "done" => req[Pass] = Done
         /\ req[Pass].at = "rows" => req[Pass].rows \subseteq Distributions
         /\ req[Pass].at = "mark" =>
              req[Pass].dist \in Distributions /\ req[Pass].next \in Remaining
         /\ req[Pass].at \in Serving =>
              /\ req[Pass].dist \in Distributions
              /\ req[Pass].then \in Marking
              /\ req[Pass].failed \in Remaining
              /\ \A at \in Serving : LET n == [req[Pass] EXCEPT !.at = at] IN
                   n.at = at /\ n.dist = req[Pass].dist /\ n.then = req[Pass].then
                     /\ n.failed = req[Pass].failed
<1> DEFINE c == req[Pass]
<1>1. c \in PassState
  BY ConnectorStates DEF TypeInv
<1> HIDE DEF c
<1>2. c.at = "mark" => c.dist \in Distributions /\ c.next \in Remaining
  BY <1>1, PassShape DEF Marking
<1>3. ASSUME c.at \in Serving
      PROVE  /\ c.dist \in Distributions /\ c.then \in Marking /\ c.failed \in Remaining
             /\ \A at \in Serving : LET n == [c EXCEPT !.at = at] IN
                  n.at = at /\ n.dist = c.dist /\ n.then = c.then /\ n.failed = c.failed
  <2>1. c \in [at : Serving, dist : Distributions, target : {"vle"}, then : Marking,
               failed : Remaining]
    BY <1>1, <1>3, PassShape
  <2> QED  BY <2>1
<1>4. c.at = "rows" => c.rows \subseteq Distributions
  BY <1>1, PassShape
<1> QED  BY <1>1, <1>2, <1>3, <1>4, PassShape DEF c

LEMMA RemainingRows ==
  ASSUME NEW c \in Remaining
  PROVE  /\ Ahead(c) = RowsOf(c) /\ c.at \notin {"mark"} \cup Serving
         /\ RowsOf(c) \subseteq Distributions
BY DEF Remaining, Ahead, RowsOf, Done, Serving

LEMMA NextRowOf ==
  ASSUME NEW rows \in SUBSET Distributions
  PROVE  NextRow(rows) \in Remaining /\ RowsOf(NextRow(rows)) = rows
<1>1. [at |-> "rows", rows |-> rows] # Done
  BY DEF Done
<1> QED  BY <1>1 DEF NextRow, Remaining, RowsOf

LEMMA InitConnector == Init => ConnectorInv
<1> SUFFICES ASSUME Init PROVE ConnectorInv
  OBVIOUS
<1>1. req[Loop] = Done /\ req[Pass] = Done
  BY ConnectorAssumption DEF Init, Users, Connector
<1>2. vle = {} /\ row = [d \in Distributions |-> Absent]
  BY DEF Init, FlowInit
<1>3. LoopFits
  BY <1>1 DEF LoopFits, InHand, Serving, Done
<1>4. PassFits
  BY <1>1 DEF PassFits, Ahead, RowsOf, Serving, Done
<1> QED  BY <1>2, <1>3, <1>4, AbsentAssumption DEF ConnectorInv

\* The loop has nothing in hand.
LEMMA LoopIdle ==
  ASSUME req'[Loop].at \in {"done", "handle", "settle"}
         \/ (req'[Loop].at = "commit" /\ ~req'[Loop].writes)
  PROVE  LoopFits'
BY DEF LoopFits, InHand, Serving

\* The loop waits.
LEMMA LoopStays ==
  ASSUME TypeInv, LoopFits, req'[Loop] = req[Loop],
         \A s \in DOMAIN events : events'[s].dist = events[s].dist,
         UNCHANGED config, vle \subseteq vle',
         \A d \in Distributions : dist[d] = "distributed" => dist'[d] = "distributed",
         \A d \in Distributions : row'[d] = row[d] \/ canAck
  PROVE  LoopFits'
<1> DEFINE c == req[Loop]
<1>1. canAck' = canAck /\ canApply' = canApply
  BY DEF config
<1>2. \A d \in Distributions : InHand(d)' => InHand(d)
  BY LoopHolds DEF InHand
<1>3. c.at \in Serving => events'[c.then.seq].dist = c.dist
  BY LoopHolds DEF LoopFits
<1>4. c.at = "apply" => c.writes
  BY DEF LoopFits
<1>5. c.at \in Serving => canAck /\ c.then.at = "commit" /\ c.then.writes
  BY DEF LoopFits
<1>6. ASSUME NEW d \in Distributions, InHand(d)'
      PROVE  /\ TargetOf[d] = "vle" /\ dist'[d] = "distributed"
             /\ c.at # "apply" /\ canApply => d \in vle'
             /\ canAck \/ row'[d] # "acknowledged"
  BY <1>2, <1>6 DEF LoopFits
<1> QED  BY <1>1, <1>3, <1>4, <1>5, <1>6 DEF LoopFits

LEMMA PassStays ==
  ASSUME PassFits, TypeInv, req'[Pass] = req[Pass], canAck' = canAck, faults' \in {faults, faults + 1},
         \A d \in Distributions : row[d] # Absent => row'[d] # Absent
  PROVE  PassFits'
<1> DEFINE c == req[Pass]
<1>1. faults \in Nat
  BY DEF TypeInv, ConnectorTypes
<1>2. Ahead(c) \subseteq Distributions
  <2>1. ASSUME NEW m \in Remaining PROVE RowsOf(m) \subseteq Distributions
    BY RemainingRows
  <2> QED  BY PassHolds, <2>1 DEF Ahead, RowsOf, Serving, Done
<1>3. c.at = "mark" => c.dist \in Distributions
  BY PassHolds
<1> QED  BY <1>1, <1>2, <1>3 DEF PassFits

LEMMA TablesStay ==
  ASSUME ConnectorInv, TypeInv, UNCHANGED <<vle, row, blind, canAck>>, faults' \in {faults, faults + 1},
         \A d \in Distributions : dist[d] = "distributed" => dist'[d] = "distributed"
  PROVE  /\ \A d \in vle' : dist'[d] = "distributed" /\ TargetOf[d] = "vle"
         /\ \A d \in Distributions : row'[d] # Absent => d \in vle' \cup blind'
         /\ \A d \in Distributions : canAck' /\ row'[d] = "applied" => faults' > 0
<1>1. faults \in Nat /\ vle \subseteq Distributions
  BY DEF TypeInv, ConnectorTypes
<1> QED  BY <1>1 DEF ConnectorInv

\* A step of the SRS, as the connector sees it.
LEMMA SrsStepIs ==
  ASSUME TypeInv, NEW q \in Requests, SrsStep(q)
  PROVE  /\ \A p \in Requests \ {q} : req'[p] = req[p]
         /\ UNCHANGED <<vle, row, ledger, blind, canApply, canAck>>
         /\ faults' \in {faults, faults + 1}
         /\ \A s \in DOMAIN events : s \in DOMAIN events' /\ events'[s] = events[s]
         /\ q \in Connector =>
              /\ req[q].at \in Serving
              /\ \/ req'[q] = req[q].then
                 \/ \E at \in Serving : req'[q] = [req[q] EXCEPT !.at = at]
<1>t. CallTypes /\ SrsTypes
  BY DEF TypeInv
<1>1. UNCHANGED <<vle, row, ledger, blind, canApply, canAck>> /\ faults' \in {faults, faults + 1}
  BY DEF SrsStep, connectorVars, config
<1>2. ASSUME NEW n, Reads(q, n) PROVE req'[q] = n /\ \A p \in Requests \ {q} : req'[p] = req[p]
  BY <1>2, <1>t, ReadsHistory
<1>3. ASSUME NEW n, NEW E, Writes(q, E, n) PROVE req'[q] = n /\ \A p \in Requests \ {q} : req'[p] = req[p]
  BY <1>3, <1>t DEF Writes, CallTypes
<1>4. ASSUME req[q].at \in {"recordAdjustment", "expireAdjustment", "attachOutcomeDocument", "close",
                           "closed", "attach"}
      PROVE  q \notin Connector
  BY <1>4, <1>t, UsersOnly DEF Connector
<1>5. CASE RecordAdjustment(q) \/ Expire(q) \/ Attach(q)
  <2>1. events' = events /\ \E n, E : Writes(q, E, n)
    BY <1>5 DEF RecordAdjustment, Expire, Attach
  <2>2. q \notin Connector
    BY <1>4, <1>5 DEF RecordAdjustment, Expire, Attach
  <2> QED  BY <1>1, <1>3, <2>1, <2>2
<1>6. CASE ExpireRead(q) \/ ExpireBegin(q) \/ AttachRead(q) \/ AttachRefused(q)
  <2>1. events' = events /\ \E n : Reads(q, n)
    BY <1>6 DEF ExpireRead, ExpireBegin, AttachRead, AttachRefused
  <2>2. q \notin Connector
    BY <1>4, <1>6 DEF ExpireRead, ExpireBegin, AttachRead, AttachRefused
  <2> QED  BY <1>1, <1>2, <2>1, <2>2
<1>7. CASE AcknowledgeRead(q)
  <2>1. /\ req[q].at \in Serving /\ events' = events
        /\ Reads(q, [req[q] EXCEPT !.at = "distribute"]) \/ Reads(q, req[q].then)
    BY <1>7 DEF AcknowledgeRead, Serving
  <2>2. "distribute" \in Serving
    BY DEF Serving
  <2> QED  BY <1>1, <1>2, <2>1, <2>2
<1>8. CASE Distribute(q)
  <2>1. /\ req[q].at \in Serving /\ events' = events
        /\ Writes(q, {req[q].dist}, [req[q] EXCEPT !.at = "announce"])
    BY <1>8 DEF Distribute, Serving
  <2>2. "announce" \in Serving
    BY DEF Serving
  <2> QED  BY <1>1, <1>3, <2>1, <2>2
<1>9. CASE \E connected \in BOOLEAN : Announce(q, connected)
  <2>1. /\ req[q].at \in Serving /\ Reads(q, req[q].then)
        /\ events' = events \/ \E e : events' = Append(events, e)
    BY <1>9 DEF Announce, Serving
  <2>2. \A s \in DOMAIN events : s \in DOMAIN events' /\ events'[s] = events[s]
    <3>1. events \in Seq(Event)
      BY <1>t DEF SrsTypes
    <3>2. \A e : \A s \in DOMAIN events :
            s \in DOMAIN Append(events, e) /\ Append(events, e)[s] = events[s]
      BY <3>1
    <3> QED  BY <2>1, <3>2
  <2> QED  BY <1>1, <1>2, <2>1, <2>2
<1> QED  BY <1>5, <1>6, <1>7, <1>8, <1>9 DEF SrsStep, Serve

LEMMA LoopServed ==
  ASSUME TypeInv, LoopFits, req[Loop].at \in Serving,
         \/ req'[Loop] = req[Loop].then
         \/ \E at \in Serving : req'[Loop] = [req[Loop] EXCEPT !.at = at],
         \A s \in DOMAIN events : events'[s].dist = events[s].dist,
         UNCHANGED <<canApply, canAck, vle, row>>,
         \A d \in Distributions : dist[d] = "distributed" => dist'[d] = "distributed"
  PROVE  LoopFits'
<1> DEFINE c == req[Loop]
           m == req'[Loop]
<1>1. /\ c.dist \in Distributions /\ c.then.seq \in DOMAIN events
      /\ canAck /\ c.then.at = "commit" /\ c.then.writes
      /\ events[c.then.seq].dist = c.dist
  BY LoopHolds DEF LoopFits
<1>2. InHand(c.dist) /\ c.at # "apply"
  BY DEF InHand, Serving
<1>3. TargetOf[c.dist] = "vle" /\ dist'[c.dist] = "distributed" /\ (canApply => c.dist \in vle)
  BY <1>1, <1>2 DEF LoopFits
<1>4. CASE m = c.then
  <2>1. m.at = "commit" /\ m.writes /\ events'[m.seq].dist = c.dist
    BY <1>1, <1>4
  <2>2. \A d \in Distributions : InHand(d)' => d = c.dist
    BY <2>1 DEF InHand, Serving
  <2> QED  BY <2>1, <2>2, <1>1, <1>3 DEF LoopFits, Serving
<1>5. ASSUME NEW at \in Serving, m = [c EXCEPT !.at = at] PROVE LoopFits'
  <2>1. m.at \in Serving /\ m.at \notin {"apply", "commit"} /\ m.dist = c.dist /\ m.then = c.then
    BY <1>5, LoopHolds DEF Serving
  <2>2. \A d \in Distributions : InHand(d)' => d = c.dist
    BY <2>1 DEF InHand
  <2> QED  BY <2>1, <2>2, <1>1, <1>3 DEF LoopFits
<1> QED  BY <1>4, <1>5

LEMMA PassServed ==
  ASSUME TypeInv, PassFits, req[Pass].at \in Serving,
         \/ req'[Pass] \in {req[Pass].then, req[Pass].failed}
         \/ \E at \in Serving : req'[Pass] = [req[Pass] EXCEPT !.at = at],
         canAck' = canAck, faults' \in {faults, faults + 1}, row' = row
  PROVE  PassFits'
<1> DEFINE c == req[Pass]
           m == req'[Pass]
<1>1. faults' > 0 /\ canAck'
  <2>1. c # Done
    BY DEF Serving, Done
  <2> QED  BY <2>1 DEF PassFits, TypeInv, ConnectorTypes
<1>2. /\ c.then \in Marking /\ c.failed \in Remaining
      /\ c.then.dist = c.dist /\ c.then.next = c.failed /\ c.dist \notin RowsOf(c.failed)
      /\ row[c.dist] # Absent /\ \A d \in RowsOf(c.failed) : row[d] # Absent
  <2>1. Ahead(c) = {c.dist} \cup RowsOf(c.failed)
    BY DEF Ahead, Serving
  <2> QED  BY <2>1, PassHolds DEF PassFits
<1>3. CASE m = c.then
  <2>1. m.at = "mark" /\ m.dist = c.dist /\ m.next = c.failed
    BY <1>2, <1>3 DEF Marking
  <2>2. Ahead(m) = RowsOf(c.failed)
    BY <2>1 DEF Ahead
  <2> QED  BY <1>1, <1>2, <2>1, <2>2 DEF PassFits, Serving
<1>4. CASE m = c.failed
  <2>1. m.at \notin {"mark"} \cup Serving /\ Ahead(m) = RowsOf(c.failed)
    BY <1>2, <1>4, RemainingRows
  <2> QED  BY <1>1, <1>2, <2>1 DEF PassFits
<1>5. ASSUME NEW at \in Serving, m = [c EXCEPT !.at = at] PROVE PassFits'
  <2>1. m.at \in Serving /\ m.at # "mark" /\ m.dist = c.dist /\ m.then = c.then /\ m.failed = c.failed
    BY <1>5, PassHolds DEF Serving
  <2>2. Ahead(m) = {c.dist} \cup RowsOf(c.failed)
    BY <2>1 DEF Ahead
  <2> QED  BY <1>1, <1>2, <2>1, <2>2 DEF PassFits
<1> QED  BY <1>3, <1>4, <1>5

LEMMA NextConnector ==
  ASSUME TypeInv, SrsInv, ConnectorInv, [Next]_vars
  PROVE  ConnectorInv'
<1> DEFINE S == DOMAIN events
<1>t. CallTypes /\ SrsTypes /\ Loop \in Requests /\ Pass \in Requests /\ Loop # Pass
  BY ConnectorAssumption DEF TypeInv
<1>d. \A d \in Distributions : dist[d] = "distributed" => dist'[d] = "distributed"
  BY DistributedStays
<1>f. LoopFits /\ PassFits
  BY DEF ConnectorInv
<1>k. faults \in Nat /\ row \in [Distributions -> {"applied", "acknowledged", Absent}]
  BY DEF TypeInv, ConnectorTypes
<1>a. Absent # "applied" /\ Absent # "acknowledged"
  BY AbsentAssumption
<1>i. ASSUME UNCHANGED <<vle, row, blind, canAck>>, faults' \in {faults, faults + 1}, LoopFits', PassFits'
      PROVE  ConnectorInv'
  BY <1>i, <1>d, TablesStay DEF ConnectorInv
<1>l. ASSUME req'[Loop] = req[Loop], \A s \in S : events'[s].dist = events[s].dist,
             UNCHANGED config, UNCHANGED <<vle, row>>
      PROVE  LoopFits'
  BY <1>l, <1>d, <1>f, LoopStays
<1>p. ASSUME req'[Pass] = req[Pass], canAck' = canAck, faults' \in {faults, faults + 1}, row' = row
      PROVE  PassFits'
  BY <1>p, <1>f, PassStays
<1>n. ASSUME NEW q \in Requests, NEW n, Reads(q, n) PROVE req'[q] = n /\ \A p \in Requests \ {q} : req'[p] = req[p]
  BY <1>n, <1>t, ReadsHistory
<1>1. ASSUME NEW q \in Requests, SrsStep(q) PROVE ConnectorInv'
  <2>1. /\ \A p \in Requests \ {q} : req'[p] = req[p]
        /\ UNCHANGED <<vle, row, ledger, blind, canApply, canAck>>
        /\ faults' \in {faults, faults + 1}
        /\ \A s \in DOMAIN events : events'[s].dist = events[s].dist
        /\ q \in Connector =>
             /\ req[q].at \in Serving
             /\ \/ req'[q] = req[q].then
                \/ \E at \in Serving : req'[q] = [req[q] EXCEPT !.at = at]
    BY <1>1, SrsStepIs
  <2>2. LoopFits'
    <3>1. CASE q = Loop
      BY <2>1, <3>1, <1>d, <1>f, LoopServed DEF Connector
    <3>2. CASE q # Loop
      BY <2>1, <3>2, <1>l, <1>t DEF config
    <3> QED  BY <3>1, <3>2
  <2>3. PassFits'
    <3>1. CASE q = Pass
      BY <2>1, <3>1, <1>f, PassServed DEF Connector
    <3>2. CASE q # Pass
      BY <2>1, <3>2, <1>p, <1>t
    <3> QED  BY <3>1, <3>2
  <2> QED  BY <2>1, <2>2, <2>3, <1>i
<1>2. ASSUME NEW n, Reads(Loop, n), UNCHANGED <<vle, connectorVars, config, faults>>,
             n.at \in {"done", "handle", "settle"}
      PROVE  ConnectorInv'
  <2>1. req'[Loop] = n /\ req'[Pass] = req[Pass] /\ UNCHANGED <<vle, row, blind, canAck, faults>>
    BY <1>2, <1>n, <1>t DEF connectorVars, config
  <2> QED  BY <1>2, <2>1, <1>i, <1>p, LoopIdle
<1>3. ASSUME NEW s \in S, Deliver(s) PROVE ConnectorInv'
  BY <1>2, <1>3 DEF Deliver, Settling
<1>4. ASSUME Settle PROVE ConnectorInv'
  BY <1>2, <1>4 DEF Settle, Done
<1>5. ASSUME Examine PROVE ConnectorInv'
  <2> DEFINE s == req[Loop].seq
             d == events[s].dist
             n == [at |-> IF Skipped(d) THEN "commit" ELSE "apply", seq |-> s, writes |-> ~Skipped(d)]
  <2>1. d \in Distributions /\ s \in S
    BY <1>5, LoopHolds DEF Examine
  <2>2. req'[Loop] = n /\ req'[Pass] = req[Pass] /\ UNCHANGED <<vle, row, blind, canApply, canAck, faults, dist, events>>
    BY <1>5, <1>n, <1>t DEF Examine, connectorVars, config, srsVars, adjustmentVars
  <2>3. CASE Skipped(d)
    <3>0. ~Skipped(d) = FALSE
      BY <2>3
    <3>1. n.at = "commit" /\ n.writes = FALSE
      BY <2>3, <3>0
    <3> HIDE DEF n
    <3>2. LoopFits'
      BY <2>2, <3>1, LoopIdle
    <3> QED  BY <2>2, <3>2, <1>i, <1>p
  <2>4. CASE ~Skipped(d)
    <3>0. ~Skipped(d) = TRUE
      BY <2>4
    <3>1. n.at = "apply" /\ n.writes = TRUE /\ n.seq = s
      BY <2>4, <3>0
    <3> HIDE DEF n
    <3>2. \A x \in Distributions : InHand(x)' => x = d
      BY <2>2, <3>1 DEF InHand, Serving
    <3>a. req'[Loop].at = "apply" /\ req'[Loop].writes
      BY <2>2, <3>1
    <3>3. dist[d] = "distributed"
      BY <2>1 DEF SrsInv
    <3>4. TargetOf[d] = "vle" /\ row[d] # "acknowledged"
      BY <2>4 DEF Skipped
    <3> HIDE DEF d
    <3>5. LoopFits'
      BY <2>2, <3>a, <3>2, <3>3, <3>4 DEF LoopFits, Serving
    <3> QED  BY <2>2, <3>5, <1>i, <1>p
  <2> QED  BY <2>3, <2>4
<1>6. ASSUME Apply \/ AppliedUnanswered PROVE ConnectorInv'
  <2> DEFINE c == req[Loop]
             d == events[c.seq].dist
             h == [c EXCEPT !.at = "commit"]
             k == Acknowledge(d, "vle", h, Settling(c.seq, GivesUp(c.seq)))
  <2>1. c.at = "apply" /\ d \in Distributions /\ c \in Handles(S)
    BY <1>6, LoopHolds DEF Apply, AppliedUnanswered
  <2>2. /\ UNCHANGED <<row, blind, canApply, canAck, dist, events>> /\ req'[Pass] = req[Pass]
        /\ faults' \in {faults, faults + 1}
        /\ vle \subseteq vle' /\ vle' \subseteq vle \cup {d} /\ (canApply => d \in vle')
    BY <1>6, <1>n, <1>t DEF Apply, AppliedUnanswered, Fault, connectorVars, config, srsVars, adjustmentVars
  <2>3. c.writes /\ InHand(d)
    BY <2>1, <1>f DEF LoopFits, InHand
  <2>4. TargetOf[d] = "vle" /\ dist[d] = "distributed" /\ (canAck \/ row[d] # "acknowledged")
    BY <2>1, <2>3, <1>f DEF LoopFits
  <2>5. h.at = "commit" /\ h.seq = c.seq /\ h.writes
    BY <2>1, <2>3 DEF Handles
  <2>6. \/ req'[Loop].at = "settle"
        \/ canAck /\ req'[Loop] = k
        \/ ~canAck /\ req'[Loop] = h
    <3>1. CASE Apply
      BY <3>1, <1>n, <1>t DEF Apply, AfterApply
    <3>2. CASE AppliedUnanswered
      BY <3>2, <1>n, <1>t, <2>1, AfterFailureIs DEF AppliedUnanswered, Settling
    <3> QED  BY <1>6, <3>1, <3>2
  <2>k. k.at = "acknowledge" /\ k.dist = d /\ k.then = h
    BY DEF Acknowledge
  <2> HIDE DEF d, h, k
  <2>7. LoopFits'
    <3>1. CASE req'[Loop].at = "settle"
      BY <3>1, LoopIdle
    <3>2. CASE canAck /\ req'[Loop] = k
      <4>1. \A x \in Distributions : InHand(x)' => x = d
        BY <3>2, <2>k DEF InHand
      <4>2. events'[h.seq].dist = d
        BY <2>2, <2>5 DEF d
      <4> QED  BY <4>1, <4>2, <3>2, <2>k, <2>2, <2>4, <2>5 DEF LoopFits
    <3>3. CASE ~canAck /\ req'[Loop] = h
      <4>2. events'[h.seq].dist = d
        BY <2>2, <2>5 DEF d
      <4>1. \A x \in Distributions : InHand(x)' => x = d
        BY <3>3, <2>5, <4>2 DEF InHand, Serving
      <4> QED  BY <4>1, <4>2, <3>3, <2>2, <2>4, <2>5 DEF LoopFits, Serving
    <3> QED  BY <2>6, <3>1, <3>2, <3>3
  <2>8. PassFits'
    BY <2>2, <1>p
  <2>9. \A x \in vle' : dist'[x] = "distributed" /\ TargetOf[x] = "vle"
    BY <2>2, <2>4 DEF ConnectorInv
  <2>10. \A x \in Distributions : row'[x] # Absent => x \in vle' \cup blind'
    BY <2>2 DEF ConnectorInv
  <2>11. \A x \in Distributions : canAck' /\ row'[x] = "applied" => faults' > 0
    BY <2>2, <1>k DEF ConnectorInv
  <2> QED  BY <2>7, <2>8, <2>9, <2>10, <2>11 DEF ConnectorInv
<1>7. ASSUME Commit PROVE ConnectorInv'
  <2> DEFINE c == req[Loop]
             d == events[c.seq].dist
  <2>1. c.at = "commit" /\ d \in Distributions
    BY <1>7, LoopHolds DEF Commit
  <2>2. /\ UNCHANGED <<vle, canApply, canAck, faults, dist>> /\ req'[Pass] = req[Pass]
        /\ req'[Loop].at = "settle"
        /\ row' = IF c.writes THEN [row EXCEPT ![d] = RowStatus] ELSE row
        /\ blind' = IF c.writes /\ ~canApply THEN blind \cup {d} ELSE blind
    BY <1>7, <1>n, <1>t DEF Commit, Settling, config, srsVars, adjustmentVars
  <2>3. c.writes /\ canApply => d \in vle
    BY <2>1, <1>f DEF LoopFits, InHand
  <2> HIDE DEF d
  <2>4. \A x \in Distributions : row'[x] = IF c.writes /\ x = d THEN RowStatus ELSE row[x]
    BY <2>1, <2>2, <1>k
  <2>5. RowStatus # Absent /\ (canAck => RowStatus = "acknowledged")
    BY <1>a DEF RowStatus
  <2>6. LoopFits'
    BY <2>2, LoopIdle
  <2>7. PassFits'
    BY <2>2, <2>4, <2>5, <1>f, PassStays
  <2>8. \A x \in Distributions : row'[x] # Absent => x \in vle' \cup blind'
    BY <2>2, <2>3, <2>4 DEF ConnectorInv
  <2>9. \A x \in Distributions : canAck' /\ row'[x] = "applied" => faults' > 0
    BY <2>2, <2>4, <2>5 DEF ConnectorInv
  <2>10. \A x \in vle' : dist'[x] = "distributed" /\ TargetOf[x] = "vle"
    BY <2>2 DEF ConnectorInv
  <2> QED  BY <2>6, <2>7, <2>8, <2>9, <2>10 DEF ConnectorInv
<1>8. ASSUME PassRead PROVE ConnectorInv'
  <2>1. Drifted \subseteq Distributions /\ \A d \in Drifted : row[d] = "applied"
    BY DEF Drifted
  <2>2. /\ req'[Pass] = NextRow(Drifted) /\ req'[Loop] = req[Loop] /\ canAck /\ Drifted # {}
        /\ UNCHANGED <<vle, row, blind, config, faults, events>> /\ canAck' = canAck
    BY <1>8, <1>n, <1>t DEF PassRead, connectorVars, config, srsVars
  <2>3. /\ req'[Pass].at \notin {"mark"} \cup Serving
        /\ Ahead(req'[Pass]) = Drifted
    BY <2>1, <2>2, NextRowOf, RemainingRows
  <2>4. faults > 0
    BY <2>1, <2>2 DEF ConnectorInv
  <2>5. PassFits'
    BY <2>1, <2>2, <2>3, <2>4, <1>a DEF PassFits
  <2>6. LoopFits'
    BY <2>2, <1>l
  <2> QED  BY <2>2, <2>5, <2>6, <1>i
<1>9. ASSUME NEW d \in Distributions, PassAcknowledge(d) PROVE ConnectorInv'
  <2> DEFINE c == req[Pass]
             rest == NextRow(c.rows \ {d})
             mark == [at |-> "mark", dist |-> d, next |-> rest]
             k == Acknowledge(d, "vle", mark, rest)
  <2>1. c.at = "rows" /\ c.rows \subseteq Distributions /\ d \in c.rows
    BY <1>9, PassHolds DEF PassAcknowledge
  <2>2. /\ req'[Pass] = k /\ req'[Loop] = req[Loop]
        /\ UNCHANGED <<vle, row, blind, config, faults, events>> /\ canAck' = canAck
    BY <1>9, <1>n, <1>t DEF PassAcknowledge, connectorVars, config, srsVars
  <2>3. c # Done /\ Ahead(c) = c.rows
    BY <2>1 DEF Ahead, RowsOf, Serving, Done
  <2>4. RowsOf(rest) = c.rows \ {d}
    BY <2>1, NextRowOf
  <2> HIDE DEF rest
  <2>5. k.at = "acknowledge" /\ k.dist = d /\ k.then.dist = d /\ k.then.next = rest /\ k.failed = rest
    BY DEF Acknowledge
  <2> HIDE DEF k
  <2>6. Ahead(k) = {d} \cup RowsOf(rest)
    BY <2>5 DEF Ahead, Serving
  <2>7. PassFits'
    BY <2>1, <2>2, <2>3, <2>4, <2>5, <2>6, <1>f DEF PassFits
  <2>8. LoopFits'
    BY <2>2, <1>l
  <2> QED  BY <2>2, <2>7, <2>8, <1>i
<1>10. ASSUME PassMark PROVE ConnectorInv'
  <2> DEFINE c == req[Pass]
  <2>1. c.at = "mark" /\ c.dist \in Distributions /\ c.next \in Remaining
    BY <1>10, PassHolds DEF PassMark
  <2>2. /\ req'[Pass] = c.next /\ req'[Loop] = req[Loop]
        /\ row' = [row EXCEPT ![c.dist] = "acknowledged"]
        /\ UNCHANGED <<vle, blind, config, faults, events>> /\ canAck' = canAck
    BY <1>10, <1>n, <1>t DEF PassMark, config, srsVars
  <2>3. c # Done /\ canAck /\ faults > 0 /\ row[c.dist] # Absent
    BY <2>1, <1>f DEF PassFits, Done
  <2>4. \A d \in Distributions : row'[d] = IF d = c.dist THEN "acknowledged" ELSE row[d]
    BY <2>1, <2>2, <1>k
  <2>5. PassFits'
    <3>1. Ahead(c.next) = Ahead(c) /\ c.next.at \notin {"mark"} \cup Serving
          /\ Ahead(c) \subseteq Distributions
      BY <2>1, RemainingRows DEF Ahead
    <3>2. \A d \in Ahead(c) : row[d] # Absent
      BY <1>f DEF PassFits
    <3> QED  BY <3>1, <3>2, <2>2, <2>3, <2>4, <1>a DEF PassFits
  <2>6. LoopFits'
    BY <2>2, <2>3, <1>d, <1>f, LoopStays
  <2>7. \A d \in Distributions : row'[d] # Absent => d \in vle' \cup blind'
    BY <2>2, <2>3, <2>4 DEF ConnectorInv
  <2>8. \A d \in Distributions : canAck' /\ row'[d] = "applied" => faults' > 0
    BY <2>2, <2>3
  <2>9. \A d \in vle' : dist'[d] = "distributed" /\ TargetOf[d] = "vle"
    <3>1. vle \subseteq Distributions
      BY DEF TypeInv, ConnectorTypes
    <3> QED  BY <3>1, <2>2, <1>d DEF ConnectorInv
  <2> QED  BY <2>5, <2>6, <2>7, <2>8, <2>9 DEF ConnectorInv
<1>11. ASSUME NEW q \in Connector, Throws(q) PROVE ConnectorInv'
  <2>1. /\ req'[q] = AfterFailure(req[q]) /\ \A p \in Requests \ {q} : req'[p] = req[p]
        /\ UNCHANGED <<vle, row, blind, canApply, canAck, events>> /\ faults' = faults + 1
        /\ req[q].at \notin {"done", "settle", "rows"}
    BY <1>11, <1>n, <1>t DEF Throws, Fault, Connector, connectorVars, config, srsVars
  <2>2. CASE q = Loop
    <3>1. req'[Loop].at = "settle"
      <4>1. CASE req[Loop].at \in Serving
        BY <4>1, <2>1, <2>2, LoopHolds, AfterFailureIs DEF Settles
      <4>2. CASE req[Loop].at \in {"handle", "apply", "commit"}
        BY <4>2, <2>1, <2>2, AfterFailureIs DEF Settling
      <4> QED  BY <4>1, <4>2, <2>1, <2>2, LoopHolds
    <3>2. LoopFits' /\ PassFits'
      BY <3>1, <2>1, <2>2, LoopIdle, <1>p, <1>t
    <3> QED  BY <2>1, <3>2, <1>i
  <2>3. CASE q = Pass
    <3>1. LoopFits'
      BY <2>1, <2>3, <1>l, <1>t DEF config
    <3>2. CASE req[Pass].at \in Serving
      <4>1. PassFits'
        BY <3>2, <2>1, <2>3, <1>f, AfterFailureIs, PassServed
      <4> QED  BY <4>1, <3>1, <2>1, <1>i
    <3>3. CASE req[Pass].at = "mark"
      <4>1. /\ req[Pass].next \in Remaining /\ req'[Pass] = req[Pass].next
            /\ req[Pass] # Done
        BY <3>3, <2>1, <2>3, PassHolds, AfterFailureIs DEF Done
      <4>2. Ahead(req'[Pass]) = Ahead(req[Pass]) /\ req'[Pass].at \notin {"mark"} \cup Serving
        BY <3>3, <4>1, RemainingRows DEF Ahead
      <4>3. PassFits'
        BY <4>1, <4>2, <2>1, <1>f, <1>k DEF PassFits
      <4> QED  BY <4>3, <3>1, <2>1, <1>i
    <3> QED  BY <3>2, <3>3, <2>1, <2>3, PassHolds
  <2> QED  BY <2>2, <2>3 DEF Connector
<1>12. ASSUME AckLost PROVE ConnectorInv'
  <2>1. /\ req'[Loop] = Done /\ req'[Pass] = req[Pass] /\ faults' = faults + 1
        /\ UNCHANGED <<vle, row, blind, canAck>>
    BY <1>12, <1>n, <1>t DEF AckLost, Fault, connectorVars, config
  <2>2. LoopFits' /\ PassFits'
    BY <2>1, LoopIdle, <1>p DEF Done
  <2> QED  BY <2>1, <2>2, <1>i
<1>13. ASSUME Crash PROVE ConnectorInv'
  <2>1. /\ req'[Loop] = Done /\ req'[Pass] = Done /\ faults' = faults + 1
        /\ UNCHANGED <<vle, row, blind, dist>>
    BY <1>13, <1>t DEF Crash, Fault, Connector, connectorVars, srsVars, adjustmentVars
  <2>2. LoopFits'
    BY <2>1, LoopIdle DEF Done
  <2>3. PassFits'
    BY <2>1 DEF PassFits, Ahead, RowsOf, Serving, Done
  <2>4. \A d \in Distributions : canAck' /\ row'[d] = "applied" => faults' > 0
    BY <2>1, <1>k
  <2>5. /\ \A d \in vle' : dist'[d] = "distributed" /\ TargetOf[d] = "vle"
        /\ \A d \in Distributions : row'[d] # Absent => d \in vle' \cup blind'
    BY <2>1 DEF ConnectorInv
  <2> QED  BY <2>2, <2>3, <2>4, <2>5 DEF ConnectorInv
<1>14. ASSUME req'[Loop] = req[Loop], req'[Pass] = req[Pass], UNCHANGED flowVars PROVE ConnectorInv'
  <2>1. UNCHANGED <<vle, row, blind, canAck, config, faults, events>>
    BY <1>14 DEF flowVars, connectorVars, config, srsVars
  <2> QED  BY <1>14, <2>1, <1>i, <1>l, <1>p
<1>15. ASSUME NEW q \in Users, SubmitStep(q) \/ (Fail(q) /\ MarkFails(q)), UNCHANGED flowVars PROVE ConnectorInv'
  <2>1. \E n, E : Reads(q, n) \/ Writes(q, E, n)
    BY <1>15 DEF SubmitStep, ReadReceipt, IngestMark, StoreReceipt, Fail
  <2>2. q # Loop /\ q # Pass
    BY DEF Users, Connector
  <2>3. req'[Loop] = req[Loop] /\ req'[Pass] = req[Pass]
    BY <2>1, <2>2, <1>t DEF Reads, Writes, CallTypes
  <2> QED  BY <2>3, <1>14, <1>15
<1>16. CASE UNCHANGED vars
  BY <1>14, <1>16 DEF vars, callVars
<1> QED  BY <1>1, <1>3, <1>4, <1>5, <1>6, <1>7, <1>8, <1>9, <1>10, <1>11, <1>12, <1>13, <1>15, <1>16, StepCases

-------------------------------------------------------------------------------
(* The echo.                                                               *)

LEMMA CausedSome ==
  ASSUME TypeInv, NEW q, NEW d
  PROVE  /\ IsFiniteSet({s \in DOMAIN events : events[s].dist = d /\ events[s].by = q})
         /\ Caused(q, d) \in Nat
<1> DEFINE C == {s \in DOMAIN events : events[s].dist = d /\ events[s].by = q}
<1>1. DOMAIN events = 1..Len(events) /\ Len(events) \in Nat
  BY EventTypes DEF TypeInv
<1>2. IsFiniteSet(1..Len(events))
  BY <1>1, FS_Interval
<1>3. C \subseteq 1..Len(events)
  BY <1>1
<1> HIDE DEF C
<1>4. IsFiniteSet(C) /\ Cardinality(C) \in Nat
  BY <1>2, <1>3, FS_Subset, FS_CardinalityType
<1> QED  BY <1>4 DEF Caused, C

LEMMA CausedStays ==
  ASSUME DOMAIN events' = DOMAIN events, NEW q, NEW d,
         \A s \in DOMAIN events : events'[s].dist = events[s].dist /\ events'[s].by = events[s].by
  PROVE  Caused(q, d)' = Caused(q, d)
<1>1. {s \in DOMAIN events : events[s].dist = d /\ events[s].by = q}
        = {s \in DOMAIN events' : events'[s].dist = d /\ events'[s].by = q}
  OBVIOUS
<1> QED  BY <1>1 DEF Caused

LEMMA CausedAnother ==
  ASSUME TypeInv, NEW q, NEW d, NEW e, events' = Append(events, e)
  PROVE  /\ e.dist = d /\ e.by = q => Caused(q, d)' = Caused(q, d) + 1
         /\ e.dist # d \/ e.by # q => Caused(q, d)' = Caused(q, d)
<1> DEFINE C == {s \in DOMAIN events : events[s].dist = d /\ events[s].by = q}
           D == {s \in DOMAIN events' : events'[s].dist = d /\ events'[s].by = q}
           last == Len(events) + 1
<1>1. DOMAIN events = 1..Len(events) /\ Len(events) \in Nat
  BY EventTypes DEF TypeInv
<1>2. /\ DOMAIN events' = DOMAIN events \cup {last} /\ last \notin DOMAIN events
      /\ events'[last] = e /\ \A s \in DOMAIN events : events'[s] = events[s]
  <2>1. events \in Seq(Event)
    BY DEF TypeInv, SrsTypes
  <2> QED  BY <1>1, <2>1
<1>3. IsFiniteSet(C) /\ Cardinality(C) \in Nat
  BY CausedSome DEF Caused
<1>4. CASE e.dist = d /\ e.by = q
  <2>1. D = C \cup {last} /\ last \notin C
    BY <1>2, <1>4
  <2> HIDE DEF C, D
  <2>2. Cardinality(D) = Cardinality(C) + 1
    BY <2>1, <1>3, FS_AddElement
  <2> QED  BY <1>4, <2>2 DEF Caused, C, D
<1>5. CASE e.dist # d \/ e.by # q
  <2>1. D = C
    BY <1>2, <1>5
  <2> HIDE DEF C, D
  <2> QED  BY <1>5, <2>1 DEF Caused, C, D
<1> QED  BY <1>4, <1>5

LEMMA InitEcho == Init => EchoInv
<1> SUFFICES ASSUME Init PROVE EchoInv
  OBVIOUS
<1>1. events = <<>> /\ faults \in Nat
  BY ScenariosAssumption DEF Init, FlowInit
<1>2. ASSUME NEW q, NEW d PROVE Caused(q, d) = 0
  <2>1. {s \in DOMAIN events : events[s].dist = d /\ events[s].by = q} = {}
    BY <1>1
  <2> QED  BY <2>1, FS_EmptySet DEF Caused
<1> QED  BY <1>1, <1>2 DEF EchoInv

\* A fault leaves room for one more event of each.
LEMMA EchoAfterFault ==
  ASSUME TypeInv, EchoInv, faults' = faults + 1,
         \A q \in Connector, d \in Distributions : Caused(q, d)' = Caused(q, d)
  PROVE  EchoInv'
<1>1. faults \in Nat
  BY DEF TypeInv, ConnectorTypes
<1>2. ASSUME NEW d \in Distributions
      PROVE  /\ Caused(Loop, d)' <= faults' /\ Caused(Loop, d)' <= faults' + 1
             /\ Caused(Pass, d)' <= faults' /\ Caused(Pass, d)' + 1 <= faults'
  <2>1. Caused(Loop, d)' = Caused(Loop, d) /\ Caused(Pass, d)' = Caused(Pass, d)
    BY DEF Connector
  <2>2. Caused(Loop, d) <= faults + 1 /\ Caused(Pass, d) <= faults
    BY DEF EchoInv
  <2>3. Caused(Loop, d) \in Nat /\ Caused(Pass, d) \in Nat
    BY CausedSome
  <2> QED  BY <1>1, <2>1, <2>2, <2>3
<1> QED  BY <1>2 DEF EchoInv

LEMMA EchoKept ==
  ASSUME EchoInv, faults' = faults,
         \A q \in Connector, d \in Distributions : Caused(q, d)' = Caused(q, d),
         \A d \in Distributions : LoopSpent(d) => LoopSpent(d)',
         \A d \in Distributions : PassSpent(d) => PassSpent(d)'
  PROVE  EchoInv'
BY DEF EchoInv, Connector

LEMMA LoopSpentStays ==
  ASSUME TypeInv, req'[Loop] = req[Loop], canAck' = canAck,
         \A s \in DOMAIN events : events'[s].dist = events[s].dist,
         NEW d \in Distributions, row[d] = "acknowledged" => row'[d] = "acknowledged"
  PROVE  LoopSpent(d) => LoopSpent(d)'
<1>1. InHand(d)' <=> InHand(d)
  BY LoopHolds DEF InHand
<1> QED  BY <1>1 DEF LoopSpent

LEMMA PassSpentStays ==
  ASSUME req'[Pass] = req[Pass],
         NEW d \in Distributions, row[d] = "acknowledged" => row'[d] = "acknowledged"
  PROVE  PassSpent(d) => PassSpent(d)'
BY DEF PassSpent

\* The SRS publishes an event, or serves another transaction.
LEMMA SrsKeepsEcho ==
  ASSUME TypeInv, ConnectorInv, EchoInv, NEW q \in Requests, SrsStep(q)
  PROVE  EchoInv'
<1> DEFINE c == req[q]
<1>t. CallTypes /\ SrsTypes /\ Loop # Pass /\ faults \in Nat
  BY ConnectorAssumption DEF TypeInv, ConnectorTypes
<1>1. /\ \A p \in Requests \ {q} : req'[p] = req[p]
      /\ row' = row /\ canAck' = canAck /\ faults' \in {faults, faults + 1}
      /\ \A s \in DOMAIN events : events'[s] = events[s]
      /\ q \in Connector =>
           /\ c.at \in Serving
           /\ \/ req'[q] = c.then
              \/ \E at \in Serving : req'[q] = [c EXCEPT !.at = at]
  BY SrsStepIs
<1>2. ASSUME NEW d \in Distributions, LoopSpent(d) PROVE LoopSpent(d)'
  <2>1. CASE q # Loop
    <3>1. req'[Loop] = req[Loop]
      BY <1>1, <2>1, ConnectorAssumption
    <3> QED  BY <1>1, <1>2, <3>1, LoopSpentStays
  <2>2. CASE q = Loop
    <3>1. c.at \in Serving /\ c.at # "commit"
      BY <1>1, <2>2 DEF Connector, Serving
    <3>2. row[d] = "acknowledged" /\ c.dist # d
      BY <1>2, <3>1, <2>2 DEF LoopSpent, InHand
    <3>3. InHand(d)' => ~(req'[Loop].at \in {"apply"} \cup Serving)
      <4>1. c.then.at = "commit"
        BY <3>1, <2>2 DEF ConnectorInv, LoopFits
      <4>2. \A at \in Serving : [c EXCEPT !.at = at].at = at /\ [c EXCEPT !.at = at].dist = c.dist
        BY <3>1, <2>2, LoopHolds
      <4>3. CASE req'[Loop] = c.then
        BY <4>1, <4>3 DEF Serving
      <4>4. ASSUME NEW at \in Serving, req'[Loop] = [c EXCEPT !.at = at] PROVE ~InHand(d)'
        BY <4>2, <4>4, <3>2 DEF InHand, Serving
      <4> QED  BY <4>3, <4>4, <1>1, <2>2 DEF Connector
    <3> QED  BY <1>1, <3>2, <3>3 DEF LoopSpent
  <2> QED  BY <2>1, <2>2
<1>3. ASSUME NEW d \in Distributions, PassSpent(d) PROVE PassSpent(d)'
  <2>1. CASE q # Pass
    <3>1. req'[Pass] = req[Pass]
      BY <1>1, <2>1, ConnectorAssumption
    <3> QED  BY <1>1, <1>3, <3>1, PassSpentStays
  <2>2. CASE q = Pass
    <3>1. c.at \in Serving /\ c.at # "mark"
      BY <1>1, <2>2 DEF Connector, Serving
    <3>2. row[d] = "acknowledged" /\ d \notin {c.dist} \cup RowsOf(c.failed)
      BY <1>3, <3>1, <2>2 DEF PassSpent, Ahead
    <3>3. c.then.at = "mark" /\ c.then.next = c.failed
      BY <3>1, <2>2, PassHolds DEF ConnectorInv, PassFits, Marking
    <3>4. \A at \in Serving : LET n == [c EXCEPT !.at = at] IN
            n.at = at /\ n.dist = c.dist /\ n.failed = c.failed
      BY <3>1, <2>2, PassHolds
    <3>5. Ahead(c.then) = RowsOf(c.failed)
      BY <3>3 DEF Ahead
    <3>6. \A at \in Serving : Ahead([c EXCEPT !.at = at]) = {c.dist} \cup RowsOf(c.failed)
      BY <3>4 DEF Ahead, Serving
    <3>7. d \notin Ahead(req'[Pass])
      BY <3>2, <3>5, <3>6, <1>1, <2>2 DEF Connector
    <3> QED  BY <1>1, <3>2, <3>7 DEF PassSpent
  <2> QED  BY <2>1, <2>2
<1>4. CASE events' = events
  <2>1. \A p \in Connector, d \in Distributions : Caused(p, d)' = Caused(p, d)
    BY <1>4, CausedStays
  <2>2. CASE faults' = faults
    BY <2>1, <2>2, <1>2, <1>3, EchoKept
  <2>3. CASE faults' = faults + 1
    BY <2>1, <2>3, EchoAfterFault
  <2> QED  BY <1>1, <2>2, <2>3
<1>5. CASE Announce(q, TRUE)
  <2> DEFINE e == [dist |-> c.dist, by |-> q, deliveries |-> 0, acked |-> FALSE]
  <2>1. events' = Append(events, e) /\ c.at \in Serving /\ req'[q] = c.then
    BY <1>5, <1>t, ReadsHistory DEF Announce, Serving
  <2>2. e.dist = c.dist /\ e.by = q
    OBVIOUS
  <2> HIDE DEF e
  <2>3. c.dist \in Distributions
    BY <2>1, <1>t, ServingShape DEF CallTypes
  <2> PICK x \in Distributions : x = c.dist
    BY <2>3
  <2>4. \A p \in Connector, d \in Distributions : p # q \/ d # x => Caused(p, d)' = Caused(p, d)
    BY <2>1, <2>2, CausedAnother
  <2>5. Caused(q, x)' = Caused(q, x) + 1
    BY <2>1, <2>2, CausedAnother
  <2>6. Caused(Loop, x) \in Nat /\ Caused(Pass, x) \in Nat
    BY CausedSome
  <2>7. CASE q = Loop
    <3>1. ~LoopSpent(x)
      BY <2>1, <2>7 DEF LoopSpent, InHand, Serving
    <3>2. Caused(Loop, x) <= faults
      BY <2>3, <3>1 DEF EchoInv
    <3>3. LoopSpent(x)'
      <4>1. /\ c.then.at = "commit" /\ c.then.writes /\ canAck
            /\ events[c.then.seq].dist = c.dist /\ c.then.seq \in DOMAIN events
        BY <2>1, <2>7, LoopHolds DEF ConnectorInv, LoopFits
      <4> QED  BY <4>1, <2>1, <2>7, <1>1 DEF LoopSpent, InHand
    <3>4. Caused(Loop, x)' <= faults' + 1
      BY <1>1, <1>t, <2>5, <2>6, <2>7, <3>2
    <3>5. ASSUME NEW d \in Distributions
          PROVE  /\ Caused(Loop, d)' <= faults' + 1
                 /\ LoopSpent(d)' \/ Caused(Loop, d)' <= faults'
                 /\ Caused(Pass, d)' <= faults'
                 /\ PassSpent(d)' \/ Caused(Pass, d)' = 0 \/ Caused(Pass, d)' + 1 <= faults'
      <4>1. Caused(Pass, d)' = Caused(Pass, d) /\ (d # x => Caused(Loop, d)' = Caused(Loop, d))
        BY <2>4, <2>7, <1>t DEF Connector
      <4>2. Caused(Loop, d) \in Nat /\ Caused(Pass, d) \in Nat
        BY CausedSome
      <4>3. /\ Caused(Loop, d) <= faults + 1
            /\ LoopSpent(d)' \/ Caused(Loop, d) <= faults
            /\ Caused(Pass, d) <= faults
            /\ PassSpent(d)' \/ Caused(Pass, d) = 0 \/ Caused(Pass, d) + 1 <= faults
        BY <1>2, <1>3 DEF EchoInv
      <4>4. CASE d = x
        <5>1. Caused(Loop, d)' <= faults' + 1 /\ LoopSpent(d)'
          BY <4>4, <3>3, <3>4
        <5> QED  BY <5>1, <4>1, <4>2, <4>3, <1>1, <1>t
      <4>5. CASE d # x
        BY <4>5, <4>1, <4>2, <4>3, <1>1, <1>t
      <4> QED  BY <4>4, <4>5
    <3> QED  BY <3>5 DEF EchoInv
  <2>8. CASE q = Pass
    <3>1. x \in Ahead(c)
      BY <2>1 DEF Ahead, Serving
    <3>2. /\ Caused(Pass, x) = 0 \/ Caused(Pass, x) + 1 <= faults
          /\ faults > 0
      <4>1. ~PassSpent(x)
        BY <3>1, <2>8 DEF PassSpent
      <4>2. c # Done
        BY <2>1 DEF Serving, Done
      <4>3. faults > 0
        BY <4>2, <2>8 DEF ConnectorInv, PassFits
      <4> QED  BY <2>3, <4>1, <4>3 DEF EchoInv
    <3>3. PassSpent(x)'
      <4>1. c.then.at = "mark" /\ c.then.dist = c.dist /\ c.then.next = c.failed
            /\ c.dist \notin RowsOf(c.failed)
        BY <2>1, <2>8, PassHolds DEF ConnectorInv, PassFits, Marking
      <4> QED  BY <4>1, <2>1, <2>8 DEF PassSpent, Ahead
    <3>4. Caused(Pass, x)' <= faults'
      BY <1>1, <1>t, <2>5, <2>6, <2>8, <3>2
    <3>5. ASSUME NEW d \in Distributions
          PROVE  /\ Caused(Loop, d)' <= faults' + 1
                 /\ LoopSpent(d)' \/ Caused(Loop, d)' <= faults'
                 /\ Caused(Pass, d)' <= faults'
                 /\ PassSpent(d)' \/ Caused(Pass, d)' = 0 \/ Caused(Pass, d)' + 1 <= faults'
      <4>1. Caused(Loop, d)' = Caused(Loop, d) /\ (d # x => Caused(Pass, d)' = Caused(Pass, d))
        BY <2>4, <2>8, <1>t DEF Connector
      <4>2. Caused(Loop, d) \in Nat /\ Caused(Pass, d) \in Nat
        BY CausedSome
      <4>3. /\ Caused(Loop, d) <= faults + 1
            /\ LoopSpent(d)' \/ Caused(Loop, d) <= faults
            /\ Caused(Pass, d) <= faults
            /\ PassSpent(d)' \/ Caused(Pass, d) = 0 \/ Caused(Pass, d) + 1 <= faults
        BY <1>2, <1>3 DEF EchoInv
      <4>4. CASE d = x
        <5>1. Caused(Pass, d)' <= faults' /\ PassSpent(d)'
          BY <4>4, <3>3, <3>4
        <5> QED  BY <5>1, <4>1, <4>2, <4>3, <1>1, <1>t
      <4>5. CASE d # x
        BY <4>5, <4>1, <4>2, <4>3, <1>1, <1>t
      <4> QED  BY <4>4, <4>5
    <3> QED  BY <3>5 DEF EchoInv
  <2>9. CASE q \notin Connector
    <3>1. \A p \in Connector, d \in Distributions : Caused(p, d)' = Caused(p, d)
      BY <2>4, <2>9
    <3>2. CASE faults' = faults
      BY <3>1, <3>2, <1>2, <1>3, EchoKept
    <3>3. CASE faults' = faults + 1
      BY <3>1, <3>3, EchoAfterFault
    <3> QED  BY <1>1, <3>2, <3>3
  <2> QED  BY <2>7, <2>8, <2>9 DEF Connector
<1>6. events' = events \/ Announce(q, TRUE)
  BY DEF SrsStep, Serve, RecordAdjustment, AcknowledgeRead, Distribute, Announce, ExpireRead,
         ExpireBegin, Expire, AttachRead, Attach, AttachRefused
<1> QED  BY <1>4, <1>5, <1>6

LEMMA NextEcho ==
  ASSUME TypeInv, SrsInv, ConnectorInv, EchoInv, [Next]_vars
  PROVE  EchoInv'
<1> DEFINE S == DOMAIN events
<1>t. CallTypes /\ SrsTypes /\ Loop \in Requests /\ Pass \in Requests /\ Loop # Pass
  BY ConnectorAssumption DEF TypeInv
<1>f. LoopFits /\ PassFits
  BY DEF ConnectorInv
<1>k. faults \in Nat /\ row \in [Distributions -> {"applied", "acknowledged", Absent}]
  BY DEF TypeInv, ConnectorTypes
<1>n. ASSUME NEW q \in Requests, NEW n, Reads(q, n) PROVE req'[q] = n /\ \A p \in Requests \ {q} : req'[p] = req[p]
  BY <1>n, <1>t, ReadsHistory
<1>1. ASSUME NEW q \in Requests, SrsStep(q) PROVE EchoInv'
  BY <1>1, SrsKeepsEcho
<1>q. ASSUME Quiet
      PROVE  /\ \A p \in Connector, d \in Distributions : Caused(p, d)' = Caused(p, d)
             /\ \A s \in S : events'[s].dist = events[s].dist
  BY <1>q, CausedStays DEF Quiet
\* The loop goes on with nothing in hand, or takes something in hand that is not spent.
<1>l. ASSUME Quiet, faults' = faults, row' = row, canAck' = canAck, req'[Pass] = req[Pass],
             req[Loop].at # "commit",
             \A d \in Distributions : InHand(d)' =>
               \/ row[d] # "acknowledged"
               \/ InHand(d)
               \/ req'[Loop].at = "commit"
      PROVE  EchoInv'
  <2>1. ASSUME NEW d \in Distributions, LoopSpent(d) PROVE LoopSpent(d)'
    <3>1. row[d] = "acknowledged" /\ ~(req[Loop].at \in {"apply"} \cup Serving /\ InHand(d))
      BY <1>l, <2>1 DEF LoopSpent
    <3>2. InHand(d) => req[Loop].at \in {"apply"} \cup Serving
      BY <1>l DEF InHand
    <3>3. ~(req'[Loop].at \in {"apply"} \cup Serving /\ InHand(d)')
      BY <1>l, <3>1, <3>2 DEF Serving
    <3> QED  BY <1>l, <3>1, <3>3 DEF LoopSpent
  <2>2. \A d \in Distributions : PassSpent(d) => PassSpent(d)'
    BY <1>l, PassSpentStays
  <2> QED  BY <1>l, <1>q, <2>1, <2>2, EchoKept
<1>2. CASE UNCHANGED markVars /\ \E s \in S : Deliver(s)
  <2>1. Quiet
    BY <1>2, OthersAreQuiet
  <2>2. /\ req[Loop] = Done /\ req'[Loop].at \in {"handle", "settle"} /\ req'[Pass] = req[Pass]
        /\ UNCHANGED <<row, canAck, faults>>
    BY <1>2, <1>n, <1>t DEF Deliver, Settling, connectorVars, config
  <2>3. \A d \in Distributions : ~InHand(d)'
    BY <2>2 DEF InHand, Serving
  <2> QED  BY <2>1, <2>2, <2>3, <1>l DEF Done, Serving
<1>3. CASE Settle
  <2>1. Quiet
    BY <1>3, OthersAreQuiet
  <2>2. /\ req[Loop].at = "settle" /\ req'[Loop].at = "done" /\ req'[Pass] = req[Pass]
        /\ UNCHANGED <<row, canAck, faults>>
    BY <1>3, <1>n, <1>t DEF Settle, Done, connectorVars, config
  <2>3. \A d \in Distributions : ~InHand(d)'
    BY <2>2 DEF InHand, Serving
  <2> QED  BY <2>1, <2>2, <2>3, <1>l DEF Serving
<1>4. CASE Examine
  <2> DEFINE d == events[req[Loop].seq].dist
             n == [at |-> IF Skipped(d) THEN "commit" ELSE "apply", seq |-> req[Loop].seq,
                   writes |-> ~Skipped(d)]
  <2>1. Quiet
    BY <1>4, OthersAreQuiet
  <2>2. /\ req[Loop].at = "handle" /\ req'[Loop] = n /\ req'[Pass] = req[Pass]
        /\ UNCHANGED <<row, canAck, faults, events>>
    BY <1>4, <1>n, <1>t DEF Examine, connectorVars, config, srsVars
  <2>3. ASSUME NEW x \in Distributions, InHand(x)', req'[Loop].at # "commit" PROVE row[x] # "acknowledged"
    <3>1. ~Skipped(d) /\ n.at = "apply" /\ n.seq = req[Loop].seq
      BY <2>2, <2>3
    <3> HIDE DEF n
    <3>2. x = d
      BY <2>2, <2>3, <3>1 DEF InHand, Serving
    <3> QED  BY <3>1, <3>2 DEF Skipped
  <2> QED  BY <2>1, <2>2, <2>3, <1>l DEF Serving
<1>5. CASE Apply
  <2>1. Quiet
    BY <1>5, OthersAreQuiet
  <2>2. /\ req[Loop].at = "apply" /\ req'[Loop] = AfterApply(req[Loop]) /\ req'[Pass] = req[Pass]
        /\ UNCHANGED <<row, canAck, faults, events>>
    BY <1>5, <1>n, <1>t DEF Apply, connectorVars, config, srsVars
  <2>3. req[Loop].writes
    BY <2>2, <1>f DEF LoopFits
  <2>4. ASSUME NEW x \in Distributions, InHand(x)', req'[Loop].at # "commit" PROVE InHand(x)
    <3>1. req[Loop] \in Handles(S)
      BY <2>2, LoopHolds
    <3>2. [req[Loop] EXCEPT !.at = "commit"].at = "commit"
      BY <3>1 DEF Handles
    <3>3. req'[Loop].at = "acknowledge" /\ req'[Loop].dist = events[req[Loop].seq].dist
      BY <2>2, <2>4, <3>2 DEF AfterApply, Acknowledge
    <3> QED  BY <2>2, <2>3, <2>4, <3>3 DEF InHand, Serving
  <2> QED  BY <2>1, <2>2, <2>4, <1>l DEF Serving
<1>6. CASE Commit
  <2> DEFINE c == req[Loop]
             d == events[c.seq].dist
  <2>1. Quiet
    BY <1>6, OthersAreQuiet
  <2>2. /\ c.at = "commit" /\ req'[Loop].at = "settle" /\ req'[Pass] = req[Pass]
        /\ UNCHANGED <<canAck, faults>>
        /\ row' = IF c.writes THEN [row EXCEPT ![d] = RowStatus] ELSE row
    BY <1>6, <1>n, <1>t DEF Commit, Settling, config
  <2>3. d \in Distributions
    BY <2>2, LoopHolds
  <2>4. c.writes => InHand(d) /\ (canAck \/ row[d] # "acknowledged")
    BY <2>2, <2>3, <1>f DEF LoopFits, InHand
  <2> HIDE DEF d
  <2>5. \A x \in Distributions : row'[x] = IF c.writes /\ x = d THEN RowStatus ELSE row[x]
    BY <2>2, <2>3, <1>k
  <2>6. \A x \in Distributions : row[x] = "acknowledged" => row'[x] = "acknowledged"
    BY <2>4, <2>5 DEF RowStatus
  <2>7. ASSUME NEW x \in Distributions, LoopSpent(x) PROVE LoopSpent(x)'
    <3>1. CASE row[x] = "acknowledged"
      BY <3>1, <2>2, <2>6 DEF LoopSpent, Serving
    <3>2. CASE InHand(x) /\ canAck
      <4>1. c.writes /\ x = d
        BY <3>2, <2>2 DEF InHand, Serving, d
      <4>2. row'[x] = "acknowledged"
        BY <3>2, <4>1, <2>3, <2>5 DEF RowStatus
      <4> QED  BY <4>2, <2>2 DEF LoopSpent, Serving
    <3> QED  BY <3>1, <3>2, <2>7 DEF LoopSpent
  <2>8. \A x \in Distributions : PassSpent(x) => PassSpent(x)'
    BY <2>2, <2>6, PassSpentStays
  <2> QED  BY <2>1, <2>2, <2>7, <2>8, <1>q, EchoKept
<1>7. CASE PassRead
  <2>1. Quiet
    BY <1>7, OthersAreQuiet
  <2>2. /\ req[Pass] = Done /\ req'[Pass] = NextRow(Drifted) /\ req'[Loop] = req[Loop]
        /\ UNCHANGED <<row, canAck, faults>>
    BY <1>7, <1>n, <1>t DEF PassRead, connectorVars, config
  <2>3. Ahead(req'[Pass]) = Drifted
    BY <2>2, NextRowOf, RemainingRows DEF Drifted
  <2>4. ASSUME NEW d \in Distributions, PassSpent(d) PROVE PassSpent(d)'
    BY <2>2, <2>3, <2>4 DEF PassSpent, Drifted, Done
  <2>5. \A d \in Distributions : LoopSpent(d) => LoopSpent(d)'
    BY <2>1, <2>2, <1>q, LoopSpentStays
  <2> QED  BY <2>1, <2>2, <2>4, <2>5, <1>q, EchoKept
<1>8. ASSUME NEW d \in Distributions, PassAcknowledge(d) PROVE EchoInv'
  <2> DEFINE c == req[Pass]
             rest == NextRow(c.rows \ {d})
             mark == [at |-> "mark", dist |-> d, next |-> rest]
             k == Acknowledge(d, "vle", mark, rest)
  <2>1. Quiet
    BY <1>8, OthersAreQuiet
  <2>2. /\ c.at = "rows" /\ d \in c.rows /\ c.rows \subseteq Distributions
        /\ req'[Pass] = k /\ req'[Loop] = req[Loop] /\ UNCHANGED <<row, canAck, faults>>
    BY <1>8, <1>n, <1>t, PassHolds DEF PassAcknowledge, connectorVars, config
  <2>3. RowsOf(rest) = c.rows \ {d} /\ RowsOf(c) = c.rows /\ Ahead(c) = RowsOf(c)
    BY <2>2, NextRowOf DEF RowsOf, Ahead, Done, Serving
  <2> HIDE DEF rest
  <2>4. k.at = "acknowledge" /\ k.dist = d /\ k.failed = rest
    BY DEF Acknowledge
  <2> HIDE DEF k
  <2>5. Ahead(k) = Ahead(c)
    BY <2>2, <2>3, <2>4 DEF Ahead, Serving
  <2>6. ASSUME NEW x \in Distributions, PassSpent(x) PROVE PassSpent(x)'
    BY <2>2, <2>5, <2>6 DEF PassSpent
  <2>7. \A x \in Distributions : LoopSpent(x) => LoopSpent(x)'
    BY <2>1, <2>2, <1>q, LoopSpentStays
  <2> QED  BY <2>1, <2>2, <2>6, <2>7, <1>q, EchoKept
<1>9. CASE PassMark
  <2> DEFINE c == req[Pass]
  <2>1. Quiet
    BY <1>9, OthersAreQuiet
  <2>2. /\ c.at = "mark" /\ c.dist \in Distributions /\ c.next \in Remaining
        /\ req'[Pass] = c.next /\ req'[Loop] = req[Loop] /\ UNCHANGED <<canAck, faults>>
        /\ row' = [row EXCEPT ![c.dist] = "acknowledged"]
    BY <1>9, <1>n, <1>t, PassHolds DEF PassMark, config
  <2>3. \A x \in Distributions : row'[x] = IF x = c.dist THEN "acknowledged" ELSE row[x]
    BY <2>2, <1>k
  <2>4. Ahead(c.next) = Ahead(c)
    BY <2>2, RemainingRows DEF Ahead
  <2>5. ASSUME NEW x \in Distributions, PassSpent(x) PROVE PassSpent(x)'
    BY <2>2, <2>3, <2>4, <2>5 DEF PassSpent
  <2>6. \A x \in Distributions : LoopSpent(x) => LoopSpent(x)'
    BY <2>1, <2>2, <2>3, <1>q, LoopSpentStays
  <2> QED  BY <2>1, <2>2, <2>5, <2>6, <1>q, EchoKept
<1>10. CASE (\E q \in Connector : Throws(q)) \/ AppliedUnanswered \/ AckLost \/ Crash
  <2>1. Quiet
    BY <1>10, OthersAreQuiet
  <2>2. faults' = faults + 1
    BY <1>10 DEF Throws, AppliedUnanswered, AckLost, Crash, Fault
  <2> QED  BY <2>1, <2>2, <1>q, EchoAfterFault
<1>11. ASSUME Quiet, req'[Loop] = req[Loop], req'[Pass] = req[Pass], UNCHANGED flowVars PROVE EchoInv'
  <2>1. UNCHANGED <<row, canAck, faults>>
    BY <1>11 DEF flowVars, connectorVars, config
  <2>2. \A x \in Distributions : LoopSpent(x) => LoopSpent(x)'
    BY <1>11, <2>1, <1>q, LoopSpentStays
  <2>3. \A x \in Distributions : PassSpent(x) => PassSpent(x)'
    BY <1>11, <2>1, PassSpentStays
  <2> QED  BY <1>11, <2>1, <2>2, <2>3, <1>q, EchoKept
<1>12. ASSUME NEW q \in Users, SubmitStep(q) \/ (Fail(q) /\ MarkFails(q)), UNCHANGED flowVars PROVE EchoInv'
  <2>1. \E n, E : Reads(q, n) \/ Writes(q, E, n)
    BY <1>12 DEF SubmitStep, ReadReceipt, IngestMark, StoreReceipt, Fail
  <2>2. q # Loop /\ q # Pass
    BY DEF Users, Connector
  <2>3. req'[Loop] = req[Loop] /\ req'[Pass] = req[Pass]
    BY <2>1, <2>2, <1>t DEF Reads, Writes, CallTypes
  <2>4. Quiet
    BY <1>12, OthersAreQuiet
  <2> QED  BY <2>3, <2>4, <1>11, <1>12
<1>13. CASE UNCHANGED vars
  <2>1. Quiet
    BY <1>13, OthersAreQuiet
  <2> QED  BY <1>11, <1>13, <2>1 DEF vars, callVars
<1> QED  BY <1>1, <1>2, <1>3, <1>4, <1>5, <1>6, <1>7, <1>8, <1>9, <1>10, <1>12, <1>13, StepCases

-------------------------------------------------------------------------------
(* Marks.                                                                  *)

Submitting == {"ingestMark", "storeReceipt"}

\* What the steps that are not about marks have in common.
Apart ==
  /\ UNCHANGED markVars
  /\ suspect \subseteq suspect'
  /\ \A p \in Requests :
       \/ req[p].at \notin Submitting /\ req'[p].at \notin Submitting
       \/ req'[p] = req[p] /\ overlapped[p] \subseteq overlapped'[p]

LEMMA InitMarks == Init => MarkInv
<1> SUFFICES ASSUME Init PROVE MarkInv
  OBVIOUS
<1>1. TypeInv
  BY InitTypes
<1>2. marks = [r \in References |-> 0] /\ receipt = [r \in References |-> 0]
  BY DEF Init, MarksInit
<1>3. ASSUME NEW q \in Requests PROVE req[q].at \notin Submitting
  <2> PICK sc \in Scenarios : req = [p \in Requests |-> IF p \in Users THEN sc.calls[p] ELSE Done]
    BY DEF Init
  <2>1. q \in Users => sc.calls[q] \in UserCall \cup {Done}
    BY ScenariosAssumption, CallsAssumption
  <2>2. req[q] \in UserCall \cup {Done}
    BY <2>1
  <2> QED  BY <2>2 DEF UserCall, Done, Submitting
<1> QED  BY <1>2, <1>3 DEF MarkInv, MarkFits, Submitting

LEMMA ApartKeepsMarks ==
  ASSUME MarkInv, Apart
  PROVE  MarkInv'
<1>1. UNCHANGED <<marks, receipt, unanswered>>
  BY DEF Apart, markVars
<1>2. ASSUME NEW p \in Requests
      PROVE  /\ req'[p].at = "storeReceipt" <=> req[p].at = "storeReceipt"
             /\ req'[p].at = "ingestMark" <=> req[p].at = "ingestMark"
             /\ req[p].at \in Submitting => req'[p] = req[p] /\ overlapped[p] \subseteq overlapped'[p]
  BY DEF Apart, Submitting
<1>3. \A r : Outstanding(r)' <=> Outstanding(r)
  BY <1>2 DEF Outstanding, Submitting
<1>4. \A q, r : OutstandingBut(q, r)' <=> OutstandingBut(q, r)
  BY <1>2 DEF OutstandingBut, Submitting
<1>5. ASSUME NEW r \in References, r \notin suspect' \cup unanswered' PROVE MarkFits(r)'
  <2>1. MarkFits(r)
    BY <1>1, <1>5 DEF MarkInv, Apart
  <2> QED  BY <2>1, <1>1, <1>2, <1>3, <1>4 DEF MarkFits, Submitting
<1> QED  BY <1>5 DEF MarkInv

LEMMA ConnectorSubmitsNothing ==
  ASSUME NEW S, NEW q \in Connector, NEW c \in StateOf(q, S)
  PROVE  c.at \notin Submitting
BY LoopShape, PassShape, ConnectorAssumption DEF StateOf, Connector, Serving, Submitting

LEMMA SrsStepsApart ==
  ASSUME TypeInv, TypeInv', NEW q \in Requests, SrsStep(q)
  PROVE  Apart
<1> DEFINE Ids == Adjustments \cup Distributions \cup References
<1>t. CallTypes /\ SrsTypes /\ CallTypes' /\ UNCHANGED markVars
  BY DEF TypeInv, SrsStep
<1>c. \A p \in Connector : req[p].at \notin Submitting /\ req'[p].at \notin Submitting
  <2>1. \A p \in Connector : p \in Requests
    BY ConnectorAssumption DEF Connector
  <2>2. \A p \in Connector : req[p] \in StateOf(p, DOMAIN events) /\ req'[p] \in StateOf(p, DOMAIN events')
    BY <1>t, <2>1 DEF CallTypes, StateOf, LoopState, PassState, UserState, Handles, Settles
  <2> QED  BY <2>2, ConnectorSubmitsNothing
<1>d. \A d \in Distributions : AdjustmentOf[d] \in Adjustments
  BY DistributionAssumption
<1>1. ASSUME req[q].at \notin Submitting, NEW n, n.at \notin Submitting \/ q \in Connector,
             Reads(q, n) \/ \E E \in SUBSET Ids : Writes(q, E, n)
      PROVE  Apart
  <2>1. req'[q] = n /\ suspect \subseteq suspect'
    BY <1>1, <1>t, ReadsHistory, WritesHistory
  <2>2. ASSUME NEW p \in Requests \ {q}, req[p].at \in Submitting \/ req'[p].at \in Submitting
        PROVE  req'[p] = req[p] /\ overlapped[p] \subseteq overlapped'[p]
    <3>1. CASE Reads(q, n)
      BY <3>1, <1>t, ReadsHistory
    <3>2. ASSUME NEW E \in SUBSET Ids, Writes(q, E, n)
          PROVE  req'[p] = req[p] /\ overlapped[p] \subseteq overlapped'[p]
      <4>1. req'[p] = req[p] /\ (InFlight(p) => overlapped'[p] = overlapped[p] \cup E)
        BY <3>2, <1>t, WritesHistory
      <4> QED  BY <2>2, <4>1, ReadingInFlight DEF Submitting
    <3> QED  BY <1>1, <3>1, <3>2
  <2> QED  BY <1>1, <1>t, <1>c, <2>1, <2>2 DEF Apart
<1>2. CASE RecordAdjustment(q) \/ Expire(q)
  <2>1. req[q].at \in {"recordAdjustment", "closed"}
    BY <1>2 DEF RecordAdjustment, Expire
  <2>2. req[q].adjustment \in Adjustments
    BY <2>1, <1>t, UsersOnly, UserShape
  <2>3. {req[q].adjustment} \cup DistributionsOf(req[q].adjustment) \in SUBSET Ids
    BY <2>2 DEF DistributionsOf
  <2>4. Writes(q, {req[q].adjustment} \cup DistributionsOf(req[q].adjustment), Done)
    BY <1>2 DEF RecordAdjustment, Expire
  <2> QED  BY <2>1, <2>3, <2>4, <1>1 DEF Submitting, Done
<1>3. CASE Attach(q)
  <2>1. req[q].at = "attach" /\ Writes(q, {req[q].adjustment}, Done)
    BY <1>3 DEF Attach
  <2>2. req[q].adjustment \in Adjustments
    BY <2>1, <1>t, UsersOnly, UserShape
  <2> QED  BY <2>1, <2>2, <1>1 DEF Submitting, Done
<1>4. CASE ExpireRead(q) \/ ExpireBegin(q) \/ AttachRead(q) \/ AttachRefused(q)
  <2>1. req[q].at \notin Submitting
    BY <1>4 DEF ExpireRead, ExpireBegin, AttachRead, AttachRefused, Submitting
  <2>2. \E n : Reads(q, n) /\ n.at \in {"done", "close", "closed", "attach"}
    BY <1>4 DEF ExpireRead, ExpireBegin, AttachRead, AttachRefused, Done
  <2> QED  BY <2>1, <2>2, <1>1 DEF Submitting
<1>5. CASE AcknowledgeRead(q) \/ Distribute(q) \/ \E connected \in BOOLEAN : Announce(q, connected)
  <2>1. req[q].at \in Serving /\ req[q] \in StateOf(q, DOMAIN events)
    BY <1>5, <1>t DEF AcknowledgeRead, Distribute, Announce, Serving, CallTypes
  <2>2. /\ \/ Reads(q, req[q].then)
           \/ Reads(q, [req[q] EXCEPT !.at = "distribute"])
           \/ Writes(q, {req[q].dist}, [req[q] EXCEPT !.at = "announce"])
    BY <1>5 DEF AcknowledgeRead, Distribute, Announce
  <2>3. {req[q].dist} \in SUBSET Ids
    BY <2>1, ServingShape
  <2>4. /\ q \in Connector \/ req[q].then.at \notin Submitting
        /\ q \in Connector \/ [req[q] EXCEPT !.at = "distribute"].at \notin Submitting
        /\ q \in Connector \/ [req[q] EXCEPT !.at = "announce"].at \notin Submitting
    <3>1. CASE q \in Connector
      BY <3>1
    <3>2. CASE q \notin Connector
      <4>1. req[q] \in [at : Serving, dist : Distributions, target : Systems, then : {Done}, failed : {Done}]
        BY <3>2, <2>1, UserShape DEF StateOf, Connector
      <4> QED  BY <4>1 DEF Done, Submitting
    <3> QED  BY <3>1, <3>2
  <2>5. req[q].at \notin Submitting
    BY <2>1 DEF Serving, Submitting
  <2>6. CASE Reads(q, req[q].then)
    BY <2>4, <2>5, <2>6, <1>1
  <2>7. CASE Reads(q, [req[q] EXCEPT !.at = "distribute"])
    BY <2>4, <2>5, <2>7, <1>1
  <2>8. CASE Writes(q, {req[q].dist}, [req[q] EXCEPT !.at = "announce"])
    BY <2>3, <2>4, <2>5, <2>8, <1>1
  <2> QED  BY <2>2, <2>6, <2>7, <2>8
<1> QED  BY <1>2, <1>3, <1>4, <1>5 DEF SrsStep, Serve

LEMMA OtherStepsApart ==
  ASSUME TypeInv, TypeInv', UNCHANGED markVars,
         \/ \E s \in DOMAIN events : Deliver(s)
         \/ Examine \/ Apply \/ Commit \/ Settle
         \/ PassRead \/ PassMark
         \/ \E d \in Distributions : PassAcknowledge(d)
         \/ \E q \in Connector : Throws(q)
         \/ AppliedUnanswered \/ AckLost \/ Crash
         \/ UNCHANGED vars
  PROVE  Apart
<1>t. CallTypes /\ CallTypes'
  BY DEF TypeInv
<1>c. \A p \in Connector : req[p].at \notin Submitting /\ req'[p].at \notin Submitting
  <2>1. \A p \in Connector : p \in Requests
    BY ConnectorAssumption DEF Connector
  <2>2. \A p \in Connector : req[p] \in StateOf(p, DOMAIN events) /\ req'[p] \in StateOf(p, DOMAIN events')
    BY <1>t, <2>1 DEF CallTypes, StateOf, LoopState, PassState, UserState, Handles, Settles
  <2> QED  BY <2>2, ConnectorSubmitsNothing
<1>u. \A p \in Users : p \in Requests /\ p # Loop /\ p # Pass
  BY DEF Users, Connector
<1>1. suspect' = suspect /\ \A p \in Users : req'[p] = req[p] /\ overlapped'[p] = overlapped[p]
  <2>1. ASSUME NEW q \in Connector, NEW n, Reads(q, n) PROVE <1>1!:
    BY <2>1, <1>u, <1>t, ReadsHistory, ConnectorAssumption DEF Connector
  <2>2. CASE Crash
    BY <2>2 DEF Crash, Users
  <2>3. CASE UNCHANGED vars
    BY <2>3 DEF vars, callVars
  <2>4. CASE \E q \in Connector : Throws(q)
    BY <2>4, <2>1 DEF Throws
  <2>5. CASE \/ \E s \in DOMAIN events : Deliver(s)
             \/ Examine \/ Apply \/ Commit \/ Settle
             \/ AppliedUnanswered \/ AckLost
    <3>1. \E n : Reads(Loop, n)
      BY <2>5 DEF Deliver, Examine, Apply, Commit, Settle, AppliedUnanswered, AckLost
    <3> QED  BY <3>1, <2>1 DEF Connector
  <2>6. CASE PassRead \/ PassMark \/ \E d \in Distributions : PassAcknowledge(d)
    <3>1. \E n : Reads(Pass, n)
      BY <2>6 DEF PassRead, PassMark, PassAcknowledge
    <3> QED  BY <3>1, <2>1 DEF Connector
  <2> QED  BY <2>2, <2>3, <2>4, <2>5, <2>6
<1>2. \A p \in Requests : p \in Users \/ p \in Connector
  BY DEF Users
<1> QED  BY <1>c, <1>1, <1>2 DEF Apart

\* A request that goes on and neither before nor after it is storing a receipt of r
\* leaves alone what is outstanding of it.
LEMMA OutstandingStays ==
  ASSUME NEW q \in Requests, NEW r,
         \A p \in Requests \ {q} : req'[p] = req[p],
         ~(req[q].at = "storeReceipt" /\ req[q].reference = r),
         ~(req'[q].at = "storeReceipt" /\ req'[q].reference = r)
  PROVE  /\ Outstanding(r)' <=> Outstanding(r)
         /\ \A p \in Requests : OutstandingBut(p, r)' <=> OutstandingBut(p, r)
BY DEF Outstanding, OutstandingBut

LEMMA OutstandingButItself ==
  ASSUME NEW q \in Requests, NEW r, \A p \in Requests \ {q} : req'[p] = req[p]
  PROVE  /\ OutstandingBut(q, r)' <=> OutstandingBut(q, r)
         /\ OutstandingBut(q, r) => Outstanding(r)'
BY DEF Outstanding, OutstandingBut

\* The marks that a step is not about.
LEMMA MarkFitsStill ==
  ASSUME NEW q \in Requests, NEW r, MarkFits(r),
         marks'[r] = marks[r], receipt'[r] = receipt[r],
         \A p \in Requests \ {q} :
           /\ req'[p] = req[p]
           /\ req[p].at \in Submitting => overlapped[p] \subseteq overlapped'[p],
         ~(req[q].at = "storeReceipt" /\ req[q].reference = r),
         ~(req'[q].at \in Submitting /\ req'[q].reference = r)
  PROVE  MarkFits(r)'
<1>1. /\ Outstanding(r)' <=> Outstanding(r)
      /\ \A p \in Requests : OutstandingBut(p, r)' <=> OutstandingBut(p, r)
  BY OutstandingStays DEF Submitting
<1> QED  BY <1>1 DEF MarkFits, Submitting

LEMMA MarkStepsKeepMarks ==
  ASSUME TypeInv, MarkInv, NEW q \in Users, SubmitStep(q) \/ (Fail(q) /\ MarkFails(q))
  PROVE  MarkInv'
<1> DEFINE Ids == Adjustments \cup Distributions \cup References
           r == req[q].reference
<1>t. CallTypes /\ MarkTypes /\ q \in Requests
  BY DEF TypeInv, Users
\* A transaction that writes references marks the overlap in every other submission.
<1>w. ASSUME NEW n, NEW x \in References, Writes(q, {x}, n)
      PROVE  /\ req'[q] = n /\ suspect' = suspect \cup ({x} \cap overlapped[q])
             /\ n # Done => overlapped'[q] = overlapped[q]
             /\ \A p \in Requests \ {q} :
                  /\ req'[p] = req[p]
                  /\ req[p].at \in Submitting => overlapped'[p] = overlapped[p] \cup {x}
  <2>1. \A p \in Requests : req[p].at \in Submitting => InFlight(p)
    BY ReadingInFlight DEF Submitting
  <2> QED  BY <1>w, <1>t, <2>1, WritesHistory
<1>r. ASSUME NEW n, Reads(q, n)
      PROVE  /\ req'[q] = n /\ suspect' = suspect /\ (n # Done => overlapped'[q] = overlapped[q])
             /\ \A p \in Requests \ {q} : req'[p] = req[p] /\ overlapped'[p] = overlapped[p]
  BY <1>r, <1>t, ReadsHistory
<1>1. CASE ReadReceipt(q)
  <2> DEFINE n == IF Submitted(r) THEN Done ELSE [req[q] EXCEPT !.at = "ingestMark"]
  <2>1. req[q].at = "submitMark" /\ Reads(q, n) /\ UNCHANGED <<marks, receipt, unanswered>>
    BY <1>1 DEF ReadReceipt, markVars
  <2>2. req[q] \in [at : {"submitMark", "ingestMark"}, reference : References]
    BY <2>1, <1>t, UsersOnly, UserShape
  <2>3. \/ n = Done
        \/ n.at = "ingestMark" /\ n.reference = r /\ n # Done /\ receipt[r] = 0
    BY <2>2 DEF Submitted, Done
  <2> HIDE DEF n
  <2>4. req'[q] = n /\ suspect' = suspect /\ (n # Done => overlapped'[q] = overlapped[q])
    BY <2>1, <1>r
  <2>5. \A p \in Requests \ {q} : req'[p] = req[p] /\ overlapped'[p] = overlapped[p]
    BY <2>1, <1>r
  <2>6. ASSUME NEW x \in References, x \notin suspect' \cup unanswered' PROVE MarkFits(x)'
    <3>1. MarkFits(x)
      BY <2>1, <2>4, <2>6 DEF MarkInv
    <3>2. CASE n.at = "ingestMark" /\ n.reference = x
      <4>1. /\ Outstanding(x)' <=> Outstanding(x)
            /\ \A p \in Requests : OutstandingBut(p, x)' <=> OutstandingBut(p, x)
        BY <3>2, <2>1, <2>4, <2>5, <1>t, OutstandingStays
      <4>2. receipt[x] = 0 /\ (marks[x] = 0 \/ OutstandingBut(q, x))
        <5>1. receipt[x] = 0
          BY <3>2, <2>3 DEF Done
        <5>2. Outstanding(x) => OutstandingBut(q, x)
          BY <2>1 DEF Outstanding, OutstandingBut
        <5> QED  BY <5>1, <5>2, <3>1 DEF MarkFits
      <4> QED  BY <3>1, <3>2, <4>1, <4>2, <2>1, <2>4, <2>5 DEF MarkFits
    <3>3. CASE ~(n.at = "ingestMark" /\ n.reference = x)
      <4>1. ~(req'[q].at \in Submitting /\ req'[q].reference = x)
        BY <3>3, <2>3, <2>4 DEF Done, Submitting
      <4> QED  BY <3>1, <4>1, <2>1, <2>5, <1>t, MarkFitsStill
    <3> QED  BY <3>2, <3>3
  <2> QED  BY <2>6 DEF MarkInv
<1>2. CASE IngestMark(q)
  <2> DEFINE n == [at |-> "storeReceipt", reference |-> r, mark |-> marks[r] + 1]
  <2>1. req[q].at = "ingestMark" /\ Writes(q, {r}, n) /\ UNCHANGED <<receipt, unanswered>>
    BY <1>2 DEF IngestMark
  <2>2. r \in References /\ marks[r] \in Nat /\ marks \in [References -> Nat]
    BY <2>1, <1>t, UsersOnly, UserShape DEF MarkTypes
  <2>3. \A x \in References : marks'[x] = IF x = r THEN marks[r] + 1 ELSE marks[x]
    BY <1>2, <2>2 DEF IngestMark
  <2>4. n.at = "storeReceipt" /\ n.reference = r /\ n.mark = marks[r] + 1 /\ n # Done
    BY DEF Done
  <2> HIDE DEF n
  <2>5. /\ req'[q] = n /\ suspect' = suspect \cup ({r} \cap overlapped[q])
        /\ overlapped'[q] = overlapped[q]
        /\ \A p \in Requests \ {q} :
             /\ req'[p] = req[p]
             /\ req[p].at \in Submitting => overlapped'[p] = overlapped[p] \cup {r}
    BY <2>1, <2>2, <2>4, <1>w
  <2>6. ASSUME NEW x \in References, x \notin suspect' \cup unanswered' PROVE MarkFits(x)'
    <3>1. MarkFits(x)
      BY <2>1, <2>5, <2>6 DEF MarkInv
    <3>2. CASE x = r
      <4>1. x \notin overlapped[q]
        BY <3>2, <2>5, <2>6
      <4>2. marks[x] = 0 \/ OutstandingBut(q, x)
        BY <3>1, <3>2, <4>1, <2>1, <1>t DEF MarkFits
      <4>3. OutstandingBut(q, x)' <=> OutstandingBut(q, x)
        BY <2>5, <1>t, OutstandingButItself
      <4>4. Outstanding(x)'
        BY <3>2, <2>4, <2>5, <1>t DEF Outstanding
      <4>5. \A p \in Requests \ {q} : req'[p].at \in Submitting => x \in overlapped'[p]
        BY <3>2, <2>5
      <4>6. n.mark = marks'[x] /\ (marks'[x] = 1 \/ OutstandingBut(q, x)')
        BY <3>2, <2>2, <2>3, <2>4, <4>2, <4>3
      <4> QED  BY <3>2, <4>4, <4>5, <4>6, <2>4, <2>5 DEF MarkFits, Submitting
    <3>3. CASE x # r
      <4>1. marks'[x] = marks[x] /\ receipt'[x] = receipt[x]
        BY <3>3, <2>1, <2>3
      <4> QED  BY <3>1, <3>3, <4>1, <2>4, <2>5, <1>t, MarkFitsStill
    <3> QED  BY <3>2, <3>3
  <2> QED  BY <2>6 DEF MarkInv
<1>3. CASE StoreReceipt(q)
  <2>1. req[q].at = "storeReceipt" /\ Writes(q, {r}, Done) /\ UNCHANGED <<marks, unanswered>>
    BY <1>3 DEF StoreReceipt
  <2>2. r \in References /\ receipt \in [References -> Nat]
    BY <2>1, <1>t, UsersOnly, UserShape DEF MarkTypes
  <2>3. \A x \in References : receipt'[x] = IF x = r THEN req[q].mark ELSE receipt[x]
    BY <1>3, <2>2 DEF StoreReceipt
  <2>4. /\ req'[q].at = "done" /\ suspect' = suspect \cup ({r} \cap overlapped[q])
        /\ \A p \in Requests \ {q} :
             /\ req'[p] = req[p]
             /\ req[p].at \in Submitting => overlapped'[p] = overlapped[p] \cup {r}
    BY <2>1, <2>2, <1>w DEF Done
  <2>5. ASSUME NEW x \in References, x \notin suspect' \cup unanswered' PROVE MarkFits(x)'
    <3>1. MarkFits(x)
      BY <2>1, <2>4, <2>5 DEF MarkInv
    <3>2. CASE x = r
      <4>1. x \notin overlapped[q]
        BY <3>2, <2>4, <2>5
      <4>2. req[q].mark = marks[x] /\ (marks[x] = 1 \/ OutstandingBut(q, x))
        BY <3>1, <3>2, <4>1, <2>1, <1>t DEF MarkFits
      <4>3. OutstandingBut(q, x) => Outstanding(x)'
        BY <2>4, <1>t, OutstandingButItself
      <4>4. Outstanding(x)' \/ (marks'[x] = receipt'[x] /\ marks'[x] <= 1)
        BY <3>2, <2>1, <2>2, <2>3, <4>2, <4>3
      <4>5. \A p \in Requests \ {q} : req'[p].at \in Submitting => x \in overlapped'[p]
        BY <3>2, <2>4
      <4> QED  BY <3>2, <4>4, <4>5, <2>4 DEF MarkFits, Submitting
    <3>3. CASE x # r
      <4>1. marks'[x] = marks[x] /\ receipt'[x] = receipt[x]
        BY <3>3, <2>1, <2>3
      <4>2. req'[q].at \notin Submitting
        BY <2>4 DEF Submitting
      <4> QED  BY <3>1, <3>3, <4>1, <4>2, <2>4, <1>t, MarkFitsStill
    <3> QED  BY <3>2, <3>3
  <2> QED  BY <2>5 DEF MarkInv
<1>4. CASE Fail(q) /\ MarkFails(q)
  <2>1. Reads(q, Done) /\ UNCHANGED <<marks, receipt>>
    BY <1>4 DEF Fail, MarkFails
  <2>2. /\ req'[q].at \notin Submitting /\ suspect' = suspect
        /\ \A p \in Requests \ {q} : req'[p] = req[p] /\ overlapped'[p] = overlapped[p]
    BY <2>1, <1>r DEF Done, Submitting
  <2>3. ASSUME NEW x \in References, x \notin suspect' \cup unanswered' PROVE MarkFits(x)'
    <3>1. unanswered' = IF req[q].at = "storeReceipt" THEN unanswered \cup {r} ELSE unanswered
      BY <1>4 DEF MarkFails
    <3>2. MarkFits(x) /\ ~(req[q].at = "storeReceipt" /\ r = x)
      BY <2>2, <2>3, <3>1 DEF MarkInv
    <3> QED  BY <3>2, <2>1, <2>2, <1>t, MarkFitsStill
  <2> QED  BY <2>3 DEF MarkInv
<1> QED  BY <1>1, <1>2, <1>3, <1>4 DEF SubmitStep

LEMMA NextMarks ==
  ASSUME TypeInv, MarkInv, [Next]_vars
  PROVE  MarkInv'
<1>1. TypeInv'
  BY NextTypes
<1>2. ASSUME NEW q \in Users, SubmitStep(q) \/ (Fail(q) /\ MarkFails(q)) PROVE MarkInv'
  BY <1>2, MarkStepsKeepMarks
<1>3. ASSUME NEW q \in Requests, SrsStep(q) PROVE MarkInv'
  BY <1>1, <1>3, SrsStepsApart, ApartKeepsMarks
<1>4. CASE UNCHANGED vars
  <2>1. UNCHANGED markVars
    BY <1>4 DEF vars
  <2> QED  BY <1>1, <1>4, <2>1, OtherStepsApart, ApartKeepsMarks
<1> QED  BY <1>1, <1>2, <1>3, <1>4, StepCases, OtherStepsApart, ApartKeepsMarks

-------------------------------------------------------------------------------
(* The theorems.                                                           *)

ExchangeInv == TypeInv /\ SrsInv /\ ConnectorInv /\ EchoInv /\ MarkInv

LEMMA ExchangeInvariant == Spec => []ExchangeInv
<1>1. Init => ExchangeInv
  BY InitTypes, InitSrs, InitConnector, InitEcho, InitMarks DEF ExchangeInv
<1>2. ASSUME ExchangeInv, [Next]_vars PROVE ExchangeInv'
  BY <1>2, NextTypes, NextSrs, NextConnector, NextEcho, NextMarks DEF ExchangeInv
<1> QED  BY <1>1, <1>2, PTL DEF Spec

\* The state of the exchange has its type: every request is at one of the steps its
\* caller can take, with what that step needs in hand.
THEOREM TypeCorrect == Spec => []TypeOK
<1>1. ExchangeInv => TypeOK
  BY TypesHold DEF ExchangeInv
<1> QED  BY <1>1, ExchangeInvariant, PTL

\* What the VLE was given, the SRS calls distributed; a map row stands for an
\* adjustment that the VLE has, unless there was no VLE client; what is pending is owed
\* by a current adjustment and what is superseded by an expired one
\* (handleAdjustmentDistributed, reconcileAdjustments, acknowledgeDistribution,
\* expireAdjustment, attachOutcomeDocument).
THEOREM RecordsOfTheSystemsAgree == Spec => []RecordsAgree
<1>1. ExchangeInv => RecordsAgree
  BY DEF ExchangeInv, SrsInv, ConnectorInv, RecordsAgree
<1> QED  BY <1>1, ExchangeInvariant, PTL

\* The events that the connector's acknowledgements make come back to it, and no more
\* than one and one for each failure follow: however many users, adjustments, events
\* and failures there are.
THEOREM TheEchoDiesOut == Spec => []EchoDiesOut
<1>1. ExchangeInv => EchoDiesOut
  BY DEF ExchangeInv, EchoInv, EchoDiesOut
<1> QED  BY <1>1, ExchangeInvariant, PTL

\* What has expired, was superseded or distributed stays so, but for writes of
\* requests that were overlapped (expireAdjustment, attachOutcomeDocument,
\* acknowledgeDistribution).
THEOREM ExpiryStaysFinal == Spec => ExpiryIsFinal
<1> DEFINE Final == /\ \A a \in Adjustments \ suspect' :
                         versions[a] > 0 /\ current[a] = 0 => current'[a] = 0
                    /\ \A d \in Distributions :
                         \/ dist[d] \in {Absent, "pending"}
                         \/ dist'[d] = dist[d]
                         \/ dist[d] = "superseded" /\ {d, AdjustmentOf[d]} \cap suspect' # {}
<1>1. ExchangeInv /\ [Next]_vars => [Final]_vars
  BY StepKeepsExpiry DEF ExchangeInv
<1>2. ExpiryIsFinal <=> [][Final]_vars
  BY PTL DEF ExpiryIsFinal
<1> QED  BY <1>1, <1>2, ExchangeInvariant, PTL DEF Spec

\* The SRS gets a mark once and the receipt names it, however many submissions of it
\* there are: unless two overlap, or one fails after its mark was stored
\* (MarkSubmissionService.submitMark, ingestMark).
THEOREM EachMarkIsSubmittedOnce == Spec => []MarksAreSubmittedOnce
<1>1. ExchangeInv => MarksAreSubmittedOnce
  BY DEF ExchangeInv, MarkInv, MarkFits, MarksAreSubmittedOnce
<1> QED  BY <1>1, ExchangeInvariant, PTL

===============================================================================
