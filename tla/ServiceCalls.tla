----------------------------- MODULE ServiceCalls -----------------------------
(***************************************************************************)
(* A service of the API serves requests concurrently.  A request runs one  *)
(* awaited database transaction after another (withTenantContext of        *)
(* packages/db/src/rls.ts); between two of them any other       *)
(* request may commit, and what was read before may be out of date.        *)
(*                                                                         *)
(* A request is its control state: the next transaction and what it keeps  *)
(* from earlier ones.  Each request serves one call, and may fail anywhere.*)
(*                                                                         *)
(* Two history variables tell an overlap from a mistake: an entity is      *)
(* suspect once a request has written it although another request had      *)
(* written it while the first was in flight.                               *)
(***************************************************************************)

CONSTANTS
  Requests,
  Calls,    \* what a request may be asked for
  Faults,   \* whether a transaction or a publication may fail
  Absent    \* no such row, or NULL

ASSUME FaultsAssumption == Faults \in BOOLEAN

VARIABLES
  req,         \* the control state of each request
  overlapped,  \* what others have written since the request began
  suspect      \* what was written in spite of an overlap

callVars == <<req, overlapped, suspect>>

Done == [at |-> "done"]

\* A request that still is its call has read nothing.
InFlight(q) == req[q] # Done /\ req[q] \notin Calls

\* Every request is about to serve one of the calls.
CallsInit(calls) ==
  /\ req \in [Requests -> calls]
  /\ overlapped = [q \in Requests |-> {}]
  /\ suspect = {}

\* The request goes on to another state and has written nothing.
Reads(q, next) ==
  /\ req' = [req EXCEPT ![q] = next]
  /\ overlapped' = [overlapped EXCEPT ![q] = IF next = Done THEN {} ELSE @]
  /\ UNCHANGED suspect

\* The request goes on to another state, and its transaction wrote the entities.
Writes(q, entities, next) ==
  /\ req' = [req EXCEPT ![q] = next]
  /\ overlapped' = [r \in Requests |->
                      IF r = q THEN IF next = Done THEN {} ELSE overlapped[r]
                      ELSE IF InFlight(r) THEN overlapped[r] \cup entities
                      ELSE {}]
  /\ suspect' = suspect \cup (entities \cap overlapped[q])

\* The rows of a bounded table that are free to be inserted.
Unused(table) == { x \in DOMAIN table : table[x] = Absent }

\* An awaited call throws: an open transaction is rolled back, the request ends.
Fail(q) == Faults /\ InFlight(q) /\ Reads(q, Done)

===============================================================================
