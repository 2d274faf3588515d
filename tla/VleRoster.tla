------------------------------ MODULE VleRoster ------------------------------
(***************************************************************************)
(* The course-provisioning flow of the VLE connector (adapters/vle/src):   *)
(* the durable consumer of the SRS event stream, its event ledger, the     *)
(* handlers that mirror module registrations into the VLE, and the roster  *)
(* reconciliation that runs beside it.                                     *)
(*                                                                         *)
(* A handler runs in one database transaction, but its calls to the VLE    *)
(* take effect at once and stay when the transaction rolls back.  The loop *)
(* handles one message at a time; acknowledgements can be lost, the        *)
(* connector can crash between any two steps, and the server can lose the  *)
(* durable consumer.  Courses that the VLE holds are not modelled beyond   *)
(* the connector's course map, nor are 'failed' ledger rows: the consumer  *)
(* reads only 'processed' rows.                                            *)
(***************************************************************************)
EXTENDS Integers, Sequences, FiniteSets

CONSTANTS
  Modules, Enrolments, Registrations,
  EnrolmentOf, ModuleOf,  \* of a registration
  StatusChanges,          \* the enrolment statuses the SRS changes to
  MaxEvents,              \* bound on the stream
  MaxAttempts,            \* maxAttempts, also the consumer's max_deliver
  FirstCount,             \* redeliveryCount of a first delivery: 1 in nats.js
  MaxFaults,              \* bound on crashes, lost acks and consumer losses
  NoRow, NoAccess

ASSUME RosterAssumption ==
  /\ EnrolmentOf \in [Registrations -> Enrolments]
  /\ ModuleOf \in [Registrations -> Modules]
  /\ MaxEvents \in Nat /\ MaxFaults \in Nat
  /\ MaxAttempts \in Nat \ {0}
  /\ FirstCount \in {0, 1}

VARIABLES
  stream,     \* SRS_EVENTS: every event published, by sequence number
  start,      \* the first sequence number the durable consumer delivers
  delivered,  \* how often the server has delivered each event
  acked,      \* the events whose acknowledgement has reached the server
  task,       \* what the message loop is doing
  ledger,     \* the number of 'processed' ledger rows of each event
  persons,    \* enrolments in the student-enrolment map
  courses,    \* modules in the course map
  map,        \* the enrolment map
  vle,        \* the access the VLE itself gives each registration
  canWrite,   \* whether the connector was given a VLE client
  repair,     \* reconcileRoster: the rows it has read and not yet pushed
  drifted,    \* registrations that reconciliation has pushed to the VLE, or whose
              \* rows were written without a VLE client
  faults

srsVars == <<stream>>
serverVars == <<start, delivered, acked>>
localVars == <<ledger, persons, courses, map>>
repairVars == <<repair, drifted>>
vars == <<stream, start, delivered, acked, task, ledger, persons, courses, map, vle,
          canWrite, repair, drifted, faults>>

-----------------------------------------------------------------------------
(* The SRS side: what is published, in the order it is committed.          *)

\* ALLOWED_TRANSITIONS of an enrolment.
EnrolmentTransitions ==
  [enrolled     |-> {"intermitting", "withdrawn", "suspended", "graduated"},
   intermitting |-> {"enrolled", "withdrawn"},
   suspended    |-> {"enrolled", "withdrawn"},
   withdrawn    |-> {},
   graduated    |-> {}]

ASSUME StatusAssumption == StatusChanges \subseteq DOMAIN EnrolmentTransitions

AccessStates == {"active", "suspended", "withdrawn", "completed"}

RegistrationEvents == {"registered", "withdrawn", "completed"}

Event ==
  [kind : {"module"}, of : Modules]
    \cup [kind : {"enrolled"}, of : Enrolments]
    \cup [kind : RegistrationEvents, of : Registrations]
    \cup [kind : {"status"}, of : Enrolments, status : DOMAIN EnrolmentTransitions]

Published == DOMAIN stream

EventsAbout(x) == {s \in Published : stream[s].of = x}

Latest(S) == CHOOSE s \in S : \A t \in S : t <= s

\* The last event about x says what the SRS holds of it.
EnrolmentStatus(e) ==
  LET ev == stream[Latest(EventsAbout(e))]
  IN  IF ev.kind = "enrolled" THEN "enrolled" ELSE ev.status

IsEnrolled(e) == EventsAbout(e) # {} /\ EnrolmentStatus(e) = "enrolled"

IsRegistered(r) == EventsAbout(r) # {} /\ stream[Latest(EventsAbout(r))].kind = "registered"

Publish(ev) ==
  /\ Len(stream) < MaxEvents
  /\ stream' = Append(stream, ev)
  /\ UNCHANGED <<serverVars, task, localVars, vle, canWrite, repairVars, faults>>

UpdateModule(m) == EventsAbout(m) = {} /\ Publish([kind |-> "module", of |-> m])

Enrol(e) == EventsAbout(e) = {} /\ Publish([kind |-> "enrolled", of |-> e])

\* createRegistration: the enrolment must be 'enrolled'.
Register(r) ==
  /\ EventsAbout(r) = {}
  /\ IsEnrolled(EnrolmentOf[r])
  /\ Publish([kind |-> "registered", of |-> r])

\* #transitionRegistration: only a 'registered' registration ends, once.
EndRegistration(r) ==
  /\ IsRegistered(r)
  /\ \E k \in {"withdrawn", "completed"} : Publish([kind |-> k, of |-> r])

\* transitionStatus of the enrolment service.
ChangeStatus(e) ==
  /\ EventsAbout(e) # {}
  /\ \E s \in StatusChanges \cap EnrolmentTransitions[EnrolmentStatus(e)] :
       Publish([kind |-> "status", of |-> e, status |-> s])

-----------------------------------------------------------------------------
(* The connector's handlers.                                               *)

\* STATUS_MAP
StatusMap ==
  [active |-> "active", suspended |-> "suspended", interrupted |-> "suspended",
   withdrawn |-> "withdrawn", completed |-> "completed"]

\* A mutant for Access: the SRS status is passed on as it is.
AccessUnmapped(status) == status

\* toVleAccessState: an unknown status is 'suspended'.
Access(status) == IF status \in DOMAIN StatusMap THEN StatusMap[status] ELSE "suspended"

Row == [status : AccessStates, synced : BOOLEAN]

\* NoRow and NoAccess are none of the values whose absence they stand for.
ASSUME AbsentAssumption == NoRow \notin Row /\ NoAccess \notin AccessStates

Mapped == {r \in Registrations : map[r] # NoRow}

\* The registrations whose map rows the handler of an event writes.
Targets(ev) ==
  CASE ev.kind = "registered" ->
         {r \in {ev.of} : EnrolmentOf[r] \in persons /\ ModuleOf[r] \in courses}
    [] ev.kind \in {"withdrawn", "completed"} -> Mapped \cap {ev.of}
    [] ev.kind = "status" -> {r \in Mapped : EnrolmentOf[r] = ev.of}
    [] OTHER -> {}

\* The access it gives them.
Granted(ev) ==
  CASE ev.kind = "registered" -> "active"
    [] ev.kind = "status"     -> Access(ev.status)
    [] OTHER                  -> ev.kind

\* upsertEnrolmentMapping for a registration, updateEnrolmentStatus for the rest.
RowAfter(ev, r) ==
  IF ev.kind = "registered" THEN [status |-> "active", synced |-> canWrite]
                            ELSE [map[r] EXCEPT !.status = Granted(ev)]

\* A VLE answers 404 to a status change of an enrolment it does not hold.
VleAccepts(ev, r) == ev.kind = "registered" \/ vle[r] # NoAccess

-----------------------------------------------------------------------------
(* The message loop.                                                       *)

Idle == [at |-> "idle"]

\* handle: in the handler's transaction, "todo" being the registrations whose
\* VLE call has not been made; settle: about to answer the server.
Task ==
  {Idle}
    \cup [at : {"handle"}, seq : 1..MaxEvents, targets : SUBSET Registrations,
          todo : SUBSET Registrations]
    \cup [at : {"settle"}, seq : 1..MaxEvents, ack : BOOLEAN]

\* A mutant for AlreadyProcessed: there is no idempotency check.
NeverProcessed(s) == FALSE

AlreadyProcessed(s) == ledger[s] > 0

\* deliveryCount + 1 >= maxAttempts, where deliveryCount = FirstCount at first: the
\* attempt that is one before the last.
GivesUp(s) == delivered[s] + FirstCount >= MaxAttempts

\* First deliveries are in stream order; a message that was not acknowledged
\* comes back at any time later, behind whatever arrived meanwhile.
Deliverable(s) ==
  /\ s \in Published
  /\ s >= start
  /\ s \notin acked
  /\ delivered[s] < MaxAttempts
  /\ \A t \in start..(s - 1) : delivered[t] > 0

Deliver(s) ==
  /\ task = Idle
  /\ Deliverable(s)
  /\ delivered' = [delivered EXCEPT ![s] = @ + 1]
  /\ task' = IF AlreadyProcessed(s)
             THEN [at |-> "settle", seq |-> s, ack |-> TRUE]
             ELSE [at |-> "handle", seq |-> s, targets |-> Targets(stream[s]),
                   todo |-> IF canWrite THEN Targets(stream[s]) ELSE {}]
  /\ UNCHANGED <<srsVars, start, acked, localVars, vle, canWrite, repairVars, faults>>

CallVle(r) ==
  /\ task.at = "handle"
  /\ r \in task.todo
  /\ VleAccepts(stream[task.seq], r)
  /\ vle' = [vle EXCEPT ![r] = Granted(stream[task.seq])]
  /\ task' = [task EXCEPT !.todo = @ \ {r}]
  /\ UNCHANGED <<srsVars, serverVars, localVars, canWrite, repairVars, faults>>

\* A mutant for HandlerFails: the loop tries the handler again itself, without bound.
HandlerRetried ==
  /\ task.at = "handle"
  /\ canWrite
  /\ task' = [task EXCEPT !.todo = task.targets]
  /\ UNCHANGED <<srsVars, serverVars, localVars, vle, canWrite, repairVars, faults>>

\* A VLE call, or a statement of the transaction, fails: it rolls back.
HandlerFails ==
  /\ task.at = "handle"
  /\ task' = [at |-> "settle", seq |-> task.seq, ack |-> GivesUp(task.seq)]
  /\ UNCHANGED <<srsVars, serverVars, localVars, vle, canWrite, repairVars, faults>>

\* A mutant for CallsMade: the handler does not await its calls to the VLE.
CallsNotAwaited == TRUE

CallsMade == task.todo = {}

\* The transaction writes the maps and the 'processed' row together.
Commit ==
  /\ task.at = "handle"
  /\ CallsMade
  /\ LET ev == stream[task.seq] IN
       /\ map' = [r \in Registrations |-> IF r \in task.targets THEN RowAfter(ev, r) ELSE map[r]]
       /\ persons' = persons \cup {e \in Enrolments : ev.kind = "enrolled" /\ e = ev.of}
       /\ courses' = courses \cup {m \in Modules : ev.kind = "module" /\ m = ev.of /\ canWrite}
  /\ ledger' = [ledger EXCEPT ![task.seq] = @ + 1]
  /\ task' = [at |-> "settle", seq |-> task.seq, ack |-> TRUE]
  /\ drifted' = IF canWrite THEN drifted ELSE drifted \cup task.targets
  /\ UNCHANGED <<srsVars, serverVars, vle, canWrite, repair, faults>>

\* msg.ack() or msg.nak()
Settle ==
  /\ task.at = "settle"
  /\ acked' = IF task.ack THEN acked \cup {task.seq} ELSE acked
  /\ task' = Idle
  /\ UNCHANGED <<srsVars, start, delivered, localVars, vle, canWrite, repairVars, faults>>

-----------------------------------------------------------------------------
(* Failures of the connector and of the server.                            *)

\* msg.ack() is not confirmed: the server redelivers when it was lost.
AckLost ==
  /\ faults < MaxFaults
  /\ faults' = faults + 1
  /\ task.at = "settle"
  /\ task.ack
  /\ task' = Idle
  /\ UNCHANGED <<srsVars, serverVars, localVars, vle, canWrite, repairVars>>

\* The connector restarts and re-attaches to its durable consumer.  A restart
\* may change the configuration that gives it a VLE client.
Crash ==
  /\ faults < MaxFaults
  /\ faults' = faults + 1
  /\ task' = Idle
  /\ repair' = {}
  /\ canWrite' \in BOOLEAN
  /\ UNCHANGED <<srsVars, serverVars, localVars, vle, drifted>>

Checkpoint == {s \in 1..MaxEvents : ledger[s] > 0}

\* It restarts to find the durable consumer gone: ensureConsumer creates one
\* that starts after the highest sequence number processed.
ConsumerLost ==
  /\ faults < MaxFaults
  /\ faults' = faults + 1
  /\ start' = IF Checkpoint = {} THEN 1 ELSE Latest(Checkpoint) + 1
  /\ delivered' = [s \in 1..MaxEvents |-> 0]
  /\ acked' = {}
  /\ task' = Idle
  /\ repair' = {}
  /\ UNCHANGED <<srsVars, localVars, vle, canWrite, drifted>>

-----------------------------------------------------------------------------
(* Roster reconciliation, in a process of its own and in no transaction.   *)

\* A row that a pass has read, and whether its VLE call has been made.
Snapshot == [reg : Registrations, status : AccessStates, pushed : BOOLEAN]

\* findUnsyncedEnrolments
RepairRead ==
  /\ canWrite
  /\ repair = {}
  /\ \E r \in Mapped : ~map[r].synced
  /\ repair' = {[reg |-> r, status |-> map[r].status, pushed |-> FALSE] :
                  r \in {x \in Mapped : ~map[x].synced}}
  /\ UNCHANGED <<srsVars, serverVars, task, localVars, vle, canWrite, drifted, faults>>

\* upsertEnrolment for the next row, with the status that was read.
RepairPush(x) ==
  /\ x \in repair
  /\ \A y \in repair : ~y.pushed
  /\ vle' = [vle EXCEPT ![x.reg] = x.status]
  /\ drifted' = drifted \cup {x.reg}
  /\ repair' = (repair \ {x}) \cup {[x EXCEPT !.pushed = TRUE]}
  /\ UNCHANGED <<srsVars, serverVars, task, localVars, canWrite, faults>>

\* A mutant for RepairWrite: the row is marked before its VLE call.
RepairWriteFirst(x) ==
  /\ x \in repair
  /\ ~x.pushed
  /\ map' = [map EXCEPT ![x.reg].synced = TRUE]
  /\ repair' = repair \ {x}
  /\ UNCHANGED <<srsVars, serverVars, task, ledger, persons, courses, vle, canWrite,
                 drifted, faults>>

\* updateEnrolmentVleId
RepairWrite(x) ==
  /\ x \in repair
  /\ x.pushed
  /\ map' = [map EXCEPT ![x.reg].synced = TRUE]
  /\ repair' = repair \ {x}
  /\ UNCHANGED <<srsVars, serverVars, task, ledger, persons, courses, vle, canWrite,
                 drifted, faults>>

\* Either call fails: the row is left for a later pass.
RepairFails(x) ==
  /\ x \in repair
  /\ x.pushed \/ \A y \in repair : ~y.pushed
  /\ repair' = repair \ {x}
  /\ UNCHANGED <<srsVars, serverVars, task, localVars, vle, canWrite, drifted, faults>>

-----------------------------------------------------------------------------
Init ==
  /\ stream = <<>>
  /\ start = 1
  /\ delivered = [s \in 1..MaxEvents |-> 0]
  /\ acked = {}
  /\ task = Idle
  /\ ledger = [s \in 1..MaxEvents |-> 0]
  /\ persons = {}
  /\ courses = {}
  /\ map = [r \in Registrations |-> NoRow]
  /\ vle = [r \in Registrations |-> NoAccess]
  /\ canWrite \in BOOLEAN
  /\ repair = {}
  /\ drifted = {}
  /\ faults = 0

Srs ==
  \/ \E m \in Modules : UpdateModule(m)
  \/ \E e \in Enrolments : Enrol(e) \/ ChangeStatus(e)
  \/ \E r \in Registrations : Register(r) \/ EndRegistration(r)

Loop ==
  \/ \E s \in Published : Deliver(s)
  \/ \E r \in Registrations : CallVle(r)
  \/ HandlerFails
  \/ Commit
  \/ Settle

Reconcile ==
  \/ RepairRead
  \/ \E x \in Snapshot : RepairPush(x) \/ RepairWrite(x) \/ RepairFails(x)

Next == Srs \/ Loop \/ Reconcile \/ AckLost \/ Crash \/ ConsumerLost

Spec == Init /\ [][Next]_vars

(* The message loop awaits its next message and each of its calls for as   *)
(* long as the connector runs, and the server redelivers what was not      *)
(* acknowledged; reconciliation is run again and again.  Nothing says that *)
(* the SRS publishes, or that a call to the VLE ever succeeds.             *)
FairSpec == Spec /\ WF_vars(Loop) /\ WF_vars(Reconcile)

-----------------------------------------------------------------------------
TypeOK ==
  /\ stream \in Seq(Event) /\ Len(stream) <= MaxEvents
  /\ start \in 1..(MaxEvents + 1)
  /\ delivered \in [1..MaxEvents -> 0..MaxAttempts]
  /\ acked \subseteq Published
  /\ task \in Task
  /\ ledger \in [1..MaxEvents -> Nat]
  /\ persons \subseteq Enrolments /\ courses \subseteq Modules
  /\ map \in [Registrations -> Row \cup {NoRow}]
  /\ vle \in [Registrations -> AccessStates \cup {NoAccess}]
  /\ canWrite \in BOOLEAN
  /\ repair \subseteq Snapshot
  /\ drifted \subseteq Registrations
  /\ faults \in 0..MaxFaults

\* However often an event is delivered, and wherever the connector faults,
\* its handler commits at most once (the idempotency check of dispatch).
NoEventProcessedTwice == \A s \in 1..MaxEvents : ledger[s] <= 1

\* A map row that holds a VLE identifier stands for an enrolment that the VLE
\* has: neither the handlers nor reconciliation record one they were not given.
SyncedRowsAreInVle ==
  \A r \in Mapped : map[r].synced => vle[r] # NoAccess

Concerning(r) == EventsAbout(r) \cup EventsAbout(EnrolmentOf[r])

\* Once every event that concerns a registration has been processed, the VLE
\* gives it the access the map records, whatever attempts failed half way on
\* the way there (VLE calls are not rolled back).  Two kinds of row are
\* excepted: reconciliation may push a status that was changed meanwhile, and
\* a row that is changed without a client stays marked as synced.
RosterAgrees ==
  \A r \in Mapped \ drifted :
    map[r].synced /\ (\A s \in Concerning(r) : AlreadyProcessed(s))
      => vle[r] = map[r].status

\* Processed, acknowledged unprocessed, delivered as often as the server will, or
\* before the start of the durable consumer.
Settled(s) == ledger[s] > 0 \/ s \in acked \/ delivered[s] = MaxAttempts \/ s < start

\* The connector catches up with the stream again and again: no event, however its
\* handler fails and its acknowledgement is lost, stays unsettled or keeps the ones
\* behind it waiting (processMessages).
EveryEventSettles == []<>(\A s \in Published : Settled(s))

\* What the consumer says of an event that it gives up, "Max attempts exceeded", and
\* the event consumer guide, "After `MaxDeliver` attempts": an event is acknowledged
\* unprocessed only after it was delivered maxAttempts times.
GivenUpAfterMaxAttempts == \A s \in acked : ledger[s] > 0 \/ delivered[s] = MaxAttempts

\* What handleModuleRegistered says of a registration it could not map, "marking
\* processed for later reconciliation": once the student and the course are
\* known and the connector can write, a registration whose event was processed
\* has a map row sooner or later.
ProcessedRegistrationsAreMapped ==
  \A r \in Registrations, s \in 1..MaxEvents :
    (/\ s \in Published /\ stream[s] = [kind |-> "registered", of |-> r] /\ ledger[s] > 0
     /\ EnrolmentOf[r] \in persons /\ ModuleOf[r] \in courses /\ canWrite)
      ~> r \in Mapped

\* What the VLE integration guide says of a status change, "suspend or
\* reactivate VLE access": when every event has been processed, at its first
\* delivery and so in order, a registration that stands, of a student who is
\* enrolled, has active access.
EnrolledStudentsHaveAccess ==
  (\A s \in Published : ledger[s] > 0 /\ delivered[s] = 1)
    => \A r \in Mapped :
         IsRegistered(r) /\ IsEnrolled(EnrolmentOf[r]) /\ map[r].synced
           => vle[r] = "active"

===============================================================================
