------------------------------ MODULE RosterProofs ------------------------------
(***************************************************************************)
(* Theorems about VleRoster, for any number of registrations, events,      *)
(* attempts and faults.                                                    *)
(*                                                                         *)
(* What the handler has sent to the VLE survives the rollback of its       *)
(* transaction, and reconciliation writes the same rows beside it.  The    *)
(* invariant says what the loop holds of the event in hand, and what a     *)
(* pass holds of the rows that it has read.                                *)
(***************************************************************************)
EXTENDS VleRoster, WellFoundedInduction, TLAPS

-------------------------------------------------------------------------------
(* The invariant.                                                          *)

Handling == task.at = "handle"

\* Handling the event changes the access of the registration.
Touches(ev, r) ==
  \/ ev.kind \in RegistrationEvents /\ ev.of = r
  \/ ev.kind = "status" /\ ev.of = EnrolmentOf[r]

\* The event in hand has not been processed, and nothing that its targets depend on has
\* changed since it was delivered; the VLE has what it was sent.
HandledFits ==
  LET ev == stream[task.seq]
  IN  /\ ledger[task.seq] = 0
      /\ task.targets = Targets(ev)
      /\ task.todo \subseteq task.targets
      /\ canWrite => \A r \in task.targets \ task.todo :
                       vle[r] # NoAccess /\ (vle[r] = Granted(ev) \/ r \in drifted)

TaskFits ==
  /\ task # Idle => task.seq \in Published
  /\ Handling => HandledFits

\* A mapped registration is of a known student on a known course.
MapFits(r) ==
  /\ EnrolmentOf[r] \in persons /\ ModuleOf[r] \in courses
  /\ map[r].synced => vle[r] # NoAccess
  /\ map[r].synced /\ r \notin drifted =>
       \/ vle[r] = map[r].status
       \/ \E s \in Published : Touches(stream[s], r) /\ ledger[s] = 0

\* A pass has read rows of the map; the VLE has what it pushed.
RepairFits(x) ==
  /\ x.reg \in Mapped
  /\ x.pushed => vle[x.reg] # NoAccess /\ x.reg \in drifted

RosterInv ==
  /\ TypeOK
  /\ TaskFits
  /\ \A r \in Mapped : MapFits(r)
  /\ \A x \in repair : RepairFits(x)
  /\ NoEventProcessedTwice

-------------------------------------------------------------------------------
(* The events and what handling them does.                                 *)

LEMMA EventShape ==
  ASSUME NEW ev \in Event
  PROVE  /\ ev.kind \in {"module", "enrolled", "status"} \cup RegistrationEvents
         /\ ev.kind = "module" => ev.of \in Modules
         /\ ev.kind \in {"enrolled", "status"} => ev.of \in Enrolments
         /\ ev.kind \in RegistrationEvents => ev.of \in Registrations
         /\ ev.kind = "status" => ev.status \in DOMAIN EnrolmentTransitions
BY DEF Event, RegistrationEvents

LEMMA GrantedOf ==
  ASSUME NEW ev
  PROVE  /\ ev.kind = "registered" => Granted(ev) = "active"
         /\ ev.kind = "status" => Granted(ev) = Access(ev.status)
         /\ ev.kind \notin {"registered", "status"} => Granted(ev) = ev.kind
BY DEF Granted

LEMMA TargetsOf ==
  ASSUME NEW ev
  PROVE  /\ ev.kind = "registered" =>
              Targets(ev) = {r \in {ev.of} : EnrolmentOf[r] \in persons /\ ModuleOf[r] \in courses}
         /\ ev.kind \in {"withdrawn", "completed"} => Targets(ev) = Mapped \cap {ev.of}
         /\ ev.kind = "status" => Targets(ev) = {r \in Mapped : EnrolmentOf[r] = ev.of}
         /\ ev.kind \in {"module", "enrolled"} => Targets(ev) = {}
BY DEF Targets

LEMMA GrantedIsAccess ==
  ASSUME NEW ev \in Event, ev.kind \notin {"module", "enrolled"}
  PROVE  Granted(ev) \in AccessStates
<1>1. ev.kind \in {"status", "registered", "withdrawn", "completed"}
  BY EventShape DEF RegistrationEvents
<1>2. \A status : Access(status) \in AccessStates
  BY DEF Access, StatusMap, AccessStates
<1> QED  BY <1>1, <1>2, GrantedOf DEF AccessStates

\* The targets of an event.
LEMMA TargetsShape ==
  ASSUME NEW ev \in Event
  PROVE  /\ Targets(ev) \subseteq Registrations
         /\ ev.kind \in {"module", "enrolled"} => Targets(ev) = {}
         /\ ev.kind \notin {"module", "enrolled", "registered"} => Targets(ev) \subseteq Mapped
         /\ ev.kind = "registered" =>
              \A r \in Targets(ev) : EnrolmentOf[r] \in persons /\ ModuleOf[r] \in courses
         /\ \A r \in Targets(ev) : Touches(ev, r)
<1>1. CASE ev.kind = "registered"
  BY <1>1, EventShape, TargetsOf DEF Touches, RegistrationEvents
<1>2. CASE ev.kind \in {"withdrawn", "completed"}
  BY <1>2, EventShape, TargetsOf DEF Touches, RegistrationEvents, Mapped
<1>3. CASE ev.kind = "status"
  BY <1>3, EventShape, TargetsOf DEF Touches, Mapped
<1>4. CASE ev.kind \in {"module", "enrolled"}
  BY <1>4, TargetsOf
<1> QED  BY <1>1, <1>2, <1>3, <1>4, EventShape DEF RegistrationEvents

\* An event that touches a mapped registration has it among its targets.
LEMMA TouchedIsTarget ==
  ASSUME NEW ev \in Event, NEW r \in Mapped, MapFits(r), Touches(ev, r)
  PROVE  r \in Targets(ev)
<1>1. CASE ev.kind = "registered" /\ ev.of = r
  BY <1>1, TargetsOf DEF MapFits
<1>2. CASE ev.kind \in {"withdrawn", "completed"} /\ ev.of = r
  BY <1>2, TargetsOf
<1>3. CASE ev.kind = "status" /\ ev.of = EnrolmentOf[r]
  BY <1>3, TargetsOf
<1> QED  BY <1>1, <1>2, <1>3 DEF Touches, RegistrationEvents

LEMMA RowAfterType ==
  ASSUME TypeOK, NEW ev \in Event, NEW r \in Targets(ev)
  PROVE  /\ RowAfter(ev, r) \in Row
         /\ RowAfter(ev, r).status = Granted(ev)
         /\ RowAfter(ev, r).synced =
              IF ev.kind = "registered" THEN canWrite ELSE map[r].synced
<1>1. ev.kind \notin {"module", "enrolled"}
  BY TargetsShape
<1>2. Granted(ev) \in AccessStates
  BY <1>1, GrantedIsAccess
<1>3. CASE ev.kind = "registered"
  BY <1>3, GrantedOf DEF RowAfter, Row, AccessStates, TypeOK
<1>4. CASE ev.kind # "registered"
  <2>1. r \in Mapped
    BY <1>1, <1>4, TargetsShape
  <2>2. map[r] \in Row
    BY <2>1 DEF Mapped, TypeOK
  <2>3. RowAfter(ev, r) = [map[r] EXCEPT !.status = Granted(ev)]
    BY <1>4 DEF RowAfter
  <2> HIDE DEF Granted
  <2> QED  BY <1>2, <1>4, <2>2, <2>3 DEF Row
<1> QED  BY <1>3, <1>4

\* The targets depend on nothing else.
LEMMA TargetsStay ==
  ASSUME Mapped' = Mapped, UNCHANGED <<persons, courses>>, NEW ev
  PROVE  Targets(ev)' = Targets(ev)
BY DEF Targets

LEMMA TaskShape ==
  ASSUME TypeOK
  PROVE  /\ task.at = "handle" => task \in [at : {"handle"}, seq : 1..MaxEvents,
                                            targets : SUBSET Registrations,
                                            todo : SUBSET Registrations]
         /\ task.at = "settle" => task \in [at : {"settle"}, seq : 1..MaxEvents, ack : BOOLEAN]
         /\ task.at \in {"idle", "handle", "settle"}
         /\ task.at = "idle" => task = Idle
         /\ Idle.at = "idle"
BY DEF TypeOK, Task, Idle

LEMMA PublishedShape ==
  ASSUME TypeOK
  PROVE  /\ Published = 1..Len(stream) /\ Published \subseteq 1..MaxEvents
         /\ \A s \in Published : stream[s] \in Event
BY RosterAssumption DEF TypeOK, Published

-------------------------------------------------------------------------------
(* The steps.                                                              *)

LEMMA InitRoster == Init => RosterInv
<1> SUFFICES ASSUME Init PROVE RosterInv
  OBVIOUS
<1>1. TypeOK
  BY RosterAssumption DEF Init, TypeOK, Task, Published, Event
<1>2. Mapped = {} /\ repair = {}
  BY DEF Init, Mapped
<1>3. TaskFits
  BY DEF Init, TaskFits, Idle, Handling
<1>4. NoEventProcessedTwice
  BY DEF Init, NoEventProcessedTwice
<1> QED  BY <1>1, <1>2, <1>3, <1>4 DEF RosterInv

\* What the SRS publishes is an event; the rest of the system waits.
LEMMA SrsPublishes ==
  ASSUME Srs
  PROVE  \E ev \in Event : Publish(ev)
<1>1. ASSUME NEW m \in Modules, UpdateModule(m) PROVE \E ev \in Event : Publish(ev)
  BY <1>1 DEF UpdateModule, Event
<1>2. ASSUME NEW e \in Enrolments, Enrol(e) PROVE \E ev \in Event : Publish(ev)
  BY <1>2 DEF Enrol, Event
<1>3. ASSUME NEW e \in Enrolments, ChangeStatus(e) PROVE \E ev \in Event : Publish(ev)
  BY <1>3, StatusAssumption DEF ChangeStatus, Event
<1>4. ASSUME NEW r \in Registrations, Register(r) PROVE \E ev \in Event : Publish(ev)
  BY <1>4 DEF Register, Event, RegistrationEvents
<1>5. ASSUME NEW r \in Registrations, EndRegistration(r) PROVE \E ev \in Event : Publish(ev)
  BY <1>5 DEF EndRegistration, Event, RegistrationEvents
<1> QED  BY <1>1, <1>2, <1>3, <1>4, <1>5 DEF Srs

LEMMA PublishKeepsRoster ==
  ASSUME RosterInv, NEW ev \in Event, Publish(ev)
  PROVE  RosterInv'
<1>t. TypeOK
  BY DEF RosterInv
<1>1. /\ Len(stream) < MaxEvents /\ stream \in Seq(Event)
      /\ stream' = Append(stream, ev)
      /\ UNCHANGED <<start, delivered, acked, task, ledger, persons, courses, map, vle, canWrite,
                     repair, drifted, faults>>
  BY <1>t DEF Publish, TypeOK, serverVars, localVars, repairVars
<1>2. /\ Published \subseteq Published'
      /\ \A s \in Published : stream'[s] = stream[s]
      /\ stream' \in Seq(Event) /\ Len(stream') <= MaxEvents
  BY <1>1, RosterAssumption DEF Published
<1>3. Mapped' = Mapped /\ \A e : Targets(e)' = Targets(e)
  <2>1. Mapped' = Mapped
    BY <1>1 DEF Mapped
  <2> QED  BY <1>1, <2>1, TargetsStay
<1>4. TypeOK'
  BY <1>t, <1>1, <1>2 DEF TypeOK
<1>5. TaskFits'
  <2>1. TaskFits
    BY DEF RosterInv
  <2>2. (task # Idle => task.seq \in Published)'
    BY <1>1, <1>2, <2>1 DEF TaskFits
  <2>3. ASSUME Handling' PROVE HandledFits'
    <3>1. task.seq \in Published /\ HandledFits
      BY <1>1, <2>1, <2>3 DEF TaskFits, Handling, Idle
    <3>2. stream'[task.seq] = stream[task.seq]
      BY <1>2, <3>1
    <3> QED  BY <1>1, <1>3, <3>1, <3>2 DEF HandledFits, Granted, Access
  <2> QED  BY <2>2, <2>3 DEF TaskFits
<1>6. ASSUME NEW r \in Mapped' PROVE MapFits(r)'
  <2>1. MapFits(r)
    BY <1>3, <1>6 DEF RosterInv
  <2> QED  BY <1>1, <1>2, <2>1 DEF MapFits, Touches
<1>7. ASSUME NEW x \in repair' PROVE RepairFits(x)'
  <2>1. RepairFits(x)
    BY <1>1, <1>7 DEF RosterInv
  <2> QED  BY <1>1, <1>3, <2>1 DEF RepairFits
<1>8. NoEventProcessedTwice'
  BY <1>1 DEF RosterInv, NoEventProcessedTwice
<1> QED  BY <1>4, <1>5, <1>6, <1>7, <1>8 DEF RosterInv

\* A step that leaves the tables and the VLE alone.
LEMMA TablesStay ==
  ASSUME RosterInv, UNCHANGED <<stream, ledger, persons, courses, map, vle, drifted>>,
         repair' \subseteq repair
  PROVE  /\ \A r \in Mapped' : MapFits(r)'
         /\ \A x \in repair' : RepairFits(x)'
         /\ NoEventProcessedTwice'
         /\ Mapped' = Mapped /\ Published' = Published
<1>1. Mapped' = Mapped /\ Published' = Published
  BY DEF Mapped, Published
<1>2. ASSUME NEW r \in Mapped' PROVE MapFits(r)'
  BY <1>1, <1>2 DEF RosterInv, MapFits, Touches
<1>3. ASSUME NEW x \in repair' PROVE RepairFits(x)'
  BY <1>1, <1>3 DEF RosterInv, RepairFits
<1> QED  BY <1>1, <1>2, <1>3 DEF RosterInv, NoEventProcessedTwice

LEMMA DeliverKeepsRoster ==
  ASSUME RosterInv, NEW s \in Published, Deliver(s)
  PROVE  RosterInv'
<1>t. TypeOK
  BY DEF RosterInv
<1>1. /\ UNCHANGED <<stream, start, acked, ledger, persons, courses, map, vle, canWrite, repair,
                     drifted, faults>>
      /\ delivered[s] < MaxAttempts /\ s \notin acked
      /\ delivered' = [delivered EXCEPT ![s] = @ + 1]
  BY DEF Deliver, Deliverable, srsVars, localVars, repairVars
<1>2. /\ \A r \in Mapped' : MapFits(r)'
      /\ \A x \in repair' : RepairFits(x)'
      /\ NoEventProcessedTwice'
      /\ Mapped' = Mapped /\ Published' = Published
  BY <1>1, TablesStay
<1>3. s \in 1..MaxEvents /\ stream[s] \in Event /\ ledger[s] \in Nat
  BY <1>t, PublishedShape DEF TypeOK
<1>4. delivered' \in [1..MaxEvents -> 0..MaxAttempts]
  BY <1>t, <1>1, <1>3, RosterAssumption DEF TypeOK
<1>5. CASE AlreadyProcessed(s)
  <2>1. task' = [at |-> "settle", seq |-> s, ack |-> TRUE]
    BY <1>5 DEF Deliver
  <2>2. task' \in Task
    BY <1>3, <2>1 DEF Task
  <2>3. TypeOK'
    BY <1>t, <1>1, <1>2, <1>4, <2>2 DEF TypeOK
  <2>4. TaskFits'
    BY <1>1, <1>2, <1>5, <2>1 DEF TaskFits, Handling, AlreadyProcessed
  <2> QED  BY <1>1, <1>2, <2>3, <2>4 DEF RosterInv
<1>6. CASE ~AlreadyProcessed(s)
  <2> DEFINE T == Targets(stream[s])
  <2>1. task' = [at |-> "handle", seq |-> s, targets |-> T, todo |-> IF canWrite THEN T ELSE {}]
    BY <1>6 DEF Deliver
  <2>2. T \subseteq Registrations
    BY <1>3, TargetsShape
  <2>3. Targets(stream[s])' = T
    BY <1>1, <1>2, TargetsStay
  <2> HIDE DEF T
  <2>4. task' \in Task
    BY <1>3, <2>1, <2>2 DEF Task
  <2>5. TypeOK'
    BY <1>t, <1>1, <1>2, <1>4, <2>4 DEF TypeOK
  <2>6. HandledFits'
    BY <1>1, <1>3, <1>6, <2>1, <2>3 DEF HandledFits, AlreadyProcessed
  <2>7. TaskFits'
    BY <1>2, <2>1, <2>6 DEF TaskFits, Handling
  <2> QED  BY <1>1, <1>2, <2>5, <2>7 DEF RosterInv
<1> QED  BY <1>5, <1>6

LEMMA CallKeepsRoster ==
  ASSUME RosterInv, NEW r \in Registrations, CallVle(r)
  PROVE  RosterInv'
<1> DEFINE s == task.seq
           ev == stream[s]
<1>t. TypeOK
  BY DEF RosterInv
<1>h. /\ Handling /\ HandledFits /\ s \in Published /\ r \in task.todo
  BY DEF CallVle, RosterInv, TaskFits, Handling, Idle
<1>1. /\ UNCHANGED <<stream, start, delivered, acked, ledger, persons, courses, map, canWrite,
                     repair, drifted, faults>>
      /\ vle' = [vle EXCEPT ![r] = Granted(ev)]
      /\ task' = [task EXCEPT !.todo = @ \ {r}]
  BY DEF CallVle, srsVars, serverVars, localVars, repairVars
<1>2. /\ Mapped' = Mapped /\ Published' = Published
      /\ s \in 1..MaxEvents /\ ev \in Event
  BY <1>t, <1>h, <1>1, PublishedShape DEF Mapped, Published
<1>3. \A e : Targets(e)' = Targets(e)
  BY <1>1, <1>2, TargetsStay
<1>4. /\ task \in [at : {"handle"}, seq : 1..MaxEvents, targets : SUBSET Registrations,
                    todo : SUBSET Registrations]
      /\ r \in Targets(ev) /\ Touches(ev, r) /\ ledger[s] = 0
  <2>1. task \in [at : {"handle"}, seq : 1..MaxEvents, targets : SUBSET Registrations,
                  todo : SUBSET Registrations]
    BY <1>t, <1>h, TaskShape DEF Handling
  <2>2. r \in Targets(ev) /\ ledger[s] = 0
    BY <1>h DEF HandledFits
  <2> QED  BY <1>2, <2>1, <2>2, TargetsShape
<1>5. Granted(ev) \in AccessStates /\ Granted(ev) # NoAccess
  BY <1>2, <1>4, TargetsShape, GrantedIsAccess, AbsentAssumption
<1> HIDE DEF s, ev
<1>6. /\ vle' \in [Registrations -> AccessStates \cup {NoAccess}]
      /\ vle'[r] = Granted(ev) /\ \A x \in Registrations : x # r => vle'[x] = vle[x]
      /\ \A x \in Registrations : vle[x] # NoAccess => vle'[x] # NoAccess
  BY <1>t, <1>1, <1>5 DEF TypeOK
<1>7. /\ task' \in Task
      /\ task'.at = "handle" /\ task'.seq = s /\ task'.targets = task.targets
      /\ task'.todo = task.todo \ {r}
  BY <1>1, <1>4 DEF Task, s
<1>8. TypeOK'
  BY <1>t, <1>1, <1>2, <1>6, <1>7 DEF TypeOK
<1>9. Granted(stream[task.seq])' = Granted(ev)
  BY <1>1, <1>7 DEF Granted, Access, ev
<1>10. HandledFits'
  <2>1. stream'[task'.seq] = ev /\ ledger'[task'.seq] = 0 /\ canWrite' = canWrite
    BY <1>1, <1>4, <1>7 DEF ev
  <2>2. (task.targets = Targets(stream[task.seq]))'
    <3>1. task.targets = Targets(ev)
      BY <1>h DEF HandledFits, ev, s
    <3> QED  BY <1>1, <1>3, <1>7, <3>1 DEF ev
  <2>3. (task.todo \subseteq task.targets)'
    BY <1>h, <1>7 DEF HandledFits
  <2>4. ASSUME canWrite, NEW x \in task'.targets \ task'.todo
        PROVE  vle'[x] # NoAccess /\ (vle'[x] = Granted(ev) \/ x \in drifted')
    <3>1. x \in Registrations
      BY <1>4, <1>7, <2>4
    <3>2. CASE x = r
      BY <1>5, <1>6, <3>2
    <3>3. CASE x # r
      BY <1>1, <1>6, <1>7, <1>h, <2>4, <3>1, <3>3 DEF HandledFits, ev, s
    <3> QED  BY <3>2, <3>3
  <2> QED  BY <1>9, <2>1, <2>2, <2>3, <2>4 DEF HandledFits
<1>11. TaskFits'
  BY <1>2, <1>7, <1>10, <1>h DEF TaskFits, Handling
<1>12. ASSUME NEW x \in Mapped' PROVE MapFits(x)'
  <2>1. MapFits(x) /\ x \in Registrations
    BY <1>2, <1>12 DEF RosterInv, Mapped
  <2>2. CASE x = r
    <3>1. \E t \in Published' : Touches(stream'[t], x) /\ ledger'[t] = 0
      BY <1>1, <1>2, <1>4, <1>h, <2>2 DEF ev, s
    <3> QED  BY <1>1, <1>5, <1>6, <2>1, <2>2, <3>1 DEF MapFits, Touches
  <2>3. CASE x # r
    BY <1>1, <1>2, <1>6, <2>1, <2>3 DEF MapFits, Touches
  <2> QED  BY <2>2, <2>3
<1>13. ASSUME NEW x \in repair' PROVE RepairFits(x)'
  <2>1. RepairFits(x) /\ x.reg \in Registrations
    BY <1>t, <1>1, <1>13 DEF RosterInv, TypeOK, Snapshot
  <2> QED  BY <1>1, <1>2, <1>6, <2>1 DEF RepairFits
<1>14. NoEventProcessedTwice'
  BY <1>1 DEF RosterInv, NoEventProcessedTwice
<1> QED  BY <1>8, <1>11, <1>12, <1>13, <1>14 DEF RosterInv

\* The targets' rows are written with the access that the VLE was given, or without a
\* client; another registration that the event touched would have been a target.
LEMMA CommitKeepsRoster ==
  ASSUME RosterInv, Commit
  PROVE  RosterInv'
<1> DEFINE s == task.seq
           ev == stream[s]
           T == task.targets
           New(r) == RowAfter(ev, r)
<1>t. TypeOK
  BY DEF RosterInv
<1>h. Handling /\ HandledFits /\ s \in Published /\ task.todo = {}
  BY DEF Commit, CallsMade, RosterInv, TaskFits, Handling, Idle
<1>1. /\ UNCHANGED <<stream, start, delivered, acked, vle, canWrite, repair, faults>>
      /\ map' = [r \in Registrations |-> IF r \in T THEN New(r) ELSE map[r]]
      /\ persons \subseteq persons' /\ persons' \subseteq Enrolments
      /\ courses \subseteq courses' /\ courses' \subseteq Modules
      /\ ledger' = [ledger EXCEPT ![s] = @ + 1]
      /\ task' = [at |-> "settle", seq |-> s, ack |-> TRUE]
      /\ drifted' = IF canWrite THEN drifted ELSE drifted \cup T
  BY <1>t DEF Commit, srsVars, serverVars, TypeOK
<1>2. s \in 1..MaxEvents /\ ev \in Event /\ T = Targets(ev) /\ ledger[s] = 0
  BY <1>t, <1>h, PublishedShape DEF HandledFits
<1>3. /\ T \subseteq Registrations
      /\ \A r \in T : /\ New(r) \in Row /\ New(r).status = Granted(ev)
                      /\ New(r).synced = IF ev.kind = "registered" THEN canWrite ELSE map[r].synced
                      /\ ev.kind = "registered" => EnrolmentOf[r] \in persons /\ ModuleOf[r] \in courses
                      /\ ev.kind # "registered" => r \in Mapped
  BY <1>t, <1>2, TargetsShape, RowAfterType
<1>4. \A r \in T : canWrite => vle[r] # NoAccess /\ (vle[r] = Granted(ev) \/ r \in drifted)
  BY <1>h DEF HandledFits
<1>5. \A r \in Mapped \ T : ~Touches(ev, r)
  BY <1>2, TouchedIsTarget DEF RosterInv
<1> HIDE DEF New, T
<1>6. /\ map' \in [Registrations -> Row \cup {NoRow}]
      /\ \A r \in T : map'[r] = New(r)
      /\ \A r \in Registrations \ T : map'[r] = map[r]
      /\ Mapped \subseteq Mapped' /\ Mapped' = Mapped \cup T
  BY <1>t, <1>1, <1>3, AbsentAssumption DEF TypeOK, Mapped
<1> HIDE DEF s, ev
<1>7. /\ ledger' \in [1..MaxEvents -> Nat] /\ ledger'[s] = 1
      /\ \A t \in 1..MaxEvents : t # s => ledger'[t] = ledger[t]
  BY <1>t, <1>1, <1>2 DEF TypeOK
<1>8. TypeOK'
  <2>1. task' \in Task
    BY <1>1, <1>2 DEF Task
  <2>2. drifted' \subseteq Registrations
    BY <1>t, <1>1, <1>3 DEF TypeOK
  <2> QED  BY <1>t, <1>1, <1>6, <1>7, <2>1, <2>2 DEF TypeOK, Published
<1>9. TaskFits'
  <2>1. s \in Published'
    BY <1>1, <1>h DEF Published, s
  <2> QED  BY <1>1, <1>7, <2>1 DEF TaskFits, Handling
<1>10. ASSUME NEW r \in Mapped' PROVE MapFits(r)'
  <2>1. CASE r \in T
    <3>1. map'[r] = New(r)
      BY <1>6, <2>1
    <3>2. EnrolmentOf[r] \in persons' /\ ModuleOf[r] \in courses'
      <4>1. CASE ev.kind = "registered"
        BY <1>1, <1>3, <2>1, <4>1
      <4>2. CASE ev.kind # "registered"
        BY <1>1, <1>3, <2>1, <4>2 DEF RosterInv, MapFits
      <4> QED  BY <4>1, <4>2
    <3>3. map'[r].synced => vle'[r] # NoAccess
      <4>1. CASE ev.kind = "registered"
        BY <1>1, <1>3, <1>4, <2>1, <3>1, <4>1
      <4>2. CASE ev.kind # "registered"
        BY <1>1, <1>3, <2>1, <3>1, <4>2 DEF RosterInv, MapFits
      <4> QED  BY <4>1, <4>2
    <3>4. r \notin drifted' => vle'[r] = map'[r].status
      BY <1>1, <1>3, <1>4, <2>1, <3>1
    <3> QED  BY <3>2, <3>3, <3>4 DEF MapFits
  <2>2. CASE r \notin T
    <3>1. r \in Mapped /\ MapFits(r) /\ map'[r] = map[r]
      BY <1>6, <1>10, <2>2 DEF RosterInv, Mapped
    <3>2. ASSUME NEW t \in Published, Touches(stream[t], r), ledger[t] = 0
          PROVE  t \in Published' /\ Touches(stream'[t], r) /\ ledger'[t] = 0
      <4>1. t # s /\ t \in 1..MaxEvents
        BY <1>t, <1>5, <2>2, <3>1, <3>2, PublishedShape DEF ev
      <4> QED  BY <1>1, <1>7, <3>2, <4>1 DEF Published
    <3>3. r \notin drifted' => r \notin drifted
      BY <1>1
    <3>4. EnrolmentOf[r] \in persons' /\ ModuleOf[r] \in courses'
      BY <1>1, <3>1 DEF MapFits
    <3> QED  BY <1>1, <3>1, <3>2, <3>3, <3>4 DEF MapFits, Touches
  <2> QED  BY <2>1, <2>2
<1>11. ASSUME NEW x \in repair' PROVE RepairFits(x)'
  BY <1>1, <1>6, <1>11 DEF RosterInv, RepairFits
<1>12. NoEventProcessedTwice'
  BY <1>7 DEF RosterInv, NoEventProcessedTwice
<1> QED  BY <1>8, <1>9, <1>10, <1>11, <1>12 DEF RosterInv

\* A set of sequence numbers has a latest one: the one that leaves least to the bound.
LEMMA LatestIsIn ==
  ASSUME NEW S \in SUBSET (1..MaxEvents), S # {}
  PROVE  Latest(S) \in S
<1> DEFINE T == {n \in Nat : MaxEvents - n \in S}
<1>1. T \subseteq Nat /\ T # {}
  <2>1. PICK s \in S : TRUE
    OBVIOUS
  <2>2. s \in Nat /\ s <= MaxEvents /\ MaxEvents \in Nat
    BY RosterAssumption
  <2>3. MaxEvents - s \in Nat /\ MaxEvents - (MaxEvents - s) = s
    BY <2>2
  <2> QED  BY <2>3
<1>2. PICK n \in T : \A m \in T : ~(<<m, n>> \in {ss \in Nat \X Nat : ss[1] < ss[2]})
  BY <1>1, NatLessThanWellFounded, WFMin DEF OpToRel
<1>3. ASSUME NEW m \in T PROVE n <= m
  <2>1. m \in Nat /\ n \in Nat /\ <<m, n>> \in Nat \X Nat
    BY <1>1
  <2>2. ~(<<m, n>>[1] < <<m, n>>[2])
    BY <1>2, <2>1
  <2> QED  BY <2>1, <2>2
<1>4. MaxEvents - n \in S /\ n \in Nat
  BY <1>2
<1>5. ASSUME NEW t \in S PROVE t <= MaxEvents - n
  <2>1. t \in Nat /\ t <= MaxEvents /\ MaxEvents \in Nat
    BY RosterAssumption
  <2>2. MaxEvents - t \in Nat /\ MaxEvents - (MaxEvents - t) = t
    BY <2>1
  <2>3. n <= MaxEvents - t
    BY <1>3, <2>2
  <2> QED  BY <1>4, <2>1, <2>3
<1> QED  BY <1>4, <1>5 DEF Latest

\* The other steps of the loop, and the failures.
LEMMA LoopKeepsRoster ==
  ASSUME RosterInv, HandlerFails \/ Settle \/ AckLost \/ Crash \/ ConsumerLost
  PROVE  RosterInv'
<1>t. TypeOK /\ TaskFits
  BY DEF RosterInv
<1>1. /\ UNCHANGED <<stream, ledger, persons, courses, map, vle, drifted>>
      /\ repair' \subseteq repair
  BY DEF HandlerFails, Settle, AckLost, Crash, ConsumerLost, srsVars, localVars, repairVars
<1>2. /\ \A r \in Mapped' : MapFits(r)'
      /\ \A x \in repair' : RepairFits(x)'
      /\ NoEventProcessedTwice'
      /\ Mapped' = Mapped /\ Published' = Published
  BY <1>1, TablesStay
<1>3. TypeOK' /\ TaskFits'
  <2>1. CASE HandlerFails
    <3>1. /\ UNCHANGED <<start, delivered, acked, canWrite, faults>>
          /\ task' = [at |-> "settle", seq |-> task.seq, ack |-> GivesUp(task.seq)]
      BY <2>1 DEF HandlerFails, serverVars
    <3>2. task.seq \in Published /\ task.seq \in 1..MaxEvents
      BY <1>t, <2>1, PublishedShape DEF HandlerFails, TaskFits, Idle
    <3>3. task' \in Task
      BY <3>1, <3>2 DEF Task, GivesUp
    <3>4. TypeOK'
      BY <1>t, <1>1, <1>2, <3>1, <3>3 DEF TypeOK
    <3>5. TaskFits'
      BY <1>2, <3>1, <3>2 DEF TaskFits, Handling
    <3> QED  BY <3>4, <3>5
  <2>2. CASE Settle
    <3>1. /\ UNCHANGED <<start, delivered, canWrite, faults>> /\ task' = Idle
          /\ acked' = IF task.ack THEN acked \cup {task.seq} ELSE acked
      BY <2>2 DEF Settle
    <3>2. task.seq \in Published
      BY <1>t, <2>2 DEF Settle, TaskFits, Idle
    <3>3. TypeOK'
      BY <1>t, <1>1, <1>2, <3>1, <3>2 DEF TypeOK, Task
    <3>4. TaskFits'
      BY <3>1 DEF TaskFits, Idle, Handling
    <3> QED  BY <3>3, <3>4
  <2>3. CASE AckLost
    <3>1. UNCHANGED <<start, delivered, acked, canWrite>> /\ task' = Idle
      BY <2>3 DEF AckLost, serverVars
    <3>2. faults' \in 0..MaxFaults
      BY <1>t, <2>3, RosterAssumption DEF AckLost, TypeOK
    <3>3. TypeOK'
      BY <1>t, <1>1, <1>2, <3>1, <3>2 DEF TypeOK, Task
    <3>4. TaskFits'
      BY <3>1 DEF TaskFits, Idle, Handling
    <3> QED  BY <3>3, <3>4
  <2>4. CASE Crash
    <3>1. UNCHANGED <<start, delivered, acked>> /\ task' = Idle /\ canWrite' \in BOOLEAN
      BY <2>4 DEF Crash, serverVars
    <3>2. faults' \in 0..MaxFaults
      BY <1>t, <2>4, RosterAssumption DEF Crash, TypeOK
    <3>3. TypeOK'
      BY <1>t, <1>1, <1>2, <3>1, <3>2 DEF TypeOK, Task
    <3>4. TaskFits'
      BY <3>1 DEF TaskFits, Idle, Handling
    <3> QED  BY <3>3, <3>4
  <2>5. CASE ConsumerLost
    <3>1. /\ UNCHANGED canWrite /\ task' = Idle /\ acked' = {}
          /\ delivered' = [s \in 1..MaxEvents |-> 0]
          /\ start' = IF Checkpoint = {} THEN 1 ELSE Latest(Checkpoint) + 1
      BY <2>5 DEF ConsumerLost
    <3>2. faults' \in 0..MaxFaults
      BY <1>t, <2>5, RosterAssumption DEF ConsumerLost, TypeOK
    <3>3. start' \in 1..(MaxEvents + 1)
      <4>1. CASE Checkpoint = {}
        BY <3>1, <4>1, RosterAssumption
      <4>2. CASE Checkpoint # {}
        <5>1. Latest(Checkpoint) \in Checkpoint
          BY <4>2, LatestIsIn DEF Checkpoint
        <5> QED  BY <3>1, <4>2, <5>1, RosterAssumption DEF Checkpoint
      <4> QED  BY <4>1, <4>2
    <3>4. TypeOK'
      <4>1. delivered' \in [1..MaxEvents -> 0..MaxAttempts]
        BY <3>1, RosterAssumption
      <4>2. task' \in Task
        BY <3>1 DEF Task
      <4>3. acked' \subseteq Published'
        BY <3>1
      <4> QED  BY <1>t, <1>1, <3>1, <3>2, <3>3, <4>1, <4>2, <4>3 DEF TypeOK
    <3>5. TaskFits'
      BY <3>1 DEF TaskFits, Idle, Handling
    <3> QED  BY <3>4, <3>5
  <2> QED  BY <2>1, <2>2, <2>3, <2>4, <2>5
<1> QED  BY <1>2, <1>3 DEF RosterInv

\* The event in hand, while the loop waits and nothing is withdrawn from the VLE.
LEMMA TasksStay ==
  ASSUME TypeOK, TaskFits, UNCHANGED <<stream, delivered, task, ledger, canWrite>>,
         \A e : Targets(e)' = Targets(e), Published' = Published, drifted \subseteq drifted',
         \A r \in Registrations : vle[r] # NoAccess => vle'[r] # NoAccess,
         \A r \in Registrations : r \notin drifted' => vle'[r] = vle[r]
  PROVE  TaskFits'
<1>1. ASSUME Handling' PROVE HandledFits'
  <2>1. HandledFits /\ task.targets \subseteq Registrations
    BY <1>1, TaskShape DEF TaskFits, Handling
  <2>2. \A r \in Registrations : r \in drifted => r \in drifted'
    OBVIOUS
  <2>3. Granted(stream[task.seq])' = Granted(stream[task.seq])
    BY DEF Granted, Access
  <2> QED  BY <2>1, <2>2, <2>3 DEF HandledFits
<1> QED  BY <1>1 DEF TaskFits, Handling

\* A step of which only the pass knows.
LEMMA OtherStepsStay ==
  ASSUME RosterInv, TypeOK, TaskFits,
         UNCHANGED <<stream, start, delivered, acked, task, ledger, persons, courses, map, vle,
                     canWrite, drifted, faults>>,
         repair' \subseteq repair
  PROVE  RosterInv'
<1>1. /\ \A r \in Mapped' : MapFits(r)'
      /\ \A x \in repair' : RepairFits(x)'
      /\ NoEventProcessedTwice'
      /\ Mapped' = Mapped /\ Published' = Published
  BY TablesStay
<1>2. TypeOK'
  BY <1>1 DEF TypeOK
<1>3. TaskFits'
  <2>1. \A e : Targets(e)' = Targets(e)
    BY <1>1, TargetsStay
  <2> QED  BY <1>1, <2>1, TasksStay
<1> QED  BY <1>1, <1>2, <1>3 DEF RosterInv

LEMMA SnapshotShape ==
  ASSUME TypeOK, NEW x \in repair
  PROVE  /\ x \in Snapshot /\ x.reg \in Registrations /\ x.status \in AccessStates
         /\ [x EXCEPT !.pushed = TRUE] \in Snapshot
         /\ [x EXCEPT !.pushed = TRUE].reg = x.reg
BY DEF TypeOK, Snapshot

LEMMA ReadKeepsRoster ==
  ASSUME RosterInv, RepairRead
  PROVE  RosterInv'
<1>t. TypeOK /\ TaskFits
  BY DEF RosterInv
<1>1. /\ UNCHANGED <<stream, start, delivered, acked, task, ledger, persons, courses, map, vle,
                     canWrite, drifted, faults>>
      /\ repair = {}
      /\ repair' = {[reg |-> r, status |-> map[r].status, pushed |-> FALSE] :
                      r \in {x \in Mapped : ~map[x].synced}}
  BY DEF RepairRead, srsVars, serverVars, localVars
<1>2. Mapped' = Mapped /\ Published' = Published /\ \A e : Targets(e)' = Targets(e)
  <2>1. Mapped' = Mapped /\ Published' = Published
    BY <1>1 DEF Mapped, Published
  <2> QED  BY <1>1, <2>1, TargetsStay
<1>3. ASSUME NEW x \in repair'
      PROVE  x \in Snapshot /\ x.reg \in Mapped /\ ~x.pushed
  <2>1. PICK r \in Mapped : x = [reg |-> r, status |-> map[r].status, pushed |-> FALSE]
    BY <1>1, <1>3
  <2>2. map[r] \in Row /\ r \in Registrations
    BY <1>t DEF TypeOK, Mapped
  <2>3. map[r].status \in AccessStates
    BY <2>2 DEF Row
  <2> QED  BY <2>1, <2>2, <2>3 DEF Snapshot
<1>4. TypeOK'
  BY <1>t, <1>1, <1>2, <1>3 DEF TypeOK
<1>5. TaskFits'
  BY <1>t, <1>1, <1>2, TasksStay
<1>6. ASSUME NEW r \in Mapped' PROVE MapFits(r)'
  BY <1>1, <1>2, <1>6 DEF RosterInv, MapFits, Touches
<1>7. ASSUME NEW x \in repair' PROVE RepairFits(x)'
  BY <1>2, <1>3, <1>7 DEF RepairFits
<1>8. NoEventProcessedTwice'
  BY <1>1 DEF RosterInv, NoEventProcessedTwice
<1> QED  BY <1>4, <1>5, <1>6, <1>7, <1>8 DEF RosterInv

LEMMA PushKeepsRoster ==
  ASSUME RosterInv, NEW x \in repair, RepairPush(x)
  PROVE  RosterInv'
<1> DEFINE y == [x EXCEPT !.pushed = TRUE]
<1>t. TypeOK /\ TaskFits
  BY DEF RosterInv
<1>1. /\ UNCHANGED <<stream, start, delivered, acked, task, ledger, persons, courses, map,
                     canWrite, faults>>
      /\ vle' = [vle EXCEPT ![x.reg] = x.status]
      /\ drifted' = drifted \cup {x.reg}
      /\ repair' = (repair \ {x}) \cup {y}
  BY DEF RepairPush, srsVars, serverVars, localVars
<1>2. Mapped' = Mapped /\ Published' = Published /\ \A e : Targets(e)' = Targets(e)
  <2>1. Mapped' = Mapped /\ Published' = Published
    BY <1>1 DEF Mapped, Published
  <2> QED  BY <1>1, <2>1, TargetsStay
<1>3. /\ x.reg \in Registrations /\ x.reg \in Mapped
      /\ x.status \in AccessStates /\ x.status # NoAccess
      /\ y \in Snapshot /\ y.reg = x.reg
  BY <1>t, SnapshotShape, AbsentAssumption DEF RosterInv, RepairFits
<1> HIDE DEF y
<1>4. /\ vle' \in [Registrations -> AccessStates \cup {NoAccess}]
      /\ vle'[x.reg] # NoAccess
      /\ \A r \in Registrations : vle[r] # NoAccess => vle'[r] # NoAccess
      /\ \A r \in Registrations : r \notin drifted' => vle'[r] = vle[r]
  BY <1>t, <1>1, <1>3 DEF TypeOK
<1>5. TypeOK'
  BY <1>t, <1>1, <1>2, <1>3, <1>4 DEF TypeOK
<1>6. TaskFits'
  BY <1>t, <1>1, <1>2, <1>4, TasksStay
<1>7. ASSUME NEW r \in Mapped' PROVE MapFits(r)'
  <2>1. MapFits(r) /\ r \in Registrations
    BY <1>2, <1>7 DEF RosterInv, Mapped
  <2>2. r \notin drifted' => r \notin drifted
    BY <1>1
  <2> QED  BY <1>1, <1>2, <1>4, <2>1, <2>2 DEF MapFits, Touches
<1>8. ASSUME NEW z \in repair' PROVE RepairFits(z)'
  <2>1. CASE z = y
    BY <1>1, <1>2, <1>3, <1>4, <2>1 DEF RepairFits
  <2>2. CASE z \in repair
    <3>1. RepairFits(z) /\ z.reg \in Registrations
      BY <1>t, <2>2, SnapshotShape DEF RosterInv
    <3> QED  BY <1>1, <1>2, <1>4, <3>1 DEF RepairFits
  <2> QED  BY <1>1, <1>8, <2>1, <2>2
<1>9. NoEventProcessedTwice'
  BY <1>1 DEF RosterInv, NoEventProcessedTwice
<1> QED  BY <1>5, <1>6, <1>7, <1>8, <1>9 DEF RosterInv

\* The row becomes synced, and its registration has drifted.
LEMMA MarkKeepsRoster ==
  ASSUME RosterInv, NEW x \in repair, RepairWrite(x)
  PROVE  RosterInv'
<1>t. TypeOK /\ TaskFits
  BY DEF RosterInv
<1>1. /\ UNCHANGED <<stream, start, delivered, acked, task, ledger, persons, courses, vle,
                     canWrite, drifted, faults>>
      /\ map' = [map EXCEPT ![x.reg].synced = TRUE]
      /\ repair' \subseteq repair
  BY DEF RepairWrite, srsVars, serverVars
<1>2. /\ x.reg \in Registrations /\ map[x.reg] \in Row
      /\ vle[x.reg] # NoAccess /\ x.reg \in drifted
  BY <1>t, SnapshotShape DEF RepairWrite, RosterInv, RepairFits, Mapped, TypeOK
<1>3. /\ map'[x.reg] \in Row
      /\ \A r \in Registrations : r # x.reg => map'[r] = map[r]
      /\ map' \in [Registrations -> Row \cup {NoRow}]
  BY <1>t, <1>1, <1>2 DEF TypeOK, Row
<1>4. Mapped' = Mapped /\ Published' = Published /\ \A e : Targets(e)' = Targets(e)
  <2>1. Mapped' = Mapped /\ Published' = Published
    BY <1>1, <1>2, <1>3, AbsentAssumption DEF Mapped, Published
  <2> QED  BY <1>1, <2>1, TargetsStay
<1>5. TypeOK'
  BY <1>t, <1>1, <1>3, <1>4 DEF TypeOK
<1>6. TaskFits'
  BY <1>t, <1>1, <1>4, TasksStay
<1>7. ASSUME NEW r \in Mapped' PROVE MapFits(r)'
  <2>1. MapFits(r) /\ r \in Registrations
    BY <1>4, <1>7 DEF RosterInv, Mapped
  <2>2. CASE r = x.reg
    BY <1>1, <1>2, <2>1, <2>2 DEF MapFits
  <2>3. CASE r # x.reg
    BY <1>1, <1>3, <1>4, <2>1, <2>3 DEF MapFits, Touches
  <2> QED  BY <2>2, <2>3
<1>8. ASSUME NEW z \in repair' PROVE RepairFits(z)'
  BY <1>1, <1>4, <1>8 DEF RosterInv, RepairFits
<1>9. NoEventProcessedTwice'
  BY <1>1 DEF RosterInv, NoEventProcessedTwice
<1> QED  BY <1>5, <1>6, <1>7, <1>8, <1>9 DEF RosterInv

LEMMA NextRoster ==
  ASSUME RosterInv, [Next]_vars
  PROVE  RosterInv'
<1>t. TypeOK /\ TaskFits
  BY DEF RosterInv
<1>1. CASE Srs
  BY <1>1, SrsPublishes, PublishKeepsRoster
<1>2. CASE Loop
  BY <1>2, DeliverKeepsRoster, CallKeepsRoster, CommitKeepsRoster, LoopKeepsRoster DEF Loop
<1>3. CASE AckLost \/ Crash \/ ConsumerLost
  BY <1>3, LoopKeepsRoster
<1>4. CASE Reconcile
  <2>1. CASE RepairRead
    BY <2>1, ReadKeepsRoster
  <2>2. ASSUME NEW x \in Snapshot, RepairPush(x) \/ RepairWrite(x) PROVE RosterInv'
    BY <2>2, PushKeepsRoster, MarkKeepsRoster DEF RepairPush, RepairWrite
  <2>3. ASSUME NEW x \in Snapshot, RepairFails(x) PROVE RosterInv'
    <3>1. /\ UNCHANGED <<stream, start, delivered, acked, task, ledger, persons, courses, map, vle,
                         canWrite, drifted, faults>>
          /\ repair' \subseteq repair
      BY <2>3 DEF RepairFails, srsVars, serverVars, localVars
    <3> QED  BY <1>t, <3>1, OtherStepsStay
  <2> QED  BY <1>4, <2>1, <2>2, <2>3 DEF Reconcile
<1>5. CASE UNCHANGED vars
  <2>1. /\ UNCHANGED <<stream, start, delivered, acked, task, ledger, persons, courses, map, vle,
                       canWrite, drifted, faults>>
        /\ repair' \subseteq repair
    BY <1>5 DEF vars
  <2> QED  BY <1>t, <2>1, OtherStepsStay
<1> QED  BY <1>1, <1>2, <1>3, <1>4, <1>5 DEF Next

LEMMA RosterInvariant == Spec => []RosterInv
<1>1. RosterInv /\ [Next]_vars => RosterInv'
  BY NextRoster
<1> QED  BY <1>1, InitRoster, PTL DEF Spec

-------------------------------------------------------------------------------
(* The theorems.                                                           *)

\* Every variable of the connector, the server, the SRS stream and the VLE has its type
\* (adapters/vle/src).
THEOREM TypeCorrect == Spec => []TypeOK
BY RosterInvariant, PTL DEF RosterInv

\* However often an event is delivered, and wherever the connector faults, its handler
\* commits once at most (dispatch of consumers/vle-event-consumer.ts).
THEOREM EventsAreProcessedOnce == Spec => []NoEventProcessedTwice
BY RosterInvariant, PTL DEF RosterInv

\* A map row that holds a VLE identifier stands for an enrolment that the VLE has
\* (the handlers of consumers/ and reconcileRoster).
THEOREM SyncedRowsStandForAccess == Spec => []SyncedRowsAreInVle
<1>1. RosterInv => SyncedRowsAreInVle
  BY DEF RosterInv, SyncedRowsAreInVle, MapFits
<1> QED  BY <1>1, RosterInvariant, PTL

\* Once every event that concerns a registration has been processed, the VLE gives it
\* the access that the map records, although what a failed attempt sent to the VLE is
\* not rolled back: the event that touched it last has been handled again.
THEOREM RostersAgree == Spec => []RosterAgrees
<1>1. RosterInv => RosterAgrees
  <2> SUFFICES ASSUME RosterInv, NEW r \in Mapped \ drifted, map[r].synced,
                      \A s \in Concerning(r) : AlreadyProcessed(s)
               PROVE  vle[r] = map[r].status
    BY DEF RosterAgrees
  <2>1. ASSUME NEW s \in Published, Touches(stream[s], r) PROVE ledger[s] > 0
    BY <2>1 DEF Touches, Concerning, EventsAbout, AlreadyProcessed
  <2> QED  BY <2>1 DEF RosterInv, MapFits
<1> QED  BY <1>1, RosterInvariant, PTL

===============================================================================
