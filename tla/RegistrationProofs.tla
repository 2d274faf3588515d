--------------------------- MODULE RegistrationProofs ---------------------------
(***************************************************************************)
(* Theorems about registrations, the workflow instances that approve them, *)
(* and module selection, for every number of requests, enrolments,         *)
(* offerings, rows, instances and proposals.                               *)
(*                                                                         *)
(* Each section has an invariant of its own: what the request has read or  *)
(* done on its way to the write, unless it is overlapped there.            *)
(***************************************************************************)
EXTENDS JourneyProofs, FiniteSetTheorems

-------------------------------------------------------------------------------
(* Rows.                                                                    *)

LEMMA RegistrationFrame ==
  ASSUME [Next]_vars
  PROVE  \/ UNCHANGED registrations
         \/ \E q \in Requests : Step(q) /\ (InsertRegistration(q) \/ WriteRegistration(q))
<1>1. CASE UNCHANGED vars
  BY <1>1 DEF vars, registrationVars
<1>2. CASE TimePasses
  BY <1>2 DEF TimePasses, WindowPasses
<1>3. ASSUME NEW q \in Requests, Step(q)
      PROVE  UNCHANGED registrations \/ InsertRegistration(q) \/ WriteRegistration(q)
  BY <1>3 DEF Step, RegistrationStep, CheckRegistration, ReadRegistration, RequestChange,
              DecideChange, FindTask, SetWindow, registrationVars
<1> QED  BY <1>1, <1>2, <1>3 DEF Next

LEMMA CreatingShape ==
  ASSUME TypeInv, NEW q \in Requests, req[q].at \in {"createRegistration", "insertRegistration"}
  PROVE  /\ req[q].enrolment \in Enrolments /\ req[q].offering \in Offerings
         /\ req[q].by \in Origins /\ req[q].check \in 1..6 /\ req[q].skip \in BOOLEAN
         /\ req[q].then # Done =>
              req[q].then \in Registering(Present(instances), Present(proposals))
<1> DEFINE I == Present(instances)
           P == Present(proposals)
<1>1. req[q] \in Creating(I, P)
  BY RequestShape DEF TypeInv, KnownRequest
<1> HIDE DEF I, P
<1>2. /\ req[q].enrolment \in Enrolments /\ req[q].offering \in Offerings
      /\ req[q].by \in Origins /\ req[q].check \in 1..6 /\ req[q].skip \in BOOLEAN
      /\ req[q].then # Done => req[q].then \in Registering(I, P)
  BY <1>1 DEF Creating
<1> QED  BY <1>2 DEF I, P

\* The row that an insert takes, and what it becomes.
LEMMA RowInserted ==
  ASSUME TypeInv, NEW q \in Requests, InsertRegistration(q)
  PROVE  \E r \in Rows :
           /\ registrations[r] = Absent
           /\ registrations' = [registrations EXCEPT ![r] =
                                  [enrolment |-> req[q].enrolment, offering |-> req[q].offering,
                                   status |-> "registered", by |-> req[q].by]]
           /\ Writes(q, {r, req[q].offering, <<"registrations", req[q].enrolment>>}, req[q].then)
<1> DEFINE V == Registration(Origins) \cup {Absent}
           r == CHOOSE x \in Unused(registrations) : TRUE
<1>1. registrations \in [Rows -> V]
  BY DEF TypeInv, TypeOK
<1> HIDE DEF V
<1>2. r \in Rows /\ registrations[r] = Absent
  BY <1>1, UnusedChosen DEF InsertRegistration
<1>3. /\ registrations' = [registrations EXCEPT ![r] =
                             [enrolment |-> req[q].enrolment, offering |-> req[q].offering,
                              status |-> "registered", by |-> req[q].by]]
      /\ Writes(q, {r, req[q].offering, <<"registrations", req[q].enrolment>>}, req[q].then)
  BY DEF InsertRegistration
<1> HIDE DEF r
<1> QED  BY <1>2, <1>3

\* A row is never removed, and only its status changes, to a final one.
LEMMA RowsStay ==
  ASSUME TypeInv, [Next]_vars, NEW r \in Rows, registrations[r] # Absent
  PROVE  /\ registrations'[r] # Absent
         /\ registrations'[r].enrolment = registrations[r].enrolment
         /\ registrations'[r].offering = registrations[r].offering
         /\ registrations'[r].by = registrations[r].by
         /\ registrations'[r].status \in {registrations[r].status, "withdrawn", "completed"}
<1>1. registrations[r] \in Registration(Origins)
  BY DEF TypeInv, TypeOK
<1>2. CASE UNCHANGED registrations
  BY <1>2
<1>3. ASSUME NEW q \in Requests, InsertRegistration(q) PROVE registrations'[r] = registrations[r]
  <2>1. PICK x \in Rows :
          /\ registrations[x] = Absent
          /\ registrations' = [registrations EXCEPT ![x] =
                                 [enrolment |-> req[q].enrolment, offering |-> req[q].offering,
                                  status |-> "registered", by |-> req[q].by]]
    BY <1>3, RowInserted
  <2> QED  BY <2>1 DEF TypeInv, TypeOK
<1>4. ASSUME NEW q \in Requests, WriteRegistration(q)
      PROVE  \/ registrations'[r] = registrations[r]
             \/ registrations'[r] = [registrations[r] EXCEPT !.status = req[q].to]
                /\ req[q].to \in {"withdrawn", "completed"}
  <2>1. req[q].to \in {"withdrawn", "completed"}
    BY <1>4, Rewritten DEF WriteRegistration
  <2> QED  BY <1>4, <2>1 DEF WriteRegistration, TypeInv, TypeOK
<1>5. \/ registrations'[r] = registrations[r]
      \/ \E to \in {"withdrawn", "completed"} :
           registrations'[r] = [registrations[r] EXCEPT !.status = to]
  BY <1>2, <1>3, <1>4, RegistrationFrame
<1>6. ASSUME NEW to \in {"withdrawn", "completed"},
             registrations'[r] = [registrations[r] EXCEPT !.status = to]
      PROVE  /\ registrations'[r] # Absent
             /\ registrations'[r].enrolment = registrations[r].enrolment
             /\ registrations'[r].offering = registrations[r].offering
             /\ registrations'[r].by = registrations[r].by
             /\ registrations'[r].status \in {registrations[r].status, "withdrawn", "completed"}
  <2>1. [registrations[r] EXCEPT !.status = to] \in Registration(Origins)
    BY <1>1 DEF Registration
  <2> QED  BY <1>1, <1>6, <2>1, AbsentAssumption DEF Registration
<1> QED  BY <1>5, <1>6

\* What the request has found on its way to the row, or what overlaps it there.
RegistrationFits(q, s) ==
  /\ s.at = "writeRegistration" =>
       registrations[s.registration].status = "registered" \/ s.registration \in overlapped[q]
  /\ s.at = "insertRegistration" \/ (s.at = "createRegistration" /\ s.check >= 2) =>
       enrolments[s.enrolment] = "enrolled" \/ s.enrolment \in overlapped[q]
  /\ s.at = "insertRegistration" \/ (s.at = "createRegistration" /\ s.check >= 3) =>
       WindowOpen(PeriodOf[s.offering]) \/ PeriodOf[s.offering] \in overlapped[q]

RegistrationInv == \A q \in Requests : RegistrationFits(q, req[q])

\* A request that has made its first check is no longer its call.
LEMMA Checking ==
  ASSUME NEW q \in Requests, req[q].at = "createRegistration", req[q].check # 1
  PROVE  InFlight(q)
<1>1. \A c \in Call : c.at = "createRegistration" => c.check = 1
  BY DEF Call
<1> QED  BY <1>1, CallsAssumption DEF InFlight, Done

LEMMA InitRegistration == Init => RegistrationInv
<1> SUFFICES ASSUME Init, NEW q \in Requests PROVE RegistrationFits(q, req[q])
  BY DEF RegistrationInv
<1>1. req[q] \in Call
  BY CallsAssumption, ScenariosAssumption DEF Init, CallsInit
<1>2. /\ req[q].at \notin {"writeRegistration", "insertRegistration"}
      /\ req[q].at = "createRegistration" => req[q].check = 1
  BY <1>1 DEF Call
<1> QED  BY <1>2 DEF RegistrationFits

LEMMA BystanderKeepsRegistration ==
  ASSUME TypeInv, RegistrationInv, [Next]_vars, NEW p \in Requests, Bystander(p)
  PROVE  RegistrationFits(p, req[p])'
<1> DEFINE s == req[p]
<1>r. req'[p] = s /\ RegistrationFits(p, s)
  BY DEF Bystander, RegistrationInv
<1>1. CASE s.at = "writeRegistration"
  <2>1. s.registration \in Rows /\ registrations[s.registration] \in Registration(Origins)
    BY <1>1, Rewritten
  <2>2. InFlight(p)
    BY <1>1, UnderWay DEF Entries
  <2>3. \/ registrations'[s.registration] = registrations[s.registration]
        \/ s.registration \in overlapped'[p]
    BY <2>1, <2>2 DEF Bystander, Touched
  <2>4. overlapped[p] \subseteq overlapped'[p]
    BY <2>2 DEF Bystander
  <2> QED  BY <1>1, <1>r, <2>3, <2>4 DEF RegistrationFits
<1>2. CASE s.at = "insertRegistration" \/ (s.at = "createRegistration" /\ s.check >= 2)
  <2>1. s.enrolment \in Enrolments /\ s.offering \in Offerings /\ s.check \in 1..6
    BY <1>2, CreatingShape
  <2>2. InFlight(p)
    BY <1>2, <2>1, UnderWay, Checking DEF Entries
  <2>3. PeriodOf[s.offering] \in Periods
    BY <2>1 DEF Periods
  <2>4. /\ overlapped[p] \subseteq overlapped'[p]
        /\ enrolments'[s.enrolment] = enrolments[s.enrolment] \/ s.enrolment \in overlapped'[p]
        /\ \/ windows'[PeriodOf[s.offering]] = windows[PeriodOf[s.offering]]
           \/ PeriodOf[s.offering] \in overlapped'[p]
    BY <2>1, <2>2, <2>3 DEF Bystander
  <2>5. /\ enrolments[s.enrolment] = "enrolled" \/ s.enrolment \in overlapped[p]
        /\ s.at = "insertRegistration" \/ s.check >= 3 =>
             WindowOpen(PeriodOf[s.offering]) \/ PeriodOf[s.offering] \in overlapped[p]
    BY <1>2, <1>r DEF RegistrationFits
  <2> QED  BY <1>2, <1>r, <2>4, <2>5 DEF RegistrationFits, WindowOpen
<1>3. CASE /\ s.at \notin {"writeRegistration", "insertRegistration"}
           /\ ~(s.at = "createRegistration" /\ s.check >= 2)
  <2>1. s.at = "createRegistration" => s.check = 1
    BY <1>3, CreatingShape
  <2> QED  BY <1>3, <1>r, <2>1 DEF RegistrationFits
<1> QED  BY <1>1, <1>2, <1>3

LEMMA StepKeepsRegistration ==
  ASSUME TypeInv, RegistrationInv, NEW q \in Requests, Step(q)
  PROVE  RegistrationFits(q, req[q])'
<1> DEFINE s == req[q]
           r == req'[q]
<1>a. /\ r.at = "writeRegistration" => ReadRegistration(q)
      /\ r.at = "insertRegistration" => CheckRegistration(q)
      /\ r.at = "createRegistration" => CheckRegistration(q) \/ CompleteInstance(q) \/ RegisterItems(q)
  BY Arrivals
<1>1. CASE ReadRegistration(q) /\ r.at = "writeRegistration"
  <2>1. s \in Changing(Present(registrations))
    BY <1>1, RequestShape DEF ReadRegistration, TypeInv, KnownRequest
  <2>2. MayChange(s.registration) /\ r = [s EXCEPT !.at = "writeRegistration"]
    <3>1. CASE MayChange(s.registration)
      BY <1>1, <3>1, Arrives DEF ReadRegistration
    <3>2. CASE ~MayChange(s.registration)
      <4>1. r = Done
        BY <1>1, <3>2, Arrives DEF ReadRegistration
      <4> QED  BY <1>1, <4>1 DEF Done
    <3> QED  BY <3>1, <3>2
  <2>3. r.registration = s.registration
    BY <2>1, <2>2 DEF Changing
  <2> QED  BY <1>1, <2>2, <2>3 DEF RegistrationFits, MayChange, ReadRegistration, registrationVars
<1>2. CASE CheckRegistration(q) /\ r.at \in {"createRegistration", "insertRegistration"}
  <2>1. s \in Creating(Present(instances), Present(proposals))
    BY <1>2, RequestShape DEF CheckRegistration, TypeInv, KnownRequest
  <2>2. /\ s.enrolment \in Enrolments /\ s.offering \in Offerings /\ s.check \in 1..6
        /\ s.at = "createRegistration"
    BY <1>2, CreatingShape DEF CheckRegistration
  <2>3. /\ Passes(Checks[s.check], s.enrolment, s.offering, s.skip)
        /\ r = IF s.check = 6 THEN [s EXCEPT !.at = "insertRegistration"]
               ELSE [s EXCEPT !.check = @ + 1]
    <3>1. Len(Checks) = 6
      BY DEF Checks
    <3>2. r = IF ~Passes(Checks[s.check], s.enrolment, s.offering, s.skip) THEN Done
              ELSE IF s.check = 6 THEN [s EXCEPT !.at = "insertRegistration"]
              ELSE [s EXCEPT !.check = @ + 1]
      BY <1>2, <3>1, Arrives DEF CheckRegistration
    <3> QED  BY <1>2, <3>2 DEF Done
  <2>4. /\ r.enrolment = s.enrolment /\ r.offering = s.offering
        /\ r.at = "insertRegistration" => s.check = 6
        /\ r.at = "createRegistration" => r.check = s.check + 1
    BY <2>1, <2>2, <2>3 DEF Creating
  <2>5. /\ s.check = 1 => MayRegister(s.enrolment)
        /\ s.check = 2 => WindowOpen(PeriodOf[s.offering])
    <3>1. Checks[1] = "enrolled" /\ Checks[2] = "window"
      BY DEF Checks
    <3>2. s.check = 1 => Passes("enrolled", s.enrolment, s.offering, s.skip)
      BY <2>3, <3>1
    <3>3. s.check = 2 => Passes("window", s.enrolment, s.offering, s.skip)
      BY <2>3, <3>1
    <3>4. Passes("enrolled", s.enrolment, s.offering, s.skip) => MayRegister(s.enrolment)
      BY DEF Passes
    <3>5. Passes("window", s.enrolment, s.offering, s.skip) => WindowOpen(PeriodOf[s.offering])
      BY DEF Passes
    <3> QED  BY <3>2, <3>3, <3>4, <3>5
  <2>6. /\ overlapped'[q] = overlapped[q]
        /\ windows' = windows /\ enrolments' = enrolments
    <3>1. overlapped'[q] = overlapped[q]
      <4>1. r # Done
        BY <1>2 DEF Done
      <4> QED  BY <1>2, <4>1 DEF CheckRegistration, Reads, TypeInv
    <3>2. ~EnrolmentStep(q) /\ ~WorkflowStep(q) /\ ~SelectionStep(q) /\ ~AwardStep(q)
      <4> USE <2>2
      <4>1. ~EnrolmentStep(q) /\ ~WorkflowStep(q)
        BY DEF EnrolmentStep, ReadTransition, WriteTransition, WriteEnrolment, CommitEnrolment,
               WorkflowStep, StartInstance, AssignTask, RecordDecision, CompleteTask, CompleteInstance
      <4>2. ~AwardStep(q)
        BY DEF AwardStep, ReadAwardEnrolment, CheckAwardBoard, CheckAward, InsertAward, AnnounceAward
      <4>3. ~SelectionStep(q)
        BY DEF SelectionStep, CreateProposal, ReadBinding, CloseBinding, InsertBinding,
               InsertProposal, PopulateItem, EditItem, WriteItem, SubmitProposal, SubmitItems,
               WriteProposal, ValidateSelection, ValidateCapacity, CarryOutVerdict,
               DecideProposal, ConfirmProposal, ConfirmItems, RegisterItems
      <4> QED  BY <4>1, <4>2, <4>3
    <3>3. enrolments' = enrolments
      BY <3>2 DEF Step, enrolmentVars
    <3> QED  BY <1>2, <3>1, <3>3 DEF CheckRegistration, registrationVars
  <2>7. RegistrationFits(q, s)
    BY DEF RegistrationInv
  <2>8. r.at = "insertRegistration" \/ (r.at = "createRegistration" /\ r.check >= 2) =>
          enrolments[s.enrolment] = "enrolled" \/ s.enrolment \in overlapped[q]
    BY <2>2, <2>4, <2>5, <2>7 DEF RegistrationFits, MayRegister
  <2>9. r.at = "insertRegistration" \/ (r.at = "createRegistration" /\ r.check >= 3) =>
          WindowOpen(PeriodOf[s.offering]) \/ PeriodOf[s.offering] \in overlapped[q]
    BY <2>2, <2>4, <2>5, <2>7 DEF RegistrationFits
  <2> QED  BY <1>2, <2>4, <2>6, <2>8, <2>9 DEF RegistrationFits, WindowOpen
<1>3. CASE (CompleteInstance(q) \/ RegisterItems(q)) /\ r.at = "createRegistration"
  <2>1. r.check = 1
    <3>1. CASE CompleteInstance(q)
      <4> DEFINE I == Present(instances)
                 P == Present(proposals)
      <4>1. s.then \in Overwriting(I, P) \cup Approved \cup {Done}
        <5>1. s \in [at : {"recordDecision", "completeTask", "completeInstance"}, instance : I,
                     decision : Decisions, task : Tasks,
                     then : Overwriting(I, P) \cup Approved \cup {Done}]
          BY <3>1, RequestShape DEF CompleteInstance, TypeInv, KnownRequest
        <5> HIDE DEF I, P
        <5> QED  BY <5>1
      <4>2. r = s.then
        BY <3>1, Arrives DEF CompleteInstance
      <4> HIDE DEF I, P
      <4>3. s.then \in Approved
        BY <1>3, <4>1, <4>2 DEF Overwriting, Done
      <4> HIDE DEF r
      <4> QED  BY <1>3, <4>2, <4>3 DEF Approved
    <3>2. CASE RegisterItems(q)
      <4>1. \/ r = WriteOver(s.proposal, s.row, "confirmed", Done)
            \/ \E i : r = ItemRegistration(q, i)
        BY <3>2, Arrives DEF RegisterItems
      <4>2. WriteOver(s.proposal, s.row, "confirmed", Done).at = "writeProposal"
        BY DEF WriteOver
      <4>3. \A i : ItemRegistration(q, i).check = 1
        BY DEF ItemRegistration, NewRegistration
      <4> QED  BY <1>3, <4>1, <4>2, <4>3
    <3> QED  BY <1>3, <3>1, <3>2
  <2> QED  BY <1>3, <2>1 DEF RegistrationFits
<1>4. CASE r.at \notin {"writeRegistration", "createRegistration", "insertRegistration"}
  BY <1>4 DEF RegistrationFits
<1> QED  BY <1>a, <1>1, <1>2, <1>3, <1>4

LEMMA RegistrationInvariant == Spec => []RegistrationInv
<1>1. TypeInv /\ RegistrationInv /\ [Next]_vars => RegistrationInv'
  BY NextBystanders, BystanderKeepsRegistration, StepKeepsRegistration DEF RegistrationInv
<1> QED  BY InitRegistration, TypeInvariant, <1>1, PTL DEF Spec

\* A withdrawn or completed registration is rewritten only by a request that had read
\* it before it became so, and then it is suspect (#transitionRegistration).
THEOREM FinalRegistrationsAreKept == Spec => FinalRegistrationsStay
<1>1. ASSUME TypeInv, RegistrationInv, [Next]_vars, NEW r \in Rows,
             registrations[r] # Absent, registrations[r].status # "registered"
      PROVE  registrations'[r] = registrations[r] \/ r \in suspect'
  <2>1. CASE UNCHANGED registrations
    BY <2>1
  <2>2. ASSUME NEW q \in Requests, InsertRegistration(q) PROVE registrations'[r] = registrations[r]
    BY <1>1, <2>2, RowInserted DEF TypeInv, TypeOK
  <2>3. ASSUME NEW q \in Requests, WriteRegistration(q), req[q].registration = r
        PROVE  r \in suspect'
    <3>1. r \in overlapped[q]
      BY <1>1, <2>3 DEF RegistrationInv, RegistrationFits, WriteRegistration
    <3> QED  BY <2>3, <3>1 DEF WriteRegistration, Writes
  <2>4. ASSUME NEW q \in Requests, WriteRegistration(q), req[q].registration # r
        PROVE  registrations'[r] = registrations[r]
    BY <1>1, <2>4 DEF WriteRegistration, TypeInv, TypeOK
  <2> QED  BY <1>1, <2>1, <2>2, <2>3, <2>4, RegistrationFrame
<1>2. TypeInv /\ RegistrationInv /\ [Next]_vars =>
        [\A r \in Rows :
           registrations[r] # Absent /\ registrations[r].status # "registered" =>
             registrations'[r] = registrations[r] \/ r \in suspect']_vars
  BY <1>1
<1> QED  BY <1>2, TypeInvariant, RegistrationInvariant, PTL DEF Spec, FinalRegistrationsStay

\* A registration comes into being only by an insert whose request found the enrolment
\* enrolled and the window open, and any later change of either overlaps it
\* (createRegistration: each check is a transaction of its own).
THEOREM RegistrationsAreInTime == Spec => RegisteredInTime
<1> DEFINE InTime(q, row) ==
             /\ req'[q] # req[q]
             /\ enrolments[row.enrolment] = "enrolled" \/ row.enrolment \in overlapped[q]
             /\ WindowOpen(PeriodOf[row.offering]) \/ PeriodOf[row.offering] \in overlapped[q]
<1>1. ASSUME TypeInv, RegistrationInv, [Next]_vars, NEW r \in Rows,
             registrations[r] = Absent, registrations'[r] # Absent
      PROVE  \E q \in Requests : InTime(q, registrations'[r])
  <2>1. ASSUME NEW q \in Requests, WriteRegistration(q) PROVE FALSE
    <3>1. registrations[req[q].registration] # Absent /\ req[q].registration \in Rows
      BY <1>1, <2>1, Rewritten, AbsentAssumption DEF WriteRegistration
    <3> QED  BY <1>1, <2>1, <3>1 DEF WriteRegistration, TypeInv, TypeOK
  <2>2. ASSUME NEW q \in Requests, InsertRegistration(q) PROVE InTime(q, registrations'[r])
    <3> DEFINE row == [enrolment |-> req[q].enrolment, offering |-> req[q].offering,
                       status |-> "registered", by |-> req[q].by]
    <3>1. registrations'[r] = row
      BY <1>1, <2>2, RowInserted DEF TypeInv, TypeOK
    <3>2. req'[q] # req[q]
      <4>1. req'[q] = req[q].then
        BY <1>1, <2>2, Arrives DEF InsertRegistration
      <4>2. req[q].then # Done => req[q].then.at = "registerItems"
        BY <1>1, <2>2, CreatingShape DEF InsertRegistration, Registering
      <4> QED  BY <2>2, <4>1, <4>2 DEF InsertRegistration, Done
    <3>3. RegistrationFits(q, req[q]) /\ req[q].at = "insertRegistration"
      BY <1>1, <2>2 DEF RegistrationInv, InsertRegistration
    <3>4. row.enrolment = req[q].enrolment /\ row.offering = req[q].offering
      OBVIOUS
    <3> HIDE DEF row
    <3> QED  BY <3>1, <3>2, <3>3, <3>4 DEF RegistrationFits
  <2> HIDE DEF InTime
  <2> QED  BY <1>1, <2>1, <2>2, RegistrationFrame
<1>2. TypeInv /\ RegistrationInv /\ [Next]_vars =>
        [\A r \in Rows :
           registrations[r] = Absent /\ registrations'[r] # Absent =>
             LET e == registrations'[r].enrolment
                 period == PeriodOf[registrations'[r].offering]
             IN  \E q \in Requests :
                   /\ req'[q] # req[q]
                   /\ enrolments[e] = "enrolled" \/ e \in overlapped[q]
                   /\ WindowOpen(period) \/ period \in overlapped[q]]_vars
  BY <1>1
<1> QED  BY <1>2, TypeInvariant, RegistrationInvariant, PTL DEF Spec, RegisteredInTime

-------------------------------------------------------------------------------
(* Bindings.                                                                *)

\* What has been read of the bindings of an enrolment, unless they are overlapped.
BindingFits(q, s) ==
  s.at \in {"closeBinding", "insertBinding"} =>
    LET mark == <<"binding", s.enrolment>>
    IN  \/ mark \in suspect \/ mark \in overlapped[q]
        \/ bindings[s.enrolment] \subseteq IF s.at = "closeBinding" THEN {s.binding} ELSE {}

BindingInv ==
  /\ \A e \in Enrolments :
       <<"binding", e>> \in suspect \/ \A a, b \in bindings[e] : a = b
  /\ \A q \in Requests : BindingFits(q, req[q])

LEMMA BindingFrame ==
  ASSUME [Next]_vars
  PROVE  UNCHANGED bindings \/ \E q \in Requests : Step(q) /\ (CloseBinding(q) \/ InsertBinding(q))
<1>1. CASE UNCHANGED vars
  BY <1>1 DEF vars, selectionVars
<1>2. CASE TimePasses
  BY <1>2 DEF TimePasses, selectionVars
<1>3. ASSUME NEW q \in Requests, Step(q)
      PROVE  UNCHANGED bindings \/ CloseBinding(q) \/ InsertBinding(q)
  BY <1>3 DEF Step, SelectionStep, CreateProposal, ReadBinding, InsertProposal, PopulateItem,
              EditItem, WriteItem, SubmitProposal, SubmitItems, WriteProposal, ValidateSelection,
              ValidateCapacity, CarryOutVerdict, DecideProposal, ConfirmProposal, ConfirmItems,
              RegisterItems, selectionVars
<1> QED  BY <1>1, <1>2, <1>3 DEF Next

LEMMA BindingShape ==
  ASSUME TypeInv, NEW q \in Requests, req[q].at \in {"closeBinding", "insertBinding"}
  PROVE  /\ req[q] \in [at : {"closeBinding", "insertBinding"}, enrolment : Enrolments,
                        binding : Bindings \cup {Absent}, then : InsertingProposal \cup {Done}]
         /\ req[q].enrolment \in Enrolments
<1>1. req[q] \in [at : {"closeBinding", "insertBinding"}, enrolment : Enrolments,
                  binding : Bindings \cup {Absent}, then : InsertingProposal \cup {Done}]
  BY RequestShape DEF TypeInv, KnownRequest
<1> QED  BY <1>1

LEMMA InitBinding == Init => BindingInv
<1> SUFFICES ASSUME Init PROVE BindingInv
  OBVIOUS
<1>1. ASSUME NEW q \in Requests PROVE BindingFits(q, req[q])
  <2>1. req[q] \in Call
    BY CallsAssumption, ScenariosAssumption DEF Init, CallsInit
  <2>2. req[q].at \notin {"closeBinding", "insertBinding"}
    BY <2>1 DEF Call
  <2> QED  BY <2>2 DEF BindingFits
<1>2. \A e \in Enrolments : bindings[e] = {}
  BY DEF Init
<1> QED  BY <1>1, <1>2 DEF BindingInv

LEMMA StepKeepsBinding ==
  ASSUME TypeInv, BindingInv, NEW q \in Requests, Step(q)
  PROVE  BindingFits(q, req[q])'
<1> DEFINE s == req[q]
           r == req'[q]
<1>a. /\ r.at = "closeBinding" => ReadBinding(q)
      /\ r.at = "insertBinding" => CreateProposal(q) \/ ReadBinding(q) \/ CloseBinding(q)
  BY Arrivals
<1>1. CASE CreateProposal(q) /\ r.at = "insertBinding"
  <2>1. PICK e : e = s.enrolment
    OBVIOUS
  <2> DEFINE insert == [at |-> "insertBinding", enrolment |-> e, binding |-> Absent,
                        then |-> [at |-> "insertProposal", enrolment |-> e]]
  <2>2. bindings[e] = {} /\ r = insert
    <3>1. \/ r = Done
          \/ r = insert /\ Unbound(e)
          \/ r = [at |-> "insertProposal", enrolment |-> e]
      BY <1>1, <2>1, Arrives DEF CreateProposal
    <3> QED  BY <1>1, <3>1 DEF Done, Unbound
  <2>3. r.enrolment = e
    BY <2>2
  <2> QED  BY <1>1, <2>2, <2>3 DEF BindingFits, CreateProposal, selectionVars
<1>2. CASE ReadBinding(q) /\ r.at \in {"closeBinding", "insertBinding"}
  <2>1. PICK e : e = s.enrolment
    OBVIOUS
  <2> DEFINE insert(b) == [at |-> "insertBinding", enrolment |-> e, binding |-> b, then |-> Done]
             close(b) == [at |-> "closeBinding", enrolment |-> e, binding |-> b, then |-> Done]
  <2>2. \/ bindings[e] = {} /\ r = insert(Absent)
        \/ \E b \in bindings[e] : r = close(b)
    <3>1. \A b : [insert(b) EXCEPT !.at = "closeBinding"] = close(b)
      OBVIOUS
    <3>2. \/ bindings[e] = {} /\ Reads(q, insert(Absent))
          \/ \E b \in bindings[e] : Reads(q, [insert(b) EXCEPT !.at = "closeBinding"])
      BY <1>2, <2>1 DEF ReadBinding
    <3>3. \A x : Reads(q, x) => r = x
      BY Arrives
    <3> HIDE DEF insert, close
    <3> QED  BY <3>1, <3>2, <3>3
  <2>3. \/ bindings[e] = {} /\ r.at = "insertBinding" /\ r.enrolment = e
        \/ \E b \in bindings[e] : r.at = "closeBinding" /\ r.enrolment = e /\ r.binding = b
    <3>1. insert(Absent).at = "insertBinding" /\ insert(Absent).enrolment = e
      OBVIOUS
    <3>2. \A b : close(b).at = "closeBinding" /\ close(b).enrolment = e /\ close(b).binding = b
      OBVIOUS
    <3> HIDE DEF insert, close
    <3> QED  BY <2>2, <3>1, <3>2
  <2>4. bindings' = bindings
    BY <1>2 DEF ReadBinding, selectionVars
  <2>5. CASE bindings[e] = {} /\ r.at = "insertBinding" /\ r.enrolment = e
    BY <2>4, <2>5 DEF BindingFits
  <2>6. ASSUME NEW b \in bindings[e], r.at = "closeBinding" /\ r.enrolment = e /\ r.binding = b
        PROVE  BindingFits(q, req[q])'
    <3>1. e \in Enrolments
      <4>1. s \in [at : {"createProposal", "setCurriculumBinding"}, enrolment : Enrolments]
        BY <1>2, RequestShape DEF ReadBinding, TypeInv, KnownRequest
      <4> QED  BY <2>1, <4>1
    <3>2. suspect' = suspect
      <4>1. \E x : Reads(q, x)
        BY <1>2 DEF ReadBinding
      <4> QED  BY <4>1 DEF Reads
    <3>3. <<"binding", e>> \in suspect \/ bindings[e] \subseteq {b}
      BY <3>1 DEF BindingInv
    <3> QED  BY <2>4, <2>6, <3>2, <3>3 DEF BindingFits
  <2> QED  BY <2>3, <2>5, <2>6
<1>3. CASE CloseBinding(q)
  <2>1. PICK e : e = s.enrolment
    OBVIOUS
  <2>2. s \in [at : {"closeBinding"}, enrolment : Enrolments, binding : Bindings \cup {Absent},
               then : InsertingProposal \cup {Done}]
    BY <1>3, BindingShape DEF CloseBinding
  <2>3. r = [s EXCEPT !.at = "insertBinding"]
    BY <1>3, Arrives DEF CloseBinding
  <2>4. r.at = "insertBinding" /\ r.enrolment = e /\ r # Done
    BY <2>1, <2>2, <2>3 DEF Done
  <2>5. bindings'[e] = bindings[e] \ {s.binding}
    BY <1>3, <2>1, <2>2 DEF CloseBinding, TypeInv, TypeOK
  <2>6. overlapped'[q] = overlapped[q] /\ suspect \subseteq suspect'
    BY <1>3, <2>3, <2>4 DEF CloseBinding, Writes
  <2>7. \/ <<"binding", e>> \in suspect \/ <<"binding", e>> \in overlapped[q]
        \/ bindings[e] \subseteq {s.binding}
    BY <2>1, <2>2 DEF BindingInv, BindingFits
  <2> QED  BY <2>4, <2>5, <2>6, <2>7 DEF BindingFits
<1>4. CASE r.at \notin {"closeBinding", "insertBinding"}
  BY <1>4 DEF BindingFits
<1> QED  BY <1>a, <1>1, <1>2, <1>3, <1>4

LEMMA NextBinding ==
  ASSUME TypeInv, BindingInv, [Next]_vars
  PROVE  BindingInv'
<1>1. ASSUME NEW p \in Requests PROVE BindingFits(p, req[p])'
  <2>1. CASE Bystander(p) /\ req[p].at \in {"closeBinding", "insertBinding"}
    <3>1. req'[p] = req[p] /\ BindingFits(p, req[p])
      BY <2>1 DEF Bystander, BindingInv
    <3>2. req[p].enrolment \in Enrolments /\ InFlight(p)
      BY <2>1, BindingShape, UnderWay DEF Entries
    <3>3. \/ bindings'[req[p].enrolment] = bindings[req[p].enrolment]
          \/ <<"binding", req[p].enrolment>> \in overlapped'[p]
      BY <2>1, <3>2 DEF Bystander
    <3>4. overlapped[p] \subseteq overlapped'[p] /\ suspect \subseteq suspect'
      BY <2>1, <3>2, SuspectGrows DEF Bystander
    <3> QED  BY <3>1, <3>3, <3>4 DEF BindingFits
  <2>2. CASE Bystander(p) /\ req[p].at \notin {"closeBinding", "insertBinding"}
    BY <2>2 DEF Bystander, BindingFits
  <2> QED  BY <2>1, <2>2, NextBystanders, StepKeepsBinding
<1>2. ASSUME NEW e \in Enrolments
      PROVE  <<"binding", e>> \in suspect' \/ \A a, b \in bindings'[e] : a = b
  <2>1. suspect \subseteq suspect'
    BY SuspectGrows
  <2>2. <<"binding", e>> \in suspect \/ \A a, b \in bindings[e] : a = b
    BY DEF BindingInv
  <2>3. CASE UNCHANGED bindings
    BY <2>1, <2>2, <2>3
  <2>4. ASSUME NEW q \in Requests, CloseBinding(q) PROVE bindings'[e] \subseteq bindings[e]
    BY <2>4 DEF CloseBinding, TypeInv, TypeOK
  <2>5. ASSUME NEW q \in Requests, InsertBinding(q)
        PROVE  <<"binding", e>> \in suspect' \/ \A a, b \in bindings'[e] : a = b
    <3>1. req[q].at = "insertBinding" /\ req[q].enrolment \in Enrolments
      BY <2>5, BindingShape DEF InsertBinding
    <3>2. CASE UNCHANGED bindings
      BY <2>1, <2>2, <3>2
    <3>3. ASSUME NEW b, bindings' = [bindings EXCEPT ![req[q].enrolment] = @ \cup {b}],
                 Writes(q, {<<"binding", req[q].enrolment>>}, req[q].then)
          PROVE  <<"binding", e>> \in suspect' \/ \A x, y \in bindings'[e] : x = y
      <4>1. CASE e # req[q].enrolment
        BY <2>1, <2>2, <3>3, <4>1 DEF TypeInv, TypeOK
      <4>2. CASE e = req[q].enrolment
        <5>1. \/ <<"binding", e>> \in suspect \/ <<"binding", e>> \in overlapped[q]
              \/ bindings[e] \subseteq {}
          BY <3>1, <4>2 DEF BindingInv, BindingFits
        <5>2. bindings'[e] = bindings[e] \cup {b}
          BY <3>3, <4>2 DEF TypeInv, TypeOK
        <5>3. <<"binding", e>> \in overlapped[q] => <<"binding", e>> \in suspect'
          BY <3>3, <4>2 DEF Writes
        <5> QED  BY <2>1, <5>1, <5>2, <5>3
      <4> QED  BY <4>1, <4>2
    <3> QED  BY <2>5, <3>2, <3>3 DEF InsertBinding
  <2> QED  BY <2>2, <2>1, <2>3, <2>4, <2>5, BindingFrame
<1> QED  BY <1>1, <1>2 DEF BindingInv

LEMMA BindingInvariant == Spec => []BindingInv
<1>1. TypeInv /\ BindingInv /\ [Next]_vars => BindingInv'
  BY NextBinding
<1> QED  BY InitBinding, TypeInvariant, <1>1, PTL DEF Spec

\* An enrolment is bound to one rule set at most: who inserts a binding found none, or
\* closed the only one, unless another request bound the enrolment meanwhile
\* (setCurriculumBinding, #resolveCurriculumBinding).
THEOREM EnrolmentsAreBoundOnce == Spec => []OneBindingPerEnrolment
<1>1. ASSUME BindingInv PROVE OneBindingPerEnrolment
  <2> SUFFICES ASSUME NEW e \in Enrolments, <<"binding", e>> \notin suspect
               PROVE  Cardinality(bindings[e]) <= 1
    BY DEF OneBindingPerEnrolment
  <2>1. \A a, b \in bindings[e] : a = b
    BY <1>1 DEF BindingInv
  <2>2. CASE bindings[e] = {}
    BY <2>2, FS_EmptySet
  <2>3. CASE bindings[e] # {}
    <3>1. PICK a : a \in bindings[e]
      BY <2>3
    <3>2. bindings[e] = {a}
      BY <2>1, <3>1
    <3>3. Cardinality({a}) = 1
      BY FS_Singleton
    <3> QED  BY <3>2, <3>3
  <2> QED  BY <2>2, <2>3
<1> QED  BY BindingInvariant, <1>1, PTL

-------------------------------------------------------------------------------
(* Workflow instances.                                                      *)

ClosingStates == {"recordDecision", "completeTask", "completeInstance"}
DecidedStates == ClosingStates \cup {"findTask"}
CreatingStates == {"createRegistration", "insertRegistration"}

WasApproved(i) ==
  /\ i \in Instances /\ instances[i] # Absent
  /\ instances[i].status = "completed" /\ "approved" \in instances[i].decisions

\* What a request has found of the instance, or done to it.
InstanceFits(q, s) ==
  /\ s.at = "assignTask" =>
       instances[s.instance].status = "running" \/ s.instance \in overlapped[q]
  /\ s.at \in {"completeTask", "completeInstance"} => s.decision \in instances[s.instance].decisions
  /\ s.at \in {"recordDecision", "completeTask"} =>
       s.task = instances[s.instance].task \/ s.instance \in overlapped[q]
  /\ s.at = "completeInstance" =>
       instances[s.instance].task # "assigned" \/ s.instance \in overlapped[q]

\* What follows a decision follows an approval of the same instance.
ApprovalFits(s) ==
  /\ s.at \in DecidedStates /\ s.then.at \in {"createRegistration", "transitionRegistration"} =>
       s.decision = "approved" /\ s.then.by.instance = s.instance
  /\ s.at \in CreatingStates /\ s.by.kind = "request" => WasApproved(s.by.instance)

ClosedFits(i) ==
  instances[i] # Absent /\ instances[i].status = "completed" =>
    /\ instances[i].decisions # {}
    /\ instances[i].task = "assigned" => i \in suspect

WorkflowInv ==
  /\ \A i \in Instances : ClosedFits(i)
  /\ \A q \in Requests : InstanceFits(q, req[q])

ApprovalInv ==
  /\ \A r \in Rows : registrations[r] # Absent /\ registrations[r].by.kind = "request" =>
       WasApproved(registrations[r].by.instance)
  /\ \A q \in Requests : ApprovalFits(req[q])

LEMMA InstanceFrame ==
  ASSUME [Next]_vars
  PROVE  UNCHANGED instances \/ \E q \in Requests : Step(q) /\ WorkflowStep(q)
<1>1. CASE UNCHANGED vars
  BY <1>1 DEF vars
<1>2. CASE TimePasses
  BY <1>2 DEF TimePasses
<1>3. ASSUME NEW q \in Requests, Step(q) PROVE UNCHANGED instances \/ WorkflowStep(q)
  BY <1>3 DEF Step
<1> QED  BY <1>1, <1>2, <1>3 DEF Next

LEMMA ClosingShape ==
  ASSUME TypeInv, NEW q \in Requests, req[q].at \in ClosingStates
  PROVE  /\ req[q].instance \in Instances
         /\ instances[req[q].instance] \in Instance(Contexts)
         /\ req[q].decision \in Decisions /\ req[q].task \in Tasks
         /\ req[q].then \in Overwriting(Present(instances), Present(proposals)) \cup Approved \cup {Done}
         /\ \A a \in ClosingStates :
              /\ [req[q] EXCEPT !.at = a].instance = req[q].instance
              /\ [req[q] EXCEPT !.at = a].decision = req[q].decision
              /\ [req[q] EXCEPT !.at = a].task = req[q].task
              /\ [req[q] EXCEPT !.at = a].then = req[q].then
              /\ [req[q] EXCEPT !.at = a].at = a
              /\ [req[q] EXCEPT !.at = a] # Done
<1> DEFINE I == Present(instances)
           T == Overwriting(I, Present(proposals)) \cup Approved \cup {Done}
<1>1. req[q] \in [at : {"recordDecision", "completeTask", "completeInstance"}, instance : I,
                  decision : Decisions, task : Tasks, then : T]
  BY RequestShape DEF TypeInv, KnownRequest, ClosingStates
<1>2. \A i \in I : i \in Instances /\ instances[i] \in Instance(Contexts)
  BY DEF TypeInv, TypeOK, Present
<1> HIDE DEF I, T
<1>3. /\ req[q].instance \in I /\ req[q].decision \in Decisions /\ req[q].task \in Tasks
      /\ req[q].then \in T
      /\ \A a \in ClosingStates :
           /\ [req[q] EXCEPT !.at = a].instance = req[q].instance
           /\ [req[q] EXCEPT !.at = a].decision = req[q].decision
           /\ [req[q] EXCEPT !.at = a].task = req[q].task
           /\ [req[q] EXCEPT !.at = a].then = req[q].then
           /\ [req[q] EXCEPT !.at = a].at = a
           /\ [req[q] EXCEPT !.at = a] # Done
  BY <1>1 DEF ClosingStates, Done
<1> QED  BY <1>2, <1>3 DEF T, I

LEMMA AssigningShape ==
  ASSUME TypeInv, NEW q \in Requests, req[q].at = "assignTask"
  PROVE  /\ req[q].instance \in Instances
         /\ instances[req[q].instance] \in Instance(Contexts)
<1> DEFINE I == Present(instances)
           T == Overwriting(I, Present(proposals)) \cup {Done}
<1>1. req[q] \in [at : {"assignTask"}, instance : I, then : T]
  BY RequestShape DEF TypeInv, KnownRequest
<1>2. \A i \in I : i \in Instances /\ instances[i] \in Instance(Contexts)
  BY DEF TypeInv, TypeOK, Present
<1> HIDE DEF I, T
<1> QED  BY <1>1, <1>2

\* A step of the bridge in terms of the one instance that it writes.
LEMMA InstanceStep ==
  ASSUME TypeInv, NEW q \in Requests, WorkflowStep(q)
  PROVE
    \/ /\ StartInstance(q)
       /\ \E i \in Instances :
            /\ instances[i] = Absent /\ req'[q].instance = i
            /\ instances' = [instances EXCEPT ![i] =
                               [context |-> req[q].context, status |-> "running",
                                task |-> "none", decisions |-> {}]]
    \/ /\ AssignTask(q)
       /\ instances' = [instances EXCEPT ![req[q].instance].task = "assigned"]
    \/ /\ RecordDecision(q) /\ req'[q] = [req[q] EXCEPT !.at = "completeTask"]
       /\ instances' = [instances EXCEPT ![req[q].instance].decisions = @ \cup {req[q].decision}]
    \/ /\ CompleteTask(q) /\ req'[q] = [req[q] EXCEPT !.at = "completeInstance"]
       /\ IF req[q].task = "none" THEN instances' = instances
          ELSE instances' = [instances EXCEPT ![req[q].instance].task = "completed"]
    \/ /\ CompleteInstance(q) /\ req'[q] = req[q].then
       /\ instances' = [instances EXCEPT ![req[q].instance].status = "completed"]
<1>1. CASE StartInstance(q)
  <2> DEFINE i == CHOOSE j \in Unused(instances) : TRUE
             V == Instance(Contexts) \cup {Absent}
  <2>1. instances \in [Instances -> V]
    BY DEF TypeInv, TypeOK
  <2> HIDE DEF V
  <2>2. i \in Instances /\ instances[i] = Absent
    BY <1>1, <2>1, UnusedChosen DEF StartInstance
  <2>3. /\ instances' = [instances EXCEPT ![i] =
                           [context |-> req[q].context, status |-> "running",
                            task |-> "none", decisions |-> {}]]
        /\ Writes(q, {i}, [at |-> "assignTask", instance |-> i, then |-> req[q].then])
    BY <1>1 DEF StartInstance
  <2> HIDE DEF i
  <2>4. req'[q] = [at |-> "assignTask", instance |-> i, then |-> req[q].then]
    BY <2>3, Arrives
  <2>5. req'[q].instance = i
    BY <2>4
  <2> QED  BY <1>1, <2>2, <2>3, <2>5
<1>2. CASE AssignTask(q)
  BY <1>2 DEF AssignTask
<1>3. CASE RecordDecision(q)
  BY <1>3, Arrives DEF RecordDecision
<1>4. CASE CompleteTask(q)
  BY <1>4, Arrives DEF CompleteTask
<1>5. CASE CompleteInstance(q)
  BY <1>5, Arrives DEF CompleteInstance
<1> QED  BY <1>1, <1>2, <1>3, <1>4, <1>5 DEF WorkflowStep

\* An instance is never removed, what is decided stays decided, and what is closed closed.
LEMMA InstancesStay ==
  ASSUME TypeInv, [Next]_vars, NEW i \in Instances, instances[i] # Absent
  PROVE  /\ instances'[i] # Absent
         /\ instances[i].decisions \subseteq instances'[i].decisions
         /\ instances[i].status = "completed" => instances'[i].status = "completed"
<1>1. instances[i] \in Instance(Contexts)
  BY DEF TypeInv, TypeOK
<1>2. instances \in [Instances -> Instance(Contexts) \cup {Absent}]
  BY DEF TypeInv, TypeOK
<1>a. instances' \in [Instances -> Instance(Contexts) \cup {Absent}]
  BY NextTyped DEF TypeInv, TypeOK
<1> DEFINE Stays == /\ instances[i].decisions \subseteq instances'[i].decisions
                    /\ instances[i].status = "completed" => instances'[i].status = "completed"
<1>3. CASE UNCHANGED instances
  BY <1>3
<1>4. ASSUME NEW q \in Requests, WorkflowStep(q)
      PROVE  instances'[i] # Absent /\ Stays
  <2>1. CASE instances'[i] = instances[i]
    BY <2>1
  <2>2. ASSUME NEW d, instances'[i] = [instances[i] EXCEPT !.decisions = @ \cup {d}]
        PROVE  instances'[i].decisions = instances[i].decisions \cup {d}
               /\ instances'[i].status = instances[i].status
    BY <1>1, <2>2 DEF Instance
  <2>3. ASSUME NEW v, instances'[i] = [instances[i] EXCEPT !.task = v]
        PROVE  instances'[i].decisions = instances[i].decisions
               /\ instances'[i].status = instances[i].status
    BY <1>1, <2>3 DEF Instance
  <2>4. CASE instances'[i] = [instances[i] EXCEPT !.status = "completed"]
    <3>1. instances'[i].decisions = instances[i].decisions /\ instances'[i].status = "completed"
      BY <1>1, <2>4 DEF Instance
    <3>2. instances'[i] \in Instance(Contexts)
      BY <1>1, <2>4 DEF Instance
    <3> QED  BY <3>1, <3>2, AbsentAssumption
  <2>5. \/ instances'[i] = instances[i]
        \/ \E d \in Decisions : instances'[i] = [instances[i] EXCEPT !.decisions = @ \cup {d}]
        \/ \E v \in Tasks : instances'[i] = [instances[i] EXCEPT !.task = v]
        \/ instances'[i] = [instances[i] EXCEPT !.status = "completed"]
    <3>1. CASE StartInstance(q)
      BY <1>2, <1>4, <3>1, InstanceStep DEF StartInstance, AssignTask, RecordDecision, CompleteTask,
                                            CompleteInstance
    <3>2. CASE AssignTask(q)
      BY <1>2, <3>2 DEF AssignTask, Tasks
    <3>3. CASE RecordDecision(q)
      <4>1. req[q].decision \in Decisions
        BY <3>3, ClosingShape DEF RecordDecision, ClosingStates
      <4> QED  BY <1>2, <3>3, <4>1 DEF RecordDecision
    <3>4. CASE CompleteTask(q)
      BY <1>2, <3>4 DEF CompleteTask, Tasks
    <3>5. CASE CompleteInstance(q)
      BY <1>2, <3>5 DEF CompleteInstance
    <3> QED  BY <1>4, <3>1, <3>2, <3>3, <3>4, <3>5 DEF WorkflowStep
  <2>6. ASSUME NEW d \in Decisions, instances'[i] = [instances[i] EXCEPT !.decisions = @ \cup {d}]
        PROVE  instances'[i] # Absent /\ Stays
    <3>1. instances'[i] \in Instance(Contexts)
      BY <1>1, <2>6 DEF Instance, Decisions
    <3> QED  BY <2>2, <2>6, <3>1, AbsentAssumption
  <2>7. ASSUME NEW v \in Tasks, instances'[i] = [instances[i] EXCEPT !.task = v]
        PROVE  instances'[i] # Absent /\ Stays
    <3>1. instances'[i] \in Instance(Contexts)
      BY <1>1, <2>7 DEF Instance, Tasks
    <3> QED  BY <2>3, <2>7, <3>1, AbsentAssumption
  <2> QED  BY <2>1, <2>4, <2>5, <2>6, <2>7
<1> QED  BY <1>3, <1>4, InstanceFrame

LEMMA InitWorkflow == Init => WorkflowInv /\ ApprovalInv
<1> SUFFICES ASSUME Init PROVE WorkflowInv /\ ApprovalInv
  OBVIOUS
<1>1. PICK s \in Scenarios :
        /\ CallsInit(s.calls) /\ instances = s.instances /\ registrations = s.registrations
  BY DEF Init
<1>2. ASSUME NEW i \in Instances PROVE ClosedFits(i)
  BY <1>1, ScenariosAssumption DEF ClosedFits
<1>3. ASSUME NEW q \in Requests PROVE InstanceFits(q, req[q]) /\ ApprovalFits(req[q])
  <2>1. req[q] \in Call
    BY <1>1, CallsAssumption, ScenariosAssumption DEF CallsInit
  <2>2. /\ req[q].at \notin DecidedStates \cup {"assignTask", "insertRegistration"}
        /\ req[q].at = "createRegistration" => req[q].by = Staff
    BY <2>1 DEF Call, DecidedStates, ClosingStates
  <2> QED  BY <2>2 DEF InstanceFits, ApprovalFits, DecidedStates, ClosingStates, CreatingStates,
                       Staff
<1>4. ASSUME NEW r \in Rows, registrations[r] # Absent PROVE registrations[r].by.kind = "staff"
  <2>1. registrations[r] \in Registration({Staff})
    BY <1>1, <1>4, ScenariosAssumption
  <2> QED  BY <2>1 DEF Registration, Staff
<1> QED  BY <1>2, <1>3, <1>4 DEF WorkflowInv, ApprovalInv

\* What a step of the bridge does to the instance that is closed.
LEMMA ClosedKept ==
  ASSUME TypeInv, WorkflowInv, [Next]_vars, NEW i \in Instances
  PROVE  ClosedFits(i)'
<1>s. suspect \subseteq suspect'
  BY SuspectGrows
<1>t. instances \in [Instances -> Instance(Contexts) \cup {Absent}]
  BY DEF TypeInv, TypeOK
<1>f. ClosedFits(i)
  BY DEF WorkflowInv
<1>1. CASE instances'[i] = instances[i]
  BY <1>1, <1>s, <1>f DEF ClosedFits
<1>2. ASSUME NEW q \in Requests, WorkflowStep(q), instances'[i] # instances[i]
      PROVE  ClosedFits(i)'
  <2> DEFINE s == req[q]
  <2>f. InstanceFits(q, s)
    BY DEF WorkflowInv
  <2>1. CASE StartInstance(q)
    <3>1. instances'[i] = [context |-> s.context, status |-> "running", task |-> "none",
                           decisions |-> {}]
      BY <1>2, <1>t, <2>1, InstanceStep DEF StartInstance, AssignTask, RecordDecision,
                                            CompleteTask, CompleteInstance
    <3>2. instances'[i].status = "running"
      BY <3>1
    <3> QED  BY <3>2 DEF ClosedFits
  <2>2. CASE AssignTask(q)
    <3>1. s.instance = i /\ instances'[i] = [instances[i] EXCEPT !.task = "assigned"]
      BY <1>2, <1>t, <2>2 DEF AssignTask
    <3>2. instances[i] \in Instance(Contexts) /\ s.at = "assignTask"
      BY <2>2, <3>1, AssigningShape DEF AssignTask
    <3>3. /\ instances'[i].status = instances[i].status
          /\ instances'[i].decisions = instances[i].decisions
      BY <3>1, <3>2 DEF Instance
    <3>4. instances[i].status = "running" \/ i \in overlapped[q]
      BY <2>f, <3>1, <3>2 DEF InstanceFits
    <3>5. i \in overlapped[q] => i \in suspect'
      BY <2>2, <3>1 DEF AssignTask, Writes
    <3>6. instances[i] # Absent
      BY <3>2, AbsentAssumption
    <3> QED  BY <1>f, <3>3, <3>4, <3>5, <3>6 DEF ClosedFits
  <2>3. CASE RecordDecision(q) \/ CompleteTask(q) \/ CompleteInstance(q)
    <3>1. s.at \in ClosingStates
      BY <2>3 DEF RecordDecision, CompleteTask, CompleteInstance, ClosingStates
    <3>2. s.instance \in Instances /\ instances[s.instance] \in Instance(Contexts)
      BY <3>1, ClosingShape
    <3>3. CASE RecordDecision(q)
      <4>1. s.instance = i /\ instances'[i] = [instances[i] EXCEPT !.decisions = @ \cup {s.decision}]
        BY <1>2, <1>t, <3>3 DEF RecordDecision
      <4>2. /\ instances'[i].status = instances[i].status /\ instances'[i].task = instances[i].task
            /\ instances'[i].decisions = instances[i].decisions \cup {s.decision}
        BY <3>2, <4>1 DEF Instance
      <4>3. instances[i] # Absent
        BY <3>2, <4>1, AbsentAssumption
      <4> QED  BY <1>f, <1>s, <4>2, <4>3 DEF ClosedFits
    <3>4. CASE CompleteTask(q)
      <4>1. s.instance = i /\ instances'[i] = [instances[i] EXCEPT !.task = "completed"]
        BY <1>2, <1>t, <3>4 DEF CompleteTask
      <4>2. /\ instances'[i].status = instances[i].status /\ instances'[i].task = "completed"
            /\ instances'[i].decisions = instances[i].decisions
        BY <3>2, <4>1 DEF Instance
      <4>3. instances[i] # Absent
        BY <3>2, <4>1, AbsentAssumption
      <4> QED  BY <1>f, <1>s, <4>2, <4>3 DEF ClosedFits
    <3>5. CASE CompleteInstance(q)
      <4>1. s.instance = i /\ instances'[i] = [instances[i] EXCEPT !.status = "completed"]
        BY <1>2, <1>t, <3>5 DEF CompleteInstance
      <4>2. /\ instances'[i].task = instances[i].task
            /\ instances'[i].decisions = instances[i].decisions
        BY <3>2, <4>1 DEF Instance
      <4>3. /\ s.decision \in instances[i].decisions
            /\ instances[i].task # "assigned" \/ i \in overlapped[q]
        BY <2>f, <3>5, <4>1 DEF InstanceFits, CompleteInstance
      <4>4. i \in overlapped[q] => i \in suspect'
        BY <3>5, <4>1 DEF CompleteInstance, Writes
      <4> QED  BY <4>2, <4>3, <4>4 DEF ClosedFits
    <3> QED  BY <2>3, <3>3, <3>4, <3>5
  <2> QED  BY <1>2, <2>1, <2>2, <2>3 DEF WorkflowStep
<1> QED  BY <1>1, <1>2, InstanceFrame

LEMMA BystanderKeepsInstance ==
  ASSUME TypeInv, WorkflowInv, [Next]_vars, NEW p \in Requests, Bystander(p)
  PROVE  InstanceFits(p, req[p])'
<1> DEFINE s == req[p]
<1>1. CASE s.at \in ClosingStates \cup {"assignTask"}
  <2>1. req'[p] = s /\ InstanceFits(p, s)
    BY DEF Bystander, WorkflowInv
  <2>2. s.instance \in Instances /\ instances[s.instance] \in Instance(Contexts)
    BY <1>1, ClosingShape, AssigningShape
  <2>3. InFlight(p)
    BY <1>1, UnderWay DEF Entries, ClosingStates
  <2>4. /\ overlapped[p] \subseteq overlapped'[p]
        /\ instances'[s.instance] = instances[s.instance] \/ s.instance \in overlapped'[p]
    BY <2>2, <2>3 DEF Bystander
  <2>5. instances[s.instance].decisions \subseteq instances'[s.instance].decisions
    BY <2>2, InstancesStay, AbsentAssumption
  <2> QED  BY <2>1, <2>4, <2>5 DEF InstanceFits
<1>2. CASE s.at \notin ClosingStates \cup {"assignTask"}
  BY <1>2 DEF Bystander, InstanceFits, ClosingStates
<1> QED  BY <1>1, <1>2

LEMMA StepKeepsInstance ==
  ASSUME TypeInv, WorkflowInv, NEW q \in Requests, Step(q)
  PROVE  InstanceFits(q, req[q])'
<1> DEFINE s == req[q]
           r == req'[q]
<1>n. [Next]_vars
  BY DEF Next
<1>a. /\ r.at = "assignTask" => StartInstance(q)
      /\ r.at = "recordDecision" => FindTask(q) \/ DecideProposal(q)
      /\ r.at = "completeTask" => RecordDecision(q)
      /\ r.at = "completeInstance" => CompleteTask(q)
  BY Arrivals
<1>f. InstanceFits(q, s)
  BY DEF WorkflowInv
<1>t. instances \in [Instances -> Instance(Contexts) \cup {Absent}]
  BY DEF TypeInv, TypeOK
<1>1. CASE StartInstance(q) /\ r.at = "assignTask"
  <2>1. PICK i \in Instances :
          /\ r.instance = i
          /\ instances' = [instances EXCEPT ![i] =
                             [context |-> s.context, status |-> "running", task |-> "none",
                              decisions |-> {}]]
    BY <1>1, InstanceStep DEF StartInstance, AssignTask, RecordDecision, CompleteTask,
                              CompleteInstance, WorkflowStep
  <2>2. instances'[i].status = "running"
    BY <1>t, <2>1
  <2> QED  BY <1>1, <2>1, <2>2 DEF InstanceFits
<1>2. CASE (FindTask(q) \/ DecideProposal(q)) /\ r.at = "recordDecision"
  <2>1. \E i, d, w : r = Closing(i, d, w)
    <3>1. CASE FindTask(q)
      BY <3>1, Arrives DEF FindTask
    <3>2. CASE DecideProposal(q)
      <4> DEFINE p == s.proposal
                 w == WriteOver(p, proposals[p], s.decision, AfterStatus(p, s.decision))
      <4>1. r \in {Done, w, Closing(proposals[p].workflow, s.decision, w)}
        BY <3>2, Arrives DEF DecideProposal
      <4>2. w.at = "writeProposal" /\ Done.at = "done"
        BY DEF WriteOver, Done
      <4> HIDE DEF w
      <4> QED  BY <1>2, <4>1, <4>2
    <3> QED  BY <1>2, <3>1, <3>2
  <2>2. PICK i, d, w : r = Closing(i, d, w)
    BY <2>1
  <2>3. r.instance = i /\ r.task = instances[i].task
    BY <2>2 DEF Closing
  <2>4. instances' = instances
    <3>1. ~WorkflowStep(q)
      BY <1>2 DEF FindTask, DecideProposal, WorkflowStep, StartInstance, AssignTask,
                  RecordDecision, CompleteTask, CompleteInstance
    <3> QED  BY <3>1 DEF Step
  <2> QED  BY <1>2, <2>3, <2>4 DEF InstanceFits
<1>3. CASE RecordDecision(q) /\ r.at = "completeTask"
  <2>1. PICK i : i = s.instance
    OBVIOUS
  <2>2. /\ s.at = "recordDecision" /\ i \in Instances /\ instances[i] \in Instance(Contexts)
        /\ r.instance = i /\ r.decision = s.decision /\ r.task = s.task /\ r # Done
    <3>1. s.at = "recordDecision" /\ s.at \in ClosingStates /\ "completeTask" \in ClosingStates
      BY <1>3 DEF RecordDecision, ClosingStates
    <3>2. r = [s EXCEPT !.at = "completeTask"]
      BY <1>3, Arrives DEF RecordDecision
    <3> QED  BY <2>1, <3>1, <3>2, ClosingShape
  <2>3. instances'[i] = [instances[i] EXCEPT !.decisions = @ \cup {s.decision}]
    BY <1>3, <1>t, <2>1, <2>2 DEF RecordDecision
  <2>4. instances'[i].decisions = instances[i].decisions \cup {s.decision}
        /\ instances'[i].task = instances[i].task
    BY <2>2, <2>3 DEF Instance
  <2>5. overlapped'[q] = overlapped[q]
    BY <1>3, <2>2, Arrives DEF RecordDecision, Writes
  <2>6. s.task = instances[i].task \/ i \in overlapped[q]
    BY <1>f, <2>1, <2>2 DEF InstanceFits
  <2> QED  BY <1>3, <2>2, <2>4, <2>5, <2>6 DEF InstanceFits
<1>4. CASE CompleteTask(q) /\ r.at = "completeInstance"
  <2>1. PICK i : i = s.instance
    OBVIOUS
  <2>2. /\ s.at = "completeTask" /\ i \in Instances /\ instances[i] \in Instance(Contexts)
        /\ r.instance = i /\ r.decision = s.decision /\ r.task = s.task /\ r # Done
    <3>1. s.at = "completeTask" /\ s.at \in ClosingStates /\ "completeInstance" \in ClosingStates
      BY <1>4 DEF CompleteTask, ClosingStates
    <3>2. r = [s EXCEPT !.at = "completeInstance"]
      BY <1>4, Arrives DEF CompleteTask
    <3> QED  BY <2>1, <3>1, <3>2, ClosingShape
  <2>3. s.decision \in instances[i].decisions /\ (s.task = instances[i].task \/ i \in overlapped[q])
    BY <1>f, <2>1, <2>2 DEF InstanceFits
  <2>4. overlapped'[q] = overlapped[q]
    <3>1. r = [s EXCEPT !.at = "completeInstance"]
      BY <1>4, Arrives DEF CompleteTask
    <3>2. [s EXCEPT !.at = "completeInstance"] # Done
      BY <2>2, <3>1
    <3>3. Reads(q, r) \/ Writes(q, {i}, r)
      BY <1>4, <2>1, <3>1 DEF CompleteTask
    <3> QED  BY <2>2, <3>3 DEF Reads, Writes, TypeInv
  <2>5. s.decision \in instances'[i].decisions
    BY <1>n, <2>2, <2>3, InstancesStay, AbsentAssumption
  <2>6. instances'[i].task # "assigned" \/ i \in overlapped[q]
    <3>1. CASE s.task = "none"
      BY <1>4, <2>3, <3>1 DEF CompleteTask
    <3>2. CASE s.task # "none"
      <4>1. instances'[i] = [instances[i] EXCEPT !.task = "completed"]
        BY <1>4, <1>t, <2>1, <2>2, <3>2 DEF CompleteTask
      <4> QED  BY <2>2, <4>1 DEF Instance
    <3> QED  BY <3>1, <3>2
  <2> QED  BY <1>4, <2>2, <2>4, <2>5, <2>6 DEF InstanceFits
<1>5. CASE r.at \notin {"assignTask", "recordDecision", "completeTask", "completeInstance"}
  BY <1>5 DEF InstanceFits
<1> QED  BY <1>a, <1>1, <1>2, <1>3, <1>4, <1>5

LEMMA WorkflowInvariant == Spec => []WorkflowInv
<1>1. TypeInv /\ WorkflowInv /\ [Next]_vars => WorkflowInv'
  BY ClosedKept, NextBystanders, BystanderKeepsInstance, StepKeepsInstance DEF WorkflowInv
<1> QED  BY InitWorkflow, TypeInvariant, <1>1, PTL DEF Spec

\* An instance is closed after its decision is on record, and closing it leaves no task
\* in a queue, unless the task was assigned or the instance closed in between: the
\* bridge itself checks neither (completeWorkflowInstance, assignWorkflowTask).
THEOREM ClosedInstancesHaveDecisions == Spec => []ClosedInstancesAreDecided
<1>1. WorkflowInv => ClosedInstancesAreDecided
  BY DEF WorkflowInv, ClosedFits, ClosedInstancesAreDecided, Exists
<1> QED  BY WorkflowInvariant, <1>1, PTL

\* An approval stays on record.
LEMMA ApprovalStays ==
  ASSUME TypeInv, [Next]_vars, NEW i, WasApproved(i)
  PROVE  WasApproved(i)'
BY InstancesStay DEF WasApproved

LEMMA StepKeepsApproval ==
  ASSUME TypeInv, WorkflowInv, ApprovalInv, NEW q \in Requests, Step(q)
  PROVE  ApprovalFits(req[q])'
<1> DEFINE s == req[q]
           r == req'[q]
<1>n. [Next]_vars
  BY DEF Next
<1>a. /\ r.at = "findTask" => DecideChange(q)
      /\ r.at = "recordDecision" => FindTask(q) \/ DecideProposal(q)
      /\ r.at = "completeTask" => RecordDecision(q)
      /\ r.at = "completeInstance" => CompleteTask(q)
      /\ r.at = "createRegistration" => CheckRegistration(q) \/ CompleteInstance(q) \/ RegisterItems(q)
      /\ r.at = "insertRegistration" => CheckRegistration(q)
  BY Arrivals
<1>f. ApprovalFits(s)
  BY DEF ApprovalInv
<1>1. CASE DecideChange(q) /\ r.at = "findTask"
  <2> DEFINE i == s.instance
             d == s.decision
             next == AfterDecision(i, d)
             change == instances[i].context
  <2>1. r = [at |-> "findTask", instance |-> i, decision |-> d, then |-> next]
    <3>1. r = Done \/ r = [at |-> "findTask", instance |-> i, decision |-> d, then |-> next]
      BY <1>1, Arrives DEF DecideChange
    <3> QED  BY <1>1, <3>1 DEF Done
  <2>2. next.at \in {"createRegistration", "transitionRegistration"} =>
          d = "approved" /\ next.by.instance = i
    <3>1. CASE d # "approved"
      <4>1. next = Done
        BY <3>1 DEF AfterDecision
      <4> QED  BY <4>1 DEF Done
    <3>2. CASE d = "approved"
      <4>1. \/ next = NewRegistration(change.enrolment, change.offering, FALSE, ChangeRequest(i), Done)
            \/ next = Transition(change.registration, "withdrawn", ChangeRequest(i))
        BY <3>2 DEF AfterDecision
      <4>2. NewRegistration(change.enrolment, change.offering, FALSE, ChangeRequest(i), Done).by
              = ChangeRequest(i)
        BY DEF NewRegistration
      <4>3. Transition(change.registration, "withdrawn", ChangeRequest(i)).by = ChangeRequest(i)
        BY DEF Transition
      <4>4. next.by = ChangeRequest(i)
        BY <4>1, <4>2, <4>3
      <4>5. ChangeRequest(i).instance = i
        BY DEF ChangeRequest
      <4> QED  BY <3>2, <4>4, <4>5
    <3> QED  BY <3>1, <3>2
  <2> HIDE DEF next
  <2>3. r.then = next /\ r.decision = d /\ r.instance = i
    BY <2>1
  <2>4. PICK j : j = i
    OBVIOUS
  <2> QED  BY <1>1, <2>2, <2>3 DEF ApprovalFits, DecidedStates, CreatingStates
<1>2. CASE DecideProposal(q) /\ r.at = "recordDecision"
  <2> DEFINE p == s.proposal
             w == WriteOver(p, proposals[p], s.decision, AfterStatus(p, s.decision))
             c == Closing(proposals[p].workflow, s.decision, w)
  <2>1. r \in {Done, w, c}
    BY <1>2, Arrives DEF DecideProposal
  <2>2. w.at = "writeProposal" /\ Done.at = "done"
    BY DEF WriteOver, Done
  <2>3. c.then = w
    BY DEF Closing
  <2> HIDE DEF w, c
  <2>4. r.then.at = "writeProposal"
    BY <1>2, <2>1, <2>2, <2>3
  <2> QED  BY <1>2, <2>4 DEF ApprovalFits, DecidedStates, CreatingStates
<1>3. CASE (RecordDecision(q) \/ CompleteTask(q)) /\ r.at \in {"completeTask", "completeInstance"}
  <2>1. s.at \in ClosingStates
    BY <1>3 DEF RecordDecision, CompleteTask, ClosingStates
  <2>2. \E a \in ClosingStates : r = [s EXCEPT !.at = a]
    BY <1>3, Arrives DEF RecordDecision, CompleteTask, ClosingStates
  <2>3. r.instance = s.instance /\ r.decision = s.decision /\ r.then = s.then
    BY <2>1, <2>2, ClosingShape
  <2> QED  BY <1>3, <1>f, <2>1, <2>3 DEF ApprovalFits, DecidedStates, CreatingStates
<1>4. CASE CheckRegistration(q) /\ r.at \in CreatingStates
  <2>1. s \in Creating(Present(instances), Present(proposals)) /\ s.at = "createRegistration"
    BY <1>4, RequestShape DEF CheckRegistration, TypeInv, KnownRequest
  <2>2. r \in {Done, [s EXCEPT !.at = "insertRegistration"], [s EXCEPT !.check = @ + 1]}
    BY <1>4, Arrives DEF CheckRegistration
  <2>3. r.by = s.by
    BY <1>4, <2>1, <2>2 DEF Creating, Done, CreatingStates
  <2>4. s.by.kind = "request" => WasApproved(s.by.instance)
    BY <1>f, <2>1 DEF ApprovalFits, DecidedStates, CreatingStates
  <2>5. PICK by : by = s.by
    OBVIOUS
  <2>6. by.kind = "request" => WasApproved(by.instance)'
    BY <1>n, <2>4, <2>5, ApprovalStays
  <2> QED  BY <1>4, <2>3, <2>5, <2>6 DEF ApprovalFits, DecidedStates, CreatingStates,
                                                ClosingStates, WasApproved
<1>5. CASE CompleteInstance(q) /\ r.at = "createRegistration"
  <2>1. PICK i : i = s.instance
    OBVIOUS
  <2>2. /\ s.at = "completeInstance" /\ s.at \in ClosingStates /\ r = s.then
        /\ i \in Instances /\ instances[i] \in Instance(Contexts)
    BY <1>5, <2>1, ClosingShape, Arrives DEF CompleteInstance, ClosingStates
  <2>3. s.decision = "approved" /\ r.by.instance = i
    BY <1>5, <1>f, <2>1, <2>2 DEF ApprovalFits, DecidedStates
  <2>4. "approved" \in instances[i].decisions
    BY <2>1, <2>2, <2>3 DEF WorkflowInv, InstanceFits
  <2>5. /\ "approved" \in instances'[i].decisions /\ instances'[i] # Absent
    BY <1>n, <2>2, <2>4, InstancesStay, AbsentAssumption
  <2>6. instances'[i].status = "completed"
    <3>1. instances'[i] = [instances[i] EXCEPT !.status = "completed"]
      BY <1>5, <2>1, <2>2 DEF CompleteInstance, TypeInv, TypeOK
    <3> QED  BY <2>2, <3>1 DEF Instance
  <2> QED  BY <1>5, <2>2, <2>3, <2>5, <2>6 DEF ApprovalFits, DecidedStates, CreatingStates,
                                                ClosingStates, WasApproved
<1>6. CASE RegisterItems(q) /\ r.at = "createRegistration"
  <2>1. \/ r = WriteOver(s.proposal, s.row, "confirmed", Done)
        \/ \E i : r = ItemRegistration(q, i)
    BY <1>6, Arrives DEF RegisterItems
  <2>2. WriteOver(s.proposal, s.row, "confirmed", Done).at = "writeProposal"
    BY DEF WriteOver
  <2>3. \A i : ItemRegistration(q, i).by.kind = "proposal"
    BY DEF ItemRegistration, NewRegistration, ByProposal
  <2>4. r.by.kind = "proposal"
    BY <1>6, <2>1, <2>2, <2>3
  <2> QED  BY <1>6, <2>4 DEF ApprovalFits, DecidedStates, ClosingStates
<1>7. CASE FindTask(q) /\ r.at = "recordDecision"
  <2>1. r.then = s.then /\ r.decision = s.decision /\ r.instance = s.instance
    <3>1. r = Closing(s.instance, s.decision, s.then)
      BY <1>7, Arrives DEF FindTask
    <3> HIDE DEF r
    <3> QED  BY <3>1 DEF Closing
  <2>2. s.at \in DecidedStates
    BY <1>7 DEF FindTask, DecidedStates
  <2> QED  BY <1>7, <1>f, <2>1, <2>2 DEF ApprovalFits, DecidedStates, CreatingStates
<1>8. CASE r.at \notin DecidedStates \cup CreatingStates
  BY <1>8 DEF ApprovalFits
<1> QED  BY <1>a, <1>1, <1>2, <1>3, <1>4, <1>5, <1>6, <1>7, <1>8
         DEF DecidedStates, ClosingStates, CreatingStates

LEMMA NextApproval ==
  ASSUME TypeInv, WorkflowInv, ApprovalInv, [Next]_vars
  PROVE  ApprovalInv'
<1>1. ASSUME NEW p \in Requests, Bystander(p) PROVE ApprovalFits(req[p])'
  <2>1. req'[p] = req[p] /\ ApprovalFits(req[p])
    BY <1>1 DEF Bystander, ApprovalInv
  <2>2. PICK s : s = req[p]
    OBVIOUS
  <2>3. s.at \in CreatingStates /\ s.by.kind = "request" => WasApproved(s.by.instance)'
    BY <2>1, <2>2, ApprovalStays DEF ApprovalFits
  <2> QED  BY <2>1, <2>2, <2>3 DEF ApprovalFits, WasApproved
<1>2. ASSUME NEW r \in Rows, registrations'[r] # Absent, registrations'[r].by.kind = "request"
      PROVE  WasApproved(registrations[r].by.instance)'
  <2>1. PICK i : i = registrations'[r].by.instance
    OBVIOUS
  <2>2. WasApproved(i)
    <3>1. CASE registrations[r] # Absent
      BY <1>2, <2>1, <3>1, RowsStay DEF ApprovalInv
    <3>2. CASE registrations[r] = Absent
      <4>1. ASSUME NEW q \in Requests, WriteRegistration(q) PROVE FALSE
        <5>1. registrations[req[q].registration] # Absent /\ req[q].registration \in Rows
          BY <4>1, Rewritten, AbsentAssumption DEF WriteRegistration
        <5> QED  BY <1>2, <3>2, <4>1, <5>1 DEF WriteRegistration, TypeInv, TypeOK
      <4>2. ASSUME NEW q \in Requests, InsertRegistration(q)
            PROVE  registrations'[r].by = req[q].by /\ req[q].at = "insertRegistration"
        <5> DEFINE row == [enrolment |-> req[q].enrolment, offering |-> req[q].offering,
                           status |-> "registered", by |-> req[q].by]
        <5>1. registrations'[r] = row
          BY <1>2, <3>2, <4>2, RowInserted DEF TypeInv, TypeOK
        <5> QED  BY <4>2, <5>1 DEF InsertRegistration
      <4> QED  BY <1>2, <2>1, <3>2, <4>1, <4>2, RegistrationFrame
                DEF ApprovalInv, ApprovalFits, CreatingStates
    <3> QED  BY <3>1, <3>2
  <2>3. WasApproved(i)'
    BY <2>2, ApprovalStays
  <2> QED  BY <2>1, <2>3 DEF WasApproved
<1> QED  BY <1>1, <1>2, NextBystanders, StepKeepsApproval DEF ApprovalInv

LEMMA ApprovalInvariant == Spec => []ApprovalInv
<1>1. TypeInv /\ WorkflowInv /\ ApprovalInv /\ [Next]_vars => ApprovalInv'
  BY NextApproval
<1> QED  BY InitWorkflow, TypeInvariant, WorkflowInvariant, <1>1, PTL DEF Spec

\* A registration that came of a change request came of an approved and closed one:
\* the approval is on record before the request is closed, and the request is closed
\* before anything is registered (decideChangeRequest).
THEOREM RequestedChangesWereApproved == Spec => []ChangesWereApproved
<1>1. ApprovalInv => ChangesWereApproved
  BY DEF ApprovalInv, ChangesWereApproved, WasApproved
<1> QED  BY ApprovalInvariant, <1>1, PTL

===============================================================================
