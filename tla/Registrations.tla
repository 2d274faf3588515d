---------------------------- MODULE Registrations ----------------------------
(***************************************************************************)
(* Module registrations, their windows, and the change requests that a     *)
(* personal tutor decides (apps/api/src/platform/registration/service.ts   *)
(* and window-service.ts).                                                 *)
(*                                                                         *)
(* createRegistration runs six checks, each a transaction of its own, and  *)
(* then inserts.  No index backs any of them.                              *)
(***************************************************************************)
EXTENDS Enrolments, Workflows, FiniteSets, FiniteSetsExt

CONSTANTS
  Offerings,
  Rows,          \* identifiers of module_registration rows
  Modules,
  ModuleOf,      \* the module of each offering
  PeriodOf,      \* the academic period of each offering
  Capacity,      \* the capacity of each offering, or Absent
  Credits,       \* the credit value of each module
  MaxCredits,    \* getMaxCreditsPerPeriod
  Rules          \* module_relationship rows: [type, module, related]

ASSUME CreditsAssumption == Credits \in [Modules -> Nat] /\ MaxCredits \in Nat
ASSUME OfferingsAssumption == ModuleOf \in [Offerings -> Modules]
ASSUME CapacityAssumption == Capacity \in [Offerings -> Nat \cup {Absent}]

VARIABLES
  registrations,  \* the current version of each registration
  windows         \* where the clock stands to each period's registration window

registrationVars == <<registrations, windows>>

Periods == { PeriodOf[o] : o \in Offerings }

\* A tenant that does not enforce windows is "unrestricted"; "none": no window row.
Phases == {"before", "open", "after"}

\* by is history: staff, the change request or the proposal behind the row.
Registration(origins) ==
  [enrolment : Enrolments, offering : Offerings,
   status : {"registered", "withdrawn", "completed"}, by : origins]

\* The current rows of an enrolment in one of the statuses.
RowsOf(e, statuses) ==
  { r \in Rows : /\ registrations[r] # Absent
                 /\ registrations[r].enrolment = e
                 /\ registrations[r].status \in statuses }

Active == {"registered", "completed"}

Registered(o) ==
  { r \in Rows : /\ registrations[r] # Absent
                 /\ registrations[r].offering = o
                 /\ registrations[r].status = "registered" }

\* A mutant for HasCapacity: an off-by-one.
HasCapacityAtLimit(o) == Capacity[o] = Absent \/ Cardinality(Registered(o)) <= Capacity[o]

\* #ensureCapacityAvailable, and #hasCapacity of module selection.
HasCapacity(o) == Capacity[o] = Absent \/ Cardinality(Registered(o)) < Capacity[o]

\* A mutant for MayRegister: a suspended student registers.
MayRegisterUnlessFinal(e) == enrolments[e] \notin {Absent, "withdrawn", "graduated"}

MayRegister(e) == enrolments[e] = "enrolled"

\* #validateRegistrationWindow.
WindowOpen(period) == windows[period] \in {"unrestricted", "open"}

\* #ensureNoDuplicateCurrentRegistration.
Duplicates(e, o) == { r \in RowsOf(e, Active) : registrations[r].offering = o }

\* #hasRelatedRegistration.
HasRelated(e, related, statuses, periods) ==
  \E r \in RowsOf(e, statuses) :
    LET o == registrations[r].offering IN ModuleOf[o] = related /\ PeriodOf[o] \in periods

\* #ensureModuleRulesSatisfied.
RulesSatisfied(e, o) ==
  \A rule \in { x \in Rules : x.module = ModuleOf[o] } :
    CASE rule.type = "prerequisite" -> HasRelated(e, rule.related, {"completed"}, Periods)
      [] rule.type = "co-requisite" -> HasRelated(e, rule.related, Active, {PeriodOf[o]})
      [] rule.type = "exclusion"    -> ~HasRelated(e, rule.related, Active, Periods)

\* What an enrolment is registered for in a period, by a table of registrations.
RegisteredIn(table, e, period) ==
  { r \in Rows : /\ table[r] # Absent
                 /\ table[r].enrolment = e
                 /\ table[r].status = "registered"
                 /\ PeriodOf[table[r].offering] = period }

\* #sumRegisteredCreditsForPeriod.
CreditsIn(table, e, period) ==
  MapThenSumSet(LAMBDA r : Credits[ModuleOf[table[r].offering]], RegisteredIn(table, e, period))

RegisteredCredits(e, period) == CreditsIn(registrations, e, period)

\* A mutant for CreditsAllow: the credits of the new module are not counted.
CreditsAllowOneMore(e, o) == RegisteredCredits(e, PeriodOf[o]) <= MaxCredits

\* #ensureCreditLimitNotExceeded.
CreditsAllow(e, o) == RegisteredCredits(e, PeriodOf[o]) + Credits[ModuleOf[o]] <= MaxCredits

Checks == <<"enrolled", "window", "duplicate", "capacity", "rules", "credits">>

\* The checks of createRegistration, in their order.
Passes(check, e, o, skip) ==
  CASE check = "enrolled"  -> MayRegister(e)
    [] check = "window"    -> WindowOpen(PeriodOf[o])
    [] check = "duplicate" -> Duplicates(e, o) = {}
    [] check = "capacity"  -> skip \/ HasCapacity(o)
    [] check = "rules"     -> RulesSatisfied(e, o)
    [] check = "credits"   -> CreditsAllow(e, o)

-------------------------------------------------------------------------------

\* createRegistration: the next check.
CheckRegistration(q) ==
  /\ req[q].at = "createRegistration"
  /\ LET s == req[q]
     IN  Reads(q, IF ~Passes(Checks[s.check], s.enrolment, s.offering, s.skip) THEN Done
                  ELSE IF s.check = Len(Checks) THEN [s EXCEPT !.at = "insertRegistration"]
                  ELSE [s EXCEPT !.check = @ + 1])
  /\ UNCHANGED registrationVars

\* createRegistration: the insert.
InsertRegistration(q) ==
  /\ req[q].at = "insertRegistration"
  /\ Unused(registrations) # {}
  /\ LET s == req[q]
         r == CHOOSE x \in Unused(registrations) : TRUE
     IN  /\ registrations' = [registrations EXCEPT ![r] =
                                [enrolment |-> s.enrolment, offering |-> s.offering,
                                 status |-> "registered", by |-> s.by]]
         /\ Writes(q, {r, s.offering, <<"registrations", s.enrolment>>}, s.then)
  /\ UNCHANGED windows

\* A mutant for MayChange: a completed registration may be withdrawn.
MayChangeUnlessWithdrawn(r) == registrations[r] # Absent /\ registrations[r].status # "withdrawn"

MayChange(r) == registrations[r] # Absent /\ registrations[r].status = "registered"

\* #transitionRegistration: the read.
ReadRegistration(q) ==
  /\ req[q].at = "transitionRegistration"
  /\ LET r == req[q].registration
     IN  Reads(q, IF MayChange(r)
                  THEN [req[q] EXCEPT !.at = "writeRegistration"]
                  ELSE Done)
  /\ UNCHANGED registrationVars

\* #transitionRegistration: whatever version is current is closed and replaced.
WriteRegistration(q) ==
  /\ req[q].at = "writeRegistration"
  /\ LET r == req[q].registration
     IN  /\ registrations' = [registrations EXCEPT ![r].status = req[q].to]
         /\ Writes(q, {r, registrations[r].offering,
                       <<"registrations", registrations[r].enrolment>>}, Done)
  /\ UNCHANGED windows

Staff == [kind |-> "staff"]

ChangeRequest(i) == [kind |-> "request", instance |-> i]

Transition(r, to, by) ==
  [at |-> "transitionRegistration", registration |-> r, to |-> to, by |-> by]

NewRegistration(e, o, skip, by, then) ==
  [at |-> "createRegistration", check |-> 1, enrolment |-> e, offering |-> o,
   skip |-> skip, by |-> by, then |-> then]

\* requestRegistration checks that the enrolment exists, requestWithdrawal that the
\* registration is registered; then #startChangeRequest.
RequestChange(q) ==
  /\ req[q].at = "requestChange"
  /\ LET change == req[q].context
         accepted == IF change.action = "register"
                     THEN enrolments[change.enrolment] # Absent
                     ELSE MayChange(change.registration)
     IN  Reads(q, IF accepted THEN [at |-> "startInstance", context |-> change, then |-> Done]
                  ELSE Done)
  /\ UNCHANGED registrationVars

\* A mutant for AfterDecision: the decision is not looked at.
AfterAnyDecision(i, decision) ==
  LET change == instances[i].context
  IN  IF change.action = "register"
      THEN NewRegistration(change.enrolment, change.offering, FALSE, ChangeRequest(i), Done)
      ELSE Transition(change.registration, "withdrawn", ChangeRequest(i))

\* What a decided change request goes on to do, after it has been closed.
AfterDecision(i, decision) ==
  LET change == instances[i].context
  IN  CASE decision # "approved" -> Done
        [] decision = "approved" /\ change.action = "register" ->
             NewRegistration(change.enrolment, change.offering, FALSE, ChangeRequest(i), Done)
        [] OTHER -> Transition(change.registration, "withdrawn", ChangeRequest(i))

\* #getChangeRequestInstance finds instances of the change workflow only.
IsChangeRequest(i) == Exists(i) /\ instances[i].context.action \in {"register", "withdraw"}

\* decideChangeRequest
DecideChange(q) ==
  /\ req[q].at = "decideChange"
  /\ LET i == req[q].instance
     IN  Reads(q, IF IsChangeRequest(i) /\ Running(i)
                  THEN [at |-> "findTask", instance |-> i, decision |-> req[q].decision,
                        then |-> AfterDecision(i, req[q].decision)]
                  ELSE Done)
  /\ UNCHANGED registrationVars

\* #findChangeDecisionTask
FindTask(q) ==
  /\ req[q].at = "findTask"
  /\ Reads(q, Closing(req[q].instance, req[q].decision, req[q].then))
  /\ UNCHANGED registrationVars

\* createWindow inserts, under an index on the period; updateWindow needs the row.
SetWindow(q) ==
  /\ req[q].at \in {"createWindow", "updateWindow"}
  /\ LET period == req[q].period
         exists == windows[period] \in Phases
     IN  IF windows[period] # "unrestricted" /\ exists = (req[q].at = "updateWindow")
         THEN windows' = [windows EXCEPT ![period] = req[q].phase] /\ Writes(q, {period}, Done)
         ELSE Reads(q, Done) /\ UNCHANGED windows
  /\ UNCHANGED registrations

\* The clock reaches the opening or the closing time of a window.
WindowPasses(period) ==
  /\ windows[period] \in {"before", "open"}
  /\ windows' = [windows EXCEPT ![period] = IF @ = "before" THEN "open" ELSE "after"]
  /\ overlapped' = [q \in Requests |->
                      IF InFlight(q) THEN overlapped[q] \cup {period} ELSE overlapped[q]]
  /\ UNCHANGED <<registrations, req, suspect>>

RegistrationStep(q) ==
  \/ CheckRegistration(q)
  \/ InsertRegistration(q)
  \/ ReadRegistration(q)
  \/ WriteRegistration(q)
  \/ RequestChange(q)
  \/ DecideChange(q)
  \/ FindTask(q)
  \/ SetWindow(q)

===============================================================================
