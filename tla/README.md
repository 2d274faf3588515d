# Revelation SRS: formal models

TLA+ models of the student record system in this repository, TLC configurations
that model-check them, and TLAPS proofs of their most important properties.
All paths below are relative to the repository.

## 1. The system

A TypeScript monorepo: an API of domain services over PostgreSQL
(`apps/api/src/platform`), an integration bus on NATS JetStream, connectors
that consume the bus (`adapters/vle`, `modules/*`), and web applications.
Nothing coordinates the processes but the database and the bus. A service
method is a chain of `await`s: each read and each write runs in a transaction of
its own (`withTenantContext`, READ COMMITTED), so requests interleave at every
`await`, and what a method read may be stale when it writes.

| Component | State | Operations | Interacts with | What is hard | Correct when |
|---|---|---|---|---|---|
| Bitemporal versioning (`packages/db/src/temporal.ts`) | versions with `[recorded_at, recorded_until)` | close-then-insert, as-of queries | every table of the services | concurrent updates; stamps older than commits | history has no gaps or overlaps; settled answers never change |
| Marks, module results, progression decisions (`assessment/`, `progression/`) | current version, lock, content | ingest, update, recalculate, evaluate, amend | each other; boards lock them; corrections amend them | lock checks on stale versions | locked records change only by amendment |
| Exam boards (`governance/board-service.ts`) | board row, sign-offs, quorum, data packs | defer, reopen, quorum, sign-off, pack, ratify | locks records, announces on the bus | checks and lists read before the transaction; publication after it | a ratified board met its preconditions; announcements are true |
| Corrections (`governance/correction-service.ts`) | case versions, amendment ledger | open, advance, amend | rewrites locked records | status changes and amendments overlap | every amendment has an upheld case and a ledger entry |
| VLE connector (`adapters/vle`) | durable consumer, event ledger, maps, the VLE | consume, retry, mirror, reconcile | bus, external VLE | redelivery, crashes, calls inside a transaction that rolls back | each event once; roster agrees; nothing is stuck |
| Enrolment (`enrolment/`) | current status, transition ledger, status of the person | create, transition | awards graduate it; registration reads it | the person's status is derived inside a transaction that does not see others | the ledger is the chain of legal changes; the person's status follows |
| Module registration and windows (`registration/`) | registrations, windows, change requests | register, withdraw, complete, request, decide, open and close | approval workflow, selection | six checks in transactions before the insert, no index behind them | capacity, credits, duplicates and windows hold; changes were approved |
| Module selection (`module-selection/`) | proposals, items, curriculum bindings | create, edit, submit, decide, confirm | registration, workflow | verdicts and statuses written over rows read earlier; registration item by item | confirmed means registered; undecided registers nothing |
| Workflow bridge (`platform-controls/`) | instance, task, decisions | start, assign, decide, complete | registration and selection | three transactions to close an instance | closed instances are decided, with no task left |
| Awards (`progression/award-service.ts`) | awards | confer | enrolment, boards, bus | award and graduation in two transactions | one award; only graduates are announced |
| Adjustments (`adjustments/`) | versions, distributions | record, acknowledge, expire, attach | bus, VLE connector | a version closed by its identifier after it was replaced | expired stays expired |
| VLE connector: adjustments and marks (`adapters/vle/src/consumers/f-sis-vle-02`, `services/`) | adjustment map, receipts | apply, acknowledge, reconcile, submit marks | bus, VLE, HTTP API of the SRS | acknowledgement that causes the event it answers; lost answers | records agree; the echo ends; a mark is stored once |
| Board authority, moderation, Temporal activities, feature flags | rows driven by API or Temporal | publish, escalate, assign | Temporal retries | retried activities, double publication | not modelled |
| Regulatory returns, PGR, privacy, communications, UI, configuration | records and files | projections, status machines | external bodies | mostly data | not modelled |

`PROJECT.json` lists every component with its files and status, and every
hazard at its line.

## 2. Modules

| Module | What it is |
|---|---|
| `VersionChain` | Abstract: the versions of one record partition transaction time. |
| `BitemporalUpdate` | Concurrent transactions: `Begin` (stamp), `Close` (UPDATE), `Wait`, `Resume`, `Commit` (INSERT), `Abort`. Refines `VersionChain`. |
| `BitemporalProofs` | Theorems about `BitemporalUpdate`. |
| `AcademicRecords` | Marks, module results, progression decisions and the requests that write them. |
| `ExamBoards` | Extends it by boards, data packs, ratification and announcements. |
| `Corrections` | Extends it by correction cases, amendments and their ledger. |
| `AssessmentGovernance` | Composes the last three: all requests interleave on the same records. States the properties. |
| `GovernanceProofs` | Theorems about `AssessmentGovernance`: boards and sealed records, then cases, amendments, locks and packs. |
| `VleRoster` | The connector's consumer, ledger, handlers, VLE and roster reconciliation. |
| `RosterProofs` | Theorems about `VleRoster`. |
| `ServiceCalls` | Requests as chains of transactions that overlap and fail; used by all of the following. |
| `Enrolments` | Enrolments, their ledger, the status of the person. |
| `Workflows` | The workflow bridge. |
| `Registrations` | Registrations, windows and change requests, over the two above. |
| `ModuleSelection` | Proposals, items, decisions, confirmation, bindings. |
| `Awards` | Conferral, and the graduation it calls. |
| `StudentJourney` | Composes enrolment, registration, selection, approval and awards. States the properties. |
| `JourneyProofs` | The types of `StudentJourney`, and the lemmas about overlaps that the next three share. |
| `EnrolmentProofs` | Theorems on ledger, person and awards; extends `JourneyProofs`. |
| `RegistrationProofs` | Theorems on final rows, windows, bindings, instances and change requests; extends `JourneyProofs`. |
| `SelectionProofs` | Theorems on proposals, capacity and the limits of an enrolment; extends `RegistrationProofs`. |
| `Adjustments` | Adjustments and their distributions in the SRS. |
| `VleAdjustments` | The connector's handler of distributed events, its loop and its reconciliation of adjustments. |
| `VleMarks` | The submission of marks. |
| `VleExchange` | Composes the last three. States the properties. |
| `ExchangeProofs` | Theorems about `VleExchange`. |
| `MC*` | Instances for TLC. |

**State and code.** `record[x]` is the transaction-current row of a mark, a
result or a decision: its content, `locked`, and for a decision
`exam_board_id`. A read of the row is a read of `record[x]`; the close-and-insert
transaction is one assignment, which is justified by `BitemporalUpdate` (it takes
effect at its commit or not at all). `req[q]` says where request `q` is in its
method and holds what it has read, as the local variables of the method do. For
instance `updateMark` is `UpdateMarkRead` (read, `assertNotLocked`), `Write`
(transaction), then `ReadMarks`, `ReadTarget`, `Write` (the `recalculate` it
awaits). Ratification locks by id (`RatifyWrite`), in one step: at READ COMMITTED its UPDATE may
skip a row that a write replaces meanwhile, and that leaves what a `Write` right after it leaves.
The decisions it covers are those of any set of enrolments in scope (`RatifyDecisions`), as the filter on
the status of enrolment and registration concerns rows that this module does not have.
`RequestFails` is an exception, a refused check or a lost process
between any two steps.

Contents are abstract: a result's content is the marks it was aggregated from,
a decision's the results it was decided on. So two contents differ whenever
their inputs do, and grading rules (late penalties, resit caps, compensation)
need not be modelled.

A `Pack` is a version and whether it is superseded. `boards[b]` has the fields
that ratification checks. `announced` are the published facts. `versions[c]` are
the status versions of a case; `ledger` the amendments.

In `VleRoster`, `stream` is the JetStream stream; `start`, `delivered`, `acked`
the server's durable consumer; `task` the connector's loop, which has one message
at a time; `ledger`, `persons`, `courses`, `map` its tables; `vle` what the VLE
holds. `CallVle` changes `vle` at once and `HandlerFails` does not undo it;
`Commit` writes the tables together. `repair` is a pass of `reconcileRoster`: what
it read, row by row pushed (`RepairPush`), then marked (`RepairWrite`).
`canWrite` says whether the connector was given a VLE client, which a restart
may change; `drifted` is a history variable of `RosterAgrees`. The published events of
the SRS follow the status machines of enrolments and registrations.

**Requests of `StudentJourney` and `VleExchange`.** A service method is a record
`req[q]`: `at` names the next transaction, the other fields are its local
variables. `NewRegistration`, for instance, is the state before the first of six
checks; each check is an action that goes on or ends the request; the last
inserts. A method that calls another passes what follows as `then`:
`#confirmProposal` registers an item with `then` the remaining items,
`conferAward` graduates with `then` the announcement. `Fail` ends a request
before any of its transactions or publications; a request that is lost with its
process is one that fails.

The awaited reads of a method are separate actions, with four exceptions. The reads
of one check over several rows are one action (the relationships of all items in
`ValidateSelection`, the capacities of all items in `ValidateCapacity`, the related
registrations in a check of `NewRegistration`). The board's periods are read in one
action with what they are compared with. A row that nothing in the model changes is
read with the next one that may change. `DecideProposal` finds the task of a proposal with its
instance: the workflow of a proposal is started with its task. A change request may be without one, so there
the task is found in an action of its own (`FindTask`). As `#getChangeRequestInstance` does,
`DecideChange` finds only an instance of the change workflow (`IsChangeRequest`).
`submitProposal` reads the proposal twice before it carries out a verdict and does not use the
first of the two; `CarryOutVerdict` is the second.
A write that closes the row by its current version is one action, because of
`BitemporalUpdate`; where the code closes and inserts in two transactions
(curriculum bindings), there are two, and where the code computes with what its
own open transaction sees (status of the person, expiry of an adjustment),
the transaction has a begin and a commit.

`overlapped[q]` and `suspect` are history variables. `overlapped[q]` is what
others have written since `q` began; an entity becomes suspect when `q` writes it
in spite of that. No action reads them.

**The connector's adjustments.** `dist` is the SRS's record of a distribution,
`row` the connector's map row of it, `vle` what the VLE was given. The loop's
`Deliver`, `Examine`, `Apply`, `Commit` and `Settle` are the consumer and the
handler. `Acknowledge` is the HTTP call; the SRS serves it in the transactions of
`acknowledgeDistribution` under the name of the connector's request. `canApply` and
`canAck` say which clients the connector was given.

External behaviour is modelled from how the code uses it: PostgreSQL row locks
and the re-evaluation of WHERE, advisory locks and unique indexes; JetStream's
explicit acknowledgement, `max_deliver` and redelivery; a VLE that answers 404
to a status change for an enrolment that it does not hold. `redeliveryCount` of
the NATS client counts from 1 at the first delivery (`FirstCount`), and the consumer adds
one to it: the code gives an event up one delivery early, which `VleGivesUp` shows.

## 3. Runs

| Run | Instance | What it shows |
|---|---|---|
| `BitemporalUpdate` | 3 transactions, 6 instants | `OneVersionAsOf`, `ImplementsVersionChain`, `SettledAsOfIsFinal` hold. |
| `BitemporalAsOf` | 2 transactions, 4 instants | Expected violation of `PastAsOfIsFinal`: the same cut-off can give another answer later. |
| `ExamBoards` | 2 requests, 1 board, 2 registrations, 2 marks, 2 packs | Locks have provenance, ratified boards met the preconditions, announcements follow ratification, packs are numbered, sealed records stay sealed. |
| `Corrections` | 2 requests, 1 case, one record of each kind, 1 amendment (types are checked by `ExamBoards` and the theorem) | Case versions follow the transitions, amendments were upheld, sealed records change only by amendment. |
| `LockedRecords` | as `ExamBoards`, no packs | Expected violation of `LockedChangesOnlyByAmendment`: a write checked before ratification lands after it. |
| `VleRoster` | 1 registration, 4 events, 3 attempts, 2 faults | Each event is processed at most once, synced rows are in the VLE, the roster agrees, and every published event settles, under fairness. |
| `VleGivesUp` | 3 events, no fault | Expected violation of `GivenUpAfterMaxAttempts`: an event of three allowed deliveries is given up after two. |
| `VleUnmapped` | 3 events, no fault | Expected violation of `ProcessedRegistrationsAreMapped`: reconciliation cannot repair what has no row. |
| `VleReinstated` | 5 events, no fault | Expected violation of `EnrolledStudentsHaveAccess`: 'enrolled' is not in the status table of the connector. |
| `StudentJourney` | 3 requests, 11 scenarios, 4 enrolments of 2 persons, 3 modules of one period, one place in one of them, 4 registrations, 1 proposal, 2 instances | Which limits of enrolment, registration, selection, approval and awards hold although no constraint backs them, and that only an overlap breaks the others. |
| `PartialSelection` | 1 request, no failure | Expected violation of `NoPartialRegistration`: a validated proposal ends with some of its items registered. |
| `VleExchange` | 1 adjustment owed to 2 systems, 3 users, the loop and the pass, 2 marks, 3 attempts, 2 faults, 7 scenarios | The records of SRS, connector and VLE agree, acknowledgements happen and die out, expiry is final, a mark is submitted once. |

**Why "sealed" and "settled".** The two natural properties are false in this
code, which is what the violation runs show. The passing runs and the theorems
state the strongest form that is true: a locked record is *sealed* once no
request is left that checked its lock too early; an instant is *settled* once no
transaction stamped at or before it is running.

**Why "suspect".** The services of `StudentJourney` check before they write, in other
transactions. So the limits hold only as long as nobody wrote in between, and
the properties say exactly that: they except an offering, an enrolment or a proposal
*by name*, and only once a request has written it over a change that it had not
seen. Everything else must hold whatever overlaps and whatever fails: the ledger's
entries stay legal, one award stays one award (there an index decides, and the
property has no exception), and nothing is registered for a change request without an
approval.

**What the exceptions leave open.** Where two steps overlap and the code repairs nothing,
the wrong outcome is real: the models reach it, and a property of the code can only
except it. So these properties say how far a limit holds, not that the overlap is harmless:
`CapacityKept` and `RegistrationsWithinLimits` (a place filled twice), `PersonStatusFollows`
(two enrolments of one person), `UndecidedRegisterNothing` and `FinalRegistrationsStay` (a status
written over an unseen one), `OneBindingPerEnrolment` (two bindings), `RegisteredInTime` (a window
that closes during the checks), `MarksAreSubmittedOnce` (two submissions), `ExpiryIsFinal` and
`RecordsAgree` (an attachment or acknowledgement during expiry), and `RosterAgrees` (rows that
reconciliation drifted or that were written without a client). `LocksHaveProvenance` says what a
lock means, not that none is missing; `CaseVersionsFollowTransitions` and `AmendmentsWereUpheld`
admit a change that starts from an earlier version of the case. Section 5 and the hazards in
`PROJECT.json` name what remains.

**Bounds.** Three transactions let two wait for one holder; six instants let each
of them be stamped and committed at different times. In governance, every hazard
is one request's step between two steps of another, so two requests reach it; the
second registration is outside the board's scope, and its mark must not be locked.
One mark value is enough in these runs: results and decisions still take
several contents, as they depend on which marks and results exist, and the
theorems do not bound the values. `MemberCounts` holds a legal count and zero.
One amendment fits the ledger; two amendments of one record are part of the
plan. `FlagsFail` is FALSE in the runs, so that the quorum has to be met; the
theorem covers TRUE. In the roster four events take one registration through
module, enrolment, registration and a status change or an end, three attempts
let a failed event be retried, and each fault is a crash, a lost
acknowledgement or a lost consumer at any point; two of them take the VLE client
away and bring it back, which is what gives reconciliation something to repair
(`adapters/vle/test/stage8-acceptance.int.test.ts` does the same). `MaxPackVersion`,
`MaxAmendments`, `MaxEvents` and `MaxFaults` are the bounds in guards.
A scenario of `StudentJourney` is a state of the records and the calls that
requests may make in it: graduation, intermission, registration, change
requests, windows (three), selection (two), allocation from a waiting list, and
the making of a proposal. The rows are those that the services reach from
empty tables. Each scenario pairs the operations of one area with those of its neighbours
that write the same rows; requests start with any combination of them. Three
requests let two overlap with a third one that takes the last place meanwhile.
The product of all calls with all states is out of reach, and calls that share
no row do not meet. The rules hold one co-requisite, one prerequisite and one
exclusion; one group of modules and one credit load make every verdict
reachable. In `VleExchange` some scenarios start with faults spent, so that
three overlapping users are combined with fewer failures; a scenario of one or two users
has up to two failures of the connector. A user's failure costs nothing. `EchoDiesOut` counts the announcements
that each request of the connector caused: the loop's exceed the failures by one at
most, the pass's do not exceed them. A bound on their sum (failures and two) holds for up to
two failures, but not for three: no run has that many, and the attempt to prove it
showed it.
No run has a board and a case together: the product of the two state spaces
exceeds five minutes. The theorems are about the composition, whatever its
boards and cases.
Requests and transactions are interchangeable, and runs use that symmetry; runs
with a liveness property use none. Deadlock is checked, but for the roster: its
stream is finite, and when all of it has settled nothing is left to do. For the
same reason it is not checked in `StudentJourney`, `PartialSelection` and
`VleExchange`, where each request is served once.

**Fairness.** `FairSpec` of `VleRoster` assumes weak fairness of the message loop
and of reconciliation as a whole. The loop awaits the next message and every call
as long as the process runs, and JetStream redelivers what has not been
acknowledged; reconciliation is a scheduled pass that goes on to the next row
after a failure. No fairness is assumed of the SRS, of faults, or of the
success of a call: `HandlerFails` satisfies the loop's fairness just as well as
`Commit`. `FairSpec` of `VleExchange` makes the same assumption of its loop
(`LoopRuns`) and pass (`PassRuns`); since its calls are served by the SRS under the
connector's request, that includes that an accepted HTTP call is answered or
fails. Nothing is assumed of users. At this commit the connector's `main.ts` starts neither the consumer
nor a schedule; the tests do. The liveness result is about a deployment that
does.

## 4. Proofs

Checked by TLAPS, for every value of the constants that satisfies the named
assumptions. Those are of four kinds, and say no more than the code and its schema do:

- *Names*: identifiers of different kinds are disjoint, and `Absent` is none of the
  values that it stands for the absence of (`RecordsAssumption`, the `AbsentAssumption`s,
  `OpenAssumption`, `NoBoardAssumption`).
- *Foreign keys and bounds*: functions such as `EnrolmentOf`, `PersonOf`, `ModuleOf` and
  `AdjustmentOf` have their types, limits are naturals, at least one attempt is made, the
  loop and the pass are different requests (`RosterAssumption`, `ConnectorAssumption`,
  `DistributionAssumption`, `ItemsAssumption`, ...).
- *Finite tables*: `RowsAssumption`, for the counts of places and the sums of credits.
- *Where an instance begins*: `CallsAssumption` says that requests begin at the entry of a
  service; `ScenariosAssumption` and `LimitsAssumption` that the rows of a scenario are
  such as services leave behind: closed instances have a decision, the workflow of a
  proposal exists, no offering is beyond its capacity and no enrolment beyond its limits, no
  proposal is confirmed yet. Empty tables satisfy both.

| Theorem | Statement |
|---|---|
| `BitemporalProofs!TypeCorrect` | `Spec => []TypeOK` |
| `BitemporalProofs!Refinement` | `Spec => ImplementsVersionChain` |
| `BitemporalProofs!OneVersion` | `Spec => []OneVersionAsOf` |
| `BitemporalProofs!SettledIsFinal` | `Spec => SettledAsOfIsFinal` |
| `GovernanceProofs!TypeCorrect` | `Spec => []TypeOK` |
| `GovernanceProofs!RatificationIsAuthorised` | `Spec => []RatifiedBoardsMetPreconditions` |
| `GovernanceProofs!AnnouncementsAreTrue` | `Spec => []AnnouncementsFollowRatification` |
| `GovernanceProofs!SealedIsSealed` | `Spec => SealedChangesOnlyByAmendment` |
| `GovernanceProofs!CasesFollowTransitions` | `Spec => []CaseVersionsFollowTransitions` |
| `GovernanceProofs!AmendmentsAreAuthorised` | `Spec => []AmendmentsWereUpheld` |
| `GovernanceProofs!LocksAreAccountedFor` | `Spec => []LocksHaveProvenance` |
| `GovernanceProofs!PacksAreNumberedOn` | `Spec => []PacksAreNumbered` |
| `JourneyProofs!TypeCorrect` | `Spec => []TypeOK` |
| `EnrolmentProofs!LedgersAreHistories` | `Spec => []LedgerIsHistory` |
| `EnrolmentProofs!PersonsFollowEnrolments` | `Spec => []PersonStatusFollows` |
| `EnrolmentProofs!AwardsAreUnique` | `Spec => []OneAwardPerEnrolment` |
| `EnrolmentProofs!AnnouncementsComeLast` | `Spec => []AnnouncedAwardsGraduated` |
| `RegistrationProofs!FinalRegistrationsAreKept` | `Spec => FinalRegistrationsStay` |
| `RegistrationProofs!RegistrationsAreInTime` | `Spec => RegisteredInTime` |
| `RegistrationProofs!EnrolmentsAreBoundOnce` | `Spec => []OneBindingPerEnrolment` |
| `RegistrationProofs!ClosedInstancesHaveDecisions` | `Spec => []ClosedInstancesAreDecided` |
| `RegistrationProofs!RequestedChangesWereApproved` | `Spec => []ChangesWereApproved` |
| `SelectionProofs!RegisteredProposalsAreAccepted` | `Spec => []UndecidedRegisterNothing` |
| `SelectionProofs!ConfirmedProposalsAreRegistered` | `Spec => []ConfirmedMeansRegistered` |
| `SelectionProofs!OfferingsKeepTheirCapacity` | `Spec => []CapacityKept` |
| `SelectionProofs!RegistrationsAreWithinLimits` | `Spec => []RegistrationsWithinLimits` |
| `RosterProofs!TypeCorrect` | `Spec => []TypeOK` |
| `RosterProofs!EventsAreProcessedOnce` | `Spec => []NoEventProcessedTwice` |
| `RosterProofs!SyncedRowsStandForAccess` | `Spec => []SyncedRowsAreInVle` |
| `RosterProofs!RostersAgree` | `Spec => []RosterAgrees` |
| `ExchangeProofs!TypeCorrect` | `Spec => []TypeOK` |
| `ExchangeProofs!RecordsOfTheSystemsAgree` | `Spec => []RecordsAgree` |
| `ExchangeProofs!TheEchoDiesOut` | `Spec => []EchoDiesOut` |
| `ExchangeProofs!ExpiryStaysFinal` | `Spec => ExpiryIsFinal` |
| `ExchangeProofs!EachMarkIsSubmittedOnce` | `Spec => []MarksAreSubmittedOnce` |

*BitemporalProofs.* The inductive invariant says that the versions' intervals are
not empty, disjoint and without gaps, that the version a transaction has
closed is the current one, and that two transactions never hold the same.
Disjointness alone is not inductive: a commit replaces the version that the
transaction locked, and it must still be the current one. The lock provides that. The refinement follows step by step: `Commit` is `Supersede`, and
every other action stutters.

*GovernanceProofs.* `BoardInv` is type correctness together with what a
request between two steps of ratification carries: past the checks, its board
meets the preconditions (nothing withdraws a sign-off or a quorum); the results
it carries are in the board's scope; and once it announces, its board is
ratified. The postconditions alone are not inductive, as the transaction relies
on checks that other requests ran in between. `TypeOK` includes that the content
a request is about to write fits the kind of its target. The sealing property
needs only type correctness and a case analysis of the actions: a write of a
locked, sealed record must be a first version, which the unique index refuses; an
amendment, which appends to the ledger; or a ratification, which leaves the
content alone. A request cannot come to hold a stale unlocked version of a
locked record, since `assertNotLocked` refuses what it reads.
Four more invariants are of the same shape, *what is on record and what requests are
about to put there*. `CaseInv`: the change a request has in hand is allowed from some
version on record (not the current one, when changes overlap). `AmendInv`: a
request about to amend has a case that was upheld, and so was under review.
`LocksInv`: the rows that requests have read have provenance too, as a write copies the lock
of what it read. `PacksInv`: the packs of a board are numbered consecutively, and between
the advisory lock and the commit there is one request.

*JourneyProofs.* `TypeInv` adds to `TypeOK` the types of a request's local variables in each
of its control states. The lemmas after it say what an overlap is: whatever is written by
a request is recorded as overlapped in every other request under way (`Bystander`),
and a write of what was overlapped is suspect. So each of the invariants below holds
*what a request has checked still holds, or it has been overlapped there*; the step of another
request keeps it because it records what it changes, the request's own step because it
checks or reads anew.

*EnrolmentProofs.* `EnrolmentInv`: a change in hand is legal by itself and starts from the
current status, or the enrolment is overlapped; inside the transaction the derived status is the
person's, or the person is overlapped; the row lock lets one transaction per
enrolment be open. `AwardInv`: the index leaves one award, and a request that graduates
an enrolment for an award has the award on record.

*RegistrationProofs.* `RegistrationInv`: the checks passed so far. `BindingInv`: a closed
binding leaves none, unless overlapped. `WorkflowInv` and `ApprovalInv`: what
`decideChangeRequest` applies belongs to an instance that it has closed after recording its
approval. The approval carries no exception for overlaps, so the invariant has none.

*SelectionProofs.* `SelectionInv` has what a method hands to the one it calls (`Chained`), and
that requests which confirm a proposal have accepted it, one at a time. `FilledInv`: during a confirmation
every selected offering is registered or among those due. `CapacityInv`: what a request has
found room for still has room, or the offering is overlapped (`Free`). A selected
offering that the enrolment already has is refused as a duplicate before its capacity is
looked at, which is why its room need not be kept (`FreeOrRefused`). The
counts are by `Ordinary` rows, those that had to find a place. `LimitsInv`: past the
third check the offering is no duplicate, before the insert its credits fit, or the
registrations of the enrolment are overlapped. The credits are a sum folded over a set
of rows; `SumsExist` and `FoldIsSum` show what the fold computes without induction, by a
smallest set for which it would fail (`WFMin`), and `CreditsCompared` what one row more or
less does to it.

*RosterProofs.* `RosterInv`: the event in hand is unprocessed and its
targets are those it had at delivery, since there is one loop; what it has sent to the VLE is there,
unless reconciliation drifted the row; a mapped row agrees with the VLE or an unprocessed event
touches it. That the access of a registration comes from the *latest* event which
touches it is a minimum over sequence numbers (`WFMin`), the nearest thing to induction
that the provers do.

*ExchangeProofs.* `SrsInv`: what a request has read of an adjustment or a distribution still
holds, unless overlapped. `ConnectorInv`: what the VLE was given is distributed, and the loop
and the pass hold rows of that kind. `EchoInv`: each announcement that a request of the
connector may yet cause is either accounted for by a failure or still unspent
(`LoopSpent`, `PassSpent`); the counts of the property alone do not say that. `MarkInv`:
a submission that nothing overlapped knows how many marks there are, and every
submission without its receipt is still under way.

TLC checks each of these inductive invariants, too, on the instances of section 3: a
module that extends the instance and the proofs, with the invariant in its configuration.

**Only model-checked.** `EveryEventSettles` and `AnnouncedIsAcknowledged`: liveness under
fairness, and ENABLED, are out of the prover's reach. So is induction over data: the
library's induction theorems take an operator. Where a proof needs it (the latest event, sums) it
takes a smallest counterexample instead, in a lemma about the sets of the model.

## 5. What the models show beyond the properties

Behaviour that the models reach and that a maintainer should know of. What contradicts a
document, other than the findings of the violation runs:

- The SRS does not compare the source reference of a mark, although
  `docs/integrations/examples/vle-integration.md:208` says that re-submitting with the same one
  "returns the original mark without creating a duplicate", and line 303 that the SRS
  deduplicates: two submissions at once, or one that fails after its mark was stored and is
  made again, store the mark twice. `MarksAreSubmittedOnce` excepts exactly these cases.
- Without a VLE client the connector records an adjustment 'applied' or 'acknowledged' all
  the same (`blind`) and acknowledges it to the SRS, and nothing repairs that; line 174 of the
  same document says "Do not acknowledge before the VLE has accepted the adjustment".
  `RecordsAgree` excepts these rows.

What no document forbids:

- An award is committed before the enrolment graduates. When the graduation is
  refused or fails, the award stands, the enrolment is not graduated, and a
  retry is refused because the award exists.
- The status of a person stays wrong after two enrolments of that person changed
  at once, until the next change.
- A change request that is closed and whose application fails cannot be decided
  again. An instance whose task was not assigned is invisible in every queue.
- A proposal that fails between 'submitted' and its verdict stays 'submitted', and
  can be approved without having been validated.
- A curriculum binding is closed and inserted in two transactions: a failure
  between them loses it, an overlap doubles it.
- Withdrawing a module leaves a registration that requires it as a co-requisite.
- The SRS publishes a distributed event only when a distribution is acknowledged,
  and the connector acts on nothing else: somebody other than the connector has to
  acknowledge first.
- Each acknowledgement publishes the event again. The comment in the handler that
  the SRS treats a duplicate acknowledgement as a no-op is not what
  `acknowledgeDistribution` does; what ends the exchange is the connector's own map row.
- An acknowledgement that overlaps with expiry turns a superseded distribution
  into a distributed one; an attachment that overlaps with it brings the adjustment back,
  or leaves an expiry without effect. An adjustment that has expired stays in the VLE.
- The connector takes a 404 to its acknowledgement for success.
- A result or a decision that is created between the reads of a ratification and its
  transaction stays unlocked, with the marks of that result.

## 6. Not modelled, and why

- Valid time: the services write it with transaction time, and no lock or check
  depends on it.
- Tenant-specific value sets can refuse a status that the default matrix of a
  case allows; the models use the default.
- The profiles in a data pack: their reads are as-of queries, the subject of
  `BitemporalUpdate`.
- The loss of an event between commit and publication. The roster model starts
  from the stream; only in `VleAdjustments` can the bus be down.
- In `StudentJourney`: events other than the announcement of an award, as nothing
  in the model consumes them (a publication that throws is a request that fails); fee
  liabilities and downstream triggers, rows written with a change of status; the
  validation state of items; the classification of an award and its HEAR
  document; how a board is ratified (`RatifiedPeriods`; see `ExamBoards`). Rules on credits
  per level are part of the credit load. Configured transitions take their
  defaults.
- In `VleExchange`: valid times and contents of adjustments; the approved and
  expired events, which no connector here consumes; `setRatifiedResult` and
  `handleModuleResultRatified`, which keep no state of the connector;
  `reconcileMarks`, which reads receipts without a mark that no code writes;
  support outcomes. A connector that crashes starts again after the SRS has
  finished with its last call.
- 'failed' rows of the event ledger: nothing reads them. Cross-tenant events:
  dropped before any state.
- Everything with status `not_modelled` in `PROJECT.json`, with its reason there.

## 7. Plan

Done: bitemporal versioning and its refinement; records, boards, corrections and
their composition; the roster flow of the VLE connector; enrolment, registration,
selection, approval and awards, composed; adjustments and marks between the SRS and
the connector; a theorem for each safety property that holds.

1. `BoardAuthority` and moderation: result publication, mark sets in nested transactions.
2. Escalation and the Temporal activities of the workflow runtime.
3. Two amendments of one record: the chain of before-values in the ledger.
4. The context projections of the wellbeing and attendance modules: redelivery without
   a limit, and events that are passed over while the enrolment is unknown.
