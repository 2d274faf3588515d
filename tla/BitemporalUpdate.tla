--------------------------- MODULE BitemporalUpdate ---------------------------
(***************************************************************************)
(* The close-then-insert update of one logical record of a bitemporal      *)
(* table, by concurrent PostgreSQL transactions at READ COMMITTED.         *)
(*                                                                         *)
(*   UPDATE t SET recorded_until = NOW() WHERE id = .. AND recorded_until  *)
(*     IS NULL;                                                            *)
(*   INSERT INTO t (.., recorded_at, recorded_until) VALUES (.., NULL);    *)
(*                                                                         *)
(* bitemporalUpdate (packages/db/src/temporal.ts) stamps with NOW(), which *)
(* PostgreSQL fixes when the transaction starts; the services of           *)
(* apps/api/src/platform write the same two statements with clockNow(),    *)
(* read before the transaction starts.  Either way the stamp of a          *)
(* transaction is older than its commit, and that is what is modelled.     *)
(*                                                                         *)
(* The UPDATE locks the row it closes until the transaction ends.  Another *)
(* UPDATE of the row waits, and reevaluates its WHERE on the row it waited *)
(* for: a row that has been closed no longer matches, and the row that     *)
(* replaced it is not in the statement's snapshot.                         *)
(***************************************************************************)
EXTENDS Naturals

CONSTANTS
  Transactions,   \* concurrent updaters; each may update many times
  Open,           \* recorded_until IS NULL
  Instants        \* the values of the clock: Nat, or 0..n for model checking

ASSUME OpenAssumption == Open \notin Nat
ASSUME InstantsAssumption == Instants \subseteq Nat /\ {0, 1} \subseteq Instants

VARIABLES
  clock,   \* the database clock
  rows,    \* the committed versions of the record
  tx       \* what each transaction is doing

vars == <<clock, rows, tx>>

Row == [from : Instants, until : Instants \cup {Open}]

\* phase: idle; begun (stamped, UPDATE not yet run); waiting for the lock on
\* target; or closed (target locked and closed, the commit outstanding).
TxState == [phase : {"idle", "begun", "waiting", "closed"}, stamp : Instants, target : Instants]

Idle == [phase |-> "idle", stamp |-> 0, target |-> 0]

TypeOK ==
  /\ clock \in Instants
  /\ rows \subseteq Row
  /\ tx \in [Transactions -> TxState]

Init ==
  /\ clock = 1
  /\ rows = {[from |-> 0, until |-> Open]}
  /\ tx = [t \in Transactions |-> Idle]

-------------------------------------------------------------------------------

\* Rows the statement's WHERE matches: recorded_until IS NULL.
Current(v) == v \in rows /\ v.until = Open

\* A mutant for RecordedCheck: a CHECK that allows an empty interval.
RecordedCheckNotStrict(v, stamp) == v.from <= stamp

\* CHECK (recorded_until IS NULL OR recorded_until > recorded_at)
RecordedCheck(v, stamp) == v.from < stamp

\* Some transaction has closed the row recorded at instant `from`, and holds it.
Locked(from) == \E u \in Transactions : tx[u].phase = "closed" /\ tx[u].target = from

\* Mutants for Successors: the new version is stamped with the commit time, not
\* with the recorded_until that the UPDATE returned; or an instant after it.
SuccessorsRestamped(v, stamp) ==
  { [from |-> v.from, until |-> stamp], [from |-> clock, until |-> Open] }

SuccessorsAfter(v, stamp) ==
  { [from |-> v.from, until |-> stamp], [from |-> stamp + 1, until |-> Open] }

\* The two rows that take the place of v when the transaction commits.
Successors(v, stamp) ==
  { [from |-> v.from, until |-> stamp], [from |-> stamp, until |-> Open] }

-------------------------------------------------------------------------------

Tick ==
  /\ clock + 1 \in Instants
  /\ clock' = clock + 1
  /\ UNCHANGED <<rows, tx>>

\* A mutant for Begin: the stamp comes from a clock that lags behind.
BeginLagging(t) ==
  /\ tx[t].phase = "idle"
  /\ tx' = [tx EXCEPT ![t] = [phase |-> "begun", stamp |-> clock - 1, target |-> 0]]
  /\ UNCHANGED <<clock, rows>>

\* BEGIN: NOW() is fixed here for the whole transaction.
Begin(t) ==
  /\ tx[t].phase = "idle"
  /\ tx' = [tx EXCEPT ![t] = [phase |-> "begun", stamp |-> clock, target |-> 0]]
  /\ UNCHANGED <<clock, rows>>

\* UPDATE .. RETURNING *: the current version is free; close it and lock it.
Close(t) ==
  /\ tx[t].phase = "begun"
  /\ \E v \in rows :
       /\ Current(v)
       /\ ~Locked(v.from)
       /\ RecordedCheck(v, tx[t].stamp)
       /\ tx' = [tx EXCEPT ![t].phase = "closed", ![t].target = v.from]
  /\ UNCHANGED <<clock, rows>>

\* UPDATE: another transaction holds the current version; wait for it.
Wait(t) ==
  /\ tx[t].phase = "begun"
  /\ \E v \in rows :
       /\ Current(v)
       /\ Locked(v.from)
       /\ tx' = [tx EXCEPT ![t].phase = "waiting", ![t].target = v.from]
  /\ UNCHANGED <<clock, rows>>

\* The holder rolled back: the row still matches, and is closed now.
Resume(t) ==
  /\ tx[t].phase = "waiting"
  /\ ~Locked(tx[t].target)
  /\ \E v \in rows :
       /\ Current(v)
       /\ v.from = tx[t].target
       /\ RecordedCheck(v, tx[t].stamp)
  /\ tx' = [tx EXCEPT ![t].phase = "closed"]
  /\ UNCHANGED <<clock, rows>>

\* INSERT of the new version, and COMMIT.
Commit(t) ==
  /\ tx[t].phase = "closed"
  /\ \E v \in rows :
       /\ Current(v)
       /\ v.from = tx[t].target
       /\ rows' = (rows \ {v}) \cup Successors(v, tx[t].stamp)
  /\ tx' = [tx EXCEPT ![t] = Idle]
  /\ UNCHANGED clock

\* The transaction ends without effect: the UPDATE matched no row and the
\* function threw ("no transaction-current version found"), the CHECK failed,
\* or the connection or the process was lost.
Abort(t) ==
  /\ tx[t].phase # "idle"
  /\ tx' = [tx EXCEPT ![t] = Idle]
  /\ UNCHANGED <<clock, rows>>

Next ==
  \/ Tick
  \/ \E t \in Transactions :
       Begin(t) \/ Close(t) \/ Wait(t) \/ Resume(t) \/ Commit(t) \/ Abort(t)

Spec == Init /\ [][Next]_vars

-------------------------------------------------------------------------------
(***************************************************************************)
(* Properties                                                              *)
(***************************************************************************)

\* pointInTimeWhere on the transaction-time axis: the versions that a query
\* "as of instant t" returns, named by their recorded_at.
AsOf(t) == { v.from : v \in { r \in rows : /\ r.from <= t
                                           /\ r.until = Open \/ t < r.until } }

\* The concurrent transactions implement the abstract version chain: a commit
\* supersedes the version that is current at the commit, and no other step shows.
Chain == INSTANCE VersionChain WITH versions <- rows
ImplementsVersionChain == Chain!Spec

\* A point-in-time query returns exactly one version, whatever the interleaving
\* of the updates (packages/db/src/temporal.ts, pointInTimeWhere).
OneVersionAsOf == \A t \in Instants : \E f \in Instants : AsOf(t) = {f}

\* Instant t is past, and every transaction stamped at or before it has ended.
Settled(t) ==
  /\ t < clock
  /\ \A u \in Transactions : tx[u].phase # "idle" => t < tx[u].stamp

\* The answer of an as-of query can be relied on once the instant is settled: no
\* later step changes it, and no later step unsettles the instant.
SettledAsOfIsFinal ==
  [][\A t \in Instants : Settled(t) => Settled(t)' /\ AsOf(t)' = AsOf(t)]_vars

\* The answer of an as-of query never changes once the instant is past.  The
\* candidate profiles of a board pack are read as of the pack's cut-off, taken
\* from the clock a moment before; docs/requirements/
\* business-process-p0-functional-requirements.md:58 wants that snapshot to be
\* reproducible.
PastAsOfIsFinal ==
  [][\A t \in Instants : t < clock => AsOf(t)' = AsOf(t)]_vars

===============================================================================
