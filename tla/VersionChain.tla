----------------------------- MODULE VersionChain -----------------------------
(***************************************************************************)
(* What a bitemporal table promises about the transaction-time axis of one *)
(* logical record: its versions partition the time line from the record's  *)
(* creation on.  A version is superseded at an instant after the one at    *)
(* which it was recorded; the new version begins at exactly that instant.  *)
(* Nothing else ever happens to a version, so the answer to "what did the  *)
(* system believe at instant t" is always one version.                     *)
(***************************************************************************)
EXTENDS Naturals

CONSTANTS
  Open,       \* recorded_until IS NULL: the transaction-current version
  Instants    \* the values of the clock

VARIABLE versions

\* The transaction-time interval of a version (recorded_at, recorded_until).
Version == [from : Instants, until : Instants \cup {Open}]

Covers(v, t) == v.from <= t /\ (v.until = Open \/ t < v.until)

\* The record exists, recorded at instant 0, and has not been changed.
Init == versions = {[from |-> 0, until |-> Open]}

\* Close the current version at an instant, and begin the next one there.
Supersede(v, at) ==
  /\ v.until = Open
  /\ v.from < at
  /\ versions' = (versions \ {v})
                   \cup { [from |-> v.from, until |-> at],
                          [from |-> at, until |-> Open] }

Next == \E v \in versions, at \in Instants : Supersede(v, at)

Spec == Init /\ [][Next]_versions

-------------------------------------------------------------------------------

\* The intervals of two versions never overlap, and the current one is unique.
Disjoint ==
  \A v, w \in versions :
    v # w => \/ v.until # Open /\ v.until <= w.from
             \/ w.until # Open /\ w.until <= v.from

\* No instant since the creation is without a version.
Gapless == \A t \in Instants : \E v \in versions : Covers(v, t)

===============================================================================
