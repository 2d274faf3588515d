--------------------------- MODULE BitemporalProofs ---------------------------
(***************************************************************************)
(* Proofs about BitemporalUpdate for any set of transactions and any clock.*)
(*                                                                         *)
(* The inductive invariant says who may hold the current version: at most  *)
(* one transaction has it closed, it is the current version that it has    *)
(* closed, and its stamp is after the version was recorded.  With that, a  *)
(* commit supersedes the current version as VersionChain does, and the     *)
(* intervals of the rows stay disjoint and without gaps.                   *)
(***************************************************************************)
EXTENDS BitemporalUpdate, TLAPS

\* A transaction that has closed a row holds the current version, and its stamp
\* passed the CHECK.
HoldersHoldCurrent ==
  \A t \in Transactions :
    tx[t].phase = "closed" =>
      \E v \in rows : Current(v) /\ v.from = tx[t].target /\ v.from < tx[t].stamp

\* The row lock is exclusive.
LockExclusive ==
  \A t, u \in Transactions :
    tx[t].phase = "closed" /\ tx[u].phase = "closed" /\ tx[t].target = tx[u].target
      => t = u

\* A closed version is not empty: the table's CHECK.
IntervalsNotEmpty == \A v \in rows : v.until # Open => v.from < v.until

IInv ==
  /\ TypeOK
  /\ HoldersHoldCurrent
  /\ LockExclusive
  /\ IntervalsNotEmpty
  /\ Chain!Disjoint
  /\ Chain!Gapless

-------------------------------------------------------------------------------

\* The instants of a version are numbers.
LEMMA RowInstants ==
  ASSUME TypeOK, NEW v \in rows
  PROVE  /\ v.from \in Instants /\ v.from \in Nat
         /\ v.until # Open => v.until \in Nat
  BY OpenAssumption, InstantsAssumption DEF TypeOK, Row

\* Two current versions are the same version, and versions recorded at the same
\* instant are the same version.
LEMMA VersionsDistinct ==
  ASSUME IInv, NEW v \in rows, NEW w \in rows
  PROVE  /\ Current(v) /\ Current(w) => v = w
         /\ v.from = w.from => v = w
<1> USE OpenAssumption, InstantsAssumption
<1>1. Current(v) /\ Current(w) => v = w
  BY DEF IInv, Chain!Disjoint, Current
<1>2. v.from = w.from => v = w
  <2>1. v.from \in Nat /\ w.from \in Nat
    BY RowInstants DEF IInv
  <2>2. v.until # Open => v.until \in Nat /\ v.from < v.until
    BY RowInstants DEF IInv, IntervalsNotEmpty
  <2>3. w.until # Open => w.until \in Nat /\ w.from < w.until
    BY RowInstants DEF IInv, IntervalsNotEmpty
  <2> QED
    BY <2>1, <2>2, <2>3 DEF IInv, Chain!Disjoint
<1> QED
  BY <1>1, <1>2

\* A version is in the answer of an as-of query when its interval covers the instant.
LEMMA AsOfMember ==
  ASSUME NEW i, NEW f
  PROVE  f \in AsOf(i) <=> \E v \in rows : Chain!Covers(v, i) /\ v.from = f
  BY DEF AsOf, Chain!Covers

LEMMA InitIInv == Init => IInv
<1> SUFFICES ASSUME Init PROVE IInv
  OBVIOUS
<1> USE OpenAssumption, InstantsAssumption DEF Init
<1>1. TypeOK
  BY DEF TypeOK, Row, TxState, Idle
<1>2. HoldersHoldCurrent /\ LockExclusive
  BY DEF HoldersHoldCurrent, LockExclusive, Idle
<1>3. IntervalsNotEmpty /\ Chain!Disjoint
  BY DEF IntervalsNotEmpty, Chain!Disjoint
<1>4. Chain!Gapless
  <2> SUFFICES ASSUME NEW i \in Instants PROVE \E v \in rows : Chain!Covers(v, i)
    BY DEF Chain!Gapless
  <2>1. i \in Nat
    OBVIOUS
  <2> QED
    BY <2>1 DEF Chain!Covers
<1> QED
  BY <1>1, <1>2, <1>3, <1>4 DEF IInv

\* The steps that leave the rows alone: the clock, the start of a transaction,
\* waiting, and a transaction that ends without effect.
LEMMA QuietStepIInv ==
  ASSUME IInv, UNCHANGED rows, TypeOK',
         \A t \in Transactions :
           tx'[t].phase = "closed" => tx'[t] = tx[t]
  PROVE  IInv'
<1>1. HoldersHoldCurrent'
  BY DEF IInv, HoldersHoldCurrent, Current
<1>2. LockExclusive'
  BY DEF IInv, LockExclusive
<1>3. IntervalsNotEmpty' /\ Chain!Disjoint' /\ Chain!Gapless'
  BY DEF IInv, IntervalsNotEmpty, Chain!Disjoint, Chain!Gapless, Chain!Covers
<1> QED
  BY <1>1, <1>2, <1>3 DEF IInv

\* Taking the row lock, at once or after waiting for it.
LEMMA LockStepIInv ==
  ASSUME IInv, NEW t \in Transactions, NEW v \in rows,
         Current(v), ~Locked(v.from), RecordedCheck(v, tx[t].stamp),
         tx' = [tx EXCEPT ![t].phase = "closed", ![t].target = v.from],
         UNCHANGED <<clock, rows>>
  PROVE  IInv'
<1> USE OpenAssumption, InstantsAssumption
<1>1. TypeOK'
  BY DEF IInv, TypeOK, Row, TxState
<1>2. HoldersHoldCurrent'
  BY DEF IInv, TypeOK, TxState, HoldersHoldCurrent, Current, RecordedCheck
<1>3. LockExclusive'
  BY DEF IInv, TypeOK, TxState, LockExclusive, Locked
<1>4. IntervalsNotEmpty' /\ Chain!Disjoint' /\ Chain!Gapless'
  BY DEF IInv, IntervalsNotEmpty, Chain!Disjoint, Chain!Gapless, Chain!Covers
<1> QED
  BY <1>1, <1>2, <1>3, <1>4 DEF IInv

\* A commit supersedes the current version in the sense of VersionChain.
LEMMA CommitSupersedes ==
  ASSUME IInv, NEW t \in Transactions, Commit(t)
  PROVE  \E v \in rows : /\ v.from = tx[t].target
                         /\ tx[t].stamp \in Instants
                         /\ Chain!Supersede(v, tx[t].stamp)
<1>1. PICK v \in rows : /\ Current(v) /\ v.from = tx[t].target
                        /\ rows' = (rows \ {v}) \cup Successors(v, tx[t].stamp)
  BY DEF Commit
<1>2. PICK w \in rows : Current(w) /\ w.from = tx[t].target /\ w.from < tx[t].stamp
  BY DEF Commit, IInv, HoldersHoldCurrent
<1>3. v = w
  BY <1>1, <1>2, VersionsDistinct
<1>4. tx[t].stamp \in Instants
  BY DEF IInv, TypeOK, TxState
<1> QED
  BY <1>1, <1>2, <1>3, <1>4 DEF Chain!Supersede, Successors, Current

LEMMA CommitIInv ==
  ASSUME IInv, NEW t \in Transactions, Commit(t)
  PROVE  IInv'
<1> USE OpenAssumption, InstantsAssumption
<1>1. PICK v \in rows : /\ v.from = tx[t].target
                        /\ tx[t].stamp \in Instants
                        /\ Chain!Supersede(v, tx[t].stamp)
  BY CommitSupersedes
<1> DEFINE at  == tx[t].stamp
           old == [from |-> v.from, until |-> at]
           new == [from |-> at, until |-> Open]
<1>2. /\ v.until = Open /\ v.from < at
      /\ rows' = (rows \ {v}) \cup {old, new}
  BY <1>1 DEF Chain!Supersede
<1>3. v \in Row /\ at \in Nat /\ v.from \in Nat /\ at # Open
  BY <1>1 DEF IInv, TypeOK, Row
<1>4. \A w \in rows \ {v} : w.until # Open /\ w.until <= v.from /\ w.from < w.until
  BY <1>2, <1>3 DEF IInv, Chain!Disjoint, IntervalsNotEmpty
<1>5. TypeOK'
  BY <1>1, <1>2, <1>3 DEF IInv, TypeOK, Row, TxState, Idle, Commit
<1>6. \A u \in Transactions : tx'[u].phase # "closed"
  <2> SUFFICES ASSUME NEW u \in Transactions, tx'[u].phase = "closed" PROVE FALSE
    OBVIOUS
  <2>1. u # t /\ tx[u].phase = "closed"
    BY DEF Commit, IInv, TypeOK, TxState, Idle
  <2>2. PICK w \in rows : Current(w) /\ w.from = tx[u].target
    BY <2>1 DEF IInv, HoldersHoldCurrent
  <2>3. w = v
    BY <2>2, <1>2, VersionsDistinct DEF Current
  <2> QED
    BY <2>1, <2>2, <2>3, <1>1 DEF Commit, IInv, LockExclusive
<1>7. HoldersHoldCurrent' /\ LockExclusive'
  BY <1>6 DEF HoldersHoldCurrent, LockExclusive
<1>8. IntervalsNotEmpty'
  BY <1>2, <1>3, <1>4 DEF IntervalsNotEmpty
<1>9. Chain!Disjoint'
  <2> SUFFICES ASSUME NEW a \in rows', NEW b \in rows', a # b
               PROVE  \/ a.until # Open /\ a.until <= b.from
                      \/ b.until # Open /\ b.until <= a.from
    BY DEF Chain!Disjoint
  <2>2. CASE a \in rows \ {v} /\ b \in rows \ {v}
    BY <2>2 DEF IInv, Chain!Disjoint
  <2>3. ASSUME NEW c \in rows \ {v}, NEW d \in {old, new}
        PROVE  c.until # Open /\ c.until <= d.from
    <3>1. c.until # Open /\ c.until <= v.from /\ c.until \in Nat
      BY <1>4, RowInstants DEF IInv
    <3>2. d.from = v.from \/ d.from = at
      OBVIOUS
    <3> QED
      BY <3>1, <3>2, <1>2, <1>3
  <2>5. CASE a \in {old, new} /\ b \in {old, new}
    BY <2>5, <1>2, <1>3
  <2> QED
    BY <1>2, <2>2, <2>3, <2>5
<1>10. Chain!Gapless'
  <2> SUFFICES ASSUME NEW i \in Instants PROVE \E w \in rows' : Chain!Covers(w, i)
    BY DEF Chain!Gapless
  <2>1. PICK w \in rows : Chain!Covers(w, i)
    BY DEF IInv, Chain!Gapless
  <2>2. CASE w # v
    BY <2>1, <2>2, <1>2
  <2>3. CASE w = v /\ i < at
    <3>1. Chain!Covers(old, i)
      BY <2>1, <2>3 DEF Chain!Covers
    <3> QED
      BY <3>1, <1>2
  <2>4. CASE w = v /\ ~(i < at)
    <3>1. i \in Nat
      OBVIOUS
    <3>2. Chain!Covers(new, i)
      BY <3>1, <2>4, <1>3 DEF Chain!Covers
    <3> QED
      BY <3>2, <1>2
  <2> QED
    BY <2>2, <2>3, <2>4
<1> QED
  BY <1>5, <1>7, <1>8, <1>9, <1>10 DEF IInv

LEMMA NextIInv == IInv /\ [Next]_vars => IInv'
<1> SUFFICES ASSUME IInv, [Next]_vars PROVE IInv'
  OBVIOUS
<1> USE OpenAssumption, InstantsAssumption
<1>1. CASE Tick
  BY <1>1, QuietStepIInv DEF Tick, IInv, TypeOK
<1>2. ASSUME NEW t \in Transactions, Begin(t) PROVE IInv'
  <2>1. TypeOK'
    BY <1>2 DEF Begin, IInv, TypeOK, Row, TxState
  <2> QED
    BY <1>2, <2>1, QuietStepIInv DEF Begin, IInv, TypeOK, TxState
<1>3. ASSUME NEW t \in Transactions, Close(t) PROVE IInv'
  BY <1>3, LockStepIInv DEF Close
<1>4. ASSUME NEW t \in Transactions, Wait(t) PROVE IInv'
  <2>1. TypeOK'
    <3>1. PICK v \in rows : tx' = [tx EXCEPT ![t].phase = "waiting", ![t].target = v.from]
      BY <1>4 DEF Wait
    <3>2. v.from \in Instants
      BY RowInstants DEF IInv
    <3> QED
      BY <1>4, <3>1, <3>2 DEF Wait, IInv, TypeOK, TxState
  <2> QED
    BY <1>4, <2>1, QuietStepIInv DEF Wait, IInv, TypeOK, TxState
<1>5. ASSUME NEW t \in Transactions, Resume(t) PROVE IInv'
  <2>1. PICK v \in rows : /\ Current(v) /\ v.from = tx[t].target
                          /\ RecordedCheck(v, tx[t].stamp)
    BY <1>5 DEF Resume
  <2>2. tx' = [tx EXCEPT ![t].phase = "closed", ![t].target = v.from]
    BY <1>5, <2>1 DEF Resume, IInv, TypeOK, TxState
  <2> QED
    BY <1>5, <2>1, <2>2, LockStepIInv DEF Resume
<1>6. ASSUME NEW t \in Transactions, Commit(t) PROVE IInv'
  BY <1>6, CommitIInv
<1>7. ASSUME NEW t \in Transactions, Abort(t) PROVE IInv'
  <2>1. TypeOK'
    BY <1>7 DEF Abort, IInv, TypeOK, Row, TxState, Idle
  <2> QED
    BY <1>7, <2>1, QuietStepIInv DEF Abort, IInv, TypeOK, TxState, Idle
<1>8. CASE UNCHANGED vars
  BY <1>8, QuietStepIInv DEF vars, IInv, TypeOK
<1> QED
  BY <1>1, <1>2, <1>3, <1>4, <1>5, <1>6, <1>7, <1>8 DEF Next

LEMMA SpecIInv == Spec => []IInv
  BY InitIInv, NextIInv, PTL DEF Spec

-------------------------------------------------------------------------------

\* Every variable keeps its type (the clock, the rows and the transactions).
THEOREM TypeCorrect == Spec => []TypeOK
<1>1. IInv => TypeOK
  BY DEF IInv
<1> QED
  BY <1>1, SpecIInv, PTL

\* bitemporalUpdate and the close-and-insert of the services: whatever the
\* interleaving of their transactions, the rows of a record evolve as a version
\* chain does.
THEOREM Refinement == Spec => ImplementsVersionChain
<1>1. Init => Chain!Init
  BY DEF Init, Chain!Init
<1>2. IInv /\ [Next]_vars => [Chain!Next]_rows
  <2> SUFFICES ASSUME IInv, [Next]_vars PROVE [Chain!Next]_rows
    OBVIOUS
  <2>1. ASSUME NEW t \in Transactions, Commit(t) PROVE Chain!Next
    BY <2>1, CommitSupersedes DEF Chain!Next
  <2> QED
    BY <2>1 DEF Next, vars, Tick, Begin, Close, Wait, Resume, Abort
<1> QED
  BY <1>1, <1>2, SpecIInv, PTL DEF Spec, ImplementsVersionChain, Chain!Spec

\* pointInTimeWhere: a query as of any instant returns exactly one version.
THEOREM OneVersion == Spec => []OneVersionAsOf
<1>1. IInv => OneVersionAsOf
  <2> SUFFICES ASSUME IInv, NEW t \in Instants
               PROVE  \E f \in Instants : AsOf(t) = {f}
    BY DEF OneVersionAsOf
  <2> USE OpenAssumption, InstantsAssumption
  <2>1. PICK v \in rows : Chain!Covers(v, t)
    BY DEF IInv, Chain!Gapless
  <2>2. ASSUME NEW w \in rows, Chain!Covers(w, t) PROVE w = v
    <3>1. t \in Nat /\ v.from \in Nat /\ w.from \in Nat
      BY RowInstants DEF IInv
    <3>2. /\ v.until # Open => v.until \in Nat
          /\ w.until # Open => w.until \in Nat
      BY RowInstants DEF IInv
    <3> QED
      BY <2>1, <2>2, <3>1, <3>2 DEF IInv, Chain!Disjoint, Chain!Covers
  <2>3. AsOf(t) = {v.from}
    BY <2>1, <2>2 DEF AsOf, Chain!Covers
  <2> QED
    BY <2>3 DEF IInv, TypeOK, Row
<1> QED
  BY <1>1, SpecIInv, PTL

\* The answer of an as-of query is final once every transaction stamped at or
\* before its instant has ended.
THEOREM SettledIsFinal == Spec => SettledAsOfIsFinal
<1> DEFINE Final == \A t \in Instants : Settled(t) => Settled(t)' /\ AsOf(t)' = AsOf(t)
<1>1. IInv /\ [Next]_vars => [Final]_vars
  <2> SUFFICES ASSUME IInv, Next, NEW i \in Instants, Settled(i)
               PROVE  Settled(i)' /\ AsOf(i)' = AsOf(i)
    OBVIOUS
  <2> USE OpenAssumption, InstantsAssumption
  <2>1. CASE Tick
    BY <2>1 DEF Tick, Settled, AsOf, IInv, TypeOK
  <2>2. ASSUME NEW t \in Transactions, Begin(t) PROVE Settled(i)' /\ AsOf(i)' = AsOf(i)
    BY <2>2 DEF Begin, Settled, AsOf, IInv, TypeOK
  <2>3. ASSUME NEW t \in Transactions, Close(t) \/ Wait(t) \/ Resume(t) \/ Abort(t)
        PROVE  Settled(i)' /\ AsOf(i)' = AsOf(i)
    BY <2>3 DEF Close, Wait, Resume, Abort, Settled, AsOf, IInv, TypeOK, TxState, Idle
  <2>4. ASSUME NEW t \in Transactions, Commit(t) PROVE Settled(i)' /\ AsOf(i)' = AsOf(i)
    <3>1. PICK v \in rows : Chain!Supersede(v, tx[t].stamp)
      BY <2>4, CommitSupersedes
    <3>2. i < tx[t].stamp /\ tx[t].stamp \in Nat
      BY <2>4 DEF Commit, Settled, IInv, TypeOK, TxState
    <3>3. Settled(i)'
      BY <2>4 DEF Commit, Settled, IInv, TypeOK, Idle
    <3>4. /\ v.until = Open /\ v.from < tx[t].stamp /\ i \in Nat
          /\ rows' = (rows \ {v}) \cup Successors(v, tx[t].stamp)
      BY <3>1 DEF Chain!Supersede, Successors
    <3>5. \A w \in Successors(v, tx[t].stamp) :
            Chain!Covers(w, i) <=> w.from = v.from /\ Chain!Covers(v, i)
      BY <3>2, <3>4 DEF Successors, Chain!Covers
    <3>6. \E w \in Successors(v, tx[t].stamp) : w.from = v.from
      BY DEF Successors
    <3>7. ASSUME NEW f PROVE f \in AsOf(i)' <=> f \in AsOf(i)
      BY <3>4, <3>5, <3>6, AsOfMember DEF AsOf, Chain!Covers
    <3> QED
      BY <3>3, <3>7
  <2> QED
    BY <2>1, <2>2, <2>3, <2>4 DEF Next
<1> QED
  BY <1>1, SpecIInv, PTL DEF Spec, SettledAsOfIsFinal

===============================================================================
