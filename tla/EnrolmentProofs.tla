---------------------------- MODULE EnrolmentProofs ----------------------------
(***************************************************************************)
(* Theorems about enrolments, the status of a person, and awards, for      *)
(* every number of requests, persons, enrolments and awards.               *)
(*                                                                         *)
(* The first invariant says what a request that changes an enrolment has   *)
(* read of it, unless it is overlapped there; the second, what a request   *)
(* that confers an award has done for the enrolment already.               *)
(***************************************************************************)
EXTENDS JourneyProofs, FiniteSetTheorems

\* The ledger ends where the enrolment is.
Before(l, n) == IF n = 1 THEN "enrolled" ELSE l[n - 1].to

\* The ledger of one enrolment.
LedgerFits(e) ==
  LET l == ledger[e]
  IN  /\ \A n \in DOMAIN l : l[n].to \in AllowedFrom(l[n].from)
      /\ e \in suspect \/ \A n \in DOMAIN l : l[n].from = Before(l, n)
      /\ IF enrolments[e] = Absent THEN l = <<>> ELSE enrolments[e] = Before(l, Len(l) + 1)

PersonFits(p) ==
  p \notin suspect =>
    personStatus[p] = IF p \in Deceased THEN "deceased"
                      ELSE DerivedStatus(StatusesOf(p, enrolments))

\* A change is legal, and from the current status unless that has changed since.
ChangeFits(q, s) ==
  /\ s.to \in AllowedFrom(s.from)
  /\ enrolments[s.enrolment] # Absent
  /\ s.from = enrolments[s.enrolment] \/ s.enrolment \in overlapped[q]

CommitFits(q, s) ==
  LET e == s.enrolment
      p == PersonOf[e]
  IN  /\ s.from # Absent => ChangeFits(q, s)
      /\ s.from = Absent => s.to = "enrolled" /\ enrolments[e] = Absent
      /\ s.person = PersonUpdate(p, [enrolments EXCEPT ![e] = s.to]) \/ p \in overlapped[q]

EnrolmentInv ==
  /\ \A e \in Enrolments : LedgerFits(e)
  /\ \A p \in Persons : PersonFits(p)
  /\ \A q \in Requests :
       /\ req[q].at = "writeTransition" => ChangeFits(q, req[q])
       /\ req[q].at = "commitEnrolment" => CommitFits(q, req[q])
  /\ \A p, q \in Requests :
       req[p].at = "commitEnrolment" /\ req[q].at = "commitEnrolment"
         /\ req[p].enrolment = req[q].enrolment => p = q

\* The enrolments of other persons do not matter.
LEMMA SameStatuses ==
  ASSUME NEW p, NEW c, NEW d, \A f \in Enrolments : PersonOf[f] = p => c[f] = d[f]
  PROVE  StatusesOf(p, c) = StatusesOf(p, d)
BY DEF StatusesOf

\* Only a commit touches an enrolment, its ledger or the status of a person.
LEMMA EnrolmentFrame ==
  ASSUME [Next]_vars
  PROVE  UNCHANGED enrolmentVars \/ \E q \in Requests : CommitEnrolment(q) /\ Step(q)
<1>1. CASE UNCHANGED vars
  BY <1>1 DEF vars
<1>2. CASE TimePasses
  BY <1>2 DEF TimePasses
<1>3. ASSUME NEW q \in Requests, Step(q)
      PROVE  UNCHANGED enrolmentVars \/ CommitEnrolment(q)
  BY <1>3 DEF Step, EnrolmentStep, ReadTransition, WriteTransition, WriteEnrolment
<1> QED  BY <1>1, <1>2, <1>3 DEF Next

LEMMA CommitShape ==
  ASSUME TypeInv, NEW q \in Requests, req[q].at = "commitEnrolment"
  PROVE  /\ req[q] \in [at : {"commitEnrolment"}, enrolment : Enrolments,
                        from : Statuses \cup {Absent}, to : Statuses,
                        person : PersonStatuses \cup {Absent}, then : Announcing \cup {Done}]
         /\ PersonOf[req[q].enrolment] \in Persons
<1>1. req[q] \in EnrolmentRequest
  BY RequestShape DEF TypeInv, KnownRequest
<1> QED  BY <1>1, PersonOfAssumption DEF EnrolmentRequest

LEMMA InitEnrolment == Init => EnrolmentInv
<1> SUFFICES ASSUME Init PROVE EnrolmentInv
  OBVIOUS
<1>1. PICK s \in Scenarios : /\ CallsInit(s.calls) /\ EnrolmentsInit(s.enrolments)
  BY DEF Init
<1>2. \A q \in Requests : req[q].at \notin {"writeTransition", "commitEnrolment"}
  <2>1. \A q \in Requests : req[q] \in Call
    BY <1>1, CallsAssumption, ScenariosAssumption DEF CallsInit
  <2>2. \A c \in Call : c.at \notin {"writeTransition", "commitEnrolment"}
    BY DEF Call
  <2> QED  BY <2>1, <2>2
<1>3. /\ enrolments = s.enrolments
      /\ enrolments \in [Enrolments -> Statuses \cup {Absent}]
  BY <1>1, ScenariosAssumption DEF EnrolmentsInit
<1>4. ASSUME NEW e \in Enrolments PROVE LedgerFits(e)
  <2>1. ledger[e] = IF enrolments[e] \in {Absent, "enrolled"} THEN <<>>
                    ELSE << [from |-> "enrolled", to |-> enrolments[e]] >>
    BY <1>1, <1>3 DEF EnrolmentsInit
  <2>2. CASE enrolments[e] \in {Absent, "enrolled"}
    BY <2>1, <2>2 DEF LedgerFits, Before
  <2>3. CASE enrolments[e] \notin {Absent, "enrolled"}
    <3>1. enrolments[e] \in {"intermitting", "withdrawn", "suspended", "graduated"}
      BY <1>3, <2>3 DEF Statuses
    <3>2. enrolments[e] \in AllowedFrom("enrolled")
      BY <3>1 DEF AllowedFrom
    <3> QED  BY <2>1, <2>3, <3>2 DEF LedgerFits, Before
  <2> QED  BY <2>2, <2>3
<1>5. \A p \in Persons : PersonFits(p)
  BY <1>1, <1>3 DEF EnrolmentsInit, PersonFits
<1> QED  BY <1>2, <1>4, <1>5 DEF EnrolmentInv

\* What a commit does to the ledger.
LEMMA CommitKeepsLedger ==
  ASSUME TypeInv, EnrolmentInv, NEW q \in Requests, CommitEnrolment(q), NEW e \in Enrolments
  PROVE  LedgerFits(e)'
<1> DEFINE s == req[q]
           l == ledger[e]
<1>s. s.enrolment \in Enrolments /\ s.to \in Statuses /\ s.from \in Statuses \cup {Absent}
  BY CommitShape DEF CommitEnrolment
<1>t. /\ enrolments \in [Enrolments -> Statuses \cup {Absent}]
      /\ ledger \in [Enrolments -> Seq([from : Statuses, to : Statuses])]
      /\ Absent \notin Statuses
  BY AbsentAssumption DEF TypeInv, TypeOK
<1>c. /\ enrolments' = [enrolments EXCEPT ![s.enrolment] = s.to]
      /\ ledger' = IF s.from = Absent THEN ledger
                   ELSE [ledger EXCEPT ![s.enrolment] =
                           Append(@, [from |-> s.from, to |-> s.to])]
      /\ suspect' = suspect \cup ({s.enrolment, PersonOf[s.enrolment]} \cap overlapped[q])
  BY DEF CommitEnrolment, LedgerEntry, Writes
<1>f. CommitFits(q, s) /\ LedgerFits(e)
  BY DEF EnrolmentInv, CommitEnrolment
<1>1. CASE e # s.enrolment
  BY <1>1, <1>c, <1>f, <1>s, <1>t DEF LedgerFits
<1>2. CASE e = s.enrolment /\ s.from = Absent
  <2>1. enrolments[e] = Absent /\ s.to = "enrolled"
    BY <1>2, <1>f DEF CommitFits
  <2>2. l = <<>> /\ ledger'[e] = <<>> /\ enrolments'[e] = "enrolled"
    BY <1>2, <1>c, <1>f, <1>t, <2>1 DEF LedgerFits
  <2> QED  BY <1>t, <2>2 DEF LedgerFits, Before, Statuses
<1>3. CASE e = s.enrolment /\ s.from # Absent
  <2> DEFINE entry == [from |-> s.from, to |-> s.to]
             m == Append(l, entry)
  <2>1. ledger'[e] = m /\ enrolments'[e] = s.to /\ s.to # Absent
    BY <1>3, <1>c, <1>s, <1>t
  <2>2. ChangeFits(q, s)
    BY <1>3, <1>f DEF CommitFits
  <2>3. /\ l \in Seq([from : Statuses, to : Statuses]) /\ entry \in [from : Statuses, to : Statuses]
        /\ enrolments[e] = Before(l, Len(l) + 1)
    BY <1>3, <1>f, <1>s, <1>t, <2>2 DEF LedgerFits, ChangeFits
  <2>4. /\ Len(l) \in Nat /\ Len(m) = Len(l) + 1 /\ m[Len(m)] = entry
        /\ \A n \in 1..Len(l) : m[n] = l[n]
        /\ DOMAIN l = 1..Len(l) /\ DOMAIN m = 1..Len(m)
    BY <2>3
  <2>5. entry.from = s.from /\ entry.to = s.to
    OBVIOUS
  <2> HIDE DEF m, entry
  <2>6. \A n \in DOMAIN m : m[n].to \in AllowedFrom(m[n].from)
    BY <1>f, <2>2, <2>4, <2>5 DEF LedgerFits, ChangeFits
  <2>7. \A n \in 1..Len(m) : Before(m, n) = Before(l, n)
    BY <2>4 DEF Before
  <2>8. s.to = Before(m, Len(m) + 1)
    BY <2>4, <2>5 DEF Before
  <2>9. e \in suspect' \/ \A n \in DOMAIN m : m[n].from = Before(m, n)
    <3>1. CASE e \in suspect \/ e \in overlapped[q]
      BY <1>3, <1>c, <3>1
    <3>2. CASE e \notin suspect /\ e \notin overlapped[q]
      <4>1. s.from = Before(l, Len(l) + 1)
        BY <1>3, <2>2, <2>3, <3>2 DEF ChangeFits
      <4>2. \A n \in 1..Len(l) : l[n].from = Before(l, n)
        BY <1>f, <2>4, <3>2 DEF LedgerFits
      <4> QED  BY <2>4, <2>5, <2>7, <4>1, <4>2
    <3> QED  BY <3>1, <3>2
  <2> QED  BY <2>1, <2>6, <2>8, <2>9 DEF LedgerFits
<1> QED  BY <1>1, <1>2, <1>3

\* What a commit does to the status of a person.
LEMMA CommitKeepsPersons ==
  ASSUME TypeInv, EnrolmentInv, NEW q \in Requests, CommitEnrolment(q), NEW x \in Persons
  PROVE  PersonFits(x)'
<1> DEFINE s == req[q]
           p == PersonOf[s.enrolment]
           after == [enrolments EXCEPT ![s.enrolment] = s.to]
<1>s. s.enrolment \in Enrolments /\ p \in Persons
  BY CommitShape DEF CommitEnrolment
<1>t. /\ enrolments \in [Enrolments -> Statuses \cup {Absent}]
      /\ personStatus \in [Persons -> PersonStatuses]
      /\ Absent \notin PersonStatuses
  BY AbsentAssumption DEF TypeInv, TypeOK
<1>c. /\ enrolments' = after
      /\ personStatus' = IF s.person = Absent THEN personStatus
                         ELSE [personStatus EXCEPT ![p] = s.person]
      /\ suspect' = suspect \cup ({s.enrolment, p} \cap overlapped[q])
  BY DEF CommitEnrolment, Writes
<1>f. CommitFits(q, s) /\ PersonFits(x)
  BY DEF EnrolmentInv, CommitEnrolment
<1>1. CASE x # p
  <2>1. StatusesOf(x, enrolments') = StatusesOf(x, enrolments)
    <3>1. \A f \in Enrolments : PersonOf[f] = x => enrolments'[f] = enrolments[f]
      BY <1>1, <1>c, <1>t
    <3> QED  BY <3>1, SameStatuses
  <2>2. personStatus'[x] = personStatus[x]
    BY <1>1, <1>c, <1>t
  <2> QED  BY <1>c, <1>f, <2>1, <2>2 DEF PersonFits
<1>2. CASE x = p /\ p \in overlapped[q]
  BY <1>2, <1>c DEF PersonFits
<1>3. CASE x = p /\ p \notin overlapped[q]
  <2> DEFINE derived == DerivedStatus(StatusesOf(p, after))
  <2>1. s.person = IF p \in Deceased \/ derived = personStatus[p] THEN Absent ELSE derived
    BY <1>3, <1>f DEF CommitFits, PersonUpdate
  <2>2. derived # Absent
    BY <1>t, DerivedTyped
  <2>3. p \in Deceased /\ p \notin suspect => personStatus[p] = "deceased"
    BY <1>3, <1>f DEF PersonFits
  <2>4. derived = DerivedStatus(StatusesOf(p, enrolments'))
    BY <1>c
  <2> HIDE DEF derived
  <2>5. p \notin suspect => personStatus'[p] = IF p \in Deceased THEN "deceased" ELSE derived
    BY <1>c, <1>s, <1>t, <2>1, <2>2, <2>3
  <2> QED  BY <1>3, <1>c, <2>4, <2>5 DEF PersonFits
<1> QED  BY <1>1, <1>2, <1>3

\* What a bystander has read of an enrolment.
LEMMA BystanderKeepsEnrolment ==
  ASSUME TypeInv, EnrolmentInv, [Next]_vars, NEW p \in Requests, Bystander(p)
  PROVE  /\ req'[p].at = "writeTransition" => ChangeFits(p, req[p])'
         /\ req'[p].at = "commitEnrolment" => CommitFits(p, req[p])'
<1> DEFINE s == req[p]
           e == s.enrolment
           x == PersonOf[e]
<1>r. req'[p] = req[p]
  BY DEF Bystander
<1> SUFFICES ASSUME s.at \in {"writeTransition", "commitEnrolment"}
             PROVE  /\ s.at = "writeTransition" => ChangeFits(p, req[p])'
                    /\ s.at = "commitEnrolment" => CommitFits(p, req[p])'
  BY <1>r
<1>t. /\ enrolments \in [Enrolments -> Statuses \cup {Absent}]
      /\ Absent \notin Statuses
  BY AbsentAssumption DEF TypeInv, TypeOK
<1>s. e \in Enrolments
  <2>1. s \in EnrolmentRequest
    BY RequestShape DEF TypeInv, KnownRequest
  <2> QED  BY <2>1 DEF EnrolmentRequest, Announcing
<1>o. /\ overlapped[p] \subseteq overlapped'[p]
      /\ \A f \in Enrolments : enrolments'[f] = enrolments[f] \/ {f, PersonOf[f]} \subseteq overlapped'[p]
      /\ \A y \in Persons : personStatus'[y] = personStatus[y] \/ y \in overlapped'[p]
  <2>1. InFlight(p)
    BY UnderWay DEF Entries
  <2> QED  BY <2>1 DEF Bystander
<1>n. ASSUME NEW f \in Enrolments, enrolments[f] # Absent PROVE enrolments'[f] # Absent
  <2>1. CASE UNCHANGED enrolmentVars
    BY <1>n, <2>1 DEF enrolmentVars
  <2>2. ASSUME NEW q \in Requests, CommitEnrolment(q) PROVE enrolments'[f] # Absent
    <3>1. req[q].to \in Statuses
      BY <2>2, CommitShape DEF CommitEnrolment
    <3> QED  BY <1>n, <1>t, <2>2, <3>1 DEF CommitEnrolment
  <2> QED  BY <2>1, <2>2, EnrolmentFrame
<1>1. ChangeFits(p, s) => ChangeFits(p, req[p])'
  BY <1>n, <1>o, <1>r, <1>s DEF ChangeFits
<1>2. CASE s.at = "writeTransition"
  BY <1>1, <1>2 DEF EnrolmentInv
<1>3. CASE s.at = "commitEnrolment"
  <2>1. CommitFits(p, s)
    BY <1>3 DEF EnrolmentInv
  <2>2. enrolments'[e] = enrolments[e]
    <3>1. CASE UNCHANGED enrolmentVars
      BY <3>1 DEF enrolmentVars
    <3>2. ASSUME NEW q \in Requests, CommitEnrolment(q) PROVE enrolments'[e] = enrolments[e]
      <4>1. q # p
        <5>1. req'[q] = req[q].then /\ req[q].then \in Announcing \cup {Done}
          BY <3>2, Arrives, CommitShape DEF CommitEnrolment
        <5> QED  BY <1>3, <1>r, <5>1 DEF Announcing, Done
      <4>2. req[q].enrolment # e
        BY <1>3, <3>2, <4>1 DEF EnrolmentInv, CommitEnrolment
      <4> QED  BY <1>t, <3>2, <4>2 DEF CommitEnrolment
    <3> QED  BY <3>1, <3>2, EnrolmentFrame
  <2>3. \/ x \in overlapped'[p]
        \/ PersonUpdate(x, [enrolments EXCEPT ![e] = s.to])' = PersonUpdate(x, [enrolments EXCEPT ![e] = s.to])
    <3> DEFINE c == [enrolments EXCEPT ![e] = s.to]
               d == [enrolments' EXCEPT ![e] = s.to]
    <3>1. CASE \A f \in Enrolments : PersonOf[f] = x => enrolments'[f] = enrolments[f]
      <4>1. enrolments' \in [Enrolments -> Statuses \cup {Absent}]
        BY NextTyped DEF TypeInv, TypeOK
      <4>2. StatusesOf(x, c) = StatusesOf(x, d)
        <5>1. \A f \in Enrolments : PersonOf[f] = x => c[f] = d[f]
          BY <1>t, <3>1, <4>1
        <5> HIDE DEF c, d
        <5> QED  BY <5>1, SameStatuses
      <4>3. personStatus'[x] = personStatus[x] \/ x \in overlapped'[p]
        BY <1>o, <1>s, PersonOfAssumption
      <4>4. PersonUpdate(x, [enrolments EXCEPT ![e] = s.to])'
              = IF x \in Deceased \/ DerivedStatus(StatusesOf(x, d)) = personStatus'[x] THEN Absent
                ELSE DerivedStatus(StatusesOf(x, d))
        BY <1>r DEF PersonUpdate
      <4> QED  BY <4>2, <4>3, <4>4 DEF PersonUpdate
    <3>2. CASE ~ \A f \in Enrolments : PersonOf[f] = x => enrolments'[f] = enrolments[f]
      BY <1>o, <3>2
    <3> QED  BY <3>1, <3>2
  <2> QED  BY <1>1, <1>3, <1>o, <1>r, <2>1, <2>2, <2>3 DEF CommitFits
<1> QED  BY <1>2, <1>3

\* What the request that takes the step has read of an enrolment.
LEMMA StepKeepsEnrolment ==
  ASSUME TypeInv, EnrolmentInv, NEW q \in Requests, Step(q)
  PROVE  /\ req'[q].at = "writeTransition" => ChangeFits(q, req[q])'
         /\ req'[q].at = "commitEnrolment" => CommitFits(q, req[q])'
<1> DEFINE s == req[q]
           e == s.enrolment
<1>a. /\ req'[q].at = "writeTransition" => ReadTransition(q)
      /\ req'[q].at = "commitEnrolment" => WriteTransition(q) \/ WriteEnrolment(q)
  BY Arrivals
<1>t. Absent \notin Statuses /\ enrolments \in [Enrolments -> Statuses \cup {Absent}]
  BY AbsentAssumption DEF TypeInv, TypeOK
<1>1. ASSUME ReadTransition(q), req'[q].at = "writeTransition"
      PROVE  ChangeFits(q, req[q])'
  <2> DEFINE r == [at |-> "writeTransition", enrolment |-> e, from |-> enrolments[e],
                   to |-> s.to, then |-> s.then]
  <2>1. s.to \in AllowedFrom(enrolments[e]) /\ Reads(q, r)
    <3>1. CASE s.to \in AllowedFrom(enrolments[e])
      BY <1>1, <3>1 DEF ReadTransition
    <3>2. CASE s.to \notin AllowedFrom(enrolments[e])
      <4>1. req'[q] = Done
        BY <1>1, <3>2, Arrives DEF ReadTransition
      <4> QED  BY <1>1, <4>1 DEF Done
    <3> QED  BY <3>1, <3>2
  <2>2. req'[q] = r
    BY <2>1, Arrives
  <2>3. enrolments[e] # Absent /\ enrolments' = enrolments
    BY <1>1, <1>t, <2>1, AllowedTyped DEF ReadTransition, enrolmentVars
  <2> QED  BY <2>1, <2>2, <2>3 DEF ChangeFits
<1>2. ASSUME WriteTransition(q), req'[q].at = "commitEnrolment"
      PROVE  CommitFits(q, req[q])'
  <2> DEFINE u == PersonUpdate(PersonOf[e], [enrolments EXCEPT ![e] = s.to])
             r == [at |-> "commitEnrolment", enrolment |-> e, from |-> s.from, to |-> s.to,
                   person |-> u, then |-> s.then]
  <2>1. Reads(q, r)
    <3>1. CASE ~EnrolmentLocked(e)
      BY <1>2, <3>1 DEF WriteTransition
    <3>2. CASE EnrolmentLocked(e)
      <4>1. req'[q] = Done
        BY <1>2, <3>2, Arrives DEF WriteTransition
      <4> QED  BY <1>2, <4>1 DEF Done
    <3> QED  BY <3>1, <3>2
  <2>2. /\ req'[q] = r /\ overlapped'[q] = overlapped[q]
        /\ enrolments' = enrolments /\ personStatus' = personStatus
    BY <1>2, <2>1 DEF Reads, TypeInv, WriteTransition, enrolmentVars, Done
  <2>3. ChangeFits(q, s)
    BY <1>2 DEF EnrolmentInv, WriteTransition
  <2>5. s.from # Absent
    BY <1>t, <2>3, AllowedTyped DEF ChangeFits
  <2>6. PersonUpdate(PersonOf[r.enrolment], [enrolments EXCEPT ![r.enrolment] = r.to])' = u
    BY <2>2 DEF PersonUpdate
  <2> HIDE DEF u
  <2> QED  BY <2>2, <2>3, <2>5, <2>6 DEF CommitFits, ChangeFits
<1>3. ASSUME WriteEnrolment(q)
      PROVE  CommitFits(q, req[q])'
  <2>1. PICK f \in Enrolments :
          /\ enrolments[f] = Absent
          /\ Reads(q, [at |-> "commitEnrolment", enrolment |-> f, from |-> Absent, to |-> "enrolled",
                       person |-> PersonUpdate(PersonOf[f], [enrolments EXCEPT ![f] = "enrolled"]),
                       then |-> Done])
    BY <1>3 DEF WriteEnrolment
  <2> DEFINE u == PersonUpdate(PersonOf[f], [enrolments EXCEPT ![f] = "enrolled"])
             r == [at |-> "commitEnrolment", enrolment |-> f, from |-> Absent, to |-> "enrolled",
                   person |-> u, then |-> Done]
  <2>2. /\ req'[q] = r /\ enrolments' = enrolments /\ personStatus' = personStatus
    BY <1>3, <2>1, Arrives DEF WriteEnrolment, enrolmentVars
  <2>3. PersonUpdate(PersonOf[r.enrolment], [enrolments EXCEPT ![r.enrolment] = r.to])' = u
    BY <2>2 DEF PersonUpdate
  <2> HIDE DEF u
  <2> QED  BY <2>1, <2>2, <2>3 DEF CommitFits
<1> QED  BY <1>a, <1>1, <1>2, <1>3

\* No two open transactions have written the same enrolment.
LEMMA StepKeepsLocks ==
  ASSUME TypeInv, EnrolmentInv, NEW q \in Requests, Step(q), NEW p \in Requests,
         Bystander(p), p # q, req'[p].at = "commitEnrolment", req'[q].at = "commitEnrolment"
  PROVE  req'[p].enrolment # req'[q].enrolment
<1>1. WriteTransition(q) \/ WriteEnrolment(q)
  BY Arrivals
<1>2. ~EnrolmentLocked(req'[q].enrolment)
  <2>1. CASE WriteTransition(q)
    <3>1. CASE EnrolmentLocked(req[q].enrolment)
      <4>1. req'[q] = Done
        BY <2>1, <3>1, Arrives DEF WriteTransition
      <4> QED  BY <4>1 DEF Done
    <3>2. CASE ~EnrolmentLocked(req[q].enrolment)
      <4> DEFINE u == PersonUpdate(PersonOf[req[q].enrolment],
                                   [enrolments EXCEPT ![req[q].enrolment] = req[q].to])
      <4>1. Reads(q, [at |-> "commitEnrolment", enrolment |-> req[q].enrolment, from |-> req[q].from,
                      to |-> req[q].to, person |-> u, then |-> req[q].then])
        BY <2>1, <3>2 DEF WriteTransition
      <4> HIDE DEF u
      <4>2. req'[q].enrolment = req[q].enrolment
        BY <4>1 DEF Reads, TypeInv
      <4> QED  BY <3>2, <4>2
    <3> QED  BY <3>1, <3>2
  <2>2. CASE WriteEnrolment(q)
    <3>1. PICK f \in Enrolments :
            /\ ~EnrolmentLocked(f)
            /\ \E u : Reads(q, [at |-> "commitEnrolment", enrolment |-> f, from |-> Absent,
                                to |-> "enrolled", person |-> u, then |-> Done])
      BY <2>2 DEF WriteEnrolment
    <3>2. req'[q].enrolment = f
      BY <3>1 DEF Reads, TypeInv
    <3> QED  BY <3>1, <3>2
  <2> QED  BY <1>1, <2>1, <2>2
<1> QED  BY <1>2 DEF EnrolmentLocked, Bystander

LEMMA NextEnrolment ==
  ASSUME TypeInv, EnrolmentInv, [Next]_vars
  PROVE  EnrolmentInv'
<1>1. ASSUME NEW e \in Enrolments PROVE LedgerFits(e)'
  <2>1. CASE UNCHANGED enrolmentVars
    <3>1. LedgerFits(e) /\ suspect \subseteq suspect'
      BY SuspectGrows DEF EnrolmentInv
    <3> QED  BY <2>1, <3>1 DEF LedgerFits, enrolmentVars
  <2> QED  BY <2>1, EnrolmentFrame, CommitKeepsLedger
<1>2. ASSUME NEW p \in Persons PROVE PersonFits(p)'
  <2>1. CASE UNCHANGED enrolmentVars
    <3>1. PersonFits(p) /\ suspect \subseteq suspect'
      BY SuspectGrows DEF EnrolmentInv
    <3> QED  BY <2>1, <3>1 DEF PersonFits, enrolmentVars
  <2> QED  BY <2>1, EnrolmentFrame, CommitKeepsPersons
<1>3. ASSUME NEW q \in Requests
      PROVE  /\ req'[q].at = "writeTransition" => ChangeFits(q, req[q])'
             /\ req'[q].at = "commitEnrolment" => CommitFits(q, req[q])'
  BY NextBystanders, BystanderKeepsEnrolment, StepKeepsEnrolment
<1>4. ASSUME NEW p \in Requests, NEW q \in Requests, p # q,
             req'[p].at = "commitEnrolment", req'[q].at = "commitEnrolment"
      PROVE  req'[p].enrolment # req'[q].enrolment
  <2>1. CASE Bystander(p) /\ Bystander(q)
    BY <1>4, <2>1 DEF Bystander, EnrolmentInv
  <2>2. CASE Bystander(p) /\ Step(q)
    BY <1>4, <2>2, StepKeepsLocks
  <2>3. CASE Step(p) /\ Bystander(q)
    BY <1>4, <2>3, StepKeepsLocks
  <2>4. CASE Step(p) /\ Step(q)
    <3>1. PICK W : Writer(p, W)
      BY <2>4, StepWrites
    <3>2. req'[q] = req[q]
      BY <1>4, <3>1 DEF Writer
    <3>3. req[q].at = "commitEnrolment" /\ (WriteTransition(q) \/ WriteEnrolment(q))
      BY <1>4, <2>4, <3>2, Arrivals
    <3> QED  BY <3>3 DEF WriteTransition, WriteEnrolment
  <2> QED  BY <2>1, <2>2, <2>3, <2>4, NextBystanders
<1> QED  BY <1>1, <1>2, <1>3, <1>4 DEF EnrolmentInv

LEMMA EnrolmentInvariant == Spec => []EnrolmentInv
<1>1. TypeInv /\ EnrolmentInv /\ [Next]_vars => EnrolmentInv'
  BY NextEnrolment
<1> QED  BY InitEnrolment, TypeInvariant, <1>1, PTL DEF Spec

\* The ledger of an enrolment is the chain of legal changes that led to its current
\* status, and ends there even after an overlap: the version and its ledger entry are
\* one transaction (transitionStatus of enrolment/service.ts).
THEOREM LedgersAreHistories == Spec => []LedgerIsHistory
<1>1. EnrolmentInv => LedgerIsHistory
  BY DEF EnrolmentInv, LedgerFits, Before, LedgerIsHistory
<1> QED  BY EnrolmentInvariant, <1>1, PTL

\* The status of a person is the one derived from all of the person's enrolments, and
\* "deceased" stays, unless transactions on the person's enrolments overlapped
\* (#updatePersonStatusFromEnrolments).
THEOREM PersonsFollowEnrolments == Spec => []PersonStatusFollows
<1>1. EnrolmentInv => PersonStatusFollows
  BY DEF EnrolmentInv, PersonFits, PersonStatusFollows
<1> QED  BY EnrolmentInvariant, <1>1, PTL

-------------------------------------------------------------------------------
(* Awards.                                                                  *)

Graduated(e) == enrolments[e] = "graduated" \/ e \in suspect

\* A change of status that an announcement follows is the graduation for an award.
GraduatesFor(s) ==
  s.then # Done => /\ s.then.enrolment = s.enrolment /\ s.to = "graduated"
                   /\ AwardsOf(s.enrolment) # {}

AwardFits(s) ==
  /\ s.at \in {"awardBoard", "awardExisting", "insertAward"} =>
       (s.status = "graduated" => Graduated(s.enrolment))
  /\ s.at \in {"transitionStatus", "writeTransition", "commitEnrolment"} => GraduatesFor(s)
  /\ s.at = "announceAward" => AwardsOf(s.enrolment) # {} /\ Graduated(s.enrolment)

AwardInv ==
  /\ \A a, b \in Awards : awards[a] # Absent /\ awards[a] = awards[b] => a = b
  /\ \A e \in announcedAwards : AwardsOf(e) # {} /\ Graduated(e)
  /\ \A q \in Requests : AwardFits(req[q])

AwardStates ==
  {"awardBoard", "awardExisting", "insertAward", "transitionStatus", "writeTransition",
   "commitEnrolment", "announceAward"}

LEMMA AwardFrame ==
  ASSUME [Next]_vars
  PROVE  UNCHANGED awardVars \/ \E q \in Requests : Step(q) /\ (InsertAward(q) \/ AnnounceAward(q))
<1>1. CASE UNCHANGED vars
  BY <1>1 DEF vars
<1>2. CASE TimePasses
  BY <1>2 DEF TimePasses
<1>3. ASSUME NEW q \in Requests, Step(q)
      PROVE  UNCHANGED awardVars \/ InsertAward(q) \/ AnnounceAward(q)
  BY <1>3 DEF Step, AwardStep, ReadAwardEnrolment, CheckAwardBoard, CheckAward
<1> QED  BY <1>1, <1>2, <1>3 DEF Next

\* An award is given to an enrolment that has none.
LEMMA AwardGiven ==
  ASSUME TypeInv, NEW q \in Requests, InsertAward(q)
  PROVE  \/ UNCHANGED awardVars
         \/ /\ AwardsOf(req[q].enrolment) = {} /\ UNCHANGED announcedAwards
            /\ \E a \in Awards : /\ awards[a] = Absent
                                 /\ awards' = [awards EXCEPT ![a] = req[q].enrolment]
<1>1. awards \in [Awards -> Enrolments \cup {Absent}]
  BY DEF TypeInv, TypeOK
<1> QED  BY <1>1 DEF InsertAward, AwardIndex, Unused, awardVars

LEMMA AwardsStay ==
  ASSUME TypeInv, [Next]_vars, NEW e \in Enrolments, AwardsOf(e) # {}
  PROVE  AwardsOf(e)' # {}
<1>1. CASE UNCHANGED awardVars
  BY <1>1 DEF awardVars, AwardsOf
<1>2. ASSUME NEW q \in Requests, AnnounceAward(q) PROVE AwardsOf(e)' # {}
  BY <1>2 DEF AnnounceAward, AwardsOf
<1>3. ASSUME NEW q \in Requests, InsertAward(q) PROVE AwardsOf(e)' # {}
  <2>1. PICK b \in Awards : awards[b] = e
    BY DEF AwardsOf
  <2>2. awards \in [Awards -> Enrolments \cup {Absent}] /\ Absent \notin Enrolments
    BY AbsentAssumption DEF TypeInv, TypeOK
  <2>3. awards'[b] = e
    BY <1>3, <2>1, <2>2, AwardGiven DEF awardVars
  <2> QED  BY <2>3 DEF AwardsOf
<1> QED  BY <1>1, <1>2, <1>3, AwardFrame

\* There is no way back from a graduation, but over a change that was not seen.
LEMMA GraduationStays ==
  ASSUME TypeInv, EnrolmentInv, [Next]_vars, NEW e \in Enrolments, Graduated(e)
  PROVE  Graduated(e)'
<1>1. suspect \subseteq suspect'
  BY SuspectGrows
<1>2. CASE e \in suspect
  BY <1>1, <1>2 DEF Graduated
<1>3. CASE UNCHANGED enrolmentVars
  BY <1>1, <1>3 DEF Graduated, enrolmentVars
<1>4. ASSUME NEW q \in Requests, CommitEnrolment(q), enrolments[e] = "graduated"
      PROVE  Graduated(e)'
  <2>1. CommitFits(q, req[q])
    BY <1>4 DEF EnrolmentInv, CommitEnrolment
  <2>2. CASE req[q].enrolment # e
    <3>1. enrolments'[e] = enrolments[e]
      BY <1>4, <2>2 DEF CommitEnrolment, TypeInv, TypeOK
    <3> QED  BY <1>4, <3>1 DEF Graduated
  <2>3. CASE req[q].enrolment = e
    <3>1. AllowedFrom("graduated") = {} /\ "graduated" # Absent
      BY AbsentAssumption DEF AllowedFrom, Statuses
    <3>2. e \in overlapped[q]
      BY <1>4, <2>1, <2>3, <3>1 DEF CommitFits, ChangeFits
    <3>3. e \in suspect'
      BY <1>4, <2>3, <3>2 DEF CommitEnrolment, Writes
    <3> QED  BY <3>3 DEF Graduated
  <2> QED  BY <2>2, <2>3
<1> QED  BY <1>2, <1>3, <1>4, EnrolmentFrame DEF Graduated

LEMMA InitAward == Init => AwardInv
<1> SUFFICES ASSUME Init PROVE AwardInv
  OBVIOUS
<1>1. PICK s \in Scenarios : CallsInit(s.calls) /\ awards = [a \in Awards |-> Absent] /\ announcedAwards = {}
  BY DEF Init
<1>2. ASSUME NEW q \in Requests PROVE AwardFits(req[q])
  <2>1. req[q] \in Call
    BY <1>1, CallsAssumption, ScenariosAssumption DEF CallsInit
  <2>2. \/ req[q] \in [at : {"transitionStatus"}, enrolment : Enrolments, to : Statuses, then : {Done}]
        \/ req[q].at \notin AwardStates
    BY <2>1 DEF Call, AwardStates
  <2> QED  BY <2>2 DEF AwardFits, GraduatesFor, AwardStates
<1> QED  BY <1>1, <1>2 DEF AwardInv

\* The enrolment that a request about awards is about.
LEMMA AwardShape ==
  ASSUME TypeInv, NEW q \in Requests, req[q].at \in AwardStates
  PROVE  req[q].enrolment \in Enrolments
<1>1. req[q] \in EnrolmentRequest \cup AwardRequest
  BY RequestShape DEF TypeInv, KnownRequest, AwardStates, AwardRequest
<1> QED  BY <1>1 DEF EnrolmentRequest, AwardRequest, Announcing

\* What was so before a step about an award still is.
LEMMA AwardFitsStill ==
  ASSUME TypeInv, EnrolmentInv, [Next]_vars, NEW s, AwardFits(s),
         s.at \in AwardStates, s.enrolment \in Enrolments
  PROVE  /\ s.at \in {"awardBoard", "awardExisting", "insertAward"} =>
              (s.status = "graduated" => Graduated(s.enrolment)')
         /\ s.at \in {"transitionStatus", "writeTransition", "commitEnrolment"} =>
              (s.then # Done => /\ s.then.enrolment = s.enrolment /\ s.to = "graduated"
                                /\ AwardsOf(s.enrolment)' # {})
         /\ s.at = "announceAward" => AwardsOf(s.enrolment)' # {} /\ Graduated(s.enrolment)'
<1>1. Graduated(s.enrolment) => Graduated(s.enrolment)'
  BY GraduationStays DEF Graduated
<1>2. AwardsOf(s.enrolment) # {} => AwardsOf(s.enrolment)' # {}
  BY AwardsStay DEF AwardsOf
<1> QED  BY <1>1, <1>2 DEF AwardFits, GraduatesFor

LEMMA StepKeepsAward ==
  ASSUME TypeInv, EnrolmentInv, AwardInv, NEW q \in Requests, Step(q)
  PROVE  AwardFits(req[q])'
<1> DEFINE s == req[q]
           r == req'[q]
<1>e. PICK e : e = s.enrolment
  OBVIOUS
<1>n. [Next]_vars
  BY DEF Next
<1>f. AwardFits(s)
  BY DEF AwardInv
<1>s. s.at \in AwardStates => e \in Enrolments
  BY <1>e, AwardShape
<1>1. CASE r.at \notin AwardStates
  BY <1>1 DEF AwardFits, AwardStates
<1>2. CASE ReadAwardEnrolment(q) /\ r.at \in {"awardBoard", "awardExisting"}
  <2>1. PICK at \in {"awardBoard", "awardExisting"} :
          Reads(q, [at |-> at, enrolment |-> e, status |-> enrolments[e]])
    <3>1. CASE enrolments[e] = Absent
      <4>1. r = Done
        BY <1>e, <1>2, <3>1, Arrives DEF ReadAwardEnrolment
      <4> QED  BY <1>e, <1>2, <4>1 DEF Done
    <3>2. CASE enrolments[e] # Absent
      BY <1>e, <1>2, <3>2 DEF ReadAwardEnrolment
    <3> QED  BY <3>1, <3>2
  <2>2. r = [at |-> at, enrolment |-> e, status |-> enrolments[e]]
    BY <2>1, Arrives
  <2>3. enrolments' = enrolments
    <3>1. ~ \E p \in Requests : CommitEnrolment(p) /\ Step(p)
      <4> SUFFICES ASSUME NEW p \in Requests, CommitEnrolment(p) PROVE FALSE
        OBVIOUS
      <4>1. p # q
        BY <1>2 DEF CommitEnrolment, ReadAwardEnrolment
      <4>2. req'[p] = req[p]
        BY <2>1, <4>1 DEF Reads, TypeInv
      <4>3. req'[p] = req[p].then /\ req[p].then \in Announcing \cup {Done}
        BY CommitShape, Arrives DEF CommitEnrolment
      <4> QED  BY <4>2, <4>3 DEF CommitEnrolment, Announcing, Done
    <3> QED  BY <1>n, <3>1, EnrolmentFrame DEF enrolmentVars
  <2> QED  BY <2>2, <2>3 DEF AwardFits, Graduated
<1>3. CASE (CheckAwardBoard(q) \/ CheckAward(q)) /\ r.at \in {"awardExisting", "insertAward"}
  <2>1. s \in [at : {"awardBoard", "awardExisting"}, enrolment : Enrolments, status : Statuses]
    BY <1>e, <1>3, RequestShape DEF CheckAwardBoard, CheckAward, TypeInv, KnownRequest
  <2>2. r \in {Done, [s EXCEPT !.at = "awardExisting"], [s EXCEPT !.at = "insertAward"]}
    BY <1>e, <1>3, Arrives DEF CheckAwardBoard, CheckAward
  <2>3. r.enrolment = e /\ r.status = s.status
    BY <1>e, <1>3, <2>1, <2>2 DEF Done
  <2>4. s.status = "graduated" => Graduated(e)'
    BY <1>e, <1>f, <1>n, <2>1, AwardFitsStill DEF AwardStates
  <2> QED  BY <1>e, <1>3, <2>3, <2>4 DEF AwardFits, Graduated
<1>4. CASE InsertAward(q) /\ r.at \in {"transitionStatus", "announceAward"}
  <2>1. r = AfterAward(e, s.status) /\ AwardsOf(e)' # {}
    <3>1. CASE AwardIndex(e)
      <4>1. PICK a \in Unused(awards) : awards' = [awards EXCEPT ![a] = e]
        BY <1>e, <1>4, <3>1 DEF InsertAward
      <4>2. a \in Awards /\ awards'[a] = e
        BY <4>1 DEF Unused, TypeInv, TypeOK
      <4>3. r = AfterAward(e, s.status)
        BY <1>e, <1>4, <3>1, Arrives DEF InsertAward
      <4> QED  BY <4>2, <4>3 DEF AwardsOf
    <3>2. CASE ~AwardIndex(e)
      <4>1. r = Done
        BY <1>e, <1>4, <3>2, Arrives DEF InsertAward
      <4> QED  BY <1>e, <1>4, <4>1 DEF Done
    <3> QED  BY <3>1, <3>2
  <2>2. s.status = "graduated" => Graduated(e)'
    BY <1>e, <1>4, <1>f, <1>n, <1>s, AwardFitsStill DEF AwardStates, InsertAward
  <2> DEFINE announce == [at |-> "announceAward", enrolment |-> e]
             graduate == [at |-> "transitionStatus", enrolment |-> e, to |-> "graduated",
                          then |-> announce]
  <2>3. CASE s.status = "graduated"
    <3>1. r = announce
      BY <2>1, <2>3 DEF AfterAward
    <3>2. r.at = "announceAward" /\ r.enrolment = e
      BY <3>1
    <3> QED  BY <2>1, <2>2, <2>3, <3>2 DEF AwardFits, AwardsOf, Graduated
  <2>4. CASE s.status # "graduated"
    <3>1. r = graduate
      BY <2>1, <2>4 DEF AfterAward
    <3>2. /\ r.at = "transitionStatus" /\ r.enrolment = e /\ r.to = "graduated"
          /\ r.then.enrolment = e
      BY <3>1
    <3> QED  BY <2>1, <3>2 DEF AwardFits, GraduatesFor, AwardsOf
  <2> QED  BY <2>3, <2>4
<1>5. CASE ReadTransition(q) /\ r.at = "writeTransition"
  <2>1. r = [at |-> "writeTransition", enrolment |-> e, from |-> enrolments[e], to |-> s.to,
             then |-> s.then]
    <3>1. r = Done \/ r = [at |-> "writeTransition", enrolment |-> e, from |-> enrolments[e],
                           to |-> s.to, then |-> s.then]
      BY <1>e, <1>5, Arrives DEF ReadTransition
    <3> QED  BY <1>e, <1>5, <3>1 DEF Done
  <2>2. r.enrolment = e /\ r.to = s.to /\ r.then = s.then
    BY <2>1
  <2>3. s.then # Done => s.then.enrolment = e /\ s.to = "graduated" /\ AwardsOf(e)' # {}
    BY <1>e, <1>5, <1>f, <1>n, <1>s, AwardFitsStill DEF AwardStates, ReadTransition
  <2> QED  BY <1>e, <1>5, <2>2, <2>3 DEF AwardFits, GraduatesFor, AwardsOf
<1>6. CASE WriteTransition(q) /\ r.at = "commitEnrolment"
  <2> DEFINE u == PersonUpdate(PersonOf[e], [enrolments EXCEPT ![e] = s.to])
  <2>1. r = [at |-> "commitEnrolment", enrolment |-> e, from |-> s.from, to |-> s.to,
             person |-> u, then |-> s.then]
    <3>1. r = Done \/ r = [at |-> "commitEnrolment", enrolment |-> e, from |-> s.from, to |-> s.to,
                           person |-> u, then |-> s.then]
      BY <1>e, <1>6, Arrives DEF WriteTransition
    <3> QED  BY <1>e, <1>6, <3>1 DEF Done
  <2> HIDE DEF u
  <2>2. r.enrolment = e /\ r.to = s.to /\ r.then = s.then
    BY <2>1
  <2>3. s.then # Done => s.then.enrolment = e /\ s.to = "graduated" /\ AwardsOf(e)' # {}
    BY <1>e, <1>6, <1>f, <1>n, <1>s, AwardFitsStill DEF AwardStates, WriteTransition
  <2> QED  BY <1>e, <1>6, <2>2, <2>3 DEF AwardFits, GraduatesFor, AwardsOf
<1>7. CASE WriteEnrolment(q) /\ r.at = "commitEnrolment"
  <2>1. r.then = Done
    <3>1. PICK f, u : Reads(q, [at |-> "commitEnrolment", enrolment |-> f, from |-> Absent,
                               to |-> "enrolled", person |-> u, then |-> Done])
      BY <1>7 DEF WriteEnrolment
    <3> QED  BY <3>1 DEF Reads, TypeInv
  <2> QED  BY <1>7, <2>1 DEF AwardFits, GraduatesFor
<1>8. CASE CommitEnrolment(q) /\ r.at = "announceAward"
  <2>1. r = s.then /\ s.then # Done
    BY <1>e, <1>8, Arrives DEF CommitEnrolment, Done
  <2>2. s.then.enrolment = e /\ s.to = "graduated" /\ AwardsOf(e)' # {}
    BY <1>e, <1>8, <1>f, <1>n, <1>s, <2>1, AwardFitsStill DEF AwardStates, CommitEnrolment
  <2>3. enrolments'[e] = "graduated"
    BY <1>e, <1>8, <1>s, <2>2 DEF CommitEnrolment, TypeInv, TypeOK, AwardStates
  <2> QED  BY <1>e, <1>8, <2>1, <2>2, <2>3 DEF AwardFits, AwardsOf, Graduated
<1>9. \/ r.at \notin AwardStates
      \/ ReadAwardEnrolment(q) /\ r.at \in {"awardBoard", "awardExisting"}
      \/ (CheckAwardBoard(q) \/ CheckAward(q)) /\ r.at \in {"awardExisting", "insertAward"}
      \/ InsertAward(q) /\ r.at \in {"transitionStatus", "announceAward"}
      \/ ReadTransition(q) /\ r.at = "writeTransition"
      \/ (WriteTransition(q) \/ WriteEnrolment(q)) /\ r.at = "commitEnrolment"
      \/ CommitEnrolment(q) /\ r.at = "announceAward"
  <2>1. CASE EnrolmentStep(q)
    BY <2>1, EnrolmentArrivals DEF AwardStates
  <2>2. CASE AwardStep(q)
    BY <2>2, AwardArrivals DEF AwardStates
  <2>3. CASE WorkflowStep(q)
    BY <2>3, WorkflowArrivals DEF AwardStates
  <2>4. CASE RegistrationStep(q)
    BY <2>4, RegistrationArrivals DEF AwardStates
  <2>5. CASE SelectionStep(q)
    BY <2>5, SelectionArrivals DEF AwardStates
  <2>6. CASE Fail(q)
    BY <2>6, Arrives DEF Fail, AwardStates, Done
  <2> QED  BY <2>1, <2>2, <2>3, <2>4, <2>5, <2>6 DEF Step
<1> QED  BY <1>1, <1>2, <1>3, <1>4, <1>5, <1>6, <1>7, <1>8, <1>9

LEMMA NextAward ==
  ASSUME TypeInv, EnrolmentInv, AwardInv, [Next]_vars
  PROVE  AwardInv'
<1>1. ASSUME NEW q \in Requests PROVE AwardFits(req[q])'
  <2>1. CASE Bystander(q)
    <3>1. req'[q] = req[q] /\ AwardFits(req[q])
      BY <2>1 DEF Bystander, AwardInv
    <3>2. CASE req[q].at \in AwardStates
      BY <3>1, <3>2, AwardFitsStill, AwardShape DEF AwardFits, GraduatesFor, Graduated, AwardsOf
    <3>3. CASE req[q].at \notin AwardStates
      BY <3>1, <3>3 DEF AwardFits, AwardStates
    <3> QED  BY <3>2, <3>3
  <2> QED  BY <2>1, NextBystanders, StepKeepsAward
<1>2. ASSUME NEW a \in Awards, NEW b \in Awards, awards'[a] # Absent, awards'[a] = awards'[b]
      PROVE  a = b
  <2>1. awards \in [Awards -> Enrolments \cup {Absent}]
    BY DEF TypeInv, TypeOK
  <2>2. CASE UNCHANGED awards
    BY <1>2, <2>2 DEF AwardInv
  <2>3. ASSUME NEW q \in Requests, InsertAward(q) PROVE a = b
    <3>1. CASE UNCHANGED awardVars
      BY <1>2, <3>1 DEF AwardInv, awardVars
    <3>2. ASSUME AwardsOf(req[q].enrolment) = {}, NEW c \in Awards,
                 awards' = [awards EXCEPT ![c] = req[q].enrolment]
          PROVE  a = b
      BY <1>2, <2>1, <3>2 DEF AwardInv, AwardsOf
    <3> QED  BY <2>3, <3>1, <3>2, AwardGiven
  <2> QED  BY <2>2, <2>3, AwardFrame DEF AnnounceAward, awardVars
<1>3. ASSUME NEW e \in announcedAwards' PROVE AwardsOf(e)' # {} /\ Graduated(e)'
  <2>1. e \in Enrolments
    BY NextTyped DEF TypeInv, TypeOK
  <2>2. AwardsOf(e) # {} /\ Graduated(e)
    <3>1. CASE e \in announcedAwards
      BY <3>1 DEF AwardInv
    <3>2. CASE e \notin announcedAwards
      <4>1. PICK q \in Requests : AnnounceAward(q)
        BY <1>3, <3>2, AwardFrame DEF awardVars, InsertAward
      <4>2. e = req[q].enrolment
        BY <1>3, <3>2, <4>1 DEF AnnounceAward
      <4> QED  BY <4>1, <4>2 DEF AwardInv, AwardFits, AnnounceAward
    <3> QED  BY <3>1, <3>2
  <2> QED  BY <2>1, <2>2, AwardsStay, GraduationStays
<1> QED  BY <1>1, <1>2, <1>3 DEF AwardInv

LEMMA AwardInvariant == Spec => []AwardInv
<1>1. TypeInv /\ EnrolmentInv /\ AwardInv /\ [Next]_vars => AwardInv'
  BY NextAward
<1> QED  BY InitAward, TypeInvariant, EnrolmentInvariant, <1>1, PTL DEF Spec

\* However conferrals of one enrolment overlap, one of them inserts the award: the
\* index refuses the others (award_enrolment_current_unique).
THEOREM AwardsAreUnique == Spec => []OneAwardPerEnrolment
<1>1. ASSUME AwardInv, TypeInv PROVE OneAwardPerEnrolment
  <2> SUFFICES ASSUME NEW e \in Enrolments PROVE Cardinality(AwardsOf(e)) <= 1
    BY DEF OneAwardPerEnrolment
  <2>1. e # Absent
    BY AbsentAssumption
  <2>2. \A a, b \in AwardsOf(e) : a = b
    BY <1>1, <2>1 DEF AwardInv, AwardsOf
  <2>3. CASE AwardsOf(e) = {}
    BY <2>3, FS_EmptySet
  <2>4. CASE AwardsOf(e) # {}
    <3>1. PICK a : a \in AwardsOf(e)
      BY <2>4
    <3>2. AwardsOf(e) = {a}
      BY <2>2, <3>1
    <3> QED  BY <3>2, FS_Singleton
  <2> QED  BY <2>3, <2>4
<1> QED  BY AwardInvariant, TypeInvariant, <1>1, PTL

\* No award is announced that is not on record, nor for an enrolment that has not
\* graduated, unless the graduation was overlapped by another change (conferAward).
THEOREM AnnouncementsComeLast == Spec => []AnnouncedAwardsGraduated
<1>1. AwardInv => AnnouncedAwardsGraduated
  BY DEF AwardInv, AnnouncedAwardsGraduated, Graduated
<1> QED  BY AwardInvariant, <1>1, PTL

===============================================================================
