-------------------------- MODULE LoanSettledProofs --------------------------
(***************************************************************************)
(* A loan that counts as paid owes nothing, and stays paid, for any        *)
(* schedule, payments, processes and bounds, as long as no save has undone *)
(* what another payment saved.                                             *)
(*                                                                         *)
(* What could go wrong is a penalty: the sweep may charge an installment   *)
(* while the payment that settles the loan is on its way.  The invariant   *)
(* follows the installments under threat of a penalty: those that the next *)
(* sweep would charge, and those that a sweep underway has set out to.     *)
(* Payments go to the installments in their order, so a threatened one is  *)
(* paid only after all before it; and a payment that finds the loan        *)
(* settled has saved, and holds, every installment under threat.           *)
(***************************************************************************)
EXTENDS LoanServicingProofs

RowSettled(sch, i) == \A s \in Slot : s[1] = i => sch.paid[s] >= sch.expected[s]
RowPaid(sch, i) == \E s \in Slot : s[1] = i /\ sch.paid[s] > 0
AllSettled(sch) == \A s \in Slot : sch.paid[s] >= sch.expected[s]

\* The schedule with the rows that a request has saved is settled.
SettledBy(j, sch) ==
    \A s \in Slot : IF s[1] \in j.writes THEN j.rows.paid[s] >= j.rows.expected[s]
                    ELSE sch.paid[s] >= sch.expected[s]

\* Charged, with the ages of the installments named.
Ripe(ages, sch) ==
    {i \in Row : Charge > 0 /\ ages[i] >= 2 /\ sch.expected[<<i, "penalty">>] = 0
                 /\ ~RowPaid(sch, i)}

\* What a sweep is about to charge.
Pending(j, ages) ==
    IF j.kind # "sweep" THEN {}
    ELSE IF j.step = "write" /\ j.since # "replaced" THEN Ripe(ages, j.rows)
    ELSE IF j.step \in {"total", "save"} THEN j.charges
    ELSE {}

Threat(sch, ages, jobs) == Ripe(ages, sch) \cup UNION {Pending(jobs[v], ages) : v \in Workers}

\* A sweep charges whatever is left to charge; one that took the loan for
\* settled finds nothing to charge.
SweepFits(j, sch, ages) ==
    /\ j.step = "write" /\ j.since # "replaced" =>
          \A s \in Slot : j.rows.paid[s] <= sch.paid[s]
    /\ j.step \in {"write", "total", "save"} => Ripe(ages, sch) \subseteq Pending(j, ages)
    /\ j.step = "save" /\ ~Owes(j.due) => SettledBy(j, sch)
    /\ j.step \in {"read", "write", "total", "save"} /\ j.status \in Settled =>
          /\ AllSettled(sch)
          /\ Pending(j, ages) = {}
          /\ j.step = "save" => ~Owes(j.due)

\* A payment that nobody has overtaken settles the installments before the last
\* one it comes by, unless a penalty was charged since it read them; then none
\* is under threat.
PaymentFits(j, sch, threat) ==
    /\ j.step = "write" =>
          threat = {} \/ \A s \in Slot : j.rows.expected[s] = sch.expected[s]
    /\ j.step \in {"total", "save"} =>
          \E last \in Row :
              /\ j.writes = 1..last
              /\ \E s \in Slot : s[1] = last /\ j.taken[s] > 0
              /\ threat = {} \/ \A i \in 1..last-1 : RowSettled(j.rows, i)
    /\ j.step = "save" /\ ~Owes(j.due) => SettledBy(j, sch) /\ threat \subseteq j.writes

Fits(j, sch, ages, threat) ==
    /\ j.step = "look" => j.kind = "sweep"
    /\ j.step \in {"idle", "look", "read"} => j.since = "nothing"
    /\ j.kind = "sweep" => SweepFits(j, sch, ages)
    /\ j.kind \in Payer /\ j.since = "nothing" => PaymentFits(j, sch, threat)
    /\ j.kind \in {"restructure", "write off", "disburse"} => j.status \notin Settled

InOrder(sch, threat) ==
    \A k \in threat : RowPaid(sch, k) => \A i \in 1..k-1 : RowSettled(sch, i)

LoanFits(ln, sch) == ln.status \in Settled => AllSettled(sch) /\ ~Owes(ln.due)

PrincipalDue == \A s \in Slot : s[2] = "principal" => schedule.expected[s] > 0

Orderly ==
    /\ LoanFits(loan, schedule)
    /\ InOrder(schedule, Threat(schedule, age, work))
    /\ \A w \in Workers : Fits(work[w], schedule, age, Threat(schedule, age, work))

SInv == PrincipalDue /\ (~lost => Orderly)

-----------------------------------------------------------------------------
(* The schedule.                                                           *)

LEMMA SlotFacts ==
  /\ \A i \in Row : <<i, "penalty">> \in Slot /\ <<i, "interest">> \in Slot
                    /\ <<i, "principal">> \in Slot
  /\ \A s \in Slot : s[1] \in Row /\ s[2] \in Component /\ s = <<s[1], s[2]>>
  /\ Row \subseteq Nat \ {0} /\ 1 \in Row
<1>1. Row \subseteq Nat \ {0} /\ 1 \in Row
  BY LoanAssumption DEF Row
<1>2. \A i \in Row : <<i, "penalty">> \in Slot /\ <<i, "interest">> \in Slot
                     /\ <<i, "principal">> \in Slot
  BY DEF Slot, Component
<1>3. \A s \in Slot : s[1] \in Row /\ s[2] \in Component /\ s = <<s[1], s[2]>>
  BY DEF Slot
<1> QED
  BY <1>1, <1>2, <1>3

\* Every installment expects principal.
Lending(sch) == \A s \in Slot : s[2] = "principal" => sch.expected[s] > 0

LEMMA PaidIffSlots ==
  ASSUME NEW sch \in Schedule, NEW i \in Row
  PROVE  RowPaid(sch, i) <=> \/ sch.paid[<<i, "penalty">>] > 0
                             \/ sch.paid[<<i, "interest">>] > 0
                             \/ sch.paid[<<i, "principal">>] > 0
<1>1. \A s \in Slot : s[1] = i => s \in {<<i, "penalty">>, <<i, "interest">>, <<i, "principal">>}
  BY SlotFacts DEF Component
<1>2. /\ <<i, "penalty">>[1] = i /\ <<i, "interest">>[1] = i /\ <<i, "principal">>[1] = i
      /\ <<i, "penalty">> \in Slot /\ <<i, "interest">> \in Slot /\ <<i, "principal">> \in Slot
  BY SlotFacts
<1> QED
  BY <1>1, <1>2 DEF RowPaid

\* The sweep charges the installments that are ripe.
LEMMA ChargedAreRipe ==
  ASSUME NEW sch \in Schedule, Lending(sch), age \in [Row -> 0..MaxAge]
  PROVE  Charged(sch) = Ripe(age, sch)
<1>1. ASSUME NEW i \in Row
      PROVE  Chargeable(sch, i) <=>
                 /\ Charge > 0 /\ age[i] >= 2 /\ sch.expected[<<i, "penalty">>] = 0
                 /\ ~RowPaid(sch, i)
  <2> DEFINE p == sch.paid[<<i, "penalty">>]   q == sch.expected[<<i, "penalty">>]
             m == sch.paid[<<i, "interest">>]  n == sch.expected[<<i, "interest">>]
             x == sch.paid[<<i, "principal">>] y == sch.expected[<<i, "principal">>]
             a == age[i]
  <2>1. p \in Nat /\ m \in Nat /\ x \in Nat /\ q \in Nat /\ n \in Nat /\ y \in Nat
    BY SlotFacts DEF Schedule
  <2>2. y > 0
    BY SlotFacts DEF Lending
  <2>3. a \in Int
    BY LoanAssumption
  <2>4. StatusOf(sch, sch.paid, i) = IF p + m + x >= q + n + y THEN "PAID"
                                     ELSE IF p + m + x > 0 THEN "PARTIAL"
                                     ELSE IF a >= 1 THEN "OVERDUE" ELSE "DUE"
    BY DEF StatusOf
  <2>5. RowPaid(sch, i) <=> p > 0 \/ m > 0 \/ x > 0
    BY PaidIffSlots
  <2>6. Chargeable(sch, i) <=> StatusOf(sch, sch.paid, i) = "OVERDUE" /\ a >= 2 /\ q = 0 /\ Charge > 0
    BY DEF Chargeable
  <2> HIDE DEF p, q, m, n, x, y, a
  <2>7. a >= 2 => (StatusOf(sch, sch.paid, i) = "OVERDUE" <=> ~RowPaid(sch, i))
    BY <2>1, <2>2, <2>3, <2>4, <2>5
  <2> QED
    BY <2>6, <2>7 DEF a, q
<1> QED
  BY <1>1 DEF Charged, Ripe

\* A settled installment has been paid, and so is not ripe.
LEMMA SettledIsPaid ==
  ASSUME NEW sch \in Schedule, Lending(sch)
  PROVE  /\ \A i \in Row : RowSettled(sch, i) => RowPaid(sch, i)
         /\ AllSettled(sch) => \A i \in Row : RowSettled(sch, i)
         /\ AllSettled(sch) => \A ages : Ripe(ages, sch) = {}
<1>1. ASSUME NEW i \in Row, RowSettled(sch, i) PROVE RowPaid(sch, i)
  <2>1. <<i, "principal">> \in Slot /\ <<i, "principal">>[1] = i /\ <<i, "principal">>[2] = "principal"
    BY SlotFacts
  <2>2. /\ sch.paid[<<i, "principal">>] >= sch.expected[<<i, "principal">>]
        /\ sch.expected[<<i, "principal">>] > 0
    BY <1>1, <2>1 DEF RowSettled, Lending
  <2>3. sch.paid[<<i, "principal">>] \in Nat /\ sch.expected[<<i, "principal">>] \in Nat
    BY <2>1 DEF Schedule
  <2>4. sch.paid[<<i, "principal">>] > 0
    BY <2>2, <2>3
  <2> QED
    BY <2>1, <2>4 DEF RowPaid
<1>2. AllSettled(sch) => \A i \in Row : RowSettled(sch, i)
  BY DEF AllSettled, RowSettled
<1>3. AllSettled(sch) => \A ages : Ripe(ages, sch) = {}
  BY <1>1, <1>2 DEF Ripe
<1> QED
  BY <1>1, <1>2, <1>3

\* What is owed is nothing exactly when all is settled.
LEMMA OwesNothing ==
  ASSUME NEW sch \in Schedule
  PROVE  ~Owes(Owed(sch)) <=> AllSettled(sch)
<1>1. ASSUME NEW s \in Slot
      PROVE  Owed(sch)[s] > 0 <=> ~(sch.paid[s] >= sch.expected[s])
  <2>1. sch.paid[s] \in Nat /\ sch.expected[s] \in Nat
    BY DEF Schedule
  <2>2. Owed(sch)[s] = IF sch.paid[s] < sch.expected[s] THEN sch.expected[s] - sch.paid[s] ELSE 0
    BY DEF Owed
  <2> QED
    BY <2>1, <2>2
<1> QED
  BY <1>1 DEF Owes, AllSettled

LEMMA SettledByMerged ==
  ASSUME NEW job \in Job, schedule \in Schedule
  PROVE  SettledBy(job, schedule) <=> AllSettled(Merged(job))
<1>1. ASSUME NEW s \in Slot
      PROVE  Merged(job).paid[s] >= Merged(job).expected[s] <=>
                 IF s[1] \in job.writes THEN job.rows.paid[s] >= job.rows.expected[s]
                 ELSE schedule.paid[s] >= schedule.expected[s]
  BY MergedFacts
<1> QED
  BY <1>1 DEF SettledBy, AllSettled

\* A payment settles all installments before the last one it comes by.
LEMMA AllocationsInOrder ==
  ASSUME NEW rows \in Schedule, NEW amount \in Nat, NEW taken \in Allocations(rows, amount)
  PROVE  \E last \in Row :
            /\ Visited(taken) = 1..last
            /\ \E s \in Slot : s[1] = last /\ taken[s] > 0
            /\ \A s \in Slot : s[1] < last => taken[s] = Owed(rows)[s]
<1> DEFINE owed == Owed(rows)
<1>1. owed \in [Slot -> Nat]
  BY OwedType
<1>2. PICK p \in Slot \X (1..amount) : p[2] <= owed[p[1]] /\ taken = UpTo(owed, p[1], p[2])
  BY DEF Allocations
<1>3. p[1] \in Slot /\ p[2] \in Nat /\ p[2] > 0
  BY <1>2
<1> HIDE DEF owed
<1> DEFINE last == p[1][1]
<1>4. \A t \in Slot : taken[t] = IF Before(t, p[1]) THEN owed[t] ELSE IF t = p[1] THEN p[2] ELSE 0
  BY <1>2 DEF UpTo
<1>5. last \in Row /\ last \in Nat /\ p[1][2] \in Component
  BY <1>3, SlotFacts
<1>6. \A s \in Slot : s[1] \in Nat
  BY SlotFacts
<1>7. Rank(p[1][2]) \in Int
  BY <1>5 DEF Rank, Component
<1>8. ~Before(p[1], p[1])
  BY <1>5, <1>7 DEF Before
<1>9. taken[p[1]] > 0
  BY <1>3, <1>4, <1>8
<1>10. \A s \in Slot : s[1] < last => taken[s] = owed[s]
  BY <1>4 DEF Before
<1>11. ASSUME NEW s \in Slot, s[1] > last PROVE taken[s] = 0
  <2>1. s # p[1] /\ ~(s[1] < last) /\ s[1] # last
    BY <1>5, <1>6, <1>11
  <2> QED
    BY <1>4, <2>1 DEF Before
<1>12. ASSUME NEW i \in Row PROVE i \in Visited(taken) <=> i <= last
  <2>1. i \in Nat
    BY SlotFacts
  <2>2. i <= last => \E s \in Slot : s[1] >= i /\ taken[s] > 0
    BY <1>3, <1>5, <1>9, <2>1
  <2>3. ASSUME NEW s \in Slot, s[1] >= i, taken[s] > 0 PROVE i <= last
    <3>1. s[1] \in Nat
      BY <1>6
    <3>2. ~(s[1] > last)
      BY <1>11, <2>3
    <3> QED
      BY <1>5, <2>1, <2>3, <3>1, <3>2
  <2> QED
    BY <2>2, <2>3 DEF Visited
<1>13. Visited(taken) = 1..last
  <2>1. Visited(taken) \subseteq Row
    BY DEF Visited
  <2>2. \A i \in 1..last : i \in Row /\ i <= last
    BY <1>5, LoanAssumption DEF Row
  <2>3. \A i \in Row : i <= last => i \in 1..last
    BY <1>5, LoanAssumption DEF Row
  <2> QED
    BY <1>12, <2>1, <2>2, <2>3
<1> QED
  BY <1>3, <1>5, <1>9, <1>10, <1>13 DEF owed

-----------------------------------------------------------------------------
(* What is true of a request stays true when others pay.                   *)

\* More is paid, and the same is expected.
PaidMore(sch, new) ==
    \A s \in Slot : sch.paid[s] <= new.paid[s] /\ new.expected[s] = sch.expected[s]

LEMMA PaidMoreFacts ==
  ASSUME NEW sch \in Schedule, NEW new \in Schedule, PaidMore(sch, new)
  PROVE  /\ \A s \in Slot : sch.paid[s] >= sch.expected[s] => new.paid[s] >= new.expected[s]
         /\ AllSettled(sch) => AllSettled(new)
         /\ \A i : RowSettled(sch, i) => RowSettled(new, i)
         /\ \A i : RowPaid(sch, i) => RowPaid(new, i)
         /\ \A ages : Ripe(ages, new) \subseteq Ripe(ages, sch)
         /\ \A j : SettledBy(j, sch) => SettledBy(j, new)
<1>1. ASSUME NEW s \in Slot
      PROVE  /\ sch.paid[s] >= sch.expected[s] => new.paid[s] >= new.expected[s]
             /\ sch.paid[s] > 0 => new.paid[s] > 0
  <2>1. /\ sch.paid[s] \in Nat /\ sch.expected[s] \in Nat
        /\ new.paid[s] \in Nat /\ new.expected[s] \in Nat
    BY DEF Schedule
  <2>2. sch.paid[s] <= new.paid[s] /\ new.expected[s] = sch.expected[s]
    BY DEF PaidMore
  <2> QED
    BY <2>1, <2>2
<1>2. AllSettled(sch) => AllSettled(new)
  BY <1>1 DEF AllSettled
<1>3. \A i : RowSettled(sch, i) => RowSettled(new, i)
  BY <1>1 DEF RowSettled
<1>4. \A i : RowPaid(sch, i) => RowPaid(new, i)
  BY <1>1 DEF RowPaid
<1>5. ASSUME NEW ages, NEW i \in Ripe(ages, new) PROVE i \in Ripe(ages, sch)
  <2>1. i \in Row /\ <<i, "penalty">> \in Slot
    BY SlotFacts DEF Ripe
  <2> QED
    BY <1>4, <2>1 DEF Ripe, PaidMore
<1>6. \A j : SettledBy(j, sch) => SettledBy(j, new)
  BY <1>1 DEF SettledBy
<1> QED
  BY <1>1, <1>2, <1>3, <1>4, <1>5, <1>6

LEMMA PaymentStillFits ==
  ASSUME NEW sch \in Schedule, NEW new \in Schedule, PaidMore(sch, new),
         NEW threat, NEW less, less \subseteq threat,
         NEW j, PaymentFits(j, sch, threat)
  PROVE  PaymentFits(j, new, less)
<1>1. j.step = "write" => less = {} \/ \A s \in Slot : j.rows.expected[s] = new.expected[s]
  BY DEF PaymentFits, PaidMore
<1>2. j.step \in {"total", "save"} =>
          \E last \in Row :
              /\ j.writes = 1..last
              /\ \E s \in Slot : s[1] = last /\ j.taken[s] > 0
              /\ less = {} \/ \A i \in 1..last-1 : RowSettled(j.rows, i)
  BY DEF PaymentFits
<1>3. j.step = "save" /\ ~Owes(j.due) => SettledBy(j, new) /\ less \subseteq j.writes
  BY PaidMoreFacts DEF PaymentFits
<1> QED
  BY <1>1, <1>2, <1>3 DEF PaymentFits

LEMMA SweepStillFits ==
  ASSUME NEW sch \in Schedule, NEW new \in Schedule, PaidMore(sch, new),
         NEW ages, NEW j \in Job, SweepFits(j, sch, ages)
  PROVE  SweepFits(j, new, ages)
<1>1. ASSUME NEW s \in Slot, j.rows.paid[s] <= sch.paid[s] PROVE j.rows.paid[s] <= new.paid[s]
  <2>1. j.rows.paid[s] \in Nat /\ sch.paid[s] \in Nat /\ new.paid[s] \in Nat
    BY DEF Schedule, Job
  <2>2. sch.paid[s] <= new.paid[s]
    BY DEF PaidMore
  <2> QED
    BY <1>1, <2>1, <2>2
<1>2. Ripe(ages, new) \subseteq Ripe(ages, sch)
  BY PaidMoreFacts
<1>3. AllSettled(sch) => AllSettled(new)
  BY PaidMoreFacts
<1>4. SettledBy(j, sch) => SettledBy(j, new)
  BY PaidMoreFacts
<1> QED
  BY <1>1, <1>2, <1>3, <1>4 DEF SweepFits

LEMMA StillFits ==
  ASSUME NEW sch \in Schedule, NEW new \in Schedule, PaidMore(sch, new),
         NEW threat, NEW less, less \subseteq threat,
         NEW ages, NEW j \in Job, Fits(j, sch, ages, threat)
  PROVE  Fits(j, new, ages, less)
<1>1. j.kind = "sweep" => SweepFits(j, new, ages)
  BY SweepStillFits DEF Fits
<1>2. j.kind \in Payer /\ j.since = "nothing" => PaymentFits(j, new, less)
  BY PaymentStillFits DEF Fits
<1> QED
  BY <1>1, <1>2 DEF Fits

LEMMA PaidTheSame ==
  ASSUME NEW sch \in Schedule PROVE PaidMore(sch, sch)
BY DEF Schedule, PaidMore

\* A process that does nothing threatens nothing.
LEMMA IdleIsHarmless ==
  \A sch, ages, threat : Fits(Idle, sch, ages, threat) /\ Pending(Idle, ages) = {}
<1>1. Idle.kind = None /\ Idle.step = "idle" /\ Idle.since = "nothing"
  BY DEF Idle
<1>2. None \notin Payer \cup {"sweep", "restructure", "write off", "disburse"}
  BY LoanAssumption DEF Payer, Kind
<1> QED
  BY <1>1, <1>2 DEF Fits, Pending

-----------------------------------------------------------------------------
(* Requests that go on.  The loan may change, the schedule does not.       *)

Threatened == Threat(schedule, age, work)

LEMMA Steady ==
  ASSUME IInv, Orderly, NEW w \in Workers, NEW j \in Job,
         work' = [work EXCEPT ![w] = j], UNCHANGED <<schedule, age>>,
         Pending(j, age) \subseteq Threatened,
         Fits(j, schedule, age, Threatened),
         LoanFits(loan', schedule)
  PROVE  Orderly'
<1> DEFINE before == Threat(schedule, age, work)
           after == Threat(schedule, age, work')
<1>0. work \in [Workers -> Job] /\ schedule \in Schedule
  BY DEF IInv, TypeOK
<1>1. \A v \in Workers : work'[v] = IF v = w THEN j ELSE work[v]
  BY <1>0
<1>2. after \subseteq before
  <2>1. \A v \in Workers : Pending(work'[v], age) \subseteq before
    BY <1>1 DEF Threat, Threatened
  <2> QED
    BY <2>1 DEF Threat
<1>3. \A v \in Workers : work'[v] \in Job /\ Fits(work'[v], schedule, age, before)
  BY <1>0, <1>1 DEF Orderly, Threatened
<1>4. InOrder(schedule, after)
  BY <1>2 DEF Orderly, InOrder
<1> HIDE DEF before, after
<1>5. \A v \in Workers : Fits(work'[v], schedule, age, after)
  BY <1>0, <1>2, <1>3, PaidTheSame, StillFits
<1>6. \A v \in Workers : Fits(work'[v], schedule', age', Threat(schedule', age', work'))
  BY <1>5 DEF after
<1>7. LoanFits(loan', schedule') /\ InOrder(schedule', Threat(schedule', age', work'))
  BY <1>4 DEF after
<1> QED
  BY <1>6, <1>7 DEF Orderly

LEMMA RollBackOrderly ==
  ASSUME IInv, Orderly, NEW w \in Workers, RollBack(w), UNCHANGED <<schedule, age>>,
         LoanFits(loan', schedule)
  PROVE  Orderly'
BY Steady, IdleIsHarmless, ConstantTypes DEF RollBack

\* A request that has read nothing yet, or that does not touch the schedule.
LEMMA BeginOrderly ==
  ASSUME IInv, Orderly, NEW w \in Workers, NEW job \in Job, Begin(w, job),
         job.since = "nothing",
         \/ job.step = "read" /\ job.kind \in Payer
         \/ job.step = "look" /\ job.kind = "sweep"
         \/ job.step \in {"read", "save"} /\ job.kind \in {"restructure", "disburse"}
            /\ loan.status \notin Settled
  PROVE  Orderly'
<1> DEFINE j == [job EXCEPT !.status = loan.status, !.defaulted = loan.defaulted]
<1>1. loan.status \in LoanStatus /\ loan.defaulted \in BOOLEAN
  BY DEF IInv, TypeOK, Loan
<1>2. j \in Job
  BY <1>1 DEF Job
<1>3. /\ j.status = loan.status /\ j.step = job.step /\ j.kind = job.kind
      /\ j.since = "nothing"
  BY DEF Job
<1>4. work' = [work EXCEPT ![w] = j] /\ UNCHANGED <<loan, schedule, age>>
  BY DEF Begin
<1> HIDE DEF j
<1>5. Pending(j, age) = {}
  BY <1>3 DEF Pending, Payer
<1>6. Fits(j, schedule, age, Threatened)
  <2>1. CASE job.step = "read" /\ job.kind \in Payer
    <3>1. PaymentFits(j, schedule, Threatened)
      BY <1>3, <2>1 DEF PaymentFits
    <3> QED
      BY <1>3, <2>1, <3>1 DEF Fits, Payer
  <2>2. CASE job.step = "look" /\ job.kind = "sweep"
    <3>1. SweepFits(j, schedule, age)
      BY <1>3, <2>2 DEF SweepFits
    <3> QED
      BY <1>3, <2>2, <3>1 DEF Fits, Payer
  <2>3. CASE job.step \in {"read", "save"} /\ job.kind \in {"restructure", "disburse"}
             /\ loan.status \notin Settled
    BY <1>3, <2>3 DEF Fits, Payer
  <2> QED
    BY <2>1, <2>2, <2>3
<1>7. LoanFits(loan', schedule)
  BY <1>4 DEF Orderly
<1> QED
  BY <1>2, <1>4, <1>5, <1>6, <1>7, Steady

LEMMA BeginPaymentOrderly ==
  ASSUME IInv, Orderly, NEW w \in Workers,
         \/ \E kind \in {"desk", "mpesa"}, r \in Receipts, a \in Amounts :
               BeginRepayment(w, kind, r, a)
         \/ \E a \in Amounts : BeginOffset(w, a)
  PROVE  Orderly'
<1>1. PICK kind \in Payer, r \in Receipts \cup {Offset}, a \in Amounts :
         Begin(w, [Idle EXCEPT !.kind = kind, !.step = "read", !.receipt = r, !.amount = a])
  BY DEF BeginRepayment, BeginOffset, Payer
<1> DEFINE job == [Idle EXCEPT !.kind = kind, !.step = "read", !.receipt = r, !.amount = a]
<1>2. job \in Job
  <2>1. Idle \in Job /\ kind \in Kind \cup {None} /\ "read" \in Step /\ a \in Nat
    BY ConstantTypes, LoanAssumption DEF Kind, Step, Payer
  <2> QED
    BY <2>1 DEF Job
<1>3. job.since = "nothing" /\ job.step = "read" /\ job.kind = kind
  BY DEF Idle
<1>4. Begin(w, job)
  BY <1>1
<1> HIDE DEF job
<1> QED
  BY <1>2, <1>3, <1>4, BeginOrderly

LEMMA BeginSweepOrderly ==
  ASSUME IInv, Orderly, NEW w \in Workers, BeginSweep(w)
  PROVE  Orderly'
<1> DEFINE job == [Idle EXCEPT !.kind = "sweep", !.step = "look"]
<1>1. job \in Job
  BY ConstantTypes DEF Job, Kind, Step
<1>2. job.since = "nothing" /\ job.step = "look" /\ job.kind = "sweep"
  BY DEF Idle
<1>3. Begin(w, job)
  BY DEF BeginSweep
<1> HIDE DEF job
<1> QED
  BY <1>1, <1>2, <1>3, BeginOrderly

\* While nothing is paid, the loan is not settled.
LEMMA UnpaidIsUnsettled ==
  ASSUME IInv, PrincipalDue, ~lost, posted = {}
  PROVE  ~AllSettled(schedule)
<1>1. received = Nothing /\ \A s \in Slot : received[s] = schedule.paid[s]
  BY DEF IInv, Sound, NothingYet, BooksFollowSchedule
<1>2. \A s \in Slot : schedule.paid[s] = 0
  BY <1>1 DEF Nothing
<1>3. <<1, "principal">> \in Slot /\ <<1, "principal">>[2] = "principal"
  BY SlotFacts
<1>4. schedule.expected[<<1, "principal">>] > 0 /\ schedule.expected[<<1, "principal">>] \in Nat
  BY <1>3 DEF PrincipalDue, IInv, TypeOK, Schedule
<1>5. ~(schedule.paid[<<1, "principal">>] >= schedule.expected[<<1, "principal">>])
  BY <1>2, <1>3, <1>4
<1> QED
  BY <1>3, <1>5 DEF AllSettled

LEMMA BeginRestructureOrderly ==
  ASSUME IInv, PrincipalDue, ~lost, Orderly, NEW w \in Workers, BeginRestructure(w)
  PROVE  Orderly'
<1> DEFINE job == [Idle EXCEPT !.kind = "restructure", !.step = "read"]
<1>1. job \in Job
  BY ConstantTypes DEF Job, Kind, Step
<1>2. job.since = "nothing" /\ job.step = "read" /\ job.kind = "restructure"
  BY DEF Idle
<1>3. Begin(w, job) /\ posted = {}
  BY DEF BeginRestructure, Unpaid
<1>4. loan.status \notin Settled
  BY <1>3, UnpaidIsUnsettled DEF Orderly, LoanFits
<1> HIDE DEF job
<1> QED
  BY <1>1, <1>2, <1>3, <1>4, BeginOrderly

LEMMA BeginDisbursementOrderly ==
  ASSUME IInv, Orderly, NEW w \in Workers, BeginDisbursement(w)
  PROVE  Orderly'
<1> DEFINE job == [Idle EXCEPT !.kind = "disburse", !.step = "save"]
<1>1. job \in Job
  BY ConstantTypes DEF Job, Kind, Step
<1>2. job.since = "nothing" /\ job.step = "save" /\ job.kind = "disburse"
  BY DEF Idle
<1>3. Begin(w, job) /\ loan.status \notin Settled
  BY DEF BeginDisbursement, Settled
<1> HIDE DEF job
<1> QED
  BY <1>1, <1>2, <1>3, BeginOrderly

\* A loan that is written off owes something, and so is not settled.
LEMMA BeginWriteOffOrderly ==
  ASSUME IInv, Orderly, NEW w \in Workers, BeginWriteOff(w)
  PROVE  Orderly'
<1> DEFINE j == [Idle EXCEPT !.kind = "write off", !.step = "save", !.status = loan.status]
<1>1. loan.status \in LoanStatus
  BY DEF IInv, TypeOK, Loan
<1>2. j \in Job
  BY <1>1, ConstantTypes DEF Job, Kind, Step
<1>3. j.status = loan.status /\ j.step = "save" /\ j.kind = "write off" /\ j.since = "nothing"
  BY DEF Idle
<1>4. work' = [work EXCEPT ![w] = j] /\ UNCHANGED <<loan, schedule, age>> /\ Owes(loan.due)
  BY DEF BeginWriteOff
<1>5. loan.status \notin Settled /\ LoanFits(loan', schedule)
  BY <1>4 DEF Orderly, LoanFits
<1> HIDE DEF j
<1>6. Pending(j, age) = {} /\ Fits(j, schedule, age, Threatened)
  BY <1>3, <1>5 DEF Pending, Fits, Payer
<1> QED
  BY <1>2, <1>4, <1>5, <1>6, Steady

LEMMA LookOrderly ==
  ASSUME IInv, Orderly, NEW w \in Workers, Look(w)
  PROVE  Orderly'
<1> DEFINE j == [work[w] EXCEPT !.step = "read", !.status = loan.status,
                                !.defaulted = loan.defaulted]
<1>1. work[w] \in Job /\ loan.status \in LoanStatus /\ loan.defaulted \in BOOLEAN
  BY DEF IInv, TypeOK, Loan
<1>2. j \in Job
  BY <1>1 DEF Job, Step
<1>3. j.step = "read" /\ j.kind = work[w].kind /\ j.status = loan.status
      /\ j.since = work[w].since
  BY <1>1 DEF Job
<1>4. work' = [work EXCEPT ![w] = j] /\ UNCHANGED <<loan, schedule, age>>
      /\ work[w].step = "look"
  BY DEF Look, At
<1>5. j.kind = "sweep" /\ j.since = "nothing"
  BY <1>3, <1>4 DEF Orderly, Fits
<1> HIDE DEF j
<1>6. Pending(j, age) = {}
  BY <1>3, <1>5 DEF Pending
<1>7. LoanFits(loan, schedule)
  BY DEF Orderly
<1>8. SweepFits(j, schedule, age)
  BY <1>3, <1>6, <1>7 DEF SweepFits, LoanFits
<1>9. Fits(j, schedule, age, Threatened)
  BY <1>3, <1>5, <1>8 DEF Fits, Payer
<1> QED
  BY <1>2, <1>4, <1>6, <1>7, <1>9, Steady

LEMMA ReadScheduleOrderly ==
  ASSUME IInv, PrincipalDue, Orderly, NEW w \in Workers, ReadSchedule(w)
  PROVE  Orderly'
<1>0. UNCHANGED <<loan, schedule, age>> /\ LoanFits(loan', schedule)
  BY DEF ReadSchedule, Orderly
<1>1. CASE RollBack(w)
  BY <1>0, <1>1, RollBackOrderly
<1>2. CASE work' = [work EXCEPT ![w].step = "write", ![w].rows = schedule]
  <2> DEFINE j == [work[w] EXCEPT !.step = "write", !.rows = schedule]
  <2>1. work[w] \in Job /\ schedule \in Schedule
    BY DEF IInv, TypeOK
  <2>2. j \in Job
    BY <2>1 DEF Job, Step
  <2>3. /\ j.step = "write" /\ j.kind = work[w].kind /\ j.rows = schedule
        /\ j.since = work[w].since /\ j.status = work[w].status
    BY <2>1 DEF Job
  <2>4. work' = [work EXCEPT ![w] = j]
    BY <1>2
  <2>5. Fits(work[w], schedule, age, Threatened)
    BY DEF Orderly, Threatened
  <2>6. work[w].step = "read" /\ work[w].kind \in Payer \cup {"sweep"}
    BY DEF ReadSchedule, Is, At
  <2>7. j.since = "nothing"
    BY <2>3, <2>5, <2>6 DEF Fits
  <2> HIDE DEF j
  <2>8. CASE j.kind \in Payer
    <3>1. Pending(j, age) = {}
      BY <2>8 DEF Pending, Payer
    <3>2. PaymentFits(j, schedule, Threatened)
      BY <2>3 DEF PaymentFits
    <3>3. Fits(j, schedule, age, Threatened)
      BY <2>3, <2>8, <3>2 DEF Fits, Payer
    <3> QED
      BY <1>0, <2>2, <2>4, <3>1, <3>3, Steady
  <2>9. CASE j.kind = "sweep"
    <3>1. Pending(j, age) = Ripe(age, schedule)
      BY <2>3, <2>7, <2>9 DEF Pending
    <3>2. \A s \in Slot : j.rows.paid[s] <= schedule.paid[s]
      BY <2>1, <2>3 DEF Schedule
    <3>3. j.status \in Settled => AllSettled(schedule) /\ Ripe(age, schedule) = {}
      <4>1. j.status \in Settled => AllSettled(schedule)
        BY <2>3, <2>5, <2>6, <2>9 DEF Fits, SweepFits
      <4>2. Lending(schedule)
        BY DEF PrincipalDue, Lending
      <4> QED
        BY <2>1, <4>1, <4>2, SettledIsPaid
    <3>4. SweepFits(j, schedule, age)
      BY <2>3, <3>1, <3>2, <3>3 DEF SweepFits
    <3>5. Fits(j, schedule, age, Threatened)
      BY <2>3, <2>9, <3>4 DEF Fits, Payer
    <3>6. Pending(j, age) \subseteq Threatened
      BY <3>1 DEF Threatened, Threat
    <3> QED
      BY <1>0, <2>2, <2>4, <3>5, <3>6, Steady
  <2> QED
    BY <2>3, <2>6, <2>8, <2>9
<1> QED
  BY <1>1, <1>2 DEF ReadSchedule

\* A payment spreads over what it has read.
LEMMA ApplyOrderly ==
  ASSUME IInv, Orderly, NEW w \in Workers, Apply(w)
  PROVE  Orderly'
<1> DEFINE job == work[w]
           fits == Allocations(job.rows, job.amount)
<1>0. UNCHANGED <<loan, schedule, age>> /\ LoanFits(loan', schedule)
  BY DEF Apply, Orderly
<1>1. CASE Gone(job) \/ fits = {} \/ job.receipt \in posted
  BY <1>0, <1>1, RollBackOrderly DEF Apply
<1>2. CASE ~(Gone(job) \/ fits = {} \/ job.receipt \in posted)
  <2>1. PICK taken \in fits :
           work' = [work EXCEPT ![w] =
               [job EXCEPT !.step = "total", !.amount = 0, !.taken = taken,
                           !.rows = Credited(job.rows, taken), !.writes = Visited(taken)]]
    BY <1>2 DEF Apply
  <2> DEFINE rows == Credited(job.rows, taken)
             j == [job EXCEPT !.step = "total", !.amount = 0, !.taken = taken,
                              !.rows = rows, !.writes = Visited(taken)]
  <2>2. /\ job \in Job /\ schedule \in Schedule
        /\ job.rows \in Schedule /\ job.amount \in Nat
    BY DEF IInv, TypeOK, Job
  <2>3. job.step = "write" /\ job.kind \in Payer
    BY DEF Apply, At, Is
  <2>4. taken \in [Slot -> Nat] /\ Visited(taken) \subseteq Row
    BY <2>2, AllocationsFit
  <2>5. /\ rows \in Schedule /\ rows.expected = schedule.expected
        /\ \A s \in Slot : s[1] \in Visited(taken) => rows.paid[s] = job.rows.paid[s] + taken[s]
    BY <2>2, <2>4, CreditedFacts
  <2>6. PICK last \in Row :
            /\ Visited(taken) = 1..last
            /\ \E s \in Slot : s[1] = last /\ taken[s] > 0
            /\ \A s \in Slot : s[1] < last => taken[s] = Owed(job.rows)[s]
    BY <2>2, AllocationsInOrder
  <2> HIDE DEF rows
  <2>7. j \in Job
    BY <2>2, <2>4, <2>5 DEF Job, Step
  <2>8. /\ j.writes = Visited(taken) /\ j.step = "total" /\ j.kind = job.kind
        /\ j.rows = rows /\ j.taken = taken /\ j.since = job.since
    BY <2>2 DEF Job
  <2>9. work' = [work EXCEPT ![w] = j]
    BY <2>1 DEF rows
  <2>10. Fits(job, schedule, age, Threatened)
    BY DEF Orderly, Threatened
  <2> HIDE DEF j
  <2>11. ASSUME \A s \in Slot : job.rows.expected[s] = schedule.expected[s],
                NEW i \in 1..last-1
         PROVE  RowSettled(rows, i)
    <3>1. i \in Nat /\ i < last /\ i \in Visited(taken)
      BY <2>6, <2>11, SlotFacts
    <3>2. ASSUME NEW s \in Slot, s[1] = i
          PROVE  rows.paid[s] >= rows.expected[s]
      <4>1. rows.paid[s] = job.rows.paid[s] + taken[s] /\ rows.expected[s] = job.rows.expected[s]
        BY <2>5, <2>11, <3>1, <3>2
      <4>2. taken[s] = IF job.rows.paid[s] < job.rows.expected[s]
                       THEN job.rows.expected[s] - job.rows.paid[s] ELSE 0
        BY <2>6, <3>1, <3>2 DEF Owed
      <4>3. job.rows.paid[s] \in Nat /\ job.rows.expected[s] \in Nat
        BY <2>2 DEF Schedule
      <4> QED
        BY <4>1, <4>2, <4>3
    <3> QED
      BY <3>2 DEF RowSettled
  <2>12. j.since = "nothing" => PaymentFits(j, schedule, Threatened)
    <3>1. SUFFICES ASSUME j.since = "nothing" PROVE PaymentFits(j, schedule, Threatened)
      OBVIOUS
    <3>2. Threatened = {} \/ \A s \in Slot : job.rows.expected[s] = schedule.expected[s]
      BY <2>3, <2>8, <2>10, <3>1 DEF Fits, PaymentFits
    <3>3. Threatened = {} \/ \A i \in 1..last-1 : RowSettled(j.rows, i)
      BY <2>8, <2>11, <3>2
    <3> QED
      BY <2>6, <2>8, <3>3 DEF PaymentFits
  <2>13. Pending(j, age) = {} /\ Fits(j, schedule, age, Threatened)
    BY <2>3, <2>8, <2>12 DEF Pending, Fits, Payer
  <2> QED
    BY <1>0, <2>7, <2>9, <2>13, Steady
<1> QED
  BY <1>1, <1>2

\* A payment that nobody has overtaken has taken something that was owed.
LEMMA TakesWhatIsOwed ==
  ASSUME IInv, NEW j \in Job, Consistent(j, schedule), j.step \in {"total", "save"},
         j.kind \in Payer, j.since = "nothing", NEW s \in Slot, j.taken[s] > 0
  PROVE  s[1] \in j.writes /\ ~(schedule.paid[s] >= schedule.expected[s])
<1>1. schedule \in Schedule
  BY DEF IInv, TypeOK
<1>2. /\ schedule.paid[s] \in Nat /\ schedule.expected[s] \in Nat /\ j.taken[s] \in Nat
      /\ j.rows.paid[s] \in Nat /\ j.rows.expected[s] \in Nat
  BY <1>1 DEF Schedule, Job
<1>3. PaymentSaved(j, schedule)
  BY DEF Consistent
<1>4. s[1] \in j.writes
  BY <1>2, <1>3 DEF PaymentSaved
<1>5. /\ j.rows.paid[s] <= j.rows.expected[s]
      /\ j.rows.expected[s] = schedule.expected[s]
      /\ j.rows.paid[s] = schedule.paid[s] + j.taken[s]
  BY <1>3, <1>4 DEF PaymentSaved
<1> QED
  BY <1>2, <1>4, <1>5

\* A payment that finds the loan settled holds every installment under threat:
\* another would come after the last one it pays, and be paid before it.
LEMMA HoldsTheThreatened ==
  ASSUME IInv, PrincipalDue, Orderly, NEW j \in Job, Consistent(j, schedule),
         j.step = "total", j.kind \in Payer, j.since = "nothing",
         PaymentFits(j, schedule, Threatened), SettledBy(j, schedule)
  PROVE  Threatened \subseteq j.writes
<1>1. schedule \in Schedule /\ Lending(schedule)
  BY DEF IInv, TypeOK, PrincipalDue, Lending
<1>2. PICK last \in Row : j.writes = 1..last /\ \E s \in Slot : s[1] = last /\ j.taken[s] > 0
  BY DEF PaymentFits
<1>3. PICK s \in Slot : s[1] = last /\ j.taken[s] > 0
  BY <1>2
<1>4. ~RowSettled(schedule, last)
  BY <1>3, TakesWhatIsOwed DEF RowSettled
<1>5. \A k \in Threatened : k \in Row
  <2>1. ASSUME NEW v \in Workers PROVE Pending(work[v], age) \subseteq Row
    <3>1. work[v].charges \subseteq Row
      BY DEF IInv, TypeOK, Job
    <3> QED
      BY <3>1 DEF Pending, Ripe
  <2> QED
    BY <2>1 DEF Threatened, Threat, Ripe
<1>6. SUFFICES ASSUME NEW k \in Threatened, k \notin j.writes PROVE FALSE
  OBVIOUS
<1>7. k \in Row /\ k \in Nat /\ last \in Nat /\ last \in 1..k-1
  BY <1>2, <1>5, <1>6, SlotFacts
<1>8. RowSettled(schedule, k)
  BY <1>6 DEF SettledBy, RowSettled
<1>9. RowPaid(schedule, k)
  BY <1>1, <1>7, <1>8, SettledIsPaid
<1>10. RowSettled(schedule, last)
  BY <1>6, <1>7, <1>9 DEF Orderly, InOrder, Threatened
<1> QED
  BY <1>4, <1>10

\* A sweep that charges nothing sees the schedule as it is.
LEMMA ChargesNothing ==
  ASSUME NEW j \in Job, schedule \in Schedule, SweepSaved(j, schedule), j.charges = {},
         AllSettled(schedule)
  PROVE  SettledBy(j, schedule)
BY DEF SweepSaved, AllSettled, SettledBy

LEMMA TotalOrderly ==
  ASSUME IInv, PrincipalDue, Orderly, NEW w \in Workers, Total(w)
  PROVE  Orderly'
<1> DEFINE job == work[w]
           due == Owed(Merged(job))
           j == [job EXCEPT !.step = "save", !.due = due]
<1>0. UNCHANGED <<loan, schedule, age>> /\ LoanFits(loan', schedule)
  BY DEF Total, Orderly
<1>1. job \in Job /\ schedule \in Schedule /\ job.step = "total"
  BY DEF IInv, TypeOK, Total, At
<1>2. Merged(job) \in Schedule /\ due \in [Slot -> Nat]
  BY <1>1, MergedType, OwedType
<1>3. ~Owes(due) <=> SettledBy(job, schedule)
  BY <1>1, <1>2, OwesNothing, SettledByMerged
<1>4. work' = [work EXCEPT ![w] = j]
  BY DEF Total
<1> HIDE DEF due
<1>5. j \in Job
  BY <1>1, <1>2 DEF Job, Step
<1>6. /\ j.writes = job.writes /\ j.step = "save" /\ j.kind = job.kind
      /\ j.rows = job.rows /\ j.taken = job.taken /\ j.status = job.status
      /\ j.since = job.since /\ j.charges = job.charges /\ j.due = due
  BY <1>1 DEF Job
<1>7. Consistent(job, schedule) /\ Fits(job, schedule, age, Threatened)
  BY DEF IInv, Sound, RequestsConsistent, Orderly, Threatened
<1>8. job.kind \in Payer \cup {"sweep"}
  BY <1>1, <1>7 DEF Consistent
<1> HIDE DEF j
<1>9. SettledBy(j, schedule) <=> SettledBy(job, schedule)
  BY <1>6 DEF SettledBy
<1>10. CASE job.kind \in Payer
  <2>1. job.since = "nothing" => PaymentFits(job, schedule, Threatened)
    BY <1>7, <1>10 DEF Fits
  <2>2. job.since = "nothing" /\ SettledBy(job, schedule) => Threatened \subseteq job.writes
    BY <1>1, <1>7, <1>10, <2>1, HoldsTheThreatened
  <2>3. j.since = "nothing" => PaymentFits(j, schedule, Threatened)
    BY <1>1, <1>3, <1>6, <1>9, <2>1, <2>2 DEF PaymentFits
  <2>4. Pending(j, age) = {} /\ Fits(j, schedule, age, Threatened)
    BY <1>6, <1>10, <2>3 DEF Pending, Fits, Payer
  <2> QED
    BY <1>0, <1>4, <1>5, <2>4, Steady
<1>11. CASE job.kind = "sweep"
  <2>1. SweepFits(job, schedule, age) /\ SweepSaved(job, schedule)
    BY <1>1, <1>7, <1>11 DEF Fits, Consistent
  <2>2. Pending(j, age) = j.charges /\ Pending(job, age) = job.charges
    BY <1>1, <1>6, <1>11 DEF Pending
  <2>3. j.status \in Settled => ~Owes(j.due)
    BY <1>1, <1>3, <1>6, <2>1, <2>2, ChargesNothing DEF SweepFits
  <2>4. SweepFits(j, schedule, age)
    BY <1>1, <1>3, <1>6, <1>9, <2>1, <2>2, <2>3 DEF SweepFits
  <2>5. Fits(j, schedule, age, Threatened)
    BY <1>6, <1>11, <2>4 DEF Fits, Payer
  <2>6. Pending(j, age) \subseteq Threatened
    BY <1>6, <2>2 DEF Threatened, Threat
  <2> QED
    BY <1>0, <1>4, <1>5, <2>5, <2>6, Steady
<1> QED
  BY <1>8, <1>10, <1>11

\* A sweep charges what was ripe when it read the schedule.
LEMMA RefreshOrderly ==
  ASSUME IInv, PrincipalDue, Orderly, NEW w \in Workers, Refresh(w)
  PROVE  Orderly'
<1> DEFINE job == work[w]
<1>0. UNCHANGED <<loan, schedule, age>> /\ LoanFits(loan', schedule)
  BY DEF Refresh, Orderly
<1>1. CASE Gone(job) /\ Wanted(w) # {}
  BY <1>0, <1>1, RollBackOrderly DEF Refresh
<1>2. CASE ~(Gone(job) /\ Wanted(w) # {})
  <2> DEFINE rows == Refreshed(job.rows)
             charges == Charged(job.rows)
             j == [job EXCEPT !.step = "total", !.rows = rows,
                              !.writes = Wanted(w), !.charges = charges]
  <2>1. /\ job \in Job /\ schedule \in Schedule /\ job.rows \in Schedule
        /\ job.step = "write" /\ job.kind = "sweep" /\ age \in [Row -> 0..MaxAge]
    BY DEF IInv, TypeOK, Job, Refresh, At, Is
  <2>2. Wanted(w) = charges \cup Revised(job.rows)
    BY <2>1 DEF Wanted, At, Is, Payer
  <2>3. charges \subseteq Row /\ Revised(job.rows) \subseteq Row
    BY DEF Charged, Revised
  <2>4. rows \in Schedule
    BY <2>1, RefreshedFacts
  <2>5. work' = [work EXCEPT ![w] = j]
    BY <1>2 DEF Refresh
  <2>6. Consistent(job, schedule) /\ SweepFits(job, schedule, age)
    BY <2>1 DEF IInv, Sound, RequestsConsistent, Orderly, Fits
  <2>7. charges = Pending(job, age)
    <3>1. CASE job.since = "replaced"
      <4>1. charges = {}
        BY <1>2, <2>2, <3>1 DEF Gone
      <4> QED
        BY <2>1, <3>1, <4>1 DEF Pending
    <3>2. CASE job.since # "replaced"
      <4>1. ReadIsOld(job, schedule)
        BY <2>1, <2>6, <3>2 DEF Consistent
      <4>2. Lending(job.rows)
        BY <2>1, <4>1 DEF ReadIsOld, Lending, PrincipalDue
      <4>3. charges = Ripe(age, job.rows)
        BY <2>1, <4>2, ChargedAreRipe
      <4> QED
        BY <2>1, <3>2, <4>3 DEF Pending
    <3> QED
      BY <3>1, <3>2
  <2>8. Wanted(w) \subseteq Row
    BY <2>2, <2>3
  <2> HIDE DEF rows, charges
  <2>9. j \in Job
    BY <2>1, <2>3, <2>4, <2>8 DEF Job, Step
  <2>10. /\ j.step = "total" /\ j.kind = "sweep" /\ j.charges = charges
         /\ j.status = job.status /\ j.since = job.since
    BY <2>1 DEF Job
  <2> HIDE DEF j
  <2>11. Pending(j, age) = Pending(job, age)
    BY <2>7, <2>10 DEF Pending
  <2>12. SweepFits(j, schedule, age)
    BY <2>1, <2>6, <2>10, <2>11 DEF SweepFits
  <2>13. Fits(j, schedule, age, Threatened)
    BY <2>10, <2>12 DEF Fits, Payer
  <2>14. Pending(j, age) \subseteq Threatened
    BY <2>11 DEF Threatened, Threat
  <2> QED
    BY <1>0, <2>5, <2>9, <2>13, <2>14, Steady
<1> QED
  BY <1>1, <1>2

LEMMA SaveTermsOrderly ==
  ASSUME IInv, Orderly, NEW w \in Workers, SaveTerms(w)
  PROVE  Orderly'
<1> DEFINE j == [work[w] EXCEPT !.step = "save"]
<1>1. work[w] \in Job /\ work[w].kind = "restructure"
  BY DEF IInv, TypeOK, SaveTerms, Is
<1>2. j \in Job
  BY <1>1 DEF Job, Step
<1>3. j.step = "save" /\ j.kind = "restructure" /\ j.status = work[w].status
  BY <1>1 DEF Job
<1>4. work' = [work EXCEPT ![w] = j] /\ UNCHANGED <<loan, schedule, age>>
  BY DEF SaveTerms
<1>5. Fits(work[w], schedule, age, Threatened) /\ LoanFits(loan', schedule)
  BY <1>4 DEF Orderly, Threatened
<1> HIDE DEF j
<1>6. Pending(j, age) = {} /\ Fits(j, schedule, age, Threatened)
  BY <1>1, <1>3, <1>5 DEF Pending, Fits, Payer
<1> QED
  BY <1>2, <1>4, <1>5, <1>6, Steady

LEMMA CommitWriteOffOrderly ==
  ASSUME IInv, Orderly, NEW w \in Workers, CommitWriteOff(w)
  PROVE  Orderly'
<1>1. loan.status \in LoanStatus /\ loan' = [loan EXCEPT !.status = "WRITTEN_OFF", !.due = Nothing]
  BY DEF CommitWriteOff, IInv, TypeOK, Loan
<1>2. loan'.status = "WRITTEN_OFF"
  BY <1>1 DEF IInv, TypeOK, Loan
<1>3. LoanFits(loan', schedule)
  BY <1>2 DEF LoanFits, Settled
<1> QED
  BY <1>3, RollBackOrderly DEF CommitWriteOff

LEMMA CommitDisbursementOrderly ==
  ASSUME IInv, Orderly, NEW w \in Workers, CommitDisbursement(w)
  PROVE  Orderly'
<1>1. loan \in Loan /\ LoanFits(loan, schedule)
  BY DEF IInv, TypeOK, Orderly
<1>2. LoanFits(loan', schedule)
  <2>1. CASE UNCHANGED loan
    BY <1>1, <2>1
  <2>2. ASSUME NEW status \in {"DISBURSED", "ACTIVE"},
               loan' = [loan EXCEPT !.status = status, !.due = Owed(schedule)]
        PROVE  LoanFits(loan', schedule)
    <3>1. loan'.status = status
      BY <1>1, <2>2 DEF Loan
    <3> QED
      BY <3>1 DEF LoanFits, Settled
  <2> QED
    BY <2>1, <2>2 DEF CommitDisbursement
<1> QED
  BY <1>2, RollBackOrderly DEF CommitDisbursement

-----------------------------------------------------------------------------
(* Commits.                                                                *)

\* Another request, told at most what became of the schedule.
Notified(j, k, by) ==
    /\ j \in Job
    /\ j.kind = k.kind /\ j.step = k.step /\ j.rows = k.rows /\ j.writes = k.writes
    /\ j.taken = k.taken /\ j.charges = k.charges /\ j.due = k.due /\ j.status = k.status
    /\ j.since = IF k.step = "write" /\ k.since # "replaced" THEN by ELSE k.since

LEMMA AllNotified ==
  ASSUME work \in [Workers -> Job], NEW w \in Workers, NEW by \in {"paid", "replaced"}
  PROVE  /\ Overtaken(w, by)[w] = Idle
         /\ \A v \in Workers \ {w} : Notified(Overtaken(w, by)[v], work[v], by)
<1>1. ASSUME NEW v \in Workers \ {w}
      PROVE  Notified(Overtaken(w, by)[v], work[v], by)
  <2>1. work[v] \in Job
    OBVIOUS
  <2>2. CASE work[v].step = "write" /\ work[v].since # "replaced"
    <3>1. Overtaken(w, by)[v] = [work[v] EXCEPT !.since = by]
      BY <2>2 DEF Overtaken, At
    <3> DEFINE k == work[v]
    <3> HIDE DEF k
    <3>2. [k EXCEPT !.since = by] \in Job /\ Notified([k EXCEPT !.since = by], k, by)
      BY <2>1, <2>2 DEF Notified, Job, k
    <3> QED
      BY <3>1, <3>2 DEF k
  <2>3. CASE ~(work[v].step = "write" /\ work[v].since # "replaced")
    <3>1. Overtaken(w, by)[v] = work[v]
      BY <2>3 DEF Overtaken, At
    <3> QED
      BY <2>1, <2>3, <3>1 DEF Notified
  <2> QED
    BY <2>2, <2>3
<1>2. Overtaken(w, by)[w] = Idle
  BY DEF Overtaken
<1> QED
  BY <1>1, <1>2

\* A payment that has read before does not notice, or is overtaken.
LEMMA PaidStillFits ==
  ASSUME NEW sch \in Schedule, NEW new \in Schedule, PaidMore(sch, new),
         NEW threat, NEW less, less \subseteq threat, NEW ages,
         NEW k \in Job, Fits(k, sch, ages, threat), NEW j, Notified(j, k, "paid")
  PROVE  Fits(j, new, ages, less) /\ Pending(j, ages) = Pending(k, ages)
<1>1. Fits(k, new, ages, less)
  BY StillFits
<1>2. Pending(j, ages) = Pending(k, ages)
  BY DEF Notified, Pending
<1>3. SweepFits(k, new, ages) => SweepFits(j, new, ages)
  <2>1. SettledBy(j, new) <=> SettledBy(k, new)
    BY DEF Notified, SettledBy
  <2>2. j.step = "write" /\ j.since # "replaced" => k.step = "write" /\ k.since # "replaced"
    BY DEF Notified
  <2> QED
    BY <1>2, <2>1, <2>2 DEF SweepFits, Notified
<1>4. j.since = "nothing" => k.since = "nothing" /\ k.step # "write"
  BY DEF Notified
<1>5. k.step # "write" /\ PaymentFits(k, new, less) => PaymentFits(j, new, less)
  <2>1. SettledBy(j, new) <=> SettledBy(k, new)
    BY DEF Notified, SettledBy
  <2> QED
    BY <2>1 DEF PaymentFits, Notified
<1>6. j.step \in {"idle", "look", "read"} => j.since = k.since
  BY DEF Notified
<1>7. j.kind = k.kind /\ j.step = k.step /\ j.status = k.status
  BY DEF Notified
<1> QED
  BY <1>1, <1>2, <1>3, <1>4, <1>5, <1>6, <1>7 DEF Fits

\* What a payment that nobody has overtaken makes of the schedule.
LEMMA PaymentPays ==
  ASSUME IInv, NEW j \in Job, Consistent(j, schedule), j.step = "save", j.kind \in Payer,
         j.since = "nothing"
  PROVE  /\ Merged(j) \in Schedule
         /\ PaidMore(schedule, Merged(j))
         /\ \A i : i \notin j.writes /\ RowPaid(Merged(j), i) => RowPaid(schedule, i)
<1>1. schedule \in Schedule /\ Merged(j) \in Schedule
  BY MergedType DEF IInv, TypeOK
<1>2. PaymentSaved(j, schedule)
  BY DEF Consistent
<1>3. ASSUME NEW s \in Slot
      PROVE  schedule.paid[s] <= Merged(j).paid[s] /\ Merged(j).expected[s] = schedule.expected[s]
  <2>1. schedule.paid[s] \in Nat /\ j.taken[s] \in Nat
    BY <1>1 DEF Schedule, Job
  <2>2. CASE s[1] \in j.writes
    <3>1. /\ Merged(j).paid[s] = schedule.paid[s] + j.taken[s]
          /\ Merged(j).expected[s] = schedule.expected[s]
      BY <1>2, <2>2, MergedFacts DEF PaymentSaved
    <3> QED
      BY <2>1, <3>1
  <2>3. CASE s[1] \notin j.writes
    <3>1. Merged(j).paid[s] = schedule.paid[s] /\ Merged(j).expected[s] = schedule.expected[s]
      BY <2>3, MergedFacts
    <3> QED
      BY <2>1, <3>1
  <2> QED
    BY <2>2, <2>3
<1>4. PaidMore(schedule, Merged(j))
  BY <1>3 DEF PaidMore
<1>5. \A i : i \notin j.writes /\ RowPaid(Merged(j), i) => RowPaid(schedule, i)
  BY MergedFacts DEF RowPaid
<1> QED
  BY <1>1, <1>4, <1>5

LEMMA CommitPaymentOrderly ==
  ASSUME IInv, Orderly, NEW w \in Workers, CommitPayment(w), ~lost'
  PROVE  Orderly'
<1> DEFINE job == work[w]
           sch == Merged(job)
           before == Threat(schedule, age, work)
           after == Threat(sch, age, work')
<1>1. /\ schedule' = sch /\ UNCHANGED age /\ lost' = (lost \/ job.since = "paid")
      /\ work' = Overtaken(w, "paid")
      /\ loan' = [loan EXCEPT
             !.due = job.due,
             !.status = IF job.kind = "offset" THEN StatusAfterOffset(job)
                        ELSE StatusAfterPayment(job)]
  BY DEF CommitPayment
<1>2. /\ job \in Job /\ schedule \in Schedule /\ job.step = "save" /\ job.kind \in Payer
      /\ work \in [Workers -> Job] /\ loan \in Loan
  BY DEF IInv, TypeOK, CommitPayment, At, Is
<1>3. Consistent(job, schedule) /\ Fits(job, schedule, age, before)
  BY DEF IInv, Sound, RequestsConsistent, Orderly
<1>4. job.since = "nothing"
  BY <1>1, <1>2, <1>3 DEF Consistent, PaymentSaved
<1>5. /\ sch \in Schedule /\ PaidMore(schedule, sch)
      /\ \A i : i \notin job.writes /\ RowPaid(sch, i) => RowPaid(schedule, i)
  BY <1>2, <1>3, <1>4, PaymentPays
<1>6. PaymentFits(job, schedule, before)
  BY <1>2, <1>3, <1>4 DEF Fits
<1>7. PICK last \in Row :
          /\ job.writes = 1..last
          /\ \E s \in Slot : s[1] = last /\ job.taken[s] > 0
          /\ before = {} \/ \A i \in 1..last-1 : RowSettled(job.rows, i)
  BY <1>2, <1>6 DEF PaymentFits
<1>8. PICK s \in Slot : s[1] = last /\ job.taken[s] > 0
  BY <1>7
<1>9. ~RowSettled(schedule, last) /\ ~AllSettled(schedule)
  BY <1>2, <1>3, <1>4, <1>8, TakesWhatIsOwed DEF RowSettled, AllSettled
<1>10. /\ work'[w] = Idle
       /\ \A v \in Workers \ {w} : Notified(work'[v], work[v], "paid")
  BY <1>1, <1>2, AllNotified
<1>11. \A v \in Workers : Fits(work[v], schedule, age, before) /\ work[v] \in Job
  BY <1>2 DEF Orderly
<1> HIDE DEF sch, before
<1>12. \A v \in Workers \ {w} : Pending(work'[v], age) = Pending(work[v], age)
  BY <1>10 DEF Notified, Pending
<1>13. after \subseteq before
  <2>1. Ripe(age, sch) \subseteq Ripe(age, schedule)
    BY <1>2, <1>5, PaidMoreFacts
  <2>2. \A v \in Workers : Pending(work'[v], age) \subseteq before
    BY <1>10, <1>12, IdleIsHarmless DEF before, Threat
  <2> QED
    BY <2>1, <2>2 DEF before, Threat
<1> HIDE DEF after
<1>14. \A v \in Workers : Fits(work'[v], sch, age, after)
  <2>1. ASSUME NEW v \in Workers \ {w} PROVE Fits(work'[v], sch, age, after)
    BY <1>2, <1>5, <1>10, <1>11, <1>13, PaidStillFits
  <2> QED
    BY <1>10, <2>1, IdleIsHarmless
<1>15. InOrder(sch, after)
  <2>1. SUFFICES ASSUME NEW k \in after, RowPaid(sch, k), NEW i \in 1..k-1
                 PROVE  RowSettled(sch, i)
    BY DEF InOrder
  <2>2. k \in before /\ before # {}
    BY <1>13
  <2>3. InOrder(schedule, before)
    BY DEF Orderly, before
  <2>4. last \in Nat
    BY SlotFacts
  <2>5. CASE RowPaid(schedule, k)
    <3>1. RowSettled(schedule, i)
      BY <2>2, <2>3, <2>5 DEF InOrder
    <3> QED
      BY <1>2, <1>5, <3>1, PaidMoreFacts
  <2>6. CASE ~RowPaid(schedule, k)
    <3>1. k \in 1..last
      BY <1>5, <1>7, <2>1, <2>6
    <3>2. i \in 1..last-1 /\ i \in job.writes
      BY <1>7, <2>4, <3>1
    <3>3. RowSettled(job.rows, i)
      BY <1>7, <2>2, <3>2
    <3>4. \A t \in Slot : t[1] = i => sch.paid[t] = job.rows.paid[t]
                                      /\ sch.expected[t] = job.rows.expected[t]
      BY <3>2, MergedFacts DEF sch
    <3> QED
      BY <3>3, <3>4 DEF RowSettled
  <2> QED
    BY <2>5, <2>6
<1>16. LoanFits(loan', sch)
  <2>1. SUFFICES ASSUME loan'.status \in Settled PROVE AllSettled(sch) /\ ~Owes(loan'.due)
    BY DEF LoanFits
  <2>2. loan'.due = job.due
    BY <1>1, <1>2 DEF Loan
  <2>3. loan'.status = IF job.kind = "offset" THEN StatusAfterOffset(job)
                       ELSE StatusAfterPayment(job)
    BY <1>1, <1>2 DEF Loan
  <2>4. loan.status \notin Settled
    BY <1>9 DEF Orderly, LoanFits
  <2>5. ~Owes(job.due)
    BY <2>1, <2>3, <2>4 DEF StatusAfterOffset, StatusAfterPayment, Settled
  <2>6. SettledBy(job, schedule)
    BY <1>2, <1>6, <2>5 DEF PaymentFits
  <2>7. AllSettled(sch)
    BY <1>2, <2>6, SettledByMerged DEF sch
  <2> QED
    BY <2>2, <2>5, <2>7
<1>17. \A v \in Workers : Fits(work'[v], schedule', age', Threat(schedule', age', work'))
  BY <1>1, <1>14 DEF after, sch
<1>18. LoanFits(loan', schedule') /\ InOrder(schedule', Threat(schedule', age', work'))
  BY <1>1, <1>15, <1>16 DEF after, sch
<1> QED
  BY <1>17, <1>18 DEF Orderly

\* What a sweep makes of the schedule.
LEMMA SweepCharges ==
  ASSUME IInv, NEW j \in Job, Consistent(j, schedule), j.step = "save", j.kind = "sweep"
  PROVE  /\ Merged(j) \in Schedule
         /\ j.charges \subseteq j.writes
         /\ \A s \in Slot : Merged(j).paid[s] = schedule.paid[s]
         /\ \A s \in Slot : s[1] \notin j.charges => Merged(j).expected[s] = schedule.expected[s]
         /\ \A i \in j.charges : i \in Row => Merged(j).expected[<<i, "penalty">>] = Charge
<1>1. schedule \in Schedule /\ Merged(j) \in Schedule
  BY MergedType DEF IInv, TypeOK
<1>2. SweepSaved(j, schedule)
  BY DEF Consistent, Payer
<1>3. \A s \in Slot : Merged(j).paid[s] = schedule.paid[s]
  BY <1>2, MergedFacts DEF SweepSaved
<1>4. \A s \in Slot : s[1] \notin j.charges => Merged(j).expected[s] = schedule.expected[s]
  BY <1>2, MergedFacts DEF SweepSaved
<1>5. ASSUME NEW i \in j.charges, i \in Row
      PROVE  Merged(j).expected[<<i, "penalty">>] = Charge
  <2>1. <<i, "penalty">> \in Slot /\ <<i, "penalty">>[1] = i /\ <<i, "penalty">>[2] = "penalty"
    BY <1>5, SlotFacts
  <2>2. i \in j.writes
    BY <1>2 DEF SweepSaved
  <2> QED
    BY <1>2, <2>1, <2>2, MergedFacts DEF SweepSaved
<1> QED
  BY <1>1, <1>2, <1>3, <1>4, <1>5 DEF SweepSaved

\* Once it has charged, nothing is under threat.
LEMMA CommitSweepOrderly ==
  ASSUME IInv, Orderly, NEW w \in Workers, CommitSweep(w)
  PROVE  Orderly'
<1> DEFINE job == work[w]
           sch == Merged(job)
           before == Threat(schedule, age, work)
           after == Threat(sch, age, work')
<1>1. /\ schedule' = sch /\ UNCHANGED age
      /\ work' = [work EXCEPT ![w] = Idle]
      /\ loan' = [status |-> StatusAfterSweep(job, sch), due |-> job.due,
                  defaulted |-> job.defaulted \/ StatusAfterSweep(job, sch) = "DEFAULTED"]
  BY DEF CommitSweep, RollBack
<1>2. /\ job \in Job /\ schedule \in Schedule /\ job.step = "save" /\ job.kind = "sweep"
      /\ work \in [Workers -> Job]
  BY DEF IInv, TypeOK, CommitSweep, At, Is
<1>3. Consistent(job, schedule) /\ SweepFits(job, schedule, age)
  BY <1>2 DEF IInv, Sound, RequestsConsistent, Orderly, Fits
<1>4. /\ sch \in Schedule /\ job.charges \subseteq job.writes
      /\ \A s \in Slot : sch.paid[s] = schedule.paid[s]
      /\ \A s \in Slot : s[1] \notin job.charges => sch.expected[s] = schedule.expected[s]
      /\ \A i \in job.charges : i \in Row => sch.expected[<<i, "penalty">>] = Charge
  BY <1>2, <1>3, SweepCharges
<1>5. work'[w] = Idle /\ \A v \in Workers \ {w} : work'[v] = work[v]
  BY <1>1, <1>2
<1>6. \A v \in Workers \ {w} : work[v].kind # "sweep"
  BY <1>2, OneSweep
<1>7. Pending(job, age) = job.charges
  BY <1>2 DEF Pending
<1>8. LoanFits(loan', sch)
  <2>1. SUFFICES ASSUME loan'.status \in Settled PROVE AllSettled(sch) /\ ~Owes(loan'.due)
    BY DEF LoanFits
  <2>2. ~Owes(job.due) /\ loan'.due = job.due
    BY <1>1, <2>1 DEF StatusAfterSweep, Settled
  <2>3. AllSettled(sch)
    BY <1>2, <1>3, <2>2, SettledByMerged DEF SweepFits
  <2> QED
    BY <2>2, <2>3
<1> HIDE DEF sch
<1>9. Ripe(age, sch) = {}
  <2>1. SUFFICES ASSUME NEW i \in Ripe(age, sch) PROVE FALSE
    OBVIOUS
  <2>2. i \in Row /\ Charge > 0 /\ age[i] >= 2 /\ sch.expected[<<i, "penalty">>] = 0
        /\ ~RowPaid(sch, i)
    BY DEF Ripe
  <2>3. i \notin job.charges
    <3>1. Charge # 0
      BY <2>2, LoanAssumption
    <3> QED
      BY <1>4, <2>2, <3>1
  <2>4. <<i, "penalty">> \in Slot /\ <<i, "penalty">>[1] = i
    BY <2>2, SlotFacts
  <2>5. schedule.expected[<<i, "penalty">>] = 0
    BY <1>4, <2>2, <2>3, <2>4
  <2>6. ~RowPaid(schedule, i)
    BY <1>4, <2>2 DEF RowPaid
  <2>7. i \in Ripe(age, schedule)
    BY <2>2, <2>5, <2>6 DEF Ripe
  <2> QED
    BY <1>2, <1>3, <1>7, <2>3, <2>7 DEF SweepFits
<1>10. after = {}
  <2>1. \A v \in Workers : Pending(work'[v], age) = {}
    BY <1>5, <1>6, IdleIsHarmless DEF Pending
  <2> QED
    BY <1>9, <2>1 DEF Threat
<1> HIDE DEF after, before
<1>11. ASSUME NEW v \in Workers \ {w} PROVE Fits(work'[v], sch, age, after)
  <2> DEFINE k == work[v]
  <2>1. Fits(k, schedule, age, before) /\ k \in Job /\ Apart(job, k) /\ k.kind # "sweep"
    BY <1>2, <1>6 DEF Orderly, before, IInv, Sound, RequestsApart
  <2>2. job.charges \subseteq before
    BY <1>7 DEF before, Threat
  <2>3. Held(job) = job.writes
    BY <1>2 DEF Held
  <2> HIDE DEF k
  <2>4. ASSUME PaymentFits(k, schedule, before) PROVE PaymentFits(k, sch, after)
    <3>1. ASSUME k.step = "save", ~Owes(k.due) PROVE SettledBy(k, sch)
      <4>1. SettledBy(k, schedule) /\ before \subseteq k.writes
        BY <2>4, <3>1 DEF PaymentFits
      <4>2. job.charges = {}
        <5>1. Held(k) = k.writes
          BY <3>1 DEF Held
        <5> QED
          BY <1>4, <2>1, <2>2, <2>3, <4>1, <5>1 DEF Apart
      <4> QED
        BY <1>4, <4>1, <4>2 DEF SettledBy
    <3> QED
      BY <1>10, <2>4, <3>1 DEF PaymentFits
  <2>5. Fits(k, sch, age, after)
    BY <2>1, <2>4 DEF Fits
  <2> QED
    BY <1>5, <2>5 DEF k
<1>12. \A v \in Workers : Fits(work'[v], sch, age, after)
  BY <1>5, <1>11, IdleIsHarmless
<1>13. InOrder(sch, after)
  BY <1>10 DEF InOrder
<1>14. \A v \in Workers : Fits(work'[v], schedule', age', Threat(schedule', age', work'))
  BY <1>1, <1>12 DEF after, sch
<1>15. LoanFits(loan', schedule') /\ InOrder(schedule', Threat(schedule', age', work'))
  BY <1>1, <1>8, <1>13 DEF after, sch
<1> QED
  BY <1>14, <1>15 DEF Orderly

\* Nobody holds a row of the schedule that is replaced, and nothing was paid.
LEMMA CommitRestructureOrderly ==
  ASSUME IInv, PrincipalDue, ~lost, Orderly, NEW w \in Workers, CommitRestructure(w), ~lost'
  PROVE  Orderly'
<1> DEFINE ages == [i \in Row |-> 0]
           after == Threat(NewSchedule, ages, work')
<1>1. /\ schedule' = NewSchedule /\ age' = ages /\ posted = {}
      /\ work' = Overtaken(w, "replaced")
      /\ loan' = [loan EXCEPT !.status = "RESTRUCTURED", !.due = NewSchedule.expected]
  BY DEF CommitRestructure
<1>2. work \in [Workers -> Job] /\ loan \in Loan
  BY DEF IInv, TypeOK
<1>3. /\ work'[w] = Idle
      /\ \A v \in Workers \ {w} : Notified(work'[v], work[v], "replaced")
  BY <1>1, <1>2, AllNotified
<1>4. ~AllSettled(schedule)
  BY <1>1, UnpaidIsUnsettled
<1>5. Wanted(w) = Row
  <2>1. work[w].step = "save" /\ work[w].kind = "restructure"
    BY DEF CommitRestructure, At, Is
  <2> QED
    BY <2>1 DEF Wanted, At, Is
<1>6. Ripe(ages, NewSchedule) = {}
  BY DEF Ripe
<1> HIDE DEF ages
<1>7. ASSUME NEW v \in Workers \ {w}
      PROVE  Pending(work'[v], ages) = {} /\ Fits(work'[v], NewSchedule, ages, {})
  <2> DEFINE k == work[v]
             j == work'[v]
  <2>1. Notified(j, k, "replaced") /\ Consistent(k, schedule) /\ k \in Job
        /\ Fits(k, schedule, age, Threatened)
    BY <1>2, <1>3 DEF IInv, Sound, RequestsConsistent, Orderly, Threatened
  <2>2. Held(k) = {}
    <3>1. Row \cap Held(k) = {}
      BY <1>5, FreeRows DEF CommitRestructure
    <3>2. k.writes \subseteq Row
      BY <2>1 DEF Job
    <3> QED
      BY <3>1, <3>2 DEF Held
  <2> HIDE DEF j, k
  <2>3. /\ j.kind = k.kind /\ j.step = k.step /\ j.due = k.due /\ j.status = k.status
        /\ j.writes = k.writes /\ j.charges = k.charges
        /\ k.step = "write" => j.since = "replaced"
        /\ k.step # "write" => j.since = k.since
    BY <2>1 DEF Notified
  <2>4. k.step \in {"total", "save"} => k.writes = {}
    BY <2>2 DEF Held
  <2>5. k.step \in {"total", "save"} /\ k.kind = "sweep" => k.charges = {}
    BY <2>1, <2>4 DEF Consistent, SweepSaved
  <2>6. Pending(j, ages) = {}
    BY <2>3, <2>5 DEF Pending
  <2>7. k.step \in {"total", "save"} => k.kind \notin Payer
    BY <2>1, <2>4 DEF Consistent, PaymentSaved
  <2>8. ASSUME k.kind = "sweep" PROVE SweepFits(j, NewSchedule, ages)
    <3>1. SweepFits(k, schedule, age)
      BY <2>1, <2>8 DEF Fits
    <3>2. ~(k.step \in {"read", "write", "total", "save"} /\ k.status \in Settled)
      BY <1>4, <3>1 DEF SweepFits
    <3>3. ~(k.step = "save" /\ ~Owes(k.due))
      <4>1. k.step = "save" => ~SettledBy(k, schedule)
        BY <1>4, <2>4 DEF SettledBy, AllSettled
      <4> QED
        BY <3>1, <4>1 DEF SweepFits
    <3> QED
      BY <1>6, <2>3, <2>6, <3>2, <3>3 DEF SweepFits
  <2>9. ASSUME k.kind \in Payer, j.since = "nothing" PROVE PaymentFits(j, NewSchedule, {})
    <3>1. j.step \notin {"write", "total", "save"}
      BY <2>3, <2>7, <2>9
    <3> QED
      BY <3>1 DEF PaymentFits
  <2>10. Fits(j, NewSchedule, ages, {})
    BY <2>1, <2>3, <2>8, <2>9 DEF Fits
  <2> QED
    BY <2>6, <2>10 DEF j
<1>8. after = {}
  <2>1. \A v \in Workers : Pending(work'[v], ages) = {}
    BY <1>3, <1>7, IdleIsHarmless
  <2> QED
    BY <1>6, <2>1 DEF Threat
<1> HIDE DEF after
<1>9. \A v \in Workers : Fits(work'[v], NewSchedule, ages, after)
  BY <1>3, <1>7, <1>8, IdleIsHarmless
<1>10. InOrder(NewSchedule, after)
  BY <1>8 DEF InOrder
<1>11. loan'.status = "RESTRUCTURED"
  BY <1>1, <1>2 DEF Loan
<1>12. LoanFits(loan', NewSchedule)
  BY <1>11 DEF LoanFits, Settled
<1>13. \A v \in Workers : Fits(work'[v], schedule', age', Threat(schedule', age', work'))
  BY <1>1, <1>9 DEF after
<1>14. LoanFits(loan', schedule') /\ InOrder(schedule', Threat(schedule', age', work'))
  BY <1>1, <1>10, <1>12 DEF after
<1> QED
  BY <1>13, <1>14 DEF Orderly

\* Installments grow ripe while nobody is at work.
LEMMA GrowOlderOrderly ==
  ASSUME IInv, Orderly, NEW i \in Row, GrowOlder(i)
  PROVE  Orderly'
<1> DEFINE after == Threat(schedule, age', work)
<1>1. UNCHANGED <<loan, schedule, work>> /\ \A v \in Workers : work[v].step = "idle"
  BY DEF GrowOlder, At
<1>2. ASSUME NEW v \in Workers
      PROVE  Pending(work[v], age') = {} /\ Fits(work[v], schedule, age', after)
  <2> DEFINE k == work[v]
             ages == age'
  <2>1. Fits(k, schedule, age, Threatened) /\ k.step = "idle"
    BY <1>1 DEF Orderly, Threatened
  <2> HIDE DEF k, after, ages
  <2>2. Pending(k, ages) = {}
    BY <2>1 DEF Pending
  <2>3. SweepFits(k, schedule, ages) /\ PaymentFits(k, schedule, after)
    BY <2>1 DEF SweepFits, PaymentFits
  <2>4. Fits(k, schedule, ages, after)
    BY <2>1, <2>3 DEF Fits
  <2> QED
    BY <2>2, <2>4 DEF k, ages
<1>3. InOrder(schedule, after)
  <2>1. after = Ripe(age', schedule)
    BY <1>2 DEF Threat
  <2> HIDE DEF after
  <2> QED
    BY <2>1 DEF InOrder, Ripe
<1>4. \A v \in Workers : Fits(work'[v], schedule', age', Threat(schedule', age', work'))
  BY <1>1, <1>2
<1>5. LoanFits(loan', schedule') /\ InOrder(schedule', Threat(schedule', age', work'))
  BY <1>1, <1>3 DEF Orderly
<1> QED
  BY <1>4, <1>5 DEF Orderly

\* The statuses of the installments play no part.
LEMMA MarkOverdueOrderly ==
  ASSUME IInv, Orderly, MarkOverdue
  PROVE  Orderly'
<1>1. /\ schedule'.paid = schedule.paid /\ schedule'.expected = schedule.expected
      /\ UNCHANGED <<loan, age, work>>
  BY MarkOverdueAmounts DEF IInv
<1>2. PICK sch : sch = schedule'
  OBVIOUS
<1>3. sch.paid = schedule.paid /\ sch.expected = schedule.expected
  BY <1>1, <1>2
<1>4. /\ \A i : RowPaid(sch, i) = RowPaid(schedule, i)
      /\ \A i : RowSettled(sch, i) = RowSettled(schedule, i)
      /\ AllSettled(sch) = AllSettled(schedule)
      /\ Ripe(age, sch) = Ripe(age, schedule)
      /\ \A j : SettledBy(j, sch) = SettledBy(j, schedule)
  BY <1>3 DEF RowPaid, RowSettled, AllSettled, Ripe, SettledBy
<1>5. Threat(sch, age, work) = Threatened
  BY <1>4 DEF Threat, Threatened
<1>6. LoanFits(loan, sch) /\ InOrder(sch, Threatened)
  <2>1. InOrder(schedule, Threatened) /\ LoanFits(loan, schedule)
    BY DEF Orderly, Threatened
  <2> QED
    BY <1>4, <2>1 DEF InOrder, LoanFits
<1>7. ASSUME NEW w \in Workers PROVE Fits(work[w], sch, age, Threatened)
  <2> DEFINE j == work[w]
  <2>1. Fits(j, schedule, age, Threatened)
    BY DEF Orderly, Threatened
  <2> HIDE DEF j
  <2>2. j.kind = "sweep" => SweepFits(j, sch, age)
    BY <1>3, <1>4, <2>1 DEF Fits, SweepFits
  <2>3. j.kind \in Payer /\ j.since = "nothing" => PaymentFits(j, sch, Threatened)
    BY <1>3, <1>4, <2>1 DEF Fits, PaymentFits
  <2> QED
    BY <2>1, <2>2, <2>3 DEF Fits, j
<1> QED
  BY <1>1, <1>2, <1>5, <1>6, <1>7 DEF Orderly

LEMMA UntouchedOrderly ==
  ASSUME Orderly, UNCHANGED <<loan, schedule, age, work>>
  PROVE  Orderly'
BY DEF Orderly

-----------------------------------------------------------------------------
(* Every step.                                                             *)

LEMMA InitOrderly == Init => SInv
<1> SUFFICES ASSUME Init PROVE SInv
  OBVIOUS
<1>1. \A w \in Workers : work[w] = Idle
  BY DEF Init
<1>2. PrincipalDue
  BY LoanAssumption DEF Init, NewSchedule, PrincipalDue
<1>3. Threatened = {}
  <2>1. Ripe(age, schedule) = {}
    BY DEF Init, Ripe
  <2> QED
    BY <1>1, <2>1, IdleIsHarmless DEF Threatened, Threat
<1>4. InOrder(schedule, Threatened)
  BY <1>3 DEF InOrder
<1>5. loan.status = "APPROVED"
  BY DEF Init, NewLoan
<1>6. LoanFits(loan, schedule)
  BY <1>5 DEF LoanFits, Settled
<1>7. \A w \in Workers : Fits(work[w], schedule, age, Threatened)
  BY <1>1, IdleIsHarmless
<1> QED
  BY <1>2, <1>4, <1>6, <1>7 DEF SInv, Orderly, Threatened

\* The principal that a schedule expects is what it always was.
LEMMA CommitsLend ==
  ASSUME IInv, PrincipalDue, NEW w \in Workers,
         CommitPayment(w) \/ CommitSweep(w) \/ CommitRestructure(w)
  PROVE  PrincipalDue'
<1>1. CASE CommitRestructure(w)
  <2>1. schedule' = NewSchedule
    BY <1>1 DEF CommitRestructure
  <2>2. \A s \in Slot : s[2] = "principal" => NewSchedule.expected[s] > 0
    BY LoanAssumption DEF NewSchedule
  <2> QED
    BY <2>1, <2>2 DEF PrincipalDue
<1>2. CASE CommitPayment(w) \/ CommitSweep(w)
  <2> DEFINE job == work[w]
  <2>1. schedule' = Merged(job)
    BY <1>2 DEF CommitPayment, CommitSweep
  <2>2. Consistent(job, schedule) /\ job.step = "save" /\ job.kind \in Payer \cup {"sweep"}
    BY <1>2 DEF IInv, Sound, RequestsConsistent, CommitPayment, CommitSweep, At, Is
  <2>3. ASSUME NEW s \in Slot, s[2] = "principal"
        PROVE  Merged(job).expected[s] = schedule.expected[s]
    <3>1. CASE s[1] \in job.writes
      <4>1. job.rows.expected[s] = schedule.expected[s]
        <5>1. CASE job.kind \in Payer
          BY <2>2, <3>1, <5>1 DEF Consistent, PaymentSaved
        <5>2. CASE job.kind = "sweep"
          BY <2>2, <2>3, <3>1, <5>2 DEF Consistent, SweepSaved
        <5> QED
          BY <2>2, <5>1, <5>2
      <4> QED
        BY <3>1, <4>1, MergedFacts
    <3>2. CASE s[1] \notin job.writes
      BY <3>2, MergedFacts
    <3> QED
      BY <3>1, <3>2
  <2> QED
    BY <2>1, <2>3 DEF PrincipalDue
<1> QED
  BY <1>1, <1>2

\* A request that is underway goes on.
LEMMA ContinueOrderly ==
  ASSUME IInv, PrincipalDue, ~lost, Orderly, NEW w \in Workers, Continue(w), ~lost'
  PROVE  Orderly'
<1>1. CASE Look(w)
  BY <1>1, LookOrderly
<1>2. CASE ReadSchedule(w)
  BY <1>2, ReadScheduleOrderly
<1>3. CASE Apply(w)
  BY <1>3, ApplyOrderly
<1>4. CASE Total(w)
  BY <1>4, TotalOrderly
<1>5. CASE CommitPayment(w)
  BY <1>5, CommitPaymentOrderly
<1>6. CASE Refresh(w)
  BY <1>6, RefreshOrderly
<1>7. CASE CommitSweep(w)
  BY <1>7, CommitSweepOrderly
<1>8. CASE SaveTerms(w)
  BY <1>8, SaveTermsOrderly
<1>9. CASE CommitRestructure(w)
  BY <1>9, CommitRestructureOrderly
<1>10. CASE CommitWriteOff(w)
  BY <1>10, CommitWriteOffOrderly
<1>11. CASE CommitDisbursement(w)
  BY <1>11, CommitDisbursementOrderly
<1>12. CASE Break(w)
  <2>1. RollBack(w) /\ UNCHANGED <<loan, schedule, age>>
    BY <1>12 DEF Break
  <2>2. LoanFits(loan', schedule)
    BY <2>1 DEF Orderly
  <2> QED
    BY <2>1, <2>2, RollBackOrderly
<1> QED
  BY <1>1, <1>2, <1>3, <1>4, <1>5, <1>6, <1>7, <1>8, <1>9, <1>10, <1>11, <1>12 DEF Continue

Commit(w) == CommitPayment(w) \/ CommitSweep(w) \/ CommitRestructure(w)

\* Only commits touch the amounts of the schedule, and what was lost stays lost.
LEMMA StepsElsewhere ==
  ASSUME [Next]_vars
  PROVE  UNCHANGED <<schedule, lost>> \/ MarkOverdue \/ \E w \in Workers : Commit(w)
<1>1. CASE UNCHANGED vars
  BY <1>1 DEF vars
<1>2. ASSUME NEW w \in Workers, Continue(w)
      PROVE  UNCHANGED <<schedule, lost>> \/ Commit(w)
  <2>1. Look(w) => UNCHANGED <<schedule, lost>>
    BY DEF Look
  <2>2. ReadSchedule(w) => UNCHANGED <<schedule, lost>>
    BY DEF ReadSchedule
  <2>3. Apply(w) => UNCHANGED <<schedule, lost>>
    BY DEF Apply
  <2>4. Total(w) => UNCHANGED <<schedule, lost>>
    BY DEF Total
  <2>5. Refresh(w) => UNCHANGED <<schedule, lost>>
    BY DEF Refresh
  <2>6. SaveTerms(w) => UNCHANGED <<schedule, lost>>
    BY DEF SaveTerms
  <2>7. CommitWriteOff(w) => UNCHANGED <<schedule, lost>>
    BY DEF CommitWriteOff
  <2>8. CommitDisbursement(w) => UNCHANGED <<schedule, lost>>
    BY DEF CommitDisbursement
  <2>9. Break(w) => UNCHANGED <<schedule, lost>>
    BY DEF Break
  <2> QED
    BY <1>2, <2>1, <2>2, <2>3, <2>4, <2>5, <2>6, <2>7, <2>8, <2>9 DEF Continue, Commit
<1>3. ASSUME NEW w \in Workers, NEW kind \in {"desk", "mpesa"}, NEW r \in Receipts,
             NEW a \in Amounts, BeginRepayment(w, kind, r, a)
      PROVE  UNCHANGED <<schedule, lost>>
  BY <1>3 DEF BeginRepayment, Begin
<1>4. ASSUME NEW w \in Workers, NEW a \in Amounts, BeginOffset(w, a)
      PROVE  UNCHANGED <<schedule, lost>>
  BY <1>4 DEF BeginOffset, Begin
<1>5. ASSUME NEW w \in Workers,
             BeginSweep(w) \/ BeginRestructure(w) \/ BeginWriteOff(w) \/ BeginDisbursement(w)
      PROVE  UNCHANGED <<schedule, lost>>
  BY <1>5 DEF BeginSweep, BeginRestructure, BeginWriteOff, BeginDisbursement, Begin
<1>6. CASE AskRestructure
  BY <1>6 DEF AskRestructure
<1>7. ASSUME NEW i \in Row, GrowOlder(i)
      PROVE  UNCHANGED <<schedule, lost>>
  BY <1>7 DEF GrowOlder
<1> QED
  BY <1>1, <1>2, <1>3, <1>4, <1>5, <1>6, <1>7 DEF Next

\* No step undoes a loss.
LEMMA LostForever == IInv /\ [Next]_vars /\ lost => lost'
BY StepsElsewhere DEF IInv, TypeOK, MarkOverdue, Commit, CommitPayment, CommitSweep, CommitRestructure

LEMMA NextOrderly == IInv /\ SInv /\ [Next]_vars => SInv'
<1> SUFFICES ASSUME IInv, SInv, [Next]_vars PROVE SInv'
  OBVIOUS
<1>1. PrincipalDue'
  <2>1. PrincipalDue
    BY DEF SInv
  <2>2. CASE UNCHANGED schedule
    BY <2>1, <2>2 DEF PrincipalDue
  <2>3. ASSUME NEW w \in Workers, Commit(w) PROVE PrincipalDue'
    BY <2>1, <2>3, CommitsLend DEF Commit
  <2>4. CASE MarkOverdue
    BY <2>1, <2>4, MarkOverdueAmounts DEF IInv, PrincipalDue
  <2> QED
    BY <2>2, <2>3, <2>4, StepsElsewhere
<1>2. SUFFICES ASSUME ~lost' PROVE Orderly'
  BY <1>1 DEF SInv
<1>3. ~lost
  BY <1>2, LostForever
<1>4. Orderly /\ PrincipalDue
  BY <1>3 DEF SInv
<1>5. CASE UNCHANGED vars
  BY <1>4, <1>5, UntouchedOrderly DEF vars
<1>6. ASSUME NEW w \in Workers, Continue(w) PROVE Orderly'
  BY <1>2, <1>3, <1>4, <1>6, ContinueOrderly
<1>7. ASSUME NEW w \in Workers,
             \/ \E kind \in {"desk", "mpesa"}, r \in Receipts, a \in Amounts :
                   BeginRepayment(w, kind, r, a)
             \/ \E a \in Amounts : BeginOffset(w, a)
      PROVE  Orderly'
  BY <1>4, <1>7, BeginPaymentOrderly
<1>8. ASSUME NEW w \in Workers, BeginSweep(w) PROVE Orderly'
  BY <1>4, <1>8, BeginSweepOrderly
<1>9. ASSUME NEW w \in Workers, BeginRestructure(w) PROVE Orderly'
  BY <1>3, <1>4, <1>9, BeginRestructureOrderly
<1>10. ASSUME NEW w \in Workers, BeginWriteOff(w) PROVE Orderly'
  BY <1>4, <1>10, BeginWriteOffOrderly
<1>11. ASSUME NEW w \in Workers, BeginDisbursement(w) PROVE Orderly'
  BY <1>4, <1>11, BeginDisbursementOrderly
<1>12. CASE AskRestructure
  BY <1>4, <1>12, UntouchedOrderly DEF AskRestructure
<1>13. ASSUME NEW i \in Row, GrowOlder(i) PROVE Orderly'
  BY <1>4, <1>13, GrowOlderOrderly
<1>14. CASE MarkOverdue
  BY <1>4, <1>14, MarkOverdueOrderly
<1> QED
  BY <1>5, <1>6, <1>7, <1>8, <1>9, <1>10, <1>11, <1>12, <1>13, <1>14 DEF Next

LEMMA SpecOrderly == Spec => [](IInv /\ SInv)
<1>1. Init => IInv /\ SInv
  BY InitInv, InitOrderly
<1>2. IInv /\ SInv /\ [Next]_vars => (IInv /\ SInv)'
  BY NextInv, NextOrderly
<1> QED
  BY <1>1, <1>2, PTL DEF Spec

\* Unless one payment has overtaken another, a loan that counts as paid owes
\* nothing, however payments, offsets, sweeps and restructurings overlap.
THEOREM PaidLoansOweNothing == Spec => []PaidOwesNothing
<1>1. IInv /\ SInv => PaidOwesNothing
  <2>1. SUFFICES ASSUME IInv, SInv, loan.status = "PAID", ~lost PROVE ~Owes(Owed(schedule))
    BY DEF PaidOwesNothing
  <2>2. AllSettled(schedule) /\ schedule \in Schedule
    BY <2>1 DEF SInv, Orderly, LoanFits, Settled, IInv, TypeOK
  <2> QED
    BY <2>2, OwesNothing
<1> QED
  BY <1>1, SpecOrderly, PTL

\* Unless one payment has overtaken another, a settled loan is taken up again
\* only by a request that had read it before it was settled.
THEOREM SettledLoansStay == Spec => SettledIsFinal
<1> DEFINE Excused == \E w \in Workers :
               At(w, "save") /\ (work[w].status \notin Settled \/ work[w].since = "paid")
<1>1. IInv /\ SInv /\ [Next]_vars =>
          [(loan.status \in Settled /\ loan'.status \notin Settled /\ ~lost) => Excused]_vars
  <2>1. SUFFICES ASSUME IInv, SInv, Next, loan.status \in Settled, loan'.status \notin Settled,
                        ~lost
                 PROVE  Excused
    OBVIOUS
  <2>2. Orderly /\ AllSettled(schedule) /\ loan \in Loan /\ work \in [Workers -> Job]
        /\ schedule \in Schedule
    BY <2>1 DEF SInv, Orderly, LoanFits, IInv, TypeOK
  <2>3. ASSUME NEW w \in Workers, CommitPayment(w) PROVE Excused
    <3>1. /\ work[w].step = "save" /\ work[w].kind \in Payer /\ work[w] \in Job
          /\ Consistent(work[w], schedule) /\ Fits(work[w], schedule, age, Threatened)
      BY <2>1, <2>2, <2>3 DEF CommitPayment, At, Is, IInv, Sound, RequestsConsistent, Orderly,
                              Threatened
    <3>2. work[w].since # "nothing"
      <4>1. SUFFICES ASSUME work[w].since = "nothing" PROVE FALSE
        OBVIOUS
      <4>2. PICK s \in Slot : work[w].taken[s] > 0
        BY <3>1, <4>1 DEF Fits, PaymentFits
      <4> QED
        BY <2>1, <2>2, <3>1, <4>1, <4>2, TakesWhatIsOwed DEF AllSettled
    <3>3. work[w].since = "paid"
      BY <3>1, <3>2 DEF Consistent, PaymentSaved
    <3> QED
      BY <3>1, <3>3 DEF At
  <2>4. ASSUME NEW w \in Workers, CommitSweep(w) PROVE Excused
    <3>1. SweepFits(work[w], schedule, age) /\ work[w].step = "save"
      BY <2>2, <2>4 DEF CommitSweep, At, Is, Orderly, Fits
    <3>2. work[w].status \in Settled => ~Owes(work[w].due)
      BY <3>1 DEF SweepFits
    <3>3. loan'.status = StatusAfterSweep(work[w], Merged(work[w]))
      BY <2>4 DEF CommitSweep
    <3>4. Owes(work[w].due)
      BY <2>1, <3>3 DEF StatusAfterSweep, Settled
    <3> QED
      BY <3>1, <3>2, <3>4 DEF At
  <2>5. ASSUME NEW w \in Workers,
               CommitRestructure(w) \/ CommitWriteOff(w) \/ CommitDisbursement(w)
        PROVE  Excused
    <3>1. work[w].step = "save" /\ work[w].kind \in {"restructure", "write off", "disburse"}
      BY <2>5 DEF CommitRestructure, CommitWriteOff, CommitDisbursement, At, Is
    <3>2. work[w].status \notin Settled
      BY <2>2, <3>1 DEF Orderly, Fits
    <3> QED
      BY <3>1, <3>2 DEF At
  <2>6. loan' # loan
    BY <2>1
  <2>7. ASSUME NEW w \in Workers, Continue(w) PROVE Excused
    <3>1. ~(Look(w) \/ ReadSchedule(w) \/ Apply(w) \/ Total(w) \/ Refresh(w) \/ SaveTerms(w)
            \/ Break(w))
      BY <2>6 DEF Look, ReadSchedule, Apply, Total, Refresh, SaveTerms, Break
    <3> QED
      BY <2>3, <2>4, <2>5, <2>7, <3>1 DEF Continue
  <2>8. \A w \in Workers :
            /\ \A kind \in {"desk", "mpesa"}, r \in Receipts, a \in Amounts :
                   ~BeginRepayment(w, kind, r, a)
            /\ \A a \in Amounts : ~BeginOffset(w, a)
            /\ ~BeginSweep(w) /\ ~BeginRestructure(w) /\ ~BeginWriteOff(w)
            /\ ~BeginDisbursement(w)
    BY <2>6 DEF BeginRepayment, BeginOffset, BeginSweep, BeginRestructure, BeginWriteOff,
                BeginDisbursement, Begin
  <2>9. ~AskRestructure /\ ~MarkOverdue /\ \A i \in Row : ~GrowOlder(i)
    BY <2>6 DEF AskRestructure, MarkOverdue, GrowOlder
  <2> HIDE DEF Excused
  <2> QED
    BY <2>1, <2>7, <2>8, <2>9 DEF Next
<1> QED
  BY <1>1, SpecOrderly, PTL DEF Spec, SettledIsFinal
=============================================================================
