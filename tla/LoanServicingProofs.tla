------------------------- MODULE LoanServicingProofs -------------------------
(***************************************************************************)
(* What holds of LoanServicing for any schedule, payments, processes and   *)
(* bounds: its types; that no installment is credited with more than it    *)
(* expects; that its penalty is the one in the journal; that the schedule  *)
(* shows what the journal has received.  The inductive invariant says what *)
(* a request that has read rows, or has saved some, knows of the schedule. *)
(***************************************************************************)
EXTENDS LoanServicing, TLAPS

Held(j) == IF j.step \in {"total", "save"} THEN j.writes ELSE {}

\* Rows that were read expect no more than the schedule does: only a sweep
\* raises what an installment expects, and there is one.  As long as nobody
\* has paid they show what was paid.
ReadIsOld(j, sch) ==
    \A s \in Slot :
        /\ j.rows.paid[s] <= j.rows.expected[s]
        /\ j.rows.expected[s] <= sch.expected[s]
        /\ j.kind = "sweep" => j.rows.expected[s] = sch.expected[s]
        /\ j.since = "nothing" => j.rows.paid[s] = sch.paid[s]

\* Rows that a payment has saved differ from the schedule by what it takes.
PaymentSaved(j, sch) ==
    /\ j.writes # {}
    /\ j.since \in {"nothing", "paid"}
    /\ \A s \in Slot :
        /\ s[1] \notin j.writes => j.taken[s] = 0
        /\ s[1] \in j.writes =>
              /\ j.rows.paid[s] <= j.rows.expected[s]
              /\ j.rows.expected[s] = sch.expected[s]
              /\ j.since = "nothing" => j.rows.paid[s] = sch.paid[s] + j.taken[s]

\* Rows that a sweep has saved differ from the schedule by what it charges.
SweepSaved(j, sch) ==
    /\ j.charges \subseteq j.writes
    /\ \A s \in Slot :
        s[1] \in j.writes =>
            /\ j.rows.paid[s] = sch.paid[s]
            /\ (s[2] # "penalty" \/ s[1] \notin j.charges) => j.rows.expected[s] = sch.expected[s]
            /\ (s[2] = "penalty" /\ s[1] \in j.charges) =>
                  j.rows.expected[s] = Charge /\ sch.expected[s] = 0

Consistent(j, sch) ==
    /\ j.kind \in Payer => j.receipt # None
    /\ j.step = "write" /\ j.since # "replaced" => ReadIsOld(j, sch)
    /\ j.step \in {"total", "save"} /\ j.kind \in Payer => PaymentSaved(j, sch)
    /\ j.step \in {"total", "save"} /\ j.kind = "sweep" => SweepSaved(j, sch)
    /\ j.kind \notin Payer \cup {"sweep"} => j.writes = {}
    /\ j.step \in {"write", "total"} => j.kind \in Payer \cup {"sweep"}

\* Two requests neither hold the same row nor sweep.
Apart(j, k) == Held(j) \cap Held(k) = {} /\ ~(j.kind = "sweep" /\ k.kind = "sweep")

RequestsConsistent == \A w \in Workers : Consistent(work[w], schedule)
RequestsApart == \A v, w \in Workers : v # w => Apart(work[v], work[w])
NothingYet == posted = {} => received = Nothing

Sound ==
    /\ PaidWithinExpected /\ PenaltiesAreBooked /\ BooksFollowSchedule
    /\ RequestsConsistent /\ RequestsApart /\ NothingYet
IInv == TypeOK /\ Sound

-----------------------------------------------------------------------------
(* Types of what the operators return.                                     *)

LEMMA ConstantTypes ==
    /\ NewSchedule \in Schedule
    /\ Nothing \in [Slot -> Nat]
    /\ Idle \in Job
    /\ NewLoan \in Loan
<1>1. Nothing \in [Slot -> Nat]
  BY DEF Nothing
<1>2. [s \in Slot |-> CASE s[2] = "principal" -> Principal
                        [] s[2] = "interest"  -> Interest
                        [] s[2] = "penalty"   -> 0] \in [Slot -> Nat]
  BY LoanAssumption DEF Slot, Component
<1>3. NewSchedule \in Schedule
  BY <1>1, <1>2 DEF NewSchedule, Schedule, InstallmentStatus
<1>4. NewLoan \in Loan
  BY <1>3 DEF NewLoan, Loan, LoanStatus, Schedule
<1>5. Idle \in Job
  BY <1>1, <1>3 DEF Idle, Job, Step, LoanStatus
<1> QED
  BY <1>1, <1>3, <1>4, <1>5

LEMMA OwedType ==
  ASSUME NEW rows \in Schedule
  PROVE  Owed(rows) \in [Slot -> Nat]
<1>1. \A s \in Slot : rows.paid[s] \in Nat /\ rows.expected[s] \in Nat
  BY DEF Schedule
<1> QED
  BY <1>1 DEF Owed

LEMMA MergedType ==
  ASSUME schedule \in Schedule, NEW job \in Job
  PROVE  Merged(job) \in Schedule
<1>1. job.rows \in Schedule
  BY DEF Job
<1>2. [s \in Slot |-> IF s[1] \in job.writes THEN job.rows.expected[s]
                      ELSE schedule.expected[s]] \in [Slot -> Nat]
  BY <1>1 DEF Schedule
<1>3. [s \in Slot |-> IF s[1] \in job.writes THEN job.rows.paid[s]
                      ELSE schedule.paid[s]] \in [Slot -> Nat]
  BY <1>1 DEF Schedule
<1>4. [i \in Row |-> IF i \in job.writes THEN job.rows.status[i]
                     ELSE schedule.status[i]] \in [Row -> InstallmentStatus]
  BY <1>1 DEF Schedule
<1> QED
  BY <1>2, <1>3, <1>4 DEF Merged, Schedule

LEMMA StatusOfType ==
  ASSUME NEW rows, NEW paid, NEW i
  PROVE  StatusOf(rows, paid, i) \in InstallmentStatus
BY DEF StatusOf, InstallmentStatus

\* An allocation takes of each component at most what is owed, something in
\* all, and nothing of an installment it does not come by.
LEMMA AllocationsFit ==
  ASSUME NEW rows \in Schedule, NEW amount \in Nat, NEW taken \in Allocations(rows, amount)
  PROVE  /\ taken \in [Slot -> Nat]
         /\ \A s \in Slot : taken[s] <= Owed(rows)[s]
         /\ Visited(taken) # {}
         /\ Visited(taken) \subseteq Row
         /\ \A s \in Slot : s[1] \notin Visited(taken) => taken[s] = 0
<1> DEFINE owed == Owed(rows)
<1>1. owed \in [Slot -> Nat]
  BY OwedType
<1>2. PICK p \in Slot \X (1..amount) : p[2] <= owed[p[1]] /\ taken = UpTo(owed, p[1], p[2])
  BY DEF Allocations
<1>3. p[1] \in Slot /\ p[2] \in Nat /\ p[2] > 0
  BY <1>2
<1> HIDE DEF owed
<1>4. \A t \in Slot : taken[t] = IF Before(t, p[1]) THEN owed[t] ELSE IF t = p[1] THEN p[2] ELSE 0
  BY <1>2 DEF UpTo
<1>5. taken \in [Slot -> Nat]
  BY <1>1, <1>2, <1>3 DEF UpTo
<1>6. \A s \in Slot : taken[s] <= owed[s]
  BY <1>1, <1>2, <1>3, <1>4
<1>7. \A s \in Slot : s[1] \in Row /\ s[1] \in Int /\ s[2] \in Component
  <2>1. \A i \in Row : i \in Int
    BY DEF Row
  <2> QED
    BY <2>1 DEF Slot
<1>11. ~Before(p[1], p[1])
  <2>1. p[1][1] \in Int /\ p[1][2] \in Component
    BY <1>3, <1>7
  <2>2. ~(p[1][1] < p[1][1])
    BY <2>1
  <2>3. Rank(p[1][2]) \in Int
    BY <2>1 DEF Rank, Component
  <2> QED
    BY <2>2, <2>3 DEF Before
<1>8. taken[p[1]] > 0
  BY <1>3, <1>4, <1>11
<1>9. p[1][1] \in Visited(taken)
  BY <1>3, <1>7, <1>8 DEF Visited
<1>10. \A s \in Slot : s[1] \notin Visited(taken) => taken[s] = 0
  BY <1>5, <1>7 DEF Visited
<1> QED
  BY <1>5, <1>6, <1>9, <1>10 DEF owed, Visited

\* What a payment saves: what it takes is added to what it has read as paid.
LEMMA CreditedFacts ==
  ASSUME schedule \in Schedule, NEW rows \in Schedule, NEW taken \in [Slot -> Nat]
  PROVE  /\ Credited(rows, taken) \in Schedule
         /\ Credited(rows, taken).expected = schedule.expected
         /\ \A s \in Slot : s[1] \in Visited(taken) =>
                Credited(rows, taken).paid[s] = rows.paid[s] + taken[s]
<1> DEFINE paid == [s \in Slot |-> rows.paid[s] + taken[s]]
           newPaid == [s \in Slot |-> IF s[1] \in Visited(taken) THEN paid[s]
                                      ELSE schedule.paid[s]]
           status == [i \in Row |-> IF i \in Visited(taken) THEN StatusOf(rows, paid, i)
                                    ELSE schedule.status[i]]
<1>1. paid \in [Slot -> Nat] /\ newPaid \in [Slot -> Nat]
  <2>1. \A s \in Slot : rows.paid[s] \in Nat /\ schedule.paid[s] \in Nat /\ taken[s] \in Nat
    BY DEF Schedule
  <2> QED
    BY <2>1
<1>2. status \in [Row -> InstallmentStatus]
  <2>1. \A i \in Row : schedule.status[i] \in InstallmentStatus
    BY DEF Schedule
  <2> QED
    BY <2>1, StatusOfType
<1>3. Credited(rows, taken) = [schedule EXCEPT !.paid = newPaid, !.status = status]
  BY DEF Credited
<1>4. \A s \in Slot : s[1] \in Visited(taken) => newPaid[s] = rows.paid[s] + taken[s]
  OBVIOUS
<1> HIDE DEF newPaid, status, paid
<1>5. Credited(rows, taken) \in Schedule
  BY <1>1, <1>2, <1>3 DEF Schedule
<1>6. Credited(rows, taken).expected = schedule.expected /\ Credited(rows, taken).paid = newPaid
  BY <1>3 DEF Schedule
<1> QED
  BY <1>4, <1>5, <1>6

\* What a sweep saves: the penalties it charges.
LEMMA RefreshedFacts ==
  ASSUME schedule \in Schedule, NEW rows \in Schedule
  PROVE  /\ Refreshed(rows) \in Schedule
         /\ Refreshed(rows).paid = schedule.paid
         /\ \A s \in Slot : Refreshed(rows).expected[s] =
                IF s[2] = "penalty" /\ s[1] \in Charged(rows) THEN Charge ELSE schedule.expected[s]
<1> DEFINE expected == [s \in Slot |-> IF s[2] = "penalty" /\ s[1] \in Charged(rows) THEN Charge
                                       ELSE schedule.expected[s]]
           status == [i \in Row |-> IF i \in Revised(rows) THEN StatusOf(rows, rows.paid, i)
                                    ELSE schedule.status[i]]
<1>1. expected \in [Slot -> Nat]
  <2>1. \A s \in Slot : schedule.expected[s] \in Nat
    BY DEF Schedule
  <2> QED
    BY <2>1, LoanAssumption
<1>2. status \in [Row -> InstallmentStatus]
  <2>1. \A i \in Row : schedule.status[i] \in InstallmentStatus
    BY DEF Schedule
  <2> QED
    BY <2>1, StatusOfType
<1>3. Refreshed(rows) = [schedule EXCEPT !.expected = expected, !.status = status]
  BY DEF Refreshed
<1>4. \A s \in Slot : expected[s] = IF s[2] = "penalty" /\ s[1] \in Charged(rows) THEN Charge
                                   ELSE schedule.expected[s]
  OBVIOUS
<1> HIDE DEF expected, status
<1> QED
  BY <1>1, <1>2, <1>3, <1>4 DEF Schedule

\* A schedule that a request sees: its own rows, and the others.
LEMMA MergedFacts ==
  ASSUME NEW job, NEW s \in Slot
  PROVE  /\ s[1] \in job.writes => Merged(job).expected[s] = job.rows.expected[s]
         /\ s[1] \in job.writes => Merged(job).paid[s] = job.rows.paid[s]
         /\ s[1] \notin job.writes => Merged(job).expected[s] = schedule.expected[s]
         /\ s[1] \notin job.writes => Merged(job).paid[s] = schedule.paid[s]
BY DEF Merged

-----------------------------------------------------------------------------
(* Requests.                                                               *)

\* A process that does nothing is in nobody's way.
LEMMA IdleFits == \A sch, k : Consistent(Idle, sch) /\ Apart(Idle, k) /\ Apart(k, Idle)
<1>1. Idle.kind = None /\ Idle.step = "idle" /\ Idle.writes = {}
  BY DEF Idle
<1>2. None \notin Payer \cup {"sweep"}
  BY LoanAssumption DEF Payer, Kind
<1>3. Held(Idle) = {}
  BY <1>1 DEF Held
<1> QED
  BY <1>1, <1>2, <1>3 DEF Consistent, Apart

LEMMA InitInv == Init => IInv
<1> SUFFICES ASSUME Init PROVE IInv
  OBVIOUS
<1>1. \A w \in Workers : work[w] = Idle
  BY DEF Init
<1>2. TypeOK
  <2>1. work \in [Workers -> Job]
    BY <1>1, ConstantTypes DEF Init
  <2>2. age \in [Row -> 0..MaxAge] /\ writeoffs \in 0..MaxWriteOffs
    BY LoanAssumption DEF Init
  <2> QED
    BY <2>1, <2>2, ConstantTypes DEF Init, TypeOK
<1>3. RequestsConsistent /\ RequestsApart
  BY <1>1, IdleFits DEF RequestsConsistent, RequestsApart
<1>4. PaidWithinExpected
  <2>1. \A s \in Slot : schedule.paid[s] = 0 /\ schedule.expected[s] \in Nat
    BY ConstantTypes DEF Init, NewSchedule, Nothing, Schedule
  <2> QED
    BY <2>1 DEF PaidWithinExpected
<1>5. PenaltiesAreBooked
  <2>1. \A i \in Row : <<i, "penalty">> \in Slot
    BY DEF Slot, Component
  <2> QED
    BY <2>1 DEF Init, NewSchedule, PenaltiesAreBooked
<1>6. BooksFollowSchedule /\ NothingYet
  BY DEF Init, NewSchedule, Nothing, BooksFollowSchedule, NothingYet
<1> QED
  BY <1>2, <1>3, <1>4, <1>5, <1>6 DEF IInv, Sound

\* A request goes on: it remains consistent with the schedule and apart from
\* the others, who do not notice.
LEMMA OneJob ==
  ASSUME IInv, NEW w \in Workers, NEW j \in Job,
         work' = [work EXCEPT ![w] = j],
         UNCHANGED <<schedule, posted, received, charged, lost>>,
         Consistent(j, schedule),
         \A v \in Workers \ {w} : Apart(work[v], j)
  PROVE  Sound' /\ work' \in [Workers -> Job]
<1>0. work \in [Workers -> Job]
  BY DEF IInv, TypeOK
<1>1. \A v \in Workers : work'[v] = IF v = w THEN j ELSE work[v]
  BY <1>0
<1>2. \A v \in Workers : Consistent(work'[v], schedule)
  BY <1>1 DEF IInv, Sound, RequestsConsistent
<1>3. RequestsConsistent'
  BY <1>2 DEF RequestsConsistent
<1>4. \A v \in Workers \ {w} : Apart(j, work[v])
  BY DEF Apart
<1>5. RequestsApart'
  BY <1>1, <1>4 DEF IInv, Sound, RequestsApart
<1>6. PaidWithinExpected' /\ PenaltiesAreBooked' /\ BooksFollowSchedule' /\ NothingYet'
  BY DEF IInv, Sound, PaidWithinExpected, PenaltiesAreBooked, BooksFollowSchedule, NothingYet
<1> QED
  BY <1>0, <1>1, <1>3, <1>5, <1>6 DEF Sound

\* A request gives up.
LEMMA RollBackSound ==
  ASSUME IInv, NEW w \in Workers, RollBack(w),
         UNCHANGED <<schedule, posted, received, charged, lost>>
  PROVE  Sound' /\ work' \in [Workers -> Job]
BY OneJob, IdleFits, ConstantTypes DEF RollBack

\* A request that holds no rows, and does not sweep beside another.
LEMMA LightJob ==
  ASSUME IInv, NEW w \in Workers, NEW j \in Job,
         work' = [work EXCEPT ![w] = j],
         UNCHANGED <<schedule, posted, received, charged, lost>>,
         Consistent(j, schedule), Held(j) = {},
         j.kind = "sweep" => \A v \in Workers \ {w} : work[v].kind # "sweep"
  PROVE  Sound' /\ work' \in [Workers -> Job]
<1>1. \A v \in Workers \ {w} : Apart(work[v], j)
  BY DEF Apart
<1> QED
  BY <1>1, OneJob

\* A sweep knows that it is alone.
LEMMA OneSweep ==
  ASSUME IInv, NEW w \in Workers, work[w].kind = "sweep"
  PROVE  \A v \in Workers \ {w} : work[v].kind # "sweep"
BY DEF IInv, Sound, RequestsApart, Apart

LEMMA BeginSound ==
  ASSUME IInv, NEW w \in Workers, NEW job \in Job, Begin(w, job),
         job.writes = {}, job.step \notin {"write", "total"},
         job.step = "save" => job.kind \notin Payer \cup {"sweep"},
         job.kind \in Payer => job.receipt # None,
         job.kind = "sweep" => \A v \in Workers \ {w} : work[v].kind # "sweep"
  PROVE  Sound' /\ work' \in [Workers -> Job]
<1> DEFINE j == [job EXCEPT !.status = loan.status, !.defaulted = loan.defaulted]
<1>1. loan.status \in LoanStatus /\ loan.defaulted \in BOOLEAN
  BY DEF IInv, TypeOK, Loan
<1>2. j \in Job
  BY <1>1 DEF Job
<1>3. /\ j.writes = {} /\ j.step = job.step /\ j.kind = job.kind /\ j.receipt = job.receipt
  BY DEF Job
<1>4. work' = [work EXCEPT ![w] = j]
  BY DEF Begin
<1>5. UNCHANGED <<schedule, posted, received, charged, lost>>
  BY DEF Begin
<1> HIDE DEF j
<1>6. Held(j) = {}
  BY <1>3 DEF Held
<1>7. Consistent(j, schedule)
  BY <1>3 DEF Consistent
<1> QED
  BY <1>2, <1>3, <1>4, <1>5, <1>6, <1>7, LightJob

LEMMA BeginRepaymentSound ==
  ASSUME IInv, NEW w \in Workers, NEW kind \in {"desk", "mpesa"}, NEW r \in Receipts,
         NEW a \in Amounts, BeginRepayment(w, kind, r, a)
  PROVE  Sound' /\ work' \in [Workers -> Job]
<1> DEFINE job == [Idle EXCEPT !.kind = kind, !.step = "read", !.receipt = r, !.amount = a]
<1>1. a \in Nat /\ r # None
  BY LoanAssumption
<1>2. job \in Job
  <2>1. Idle \in Job /\ kind \in Kind \cup {None} /\ "read" \in Step
    BY ConstantTypes DEF Kind, Step
  <2> QED
    BY <1>1, <2>1 DEF Job
<1>3. job.writes = {} /\ job.step = "read" /\ job.receipt = r /\ job.kind = kind
  BY DEF Idle
<1>4. Begin(w, job)
  BY DEF BeginRepayment
<1> HIDE DEF job
<1> QED
  BY <1>1, <1>2, <1>3, <1>4, BeginSound

LEMMA BeginOffsetSound ==
  ASSUME IInv, NEW w \in Workers, NEW a \in Amounts, BeginOffset(w, a)
  PROVE  Sound' /\ work' \in [Workers -> Job]
<1> DEFINE job == [Idle EXCEPT !.kind = "offset", !.step = "read", !.receipt = Offset,
                               !.amount = a]
<1>1. a \in Nat /\ Offset # None
  BY LoanAssumption
<1>2. job \in Job
  <2>1. Idle \in Job /\ "offset" \in Kind \cup {None} /\ "read" \in Step
    BY ConstantTypes DEF Kind, Step
  <2> QED
    BY <1>1, <2>1 DEF Job
<1>3. job.writes = {} /\ job.step = "read" /\ job.receipt = Offset /\ job.kind = "offset"
  BY DEF Idle
<1>4. Begin(w, job)
  BY DEF BeginOffset
<1> HIDE DEF job
<1> QED
  BY <1>1, <1>2, <1>3, <1>4, BeginSound

LEMMA BeginSweepSound ==
  ASSUME IInv, NEW w \in Workers, BeginSweep(w)
  PROVE  Sound' /\ work' \in [Workers -> Job]
<1> DEFINE job == [Idle EXCEPT !.kind = "sweep", !.step = "look"]
<1>1. job \in Job
  BY ConstantTypes DEF Job, Kind, Step
<1>2. job.writes = {} /\ job.step = "look" /\ job.kind = "sweep"
  BY DEF Idle
<1>3. Begin(w, job) /\ \A v \in Workers : work[v].kind # "sweep"
  BY DEF BeginSweep, Is
<1> HIDE DEF job
<1> QED
  BY <1>1, <1>2, <1>3, BeginSound DEF Payer

LEMMA BeginRestructureSound ==
  ASSUME IInv, NEW w \in Workers, BeginRestructure(w)
  PROVE  Sound' /\ work' \in [Workers -> Job]
<1> DEFINE job == [Idle EXCEPT !.kind = "restructure", !.step = "read"]
<1>1. job \in Job
  BY ConstantTypes DEF Job, Kind, Step
<1>2. job.writes = {} /\ job.step = "read" /\ job.kind = "restructure"
  BY DEF Idle
<1>3. Begin(w, job)
  BY DEF BeginRestructure
<1> HIDE DEF job
<1> QED
  BY <1>1, <1>2, <1>3, BeginSound DEF Payer

LEMMA BeginDisbursementSound ==
  ASSUME IInv, NEW w \in Workers, BeginDisbursement(w)
  PROVE  Sound' /\ work' \in [Workers -> Job]
<1> DEFINE job == [Idle EXCEPT !.kind = "disburse", !.step = "save"]
<1>1. job \in Job
  BY ConstantTypes DEF Job, Kind, Step
<1>2. job.writes = {} /\ job.step = "save" /\ job.kind = "disburse"
  BY DEF Idle
<1>3. Begin(w, job)
  BY DEF BeginDisbursement
<1> HIDE DEF job
<1> QED
  BY <1>1, <1>2, <1>3, BeginSound DEF Payer

LEMMA BeginWriteOffSound ==
  ASSUME IInv, NEW w \in Workers, BeginWriteOff(w)
  PROVE  Sound' /\ work' \in [Workers -> Job]
<1> DEFINE j == [Idle EXCEPT !.kind = "write off", !.step = "save", !.status = loan.status]
<1>1. loan.status \in LoanStatus
  BY DEF IInv, TypeOK, Loan
<1>2. j \in Job
  BY <1>1, ConstantTypes DEF Job, Kind, Step
<1>3. j.writes = {} /\ j.step = "save" /\ j.kind = "write off"
  BY DEF Idle
<1>4. work' = [work EXCEPT ![w] = j] /\ UNCHANGED <<schedule, posted, received, charged, lost>>
  BY DEF BeginWriteOff
<1> HIDE DEF j
<1>5. Consistent(j, schedule) /\ Held(j) = {}
  BY <1>3 DEF Consistent, Held, Payer
<1> QED
  BY <1>2, <1>3, <1>4, <1>5, LightJob

\* A request reads on.
LEMMA LookSound ==
  ASSUME IInv, NEW w \in Workers, Look(w)
  PROVE  Sound' /\ work' \in [Workers -> Job]
<1> DEFINE j == [work[w] EXCEPT !.step = "read", !.status = loan.status,
                                !.defaulted = loan.defaulted]
<1>1. work[w] \in Job /\ loan.status \in LoanStatus /\ loan.defaulted \in BOOLEAN
  BY DEF IInv, TypeOK, Loan
<1>2. j \in Job
  BY <1>1 DEF Job, Step
<1>3. j.writes = work[w].writes /\ j.step = "read" /\ j.kind = work[w].kind
        /\ j.receipt = work[w].receipt
  BY <1>1 DEF Job
<1>4. work' = [work EXCEPT ![w] = j] /\ UNCHANGED <<schedule, posted, received, charged, lost>>
  BY DEF Look
<1>5. Consistent(work[w], schedule)
  BY DEF IInv, Sound, RequestsConsistent
<1> HIDE DEF j
<1>6. Consistent(j, schedule) /\ Held(j) = {}
  BY <1>3, <1>5 DEF Consistent, Held
<1> QED
  BY <1>2, <1>3, <1>4, <1>6, LightJob, OneSweep

LEMMA ReadScheduleSound ==
  ASSUME IInv, NEW w \in Workers, ReadSchedule(w)
  PROVE  Sound' /\ work' \in [Workers -> Job]
<1>0. UNCHANGED <<schedule, posted, received, charged, lost>>
  BY DEF ReadSchedule
<1>1. CASE RollBack(w)
  BY <1>0, <1>1, RollBackSound
<1>2. CASE work' = [work EXCEPT ![w].step = "write", ![w].rows = schedule]
  <2> DEFINE j == [work[w] EXCEPT !.step = "write", !.rows = schedule]
  <2>1. work[w] \in Job /\ schedule \in Schedule
    BY DEF IInv, TypeOK
  <2>2. j \in Job
    BY <2>1 DEF Job, Step
  <2>3. /\ j.writes = work[w].writes /\ j.step = "write" /\ j.kind = work[w].kind
        /\ j.receipt = work[w].receipt /\ j.rows = schedule
    BY <2>1 DEF Job
  <2>4. work' = [work EXCEPT ![w] = j]
    BY <1>2
  <2>5. Consistent(work[w], schedule)
    BY DEF IInv, Sound, RequestsConsistent
  <2>6. work[w].kind \in Payer \cup {"sweep"}
    BY DEF ReadSchedule, Is
  <2> HIDE DEF j
  <2>7. ReadIsOld(j, schedule)
    <3>1. \A s \in Slot : schedule.paid[s] <= schedule.expected[s]
      BY DEF IInv, Sound, PaidWithinExpected
    <3>2. \A s \in Slot : schedule.expected[s] \in Nat
      BY <2>1 DEF Schedule
    <3> QED
      BY <2>3, <3>1, <3>2 DEF ReadIsOld
  <2>8. Consistent(j, schedule) /\ Held(j) = {}
    BY <2>3, <2>5, <2>6, <2>7 DEF Consistent, Held
  <2> QED
    BY <1>0, <2>2, <2>3, <2>4, <2>8, LightJob, OneSweep
<1> QED
  BY <1>1, <1>2 DEF ReadSchedule

\* A request that is free to save finds none of its rows held.
LEMMA FreeRows ==
  ASSUME NEW w \in Workers, NEW v \in Workers, v # w, Free(w)
  PROVE  Wanted(w) \cap Held(work[v]) = {}
<1>1. HoldsRows(v) = Held(work[v])
  BY DEF HoldsRows, At, Held
<1> QED
  BY <1>1 DEF Free, Blocks, RowsBlock

LEMMA ApplySound ==
  ASSUME IInv, NEW w \in Workers, Apply(w)
  PROVE  Sound' /\ work' \in [Workers -> Job]
<1> DEFINE job == work[w]
           fits == Allocations(job.rows, job.amount)
<1>0. UNCHANGED <<schedule, posted, received, charged, lost>>
  BY DEF Apply
<1>1. CASE Gone(job) \/ fits = {} \/ job.receipt \in posted
  BY <1>0, <1>1, RollBackSound DEF Apply
<1>2. CASE ~(Gone(job) \/ fits = {} \/ job.receipt \in posted)
  <2>1. PICK taken \in fits :
           work' = [work EXCEPT ![w] =
               [job EXCEPT !.step = "total", !.amount = 0, !.taken = taken,
                           !.rows = Credited(job.rows, taken), !.writes = Visited(taken)]]
    BY <1>2 DEF Apply
  <2> DEFINE j == [job EXCEPT !.step = "total", !.amount = 0, !.taken = taken,
                              !.rows = Credited(job.rows, taken), !.writes = Visited(taken)]
  <2>2. /\ job \in Job /\ schedule \in Schedule
        /\ job.rows \in Schedule /\ job.amount \in Nat
        /\ job.since \in {"nothing", "paid", "replaced"}
    BY DEF IInv, TypeOK, Job
  <2>3. job.step = "write" /\ job.kind \in Payer /\ job.since # "replaced"
    BY <1>2 DEF Apply, At, Is, Gone
  <2>4. Consistent(job, schedule)
    BY DEF IInv, Sound, RequestsConsistent
  <2>5. ReadIsOld(job, schedule) /\ job.receipt # None
    BY <2>3, <2>4 DEF Consistent
  <2>6. /\ taken \in [Slot -> Nat] /\ Visited(taken) # {} /\ Visited(taken) \subseteq Row
        /\ \A s \in Slot : taken[s] <= Owed(job.rows)[s]
        /\ \A s \in Slot : s[1] \notin Visited(taken) => taken[s] = 0
    BY <2>2, AllocationsFit
  <2>7. /\ Credited(job.rows, taken) \in Schedule
        /\ Credited(job.rows, taken).expected = schedule.expected
        /\ \A s \in Slot : s[1] \in Visited(taken) =>
               Credited(job.rows, taken).paid[s] = job.rows.paid[s] + taken[s]
    BY <2>2, <2>6, CreditedFacts
  <2>8. j \in Job
    BY <2>2, <2>6, <2>7 DEF Job, Step
  <2>9. /\ j.writes = Visited(taken) /\ j.step = "total" /\ j.kind = job.kind
        /\ j.receipt = job.receipt /\ j.rows = Credited(job.rows, taken)
        /\ j.taken = taken /\ j.since = job.since
    BY <2>2 DEF Job
  <2>10. work' = [work EXCEPT ![w] = j]
    BY <2>1
  <2>11. j.kind # "sweep"
    BY <2>3, <2>9 DEF Payer
  <2> HIDE DEF j
  <2>12. PaymentSaved(j, schedule)
    <3>1. ASSUME NEW s \in Slot, s[1] \in Visited(taken)
          PROVE  /\ j.rows.paid[s] <= j.rows.expected[s]
                 /\ j.rows.expected[s] = schedule.expected[s]
                 /\ j.since = "nothing" => j.rows.paid[s] = schedule.paid[s] + j.taken[s]
      <4>1. j.rows.paid[s] = job.rows.paid[s] + taken[s]
        BY <2>7, <2>9, <3>1
      <4>2. j.rows.expected[s] = schedule.expected[s]
        BY <2>7, <2>9
      <4>3. /\ job.rows.paid[s] \in Nat /\ job.rows.expected[s] \in Nat /\ taken[s] \in Nat
            /\ schedule.expected[s] \in Nat /\ schedule.paid[s] \in Nat
        BY <2>2, <2>6 DEF Schedule
      <4>4. taken[s] <= IF job.rows.paid[s] < job.rows.expected[s]
                        THEN job.rows.expected[s] - job.rows.paid[s] ELSE 0
        BY <2>6 DEF Owed
      <4>5. /\ job.rows.paid[s] <= job.rows.expected[s]
            /\ job.rows.expected[s] <= schedule.expected[s]
            /\ job.since = "nothing" => job.rows.paid[s] = schedule.paid[s]
        BY <2>5 DEF ReadIsOld
      <4>6. job.rows.paid[s] + taken[s] <= schedule.expected[s]
        BY <4>3, <4>4, <4>5
      <4> QED
        BY <2>9, <4>1, <4>2, <4>5, <4>6
    <3>2. j.writes # {} /\ j.since \in {"nothing", "paid"}
      BY <2>2, <2>3, <2>6, <2>9
    <3>3. \A s \in Slot : s[1] \notin j.writes => j.taken[s] = 0
      BY <2>6, <2>9
    <3> QED
      BY <2>9, <3>1, <3>2, <3>3 DEF PaymentSaved
  <2>13. Consistent(j, schedule)
    BY <2>3, <2>5, <2>9, <2>11, <2>12 DEF Consistent
  <2>14. ASSUME NEW v \in Workers \ {w} PROVE Apart(work[v], j)
    <3>1. Visited(taken) \subseteq Wanted(w)
      BY <2>1, <2>3 DEF Wanted, At, Is
    <3>2. Wanted(w) \cap Held(work[v]) = {}
      BY FreeRows DEF Apply
    <3>3. Held(j) = Visited(taken)
      BY <2>9 DEF Held
    <3> QED
      BY <2>11, <3>1, <3>2, <3>3 DEF Apart
  <2> QED
    BY <1>0, <2>8, <2>10, <2>13, <2>14, OneJob
<1> QED
  BY <1>1, <1>2

LEMMA TotalSound ==
  ASSUME IInv, NEW w \in Workers, Total(w)
  PROVE  Sound' /\ work' \in [Workers -> Job]
<1> DEFINE due == Owed(Merged(work[w]))
           j == [work[w] EXCEPT !.step = "save", !.due = due]
<1>1. work[w] \in Job /\ schedule \in Schedule /\ work[w].step = "total"
  BY DEF IInv, TypeOK, Total, At
<1>2. due \in [Slot -> Nat]
  BY <1>1, MergedType, OwedType
<1>3. work' = [work EXCEPT ![w] = j] /\ UNCHANGED <<schedule, posted, received, charged, lost>>
  BY DEF Total
<1> HIDE DEF due
<1>4. j \in Job
  BY <1>1, <1>2 DEF Job, Step
<1>5. /\ j.writes = work[w].writes /\ j.step = "save" /\ j.kind = work[w].kind
      /\ j.receipt = work[w].receipt /\ j.rows = work[w].rows /\ j.taken = work[w].taken
      /\ j.since = work[w].since /\ j.charges = work[w].charges
  BY <1>1 DEF Job
<1>6. Consistent(work[w], schedule)
  BY DEF IInv, Sound, RequestsConsistent
<1> HIDE DEF j
<1>7. Consistent(j, schedule)
  <2>1. j.kind \in Payer => PaymentSaved(j, schedule)
    BY <1>1, <1>5, <1>6 DEF Consistent, PaymentSaved
  <2>2. j.kind = "sweep" => SweepSaved(j, schedule)
    BY <1>1, <1>5, <1>6 DEF Consistent, SweepSaved
  <2> QED
    BY <1>5, <1>6, <2>1, <2>2 DEF Consistent
<1>8. ASSUME NEW v \in Workers \ {w} PROVE Apart(work[v], j)
  <2>1. Held(j) = Held(work[w])
    BY <1>1, <1>5 DEF Held
  <2>2. Apart(work[v], work[w])
    BY DEF IInv, Sound, RequestsApart
  <2> QED
    BY <1>5, <2>1, <2>2 DEF Apart
<1> QED
  BY <1>3, <1>4, <1>7, <1>8, OneJob

\* A sweep charges installments that expect no penalty, and saves them.
LEMMA RefreshSound ==
  ASSUME IInv, NEW w \in Workers, Refresh(w)
  PROVE  Sound' /\ work' \in [Workers -> Job]
<1> DEFINE job == work[w]
<1>0. UNCHANGED <<schedule, posted, received, charged, lost>>
  BY DEF Refresh
<1>1. CASE Gone(job) /\ Wanted(w) # {}
  BY <1>0, <1>1, RollBackSound DEF Refresh
<1>2. CASE ~(Gone(job) /\ Wanted(w) # {})
  <2> DEFINE j == [job EXCEPT !.step = "total", !.rows = Refreshed(job.rows),
                              !.writes = Wanted(w), !.charges = Charged(job.rows)]
  <2>1. /\ job \in Job /\ schedule \in Schedule /\ job.rows \in Schedule
        /\ job.step = "write" /\ job.kind = "sweep"
    BY DEF IInv, TypeOK, Job, Refresh, At, Is
  <2>2. Wanted(w) = Charged(job.rows) \cup Revised(job.rows)
    BY <2>1 DEF Wanted, At, Is, Payer
  <2>3. Charged(job.rows) \subseteq Row /\ Revised(job.rows) \subseteq Row
    BY DEF Charged, Revised
  <2>4. /\ Refreshed(job.rows) \in Schedule
        /\ Refreshed(job.rows).paid = schedule.paid
        /\ \A s \in Slot : Refreshed(job.rows).expected[s] =
               IF s[2] = "penalty" /\ s[1] \in Charged(job.rows) THEN Charge
               ELSE schedule.expected[s]
    BY <2>1, RefreshedFacts
  <2>5. Wanted(w) \subseteq Row
    BY <2>2, <2>3
  <2>6. j \in Job
    BY <2>1, <2>3, <2>4, <2>5 DEF Job, Step
  <2>7. /\ j.writes = Wanted(w) /\ j.step = "total" /\ j.kind = "sweep"
        /\ j.rows = Refreshed(job.rows) /\ j.charges = Charged(job.rows)
    BY <2>1 DEF Job
  <2>8. work' = [work EXCEPT ![w] = j]
    BY <1>2 DEF Refresh
  <2>9. Consistent(job, schedule)
    BY DEF IInv, Sound, RequestsConsistent
  <2> HIDE DEF j
  <2>10. SweepSaved(j, schedule)
    <3>1. j.charges \subseteq j.writes
      BY <2>2, <2>7
    <3>2. ASSUME NEW s \in Slot, s[1] \in j.writes, s[2] = "penalty", s[1] \in j.charges
          PROVE  schedule.expected[s] = 0
      <4>1. job.since # "replaced"
        BY <1>2, <2>7, <3>2 DEF Gone
      <4>2. ReadIsOld(job, schedule)
        BY <2>1, <2>9, <4>1 DEF Consistent
      <4>3. job.rows.expected[s] = schedule.expected[s]
        BY <2>1, <4>2 DEF ReadIsOld
      <4>4. s = <<s[1], "penalty">>
        BY <3>2 DEF Slot
      <4>5. job.rows.expected[<<s[1], "penalty">>] = 0
        BY <2>7, <3>2 DEF Charged, Chargeable
      <4> QED
        BY <4>3, <4>4, <4>5
    <3> QED
      BY <2>4, <2>7, <3>1, <3>2 DEF SweepSaved
  <2>11. Consistent(j, schedule)
    BY <2>7, <2>10 DEF Consistent, Payer
  <2>12. ASSUME NEW v \in Workers \ {w} PROVE Apart(work[v], j)
    <3>1. Wanted(w) \cap Held(work[v]) = {}
      BY FreeRows DEF Refresh
    <3>2. Held(j) = Wanted(w)
      BY <2>7 DEF Held
    <3>3. work[v].kind # "sweep"
      BY <2>1, OneSweep
    <3> QED
      BY <3>1, <3>2, <3>3 DEF Apart
  <2> QED
    BY <1>0, <2>6, <2>8, <2>11, <2>12, OneJob
<1> QED
  BY <1>1, <1>2

LEMMA SaveTermsSound ==
  ASSUME IInv, NEW w \in Workers, SaveTerms(w)
  PROVE  Sound' /\ work' \in [Workers -> Job]
<1> DEFINE j == [work[w] EXCEPT !.step = "save"]
<1>1. work[w] \in Job /\ work[w].kind = "restructure"
  BY DEF IInv, TypeOK, SaveTerms, Is
<1>2. j \in Job
  BY <1>1 DEF Job, Step
<1>3. j.writes = work[w].writes /\ j.step = "save" /\ j.kind = "restructure"
  BY <1>1 DEF Job
<1>4. work' = [work EXCEPT ![w] = j] /\ UNCHANGED <<schedule, posted, received, charged, lost>>
  BY DEF SaveTerms
<1>5. Consistent(work[w], schedule)
  BY DEF IInv, Sound, RequestsConsistent
<1> HIDE DEF j
<1>6. j.writes = {}
  BY <1>1, <1>3, <1>5 DEF Consistent, Payer
<1>7. Consistent(j, schedule) /\ Held(j) = {}
  BY <1>3, <1>6 DEF Consistent, Held, Payer
<1> QED
  BY <1>2, <1>3, <1>4, <1>7, LightJob

-----------------------------------------------------------------------------
(* Commits.                                                                *)

\* The same request, told at most what became of the schedule.
Same(j, k) ==
    /\ j.kind = k.kind /\ j.step = k.step /\ j.receipt = k.receipt /\ j.rows = k.rows
    /\ j.writes = k.writes /\ j.taken = k.taken /\ j.charges = k.charges

Told(j, k, by) ==
    /\ j \in Job
    /\ Same(j, k)
    /\ j.since = IF k.step = "write" /\ k.since # "replaced" THEN by ELSE k.since

LEMMA OvertakenFacts ==
  ASSUME work \in [Workers -> Job], NEW w \in Workers, NEW by \in {"paid", "replaced"}
  PROVE  /\ Overtaken(w, by) \in [Workers -> Job]
         /\ Overtaken(w, by)[w] = Idle
         /\ \A v \in Workers \ {w} : Told(Overtaken(w, by)[v], work[v], by)
<1>2. ASSUME NEW v \in Workers
      PROVE  /\ [work[v] EXCEPT !.since = by] \in Job
             /\ Same([work[v] EXCEPT !.since = by], work[v])
             /\ [work[v] EXCEPT !.since = by].since = by
  <2>1. work[v] \in Job
    OBVIOUS
  <2> QED
    BY <2>1 DEF Job, Same
<1>3. ASSUME NEW v \in Workers \ {w}
      PROVE  Told(Overtaken(w, by)[v], work[v], by)
  <2>1. CASE work[v].step = "write" /\ work[v].since # "replaced"
    <3>1. Overtaken(w, by)[v] = [work[v] EXCEPT !.since = by]
      BY <2>1 DEF Overtaken, At
    <3> QED
      BY <1>2, <2>1, <3>1 DEF Told
  <2>2. CASE ~(work[v].step = "write" /\ work[v].since # "replaced")
    <3>1. Overtaken(w, by)[v] = work[v]
      BY <2>2 DEF Overtaken, At
    <3>2. work[v] \in Job
      OBVIOUS
    <3> QED
      BY <2>2, <3>1, <3>2 DEF Told, Same
  <2> QED
    BY <2>1, <2>2
<1>4. Overtaken(w, by)[w] = Idle
  BY DEF Overtaken
<1>5. \A v \in Workers : Overtaken(w, by)[v] \in Job
  BY <1>3, <1>4, ConstantTypes DEF Told
<1>6. Overtaken(w, by) = [v \in Workers |-> Overtaken(w, by)[v]]
  BY DEF Overtaken
<1> QED
  BY <1>3, <1>4, <1>5, <1>6

\* Another request, whose rows are others, is consistent with what one commits.
LEMMA OthersConsistent ==
  ASSUME schedule \in Schedule, NEW job \in Job, NEW k \in Job, NEW j \in Job,
         Same(j, k), Consistent(k, schedule),
         job.step = "save", Held(job) \cap Held(k) = {},
         j.since = k.since \/ (k.step = "write" /\ k.since # "replaced"),
         \A s \in Slot : schedule.expected[s] <= Merged(job).expected[s],
         k.kind = "sweep" => \A s \in Slot : schedule.expected[s] = Merged(job).expected[s],
         k.step = "write" /\ j.since = "nothing" =>
             k.since = "nothing" /\ \A s \in Slot : schedule.paid[s] = Merged(job).paid[s]
  PROVE  Consistent(j, Merged(job))
<1>1. ASSUME NEW s \in Slot, s[1] \in k.writes, k.step \in {"total", "save"}
      PROVE  Merged(job).expected[s] = schedule.expected[s] /\ Merged(job).paid[s] = schedule.paid[s]
  <2>1. s[1] \notin job.writes
    BY <1>1 DEF Held
  <2> QED
    BY <2>1, MergedFacts
<1>2. ASSUME j.step = "write", j.since # "replaced"
      PROVE  ReadIsOld(j, Merged(job))
  <2>1. ReadIsOld(k, schedule)
    BY <1>2 DEF Consistent, Same
  <2>2. ASSUME NEW s \in Slot
        PROVE  /\ j.rows.expected[s] \in Nat
               /\ schedule.expected[s] \in Nat
               /\ Merged(job).expected[s] \in Nat
    <3>1. j.rows \in Schedule /\ Merged(job) \in Schedule
      BY MergedType DEF Job
    <3> QED
      BY <3>1 DEF Schedule
  <2>3. k.step = "write" /\ j.kind = k.kind /\ j.rows = k.rows
    BY <1>2 DEF Same
  <2>4. ASSUME NEW s \in Slot
        PROVE  /\ j.rows.paid[s] <= j.rows.expected[s]
               /\ j.rows.expected[s] <= schedule.expected[s]
               /\ j.kind = "sweep" => j.rows.expected[s] = schedule.expected[s]
               /\ j.since = "nothing" => j.rows.paid[s] = schedule.paid[s]
    BY <2>1, <2>3 DEF ReadIsOld
  <2>5. ASSUME NEW s \in Slot
        PROVE  j.rows.expected[s] <= Merged(job).expected[s]
    <3>1. schedule.expected[s] <= Merged(job).expected[s]
      OBVIOUS
    <3> QED
      BY <2>2, <2>4, <3>1
  <2> QED
    BY <2>3, <2>4, <2>5 DEF ReadIsOld
<1>3. ASSUME j.step \in {"total", "save"}, j.kind \in Payer
      PROVE  PaymentSaved(j, Merged(job))
  <2>1. k.step \in {"total", "save"} /\ k.kind \in Payer /\ j.since = k.since
    BY <1>3 DEF Same
  <2>2. PaymentSaved(k, schedule)
    BY <2>1 DEF Consistent
  <2> QED
    BY <1>1, <2>1, <2>2 DEF PaymentSaved, Same
<1>4. ASSUME j.step \in {"total", "save"}, j.kind = "sweep"
      PROVE  SweepSaved(j, Merged(job))
  <2>1. k.step \in {"total", "save"} /\ k.kind = "sweep"
    BY <1>4 DEF Same
  <2>2. SweepSaved(k, schedule)
    BY <2>1 DEF Consistent
  <2> QED
    BY <1>1, <2>1, <2>2 DEF SweepSaved, Same
<1>5. /\ j.kind \in Payer => j.receipt # None
      /\ j.kind \notin Payer \cup {"sweep"} => j.writes = {}
      /\ j.step \in {"write", "total"} => j.kind \in Payer \cup {"sweep"}
  BY DEF Consistent, Same
<1> QED
  BY <1>2, <1>3, <1>4, <1>5 DEF Consistent

\* After a commit: its process does nothing, the others are as they were.
LEMMA AfterCommit ==
  ASSUME IInv, NEW w \in Workers, work'[w] = Idle,
         \A v \in Workers \ {w} : Same(work'[v], work[v]) /\ Consistent(work'[v], schedule')
  PROVE  RequestsConsistent' /\ RequestsApart'
<1>1. \A v \in Workers : Consistent(work'[v], schedule')
  BY IdleFits
<1>2. RequestsConsistent'
  BY <1>1 DEF RequestsConsistent
<1>3. \A v \in Workers \ {w} : Held(work'[v]) = Held(work[v]) /\ work'[v].kind = work[v].kind
  BY DEF Held, Same
<1>4. \A u, v \in Workers : u # v => Apart(work'[u], work'[v])
  <2>1. \A u, v \in Workers \ {w} : u # v => Apart(work[u], work[v])
    BY DEF IInv, Sound, RequestsApart
  <2>2. \A u, v \in Workers \ {w} : u # v => Apart(work'[u], work'[v])
    BY <1>3, <2>1 DEF Apart
  <2> QED
    BY <2>2, IdleFits
<1>5. RequestsApart'
  BY <1>4 DEF RequestsApart
<1> QED
  BY <1>2, <1>5

LEMMA CommitPaymentSound ==
  ASSUME IInv, NEW w \in Workers, CommitPayment(w)
  PROVE  Sound' /\ work' \in [Workers -> Job]
<1> DEFINE job == work[w]
           sch == Merged(job)
<1>1. /\ schedule' = sch
      /\ posted' = posted \cup {job.receipt}
      /\ received' = [s \in Slot |-> received[s] + job.taken[s]]
      /\ lost' = (lost \/ job.since = "paid")
      /\ work' = Overtaken(w, "paid")
      /\ UNCHANGED charged
  BY DEF CommitPayment
<1>2. /\ job \in Job /\ schedule \in Schedule /\ job.step = "save" /\ job.kind \in Payer
      /\ work \in [Workers -> Job] /\ received \in [Slot -> Nat]
  BY DEF IInv, TypeOK, CommitPayment, At, Is
<1>3. Consistent(job, schedule)
  BY DEF IInv, Sound, RequestsConsistent
<1>4. PaymentSaved(job, schedule)
  BY <1>2, <1>3 DEF Consistent
<1>5. /\ work' \in [Workers -> Job] /\ work'[w] = Idle
      /\ \A v \in Workers \ {w} : Told(work'[v], work[v], "paid")
  BY <1>1, <1>2, OvertakenFacts
<1>6. \A s \in Slot : sch.expected[s] = schedule.expected[s]
  BY <1>4, MergedFacts DEF PaymentSaved
<1>7. \A s \in Slot : schedule.expected[s] \in Nat /\ schedule.paid[s] \in Nat /\ job.taken[s] \in Nat
  BY <1>2 DEF Schedule, Job
<1>8. \A s \in Slot : job.since = "nothing" => sch.paid[s] = schedule.paid[s] + job.taken[s]
  <2>1. ASSUME NEW s \in Slot, job.since = "nothing", s[1] \in job.writes
        PROVE  sch.paid[s] = schedule.paid[s] + job.taken[s]
    BY <1>4, <2>1, MergedFacts DEF PaymentSaved
  <2>2. ASSUME NEW s \in Slot, s[1] \notin job.writes
        PROVE  sch.paid[s] = schedule.paid[s] + job.taken[s]
    <3>1. sch.paid[s] = schedule.paid[s] /\ job.taken[s] = 0
      BY <1>4, <2>2, MergedFacts DEF PaymentSaved
    <3> QED
      BY <1>7, <3>1
  <2> QED
    BY <2>1, <2>2
<1>9. \A s \in Slot : sch.paid[s] <= sch.expected[s]
  <2>1. \A s \in Slot : schedule.paid[s] <= schedule.expected[s]
    BY DEF IInv, Sound, PaidWithinExpected
  <2> QED
    BY <1>4, <2>1, MergedFacts DEF PaymentSaved
<1>10. ASSUME NEW v \in Workers \ {w}
       PROVE  Same(work'[v], work[v]) /\ Consistent(work'[v], sch)
  <2>1. Told(work'[v], work[v], "paid")
    BY <1>5
  <2>2. Consistent(work[v], schedule) /\ Apart(work[w], work[v])
    BY DEF IInv, Sound, RequestsConsistent, RequestsApart
  <2>3. /\ work'[v] \in Job /\ work[v] \in Job /\ Same(work'[v], work[v])
        /\ work'[v].since = work[v].since \/ (work[v].step = "write" /\ work[v].since # "replaced")
        /\ work[v].step = "write" => work'[v].since # "nothing"
    BY <1>2, <2>1 DEF Told
  <2>4. Held(job) \cap Held(work[v]) = {}
    BY <2>2 DEF Apart
  <2>5. \A s \in Slot : schedule.expected[s] <= sch.expected[s]
    BY <1>6, <1>7
  <2> HIDE DEF sch
  <2>6. Consistent(work'[v], Merged(job))
    BY <1>2, <1>6, <2>2, <2>3, <2>4, <2>5, OthersConsistent DEF sch
  <2> QED
    BY <2>3, <2>6 DEF sch
<1>11. RequestsConsistent' /\ RequestsApart'
  BY <1>1, <1>5, <1>10, AfterCommit
<1>12. PaidWithinExpected'
  BY <1>1, <1>9 DEF PaidWithinExpected
<1>13. PenaltiesAreBooked'
  <2>1. \A i \in Row : <<i, "penalty">> \in Slot
    BY DEF Slot, Component
  <2> QED
    BY <1>1, <1>6, <2>1 DEF IInv, Sound, PenaltiesAreBooked
<1>14. BooksFollowSchedule'
  <2>1. SUFFICES ASSUME ~lost' PROVE \A s \in Slot : received'[s] = schedule'.paid[s]
    BY DEF BooksFollowSchedule
  <2>2. ~lost /\ job.since = "nothing"
    BY <1>1, <1>4, <2>1 DEF PaymentSaved
  <2>3. \A s \in Slot : received[s] = schedule.paid[s]
    BY <2>2 DEF IInv, Sound, BooksFollowSchedule
  <2> QED
    BY <1>1, <1>8, <2>2, <2>3
<1>15. NothingYet'
  BY <1>1 DEF NothingYet
<1> QED
  BY <1>5, <1>11, <1>12, <1>13, <1>14, <1>15 DEF Sound

LEMMA CommitSweepSound ==
  ASSUME IInv, NEW w \in Workers, CommitSweep(w)
  PROVE  /\ Sound' /\ work' \in [Workers -> Job]
         /\ charged' \in [Row -> Nat]
<1> DEFINE job == work[w]
           sch == Merged(job)
<1>1. /\ schedule' = sch
      /\ charged' = [i \in Row |-> charged[i] + IF i \in job.charges THEN Charge ELSE 0]
      /\ work' = [work EXCEPT ![w] = Idle]
      /\ UNCHANGED <<posted, received, lost>>
  BY DEF CommitSweep, RollBack
<1>2. /\ job \in Job /\ schedule \in Schedule /\ job.step = "save" /\ job.kind = "sweep"
      /\ work \in [Workers -> Job] /\ charged \in [Row -> Nat]
  BY DEF IInv, TypeOK, CommitSweep, At, Is
<1>3. Consistent(job, schedule)
  BY DEF IInv, Sound, RequestsConsistent
<1>4. SweepSaved(job, schedule)
  BY <1>2, <1>3 DEF Consistent
<1>5. /\ work' \in [Workers -> Job] /\ work'[w] = Idle
      /\ \A v \in Workers \ {w} : work'[v] = work[v]
  BY <1>1, <1>2, ConstantTypes
<1>6. \A s \in Slot : schedule.expected[s] \in Nat /\ schedule.paid[s] \in Nat
  BY <1>2 DEF Schedule
<1>7. Charge \in Nat
  BY LoanAssumption
<1>8. ASSUME NEW s \in Slot
      PROVE  /\ sch.paid[s] = schedule.paid[s]
             /\ (s[2] = "penalty" /\ s[1] \in job.charges) =>
                    sch.expected[s] = Charge /\ schedule.expected[s] = 0
             /\ ~(s[2] = "penalty" /\ s[1] \in job.charges) =>
                    sch.expected[s] = schedule.expected[s]
  <2>1. CASE s[1] \in job.writes
    BY <1>4, <2>1, MergedFacts DEF SweepSaved
  <2>2. CASE s[1] \notin job.writes
    <3>1. s[1] \notin job.charges
      BY <1>4, <2>2 DEF SweepSaved
    <3> QED
      BY <2>2, <3>1, MergedFacts
  <2> QED
    BY <2>1, <2>2
<1>9. \A s \in Slot : schedule.expected[s] <= sch.expected[s]
  <2> HIDE DEF sch
  <2> QED
    BY <1>6, <1>7, <1>8
<1>10. ASSUME NEW v \in Workers \ {w}
       PROVE  Same(work'[v], work[v]) /\ Consistent(work'[v], sch)
  <2>1. Consistent(work[v], schedule) /\ Apart(work[w], work[v]) /\ work[v] \in Job
    BY <1>2 DEF IInv, Sound, RequestsConsistent, RequestsApart
  <2>2. Held(job) \cap Held(work[v]) = {} /\ work[v].kind # "sweep"
    BY <1>2, <2>1 DEF Apart
  <2>3. Same(work[v], work[v])
    BY DEF Same
  <2>4. \A s \in Slot : schedule.paid[s] = sch.paid[s]
    BY <1>8
  <2> HIDE DEF sch
  <2>5. Consistent(work[v], Merged(job))
    BY <1>2, <1>9, <2>1, <2>2, <2>3, <2>4, OthersConsistent DEF sch
  <2> QED
    BY <1>5, <2>3, <2>5 DEF sch
<1>11. RequestsConsistent' /\ RequestsApart'
  BY <1>1, <1>5, <1>10, AfterCommit
<1>12. PaidWithinExpected'
  <2>1. \A s \in Slot : schedule.paid[s] <= schedule.expected[s]
    BY DEF IInv, Sound, PaidWithinExpected
  <2>2. \A s \in Slot : sch.paid[s] = schedule.paid[s] /\ sch.expected[s] \in Nat
    <3>1. sch \in Schedule
      BY <1>2, MergedType
    <3> QED
      BY <1>8, <3>1 DEF Schedule
  <2>3. \A s \in Slot : sch.paid[s] <= sch.expected[s]
    <3> HIDE DEF sch
    <3> QED
      BY <1>6, <1>9, <2>1, <2>2
  <2> QED
    BY <1>1, <2>3 DEF PaidWithinExpected
<1>13. PenaltiesAreBooked'
  <2>1. ASSUME NEW i \in Row
        PROVE  sch.expected[<<i, "penalty">>] = charged'[i]
    <3>1. <<i, "penalty">> \in Slot
      BY DEF Slot, Component
    <3>2. schedule.expected[<<i, "penalty">>] = charged[i]
      BY DEF IInv, Sound, PenaltiesAreBooked
    <3>3. charged'[i] = charged[i] + IF i \in job.charges THEN Charge ELSE 0
      BY <1>1
    <3>4. CASE i \in job.charges
      <4>1. sch.expected[<<i, "penalty">>] = Charge /\ charged[i] = 0
        BY <1>8, <3>1, <3>2, <3>4
      <4> QED
        BY <1>7, <3>3, <3>4, <4>1
    <3>5. CASE i \notin job.charges
      <4>1. sch.expected[<<i, "penalty">>] = charged[i] /\ charged[i] \in Nat
        BY <1>2, <1>8, <3>1, <3>2, <3>5
      <4> QED
        BY <3>3, <3>5, <4>1
    <3> QED
      BY <3>4, <3>5
  <2> QED
    BY <1>1, <2>1 DEF PenaltiesAreBooked
<1>14. BooksFollowSchedule'
  BY <1>1, <1>8 DEF IInv, Sound, BooksFollowSchedule
<1>15. NothingYet'
  BY <1>1 DEF IInv, Sound, NothingYet
<1>16. charged' \in [Row -> Nat]
  BY <1>1, <1>2, <1>7
<1> QED
  BY <1>5, <1>11, <1>12, <1>13, <1>14, <1>15, <1>16 DEF Sound

\* A new schedule replaces one of which nobody holds a row.
LEMMA CommitRestructureSound ==
  ASSUME IInv, NEW w \in Workers, CommitRestructure(w)
  PROVE  Sound' /\ work' \in [Workers -> Job]
<1>1. /\ schedule' = NewSchedule
      /\ charged' = [i \in Row |-> 0]
      /\ lost' = (lost \/ posted # {})
      /\ work' = Overtaken(w, "replaced")
      /\ UNCHANGED <<posted, received>>
  BY DEF CommitRestructure
<1>2. work \in [Workers -> Job]
  BY DEF IInv, TypeOK
<1>3. /\ work' \in [Workers -> Job] /\ work'[w] = Idle
      /\ \A v \in Workers \ {w} : Told(work'[v], work[v], "replaced")
  BY <1>1, <1>2, OvertakenFacts
<1>4. Wanted(w) = Row
  <2>1. work[w].step = "save" /\ work[w].kind = "restructure"
    BY DEF CommitRestructure, At, Is
  <2> QED
    BY <2>1 DEF Wanted, At, Is
<1>5. ASSUME NEW v \in Workers \ {w}
      PROVE  Same(work'[v], work[v]) /\ Consistent(work'[v], NewSchedule)
  <2>1. Told(work'[v], work[v], "replaced") /\ Consistent(work[v], schedule) /\ work[v] \in Job
    BY <1>2, <1>3 DEF IInv, Sound, RequestsConsistent
  <2>2. Held(work[v]) = {}
    <3>1. Row \cap Held(work[v]) = {}
      BY <1>4, FreeRows DEF CommitRestructure
    <3>2. work[v].writes \subseteq Row
      BY <2>1 DEF Job
    <3> QED
      BY <3>1, <3>2 DEF Held
  <2>3. Same(work'[v], work[v]) /\ (work[v].step = "write" => work'[v].since = "replaced")
    BY <2>1 DEF Told
  <2>4. work[v].step \in {"total", "save"} => work[v].kind \notin Payer
    BY <2>1, <2>2 DEF Consistent, PaymentSaved, Held
  <2>5. work[v].step \in {"total", "save"} /\ work[v].kind = "sweep" =>
            SweepSaved(work'[v], NewSchedule)
    BY <2>1, <2>2, <2>3 DEF Consistent, SweepSaved, Held, Same
  <2> QED
    BY <2>1, <2>3, <2>4, <2>5 DEF Consistent, Same
<1>6. RequestsConsistent' /\ RequestsApart'
  BY <1>1, <1>3, <1>5, AfterCommit
<1>7. \A s \in Slot : NewSchedule.paid[s] = 0 /\ NewSchedule.expected[s] \in Nat
  BY ConstantTypes DEF NewSchedule, Nothing, Schedule
<1>8. PaidWithinExpected'
  BY <1>1, <1>7 DEF PaidWithinExpected
<1>9. PenaltiesAreBooked'
  <2>1. \A i \in Row : <<i, "penalty">> \in Slot
    BY DEF Slot, Component
  <2>2. \A i \in Row : NewSchedule.expected[<<i, "penalty">>] = 0
    BY <2>1 DEF NewSchedule
  <2> QED
    BY <1>1, <2>2 DEF PenaltiesAreBooked
<1>10. BooksFollowSchedule'
  BY <1>1, <1>7 DEF IInv, Sound, NothingYet, BooksFollowSchedule, Nothing
<1>11. NothingYet'
  BY <1>1 DEF IInv, Sound, NothingYet
<1> QED
  BY <1>3, <1>6, <1>8, <1>9, <1>10, <1>11 DEF Sound

\* Whoever changes neither schedule nor books nor requests.
LEMMA UntouchedSound ==
  ASSUME IInv, UNCHANGED <<schedule, posted, received, charged, lost, work>>
  PROVE  Sound' /\ work' \in [Workers -> Job]
<1>1. work' \in [Workers -> Job]
  BY DEF IInv, TypeOK
<1>2. RequestsConsistent' /\ RequestsApart'
  BY DEF IInv, Sound, RequestsConsistent, RequestsApart
<1>3. PaidWithinExpected' /\ PenaltiesAreBooked' /\ BooksFollowSchedule' /\ NothingYet'
  BY DEF IInv, Sound, PaidWithinExpected, PenaltiesAreBooked, BooksFollowSchedule, NothingYet
<1> QED
  BY <1>1, <1>2, <1>3 DEF Sound

-----------------------------------------------------------------------------
(* Every step.                                                             *)

\* What a step leaves as it is keeps its type.
RestTyped ==
    /\ loan' \in Loan /\ schedule' \in Schedule
    /\ age' \in [Row -> 0..MaxAge]
    /\ request' \in {"none", "requested", "applied"}
    /\ posted' \subseteq Receipts \cup {Offset}
    /\ received' \in [Slot -> Nat] /\ charged' \in [Row -> Nat]
    /\ lent' \in BOOLEAN /\ writeoffs' \in 0..MaxWriteOffs /\ lost' \in BOOLEAN

LEMMA UnchangedTyped ==
  ASSUME TypeOK, UNCHANGED <<loan, schedule, age, request, posted, received, charged, lent,
                             writeoffs, lost>>
  PROVE  RestTyped
BY DEF TypeOK, RestTyped

LEMMA CommitPaymentTyped ==
  ASSUME IInv, NEW w \in Workers, CommitPayment(w)
  PROVE  RestTyped
<1> DEFINE job == work[w]
<1>1. /\ job \in Job /\ schedule \in Schedule /\ loan \in Loan /\ received \in [Slot -> Nat]
      /\ posted \subseteq Receipts \cup {Offset} /\ lost \in BOOLEAN
  BY DEF IInv, TypeOK
<1>2. /\ job.receipt \in Receipts \cup {Offset}
  <2>1. Consistent(job, schedule) /\ job.kind \in Payer
    BY DEF IInv, Sound, RequestsConsistent, CommitPayment, Is
  <2> QED
    BY <1>1, <2>1 DEF Consistent, Job
<1>3. schedule' \in Schedule
  BY <1>1, MergedType DEF CommitPayment
<1>4. loan' \in Loan
  <2>1. StatusAfterPayment(job) \in LoanStatus
    BY DEF StatusAfterPayment, LoanStatus
  <2>2. StatusAfterOffset(job) \in LoanStatus
    BY <1>1 DEF StatusAfterOffset, LoanStatus, Loan
  <2>3. job.due \in [Slot -> Nat]
    BY <1>1 DEF Job
  <2>4. PICK status \in LoanStatus : loan' = [loan EXCEPT !.due = job.due, !.status = status]
    BY <2>1, <2>2 DEF CommitPayment
  <2> QED
    BY <1>1, <2>3, <2>4 DEF Loan
<1>5. received' \in [Slot -> Nat]
  <2>1. job.taken \in [Slot -> Nat]
    BY <1>1 DEF Job
  <2>2. received' = [s \in Slot |-> received[s] + job.taken[s]]
    BY DEF CommitPayment
  <2>3. \A s \in Slot : received[s] + job.taken[s] \in Nat
    BY <1>1, <2>1
  <2> QED
    BY <2>2, <2>3
<1>6. posted' \subseteq Receipts \cup {Offset} /\ lost' \in BOOLEAN
  BY <1>1, <1>2 DEF CommitPayment
<1> QED
  BY <1>3, <1>4, <1>5, <1>6 DEF CommitPayment, IInv, TypeOK, RestTyped

LEMMA CommitSweepTyped ==
  ASSUME IInv, NEW w \in Workers, CommitSweep(w)
  PROVE  RestTyped
<1> DEFINE job == work[w]
           status == StatusAfterSweep(job, Merged(job))
<1>1. job \in Job /\ schedule \in Schedule
  BY DEF IInv, TypeOK
<1>2. schedule' \in Schedule
  BY <1>1, MergedType DEF CommitSweep
<1>3. status \in LoanStatus
  BY DEF StatusAfterSweep, LoanStatus
<1>4. job.due \in [Slot -> Nat] /\ (job.defaulted \/ status = "DEFAULTED") \in BOOLEAN
  BY <1>1 DEF Job
<1>5. loan' = [status |-> status, due |-> job.due,
               defaulted |-> job.defaulted \/ status = "DEFAULTED"]
  BY DEF CommitSweep
<1> HIDE DEF status
<1>6. loan' \in Loan
  BY <1>3, <1>4, <1>5 DEF Loan
<1>7. charged' \in [Row -> Nat]
  BY CommitSweepSound
<1> QED
  BY <1>2, <1>6, <1>7 DEF CommitSweep, IInv, TypeOK, RestTyped

LEMMA CommitRestructureTyped ==
  ASSUME IInv, NEW w \in Workers, CommitRestructure(w)
  PROVE  RestTyped
<1>1. NewSchedule \in Schedule /\ NewSchedule.expected \in [Slot -> Nat]
  BY ConstantTypes DEF Schedule
<1>2. loan' = [loan EXCEPT !.status = "RESTRUCTURED", !.due = NewSchedule.expected]
  BY DEF CommitRestructure
<1>3. loan' \in Loan
  BY <1>1, <1>2 DEF IInv, TypeOK, Loan, LoanStatus
<1>4. age' \in [Row -> 0..MaxAge] /\ charged' \in [Row -> Nat]
  BY LoanAssumption DEF CommitRestructure
<1> QED
  BY <1>1, <1>3, <1>4 DEF CommitRestructure, IInv, TypeOK, RestTyped

LEMMA CommitWriteOffTyped ==
  ASSUME IInv, NEW w \in Workers, CommitWriteOff(w)
  PROVE  RestTyped
<1>1. loan' = [loan EXCEPT !.status = "WRITTEN_OFF", !.due = Nothing]
  BY DEF CommitWriteOff
<1>2. loan' \in Loan
  BY <1>1, ConstantTypes DEF IInv, TypeOK, Loan, LoanStatus
<1> QED
  BY <1>2 DEF CommitWriteOff, IInv, TypeOK, RestTyped

LEMMA CommitDisbursementTyped ==
  ASSUME IInv, NEW w \in Workers, CommitDisbursement(w)
  PROVE  RestTyped
<1>1. schedule \in Schedule /\ loan \in Loan
  BY DEF IInv, TypeOK
<1>2. ASSUME NEW status \in {"DISBURSED", "ACTIVE"}
      PROVE  [loan EXCEPT !.status = status, !.due = Owed(schedule)] \in Loan
  <2>1. Owed(schedule) \in [Slot -> Nat]
    BY <1>1, OwedType
  <2> QED
    BY <1>1, <2>1 DEF Loan, LoanStatus
<1>3. loan' \in Loan /\ lent' \in BOOLEAN
  BY <1>1, <1>2 DEF CommitDisbursement, IInv, TypeOK
<1> QED
  BY <1>3 DEF CommitDisbursement, IInv, TypeOK, RestTyped

\* A request that is underway goes on.
LEMMA ContinueSound ==
  ASSUME IInv, NEW w \in Workers, Continue(w)
  PROVE  Sound' /\ work' \in [Workers -> Job] /\ RestTyped
<1>0. TypeOK
  BY DEF IInv
<1>1. CASE Look(w)
  BY <1>0, <1>1, LookSound, UnchangedTyped DEF Look
<1>2. CASE ReadSchedule(w)
  BY <1>0, <1>2, ReadScheduleSound, UnchangedTyped DEF ReadSchedule
<1>3. CASE Apply(w)
  BY <1>0, <1>3, ApplySound, UnchangedTyped DEF Apply
<1>4. CASE Total(w)
  BY <1>0, <1>4, TotalSound, UnchangedTyped DEF Total
<1>5. CASE CommitPayment(w)
  BY <1>5, CommitPaymentSound, CommitPaymentTyped
<1>6. CASE Refresh(w)
  BY <1>0, <1>6, RefreshSound, UnchangedTyped DEF Refresh
<1>7. CASE CommitSweep(w)
  BY <1>7, CommitSweepSound, CommitSweepTyped
<1>8. CASE SaveTerms(w)
  BY <1>0, <1>8, SaveTermsSound, UnchangedTyped DEF SaveTerms
<1>9. CASE CommitRestructure(w)
  BY <1>9, CommitRestructureSound, CommitRestructureTyped
<1>10. CASE CommitWriteOff(w)
  <2>1. RollBack(w) /\ UNCHANGED <<schedule, posted, received, charged, lost>>
    BY <1>10 DEF CommitWriteOff
  <2> QED
    BY <1>10, <2>1, RollBackSound, CommitWriteOffTyped
<1>11. CASE CommitDisbursement(w)
  <2>1. RollBack(w) /\ UNCHANGED <<schedule, posted, received, charged, lost>>
    BY <1>11 DEF CommitDisbursement
  <2> QED
    BY <1>11, <2>1, RollBackSound, CommitDisbursementTyped
<1>12. CASE Break(w)
  BY <1>0, <1>12, RollBackSound, UnchangedTyped DEF Break
<1> QED
  BY <1>1, <1>2, <1>3, <1>4, <1>5, <1>6, <1>7, <1>8, <1>9, <1>10, <1>11, <1>12 DEF Continue

\* The task that marks installments as overdue changes no amount.
LEMMA MarkOverdueAmounts ==
  ASSUME TypeOK, MarkOverdue
  PROVE  /\ schedule' \in Schedule
         /\ schedule'.paid = schedule.paid /\ schedule'.expected = schedule.expected
         /\ UNCHANGED <<loan, age, request, posted, received, charged, lent, writeoffs, lost, work>>
<1>1. schedule \in Schedule
  BY DEF TypeOK
<1>2. schedule' = [schedule EXCEPT
          !.status = [i \in Row |-> IF i \in PastDue THEN "OVERDUE" ELSE @[i]]]
  BY DEF MarkOverdue
<1>3. schedule' \in Schedule
  BY <1>1, <1>2 DEF Schedule, InstallmentStatus
<1> QED
  BY <1>1, <1>2, <1>3 DEF MarkOverdue, Schedule

LEMMA MarkOverdueSound ==
  ASSUME IInv, MarkOverdue
  PROVE  Sound' /\ work' \in [Workers -> Job] /\ RestTyped
<1>1. /\ schedule' \in Schedule
      /\ schedule'.paid = schedule.paid /\ schedule'.expected = schedule.expected
      /\ UNCHANGED <<loan, age, request, posted, received, charged, lent, writeoffs, lost, work>>
  BY MarkOverdueAmounts DEF IInv
<1>2. RequestsConsistent'
  <2>1. ASSUME NEW w \in Workers PROVE Consistent(work[w], schedule')
    BY <1>1 DEF IInv, Sound, RequestsConsistent, Consistent, ReadIsOld, PaymentSaved, SweepSaved
  <2> QED
    BY <1>1, <2>1 DEF RequestsConsistent
<1>3. PaidWithinExpected' /\ PenaltiesAreBooked' /\ BooksFollowSchedule'
  BY <1>1 DEF IInv, Sound, PaidWithinExpected, PenaltiesAreBooked, BooksFollowSchedule
<1>4. RequestsApart' /\ NothingYet'
  BY <1>1 DEF IInv, Sound, RequestsApart, NothingYet
<1>5. work' \in [Workers -> Job] /\ RestTyped
  BY <1>1 DEF IInv, TypeOK, RestTyped
<1> QED
  BY <1>2, <1>3, <1>4, <1>5 DEF Sound

LEMMA NextInv == IInv /\ [Next]_vars => IInv'
<1> SUFFICES ASSUME IInv, [Next]_vars PROVE Sound' /\ work' \in [Workers -> Job] /\ RestTyped
  BY DEF IInv, TypeOK, RestTyped
<1>0. TypeOK
  BY DEF IInv
<1>1. CASE UNCHANGED vars
  BY <1>0, <1>1, UntouchedSound, UnchangedTyped DEF vars
<1>2. ASSUME NEW w \in Workers, NEW kind \in {"desk", "mpesa"}, NEW r \in Receipts,
             NEW a \in Amounts, BeginRepayment(w, kind, r, a)
      PROVE  Sound' /\ work' \in [Workers -> Job] /\ RestTyped
  BY <1>0, <1>2, BeginRepaymentSound, UnchangedTyped DEF BeginRepayment, Begin
<1>3. ASSUME NEW w \in Workers, NEW a \in Amounts, BeginOffset(w, a)
      PROVE  Sound' /\ work' \in [Workers -> Job] /\ RestTyped
  BY <1>0, <1>3, BeginOffsetSound, UnchangedTyped DEF BeginOffset, Begin
<1>4. ASSUME NEW w \in Workers, BeginSweep(w)
      PROVE  Sound' /\ work' \in [Workers -> Job] /\ RestTyped
  BY <1>0, <1>4, BeginSweepSound, UnchangedTyped DEF BeginSweep, Begin
<1>5. ASSUME NEW w \in Workers, BeginRestructure(w)
      PROVE  Sound' /\ work' \in [Workers -> Job] /\ RestTyped
  BY <1>0, <1>5, BeginRestructureSound, UnchangedTyped DEF BeginRestructure, Begin
<1>6. ASSUME NEW w \in Workers, BeginWriteOff(w)
      PROVE  Sound' /\ work' \in [Workers -> Job] /\ RestTyped
  <2>1. writeoffs' \in 0..MaxWriteOffs
    BY <1>0, <1>6, LoanAssumption DEF BeginWriteOff, TypeOK
  <2>2. RestTyped
    BY <1>0, <1>6, <2>1 DEF BeginWriteOff, TypeOK, RestTyped
  <2> QED
    BY <1>6, <2>2, BeginWriteOffSound
<1>7. ASSUME NEW w \in Workers, BeginDisbursement(w)
      PROVE  Sound' /\ work' \in [Workers -> Job] /\ RestTyped
  BY <1>0, <1>7, BeginDisbursementSound, UnchangedTyped DEF BeginDisbursement, Begin
<1>8. CASE AskRestructure
  <2>1. UNCHANGED <<schedule, posted, received, charged, lost, work>>
    BY <1>8 DEF AskRestructure
  <2>2. RestTyped
    BY <1>0, <1>8 DEF AskRestructure, TypeOK, RestTyped
  <2> QED
    BY <2>1, <2>2, UntouchedSound
<1>9. ASSUME NEW i \in Row, GrowOlder(i)
      PROVE  Sound' /\ work' \in [Workers -> Job] /\ RestTyped
  <2>1. UNCHANGED <<schedule, posted, received, charged, lost, work>>
    BY <1>9 DEF GrowOlder
  <2>2. age' \in [Row -> 0..MaxAge]
    BY <1>0, <1>9, LoanAssumption DEF GrowOlder, TypeOK
  <2>3. RestTyped
    BY <1>0, <1>9, <2>2 DEF GrowOlder, TypeOK, RestTyped
  <2> QED
    BY <2>1, <2>3, UntouchedSound
<1>10. CASE MarkOverdue
  BY <1>10, MarkOverdueSound
<1> QED
  BY <1>1, <1>2, <1>3, <1>4, <1>5, <1>6, <1>7, <1>8, <1>9, <1>10,
     ContinueSound DEF Next

LEMMA SpecInv == Spec => []IInv
BY InitInv, NextInv, PTL DEF Spec

\* The rows of a loan, its schedule and its requests have the values that the
\* code gives them.
THEOREM TypeCorrectness == Spec => []TypeOK
<1>1. IInv => TypeOK
  BY DEF IInv
<1> QED
  BY <1>1, SpecInv, PTL

\* No installment is credited with more than is expected of it, whatever
\* payments, offsets, sweeps and restructurings of one loan overlap.
THEOREM PaymentsFitSchedule == Spec => []PaidWithinExpected
<1>1. IInv => PaidWithinExpected
  BY DEF IInv, Sound
<1> QED
  BY <1>1, SpecInv, PTL

\* The penalty of every installment is what the journal has charged for it.
THEOREM PenaltiesStayBooked == Spec => []PenaltiesAreBooked
<1>1. IInv => PenaltiesAreBooked
  BY DEF IInv, Sound
<1> QED
  BY <1>1, SpecInv, PTL

\* Unless one payment has overtaken another, the schedule shows as paid what
\* the journal has received.
THEOREM ScheduleShowsBooks == Spec => []BooksFollowSchedule
<1>1. IInv => BooksFollowSchedule
  BY DEF IInv, Sound
<1> QED
  BY <1>1, SpecInv, PTL
=============================================================================
