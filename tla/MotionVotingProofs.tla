-------------------------- MODULE MotionVotingProofs --------------------------
(***************************************************************************)
(* What holds of MotionVoting for any members, quorum, processes, edits of *)
(* the status and the end, and crashes: its types, that a motion which no  *)
(* edit has closed is closed with a result, that a count begun when the    *)
(* votes were in is exact, and that the verdict of a motion at rest        *)
(* stands.  The inductive invariant says of every process what it may      *)
(* still do to the motion, going by when it read it.                       *)
(***************************************************************************)
EXTENDS MotionVoting, FiniteSetTheorems, TLAPS

\* What a count at this step has already read.
HasRead(step, f) ==
    \/ step = "store"
    \/ step \in {"yes", "no", "abstain"} /\ f = "total"
    \/ step \in {"no", "abstain"} /\ f = "yes"
    \/ step = "abstain" /\ f = "no"

Cast == Field \ {"eligible"}

\* An edit saves what was read, and a request compares the clock with it.
HasMotion(j) ==
    /\ j.step = "edit" => j.seen \in MotionStatus
    /\ j.step \in {"edit", "check"} => j.end \in Nat
EditsRead == \A w \in Workers : HasMotion(work[w])
Typed == TypeOK /\ EditsRead

\* Who is about to close the motion has stored a result, and as long as no edit
\* closed it, who found it closed found one.
ResultsFound ==
    \A w \in Workers :
        /\ work[w].seen = "CLOSED" => result.exists \/ closedByEdit
        /\ work[w].step = "close" => result.exists

\* A count that began when the votes were in has read what they are.
CountsExact ==
    \A w \in Workers :
        work[w].settled /\ ~deferred =>
            /\ VotesAreIn
            /\ \A f \in Cast : HasRead(work[w].step, f) => work[w].tally[f] = Query(f)

\* Who came to a motion at rest is not going to change it.
RestedLeave ==
    \A w \in Workers :
        work[w].rested =>
            /\ work[w].step \in {"check", "finalize", "edit"}
            /\ work[w].seen = "CLOSED" /\ work[w].known

ResultExact ==
    result.settled /\ ~deferred => VotesAreIn /\ \A f \in Cast : result.tally[f] = Query(f)

Sound == ClosedHasResult /\ ResultsFound /\ CountsExact /\ RestedLeave /\ ResultExact
IInv == Typed /\ Sound

-----------------------------------------------------------------------------
\* A process that does nothing is a job.
LEMMA IdleJob == Idle \in Job
  BY DEF Idle, Job, Step, NoTally, Tally

\* A count is a number, and the counts come in their order.
LEMMA QueryType ==
  ASSUME TypeOK, NEW f \in Field
  PROVE  Query(f) \in Nat /\ After(f) \in Step \ {"idle", "check", "vote", "finalize", "close", "edit"}
<1>1. ASSUME NEW S \in SUBSET Members PROVE Cardinality(S) \in Nat
  BY MotionAssumption, FS_Subset, FS_CardinalityType
<1>2. \A C : Votes(C) \in Nat
  BY <1>1 DEF Votes
<1>3. Cardinality(active) \in Nat
  BY <1>1 DEF TypeOK
<1> QED
  BY <1>2, <1>3 DEF Query, After, Field, Step

\* The votes that are counted do not change while the votes do not.
LEMMA SameVotes ==
  ASSUME vote' = vote, NEW f \in Cast
  PROVE  Query(f)' = Query(f)
  BY DEF Query, Cast, Field, Votes, Choice

\* The initial states satisfy the invariant.
LEMMA InitInv == Init => IInv
<1> SUFFICES ASSUME Init PROVE IInv
  OBVIOUS
<1>1. \A w \in Workers : work[w] = Idle
  BY DEF Init
<1>2. Typed
  <2>1. /\ NoTally \in Tally
        /\ [exists |-> FALSE, tally |-> NoTally, passed |-> FALSE, settled |-> FALSE] \in Result
    BY DEF NoTally, Tally, Result
  <2>2. ballots \in 0..MaxBallots /\ edits \in 0..MaxEdits /\ crashes \in 0..MaxCrashes
    <3>1. MaxBallots \in Nat /\ MaxEdits \in Nat /\ MaxCrashes \in Nat
      BY MotionAssumption
    <3> QED
      BY <3>1 DEF Init
  <2>3. /\ type \in Types /\ status \in MotionStatus /\ active \subseteq Members
        /\ endTime \in Nat /\ now \in 0..LastDay
    BY MotionAssumption DEF Init, MotionStatus
  <2>4. vote \in [Members -> Choice \cup {None}] /\ work \in [Workers -> Job]
    BY IdleJob DEF Init
  <2>5. EditsRead
    BY <1>1 DEF EditsRead, HasMotion, Idle
  <2> QED
    BY <2>1, <2>2, <2>3, <2>4, <2>5 DEF Init, Typed, TypeOK
<1>3. ~result.settled /\ status # "CLOSED"
  BY DEF Init
<1>4. \A w \in Workers :
        work[w].step = "idle" /\ work[w].seen = None /\ ~work[w].settled /\ ~work[w].rested
  BY <1>1 DEF Idle
<1>5. ClosedHasResult /\ ResultExact
  BY <1>3 DEF ClosedHasResult, ResultExact
<1>6. None # "CLOSED"
  BY MotionAssumption DEF MotionStatus
<1> QED
  BY <1>2, <1>4, <1>5, <1>6 DEF IInv, Sound, ResultsFound, CountsExact, RestedLeave

-----------------------------------------------------------------------------
(* The motion as it is read.                                               *)

\* What is read makes a job.
LEMMA ReadJob ==
  ASSUME TypeOK, NEW s \in Step
  PROVE  /\ Read(s) \in Job
         /\ Read(s).step = s /\ Read(s).seen = status /\ Read(s).known = result.exists
         /\ Read(s).end = endTime /\ HasMotion(Read(s))
         /\ Read(s).settled = FALSE /\ Read(s).rested = AtRest
<1>1. AtRest \in BOOLEAN
  BY DEF AtRest
<1>2. Idle \in Job
  BY IdleJob
<1>3. status \in MotionStatus /\ result.exists \in BOOLEAN /\ endTime \in Nat
  BY DEF TypeOK, Result
<1> QED
  BY <1>1, <1>2, <1>3 DEF Read, Job, Idle, NoTally, Tally, HasMotion

\* A motion at rest is closed, with a result.
LEMMA RestIsClosed == AtRest => status = "CLOSED" /\ result.exists
  BY DEF AtRest

-----------------------------------------------------------------------------
(* Types.                                                                  *)

\* The bounds are numbers.
LEMMA Bounds == MaxBallots \in Nat /\ MaxEdits \in Nat /\ MaxCrashes \in Nat
  BY MotionAssumption

\* What changes only what one process is doing keeps the types.
LEMMA WorkTypes ==
  ASSUME Typed, NEW w \in Workers, NEW j \in Job,
         HasMotion(j),
         work' = [work EXCEPT ![w] = j]
  PROVE  work' \in [Workers -> Job] /\ EditsRead'
  BY DEF Typed, TypeOK, EditsRead

\* So does finishing.
LEMMA DoneTypes ==
  ASSUME Typed, NEW w \in Workers, Done(w)
  PROVE  work' \in [Workers -> Job] /\ EditsRead'
<1>1. Idle \in Job /\ HasMotion(Idle)
  BY IdleJob DEF Idle, HasMotion
<1> QED
  BY <1>1, WorkTypes DEF Done

\* Every step keeps the types.
LEMMA TypeStep == Typed /\ [Next]_vars => Typed'
<1> SUFFICES ASSUME Typed, [Next]_vars PROVE Typed'
  OBVIOUS
<1>t. TypeOK
  BY DEF Typed
<1>0. CASE UNCHANGED vars
  BY <1>0 DEF vars, Typed, TypeOK, EditsRead
<1>1. ASSUME NEW w \in Workers, NEW m \in Members, NEW c \in Ballots, BeginCast(w, m, c)
      PROVE  Typed'
  <2>1. c \in Choice
    BY MotionAssumption DEF Choice
  <2>2. Read("check") \in Job /\ Read("check").step = "check" /\ HasMotion(Read("check"))
    BY <1>t, ReadJob DEF Step
  <2> DEFINE j == [Read("check") EXCEPT !.voter = m, !.choice = c]
  <2>3. j \in Job /\ HasMotion(j)
    BY <2>1, <2>2 DEF Job, HasMotion
  <2>4. work' = [work EXCEPT ![w] = j]
    BY <1>1 DEF BeginCast
  <2> HIDE DEF j
  <2>5. work' \in [Workers -> Job] /\ EditsRead'
    BY <2>3, <2>4, WorkTypes
  <2>6. ballots' \in 0..MaxBallots
    BY <1>1, <1>t, Bounds DEF BeginCast, TypeOK
  <2> QED
    BY <1>1, <1>t, <2>5, <2>6 DEF BeginCast, history, Typed, TypeOK
<1>2. ASSUME NEW w \in Workers, BeginClose(w) \/ BeginResults(w) PROVE Typed'
  <2>1. Read("finalize") \in Job /\ HasMotion(Read("finalize"))
    BY <1>t, ReadJob DEF Step
  <2>2. work' \in [Workers -> Job] /\ EditsRead'
    BY <1>2, <2>1, WorkTypes DEF BeginClose, BeginResults
  <2> QED
    BY <1>2, <1>t, <2>2 DEF BeginClose, BeginResults, history, Typed, TypeOK
<1>3. ASSUME NEW w \in Workers, BeginEdit(w) PROVE Typed'
  <2>1. Read("edit") \in Job /\ HasMotion(Read("edit"))
    BY <1>t, ReadJob DEF Step
  <2>3. work' \in [Workers -> Job] /\ EditsRead'
    BY <1>3, <2>1, WorkTypes DEF BeginEdit
  <2>4. edits' \in 0..MaxEdits
    BY <1>3, <1>t, Bounds DEF BeginEdit, TypeOK
  <2> QED
    BY <1>3, <1>t, <2>3, <2>4 DEF BeginEdit, history, Typed, TypeOK
<1>4. ASSUME NEW w \in Workers, BeginSchedule(w) PROVE Typed'
  <2> DEFINE j == [Idle EXCEPT !.step = "eligible", !.scheduled = TRUE, !.settled = VotesAreIn]
  <2>1. VotesAreIn \in BOOLEAN
    BY DEF VotesAreIn
  <2>2. j \in Job /\ HasMotion(j)
    BY <2>1, IdleJob DEF Job, Idle, Step, Field, HasMotion
  <2>3. work' = [work EXCEPT ![w] = j]
    BY <1>4 DEF BeginSchedule
  <2> HIDE DEF j
  <2>4. work' \in [Workers -> Job] /\ EditsRead'
    BY <2>2, <2>3, WorkTypes
  <2> QED
    BY <1>4, <1>t, <2>4 DEF BeginSchedule, history, Typed, TypeOK
<1>5. ASSUME NEW w \in Workers, CheckWindow(w) PROVE Typed'
  <2>1. work[w] \in Job
    BY <1>t DEF TypeOK
  <2>2. /\ [work[w] EXCEPT !.step = "finalize", !.voter = None, !.choice = None] \in Job
        /\ [work[w] EXCEPT !.step = "vote", !.seen = None, !.end = None, !.known = FALSE] \in Job
    BY <2>1 DEF Job, Step
  <2>3. /\ HasMotion([work[w] EXCEPT !.step = "finalize", !.voter = None, !.choice = None])
        /\ HasMotion([work[w] EXCEPT !.step = "vote", !.seen = None, !.end = None, !.known = FALSE])
    BY <2>1 DEF Job, HasMotion
  <2>4. PICK j \in Job : HasMotion(j) /\ work' = [work EXCEPT ![w] = j]
    BY <1>5, <1>t, <2>2, <2>3 DEF CheckWindow, TypeOK
  <2>5. work' \in [Workers -> Job] /\ EditsRead'
    BY <2>4, WorkTypes
  <2> QED
    BY <1>5, <1>t, <2>5 DEF CheckWindow, history, Typed, TypeOK
<1>6. ASSUME NEW w \in Workers, SaveVote(w) PROVE Typed'
  <2>1. work[w].choice \in Choice \cup {None}
    BY <1>t DEF TypeOK, Job
  <2>2. work' \in [Workers -> Job] /\ EditsRead'
    BY <1>6, DoneTypes DEF SaveVote
  <2> QED
    BY <1>6, <1>t, <2>1, <2>2 DEF SaveVote, history, Typed, TypeOK
<1>7. ASSUME NEW w \in Workers, BeginCount(w) PROVE Typed'
  <2> DEFINE j == [Idle EXCEPT !.step = "eligible", !.seen = work[w].seen,
                        !.settled = VotesAreIn, !.rested = work[w].rested]
  <2>1. /\ work[w].rested \in BOOLEAN /\ VotesAreIn \in BOOLEAN
        /\ work[w].seen \in MotionStatus \cup {None}
    BY <1>t DEF TypeOK, Job, VotesAreIn
  <2>2. j \in Job /\ HasMotion(j)
    BY <2>1, IdleJob DEF Job, Idle, Step, Field, HasMotion
  <2>3. Done(w) \/ work' = [work EXCEPT ![w] = j]
    BY <1>7 DEF BeginCount
  <2> HIDE DEF j
  <2>4. work' \in [Workers -> Job] /\ EditsRead'
    BY <2>2, <2>3, WorkTypes, DoneTypes
  <2> QED
    BY <1>7, <1>t, <2>4 DEF BeginCount, history, Typed, TypeOK
<1>8. ASSUME NEW w \in Workers, NEW f \in Field, Count(w, f) PROVE Typed'
  <2> DEFINE t == [work[w].tally EXCEPT ![f] = Query(f)]
             j == [work[w] EXCEPT !.tally = t, !.step = After(f)]
  <2>1. work[w] \in Job /\ work[w].tally \in Tally
    BY <1>t DEF TypeOK, Job
  <2>2. t \in Tally
    BY <1>t, <2>1, QueryType DEF Tally
  <2>3. j \in Job /\ HasMotion(j)
    BY <1>t, <2>1, <2>2, QueryType DEF Job, HasMotion
  <2>4. work' = [work EXCEPT ![w] = j]
    BY <1>8, <2>1 DEF Count, Job
  <2> HIDE DEF j, t
  <2>5. work' \in [Workers -> Job] /\ EditsRead'
    BY <2>3, <2>4, WorkTypes
  <2> QED
    BY <1>8, <1>t, <2>5 DEF Count, history, Typed, TypeOK
<1>9. ASSUME NEW w \in Workers, Store(w) PROVE Typed'
  <2>1. work[w].tally \in Tally /\ work[w].settled \in BOOLEAN
    BY <1>t DEF TypeOK, Job
  <2>2. Passed(w) \in BOOLEAN
    <3>1. type \in MotionType
      BY <1>t, MotionAssumption DEF TypeOK
    <3> QED
      BY <3>1 DEF Passed, Majority, Carried, QuorumMet, MotionType
  <2>3. [Idle EXCEPT !.step = "close"] \in Job /\ HasMotion([Idle EXCEPT !.step = "close"])
    BY IdleJob DEF Job, Idle, Step, HasMotion
  <2>4. work' \in [Workers -> Job] /\ EditsRead'
    BY <1>9, <2>3, WorkTypes, DoneTypes DEF Store
  <2>5. result' \in Result
    BY <1>9, <2>1, <2>2 DEF Store, Result
  <2> QED
    BY <1>9, <1>t, <2>4, <2>5 DEF Store, history, Typed, TypeOK
<1>10. ASSUME NEW w \in Workers, Close(w) PROVE Typed'
  <2>1. work' \in [Workers -> Job] /\ EditsRead'
    BY <1>10, DoneTypes DEF Close
  <2> QED
    BY <1>10, <1>t, <2>1 DEF Close, history, Typed, TypeOK, MotionStatus
<1>11. ASSUME NEW w \in Workers, NEW s \in Statuses, NEW e \in Ends, SaveEdit(w, s, e)
       PROVE  Typed'
  <2>1. work' \in [Workers -> Job] /\ EditsRead'
    BY <1>11, DoneTypes DEF SaveEdit
  <2>2. work[w].seen \in MotionStatus /\ work[w].end \in Nat
    BY <1>11 DEF SaveEdit, At, Typed, EditsRead, HasMotion
  <2>3. Saved(w, s) \in MotionStatus /\ endTime' \in Nat
    BY <1>11, <2>2, MotionAssumption DEF SaveEdit, Saved
  <2>4. closedByEdit' \in BOOLEAN /\ deferred' \in BOOLEAN
    BY <1>11 DEF SaveEdit
  <2> QED
    BY <1>11, <1>t, <2>1, <2>3, <2>4 DEF SaveEdit, Typed, TypeOK
<1>12. ASSUME NEW w \in Workers, Crash(w) PROVE Typed'
  <2>1. work' \in [Workers -> Job] /\ EditsRead'
    BY <1>12, DoneTypes DEF Crash
  <2>2. crashes' \in 0..MaxCrashes
    BY <1>12, <1>t, Bounds DEF Crash, TypeOK
  <2> QED
    BY <1>12, <1>t, <2>1, <2>2 DEF Crash, history, Typed, TypeOK
<1>13. CASE Tick
  <2>1. now' \in 0..LastDay
    BY <1>13, <1>t, MotionAssumption DEF Tick, TypeOK
  <2> QED
    BY <1>13, <2>1 DEF Tick, history, Typed, TypeOK, EditsRead
<1>14. ASSUME NEW m \in Members, Leave(m) PROVE Typed'
  BY <1>14 DEF Leave, history, Typed, TypeOK, EditsRead
<1> QED
  BY <1>0, <1>1, <1>2, <1>3, <1>4, <1>5, <1>6, <1>7, <1>8, <1>9, <1>10, <1>11, <1>12, <1>13, <1>14
  DEF Next, Continue

-----------------------------------------------------------------------------
(* What a process may do to the motion.                                    *)

\* Nothing is done to the votes, and the end is not put off.
VotesApart == UNCHANGED <<vote, now>> /\ (~deferred' => ~deferred /\ endTime' <= endTime)

\* What a step that begins or goes on with a count, an edit or a request leaves
\* alone, and what it makes of the process: it does not go to save a vote, and
\* looks at the window with the end there is.
Apart(w) ==
    /\ VotesApart
    /\ \A v \in Workers : v # w => work'[v] = work[v]
    /\ work'[w].step # "vote"
    /\ work'[w].step = "check" => work'[w].end = endTime

\* Only a request that found the window open goes to save a vote, and only it
\* saves one; every other step is apart from the votes.
LEMMA StepsApart ==
  ASSUME Typed, Next
  PROVE  \/ \E w \in Workers : Apart(w)
         \/ \E w \in Workers : CheckWindow(w) /\ ~Over(w)
         \/ \E w \in Workers : SaveVote(w)
         \/ Tick
         \/ \E m \in Members : Leave(m)
<1>t. TypeOK
  BY DEF Typed
<1>v. ASSUME UNCHANGED <<vote, now, endTime, deferred>> PROVE VotesApart
  BY <1>v, <1>t DEF VotesApart, TypeOK
<1>1. ASSUME NEW w \in Workers, NEW j, j.step \notin {"vote", "check"},
             work' = [work EXCEPT ![w] = j], VotesApart
      PROVE  Apart(w)
  BY <1>1, <1>t DEF TypeOK, Apart
<1>2. ASSUME NEW w \in Workers, Done(w), VotesApart PROVE Apart(w)
  <2>1. Idle.step \notin {"vote", "check"}
    BY DEF Idle
  <2> QED
    BY <1>1, <1>2, <2>1 DEF Done
<1>3. ASSUME NEW w \in Workers, NEW m \in Members, NEW c \in Ballots, BeginCast(w, m, c)
      PROVE  Apart(w)
  <2>1. Read("check") \in Job /\ Read("check").step = "check" /\ Read("check").end = endTime
    BY <1>t, ReadJob DEF Step
  <2> DEFINE j == [Read("check") EXCEPT !.voter = m, !.choice = c]
  <2>2. j.step = "check" /\ j.end = endTime
    BY <2>1 DEF Job
  <2>3. work' = [work EXCEPT ![w] = j] /\ UNCHANGED <<vote, now, endTime, deferred>>
    BY <1>3 DEF BeginCast, history
  <2> HIDE DEF j
  <2>4. work'[w] = j /\ \A v \in Workers : v # w => work'[v] = work[v]
    BY <1>t, <2>3 DEF TypeOK
  <2> QED
    BY <1>v, <2>2, <2>3, <2>4 DEF Apart
<1>4. ASSUME NEW w \in Workers, BeginClose(w) \/ BeginResults(w) PROVE Apart(w)
  <2>1. Read("finalize").step = "finalize"
    BY <1>t, ReadJob DEF Step
  <2>2. UNCHANGED <<vote, now, endTime, deferred>>
    BY <1>4 DEF BeginClose, BeginResults, history
  <2> QED
    BY <1>1, <1>4, <1>v, <2>1, <2>2 DEF BeginClose, BeginResults
<1>5. ASSUME NEW w \in Workers, BeginEdit(w) PROVE Apart(w)
  <2>1. Read("edit").step = "edit"
    BY <1>t, ReadJob DEF Step
  <2>2. UNCHANGED <<vote, now, endTime, deferred>>
    BY <1>5 DEF BeginEdit, history
  <2> QED
    BY <1>1, <1>5, <1>v, <2>1, <2>2 DEF BeginEdit
<1>6. ASSUME NEW w \in Workers, BeginSchedule(w) PROVE Apart(w)
  <2> DEFINE j == [Idle EXCEPT !.step = "eligible", !.scheduled = TRUE, !.settled = VotesAreIn]
  <2>1. j.step = "eligible"
    BY DEF Idle
  <2>2. work' = [work EXCEPT ![w] = j] /\ UNCHANGED <<vote, now, endTime, deferred>>
    BY <1>6 DEF BeginSchedule, history
  <2> HIDE DEF j
  <2> QED
    BY <1>1, <1>v, <2>1, <2>2
<1>7. ASSUME NEW w \in Workers, BeginCount(w) PROVE Apart(w)
  <2> DEFINE j == [Idle EXCEPT !.step = "eligible", !.seen = work[w].seen,
                        !.settled = VotesAreIn, !.rested = work[w].rested]
  <2>1. j.step = "eligible"
    BY DEF Idle
  <2>2. /\ Done(w) \/ work' = [work EXCEPT ![w] = j]
        /\ UNCHANGED <<vote, now, endTime, deferred>>
    BY <1>7 DEF BeginCount, history
  <2> HIDE DEF j
  <2> QED
    BY <1>1, <1>2, <1>v, <2>1, <2>2
<1>8. ASSUME NEW w \in Workers, NEW f \in Field, Count(w, f) PROVE Apart(w)
  <2>1. /\ \A v \in Workers : v # w => work'[v] = work[v]
        /\ work'[w].step = After(f)
    BY <1>8, <1>t DEF Count, TypeOK, Job
  <2>2. After(f) \notin {"vote", "check"}
    BY <1>t, QueryType
  <2>3. UNCHANGED <<vote, now, endTime, deferred>>
    BY <1>8 DEF Count, history
  <2> QED
    BY <1>v, <2>1, <2>2, <2>3 DEF Apart
<1>9. ASSUME NEW w \in Workers, Store(w) PROVE Apart(w)
  <2>1. [Idle EXCEPT !.step = "close"].step = "close"
    BY DEF Idle
  <2>2. UNCHANGED <<vote, now, endTime, deferred>>
    BY <1>9 DEF Store, history
  <2> QED
    BY <1>1, <1>2, <1>9, <1>v, <2>1, <2>2 DEF Store
<1>10. ASSUME NEW w \in Workers, CheckWindow(w), Over(w) PROVE Apart(w)
  <2>1. work[w] \in Job
    BY <1>t DEF TypeOK
  <2>2. [work[w] EXCEPT !.step = "finalize", !.voter = None, !.choice = None].step = "finalize"
    BY <2>1 DEF Job
  <2>3. work' = [work EXCEPT ![w] = [work[w] EXCEPT !.step = "finalize", !.voter = None, !.choice = None]]
    BY <1>10, <1>t DEF CheckWindow, TypeOK
  <2>4. UNCHANGED <<vote, now, endTime, deferred>>
    BY <1>10 DEF CheckWindow, history
  <2> QED
    BY <1>1, <1>v, <2>2, <2>3, <2>4
<1>11. ASSUME NEW w \in Workers, Close(w) \/ Crash(w) PROVE Apart(w)
  BY <1>2, <1>v, <1>11 DEF Close, Crash, history
<1>12. ASSUME NEW w \in Workers, NEW s \in Statuses, NEW e \in Ends, SaveEdit(w, s, e)
       PROVE  Apart(w)
  <2>1. work[w].end \in Nat /\ endTime \in Nat
    BY <1>12, <1>t DEF SaveEdit, At, Typed, EditsRead, HasMotion, TypeOK
  <2>2. endTime' \in Nat
    BY <1>12, <2>1, MotionAssumption DEF SaveEdit
  <2>3. ~deferred' => ~deferred /\ ~(endTime' > endTime)
    BY <1>12 DEF SaveEdit
  <2>4. VotesApart
    BY <1>12, <2>1, <2>2, <2>3 DEF SaveEdit, VotesApart
  <2> QED
    BY <1>2, <1>12, <2>4 DEF SaveEdit
<1> QED
  BY <1>3, <1>4, <1>5, <1>6, <1>7, <1>8, <1>9, <1>10, <1>11, <1>12 DEF Next, Continue

\* Once the votes are in they stay in, and stay what they are, unless the end is
\* put off.
LEMMA VotesStay ==
  ASSUME Typed, [Next]_vars, ~deferred', VotesAreIn
  PROVE  VotesAreIn' /\ vote' = vote /\ ~deferred
<1>t. TypeOK /\ Typed'
  BY TypeStep DEF Typed
<1>n. /\ endTime \in Nat /\ endTime' \in Nat /\ now \in Nat /\ now' \in Nat
      /\ now >= endTime
  <2>1. TypeOK'
    BY <1>t DEF Typed
  <2> QED
    BY <1>t, <2>1, MotionAssumption DEF TypeOK, VotesAreIn, Ended
<1>1. ASSUME NEW w \in Workers, Apart(w) PROVE VotesAreIn' /\ vote' = vote /\ ~deferred
  <2>1. vote' = vote /\ now' = now /\ endTime' <= endTime /\ ~deferred
    BY <1>1 DEF Apart, VotesApart
  <2>2. now' >= endTime'
    BY <1>n, <2>1
  <2>3. ASSUME NEW v \in Workers
        PROVE  work'[v].step # "vote"
               /\ (work'[v].step = "check" => work'[v].seen # "OPEN" \/ now' >= work'[v].end)
    <3>1. CASE v # w
      BY <1>1, <2>1, <3>1 DEF Apart, VotesAreIn, At, Over
    <3>2. CASE v = w
      BY <1>1, <1>n, <2>1, <3>2 DEF Apart
    <3> QED
      BY <3>1, <3>2
  <2> QED
    BY <2>1, <2>2, <2>3 DEF VotesAreIn, Ended, At, Over
<1>2. ASSUME NEW w \in Workers, CheckWindow(w), ~Over(w) PROVE FALSE
  BY <1>2 DEF CheckWindow, VotesAreIn
<1>3. ASSUME NEW w \in Workers, SaveVote(w) PROVE FALSE
  BY <1>3 DEF SaveVote, VotesAreIn
<1>4. CASE Tick
  <2>1. now' = now + 1 /\ UNCHANGED <<work, vote, endTime, deferred>>
    BY <1>4 DEF Tick, history
  <2>2. ASSUME NEW v \in Workers, work[v].step = "check", now >= work[v].end
        PROVE  now' >= work[v].end
    <3>1. work[v].end \in Nat
      BY <2>2 DEF Typed, EditsRead, HasMotion
    <3> QED
      BY <1>n, <2>1, <2>2, <3>1
  <2>3. now' >= endTime
    BY <1>n, <2>1
  <2> QED
    BY <2>1, <2>2, <2>3 DEF VotesAreIn, Ended, At, Over
<1>5. CASE UNCHANGED vars \/ \E m \in Members : Leave(m)
  <2>1. UNCHANGED <<work, vote, now, endTime, deferred>>
    BY <1>5 DEF vars, Leave, history
  <2> QED
    BY <2>1 DEF VotesAreIn, Ended, At, Over
<1> QED
  BY <1>1, <1>2, <1>3, <1>4, <1>5, StepsApart

\* An end that was put off stays so.
LEMMA DeferredStays ==
  ASSUME [Next]_vars
  PROVE  ~deferred' => ~deferred
BY DEF Next, Continue, BeginCast, BeginClose, BeginResults, BeginSchedule, BeginEdit, CheckWindow,
       SaveVote, BeginCount, Count, Store, Close, SaveEdit, Crash, Tick, Leave, vars, history

-----------------------------------------------------------------------------
(* The invariant.                                                          *)

\* The job of a process after a step of its own.
LEMMA NewJob ==
  ASSUME Typed, NEW w \in Workers, NEW j, work' = [work EXCEPT ![w] = j]
  PROVE  work'[w] = j /\ \A v \in Workers : v # w => work'[v] = work[v]
  BY DEF Typed, TypeOK

\* Processes that do not move keep what they have counted.
LEMMA CountsKept ==
  ASSUME Typed, CountsExact, [Next]_vars, NEW v \in Workers,
         work'[v] = work[v], work'[v].settled, ~deferred'
  PROVE  /\ VotesAreIn'
         /\ \A f \in Cast : HasRead(work[v].step, f) => work[v].tally[f] = Query(f)'
  BY VotesStay, DeferredStays, SameVotes DEF CountsExact

\* A count begins exact, stays so query after query, and is stored so.
LEMMA CountStep ==
  ASSUME IInv, [Next]_vars
  PROVE  CountsExact' /\ ResultExact'
<1>t. Typed /\ TypeOK /\ CountsExact /\ ResultExact
  BY DEF IInv, Sound, Typed
<1> DEFINE Exact(v) ==
      work'[v].settled /\ ~deferred' =>
        /\ VotesAreIn'
        /\ \A f \in Cast : HasRead(work'[v].step, f) => work'[v].tally[f] = Query(f)'
<1>k. ASSUME NEW v \in Workers, work'[v] = work[v] PROVE Exact(v)
  BY <1>k, <1>t, CountsKept
<1>j. ASSUME NEW w \in Workers, NEW j, ~j.settled, work' = [work EXCEPT ![w] = j]
      PROVE  \A v \in Workers : Exact(v)
  BY <1>j, <1>k, <1>t, NewJob
<1>d. ASSUME NEW w \in Workers, Done(w) PROVE \A v \in Workers : Exact(v)
  <2>1. ~Idle.settled
    BY DEF Idle
  <2> QED
    BY <1>d, <1>j, <2>1 DEF Done
<1>b. ASSUME NEW w \in Workers, NEW j, j.settled = VotesAreIn, j.step = "eligible",
             work' = [work EXCEPT ![w] = j]
      PROVE  \A v \in Workers : Exact(v)
  <2>1. work'[w] = j /\ \A v \in Workers : v # w => work'[v] = work[v]
    BY <1>b, <1>t, NewJob
  <2>2. Exact(w)
    BY <1>b, <1>t, <2>1, VotesStay DEF HasRead
  <2> QED
    BY <1>k, <2>1, <2>2
<1>c. ASSUME NEW w \in Workers, NEW f \in Field, Count(w, f) PROVE \A v \in Workers : Exact(v)
  <2>1. work[w] \in Job /\ work[w].tally \in Tally
    BY <1>t DEF TypeOK, Job
  <2>2. /\ \A v \in Workers : v # w => work'[v] = work[v]
        /\ work'[w].settled = work[w].settled
        /\ work'[w].step = After(f)
        /\ work'[w].tally = [work[w].tally EXCEPT ![f] = Query(f)]
    BY <1>c, <1>t, <2>1 DEF Count, TypeOK, Job
  <2>3. ASSUME work'[w].settled, ~deferred', NEW g \in Cast, HasRead(After(f), g)
        PROVE  work'[w].tally[g] = Query(g)'
    <3>1. g # f => HasRead(f, g)
      BY <2>3 DEF HasRead, After, Field, Cast
    <3>2. work[w].step = f
      BY <1>c DEF Count, At
    <3>3. g # f => work[w].tally[g] = Query(g)
      BY <3>1, <3>2, <2>2, <2>3, <1>t, DeferredStays DEF CountsExact
    <3>4. g \in Field
      BY DEF Cast
    <3>5. work'[w].tally[g] = Query(g)
      BY <2>1, <2>2, <3>3, <3>4 DEF Tally
    <3>6. vote' = vote
      BY <1>c DEF Count
    <3> QED
      BY <3>5, <3>6, SameVotes
  <2>4. work'[w].settled /\ ~deferred' => VotesAreIn'
    BY <1>t, <2>2, VotesStay, DeferredStays DEF CountsExact
  <2> QED
    BY <1>k, <2>2, <2>3, <2>4
<1>w. ASSUME NEW w \in Workers, CheckWindow(w) PROVE \A v \in Workers : Exact(v)
  <2>1. work[w] \in Job
    BY <1>t DEF TypeOK
  <2>2. /\ \A v \in Workers : v # w => work'[v] = work[v]
        /\ work'[w].settled = work[w].settled
        /\ work'[w].step \in {"finalize", "vote"}
    BY <1>w, <1>t, <2>1 DEF CheckWindow, TypeOK, Job
  <2>3. \A f \in Cast : ~HasRead(work'[w].step, f)
    BY <2>2 DEF HasRead
  <2>4. work'[w].settled /\ ~deferred' => VotesAreIn'
    BY <1>t, <2>2, VotesStay, DeferredStays DEF CountsExact
  <2> QED
    BY <1>k, <2>2, <2>3, <2>4
<1>r. ASSUME NEW w \in Workers, NEW m \in Members, NEW c \in Ballots, BeginCast(w, m, c)
      PROVE  \A v \in Workers : Exact(v)
  <2>1. Read("check") \in Job /\ ~Read("check").settled
    BY <1>t, ReadJob DEF Step
  <2>2. ~[Read("check") EXCEPT !.voter = m, !.choice = c].settled
    BY <2>1 DEF Job
  <2>3. work' = [work EXCEPT ![w] = [Read("check") EXCEPT !.voter = m, !.choice = c]]
    BY <1>r DEF BeginCast
  <2> QED
    BY <1>j, <2>2, <2>3
<1>f. ASSUME NEW w \in Workers, BeginClose(w) \/ BeginResults(w) PROVE \A v \in Workers : Exact(v)
  <2>1. ~Read("finalize").settled
    BY <1>t, ReadJob DEF Step
  <2>2. work' = [work EXCEPT ![w] = Read("finalize")]
    BY <1>f DEF BeginClose, BeginResults
  <2> QED
    BY <1>j, <2>1, <2>2
<1>e. ASSUME NEW w \in Workers, BeginEdit(w) PROVE \A v \in Workers : Exact(v)
  <2>1. ~Read("edit").settled
    BY <1>t, ReadJob DEF Step
  <2>2. work' = [work EXCEPT ![w] = Read("edit")]
    BY <1>e DEF BeginEdit
  <2> QED
    BY <1>j, <2>1, <2>2
<1>s. ASSUME NEW w \in Workers, BeginSchedule(w) PROVE \A v \in Workers : Exact(v)
  <2> DEFINE j == [Idle EXCEPT !.step = "eligible", !.scheduled = TRUE, !.settled = VotesAreIn]
  <2>1. j.settled = VotesAreIn /\ j.step = "eligible"
    BY DEF Idle
  <2>2. work' = [work EXCEPT ![w] = j]
    BY <1>s DEF BeginSchedule
  <2> HIDE DEF j
  <2> QED
    BY <1>b, <2>1, <2>2
<1>n. ASSUME NEW w \in Workers, BeginCount(w) PROVE \A v \in Workers : Exact(v)
  <2> DEFINE j == [Idle EXCEPT !.step = "eligible", !.seen = work[w].seen,
                        !.settled = VotesAreIn, !.rested = work[w].rested]
  <2>1. j.settled = VotesAreIn /\ j.step = "eligible"
    BY DEF Idle
  <2>2. Done(w) \/ work' = [work EXCEPT ![w] = j]
    BY <1>n DEF BeginCount
  <2> HIDE DEF j
  <2> QED
    BY <1>b, <1>d, <2>1, <2>2
<1>o. ASSUME NEW w \in Workers, Store(w) PROVE \A v \in Workers : Exact(v)
  <2>1. ~[Idle EXCEPT !.step = "close"].settled
    BY DEF Idle
  <2>2. Done(w) \/ work' = [work EXCEPT ![w] = [Idle EXCEPT !.step = "close"]]
    BY <1>o DEF Store
  <2> QED
    BY <1>d, <1>j, <2>1, <2>2
<1>u. ASSUME UNCHANGED work PROVE \A v \in Workers : Exact(v)
  BY <1>u, <1>k
<1>1. \A v \in Workers : Exact(v)
  BY <1>c, <1>d, <1>w, <1>r, <1>f, <1>e, <1>s, <1>n, <1>o, <1>u
  DEF Next, Continue, SaveVote, Close, SaveEdit, Crash, Tick, Leave, vars
<1>2. CountsExact'
  BY <1>1 DEF CountsExact
<1>3. ResultExact'
  <2>1. CASE UNCHANGED result
    BY <1>t, <2>1, VotesStay, DeferredStays, SameVotes DEF ResultExact
  <2>2. ASSUME NEW w \in Workers, Store(w) PROVE ResultExact'
    <3>1. result'.settled = work[w].settled /\ result'.tally = work[w].tally
      BY <2>2 DEF Store
    <3>2. work[w].settled /\ ~deferred => VotesAreIn /\ \A f \in Cast : work[w].tally[f] = Query(f)
      BY <2>2, <1>t DEF CountsExact, Store, At, HasRead
    <3> QED
      BY <3>1, <3>2, <1>t, VotesStay, DeferredStays, SameVotes DEF ResultExact
  <2>3. UNCHANGED result \/ \E w \in Workers : Store(w)
    BY DEF Next, Continue, BeginCast, BeginClose, BeginResults, BeginSchedule, BeginEdit, CheckWindow,
           SaveVote, BeginCount, Count, Close, SaveEdit, Crash, Tick, Leave, vars
  <2> QED
    BY <2>1, <2>2, <2>3
<1> QED
  BY <1>2, <1>3

\* A result is written over, never removed.
LEMMA ResultStays ==
  ASSUME [Next]_vars
  PROVE  result.exists => result'.exists
<1>1. ASSUME NEW w \in Workers, Store(w) PROVE result'.exists
  BY <1>1 DEF Store
<1>2. UNCHANGED result \/ \E w \in Workers : Store(w)
  BY DEF Next, Continue, BeginCast, BeginClose, BeginResults, BeginSchedule, BeginEdit, CheckWindow,
         SaveVote, BeginCount, Count, Close, SaveEdit, Crash, Tick, Leave, vars
<1> QED
  BY <1>1, <1>2

\* An edit that closed the motion is remembered.
LEMMA ClosedByEditStays ==
  ASSUME [Next]_vars
  PROVE  closedByEdit => closedByEdit'
BY DEF Next, Continue, BeginCast, BeginClose, BeginResults, BeginSchedule, BeginEdit, CheckWindow,
       SaveVote, BeginCount, Count, Store, Close, SaveEdit, Crash, Tick, Leave, vars, history

\* Whoever reads a closed motion finds its result, unless an edit closed it, and
\* the motion is closed by one who stored it or found it closed.
LEMMA FoundStep ==
  ASSUME IInv, [Next]_vars
  PROVE  ResultsFound' /\ ClosedHasResult'
<1>t. Typed /\ TypeOK /\ ResultsFound /\ ClosedHasResult
  BY DEF IInv, Sound, Typed
<1> DEFINE Found(v) ==
      /\ work'[v].seen = "CLOSED" => result'.exists \/ closedByEdit'
      /\ work'[v].step = "close" => result'.exists
<1>k. ASSUME NEW v \in Workers, work'[v] = work[v] PROVE Found(v)
  BY <1>k, <1>t, ResultStays, ClosedByEditStays DEF ResultsFound
<1>n. None # "CLOSED"
  BY MotionAssumption DEF MotionStatus
<1>j. ASSUME NEW w \in Workers, NEW j, j.step = "close" => result'.exists,
             j.seen = "CLOSED" => result'.exists \/ closedByEdit', work' = [work EXCEPT ![w] = j]
      PROVE  \A v \in Workers : Found(v)
  BY <1>j, <1>k, <1>t, NewJob
<1>d. ASSUME NEW w \in Workers, Done(w) PROVE \A v \in Workers : Found(v)
  <2>1. Idle.step # "close" /\ Idle.seen # "CLOSED"
    BY <1>n DEF Idle
  <2> QED
    BY <1>d, <1>j, <2>1 DEF Done
<1>q. ASSUME NEW w \in Workers, NEW f \in Field, Count(w, f) PROVE \A v \in Workers : Found(v)
  <2>1. /\ \A v \in Workers : v # w => work'[v] = work[v]
        /\ work'[w].seen = work[w].seen
        /\ work'[w].step = After(f)
    BY <1>q, <1>t DEF Count, TypeOK, Job
  <2>2. After(f) # "close"
    BY <1>t, QueryType
  <2>3. Found(w)
    BY <2>1, <2>2, <1>t, ResultStays, ClosedByEditStays DEF ResultsFound
  <2> QED
    BY <1>k, <2>1, <2>3
<1>w. ASSUME NEW w \in Workers, CheckWindow(w) PROVE \A v \in Workers : Found(v)
  <2>1. work[w] \in Job
    BY <1>t DEF TypeOK
  <2>2. /\ \A v \in Workers : v # w => work'[v] = work[v]
        /\ work'[w].seen = None \/ work'[w].seen = work[w].seen
        /\ work'[w].step \in {"finalize", "vote"}
    BY <1>w, <1>t, <2>1 DEF CheckWindow, TypeOK, Job
  <2>3. Found(w)
    BY <1>n, <1>t, <2>2, ResultStays, ClosedByEditStays DEF ResultsFound
  <2> QED
    BY <1>k, <2>2, <2>3
<1>r. ASSUME NEW w \in Workers, NEW m \in Members, NEW c \in Ballots, BeginCast(w, m, c)
      PROVE  \A v \in Workers : Found(v)
  <2> DEFINE j == [Read("check") EXCEPT !.voter = m, !.choice = c]
  <2>1. Read("check") \in Job /\ Read("check").seen = status /\ Read("check").step = "check"
    BY <1>t, ReadJob DEF Step
  <2>2. j.seen = status /\ j.step # "close"
    BY <2>1 DEF Job
  <2>3. work' = [work EXCEPT ![w] = j]
    BY <1>r DEF BeginCast
  <2> HIDE DEF j
  <2> QED
    BY <1>j, <1>t, <2>2, <2>3, ResultStays, ClosedByEditStays DEF ClosedHasResult
<1>f. ASSUME NEW w \in Workers, BeginClose(w) \/ BeginResults(w) PROVE \A v \in Workers : Found(v)
  <2>1. Read("finalize").seen = status /\ Read("finalize").step # "close"
    BY <1>t, ReadJob DEF Step
  <2>2. work' = [work EXCEPT ![w] = Read("finalize")]
    BY <1>f DEF BeginClose, BeginResults
  <2> QED
    BY <1>j, <1>t, <2>1, <2>2, ResultStays, ClosedByEditStays DEF ClosedHasResult
<1>e. ASSUME NEW w \in Workers, BeginEdit(w) PROVE \A v \in Workers : Found(v)
  <2>1. Read("edit").seen = status /\ Read("edit").step # "close"
    BY <1>t, ReadJob DEF Step
  <2>2. work' = [work EXCEPT ![w] = Read("edit")]
    BY <1>e DEF BeginEdit
  <2> QED
    BY <1>j, <1>t, <2>1, <2>2, ResultStays, ClosedByEditStays DEF ClosedHasResult
<1>s. ASSUME NEW w \in Workers, BeginSchedule(w) PROVE \A v \in Workers : Found(v)
  <2> DEFINE j == [Idle EXCEPT !.step = "eligible", !.scheduled = TRUE, !.settled = VotesAreIn]
  <2>1. j.step # "close" /\ j.seen # "CLOSED"
    BY <1>n DEF Idle
  <2>2. work' = [work EXCEPT ![w] = j]
    BY <1>s DEF BeginSchedule
  <2> HIDE DEF j
  <2> QED
    BY <1>j, <2>1, <2>2
<1>b. ASSUME NEW w \in Workers, BeginCount(w) PROVE \A v \in Workers : Found(v)
  <2> DEFINE j == [Idle EXCEPT !.step = "eligible", !.seen = work[w].seen,
                        !.settled = VotesAreIn, !.rested = work[w].rested]
  <2>1. j.step # "close" /\ j.seen = work[w].seen
    BY DEF Idle
  <2>2. Done(w) \/ work' = [work EXCEPT ![w] = j]
    BY <1>b DEF BeginCount
  <2>3. j.seen = "CLOSED" => result'.exists \/ closedByEdit'
    BY <1>t, <2>1, ResultStays, ClosedByEditStays DEF ResultsFound
  <2> HIDE DEF j
  <2> QED
    BY <1>j, <1>d, <2>1, <2>2, <2>3
<1>o. ASSUME NEW w \in Workers, Store(w) PROVE \A v \in Workers : Found(v)
  <2>1. [Idle EXCEPT !.step = "close"].seen # "CLOSED"
    BY <1>n DEF Idle
  <2>2. /\ Done(w) \/ work' = [work EXCEPT ![w] = [Idle EXCEPT !.step = "close"]]
        /\ result'.exists
    BY <1>o DEF Store
  <2> QED
    BY <1>d, <1>j, <2>1, <2>2
<1>u. ASSUME UNCHANGED work PROVE \A v \in Workers : Found(v)
  BY <1>u, <1>k
<1>1. \A v \in Workers : Found(v)
  BY <1>q, <1>d, <1>w, <1>r, <1>f, <1>e, <1>s, <1>b, <1>o, <1>u
  DEF Next, Continue, SaveVote, Close, SaveEdit, Crash, Tick, Leave, vars
<1>2. ResultsFound'
  BY <1>1 DEF ResultsFound
<1>3. ClosedHasResult'
  <2>1. CASE UNCHANGED status
    BY <2>1, <1>t, ResultStays, ClosedByEditStays DEF ClosedHasResult
  <2>2. ASSUME NEW w \in Workers, Close(w) PROVE ClosedHasResult'
    BY <2>2, <1>t, ResultStays DEF Close, At, ResultsFound, ClosedHasResult
  <2>3. ASSUME NEW w \in Workers, NEW s \in Statuses, NEW e \in Ends, SaveEdit(w, s, e)
        PROVE  ClosedHasResult'
    <3>1. status' = "CLOSED" => work[w].seen = "CLOSED" \/ closedByEdit'
      BY <2>3 DEF SaveEdit, Saved
    <3> QED
      BY <3>1, <1>t, ResultStays, ClosedByEditStays DEF ResultsFound, ClosedHasResult
  <2>4. \/ UNCHANGED status
        \/ \E w \in Workers : Close(w)
        \/ \E w \in Workers, s \in Statuses, e \in Ends : SaveEdit(w, s, e)
    BY DEF Next, Continue, BeginCast, BeginClose, BeginResults, BeginSchedule, BeginEdit, CheckWindow,
           SaveVote, BeginCount, Count, Store, Crash, Tick, Leave, vars
  <2> QED
    BY <2>1, <2>2, <2>3, <2>4
<1> QED
  BY <1>2, <1>3

\* Who came to a motion at rest finds its window closed, then its result, and
\* ends.
LEMMA RestStep ==
  ASSUME IInv, [Next]_vars
  PROVE  RestedLeave'
<1>t. Typed /\ TypeOK /\ RestedLeave
  BY DEF IInv, Sound, Typed
<1> DEFINE Leaves(v) ==
      work'[v].rested =>
        /\ work'[v].step \in {"check", "finalize", "edit"}
        /\ work'[v].seen = "CLOSED" /\ work'[v].known
<1>k. ASSUME NEW v \in Workers, work'[v] = work[v] PROVE Leaves(v)
  BY <1>k, <1>t DEF RestedLeave
<1>j. ASSUME NEW w \in Workers, NEW j,
             j.rested => /\ j.step \in {"check", "finalize", "edit"}
                         /\ j.seen = "CLOSED" /\ j.known,
             work' = [work EXCEPT ![w] = j]
      PROVE  \A v \in Workers : Leaves(v)
  BY <1>j, <1>k, <1>t, NewJob
<1>d. ASSUME NEW w \in Workers, Done(w) PROVE \A v \in Workers : Leaves(v)
  <2>1. ~Idle.rested
    BY DEF Idle
  <2> QED
    BY <1>d, <1>j, <2>1 DEF Done
<1>q. ASSUME NEW w \in Workers, NEW f \in Field, Count(w, f) PROVE \A v \in Workers : Leaves(v)
  <2>1. /\ \A v \in Workers : v # w => work'[v] = work[v]
        /\ work'[w].rested = work[w].rested
    BY <1>q, <1>t DEF Count, TypeOK, Job
  <2>2. work[w].step = f
    BY <1>q DEF Count, At
  <2>3. ~work[w].rested
    BY <2>2, <1>t DEF RestedLeave, Field
  <2> QED
    BY <1>k, <2>1, <2>3
<1>w. ASSUME NEW w \in Workers, CheckWindow(w) PROVE \A v \in Workers : Leaves(v)
  <2>1. work[w] \in Job
    BY <1>t DEF TypeOK
  <2>2. /\ \A v \in Workers : v # w => work'[v] = work[v]
        /\ work'[w].rested = work[w].rested
        /\ Over(w) => /\ work'[w].step = "finalize"
                      /\ work'[w].seen = work[w].seen /\ work'[w].known = work[w].known
    BY <1>w, <1>t, <2>1 DEF CheckWindow, TypeOK, Job
  <2>3. work[w].rested => Over(w)
    BY <1>t DEF RestedLeave, Over
  <2>4. Leaves(w)
    BY <2>2, <2>3, <1>t DEF RestedLeave
  <2> QED
    BY <1>k, <2>2, <2>4
<1>r. ASSUME NEW w \in Workers, NEW m \in Members, NEW c \in Ballots, BeginCast(w, m, c)
      PROVE  \A v \in Workers : Leaves(v)
  <2> DEFINE j == [Read("check") EXCEPT !.voter = m, !.choice = c]
  <2>1. /\ Read("check") \in Job /\ Read("check").seen = status
        /\ Read("check").rested = AtRest /\ Read("check").step = "check"
        /\ Read("check").known = result.exists
    BY <1>t, ReadJob DEF Step
  <2>2. j.seen = status /\ j.known = result.exists /\ j.rested = AtRest /\ j.step = "check"
    BY <2>1 DEF Job
  <2>3. work' = [work EXCEPT ![w] = j]
    BY <1>r DEF BeginCast
  <2> HIDE DEF j
  <2> QED
    BY <1>j, <2>2, <2>3, RestIsClosed
<1>f. ASSUME NEW w \in Workers, BeginClose(w) \/ BeginResults(w) PROVE \A v \in Workers : Leaves(v)
  <2>1. /\ Read("finalize").seen = status /\ Read("finalize").rested = AtRest
        /\ Read("finalize").step = "finalize" /\ Read("finalize").known = result.exists
    BY <1>t, ReadJob DEF Step
  <2>2. work' = [work EXCEPT ![w] = Read("finalize")]
    BY <1>f DEF BeginClose, BeginResults
  <2> QED
    BY <1>j, <2>1, <2>2, RestIsClosed
<1>e. ASSUME NEW w \in Workers, BeginEdit(w) PROVE \A v \in Workers : Leaves(v)
  <2>1. /\ Read("edit").seen = status /\ Read("edit").rested = AtRest
        /\ Read("edit").step = "edit" /\ Read("edit").known = result.exists
    BY <1>t, ReadJob DEF Step
  <2>2. work' = [work EXCEPT ![w] = Read("edit")]
    BY <1>e DEF BeginEdit
  <2> QED
    BY <1>j, <2>1, <2>2, RestIsClosed
<1>s. ASSUME NEW w \in Workers, BeginSchedule(w) PROVE \A v \in Workers : Leaves(v)
  <2> DEFINE j == [Idle EXCEPT !.step = "eligible", !.scheduled = TRUE, !.settled = VotesAreIn]
  <2>1. ~j.rested
    BY DEF Idle
  <2>2. work' = [work EXCEPT ![w] = j]
    BY <1>s DEF BeginSchedule
  <2> HIDE DEF j
  <2> QED
    BY <1>j, <2>1, <2>2
<1>b. ASSUME NEW w \in Workers, BeginCount(w) PROVE \A v \in Workers : Leaves(v)
  <2> DEFINE j == [Idle EXCEPT !.step = "eligible", !.seen = work[w].seen,
                        !.settled = VotesAreIn, !.rested = work[w].rested]
  <2>1. j.rested = work[w].rested
    BY DEF Idle
  <2>2. Done(w) \/ (work' = [work EXCEPT ![w] = j] /\ ~Counted(w))
    BY <1>b DEF BeginCount
  <2>3. work[w].rested => Counted(w)
    BY <1>b, <1>t DEF RestedLeave, Counted, BeginCount, At
  <2> HIDE DEF j
  <2> QED
    BY <1>j, <1>d, <2>1, <2>2, <2>3
<1>o. ASSUME NEW w \in Workers, Store(w) PROVE \A v \in Workers : Leaves(v)
  <2>1. ~[Idle EXCEPT !.step = "close"].rested
    BY DEF Idle
  <2>2. Done(w) \/ work' = [work EXCEPT ![w] = [Idle EXCEPT !.step = "close"]]
    BY <1>o DEF Store
  <2> QED
    BY <1>d, <1>j, <2>1, <2>2
<1>u. ASSUME UNCHANGED work PROVE \A v \in Workers : Leaves(v)
  BY <1>u, <1>k
<1>1. \A v \in Workers : Leaves(v)
  BY <1>q, <1>d, <1>w, <1>r, <1>f, <1>e, <1>s, <1>b, <1>o, <1>u
  DEF Next, Continue, SaveVote, Close, SaveEdit, Crash, Tick, Leave, vars
<1> QED
  BY <1>1 DEF RestedLeave

-----------------------------------------------------------------------------
(* Theorems.                                                               *)

\* The invariant holds in every state.
THEOREM Invariance == Spec => []IInv
<1>1. IInv /\ [Next]_vars => IInv'
  BY TypeStep, CountStep, FoundStep, RestStep DEF IInv, Sound
<1> QED
  BY InitInv, <1>1, PTL DEF Spec

\* For any members, processes, edits and crashes every row and every job has
\* its type: no edit saves a status that was not read or given.
THEOREM MotionTypeCorrect == Spec => []TypeOK
  BY Invariance, PTL DEF IInv, Typed

\* A closed motion has a result unless an edit closed it, whatever dies and
\* whatever older status an edit puts back.
THEOREM ClosedIsDecided == Spec => []ClosedHasResult
  BY Invariance, PTL DEF IInv, Sound

\* A count that began when the votes were in is the count of the votes there
\* are until the end is put off, however its queries interleave with the rest.
THEOREM SettledIsExact == Spec => []SettledCountIsExact
<1>1. IInv => SettledCountIsExact
  BY DEF IInv, Sound, ResultExact, SettledCountIsExact, Cast
<1> QED
  BY Invariance, <1>1, PTL

\* A motion at rest is worked on by nobody who may change its votes or result.
LEMMA RestLeaves ==
  ASSUME IInv, AtRest
  PROVE  \A w \in Workers : work[w].step \in {"idle", "check", "finalize", "edit"}
  BY DEF IInv, Sound, RestedLeave, AtRest, At

\* A process that comes to a motion at rest finds it so, and who found it so
\* goes on from that.
LEMMA RestGoesOn ==
  ASSUME IInv, AtRest, [Next]_vars, NEW v \in Workers
  PROVE  work'[v].step = "idle" \/ work'[v].rested
<1>t. Typed /\ TypeOK /\ RestedLeave
  BY DEF IInv, Sound, Typed
<1>r. \A w \in Workers : work[w].step = "idle" \/ work[w].rested
  BY DEF AtRest, At
<1>k. ASSUME work'[v] = work[v] PROVE work'[v].step = "idle" \/ work'[v].rested
  BY <1>k, <1>r
<1>j. ASSUME NEW w \in Workers, NEW j, j.step = "idle" \/ j.rested, work' = [work EXCEPT ![w] = j]
      PROVE  work'[v].step = "idle" \/ work'[v].rested
  BY <1>j, <1>k, <1>t, NewJob
<1>d. ASSUME NEW w \in Workers, Done(w) PROVE work'[v].step = "idle" \/ work'[v].rested
  <2>1. Idle.step = "idle"
    BY DEF Idle
  <2> QED
    BY <1>d, <1>j, <2>1 DEF Done
<1>1. ASSUME NEW w \in Workers, NEW m \in Members, NEW c \in Ballots, BeginCast(w, m, c)
      PROVE  work'[v].step = "idle" \/ work'[v].rested
  <2> DEFINE j == [Read("check") EXCEPT !.voter = m, !.choice = c]
  <2>1. Read("check") \in Job /\ Read("check").rested
    BY <1>t, ReadJob DEF Step
  <2>2. j.rested
    BY <2>1 DEF Job
  <2>3. work' = [work EXCEPT ![w] = j]
    BY <1>1 DEF BeginCast
  <2> HIDE DEF j
  <2> QED
    BY <1>j, <2>2, <2>3
<1>2. ASSUME NEW w \in Workers, BeginClose(w) \/ BeginResults(w) \/ BeginEdit(w)
      PROVE  work'[v].step = "idle" \/ work'[v].rested
  <2>1. Read("finalize").rested /\ Read("edit").rested
    BY <1>t, ReadJob DEF Step
  <2> QED
    BY <1>2, <1>j, <2>1 DEF BeginClose, BeginResults, BeginEdit
<1>3. ASSUME NEW w \in Workers, BeginSchedule(w) PROVE FALSE
  BY <1>3 DEF BeginSchedule, Due, AtRest
<1>4. ASSUME NEW w \in Workers, CheckWindow(w)
      PROVE  work'[v].step = "idle" \/ work'[v].rested
  <2>1. work[w] \in Job
    BY <1>t DEF TypeOK
  <2>2. work[w].rested
    BY <1>4, <1>r DEF CheckWindow, At
  <2>3. /\ \A u \in Workers : u # w => work'[u] = work[u]
        /\ work'[w].rested = work[w].rested
    BY <1>4, <1>t, <2>1 DEF CheckWindow, TypeOK, Job
  <2> QED
    BY <1>k, <2>2, <2>3
<1>5. ASSUME NEW w \in Workers, BeginCount(w) PROVE work'[v].step = "idle" \/ work'[v].rested
  <2>1. work[w].step = "finalize" /\ work[w].rested
    BY <1>5, <1>r DEF BeginCount, At
  <2>2. Counted(w)
    BY <1>t, <2>1 DEF RestedLeave, Counted
  <2> QED
    BY <1>5, <1>d, <2>2 DEF BeginCount
<1>6. ASSUME NEW w \in Workers,
             SaveVote(w) \/ Store(w) \/ Close(w) \/ \E f \in Field : Count(w, f)
      PROVE  FALSE
  BY <1>6, RestLeaves DEF SaveVote, Store, Close, Count, At, Field
<1>7. ASSUME NEW w \in Workers, Crash(w) \/ \E s \in Statuses, e \in Ends : SaveEdit(w, s, e)
      PROVE  work'[v].step = "idle" \/ work'[v].rested
  BY <1>7, <1>d DEF Crash, SaveEdit
<1>8. CASE UNCHANGED work
  BY <1>8, <1>k
<1> QED
  BY <1>1, <1>2, <1>3, <1>4, <1>5, <1>6, <1>7, <1>8 DEF Next, Continue, Tick, Leave, vars

\* The votes and the verdict of a motion at rest stand, whoever comes to it, and
\* only an edit of its status ends the rest.
THEOREM RestStands == Spec => VerdictStands
<1>1. ASSUME IInv, [Next]_vars, AtRest PROVE UNCHANGED <<vote, result>>
  <2>1. \A w \in Workers : ~SaveVote(w) /\ ~Store(w)
    BY <1>1, RestLeaves DEF SaveVote, Store, At
  <2> QED
    BY <1>1, <2>1 DEF Next, Continue, BeginCast, BeginClose, BeginResults, BeginSchedule, BeginEdit,
         CheckWindow, BeginCount, Count, Close, SaveEdit, Crash, Tick, Leave, vars
<1>2. ASSUME IInv, [Next]_vars, AtRest
      PROVE  status' = "CLOSED" \/ \E w \in Workers : At(w, "edit") /\ status' # "CLOSED"
  <2>1. \/ status' \in {status, "CLOSED"}
        \/ \E w \in Workers, s \in Statuses, e \in Ends : SaveEdit(w, s, e)
    BY <1>2 DEF Next, Continue, BeginCast, BeginClose, BeginResults, BeginSchedule, BeginEdit,
         CheckWindow, SaveVote, BeginCount, Count, Store, Close, Crash, Tick, Leave, vars
  <2> QED
    BY <1>2, <2>1 DEF SaveEdit, AtRest
<1>3. ASSUME IInv, [Next]_vars, AtRest, status' = "CLOSED" PROVE AtRest'
  <2>1. result'.exists
    BY <1>3, ResultStays DEF AtRest
  <2>2. \A v \in Workers : work'[v].step = "idle" \/ work'[v].rested
    BY <1>3, RestGoesOn
  <2> QED
    BY <1>3, <2>1, <2>2 DEF AtRest, At
<1>4. IInv /\ [Next]_vars =>
        [AtRest => /\ UNCHANGED <<vote, result>>
                   /\ AtRest' \/ \E w \in Workers : At(w, "edit") /\ status' # "CLOSED"]_vars
  BY <1>1, <1>2, <1>3
<1> QED
  BY Invariance, <1>4, PTL DEF Spec, VerdictStands
=============================================================================
