----------------------------- MODULE MotionVoting -----------------------------
(***************************************************************************)
(* A motion of a chama (src/apps/governance): members vote until its end,  *)
(* and whoever notices that the end has passed - a late voter, a reader of *)
(* the results, an official, the task close_expired_voting - counts the    *)
(* votes, stores the result and closes the motion.                         *)
(*                                                                         *)
(* Nothing here runs in a transaction and nothing is locked: each count is *)
(* a query of its own, and what a request has read it keeps in work.       *)
(***************************************************************************)
EXTENDS Integers, FiniteSets

CONSTANTS
    Members,        \* of the chama, in a role that may vote
    Types,          \* kinds of motion that are put to the vote
    Quorum,         \* quorum_percent
    Ballots,        \* the choices that members make
    Deadline,       \* end_time the motion is created with
    Statuses,       \* the status in an edit's form, None if the form has none
    Ends,           \* the end_time in an edit's form, None if the form has none
    LastDay,        \* bound on the clock
    MaxBallots,     \* bound on the requests to vote
    MaxEdits,       \* bound on the edits of the motion
    MaxCrashes,     \* bound on the number of processes that die
    Workers,        \* web and Celery processes
    None

MotionType == {"ORDINARY", "SPECIAL", "UNANIMOUS"}
MotionStatus == {"OPEN", "CLOSED", "CANCELLED"}
Choice == {"YES", "NO", "ABSTAIN"}

ASSUME MotionAssumption ==
    /\ IsFiniteSet(Members)
    /\ Types \subseteq MotionType
    /\ Quorum \in 1..100
    /\ Ballots \subseteq {"YES", "NO", "ABSTAIN"}
    /\ Deadline \in Nat
    /\ Statuses \subseteq MotionStatus \cup {None}
    /\ Ends \subseteq Nat \cup {None}
    /\ LastDay \in Nat
    /\ MaxBallots \in Nat
    /\ MaxEdits \in Nat
    /\ MaxCrashes \in Nat
    /\ None \notin Members \cup MotionStatus \cup Nat

VARIABLES
    type,       \* vote_type
    status,     \* status of the Motion row
    endTime,    \* end_time of the Motion row
    now,        \* the clock
    active,     \* members whose membership is active and approved
    vote,       \* MotionVote of each member, if any
    result,     \* the MotionResult row
    work,       \* what each worker is doing
    ballots,
    edits,
    crashes,
    closedByEdit,   \* history: an edit has given it the status CLOSED
    deferred        \* history: an edit has put its end off

history == <<closedByEdit, deferred>>
vars == <<type, status, endTime, now, active, vote, result, work, ballots, edits, crashes,
          closedByEdit, deferred>>

\* In the order in which they are counted.
Field == {"eligible", "total", "yes", "no", "abstain"}
Tally == [Field -> Nat]
\* settled: history; whether counting began after the end, with no vote on its
\* way to the database.
Result == [exists : BOOLEAN, tally : Tally, passed : BOOLEAN, settled : BOOLEAN]
Step == {"idle", "check", "vote", "finalize", "store", "close", "edit"} \cup Field
\* seen, end, known: the status, the end, and whether there was a result, when the
\* motion was read; scheduled: this is the task's count and not a request's; rested:
\* history; whether it began when the motion was closed and at rest.
Job == [step : Step, voter : Members \cup {None}, choice : Choice \cup {None},
        seen : MotionStatus \cup {None}, end : Nat \cup {None}, known : BOOLEAN, scheduled : BOOLEAN,
        tally : Tally, settled : BOOLEAN, rested : BOOLEAN]

NoTally == [f \in Field |-> 0]
Idle == [step |-> "idle", voter |-> None, choice |-> None, seen |-> None,
         end |-> None, known |-> FALSE, scheduled |-> FALSE, tally |-> NoTally,
         settled |-> FALSE, rested |-> FALSE]

TypeOK ==
    /\ type \in Types
    /\ status \in MotionStatus
    /\ endTime \in Nat
    /\ now \in 0..LastDay
    /\ active \subseteq Members
    /\ vote \in [Members -> Choice \cup {None}]
    /\ result \in Result
    /\ work \in [Workers -> Job]
    /\ ballots \in 0..MaxBallots
    /\ edits \in 0..MaxEdits
    /\ crashes \in 0..MaxCrashes
    /\ closedByEdit \in BOOLEAN
    /\ deferred \in BOOLEAN

Init ==
    /\ type \in Types
    /\ status = "OPEN"
    /\ endTime = Deadline
    /\ now = 0
    /\ active = Members
    /\ vote = [m \in Members |-> None]
    /\ result = [exists |-> FALSE, tally |-> NoTally, passed |-> FALSE, settled |-> FALSE]
    /\ work = [w \in Workers |-> Idle]
    /\ ballots = 0
    /\ edits = 0
    /\ crashes = 0
    /\ closedByEdit = FALSE
    /\ deferred = FALSE

At(w, step) == work[w].step = step
Done(w) == work' = [work EXCEPT ![w] = Idle]
Ended == now >= endTime

\* The motion is closed with a result, and nobody works on it who did not find it
\* so.
AtRest ==
    /\ status = "CLOSED" /\ result.exists
    /\ \A w \in Workers : At(w, "idle") \/ work[w].rested

\* get_object: the motion, and its result with it, are read.
Read(step) ==
    [Idle EXCEPT !.step = step, !.seen = status, !.end = endTime,
                 !.known = result.exists, !.rested = AtRest]

\* Mutant: only the status is looked at, which nobody changes at the end.
OverByStatus(w) == work[w].seen # "OPEN"
\* The window is closed, going by the motion that was read and the clock.
Over(w) == work[w].seen # "OPEN" \/ now >= work[w].end

\* No vote can be stored any more, unless the end is put off: it has passed, and
\* no request that checked it earlier, or read a later one, has yet to save.
VotesAreIn ==
    /\ Ended
    /\ \A w \in Workers : ~At(w, "vote") /\ (At(w, "check") => Over(w))

-----------------------------------------------------------------------------
(* Casting a vote (views.py, cast_vote).                                   *)

BeginCast(w, m, c) ==
    /\ At(w, "idle")
    /\ m \in active
    /\ ballots < MaxBallots
    /\ work' = [work EXCEPT ![w] = [Read("check") EXCEPT !.voter = m, !.choice = c]]
    /\ ballots' = ballots + 1
    /\ UNCHANGED <<type, status, endTime, now, active, vote, result, edits, crashes, history>>

\* A vote that comes too late makes its request close the motion.
CheckWindow(w) ==
    /\ At(w, "check")
    /\ work' = [work EXCEPT ![w] =
                    IF Over(w) THEN [@ EXCEPT !.step = "finalize", !.voter = None, !.choice = None]
                    ELSE [@ EXCEPT !.step = "vote", !.seen = None, !.end = None,
                                          !.known = FALSE]]
    /\ UNCHANGED <<type, status, endTime, now, active, vote, result, ballots, edits,
                   crashes, history>>

\* update_or_create: a second vote of a member replaces the first.
SaveVote(w) ==
    /\ At(w, "vote")
    /\ vote' = [vote EXCEPT ![work[w].voter] = work[w].choice]
    /\ Done(w)
    /\ UNCHANGED <<type, status, endTime, now, active, result, ballots, edits,
                   crashes, history>>

-----------------------------------------------------------------------------
(* Counting and closing (views.py, _finalize_motion, and tasks.py).        *)

\* close: an official may close a motion before its end.
BeginClose(w) ==
    /\ At(w, "idle")
    /\ work' = [work EXCEPT ![w] = Read("finalize")]
    /\ UNCHANGED <<type, status, endTime, now, active, vote, result, ballots, edits,
                   crashes, history>>

\* results: a reader closes a motion that is past its end.
BeginResults(w) ==
    /\ At(w, "idle")
    /\ status = "OPEN" /\ Ended
    /\ work' = [work EXCEPT ![w] = Read("finalize")]
    /\ UNCHANGED <<type, status, endTime, now, active, vote, result, ballots, edits,
                   crashes, history>>

\* Mutant: a motion with a result is taken for one that was closed.
DueWithoutResult == status = "OPEN" /\ Ended /\ ~result.exists
\* What close_expired_voting selects.
Due == status = "OPEN" /\ Ended

BeginSchedule(w) ==
    /\ At(w, "idle")
    /\ Due
    /\ work' = [work EXCEPT ![w] =
                    [Idle EXCEPT !.step = "eligible", !.scheduled = TRUE, !.settled = VotesAreIn]]
    /\ UNCHANGED <<type, status, endTime, now, active, vote, result, ballots, edits,
                   crashes, history>>

\* Mutant: a closed motion is counted again.
NeverCounted(w) == FALSE
\* _finalize_motion answers with the result there is.
Counted(w) == work[w].seen = "CLOSED" /\ work[w].known

BeginCount(w) ==
    /\ At(w, "finalize")
    /\ IF Counted(w) THEN Done(w)
       ELSE work' = [work EXCEPT ![w] =
                [Idle EXCEPT !.step = "eligible", !.seen = work[w].seen,
                             !.settled = VotesAreIn, !.rested = work[w].rested]]
    /\ UNCHANGED <<type, status, endTime, now, active, vote, result, ballots, edits,
                   crashes, history>>

Votes(choices) == Cardinality({m \in Members : vote[m] \in choices})

Query(field) ==
    CASE field = "eligible" -> Cardinality(active)
      [] field = "total"    -> Votes(Choice)
      [] field = "yes"      -> Votes({"YES"})
      [] field = "no"       -> Votes({"NO"})
      [] field = "abstain"  -> Votes({"ABSTAIN"})

\* Mutant: the motion is closed before its result is stored.
AfterUnstored(field) ==
    CASE field = "eligible" -> "total"
      [] field = "total"    -> "yes"
      [] field = "yes"      -> "no"
      [] field = "no"       -> "abstain"
      [] field = "abstain"  -> "close"

After(field) ==
    CASE field = "eligible" -> "total"
      [] field = "total"    -> "yes"
      [] field = "yes"      -> "no"
      [] field = "no"       -> "abstain"
      [] field = "abstain"  -> "store"

Count(w, field) ==
    /\ At(w, field)
    /\ work' = [work EXCEPT ![w].tally[field] = Query(field), ![w].step = After(field)]
    /\ UNCHANGED <<type, status, endTime, now, active, vote, result, ballots, edits,
                   crashes, history>>

\* quorum_required: a share of the eligible, rounded up, and at least one vote.
QuorumRequired(eligible) ==
    LET share == (eligible * Quorum + 99) \div 100
    IN  IF eligible = 0 THEN 0 ELSE IF share < 1 THEN 1 ELSE share

QuorumMet(t) == t["total"] >= QuorumRequired(t["eligible"])
Majority(t) == QuorumMet(t) /\ t["yes"] > t["no"]

\* The rule of _finalize_motion for each type of motion.
Carried(t) ==
    CASE type = "SPECIAL"   -> /\ QuorumMet(t)
                               /\ t["yes"] + t["no"] > 0
                               /\ 3 * t["yes"] >= 2 * (t["yes"] + t["no"])
      [] type = "UNANIMOUS" -> /\ QuorumMet(t)
                               /\ t["yes"] = t["eligible"]
                               /\ t["no"] = 0 /\ t["abstain"] = 0
      [] type = "ORDINARY"  -> Majority(t)

\* The task has one rule for all of them.
Passed(w) == IF work[w].scheduled THEN Majority(work[w].tally) ELSE Carried(work[w].tally)

\* A motion that was read as closed keeps its status.
Store(w) ==
    /\ At(w, "store")
    /\ result' = [exists |-> TRUE, tally |-> work[w].tally, passed |-> Passed(w),
                  settled |-> work[w].settled]
    /\ IF work[w].seen = "CLOSED" THEN Done(w)
       ELSE work' = [work EXCEPT ![w] = [Idle EXCEPT !.step = "close"]]
    /\ UNCHANGED <<type, status, endTime, now, active, vote, ballots, edits, crashes, history>>

Close(w) ==
    /\ At(w, "close")
    /\ status' = "CLOSED"
    /\ Done(w)
    /\ UNCHANGED <<type, endTime, now, active, vote, result, ballots, edits, crashes, history>>

-----------------------------------------------------------------------------
(* Edits, time and members; processes that die.                            *)

\* update of ModelViewSet, which any member of the chama may call: the row is
\* read ...
BeginEdit(w) ==
    /\ At(w, "idle")
    /\ edits < MaxEdits
    /\ work' = [work EXCEPT ![w] = Read("edit")]
    /\ edits' = edits + 1
    /\ UNCHANGED <<type, status, endTime, now, active, vote, result, ballots, crashes, history>>

\* Mutant: a form without a status empties it.
SavedAsGiven(w, s) == s
\* ... and saved whole: what the form leaves out is saved as it was read.
Saved(w, s) == IF s = None THEN work[w].seen ELSE s

SaveEdit(w, s, e) ==
    /\ At(w, "edit")
    /\ status' = Saved(w, s)
    /\ endTime' = IF e = None THEN work[w].end ELSE e
    /\ closedByEdit' = (closedByEdit \/ s = "CLOSED")
    /\ deferred' = (deferred \/ endTime' > endTime)
    /\ Done(w)
    /\ UNCHANGED <<type, now, active, vote, result, ballots, edits, crashes>>

Tick ==
    /\ now < LastDay
    /\ now' = now + 1
    /\ UNCHANGED <<type, status, endTime, active, vote, result, work, ballots, edits, crashes,
                   history>>

\* A membership is suspended or ended, or the member is given another role.
Leave(m) ==
    /\ m \in active
    /\ active' = active \ {m}
    /\ UNCHANGED <<type, status, endTime, now, vote, result, work, ballots, edits,
                   crashes, history>>

Crash(w) ==
    /\ ~At(w, "idle")
    /\ crashes < MaxCrashes
    /\ crashes' = crashes + 1
    /\ Done(w)
    /\ UNCHANGED <<type, status, endTime, now, active, vote, result, ballots, edits, history>>

Continue(w) ==
    \/ CheckWindow(w)
    \/ SaveVote(w)
    \/ BeginCount(w)
    \/ \E f \in Field : Count(w, f)
    \/ Store(w)
    \/ Close(w)
    \/ \E s \in Statuses, e \in Ends : SaveEdit(w, s, e)

Next ==
    \/ \E w \in Workers :
        \/ \E m \in Members, c \in Ballots : BeginCast(w, m, c)
        \/ BeginClose(w)
        \/ BeginResults(w)
        \/ BeginSchedule(w)
        \/ BeginEdit(w)
        \/ Continue(w)
        \/ Crash(w)
    \/ Tick
    \/ \E m \in Members : Leave(m)

\* Processes go on with what they began, and the schedule starts the task again
\* and again, on whichever process is free.
Fairness ==
    /\ \A w \in Workers : WF_vars(Continue(w))
    /\ SF_vars(\E w \in Workers : BeginSchedule(w))

Spec == Init /\ [][Next]_vars /\ Fairness

-----------------------------------------------------------------------------
(* Properties.                                                             *)

\* A closed motion has a result, unless an edit gave it that status: whatever dies
\* between the two saves of a count, and whatever older status an edit puts back,
\* counting never closes a motion that has none.
ClosedHasResult == status = "CLOSED" /\ ~closedByEdit => result.exists

\* A count that began when no vote could come any more is a count of the votes
\* there are, and stays one until an edit puts the end off, though each of its
\* numbers is a separate query, votes are checked against a motion read earlier,
\* and edits close, cancel and reopen the motion meanwhile.
SettledCountIsExact ==
    result.settled /\ ~deferred =>
        \A f \in Field \ {"eligible"} : result.tally[f] = Query(f)

\* A motion that is still open at its end is closed by the schedule, even when a
\* process dies between the two saves or an edit puts the status back, unless an
\* edit puts the end off.
ExpiredIsClosed == (status = "OPEN" /\ Ended) ~> (status # "OPEN" \/ ~Ended)

\* Once the motion is closed with a result and nobody is at work on it who began
\* earlier, its votes and its verdict stand, and go on standing until an edit
\* gives it another status: late voters, readers, officials and the task leave
\* the result, though members who leave would change a second count.
VerdictStands ==
    [][AtRest => /\ UNCHANGED <<vote, result>>
                 /\ AtRest' \/ \E w \in Workers : At(w, "edit") /\ status' # "CLOSED"]_vars
=============================================================================
