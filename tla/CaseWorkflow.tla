---------------------------- MODULE CaseWorkflow ----------------------------
(* One submission on its way through the office.                           *)
(*                                                                          *)
(* Everybody who moves it does so differently.  A decision holds the row    *)
(* lock; the workflow engine and a resumption compare-and-set the step; a    *)
(* rollback and a return for correction load the row without a lock and      *)
(* write back the columns they changed; the qualification recheck, the       *)
(* rejection it makes and the resubmitted correction update whatever they    *)
(* find; an edit of the answers that fails its recheck puts every column     *)
(* back.  Events, and the automatic steps behind a decision, follow in       *)
(* transactions of their own.                                               *)
(*                                                                          *)
(* The workflow is an explicit one: the form, a decision, an automatic step, *)
(* an officer's action, the end.  Its documents are DocumentGroup, its       *)
(* versions FormVersions.                                                   *)
EXTENDS Integers, FiniteSets

CONSTANTS
  Clerk,    \* requests at work on the submission
  MaxJobs,  \* bound: operations begun in a behaviour
  None      \* no clerk, no origin, no event

ASSUME CaseAssumption ==
  /\ MaxJobs \in Nat
  /\ None \notin Clerk

VARIABLES
  row,      \* FormSubmission
  event,    \* the last workflow event, if it is a qualification block
  lock,     \* holder of the row lock
  work,     \* the request of each clerk: what it does, what comes next in it,
            \* the row as it read it, the place a rollback or a resumption aims
            \* at, the row an edit would restore
  jobs,     \* operations begun
  visits,   \* times the submission entered the decision step
  decided   \* SubmissionDecision rows

counters == <<jobs, visits, decided>>
caseVars == <<row, event, lock, work, counters>>

StatusOf == [submission |-> "submitted", officer_review |-> "waiting",
             check |-> "accepted", agreement |-> "accepted",
             done |-> "completed", rejected |-> "rejected"]
Step == DOMAIN StatusOf
Pseudo == {"returned", "auto_rejected", "officer_decision"}
NextStep == [submission |-> "officer_review", check |-> "agreement",
             agreement |-> "done"]
FinalStatus == {"completed", "rejected"}
Rank == [submitted |-> 10, waiting |-> 20, rejected |-> 25, accepted |-> 30,
         completed |-> 80]
RollbackStep == [submitted |-> "submission", waiting |-> "officer_review",
                 accepted |-> "officer_review"]

Status == DOMAIN Rank \cup {"returned", "auto_rejected"}
Place == [status : Status, step : Step \cup Pseudo]
At(s) == [status |-> StatusOf[s], step |-> s]
Answers == {"ok", "officer", "reject"}  \* what the qualification conditions say
Row == [place : Place, closed : BOOLEAN, decision : {"", "yes", "no"},
        origin : Place \cup {None},     \* last _correction_history entry
        answers : Answers,
        pdf : Clerk \cup {None}]        \* whose edit made the current PDF
Event == [kind : {"auto_rejected", "officer_decision"}, from : Place]
Task == {"other", "edit", "correction"}
Job == {"idle", "decide", "drive", "advance", "moved", "recheck", "persist",
        "branch", "block", "blocked", "resume", "resumed", "return", "rollback",
        "resubmit", "pdf", "restore"}

Request == [task : Task, job : Job, loaded : Row \cup {None},
            goal : Place \cup {None}, original : Row \cup {None}]
Idle == [task |-> "other", job |-> "idle", loaded |-> None, goal |-> None,
         original |-> None]

CaseTypeOK ==
  /\ row \in Row
  /\ event \in Event \cup {None}
  /\ lock \in Clerk \cup {None}
  /\ work \in [Clerk -> Request]
  /\ jobs \in 0..MaxJobs
  /\ visits \in Nat /\ decided \in Nat

\* final_outcome_for_status
Closed(status) == status \in FinalStatus \cup {"auto_rejected"}

CaseInit ==
  /\ row \in [place : {At("submission"), At("officer_review")}, closed : {FALSE},
              decision : {""}, origin : {None}, answers : Answers, pdf : {None}]
  /\ event = None /\ lock = None
  /\ work = [c \in Clerk |-> Idle]
  /\ visits = IF row.place.step = "officer_review" THEN 1 ELSE 0
  /\ jobs = 0 /\ decided = 0

On(c, j) == work[c].job = j
\* A request begins; goes on to its next job, knowing the row as r; ends.
BeginAt(c, t, j, place) ==
  /\ On(c, "idle") /\ jobs < MaxJobs
  /\ jobs' = jobs + 1
  /\ work' = [work EXCEPT ![c] =
                 [task |-> t, job |-> j, loaded |-> row, goal |-> place,
                  original |-> IF t = "edit" THEN row ELSE None]]
Begin(c, t, j) == BeginAt(c, t, j, None)
Continue(c, j, r) ==
  work' = [work EXCEPT ![c] = IF j = "idle" THEN Idle
                              ELSE [@ EXCEPT !.job = j, !.loaded = r]]
Goto(c, j) == Continue(c, j, work[c].loaded)
\* A resubmission ends with its new PDF.
End(c) == IF work[c].task = "correction" THEN "pdf" ELSE "idle"

\* An UPDATE of the row waits for the lock.
Write(c, new) ==
  /\ lock \in {None, c}
  /\ row' = new
  /\ visits' = visits +
       IF new.place.step = "officer_review" /\ row.place.step # "officer_review"
         THEN 1 ELSE 0
Moved(r, place) == [r EXCEPT !.place = place, !.closed = Closed(place.status)]

\* What the engine refuses to move.
Stopped(place) == place.status \in {"returned", "auto_rejected"}

---------------------------------------------------------------------------
\* save_officer_decision: SELECT ... FOR UPDATE, then everything to the commit;
\* the automatic steps follow.
Decidable == row.place.step = "officer_review" /\ ~Stopped(row.place)
StartDecision_Unlocked(c) ==
  /\ Decidable
  /\ Begin(c, "other", "decide")
  /\ UNCHANGED <<row, event, lock, visits, decided>>
StartDecision(c) ==
  /\ Decidable /\ lock = None
  /\ lock' = c
  /\ Begin(c, "other", "decide")
  /\ UNCHANGED <<row, event, visits, decided>>
CommitDecision(c) ==
  /\ On(c, "decide")
  /\ \E d \in {"yes", "no"} :
       Write(c, [Moved(row, At(IF d = "yes" THEN "check" ELSE "rejected"))
                   EXCEPT !.decision = d])
  /\ decided' = decided + 1
  /\ event' = None /\ lock' = None
  /\ Continue(c, "drive", row')
  /\ UNCHANGED jobs

\* complete_officer_action: the officer is done with the agreement.
StartAction(c) ==
  /\ row.place.step = "agreement" /\ ~Stopped(row.place)
  /\ Begin(c, "other", "advance")
  /\ UNCHANGED <<row, event, lock, visits, decided>>

\* run_automatic_steps: the form and the automatic step are left, any other step
\* ends the run.  transition_to reads the row anew and refuses one that is out
\* for correction or rejected.
Drive(c) ==
  /\ On(c, "drive")
  /\ LET step == work[c].loaded.place.step IN
       Goto(c, IF /\ step \in {"submission", "check"}
                  /\ row.place.step = step /\ ~Stopped(row.place)
                 THEN "advance" ELSE End(c))
  /\ UNCHANGED <<row, event, lock, counters>>

\* update_if_workflow_step: only from the step that was read.
Advance_Unconditional(c) ==
  /\ On(c, "advance")
  /\ LET to == At(NextStep[work[c].loaded.place.step]) IN
       /\ Write(c, Moved(row, to))
       /\ Continue(c, "moved", [work[c].loaded EXCEPT !.place = to])
  /\ UNCHANGED <<event, lock, jobs, decided>>
Advance(c) ==
  /\ On(c, "advance")
  /\ IF row.place.step = work[c].loaded.place.step
       THEN LET to == At(NextStep[work[c].loaded.place.step]) IN
              /\ Write(c, Moved(row, to))
              /\ Continue(c, "moved", [work[c].loaded EXCEPT !.place = to])
       ELSE /\ lock \in {None, c} /\ Goto(c, End(c))
            /\ UNCHANGED <<row, visits>>
  /\ UNCHANGED <<event, lock, jobs, decided>>

\* The event of a move; the run goes on.
RecordMove(c) ==
  /\ On(c, "moved")
  /\ event' = None
  /\ Goto(c, "drive")
  /\ UNCHANGED <<row, lock, counters>>

---------------------------------------------------------------------------
\* reevaluate_qualification reads the row and evaluates its answers, ...
StartRecheck(c) ==
  /\ Begin(c, "other", "persist")
  /\ UNCHANGED <<row, event, lock, visits, decided>>

\* ... then writes the data it read back with the result: answers and
\* correction history as they were.
Persist(c) ==
  /\ On(c, "persist")
  /\ Write(c, [row EXCEPT !.answers = work[c].loaded.answers,
                          !.origin = work[c].loaded.origin])
  /\ Goto(c, "branch")
  /\ UNCHANGED <<event, lock, jobs, decided>>

\* _auto_reject_submission and _mark_officer_decision_required.
Block(c) ==
  /\ IF work[c].loaded.answers = "reject"
       THEN Write(c, [Moved(row, [status |-> "auto_rejected",
                                  step |-> "auto_rejected"])
                        EXCEPT !.decision = ""])
       ELSE Write(c, [row EXCEPT !.place = [status |-> "submitted",
                                            step |-> "officer_decision"],
                                 !.decision = ""])
  /\ Goto(c, "blocked")
Blocking(place) ==
  place \in {[status |-> "auto_rejected", step |-> "auto_rejected"],
             [status |-> "submitted", step |-> "officer_decision"]}
Settled(c) ==
  IF work[c].loaded.answers = "reject"
    THEN work[c].loaded.place.status = "auto_rejected"
    ELSE work[c].loaded.place.step = "officer_decision"

RecheckBlocks(c) ==
  /\ On(c, "branch") /\ work[c].loaded.answers # "ok" /\ ~Settled(c)
  /\ work[c].loaded.place.status \in {"submitted", "returned"}
  /\ Block(c)
  /\ UNCHANGED <<event, lock, jobs, decided>>
\* Any other status is an error; an edit that meets it is taken back.
RecheckFails(c) ==
  /\ On(c, "branch") /\ work[c].loaded.answers # "ok" /\ ~Settled(c)
  /\ work[c].loaded.place.status \notin {"submitted", "returned"}
  /\ Goto(c, IF work[c].task = "edit" THEN "restore" ELSE "idle")
  /\ UNCHANGED <<row, event, lock, counters>>

\* _qualification_block_origin: the last event must be the block the row is in,
\* from a configured step of an open case, and no decision taken.
Resumable(c) ==
  /\ work[c].loaded.answers = "ok" /\ work[c].loaded.decision = ""
  /\ Blocking(work[c].loaded.place)
  /\ event # None /\ event.kind = work[c].loaded.place.step
  /\ event.from.step \in Step
  /\ ~Closed(event.from.status) /\ event.from.status # "returned"
  /\ ~Closed(StatusOf[event.from.step])
RecheckPasses(c) ==
  /\ On(c, "branch") /\ (work[c].loaded.answers = "ok" \/ Settled(c))
  /\ IF Resumable(c)
       THEN work' = [work EXCEPT ![c].job = "resume",
                                 ![c].goal = At(event.from.step)]
       ELSE Goto(c, "idle")
  /\ UNCHANGED <<row, event, lock, counters>>

\* _resume_after_qualification_recheck: update_if_workflow_step again.
Resume_Unconditional(c) ==
  /\ On(c, "resume")
  /\ Write(c, Moved(row, work[c].goal))
  /\ Continue(c, "resumed", [work[c].loaded EXCEPT !.place = work[c].goal])
  /\ UNCHANGED <<event, lock, jobs, decided>>
Resume(c) ==
  /\ On(c, "resume") /\ row.place.step = work[c].loaded.place.step
  /\ Write(c, Moved(row, work[c].goal))
  /\ Continue(c, "resumed", [work[c].loaded EXCEPT !.place = work[c].goal])
  /\ UNCHANGED <<event, lock, jobs, decided>>
ResumeFails(c) ==
  /\ On(c, "resume") /\ row.place.step # work[c].loaded.place.step
  /\ Goto(c, IF work[c].task = "edit" THEN "restore" ELSE "idle")
  /\ UNCHANGED <<row, event, lock, counters>>

\* The events of a resumption and of a block.
RecordResumed(c) ==
  /\ On(c, "resumed")
  /\ event' = None
  /\ Goto(c, IF work[c].loaded.place.step = "submission" THEN "drive"
                                                         ELSE End(c))
  /\ UNCHANGED <<row, lock, counters>>
RecordBlock(c) ==
  /\ On(c, "blocked")
  /\ event' = [kind |-> IF work[c].loaded.answers = "reject"
                          THEN "auto_rejected" ELSE "officer_decision",
               from |-> work[c].loaded.place]
  /\ Goto(c, End(c))
  /\ UNCHANGED <<row, lock, counters>>

---------------------------------------------------------------------------
\* Rollback and return load the row without a lock; the flush writes the
\* columns that differ from what was loaded, and the event with them.  A return
\* may clear the answers: the conditions then say what they say of empty ones.
Assign(col, old, new) == IF new = old THEN col ELSE new

StartRollback(c) ==
  /\ row.place.status \in DOMAIN Rank
  /\ \E s \in DOMAIN RollbackStep :
       /\ Rank[s] < Rank[row.place.status]
       /\ BeginAt(c, "other", "rollback",
                  [status |-> s, step |-> RollbackStep[s]])
  /\ UNCHANGED <<row, event, lock, visits, decided>>
Rollback(c) ==
  /\ On(c, "rollback")
  /\ LET old == work[c].loaded IN
       Write(c, [row EXCEPT
         !.place.status = work[c].goal.status,
         !.place.step = Assign(@, old.place.step, work[c].goal.step),
         !.decision = IF Rank[work[c].goal.status] <= 20
                        THEN Assign(@, old.decision, "") ELSE @])
  /\ event' = None
  /\ Goto(c, "idle")
  /\ UNCHANGED <<lock, jobs, decided>>

StartReturn(c) ==
  /\ row.place.status \notin FinalStatus \cup {"returned"}
  /\ row.place.step \notin {"done", "rejected"}
  /\ Begin(c, "other", "return")
  /\ UNCHANGED <<row, event, lock, visits, decided>>
Return(c) ==
  /\ On(c, "return")
  /\ LET old == work[c].loaded IN
       \E clear \in BOOLEAN : \E a \in IF clear THEN Answers ELSE {old.answers} :
         Write(c, [row EXCEPT
           !.place.status = "returned",
           !.place.step = Assign(@, old.place.step, "returned"),
           !.closed = Assign(@, old.closed, FALSE),
           !.answers = a,
           !.origin = old.place,
           !.decision = IF clear THEN Assign(@, old.decision, "") ELSE @])
  /\ event' = None
  /\ Goto(c, "idle")
  /\ UNCHANGED <<lock, jobs, decided>>

\* submit_correction_form: resumes where the last correction came from, or at
\* the form after an automatic rejection; then as a recheck of new answers.
ResumePlace(origin) ==
  IF origin = None \/ origin.status = "auto_rejected" THEN At("submission")
                                                      ELSE origin
StartCorrection(c) ==
  /\ row.place.status = "returned"
  /\ Begin(c, "correction", "resubmit")
  /\ UNCHANGED <<row, event, lock, visits, decided>>
Resubmit(c) ==
  /\ On(c, "resubmit")
  /\ \E a \in Answers :
       LET to == ResumePlace(work[c].loaded.origin) IN
         /\ Write(c, [Moved(row, to) EXCEPT !.answers = a,
                                           !.origin = work[c].loaded.origin])
         /\ IF a = "ok"
              THEN Continue(c, "resumed",
                            [work[c].loaded EXCEPT !.answers = a, !.place = to])
              ELSE Continue(c, "block", [work[c].loaded EXCEPT !.answers = a])
  /\ UNCHANGED <<event, lock, jobs, decided>>
ResubmissionBlocked(c) ==
  /\ On(c, "block")
  /\ Block(c)
  /\ UNCHANGED <<event, lock, jobs, decided>>
NewPdf(c) ==
  /\ On(c, "pdf")
  /\ Write(c, [row EXCEPT !.pdf = None])
  /\ Goto(c, "idle")
  /\ UNCHANGED <<event, lock, jobs, decided>>

---------------------------------------------------------------------------
\* update_submission_answers: one locked transaction; answers that change the
\* qualification are evaluated again once it is committed.
Edit(c) ==
  /\ row.place.step \notin {"agreement", "done"} /\ lock = None
  /\ \E a \in Answers \ {row.answers} :
       row' = [row EXCEPT !.answers = a, !.pdf = c]
  /\ Begin(c, "edit", "recheck")
  /\ UNCHANGED <<event, lock, visits, decided>>
RecheckEdit(c) ==
  /\ On(c, "recheck")
  /\ Continue(c, "persist", row)
  /\ UNCHANGED <<row, event, lock, counters>>

\* If that fails, every column is put back as the edit found it, unless the
\* submission has another PDF by now.
Restore(c) ==
  /\ On(c, "restore")
  /\ IF row.pdf = c THEN Write(c, work[c].original)
                     ELSE UNCHANGED <<row, visits>>
  /\ Goto(c, "idle")
  /\ UNCHANGED <<event, lock, jobs, decided>>

---------------------------------------------------------------------------
\* The worker is killed: its transaction is rolled back, the rest never runs.
Die(c) ==
  /\ ~On(c, "idle")
  /\ lock' = IF lock = c THEN None ELSE lock
  /\ Goto(c, "idle")
  /\ UNCHANGED <<row, event, counters>>

Decision(c) == StartDecision(c) \/ CommitDecision(c)
Engine(c) == StartAction(c) \/ Drive(c) \/ Advance(c) \/ RecordMove(c)
Recheck(c) ==
  \/ StartRecheck(c) \/ Persist(c) \/ RecheckBlocks(c) \/ RecheckFails(c)
  \/ RecheckPasses(c) \/ Resume(c) \/ ResumeFails(c)
  \/ RecordResumed(c) \/ RecordBlock(c)
Office(c) == StartRollback(c) \/ Rollback(c) \/ StartReturn(c) \/ Return(c)
Correction(c) ==
  StartCorrection(c) \/ Resubmit(c) \/ ResubmissionBlocked(c) \/ NewPdf(c)
Editing(c) == Edit(c) \/ RecheckEdit(c) \/ Restore(c)

CaseNext ==
  \E c \in Clerk :
    \/ Decision(c) \/ Engine(c) \/ Recheck(c) \/ Office(c) \/ Correction(c)
    \/ Editing(c) \/ Die(c)

CaseSpec == CaseInit /\ [][CaseNext]_caseVars

---------------------------------------------------------------------------
(* Properties. *)

\* A submission is decided at most once each time it comes to the decision
\* step, whatever the other operations do to it meanwhile.
DecisionPerVisit ==
  decided + (IF row.place.step = "officer_review" THEN 1 ELSE 0) <= visits

\* The engine moves a submission along an edge of the workflow from the step it
\* is in when the move is written.
EngineFollowsGraph ==
  [][\A c \in Clerk : On(c, "advance") /\ work'[c].job = "moved" =>
       /\ row.place.step \in DOMAIN NextStep
       /\ row'.place = At(NextStep[row.place.step])]_caseVars

\* A recheck resumes only a submission that still is in a qualification block,
\* so that two rechecks do not resume it twice.
ResumeOnlyBlocked ==
  [][\A c \in Clerk : On(c, "resume") /\ work'[c].job = "resumed" =>
       row.place.step \in {"auto_rejected", "officer_decision"}]_caseVars

\* What the route says when an edit fails: "the data has not been changed".  It
\* leaves alone what others did to the submission meanwhile.
FailedEditKeepsCase ==
  [][\A c \in Clerk : On(c, "restore") /\ work'[c].job = "idle" =>
       row'.place = row.place /\ row'.decision = row.decision]_caseVars
=============================================================================
