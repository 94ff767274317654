------------------------ MODULE CaseWorkflow_proofs ------------------------
(* Proofs about CaseWorkflow.  The row lock keeps the step of a submission   *)
(* under decision, so that a decision ends the visit it counts for; the       *)
(* engine and a resumption write only from a step they have read.            *)
EXTENDS CaseWorkflow, TLAPS

Blocked == {"auto_rejected", "officer_decision"}

\* What a clerk's request knows at each of its jobs.
Sound(q) ==
  /\ q \in Request
  /\ q.job # "idle" => q.loaded \in Row
  /\ q.job \in {"rollback", "resume"} => q.goal \in Place
  /\ q.task = "edit" => q.original \in Row
  /\ q.job = "restore" => q.task = "edit"
  /\ q.job = "advance" => q.loaded.place.step \in DOMAIN NextStep
  /\ q.job = "resume" => q.loaded.place.step \in Blocked

AllSound == work \in [Clerk -> Request] /\ \A c \in Clerk : Sound(work[c])

\* A submission under decision is locked at the decision step.
DecidesLocked ==
  \A c \in Clerk :
    On(c, "decide") => lock = c /\ row.place.step = "officer_review"

Inv == CaseTypeOK /\ AllSound /\ DecidesLocked /\ DecisionPerVisit

---------------------------------------------------------------------------
(* The places of the workflow. *)

LEMMA AtStep ==
  ASSUME NEW s \in Step
  PROVE  At(s) \in Place /\ At(s).step = s /\ At(s).status = StatusOf[s]
<1>1. Step = {"submission", "officer_review", "check", "agreement", "done", "rejected"}
  BY DEF Step, StatusOf
<1>2. StatusOf[s] \in Status
  BY <1>1 DEF StatusOf, Status, Rank
<1> QED BY <1>2 DEF At, Place

LEMMA NextSteps ==
  /\ DOMAIN NextStep = {"submission", "check", "agreement"}
  /\ \A s \in DOMAIN NextStep : NextStep[s] \in Step
BY DEF NextStep, Step, StatusOf

LEMMA RollbackPlaces ==
  ASSUME NEW s \in DOMAIN RollbackStep
  PROVE  [status |-> s, step |-> RollbackStep[s]] \in Place
BY DEF RollbackStep, Place, Status, Rank, Step, StatusOf

LEMMA MovedRow ==
  ASSUME NEW r \in Row, NEW p \in Place
  PROVE  Moved(r, p) \in Row /\ Moved(r, p).place = p
<1> DEFINE closed == Closed(p.status)
<1>1. closed \in BOOLEAN
  BY DEF Closed
<1>2. Moved(r, p) = [r EXCEPT !.place = p, !.closed = closed]
  BY DEF Moved
<1> HIDE DEF closed
<1> QED BY <1>1, <1>2 DEF Row

---------------------------------------------------------------------------
(* The steps of a request. *)

LEMMA WorkStep ==
  ASSUME AllSound, NEW c \in Clerk, NEW q, Sound(q), work' = [work EXCEPT ![c] = q]
  PROVE  /\ AllSound'
         /\ work'[c] = q
         /\ \A d \in Clerk \ {c} : work'[d] = work[d]
BY DEF AllSound, Sound

LEMMA IdleSound == Sound(Idle) /\ Idle.job = "idle"
BY DEF Sound, Idle, Request, Task, Job

LEMMA ContinueStep ==
  ASSUME AllSound, NEW c \in Clerk, NEW j \in Job \ {"rollback", "resume"}, NEW r \in Row,
         j = "restore" => work[c].task = "edit",
         j = "advance" => r.place.step \in DOMAIN NextStep,
         Continue(c, j, r)
  PROVE  /\ AllSound'
         /\ work'[c].job = j
         /\ \A d \in Clerk \ {c} : work'[d] = work[d]
<1> DEFINE q == IF j = "idle" THEN Idle ELSE [work[c] EXCEPT !.job = j, !.loaded = r]
<1>1. Sound(q) /\ q.job = j
  <2>1. CASE j = "idle"
    BY <2>1, IdleSound
  <2>2. CASE j # "idle"
    BY <2>2 DEF AllSound, Sound, Request
  <2> QED BY <2>1, <2>2
<1>2. work' = [work EXCEPT ![c] = q]
  BY DEF Continue, AllSound
<1> HIDE DEF q
<1> QED BY <1>1, <1>2, WorkStep

LEMMA GotoStep ==
  ASSUME AllSound, NEW c \in Clerk, NEW j \in Job \ {"rollback", "resume"},
         ~On(c, "idle"),
         j = "restore" => work[c].task = "edit",
         j = "advance" => work[c].loaded.place.step \in DOMAIN NextStep,
         Goto(c, j)
  PROVE  /\ AllSound'
         /\ work'[c].job = j
         /\ \A d \in Clerk \ {c} : work'[d] = work[d]
<1>1. work[c].loaded \in Row
  BY DEF AllSound, Sound, On
<1> QED BY <1>1, ContinueStep DEF Goto

LEMMA BeginStep ==
  ASSUME Inv, NEW c \in Clerk, NEW t \in Task, NEW j \in Job \ {"idle", "resume", "restore"},
         NEW p \in Place \cup {None},
         j = "rollback" => p \in Place,
         j = "advance" => row.place.step \in DOMAIN NextStep,
         BeginAt(c, t, j, p)
  PROVE  /\ AllSound' /\ jobs' \in 0..MaxJobs
         /\ work'[c].job = j
         /\ \A d \in Clerk \ {c} : work'[d] = work[d]
<1> DEFINE q == [task |-> t, job |-> j, loaded |-> row, goal |-> p,
                 original |-> IF t = "edit" THEN row ELSE None]
<1>1. Sound(q) /\ q.job = j
  BY DEF Inv, CaseTypeOK, Sound, Request
<1>2. work' = [work EXCEPT ![c] = q]
  BY DEF BeginAt
<1>3. jobs' \in 0..MaxJobs
  BY CaseAssumption DEF Inv, CaseTypeOK, BeginAt
<1> HIDE DEF q
<1> QED BY <1>1, <1>2, <1>3, WorkStep DEF Inv

\* A step that leaves the row alone and begins no decision.
LEMMA StayStep ==
  ASSUME Inv, AllSound', UNCHANGED <<row, lock, visits, decided>>,
         jobs' \in 0..MaxJobs, event' \in Event \cup {None},
         \A c \in Clerk : On(c, "decide")' => On(c, "decide")
  PROVE  Inv'
BY DEF Inv, CaseTypeOK, DecidesLocked, DecisionPerVisit, AllSound

\* A write of a request that is not under decision: nobody's decision is open.
LEMMA WriteStep ==
  ASSUME Inv, NEW c \in Clerk, NEW new \in Row, Write(c, new), ~On(c, "decide"),
         AllSound', UNCHANGED <<lock, decided>>,
         jobs' \in 0..MaxJobs, event' \in Event \cup {None},
         \A d \in Clerk : On(d, "decide")' => On(d, "decide")
  PROVE  Inv'
<1>1. \A d \in Clerk : ~On(d, "decide")
  BY CaseAssumption DEF Inv, DecidesLocked, Write
<1>2. DecidesLocked'
  BY <1>1 DEF DecidesLocked
<1>3. visits' \in Nat /\ row' \in Row
  BY DEF Write, Inv, CaseTypeOK
<1>4. CaseTypeOK'
  BY <1>3 DEF Inv, CaseTypeOK, AllSound
<1>5. DecisionPerVisit'
  BY DEF Write, Inv, CaseTypeOK, DecisionPerVisit
<1> QED BY <1>2, <1>4, <1>5 DEF Inv

---------------------------------------------------------------------------
(* The actions. *)

LEMMA InitHolds == CaseInit => Inv
<1> SUFFICES ASSUME CaseInit PROVE Inv
  OBVIOUS
<1>1. At("submission") \in Place /\ At("officer_review") \in Place
  BY AtStep DEF Step, StatusOf
<1>2. row \in Row
  BY <1>1 DEF CaseInit, Row
<1>3. AllSound
  BY IdleSound DEF CaseInit, AllSound, Sound
<1>4. visits = (IF row.place.step = "officer_review" THEN 1 ELSE 0) /\ decided = 0
  BY DEF CaseInit
<1>7. CaseTypeOK
  <2>1. visits \in Nat /\ decided \in Nat
    BY <1>4
  <2>2. jobs \in 0..MaxJobs /\ lock \in Clerk \cup {None} /\ event \in Event \cup {None}
    <3>1. jobs = 0 /\ lock = None /\ event = None
      BY DEF CaseInit
    <3> QED BY <3>1, CaseAssumption
  <2> QED BY <1>2, <1>3, <2>1, <2>2 DEF CaseTypeOK, AllSound
<1>5. DecidesLocked
  BY IdleSound DEF DecidesLocked, CaseInit, On
<1>6. DecisionPerVisit
  BY <1>4 DEF DecisionPerVisit
<1> QED BY <1>3, <1>5, <1>6, <1>7 DEF Inv

LEMMA DecisionStep ==
  ASSUME Inv, NEW c \in Clerk, Decision(c)
  PROVE  Inv'
<1>1. CASE StartDecision(c)
  <2>1. Begin(c, "other", "decide")
    BY <1>1 DEF StartDecision
  <2>2. /\ AllSound' /\ jobs' \in 0..MaxJobs
        /\ work'[c].job = "decide"
        /\ \A d \in Clerk \ {c} : work'[d] = work[d]
    BY <2>1, BeginStep DEF Begin, Task, Job
  <2>3. \A d \in Clerk : ~On(d, "decide")
    BY <1>1, CaseAssumption DEF StartDecision, Inv, DecidesLocked
  <2>4. DecidesLocked'
    BY <1>1, <2>2, <2>3 DEF StartDecision, Decidable, DecidesLocked, On
  <2>5. CaseTypeOK' /\ DecisionPerVisit'
    BY <1>1, <2>2 DEF StartDecision, Inv, CaseTypeOK, AllSound, DecisionPerVisit
  <2> QED BY <2>2, <2>4, <2>5 DEF Inv
<1>2. CASE CommitDecision(c)
  <2>1. lock = c /\ row.place.step = "officer_review"
    BY <1>2 DEF CommitDecision, Inv, DecidesLocked
  <2>2. PICK d \in {"yes", "no"} :
          Write(c, [Moved(row, At(IF d = "yes" THEN "check" ELSE "rejected"))
                      EXCEPT !.decision = d])
    BY <1>2 DEF CommitDecision
  <2> DEFINE p == At(IF d = "yes" THEN "check" ELSE "rejected")
  <2>3. p \in Place /\ p.step # "officer_review"
    BY AtStep DEF Step, StatusOf
  <2>4. Moved(row, p) \in Row /\ Moved(row, p).place = p
    BY <2>3, MovedRow DEF Inv, CaseTypeOK
  <2> DEFINE r == Moved(row, p)
  <2>5. row' = [r EXCEPT !.decision = d]
    BY <2>2 DEF Write
  <2> HIDE DEF r, p
  <2>6. row' \in Row /\ row'.place.step # "officer_review"
    BY <2>3, <2>4, <2>5 DEF r, Row
  <2>7. /\ AllSound' /\ work'[c].job = "drive"
        /\ \A e \in Clerk \ {c} : work'[e] = work[e]
    BY <1>2, <2>6, ContinueStep DEF CommitDecision, Inv, Job
  <2>8. DecidesLocked'
    BY <2>1, <2>7 DEF Inv, DecidesLocked, On
  <2>9. visits' = visits /\ decided' = decided + 1
    BY <1>2, <2>1, <2>2, <2>6 DEF CommitDecision, Write, Inv, CaseTypeOK
  <2>10. CaseTypeOK'
    BY <1>2, <2>6, <2>7, <2>9 DEF CommitDecision, Inv, CaseTypeOK, AllSound
  <2>11. DecisionPerVisit'
    BY <2>1, <2>6, <2>9 DEF Inv, CaseTypeOK, DecisionPerVisit
  <2> QED BY <2>7, <2>8, <2>10, <2>11 DEF Inv
<1> QED BY <1>1, <1>2 DEF Decision

LEMMA AdvanceStep ==
  ASSUME Inv, NEW c \in Clerk, Advance(c)
  PROVE  Inv'
<1>1. ~On(c, "decide") /\ ~On(c, "idle") /\ work[c].loaded \in Row
  BY DEF Advance, On, Inv, AllSound, Sound
<1>2. End(c) \in Job \ {"rollback", "resume", "restore", "advance", "decide"}
  BY DEF End, Job
<1>3. CASE row.place.step = work[c].loaded.place.step
  <2> DEFINE s == NextStep[work[c].loaded.place.step]
  <2>1. s \in Step
    BY NextSteps DEF Advance, On, Inv, AllSound, Sound
  <2> HIDE DEF s
  <2>2. At(s) \in Place
    BY <2>1, AtStep
  <2>3. Write(c, Moved(row, At(s)))
        /\ Continue(c, "moved", [work[c].loaded EXCEPT !.place = At(s)])
    BY <1>3 DEF Advance, s
  <2>4. Moved(row, At(s)) \in Row
    BY <2>2, MovedRow DEF Inv, CaseTypeOK
  <2>5. [work[c].loaded EXCEPT !.place = At(s)] \in Row
    BY <1>1, <2>2 DEF Row
  <2>6. /\ AllSound' /\ work'[c].job = "moved"
        /\ \A d \in Clerk \ {c} : work'[d] = work[d]
    BY <2>3, <2>5, ContinueStep DEF Inv, Job
  <2> QED BY <1>1, <2>3, <2>4, <2>6, WriteStep DEF Advance, On, Inv, CaseTypeOK
<1>4. CASE row.place.step # work[c].loaded.place.step
  <2>1. Goto(c, End(c)) /\ UNCHANGED <<row, visits>>
    BY <1>4 DEF Advance
  <2>2. /\ AllSound' /\ work'[c].job = End(c)
        /\ \A d \in Clerk \ {c} : work'[d] = work[d]
    BY <1>1, <1>2, <2>1, GotoStep DEF Inv
  <2> QED BY <1>1, <1>2, <2>1, <2>2, StayStep DEF Advance, On, Inv, CaseTypeOK
<1> QED BY <1>3, <1>4

LEMMA EngineStep ==
  ASSUME Inv, NEW c \in Clerk, Engine(c)
  PROVE  Inv'
<1>1. CASE StartAction(c)
  <2>1. /\ AllSound' /\ jobs' \in 0..MaxJobs
        /\ work'[c].job = "advance"
        /\ \A d \in Clerk \ {c} : work'[d] = work[d]
    BY <1>1, BeginStep, NextSteps DEF StartAction, Begin, Task, Job
  <2> QED BY <1>1, <2>1, StayStep DEF StartAction, On, Inv, CaseTypeOK
<1>2. CASE Drive(c)
  <2> DEFINE j == IF /\ work[c].loaded.place.step \in {"submission", "check"}
                     /\ row.place.step = work[c].loaded.place.step
                     /\ ~Stopped(row.place)
                    THEN "advance" ELSE End(c)
  <2>1. /\ j \in Job \ {"rollback", "resume", "restore", "decide"}
        /\ j = "advance" => work[c].loaded.place.step \in DOMAIN NextStep
    BY NextSteps DEF End, Job
  <2>2. Goto(c, j) /\ ~On(c, "idle")
    BY <1>2 DEF Drive, On
  <2> HIDE DEF j
  <2>3. /\ AllSound' /\ work'[c].job = j
        /\ \A d \in Clerk \ {c} : work'[d] = work[d]
    BY <2>1, <2>2, GotoStep DEF Inv
  <2> QED BY <1>2, <2>1, <2>3, StayStep DEF Drive, counters, On, Inv, CaseTypeOK
<1>3. CASE Advance(c)
  BY <1>3, AdvanceStep
<1>4. CASE RecordMove(c)
  <2>1. /\ AllSound' /\ work'[c].job = "drive"
        /\ \A d \in Clerk \ {c} : work'[d] = work[d]
    BY <1>4, GotoStep DEF RecordMove, On, Inv, Job
  <2> QED BY <1>4, <2>1, StayStep DEF RecordMove, counters, On, Inv, CaseTypeOK
<1> QED BY <1>1, <1>2, <1>3, <1>4 DEF Engine

LEMMA BlockStep ==
  ASSUME Inv, NEW c \in Clerk, Block(c), ~On(c, "decide"), ~On(c, "idle"),
         UNCHANGED <<event, lock, jobs, decided>>
  PROVE  Inv'
<1> DEFINE rejected == [status |-> "auto_rejected", step |-> "auto_rejected"]
           waiting == [status |-> "submitted", step |-> "officer_decision"]
           out == [Moved(row, rejected) EXCEPT !.decision = ""]
           back == [row EXCEPT !.place = waiting, !.decision = ""]
<1>1. rejected \in Place /\ waiting \in Place
  BY DEF Place, Status, Rank, Pseudo
<1>2. Moved(row, rejected) \in Row
  <2> HIDE DEF rejected
  <2> QED BY <1>1, MovedRow DEF Inv, CaseTypeOK
<1>3. out \in Row
  <2> DEFINE r == Moved(row, rejected)
  <2> HIDE DEF r
  <2>1. [r EXCEPT !.decision = ""] \in Row
    BY <1>2 DEF Row, r
  <2> QED BY <2>1 DEF r
<1>4. back \in Row
  <2> HIDE DEF waiting
  <2> QED BY <1>1 DEF Row, Inv, CaseTypeOK
<1>5. (Write(c, out) \/ Write(c, back)) /\ Goto(c, "blocked")
  BY DEF Block
<1> HIDE DEF out, back
<1>6. /\ AllSound' /\ work'[c].job = "blocked"
      /\ \A d \in Clerk \ {c} : work'[d] = work[d]
  BY <1>5, GotoStep DEF Inv, Job
<1> QED BY <1>3, <1>4, <1>5, <1>6, WriteStep DEF On, Inv, CaseTypeOK

\* A recheck that finds the submission in a block goes on to resume it.
LEMMA PassStep ==
  ASSUME Inv, NEW c \in Clerk, RecheckPasses(c)
  PROVE  Inv'
<1>1. work[c].loaded \in Row /\ work[c] \in Request /\ On(c, "branch")
  BY DEF RecheckPasses, On, Inv, AllSound, Sound
<1>2. CASE Resumable(c)
  <2>1. /\ event.from.step \in Step
        /\ work[c].loaded.place.step \in Blocked
    <3> DEFINE place == work[c].loaded.place
    <3>1. \/ place = [status |-> "auto_rejected", step |-> "auto_rejected"]
          \/ place = [status |-> "submitted", step |-> "officer_decision"]
      BY <1>2 DEF Resumable, Blocking
    <3>2. event.from.step \in Step
      BY <1>2 DEF Resumable
    <3> HIDE DEF place
    <3>3. place.step \in Blocked
      BY <3>1 DEF Blocked
    <3> QED BY <3>2, <3>3 DEF place
  <2> DEFINE p == At(event.from.step)
             q == [work[c] EXCEPT !.job = "resume", !.goal = p]
  <2>2. p \in Place
    BY <2>1, AtStep
  <2>3. work' = [work EXCEPT ![c] = q]
    BY <1>2 DEF RecheckPasses, Inv, AllSound
  <2> HIDE DEF p
  <2>4. Sound(q) /\ q.job = "resume"
    BY <1>1, <2>1, <2>2 DEF Inv, AllSound, Sound, Request, Job, On
  <2> HIDE DEF q
  <2>5. /\ AllSound' /\ work'[c] = q
        /\ \A d \in Clerk \ {c} : work'[d] = work[d]
    BY <2>3, <2>4, WorkStep DEF Inv
  <2> QED BY <2>4, <2>5, StayStep DEF RecheckPasses, counters, On, Inv, CaseTypeOK
<1>3. CASE ~Resumable(c)
  <2>1. /\ AllSound' /\ work'[c].job = "idle"
        /\ \A d \in Clerk \ {c} : work'[d] = work[d]
    BY <1>1, <1>3, GotoStep DEF RecheckPasses, On, Inv, Job
  <2> QED BY <1>3, <2>1, StayStep DEF RecheckPasses, counters, On, Inv, CaseTypeOK
<1> QED BY <1>2, <1>3

\* Steps that record an event, or end a recheck, and leave the row alone.
LEMMA NoteStep ==
  ASSUME Inv, NEW c \in Clerk,
         RecheckFails(c) \/ ResumeFails(c) \/ RecordResumed(c) \/ RecordBlock(c)
  PROVE  Inv'
<1>1. ~On(c, "idle") /\ work[c].loaded \in Row
  BY DEF RecheckFails, ResumeFails, RecordResumed, RecordBlock, On, Inv, AllSound, Sound
<1>2. event' \in Event \cup {None}
  <2>1. CASE RecordBlock(c)
    BY <1>1, <2>1 DEF RecordBlock, Event, Row
  <2> QED BY <2>1 DEF RecheckFails, ResumeFails, RecordResumed, Inv, CaseTypeOK
<1>3. \E j \in {"idle", "restore", "drive", "pdf"} :
        Goto(c, j) /\ (j = "restore" => work[c].task = "edit")
  BY DEF RecheckFails, ResumeFails, RecordResumed, RecordBlock, End
<1>4. PICK j \in {"idle", "restore", "drive", "pdf"} :
        Goto(c, j) /\ (j = "restore" => work[c].task = "edit")
  BY <1>3
<1>5. /\ AllSound' /\ work'[c].job = j
      /\ \A d \in Clerk \ {c} : work'[d] = work[d]
  BY <1>1, <1>4, GotoStep DEF Inv, Job
<1>6. UNCHANGED <<row, lock, counters>>
  BY DEF RecheckFails, ResumeFails, RecordResumed, RecordBlock
<1> QED BY <1>2, <1>5, <1>6, StayStep DEF counters, On, Inv, CaseTypeOK

LEMMA RecheckStep ==
  ASSUME Inv, NEW c \in Clerk, Recheck(c)
  PROVE  Inv'
<1>1. CASE StartRecheck(c)
  <2>1. /\ AllSound' /\ jobs' \in 0..MaxJobs
        /\ work'[c].job = "persist"
        /\ \A d \in Clerk \ {c} : work'[d] = work[d]
    BY <1>1, BeginStep DEF StartRecheck, Begin, Task, Job
  <2> QED BY <1>1, <2>1, StayStep DEF StartRecheck, On, Inv, CaseTypeOK
<1>2. CASE Persist(c)
  <2> DEFINE new == [row EXCEPT !.answers = work[c].loaded.answers,
                                !.origin = work[c].loaded.origin]
  <2>1. work[c].loaded \in Row /\ ~On(c, "idle") /\ ~On(c, "decide")
    BY <1>2 DEF Persist, On, Inv, AllSound, Sound
  <2>2. new \in Row
    BY <2>1 DEF Inv, CaseTypeOK, Row
  <2>3. Write(c, new) /\ Goto(c, "branch")
    BY <1>2 DEF Persist
  <2> HIDE DEF new
  <2>4. /\ AllSound' /\ work'[c].job = "branch"
        /\ \A d \in Clerk \ {c} : work'[d] = work[d]
    BY <2>1, <2>3, GotoStep DEF Inv, Job
  <2> QED BY <1>2, <2>1, <2>2, <2>3, <2>4, WriteStep DEF Persist, On, Inv, CaseTypeOK
<1>3. CASE RecheckBlocks(c)
  BY <1>3, BlockStep DEF RecheckBlocks, On
<1>4. CASE RecheckPasses(c)
  BY <1>4, PassStep
<1>5. CASE Resume(c)
  <2>1. /\ work[c].loaded \in Row /\ work[c].goal \in Place
        /\ ~On(c, "idle") /\ ~On(c, "decide")
    BY <1>5 DEF Resume, On, Inv, AllSound, Sound
  <2> DEFINE r == [work[c].loaded EXCEPT !.place = work[c].goal]
  <2>2. Moved(row, work[c].goal) \in Row
    BY <2>1, MovedRow DEF Inv, CaseTypeOK
  <2>3. r \in Row
    BY <2>1 DEF Row
  <2>4. Write(c, Moved(row, work[c].goal)) /\ Continue(c, "resumed", r)
    BY <1>5 DEF Resume
  <2> HIDE DEF r
  <2>5. /\ AllSound' /\ work'[c].job = "resumed"
        /\ \A d \in Clerk \ {c} : work'[d] = work[d]
    BY <2>3, <2>4, ContinueStep DEF Inv, Job
  <2> QED BY <1>5, <2>1, <2>2, <2>4, <2>5, WriteStep DEF Resume, On, Inv, CaseTypeOK
<1>6. CASE RecheckFails(c) \/ ResumeFails(c) \/ RecordResumed(c) \/ RecordBlock(c)
  BY <1>6, NoteStep
<1> QED BY <1>1, <1>2, <1>3, <1>4, <1>5, <1>6 DEF Recheck

LEMMA RollbackStepHolds ==
  ASSUME Inv, NEW c \in Clerk, StartRollback(c) \/ Rollback(c)
  PROVE  Inv'
<1>1. CASE StartRollback(c)
  <2>1. PICK s \in DOMAIN RollbackStep :
          BeginAt(c, "other", "rollback", [status |-> s, step |-> RollbackStep[s]])
    BY <1>1 DEF StartRollback
  <2>2. /\ AllSound' /\ jobs' \in 0..MaxJobs
        /\ work'[c].job = "rollback"
        /\ \A d \in Clerk \ {c} : work'[d] = work[d]
    <3> DEFINE p == [status |-> s, step |-> RollbackStep[s]]
    <3>1. p \in Place
      BY RollbackPlaces
    <3>2. BeginAt(c, "other", "rollback", p)
      BY <2>1
    <3> HIDE DEF p
    <3> QED BY <3>1, <3>2, BeginStep DEF Task, Job
  <2> QED BY <1>1, <2>2, StayStep DEF StartRollback, On, Inv, CaseTypeOK
<1>2. CASE Rollback(c)
  <2> DEFINE old == work[c].loaded
             step == Assign(row.place.step, old.place.step, work[c].goal.step)
             decision == IF Rank[work[c].goal.status] <= 20
                           THEN Assign(row.decision, old.decision, "")
                           ELSE row.decision
             new == [row EXCEPT !.place.status = work[c].goal.status,
                                !.place.step = step, !.decision = decision]
  <2>1. /\ old \in Row /\ work[c].goal \in Place
        /\ ~On(c, "idle") /\ ~On(c, "decide")
    BY <1>2 DEF Rollback, On, Inv, AllSound, Sound
  <2>2. step \in Step \cup Pseudo /\ decision \in {"", "yes", "no"}
    BY <2>1 DEF Assign, Inv, CaseTypeOK, Row, Place
  <2>3. Write(c, new) /\ Goto(c, "idle")
    BY <1>2 DEF Rollback
  <2>4. new \in Row
    <3> HIDE DEF step, decision
    <3> QED BY <2>1, <2>2 DEF Inv, CaseTypeOK, Row, Place
  <2> HIDE DEF new
  <2>5. /\ AllSound' /\ work'[c].job = "idle"
        /\ \A d \in Clerk \ {c} : work'[d] = work[d]
    BY <2>1, <2>3, GotoStep DEF Inv, Job
  <2> QED BY <1>2, <2>1, <2>3, <2>4, <2>5, WriteStep DEF Rollback, On, Inv, CaseTypeOK
<1> QED BY <1>1, <1>2

LEMMA ReturnStepHolds ==
  ASSUME Inv, NEW c \in Clerk, StartReturn(c) \/ Return(c)
  PROVE  Inv'
<1>1. CASE StartReturn(c)
  <2>1. /\ AllSound' /\ jobs' \in 0..MaxJobs
        /\ work'[c].job = "return"
        /\ \A d \in Clerk \ {c} : work'[d] = work[d]
    BY <1>1, BeginStep DEF StartReturn, Begin, Task, Job
  <2> QED BY <1>1, <2>1, StayStep DEF StartReturn, On, Inv, CaseTypeOK
<1>2. CASE Return(c)
  <2> DEFINE old == work[c].loaded
             step == Assign(row.place.step, old.place.step, "returned")
             closed == Assign(row.closed, old.closed, FALSE)
             decision(clear) == IF clear THEN Assign(row.decision, old.decision, "")
                                         ELSE row.decision
             new(clear, a) == [row EXCEPT !.place.status = "returned",
                                          !.place.step = step, !.closed = closed,
                                          !.answers = a, !.origin = old.place,
                                          !.decision = decision(clear)]
  <2>1. old \in Row /\ ~On(c, "idle") /\ ~On(c, "decide")
    BY <1>2 DEF Return, On, Inv, AllSound, Sound
  <2>2. /\ step \in Step \cup Pseudo
        /\ \A clear \in BOOLEAN : decision(clear) \in {"", "yes", "no"}
        /\ old.place \in Place /\ old.answers \in Answers
    BY <2>1 DEF Assign, Inv, CaseTypeOK, Row, Place, Pseudo
  <2>3. closed \in BOOLEAN
    BY <2>1 DEF Assign, Inv, CaseTypeOK, Row
  <2>4. PICK clear \in BOOLEAN, a \in Answers : Write(c, new(clear, a))
    <3>1. PICK clear \in BOOLEAN :
            \E a \in IF clear THEN Answers ELSE {old.answers} : Write(c, new(clear, a))
      BY <1>2 DEF Return
    <3> QED BY <3>1, <2>2
  <2>5. new(clear, a) \in Row
    <3> DEFINE d == decision(clear)
    <3>1. d \in {"", "yes", "no"}
      BY <2>2
    <3> HIDE DEF step, closed, d, decision
    <3>2. [row EXCEPT !.place.status = "returned", !.place.step = step,
                      !.closed = closed, !.answers = a, !.origin = old.place,
                      !.decision = d] \in Row
      BY <2>2, <2>3, <3>1 DEF Inv, CaseTypeOK, Row, Place, Status
    <3> QED BY <3>2 DEF d
  <2>6. Goto(c, "idle")
    BY <1>2 DEF Return
  <2>7. /\ AllSound' /\ work'[c].job = "idle"
        /\ \A e \in Clerk \ {c} : work'[e] = work[e]
    BY <2>1, <2>6, GotoStep DEF Inv, Job
  <2> HIDE DEF new
  <2> QED BY <1>2, <2>1, <2>4, <2>5, <2>7, WriteStep DEF Return, On, Inv, CaseTypeOK
<1> QED BY <1>1, <1>2

LEMMA ResubmitStep ==
  ASSUME Inv, NEW c \in Clerk, Resubmit(c)
  PROVE  Inv'
<1> DEFINE old == work[c].loaded
           to == ResumePlace(old.origin)
           new(a) == [Moved(row, to) EXCEPT !.answers = a, !.origin = old.origin]
           answered(a) == [old EXCEPT !.answers = a]
           resumed(a) == [old EXCEPT !.answers = a, !.place = to]
<1>1. old \in Row /\ ~On(c, "idle") /\ ~On(c, "decide")
  BY DEF Resubmit, On, Inv, AllSound, Sound
<1>2. to \in Place
  <2>1. At("submission") \in Place
    BY AtStep DEF Step, StatusOf
  <2>2. old.origin \in Place \cup {None}
    BY <1>1 DEF Row
  <2> QED BY <2>1, <2>2 DEF ResumePlace
<1>3. PICK a \in Answers :
        /\ Write(c, new(a))
        /\ IF a = "ok" THEN Continue(c, "resumed", resumed(a))
                       ELSE Continue(c, "block", answered(a))
  BY DEF Resubmit
<1> HIDE DEF to
<1>4. Moved(row, to) \in Row
  BY <1>2, MovedRow DEF Inv, CaseTypeOK
<1>5. new(a) \in Row
  <2> DEFINE r == Moved(row, to)
  <2> HIDE DEF r
  <2>1. [r EXCEPT !.answers = a, !.origin = old.origin] \in Row
    BY <1>1, <1>4 DEF Row, r
  <2> QED BY <2>1 DEF r
<1>6. answered(a) \in Row /\ resumed(a) \in Row
  BY <1>1, <1>2 DEF Row
<1> HIDE DEF new, answered, resumed
<1>7. /\ AllSound' /\ work'[c].job \in {"resumed", "block"}
      /\ \A d \in Clerk \ {c} : work'[d] = work[d]
  BY <1>3, <1>6, ContinueStep DEF Inv, Job
<1> QED BY <1>1, <1>3, <1>5, <1>7, WriteStep DEF Resubmit, On, Inv, CaseTypeOK

LEMMA CorrectionStep ==
  ASSUME Inv, NEW c \in Clerk, Correction(c)
  PROVE  Inv'
<1>1. CASE StartCorrection(c)
  <2>1. /\ AllSound' /\ jobs' \in 0..MaxJobs
        /\ work'[c].job = "resubmit"
        /\ \A d \in Clerk \ {c} : work'[d] = work[d]
    BY <1>1, BeginStep DEF StartCorrection, Begin, Task, Job
  <2> QED BY <1>1, <2>1, StayStep DEF StartCorrection, On, Inv, CaseTypeOK
<1>2. CASE Resubmit(c)
  BY <1>2, ResubmitStep
<1>3. CASE ResubmissionBlocked(c)
  BY <1>3, BlockStep DEF ResubmissionBlocked, On
<1>4. CASE NewPdf(c)
  <2> DEFINE new == [row EXCEPT !.pdf = None]
  <2>1. new \in Row
    BY DEF Inv, CaseTypeOK, Row
  <2>2. Write(c, new) /\ Goto(c, "idle") /\ ~On(c, "idle") /\ ~On(c, "decide")
    BY <1>4 DEF NewPdf, On
  <2> HIDE DEF new
  <2>3. /\ AllSound' /\ work'[c].job = "idle"
        /\ \A d \in Clerk \ {c} : work'[d] = work[d]
    BY <2>2, GotoStep DEF Inv, Job
  <2> QED BY <1>4, <2>1, <2>2, <2>3, WriteStep DEF NewPdf, On, Inv, CaseTypeOK
<1> QED BY <1>1, <1>2, <1>3, <1>4 DEF Correction

LEMMA EditingStep ==
  ASSUME Inv, NEW c \in Clerk, Editing(c)
  PROVE  Inv'
<1>1. CASE Edit(c)
  <2> DEFINE new(a) == [row EXCEPT !.answers = a, !.pdf = c]
  <2>1. PICK a \in Answers : row' = new(a)
    BY <1>1 DEF Edit
  <2>2. new(a) \in Row /\ new(a).place = row.place
    BY DEF Inv, CaseTypeOK, Row
  <2>3. /\ AllSound' /\ jobs' \in 0..MaxJobs
        /\ work'[c].job = "recheck"
        /\ \A d \in Clerk \ {c} : work'[d] = work[d]
    BY <1>1, BeginStep DEF Edit, Begin, Task, Job
  <2> HIDE DEF new
  <2>4. CaseTypeOK'
    BY <1>1, <2>1, <2>2, <2>3 DEF Edit, Inv, CaseTypeOK, AllSound
  <2>5. DecidesLocked'
    BY <1>1, <2>1, <2>2, <2>3 DEF Edit, Inv, DecidesLocked, On
  <2>6. DecisionPerVisit'
    BY <1>1, <2>1, <2>2 DEF Edit, Inv, DecisionPerVisit
  <2> QED BY <2>3, <2>4, <2>5, <2>6 DEF Inv
<1>2. CASE RecheckEdit(c)
  <2>1. /\ AllSound' /\ work'[c].job = "persist"
        /\ \A d \in Clerk \ {c} : work'[d] = work[d]
    BY <1>2, ContinueStep DEF RecheckEdit, Inv, CaseTypeOK, Job
  <2> QED BY <1>2, <2>1, StayStep DEF RecheckEdit, counters, On, Inv, CaseTypeOK
<1>3. CASE Restore(c)
  <2>1. /\ work[c].original \in Row /\ ~On(c, "idle") /\ ~On(c, "decide")
        /\ Goto(c, "idle")
    BY <1>3 DEF Restore, On, Inv, AllSound, Sound
  <2>2. /\ AllSound' /\ work'[c].job = "idle"
        /\ \A d \in Clerk \ {c} : work'[d] = work[d]
    BY <2>1, GotoStep DEF Inv, Job
  <2>3. CASE row.pdf = c
    BY <1>3, <2>1, <2>2, <2>3, WriteStep DEF Restore, On, Inv, CaseTypeOK
  <2>4. CASE row.pdf # c
    BY <1>3, <2>2, <2>4, StayStep DEF Restore, On, Inv, CaseTypeOK
  <2> QED BY <2>3, <2>4
<1> QED BY <1>1, <1>2, <1>3 DEF Editing

LEMMA DeathStep ==
  ASSUME Inv, NEW c \in Clerk, Die(c)
  PROVE  Inv'
<1>1. /\ AllSound' /\ work'[c].job = "idle"
      /\ \A d \in Clerk \ {c} : work'[d] = work[d]
  BY GotoStep DEF Die, Inv, Job
<1>2. UNCHANGED <<row, event, jobs, visits, decided>> /\ lock' \in {lock, None}
      /\ (lock # c => lock' = lock)
  BY DEF Die, counters
<1>3. CaseTypeOK' /\ DecisionPerVisit'
  BY <1>1, <1>2 DEF Inv, CaseTypeOK, AllSound, DecisionPerVisit
<1>4. DecidesLocked'
  BY <1>1, <1>2 DEF Inv, DecidesLocked, On
<1> QED BY <1>1, <1>3, <1>4 DEF Inv

---------------------------------------------------------------------------
LEMMA NextStepHolds == Inv /\ [CaseNext]_caseVars => Inv'
<1> SUFFICES ASSUME Inv, [CaseNext]_caseVars PROVE Inv'
  OBVIOUS
<1>1. CASE UNCHANGED caseVars
  BY <1>1 DEF caseVars, counters, Inv, CaseTypeOK, AllSound, Sound, DecidesLocked,
     On, DecisionPerVisit
<1>2. ASSUME NEW c \in Clerk,
             \/ Decision(c) \/ Engine(c) \/ Recheck(c) \/ Office(c)
             \/ Correction(c) \/ Editing(c) \/ Die(c)
      PROVE  Inv'
  BY <1>2, DecisionStep, EngineStep, RecheckStep, RollbackStepHolds, ReturnStepHolds,
     CorrectionStep, EditingStep, DeathStep DEF Office
<1> QED BY <1>1, <1>2 DEF CaseNext

LEMMA Inductive == CaseSpec => []Inv
BY InitHolds, NextStepHolds, PTL DEF CaseSpec

\* The variables keep their types, whatever the requests do.
THEOREM CaseTypes == CaseSpec => []CaseTypeOK
BY Inductive, PTL DEF Inv

\* For any number of requests, a visit of the decision step is decided once.
THEOREM DecidedOnce == CaseSpec => []DecisionPerVisit
BY Inductive, PTL DEF Inv

\* Only the clerk's own request, advancing, becomes one that has moved.
LEMMA OthersKeep ==
  ASSUME NEW c \in Clerk, Inv, [CaseNext]_caseVars, work'[c] # work[c]
  PROVE  \/ Decision(c) \/ Engine(c) \/ Recheck(c) \/ Office(c)
         \/ Correction(c) \/ Editing(c) \/ Die(c)
<1> SUFFICES ASSUME NEW d \in Clerk, d # c,
                    \/ Decision(d) \/ Engine(d) \/ Recheck(d) \/ Office(d)
                    \/ Correction(d) \/ Editing(d) \/ Die(d)
             PROVE  work'[c] = work[c]
  BY DEF CaseNext, caseVars
<1>1. work \in [Clerk -> Request]
  BY DEF Inv, AllSound
<1>2. \E q : work' = [work EXCEPT ![d] = q]
  BY <1>1 DEF Decision, StartDecision, CommitDecision, Engine, StartAction, Drive,
     Advance, RecordMove, Recheck, StartRecheck, Persist, RecheckBlocks, Block,
     RecheckFails, RecheckPasses, Resume, ResumeFails, RecordResumed, RecordBlock,
     Office, StartRollback, Rollback, StartReturn, Return, Correction,
     StartCorrection, Resubmit, ResubmissionBlocked, NewPdf, Editing, Edit,
     RecheckEdit, Restore, Die, Begin, BeginAt, Goto, Continue
<1> QED BY <1>1, <1>2

\* For any number of requests, the engine follows an edge from the step the
\* submission is in.
THEOREM EngineOnGraph == CaseSpec => EngineFollowsGraph
<1>1. Inv /\ [CaseNext]_caseVars =>
        [\A c \in Clerk : On(c, "advance") /\ work'[c].job = "moved" =>
           /\ row.place.step \in DOMAIN NextStep
           /\ row'.place = At(NextStep[row.place.step])]_caseVars
  <2> SUFFICES ASSUME Inv, [CaseNext]_caseVars, NEW c \in Clerk,
                      On(c, "advance"), work'[c].job = "moved"
               PROVE  /\ row.place.step \in DOMAIN NextStep
                      /\ row'.place = At(NextStep[row.place.step])
    OBVIOUS
  <2>1. work[c].loaded \in Row /\ work[c].loaded.place.step \in DOMAIN NextStep
    BY DEF On, Inv, AllSound, Sound
  <2>2. Advance(c) \/ Die(c)
    <3>1. work'[c] # work[c]
      BY DEF On
    <3> QED BY <3>1, OthersKeep
         DEF On, Decision, StartDecision, CommitDecision, Engine, StartAction, Drive,
         RecordMove, Recheck, StartRecheck, Persist, RecheckBlocks, RecheckFails,
         RecheckPasses, Resume, ResumeFails, RecordResumed, RecordBlock, Office,
         StartRollback, Rollback, StartReturn, Return, Correction, StartCorrection,
         Resubmit, ResubmissionBlocked, NewPdf, Editing, Edit, RecheckEdit, Restore,
         Begin, BeginAt
  <2>3. ~Die(c)
    BY GotoStep DEF Die, Inv, Job
  <2>4. row.place.step = work[c].loaded.place.step
    <3> SUFFICES ASSUME row.place.step # work[c].loaded.place.step PROVE FALSE
      OBVIOUS
    <3>1. Goto(c, End(c)) /\ ~On(c, "idle")
      BY <2>2, <2>3 DEF Advance, On
    <3>2. End(c) \in {"idle", "pdf"}
      BY DEF End
    <3>3. work'[c].job = End(c)
      BY <3>1, <3>2, GotoStep DEF Inv, Job
    <3> QED BY <3>2, <3>3
  <2> DEFINE s == NextStep[row.place.step]
  <2>5. row' = Moved(row, At(s))
    BY <2>2, <2>3, <2>4 DEF Advance, Write
  <2>6. At(s) \in Place
    BY <2>1, <2>4, NextSteps, AtStep
  <2> HIDE DEF s
  <2>7. row'.place = At(s)
    BY <2>5, <2>6, MovedRow DEF Inv, CaseTypeOK
  <2> QED BY <2>1, <2>4, <2>7 DEF s
<1> QED BY <1>1, Inductive, PTL DEF CaseSpec, EngineFollowsGraph

\* For any number of rechecks, one resumes only what is in a block when it writes.
THEOREM ResumedBlocked == CaseSpec => ResumeOnlyBlocked
<1>1. Inv /\ [CaseNext]_caseVars =>
        [\A c \in Clerk : On(c, "resume") /\ work'[c].job = "resumed" =>
           row.place.step \in {"auto_rejected", "officer_decision"}]_caseVars
  <2> SUFFICES ASSUME Inv, [CaseNext]_caseVars, NEW c \in Clerk,
                      On(c, "resume"), work'[c].job = "resumed"
               PROVE  row.place.step \in {"auto_rejected", "officer_decision"}
    OBVIOUS
  <2>1. work[c].loaded.place.step \in Blocked
    BY DEF On, Inv, AllSound, Sound
  <2>2. Resume(c) \/ ResumeFails(c) \/ Die(c)
    <3>1. work'[c] # work[c]
      BY DEF On
    <3> QED BY <3>1, OthersKeep
         DEF On, Decision, StartDecision, CommitDecision, Engine, StartAction, Drive,
         Advance, RecordMove, Recheck, StartRecheck, Persist, RecheckBlocks,
         RecheckFails, RecheckPasses, RecordResumed, RecordBlock, Office,
         StartRollback, Rollback, StartReturn, Return, Correction, StartCorrection,
         Resubmit, ResubmissionBlocked, NewPdf, Editing, Edit, RecheckEdit, Restore,
         Begin, BeginAt
  <2>3. ~ResumeFails(c) /\ ~Die(c)
    BY GotoStep DEF ResumeFails, Die, On, Inv, AllSound, Sound, Job
  <2> QED BY <2>1, <2>2, <2>3 DEF Resume, Blocked
<1> QED BY <1>1, Inductive, PTL DEF CaseSpec, ResumeOnlyBlocked
=============================================================================
