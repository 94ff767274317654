# Verification of the dynamic qualified signature form

The repository is a Flask application in which a participant fills in a public
form, attaches files, generates a declaration and agreements as PDF, signs them
with a qualified or trusted signature and uploads them, while an office reviews,
decides and countersigns. Several gunicorn workers serve it over one PostgreSQL
(or SQLite) database and a remote file storage. Nearly every promise it makes is
kept by a handful of short transactions, row locks, conditional updates and
claims with a timeout, between which a worker may die. This directory models
those in TLA+, checks the models with TLC and proves the main results with TLAPS.

1. [The system](#1-the-system) — inventory, interactions, what is hard
2. [The modules](#2-the-modules) — what each models and how it maps to the code
3. [The runs](#3-the-runs) — what each checks, its bounds, fairness
4. [The proofs](#4-the-proofs)
5. [Disagreements found](#5-disagreements-found)
6. [Not modelled](#6-not-modelled) and [the plan](#7-the-plan)

## 1. The system

### Components, state, operations

| component | code | state | operations that change it |
|---|---|---|---|
| Training seats | `services/submission_training_service.py`, `training_availability_service.py` | `SubmissionTraining` rows (status, `is_locked`, snapshot of the catalogue); the same facts in `FormSubmission.selected_trainings` / `training_agreements` | save a selection, synchronize from the JSON, associate and download an agreement, lock for a signed agreement |
| Training management | `training_management_service.py`, `routes/admin/training_management.py` | the catalogue in the form, attendance | cancel a participation, edit the catalogue |
| Form drafts | `form_draft_service.py`, `routes/public_forms.py` | `FormDraft` (status, token, expiry, `submit_started_at`, `submission_public_id`, `submission_id`) | create, resume, autosave, resend, claim, name, complete, release, expire |
| Submission pipeline | `submission_service.py`, `compliance_service.py`, `submission_attachment_service.py` | `FormSubmission`, consents, attachments | insert, record, enter workflow, store PDF, undo |
| Document operation lease | `repositories/submission_repository.py` | `document_states["document_operation"]` and its deadline | claim, save, release |
| Document workflow | `documents/document_workflow_service.py`, `document_service.py` | `workflow_documents` (state of a step), `SubmissionFile` rows, signature columns | save fields, start, generate, upload (participant, office), complete |
| Workflow engine | `workflow_service.py`, `process_service.py` | `workflow_step`, `process_status`, workflow events | advance, decide, run automatic steps |
| Agreements of beneficiary and office | `beneficiary_agreement_service.py`, `office_signed_agreement_service.py` | agreement columns and files | accept, reject, countersign |
| Stage rollback, correction | `submission_stage_rollback_service.py`, `submission_correction_service.py` | the same rows | take back a stage, return to the participant |
| Form versions | `form_version_service.py`, `routes/admin/forms.py` | `FormVersion` (draft, published, archived), `FormSubmission.form_version_id` | clone, publish, synchronize in pages, archive, delete; bind and upgrade a submission |
| Qualification recheck | `submission_service.py`, `admin_submission_service.py` | status, step and decision of the submission; the last workflow event | evaluate, block, resume; edit answers and put them back |
| Workflow configuration | `workflow_config_service.py` | the steps of a version | validate the graph |
| Mail dispatch | `mail_dispatch_service.py` | `EmailLog` | one mail per event and recipient |
| Workflow deadlines | `workflow_sla_service.py` | `SubmissionStepDeadline`, `SubmissionDeadlineNotification` | enter, complete, scan, remind |
| Assignment | `submission_assignment_service.py` | assignee, its history, `FormAssignmentState` | assign on creation, assign one or several, claim |
| Storage failover | `failover_storage.py`, `nextcloud_storage.py`, `local_storage.py` | a breaker per worker, files in two places | save, read, delete |
| Login limiter | `admin_login_rate_limit_service.py` | `AdminLoginAttempt` | count, record, clear |

The remaining components (configuration, permissions, rendering, signatures,
status pages, reports) validate, read or lay out; `PROJECT.json` lists them all.

### How they interact

Components share rows, not messages. A request runs in one worker, opens short
sessions one after another, and another worker may run between any two:

* the upload of a signed agreement writes the file row, the JSON of the
  submission, the seat (under `FOR UPDATE` of the `Form` row) and the state of
  the document step (under the lease) in **four** transactions;
* a draft's submit claims the draft, names the submission, runs the pipeline and
  completes the draft in **five or more**;
* `synchronize_legacy`, called by any page that lists agreements, rebuilds the
  training rows from the JSON the other transactions left;
* leaving a step is a separate conditional update after the step was saved;
* mails are sent between a commit that announces them and one that logs them;
* seven operations move a submission, and they protect the row in four ways: a
  lock (decision, edit), a compare-and-set of the step (engine, resumption), an
  unlocked load whose changed columns are written (rollback, return), and an
  unconditional update (recheck, resubmission, restored edit);
* the new case of a submit locks its row and then the `Form` row, the training
  routes lock the `Form` row and then the row.

### What is hard

* **Crash between transactions.** gunicorn kills a worker after 120 s
  (`Dockerfile:42`); whatever it had committed stays, and a retry meets it.
* **Claims with a timeout** (draft 15 min, document lease 15 min): takeover,
  release by somebody who is not the owner, late writes of an old reader.
* **Read, decide, write the whole column.** JSON columns are written back from
  a copy, under a token or under nothing.
* **Two representations of one fact** (row and JSON) repaired in one direction.
* **Locked and unlocked writers of one row**, each right by itself.
* **Crossing lock orders**, which the database resolves by an abort.
* **An algorithm run twice by different code**: a decision is rehearsed, then run.
* **The last seat**, with capacities that differ between snapshots.
* **Sending at most once** without a transaction that spans SMTP.

## 2. The modules

| module | models | abstracts |
|---|---|---|
| `TrainingSeats` | all operations on the seats of one training | other trainings; price limit and selection groups |
| `FormDrafts` | one draft and the requests that reach it | form values; what the pipeline stores |
| `Exclusion` | the promise of a claim: one live actor | – |
| `SeatPool`, `DraftOutcome`, `StepSignatures`, `MailOutcome`, `Assignments` | what a seat, a draft, a document step, a mail and an assignment promise, in the fewest variables that can say it | transactions, locks, claims, retries and crashes, which the modules above and below have |
| `DocumentLease` | the lease of one document step, and leaving the step | what an operation does to its document |
| `DocumentGroup` | the operations on the documents of one step, one at a time under the lease | PDF contents (a version number), concurrency inside the lease |
| `MailDispatch` | the mails about one submission and the reminders of one deadline | texts, recipients' choice, which event happens when |
| `CaseWorkflow` | every operation that moves one submission, and an edit of its answers | the workflow (one explicit example of each kind of step), the answers (what the conditions say of them) |
| `WorkflowGraph` | the validation of a workflow, and one submission taken through it, for **every** workflow of the steps given | why data meets a condition; other writers |
| `FormVersions` | the versions of a form and the submissions bound to them | what a version defines |
| `CaseAssignment` | who handles which case, with every row lock | officers and their permissions (fixed) |
| `FileFailover` | binary files on two storages, a breaker per worker | contents (the number of the save) |
| `RequestLimiter` | one client and login in all workers | the password; other keys |

**Abstract specifications.** Each of the five, and `Exclusion`, is implemented by
one detailed module, which has it as an `INSTANCE` with a refinement mapping and
its `Spec` as a property that the run checks and a theorem proves:

| abstract | detailed, property | mapping |
|---|---|---|
| `SeatPool` | `TrainingSeats`, `GrantsAreAPool` | who was granted a locked seat; the snapshot of each row as its terms |
| `DraftOutcome` | `FormDrafts`, `DraftHasOneOutcome` | the draft's columns; the submissions that have a row |
| `Exclusion` | `DocumentLease`, `Exclusive` | requests with a live operation |
| `StepSignatures` | `DocumentGroup`, `SignedInTurn` | parts with a signed file; parts among the accepted |
| `MailOutcome` | `MailDispatch`, `DispatchesInTurn` | the counters and the log, as they are |
| `Assignments` | `CaseAssignment`, `AssignmentsAreSerial` | the rows, as they are |

What each adds to the invariants beside it is the *step*: a seat is granted where
there is room at the moment of the grant, by the terms it will be held under; a
draft's submission disappears only while the draft is not given it; a part of a
step is never taken back and the step is left by nobody who lacks a signature; a
mail is sent only when the last acceptance was logged or lost; a case is dealt
only if nobody has it *now*, and to the officer who follows *now*, however old
what the transaction read may be.

`CaseWorkflow` to `RequestLimiter` are checked together by `MCOffice`: the parts share no variable, a
behaviour picks one of them, and the variables of the others do not move. One
TLC run is cheaper to keep than six, and a property of one part is not touched
by the others.

`MC*` modules instantiate them for TLC, `*_proofs` hold the theorems.
Definitions whose name has the form `Action_Variant` are plausible mistakes in
`Action`; no specification uses them, each is used to see that the property it
is paired with in `PROJECT.json` does fail when the code is wrong that way.

### TrainingSeats

`row[s]` is the `SubmissionTraining` row with `capacity` as its snapshot;
`chosen` and `agreement` are its two JSON shadows. An upload goes `idle →
verified → counted → locked`; `formLock` is the `FOR UPDATE` on `Form` that
`lock_for_agreement` takes for its count and holds to its commit. `Composite` is
the set of submissions whose form version signs in a composite step: there the
session synchronized (and so loaded `is_locked`, `seenLocked`) before the lock,
and the JSON is written last; elsewhere the JSON is written first and a refused
upload leaves it. `Synchronized` is `synchronize_legacy`, part of every action
whose handler calls it. The other transactions under the `Form` lock
(`SaveSelection`, `ChangeCapacity`) are atomic, with the lock free as a guard.
`CheckFolder` is the office looking for its copy of the agreement in its
folder; `office_file` says whether the row names a file (`agreement_file_id`,
which nothing clears) and whether the office's copy was found. The check is
refused in a document step; where a submission stands is not in the module, so
`CheckFolder` may happen wherever a file is due.

### FormDrafts

`draft` is the row; `claim` is `submit_started_at` as free, fresh or stale; an
`id` is named after the request that made it. `pc[r]` walks through
`submit_form_draft` transaction by transaction. `Crash` ends a request anywhere.
`WorkersTimeOut` says that a worker dies (120 s) before its claim is stale
(900 s): `ClaimAges` then waits until no request holds the claim.
Resolving, expiring and autosaving read the row in one step and write it in
another, because the session does.

### DocumentLease and Exclusion

`row.states` is the JSON column `document_states` with its token, accepted
documents and the step's flag; every writer replaces all of it. `Ask` is the
read in `claim_document_operation`, `Claim` its guarded `UPDATE`; `Load`,
`Save`, `Release` follow, then `Advance` and `Move` (`update_if_workflow_step`).
`SelectTrainings` is the participant's change of trainings, `save_public` with
`training_selection_changed` whole: a transaction without a token that may reopen
the agreements and the step (`Reopened`) and retire the declaration (`Retired`).
`training_selection_changed` assigns `document_states` for the agreements at line
500 and looks at the lease only at 567, for the declaration; its only caller has
looked before (`submission_training_service.py:126-128`), on the row it holds
`FOR UPDATE`, and its exception rolls the transaction back. So the guard is the
caller's, and the mutant that drops it breaks `HolderKeepsLease`. That the lease
excludes is stated by refinement: `holders` of `Exclusion` is the set of
requests with a live operation.

### DocumentGroup

One operation at a time (`op`) works on a copy of `saved`. What it commits on
the way – `made`, `signed`, `countersigned` (files), `seats`, `valid` (signature
columns), `data` – survives `Fail`, and `Recovered`, `Adopts` and `BeginUpload`
are the code's branches that make sense of it. `save_fields` comes in two kinds,
as the participant's button says (`documents.py:1163`): "generate" retires the
generated file (`Supersede`), then saves and confirms the fields (`SaveFields`);
"save" saves them unconfirmed and retires nothing (`SaveUnconfirmed`), so a file
that a dead start left may show old fields. `DraftIsCurrent` says what is kept all
the same: fields that are confirmed have no outdated file beside them, and the
declaration that is offered, or was signed, shows them. `full` is the outside world
taking a seat: what `TrainingSeats` allows, seen from one submission. `look`
is the submission row as another, earlier request read it.

### MailDispatch

A worker (`pc`, `msg`) dispatches one mail at a time. `Record` is
`_dispatch_record_notifications`, `Once` the two notifications of the office,
`Reminder` what `process_due` claims; they differ in `AlreadyThere` and in being
locked or claimed. `logged` is what is committed in `EmailLog` or in the
notification, `delivered` what the SMTP server accepted; `lost` counts the
acceptances that cannot come to be logged as sent. `Crash` is a worker that dies
and also a commit that fails (`_commit_email_log` swallows it). `view` is the
deadline in the memory of the scan's session: `expire_on_commit=False`, so
`db.get` in `_dispatch` reads it again only after the rollback of a `Conflict`.
A template with configured recipients sends a reminder by way of `Record`; that
path is each of the two, one inside the other, and not modelled as a third.

### CaseWorkflow

`row` is the `FormSubmission` as far as the moves go: `place` is status and step,
`origin` the entry of `_correction_history` a resubmission resumes at, `answers`
what the qualification conditions say of them, `pdf` whose edit made the current
PDF (the only thing a restored edit looks at). `work[c]` is the request of a
clerk, participant or administrator: `job` says which of its transactions is
next, `loaded` the row as it read it, `original` what a failing edit puts back.
`Write` waits for the row lock, which only decisions hold over more than one
action; `Assign` is the flush of an unlocked session, which writes a column only
if it differs from what was loaded, so that a rollback beside another writer
leaves a row made of both. Events are transactions of their own (`RecordMove`,
`RecordResumed`, `RecordBlock`), and the last one decides whether a block may be
resumed. `visits` and `decided` count.

### WorkflowGraph

`Look` and `GrowCanFinish` are one turn each of the two loops of
`_validate_graph`. `chosen` is where the data of a submission sends it from a
step, or that it meets no condition. `RehearseOn` is a turn of
`validate_automatic_path`, which walks automatic steps only and stops where a
person or a document is needed; `RunOn` one of `run_automatic_steps`, which also
walks over documents nobody signs. `rehearsed` is history: the run has not
passed a document yet, so that it is still where the rehearsal was.

### FormVersions

`status[v]` is the version row, `bound[c]` the submission's foreign key, in order
of id. An editor's request loads a version (`LoadFor...`) and acts on it in a
later step: `publish` locks the row but judges the status it has loaded,
`archive` and `delete_draft` lock nothing. `synchronize_published_submissions`
moves one page per transaction and may stop between two (`Abandon`). `page` is
the version in the hands of a participant: the one rendered, or the one
`Upgrade` will move the locked submission to.

### CaseAssignment

`tx[t]` is a database transaction with the locks it still has to take, in its
order; `holder` says who has which. `Acquire` takes a lock or waits, `Deadlocked`
is a cycle of waits, one member of which the database aborts. `assign` and
`CommitAuto` are the code behind the locks: assignee, history entry, rota.
`dealt` counts the cases the rota gave to each officer.

### FileFailover

Each call has an `Outcome`: answered, answered but the answer was lost (the work
is done, and the call counts as failed), not connected, or not tried because
the worker's breaker is open. A save is a number, `remote` and `disk` hold the
one a path has there, `newest` the one a caller would expect.

### RequestLimiter

`failures` are the rows of one key, `happened` the same without the deletion of
old ones, which is history. `checking` are the logins between `is_limited` and
`record_failure`; nothing makes them wait for each other.

## 3. The runs

| run | checks | instance |
|---|---|---|
| `seats` | `TypeOK`, `GrantsFitCapacity`, `GrantsAreAPool`, `OnlyCancellationFreesSeat` | 2 submissions, one of each upload kind, capacities 0, 1 and unlimited |
| `drafts` | `TypeOK`, `SingleSubmitter`, `OneSubmission`, `SubmittedIsBacked`, `DraftHasOneOutcome`, `ClaimEnds` | 3 requests, 1 rotated link |
| `lease` | `TypeOK`, `HolderKeepsLease`, `AdvancedOnce`, `Exclusive`, `LeaseEnds` | 3 requests, 2 documents |
| `group` | `TypeOK`, `SignedOnce`, `DraftIsCurrent`, `SignedInTurn`, `StepCompletes` | declaration, 2 agreements countersigned, 1 contested seat, 1 edit, 1 fault |
| `mail` | `TypeOK`, `NoRepeat`, `DispatchesInTurn`, `RecordsArrive`, `RemindersClaimed` | 2 workers, one mail of each locked kind, 2 reminders, 1 fault |
| `office`, part case | `DecisionPerVisit`, `EngineFollowsGraph`, `ResumeOnlyBlocked` | 2 requests at a time, 3 operations |
| – part versions | `OneOfEach`, `BoundToPublished`, `EventuallyCurrent` | 2 editors, 3 versions, 2 submissions, pages of 1 |
| – part assignment | `HistoryChains`, `DealtEvenly`, `AssignmentsAreSerial`, `TransactionsEnd` | 2 transactions at a time, 5 in all, 2 submissions, 2 officers |
| – part graph | `VerdictRight`, `RehearsalHolds`, `LoopsEnd` | every workflow of 3 steps, all data |
| – part failover | `SavedFilesFound` | 2 workers, 1 file, 4 saves |
| – part limiter | `OverrunBounded` | 3 logins at a time, limits 2 per 1 and 3 per 3 time units, time 6, 7 failures |
| `seats_overbooked`, `drafts_overwritten`, `lease_lostsave`, `group_seats`, `group_partial`, `case_restore` | one claim of a doc, test or docstring each, which the code breaks (section 5) | the smallest instance that shows it |

**Why the bounds are enough.** The hazards of `seats` are between two uploads for
a last seat, or one upload and one edit: with capacity 1 two submissions compete,
with 0 none fits, without a limit both do; the proofs cover any number. In `drafts` the
owner, a taker-over and a late reader are three requests; each is used once, so
a retry is another request. In `lease` an old reader, a finished operation and a
newcomer are three. In `group` a collection needs two parts to be partly
signed; one fault leaves each intermediate state once, and a second edit would
only rename the version. In `mail` the race is between two senders of one mail,
and a reminder needs a second one to be skipped for; one fault puts a crash or a
lost reply at every point, and the proofs cover any number. In `office` the races
of a case are between two requests, and three operations let the second one be
followed by another that finds what they left (four were run once, with the same
result: 2.4 million states); a version can be overtaken by one and an older one
synchronized beside it; a cycle of waits needs two transactions, and the rota a
second round; three steps have every shape the walks distinguish – a branch, a
loop, a step that is not reached, one that leads nowhere; two workers have their
breakers open and closed; three logins overrun a limit by two. All of the six
parts' safety properties are proved for any numbers. Each run stays below four
minutes on two workers.

Five properties are theorems and no longer listed with a run, because a
refinement that is checked says more: `CountedSeatKept` (`GrantsAreAPool`),
`LinkedWhileActive` (`DraftHasOneOutcome`), `CountersignedHasSeat`
(`SignedInTurn`), `SentIsDelivered` and `OnceIsFinal` (`DispatchesInTurn`).

**Deadlock** is not checked where requests are used up or a step is left
(`drafts`, `lease`, `group`, `case_restore`, and `office`, whose parts end when
their operations are used up or a workflow was refused): there the system does
stop. `seats` and `mail` check it. That the transactions of `CaseAssignment`
never wait on each other for ever, the deadlock that matters there, is the
property `TransactionsEnd`.

**Fairness.**

* `drafts`, `lease`: a request that has begun goes on, if only to be killed
  (`WF` on its steps, `Crash` included) – the server's worker timeout; and time
  passes (`WF` on `ClaimAges`, `LeaseExpires`), which is what the 15-minute
  comparisons with the clock rely on.
* `group`: an operation that runs ends (`WF_vars(OpStep)`, without the failures,
  of which there are at most `MaxFaults`), and participant and office come back
  as long as something is left to do (`SF` on the operations they can begin). A participant may save without
  confirming as often as he likes, but confirms in the end (`SF` on
  `BeginFields("fields")`), and the request that confirmed goes on to a start
  (`run_automatic_steps` at the end of `save_fields`), which another save does not
  forestall every time (`SF` on `BeginStart` while the fields are confirmed).
  The second is an assumption about people, not about code: what `StepCompletes`
  shows is that the *code* leaves no state in which their coming back is useless.
  Nothing is assumed about generation from the admin page, edits or the world.
* `mail`: a worker that has begun goes on (`WF` on its steps); some worker scans
  again and again (`SF` on `BeginScan`: `manage.py` runs `process_deadlines`
  from a scheduler); somebody dispatches an unsent event of the retried kind
  again and the server does not refuse it for ever (`SF` on `Lock` and `Accept`
  of that mail). The last is about people and servers; what `RecordsArrive`
  shows is that no log entry of a failure bars the retry.
* `office`: participants open their submissions again and a request that has the
  row goes on (`WF` on `Open`, `Upgrade`) – the first about people, so
  `EventuallyCurrent` says that whatever a synchronization left undone is done by
  them. A lock that is free is given to somebody who waits for it, a transaction
  that has its locks ends, the database finds a cycle (`WF` on `Acquire`, `Ends`,
  `AbortVictim`); operations are bounded, so nobody is overtaken for ever and
  weak fairness is enough. The loops of one request go on (`WF` on `Walk`,
  `Rehearsal`, `Run`); that they end is `LoopsEnd`.

## 4. The proofs

All theorems hold for every value of the constants under the module's `ASSUME`.

* **`TrainingSeats_proofs`** – `TypeCorrect`, `CapacitySafe`
  (`GrantsFitCapacity`), `CountSafe` (`CountedSeatKept`), `SeatStays`
  (`OnlyCancellationFreesSeat`, from the types: synchronizing and saving keep an
  occupied row occupied). The capacity claim is
  not inductive: at the commit it needs what the count found and that nobody
  was granted a seat since. The invariant `IInv` adds `CountedSeatKept` and
  `LockOwner` (the Form row is held from the count to the commit). All actions
  but `CountSeats` and `LockSeat` are shown to grant nothing and move no
  snapshot (`NoNewGrant`), and one lemma carries the invariant over those; the
  rest is cardinality of finite sets. `GrantsFromPool` (`GrantsAreAPool`) is the
  refinement of `SeatPool` from the same `IInv`: a commit of a counted upload is
  one `Grant`, since the count still holds; a cancellation is a `GiveBack`; an
  operation that takes a new snapshot is a `Revise`, which needs that it never
  happens to an occupied row; every other step is a stutter.
* **`FormDrafts_proofs`** – `OneAtATime`, `NoDuplicate`, `Backed`, under the
  assumption `WorkersTimeOut`. `Inv` adds that a request past its claim runs on
  a draft that is still claimed if active (`ClaimHeld`), that the name it loaded
  is the draft's (`NameKept`), and that nothing else was inserted (`NamedOnly`):
  the second submit finds the name because the first committed it before it
  inserted. `LinkedOnlyWhileActive` (`LinkedWhileActive`) needs none of it: the
  status test in `complete` suffices, workers that outlive their claim included.
  `OneOutcome` (`DraftHasOneOutcome`) refines `DraftOutcome` under
  `WorkersTimeOut`. It needs `GivenForGood` as well: once the draft was given its
  submission it is not active, nobody submits it, and the submission is there
  under the draft's name – so that an `undo` of a failed request, which deletes
  the row, cannot delete one that was given.
* **`DocumentLease_proofs`** – `LeaseKept` (`HolderKeepsLease`), `LeftOnce`
  (`AdvancedOnce`), and `LeaseExcludes` (`Exclusive`), the
  refinement of `Exclusion` step by step. A live operation has the lease (`Holds`)
  and what it loaded is what is stored until it saves (`Current`): no other claim,
  release or change of trainings writes the column in between, although each
  writes all of it, and the change of trainings, with the agreements it reopens,
  without a token. That is what `DocumentGroup` rests on when it lets
  operations take turns. `Inv` adds that tokens are used once:
  a token in the row belongs to a request that has claimed (`TokenUsed`), a
  claim under way has read none or that of an ended operation (`AskedFree`), so
  finding the token it read is finding the lease free.
* **`DocumentGroup_proofs`** – `OneSignedFile` and
  `OfficeHasSeat` (`CountersignedHasSeat`), the latter for forms where the office
  signs, `Countersigned`: without the office there is no such claim, and
  `group_seats` shows the seat missing. `Inv` says how far the running
  operation has come (`Progress`: an upload past its beginning has its file, an
  office upload about to save has file and seat) and what files and seats stand
  behind the state that is saved and the copy in work (`StatesBacked`). Files and
  seats are never taken back inside a step, so `Fail` keeps both.
  `OfferedIsCurrent` (`DraftIsCurrent`) needs an invariant of its own, `OfferInv`: a
  declaration is offered only while its fields are confirmed and stays offered once
  it is signed, in the saved state and in the copy in work, so `save_fields`, which
  is refused then, never changes fields under it; a file found by a start is taken
  over only with confirmed fields, and confirming has retired what was older.
  `StepSignedInTurn` (`SignedInTurn`) refines `StepSignatures` for both settings of
  `Countersigned`. `OrderInv` is what it needs: a state that accepts a part is
  right about its file, one that accepts the agreements about all of them – or,
  without the office, about *one*, which is as much as the code guarantees and
  what `group_partial` shows (`Truthful`); the copy in work accepts
  what the saved state does; an operation never runs in a step that was left.
  `StepNeverWedged` (`NeverWedged`, for at least one training) is the safety core
  of `StepCompletes`: between two operations the step is complete or the guard of
  one that brings it on is open, for any number of failures. Its invariant
  `WayInv` says that what is uploaded waits for the office or is done, that the
  agreements are done with their last one and offered all at once (`Regular`),
  and that an agreement with a signature on it stays offered (`Offered`) – the
  upload that finds its file again depends on that.
* **`MailDispatch_proofs`** – `MailNotRepeated`, `LogIsHonest`, `OnceIsOver`. An
  accepted mail is in one of three places: logged as sent, in the hand of the
  worker that has the lock, or `lost` (`Accounted`); a worker in front of the
  server holds the lock or the claim that brought it there (`Entitled`) and has
  nothing logged against it (`Unsettled`).
  `OneDispatchAtATime` (`DispatchesInTurn`) refines `MailOutcome`. The counts
  become exact (`Exact`: a mail has one acceptance more than were lost if it is
  logged as sent or in a hand, and none more otherwise), and a claimed reminder is
  in one hand and not logged (`OneHand`), so that what is logged for it is the
  outcome of the one try it had.

* **`CaseWorkflow_proofs`** – `CaseTypes`, `DecidedOnce` (`DecisionPerVisit`),
  `EngineOnGraph` (`EngineFollowsGraph`), `ResumedBlocked` (`ResumeOnlyBlocked`).
  `Inv` says what a request may rely on at each of its transactions (`AllSound`:
  an engine step read a step that has a successor, a resumption read a blocked
  place) and that a submission being decided is locked and at the decision step
  (`DecidesLocked`). Everything else a request has loaded may be stale, and the
  theorems show which properties survive that.
* **`WorkflowGraph_proofs`** – `GraphTypes`, `VerdictHolds` (`VerdictRight`),
  `RehearsalKept` (`RehearsalHolds`). `WalkInv`: the steps
  found reachable are, and their successors are found or on the stack; the steps
  found able to finish are. Induction over paths is out of reach, so a step is
  *reached* if it is in every closed set of steps that has the first one; at a
  refusal, what the walk has found (or has not) is such a set. `RehearsalInv` gives every rehearsed step a rank which the run
  climbs, so that it cannot come back to one before the rehearsal ends. `LoopsShrink`
  (`TurnsShrink`), for a finite `StepId`, is the safety core of `LoopsEnd`: every
  turn of the four loops takes one more step out of those not seen, or ends the
  loop. For the validator it rests on `LookedOnce`: a step that was looked at is
  not on the stack again.
* **`Office_proofs`** – the four small parts.
  *Versions:* `VersionsTypes`, `OneVersionOfEach` (`OneOfEach`), `NeverOnADraft`
  (`BoundToPublished`); a version in an editor's or a participant's hands was
  published once, and a version that was is never a draft again (`InHandPast`).
  *Assignment:* `AssignmentTypes`, `HistoryIsAChain` (`HistoryChains`),
  `RotaIsEven` (`DealtEvenly`, for any number of officers: `Even(k)`: those the
  rota has passed have `k + 1` cases, the others `k`); both rest on the lock a transaction holds
  when it writes (`LocksTaken`, `LocksThere`). `SerialAssignments`
  (`AssignmentsAreSerial`) refines `Assignments`: what a transaction has read is
  what is there as long as it has the lock (`LocksShow`), and a dealing one comes to
  the `Form` row only with a case that nobody has (`Deals`), so its commit is one
  `Deal`. `NobodyIsStuck` (`NeverStuck`) is the safety core of `TransactionsEnd`: while
  a transaction is open, one has its locks, can take its next, or is a member of a
  cycle the database finds. `LockingOnce` (nothing is locked twice, what is locked
  has an open owner) makes every waiting transaction wait for another open one;
  `Circle` finds the cycle as the smallest set closed under such waits.
  *Failover:* `FilesFound` (`SavedFilesFound`); the newest save is on one of the
  storages (`Kept`), and the last read that reached the remote storage got the file there, or
  the local one if there is none (`Fresh`).
  *Limiter:* `LimiterTypes`, `LimitHolds` (`OverrunBounded`), under
  `Short.window <= Long.window`: every failure a window can still reach is in the
  table (`RowsKept`), and what a window holds plus the logins in hand never passes
  limit plus workers (`Room`).
* `DraftTypes`, `LeaseTypes`, `GroupTypes`, `MailTypes` – the type invariants of
  the other four, on which the theorems above rest.

The induction over the steps of a data structure (the length of a history, a path
in a graph) is avoided everywhere by an invariant of the *process* that builds it.

**Only model-checked:** liveness (`ClaimEnds`, `LeaseEnds`, `StepCompletes`,
`RecordsArrive`, `RemindersClaimed`, `EventuallyCurrent`, `TransactionsEnd`,
`LoopsEnd`), which is out of the prover's reach. Of three of these the safety core
is a theorem for any instance: `StepNeverWedged`, `NobodyIsStuck`, `LoopsShrink`
say that there always is a step to take, or that the loop has fewer left; that
fairness then takes it is left to TLC. Every safety invariant, action property and
refinement that a passing run checks has a theorem.

## 5. Disagreements found

Each is a behaviour TLC prints; the claim it breaks is quoted in `PROJECT.json`.

| run | what happens |
|---|---|
| `seats_overbooked` | The route outside composite steps commits `signature_valid` before it asks for a seat; the refusal does not take it back, and the next `synchronize_legacy` locks the row without a count. |
| `drafts_overwritten` | `get_by_token` loads an overdue active draft; another request completes it; the first writes `expired` over `submitted`. |
| `lease_lostsave` | A claim reads the column, another operation claims, saves and releases, the claim finds the (empty) token it read and writes the old column back: an accepted document is lost. |
| `group_seats` | The file of an agreement is recorded before the seat; after a refusal the same upload takes the recovery branch, which never asks for a seat. |
| `group_partial` | A start that finds one signed agreement of a collection accepts the whole collection. |
| `case_restore` | An edit whose recheck fails puts every column back to what it loaded, although decisions and moves were committed meanwhile; only the name of the PDF is compared. |

Seen in the same models, without a run of their own:

* A step that ends while a scan runs is reminded of all the same: the check
  `deadline.status != "active"` of `_dispatch` looks at what the session loaded
  when the scan began (`StepEnds` between `BeginScan` and `Accept`).
* A scan that dies between claim and mail has used the reminder up: it stays
  claimed and is never sent (`Crash` at `claimed`). At most once is the choice
  the unique key makes.
* `dispatch_correction_accepted` looks for an earlier mail without the lock; it
  is the mutant `Lock_Unlocked`, with which `NoRepeat` fails.

* `mark_agreement_downloaded` refuses locked rows only, so downloading the old
  agreement of a deselected training makes it active again
  (`DownloadAgreement` from `unselected`).
* `cancel_participation` leaves the JSON as it is; a later synchronization or
  download revives the cancelled row (`Synchronized` after `CancelParticipation`).
* A submission whose pipeline stopped after the `INSERT` is found by the retry,
  which completes the draft and answers that it was sent (`CompleteFound` with
  `rows[...] = "created"`).
* `training_selection_changed` retires the declaration of a step whose
  `completed` flag stays unless it has agreements to reopen, and even where it
  reopens them, a request that has already read the flag leaves the step
  (`SelectTrainings` between `Release` and `Move`, or between `Advance` and `Move`).
* Fields saved with "save" leave the file of a start that died live, and out of date
  (`SaveUnconfirmed` with `made` of the declaration not `None`). Nothing takes it
  over before the fields are confirmed, which retires it.
* A declaration recovered from its file never gets `declaration_signature_valid`
  (`SaveUpload` with the declaration not in `valid`), and an upload that read the
  row before its lease writes `training_agreements` back without what an upload
  in between recorded (`RecordSignature` from an old `seen`).

* **Versions.** An editor's page loads a version and writes it later: `publish`
  writes back the definition it had loaded, so an edit saved in between is lost; a
  publish from a stale page publishes an archived version again (`Publish` of an
  archived version); a synchronization of an older version started earlier may
  move rows *back* until they are opened; a delete from a stale page removes the
  version just published, whose submissions lose their binding; archiving the only
  published version leaves none to open. `BoundToPublished` and `EventuallyCurrent`
  are what survives.
* **Cases.** A rollback and a return to the participant read the row without its
  lock, so a row may end up with the step of one and the status of the other; the
  recheck's automatic rejection may override a decision committed after the row
  was read; a rollback leaves the outcome of a case that had one; a resubmission
  resumes at the entry of `_correction_history` it read, which a stale write of
  the answers may have erased. With more requests under way than any run has, a
  resubmission can take a decided case back to a blocking step: what is true of
  any number of requests is what the theorems of `CaseWorkflow_proofs` say.
* **Graphs.** The validator counts `next` beside `transitions` although the engine
  ignores it when there are transitions; a workflow that is accepted may still
  loop automatically for some data (the engine then raises); the rehearsal stops
  at a document step which the run may pass.
* **Failover.** Not in the model but beside it: `read_text_or_empty` answers an
  empty text for a file that was written locally during an outage; a file deleted
  during an outage comes back; the CSV appends are read, changed and written
  without a lock (the plan, 3).
* **Limiter.** The overrun is bounded by the number of logins in hand, not zero
  (`OverrunBounded`). The configuration does not exclude a short window longer
  than the long one; then `record_failure` deletes rows the short limit still
  counts, and the assumption of `LimitHolds` is false.
* **Office folder.** Two checks that run at once, each for one training, each find
  the other's file missing and neither completes the submission; later checks of
  either find their own file recorded (`CheckFolder` twice between each other).

## 6. Not modelled

* Everything `PROJECT.json` marks `not_modelled`: pure functions of one request
  (permissions, validation, rendering, cryptography), reads and their pages,
  append-only logs, start-up and migrations. They are most of the lines of the
  repository; none of their state is shared by two requests, or only as a row
  that is replaced as a whole, the last writer winning. Two administrators who
  demote, block or delete each other (`routes/admin/users.py`) are the one case
  there that deserves a model; it is in the plan.
* Inside modelled components: the price limit and the selection groups (they
  only refuse a save), single-document steps, the reviewer's decision on a
  document, attendance; in `CaseWorkflow` the superseding of files and seats by a
  rollback, and the transaction boundary between the refresh and the commit of
  `Restore`, the decision on one item of a repeatable group
  (`routes/admin/submissions.py:2058-2094`: it counts the items and may move the
  case when the last one is decided) and the block of `evaluate_saved_stage`; in
  `DocumentGroup` a change of the selected trainings between two operations (it is
  in `DocumentLease`), and the qualification that `save_fields` ends with; in
  `FormVersions` the contents of a definition and the check of `delete_draft` that
  no submission is bound to the draft (the model may delete where the code refuses,
  and the properties hold all the same); in `FileFailover` the text and CSV files.
* **The restored edit, in the other modules.** `Restore` writes back every column of
  the row as the edit had loaded it (`admin_submission_service.py:216-218`), so it is
  a writer in modules that do not have it. It puts `assigned_to_user_id` back
  without a history entry: `HistoryChains` and `AssignmentsAreSerial` are about the
  assignment transactions only. It puts `document_states` back without regard to a
  lease (an edit begins only while the column is empty, but a document operation may
  begin before its recheck fails): `DocumentLease` and `DocumentGroup` are about
  submissions with no such edit under way. `case_restore` shows the cause of both.
* `PROJECT.json` calls a component *partly* modelled when any operation of it that
  changes state is missing; the notes there say which.
* The clock is an event (`TimePasses`, `ClaimAges`, `LeaseExpires`) except in
  `RequestLimiter`, where windows are compared; skew between workers is not
  modelled.
* SQLite's `BEGIN IMMEDIATE` and PostgreSQL's `FOR UPDATE` both appear as a held
  lock; isolation is read committed.

## 7. The plan

Done: seats → drafts → lease → document group → mail → the case and its
workflow → versions → assignment → failover → limiter, the order of how much an
error costs. Left:

1. **Rollback over documents** – it supersedes files by status while operations on
   them run, and leaves the seats of later stages. Composes `CaseWorkflow` with
   `DocumentGroup` and `TrainingSeats`.
   *Proof:* what a rolled-back stage still holds.
2. **Deadlines of moves** – `transition_to` completes and enters deadlines in a
   transaction after the move, so two moves and their deadlines can come in
   different orders and leave an active deadline of a step that was left.
3. **CSV and text files** – `append` and `update_csv_row` as read, change and
   write on either storage.
4. **Composition of `DocumentLease` and `DocumentGroup`** – the two meet in
   `HolderKeepsLease` and in words only: one module with requests that load, work
   and save under the lease, shown to implement the group where operations take
   turns.
5. **Checklist and decision** – the decision checks a verification list another
   clerk may change.
6. **Consent versions**, **administrators' rights** – rows replaced beside readers.
7. Qualification conditions as a pure evaluator checked against a reference.
8. The legacy declaration flow and single-document steps, as further actions of
   `DocumentGroup`; the office folder check across trainings.
