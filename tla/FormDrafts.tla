----------------------------- MODULE FormDrafts -----------------------------
(* One saved draft of a public form and the requests that resume, autosave, *)
(* resend and submit it.                                                    *)
(*                                                                          *)
(* Submitting takes several transactions: the claim (an atomic UPDATE of    *)
(* submit_started_at), naming the submission to be, looking for one of that *)
(* name, the submission pipeline, and completing the draft.  A request may  *)
(* die between any two.  A claim older than SUBMIT_CLAIM_TIMEOUT may be     *)
(* taken over.  Drafts share nothing, so one is modelled.                   *)
EXTENDS Integers, FiniteSets

CONSTANTS
  Request,        \* requests that reach the draft, each used once
  MaxRotations,   \* bound on the resume links issued after the first
  WorkersTimeOut, \* a worker dies before the claim it took is stale
  None            \* NULL

ASSUME DraftsAssumption ==
  /\ IsFiniteSet(Request)
  /\ MaxRotations \in Nat
  /\ WorkersTimeOut \in BOOLEAN
  /\ None \notin Request

VARIABLES
  draft,    \* the FormDraft row
  overdue,  \* expires_at has passed
  rows,     \* submissions by public id; an id is named after its maker
  pc,       \* progress of a request
  link,     \* the token the request resolved the draft with
  mine      \* submission_public_id as the request's claim loaded it

vars == <<draft, overdue, rows, pc, link, mine>>

Status == {"active", "submitted", "expired"}
Draft == [status : Status, claim : {"free", "fresh", "stale"},
          token : 0 .. MaxRotations, id : Request \cup {None},
          submission : Request \cup {None}, savedBy : Request \cup {None}]

\* A submission: absent, inserted, with consents and attachments, or through
\* the whole pipeline (workflow entered, PDF stored).
Stage == {"absent", "created", "recorded", "complete"}

\* A request that holds, or has held, the claim and has not ended.
Submitting == {"claimed", "loaded", "named", "found", "submitting", "created",
               "removing", "recorded", "piped", "failing"}

TypeOK ==
  /\ draft \in Draft
  /\ overdue \in BOOLEAN
  /\ rows \in [Request -> Stage]
  /\ pc \in [Request -> Submitting \cup
                        {"idle", "resolved", "expiring", "saving", "done"}]
  /\ link \in [Request -> 0 .. MaxRotations]
  /\ mine \in [Request -> Request \cup {None}]

Init ==
  /\ draft = [status |-> "active", claim |-> "free", token |-> 0, id |-> None,
              submission |-> None, savedBy |-> None]
  /\ overdue = FALSE
  /\ rows = [r \in Request |-> "absent"]
  /\ pc = [r \in Request |-> "idle"]
  /\ link = [r \in Request |-> 0]
  /\ mine = [r \in Request |-> None]

Goto(r, l) == pc' = [pc EXCEPT ![r] = l]

---------------------------------------------------------------------------
(* Resume, autosave and resend. *)

\* get_by_token finds the draft active and in time: the request goes on to
\* submit it or to autosave it.
Resolve(r) ==
  /\ pc[r] = "idle" /\ draft.status = "active" /\ ~overdue
  /\ link' = [link EXCEPT ![r] = draft.token]
  /\ \E l \in {"resolved", "saving"} : Goto(r, l)
  /\ UNCHANGED <<draft, overdue, rows, mine>>

\* get_by_token finds the draft active but past its time.
ResolveOverdue(r) ==
  /\ pc[r] = "idle" /\ draft.status = "active" /\ overdue
  /\ Goto(r, "expiring")
  /\ UNCHANGED <<draft, overdue, rows, link, mine>>

\* It then writes the row it loaded, whatever became of it since.
WriteExpired(r) ==
  /\ pc[r] = "expiring"
  /\ draft' = [draft EXCEPT !.status = "expired", !.claim = "free"]
  /\ Goto(r, "done")
  /\ UNCHANGED <<overdue, rows, link, mine>>

\* autosave checked the row it loaded; the flush updates it by primary key.
Autosave(r) ==
  /\ pc[r] = "saving"
  /\ draft' = [draft EXCEPT !.savedBy = r]
  /\ Goto(r, "done")
  /\ UNCHANGED <<overdue, rows, link, mine>>

Rotate ==
  /\ draft.status = "active" /\ ~overdue /\ draft.token < MaxRotations
  /\ draft' = [draft EXCEPT !.token = @ + 1]
  /\ UNCHANGED <<overdue, rows, pc, link, mine>>

\* The expire_form_drafts command: one conditional UPDATE.
MarkExpired ==
  /\ draft.status = "active" /\ overdue
  /\ draft' = [draft EXCEPT !.status = "expired", !.claim = "free"]
  /\ UNCHANGED <<overdue, rows, pc, link, mine>>

---------------------------------------------------------------------------
(* Submit. *)

Claimable_IgnoresClaim(r) ==
  draft.status = "active" /\ ~overdue /\ draft.token = link[r]
Claimable(r) ==
  /\ draft.status = "active" /\ ~overdue
  /\ draft.token = link[r]
  /\ draft.claim # "fresh"

Claim(r) ==
  /\ pc[r] = "resolved" /\ Claimable(r)
  /\ draft' = [draft EXCEPT !.claim = "fresh"]
  /\ Goto(r, "claimed")
  /\ UNCHANGED <<overdue, rows, link, mine>>

ClaimRefused(r) ==
  /\ pc[r] = "resolved" /\ ~Claimable(r)
  /\ Goto(r, "done")
  /\ UNCHANGED <<draft, overdue, rows, link, mine>>

\* The draft is read again after the claim was committed.
LoadDraft_Unnamed(r) ==
  /\ pc[r] = "claimed"
  /\ mine' = [mine EXCEPT ![r] = draft.id]
  /\ Goto(r, IF draft.id = None THEN "unnamed" ELSE "named")
  /\ UNCHANGED <<draft, overdue, rows, link>>
LoadDraft_NewName(r) ==
  /\ pc[r] = "claimed"
  /\ mine' = [mine EXCEPT ![r] = draft.id]
  /\ Goto(r, "loaded")
  /\ UNCHANGED <<draft, overdue, rows, link>>
LoadDraft(r) ==
  /\ pc[r] = "claimed"
  /\ mine' = [mine EXCEPT ![r] = draft.id]
  /\ Goto(r, IF draft.id = None THEN "loaded" ELSE "named")
  /\ UNCHANGED <<draft, overdue, rows, link>>

\* It has no submission_public_id yet: a new one is committed.
NameSubmission(r) ==
  /\ pc[r] = "loaded"
  /\ draft' = [draft EXCEPT !.id = r]
  /\ mine' = [mine EXCEPT ![r] = r]
  /\ Goto(r, "named")
  /\ UNCHANGED <<overdue, rows, link>>

LookForSubmission(r) ==
  /\ pc[r] = "named"
  /\ Goto(r, IF rows[mine[r]] = "absent" THEN "submitting" ELSE "found")
  /\ UNCHANGED <<draft, overdue, rows, link, mine>>

\* complete: one conditional UPDATE; the submission must exist (foreign key).
CanComplete_AnyStatus(r) ==
  draft.submission = None /\ rows[mine[r]] # "absent"
CanComplete(r) ==
  /\ draft.status = "active" /\ draft.submission = None
  /\ rows[mine[r]] # "absent"
Completed(r) ==
  [draft EXCEPT !.status = "submitted", !.claim = "free",
                !.submission = mine[r]]

\* An earlier request left the submission: the draft is completed with it and
\* the applicant is told that it was sent already.  A refused UPDATE raises,
\* outside the try block.
CompleteFound(r) ==
  /\ pc[r] = "found"
  /\ draft' = IF CanComplete(r) THEN Completed(r) ELSE draft
  /\ Goto(r, "done")
  /\ UNCHANGED <<overdue, rows, link, mine>>

\* submit_form refuses the values, or raises before it inserts.
Invalid(r) ==
  /\ pc[r] = "submitting"
  /\ Goto(r, "failing")
  /\ UNCHANGED <<draft, overdue, rows, link, mine>>

\* The unique submission_id makes a second INSERT raise.
CreateSubmission(r) ==
  /\ pc[r] = "submitting"
  /\ IF rows[mine[r]] = "absent"
       THEN /\ rows' = [rows EXCEPT ![mine[r]] = "created"]
            /\ Goto(r, "created")
       ELSE Goto(r, "failing") /\ UNCHANGED rows
  /\ UNCHANGED <<draft, overdue, link, mine>>

\* Consents and attachments; both raise when the row is gone.
Record(r) ==
  /\ pc[r] = "created" /\ rows[mine[r]] # "absent"
  /\ rows' = [rows EXCEPT ![mine[r]] = "recorded"]
  /\ Goto(r, "recorded")
  /\ UNCHANGED <<draft, overdue, link, mine>>

RecordFails_ReleasesFirst(r) ==
  /\ pc[r] = "created"
  /\ draft' = [draft EXCEPT !.claim = "free"]
  /\ Goto(r, "removing")
  /\ UNCHANGED <<overdue, rows, link, mine>>
RecordFails(r) ==
  /\ pc[r] = "created"
  /\ Goto(r, "removing")
  /\ UNCHANGED <<draft, overdue, rows, link, mine>>

\* remove_incomplete_submission deletes whatever row has the public id, and
\* the draft's foreign key is ON DELETE SET NULL.
RemoveSubmission(r) ==
  /\ pc[r] = "removing"
  /\ rows' = [rows EXCEPT ![mine[r]] = "absent"]
  /\ draft' = IF draft.submission = mine[r]
                THEN [draft EXCEPT !.submission = None] ELSE draft
  /\ Goto(r, "failing")
  /\ UNCHANGED <<overdue, link, mine>>

\* The rest of the pipeline: qualification, workflow entry, mails, PDF.
Pipe(r) ==
  /\ pc[r] = "recorded"
  /\ rows' = [rows EXCEPT ![mine[r]] =
                IF @ = "absent" THEN "absent" ELSE "complete"]
  /\ Goto(r, "piped")
  /\ UNCHANGED <<draft, overdue, link, mine>>

\* A failure here, or in the steps between the INSERT and the consents, leaves
\* the submission where it is.
PipeFails(r) ==
  /\ pc[r] \in {"created", "recorded"}
  /\ Goto(r, "failing")
  /\ UNCHANGED <<draft, overdue, rows, link, mine>>

Complete(r) ==
  /\ pc[r] = "piped"
  /\ IF CanComplete(r)
       THEN draft' = Completed(r) /\ Goto(r, "done")
       ELSE UNCHANGED draft /\ Goto(r, "failing")
  /\ UNCHANGED <<overdue, rows, link, mine>>

\* release_submit_claim asks for an active draft, not for the owner.
Release(r) ==
  /\ pc[r] = "failing"
  /\ draft' = IF draft.status = "active"
                THEN [draft EXCEPT !.claim = "free"] ELSE draft
  /\ Goto(r, "done")
  /\ UNCHANGED <<overdue, rows, link, mine>>

---------------------------------------------------------------------------
(* The environment. *)

Crash(r) ==
  /\ pc[r] \notin {"idle", "done"}
  /\ Goto(r, "done")
  /\ UNCHANGED <<draft, overdue, rows, link, mine>>

TimePasses ==
  /\ ~overdue
  /\ overdue' = TRUE
  /\ UNCHANGED <<draft, rows, pc, link, mine>>

\* SUBMIT_CLAIM_TIMEOUT passes.  The server kills a worker after two minutes,
\* so the owner has ended by then, unless the deployment lets it live.
ClaimAges_AfterRelease == draft.claim = "stale" /\ UNCHANGED vars
ClaimAges ==
  /\ draft.claim = "fresh"
  /\ WorkersTimeOut => \A r \in Request : pc[r] \notin Submitting
  /\ draft' = [draft EXCEPT !.claim = "stale"]
  /\ UNCHANGED <<overdue, rows, pc, link, mine>>

RequestStep(r) ==
  \/ Resolve(r) \/ ResolveOverdue(r) \/ WriteExpired(r) \/ Autosave(r)
  \/ Claim(r) \/ ClaimRefused(r) \/ LoadDraft(r) \/ NameSubmission(r)
  \/ LookForSubmission(r) \/ CompleteFound(r) \/ Invalid(r)
  \/ CreateSubmission(r) \/ Record(r) \/ RecordFails(r)
  \/ RemoveSubmission(r) \/ Pipe(r) \/ PipeFails(r) \/ Complete(r)
  \/ Release(r) \/ Crash(r)

Next ==
  \/ \E r \in Request : RequestStep(r)
  \/ Rotate \/ MarkExpired \/ TimePasses \/ ClaimAges

\* Requests end, if only by the worker's timeout, and claims age.
Fairness ==
  /\ \A r \in Request : WF_vars(pc[r] # "idle" /\ RequestStep(r))
  /\ WF_vars(ClaimAges)

Spec == Init /\ [][Next]_vars
FairSpec == Spec /\ Fairness

---------------------------------------------------------------------------
(* Properties. *)

\* At most one request is between its claim and its end: the claim with its
\* timeout, its takeover and its release excludes a second submit.
SingleSubmitter ==
  \A r, q \in Request :
    pc[r] \in Submitting /\ pc[q] \in Submitting => r = q

\* One draft makes at most one submission, over every retry after a failure,
\* a crash or a timed-out claim.
OneSubmission ==
  \A p, q \in Request : rows[p] # "absent" /\ rows[q] # "absent" => p = q

\* A draft called submitted has its submission: no failing pipeline takes
\* away the row another request completed the draft with.
SubmittedIsBacked ==
  draft.status = "submitted" =>
    draft.submission # None /\ rows[draft.submission] # "absent"

\* A draft that expired or was submitted is never given a submission again,
\* whatever requests were under way.
LinkedWhileActive ==
  [][draft'.submission # draft.submission /\ draft'.submission # None
       => draft.status = "active"]_vars

\* Requests that claim, take over, release, fail and die leave the draft and its
\* submissions as a draft does that is tried by one request at a time: one name
\* over all tries, one submission of that name, given once and kept.
Outcome == INSTANCE DraftOutcome WITH
  Name <- Request, status <- draft.status, name <- draft.id,
  made <- {p \in Request : rows[p] # "absent"}, given <- draft.submission
DraftHasOneOutcome == Outcome!Spec

\* A claim does not outlast its owner for ever: the draft becomes claimable
\* again, or ends.
ClaimEnds == (draft.claim = "fresh") ~> (draft.claim # "fresh")

\* tests/test_form_drafts.py: a submitted draft stays submitted with its
\* submission.  get_by_token writes the expiry into the row it loaded before.
SubmittedStays ==
  [][draft.status = "submitted" => draft'.status = "submitted"]_vars
=============================================================================
