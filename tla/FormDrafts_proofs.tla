-------------------------- MODULE FormDrafts_proofs --------------------------
(* Proofs about FormDrafts.  Where workers die before their claim is stale, *)
(* at most one request is past its claim, so the name it loaded is the      *)
(* draft's and nobody else inserts, removes or completes.                   *)
EXTENDS FormDrafts, TLAPS

Unnamed == {"claimed", "loaded"}

\* A request past its claim runs on a draft that is not submitted and, while
\* the draft is active, still claimed.
ClaimHeld ==
  \A r \in Request : pc[r] \in Submitting =>
    /\ draft.status # "submitted"
    /\ draft.status = "active" => draft.claim = "fresh"

\* What it works on is the submission the draft names.
NameKept ==
  \A r \in Request :
    /\ pc[r] = "loaded" => draft.id = None
    /\ pc[r] \in Submitting \ Unnamed => mine[r] \in Request /\ mine[r] = draft.id

\* Only the submission the draft names was ever inserted.
NamedOnly == \A p \in Request : rows[p] # "absent" => draft.id = p

Inv ==
  /\ TypeOK
  /\ SingleSubmitter
  /\ ClaimHeld
  /\ NameKept
  /\ NamedOnly
  /\ SubmittedIsBacked

LEMMA InitHolds == Init => Inv
<1> SUFFICES ASSUME Init PROVE Inv
  OBVIOUS
<1>1. /\ draft \in Draft
      /\ draft.status = "active"
  <2>1. 0 \in 0 .. MaxRotations
    BY DraftsAssumption
  <2> QED BY <2>1 DEF Init, Draft, Status
<1>2. TypeOK
  <2>1. 0 \in 0 .. MaxRotations
    BY DraftsAssumption
  <2> QED BY <1>1, <2>1 DEF Init, TypeOK, Stage
<1>3. \A r \in Request : pc[r] = "idle" /\ rows[r] = "absent"
  BY DEF Init
<1> QED
  BY <1>1, <1>2, <1>3 DEF Inv, SingleSubmitter, ClaimHeld, NameKept, NamedOnly,
     SubmittedIsBacked, Submitting

\* Steps of a request that leave the draft and the submissions alone.
LEMMA RequestReads ==
  ASSUME Inv, NEW r \in Request,
         \/ Resolve(r) \/ ResolveOverdue(r) \/ ClaimRefused(r)
         \/ LookForSubmission(r) \/ Invalid(r) \/ RecordFails(r)
         \/ PipeFails(r) \/ Crash(r) \/ LoadDraft(r)
  PROVE  Inv'
<1> USE DraftsAssumption
    DEF Inv, TypeOK, Submitting, Unnamed, Goto
<1>1. TypeOK'
  BY DEF Resolve, ResolveOverdue, ClaimRefused, LookForSubmission, Invalid,
         RecordFails, PipeFails, Crash, LoadDraft, Draft
<1>2. SingleSubmitter'
  BY DEF Resolve, ResolveOverdue, ClaimRefused, LookForSubmission, Invalid,
         RecordFails, PipeFails, Crash, LoadDraft, SingleSubmitter
<1>3. ClaimHeld'
  BY DEF Resolve, ResolveOverdue, ClaimRefused, LookForSubmission, Invalid,
         RecordFails, PipeFails, Crash, LoadDraft, ClaimHeld
<1>4. NameKept'
  <2>1. CASE LoadDraft(r)
    BY <2>1 DEF LoadDraft, NameKept, Draft
  <2>2. CASE ~LoadDraft(r)
    BY <2>2 DEF Resolve, ResolveOverdue, ClaimRefused, LookForSubmission,
       Invalid, RecordFails, PipeFails, Crash, NameKept
  <2> QED BY <2>1, <2>2
<1>5. NamedOnly' /\ SubmittedIsBacked'
  BY DEF Resolve, ResolveOverdue, ClaimRefused, LookForSubmission, Invalid,
         RecordFails, PipeFails, Crash, LoadDraft, NamedOnly, SubmittedIsBacked
<1> QED BY <1>1, <1>2, <1>3, <1>4, <1>5

\* Steps that write only the draft's status, claim, token or data.
LEMMA DraftWrites ==
  ASSUME Inv, WorkersTimeOut,
         \/ \E r \in Request :
              WriteExpired(r) \/ Autosave(r) \/ Claim(r) \/ Release(r)
         \/ Rotate \/ MarkExpired \/ TimePasses \/ ClaimAges
  PROVE  Inv'
<1> USE DraftsAssumption DEF Inv, TypeOK, Goto, Draft, Status
<1>1. ASSUME NEW r \in Request, WriteExpired(r) PROVE Inv'
  <2>1. TypeOK'
    BY <1>1 DEF WriteExpired
  <2>2. SingleSubmitter' /\ ClaimHeld'
    BY <1>1 DEF WriteExpired, SingleSubmitter, ClaimHeld, Submitting
  <2>3. NameKept' /\ NamedOnly' /\ SubmittedIsBacked'
    BY <1>1 DEF WriteExpired, NameKept, ClaimHeld, NamedOnly, SubmittedIsBacked,
       Submitting, Unnamed
  <2> QED
    BY <2>1, <2>2, <2>3
<1>2. ASSUME NEW r \in Request, Autosave(r) PROVE Inv'
  <2>1. TypeOK'
    BY <1>2 DEF Autosave
  <2>2. SingleSubmitter' /\ ClaimHeld'
    BY <1>2 DEF Autosave, SingleSubmitter, ClaimHeld, Submitting
  <2>3. NameKept' /\ NamedOnly' /\ SubmittedIsBacked'
    BY <1>2 DEF Autosave, NameKept, ClaimHeld, NamedOnly, SubmittedIsBacked,
       Submitting, Unnamed
  <2> QED
    BY <2>1, <2>2, <2>3
<1>3. ASSUME NEW r \in Request, Claim(r) PROVE Inv'
  <2>0. \A q \in Request : pc[q] \notin Submitting
    BY <1>3 DEF Claim, Claimable, ClaimHeld
  <2>1. TypeOK'
    BY <1>3 DEF Claim, Submitting
  <2>2. SingleSubmitter' /\ ClaimHeld'
    BY <1>3, <2>0 DEF Claim, Claimable, SingleSubmitter, ClaimHeld, Submitting
  <2>3. NameKept' /\ NamedOnly' /\ SubmittedIsBacked'
    BY <1>3, <2>0 DEF Claim, Claimable, NameKept, ClaimHeld, NamedOnly, SubmittedIsBacked,
       Submitting, Unnamed
  <2> QED
    BY <2>1, <2>2, <2>3
<1>4. ASSUME NEW r \in Request, Release(r) PROVE Inv'
  <2>0. \A q \in Request \ {r} : pc[q] \notin Submitting
    BY <1>4 DEF Release, SingleSubmitter, Submitting
  <2>1. TypeOK'
    BY <1>4 DEF Release
  <2>2. SingleSubmitter' /\ ClaimHeld'
    BY <1>4, <2>0 DEF Release, SingleSubmitter, ClaimHeld, Submitting
  <2>3. NameKept' /\ NamedOnly' /\ SubmittedIsBacked'
    BY <1>4, <2>0 DEF Release, NameKept, ClaimHeld, NamedOnly, SubmittedIsBacked,
       Submitting, Unnamed
  <2> QED
    BY <2>1, <2>2, <2>3
<1>5. CASE Rotate
  <2>1. TypeOK'
    BY <1>5 DEF Rotate
  <2>2. SingleSubmitter' /\ ClaimHeld'
    BY <1>5 DEF Rotate, SingleSubmitter, ClaimHeld, Submitting
  <2>3. NameKept' /\ NamedOnly' /\ SubmittedIsBacked'
    BY <1>5 DEF Rotate, NameKept, ClaimHeld, NamedOnly, SubmittedIsBacked,
       Submitting, Unnamed
  <2> QED
    BY <2>1, <2>2, <2>3
<1>6. CASE MarkExpired
  <2>1. TypeOK'
    BY <1>6 DEF MarkExpired
  <2>2. SingleSubmitter' /\ ClaimHeld'
    BY <1>6 DEF MarkExpired, SingleSubmitter, ClaimHeld, Submitting
  <2>3. NameKept' /\ NamedOnly' /\ SubmittedIsBacked'
    BY <1>6 DEF MarkExpired, NameKept, ClaimHeld, NamedOnly, SubmittedIsBacked,
       Submitting, Unnamed
  <2> QED
    BY <2>1, <2>2, <2>3
<1>7. CASE TimePasses
  <2>1. TypeOK'
    BY <1>7 DEF TimePasses
  <2>2. SingleSubmitter' /\ ClaimHeld'
    BY <1>7 DEF TimePasses, SingleSubmitter, ClaimHeld, Submitting
  <2>3. NameKept' /\ NamedOnly' /\ SubmittedIsBacked'
    BY <1>7 DEF TimePasses, NameKept, ClaimHeld, NamedOnly, SubmittedIsBacked,
       Submitting, Unnamed
  <2> QED
    BY <2>1, <2>2, <2>3
<1>8. CASE ClaimAges
  <2>1. TypeOK'
    BY <1>8 DEF ClaimAges
  <2>2. SingleSubmitter' /\ ClaimHeld'
    BY <1>8 DEF ClaimAges, SingleSubmitter, ClaimHeld, Submitting
  <2>3. NameKept' /\ NamedOnly' /\ SubmittedIsBacked'
    BY <1>8 DEF ClaimAges, NameKept, ClaimHeld, NamedOnly, SubmittedIsBacked,
       Submitting, Unnamed
  <2> QED
    BY <2>1, <2>2, <2>3
<1> QED BY <1>1, <1>2, <1>3, <1>4, <1>5, <1>6, <1>7, <1>8

\* What complete writes when it may: a submitted draft with the submission
\* that its name, and the request's, refers to.
LEMMA CompletedDraft ==
  ASSUME TypeOK, NEW r \in Request, mine[r] \in Request
  PROVE  /\ Completed(r) \in Draft
         /\ Completed(r).status = "submitted"
         /\ Completed(r).submission = mine[r]
         /\ Completed(r).id = draft.id
BY DEF TypeOK, Draft, Status, Completed

\* Completing moves the request out of its claim.
LEMMA CompleteStep ==
  ASSUME Inv, NEW r \in Request, pc[r] \in {"found", "piped"},
         CanComplete(r), draft' = Completed(r), Goto(r, "done"),
         UNCHANGED <<overdue, rows, link, mine>>
  PROVE  Inv'
<1> USE DEF Inv, Goto
<1>1. mine[r] \in Request /\ mine[r] = draft.id
  BY DEF NameKept, Submitting, Unnamed
<1>2. /\ draft' \in Draft
      /\ draft'.status = "submitted"
      /\ draft'.submission = mine[r]
      /\ draft'.id = draft.id
  BY <1>1, CompletedDraft
<1>3. \A q \in Request : pc'[q] \notin Submitting
  BY DEF TypeOK, SingleSubmitter, Submitting
<1>4. TypeOK'
  BY <1>2 DEF TypeOK
<1>5. SingleSubmitter' /\ ClaimHeld'
  BY <1>3 DEF SingleSubmitter, ClaimHeld
<1>6. NameKept'
  BY <1>3 DEF NameKept, Submitting
<1>7. NamedOnly'
  BY <1>2 DEF NamedOnly
<1>8. SubmittedIsBacked'
  BY <1>1, <1>2, DraftsAssumption DEF SubmittedIsBacked, CanComplete
<1> QED BY <1>4, <1>5, <1>6, <1>7, <1>8

\* Giving up on completing leaves the draft as it is.
LEMMA CompleteRefused ==
  ASSUME Inv, NEW r \in Request,
         \/ pc[r] = "found" /\ Goto(r, "done")
         \/ pc[r] = "piped" /\ Goto(r, "failing"),
         UNCHANGED <<draft, overdue, rows, link, mine>>
  PROVE  Inv'
BY DEF Inv, Goto, TypeOK, SingleSubmitter, ClaimHeld, NameKept, NamedOnly,
       SubmittedIsBacked, Submitting, Unnamed

\* Steps of the one request past its claim that write the submission or the
\* draft's link to it.
LEMMA SubmitWrites ==
  ASSUME Inv, NEW r \in Request,
         \/ NameSubmission(r) \/ CompleteFound(r) \/ CreateSubmission(r)
         \/ Record(r) \/ RemoveSubmission(r) \/ Pipe(r) \/ Complete(r)
  PROVE  Inv'
<1> USE DraftsAssumption DEF Inv, Goto
<1>0. /\ pc[r] \in Submitting
      /\ \A q \in Request \ {r} : pc[q] \notin Submitting
  BY DEF NameSubmission, CompleteFound, CreateSubmission, Record,
         RemoveSubmission, Pipe, Complete, SingleSubmitter, Submitting
<1>1. CASE NameSubmission(r)
  BY <1>0, <1>1 DEF NameSubmission, TypeOK, Draft, SingleSubmitter, ClaimHeld,
     NameKept, NamedOnly, SubmittedIsBacked, Submitting, Unnamed
<1>2. CASE CompleteFound(r)
  <2>1. CASE CanComplete(r)
    BY <1>2, <2>1, CompleteStep DEF CompleteFound
  <2>2. CASE ~CanComplete(r)
    BY <1>2, <2>2, CompleteRefused DEF CompleteFound
  <2> QED BY <2>1, <2>2
<1>3. CASE CreateSubmission(r)
  BY <1>0, <1>3 DEF CreateSubmission, TypeOK, Stage, SingleSubmitter,
     ClaimHeld, NameKept, NamedOnly, SubmittedIsBacked, Submitting, Unnamed
<1>4. CASE Record(r)
  BY <1>0, <1>4 DEF Record, TypeOK, Stage, SingleSubmitter, ClaimHeld,
     NameKept, NamedOnly, SubmittedIsBacked, Submitting, Unnamed
<1>5. CASE RemoveSubmission(r)
  BY <1>0, <1>5 DEF RemoveSubmission, TypeOK, Draft, Stage, SingleSubmitter,
     ClaimHeld, NameKept, NamedOnly, SubmittedIsBacked, Submitting, Unnamed
<1>6. CASE Pipe(r)
  BY <1>0, <1>6 DEF Pipe, TypeOK, Stage, SingleSubmitter, ClaimHeld,
     NameKept, NamedOnly, SubmittedIsBacked, Submitting, Unnamed
<1>7. CASE Complete(r)
  <2>1. CASE CanComplete(r)
    BY <1>7, <2>1, CompleteStep DEF Complete
  <2>2. CASE ~CanComplete(r)
    BY <1>7, <2>2, CompleteRefused DEF Complete
  <2> QED BY <2>1, <2>2
<1> QED BY <1>1, <1>2, <1>3, <1>4, <1>5, <1>6, <1>7

LEMMA StepHolds == WorkersTimeOut /\ Inv /\ [Next]_vars => Inv'
<1> SUFFICES ASSUME WorkersTimeOut, Inv, [Next]_vars PROVE Inv'
  OBVIOUS
<1>1. ASSUME NEW r \in Request, RequestStep(r) PROVE Inv'
  BY <1>1, RequestReads, DraftWrites, SubmitWrites DEF RequestStep
<1>2. CASE Rotate \/ MarkExpired \/ TimePasses \/ ClaimAges
  BY <1>2, DraftWrites
<1>3. CASE UNCHANGED vars
  BY <1>3 DEF vars, Inv, TypeOK, SingleSubmitter, ClaimHeld, NameKept,
     NamedOnly, SubmittedIsBacked
<1> QED BY <1>1, <1>2, <1>3 DEF Next

LEMMA Inductive == ASSUME WorkersTimeOut PROVE Spec => []Inv
<1>1. Inv /\ [Next]_vars => Inv'
  BY StepHolds
<1> QED BY InitHolds, <1>1, PTL DEF Spec

\* Every variable keeps its type.
THEOREM DraftTypes == ASSUME WorkersTimeOut PROVE Spec => []TypeOK
<1>1. Inv => TypeOK
  BY DEF Inv
<1> QED BY Inductive, <1>1, PTL

\* Claiming, taking over and releasing a draft let one request submit at a
\* time, for any number of requests.
THEOREM OneAtATime == ASSUME WorkersTimeOut PROVE Spec => []SingleSubmitter
<1>1. Inv => SingleSubmitter
  BY DEF Inv
<1> QED BY Inductive, <1>1, PTL

\* One draft makes at most one submission, over any number of requests that
\* fail, crash or retry.
THEOREM NoDuplicate == ASSUME WorkersTimeOut PROVE Spec => []OneSubmission
<1>1. Inv => OneSubmission
  BY DEF Inv, NamedOnly, OneSubmission
<1> QED BY Inductive, <1>1, PTL

\* A submitted draft has its submission: no failing request removes it.
THEOREM Backed == ASSUME WorkersTimeOut PROVE Spec => []SubmittedIsBacked
<1>1. Inv => SubmittedIsBacked
  BY DEF Inv
<1> QED BY Inductive, <1>1, PTL

\* A draft that was given its submission is no longer active, nobody submits it,
\* and the submission is there under the draft's name.
GivenForGood ==
  draft.submission # None =>
    /\ draft.status # "active"
    /\ draft.submission = draft.id /\ rows[draft.submission] # "absent"
    /\ \A r \in Request : pc[r] \notin Submitting

\* What became of the draft and its submissions, as DraftOutcome sees it.
Made == {p \in Request : rows[p] # "absent"}
SameOutcome == UNCHANGED <<draft.status, draft.id, Made, draft.submission>>

\* Steps that touch neither the submissions nor what the draft came to.
LEMMA QuietStep ==
  ASSUME Inv, GivenForGood, NEW r \in Request,
         \/ Resolve(r) \/ ResolveOverdue(r) \/ Autosave(r) \/ Claim(r)
         \/ ClaimRefused(r) \/ LoadDraft(r) \/ LookForSubmission(r) \/ Invalid(r)
         \/ RecordFails(r) \/ PipeFails(r) \/ Release(r) \/ Crash(r)
  PROVE  GivenForGood' /\ SameOutcome
<1> USE DEF Inv, TypeOK, Goto
<1>1. rows' = rows
  BY DEF Resolve, ResolveOverdue, Autosave, Claim, ClaimRefused, LoadDraft,
         LookForSubmission, Invalid, RecordFails, PipeFails, Release, Crash
<1>2. /\ draft'.status = draft.status /\ draft'.id = draft.id
      /\ draft'.submission = draft.submission
  BY DEF Resolve, ResolveOverdue, Autosave, Claim, ClaimRefused, LoadDraft,
         LookForSubmission, Invalid, RecordFails, PipeFails, Release, Crash, Draft
<1>3. pc'[r] \in Submitting => pc[r] \in Submitting \/ draft.status = "active"
  BY DEF Resolve, ResolveOverdue, Autosave, Claim, Claimable, ClaimRefused, LoadDraft,
         LookForSubmission, Invalid, RecordFails, PipeFails, Release, Crash, Submitting
<1>4. \A q \in Request \ {r} : pc'[q] = pc[q]
  BY DEF Resolve, ResolveOverdue, Autosave, Claim, ClaimRefused, LoadDraft,
         LookForSubmission, Invalid, RecordFails, PipeFails, Release, Crash
<1>5. GivenForGood'
  BY <1>1, <1>2, <1>3, <1>4 DEF GivenForGood
<1> QED BY <1>1, <1>2, <1>5 DEF SameOutcome, Made

\* Steps of the draft alone: it expires, or nothing the outcome tells happens.
LEMMA ExpiryStep ==
  ASSUME Inv, GivenForGood,
         \/ \E r \in Request : WriteExpired(r)
         \/ Rotate \/ MarkExpired \/ TimePasses \/ ClaimAges \/ UNCHANGED vars
  PROVE  GivenForGood' /\ (Outcome!Expire \/ SameOutcome)
<1> USE DEF Inv, TypeOK, Goto
<1>1. rows' = rows /\ \A q \in Request : pc'[q] \in Submitting => pc[q] \in Submitting
  BY DEF WriteExpired, Rotate, MarkExpired, TimePasses, ClaimAges, vars, Submitting
<1>2. /\ draft'.id = draft.id /\ draft'.submission = draft.submission
      /\ draft'.status = draft.status \/ draft'.status = "expired"
  BY DEF WriteExpired, Rotate, MarkExpired, TimePasses, ClaimAges, vars, Draft
<1>3. GivenForGood'
  BY <1>1, <1>2 DEF GivenForGood
<1> QED BY <1>1, <1>2, <1>3 DEF SameOutcome, Made, Outcome!Expire

\* Steps of the one request past its claim: the outcome moves as promised.
LEMMA SubmitterStep ==
  ASSUME Inv, GivenForGood, NEW r \in Request,
         \/ NameSubmission(r) \/ CompleteFound(r) \/ CreateSubmission(r)
         \/ Record(r) \/ RemoveSubmission(r) \/ Pipe(r) \/ Complete(r)
  PROVE  GivenForGood' /\ (Outcome!Next \/ SameOutcome)
<1> USE DraftsAssumption DEF Inv, TypeOK, Goto
<1>1. /\ pc[r] \in Submitting /\ draft.submission = None
      /\ \A q \in Request \ {r} : pc[q] \notin Submitting
  BY DEF NameSubmission, CompleteFound, CreateSubmission, Record, RemoveSubmission,
         Pipe, Complete, SingleSubmitter, Submitting, GivenForGood
<1>2. /\ pc[r] = "loaded" => draft.id = None
      /\ pc[r] \in Submitting \ Unnamed => mine[r] \in Request /\ mine[r] = draft.id
  BY DEF NameKept
<1>3. Made \subseteq {draft.id}
  BY DEF NamedOnly, Made
<1>4. CASE NameSubmission(r)
  <2>1. /\ draft' = [draft EXCEPT !.id = r] /\ rows' = rows /\ draft.id = None
    BY <1>2, <1>4 DEF NameSubmission
  <2>2. /\ draft'.id = r /\ draft'.status = draft.status
        /\ draft'.submission = draft.submission
    BY <2>1 DEF Draft
  <2>3. Outcome!Call(r)
    BY <2>1, <2>2 DEF Outcome!Call
  <2>4. GivenForGood'
    BY <1>1, <2>2 DEF GivenForGood
  <2> QED BY <2>3, <2>4 DEF Outcome!Next
<1>5. ASSUME CanComplete(r), draft' = Completed(r), rows' = rows,
             Goto(r, "done"), pc[r] \in {"found", "piped"}
      PROVE  GivenForGood' /\ Outcome!Next
  <2>1. mine[r] \in Request /\ mine[r] = draft.id /\ rows[mine[r]] # "absent"
    BY <1>2, <1>5 DEF Submitting, Unnamed, CanComplete
  <2>2. /\ draft'.status = "submitted" /\ draft'.submission = draft.id
        /\ draft'.id = draft.id
    BY <1>5, <2>1, CompletedDraft
  <2>3. Made = {draft.id}
    BY <1>3, <2>1 DEF Made
  <2>4. \A q \in Request : pc'[q] \notin Submitting
    BY <1>1, <1>5 DEF Submitting
  <2>5. draft.status = "active" /\ draft.submission = None
    BY <1>5 DEF CanComplete
  <2>6. Made' = Made
    BY <1>5 DEF Made
  <2>7. Outcome!Complete
    BY <2>2, <2>3, <2>5, <2>6 DEF Outcome!Complete, Made
  <2>8. GivenForGood'
    BY <1>5, <2>1, <2>2, <2>4 DEF GivenForGood
  <2> QED BY <2>7, <2>8 DEF Outcome!Next
<1>6. ASSUME UNCHANGED <<draft, Made>> PROVE GivenForGood' /\ SameOutcome
  BY <1>1, <1>6 DEF GivenForGood, SameOutcome
<1>7. CASE CompleteFound(r) \/ Complete(r)
  <2>1. rows' = rows /\ Made' = Made
    BY <1>7 DEF CompleteFound, Complete, Made
  <2>2. CASE CanComplete(r)
    BY <1>5, <1>7, <2>1, <2>2 DEF CompleteFound, Complete
  <2>3. CASE ~CanComplete(r)
    BY <1>6, <1>7, <2>1, <2>3 DEF CompleteFound, Complete
  <2> QED BY <2>2, <2>3
<1>8. CASE CreateSubmission(r)
  <2>1. mine[r] \in Request /\ mine[r] = draft.id /\ draft' = draft
    BY <1>2, <1>8 DEF CreateSubmission, Submitting, Unnamed
  <2>2. CASE rows[mine[r]] # "absent"
    <3>1. rows' = rows
      BY <1>8, <2>2 DEF CreateSubmission
    <3> QED BY <1>6, <2>1, <3>1 DEF Made
  <2>3. CASE rows[mine[r]] = "absent"
    <3>1. rows' = [rows EXCEPT ![draft.id] = "created"]
      BY <1>8, <2>1, <2>3 DEF CreateSubmission
    <3>2. Made = {} /\ Made' = {draft.id}
      BY <1>3, <2>1, <2>3, <3>1 DEF Made
    <3>3. Outcome!Make
      BY <1>1, <2>1, <3>2 DEF Outcome!Make, Made
    <3>4. GivenForGood'
      BY <1>1, <2>1 DEF GivenForGood
    <3> QED BY <3>3, <3>4 DEF Outcome!Next
  <2> QED BY <2>2, <2>3
<1>9. CASE Record(r) \/ Pipe(r)
  <2>1. draft' = draft
    BY <1>9 DEF Record, Pipe
  <2>2. \A p \in Request : rows'[p] = "absent" <=> rows[p] = "absent"
    BY <1>9 DEF Record, Pipe
  <2>3. Made' = Made
    BY <2>2 DEF Made
  <2> QED BY <1>6, <2>1, <2>3
<1>10. CASE RemoveSubmission(r)
  <2>1. mine[r] \in Request /\ mine[r] = draft.id
    BY <1>2, <1>10 DEF RemoveSubmission, Submitting, Unnamed
  <2>2. draft' = draft /\ rows' = [rows EXCEPT ![draft.id] = "absent"]
    BY <1>1, <1>10, <2>1 DEF RemoveSubmission
  <2>3. Made' = {}
    BY <1>3, <2>1, <2>2 DEF Made
  <2>4. CASE Made = {}
    BY <1>6, <2>2, <2>3, <2>4
  <2>5. CASE Made # {}
    <3>1. Outcome!TakeAway
      BY <1>1, <2>2, <2>3, <2>5 DEF Outcome!TakeAway, Made
    <3>2. GivenForGood'
      BY <1>1, <2>2 DEF GivenForGood
    <3> QED BY <3>1, <3>2 DEF Outcome!Next
  <2> QED BY <2>4, <2>5
<1> QED BY <1>4, <1>7, <1>8, <1>9, <1>10

\* For any number of requests that fail, die or retry, when workers die before
\* their claims are stale: a draft comes to one submission, given once and kept.
THEOREM OneOutcome == ASSUME WorkersTimeOut PROVE Spec => DraftHasOneOutcome
<1>1. Init => GivenForGood /\ Outcome!Init
  <2> SUFFICES ASSUME Init PROVE GivenForGood /\ Outcome!Init
    OBVIOUS
  <2>1. draft.status = "active" /\ draft.id = None /\ draft.submission = None
    BY DEF Init
  <2>2. \A p \in Request : rows[p] = "absent"
    BY DEF Init
  <2> QED BY <2>1, <2>2 DEF GivenForGood, Outcome!Init
<1>2. Inv /\ GivenForGood /\ [Next]_vars => GivenForGood' /\ [Outcome!Next]_(Outcome!vars)
  <2> SUFFICES ASSUME Inv, GivenForGood, [Next]_vars
               PROVE  GivenForGood' /\ (Outcome!Next \/ SameOutcome)
    BY DEF Outcome!vars, SameOutcome, Made
  <2>1. ASSUME NEW r \in Request, RequestStep(r)
        PROVE  GivenForGood' /\ (Outcome!Next \/ SameOutcome)
    BY <2>1, QuietStep, ExpiryStep, SubmitterStep DEF RequestStep, Outcome!Next
  <2>2. CASE Rotate \/ MarkExpired \/ TimePasses \/ ClaimAges \/ UNCHANGED vars
    BY <2>2, ExpiryStep DEF Outcome!Next
  <2> QED BY <2>1, <2>2 DEF Next
<1> QED BY <1>1, <1>2, Inductive, PTL DEF Spec, DraftHasOneOutcome, Outcome!Spec

-----------------------------------------------------------------------------
\* The draft's type alone, which no assumption on the workers is needed for.
DraftTyped == draft \in Draft /\ mine \in [Request -> Request \cup {None}]

LEMMA DraftTypedInvariant == Spec => []DraftTyped
<1>1. Init => DraftTyped
  BY DraftsAssumption DEF Init, DraftTyped, Draft, Status
<1>2. DraftTyped /\ [Next]_vars => DraftTyped'
  <2> SUFFICES ASSUME DraftTyped, [Next]_vars PROVE DraftTyped'
    OBVIOUS
  <2> USE DEF DraftTyped, Draft, Status
  <2>1. ASSUME NEW r \in Request, RequestStep(r) PROVE DraftTyped'
    <3>1. CASE Resolve(r) \/ ResolveOverdue(r) \/ WriteExpired(r) \/ Autosave(r)
      BY <3>1 DEF Resolve, ResolveOverdue, WriteExpired, Autosave
    <3>2. CASE Claim(r) \/ ClaimRefused(r) \/ LoadDraft(r) \/ NameSubmission(r)
      BY <3>2 DEF Claim, ClaimRefused, LoadDraft, NameSubmission
    <3>3. CASE \/ LookForSubmission(r) \/ Invalid(r) \/ CreateSubmission(r)
               \/ Record(r) \/ RecordFails(r) \/ Pipe(r) \/ PipeFails(r) \/ Crash(r)
      BY <3>3 DEF LookForSubmission, Invalid, CreateSubmission, Record,
         RecordFails, Pipe, PipeFails, Crash
    <3>4. CASE CompleteFound(r) \/ Complete(r)
      BY <3>4 DEF CompleteFound, Complete, Completed
    <3>5. CASE RemoveSubmission(r) \/ Release(r)
      BY <3>5 DEF RemoveSubmission, Release
    <3> QED
      BY <2>1, <3>1, <3>2, <3>3, <3>4, <3>5 DEF RequestStep
  <2>2. CASE Rotate
    <3>1. draft.token + 1 \in 0 .. MaxRotations
      BY <2>2, DraftsAssumption DEF Rotate
    <3>2. draft' = [draft EXCEPT !.token = draft.token + 1] /\ UNCHANGED mine
      BY <2>2 DEF Rotate
    <3> QED
      BY <3>1, <3>2
  <2>4. CASE MarkExpired \/ TimePasses \/ ClaimAges
    BY <2>4 DEF MarkExpired, TimePasses, ClaimAges
  <2>3. CASE UNCHANGED vars
    BY <2>3 DEF vars
  <2> QED
    BY <2>1, <2>2, <2>3, <2>4 DEF Next
<1> QED
  BY <1>1, <1>2, PTL DEF Spec

\* Only complete, behind its own test of the status, links a submission.
LEMMA LinkStep ==
  ASSUME DraftTyped, [Next]_vars,
         draft'.submission # draft.submission, draft'.submission # None
  PROVE  draft.status = "active"
<1> USE DEF DraftTyped, Draft
<1>1. ASSUME UNCHANGED draft PROVE FALSE
  BY <1>1
<1>2. ASSUME NEW r \in Request, RequestStep(r) PROVE draft.status = "active"
  <2>1. CASE CompleteFound(r) \/ Complete(r)
    BY <1>1, <2>1 DEF CompleteFound, Complete, CanComplete
  <2>2. CASE RemoveSubmission(r)
    BY <2>2 DEF RemoveSubmission
  <2>3. CASE WriteExpired(r) \/ Autosave(r) \/ Claim(r) \/ NameSubmission(r)
             \/ Release(r)
    BY <2>3 DEF WriteExpired, Autosave, Claim, NameSubmission, Release
  <2>4. CASE \/ Resolve(r) \/ ResolveOverdue(r) \/ ClaimRefused(r) \/ LoadDraft(r)
             \/ LookForSubmission(r) \/ Invalid(r) \/ CreateSubmission(r)
             \/ Record(r) \/ RecordFails(r) \/ Pipe(r) \/ PipeFails(r) \/ Crash(r)
    BY <1>1, <2>4 DEF Resolve, ResolveOverdue, ClaimRefused, LoadDraft,
       LookForSubmission, Invalid, CreateSubmission, Record, RecordFails, Pipe,
       PipeFails, Crash
  <2> QED
    BY <1>2, <2>1, <2>2, <2>3, <2>4 DEF RequestStep
<1>3. CASE Rotate \/ MarkExpired \/ TimePasses \/ ClaimAges
  BY <1>1, <1>3 DEF Rotate, MarkExpired, TimePasses, ClaimAges
<1>4. CASE UNCHANGED vars
  BY <1>1, <1>4 DEF vars
<1> QED
  BY <1>2, <1>3, <1>4 DEF Next

\* A draft that expired or was submitted is never given a submission again,
\* whether or not a worker outlives its claim.
THEOREM LinkedOnlyWhileActive == Spec => LinkedWhileActive
<1>1. DraftTyped /\ [Next]_vars =>
        [draft'.submission # draft.submission /\ draft'.submission # None
           => draft.status = "active"]_vars
  BY LinkStep
<1> QED
  BY <1>1, DraftTypedInvariant, PTL DEF Spec, LinkedWhileActive
=============================================================================
