--------------------------- MODULE DocumentGroup ---------------------------
(* What the operations on a composite document step do to its documents:    *)
(* a declaration, with fields, that the participant signs, and an agreement *)
(* per selected training, which the office may have to countersign.         *)
(*                                                                          *)
(* One operation at a time works on a copy of the step's state under its    *)
(* lease (DocumentLease).  Files, seats and signature fields are committed  *)
(* on their own before the copy is saved, so an operation that dies leaves  *)
(* them behind, and a later start or upload has to make sense of them.      *)
EXTENDS Integers, FiniteSets

CONSTANTS
  Training,      \* the selected trainings, each with an agreement
  Declaration,   \* the document with fields
  Agreement,     \* the collection document
  Scarce,        \* trainings whose last seat somebody else may take
  Countersigned, \* the office signs agreements after the participant
  MaxEdits,      \* bound: different contents of the fields
  MaxFaults      \* bound: operations that fail or die

ASSUME GroupAssumption ==
  /\ Declaration # Agreement
  /\ Training \cap {Declaration, Agreement} = {}
  /\ Scarce \subseteq Training
  /\ Countersigned \in BOOLEAN
  /\ MaxEdits \in Nat /\ MaxFaults \in Nat

VARIABLES
  data,          \* version of the fields in data_json, 0 when never saved
  saved,         \* workflow_documents[step] as last saved
  made,          \* part |-> version its current generated file shows, or None
  signed,        \* part |-> number of its files recorded signed by participant
  countersigned, \* trainings with a file recorded signed by the office
  seats,         \* trainings whose seat the submission has locked
  full,          \* trainings whose other seats are all taken
  valid,         \* parts whose signature the submission row records
  look,          \* signatures as another request has read them
  op,            \* the operation that has the lease
  faults,        \* number of operations that failed
  left           \* the workflow has moved on

vars == <<data, saved, made, signed, countersigned, seats, full, valid, look,
          op, faults, left>>
files == <<made, signed, countersigned>>

Part == {Declaration} \cup Training
Doc == {Declaration, Agreement}
None == -1

State == [confirmed : BOOLEAN,          \* the declaration's data_confirmed
          generated : SUBSET Part,      \* generated_filename
          uploaded : SUBSET Part,       \* uploaded_filename
          done : SUBSET (Part \cup Doc),\* completed, of parts and documents
          finished : BOOLEAN]           \* completed, of the step

Empty == [confirmed |-> FALSE, generated |-> {}, uploaded |-> {}, done |-> {},
          finished |-> FALSE]

Idle == [kind |-> "none", part |-> Declaration, at |-> "begin", docs |-> {},
         copy |-> Empty, seen |-> {}]

Operation == [kind : {"none", "fields", "draft", "start", "generate", "upload",
                      "office", "advance"},
              part : Part, docs : SUBSET Doc, copy : State, seen : SUBSET Part,
              at : {"begin", "seat", "fields", "save"}]

TypeOK ==
  /\ data \in 0..MaxEdits
  /\ saved \in State
  /\ made \in [Part -> {None} \cup 0..MaxEdits]
  /\ signed \in [Part -> Nat]
  /\ countersigned \subseteq Training /\ seats \subseteq Training
  /\ full \subseteq Scarce
  /\ valid \subseteq Part /\ look \subseteq Part
  /\ op \in Operation
  /\ faults \in 0..MaxFaults
  /\ left \in BOOLEAN

Init ==
  /\ data = 0 /\ saved = Empty
  /\ made = [p \in Part |-> None] /\ signed = [p \in Part |-> 0]
  /\ countersigned = {} /\ seats = {} /\ full = {} /\ valid = {} /\ look = {}
  /\ op = Idle /\ faults = 0 /\ left = FALSE

---------------------------------------------------------------------------
\* The lease is free.  A refused operation releases it and changes nothing.
Free == op.kind = "none" /\ ~left

PartsOf(d) == IF d = Agreement THEN Training ELSE {d}
Filed(d) == \E p \in PartsOf(d) :
              made[p] # None \/ signed[p] > 0 \/ p \in countersigned
SignedOf(d) == \E p \in PartsOf(d) : signed[p] > 0 \/ p \in countersigned

\* _group_satisfied
Satisfied(s) == Doc \subseteq s.done

\* The last statement of an operation: save the copy (or complete the step),
\* release, and go on to advance_after_action when the step is complete.
Save(s) ==
  /\ saved' = [s EXCEPT !.finished = Satisfied(s)]
  /\ op' = IF Satisfied(s) THEN [Idle EXCEPT !.kind = "advance"] ELSE Idle

Goto(l) == op' = [op EXCEPT !.at = l]

---------------------------------------------------------------------------
\* save_fields, with "generate" ("fields") or "save" ("draft").
BeginFields(k) ==
  /\ Free
  /\ Declaration \notin saved.done \cup saved.uploaded
  /\ ~(saved.confirmed /\ Declaration \in saved.generated)
  /\ op' = [Idle EXCEPT !.kind = k, !.copy = saved]
  /\ UNCHANGED <<data, saved, files, seats, full, valid, look, faults, left>>

\* With "save" the fields are stored and left unconfirmed.  A file that is there,
\* left by an operation that died, stays and shows what the fields were.
SaveUnconfirmed ==
  /\ op.kind = "draft"
  /\ data' \in {data, data + 1} \cap 0..MaxEdits
  /\ Save([op.copy EXCEPT !.confirmed = FALSE])
  /\ UNCHANGED <<files, seats, full, valid, look, faults, left>>

\* With "generate" they are confirmed: the generated file is retired first, then
\* the fields are saved with the state.
Supersede_Never ==
  /\ op.kind = "fields" /\ op.at = "begin"
  /\ Goto("save")
  /\ UNCHANGED <<data, saved, files, seats, full, valid, look, faults, left>>
Supersede ==
  /\ op.kind = "fields" /\ op.at = "begin"
  /\ made' = [made EXCEPT ![Declaration] = None]
  /\ Goto("save")
  /\ UNCHANGED <<data, saved, signed, countersigned, seats, full, valid, look,
                 faults, left>>

SaveFields ==
  /\ op.kind = "fields" /\ op.at = "save"
  /\ data' \in {data, data + 1} \cap 0..MaxEdits
  /\ Save([op.copy EXCEPT !.confirmed = TRUE, !.generated = @ \ {Declaration}])
  /\ UNCHANGED <<files, seats, full, valid, look, faults, left>>

---------------------------------------------------------------------------
\* _start_group: a document completed without a file is done again.
Recovered(s) ==
  LET lost == {d \in s.done \cap Doc : ~Filed(d)}
  IN  [s EXCEPT !.done = @ \ lost, !.generated = @ \ lost, !.finished = FALSE]

BeginStart ==
  /\ Free /\ ~(saved.finished /\ Satisfied(saved))
  /\ op' = [Idle EXCEPT !.kind = "start", !.docs = Doc,
                        !.copy = Recovered(saved)]
  /\ UNCHANGED <<data, saved, files, seats, full, valid, look, faults, left>>

\* generate_group_document
BeginGenerate(d) ==
  /\ Free /\ ~saved.finished /\ d \notin saved.done
  /\ d = Declaration => saved.confirmed /\ ~SignedOf(d)
  /\ op' = [Idle EXCEPT !.kind = "generate", !.docs = {d}, !.copy = saved]
  /\ UNCHANGED <<data, saved, files, seats, full, valid, look, faults, left>>

\* A start takes a signed file of the document for its upload.
Adopts(d) == op.kind = "start" /\ SignedOf(d)

Renders(d) ==
  /\ d \in op.docs /\ d \notin op.copy.done /\ ~Adopts(d)
  /\ d = Declaration => op.copy.confirmed

Missing == {p \in Part : made[p] = None /\ \E d \in Doc :
                           p \in PartsOf(d) /\ Renders(d)}

RenderFile(p) ==
  /\ op.kind \in {"start", "generate"} /\ p \in Missing
  /\ made' = [made EXCEPT ![p] = data]
  /\ UNCHANGED <<data, saved, signed, countersigned, seats, full, valid, look,
                 op, faults, left>>

\* The item of a document after the operation.
Prepared(s, d) ==
  IF Adopts(d) /\ d \notin s.done
    THEN IF d = Declaration
           THEN [s EXCEPT !.uploaded = @ \cup {d}, !.done = @ \cup {d}]
           ELSE [s EXCEPT !.done = IF Countersigned THEN @ ELSE @ \cup {d}]
    ELSE IF Renders(d) THEN [s EXCEPT !.generated = @ \cup PartsOf(d)] ELSE s

SavePrepared ==
  /\ op.kind \in {"start", "generate"} /\ Missing = {}
  /\ Save(Prepared(Prepared(op.copy, Declaration), Agreement))
  /\ UNCHANGED <<data, files, seats, full, valid, look, faults, left>>

\* Rendering or storing the file fails; documents before it are saved.
RenderFails ==
  /\ op.kind \in {"start", "generate"} /\ Missing # {} /\ faults < MaxFaults
  /\ faults' = faults + 1
  /\ saved' = IF Declaration \in Missing
                THEN [op.copy EXCEPT !.confirmed = FALSE]
                ELSE Prepared(op.copy, Declaration)
  /\ op' = Idle
  /\ UNCHANGED <<data, files, seats, full, valid, look, left>>

---------------------------------------------------------------------------
\* _upload_group.  The row is read before the lease is claimed, so it may be
\* as another request saw it.  A signed file of an earlier attempt is taken
\* again when the same bytes come.
BeginUpload_Again(p) ==
  /\ Free /\ ~saved.finished /\ p \notin saved.done /\ p \in saved.generated
  /\ \E s \in {valid, look} :
       op' = [Idle EXCEPT !.kind = "upload", !.part = p, !.copy = saved, !.seen = s]
  /\ UNCHANGED <<data, saved, files, seats, full, valid, look, faults, left>>
BeginUpload(p) ==
  /\ Free /\ ~saved.finished /\ p \notin saved.done /\ p \in saved.generated
  /\ \E s \in {valid, look} :
       op' = [Idle EXCEPT !.kind = "upload", !.part = p, !.copy = saved,
                          !.seen = s,
                          !.at = IF signed[p] > 0 THEN "save" ELSE "begin"]
  /\ UNCHANGED <<data, saved, files, seats, full, valid, look, faults, left>>

\* The file is stored, verified and recorded as signed.
RecordSigned ==
  /\ op.kind = "upload" /\ op.at = "begin"
  /\ signed' = [signed EXCEPT ![op.part] = @ + 1]
  /\ Goto(IF op.part = Declaration THEN "fields" ELSE "seat")
  /\ UNCHANGED <<data, saved, made, countersigned, seats, full, valid, look,
                 faults, left>>

\* _upload_group for the office: its file must follow the participant's.
BeginOffice(t) ==
  /\ Free /\ Countersigned /\ ~saved.finished
  /\ t \in saved.uploaded \ saved.done
  /\ op' = [Idle EXCEPT !.kind = "office", !.part = t, !.copy = saved]
  /\ UNCHANGED <<data, saved, files, seats, full, valid, look, faults, left>>

RecordCountersigned_NoSeat ==
  /\ op.kind = "office" /\ op.at = "begin"
  /\ countersigned' = countersigned \cup {op.part}
  /\ Goto("save")
  /\ UNCHANGED <<data, saved, made, signed, seats, full, valid, look, faults, left>>
RecordCountersigned ==
  /\ op.kind = "office" /\ op.at = "begin"
  /\ countersigned' = countersigned \cup {op.part}
  /\ Goto("seat")
  /\ UNCHANGED <<data, saved, made, signed, seats, full, valid, look, faults, left>>

\* lock_for_agreement, a transaction of its own; refused when the training is
\* full, by an exception that leaves the recorded file.
LockSeat ==
  /\ op.at = "seat" /\ (op.part \in seats \/ op.part \notin full)
  /\ seats' = seats \cup {op.part}
  /\ Goto(IF op.kind = "upload" THEN "fields" ELSE "save")
  /\ UNCHANGED <<data, saved, files, full, valid, look, faults, left>>

SeatRefused ==
  /\ op.at = "seat" /\ op.part \in full \ seats
  /\ op' = Idle
  /\ UNCHANGED <<data, saved, files, seats, full, valid, look, faults, left>>

\* declaration_signature_valid, or training_agreements written whole from the
\* row that was read.
RecordSignature_ByDocument ==
  /\ op.kind = "upload" /\ op.at = "fields"
  /\ valid' = valid \cup {IF op.part = Declaration THEN op.part ELSE Agreement}
  /\ Goto("save")
  /\ UNCHANGED <<data, saved, files, seats, full, look, faults, left>>
RecordSignature ==
  /\ op.kind = "upload" /\ op.at = "fields"
  /\ valid' = IF op.part = Declaration THEN valid \cup {Declaration}
              ELSE (valid \cap {Declaration}) \cup (op.seen \cap Training)
                   \cup {op.part}
  /\ Goto("save")
  /\ UNCHANGED <<data, saved, files, seats, full, look, faults, left>>

\* The part is accepted by its last signer, its document with its last part.
Accepted(s) ==
  LET p == op.part
      waits == Countersigned /\ p # Declaration /\ op.kind = "upload"
      parts == IF waits THEN s.done ELSE s.done \cup {p}
      done == IF p = Declaration THEN parts
              ELSE IF Training \subseteq parts THEN parts \cup {Agreement}
                                               ELSE parts \ {Agreement}
  IN  [s EXCEPT !.uploaded = @ \cup {p}, !.done = done]

SaveUpload ==
  /\ op.kind \in {"upload", "office"} /\ op.at = "save"
  /\ Save(Accepted(op.copy))
  /\ UNCHANGED <<data, files, seats, full, valid, look, faults, left>>

---------------------------------------------------------------------------
\* advance_after_action, or a start that finds the step complete.
Advance_Once ==
  /\ op.kind = "advance"
  /\ left' = TRUE /\ op' = Idle
  /\ UNCHANGED <<data, saved, files, seats, full, valid, look, faults>>
Advance ==
  /\ op.kind = "advance" \/ (Free /\ saved.finished /\ Satisfied(saved))
  /\ left' = TRUE /\ op' = Idle
  /\ UNCHANGED <<data, saved, files, seats, full, valid, look, faults>>

\* The worker dies, the storage fails or the signature is rejected.
Fail ==
  /\ op.kind # "none" /\ faults < MaxFaults
  /\ faults' = faults + 1
  /\ op' = Idle
  /\ UNCHANGED <<data, saved, files, seats, full, valid, look, left>>

\* Another request reads the row; somebody else takes the last seat.
Look ==
  /\ look # valid /\ look' = valid
  /\ UNCHANGED <<data, saved, files, seats, full, valid, op, faults, left>>

TakeLast(t) ==
  /\ t \in Scarce \ full
  /\ full' = full \cup {t}
  /\ UNCHANGED <<data, saved, files, seats, valid, look, op, faults, left>>

OpStep ==
  \/ SaveUnconfirmed \/ Supersede \/ SaveFields
  \/ \E p \in Part : RenderFile(p)
  \/ SavePrepared \/ RecordSigned \/ RecordCountersigned \/ LockSeat
  \/ RecordSignature \/ SaveUpload \/ Advance

Next ==
  \/ (\E k \in {"fields", "draft"} : BeginFields(k)) \/ BeginStart \/ OpStep
  \/ \E d \in Doc : BeginGenerate(d)
  \/ \E p \in Part : BeginUpload(p)
  \/ \E t \in Training : BeginOffice(t) \/ TakeLast(t)
  \/ RenderFails \/ SeatRefused \/ Fail \/ Look

\* An operation that runs goes on; the participant and the office come back
\* to do what is left, as often as it takes.  A participant who keeps saving the
\* fields confirms them in the end, and the request that did goes on to a start
\* (run_automatic_steps), which another save does not forestall every time.
Fairness ==
  /\ WF_vars(OpStep)
  /\ SF_vars(BeginFields("fields")) /\ SF_vars(saved.confirmed /\ BeginStart)
  /\ \A p \in Part : SF_vars(BeginUpload(p))
  /\ \A t \in Training : SF_vars(BeginOffice(t))

Spec == Init /\ [][Next]_vars
FairSpec == Spec /\ Fairness

---------------------------------------------------------------------------
(* Properties. *)

\* However often an upload is repeated after a crash, a part has one file
\* signed by the participant.
SignedOnce == \A p \in Part : signed[p] <= 1

\* What the participant confirms is what is signed.  Fields may be saved without
\* being confirmed while a file of an operation that died still shows the old
\* ones; but a file that is there when they are confirmed, which the next start
\* takes over, shows them, and so does the file that is offered, up to its
\* signature and after it.
DraftIsCurrent ==
  /\ saved.confirmed => made[Declaration] \in {None, data}
  /\ Declaration \in saved.generated \/ signed[Declaration] > 0
       => made[Declaration] = data

\* An agreement the office accepted, by whatever recovery, has its seat and
\* both signed files.
CountersignedHasSeat ==
  \A t \in Training : t \in saved.done =>
    t \in seats /\ t \in countersigned /\ signed[t] > 0

\* Through every failure and recovery a part is signed by the participant first,
\* then countersigned and given its seat, then accepted for good; the workflow
\* leaves with the parts it waits for accepted, and then nothing changes.
Signatures == INSTANCE StepSignatures WITH
  signed <- {p \in Part : signed[p] > 0}, accepted <- saved.done \cap Part,
  open <- ~left
SignedInTurn == Signatures!Spec

\* A step does not wedge: whatever a bounded number of failures left behind,
\* participant and office can finish it, unless the seat of an agreement went
\* to somebody else.
StepCompletes == <>(left \/ full \ seats # {})

\* Why it does not: between two operations the step is complete, or the
\* participant can save the fields, or upload a file that is offered and was not
\* uploaded, or the office can sign one that was, or a start renders the
\* agreements, none of which is signed.
NeverWedged ==
  op.kind = "none" /\ ~left =>
    \/ Satisfied(saved)
    \/ /\ Declaration \notin saved.done \cup saved.uploaded
       /\ ~(saved.confirmed /\ Declaration \in saved.generated)
    \/ /\ ~saved.finished
       /\ \/ \E p \in Part : p \in saved.generated \ (saved.done \cup saved.uploaded)
          \/ Countersigned /\ \E t \in Training : t \in saved.uploaded \ saved.done
          \/ Agreement \notin saved.done /\ ~SignedOf(Agreement)

\* "assert len(trainings) == 2 and all(t.is_locked for t in trainings)": a step
\* whose agreements are accepted has their seats.
FinishedHasSeats == saved.finished => Training \subseteq seats

\* The agreement is complete when every training's agreement is.
AgreementNeedsAll == Agreement \in saved.done => Training \subseteq saved.done
=============================================================================
