--------------------------- MODULE TrainingSeats ---------------------------
(* Seats of one training of one form.                                       *)
(*                                                                          *)
(* A submission that chose the training has a SubmissionTraining row.  The  *)
(* row takes a seat when the signed agreement is uploaded: the request      *)
(* locks the Form row, counts the seats other submissions hold, compares    *)
(* the count with the capacity in the row's own snapshot and commits.  The  *)
(* same facts live a second time in the submission's JSON columns           *)
(* (selected_trainings, training_agreements); synchronize_legacy copies     *)
(* them into the rows, without a count.                                     *)
(*                                                                          *)
(* Trainings of a form are independent but for the price limit and the      *)
(* selection groups, which can only refuse a save; one is modelled.         *)
EXTENDS Integers, FiniteSets

CONSTANTS
  Submission,   \* submissions to the form
  MaxSeats,     \* bound on the capacity the catalogue may state
  Composite,    \* submissions whose form version has a composite document step
  Nobody        \* nobody holds the Form row

ASSUME SeatsAssumption ==
  /\ IsFiniteSet(Submission)
  /\ MaxSeats \in Nat
  /\ Composite \subseteq Submission
  /\ Nobody \notin Submission

NoLimit == -1                     \* capacity None or ""
Capacity == (0 .. MaxSeats) \cup {NoLimit}

Status == {"none", "selected", "generated", "waiting", "uploaded",
           "unselected", "cancelled"}
ACTIVE_STATUSES == {"selected", "generated", "waiting", "uploaded"}
LOCKING_STATUSES == {"uploaded"}  \* uploaded, waiting for or signed by office
Row == [status : Status, is_locked : BOOLEAN,
        locked_by_event : {"", "upload", "legacy"}, capacity : Capacity,
        office_file : {"none", "due", "found"}]

VARIABLES
  row,        \* SubmissionTraining; .capacity is the snapshot taken at choice,
              \* .office_file is "due" from agreement_file_id on until the office's
              \* copy has a SubmissionFile
  chosen,     \* the training is in the submission's selected_trainings JSON
  agreement,  \* its entry in the submission's training_agreements JSON
  catalog,    \* capacity in the form's current catalogue
  formLock,   \* the upload that holds the Form row FOR UPDATE
  upload,     \* progress of the submission's signed agreement upload
  seenLocked  \* is_locked as the upload's session loaded it (composite step)

vars == <<row, chosen, agreement, catalog, formLock, upload, seenLocked>>

TypeOK ==
  /\ row \in [Submission -> Row]
  /\ chosen \in [Submission -> BOOLEAN]
  /\ agreement \in [Submission -> {"none", "generated", "signed"}]
  /\ catalog \in Capacity
  /\ formLock \in Submission \cup {Nobody}
  /\ upload \in [Submission -> {"idle", "verified", "counted", "locked"}]
  /\ seenLocked \in [Submission -> BOOLEAN]

Active(r) == r.status \in ACTIVE_STATUSES \/ r.is_locked
Occupies(r) == r.is_locked \/ r.status \in LOCKING_STATUSES
Holders == {s \in Submission : Occupies(row[s])}
FreeFor(s, capacity) ==
  capacity = NoLimit \/ Cardinality(Holders \ {s}) < capacity

\* The row after synchronize_legacy: a chosen training gets its row, and an
\* agreement the JSON calls signed locks it, without counting seats.
Synchronized(s) ==
  LET r == IF row[s].status = "none" /\ chosen[s]
             THEN [row[s] EXCEPT !.status = "selected"] ELSE row[s]
  IN IF r.status # "none" /\ agreement[s] = "signed" /\ ~r.is_locked
       THEN [r EXCEPT !.status = "uploaded", !.is_locked = TRUE,
                      !.locked_by_event = "legacy"]
       ELSE r

\* A submission may arrive with the training chosen in the form itself: the
\* JSON names it, which needed a free seat, and the row does not exist yet.
Init ==
  /\ catalog \in Capacity
  /\ chosen \in [Submission -> BOOLEAN]
  /\ \A s \in Submission : chosen[s] => catalog # 0
  /\ row = [s \in Submission |-> [status |-> "none", is_locked |-> FALSE,
                                  locked_by_event |-> "", capacity |-> catalog,
                                  office_file |-> "none"]]
  /\ agreement = [s \in Submission |-> "none"]
  /\ formLock = Nobody
  /\ upload = [s \in Submission |-> "idle"]
  /\ seenLocked = [s \in Submission |-> FALSE]

(* ---- the participant's choice ------------------------------------------- *)

\* The row after save: a wanted training is added or chosen again, an unwanted
\* one is kept as history; a protected row is left as it is.
Saved(r, wanted) ==
  IF Occupies(r) THEN r
  ELSE CASE wanted /\ r.status = "none" ->
              [r EXCEPT !.status = "selected", !.capacity = catalog]
         [] wanted /\ r.status \in {"cancelled", "unselected"} ->
              [r EXCEPT !.status = "selected"]
         [] ~wanted /\ r.status # "none" -> [r EXCEPT !.status = "unselected"]
         [] OTHER -> r

\* POST .../trainings, in one transaction under the Form and submission locks.
\* A refused save (protected row dropped, no seat, document being processed)
\* rolls everything back.
SaveSelection(s, wanted) ==
  LET before == Synchronized(s)
      after == Saved(before, wanted)
  IN /\ formLock = Nobody
     /\ Occupies(before) => wanted
     /\ wanted /\ ~Occupies(before) => FreeFor(s, catalog)
     /\ s \in Composite /\ upload[s] # "idle" => Active(after) = chosen[s]
     /\ row' = [row EXCEPT ![s] = after]
     /\ chosen' = [chosen EXCEPT ![s] = Active(after)]
     /\ UNCHANGED <<agreement, catalog, formLock, upload, seenLocked>>

\* A page that lists the agreements synchronizes the rows and commits.
ViewDocuments(s) ==
  /\ Synchronized(s) # row[s]
  /\ row' = [row EXCEPT ![s] = Synchronized(s)]
  /\ UNCHANGED <<chosen, agreement, catalog, formLock, upload, seenLocked>>

(* ---- the agreement before its signature ---------------------------------- *)

\* Writes the agreement into the JSON; the rows are not touched.
GenerateAgreement(s) ==
  /\ chosen[s]
  /\ agreement[s] = "none"
  /\ agreement' = [agreement EXCEPT ![s] = "generated"]
  /\ UNCHANGED <<row, chosen, catalog, formLock, upload, seenLocked>>

\* The route's second transaction after the generation.
AssociateGenerated(s) ==
  LET r == Synchronized(s)
  IN /\ s \notin Composite
     /\ agreement[s] # "none"
     /\ row' = [row EXCEPT ![s] =
          IF ~r.is_locked /\ r.status = "selected"
            THEN [r EXCEPT !.status = "generated"] ELSE r]
     /\ UNCHANGED <<chosen, agreement, catalog, formLock, upload, seenLocked>>

DownloadAgreement_FreesLock(s) ==
  /\ agreement[s] # "none"
  /\ row[s].status \notin {"none", "waiting"}
  /\ row' = [row EXCEPT ![s] = [@ EXCEPT !.status = "waiting",
                                        !.is_locked = FALSE]]
  /\ UNCHANGED <<chosen, agreement, catalog, formLock, upload, seenLocked>>
DownloadAgreement(s) ==
  LET r == Synchronized(s)
  IN /\ agreement[s] # "none"
     /\ r.status \notin {"none", "waiting"}
     /\ ~Occupies(r)
     /\ row' = [row EXCEPT ![s] = [r EXCEPT !.status = "waiting"]]
     /\ UNCHANGED <<chosen, agreement, catalog, formLock, upload, seenLocked>>

(* ---- the upload of the signed agreement ----------------------------------- *)

\* Outside composite steps the JSON calls the agreement signed in a transaction
\* of its own, before any seat is asked for.
UploadSigned(s) ==
  /\ s \notin Composite
  /\ upload[s] = "idle"
  /\ agreement[s] # "none"
  /\ agreement' = [agreement EXCEPT ![s] = "signed"]
  /\ upload' = [upload EXCEPT ![s] = "verified"]
  /\ UNCHANGED <<row, chosen, catalog, formLock, seenLocked>>

\* In a composite step the session synchronizes, and so loads, the row first.
LoadSigned(s) ==
  /\ s \in Composite
  /\ upload[s] = "idle"
  /\ agreement[s] # "none"
  /\ upload' = [upload EXCEPT ![s] = "verified"]
  /\ seenLocked' = [seenLocked EXCEPT ![s] = Synchronized(s).is_locked]
  /\ UNCHANGED <<row, chosen, agreement, catalog, formLock>>

AlreadyLocked(s) == IF s \in Composite THEN seenLocked[s] ELSE row[s].is_locked

\* lock_for_agreement, the row already locked: nothing to count.
LockAgain(s) ==
  /\ upload[s] = "verified"
  /\ formLock = Nobody
  /\ AlreadyLocked(s)
  /\ row' = [row EXCEPT ![s] = IF s \in Composite THEN Synchronized(s) ELSE row[s]]
  /\ upload' = [upload EXCEPT ![s] = IF s \in Composite THEN "locked" ELSE "idle"]
  /\ UNCHANGED <<chosen, agreement, catalog, formLock, seenLocked>>

\* lock_for_agreement up to the count, under the Form lock.
CountSeats_Unlocked(s) ==
  /\ upload[s] = "verified"
  /\ ~AlreadyLocked(s)
  /\ FreeFor(s, row[s].capacity)
  /\ formLock' = formLock
  /\ upload' = [upload EXCEPT ![s] = "counted"]
  /\ UNCHANGED <<row, chosen, agreement, catalog, seenLocked>>
CountSeats(s) ==
  /\ upload[s] = "verified"
  /\ formLock = Nobody
  /\ ~AlreadyLocked(s)
  /\ FreeFor(s, row[s].capacity)
  /\ formLock' = s
  /\ upload' = [upload EXCEPT ![s] = "counted"]
  /\ UNCHANGED <<row, chosen, agreement, catalog, seenLocked>>

\* No seat: roll back, mark the file rejected_no_capacity.  The JSON stays.
RefuseSeat(s) ==
  /\ upload[s] = "verified"
  /\ formLock = Nobody
  /\ ~AlreadyLocked(s)
  /\ ~FreeFor(s, row[s].capacity)
  /\ upload' = [upload EXCEPT ![s] = "idle"]
  /\ UNCHANGED <<row, chosen, agreement, catalog, formLock, seenLocked>>

FileDue(office_file) == IF office_file = "none" THEN "due" ELSE office_file
LockSeat_LatestCapacity(s) ==
  /\ upload[s] = "counted"
  /\ row' = [row EXCEPT ![s] =
       [@ EXCEPT !.status = "uploaded", !.is_locked = TRUE,
                 !.locked_by_event = "upload", !.capacity = catalog,
                 !.office_file = FileDue(row[s].office_file)]]
  /\ formLock' = Nobody
  /\ upload' = [upload EXCEPT ![s] = "locked"]
  /\ UNCHANGED <<chosen, agreement, catalog, seenLocked>>
\* The rest of lock_for_agreement and the commit that releases the Form row.
LockSeat(s) ==
  /\ upload[s] = "counted"
  /\ row' = [row EXCEPT ![s] =
       [@ EXCEPT !.status = "uploaded", !.is_locked = TRUE,
                 !.locked_by_event = "upload",
                 !.office_file = FileDue(row[s].office_file)]]
  /\ formLock' = Nobody
  /\ upload' = [upload EXCEPT ![s] = IF s \in Composite THEN "locked" ELSE "idle"]
  /\ UNCHANGED <<chosen, agreement, catalog, seenLocked>>

\* A composite step writes the JSON last, in its own transaction.
WriteSigned(s) ==
  /\ upload[s] = "locked"
  /\ agreement' = [agreement EXCEPT ![s] = "signed"]
  /\ upload' = [upload EXCEPT ![s] = "idle"]
  /\ UNCHANGED <<row, chosen, catalog, formLock, seenLocked>>

\* The worker dies: its open transaction is rolled back.
Crash(s) ==
  /\ upload[s] # "idle"
  /\ upload' = [upload EXCEPT ![s] = "idle"]
  /\ formLock' = IF formLock = s THEN Nobody ELSE formLock
  /\ UNCHANGED <<row, chosen, agreement, catalog, seenLocked>>

(* ---- the office ------------------------------------------------------------ *)

\* Row and files are cancelled; the JSON columns are not.  No Form lock.
CancelParticipation_Removed(s) ==
  /\ row[s].status # "none"
  /\ row' = [row EXCEPT ![s] =
       [@ EXCEPT !.status = "removed", !.is_locked = FALSE]]
  /\ UNCHANGED <<chosen, agreement, catalog, formLock, upload, seenLocked>>
CancelParticipation(s) ==
  /\ row[s].status # "none"
  /\ row' = [row EXCEPT ![s] =
       [@ EXCEPT !.status = "cancelled", !.is_locked = FALSE]]
  /\ UNCHANGED <<chosen, agreement, catalog, formLock, upload, seenLocked>>

\* The office rejects the signed agreement or asks for a correction of it.
RejectAgreement(s) ==
  /\ agreement[s] = "signed"
  /\ agreement' = [agreement EXCEPT ![s] = "generated"]
  /\ UNCHANGED <<row, chosen, catalog, formLock, upload, seenLocked>>

\* The office looks for its copy of the agreement in the folder.  A cancelled
\* row has its agreement_file_id still, and so gets its seat back, uncounted.
\* A document step refuses the check; where a submission is is not modelled.
CheckFolder(s) ==
  /\ \/ row[s].office_file = "due"
     \/ row[s].office_file = "none" /\ Occupies(row[s])
  /\ row' = [row EXCEPT ![s] =
       [@ EXCEPT !.status = "uploaded", !.office_file = "found"]]
  /\ UNCHANGED <<chosen, agreement, catalog, formLock, upload, seenLocked>>

\* The catalogue is edited under the Form lock; snapshots keep their capacity.
ChangeCapacity ==
  /\ formLock = Nobody
  /\ catalog' \in Capacity \ {catalog}
  /\ UNCHANGED <<row, chosen, agreement, formLock, upload, seenLocked>>

Next ==
  \/ ChangeCapacity
  \/ \E s \in Submission :
       \/ \E wanted \in BOOLEAN : SaveSelection(s, wanted)
       \/ ViewDocuments(s)
       \/ GenerateAgreement(s)
       \/ AssociateGenerated(s)
       \/ DownloadAgreement(s)
       \/ UploadSigned(s)
       \/ LoadSigned(s)
       \/ LockAgain(s)
       \/ CountSeats(s)
       \/ RefuseSeat(s)
       \/ LockSeat(s)
       \/ WriteSigned(s)
       \/ Crash(s)
       \/ CancelParticipation(s)
       \/ RejectAgreement(s)
       \/ CheckFolder(s)

Spec == Init /\ [][Next]_vars

(* ---- properties -------------------------------------------------------------- *)

\* The seats lock_for_agreement granted and nobody cancelled since.
Granted == {s \in Submission :
              row[s].is_locked /\ row[s].locked_by_event = "upload"}

Fits(S, capacity) == capacity = NoLimit \/ Cardinality(S) <= capacity

\* Seats granted by lock_for_agreement never exceed the capacity they were
\* granted under: any group of granted seats has a member (the one granted
\* last) whose snapshot has room for the whole group.  Snapshots differ when
\* the catalogue was edited between the choices, so no single number bounds
\* the count.
GrantsFitCapacity ==
  \A S \in SUBSET Granted : S # {} => \E s \in S : Fits(S, row[s].capacity)

\* Between the count and the commit the seat that was counted stays free of
\* every other grant, whoever views, cancels, edits or crashes meanwhile.
CountedSeatKept ==
  \A s \in Submission : upload[s] = "counted" =>
    \/ row[s].capacity = NoLimit
    \/ Cardinality(Granted \ {s}) < row[s].capacity

\* Counts, locks, retries, cancellations and edits that overlap grant seats as a
\* pool does that looks at all of them and gives one in a single step, under the
\* snapshot the count used and the row keeps.
Pool == INSTANCE SeatPool WITH
  Participant <- Submission,
  granted <- Granted,
  terms <- [s \in Submission |-> row[s].capacity]
GrantsAreAPool == Pool!Spec

\* A seat is given back by cancel_participation only: no save, rejection,
\* crash or repeated upload drops a locked row.
OnlyCancellationFreesSeat ==
  [][\A s \in Submission : Occupies(row[s]) /\ ~Occupies(row'[s])
       => row'[s].status = "cancelled"]_vars

\* docs/P3_OPERATIONS.md: of many uploads for the last seats exactly as many
\* succeed as there are seats.
NoOverbooking == Holders # {} => \E s \in Holders : Fits(Holders, row[s].capacity)
=============================================================================
