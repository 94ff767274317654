------------------------ MODULE DocumentGroup_proofs ------------------------
(* Proofs about DocumentGroup.  An operation commits its file, its seat and *)
(* its state one after another and may die in between, so the invariant     *)
(* says how far the running operation has come, and what stands behind the  *)
(* documents that a state, saved or in work, calls uploaded or done.        *)
EXTENDS DocumentGroup, TLAPS

\* How far the running operation has come, read off the place it has reached.
UploadProgress ==
  op.kind = "upload" =>
    IF op.at = "begin" THEN signed[op.part] = 0 ELSE signed[op.part] > 0

OfficeProgress ==
  op.kind = "office" =>
    /\ op.part \in Training
    /\ signed[op.part] > 0
    /\ op.at # "begin" => op.part \in countersigned
    /\ op.at \notin {"begin", "seat"} => op.part \in seats

FieldsProgress ==
  op.kind = "fields" /\ op.at = "save" => made[Declaration] = None

SeatProgress ==
  op.at = "seat" => op.kind \in {"upload", "office"} /\ op.part \in Training

Progress ==
  UploadProgress /\ OfficeProgress /\ FieldsProgress /\ SeatProgress

\* The files and seats behind what a state of the step claims.
Backed(s, files_signed, files_office, locked) ==
  \A t \in Training :
    /\ t \in s.uploaded => files_signed[t] > 0
    /\ Countersigned /\ t \in s.done =>
         files_signed[t] > 0 /\ t \in files_office /\ t \in locked

StatesBacked ==
  /\ Backed(saved, signed, countersigned, seats)
  /\ Backed(op.copy, signed, countersigned, seats)

Inv == TypeOK /\ SignedOnce /\ Progress /\ StatesBacked

USE GroupAssumption

-----------------------------------------------------------------------------
\* Records of the model, field by field.
LEMMA IdleType == Idle \in Operation /\ Idle.copy = Empty /\ Idle.at = "begin"
<1>1. Empty \in State
  BY DEF Empty, State
<1> QED BY <1>1 DEF Idle, Operation, Part

LEMMA InitHolds == Init => Inv
<1> SUFFICES ASSUME Init PROVE Inv
  OBVIOUS
<1>1. op.kind = "none" /\ op.at = "begin" /\ op.copy = Empty /\ op \in Operation
  BY IdleType DEF Init, Idle
<1>2. TypeOK
  <2>1. saved \in State
    BY DEF Init, Empty, State
  <2>2. made \in [Part -> {None} \cup 0..MaxEdits]
    BY DEF Init
  <2>3. signed \in [Part -> Nat]
    BY DEF Init
  <2>4. data \in 0..MaxEdits /\ faults \in 0..MaxFaults /\ left \in BOOLEAN
    <3>1. data = 0 /\ faults = 0
      BY Zenon DEF Init
    <3>2. MaxEdits \in Nat /\ MaxFaults \in Nat
      OBVIOUS
    <3>3. data \in 0..MaxEdits /\ faults \in 0..MaxFaults
      BY <3>1, <3>2
    <3>4. left \in BOOLEAN
      BY Zenon DEF Init
    <3> QED BY <3>3, <3>4
  <2>5. /\ countersigned \subseteq Training /\ seats \subseteq Training
        /\ full \subseteq Scarce
        /\ valid \subseteq Part /\ look \subseteq Part
    BY DEF Init
  <2> QED BY <1>1, <2>1, <2>2, <2>3, <2>4, <2>5 DEF TypeOK
<1>3. StatesBacked
  BY <1>1 DEF Init, StatesBacked, Backed, Empty
<1>4. Progress /\ SignedOnce
  BY <1>1 DEF Init, Progress, UploadProgress, OfficeProgress, FieldsProgress,
     SeatProgress, SignedOnce, Part
<1> QED BY <1>2, <1>3, <1>4 DEF Inv

\* The place is all that Goto changes.
LEMMA GotoOnly ==
  ASSUME TypeOK, NEW l \in {"begin", "seat", "fields", "save"}, Goto(l)
  PROVE  /\ op' \in Operation /\ op'.at = l
         /\ op'.kind = op.kind /\ op'.part = op.part /\ op'.copy = op.copy
BY DEF TypeOK, Goto, Operation

\* More files and seats do not take away what stands behind a state.
LEMMA BackedGrows ==
  ASSUME NEW s \in State, NEW f1 \in [Part -> Nat], NEW f2 \in [Part -> Nat],
         NEW o1, NEW o2, NEW l1, NEW l2,
         \A p \in Part : f1[p] <= f2[p], o1 \subseteq o2, l1 \subseteq l2,
         Backed(s, f1, o1, l1)
  PROVE  Backed(s, f2, o2, l2)
<1> SUFFICES ASSUME NEW t \in Training
             PROVE  /\ t \in s.uploaded => f2[t] > 0
                    /\ Countersigned /\ t \in s.done =>
                         f2[t] > 0 /\ t \in o2 /\ t \in l2
  BY DEF Backed
<1>1. t \in Part
  BY DEF Part
<1>2. f1[t] > 0 => f2[t] > 0
  BY <1>1
<1> QED BY <1>2 DEF Backed

\* What is left to show of a step: the types, how far the operation is, and
\* what stands behind a state that was written.
LEMMA Assemble ==
  ASSUME Inv, TypeOK', SignedOnce', Progress',
         \A p \in Part : signed[p] <= signed'[p],
         countersigned \subseteq countersigned', seats \subseteq seats',
         saved' = saved \/ Backed(saved', signed', countersigned', seats'),
         op'.copy = op.copy
           \/ Backed(op'.copy, signed', countersigned', seats')
  PROVE  Inv'
<1>1. /\ saved \in State /\ op.copy \in State
      /\ signed \in [Part -> Nat] /\ signed' \in [Part -> Nat]
  BY DEF Inv, TypeOK, Operation
<1>2. Backed(saved, signed', countersigned', seats')
  BY <1>1, BackedGrows DEF Inv, StatesBacked
<1>3. Backed(op.copy, signed', countersigned', seats')
  BY <1>1, BackedGrows DEF Inv, StatesBacked
<1>4. StatesBacked'
  BY <1>2, <1>3 DEF StatesBacked
<1> QED BY <1>4 DEF Inv

\* A step that changes the operation only.
LEMMA OperationOnly ==
  ASSUME Inv, op' \in Operation, Progress',
         UNCHANGED <<data, saved, files, seats, full, valid, look>>,
         faults' \in 0..MaxFaults, left' \in BOOLEAN,
         op'.copy = op.copy \/ Backed(op'.copy, signed, countersigned, seats)
  PROVE  Inv'
<1>1. TypeOK'
  <2>1. /\ data' \in 0..MaxEdits /\ saved' \in State
        /\ made' \in [Part -> {None} \cup 0..MaxEdits]
        /\ signed' \in [Part -> Nat]
    BY DEF Inv, TypeOK, files
  <2>2. /\ countersigned' \subseteq Training /\ seats' \subseteq Training
        /\ full' \subseteq Scarce /\ valid' \subseteq Part /\ look' \subseteq Part
    BY DEF Inv, TypeOK, files
  <2> QED BY <2>1, <2>2 DEF TypeOK
<1>2. SignedOnce'
  BY DEF Inv, SignedOnce, files
<1>3. \A p \in Part : signed[p] <= signed'[p]
  BY DEF Inv, TypeOK, files
<1> QED BY <1>1, <1>2, <1>3, Assemble DEF files

\* An operation that has just begun has done nothing.
LEMMA Begun ==
  ASSUME op'.at = "begin", op'.kind \notin {"upload", "office"}
  PROVE  Progress'
BY DEF Progress, UploadProgress, OfficeProgress, FieldsProgress, SeatProgress

\* What a start does to the state it has loaded keeps what stands behind it.
LEMMA RecoveredBacked ==
  ASSUME TypeOK, NEW s \in State, Backed(s, signed, countersigned, seats)
  PROVE  /\ Recovered(s) \in State
         /\ Backed(Recovered(s), signed, countersigned, seats)
<1>1. /\ Recovered(s) \in State
      /\ Recovered(s).uploaded = s.uploaded
      /\ Recovered(s).done \subseteq s.done
  BY DEF Recovered, State
<1> QED BY <1>1 DEF Backed

LEMMA BeginStep ==
  ASSUME Inv,
         \/ (\E k \in {"fields", "draft"} : BeginFields(k))
         \/ BeginStart \/ (\E d \in Doc : BeginGenerate(d))
         \/ (\E p \in Part : BeginUpload(p))
         \/ (\E t \in Training : BeginOffice(t))
  PROVE  Inv'
<1>1. /\ saved \in State /\ Backed(saved, signed, countersigned, seats)
      /\ faults \in 0..MaxFaults /\ left \in BOOLEAN /\ signed \in [Part -> Nat]
      /\ valid \subseteq Part /\ look \subseteq Part
  BY DEF Inv, TypeOK, StatesBacked
<1>2. Idle \in Operation /\ Idle.at = "begin"
  BY IdleType
<1>3. ASSUME NEW k \in {"fields", "draft"}, BeginFields(k) PROVE Inv'
  <2>1. /\ op' \in Operation /\ op'.copy = saved /\ op'.at = "begin"
        /\ op'.kind = k
    BY <1>1, <1>2, <1>3 DEF BeginFields, Operation
  <2>2. Progress'
    BY <2>1, Begun
  <2> QED BY <1>1, <1>3, <2>1, <2>2, OperationOnly DEF BeginFields
<1>4. CASE BeginStart
  <2>1. Recovered(saved) \in State
    BY <1>1, RecoveredBacked DEF Inv
  <2>2. /\ op' \in Operation /\ op'.copy = Recovered(saved) /\ op'.at = "begin"
        /\ op'.kind = "start"
    BY <1>2, <1>4, <2>1 DEF BeginStart, Operation
  <2>3. Progress'
    BY <2>2, Begun
  <2>4. Backed(op'.copy, signed, countersigned, seats)
    BY <1>1, <2>2, RecoveredBacked DEF Inv
  <2> QED BY <1>1, <1>4, <2>2, <2>3, <2>4, OperationOnly DEF BeginStart
<1>5. ASSUME NEW d \in Doc, BeginGenerate(d) PROVE Inv'
  <2>1. /\ op' \in Operation /\ op'.copy = saved /\ op'.at = "begin"
        /\ op'.kind = "generate"
    BY <1>1, <1>2, <1>5 DEF BeginGenerate, Operation
  <2>2. Progress'
    BY <2>1, Begun
  <2> QED BY <1>1, <1>5, <2>1, <2>2, OperationOnly DEF BeginGenerate
<1>6. ASSUME NEW p \in Part, BeginUpload(p) PROVE Inv'
  <2>1. /\ op' \in Operation /\ op'.copy = saved /\ op'.part = p
        /\ op'.at = (IF signed[p] > 0 THEN "save" ELSE "begin")
        /\ op'.kind = "upload"
    <3>1. PICK s \in {valid, look} :
            op' = [Idle EXCEPT !.kind = "upload", !.part = p, !.copy = saved,
                               !.seen = s,
                               !.at = IF signed[p] > 0 THEN "save" ELSE "begin"]
      BY <1>6 DEF BeginUpload
    <3>2. s \in SUBSET Part
      BY <1>1
    <3> DEFINE place == IF signed[p] > 0 THEN "save" ELSE "begin"
    <3>3. place \in {"begin", "save"}
      OBVIOUS
    <3>4. op' = [Idle EXCEPT !.kind = "upload", !.part = p, !.copy = saved,
                             !.seen = s, !.at = place]
      BY <3>1
    <3> HIDE DEF place
    <3>5. op' \in Operation /\ op'.copy = saved /\ op'.part = p
          /\ op'.at = place /\ op'.kind = "upload"
      BY <1>1, <1>2, <3>2, <3>3, <3>4 DEF Operation
    <3> QED BY <3>5 DEF place
  <2>2. signed' = signed /\ signed[p] \in Nat
    BY <1>1, <1>6 DEF BeginUpload, files
  <2>3. Progress'
    BY <2>1, <2>2 DEF Progress, UploadProgress, OfficeProgress, FieldsProgress,
       SeatProgress
  <2> QED BY <1>1, <1>6, <2>1, <2>3, OperationOnly DEF BeginUpload
<1>7. ASSUME NEW t \in Training, BeginOffice(t) PROVE Inv'
  <2>1. t \in Part /\ t \in saved.uploaded /\ signed' = signed
    BY <1>7 DEF BeginOffice, Part, files
  <2>2. signed[t] > 0
    BY <1>1, <2>1 DEF Backed
  <2>3. /\ op' \in Operation /\ op'.copy = saved /\ op'.at = "begin"
        /\ op'.part = t /\ op'.kind = "office"
    BY <1>1, <1>2, <1>7, <2>1 DEF BeginOffice, Operation
  <2>4. Progress'
    BY <2>1, <2>2, <2>3 DEF Progress, UploadProgress, OfficeProgress,
       FieldsProgress, SeatProgress
  <2> QED BY <1>1, <1>7, <2>3, <2>4, OperationOnly DEF BeginOffice
<1> QED BY <1>3, <1>4, <1>5, <1>6, <1>7

\* Steps that commit a file while the operation goes on.
LEMMA FileStep ==
  ASSUME Inv,
         \/ Supersede \/ (\E p \in Part : RenderFile(p))
         \/ RecordSigned \/ RecordCountersigned
  PROVE  Inv'
<1>1. /\ TypeOK /\ op \in Operation /\ op.part \in Part
      /\ made \in [Part -> {None} \cup 0..MaxEdits] /\ data \in 0..MaxEdits
      /\ signed \in [Part -> Nat] /\ countersigned \subseteq Training
      /\ Declaration \in Part
  BY DEF Inv, TypeOK, Operation, Part
<1>2. Progress /\ SignedOnce
  BY DEF Inv
<1>3. CASE Supersede
  <2>1. /\ op' \in Operation /\ op'.at = "save" /\ op'.kind = op.kind
        /\ op'.part = op.part /\ op'.copy = op.copy
    BY <1>1, <1>3, GotoOnly DEF Supersede
  <2>2. /\ made' = [made EXCEPT ![Declaration] = None] /\ op.kind = "fields"
        /\ UNCHANGED <<data, saved, signed, countersigned, seats, full, valid,
                       look, faults, left>>
    BY <1>3 DEF Supersede
  <2>3. made'[Declaration] = None /\ made' \in [Part -> {None} \cup 0..MaxEdits]
    BY <1>1, <2>2
  <2>4. TypeOK'
    BY <1>1, <2>1, <2>2, <2>3 DEF TypeOK
  <2>5. SignedOnce'
    BY <1>2, <2>2, <2>3 DEF SignedOnce
  <2>6. Progress'
    BY <2>1, <2>2, <2>3 DEF Progress, UploadProgress, OfficeProgress,
       FieldsProgress, SeatProgress
  <2> QED BY <1>1, <2>1, <2>2, <2>4, <2>5, <2>6, Assemble
<1>4. ASSUME NEW p \in Part, RenderFile(p) PROVE Inv'
  <2>1. /\ made' = [made EXCEPT ![p] = data] /\ op.kind \in {"start", "generate"}
        /\ UNCHANGED <<data, saved, signed, countersigned, seats, full, valid,
                       look, op, faults, left>>
    BY <1>4 DEF RenderFile
  <2>2. /\ made' \in [Part -> {None} \cup 0..MaxEdits]
        /\ made'[Declaration] \in {made[Declaration], data}
    BY <1>1, <2>1
  <2>3. TypeOK'
    BY <1>1, <2>1, <2>2 DEF TypeOK
  <2>4. SignedOnce'
    BY <1>2, <2>1, <2>2 DEF SignedOnce
  <2>5. Progress'
    BY <1>2, <2>1 DEF Progress, UploadProgress, OfficeProgress,
       FieldsProgress, SeatProgress
  <2> QED BY <1>1, <2>1, <2>3, <2>4, <2>5, Assemble
<1>5. CASE RecordSigned
  <2>1. /\ op.kind = "upload" /\ op.at = "begin" /\ signed[op.part] = 0
        /\ signed' = [signed EXCEPT ![op.part] = @ + 1]
        /\ UNCHANGED <<data, saved, made, countersigned, seats, full, valid,
                       look, faults, left>>
    BY <1>2, <1>5 DEF RecordSigned, Progress, UploadProgress
  <2>2. /\ op' \in Operation
        /\ op'.at = (IF op.part = Declaration THEN "fields" ELSE "seat")
        /\ op'.kind = op.kind /\ op'.part = op.part /\ op'.copy = op.copy
    BY <1>1, <1>5, GotoOnly DEF RecordSigned
  <2>3. /\ signed' \in [Part -> Nat] /\ signed'[op.part] = 1
        /\ \A p \in Part : p # op.part => signed'[p] = signed[p]
    BY <1>1, <2>1
  <2>4. TypeOK'
    BY <1>1, <2>1, <2>2, <2>3 DEF TypeOK
  <2>5. SignedOnce'
    BY <1>2, <2>1, <2>3 DEF SignedOnce
  <2>6. Progress'
    BY <1>1, <2>1, <2>2, <2>3 DEF Progress, UploadProgress, OfficeProgress,
       FieldsProgress, SeatProgress, Part
  <2>7. \A p \in Part : signed[p] <= signed'[p]
    BY <1>1, <2>1, <2>3
  <2> QED BY <2>1, <2>2, <2>4, <2>5, <2>6, <2>7, Assemble
<1>6. CASE RecordCountersigned
  <2>1. /\ op.kind = "office" /\ op.at = "begin"
        /\ countersigned' = countersigned \cup {op.part}
        /\ UNCHANGED <<data, saved, made, signed, seats, full, valid, look,
                       faults, left>>
    BY <1>6 DEF RecordCountersigned
  <2>2. op.part \in Training /\ signed[op.part] > 0
    BY <1>2, <2>1 DEF Progress, OfficeProgress
  <2>3. /\ op' \in Operation /\ op'.at = "seat"
        /\ op'.kind = op.kind /\ op'.part = op.part /\ op'.copy = op.copy
    BY <1>1, <1>6, GotoOnly DEF RecordCountersigned
  <2>4. TypeOK'
    BY <1>1, <2>1, <2>2, <2>3 DEF TypeOK
  <2>5. SignedOnce'
    BY <1>2, <2>1 DEF SignedOnce
  <2>6. Progress'
    BY <2>1, <2>2, <2>3 DEF Progress, UploadProgress, OfficeProgress,
       FieldsProgress, SeatProgress
  <2> QED BY <1>1, <2>1, <2>3, <2>4, <2>5, <2>6, Assemble
<1> QED BY <1>3, <1>4, <1>5, <1>6

\* Steps that take the seat and record the signature.
LEMMA SeatStep ==
  ASSUME Inv, LockSeat \/ RecordSignature
  PROVE  Inv'
<1>1. /\ TypeOK /\ op \in Operation /\ op.part \in Part
      /\ signed \in [Part -> Nat] /\ seats \subseteq Training
      /\ valid \subseteq Part /\ op.seen \subseteq Part
  BY DEF Inv, TypeOK, Operation
<1>2. Progress /\ SignedOnce
  BY DEF Inv
<1>3. CASE LockSeat
  <2>1. /\ op.at = "seat" /\ seats' = seats \cup {op.part}
        /\ UNCHANGED <<data, saved, made, signed, countersigned, full, valid,
                       look, faults, left>>
    BY <1>3 DEF LockSeat, files
  <2>2. op.kind \in {"upload", "office"}
    BY <1>2, <2>1 DEF Progress, SeatProgress
  <2>3. op.part \in Training
    BY <1>2, <2>1 DEF Progress, SeatProgress
  <2>4. /\ op' \in Operation
        /\ op'.at = (IF op.kind = "upload" THEN "fields" ELSE "save")
        /\ op'.kind = op.kind /\ op'.part = op.part /\ op'.copy = op.copy
    BY <1>1, <1>3, GotoOnly DEF LockSeat
  <2>5. TypeOK'
    BY <1>1, <2>1, <2>3, <2>4 DEF TypeOK
  <2>6. SignedOnce'
    BY <1>2, <2>1 DEF SignedOnce
  <2>7. Progress'
    BY <1>2, <2>1, <2>2, <2>4 DEF Progress, UploadProgress, OfficeProgress,
       FieldsProgress, SeatProgress
  <2> QED BY <1>1, <2>1, <2>4, <2>5, <2>6, <2>7, Assemble
<1>4. CASE RecordSignature
  <2>1. /\ op.kind = "upload" /\ op.at = "fields"
        /\ UNCHANGED <<data, saved, made, signed, countersigned, seats, full,
                       look, faults, left>>
    BY <1>4 DEF RecordSignature, files
  <2>2. valid' \subseteq Part
    BY <1>1, <1>4 DEF RecordSignature
  <2>3. /\ op' \in Operation /\ op'.at = "save"
        /\ op'.kind = op.kind /\ op'.part = op.part /\ op'.copy = op.copy
    BY <1>1, <1>4, GotoOnly DEF RecordSignature
  <2>4. TypeOK'
    BY <1>1, <2>1, <2>2, <2>3 DEF TypeOK
  <2>5. SignedOnce'
    BY <1>2, <2>1 DEF SignedOnce
  <2>6. Progress'
    BY <1>2, <2>1, <2>3 DEF Progress, UploadProgress, OfficeProgress,
       FieldsProgress, SeatProgress
  <2> QED BY <1>1, <2>1, <2>3, <2>4, <2>5, <2>6, Assemble
<1> QED BY <1>3, <1>4

\* The lease is given up with the state that was saved, whichever operation.
LEMMA Written ==
  ASSUME Inv, NEW s \in State, Backed(s, signed, countersigned, seats),
         saved' = s, op' \in Operation, op'.copy = Empty, op'.at = "begin",
         op'.kind \in {"none", "advance"},
         data' \in 0..MaxEdits,
         UNCHANGED <<files, seats, full, valid, look>>,
         faults' \in 0..MaxFaults, left' \in BOOLEAN
  PROVE  Inv'
<1>1. TypeOK'
  <2>1. /\ made' \in [Part -> {None} \cup 0..MaxEdits]
        /\ signed' \in [Part -> Nat]
        /\ countersigned' \subseteq Training /\ seats' \subseteq Training
    BY DEF Inv, TypeOK, files
  <2>2. full' \subseteq Scarce /\ valid' \subseteq Part /\ look' \subseteq Part
    BY DEF Inv, TypeOK
  <2> QED BY <2>1, <2>2 DEF TypeOK
<1>2. SignedOnce'
  BY DEF Inv, SignedOnce, files
<1>3. Progress'
  BY Begun
<1>4. Backed(op'.copy, signed', countersigned', seats')
  BY DEF Backed, Empty
<1>5. Backed(saved', signed', countersigned', seats')
  BY DEF files
<1>6. \A p \in Part : signed[p] <= signed'[p]
  BY DEF Inv, TypeOK, files
<1> QED BY <1>1, <1>2, <1>3, <1>4, <1>5, <1>6, Assemble DEF files

LEMMA SavedStep ==
  ASSUME Inv, NEW s \in State, Backed(s, signed, countersigned, seats), Save(s),
         data' \in 0..MaxEdits,
         UNCHANGED <<files, seats, full, valid, look, faults, left>>
  PROVE  Inv'
<1> DEFINE f == Satisfied(s)
<1>1. f \in BOOLEAN
  BY Zenon DEF Satisfied
<1>2. saved' = [s EXCEPT !.finished = f]
  BY DEF Save
<1>3. /\ op' \in Operation /\ op'.copy = Empty /\ op'.at = "begin"
      /\ op'.kind \in {"none", "advance"}
  <2>1. op' = Idle \/ op' = [Idle EXCEPT !.kind = "advance"]
    BY DEF Save
  <2>2. Idle.kind = "none"
    BY DEF Idle
  <2> QED BY <2>1, <2>2, IdleType DEF Operation
<1> HIDE DEF f
<1>4. /\ saved' \in State
      /\ saved'.uploaded = s.uploaded /\ saved'.done = s.done
  BY <1>1, <1>2 DEF State
<1>5. Backed(saved', signed, countersigned, seats)
  BY <1>4 DEF Backed
<1>6. faults' \in 0..MaxFaults /\ left' \in BOOLEAN
  <2>1. faults \in 0..MaxFaults /\ left \in BOOLEAN
    BY DEF Inv, TypeOK
  <2>2. faults' = faults /\ left' = left
    OBVIOUS
  <2> QED BY <2>1, <2>2
<1> QED BY <1>3, <1>4, <1>5, <1>6, Written

\* A document prepared by a start or a generation: of its parts only the
\* declaration may become uploaded or done.
LEMMA PreparedBacked ==
  ASSUME TypeOK, NEW s \in State, NEW d \in Doc,
         Backed(s, signed, countersigned, seats)
  PROVE  /\ Prepared(s, d) \in State
         /\ Backed(Prepared(s, d), signed, countersigned, seats)
<1>1. /\ d \notin Training /\ PartsOf(d) \subseteq Part
  BY DEF Doc, PartsOf, Part
<1>2. /\ Prepared(s, d) \in State
      /\ Prepared(s, d).uploaded \cap Training = s.uploaded \cap Training
      /\ Prepared(s, d).done \cap Training = s.done \cap Training
  BY <1>1 DEF Prepared, State, Part, Doc
<1> QED BY <1>2 DEF Backed

\* An upload accepted: the office's file has its seat behind it, and the
\* participant's does not count where the office signs after it.
LEMMA AcceptedBacked ==
  ASSUME Inv, op.kind \in {"upload", "office"}, op.at = "save"
  PROVE  /\ Accepted(op.copy) \in State
         /\ Backed(Accepted(op.copy), signed, countersigned, seats)
<1>1. /\ op.copy \in State /\ op.part \in Part
      /\ Backed(op.copy, signed, countersigned, seats)
  BY DEF Inv, TypeOK, Operation, StatesBacked
<1>2. signed[op.part] > 0
  BY DEF Inv, Progress, UploadProgress, OfficeProgress
<1>3. op.kind = "office" => op.part \in countersigned /\ op.part \in seats
  BY DEF Inv, Progress, OfficeProgress
<1>4. /\ Accepted(op.copy) \in State
      /\ Accepted(op.copy).uploaded = op.copy.uploaded \cup {op.part}
      /\ Accepted(op.copy).done \subseteq op.copy.done \cup {op.part, Agreement}
      /\ Countersigned /\ op.kind = "upload" /\ op.part # Declaration =>
           Accepted(op.copy).done \subseteq op.copy.done \cup {Agreement}
  BY <1>1 DEF Accepted, State, Part, Doc
<1>5. Declaration \notin Training /\ Agreement \notin Training
  OBVIOUS
<1> QED BY <1>1, <1>2, <1>3, <1>4, <1>5 DEF Backed

LEMMA SaveStep ==
  ASSUME Inv,
         \/ SaveFields \/ SaveUnconfirmed \/ SavePrepared \/ RenderFails
         \/ SaveUpload
  PROVE  Inv'
<1>1. /\ TypeOK /\ op \in Operation /\ op.copy \in State
      /\ Backed(op.copy, signed, countersigned, seats)
      /\ data \in 0..MaxEdits /\ faults \in 0..MaxFaults /\ left \in BOOLEAN
  BY DEF Inv, TypeOK, Operation, StatesBacked
<1>2. Declaration \in Part /\ Declaration \in Doc /\ Agreement \in Doc
  BY DEF Part, Doc
<1>3. CASE SaveFields
  <2> DEFINE s == [op.copy EXCEPT !.confirmed = TRUE,
                                  !.generated = @ \ {Declaration}]
  <2>1. s \in State /\ s.uploaded = op.copy.uploaded /\ s.done = op.copy.done
    BY <1>1 DEF State
  <2>2. Backed(s, signed, countersigned, seats)
    BY <1>1, <2>1 DEF Backed
  <2>3. data' \in 0..MaxEdits
    BY <1>3 DEF SaveFields
  <2>4. Save(s) /\ UNCHANGED <<files, seats, full, valid, look, faults, left>>
    BY <1>3 DEF SaveFields
  <2> HIDE DEF s
  <2> QED BY <2>1, <2>2, <2>3, <2>4, SavedStep
<1>4. CASE SavePrepared
  <2> DEFINE s == Prepared(op.copy, Declaration)
             u == Prepared(s, Agreement)
  <2>1. s \in State /\ Backed(s, signed, countersigned, seats)
    BY <1>1, <1>2, PreparedBacked
  <2> HIDE DEF s
  <2>2. u \in State /\ Backed(u, signed, countersigned, seats)
    BY <1>1, <1>2, <2>1, PreparedBacked
  <2>3. /\ Save(u) /\ data' = data
        /\ UNCHANGED <<files, seats, full, valid, look, faults, left>>
    BY <1>4 DEF SavePrepared, s
  <2> HIDE DEF u
  <2> QED BY <1>1, <2>2, <2>3, SavedStep
<1>5. CASE RenderFails
  <2> DEFINE s == [op.copy EXCEPT !.confirmed = FALSE]
  <2>1. s \in State /\ s.uploaded = op.copy.uploaded /\ s.done = op.copy.done
    BY <1>1 DEF State
  <2>2. Backed(s, signed, countersigned, seats)
    BY <1>1, <2>1 DEF Backed
  <2>3. saved' = s \/ saved' = Prepared(op.copy, Declaration)
    BY <1>5 DEF RenderFails
  <2> HIDE DEF s
  <2>4. saved' \in State /\ Backed(saved', signed, countersigned, seats)
    BY <1>1, <1>2, <2>1, <2>2, <2>3, PreparedBacked
  <2>5. /\ op' \in Operation /\ op'.copy = Empty /\ op'.at = "begin"
        /\ op'.kind = "none"
    BY <1>5, IdleType DEF RenderFails, Idle
  <2>6. /\ data' = data /\ faults' \in 0..MaxFaults
        /\ UNCHANGED <<files, seats, full, valid, look, left>>
    BY <1>1, <1>5 DEF RenderFails
  <2>7. left' \in BOOLEAN
    BY <1>1, <2>6
  <2> QED BY <1>1, <2>4, <2>5, <2>6, <2>7, Written
<1>6. CASE SaveUpload
  <2> DEFINE s == Accepted(op.copy)
  <2>1. s \in State /\ Backed(s, signed, countersigned, seats)
    BY <1>6, AcceptedBacked DEF SaveUpload
  <2>2. /\ Save(s) /\ data' = data
        /\ UNCHANGED <<files, seats, full, valid, look, faults, left>>
    BY <1>6 DEF SaveUpload
  <2> HIDE DEF s
  <2> QED BY <1>1, <2>1, <2>2, SavedStep
<1>7. CASE SaveUnconfirmed
  <2> DEFINE s == [op.copy EXCEPT !.confirmed = FALSE]
  <2>1. s \in State /\ s.uploaded = op.copy.uploaded /\ s.done = op.copy.done
    BY <1>1 DEF State
  <2>2. Backed(s, signed, countersigned, seats)
    BY <1>1, <2>1 DEF Backed
  <2>3. data' \in 0..MaxEdits
    BY <1>7 DEF SaveUnconfirmed
  <2>4. Save(s) /\ UNCHANGED <<files, seats, full, valid, look, faults, left>>
    BY <1>7 DEF SaveUnconfirmed
  <2> HIDE DEF s
  <2> QED BY <2>1, <2>2, <2>3, <2>4, SavedStep
<1> QED BY <1>3, <1>4, <1>5, <1>6, <1>7

\* Steps that end the operation without a state, and the world's.
LEMMA OtherStep ==
  ASSUME Inv,
         \/ Advance \/ SeatRefused \/ Fail \/ Look
         \/ (\E t \in Training : TakeLast(t)) \/ UNCHANGED vars
  PROVE  Inv'
<1>1. /\ faults \in 0..MaxFaults /\ left \in BOOLEAN /\ op \in Operation
      /\ valid \subseteq Part /\ full \subseteq Scarce
  BY DEF Inv, TypeOK
<1>2. CASE Advance \/ SeatRefused \/ Fail
  <2>1. /\ op' = Idle
        /\ UNCHANGED <<data, saved, files, seats, full, valid, look>>
        /\ faults' \in 0..MaxFaults
    BY <1>1, <1>2 DEF Advance, SeatRefused, Fail
  <2>2. left' \in BOOLEAN
    BY <1>1, <1>2, Zenon DEF Advance, SeatRefused, Fail
  <2>3. /\ op' \in Operation /\ op'.copy = Empty /\ op'.at = "begin"
        /\ op'.kind = "none"
    BY <2>1, IdleType DEF Idle
  <2>4. Backed(op'.copy, signed, countersigned, seats)
    BY <2>3 DEF Backed, Empty
  <2>5. Progress'
    BY <2>3, Begun
  <2> QED BY <2>1, <2>2, <2>3, <2>4, <2>5, OperationOnly
<1>3. CASE Look \/ (\E t \in Training : TakeLast(t)) \/ UNCHANGED vars
  <2>1. UNCHANGED <<data, saved, made, signed, countersigned, seats, valid, op,
                    faults, left>>
    BY <1>3 DEF Look, TakeLast, vars, files
  <2>2. look' \subseteq Part /\ full' \subseteq Scarce
    BY <1>1, <1>3 DEF Look, TakeLast, vars, Inv, TypeOK
  <2>3. TypeOK'
    BY <2>1, <2>2 DEF Inv, TypeOK
  <2> QED BY <2>1, <2>3 DEF Inv, SignedOnce, Progress,
       UploadProgress, OfficeProgress, FieldsProgress, SeatProgress,
       StatesBacked
<1> QED BY <1>2, <1>3

LEMMA StepHolds == Inv /\ [Next]_vars => Inv'
<1> SUFFICES ASSUME Inv, [Next]_vars PROVE Inv'
  OBVIOUS
<1> QED
  BY BeginStep, FileStep, SeatStep, SaveStep, OtherStep DEF Next, OpStep

LEMMA Inductive == Spec => []Inv
<1> QED BY InitHolds, StepHolds, PTL DEF Spec

\* For any trainings and any number of failed operations: the variables keep
\* their types.
THEOREM GroupTypes == Spec => []TypeOK
<1>1. Inv => TypeOK
  BY DEF Inv
<1> QED BY <1>1, Inductive, PTL

\* An upload repeated after a failure takes the file that is there, so no part
\* ever has two files signed by the participant.
THEOREM OneSignedFile == Spec => []SignedOnce
<1>1. Inv => SignedOnce
  BY DEF Inv
<1> QED BY <1>1, Inductive, PTL

\* Where the office signs last, an accepted agreement has both signed files and
\* a locked seat, through every failure and recovery.
THEOREM OfficeHasSeat ==
  ASSUME Countersigned PROVE Spec => []CountersignedHasSeat
<1>1. Inv => CountersignedHasSeat
  BY DEF Inv, StatesBacked, Backed, CountersignedHasSeat
<1> QED BY <1>1, Inductive, PTL

-----------------------------------------------------------------------------
(* The step in the order of its signatures. *)

\* What a state calls accepted was signed; the agreements are complete with
\* their last one, or, without the office, with any.
Truthful(s, files_signed) ==
  /\ \A p \in Part : p \in s.done => files_signed[p] > 0
  /\ Agreement \in s.done =>
       IF Countersigned THEN Training \subseteq s.done
       ELSE \E t \in Training : files_signed[t] > 0

Works == op.kind \notin {"none", "advance"}

\* The copy in work accepts what the saved state does, since the lease keeps
\* others away; the office signs after the participant; the workflow is left
\* with no operation under way.
OrderInv ==
  /\ Truthful(saved, signed) /\ Truthful(op.copy, signed)
  /\ Works => op.copy.done \cap Part = saved.done \cap Part
  /\ op.kind = "advance" => Satisfied(saved)
  /\ op.kind = "office" => Countersigned
  /\ \A t \in countersigned : signed[t] > 0
  /\ left => op.kind = "none"

InTurn == Signatures!Next \/ UNCHANGED Signatures!vars

LEMMA IdleIsEmpty ==
  /\ Idle.kind = "none" /\ Idle.copy = Empty /\ Empty.done = {}
  /\ \A f : Truthful(Empty, f)
BY DEF Idle, Empty, Truthful

\* Steps that touch no signature, no seat and no accepted part.
LEMMA Unseen ==
  ASSUME OrderInv, UNCHANGED <<saved, signed, countersigned, seats, left>>,
         \/ op'.copy = op.copy /\ op'.kind = op.kind
         \/ op' = Idle
         \/ /\ ~left /\ Truthful(op'.copy, signed)
            /\ op'.kind \in {"fields", "draft", "start", "generate", "upload", "office"}
            /\ op'.kind = "office" => Countersigned
            /\ op'.copy.done \cap Part = saved.done \cap Part
  PROVE  OrderInv' /\ InTurn
<1>1. Truthful(saved, signed)' /\ (op.kind = "advance" => Satisfied(saved)')
  BY DEF OrderInv, Satisfied, Truthful
<1>2. /\ Truthful(op'.copy, signed')
      /\ Works' => op'.copy.done \cap Part = saved'.done \cap Part
      /\ op'.kind = "advance" => op.kind = "advance"
      /\ op'.kind = "office" => Countersigned
      /\ left' => op'.kind = "none"
  BY IdleIsEmpty DEF OrderInv, Works
<1>3. OrderInv'
  BY <1>1, <1>2 DEF OrderInv
<1>4. UNCHANGED Signatures!vars
  BY DEF Signatures!vars
<1> QED BY <1>3, <1>4 DEF InTurn

\* A start that recovers takes back no accepted part: each has its file.
LEMMA RecoveredKeeps ==
  ASSUME OrderInv
  PROVE  /\ Truthful(Recovered(saved), signed)
         /\ Recovered(saved).done \cap Part = saved.done \cap Part
<1> DEFINE lost == {d \in saved.done \cap Doc : ~Filed(d)}
<1>1. Recovered(saved).done = saved.done \ lost
  BY DEF Recovered
<1>2. lost \cap Part = {}
  <2>1. Part \cap Doc = {Declaration}
    BY DEF Part, Doc
  <2>2. Declaration \in saved.done => signed[Declaration] > 0
    BY DEF OrderInv, Truthful, Part
  <2>3. signed[Declaration] > 0 => Filed(Declaration)
    BY DEF Filed, PartsOf
  <2> QED BY <2>1, <2>2, <2>3
<1> HIDE DEF lost
<1>3. Recovered(saved).done \subseteq saved.done
      /\ Recovered(saved).done \cap Part = saved.done \cap Part
  BY <1>1, <1>2
<1>4. Training \subseteq Part
  BY DEF Part
<1> QED BY <1>3, <1>4 DEF OrderInv, Truthful

LEMMA BeginUnseen ==
  ASSUME Inv, OrderInv,
         \/ (\E k \in {"fields", "draft"} : BeginFields(k))
         \/ BeginStart \/ (\E d \in Doc : BeginGenerate(d))
         \/ (\E p \in Part : BeginUpload(p))
         \/ (\E t \in Training : BeginOffice(t))
  PROVE  OrderInv' /\ InTurn
<1>1. /\ ~left /\ UNCHANGED <<saved, signed, countersigned, seats, left>>
      /\ op'.kind \in {"fields", "draft", "start", "generate", "upload", "office"}
      /\ op'.kind = "office" => Countersigned
      /\ op'.copy \in {saved, Recovered(saved)}
  BY IdleType DEF BeginFields, BeginStart, BeginGenerate, BeginUpload, BeginOffice,
     Free, files, Operation
<1>2. /\ Truthful(op'.copy, signed)
      /\ op'.copy.done \cap Part = saved.done \cap Part
  BY <1>1, RecoveredKeeps DEF OrderInv
<1> QED BY <1>1, <1>2, Unseen

LEMMA OtherUnseen ==
  ASSUME Inv, OrderInv,
         \/ Supersede \/ (\E p \in Part : RenderFile(p)) \/ RecordSignature
         \/ SeatRefused \/ Fail \/ Look \/ (\E t \in Training : TakeLast(t))
         \/ UNCHANGED vars
  PROVE  OrderInv' /\ InTurn
<1>1. CASE Supersede \/ RecordSignature
  <2>1. op'.copy = op.copy /\ op'.kind = op.kind
    BY <1>1, GotoOnly DEF Supersede, RecordSignature, Inv
  <2> QED BY <1>1, <2>1, Unseen DEF Supersede, RecordSignature, files
<1>2. CASE SeatRefused \/ Fail
  BY <1>2, Unseen DEF SeatRefused, Fail, files
<1>3. CASE \/ (\E p \in Part : RenderFile(p)) \/ Look
           \/ (\E t \in Training : TakeLast(t)) \/ UNCHANGED vars
  <2>1. UNCHANGED <<saved, signed, countersigned, seats, left, op>>
    BY <1>3 DEF RenderFile, Look, TakeLast, vars, files
  <2> QED BY <2>1, Unseen
<1> QED BY <1>1, <1>2, <1>3

\* What was true of files stays true of more.
LEMMA TruthfulGrows ==
  ASSUME NEW s, NEW f \in [Part -> Nat], NEW g \in [Part -> Nat],
         \A p \in Part : f[p] <= g[p], Truthful(s, f)
  PROVE  Truthful(s, g)
<1>1. \A p \in Part : f[p] > 0 => g[p] > 0
  OBVIOUS
<1> QED BY <1>1 DEF Truthful, Part

\* Files and seats.
LEMMA SignStep ==
  ASSUME Inv, OrderInv, RecordSigned
  PROVE  OrderInv' /\ InTurn
<1>1. /\ op.kind = "upload" /\ op.part \in Part
      /\ signed \in [Part -> Nat] /\ signed' = [signed EXCEPT ![op.part] = @ + 1]
      /\ UNCHANGED <<saved, countersigned, seats, left>>
  BY DEF RecordSigned, Inv, TypeOK, Operation
<1>2. op'.kind = op.kind /\ op'.copy = op.copy
  BY GotoOnly DEF RecordSigned, Inv
<1>3. /\ signed' \in [Part -> Nat] /\ signed'[op.part] > 0
      /\ \A p \in Part : signed[p] <= signed'[p]
      /\ \A p \in Part : p # op.part => signed'[p] = signed[p]
  BY <1>1
<1>4. Truthful(saved, signed') /\ Truthful(op.copy, signed')
  BY <1>1, <1>3, TruthfulGrows DEF OrderInv
<1>5. OrderInv'
  <2>1. \A t \in countersigned' : signed'[t] > 0
    <3>1. \A t \in countersigned : t \in Part
      BY DEF Inv, TypeOK, Part
    <3> QED BY <1>1, <1>3, <3>1 DEF OrderInv
  <2> QED BY <1>1, <1>2, <1>4, <2>1 DEF OrderInv, Works, Satisfied
<1>6. {p \in Part : signed'[p] > 0} = {p \in Part : signed[p] > 0} \cup {op.part}
  BY <1>1, <1>3
<1>7. PICK p \in Part : p = op.part
  BY <1>1
<1>8. Signatures!Sign(p) /\ ~left
  BY <1>1, <1>6, <1>7 DEF Signatures!Sign, OrderInv
<1>9. Signatures!Next
  BY <1>8 DEF Signatures!Next, Signatures!Part, Part
<1> QED BY <1>5, <1>9 DEF InTurn

LEMMA CountersignStep ==
  ASSUME Inv, OrderInv, RecordCountersigned
  PROVE  OrderInv' /\ InTurn
<1>1. /\ op.kind = "office" /\ op.part \in Training /\ signed[op.part] > 0
      /\ countersigned' = countersigned \cup {op.part}
      /\ UNCHANGED <<saved, signed, seats, left>>
  BY DEF RecordCountersigned, Inv, Progress, OfficeProgress
<1>2. op'.kind = op.kind /\ op'.copy = op.copy
  BY GotoOnly DEF RecordCountersigned, Inv
<1>3. OrderInv'
  BY <1>1, <1>2 DEF OrderInv, Works, Satisfied
<1>4. Signatures!Countersign(op.part) /\ ~left
  BY <1>1 DEF Signatures!Countersign, OrderInv, Part
<1> QED BY <1>1, <1>3, <1>4 DEF InTurn, Signatures!Next

LEMMA TakeSeatStep ==
  ASSUME Inv, OrderInv, LockSeat
  PROVE  OrderInv' /\ InTurn
<1>1. /\ op.at = "seat" /\ seats' = seats \cup {op.part}
      /\ UNCHANGED <<saved, signed, countersigned, left>>
  BY DEF LockSeat, files
<1>2. op'.kind = op.kind /\ op'.copy = op.copy
  BY GotoOnly DEF LockSeat, Inv
<1>3. /\ op.kind \in {"upload", "office"} /\ op.part \in Training
      /\ signed[op.part] > 0
  BY <1>1 DEF Inv, Progress, SeatProgress, UploadProgress, OfficeProgress
<1>4. OrderInv'
  BY <1>1, <1>2 DEF OrderInv, Works, Satisfied
<1>5. Signatures!TakeSeat(op.part) /\ ~left
  BY <1>1, <1>3 DEF Signatures!TakeSeat, OrderInv, Part
<1> QED BY <1>3, <1>4, <1>5 DEF InTurn, Signatures!Next

\* A state is written that accepts one part more, or none.
LEMMA WriteStep ==
  ASSUME OrderInv, NEW s \in State, NEW p \in Part, Works,
         UNCHANGED <<signed, countersigned, seats, left>>,
         Truthful(s, signed),
         saved'.done = s.done,
         op' = Idle \/ (op'.kind = "advance" /\ op'.copy = Empty /\ Satisfied(s)),
         \/ s.done \cap Part = op.copy.done \cap Part
         \/ /\ s.done \cap Part = (op.copy.done \cap Part) \cup {p}
            /\ Countersigned /\ p \in Training => p \in countersigned \cap seats
  PROVE  OrderInv' /\ InTurn
<1>1. Truthful(saved', signed') /\ Truthful(op'.copy, signed')
  BY IdleIsEmpty DEF Truthful
<1>2. ~Works' /\ op'.kind # "office" /\ (op'.kind = "advance" => Satisfied(saved'))
  BY IdleIsEmpty DEF Works, Satisfied
<1>3. ~left
  BY DEF OrderInv, Works
<1>4. OrderInv'
  BY <1>1, <1>2, <1>3 DEF OrderInv, Satisfied
<1>5. CASE s.done \cap Part = op.copy.done \cap Part
  <2>1. UNCHANGED Signatures!vars
    BY <1>5 DEF Signatures!vars, OrderInv
  <2> QED BY <1>4, <2>1 DEF InTurn
<1>6. CASE /\ s.done \cap Part = (op.copy.done \cap Part) \cup {p}
           /\ Countersigned /\ p \in Training => p \in countersigned \cap seats
  <2>1. p \in s.done /\ signed[p] > 0
    BY <1>6 DEF Truthful
  <2>2. Signatures!Accept(p)
    BY <1>6, <2>1 DEF Signatures!Accept, OrderInv
  <2> QED BY <1>3, <1>4, <2>2 DEF InTurn, Signatures!Next, Signatures!Part, Part
<1> QED BY <1>5, <1>6

\* Save, on top of it.
LEMMA SaveWrites ==
  ASSUME NEW s \in State, Save(s)
  PROVE  /\ saved'.done = s.done
         /\ op' = Idle \/ (op'.kind = "advance" /\ op'.copy = Empty /\ Satisfied(s))
<1>1. saved'.done = s.done
  BY DEF Save, State
<1>2. op' = IF Satisfied(s) THEN [Idle EXCEPT !.kind = "advance"] ELSE Idle
  BY DEF Save
<1> QED BY <1>1, <1>2 DEF Idle

\* Preparing accepts at most the declaration, which was signed; the agreements
\* only where the office does not sign.
LEMMA PreparedTruthful ==
  ASSUME TypeOK, OrderInv, NEW s \in State, NEW d \in Doc, Truthful(s, signed)
  PROVE  /\ Truthful(Prepared(s, d), signed)
         /\ \/ Prepared(s, d).done \cap Part = s.done \cap Part
            \/ /\ d = Declaration
               /\ Prepared(s, d).done \cap Part = (s.done \cap Part) \cup {d}
<1>1. \/ Prepared(s, d).done = s.done
      \/ /\ Adopts(d) /\ d = Declaration
         /\ Prepared(s, d).done = s.done \cup {Declaration}
      \/ /\ Adopts(d) /\ d = Agreement /\ ~Countersigned
         /\ Prepared(s, d).done = s.done \cup {Agreement}
  BY DEF Prepared, State, Doc
<1>2. Agreement \notin Part /\ Declaration \in Part /\ Training \subseteq Part
  BY DEF Part
<1>3. CASE Prepared(s, d).done = s.done
  BY <1>3 DEF Truthful
<1>4. CASE /\ Adopts(d) /\ d = Declaration
           /\ Prepared(s, d).done = s.done \cup {Declaration}
  <2>1. signed[Declaration] > 0
    BY <1>4 DEF Adopts, SignedOf, PartsOf, TypeOK
  <2> QED BY <1>2, <1>4, <2>1 DEF Truthful
<1>5. CASE /\ Adopts(d) /\ d = Agreement /\ ~Countersigned
           /\ Prepared(s, d).done = s.done \cup {Agreement}
  <2>1. \E t \in Training : signed[t] > 0
    BY <1>5 DEF Adopts, SignedOf, PartsOf, OrderInv
  <2> QED BY <1>2, <1>5, <2>1 DEF Truthful
<1> QED BY <1>1, <1>3, <1>4, <1>5

LEMMA AcceptedTruthful ==
  ASSUME Inv, OrderInv, SaveUpload
  PROVE  /\ Truthful(Accepted(op.copy), signed)
         /\ \/ Accepted(op.copy).done \cap Part = op.copy.done \cap Part
            \/ /\ Accepted(op.copy).done \cap Part
                    = (op.copy.done \cap Part) \cup {op.part}
               /\ Countersigned /\ op.part \in Training =>
                    op.part \in countersigned \cap seats
<1> DEFINE p == op.part
           a == Accepted(op.copy).done
<1>1. /\ op.kind \in {"upload", "office"} /\ op.at = "save"
      /\ op.copy \in State /\ p \in Part /\ signed[p] > 0
      /\ op.kind = "office" =>
           p \in Training /\ p \in countersigned /\ p \in seats
  BY DEF SaveUpload, Inv, TypeOK, Operation, Progress, UploadProgress, OfficeProgress
<1>2. Agreement \notin Part /\ Training \subseteq Part
      /\ (p # Declaration => p \in Training) /\ Declaration \notin Training
  BY <1>1 DEF Part
<1> DEFINE waits == Countersigned /\ p # Declaration /\ op.kind = "upload"
           parts == IF waits THEN op.copy.done ELSE op.copy.done \cup {p}
<1>3. a = IF p = Declaration THEN parts
          ELSE IF Training \subseteq parts THEN parts \cup {Agreement}
                                           ELSE parts \ {Agreement}
  BY <1>1 DEF Accepted, State
<1>4. /\ a \cap Part = parts \cap Part
      /\ Agreement \in a =>
           \/ Agreement \in op.copy.done /\ p = Declaration
           \/ p # Declaration /\ Training \subseteq parts
  BY <1>2, <1>3
<1>5. parts \cap Part = op.copy.done \cap Part
      \/ /\ parts \cap Part = (op.copy.done \cap Part) \cup {p}
         /\ Countersigned /\ p \in Training => p \in countersigned \cap seats
  BY <1>1, <1>2
<1>6. \A q \in Part : q \in parts => signed[q] > 0
  BY <1>1 DEF OrderInv, Truthful
<1>7. op.copy.done \subseteq parts
  OBVIOUS
<1> HIDE DEF a, parts
<1>8. \A q \in Part : q \in a => signed[q] > 0
  BY <1>4, <1>6
<1>9. ASSUME Agreement \in a
      PROVE  IF Countersigned THEN Training \subseteq a
             ELSE \E t \in Training : signed[t] > 0
  <2>1. CASE Agreement \in op.copy.done /\ p = Declaration
    BY <1>2, <1>4, <1>7, <2>1 DEF OrderInv, Truthful
  <2>2. CASE p # Declaration /\ Training \subseteq parts
    BY <1>1, <1>2, <1>4, <2>2
  <2> QED BY <1>4, <1>9, <2>1, <2>2
<1>10. Truthful(Accepted(op.copy), signed)
  BY <1>8, <1>9 DEF Truthful, a
<1> QED BY <1>4, <1>5, <1>10 DEF a

LEMMA SaveInTurn ==
  ASSUME Inv, OrderInv,
         \/ SaveFields \/ SaveUnconfirmed \/ SavePrepared \/ RenderFails
         \/ SaveUpload
  PROVE  OrderInv' /\ InTurn
<1>1. /\ TypeOK /\ op.copy \in State /\ op.part \in Part /\ Declaration \in Part
      /\ Declaration \in Doc /\ Agreement \in Doc /\ Declaration # Agreement
      /\ Declaration \notin Training
      /\ Truthful(op.copy, signed) /\ Backed(op.copy, signed, countersigned, seats)
  BY DEF Inv, TypeOK, Operation, OrderInv, StatesBacked, Part, Doc
<1>2. Works /\ UNCHANGED <<signed, countersigned, seats, left>>
  BY DEF SaveFields, SaveUnconfirmed, SavePrepared, RenderFails, SaveUpload, Works,
     files
<1>3. CASE SaveFields
  <2> DEFINE s == [op.copy EXCEPT !.confirmed = TRUE,
                                  !.generated = @ \ {Declaration}]
  <2>1. s \in State /\ s.done = op.copy.done /\ Save(s)
    BY <1>1, <1>3 DEF State, SaveFields
  <2> HIDE DEF s
  <2>2. Truthful(s, signed)
    BY <1>1, <2>1 DEF Truthful
  <2> QED BY <1>1, <1>2, <2>1, <2>2, SaveWrites, WriteStep
<1>4. ASSUME TRUE
      PROVE  LET s == Prepared(op.copy, Declaration)
                 u == Prepared(s, Agreement)
             IN  /\ s \in State /\ Truthful(s, signed)
                 /\ u \in State /\ Truthful(u, signed)
                 /\ u.done \cap Part = s.done \cap Part
                 /\ \/ s.done \cap Part = op.copy.done \cap Part
                    \/ s.done \cap Part = (op.copy.done \cap Part) \cup {Declaration}
  <2> DEFINE s == Prepared(op.copy, Declaration)
             u == Prepared(s, Agreement)
  <2>1. s \in State /\ Truthful(s, signed)
    BY <1>1, PreparedBacked, PreparedTruthful
  <2>2. \/ s.done \cap Part = op.copy.done \cap Part
        \/ s.done \cap Part = (op.copy.done \cap Part) \cup {Declaration}
    BY <1>1, PreparedTruthful
  <2>3. Backed(s, signed, countersigned, seats)
    BY <1>1, PreparedBacked
  <2> HIDE DEF s
  <2>4. u \in State /\ Truthful(u, signed)
    BY <1>1, <2>1, <2>3, PreparedBacked, PreparedTruthful
  <2>5. u.done \cap Part = s.done \cap Part
    BY <1>1, <2>1, PreparedTruthful
  <2> HIDE DEF u
  <2> QED BY <2>1, <2>2, <2>4, <2>5 DEF s, u
<1>5. CASE SavePrepared
  <2> DEFINE u == Prepared(Prepared(op.copy, Declaration), Agreement)
  <2>1. /\ u \in State /\ Truthful(u, signed) /\ Save(u)
        /\ \/ u.done \cap Part = op.copy.done \cap Part
           \/ u.done \cap Part = (op.copy.done \cap Part) \cup {Declaration}
    BY <1>4, <1>5 DEF SavePrepared
  <2> HIDE DEF u
  <2> QED BY <1>1, <1>2, <2>1, SaveWrites, WriteStep
<1>6. CASE RenderFails
  <2> DEFINE c == [op.copy EXCEPT !.confirmed = FALSE]
             s == Prepared(op.copy, Declaration)
  <2>1. c \in State /\ c.done = op.copy.done /\ Truthful(c, signed)
    BY <1>1 DEF State, Truthful
  <2>2. /\ s \in State /\ Truthful(s, signed)
        /\ \/ s.done \cap Part = op.copy.done \cap Part
           \/ s.done \cap Part = (op.copy.done \cap Part) \cup {Declaration}
    BY <1>4
  <2>3. saved' \in {c, s} /\ op' = Idle
    BY <1>6 DEF RenderFails
  <2> HIDE DEF c, s
  <2>4. /\ saved' \in State /\ Truthful(saved', signed)
        /\ \/ saved'.done \cap Part = op.copy.done \cap Part
           \/ saved'.done \cap Part = (op.copy.done \cap Part) \cup {Declaration}
    BY <2>1, <2>2, <2>3
  <2> QED BY <1>1, <1>2, <2>3, <2>4, WriteStep
<1>7. CASE SaveUpload
  <2> DEFINE s == Accepted(op.copy)
  <2>1. s \in State /\ Save(s)
    BY <1>7, AcceptedBacked DEF SaveUpload
  <2>2. /\ Truthful(s, signed)
        /\ \/ s.done \cap Part = op.copy.done \cap Part
           \/ /\ s.done \cap Part = (op.copy.done \cap Part) \cup {op.part}
              /\ Countersigned /\ op.part \in Training =>
                   op.part \in countersigned \cap seats
    BY <1>7, AcceptedTruthful
  <2> HIDE DEF s
  <2> QED BY <1>1, <1>2, <2>1, <2>2, SaveWrites, WriteStep
<1>8. CASE SaveUnconfirmed
  <2> DEFINE s == [op.copy EXCEPT !.confirmed = FALSE]
  <2>1. s \in State /\ s.done = op.copy.done /\ Save(s)
    BY <1>1, <1>8 DEF State, SaveUnconfirmed
  <2> HIDE DEF s
  <2>2. Truthful(s, signed)
    BY <1>1, <2>1 DEF Truthful
  <2> QED BY <1>1, <1>2, <2>1, <2>2, SaveWrites, WriteStep
<1> QED BY <1>3, <1>5, <1>6, <1>7, <1>8

\* The workflow moves on with a complete step.
LEMMA LeaveStep ==
  ASSUME Inv, OrderInv, Advance
  PROVE  OrderInv' /\ InTurn
<1>1. /\ Satisfied(saved) /\ ~left /\ left' = TRUE /\ op' = Idle
      /\ UNCHANGED <<saved, signed, countersigned, seats>>
  BY DEF Advance, Free, OrderInv, files
<1>2. OrderInv'
  BY <1>1, IdleIsEmpty DEF OrderInv, Works, Truthful
<1>3. Declaration \in saved.done /\ Agreement \in saved.done
  BY <1>1 DEF Satisfied, Doc
<1>4. Signatures!Leave
  BY <1>1, <1>3 DEF Signatures!Leave, OrderInv, Truthful, Part
<1> QED BY <1>1, <1>2, <1>4 DEF InTurn, Signatures!Next

\* For any trainings, with and without the office, and any number of failures:
\* every operation's transactions sign, countersign, take seats, accept and leave
\* in the promised order.
THEOREM StepSignedInTurn == Spec => SignedInTurn
<1>1. Init => OrderInv /\ Signatures!Init
  <2> SUFFICES ASSUME Init PROVE OrderInv /\ Signatures!Init
    OBVIOUS
  <2>1. /\ op = Idle /\ saved = Empty /\ left = FALSE
        /\ countersigned = {} /\ seats = {}
        /\ \A p \in Part : signed[p] = 0
    BY DEF Init
  <2>2. OrderInv
    BY <2>1, IdleIsEmpty DEF OrderInv, Works
  <2>3. {p \in Part : signed[p] > 0} = {} /\ saved.done \cap Part = {}
    BY <2>1, IdleIsEmpty
  <2> QED BY <2>1, <2>2, <2>3 DEF Signatures!Init
<1>2. Inv /\ OrderInv /\ [Next]_vars => OrderInv' /\ [Signatures!Next]_(Signatures!vars)
  <2>1. Inv /\ OrderInv /\ [Next]_vars => OrderInv' /\ InTurn
    BY BeginUnseen, OtherUnseen, SignStep, CountersignStep, TakeSeatStep,
       SaveInTurn, LeaveStep DEF Next, OpStep
  <2> QED BY <2>1 DEF InTurn
<1> QED BY <1>1, <1>2, Inductive, PTL DEF Spec, SignedInTurn, Signatures!Spec

-----------------------------------------------------------------------------
(* The declaration's file. *)

\* A declaration is offered only while its fields are confirmed, and stays
\* offered once it is signed; so no save changes its fields under it.
OfferInv ==
  /\ Declaration \in saved.generated => saved.confirmed
  /\ signed[Declaration] > 0 => Declaration \in saved.generated
  /\ Works =>
       /\ op.copy.confirmed = saved.confirmed
       /\ Declaration \in op.copy.generated => Declaration \in saved.generated
       /\ signed[Declaration] > 0 => Declaration \in op.copy.generated
  /\ op.kind = "upload" => op.part \in op.copy.generated
  /\ op.kind \in {"fields", "draft"} => Declaration \notin saved.generated

FileInv == OfferInv /\ DraftIsCurrent

\* Steps that touch neither the fields nor the declaration's files.
LEMMA FileUnseen ==
  ASSUME FileInv, UNCHANGED <<data, saved>>,
         made'[Declaration] = made[Declaration],
         signed'[Declaration] = signed[Declaration],
         \/ op'.copy = op.copy /\ op'.kind = op.kind /\ op'.part = op.part
         \/ op' = Idle
         \/ /\ op'.copy.confirmed = saved.confirmed
            /\ Declaration \in op'.copy.generated => Declaration \in saved.generated
            /\ signed[Declaration] > 0 => Declaration \in op'.copy.generated
            /\ op'.kind = "upload" => op'.part \in op'.copy.generated
            /\ op'.kind \in {"fields", "draft"} => Declaration \notin saved.generated
  PROVE  FileInv'
<1>1. DraftIsCurrent'
  BY DEF FileInv, DraftIsCurrent
<1>2. OfferInv'
  BY IdleIsEmpty DEF FileInv, OfferInv, Works
<1> QED BY <1>1, <1>2 DEF FileInv

\* The guard of save_fields: what is generated is not confirmed, hence nothing
\* is generated.  A start takes back only what has no file.
LEMMA FileBegins ==
  ASSUME Inv, FileInv,
         \/ (\E k \in {"fields", "draft"} : BeginFields(k))
         \/ BeginStart \/ (\E d \in Doc : BeginGenerate(d))
         \/ (\E p \in Part : BeginUpload(p))
         \/ (\E t \in Training : BeginOffice(t))
  PROVE  FileInv'
<1>1. /\ saved \in State /\ Idle \in Operation
      /\ UNCHANGED <<data, saved, made, signed>>
  BY IdleType DEF Inv, TypeOK, BeginFields, BeginStart, BeginGenerate, BeginUpload,
     BeginOffice, files
<1>2. /\ Declaration \in saved.generated => saved.confirmed
      /\ signed[Declaration] > 0 => Declaration \in saved.generated
  BY DEF FileInv, OfferInv
<1>3. CASE \E k \in {"fields", "draft"} : BeginFields(k)
  <2>1. op'.copy = saved /\ op'.kind \in {"fields", "draft"}
        /\ Declaration \notin saved.generated
    BY <1>1, <1>2, <1>3 DEF BeginFields, Operation
  <2> QED BY <1>1, <1>2, <2>1, FileUnseen
<1>4. CASE BeginStart
  <2>1. /\ Recovered(saved).confirmed = saved.confirmed
        /\ Declaration \in Recovered(saved).generated =>
             Declaration \in saved.generated
    BY <1>1 DEF Recovered, State
  <2>2. signed[Declaration] > 0 => Declaration \in Recovered(saved).generated
    <3>1. signed[Declaration] > 0 => Filed(Declaration)
      BY DEF Filed, PartsOf
    <3> QED BY <1>1, <1>2, <3>1 DEF Recovered, State
  <2>3. op'.copy = Recovered(saved) /\ op'.kind = "start"
    BY <1>1, <1>4 DEF BeginStart, Operation
  <2> QED BY <1>1, <2>1, <2>2, <2>3, FileUnseen
<1>5. CASE \E d \in Doc : BeginGenerate(d)
  <2>1. op'.copy = saved /\ op'.kind = "generate"
    BY <1>1, <1>5 DEF BeginGenerate, Operation
  <2> QED BY <1>1, <1>2, <2>1, FileUnseen
<1>6. CASE \E p \in Part : BeginUpload(p)
  <2>1. op'.copy = saved /\ op'.kind = "upload" /\ op'.part \in saved.generated
    BY <1>1, <1>6 DEF BeginUpload, Operation
  <2> QED BY <1>1, <1>2, <2>1, FileUnseen
<1>7. CASE \E t \in Training : BeginOffice(t)
  <2>1. op'.copy = saved /\ op'.kind = "office"
    BY <1>1, <1>7 DEF BeginOffice, Operation
  <2> QED BY <1>1, <1>2, <2>1, FileUnseen
<1> QED BY <1>3, <1>4, <1>5, <1>6, <1>7

\* The declaration's file is retired, rendered or signed.
LEMMA FileWrites ==
  ASSUME Inv, FileInv,
         Supersede \/ (\E p \in Part : RenderFile(p)) \/ RecordSigned
  PROVE  FileInv'
<1>1. /\ op \in Operation /\ op.part \in Part /\ Declaration \in Part
      /\ made \in [Part -> {None} \cup 0..MaxEdits]
      /\ signed \in [Part -> Nat] /\ TypeOK
  BY DEF Inv, TypeOK, Operation, Part
<1>2. OfferInv /\ DraftIsCurrent
  BY DEF FileInv
<1>3. CASE Supersede
  <2>1. /\ op.kind = "fields" /\ made'[Declaration] = None
        /\ UNCHANGED <<data, saved, signed>>
        /\ op'.copy = op.copy /\ op'.kind = op.kind /\ op'.part = op.part
    BY <1>1, <1>3, GotoOnly DEF Supersede
  <2>2. ~(Declaration \in saved.generated \/ signed[Declaration] > 0)
    BY <1>2, <2>1 DEF OfferInv
  <2>3. DraftIsCurrent'
    BY <2>1, <2>2 DEF DraftIsCurrent
  <2>4. OfferInv'
    BY <1>2, <2>1 DEF OfferInv, Works
  <2> QED BY <2>3, <2>4 DEF FileInv
<1>4. CASE \E p \in Part : RenderFile(p)
  <2>1. /\ UNCHANGED <<data, saved, signed, op>>
        /\ made'[Declaration] \in {made[Declaration], data}
    BY <1>1, <1>4 DEF RenderFile
  <2>2. DraftIsCurrent'
    BY <1>2, <2>1 DEF DraftIsCurrent
  <2>3. OfferInv'
    BY <1>2, <2>1 DEF OfferInv, Works
  <2> QED BY <2>2, <2>3 DEF FileInv
<1>5. CASE RecordSigned
  <2>1. /\ op.kind = "upload" /\ signed' = [signed EXCEPT ![op.part] = @ + 1]
        /\ UNCHANGED <<data, saved, made>>
        /\ op'.copy = op.copy /\ op'.kind = op.kind /\ op'.part = op.part
    BY <1>1, <1>5, GotoOnly DEF RecordSigned
  <2>2. CASE op.part # Declaration
    <3>1. signed'[Declaration] = signed[Declaration]
      BY <1>1, <2>1, <2>2
    <3> QED BY <2>1, <3>1, FileUnseen
  <2>3. CASE op.part = Declaration
    <3>1. Declaration \in op.copy.generated /\ Declaration \in saved.generated
      BY <1>2, <2>1, <2>3 DEF OfferInv, Works
    <3>2. DraftIsCurrent'
      BY <1>2, <2>1, <3>1 DEF DraftIsCurrent
    <3>3. OfferInv'
      BY <1>2, <2>1, <3>1 DEF OfferInv, Works
    <3> QED BY <3>2, <3>3 DEF FileInv
  <2> QED BY <2>2, <2>3
<1> QED BY <1>3, <1>4, <1>5

LEMMA FileOthers ==
  ASSUME Inv, FileInv,
         \/ RecordSignature \/ RecordCountersigned \/ LockSeat \/ SeatRefused
         \/ Fail \/ Look \/ (\E t \in Training : TakeLast(t)) \/ Advance
         \/ UNCHANGED vars
  PROVE  FileInv'
<1>1. CASE RecordSignature \/ RecordCountersigned \/ LockSeat
  <2>1. op'.copy = op.copy /\ op'.kind = op.kind /\ op'.part = op.part
    BY <1>1, GotoOnly DEF RecordSignature, RecordCountersigned, LockSeat, Inv
  <2>2. UNCHANGED <<data, saved, made, signed>>
    BY <1>1 DEF RecordSignature, RecordCountersigned, LockSeat, files
  <2> QED BY <2>1, <2>2, FileUnseen
<1>2. CASE SeatRefused \/ Fail \/ Advance
  BY <1>2, FileUnseen DEF SeatRefused, Fail, Advance, files
<1>3. CASE Look \/ (\E t \in Training : TakeLast(t)) \/ UNCHANGED vars
  <2>1. UNCHANGED <<data, saved, made, signed, op>>
    BY <1>3 DEF Look, TakeLast, vars, files
  <2> QED BY <2>1, FileUnseen
<1> QED BY <1>1, <1>2, <1>3

\* A state is written: what it confirms or offers is current, and it offers
\* what is signed.
LEMMA FileSaved ==
  ASSUME NEW s \in State, UNCHANGED <<made, signed>>,
         Save(s) \/ (saved' = s /\ op' = Idle),
         Declaration \in s.generated => s.confirmed,
         signed[Declaration] > 0 => Declaration \in s.generated,
         s.confirmed => made[Declaration] \in {None, data'},
         Declaration \in s.generated => made[Declaration] = data'
  PROVE  FileInv'
<1>1. saved'.confirmed = s.confirmed /\ saved'.generated = s.generated
  BY DEF Save, State
<1>2. op'.kind \in {"none", "advance"}
  BY SaveWrites, IdleIsEmpty
<1>3. DraftIsCurrent'
  BY <1>1 DEF DraftIsCurrent
<1>4. OfferInv'
  BY <1>1, <1>2 DEF OfferInv, Works
<1> QED BY <1>3, <1>4 DEF FileInv

\* What a start or a generation offers besides was rendered from confirmed
\* fields, or found and current.
LEMMA PreparedOffers ==
  ASSUME NEW s \in State, NEW d \in Doc
  PROVE  /\ Prepared(s, d).confirmed = s.confirmed
         /\ s.generated \subseteq Prepared(s, d).generated
         /\ Declaration \in Prepared(s, d).generated =>
              Declaration \in s.generated \/ (d = Declaration /\ Renders(d))
<1>1. Declaration \in PartsOf(d) => d = Declaration
  BY DEF PartsOf, Doc
<1> QED BY <1>1 DEF Prepared, State

LEMMA FileSaves ==
  ASSUME Inv, FileInv,
         \/ SaveFields \/ SaveUnconfirmed \/ SavePrepared \/ RenderFails
         \/ SaveUpload
  PROVE  FileInv'
<1>1. /\ op.copy \in State /\ Declaration \in Doc /\ Agreement \in Doc
      /\ Declaration # Agreement /\ Declaration \in Part /\ TypeOK
      /\ signed[Declaration] \in Nat /\ data \in 0..MaxEdits
      /\ Backed(op.copy, signed, countersigned, seats)
  BY DEF Inv, TypeOK, Operation, Doc, Part, StatesBacked
<1>2. Works /\ UNCHANGED <<made, signed>>
  BY DEF SaveFields, SaveUnconfirmed, SavePrepared, RenderFails, SaveUpload, Works,
     files
<1> DEFINE c == op.copy
<1>3. /\ Declaration \in c.generated => c.confirmed
      /\ signed[Declaration] > 0 => Declaration \in c.generated
      /\ c.confirmed => made[Declaration] \in {None, data}
      /\ Declaration \in c.generated => made[Declaration] = data
  BY <1>2 DEF FileInv, OfferInv, DraftIsCurrent
<1>4. op.kind \in {"fields", "draft"} =>
        Declaration \notin c.generated /\ signed[Declaration] = 0
  BY <1>1, <1>2 DEF FileInv, OfferInv
<1>5. CASE SaveFields
  <2> DEFINE s == [op.copy EXCEPT !.confirmed = TRUE,
                                  !.generated = @ \ {Declaration}]
  <2>1. /\ s \in State /\ s.confirmed /\ s.generated = c.generated \ {Declaration}
        /\ Save(s)
    BY <1>1, <1>5 DEF State, SaveFields
  <2>2. made[Declaration] = None /\ signed[Declaration] = 0
    BY <1>4, <1>5 DEF SaveFields, Inv, Progress, FieldsProgress
  <2> HIDE DEF s
  <2> QED BY <1>2, <2>1, <2>2, FileSaved
<1>6. CASE SaveUnconfirmed
  <2> DEFINE s == [op.copy EXCEPT !.confirmed = FALSE]
  <2>1. s \in State /\ ~s.confirmed /\ s.generated = c.generated /\ Save(s)
    BY <1>1, <1>6 DEF State, SaveUnconfirmed
  <2>2. Declaration \notin c.generated /\ signed[Declaration] = 0
    BY <1>4, <1>6 DEF SaveUnconfirmed
  <2> HIDE DEF s
  <2> QED BY <1>2, <2>1, <2>2, FileSaved
<1> DEFINE s == Prepared(op.copy, Declaration)
           u == Prepared(s, Agreement)
<1>7. /\ s \in State /\ s.confirmed = c.confirmed /\ c.generated \subseteq s.generated
      /\ Declaration \in s.generated =>
           Declaration \in c.generated \/ Renders(Declaration)
      /\ u \in State /\ u.confirmed = c.confirmed /\ s.generated \subseteq u.generated
      /\ Declaration \in u.generated => Declaration \in s.generated
  <2>1. s \in State /\ Backed(s, signed, countersigned, seats)
    BY <1>1, PreparedBacked
  <2>2. /\ s.confirmed = c.confirmed /\ c.generated \subseteq s.generated
        /\ Declaration \in s.generated =>
             Declaration \in c.generated \/ Renders(Declaration)
    BY <1>1, PreparedOffers
  <2> HIDE DEF s
  <2>3. /\ u \in State /\ u.confirmed = s.confirmed
        /\ s.generated \subseteq u.generated
        /\ Declaration \in u.generated => Declaration \in s.generated
    BY <1>1, <2>1, PreparedBacked, PreparedOffers
  <2> QED BY <2>1, <2>2, <2>3
<1>8. ASSUME Declaration \notin Missing, Renders(Declaration)
      PROVE  c.confirmed /\ made[Declaration] = data
  <2>1. c.confirmed
    BY <1>8 DEF Renders
  <2>2. made[Declaration] # None
    BY <1>1, <1>8 DEF Missing, PartsOf
  <2> QED BY <1>3, <2>1, <2>2
<1>9. CASE SavePrepared
  <2>1. Save(u) /\ Declaration \notin Missing /\ data' = data
    BY <1>9 DEF SavePrepared
  <2> HIDE DEF u, s
  <2> QED BY <1>2, <1>3, <1>7, <1>8, <2>1, FileSaved
<1>10. CASE RenderFails
  <2> DEFINE e == [op.copy EXCEPT !.confirmed = FALSE]
  <2>1. /\ data' = data /\ op' = Idle
        /\ saved' = IF Declaration \in Missing THEN e ELSE s
    BY <1>10 DEF RenderFails
  <2>2. CASE Declaration \in Missing
    <3>1. Declaration \notin c.generated
      BY <1>1, <1>3, <2>2 DEF Missing, None
    <3>2. e \in State /\ ~e.confirmed /\ e.generated = c.generated
      BY <1>1 DEF State
    <3> HIDE DEF e
    <3> QED BY <1>2, <1>3, <2>1, <2>2, <3>1, <3>2, FileSaved
  <2>3. CASE Declaration \notin Missing
    <3> HIDE DEF s
    <3> QED BY <1>2, <1>3, <1>7, <1>8, <2>1, <2>3, FileSaved
  <2> QED BY <2>2, <2>3
<1>11. CASE SaveUpload
  <2> DEFINE a == Accepted(op.copy)
  <2>1. a \in State /\ Save(a) /\ data' = data
    BY <1>11, AcceptedBacked DEF SaveUpload
  <2>2. a.confirmed = c.confirmed /\ a.generated = c.generated
    BY <1>1 DEF Accepted, State
  <2> HIDE DEF a
  <2> QED BY <1>2, <1>3, <2>1, <2>2, FileSaved
<1> QED BY <1>5, <1>6, <1>9, <1>10, <1>11

\* save_fields retires the generated file before it confirms the fields and is
\* refused once one is offered, so what is offered and signed shows the fields
\* as saved, whatever was saved unconfirmed in between.
THEOREM OfferedIsCurrent == Spec => []DraftIsCurrent
<1>1. Init => FileInv
  <2> SUFFICES ASSUME Init PROVE FileInv
    OBVIOUS
  <2>1. /\ op = Idle /\ saved = Empty /\ Declaration \in Part
        /\ signed[Declaration] = 0 /\ made[Declaration] = None
    BY DEF Init, Part
  <2>2. Empty.generated = {} /\ Empty.confirmed = FALSE
    BY DEF Empty
  <2> QED BY <2>1, <2>2, IdleIsEmpty DEF FileInv, OfferInv, DraftIsCurrent, Works
<1>2. Inv /\ FileInv /\ [Next]_vars => FileInv'
  BY FileBegins, FileWrites, FileOthers, FileSaves DEF Next, OpStep
<1>3. FileInv => DraftIsCurrent
  BY DEF FileInv
<1> QED BY <1>1, <1>2, <1>3, Inductive, PTL DEF Spec

-----------------------------------------------------------------------------
(* The way on. *)

\* What is uploaded waits for the office or is done; the agreements are done
\* with the last of them; they are offered for signature all at once.
Regular(s) ==
  /\ Declaration \in s.uploaded => Declaration \in s.done
  /\ ~Countersigned => s.uploaded \cap Training \subseteq s.done
  /\ Training \subseteq s.done => Agreement \in s.done
  /\ Training \cap s.generated = {} \/ Training \subseteq s.generated

\* The agreements a signature was put to are offered in any state to come.
Offered(s, files_signed) ==
  \A t \in Training : files_signed[t] > 0 => t \in s.generated

\* An operation works on a copy that offers what is offered; it uploads a part
\* that is offered; the step is complete when it says so.
WayInv ==
  /\ Regular(saved) /\ Offered(saved, signed)
  /\ Works => Regular(op.copy) /\ op.copy.generated = saved.generated
  /\ op.kind = "upload" => op.part \in saved.generated
  /\ op.kind \in {"start", "generate"} => ~op.copy.finished
  /\ saved.finished => Satisfied(saved)

\* Between two operations the invariant leaves a way on.
LEMMA WayOn ==
  ASSUME TypeOK, OrderInv, WayInv
  PROVE  NeverWedged
<1> SUFFICES ASSUME op.kind = "none", ~left, ~Satisfied(saved)
             PROVE  NeverWedged
  BY DEF NeverWedged
<1>1. ~saved.finished
  BY DEF WayInv
<1>2. CASE Declaration \notin saved.done
  <2>1. Declaration \notin saved.uploaded
    BY <1>2 DEF WayInv, Regular
  <2> QED BY <1>1, <1>2, <2>1 DEF NeverWedged, Part
<1>3. CASE Agreement \notin saved.done
  <2>1. PICK t \in Training : t \notin saved.done
    BY <1>3 DEF WayInv, Regular
  <2>2. CASE t \in saved.uploaded
    <3>1. Countersigned
      BY <2>1, <2>2 DEF WayInv, Regular
    <3> QED BY <1>1, <2>1, <2>2, <3>1 DEF NeverWedged
  <2>3. CASE t \notin saved.uploaded /\ t \in saved.generated
    BY <1>1, <2>1, <2>3 DEF NeverWedged, Part
  <2>4. CASE t \notin saved.generated
    <3>1. Training \cap saved.generated = {}
      BY <2>1, <2>4 DEF WayInv, Regular
    <3>2. ~SignedOf(Agreement)
      BY <3>1 DEF SignedOf, PartsOf, WayInv, Offered, OrderInv, TypeOK
    <3> QED BY <1>1, <1>3, <3>2 DEF NeverWedged
  <2> QED BY <2>2, <2>3, <2>4
<1> QED BY <1>2, <1>3 DEF Satisfied, Doc

\* Steps that save no state and sign nothing.
LEMMA WayUnseen ==
  ASSUME OrderInv, WayInv, UNCHANGED <<saved, signed>>,
         \/ op'.copy = op.copy /\ op'.kind = op.kind /\ op'.part = op.part
         \/ op' = Idle
         \/ /\ op'.kind \in {"fields", "draft", "start", "generate", "upload", "office"}
            /\ Regular(op'.copy) /\ op'.copy.generated = saved.generated
            /\ op'.kind = "upload" => op'.part \in saved.generated
            /\ op'.kind \in {"start", "generate"} => ~op'.copy.finished
  PROVE  WayInv'
<1>1. /\ Regular(saved)' /\ Offered(saved, signed)'
      /\ (saved.finished => Satisfied(saved))'
  BY DEF WayInv, Regular, Offered, Satisfied
<1>2. /\ Works' => Regular(op'.copy) /\ op'.copy.generated = saved'.generated
      /\ op'.kind = "upload" => op'.part \in saved'.generated
      /\ op'.kind \in {"start", "generate"} => ~op'.copy.finished
  BY IdleIsEmpty DEF WayInv, Works
<1> QED BY <1>1, <1>2 DEF WayInv, Regular, Offered, Satisfied

\* A start recovers nothing: what is done has its file.
LEMMA RecoveredRegular ==
  ASSUME Training # {}, TypeOK, OrderInv, WayInv
  PROVE  /\ Regular(Recovered(saved)) /\ ~Recovered(saved).finished
         /\ Recovered(saved).generated = saved.generated
<1> DEFINE lost == {d \in saved.done \cap Doc : ~Filed(d)}
<1>1. /\ saved \in State
      /\ Recovered(saved).done = saved.done \ lost
      /\ Recovered(saved).generated = saved.generated \ lost
      /\ Recovered(saved).uploaded = saved.uploaded
      /\ Recovered(saved).finished = FALSE
  BY DEF Recovered, TypeOK, State
<1>2. Declaration \notin lost
  <2>1. Declaration \in saved.done => signed[Declaration] > 0
    BY DEF OrderInv, Truthful, Part
  <2> QED BY <2>1 DEF Filed, PartsOf
<1>3. Training \subseteq saved.done => Agreement \notin lost
  <2>1. ASSUME Training \subseteq saved.done PROVE Filed(Agreement)
    <3>1. PICK t \in Training : signed[t] > 0
      BY <2>1 DEF OrderInv, Truthful, Part
    <3> QED BY <3>1 DEF Filed, PartsOf
  <2> QED BY <2>1
<1>4. lost \cap Training = {} /\ lost \cap saved.generated = {}
  <2>1. lost \subseteq {Agreement}
    BY <1>2 DEF Doc
  <2>2. saved.generated \subseteq Part /\ Agreement \notin Part
    BY <1>1 DEF State, Part
  <2> QED BY <2>1, <2>2
<1> HIDE DEF lost
<1>5. Recovered(saved).generated = saved.generated
  BY <1>1, <1>4
<1>6. Regular(Recovered(saved))
  BY <1>1, <1>2, <1>3, <1>4, <1>5 DEF WayInv, Regular
<1> QED BY <1>1, <1>5, <1>6

LEMMA WayBegins ==
  ASSUME Training # {}, Inv, OrderInv, WayInv,
         \/ (\E k \in {"fields", "draft"} : BeginFields(k))
         \/ BeginStart \/ (\E d \in Doc : BeginGenerate(d))
         \/ (\E p \in Part : BeginUpload(p))
         \/ (\E t \in Training : BeginOffice(t))
  PROVE  WayInv'
<1>1. /\ TypeOK /\ Regular(saved)
      /\ Regular(Recovered(saved)) /\ ~Recovered(saved).finished
      /\ Recovered(saved).generated = saved.generated
  BY RecoveredRegular DEF Inv, WayInv
<1>2. /\ UNCHANGED <<saved, signed>>
      /\ op'.kind \in {"fields", "draft", "start", "generate", "upload", "office"}
      /\ \/ op'.copy = saved /\ (op'.kind \in {"start", "generate"} => ~saved.finished)
         \/ op'.copy = Recovered(saved)
      /\ op'.kind = "upload" => op'.part \in saved.generated
  <2>1. /\ Idle \in Operation
        /\ UNCHANGED <<saved, signed>>
    BY IdleType DEF BeginFields, BeginStart, BeginGenerate, BeginUpload, BeginOffice,
       files
  <2>2. CASE BeginStart
    BY <2>1, <2>2 DEF BeginStart, Operation
  <2>3. CASE \E d \in Doc : BeginGenerate(d)
    BY <2>1, <2>3 DEF BeginGenerate, Operation
  <2>4. CASE \E p \in Part : BeginUpload(p)
    BY <2>1, <2>4 DEF BeginUpload, Operation
  <2>5. CASE \/ (\E k \in {"fields", "draft"} : BeginFields(k))
             \/ (\E t \in Training : BeginOffice(t))
    BY <2>1, <2>5 DEF BeginFields, BeginOffice, Operation
  <2> QED BY <2>2, <2>3, <2>4, <2>5
<1> QED BY <1>1, <1>2, WayUnseen

LEMMA WayOthers ==
  ASSUME Inv, OrderInv, WayInv,
         \/ Supersede \/ (\E p \in Part : RenderFile(p)) \/ RecordSignature
         \/ RecordCountersigned \/ LockSeat \/ SeatRefused \/ Fail \/ Look
         \/ (\E t \in Training : TakeLast(t)) \/ Advance \/ UNCHANGED vars
  PROVE  WayInv'
<1>1. CASE Supersede \/ RecordSignature \/ RecordCountersigned \/ LockSeat
  <2>1. op'.copy = op.copy /\ op'.kind = op.kind /\ op'.part = op.part
    BY <1>1, GotoOnly DEF Supersede, RecordSignature, RecordCountersigned, LockSeat,
       Inv
  <2>2. UNCHANGED <<saved, signed>>
    BY <1>1 DEF Supersede, RecordSignature, RecordCountersigned, LockSeat, files
  <2> QED BY <2>1, <2>2, WayUnseen
<1>2. CASE SeatRefused \/ Fail \/ Advance
  BY <1>2, WayUnseen DEF SeatRefused, Fail, Advance, files
<1>3. CASE \/ (\E p \in Part : RenderFile(p)) \/ Look
           \/ (\E t \in Training : TakeLast(t)) \/ UNCHANGED vars
  <2>1. UNCHANGED <<saved, signed, op>>
    BY <1>3 DEF RenderFile, Look, TakeLast, vars, files
  <2> QED BY <2>1, WayUnseen
<1> QED BY <1>1, <1>2, <1>3

\* A signature is put to a part that is offered.
LEMMA WaySigned ==
  ASSUME Inv, OrderInv, WayInv, RecordSigned
  PROVE  WayInv'
<1>1. /\ op.kind = "upload" /\ op.part \in Part
      /\ signed \in [Part -> Nat] /\ signed' = [signed EXCEPT ![op.part] = @ + 1]
      /\ UNCHANGED saved
  BY DEF RecordSigned, Inv, TypeOK, Operation
<1>2. op'.kind = op.kind /\ op'.copy = op.copy /\ op'.part = op.part
  BY GotoOnly DEF RecordSigned, Inv
<1>3. Offered(saved', signed')
  <2>1. \A t \in Training : t \in Part /\ (t # op.part => signed'[t] = signed[t])
    BY <1>1 DEF Part
  <2> QED BY <1>1, <2>1 DEF WayInv, Offered
<1>4. Regular(saved') /\ (saved'.finished => Satisfied(saved'))
  BY <1>1 DEF WayInv, Regular, Satisfied
<1>5. /\ Works' => Regular(op'.copy) /\ op'.copy.generated = saved'.generated
      /\ op'.kind = "upload" => op'.part \in saved'.generated
      /\ op'.kind \in {"start", "generate"} => ~op'.copy.finished
  BY <1>1, <1>2 DEF WayInv, Works
<1> QED BY <1>3, <1>4, <1>5 DEF WayInv, Regular, Offered, Satisfied

\* A state is written that is regular and offers what was offered.
LEMMA WayWritten ==
  ASSUME Inv, WayInv, Works, UNCHANGED signed, NEW s \in State, Regular(s),
         op.copy.generated \cap Training \subseteq s.generated,
         \/ Save(s)
         \/ saved' = s /\ op' = Idle /\ ~s.finished
  PROVE  WayInv'
<1>1. /\ saved'.done = s.done /\ saved'.uploaded = s.uploaded
      /\ saved'.generated = s.generated
      /\ saved'.finished => Satisfied(s)
  BY DEF Save, State
<1>2. op'.kind \in {"none", "advance"}
  BY SaveWrites, IdleIsEmpty
<1>3. Offered(s, signed)
  BY DEF WayInv, Offered
<1> QED BY <1>1, <1>2, <1>3 DEF WayInv, Regular, Offered, Works, Satisfied

LEMMA PreparedRegular ==
  ASSUME NEW s \in State, NEW d \in Doc, Regular(s)
  PROVE  /\ Regular(Prepared(s, d)) /\ Prepared(s, d).finished = s.finished
         /\ s.generated \subseteq Prepared(s, d).generated
<1>1. Agreement \notin Part /\ Declaration \notin Training /\ Training \subseteq Part
  BY DEF Part
<1>2. Prepared(s, d).finished = s.finished
  BY DEF Prepared, State
<1>3. CASE Adopts(d) /\ d \notin s.done
  <2>1. /\ Prepared(s, d).generated = s.generated
        /\ s.done \subseteq Prepared(s, d).done
        /\ Prepared(s, d).done \subseteq s.done \cup {d}
        /\ \/ Prepared(s, d).uploaded = s.uploaded
           \/ /\ Prepared(s, d).uploaded = s.uploaded \cup {Declaration}
              /\ Declaration \in Prepared(s, d).done
    BY <1>3 DEF Prepared, State
  <2>2. d \notin Training
    BY DEF Doc
  <2> QED BY <1>1, <1>2, <2>1, <2>2 DEF Regular
<1>4. CASE ~(Adopts(d) /\ d \notin s.done)
  <2>1. /\ Prepared(s, d).done = s.done /\ Prepared(s, d).uploaded = s.uploaded
        /\ \/ Prepared(s, d).generated = s.generated
           \/ Prepared(s, d).generated = s.generated \cup PartsOf(d)
    BY <1>4 DEF Prepared, State
  <2>2. PartsOf(d) = Training \/ PartsOf(d) = {Declaration}
    BY DEF PartsOf, Doc
  <2> QED BY <1>1, <1>2, <2>1, <2>2 DEF Regular
<1> QED BY <1>3, <1>4

LEMMA AcceptedRegular ==
  ASSUME Inv, op.kind \in {"upload", "office"}, Regular(op.copy)
  PROVE  /\ Regular(Accepted(op.copy))
         /\ Accepted(op.copy).generated = op.copy.generated
<1> DEFINE p == op.part
           a == Accepted(op.copy)
           waits == Countersigned /\ p # Declaration /\ op.kind = "upload"
           parts == IF waits THEN op.copy.done ELSE op.copy.done \cup {p}
<1>1. op.copy \in State /\ p \in Part
  BY DEF Inv, TypeOK, Operation
<1>2. /\ a.generated = op.copy.generated
      /\ a.uploaded = op.copy.uploaded \cup {p}
      /\ a.done = IF p = Declaration THEN parts
                  ELSE IF Training \subseteq parts THEN parts \cup {Agreement}
                                                   ELSE parts \ {Agreement}
  BY <1>1 DEF Accepted, State
<1>3. /\ Agreement \notin Part /\ Declaration \notin Training
      /\ Training \subseteq Part /\ (p # Declaration => p \in Training)
      /\ Declaration # Agreement /\ Declaration \in Part
  BY <1>1 DEF Part
<1>4. a.done \cap Part = parts \cap Part
  BY <1>2, <1>3
<1>5. /\ op.copy.done \subseteq parts
      /\ p \in parts \/ (Countersigned /\ p \in Training)
      /\ p = Declaration => parts \cap Training = op.copy.done \cap Training
  BY <1>3
<1>6. Training \subseteq a.done => Agreement \in a.done
  BY <1>2, <1>3, <1>4, <1>5 DEF Regular
<1> HIDE DEF a, parts, p
<1>7. Declaration \in a.uploaded => Declaration \in a.done
  BY <1>2, <1>3, <1>4, <1>5 DEF Regular
<1>8. ~Countersigned => a.uploaded \cap Training \subseteq a.done
  BY <1>2, <1>3, <1>4, <1>5 DEF Regular
<1>9. Regular(a)
  BY <1>2, <1>6, <1>7, <1>8 DEF Regular
<1> QED BY <1>2, <1>9 DEF a

LEMMA WaySaves ==
  ASSUME Inv, OrderInv, WayInv,
         \/ SaveFields \/ SaveUnconfirmed \/ SavePrepared \/ RenderFails
         \/ SaveUpload
  PROVE  WayInv'
<1>1. /\ TypeOK /\ op.copy \in State
      /\ Declaration \in Doc /\ Agreement \in Doc /\ Declaration \notin Training
      /\ Backed(op.copy, signed, countersigned, seats)
  BY DEF Inv, TypeOK, Operation, StatesBacked, Doc
<1>2. Works /\ UNCHANGED signed
  BY DEF SaveFields, SaveUnconfirmed, SavePrepared, RenderFails, SaveUpload, Works,
     files
<1>3. Regular(op.copy)
  BY <1>2 DEF WayInv
<1>4. CASE SaveFields
  <2> DEFINE s == [op.copy EXCEPT !.confirmed = TRUE,
                                  !.generated = @ \ {Declaration}]
  <2>1. /\ s \in State /\ s.done = op.copy.done /\ s.uploaded = op.copy.uploaded
        /\ s.generated = op.copy.generated \ {Declaration} /\ Save(s)
    BY <1>1, <1>4 DEF State, SaveFields
  <2> HIDE DEF s
  <2>2. Regular(s)
    BY <1>1, <1>3, <2>1 DEF Regular
  <2> QED BY <1>1, <1>2, <2>1, <2>2, WayWritten
<1> DEFINE c == [op.copy EXCEPT !.confirmed = FALSE]
           s == Prepared(op.copy, Declaration)
           u == Prepared(s, Agreement)
<1>5. /\ s \in State /\ Regular(s) /\ s.finished = op.copy.finished
      /\ op.copy.generated \subseteq s.generated
      /\ Backed(s, signed, countersigned, seats)
  BY <1>1, <1>3, PreparedBacked, PreparedRegular
<1>6. CASE SavePrepared
  <2>1. Save(u)
    BY <1>6 DEF SavePrepared
  <2> HIDE DEF s
  <2>2. u \in State /\ Regular(u) /\ s.generated \subseteq u.generated
    BY <1>1, <1>5, PreparedBacked, PreparedRegular
  <2> HIDE DEF u
  <2>3. op.copy.generated \cap Training \subseteq u.generated
    BY <1>5, <2>2
  <2> QED BY <1>2, <2>1, <2>2, <2>3, WayWritten
<1>7. CASE RenderFails
  <2>1. saved' \in {c, s} /\ op' = Idle /\ ~op.copy.finished
    BY <1>7 DEF RenderFails, WayInv
  <2>2. /\ c \in State /\ Regular(c) /\ c.generated = op.copy.generated
        /\ c.finished = op.copy.finished
    BY <1>1, <1>3 DEF State, Regular
  <2> HIDE DEF c, s
  <2> QED BY <1>2, <1>5, <2>1, <2>2, WayWritten
<1>8. CASE SaveUpload
  <2>1. Accepted(op.copy) \in State /\ Save(Accepted(op.copy))
    BY <1>8, AcceptedBacked DEF SaveUpload
  <2>2. /\ Regular(Accepted(op.copy))
        /\ Accepted(op.copy).generated = op.copy.generated
    BY <1>3, <1>8, AcceptedRegular DEF SaveUpload
  <2> QED BY <1>2, <2>1, <2>2, WayWritten
<1>9. CASE SaveUnconfirmed
  <2>1. Save(c)
    BY <1>9 DEF SaveUnconfirmed
  <2>2. c \in State /\ Regular(c) /\ c.generated = op.copy.generated
    BY <1>1, <1>3 DEF State, Regular
  <2> HIDE DEF c
  <2> QED BY <1>2, <2>1, <2>2, WayWritten
<1> QED BY <1>4, <1>6, <1>7, <1>8, <1>9

\* For any trainings, with and without the office, and any number of failures:
\* whatever a failed operation left behind, one of save_fields, start, upload and
\* countersign finds its guard open until the step is complete.
THEOREM StepNeverWedged ==
  ASSUME Training # {} PROVE Spec => []NeverWedged
<1>1. Init => OrderInv /\ WayInv
  <2> SUFFICES ASSUME Init PROVE OrderInv /\ WayInv
    OBVIOUS
  <2>1. /\ op = Idle /\ saved = Empty /\ left = FALSE
        /\ countersigned = {} /\ \A p \in Part : signed[p] = 0
    BY DEF Init
  <2>2. /\ Empty.uploaded = {} /\ Empty.generated = {} /\ Empty.done = {}
        /\ Empty.finished = FALSE
    BY DEF Empty
  <2>3. OrderInv
    BY <2>1, IdleIsEmpty DEF OrderInv, Works
  <2>4. Regular(saved) /\ Offered(saved, signed)
    BY <2>1, <2>2 DEF Regular, Offered, Part
  <2> QED BY <2>1, <2>2, <2>3, <2>4, IdleIsEmpty DEF WayInv, Works
<1>2. Inv /\ OrderInv /\ WayInv /\ [Next]_vars => OrderInv' /\ WayInv'
  <2>1. Inv /\ OrderInv /\ [Next]_vars => OrderInv'
    BY BeginUnseen, OtherUnseen, SignStep, CountersignStep, TakeSeatStep,
       SaveInTurn, LeaveStep DEF Next, OpStep
  <2>2. Inv /\ OrderInv /\ WayInv /\ [Next]_vars => WayInv'
    BY WayBegins, WayOthers, WaySigned, WaySaves DEF Next, OpStep
  <2> QED BY <2>1, <2>2
<1>3. Inv /\ OrderInv /\ WayInv => NeverWedged
  BY WayOn DEF Inv
<1> QED BY <1>1, <1>2, <1>3, Inductive, PTL DEF Spec

=============================================================================
