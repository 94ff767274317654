------------------------ MODULE TrainingSeats_proofs ------------------------
(* For any number of submissions and any capacities, the seats granted by   *)
(* lock_for_agreement fit the capacity they were granted under.             *)
(*                                                                          *)
(* GrantsFitCapacity is not inductive: at the commit it needs what the      *)
(* count found, and that nobody else was granted a seat since.  Hence       *)
(* CountedSeatKept, and LockOwner, which says the Form row is held from the *)
(* count to the commit.                                                     *)
EXTENDS TrainingSeats, FiniteSetTheorems, TLAPS

\* The Form row is held by exactly the upload that has counted.
LockOwner == \A s \in Submission : upload[s] = "counted" <=> formLock = s

IInv == TypeOK /\ LockOwner /\ CountedSeatKept /\ GrantsFitCapacity

\* What every step but the count and the commit does to the grants: it makes
\* none, moves no snapshot under one and lets no upload pass the count.
NoNewGrant ==
  /\ Granted' \subseteq Granted
  /\ \A s \in Granted' : row'[s].capacity = row[s].capacity
  /\ \A s \in Submission : upload'[s] = "counted" =>
       upload[s] = "counted" /\ row'[s].capacity = row[s].capacity

USE SeatsAssumption

-----------------------------------------------------------------------------
\* A set of submissions is finite, so its cardinality is a number.
LEMMA GroupsFinite ==
  ASSUME NEW S, S \subseteq Submission
  PROVE  IsFiniteSet(S) /\ Cardinality(S) \in Nat
BY FS_Subset, FS_CardinalityType

\* A part of a group is no larger than the group.
LEMMA PartIsSmaller ==
  ASSUME NEW S, S \subseteq Submission, NEW R, R \subseteq S
  PROVE  Cardinality(R) <= Cardinality(S)
BY GroupsFinite, FS_Subset

\* A snapshot's capacity is an integer.
LEMMA CapacityIsInt ==
  ASSUME TypeOK, NEW s \in Submission
  PROVE  row[s] \in Row /\ row[s].capacity \in Int
<1>1. row[s] \in Row
  BY DEF TypeOK
<1>2. row[s].capacity \in Capacity
  BY <1>1 DEF Row
<1>3. Capacity \subseteq Int
  BY DEF Capacity, NoLimit
<1> QED
  BY <1>1, <1>2, <1>3

\* The row synchronize_legacy leaves is a row.
LEMMA SynchronizedType ==
  ASSUME TypeOK, NEW s \in Submission
  PROVE  /\ Synchronized(s) \in Row
         /\ Synchronized(s).capacity = row[s].capacity
         /\ Synchronized(s).is_locked /\ Synchronized(s).locked_by_event = "upload"
              => row[s].is_locked /\ row[s].locked_by_event = "upload"
<1> DEFINE r == IF row[s].status = "none" /\ chosen[s]
                  THEN [row[s] EXCEPT !.status = "selected"] ELSE row[s]
<1>1. row[s] \in Row
  BY DEF TypeOK
<1>2. /\ r \in Row
      /\ r.capacity = row[s].capacity
      /\ r.is_locked = row[s].is_locked
      /\ r.locked_by_event = row[s].locked_by_event
  BY <1>1 DEF Row, Status
<1>3. Synchronized(s) = IF r.status # "none" /\ agreement[s] = "signed" /\ ~r.is_locked
        THEN [r EXCEPT !.status = "uploaded", !.is_locked = TRUE,
                       !.locked_by_event = "legacy"]
        ELSE r
  BY DEF Synchronized
<1> QED
  BY <1>2, <1>3 DEF Row, Status

\* The row save leaves is a row; a locked one is the row it was.
LEMMA SavedType ==
  ASSUME TypeOK, NEW r \in Row, NEW wanted \in BOOLEAN
  PROVE  /\ Saved(r, wanted) \in Row
         /\ Saved(r, wanted).is_locked => Saved(r, wanted) = r
<1> USE DEF Row, Status
<1>1. CASE Occupies(r)
  BY <1>1 DEF Saved
<1>2. CASE ~Occupies(r) /\ wanted /\ r.status = "none"
  <2>1. Saved(r, wanted) = [r EXCEPT !.status = "selected", !.capacity = catalog]
    BY <1>2 DEF Saved
  <2> QED
    BY <1>2, <2>1 DEF TypeOK, Occupies
<1>3. CASE ~Occupies(r) /\ wanted /\ r.status \in {"cancelled", "unselected"}
  <2>1. Saved(r, wanted) = [r EXCEPT !.status = "selected"]
    BY <1>3 DEF Saved
  <2> QED
    BY <1>3, <2>1 DEF Occupies
<1>4. CASE ~Occupies(r) /\ ~wanted /\ r.status # "none"
  <2>1. Saved(r, wanted) = [r EXCEPT !.status = "unselected"]
    BY <1>4 DEF Saved
  <2> QED
    BY <1>4, <2>1 DEF Occupies
<1>5. CASE /\ ~Occupies(r)
           /\ ~(wanted /\ r.status \in {"none", "cancelled", "unselected"})
           /\ ~(~wanted /\ r.status # "none")
  <2>1. Saved(r, wanted) = r
    BY <1>5 DEF Saved
  <2> QED
    BY <2>1
<1> QED
  BY <1>1, <1>2, <1>3, <1>4, <1>5

-----------------------------------------------------------------------------
LEMMA InitHolds == Init => IInv
<1> SUFFICES ASSUME Init PROVE IInv
  OBVIOUS
<1>1. TypeOK
  BY DEF Init, TypeOK, Row, Status
<1>2. LockOwner /\ CountedSeatKept
  BY DEF Init, LockOwner, CountedSeatKept
<1>3. GrantsFitCapacity
  BY DEF Init, GrantsFitCapacity, Granted
<1> QED
  BY <1>1, <1>2, <1>3 DEF IInv

LEMMA TypePreserved == TypeOK /\ [Next]_vars => TypeOK'
<1> SUFFICES ASSUME TypeOK, [Next]_vars PROVE TypeOK'
  OBVIOUS
<1>1. CASE ChangeCapacity
  BY <1>1 DEF ChangeCapacity, TypeOK
<1>2. ASSUME NEW s \in Submission, NEW wanted \in BOOLEAN,
             SaveSelection(s, wanted)
      PROVE  TypeOK'
  <2>1. Saved(Synchronized(s), wanted) \in Row
    BY SynchronizedType, SavedType
  <2> DEFINE after == Saved(Synchronized(s), wanted)
  <2>2. Active(after) \in BOOLEAN
    BY <2>1 DEF Active, Row
  <2>3. row' = [row EXCEPT ![s] = after] /\ chosen' = [chosen EXCEPT ![s] = Active(after)]
        /\ UNCHANGED <<agreement, catalog, formLock, upload, seenLocked>>
    BY <1>2 DEF SaveSelection
  <2> HIDE DEF after
  <2> QED
    BY <2>1, <2>2, <2>3 DEF TypeOK, after
<1>3. ASSUME NEW s \in Submission,
             ViewDocuments(s) \/ AssociateGenerated(s) \/ DownloadAgreement(s) \/ LockAgain(s)
      PROVE  TypeOK'
  <2> DEFINE r == Synchronized(s)
  <2>1. r \in Row /\ row[s] \in Row
    BY SynchronizedType DEF TypeOK
  <2>2. \E new \in Row : row' = [row EXCEPT ![s] = new]
    <3>1. CASE ViewDocuments(s)
      BY <2>1, <3>1 DEF ViewDocuments
    <3>2. CASE AssociateGenerated(s)
      <4>1. [r EXCEPT !.status = "generated"] \in Row
        BY <2>1 DEF Row, Status
      <4> QED
        BY <2>1, <3>2, <4>1 DEF AssociateGenerated
    <3>3. CASE DownloadAgreement(s)
      <4>1. [r EXCEPT !.status = "waiting"] \in Row
        BY <2>1 DEF Row, Status
      <4> QED
        BY <3>3, <4>1 DEF DownloadAgreement
    <3>4. CASE LockAgain(s)
      BY <2>1, <3>4 DEF LockAgain
    <3> QED
      BY <1>3, <3>1, <3>2, <3>3, <3>4
  <2>3. /\ upload' \in [Submission -> {"idle", "verified", "counted", "locked"}]
        /\ UNCHANGED <<chosen, agreement, catalog, formLock, seenLocked>>
    BY <1>3 DEF ViewDocuments, AssociateGenerated, DownloadAgreement, LockAgain, TypeOK
  <2> QED
    BY <2>2, <2>3 DEF TypeOK
<1>4. ASSUME NEW s \in Submission, LoadSigned(s)
      PROVE  TypeOK'
  <2>1. Synchronized(s).is_locked \in BOOLEAN
    BY SynchronizedType DEF Row
  <2> QED
    BY <1>4, <2>1 DEF LoadSigned, TypeOK
<1>5. ASSUME NEW s \in Submission,
             GenerateAgreement(s) \/ UploadSigned(s) \/ CountSeats(s) \/ RefuseSeat(s)
             \/ WriteSigned(s) \/ Crash(s) \/ RejectAgreement(s)
      PROVE  TypeOK'
  BY <1>5 DEF GenerateAgreement, UploadSigned, CountSeats, RefuseSeat, WriteSigned, Crash,
              RejectAgreement, TypeOK
<1>6. ASSUME NEW s \in Submission,
             LockSeat(s) \/ CancelParticipation(s) \/ CheckFolder(s)
      PROVE  TypeOK'
  <2>1. /\ [row[s] EXCEPT !.status = "uploaded", !.is_locked = TRUE,
                           !.locked_by_event = "upload",
                           !.office_file = FileDue(row[s].office_file)] \in Row
        /\ [row[s] EXCEPT !.status = "cancelled", !.is_locked = FALSE] \in Row
        /\ [row[s] EXCEPT !.status = "uploaded", !.office_file = "found"] \in Row
    BY CapacityIsInt DEF Row, Status, FileDue
  <2>2. row' \in [Submission -> Row]
    BY <1>6, <2>1 DEF LockSeat, CancelParticipation, CheckFolder, TypeOK
  <2> QED
    BY <1>6, <2>2 DEF LockSeat, CancelParticipation, CheckFolder, TypeOK
<1>7. CASE UNCHANGED vars
  BY <1>7 DEF vars, TypeOK
<1> QED
  BY <1>1, <1>2, <1>3, <1>4, <1>5, <1>6, <1>7 DEF Next

LEMMA LockOwnerPreserved == TypeOK /\ LockOwner /\ [Next]_vars => LockOwner'
<1> SUFFICES ASSUME TypeOK, LockOwner, [Next]_vars PROVE LockOwner'
  OBVIOUS
<1>1. CASE UNCHANGED <<formLock, upload>>
  BY <1>1 DEF LockOwner
<1>2. ASSUME NEW s \in Submission,
             UploadSigned(s) \/ LoadSigned(s) \/ LockAgain(s) \/ RefuseSeat(s) \/ WriteSigned(s)
      PROVE  LockOwner'
  BY <1>2 DEF UploadSigned, LoadSigned, LockAgain, RefuseSeat, WriteSigned, LockOwner, TypeOK
<1>3. ASSUME NEW s \in Submission, CountSeats(s) \/ LockSeat(s) \/ Crash(s)
      PROVE  LockOwner'
  BY <1>3 DEF CountSeats, LockSeat, Crash, LockOwner, TypeOK
<1> QED
  BY <1>1, <1>2, <1>3 DEF Next, vars, ChangeCapacity, SaveSelection, ViewDocuments,
     GenerateAgreement, AssociateGenerated, DownloadAgreement, CancelParticipation,
     RejectAgreement, CheckFolder

-----------------------------------------------------------------------------
\* Every step but CountSeats and LockSeat makes no new grant.
LEMMA OtherStepsGrantNothing ==
  ASSUME TypeOK, LockOwner, [Next]_vars,
         \A s \in Submission : ~CountSeats(s) /\ ~LockSeat(s)
  PROVE  NoNewGrant
<1>1. CASE UNCHANGED <<row, upload>>
  BY <1>1 DEF NoNewGrant, Granted
<1>2. ASSUME NEW s \in Submission, NEW wanted \in BOOLEAN, SaveSelection(s, wanted)
      PROVE  NoNewGrant
  <2> DEFINE before == Synchronized(s)
             after == Saved(before, wanted)
  <2>1. /\ before \in Row
        /\ before.capacity = row[s].capacity
        /\ before.is_locked /\ before.locked_by_event = "upload"
             => row[s].is_locked /\ row[s].locked_by_event = "upload"
    BY SynchronizedType
  <2>2. after \in Row /\ (after.is_locked => after = before)
    BY <2>1, SavedType
  <2>3. row' = [row EXCEPT ![s] = after] /\ upload' = upload /\ formLock = Nobody
    BY <1>2 DEF SaveSelection
  <2> HIDE DEF before, after
  <2>4. \A t \in Submission : upload'[t] # "counted"
    BY <2>3 DEF LockOwner
  <2> QED
    BY <2>1, <2>2, <2>3, <2>4 DEF NoNewGrant, Granted, TypeOK
<1>3. ASSUME NEW s \in Submission,
             ViewDocuments(s) \/ AssociateGenerated(s) \/ DownloadAgreement(s) \/ LockAgain(s)
      PROVE  NoNewGrant
  <2>1. /\ Synchronized(s) \in Row
        /\ Synchronized(s).capacity = row[s].capacity
        /\ Synchronized(s).is_locked /\ Synchronized(s).locked_by_event = "upload"
             => row[s].is_locked /\ row[s].locked_by_event = "upload"
    BY SynchronizedType
  <2> DEFINE r == Synchronized(s)
             OldGrant(new) ==
               /\ row' = [row EXCEPT ![s] = new]
               /\ new.capacity = row[s].capacity
               /\ new.is_locked /\ new.locked_by_event = "upload"
                    => row[s].is_locked /\ row[s].locked_by_event = "upload"
  <2>2. \E new \in Row : OldGrant(new)
    <3>1. CASE ViewDocuments(s)
      BY <2>1, <3>1 DEF ViewDocuments
    <3>2. CASE AssociateGenerated(s)
      <4> DEFINE g == [r EXCEPT !.status = "generated"]
      <4>1. /\ g \in Row /\ g.capacity = r.capacity
            /\ g.is_locked = r.is_locked /\ g.locked_by_event = r.locked_by_event
        BY <2>1 DEF Row, Status
      <4> QED
        BY <2>1, <3>2, <4>1 DEF AssociateGenerated
    <3>3. CASE DownloadAgreement(s)
      <4> DEFINE g == [r EXCEPT !.status = "waiting"]
      <4>1. /\ g \in Row /\ g.capacity = r.capacity
            /\ g.is_locked = r.is_locked /\ g.locked_by_event = r.locked_by_event
        BY <2>1 DEF Row, Status
      <4> QED
        BY <2>1, <3>3, <4>1 DEF DownloadAgreement
    <3>4. CASE LockAgain(s)
      BY <2>1, <3>4, CapacityIsInt DEF LockAgain
    <3> QED
      BY <1>3, <3>1, <3>2, <3>3, <3>4
  <2>3. \A t \in Submission : upload'[t] = "counted" => upload[t] = "counted"
    BY <1>3 DEF ViewDocuments, AssociateGenerated, DownloadAgreement, LockAgain, TypeOK
  <2> QED
    BY <2>2, <2>3 DEF NoNewGrant, Granted, TypeOK
<1>4. ASSUME NEW s \in Submission,
             UploadSigned(s) \/ LoadSigned(s) \/ RefuseSeat(s) \/ WriteSigned(s) \/ Crash(s)
      PROVE  NoNewGrant
  BY <1>4 DEF UploadSigned, LoadSigned, RefuseSeat, WriteSigned, Crash,
              NoNewGrant, Granted, TypeOK
<1>5. ASSUME NEW s \in Submission, CancelParticipation(s)
      PROVE  NoNewGrant
  <2> DEFINE new == [row[s] EXCEPT !.status = "cancelled", !.is_locked = FALSE]
  <2>1. new.capacity = row[s].capacity /\ ~new.is_locked
    BY CapacityIsInt DEF Row
  <2>2. row' = [row EXCEPT ![s] = new] /\ upload' = upload
    BY <1>5 DEF CancelParticipation
  <2> HIDE DEF new
  <2> QED
    BY <2>1, <2>2 DEF NoNewGrant, Granted, TypeOK
<1>6. ASSUME NEW s \in Submission, CheckFolder(s)
      PROVE  NoNewGrant
  <2> DEFINE new == [row[s] EXCEPT !.status = "uploaded", !.office_file = "found"]
  <2>1. /\ new.capacity = row[s].capacity /\ new.is_locked = row[s].is_locked
        /\ new.locked_by_event = row[s].locked_by_event
    BY CapacityIsInt DEF Row
  <2>2. row' = [row EXCEPT ![s] = new] /\ upload' = upload
    BY <1>6 DEF CheckFolder
  <2> HIDE DEF new
  <2> QED
    BY <2>1, <2>2 DEF NoNewGrant, Granted, TypeOK
<1> QED
  BY <1>1, <1>2, <1>3, <1>4, <1>5, <1>6 DEF Next, vars, ChangeCapacity,
     GenerateAgreement, RejectAgreement

\* A step that makes no new grant keeps both invariants: they speak of groups
\* of grants, and every group there is now was one before.
LEMMA NoNewGrantKeeps ==
  ASSUME TypeOK, TypeOK', CountedSeatKept, GrantsFitCapacity, NoNewGrant
  PROVE  CountedSeatKept' /\ GrantsFitCapacity'
<1>1. ASSUME NEW s \in Submission, upload'[s] = "counted", row'[s].capacity # NoLimit
      PROVE  Cardinality(Granted' \ {s}) < row'[s].capacity
  <2>1. Granted' \ {s} \subseteq Granted \ {s} /\ Granted \ {s} \subseteq Submission
    BY DEF NoNewGrant, Granted
  <2>2. /\ Cardinality(Granted' \ {s}) <= Cardinality(Granted \ {s})
        /\ Cardinality(Granted' \ {s}) \in Nat /\ Cardinality(Granted \ {s}) \in Nat
    BY <2>1, PartIsSmaller, GroupsFinite
  <2>3. Cardinality(Granted \ {s}) < row[s].capacity /\ row'[s].capacity = row[s].capacity
    BY <1>1 DEF NoNewGrant, CountedSeatKept
  <2>4. row[s].capacity \in Int
    BY CapacityIsInt
  <2> QED
    BY <2>2, <2>3, <2>4
<1>2. CountedSeatKept'
  BY <1>1 DEF CountedSeatKept
<1>3. ASSUME NEW S \in SUBSET Granted', S # {}
      PROVE  \E s \in S : Fits(S, row'[s].capacity)
  <2>1. S \in SUBSET Granted
    BY DEF NoNewGrant
  <2>2. PICK s \in S : Fits(S, row[s].capacity)
    BY <1>3, <2>1 DEF GrantsFitCapacity
  <2> QED
    BY <2>2 DEF NoNewGrant
<1>4. GrantsFitCapacity'
  BY <1>3 DEF GrantsFitCapacity, Fits
<1> QED
  BY <1>2, <1>4

\* The count: the grants of others are among the seats it counted.
LEMMA CountKeeps ==
  ASSUME IInv, TypeOK', NEW s \in Submission, CountSeats(s)
  PROVE  CountedSeatKept' /\ GrantsFitCapacity'
<1>1. row' = row /\ Granted' = Granted
  BY DEF CountSeats, Granted
<1>2. GrantsFitCapacity'
  BY <1>1 DEF IInv, GrantsFitCapacity, Fits
<1>3. ASSUME NEW t \in Submission, upload'[t] = "counted"
      PROVE  t = s
  BY <1>3 DEF CountSeats, IInv, LockOwner, TypeOK
<1>4. /\ Granted \ {s} \subseteq Holders \ {s}
      /\ Holders \ {s} \subseteq Submission
  BY DEF Granted, Holders, Occupies
<1>5. /\ Cardinality(Granted \ {s}) <= Cardinality(Holders \ {s})
      /\ Cardinality(Granted \ {s}) \in Nat /\ Cardinality(Holders \ {s}) \in Nat
  BY <1>4, PartIsSmaller, GroupsFinite
<1>6. row[s].capacity = NoLimit \/ Cardinality(Holders \ {s}) < row[s].capacity
  BY DEF CountSeats, FreeFor
<1>7. row[s].capacity \in Int
  BY CapacityIsInt DEF IInv
<1>8. row[s].capacity = NoLimit \/ Cardinality(Granted \ {s}) < row[s].capacity
  BY <1>5, <1>6, <1>7
<1>9. CountedSeatKept'
  BY <1>1, <1>3, <1>8 DEF CountedSeatKept
<1> QED
  BY <1>2, <1>9

\* The commit: a group without the new seat was a group before; for a group
\* with it the new seat is the member whose snapshot has room.
LEMMA LockKeeps ==
  ASSUME IInv, TypeOK', NEW s \in Submission, LockSeat(s)
  PROVE  CountedSeatKept' /\ GrantsFitCapacity'
<1>1. /\ \A t \in Submission : row'[t].capacity = row[t].capacity
      /\ Granted' = Granted \cup {s}
  <2>1. row[s] \in Row
    BY CapacityIsInt DEF IInv
  <2> DEFINE new == [row[s] EXCEPT !.status = "uploaded", !.is_locked = TRUE,
                                   !.locked_by_event = "upload",
                                   !.office_file = FileDue(row[s].office_file)]
  <2>2. /\ new.capacity = row[s].capacity
        /\ new.is_locked /\ new.locked_by_event = "upload"
    BY <2>1 DEF Row
  <2>3. row' = [row EXCEPT ![s] = new]
    BY DEF LockSeat
  <2> HIDE DEF new
  <2> QED
    BY <2>2, <2>3 DEF Granted, IInv, TypeOK
<1>2. CountedSeatKept'
  <2>1. \A t \in Submission : upload'[t] # "counted"
    BY DEF LockSeat, IInv, LockOwner, TypeOK
  <2> QED
    BY <2>1 DEF CountedSeatKept
<1>3. ASSUME NEW S \in SUBSET Granted', S # {}
      PROVE  \E t \in S : Fits(S, row'[t].capacity)
  <2>1. CASE s \notin S
    <3>1. PICK t \in S : Fits(S, row[t].capacity)
      BY <1>1, <1>3, <2>1 DEF IInv, GrantsFitCapacity
    <3> QED
      BY <1>1, <1>3, <3>1 DEF Granted
  <2>2. CASE s \in S
    <3>1. /\ S \ {s} \subseteq Granted \ {s} /\ Granted \ {s} \subseteq Submission
          /\ S \subseteq Submission
      BY <1>1, <1>3 DEF Granted
    <3>2. /\ Cardinality(S \ {s}) <= Cardinality(Granted \ {s})
          /\ Cardinality(S \ {s}) \in Nat /\ Cardinality(Granted \ {s}) \in Nat
          /\ IsFiniteSet(S)
      BY <3>1, PartIsSmaller, GroupsFinite
    <3>3. Cardinality(S \ {s}) = Cardinality(S) - 1 /\ Cardinality(S) \in Nat
      BY <2>2, <3>1, <3>2, GroupsFinite, FS_RemoveElement
    <3>4. row[s].capacity = NoLimit \/ Cardinality(Granted \ {s}) < row[s].capacity
      BY DEF IInv, CountedSeatKept, LockSeat
    <3>5. row[s].capacity \in Int
      BY CapacityIsInt DEF IInv
    <3>6. Fits(S, row[s].capacity)
      BY <3>2, <3>3, <3>4, <3>5 DEF Fits
    <3> QED
      BY <1>1, <2>2, <3>6
  <2> QED
    BY <2>1, <2>2
<1>4. GrantsFitCapacity'
  BY <1>3 DEF GrantsFitCapacity, Fits
<1> QED
  BY <1>2, <1>4

LEMMA StepHolds == IInv /\ [Next]_vars => IInv'
<1> SUFFICES ASSUME IInv, [Next]_vars PROVE IInv'
  OBVIOUS
<1>1. TypeOK' /\ LockOwner'
  BY TypePreserved, LockOwnerPreserved DEF IInv
<1>2. CASE \E s \in Submission : CountSeats(s)
  BY <1>1, <1>2, CountKeeps DEF IInv
<1>3. CASE \E s \in Submission : LockSeat(s)
  BY <1>1, <1>3, LockKeeps DEF IInv
<1>4. CASE \A s \in Submission : ~CountSeats(s) /\ ~LockSeat(s)
  BY <1>1, <1>4, OtherStepsGrantNothing, NoNewGrantKeeps DEF IInv
<1> QED
  BY <1>2, <1>3, <1>4

LEMMA Invariance == Spec => []IInv
BY InitHolds, StepHolds, PTL DEF Spec

\* Every variable keeps its type.
THEOREM TypeCorrect == Spec => []TypeOK
<1>1. IInv => TypeOK
  BY DEF IInv
<1> QED
  BY <1>1, Invariance, PTL

\* Seats granted by lock_for_agreement never exceed the capacity they were
\* granted under, for any submissions, capacities and interleaving.
THEOREM CapacitySafe == Spec => []GrantsFitCapacity
<1>1. IInv => GrantsFitCapacity
  BY DEF IInv
<1> QED
  BY <1>1, Invariance, PTL

\* What the count found holds until the commit.
THEOREM CountSafe == Spec => []CountedSeatKept
<1>1. IInv => CountedSeatKept
  BY DEF IInv
<1> QED
  BY <1>1, Invariance, PTL

-----------------------------------------------------------------------------
\* Synchronizing never takes a seat away, and adds one only by locking the row.
LEMMA SynchronizedKeepsSeat ==
  ASSUME TypeOK, NEW s \in Submission, Occupies(row[s])
  PROVE  Occupies(Synchronized(s))
<1> DEFINE r == IF row[s].status = "none" /\ chosen[s]
                  THEN [row[s] EXCEPT !.status = "selected"] ELSE row[s]
<1>1. row[s] \in Row
  BY DEF TypeOK
<1>2. r \in Row /\ Occupies(r)
  BY <1>1 DEF Row, Status, Occupies, LOCKING_STATUSES
<1>3. Synchronized(s) = IF r.status # "none" /\ agreement[s] = "signed" /\ ~r.is_locked
        THEN [r EXCEPT !.status = "uploaded", !.is_locked = TRUE,
                       !.locked_by_event = "legacy"]
        ELSE r
  BY DEF Synchronized
<1> HIDE DEF r
<1> QED
  BY <1>2, <1>3 DEF Row, Status, Occupies

\* Replacing one row by one that keeps its seat leaves every seat taken.
LEMMA RowReplaced ==
  ASSUME TypeOK, NEW s \in Submission, NEW r,
         row' = [row EXCEPT ![s] = r],
         Occupies(row[s]) => Occupies(r),
         NEW q \in Submission, Occupies(row[q])
  PROVE  Occupies(row'[q])
BY DEF TypeOK

\* Every step but a cancellation leaves each occupied row occupied.
LEMMA SeatKept ==
  ASSUME TypeOK, [Next]_vars, NEW q \in Submission,
         Occupies(row[q]), ~Occupies(row'[q])
  PROVE  row'[q].status = "cancelled"
<1>1. ASSUME NEW s \in Submission, NEW wanted \in BOOLEAN,
             SaveSelection(s, wanted)
      PROVE  row'[q].status = "cancelled"
  <2>1. Occupies(row[s]) => Saved(Synchronized(s), wanted) = Synchronized(s)
    BY SynchronizedKeepsSeat DEF Saved
  <2> QED
    BY <1>1, <2>1, SynchronizedKeepsSeat, RowReplaced DEF SaveSelection
<1>2. ASSUME NEW s \in Submission, ViewDocuments(s)
      PROVE  row'[q].status = "cancelled"
  BY <1>2, SynchronizedKeepsSeat, RowReplaced DEF ViewDocuments
<1>3. ASSUME NEW s \in Submission, AssociateGenerated(s)
      PROVE  row'[q].status = "cancelled"
  <2> DEFINE r == Synchronized(s)
             a == IF ~r.is_locked /\ r.status = "selected"
                    THEN [r EXCEPT !.status = "generated"] ELSE r
  <2>1. row' = [row EXCEPT ![s] = a]
    BY <1>3 DEF AssociateGenerated
  <2>2. Occupies(r) => a = r
    BY DEF Occupies, LOCKING_STATUSES
  <2>3. Occupies(row[s]) => Occupies(a)
    BY <2>2, SynchronizedKeepsSeat
  <2> HIDE DEF a
  <2> QED
    BY <2>1, <2>3, RowReplaced
<1>4. ASSUME NEW s \in Submission, DownloadAgreement(s)
      PROVE  row'[q].status = "cancelled"
  <2>1. ~Occupies(row[s])
    BY <1>4, SynchronizedKeepsSeat DEF DownloadAgreement
  <2>2. row'[q] = row[q] \/ q = s
    BY <1>4 DEF DownloadAgreement, TypeOK
  <2> QED
    BY <2>1, <2>2
<1>5. ASSUME NEW s \in Submission, LockAgain(s)
      PROVE  row'[q].status = "cancelled"
  <2>1. row' = [row EXCEPT ![s] = IF s \in Composite THEN Synchronized(s) ELSE row[s]]
    BY <1>5 DEF LockAgain
  <2> QED
    BY <2>1, SynchronizedKeepsSeat, RowReplaced
<1>6. ASSUME NEW s \in Submission, LockSeat(s)
      PROVE  row'[q].status = "cancelled"
  <2>1. row' = [row EXCEPT ![s] =
                 [@ EXCEPT !.status = "uploaded", !.is_locked = TRUE,
                           !.locked_by_event = "upload",
                           !.office_file = FileDue(row[s].office_file)]]
    BY <1>6 DEF LockSeat
  <2>2. row[s] \in Row /\ row'[s] = [row[s] EXCEPT !.status = "uploaded",
                      !.is_locked = TRUE, !.locked_by_event = "upload",
                      !.office_file = FileDue(row[s].office_file)]
    BY <2>1 DEF TypeOK
  <2>3. row'[q] = row[q] \/ q = s
    BY <2>1 DEF TypeOK
  <2> QED
    BY <2>2, <2>3 DEF Occupies, Row
<1>7. ASSUME NEW s \in Submission, CancelParticipation(s)
      PROVE  row'[q].status = "cancelled"
  <2>1. row' = [row EXCEPT ![s] =
                 [@ EXCEPT !.status = "cancelled", !.is_locked = FALSE]]
    BY <1>7 DEF CancelParticipation
  <2>2. row[s] \in Row /\ row'[s] = [row[s] EXCEPT !.status = "cancelled",
                                             !.is_locked = FALSE]
    BY <2>1 DEF TypeOK
  <2>3. row'[q] = row[q] \/ q = s
    BY <2>1 DEF TypeOK
  <2> QED
    BY <2>2, <2>3 DEF Row
<1>8. ASSUME NEW s \in Submission, CheckFolder(s)
       PROVE  row'[q].status = "cancelled"
  <2>1. row' = [row EXCEPT ![s] =
                 [@ EXCEPT !.status = "uploaded", !.office_file = "found"]]
    BY <1>8 DEF CheckFolder
  <2>2. row[s] \in Row /\ row'[s] = [row[s] EXCEPT !.status = "uploaded",
                                             !.office_file = "found"]
    BY <2>1 DEF TypeOK
  <2>3. row'[q] = row[q] \/ q = s
    BY <2>1 DEF TypeOK
  <2>4. row'[s].status = "uploaded"
    BY <2>2 DEF Row
  <2> QED
    BY <2>3, <2>4 DEF Occupies, LOCKING_STATUSES
<1>9. ASSUME UNCHANGED row PROVE FALSE
  BY <1>9
<1>10. CASE ChangeCapacity \/ UNCHANGED vars
  BY <1>9, <1>10 DEF ChangeCapacity, vars
<1>11. ASSUME NEW s \in Submission,
              \/ GenerateAgreement(s) \/ UploadSigned(s) \/ LoadSigned(s)
              \/ CountSeats(s) \/ RefuseSeat(s) \/ WriteSigned(s)
              \/ Crash(s) \/ RejectAgreement(s)
       PROVE  FALSE
  BY <1>9, <1>11 DEF GenerateAgreement, UploadSigned, LoadSigned, CountSeats,
     RefuseSeat, WriteSigned, Crash, RejectAgreement
<1> QED
  BY <1>1, <1>2, <1>3, <1>4, <1>5, <1>6, <1>7, <1>10, <1>11, <1>8 DEF Next

\* A seat, once taken, is given back by the office's cancellation only: no
\* save, download, rejection, crash or repeated upload drops a locked row.
THEOREM SeatStays == Spec => OnlyCancellationFreesSeat
<1>1. TypeOK /\ [Next]_vars =>
        [\A s \in Submission : Occupies(row[s]) /\ ~Occupies(row'[s])
            => row'[s].status = "cancelled"]_vars
  BY SeatKept
<1> QED
  BY <1>1, TypeCorrect, PTL DEF Spec, OnlyCancellationFreesSeat

-----------------------------------------------------------------------------
\* Replacing one row, without a new grant and without new terms under an old
\* one, gives a seat back, revises the terms of a choice, or changes nothing.
LEMMA RowStep ==
  ASSUME TypeOK, NEW s \in Submission, NEW new, row' = [row EXCEPT ![s] = new],
         row[s].is_locked => new.capacity = row[s].capacity,
         new.is_locked /\ new.locked_by_event = "upload"
           => row[s].is_locked /\ row[s].locked_by_event = "upload"
  PROVE  Pool!Next \/ UNCHANGED Pool!vars
<1> DEFINE terms == [t \in Submission |-> row[t].capacity]
<1>1. row'[s] = new /\ \A t \in Submission \ {s} : row'[t] = row[t]
  BY DEF TypeOK
<1>2. \A t \in Submission \ {s} : terms'[t] = terms[t]
  BY <1>1
<1>3. Granted' \subseteq Granted /\ Granted \ {s} \subseteq Granted'
  BY <1>1 DEF Granted
<1>4. CASE s \notin Granted
  <2>1. Granted' = Granted
    BY <1>3, <1>4
  <2>2. Pool!Revise(s)
    BY <1>2, <1>4, <2>1 DEF Pool!Revise
  <2> QED
    BY <2>2 DEF Pool!Next
<1>5. CASE s \in Granted
  <2>1. \A t \in Submission : row'[t].capacity = row[t].capacity
    BY <1>1, <1>5 DEF Granted
  <2>2. terms' = terms
    BY <2>1
  <2>3. Granted' = Granted \/ Granted' = Granted \ {s}
    BY <1>3
  <2>4. Granted' = Granted \ {s} => Pool!GiveBack(s)
    BY <1>5, <2>2 DEF Pool!GiveBack
  <2> QED
    BY <2>2, <2>3, <2>4 DEF Pool!Next, Pool!vars
<1> QED
  BY <1>4, <1>5

\* The commit gives the seat the count left free, in one step; a row that was
\* locked already is locked again.
LEMMA LockSeatGrants ==
  ASSUME IInv, NEW s \in Submission, LockSeat(s)
  PROVE  Pool!Next \/ UNCHANGED Pool!vars
<1> DEFINE new == [row[s] EXCEPT !.status = "uploaded", !.is_locked = TRUE,
                                 !.locked_by_event = "upload",
                                 !.office_file = FileDue(row[s].office_file)]
           terms == [t \in Submission |-> row[t].capacity]
<1>1. row[s] \in Row /\ row[s].capacity \in Int
  BY CapacityIsInt DEF IInv
<1>2. /\ row' = [row EXCEPT ![s] = new] /\ upload[s] = "counted"
      /\ new.capacity = row[s].capacity
      /\ new.is_locked /\ new.locked_by_event = "upload"
  BY <1>1 DEF LockSeat, Row
<1> HIDE DEF new
<1>3. Granted' = Granted \cup {s} /\ \A t \in Submission : row'[t].capacity = row[t].capacity
  BY <1>2 DEF Granted, IInv, TypeOK
<1>4. terms' = terms
  BY <1>3
<1>5. CASE s \in Granted
  BY <1>3, <1>4, <1>5 DEF Pool!vars
<1>6. CASE s \notin Granted
  <2>1. Granted \ {s} = Granted
    BY <1>6
  <2>2. row[s].capacity = NoLimit \/ Cardinality(Granted) < row[s].capacity
    BY <1>2, <2>1 DEF IInv, CountedSeatKept
  <2>3. Pool!Cardinality(Granted) = Cardinality(Granted)
    BY DEF Pool!Cardinality, Cardinality
  <2>4. terms[s] = row[s].capacity
    OBVIOUS
  <2>5. Pool!Grant(s)
    BY <1>3, <1>4, <1>6, <2>2, <2>3, <2>4 DEF Pool!Grant
  <2> QED
    BY <2>5 DEF Pool!Next
<1> QED
  BY <1>5, <1>6

LEMMA PoolStep ==
  ASSUME IInv, [Next]_vars
  PROVE  [Pool!Next]_(Pool!vars)
<1> SUFFICES Pool!Next \/ UNCHANGED Pool!vars
  OBVIOUS
<1>1. ASSUME UNCHANGED row PROVE UNCHANGED Pool!vars
  BY <1>1 DEF Pool!vars, Granted
<1>2. ASSUME NEW s \in Submission
      PROVE  /\ row[s] \in Row /\ Synchronized(s) \in Row
             /\ Synchronized(s).capacity = row[s].capacity
             /\ Synchronized(s).is_locked /\ Synchronized(s).locked_by_event = "upload"
                  => row[s].is_locked /\ row[s].locked_by_event = "upload"
             /\ Occupies(row[s]) => Occupies(Synchronized(s))
             /\ row[s].is_locked => Occupies(row[s])
  BY SynchronizedType, SynchronizedKeepsSeat DEF IInv, TypeOK, Occupies
<1>3. ASSUME NEW s \in Submission, NEW wanted \in BOOLEAN, SaveSelection(s, wanted)
      PROVE  Pool!Next \/ UNCHANGED Pool!vars
  <2> DEFINE after == Saved(Synchronized(s), wanted)
  <2>1. row' = [row EXCEPT ![s] = after]
    BY <1>3 DEF SaveSelection
  <2>2. /\ after.is_locked => after = Synchronized(s)
        /\ row[s].is_locked => after = Synchronized(s)
    BY <1>2, SavedType DEF Saved, IInv
  <2> HIDE DEF after
  <2> QED
    BY <1>2, <2>1, <2>2, RowStep DEF IInv
<1>4. ASSUME NEW s \in Submission, ViewDocuments(s) \/ LockAgain(s)
      PROVE  Pool!Next \/ UNCHANGED Pool!vars
  <2>1. \E new \in {Synchronized(s), row[s]} : row' = [row EXCEPT ![s] = new]
    BY <1>4 DEF ViewDocuments, LockAgain
  <2> QED
    BY <1>2, <2>1, RowStep DEF IInv
<1>5. ASSUME NEW s \in Submission, AssociateGenerated(s) \/ DownloadAgreement(s)
      PROVE  Pool!Next \/ UNCHANGED Pool!vars
  <2> DEFINE r == Synchronized(s)
  <2>1. PICK status \in {r.status, "generated", "waiting"} :
          row' = [row EXCEPT ![s] = [r EXCEPT !.status = status]]
    <3>1. r = [r EXCEPT !.status = r.status]
      BY <1>2 DEF Row
    <3> QED
      BY <1>5, <3>1 DEF AssociateGenerated, DownloadAgreement
  <2> DEFINE new == [r EXCEPT !.status = status]
  <2>2. /\ new.capacity = r.capacity /\ new.is_locked = r.is_locked
        /\ new.locked_by_event = r.locked_by_event
    BY <1>2 DEF Row
  <2>3. row' = [row EXCEPT ![s] = new]
    BY <2>1
  <2> HIDE DEF new
  <2> QED
    BY <1>2, <2>2, <2>3, RowStep DEF IInv
<1>6. ASSUME NEW s \in Submission, CancelParticipation(s) \/ CheckFolder(s)
      PROVE  Pool!Next \/ UNCHANGED Pool!vars
  <2>1. PICK new :
          /\ row' = [row EXCEPT ![s] = new] /\ new.capacity = row[s].capacity
          /\ new.locked_by_event = row[s].locked_by_event
          /\ new.is_locked => row[s].is_locked
    <3> DEFINE c == [row[s] EXCEPT !.status = "cancelled", !.is_locked = FALSE]
               f == [row[s] EXCEPT !.status = "uploaded", !.office_file = "found"]
    <3>1. row' = [row EXCEPT ![s] = c] \/ row' = [row EXCEPT ![s] = f]
      BY <1>6 DEF CancelParticipation, CheckFolder
    <3>2. /\ c.capacity = row[s].capacity /\ ~c.is_locked
          /\ c.locked_by_event = row[s].locked_by_event
          /\ f.capacity = row[s].capacity /\ f.is_locked = row[s].is_locked
          /\ f.locked_by_event = row[s].locked_by_event
      BY <1>2 DEF Row
    <3> HIDE DEF c, f
    <3> QED
      BY <3>1, <3>2
  <2> QED
    BY <2>1, RowStep DEF IInv
<1>7. CASE ChangeCapacity \/ UNCHANGED vars
  BY <1>1, <1>7 DEF ChangeCapacity, vars
<1>8. ASSUME NEW s \in Submission,
             \/ GenerateAgreement(s) \/ UploadSigned(s) \/ LoadSigned(s)
             \/ CountSeats(s) \/ RefuseSeat(s) \/ WriteSigned(s)
             \/ Crash(s) \/ RejectAgreement(s)
      PROVE  UNCHANGED Pool!vars
  BY <1>1, <1>8 DEF GenerateAgreement, UploadSigned, LoadSigned, CountSeats,
     RefuseSeat, WriteSigned, Crash, RejectAgreement
<1> QED
  BY <1>3, <1>4, <1>5, <1>6, <1>7, <1>8, LockSeatGrants DEF Next

\* For any submissions, capacities and overlapping uploads, grants are made as
\* by a pool that looks at every seat and gives one in a single step.
THEOREM GrantsFromPool == Spec => GrantsAreAPool
<1>1. Init => Pool!Init
  <2> SUFFICES ASSUME Init PROVE Granted = {}
    BY DEF Pool!Init
  <2>1. \A s \in Submission : row[s].locked_by_event = ""
    BY DEF Init
  <2> QED
    BY <2>1 DEF Granted
<1>2. IInv /\ [Next]_vars => [Pool!Next]_(Pool!vars)
  BY PoolStep
<1> QED
  BY <1>1, <1>2, Invariance, PTL DEF Spec, GrantsAreAPool, Pool!Spec
=============================================================================
