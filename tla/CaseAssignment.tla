--------------------------- MODULE CaseAssignment ---------------------------
(* Who handles which case of one form.                                      *)
(*                                                                          *)
(* A created case goes to the officer after the last one, under the locks of *)
(* its row and of the Form row; officers claim cases, hand them over one by  *)
(* one or several at a time, under the locks of the rows.  The training       *)
(* routes lock the Form row first, so the orders cross and the database ends *)
(* a deadlock by aborting one of its transactions.                           *)
(*                                                                          *)
(* Officers and their permissions do not change here.                       *)
EXTENDS Integers, Sequences, FiniteSets

CONSTANTS
  Submission,    \* submissions of the form
  Officer,       \* ids of the eligible users
  Transaction,   \* database sessions
  FormRow,       \* the Form row, as something to lock
  Free,          \* what holds a lock nobody holds
  MaxOperations  \* bound: transactions begun

ASSUME AssignmentAssumption ==
  /\ IsFiniteSet(Submission)
  \* without officers the rota does nothing
  /\ Officer \subseteq Nat \ {0} /\ IsFiniteSet(Officer) /\ Officer # {}
  /\ FormRow \notin Submission /\ Free \notin Transaction
  \* the connections of a pool
  /\ IsFiniteSet(Transaction)
  /\ MaxOperations \in Nat

VARIABLES
  assignee,   \* FormSubmission.assigned_to_user_id of the created ones; 0 is NULL
  history,    \* their SubmissionAssignmentHistory
  rota,       \* FormAssignmentState.last_assigned_user_id; 0 is NULL
  dealt,      \* cases each officer got by the rota
  holder,     \* row locks
  tx,         \* transactions: kind, locks still to take, rows
  seen,       \* what each read under its locks
  operations  \* transactions begun

assignmentVars == <<assignee, history, rota, dealt, holder, tx, seen, operations>>

Lock == Submission \cup {FormRow}
TransactionKind == {"none", "auto", "manual", "training"}
Nobody == 0

AssignmentTypeOK ==
  /\ DOMAIN assignee \subseteq Submission /\ DOMAIN history = DOMAIN assignee
  /\ \A s \in DOMAIN assignee :
       /\ assignee[s] \in Officer \cup {Nobody}
       /\ history[s] \in Seq([previous : Officer \cup {Nobody},
                              to : Officer \cup {Nobody}])
  /\ rota \in Officer \cup {Nobody}
  /\ dealt \in [Officer -> Nat]
  /\ holder \in [Lock -> Transaction \cup {Free}]
  /\ tx \in [Transaction -> [kind : TransactionKind, todo : Seq(Lock),
                             rows : SUBSET Submission]]
  /\ seen \in [Transaction -> [Lock -> Officer \cup {Nobody}]]
  /\ operations \in 0..MaxOperations

AssignmentInit ==
  /\ assignee = [s \in {} |-> Nobody] /\ history = [s \in {} |-> <<>>]
  /\ rota = Nobody /\ dealt = [o \in Officer |-> 0]
  /\ holder = [l \in Lock |-> Free]
  /\ tx = [t \in Transaction |-> [kind |-> "none", todo |-> <<>>, rows |-> {}]]
  /\ seen = [t \in Transaction |-> [l \in Lock |-> Nobody]]
  /\ operations = 0

BeginTransaction(t, kind, todo, rows) ==
  /\ tx[t].kind = "none" /\ operations < MaxOperations
  /\ operations' = operations + 1
  /\ tx' = [tx EXCEPT ![t] = [kind |-> kind, todo |-> todo, rows |-> rows]]

\* COMMIT or ROLLBACK: the locks are released.
Release(t) ==
  /\ tx' = [tx EXCEPT ![t] = [kind |-> "none", todo |-> <<>>, rows |-> {}]]
  /\ holder' = [l \in Lock |-> IF holder[l] = t THEN Free ELSE holder[l]]
  /\ seen' = [seen EXCEPT ![t] = [l \in Lock |-> Nobody]]
  /\ UNCHANGED operations

---------------------------------------------------------------------------
\* create_submission has committed the row; auto_assign_created locks it, then
\* the Form row.
CreateCase(t, s) ==
  /\ s \notin DOMAIN assignee
  /\ assignee' = [r \in DOMAIN assignee \cup {s} |->
                    IF r = s THEN Nobody ELSE assignee[r]]
  /\ history' = [r \in DOMAIN assignee \cup {s} |->
                   IF r = s THEN <<>> ELSE history[r]]
  /\ BeginTransaction(t, "auto", <<s, FormRow>>, {s})
  /\ UNCHANGED <<rota, dealt, holder, seen>>

Orders(rows) ==
  {f \in [1..Cardinality(rows) -> rows] : {f[i] : i \in DOMAIN f} = rows}

\* Assignment and claim lock one row; assign-selected locks its rows in the
\* order the database finds them.
StartManual(t) ==
  /\ \E rows \in SUBSET DOMAIN assignee \ {{}} :
       \E todo \in Orders(rows) : BeginTransaction(t, "manual", todo, rows)
  /\ UNCHANGED <<assignee, history, rota, dealt, holder, seen>>

\* The participant's training routes, and lock_for_agreement.
StartTraining(t, s) ==
  /\ s \in DOMAIN assignee
  /\ BeginTransaction(t, "training", <<FormRow, s>>, {})
  /\ UNCHANGED <<assignee, history, rota, dealt, holder, seen>>

\* The rota stops at a case that somebody has already.
TooLate_Never(t) == FALSE /\ tx[t].kind = "auto"
TooLate(t) ==
  /\ tx[t].kind = "auto" /\ tx[t].todo = <<FormRow>>
  /\ \E s \in tx[t].rows : seen[t][s] # Nobody

\* SELECT ... FOR UPDATE waits, and reads when it has the lock.
LockedValue(l) == IF l = FormRow THEN rota ELSE assignee[l]
ReadRow(t, l) ==
  /\ seen' = [seen EXCEPT ![t][l] = LockedValue(l)]
  /\ tx' = [tx EXCEPT ![t].todo = Tail(@)]
Acquire_RowUnlocked(t) ==
  /\ tx[t].todo # <<>> /\ ~TooLate(t)
  /\ LET l == Head(tx[t].todo) IN
       /\ ReadRow(t, l)
       /\ \/ /\ l # FormRow /\ UNCHANGED holder
          \/ /\ l = FormRow /\ holder[l] = Free
             /\ holder' = [holder EXCEPT ![l] = t]
  /\ UNCHANGED <<assignee, history, rota, dealt, operations>>
Acquire_FormUnlocked(t) ==
  /\ tx[t].todo # <<>> /\ ~TooLate(t)
  /\ LET l == Head(tx[t].todo) IN
       /\ ReadRow(t, l)
       /\ \/ /\ l = FormRow /\ UNCHANGED holder
          \/ /\ l # FormRow /\ holder[l] = Free
             /\ holder' = [holder EXCEPT ![l] = t]
  /\ UNCHANGED <<assignee, history, rota, dealt, operations>>
Acquire(t) ==
  /\ tx[t].todo # <<>> /\ ~TooLate(t)
  /\ LET l == Head(tx[t].todo) IN
       /\ holder[l] = Free
       /\ holder' = [holder EXCEPT ![l] = t]
       /\ ReadRow(t, l)
  /\ UNCHANGED <<assignee, history, rota, dealt, operations>>

\* assign: nothing for the officer who has the case, else the row and an entry.
Assigned(t, rows, to) ==
  LET changed == {s \in rows : seen[t][s] # to} IN
    /\ assignee' = [s \in DOMAIN assignee |->
                      IF s \in changed THEN to ELSE assignee[s]]
    /\ history' = [s \in DOMAIN history |->
                     IF s \in changed
                       THEN Append(history[s], [previous |-> seen[t][s], to |-> to])
                       ELSE history[s]]

\* The officer after the last in the order of ids, or the first.
After(o) ==
  LET later == {p \in Officer : p > o}
      pool == IF later # {} THEN later ELSE Officer
  IN  CHOOSE p \in pool : \A q \in pool : p <= q
CommitAuto(t) ==
  /\ tx[t].kind = "auto" /\ tx[t].todo = <<>>
  /\ LET to == After(seen[t][FormRow]) IN
       /\ Assigned(t, tx[t].rows, to)
       /\ rota' = to
       /\ dealt' = [dealt EXCEPT ![to] = @ + 1]
  /\ Release(t)
AutoTooLate(t) ==
  /\ TooLate(t)
  /\ Release(t)
  /\ UNCHANGED <<assignee, history, rota, dealt>>
CommitManual(t) ==
  /\ tx[t].kind = "manual" /\ tx[t].todo = <<>>
  /\ \E to \in Officer \cup {Nobody} : Assigned(t, tx[t].rows, to)
  /\ Release(t)
  /\ UNCHANGED <<rota, dealt>>
CommitTraining(t) ==
  /\ tx[t].kind = "training" /\ tx[t].todo = <<>>
  /\ Release(t)
  /\ UNCHANGED <<assignee, history, rota, dealt>>

\* The database aborts one transaction of a cycle of waits; a refused manual
\* assignment and a killed worker roll back too.  The rota does not try again.
Waiting(t) == tx[t].todo # <<>> /\ holder[Head(tx[t].todo)] \notin {Free, t}
Blocker(t) == holder[Head(tx[t].todo)]
Deadlocked(t) ==
  \E cycle \in SUBSET Transaction :
    /\ t \in cycle /\ \A u \in cycle : Waiting(u)
    /\ {Blocker(u) : u \in cycle} = cycle
AbortVictim_Never(t) == FALSE /\ UNCHANGED assignmentVars
AbortVictim(t) ==
  /\ Deadlocked(t)
  /\ Release(t)
  /\ UNCHANGED <<assignee, history, rota, dealt>>
RollBack(t) ==
  /\ tx[t].kind # "none"
  /\ Release(t)
  /\ UNCHANGED <<assignee, history, rota, dealt>>

---------------------------------------------------------------------------
AssignmentNext ==
  \E t \in Transaction :
    \/ \E s \in Submission : CreateCase(t, s) \/ StartTraining(t, s)
    \/ StartManual(t) \/ Acquire(t)
    \/ CommitAuto(t) \/ AutoTooLate(t) \/ CommitManual(t) \/ CommitTraining(t)
    \/ AbortVictim(t) \/ RollBack(t)

AssignmentSpec == AssignmentInit /\ [][AssignmentNext]_assignmentVars

Ends(t) == CommitAuto(t) \/ AutoTooLate(t) \/ CommitManual(t) \/ CommitTraining(t)

\* A free lock is given to a transaction that waits for it, one that has its
\* locks ends, and the database finds deadlocks.
AssignmentFairness ==
  \A t \in Transaction :
    /\ WF_assignmentVars(Acquire(t)) /\ WF_assignmentVars(Ends(t))
    /\ WF_assignmentVars(AbortVictim(t))

AssignmentFairSpec == AssignmentSpec /\ AssignmentFairness

---------------------------------------------------------------------------
(* Properties. *)

\* The history of a case is a chain from nobody to the officer who has it:
\* each entry names the officer before, however assignments overlap.  (An edit
\* put back by CaseWorkflow's Restore writes the assignee it loaded without an
\* entry; it is not a transaction of this module.)
HistoryChains ==
  \A s \in DOMAIN assignee :
    LET h == history[s]
        holds(i) == IF i = 0 THEN Nobody ELSE h[i].to
    IN  /\ \A i \in DOMAIN h : h[i].previous = holds(i - 1)
        /\ assignee[s] = holds(Len(h))

\* The rota deals evenly: two officers differ by at most one case, though cases
\* are created together and some are taken before their turn.
DealtEvenly ==
  \A o, p \in Officer : dealt[o] <= dealt[p] + 1

\* Assignments are serial: transactions that overlap, lock in any order and are
\* aborted at any time leave the assignees, the histories and the rota as one
\* assignment after the other does, and the rota never takes a case away from
\* an officer who got it first.
Serial == INSTANCE Assignments
AssignmentsAreSerial == Serial!Spec

\* Lock orders that cross never stop the office: while a transaction is open,
\* one has its locks, can take its next one, or waits in a circle that the
\* database finds.
NeverStuck ==
  LET active == {t \in Transaction : tx[t].kind # "none"} IN
    active # {} =>
      \E t \in active :
        \/ tx[t].todo = <<>> \/ TooLate(t)
        \/ holder[Head(tx[t].todo)] = Free
        \/ Deadlocked(t)

\* No transaction waits for ever, although their lock orders cross.
TransactionsEnd ==
  \A t \in Transaction : []<>(tx[t].kind = "none")
=============================================================================
