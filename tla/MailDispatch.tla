---------------------------- MODULE MailDispatch ----------------------------
(* Mails about one submission, each an event for one recipient.             *)
(*                                                                          *)
(* No transaction spans the database and the SMTP server, so each kind of   *)
(* mail has its own way not to be sent twice:                               *)
(*   Record    locks the submission, sends unless a log says sent; what     *)
(*             failed is tried again when the event is dispatched again;    *)
(*   Once      locks the submission, sends unless there is any log;         *)
(*   Reminder  is claimed by a unique row, committed before it is sent.     *)
(* Reminders belong to the deadline of one step and are found by a scan,    *)
(* whose session loads the deadline once; the step may end meanwhile.       *)
EXTENDS Integers, FiniteSets

CONSTANTS
  Worker,      \* requests and scans, each one after another
  Record, Once,
  Reminder,    \* those of one deadline whose time has come
  Nobody,
  MaxFaults    \* bound: crashes and lost replies

Message == Record \cup Once \cup Reminder
Locking == Record \cup Once

ASSUME MailAssumption ==
  /\ Record \cap Once = {} /\ Locking \cap Reminder = {}
  /\ Nobody \notin Worker \cup Message
  /\ MaxFaults \in Nat

VARIABLES
  pc,        \* progress of each worker
  msg,       \* the mail it has in hand
  todo,      \* reminders its scan has still to look at
  view,      \* the deadline as the session of its scan has it in memory
  lock,      \* the worker that has the submission row FOR UPDATE
  logged,    \* statuses of the mail's committed log entries
  claimed,   \* reminders with a notification row
  delivered, \* how often the SMTP server accepted the mail
  lost,      \* how often, though accepted, it could not be logged as sent
  active,    \* the deadline's row is active
  faults

vars == <<pc, msg, todo, view, lock, logged, claimed, delivered, lost,
          active, faults>>
smtp == <<delivered, lost, faults>>

Counts == [Message -> Nat]

TypeOK ==
  /\ pc \in [Worker -> {"idle", "locked", "scan", "claimed", "sent", "failed"}]
  /\ msg \in [Worker -> Message \cup {Nobody}]
  /\ todo \in [Worker -> SUBSET Reminder]
  /\ view \in [Worker -> {"active", "completed", "expired"}]
  /\ lock \in Worker \cup {Nobody}
  /\ logged \in [Message -> SUBSET {"sent", "failed", "skipped"}]
  /\ claimed \subseteq Reminder
  /\ delivered \in Counts /\ lost \in Counts
  /\ active \in BOOLEAN
  /\ faults \in 0..MaxFaults

Init ==
  /\ pc = [w \in Worker |-> "idle"] /\ msg = [w \in Worker |-> Nobody]
  /\ todo = [w \in Worker |-> {}] /\ view = [w \in Worker |-> "active"]
  /\ lock = Nobody
  /\ logged = [m \in Message |-> {}] /\ claimed = {}
  /\ delivered = [m \in Message |-> 0] /\ lost = [m \in Message |-> 0]
  /\ active = TRUE /\ faults = 0

Goto(w, l) == pc' = [pc EXCEPT ![w] = l]
Count(f, m) == [f EXCEPT ![m] = @ + 1]
Holds(w) == msg[w] \in Locking

---------------------------------------------------------------------------
\* SELECT ... FOR UPDATE of the submission (BEGIN IMMEDIATE on SQLite).
Lock_Unlocked(w, m) ==
  /\ pc[w] = "idle" /\ m \in Locking
  /\ Goto(w, "locked") /\ msg' = [msg EXCEPT ![w] = m]
  /\ UNCHANGED <<todo, view, lock, logged, claimed, smtp, active>>
Lock(w, m) ==
  /\ pc[w] = "idle" /\ m \in Locking /\ lock = Nobody
  /\ lock' = w
  /\ Goto(w, "locked") /\ msg' = [msg EXCEPT ![w] = m]
  /\ UNCHANGED <<todo, view, logged, claimed, smtp, active>>

\* already_sent, already_recorded
AlreadyThere_AnyLog(m) == logged[m] # {}
AlreadyThere_OnlySent(m) == "sent" \in logged[m]
AlreadyThere(m) == IF m \in Record THEN "sent" \in logged[m] ELSE logged[m] # {}

Skip(w) ==
  /\ pc[w] = "locked" /\ AlreadyThere(msg[w])
  /\ Goto(w, "idle") /\ msg' = [msg EXCEPT ![w] = Nobody]
  /\ lock' = IF lock = w THEN Nobody ELSE lock
  /\ UNCHANGED <<todo, view, logged, claimed, smtp, active>>

---------------------------------------------------------------------------
\* process_due: one SELECT of the active deadlines, then reminder by reminder.
BeginScan(w) ==
  /\ pc[w] = "idle" /\ active
  /\ todo' = [todo EXCEPT ![w] = Reminder]
  /\ Goto(w, "scan")
  /\ UNCHANGED <<msg, view, lock, logged, claimed, smtp, active>>

EndScan(w) ==
  /\ pc[w] = "scan" /\ todo[w] = {}
  /\ Goto(w, "idle") /\ view' = [view EXCEPT ![w] = "active"]
  /\ UNCHANGED <<msg, todo, lock, logged, claimed, smtp, active>>

\* The deadline's attributes are read again only when a rollback expired them:
\* the sessions do not expire what they commit.
Refreshed(w) ==
  IF view[w] = "expired" THEN IF active THEN "active" ELSE "completed"
  ELSE view[w]

Claim(w, m) ==
  /\ pc[w] = "scan" /\ m \in todo[w] \ claimed
  /\ claimed' = claimed \cup {m}
  /\ todo' = [todo EXCEPT ![w] = @ \ {m}]
  /\ view' = [view EXCEPT ![w] = Refreshed(w)]
  /\ Goto(w, "claimed") /\ msg' = [msg EXCEPT ![w] = m]
  /\ UNCHANGED <<lock, logged, smtp, active>>

\* IntegrityError: roll back and continue.
Conflict_EndsScan(w, m) ==
  /\ pc[w] = "scan" /\ m \in todo[w] \cap claimed
  /\ todo' = [todo EXCEPT ![w] = {}]
  /\ view' = [view EXCEPT ![w] = "expired"]
  /\ UNCHANGED <<pc, msg, lock, logged, claimed, smtp, active>>
Conflict(w, m) ==
  /\ pc[w] = "scan" /\ m \in todo[w] \cap claimed
  /\ todo' = [todo EXCEPT ![w] = @ \ {m}]
  /\ view' = [view EXCEPT ![w] = "expired"]
  /\ UNCHANGED <<pc, msg, lock, logged, claimed, smtp, active>>

\* _dispatch finds the deadline closed.
SkipReminder(w) ==
  /\ pc[w] = "claimed" /\ view[w] = "completed"
  /\ logged' = [logged EXCEPT ![msg[w]] = @ \cup {"skipped"}]
  /\ Goto(w, "scan") /\ msg' = [msg EXCEPT ![w] = Nobody]
  /\ UNCHANGED <<todo, view, lock, claimed, smtp, active>>

---------------------------------------------------------------------------
\* dispatch_raw hands the mail to the SMTP server.
Sending(w) ==
  \/ pc[w] = "locked" /\ ~AlreadyThere(msg[w])
  \/ pc[w] = "claimed" /\ view[w] = "active"

Accept(w) ==
  /\ Sending(w)
  /\ delivered' = Count(delivered, msg[w])
  /\ Goto(w, "sent")
  /\ UNCHANGED <<msg, todo, view, lock, logged, claimed, lost, faults, active>>

Refuse_Queued(w) ==
  /\ Sending(w)
  /\ Goto(w, "queued")
  /\ UNCHANGED <<msg, todo, view, lock, logged, claimed, smtp, active>>
Refuse_AsSent(w) ==
  /\ Sending(w)
  /\ Goto(w, "sent")
  /\ UNCHANGED <<msg, todo, view, lock, logged, claimed, smtp, active>>
Refuse(w) ==
  /\ Sending(w)
  /\ Goto(w, "failed")
  /\ UNCHANGED <<msg, todo, view, lock, logged, claimed, smtp, active>>

LoseReply(w) ==
  /\ Sending(w) /\ faults < MaxFaults
  /\ delivered' = Count(delivered, msg[w])
  /\ lost' = Count(lost, msg[w])
  /\ faults' = faults + 1
  /\ Goto(w, "failed")
  /\ UNCHANGED <<msg, todo, view, lock, logged, claimed, active>>

\* The log entry, or the notification, is committed with the outcome.
Commit(w) ==
  /\ pc[w] \in {"sent", "failed"}
  /\ logged' = [logged EXCEPT ![msg[w]] = @ \cup {pc[w]}]
  /\ Goto(w, IF Holds(w) THEN "idle" ELSE "scan")
  /\ msg' = [msg EXCEPT ![w] = Nobody]
  /\ lock' = IF lock = w THEN Nobody ELSE lock
  /\ UNCHANGED <<todo, view, claimed, smtp, active>>

\* The worker dies, or its commit fails: what it did not commit is gone.
Crash(w) ==
  /\ pc[w] # "idle" /\ faults < MaxFaults
  /\ faults' = faults + 1
  /\ lost' = IF pc[w] = "sent" THEN Count(lost, msg[w]) ELSE lost
  /\ Goto(w, "idle") /\ msg' = [msg EXCEPT ![w] = Nobody]
  /\ todo' = [todo EXCEPT ![w] = {}]
  /\ lock' = IF lock = w THEN Nobody ELSE lock
  /\ view' = [view EXCEPT ![w] = "active"]
  /\ UNCHANGED <<logged, claimed, delivered, active>>

---------------------------------------------------------------------------
\* The workflow leaves the step, which completes its deadline.
StepEnds ==
  /\ active /\ active' = FALSE
  /\ UNCHANGED <<pc, msg, todo, view, lock, logged, claimed, smtp>>

WorkerStep(w) ==
  \/ Skip(w) \/ SkipReminder(w) \/ Accept(w) \/ Refuse(w) \/ Commit(w)
  \/ EndScan(w)
  \/ \E m \in Reminder : Claim(w, m) \/ Conflict(w, m)

Next ==
  \/ \E w \in Worker :
       \/ WorkerStep(w) \/ BeginScan(w) \/ LoseReply(w) \/ Crash(w)
       \/ \E m \in Message : Lock(w, m)
  \/ StepEnds

\* A worker that has begun goes on; the scheduler starts scans again and
\* again; an event that was not delivered is dispatched again, and the server
\* does not refuse for ever.
Fairness ==
  /\ \A w \in Worker : WF_vars(WorkerStep(w))
  /\ SF_vars(\E w \in Worker : BeginScan(w))
  /\ \A m \in Record :
       /\ SF_vars(\E w \in Worker : Lock(w, m))
       /\ SF_vars(\E w \in Worker : msg[w] = m /\ Accept(w))

Spec == Init /\ [][Next]_vars
FairSpec == Spec /\ Fairness

---------------------------------------------------------------------------
(* Properties. *)

\* Repetitions that each way of sending cannot rule out ("SMTP acceptance
\* followed by a process crash before commit remains inherently ambiguous").
Excused(m) == IF m \in Reminder THEN 0 ELSE lost[m]

\* Whatever workers dispatch the same event at once, again or after a crash, a
\* recipient gets a mail twice only for a crash or a lost reply, and never a
\* reminder.
NoRepeat == \A m \in Message : delivered[m] <= 1 + Excused(m)

\* A mail of the "once" kind is over with its first log entry, even a failed one.
OnceIsFinal ==
  [][\A m \in Once : logged[m] # {} => delivered'[m] = delivered[m]]_vars

\* What the log calls sent was accepted by the server.
SentIsDelivered == \A m \in Message : "sent" \in logged[m] => delivered[m] > 0

\* Workers that dispatch, claim, fail and die at once have the effect of one
\* dispatch after the other, mail by mail: nothing is sent while an acceptance
\* is open or the log bars it, and the log tells what the server did.
Outcome == INSTANCE MailOutcome
DispatchesInTurn == Outcome!Spec

\* A failed mail of the retried kind does not bar its retry.
RecordsArrive == \A m \in Record : <>("sent" \in logged[m])

\* A reminder whose time has come is claimed by some scan while its step lasts, though
\* scans die and find the reminders of their predecessors claimed.
RemindersClaimed ==
  \A m \in Reminder : active ~> (m \in claimed \/ ~active)
=============================================================================
