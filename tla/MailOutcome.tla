---------------------------- MODULE MailOutcome ----------------------------
(* What sending promises of each mail, whichever workers dispatch it, lock,   *)
(* claim and die: it is handed to the server once at a time, an acceptance is *)
(* logged as sent or lost before the next, and what is logged bars the next   *)
(* one as its kind says.                                                     *)
EXTENDS Integers

CONSTANTS Record, Once, Reminder

VARIABLES
  delivered, \* acceptances by the server
  lost,      \* those that can no longer be logged
  logged     \* statuses the log has

vars == <<delivered, lost, logged>>

Message == Record \cup Once \cup Reminder

Init ==
  /\ delivered = [m \in Message |-> 0] /\ lost = [m \in Message |-> 0]
  /\ logged = [m \in Message |-> {}]

\* Every acceptance is lost; or the last one waits to be logged, or is.
Settled(m) == delivered[m] = lost[m]
Outstanding(m) == delivered[m] = lost[m] + 1

MaySend(m) ==
  /\ Settled(m)
  /\ "sent" \notin logged[m]
  /\ m \in Once \cup Reminder => logged[m] = {}
  /\ m \in Reminder => delivered[m] = 0

Deliver(m) ==
  /\ MaySend(m)
  /\ delivered' = [delivered EXCEPT ![m] = @ + 1]
  /\ lost' \in {lost, [lost EXCEPT ![m] = @ + 1]}
  /\ UNCHANGED logged

Lose(m) ==
  /\ Outstanding(m) /\ "sent" \notin logged[m]
  /\ lost' = [lost EXCEPT ![m] = @ + 1]
  /\ UNCHANGED <<delivered, logged>>

Log(m, status) ==
  /\ status = "sent" => Outstanding(m)
  /\ status = "failed" => Settled(m)
  /\ status = "skipped" => m \in Reminder /\ delivered[m] = 0
  /\ m \in Once \cup Reminder => logged[m] = {}
  /\ logged' = [logged EXCEPT ![m] = @ \cup {status}]
  /\ UNCHANGED <<delivered, lost>>

Next ==
  \E m \in Message :
    \/ Deliver(m) \/ Lose(m)
    \/ \E status \in {"sent", "failed", "skipped"} : Log(m, status)

Spec == Init /\ [][Next]_vars
=============================================================================
