---------------------------- MODULE DraftOutcome ----------------------------
(* What a saved draft promises its applicant, however often submitting it is *)
(* tried, dies and is tried again: its submission gets one name for good and  *)
(* is made under that name only; a failed try may take it away, but only as    *)
(* long as the draft is not given it; the draft is given it once, while the    *)
(* draft is active and the submission there, and keeps it.                    *)
CONSTANTS Name, None

VARIABLES
  status,  \* active, submitted or expired
  name,    \* the name of the submission to be
  made,    \* submissions there are
  given    \* the one the draft was completed with

vars == <<status, name, made, given>>

Init == status = "active" /\ name = None /\ made = {} /\ given = None

Call(n) ==
  /\ name = None /\ name' = n
  /\ UNCHANGED <<status, made, given>>

Make ==
  /\ name # None /\ given = None /\ made = {}
  /\ made' = {name}
  /\ UNCHANGED <<status, name, given>>

TakeAway ==
  /\ made # {} /\ given = None
  /\ made' = {}
  /\ UNCHANGED <<status, name, given>>

Complete ==
  /\ status = "active" /\ given = None /\ made = {name}
  /\ status' = "submitted" /\ given' = name
  /\ UNCHANGED <<name, made>>

\* A draft may be called expired late; it keeps what it was given.
Expire ==
  /\ status' = "expired"
  /\ UNCHANGED <<name, made, given>>

Next == (\E n \in Name : Call(n)) \/ Make \/ TakeAway \/ Complete \/ Expire

Spec == Init /\ [][Next]_vars
=============================================================================
