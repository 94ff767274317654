------------------------------ MODULE SeatPool ------------------------------
(* What the uploads of signed agreements promise, whatever locks, counts and *)
(* snapshots they go through: a participant gets a seat, in one step, only    *)
(* when the participant's own terms have room beside all who have one; the    *)
(* terms of a seat do not change as long as it is held.                      *)
EXTENDS Integers, FiniteSets

CONSTANTS Participant, NoLimit

VARIABLES
  granted,  \* participants with a seat
  terms     \* the capacity each participant's seat is or would be under

vars == <<granted, terms>>

Init == granted = {}

Grant(p) ==
  /\ p \notin granted
  /\ terms[p] = NoLimit \/ Cardinality(granted) < terms[p]
  /\ granted' = granted \cup {p}
  /\ UNCHANGED terms

GiveBack(p) ==
  /\ p \in granted
  /\ granted' = granted \ {p}
  /\ UNCHANGED terms

\* A choice made anew is under the capacity of the day.
Revise(p) ==
  /\ p \notin granted
  /\ \A q \in Participant \ {p} : terms'[q] = terms[q]
  /\ UNCHANGED granted

Next == \E p \in Participant : Grant(p) \/ GiveBack(p) \/ Revise(p)

Spec == Init /\ [][Next]_vars
=============================================================================
