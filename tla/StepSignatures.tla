-------------------------- MODULE StepSignatures --------------------------
(* What a composite document step promises of its signatures, whatever       *)
(* fails and is recovered on the way: the participant signs a part first;     *)
(* only then the office countersigns it and a seat is taken for it; a part    *)
(* that is accepted has all of this and stays accepted; the workflow leaves   *)
(* once the parts it waits for are accepted, and then nothing changes.        *)
CONSTANTS Declaration, Training, Countersigned

VARIABLES
  signed,        \* parts with a file signed by the participant
  countersigned, \* trainings with a file signed by the office
  seats,         \* trainings with a seat
  accepted,      \* parts the step has accepted
  open           \* the workflow is in the step

vars == <<signed, countersigned, seats, accepted, open>>

Part == {Declaration} \cup Training

Init ==
  /\ signed = {} /\ countersigned = {} /\ seats = {} /\ accepted = {}
  /\ open = TRUE

Sign(p) ==
  /\ signed' = signed \cup {p}
  /\ UNCHANGED <<countersigned, seats, accepted, open>>

Countersign(t) ==
  /\ Countersigned /\ t \in signed
  /\ countersigned' = countersigned \cup {t}
  /\ UNCHANGED <<signed, seats, accepted, open>>

TakeSeat(t) ==
  /\ t \in signed
  /\ seats' = seats \cup {t}
  /\ UNCHANGED <<signed, countersigned, accepted, open>>

Accept(p) ==
  /\ p \in signed
  /\ Countersigned /\ p \in Training => p \in countersigned \cap seats
  /\ accepted' = accepted \cup {p}
  /\ UNCHANGED <<signed, countersigned, seats, open>>

\* Without the office a start may take one signed agreement for all.
Leave ==
  /\ Declaration \in accepted
  /\ IF Countersigned THEN Training \subseteq accepted
                      ELSE Training \cap signed # {}
  /\ open' = FALSE
  /\ UNCHANGED <<signed, countersigned, seats, accepted>>

Next ==
  /\ open
  /\ \/ \E p \in Part : Sign(p) \/ Accept(p)
     \/ \E t \in Training : Countersign(t) \/ TakeSeat(t)
     \/ Leave

Spec == Init /\ [][Next]_vars
=============================================================================
