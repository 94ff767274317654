---------------------------- MODULE Assignments ----------------------------
(* What assigning cases promises, whatever transactions overlap: the cases   *)
(* of a form are given one assignment at a time.  The rota deals a case that  *)
(* nobody has to the officer who follows the last one; an officer gives any   *)
(* cases to one officer, or to nobody.  Each entry of a history names who had *)
(* the case.                                                                *)
EXTENDS Integers, Sequences

CONSTANTS Submission, Officer

VARIABLES assignee, history, rota, dealt

vars == <<assignee, history, rota, dealt>>

Nobody == 0

Init ==
  /\ DOMAIN assignee = {} /\ DOMAIN history = {}
  /\ rota = Nobody /\ dealt = [o \in Officer |-> 0]

Create(s) ==
  /\ s \notin DOMAIN assignee
  /\ assignee' = [r \in DOMAIN assignee \cup {s} |->
                    IF r = s THEN Nobody ELSE assignee[r]]
  /\ history' = [r \in DOMAIN assignee \cup {s} |->
                   IF r = s THEN <<>> ELSE history[r]]
  /\ UNCHANGED <<rota, dealt>>

Give(cases, to) ==
  /\ assignee' = [s \in DOMAIN assignee |-> IF s \in cases THEN to ELSE assignee[s]]
  /\ history' = [s \in DOMAIN assignee |->
                   IF s \in cases
                     THEN Append(history[s], [previous |-> assignee[s], to |-> to])
                     ELSE history[s]]

\* p is the first after o, or the very first when o is the last.
Follows(p, o) ==
  \/ p > o /\ \A q \in Officer : q > o => p <= q
  \/ \A q \in Officer : q <= o /\ p <= q

Deal(s, to) ==
  /\ s \in DOMAIN assignee /\ assignee[s] = Nobody
  /\ Follows(to, rota)
  /\ Give({s}, to)
  /\ rota' = to /\ dealt' = [dealt EXCEPT ![to] = @ + 1]

Assign(cases, to) ==
  /\ \A s \in cases : assignee[s] # to
  /\ Give(cases, to)
  /\ UNCHANGED <<rota, dealt>>

Next ==
  \/ \E s \in Submission : Create(s)
  \/ \E s \in Submission, to \in Officer : Deal(s, to)
  \/ \E cases \in SUBSET DOMAIN assignee, to \in Officer \cup {Nobody} :
       Assign(cases, to)

Spec == Init /\ [][Next]_vars
=============================================================================
