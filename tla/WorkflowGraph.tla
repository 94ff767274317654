---------------------------- MODULE WorkflowGraph ----------------------------
(* An explicit workflow: the editor's validation of its graph, and a         *)
(* submission the engine takes through it.                                  *)
(*                                                                          *)
(* The validation walks the graph twice, forward from the initial step and   *)
(* backward from the final ones.  The engine walks on alone over automatic   *)
(* steps and over documents nobody has to sign; an officer's decision is     *)
(* rehearsed before it is stored, so that the steps behind it do not fail.   *)
(*                                                                          *)
(* A step leads on by "next", by conditional transitions or by the options   *)
(* of its decision, never by two of these; actions of automatic steps are     *)
(* left out.                                                                *)
EXTENDS Integers, FiniteSets

CONSTANTS
  StepId,   \* steps of the workflow
  Initial,  \* workflow.initial_step
  NoStep    \* no next step

ASSUME GraphAssumption == Initial \in StepId /\ NoStep \notin StepId

VARIABLES
  flow,       \* the workflow, step by step
  phase,      \* what is going on
  reachable,  \* forward walk: steps seen, and ...
  stack,      \* ... steps to look at
  canFinish,  \* backward walk
  chosen,     \* where the submission's data sends it from a step
  at,         \* FormSubmission.workflow_step
  target,     \* where a decision leads
  cursor,     \* step the rehearsal is at
  visited,    \* steps of this rehearsal or run
  rehearsed   \* the run has not left what was rehearsed

walk == <<reachable, stack, canFinish>>
graphVars == <<flow, phase, walk, chosen, at, target, cursor, visited, rehearsed>>

Kind == {"automatic", "document", "person", "decision", "final"}
Exits == [automatic |-> 1..2, document |-> 1..2, person |-> 1..2,
          decision |-> 1..2, final |-> {0}]
\* What validate lets through besides the shape of the graph: a final step has
\* no exit, any other one has.
StepConfig ==
  {c \in [kind : Kind, to : SUBSET StepId] : Cardinality(c.to) \in Exits[c.kind]}
Edges(s) == flow[s].to
Final == {s \in StepId : flow[s].kind = "final"}

Phase == {"reach", "finish", "refused", "rest", "rehearse", "run", "stuck"}
GraphTypeOK ==
  /\ flow \in [StepId -> StepConfig]
  /\ phase \in Phase
  /\ reachable \subseteq StepId /\ stack \subseteq StepId /\ canFinish \subseteq StepId
  /\ chosen \in [StepId -> StepId \cup {NoStep}]
  /\ {at, target, cursor} \subseteq StepId
  /\ visited \subseteq StepId /\ rehearsed \in BOOLEAN

GraphInit ==
  /\ flow \in [StepId -> StepConfig]
  /\ phase = "reach"
  /\ reachable = {} /\ stack = {Initial} /\ canFinish = {}
  /\ chosen = [s \in StepId |-> NoStep]
  /\ at = Initial /\ target = Initial /\ cursor = Initial
  /\ visited = {} /\ rehearsed = FALSE

submission == <<chosen, at, target, cursor, visited, rehearsed>>

---------------------------------------------------------------------------
\* _validate_graph.
Look_ForgetsBranches(s) ==
  /\ phase = "reach" /\ s \in stack
  /\ reachable' = reachable \cup {s}
  /\ LET new == Edges(s) \ reachable' IN
       \/ new = {} /\ stack' = stack \ {s}
       \/ \E n \in new : stack' = (stack \ {s}) \cup {n}
  /\ UNCHANGED <<flow, phase, canFinish, submission>>
Look(s) ==
  /\ phase = "reach" /\ s \in stack
  /\ reachable' = reachable \cup {s}
  /\ stack' = (stack \ {s}) \cup (Edges(s) \ reachable')
  /\ UNCHANGED <<flow, phase, canFinish, submission>>
LookBack ==
  /\ phase = "reach" /\ stack = {}
  /\ phase' = "finish" /\ canFinish' = Final
  /\ UNCHANGED <<flow, reachable, stack, submission>>

Finishing(s) == s \notin canFinish /\ Edges(s) \cap canFinish # {}
GrowCanFinish(s) ==
  /\ phase = "finish" /\ Finishing(s)
  /\ canFinish' = canFinish \cup {s}
  /\ UNCHANGED <<flow, phase, reachable, stack, submission>>

Accepted == reachable = StepId /\ Final # {} /\ reachable \subseteq canFinish
Refuse ==
  /\ phase = "finish" /\ ~\E s \in StepId : Finishing(s)
  /\ ~Accepted
  /\ phase' = "refused"
  /\ UNCHANGED <<flow, walk, submission>>
\* The first submission; its data meets one condition of a step, or not one.
Targets(s) == IF Cardinality(Edges(s)) = 1 THEN Edges(s) ELSE Edges(s) \cup {NoStep}
SubmitFirst ==
  /\ phase = "finish" /\ ~\E s \in StepId : Finishing(s)
  /\ Accepted
  /\ chosen' \in {f \in [StepId -> StepId \cup {NoStep}] :
                    \A s \in StepId : IF flow[s].kind \in {"decision", "final"}
                                        THEN f[s] = NoStep ELSE f[s] \in Targets(s)}
  /\ phase' = IF flow[at].kind = "person" THEN "rest" ELSE "run"
  /\ UNCHANGED <<flow, walk, at, target, cursor, visited, rehearsed>>

---------------------------------------------------------------------------
\* advance_after_action: a person is done with the step, unless its data meets
\* no condition.
Act ==
  /\ phase = "rest" /\ flow[at].kind \in {"person", "document"}
  /\ chosen[at] # NoStep
  /\ at' = chosen[at]
  /\ phase' = "run" /\ visited' = {} /\ rehearsed' = FALSE
  /\ UNCHANGED <<flow, walk, chosen, target, cursor>>

\* save_officer_decision rehearses the steps behind the option and stores the
\* decision only then.
Decide(s) ==
  /\ phase = "rest" /\ flow[at].kind = "decision" /\ s \in Edges(at)
  /\ target' = s /\ cursor' = s
  /\ phase' = "rehearse" /\ visited' = {}
  /\ UNCHANGED <<flow, walk, chosen, at, rehearsed>>

\* validate_automatic_path
RehearseOn_NoTarget ==
  /\ phase = "rehearse" /\ flow[cursor].kind = "automatic"
  /\ IF cursor \in visited
       THEN phase' = "rest" /\ UNCHANGED <<at, rehearsed, visited, cursor>>
       ELSE IF chosen[cursor] = NoStep
              THEN /\ phase' = "run" /\ at' = target /\ rehearsed' = TRUE
                   /\ visited' = {} /\ UNCHANGED cursor
              ELSE /\ visited' = visited \cup {cursor} /\ cursor' = chosen[cursor]
                   /\ UNCHANGED <<phase, at, rehearsed>>
  /\ UNCHANGED <<flow, walk, chosen, target>>
RehearseOn ==
  /\ phase = "rehearse" /\ flow[cursor].kind = "automatic"
  /\ cursor \notin visited /\ chosen[cursor] # NoStep
  /\ visited' = visited \cup {cursor} /\ cursor' = chosen[cursor]
  /\ UNCHANGED <<flow, phase, walk, chosen, at, target, rehearsed>>
RehearsalFails ==
  /\ phase = "rehearse" /\ flow[cursor].kind = "automatic"
  /\ cursor \in visited \/ chosen[cursor] = NoStep
  /\ phase' = "rest"
  /\ UNCHANGED <<flow, walk, submission>>
StoreDecision ==
  /\ phase = "rehearse" /\ flow[cursor].kind # "automatic"
  /\ at' = target
  /\ phase' = "run" /\ visited' = {} /\ rehearsed' = TRUE
  /\ UNCHANGED <<flow, walk, chosen, target, cursor>>

\* run_automatic_steps: stops where a person is needed, ...
Arrive ==
  /\ phase = "run" /\ flow[at].kind \in {"person", "decision", "final"}
  /\ phase' = "rest"
  /\ UNCHANGED <<flow, walk, submission>>
\* ... at a document that is not complete, ...
AwaitDocument ==
  /\ phase = "run" /\ flow[at].kind = "document" /\ at \notin visited
  /\ phase' = "rest" /\ visited' = visited \cup {at}
  /\ UNCHANGED <<flow, walk, chosen, at, target, cursor, rehearsed>>
\* ... fails where it has been or knows no way, ...
GetStuck ==
  /\ phase = "run" /\ flow[at].kind \in {"automatic", "document"}
  /\ at \in visited \/ chosen[at] = NoStep
  /\ phase' = "stuck"
  /\ UNCHANGED <<flow, walk, submission>>
\* ... and else moves.
RunOn_Forgets ==
  /\ phase = "run" /\ flow[at].kind \in {"automatic", "document"}
  /\ chosen[at] # NoStep
  /\ at' = chosen[at]
  /\ rehearsed' = (rehearsed /\ flow[at].kind = "automatic")
  /\ UNCHANGED <<flow, phase, walk, chosen, target, cursor, visited>>
RunOn ==
  /\ phase = "run" /\ flow[at].kind \in {"automatic", "document"}
  /\ at \notin visited /\ chosen[at] # NoStep
  /\ visited' = visited \cup {at}
  /\ at' = chosen[at]
  /\ rehearsed' = (rehearsed /\ flow[at].kind = "automatic")
  /\ UNCHANGED <<flow, phase, walk, chosen, target, cursor>>

Walk == (\E s \in StepId : Look(s) \/ GrowCanFinish(s)) \/ LookBack \/ Refuse \/ SubmitFirst
Rehearsal == RehearseOn \/ RehearsalFails \/ StoreDecision
Run == Arrive \/ AwaitDocument \/ GetStuck \/ RunOn

GraphNext == Walk \/ Rehearsal \/ Run \/ Act \/ \E s \in StepId : Decide(s)

\* Loops of one request: they go on until they end.
GraphFairness ==
  WF_graphVars(Walk) /\ WF_graphVars(Rehearsal) /\ WF_graphVars(Run)

GraphSpec == GraphInit /\ [][GraphNext]_graphVars
GraphFairSpec == GraphSpec /\ GraphFairness

---------------------------------------------------------------------------
(* Properties. *)

\* t can be reached from s: it is in every set that has s and is closed.
IsClosed(S) == \A s \in S : Edges(s) \subseteq S
Reaches(s, t) == \A S \in SUBSET StepId : s \in S /\ IsClosed(S) => t \in S

\* A workflow is accepted exactly if every step can be reached from the initial
\* one and can reach a final one.
VerdictRight ==
  /\ phase \in Phase \ {"reach", "finish", "refused"} =>
       \A s \in StepId : Reaches(Initial, s) /\ \E f \in Final : Reaches(s, f)
  /\ phase = "refused" =>
       ~\A s \in StepId : Reaches(Initial, s) /\ \E f \in Final : Reaches(s, f)

\* Neither the validation nor a rehearsal nor a run goes round for ever, in any
\* workflow and with any data.
LoopsEnd == []<>(phase \in {"refused", "rest", "stuck"})

\* Why they end: a turn of a loop adds a step to those it has seen, or the loop
\* is over and what comes next is further on.
Looping == phase \in {"reach", "finish", "rehearse", "run"}
Seen == IF phase = "reach" THEN reachable
        ELSE IF phase = "finish" THEN canFinish ELSE visited
Onward == [reach |-> {"finish"}, finish |-> {"refused", "rest", "run"},
           rehearse |-> {"rest", "run"}, run |-> {"rest", "stuck"}]
TurnsShrink ==
  [][Looping =>
       \/ phase' \in Onward[phase]
       \/ /\ phase' = phase
          /\ Cardinality(StepId \ Seen') < Cardinality(StepId \ Seen)]_graphVars

\* The run behind a decision never fails at a step that was rehearsed, which is
\* any automatic one up to the first document.
RehearsalHolds ==
  phase = "stuck" /\ flow[at].kind = "automatic" => ~rehearsed
=============================================================================
