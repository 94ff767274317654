------------------------ MODULE WorkflowGraph_proofs ------------------------
(* Proofs about WorkflowGraph.  The forward walk stays inside every closed    *)
(* set that has the initial step and the backward walk outside every closed   *)
(* set without a final one, so the verdict is right; a rehearsed path has an  *)
(* order, along which the run cannot meet a step twice.                      *)
EXTENDS WorkflowGraph, FiniteSetTheorems, TLAPS

Reached == \A s \in StepId : Reaches(Initial, s)
CanEnd(s) == \E f \in Final : Reaches(s, f)

\* The forward walk.
ForwardWalk ==
  /\ \A s \in reachable \cup stack : Reaches(Initial, s)
  /\ Initial \in reachable \cup stack
  /\ \A s \in reachable : Edges(s) \subseteq reachable \cup stack
  /\ phase # "reach" => stack = {}

\* The backward walk.
BackwardWalk ==
  /\ \A s \in canFinish : CanEnd(s)
  /\ phase # "reach" => Final \subseteq canFinish

Verdict ==
  /\ phase \in Phase \ {"reach", "finish", "refused"} => Accepted
  /\ phase = "refused" => ~Accepted /\ ~\E s \in StepId : Finishing(s)

WalkInv == GraphTypeOK /\ ForwardWalk /\ BackwardWalk /\ Verdict

LEMMA ReachesSelf == ASSUME NEW s \in StepId PROVE Reaches(s, s)
BY DEF Reaches

LEMMA ReachesOn ==
  ASSUME NEW r, NEW s \in StepId, NEW t \in Edges(s), Reaches(r, s)
  PROVE  Reaches(r, t)
BY DEF Reaches, IsClosed

LEMMA ReachesFrom ==
  ASSUME NEW s \in StepId, NEW t \in Edges(s), NEW f, Reaches(t, f)
  PROVE  Reaches(s, f)
BY DEF Reaches, IsClosed

LEMMA EdgesAreSteps ==
  ASSUME GraphTypeOK, NEW s \in StepId
  PROVE  Edges(s) \subseteq StepId
BY DEF GraphTypeOK, Edges, StepConfig

LEMMA InitWalk == GraphInit => WalkInv
BY GraphAssumption, ReachesSelf
   DEF GraphInit, WalkInv, GraphTypeOK, Phase, ForwardWalk, BackwardWalk, Verdict

\* The graph does not change, so neither do reachability and its ends.
LEMMA SameGraph ==
  ASSUME flow' = flow
  PROVE  /\ \A s : Edges(s)' = Edges(s)
         /\ Final' = Final
         /\ \A r, s : Reaches(r, s)' = Reaches(r, s)
         /\ \A s : CanEnd(s)' = CanEnd(s)
BY DEF Edges, Final, Reaches, IsClosed, CanEnd

LEMMA LookStep ==
  ASSUME WalkInv, NEW s \in StepId, Look(s)
  PROVE  WalkInv'
<1> USE DEF WalkInv
<1>1. UNCHANGED <<flow, phase, canFinish>> /\ phase = "reach" /\ s \in stack
  BY DEF Look
<1>2. reachable' = reachable \cup {s} /\ stack' = (stack \ {s}) \cup (Edges(s) \ reachable')
  BY DEF Look
<1>3. Edges(s) \subseteq StepId
  BY EdgesAreSteps
<1>4. GraphTypeOK'
  BY <1>1, <1>2, <1>3 DEF Look, submission, GraphTypeOK
<1>5. \A t \in Edges(s) : Reaches(Initial, t)
  BY <1>1, ReachesOn DEF ForwardWalk
<1>6. ForwardWalk'
  <2>1. \A r \in reachable' \cup stack' : Reaches(Initial, r)'
    BY <1>1, <1>2, <1>5, SameGraph DEF ForwardWalk
  <2>2. \A r \in reachable' : Edges(r)' \subseteq reachable' \cup stack'
    BY <1>1, <1>2, SameGraph DEF ForwardWalk
  <2> QED BY <1>1, <1>2, <2>1, <2>2 DEF ForwardWalk
<1>7. BackwardWalk' /\ Verdict'
  BY <1>1, SameGraph DEF BackwardWalk, Verdict
<1> QED BY <1>4, <1>6, <1>7

LEMMA GrowStep ==
  ASSUME WalkInv, NEW s \in StepId, GrowCanFinish(s)
  PROVE  WalkInv'
<1> USE DEF WalkInv
<1>1. UNCHANGED <<flow, phase, reachable, stack>> /\ phase = "finish"
  BY DEF GrowCanFinish
<1>2. canFinish' = canFinish \cup {s}
  BY DEF GrowCanFinish
<1>3. GraphTypeOK'
  BY <1>1, <1>2 DEF GrowCanFinish, submission, GraphTypeOK
<1>4. CanEnd(s)
  <2>1. PICK t \in Edges(s) : t \in canFinish
    BY DEF GrowCanFinish, Finishing
  <2> QED BY <2>1, ReachesFrom DEF BackwardWalk, CanEnd
<1>5. BackwardWalk'
  BY <1>1, <1>2, <1>4, SameGraph DEF BackwardWalk
<1>6. ForwardWalk' /\ Verdict'
  BY <1>1, SameGraph DEF ForwardWalk, Verdict
<1> QED BY <1>3, <1>5, <1>6

LEMMA LookBackStep ==
  ASSUME WalkInv, LookBack
  PROVE  WalkInv'
<1> USE DEF WalkInv
<1>1. /\ UNCHANGED <<flow, reachable, stack>> /\ stack = {}
      /\ phase' = "finish" /\ canFinish' = Final
  BY DEF LookBack
<1>2. GraphTypeOK'
  BY <1>1 DEF LookBack, submission, GraphTypeOK, Phase, Final
<1>3. ForwardWalk'
  BY <1>1, SameGraph DEF ForwardWalk
<1>4. BackwardWalk'
  <2>1. \A f \in Final : CanEnd(f)
    BY ReachesSelf DEF CanEnd, Final
  <2> QED BY <1>1, <2>1, SameGraph DEF BackwardWalk
<1>5. Verdict'
  BY <1>1 DEF Verdict
<1> QED BY <1>2, <1>3, <1>4, <1>5

\* The verdict itself.
LEMMA VerdictStep ==
  ASSUME WalkInv, Refuse \/ SubmitFirst
  PROVE  WalkInv'
<1> USE DEF WalkInv
<1>1. UNCHANGED <<flow, walk>> /\ phase = "finish"
  BY DEF Refuse, SubmitFirst
<1>2. UNCHANGED <<flow, reachable, stack, canFinish>>
  BY <1>1 DEF walk
<1>3. GraphTypeOK'
  <2>1. chosen' \in [StepId -> StepId \cup {NoStep}]
    BY DEF Refuse, SubmitFirst, submission, GraphTypeOK
  <2>2. UNCHANGED <<at, target, cursor, visited, rehearsed>>
    BY DEF Refuse, SubmitFirst, submission
  <2>3. phase' \in Phase
    BY DEF Refuse, SubmitFirst, Phase
  <2> QED BY <1>2, <2>1, <2>2, <2>3 DEF GraphTypeOK
<1>4. ForwardWalk' /\ BackwardWalk'
  <2>1. phase' # "reach"
    BY DEF Refuse, SubmitFirst
  <2> QED BY <1>1, <1>2, <2>1, SameGraph DEF ForwardWalk, BackwardWalk
<1>5. Accepted' = Accepted /\ (\E s \in StepId : Finishing(s))' = (\E s \in StepId : Finishing(s))
  BY <1>2, SameGraph DEF Accepted, Finishing
<1>6. Verdict'
  <2>1. CASE Refuse
    BY <1>5, <2>1 DEF Refuse, Verdict
  <2>2. CASE SubmitFirst
    BY <1>5, <2>2 DEF SubmitFirst, Verdict
  <2> QED BY <2>1, <2>2
<1> QED BY <1>3, <1>4, <1>6

\* Afterwards the submission goes its way and the verdict stands.
LEMMA SubmissionKeepsVerdict ==
  ASSUME WalkInv, Rehearsal \/ Run \/ Act \/ \E s \in StepId : Decide(s)
  PROVE  WalkInv'
<1> USE DEF WalkInv
<1>1. UNCHANGED <<flow, reachable, stack, canFinish>>
  BY DEF Rehearsal, RehearseOn, RehearsalFails, StoreDecision, Run, Arrive,
     AwaitDocument, GetStuck, RunOn, Act, Decide, walk
<1>2. /\ phase \in Phase \ {"reach", "finish", "refused"}
      /\ phase' \in Phase \ {"reach", "finish", "refused"}
  BY DEF Rehearsal, RehearseOn, RehearsalFails, StoreDecision, Run, Arrive,
     AwaitDocument, GetStuck, RunOn, Act, Decide, Phase
<1>3. GraphTypeOK'
  <2>1. chosen' = chosen
    BY DEF Rehearsal, RehearseOn, RehearsalFails, StoreDecision, Run, Arrive,
       AwaitDocument, GetStuck, RunOn, Act, Decide, submission
  <2>2. {at', target', cursor'} \subseteq StepId
    BY EdgesAreSteps
       DEF Rehearsal, RehearseOn, RehearsalFails, StoreDecision, Run, Arrive,
       AwaitDocument, GetStuck, RunOn, Act, Decide, submission, GraphTypeOK
  <2>3. visited' \subseteq StepId /\ rehearsed' \in BOOLEAN
    BY DEF Rehearsal, RehearseOn, RehearsalFails, StoreDecision, Run, Arrive,
       AwaitDocument, GetStuck, RunOn, Act, Decide, submission, GraphTypeOK
  <2> QED BY <1>1, <1>2, <2>1, <2>2, <2>3 DEF GraphTypeOK
<1>4. ForwardWalk' /\ BackwardWalk'
  BY <1>1, <1>2, SameGraph DEF ForwardWalk, BackwardWalk
<1>5. Verdict'
  BY <1>1, <1>2, SameGraph DEF Verdict, Accepted
<1> QED BY <1>3, <1>4, <1>5

LEMMA WalkNext == WalkInv /\ [GraphNext]_graphVars => WalkInv'
<1> SUFFICES ASSUME WalkInv, [GraphNext]_graphVars PROVE WalkInv'
  OBVIOUS
<1>1. CASE UNCHANGED graphVars
  <2>1. UNCHANGED <<flow, phase, reachable, stack, canFinish, chosen, at, target,
                    cursor, visited, rehearsed>>
    BY <1>1 DEF graphVars, walk
  <2> QED BY <2>1, SameGraph
       DEF WalkInv, GraphTypeOK, ForwardWalk, BackwardWalk, Verdict, Accepted, Finishing
<1>2. CASE GraphNext
  BY <1>2, LookStep, GrowStep, LookBackStep, VerdictStep, SubmissionKeepsVerdict
     DEF GraphNext, Walk
<1> QED BY <1>1, <1>2

LEMMA WalkInductive == GraphSpec => []WalkInv
BY InitWalk, WalkNext, PTL DEF GraphSpec

\* A refused workflow has a step that the initial one does not reach, or one
\* that reaches no final step: reachable, and the steps not in canFinish, are
\* closed.
LEMMA RefusedRightly ==
  ASSUME WalkInv, phase = "refused"
  PROVE  ~\A s \in StepId : Reaches(Initial, s) /\ CanEnd(s)
<1> USE DEF WalkInv
<1>1. ~Accepted /\ stack = {} /\ Final \subseteq canFinish
  BY DEF Verdict, ForwardWalk, BackwardWalk
<1>2. CASE reachable # StepId
  <2>1. PICK s \in StepId : s \notin reachable
    BY <1>2 DEF GraphTypeOK
  <2>2. reachable \in SUBSET StepId /\ Initial \in reachable /\ IsClosed(reachable)
    BY <1>1 DEF GraphTypeOK, ForwardWalk, IsClosed
  <2> QED BY <2>1, <2>2 DEF Reaches
<1>3. CASE reachable = StepId
  <2>1. PICK s \in StepId : s \notin canFinish
    BY <1>1, <1>3, GraphAssumption DEF Accepted, BackwardWalk, CanEnd, GraphTypeOK
  <2> DEFINE S == StepId \ canFinish
  <2>2. IsClosed(S)
    BY EdgesAreSteps DEF IsClosed, Verdict, Finishing
  <2>3. ~CanEnd(s)
    BY <1>1, <2>1, <2>2 DEF CanEnd, Reaches
  <2> QED BY <2>1, <2>3
<1> QED BY <1>2, <1>3

\* For any number of steps and any workflow: it is accepted exactly if every
\* step can be reached and can reach an end.
THEOREM VerdictHolds == GraphSpec => []VerdictRight
<1>1. WalkInv => VerdictRight
  <2> SUFFICES ASSUME WalkInv PROVE VerdictRight
    OBVIOUS
  <2>1. phase \in Phase \ {"reach", "finish", "refused"} =>
          \A s \in StepId : Reaches(Initial, s) /\ CanEnd(s)
    BY DEF WalkInv, Verdict, Accepted, ForwardWalk, BackwardWalk
  <2> QED BY <2>1, RefusedRightly DEF VerdictRight, CanEnd
<1> QED BY <1>1, WalkInductive, PTL

---------------------------------------------------------------------------
(* The rehearsal. *)

\* S is walked in the order of rank: each step of it is automatic and leads on
\* inside S or to end, upwards.
Ordered(S, end, rank) ==
  \A s \in S :
    /\ flow[s].kind = "automatic"
    /\ chosen[s] \in S \cup {end}
    /\ rank[chosen[s]] > rank[s]

\* While a rehearsal has not met a step twice, its steps are in order.
RehearsalOrdered ==
  phase = "rehearse" =>
    /\ target \in visited \cup {cursor}
    /\ \A s \in visited : flow[s].kind = "automatic"
    /\ cursor \notin visited =>
         \E rank \in [StepId -> Int] : Ordered(visited, cursor, rank)

\* A run behind it goes up that order.
RunOrdered ==
  phase \in {"run", "stuck"} /\ rehearsed =>
    \E S \in SUBSET StepId, end \in StepId, rank \in [StepId -> Int] :
      /\ Ordered(S, end, rank) /\ flow[end].kind # "automatic"
      /\ at \in S \cup {end}
      /\ flow[at].kind = "automatic" =>
           \A s \in visited : rank[s] < rank[at]

NotStuck == phase = "stuck" /\ flow[at].kind = "automatic" => ~rehearsed

\* There is no decision before the first submission.
NotYet == phase \in {"reach", "finish", "refused"} => ~rehearsed

RehearsalInv == GraphTypeOK /\ RehearsalOrdered /\ RunOrdered /\ NotStuck /\ NotYet

LEMMA RehearseStep ==
  ASSUME RehearsalInv, RehearseOn, GraphTypeOK'
  PROVE  RehearsalOrdered'
<1> USE DEF RehearsalInv
<1>1. /\ UNCHANGED <<flow, phase, chosen, target>> /\ phase = "rehearse"
      /\ flow[cursor].kind = "automatic" /\ cursor \notin visited
      /\ visited' = visited \cup {cursor} /\ cursor' = chosen[cursor]
  BY DEF RehearseOn
<1>2. target' \in visited' \cup {cursor'} /\ \A s \in visited' : flow'[s].kind = "automatic"
  BY <1>1 DEF RehearsalOrdered
<1>3. ASSUME cursor' \notin visited'
      PROVE  \E rank \in [StepId -> Int] : Ordered(visited, cursor, rank)'
  <2>1. PICK rank \in [StepId -> Int] : Ordered(visited, cursor, rank)
    BY <1>1 DEF RehearsalOrdered
  <2> DEFINE higher == [rank EXCEPT ![cursor'] = rank[cursor] + 1]
  <2>2. cursor \in StepId /\ visited \subseteq StepId /\ cursor' \in StepId
    BY DEF GraphTypeOK
  <2>3. /\ higher \in [StepId -> Int]
        /\ higher[cursor'] = rank[cursor] + 1
        /\ \A s \in StepId \ {cursor'} : higher[s] = rank[s]
    BY <2>1, <2>2
  <2> HIDE DEF higher
  <2>4. ASSUME NEW s \in visited'
        PROVE  /\ flow'[s].kind = "automatic"
               /\ chosen'[s] \in visited' \cup {cursor'}
               /\ higher[chosen'[s]] > higher[s]
    <3>1. CASE s = cursor
      BY <1>1, <1>3, <2>1, <2>2, <2>3, <3>1
    <3>2. CASE s # cursor
      <4>1. s \in visited /\ s # cursor'
        BY <1>1, <1>3, <3>2
      <4>2. chosen[s] \in visited \cup {cursor} /\ rank[chosen[s]] > rank[s]
        BY <2>1, <4>1 DEF Ordered
      <4>3. chosen[s] # cursor'
        BY <1>1, <1>3, <4>2
      <4> QED BY <1>1, <1>2, <2>2, <2>3, <4>1, <4>2, <4>3
    <3> QED BY <3>1, <3>2
  <2>5. \A s \in visited' :
          /\ flow'[s].kind = "automatic"
          /\ chosen'[s] \in visited' \cup {cursor'}
          /\ higher[chosen'[s]] > higher[s]
    BY <2>4
  <2> QED BY <2>3, <2>5 DEF Ordered
<1>4. (cursor \notin visited => \E rank \in [StepId -> Int] : Ordered(visited, cursor, rank))'
  BY <1>3
<1> QED BY <1>2, <1>4 DEF RehearsalOrdered

\* The decision is stored with its path in order.
LEMMA StoreStep ==
  ASSUME RehearsalInv, StoreDecision
  PROVE  RunOrdered'
<1>1. /\ UNCHANGED <<flow, chosen>> /\ phase = "rehearse"
      /\ flow[cursor].kind # "automatic" /\ at' = target /\ visited' = {}
  BY DEF StoreDecision, walk
<1>2. PICK rank \in [StepId -> Int] : Ordered(visited, cursor, rank)
  BY <1>1 DEF RehearsalInv, RehearsalOrdered
<1>3. visited \in SUBSET StepId /\ cursor \in StepId /\ at' \in visited \cup {cursor}
  BY <1>1 DEF RehearsalInv, RehearsalOrdered, GraphTypeOK
<1>4. \A s \in visited : /\ flow'[s].kind = "automatic"
                         /\ chosen'[s] \in visited \cup {cursor}
                         /\ rank[chosen'[s]] > rank[s]
  BY <1>1, <1>2 DEF Ordered
<1>5. /\ \A s \in visited : /\ flow'[s].kind = "automatic"
                            /\ chosen'[s] \in visited \cup {cursor}
                            /\ rank[chosen'[s]] > rank[s]
      /\ flow'[cursor].kind # "automatic"
      /\ at' \in visited \cup {cursor}
      /\ flow'[at'].kind = "automatic" => \A s \in visited' : rank[s] < rank[at']
  BY <1>1, <1>3, <1>4
<1> QED BY <1>2, <1>3, <1>5 DEF RunOrdered, Ordered

LEMMA RunStep ==
  ASSUME RehearsalInv, RunOn, GraphTypeOK'
  PROVE  RunOrdered'
<1> SUFFICES ASSUME rehearsed' PROVE RunOrdered'
  BY DEF RunOrdered
<1>1. /\ UNCHANGED <<flow, phase, chosen>> /\ phase = "run"
      /\ rehearsed /\ flow[at].kind = "automatic"
      /\ visited' = visited \cup {at} /\ at' = chosen[at]
  BY DEF RunOn
<1>2. PICK S \in SUBSET StepId, end \in StepId, rank \in [StepId -> Int] :
        /\ Ordered(S, end, rank) /\ flow[end].kind # "automatic"
        /\ at \in S \cup {end}
        /\ flow[at].kind = "automatic" => \A s \in visited : rank[s] < rank[at]
  BY <1>1 DEF RehearsalInv, RunOrdered
<1>3. at \in S
  BY <1>1, <1>2
<1>4. chosen[at] \in S \cup {end} /\ rank[chosen[at]] > rank[at]
  BY <1>2, <1>3 DEF Ordered
<1>5. \A s \in visited' : rank[s] < rank[at']
  <2>1. at' \in StepId /\ at \in StepId /\ visited \subseteq StepId
    BY DEF GraphTypeOK, RehearsalInv
  <2> QED BY <1>1, <1>2, <1>4, <2>1
<1>6. /\ \A s \in S : /\ flow'[s].kind = "automatic"
                      /\ chosen'[s] \in S \cup {end}
                      /\ rank[chosen'[s]] > rank[s]
      /\ flow'[end].kind # "automatic" /\ at' \in S \cup {end}
  BY <1>1, <1>2, <1>4 DEF Ordered
<1> QED BY <1>2, <1>5, <1>6 DEF RunOrdered, Ordered

\* A run that fails is at a step it has passed, or at one without a way: neither
\* is in the order.
LEMMA StuckStep ==
  ASSUME RehearsalInv, GetStuck
  PROVE  RunOrdered' /\ NotStuck'
<1>1. /\ UNCHANGED <<flow, chosen, at, visited, rehearsed>> /\ phase = "run"
      /\ at \in visited \/ chosen[at] = NoStep
  BY DEF GetStuck, submission
<1>2. RunOrdered'
  BY <1>1 DEF RehearsalInv, RunOrdered, Ordered
<1>3. ASSUME rehearsed, flow[at].kind = "automatic" PROVE FALSE
  <2>1. PICK S \in SUBSET StepId, end \in StepId, rank \in [StepId -> Int] :
          /\ Ordered(S, end, rank) /\ flow[end].kind # "automatic"
          /\ at \in S \cup {end}
          /\ flow[at].kind = "automatic" => \A s \in visited : rank[s] < rank[at]
    BY <1>1, <1>3 DEF RehearsalInv, RunOrdered
  <2>2. at \in S /\ chosen[at] \in StepId
    BY <1>3, <2>1 DEF Ordered
  <2>3. at \in visited
    BY <1>1, <2>2, GraphAssumption
  <2>4. rank[at] < rank[at] /\ rank[at] \in Int
    BY <1>3, <2>1, <2>3 DEF RehearsalInv, GraphTypeOK
  <2> QED BY <2>4
<1> QED BY <1>1, <1>2, <1>3 DEF NotStuck

\* The steps on which no rehearsed run goes on.
LEMMA UnrehearsedStep ==
  ASSUME RehearsalInv, phase' # "rehearse", phase' \notin {"run", "stuck"} \/ ~rehearsed',
         phase' \in {"reach", "finish", "refused"} => ~rehearsed'
  PROVE  RehearsalOrdered' /\ RunOrdered' /\ NotStuck' /\ NotYet'
BY DEF RehearsalOrdered, RunOrdered, NotStuck, NotYet

LEMMA DecideStep ==
  ASSUME RehearsalInv, GraphTypeOK', NEW s \in StepId, Decide(s)
  PROVE  RehearsalInv'
<1>1. phase' = "rehearse" /\ visited' = {} /\ target' = s /\ cursor' = s
  BY DEF Decide
<1>2. RehearsalOrdered'
  <2> DEFINE rank == [t \in StepId |-> 0]
  <2>1. rank \in [StepId -> Int]
    OBVIOUS
  <2>2. Ordered(visited, cursor, rank)'
    BY <1>1 DEF Ordered
  <2> HIDE DEF rank
  <2> QED BY <1>1, <2>1, <2>2 DEF RehearsalOrdered
<1> QED BY <1>1, <1>2 DEF RehearsalInv, RunOrdered, NotStuck, NotYet

LEMMA WalkStep ==
  ASSUME RehearsalInv, GraphTypeOK', Walk
  PROVE  RehearsalInv'
<1>1. phase \in {"reach", "finish"} /\ rehearsed' = rehearsed /\ phase' \notin {"rehearse", "stuck"}
  BY DEF Walk, Look, GrowCanFinish, LookBack, Refuse, SubmitFirst, submission
<1>2. ~rehearsed'
  BY <1>1 DEF RehearsalInv, NotYet
<1> QED BY <1>1, <1>2, UnrehearsedStep DEF RehearsalInv

LEMMA RestStep ==
  ASSUME RehearsalInv, GraphTypeOK', Act \/ RehearsalFails \/ Arrive \/ AwaitDocument
  PROVE  RehearsalInv'
<1>1. phase' = "rest" \/ (phase' = "run" /\ ~rehearsed')
  BY DEF Act, RehearsalFails, Arrive, AwaitDocument
<1> QED BY <1>1, UnrehearsedStep DEF RehearsalInv

LEMMA RehearsedStep ==
  ASSUME RehearsalInv, GraphTypeOK', RehearseOn \/ StoreDecision \/ RunOn \/ GetStuck
  PROVE  RehearsalInv'
<1>1. CASE RehearseOn
  <2>1. phase' = "rehearse"
    BY <1>1 DEF RehearseOn, RehearsalInv, GraphTypeOK
  <2> QED BY <1>1, <2>1, RehearseStep DEF RehearsalInv, RunOrdered, NotStuck, NotYet
<1>2. CASE StoreDecision
  <2>1. phase' = "run"
    BY <1>2 DEF StoreDecision
  <2> QED BY <1>2, <2>1, StoreStep DEF RehearsalInv, RehearsalOrdered, NotStuck, NotYet
<1>3. CASE RunOn
  <2>1. phase' = "run"
    BY <1>3 DEF RunOn
  <2> QED BY <1>3, <2>1, RunStep DEF RehearsalInv, RehearsalOrdered, NotStuck, NotYet
<1>4. CASE GetStuck
  <2>1. phase' = "stuck"
    BY <1>4 DEF GetStuck
  <2> QED BY <1>4, <2>1, StuckStep DEF RehearsalInv, RehearsalOrdered, NotYet
<1> QED BY <1>1, <1>2, <1>3, <1>4

LEMMA RehearsalNext ==
  RehearsalInv /\ GraphTypeOK' /\ [GraphNext]_graphVars => RehearsalInv'
<1> SUFFICES ASSUME RehearsalInv, GraphTypeOK', [GraphNext]_graphVars
             PROVE  RehearsalInv'
  OBVIOUS
<1>1. CASE UNCHANGED graphVars
  BY <1>1 DEF graphVars, RehearsalInv, RehearsalOrdered, RunOrdered, NotStuck, NotYet,
     Ordered
<1>2. CASE GraphNext
  BY <1>2, WalkStep, RehearsedStep, RestStep, DecideStep DEF GraphNext, Rehearsal, Run
<1> QED BY <1>1, <1>2

\* For any workflow and any data of the submission: behind a decision that was
\* stored the run does not fail on the rehearsed path.
THEOREM RehearsalKept == GraphSpec => []RehearsalHolds
<1>1. GraphInit => RehearsalInv
  BY GraphAssumption, InitWalk
     DEF GraphInit, WalkInv, RehearsalInv, RehearsalOrdered, RunOrdered, NotStuck, NotYet
<1>2. WalkInv => GraphTypeOK
  BY DEF WalkInv
<1>3. RehearsalInv => RehearsalHolds
  BY DEF RehearsalInv, NotStuck, RehearsalHolds
<1> QED BY <1>1, <1>2, <1>3, WalkInductive, RehearsalNext, PTL DEF GraphSpec

\* Every variable of the module keeps its type.
THEOREM GraphTypes == GraphSpec => []GraphTypeOK
<1>1. WalkInv => GraphTypeOK
  BY DEF WalkInv
<1> QED BY <1>1, WalkInductive, PTL

---------------------------------------------------------------------------
(* The loops end. *)

\* A step that was looked at is not looked at again.
LookedOnce == stack \cap reachable = {}

LEMMA FewerLeft ==
  ASSUME IsFiniteSet(StepId), NEW S \in SUBSET StepId, NEW s \in StepId \ S
  PROVE  Cardinality(StepId \ (S \cup {s})) < Cardinality(StepId \ S)
<1> DEFINE T == StepId \ S
<1>1. IsFiniteSet(T)
  BY FS_Subset
<1>2. s \in T /\ StepId \ (S \cup {s}) = T \ {s}
  OBVIOUS
<1>3. Cardinality(T) \in Nat /\ Cardinality(T \ {s}) = Cardinality(T) - 1
  BY <1>1, <1>2, FS_RemoveElement, FS_CardinalityType
<1> QED BY <1>2, <1>3

\* One turn of a loop: a step is added to those it has seen.
LEMMA TurnAdds ==
  ASSUME WalkInv, LookedOnce,
         \/ \E s \in StepId : Look(s) \/ GrowCanFinish(s)
         \/ RehearseOn \/ RunOn
  PROVE  /\ phase' = phase
         /\ \E s \in StepId \ Seen : Seen' = Seen \cup {s}
         /\ Seen \subseteq StepId
<1>1. /\ reachable \subseteq StepId /\ canFinish \subseteq StepId
      /\ visited \subseteq StepId /\ at \in StepId /\ cursor \in StepId
  BY DEF WalkInv, GraphTypeOK
<1>2. ASSUME NEW s \in StepId, Look(s)
      PROVE  /\ phase' = phase /\ phase = "reach"
             /\ s \notin reachable /\ reachable' = reachable \cup {s}
  BY <1>2 DEF Look, LookedOnce
<1>3. ASSUME NEW s \in StepId, GrowCanFinish(s)
      PROVE  /\ phase' = phase /\ phase = "finish"
             /\ s \notin canFinish /\ canFinish' = canFinish \cup {s}
  BY <1>3 DEF GrowCanFinish, Finishing
<1>4. CASE RehearseOn
  <2>1. /\ phase' = phase /\ phase = "rehearse"
        /\ cursor \notin visited /\ visited' = visited \cup {cursor}
    BY <1>4 DEF RehearseOn
  <2> QED BY <1>1, <2>1 DEF Seen
<1>5. CASE RunOn
  <2>1. /\ phase' = phase /\ phase = "run"
        /\ at \notin visited /\ visited' = visited \cup {at}
    BY <1>5 DEF RunOn
  <2> QED BY <1>1, <2>1 DEF Seen
<1> QED BY <1>1, <1>2, <1>3, <1>4, <1>5 DEF Seen

LEMMA TurnEnds ==
  ASSUME \/ LookBack \/ Refuse \/ SubmitFirst \/ RehearsalFails \/ StoreDecision
         \/ Arrive \/ AwaitDocument \/ GetStuck \/ Act
         \/ \E s \in StepId : Decide(s)
  PROVE  Looping => phase' \in Onward[phase]
BY DEF LookBack, Refuse, SubmitFirst, RehearsalFails, StoreDecision, Arrive,
   AwaitDocument, GetStuck, Act, Decide, Looping, Onward

LEMMA LookedOnceNext == LookedOnce /\ [GraphNext]_graphVars => LookedOnce'
<1> SUFFICES ASSUME LookedOnce, [GraphNext]_graphVars PROVE LookedOnce'
  OBVIOUS
<1>1. ASSUME NEW s \in StepId, Look(s) PROVE LookedOnce'
  BY <1>1 DEF Look, LookedOnce
<1>2. ASSUME UNCHANGED <<reachable, stack>> PROVE LookedOnce'
  BY <1>2 DEF LookedOnce
<1>3. \/ \E s \in StepId : Look(s)
      \/ UNCHANGED <<reachable, stack>>
  BY DEF GraphNext, Walk, GrowCanFinish, LookBack, Refuse, SubmitFirst, Rehearsal,
     RehearseOn, RehearsalFails, StoreDecision, Run, Arrive, AwaitDocument,
     GetStuck, RunOn, Act, Decide, graphVars, walk
<1> QED BY <1>1, <1>2, <1>3

\* For any workflow of finitely many steps, any data and any decisions: the
\* validation, a rehearsal and a run take at most a turn per step.
THEOREM LoopsShrink ==
  ASSUME IsFiniteSet(StepId) PROVE GraphSpec => TurnsShrink
<1> DEFINE Shorter ==
      Looping => \/ phase' \in Onward[phase]
                 \/ /\ phase' = phase
                    /\ Cardinality(StepId \ Seen') < Cardinality(StepId \ Seen)
<1>1. GraphInit => LookedOnce
  BY DEF GraphInit, LookedOnce
<1>2. WalkInv /\ LookedOnce /\ [GraphNext]_graphVars => [Shorter]_graphVars
  <2> SUFFICES ASSUME WalkInv, LookedOnce, GraphNext PROVE Shorter
    OBVIOUS
  <2>1. CASE \/ \E s \in StepId : Look(s) \/ GrowCanFinish(s)
             \/ RehearseOn \/ RunOn
    <3>1. PICK s \in StepId \ Seen : Seen' = Seen \cup {s}
      BY <2>1, TurnAdds
    <3>2. phase' = phase /\ Seen \in SUBSET StepId
      BY <2>1, TurnAdds
    <3> HIDE DEF Seen
    <3> QED BY <3>1, <3>2, FewerLeft
  <2>2. CASE \/ LookBack \/ Refuse \/ SubmitFirst \/ RehearsalFails
             \/ StoreDecision \/ Arrive \/ AwaitDocument \/ GetStuck \/ Act
             \/ \E s \in StepId : Decide(s)
    BY <2>2, TurnEnds
  <2> QED BY <2>1, <2>2 DEF GraphNext, Walk, Rehearsal, Run
<1> QED BY <1>1, <1>2, WalkInductive, LookedOnceNext, PTL DEF GraphSpec, TurnsShrink
=============================================================================
