------------------------------ MODULE MCOffice ------------------------------
(* The modules around a case, checked in one run: each behaviour is one of   *)
(* one part, in which the variables of the other parts do not move.          *)
EXTENDS CaseWorkflow, FormVersions, CaseAssignment, WorkflowGraph, FileFailover,
        RequestLimiter

VARIABLE part

Parts == {"case", "versions", "assignment", "graph", "failover", "limiter"}

\* Two attempts in a short window, three in a longer one.
ShortPolicy == [attempts |-> 2, window |-> 1]
LongPolicy == [attempts |-> 3, window |-> 3]

officeVars == <<caseVars, versionVars, assignmentVars, graphVars, failoverVars,
                limiterVars, part>>

\* A workflow that was refused: the graph of the other parts.
Dormant ==
  /\ flow = [s \in StepId |-> [kind |-> "automatic", to |-> {s}]]
  /\ phase = "refused"
  /\ reachable = {} /\ stack = {} /\ canFinish = {}
  /\ chosen = [s \in StepId |-> NoStep]
  /\ at = Initial /\ target = Initial /\ cursor = Initial
  /\ visited = {} /\ rehearsed = FALSE

OfficeInit ==
  /\ part \in Parts
  /\ CaseInit /\ (part # "case" => row.answers = "ok" /\ row.place = At("submission"))
  /\ VersionsInit /\ AssignmentInit
  /\ IF part = "graph" THEN GraphInit ELSE Dormant
  /\ FailoverInit /\ LimiterInit

OfficeNext ==
  \/ part = "case" /\ CaseNext
       /\ UNCHANGED <<versionVars, assignmentVars, graphVars, failoverVars,
                      limiterVars, part>>
  \/ part = "versions" /\ VersionsNext
       /\ UNCHANGED <<caseVars, assignmentVars, graphVars, failoverVars,
                      limiterVars, part>>
  \/ part = "assignment" /\ AssignmentNext
       /\ UNCHANGED <<caseVars, versionVars, graphVars, failoverVars,
                      limiterVars, part>>
  \/ part = "graph" /\ GraphNext
       /\ UNCHANGED <<caseVars, versionVars, assignmentVars, failoverVars,
                      limiterVars, part>>
  \/ part = "failover" /\ FailoverNext
       /\ UNCHANGED <<caseVars, versionVars, assignmentVars, graphVars,
                      limiterVars, part>>
  \/ part = "limiter" /\ LimiterNext
       /\ UNCHANGED <<caseVars, versionVars, assignmentVars, graphVars,
                      failoverVars, part>>

\* What is fair in one part is not enabled in the others.
OfficeSpec ==
  /\ OfficeInit /\ [][OfficeNext]_officeVars
  /\ VersionsFairness /\ AssignmentFairness /\ GraphFairness
=============================================================================
