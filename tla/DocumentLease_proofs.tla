------------------------ MODULE DocumentLease_proofs ------------------------
(* Proofs about DocumentLease.  A request makes one token and uses it once, *)
(* so a claim that finds the token it read, free or expired, cannot take    *)
(* the lease from a live operation, even though the documents it writes     *)
(* back may be old.                                                         *)
EXTENDS DocumentLease, TLAPS

Ended == {"advance", "move", "done"}

\* The two halves of HolderKeepsLease: a live operation has the lease, ...
Holds ==
  \A r \in Request : pc[r] \in Holding => row.states.holder = r /\ until = "future"
\* ... and what it has loaded is what is stored.
Current == \A r \in Request : pc[r] = "loaded" => copy[r] = row.states

\* A token in the row is one that a request has claimed with.
TokenUsed ==
  row.states.holder # None => pc[row.states.holder] \in Holding \cup Ended

\* A claim under way has read no token, or that of an ended operation.
AskedFree ==
  \A r \in Request :
    pc[r] = "asked" /\ copy[r].holder # None => pc[copy[r].holder] \in Ended

\* The transition is counted with the change of step.
MovesCount == moves = IF row.step = "documents" THEN 0 ELSE 1

Inv == TypeOK /\ Holds /\ Current /\ TokenUsed /\ AskedFree /\ MovesCount

LEMMA InitHolds == Init => Inv
BY LeaseAssumption
   DEF Init, NoStates, Inv, TypeOK, States, Kind, Holding, Holds, Current,
       TokenUsed, AskedFree, MovesCount

\* Claim and Save write records; their fields, once and for all.
LEMMA ClaimedStates ==
  ASSUME TypeOK, NEW r \in Request, NEW s \in States
  PROVE  /\ [s EXCEPT !.holder = r] \in States
         /\ [s EXCEPT !.holder = r].holder = r
BY DEF States

LEMMA ResultStates ==
  ASSUME TypeOK, NEW r \in Request
  PROVE  /\ Result(r) \in States
         /\ Result(r).holder = copy[r].holder
<1>1. copy[r] \in States /\ op[r][2] \in Doc
  BY DEF TypeOK
<1>2. Accepted(r) \in SUBSET Doc
  BY <1>1 DEF Accepted, States
<1> QED BY <1>1, <1>2 DEF Result, States

\* At most one operation is live.
LEMMA OneLive ==
  ASSUME Inv, NEW r \in Request, NEW q \in Request,
         pc[r] \in Holding, pc[q] \in Holding
  PROVE  r = q
BY DEF Inv, Holds

LEMMA ClaimStep ==
  ASSUME Inv, NEW r \in Request, Claim(r)
  PROVE  Inv'
<1> USE LeaseAssumption DEF Inv, Goto
<1>1. /\ row'.states \in States
      /\ row'.states.holder = r
      /\ row'.step = row.step
      /\ row' \in [step : {"documents", "next"}, states : States]
  <2>1. copy[r] \in States
    BY DEF TypeOK
  <2>2. /\ [copy[r] EXCEPT !.holder = r] \in States
        /\ [copy[r] EXCEPT !.holder = r].holder = r
    BY <2>1, ClaimedStates
  <2> DEFINE new == [copy[r] EXCEPT !.holder = r]
  <2>3. row' = [row EXCEPT !.states = new]
    BY DEF Claim
  <2> HIDE DEF new
  <2> QED BY <2>2, <2>3 DEF TypeOK, new
<1>2. \A q \in Request : pc[q] \notin Holding
  <2> SUFFICES ASSUME NEW q \in Request, pc[q] \in Holding PROVE FALSE
    OBVIOUS
  <2>1. row.states.holder = q /\ copy[r].holder = q
    BY DEF Holds, Claim, ClaimWins
  <2>2. pc[q] \in Ended
    BY <2>1 DEF AskedFree, Claim
  <2> QED BY <2>2 DEF Ended, Holding
<1>3. TypeOK'
  BY <1>1 DEF Claim, TypeOK, Holding
<1>4. Holds' /\ Current'
  BY <1>1, <1>2 DEF Claim, TypeOK, Holds, Current, Holding
<1>5. TokenUsed'
  BY <1>1 DEF Claim, TypeOK, TokenUsed, Holding
<1>6. AskedFree'
  BY DEF Claim, TypeOK, AskedFree, Ended
<1>7. MovesCount'
  BY <1>1 DEF Claim, MovesCount
<1> QED BY <1>3, <1>4, <1>5, <1>6, <1>7

LEMMA AskStep ==
  ASSUME Inv, NEW r \in Request, Ask(r)
  PROVE  Inv'
<1> USE LeaseAssumption DEF Inv, Goto
<1>1. TypeOK'
  BY DEF Ask, TypeOK
<1>2. Holds' /\ Current' /\ TokenUsed' /\ MovesCount'
  BY DEF Ask, TypeOK, Holds, Current, TokenUsed, MovesCount, Holding, Ended
<1>3. row.states.holder # None => pc[row.states.holder] \in Ended
  <2> SUFFICES ASSUME row.states.holder # None
               PROVE  pc[row.states.holder] \in Ended
    OBVIOUS
  <2>1. row.states.holder \in Request
    BY DEF TypeOK, States
  <2>2. pc[row.states.holder] \notin Holding
    BY <2>1 DEF Ask, Leased, Holds
  <2> QED BY <2>2 DEF TokenUsed
<1>4. AskedFree'
  BY <1>3 DEF Ask, TypeOK, AskedFree, Ended, States
<1> QED BY <1>1, <1>2, <1>4

\* Steps that leave the row and the lease alone.
LEMMA ReadStep ==
  ASSUME Inv, NEW r \in Request,
         \/ ClaimLost(r) \/ Load(r) \/ GiveUp(r) \/ Advance(r) \/ Crash(r)
  PROVE  Inv'
<1> USE LeaseAssumption DEF Inv, Goto
<1>1. TypeOK'
  BY DEF ClaimLost, Load, GiveUp, Advance, Crash, TypeOK, Holding
<1>2. Holds' /\ Current'
  BY DEF ClaimLost, Load, GiveUp, Advance, Crash, TypeOK, Holds, Current,
         Holding
<1>3. TokenUsed' /\ MovesCount'
  BY DEF ClaimLost, Load, GiveUp, Advance, Crash, TypeOK, States, TokenUsed,
         MovesCount, Holding, Ended
<1>4. AskedFree'
  BY DEF ClaimLost, Load, GiveUp, Advance, Crash, TypeOK, States, AskedFree,
         Holding, Ended
<1> QED BY <1>1, <1>2, <1>3, <1>4

LEMMA SaveStep ==
  ASSUME Inv, NEW r \in Request, Save(r)
  PROVE  Inv'
<1> USE LeaseAssumption DEF Inv, Goto
<1>1. /\ row'.states.holder = row.states.holder
      /\ row'.step = row.step
      /\ row' \in [step : {"documents", "next"}, states : States]
  <2>1. Result(r) \in States /\ Result(r).holder = r
    BY ResultStates DEF Current, Save
  <2> QED BY <2>1 DEF Save, TypeOK
<1>2. TypeOK'
  BY <1>1 DEF Save, TypeOK, Holding
<1>3. Holds' /\ Current'
  BY <1>1, OneLive DEF Save, TypeOK, Holds, Current, Holding
<1>4. TokenUsed' /\ MovesCount'
  BY <1>1 DEF Save, TypeOK, TokenUsed, MovesCount, Holding, Ended
<1>5. AskedFree'
  BY DEF Save, TypeOK, States, AskedFree, Holding, Ended
<1> QED BY <1>2, <1>3, <1>4, <1>5

LEMMA ReleaseStep ==
  ASSUME Inv, NEW r \in Request, Release(r)
  PROVE  Inv'
<1> USE LeaseAssumption DEF Inv, Goto
<1>1. /\ row.states.holder = r
      /\ row'.states.holder = None
      /\ row'.step = row.step
      /\ row' \in [step : {"documents", "next"}, states : States]
  <2>1. row.states.holder = r
    BY DEF Release, Holds, Holding
  <2>2. row' = [row EXCEPT !.states.holder = None]
    BY <2>1 DEF Release
  <2> QED BY <2>1, <2>2 DEF TypeOK, States
<1>2. \A q \in Request \ {r} : pc[q] \notin Holding
  BY <1>1 DEF Holds
<1>3. TypeOK'
  BY <1>1 DEF Release, TypeOK, Holding
<1>4. Holds' /\ Current'
  BY <1>2 DEF Release, TypeOK, Holds, Current, Holding
<1>5. TokenUsed' /\ MovesCount'
  BY <1>1 DEF Release, TokenUsed, MovesCount
<1>6. AskedFree'
  BY DEF Release, TypeOK, States, AskedFree, Holding, Ended
<1> QED BY <1>3, <1>4, <1>5, <1>6

LEMMA MoveStep ==
  ASSUME Inv, NEW r \in Request, Move(r)
  PROVE  Inv'
<1> USE LeaseAssumption DEF Inv, Goto
<1>1. /\ row'.states = row.states
      /\ row' \in [step : {"documents", "next"}, states : States]
  BY DEF Move, TypeOK
<1>2. MovesCount' /\ moves' \in Nat
  BY DEF Move, TypeOK, MovesCount
<1>3. TypeOK'
  BY <1>1, <1>2 DEF Move, TypeOK
<1>4. Holds' /\ Current' /\ TokenUsed'
  BY <1>1 DEF Move, TypeOK, States, Holds, Current, TokenUsed, Holding, Ended
<1>5. AskedFree'
  BY DEF Move, TypeOK, States, AskedFree, Ended
<1> QED BY <1>2, <1>3, <1>4, <1>5

LEMMA EnvironmentStep ==
  ASSUME Inv, SelectTrainings \/ LeaseExpires
  PROVE  Inv'
<1> USE LeaseAssumption DEF Inv
<1>1. CASE SelectTrainings
  <2>1. row.states \in States
    BY DEF TypeOK
  <2>2. PICK s \in {row.states, Reopened(row.states)} :
          row' \in {[row EXCEPT !.states = s], [row EXCEPT !.states = Retired(s)]}
    BY <1>1 DEF SelectTrainings
  <2>3. s \in States /\ s.holder = row.states.holder
    BY <2>1 DEF Reopened, States
  <2>4. Retired(s) \in States /\ Retired(s).holder = row.states.holder
    BY <2>3 DEF Retired, States
  <2>5. /\ row' \in [step : {"documents", "next"}, states : States]
        /\ row'.states.holder = row.states.holder /\ row'.step = row.step
    BY <2>2, <2>3, <2>4 DEF TypeOK
  <2>6. until # "future" /\ UNCHANGED <<until, moves, pc, op, copy>>
    BY <1>1 DEF SelectTrainings
  <2>7. \A r \in Request : pc[r] \notin Holding
    BY <2>6 DEF Holds
  <2>8. TypeOK'
    BY <2>5, <2>6 DEF TypeOK
  <2>9. Holds' /\ Current'
    BY <2>6, <2>7 DEF Holds, Current, Holding
  <2> QED BY <2>5, <2>6, <2>8, <2>9 DEF TokenUsed, AskedFree, MovesCount
<1>2. CASE LeaseExpires
  BY <1>2 DEF LeaseExpires, TypeOK, Holds, Current, Holding, TokenUsed, AskedFree,
     MovesCount
<1> QED BY <1>1, <1>2

LEMMA StepHolds == Inv /\ [Next]_vars => Inv'
<1> SUFFICES ASSUME Inv, [Next]_vars PROVE Inv'
  OBVIOUS
<1>1. ASSUME NEW r \in Request, RequestStep(r) PROVE Inv'
  BY <1>1, AskStep, ClaimStep, ReadStep, SaveStep, ReleaseStep, MoveStep
     DEF RequestStep
<1>2. CASE UNCHANGED vars
  BY <1>2 DEF vars, Inv, TypeOK, Holds, Current, TokenUsed, AskedFree,
     MovesCount
<1> QED BY <1>1, <1>2, EnvironmentStep DEF Next

LEMMA Inductive == Spec => []Inv
BY InitHolds, StepHolds, PTL DEF Spec

\* Every variable keeps its type.
THEOREM LeaseTypes == Spec => []TypeOK
<1>1. Inv => TypeOK
  BY DEF Inv
<1> QED BY Inductive, <1>1, PTL

\* A live operation keeps the lease it claimed and what it loaded under it, for
\* any number of requests.
THEOREM LeaseKept == Spec => []HolderKeepsLease
<1>1. Inv => HolderKeepsLease
  BY DEF Inv, Holds, Current, HolderKeepsLease
<1> QED BY Inductive, <1>1, PTL

\* The step is left at most once.
THEOREM LeftOnce == Spec => []AdvancedOnce
<1>1. Inv => AdvancedOnce
  BY DEF Inv, MovesCount, AdvancedOnce
<1> QED BY Inductive, <1>1, PTL

---------------------------------------------------------------------------
\* The lease implements the exclusion of operations, step by step.
LEMMA StepExcludes ==
  Inv /\ [Next]_vars => [Excl!Next]_{r \in Request : pc[r] \in Holding}
<1> DEFINE live == {r \in Request : pc[r] \in Holding}
<1> SUFFICES ASSUME Inv, [Next]_vars, live' # live PROVE Excl!Next
  BY DEF Excl!Next
<1> USE DEF Inv
<1>1. PICK r \in Request : RequestStep(r)
  <2>1. CASE SelectTrainings \/ LeaseExpires \/ UNCHANGED vars
    BY <2>1 DEF SelectTrainings, LeaseExpires, vars
  <2> QED BY <2>1 DEF Next
<1>2. CASE Claim(r)
  <2>1. live = {}
    <3> SUFFICES ASSUME NEW q \in Request, pc[q] \in Holding PROVE FALSE
      OBVIOUS
    <3>1. copy[r].holder = q
      BY <1>2 DEF Holds, Claim, ClaimWins
    <3>2. pc[q] \in Ended
      BY <1>2, <3>1, LeaseAssumption DEF AskedFree, Claim
    <3> QED BY <3>2 DEF Ended, Holding
  <2>2. live' = {r}
    BY <1>2, <2>1 DEF Claim, Goto, TypeOK, Holding
  <2> QED BY <2>1, <2>2 DEF Excl!Next, Excl!Acquire
<1>3. CASE Release(r) \/ Crash(r)
  <2>1. live' = live \ {r}
    BY <1>3 DEF Release, Crash, Goto, TypeOK, Holding
  <2>2. r \in live
    BY <2>1
  <2> QED BY <2>1, <2>2 DEF Excl!Next, Excl!End
<1>4. CASE ~(Claim(r) \/ Release(r) \/ Crash(r))
  BY <1>1, <1>4 DEF RequestStep, Ask, ClaimLost, Load, Save, GiveUp, Advance,
     Move, Goto, TypeOK, Holding
<1> QED BY <1>2, <1>3, <1>4

\* Every behaviour of the lease is a behaviour of Exclusion.
THEOREM LeaseExcludes == Spec => Exclusive
<1>1. Init => Excl!Init
  BY DEF Init, Excl!Init, Holding
<1>2. Spec => Excl!Init /\ [][Excl!Next]_{r \in Request : pc[r] \in Holding}
  BY <1>1, Inductive, StepExcludes, PTL DEF Spec
<1> QED BY <1>2, PTL DEF Exclusive, Excl!Spec
=============================================================================
