--------------------------- MODULE DocumentLease ---------------------------
(* The lease on the composite document step of one submission.             *)
(*                                                                          *)
(* Every operation on a document (fields, generation, upload, download)     *)
(* claims document_states["document_operation"], works on a copy of the     *)
(* step's state, saves it, and releases.  Claim, save and release all write *)
(* the whole document_states column back from a copy read before, guarded   *)
(* by the token alone.  The participant may also change the selected        *)
(* trainings, which reopens the agreements and retires a declaration that   *)
(* lists them, in the same column and without a token.                      *)
(*                                                                          *)
(* What an operation does to its document is DocumentGroup; here a document *)
(* is accepted or not.  A worker is killed after two minutes, long before   *)
(* its lease of fifteen ends.                                               *)
EXTENDS Integers, FiniteSets

CONSTANTS
  Request,     \* requests; each makes one token
  Doc,         \* the documents of the step
  Declaration, \* the one that lists the selected trainings
  Agreement,   \* the collection, a file per selected training
  None         \* no token

ASSUME LeaseAssumption ==
  /\ Declaration \in Doc /\ Agreement \in Doc
  /\ None \notin Request

VARIABLES
  row,    \* FormSubmission: workflow_step and document_states
  until,  \* document_operation_until: released, in the future, or past
  moves,  \* workflow transitions recorded from this step
  pc,     \* progress of a request
  op,     \* its operation: a kind and a document
  copy    \* the document_states it works on

vars == <<row, until, moves, pc, op, copy>>

States == [holder : Request \cup {None},  \* document_operation
           accepted : SUBSET Doc,        \* documents[d].completed
           completed : BOOLEAN]          \* the step's own flag
Kind == {"upload", "keep", "start"}

Holding == {"leased", "loaded", "saved", "finished"}

TypeOK ==
  /\ row \in [step : {"documents", "next"}, states : States]
  /\ until \in {"released", "future", "past"}
  /\ moves \in Nat
  /\ pc \in [Request -> Holding \cup
                        {"idle", "asked", "advance", "move", "done"}]
  /\ op \in [Request -> Kind \X Doc]
  /\ copy \in [Request -> States]

NoStates == [holder |-> None, accepted |-> {}, completed |-> FALSE]

Init ==
  /\ row = [step |-> "documents", states |-> NoStates]
  /\ until = "released"
  /\ moves = 0
  /\ pc = [r \in Request |-> "idle"]
  /\ op = [r \in Request |-> <<"start", Declaration>>]
  /\ copy = [r \in Request |-> NoStates]

Goto(r, l) == pc' = [pc EXCEPT ![r] = l]
Leased == row.states.holder # None /\ until = "future"

---------------------------------------------------------------------------
\* claim_document_operation up to its UPDATE: reads the row, refuses while a
\* lease is running.
Ask_IgnoresLease(r) ==
  /\ pc[r] = "idle" /\ row.step = "documents"
  /\ \E k \in Kind, d \in Doc : op' = [op EXCEPT ![r] = <<k, d>>]
  /\ copy' = [copy EXCEPT ![r] = row.states]
  /\ Goto(r, "asked")
  /\ UNCHANGED <<row, until, moves>>
Ask(r) ==
  /\ pc[r] = "idle" /\ row.step = "documents" /\ ~Leased
  /\ \E k \in Kind, d \in Doc : op' = [op EXCEPT ![r] = <<k, d>>]
  /\ copy' = [copy EXCEPT ![r] = row.states]
  /\ Goto(r, "asked")
  /\ UNCHANGED <<row, until, moves>>

\* Its UPDATE: the token must be the one read; what is written is the copy.
ClaimWins(r) ==
  row.step = "documents" /\ row.states.holder = copy[r].holder
Claim(r) ==
  /\ pc[r] = "asked" /\ ClaimWins(r)
  /\ row' = [row EXCEPT !.states = [copy[r] EXCEPT !.holder = r]]
  /\ until' = "future"
  /\ Goto(r, "leased")
  /\ UNCHANGED <<moves, op, copy>>

ClaimLost(r) ==
  /\ pc[r] = "asked" /\ ~ClaimWins(r)
  /\ Goto(r, "done")
  /\ UNCHANGED <<row, until, moves, op, copy>>

\* The operation reads the row again under its lease.
Load(r) ==
  /\ pc[r] = "leased"
  /\ copy' = [copy EXCEPT ![r] = row.states]
  /\ Goto(r, "loaded")
  /\ UNCHANGED <<row, until, moves, op>>

\* The states an operation writes: an upload, or a start that recovers one from
\* its file, accepts the document; fields, generation and download keep what is
\* accepted; any start puts the step's flag right.  The step is completed with
\* its last document.
Accepted(r) ==
  IF op[r][1] = "upload" THEN copy[r].accepted \cup {op[r][2]}
                         ELSE copy[r].accepted
Result(r) ==
  [copy[r] EXCEPT !.accepted = Accepted(r),
                  !.completed = Accepted(r) = Doc]

\* An operation on a finished step or document is refused.
Refused(r) ==
  op[r][1] # "start" /\ (copy[r].completed \/ op[r][2] \in copy[r].accepted)

\* save_document_step, atomic: only the holder of the token can write.
Save(r) ==
  /\ pc[r] = "loaded" /\ ~Refused(r)
  /\ row.step = "documents" /\ row.states.holder = r
  /\ row' = [row EXCEPT !.states = Result(r)]
  /\ Goto(r, IF Result(r).completed THEN "finished" ELSE "saved")
  /\ UNCHANGED <<until, moves, op, copy>>

\* Refused, failed, or the step moved on: nothing is saved.
GiveUp(r) ==
  /\ pc[r] = "loaded"
  /\ Goto(r, "saved")
  /\ UNCHANGED <<row, until, moves, op, copy>>

\* release_document_operation, in the finally block.
Release_DropsKey(r) ==
  /\ pc[r] \in {"saved", "finished"}
  /\ row' = [row EXCEPT !.states = [accepted |-> @.accepted,
                                    completed |-> @.completed]]
  /\ until' = "released"
  /\ Goto(r, IF pc[r] = "finished" THEN "advance" ELSE "done")
  /\ UNCHANGED <<moves, op, copy>>
Release(r) ==
  /\ pc[r] \in {"saved", "finished"}
  /\ IF row.states.holder = r
       THEN /\ row' = [row EXCEPT !.states.holder = None]
            /\ until' = "released"
       ELSE UNCHANGED <<row, until>>
  /\ Goto(r, IF pc[r] = "finished" THEN "advance" ELSE "done")
  /\ UNCHANGED <<moves, op, copy>>

\* advance_after_action and transition_to read the step's flag again.
Advance(r) ==
  /\ pc[r] = "advance"
  /\ Goto(r, IF row.step = "documents" /\ row.states.completed
               THEN "move" ELSE "done")
  /\ UNCHANGED <<row, until, moves, op, copy>>

\* update_if_workflow_step: only the caller that still finds the step moves it
\* and records the transition.
Move_Unconditional(r) ==
  /\ pc[r] = "move"
  /\ row' = [row EXCEPT !.step = "next"]
  /\ moves' = moves + 1
  /\ Goto(r, "done")
  /\ UNCHANGED <<until, op, copy>>
Move(r) ==
  /\ pc[r] = "move"
  /\ IF row.step = "documents"
       THEN row' = [row EXCEPT !.step = "next"] /\ moves' = moves + 1
       ELSE UNCHANGED <<row, moves>>
  /\ Goto(r, "done")
  /\ UNCHANGED <<until, op, copy>>

\* training_selection_changed.  The collection gets a new list of files: it and
\* the step are completed no longer.
Reopened(s) == [s EXCEPT !.accepted = @ \ {Agreement}, !.completed = FALSE]

\* A declaration that lists the trainings is to be made again; the step's own
\* flag stays.
Retired(s) == [s EXCEPT !.accepted = @ \ {Declaration}]

\* save_public, in one transaction under the locks of the Form and submission
\* rows.  It looks at the lease before it calls training_selection_changed, which
\* does the same once more, after the collection and only for a declaration.
\* Either part may find nothing to do: the files are those of the selection, the
\* declaration was not begun, has no template or does not list the trainings.
SelectTrainings_IgnoresLease ==
  /\ \E s \in {row.states, Reopened(row.states)} :
       row' \in {[row EXCEPT !.states = s], [row EXCEPT !.states = Retired(s)]}
  /\ UNCHANGED <<until, moves, pc, op, copy>>
SelectTrainings ==
  /\ until # "future"
  /\ \E s \in {row.states, Reopened(row.states)} :
       row' \in {[row EXCEPT !.states = s], [row EXCEPT !.states = Retired(s)]}
  /\ UNCHANGED <<until, moves, pc, op, copy>>

---------------------------------------------------------------------------
Crash(r) ==
  /\ pc[r] \notin {"idle", "done"}
  /\ Goto(r, "done")
  /\ UNCHANGED <<row, until, moves, op, copy>>

LeaseExpires_Never == until = "past" /\ UNCHANGED vars
LeaseExpires ==
  /\ until = "future" /\ \A r \in Request : pc[r] \notin Holding
  /\ until' = "past"
  /\ UNCHANGED <<row, moves, pc, op, copy>>

RequestStep(r) ==
  \/ Ask(r) \/ Claim(r) \/ ClaimLost(r) \/ Load(r) \/ Save(r) \/ GiveUp(r)
  \/ Release(r) \/ Advance(r) \/ Move(r) \/ Crash(r)

Next ==
  \/ \E r \in Request : RequestStep(r)
  \/ SelectTrainings \/ LeaseExpires

\* A request ends, if only by the worker's timeout, and time passes.
Fairness ==
  /\ \A r \in Request : WF_vars(pc[r] # "idle" /\ RequestStep(r))
  /\ WF_vars(LeaseExpires)

Spec == Init /\ [][Next]_vars
FairSpec == Spec /\ Fairness

---------------------------------------------------------------------------
(* Properties. *)

\* A live operation has the lease until it releases it, and works on what it
\* will overwrite: from the load to the save nobody else writes the states, be it
\* a late claim or release, or the participant's change of trainings, which has
\* no token and writes the column for the agreements before it comes to its check
\* of the lease: what holds it back is the check of its caller.  DocumentGroup,
\* where operations take turns, takes this for granted.  (An edit put back after
\* a failed recheck writes every column: CaseWorkflow has it, this module not.)
HolderKeepsLease ==
  \A r \in Request : pc[r] \in Holding =>
    /\ row.states.holder = r /\ until = "future"
    /\ pc[r] = "loaded" => copy[r] = row.states

\* The step is left once, however many requests find it completed.
AdvancedOnce == moves <= 1

\* The lease implements exclusion of live operations.
Excl == INSTANCE Exclusion WITH
          Actor <- Request, holders <- {r \in Request : pc[r] \in Holding}
Exclusive == Excl!Spec

\* A lease left by a crashed worker does not block the documents for ever.
LeaseEnds == (until = "future") ~> (until # "future")

\* "A durable lease serializes document operations across workers without
\* holding PDF I/O locks": claiming and releasing it leaves the documents
\* alone, only a save or a changed selection may change them.
ClaimKeepsDocuments ==
  [][\A r \in Request : pc[r] = "asked" /\ pc'[r] = "leased"
       => row'.states.accepted = row.states.accepted]_vars
=============================================================================
