---------------------------- MODULE FileFailover ----------------------------
(* Files on the remote storage, and on the local disk while that is out of   *)
(* reach.                                                                   *)
(*                                                                          *)
(* Each worker has a circuit breaker of its own: a call that cannot connect  *)
(* goes to the disk, and so do the worker's calls of the next seconds.       *)
(* Nothing is copied back afterwards; a binary file the remote storage does  *)
(* not have is looked for on the disk.  A call whose answer is lost may have *)
(* done its work.                                                           *)
EXTENDS Integers

CONSTANTS
  Worker,  \* worker processes, which share the disk
  File,    \* paths
  MaxSave  \* bound: saves of a file

ASSUME FailoverAssumption == MaxSave \in Nat

VARIABLES
  up,      \* whether the remote storage can be reached
  open,    \* workers whose breaker is open
  remote,  \* the save a file has there, 0 if it has none
  disk,    \* the same for the disk
  newest,  \* the last save, 0 if it was deleted since
  saves,   \* saves so far
  answer   \* the last read that got as far as the remote storage

failoverVars == <<up, open, remote, disk, newest, saves, answer>>

Save == 0..MaxSave
Answer == [file : File, save : Save]

FailoverTypeOK ==
  /\ up \in BOOLEAN /\ open \subseteq Worker
  /\ {remote, disk, newest, saves} \subseteq [File -> Save]
  /\ answer \subseteq Answer

FailoverInit ==
  /\ up = TRUE /\ open = {}
  /\ remote = [f \in File |-> 0] /\ disk = [f \in File |-> 0]
  /\ newest = [f \in File |-> 0] /\ saves = [f \in File |-> 0]
  /\ answer = {}

\* How a call ends: answered by the remote storage, answered but the answer is
\* lost, not connected, or not tried.
Outcome(w) ==
  IF w \in open THEN {"skipped"}
  ELSE IF up THEN {"answered", "lost"} ELSE {"failed"}
ReachesRemote(o) == o \in {"answered", "lost"}
FallsBack(o) == o # "answered"
Breaker(w, o) == open' = IF o \in {"lost", "failed"} THEN open \cup {w} ELSE open

\* write_bytes, save_pdf
WriteFile(w, f) ==
  /\ saves[f] < MaxSave
  /\ \E o \in Outcome(w) :
       LET n == saves[f] + 1 IN
         /\ saves' = [saves EXCEPT ![f] = n]
         /\ newest' = [newest EXCEPT ![f] = n]
         /\ remote' = IF ReachesRemote(o) THEN [remote EXCEPT ![f] = n] ELSE remote
         /\ disk' = IF FallsBack(o) THEN [disk EXCEPT ![f] = n] ELSE disk
         /\ Breaker(w, o)
  /\ answer' = {} /\ UNCHANGED up

\* delete(missing_ok=True)
DeleteFile(w, f) ==
  /\ \E o \in Outcome(w) :
       /\ remote' = IF ReachesRemote(o) THEN [remote EXCEPT ![f] = 0] ELSE remote
       /\ disk' = IF FallsBack(o) THEN [disk EXCEPT ![f] = 0] ELSE disk
       /\ Breaker(w, o)
  /\ newest' = [newest EXCEPT ![f] = 0]
  /\ answer' = {} /\ UNCHANGED <<up, saves>>

\* read_bytes, get_pdf_bytes: a 404 of the remote storage is answered from the
\* disk.
ReadFile_RemoteOnly(w, f) ==
  /\ \E o \in Outcome(w) :
       /\ answer' = IF o = "answered" THEN {[file |-> f, save |-> remote[f]]} ELSE {}
       /\ Breaker(w, o)
  /\ UNCHANGED <<up, remote, disk, newest, saves>>
ReadFile(w, f) ==
  /\ \E o \in Outcome(w) :
       /\ answer' = IF o # "answered" THEN {}
                    ELSE {[file |-> f,
                           save |-> IF remote[f] # 0 THEN remote[f] ELSE disk[f]]}
       /\ Breaker(w, o)
  /\ UNCHANGED <<up, remote, disk, newest, saves>>

\* The breaker closes after retry_seconds; a worker that restarts has it closed.
Close(w) ==
  /\ w \in open
  /\ open' = open \ {w}
  /\ UNCHANGED <<up, remote, disk, newest, saves, answer>>
Outage ==
  /\ up' = ~up
  /\ UNCHANGED <<open, remote, disk, newest, saves, answer>>

FailoverNext ==
  \/ Outage
  \/ \E w \in Worker :
       Close(w) \/ \E f \in File : WriteFile(w, f) \/ DeleteFile(w, f) \/ ReadFile(w, f)

FailoverSpec == FailoverInit /\ [][FailoverNext]_failoverVars

---------------------------------------------------------------------------
(* Properties. *)

\* A file written during an outage is found after it: once the remote storage
\* answers, a read gets the newest save, unless an older one there hides it.
SavedFilesFound ==
  \A a \in answer : newest[a.file] # 0 =>
    a.save = newest[a.file] \/ remote[a.file] \notin {0, newest[a.file]}
=============================================================================
