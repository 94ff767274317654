--------------------------- MODULE RequestLimiter ---------------------------
(* The login limiter, for one client and login, in every worker at once.     *)
(*                                                                          *)
(* A login counts the failures in each policy's window before it looks at    *)
(* the password and records its own afterwards, in a transaction that no      *)
(* other one waits for; a success clears them.  Old ones are deleted on the  *)
(* way.  Time is counted in steps.                                          *)
EXTENDS Integers, FiniteSets

CONSTANTS
  Client,   \* logins in hand, one for each worker
  Short,    \* LoginRateLimitPolicy: attempts in a short window, ...
  Long,     \* ... and in a long one
  MaxTime,  \* bound: time
  MaxFailures  \* bound: failures in a row

ASSUME LimiterAssumption ==
  /\ IsFiniteSet(Client)
  /\ {Short, Long} \subseteq [attempts : Nat \ {0}, window : Nat \ {0}]
  \* holds of the defaults; config.py lets an operator set them otherwise
  /\ Short.window <= Long.window
  /\ MaxTime \in Nat /\ MaxFailures \in Nat

VARIABLES
  now,       \* the clock
  failures,  \* AdminLoginAttempt rows: id and attempted_at
  checking,  \* logins that passed the limiter
  happened   \* every failure since the last success, deleted or not

limiterVars == <<now, failures, checking, happened>>

Attempt == [id : 1..MaxFailures, at : 0..MaxTime]
LimiterTypeOK ==
  /\ now \in 0..MaxTime
  /\ failures \subseteq Attempt
  /\ checking \subseteq Client
  /\ happened \subseteq Attempt

LimiterInit == now = 0 /\ failures = {} /\ checking = {} /\ happened = {}

\* _count
Within(rows, window) == {r \in rows : r.at >= now - window}
Count(rows, p) == Cardinality(Within(rows, p.window))
Limited == \E p \in {Short, Long} : Count(failures, p) >= p.attempts

\* is_limited
Check(c) ==
  /\ c \notin checking /\ ~Limited
  /\ checking' = checking \cup {c}
  /\ UNCHANGED <<now, failures, happened>>

\* record_failure: the insert, and the deletion of what no window reaches.
NewAttempt == [id |-> Cardinality(happened) + 1, at |-> now]
RecordFailure_DropsTooMuch(c) ==
  /\ c \in checking /\ Cardinality(happened) < MaxFailures
  /\ failures' = Within(failures, Short.window) \cup {NewAttempt}
  /\ happened' = happened \cup {NewAttempt}
  /\ checking' = checking \ {c}
  /\ UNCHANGED now
RecordFailure(c) ==
  /\ c \in checking /\ Cardinality(happened) < MaxFailures
  /\ failures' = Within(failures, Long.window) \cup {NewAttempt}
  /\ happened' = happened \cup {NewAttempt}
  /\ checking' = checking \ {c}
  /\ UNCHANGED now
\* clear_failures
Succeed(c) ==
  /\ c \in checking
  /\ failures' = {} /\ happened' = {}
  /\ checking' = checking \ {c}
  /\ UNCHANGED now
Tick ==
  /\ now < MaxTime /\ now' = now + 1
  /\ UNCHANGED <<failures, checking, happened>>

LimiterNext ==
  Tick \/ \E c \in Client : Check(c) \/ RecordFailure(c) \/ Succeed(c)

LimiterSpec == LimiterInit /\ [][LimiterNext]_limiterVars

---------------------------------------------------------------------------
(* Properties. *)

\* Logins that run at the same time get past a limit that is nearly reached, but
\* no more of them than there are workers: no window ever has more failures than
\* its limit and the other workers, those counted that were deleted.
OverrunBounded ==
  \A p \in {Short, Long} : Count(happened, p) <= p.attempts + Cardinality(Client) - 1
=============================================================================
