------------------------- MODULE MailDispatch_proofs -------------------------
(* Proofs about MailDispatch.  A locked mail is counted between three places *)
(* an accepted delivery can be in: logged as sent, in the hand of the worker *)
(* that holds the lock, or lost.  A reminder is in one hand once.            *)
EXTENDS MailDispatch, TLAPS

InHand == {"sent", "failed"}

\* Where a worker stands, it holds the lock or the claim that brought it there.
Entitled ==
  \A w \in Worker :
    /\ pc[w] = "locked" => msg[w] \in Locking /\ lock = w
    /\ pc[w] = "claimed" => msg[w] \in Reminder /\ msg[w] \in claimed
    /\ pc[w] \in InHand => msg[w] \in Message
    /\ pc[w] \in InHand /\ msg[w] \in Locking => lock = w

\* A mail in hand has not been logged in a way that bars it.
Unsettled ==
  \A w \in Worker :
    pc[w] \in InHand /\ msg[w] \in Locking => ~AlreadyThere(msg[w])

Accepted(m) ==
  "sent" \in logged[m] \/ \E w \in Worker : pc[w] = "sent" /\ msg[w] = m

Accounted ==
  \A m \in Locking :
    /\ delivered[m] <= lost[m] + 1
    /\ ~Accepted(m) => delivered[m] <= lost[m]

RemindedOnce ==
  \A m \in Reminder :
    /\ delivered[m] <= 1
    /\ m \notin claimed => delivered[m] = 0
    /\ \A w \in Worker : pc[w] = "claimed" /\ msg[w] = m => delivered[m] = 0
    /\ \A w, v \in Worker :
         /\ pc[w] = "claimed" /\ pc[v] = "claimed"
         /\ msg[w] = m /\ msg[v] = m
         => w = v

SentInHand ==
  \A w \in Worker : pc[w] = "sent" => delivered[msg[w]] > 0

Inv ==
  /\ TypeOK /\ Entitled /\ Unsettled /\ Accounted /\ RemindedOnce
  /\ SentIsDelivered /\ SentInHand

USE MailAssumption

-----------------------------------------------------------------------------
LEMMA InitHolds == Init => Inv
BY DEF Init, Inv, TypeOK, Counts, Entitled, Unsettled, InHand, Accounted,
       RemindedOnce, SentIsDelivered, SentInHand, Message, Locking

\* Steps before the SMTP server is asked.
LEMMA LockStep ==
  ASSUME Inv, NEW w \in Worker, NEW m \in Message, Lock(w, m)
  PROVE  Inv'
BY DEF Lock, Goto, smtp, Inv, TypeOK, Counts, Entitled, Unsettled, InHand,
       Accounted, Accepted, AlreadyThere, RemindedOnce, SentIsDelivered,
       SentInHand, Message, Locking

LEMMA SkipStep ==
  ASSUME Inv, NEW w \in Worker, Skip(w)
  PROVE  Inv'
BY DEF Skip, Goto, smtp, Inv, TypeOK, Counts, Entitled, Unsettled, InHand,
       Accounted, Accepted, AlreadyThere, RemindedOnce, SentIsDelivered,
       SentInHand, Message, Locking

LEMMA ScanSteps ==
  ASSUME Inv, NEW w \in Worker, BeginScan(w) \/ EndScan(w)
  PROVE  Inv'
BY DEF BeginScan, EndScan, Goto, smtp, Inv, TypeOK, Counts, Entitled, Unsettled,
       InHand, Accounted, Accepted, AlreadyThere, RemindedOnce, SentIsDelivered,
       SentInHand, Message, Locking

LEMMA ClaimStep ==
  ASSUME Inv, NEW w \in Worker, NEW m \in Reminder, Claim(w, m)
  PROVE  Inv'
BY DEF Claim, Refreshed, Goto, smtp, Inv, TypeOK, Counts, Entitled, Unsettled,
       InHand, Accounted, Accepted, AlreadyThere, RemindedOnce, SentIsDelivered,
       SentInHand, Message, Locking

LEMMA ConflictStep ==
  ASSUME Inv, NEW w \in Worker, NEW m \in Reminder, Conflict(w, m)
  PROVE  Inv'
BY DEF Conflict, Goto, smtp, Inv, TypeOK, Counts, Entitled, Unsettled, InHand,
       Accounted, Accepted, AlreadyThere, RemindedOnce, SentIsDelivered,
       SentInHand, Message, Locking

LEMMA SkipReminderStep ==
  ASSUME Inv, NEW w \in Worker, SkipReminder(w)
  PROVE  Inv'
BY DEF SkipReminder, Goto, smtp, Inv, TypeOK, Counts, Entitled, Unsettled, InHand,
       Accounted, Accepted, AlreadyThere, RemindedOnce, SentIsDelivered,
       SentInHand, Message, Locking

-----------------------------------------------------------------------------
\* The server accepts: the mail was in no other hand, since its lock or its
\* claim is the worker's, and in none of the three places before.
LEMMA AcceptStep ==
  ASSUME Inv, NEW w \in Worker, Accept(w)
  PROVE  Inv'
BY DEF Accept, Sending, Count, Goto, Inv, TypeOK, Counts, Entitled, Unsettled,
       InHand, Accounted, Accepted, AlreadyThere, RemindedOnce, SentIsDelivered,
       SentInHand, Message, Locking

LEMMA RefuseStep ==
  ASSUME Inv, NEW w \in Worker, Refuse(w)
  PROVE  Inv'
BY DEF Refuse, Sending, Goto, smtp, Inv, TypeOK, Counts, Entitled, Unsettled,
       InHand, Accounted, Accepted, AlreadyThere, RemindedOnce, SentIsDelivered,
       SentInHand, Message, Locking

\* Accepted and lost at once: both sides of the account grow.
LEMMA LoseReplyStep ==
  ASSUME Inv, NEW w \in Worker, LoseReply(w)
  PROVE  Inv'
BY DEF LoseReply, Sending, Count, Goto, Inv, TypeOK, Counts, Entitled, Unsettled,
       InHand, Accounted, Accepted, AlreadyThere, RemindedOnce, SentIsDelivered,
       SentInHand, Message, Locking

\* A delivery moves from the worker's hand to the log,
LEMMA CommitStep ==
  ASSUME Inv, NEW w \in Worker, Commit(w)
  PROVE  Inv'
BY DEF Commit, Holds, Goto, smtp, Inv, TypeOK, Counts, Entitled, Unsettled,
       InHand, Accounted, Accepted, AlreadyThere, RemindedOnce, SentIsDelivered,
       SentInHand, Message, Locking

\* or is lost with the worker; a claim stays behind.
LEMMA CrashStep ==
  ASSUME Inv, NEW w \in Worker, Crash(w)
  PROVE  Inv'
BY DEF Crash, Count, Goto, Inv, TypeOK, Counts, Entitled, Unsettled, InHand,
       Accounted, Accepted, AlreadyThere, RemindedOnce, SentIsDelivered,
       SentInHand, Message, Locking
-----------------------------------------------------------------------------
\* Steps of the world, and steps of nobody.
LEMMA WorldStep ==
  ASSUME Inv, StepEnds \/ UNCHANGED vars
  PROVE  Inv'
<1>1. /\ UNCHANGED <<pc, msg, todo, view, lock, logged, claimed, smtp>>
      /\ active' \in BOOLEAN
  BY DEF StepEnds, vars, smtp, Inv, TypeOK
<1> QED
  BY <1>1 DEF smtp, Inv, TypeOK, Counts, Entitled, Unsettled, InHand, Accounted,
     Accepted, AlreadyThere, RemindedOnce, SentIsDelivered, SentInHand

LEMMA Step == Inv /\ [Next]_vars => Inv'
<1> SUFFICES ASSUME Inv, [Next]_vars PROVE Inv'
  OBVIOUS
<1>1. ASSUME NEW w \in Worker, WorkerStep(w)
      PROVE  Inv'
  BY <1>1, SkipStep, SkipReminderStep, AcceptStep, RefuseStep, CommitStep,
     ScanSteps, ClaimStep, ConflictStep DEF WorkerStep
<1>2. ASSUME NEW w \in Worker, BeginScan(w) \/ LoseReply(w) \/ Crash(w)
      PROVE  Inv'
  BY <1>2, ScanSteps, LoseReplyStep, CrashStep
<1>3. ASSUME NEW w \in Worker, NEW m \in Message, Lock(w, m)
      PROVE  Inv'
  BY <1>3, LockStep
<1> QED BY <1>1, <1>2, <1>3, WorldStep DEF Next

-----------------------------------------------------------------------------
LEMMA Invariant == Spec => []Inv
BY InitHolds, Step, PTL DEF Spec

\* Every variable keeps its type.
THEOREM MailTypes == Spec => []TypeOK
<1>1. Inv => TypeOK
  BY DEF Inv
<1> QED BY <1>1, Invariant, PTL

\* Any number of workers, mails, crashes and lost replies: a recipient gets a
\* mail again only for an acceptance that could not be logged, a reminder never.
THEOREM MailNotRepeated == Spec => []NoRepeat
<1>1. Inv => NoRepeat
  BY DEF Inv, TypeOK, Counts, Accounted, RemindedOnce, NoRepeat, Excused,
         Message, Locking
<1> QED BY <1>1, Invariant, PTL

\* A log entry that says sent stands for a mail the server accepted.
THEOREM LogIsHonest == Spec => []SentIsDelivered
<1>1. Inv => SentIsDelivered
  BY DEF Inv
<1> QED BY <1>1, Invariant, PTL

\* After its first log entry nothing sends a mail of the "once" kind: the
\* entry was committed under the lock every sender takes before it looks.
THEOREM OnceIsOver == Spec => OnceIsFinal
<1>1. ASSUME Inv, [Next]_vars, NEW m \in Once, logged[m] # {}
      PROVE  delivered'[m] = delivered[m]
  <2>1. ASSUME NEW w \in Worker, Accept(w) \/ LoseReply(w)
        PROVE  msg[w] # m
    BY <1>1, <2>1 DEF Accept, LoseReply, Sending, AlreadyThere, Inv, Entitled, Locking
  <2>2. ASSUME NEW w \in Worker, Accept(w) \/ LoseReply(w)
        PROVE  delivered'[m] = delivered[m]
    BY <1>1, <2>1, <2>2 DEF Accept, LoseReply, Count, Inv, TypeOK, Counts, Message
  <2>3. CASE \E w \in Worker : Accept(w) \/ LoseReply(w)
    BY <2>2, <2>3
  <2>4. CASE ~\E w \in Worker : Accept(w) \/ LoseReply(w)
    BY <1>1, <2>4 DEF Next, WorkerStep, Skip, SkipReminder, Refuse, Commit, EndScan,
       Claim, Conflict, BeginScan, Crash, Lock, StepEnds, smtp, vars
  <2> QED BY <2>3, <2>4
<1>2. Inv /\ [Next]_vars =>
        [\A m \in Once : logged[m] # {} => delivered'[m] = delivered[m]]_vars
  BY <1>1
<1> QED BY <1>2, Invariant, PTL DEF Spec, OnceIsFinal

-----------------------------------------------------------------------------
(* The refinement. *)

\* A reminder a worker has claimed and not yet put away is in its hand alone and
\* not logged, ...
Reminding(w) == pc[w] \in {"claimed", "sent", "failed"} /\ msg[w] \in Reminder
OneHand ==
  /\ \A w, v \in Worker : Reminding(w) /\ Reminding(v) /\ msg[w] = msg[v] => w = v
  /\ \A w \in Worker : Reminding(w) => msg[w] \in claimed /\ logged[msg[w]] = {}
  /\ \A m \in Reminder \ claimed : logged[m] = {}
\* ... and an acceptance that is not lost is in the log or in one hand.
Exact ==
  \A m \in Message : delivered[m] = IF Accepted(m) THEN lost[m] + 1 ELSE lost[m]

LedgerInv == OneHand /\ Exact

\* Steps that neither send nor log.
LEMMA QuietStep ==
  ASSUME Inv, LedgerInv,
         \/ \E w \in Worker :
              \/ Skip(w) \/ BeginScan(w) \/ EndScan(w) \/ Refuse(w)
              \/ \E m \in Message : Lock(w, m)
              \/ \E m \in Reminder : Claim(w, m) \/ Conflict(w, m)
         \/ StepEnds \/ UNCHANGED vars
  PROVE  LedgerInv' /\ UNCHANGED Outcome!vars
<1> USE DEF Inv, TypeOK, Goto, smtp
<1>1. UNCHANGED <<delivered, lost, logged>> /\ claimed \subseteq claimed'
  BY DEF Skip, BeginScan, EndScan, Refuse, Lock, Claim, Conflict, StepEnds, vars
<1>2. \A v \in Worker : pc'[v] = "sent" <=> pc[v] = "sent"
  BY DEF Skip, BeginScan, EndScan, Refuse, Sending, Lock, Claim, Conflict, StepEnds, vars
<1>3. \A v \in Worker : pc[v] = "sent" => msg'[v] = msg[v]
  BY DEF Skip, BeginScan, EndScan, Refuse, Lock, Claim, Conflict, StepEnds, vars
<1>4. \A m \in Message : Accepted(m)' <=> Accepted(m)
  BY <1>1, <1>2, <1>3 DEF Accepted
<1>5. Exact'
  BY <1>1, <1>4 DEF Exact, LedgerInv
<1>6. OneHand'
  <2>1. ASSUME NEW w \in Worker, NEW m \in Reminder, Claim(w, m) PROVE OneHand'
    BY <2>1 DEF Claim, LedgerInv, OneHand, Reminding
  <2>2. CASE ~\E w \in Worker, m \in Reminder : Claim(w, m)
    <3>1. \A v \in Worker : Reminding(v)' => Reminding(v) /\ msg'[v] = msg[v]
      BY <2>2 DEF Skip, BeginScan, EndScan, Refuse, Sending, Lock, Conflict, StepEnds,
                  vars, Reminding, Entitled, Locking
    <3> QED BY <1>1, <3>1 DEF LedgerInv, OneHand, Reminding
  <2> QED BY <2>1, <2>2
<1> QED BY <1>1, <1>5, <1>6 DEF LedgerInv, Outcome!vars

\* The server is asked about a mail whose acceptances are all lost and that no
\* log bars: the worker has its lock, or alone its claim.
LEMMA SendingIsDue ==
  ASSUME Inv, LedgerInv, NEW w \in Worker, Sending(w)
  PROVE  /\ msg[w] \in Message /\ ~Accepted(msg[w]) /\ Outcome!MaySend(msg[w])
         /\ \A v \in Worker : pc[v] = "sent" => msg[v] # msg[w]
<1> USE DEF Inv, TypeOK, LedgerInv
<1>1. msg[w] \in Message /\ "sent" \notin logged[msg[w]]
  BY DEF Sending, AlreadyThere, Entitled, OneHand, Reminding, Message, Locking
<1>2. ASSUME NEW v \in Worker, pc[v] = "sent", msg[v] = msg[w]
      PROVE  FALSE
  <2>1. CASE msg[w] \in Locking
    BY <1>2, <2>1 DEF Sending, Entitled, InHand, Locking
  <2>2. CASE msg[w] \in Reminder
    BY <1>2, <2>2 DEF Sending, Entitled, OneHand, Reminding, Locking
  <2> QED BY <1>1, <2>1, <2>2 DEF Message, Locking
<1>3. ~Accepted(msg[w])
  BY <1>1, <1>2 DEF Accepted
<1>4. delivered[msg[w]] = lost[msg[w]]
  BY <1>1, <1>3 DEF Exact
<1>5. CASE pc[w] = "locked"
  <2>1. msg[w] \in Locking /\ msg[w] \notin Reminder
    BY <1>5 DEF Entitled, Locking
  <2>2. msg[w] \in Once => logged[msg[w]] = {}
    BY <1>5 DEF Sending, AlreadyThere
  <2> QED BY <1>1, <1>2, <1>3, <1>4, <2>1, <2>2
          DEF Outcome!MaySend, Outcome!Settled
<1>6. CASE pc[w] = "claimed"
  <2>1. msg[w] \in Reminder
    BY <1>6 DEF Entitled
  <2>2. logged[msg[w]] = {} /\ delivered[msg[w]] = 0
    BY <1>6, <2>1 DEF OneHand, Reminding, RemindedOnce
  <2> QED BY <1>1, <1>2, <1>3, <1>4, <2>2 DEF Outcome!MaySend, Outcome!Settled
<1> QED BY <1>5, <1>6 DEF Sending

\* The hands after a step of one worker that stays at its mail.
LEMMA HandStays ==
  ASSUME Inv, LedgerInv, NEW w \in Worker, Sending(w), NEW l \in {"sent", "failed"},
         Goto(w, l), UNCHANGED <<msg, logged, claimed>>
  PROVE  OneHand'
<1>1. \A v \in Worker : Reminding(v)' => Reminding(v)
  BY DEF Inv, TypeOK, Goto, Sending, Reminding, Entitled, Locking
<1> QED BY <1>1 DEF LedgerInv, OneHand, Reminding

LEMMA AcceptDelivers ==
  ASSUME Inv, LedgerInv, NEW w \in Worker, Accept(w)
  PROVE  LedgerInv' /\ Outcome!Next
<1> USE DEF Inv, TypeOK, Goto, Counts
<1> DEFINE m == msg[w]
<1>1. /\ Sending(w) /\ delivered' = [delivered EXCEPT ![m] = @ + 1]
      /\ pc' = [pc EXCEPT ![w] = "sent"]
      /\ UNCHANGED <<msg, lost, logged, claimed>>
  BY DEF Accept, Count
<1>2. /\ m \in Message /\ ~Accepted(m) /\ Outcome!MaySend(m)
      /\ \A v \in Worker : pc[v] = "sent" => msg[v] # m
  BY <1>1, SendingIsDue
<1>3. OneHand'
  BY <1>1, HandStays
<1>4. pc[w] # "sent"
  BY <1>1 DEF Sending
<1>5. ASSUME NEW k \in Message
      PROVE  delivered'[k] = IF Accepted(k)' THEN lost'[k] + 1 ELSE lost'[k]
  <2>1. CASE k = m
    <3>1. Accepted(k)'
      BY <1>1, <2>1 DEF Accepted
    <3>2. delivered[k] = lost[k]
      BY <1>2, <2>1 DEF LedgerInv, Exact
    <3> QED BY <1>1, <2>1, <3>1, <3>2
  <2>2. CASE k # m
    <3>1. Accepted(k)' <=> Accepted(k)
      BY <1>1, <1>4, <2>2 DEF Accepted
    <3> QED BY <1>1, <2>2, <3>1 DEF LedgerInv, Exact
  <2> QED BY <2>1, <2>2
<1>6. Outcome!Deliver(m)
  BY <1>1, <1>2 DEF Outcome!Deliver
<1>7. m \in Outcome!Message
  BY <1>2 DEF Outcome!Message, Message
<1> QED BY <1>3, <1>5, <1>6, <1>7 DEF LedgerInv, Exact, Outcome!Next

LEMMA LoseReplyDelivers ==
  ASSUME Inv, LedgerInv, NEW w \in Worker, LoseReply(w)
  PROVE  LedgerInv' /\ Outcome!Next
<1> USE DEF Inv, TypeOK, Goto, Counts
<1> DEFINE m == msg[w]
<1>1. /\ Sending(w) /\ delivered' = [delivered EXCEPT ![m] = @ + 1]
      /\ lost' = [lost EXCEPT ![m] = @ + 1]
      /\ pc' = [pc EXCEPT ![w] = "failed"]
      /\ UNCHANGED <<msg, logged, claimed>>
  BY DEF LoseReply, Count
<1>2. /\ m \in Message /\ ~Accepted(m) /\ Outcome!MaySend(m)
  BY <1>1, SendingIsDue
<1>3. OneHand'
  BY <1>1, HandStays
<1>4. pc[w] # "sent"
  BY <1>1 DEF Sending
<1>5. \A k \in Message : Accepted(k)' <=> Accepted(k)
  BY <1>1, <1>4 DEF Accepted
<1>6. Exact'
  BY <1>1, <1>5 DEF LedgerInv, Exact
<1>7. Outcome!Deliver(m)
  BY <1>1, <1>2 DEF Outcome!Deliver
<1>8. m \in Outcome!Message
  BY <1>2 DEF Outcome!Message, Message
<1> QED BY <1>3, <1>6, <1>7, <1>8 DEF LedgerInv, Outcome!Next

\* The log gets what the server did, under the lock or from the only hand.
LEMMA CommitLogs ==
  ASSUME Inv, LedgerInv, NEW w \in Worker, Commit(w)
  PROVE  LedgerInv' /\ Outcome!Next
<1> USE DEF Inv, TypeOK, Goto
<1> DEFINE m == msg[w]
           s == pc[w]
<1>1. /\ s \in {"sent", "failed"} /\ logged' = [logged EXCEPT ![m] = @ \cup {s}]
      /\ pc'[w] \in {"idle", "scan"} /\ \A v \in Worker \ {w} : pc'[v] = pc[v]
      /\ \A v \in Worker \ {w} : msg'[v] = msg[v]
      /\ UNCHANGED <<claimed, delivered, lost>>
  BY DEF Commit, smtp
<1>2. m \in Message
  BY <1>1 DEF Entitled, InHand
<1>3. /\ "sent" \notin logged[m] /\ (m \in Once \cup Reminder => logged[m] = {})
      /\ \A v \in Worker \ {w} : pc[v] \in InHand => msg[v] # m
  <2>1. CASE m \in Locking
    BY <1>1, <2>1 DEF Unsettled, Entitled, InHand, AlreadyThere, Locking
  <2>2. CASE m \in Reminder
    BY <1>1, <2>2 DEF LedgerInv, OneHand, Reminding, InHand
  <2> QED BY <1>2, <2>1, <2>2 DEF Message, Locking
<1>4. Accepted(m) <=> s = "sent"
  BY <1>1, <1>3 DEF Accepted, InHand
<1>5. delivered[m] = IF s = "sent" THEN lost[m] + 1 ELSE lost[m]
  BY <1>2, <1>4 DEF LedgerInv, Exact
<1>6. Outcome!Log(m, s)
  BY <1>1, <1>3, <1>5 DEF Outcome!Log, Outcome!Outstanding, Outcome!Settled
<1>7. m \in Outcome!Message
  BY <1>2 DEF Outcome!Message, Message
<1>8. ASSUME NEW k \in Message PROVE Accepted(k)' <=> Accepted(k)
  <2>1. CASE k = m
    BY <1>1, <1>3, <1>4, <2>1 DEF Accepted, InHand
  <2>2. CASE k # m
    BY <1>1, <2>2 DEF Accepted
  <2> QED BY <2>1, <2>2
<1>9. Exact'
  BY <1>1, <1>8 DEF LedgerInv, Exact
<1>10. OneHand'
  <2>1. \A v \in Worker : Reminding(v)' => v # w /\ Reminding(v) /\ msg'[v] = msg[v]
    BY <1>1 DEF Reminding
  <2>2. ASSUME NEW v \in Worker, v # w, Reminding(v) PROVE msg[v] # m
    BY <1>1, <2>2 DEF LedgerInv, OneHand, Reminding
  <2>3. m \in Reminder => m \in claimed
    BY <1>1 DEF LedgerInv, OneHand, Reminding
  <2> QED BY <1>1, <2>1, <2>2, <2>3 DEF LedgerInv, OneHand, Reminding, Message
<1> QED BY <1>1, <1>6, <1>7, <1>9, <1>10 DEF LedgerInv, Outcome!Next

LEMMA SkipReminderLogs ==
  ASSUME Inv, LedgerInv, NEW w \in Worker, SkipReminder(w)
  PROVE  LedgerInv' /\ Outcome!Next
<1> USE DEF Inv, TypeOK, Goto
<1> DEFINE m == msg[w]
<1>1. /\ pc[w] = "claimed" /\ logged' = [logged EXCEPT ![m] = @ \cup {"skipped"}]
      /\ pc'[w] = "scan" /\ \A v \in Worker \ {w} : pc'[v] = pc[v]
      /\ \A v \in Worker \ {w} : msg'[v] = msg[v]
      /\ UNCHANGED <<claimed, delivered, lost>>
  BY DEF SkipReminder, smtp
<1>2. /\ m \in Reminder /\ m \in claimed /\ m \in Message /\ logged[m] = {}
      /\ delivered[m] = 0
  BY <1>1 DEF Entitled, LedgerInv, OneHand, Reminding, RemindedOnce, Message
<1>3. Outcome!Log(m, "skipped")
  BY <1>1, <1>2 DEF Outcome!Log
<1>4. m \in Outcome!Message
  BY <1>2 DEF Outcome!Message, Message
<1>5. \A k \in Message : Accepted(k)' <=> Accepted(k)
  BY <1>1 DEF Accepted
<1>6. Exact'
  BY <1>1, <1>5 DEF LedgerInv, Exact
<1>7. OneHand'
  <2>1. \A v \in Worker : Reminding(v)' => v # w /\ Reminding(v) /\ msg'[v] = msg[v]
    BY <1>1 DEF Reminding
  <2>2. ASSUME NEW v \in Worker, v # w, Reminding(v) PROVE msg[v] # m
    BY <1>1, <1>2, <2>2 DEF LedgerInv, OneHand, Reminding
  <2> QED BY <1>1, <1>2, <2>1, <2>2 DEF LedgerInv, OneHand, Reminding, Message
<1> QED BY <1>3, <1>4, <1>6, <1>7 DEF LedgerInv, Outcome!Next

\* What died with the worker was accepted and unlogged, or nothing.
LEMMA CrashLoses ==
  ASSUME Inv, LedgerInv, NEW w \in Worker, Crash(w)
  PROVE  LedgerInv' /\ (Outcome!Next \/ UNCHANGED Outcome!vars)
<1> USE DEF Inv, TypeOK, Goto, Counts
<1> DEFINE m == msg[w]
<1>1. /\ pc' = [pc EXCEPT ![w] = "idle"] /\ msg' = [msg EXCEPT ![w] = Nobody]
      /\ lost' = IF pc[w] = "sent" THEN [lost EXCEPT ![m] = @ + 1] ELSE lost
      /\ UNCHANGED <<claimed, delivered, logged>>
  BY DEF Crash, Count
<1>2. OneHand'
  <2>1. \A v \in Worker : Reminding(v)' => Reminding(v) /\ msg'[v] = msg[v]
    BY <1>1 DEF Reminding
  <2> QED BY <1>1, <2>1 DEF LedgerInv, OneHand
<1>3. CASE pc[w] # "sent"
  <2>1. \A k \in Message : Accepted(k)' <=> Accepted(k)
    BY <1>1, <1>3 DEF Accepted
  <2>2. Exact'
    BY <1>1, <1>3, <2>1 DEF LedgerInv, Exact
  <2> QED BY <1>1, <1>2, <1>3, <2>2 DEF LedgerInv, Outcome!vars
<1>4. CASE pc[w] = "sent"
  <2>1. m \in Message
    BY <1>4 DEF Entitled, InHand
  <2>2. "sent" \notin logged[m] /\ \A v \in Worker \ {w} : pc[v] = "sent" => msg[v] # m
    <3>1. CASE m \in Locking
      BY <1>4, <3>1 DEF Unsettled, Entitled, InHand, AlreadyThere, Locking
    <3>2. CASE m \in Reminder
      BY <1>4, <3>2 DEF LedgerInv, OneHand, Reminding
    <3> QED BY <2>1, <3>1, <3>2 DEF Message, Locking
  <2>3. Accepted(m) /\ \A k \in Message : k = m => ~Accepted(k)'
    BY <1>1, <1>4, <2>2 DEF Accepted
  <2>4. delivered[m] = lost[m] + 1
    BY <2>1, <2>3 DEF LedgerInv, Exact
  <2>5. ASSUME NEW k \in Message
        PROVE  delivered'[k] = IF Accepted(k)' THEN lost'[k] + 1 ELSE lost'[k]
    <3>1. CASE k = m
      BY <1>1, <1>4, <2>1, <2>3, <2>4, <3>1
    <3>2. CASE k # m
      <4>1. Accepted(k)' <=> Accepted(k)
        BY <1>1, <3>2 DEF Accepted
      <4> QED BY <1>1, <3>2, <4>1 DEF LedgerInv, Exact
    <3> QED BY <3>1, <3>2
  <2>6. Outcome!Lose(m)
    BY <1>1, <1>4, <2>2, <2>4 DEF Outcome!Lose, Outcome!Outstanding
  <2>7. m \in Outcome!Message
    BY <2>1 DEF Outcome!Message, Message
  <2> QED BY <1>2, <2>5, <2>6, <2>7 DEF LedgerInv, Exact, Outcome!Next
<1> QED BY <1>3, <1>4

\* For any number of workers, mails, crashes and lost replies: dispatches at
\* once have the effect of dispatches in turn.
THEOREM OneDispatchAtATime == Spec => DispatchesInTurn
<1>1. Init => LedgerInv /\ Outcome!Init
  BY DEF Init, LedgerInv, OneHand, Reminding, Exact, Accepted, Outcome!Init,
         Outcome!Message, Message
<1>2. Inv /\ LedgerInv /\ [Next]_vars => LedgerInv' /\ [Outcome!Next]_(Outcome!vars)
  <2> SUFFICES ASSUME Inv, LedgerInv, [Next]_vars
               PROVE  LedgerInv' /\ (Outcome!Next \/ UNCHANGED Outcome!vars)
    OBVIOUS
  <2>1. ASSUME NEW w \in Worker, WorkerStep(w)
        PROVE  LedgerInv' /\ (Outcome!Next \/ UNCHANGED Outcome!vars)
    BY <2>1, QuietStep, AcceptDelivers, CommitLogs, SkipReminderLogs DEF WorkerStep
  <2>2. ASSUME NEW w \in Worker,
               \/ BeginScan(w) \/ LoseReply(w) \/ Crash(w)
               \/ \E m \in Message : Lock(w, m)
        PROVE  LedgerInv' /\ (Outcome!Next \/ UNCHANGED Outcome!vars)
    BY <2>2, QuietStep, LoseReplyDelivers, CrashLoses
  <2> QED BY <2>1, <2>2, QuietStep DEF Next
<1> QED BY <1>1, <1>2, Invariant, PTL DEF Spec, DispatchesInTurn, Outcome!Spec
=============================================================================
