---------------------------- MODULE Office_proofs ----------------------------
(* Proofs about the smaller parts of the office: the versions of a form, who  *)
(* handles a case, the files through an outage and the login limiter.        *)
EXTENDS FormVersions, CaseAssignment, FileFailover, RequestLimiter,
        FiniteSetTheorems, TLAPS

---------------------------------------------------------------------------
(* FormVersions. *)

\* Statuses of a version that was published once; none of them ends otherwise.
Past == {"published", "archived", "gone"}

OnceOnly ==
  /\ \A v, w \in With("published") : v = w
  /\ \A v, w \in With("draft") : v = w
InHandPast ==
  /\ \A e \in Editor : editing[e].task \in {"sync", "page"} =>
       status[editing[e].version] \in Past
  /\ \A c \in Case : page[c] # 0 => status[page[c]] \in Past

VersionsInv == VersionsTypeOK /\ OnceOnly /\ InHandPast /\ BoundToPublished

LEMMA VersionsInitInv == VersionsInit => VersionsInv
BY VersionAssumption
   DEF VersionsInit, VersionsInv, VersionsTypeOK, Version, EditorTask, OnceOnly,
       InHandPast, BoundToPublished, With

LEMMA TaskTyped ==
  ASSUME VersionsInv, NEW e \in Editor, NEW t \in EditorTask, NEW v \in Version,
         Doing(e, t, v)
  PROVE  /\ editing' \in [Editor -> [task : EditorTask, version : Version]]
         /\ (t \in {"sync", "page"} => status[v] \in Past) =>
              \A f \in Editor : editing'[f].task \in {"sync", "page"} =>
                status[editing'[f].version] \in Past
BY DEF VersionsInv, VersionsTypeOK, InHandPast, Doing

\* Nothing but the task of one editor changes.
LEMMA TaskStep ==
  ASSUME VersionsInv, NEW e \in Editor,
         \/ LoadForPublish(e) \/ RetrySync(e) \/ StartPage(e) \/ Abandon(e)
         \/ LoadForArchive(e) \/ LoadForDelete(e)
  PROVE  VersionsInv'
<1>1. UNCHANGED <<status, bound, page>>
  BY DEF LoadForPublish, RetrySync, StartPage, Abandon, LoadForArchive, LoadForDelete
<1>2. PICK t \in EditorTask, v \in Version :
        Doing(e, t, v) /\ (t \in {"sync", "page"} => status[v] \in Past)
  BY VersionAssumption
     DEF LoadForPublish, RetrySync, StartPage, Abandon, LoadForArchive, LoadForDelete,
         With, Past, Stop, Doing, EditorTask, VersionsInv, VersionsTypeOK, Version, Is
<1>3. /\ editing' \in [Editor -> [task : EditorTask, version : Version]]
      /\ \A f \in Editor : editing'[f].task \in {"sync", "page"} =>
           status[editing'[f].version] \in Past
  BY <1>2, TaskTyped
<1> QED BY <1>1, <1>3
     DEF VersionsInv, VersionsTypeOK, OnceOnly, InHandPast, BoundToPublished, With

\* A version that was published keeps that past.
LEMMA StatusStep ==
  ASSUME VersionsInv, NEW e \in Editor,
         CloneToDraft(e) \/ Publish(e) \/ Archive(e) \/ DeleteDraft(e)
  PROVE  VersionsInv'
<1> USE DEF VersionsInv, Is, Version
<1> DEFINE v == editing[e].version
<1>1. v \in Version /\ status \in [Version -> {"none", "draft", "published", "archived", "gone"}]
  BY DEF VersionsTypeOK
<1>2. CASE CloneToDraft(e)
  <2>1. UNCHANGED <<editing, bound, page>>
    BY <1>2 DEF CloneToDraft
  <2>2. PICK w \in Version : /\ status[w] = "none" /\ With("draft") = {}
                             /\ status' = [status EXCEPT ![w] = "draft"]
    BY <1>2 DEF CloneToDraft, With
  <2>3. \A u \in Version : status'[u] = IF u = w THEN "draft" ELSE status[u]
    BY <1>1, <2>2
  <2>4. VersionsTypeOK' /\ OnceOnly'
    BY <2>1, <2>2, <2>3 DEF VersionsTypeOK, OnceOnly, With
  <2>5. InHandPast' /\ BoundToPublished'
    BY <2>1, <2>2, <2>3 DEF InHandPast, BoundToPublished, With, Past, VersionsTypeOK
  <2> QED BY <2>4, <2>5
<1>3. CASE Publish(e)
  <2>1. UNCHANGED <<bound, page>> /\ Doing(e, "sync", v)
    BY <1>3 DEF Publish
  <2>2. \A u \in Version : status'[u] = IF u = v THEN "published"
                             ELSE IF status[u] = "published" THEN "archived" ELSE status[u]
    <3>1. status' = [u \in Version |->
                       IF u = v THEN "published"
                       ELSE IF u \in With("published") THEN "archived" ELSE status[u]]
      BY <1>3 DEF Publish
    <3>2. ASSUME NEW u \in Version
          PROVE  status'[u] = IF u = v THEN "published"
                              ELSE IF status[u] = "published" THEN "archived" ELSE status[u]
      <4>1. u \in With("published") <=> status[u] = "published"
        BY DEF With
      <4> QED BY <3>1, <4>1
    <3> QED BY <3>2
  <2>3. status' \in [Version -> {"none", "draft", "published", "archived", "gone"}]
    BY <1>1, <1>3 DEF Publish
  <2>4. editing' = [editing EXCEPT ![e] = [task |-> "sync", version |-> v]]
    BY <2>1 DEF Doing
  <2>5. VersionsTypeOK'
    BY <1>1, <2>1, <2>3, <2>4 DEF VersionsTypeOK, EditorTask
  <2>6. OnceOnly'
    BY <1>1, <2>2 DEF OnceOnly, With
  <2>7. \A u \in Version : status[u] \in Past => status'[u] \in Past
    BY <2>2 DEF Past
  <2>8. status'[v] \in Past
    BY <1>1, <2>2 DEF Past
  <2>9. InHandPast'
    <3>1. \A f \in Editor : editing'[f].task \in {"sync", "page"} =>
            status'[editing'[f].version] \in Past
      BY <2>4, <2>7, <2>8 DEF InHandPast, VersionsTypeOK
    <3> QED BY <2>1, <2>7, <3>1 DEF InHandPast, VersionsTypeOK
  <2>10. BoundToPublished'
    BY <1>1, <2>1, <2>2 DEF BoundToPublished, With, VersionsTypeOK
  <2> QED BY <2>5, <2>6, <2>9, <2>10
<1>4. CASE Archive(e) \/ DeleteDraft(e)
  <2>1. Doing(e, "idle", 1) /\ page' = page
    BY <1>4 DEF Archive, DeleteDraft, Stop
  <2>2. PICK s \in {"archived", "gone"} :
          /\ status' = [status EXCEPT ![v] = s]
          /\ \A c \in DOMAIN bound' : bound'[c] # 0 =>
               bound'[c] = bound[c] /\ (s = "gone" => bound[c] # v)
          /\ DOMAIN bound' = DOMAIN bound
    BY <1>4 DEF Archive, DeleteDraft
  <2>3. \A u \in Version : status'[u] = IF u = v THEN s ELSE status[u]
    BY <1>1, <2>2
  <2>4. editing' = [editing EXCEPT ![e] = [task |-> "idle", version |-> 1]]
    BY <2>1 DEF Doing
  <2>5. VersionsTypeOK'
    <3>1. \A c \in DOMAIN bound' : bound'[c] \in Version \cup {0}
      BY <2>2 DEF VersionsTypeOK
    <3> QED BY <1>1, <2>1, <2>2, <2>4, <3>1, VersionAssumption DEF VersionsTypeOK, EditorTask
  <2>6. OnceOnly'
    BY <2>3 DEF OnceOnly, With
  <2>7. InHandPast'
    <3>1. \A u \in Version : status[u] \in Past => status'[u] \in Past
      BY <2>3 DEF Past
    <3>2. \A f \in Editor : editing'[f].task \in {"sync", "page"} =>
            editing'[f] = editing[f]
      BY <2>4 DEF VersionsTypeOK
    <3> QED BY <2>1, <3>1, <3>2 DEF InHandPast, VersionsTypeOK
  <2>8. BoundToPublished'
    BY <1>1, <2>2, <2>3 DEF BoundToPublished, With, VersionsTypeOK
  <2> QED BY <2>5, <2>6, <2>7, <2>8
<1> QED BY <1>2, <1>3, <1>4

\* A submission moves to a version that was published.
LEMMA MoveStep ==
  ASSUME VersionsInv,
         \/ \E e \in Editor : MovePage(e)
         \/ \E c \in Case : Render(c) \/ Submit(c) \/ Open(c) \/ Upgrade(c)
  PROVE  VersionsInv'
<1> USE DEF VersionsInv, Version
<1>1. CASE \E e \in Editor : MovePage(e)
  <2>1. PICK e \in Editor : MovePage(e)
    BY <1>1
  <2> DEFINE v == editing[e].version
  <2>2. UNCHANGED <<status, page>> /\ Is(e, "page") /\ status[v] # "gone" /\ v \in Version
    BY <2>1 DEF MovePage, VersionsTypeOK
  <2>3. status[v] \in Past
    BY <2>2 DEF InHandPast, Is
  <2>4. /\ DOMAIN bound' = DOMAIN bound
        /\ \A c \in DOMAIN bound : bound'[c] \in {v, bound[c]}
    BY <2>1 DEF MovePage
  <2>5. PICK t \in {"idle", "sync"}, u \in {1, v} :
          Doing(e, t, u) /\ (t = "sync" => u = v)
    BY <2>1 DEF MovePage, Stop
  <2>6. /\ editing' \in [Editor -> [task : EditorTask, version : Version]]
        /\ \A f \in Editor : editing'[f].task \in {"sync", "page"} =>
             status[editing'[f].version] \in Past
    <3>1. t \in EditorTask /\ u \in Version /\ (t \in {"sync", "page"} => status[u] \in Past)
      BY <2>2, <2>3, <2>5, VersionAssumption DEF EditorTask
    <3> QED BY <2>5, <3>1, TaskTyped
  <2>7. VersionsTypeOK' /\ OnceOnly' /\ InHandPast'
    BY <2>2, <2>4, <2>6 DEF VersionsTypeOK, OnceOnly, InHandPast, With
  <2>8. BoundToPublished'
    BY <2>2, <2>3, <2>4 DEF BoundToPublished, With, Past
  <2> QED BY <2>7, <2>8
<1>2. CASE \E c \in Case : Render(c) \/ Open(c)
  <2>1. UNCHANGED <<status, editing, bound>>
    BY <1>2 DEF Render, Open
  <2>2. PICK c \in Case, v \in With("published") : page' = [page EXCEPT ![c] = v]
    BY <1>2 DEF Render, Open
  <2> QED BY <2>1, <2>2
       DEF VersionsTypeOK, OnceOnly, InHandPast, BoundToPublished, With, Past
<1>3. CASE \E c \in Case : Submit(c)
  <2>1. PICK c \in Case : Submit(c)
    BY <1>3
  <2>2. UNCHANGED <<status, editing>> /\ page' = [page EXCEPT ![c] = 0]
    BY <2>1 DEF Submit
  <2>3. /\ DOMAIN bound' = DOMAIN bound \cup {c}
        /\ \A d \in DOMAIN bound' : bound'[d] = IF d = c THEN page[c] ELSE bound[d]
        /\ page[c] \in With("published") \cup With("archived")
    BY <2>1 DEF Submit
  <2> QED BY <2>2, <2>3
       DEF VersionsTypeOK, OnceOnly, InHandPast, BoundToPublished, With
<1>4. CASE \E c \in Case : Upgrade(c)
  <2>1. PICK c \in Case : Upgrade(c)
    BY <1>4
  <2>2. /\ UNCHANGED <<status, editing>> /\ page' = [page EXCEPT ![c] = 0]
        /\ c \in DOMAIN bound /\ page[c] # 0
        /\ bound' = IF status[page[c]] = "gone" THEN bound
                                               ELSE [bound EXCEPT ![c] = page[c]]
    BY <2>1 DEF Upgrade
  <2>3. status[page[c]] \in Past
    BY <2>2 DEF InHandPast
  <2>4. /\ DOMAIN bound' = DOMAIN bound
        /\ \A d \in DOMAIN bound : bound'[d] # bound[d] =>
             bound'[d] = page[c] /\ status[page[c]] \in {"published", "archived"}
    BY <2>2, <2>3 DEF Past
  <2>5. page[c] \in Version
    BY <2>2 DEF VersionsTypeOK
  <2>6. VersionsTypeOK'
    BY <2>2, <2>4, <2>5 DEF VersionsTypeOK
  <2>7. OnceOnly' /\ InHandPast'
    BY <2>2 DEF OnceOnly, InHandPast, With, VersionsTypeOK
  <2>8. BoundToPublished'
    BY <2>2, <2>4, <2>5 DEF BoundToPublished, With
  <2> QED BY <2>6, <2>7, <2>8
<1> QED BY <1>1, <1>2, <1>3, <1>4

LEMMA VersionsInductive == VersionsSpec => []VersionsInv
<1>1. VersionsInv /\ [VersionsNext]_versionVars => VersionsInv'
  <2>1. VersionsInv /\ UNCHANGED versionVars => VersionsInv'
    BY DEF versionVars, VersionsInv, VersionsTypeOK, OnceOnly, InHandPast,
           BoundToPublished, With
  <2>2. VersionsInv /\ VersionsNext => VersionsInv'
    BY TaskStep, StatusStep, MoveStep DEF VersionsNext, EditorStep
  <2> QED BY <2>1, <2>2
<1> QED BY <1>1, VersionsInitInv, PTL DEF VersionsSpec

\* The variables of FormVersions keep their types.
THEOREM VersionsTypes == VersionsSpec => []VersionsTypeOK
<1>1. VersionsInv => VersionsTypeOK
  BY DEF VersionsInv
<1> QED BY <1>1, VersionsInductive, PTL

\* For any number of editors, submissions and versions: one published version
\* and one draft at most.
THEOREM OneVersionOfEach == VersionsSpec => []OneOfEach
<1>1. VersionsInv => OneOfEach
  <2>1. ASSUME NEW S, \A v, w \in S : v = w PROVE Cardinality(S) <= 1
    <3>1. CASE S = {}
      BY <3>1, FS_EmptySet
    <3>2. CASE S # {}
      <4>1. PICK v : S = {v}
        BY <2>1, <3>2
      <4> QED BY <4>1, FS_Singleton
    <3> QED BY <3>1, <3>2
  <2> QED BY <2>1 DEF VersionsInv, OnceOnly, OneOfEach
<1> QED BY <1>1, VersionsInductive, PTL

\* A submission stays on a version that was published and is still there.
THEOREM NeverOnADraft == VersionsSpec => []BoundToPublished
<1>1. VersionsInv => BoundToPublished
  BY DEF VersionsInv
<1> QED BY <1>1, VersionsInductive, PTL

---------------------------------------------------------------------------
(* FileFailover. *)

\* The newest save is on one of the storages, and an answer is what it says.
Kept ==
  \A f \in File : newest[f] # 0 => remote[f] = newest[f] \/ disk[f] = newest[f]
Fresh ==
  \A a \in answer : a.save = IF remote[a.file] # 0 THEN remote[a.file] ELSE disk[a.file]
FailoverInv == FailoverTypeOK /\ Kept /\ Fresh

LEMMA FailoverNextInv == FailoverInv /\ [FailoverNext]_failoverVars => FailoverInv'
<1> SUFFICES ASSUME FailoverInv, [FailoverNext]_failoverVars PROVE FailoverInv'
  OBVIOUS
<1> USE FailoverAssumption DEF FailoverInv, FailoverTypeOK, Kept, Fresh, Save, Answer
<1>1. CASE Outage \/ (\E w \in Worker : Close(w)) \/ UNCHANGED failoverVars
  BY <1>1 DEF Outage, Close, failoverVars
<1>2. ASSUME NEW w \in Worker, NEW f \in File, WriteFile(w, f) PROVE FailoverInv'
  BY <1>2 DEF WriteFile, Outcome, ReachesRemote, FallsBack, Breaker
<1>3. ASSUME NEW w \in Worker, NEW f \in File, DeleteFile(w, f) PROVE FailoverInv'
  BY <1>3 DEF DeleteFile, Outcome, ReachesRemote, FallsBack, Breaker
<1>4. ASSUME NEW w \in Worker, NEW f \in File, ReadFile(w, f) PROVE FailoverInv'
  BY <1>4 DEF ReadFile, Outcome, Breaker
<1> QED BY <1>1, <1>2, <1>3, <1>4 DEF FailoverNext

\* For any number of workers and files, and however often the remote storage
\* goes and comes back.
THEOREM FilesFound == FailoverSpec => []SavedFilesFound
<1>1. FailoverInit => FailoverInv
  BY FailoverAssumption DEF FailoverInit, FailoverInv, FailoverTypeOK, Kept, Fresh, Save, Answer
<1>2. FailoverInv => SavedFilesFound
  BY DEF FailoverInv, FailoverTypeOK, Kept, Fresh, SavedFilesFound, Answer
<1> QED BY <1>1, <1>2, FailoverNextInv, PTL DEF FailoverSpec

---------------------------------------------------------------------------
(* CaseAssignment. *)

LEMMA LeastExists ==
  ASSUME NEW S, S \subseteq Nat, S # {}
  PROVE  \E m \in S : \A n \in S : m <= n
<1> DEFINE R == OpToRel(<, Nat)
<1>1. \E m \in S : \A n \in S : <<n, m>> \notin R
  BY NatLessThanWellFounded, WFMin
<1>2. \A m, n \in Nat : <<n, m>> \in R <=> n < m
  BY DEF OpToRel
<1> HIDE DEF R
<1>3. PICK m \in S : \A n \in S : <<n, m>> \notin R
  BY <1>1
<1>4. ASSUME NEW n \in S PROVE m <= n
  <2>1. m \in Nat /\ n \in Nat
    OBVIOUS
  <2>2. ~(n < m)
    BY <1>2, <1>3, <2>1
  <2> QED BY <2>1, <2>2
<1> QED BY <1>4

\* The next officer of the rota: no other one is between, or the last was the
\* greatest and the first one follows.
LEMMA AfterIsNext ==
  ASSUME NEW o \in Officer \cup {Nobody}
  PROVE  /\ After(o) \in Officer
         /\ \/ After(o) > o /\ \A p \in Officer : p > o => After(o) <= p
            \/ \A p \in Officer : p <= o /\ After(o) <= p
<1> DEFINE later == {p \in Officer : p > o}
           pool == IF later # {} THEN later ELSE Officer
<1>1. pool # {} /\ pool \subseteq Officer /\ pool \subseteq Nat
  BY AssignmentAssumption
<1>2. \E p \in pool : \A q \in pool : p <= q
  BY <1>1, LeastExists
<1>3. After(o) = CHOOSE p \in pool : \A q \in pool : p <= q
  BY DEF After
<1>4. After(o) \in pool /\ \A q \in pool : After(o) <= q
  BY <1>2, <1>3
<1>5. o \in Int /\ Officer \subseteq Nat
  BY AssignmentAssumption DEF Nobody
<1>6. CASE later # {}
  BY <1>4, <1>5, <1>6
<1>7. CASE later = {}
  BY <1>4, <1>5, <1>7
<1> QED BY <1>1, <1>4, <1>6, <1>7

Entry == [previous : Officer \cup {Nobody}, to : Officer \cup {Nobody}]
Chain(h, a) ==
  /\ \A i \in 1..Len(h) : h[i].previous = IF i = 1 THEN Nobody ELSE h[i - 1].to
  /\ a = IF h = <<>> THEN Nobody ELSE h[Len(h)].to

LEMMA ChainGrows ==
  ASSUME NEW h \in Seq(Entry), NEW a \in Officer \cup {Nobody},
         NEW to \in Officer \cup {Nobody}, Chain(h, a)
  PROVE  /\ Append(h, [previous |-> a, to |-> to]) \in Seq(Entry)
         /\ Chain(Append(h, [previous |-> a, to |-> to]), to)
<1> DEFINE e == [previous |-> a, to |-> to]
           g == Append(h, e)
<1>1. e \in Entry /\ g \in Seq(Entry)
  BY DEF Entry
<1>2. /\ Len(g) = Len(h) + 1 /\ g[Len(g)] = e /\ Len(h) \in Nat
      /\ \A i \in 1..Len(h) : g[i] = h[i]
  OBVIOUS
<1>3. g # <<>> /\ (h = <<>> <=> Len(h) = 0)
  BY <1>2
<1> HIDE DEF g
<1>4. ASSUME NEW i \in 1..Len(g)
      PROVE  g[i].previous = IF i = 1 THEN Nobody ELSE g[i - 1].to
  <2>1. CASE i = Len(g)
    BY <1>2, <1>3, <2>1 DEF Chain
  <2>2. CASE i # Len(g)
    <3>1. i \in 1..Len(h) /\ (i # 1 => i - 1 \in 1..Len(h))
      BY <1>2, <2>2
    <3> QED BY <1>2, <3>1 DEF Chain
  <2> QED BY <2>1, <2>2
<1>5. Chain(g, to)
  BY <1>2, <1>3, <1>4 DEF Chain
<1> QED BY <1>1, <1>5 DEF g

\* What a transaction still has to lock, or has locked, before it writes.
Needed(t) == tx[t].rows \cup (IF tx[t].kind = "auto" THEN {FormRow} ELSE {})
ToLock(t) == {tx[t].todo[i] : i \in DOMAIN tx[t].todo}

\* A lock shows its owner the value, a transaction has or will take every lock
\* it needs, and locks only what is there.
LocksShow ==
  \A t \in Transaction, l \in Lock : holder[l] = t => seen[t][l] = LockedValue(l)
LocksTaken ==
  \A t \in Transaction : \A l \in Needed(t) : holder[l] = t \/ l \in ToLock(t)
LocksThere ==
  /\ \A t \in Transaction :
       ToLock(t) \cup tx[t].rows \subseteq DOMAIN assignee \cup {FormRow}
  /\ \A l \in Lock : holder[l] # Free => l \in DOMAIN assignee \cup {FormRow}
Chains == \A s \in DOMAIN assignee : Chain(history[s], assignee[s])
Even(k) == \A o \in Officer : dealt[o] = IF o <= rota THEN k + 1 ELSE k

AssignmentInv ==
  /\ AssignmentTypeOK /\ LocksShow /\ LocksTaken /\ LocksThere /\ Chains
  /\ \E k \in Nat : Even(k)

LEMMA AssignmentInitInv == AssignmentInit => AssignmentInv
<1> SUFFICES ASSUME AssignmentInit PROVE AssignmentInv
  OBVIOUS
<1> USE AssignmentAssumption DEF AssignmentInit, Lock, Nobody
<1>1. DOMAIN assignee = {} /\ DOMAIN history = {}
  OBVIOUS
<1>2. AssignmentTypeOK
  BY <1>1 DEF AssignmentTypeOK, TransactionKind
<1>3. LocksShow /\ LocksTaken /\ LocksThere /\ Chains
  BY <1>1 DEF LocksShow, LocksTaken, LocksThere, Chains, ToLock, Needed
<1>4. Even(0)
  BY DEF Even
<1> QED BY <1>2, <1>3, <1>4 DEF AssignmentInv

\* The end of a transaction: every lock it had is free.
LEMMA Released ==
  ASSUME AssignmentInv, NEW t \in Transaction, Release(t),
         DOMAIN assignee' = DOMAIN assignee
  PROVE  /\ tx' \in [Transaction -> [kind : TransactionKind, todo : Seq(Lock),
                                     rows : SUBSET Submission]]
         /\ holder' \in [Lock -> Transaction \cup {Free}]
         /\ seen' \in [Transaction -> [Lock -> Officer \cup {Nobody}]]
         /\ operations' \in 0..MaxOperations
         /\ LocksTaken' /\ LocksThere'
         /\ \A u \in Transaction, l \in Lock : holder'[l] = u =>
              u # t /\ holder[l] = u /\ seen'[u][l] = LockedValue(l)
<1> USE DEF AssignmentInv
<1>1. /\ tx' = [tx EXCEPT ![t] = [kind |-> "none", todo |-> <<>>, rows |-> {}]]
      /\ holder' = [l \in Lock |-> IF holder[l] = t THEN Free ELSE holder[l]]
      /\ seen' = [seen EXCEPT ![t] = [l \in Lock |-> Nobody]]
      /\ operations' = operations
  BY DEF Release
<1>2. /\ tx' \in [Transaction -> [kind : TransactionKind, todo : Seq(Lock),
                                  rows : SUBSET Submission]]
      /\ holder' \in [Lock -> Transaction \cup {Free}]
      /\ seen' \in [Transaction -> [Lock -> Officer \cup {Nobody}]]
      /\ operations' \in 0..MaxOperations
  BY <1>1 DEF AssignmentTypeOK, TransactionKind
<1>3. \A u \in Transaction : u # t => tx'[u] = tx[u]
  BY <1>1 DEF AssignmentTypeOK
<1>4. /\ ToLock(t)' = {} /\ Needed(t)' = {} /\ tx'[t].rows = {}
      /\ \A u \in Transaction : u # t => ToLock(u)' = ToLock(u) /\ Needed(u)' = Needed(u)
      /\ \A u \in Transaction : Needed(u) \subseteq Lock
  BY <1>1, <1>3 DEF ToLock, Needed, Lock, AssignmentTypeOK
<1>5. LocksTaken'
  BY <1>1, <1>4 DEF LocksTaken
<1>6. LocksThere'
  BY <1>1, <1>3, <1>4 DEF LocksThere
<1>7. ASSUME NEW u \in Transaction, NEW l \in Lock, holder'[l] = u
      PROVE  u # t /\ holder[l] = u /\ seen'[u][l] = LockedValue(l)
  BY <1>1, <1>7, AssignmentAssumption DEF LocksShow, AssignmentTypeOK
<1> QED BY <1>2, <1>5, <1>6, <1>7

\* It may have changed no case.
LEMMA ReleaseStep ==
  ASSUME AssignmentInv, NEW t \in Transaction, Release(t),
         UNCHANGED <<assignee, history, rota, dealt>>
  PROVE  AssignmentInv'
<1> USE DEF AssignmentInv
<1>1. AssignmentTypeOK' /\ LocksTaken' /\ LocksThere'
  BY Released DEF AssignmentTypeOK
<1>2. LocksShow'
  BY Released DEF LocksShow, LockedValue
<1>3. Chains' /\ \E k \in Nat : Even(k)'
  BY DEF Chains, Even
<1> QED BY <1>1, <1>2, <1>3

\* A transaction begins with nothing locked and everything to lock.
LEMMA BeginStep ==
  ASSUME AssignmentInv, NEW t \in Transaction, NEW kind \in TransactionKind,
         NEW todo \in Seq(Lock), NEW rows \in SUBSET Submission,
         BeginTransaction(t, kind, todo, rows),
         UNCHANGED <<rota, dealt, holder, seen>>,
         DOMAIN assignee \subseteq DOMAIN assignee',
         DOMAIN assignee' \subseteq Submission,
         \A s \in DOMAIN assignee : assignee'[s] = assignee[s],
         {todo[i] : i \in DOMAIN todo} \cup rows \subseteq DOMAIN assignee' \cup {FormRow},
         rows \cup (IF kind = "auto" THEN {FormRow} ELSE {})
           \subseteq {todo[i] : i \in DOMAIN todo}
  PROVE  /\ tx' \in [Transaction -> [kind : TransactionKind, todo : Seq(Lock),
                                     rows : SUBSET Submission]]
         /\ operations' \in 0..MaxOperations
         /\ LocksShow' /\ LocksTaken' /\ LocksThere'
         /\ \E k \in Nat : Even(k)'
<1> USE DEF AssignmentInv
<1>1. /\ tx' = [tx EXCEPT ![t] = [kind |-> kind, todo |-> todo, rows |-> rows]]
      /\ operations' = operations + 1 /\ operations < MaxOperations
  BY DEF BeginTransaction
<1>2. /\ tx' \in [Transaction -> [kind : TransactionKind, todo : Seq(Lock),
                                  rows : SUBSET Submission]]
      /\ operations' \in 0..MaxOperations
  BY <1>1, AssignmentAssumption DEF AssignmentTypeOK
<1>3. /\ tx'[t] = [kind |-> kind, todo |-> todo, rows |-> rows]
      /\ \A u \in Transaction : u # t => tx'[u] = tx[u]
  BY <1>1 DEF AssignmentTypeOK
<1>4. /\ ToLock(t)' = {todo[i] : i \in DOMAIN todo}
      /\ Needed(t)' = rows \cup (IF kind = "auto" THEN {FormRow} ELSE {})
      /\ \A u \in Transaction : u # t => ToLock(u)' = ToLock(u) /\ Needed(u)' = Needed(u)
  BY <1>3 DEF ToLock, Needed
<1>5. LocksShow'
  <2>1. ASSUME NEW u \in Transaction, NEW l \in Lock, holder[l] = u
        PROVE  LockedValue(l)' = LockedValue(l)
    <3>1. l \in DOMAIN assignee \cup {FormRow}
      BY <2>1, AssignmentAssumption DEF LocksThere
    <3> QED BY <3>1 DEF LockedValue
  <2> QED BY <2>1 DEF LocksShow
<1>6. LocksTaken' /\ LocksThere'
  <2>1. LocksTaken'
    BY <1>4 DEF LocksTaken
  <2>2. LocksThere'
    BY <1>3, <1>4 DEF LocksThere
  <2> QED BY <2>1, <2>2
<1>7. \E k \in Nat : Even(k)'
  BY DEF Even
<1> QED BY <1>2, <1>5, <1>6, <1>7

LEMMA CreateStep ==
  ASSUME AssignmentInv, NEW t \in Transaction, NEW s \in Submission, CreateCase(t, s)
  PROVE  AssignmentInv'
<1> USE DEF AssignmentInv
<1>1. /\ s \notin DOMAIN assignee
      /\ assignee' = [r \in DOMAIN assignee \cup {s} |->
                        IF r = s THEN Nobody ELSE assignee[r]]
      /\ history' = [r \in DOMAIN assignee \cup {s} |->
                       IF r = s THEN <<>> ELSE history[r]]
      /\ BeginTransaction(t, "auto", <<s, FormRow>>, {s})
      /\ UNCHANGED <<rota, dealt, holder, seen>>
  BY DEF CreateCase
<1> DEFINE todo == <<s, FormRow>>
<1>2. todo \in Seq(Lock) /\ {todo[i] : i \in DOMAIN todo} = {s, FormRow}
  BY DEF Lock
<1> HIDE DEF todo
<1>3. BeginTransaction(t, "auto", todo, {s})
  BY <1>1 DEF todo
<1>4. /\ DOMAIN assignee' = DOMAIN assignee \cup {s} /\ DOMAIN history' = DOMAIN assignee'
      /\ \A r \in DOMAIN assignee : assignee'[r] = assignee[r] /\ history'[r] = history[r]
      /\ assignee'[s] = Nobody /\ history'[s] = <<>>
  BY <1>1
<1>5. DOMAIN assignee' \subseteq Submission
  BY <1>4 DEF AssignmentTypeOK
<1>6. /\ tx' \in [Transaction -> [kind : TransactionKind, todo : Seq(Lock),
                                  rows : SUBSET Submission]]
      /\ operations' \in 0..MaxOperations
      /\ LocksShow' /\ LocksTaken' /\ LocksThere' /\ \E k \in Nat : Even(k)'
  BY <1>1, <1>2, <1>3, <1>4, <1>5, BeginStep DEF TransactionKind
<1>7. AssignmentTypeOK'
  <2>1. ASSUME NEW r \in DOMAIN assignee'
        PROVE  /\ assignee'[r] \in Officer \cup {Nobody}
               /\ history'[r] \in Seq([previous : Officer \cup {Nobody},
                                       to : Officer \cup {Nobody}])
    <3>1. CASE r = s
      BY <1>4, <3>1
    <3>2. CASE r # s
      BY <1>4, <3>2 DEF AssignmentTypeOK
    <3> QED BY <3>1, <3>2
  <2> QED BY <1>1, <1>4, <1>5, <1>6, <2>1 DEF AssignmentTypeOK
<1>8. Chains'
  <2>1. ASSUME NEW r \in DOMAIN assignee' PROVE Chain(history'[r], assignee'[r])
    <3>1. CASE r = s
      BY <1>4, <3>1 DEF Chain
    <3>2. CASE r # s
      BY <1>4, <3>2 DEF Chains
    <3> QED BY <3>1, <3>2
  <2> QED BY <2>1 DEF Chains
<1> QED BY <1>6, <1>7, <1>8

LEMMA StartStep ==
  ASSUME AssignmentInv, NEW t \in Transaction,
         StartManual(t) \/ \E s \in Submission : StartTraining(t, s)
  PROVE  AssignmentInv'
<1> USE DEF AssignmentInv
<1>1. UNCHANGED <<assignee, history, rota, dealt, holder, seen>>
  BY DEF StartManual, StartTraining
<1>2. /\ DOMAIN assignee \subseteq Submission
      /\ \A r \in DOMAIN assignee : assignee'[r] = assignee[r]
  BY <1>1 DEF AssignmentTypeOK
<1>3. PICK kind \in {"manual", "training"}, todo \in Seq(Lock), rows \in SUBSET Submission :
        /\ BeginTransaction(t, kind, todo, rows)
        /\ {todo[i] : i \in DOMAIN todo} \cup rows \subseteq DOMAIN assignee \cup {FormRow}
        /\ rows \subseteq {todo[i] : i \in DOMAIN todo}
  <2>1. CASE \E s \in Submission : StartTraining(t, s)
    <3>1. PICK s \in DOMAIN assignee : BeginTransaction(t, "training", <<FormRow, s>>, {})
      BY <2>1 DEF StartTraining
    <3> DEFINE todo == <<FormRow, s>>
    <3>2. todo \in Seq(Lock) /\ {todo[i] : i \in DOMAIN todo} = {FormRow, s}
      BY <1>2 DEF Lock
    <3>3. BeginTransaction(t, "training", todo, {})
      BY <3>1
    <3> HIDE DEF todo
    <3>4. /\ {todo[i] : i \in DOMAIN todo} \cup {} \subseteq DOMAIN assignee \cup {FormRow}
          /\ {} \subseteq {todo[i] : i \in DOMAIN todo}
          /\ {} \in SUBSET Submission /\ "training" \in {"manual", "training"}
      BY <3>2
    <3> QED BY ONLY <3>2, <3>3, <3>4
  <2>2. CASE StartManual(t)
    <3>0. PICK rows \in SUBSET DOMAIN assignee \ {{}} :
            \E todo \in Orders(rows) : BeginTransaction(t, "manual", todo, rows)
      BY <2>2 DEF StartManual
    <3>1. PICK todo \in Orders(rows) : BeginTransaction(t, "manual", todo, rows)
      BY <3>0
    <3>2. rows \in SUBSET Submission
      BY <1>2, <3>1
    <3>3. Cardinality(rows) \in Nat
      BY <3>2, AssignmentAssumption, FS_Subset, FS_CardinalityType
    <3>4. todo \in [1..Cardinality(rows) -> rows] /\ {todo[i] : i \in DOMAIN todo} = rows
      BY DEF Orders
    <3>5. todo \in Seq(Lock)
      BY <3>2, <3>3, <3>4 DEF Lock
    <3> QED BY <3>1, <3>2, <3>4, <3>5
  <2> QED BY <2>1, <2>2
<1>4. /\ tx' \in [Transaction -> [kind : TransactionKind, todo : Seq(Lock),
                                  rows : SUBSET Submission]]
      /\ operations' \in 0..MaxOperations
      /\ LocksShow' /\ LocksTaken' /\ LocksThere' /\ \E k \in Nat : Even(k)'
  BY <1>1, <1>2, <1>3, BeginStep DEF TransactionKind
<1> QED BY <1>1, <1>4 DEF AssignmentTypeOK, Chains

\* A lock that is given shows the value of that moment.
LEMMA AcquireStep ==
  ASSUME AssignmentInv, NEW t \in Transaction, Acquire(t)
  PROVE  AssignmentInv'
<1> USE DEF AssignmentInv
<1> DEFINE l == Head(tx[t].todo)
           rest == Tail(tx[t].todo)
<1>1. /\ UNCHANGED <<assignee, history, rota, dealt, operations>>
      /\ tx[t].todo # <<>> /\ holder[l] = Free
      /\ holder' = [holder EXCEPT ![l] = t]
      /\ seen' = [seen EXCEPT ![t][l] = LockedValue(l)]
      /\ tx' = [tx EXCEPT ![t].todo = Tail(@)]
  BY DEF Acquire, ReadRow
<1>2. tx[t].todo \in Seq(Lock)
  BY DEF AssignmentTypeOK
<1>3. /\ l \in Lock /\ rest \in Seq(Lock)
      /\ ToLock(t) = {l} \cup {rest[i] : i \in DOMAIN rest}
  <2> DEFINE q == tx[t].todo
  <2>1. q \in Seq(Lock) /\ q # <<>>
    BY <1>1, <1>2
  <2> HIDE DEF q
  <2>2. /\ Head(q) \in Lock /\ Tail(q) \in Seq(Lock)
        /\ Len(Tail(q)) = Len(q) - 1 /\ Len(q) \in Nat \ {0}
        /\ Head(q) = q[1] /\ \A i \in 1..Len(Tail(q)) : Tail(q)[i] = q[i + 1]
    BY <2>1
  <2>3. ASSUME NEW x PROVE x \in {q[i] : i \in DOMAIN q} <=>
                     x \in {Head(q)} \cup {Tail(q)[i] : i \in DOMAIN Tail(q)}
    <3>1. ASSUME NEW i \in 1..Len(q), x = q[i]
          PROVE  x = Head(q) \/ \E j \in 1..Len(Tail(q)) : x = Tail(q)[j]
      <4>1. CASE i = 1
        BY <2>2, <3>1, <4>1
      <4>2. CASE i # 1
        <5>1. i - 1 \in 1..Len(Tail(q)) /\ Tail(q)[i - 1] = q[i]
          BY <2>2, <4>2
        <5> QED BY <3>1, <5>1
      <4> QED BY <4>1, <4>2
    <3>2. /\ Head(q) = q[1] /\ 1 \in 1..Len(q)
          /\ \A j \in 1..Len(Tail(q)) : Tail(q)[j] = q[j + 1] /\ j + 1 \in 1..Len(q)
      BY <2>2
    <3>3. DOMAIN q = 1..Len(q) /\ DOMAIN Tail(q) = 1..Len(Tail(q))
      BY <2>1, <2>2
    <3>4. x \in {q[i] : i \in DOMAIN q} <=> \E i \in 1..Len(q) : x = q[i]
      BY <3>3
    <3>5. x \in {Head(q)} \cup {Tail(q)[i] : i \in DOMAIN Tail(q)} <=>
            x = Head(q) \/ \E j \in 1..Len(Tail(q)) : x = Tail(q)[j]
      BY <3>3
    <3>6. x = Head(q) \/ (\E j \in 1..Len(Tail(q)) : x = Tail(q)[j]) =>
            \E i \in 1..Len(q) : x = q[i]
      BY <3>2
    <3> QED BY <3>1, <3>4, <3>5, <3>6
  <2> QED BY <2>2, <2>3 DEF q, ToLock
<1> HIDE DEF l, rest
<1>4. /\ \A u \in Transaction : tx'[u].rows = tx[u].rows /\ tx'[u].kind = tx[u].kind
      /\ \A u \in Transaction : u # t => tx'[u] = tx[u]
      /\ tx'[t].todo = rest
  BY <1>1 DEF AssignmentTypeOK, rest
<1>5. /\ ToLock(t)' = {rest[i] : i \in DOMAIN rest}
      /\ \A u \in Transaction : u # t => ToLock(u)' = ToLock(u)
      /\ \A u \in Transaction : Needed(u)' = Needed(u) /\ Needed(u) \subseteq Lock
  BY <1>4 DEF ToLock, Needed, Lock, AssignmentTypeOK
<1>6. \A k \in Lock : LockedValue(k)' = LockedValue(k)
  BY <1>1 DEF LockedValue
<1>7. l \in DOMAIN assignee \cup {FormRow}
  BY <1>3 DEF LocksThere
<1>8. LockedValue(l) \in Officer \cup {Nobody}
  BY <1>7 DEF LockedValue, AssignmentTypeOK
<1>9. AssignmentTypeOK'
  <2>1. tx' \in [Transaction -> [kind : TransactionKind, todo : Seq(Lock),
                                 rows : SUBSET Submission]]
    BY <1>1, <1>3 DEF AssignmentTypeOK, rest
  <2>2. /\ holder' \in [Lock -> Transaction \cup {Free}]
        /\ seen' \in [Transaction -> [Lock -> Officer \cup {Nobody}]]
    BY <1>1, <1>3, <1>8 DEF AssignmentTypeOK
  <2> QED BY <1>1, <2>1, <2>2 DEF AssignmentTypeOK
<1>10. LocksShow'
  BY <1>1, <1>3, <1>6, AssignmentAssumption DEF LocksShow, AssignmentTypeOK
<1>11. LocksTaken'
  <2>1. ASSUME NEW u \in Transaction, NEW k \in Needed(u)
        PROVE  holder'[k] = u \/ k \in ToLock(u)'
    <3>1. holder[k] = u \/ k \in ToLock(u)
      BY <2>1 DEF LocksTaken
    <3>2. holder \in [Lock -> Transaction \cup {Free}] /\ k \in Lock /\ u # Free
      BY <1>5, AssignmentAssumption DEF AssignmentTypeOK
    <3>3. CASE k = l /\ u = t
      BY <1>1, <3>2, <3>3
    <3>4. CASE k = l /\ u # t
      BY <1>1, <1>5, <3>1, <3>2, <3>4 DEF l
    <3>5. CASE k # l
      BY <1>1, <1>3, <1>5, <3>1, <3>2, <3>5 DEF l
    <3> QED BY <3>3, <3>4, <3>5
  <2> QED BY <1>5, <2>1 DEF LocksTaken
<1>12. LocksThere'
  BY <1>1, <1>3, <1>4, <1>5, <1>7 DEF LocksThere, AssignmentTypeOK
<1>13. Chains' /\ \E k \in Nat : Even(k)'
  BY <1>1 DEF Chains, Even
<1> QED BY <1>9, <1>10, <1>11, <1>12, <1>13

\* A transaction that writes holds the locks of its rows, so each entry names
\* the officer before, and no other transaction has read what changes.
LEMMA AssignedStep ==
  ASSUME AssignmentInv, NEW t \in Transaction, tx[t].todo = <<>>,
         NEW to \in Officer \cup {Nobody}, Assigned(t, tx[t].rows, to), Release(t)
  PROVE  /\ DOMAIN assignee' = DOMAIN assignee /\ DOMAIN history' = DOMAIN assignee
         /\ \A s \in DOMAIN assignee : /\ assignee'[s] \in Officer \cup {Nobody}
                                       /\ history'[s] \in Seq(Entry)
         /\ Chains'
         /\ \A u \in Transaction, s \in Submission : holder'[s] = u =>
              seen'[u][s] = assignee'[s]
         /\ tx[t].kind = "auto" => holder[FormRow] = t
<1> USE DEF AssignmentInv
<1> DEFINE changed == {s \in tx[t].rows : seen[t][s] # to}
<1>1. /\ assignee' = [s \in DOMAIN assignee |->
                        IF s \in changed THEN to ELSE assignee[s]]
      /\ history' = [s \in DOMAIN history |->
                       IF s \in changed
                         THEN Append(history[s], [previous |-> seen[t][s], to |-> to])
                         ELSE history[s]]
  BY DEF Assigned
<1>2. ToLock(t) = {} /\ tx[t].rows \subseteq Submission
  BY DEF ToLock, AssignmentTypeOK
<1>3. \A l \in Needed(t) : holder[l] = t
  BY <1>2 DEF LocksTaken
<1>4. ASSUME NEW s \in changed PROVE s \in Submission /\ holder[s] = t /\ seen[t][s] = assignee[s]
  <2>1. s \in Submission /\ s \in Lock /\ s \in Needed(t)
    BY <1>2 DEF Lock, Needed
  <2>2. holder[s] = t /\ seen[t][s] = LockedValue(s)
    BY <1>3, <2>1 DEF LocksShow
  <2> QED BY <2>1, <2>2, AssignmentAssumption DEF LockedValue
<1> HIDE DEF changed
<1>5. DOMAIN assignee' = DOMAIN assignee /\ DOMAIN history' = DOMAIN assignee
  BY <1>1 DEF AssignmentTypeOK
<1>6. ASSUME NEW s \in DOMAIN assignee
      PROVE  /\ assignee'[s] \in Officer \cup {Nobody} /\ history'[s] \in Seq(Entry)
             /\ Chain(history'[s], assignee'[s])
  <2>1. /\ assignee[s] \in Officer \cup {Nobody} /\ history[s] \in Seq(Entry)
        /\ Chain(history[s], assignee[s]) /\ s \in DOMAIN history
    BY DEF AssignmentTypeOK, Chains, Entry
  <2>2. CASE s \in changed
    <3>1. /\ history'[s] = Append(history[s], [previous |-> assignee[s], to |-> to])
          /\ assignee'[s] = to
      BY <1>1, <1>4, <2>1, <2>2
    <3> QED BY <2>1, <3>1, ChainGrows
  <2>3. CASE s \notin changed
    BY <1>1, <2>1, <2>3
  <2> QED BY <2>2, <2>3
<1>7. ASSUME NEW u \in Transaction, NEW s \in Submission, holder'[s] = u
      PROVE  seen'[u][s] = assignee'[s]
  <2>1. s \in Lock /\ s # FormRow
    BY AssignmentAssumption DEF Lock
  <2>2. u # t /\ holder[s] = u /\ seen'[u][s] = assignee[s]
    BY <1>5, <1>7, <2>1, Released DEF LockedValue
  <2>3. s \notin changed
    BY <1>4, <2>2
  <2>4. s \in DOMAIN assignee
    BY <2>1, <2>2, AssignmentAssumption DEF LocksThere
  <2> QED BY <1>1, <2>2, <2>3, <2>4
<1>8. tx[t].kind = "auto" => holder[FormRow] = t
  BY <1>3 DEF Needed
<1> QED BY <1>5, <1>6, <1>7, <1>8 DEF Chains

LEMMA CommitManualStep ==
  ASSUME AssignmentInv, NEW t \in Transaction, CommitManual(t)
  PROVE  AssignmentInv'
<1> USE DEF AssignmentInv
<1>1. /\ tx[t].todo = <<>> /\ Release(t) /\ UNCHANGED <<rota, dealt>>
      /\ \E to \in Officer \cup {Nobody} : Assigned(t, tx[t].rows, to)
  BY DEF CommitManual
<1>2. PICK to \in Officer \cup {Nobody} : Assigned(t, tx[t].rows, to)
  BY <1>1
<1>3. AssignmentTypeOK' /\ LocksTaken' /\ LocksThere' /\ Chains'
  BY <1>1, <1>2, AssignedStep, Released DEF AssignmentTypeOK, Entry
<1>4. LocksShow'
  <2>1. \A u \in Transaction : holder'[FormRow] = u => seen'[u][FormRow] = rota
    BY <1>1, <1>2, AssignedStep, Released DEF LockedValue, Lock
  <2>2. \A u \in Transaction, s \in Submission : holder'[s] = u =>
          seen'[u][s] = assignee'[s]
    BY <1>1, <1>2, AssignedStep
  <2> QED BY <1>1, <2>1, <2>2, AssignmentAssumption DEF LocksShow, LockedValue, Lock
<1>5. \E k \in Nat : Even(k)'
  BY <1>1 DEF Even
<1> QED BY <1>3, <1>4, <1>5

\* The next officer gets one case more: every one up to it has k + 1, or, when
\* the rota starts again, the first one k + 2.
LEMMA CommitAutoStep ==
  ASSUME AssignmentInv, NEW t \in Transaction, CommitAuto(t)
  PROVE  AssignmentInv'
<1> USE DEF AssignmentInv
<1> DEFINE to == After(seen[t][FormRow])
<1>1. /\ tx[t].kind = "auto" /\ tx[t].todo = <<>> /\ Release(t)
      /\ Assigned(t, tx[t].rows, to)
      /\ rota' = to /\ dealt' = [dealt EXCEPT ![to] = @ + 1]
  BY DEF CommitAuto
<1>2. FormRow \in Lock /\ rota \in Officer \cup {Nobody}
  BY DEF Lock, AssignmentTypeOK
<1>3. seen[t][FormRow] \in Officer \cup {Nobody}
  BY <1>2 DEF AssignmentTypeOK
<1>4. to \in Officer /\ to \in Officer \cup {Nobody}
  BY <1>3, AfterIsNext
<1>5. holder[FormRow] = t
  BY <1>1, <1>4, AssignedStep
<1>6. to = After(rota)
  BY <1>2, <1>5 DEF LocksShow, LockedValue
<1> HIDE DEF to
<1>7. dealt' \in [Officer -> Nat]
  BY <1>1, <1>4 DEF AssignmentTypeOK
<1>8. AssignmentTypeOK' /\ LocksTaken' /\ LocksThere' /\ Chains'
  BY <1>1, <1>4, <1>7, AssignedStep, Released DEF AssignmentTypeOK, Entry
<1>9. LocksShow'
  <2>1. \A u \in Transaction : holder'[FormRow] # u
    BY <1>1, <1>2, <1>4, <1>5, AssignedStep, Released
  <2>2. \A u \in Transaction, s \in Submission : holder'[s] = u =>
          seen'[u][s] = assignee'[s]
    BY <1>1, <1>4, AssignedStep
  <2> QED BY <2>1, <2>2, AssignmentAssumption DEF LocksShow, LockedValue, Lock
<1>10. \E k \in Nat : Even(k)'
  <2>1. PICK k \in Nat : Even(k)
    OBVIOUS
  <2>2. /\ Officer \subseteq Nat /\ rota \in Nat /\ dealt \in [Officer -> Nat]
    BY <1>2, AssignmentAssumption DEF Nobody, AssignmentTypeOK
  <2>3. \A o \in Officer : dealt'[o] = IF o = to THEN dealt[o] + 1 ELSE dealt[o]
    BY <1>1, <1>4, <2>2
  <2>4. CASE to > rota /\ \A p \in Officer : p > rota => to <= p
    <3>1. Even(k)'
      BY <1>1, <1>4, <2>1, <2>2, <2>3, <2>4 DEF Even
    <3> QED BY <3>1
  <2>5. CASE \A p \in Officer : p <= rota /\ to <= p
    <3>1. Even(k + 1)'
      BY <1>1, <1>4, <2>1, <2>2, <2>3, <2>5 DEF Even
    <3> QED BY <3>1
  <2> QED BY <1>2, <1>6, <2>4, <2>5, AfterIsNext
<1> QED BY <1>8, <1>9, <1>10

LEMMA AssignmentInductive == AssignmentSpec => []AssignmentInv
<1>1. AssignmentInv /\ [AssignmentNext]_assignmentVars => AssignmentInv'
  <2> SUFFICES ASSUME AssignmentInv, [AssignmentNext]_assignmentVars
               PROVE  AssignmentInv'
    OBVIOUS
  <2>1. CASE UNCHANGED assignmentVars
    <3>1. UNCHANGED <<assignee, history, rota, dealt, holder, tx, seen, operations>>
      BY <2>1 DEF assignmentVars
    <3>2. /\ \A t \in Transaction : ToLock(t)' = ToLock(t) /\ Needed(t)' = Needed(t)
          /\ \A l \in Lock : LockedValue(l)' = LockedValue(l)
      BY <3>1 DEF ToLock, Needed, LockedValue
    <3>3. AssignmentTypeOK' /\ Chains' /\ (\E k \in Nat : Even(k)')
      BY <3>1 DEF AssignmentInv, AssignmentTypeOK, Chains, Even
    <3>4. LocksShow' /\ LocksTaken'
      BY <3>1, <3>2 DEF AssignmentInv, LocksShow, LocksTaken
    <3>5. LocksThere'
      BY <3>1, <3>2 DEF AssignmentInv, LocksThere
    <3> QED BY <3>3, <3>4, <3>5 DEF AssignmentInv
  <2>2. ASSUME NEW t \in Transaction,
               AutoTooLate(t) \/ CommitTraining(t) \/ AbortVictim(t) \/ RollBack(t)
        PROVE  AssignmentInv'
    BY <2>2, ReleaseStep DEF AutoTooLate, CommitTraining, AbortVictim, RollBack
  <2>3. CASE AssignmentNext
    BY <2>2, <2>3, CreateStep, StartStep, AcquireStep, CommitAutoStep, CommitManualStep
       DEF AssignmentNext
  <2> QED BY <2>1, <2>3
<1> QED BY <1>1, AssignmentInitInv, PTL DEF AssignmentSpec

\* The variables of CaseAssignment keep their types.
THEOREM AssignmentTypes == AssignmentSpec => []AssignmentTypeOK
<1>1. AssignmentInv => AssignmentTypeOK
  BY DEF AssignmentInv
<1> QED BY <1>1, AssignmentInductive, PTL

\* For any number of cases, officers and transactions, and any of them aborted.
THEOREM HistoryIsAChain == AssignmentSpec => []HistoryChains
<1>1. AssignmentInv => HistoryChains
  <2> SUFFICES ASSUME AssignmentInv, NEW s \in DOMAIN assignee
               PROVE  LET h == history[s]
                          holds(i) == IF i = 0 THEN Nobody ELSE h[i].to
                      IN  /\ \A i \in DOMAIN h : h[i].previous = holds(i - 1)
                          /\ assignee[s] = holds(Len(h))
    BY DEF HistoryChains
  <2> DEFINE h == history[s]
  <2>1. h \in Seq(Entry) /\ Chain(h, assignee[s])
    BY DEF AssignmentInv, AssignmentTypeOK, Chains, Entry
  <2> HIDE DEF h
  <2>2. DOMAIN h = 1..Len(h) /\ Len(h) \in Nat /\ (h = <<>> <=> Len(h) = 0)
    BY <2>1
  <2>3. \A i \in DOMAIN h : h[i].previous = IF i - 1 = 0 THEN Nobody ELSE h[i - 1].to
    BY <2>1, <2>2 DEF Chain
  <2>4. assignee[s] = IF Len(h) = 0 THEN Nobody ELSE h[Len(h)].to
    BY <2>1, <2>2 DEF Chain
  <2> QED BY <2>3, <2>4 DEF h
<1> QED BY <1>1, AssignmentInductive, PTL

\* For any number of officers: those up to the last of the rota have one case
\* more than the others.
THEOREM RotaIsEven == AssignmentSpec => []DealtEvenly
<1>1. AssignmentInv => DealtEvenly
  <2> SUFFICES ASSUME AssignmentInv PROVE DealtEvenly
    OBVIOUS
  <2>1. PICK k \in Nat : Even(k)
    BY DEF AssignmentInv
  <2> QED BY <2>1 DEF Even, DealtEvenly
<1> QED BY <1>1, AssignmentInductive, PTL

\* The rota locks its case and then the Form row, and goes on to the second
\* only when nobody had the case.
Dealing(t) ==
  tx[t].kind = "auto" =>
    \E s \in Submission :
      /\ tx[t].rows = {s}
      /\ tx[t].todo \in {<<s, FormRow>>, <<FormRow>>, <<>>}
      /\ tx[t].todo = <<>> => seen[t][s] = Nobody
Deals == \A t \in Transaction : Dealing(t)

\* Another transaction's step, or its own end, leaves a dealing transaction so.
LEMMA DealingKept ==
  ASSUME NEW t \in Transaction, Dealing(t),
         tx'[t].kind # "auto" \/ (tx'[t] = tx[t] /\ seen'[t] = seen[t])
  PROVE  Dealing(t)'
BY DEF Dealing

LEMMA DealsBegin ==
  ASSUME AssignmentTypeOK, Deals, NEW t \in Transaction, NEW kind, NEW todo, NEW rows,
         BeginTransaction(t, kind, todo, rows), UNCHANGED seen,
         kind = "auto" => \E s \in Submission : rows = {s} /\ todo = <<s, FormRow>>
  PROVE  Deals'
<1>1. tx' = [tx EXCEPT ![t] = [kind |-> kind, todo |-> todo, rows |-> rows]]
  BY DEF BeginTransaction
<1>2. tx'[t] = [kind |-> kind, todo |-> todo, rows |-> rows]
  BY <1>1 DEF AssignmentTypeOK
<1>3. \A s : <<s, FormRow>> # <<>>
  OBVIOUS
<1>4. Dealing(t)'
  BY <1>2, <1>3 DEF Dealing
<1>5. ASSUME NEW u \in Transaction, u # t PROVE Dealing(u)'
  BY <1>1, <1>5, DealingKept DEF Deals, AssignmentTypeOK
<1> QED BY <1>4, <1>5 DEF Deals

LEMMA DealsReleased ==
  ASSUME AssignmentTypeOK, Deals, NEW t \in Transaction, Release(t)
  PROVE  Deals'
<1>1. /\ tx' = [tx EXCEPT ![t] = [kind |-> "none", todo |-> <<>>, rows |-> {}]]
      /\ seen' = [seen EXCEPT ![t] = [l \in Lock |-> Nobody]]
  BY DEF Release
<1>2. tx'[t].kind # "auto"
  BY <1>1 DEF AssignmentTypeOK
<1>3. ASSUME NEW u \in Transaction, u # t PROVE tx'[u] = tx[u] /\ seen'[u] = seen[u]
  BY <1>1, <1>3 DEF AssignmentTypeOK
<1> QED BY <1>2, <1>3, DealingKept DEF Deals

\* It takes its first lock, or, when the case is nobody's, its second one.
LEMMA DealsAcquire ==
  ASSUME AssignmentTypeOK, Deals, NEW t \in Transaction, Acquire(t)
  PROVE  Deals'
<1> DEFINE l == Head(tx[t].todo)
<1>1. /\ tx[t].todo # <<>> /\ ~TooLate(t)
      /\ seen' = [seen EXCEPT ![t][l] = LockedValue(l)]
      /\ tx' = [tx EXCEPT ![t].todo = Tail(@)]
  BY DEF Acquire, ReadRow
<1>2. ASSUME NEW u \in Transaction, u # t PROVE Dealing(u)'
  <2>1. tx'[u] = tx[u] /\ seen'[u] = seen[u]
    BY <1>1, <1>2 DEF AssignmentTypeOK
  <2> QED BY <2>1, DealingKept DEF Deals
<1>3. /\ tx'[t].kind = tx[t].kind /\ tx'[t].rows = tx[t].rows
      /\ tx'[t].todo = Tail(tx[t].todo)
  BY <1>1 DEF AssignmentTypeOK
<1>4. ASSUME tx[t].kind = "auto" PROVE Dealing(t)'
  <2>1. PICK s \in Submission :
           tx[t].rows = {s} /\ tx[t].todo \in {<<s, FormRow>>, <<FormRow>>, <<>>}
    BY <1>4 DEF Deals, Dealing
  <2>2. CASE tx[t].todo = <<s, FormRow>>
    <3>1. tx'[t].todo = <<FormRow>> /\ <<FormRow>> # <<>>
      BY <1>3, <2>2
    <3> QED BY <1>3, <2>1, <3>1 DEF Dealing
  <2>3. CASE tx[t].todo = <<FormRow>>
    <3>1. tx'[t].todo = <<>> /\ l = FormRow
      BY <1>3, <2>3
    <3>2. seen[t][s] = Nobody
      BY <1>1, <1>4, <2>1, <2>3 DEF TooLate
    <3>3. seen'[t][s] = seen[t][s]
      <4>1. s # FormRow /\ s \in Lock /\ seen \in [Transaction -> [Lock -> Officer \cup {Nobody}]]
        BY AssignmentAssumption DEF AssignmentTypeOK, Lock
      <4> QED BY <1>1, <3>1, <4>1
    <3> QED BY <1>3, <2>1, <3>1, <3>2, <3>3 DEF Dealing
  <2> QED BY <1>1, <2>1, <2>2, <2>3
<1>5. tx[t].kind # "auto" => Dealing(t)'
  BY <1>3 DEF Dealing
<1> QED BY <1>2, <1>4, <1>5 DEF Deals

LEMMA DealsInductive == AssignmentSpec => []Deals
<1>1. AssignmentInit => Deals
  BY DEF AssignmentInit, Deals, Dealing
<1>2. AssignmentInv /\ Deals /\ [AssignmentNext]_assignmentVars => Deals'
  <2> SUFFICES ASSUME AssignmentInv, Deals, [AssignmentNext]_assignmentVars
               PROVE  Deals'
    OBVIOUS
  <2> USE DEF AssignmentInv
  <2>1. CASE UNCHANGED assignmentVars
    BY <2>1 DEF assignmentVars, Deals, Dealing
  <2>2. ASSUME NEW t \in Transaction, NEW s \in Submission, CreateCase(t, s)
        PROVE  Deals'
    <3>1. BeginTransaction(t, "auto", <<s, FormRow>>, {s}) /\ UNCHANGED seen
      BY <2>2 DEF CreateCase
    <3> QED BY <3>1, DealsBegin
  <2>3. ASSUME NEW t \in Transaction, NEW s \in Submission, StartTraining(t, s)
        PROVE  Deals'
    BY <2>3, DealsBegin DEF StartTraining
  <2>4. ASSUME NEW t \in Transaction, StartManual(t) PROVE Deals'
    BY <2>4, DealsBegin DEF StartManual
  <2>5. ASSUME NEW t \in Transaction, Acquire(t) PROVE Deals'
    BY <2>5, DealsAcquire
  <2>6. ASSUME NEW t \in Transaction,
               \/ CommitAuto(t) \/ AutoTooLate(t) \/ CommitManual(t)
               \/ CommitTraining(t) \/ AbortVictim(t) \/ RollBack(t)
        PROVE  Deals'
    BY <2>6, DealsReleased
       DEF CommitAuto, AutoTooLate, CommitManual, CommitTraining, AbortVictim, RollBack
  <2>7. CASE AssignmentNext
    BY <2>2, <2>3, <2>4, <2>5, <2>6, <2>7 DEF AssignmentNext
  <2> QED BY <2>1, <2>7
<1> QED BY <1>1, <1>2, AssignmentInductive, PTL DEF AssignmentSpec

\* What a transaction read of its rows is what they still hold when it writes.
LEMMA ReadIsCurrent ==
  ASSUME AssignmentInv, NEW t \in Transaction, tx[t].todo = <<>>
  PROVE  /\ \A s \in tx[t].rows : s \in DOMAIN assignee /\ seen[t][s] = assignee[s]
         /\ tx[t].kind = "auto" => seen[t][FormRow] = rota
<1> USE DEF AssignmentInv
<1>1. ToLock(t) = {} /\ tx[t].rows \subseteq Submission
  BY DEF ToLock, AssignmentTypeOK
<1>2. \A l \in Needed(t) : holder[l] = t
  BY <1>1 DEF LocksTaken
<1>3. \A l \in Needed(t) : l \in Lock /\ seen[t][l] = LockedValue(l)
  BY <1>1, <1>2 DEF LocksShow, Needed, Lock
<1>4. ASSUME NEW s \in tx[t].rows
      PROVE  s \in DOMAIN assignee /\ seen[t][s] = assignee[s]
  <2>1. s \in Needed(t) /\ s # FormRow
    BY <1>1, AssignmentAssumption DEF Needed
  <2>2. s \in DOMAIN assignee
    BY <2>1, <1>1 DEF LocksThere
  <2> QED BY <1>3, <2>1, <2>2 DEF LockedValue
<1>5. tx[t].kind = "auto" => seen[t][FormRow] = rota
  BY <1>3 DEF Needed, LockedValue
<1> QED BY <1>4, <1>5

\* A transaction that writes gives the cases that are not the officer's yet.
LEMMA WritesOnce ==
  ASSUME AssignmentInv, NEW t \in Transaction, tx[t].todo = <<>>,
         NEW to \in Officer \cup {Nobody}, Assigned(t, tx[t].rows, to)
  PROVE  LET cases == {s \in tx[t].rows : assignee[s] # to}
         IN  cases \subseteq DOMAIN assignee /\ Serial!Give(cases, to)
<1> DEFINE cases == {s \in tx[t].rows : assignee[s] # to}
           changed == {s \in tx[t].rows : seen[t][s] # to}
<1>1. /\ assignee' = [s \in DOMAIN assignee |->
                        IF s \in changed THEN to ELSE assignee[s]]
      /\ history' = [s \in DOMAIN history |->
                       IF s \in changed
                         THEN Append(history[s], [previous |-> seen[t][s], to |-> to])
                         ELSE history[s]]
  BY DEF Assigned
<1>2. /\ changed = cases /\ cases \subseteq DOMAIN assignee
      /\ \A s \in cases : seen[t][s] = assignee[s]
  BY ReadIsCurrent
<1>3. DOMAIN history = DOMAIN assignee
  BY DEF AssignmentInv, AssignmentTypeOK
<1>4. history' = [s \in DOMAIN assignee |->
                    IF s \in cases
                      THEN Append(history[s], [previous |-> assignee[s], to |-> to])
                      ELSE history[s]]
  BY <1>1, <1>2, <1>3
<1>5. assignee' = [s \in DOMAIN assignee |-> IF s \in cases THEN to ELSE assignee[s]]
  BY <1>1, <1>2
<1> HIDE DEF cases, changed
<1>6. Serial!Give(cases, to)
  BY <1>4, <1>5 DEF Serial!Give
<1> QED BY <1>2, <1>6 DEF cases

LEMMA CommitAutoDeals ==
  ASSUME AssignmentInv, Deals, NEW t \in Transaction, CommitAuto(t)
  PROVE  Serial!Next
<1> DEFINE to == After(seen[t][FormRow])
<1>1. /\ tx[t].kind = "auto" /\ tx[t].todo = <<>>
      /\ Assigned(t, tx[t].rows, to)
      /\ rota' = to /\ dealt' = [dealt EXCEPT ![to] = @ + 1]
  BY DEF CommitAuto
<1>2. to = After(rota)
  BY <1>1, ReadIsCurrent
<1> HIDE DEF to
<1>3. rota \in Officer \cup {Nobody}
  BY DEF AssignmentInv, AssignmentTypeOK
<1>4. to \in Officer /\ Serial!Follows(to, rota)
  BY <1>2, <1>3, AfterIsNext DEF Serial!Follows
<1>5. PICK s \in Submission : tx[t].rows = {s} /\ seen[t][s] = Nobody
  <2>1. \E s \in Submission :
          tx[t].rows = {s} /\ (tx[t].todo = <<>> => seen[t][s] = Nobody)
    BY <1>1 DEF Deals, Dealing
  <2> QED BY <1>1, <2>1
<1>6. s \in DOMAIN assignee /\ assignee[s] = Nobody
  BY <1>1, <1>5, ReadIsCurrent
<1>7. {r \in tx[t].rows : assignee[r] # to} = {s}
  BY <1>4, <1>5, <1>6, AssignmentAssumption DEF Nobody
<1>8. Serial!Give({s}, to)
  BY <1>1, <1>4, <1>7, WritesOnce
<1>9. Serial!Deal(s, to)
  BY <1>1, <1>4, <1>6, <1>8 DEF Serial!Deal, Serial!Nobody, Nobody
<1> QED BY <1>4, <1>5, <1>9 DEF Serial!Next

LEMMA CommitManualAssigns ==
  ASSUME AssignmentInv, NEW t \in Transaction, CommitManual(t)
  PROVE  Serial!Next
<1>1. PICK to \in Officer \cup {Nobody} :
        tx[t].todo = <<>> /\ UNCHANGED <<rota, dealt>> /\ Assigned(t, tx[t].rows, to)
  BY DEF CommitManual
<1> DEFINE cases == {s \in tx[t].rows : assignee[s] # to}
<1>2. /\ cases \subseteq DOMAIN assignee /\ Serial!Give(cases, to)
      /\ \A s \in cases : assignee[s] # to
  BY <1>1, WritesOnce
<1> HIDE DEF cases
<1>3. Serial!Assign(cases, to)
  BY <1>1, <1>2 DEF Serial!Assign
<1> QED BY <1>2, <1>3 DEF Serial!Next, Serial!Nobody, Nobody

\* For any number of cases, officers and transactions, in any order of locks and
\* with any of them aborted: assignments are as if made one after the other.
THEOREM SerialAssignments == AssignmentSpec => AssignmentsAreSerial
<1>1. AssignmentInit => Serial!Init
  BY DEF AssignmentInit, Serial!Init, Serial!Nobody, Nobody
<1>2. AssignmentInv /\ Deals /\ [AssignmentNext]_assignmentVars
        => [Serial!Next]_(Serial!vars)
  <2> SUFFICES ASSUME AssignmentInv, Deals, [AssignmentNext]_assignmentVars
               PROVE  Serial!Next \/ UNCHANGED <<assignee, history, rota, dealt>>
    BY DEF Serial!vars
  <2>1. ASSUME NEW t \in Transaction, NEW s \in Submission, CreateCase(t, s)
        PROVE  Serial!Next
    BY <2>1 DEF CreateCase, Serial!Next, Serial!Create, Serial!Nobody, Nobody
  <2>2. ASSUME NEW t \in Transaction,
               \/ \E s \in Submission : StartTraining(t, s)
               \/ StartManual(t) \/ Acquire(t) \/ AutoTooLate(t)
               \/ CommitTraining(t) \/ AbortVictim(t) \/ RollBack(t)
        PROVE  UNCHANGED <<assignee, history, rota, dealt>>
    BY <2>2 DEF StartTraining, StartManual, Acquire, AutoTooLate, CommitTraining,
                AbortVictim, RollBack
  <2>3. CASE AssignmentNext
    BY <2>1, <2>2, <2>3, CommitAutoDeals, CommitManualAssigns DEF AssignmentNext
  <2> QED BY <2>3 DEF assignmentVars
<1> QED BY <1>1, <1>2, AssignmentInductive, DealsInductive, PTL
        DEF AssignmentSpec, AssignmentsAreSerial, Serial!Spec

\* A transaction locks nothing twice, and what is locked has an open owner.
LockingOnce ==
  /\ \A t \in Transaction : IsInjective(tx[t].todo)
  /\ \A t \in Transaction : tx[t].kind = "none" => tx[t].todo = <<>>
  /\ \A t \in Transaction, l \in Lock : holder[l] = t =>
       tx[t].kind # "none" /\ l \notin ToLock(t)

LEMMA OnceBegin ==
  ASSUME AssignmentTypeOK, LockingOnce, NEW t \in Transaction, NEW kind, NEW todo, NEW rows,
         BeginTransaction(t, kind, todo, rows), UNCHANGED holder,
         kind # "none", IsInjective(todo)
  PROVE  LockingOnce'
<1>1. /\ tx' = [tx EXCEPT ![t] = [kind |-> kind, todo |-> todo, rows |-> rows]]
      /\ tx[t].kind = "none"
  BY DEF BeginTransaction
<1>2. /\ tx'[t] = [kind |-> kind, todo |-> todo, rows |-> rows]
      /\ \A u \in Transaction : u # t => tx'[u] = tx[u]
  BY <1>1 DEF AssignmentTypeOK
<1>3. \A l \in Lock : holder[l] # t
  BY <1>1 DEF LockingOnce
<1>4. \A u \in Transaction : u # t => ToLock(u)' = ToLock(u)
  BY <1>2 DEF ToLock
<1>5. \A u \in Transaction : IsInjective(tx[u].todo)'
  BY <1>2 DEF LockingOnce
<1>6. \A u \in Transaction : tx'[u].kind = "none" => tx'[u].todo = <<>>
  BY <1>2 DEF LockingOnce
<1>7. \A u \in Transaction, l \in Lock : holder'[l] = u =>
        tx'[u].kind # "none" /\ l \notin ToLock(u)'
  BY <1>2, <1>3, <1>4 DEF LockingOnce
<1> QED BY <1>5, <1>6, <1>7 DEF LockingOnce

LEMMA OnceReleased ==
  ASSUME AssignmentTypeOK, LockingOnce, NEW t \in Transaction, Release(t)
  PROVE  LockingOnce'
<1>1. /\ tx' = [tx EXCEPT ![t] = [kind |-> "none", todo |-> <<>>, rows |-> {}]]
      /\ holder' = [l \in Lock |-> IF holder[l] = t THEN Free ELSE holder[l]]
  BY DEF Release
<1>2. /\ tx'[t].kind = "none" /\ tx'[t].todo = <<>>
      /\ \A u \in Transaction : u # t => tx'[u] = tx[u]
  BY <1>1 DEF AssignmentTypeOK
<1>3. \A u \in Transaction : u # t => ToLock(u)' = ToLock(u)
  BY <1>2 DEF ToLock
<1>4. IsInjective(<<>>)
  BY DEF IsInjective
<1>5. \A u \in Transaction : IsInjective(tx[u].todo)'
  BY <1>2, <1>4 DEF LockingOnce
<1>6. \A u \in Transaction : tx'[u].kind = "none" => tx'[u].todo = <<>>
  BY <1>2 DEF LockingOnce
<1>7. \A u \in Transaction, l \in Lock : holder'[l] = u => u # t /\ holder[l] = u
  BY <1>1, AssignmentAssumption
<1>8. \A u \in Transaction, l \in Lock : holder'[l] = u =>
        tx'[u].kind # "none" /\ l \notin ToLock(u)'
  BY <1>2, <1>3, <1>7 DEF LockingOnce
<1> QED BY <1>5, <1>6, <1>8 DEF LockingOnce

LEMMA TailOnce ==
  ASSUME NEW S, NEW q \in Seq(S), q # <<>>, IsInjective(q)
  PROVE  /\ IsInjective(Tail(q))
         /\ \A i \in DOMAIN Tail(q) : Tail(q)[i] # Head(q)
         /\ \A i \in DOMAIN Tail(q) : \E j \in DOMAIN q : Tail(q)[i] = q[j]
<1>1. /\ Len(Tail(q)) = Len(q) - 1 /\ Len(q) \in Nat \ {0} /\ Head(q) = q[1]
      /\ DOMAIN q = 1..Len(q) /\ DOMAIN Tail(q) = 1..Len(Tail(q))
      /\ \A i \in 1..Len(Tail(q)) : Tail(q)[i] = q[i + 1]
  OBVIOUS
<1>2. \A i \in DOMAIN Tail(q) : Tail(q)[i] = q[i + 1] /\ i + 1 \in DOMAIN q /\ i + 1 # 1
  BY <1>1
<1>3. IsInjective(Tail(q))
  BY <1>1, <1>2 DEF IsInjective
<1>4. 1 \in DOMAIN q
  BY <1>1
<1> QED BY <1>1, <1>2, <1>3, <1>4 DEF IsInjective

LEMMA OnceAcquire ==
  ASSUME AssignmentTypeOK, LockingOnce, NEW t \in Transaction, Acquire(t)
  PROVE  LockingOnce'
<1> DEFINE q == tx[t].todo
<1>1. /\ q # <<>> /\ holder[Head(q)] = Free
      /\ holder' = [holder EXCEPT ![Head(q)] = t]
      /\ tx' = [tx EXCEPT ![t].todo = Tail(@)]
  BY DEF Acquire, ReadRow
<1>2. /\ tx'[t].kind = tx[t].kind /\ tx'[t].todo = Tail(q)
      /\ \A u \in Transaction : u # t => tx'[u] = tx[u]
  BY <1>1 DEF AssignmentTypeOK
<1>3. \A u \in Transaction : u # t => ToLock(u)' = ToLock(u)
  BY <1>2 DEF ToLock
<1>4. q \in Seq(Lock) /\ IsInjective(q) /\ tx[t].kind # "none"
  BY <1>1 DEF AssignmentTypeOK, LockingOnce
<1>5. ToLock(t) = {q[i] : i \in DOMAIN q}
  BY DEF ToLock
<1>6. ToLock(t)' = {Tail(q)[i] : i \in DOMAIN Tail(q)}
  BY <1>2 DEF ToLock
<1> HIDE DEF q
<1>7. /\ IsInjective(Tail(q)) /\ Head(q) \notin ToLock(t)'
      /\ ToLock(t)' \subseteq ToLock(t)
  BY <1>1, <1>4, <1>5, <1>6, TailOnce
<1>8. \A u \in Transaction : IsInjective(tx[u].todo)'
  BY <1>2, <1>7 DEF LockingOnce
<1>9. \A u \in Transaction : tx'[u].kind = "none" => tx'[u].todo = <<>>
  BY <1>2, <1>4 DEF LockingOnce
<1>10. ASSUME NEW u \in Transaction, NEW l \in Lock, holder'[l] = u
       PROVE  tx'[u].kind # "none" /\ l \notin ToLock(u)'
  <2>1. (l = Head(q) /\ u = t) \/ (l # Head(q) /\ holder[l] = u)
    BY <1>1, <1>10 DEF AssignmentTypeOK
  <2>2. CASE u = t
    BY <1>2, <1>4, <1>7, <2>1, <2>2 DEF LockingOnce
  <2>3. CASE u # t
    BY <1>2, <1>3, <2>1, <2>3 DEF LockingOnce
  <2> QED BY <2>2, <2>3
<1> QED BY <1>8, <1>9, <1>10 DEF LockingOnce

LEMMA OrderOnce ==
  ASSUME NEW rows, IsFiniteSet(rows), NEW f \in Orders(rows)
  PROVE  IsInjective(f)
<1> DEFINE n == Cardinality(rows)
<1>1. n \in Nat
  BY FS_CardinalityType
<1>2. f \in [1..n -> rows] /\ {f[i] : i \in DOMAIN f} = rows
  BY DEF Orders
<1> HIDE DEF n
<1>3. f \in Surjection(1..n, rows)
  BY <1>2 DEF Surjection
<1>4. IsFiniteSet(1..n) /\ Cardinality(1..n) = n
  BY <1>1, FS_Interval
<1>5. f \in Injection(1..n, rows)
  BY <1>3, <1>4, FS_SurjSameCardinalityImpliesInj DEF n
<1> QED BY <1>5 DEF Injection

LEMMA OnceInductive == AssignmentSpec => []LockingOnce
<1>1. AssignmentInit => LockingOnce
  BY AssignmentAssumption DEF AssignmentInit, LockingOnce, IsInjective
<1>2. AssignmentInv /\ LockingOnce /\ [AssignmentNext]_assignmentVars => LockingOnce'
  <2> SUFFICES ASSUME AssignmentInv, LockingOnce, [AssignmentNext]_assignmentVars
               PROVE  LockingOnce'
    OBVIOUS
  <2> USE DEF AssignmentInv
  <2>1. CASE UNCHANGED assignmentVars
    <3>1. UNCHANGED <<tx, holder>>
      BY <2>1 DEF assignmentVars
    <3> QED BY <3>1 DEF LockingOnce, ToLock
  <2>2. ASSUME NEW t \in Transaction, NEW s \in Submission,
               CreateCase(t, s) \/ StartTraining(t, s)
        PROVE  LockingOnce'
    <3>1. PICK kind \in {"auto", "training"}, todo \in {<<s, FormRow>>, <<FormRow, s>>},
               rows \in {{s}, {}} :
            BeginTransaction(t, kind, todo, rows) /\ UNCHANGED holder
      BY <2>2 DEF CreateCase, StartTraining
    <3>2. s # FormRow
      BY AssignmentAssumption
    <3>3. IsInjective(todo)
      BY <3>2 DEF IsInjective
    <3> QED BY <3>1, <3>3, OnceBegin
  <2>3. ASSUME NEW t \in Transaction, StartManual(t) PROVE LockingOnce'
    <3>1. PICK rows \in SUBSET DOMAIN assignee \ {{}} :
            \E todo \in Orders(rows) : BeginTransaction(t, "manual", todo, rows)
      BY <2>3 DEF StartManual
    <3>2. PICK todo \in Orders(rows) : BeginTransaction(t, "manual", todo, rows)
      BY <3>1
    <3>3. UNCHANGED holder
      BY <2>3 DEF StartManual
    <3>4. rows \in SUBSET Submission
      BY DEF AssignmentTypeOK
    <3>5. IsFiniteSet(rows)
      BY <3>4, AssignmentAssumption, FS_Subset
    <3> QED BY <3>2, <3>3, <3>5, OrderOnce, OnceBegin
  <2>4. ASSUME NEW t \in Transaction, Acquire(t) PROVE LockingOnce'
    BY <2>4, OnceAcquire
  <2>5. ASSUME NEW t \in Transaction,
               \/ CommitAuto(t) \/ AutoTooLate(t) \/ CommitManual(t)
               \/ CommitTraining(t) \/ AbortVictim(t) \/ RollBack(t)
        PROVE  LockingOnce'
    BY <2>5, OnceReleased
       DEF CommitAuto, AutoTooLate, CommitManual, CommitTraining, AbortVictim, RollBack
  <2>6. CASE AssignmentNext
    BY <2>2, <2>3, <2>4, <2>5, <2>6 DEF AssignmentNext
  <2> QED BY <2>1, <2>6
<1> QED BY <1>1, <1>2, AssignmentInductive, PTL DEF AssignmentSpec

\* Who waits for somebody of a finite set, who waits for somebody of it again,
\* waits in a circle: the smallest set of such waits.
LEMMA Circle ==
  ASSUME NEW W, IsFiniteSet(W), W # {}, NEW f, \A x \in W : f[x] \in W
  PROVE  \E C \in SUBSET W :
           C # {} /\ \A y \in W : y \in C <=> \E x \in C : f[x] = y
<1> DEFINE Closed(C) == C \subseteq W /\ C # {} /\ {f[x] : x \in C} \subseteq C
           sizes == {Cardinality(C) : C \in {D \in SUBSET W : Closed(D)}}
<1>1. \A C \in SUBSET W : IsFiniteSet(C) /\ Cardinality(C) \in Nat
  BY FS_Subset, FS_CardinalityType
<1>2. Closed(W)
  OBVIOUS
<1>3. sizes \subseteq Nat /\ sizes # {}
  BY <1>1, <1>2
<1>4. PICK m \in sizes : \A n \in sizes : m <= n
  BY <1>3, LeastExists
<1>5. PICK C \in SUBSET W : Closed(C) /\ Cardinality(C) = m
  BY <1>4
<1> DEFINE image == {f[x] : x \in C}
<1>6. image \in SUBSET C /\ Closed(image)
  BY <1>5
<1>7. Cardinality(image) \in sizes
  BY <1>5, <1>6
<1>8. Cardinality(C) <= Cardinality(image)
  BY <1>4, <1>5, <1>7
<1> HIDE DEF image
<1>9. image = C
  BY <1>1, <1>5, <1>6, <1>8, FS_Subset, FS_CardinalityType
<1> QED BY <1>5, <1>9 DEF image

\* For any finite number of transactions: when every open one waits, each for
\* another, some of them wait in a circle.
THEOREM NobodyIsStuck == AssignmentSpec => []NeverStuck
<1>1. AssignmentInv /\ LockingOnce => NeverStuck
  <2> DEFINE active == {t \in Transaction : tx[t].kind # "none"}
             f == [t \in active |-> Blocker(t)]
  <2> SUFFICES ASSUME AssignmentInv, LockingOnce, active # {},
                      \A t \in active : /\ tx[t].todo # <<>>
                                      /\ holder[Head(tx[t].todo)] # Free
               PROVE  \E t \in active : Deadlocked(t)
    BY DEF NeverStuck
  <2>1. ASSUME NEW t \in active
        PROVE  Waiting(t) /\ Blocker(t) \in active
    <3> DEFINE q == tx[t].todo
               l == Head(q)
    <3>1. q \in Seq(Lock) /\ q # <<>>
      BY DEF AssignmentInv, AssignmentTypeOK
    <3>2. l \in Lock /\ l \in ToLock(t)
      <4>1. l = q[1] /\ 1 \in DOMAIN q /\ l \in Lock
        BY <3>1
      <4> QED BY <4>1 DEF ToLock
    <3>3. holder[l] \in Transaction
      BY <3>2 DEF AssignmentInv, AssignmentTypeOK
    <3>4. holder[l] \in active /\ holder[l] # t
      BY <3>2, <3>3 DEF LockingOnce
    <3> QED BY <3>1, <3>3, <3>4 DEF Waiting, Blocker
  <2>2. IsFiniteSet(active) /\ active # {} /\ \A t \in active : f[t] \in active
    BY <2>1, AssignmentAssumption, FS_Subset
  <2> HIDE DEF f, active
  <2>3. PICK C \in SUBSET active :
          C # {} /\ \A u \in active : u \in C <=> \E t \in C : f[t] = u
    BY <2>2, Circle
  <2>4. {Blocker(t) : t \in C} = C
    <3>1. \A t \in C : f[t] = Blocker(t) /\ f[t] \in active
      BY <2>2 DEF f
    <3> QED BY <2>3, <3>1
  <2>5. PICK t \in C : TRUE
    BY <2>3
  <2>6. Deadlocked(t)
    BY <2>1, <2>3, <2>4 DEF Deadlocked, active
  <2> QED BY <2>6
<1> QED BY <1>1, AssignmentInductive, OnceInductive, PTL

---------------------------------------------------------------------------
(* RequestLimiter. *)

\* Every failure a window can reach is still in the table, ...
RowsKept == \A r \in happened : r.at >= now - Long.window => r \in failures
\* ... rows have ids of their own, ...
Numbered == \A r \in happened : r.id \in 1..Cardinality(happened)
\* ... and the logins in hand are reckoned among those that may still fail.
Room ==
  \A p \in {Short, Long} :
    Count(happened, p) + Cardinality(checking) <= p.attempts + Cardinality(Client) - 1
LimiterInv ==
  /\ LimiterTypeOK /\ IsFiniteSet(happened) /\ failures \subseteq happened
  /\ RowsKept /\ Numbered /\ Room

LEMMA LimiterSizes ==
  /\ Cardinality(Client) \in Nat
  /\ \A p \in {Short, Long} : p.attempts \in Nat \ {0} /\ p.window \in Nat /\ p.window <= Long.window
BY LimiterAssumption, FS_CardinalityType

LEMMA CountType ==
  ASSUME NEW S, IsFiniteSet(S), NEW p
  PROVE  IsFiniteSet(Within(S, p.window)) /\ Count(S, p) \in Nat
BY FS_Subset, FS_CardinalityType DEF Within, Count

LEMMA CheckingType ==
  ASSUME LimiterInv
  PROVE  /\ IsFiniteSet(checking) /\ Cardinality(checking) \in Nat
         /\ Cardinality(checking) <= Cardinality(Client)
BY LimiterAssumption, FS_Subset, FS_CardinalityType DEF LimiterInv, LimiterTypeOK

LEMMA LimiterInitInv == LimiterInit => LimiterInv
<1> SUFFICES ASSUME LimiterInit PROVE LimiterInv
  OBVIOUS
<1>1. LimiterTypeOK /\ IsFiniteSet(happened) /\ failures \subseteq happened /\ RowsKept /\ Numbered
  BY LimiterAssumption, FS_EmptySet DEF LimiterInit, LimiterTypeOK, RowsKept, Numbered
<1>2. Room
  <2>1. \A p \in {Short, Long} : Within(happened, p.window) = {}
    BY DEF LimiterInit, Within
  <2>2. \A p \in {Short, Long} : Count(happened, p) = 0
    BY <2>1, FS_EmptySet DEF Count
  <2>3. Cardinality(checking) = 0
    BY FS_EmptySet DEF LimiterInit
  <2> QED BY <2>2, <2>3, LimiterSizes DEF Room
<1> QED BY <1>1, <1>2 DEF LimiterInv

\* What passes the limiter is what the table shows, and that is all there is.
LEMMA CheckInv ==
  ASSUME LimiterInv, NEW c \in Client, Check(c)
  PROVE  LimiterInv'
<1>1. LimiterTypeOK' /\ IsFiniteSet(happened') /\ (failures \subseteq happened)' /\ RowsKept' /\ Numbered'
  BY DEF LimiterInv, LimiterTypeOK, Check, RowsKept, Numbered
<1>2. ASSUME NEW p \in {Short, Long}
      PROVE  Count(happened, p)' + Cardinality(checking)' <= p.attempts + Cardinality(Client) - 1
  <2>1. Within(failures, p.window) = Within(happened, p.window)
    <3>1. now \in Nat /\ \A r \in happened : r.at \in Nat
      BY LimiterAssumption DEF LimiterInv, LimiterTypeOK, Attempt
    <3> QED BY <3>1, LimiterSizes DEF LimiterInv, RowsKept, Within
  <2>2. Count(happened, p) < p.attempts
    <3>1. Count(happened, p) \in Nat
      BY CountType DEF LimiterInv
    <3> QED BY <2>1, <3>1, LimiterSizes DEF Check, Limited, Count
  <2>3. Count(happened, p)' = Count(happened, p)
    BY DEF Check, Count, Within
  <2>4. checking' \subseteq Client
    BY <1>1 DEF LimiterTypeOK
  <2>5. Cardinality(checking)' \in Nat /\ Cardinality(checking)' <= Cardinality(Client)
    BY <2>4, LimiterAssumption, FS_Subset, FS_CardinalityType
  <2>6. Count(happened, p) \in Nat
    BY CountType DEF LimiterInv
  <2> QED BY <2>2, <2>3, <2>5, <2>6, LimiterSizes
<1> QED BY <1>1, <1>2 DEF LimiterInv, Room

LEMMA LoginEnds ==
  ASSUME LimiterInv, NEW c \in checking, checking' = checking \ {c}
  PROVE  Cardinality(checking)' = Cardinality(checking) - 1 /\ Cardinality(checking)' \in Nat
<1>1. IsFiniteSet(checking)
  BY CheckingType
<1>2. Cardinality(checking \ {c}) = Cardinality(checking) - 1
  BY <1>1, FS_RemoveElement
<1>3. IsFiniteSet(checking \ {c})
  BY <1>1, FS_Subset
<1> QED BY <1>2, <1>3, FS_CardinalityType

LEMMA RecordInv ==
  ASSUME LimiterInv, NEW c \in Client, RecordFailure(c)
  PROVE  LimiterInv'
<1> DEFINE n == NewAttempt
<1>1. Cardinality(happened) \in Nat /\ n \in Attempt /\ n \notin happened
      /\ n.at = now /\ n.id = Cardinality(happened) + 1
  <2>1. Cardinality(happened) \in Nat
    BY FS_CardinalityType DEF LimiterInv
  <2> QED BY <2>1, LimiterAssumption
          DEF LimiterInv, LimiterTypeOK, Numbered, RecordFailure, NewAttempt, Attempt
<1>2. IsFiniteSet(happened') /\ Cardinality(happened)' = Cardinality(happened) + 1
  BY <1>1, FS_AddElement DEF LimiterInv, RecordFailure
<1>3. LimiterTypeOK'
  BY <1>1 DEF LimiterInv, LimiterTypeOK, RecordFailure, Within
<1>4. (failures \subseteq happened)' /\ RowsKept'
  BY DEF LimiterInv, RecordFailure, Within, RowsKept
<1>5. Numbered'
  BY <1>1, <1>2 DEF LimiterInv, Numbered, RecordFailure
<1>6. ASSUME NEW p \in {Short, Long}
      PROVE  Count(happened, p)' + Cardinality(checking)' <= p.attempts + Cardinality(Client) - 1
  <2>1. Within(happened, p.window)' \subseteq Within(happened, p.window) \cup {n}
    BY DEF RecordFailure, Within
  <2>2. IsFiniteSet(Within(happened, p.window)) /\ Count(happened, p) \in Nat
    BY CountType DEF LimiterInv
  <2>3. n \notin Within(happened, p.window)
    BY <1>1 DEF Within
  <2>4. /\ IsFiniteSet(Within(happened, p.window) \cup {n})
        /\ Cardinality(Within(happened, p.window) \cup {n}) = Count(happened, p) + 1
    BY <2>2, <2>3, FS_AddElement DEF Count
  <2>5. Count(happened, p)' \in Nat /\ Count(happened, p)' <= Count(happened, p) + 1
    BY <2>1, <2>4, FS_Subset, FS_CardinalityType DEF Count
  <2>6. Cardinality(checking)' = Cardinality(checking) - 1 /\ Cardinality(checking)' \in Nat
        /\ Cardinality(checking) \in Nat
    BY LoginEnds, CheckingType DEF RecordFailure
  <2> QED BY <2>2, <2>5, <2>6, LimiterSizes DEF LimiterInv, Room
<1> QED BY <1>2, <1>3, <1>4, <1>5, <1>6 DEF LimiterInv, Room

LEMMA SucceedInv ==
  ASSUME LimiterInv, NEW c \in Client, Succeed(c)
  PROVE  LimiterInv'
<1>1. LimiterTypeOK' /\ IsFiniteSet(happened') /\ (failures \subseteq happened)' /\ RowsKept' /\ Numbered'
  BY FS_EmptySet DEF LimiterInv, LimiterTypeOK, RowsKept, Numbered, Succeed
<1>2. \A p \in {Short, Long} : Count(happened, p)' = 0
  <2>1. \A p \in {Short, Long} : Within(happened, p.window)' = {}
    BY DEF Succeed, Within
  <2> QED BY <2>1, FS_EmptySet DEF Count
<1>3. Cardinality(checking)' = Cardinality(checking) - 1 /\ Cardinality(checking) \in Nat
      /\ Cardinality(checking) <= Cardinality(Client)
  BY LoginEnds, CheckingType DEF Succeed
<1> QED BY <1>1, <1>2, <1>3, LimiterSizes DEF LimiterInv, Room

LEMMA TickInv ==
  ASSUME LimiterInv, Tick
  PROVE  LimiterInv'
<1>0. now \in Nat /\ now' = now + 1 /\ \A r \in happened : r.at \in Nat
  BY LimiterAssumption DEF LimiterInv, LimiterTypeOK, Attempt, Tick
<1>1. LimiterTypeOK' /\ IsFiniteSet(happened') /\ (failures \subseteq happened)' /\ Numbered'
  BY LimiterAssumption DEF LimiterInv, LimiterTypeOK, Numbered, Tick
<1>2. RowsKept'
  BY <1>0, LimiterSizes DEF LimiterInv, RowsKept, Tick
<1>3. ASSUME NEW p \in {Short, Long}
      PROVE  Count(happened, p)' + Cardinality(checking)' <= p.attempts + Cardinality(Client) - 1
  <2>1. Within(happened, p.window)' \subseteq Within(happened, p.window)
    BY <1>0, LimiterSizes DEF Tick, Within
  <2>2. IsFiniteSet(Within(happened, p.window)) /\ Count(happened, p) \in Nat
    BY CountType DEF LimiterInv
  <2>3. Count(happened, p)' \in Nat /\ Count(happened, p)' <= Count(happened, p)
    BY <2>1, <2>2, FS_Subset, FS_CardinalityType DEF Count
  <2>4. Cardinality(checking)' = Cardinality(checking) /\ Cardinality(checking) \in Nat
    BY CheckingType DEF Tick
  <2> QED BY <2>2, <2>3, <2>4, LimiterSizes DEF LimiterInv, Room
<1> QED BY <1>1, <1>2, <1>3 DEF LimiterInv, Room

LEMMA RoomSuffices == LimiterInv => OverrunBounded
<1> SUFFICES ASSUME LimiterInv, NEW p \in {Short, Long}
             PROVE  Count(happened, p) <= p.attempts + Cardinality(Client) - 1
  BY DEF OverrunBounded
<1>1. Count(happened, p) \in Nat
  BY CountType DEF LimiterInv
<1> QED BY <1>1, CheckingType, LimiterSizes DEF LimiterInv, Room

LEMMA LimiterInvHolds == LimiterSpec => []LimiterInv
<1>1. LimiterInv /\ [LimiterNext]_limiterVars => LimiterInv'
  <2> SUFFICES ASSUME LimiterInv, [LimiterNext]_limiterVars PROVE LimiterInv'
    OBVIOUS
  <2>1. CASE UNCHANGED limiterVars
    BY <2>1 DEF limiterVars, LimiterInv, LimiterTypeOK, RowsKept, Numbered, Room, Count, Within
  <2>2. CASE Tick
    BY <2>2, TickInv
  <2>3. ASSUME NEW c \in Client, Check(c) \/ RecordFailure(c) \/ Succeed(c)
        PROVE  LimiterInv'
    BY <2>3, CheckInv, RecordInv, SucceedInv
  <2> QED BY <2>1, <2>2, <2>3 DEF LimiterNext
<1> QED BY <1>1, LimiterInitInv, PTL DEF LimiterSpec

\* The limiter's rows, clock and logins keep their types.
THEOREM LimiterTypes == LimiterSpec => []LimiterTypeOK
<1>1. LimiterInv => LimiterTypeOK
  BY DEF LimiterInv
<1> QED BY <1>1, LimiterInvHolds, PTL

\* Logins that run beside each other overrun no limit by more than the other
\* workers, for any policy and any number of workers.
THEOREM LimitHolds == LimiterSpec => []OverrunBounded
BY LimiterInvHolds, RoomSuffices, PTL
=============================================================================
