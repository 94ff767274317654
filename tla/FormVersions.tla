---------------------------- MODULE FormVersions ----------------------------
(* The versions of one form and the submissions bound to them.             *)
(*                                                                          *)
(* A draft is cloned and published under the lock of the Form row; archiving *)
(* and deleting take none, and every route works on a version row it loaded  *)
(* before.  A publication archives its predecessor; its submissions follow   *)
(* in pages, in transactions of their own that may stop half way, or one by  *)
(* one as their participants open them.                                     *)
(*                                                                          *)
(* What a version defines, and that an editor may still write the draft it   *)
(* loaded once that is published, is left out.                              *)
EXTENDS Integers, FiniteSets

CONSTANTS
  Editor,     \* requests of the form's editors
  Case,       \* submissions of the form; numbers, their ids
  MaxVersion, \* bound: versions made
  PageSize    \* submissions in a page of the synchronisation

ASSUME VersionAssumption ==
  /\ Case \subseteq Nat /\ IsFiniteSet(Case)
  /\ MaxVersion \in Nat \ {0}
  /\ PageSize \in Nat \ {0}

VARIABLES
  status,  \* FormVersion.status; "none" before it is made, "gone" when deleted
  editing, \* what an editor's request does, and to which version
  bound,   \* FormSubmission.form_version_id of those made so far; 0 is NULL
  page     \* the version a participant's request has in hand; 0 is none

versionVars == <<status, editing, bound, page>>

Version == 1..MaxVersion
With(s) == {v \in Version : status[v] = s}
EditorTask == {"idle", "publish", "sync", "page", "archive", "delete"}

VersionsTypeOK ==
  /\ status \in [Version -> {"none", "draft", "published", "archived", "gone"}]
  /\ editing \in [Editor -> [task : EditorTask, version : Version]]
  /\ DOMAIN bound \subseteq Case
  /\ \A c \in DOMAIN bound : bound[c] \in Version \cup {0}
  /\ page \in [Case -> Version \cup {0}]

VersionsInit ==
  /\ status = [v \in Version |-> IF v = 1 THEN "draft" ELSE "none"]
  /\ editing = [e \in Editor |-> [task |-> "idle", version |-> 1]]
  /\ bound = [c \in {} |-> 0]
  /\ page = [c \in Case |-> 0]

Doing(e, t, v) == editing' = [editing EXCEPT ![e] = [task |-> t, version |-> v]]
Stop(e) == Doing(e, "idle", 1)
Is(e, t) == editing[e].task = t

---------------------------------------------------------------------------
\* clone_to_draft, under the Form lock.
CloneToDraft_Unchecked(e) ==
  /\ Is(e, "idle")
  /\ With("published") \cup With("archived") # {}
  /\ \E v \in With("none") :
       /\ \A w \in With("none") : v <= w
       /\ status' = [status EXCEPT ![v] = "draft"]
  /\ UNCHANGED <<editing, bound, page>>
CloneToDraft(e) ==
  /\ Is(e, "idle")
  /\ With("published") \cup With("archived") # {}
  /\ With("draft") = {}
  /\ \E v \in With("none") :
       /\ \A w \in With("none") : v <= w
       /\ status' = [status EXCEPT ![v] = "draft"]
  /\ UNCHANGED <<editing, bound, page>>

\* form_version_publish loads the version; publish locks the Form row and the
\* version's, but judges the status it has loaded.
LoadForPublish(e) ==
  /\ Is(e, "idle")
  /\ \E v \in With("draft") : Doing(e, "publish", v)
  /\ UNCHANGED <<status, bound, page>>
Publish_KeepsPrevious(e) ==
  /\ Is(e, "publish") /\ status[editing[e].version] # "gone"
  /\ status' = [status EXCEPT ![editing[e].version] = "published"]
  /\ Doing(e, "sync", editing[e].version)
  /\ UNCHANGED <<bound, page>>
Publish(e) ==
  /\ Is(e, "publish") /\ status[editing[e].version] # "gone"
  /\ status' = [v \in Version |->
                  IF v = editing[e].version THEN "published"
                  ELSE IF v \in With("published") THEN "archived" ELSE status[v]]
  /\ Doing(e, "sync", editing[e].version)
  /\ UNCHANGED <<bound, page>>
\* "Retry the synchronisation" of a published version.
RetrySync(e) ==
  /\ Is(e, "idle")
  /\ \E v \in With("published") : Doing(e, "sync", v)
  /\ UNCHANGED <<status, bound, page>>

\* synchronize_published_submissions: a transaction checks the version, then
\* locks and moves a page of the rows that are not on it yet.
StartPage(e) ==
  /\ Is(e, "sync") /\ status[editing[e].version] = "published"
  /\ Doing(e, "page", editing[e].version)
  /\ UNCHANGED <<status, bound, page>>
FirstOf(S) == {c \in S : Cardinality({d \in S : d < c}) < PageSize}
MovePage(e) ==
  LET v == editing[e].version
      rows == FirstOf({c \in DOMAIN bound : bound[c] # v})
  IN  /\ Is(e, "page") /\ status[v] # "gone"
      /\ \A c \in rows : page[c] = 0  \* waits for rows that are locked
      /\ bound' = [c \in DOMAIN bound |-> IF c \in rows THEN v ELSE bound[c]]
      /\ (IF rows = {} THEN Stop(e) ELSE Doing(e, "sync", v))
      /\ UNCHANGED <<status, page>>
\* The synchronisation fails, finds its version replaced, or the worker dies.
Abandon(e) ==
  /\ ~Is(e, "idle")
  /\ Stop(e)
  /\ UNCHANGED <<status, bound, page>>

\* archive and delete_draft judge the version they loaded, and lock nothing.  A
\* submission of a deleted version has none (ON DELETE SET NULL).
LoadForArchive(e) ==
  /\ Is(e, "idle")
  /\ \E v \in With("published") : Doing(e, "archive", v)
  /\ UNCHANGED <<status, bound, page>>
Archive(e) ==
  /\ Is(e, "archive") /\ status[editing[e].version] # "gone"
  /\ status' = [status EXCEPT ![editing[e].version] = "archived"]
  /\ Stop(e)
  /\ UNCHANGED <<bound, page>>
LoadForDelete(e) ==
  /\ Is(e, "idle")
  /\ \E v \in With("draft") : Doing(e, "delete", v)
  /\ UNCHANGED <<status, bound, page>>
DeleteDraft_KeepsLinks(e) ==
  LET v == editing[e].version IN
    /\ Is(e, "delete") /\ status[v] # "gone"
    /\ status' = [status EXCEPT ![v] = "gone"]
    /\ Stop(e)
    /\ UNCHANGED <<bound, page>>
DeleteDraft(e) ==
  LET v == editing[e].version IN
    /\ Is(e, "delete") /\ status[v] # "gone"
    /\ status' = [status EXCEPT ![v] = "gone"]
    /\ bound' = [c \in DOMAIN bound |-> IF bound[c] = v THEN 0 ELSE bound[c]]
    /\ Stop(e)
    /\ UNCHANGED page

---------------------------------------------------------------------------
\* The form is rendered from the published version; a submission is bound to
\* the rendered one, if that is still published or archived.
Render(c) ==
  /\ c \notin DOMAIN bound
  /\ \E v \in With("published") : page' = [page EXCEPT ![c] = v]
  /\ UNCHANGED <<status, editing, bound>>
Submit(c) ==
  /\ c \notin DOMAIN bound
  /\ page[c] \in With("published") \cup With("archived")
  /\ bound' = [d \in DOMAIN bound \cup {c} |-> IF d = c THEN page[c] ELSE bound[d]]
  /\ page' = [page EXCEPT ![c] = 0]
  /\ UNCHANGED <<status, editing>>

\* Participant access and the office's page lock the submission, look for the
\* published version and move the submission there.
Open(c) ==
  /\ c \in DOMAIN bound /\ page[c] = 0
  /\ bound[c] # 0
  /\ \E v \in With("published") : page' = [page EXCEPT ![c] = v]
  /\ UNCHANGED <<status, editing, bound>>
Upgrade_Skipped(c) ==
  /\ c \in DOMAIN bound /\ page[c] # 0
  /\ page' = [page EXCEPT ![c] = 0]
  /\ UNCHANGED <<status, editing, bound>>
Upgrade(c) ==
  /\ c \in DOMAIN bound /\ page[c] # 0
  /\ bound' = IF status[page[c]] = "gone" THEN bound
                                         ELSE [bound EXCEPT ![c] = page[c]]
  /\ page' = [page EXCEPT ![c] = 0]
  /\ UNCHANGED <<status, editing>>

---------------------------------------------------------------------------
EditorStep(e) ==
  \/ CloneToDraft(e) \/ LoadForPublish(e) \/ Publish(e) \/ RetrySync(e)
  \/ StartPage(e) \/ MovePage(e) \/ Abandon(e)
  \/ LoadForArchive(e) \/ Archive(e) \/ LoadForDelete(e) \/ DeleteDraft(e)

VersionsNext ==
  \/ \E e \in Editor : EditorStep(e)
  \/ \E c \in Case : Render(c) \/ Submit(c) \/ Open(c) \/ Upgrade(c)

\* Participants come back; a request with a row lock ends.
VersionsFairness ==
  \A c \in Case : WF_versionVars(Open(c)) /\ WF_versionVars(Upgrade(c))

VersionsSpec == VersionsInit /\ [][VersionsNext]_versionVars
VersionsFairSpec == VersionsSpec /\ VersionsFairness

---------------------------------------------------------------------------
(* Properties. *)

\* At most one version is published and at most one is a draft, although a
\* publication judges a status that may be old.
OneOfEach ==
  Cardinality(With("published")) <= 1 /\ Cardinality(With("draft")) <= 1

\* A submission is never bound to a draft or to a version that is gone.
BoundToPublished ==
  \A c \in DOMAIN bound :
    bound[c] # 0 => bound[c] \in With("published") \cup With("archived")

\* However a synchronisation fails or falls behind another, the submissions end
\* on the published version if their participants keep opening them.
EventuallyCurrent ==
  <>[](\A c \in DOMAIN bound :
         With("published") = {} \/ bound[c] \in With("published") \cup {0})
=============================================================================
