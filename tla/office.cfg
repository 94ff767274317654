CONSTANTS
  Clerk = {c1, c2}
  MaxJobs = 3
  None = None
  Editor = {e1, e2}
  Case = {1, 2}
  MaxVersion = 3
  PageSize = 1
  Submission = {s1, s2}
  Officer = {1, 2}
  Transaction = {t1, t2}
  FormRow = FormRow
  Free = Free
  MaxOperations = 5
  StepId = {a, b, c}
  Initial = a
  NoStep = NoStep
  Worker = {w1, w2}
  File = {f}
  MaxSave = 4
  Client = {k1, k2, k3}
  Short <- ShortPolicy
  Long <- LongPolicy
  MaxTime = 6
  MaxFailures = 7
SPECIFICATION OfficeSpec
INVARIANTS DecisionPerVisit OneOfEach BoundToPublished HistoryChains DealtEvenly
INVARIANTS VerdictRight RehearsalHolds SavedFilesFound OverrunBounded
PROPERTIES AssignmentsAreSerial EngineFollowsGraph ResumeOnlyBlocked EventuallyCurrent TransactionsEnd LoopsEnd
CHECK_DEADLOCK FALSE
