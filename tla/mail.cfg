SPECIFICATION FairSpec
CONSTANTS
  Worker = {w1, w2}
  Record = {rec}
  Once = {notice}
  Reminder = {before, after}
  Nobody = Nobody
  MaxFaults = 1
INVARIANTS
  TypeOK
  NoRepeat
PROPERTIES
  DispatchesInTurn
  RecordsArrive
  RemindersClaimed
