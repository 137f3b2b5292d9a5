SPECIFICATION FairSpec
CONSTANTS
  File = {f, g}
  Request = {r1, r2}
  MaxSaves = 2
INVARIANTS TypeOK FinalSyncIfCommitted
PROPERTY SavesReachACommit
CHECK_DEADLOCK FALSE
