SPECIFICATION FairSpec
CONSTANTS
  Calls = {c1, c2, c3}
  Egresses = {e1, e2}
  NoEgress = NoEgress
  MaxFaults = 1
CONSTRAINT InTurn
INVARIANTS RowTruthful NoOrphans
PROPERTIES FinalForGood ImplementsRecordingLifecycle HookSettles EndIsTold
CHECK_DEADLOCK FALSE
