SPECIFICATION Spec
CONSTANTS
  Calls = {c1, c2}
  Egresses = {e1, e2}
  NoEgress = NoEgress
  MaxFaults = 0
SYMMETRY Symmetry
INVARIANT OneRecording
CHECK_DEADLOCK FALSE
