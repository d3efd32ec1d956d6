\* Two pools of up to three rows in words of two bits, one view at a time.
SPECIFICATION ViewSpec
CONSTANTS
  Entity = {e1, e2, e3}
  Value = {v1}
  Absent = Absent
  Component = {c1, c2}
  WordSize = 2
  MaxRunning = 1
INVARIANTS NoRowMissed InactiveNeverVisited
SYMMETRY Interchangeable
