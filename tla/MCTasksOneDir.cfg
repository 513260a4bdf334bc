SPECIFICATION Spec
CONSTANTS
  Names = {n1, n2}
  Plain = {d1}
  Clis = {cli}
  Tuis = {tui}
  Bridges = {}
  MaxRuns = 1
  None = None
INVARIANT OneTaskPerDirectory
CHECK_DEADLOCK FALSE
