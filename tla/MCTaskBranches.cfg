SPECIFICATION BranchSpec
CONSTANTS
  Names = {n1}
  Plain = {d1}
  Clis = {cli}
  Tuis = {}
  Bridges = {}
  MaxRuns = 1
  None = None
PROPERTY BranchIsDropped
CHECK_DEADLOCK FALSE
