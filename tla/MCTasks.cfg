SPECIFICATION Spec
CONSTANTS
  Names = {n1}
  Plain = {d1}
  Clis = {c1}
  Tuis = {tui}
  Bridges = {bridge}
  MaxRuns = 1
  None = None
INVARIANT TypeOK WorktreesAccounted AgentsAccounted InTaskDir RunsRecorded
PROPERTY TaskIsStable DeletesOnlyItsOwn
