SPECIFICATION WorkspaceSpec
CONSTANTS
  Tabs = {b1, b2}
  ThreadIds = {t1, t2}
  QuickFirst = TRUE
  MaxTime = 4
  MaxIncidents = 0
INVARIANT SettledIsStored
CHECK_DEADLOCK FALSE
SYMMETRY MCSym
