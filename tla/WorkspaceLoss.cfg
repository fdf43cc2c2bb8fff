SPECIFICATION WorkspaceSpec
CONSTANTS
  Tabs = {b1, b2}
  ThreadIds = {t1, t2}
  QuickFirst = FALSE
  MaxTime = 2
  MaxIncidents = 1
INVARIANT LossIsAlerted
CHECK_DEADLOCK FALSE
SYMMETRY MCSym
