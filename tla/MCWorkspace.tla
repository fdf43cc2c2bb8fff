---- MODULE MCWorkspace ----
EXTENDS Workspace
MCSym == Permutations(Tabs)
====
