----------------------------- MODULE MCAgentRun -----------------------------
(* Small instances of AgentRun for TLC. *)
EXTENDS AgentRun, TLC

\* Requests are interchangeable.
Symmetry == Permutations(Requests)
=============================================================================
