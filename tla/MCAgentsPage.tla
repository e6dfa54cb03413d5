----------------------------- MODULE MCAgentsPage -----------------------------
(* AgentsPage on small sets, for TLC: ids are interchangeable. *)
EXTENDS AgentsPage, TLC

Symmetry == Permutations(Agent)
===============================================================================
