---------------------------- MODULE MCAgentTree ----------------------------
(* AgentTree on small trees; the Subagents' ids are interchangeable.       *)
EXTENDS AgentTree, TLC

ChildSymmetry == Permutations(Children)
=============================================================================
