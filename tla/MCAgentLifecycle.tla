-------------------------- MODULE MCAgentLifecycle --------------------------
(* Small instances of AgentLifecycle for TLC.                              *)
EXTENDS AgentLifecycle, TLC

\* Sessions, calls and generations are interchangeable; liveness runs use no symmetry.
Symmetry ==
  Permutations(Session) \cup Permutations(Caller) \cup Permutations(Releaser) \cup Permutations(Ref)
=============================================================================
