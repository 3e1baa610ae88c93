--------------------------- MODULE MCPacketsAgent ---------------------------
(* The packets agent: calls while the probes are attached, calls with all  *)
(* probes, and the whole agent with few calls.                             *)
EXTENDS PacketsAgent, TLC

MCScenarios ==
  {[hooked |-> FALSE, start |-> FALSE, calls |-> 5, packets |-> 0],
   [hooked |-> TRUE, start |-> FALSE, calls |-> 6, packets |-> 0],
   [hooked |-> TRUE, start |-> TRUE, calls |-> 0, packets |-> 4],
   [hooked |-> TRUE, start |-> TRUE, calls |-> 2, packets |-> 0],
   [hooked |-> TRUE, start |-> TRUE, calls |-> 1, packets |-> 1]}

Symmetry == Permutations(Thread) \cup Permutations(SSL) \cup Permutations(Fd)
=============================================================================
