-------------------------- MODULE MCServiceRegistry --------------------------
(* Model values for ServiceRegistry.  Nodes and addresses are interchangeable. *)
(* A run that checks liveness takes no symmetry set; addresses are only        *)
(* compared, so it may still fix that of one node.                             *)
EXTENDS ServiceRegistry, TLC

CONSTANTS firstNode, firstAddress

ASSUME MCAssumption == firstNode \in Nodes /\ firstAddress \in Addresses

MCInit == Init /\ address[firstNode] = firstAddress

MCFairSpec == MCInit /\ [][Next]_vars /\ Fairness

RegistrySymmetry == Permutations(Nodes) \cup Permutations(Addresses)
=============================================================================
