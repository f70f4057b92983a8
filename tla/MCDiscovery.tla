---- MODULE MCDiscovery ----
EXTENDS ServiceDiscovery

\* The watcher follows nodes that only serve, or two standbys compete without a watcher.
MCInit ==
  /\ Init
  /\ \/ w = "new" /\ competes = {} /\ compacted = 0 /\ ranged # hasRewatch
     \/ w = "done" /\ competes = Nodes /\ compacted = 1 /\ ~ranged /\ ~hasRewatch

MCSpec == MCInit /\ [][Next]_vars /\ Fairness
====
