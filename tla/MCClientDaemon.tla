---------------------------- MODULE MCClientDaemon ----------------------------
EXTENDS ClientDaemon, TLC

Symmetry == Permutations(Ids) \cup Permutations(Requests)
===============================================================================
