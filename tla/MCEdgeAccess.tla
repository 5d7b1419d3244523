---------------------------- MODULE MCEdgeAccess ----------------------------
(* An instance of EdgeAccess for TLC, without symmetry: a liveness property is *)
(* checked as well.                                                           *)
EXTENDS EdgeAccess
=============================================================================
