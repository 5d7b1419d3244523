--------------------------- MODULE MCControlCommit ---------------------------
(* An instance of ControlCommit for TLC: a node and a Relay, no symmetry, since *)
(* a liveness property is checked.                                            *)
EXTENDS ControlCommit
==============================================================================
