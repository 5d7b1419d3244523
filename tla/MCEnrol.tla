------------------------------ MODULE MCEnrol ------------------------------
(* TLC instance of Enrol. *)
EXTENDS Enrol

=============================================================================
