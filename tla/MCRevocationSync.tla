-------------------------- MODULE MCRevocationSync --------------------------
(* Instances of RevocationSync for TLC: one Relay, since Relays do not meet. *)
EXTENDS RevocationSync
=============================================================================
