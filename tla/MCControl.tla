----------------------------- MODULE MCControl -----------------------------
(* Instances of Control for TLC.  Endpoint ids, request ids and names of one *)
(* kind, are interchangeable where the sets of keys do not overlap.          *)
EXTENDS Control, TLC

NodeSymmetry == Permutations(ClientKeys) \cup Permutations(EdgeKeys) \cup Permutations(ClientNames)
                  \cup Permutations(RequestIds)
RelaySymmetry == Permutations(RelayKeys) \cup Permutations(RelayNames) \cup Permutations(Urls)
                   \cup Permutations(RequestIds)
=============================================================================
