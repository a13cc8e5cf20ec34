------------------------ MODULE MCConfidentialClient ------------------------
(* Instances of ConfidentialClient for TLC. *)
EXTENDS ConfidentialClient, TLC

Symmetry == Permutations(Requests) \cup Permutations(Readies) \cup Permutations(Nodes)
=============================================================================
