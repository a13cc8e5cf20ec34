----------------------------- MODULE MCAdapters -----------------------------
(* Adapters for TLC. *)
EXTENDS Adapters, TLC

\* Calls of one kind and chains are interchangeable.
Symmetry == Permutations(Sends) \cup Permutations(Chains)
=============================================================================
