---------------------------- MODULE MCOpenSession ----------------------------
(* OpenSession for TLC. *)
EXTENDS OpenSession, TLC

\* Calls of one kind and chains are interchangeable.
Symmetry == Permutations(Sends) \cup Permutations(Chains)
=============================================================================
