-------------------------- MODULE MCTrustedVerifier --------------------------
(* TrustedVerifier for TLC. *)
EXTENDS TrustedVerifier, TLC

\* Calls and signers are interchangeable.
Symmetry == Permutations(Calls) \cup Permutations(Signers)
=============================================================================
