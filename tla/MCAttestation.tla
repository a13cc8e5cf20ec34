---------------------------- MODULE MCAttestation ----------------------------
(* Attestation for TLC: two attempts whose evidence may be mixed up. *)
EXTENDS Attestation
=============================================================================
