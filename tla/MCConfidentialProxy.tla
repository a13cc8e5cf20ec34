-------------------------- MODULE MCConfidentialProxy --------------------------
(* ConfidentialProxy for TLC. *)
EXTENDS ConfidentialProxy
=============================================================================
