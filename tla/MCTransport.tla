----------------------------- MODULE MCTransport -----------------------------
(* Transport for TLC: two sends that share the one signal, or have none. *)
EXTENDS Transport
=============================================================================
