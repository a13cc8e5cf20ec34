----------------------------- MODULE MCVerification -----------------------------
(* Verification for TLC: a chain id of each kind validateChainId tells apart. *)
EXTENDS Verification, TLC

CONSTANTS A, B

Letters == {A, B}
Configured == {<<Space, A, Space>>, <<Space>>, <<Wide>>, <<A, B, A>>}
Served == {<<A>>, <<B>>}

\* The payloads and the keys are interchangeable.
Symmetry == Permutations(Requests) \cup Permutations(Bodies) \cup Permutations(Keys)
=============================================================================
