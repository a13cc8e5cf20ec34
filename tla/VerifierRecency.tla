--------------------------- MODULE VerifierRecency ---------------------------
(***************************************************************************)
(* TrustedVerifier with one history variable: the signers in the order in  *)
(* which verify() last used them, by a hit or by a store.                  *)
(***************************************************************************)
EXTENDS TrustedVerifier, Sequences

VARIABLE recency  \* least recently used signer first

Touch(k) == Append(SelectSeq(recency, LAMBDA j : j # k), k)

RecencyInit == Init /\ recency = <<>>

RecencyNext ==
    \/ /\ Next
       /\ UNCHANGED <<cache, recency>>
       /\ \A c \in Calls, k \in Signers : ~Hit(c, k)
    \/ \E c \in Calls, k \in Signers : Hit(c, k) /\ recency' = Touch(k)
    \/ \E d \in Calls : Proves(d) /\ cache' # cache /\ recency' = Touch(signer[d])

RecencySpec == RecencyInit /\ [][RecencyNext]_<<vars, recency>>

\* "Max distinct verified pubkeys cached before LRU eviction"
\* (trusted-verifier.ts 38): a set() that evicts another key evicts the one
\* used least recently.
EvictsLeastRecentlyUsed ==
    [][\A d \in cache \ cache', e \in cache :
        signer[d] # signer[e] /\ (\A f \in cache' \ cache : signer[f] # signer[d]) =>
            \E i, j \in DOMAIN recency :
                recency[i] = signer[d] /\ recency[j] = signer[e] /\ i < j]_<<vars, recency>>
=============================================================================
