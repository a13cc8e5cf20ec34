------------------------- MODULE AttestationProofs --------------------------
(***************************************************************************)
(* Proofs about Attestation, for every set of attempts, keys, compose      *)
(* hashes and bound on quotes.  The invariant adds to the checked one what *)
(* is known of evidence under verification: its quote is one hardware      *)
(* issued, or none at all, and its key is the one the caller expects.      *)
(***************************************************************************)
EXTENDS Attestation, TLAPS

EvidenceIsKnown == \A a \in Attempts : evidence[a].quote \in quotes \cup {Bad}

EvidenceIsExpected ==
    \A a \in Attempts : step[a] \in {"posting", "reading"} =>
        /\ evidence[a].key \in Keys
        /\ expects[a] \in {evidence[a].key, None}

Inv == TypeOK /\ EvidenceIsKnown /\ EvidenceIsExpected /\ ProvedIsGenuine

\* The records End and FetchAnswers store.
LEMMA OutcomeTypes ==
    /\ NoOutcome \in Outcomes
    /\ Unavailable \in Outcomes
    /\ Failed \in Outcomes
    /\ \A k \in Keys, c \in Composes : Proved(k, c) \in Outcomes
BY DEF NoOutcome, Unavailable, Failed, Proved, Outcomes

LEMMA Initially == Init => Inv
BY OutcomeTypes
   DEF Init, Inv, TypeOK, EvidenceIsKnown, EvidenceIsExpected, ProvedIsGenuine, NoEvidence, NoOutcome

\* An attempt that ends without a proof, or with one of a genuine quote,
\* keeps the invariant.
LEMMA EndKeeps ==
    ASSUME Inv, NEW a \in Attempts, NEW o \in Outcomes, End(a, o),
           o.kind = "proved" =>
               /\ [key |-> o.key, nonce |-> a, compose |-> o.compose] \in quotes
               /\ expects[a] \in {o.key, None}
    PROVE  Inv'
<1> USE DEF Inv
<1>1. /\ step' = [step EXCEPT ![a] = "done"]
      /\ evidence' = [evidence EXCEPT ![a] = NoEvidence]
      /\ expects' = expects /\ quotes' = quotes
      /\ \A b \in Attempts : outcome'[b] = outcome[b] \/ (b = a /\ outcome'[b] = o)
  BY DEF End, Settle, TypeOK
<1>2. NoEvidence \in [key : Keys \cup {None}, compose : Composes \cup {None},
                      quote : Quotes \cup {Bad}]
  BY DEF NoEvidence
<1>3. outcome' \in [Attempts -> Outcomes]
  BY DEF End, Settle, TypeOK
<1>4. TypeOK'
  BY <1>1, <1>2, <1>3 DEF TypeOK
<1>5. EvidenceIsKnown'
  BY <1>1 DEF EvidenceIsKnown, NoEvidence, TypeOK
<1>6. EvidenceIsExpected'
  BY <1>1 DEF EvidenceIsExpected, TypeOK
<1>7. ProvedIsGenuine'
  BY <1>1 DEF ProvedIsGenuine
<1> QED BY <1>4, <1>5, <1>6, <1>7

LEMMA StepKeeps == Inv /\ [Next]_vars => Inv'
<1> SUFFICES ASSUME Inv, [Next]_vars PROVE Inv'
  OBVIOUS
<1> USE DEF Inv
<1>1. CASE UNCHANGED vars
  BY <1>1 DEF vars, TypeOK, EvidenceIsKnown, EvidenceIsExpected, ProvedIsGenuine
<1>2. ASSUME NEW q \in Quotes, Issue(q) PROVE Inv'
  <2>1. TypeOK'
    BY <1>2 DEF Issue, TypeOK
  <2>2. EvidenceIsKnown'
    BY <1>2 DEF Issue, EvidenceIsKnown
  <2>3. EvidenceIsExpected' /\ ProvedIsGenuine'
    BY <1>2 DEF Issue, EvidenceIsExpected, ProvedIsGenuine
  <2> QED BY <2>1, <2>2, <2>3
<1>3. ASSUME NEW a \in Attempts, Start(a) PROVE Inv'
  BY <1>3 DEF Start, TypeOK, EvidenceIsKnown, EvidenceIsExpected, ProvedIsGenuine
<1>4. ASSUME NEW a \in Attempts, End(a, Unavailable) \/ End(a, Failed) PROVE Inv'
  <2>1. Unavailable.kind # "proved" /\ Failed.kind # "proved"
    BY DEF Unavailable, Failed
  <2> QED BY <1>4, <2>1, OutcomeTypes, EndKeeps
<1>5. ASSUME NEW a \in Attempts, NEW e \in Evidence, FetchAnswers(a, e) PROVE Inv'
  <2>1. CASE Refusal(a, e) # NoOutcome
    <3>1. Refusal(a, e) \in {Unavailable, Failed}
      BY <2>1 DEF Refusal
    <3> QED BY <1>4, <1>5, <2>1, <3>1 DEF FetchAnswers
  <2>2. CASE Refusal(a, e) = NoOutcome
    <3> DEFINE ev == [key |-> e.pubkey, compose |-> e.compose, quote |-> e.quote]
    <3>1. NoOutcome # Unavailable /\ NoOutcome # Failed
      BY DEF NoOutcome, Unavailable, Failed
    <3>2. /\ e.pubkey \in Keys
          /\ expects[a] \in {e.pubkey, None}
          /\ e.compose \in Composes \cup {None}
          /\ e.quote \in quotes \cup {Bad}
      BY <2>2, <3>1 DEF Refusal, Mismatch, Evidence
    <3>3. ev \in [key : Keys \cup {None}, compose : Composes \cup {None},
                  quote : Quotes \cup {Bad}]
      BY <3>2 DEF TypeOK
    <3>4. /\ step' = [step EXCEPT ![a] = "posting"]
          /\ evidence' = [evidence EXCEPT ![a] = ev]
          /\ UNCHANGED <<expects, quotes, outcome>>
      BY <1>5, <2>2 DEF FetchAnswers
    <3>5. ev.key = e.pubkey /\ ev.quote = e.quote
      OBVIOUS
    <3> HIDE DEF ev
    <3>6. TypeOK'
      BY <3>3, <3>4 DEF TypeOK
    <3>7. EvidenceIsKnown'
      BY <3>2, <3>4, <3>5 DEF EvidenceIsKnown, TypeOK
    <3>8. EvidenceIsExpected'
      BY <3>2, <3>4, <3>5 DEF EvidenceIsExpected, TypeOK
    <3>9. ProvedIsGenuine'
      BY <3>4 DEF ProvedIsGenuine
    <3> QED BY <3>6, <3>7, <3>8, <3>9
  <2> QED BY <2>1, <2>2
<1>6. ASSUME NEW a \in Attempts, HardwareAccepts(a) PROVE Inv'
  BY <1>6 DEF HardwareAccepts, TypeOK, EvidenceIsKnown, EvidenceIsExpected, ProvedIsGenuine
<1>7. ASSUME NEW a \in Attempts, HardwareAnswers(a) PROVE Inv'
  <2>1. CASE End(a, Failed)
    BY <1>4, <2>1
  <2>2. CASE /\ Binds(a, evidence[a].quote)
             /\ End(a, Proved(evidence[a].key, evidence[a].compose))
    <3> DEFINE q == evidence[a].quote
               o == Proved(evidence[a].key, evidence[a].compose)
    <3>1. q \in quotes /\ q \in Quotes
      BY <2>2 DEF Binds, EvidenceIsKnown, TypeOK
    <3>2. q.key \in Keys /\ q.compose \in Composes
      BY <3>1 DEF Quotes
    <3>3. q = [key |-> evidence[a].key, nonce |-> a, compose |-> evidence[a].compose]
      BY <2>2, <3>1 DEF Binds, Quotes
    <3>4. o \in Outcomes
      BY <2>2, <3>2, OutcomeTypes DEF Binds
    <3>5. o.key = evidence[a].key /\ o.compose = evidence[a].compose
      BY DEF Proved
    <3>6. expects[a] \in {evidence[a].key, None}
      BY <1>7 DEF HardwareAnswers, EvidenceIsExpected
    <3> QED BY <2>2, <3>1, <3>3, <3>4, <3>5, <3>6, EndKeeps
  <2> QED BY <1>7, <2>1, <2>2 DEF HardwareAnswers
<1>8. ASSUME NEW a \in Attempts, Deadline(a) PROVE Inv'
  <2>1. TypeOK'
    BY <1>8, OutcomeTypes DEF Deadline, TypeOK
  <2>2. EvidenceIsKnown'
    BY <1>8 DEF Deadline, EvidenceIsKnown
  <2>3. EvidenceIsExpected'
    BY <1>8 DEF Deadline, EvidenceIsExpected, TypeOK
  <2>4. ProvedIsGenuine'
    BY <1>8 DEF Deadline, ProvedIsGenuine, TypeOK, Unavailable
  <2> QED BY <2>1, <2>2, <2>3, <2>4
<1> QED
  BY <1>1, <1>2, <1>3, <1>4, <1>5, <1>6, <1>7, <1>8
     DEF Next, FetchFails, HardwareRefuses, HardwareFails, HardwareTimeout

LEMMA Invariance == Spec => []Inv
BY Initially, StepKeeps, PTL DEF Spec

\* Every variable keeps its type.
THEOREM TypeCorrect == Spec => []TypeOK
BY Invariance, PTL DEF Inv

\* A proved attestation rests on a quote hardware issued for its own nonce,
\* over the key the caller expected and the compose hash it reports.
THEOREM ProofIsGenuine == Spec => []ProvedIsGenuine
BY Invariance, PTL DEF Inv
=============================================================================
