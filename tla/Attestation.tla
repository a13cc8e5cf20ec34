----------------------------- MODULE Attestation -----------------------------
(***************************************************************************)
(* One attestation end to end: attestNode and attest of                    *)
(* core/src/attestation.ts, verifyDstackAttestation and the default        *)
(* CloudVerifier of dstack-verify.  ConfidentialClient and TrustedVerifier *)
(* see only how it settles; here is what makes it settle so.               *)
(*                                                                         *)
(* attestNode races attest() against a deadline.  attest() makes a nonce,  *)
(* fetches evidence for it from the gateway, checks what the evidence says *)
(* of itself, and has the hardware verifier check the quote.  Losing the   *)
(* race does not stop attest(): it ends by its own timers.                 *)
(*                                                                         *)
(* The gateway may answer with any evidence, the quotes issued for other   *)
(* attempts and other nodes included.  Hardware issues quotes only for a   *)
(* nonce it was asked for, and the service vouches only for such quotes.   *)
(* The nonce of an attempt is the attempt itself: 32 random bytes do not   *)
(* repeat.  Keys and hashes stand for their lowercase hex: every           *)
(* comparison of the code lowercases both sides.                           *)
(***************************************************************************)
EXTENDS Naturals, FiniteSets

CONSTANTS Attempts,   \* invocations of attestNode
          Keys,       \* signing keys of the nodes
          Composes,   \* compose hashes
          None,       \* JavaScript's undefined, and the empty string
          Bad,        \* a value of the wrong shape
          MaxQuotes   \* bound on the quotes hardware issues

ASSUME ConstantsAssumption ==
    /\ None \notin Keys \cup Composes \cup Attempts
    /\ Bad \notin Keys \cup Composes \cup Attempts
    /\ None # Bad
    /\ MaxQuotes \in Nat

VARIABLES expects,   \* expectPubkey of attempt a, None in confidential mode
          quotes,    \* the quotes hardware has issued
          step,      \* where attest() is suspended
          evidence,  \* what attempt a handed to the hardware verifier
          outcome    \* how attestNode settled

vars == <<expects, quotes, step, evidence, outcome>>

Quotes == [key : Keys, nonce : Attempts, compose : Composes]

\* An answer of the attestation route: the vRPC-NodeId header, which a proxy
\* may repeat; the pubkey, None when the body lacks a field; the two halves of
\* report_data; the reported compose hash; the hash app_compose really has;
\* the quote, Bad when no hardware issued it.
Evidence == [nodeId : {"absent", "one", "list"},
             pubkey : Keys \cup {Bad, None},
             key : Keys \cup {Bad},
             nonce : Attempts,
             compose : Composes \cup {None},
             appCompose : Composes \cup {None},
             quote : quotes \cup {Bad}]

\* AttestationUnavailable and AttestationFailed; the reason is left out.
NoOutcome == [kind |-> "none", key |-> None, compose |-> None]
Unavailable == [kind |-> "unavailable", key |-> None, compose |-> None]
Failed == [kind |-> "failed", key |-> None, compose |-> None]
Proved(key, compose) == [kind |-> "proved", key |-> key, compose |-> compose]
NoEvidence == [key |-> None, compose |-> None, quote |-> Bad]

\* attestNode settles once: behind the deadline attest() settles in vain.
Settle(a, o) ==
    outcome' = IF outcome[a] = NoOutcome THEN [outcome EXCEPT ![a] = o] ELSE outcome

End(a, o) ==
    /\ step' = [step EXCEPT ![a] = "done"]
    /\ evidence' = [evidence EXCEPT ![a] = NoEvidence]
    /\ Settle(a, o)
    /\ UNCHANGED <<expects, quotes>>

-----------------------------------------------------------------------------
(* Fetching the evidence *)

Start(a) ==
    /\ step[a] = "idle"
    /\ step' = [step EXCEPT ![a] = "fetching"]
    /\ UNCHANGED <<expects, quotes, evidence, outcome>>

\* External: a node answers the nonce of an attempt that has sent it.
Issue(q) ==
    /\ step[q.nonce] # "idle"
    /\ q \notin quotes
    /\ Cardinality(quotes) < MaxQuotes
    /\ quotes' = quotes \cup {q}
    /\ UNCHANGED <<expects, step, evidence, outcome>>

\* No answer, one over the size cap, or one that is not 2xx.
FetchFails(a) ==
    /\ step[a] = "fetching"
    /\ End(a, Unavailable)

\* The checks of getAttestation, attest() and verifyDstackAttestation, in the
\* order the code makes them, on what the evidence says of itself.
Mismatch(a, e) == expects[a] # None /\ e.pubkey # expects[a]
\* CHK-A1: report_data names the key of the answer and the nonce of a.
ReportDataBinds(a, e) == e.key = e.pubkey /\ e.nonce = a
\* CHK-A2: app_compose has the reported hash, when both are there.
ComposeAgrees(e) == e.appCompose # None /\ e.compose # None => e.appCompose = e.compose

\* The checks before the hardware verifier is asked, in the code's order.
Refusal(a, e) ==
    IF e.nodeId = "list" \/ e.pubkey = None THEN Failed
    ELSE IF expects[a] = None /\ e.nodeId = "absent" THEN Unavailable
    ELSE IF e.pubkey = Bad THEN Failed
    ELSE IF Mismatch(a, e) THEN Failed
    ELSE IF ~ReportDataBinds(a, e) \/ ~ComposeAgrees(e) THEN Failed
    ELSE NoOutcome

\* Evidence that binds the expected key and the nonce goes to the hardware
\* verifier, which posts its quote.
FetchAnswers(a, e) ==
    /\ step[a] = "fetching"
    /\ \/ Refusal(a, e) # NoOutcome /\ End(a, Refusal(a, e))
       \/ /\ Refusal(a, e) = NoOutcome
          /\ step' = [step EXCEPT ![a] = "posting"]
          /\ evidence' = [evidence EXCEPT ![a] =
                [key |-> e.pubkey, compose |-> e.compose, quote |-> e.quote]]
          /\ UNCHANGED <<expects, quotes, outcome>>

-----------------------------------------------------------------------------
(* The hardware verifier: one post and the reading of its answer, both     *)
(* under one timer                                                         *)

HardwareAccepts(a) ==
    /\ step[a] = "posting"
    /\ step' = [step EXCEPT ![a] = "reading"]
    /\ UNCHANGED <<expects, quotes, evidence, outcome>>

\* Not 2xx: 5xx, 429 and 408 are an outage, the rest a refusal.
HardwareRefuses(a) ==
    /\ step[a] = "posting"
    /\ \/ End(a, Unavailable)
       \/ End(a, Failed)

\* No answer, or a body that cannot be read or parsed.  It may happen at the
\* same steps as the timeout below, but nothing makes it happen.
HardwareFails(a) ==
    /\ step[a] \in {"posting", "reading"}
    /\ End(a, Unavailable)

\* Fault: the timer is cleared once the headers are in.
HardwareTimeoutHeaders(a) == step[a] = "posting" /\ End(a, Unavailable)

HardwareTimeout(a) ==
    /\ step[a] \in {"posting", "reading"}
    /\ End(a, Unavailable)

\* The verdict of the service on a genuine quote is bound to the key, the
\* nonce and the compose hash of this attempt.  Fault: it is not bound to
\* the first two.
AnyQuote(a, q) == q # Bad /\ q.compose = evidence[a].compose
Binds(a, q) ==
    /\ q # Bad
    /\ q.key = evidence[a].key
    /\ q.nonce = a
    /\ q.compose = evidence[a].compose

HardwareAnswers(a) ==
    /\ step[a] = "reading"
    /\ \/ End(a, Failed)
       \/ /\ Binds(a, evidence[a].quote)
          /\ End(a, Proved(evidence[a].key, evidence[a].compose))

-----------------------------------------------------------------------------
(* The deadline *)

\* It settles attestNode, and its signal ends a fetch under way; a hardware
\* verifier takes no signal and goes on.
Deadline(a) ==
    /\ step[a] # "idle"
    /\ outcome[a] = NoOutcome
    /\ outcome' = [outcome EXCEPT ![a] = Unavailable]
    /\ step' = [step EXCEPT ![a] = IF @ = "fetching" THEN "done" ELSE @]
    /\ UNCHANGED <<expects, quotes, evidence>>

-----------------------------------------------------------------------------

Init ==
    /\ expects \in [Attempts -> Keys \cup {None}]
    /\ quotes = {}
    /\ step = [a \in Attempts |-> "idle"]
    /\ evidence = [a \in Attempts |-> NoEvidence]
    /\ outcome = [a \in Attempts |-> NoOutcome]

Next ==
    \/ \E q \in Quotes : Issue(q)
    \/ \E a \in Attempts :
        \/ Start(a)
        \/ FetchFails(a)
        \/ \E e \in Evidence : FetchAnswers(a, e)
        \/ HardwareAccepts(a)
        \/ HardwareRefuses(a)
        \/ HardwareFails(a)
        \/ HardwareTimeout(a)
        \/ HardwareAnswers(a)
        \/ Deadline(a)

\* Timers fire; the gateway and the service owe nothing.
Fairness == \A a \in Attempts : WF_vars(Deadline(a)) /\ WF_vars(HardwareTimeout(a))

Spec == Init /\ [][Next]_vars /\ Fairness

-----------------------------------------------------------------------------
(* Correctness *)

Outcomes == [kind : {"none", "unavailable", "failed", "proved"},
             key : Keys \cup {None}, compose : Composes \cup {None}]

\* An attempt is at one of attest()'s awaits and settles with one of attestNode's
\* outcomes; what it holds for the hardware verifier is evidence of known shape.
TypeOK ==
    /\ expects \in [Attempts -> Keys \cup {None}]
    /\ quotes \subseteq Quotes
    /\ step \in [Attempts -> {"idle", "fetching", "posting", "reading", "done"}]
    /\ evidence \in [Attempts -> [key : Keys \cup {None}, compose : Composes \cup {None},
                                  quote : Quotes \cup {Bad}]]
    /\ outcome \in [Attempts -> Outcomes]

\* An attestation succeeds only with a quote hardware issued for the nonce of
\* this very attempt, over the key it reports, which is the key the caller
\* expected, on the compose it reports (attestation.ts 194-236,
\* cloud-verifier.ts 112-149).
ProvedIsGenuine ==
    \A a \in Attempts : outcome[a].kind = "proved" =>
        /\ [key |-> outcome[a].key, nonce |-> a, compose |-> outcome[a].compose] \in quotes
        /\ expects[a] \in {outcome[a].key, None}

\* No attestation leaves work behind, however silent the gateway and the
\* service are: each attest() that starts also ends, not only its caller's
\* wait for it.
NothingIsLeftRunning ==
    \A a \in Attempts : step[a] = "fetching" ~> step[a] = "done" /\ outcome[a] # NoOutcome
=============================================================================
