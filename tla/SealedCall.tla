----------------------------- MODULE SealedCall -----------------------------
(***************************************************************************)
(* What a confidential client promises the code that calls request(): an   *)
(* inner request is put on the wire at most once, sealed to one node that  *)
(* was attested, and the way the call ends tells the truth about whether   *)
(* the request may have run.  Pins, attestation flights, clocks and the    *)
(* gateway are hidden.                                                     *)
(***************************************************************************)
CONSTANTS Requests,  \* the invocations of request()
          Nodes,     \* the nodes behind the gateway
          None       \* no node

VARIABLES stage,     \* stage[c]: "open", "onwire" or "settled"
          sealedTo,  \* sealedTo[c]: the node request c was sealed to
          verdict,   \* verdict[c]: what the caller of c has been told
          answeredBy \* answeredBy[c]: the node that signed the answer to c

vars == <<stage, sealedTo, verdict, answeredBy>>

\* The verdicts: "answered" is an inner response, "norun" a failure with
\* executed "no", "unknown" any other failure, "aborted" signal.reason.

Init ==
    /\ stage = [c \in Requests |-> "open"]
    /\ sealedTo = [c \in Requests |-> None]
    /\ verdict = [c \in Requests |-> "none"]
    /\ answeredBy = [c \in Requests |-> None]

Send(c, n) ==
    /\ stage[c] = "open"
    /\ stage' = [stage EXCEPT ![c] = "onwire"]
    /\ sealedTo' = [sealedTo EXCEPT ![c] = n]
    /\ UNCHANGED <<verdict, answeredBy>>

\* Several calls can end together: they wait for the same attestation.
Settle(S, v) ==
    /\ stage' = [c \in Requests |-> IF c \in S THEN "settled" ELSE stage[c]]
    /\ verdict' = [c \in Requests |-> IF c \in S THEN v ELSE verdict[c]]
    /\ UNCHANGED sealedTo

FailUnsent ==
    /\ \E S \in SUBSET {c \in Requests : stage[c] = "open"} : Settle(S, "norun")
    /\ UNCHANGED answeredBy

Abort(c) ==
    /\ stage[c] # "settled"
    /\ Settle({c}, "aborted")
    /\ UNCHANGED answeredBy

\* Only the node that could open the request answers it.
Answer(c) ==
    /\ stage[c] = "onwire"
    /\ Settle({c}, "answered")
    /\ answeredBy' = [answeredBy EXCEPT ![c] = sealedTo[c]]

\* After the send: a refusal the gateway vouches for, or no word.
FailSent(c) ==
    /\ stage[c] = "onwire"
    /\ \E v \in {"norun", "unknown"} : Settle({c}, v)
    /\ UNCHANGED answeredBy

Next ==
    \/ FailUnsent
    \/ \E c \in Requests :
        \/ \E n \in Nodes : Send(c, n)
        \/ Abort(c)
        \/ Answer(c)
        \/ FailSent(c)

Spec == Init /\ [][Next]_vars
=============================================================================
