------------------------------ MODULE OpenProxy ------------------------------
(***************************************************************************)
(* The verifying proxy in open mode: createServer of proxy/src/server.ts   *)
(* and openHandler of proxy/src/pipeline.ts, over the TrustedVerifier that *)
(* all requests of the process share.                                      *)
(*                                                                         *)
(* Clients send requests over keep-alive connections, one at a time on     *)
(* each.  The proxy buffers a request, forwards it, buffers the answer,    *)
(* decodes a copy, has it verified, and relays the original bytes or an    *)
(* error.  A client may disconnect at any point; the upstream may fail, or *)
(* answer with anything: unsigned, undecodable, signed for other bytes.    *)
(*                                                                         *)
(* One request is one verify() call of TrustedVerifier.  A body on the     *)
(* wire is a text under a content coding; Bad stands for bytes that do not *)
(* decode, under a coding that is unknown or to more than maxBodyBytes.    *)
(***************************************************************************)
EXTENDS Naturals, FiniteSets

CONSTANTS Requests,     \* requests clients send
          Connections,  \* connections they are sent over
          Signers,      \* keys that sign responses
          Texts,        \* decoded response bodies
          Bodies,       \* response bodies on the wire that decode
          None,
          Bad,
          Ttl, Max, MaxTime  \* of TrustedVerifier

ASSUME NamesAssumption ==
    /\ None \notin Connections \cup Texts \cup Requests
    /\ Bad \notin Texts \cup Bodies \cup {None}
ASSUME BodiesAssumption == Bodies \subseteq [text : Texts, coding : {"identity", "gzip"}]

\* What TrustedVerifier assumes of its constants.
ASSUME VerifierAssumption ==
    /\ IsFiniteSet(Requests) /\ None \notin Signers
    /\ Ttl \in Nat \ {0} /\ Max \in Nat \ {0} /\ MaxTime \in Nat

VARIABLES stage,     \* where the handling of request r is
          on,        \* the connection r came over
          open,      \* whether a connection is open
          leftover,  \* whether unread body bytes lie in a connection
          answer,    \* what the upstream answered to r
          reply,     \* what was written to r's client
          trace      \* trace[d]: traceId of the error attestation d failed with

\* The state of TrustedVerifier.
VARIABLES now, cache, inflight, attestation, pc, signer, flight

front == <<on, open, leftover>>
verifier == <<now, cache, inflight, attestation, pc, signer, flight>>
vars == <<stage, on, open, leftover, answer, reply, trace,
          now, cache, inflight, attestation, pc, signer, flight>>

V == INSTANCE TrustedVerifier WITH Calls <- Requests

-----------------------------------------------------------------------------
(* Data *)

\* A signature names the request and the text it covers.  An answer may carry
\* a trace id of its own, named after its request.
Signatures == [req : Requests, text : Texts, signer : Signers]
Answers(r) == [body : Bodies \cup {Bad}, signature : Signatures \cup {None}, trace : {r, None}]
IsSigned(a) == a.signature # None
NoAnswer == [body |-> None, signature |-> None, trace |-> None]

\* What a client is given: bytes under a content-encoding header, or an error.
NoReply == [kind |-> "none", body |-> None, coding |-> None, trace |-> None]
Relayed(body, coding) == [kind |-> "relay", body |-> body, coding |-> coding, trace |-> None]
Error(id) == [kind |-> "error", body |-> None, coding |-> None, trace |-> id]

\* What the client makes of them.
Reads(m) == IF m.body.coding = m.coding THEN m.body.text ELSE Bad

Alive(r) == open[on[r]]

Go(r, place) == stage' = [stage EXCEPT ![r] = place] /\ UNCHANGED reply

\* Writing to a response whose client is gone does nothing.
Write(r, message) ==
    /\ stage' = [stage EXCEPT ![r] = IF Alive(r) THEN "written" ELSE "done"]
    /\ reply' = IF Alive(r) THEN [reply EXCEPT ![r] = message] ELSE reply

-----------------------------------------------------------------------------
(* A request comes in *)

Busy(k) == \E r \in Requests : on[r] = k /\ stage[r] \notin {"idle", "done"}

Begin(r, k) ==
    /\ stage[r] = "idle"
    /\ open[k]
    /\ ~Busy(k)
    /\ on' = [on EXCEPT ![r] = k]
    /\ Go(r, "reading")
    /\ UNCHANGED <<open, leftover, answer, trace, verifier>>

\* A byte past maxBodyBytes: 413, with the rest of the body unread.
Overflow(r) ==
    /\ stage[r] = "reading"
    /\ leftover' = [leftover EXCEPT ![on[r]] = TRUE]
    /\ Write(r, Error(None))
    /\ UNCHANGED <<on, open, answer, trace, verifier>>

BodyRead(r) ==
    /\ stage[r] = "reading"
    /\ Go(r, "forwarding")
    /\ UNCHANGED <<front, answer, trace, verifier>>

-----------------------------------------------------------------------------
(* The upstream leg *)

\* Fault: a reset by the upstream is taken for one by the client.
UpstreamFailsUnanswered(r) ==
    /\ stage[r] = "forwarding"
    /\ Go(r, "done")
    /\ UNCHANGED <<front, answer, trace, verifier>>

\* Connect, headers and body timeouts, refusals, resets, and an answer above
\* maxBodyBytes.
UpstreamFails(r) ==
    /\ stage[r] = "forwarding"
    /\ Write(r, Error(None))
    /\ UNCHANGED <<front, answer, trace, verifier>>

UpstreamAnswers(r, a) ==
    /\ stage[r] = "forwarding"
    /\ answer' = [answer EXCEPT ![r] = a]
    /\ IF IsSigned(a) THEN Go(r, "decoding") ELSE Write(r, Error(a.trace))
    /\ UNCHANGED <<front, trace, verifier>>

DecodeFails(r) ==
    /\ stage[r] = "decoding"
    /\ answer[r].body = Bad
    /\ Write(r, Error(answer[r].trace))
    /\ UNCHANGED <<front, answer, trace, verifier>>

-----------------------------------------------------------------------------
(* Verification of the decoded copy *)

\* Whether the signature of r's answer is over this request and the decoded
\* copy.  Fault: over the copy alone.
CoversText(r) == answer[r].signature.text = answer[r].body.text
Covers(r) == answer[r].signature.req = r /\ answer[r].signature.text = answer[r].body.text

\* verify() is called with the request's bytes and the copy.  A signature
\* that covers them may still be stale.
Verify(r) ==
    /\ stage[r] = "decoding"
    /\ answer[r].body # Bad
    /\ Go(r, "verifying")
    /\ \/ V!Unverified(r)
       \/ Covers(r) /\ V!Hit(r, answer[r].signature.signer)
       \/ Covers(r) /\ V!Miss(r, answer[r].signature.signer)
    /\ UNCHANGED <<front, answer, trace>>

\* The attestations under way, and the clock.
Attest ==
    /\ \/ V!Tick
       \/ \E d \in Requests : V!Fetched(d) \/ V!Proves(d) \/ V!Fails(d) \/ V!Deadline(d)
    /\ UNCHANGED <<stage, reply, front, answer, trace>>

Waiters(d) == {r \in Requests : pc[r] = "waiting" /\ flight[r] = d}

\* The trace ids the waiters' answers carry; attachUpstreamTraceId skips the rest.
UpstreamTraceIds(d) == {answer[r].trace : r \in Waiters(d)} \ {None}

\* A flight settles and its waiters' handlers run their catch blocks, which
\* put the trace ids of their answers on the one error object of the flight,
\* before any of them renders it.  The last one stays.
FlightEnds(d) ==
    /\ V!FlightEnds(d)
    /\ IF attestation[d].outcome = "failed" /\ UpstreamTraceIds(d) # {}
       THEN \E id \in UpstreamTraceIds(d) : trace' = [trace EXCEPT ![d] = id]
       ELSE UNCHANGED trace
    /\ UNCHANGED <<stage, reply, front, answer>>

\* Fault: the copy is relayed, under the headers of the original.
RelayCopy(r) ==
    /\ stage[r] = "verifying"
    /\ pc[r] = "accepted"
    /\ Write(r, Relayed([answer[r].body EXCEPT !.coding = "identity"], answer[r].body.coding))
    /\ UNCHANGED <<front, answer, trace, verifier>>

\* The original bytes, under the answer's own content-encoding header.
Relay(r) ==
    /\ stage[r] = "verifying"
    /\ pc[r] = "accepted"
    /\ Write(r, Relayed(answer[r].body, answer[r].body.coding))
    /\ UNCHANGED <<front, answer, trace, verifier>>

\* Fault: nothing is done for a client that is gone.
RenderErrorIfAlive(r) ==
    /\ stage[r] = "verifying"
    /\ pc[r] = "rejected"
    /\ Alive(r)
    /\ Write(r, Error(IF flight[r] = None THEN answer[r].trace ELSE trace[flight[r]]))
    /\ UNCHANGED <<front, answer, trace, verifier>>

RenderError(r) ==
    /\ stage[r] = "verifying"
    /\ pc[r] = "rejected"
    /\ Write(r, Error(IF flight[r] = None THEN answer[r].trace ELSE trace[flight[r]]))
    /\ UNCHANGED <<front, answer, trace, verifier>>

-----------------------------------------------------------------------------
(* The connection *)

\* Fault: the connection is kept whatever the request left in it.
FinishKeeps(r) ==
    /\ stage[r] = "written"
    /\ Go(r, "done")
    /\ UNCHANGED <<front, answer, trace, verifier>>

\* The response is out.  A connection with unread bytes is closed, any other
\* serves the next request.
Finish(r) ==
    /\ stage[r] = "written"
    /\ open' = [open EXCEPT ![on[r]] = ~leftover[on[r]]]
    /\ Go(r, "done")
    /\ UNCHANGED <<on, leftover, answer, trace, verifier>>

\* The client closes.  The abort signal ends an upstream request; decoding
\* and verification take no signal and go on.
Disconnect(k) ==
    /\ open[k]
    /\ open' = [open EXCEPT ![k] = FALSE]
    /\ stage' = [r \in Requests |->
            IF on[r] = k /\ stage[r] \in {"reading", "forwarding", "written"}
            THEN "done" ELSE stage[r]]
    /\ UNCHANGED <<on, leftover, answer, reply, trace, verifier>>

-----------------------------------------------------------------------------

Init ==
    /\ V!Init
    /\ stage = [r \in Requests |-> "idle"]
    /\ on = [r \in Requests |-> None]
    /\ open = [k \in Connections |-> TRUE]
    /\ leftover = [k \in Connections |-> FALSE]
    /\ answer = [r \in Requests |-> NoAnswer]
    /\ reply = [r \in Requests |-> NoReply]
    /\ trace = [d \in Requests |-> None]

Next ==
    \/ Attest
    \/ \E k \in Connections : Disconnect(k)
    \/ \E r \in Requests :
        \/ \E k \in Connections : Begin(r, k)
        \/ Overflow(r)
        \/ BodyRead(r)
        \/ UpstreamFails(r)
        \/ \E a \in Answers(r) : UpstreamAnswers(r, a)
        \/ DecodeFails(r)
        \/ Verify(r)
        \/ FlightEnds(r)
        \/ Relay(r)
        \/ RenderError(r)
        \/ Finish(r)

\* The proxy's own work is done; undici's timeouts end an upstream request and
\* the 60 s deadline an attestation.  Clients and upstream owe nothing.
Fairness ==
    \A r \in Requests :
        /\ WF_vars(UpstreamFails(r))
        /\ WF_vars(DecodeFails(r))
        /\ WF_vars(Verify(r))
        /\ WF_vars(V!Deadline(r) /\ Attest)
        /\ WF_vars(FlightEnds(r))
        /\ WF_vars(Relay(r))
        /\ WF_vars(RenderError(r))

Spec == Init /\ [][Next]_vars /\ Fairness

-----------------------------------------------------------------------------
(* Correctness *)

Stages == {"idle", "reading", "forwarding", "decoding", "verifying", "written", "done"}

\* The verifier's state has its own types; an answer is one the request's
\* upstream may give, and a reply relays a body or reports an error.
TypeOK ==
    /\ V!TypeOK
    /\ stage \in [Requests -> Stages]
    /\ on \in [Requests -> Connections \cup {None}]
    /\ open \in [Connections -> BOOLEAN]
    /\ leftover \in [Connections -> BOOLEAN]
    /\ DOMAIN answer = Requests /\ DOMAIN reply = Requests
    /\ \A r \in Requests :
        /\ answer[r] \in Answers(r) \cup {NoAnswer}
        /\ reply[r] \in {NoReply} \cup {Relayed(b, b.coding) : b \in Bodies}
                        \cup {Error(id) : id \in Requests \cup {None}}
    /\ trace \in [Requests -> Requests \cup {None}]

\* "An unverified body is never returned to the client" (proxy/README.md):
\* what a client reads, once it has undone the coding it is told of, is a text
\* signed for its very request by a key with a proved attestation, although a
\* copy is verified and the original relayed, and however requests share
\* attestations, fail and disconnect.
RelayedIsVerified ==
    \A r \in Requests : reply[r].kind = "relay" =>
        LET signature == answer[r].signature IN
        /\ signature # None
        /\ signature.req = r
        /\ signature.text = Reads(reply[r])
        /\ \E d \in Requests : attestation[d].outcome = "proved" /\ signer[d] = signature.signer

\* "Unread body bytes would otherwise be parsed as the next keep-alive
\* request" (server.ts 55): no request is read from a connection that still
\* holds the rest of another one.
NoGhostRequest ==
    [][\A r \in Requests : stage[r] = "idle" /\ stage'[r] = "reading" => ~leftover[on'[r]]]_vars

\* Only a request whose connection was lost ends without a reply, and the
\* connection is not used again: no path through the listener and openHandler
\* ends in silence (server.ts 48-61).
UnansweredIsGone ==
    \A r \in Requests : stage[r] = "done" /\ reply[r].kind = "none" => ~open[on[r]]

\* A reply is written once, whichever of those paths a request takes: its
\* client never gets a relay after an error, or the other way round.
RepliesAreFinal ==
    [][\A r \in Requests : reply[r].kind # "none" => reply'[r] = reply[r]]_vars

\* A request that was forwarded is answered or, its client gone, dropped: it
\* never hangs on another request's attestation, a silent upstream or a
\* disconnect.
EveryForwardedEnds ==
    \A r \in Requests :
        stage[r] \in {"forwarding", "decoding", "verifying"} ~> stage[r] \in {"written", "done"}

\* "traceId is present only when the upstream answered with an
\* x-shark-trace-id header (the same value ...)" (proxy/README.md 129-130).
TraceIsOwn ==
    \A r \in Requests : reply[r].trace \in {None, answer[r].trace}
=============================================================================
