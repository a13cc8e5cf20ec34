--------------------------- MODULE ConfidentialProxy ---------------------------
(***************************************************************************)
(* The verifying proxy in Confidential mode: createConfidentialServer of   *)
(* proxy/src/server.ts, confidentialHandler and createConfidentialTransport*)
(* of proxy/src/confidential.ts, and the error path of proxy/src/errors.ts *)
(* over the one ConfidentialClient of the process.                         *)
(*                                                                         *)
(* Every proxied request is one request() call of that client, and the     *)
(* attestation at start-up one ready() call.  A client that disconnects    *)
(* aborts its call.  What is left to get right here is what a client of    *)
(* the proxy reads: a relayed answer, or a status and an executed field    *)
(* that tell it whether its request may have run.                          *)
(*                                                                         *)
(* When a call settles, its handler and the error path run to the end of   *)
(* the response without another await: Deliver is part of the client's     *)
(* step.  Each request has a connection of its own; what one request       *)
(* leaves behind for the next is in OpenProxy, whose listener is the same. *)
(***************************************************************************)
EXTENDS Naturals

CONSTANTS Requests,   \* requests clients send
          StartUp,    \* the ready() of the "listening" event
          Nodes,
          None,
          Ttl, MaxTime  \* of ConfidentialClient

ASSUME CallsAssumption ==
    /\ StartUp \notin Requests
    /\ None \notin Requests \cup {StartUp} \cup Nodes
ASSUME TimeAssumption == Ttl \in Nat \ {0} /\ MaxTime \in Nat

VARIABLES stage,      \* where the handling of request r is
          connected,  \* whether r's client is there
          reply       \* what was written to r's client

\* The state of ConfidentialClient.
VARIABLES now, pin, flight, attestation, pc, uses, aborted, sent, answer, outcome

front  == <<stage, connected, reply>>
client == <<now, pin, flight, attestation, pc, uses, aborted, sent, answer, outcome>>
vars   == <<stage, connected, reply,
            now, pin, flight, attestation, pc, uses, aborted, sent, answer, outcome>>

C == INSTANCE ConfidentialClient WITH Readies <- {StartUp}

-----------------------------------------------------------------------------
(* What a client of the proxy reads *)

NoReply == [kind |-> "none", status |-> 0, executed |-> "none", answer |-> C!NoAnswer]

\* The inner answer under its own status, which is the node's.
Relayed(a) == [kind |-> "relay", status |-> 0, executed |-> "none", answer |-> a]

Error(status, executed) ==
    [kind |-> "error", status |-> status, executed |-> executed, answer |-> C!NoAnswer]

\* Fault: an upstream that cannot be reached is reported as unavailable.
StatusOfUnavailable(kind, a) ==
    CASE kind = "InvalidInnerRequest"    -> {400}
      [] kind = "AttestationUnavailable" -> {429, 503, 504}
      [] kind = "TransportFailed"        -> {503, 504}
      [] kind = "RequestRejected" /\ a.class = "busy" -> {413, 429}
      [] OTHER                           -> {502}

\* statusOf, attestationUnavailableStatus, and upstreamError for a transport
\* that failed: a timeout is 504, anything else 502.  Of the gateway's
\* refusals only 413 and 429 keep their status.
StatusOf(kind, a) ==
    CASE kind = "InvalidInnerRequest"    -> {400}
      [] kind = "AttestationUnavailable" -> {429, 503, 504}
      [] kind = "TransportFailed"        -> {502, 504}
      [] kind = "RequestRejected" /\ a.class = "busy" -> {413, 429}
      [] OTHER                           -> {502}

\* The statuses a settled call may be answered under, 0 standing for the
\* node's.  res.writeHead throws, before anything is written, on a content type
\* that Node refuses though the decoder let it pass: the request ran, and the
\* error path answers with an Internal 502.
Statuses(kind, a) == IF kind = "ok" THEN {0, 502} ELSE StatusOf(kind, a)

\* The response to r, whose call has settled.  An Internal error has no
\* executed field.
Response(r, status) ==
    IF outcome[r].kind = "ok"
    THEN IF status = 0 THEN Relayed(outcome[r].answer) ELSE Error(status, "none")
    ELSE Error(status, C!Executed(r))

\* Whether r's client is still answered.  Fault: a connection the upstream
\* reset is taken for the client's.
HearsUnlessReset(r) == connected[r] /\ outcome[r].kind # "TransportFailed"
Hears(r) == connected[r]

\* The handlers of the calls a client's step settles.  Those that waited for
\* one attestation have one error, and so one status.  Nothing is written for
\* a client that is gone.
Deliver ==
    /\ UNCHANGED connected
    /\ LET settled  == {r \in Requests : stage[r] = "working" /\ pc'[r] = "done"}
           answered == {r \in settled : Hears(r)'}
       IN /\ stage' = [r \in Requests |-> IF r \in settled THEN "over" ELSE stage[r]]
          /\ IF answered = {}
             THEN UNCHANGED reply
             ELSE \E status \in {0, 400, 413, 429, 502, 503, 504} :
                    /\ \A r \in answered :
                         status \in Statuses(outcome[r].kind, outcome[r].answer)'
                    /\ reply' = [r \in Requests |-> IF r \in answered
                                                    THEN Response(r, status)' ELSE reply[r]]

-----------------------------------------------------------------------------
(* Start-up *)

\* The port is open.  The outcome of this ready() is only logged.
Listen ==
    /\ C!StartReady(StartUp)
    /\ UNCHANGED front

Listening == pc[StartUp] # "idle"

-----------------------------------------------------------------------------
(* One request *)

Begin(r) ==
    /\ Listening
    /\ stage[r] = "idle"
    /\ stage' = [stage EXCEPT ![r] = "reading"]
    /\ UNCHANGED <<connected, reply, client>>

\* A body above maxBodyBytes, a content coding, or a body without a media type.
Refuse(r, status) ==
    /\ stage[r] = "reading"
    /\ stage' = [stage EXCEPT ![r] = "over"]
    /\ reply' = [reply EXCEPT ![r] = Error(status, "none")]
    /\ UNCHANGED <<connected, client>>

\* The body is read and the request handed to the client.
Handle(r) ==
    /\ stage[r] = "reading"
    /\ stage' = [stage EXCEPT ![r] = "working"]
    /\ C!StartRequest(r)
    /\ UNCHANGED <<connected, reply>>

Works(c) == C!Works(c) /\ Deliver

\* Connect, headers and body timeouts, refusals, resets, an answer above the
\* cap or one that cannot be decoded: all reach the client as TransportFailed.
UpstreamFails(r) == C!TransportFails(r) /\ Deliver

UpstreamAnswers(r) == C!Receive(r) /\ Deliver

AttestationSettles == C!FlightSettles /\ Deliver

\* The response closes before it is finished: disconnected.abort().  While
\* the body is being read there is no call yet; its handler never runs.
Disconnect(r) ==
    /\ connected[r]
    /\ connected' = [connected EXCEPT ![r] = FALSE]
    /\ \/ /\ stage[r] = "reading"
          /\ stage' = [stage EXCEPT ![r] = "over"]
          /\ UNCHANGED client
       \/ /\ stage[r] = "working"
          /\ C!Abort(r)
          /\ stage' = [stage EXCEPT ![r] = IF pc'[r] = "done" THEN "over" ELSE "working"]
    /\ UNCHANGED reply

ClockMoves == C!ClockMoves /\ UNCHANGED front

-----------------------------------------------------------------------------

Init ==
    /\ C!Init
    /\ stage = [r \in Requests |-> "idle"]
    /\ connected = [r \in Requests |-> TRUE]
    /\ reply = [r \in Requests |-> NoReply]

Next ==
    \/ Listen
    \/ AttestationSettles
    \/ ClockMoves
    \/ Works(StartUp)
    \/ \E r \in Requests :
        \/ Begin(r)
        \/ \E status \in {413, 415} : Refuse(r, status)
        \/ Handle(r)
        \/ Works(r)
        \/ UpstreamFails(r)
        \/ UpstreamAnswers(r)
        \/ Disconnect(r)

\* The process' own work is done; the 60 s deadline settles an attestation,
\* and undici's timeouts and the cap end an upstream request.  Clients owe
\* nothing, and the upstream no answer.
Fairness ==
    /\ WF_vars(AttestationSettles)
    /\ \A r \in Requests : WF_vars(Works(r)) /\ WF_vars(UpstreamFails(r))

Spec == Init /\ [][Next]_vars /\ Fairness

-----------------------------------------------------------------------------
(* Correctness *)

Replies ==
    {NoReply} \cup {Relayed(a) : a \in C!Answers}
    \cup {Error(status, executed) : status \in {400, 413, 415, 429, 502, 503, 504},
                                    executed \in {"none", "no", "unknown"}}

\* The client's state has its own types, a reply is one of the documented
\* ones, and only a request in the handler's hands is a running call.
TypeOK ==
    /\ C!TypeOK
    /\ stage \in [Requests -> {"idle", "reading", "working", "over"}]
    /\ connected \in [Requests -> BOOLEAN]
    /\ reply \in [Requests -> Replies]
    /\ \A r \in Requests : stage[r] \in {"idle", "reading"} => pc[r] = "idle"

\* "The answer is verified against the pinned node and decrypted before it is
\* relayed" (proxy/README.md 179): what a client is given was signed, for this
\* very request, by the node the request was sealed to, whatever pins other
\* requests meanwhile took or dropped.
RelayedIsOwnAnswer ==
    \A r \in Requests : reply[r].kind = "relay" =>
        /\ sent[r]
        /\ reply[r].answer.req = r
        /\ attestation[uses[r]].state = "pinned"
        /\ reply[r].answer.signer = attestation[uses[r]].node

\* What an error tells its reader about running the request again
\* (proxy/README.md 226-246): a client error, a 503 and an executed "no" all
\* mean that nothing was sent for it, or that the gateway said it refused it.
\* A missing executed field says nothing where the status is another one.
ErrorTellsExecution ==
    \A r \in Requests :
        /\ reply[r].kind = "error"
        /\ reply[r].status < 500 \/ reply[r].status = 503 \/ reply[r].executed = "no"
        => ~sent[r] \/ outcome[r].kind = "RequestRejected"

\* No path through the listener, the handler and its client ends in silence: a
\* client that stays is answered, whoever started the attestation its request
\* shared and however it or the upstream failed (server.ts 46-54), and if its
\* request was not sent it is told so.
EveryClientIsTold ==
    \A r \in Requests : stage[r] = "over" /\ connected[r] =>
        /\ reply[r].kind # "none"
        /\ ~sent[r] => reply[r].kind = "error" /\ (reply[r].status < 500 \/ reply[r].executed = "no")

\* Once a client has gone nothing is sealed and sent on its behalf, at
\* whichever await of the handler, of the attestation or of the sealing the
\* disconnect came.
NothingSentForTheGone ==
    [][\A r \in Requests : ~connected[r] => sent'[r] = sent[r]]_vars

\* A request the client has in hand comes to an end: it hangs neither on an
\* attestation that other requests started, left or let fail, nor on a silent
\* upstream.
EveryRequestEnds ==
    \A r \in Requests : stage[r] = "working" ~> stage[r] = "over"
=============================================================================
