------------------------- MODULE ConfidentialClient -------------------------
(***************************************************************************)
(* The Ankr Confidential RPC client: ConfidentialClient of                 *)
(* core/src/confidential-client.ts over PinSlot of core/src/node-session.  *)
(*                                                                         *)
(* The calls of one client run concurrently on one JavaScript thread: a    *)
(* step below is the code between two awaits.  They share the slot, which  *)
(* holds the pinned node and at most one attestation in flight.  Each call *)
(* is one invocation; because an invocation starts at most one             *)
(* attestation, an attestation and the Pin object it yields are named      *)
(* after the call that started it, which gives pins the object identity    *)
(* that evict() compares.                                                  *)
(*                                                                         *)
(* The gateway is the environment.  It may answer a POST with an unsealed  *)
(* error, with bytes nobody signed, or with any answer a node signed for   *)
(* any request that has been sent: its own, another call's, or this call's *)
(* answer as signed by a node that is not the pinned one.                  *)
(***************************************************************************)
EXTENDS Naturals

CONSTANTS Requests,  \* invocations of request()
          Readies,   \* invocations of ready()
          Nodes,     \* nodes the gateway can route to
          None,      \* JavaScript's undefined
          Ttl,       \* pubkeyCacheTtlMs
          MaxTime    \* bound on Date.now()

Calls == Requests \cup Readies

ASSUME CallsAssumption ==
    /\ Requests \cap Readies = {}
    /\ None \notin Calls \cup Nodes
ASSUME TimeAssumption == Ttl \in Nat \ {0} /\ MaxTime \in Nat

VARIABLES now,          \* Date.now(), a wall clock: it can step back
          pin,          \* PinSlot.#pin
          flight,       \* PinSlot.#flight
          attestation,  \* attestation[f]: the attestation call f started
          pc,           \* where call c is suspended
          uses,         \* the attestation c waits for, then the pin it holds
          aborted,      \* c's signal has aborted and c has not reacted yet
          sent,         \* request()'s local flag: bytes given to the transport
          answer,       \* the outer response c is checking
          outcome       \* how c settled

slot  == <<pin, flight, attestation>>
calls == <<pc, uses, aborted, sent, answer, outcome>>
vars  == <<now, pin, flight, attestation, pc, uses, aborted, sent, answer, outcome>>

-----------------------------------------------------------------------------
(* Data *)

NotStarted == [state |-> "none", node |-> None, expiresAt |-> 0, executed |-> "unknown"]
Pinned(n, expiresAt) ==
    [state |-> "pinned", node |-> n, expiresAt |-> expiresAt, executed |-> "unknown"]
Failed(executed) ==
    [state |-> "failed", node |-> None, expiresAt |-> 0, executed |-> executed]

\* A failed attestation's error object is one object for all its waiters: its
\* executed field lives in the attestation, and "shared" points there.
Executed(c) == IF outcome[c].executed = "shared"
               THEN attestation[uses[c]].executed
               ELSE outcome[c].executed

\* Outer responses, by the branch of #exchange that reads them.
Unsealed == [class : {"unexpected", "refused", "busy", "unsigned"}, signer : {None}, req : {None}]
Signed   == [class : {"signed"}, signer : Nodes, req : {r \in Requests : sent[r]}]
NoAnswer == [class |-> "none", signer |-> None, req |-> None]

\* How a call settled: what it threw or returned, the error's executed field,
\* and the answer it returned or whose status it reports.
Result(kind, executed) == [kind |-> kind, executed |-> executed, answer |-> NoAnswer]
Unsettled == Result("none", "none")

\* Whether a failure after the send drops the pin; a "busy" answer is 413 or 429.
EvictsPin(kind, a) ==
    /\ kind \notin {"TransportFailed", "StaleTimestamp"}
    /\ kind = "RequestRejected" => a.class # "busy"

-----------------------------------------------------------------------------
(* Settling *)

\* The signal and the locals of a settled call are not read again.
Settle(c, result) ==
    /\ pc' = [pc EXCEPT ![c] = "done"]
    /\ outcome' = [outcome EXCEPT ![c] = result]
    /\ aborted' = [aborted EXCEPT ![c] = FALSE]
    /\ answer' = [answer EXCEPT ![c] = NoAnswer]

GoOn(c, place) ==
    /\ pc' = [pc EXCEPT ![c] = place]
    /\ UNCHANGED <<outcome, aborted, answer>>

Return(c)           == Settle(c, Result("ok", "none"))
ThrowReason(c)      == Settle(c, Result("aborted", "none"))
ThrowUnsent(c, kind) == Settle(c, Result(kind, "no"))

-----------------------------------------------------------------------------
(* The slot *)

Current == IF pin # None /\ now < attestation[pin].expiresAt THEN pin ELSE None

\* Faults: evict() looks at current() instead of #pin; it compares node ids
\* instead of Pin objects.
EvictIfCurrent(p) == pin' = IF Current = p THEN None ELSE pin
EvictByNode(p) == pin' = IF pin # None /\ attestation[pin].node = attestation[p].node
                         THEN None ELSE pin

Evict(p) == pin' = IF pin = p THEN None ELSE pin

\* ready() resolves once it has a pin; request() goes on to seal.
Resumed(c) == IF c \in Requests THEN "sealing" ELSE "done"

AcquireAborted(c) ==
    /\ aborted[c]
    /\ ThrowReason(c)
    /\ UNCHANGED <<slot, uses>>

\* Fault: a hit extends the pin's life.
AcquireExtending(c) ==
    /\ ~aborted[c]
    /\ Current # None
    /\ uses' = [uses EXCEPT ![c] = Current]
    /\ IF c \in Requests THEN GoOn(c, "sealing") ELSE Return(c)
    /\ attestation' = [attestation EXCEPT ![Current].expiresAt = @ + Ttl]
    /\ UNCHANGED <<pin, flight>>

AcquireCurrent(c) ==
    /\ ~aborted[c]
    /\ Current # None
    /\ uses' = [uses EXCEPT ![c] = Current]
    /\ IF c \in Requests
       THEN GoOn(c, "sealing")
       ELSE Return(c)
    /\ UNCHANGED slot

Join(c, f) ==
    /\ uses' = [uses EXCEPT ![c] = f]
    /\ GoOn(c, "waiting")

\* Fault: every miss starts an attestation of its own.
AcquireOwnFlight(c) ==
    /\ ~aborted[c]
    /\ Current = None
    /\ flight' = c
    /\ attestation' = [attestation EXCEPT ![c].state = "pending"]
    /\ Join(c, c)
    /\ UNCHANGED pin

AcquireFlight(c) ==
    /\ ~aborted[c]
    /\ Current = None
    /\ IF flight = None
       THEN /\ flight' = c
            /\ attestation' = [attestation EXCEPT ![c].state = "pending"]
            /\ Join(c, c)
            /\ UNCHANGED pin
       ELSE Join(c, flight) /\ UNCHANGED slot

Acquire(c) ==
    /\ AcquireAborted(c) \/ AcquireCurrent(c) \/ AcquireFlight(c)
    /\ UNCHANGED <<now, sent>>

Waiters(f) == {c \in Calls : pc[c] = "waiting" /\ uses[c] = f}

\* attestPin succeeded.  Every waiter goes on with this pin, expired or not.
FlightResolves(n) ==
    /\ flight # None
    /\ attestation' = [attestation EXCEPT ![flight] = Pinned(n, now + Ttl)]
    /\ pin' = flight
    /\ flight' = None
    /\ pc' = [c \in Calls |-> IF c \in Waiters(flight) THEN Resumed(c) ELSE pc[c]]
    /\ outcome' = [c \in Calls |-> IF c \in Waiters(flight) \cap Readies
                                   THEN Result("ok", "none") ELSE outcome[c]]
    /\ UNCHANGED <<now, uses, aborted, sent, answer>>

\* What a waiter of a failed attestation throws.  request() wraps what is not
\* a VrpcError in an InternalError of its own; a VrpcError is the shared one.
FlightFailure(c, kind) ==
    CASE kind # "raw"                    -> Result(kind, "shared")
      [] kind = "raw" /\ c \in Requests  -> Result("InternalError", "no")
      [] kind = "raw" /\ c \in Readies   -> Result("raw", "none")

\* Fault: only the call that started the attestation marks its error.
FlightRejectsStarterMarks(kind) ==
    /\ flight # None
    /\ attestation' = [attestation EXCEPT ![flight] =
            Failed(IF flight \in Waiters(flight) \cap Requests THEN "no" ELSE "unknown")]
    /\ flight' = None
    /\ pc' = [c \in Calls |-> IF c \in Waiters(flight) THEN "done" ELSE pc[c]]
    /\ outcome' = [c \in Calls |-> IF c \in Waiters(flight)
                                   THEN FlightFailure(c, kind) ELSE outcome[c]]
    /\ UNCHANGED <<now, pin, uses, aborted, sent, answer>>

\* attestPin failed, the 60 s deadline included.  A waiting request() sets
\* executed to "no" on the error it rethrows.
FlightRejects(kind) ==
    /\ flight # None
    /\ attestation' = [attestation EXCEPT ![flight] =
            Failed(IF Waiters(flight) \cap Requests # {} /\ kind # "raw"
                   THEN "no" ELSE "unknown")]
    /\ flight' = None
    /\ pc' = [c \in Calls |-> IF c \in Waiters(flight) THEN "done" ELSE pc[c]]
    /\ outcome' = [c \in Calls |-> IF c \in Waiters(flight)
                                   THEN FlightFailure(c, kind) ELSE outcome[c]]
    /\ UNCHANGED <<now, pin, uses, aborted, sent, answer>>

-----------------------------------------------------------------------------
(* One call *)

StartRequest(c) ==
    /\ c \in Requests
    /\ pc[c] = "idle"
    /\ IF aborted[c]
       THEN ThrowReason(c)
       ELSE GoOn(c, "encoding")
    /\ UNCHANGED <<now, slot, uses, sent>>

StartReady(c) ==
    /\ c \in Readies
    /\ pc[c] = "idle"
    /\ Acquire(c)

Encode(c) ==
    /\ pc[c] = "encoding"
    /\ Acquire(c)

EncodeFails(c) ==
    /\ pc[c] = "encoding"
    /\ ThrowUnsent(c, "InvalidInnerRequest")
    /\ UNCHANGED <<now, slot, uses, sent>>

\* Fault: the signal is not read after sealing.
SealUnchecked(c) ==
    /\ pc[c] = "sealing"
    /\ sent' = [sent EXCEPT ![c] = TRUE]
    /\ GoOn(c, "sent")
    /\ UNCHANGED <<now, slot, uses>>

\* The abort check after sealing and the transport call are one step.
Seal(c) ==
    /\ pc[c] = "sealing"
    /\ IF aborted[c]
       THEN ThrowReason(c) /\ UNCHANGED sent
       ELSE /\ sent' = [sent EXCEPT ![c] = TRUE]
            /\ GoOn(c, "sent")
    /\ UNCHANGED <<now, slot, uses>>

SealFails(c) ==
    /\ pc[c] = "sealing"
    /\ ThrowUnsent(c, "InternalError")
    /\ UNCHANGED <<now, slot, uses, sent>>

\* Fault: a request whose transport failed is sealed and sent again.
TransportRetries(c) ==
    /\ pc[c] = "sent"
    /\ GoOn(c, "sealing")
    /\ UNCHANGED <<now, slot, uses, sent>>

\* A network error, or an answer above 192 MiB: the pin is kept.
TransportFails(c) ==
    /\ pc[c] = "sent"
    /\ Settle(c, Result("TransportFailed", "unknown"))
    /\ UNCHANGED <<now, slot, uses, sent>>

Receive(c) ==
    /\ pc[c] = "sent"
    /\ \E a \in Unsealed \cup Signed : answer' = [answer EXCEPT ![c] = a]
    /\ pc' = [pc EXCEPT ![c] = "checking"]
    /\ UNCHANGED <<now, slot, uses, aborted, sent, outcome>>

\* A sealed answer opens and decodes, or not; MalformedConfidentialResponse
\* is told apart from ConfidentialDecryptFailed by nothing here.
Opened == {"ok", "ConfidentialDecryptFailed"}

\* Faults: the signature is checked over the answer without the request; the
\* signer is compared with the node the slot holds by now.
VerdictsAnyRequest(c, a) ==
    CASE a.class = "unexpected"          -> {"UnexpectedResponse"}
      [] a.class \in {"refused", "busy"} -> {"RequestRejected"}
      [] a.class = "signed" ->
            {"StaleTimestamp"} \cup
            IF a.signer # attestation[uses[c]].node
            THEN {"ConfidentialSignerMismatch"}
            ELSE Opened
      [] OTHER -> {"BadSignature"}
VerdictsBySlot(c, a) ==
    CASE a.class = "unexpected"          -> {"UnexpectedResponse"}
      [] a.class \in {"refused", "busy"} -> {"RequestRejected"}
      [] a.class = "signed" /\ a.req = c ->
            {"StaleTimestamp"} \cup
            IF pin # None /\ a.signer # attestation[pin].node
            THEN {"ConfidentialSignerMismatch"}
            ELSE Opened
      [] OTHER -> {"BadSignature"}

\* The ends of #exchange.  The signature covers the bytes sent, so an answer
\* to another request does not verify; the signing time may be outside the
\* window; only then is the signer compared with the pin the call holds.
Verdicts(c, a) ==
    CASE a.class = "unexpected"          -> {"UnexpectedResponse"}
      [] a.class \in {"refused", "busy"} -> {"RequestRejected"}
      [] a.class = "signed" /\ a.req = c ->
            {"StaleTimestamp"} \cup
            IF a.signer # attestation[uses[c]].node
            THEN {"ConfidentialSignerMismatch"}
            ELSE Opened
      [] OTHER -> {"BadSignature"}

ExecutedBy(kind) == CASE kind = "ok"              -> "none"
                      [] kind = "RequestRejected" -> "no"
                      [] OTHER                    -> "unknown"

\* An injected seam can fail anywhere in here: InternalError.
Check(c) ==
    /\ pc[c] = "checking"
    /\ \E kind \in Verdicts(c, answer[c]) \cup {"InternalError"} :
        /\ Settle(c, [Result(kind, ExecutedBy(kind)) EXCEPT
                        !.answer = IF kind \in {"ok", "RequestRejected"}
                                   THEN answer[c] ELSE NoAnswer])
        /\ IF kind # "ok" /\ EvictsPin(kind, answer[c]) THEN Evict(uses[c]) ELSE UNCHANGED pin
    /\ UNCHANGED <<now, flight, attestation, uses, sent>>

-----------------------------------------------------------------------------
(* The caller's signal and the clock *)

\* Fault: the abort of the call that started the attestation cancels it.
AbortCancels(c) ==
    /\ ~aborted[c]
    /\ pc[c] # "done"
    /\ IF pc[c] \in {"waiting", "sent"}
       THEN ThrowReason(c)
       ELSE aborted' = [aborted EXCEPT ![c] = TRUE] /\ UNCHANGED <<pc, outcome, answer>>
    /\ flight' = IF flight = c THEN None ELSE flight
    /\ UNCHANGED <<now, pin, attestation, uses, sent>>

\* raceAbort rejects at once a call that waits for the flight or for the
\* transport.  Anywhere else the signal is only read at the next check.
Abort(c) ==
    /\ ~aborted[c]
    /\ pc[c] # "done"
    /\ IF pc[c] \in {"waiting", "sent"}
       THEN ThrowReason(c)
       ELSE /\ aborted' = [aborted EXCEPT ![c] = TRUE]
            /\ UNCHANGED <<pc, outcome, answer>>
    /\ UNCHANGED <<now, slot, uses, sent>>

ClockMoves ==
    /\ now' \in (0 .. MaxTime) \ {now}
    /\ UNCHANGED <<slot, calls>>

-----------------------------------------------------------------------------

Init ==
    /\ now \in 0 .. MaxTime
    /\ pin = None
    /\ flight = None
    /\ attestation = [c \in Calls |-> NotStarted]
    /\ pc = [c \in Calls |-> "idle"]
    /\ uses = [c \in Calls |-> None]
    /\ aborted = [c \in Calls |-> FALSE]
    /\ sent = [c \in Calls |-> FALSE]
    /\ answer = [c \in Calls |-> NoAnswer]
    /\ outcome = [c \in Calls |-> Unsettled]

FlightSettles ==
    \/ \E n \in Nodes : FlightResolves(n)
    \/ \E kind \in {"AttestationUnavailable", "AttestationFailed", "raw"} : FlightRejects(kind)

\* Steps the client takes by itself once it is running call c.
Works(c) ==
    \/ Encode(c)
    \/ EncodeFails(c)
    \/ Seal(c)
    \/ SealFails(c)
    \/ Check(c)

Next ==
    \/ FlightSettles
    \/ ClockMoves
    \/ \E c \in Calls :
        \/ StartRequest(c)
        \/ StartReady(c)
        \/ Works(c)
        \/ TransportFails(c)
        \/ Receive(c)
        \/ Abort(c)

Spec == Init /\ [][Next]_vars

-----------------------------------------------------------------------------
(* Correctness *)

Attestations ==
    [state : {"none", "pending", "pinned", "failed"}, node : Nodes \cup {None},
     expiresAt : 0 .. (MaxTime + Ttl), executed : {"no", "unknown"}]

Answers ==
    [class : {"none", "unexpected", "refused", "busy", "unsigned", "signed"},
     signer : Nodes \cup {None}, req : Requests \cup {None}]

Kinds == {"none", "ok", "aborted", "raw", "InvalidInnerRequest", "InternalError",
          "AttestationUnavailable", "AttestationFailed", "TransportFailed",
          "UnexpectedResponse", "RequestRejected", "BadSignature", "StaleTimestamp",
          "ConfidentialSignerMismatch", "ConfidentialDecryptFailed"}

Results == [kind : Kinds, executed : {"none", "no", "unknown", "shared"}, answer : Answers]

Places == {"idle", "encoding", "waiting", "sealing", "sent", "checking", "done"}

\* Every variable holds what the client can put there; a call that waits, is
\* sealing or has sent something names an attestation.
TypeOK ==
    /\ now \in 0 .. MaxTime
    /\ pin \in Calls \cup {None}
    /\ flight \in Calls \cup {None}
    /\ attestation \in [Calls -> Attestations]
    /\ pc \in [Calls -> Places]
    /\ uses \in [Calls -> Calls \cup {None}]
    /\ aborted \in [Calls -> BOOLEAN]
    /\ sent \in [Calls -> BOOLEAN]
    /\ answer \in [Calls -> Answers]
    /\ outcome \in [Calls -> Results]

\* However calls, aborts, expiries and failed attestations interleave, at most
\* one attestation is pending and it is the one acquire() shares
\* (node-session.ts 81-104).
SingleFlight ==
    \A f \in Calls : attestation[f].state = "pending" <=> flight = f

\* Call c was sent to the node of pin p and ended in a failure that blames the
\* node or its key: any failure after the send that core/README.md 192-195
\* does not except.
Blames(c, p) ==
    /\ sent[c]
    /\ uses[c] = p
    /\ outcome[c].kind \notin {"none", "ok", "aborted", "TransportFailed", "StaleTimestamp"}
    /\ outcome[c].answer.class # "busy"

\* "The next call attests again" (core/README.md 192): once an answer to some
\* call blamed a pin, that pin is never in the slot again, whatever flights
\* and other calls' failures were under way at the time.
BlamedPinGone ==
    \A c, p \in Calls : Blames(c, p) => pin # p

\* No call is handed a pin that an earlier answer blamed.
NoNewUseOfBlamedPin ==
    [][\A c, d \in Calls : uses'[c] # uses[c] => ~Blames(d, uses'[c])]_vars

\* The executed field a caller of request() reads tells whether its bytes were
\* handed to the transport, except that a 4xx refusal says "no" on the
\* gateway's word (errors.ts 31-35); the field of an error shared by several
\* waiters included.
ExecutedTruthful ==
    \A c \in Requests :
        outcome[c].kind \notin {"none", "ok", "aborted"} =>
            (Executed(c) = "no" <=> ~sent[c] \/ outcome[c].kind = "RequestRejected")

\* An answer is returned only if the node the request was sealed to signed it,
\* over this request, even when the slot has meanwhile been given to another
\* node.
AnsweredByPinnedNode ==
    \A c \in Requests :
        outcome[c].kind = "ok" =>
            /\ sent[c]
            /\ outcome[c].answer.req = c
            /\ outcome[c].answer.signer = attestation[uses[c]].node

\* A pin leaves the slot only when a failure blames that very pin: an abort, a
\* failure before the send, a transport failure, a stale timestamp, a 413 or a
\* 429 keeps it, and a late failure of a call that holds an older pin keeps
\* the newer one.  (It may also be replaced, when a new attestation succeeds.)
OnlyBlameDropsPin ==
    [][\A p \in Calls : pin = p /\ pin' = None =>
            \E c \in Requests : outcome'[c] # outcome[c] /\ Blames(c, p)']_vars

\* A pin's life runs from its attestation, not from its last use: a call that
\* is not left waiting was given a pin before its expiresAt, and nothing the
\* calls under way do with a pin moves that time or the node.
UseNeverExtends ==
    [][/\ \A c \in Calls :
            uses'[c] # uses[c] /\ pc'[c] # "waiting" => now < attestation[uses'[c]].expiresAt
       /\ \A p \in Calls :
            attestation[p].state = "pinned" => attestation'[p] = attestation[p]]_vars

\* "A waiter's abort never cancels the shared flight" (node-session.ts 102):
\* the flight leaves the slot only by settling, the starter's abort included,
\* and then nobody is left waiting for it.
FlightEndsByItself ==
    [][flight # None /\ flight' # flight =>
        /\ flight' = None
        /\ attestation'[flight].state \in {"pinned", "failed"}
        /\ \A c \in Calls : uses[c] = flight => pc'[c] # "waiting"]_vars

\* The client implements the promise of SealedCall to the callers of request().
Promise == INSTANCE SealedCall WITH
    stage <- [c \in Requests |->
                CASE pc[c] = "done"                  -> "settled"
                  [] pc[c] \in {"sent", "checking"} -> "onwire"
                  [] OTHER                           -> "open"],
    sealedTo <- [c \in Requests |-> IF sent[c] THEN attestation[uses[c]].node ELSE None],
    verdict <- [c \in Requests |->
                CASE outcome[c].kind \in {"none", "aborted"} -> outcome[c].kind
                  [] outcome[c].kind = "ok"                  -> "answered"
                  [] OTHER -> IF Executed(c) = "no" THEN "norun" ELSE "unknown"],
    answeredBy <- [c \in Requests |->
                IF outcome[c].kind = "ok" THEN outcome[c].answer.signer ELSE None]

\* Every request is sealed to one node, put on the wire at most once, and ends
\* with a verdict that fits what happened to it.
KeepsPromise == Promise!Spec

\* core/README.md 251: an AttestationUnavailable has executed "unknown" when
\* ready() throws it.
ReadySaysUnknown ==
    \A c \in Readies :
        outcome[c].kind = "AttestationUnavailable" => Executed(c) = "unknown"
=============================================================================
