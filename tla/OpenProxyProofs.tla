---------------------------- MODULE OpenProxyProofs ----------------------------
(***************************************************************************)
(* Proofs about OpenProxy for any finite set of requests and any           *)
(* connections, signers and texts.  The proxy's steps are steps of the     *)
(* verifier all requests share, so what TrustedVerifierProofs proves of it *)
(* holds in the proxy: what is left is what the proxy does with a verdict. *)
(***************************************************************************)
EXTENDS OpenProxy, TLAPS

P == INSTANCE TrustedVerifierProofs WITH Calls <- Requests

-----------------------------------------------------------------------------
(* The verifier in the proxy *)

LEMMA VerifierAssumptions == P!CallsAssumption /\ P!CacheAssumption
BY NamesAssumption, VerifierAssumption DEF P!CallsAssumption, P!CacheAssumption, IsFiniteSet, P!IsFiniteSet

\* The verifier the proxy is composed of is the one the proofs are about.
LEMMA SameVerifier ==
    (V!Init <=> P!Init) /\ (V!Next <=> P!Next) /\ V!vars = P!vars /\ (V!TypeOK <=> P!TypeOK)
BY DEF V!Init, P!Init, V!vars, P!vars, V!TypeOK, P!TypeOK, V!Attestations, P!Attestations,
       V!Next, P!Next, V!Tick, P!Tick, V!Unverified, P!Unverified, V!Hit, P!Hit, V!Miss, P!Miss,
       V!Fetched, P!Fetched, V!Proves, P!Proves, V!Fails, P!Fails, V!Deadline, P!Deadline,
       V!FlightEnds, P!FlightEnds, V!Cached, P!Cached, V!Fresh, P!Fresh, V!Proved, P!Proved,
       V!Store, P!Store, V!Oldest, P!Oldest, V!Became, P!Became, V!Cardinality, P!Cardinality,
       V!IsFiniteSet, P!IsFiniteSet


\* What is decoded was signed; the front alone sees to it.
DecodesSigned ==
    /\ stage \in [Requests -> Stages]
    /\ DOMAIN answer = Requests
    /\ \A r \in Requests :
        /\ answer[r] \in Answers(r) \cup {NoAnswer}
        /\ stage[r] = "decoding" => IsSigned(answer[r]) /\ answer[r].signature \in Signatures

LEMMA DecodesSignedInductive == DecodesSigned /\ [Next]_vars => DecodesSigned'
<1> SUFFICES ASSUME DecodesSigned, [Next]_vars PROVE DecodesSigned'
  OBVIOUS
<1> USE DEF DecodesSigned
<1>1. ASSUME NEW r \in Requests, NEW place \in Stages \ {"decoding"},
             stage' = [stage EXCEPT ![r] = place], answer' = answer
      PROVE  DecodesSigned'
  BY <1>1
<1>2. ASSUME NEW r \in Requests, NEW message, Write(r, message), answer' = answer
      PROVE  DecodesSigned'
  BY <1>1, <1>2 DEF Write, Stages
<1>3. ASSUME NEW r \in Requests, NEW a \in Answers(r), UpstreamAnswers(r, a)
      PROVE  DecodesSigned'
  <2>1. a \in Answers(r) /\ answer' = [answer EXCEPT ![r] = a]
    BY <1>3 DEF UpstreamAnswers
  <2>2. /\ answer'[r] = a /\ DOMAIN answer' = Requests
        /\ \A q \in Requests \ {r} : answer'[q] = answer[q]
    BY <2>1
  <2>3. CASE IsSigned(a)
    <3>1. stage' = [stage EXCEPT ![r] = "decoding"] /\ "decoding" \in Stages
      BY <1>3, <2>3 DEF UpstreamAnswers, Go, Stages
    <3>2. IsSigned(a) /\ a.signature \in Signatures
      BY <2>1, <2>3 DEF Answers, IsSigned
    <3>3. QED
      BY <2>1, <2>2, <3>1, <3>2
  <2>4. CASE ~IsSigned(a)
    <3>1. PICK place \in {"written", "done"} : stage' = [stage EXCEPT ![r] = place]
      BY <1>3, <2>4 DEF UpstreamAnswers, Write
    <3>2. place \in Stages
      BY DEF Stages
    <3>3. QED
      BY <2>1, <2>2, <3>1, <3>2
  <2>5. QED
    BY <2>3, <2>4
<1>4. ASSUME NEW r \in Requests,
             Overflow(r) \/ UpstreamFails(r) \/ DecodeFails(r) \/ Relay(r) \/ RenderError(r)
      PROVE  DecodesSigned'
  <2>1. answer' = answer /\ \E message : Write(r, message)
    BY <1>4 DEF Overflow, UpstreamFails, DecodeFails, Relay, RenderError, front
  <2>2. QED
    BY <1>2, <2>1
<1>5. ASSUME NEW r \in Requests,
             BodyRead(r) \/ Verify(r) \/ Finish(r) \/ \E k \in Connections : Begin(r, k)
      PROVE  DecodesSigned'
  <2>1. answer' = answer
        /\ \E place \in {"reading", "forwarding", "verifying", "done"} :
              stage' = [stage EXCEPT ![r] = place]
    BY <1>5 DEF BodyRead, Verify, Finish, Begin, front, Go
  <2>2. {"reading", "forwarding", "verifying", "done"} \subseteq Stages \ {"decoding"}
    BY DEF Stages
  <2>3. QED
    BY <1>1, <2>1, <2>2
<1>6. ASSUME NEW k \in Connections, Disconnect(k) PROVE DecodesSigned'
  BY <1>6 DEF Disconnect, Stages
<1>7. CASE Attest \/ UNCHANGED vars \/ \E d \in Requests : FlightEnds(d)
  BY <1>7 DEF Attest, FlightEnds, vars, front
<1>8. QED
  BY <1>3, <1>4, <1>5, <1>6, <1>7 DEF Next

LEMMA VerifierSteps == DecodesSigned /\ [Next]_vars => [V!Next]_(V!vars)
<1> SUFFICES ASSUME DecodesSigned, [Next]_vars PROVE [V!Next]_(V!vars)
  OBVIOUS
<1> DEFINE unchanged == UNCHANGED V!vars
<1>1. CASE Attest
  BY <1>1 DEF Attest, V!Next
<1>2. ASSUME NEW r \in Requests, Verify(r) PROVE V!Next
  <2>1. answer[r].signature.signer \in Signers
    BY <1>2 DEF Verify, DecodesSigned, Signatures
  <2>2. QED
    BY <1>2, <2>1 DEF Verify, V!Next
<1>3. ASSUME NEW d \in Requests, FlightEnds(d) PROVE V!Next
  BY <1>3 DEF FlightEnds, V!Next
<1>4. ASSUME NEW r \in Requests,
             \/ \E k \in Connections : Begin(r, k)
             \/ Overflow(r) \/ BodyRead(r) \/ UpstreamFails(r) \/ DecodeFails(r)
             \/ \E a \in Answers(r) : UpstreamAnswers(r, a)
             \/ Relay(r) \/ RenderError(r) \/ Finish(r)
      PROVE  unchanged
  BY <1>4 DEF Begin, Overflow, BodyRead, UpstreamFails, DecodeFails, UpstreamAnswers, Relay,
              RenderError, Finish, verifier, V!vars
<1>5. ASSUME NEW k \in Connections, Disconnect(k) PROVE unchanged
  BY <1>5 DEF Disconnect, verifier, V!vars
<1>6. CASE UNCHANGED vars
  BY <1>6 DEF vars, V!vars
<1>7. QED
  BY <1>1, <1>2, <1>3, <1>4, <1>5, <1>6 DEF Next

\* The proxy drives the verifier only in ways it allows, with the signers of
\* well-formed signatures: whatever is proved of it holds in the proxy.
THEOREM ProxyRunsTheVerifier == Spec => V!Spec
<1>1. Init => V!Init /\ DecodesSigned
  BY DEF Init, DecodesSigned, Stages
<1>2. QED
  BY <1>1, DecodesSignedInductive, VerifierSteps, PTL DEF Spec, V!Spec

\* The verifier's inductive invariant, and what it says of accepted calls.
LEMMA VerifierHolds == Spec => [](P!Inductive /\ P!AcceptedIsOfProved)
<1>1. V!Spec => P!Spec
  <2>1. V!Init => P!Init
    BY SameVerifier
  <2>2. [V!Next]_(V!vars) => [P!Next]_(P!vars)
    BY SameVerifier DEF V!vars, P!vars
  <2>3. QED
    BY <2>1, <2>2, PTL DEF V!Spec, P!Spec
<1>2. P!Spec => []P!Inductive
  BY VerifierAssumptions, P!InductiveHolds
<1>3. P!Spec => []P!AcceptedIsOfProved
  BY VerifierAssumptions, P!AcceptanceStaysProved
<1>4. QED
  BY <1>1, <1>2, <1>3, ProxyRunsTheVerifier, PTL

-----------------------------------------------------------------------------
(* The inductive invariant *)

\* A client sees the bytes and the coding of this answer.
Sees(m, a) == m.body = a.body /\ m.coding = a.body.coding

\* A signature covers the request's answer and its signer is the one looked up.
Signed(r) ==
    /\ IsSigned(answer[r]) /\ answer[r].signature \in Signatures
    /\ Covers(r)
    /\ answer[r].body \in Bodies
    /\ signer[r] = answer[r].signature.signer

\* Only what was decoded is verified, what is verified or waits to be was
\* signed, and only what was accepted is relayed.
HandlesItsCall ==
    \A r \in Requests :
        /\ stage[r] \in {"idle", "reading", "forwarding", "decoding"} => pc[r] = "idle"
        /\ pc[r] \in {"waiting", "accepted"} => Signed(r)
        /\ reply[r].kind = "relay" => pc[r] = "accepted" /\ Sees(reply[r], answer[r])

\* A rest of a body in a connection that is open is that of a request whose
\* response is not out yet.
RestIsOfReply ==
    \A k \in Connections :
        open[k] /\ leftover[k] => \E r \in Requests : on[r] = k /\ stage[r] = "written"

Replies == {NoReply} \cup {Relayed(b, b.coding) : b \in Bodies} \cup {Error(id) : id \in Requests \cup {None}}

\* The types of the front, the verifier's aside.
FrontTyped ==
    /\ stage \in [Requests -> Stages]
    /\ on \in [Requests -> Connections \cup {None}]
    /\ open \in [Connections -> BOOLEAN]
    /\ leftover \in [Connections -> BOOLEAN]
    /\ DOMAIN reply = Requests
    /\ \A r \in Requests : reply[r] \in Replies
    /\ trace \in [Requests -> Requests \cup {None}]

LEMMA Types == TypeOK <=> /\ V!TypeOK /\ FrontTyped
                          /\ DOMAIN answer = Requests
                          /\ \A r \in Requests : answer[r] \in Answers(r) \cup {NoAnswer}
BY DEF TypeOK, FrontTyped, Replies

LEMMA ReplyKinds ==
    /\ NoReply \in Replies /\ NoReply.kind = "none"
    /\ \A id \in Requests \cup {None} : Error(id) \in Replies /\ Error(id).kind = "error"
    /\ \A b \in Bodies :
        /\ Relayed(b, b.coding) \in Replies
        /\ Relayed(b, b.coding).kind = "relay"
        /\ \A a : a.body = b => Sees(Relayed(b, b.coding), a)
BY DEF NoReply, Error, Relayed, Replies, Sees

\* Where a reply, to a client that may be gone, leaves its request.
LEMMA WriteOf ==
  ASSUME FrontTyped, NEW r \in Requests, NEW message \in Replies, Write(r, message)
  PROVE  /\ stage' \in [Requests -> Stages]
         /\ stage'[r] = IF Alive(r) THEN "written" ELSE "done"
         /\ DOMAIN reply' = Requests
         /\ reply'[r] \in {message, reply[r]}
         /\ \A q \in Requests \ {r} : stage'[q] = stage[q] /\ reply'[q] = reply[q]
         /\ \A q \in Requests : reply'[q] \in Replies
BY DEF FrontTyped, Write, Stages

\* Request r takes a step of its own, with at most the answer new to it.
OwnStep(r) ==
    /\ UNCHANGED <<pc, signer, trace>>
    /\ \A q \in Requests \ {r} : answer'[q] = answer[q] /\ on'[q] = on[q]
    /\ answer'[r] = answer[r] \/ pc[r] = "idle"
    /\ on' \in [Requests -> Connections \cup {None}]

Kept == HandlesItsCall /\ RestIsOfReply /\ FrontTyped

LEMMA ReplyKeeps ==
  ASSUME Kept, NEW r \in Requests, NEW message \in Replies, Write(r, message), OwnStep(r),
         on' = on, open' = open,
         leftover' = leftover \/ leftover' = [leftover EXCEPT ![on[r]] = TRUE],
         message.kind = "relay" => pc[r] = "accepted" /\ Sees(message, answer[r])
  PROVE  Kept'
<1> USE DEF Kept
<1>1. /\ stage' \in [Requests -> Stages]
      /\ stage'[r] = IF open[on[r]] THEN "written" ELSE "done"
      /\ DOMAIN reply' = Requests
      /\ reply'[r] \in {message, reply[r]}
      /\ \A q \in Requests \ {r} : stage'[q] = stage[q] /\ reply'[q] = reply[q]
      /\ \A q \in Requests : reply'[q] \in Replies
  BY WriteOf DEF Alive
<1>2. leftover' \in [Connections -> BOOLEAN]
      /\ \A k \in Connections : leftover'[k] => leftover[k] \/ k = on[r]
  BY DEF FrontTyped
<1>3. FrontTyped'
  BY <1>1, <1>2 DEF FrontTyped, OwnStep
<1>4. \A q \in Requests : answer'[q] = answer[q] \/ pc[q] = "idle"
  BY DEF OwnStep
<1>5. pc' = pc /\ signer' = signer
  BY DEF OwnStep
<1>6. HandlesItsCall'
  <2> SUFFICES ASSUME NEW q \in Requests
               PROVE  /\ stage'[q] \in {"idle", "reading", "forwarding", "decoding"} => pc[q] = "idle"
                      /\ pc[q] \in {"waiting", "accepted"} => Signed(q)'
                      /\ reply'[q].kind = "relay" => pc[q] = "accepted" /\ Sees(reply'[q], answer'[q])
    BY <1>5 DEF HandlesItsCall
  <2>1. pc[q] \in {"waiting", "accepted"} => Signed(q)'
    BY <1>4, <1>5 DEF HandlesItsCall, Signed, Covers, IsSigned
  <2>2. stage'[q] \in {"idle", "reading", "forwarding", "decoding"} => pc[q] = "idle"
    BY <1>1 DEF HandlesItsCall
  <2>3. reply'[q].kind = "relay" => pc[q] = "accepted" /\ Sees(reply'[q], answer[q])
    BY <1>1 DEF HandlesItsCall
  <2>4. QED
    BY <1>4, <2>1, <2>2, <2>3
<1>7. RestIsOfReply'
  <2> SUFFICES ASSUME NEW k \in Connections, open[k], leftover'[k]
               PROVE  \E q \in Requests : on[q] = k /\ stage'[q] = "written"
    BY DEF RestIsOfReply
  <2>1. CASE on[r] = k
    BY <1>1, <2>1
  <2>2. CASE on[r] # k
    BY <1>1, <1>2, <2>2 DEF RestIsOfReply
  <2>3. QED
    BY <2>1, <2>2
<1>8. QED
  BY <1>3, <1>6, <1>7

LEMMA MoveKeeps ==
  ASSUME Kept, NEW r \in Requests, NEW place \in Stages, Go(r, place), OwnStep(r),
         UNCHANGED <<open, leftover>>,
         stage[r] # "written", stage[r] = "idle" \/ on' = on,
         place \in {"idle", "reading", "forwarding", "decoding"} => pc[r] = "idle"
  PROVE  Kept'
<1> USE DEF Kept
<1>1. /\ stage' \in [Requests -> Stages] /\ reply' = reply
      /\ stage'[r] = place
      /\ \A q \in Requests \ {r} : stage'[q] = stage[q]
  BY DEF FrontTyped, Go
<1>2. FrontTyped'
  BY <1>1 DEF FrontTyped, OwnStep
<1>3. \A q \in Requests : answer'[q] = answer[q] \/ pc[q] = "idle"
  BY DEF OwnStep
<1>4. pc' = pc /\ signer' = signer
  BY DEF OwnStep
<1>5. HandlesItsCall'
  <2> SUFFICES ASSUME NEW q \in Requests
               PROVE  /\ stage'[q] \in {"idle", "reading", "forwarding", "decoding"} => pc[q] = "idle"
                      /\ pc[q] \in {"waiting", "accepted"} => Signed(q)'
                      /\ reply[q].kind = "relay" => pc[q] = "accepted" /\ Sees(reply[q], answer'[q])
    BY <1>1, <1>4 DEF HandlesItsCall
  <2>1. pc[q] \in {"waiting", "accepted"} => Signed(q)'
    BY <1>3, <1>4 DEF HandlesItsCall, Signed, Covers, IsSigned
  <2>2. stage'[q] \in {"idle", "reading", "forwarding", "decoding"} => pc[q] = "idle"
    BY <1>1 DEF HandlesItsCall
  <2>3. QED
    BY <1>3, <2>1, <2>2 DEF HandlesItsCall
<1>6. RestIsOfReply'
  <2> SUFFICES ASSUME NEW k \in Connections, open[k], leftover[k]
               PROVE  \E q \in Requests : on'[q] = k /\ stage'[q] = "written"
    BY DEF RestIsOfReply
  <2>1. PICK q \in Requests : on[q] = k /\ stage[q] = "written"
    BY DEF RestIsOfReply
  <2>2. q # r
    BY <2>1
  <2>3. QED
    BY <1>1, <2>1, <2>2 DEF OwnStep
<1>7. QED
  BY <1>2, <1>5, <1>6

LEMMA FinishKeepsIt ==
  ASSUME Kept, NEW r \in Requests, Finish(r)
  PROVE  Kept'
<1> USE DEF Kept
<1>1. /\ stage' = [stage EXCEPT ![r] = "done"]
      /\ open' = [open EXCEPT ![on[r]] = ~leftover[on[r]]]
      /\ UNCHANGED <<reply, on, leftover, answer, trace, pc, signer>>
  BY DEF Finish, Go, verifier
<1>2. FrontTyped'
  BY <1>1 DEF FrontTyped, Stages
<1>3. HandlesItsCall'
  BY <1>1 DEF HandlesItsCall, Signed, Covers, IsSigned, FrontTyped
<1>4. RestIsOfReply'
  <2> SUFFICES ASSUME NEW k \in Connections, open'[k], leftover[k]
               PROVE  \E q \in Requests : on[q] = k /\ stage'[q] = "written"
    BY <1>1 DEF RestIsOfReply
  <2>1. on[r] # k /\ open[k]
    BY <1>1 DEF FrontTyped
  <2>2. QED
    BY <1>1, <2>1 DEF RestIsOfReply, FrontTyped
<1>5. QED
  BY <1>2, <1>3, <1>4

LEMMA DisconnectKeeps ==
  ASSUME Kept, NEW k \in Connections, Disconnect(k)
  PROVE  Kept'
<1> USE DEF Kept
<1>1. /\ open' = [open EXCEPT ![k] = FALSE]
      /\ \A r \in Requests : stage'[r] = stage[r] \/ (stage'[r] = "done" /\ on[r] = k)
      /\ stage' \in [Requests -> Stages]
      /\ UNCHANGED <<reply, on, leftover, answer, trace, pc, signer>>
  BY DEF Disconnect, verifier, FrontTyped, Stages
<1>2. FrontTyped'
  BY <1>1 DEF FrontTyped
<1>3. HandlesItsCall'
  BY <1>1 DEF HandlesItsCall, Signed, Covers, IsSigned
<1>4. RestIsOfReply'
  <2> SUFFICES ASSUME NEW j \in Connections, open'[j], leftover[j]
               PROVE  \E q \in Requests : on[q] = j /\ stage'[q] = "written"
    BY <1>1 DEF RestIsOfReply
  <2>1. j # k /\ open[j]
    BY <1>1 DEF FrontTyped
  <2>2. QED
    BY <1>1, <2>1 DEF RestIsOfReply
<1>5. QED
  BY <1>2, <1>3, <1>4

LEMMA VerifyKeeps ==
  ASSUME Kept, DecodesSigned, V!TypeOK, NEW r \in Requests, Verify(r)
  PROVE  Kept'
<1> USE DEF Kept
<1>1. /\ stage' = [stage EXCEPT ![r] = "verifying"] /\ stage[r] = "decoding"
      /\ UNCHANGED <<reply, on, open, leftover, answer, trace>>
  BY DEF Verify, Go, front
<1>2. /\ stage'[r] = "verifying" /\ \A q \in Requests \ {r} : stage'[q] = stage[q]
      /\ stage' \in [Requests -> Stages]
  BY <1>1 DEF FrontTyped, Stages
<1>3. /\ pc[r] = "idle"
      /\ \A q \in Requests \ {r} : pc'[q] = pc[q] /\ signer'[q] = signer[q]
      /\ \/ pc'[r] = "rejected"
         \/ Covers(r) /\ signer'[r] = answer[r].signature.signer
  BY DEF Verify, V!Unverified, V!Hit, V!Miss, V!TypeOK
<1>4. FrontTyped'
  BY <1>1, <1>2 DEF FrontTyped
<1>5. Covers(r) /\ signer'[r] = answer[r].signature.signer => Signed(r)'
  <2>1. IsSigned(answer[r]) /\ answer[r].signature \in Signatures
    BY <1>1 DEF DecodesSigned
  <2>2. answer[r].body \in Bodies
    <3>1. answer[r] \in Answers(r)
      BY <2>1 DEF DecodesSigned, IsSigned, NoAnswer
    <3>2. QED
      BY <3>1 DEF Answers, Verify
  <2>3. QED
    BY <1>1, <2>1, <2>2 DEF Signed, Covers
<1>6. HandlesItsCall'
  <2> SUFFICES ASSUME NEW q \in Requests
               PROVE  /\ stage'[q] \in {"idle", "reading", "forwarding", "decoding"} => pc'[q] = "idle"
                      /\ pc'[q] \in {"waiting", "accepted"} => Signed(q)'
                      /\ reply[q].kind = "relay" => pc'[q] = "accepted" /\ Sees(reply[q], answer[q])
    BY <1>1 DEF HandlesItsCall
  <2>1. CASE q = r
    BY <1>2, <1>3, <1>5, <2>1 DEF HandlesItsCall
  <2>2. CASE q # r
    BY <1>1, <1>2, <1>3, <2>2 DEF HandlesItsCall, Signed, Covers, IsSigned
  <2>3. QED
    BY <2>1, <2>2
<1>7. RestIsOfReply'
  BY <1>1, <1>2 DEF RestIsOfReply
<1>8. QED
  BY <1>4, <1>6, <1>7

LEMMA BesideKeeps ==
  ASSUME Kept, DecodesSigned, V!TypeOK, Attest \/ \E d \in Requests : FlightEnds(d)
  PROVE  Kept'
<1> USE DEF Kept
<1>1. UNCHANGED <<stage, reply, on, open, leftover, answer, signer>>
  BY DEF Attest, FlightEnds, front, V!Tick, V!Fetched, V!Proves, V!Fails, V!Deadline, V!FlightEnds
<1>2. \A r \in Requests : \/ pc'[r] = pc[r]
                          \/ pc[r] = "waiting" /\ pc'[r] \in {"accepted", "rejected"}
  BY DEF Attest, FlightEnds, V!Tick, V!Fetched, V!Proves, V!Fails, V!Deadline, V!FlightEnds
<1>3. trace' \in [Requests -> Requests \cup {None}]
  <2>1. CASE Attest
    BY <2>1 DEF Attest, FrontTyped
  <2>2. ASSUME NEW d \in Requests, FlightEnds(d), trace' # trace
        PROVE  \E id \in Requests \cup {None} : trace' = [trace EXCEPT ![d] = id]
    <3>1. PICK id \in UpstreamTraceIds(d) : trace' = [trace EXCEPT ![d] = id]
      BY <2>2 DEF FlightEnds
    <3>2. PICK r \in Requests : id = answer[r].trace
      BY DEF UpstreamTraceIds, Waiters
    <3>3. id \in Requests \cup {None}
      BY <3>2 DEF DecodesSigned, Answers, NoAnswer
    <3>4. QED
      BY <3>1, <3>3
  <2>3. QED
    BY <2>1, <2>2 DEF FrontTyped
<1>4. FrontTyped'
  BY <1>1, <1>3 DEF FrontTyped
<1>5. HandlesItsCall'
  BY <1>1, <1>2 DEF HandlesItsCall, Signed, Covers, IsSigned
<1>6. RestIsOfReply'
  BY <1>1 DEF RestIsOfReply
<1>7. QED
  BY <1>4, <1>5, <1>6

\* The paths that end in an error; its trace id, if any, is a request's.
ErrorOf(r) ==
    \/ Overflow(r) \/ UpstreamFails(r) \/ DecodeFails(r) \/ RenderError(r)
    \/ \E a \in Answers(r) : UpstreamAnswers(r, a) /\ ~IsSigned(a)

LEMMA ErrorIsWritten ==
  ASSUME FrontTyped, DecodesSigned, V!TypeOK, NEW r \in Requests, ErrorOf(r)
  PROVE  \E id \in Requests \cup {None} : Write(r, Error(id))
<1>1. answer[r].trace \in Requests \cup {None}
  BY DEF DecodesSigned, Answers, NoAnswer
<1>2. flight[r] # None => trace[flight[r]] \in Requests \cup {None}
  BY DEF V!TypeOK, FrontTyped
<1>3. CASE Overflow(r) \/ UpstreamFails(r) \/ DecodeFails(r) \/ RenderError(r)
  BY <1>1, <1>2, <1>3 DEF Overflow, UpstreamFails, DecodeFails, RenderError
<1>4. ASSUME NEW a \in Answers(r), UpstreamAnswers(r, a), ~IsSigned(a)
      PROVE  a.trace \in Requests \cup {None} /\ Write(r, Error(a.trace))
  BY <1>4 DEF Answers, UpstreamAnswers
<1>5. QED
  BY <1>3, <1>4 DEF ErrorOf

LEMMA StepKeeps ==
  ASSUME Kept, DecodesSigned, V!TypeOK, [Next]_vars
  PROVE  Kept'
<1>3. ASSUME NEW r \in Requests, NEW k \in Connections, Begin(r, k) PROVE Kept'
  <2>1. Go(r, "reading") /\ stage[r] = "idle" /\ UNCHANGED <<open, leftover>> /\ pc[r] = "idle"
    BY <1>3 DEF Begin, Kept, HandlesItsCall
  <2>2. OwnStep(r) /\ "reading" \in Stages
    BY <1>3 DEF Begin, OwnStep, verifier, Kept, FrontTyped, Stages
  <2>3. QED
    BY <2>1, <2>2, MoveKeeps
<1>4. ASSUME NEW r \in Requests, ErrorOf(r) PROVE Kept'
  <2>1. PICK id \in Requests \cup {None} : Write(r, Error(id))
    BY <1>4, ErrorIsWritten DEF Kept
  <2>2. Error(id) \in Replies /\ Error(id).kind # "relay"
    BY ReplyKinds
  <2>3. on' = on /\ open' = open
        /\ (leftover' = leftover \/ leftover' = [leftover EXCEPT ![on[r]] = TRUE])
    BY <1>4 DEF ErrorOf, Overflow, UpstreamFails, DecodeFails, RenderError, UpstreamAnswers, front
  <2>4. OwnStep(r)
    <3>1. CASE Overflow(r) \/ UpstreamFails(r) \/ DecodeFails(r) \/ RenderError(r)
      BY <2>3, <3>1 DEF Overflow, UpstreamFails, DecodeFails, RenderError, OwnStep, verifier,
                        Kept, FrontTyped
    <3>2. ASSUME NEW a \in Answers(r), UpstreamAnswers(r, a) PROVE OwnStep(r)
      <4>1. stage[r] = "forwarding" /\ pc[r] = "idle" /\ answer' = [answer EXCEPT ![r] = a]
        BY <3>2 DEF UpstreamAnswers, Kept, HandlesItsCall
      <4>2. QED
        BY <2>3, <3>2, <4>1 DEF UpstreamAnswers, OwnStep, verifier, Kept, FrontTyped
    <3>3. QED
      BY <1>4, <3>1, <3>2 DEF ErrorOf
  <2>5. QED
    BY <2>1, <2>2, <2>3, <2>4, ReplyKeeps
<1>5. ASSUME NEW r \in Requests, BodyRead(r) PROVE Kept'
  <2>1. Go(r, "forwarding") /\ stage[r] = "reading" /\ UNCHANGED <<on, open, leftover>>
        /\ pc[r] = "idle"
    BY <1>5 DEF BodyRead, Kept, HandlesItsCall, front
  <2>2. OwnStep(r) /\ "forwarding" \in Stages
    BY <1>5 DEF BodyRead, OwnStep, front, verifier, Kept, FrontTyped, Stages
  <2>3. QED
    BY <2>1, <2>2, MoveKeeps
<1>8. ASSUME NEW r \in Requests, NEW a \in Answers(r), UpstreamAnswers(r, a), IsSigned(a)
      PROVE  Kept'
  <2>1. /\ stage[r] = "forwarding" /\ pc[r] = "idle"
        /\ answer' = [answer EXCEPT ![r] = a] /\ UNCHANGED front
    BY <1>8 DEF UpstreamAnswers, Kept, HandlesItsCall
  <2>2. OwnStep(r)
    BY <1>8, <2>1 DEF UpstreamAnswers, OwnStep, front, verifier, Kept, FrontTyped
  <2>3. Go(r, "decoding") /\ "decoding" \in Stages /\ UNCHANGED <<on, open, leftover>>
    BY <1>8, <2>1 DEF UpstreamAnswers, Stages, front
  <2>4. QED
    BY <2>1, <2>2, <2>3, MoveKeeps
<1>9. ASSUME NEW r \in Requests, Relay(r) PROVE Kept'
  <2>1. /\ Write(r, Relayed(answer[r].body, answer[r].body.coding)) /\ pc[r] = "accepted" /\ OwnStep(r)
        /\ UNCHANGED <<on, open, leftover>>
    BY <1>9 DEF Relay, OwnStep, front, verifier, Kept, FrontTyped
  <2>2. answer[r].body \in Bodies
    BY <2>1 DEF Kept, HandlesItsCall, Signed
  <2>3. Relayed(answer[r].body, answer[r].body.coding) \in Replies
        /\ Sees(Relayed(answer[r].body, answer[r].body.coding), answer[r])
    BY <2>2, ReplyKinds
  <2>4. QED
    BY <2>1, <2>3, ReplyKeeps
<1>10. CASE UNCHANGED vars
  BY <1>10 DEF vars, Kept, HandlesItsCall, RestIsOfReply, FrontTyped, Signed, Covers
<1>11. QED
  BY <1>3, <1>4, <1>5, <1>8, <1>9, <1>10, VerifyKeeps, BesideKeeps, FinishKeepsIt,
     DisconnectKeeps DEF Next, ErrorOf

LEMMA KeptHolds == Spec => [](Kept /\ DecodesSigned /\ P!Inductive /\ P!AcceptedIsOfProved)
<1>1. Init => Kept /\ DecodesSigned
  <2>1. Init => FrontTyped /\ DecodesSigned
    BY ReplyKinds DEF Init, FrontTyped, DecodesSigned, Stages
  <2>2. Init => HandlesItsCall /\ RestIsOfReply
    BY ReplyKinds DEF Init, HandlesItsCall, RestIsOfReply, V!Init
  <2>3. QED
    BY <2>1, <2>2 DEF Kept
<1>2. P!Inductive => V!TypeOK
  BY SameVerifier DEF P!Inductive
<1>3. Kept /\ DecodesSigned /\ P!Inductive /\ [Next]_vars => Kept' /\ DecodesSigned'
  BY <1>2, StepKeeps, DecodesSignedInductive
<1>4. QED
  BY <1>1, <1>3, VerifierHolds, PTL DEF Spec

-----------------------------------------------------------------------------
(* The properties *)

\* The proxy's state has its types, its verifier's included.
THEOREM Typed == Spec => []TypeOK
<1>1. Kept /\ DecodesSigned /\ P!Inductive => TypeOK
  BY SameVerifier, Types DEF Kept, DecodesSigned, P!Inductive
<1>2. QED
  BY <1>1, KeptHolds, PTL

\* What a client is given was signed, for its own request, by a proved signer.
THEOREM RelaysAreVerified == Spec => []RelayedIsVerified
<1>1. Kept /\ P!AcceptedIsOfProved => RelayedIsVerified
  <2> SUFFICES ASSUME Kept, P!AcceptedIsOfProved, NEW r \in Requests, reply[r].kind = "relay"
               PROVE  /\ answer[r].signature # None
                      /\ answer[r].signature.req = r
                      /\ answer[r].signature.text = Reads(reply[r])
                      /\ \E d \in Requests : /\ attestation[d].outcome = "proved"
                                             /\ signer[d] = answer[r].signature.signer
    BY DEF RelayedIsVerified
  <2>1. pc[r] = "accepted" /\ Signed(r) /\ Sees(reply[r], answer[r])
    BY DEF Kept, HandlesItsCall
  <2>2. \E d \in P!Proved : signer[d] = signer[r]
    BY <2>1 DEF P!AcceptedIsOfProved
  <2>3. Reads(reply[r]) = answer[r].body.text
    BY <2>1 DEF Sees, Reads
  <2>4. QED
    BY <2>1, <2>2, <2>3 DEF Signed, Covers, IsSigned, P!Proved
<1>2. QED
  BY <1>1, KeptHolds, PTL

\* No request is read from a connection that holds the rest of another.
THEOREM NoGhostIsRead == Spec => NoGhostRequest
<1> DEFINE clean == \A r \in Requests : stage[r] = "idle" /\ stage'[r] = "reading" => ~leftover[on'[r]]
<1>1. Kept /\ DecodesSigned /\ [Next]_vars => [clean]_vars
  <2> SUFFICES ASSUME Kept, DecodesSigned, [Next]_vars,
                      NEW r \in Requests, stage[r] = "idle", stage'[r] = "reading"
               PROVE  ~leftover[on'[r]]
    OBVIOUS
  <2>1. stage \in [Requests -> Stages] /\ on \in [Requests -> Connections \cup {None}]
    BY DEF Kept, FrontTyped
  <2>2. ASSUME NEW q \in Requests, NEW place, place # "reading",
               stage' = [stage EXCEPT ![q] = place]
        PROVE  FALSE
    BY <2>1, <2>2
  <2>3. ASSUME NEW q \in Requests, NEW message, Write(q, message) PROVE FALSE
    BY <2>2, <2>3 DEF Write
  <2>4. PICK q \in Requests : \E k \in Connections : Begin(q, k)
    <3>1. ASSUME NEW q \in Requests,
                 \/ Overflow(q) \/ UpstreamFails(q) \/ DecodeFails(q) \/ Relay(q) \/ RenderError(q)
                 \/ BodyRead(q) \/ Verify(q) \/ Finish(q)
                 \/ \E a \in Answers(q) : UpstreamAnswers(q, a)
          PROVE  FALSE
      BY <2>2, <2>3, <3>1 DEF Overflow, UpstreamFails, DecodeFails, Relay, RenderError, BodyRead,
                              Verify, Finish, UpstreamAnswers, Go
    <3>2. ASSUME NEW k \in Connections, Disconnect(k) PROVE FALSE
      BY <3>2 DEF Disconnect
    <3>3. ASSUME UNCHANGED stage PROVE FALSE
      BY <3>3
    <3>4. QED
      BY <3>1, <3>2, <3>3 DEF Next, Attest, FlightEnds, vars
  <2>5. PICK k \in Connections : Begin(q, k)
    BY <2>4
  <2>6. /\ stage' = [stage EXCEPT ![q] = "reading"] /\ on' = [on EXCEPT ![q] = k]
        /\ open[k] /\ ~Busy(k)
    BY <2>5 DEF Begin, Go
  <2>7. q = r /\ on'[r] = k
    BY <2>1, <2>6
  <2>8. ~ \E p \in Requests : on[p] = k /\ stage[p] = "written"
    BY <2>6 DEF Busy
  <2>9. QED
    BY <2>6, <2>7, <2>8 DEF Kept, RestIsOfReply
<1>2. QED
  BY <1>1, KeptHolds, PTL DEF Spec, NoGhostRequest

-----------------------------------------------------------------------------
(* Every request is answered once, unless its client is gone *)

Under(r) == stage[r] \notin {"idle", "done"}

\* Requests of one connection are handled one after the other.
OneAtATime == \A r, q \in Requests : Under(r) /\ Under(q) /\ on[r] = on[q] => r = q

\* A reply stands from when it is written; a response that is not out yet is
\* one to a client that is there.
RepliesEnd ==
    \A r \in Requests :
        /\ stage[r] \notin {"written", "done"} => reply[r].kind = "none"
        /\ stage[r] = "written" => open[on[r]] /\ reply[r].kind # "none"

Answering == OneAtATime /\ RepliesEnd /\ UnansweredIsGone

LEMMA WriteAnswers ==
  ASSUME Answering, FrontTyped, NEW r \in Requests, NEW message \in Replies, Write(r, message),
         message.kind # "none", stage[r] \notin {"idle", "written", "done"},
         on' = on, open' = open
  PROVE  Answering' /\ \A q \in Requests : reply[q].kind # "none" => reply'[q] = reply[q]
<1>1. /\ stage'[r] = IF open[on[r]] THEN "written" ELSE "done"
      /\ \A q \in Requests \ {r} : stage'[q] = stage[q] /\ reply'[q] = reply[q]
  BY WriteOf DEF Alive
<1>2. IF open[on[r]] THEN reply'[r] = message ELSE reply'[r] = reply[r]
  BY DEF Write, Alive, FrontTyped
<1>3. reply[r].kind = "none"
  BY DEF Answering, RepliesEnd
<1>4. OneAtATime'
  BY <1>1 DEF Answering, OneAtATime, Under
<1>5. RepliesEnd' /\ UnansweredIsGone'
  BY <1>1, <1>2, <1>3 DEF Answering, RepliesEnd, UnansweredIsGone
<1>6. QED
  BY <1>1, <1>3, <1>4, <1>5 DEF Answering

LEMMA MoveAnswers ==
  ASSUME Answering, FrontTyped, NEW r \in Requests, NEW place, Go(r, place),
         place \notin {"idle", "written", "done"}, stage[r] \notin {"written", "done"},
         open' = open,
         \/ stage[r] # "idle" /\ on' = on
         \/ \E k \in Connections : ~Busy(k) /\ on' = [on EXCEPT ![r] = k]
  PROVE  Answering' /\ reply' = reply
<1>1. /\ stage'[r] = place /\ \A q \in Requests \ {r} : stage'[q] = stage[q]
      /\ reply' = reply
  BY DEF Go, FrontTyped
<1>2. \A q \in Requests \ {r} : on'[q] = on[q]
  BY DEF FrontTyped
<1>3. OneAtATime'
  <2>1. CASE stage[r] # "idle" /\ on' = on
    BY <1>1, <2>1 DEF Answering, OneAtATime, Under
  <2>2. ASSUME NEW k \in Connections, ~Busy(k), on' = [on EXCEPT ![r] = k]
        PROVE  OneAtATime'
    <3>1. on'[r] = k /\ \A q \in Requests : on[q] = k => stage[q] \in {"idle", "done"}
      BY <2>2 DEF Busy, FrontTyped
    <3>2. QED
      BY <1>1, <1>2, <3>1 DEF Answering, OneAtATime, Under
  <2>3. QED
    BY <2>1, <2>2
<1>4. RepliesEnd' /\ UnansweredIsGone'
  BY <1>1, <1>2 DEF Answering, RepliesEnd, UnansweredIsGone
<1>5. QED
  BY <1>1, <1>3, <1>4 DEF Answering

LEMMA FinishAnswers ==
  ASSUME Answering, FrontTyped, NEW r \in Requests, Finish(r)
  PROVE  Answering' /\ reply' = reply
<1>1. /\ stage[r] = "written" /\ stage'[r] = "done"
      /\ \A q \in Requests \ {r} : stage'[q] = stage[q]
      /\ open' = [open EXCEPT ![on[r]] = ~leftover[on[r]]]
      /\ UNCHANGED <<reply, on>>
  BY DEF Finish, Go, FrontTyped
<1>2. /\ open[on[r]] /\ reply[r].kind # "none"
      /\ \A q \in Requests \ {r} : Under(q) => on[q] # on[r]
  BY <1>1 DEF Answering, RepliesEnd, OneAtATime, Under
<1>3. \A k \in Connections : k # on[r] => open'[k] = open[k]
  BY <1>1 DEF FrontTyped
<1>4. OneAtATime'
  BY <1>1 DEF Answering, OneAtATime, Under
<1>5. RepliesEnd'
  <2> SUFFICES ASSUME NEW q \in Requests
               PROVE  /\ stage'[q] \notin {"written", "done"} => reply[q].kind = "none"
                      /\ stage'[q] = "written" => open'[on[q]] /\ reply[q].kind # "none"
    BY <1>1 DEF RepliesEnd
  <2>1. CASE q = r
    BY <1>1, <2>1
  <2>2. CASE q # r
    <3>1. stage[q] = "written" => open'[on[q]] = open[on[q]]
      BY <1>1, <1>2, <2>2 DEF Under, FrontTyped
    <3>2. QED
      BY <1>1, <2>2, <3>1 DEF Answering, RepliesEnd
  <2>3. QED
    BY <2>1, <2>2
<1>6. UnansweredIsGone'
  <2> SUFFICES ASSUME NEW q \in Requests, stage'[q] = "done", reply[q].kind = "none"
               PROVE  ~open'[on[q]]
    BY <1>1 DEF UnansweredIsGone
  <2>1. q # r /\ ~open[on[q]]
    BY <1>1, <1>2 DEF Answering, UnansweredIsGone
  <2>2. on[q] # on[r]
    BY <1>2, <2>1
  <2>3. open'[on[q]] = open[on[q]]
    BY <1>1, <2>2 DEF FrontTyped
  <2>4. QED
    BY <2>1, <2>3
<1>7. QED
  BY <1>1, <1>4, <1>5, <1>6 DEF Answering

LEMMA DisconnectAnswers ==
  ASSUME Answering, FrontTyped, NEW k \in Connections, Disconnect(k)
  PROVE  Answering' /\ reply' = reply
<1>1. /\ reply' = reply /\ on' = on /\ open' = [open EXCEPT ![k] = FALSE]
      /\ stage' = [r \in Requests |->
            IF on[r] = k /\ stage[r] \in {"reading", "forwarding", "written"}
            THEN "done" ELSE stage[r]]
  BY DEF Disconnect
<1>2. ~open'[k] /\ \A j : j # k => open'[j] = open[j]
  BY <1>1 DEF FrontTyped
<1>3. \A r \in Requests : /\ stage'[r] = stage[r] \/ (stage'[r] = "done" /\ on[r] = k)
                          /\ stage'[r] = "written" => stage[r] = "written" /\ on[r] # k
                          /\ stage'[r] \notin {"written", "done"} => stage'[r] = stage[r]
  BY <1>1
<1>4. OneAtATime'
  BY <1>1, <1>3 DEF Answering, OneAtATime, Under
<1>5. RepliesEnd'
  BY <1>1, <1>2, <1>3 DEF Answering, RepliesEnd
<1>6. UnansweredIsGone'
  BY <1>1, <1>2, <1>3 DEF Answering, UnansweredIsGone
<1>7. QED
  BY <1>1, <1>4, <1>5, <1>6 DEF Answering

LEMMA StepAnswers ==
  ASSUME Answering, Kept, DecodesSigned, V!TypeOK, [Next]_vars
  PROVE  Answering' /\ \A q \in Requests : reply[q].kind # "none" => reply'[q] = reply[q]
<1> USE DEF Kept
<1>1. ASSUME NEW r \in Requests, ErrorOf(r)
      PROVE  Answering' /\ \A q \in Requests : reply[q].kind # "none" => reply'[q] = reply[q]
  <2>1. PICK id \in Requests \cup {None} : Write(r, Error(id))
    BY <1>1, ErrorIsWritten
  <2>2. Error(id) \in Replies /\ Error(id).kind # "none"
    BY ReplyKinds
  <2>3. stage[r] \notin {"idle", "written", "done"} /\ on' = on /\ open' = open
    BY <1>1 DEF ErrorOf, Overflow, UpstreamFails, DecodeFails, RenderError, UpstreamAnswers, front
  <2>4. QED
    BY <2>1, <2>2, <2>3, WriteAnswers
<1>2. ASSUME NEW r \in Requests, Relay(r)
      PROVE  Answering' /\ \A q \in Requests : reply[q].kind # "none" => reply'[q] = reply[q]
  <2>1. /\ Write(r, Relayed(answer[r].body, answer[r].body.coding)) /\ pc[r] = "accepted"
        /\ stage[r] = "verifying" /\ on' = on /\ open' = open
    BY <1>2 DEF Relay, front
  <2>2. answer[r].body \in Bodies
    BY <2>1 DEF HandlesItsCall, Signed
  <2>3. Relayed(answer[r].body, answer[r].body.coding) \in Replies
        /\ Relayed(answer[r].body, answer[r].body.coding).kind # "none"
    BY <2>2, ReplyKinds
  <2>4. QED
    BY <2>1, <2>3, WriteAnswers
<1>3. ASSUME NEW r \in Requests,
             \/ BodyRead(r) \/ Verify(r) \/ \E k \in Connections : Begin(r, k)
             \/ \E a \in Answers(r) : UpstreamAnswers(r, a) /\ IsSigned(a)
      PROVE  Answering' /\ reply' = reply
  <2>1. /\ \E place \in {"reading", "forwarding", "verifying", "decoding"} : Go(r, place)
        /\ stage[r] \notin {"written", "done"} /\ open' = open
        /\ \/ stage[r] # "idle" /\ on' = on
           \/ \E k \in Connections : ~Busy(k) /\ on' = [on EXCEPT ![r] = k]
    BY <1>3 DEF BodyRead, Verify, Begin, UpstreamAnswers, front
  <2>2. QED
    BY <2>1, MoveAnswers
<1>4. CASE \/ Attest \/ UNCHANGED vars \/ \E d \in Requests : FlightEnds(d)
  BY <1>4 DEF Attest, FlightEnds, vars, front, Answering, OneAtATime, Under, RepliesEnd,
              UnansweredIsGone
<1>5. QED
  BY <1>1, <1>2, <1>3, <1>4, FinishAnswers, DisconnectAnswers DEF Next, ErrorOf

LEMMA AnsweringHolds == Spec => []Answering
<1>1. Init => Answering
  BY ReplyKinds DEF Init, Answering, OneAtATime, Under, RepliesEnd, UnansweredIsGone
<1>2. P!Inductive => V!TypeOK
  BY SameVerifier DEF P!Inductive
<1>3. Answering /\ Kept /\ DecodesSigned /\ P!Inductive /\ [Next]_vars => Answering'
  BY <1>2, StepAnswers
<1>4. QED
  BY <1>1, <1>3, KeptHolds, PTL DEF Spec

\* A request whose client stays gets a reply.
THEOREM NobodyIsForgotten == Spec => []UnansweredIsGone
<1>1. Answering => UnansweredIsGone
  BY DEF Answering
<1>2. QED
  BY <1>1, AnsweringHolds, PTL

\* No request is replied to twice.
THEOREM RepliedOnce == Spec => RepliesAreFinal
<1>1. P!Inductive => V!TypeOK
  BY SameVerifier DEF P!Inductive
<1>2. Answering /\ Kept /\ DecodesSigned /\ P!Inductive /\ [Next]_vars
        => [\A r \in Requests : reply[r].kind # "none" => reply'[r] = reply[r]]_vars
  BY <1>1, StepAnswers
<1>3. QED
  BY <1>2, AnsweringHolds, KeptHolds, PTL DEF Spec, RepliesAreFinal
=============================================================================
