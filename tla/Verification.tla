------------------------------ MODULE Verification ------------------------------
(***************************************************************************)
(* One answer on its way from the node that signed it to verifyResponse of *)
(* core/src/verify.ts, which rebuilds the signed pre-image of preimage.ts. *)
(* The gateway in between may drop, replace and repeat headers, change the *)
(* body, put in any part of another answer a node gave, and hold the       *)
(* answer back.                                                            *)
(*                                                                         *)
(* SHA-256 and Ed25519 are taken to be sound: a pre-image stands for the   *)
(* fields it is made of, and a signature is one that a node made.  A hex   *)
(* string stands for its bytes.  Widths are parameters: U64Max is 2^64 - 1 *)
(* and MaxDecimal the largest number of 20 digits in the code.             *)
(***************************************************************************)
EXTENDS Integers, Sequences, FiniteSets

CONSTANTS ChainIds,    \* chain ids clients are configured with, sequences of characters
          NodeChains,  \* chain ids nodes sign for
          Graphic,     \* printable ASCII characters
          Space, Wide, \* white space; a character of two UTF-8 bytes
          MaxLen,      \* CHAIN_ID_MAX_LEN
          Requests, Bodies, Keys, NodeIds,
          U64Max, MaxDecimal, MaxNow,
          Window,      \* replayWindowMs
          MaxSigned,   \* bound on the answers nodes sign
          MaxEdits,    \* bound on what the gateway does to the answer
          Absent, Malformed, OutOfRange

ASSUME WidthAssumption ==
    /\ U64Max \in Nat /\ MaxDecimal \in Nat /\ U64Max <= MaxDecimal /\ MaxNow \in Nat
    /\ Window \in Nat /\ MaxLen \in Nat /\ MaxSigned \in Nat /\ MaxEdits \in Nat

ASSUME ChainIdAssumption == ChainIds \subseteq Seq(Graphic \cup {Space, Wide})

VARIABLES chainId,  \* the chain id the client was configured with
          request,  \* the bytes the client sent
          signed,   \* the answers nodes have signed
          headers,  \* the answer's headers
          body,     \* the answer's decoded bytes
          now,      \* Date.now() of the client
          edits,    \* how often the gateway changed the answer
          verdict   \* what verifyResponse made of it

call == <<chainId, request, now>>
vars == <<chainId, request, signed, headers, body, now, edits, verdict>>

-----------------------------------------------------------------------------
(* Chain ids: validateChainId *)

Trim(id) ==
    LET kept == {i \in DOMAIN id : id[i] # Space}
    IN IF kept = {} THEN <<>>
       ELSE SubSeq(id, CHOOSE i \in kept : \A j \in kept : i <= j,
                       CHOOSE i \in kept : \A j \in kept : i >= j)

Utf8Length(id) == Len(id) + Len(SelectSeq(id, LAMBDA c : c = Wide))

ValidChainId(id) ==
    LET trimmed == Trim(id)
    IN /\ trimmed # <<>>
       /\ Utf8Length(trimmed) <= MaxLen
       /\ \A i \in DOMAIN trimmed : trimmed[i] \in Graphic

-----------------------------------------------------------------------------
(* The pre-image and the signature *)

\* An answer as its node knows it.
Answers == [key : Keys, chain : NodeChains, request : Requests, body : Bodies,
            timestamp : 0 .. U64Max]

\* The eight bytes of a u64 stand for the number they encode.
U64LE(n) == IF n > U64Max THEN OutOfRange ELSE n

\* Fault: the chain id is left out.
BuildPreImageOfAnyChain(chain, req, bytes, timestamp) ==
    [request |-> req, body |-> bytes, timestamp |-> U64LE(timestamp)]

BuildPreImage(chain, req, bytes, timestamp) ==
    [chain |-> chain, request |-> req, body |-> bytes, timestamp |-> U64LE(timestamp)]

Signature(key, image) == [key |-> key, image |-> image]

SignatureOf(a) == Signature(a.key, BuildPreImage(a.chain, a.request, a.body, a.timestamp))

\* No value of a header is one of the marks.
ASSUME MarkAssumption ==
    /\ Absent # Malformed
    /\ \A mark \in {Absent, Malformed, OutOfRange} : mark \notin Nat \cup Keys \cup NodeIds
    /\ \A a \in Answers : SignatureOf(a) \notin {Absent, Malformed}

-----------------------------------------------------------------------------
(* Headers *)

Field(name, value) == [name |-> name, value |-> value]

\* A Headers object joins the values of a name with commas, which no header
\* allows; in a Record, keys that differ in case are two fields and the first
\* one counts.
GetHeader(name) ==
    LET at == {i \in DOMAIN headers.fields : headers.fields[i].name = name}
    IN IF at = {} THEN Absent
       ELSE IF headers.kind = "Headers" /\ \E i, j \in at : i # j THEN Malformed
       ELSE headers.fields[CHOOSE i \in at : \A j \in at : i <= j].value

\* Fault: any 20 digits are taken.
TimestampOf20Digits(timestamp) == timestamp # Malformed

TimestampOk(timestamp) == timestamp # Malformed /\ timestamp <= U64Max

\* The node id is optional.
Missing == Absent \in {GetHeader("signature"), GetHeader("pubkey"), GetHeader("timestamp")}

WellFormed ==
    /\ GetHeader("signature") # Malformed
    /\ GetHeader("pubkey") # Malformed
    /\ TimestampOk(GetHeader("timestamp"))
    /\ GetHeader("nodeId") # Malformed

-----------------------------------------------------------------------------
(* verifyResponse *)

\* Fault: the boundary is outside.
InWindowStrictly(timestamp) ==
    /\ timestamp - now < Window
    /\ now - timestamp < Window

InWindow(timestamp) ==
    LET skew == timestamp - now
    IN (IF skew < 0 THEN -skew ELSE skew) <= Window

\* Fault: the window is looked at before the signature.
VerdictWindowFirst ==
    LET timestamp == GetHeader("timestamp")
        image     == BuildPreImage(Trim(chainId), request, body, timestamp)
    IN IF ~ValidChainId(chainId) THEN "InvalidChainId"
       ELSE IF Missing THEN "MissingHeader"
       ELSE IF ~WellFormed THEN "MalformedHeader"
       ELSE IF ~InWindow(timestamp) THEN "StaleTimestamp"
       ELSE IF GetHeader("signature") # Signature(GetHeader("pubkey"), image) THEN "BadSignature"
       ELSE "verified"

\* The checks in the code's order.
Verdict ==
    LET timestamp == GetHeader("timestamp")
        image     == BuildPreImage(Trim(chainId), request, body, timestamp)
    IN IF ~ValidChainId(chainId) THEN "InvalidChainId"
       ELSE IF Missing THEN "MissingHeader"
       ELSE IF ~WellFormed THEN "MalformedHeader"
       ELSE IF image.timestamp = OutOfRange THEN "RangeError"
       ELSE IF GetHeader("signature") # Signature(GetHeader("pubkey"), image) THEN "BadSignature"
       ELSE IF ~InWindow(timestamp) THEN "StaleTimestamp"
       ELSE "verified"

Verify ==
    /\ verdict = "none"
    /\ verdict' = Verdict
    /\ UNCHANGED <<call, signed, headers, body, edits>>

-----------------------------------------------------------------------------
(* The gateway *)

\* The values a gateway can put in each header.
Values == [signature |-> {SignatureOf(a) : a \in signed} \cup {Malformed},
           pubkey    |-> Keys \cup {Malformed},
           timestamp |-> 0 .. MaxDecimal \cup {Malformed},
           nodeId    |-> NodeIds \cup {Malformed}]

Edit(fields) ==
    /\ verdict = "none"
    /\ edits < MaxEdits
    /\ edits' = edits + 1
    /\ headers' = [headers EXCEPT !.fields = fields]
    /\ UNCHANGED <<call, verdict>>

DropField(i) ==
    /\ Edit(SubSeq(headers.fields, 1, i - 1)
            \o SubSeq(headers.fields, i + 1, Len(headers.fields)))
    /\ UNCHANGED <<signed, body>>

ReplaceField(i, value) ==
    /\ value \in Values[headers.fields[i].name]
    /\ Edit([headers.fields EXCEPT ![i].value = value])
    /\ UNCHANGED <<signed, body>>

\* In front of the others: in a Record this is the one that counts.
AddField(name, value) ==
    /\ value \in Values[name]
    /\ Edit(<<Field(name, value)>> \o headers.fields)
    /\ UNCHANGED <<signed, body>>

ReplaceBody(bytes) ==
    /\ Edit(headers.fields)
    /\ body' = bytes
    /\ UNCHANGED signed

\* What the gateway has of another answer takes the place of this answer's:
\* its body or not, and any of its headers.
Splice(a, names, bytes) ==
    /\ bytes \in {a.body, body}
    /\ LET of == [signature |-> SignatureOf(a), pubkey |-> a.key, timestamp |-> a.timestamp]
       IN Edit([i \in DOMAIN headers.fields |->
                    LET name == headers.fields[i].name
                    IN IF name \in names THEN Field(name, of[name]) ELSE headers.fields[i]])
    /\ body' = bytes
    /\ UNCHANGED signed

\* Any node answers this or another request of the client, and the gateway has
\* that answer too.
NodeSigns(a) ==
    /\ verdict = "none"
    /\ edits = 0
    /\ Cardinality(signed) < MaxSigned
    /\ signed' = signed \cup {a}
    /\ UNCHANGED <<call, headers, body, edits, verdict>>

-----------------------------------------------------------------------------

\* A node has answered the client's request; what it sent and when the client
\* comes to verify it are any.
Init ==
    /\ chainId \in ChainIds
    /\ request \in Requests
    /\ now \in 0 .. MaxNow
    /\ \E a \in Answers, kind \in {"Headers", "Record"} :
        /\ a.request = request
        /\ signed = {a}
        /\ body = a.body
        /\ \E nodeId \in {<<>>} \cup {<<Field("nodeId", id)>> : id \in NodeIds} :
             headers = [kind |-> kind,
                        fields |-> <<Field("signature", SignatureOf(a)),
                                     Field("pubkey", a.key),
                                     Field("timestamp", a.timestamp)>> \o nodeId]
    /\ edits = 0
    /\ verdict = "none"

Next ==
    \/ Verify
    \/ \E i \in DOMAIN headers.fields :
        \/ DropField(i)
        \/ \E value \in Values[headers.fields[i].name] : ReplaceField(i, value)
    \/ \E name \in DOMAIN Values : \E value \in Values[name] : AddField(name, value)
    \/ \E bytes \in Bodies : ReplaceBody(bytes)
    \/ \E a \in signed, names \in SUBSET {"signature", "pubkey", "timestamp"}, bytes \in Bodies :
        Splice(a, names, bytes)
    \/ \E a \in Answers : NodeSigns(a)

Spec == Init /\ [][Next]_vars

-----------------------------------------------------------------------------
(* Correctness *)

Fields == UNION {[name : {n}, value : Values[n]] : n \in DOMAIN Values}

\* The answer's headers are ones that can be put together from what nodes have
\* signed, and the outcome is one the callers of verifyResponse know.
TypeOK ==
    /\ chainId \in ChainIds
    /\ request \in Requests
    /\ signed \subseteq Answers
    /\ headers \in [kind : {"Headers", "Record"}, fields : Seq(Fields)]
    /\ body \in Bodies
    /\ now \in 0 .. MaxNow
    /\ edits \in 0 .. MaxEdits
    /\ verdict \in {"none", "verified", "InvalidChainId", "MissingHeader", "MalformedHeader",
                    "RangeError", "BadSignature", "StaleTimestamp"}

\* What a node signed is exactly what the client asked and was given.
Genuine(a) ==
    /\ a.chain = Trim(chainId)
    /\ a.request = request
    /\ a.body = body
    /\ a.key = GetHeader("pubkey")
    /\ a.timestamp = GetHeader("timestamp")

Age(a) == IF a.timestamp < now THEN now - a.timestamp ELSE a.timestamp - now

\* An answer is taken only if a node signed this body, for this request and
\* the configured chain, at a time within the window on either side of now,
\* whatever headers were dropped, repeated or taken from other answers.
VerifiedIsSigned ==
    verdict = "verified" => \E a \in signed : Genuine(a) /\ Age(a) <= Window

\* "A tampered timestamp would have failed step 8" (verify.ts 211): only an
\* answer a node did sign is ever called stale.  The confidential client keeps
\* its pin on that verdict.
StaleIsSigned ==
    verdict = "StaleTimestamp" => \E a \in signed : Genuine(a) /\ Age(a) > Window

\* An answer nobody touched is verified, or stale if it is older or newer than
\* the window, by the whole of the window and by nothing less; a chain id
\* with white space around it is the chain id without it.
UntouchedIsVerified ==
    \A a \in signed :
        /\ edits = 0 /\ verdict # "none"
        /\ GetHeader("signature") = SignatureOf(a)
        /\ a.chain = Trim(chainId) /\ ValidChainId(a.chain)
        => verdict = IF Age(a) <= Window THEN "verified" ELSE "StaleTimestamp"

\* "Throws a typed VerificationError subclass on any failure" (verify.ts 134):
\* no header makes the pre-image builder throw its RangeError.
RejectedIsTyped == verdict # "RangeError"
=============================================================================
