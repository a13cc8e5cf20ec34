------------------------- MODULE VerificationProofs -------------------------
(***************************************************************************)
(* Proofs about Verification for any chain ids, keys and payloads, any     *)
(* width, window and clock, and any number of edits by the gateway.        *)
(***************************************************************************)
EXTENDS Verification, NaturalsInduction, SequenceTheorems, WellFoundedInduction, TLAPS

Marks == {Absent, Malformed}
Names == {"signature", "pubkey", "timestamp", "nodeId"}


\* As long as the gateway has not changed it, the answer is as its node sent it.
AsSent ==
    edits = 0 =>
        \E a \in signed :
            /\ a.request = request /\ a.body = body
            /\ GetHeader("signature") = SignatureOf(a)
            /\ GetHeader("pubkey") = a.key
            /\ GetHeader("timestamp") = a.timestamp
            /\ GetHeader("nodeId") # Malformed

\* A verdict is what verifyResponse makes of the answer as it then is: nothing
\* it was computed from changes any more.
Judged == verdict # "none" => verdict = Verdict

Inductive == TypeOK /\ AsSent /\ Judged

-----------------------------------------------------------------------------
(* Numbers and sequences *)

LEMMA LeastNatural ==
  ASSUME NEW T, T \subseteq Nat, T # {}
  PROVE  \E m \in T : \A n \in T : m <= n
<1> DEFINE R == OpToRel(<, Nat)
<1>1. \A m, n \in Nat : n < m => <<n, m>> \in R
  BY DEF OpToRel
<1>2. IsWellFoundedOn(R, Nat)
  BY NatLessThanWellFounded
<1> HIDE DEF R
<1>3. PICK m \in T : \A n \in T : ~(<<n, m>> \in R)
  BY <1>2, WFMin
<1>4. ASSUME NEW n \in T PROVE m <= n
  <2>1. m \in Nat /\ n \in Nat
    BY <1>3
  <2>2. ~(n < m)
    BY <1>1, <1>3, <2>1
  <2>3. QED
    BY <2>1, <2>2
<1>5. QED
  BY <1>4

\* The greatest of a set of numbers up to n is n minus the least distance.
LEMMA GreatestNatural ==
  ASSUME NEW n \in Nat, NEW T, T \subseteq 0 .. n, T # {}
  PROVE  \E m \in T : \A k \in T : m >= k
<1> DEFINE D == {n - k : k \in T}
<1>1. D \subseteq Nat /\ D # {}
  <2>1. \A k \in T : n - k \in Nat
    OBVIOUS
  <2>2. QED
    BY <2>1
<1>2. PICK d \in D : \A e \in D : d <= e
  BY <1>1, LeastNatural
<1>3. PICK m \in T : d = n - m
  BY <1>2
<1>4. ASSUME NEW k \in T PROVE m >= k
  <2>1. n - k \in D
    OBVIOUS
  <2>2. n - m <= n - k
    BY <1>2, <1>3, <2>1
  <2>3. QED
    BY <2>2
<1>5. QED
  BY <1>4

-----------------------------------------------------------------------------
(* Chain ids *)

\* Trim cuts from the first to the last character that is not a space.
LEMMA TrimBounds ==
  ASSUME NEW S, NEW id \in Seq(S), NEW k \in DOMAIN id, id[k] # Space
  PROVE  \E m, n \in DOMAIN id :
            /\ m <= n
            /\ id[m] # Space /\ id[n] # Space
            /\ \A i \in DOMAIN id : id[i] # Space => m <= i /\ i <= n
            /\ Trim(id) = SubSeq(id, m, n)
<1> DEFINE kept == {i \in DOMAIN id : id[i] # Space}
<1> DEFINE m == CHOOSE i \in kept : \A j \in kept : i <= j
<1> DEFINE n == CHOOSE i \in kept : \A j \in kept : i >= j
<1>1. Len(id) \in Nat /\ DOMAIN id = 1 .. Len(id)
  BY LenProperties
<1>2. kept # {} /\ kept \subseteq Nat /\ kept \subseteq 0 .. Len(id)
  BY <1>1
<1>3. m \in kept /\ \A j \in kept : m <= j
  BY <1>2, LeastNatural
<1>4. n \in kept /\ \A j \in kept : n >= j
  BY <1>1, <1>2, GreatestNatural
<1>5. Trim(id) = SubSeq(id, m, n)
  BY <1>2 DEF Trim
<1> HIDE DEF m, n
<1>6. m <= n /\ m \in DOMAIN id /\ n \in DOMAIN id /\ id[m] # Space /\ id[n] # Space
  BY <1>3, <1>4
<1>7. \A i \in DOMAIN id : id[i] # Space => m <= i /\ i <= n
  <2>1. ASSUME NEW i \in DOMAIN id, id[i] # Space PROVE m <= i /\ i <= n
    <3>1. i \in Nat /\ n \in Nat /\ i \in kept
      BY <1>1, <1>6, <2>1
    <3>2. QED
      BY <1>3, <1>4, <3>1
  <2>2. QED
    BY <2>1
<1>8. QED
  BY <1>5, <1>6, <1>7

\* A chain id without its white space has none to lose: what validateChainId
\* returns is what it would return again.
LEMMA TrimIdempotent ==
  ASSUME NEW S, NEW id \in Seq(S)
  PROVE  Trim(Trim(id)) = Trim(id)
<1>1. CASE \A i \in DOMAIN id : id[i] = Space
  <2>1. Trim(id) = <<>>
    BY <1>1 DEF Trim
  <2>2. Trim(<<>>) = <<>>
    BY DEF Trim
  <2>3. QED
    BY <2>1, <2>2
<1>2. CASE \E i \in DOMAIN id : id[i] # Space
  <2>1. PICK m, n \in DOMAIN id : /\ m <= n
                                  /\ id[m] # Space /\ id[n] # Space
                                  /\ Trim(id) = SubSeq(id, m, n)
    BY <1>2, TrimBounds
  <2> DEFINE t == SubSeq(id, m, n)
  <2>2. Len(id) \in Nat /\ DOMAIN id = 1 .. Len(id) /\ m \in Nat /\ n \in Nat
    BY LenProperties
  <2>3. \A i \in m .. n : id[i] \in S
    BY <2>2, ElementOfSeq
  <2>4. t \in Seq(S) /\ Len(t) = n - m + 1 /\ \A i \in 1 .. n - m + 1 : t[i] = id[m + i - 1]
    BY <2>1, <2>2, <2>3, SubSeqProperties
  <2> HIDE DEF t
  <2>5. DOMAIN t = 1 .. n - m + 1
    BY <2>4, LenProperties
  <2>6. t[1] # Space /\ t[n - m + 1] # Space /\ 1 \in DOMAIN t /\ n - m + 1 \in DOMAIN t
    <3>1. 1 \in 1 .. n - m + 1 /\ n - m + 1 \in 1 .. n - m + 1
      BY <2>1, <2>2
    <3>2. t[1] = id[m + 1 - 1] /\ t[n - m + 1] = id[m + (n - m + 1) - 1]
      BY <2>4, <3>1
    <3>3. m + 1 - 1 = m /\ m + (n - m + 1) - 1 = n
      BY <2>2
    <3>4. QED
      BY <2>1, <2>5, <3>1, <3>2, <3>3
  <2>7. PICK p, q \in DOMAIN t : /\ \A i \in DOMAIN t : t[i] # Space => p <= i /\ i <= q
                                 /\ Trim(t) = SubSeq(t, p, q)
    BY <2>4, <2>6, TrimBounds
  <2>8. p = 1 /\ q = n - m + 1
    <3>1. p <= 1 /\ n - m + 1 <= q
      BY <2>6, <2>7
    <3>2. p \in 1 .. n - m + 1 /\ q \in 1 .. n - m + 1
      BY <2>5, <2>7
    <3> HIDE <2>7
    <3>3. QED
      BY <2>2, <3>1, <3>2
  <2>9. \A i \in 1 .. Len(t) : t[i] \in S
    BY <2>4, ElementOfSeq
  <2>10. SubSeq(t, 1, Len(t)) = t
    <3>1. Len(t) \in Nat /\ 1 <= Len(t)
      BY <2>1, <2>2, <2>4
    <3>2. SubSeq(t, 1, Len(t)) \in Seq(S) /\ Len(SubSeq(t, 1, Len(t))) = Len(t)
          /\ \A i \in 1 .. Len(t) : SubSeq(t, 1, Len(t))[i] = t[1 + i - 1]
      BY <2>9, <3>1, SubSeqProperties
    <3>3. \A i \in 1 .. Len(t) : SubSeq(t, 1, Len(t))[i] = t[i]
      BY <3>1, <3>2
    <3>4. QED
      BY <2>4, <3>2, <3>3, SeqEqual
  <2>11. QED
    BY <2>1, <2>4, <2>7, <2>8, <2>10 DEF t
<1>3. QED
  BY <1>1, <1>2

-----------------------------------------------------------------------------
(* Headers *)

LEMMA ValuesOf ==
  /\ DOMAIN Values = Names
  /\ Values["signature"] = {SignatureOf(a) : a \in signed} \cup {Malformed}
  /\ Values["pubkey"] = Keys \cup {Malformed}
  /\ Values["timestamp"] = 0 .. MaxDecimal \cup {Malformed}
  /\ Values["nodeId"] = NodeIds \cup {Malformed}
<1> DEFINE signatures == {SignatureOf(a) : a \in signed} \cup {Malformed}
<1> DEFINE times == 0 .. MaxDecimal \cup {Malformed}
<1> DEFINE keys == Keys \cup {Malformed}
<1> DEFINE ids == NodeIds \cup {Malformed}
<1>1. Values = [signature |-> signatures, pubkey |-> keys, timestamp |-> times, nodeId |-> ids]
  BY DEF Values
<1> HIDE DEF signatures, times, keys, ids
<1>2. DOMAIN Values = Names
  BY <1>1 DEF Names
<1>3. Values["signature"] = signatures /\ Values["pubkey"] = keys
      /\ Values["timestamp"] = times /\ Values["nodeId"] = ids
  BY <1>1
<1>4. QED
  BY <1>2, <1>3 DEF signatures, times, keys, ids

LEMMA ValuesOfNext ==
  /\ DOMAIN Values' = Names
  /\ Values'["signature"] = {SignatureOf(a) : a \in signed'} \cup {Malformed}
  /\ Values'["pubkey"] = Keys \cup {Malformed}
  /\ Values'["timestamp"] = 0 .. MaxDecimal \cup {Malformed}
  /\ Values'["nodeId"] = NodeIds \cup {Malformed}
<1> DEFINE signatures == {SignatureOf(a) : a \in signed'} \cup {Malformed}
<1> DEFINE times == 0 .. MaxDecimal \cup {Malformed}
<1> DEFINE keys == Keys \cup {Malformed}
<1> DEFINE ids == NodeIds \cup {Malformed}
<1>1. Values' = [signature |-> signatures, pubkey |-> keys, timestamp |-> times, nodeId |-> ids]
  BY DEF Values
<1> HIDE DEF signatures, times, keys, ids
<1>2. DOMAIN Values' = Names
  BY <1>1 DEF Names
<1>3. Values'["signature"] = signatures /\ Values'["pubkey"] = keys
      /\ Values'["timestamp"] = times /\ Values'["nodeId"] = ids
  BY <1>1
<1>4. QED
  BY <1>2, <1>3 DEF signatures, times, keys, ids

LEMMA FieldsAre ==
  /\ \A f \in Fields : f.name \in Names /\ f.value \in Values[f.name]
                       /\ f = Field(f.name, f.value)
  /\ \A name \in Names : \A value \in Values[name] : Field(name, value) \in Fields
<1>1. DOMAIN Values = Names
  BY ValuesOf
<1> HIDE DEF Names
<1>2. ASSUME NEW f \in Fields
      PROVE  f.name \in Names /\ f.value \in Values[f.name] /\ f = Field(f.name, f.value)
  <2>1. PICK n \in Names : f \in [name : {n}, value : Values[n]]
    BY <1>1 DEF Fields
  <2>2. f.name = n /\ f.value \in Values[n] /\ f = [name |-> f.name, value |-> f.value]
    BY <2>1
  <2>3. QED
    BY <2>2 DEF Field
<1>3. ASSUME NEW name \in Names, NEW value \in Values[name]
      PROVE  Field(name, value) \in Fields
  <2>1. Field(name, value) \in [name : {name}, value : Values[name]]
    BY DEF Field
  <2>2. QED
    BY <1>1, <2>1 DEF Fields
<1>4. QED
  BY <1>2, <1>3

\* What is read of a header is one of the values put in it.
LEMMA HeaderValue ==
  ASSUME TypeOK, NEW name \in Names
  PROVE  GetHeader(name) \in Values[name] \cup {Absent, Malformed}
<1> DEFINE at == {i \in DOMAIN headers.fields : headers.fields[i].name = name}
<1>1. headers.fields \in Seq(Fields)
  BY DEF TypeOK
<1>2. DOMAIN headers.fields = 1 .. Len(headers.fields) /\ Len(headers.fields) \in Nat
  BY <1>1, LenProperties
<1>3. ASSUME at # {} PROVE headers.fields[CHOOSE i \in at : \A j \in at : i <= j].value \in Values[name]
  <2>1. PICK i \in at : \A j \in at : i <= j
    <3>1. at \subseteq Nat /\ at # {}
      BY <1>2, <1>3
    <3> HIDE DEF at
    <3>2. QED
      BY <3>1, LeastNatural
  <2>2. (CHOOSE k \in at : \A j \in at : k <= j) \in at
    BY <2>1
  <2>3. \A k \in at : headers.fields[k] \in Fields /\ headers.fields[k].name = name
    BY <1>1, <1>2, ElementOfSeq
  <2>4. \A k \in at : headers.fields[k].value \in Values[name]
    BY <2>3, FieldsAre
  <2>5. QED
    BY <2>2, <2>4
<1>4. QED
  BY <1>3 DEF GetHeader

LEMMA U64LEOf ==
  ASSUME NEW n \in Nat, n <= U64Max
  PROVE  U64LE(n) = n
  BY WidthAssumption DEF U64LE

\* Two answers have the same signature only if they are the same.
LEMMA SignatureIsUnique ==
  ASSUME NEW a \in Answers, NEW key, NEW chain, NEW req, NEW bytes, NEW timestamp \in Nat,
         timestamp <= U64Max,
         SignatureOf(a) = Signature(key, BuildPreImage(chain, req, bytes, timestamp))
  PROVE  /\ a.key = key /\ a.chain = chain /\ a.request = req /\ a.body = bytes
         /\ a.timestamp = timestamp
<1>1. a.timestamp \in Nat /\ a.timestamp <= U64Max
  BY WidthAssumption DEF Answers
<1>2. U64LE(a.timestamp) = a.timestamp /\ U64LE(timestamp) = timestamp
  BY <1>1, U64LEOf
<1> DEFINE i == BuildPreImage(a.chain, a.request, a.body, a.timestamp)
<1> DEFINE j == BuildPreImage(chain, req, bytes, timestamp)
<1>3. Signature(a.key, i) = Signature(key, j)
  BY DEF SignatureOf
<1>4. a.key = key /\ i = j
  <2> HIDE DEF i, j
  <2>1. Signature(a.key, i).key = Signature(key, j).key
        /\ Signature(a.key, i).image = Signature(key, j).image
    BY <1>3
  <2>2. QED
    BY <2>1 DEF Signature
<1>5. i.chain = j.chain /\ i.request = j.request /\ i.body = j.body
      /\ i.timestamp = j.timestamp
  BY <1>4
<1>6. QED
  BY <1>2, <1>4, <1>5 DEF BuildPreImage

-----------------------------------------------------------------------------
(* The verdict *)

Rejections == {"InvalidChainId", "MissingHeader", "MalformedHeader", "RangeError",
               "BadSignature", "StaleTimestamp"}

\* An answer whose signature was found good is one a node signed.
LEMMA GoodSignatureIsANodes ==
  ASSUME TypeOK, Verdict \in {"verified", "StaleTimestamp"}
  PROVE  \E a \in signed : Genuine(a)
                         /\ (Verdict = "verified" <=> InWindow(a.timestamp))
<1> DEFINE ts == GetHeader("timestamp")
<1> DEFINE key == GetHeader("pubkey")
<1> DEFINE sig == GetHeader("signature")
<1>1. ~Missing /\ WellFormed
      /\ sig = Signature(key, BuildPreImage(Trim(chainId), request, body, ts))
      /\ (Verdict = "verified" <=> InWindow(ts))
  BY DEF Verdict
<1>2. sig \notin Marks /\ ts \notin Marks /\ ts <= U64Max
  BY <1>1 DEF Missing, WellFormed, Marks, TimestampOk
<1>3. PICK a \in signed : sig = SignatureOf(a)
  <2>1. sig \in {SignatureOf(a) : a \in signed} \cup {Absent, Malformed}
    BY HeaderValue, ValuesOf DEF Names
  <2>2. QED
    BY <1>2, <2>1 DEF Marks
<1>4. ts \in Nat
  <2>1. ts \in 0 .. MaxDecimal \cup {Absent, Malformed}
    BY HeaderValue, ValuesOf DEF Names
  <2>2. QED
    BY <1>2, <2>1, WidthAssumption DEF Marks
<1>5. a \in Answers
  BY <1>3 DEF TypeOK
<1> HIDE DEF ts, key, sig
<1>6. /\ a.key = key /\ a.chain = Trim(chainId) /\ a.request = request /\ a.body = body
      /\ a.timestamp = ts
  <2> DEFINE chain == Trim(chainId)
  <2>1. SignatureOf(a) = Signature(key, BuildPreImage(chain, request, body, ts))
    BY <1>1, <1>3
  <2>2. ts \in Nat /\ ts <= U64Max
    BY <1>2, <1>4
  <2> HIDE DEF chain
  <2>3. /\ a.key = key /\ a.chain = chain /\ a.request = request /\ a.body = body
        /\ a.timestamp = ts
    BY <1>5, <2>1, <2>2, SignatureIsUnique
  <2>4. QED
    BY <2>3 DEF chain
<1>7. Genuine(a)
  BY <1>6 DEF Genuine, key, ts
<1>8. QED
  BY <1>1, <1>6, <1>7

\* The window of the code is the one of the properties.
LEMMA WindowIsAge ==
  ASSUME TypeOK, NEW a \in Answers
  PROVE  InWindow(a.timestamp) <=> Age(a) <= Window
<1>1. a.timestamp \in Nat /\ now \in Nat /\ Window \in Nat
  BY WidthAssumption DEF Answers, TypeOK
<1>2. QED
  BY <1>1 DEF InWindow, Age

LEMMA VerdictIsTyped ==
  ASSUME TypeOK
  PROVE  Verdict # "RangeError"
<1>1. SUFFICES ASSUME ~Missing, WellFormed,
                      BuildPreImage(Trim(chainId), request, body, GetHeader("timestamp")).timestamp
                        = OutOfRange
               PROVE  FALSE
  BY DEF Verdict
<1> DEFINE ts == GetHeader("timestamp")
<1>2. ts \in Nat /\ ts <= U64Max
  <2>1. ts \in 0 .. MaxDecimal \cup {Absent, Malformed}
    BY HeaderValue, ValuesOf DEF Names
  <2>2. ts \notin {Absent, Malformed} /\ ts <= U64Max
    BY <1>1 DEF Missing, WellFormed, TimestampOk
  <2>3. QED
    BY <2>1, <2>2, WidthAssumption
<1> HIDE DEF ts
<1>3. U64LE(ts) = ts
  BY <1>2, U64LEOf
<1>4. OutOfRange = ts
  BY <1>1, <1>3 DEF BuildPreImage, ts
<1>5. QED
  BY <1>2, <1>4, MarkAssumption

-----------------------------------------------------------------------------
(* The first state *)

\* A header with one field has that field's value.
LEMMA OneField ==
  ASSUME NEW name, NEW n \in Nat,
         n \in DOMAIN headers.fields, headers.fields[n].name = name,
         \A i \in DOMAIN headers.fields : headers.fields[i].name = name => i = n
  PROVE  GetHeader(name) = headers.fields[n].value
<1> DEFINE at == {i \in DOMAIN headers.fields : headers.fields[i].name = name}
<1>1. (CHOOSE i \in {n} : \A j \in {n} : i <= j) = n
  OBVIOUS
<1>2. ~(\E i, j \in at : i # j) /\ at # {} /\ at = {n}
  OBVIOUS
<1>3. GetHeader(name) = headers.fields[CHOOSE i \in at : \A j \in at : i <= j].value
  BY <1>2, Zenon DEF GetHeader
<1>4. QED
  BY <1>1, <1>2, <1>3

LEMMA NoField ==
  ASSUME NEW name, \A i \in DOMAIN headers.fields : headers.fields[i].name # name
  PROVE  GetHeader(name) = Absent
<1>1. {i \in DOMAIN headers.fields : headers.fields[i].name = name} = {}
  OBVIOUS
<1>2. QED
  BY <1>1, Zenon DEF GetHeader

LEMMA SameHeaders ==
  ASSUME headers' = headers
  PROVE  \A name : GetHeader(name)' = GetHeader(name)
<1> SUFFICES ASSUME NEW name PROVE GetHeader(name)' = GetHeader(name)
  OBVIOUS
<1> DEFINE at(h) == {i \in DOMAIN h.fields : h.fields[i].name = name}
<1> DEFINE value(h) == IF at(h) = {} THEN Absent
                      ELSE IF h.kind = "Headers" /\ \E i, j \in at(h) : i # j THEN Malformed
                      ELSE h.fields[CHOOSE i \in at(h) : \A j \in at(h) : i <= j].value
<1>1. GetHeader(name) = value(headers)
  BY Zenon DEF GetHeader
<1>2. GetHeader(name)' = value(headers')
  BY Zenon DEF GetHeader
<1>3. value(headers') = value(headers)
  <2> HIDE DEF value
  <2>1. QED
    OBVIOUS
<1>4. QED
  BY <1>1, <1>2, <1>3

LEMMA SameVerdict ==
  ASSUME UNCHANGED <<chainId, request, headers, body, now>>
  PROVE  Verdict' = Verdict
<1>1. \A name : GetHeader(name)' = GetHeader(name)
  BY SameHeaders
<1>2. /\ GetHeader("signature")' = GetHeader("signature")
      /\ GetHeader("pubkey")' = GetHeader("pubkey")
      /\ GetHeader("timestamp")' = GetHeader("timestamp")
      /\ GetHeader("nodeId")' = GetHeader("nodeId")
  BY <1>1
<1>3. Missing' = Missing /\ WellFormed' = WellFormed
  BY <1>2 DEF Missing, WellFormed
<1>4. \A timestamp : InWindow(timestamp)' = InWindow(timestamp)
  BY DEF InWindow
<1>5. InWindow(GetHeader("timestamp"))' = InWindow(GetHeader("timestamp"))
  BY <1>2 DEF InWindow
<1>6. QED
  BY <1>2, <1>3, <1>5 DEF Verdict

\* The fields of the four headers, in any of the states: the node id is the
\* one that may be missing.
LEMMA FieldsSent ==
  ASSUME NEW a \in Answers, signed = {a},
         NEW nodeId \in {<<>>} \cup {<<Field("nodeId", id)>> : id \in NodeIds},
         headers.fields = <<Field("signature", SignatureOf(a)), Field("pubkey", a.key),
                            Field("timestamp", a.timestamp)>> \o nodeId
  PROVE  /\ headers.fields \in Seq(Fields)
         /\ GetHeader("signature") = SignatureOf(a)
         /\ GetHeader("pubkey") = a.key
         /\ GetHeader("timestamp") = a.timestamp
         /\ GetHeader("nodeId") # Malformed
<1> DEFINE h == headers.fields
<1>1. /\ Field("signature", SignatureOf(a)) \in Fields
      /\ Field("pubkey", a.key) \in Fields
      /\ Field("timestamp", a.timestamp) \in Fields
      /\ \A id \in NodeIds : Field("nodeId", id) \in Fields
  <2>1. /\ SignatureOf(a) \in Values["signature"] /\ a.key \in Values["pubkey"]
        /\ NodeIds \subseteq Values["nodeId"]
    BY ValuesOf DEF Answers
  <2>2. a.timestamp \in Values["timestamp"]
    BY ValuesOf, WidthAssumption DEF Answers
  <2>3. QED
    BY <2>1, <2>2, FieldsAre DEF Names
<1> DEFINE three == <<Field("signature", SignatureOf(a)), Field("pubkey", a.key),
                      Field("timestamp", a.timestamp)>>
<1>2. three \in Seq(Fields) /\ Len(three) = 3
      /\ three[1] = Field("signature", SignatureOf(a))
      /\ three[2] = Field("pubkey", a.key)
      /\ three[3] = Field("timestamp", a.timestamp)
  BY <1>1
<1>3. nodeId \in Seq(Fields) /\ Len(nodeId) \in {0, 1}
      /\ \A i \in 1 .. Len(nodeId) : nodeId[i].name = "nodeId" /\ nodeId[i].value \in NodeIds
  <2>1. CASE nodeId = <<>>
    BY <2>1
  <2>2. CASE \E id \in NodeIds : nodeId = <<Field("nodeId", id)>>
    BY <1>1, <2>2 DEF Field
  <2>3. QED
    BY <2>1, <2>2
<1> HIDE DEF three
<1>4. /\ h \in Seq(Fields) /\ Len(h) = 3 + Len(nodeId)
      /\ \A i \in 1 .. 3 + Len(nodeId) : h[i] = IF i <= 3 THEN three[i] ELSE nodeId[i - 3]
  BY <1>2, <1>3, ConcatProperties DEF three
<1> HIDE DEF h
<1>5. DOMAIN h = 1 .. 3 + Len(nodeId)
  BY <1>4, LenProperties
<1>6. h[1] = Field("signature", SignatureOf(a)) /\ h[2] = Field("pubkey", a.key)
      /\ h[3] = Field("timestamp", a.timestamp)
  BY <1>2, <1>3, <1>4
<1>7. \A i \in DOMAIN h : i \notin {1, 2, 3} =>
         h[i].name = "nodeId" /\ h[i].value \in NodeIds
  <2>1. ASSUME NEW i \in DOMAIN h, i \notin {1, 2, 3}
        PROVE  h[i].name = "nodeId" /\ h[i].value \in NodeIds
    <3>1. i = 4 /\ Len(nodeId) = 1
      BY <1>3, <1>5, <2>1
    <3>2. h[4] = nodeId[1]
      BY <1>4, <3>1
    <3>3. QED
      BY <1>3, <3>1, <3>2
  <2>2. QED
    BY <2>1
<1>8. {1, 2, 3} \subseteq DOMAIN h
  BY <1>3, <1>5
<1>9. /\ h[1].name = "signature" /\ h[2].name = "pubkey" /\ h[3].name = "timestamp"
      /\ \A i \in DOMAIN h : i \notin {1, 2, 3} => h[i].name = "nodeId"
  BY <1>6, <1>7 DEF Field
<1>10. GetHeader("signature") = h[1].value /\ GetHeader("pubkey") = h[2].value
       /\ GetHeader("timestamp") = h[3].value
  <2>1. GetHeader("signature") = h[1].value
    <3>1. \A i \in DOMAIN h : h[i].name = "signature" => i = 1
      BY <1>9
    <3>2. QED
      BY <1>8, <1>9, <3>1, OneField DEF h
  <2>2. GetHeader("pubkey") = h[2].value
    <3>1. \A i \in DOMAIN h : h[i].name = "pubkey" => i = 2
      BY <1>9
    <3>2. QED
      BY <1>8, <1>9, <3>1, OneField DEF h
  <2>3. GetHeader("timestamp") = h[3].value
    <3>1. \A i \in DOMAIN h : h[i].name = "timestamp" => i = 3
      BY <1>9
    <3>2. QED
      BY <1>8, <1>9, <3>1, OneField DEF h
  <2>4. QED
    BY <2>1, <2>2, <2>3
<1>11. GetHeader("nodeId") # Malformed
  <2>1. CASE Len(nodeId) = 0
    <3>1. \A i \in DOMAIN h : h[i].name # "nodeId"
      BY <1>5, <1>9, <2>1
    <3>2. GetHeader("nodeId") = Absent
      BY <3>1, NoField DEF h
    <3>3. QED
      BY <3>2, MarkAssumption
  <2>2. CASE Len(nodeId) = 1
    <3>1. 4 \in DOMAIN h /\ \A i \in DOMAIN h : h[i].name = "nodeId" => i = 4
      BY <1>5, <1>9, <2>2
    <3>2. h[4].name = "nodeId" /\ h[4].value \in NodeIds
      BY <1>7, <3>1
    <3>3. GetHeader("nodeId") = h[4].value
      BY <3>1, <3>2, OneField DEF h
    <3>4. QED
      BY <3>2, <3>3, MarkAssumption
  <2>3. QED
    BY <1>3, <2>1, <2>2
<1>12. QED
  BY <1>4, <1>6, <1>10, <1>11 DEF Field, h

-----------------------------------------------------------------------------
(* The steps *)

LEMMA InitInductive == Init => Inductive
<1> SUFFICES ASSUME Init PROVE Inductive
  OBVIOUS
<1>1. PICK a \in Answers, kind \in {"Headers", "Record"},
           nodeId \in {<<>>} \cup {<<Field("nodeId", id)>> : id \in NodeIds} :
         /\ a.request = request /\ signed = {a} /\ body = a.body
         /\ headers = [kind |-> kind,
                       fields |-> <<Field("signature", SignatureOf(a)),
                                    Field("pubkey", a.key),
                                    Field("timestamp", a.timestamp)>> \o nodeId]
  BY DEF Init
<1>2. headers.fields = <<Field("signature", SignatureOf(a)), Field("pubkey", a.key),
                         Field("timestamp", a.timestamp)>> \o nodeId
      /\ headers = [kind |-> headers.kind, fields |-> headers.fields]
      /\ headers.kind \in {"Headers", "Record"}
  BY <1>1
<1>3. /\ headers.fields \in Seq(Fields)
      /\ GetHeader("signature") = SignatureOf(a)
      /\ GetHeader("pubkey") = a.key
      /\ GetHeader("timestamp") = a.timestamp
      /\ GetHeader("nodeId") # Malformed
  BY <1>1, <1>2, FieldsSent
<1>4. headers \in [kind : {"Headers", "Record"}, fields : Seq(Fields)]
  BY <1>2, <1>3
<1>5. TypeOK
  BY <1>1, <1>4, WidthAssumption DEF Init, TypeOK, Answers
<1>6. AsSent
  BY <1>1, <1>3 DEF AsSent
<1>7. Judged
  BY DEF Init, Judged
<1>8. QED
  BY <1>5, <1>6, <1>7 DEF Inductive

\* What the gateway makes of the fields is made of fields.
LEMMA EditTyped ==
  ASSUME TypeOK, signed' = signed, NEW fields \in Seq(Fields), Edit(fields), body' \in Bodies
  PROVE  Inductive'
<1>1. Fields' = Fields /\ Answers' = Answers
  BY DEF Fields, Values
<1>2. headers' = [kind |-> headers.kind, fields |-> fields]
      /\ headers.kind \in {"Headers", "Record"}
  BY DEF Edit, TypeOK
<1>3. edits' \in 0 .. MaxEdits /\ edits' # 0
  BY WidthAssumption DEF Edit, TypeOK
<1>4. UNCHANGED <<chainId, request, now, verdict>> /\ verdict = "none"
  BY DEF Edit, call
<1>5. TypeOK'
  BY <1>1, <1>2, <1>3, <1>4 DEF TypeOK
<1>6. AsSent' /\ Judged'
  BY <1>3, <1>4 DEF AsSent, Judged
<1>7. QED
  BY <1>5, <1>6 DEF Inductive

LEMMA SentStays ==
  ASSUME AsSent, UNCHANGED <<request, headers, body, edits>>, signed \subseteq signed'
  PROVE  AsSent'
<1>1. /\ GetHeader("signature")' = GetHeader("signature")
      /\ GetHeader("pubkey")' = GetHeader("pubkey")
      /\ GetHeader("timestamp")' = GetHeader("timestamp")
      /\ GetHeader("nodeId")' = GetHeader("nodeId")
  BY SameHeaders
<1>2. QED
  BY <1>1 DEF AsSent

LEMMA StepInductive == Inductive /\ [Next]_vars => Inductive'
<1> SUFFICES ASSUME Inductive, [Next]_vars PROVE Inductive'
  OBVIOUS
<1> USE DEF Inductive
<1> DEFINE h == headers.fields
<1>1. h \in Seq(Fields) /\ DOMAIN h = 1 .. Len(h) /\ Len(h) \in Nat
      /\ (\A i \in DOMAIN h : h[i] \in Fields) /\ body \in Bodies
  <2>1. h \in Seq(Fields) /\ body \in Bodies
    BY DEF TypeOK
  <2> HIDE DEF h
  <2>2. QED
    BY <2>1, LenProperties, ElementOfSeq
<1>2. CASE Verify
  <2>1. UNCHANGED <<chainId, request, signed, headers, body, now, edits>>
        /\ verdict' = Verdict
    BY <1>2 DEF Verify, call
  <2>2. Verdict \in {"verified", "InvalidChainId", "MissingHeader", "MalformedHeader",
                     "RangeError", "BadSignature", "StaleTimestamp"}
    BY DEF Verdict
  <2>3. TypeOK'
    BY <2>1, <2>2 DEF TypeOK, Fields, Values
  <2>4. AsSent'
    BY <2>1, SentStays
  <2>5. Judged'
    BY <2>1, SameVerdict DEF Judged
  <2>6. QED
    BY <2>3, <2>4, <2>5
<1>3. CASE \E i \in DOMAIN h : DropField(i)
  <2>1. PICK i \in DOMAIN h : DropField(i)
    BY <1>3
  <2> DEFINE front == SubSeq(h, 1, i - 1)
  <2> DEFINE back == SubSeq(h, i + 1, Len(h))
  <2>2. i \in Nat /\ i >= 1 /\ i <= Len(h) /\ i - 1 \in Int /\ i + 1 \in Int
    BY <1>1
  <2>3. front \in Seq(Fields) /\ back \in Seq(Fields)
    <3>1. (\A j \in 1 .. i - 1 : h[j] \in Fields) /\ (\A j \in i + 1 .. Len(h) : h[j] \in Fields)
      BY <1>1, <2>2
    <3> HIDE DEF h
    <3>2. QED
      BY <1>1, <2>2, <3>1, SubSeqProperties
  <2>4. front \o back \in Seq(Fields)
    <3> HIDE DEF front, back
    <3>1. QED
      BY <2>3, ConcatProperties
  <2>5. QED
    BY <1>1, <2>1, <2>4, EditTyped DEF DropField
<1>4. CASE \E i \in DOMAIN h : \E value \in Values[h[i].name] : ReplaceField(i, value)
  <2>0. PICK i \in DOMAIN h : \E value \in Values[h[i].name] : ReplaceField(i, value)
    BY <1>4
  <2>1. PICK value \in Values[h[i].name] : ReplaceField(i, value)
    BY <2>0
  <2>2. [h EXCEPT ![i].value = value] \in Seq(Fields)
    <3>1. h[i].name \in Names /\ h[i] = Field(h[i].name, h[i].value)
      BY <1>1, FieldsAre
    <3>2. Field(h[i].name, value) \in Fields
      BY <2>1, <3>1, FieldsAre
    <3>3. [h[i] EXCEPT !.value = value] = Field(h[i].name, value)
      <4> DEFINE n == h[i].name
      <4> DEFINE v == h[i].value
      <4>1. h[i] = [name |-> n, value |-> v]
        BY <3>1 DEF Field
      <4> HIDE DEF n, v
      <4>2. [h[i] EXCEPT !.value = value] = [name |-> n, value |-> value]
        BY <4>1
      <4>3. QED
        BY <4>2 DEF Field, n
    <3> DEFINE g == [h EXCEPT ![i] = Field(h[i].name, value)]
    <3> HIDE DEF h
    <3>4. [h EXCEPT ![i].value = value] = g
      BY <3>3
    <3>5. g \in Seq(Fields)
      <4> DEFINE f == Field(h[i].name, value)
      <4>1. f \in Fields
        BY <3>2
      <4> HIDE DEF f
      <4>2. [h EXCEPT ![i] = f] \in Seq(Fields)
        BY <1>1, <2>1, <4>1, ExceptSeq
      <4>3. QED
        BY <4>2 DEF f
    <3>6. QED
      BY <3>4, <3>5
  <2>3. QED
    BY <1>1, <2>1, <2>2, EditTyped DEF ReplaceField
<1>5. CASE \E name \in DOMAIN Values : \E value \in Values[name] : AddField(name, value)
  <2>0. PICK name \in Names : \E value \in Values[name] : AddField(name, value)
    BY <1>5, ValuesOf
  <2>1. PICK value \in Values[name] : AddField(name, value)
    BY <2>0
  <2>2. Field(name, value) \in Fields
    BY <2>1, FieldsAre
  <2>3. <<Field(name, value)>> \o h \in Seq(Fields)
    BY <1>1, <2>2, ConcatProperties
  <2>4. QED
    BY <1>1, <2>1, <2>3, EditTyped DEF AddField
<1>6. CASE \E bytes \in Bodies : ReplaceBody(bytes)
  BY <1>1, <1>6, EditTyped DEF ReplaceBody
<1>7. CASE \E a \in signed, names \in SUBSET {"signature", "pubkey", "timestamp"},
              bytes \in Bodies : Splice(a, names, bytes)
  <2>1. PICK a \in signed, names \in SUBSET {"signature", "pubkey", "timestamp"},
             bytes \in Bodies : Splice(a, names, bytes)
    BY <1>7
  <2> DEFINE of == [signature |-> SignatureOf(a), pubkey |-> a.key, timestamp |-> a.timestamp]
  <2> DEFINE g == [i \in DOMAIN h |-> IF h[i].name \in names
                                      THEN Field(h[i].name, of[h[i].name]) ELSE h[i]]
  <2>2. \A n \in {"signature", "pubkey", "timestamp"} : Field(n, of[n]) \in Fields
    <3>1. of["signature"] \in Values["signature"] /\ of["pubkey"] \in Values["pubkey"]
          /\ of["timestamp"] \in Values["timestamp"]
      BY ValuesOf, WidthAssumption DEF TypeOK, Answers
    <3> HIDE DEF of
    <3>2. QED
      BY <3>1, FieldsAre DEF Names
  <2> HIDE DEF of
  <2>3. \A i \in 1 .. Len(h) : g[i] \in Fields
    BY <1>1, <2>2
  <2>4. g \in Seq(Fields)
    <3>1. g \in [1 .. Len(h) -> Fields]
      BY <1>1, <2>3
    <3>2. QED
      BY <1>1, <3>1
  <2>5. Edit(g) /\ body' = bytes /\ signed' = signed
    BY <2>1 DEF Splice, of
  <2>6. QED
    BY <2>4, <2>5, EditTyped
<1>8. CASE \E a \in Answers : NodeSigns(a)
  <2>1. PICK a \in Answers : NodeSigns(a)
    BY <1>8
  <2>2. UNCHANGED <<chainId, request, headers, body, now, edits, verdict>> /\ verdict = "none"
        /\ signed' = signed \cup {a}
    BY <2>1 DEF NodeSigns, call
  <2>3. Fields \subseteq Fields'
    <3>1. /\ DOMAIN Values = Names /\ DOMAIN Values' = Names
          /\ \A n \in Names : Values[n] \subseteq Values'[n]
      BY <2>2, ValuesOf, ValuesOfNext DEF Names
    <3>2. QED
      BY <3>1 DEF Fields
  <2>4. h \in Seq(Fields')
    <3> HIDE DEF h
    <3>1. QED
      BY <1>1, <2>3, SeqMonotonic
  <2>5. TypeOK'
    BY <2>2, <2>4 DEF TypeOK
  <2>6. AsSent' /\ Judged'
    BY <2>2, SentStays DEF Judged
  <2>7. QED
    BY <2>5, <2>6
<1>9. CASE UNCHANGED vars
  <2>1. UNCHANGED <<chainId, request, signed, headers, body, now, edits, verdict>>
    BY <1>9 DEF vars
  <2>2. TypeOK' /\ AsSent'
    BY <2>1, SentStays DEF TypeOK, Fields, Values
  <2>3. Judged'
    BY <2>1, SameVerdict DEF Judged
  <2>4. QED
    BY <2>2, <2>3
<1>10. QED
  BY <1>2, <1>3, <1>4, <1>5, <1>6, <1>7, <1>8, <1>9 DEF Next

LEMMA InductiveHolds == Spec => []Inductive
<1>1. QED
  BY InitInductive, StepInductive, PTL DEF Spec

-----------------------------------------------------------------------------
(* The properties *)

\* The headers are always ones that can be made of what nodes have signed.
THEOREM Typed == Spec => []TypeOK
<1>1. Inductive => TypeOK
  BY DEF Inductive
<1>2. QED
  BY <1>1, InductiveHolds, PTL

\* What verifyResponse takes was signed by a node, for this request and chain
\* and within the window, however often the gateway changed the answer.
THEOREM VerifiedHolds == Spec => []VerifiedIsSigned
<1>1. Inductive => VerifiedIsSigned
  <2>1. SUFFICES ASSUME Inductive, verdict = "verified"
                 PROVE  \E a \in signed : Genuine(a) /\ Age(a) <= Window
    BY DEF VerifiedIsSigned
  <2>2. Verdict = "verified" /\ TypeOK /\ signed \subseteq Answers
    BY <2>1 DEF Inductive, Judged, TypeOK
  <2>3. QED
    BY <2>2, GoodSignatureIsANodes, WindowIsAge
<1>2. QED
  BY <1>1, InductiveHolds, PTL

\* "StaleTimestamp" is only said of an answer a node did sign, outside the
\* window.
THEOREM StaleHolds == Spec => []StaleIsSigned
<1>1. Inductive => StaleIsSigned
  <2>1. SUFFICES ASSUME Inductive, verdict = "StaleTimestamp"
                 PROVE  \E a \in signed : Genuine(a) /\ Age(a) > Window
    BY DEF StaleIsSigned
  <2>2. Verdict = "StaleTimestamp" /\ TypeOK /\ signed \subseteq Answers
    BY <2>1 DEF Inductive, Judged, TypeOK
  <2>3. PICK a \in signed : Genuine(a) /\ ~InWindow(a.timestamp)
    BY <2>2, GoodSignatureIsANodes
  <2>4. ~(Age(a) <= Window) /\ a.timestamp \in Nat /\ now \in Nat
    BY <2>2, <2>3, WindowIsAge, WidthAssumption DEF TypeOK, Answers
  <2>5. Age(a) > Window
    BY <2>4, WidthAssumption DEF Age
  <2>6. QED
    BY <2>3, <2>5
<1>2. QED
  BY <1>1, InductiveHolds, PTL

\* No header makes the builder of the pre-image throw.
THEOREM TypedRejections == Spec => []RejectedIsTyped
<1>1. Inductive => RejectedIsTyped
  <2>1. SUFFICES ASSUME Inductive, verdict = "RangeError" PROVE FALSE
    BY DEF RejectedIsTyped
  <2>2. Verdict = "RangeError" /\ TypeOK
    BY <2>1 DEF Inductive, Judged
  <2>3. QED
    BY <2>2, VerdictIsTyped
<1>2. QED
  BY <1>1, InductiveHolds, PTL

\* An answer as its node sent it is verified, or stale exactly when its age is
\* more than the window.
THEOREM UntouchedHolds == Spec => []UntouchedIsVerified
<1>1. Inductive => UntouchedIsVerified
  <2>1. SUFFICES ASSUME Inductive, NEW a \in signed, edits = 0, verdict # "none",
                        GetHeader("signature") = SignatureOf(a),
                        a.chain = Trim(chainId), ValidChainId(a.chain)
                 PROVE  verdict = IF Age(a) <= Window THEN "verified" ELSE "StaleTimestamp"
    BY DEF UntouchedIsVerified
  <2>2. TypeOK /\ a \in Answers /\ verdict = Verdict
    BY <2>1 DEF Inductive, TypeOK, Judged
  <2>3. PICK b \in signed : /\ b.request = request /\ b.body = body
                            /\ GetHeader("signature") = SignatureOf(b)
                            /\ GetHeader("pubkey") = b.key
                            /\ GetHeader("timestamp") = b.timestamp
                            /\ GetHeader("nodeId") # Malformed
    BY <2>1 DEF Inductive, AsSent
  <2>4. b \in Answers /\ a.timestamp \in Nat /\ a.timestamp <= U64Max
        /\ b.timestamp \in Nat /\ b.timestamp <= U64Max
    BY <2>2, WidthAssumption DEF TypeOK, Answers
  <2>5. a.key = b.key /\ a.chain = b.chain /\ a.request = b.request /\ a.body = b.body
        /\ a.timestamp = b.timestamp
    BY <2>1, <2>2, <2>3, <2>4, SignatureIsUnique DEF SignatureOf
  <2>6. ValidChainId(chainId)
    <3>1. chainId \in Seq(Graphic \cup {Space, Wide})
      BY <2>2, ChainIdAssumption DEF TypeOK
    <3>2. Trim(a.chain) = a.chain
      BY <2>1, <3>1, TrimIdempotent
    <3>3. QED
      BY <2>1, <3>2 DEF ValidChainId
  <2>7. a.key \in Keys
    BY <2>2 DEF Answers
  <2>8. ~Missing /\ WellFormed
    BY <2>1, <2>2, <2>3, <2>4, <2>5, <2>7, MarkAssumption DEF Missing, WellFormed, TimestampOk
  <2>9. U64LE(a.timestamp) = a.timestamp /\ a.timestamp # OutOfRange
    BY <2>4, U64LEOf, MarkAssumption
  <2> DEFINE image == BuildPreImage(Trim(chainId), request, body, GetHeader("timestamp"))
  <2>10. image = BuildPreImage(a.chain, a.request, a.body, a.timestamp)
         /\ image.timestamp # OutOfRange
    BY <2>1, <2>3, <2>5, <2>9 DEF BuildPreImage
  <2>11. GetHeader("signature") = Signature(GetHeader("pubkey"), image)
    BY <2>1, <2>3, <2>5, <2>10 DEF SignatureOf
  <2> HIDE DEF image
  <2>12. Verdict = IF InWindow(a.timestamp) THEN "verified" ELSE "StaleTimestamp"
    BY <2>3, <2>5, <2>6, <2>8, <2>10, <2>11 DEF Verdict, image
  <2>13. QED
    BY <2>2, <2>12, WindowIsAge
<1>2. QED
  BY <1>1, InductiveHolds, PTL
=============================================================================
