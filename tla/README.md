# A TLA+ model of the Ankr Verifiable RPC SDK

The SDK gives its callers answers of blockchain nodes that were signed by an
attested node, or an error. Two things make that hard. Many calls run at once
on one JavaScript thread and share state: a pinned node, a cache of attested
signers, attestations in flight, a session's binding to a chain, a signal's
listener, a module still loading. And every one of them may be aborted, time out,
fail, or be answered with anything by a gateway that is not trusted. The modules
here are about that shared state, and about the one pure algorithm everything
rests on, the verification of an answer. Cryptography and encodings are not
modelled, only their outcomes.

Paths are relative to `src/packages/`. `core/README` and `proxy/README` are the
packages' own documents. `PROJECT.json` lists, for every definition that models
code, the lines it stands for.

## 1. The system

| part | state it keeps | operations | who uses it |
|---|---|---|---|
| `ConfidentialClient`, `PinSlot` (`core/src/confidential-client.ts`, `node-session.ts`) | the pin (node and expiry), the attestation in flight | `request`, `ready`, `getConfidentialInfo`; `acquire`, `evict` | viem, ethers, the proxy's confidential mode |
| `TrustedVerifier` (`core/src/trusted-verifier.ts`) | an lru-cache of attested signers with a time to live, `inflight` attestations by signer | `verify` | open sessions, the proxy's open mode |
| open session (`core/src/open-session.ts`) | the pinned chain id, the memo of a verifier or of a bootstrap | `pin`, `send`, `chainId` | viem, ethers |
| attestation (`core/src/attestation.ts`, `dstack-verify/src`) | none between attempts; timers and one race per attempt | `attestNode`, `attest`, `verifyDstackAttestation`, `CloudVerifier.verify` | `PinSlot`, `TrustedVerifier` |
| outer HTTP (`core/src/transport.ts`, `abort.ts`) | one listener and a set of waiters per `AbortSignal` | `guardedSend`, `raceAbort`, `readCappedBody`, `fetchTransport` | the client's posts, attestation fetches |
| ethers transport (`ethers/src/confidential.ts`) | an `AbortController`, a timer and a cancel listener per request | `fetchRequestTransport`, `cappedGetUrl`, `sendConfidential` | the ethers provider |
| proxy (`proxy/src`) | keep-alive connections with a request each; one verifier or client for the process | the listener, `openHandler`, `confidentialHandler` | HTTP clients |
| response verification (`core/src/verify.ts`, `preimage.ts`) | none | `verifyResponse`, `validateChainId`, `buildPreImage` | `TrustedVerifier`, sessions, `ConfidentialClient` |
| lazy client (`core/src/lazy-confidential.ts`) | a memoised import and the client it makes | `request`, `ready` | viem, ethers |
| adapters (`viem/src/transport.ts`, `ethers/src/provider.ts`) | viem: the session of a transport, or the chain its lazy client is bound to; ethers: the session or the lazy client | `request`, `ready`, `_send`, `_detectNetwork`, `confidentialReady` | applications |
| OHTTP, binary HTTP, options, URLs, errors, logging, the proxy's command line | none that a call shares | encode, parse, validate, print | all of the above |

**How they interact.** `ConfidentialClient.request` encodes the inner request,
takes a pin from its `PinSlot` (which starts or joins one attestation), seals the
request to the pinned node, posts it through `guardedSend`, and checks and opens
the answer; some failures evict the pin. `TrustedVerifier.verify` checks the
signature of an answer and then that its signer is attested, from the cache or
through an attestation all calls for that signer share. Both go to `attestNode`,
which races `attest` against 60 s; `attest` fetches evidence from the gateway
and hands the quote to the hardware verifier. An open session makes its verifier
from a pinned chain id or from a bootstrap, a verified `eth_chainId`. viem pins
the session before every request, ethers pins at construction or bootstraps. In
Ankr Confidential RPC mode both go through a lazy client, which imports the crypto
on the first call and makes one `ConfidentialClient`. The proxy holds one
`TrustedVerifier`, or one `ConfidentialClient`, for all clients; it renders what
that client throws as a status and an `executed` field.

**What is hard**, and what each part must get right:

- *Confidential client*: calls hold a pin across awaits while others evict it;
  the starter of a shared attestation aborts; the clock crosses the expiry; one
  error object goes to all waiters. It must never reuse a node it blamed, never
  drop one it did not blame, return only answers of the node the request was
  sealed to, never send twice, and say truthfully whether a request may have run.
- *Trusted verifier*: one attestation per signer whatever arrives in between, no
  trust past the time to live, a late answer behind the deadline changes
  nothing, nobody is left waiting, the cache is bounded.
- *Open session*: pins race with bootstraps. All answers are of one chain, a
  ready verifier stays, calls share one bootstrap, a failed one is nobody's memo, and a
  call that ends unbound has posted nothing.
- *Attestation*: every field is bound to what is claimed although the gateway may
  replay evidence; nothing keeps running behind the deadline.
- *Outer HTTP*: sharing one listener loses no abort and leaks no listener; the cap
  holds whatever transport is used; the abort's reason is what the caller sees.
- *Proxy*: what a client decodes is what was verified, for its own request, although
  a copy is verified and the original relayed; a disconnect at any await; a response
  that cannot be written; no client that stays goes without an answer; unread body bytes are not taken for a request; the status
  and the `executed` field, which come from two places, never make a client repeat
  what may have run.
- *Verification*: the order of the checks decides which error a caller sees, and the
  confidential client keeps its pin on one of them; repeated and mixed headers; the
  boundaries of the window and of a u64; chain ids with white space.
- *Adapters*: viem clients of several chains share one transport, whose session may
  be bootstrapping; calls abort while the crypto loads, which reads no signal; a
  failed import must not be everybody's for good.

`PROJECT.json` lists these and further hazards at the lines where they bite,
with the properties that cover them.

## 2. The modules

| module | models | shared with |
|---|---|---|
| `SealedCall` | what `request()` promises its caller; abstract | implemented by `ConfidentialClient` |
| `ConfidentialClient` | client and pin slot | instantiated by `ConfidentialProxy`; sees `Attestation` and `Transport` as outcomes |
| `TrustedVerifier` | verifier, cache, flights | instantiated by `OpenProxy` |
| `VerifierRecency` | `TrustedVerifier` and when each signer was last used | |
| `BoundSession` | what an open session promises its callers; abstract | implemented by `OpenSession` and `Adapters` |
| `OpenSession` | open session | extended by `Adapters` |
| `Attestation` | `attestNode` down to the hardware verifier | |
| `Transport` | `guardedSend`, `raceAbort`, the three transports | |
| `OpenProxy` | the proxy in open mode over `TrustedVerifier` | |
| `ConfidentialProxy` | the proxy in Confidential mode over `ConfidentialClient` | |
| `Verification` | `verifyResponse`, and a gateway that edits the answer | its verdicts are outcomes in the other modules |
| `LazyClient` | the lazy client behind viem and ethers, and what they make of an inner answer | instantiated by `Adapters` |
| `Adapters` | viem, ethers and direct callers over `OpenSession` or `LazyClient` | |
| `MC...` | the instances for TLC (symmetry where it is used) | |
| `...Proofs` | the theorems about the module they extend | |

Conventions shared by the modules:

- **A step is the code between two awaits.** Where nothing can come between a
  promise's settlement and the code that waits for it, both are one step: the end
  of a flight and of a bootstrap includes its `finally` or `catch` and all its
  waiters. `Transport` is the exception. There an abort between the two matters,
  so `Deliver` and `Resume` are separate.
- **Objects are named after the call that made them.** A call starts at most one
  attestation (or bootstrap, or registry entry), so the call names it. This gives
  `Pin` objects the identity that `evict` compares, and cache entries theirs.
- **The gateway is the environment.** It answers with anything, including answers
  and quotes that honest nodes produced for other calls. What cannot be produced
  without a node's key is not produced.
- **Mutated variants.** Operators that no action of the model uses
  (`EvictByNode`, `RejectClearsMemo`, ...) stand before the definition they
  vary. Each is a plausible slip in that definition, and the property named beside
  it in `PROJECT.json` must fail when it is put in.

### ConfidentialClient

`pin` and `flight` are `PinSlot.#pin` and `#flight`; `attestation[f]` is the
attestation call `f` started, with the node and expiry it yields and the
`executed` field of the error it may fail with; `pc[c]` is the await at which
call `c` is suspended, `uses[c]` the flight or the pin it holds, `sent[c]` the
local flag of `request`, `aborted[c]` its signal. Actions: `StartRequest`,
`StartReady`, `Encode` (which runs `acquire`), `FlightResolves`,
`FlightRejects`, `Seal`, `TransportFails`, `Receive`, `Check` (all verdicts of
`#exchange` and `verifyAnswer`, with `evictsPin`), `Abort`, `ClockMoves`.

`Date.now()` is a wall clock, so `now` moves both ways. A failed flight's error is one
object: `FlightRejects` gives it `executed` "no" when any of its waiters is a
`request`, and the outcomes of the waiters refer to it. `MalformedConfidentialResponse` is folded into
`ConfidentialDecryptFailed`: both are thrown behind the signature and treated alike.

### TrustedVerifier and VerifierRecency

`cache`, `inflight` and `attestation` are the verifier's; `pc`, `signer` and
`flight` a call's. `Miss`, `Hit` and `Unverified` are the outcomes of the code up
to the first await; `Fetched`, `Proves`, `Fails` and `Deadline` the life of an
attestation, which may be answered behind its deadline; `FlightEnds` the
`finally`, the store and the waiters. The cache is a library and is modelled as it
is used: `set` orders entries and evicts the oldest, `has` compares ages by a
monotonic clock and moves nothing. Its `ttlResolution` is left out, and
`pubkeyCacheMax` is taken to be at least 1. `verifyResponse` is its verdict.
`VerifierRecency` adds the order in which signers were used, for one finding.

### OpenSession

`pinned` is the chain id, `verifier` the memo, which holds a verifier or the
bootstrap that will yield one. Bootstraps are posts that anything may answer.
`Pin` is total: a valid id, an invalid one and another chain each have the code's
outcome, including the id that stays behind when `make` throws. `BoundSession` is
the session as its callers see it: the chain it is bound to, the sends whose payload
has left, and what each call was told. An id that no verifier can be made for binds
nothing in it.

### Attestation

`step[a]` is the await at which `attest` is, `evidence[a]` what it handed over,
`outcome[a]` how `attestNode` settled, `quotes` what hardware has issued.
`FetchAnswers` contains every check of `attest` and of `verifyDstackAttestation`
up to the hardware verifier, `HardwareAnswers` the service's verdict and the checks
behind it. A nonce is the attempt itself: 32 random bytes do not repeat. Keys and
hashes stand for their lowercase hex, as every comparison lowercases both sides. A
user's own `HardwareVerifier` is left out.

### Transport

`registry`, `fails` and `listening` are the registry of `abort.ts`; `io`, `kept`
and `result` the transport's promise, `race` what `raceAbort` settled with. `via`
picks `fetch`, the ethers transport or one the user injected. In ethers `stopped`
and `queued` are the controller and the cancel listener, which ethers runs in a
later task. Left out: a custom transport that aborts its own signal synchronously
inside the call.

### OpenProxy

`stage[r]` follows a request through the listener and `openHandler`; `on`, `open`
and `leftover` are the connections; the verifier's variables are those of the
`TrustedVerifier` it instantiates, one request being one `verify` call. An answer
has a body, which is a text under a content coding or bytes that do not decode, and
the request and text its signature covers. The decoded copy is verified; what the
client is given is a body and the coding its headers name, and `Reads` is what it
makes of the two. Other headers are left out. `trace` is the trace id on the error
object a flight rejects with. That `node:http` closes the connection when a
request is destroyed is taken from the library.

### ConfidentialProxy

The client's variables are those of the `ConfidentialClient` it instantiates: a
proxied request is a `request` call, the attestation at start-up its one `ready`
call, a disconnect the call's abort. `stage`, `connected` and `reply` are the
listener's. What the code does between the settlement of a call and the end of the
response has no await, so `Deliver` is conjoined to the step of the client that
settles it: the response is read off the client's next state (`Response(r)'`).
Requests that waited for one failed attestation have one error object, hence one
`executed` field and one status. `StatusOf` gives the statuses an error may be
rendered with; which of them it is depends on data the model leaves out. `res.writeHead`
throws on a content type that Node refuses although the decoder let it pass: `Statuses`
has the Internal 502 the error path then answers with, behind a request that ran.
`Hears` is the catch handler's test for a client that is gone.

### Verification

One answer. `signed` is what nodes have signed, `headers` and `body` what reaches
the client, `now` its clock. The gateway's actions edit the answer one field at a
time or put in any part of another signed answer (`Splice`); `Verify` is the whole of
`verifyResponse`, with the checks in its order. A `Headers` object joins repeated
values, which no format allows; in a `Record` the first key that matches counts.
Characters of a chain id are graphic, white space, or two bytes long; `Trim` and
`Utf8Length` work on sequences of them. `U64Max` stands for 2^64 - 1 and
`MaxDecimal` for the largest number of the digits the header's pattern admits:
between the two lies what would overflow. Hashes and signatures are taken to be
injective, that is SHA-256 and Ed25519 to be sound.

### LazyClient and Adapters

`loading` is `#loading`; an import, like the client it makes, is named after the call
that started it. `Attach` is the factory a viem client runs when it is made, `Call`
the synchronous part of `request` or `ready`, `HandOver` what the loaded client does
first: read the signal. What happens then is `ConfidentialClient`'s and is one step
here, `Settles`, with the mapping of the inner answer to viem's and ethers' results.

`Adapters` has both modes; `user` says who is there and never changes. A viem request
on an unbound session pins and goes on in one step (`RequestPins`), also while
another client's bootstrap runs; on a bound session it is refused or enters
(`RequestDeclared`). Direct callers of `createOpenSession` pin as they like, so that
the properties of `OpenSession` are checked in the same run.

## 3. What is checked

Runs repeat nothing that is proved and that another property of the same module
implies or rests on. The type invariants of all modules, and `NoNewUseOfBlamedPin`,
`NobodyStranded`, `CacheBounded`, `OneChain`, `PostedOnlyWhenBound`,
`BindingIsFinal`, `RepliesAreFinal` and `RelayedIsOwnAnswer`, are stated in the modules and proved for every
value of the constants.

| run (config) | instance | properties | shows |
|---|---|---|---|
| `client_safety` (`ClientSafety.cfg`) | 2 requests, 1 ready, 2 nodes, `Ttl` 1, clock 0..1 | `SingleFlight`, `BlamedPinGone`, `OnlyBlameDropsPin`, `UseNeverExtends`, `ExecutedTruthful`, `AnsweredByPinnedNode`, `FlightEndsByItself`, `KeepsPromise` | the pin's life cycle, the shared flight, the executed field, and that the client implements `SealedCall` |
| `verifier_safety` (`VerifierSafety.cfg`) | 5 calls, 3 signers, cache of 2, `Ttl` 1, clock 0..2 | `OneFlightPerSigner`, `CacheIsLastProved`, `AcceptedIsAttested`, `OncePerTtl` | what the cache holds, and what it and the flights let a caller believe |
| `attestation` (`Attestation.cfg`) | 2 attempts, 2 keys, 2 composes, 1 quote | `ProvedIsGenuine`, `NothingIsLeftRunning` | what a proof proves; that each attempt ends |
| `transport` (`Transport.cfg`) | 2 sends, 1 signal or none, cap 1, chunks up to 2 | `AbortReachesEveryone`, `OneListenerWhileWaiting`, `CapHolds`, `ReasonWins`, `RequestsAreTornDown` | aborts, the cap, and that aborted requests are torn down |
| `verification` (`Verification.cfg`) | 2 keys, 2 chains, 4 configured ids, 2 requests and bodies, 2 signed answers, 1 edit, u64 of 0..2, decimals to 3, clock 0..2, window 1 | `VerifiedIsSigned`, `StaleIsSigned`, `UntouchedIsVerified`, `RejectedIsTyped` | what is accepted, called stale and refused, against what nodes signed |
| `adapters` (`Adapters.cfg`) | 3 sends, 1 `chainId` or `ready`, 2 chains, 1 invalid id, every user | `OneBootstrap`, `KeepsBinding`, `MemoIsLive`, `VerifierStays`, `DeclaredChainOnly`, `OneClient`, `FailedLoadIsForgotten`, `AbortedIsNotHanded` | pins and bootstraps in any order, and that the session implements `BoundSession`; one transport for clients of several chains; imports that fail, and aborts behind them |
| `open_proxy` (`OpenProxy.cfg`) | 2 requests, 2 connections, 1 signer, 2 texts, one of them as a body, plain and compressed | `RelayedIsVerified`, `UnansweredIsGone`, `NoGhostRequest`, `EveryForwardedEnds` | what clients are given, and who is given nothing; that forwarded requests end |
| `confidential_proxy` (`ConfidentialProxy.cfg`) | 2 requests and the start-up `ready`, 1 node, `Ttl` 1, clock 0..1 | `EveryClientIsTold`, `ErrorTellsExecution`, `NothingSentForTheGone`, `EveryRequestEnds` | that clients are answered, what an error tells them about running again, what is not sent for them; that requests end |
| `client_ready_error`, `verifier_eviction`, `session_failed_pin`, `proxy_trace` | as small as the case allows | one property each | the four disagreements of section 5 |

**Why the bounds are enough.** A shared pin or flight is misused by three calls: one
that made it, one that blames or leaves it, one that still relies on it. With two
nodes, "the same object" and "the same node" differ. A clock of two instants and a
`Ttl` of 1 has the instant before, at and after an expiry, because the client's
clock may step back; the verifier's clock does not, and has three. Five calls with
three signers and a cache of two store three entries, evict one, attest its signer
again and still leave a call to join. A session needs one bootstrap, one waiter, one
call that comes after, and the asker; the same four are the viem clients of two
chains, one of them twice, or the call that starts an import, two that share it or
come after it failed, and a `ready`. One quote is enough: an acceptance rests on
one quote, which is of either attempt, key and compose. Two sends are enough for the
registry: one leaves while the other waits, or comes after it left; with two
signals, entries of different signals never meet. Two requests to the proxy share
one flight and one connection, or neither; an answer's body is one text
under either coding, and a second text is what a wrong signature covers. `confidential_proxy` has one node: its properties are
about the listener and the error path, and a second node multiplies its states by more
than four. What two nodes can do to an answer, which pin it is compared with, is in
`client_safety`, and that a relayed answer is the right node's is the theorem
`RelaysAreGenuine`, for any set of nodes. In `verification` every
combination of an honest answer, a clock and a chain id is an initial state; one edit
is one field dropped, repeated or replaced, or any set of parts of the other signed
answer, and more edits lead to answers that differ from every signed one in more
places. Its theorems are about any number. The invariants that are also proved do not
depend on these bounds.

`CHECK_DEADLOCK FALSE` stands where all calls may have ended: an instance makes a
fixed number of calls, and then nothing happens. `client_safety` keeps the check,
as its clock never stops. Symmetry is used only in runs without liveness.

**Fairness.**

- `ConfidentialProxy`: weak fairness of each request's local work (`Works`), which is
  JavaScript and WebCrypto; of `AttestationSettles`, which `attestNode`'s 60 s deadline
  guarantees; and of `UpstreamFails`, which the HTTP client's own timeouts do. None of
  clients or of the upstream's answer. `ConfidentialClient` by itself has none: without
  the proxy's HTTP client nothing bounds the transport.
- `Attestation`: the deadline, and the hardware verifier's own timer. None of the
  gateway or the service.
- `Transport`: microtasks, timers, the queued cancel listener, and that an aborted
  `fetch` breaks. None of the network.
- `OpenProxy`: the proxy's own steps, the upstream client's timeouts, and the
  attestation's deadline. None of clients, the upstream, or the answer's arrival.
- `OpenSession`, `LazyClient`, `Adapters`, `Verification`: none. How long a bootstrap
  or an import takes is bounded by nothing in the code.

## 4. What is proved

The theorems hold for any sets of calls, nodes, signers, chains, keys and sends,
and any bounds. They assume only what the modules' named ASSUMEs say: that names of
different kinds differ, that times and sizes are numbers, and that a `Ttl` and the
cache's capacity are positive. Where a cache's cardinality is spoken of, the calls of
`TrustedVerifier` and the requests of `OpenProxy` are finite sets.

- **`ConfidentialClientProofs`**: `TypeCorrect`, `OneFlight`, `BlameIsFinal`,
  `BlamedPinIsNotReused`, `OnlyBlameDrops`, `AnswersAreGenuine`, `ExecutedIsTrue`,
  `FlightOutlivesAborts`, `UseDoesNotExtend`, `ClientKeepsPromise`. The invariant `Inductive` adds to
  the checked ones what a call's place says it holds (before `acquire` nothing, in
  the wait the flight, afterwards a pin that was installed), that a call has an
  outcome exactly when it is done, and which `executed` its error has. Without the
  first, an answer could be compared with a pin that never existed; without the
  last, one waiter's write to the shared error could spoil another's. The
  refinement maps the hidden state to `SealedCall`'s four variables; its core is a
  lemma about one settling call and one about several that settle together.
- **`ConfidentialProxyProofs`**: `ProxyRunsTheClient`, `Typed`, `RelaysAreGenuine`,
  `ClientsAreTold`, `ErrorsAreTrue`, `NothingForTheGone`. The first is a refinement: every step of the
  proxy is a step of `ConfidentialClient` or leaves it alone. With it the client's
  invariant, from an instance of `ConfidentialClientProofs`, holds in the proxy, and
  the proxy's own adds where a request's call is while the proxy works on it, that an
  abort is known to the call of a client that is gone, and which `executed` field an
  error has before and after the send. `ErrorTellsExecution` is about a client error, a
  503 and an `executed` of "no"; a missing field says nothing beside a 502 or a 504, which
  is what the answer to a relay that could not be written has.
- **`TrustedVerifierProofs`**: `TypeCorrect`, `SignersShareFlights`,
  `NobodyIsStranded`, `AcceptanceIsProved`, `CacheStaysBounded`, `CacheKeepsTheLast`,
  `AttestedOncePerTtl`, `AcceptanceStaysProved`. The invariant says that a registered
  flight attests the signer it stands under, that a waiting call is joined to the
  flight of its own signer, and that a cache entry is a proof. To it comes what a step
  does to the proofs made so far: it adds one, which the cache takes in, or none, and
  touches no other; so the order of the proofs agrees with their times
  (`ProofsInOrder`). `CacheIsLastProved` is inductive on top of that, and its three
  cases are those of `set()`: with an entry to replace, nothing crosses the end of the
  cache; in a full one the oldest entry has `Max` - 1 other signers behind it, and the
  new proof is one more; in one with room every signer proved since an entry was made
  has an entry itself. The counting is by injections and surjections between entries
  and their signers. `OncePerTtl` follows: the last proof of a signer that missed
  the cache within its time to live is not in the cache, so `Max` others came after.
- **`OpenProxyProofs`**: `ProxyRunsTheVerifier`, `Typed`, `RelaysAreVerified`,
  `NoGhostIsRead`, `NobodyIsForgotten`, `RepliedOnce`. The first is a refinement: every
  step of the proxy is a step of the `TrustedVerifier` it instantiates or leaves it alone,
  and what a request verifies is an answer whose signer it read off that answer. With
  it the verifier's theorems, from an instance of `TrustedVerifierProofs`, hold in the
  proxy. The proxy's own invariant adds that a call waits or is accepted only for an
  answer that is signed and stays what it was, that a relayed text is the accepted
  one's, and that the rest of a body in an open connection belongs to a response which
  is still being written. The last excludes a ghost request: `Begin` needs the previous
  request of the connection gone. Who is given no reply, and that a reply is final,
  rest on two small invariants of their own about one request per connection.
- **`AdaptersProofs`**, first part, about `OpenSession`: `TypeCorrect`,
  `SessionKeepsBinding`, `AnswersAreOfOneChain`, `NothingLeavesUnbound`,
  `BootstrapIsShared`, `NobodyWaitsInVain`, `BoundForGood`, `VerifierIsKept`. The
  invariant adds that a ready verifier is of the pinned chain, that a call which went
  on holds one and a send has posted, and that a running bootstrap is the memo unless a
  pin replaced it. The last one is what a second bootstrap would break. The refinement
  to `BoundSession` has one lemma per kind of step its callers notice: a pin, calls that
  go on together, a bootstrap that takes its waiters along, the end of one send.
  Second part, about `Adapters`: `AdaptersTyped`, `AdaptersKeepBinding`,
  `DeclaredChainHolds`, `AdaptersAnswerOfOneChain`, `AdaptersPostWhenBound`,
  `AdaptersShareBootstrap`, `AdaptersWaitersAreServed`, `AdaptersKeepVerifier`, `OneClientIsMade`,
  `FailedLoadsAreForgotten`, `AbortedStaysOut`. A session driven by viem has a step
  `OpenSession` does not, the pin and send of one request; the session's invariant is
  shown to survive it, and is taken over for all other steps. Added are that only calls
  of the pinned chain leave "idle", that a call behind viem's factory is of the bound
  chain, and that an import which runs or has succeeded is the one `#loading` holds.
- **`AttestationProofs`**: `TypeCorrect`, `ProofIsGenuine`. The invariant adds that the
  evidence under verification names the expected key, which was compared before the
  hardware verifier was asked, and has a quote hardware issued, or none.
- **`VerificationProofs`**: `Typed`, `VerifiedHolds`, `StaleHolds`,
  `TypedRejections`, `UntouchedHolds`, for chain ids of any length and any alphabet,
  any widths and window, and any number of edits. The invariant says that the answer
  is still the one a node signed as long as nobody edited it, and that a verdict is
  the value of `Verdict` in the state it stands in. The lemmas are about the
  operators: `Trim` is idempotent, a signature determines its pre-image, and one that
  verifies is a node's.
- **`TransportProofs`**: `TypeCorrect`, `NobodyMissesTheAbort`,
  `ListenersAreCounted`, `CapIsKept`, `AbortWins`. The invariant says that a live
  signal's entry is in the registry with its one listener exactly while it has
  waiters, that a waiter stands in one entry, the one it subscribed to, and that
  behind the abort everyone has been told. Without the second, releasing one waiter
  could take the listener from another.

Only model-checked: all liveness (`NothingIsLeftRunning`, `RequestsAreTornDown`,
`EveryForwardedEnds`, `EveryRequestEnds`), which with ENABLED is out of the prover's
reach. Every other property of a passing run is also a theorem.

## 5. Disagreements with what the repository says

- **`ready()` may say `executed: "no"`** (`client_ready_error`). `core/README:251`
  gives `"unknown"`. A `ready()` and a `request()` that wait for the same attestation
  get one error object, and `request` writes `"no"` on it
  (`confidential-client.ts:165`).
- **The cache evicts by age of attestation** (`verifier_eviction`).
  `trusted-verifier.ts:38` speaks of LRU eviction. Signers are looked up with `has`,
  which does not count as a use, so a full cache evicts the signer attested first.
- **A failed `pin` leaves its id behind** (`session_failed_pin`). The id is stored
  before `make` throws for it (`open-session.ts:73-74`); the session then refuses
  every valid chain as if it were bound.
- **A client may be told another request's trace id** (`proxy_trace`). The trace id is
  written on the caught error (`pipeline.ts:57`), which requests waiting for one
  attestation share.

Noted without a run: a call aborted while its answer is verified settles with its own
result and may evict the pin, although `core/README:213` has an abort reject with
`signal.reason`. The model has this behaviour (`Check` reads no signal). And a service
that answers the JSON `null` makes `CloudVerifier` throw a TypeError, against the
comment at `cloud-verifier.ts:59`; `attest` reports it as a failed attestation.

## 6. What is not modelled, and what could come next

Out of reach: OHTTP and binary HTTP, which are cryptography and byte layouts. Their
failures are outcomes of `EncodeFails`, `SealFails` and `Check`; that what is encoded
decodes to itself is for test vectors. Without shared state: options and URLs
(validation before any state exists; its verdict on a chain id is in the models),
errors (their kinds, executed fields and statuses are in the models of the code that
throws and renders them), logging and redaction, and the proxy's configuration. A
signal that shuts the proxy down closes every connection, which is `Disconnect` of
every request. Test support, vectors and examples are not part of the program. What
ethers itself retries or redirects, and the nodes, gateway and hardware verifier, are
the environment.

Next, most important first:

1. `LazyClient` over an instance of `ConfidentialClient` in place of its one-step
   `Settles`, so that an abort behind the load is followed to the end.
2. An abstract specification for the two proxies, a request that is answered once with
   what a node signed or with an error that tells whether it ran, and the refinements
   that show `OpenProxy` and `ConfidentialProxy` implement it.
3. The status the confidential proxy renders an error with as a function of the error,
   in place of the set `StatusOf`.

## 7. Running

`tlc -config ClientSafety.cfg MCConfidentialClient` and so on, with the module and
config of each run in `PROJECT.json`; `tlapm ConfidentialClientProofs.tla` for the
proofs. The largest runs (`open_proxy`, `transport`, `verification`,
`confidential_proxy`) take one to three minutes on two workers.
