--------------------------- MODULE TrustedVerifier ---------------------------
(***************************************************************************)
(* TrustedVerifier of core/src/trusted-verifier.ts: many verify() calls    *)
(* share a bounded time-to-live cache of attested signers and at most one  *)
(* attestation in flight per signer.                                       *)
(*                                                                         *)
(* Each call is one invocation of verify().  A call starts at most one     *)
(* attestation, so an attestation, its flight and the cache entry it makes *)
(* are named after the call that started it.  attestNode() races the       *)
(* attestation itself against a 60 s deadline: the fetch is cancelled by   *)
(* it, the hardware verifier is not and may answer when nobody waits.      *)
(*                                                                         *)
(* The cache is an lru-cache, modelled from how it is used: entries are    *)
(* added with set() and looked up with has() only.  has() does not move an *)
(* entry, so the entries stay in the order in which they were last set.    *)
(***************************************************************************)
EXTENDS Integers, FiniteSets

CONSTANTS Calls,    \* invocations of verify()
          Signers,  \* public keys that sign responses
          None,     \* JavaScript's undefined
          Ttl,      \* pubkeyCacheTtlMs
          Max,      \* pubkeyCacheMax
          MaxTime   \* bound on the cache's clock

ASSUME CallsAssumption == IsFiniteSet(Calls) /\ None \notin Calls \cup Signers
ASSUME CacheAssumption == Ttl \in Nat \ {0} /\ Max \in Nat \ {0} /\ MaxTime \in Nat

VARIABLES now,          \* performance.now(), which lru-cache reads: it never steps back
          cache,        \* the entries of the cache, fresh or not
          inflight,     \* inflight[k]: the flight that attests signer k
          attestation,  \* attestation[d]: the attestation call d started
          pc,           \* where call c is
          signer,       \* the key that signed the response c verifies
          flight        \* the flight c waits for

vars == <<now, cache, inflight, attestation, pc, signer, flight>>

-----------------------------------------------------------------------------
(* The cache *)

Proved == {d \in Calls : attestation[d].outcome = "proved"}

\* lru-cache counts an entry stale when its age exceeds the ttl.
FreshBelow(d) == now - attestation[d].at < Ttl

Fresh(d) == now - attestation[d].at <= Ttl

Cached(k) == \E d \in cache : signer[d] = k /\ Fresh(d)

\* The entry that was set first.
Oldest(S) == CHOOSE d \in S : \A e \in S : attestation[d].order <= attestation[e].order

\* Fault: a full cache makes room before it looks for an entry of the same key.
StoreEvictsFirst(d) ==
    LET room == IF Cardinality(cache) = Max THEN cache \ {Oldest(cache)} ELSE cache IN
    {e \in room : signer[e] # signer[d]} \cup {d}

\* set(): an entry of the same key is replaced and becomes the newest; else a
\* full cache gives up its oldest entry.  Stale entries are kept and count.
Store(d) ==
    LET replaced == {e \in cache : signer[e] = signer[d]} IN
    IF replaced # {} THEN (cache \ replaced) \cup {d}
    ELSE IF Cardinality(cache) = Max THEN (cache \ {Oldest(cache)}) \cup {d}
    ELSE cache \cup {d}

\* Attestation d at another point of its work, or with another outcome.
Became(d, work, outcome) ==
    [work |-> work, outcome |-> outcome,
     at |-> attestation[d].at, order |-> attestation[d].order]

-----------------------------------------------------------------------------
(* One call: verifyResponse(), then the cache, then the flight, in one step *)

\* verifyResponse() threw: a bad or stale signature, a missing header.
Unverified(c) ==
    /\ pc[c] = "idle"
    /\ pc' = [pc EXCEPT ![c] = "rejected"]
    /\ UNCHANGED <<now, cache, inflight, attestation, signer, flight>>

Hit(c, k) ==
    /\ pc[c] = "idle"
    /\ Cached(k)
    /\ pc' = [pc EXCEPT ![c] = "accepted"]
    /\ signer' = [signer EXCEPT ![c] = k]
    /\ UNCHANGED <<now, cache, inflight, attestation, flight>>

\* Fault: the flight is registered for every miss, running or not.
AttestAlways(c, k) ==
    /\ pc[c] = "idle"
    /\ ~Cached(k)
    /\ pc' = [pc EXCEPT ![c] = "waiting"]
    /\ signer' = [signer EXCEPT ![c] = k]
    /\ flight' = [flight EXCEPT ![c] = c]
    /\ inflight' = [inflight EXCEPT ![k] = c]
    /\ attestation' = [attestation EXCEPT ![c] = Became(c, "fetching", "pending")]
    /\ UNCHANGED <<now, cache>>

Miss(c, k) ==
    /\ pc[c] = "idle"
    /\ ~Cached(k)
    /\ pc' = [pc EXCEPT ![c] = "waiting"]
    /\ signer' = [signer EXCEPT ![c] = k]
    /\ IF inflight[k] = None
       THEN /\ flight' = [flight EXCEPT ![c] = c]
            /\ inflight' = [inflight EXCEPT ![k] = c]
            /\ attestation' = [attestation EXCEPT ![c] = Became(c, "fetching", "pending")]
       ELSE /\ flight' = [flight EXCEPT ![c] = inflight[k]]
            /\ UNCHANGED <<inflight, attestation>>
    /\ UNCHANGED <<now, cache>>

-----------------------------------------------------------------------------
(* One attestation *)

Fetched(d) ==
    /\ attestation[d].work = "fetching"
    /\ attestation' = [attestation EXCEPT ![d] = Became(d, "verifying", attestation[d].outcome)]
    /\ UNCHANGED <<now, cache, inflight, pc, signer, flight>>

\* Fault: the entry is set by the verification itself, not by whoever awaits it.
ProvesLate(d) ==
    /\ attestation[d].work = "verifying"
    /\ attestation' = [attestation EXCEPT ![d] =
            [work |-> "over", at |-> now, order |-> Cardinality(Proved),
             outcome |-> IF attestation[d].outcome = "pending" THEN "proved" ELSE "failed"]]
    /\ cache' = Store(d)
    /\ UNCHANGED <<now, inflight, pc, signer, flight>>

\* The key, the nonce and the hardware verifier agree.  After the deadline
\* nobody reads the result; before it the signer is cached.
Proves(d) ==
    /\ attestation[d].work = "verifying"
    /\ IF attestation[d].outcome = "pending"
       THEN /\ attestation' = [attestation EXCEPT ![d] =
                    [work |-> "over", outcome |-> "proved",
                     at |-> now, order |-> Cardinality(Proved)]]
            /\ cache' = Store(d)
       ELSE /\ attestation' = [attestation EXCEPT ![d] = Became(d, "over", "failed")]
            /\ UNCHANGED cache
    /\ UNCHANGED <<now, inflight, pc, signer, flight>>

Fails(d) ==
    /\ attestation[d].work \in {"fetching", "verifying"}
    /\ attestation' = [attestation EXCEPT ![d] = Became(d, "over", "failed")]
    /\ UNCHANGED <<now, cache, inflight, pc, signer, flight>>

\* The 60 s are over: the waiters' promise rejects and the fetch is cancelled.
Deadline(d) ==
    /\ attestation[d].outcome = "pending"
    /\ attestation' = [attestation EXCEPT ![d] =
            Became(d, IF attestation[d].work = "fetching" THEN "over" ELSE "verifying", "failed")]
    /\ UNCHANGED <<now, cache, inflight, pc, signer, flight>>

\* finally() forgets the flight, then everybody who awaits it goes on.  Calls
\* may look up the cache and the flight between the outcome and this step.
FlightEnds(d) ==
    /\ attestation[d].outcome \in {"proved", "failed"}
    /\ inflight[signer[d]] = d
    /\ inflight' = [inflight EXCEPT ![signer[d]] = None]
    /\ pc' = [c \in Calls |->
                IF pc[c] = "waiting" /\ flight[c] = d
                THEN IF attestation[d].outcome = "proved" THEN "accepted" ELSE "rejected"
                ELSE pc[c]]
    /\ UNCHANGED <<now, cache, attestation, signer, flight>>

Tick ==
    /\ now < MaxTime
    /\ now' = now + 1
    /\ UNCHANGED <<cache, inflight, attestation, pc, signer, flight>>

-----------------------------------------------------------------------------

Init ==
    /\ now = 0
    /\ cache = {}
    /\ inflight = [k \in Signers |-> None]
    /\ attestation = [d \in Calls |->
            [work |-> "none", outcome |-> "none", at |-> 0, order |-> 0]]
    /\ pc = [c \in Calls |-> "idle"]
    /\ signer = [c \in Calls |-> None]
    /\ flight = [c \in Calls |-> None]

Next ==
    \/ Tick
    \/ \E c \in Calls :
        \/ Unverified(c)
        \/ \E k \in Signers : Hit(c, k) \/ Miss(c, k)
        \/ Fetched(c)
        \/ Proves(c)
        \/ Fails(c)
        \/ Deadline(c)
        \/ FlightEnds(c)

Spec == Init /\ [][Next]_vars

-----------------------------------------------------------------------------
(* Correctness *)

Attestations ==
    [work : {"none", "fetching", "verifying", "over"},
     outcome : {"none", "pending", "proved", "failed"},
     at : 0 .. MaxTime, order : Nat]

\* Entries, flights and proofs are all named after the calls that made them.
TypeOK ==
    /\ now \in 0 .. MaxTime
    /\ cache \subseteq Calls
    /\ inflight \in [Signers -> Calls \cup {None}]
    /\ attestation \in [Calls -> Attestations]
    /\ pc \in [Calls -> {"idle", "waiting", "accepted", "rejected"}]
    /\ signer \in [Calls -> Signers \cup {None}]
    /\ flight \in [Calls -> Calls \cup {None}]

\* However calls, deadlines and late answers interleave, the attestation in
\* progress for a signer is the one flight every call for it joins
\* (trusted-verifier.ts 110-115).
OneFlightPerSigner ==
    \A d \in Calls :
        attestation[d].outcome = "pending" => signer[d] # None /\ inflight[signer[d]] = d

\* A call is accepted only on a proof of its own signer: one it waited for, or
\* one made less than the time to live ago.  An attestation that answers after
\* its deadline is no proof, and never becomes one through the cache.
AcceptedIsAttested ==
    [][\A c \in Calls :
        pc[c] # "accepted" /\ pc'[c] = "accepted" =>
            \E d \in Calls :
                /\ attestation[d].outcome = "proved"
                /\ signer[d] = signer'[c]
                /\ flight[c] = d \/ now - attestation[d].at <= Ttl]_vars

\* The cache never holds more signers than its capacity, and each once.
CacheBounded ==
    /\ Cardinality(cache) <= Max
    /\ \A d, e \in cache : signer[d] = signer[e] => d = e

\* The other signers that were proved after d, and the last proof of a signer.
ProvedSince(d) ==
    {signer[e] : e \in {f \in Proved : attestation[f].order > attestation[d].order}} \ {signer[d]}

Last(d) == \A e \in Proved : signer[e] = signer[d] => attestation[e].order <= attestation[d].order

\* The cache is the last proof of each of the Max signers proved last: however
\* proofs of several signers come in, none of those is missing, and nothing
\* older or superseded is kept (trusted-verifier.ts 67-72, 130).
CacheIsLastProved ==
    cache = {d \in Proved : Last(d) /\ Cardinality(ProvedSince(d)) < Max}

\* "Attests each unknown signer once per cache TTL" (trusted-verifier.ts 55):
\* a signer proved within the time to live is attested again only if at least
\* as many other signers as the cache holds were proved since.
OncePerTtl ==
    [][\A k \in Signers, d \in Proved :
        /\ inflight[k] = None
        /\ inflight'[k] # None
        /\ signer[d] = k
        /\ now - attestation[d].at <= Ttl
        => Cardinality(ProvedSince(d)) >= Max]_vars

\* A call waits only for a flight that is still registered, so none is left
\* behind when a flight ends.
NobodyStranded ==
    \A c \in Calls : pc[c] = "waiting" => inflight[signer[c]] = flight[c]

=============================================================================
