------------------------ MODULE TrustedVerifierProofs ------------------------
(***************************************************************************)
(* Proofs about TrustedVerifier for any finite set of calls, any set of    *)
(* signers, any time to live and any capacity.                             *)
(***************************************************************************)
EXTENDS TrustedVerifier, FiniteSetTheorems, WellFoundedInduction, TLAPS

-----------------------------------------------------------------------------
(* The inductive invariant *)

\* A call that has not looked up its signer has started nothing.
IdleIsBlank ==
    \A c \in Calls :
        pc[c] = "idle" =>
            /\ signer[c] = None /\ flight[c] = None
            /\ attestation[c].work = "none" /\ attestation[c].outcome = "none"

\* An attestation that was started has a signer, and its work is open as long
\* as its outcome is.
StartedIsKnown ==
    \A d \in Calls :
        /\ attestation[d].work = "none" <=> attestation[d].outcome = "none"
        /\ attestation[d].outcome # "none" => signer[d] \in Signers
        /\ attestation[d].outcome = "pending" => attestation[d].work \in {"fetching", "verifying"}
        /\ attestation[d].work = "fetching" => attestation[d].outcome = "pending"
        /\ attestation[d].outcome = "proved" => attestation[d].work = "over"

\* A registered flight attests the signer it is registered for.
RegisteredIsStarted ==
    \A k \in Signers :
        inflight[k] # None =>
            signer[inflight[k]] = k /\ attestation[inflight[k]].outcome # "none"

\* A waiting call knows its signer and the flight it joined.
WaitingIsJoined ==
    \A c \in Calls :
        pc[c] = "waiting" => signer[c] \in Signers /\ flight[c] = inflight[signer[c]]
                             /\ flight[c] \in Calls

\* Every entry of the cache comes from a proof, and no two from one signer.
CachedIsProved ==
    /\ cache \subseteq Proved
    /\ \A d, e \in cache : signer[d] = signer[e] => d = e

Inductive ==
    /\ TypeOK
    /\ IdleIsBlank
    /\ StartedIsKnown
    /\ RegisteredIsStarted
    /\ WaitingIsJoined
    /\ OneFlightPerSigner
    /\ CachedIsProved

-----------------------------------------------------------------------------

LEMMA InitInductive == Init => Inductive
BY CallsAssumption, CacheAssumption
   DEF Init, Inductive, TypeOK, Attestations, IdleIsBlank, StartedIsKnown, RegisteredIsStarted,
       WaitingIsJoined, OneFlightPerSigner, CachedIsProved, Proved

\* The number of proofs so far is a natural number.
LEMMA ProofsAreCounted == Cardinality(Proved) \in Nat /\ IsFiniteSet(Proved)
BY CallsAssumption, FS_Subset, FS_CardinalityType DEF Proved

\* What set() leaves in the cache.
LEMMA StoreKeeps ==
  ASSUME NEW d \in Calls
  PROVE  /\ d \in Store(d)
         /\ Store(d) \subseteq cache \cup {d}
         /\ \A e \in Store(d) : signer[e] = signer[d] => e = d
BY DEF Store

LEMMA UnverifiedInductive ==
  ASSUME Inductive, NEW c \in Calls, Unverified(c)
  PROVE  Inductive'
<1> USE CallsAssumption DEF Inductive, Unverified
<1>1. TypeOK'
  BY DEF TypeOK
<1>2. IdleIsBlank' /\ WaitingIsJoined'
  BY DEF TypeOK, IdleIsBlank, WaitingIsJoined
<1>3. StartedIsKnown' /\ RegisteredIsStarted' /\ OneFlightPerSigner' /\ CachedIsProved'
  BY DEF StartedIsKnown, RegisteredIsStarted, OneFlightPerSigner, CachedIsProved, Proved
<1>4. QED
  BY <1>1, <1>2, <1>3

\* A call that takes a signer was idle: nothing refers to it yet.
LEMMA LookupKeepsOthers ==
  ASSUME Inductive, NEW c \in Calls, NEW k \in Signers, pc[c] = "idle",
         signer' = [signer EXCEPT ![c] = k]
  PROVE  /\ signer'[c] = k
         /\ \A d \in Calls \ {c} : signer'[d] = signer[d]
         /\ c \notin Proved /\ c \notin cache
         /\ \A j \in Signers : inflight[j] # c
BY CallsAssumption DEF Inductive, TypeOK, IdleIsBlank, CachedIsProved, Proved, RegisteredIsStarted

LEMMA HitInductive ==
  ASSUME Inductive, NEW c \in Calls, NEW k \in Signers, Hit(c, k)
  PROVE  Inductive'
<1> USE CallsAssumption DEF Inductive, Hit
<1>0. /\ signer'[c] = k
      /\ \A d \in Calls \ {c} : signer'[d] = signer[d]
      /\ c \notin Proved /\ c \notin cache
      /\ \A j \in Signers : inflight[j] # c
  BY LookupKeepsOthers
<1>1. TypeOK'
  BY DEF TypeOK
<1>2. IdleIsBlank' /\ WaitingIsJoined'
  BY <1>0 DEF TypeOK, IdleIsBlank, WaitingIsJoined
<1>3. StartedIsKnown'
  BY <1>0 DEF TypeOK, StartedIsKnown
<1>4. RegisteredIsStarted'
  BY <1>0 DEF TypeOK, RegisteredIsStarted
<1>5. OneFlightPerSigner'
  BY <1>0 DEF TypeOK, OneFlightPerSigner, IdleIsBlank
<1>6. CachedIsProved'
  BY <1>0 DEF TypeOK, CachedIsProved, Proved
<1>7. QED
  BY <1>1, <1>2, <1>3, <1>4, <1>5, <1>6

LEMMA MissInductive ==
  ASSUME Inductive, NEW c \in Calls, NEW k \in Signers, Miss(c, k)
  PROVE  Inductive'
<1> USE CallsAssumption DEF Inductive, Miss
<1>0. /\ signer'[c] = k
      /\ \A d \in Calls \ {c} : signer'[d] = signer[d]
      /\ c \notin Proved /\ c \notin cache
      /\ \A j \in Signers : inflight[j] # c
  BY LookupKeepsOthers
<1>1. CASE inflight[k] = None
  <2>1. /\ flight' = [flight EXCEPT ![c] = c]
        /\ inflight' = [inflight EXCEPT ![k] = c]
        /\ attestation'[c] = Became(c, "fetching", "pending")
        /\ \A d \in Calls \ {c} : attestation'[d] = attestation[d]
    BY <1>1 DEF TypeOK
  <2>2. TypeOK'
    <3>1. Became(c, "fetching", "pending") \in Attestations
      BY DEF TypeOK, Attestations, Became
    <3>2. attestation' \in [Calls -> Attestations]
      BY <1>1, <3>1 DEF TypeOK
    <3>3. QED
      BY <1>1, <2>1, <3>2 DEF TypeOK
  <2>3. IdleIsBlank'
    BY <1>0, <2>1 DEF TypeOK, IdleIsBlank
  <2>4. WaitingIsJoined'
    BY <1>0, <1>1, <2>1 DEF TypeOK, WaitingIsJoined
  <2>5. StartedIsKnown'
    BY <1>0, <2>1 DEF TypeOK, StartedIsKnown, Became
  <2>6. RegisteredIsStarted'
    BY <1>0, <2>1 DEF TypeOK, RegisteredIsStarted, Became
  <2>7. OneFlightPerSigner'
    BY <1>0, <1>1, <2>1 DEF TypeOK, OneFlightPerSigner, Became
  <2>8. CachedIsProved'
    BY <1>0, <2>1 DEF TypeOK, CachedIsProved, Proved, Became
  <2>9. QED
    BY <2>2, <2>3, <2>4, <2>5, <2>6, <2>7, <2>8
<1>2. CASE inflight[k] # None
  <2>1. flight' = [flight EXCEPT ![c] = inflight[k]] /\ UNCHANGED <<inflight, attestation>>
    BY <1>2
  <2>2. TypeOK'
    BY <1>2 DEF TypeOK
  <2>3. IdleIsBlank' /\ WaitingIsJoined'
    BY <1>0, <1>2, <2>1 DEF TypeOK, IdleIsBlank, WaitingIsJoined
  <2>4. StartedIsKnown'
    BY <1>0, <2>1 DEF TypeOK, StartedIsKnown
  <2>5. RegisteredIsStarted'
    BY <1>0, <2>1 DEF TypeOK, RegisteredIsStarted
  <2>6. OneFlightPerSigner'
    BY <1>0, <2>1 DEF TypeOK, OneFlightPerSigner, IdleIsBlank
  <2>7. CachedIsProved'
    BY <1>0, <2>1 DEF TypeOK, CachedIsProved, Proved
  <2>8. QED
    BY <2>2, <2>3, <2>4, <2>5, <2>6, <2>7
<1>3. QED
  BY <1>1, <1>2

\* A step of one attestation that keeps everything but its record.
LEMMA AttestationInductive ==
  ASSUME Inductive, NEW d \in Calls, NEW work, NEW outcome,
         attestation' = [attestation EXCEPT ![d] = Became(d, work, outcome)],
         UNCHANGED <<now, cache, inflight, pc, signer, flight>>,
         attestation[d].work \in {"fetching", "verifying"},
         \/ work = "verifying" /\ outcome = attestation[d].outcome
         \/ work \in {"verifying", "over"} /\ outcome = "failed"
  PROVE  Inductive'
<1> USE CallsAssumption DEF Inductive
<1>1. /\ attestation'[d].work = work /\ attestation'[d].outcome = outcome
      /\ \A e \in Calls \ {d} : attestation'[e] = attestation[e]
  BY DEF TypeOK, Became
<1>2. attestation[d].outcome \in {"pending", "failed"}
  BY DEF TypeOK, Attestations, StartedIsKnown
<1>3. TypeOK'
  BY <1>2 DEF TypeOK, Attestations, Became
<1>4. IdleIsBlank'
  BY <1>1 DEF IdleIsBlank
<1>5. StartedIsKnown'
  BY <1>1, <1>2 DEF StartedIsKnown
<1>6. RegisteredIsStarted'
  BY <1>1, <1>2 DEF TypeOK, RegisteredIsStarted
<1>7. WaitingIsJoined'
  BY DEF WaitingIsJoined
<1>8. OneFlightPerSigner'
  BY <1>1, <1>2 DEF OneFlightPerSigner
<1>9. CachedIsProved'
  BY <1>1, <1>2 DEF CachedIsProved, Proved
<1>10. QED
  BY <1>3, <1>4, <1>5, <1>6, <1>7, <1>8, <1>9

LEMMA ProvesInductive ==
  ASSUME Inductive, NEW d \in Calls, Proves(d)
  PROVE  Inductive'
<1>1. CASE attestation[d].outcome = "pending"
  <2> USE CallsAssumption DEF Inductive
  <2> DEFINE proof == [work |-> "over", outcome |-> "proved",
                       at |-> now, order |-> Cardinality(Proved)]
  <2>1. /\ attestation' = [attestation EXCEPT ![d] = proof]
        /\ cache' = Store(d)
        /\ UNCHANGED <<now, inflight, pc, signer, flight>>
        /\ attestation[d].work = "verifying"
    BY <1>1 DEF Proves
  <2>2. /\ attestation'[d] = proof
        /\ \A e \in Calls \ {d} : attestation'[e] = attestation[e]
    BY <2>1 DEF TypeOK
  <2>3. proof \in Attestations
    BY ProofsAreCounted DEF TypeOK, Attestations
  <2>4. proof.work = "over" /\ proof.outcome = "proved"
    OBVIOUS
  <2> HIDE DEF proof
  <2>5. TypeOK'
    BY <2>1, <2>3, StoreKeeps DEF TypeOK
  <2>6. IdleIsBlank'
    BY <1>1, <2>1, <2>2 DEF IdleIsBlank
  <2>7. StartedIsKnown'
    BY <1>1, <2>1, <2>2, <2>4 DEF StartedIsKnown
  <2>8. RegisteredIsStarted'
    BY <2>1, <2>2, <2>4 DEF TypeOK, RegisteredIsStarted
  <2>9. WaitingIsJoined'
    BY <2>1 DEF WaitingIsJoined
  <2>10. OneFlightPerSigner'
    BY <2>1, <2>2, <2>4 DEF OneFlightPerSigner
  <2>11. CachedIsProved'
    BY <2>1, <2>2, <2>4, StoreKeeps DEF CachedIsProved, Proved
  <2>12. QED
    BY <2>5, <2>6, <2>7, <2>8, <2>9, <2>10, <2>11
<1>2. CASE attestation[d].outcome # "pending"
  <2>1. /\ attestation' = [attestation EXCEPT ![d] = Became(d, "over", "failed")]
        /\ UNCHANGED <<now, cache, inflight, pc, signer, flight>>
        /\ attestation[d].work = "verifying"
    BY <1>2 DEF Proves
  <2>2. QED
    BY <2>1, AttestationInductive
<1>3. QED
  BY <1>1, <1>2

LEMMA FlightEndsInductive ==
  ASSUME Inductive, NEW d \in Calls, FlightEnds(d)
  PROVE  Inductive'
<1> USE CallsAssumption DEF Inductive, FlightEnds
<1>0. signer[d] \in Signers
  BY DEF StartedIsKnown
<1>1. TypeOK'
  BY <1>0 DEF TypeOK
<1>2. IdleIsBlank'
  BY DEF TypeOK, IdleIsBlank
<1>3. StartedIsKnown'
  BY DEF StartedIsKnown
<1>4. RegisteredIsStarted'
  BY <1>0 DEF TypeOK, RegisteredIsStarted
<1>5. WaitingIsJoined'
  <2> SUFFICES ASSUME NEW c \in Calls, pc'[c] = "waiting"
               PROVE  signer[c] \in Signers /\ flight[c] = inflight'[signer[c]]
                      /\ flight[c] \in Calls
    BY DEF WaitingIsJoined
  <2>1. pc[c] = "waiting" /\ flight[c] # d
    OBVIOUS
  <2>2. signer[c] # signer[d]
    BY <2>1 DEF WaitingIsJoined
  <2>3. QED
    BY <1>0, <2>1, <2>2 DEF TypeOK, WaitingIsJoined
<1>6. OneFlightPerSigner'
  BY <1>0 DEF TypeOK, OneFlightPerSigner
<1>7. CachedIsProved'
  BY DEF CachedIsProved, Proved
<1>8. QED
  BY <1>1, <1>2, <1>3, <1>4, <1>5, <1>6, <1>7

LEMMA TickInductive ==
  ASSUME Inductive, Tick \/ UNCHANGED vars
  PROVE  Inductive'
BY CacheAssumption
   DEF Inductive, Tick, vars, TypeOK, IdleIsBlank, StartedIsKnown, RegisteredIsStarted,
       WaitingIsJoined, OneFlightPerSigner, CachedIsProved, Proved

LEMMA StepInductive == Inductive /\ [Next]_vars => Inductive'
<1> SUFFICES ASSUME Inductive, [Next]_vars PROVE Inductive'
  OBVIOUS
<1>1. CASE Tick \/ UNCHANGED vars
  BY <1>1, TickInductive
<1>2. ASSUME NEW c \in Calls, Unverified(c) PROVE Inductive'
  BY <1>2, UnverifiedInductive
<1>3. ASSUME NEW c \in Calls, NEW k \in Signers, Hit(c, k) \/ Miss(c, k) PROVE Inductive'
  BY <1>3, HitInductive, MissInductive
<1>4. ASSUME NEW d \in Calls, Fetched(d) PROVE Inductive'
  <2> DEFINE outcome == attestation[d].outcome
  <2>1. attestation' = [attestation EXCEPT ![d] = Became(d, "verifying", outcome)]
    BY <1>4 DEF Fetched
  <2> HIDE DEF outcome
  <2>2. QED
    BY <1>4, <2>1, AttestationInductive DEF Fetched, outcome
<1>5. ASSUME NEW d \in Calls, Proves(d) PROVE Inductive'
  BY <1>5, ProvesInductive
<1>6. ASSUME NEW d \in Calls, Fails(d) PROVE Inductive'
  BY <1>6, AttestationInductive DEF Fails
<1>7. ASSUME NEW d \in Calls, Deadline(d) PROVE Inductive'
  <2>1. attestation[d].work \in {"fetching", "verifying"}
    BY <1>7 DEF Deadline, Inductive, StartedIsKnown
  <2> DEFINE work == IF attestation[d].work = "fetching" THEN "over" ELSE "verifying"
  <2>2. attestation' = [attestation EXCEPT ![d] = Became(d, work, "failed")]
    BY <1>7 DEF Deadline
  <2>3. work \in {"verifying", "over"}
    OBVIOUS
  <2>4. UNCHANGED <<now, cache, inflight, pc, signer, flight>>
    BY <1>7 DEF Deadline
  <2> HIDE DEF work
  <2>5. QED
    BY <2>1, <2>2, <2>3, <2>4, AttestationInductive
<1>8. ASSUME NEW d \in Calls, FlightEnds(d) PROVE Inductive'
  BY <1>8, FlightEndsInductive
<1>9. QED
  BY <1>1, <1>2, <1>3, <1>4, <1>5, <1>6, <1>7, <1>8 DEF Next

LEMMA InductiveHolds == Spec => []Inductive
BY InitInductive, StepInductive, PTL DEF Spec

-----------------------------------------------------------------------------
(* What follows from it *)

\* Every variable stays in its type.
THEOREM TypeCorrect == Spec => []TypeOK
BY InductiveHolds, PTL DEF Inductive

\* The attestation in progress for a signer is the one that is registered.
THEOREM SignersShareFlights == Spec => []OneFlightPerSigner
BY InductiveHolds, PTL DEF Inductive

\* A waiting call waits for a registered flight.
THEOREM NobodyIsStranded == Spec => []NobodyStranded
<1>1. Inductive => NobodyStranded
  BY DEF Inductive, WaitingIsJoined, NobodyStranded
<1>2. QED
  BY <1>1, InductiveHolds, PTL

\* A step that accepts a call finds a timely proof of its signer.
LEMMA AcceptedOnProof ==
  ASSUME Inductive, [Next]_vars,
         NEW c \in Calls, pc[c] # "accepted", pc'[c] = "accepted"
  PROVE  \E d \in Calls :
            /\ attestation[d].outcome = "proved"
            /\ signer[d] = signer'[c]
            /\ flight[c] = d \/ now - attestation[d].at <= Ttl
<1> USE CallsAssumption DEF Inductive
<1>1. \/ \E k \in Signers : Hit(c, k)
      \/ \E d \in Calls : FlightEnds(d)
  BY DEF Next, vars, Tick, Unverified, Hit, Miss, Fetched, Proves, Fails, Deadline, TypeOK
<1>2. ASSUME NEW k \in Signers, Hit(c, k)
      PROVE  \E d \in Calls :
               /\ attestation[d].outcome = "proved"
               /\ signer[d] = signer'[c]
               /\ flight[c] = d \/ now - attestation[d].at <= Ttl
  BY <1>2 DEF Hit, Cached, Fresh, CachedIsProved, Proved, TypeOK
<1>3. ASSUME NEW d \in Calls, FlightEnds(d)
      PROVE  /\ attestation[d].outcome = "proved"
             /\ signer[d] = signer'[c]
             /\ flight[c] = d
  <2>1. /\ pc[c] = "waiting" /\ flight[c] = d /\ attestation[d].outcome = "proved"
        /\ UNCHANGED signer
    BY <1>3 DEF FlightEnds
  <2>2. signer[c] \in Signers /\ inflight[signer[c]] = d
    BY <2>1 DEF WaitingIsJoined
  <2>3. signer[d] = signer[c]
    BY <2>2 DEF RegisteredIsStarted
  <2>4. QED
    BY <2>1, <2>3
<1>4. QED
  BY <1>1, <1>2, <1>3

\* No call is accepted without a timely proof of its signer.
THEOREM AcceptanceIsProved == Spec => AcceptedIsAttested
<1>1. Inductive /\ [Next]_vars
        => [\A c \in Calls :
              pc[c] # "accepted" /\ pc'[c] = "accepted" =>
                  \E d \in Calls :
                      /\ attestation[d].outcome = "proved"
                      /\ signer[d] = signer'[c]
                      /\ flight[c] = d \/ now - attestation[d].at <= Ttl]_vars
  BY AcceptedOnProof
<1>2. QED
  BY <1>1, InductiveHolds, PTL DEF Spec, AcceptedIsAttested

-----------------------------------------------------------------------------
(* The capacity of the cache *)

LEMMA LeastNatural ==
  ASSUME NEW T, T \subseteq Nat, T # {}
  PROVE  \E m \in T : \A n \in T : m <= n
<1> DEFINE R == OpToRel(<, Nat)
<1>1. \A m, n \in Nat : n < m => <<n, m>> \in R
  BY DEF OpToRel
<1>2. IsWellFoundedOn(R, Nat)
  BY NatLessThanWellFounded
<1> HIDE DEF R
<1>3. PICK m \in T : \A n \in T : ~(<<n, m>> \in R)
  BY <1>2, WFMin
<1>4. ASSUME NEW n \in T PROVE m <= n
  <2>1. m \in Nat /\ n \in Nat
    BY <1>3
  <2>2. ~(n < m)
    BY <1>1, <1>3, <2>1
  <2>3. QED
    BY <2>1, <2>2
<1>5. QED
  BY <1>4

\* A cache that is not empty has an oldest entry.
LEMMA OldestIsFirst ==
  ASSUME TypeOK, cache # {}
  PROVE  /\ Oldest(cache) \in cache
         /\ \A e \in cache : attestation[Oldest(cache)].order <= attestation[e].order
<1> DEFINE T == {attestation[d].order : d \in cache}
<1>1. T \subseteq Nat /\ T # {}
  BY DEF TypeOK, Attestations
<1>2. PICK m \in T : \A n \in T : m <= n
  BY <1>1, LeastNatural
<1>3. PICK d \in cache : attestation[d].order = m
  BY <1>2
<1>4. \A e \in cache : attestation[d].order <= attestation[e].order
  BY <1>2, <1>3
<1>5. QED
  BY <1>3, <1>4 DEF Oldest

\* An entry that takes the place of another leaves their number as it was.
LEMMA Replaced ==
  ASSUME NEW S, IsFiniteSet(S), NEW e \in S, NEW d, d \notin S
  PROVE  /\ IsFiniteSet((S \ {e}) \cup {d})
         /\ Cardinality((S \ {e}) \cup {d}) = Cardinality(S)
<1> DEFINE rest == S \ {e}
<1>1. IsFiniteSet(rest) /\ Cardinality(rest) = Cardinality(S) - 1
  BY FS_RemoveElement
<1>2. d \notin rest
  OBVIOUS
<1>3. Cardinality(S) \in Nat
  BY FS_CardinalityType
<1> HIDE DEF rest
<1>4. IsFiniteSet(rest \cup {d}) /\ Cardinality(rest \cup {d}) = Cardinality(rest) + 1
  BY <1>1, <1>2, FS_AddElement
<1>5. QED
  BY <1>1, <1>3, <1>4 DEF rest

\* set() never grows the cache beyond its capacity.
LEMMA StoreBounded ==
  ASSUME TypeOK, Cardinality(cache) <= Max, NEW d \in Calls, d \notin cache
  PROVE  Cardinality(Store(d)) <= Max
<1>1. IsFiniteSet(cache) /\ Cardinality(cache) \in Nat
  BY CallsAssumption, FS_Subset, FS_CardinalityType DEF TypeOK
<1> DEFINE replaced == {e \in cache : signer[e] = signer[d]}
<1>2. CASE replaced # {}
  <2>1. PICK e \in replaced : TRUE
    BY <1>2
  <2>2. Store(d) \subseteq (cache \ {e}) \cup {d}
    BY <1>2, <2>1 DEF Store
  <2>3. /\ IsFiniteSet((cache \ {e}) \cup {d})
        /\ Cardinality((cache \ {e}) \cup {d}) = Cardinality(cache)
    BY <1>1, <2>1, Replaced
  <2>4. Cardinality(Store(d)) <= Cardinality(cache) /\ IsFiniteSet(Store(d))
    BY <2>2, <2>3, FS_Subset
  <2>5. Cardinality(Store(d)) \in Nat
    BY <2>4, FS_CardinalityType
  <2>6. QED
    BY <1>1, <2>4, <2>5, CacheAssumption
<1>3. CASE replaced = {} /\ Cardinality(cache) = Max
  <2>1. cache # {}
    BY <1>3, CacheAssumption, FS_EmptySet
  <2>2. Oldest(cache) \in cache
    BY <2>1, OldestIsFirst
  <2>3. Store(d) = (cache \ {Oldest(cache)}) \cup {d}
    BY <1>3 DEF Store
  <2>4. Cardinality(Store(d)) = Cardinality(cache)
    BY <1>1, <2>2, <2>3, Replaced
  <2>5. QED
    BY <1>3, <2>4, CacheAssumption
<1>4. CASE replaced = {} /\ Cardinality(cache) # Max
  <2>1. Store(d) = cache \cup {d}
    BY <1>4 DEF Store
  <2>2. Cardinality(cache \cup {d}) = Cardinality(cache) + 1
    BY <1>1, FS_AddElement
  <2>3. QED
    BY <1>1, <1>4, <2>1, <2>2, CacheAssumption
<1>5. QED
  BY <1>2, <1>3, <1>4

\* The cache holds at most Max entries, each for a signer of its own.
THEOREM CacheStaysBounded == Spec => []CacheBounded
<1>1. Init => Cardinality(cache) <= Max
  BY CacheAssumption, FS_EmptySet DEF Init
<1>2. Inductive /\ Cardinality(cache) <= Max /\ [Next]_vars => Cardinality(cache') <= Max
  <2> SUFFICES ASSUME Inductive, Cardinality(cache) <= Max, [Next]_vars, cache' # cache
               PROVE  Cardinality(cache') <= Max
    OBVIOUS
  <2>1. PICK d \in Calls : Proves(d) /\ cache' = Store(d) /\ attestation[d].outcome = "pending"
    BY DEF Next, vars, Tick, Unverified, Hit, Miss, Fetched, Proves, Fails, Deadline, FlightEnds
  <2>2. d \notin cache
    BY <2>1 DEF Inductive, CachedIsProved, Proved
  <2>3. QED
    BY <2>1, <2>2, StoreBounded DEF Inductive
<1>3. Inductive /\ Cardinality(cache) <= Max => CacheBounded
  BY DEF Inductive, CachedIsProved, CacheBounded
<1> DEFINE Within == Cardinality(cache) <= Max
<1>4. Init => Within
  BY <1>1
<1>5. Inductive /\ Within /\ [Next]_vars => Within'
  BY <1>2
<1>6. Inductive /\ Within => CacheBounded
  BY <1>3
<1> HIDE DEF Within
<1>7. QED
  BY <1>4, <1>5, <1>6, InductiveHolds, PTL DEF Spec
-----------------------------------------------------------------------------
(* What a step does to the proofs made so far *)

\* A proof and the signer it is of are never touched again.
LEMMA ProofsStand ==
  ASSUME Inductive, [Next]_vars, NEW d \in Proved
  PROVE  attestation'[d] = attestation[d] /\ signer'[d] = signer[d] /\ d \in Proved'
<1> USE CallsAssumption DEF Inductive
<1>1. /\ d \in Calls /\ attestation[d].outcome = "proved" /\ attestation[d].work = "over"
      /\ pc[d] # "idle"
  BY DEF Proved, StartedIsKnown, IdleIsBlank
<1>2. CASE Tick \/ UNCHANGED vars
  BY <1>1, <1>2 DEF Tick, vars, Proved
<1>3. ASSUME NEW c \in Calls, \/ Unverified(c)
                              \/ \E k \in Signers : Hit(c, k) \/ Miss(c, k)
      PROVE  attestation'[d] = attestation[d] /\ signer'[d] = signer[d]
  BY <1>1, <1>3 DEF Unverified, Hit, Miss, TypeOK
<1>4. ASSUME NEW c \in Calls, Fetched(c) \/ Proves(c) \/ Fails(c) \/ Deadline(c)
      PROVE  attestation'[d] = attestation[d] /\ signer'[d] = signer[d]
  BY <1>1, <1>4 DEF Fetched, Proves, Fails, Deadline, TypeOK
<1>5. ASSUME NEW c \in Calls, FlightEnds(c)
      PROVE  attestation'[d] = attestation[d] /\ signer'[d] = signer[d]
  BY <1>5 DEF FlightEnds
<1>6. attestation'[d] = attestation[d] /\ signer'[d] = signer[d]
  BY <1>2, <1>3, <1>4, <1>5 DEF Next
<1>7. QED
  BY <1>1, <1>6 DEF Proved

\* Attestation d proves its signer and is stored.
Adds(d) ==
    /\ d \in Calls \ Proved
    /\ Proved' = Proved \cup {d}
    /\ cache' = Store(d)
    /\ attestation'[d].order = Cardinality(Proved)
    /\ attestation'[d].at = now
    /\ now' = now /\ signer' = signer

\* A step makes one proof, which the cache takes in, or none, and then it
\* leaves the cache alone.
LEMMA OneProofAStep ==
  ASSUME Inductive, [Next]_vars
  PROVE  \/ Proved' = Proved /\ cache' = cache
         \/ \E d \in Calls : Adds(d)
<1> USE CallsAssumption DEF Inductive
<1>1. ASSUME NEW d \in Calls, Proves(d), attestation[d].outcome = "pending" PROVE Adds(d)
  <2>1. /\ attestation' = [attestation EXCEPT ![d] = [work |-> "over", outcome |-> "proved",
                                 at |-> now, order |-> Cardinality(Proved)]]
        /\ cache' = Store(d)
        /\ now' = now /\ signer' = signer
    BY <1>1 DEF Proves
  <2>2. /\ attestation'[d].outcome = "proved" /\ attestation'[d].at = now
        /\ attestation'[d].order = Cardinality(Proved)
        /\ \A e \in Calls \ {d} : attestation'[e] = attestation[e]
    BY <2>1 DEF TypeOK
  <2>3. d \notin Proved /\ Proved' = Proved \cup {d}
    BY <1>1, <2>2 DEF Proved
  <2>4. QED
    BY <2>1, <2>2, <2>3 DEF Adds
<1>2. ASSUME ~ \E d \in Calls : Proves(d) /\ attestation[d].outcome = "pending"
      PROVE  Proved' = Proved /\ cache' = cache
  <2>1. cache' = cache
    BY <1>2 DEF Next, vars, Tick, Unverified, Hit, Miss, Fetched, Proves, Fails, Deadline, FlightEnds
  <2>2. \A e \in Calls : attestation'[e].outcome = "proved" => attestation[e].outcome = "proved"
    <3>1. ASSUME NEW d \in Calls, NEW work, NEW outcome, outcome # "proved",
                 attestation' = [attestation EXCEPT ![d] = Became(d, work, outcome)]
          PROVE  \A e \in Calls : attestation'[e].outcome = "proved" => attestation[e].outcome = "proved"
      BY <3>1 DEF TypeOK, Became
    <3>2. CASE UNCHANGED attestation
      BY <3>2
    <3>3. ASSUME NEW c \in Calls, NEW k \in Signers, Miss(c, k)
          PROVE  \/ UNCHANGED attestation
                 \/ attestation' = [attestation EXCEPT ![c] = Became(c, "fetching", "pending")]
      BY <3>3 DEF Miss
    <3>4. ASSUME NEW d \in Calls, Fetched(d)
          PROVE  \E outcome : outcome # "proved"
                    /\ attestation' = [attestation EXCEPT ![d] = Became(d, "verifying", outcome)]
      BY <3>4 DEF Fetched, StartedIsKnown
    <3>5. ASSUME NEW d \in Calls, Proves(d) \/ Fails(d)
          PROVE  attestation' = [attestation EXCEPT ![d] = Became(d, "over", "failed")]
      BY <1>2, <3>5 DEF Proves, Fails
    <3>6. ASSUME NEW d \in Calls, Deadline(d)
          PROVE  \E work : attestation' = [attestation EXCEPT ![d] = Became(d, work, "failed")]
      BY <3>6 DEF Deadline
    <3>7. UNCHANGED attestation \/ \E c \in Calls : \/ \E k \in Signers : Miss(c, k)
                                                   \/ Fetched(c) \/ Proves(c) \/ Fails(c) \/ Deadline(c)
      BY DEF Next, vars, Tick, Unverified, Hit, FlightEnds
    <3>8. QED
      BY <3>1, <3>2, <3>3, <3>4, <3>5, <3>6, <3>7
  <2>3. QED
    BY <2>1, <2>2, ProofsStand DEF Proved
<1>3. QED
  BY <1>1, <1>2

-----------------------------------------------------------------------------
(* The age of the proofs *)

\* The proofs are counted as they are made, and their times never step back.
ProofsInOrder ==
    /\ \A d \in Proved : attestation[d].order < Cardinality(Proved) /\ attestation[d].at <= now
    /\ \A d, e \in Proved : attestation[d].order = attestation[e].order => d = e
    /\ \A d, e \in Proved :
          attestation[d].order <= attestation[e].order => attestation[d].at <= attestation[e].at

LEMMA ProofTypes ==
  ASSUME TypeOK
  PROVE  /\ now \in Nat
         /\ \A d \in Calls : attestation[d].order \in Nat /\ attestation[d].at \in Nat
         /\ IsFiniteSet(cache) /\ Cardinality(cache) \in Nat
BY CallsAssumption, CacheAssumption, FS_Subset, FS_CardinalityType DEF TypeOK, Attestations

LEMMA OrderInductive ==
  ASSUME Inductive, ProofsInOrder, [Next]_vars
  PROVE  ProofsInOrder'
<1>1. /\ now \in Nat /\ Cardinality(Proved) \in Nat /\ IsFiniteSet(Proved)
      /\ \A d \in Calls : attestation[d].order \in Nat /\ attestation[d].at \in Nat
  BY ProofTypes, ProofsAreCounted DEF Inductive
<1>2. \A d \in Proved : attestation'[d] = attestation[d]
  BY ProofsStand
<1>3. now' \in Nat /\ now <= now'
  BY <1>1 DEF Next, vars, Tick, Unverified, Hit, Miss, Fetched, Proves, Fails, Deadline, FlightEnds
<1>4. CASE Proved' = Proved
  BY <1>1, <1>2, <1>3, <1>4 DEF ProofsInOrder, Proved
<1>5. ASSUME NEW d \in Calls, Adds(d) PROVE ProofsInOrder'
  <2>1. /\ d \notin Proved /\ Proved' = Proved \cup {d} /\ now' = now
        /\ attestation'[d].order = Cardinality(Proved) /\ attestation'[d].at = now
    BY <1>5 DEF Adds
  <2>2. Cardinality(Proved') = Cardinality(Proved) + 1
    BY <1>1, <2>1, FS_AddElement
  <2>3. \A e \in Proved : /\ e \in Calls /\ attestation[e].order < Cardinality(Proved)
                          /\ attestation[e].at <= now
    BY DEF ProofsInOrder, Proved
  <2>4. \A e \in Proved' : attestation'[e].order < Cardinality(Proved') /\ attestation'[e].at <= now'
    BY <1>1, <1>2, <2>1, <2>2, <2>3
  <2>5. \A e, f \in Proved' : attestation'[e].order = attestation'[f].order => e = f
    BY <1>1, <1>2, <2>1, <2>3 DEF ProofsInOrder
  <2>6. \A e, f \in Proved' :
           attestation'[e].order <= attestation'[f].order => attestation'[e].at <= attestation'[f].at
    BY <1>1, <1>2, <2>1, <2>3 DEF ProofsInOrder
  <2>7. QED
    BY <2>4, <2>5, <2>6 DEF ProofsInOrder
<1>6. QED
  BY <1>4, <1>5, OneProofAStep

LEMMA SinceIsFinite ==
  ASSUME NEW d
  PROVE  IsFiniteSet(ProvedSince(d)) /\ Cardinality(ProvedSince(d)) \in Nat
<1> DEFINE T == {signer[e] : e \in Calls}
           g == [e \in Calls |-> signer[e]]
<1>1. g \in Surjection(Calls, T)
  BY DEF Surjection
<1>2. ProvedSince(d) \subseteq T
  BY DEF ProvedSince, Proved
<1> HIDE DEF g, T
<1>3. IsFiniteSet(T)
  BY <1>1, CallsAssumption, FS_Surjection
<1>4. QED
  BY <1>2, <1>3, FS_Subset, FS_CardinalityType

\* One more member makes a set larger by at most one.
LEMMA OneMore ==
  ASSUME NEW S, IsFiniteSet(S), NEW s
  PROVE  /\ Cardinality(S) \in Nat /\ Cardinality(S \cup {s}) \in Nat
         /\ Cardinality(S) <= Cardinality(S \cup {s})
         /\ Cardinality(S \cup {s}) <= Cardinality(S) + 1
         /\ s \notin S => Cardinality(S \cup {s}) = Cardinality(S) + 1
<1>1. Cardinality(S \cup {s}) = IF s \in S THEN Cardinality(S) ELSE Cardinality(S) + 1
  BY FS_AddElement
<1>2. Cardinality(S) \in Nat
  BY FS_CardinalityType
<1>3. QED
  BY <1>1, <1>2

\* Every signer that was proved has a last proof.
LEMMA LastProofExists ==
  ASSUME Inductive, ProofsInOrder, NEW d \in Proved
  PROVE  \E e \in Proved : /\ Last(e) /\ signer[e] = signer[d]
                           /\ attestation[e].order >= attestation[d].order
<1> DEFINE same == {e \in Proved : signer[e] = signer[d]}
           T == {Cardinality(Proved) - attestation[e].order : e \in same}
<1>1. /\ Cardinality(Proved) \in Nat
      /\ \A e \in Proved : attestation[e].order \in Nat /\ attestation[e].order < Cardinality(Proved)
  BY ProofTypes, ProofsAreCounted DEF Inductive, ProofsInOrder, Proved
<1>2. T \subseteq Nat /\ T # {}
  BY <1>1
<1>3. PICK m \in T : \A n \in T : m <= n
  BY <1>2, LeastNatural
<1>4. PICK e \in same : m = Cardinality(Proved) - attestation[e].order
  BY <1>3
<1>5. \A f \in same : attestation[f].order <= attestation[e].order
  <2> SUFFICES ASSUME NEW f \in same PROVE attestation[f].order <= attestation[e].order
    OBVIOUS
  <2>1. Cardinality(Proved) - attestation[e].order <= Cardinality(Proved) - attestation[f].order
    BY <1>3, <1>4
  <2>2. QED
    BY <1>1, <2>1
<1>6. QED
  BY <1>4, <1>5 DEF Last

\* Of two signers, fewer were proved since the one that was proved later.
LEMMA SinceShrinks ==
  ASSUME Inductive, ProofsInOrder, NEW x \in Proved, NEW y \in Proved,
         Last(x), Last(y), signer[x] # signer[y], attestation[x].order <= attestation[y].order
  PROVE  /\ signer[y] \in ProvedSince(x)
         /\ Cardinality(ProvedSince(y)) + 1 <= Cardinality(ProvedSince(x))
<1>1. /\ \A e \in Proved : attestation[e].order \in Nat
      /\ attestation[x].order < attestation[y].order
  BY ProofTypes DEF Inductive, ProofsInOrder, Proved
<1>2. signer[y] \in ProvedSince(x) /\ signer[y] \notin ProvedSince(y)
  BY <1>1 DEF ProvedSince
<1>3. ProvedSince(y) \subseteq ProvedSince(x)
  BY <1>1 DEF ProvedSince, Last
<1>4. Cardinality(ProvedSince(y) \cup {signer[y]}) = Cardinality(ProvedSince(y)) + 1
  BY <1>2, SinceIsFinite, OneMore
<1>5. Cardinality(ProvedSince(y) \cup {signer[y]}) <= Cardinality(ProvedSince(x))
  BY <1>2, <1>3, SinceIsFinite, FS_Subset
<1>6. QED
  BY <1>2, <1>4, <1>5

\* What a new proof changes for the proofs before it.
LEMMA SinceAdded ==
  ASSUME Inductive, ProofsInOrder, [Next]_vars, NEW d \in Calls, Adds(d)
  PROVE  /\ Last(d)' /\ ProvedSince(d)' = {}
         /\ \A x \in Proved : signer[x] = signer[d] => ~Last(x)'
         /\ \A x \in Proved : signer[x] # signer[d] =>
               (Last(x)' <=> Last(x)) /\ ProvedSince(x)' = ProvedSince(x) \cup {signer[d]}
<1>1. /\ d \notin Proved /\ Proved' = Proved \cup {d} /\ signer' = signer
      /\ attestation'[d].order = Cardinality(Proved) /\ Cardinality(Proved) \in Nat
      /\ \A e \in Proved : /\ attestation'[e] = attestation[e] /\ attestation[e].order \in Nat
                           /\ attestation[e].order < Cardinality(Proved)
  BY ProofsStand, ProofTypes, ProofsAreCounted DEF Inductive, Adds, ProofsInOrder, Proved
<1>2. Last(d)' /\ ProvedSince(d)' = {}
  BY <1>1 DEF Last, ProvedSince
<1>3. \A x \in Proved : signer[x] = signer[d] => ~Last(x)'
  BY <1>1 DEF Last
<1>4. ASSUME NEW x \in Proved, signer[x] # signer[d]
      PROVE  (Last(x)' <=> Last(x)) /\ ProvedSince(x)' = ProvedSince(x) \cup {signer[d]}
  <2>1. Last(x)' <=> Last(x)
    BY <1>1, <1>4 DEF Last
  <2>2. {f \in Proved' : attestation'[f].order > attestation'[x].order}
           = {f \in Proved : attestation[f].order > attestation[x].order} \cup {d}
    BY <1>1
  <2>3. ProvedSince(x)' = ProvedSince(x) \cup {signer[d]}
    BY <1>1, <1>4, <2>2 DEF ProvedSince
  <2>4. QED
    BY <2>1, <2>3
<1>5. QED
  BY <1>2, <1>3, <1>4

-----------------------------------------------------------------------------
(* What set() keeps: the entries that are still among the last *)

\* The signer has an entry: nothing moves across the end of the cache.
LEMMA ReplacingKeeps ==
  ASSUME Inductive, ProofsInOrder, CacheIsLastProved, NEW s,
         NEW r \in cache, signer[r] = s, NEW x \in Proved, Last(x), signer[x] # s
  PROVE  x \in cache <=> Cardinality(ProvedSince(x) \cup {s}) < Max
<1>1. /\ r \in Proved /\ Last(r) /\ Cardinality(ProvedSince(r)) < Max
      /\ attestation[r].order \in Nat /\ attestation[x].order \in Nat
  BY ProofTypes DEF Inductive, CacheIsLastProved, Proved
<1>2. /\ IsFiniteSet(ProvedSince(x)) /\ Cardinality(ProvedSince(x)) \in Nat
      /\ Cardinality(ProvedSince(r)) \in Nat /\ Max \in Nat
  BY SinceIsFinite, CacheAssumption
<1>3. CASE attestation[x].order <= attestation[r].order
  <2>1. ProvedSince(x) \cup {s} = ProvedSince(x)
    BY <1>1, <1>3, SinceShrinks
  <2>2. QED
    BY <2>1 DEF CacheIsLastProved
<1>4. CASE attestation[r].order <= attestation[x].order
  <2>1. Cardinality(ProvedSince(x)) + 1 <= Cardinality(ProvedSince(r))
    BY <1>1, <1>4, SinceShrinks
  <2>2. /\ Cardinality(ProvedSince(x) \cup {s}) \in Nat
        /\ Cardinality(ProvedSince(x) \cup {s}) <= Cardinality(ProvedSince(x)) + 1
    BY <1>2, OneMore
  <2>3. Cardinality(ProvedSince(x) \cup {s}) < Max /\ Cardinality(ProvedSince(x)) < Max
    BY <1>1, <1>2, <2>1, <2>2
  <2>4. QED
    BY <2>3 DEF CacheIsLastProved
<1>5. QED
  BY <1>1, <1>3, <1>4

\* A signer without an entry was not proved since any entry was made.
LEMMA StrangerIsOlder ==
  ASSUME Inductive, ProofsInOrder, CacheIsLastProved, NEW s,
         \A e \in cache : signer[e] # s, NEW x \in cache
  PROVE  s \notin ProvedSince(x)
<1>1. x \in Proved /\ Last(x) /\ Cardinality(ProvedSince(x)) < Max
  BY DEF CacheIsLastProved
<1>2. ASSUME s \in ProvedSince(x) PROVE FALSE
  <2>1. PICK e \in Proved : signer[e] = s /\ attestation[e].order > attestation[x].order /\ s # signer[x]
    BY <1>2 DEF ProvedSince
  <2>2. PICK r \in Proved : Last(r) /\ signer[r] = s /\ attestation[r].order >= attestation[e].order
    BY <2>1, LastProofExists
  <2>3. attestation[x].order <= attestation[r].order
    BY <1>1, <2>1, <2>2, ProofTypes DEF Inductive, Proved
  <2>4. Cardinality(ProvedSince(r)) + 1 <= Cardinality(ProvedSince(x))
    BY <1>1, <2>1, <2>2, <2>3, SinceShrinks
  <2>5. Cardinality(ProvedSince(r)) < Max
    BY <1>1, <2>4, SinceIsFinite, CacheAssumption
  <2>6. r \in cache
    BY <2>2, <2>5 DEF CacheIsLastProved
  <2>7. QED
    BY <2>2, <2>6
<1>3. QED
  BY <1>2

\* The cache is full: its oldest entry is the one as many were proved since.
LEMMA FullKeepsAllButOldest ==
  ASSUME Inductive, ProofsInOrder, CacheIsLastProved, NEW s, \A e \in cache : signer[e] # s,
         Cardinality(cache) = Max, NEW x \in cache
  PROVE  x # Oldest(cache) <=> Cardinality(ProvedSince(x) \cup {s}) < Max
<1> DEFINE old == Oldest(cache)
           rest == cache \ {old}
           g == [e \in rest |-> signer[e]]
<1>1. /\ IsFiniteSet(cache) /\ cache \subseteq Proved /\ Max \in Nat
      /\ \A e \in Proved : attestation[e].order \in Nat
      /\ \A e \in cache : Last(e) /\ Cardinality(ProvedSince(e)) < Max
  BY ProofTypes, CacheAssumption DEF Inductive, CacheIsLastProved, Proved
<1>2. old \in cache /\ \A e \in cache : attestation[old].order <= attestation[e].order
  BY OldestIsFirst DEF Inductive
<1>3. \A e, f \in cache : signer[e] = signer[f] => e = f
  BY DEF Inductive, CachedIsProved
<1>4. \A e \in rest : /\ signer[e] \in ProvedSince(old)
                      /\ Cardinality(ProvedSince(e)) + 1 <= Cardinality(ProvedSince(old))
  BY <1>1, <1>2, <1>3, SinceShrinks
<1>5. \A e \in cache :
         /\ Cardinality(ProvedSince(e) \cup {s}) = Cardinality(ProvedSince(e)) + 1
         /\ Cardinality(ProvedSince(e)) \in Nat
  BY StrangerIsOlder, SinceIsFinite, OneMore
<1>6. Cardinality(ProvedSince(old)) >= Max - 1
  <2>1. g \in Injection(rest, ProvedSince(old))
    BY <1>3, <1>4 DEF Injection, IsInjective
  <2>2. IsFiniteSet(rest) /\ Cardinality(rest) = Max - 1
    BY <1>1, <1>2, FS_RemoveElement
  <2> HIDE DEF g, rest
  <2>3. Cardinality(rest) <= Cardinality(ProvedSince(old))
    BY <2>1, SinceIsFinite, FS_Injection
  <2>4. QED
    BY <1>1, <1>2, <1>5, <2>2, <2>3
<1>7. CASE x = old
  BY <1>1, <1>2, <1>5, <1>6, <1>7
<1>8. CASE x # old
  <2>1. Cardinality(ProvedSince(x)) + 1 <= Cardinality(ProvedSince(old))
    BY <1>4, <1>8
  <2>2. Cardinality(ProvedSince(old)) < Max
    BY <1>1, <1>2
  <2>3. Cardinality(ProvedSince(x) \cup {s}) < Max
    <3>1. /\ Cardinality(ProvedSince(x) \cup {s}) = Cardinality(ProvedSince(x)) + 1
          /\ Cardinality(ProvedSince(x)) \in Nat /\ Cardinality(ProvedSince(old)) \in Nat
      BY <1>2, <1>5
    <3>2. QED
      BY <1>1, <2>1, <2>2, <3>1
  <2>4. QED
    BY <1>8, <2>3
<1>9. QED
  BY <1>7, <1>8

\* There is room: every signer proved since an entry was made has one itself.
LEMMA RoomKeepsAll ==
  ASSUME Inductive, ProofsInOrder, CacheIsLastProved, NEW s, \A e \in cache : signer[e] # s,
         Cardinality(cache) < Max, NEW x \in cache
  PROVE  Cardinality(ProvedSince(x) \cup {s}) < Max
<1> DEFINE rest == cache \ {x}
           T == {signer[e] : e \in rest}
           g == [e \in rest |-> signer[e]]
<1>1. /\ IsFiniteSet(cache) /\ cache \subseteq Proved /\ Max \in Nat /\ Cardinality(cache) \in Nat
      /\ \A e \in Proved : attestation[e].order \in Nat
      /\ Last(x) /\ Cardinality(ProvedSince(x)) < Max
  BY ProofTypes, CacheAssumption DEF Inductive, CacheIsLastProved, Proved
<1>2. ProvedSince(x) \subseteq T
  <2> SUFFICES ASSUME NEW t \in ProvedSince(x) PROVE t \in T
    OBVIOUS
  <2>1. PICK e \in Proved : signer[e] = t /\ attestation[e].order > attestation[x].order /\ t # signer[x]
    BY DEF ProvedSince
  <2>2. PICK y \in Proved : Last(y) /\ signer[y] = t /\ attestation[y].order >= attestation[e].order
    BY <2>1, LastProofExists
  <2>3. attestation[x].order <= attestation[y].order
    BY <1>1, <2>1, <2>2
  <2>4. Cardinality(ProvedSince(y)) + 1 <= Cardinality(ProvedSince(x))
    BY <1>1, <2>1, <2>2, <2>3, SinceShrinks
  <2>5. Cardinality(ProvedSince(y)) < Max
    BY <1>1, <2>4, SinceIsFinite
  <2>6. y \in rest
    BY <2>1, <2>2, <2>5 DEF CacheIsLastProved
  <2>7. QED
    BY <2>2, <2>6
<1>3. IsFiniteSet(rest) /\ Cardinality(rest) = Cardinality(cache) - 1
  BY <1>1, FS_RemoveElement
<1>4. g \in Surjection(rest, T)
  BY DEF Surjection
<1> HIDE DEF g, T, rest
<1>5. IsFiniteSet(T) /\ Cardinality(T) <= Cardinality(rest)
  BY <1>3, <1>4, FS_Surjection
<1>6. Cardinality(ProvedSince(x)) <= Cardinality(T) /\ Cardinality(T) \in Nat
  BY <1>2, <1>5, FS_Subset, FS_CardinalityType
<1>7. Cardinality(ProvedSince(x) \cup {s}) = Cardinality(ProvedSince(x)) + 1
  BY StrangerIsOlder, SinceIsFinite, OneMore
<1>8. QED
  BY <1>1, <1>3, <1>5, <1>6, <1>7, SinceIsFinite

LEMMA LastProvedInductive ==
  ASSUME Inductive, ProofsInOrder, CacheBounded, CacheIsLastProved, [Next]_vars
  PROVE  CacheIsLastProved'
<1>1. /\ cache \subseteq Proved /\ Max \in Nat \ {0}
      /\ \A e \in Proved : attestation'[e] = attestation[e] /\ signer'[e] = signer[e]
  BY ProofsStand, CacheAssumption DEF Inductive, CachedIsProved
<1>2. CASE Proved' = Proved /\ cache' = cache
  <2>1. \A d \in Proved : ProvedSince(d)' = ProvedSince(d) /\ Last(d)' = Last(d)
    BY <1>1, <1>2 DEF ProvedSince, Last
  <2>2. QED
    BY <1>2, <2>1 DEF CacheIsLastProved
<1>3. ASSUME NEW d \in Calls, Adds(d) PROVE CacheIsLastProved'
  <2> DEFINE kept == {x \in Proved : /\ Last(x) /\ signer[x] # signer[d]
                                     /\ Cardinality(ProvedSince(x) \cup {signer[d]}) < Max}
             replaced == {e \in cache : signer[e] = signer[d]}
  <2>1. d \notin Proved /\ Proved' = Proved \cup {d} /\ cache' = Store(d)
    BY <1>3 DEF Adds
  <2>2. {x \in Proved' : Last(x)' /\ Cardinality(ProvedSince(x)') < Max} = kept \cup {d}
    <3>1. Last(d)' /\ Cardinality(ProvedSince(d)') < Max
      BY <1>1, <1>3, SinceAdded, FS_EmptySet
    <3>2. \A x \in Proved : Last(x)' /\ Cardinality(ProvedSince(x)') < Max <=> x \in kept
      BY <1>3, SinceAdded
    <3>3. QED
      BY <2>1, <3>1, <3>2
  <2>3. kept \subseteq cache
    <3> SUFFICES ASSUME NEW x \in kept PROVE x \in cache
      OBVIOUS
    <3>1. /\ Cardinality(ProvedSince(x)) <= Cardinality(ProvedSince(x) \cup {signer[d]})
          /\ Cardinality(ProvedSince(x)) \in Nat
          /\ Cardinality(ProvedSince(x) \cup {signer[d]}) \in Nat
      BY SinceIsFinite, OneMore
    <3>2. Cardinality(ProvedSince(x)) < Max
      BY <1>1, <3>1
    <3>3. QED
      BY <3>2 DEF CacheIsLastProved
  <2>4. \A x \in cache : x \in Proved /\ Last(x)
    BY DEF CacheIsLastProved
  <2>5. CASE replaced # {}
    <3>1. PICK r \in replaced : TRUE
      BY <2>5
    <3>2. \A x \in cache : signer[x] # signer[d] => x \in kept
      BY <2>4, <3>1, ReplacingKeeps
    <3>3. kept = cache \ replaced
      BY <2>3, <3>2
    <3>4. QED
      BY <2>1, <2>2, <2>5, <3>3 DEF Store, CacheIsLastProved
  <2>6. CASE replaced = {} /\ Cardinality(cache) = Max
    <3>1. \A x \in cache : x # Oldest(cache) <=> x \in kept
      BY <2>4, <2>6, FullKeepsAllButOldest
    <3>2. kept = cache \ {Oldest(cache)}
      BY <2>3, <3>1
    <3>3. QED
      BY <2>1, <2>2, <2>6, <3>2 DEF Store, CacheIsLastProved
  <2>7. CASE replaced = {} /\ Cardinality(cache) # Max
    <3>1. Cardinality(cache) < Max
      BY <1>1, <2>7, ProofTypes DEF Inductive, CacheBounded
    <3>2. \A x \in cache : Cardinality(ProvedSince(x) \cup {signer[d]}) < Max
      BY <2>7, <3>1, RoomKeepsAll
    <3>3. kept = cache
      BY <2>3, <2>4, <2>7, <3>2
    <3>4. QED
      BY <2>1, <2>2, <2>7, <3>3 DEF Store, CacheIsLastProved
  <2>8. QED
    BY <2>5, <2>6, <2>7
<1>4. QED
  BY <1>2, <1>3, OneProofAStep

\* The cache is the last proofs of the Max signers that were proved last.
THEOREM CacheKeepsTheLast == Spec => []CacheIsLastProved
<1>1. Init => ProofsInOrder /\ CacheIsLastProved
  BY DEF Init, Proved, ProofsInOrder, CacheIsLastProved
<1>2. QED
  BY <1>1, InductiveHolds, CacheStaysBounded, OrderInductive, LastProvedInductive, PTL DEF Spec

\* A signer proved within the time to live is only attested again after as
\* many others as the cache holds.
THEOREM AttestedOncePerTtl == Spec => OncePerTtl
<1> DEFINE again == \A k \in Signers, d \in Proved :
        /\ inflight[k] = None
        /\ inflight'[k] # None
        /\ signer[d] = k
        /\ now - attestation[d].at <= Ttl
        => Cardinality(ProvedSince(d)) >= Max
<1>1. Inductive /\ ProofsInOrder /\ CacheIsLastProved /\ [Next]_vars => [again]_vars
  <2> SUFFICES ASSUME Inductive, ProofsInOrder, CacheIsLastProved, [Next]_vars,
                      NEW d \in Proved, signer[d] \in Signers,
                      inflight[signer[d]] = None, inflight'[signer[d]] # None,
                      now - attestation[d].at <= Ttl, ~(Cardinality(ProvedSince(d)) >= Max)
               PROVE  FALSE
    OBVIOUS
  <2>1. ~Cached(signer[d])
    <3>1. PICK c \in Calls, k \in Signers : Miss(c, k) /\ inflight[k] # inflight'[k]
      BY DEF Next, vars, Tick, Unverified, Hit, Miss, Fetched, Proves, Fails, Deadline, FlightEnds,
             Inductive, TypeOK
    <3>2. k = signer[d]
      BY <3>1 DEF Miss, Inductive, TypeOK
    <3>3. QED
      BY <3>1, <3>2 DEF Miss
  <2>2. PICK e \in Proved : /\ Last(e) /\ signer[e] = signer[d]
                            /\ attestation[e].order >= attestation[d].order
    BY LastProofExists
  <2>3. /\ now \in Nat /\ Ttl \in Nat
        /\ attestation[d].at \in Nat /\ attestation[e].at \in Nat
        /\ \A f \in Proved : attestation[f].order \in Nat
    BY ProofTypes, CacheAssumption DEF Inductive, Proved
  <2>4. e \in cache
    <3>1. ProvedSince(e) \subseteq ProvedSince(d)
      BY <2>2, <2>3 DEF ProvedSince
    <3>2. Cardinality(ProvedSince(e)) <= Cardinality(ProvedSince(d))
      BY <3>1, SinceIsFinite, FS_Subset
    <3>3. QED
      BY <2>2, <3>2, SinceIsFinite, CacheAssumption DEF CacheIsLastProved
  <2>5. attestation[d].at <= attestation[e].at
    BY <2>2, <2>3 DEF ProofsInOrder
  <2>6. Fresh(e)
    BY <2>3, <2>5 DEF Fresh
  <2>7. QED
    BY <2>1, <2>2, <2>4, <2>6 DEF Cached
<1>2. Init => ProofsInOrder
  BY DEF Init, Proved, ProofsInOrder
<1>3. Spec => []ProofsInOrder
  BY <1>2, InductiveHolds, OrderInductive, PTL DEF Spec
<1>4. QED
  BY <1>1, <1>3, InductiveHolds, CacheKeepsTheLast, PTL DEF Spec, OncePerTtl

-----------------------------------------------------------------------------
(* What an accepted call rests on *)

AcceptedIsOfProved ==
    \A c \in Calls : pc[c] = "accepted" => \E d \in Proved : signer[d] = signer[c]

\* A call that has looked up its signer keeps it, and one that has settled
\* stays settled.
LEMMA CallsGoOn ==
  ASSUME Inductive, [Next]_vars, NEW c \in Calls
  PROVE  /\ pc[c] # "idle" => signer'[c] = signer[c]
         /\ pc[c] \in {"accepted", "rejected"} => pc'[c] = pc[c]
         /\ pc[c] = "waiting" => pc'[c] # "idle"
<1> USE CallsAssumption DEF Inductive, TypeOK
<1>1. CASE UNCHANGED <<pc, signer>>
  BY <1>1
<1>2. ASSUME NEW b \in Calls, \/ Unverified(b) \/ FlightEnds(b)
                              \/ \E k \in Signers : Hit(b, k) \/ Miss(b, k)
      PROVE  /\ pc[c] # "idle" => signer'[c] = signer[c]
             /\ pc[c] \in {"accepted", "rejected"} => pc'[c] = pc[c]
             /\ pc[c] = "waiting" => pc'[c] # "idle"
  BY <1>2 DEF Unverified, FlightEnds, Hit, Miss
<1>3. QED
  BY <1>1, <1>2 DEF Next, vars, Tick, Fetched, Proves, Fails, Deadline

\* The proof an accepted call was let through on is never taken back.
THEOREM AcceptanceStaysProved == Spec => []AcceptedIsOfProved
<1>1. Inductive /\ AcceptedIsOfProved /\ [Next]_vars => AcceptedIsOfProved'
  <2> SUFFICES ASSUME Inductive, AcceptedIsOfProved, [Next]_vars,
                      NEW c \in Calls, pc'[c] = "accepted"
               PROVE  \E d \in Proved' : signer'[d] = signer'[c]
    BY DEF AcceptedIsOfProved
  <2>1. CASE pc[c] = "accepted"
    BY <2>1, ProofsStand, CallsGoOn DEF AcceptedIsOfProved
  <2>2. CASE pc[c] # "accepted"
    <3>1. PICK d \in Calls : attestation[d].outcome = "proved" /\ signer[d] = signer'[c]
      BY <2>2, AcceptedOnProof
    <3>2. QED
      BY <3>1, ProofsStand DEF Proved
  <2>3. QED
    BY <2>1, <2>2
<1>2. Init => AcceptedIsOfProved
  BY DEF Init, AcceptedIsOfProved
<1>3. QED
  BY <1>1, <1>2, InductiveHolds, PTL DEF Spec
=============================================================================
