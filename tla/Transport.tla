------------------------------ MODULE Transport ------------------------------
(***************************************************************************)
(* One outer HTTP request: guardedSend, readCappedBody and fetchTransport  *)
(* of core/src/transport.ts, raceAbort and its registry of abort listeners *)
(* of core/src/abort.ts, and the ethers transport of                       *)
(* ethers/src/confidential.ts.  The client's posts and the attestation     *)
(* fetches go out through it.                                              *)
(*                                                                         *)
(* Sends may share a signal.  raceAbort keeps one listener per signal and  *)
(* a set of the waiters behind it; it never cancels what it races.  A      *)
(* promise's callback and the await behind it are two microtasks, and any  *)
(* code may abort a signal between them: Deliver and Resume are two steps. *)
(***************************************************************************)
EXTENDS Naturals, FiniteSets

CONSTANTS Sends,    \* calls of guardedSend
          Signals,  \* AbortSignals
          Cap,      \* maxBytes
          MaxSize,  \* bound on the bytes of one chunk, or of one injected answer
          None      \* JavaScript's undefined

ASSUME ConstantsAssumption ==
    /\ None \notin Sends \cup Signals
    /\ Cap \in Nat
    /\ MaxSize \in Nat

VARIABLES via,        \* the transport of send e
          signal,     \* its signal, None without one
          aborted,    \* the signals that have aborted
          registry,   \* registry: the entry of a signal, named after the send that made it
          fails,      \* the waiters of entry e
          own,        \* the entry send e subscribed to
          listening,  \* the entries whose onAbort is a listener of the signal
          io,         \* where the transport's promise of send e stands
          kept,       \* readCappedBody: bytes of the chunks kept
          result,     \* what the transport's promise settled with
          race,       \* what raceAbort's promise settled with
          stopped,    \* ethers: the requests whose AbortController has aborted
          queued,     \* ethers: the requests whose cancel listener is to run
          outcome     \* how guardedSend settled

calling == <<via, signal, own>>
listeners == <<registry, fails, listening>>
ethers == <<stopped, queued>>
vars == <<calling, aborted, listeners, io, kept, result, race, ethers, outcome>>

\* "fetch" is fetchTransport; "ethers" is fetchRequestTransport over
\* fetchTransport; "custom" is any transport a user injects.
Transports == {"fetch", "ethers", "custom"}

Pending == [kind |-> "pending", size |-> 0]
Answer(n) == [kind |-> "answer", size |-> n]
TooLarge == [kind |-> "tooLarge", size |-> 0]
Broken == [kind |-> "broken", size |-> 0]
Reason == [kind |-> "reason", size |-> 0]

\* The transport's promise is pending.
Active == {"fetching", "streaming", "whole", "cancelling"}

Settled(e, r) ==
    /\ io' = [io EXCEPT ![e] = "settled"]
    /\ result' = [result EXCEPT ![e] = r]

-----------------------------------------------------------------------------
(* abort.ts *)

\* The entry of signal g: made with its listener by the first waiter.
Subscribe(e, g) ==
    LET entry == IF registry[g] = None THEN e ELSE registry[g]
    IN /\ own' = [own EXCEPT ![e] = entry]
       /\ registry' = [registry EXCEPT ![g] = entry]
       /\ fails' = [fails EXCEPT ![entry] = @ \cup {e}]
       /\ listening' = [listening EXCEPT ![g] = @ \cup {entry}]

ReleaseFirst(e) ==
    LET g == signal[e]
    IN /\ fails' = [fails EXCEPT ![own[e]] = @ \ {e}]
       /\ registry' = [registry EXCEPT ![g] = None]
       /\ listening' = [listening EXCEPT ![g] = @ \ {own[e]}]
ReleaseKeepsListener(e) ==
    /\ fails' = [fails EXCEPT ![own[e]] = @ \ {e}]
    /\ UNCHANGED <<registry, listening>>
Release(e) ==
    LET g == signal[e]
        left == fails[own[e]] \ {e}
        last == left = {} /\ registry[g] = own[e]
    IN /\ fails' = [fails EXCEPT ![own[e]] = left]
       /\ registry' = IF last THEN [registry EXCEPT ![g] = None] ELSE registry
       /\ listening' = IF last THEN [listening EXCEPT ![g] = @ \ {own[e]}] ELSE listening

\* promise.then: release, and settle the race unless the abort was first.
Deliver(e) ==
    /\ io[e] = "settled"
    /\ io' = [io EXCEPT ![e] = "delivered"]
    /\ race' = IF race[e] = Pending THEN [race EXCEPT ![e] = result[e]] ELSE race
    /\ IF signal[e] = None THEN UNCHANGED listeners ELSE Release(e)
    /\ UNCHANGED <<calling, aborted, kept, result, ethers, outcome>>

\* onAbort, with the once of its listener.
OnAbort(g) == UNION {fails[x] : x \in listening[g]}
Reject(g) ==
    race' = [e \in Sends |->
                IF e \in OnAbort(g) /\ race[e] = Pending THEN Reason ELSE race[e]]

\* The abort event.  ethers queues the listeners of a cancelled request.
Abort(g) ==
    /\ g \notin aborted
    /\ aborted' = aborted \cup {g}
    /\ Reject(g)
    /\ registry' = IF listening[g] = {} THEN registry ELSE [registry EXCEPT ![g] = None]
    /\ listening' = [listening EXCEPT ![g] = {}]
    /\ queued' = queued \cup {e \in Sends : via[e] = "ethers" /\ signal[e] = g /\ io[e] \in Active}
    /\ UNCHANGED <<calling, fails, io, kept, result, stopped, outcome>>

-----------------------------------------------------------------------------
(* guardedSend *)

Send(e, t, g) ==
    /\ io[e] = "idle"
    /\ outcome[e] = Pending
    /\ via' = [via EXCEPT ![e] = t]
    /\ signal' = [signal EXCEPT ![e] = g]
    /\ \/ /\ g \in aborted
          /\ outcome' = [outcome EXCEPT ![e] = Reason]
          /\ UNCHANGED <<own, listeners, io>>
       \/ /\ g \notin aborted
          /\ io' = [io EXCEPT ![e] = "fetching"]
          /\ IF g = None THEN UNCHANGED <<own, listeners>> ELSE Subscribe(e, g)
          /\ UNCHANGED outcome
    /\ UNCHANGED <<aborted, kept, result, race, ethers>>

\* The continuation: an error is the abort's when the signal has aborted by
\* now; an answer over the cap is refused whatever the transport.
ResumeRaced(e) ==
    /\ race[e] # Pending
    /\ outcome[e] = Pending
    /\ outcome' = [outcome EXCEPT ![e] = IF race[e].size > Cap THEN TooLarge ELSE race[e]]
    /\ UNCHANGED <<calling, aborted, listeners, io, kept, result, race, ethers>>
ResumeTrusting(e) ==
    /\ race[e] # Pending
    /\ outcome[e] = Pending
    /\ outcome' = [outcome EXCEPT ![e] =
                      IF race[e].kind # "answer" /\ signal[e] \in aborted THEN Reason ELSE race[e]]
    /\ UNCHANGED <<calling, aborted, listeners, io, kept, result, race, ethers>>
Resume(e) ==
    /\ race[e] # Pending
    /\ outcome[e] = Pending
    /\ outcome' = [outcome EXCEPT ![e] =
                      CASE race[e].kind = "answer" /\ race[e].size > Cap -> TooLarge
                        [] race[e].kind # "answer" /\ signal[e] \in aborted -> Reason
                        [] OTHER -> race[e]]
    /\ UNCHANGED <<calling, aborted, listeners, io, kept, result, race, ethers>>

-----------------------------------------------------------------------------
(* fetchTransport and readCappedBody, also below the ethers transport *)

\* The headers arrive: an opaque redirect or no body; an identity body that
\* declares more than the cap; a stream; a body that can only be read whole.
Headers(e) ==
    /\ io[e] = "fetching"
    /\ via[e] \in {"fetch", "ethers"}
    /\ \/ Settled(e, Answer(0))
       \/ /\ io' = [io EXCEPT ![e] = "cancelling"]
          /\ UNCHANGED result
       \/ Settled(e, TooLarge)
       \/ /\ io' = [io EXCEPT ![e] = "streaming"]
          /\ UNCHANGED result
       \/ /\ io' = [io EXCEPT ![e] = "whole"]
          /\ UNCHANGED result
    /\ UNCHANGED <<calling, aborted, listeners, kept, race, ethers, outcome>>

ChunkKept(e, n) ==
    /\ io[e] = "streaming"
    /\ kept' = [kept EXCEPT ![e] = @ + n]
    /\ io' = IF kept[e] > Cap THEN [io EXCEPT ![e] = "cancelling"] ELSE io
    /\ UNCHANGED <<calling, aborted, listeners, result, race, ethers, outcome>>
Chunk(e, n) ==
    /\ io[e] = "streaming"
    /\ \/ /\ kept[e] + n > Cap
          /\ io' = [io EXCEPT ![e] = "cancelling"]
          /\ UNCHANGED kept
       \/ /\ kept[e] + n <= Cap
          /\ kept' = [kept EXCEPT ![e] = @ + n]
          /\ UNCHANGED io
    /\ UNCHANGED <<calling, aborted, listeners, result, race, ethers, outcome>>

StreamEnds(e) ==
    /\ io[e] = "streaming"
    /\ Settled(e, Answer(kept[e]))
    /\ UNCHANGED <<calling, aborted, listeners, kept, race, ethers, outcome>>

\* arrayBuffer holds the body before its size is known.
WholeArrives(e, n) ==
    /\ io[e] = "whole"
    /\ Settled(e, IF n > Cap THEN TooLarge ELSE Answer(n))
    /\ UNCHANGED <<calling, aborted, listeners, kept, race, ethers, outcome>>

\* The stream's cancel is awaited before ResponseTooLarge is thrown.
Cancelled(e) ==
    /\ io[e] = "cancelling"
    /\ Settled(e, TooLarge)
    /\ UNCHANGED <<calling, aborted, listeners, kept, race, ethers, outcome>>

\* The network fails, or the request's own signal makes fetch, or the reading
\* of the body, throw.
Breaks(e) ==
    /\ io[e] \in Active
    /\ Settled(e, Broken)
    /\ UNCHANGED <<calling, aborted, listeners, kept, race, ethers, outcome>>

\* An injected transport answers with what it likes, or throws
\* ResponseTooLarge of its own; it need not ever settle.
CustomSettles(e, r) ==
    /\ io[e] = "fetching"
    /\ via[e] = "custom"
    /\ Settled(e, r)
    /\ UNCHANGED <<calling, aborted, listeners, kept, race, ethers, outcome>>

-----------------------------------------------------------------------------
(* ethers: cappedGetUrl.  Its timer and its cancel listener abort one
   controller, whose signal is the one fetch has; the request's own signal
   reaches it through FetchRequest.cancel, which runs listeners in a later
   task. *)

TimerBeforeBody(e) ==
    /\ via[e] = "ethers"
    /\ io[e] = "fetching"
    /\ e \notin stopped
    /\ stopped' = stopped \cup {e}
    /\ UNCHANGED <<calling, aborted, listeners, io, kept, result, race, queued, outcome>>
TimerFires(e) ==
    /\ via[e] = "ethers"
    /\ io[e] \in Active
    /\ e \notin stopped
    /\ stopped' = stopped \cup {e}
    /\ UNCHANGED <<calling, aborted, listeners, io, kept, result, race, queued, outcome>>

CancelRuns(e) ==
    /\ e \in queued
    /\ queued' = queued \ {e}
    /\ stopped' = stopped \cup {e}
    /\ UNCHANGED <<calling, aborted, listeners, io, kept, result, race, outcome>>

-----------------------------------------------------------------------------

Init ==
    /\ via = [e \in Sends |-> None]
    /\ signal = [e \in Sends |-> None]
    /\ own = [e \in Sends |-> None]
    /\ aborted = {}
    /\ registry = [g \in Signals |-> None]
    /\ fails = [e \in Sends |-> {}]
    /\ listening = [g \in Signals |-> {}]
    /\ io = [e \in Sends |-> "idle"]
    /\ kept = [e \in Sends |-> 0]
    /\ result = [e \in Sends |-> Pending]
    /\ race = [e \in Sends |-> Pending]
    /\ stopped = {}
    /\ queued = {}
    /\ outcome = [e \in Sends |-> Pending]

Next ==
    \/ \E e \in Sends, t \in Transports, g \in Signals \cup {None} : Send(e, t, g)
    \/ \E e \in Sends : \/ Deliver(e) \/ Resume(e)
                        \/ Headers(e) \/ StreamEnds(e) \/ Cancelled(e) \/ Breaks(e)
                        \/ TimerFires(e) \/ CancelRuns(e)
    \/ \E e \in Sends, n \in 1 .. MaxSize : Chunk(e, n) \/ WholeArrives(e, n)
    \/ \E e \in Sends, n \in 0 .. MaxSize : CustomSettles(e, Answer(n))
    \/ \E e \in Sends : CustomSettles(e, TooLarge)
    \/ \E g \in Signals : Abort(g)

\* What makes fetch give up: its own signal.
Stopped(e) == \/ via[e] = "fetch" /\ signal[e] \in aborted
              \/ via[e] = "ethers" /\ e \in stopped

\* Microtasks and timers run, a queued listener runs, and fetch heeds the
\* signal it was given.  No answer is ever due.
Fairness ==
    \A e \in Sends : /\ WF_vars(Deliver(e))
                     /\ WF_vars(Resume(e))
                     /\ WF_vars(TimerFires(e))
                     /\ WF_vars(CancelRuns(e))
                     /\ WF_vars(Stopped(e) /\ Breaks(e))

Spec == Init /\ [][Next]_vars /\ Fairness

-----------------------------------------------------------------------------
(* Properties *)

Results == {Pending, TooLarge, Broken} \cup [kind : {"answer"}, size : Nat]

\* A race is won by its transport's result or by the abort's reason, never by
\* anything else, and guardedSend settles with no other kinds.
TypeOK ==
    /\ via \in [Sends -> Transports \cup {None}]
    /\ signal \in [Sends -> Signals \cup {None}]
    /\ own \in [Sends -> Sends \cup {None}]
    /\ aborted \subseteq Signals
    /\ registry \in [Signals -> Sends \cup {None}]
    /\ fails \in [Sends -> SUBSET Sends]
    /\ listening \in [Signals -> SUBSET Sends]
    /\ io \in [Sends -> {"idle", "fetching", "streaming", "whole", "cancelling", "settled", "delivered"}]
    /\ kept \in [Sends -> Nat]
    /\ result \in [Sends -> Results]
    /\ race \in [Sends -> Results \cup {Reason}]
    /\ stopped \subseteq Sends
    /\ queued \subseteq Sends
    /\ outcome \in [Sends -> Results \cup {Reason}]

\* Between the transport's call and its settlement send e waits on its signal.
Waits(e) == signal[e] # None /\ io[e] \notin {"idle", "delivered"}

\* raceAbort promises to reject with the signal's reason first.  When a signal
\* aborts, everyone racing it is rejected in that step: nobody is left behind
\* an entry that another waiter's release took down, or that has no listener.
AbortReachesEveryone ==
    \A e \in Sends : Waits(e) /\ signal[e] \in aborted => race[e] # Pending

\* abort.ts keeps one abort listener per signal, and keeps it exactly while
\* someone waits: a long-lived signal collects no listeners of past requests.
OneListenerWhileWaiting ==
    \A g \in Signals \ aborted :
        Cardinality(listening[g]) = (IF \E e \in Sends : Waits(e) /\ signal[e] = g THEN 1 ELSE 0)

\* The cap: readCappedBody never keeps more than maxBytes of a stream, and no
\* transport, an injected one that ignores maxBytes included, makes guardedSend
\* return more.
CapHolds ==
    \A e \in Sends : /\ kept[e] <= Cap
                     /\ outcome[e].size <= Cap

\* An abort rejects with the signal's reason: no error that comes of tearing
\* the request down, ethers' own CANCELLED included, is reported as the
\* request's failure once its signal has aborted.  The one exception is an
\* injected transport that answers with more bytes than the cap.
ReasonWins ==
    [][\A e \in Sends :
          outcome'[e] # outcome[e] /\ signal'[e] \in aborted
            => \/ outcome'[e].kind \in {"reason", "answer"}
               \/ race[e].kind = "answer" /\ race[e].size > Cap]_vars

\* Losing the race cancels nothing by itself, but no request of the stock
\* transports reads on for ever: behind an abort fetch is stopped, also through
\* ethers' cancel, and ethers' timer covers the body too.
RequestsAreTornDown ==
    \A e \in Sends :
        (io[e] \in Active /\ (via[e] = "ethers" \/ (via[e] = "fetch" /\ signal[e] \in aborted)))
          ~> io[e] = "delivered"
=============================================================================
