--------------------------- MODULE TransportProofs ---------------------------
(***************************************************************************)
(* Transport, for any sends, signals and bounds: the registry of abort     *)
(* listeners loses no waiter and leaks no listener, the cap holds, and an  *)
(* abort's reason wins.                                                    *)
(***************************************************************************)
EXTENDS Transport, FiniteSetTheorems, TLAPS

\* A waiter stands in the entry it subscribed to and in no other.
WaitersStand ==
    /\ \A e \in Sends : Waits(e) => own[e] \in Sends
    /\ \A e \in Sends, x \in Sends : e \in fails[x] <=> Waits(e) /\ own[e] = x

\* An entry is named after a send that was made, with the entry's signal.
EntriesAreKnown ==
    /\ \A e \in Sends : own[e] # None =>
          io[own[e]] # "idle" /\ signal[own[e]] = signal[e]
    /\ \A g \in Signals : registry[g] # None =>
          io[registry[g]] # "idle" /\ signal[registry[g]] = g

\* While a signal is live its entry is in the registry with its one listener
\* exactly while it has waiters, and every waiter of the signal is in it.
\* Behind the abort there is no listener, and the waiters have been told.
ListenersStand ==
    /\ \A g \in Signals \ aborted :
          \/ registry[g] = None /\ listening[g] = {}
          \/ /\ registry[g] \in Sends
             /\ listening[g] = {registry[g]}
             /\ \E e \in Sends : Waits(e) /\ signal[e] = g
    /\ \A g \in aborted : listening[g] = {}
WaitersAreReached ==
    \A e \in Sends : Waits(e) =>
        IF signal[e] \in aborted THEN race[e] # Pending ELSE own[e] = registry[signal[e]]

\* A send that was not made waits for nothing; a settled one has a result.
Progress ==
    \A e \in Sends : /\ io[e] = "idle" => race[e] = Pending /\ own[e] = None
                     /\ io[e] = "settled" => result[e] # Pending

Inv ==
    /\ TypeOK
    /\ WaitersStand
    /\ EntriesAreKnown
    /\ ListenersStand
    /\ WaitersAreReached
    /\ Progress
    /\ CapHolds

LEMMA ResultTypes ==
    /\ Pending \in Results /\ TooLarge \in Results /\ Broken \in Results
    /\ \A n \in Nat : Answer(n) \in Results
    /\ Reason.size = 0 /\ Pending.size = 0 /\ TooLarge.size = 0 /\ Broken.size = 0
    /\ \A n \in Nat : Answer(n).size = n /\ Answer(n) # Pending
    /\ TooLarge # Pending /\ Broken # Pending /\ Reason # Pending
BY DEF Results, Pending, TooLarge, Broken, Answer, Reason

LEMMA Initially == Init => Inv
BY ConstantsAssumption, ResultTypes
   DEF Init, Inv, TypeOK, WaitersStand, EntriesAreKnown, ListenersStand, WaitersAreReached,
       Progress, CapHolds, Waits

\* What every step of a send's transport looks like: nobody starts or stops
\* waiting.
Reading(e) ==
    /\ io[e] \in Active
    /\ io' \in [Sends -> {"idle", "fetching", "streaming", "whole", "cancelling", "settled", "delivered"}]
    /\ io'[e] \in Active \cup {"settled"}
    /\ \A f \in Sends : f # e => io'[f] = io[f] /\ result'[f] = result[f]
    /\ result' \in [Sends -> Results]
    /\ io'[e] = "settled" => result'[e] # Pending
    /\ kept' \in [Sends -> Nat]
    /\ \A f \in Sends : kept'[f] <= Cap
    /\ UNCHANGED <<calling, aborted, listeners, race, outcome, ethers>>

LEMMA ReadingKeeps ==
    ASSUME Inv, NEW e \in Sends, Reading(e)
    PROVE  Inv'
<1>1. TypeOK'
  BY DEF Inv, TypeOK, Reading, calling, listeners, ethers
<1>2. \A f \in Sends : Waits(f)' = Waits(f)
  BY DEF Inv, TypeOK, Reading, Waits, Active, calling
<1>3. WaitersStand' /\ ListenersStand' /\ WaitersAreReached'
  BY <1>2 DEF Inv, WaitersStand, ListenersStand, WaitersAreReached, Reading, calling, listeners
<1>4. \A f \in Sends : io'[f] = "idle" <=> io[f] = "idle"
  BY DEF Inv, TypeOK, Reading, Active
<1>5. EntriesAreKnown'
  BY <1>4 DEF Inv, TypeOK, EntriesAreKnown, Reading, calling, listeners
<1>6. Progress'
  BY <1>4 DEF Inv, Progress, Reading, calling
<1>7. CapHolds'
  BY DEF Inv, CapHolds, Reading
<1> QED BY <1>1, <1>3, <1>5, <1>6, <1>7 DEF Inv

LEMMA SettledIsReading ==
    ASSUME Inv, NEW e \in Sends, NEW r \in Results, r # Pending,
           io[e] \in Active, Settled(e, r),
           UNCHANGED <<calling, aborted, listeners, kept, race, ethers, outcome>>
    PROVE  Reading(e)
BY DEF Inv, TypeOK, CapHolds, Reading, Settled, Active

\* A step that only moves ethers' timer or its queued listener.
LEMMA StopKeeps ==
    ASSUME Inv, NEW e \in Sends, stopped' = stopped \cup {e}, queued' \subseteq queued,
           UNCHANGED <<calling, aborted, listeners, io, kept, result, race, outcome>>
    PROVE  Inv'
BY DEF Inv, TypeOK, WaitersStand, EntriesAreKnown, ListenersStand, WaitersAreReached, Progress,
       CapHolds, Waits, calling, listeners

LEMMA TransportSteps ==
    ASSUME Inv, NEW e \in Sends,
           \/ Headers(e) \/ StreamEnds(e) \/ Cancelled(e) \/ Breaks(e)
           \/ \E n \in 1 .. MaxSize : Chunk(e, n) \/ WholeArrives(e, n)
           \/ \E n \in 0 .. MaxSize : CustomSettles(e, Answer(n))
           \/ CustomSettles(e, TooLarge)
    PROVE  Inv'
<1>1. SUFFICES Reading(e)
  BY ReadingKeeps
<1>2. CASE Headers(e)
  <2>1. io[e] \in Active
    BY <1>2 DEF Headers, Active
  <2>2. CASE Settled(e, Answer(0)) \/ Settled(e, TooLarge)
    <3>1. UNCHANGED <<calling, aborted, listeners, kept, race, ethers, outcome>>
      BY <1>2 DEF Headers
    <3> QED BY <2>1, <2>2, <3>1, SettledIsReading, ResultTypes
  <2>3. CASE \E s \in {"cancelling", "streaming", "whole"} : io' = [io EXCEPT ![e] = s] /\ UNCHANGED result
    BY <1>2, <2>1, <2>3 DEF Headers, Reading, Active, Inv, TypeOK, CapHolds
  <2> QED BY <1>2, <2>2, <2>3 DEF Headers
<1>3. CASE StreamEnds(e)
  <2>1. kept[e] \in Nat
    BY DEF Inv, TypeOK
  <2> QED BY <1>3, <2>1, SettledIsReading, ResultTypes DEF StreamEnds, Active
<1>4. CASE Cancelled(e)
  BY <1>4, SettledIsReading, ResultTypes DEF Cancelled, Active
<1>5. CASE Breaks(e)
  BY <1>5, SettledIsReading, ResultTypes DEF Breaks
<1>6. ASSUME NEW n \in 1 .. MaxSize, Chunk(e, n)
      PROVE  Reading(e)
  <2>1. n \in Nat /\ Cap \in Nat
    BY ConstantsAssumption
  <2>2. CASE io' = [io EXCEPT ![e] = "cancelling"] /\ UNCHANGED kept
    BY <1>6, <2>2 DEF Chunk, Reading, Active, Inv, TypeOK, CapHolds
  <2>3. CASE kept[e] + n <= Cap /\ kept' = [kept EXCEPT ![e] = @ + n] /\ UNCHANGED io
    BY <1>6, <2>1, <2>3 DEF Chunk, Reading, Active, Inv, TypeOK, CapHolds
  <2> QED BY <1>6, <2>2, <2>3 DEF Chunk
<1>7. ASSUME NEW n \in 1 .. MaxSize, WholeArrives(e, n)
      PROVE  Reading(e)
  BY <1>7, ConstantsAssumption, SettledIsReading, ResultTypes DEF WholeArrives, Active
<1>8. ASSUME NEW n \in 0 .. MaxSize, CustomSettles(e, Answer(n))
      PROVE  Reading(e)
  BY <1>8, ConstantsAssumption, SettledIsReading, ResultTypes DEF CustomSettles, Active
<1>9. CASE CustomSettles(e, TooLarge)
  BY <1>9, SettledIsReading, ResultTypes DEF CustomSettles, Active
<1> QED BY <1>2, <1>3, <1>4, <1>5, <1>6, <1>7, <1>8, <1>9

\* guardedSend's continuation touches nothing but its outcome.
LEMMA ResumeKeeps ==
    ASSUME Inv, NEW e \in Sends, Resume(e)
    PROVE  Inv'
<1>1. race[e] \in Results \cup {Reason} /\ Cap \in Nat
  BY ConstantsAssumption DEF Inv, TypeOK
<1>2. race[e].kind = "answer" \/ race[e].size = 0
  BY <1>1, ResultTypes DEF Results
<1>3. outcome'[e] \in Results \cup {Reason} /\ outcome'[e].size <= Cap
  BY <1>1, <1>2, ResultTypes DEF Resume, Inv, TypeOK, Results
<1>4. \A f \in Sends : f # e => outcome'[f] = outcome[f]
  BY DEF Resume, Inv, TypeOK
<1>5. outcome' \in [Sends -> Results \cup {Reason}]
  BY <1>3 DEF Resume, Inv, TypeOK
<1>6. TypeOK'
  BY <1>5 DEF Resume, Inv, TypeOK, calling, listeners, ethers
<1>7. CapHolds'
  BY <1>3, <1>4 DEF Resume, Inv, CapHolds
<1>8. (WaitersStand /\ EntriesAreKnown /\ ListenersStand /\ WaitersAreReached /\ Progress)'
  BY DEF Resume, Inv, WaitersStand, EntriesAreKnown, ListenersStand, WaitersAreReached, Progress,
         Waits, calling, listeners
<1> QED BY <1>6, <1>7, <1>8 DEF Inv

\* An abort takes the listener and tells every waiter of the signal.
LEMMA AbortKeeps ==
    ASSUME Inv, NEW g \in Signals, Abort(g)
    PROVE  Inv'
<1> USE DEF Inv
<1>1. /\ g \notin aborted /\ aborted' = aborted \cup {g}
      /\ UNCHANGED <<calling, fails, io, kept, result, stopped, outcome>>
  BY DEF Abort
<1>2. \A e \in Sends : Waits(e)' = Waits(e)
  BY <1>1 DEF Waits, calling
<1>3. /\ registry' \in [Signals -> Sends \cup {None}]
      /\ registry'[g] = registry[g] \/ registry'[g] = None
      /\ \A h \in Signals : h # g => registry'[h] = registry[h]
  BY DEF Abort, TypeOK
<1>4. /\ listening' \in [Signals -> SUBSET Sends]
      /\ listening'[g] = {}
      /\ \A h \in Signals : h # g => listening'[h] = listening[h]
  BY DEF Abort, TypeOK
<1>5. /\ race' \in [Sends -> Results \cup {Reason}]
      /\ \A e \in Sends : race[e] # Pending => race'[e] = race[e]
      /\ \A e \in Sends : e \in OnAbort(g) => race'[e] # Pending
      /\ \A e \in Sends : e \notin OnAbort(g) => race'[e] = race[e]
  BY ResultTypes DEF Abort, Reject, TypeOK
<1>6. TypeOK'
  <2>1. queued' \subseteq Sends
    BY DEF Abort, TypeOK
  <2> QED BY <1>1, <1>3, <1>4, <1>5, <2>1 DEF TypeOK, calling
<1>7. WaitersStand'
  BY <1>1, <1>2 DEF WaitersStand, calling
<1>8. EntriesAreKnown'
  BY <1>1, <1>3 DEF EntriesAreKnown, calling, TypeOK
<1>9. ListenersStand'
  BY <1>1, <1>2, <1>3, <1>4 DEF ListenersStand, calling, TypeOK
<1>10. WaitersAreReached'
  <2> SUFFICES ASSUME NEW e \in Sends, Waits(e)
               PROVE  IF signal[e] \in aborted' THEN race'[e] # Pending
                      ELSE own[e] = registry'[signal[e]]
    BY <1>1, <1>2 DEF WaitersAreReached, calling
  <2>1. signal[e] \in Signals
    BY DEF Waits, TypeOK
  <2>2. CASE signal[e] \in aborted
    BY <1>1, <1>5, <2>2 DEF WaitersAreReached
  <2>3. CASE signal[e] \notin aborted /\ signal[e] # g
    BY <1>1, <1>3, <2>1, <2>3 DEF WaitersAreReached
  <2>4. CASE signal[e] = g
    <3>1. own[e] = registry[g] /\ own[e] \in Sends
      BY <1>1, <2>4 DEF WaitersAreReached, WaitersStand
    <3>2. listening[g] = {own[e]}
      BY <1>1, <3>1, ConstantsAssumption DEF ListenersStand
    <3>3. e \in OnAbort(g)
      BY <3>1, <3>2 DEF OnAbort, WaitersStand
    <3> QED BY <1>1, <1>5, <2>4, <3>3
  <2> QED BY <2>2, <2>3, <2>4
<1>11. Progress'
  <2>1. \A e \in Sends : io[e] = "idle" => e \notin OnAbort(g)
    BY DEF OnAbort, WaitersStand, Waits, TypeOK
  <2> QED BY <1>1, <1>5, <2>1 DEF Progress, calling
<1>12. CapHolds'
  BY <1>1 DEF CapHolds
<1> QED BY <1>6, <1>7, <1>8, <1>9, <1>10, <1>11, <1>12

\* A send joins its signal's entry, or makes it.
LEMMA SendKeeps ==
    ASSUME Inv, NEW e \in Sends, NEW t \in Transports, NEW g \in Signals \cup {None}, Send(e, t, g)
    PROVE  Inv'
<1> USE DEF Inv
<1>1. /\ io[e] = "idle" /\ outcome[e] = Pending
      /\ own[e] = None /\ race[e] = Pending
      /\ signal' = [signal EXCEPT ![e] = g]
      /\ via' \in [Sends -> Transports \cup {None}]
      /\ UNCHANGED <<aborted, kept, result, race, ethers>>
  BY DEF Send, Progress, TypeOK
<1>2. /\ signal' \in [Sends -> Signals \cup {None}]
      /\ signal'[e] = g
      /\ \A f \in Sends : f # e => signal'[f] = signal[f]
  BY <1>1 DEF TypeOK
<1>3. ~Waits(e)
  BY <1>1 DEF Waits
<1>4. \A f \in Sends : own[f] # e
  BY <1>1, ConstantsAssumption DEF EntriesAreKnown, TypeOK
<1>5. \A h \in Signals : registry[h] # e
  BY <1>1, ConstantsAssumption DEF EntriesAreKnown, TypeOK
<1>6. CASE g \in aborted
  <2>1. /\ UNCHANGED <<own, listeners, io>>
        /\ outcome' = [outcome EXCEPT ![e] = Reason]
    BY <1>6 DEF Send, TypeOK
  <2>2. \A f \in Sends : Waits(f)' = Waits(f)
    BY <1>1, <1>2, <2>1 DEF Waits
  <2>3. TypeOK'
    BY <1>1, <1>2, <2>1, ResultTypes DEF TypeOK, listeners, ethers
  <2>4. WaitersStand' /\ ListenersStand' /\ WaitersAreReached' /\ Progress'
    BY <1>1, <1>2, <1>3, <2>1, <2>2
       DEF WaitersStand, ListenersStand, WaitersAreReached, Progress, listeners, TypeOK
  <2>5. EntriesAreKnown'
    BY <1>1, <1>2, <1>4, <1>5, <2>1 DEF EntriesAreKnown, listeners, TypeOK
  <2>6. CapHolds'
    BY <1>1, <2>1, ResultTypes, ConstantsAssumption DEF CapHolds, TypeOK
  <2> QED BY <2>3, <2>4, <2>5, <2>6
<1>7. CASE g \notin aborted
  <2>1. /\ io' = [io EXCEPT ![e] = "fetching"]
        /\ UNCHANGED outcome
        /\ IF g = None THEN UNCHANGED <<own, listeners>> ELSE Subscribe(e, g)
    BY <1>7 DEF Send
  <2>2. /\ io' \in [Sends -> {"idle", "fetching", "streaming", "whole", "cancelling", "settled", "delivered"}]
        /\ io'[e] = "fetching"
        /\ \A f \in Sends : f # e => io'[f] = io[f]
    BY <2>1 DEF TypeOK
  <2>3. CapHolds'
    BY <1>1, <2>1 DEF CapHolds
  <2>4. \A f \in Sends : f # e => Waits(f)' = Waits(f)
    BY <1>2, <2>2 DEF Waits
  <2>5. CASE g = None
    <3>1. UNCHANGED <<own, listeners>>
      BY <2>1, <2>5
    <3>2. \A f \in Sends : Waits(f)' = Waits(f)
      BY <1>2, <1>3, <2>4, <2>5 DEF Waits
    <3>3. TypeOK'
      BY <1>1, <1>2, <2>1, <2>2, <3>1 DEF TypeOK, listeners, ethers
    <3>4. WaitersStand' /\ ListenersStand' /\ WaitersAreReached'
      BY <1>1, <1>2, <1>3, <3>1, <3>2
         DEF WaitersStand, ListenersStand, WaitersAreReached, listeners, TypeOK
    <3>5. EntriesAreKnown' /\ Progress'
      BY <1>1, <1>2, <1>4, <1>5, <2>2, <3>1 DEF EntriesAreKnown, Progress, listeners, TypeOK
    <3> QED BY <2>3, <3>3, <3>4, <3>5
  <2>6. CASE g # None
    <3> DEFINE entry == IF registry[g] = None THEN e ELSE registry[g]
    <3>1. g \in Signals /\ g \notin aborted /\ g \in Signals \ aborted
      BY <1>7, <2>6
    <3>2. /\ own' = [own EXCEPT ![e] = entry]
          /\ registry' = [registry EXCEPT ![g] = entry]
          /\ fails' = [fails EXCEPT ![entry] = @ \cup {e}]
          /\ listening' = [listening EXCEPT ![g] = @ \cup {entry}]
      BY <2>1, <2>6 DEF Subscribe
    <3>3. entry \in Sends
      BY <3>1 DEF TypeOK
    <3>4. /\ registry[g] = None => entry = e
          /\ registry[g] # None => entry = registry[g] /\ entry # e
      BY <1>5, <3>1
    <3>5. listening[g] \subseteq {entry}
      BY <3>1, <3>4, ConstantsAssumption DEF ListenersStand
    <3> HIDE DEF entry
    <3>6. /\ own' \in [Sends -> Sends \cup {None}]
          /\ own'[e] = entry
          /\ \A f \in Sends : f # e => own'[f] = own[f]
      BY <3>2, <3>3 DEF TypeOK
    <3>7. /\ registry' \in [Signals -> Sends \cup {None}]
          /\ registry'[g] = entry
          /\ \A h \in Signals : h # g => registry'[h] = registry[h]
      BY <3>1, <3>2, <3>3 DEF TypeOK
    <3>8. /\ fails' \in [Sends -> SUBSET Sends]
          /\ fails'[entry] = fails[entry] \cup {e}
          /\ \A x \in Sends : x # entry => fails'[x] = fails[x]
      BY <3>2, <3>3 DEF TypeOK
    <3>9. /\ listening' \in [Signals -> SUBSET Sends]
          /\ listening'[g] = {entry}
          /\ \A h \in Signals : h # g => listening'[h] = listening[h]
      BY <3>1, <3>2, <3>3, <3>5 DEF TypeOK
    <3>10. Waits(e)'
      BY <1>2, <2>2, <2>6 DEF Waits
    <3>11. TypeOK'
      BY <1>1, <1>2, <2>1, <2>2, <3>6, <3>7, <3>8, <3>9 DEF TypeOK, ethers
    <3>12. WaitersStand'
      BY <1>3, <2>4, <3>3, <3>6, <3>8, <3>10 DEF WaitersStand, TypeOK
    <3>13. EntriesAreKnown'
      <4>1. entry # e => io[entry] # "idle" /\ signal[entry] = g
        BY <3>1, <3>3, <3>4, ConstantsAssumption DEF EntriesAreKnown
      <4>2. io'[entry] # "idle" /\ signal'[entry] = g
        BY <1>2, <2>2, <3>3, <4>1
      <4>3. \A f \in Sends : f # e /\ own[f] # None =>
               io'[own[f]] # "idle" /\ signal'[own[f]] = signal'[f]
        BY <1>2, <1>4, <2>2 DEF EntriesAreKnown, TypeOK
      <4>4. \A h \in Signals : h # g /\ registry[h] # None =>
               io'[registry[h]] # "idle" /\ signal'[registry[h]] = h
        BY <1>2, <1>5, <2>2 DEF EntriesAreKnown, TypeOK
      <4> QED BY <1>2, <3>6, <3>7, <4>2, <4>3, <4>4 DEF EntriesAreKnown
    <3>14. ListenersStand'
      <4>1. \A h \in Signals \ aborted : h # g =>
               \/ registry'[h] = None /\ listening'[h] = {}
               \/ /\ registry'[h] \in Sends
                  /\ listening'[h] = {registry'[h]}
                  /\ \E f \in Sends : Waits(f)' /\ signal'[f] = h
        <5> TAKE h \in Signals \ aborted
        <5> HAVE h # g
        <5>1. registry'[h] = registry[h] /\ listening'[h] = listening[h]
          BY <3>7, <3>9
        <5>2. CASE registry[h] = None /\ listening[h] = {}
          BY <5>1, <5>2
        <5>3. CASE /\ registry[h] \in Sends
                   /\ listening[h] = {registry[h]}
                   /\ \E f \in Sends : Waits(f) /\ signal[f] = h
          <6>1. PICK f \in Sends : Waits(f) /\ signal[f] = h
            BY <5>3
          <6>2. f # e
            BY <1>3, <6>1
          <6>3. Waits(f)' /\ signal'[f] = h
            BY <1>2, <2>4, <6>1, <6>2
          <6> QED BY <5>1, <5>3, <6>3
        <5> QED BY <5>2, <5>3 DEF ListenersStand
      <4>2. \A h \in aborted : listening'[h] = {}
        BY <3>1, <3>9 DEF ListenersStand, TypeOK
      <4> QED BY <1>1, <1>2, <3>3, <3>7, <3>9, <3>10, <4>1, <4>2 DEF ListenersStand
    <3>15. WaitersAreReached'
      <4>1. \A f \in Sends : f # e /\ Waits(f) =>
               IF signal[f] \in aborted THEN race[f] # Pending ELSE own[f] = registry'[signal[f]]
        <5> SUFFICES ASSUME NEW f \in Sends, f # e, Waits(f), signal[f] \notin aborted
                     PROVE  own[f] = registry'[signal[f]]
          BY DEF WaitersAreReached
        <5>1. own[f] = registry[signal[f]] /\ own[f] \in Sends /\ signal[f] \in Signals
          BY DEF WaitersAreReached, WaitersStand, Waits, TypeOK
        <5>2. signal[f] = g => registry[g] = entry
          BY <3>4, <5>1, ConstantsAssumption
        <5> QED BY <3>7, <5>1, <5>2
      <4> QED BY <1>1, <1>2, <2>4, <3>1, <3>6, <3>7, <4>1 DEF WaitersAreReached
    <3>16. Progress'
      BY <1>1, <2>2, <3>6 DEF Progress
    <3> QED BY <2>3, <3>11, <3>12, <3>13, <3>14, <3>15, <3>16
  <2> QED BY <2>5, <2>6
<1> QED BY <1>6, <1>7

\* A settled transport takes its waiter out of the entry, and the entry out of
\* the registry when it was the last.
LEMMA DeliverKeeps ==
    ASSUME Inv, NEW e \in Sends, Deliver(e)
    PROVE  Inv'
<1> USE DEF Inv
<1>1. /\ io[e] = "settled" /\ result[e] # Pending
      /\ io' = [io EXCEPT ![e] = "delivered"]
      /\ race' = IF race[e] = Pending THEN [race EXCEPT ![e] = result[e]] ELSE race
      /\ IF signal[e] = None THEN UNCHANGED listeners ELSE Release(e)
      /\ UNCHANGED <<calling, aborted, kept, result, ethers, outcome>>
  BY DEF Deliver, Progress
<1>2. /\ io' \in [Sends -> {"idle", "fetching", "streaming", "whole", "cancelling", "settled", "delivered"}]
      /\ io'[e] = "delivered"
      /\ \A f \in Sends : f # e => io'[f] = io[f]
  BY <1>1 DEF TypeOK
<1>3. /\ race' \in [Sends -> Results \cup {Reason}]
      /\ race'[e] # Pending
      /\ \A f \in Sends : f # e => race'[f] = race[f]
  BY <1>1 DEF TypeOK
<1>4. ~Waits(e)'
  BY <1>2 DEF Waits
<1>5. \A f \in Sends : f # e => Waits(f)' = Waits(f)
  BY <1>1, <1>2 DEF Waits, calling
<1>6. Progress' /\ CapHolds'
  BY <1>1, <1>2, <1>3 DEF Progress, CapHolds, calling, TypeOK
<1>7. \A f \in Sends : io'[f] = "idle" <=> io[f] = "idle"
  BY <1>1, <1>2
<1>8. CASE signal[e] = None
  <2>1. UNCHANGED listeners
    BY <1>1, <1>8
  <2>2. \A f \in Sends : Waits(f)' = Waits(f)
    BY <1>4, <1>5, <1>8 DEF Waits
  <2>3. TypeOK'
    BY <1>1, <1>2, <1>3, <2>1 DEF TypeOK, calling, listeners, ethers
  <2>4. WaitersStand' /\ EntriesAreKnown' /\ ListenersStand'
    BY <1>1, <1>7, <2>1, <2>2
       DEF WaitersStand, EntriesAreKnown, ListenersStand, calling, listeners, TypeOK
  <2>5. WaitersAreReached'
    BY <1>1, <1>3, <2>1, <2>2, <1>4 DEF WaitersAreReached, calling, listeners
  <2> QED BY <1>6, <2>3, <2>4, <2>5
<1>9. CASE signal[e] # None
  <2> DEFINE g == signal[e]
             left == fails[own[e]] \ {e}
             last == left = {} /\ registry[g] = own[e]
  <2>1. /\ fails' = [fails EXCEPT ![own[e]] = left]
        /\ registry' = IF last THEN [registry EXCEPT ![g] = None] ELSE registry
        /\ listening' = IF last THEN [listening EXCEPT ![g] = @ \ {own[e]}] ELSE listening
    BY <1>1, <1>9 DEF Release
  <2>2. Waits(e) /\ own[e] \in Sends /\ g \in Signals
    BY <1>1, <1>9 DEF Waits, WaitersStand, TypeOK
  <2>3. \A f \in Sends : f \in left <=> f # e /\ Waits(f) /\ own[f] = own[e]
    BY <2>2 DEF WaitersStand
  <2>4. left \subseteq Sends
    BY <2>2 DEF TypeOK
  <2>5. /\ fails' \in [Sends -> SUBSET Sends]
        /\ fails'[own[e]] = left
        /\ \A x \in Sends : x # own[e] => fails'[x] = fails[x]
    BY <2>1, <2>2, <2>4 DEF TypeOK
  <2>6. /\ registry' \in [Signals -> Sends \cup {None}]
        /\ \A h \in Signals : h # g \/ ~last => registry'[h] = registry[h]
        /\ last => registry'[g] = None
    BY <2>1, <2>2 DEF TypeOK
  <2>7. /\ listening' \in [Signals -> SUBSET Sends]
        /\ \A h \in Signals : h # g \/ ~last => listening'[h] = listening[h]
        /\ last => listening'[g] = listening[g] \ {own[e]}
    BY <2>1, <2>2 DEF TypeOK
  <2>8. \A f \in Sends : f # e /\ Waits(f) /\ own[f] = own[e] => signal[f] = g
    BY <2>2, ConstantsAssumption DEF EntriesAreKnown
  <2>9. g \notin aborted => registry[g] = own[e] /\ listening[g] = {own[e]}
    <3>1. g \notin aborted => registry[g] = own[e]
      BY <2>2 DEF WaitersAreReached
    <3> QED BY <2>2, <3>1, ConstantsAssumption DEF ListenersStand
  <2>10. TypeOK'
    BY <1>1, <1>2, <1>3, <2>5, <2>6, <2>7 DEF TypeOK, calling, ethers
  <2>11. WaitersStand'
    <3>1. \A f \in Sends : Waits(f)' => own'[f] \in Sends
      BY <1>1, <1>4, <1>5 DEF WaitersStand, calling
    <3>2. \A f \in Sends, x \in Sends : f \in fails'[x] <=> Waits(f)' /\ own'[f] = x
      <4> TAKE f \in Sends, x \in Sends
      <4>1. own' = own
        BY <1>1 DEF calling
      <4>2. CASE x = own[e]
        BY <1>4, <1>5, <2>3, <2>5, <4>1, <4>2
      <4>3. CASE x # own[e] /\ f # e
        BY <1>5, <2>5, <4>1, <4>3 DEF WaitersStand
      <4>4. CASE x # own[e] /\ f = e
        BY <1>4, <2>5, <4>4 DEF WaitersStand
      <4> QED BY <4>2, <4>3, <4>4
    <3> QED BY <3>1, <3>2 DEF WaitersStand
  <2>12. EntriesAreKnown'
    <3>1. \A h \in Signals : registry'[h] # None => registry'[h] = registry[h] /\ registry[h] \in Sends
      BY <2>6 DEF TypeOK
    <3> QED BY <1>1, <1>7, <3>1 DEF EntriesAreKnown, calling, TypeOK
  <2> HIDE DEF left, last
  <2>13. ListenersStand'
    <3>1. \A h \in aborted : listening'[h] = {}
      BY <2>7 DEF ListenersStand, TypeOK
    <3>2. ASSUME NEW h \in Signals \ aborted
          PROVE  \/ registry'[h] = None /\ listening'[h] = {}
                 \/ /\ registry'[h] \in Sends
                    /\ listening'[h] = {registry'[h]}
                    /\ \E f \in Sends : Waits(f)' /\ signal'[f] = h
      <4>1. CASE h # g
        <5>1. registry'[h] = registry[h] /\ listening'[h] = listening[h]
          BY <2>6, <2>7, <4>1
        <5>2. \A f \in Sends : Waits(f) /\ signal[f] = h => Waits(f)' /\ signal'[f] = h
          BY <1>1, <1>5, <4>1 DEF calling
        <5>3. CASE registry[h] = None /\ listening[h] = {}
          BY <5>1, <5>3
        <5>4. CASE /\ registry[h] \in Sends
                   /\ listening[h] = {registry[h]}
                   /\ \E f \in Sends : Waits(f) /\ signal[f] = h
          <6>1. \E f \in Sends : Waits(f)' /\ signal'[f] = h
            BY <5>2, <5>4
          <6> QED BY <5>1, <5>4, <6>1
        <5> QED BY <5>3, <5>4 DEF ListenersStand
      <4>2. CASE h = g /\ last
        BY <2>6, <2>7, <2>9, <4>2
      <4>3. CASE h = g /\ ~last
        <5>1. registry[g] = own[e] /\ listening[g] = {own[e]}
          BY <2>9, <4>3
        <5>2. left # {}
          BY <4>3, <5>1 DEF last
        <5>3. PICK f \in Sends : f # e /\ Waits(f) /\ own[f] = own[e]
          BY <2>3, <2>4, <5>2
        <5>4. Waits(f)' /\ signal'[f] = g
          BY <1>1, <1>5, <2>8, <5>3 DEF calling
        <5> QED BY <2>2, <2>6, <2>7, <4>3, <5>1, <5>4
      <4> QED BY <4>1, <4>2, <4>3
    <3> QED BY <1>1, <3>1, <3>2 DEF ListenersStand
  <2>14. WaitersAreReached'
    <3> SUFFICES ASSUME NEW f \in Sends, f # e, Waits(f)
                 PROVE  IF signal[f] \in aborted THEN race'[f] # Pending
                        ELSE own[f] = registry'[signal[f]]
      BY <1>1, <1>4, <1>5 DEF WaitersAreReached, calling
    <3>1. CASE signal[f] \in aborted
      BY <1>3, <3>1 DEF WaitersAreReached
    <3>2. CASE signal[f] \notin aborted
      <4>1. own[f] = registry[signal[f]] /\ own[f] \in Sends /\ signal[f] \in Signals
        BY <3>2 DEF WaitersAreReached, WaitersStand, Waits, TypeOK
      <4>2. signal[f] = g => ~last
        BY <2>3, <2>9, <3>2, <4>1 DEF last
      <4> QED BY <2>6, <3>2, <4>1, <4>2
    <3> QED BY <3>1, <3>2
  <2> QED BY <1>6, <2>10, <2>11, <2>12, <2>13, <2>14
<1> QED BY <1>8, <1>9

LEMMA StepKeeps == Inv /\ [Next]_vars => Inv'
<1> SUFFICES ASSUME Inv, [Next]_vars PROVE Inv'
  OBVIOUS
<1>1. CASE UNCHANGED vars
  BY <1>1 DEF vars, calling, listeners, ethers, Inv, TypeOK, WaitersStand, EntriesAreKnown,
              ListenersStand, WaitersAreReached, Progress, CapHolds, Waits
<1>2. ASSUME NEW e \in Sends, NEW t \in Transports, NEW g \in Signals \cup {None}, Send(e, t, g)
      PROVE  Inv'
  BY <1>2, SendKeeps
<1>3. ASSUME NEW e \in Sends, Deliver(e) PROVE Inv'
  BY <1>3, DeliverKeeps
<1>4. ASSUME NEW e \in Sends, Resume(e) PROVE Inv'
  BY <1>4, ResumeKeeps
<1>5. ASSUME NEW e \in Sends, TimerFires(e) \/ CancelRuns(e) PROVE Inv'
  <2>1. /\ stopped' = stopped \cup {e} /\ queued' \subseteq queued
        /\ UNCHANGED <<calling, aborted, listeners, io, kept, result, race, outcome>>
    BY <1>5 DEF TimerFires, CancelRuns
  <2> QED BY <2>1, StopKeeps
<1>6. ASSUME NEW e \in Sends,
             \/ Headers(e) \/ StreamEnds(e) \/ Cancelled(e) \/ Breaks(e)
             \/ \E n \in 1 .. MaxSize : Chunk(e, n) \/ WholeArrives(e, n)
             \/ \E n \in 0 .. MaxSize : CustomSettles(e, Answer(n))
             \/ CustomSettles(e, TooLarge)
      PROVE  Inv'
  BY <1>6, TransportSteps
<1>7. ASSUME NEW g \in Signals, Abort(g) PROVE Inv'
  BY <1>7, AbortKeeps
<1> QED BY <1>1, <1>2, <1>3, <1>4, <1>5, <1>6, <1>7 DEF Next

LEMMA Invariance == Spec => []Inv
<1>1. Inv /\ [Next]_vars => Inv'
  BY StepKeeps
<1> QED BY <1>1, Initially, PTL DEF Spec

\* Every variable keeps its type.
THEOREM TypeCorrect == Spec => []TypeOK
<1>1. Inv => TypeOK
  BY DEF Inv
<1> QED BY <1>1, Invariance, PTL

\* An abort leaves nobody waiting, whatever the others sharing the signal do.
THEOREM NobodyMissesTheAbort == Spec => []AbortReachesEveryone
<1>1. Inv => AbortReachesEveryone
  BY DEF Inv, AbortReachesEveryone, WaitersAreReached
<1> QED BY <1>1, Invariance, PTL

\* One listener on a live signal while someone waits on it, and none otherwise.
THEOREM ListenersAreCounted == Spec => []OneListenerWhileWaiting
<1>1. Inv => OneListenerWhileWaiting
  <2> SUFFICES ASSUME Inv, NEW g \in Signals \ aborted
               PROVE  Cardinality(listening[g]) =
                         (IF \E e \in Sends : Waits(e) /\ signal[e] = g THEN 1 ELSE 0)
    BY DEF OneListenerWhileWaiting
  <2>1. CASE \E e \in Sends : Waits(e) /\ signal[e] = g
    <3>1. PICK e \in Sends : Waits(e) /\ signal[e] = g
      BY <2>1
    <3>2. own[e] = registry[g] /\ own[e] \in Sends
      BY <3>1 DEF Inv, WaitersAreReached, WaitersStand
    <3>3. listening[g] = {registry[g]}
      BY <3>2, ConstantsAssumption DEF Inv, ListenersStand
    <3> QED BY <2>1, <3>3, FS_Singleton
  <2>2. CASE ~ \E e \in Sends : Waits(e) /\ signal[e] = g
    <3>1. listening[g] = {}
      BY <2>2 DEF Inv, ListenersStand
    <3> QED BY <2>2, <3>1, FS_EmptySet
  <2> QED BY <2>1, <2>2
<1> QED BY <1>1, Invariance, PTL

\* Nothing above maxBytes is kept or returned, whatever the transport.
THEOREM CapIsKept == Spec => []CapHolds
<1>1. Inv => CapHolds
  BY DEF Inv
<1> QED BY <1>1, Invariance, PTL

\* Once the signal has aborted no failure but its reason is reported.
THEOREM AbortWins == Spec => ReasonWins
<1>1. Inv /\ [Next]_vars =>
        [\A e \in Sends :
            outcome'[e] # outcome[e] /\ signal'[e] \in aborted
              => \/ outcome'[e].kind \in {"reason", "answer"}
                 \/ race[e].kind = "answer" /\ race[e].size > Cap]_vars
  <2> SUFFICES ASSUME Inv, Next, NEW e \in Sends, outcome'[e] # outcome[e], signal'[e] \in aborted
               PROVE  \/ outcome'[e].kind \in {"reason", "answer"}
                      \/ race[e].kind = "answer" /\ race[e].size > Cap
    OBVIOUS
  <2>1. CASE \E f \in Sends, t \in Transports, g \in Signals \cup {None} : Send(f, t, g)
    BY <2>1 DEF Send, Reason, Inv, TypeOK
  <2>2. CASE \E f \in Sends : Resume(f)
    <3>1. PICK f \in Sends : Resume(f)
      BY <2>2
    <3>2. f = e /\ race[e] # Pending /\ signal[e] \in aborted
      BY <3>1 DEF Resume, calling, Inv, TypeOK
    <3>3. outcome'[e] = CASE race[e].kind = "answer" /\ race[e].size > Cap -> TooLarge
                          [] race[e].kind # "answer" /\ signal[e] \in aborted -> Reason
                          [] OTHER -> race[e]
      BY <3>1, <3>2 DEF Resume, Inv, TypeOK
    <3> QED BY <3>2, <3>3 DEF Reason
  <2>3. CASE \/ \E f \in Sends : \/ Deliver(f) \/ Headers(f) \/ StreamEnds(f) \/ Cancelled(f)
                                 \/ Breaks(f) \/ TimerFires(f) \/ CancelRuns(f)
             \/ \E f \in Sends, n \in 1 .. MaxSize : Chunk(f, n) \/ WholeArrives(f, n)
             \/ \E f \in Sends, n \in 0 .. MaxSize : CustomSettles(f, Answer(n))
             \/ \E f \in Sends : CustomSettles(f, TooLarge)
             \/ \E g \in Signals : Abort(g)
    BY <2>3 DEF Deliver, Headers, StreamEnds, Cancelled, Breaks, TimerFires, CancelRuns, Chunk,
                WholeArrives, CustomSettles, Abort
  <2> QED BY <2>1, <2>2, <2>3 DEF Next
<1> QED BY <1>1, Invariance, PTL DEF Spec, ReasonWins

=============================================================================
