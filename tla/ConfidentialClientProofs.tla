---------------------- MODULE ConfidentialClientProofs ----------------------
(***************************************************************************)
(* Proofs about ConfidentialClient for any sets of calls and nodes, any    *)
(* time to live and any bound on the clock.                                *)
(***************************************************************************)
EXTENDS ConfidentialClient, TLAPS

-----------------------------------------------------------------------------
(* The inductive invariant *)

Fresh   == {"idle", "encoding"}
Holding == {"sealing", "sent", "checking"}

\* Where a call is suspended says what it holds: before acquire() nothing, in
\* the wait the flight, afterwards a pin that was installed.
HoldsWhatItUses ==
    \A c \in Calls :
        /\ pc[c] \in Fresh => uses[c] = None /\ attestation[c].state = "none"
        /\ pc[c] = "waiting" => flight # None /\ uses[c] = flight
        /\ pc[c] \in Holding \/ sent[c] =>
              /\ c \in Requests
              /\ uses[c] \in Calls
              /\ attestation[uses[c]].state = "pinned"

\* A call has settled exactly when it is done, and bytes left it exactly from
\* the send on.
SettledWhenDone ==
    \A c \in Calls :
        /\ pc[c] = "done" <=> outcome[c].kind # "none"
        /\ pc[c] \in {"sent", "checking"} => sent[c]
        /\ sent[c] => pc[c] \in {"sent", "checking", "done"}

\* The slot only holds pins, and a pin names a node.
PinIsPinned ==
    /\ pin # None => attestation[pin].state = "pinned"
    /\ \A f \in Calls : attestation[f].state = "pinned" => attestation[f].node \in Nodes

\* What executed says of each settled request, the shared errors included.
ExecutedOf ==
    \A c \in Requests :
        /\ outcome[c].executed = "shared" =>
              /\ ~sent[c]
              /\ outcome[c].kind \in {"AttestationUnavailable", "AttestationFailed"}
              /\ uses[c] \in Calls
              /\ attestation[uses[c]].state = "failed"
              /\ attestation[uses[c]].executed = "no"
        /\ outcome[c].kind \notin {"none", "ok", "aborted"} /\ outcome[c].executed # "shared" =>
              (outcome[c].executed = "no" <=> ~sent[c] \/ outcome[c].kind = "RequestRejected")

Inductive ==
    /\ TypeOK
    /\ SingleFlight
    /\ PinIsPinned
    /\ HoldsWhatItUses
    /\ SettledWhenDone
    /\ BlamedPinGone
    /\ ExecutedOf
    /\ AnsweredByPinnedNode

-----------------------------------------------------------------------------
(* Types *)

LEMMA InitTypes == Init => TypeOK
  BY CallsAssumption, TimeAssumption
  DEF Init, TypeOK, NotStarted, Attestations, Unsettled, Result, Results, Kinds, NoAnswer, Answers, Places

LEMMA SettleTypes ==
  ASSUME TypeOK, NEW c \in Calls, NEW result, Settle(c, result),
         result \in Results
  PROVE  /\ pc' \in [Calls -> Places]
         /\ outcome' \in [Calls -> Results]
         /\ aborted' \in [Calls -> BOOLEAN]
         /\ answer' \in [Calls -> Answers]
  BY DEF TypeOK, Settle, NoAnswer, Answers, Places

LEMMA GoOnTypes ==
  ASSUME TypeOK, NEW c \in Calls, NEW place \in {"encoding", "waiting", "sealing", "sent"},
         GoOn(c, place)
  PROVE  /\ pc' \in [Calls -> Places]
         /\ outcome' \in [Calls -> Results]
         /\ aborted' \in [Calls -> BOOLEAN]
         /\ answer' \in [Calls -> Answers]
  BY DEF TypeOK, GoOn, Places

LEMMA StepTypes == TypeOK /\ [Next]_vars => TypeOK'
<1> SUFFICES ASSUME TypeOK, [Next]_vars PROVE TypeOK'
  OBVIOUS
<1> USE CallsAssumption, TimeAssumption
<1>1. ASSUME NEW n \in Nodes, FlightResolves(n) PROVE TypeOK'
  <2>1. attestation' \in [Calls -> Attestations]
    BY <1>1 DEF FlightResolves, TypeOK, Attestations, Pinned
  <2>2. pc' \in [Calls -> Places]
    BY <1>1 DEF FlightResolves, TypeOK, Resumed, Places
  <2>3. outcome' \in [Calls -> Results]
    BY <1>1 DEF FlightResolves, TypeOK, Result, Results, Kinds, NoAnswer, Answers
  <2>4. QED
    BY <1>1, <2>1, <2>2, <2>3 DEF FlightResolves, TypeOK
<1>2. ASSUME NEW kind \in {"AttestationUnavailable", "AttestationFailed", "raw"},
             FlightRejects(kind)
      PROVE  TypeOK'
  <2>1. attestation' \in [Calls -> Attestations]
    BY <1>2 DEF FlightRejects, TypeOK, Attestations, Failed
  <2>2. pc' \in [Calls -> Places]
    BY <1>2 DEF FlightRejects, TypeOK, Places
  <2>3. \A c \in Calls : FlightFailure(c, kind) \in Results
    BY DEF FlightFailure, Calls, Result, Results, Kinds, NoAnswer, Answers
  <2>4. outcome' \in [Calls -> Results]
    BY <1>2, <2>3 DEF FlightRejects, TypeOK
  <2>5. QED
    BY <1>2, <2>1, <2>2, <2>4 DEF FlightRejects, TypeOK
<1>3. CASE ClockMoves
  BY <1>3 DEF ClockMoves, TypeOK, slot, calls
<1>4. ASSUME NEW c \in Calls, StartRequest(c) PROVE TypeOK'
  BY <1>4, SettleTypes, GoOnTypes DEF StartRequest, TypeOK, ThrowReason, slot, Result, Results, Kinds, NoAnswer, Answers
<1>5. ASSUME NEW c \in Calls, Acquire(c) PROVE TypeOK'
  <2>1. CASE AcquireAborted(c)
    BY <1>5, <2>1, SettleTypes
    DEF Acquire, AcquireAborted, TypeOK, ThrowReason, slot, Result, Results, Kinds, NoAnswer, Answers
  <2>2. CASE AcquireCurrent(c)
    BY <1>5, <2>2, SettleTypes, GoOnTypes
    DEF Acquire, AcquireCurrent, Current, TypeOK, Return, slot, Result, Results, Kinds, NoAnswer, Answers
  <2>3. CASE AcquireFlight(c)
    <3>1. /\ attestation' \in [Calls -> Attestations]
          /\ flight' \in Calls \cup {None}
          /\ uses' \in [Calls -> Calls \cup {None}]
          /\ GoOn(c, "waiting")
          /\ UNCHANGED pin
      BY <2>3 DEF AcquireFlight, Join, TypeOK, slot, Attestations
    <3>2. QED
      BY <1>5, <3>1, GoOnTypes DEF Acquire, TypeOK
  <2>4. QED
    BY <1>5, <2>1, <2>2, <2>3 DEF Acquire
<1>6. ASSUME NEW c \in Calls, EncodeFails(c) PROVE TypeOK'
  BY <1>6, SettleTypes DEF EncodeFails, TypeOK, ThrowUnsent, slot, Result, Results, Kinds, NoAnswer, Answers
<1>7. ASSUME NEW c \in Calls, Seal(c) PROVE TypeOK'
  BY <1>7, SettleTypes, GoOnTypes DEF Seal, TypeOK, ThrowReason, slot, Result, Results, Kinds, NoAnswer, Answers
<1>8. ASSUME NEW c \in Calls, SealFails(c) PROVE TypeOK'
  BY <1>8, SettleTypes DEF SealFails, TypeOK, ThrowUnsent, slot, Result, Results, Kinds, NoAnswer, Answers
<1>9. ASSUME NEW c \in Calls, TransportFails(c) PROVE TypeOK'
  BY <1>9, SettleTypes DEF TransportFails, TypeOK, slot, Result, Results, Kinds, NoAnswer, Answers
<1>10. ASSUME NEW c \in Calls, Receive(c) PROVE TypeOK'
  <2>1. Unsealed \cup Signed \subseteq Answers
    BY DEF Unsealed, Signed, Answers
  <2>2. answer' \in [Calls -> Answers]
    BY <1>10, <2>1 DEF Receive, TypeOK
  <2>3. QED
    BY <1>10, <2>2 DEF Receive, TypeOK, slot, Places
<1>11. ASSUME NEW c \in Calls, Check(c) PROVE TypeOK'
  <2>1. PICK kind \in Verdicts(c, answer[c]) \cup {"InternalError"} :
          /\ Settle(c, [Result(kind, ExecutedBy(kind)) EXCEPT
                          !.answer = IF kind \in {"ok", "RequestRejected"}
                                     THEN answer[c] ELSE NoAnswer])
          /\ IF kind # "ok" /\ EvictsPin(kind, answer[c])
             THEN Evict(uses[c]) ELSE UNCHANGED pin
    BY <1>11 DEF Check
  <2>2. kind \in Kinds
    BY <2>1 DEF Verdicts, Opened, Kinds
  <2>3. pin' \in Calls \cup {None}
    BY <2>1 DEF Evict, TypeOK
  <2>4. [Result(kind, ExecutedBy(kind)) EXCEPT
             !.answer = IF kind \in {"ok", "RequestRejected"} THEN answer[c] ELSE NoAnswer]
          \in Results
    BY <2>2 DEF TypeOK, Result, Results, ExecutedBy, NoAnswer, Answers
  <2>5. QED
    BY <1>11, <2>1, <2>3, <2>4, SettleTypes DEF Check, TypeOK
<1>12. ASSUME NEW c \in Calls, Abort(c) PROVE TypeOK'
  BY <1>12, SettleTypes DEF Abort, TypeOK, ThrowReason, slot, Result, Results, Kinds, NoAnswer, Answers
<1>13. CASE UNCHANGED vars
  BY <1>13 DEF TypeOK, vars
<1>14. QED
  BY <1>1, <1>2, <1>3, <1>4, <1>5, <1>6, <1>7, <1>8, <1>9, <1>10, <1>11, <1>12, <1>13
  DEF Next, FlightSettles, Works, StartReady, Encode

\* Every state the client reaches is well typed.
THEOREM TypeCorrect == Spec => []TypeOK
<1>1. Init => TypeOK
  BY InitTypes
<1>2. TypeOK /\ [Next]_vars => TypeOK'
  BY StepTypes
<1>3. QED
  BY <1>1, <1>2, PTL DEF Spec

-----------------------------------------------------------------------------
(* The invariant *)

LEMMA InitInductive == Init => Inductive
<1> SUFFICES ASSUME Init PROVE Inductive
  OBVIOUS
<1>1. TypeOK
  BY InitTypes
<1>2. /\ SingleFlight
      /\ PinIsPinned
      /\ HoldsWhatItUses
      /\ SettledWhenDone
  BY CallsAssumption
  DEF Init, SingleFlight, PinIsPinned, HoldsWhatItUses, SettledWhenDone, NotStarted, Unsettled,
      Result, Fresh, Holding
<1>3. /\ BlamedPinGone
      /\ ExecutedOf
      /\ AnsweredByPinnedNode
  BY DEF Init, BlamedPinGone, Blames, ExecutedOf, AnsweredByPinnedNode, Unsettled, Result, Calls
<1>4. QED
  BY <1>1, <1>2, <1>3 DEF Inductive

LEMMA FlightResolvesInductive ==
  ASSUME Inductive, NEW n \in Nodes, FlightResolves(n), TypeOK'
  PROVE  Inductive'
<1> USE CallsAssumption DEF Inductive, TypeOK
<1>1. SingleFlight'
  BY DEF FlightResolves, Pinned, SingleFlight
<1>2. PinIsPinned'
  BY DEF FlightResolves, Pinned, PinIsPinned, SingleFlight
<1>3. HoldsWhatItUses'
  BY DEF FlightResolves, Waiters, Resumed, Result, Pinned, HoldsWhatItUses, Fresh, Holding,
     SettledWhenDone, PinIsPinned, SingleFlight, Calls
<1>4. SettledWhenDone'
  BY DEF FlightResolves, Waiters, Resumed, Result, SettledWhenDone, Calls, HoldsWhatItUses,
     Fresh, Holding
<1>5. BlamedPinGone'
  BY DEF FlightResolves, Waiters, Resumed, Result, Pinned, BlamedPinGone, Blames,
     HoldsWhatItUses, Fresh, Holding, SettledWhenDone, SingleFlight
<1>6. ExecutedOf'
  BY DEF FlightResolves, Waiters, Resumed, Result, Pinned, ExecutedOf, HoldsWhatItUses,
     Fresh, Holding, SettledWhenDone, SingleFlight, Calls
<1>7. AnsweredByPinnedNode'
  BY DEF FlightResolves, Waiters, Resumed, Result, Pinned, AnsweredByPinnedNode,
     HoldsWhatItUses, Fresh, Holding, SettledWhenDone, SingleFlight, Calls
<1>8. QED
  BY <1>1, <1>2, <1>3, <1>4, <1>5, <1>6, <1>7 DEF Inductive

LEMMA FlightRejectsInductive ==
  ASSUME Inductive, NEW kind \in {"AttestationUnavailable", "AttestationFailed", "raw"},
         FlightRejects(kind), TypeOK'
  PROVE  Inductive'
<1> USE CallsAssumption DEF Inductive, TypeOK
<1>1. SingleFlight'
  BY DEF FlightRejects, Failed, SingleFlight
<1>2. PinIsPinned'
  BY DEF FlightRejects, Failed, PinIsPinned, SingleFlight
<1>3. HoldsWhatItUses'
  BY DEF FlightRejects, FlightFailure, Waiters, Result, NoAnswer, Failed, HoldsWhatItUses,
     Fresh, Holding, SettledWhenDone, PinIsPinned, SingleFlight, Calls
<1>4. SettledWhenDone'
  BY DEF FlightRejects, FlightFailure, Waiters, Result, NoAnswer, SettledWhenDone, Calls,
     HoldsWhatItUses, Fresh, Holding
<1>5. BlamedPinGone'
  BY DEF FlightRejects, FlightFailure, Waiters, Result, NoAnswer, Failed, BlamedPinGone,
     Blames, HoldsWhatItUses, Fresh, Holding, SettledWhenDone, SingleFlight
<1>6. ExecutedOf'
  BY DEF FlightRejects, FlightFailure, Waiters, Result, NoAnswer, Failed, ExecutedOf,
     HoldsWhatItUses, Fresh, Holding, SettledWhenDone, SingleFlight, Calls
<1>7. AnsweredByPinnedNode'
  BY DEF FlightRejects, FlightFailure, Waiters, Result, NoAnswer, Failed,
     AnsweredByPinnedNode, HoldsWhatItUses, Fresh, Holding, SettledWhenDone, SingleFlight,
     Calls
<1>8. QED
  BY <1>1, <1>2, <1>3, <1>4, <1>5, <1>6, <1>7 DEF Inductive

LEMMA AcquireCurrentInductive ==
  ASSUME Inductive, NEW c \in Calls, pc[c] \in Fresh, Acquire(c), AcquireCurrent(c), TypeOK'
  PROVE  Inductive'
<1> USE CallsAssumption DEF Inductive, TypeOK
<1>1. SingleFlight'
  BY DEF Acquire, AcquireCurrent, slot, SingleFlight
<1>2. PinIsPinned'
  BY DEF Acquire, AcquireCurrent, slot, PinIsPinned, SingleFlight
<1>3. HoldsWhatItUses'
  BY DEF Acquire, AcquireCurrent, slot, Current, Return, Settle, GoOn, Result, NoAnswer,
     HoldsWhatItUses, Fresh, Holding, SettledWhenDone, PinIsPinned, SingleFlight, Calls
<1>4. SettledWhenDone'
  BY DEF Acquire, AcquireCurrent, slot, Current, Return, Settle, GoOn, Result, NoAnswer,
     SettledWhenDone, Calls, HoldsWhatItUses, Fresh, Holding
<1>5. BlamedPinGone'
  BY DEF Acquire, AcquireCurrent, slot, Current, Return, Settle, GoOn, Result, NoAnswer,
     BlamedPinGone, Blames, HoldsWhatItUses, Fresh, Holding, SettledWhenDone, SingleFlight
<1>6. ExecutedOf'
  BY DEF Acquire, AcquireCurrent, slot, Current, Return, Settle, GoOn, Result, NoAnswer,
     ExecutedOf, HoldsWhatItUses, Fresh, Holding, SettledWhenDone, SingleFlight, Calls
<1>7. AnsweredByPinnedNode'
  BY DEF Acquire, AcquireCurrent, slot, Current, Return, Settle, GoOn, Result, NoAnswer,
     AnsweredByPinnedNode, HoldsWhatItUses, Fresh, Holding, SettledWhenDone, SingleFlight,
     Calls
<1>8. QED
  BY <1>1, <1>2, <1>3, <1>4, <1>5, <1>6, <1>7 DEF Inductive

LEMMA AcquireFlightInductive ==
  ASSUME Inductive, NEW c \in Calls, pc[c] \in Fresh, Acquire(c), AcquireFlight(c), TypeOK'
  PROVE  Inductive'
<1> USE CallsAssumption DEF Inductive, TypeOK
<1>1. SingleFlight'
  BY DEF Acquire, AcquireFlight, Join, slot, SingleFlight, HoldsWhatItUses, Fresh, Holding,
     Attestations
<1>2. PinIsPinned'
  <2>1. \A f \in Calls \ {c} : attestation'[f] = attestation[f]
    BY DEF AcquireFlight, slot
  <2>2. attestation'[c].state = "pinned" => attestation'[c] = attestation[c]
    BY DEF AcquireFlight, slot, Attestations
  <2>3. pin' = pin
    BY DEF AcquireFlight, slot
  <2>4. attestation[c].state = "none"
    BY DEF HoldsWhatItUses
  <2>5. QED
    BY <2>1, <2>2, <2>3, <2>4 DEF PinIsPinned
<1>3. HoldsWhatItUses'
  BY DEF Acquire, AcquireFlight, Join, slot, GoOn, HoldsWhatItUses, Fresh, Holding,
     SettledWhenDone, PinIsPinned, SingleFlight, Calls
<1>4. SettledWhenDone'
  BY DEF Acquire, AcquireFlight, Join, slot, GoOn, SettledWhenDone, Calls, HoldsWhatItUses,
     Fresh, Holding
<1>5. BlamedPinGone'
  BY DEF Acquire, AcquireFlight, Join, slot, GoOn, BlamedPinGone, Blames, HoldsWhatItUses,
     Fresh, Holding, SettledWhenDone, SingleFlight
<1>6. ExecutedOf'
  BY DEF Acquire, AcquireFlight, Join, slot, GoOn, ExecutedOf, HoldsWhatItUses, Fresh,
     Holding, SettledWhenDone, SingleFlight, Calls
<1>7. AnsweredByPinnedNode'
  BY DEF Acquire, AcquireFlight, Join, slot, GoOn, AnsweredByPinnedNode, HoldsWhatItUses,
     Fresh, Holding, SettledWhenDone, SingleFlight, Calls
<1>8. QED
  BY <1>1, <1>2, <1>3, <1>4, <1>5, <1>6, <1>7 DEF Inductive

LEMMA CheckInductive ==
  ASSUME Inductive, NEW c \in Calls, Check(c), TypeOK'
  PROVE  Inductive'
<1> USE CallsAssumption DEF Inductive, TypeOK
<1>1. SingleFlight'
  BY DEF Check, Evict, SingleFlight
<1>2. PinIsPinned'
  BY DEF Check, Evict, PinIsPinned, SingleFlight
<1>3. HoldsWhatItUses'
  BY DEF Check, Verdicts, Opened, ExecutedBy, EvictsPin, Settle, Result, NoAnswer, Evict,
     HoldsWhatItUses, Fresh, Holding, SettledWhenDone, PinIsPinned, SingleFlight, Calls
<1>4. SettledWhenDone'
  BY DEF Check, Verdicts, Opened, ExecutedBy, EvictsPin, Settle, Result, NoAnswer, SettledWhenDone,
     Calls, HoldsWhatItUses, Fresh, Holding
<1>5. BlamedPinGone'
  BY DEF Check, Verdicts, Opened, ExecutedBy, EvictsPin, Settle, Result, NoAnswer, Evict,
     BlamedPinGone, Blames, HoldsWhatItUses, Fresh, Holding, SettledWhenDone, SingleFlight
<1>6. ExecutedOf'
  BY DEF Check, Verdicts, Opened, ExecutedBy, EvictsPin, Settle, Result, NoAnswer, Evict,
     ExecutedOf, HoldsWhatItUses, Fresh, Holding, SettledWhenDone, SingleFlight, Calls
<1>7. AnsweredByPinnedNode'
  BY DEF Check, Verdicts, Opened, ExecutedBy, EvictsPin, Settle, Result, NoAnswer, Evict,
     AnsweredByPinnedNode, HoldsWhatItUses, Fresh, Holding, SettledWhenDone, SingleFlight,
     Calls
<1>8. QED
  BY <1>1, <1>2, <1>3, <1>4, <1>5, <1>6, <1>7 DEF Inductive

LEMMA StartRequestInductive ==
  ASSUME Inductive, NEW c \in Calls, StartRequest(c), TypeOK'
  PROVE  Inductive'
<1> USE CallsAssumption DEF Inductive, TypeOK
<1>1. SingleFlight' /\ PinIsPinned'
  BY DEF StartRequest, ThrowReason, slot, SingleFlight, PinIsPinned
<1>2. HoldsWhatItUses' /\ SettledWhenDone'
  BY DEF StartRequest, ThrowReason, Settle, GoOn, Result, NoAnswer, slot, HoldsWhatItUses,
     SettledWhenDone, Fresh, Holding, Calls
<1>3. BlamedPinGone'
  BY DEF StartRequest, ThrowReason, Settle, GoOn, Result, NoAnswer, slot, BlamedPinGone,
     Blames, SettledWhenDone
<1>4. ExecutedOf'
  BY DEF StartRequest, ThrowReason, Settle, GoOn, Result, NoAnswer, slot, ExecutedOf,
     HoldsWhatItUses, SettledWhenDone, Holding, Calls
<1>5. AnsweredByPinnedNode'
  BY DEF StartRequest, ThrowReason, Settle, GoOn, Result, NoAnswer, slot,
     AnsweredByPinnedNode, SettledWhenDone, Calls
<1>6. QED
  BY <1>1, <1>2, <1>3, <1>4, <1>5 DEF Inductive

LEMMA AcquireAbortedInductive ==
  ASSUME Inductive, NEW c \in Calls, pc[c] \in Fresh, Acquire(c), AcquireAborted(c), TypeOK'
  PROVE  Inductive'
<1> USE CallsAssumption DEF Inductive, TypeOK
<1>1. SingleFlight' /\ PinIsPinned'
  BY DEF Acquire, AcquireAborted, ThrowReason, slot, SingleFlight, PinIsPinned
<1>2. HoldsWhatItUses' /\ SettledWhenDone'
  BY DEF Acquire, AcquireAborted, ThrowReason, Settle, GoOn, Result, NoAnswer, slot,
     HoldsWhatItUses, SettledWhenDone, Fresh, Holding, Calls
<1>3. BlamedPinGone'
  BY DEF Acquire, AcquireAborted, ThrowReason, Settle, GoOn, Result, NoAnswer, slot,
     BlamedPinGone, Blames, SettledWhenDone
<1>4. ExecutedOf'
  BY DEF Acquire, AcquireAborted, ThrowReason, Settle, GoOn, Result, NoAnswer, slot,
     ExecutedOf, HoldsWhatItUses, SettledWhenDone, Holding, Calls
<1>5. AnsweredByPinnedNode'
  BY DEF Acquire, AcquireAborted, ThrowReason, Settle, GoOn, Result, NoAnswer, slot,
     AnsweredByPinnedNode, SettledWhenDone, Calls
<1>6. QED
  BY <1>1, <1>2, <1>3, <1>4, <1>5 DEF Inductive

LEMMA EncodeFailsInductive ==
  ASSUME Inductive, NEW c \in Calls, EncodeFails(c), TypeOK'
  PROVE  Inductive'
<1> USE CallsAssumption DEF Inductive, TypeOK
<1>1. SingleFlight' /\ PinIsPinned'
  BY DEF EncodeFails, ThrowUnsent, slot, SingleFlight, PinIsPinned
<1>2. HoldsWhatItUses' /\ SettledWhenDone'
  BY DEF EncodeFails, ThrowUnsent, Settle, GoOn, Result, NoAnswer, slot, HoldsWhatItUses,
     SettledWhenDone, Fresh, Holding, Calls
<1>3. BlamedPinGone'
  BY DEF EncodeFails, ThrowUnsent, Settle, GoOn, Result, NoAnswer, slot, BlamedPinGone,
     Blames, SettledWhenDone
<1>4. ExecutedOf'
  BY DEF EncodeFails, ThrowUnsent, Settle, GoOn, Result, NoAnswer, slot, ExecutedOf,
     HoldsWhatItUses, SettledWhenDone, Holding, Calls
<1>5. AnsweredByPinnedNode'
  BY DEF EncodeFails, ThrowUnsent, Settle, GoOn, Result, NoAnswer, slot,
     AnsweredByPinnedNode, SettledWhenDone, Calls
<1>6. QED
  BY <1>1, <1>2, <1>3, <1>4, <1>5 DEF Inductive

LEMMA SealInductive ==
  ASSUME Inductive, NEW c \in Calls, Seal(c), TypeOK'
  PROVE  Inductive'
<1> USE CallsAssumption DEF Inductive, TypeOK
<1>1. SingleFlight' /\ PinIsPinned'
  BY DEF Seal, ThrowReason, slot, SingleFlight, PinIsPinned
<1>2. HoldsWhatItUses' /\ SettledWhenDone'
  BY DEF Seal, ThrowReason, Settle, GoOn, Result, NoAnswer, slot, HoldsWhatItUses,
     SettledWhenDone, Fresh, Holding, Calls
<1>3. BlamedPinGone'
  BY DEF Seal, ThrowReason, Settle, GoOn, Result, NoAnswer, slot, BlamedPinGone, Blames,
     SettledWhenDone
<1>4. ExecutedOf'
  BY DEF Seal, ThrowReason, Settle, GoOn, Result, NoAnswer, slot, ExecutedOf,
     HoldsWhatItUses, SettledWhenDone, Holding, Calls
<1>5. AnsweredByPinnedNode'
  BY DEF Seal, ThrowReason, Settle, GoOn, Result, NoAnswer, slot, AnsweredByPinnedNode,
     SettledWhenDone, Calls
<1>6. QED
  BY <1>1, <1>2, <1>3, <1>4, <1>5 DEF Inductive

LEMMA SealFailsInductive ==
  ASSUME Inductive, NEW c \in Calls, SealFails(c), TypeOK'
  PROVE  Inductive'
<1> USE CallsAssumption DEF Inductive, TypeOK
<1>1. SingleFlight' /\ PinIsPinned'
  BY DEF SealFails, ThrowUnsent, slot, SingleFlight, PinIsPinned
<1>2. HoldsWhatItUses' /\ SettledWhenDone'
  BY DEF SealFails, ThrowUnsent, Settle, GoOn, Result, NoAnswer, slot, HoldsWhatItUses,
     SettledWhenDone, Fresh, Holding, Calls
<1>3. BlamedPinGone'
  BY DEF SealFails, ThrowUnsent, Settle, GoOn, Result, NoAnswer, slot, BlamedPinGone,
     Blames, SettledWhenDone
<1>4. ExecutedOf'
  BY DEF SealFails, ThrowUnsent, Settle, GoOn, Result, NoAnswer, slot, ExecutedOf,
     HoldsWhatItUses, SettledWhenDone, Holding, Calls
<1>5. AnsweredByPinnedNode'
  BY DEF SealFails, ThrowUnsent, Settle, GoOn, Result, NoAnswer, slot, AnsweredByPinnedNode,
     SettledWhenDone, Calls
<1>6. QED
  BY <1>1, <1>2, <1>3, <1>4, <1>5 DEF Inductive

LEMMA TransportFailsInductive ==
  ASSUME Inductive, NEW c \in Calls, TransportFails(c), TypeOK'
  PROVE  Inductive'
<1> USE CallsAssumption DEF Inductive, TypeOK
<1>1. SingleFlight' /\ PinIsPinned'
  BY DEF TransportFails, slot, SingleFlight, PinIsPinned
<1>2. HoldsWhatItUses' /\ SettledWhenDone'
  BY DEF TransportFails, Settle, GoOn, Result, NoAnswer, slot, HoldsWhatItUses,
     SettledWhenDone, Fresh, Holding, Calls
<1>3. BlamedPinGone'
  BY DEF TransportFails, Settle, GoOn, Result, NoAnswer, slot, BlamedPinGone, Blames,
     SettledWhenDone
<1>4. ExecutedOf'
  BY DEF TransportFails, Settle, GoOn, Result, NoAnswer, slot, ExecutedOf, HoldsWhatItUses,
     SettledWhenDone, Holding, Calls
<1>5. AnsweredByPinnedNode'
  BY DEF TransportFails, Settle, GoOn, Result, NoAnswer, slot, AnsweredByPinnedNode,
     SettledWhenDone, Calls
<1>6. QED
  BY <1>1, <1>2, <1>3, <1>4, <1>5 DEF Inductive

LEMMA ReceiveInductive ==
  ASSUME Inductive, NEW c \in Calls, Receive(c), TypeOK'
  PROVE  Inductive'
<1> USE CallsAssumption DEF Inductive, TypeOK
<1>1. SingleFlight' /\ PinIsPinned'
  BY DEF Receive, slot, SingleFlight, PinIsPinned
<1>2. HoldsWhatItUses' /\ SettledWhenDone'
  BY DEF Receive, slot, HoldsWhatItUses, SettledWhenDone, Fresh, Holding, Calls
<1>3. BlamedPinGone'
  BY DEF Receive, slot, BlamedPinGone, Blames, SettledWhenDone
<1>4. ExecutedOf'
  BY DEF Receive, slot, ExecutedOf, HoldsWhatItUses, SettledWhenDone, Holding, Calls
<1>5. AnsweredByPinnedNode'
  BY DEF Receive, slot, AnsweredByPinnedNode, SettledWhenDone, Calls
<1>6. QED
  BY <1>1, <1>2, <1>3, <1>4, <1>5 DEF Inductive

LEMMA AbortInductive ==
  ASSUME Inductive, NEW c \in Calls, Abort(c), TypeOK'
  PROVE  Inductive'
<1> USE CallsAssumption DEF Inductive, TypeOK
<1>1. SingleFlight' /\ PinIsPinned'
  BY DEF Abort, ThrowReason, slot, SingleFlight, PinIsPinned
<1>2. HoldsWhatItUses' /\ SettledWhenDone'
  BY DEF Abort, ThrowReason, Settle, GoOn, Result, NoAnswer, slot, HoldsWhatItUses,
     SettledWhenDone, Fresh, Holding, Calls
<1>3. BlamedPinGone'
  BY DEF Abort, ThrowReason, Settle, GoOn, Result, NoAnswer, slot, BlamedPinGone, Blames,
     SettledWhenDone
<1>4. ExecutedOf'
  BY DEF Abort, ThrowReason, Settle, GoOn, Result, NoAnswer, slot, ExecutedOf,
     HoldsWhatItUses, SettledWhenDone, Holding, Calls
<1>5. AnsweredByPinnedNode'
  BY DEF Abort, ThrowReason, Settle, GoOn, Result, NoAnswer, slot, AnsweredByPinnedNode,
     SettledWhenDone, Calls
<1>6. QED
  BY <1>1, <1>2, <1>3, <1>4, <1>5 DEF Inductive

LEMMA StepInductive == Inductive /\ [Next]_vars => Inductive'
<1> SUFFICES ASSUME Inductive, [Next]_vars PROVE Inductive'
  OBVIOUS
<1>1. TypeOK'
  BY StepTypes DEF Inductive
<1>2. ASSUME NEW c \in Calls, pc[c] \in Fresh, Acquire(c) PROVE Inductive'
  BY <1>1, <1>2, AcquireAbortedInductive, AcquireCurrentInductive, AcquireFlightInductive
  DEF Acquire
<1>3. CASE FlightSettles
  BY <1>1, <1>3, FlightResolvesInductive, FlightRejectsInductive DEF FlightSettles
<1>4. CASE ClockMoves
  BY <1>1, <1>4
  DEF ClockMoves, slot, calls, Inductive, SingleFlight, PinIsPinned, HoldsWhatItUses,
      SettledWhenDone, BlamedPinGone, Blames, ExecutedOf, AnsweredByPinnedNode
<1>5. ASSUME NEW c \in Calls, StartRequest(c) PROVE Inductive'
  BY <1>1, <1>5, StartRequestInductive
<1>6. ASSUME NEW c \in Calls, StartReady(c) PROVE Inductive'
  BY <1>2, <1>6 DEF StartReady, Fresh
<1>7. ASSUME NEW c \in Calls, Works(c) PROVE Inductive'
  BY <1>1, <1>2, <1>7, EncodeFailsInductive, SealInductive, SealFailsInductive, CheckInductive
  DEF Works, Encode, Fresh
<1>8. ASSUME NEW c \in Calls, TransportFails(c) \/ Receive(c) \/ Abort(c) PROVE Inductive'
  BY <1>1, <1>8, TransportFailsInductive, ReceiveInductive, AbortInductive
<1>9. CASE UNCHANGED vars
  BY <1>1, <1>9
  DEF vars, Inductive, SingleFlight, PinIsPinned, HoldsWhatItUses,
      SettledWhenDone, BlamedPinGone, Blames, ExecutedOf, AnsweredByPinnedNode
<1>10. QED
  BY <1>3, <1>4, <1>5, <1>6, <1>7, <1>8, <1>9 DEF Next

LEMMA InductiveHolds == Spec => []Inductive
<1>1. Init => Inductive
  BY InitInductive
<1>2. Inductive /\ [Next]_vars => Inductive'
  BY StepInductive
<1>3. QED
  BY <1>1, <1>2, PTL DEF Spec

-----------------------------------------------------------------------------
(* The theorems *)

\* At most one attestation is pending, and it is the one in the slot.
THEOREM OneFlight == Spec => []SingleFlight
<1>1. Inductive => SingleFlight
  BY DEF Inductive
<1>2. QED
  BY <1>1, InductiveHolds, PTL

\* A pin blamed by an answer is never in the slot again.
THEOREM BlameIsFinal == Spec => []BlamedPinGone
<1>1. Inductive => BlamedPinGone
  BY DEF Inductive
<1>2. QED
  BY <1>1, InductiveHolds, PTL

\* An answer that is returned was signed by the node the request was sealed to.
THEOREM AnswersAreGenuine == Spec => []AnsweredByPinnedNode
<1>1. Inductive => AnsweredByPinnedNode
  BY DEF Inductive
<1>2. QED
  BY <1>1, InductiveHolds, PTL

\* What executed tells the callers of request() is true.
THEOREM ExecutedIsTrue == Spec => []ExecutedTruthful
<1>1. Inductive => ExecutedTruthful
  <2> SUFFICES ASSUME Inductive, NEW c \in Requests,
                      outcome[c].kind \notin {"none", "ok", "aborted"}
               PROVE  Executed(c) = "no" <=> ~sent[c] \/ outcome[c].kind = "RequestRejected"
    BY DEF ExecutedTruthful
  <2>1. CASE outcome[c].executed = "shared"
    BY <2>1 DEF Inductive, ExecutedOf, Executed
  <2>2. CASE outcome[c].executed # "shared"
    BY <2>2 DEF Inductive, ExecutedOf, Executed
  <2>3. QED
    BY <2>1, <2>2
<1>2. QED
  BY <1>1, InductiveHolds, PTL

LEMMA UsesChange ==
  ASSUME [Next]_vars, NEW c \in Calls, uses'[c] # uses[c], TypeOK
  PROVE  pc[c] \in Fresh /\ (AcquireCurrent(c) \/ AcquireFlight(c))
<1>1. CASE \E d \in Calls : StartReady(d) \/ Encode(d)
  BY <1>1 DEF StartReady, Encode, Acquire, AcquireAborted, AcquireCurrent, AcquireFlight, Join,
              Fresh, TypeOK
<1>2. CASE ~ \E d \in Calls : StartReady(d) \/ Encode(d)
  <2>1. UNCHANGED uses
    BY <1>2
    DEF Next, vars, FlightSettles, FlightResolves, FlightRejects, ClockMoves, calls,
        StartRequest, Works, EncodeFails, Seal, SealFails, Check, TransportFails, Receive, Abort
  <2>2. QED
    BY <2>1
<1>3. QED
  BY <1>1, <1>2

\* No call is handed a pin that an earlier answer blamed.
THEOREM BlamedPinIsNotReused == Spec => NoNewUseOfBlamedPin
<1>1. Inductive /\ [Next]_vars
        => [\A c, d \in Calls : uses'[c] # uses[c] => ~Blames(d, uses'[c])]_vars
  <2> SUFFICES ASSUME Inductive, [Next]_vars, NEW c \in Calls, NEW d \in Calls,
                      uses'[c] # uses[c], Blames(d, uses'[c])
               PROVE  FALSE
    OBVIOUS
  <2> USE CallsAssumption DEF Inductive, TypeOK
  <2>1. pc[c] \in Fresh /\ (AcquireCurrent(c) \/ AcquireFlight(c))
    BY UsesChange
  <2>2. attestation[uses'[c]].state = "pinned"
    BY DEF Blames, HoldsWhatItUses
  <2>3. CASE AcquireCurrent(c)
    BY <2>3 DEF AcquireCurrent, Current, BlamedPinGone
  <2>4. CASE AcquireFlight(c)
    BY <2>1, <2>2, <2>4 DEF AcquireFlight, Join, SingleFlight, HoldsWhatItUses
  <2>5. QED
    BY <2>1, <2>3, <2>4
<1>2. QED
  BY <1>1, InductiveHolds, PTL DEF Spec, NoNewUseOfBlamedPin

\* Only a failure that blames the very pin in the slot empties the slot.
THEOREM OnlyBlameDrops == Spec => OnlyBlameDropsPin
<1>1. Inductive /\ [Next]_vars
        => [\A p \in Calls : pin = p /\ pin' = None =>
              \E c \in Requests : outcome'[c] # outcome[c] /\ Blames(c, p)']_vars
  <2> SUFFICES ASSUME Inductive, [Next]_vars, NEW p \in Calls, pin = p, pin' = None
               PROVE  \E c \in Requests : outcome'[c] # outcome[c] /\ Blames(c, p)'
    OBVIOUS
  <2> USE CallsAssumption DEF Inductive, TypeOK
  <2>1. PICK c \in Calls : Check(c)
    BY DEF Next, vars, FlightSettles, FlightResolves, FlightRejects, ClockMoves, slot,
           StartRequest, StartReady, Works, Encode, EncodeFails, Acquire, AcquireAborted,
           AcquireCurrent, AcquireFlight, Seal, SealFails, TransportFails, Receive, Abort
  <2>2. PICK kind \in Verdicts(c, answer[c]) \cup {"InternalError"} :
          /\ Settle(c, [Result(kind, ExecutedBy(kind)) EXCEPT
                          !.answer = IF kind \in {"ok", "RequestRejected"}
                                     THEN answer[c] ELSE NoAnswer])
          /\ IF kind # "ok" /\ EvictsPin(kind, answer[c])
             THEN Evict(uses[c]) ELSE UNCHANGED pin
    BY <2>1 DEF Check
  <2>3. kind # "ok" /\ EvictsPin(kind, answer[c]) /\ uses[c] = p
    BY <2>2 DEF Evict
  <2>4. c \in Requests /\ sent[c] /\ outcome[c].kind = "none"
    BY <2>1 DEF Check, HoldsWhatItUses, Holding, SettledWhenDone
  <2>5. kind \notin {"none", "aborted"}
    BY <2>2 DEF Verdicts, Opened
  <2>6. /\ outcome'[c].kind = kind
        /\ outcome'[c].answer.class # "busy"
    BY <2>2, <2>3 DEF Settle, Result, NoAnswer, EvictsPin
  <2>7. UNCHANGED <<sent, uses>>
    BY <2>1 DEF Check
  <2>8. QED
    BY <2>3, <2>4, <2>5, <2>6, <2>7 DEF Blames, EvictsPin
<1>2. QED
  BY <1>1, InductiveHolds, PTL DEF Spec, OnlyBlameDropsPin

\* A flight ends only by settling, and takes all its waiters with it.
THEOREM FlightOutlivesAborts == Spec => FlightEndsByItself
<1>1. Inductive /\ [Next]_vars
        => [flight # None /\ flight' # flight =>
              /\ flight' = None
              /\ attestation'[flight].state \in {"pinned", "failed"}
              /\ \A c \in Calls : uses[c] = flight => pc'[c] # "waiting"]_vars
  <2> SUFFICES ASSUME Inductive, [Next]_vars, flight # None, flight' # flight
               PROVE  /\ flight' = None
                      /\ attestation'[flight].state \in {"pinned", "failed"}
                      /\ \A c \in Calls : uses[c] = flight => pc'[c] # "waiting"
    OBVIOUS
  <2> USE CallsAssumption DEF Inductive, TypeOK
  <2>1. FlightSettles
    BY DEF Next, vars, ClockMoves, slot, StartRequest, StartReady, Works, Encode, EncodeFails,
           Acquire, AcquireAborted, AcquireCurrent, AcquireFlight, Join, Seal, SealFails, Check,
           TransportFails, Receive, Abort
  <2>2. ASSUME NEW n \in Nodes, FlightResolves(n)
        PROVE  /\ flight' = None
               /\ attestation'[flight].state \in {"pinned", "failed"}
               /\ \A c \in Calls : uses[c] = flight => pc'[c] # "waiting"
    BY <2>2 DEF FlightResolves, Pinned, Waiters, Resumed
  <2>3. ASSUME NEW kind \in {"AttestationUnavailable", "AttestationFailed", "raw"},
               FlightRejects(kind)
        PROVE  /\ flight' = None
               /\ attestation'[flight].state \in {"pinned", "failed"}
               /\ \A c \in Calls : uses[c] = flight => pc'[c] # "waiting"
    BY <2>3 DEF FlightRejects, Failed, Waiters
  <2>4. QED
    BY <2>1, <2>2, <2>3 DEF FlightSettles
<1>2. QED
  BY <1>1, InductiveHolds, PTL DEF Spec, FlightEndsByItself

-----------------------------------------------------------------------------
(* The client implements SealedCall *)

\* The abstract variables, as Promise maps them.
Stage == [c \in Requests |->
            CASE pc[c] = "done"                  -> "settled"
              [] pc[c] \in {"sent", "checking"} -> "onwire"
              [] OTHER                           -> "open"]
SealedTo == [c \in Requests |-> IF sent[c] THEN attestation[uses[c]].node ELSE None]
Verdict == [c \in Requests |->
              CASE outcome[c].kind \in {"none", "aborted"} -> outcome[c].kind
                [] outcome[c].kind = "ok"                  -> "answered"
                [] OTHER -> IF Executed(c) = "no" THEN "norun" ELSE "unknown"]
AnsweredBy == [c \in Requests |->
                 IF outcome[c].kind = "ok" THEN outcome[c].answer.signer ELSE None]
abstract == <<Stage, SealedTo, Verdict, AnsweredBy>>

\* An attestation that was pinned or failed stays as it is.
LEMMA SettledAttestation ==
  ASSUME Inductive, [Next]_vars, NEW f \in Calls, attestation[f].state \in {"pinned", "failed"}
  PROVE  attestation'[f] = attestation[f]
<1> USE CallsAssumption DEF Inductive, TypeOK
<1>1. CASE FlightSettles
  BY <1>1 DEF FlightSettles, FlightResolves, FlightRejects, SingleFlight
<1>2. ASSUME NEW c \in Calls, StartReady(c) \/ Encode(c)
      PROVE  attestation'[f] = attestation[f]
  BY <1>2 DEF StartReady, Encode, Acquire, AcquireAborted, AcquireCurrent, AcquireFlight, slot,
              HoldsWhatItUses, Fresh
<1>3. ASSUME NEW c \in Calls,
             \/ StartRequest(c) \/ EncodeFails(c) \/ Seal(c) \/ SealFails(c)
             \/ Check(c) \/ TransportFails(c) \/ Receive(c) \/ Abort(c)
      PROVE  attestation'[f] = attestation[f]
  BY <1>3 DEF StartRequest, EncodeFails, Seal, SealFails, Check, TransportFails, Receive, Abort, slot
<1>4. CASE ClockMoves \/ UNCHANGED vars
  BY <1>4 DEF ClockMoves, vars, slot
<1>5. QED
  BY <1>1, <1>2, <1>3, <1>4 DEF Next, Works

\* Calls are handed unexpired pins, and leave them as they are.
THEOREM UseDoesNotExtend == Spec => UseNeverExtends
<1>1. Inductive /\ [Next]_vars
        => [/\ \A c \in Calls :
                 uses'[c] # uses[c] /\ pc'[c] # "waiting" => now < attestation[uses'[c]].expiresAt
            /\ \A p \in Calls :
                 attestation[p].state = "pinned" => attestation'[p] = attestation[p]]_vars
  <2> SUFFICES ASSUME Inductive, [Next]_vars
               PROVE  /\ \A c \in Calls : uses'[c] # uses[c] /\ pc'[c] # "waiting"
                            => now < attestation[uses'[c]].expiresAt
                      /\ \A p \in Calls :
                            attestation[p].state = "pinned" => attestation'[p] = attestation[p]
    OBVIOUS
  <2>1. ASSUME NEW c \in Calls, uses'[c] # uses[c], pc'[c] # "waiting"
        PROVE  now < attestation[uses'[c]].expiresAt
    <3>1. AcquireCurrent(c) \/ AcquireFlight(c)
      BY <2>1, UsesChange DEF Inductive
    <3>2. CASE AcquireCurrent(c)
      BY <3>2 DEF AcquireCurrent, Current, Inductive, TypeOK
    <3>3. CASE AcquireFlight(c)
      BY <2>1, <3>3 DEF AcquireFlight, Join, GoOn, Inductive, TypeOK
    <3>4. QED
      BY <3>1, <3>2, <3>3
  <2>2. ASSUME NEW p \in Calls, attestation[p].state = "pinned"
        PROVE  attestation'[p] = attestation[p]
    BY <2>2, SettledAttestation
  <2>3. QED
    BY <2>1, <2>2
<1>2. QED
  BY <1>1, InductiveHolds, PTL DEF Spec, UseNeverExtends

\* What a step does to a call it does not concern: nothing the promise sees.
LEMMA Bystander ==
  ASSUME Inductive, [Next]_vars, NEW d \in Requests,
         UNCHANGED <<sent[d], outcome[d]>>,
         sent[d] => UNCHANGED uses[d],
         outcome[d].executed = "shared" => UNCHANGED uses[d],
         \/ UNCHANGED pc[d]
         \/ pc[d] \notin {"sent", "checking", "done"} /\ pc'[d] \notin {"sent", "checking", "done"}
         \/ pc[d] = "sent" /\ pc'[d] = "checking"
  PROVE  UNCHANGED <<Stage[d], SealedTo[d], Verdict[d], AnsweredBy[d]>>
<1>1. UNCHANGED Stage[d]
  BY DEF Stage
<1>2. UNCHANGED SealedTo[d]
  <2>1. CASE sent[d]
    <3>1. uses[d] \in Calls /\ attestation[uses[d]].state = "pinned"
      BY <2>1 DEF Inductive, HoldsWhatItUses, Calls
    <3>2. attestation'[uses[d]] = attestation[uses[d]]
      BY <3>1, SettledAttestation
    <3>3. QED
      BY <2>1, <3>2 DEF SealedTo
  <2>2. CASE ~sent[d]
    BY <2>2 DEF SealedTo
  <2>3. QED
    BY <2>1, <2>2
<1>3. UNCHANGED Executed(d)
  <2>1. CASE outcome[d].executed = "shared"
    <3>1. uses[d] \in Calls /\ attestation[uses[d]].state = "failed"
      BY <2>1 DEF Inductive, ExecutedOf
    <3>2. attestation'[uses[d]] = attestation[uses[d]]
      BY <3>1, SettledAttestation
    <3>3. QED
      BY <2>1, <3>2 DEF Executed
  <2>2. CASE outcome[d].executed # "shared"
    BY <2>2 DEF Executed
  <2>3. QED
    BY <2>1, <2>2
<1>4. UNCHANGED Verdict[d] /\ UNCHANGED AnsweredBy[d]
  BY <1>3 DEF Verdict, AnsweredBy
<1>5. QED
  BY <1>1, <1>2, <1>4

Same(d) == UNCHANGED <<pc[d], uses[d], sent[d], outcome[d]>>

\* A step of one call is invisible in the others.
LEMMA Others ==
  ASSUME Inductive, [Next]_vars, NEW c \in Calls, \A d \in Calls \ {c} : Same(d)
  PROVE  \A d \in Requests \ {c} :
            UNCHANGED <<Stage[d], SealedTo[d], Verdict[d], AnsweredBy[d]>>
  BY Bystander DEF Same, Calls

\* A step that changes nothing the promise sees is a stuttering step.
LEMMA Stutter ==
  ASSUME \A d \in Requests : UNCHANGED <<Stage[d], SealedTo[d], Verdict[d], AnsweredBy[d]>>
  PROVE  UNCHANGED abstract
<1>1. Stage' = Stage
  BY DEF Stage
<1>2. SealedTo' = SealedTo
  BY DEF SealedTo
<1>3. Verdict' = Verdict
  BY DEF Verdict
<1>4. AnsweredBy' = AnsweredBy
  BY DEF AnsweredBy
<1>5. QED
  BY <1>1, <1>2, <1>3, <1>4 DEF abstract

\* A call that settles maps to Settle, and leaves what it was sealed to.
LEMMA SettleMaps ==
  ASSUME Inductive, [Next]_vars, NEW c \in Requests, NEW result, Settle(c, result),
         outcome[c].kind = "none", \A d \in Calls \ {c} : Same(d), UNCHANGED <<uses[c], sent[c]>>,
         NEW v, Verdict'[c] = v
  PROVE  /\ Promise!Settle({c}, v)
         /\ result.kind # "ok" => UNCHANGED AnsweredBy
<1> USE CallsAssumption DEF Inductive, TypeOK, Calls
<1>1. \A d \in Requests \ {c} :
        UNCHANGED <<Stage[d], SealedTo[d], Verdict[d], AnsweredBy[d]>>
  BY Others
<1>2. Stage' = [d \in Requests |-> IF d \in {c} THEN "settled" ELSE Stage[d]]
  BY <1>1 DEF Settle, Stage
<1>3. Verdict' = [d \in Requests |-> IF d \in {c} THEN v ELSE Verdict[d]]
  BY <1>1 DEF Verdict
<1>4. UNCHANGED SealedTo
  <2>1. UNCHANGED SealedTo[c]
    <3>1. CASE sent[c]
      <4>1. uses[c] \in Calls /\ attestation[uses[c]].state = "pinned"
        BY <3>1 DEF HoldsWhatItUses
      <4>2. attestation'[uses[c]] = attestation[uses[c]]
        BY <4>1, SettledAttestation
      <4>3. QED
        BY <4>2 DEF SealedTo
    <3>2. CASE ~sent[c]
      BY <3>2 DEF SealedTo
    <3>3. QED
      BY <3>1, <3>2
  <2>2. QED
    BY <1>1, <2>1 DEF SealedTo
<1>5. ASSUME result.kind # "ok" PROVE UNCHANGED AnsweredBy
  BY <1>1, <1>5 DEF AnsweredBy, Settle
<1>6. QED
  BY <1>2, <1>3, <1>4, <1>5 DEF Promise!Settle, Stage, SealedTo, Verdict

LEMMA StepKeepsPromise ==
  ASSUME Inductive, [Next]_vars
  PROVE  Promise!Next \/ UNCHANGED abstract
<1> USE CallsAssumption DEF TypeOK, Calls
<1>0. TypeOK
  BY DEF Inductive
\* A failure before the send.
<1>1. ASSUME NEW c \in Requests, NEW kind, ThrowUnsent(c, kind),
             kind \notin {"none", "ok", "aborted"}, outcome[c].kind = "none",
             pc[c] \notin {"sent", "checking", "done"},
             \A d \in Calls \ {c} : Same(d), UNCHANGED <<uses[c], sent[c]>>
      PROVE  Promise!Next
  <2>1. Verdict'[c] = "norun"
    BY <1>0, <1>1 DEF ThrowUnsent, Settle, Result, Verdict, Executed
  <2> DEFINE result == Result(kind, "no")
  <2>2. Settle(c, result) /\ result.kind # "ok"
    BY <1>1 DEF ThrowUnsent, Result
  <2> HIDE DEF result
  <2>3. Promise!Settle({c}, "norun") /\ UNCHANGED AnsweredBy
    BY <1>1, <2>1, <2>2, SettleMaps
  <2>4. Stage[c] = "open"
    BY <1>1 DEF Stage
  <2>5. QED
    BY <2>3, <2>4 DEF Promise!Next, Promise!FailUnsent, Stage, AnsweredBy
\* The end of an aborted call.
<1>2. ASSUME NEW c \in Requests, ThrowReason(c), outcome[c].kind = "none", pc[c] # "done",
             \A d \in Calls \ {c} : Same(d), UNCHANGED <<uses[c], sent[c]>>
      PROVE  Promise!Next
  <2>1. Verdict'[c] = "aborted"
    BY <1>0, <1>2 DEF ThrowReason, Settle, Result, Verdict, Executed
  <2> DEFINE result == Result("aborted", "none")
  <2>2. Settle(c, result) /\ result.kind # "ok"
    BY <1>2 DEF ThrowReason, Result
  <2> HIDE DEF result
  <2>3. Promise!Settle({c}, "aborted") /\ UNCHANGED AnsweredBy
    BY <1>2, <2>1, <2>2, SettleMaps
  <2>4. Stage[c] # "settled"
    BY <1>2 DEF Stage
  <2>5. QED
    BY <2>3, <2>4 DEF Promise!Next, Promise!Abort, Stage, AnsweredBy
\* A failure after the send.
<1>3. ASSUME NEW c \in Requests, NEW result, Settle(c, result),
             result.kind \notin {"none", "ok", "aborted"}, result.executed # "shared",
             outcome[c].kind = "none", pc[c] \in {"sent", "checking"},
             \A d \in Calls \ {c} : Same(d), UNCHANGED <<uses[c], sent[c]>>
      PROVE  Promise!Next
  <2>1. Verdict'[c] \in {"norun", "unknown"}
    BY <1>0, <1>3 DEF Settle, Verdict, Executed
  <2>2. PICK v \in {"norun", "unknown"} : Verdict'[c] = v
    BY <2>1
  <2>3. Promise!Settle({c}, v) /\ UNCHANGED AnsweredBy
    BY <1>3, <2>2, SettleMaps
  <2>4. Stage[c] = "onwire"
    BY <1>3 DEF Stage
  <2>5. Promise!FailSent(c)
    BY <2>3, <2>4 DEF Promise!FailSent, Stage, AnsweredBy
  <2>6. QED
    BY <2>5 DEF Promise!Next
\* A step only of calls of ready(), or one the promise does not see.
<1>4. ASSUME NEW c \in Readies, \A d \in Calls \ {c} : Same(d) PROVE UNCHANGED abstract
  <2>1. \A d \in Requests : UNCHANGED <<Stage[d], SealedTo[d], Verdict[d], AnsweredBy[d]>>
    BY <1>4, Others DEF CallsAssumption
  <2>2. QED
    BY <2>1, Stutter
<1>5. ASSUME NEW c \in Calls, \A d \in Calls \ {c} : Same(d),
             UNCHANGED <<sent[c], outcome[c]>>,
             sent[c] => UNCHANGED uses[c],
             outcome[c].executed = "shared" => UNCHANGED uses[c],
             \/ UNCHANGED pc[c]
             \/ pc[c] \notin {"sent", "checking", "done"} /\ pc'[c] \notin {"sent", "checking", "done"}
             \/ pc[c] = "sent" /\ pc'[c] = "checking"
      PROVE  UNCHANGED abstract
  <2>1. \A d \in Requests : UNCHANGED <<Stage[d], SealedTo[d], Verdict[d], AnsweredBy[d]>>
    BY <1>5, Others, Bystander
  <2>2. QED
    BY <2>1, Stutter
\* A flight that resolves only moves its waiters on to the seal.
<1>6. ASSUME NEW n \in Nodes, FlightResolves(n) PROVE UNCHANGED abstract
  <2>1. ASSUME NEW d \in Requests
        PROVE  UNCHANGED <<Stage[d], SealedTo[d], Verdict[d], AnsweredBy[d]>>
    <3>1. UNCHANGED <<sent[d], outcome[d], uses[d]>>
      BY <1>0, <1>6 DEF FlightResolves
    <3>2. \/ UNCHANGED pc[d]
          \/ pc[d] = "waiting" /\ pc'[d] = "sealing"
      BY <1>0, <1>6 DEF FlightResolves, Waiters, Resumed
    <3>3. QED
      BY <3>1, <3>2, Bystander
  <2>2. QED
    BY <2>1, Stutter
\* A flight that rejects ends the requests that wait for it, unsent.
<1>7. ASSUME NEW kind \in {"AttestationUnavailable", "AttestationFailed", "raw"},
             FlightRejects(kind)
      PROVE  Promise!Next
  <2> DEFINE S == Waiters(flight) \cap Requests
  <2>1. ASSUME NEW d \in Requests \ S
        PROVE  UNCHANGED <<Stage[d], SealedTo[d], Verdict[d], AnsweredBy[d]>>
    <3>1. UNCHANGED <<sent[d], outcome[d], uses[d], pc[d]>>
      BY <1>0, <1>7, <2>1 DEF FlightRejects
    <3>2. QED
      BY <3>1, Bystander
  <2>2. ASSUME NEW d \in S
        PROVE  /\ Stage[d] = "open" /\ Stage'[d] = "settled"
               /\ Verdict'[d] = "norun"
               /\ UNCHANGED <<SealedTo[d], AnsweredBy[d]>>
    <3>1. d \in Requests /\ d \in Calls /\ pc[d] = "waiting" /\ uses[d] = flight
      BY <2>2 DEF Waiters
    <3>2. /\ pc'[d] = "done" /\ outcome'[d] = FlightFailure(d, kind)
          /\ UNCHANGED <<sent, uses>>
      BY <1>0, <1>7, <2>2, <3>1 DEF FlightRejects
    <3>3. ~sent[d] /\ outcome[d].kind = "none"
      BY <3>1 DEF Inductive, SettledWhenDone
    <3>4. outcome'[d].kind \notin {"none", "ok", "aborted"}
      BY <3>1, <3>2 DEF FlightFailure, Result
    <3>5. Executed(d)' = "no"
      <4>1. CASE kind = "raw"
        BY <3>1, <3>2, <4>1 DEF FlightFailure, Result, Executed
      <4>2. CASE kind # "raw"
        <5>1. outcome'[d].executed = "shared"
          BY <3>2, <4>2 DEF FlightFailure, Result
        <5>2. attestation'[flight].executed = "no"
          BY <1>0, <1>7, <2>2, <4>2 DEF FlightRejects, Failed
        <5>3. QED
          BY <3>1, <3>2, <5>1, <5>2 DEF Executed
      <4>3. QED
        BY <4>1, <4>2
    <3>6. Verdict'[d] = "norun"
      BY <3>1, <3>4, <3>5 DEF Verdict
    <3>7. QED
      BY <3>1, <3>2, <3>3, <3>4, <3>6 DEF Stage, SealedTo, AnsweredBy
  <2>3. Stage' = [d \in Requests |-> IF d \in S THEN "settled" ELSE Stage[d]]
    BY <2>1, <2>2 DEF Stage
  <2>4. Verdict' = [d \in Requests |-> IF d \in S THEN "norun" ELSE Verdict[d]]
    <3>1. Verdict' = [d \in Requests |-> Verdict'[d]]
      BY DEF Verdict
    <3>2. \A d \in Requests : Verdict'[d] = IF d \in S THEN "norun" ELSE Verdict[d]
      BY <2>1, <2>2
    <3> HIDE DEF S
    <3>3. QED
      BY <3>1, <3>2
  <2>5. UNCHANGED <<SealedTo, AnsweredBy>>
    <3>1. \A d \in Requests : UNCHANGED <<SealedTo[d], AnsweredBy[d]>>
      BY <2>1, <2>2
    <3>2. QED
      BY <3>1 DEF SealedTo, AnsweredBy
  <2>6. S \in SUBSET {d \in Requests : Stage[d] = "open"}
    BY <2>2
  <2> HIDE DEF S
  <2>7. Promise!Settle(S, "norun")
    BY <2>3, <2>4, <2>5 DEF Promise!Settle, Stage, SealedTo, Verdict
  <2>8. QED
    BY <2>5, <2>6, <2>7 DEF Promise!Next, Promise!FailUnsent, Stage, AnsweredBy
\* The send.
<1>8. ASSUME NEW c \in Calls, Seal(c) PROVE Promise!Next
  <2>1. /\ c \in Requests /\ ~sent[c] /\ outcome[c].kind = "none" /\ uses[c] \in Calls
        /\ attestation[uses[c]].state = "pinned" /\ attestation[uses[c]].node \in Nodes
    BY <1>8 DEF Seal, Inductive, HoldsWhatItUses, Holding, SettledWhenDone, PinIsPinned
  <2>2. \A d \in Calls \ {c} : Same(d)
    BY <1>0, <1>8 DEF Seal, Same, ThrowReason, Settle, GoOn, slot
  <2>3. CASE aborted[c]
    BY <1>2, <1>8, <2>1, <2>2, <2>3 DEF Seal
  <2>4. CASE ~aborted[c]
    <3>1. /\ sent'[c] = TRUE /\ pc'[c] = "sent"
          /\ UNCHANGED <<outcome, attestation, uses>>
      BY <1>0, <1>8, <2>4 DEF Seal, GoOn, slot
    <3>2. \A d \in Requests \ {c} :
            UNCHANGED <<Stage[d], SealedTo[d], Verdict[d], AnsweredBy[d]>>
      BY <2>2, Others
    <3>3. Stage[c] = "open" /\ Stage'[c] = "onwire" /\ SealedTo'[c] = attestation[uses[c]].node
      BY <1>8, <2>1, <3>1 DEF Seal, Stage, SealedTo
    <3>4. UNCHANGED <<Verdict, AnsweredBy>>
      BY <3>1 DEF Verdict, AnsweredBy, Executed
    <3>5. Stage' = [Stage EXCEPT ![c] = "onwire"]
      BY <2>1, <3>2, <3>3 DEF Stage
    <3>6. SealedTo' = [SealedTo EXCEPT ![c] = attestation[uses[c]].node]
      BY <2>1, <3>2, <3>3 DEF SealedTo
    <3>7. PICK n \in Nodes : n = attestation[uses[c]].node
      BY <2>1
    <3>8. Promise!Send(c, n)
      BY <3>3, <3>4, <3>5, <3>6, <3>7 DEF Promise!Send, Stage, SealedTo, Verdict, AnsweredBy
    <3>9. QED
      BY <2>1, <3>8 DEF Promise!Next
  <2>5. QED
    BY <2>3, <2>4
\* The answer.
<1>9. ASSUME NEW c \in Calls, Check(c) PROVE Promise!Next
  <2>1. /\ c \in Requests /\ sent[c] /\ outcome[c].kind = "none" /\ uses[c] \in Calls
        /\ attestation[uses[c]].state = "pinned" /\ pc[c] = "checking"
    BY <1>9 DEF Check, Inductive, HoldsWhatItUses, Holding, SettledWhenDone
  <2>2. \A d \in Calls \ {c} : Same(d)
    BY <1>0, <1>9 DEF Check, Same, Settle
  <2>3. UNCHANGED <<uses, sent, attestation>>
    BY <1>9 DEF Check
  <2>4. PICK kind \in Verdicts(c, answer[c]) \cup {"InternalError"} :
          Settle(c, [Result(kind, ExecutedBy(kind)) EXCEPT
                       !.answer = IF kind \in {"ok", "RequestRejected"}
                                  THEN answer[c] ELSE NoAnswer])
    BY <1>9 DEF Check
  <2> DEFINE result == [kind |-> kind, executed |-> ExecutedBy(kind),
                        answer |-> IF kind \in {"ok", "RequestRejected"}
                                   THEN answer[c] ELSE NoAnswer]
  <2>5. Settle(c, result)
    BY <2>4 DEF Result
  <2>6. result.kind \notin {"none", "aborted"} /\ result.executed # "shared"
    BY <2>4 DEF Verdicts, Opened, ExecutedBy
  <2>7. CASE kind = "ok"
    <3>1. answer[c].signer = attestation[uses[c]].node
      BY <2>4, <2>7 DEF Verdicts, Opened
    <3>2. /\ outcome'[c].kind = "ok" /\ outcome'[c].answer = answer[c]
      BY <1>0, <2>5, <2>7 DEF Settle
    <3>3. Verdict'[c] = "answered"
      BY <2>1, <3>2 DEF Verdict, Executed
    <3> HIDE DEF result
    <3>4. Promise!Settle({c}, "answered")
      BY <2>1, <2>2, <2>3, <2>5, <3>3, SettleMaps
    <3>5. AnsweredBy'[c] = SealedTo[c]
      BY <2>1, <3>1, <3>2 DEF AnsweredBy, SealedTo
    <3>6. \A d \in Requests \ {c} :
            UNCHANGED <<Stage[d], SealedTo[d], Verdict[d], AnsweredBy[d]>>
      BY <2>2, Others
    <3>7. AnsweredBy' = [AnsweredBy EXCEPT ![c] = SealedTo[c]]
      BY <2>1, <3>5, <3>6 DEF AnsweredBy
    <3>8. Stage[c] = "onwire"
      BY <2>1 DEF Stage
    <3>9. Promise!Answer(c)
      BY <3>4, <3>7, <3>8 DEF Promise!Answer, Stage, SealedTo, AnsweredBy
    <3>10. QED
      BY <2>1, <3>9 DEF Promise!Next
  <2>8. CASE kind # "ok"
    <3>1. result.kind \notin {"none", "ok", "aborted"}
      BY <2>6, <2>8
    <3> HIDE DEF result
    <3>2. QED
      BY <1>3, <2>1, <2>2, <2>3, <2>5, <2>6, <3>1
  <2>9. QED
    BY <2>7, <2>8
\* The other steps of one call.
<1>10. ASSUME NEW c \in Calls, StartRequest(c) \/ EncodeFails(c) \/ SealFails(c) \/ Abort(c)
       PROVE  Promise!Next \/ UNCHANGED abstract
  <2>1. \A d \in Calls \ {c} : Same(d)
    BY <1>0, <1>10 DEF StartRequest, EncodeFails, SealFails, Abort, Same, ThrowReason, ThrowUnsent,
                       Settle, GoOn, slot
  <2>2. UNCHANGED <<uses, sent>>
    BY <1>10 DEF StartRequest, EncodeFails, SealFails, Abort
  <2>3. CASE c \in Readies
    BY <1>4, <2>1, <2>3
  <2>4. CASE c \in Requests
    <3>1. pc[c] # "done" /\ outcome[c].kind = "none"
      BY <1>10 DEF StartRequest, EncodeFails, SealFails, Abort, Inductive, SettledWhenDone
    <3>2. CASE ThrowReason(c)
      BY <1>2, <2>1, <2>2, <2>4, <3>1, <3>2
    <3>3. CASE EncodeFails(c) \/ SealFails(c)
      BY <1>1, <2>1, <2>2, <2>4, <3>1, <3>3 DEF EncodeFails, SealFails
    <3>4. CASE (StartRequest(c) \/ Abort(c)) /\ ~ThrowReason(c)
      <4>1. UNCHANGED outcome
        BY <3>4 DEF StartRequest, Abort, GoOn
      <4>2. \/ UNCHANGED pc[c]
            \/ pc[c] = "idle" /\ pc'[c] = "encoding"
        BY <1>0, <3>4 DEF StartRequest, Abort, GoOn
      <4>3. QED
        BY <1>5, <2>1, <2>2, <4>1, <4>2
    <3>5. QED
      BY <1>10, <3>2, <3>3, <3>4
  <2>5. QED
    BY <2>3, <2>4
<1>11. ASSUME NEW c \in Calls, StartReady(c) \/ Encode(c)
       PROVE  Promise!Next \/ UNCHANGED abstract
  <2>1. \A d \in Calls \ {c} : Same(d)
    BY <1>0, <1>11 DEF StartReady, Encode, Acquire, AcquireAborted, AcquireCurrent, AcquireFlight,
                       Join, Same, ThrowReason, Return, Settle, GoOn, slot
  <2>2. CASE c \in Readies
    BY <1>4, <2>1, <2>2
  <2>3. CASE c \in Requests
    <3>1. pc[c] = "encoding" /\ Acquire(c)
      BY <1>11, <2>3 DEF StartReady, Encode
    <3>2. ~sent[c] /\ outcome[c].kind = "none" /\ outcome[c].executed # "shared"
      BY <2>3, <3>1 DEF Inductive, SettledWhenDone, ExecutedOf
    <3>3. CASE AcquireAborted(c)
      BY <1>2, <2>1, <2>3, <3>1, <3>2, <3>3 DEF AcquireAborted, Acquire
    <3>4. CASE AcquireCurrent(c) \/ AcquireFlight(c)
      <4>1. /\ pc'[c] \in {"sealing", "waiting"}
            /\ UNCHANGED <<outcome, sent>>
        BY <1>0, <2>3, <3>1, <3>4 DEF Acquire, AcquireCurrent, AcquireFlight, Join, GoOn
      <4>2. QED
        BY <1>5, <2>1, <3>1, <3>2, <4>1
    <3>5. QED
      BY <3>1, <3>3, <3>4 DEF Acquire
  <2>4. QED
    BY <2>2, <2>3
<1>12. ASSUME NEW c \in Calls, TransportFails(c) PROVE Promise!Next
  <2>1. c \in Requests /\ outcome[c].kind = "none" /\ pc[c] = "sent"
    BY <1>12 DEF TransportFails, Inductive, HoldsWhatItUses, Holding, SettledWhenDone
  <2>2. \A d \in Calls \ {c} : Same(d)
    BY <1>0, <1>12 DEF TransportFails, Same, Settle
  <2>3. UNCHANGED <<uses, sent>>
    BY <1>12 DEF TransportFails
  <2> DEFINE result == Result("TransportFailed", "unknown")
  <2>4. Settle(c, result) /\ result.kind \notin {"none", "ok", "aborted"}
        /\ result.executed # "shared"
    BY <1>12 DEF TransportFails, Result
  <2> HIDE DEF result
  <2>5. QED
    BY <1>3, <2>1, <2>2, <2>3, <2>4
<1>13. ASSUME NEW c \in Calls, Receive(c) PROVE UNCHANGED abstract
  <2>1. \A d \in Calls \ {c} : Same(d)
    BY <1>0, <1>13 DEF Receive, Same
  <2>2. UNCHANGED <<uses, sent, outcome>> /\ pc[c] = "sent" /\ pc'[c] = "checking"
    BY <1>0, <1>13 DEF Receive
  <2>3. QED
    BY <1>5, <2>1, <2>2
<1>14. CASE ClockMoves \/ UNCHANGED vars
  BY <1>14 DEF ClockMoves, vars, slot, calls, abstract, Stage, SealedTo, Verdict, AnsweredBy, Executed
<1>15. QED
  BY <1>6, <1>7, <1>8, <1>9, <1>10, <1>11, <1>12, <1>13, <1>14 DEF Next, FlightSettles, Works

\* The initial states are those of the promise.
LEMMA InitKeepsPromise == Init => Promise!Init
BY DEF Init, Promise!Init, Executed, Unsettled, Result, NotStarted, NoAnswer, CallsAssumption, Calls

\* Every behaviour of the client is one its callers were promised.
THEOREM ClientKeepsPromise == Spec => KeepsPromise
<1>1. Inductive /\ [Next]_vars => [Promise!Next]_(Promise!vars)
  BY StepKeepsPromise DEF abstract, Stage, SealedTo, Verdict, AnsweredBy, Promise!vars
<1>2. QED
  BY <1>1, InitKeepsPromise, InductiveHolds, PTL DEF Spec, KeepsPromise, Promise!Spec
=============================================================================
