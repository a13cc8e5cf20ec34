------------------------ MODULE ConfidentialProxyProofs ------------------------
(***************************************************************************)
(* Proofs about ConfidentialProxy for any set of requests and nodes.  The  *)
(* proxy's steps are steps of its client, so the client's inductive        *)
(* invariant, proved in ConfidentialClientProofs, holds of it as well.     *)
(***************************************************************************)
EXTENDS ConfidentialProxy, TLAPS

P == INSTANCE ConfidentialClientProofs WITH Readies <- {StartUp}

-----------------------------------------------------------------------------
(* The client in the proxy *)

LEMMA ClientAssumptions == P!CallsAssumption /\ P!TimeAssumption
  BY CallsAssumption, TimeAssumption DEF P!CallsAssumption, P!TimeAssumption, P!Calls

\* The client the proxy is composed of is the one the proofs are about.
LEMMA SameClient ==
  (C!Init <=> P!Init) /\ (C!Next <=> P!Next) /\ C!vars = P!vars /\ C!Calls = P!Calls
  BY DEF
      C!Init, P!Init, C!FlightSettles, P!FlightSettles, C!ClockMoves, P!ClockMoves,
      C!StartRequest, P!StartRequest, C!StartReady, P!StartReady, C!Works, P!Works,
      C!TransportFails, P!TransportFails, C!Receive, P!Receive, C!Abort, P!Abort, C!Calls,
      P!Calls, C!NotStarted, P!NotStarted, C!Pinned, P!Pinned, C!Failed, P!Failed,
      C!Unsealed, P!Unsealed, C!Signed, P!Signed, C!NoAnswer, P!NoAnswer, C!Result,
      P!Result, C!Unsettled, P!Unsettled, C!EvictsPin, P!EvictsPin, C!Settle, P!Settle,
      C!GoOn, P!GoOn, C!Return, P!Return, C!ThrowReason, P!ThrowReason, C!ThrowUnsent,
      P!ThrowUnsent, C!Current, P!Current, C!Evict, P!Evict, C!Resumed, P!Resumed,
      C!AcquireAborted, P!AcquireAborted, C!AcquireCurrent, P!AcquireCurrent, C!Join,
      P!Join, C!AcquireFlight, P!AcquireFlight, C!Acquire, P!Acquire, C!Waiters, P!Waiters,
      C!FlightResolves, P!FlightResolves, C!FlightFailure, P!FlightFailure, C!FlightRejects,
      P!FlightRejects, C!Encode, P!Encode, C!EncodeFails, P!EncodeFails, C!Seal, P!Seal,
      C!SealFails, P!SealFails, C!Opened, P!Opened, C!Verdicts, P!Verdicts, C!ExecutedBy,
      P!ExecutedBy, C!Check, P!Check, C!slot, P!slot, C!calls, P!calls, C!vars, P!vars,
      C!Next, P!Next

LEMMA ClientSteps == [Next]_vars => [C!Next]_(C!vars)
<1> SUFFICES ASSUME [Next]_vars PROVE [C!Next]_(C!vars)
  OBVIOUS
<1> DEFINE unchanged == UNCHANGED C!vars
<1>1. CASE Listen
  BY <1>1 DEF Listen, C!Next, C!Calls
<1>2. CASE AttestationSettles
  BY <1>2 DEF AttestationSettles, C!Next
<1>3. CASE ClockMoves
  BY <1>3 DEF ClockMoves, C!Next
<1>4. CASE Works(StartUp)
  BY <1>4 DEF Works, C!Next, C!Calls
<1>5. ASSUME NEW r \in Requests,
             \/ Handle(r) \/ Works(r) \/ UpstreamFails(r) \/ UpstreamAnswers(r)
      PROVE  C!Next
  <2>1. r \in C!Calls
    BY DEF C!Calls
  <2>2. C!StartRequest(r) \/ C!Works(r) \/ C!TransportFails(r) \/ C!Receive(r)
    BY <1>5 DEF Handle, Works, UpstreamFails, UpstreamAnswers
  <2>3. QED
    BY <2>1, <2>2 DEF C!Next
<1>6. ASSUME NEW r \in Requests, Begin(r) \/ \E status \in {413, 415} : Refuse(r, status)
      PROVE  unchanged
  BY <1>6 DEF Begin, Refuse, client, C!vars
<1>7. ASSUME NEW r \in Requests, Disconnect(r)
      PROVE  C!Next \/ unchanged
  BY <1>7 DEF Disconnect, client, C!vars, C!Next, C!Calls
<1>8. CASE UNCHANGED vars
  BY <1>8 DEF vars, C!vars
<1>9. QED
  BY <1>1, <1>2, <1>3, <1>4, <1>5, <1>6, <1>7, <1>8 DEF Next

\* The proxy drives its client only in ways that client allows: whatever is
\* proved of the client holds in the proxy.
THEOREM ProxyRunsTheClient == Spec => C!Spec
<1>1. Init => C!Init
  BY DEF Init
<1>2. QED
  BY <1>1, ClientSteps, PTL DEF Spec, C!Spec

-----------------------------------------------------------------------------
(* The inductive invariant *)

\* Where the handling of a request is says where its call is; a call whose
\* client is gone knows it until it settles, and the others do not.
HandlesItsCall ==
    \A r \in Requests :
        /\ stage[r] \in {"idle", "reading"} => pc[r] = "idle" /\ connected[r]
        /\ stage[r] = "working" => pc[r] \notin {"idle", "done"}
        /\ stage[r] = "over" => pc[r] \in {"idle", "done"}
        /\ reply[r].kind # "none" => stage[r] = "over"
        /\ connected[r] => ~aborted[r]
        /\ stage[r] = "working" /\ ~connected[r] => aborted[r]

\* The errors of a request that was sealed carry an executed field, those
\* before the send a "no".
ErrorsCarryExecuted ==
    \A r \in Requests :
        /\ outcome[r].kind \notin {"none", "ok", "aborted"} => outcome[r].executed # "none"
        /\ outcome[r].kind = "InvalidInnerRequest" => outcome[r].executed = "no"
        /\ outcome[r].kind = "AttestationUnavailable" => outcome[r].executed = "shared"

\* A call that is not aborted does not end as one that was.
AbortedWereAborted ==
    \A r \in Requests : connected[r] => outcome[r].kind # "aborted"

Inductive ==
    /\ TypeOK
    /\ P!Inductive
    /\ HandlesItsCall
    /\ ErrorsCarryExecuted
    /\ AbortedWereAborted
    /\ RelayedIsOwnAnswer
    /\ ErrorTellsExecution
    /\ EveryClientIsTold

-----------------------------------------------------------------------------
(* The client's steps *)

LEMMA ResultOf ==
  ASSUME NEW kind, NEW executed
  PROVE  C!Result(kind, executed).kind = kind /\ C!Result(kind, executed).executed = executed
  BY DEF C!Result

LEMMA SettleOf ==
  ASSUME P!Inductive, NEW c \in C!Calls, NEW result, C!Settle(c, result)
  PROVE  /\ pc'[c] = "done" /\ outcome'[c] = result /\ aborted'[c] = FALSE
         /\ \A d \in C!Calls \ {c} :
               pc'[d] = pc[d] /\ outcome'[d] = outcome[d] /\ aborted'[d] = aborted[d]
  BY SameClient DEF P!Inductive, P!TypeOK, C!Settle

LEMMA ThrowOf ==
  ASSUME P!Inductive, NEW c \in C!Calls, NEW kind, NEW executed,
         C!Settle(c, C!Result(kind, executed))
  PROVE  /\ pc'[c] = "done" /\ ~aborted'[c]
         /\ outcome'[c].kind = kind /\ outcome'[c].executed = executed
         /\ \A d \in C!Calls \ {c} :
               pc'[d] = pc[d] /\ outcome'[d] = outcome[d] /\ aborted'[d] = aborted[d]
<1> DEFINE result == C!Result(kind, executed)
<1>1. result.kind = kind /\ result.executed = executed
  BY ResultOf
<1> HIDE DEF result
<1>2. pc'[c] = "done" /\ outcome'[c] = result /\ aborted'[c] = FALSE
      /\ \A d \in C!Calls \ {c} :
            pc'[d] = pc[d] /\ outcome'[d] = outcome[d] /\ aborted'[d] = aborted[d]
  BY SettleOf DEF result
<1>3. QED
  BY <1>1, <1>2

LEMMA GoOnOf ==
  ASSUME P!Inductive, NEW c \in C!Calls, NEW place, C!GoOn(c, place)
  PROVE  /\ pc'[c] = place
         /\ outcome' = outcome /\ aborted' = aborted
         /\ \A d \in C!Calls \ {c} : pc'[d] = pc[d]
  BY SameClient DEF P!Inductive, P!TypeOK, C!GoOn

LEMMA AcquireOf ==
  ASSUME P!Inductive, NEW c \in C!Calls, C!Acquire(c)
  PROVE  /\ sent' = sent
         /\ \A d \in C!Calls \ {c} : /\ pc'[d] = pc[d] /\ outcome'[d] = outcome[d]
                                     /\ aborted'[d] = aborted[d] /\ uses'[d] = uses[d]
         /\ \/ outcome'[c] = outcome[c] /\ aborted'[c] = aborted[c]
            \/ aborted[c] /\ outcome'[c] = C!Result("aborted", "none")
            \/ c \notin Requests
         /\ pc'[c] # "idle" /\ (c \in Requests /\ pc'[c] = "done" => aborted[c])
<1>1. CASE C!AcquireAborted(c)
  BY <1>1, SettleOf, SameClient
     DEF C!Acquire, C!AcquireAborted, C!ThrowReason, P!Inductive, P!TypeOK
<1>2. CASE C!AcquireCurrent(c)
  <2>1. CASE c \in Requests
    BY <1>2, <2>1, GoOnOf, SameClient DEF C!Acquire, C!AcquireCurrent, P!Inductive, P!TypeOK
  <2>2. CASE c \notin Requests
    <3>1. C!Settle(c, C!Result("ok", "none")) /\ sent' = sent
          /\ uses' = [uses EXCEPT ![c] = C!Current]
      BY <1>2, <2>2 DEF C!Acquire, C!AcquireCurrent, C!Return
    <3>2. \A d \in C!Calls \ {c} : uses'[d] = uses[d]
      BY <3>1, SameClient DEF P!Inductive, P!TypeOK
    <3>3. QED
      BY <2>2, <3>1, <3>2, SettleOf
  <2>3. QED
    BY <2>1, <2>2
<1>3. CASE C!AcquireFlight(c)
  <2>1. PICK f : C!Join(c, f)
    BY <1>3 DEF C!AcquireFlight
  <2>2. QED
    BY <2>1, GoOnOf, SameClient DEF C!Acquire, C!Join, P!Inductive, P!TypeOK
<1>4. QED
  BY <1>1, <1>2, <1>3 DEF C!Acquire

\* Where call c is left by a step of its own.
LEMMA WorksOf ==
  ASSUME P!Inductive, NEW c \in C!Calls, C!Works(c) \/ C!TransportFails(c) \/ C!Receive(c)
  PROVE  /\ pc[c] \notin {"idle", "done"} /\ pc'[c] # "idle"
         /\ \A d \in C!Calls \ {c} : /\ pc'[d] = pc[d] /\ outcome'[d] = outcome[d]
                                     /\ aborted'[d] = aborted[d] /\ uses'[d] = uses[d]
                                     /\ sent'[d] = sent[d]
         /\ c \in Requests /\ pc'[c] # "done" => outcome'[c] = outcome[c] /\ aborted'[c] = aborted[c]
         /\ c \in Requests /\ pc'[c] = "done" =>
               \/ aborted[c] /\ outcome'[c].kind = "aborted"
               \/ /\ outcome'[c].kind \notin {"none", "aborted", "AttestationUnavailable"}
                  /\ outcome'[c].kind # "ok" => outcome'[c].executed # "none"
                  /\ outcome'[c].kind = "InvalidInnerRequest" => outcome'[c].executed = "no"
         /\ aborted[c] => sent'[c] = sent[c]
         /\ aborted'[c] => aborted[c]
<1>1. CASE C!Encode(c)
  <2>1. C!Acquire(c) /\ pc[c] = "encoding"
    BY <1>1 DEF C!Encode
  <2>2. /\ sent' = sent /\ pc'[c] # "idle"
        /\ (c \in Requests /\ pc'[c] = "done" => aborted[c])
        /\ \A d \in C!Calls \ {c} : /\ pc'[d] = pc[d] /\ outcome'[d] = outcome[d]
                                    /\ aborted'[d] = aborted[d] /\ uses'[d] = uses[d]
    BY <2>1, AcquireOf
  <2>3. \/ C!AcquireAborted(c) \/ C!AcquireCurrent(c) \/ C!AcquireFlight(c)
    BY <2>1 DEF C!Acquire
  <2>4. C!AcquireAborted(c) => /\ aborted[c] /\ outcome'[c].kind = "aborted" /\ pc'[c] = "done"
                               /\ ~aborted'[c]
    <3>1. C!AcquireAborted(c) => aborted[c] /\ C!Settle(c, C!Result("aborted", "none"))
      BY DEF C!AcquireAborted, C!ThrowReason
    <3>2. QED
      BY <3>1, ThrowOf
  <2>5. (c \in Requests /\ C!AcquireCurrent(c)) \/ C!AcquireFlight(c)
          => /\ outcome' = outcome /\ aborted' = aborted /\ pc'[c] # "done"
    BY GoOnOf DEF C!AcquireCurrent, C!AcquireFlight, C!Join
  <2>6. C!AcquireCurrent(c) /\ c \notin Requests => ~aborted'[c]
    BY SettleOf DEF C!AcquireCurrent, C!Return
  <2>7. QED
    BY <2>1, <2>2, <2>3, <2>4, <2>5, <2>6
<1>2. CASE C!EncodeFails(c)
  <2>1. C!Settle(c, C!Result("InvalidInnerRequest", "no")) /\ pc[c] = "encoding"
        /\ sent' = sent /\ uses' = uses
    BY <1>2 DEF C!EncodeFails, C!ThrowUnsent
  <2>2. /\ pc'[c] = "done" /\ ~aborted'[c]
        /\ outcome'[c].kind = "InvalidInnerRequest" /\ outcome'[c].executed = "no"
        /\ \A d \in C!Calls \ {c} :
              pc'[d] = pc[d] /\ outcome'[d] = outcome[d] /\ aborted'[d] = aborted[d]
    BY <2>1, ThrowOf
  <2>3. QED
    BY <2>1, <2>2
<1>3. CASE C!Seal(c)
  <2>1. CASE aborted[c]
    <3>1. C!Settle(c, C!Result("aborted", "none")) /\ pc[c] = "sealing"
          /\ sent' = sent /\ uses' = uses
      BY <1>3, <2>1 DEF C!Seal, C!ThrowReason
    <3>2. /\ pc'[c] = "done" /\ ~aborted'[c]
          /\ outcome'[c].kind = "aborted" /\ outcome'[c].executed = "none"
          /\ \A d \in C!Calls \ {c} :
                pc'[d] = pc[d] /\ outcome'[d] = outcome[d] /\ aborted'[d] = aborted[d]
      BY <3>1, ThrowOf
    <3>3. QED
      BY <2>1, <3>1, <3>2
  <2>2. CASE ~aborted[c]
    <3>1. C!GoOn(c, "sent") /\ pc[c] = "sealing" /\ uses' = uses
          /\ sent' = [sent EXCEPT ![c] = TRUE]
      BY <1>3, <2>2 DEF C!Seal
    <3>2. \A d \in C!Calls \ {c} : sent'[d] = sent[d]
      BY <3>1, SameClient DEF P!Inductive, P!TypeOK
    <3>3. /\ pc'[c] = "sent" /\ outcome' = outcome /\ aborted' = aborted
          /\ \A d \in C!Calls \ {c} : pc'[d] = pc[d]
      BY <3>1, GoOnOf
    <3>4. QED
      BY <2>2, <3>1, <3>2, <3>3
  <2>3. QED
    BY <2>1, <2>2
<1>4. CASE C!SealFails(c)
  <2>1. C!Settle(c, C!Result("InternalError", "no")) /\ pc[c] = "sealing"
        /\ sent' = sent /\ uses' = uses
    BY <1>4 DEF C!SealFails, C!ThrowUnsent
  <2>2. /\ pc'[c] = "done" /\ ~aborted'[c]
        /\ outcome'[c].kind = "InternalError" /\ outcome'[c].executed = "no"
        /\ \A d \in C!Calls \ {c} :
              pc'[d] = pc[d] /\ outcome'[d] = outcome[d] /\ aborted'[d] = aborted[d]
    BY <2>1, ThrowOf
  <2>3. QED
    BY <2>1, <2>2
<1>5. CASE C!Check(c)
  <2> DEFINE result(kind) == [C!Result(kind, C!ExecutedBy(kind)) EXCEPT
                                !.answer = IF kind \in {"ok", "RequestRejected"}
                                           THEN answer[c] ELSE C!NoAnswer]
  <2>1. PICK kind \in C!Verdicts(c, answer[c]) \cup {"InternalError"} : C!Settle(c, result(kind))
    BY <1>5 DEF C!Check
  <2>7. result(kind).kind = kind /\ result(kind).executed = C!ExecutedBy(kind)
    BY DEF C!Result
  <2> HIDE DEF result
  <2>2. kind \in {"UnexpectedResponse", "RequestRejected", "StaleTimestamp", "BadSignature",
                 "ConfidentialSignerMismatch", "ok", "ConfidentialDecryptFailed",
                 "InternalError"}
    BY <2>1 DEF C!Verdicts, C!Opened
  <2>3. outcome'[c].kind = kind /\ outcome'[c].executed = C!ExecutedBy(kind) /\ pc'[c] = "done"
        /\ aborted'[c] = FALSE
    BY <2>1, <2>7, SettleOf
  <2>4. kind # "ok" => C!ExecutedBy(kind) # "none"
    BY <2>2 DEF C!ExecutedBy
  <2>5. pc[c] = "checking" /\ sent' = sent /\ uses' = uses
    BY <1>5 DEF C!Check
  <2>6. QED
    BY <2>1, <2>2, <2>3, <2>4, <2>5, SettleOf
<1>6. CASE C!TransportFails(c)
  <2>1. C!Settle(c, C!Result("TransportFailed", "unknown")) /\ pc[c] = "sent"
        /\ sent' = sent /\ uses' = uses
    BY <1>6 DEF C!TransportFails
  <2>2. /\ pc'[c] = "done" /\ ~aborted'[c]
        /\ outcome'[c].kind = "TransportFailed" /\ outcome'[c].executed = "unknown"
        /\ \A d \in C!Calls \ {c} :
              pc'[d] = pc[d] /\ outcome'[d] = outcome[d] /\ aborted'[d] = aborted[d]
    BY <2>1, ThrowOf
  <2>3. QED
    BY <2>1, <2>2
<1>7. CASE C!Receive(c)
  BY <1>7, SameClient DEF C!Receive, C!slot, P!Inductive, P!TypeOK
<1>8. QED
  BY <1>1, <1>2, <1>3, <1>4, <1>5, <1>6, <1>7 DEF C!Works

LEMMA FlightOf ==
  ASSUME P!Inductive, C!FlightSettles, NEW r \in Requests
  PROVE  /\ sent' = sent /\ aborted' = aborted /\ uses' = uses
         /\ \/ pc'[r] = pc[r] /\ outcome'[r] = outcome[r]
            \/ pc[r] = "waiting" /\ pc'[r] = "sealing" /\ outcome'[r] = outcome[r]
            \/ /\ pc[r] = "waiting" /\ pc'[r] = "done"
               /\ outcome'[r].kind \in {"AttestationUnavailable", "AttestationFailed", "InternalError"}
               /\ outcome'[r].executed # "none"
               /\ outcome'[r].kind = "AttestationUnavailable" => outcome'[r].executed = "shared"
<1>1. r \in C!Calls /\ r \notin {StartUp}
  BY CallsAssumption DEF C!Calls
<1>2. ASSUME NEW n \in Nodes, C!FlightResolves(n)
      PROVE  pc[r] # pc'[r] => pc[r] = "waiting" /\ pc'[r] = "sealing"
  BY <1>1, <1>2 DEF C!FlightResolves, C!Waiters, C!Resumed
<1>3. ASSUME NEW n \in Nodes, C!FlightResolves(n)
      PROVE  outcome'[r] = outcome[r] /\ UNCHANGED <<sent, aborted, uses>>
  BY <1>1, <1>3 DEF C!FlightResolves
<1>4. ASSUME NEW kind \in {"AttestationUnavailable", "AttestationFailed", "raw"}, C!FlightRejects(kind)
      PROVE  /\ UNCHANGED <<sent, aborted, uses>>
             /\ \/ pc'[r] = pc[r] /\ outcome'[r] = outcome[r]
                \/ pc[r] = "waiting" /\ pc'[r] = "done" /\ outcome'[r] = C!FlightFailure(r, kind)
  BY <1>1, <1>4 DEF C!FlightRejects, C!Waiters
<1>5. ASSUME NEW kind \in {"AttestationUnavailable", "AttestationFailed", "raw"}
      PROVE  LET result == C!FlightFailure(r, kind)
             IN /\ result.kind \in {"AttestationUnavailable", "AttestationFailed", "InternalError"}
                /\ result.executed # "none"
                /\ result.kind = "AttestationUnavailable" => result.executed = "shared"
  <2>1. CASE kind = "raw"
    <3>1. C!FlightFailure(r, kind) = C!Result("InternalError", "no")
      BY <1>1, <2>1 DEF C!FlightFailure
    <3>2. QED
      BY <3>1, ResultOf
  <2>2. CASE kind # "raw"
    <3>1. C!FlightFailure(r, kind) = C!Result(kind, "shared")
      BY <2>2 DEF C!FlightFailure
    <3>2. QED
      BY <2>2, <3>1, ResultOf
  <2>3. QED
    BY <2>1, <2>2
<1>6. CASE \E n \in Nodes : C!FlightResolves(n)
  BY <1>2, <1>3, <1>6
<1>7. CASE \E kind \in {"AttestationUnavailable", "AttestationFailed", "raw"} : C!FlightRejects(kind)
  BY <1>4, <1>5, <1>7
<1>8. QED
  BY <1>6, <1>7 DEF C!FlightSettles

\* The steps after which responses may be due.
Runs == \/ C!FlightSettles
        \/ \E c \in C!Calls : C!Works(c) \/ C!TransportFails(c) \/ C!Receive(c)

\* What such a step does to the call of one request.
LEMMA RunsOf ==
  ASSUME P!Inductive, Runs, NEW r \in Requests
  PROVE  /\ pc[r] \in {"idle", "done"} => UNCHANGED <<pc[r], sent[r], outcome[r], uses[r], aborted[r]>>
         /\ pc[r] \notin {"idle", "done"} => pc'[r] # "idle"
         /\ pc'[r] # "done" => outcome'[r] = outcome[r] /\ aborted'[r] = aborted[r]
         /\ pc'[r] = "done" /\ pc[r] # "done" =>
               \/ aborted[r] /\ outcome'[r].kind = "aborted"
               \/ /\ outcome'[r].kind \notin {"none", "aborted"}
                  /\ outcome'[r].kind # "ok" => outcome'[r].executed # "none"
                  /\ outcome'[r].kind = "InvalidInnerRequest" => outcome'[r].executed = "no"
                  /\ outcome'[r].kind = "AttestationUnavailable" => outcome'[r].executed = "shared"
         /\ aborted'[r] => aborted[r]
         /\ aborted[r] => sent'[r] = sent[r]
<1>1. r \in C!Calls
  BY DEF C!Calls
<1>2. CASE C!FlightSettles
  <2>1. /\ sent' = sent /\ aborted' = aborted /\ uses' = uses
        /\ \/ pc'[r] = pc[r] /\ outcome'[r] = outcome[r]
           \/ pc[r] = "waiting" /\ pc'[r] = "sealing" /\ outcome'[r] = outcome[r]
           \/ /\ pc[r] = "waiting" /\ pc'[r] = "done"
              /\ outcome'[r].kind \in {"AttestationUnavailable", "AttestationFailed", "InternalError"}
              /\ outcome'[r].executed # "none"
              /\ outcome'[r].kind = "AttestationUnavailable" => outcome'[r].executed = "shared"
    BY <1>2, FlightOf
  <2>2. QED
    BY <2>1
<1>3. ASSUME NEW c \in C!Calls \ {r}, C!Works(c) \/ C!TransportFails(c) \/ C!Receive(c)
      PROVE  UNCHANGED <<pc[r], sent[r], outcome[r], uses[r], aborted[r]>>
  BY <1>1, <1>3, WorksOf
<1>4. CASE C!Works(r) \/ C!TransportFails(r) \/ C!Receive(r)
  BY <1>1, <1>4, WorksOf
<1>5. QED
  BY <1>2, <1>3, <1>4 DEF Runs

-----------------------------------------------------------------------------
(* The steps of the proxy *)

\* What an error says of the call a step made fail is true of the call.
LEMMA ErrorIsTrueNext ==
  ASSUME P!Inductive', ErrorsCarryExecuted', NEW r \in Requests,
         outcome'[r].kind \notin {"none", "ok", "aborted"},
         NEW status \in StatusOf(outcome'[r].kind, outcome'[r].answer),
         status < 500 \/ status = 503 \/ C!Executed(r)' = "no"
  PROVE  ~sent'[r] \/ outcome'[r].kind = "RequestRejected"
<1>1. outcome'[r].executed = "shared" => ~sent'[r]
  BY DEF P!Inductive, P!ExecutedOf
<1>2. outcome'[r].executed # "shared" =>
        (outcome'[r].executed = "no" <=> ~sent'[r] \/ outcome'[r].kind = "RequestRejected")
  BY DEF P!Inductive, P!ExecutedOf
<1>3. outcome'[r].executed \in {"no", "unknown", "shared"}
  BY DEF P!Inductive, P!TypeOK, P!Calls, P!Results, ErrorsCarryExecuted
<1>4. CASE status < 500 \/ status = 503
  <2>1. outcome'[r].kind \in {"InvalidInnerRequest", "AttestationUnavailable", "RequestRejected"}
    BY <1>4 DEF StatusOf
  <2>2. QED
    BY <1>1, <1>2, <2>1 DEF ErrorsCarryExecuted
<1>5. CASE C!Executed(r)' = "no"
  BY <1>1, <1>2, <1>3, <1>5 DEF C!Executed
<1>6. QED
  BY <1>4, <1>5

\* The error of a call that sent nothing says so.
LEMMA UnsentSaysNoNext ==
  ASSUME P!Inductive', ErrorsCarryExecuted', NEW r \in Requests,
         outcome'[r].kind \notin {"none", "ok", "aborted"}, ~sent'[r]
  PROVE  C!Executed(r)' = "no"
<1>1. outcome'[r].executed \in {"no", "unknown", "shared"}
  BY DEF P!Inductive, P!TypeOK, P!Calls, P!Results, ErrorsCarryExecuted
<1>2. outcome'[r].executed = "shared" => attestation'[uses'[r]].executed = "no"
  BY DEF P!Inductive, P!ExecutedOf
<1>3. outcome'[r].executed # "shared" => outcome'[r].executed = "no"
  BY <1>1 DEF P!Inductive, P!ExecutedOf
<1>4. QED
  BY <1>2, <1>3 DEF C!Executed

LEMMA ExecutedIsTypedNext ==
  ASSUME P!Inductive', NEW r \in Requests
  PROVE  C!Executed(r)' \in {"none", "no", "unknown"}
<1>1. outcome'[r].executed \in {"none", "no", "unknown", "shared"}
  BY DEF P!Inductive, P!TypeOK, P!Calls, P!Results
<1>2. outcome'[r].executed = "shared" => attestation'[uses'[r]].executed \in {"no", "unknown"}
  BY DEF P!Inductive, P!ExecutedOf, P!TypeOK, P!Attestations
<1>3. QED
  BY <1>1, <1>2 DEF C!Executed

\* A step of the client with the responses of the calls it settles.
LEMMA DeliverInductive ==
  ASSUME Inductive, P!Inductive', Runs, Deliver,
         \A f \in C!Calls : attestation[f].state = "pinned" => attestation'[f] = attestation[f]
  PROVE  Inductive'
<1> DEFINE settled == {r \in Requests : stage[r] = "working" /\ pc'[r] = "done"}
<1> DEFINE answered == {r \in settled : connected[r]}
<1>1. P!Inductive /\ TypeOK /\ HandlesItsCall /\ ErrorsCarryExecuted /\ AbortedWereAborted
      /\ RelayedIsOwnAnswer /\ ErrorTellsExecution /\ EveryClientIsTold
  BY DEF Inductive
<1>2. /\ stage' = [r \in Requests |-> IF r \in settled THEN "over" ELSE stage[r]]
      /\ connected' = connected
      /\ \A r \in Requests \ answered : reply'[r] = reply[r]
      /\ DOMAIN reply' = Requests /\ reply' = [r \in Requests |-> reply'[r]]
      /\ \A r \in answered :
            /\ outcome'[r].kind = "ok" =>
                  reply'[r] \in {Relayed(outcome'[r].answer), Error(502, "none")}
            /\ outcome'[r].kind # "ok" =>
                  \E status \in StatusOf(outcome'[r].kind, outcome'[r].answer) :
                     reply'[r] = Error(status, C!Executed(r)')
  <2>1. stage' = [r \in Requests |-> IF r \in settled THEN "over" ELSE stage[r]]
        /\ connected' = connected
    BY DEF Deliver, Hears
  <2>2. CASE answered = {}
    <3>1. reply' = reply
      BY <2>2 DEF Deliver, Hears
    <3>2. QED
      BY <1>1, <2>1, <2>2, <3>1 DEF TypeOK
  <2>3. CASE answered # {}
    <3>1. PICK status \in {0, 400, 413, 429, 502, 503, 504} :
            /\ \A r \in answered : status \in Statuses(outcome'[r].kind, outcome'[r].answer)
            /\ reply' = [r \in Requests |-> IF r \in answered
                                            THEN Response(r, status)' ELSE reply[r]]
      BY <2>3 DEF Deliver, Hears
    <3>2. \A r \in answered :
            reply'[r] = IF outcome'[r].kind = "ok"
                        THEN IF status = 0 THEN Relayed(outcome'[r].answer) ELSE Error(status, "none")
                        ELSE Error(status, C!Executed(r)')
      BY <3>1 DEF Response
    <3>3. \A r \in answered :
            IF outcome'[r].kind = "ok" THEN status \in {0, 502}
            ELSE status \in StatusOf(outcome'[r].kind, outcome'[r].answer)
      BY <3>1 DEF Statuses
    <3>4. QED
      BY <2>1, <3>1, <3>2, <3>3
  <2>4. QED
    BY <2>2, <2>3
<1>3. ASSUME NEW r \in Requests
      PROVE  /\ pc[r] \in {"idle", "done"} => UNCHANGED <<pc[r], sent[r], outcome[r], uses[r], aborted[r]>>
             /\ pc[r] \notin {"idle", "done"} => pc'[r] # "idle"
             /\ pc'[r] # "done" => outcome'[r] = outcome[r] /\ aborted'[r] = aborted[r]
             /\ pc'[r] = "done" /\ pc[r] # "done" =>
                   \/ aborted[r] /\ outcome'[r].kind = "aborted"
                   \/ /\ outcome'[r].kind \notin {"none", "aborted"}
                      /\ outcome'[r].kind # "ok" => outcome'[r].executed # "none"
                      /\ outcome'[r].kind = "InvalidInnerRequest" => outcome'[r].executed = "no"
                      /\ outcome'[r].kind = "AttestationUnavailable" => outcome'[r].executed = "shared"
             /\ aborted'[r] => aborted[r]
  BY <1>1, RunsOf
<1>4. \A r \in answered : stage[r] = "working" /\ pc'[r] = "done" /\ pc[r] # "done" /\ connected[r]
                          /\ ~aborted[r] /\ r \in Requests
  BY <1>1 DEF HandlesItsCall
<1>5. ErrorsCarryExecuted' /\ AbortedWereAborted'
  <2>1. SUFFICES ASSUME NEW r \in Requests
                 PROVE  /\ outcome'[r].kind \notin {"none", "ok", "aborted"} => outcome'[r].executed # "none"
                        /\ outcome'[r].kind = "InvalidInnerRequest" => outcome'[r].executed = "no"
                        /\ outcome'[r].kind = "AttestationUnavailable" => outcome'[r].executed = "shared"
                        /\ connected[r] => outcome'[r].kind # "aborted"
    BY <1>2 DEF ErrorsCarryExecuted, AbortedWereAborted
  <2>2. CASE outcome'[r] = outcome[r]
    BY <1>1, <2>2 DEF ErrorsCarryExecuted, AbortedWereAborted
  <2>3. CASE pc'[r] = "done" /\ pc[r] # "done"
    <3>1. connected[r] => ~aborted[r]
      BY <1>1 DEF HandlesItsCall
    <3>2. QED
      BY <1>3, <2>3, <3>1
  <2>4. QED
    BY <1>3, <2>2, <2>3
<1>6. HandlesItsCall'
  <2>1. ASSUME NEW r \in Requests
        PROVE  /\ stage'[r] = IF r \in settled THEN "over" ELSE stage[r]
               /\ stage[r] \in {"idle", "reading", "working", "over"}
               /\ reply'[r].kind # "none" => reply[r].kind # "none" \/ r \in settled
    BY <1>1, <1>2 DEF TypeOK
  <2>2. ASSUME NEW r \in Requests, r \in settled
        PROVE  /\ stage'[r] = "over" /\ pc'[r] = "done"
               /\ connected'[r] => ~aborted'[r]
    BY <1>1, <1>2, <1>3, <2>1, <2>2 DEF HandlesItsCall
  <2>3. ASSUME NEW r \in Requests, r \notin settled
        PROVE  /\ stage'[r] = stage[r] /\ (reply'[r].kind # "none" => reply[r].kind # "none")
               /\ connected'[r] = connected[r]
               /\ pc[r] \in {"idle", "done"} => pc'[r] = pc[r] /\ aborted'[r] = aborted[r]
               /\ stage[r] = "working" => pc'[r] \notin {"idle", "done"} /\ aborted'[r] = aborted[r]
               /\ aborted'[r] => aborted[r]
    BY <1>1, <1>2, <1>3, <2>1, <2>3 DEF HandlesItsCall
  <2>4. QED
    BY <1>1, <2>1, <2>2, <2>3 DEF HandlesItsCall
<1>7. RelayedIsOwnAnswer'
  <2>1. SUFFICES ASSUME NEW r \in Requests, reply'[r].kind = "relay"
                 PROVE  /\ sent'[r]
                        /\ reply'[r].answer.req = r
                        /\ attestation'[uses'[r]].state = "pinned"
                        /\ reply'[r].answer.signer = attestation'[uses'[r]].node
    BY DEF RelayedIsOwnAnswer
  <2>2. CASE r \in answered
    <3>1. outcome'[r].kind = "ok" /\ reply'[r].answer = outcome'[r].answer
      BY <1>2, <2>1, <2>2 DEF Relayed, Error
    <3>2. /\ sent'[r] /\ outcome'[r].answer.req = r
          /\ outcome'[r].answer.signer = attestation'[uses'[r]].node
      BY <3>1 DEF P!Inductive, P!AnsweredByPinnedNode
    <3>3. attestation'[uses'[r]].state = "pinned"
      BY <3>2 DEF P!Inductive, P!HoldsWhatItUses, P!Calls
    <3>4. QED
      BY <3>1, <3>2, <3>3
  <2>3. CASE r \notin answered
    <3>1. reply'[r] = reply[r] /\ stage[r] = "over"
      BY <1>1, <1>2, <2>1, <2>3 DEF HandlesItsCall
    <3>2. pc[r] \in {"idle", "done"}
      BY <1>1, <3>1 DEF HandlesItsCall
    <3>3. UNCHANGED <<sent[r], uses[r]>>
      BY <1>3, <3>2
    <3>4. /\ sent[r] /\ reply[r].answer.req = r /\ attestation[uses[r]].state = "pinned"
          /\ reply[r].answer.signer = attestation[uses[r]].node
      BY <1>1, <2>1, <3>1 DEF RelayedIsOwnAnswer
    <3>5. uses[r] \in C!Calls
      BY <1>1, <3>4, SameClient DEF P!Inductive, P!HoldsWhatItUses, P!Calls
    <3>6. QED
      BY <3>1, <3>3, <3>4, <3>5
  <2>4. QED
    BY <2>2, <2>3
<1>8. ErrorTellsExecution'
  <2>1. SUFFICES ASSUME NEW r \in Requests, reply'[r].kind = "error",
                        reply'[r].status < 500 \/ reply'[r].status = 503
                           \/ reply'[r].executed = "no"
                 PROVE  ~sent'[r] \/ outcome'[r].kind = "RequestRejected"
    BY DEF ErrorTellsExecution
  <2>2. CASE r \in answered
    <3>1. outcome'[r].kind # "ok"
      BY <1>2, <2>1, <2>2 DEF Relayed, Error
    <3>2. PICK status \in StatusOf(outcome'[r].kind, outcome'[r].answer) :
            reply'[r] = Error(status, C!Executed(r)')
      BY <1>2, <2>2, <3>1
    <3>3. outcome'[r].kind \notin {"none", "ok", "aborted"}
      BY <1>3, <1>4, <2>2, <3>1
    <3>4. status < 500 \/ status = 503 \/ C!Executed(r)' = "no"
      BY <2>1, <3>2 DEF Error
    <3>5. QED
      BY <1>5, <3>2, <3>3, <3>4, ErrorIsTrueNext
  <2>3. CASE r \notin answered
    <3>1. reply'[r] = reply[r] /\ stage[r] = "over"
      BY <1>1, <1>2, <2>1, <2>3 DEF HandlesItsCall
    <3>2. pc[r] \in {"idle", "done"}
      BY <1>1, <3>1 DEF HandlesItsCall
    <3>3. UNCHANGED <<sent[r], outcome[r]>>
      BY <1>3, <3>2
    <3>4. QED
      BY <1>1, <2>1, <3>1, <3>3 DEF ErrorTellsExecution
  <2>4. QED
    BY <2>2, <2>3
<1>9. TypeOK'
  <2>1. C!TypeOK'
    <3>1. P!TypeOK'
      BY DEF P!Inductive
    <3>2. QED
      BY <3>1 DEF C!TypeOK, P!TypeOK, C!Calls, P!Calls, C!Attestations, P!Attestations,
                  C!Places, P!Places, C!Answers, P!Answers, C!Results, P!Results, C!Kinds, P!Kinds
  <2>2. stage' \in [Requests -> {"idle", "reading", "working", "over"}]
        /\ connected' \in [Requests -> BOOLEAN]
    BY <1>1, <1>2 DEF TypeOK
  <2>3. \A r \in Requests : reply'[r] \in Replies
    <3>1. ASSUME NEW r \in Requests, r \in answered PROVE reply'[r] \in Replies
      <4>1. outcome'[r].answer \in C!Answers
        BY <2>1 DEF C!TypeOK, C!Results, C!Calls
      <4>2. C!Executed(r)' \in {"none", "no", "unknown"}
        BY ExecutedIsTypedNext
      <4>3. \A kind, a : StatusOf(kind, a) \subseteq {400, 413, 415, 429, 502, 503, 504}
        BY DEF StatusOf
      <4>4. QED
        BY <1>2, <3>1, <4>1, <4>2, <4>3 DEF Replies
    <3>2. ASSUME NEW r \in Requests, r \notin answered PROVE reply'[r] \in Replies
      BY <1>1, <1>2, <3>2 DEF TypeOK, Replies
    <3>3. QED
      BY <3>1, <3>2
  <2>4. \A r \in Requests : stage'[r] \in {"idle", "reading"} => pc'[r] = "idle"
    BY <1>6 DEF HandlesItsCall
  <2>5. QED
    BY <1>2, <2>1, <2>2, <2>3, <2>4 DEF TypeOK
<1>10. EveryClientIsTold'
  <2>1. SUFFICES ASSUME NEW r \in Requests, stage'[r] = "over", connected'[r]
                 PROVE  /\ reply'[r].kind # "none"
                        /\ ~sent'[r] => /\ reply'[r].kind = "error"
                                        /\ reply'[r].status < 500 \/ reply'[r].executed = "no"
    BY DEF EveryClientIsTold
  <2>2. CASE r \in answered
    <3>1. CASE outcome'[r].kind = "ok"
      <4>1. sent'[r]
        BY <3>1 DEF P!Inductive, P!AnsweredByPinnedNode
      <4>2. QED
        BY <1>2, <2>2, <3>1, <4>1 DEF Relayed, Error
    <3>2. CASE outcome'[r].kind # "ok"
      <4>1. PICK status \in StatusOf(outcome'[r].kind, outcome'[r].answer) :
              reply'[r] = Error(status, C!Executed(r)')
        BY <1>2, <2>2, <3>2
      <4>2. outcome'[r].kind \notin {"none", "ok", "aborted"}
        BY <1>3, <1>4, <2>2, <3>2
      <4>3. ~sent'[r] => C!Executed(r)' = "no"
        BY <1>5, <4>2, UnsentSaysNoNext
      <4>4. QED
        BY <4>1, <4>3 DEF Error
    <3>3. QED
      BY <3>1, <3>2
  <2>3. CASE r \notin answered
    <3>1. reply'[r] = reply[r] /\ stage[r] = "over" /\ connected[r]
      BY <1>1, <1>2, <2>1, <2>3 DEF TypeOK
    <3>2. pc[r] \in {"idle", "done"}
      BY <1>1, <3>1 DEF HandlesItsCall
    <3>3. sent'[r] = sent[r]
      BY <1>3, <3>2
    <3>4. QED
      BY <1>1, <3>1, <3>3 DEF EveryClientIsTold
  <2>4. QED
    BY <2>2, <2>3
<1>11. QED
  BY <1>5, <1>6, <1>7, <1>8, <1>9, <1>10 DEF Inductive

\* The other steps concern no call of a request, or one, which they start or
\* abort: what they leave alone, and how they leave that one.
Apart(q) ==
    /\ \A r \in Requests \ {q} :
          UNCHANGED <<pc[r], outcome[r], aborted[r], stage[r], connected[r], reply[r]>>
    /\ \A r \in Requests : UNCHANGED <<sent[r], uses[r]>>

Lands(q) ==
    /\ stage'[q] \in {"idle", "reading"} => pc'[q] = "idle" /\ connected'[q]
    /\ stage'[q] = "working" => pc'[q] \notin {"idle", "done"}
    /\ stage'[q] = "over" => pc'[q] \in {"idle", "done"}
    /\ reply'[q].kind # "none" => stage'[q] = "over"
    /\ connected'[q] => ~aborted'[q] /\ outcome'[q].kind # "aborted"
    /\ stage'[q] = "working" /\ ~connected'[q] => aborted'[q]
    /\ outcome'[q] = outcome[q] \/ outcome'[q].kind = "aborted"
    /\ reply'[q].kind # "relay"
    /\ reply'[q].kind = "error" => ~sent[q] /\ reply'[q].status < 500
    /\ stage'[q] = "over" /\ connected'[q] => reply'[q].kind = "error"

FrontTypes == /\ stage \in [Requests -> {"idle", "reading", "working", "over"}]
              /\ connected \in [Requests -> BOOLEAN]
              /\ reply \in [Requests -> Replies]

PinsStay == \A f \in C!Calls : attestation[f].state = "pinned" => attestation'[f] = attestation[f]

LEMMA SmallStepInductive ==
  ASSUME Inductive, P!Inductive', PinsStay, FrontTypes', NEW q,
         Apart(q), q \in Requests => Lands(q)
  PROVE  Inductive'
<1> USE DEF Apart, Lands, FrontTypes, PinsStay
<1>1. TypeOK /\ HandlesItsCall /\ ErrorsCarryExecuted /\ AbortedWereAborted
      /\ RelayedIsOwnAnswer /\ ErrorTellsExecution /\ EveryClientIsTold /\ P!Inductive
  BY DEF Inductive
<1>2. HandlesItsCall'
  BY <1>1 DEF HandlesItsCall
<1>3. ErrorsCarryExecuted' /\ AbortedWereAborted'
  BY <1>1 DEF ErrorsCarryExecuted, AbortedWereAborted
<1>4. RelayedIsOwnAnswer'
  <2>1. SUFFICES ASSUME NEW r \in Requests, reply'[r].kind = "relay"
                 PROVE  /\ sent'[r]
                        /\ reply'[r].answer.req = r
                        /\ attestation'[uses'[r]].state = "pinned"
                        /\ reply'[r].answer.signer = attestation'[uses'[r]].node
    BY DEF RelayedIsOwnAnswer
  <2>2. r # q /\ reply'[r] = reply[r] /\ sent'[r] = sent[r] /\ uses'[r] = uses[r]
    BY <2>1
  <2>3. /\ sent[r] /\ reply[r].answer.req = r /\ attestation[uses[r]].state = "pinned"
        /\ reply[r].answer.signer = attestation[uses[r]].node
    BY <1>1, <2>1, <2>2 DEF RelayedIsOwnAnswer
  <2>4. uses[r] \in C!Calls
    BY <1>1, <2>3, SameClient DEF P!Inductive, P!HoldsWhatItUses, P!Calls
  <2>5. QED
    BY <2>2, <2>3, <2>4
<1>5. ErrorTellsExecution' /\ EveryClientIsTold'
  BY <1>1 DEF ErrorTellsExecution, EveryClientIsTold
<1>6. C!TypeOK'
  <2>1. P!TypeOK'
    BY DEF P!Inductive
  <2>2. QED
    BY <2>1 DEF C!TypeOK, P!TypeOK, C!Calls, P!Calls, C!Attestations, P!Attestations,
                C!Places, P!Places, C!Answers, P!Answers, C!Results, P!Results, C!Kinds, P!Kinds
<1>7. TypeOK'
  BY <1>2, <1>6 DEF TypeOK, HandlesItsCall, Replies, C!Answers
<1>8. QED
  BY <1>2, <1>3, <1>4, <1>5, <1>7 DEF Inductive

LEMMA StepInductive == Inductive /\ [Next]_vars => Inductive'
<1> SUFFICES ASSUME Inductive, [Next]_vars PROVE Inductive'
  OBVIOUS
<1>1. TypeOK /\ HandlesItsCall /\ AbortedWereAborted /\ P!Inductive
  BY DEF Inductive
<1>2. [P!Next]_(P!vars)
  BY ClientSteps, SameClient DEF C!vars, P!vars
<1>3. P!Inductive'
  BY <1>1, <1>2, ClientAssumptions, P!StepInductive, Zenon
<1>4. PinsStay
  <2>1. ASSUME NEW f \in P!Calls, attestation[f].state \in {"pinned", "failed"}
        PROVE  attestation'[f] = attestation[f]
    BY <1>1, <1>2, <2>1, ClientAssumptions, P!SettledAttestation, Zenon
  <2>2. QED
    BY <2>1, SameClient DEF PinsStay
<1>5. Requests \subseteq C!Calls /\ StartUp \in C!Calls /\ StartUp \notin Requests
  BY CallsAssumption DEF C!Calls
<1>6. /\ stage \in [Requests -> {"idle", "reading", "working", "over"}]
      /\ connected \in [Requests -> BOOLEAN] /\ reply \in [Requests -> Replies]
      /\ sent \in [C!Calls -> BOOLEAN] /\ aborted \in [C!Calls -> BOOLEAN]
  BY <1>1 DEF TypeOK, C!TypeOK
<1>7. CASE \/ AttestationSettles \/ Works(StartUp)
           \/ \E r \in Requests : Works(r) \/ UpstreamFails(r) \/ UpstreamAnswers(r)
  <2>1. Runs /\ Deliver
    BY <1>5, <1>7 DEF AttestationSettles, Works, UpstreamFails, UpstreamAnswers, Runs
  <2>2. QED
    BY <1>3, <1>4, <2>1, DeliverInductive DEF PinsStay
<1>8. CASE Listen
  <2>1. C!StartReady(StartUp) /\ UNCHANGED front
    BY <1>8 DEF Listen
  <2>2. C!Acquire(StartUp)
    BY <2>1 DEF C!StartReady
  <2>3. sent' = sent /\ \A r \in Requests : UNCHANGED <<pc[r], outcome[r], aborted[r], uses[r]>>
    BY <1>1, <1>5, <2>2, AcquireOf
  <2>4. UNCHANGED <<stage, connected, reply>>
    BY <2>1 DEF front
  <2>5. Apart(StartUp) /\ FrontTypes'
    BY <1>5, <1>6, <2>3, <2>4 DEF Apart, FrontTypes
  <2>6. QED
    BY <1>3, <1>4, <1>5, <2>5, SmallStepInductive
<1>9. CASE ClockMoves \/ UNCHANGED vars
  <2>1. UNCHANGED <<stage, connected, reply, pc, outcome, aborted, uses, sent>>
    BY <1>9 DEF ClockMoves, front, C!ClockMoves, C!calls, vars
  <2>2. Apart(StartUp) /\ FrontTypes'
    BY <1>6, <2>1 DEF Apart, FrontTypes
  <2>3. QED
    BY <1>3, <1>4, <1>5, <2>2, SmallStepInductive
<1>10. ASSUME NEW q \in Requests, Begin(q) PROVE Inductive'
  <2>1. /\ stage' = [stage EXCEPT ![q] = "reading"] /\ stage[q] = "idle"
        /\ UNCHANGED <<connected, reply, pc, outcome, aborted, uses, sent>>
    BY <1>10 DEF Begin, client
  <2>2. /\ pc[q] = "idle" /\ connected[q] /\ reply[q].kind = "none" /\ ~aborted[q]
        /\ outcome[q].kind # "aborted"
    BY <1>1, <2>1 DEF HandlesItsCall, AbortedWereAborted
  <2>3. Apart(q) /\ FrontTypes'
    BY <1>5, <1>6, <2>1, <2>2 DEF Apart, FrontTypes
  <2>4. Lands(q)
    BY <1>5, <1>6, <2>1, <2>2 DEF Lands
  <2>5. QED
    BY <1>3, <1>4, <2>3, <2>4, SmallStepInductive
<1>11. ASSUME NEW q \in Requests, NEW status \in {413, 415}, Refuse(q, status) PROVE Inductive'
  <2>1. /\ stage' = [stage EXCEPT ![q] = "over"] /\ stage[q] = "reading"
        /\ reply' = [reply EXCEPT ![q] = Error(status, "none")]
        /\ UNCHANGED <<connected, pc, outcome, aborted, uses, sent>>
    BY <1>11 DEF Refuse, client
  <2>2. /\ pc[q] = "idle" /\ connected[q] /\ ~aborted[q] /\ outcome[q].kind # "aborted"
        /\ ~sent[q]
    BY <1>1, <1>5, <2>1, SameClient
       DEF HandlesItsCall, AbortedWereAborted, P!Inductive, P!SettledWhenDone
  <2>3. /\ Error(status, "none") \in Replies /\ Error(status, "none").kind = "error"
        /\ Error(status, "none").status < 500
    BY DEF Error, Replies
  <2>4. reply' \in [Requests -> Replies]
    BY <1>6, <2>1, <2>3
  <2>5. Apart(q) /\ FrontTypes'
    BY <1>5, <1>6, <2>1, <2>2, <2>3, <2>4 DEF Apart, FrontTypes
  <2>6. Lands(q)
    BY <1>5, <1>6, <2>1, <2>2, <2>3, <2>4 DEF Lands
  <2>7. QED
    BY <1>3, <1>4, <2>5, <2>6, SmallStepInductive
<1>12. ASSUME NEW q \in Requests, Handle(q) PROVE Inductive'
  <2>1. /\ stage' = [stage EXCEPT ![q] = "working"] /\ stage[q] = "reading"
        /\ UNCHANGED <<connected, reply>> /\ C!StartRequest(q)
    BY <1>12 DEF Handle
  <2>2. /\ pc[q] = "idle" /\ connected[q] /\ ~aborted[q] /\ outcome[q].kind # "aborted"
        /\ reply[q].kind = "none"
    BY <1>1, <2>1 DEF HandlesItsCall, AbortedWereAborted
  <2>3. C!GoOn(q, "encoding") /\ UNCHANGED <<uses, sent>>
    BY <2>1, <2>2 DEF C!StartRequest
  <2>4. pc'[q] = "encoding" /\ UNCHANGED <<outcome, aborted>>
        /\ \A d \in C!Calls \ {q} : pc'[d] = pc[d]
    BY <1>1, <1>5, <2>3, GoOnOf
  <2>5. Apart(q) /\ FrontTypes'
    BY <1>5, <1>6, <2>1, <2>2, <2>3, <2>4 DEF Apart, FrontTypes
  <2>6. Lands(q)
    BY <1>5, <1>6, <2>1, <2>2, <2>3, <2>4 DEF Lands
  <2>7. QED
    BY <1>3, <1>4, <2>5, <2>6, SmallStepInductive
<1>13. ASSUME NEW q \in Requests, Disconnect(q) PROVE Inductive'
  <2>1. connected[q] /\ connected' = [connected EXCEPT ![q] = FALSE] /\ reply' = reply
    BY <1>13 DEF Disconnect
  <2>2. ~aborted[q] /\ outcome[q].kind # "aborted"
    BY <1>1, <2>1 DEF HandlesItsCall, AbortedWereAborted
  <2>3. CASE stage[q] = "reading"
    <3>1. stage' = [stage EXCEPT ![q] = "over"]
          /\ UNCHANGED <<pc, outcome, aborted, uses, sent>>
      BY <1>13, <2>3 DEF Disconnect, client
    <3>2. pc[q] = "idle" /\ reply[q].kind = "none"
      BY <1>1, <2>3 DEF HandlesItsCall
    <3>3. Apart(q) /\ FrontTypes'
      BY <1>5, <1>6, <2>1, <2>2, <3>1, <3>2 DEF Apart, FrontTypes
    <3>4. Lands(q)
      BY <1>5, <1>6, <2>1, <2>2, <3>1, <3>2 DEF Lands
    <3>5. QED
      BY <1>3, <1>4, <3>3, <3>4, SmallStepInductive
  <2>4. CASE stage[q] = "working"
    <3>1. /\ C!Abort(q)
          /\ stage' = [stage EXCEPT ![q] = IF pc'[q] = "done" THEN "over" ELSE "working"]
      BY <1>13, <2>4 DEF Disconnect
    <3>2. pc[q] \notin {"idle", "done"} /\ reply[q].kind = "none"
      BY <1>1, <2>4 DEF HandlesItsCall
    <3>3. UNCHANGED <<sent, uses>>
      BY <3>1 DEF C!Abort
    <3>4. CASE pc[q] \in {"waiting", "sent"}
      <4>1. C!Settle(q, C!Result("aborted", "none"))
        BY <3>1, <3>4 DEF C!Abort, C!ThrowReason
      <4>2. /\ pc'[q] = "done" /\ ~aborted'[q] /\ outcome'[q].kind = "aborted"
            /\ \A d \in C!Calls \ {q} :
                  pc'[d] = pc[d] /\ outcome'[d] = outcome[d] /\ aborted'[d] = aborted[d]
        BY <1>1, <1>5, <4>1, ThrowOf
      <4>3. stage' = [stage EXCEPT ![q] = "over"]
        BY <3>1, <4>2
      <4>4. Apart(q) /\ FrontTypes'
        BY <1>5, <1>6, <2>1, <2>2, <3>2, <3>3, <4>2, <4>3 DEF Apart, FrontTypes
      <4>5. Lands(q)
        BY <1>5, <1>6, <2>1, <2>2, <3>2, <3>3, <4>2, <4>3 DEF Lands
      <4>6. QED
        BY <1>3, <1>4, <4>4, <4>5, SmallStepInductive
    <3>5. CASE pc[q] \notin {"waiting", "sent"}
      <4>1. aborted' = [aborted EXCEPT ![q] = TRUE] /\ UNCHANGED <<pc, outcome>>
        BY <3>1, <3>5 DEF C!Abort
      <4>2. stage' = [stage EXCEPT ![q] = "working"]
        BY <3>1, <3>2, <4>1
      <4>3. aborted'[q] /\ \A d \in C!Calls \ {q} : aborted'[d] = aborted[d]
        BY <1>5, <1>6, <4>1
      <4>4. Apart(q) /\ FrontTypes'
        BY <1>5, <1>6, <2>1, <2>2, <3>2, <3>3, <4>1, <4>2, <4>3 DEF Apart, FrontTypes
      <4>5. Lands(q)
        BY <1>5, <1>6, <2>1, <2>2, <3>2, <3>3, <4>1, <4>2, <4>3 DEF Lands
      <4>6. QED
        BY <1>3, <1>4, <4>4, <4>5, SmallStepInductive
    <3>6. QED
      BY <3>4, <3>5
  <2>5. QED
    BY <1>13, <2>3, <2>4 DEF Disconnect
<1>14. QED
  BY <1>7, <1>8, <1>9, <1>10, <1>11, <1>12, <1>13 DEF Next

LEMMA InductiveHolds == Spec => []Inductive
<1>1. Init => Inductive
  <2> SUFFICES ASSUME Init PROVE Inductive
    OBVIOUS
  <2>1. P!Inductive
    BY SameClient, ClientAssumptions, P!InitInductive DEF Init
  <2>2. C!TypeOK
    BY <2>1 DEF P!Inductive, C!TypeOK, P!TypeOK, C!Calls, P!Calls, C!Attestations, P!Attestations,
                C!Places, P!Places, C!Answers, P!Answers, C!Results, P!Results, C!Kinds, P!Kinds
  <2>3. \A r \in Requests : /\ stage[r] = "idle" /\ connected[r] /\ reply[r] = NoReply
                            /\ pc[r] = "idle" /\ ~aborted[r] /\ outcome[r].kind = "none"
    BY DEF Init, C!Init, C!Calls, C!Unsettled, C!Result
  <2>4. NoReply.kind = "none" /\ NoReply \in Replies
    BY DEF NoReply, Replies
  <2>5. stage \in [Requests -> {"idle", "reading", "working", "over"}]
        /\ connected \in [Requests -> BOOLEAN] /\ reply \in [Requests -> Replies]
    BY <2>4 DEF Init
  <2>6. TypeOK
    BY <2>2, <2>3, <2>5 DEF TypeOK
  <2>7. HandlesItsCall /\ ErrorsCarryExecuted /\ AbortedWereAborted
    BY <2>3, <2>4 DEF HandlesItsCall, ErrorsCarryExecuted, AbortedWereAborted
  <2>8. RelayedIsOwnAnswer /\ ErrorTellsExecution /\ EveryClientIsTold
    BY <2>3, <2>4 DEF RelayedIsOwnAnswer, ErrorTellsExecution, EveryClientIsTold
  <2>9. QED
    BY <2>1, <2>6, <2>7, <2>8 DEF Inductive
<1>2. QED
  BY <1>1, StepInductive, PTL DEF Spec

-----------------------------------------------------------------------------
(* The properties *)

\* The proxy's state has its types, its client's included.
THEOREM Typed == Spec => []TypeOK
<1>1. Inductive => TypeOK
  BY DEF Inductive
<1>2. QED
  BY <1>1, InductiveHolds, PTL

\* What is relayed was signed, for that request, by the node it was sealed to.
THEOREM RelaysAreGenuine == Spec => []RelayedIsOwnAnswer
<1>1. Inductive => RelayedIsOwnAnswer
  BY DEF Inductive
<1>2. QED
  BY <1>1, InductiveHolds, PTL

\* A status below 500, a 503 and an executed "no" are only given to requests
\* that did not run.
THEOREM ErrorsAreTrue == Spec => []ErrorTellsExecution
<1>1. Inductive => ErrorTellsExecution
  BY DEF Inductive
<1>2. QED
  BY <1>1, InductiveHolds, PTL

\* A client that stays is answered, and told if its request was not sent.
THEOREM ClientsAreTold == Spec => []EveryClientIsTold
<1>1. Inductive => EveryClientIsTold
  BY DEF Inductive
<1>2. QED
  BY <1>1, InductiveHolds, PTL

\* No request is sealed and sent for a client that is gone.
THEOREM NothingForTheGone == Spec => NothingSentForTheGone
<1>1. Inductive /\ [Next]_vars => [\A r \in Requests : ~connected[r] => sent'[r] = sent[r]]_vars
  <2> SUFFICES ASSUME Inductive, [Next]_vars, NEW r \in Requests, ~connected[r]
               PROVE  sent'[r] = sent[r]
    OBVIOUS
  <2>1. P!Inductive /\ HandlesItsCall /\ TypeOK
    BY DEF Inductive
  <2>2. aborted[r] \/ pc[r] \in {"idle", "done"}
    BY <2>1 DEF HandlesItsCall, TypeOK
  <2>3. Requests \subseteq C!Calls /\ StartUp \in C!Calls
    BY DEF C!Calls
  <2>4. CASE \/ AttestationSettles \/ Works(StartUp)
             \/ \E q \in Requests : Works(q) \/ UpstreamFails(q) \/ UpstreamAnswers(q)
    <3>1. Runs
      BY <2>3, <2>4 DEF AttestationSettles, Works, UpstreamFails, UpstreamAnswers, Runs
    <3>2. QED
      BY <2>1, <2>2, <3>1, RunsOf
  <2>5. CASE Listen
    <3>1. C!Acquire(StartUp)
      BY <2>5 DEF Listen, C!StartReady
    <3>2. QED
      BY <2>1, <2>3, <3>1, AcquireOf
  <2>6. CASE ClockMoves \/ UNCHANGED vars
    BY <2>6 DEF ClockMoves, C!ClockMoves, C!calls, vars
  <2>7. CASE \E q \in Requests : \/ Begin(q) \/ Handle(q) \/ Disconnect(q)
                                 \/ \E status \in {413, 415} : Refuse(q, status)
    BY <2>7 DEF Begin, Handle, Disconnect, Refuse, client, C!StartRequest, C!Abort
  <2>8. QED
    BY <2>4, <2>5, <2>6, <2>7 DEF Next
<1>2. QED
  BY <1>1, InductiveHolds, PTL DEF Spec, NothingSentForTheGone
=============================================================================
