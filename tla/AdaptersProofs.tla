---------------------------- MODULE AdaptersProofs ----------------------------
(***************************************************************************)
(* Proofs about OpenSession and about the Adapters over it, for any calls  *)
(* and chains.                                                             *)
(*                                                                         *)
(* The session's invariant adds to the checked ones what its memo stands   *)
(* for: a ready verifier is of the pinned chain, a call that has gone on   *)
(* holds one, and a running bootstrap is the memo unless a pin replaced    *)
(* it.  It also holds when a viem request pins and sends in one step; what *)
(* the second part adds is what an adapter knows of the calls it lets      *)
(* through.                                                                *)
(***************************************************************************)
EXTENDS Adapters, TLAPS

-----------------------------------------------------------------------------
(* The session *)

\* A verifier made by pin() or by a resolved bootstrap is the pinned chain's.
MemoStands ==
    /\ verifier.by = None \/ verifier.chain = None
    /\ Ready => ReadyChain = pinned /\ pinned \in Chains
    /\ \A b \in Calls : bootstrap[b].state \in {"verifying", "resolved"} => bootstrap[b].chain \in Chains
    /\ \A b \in Calls : Running(b) => verifier.by = b \/ verifier.chain # None

\* A call that went on holds the pinned chain's verifier, and one that awaits
\* its answer is a send that has posted.  One that has not gone on, or that
\* failed to, has posted nothing.
CallsStand ==
    \A c \in Calls :
        /\ uses[c] # None => uses[c] = pinned /\ pinned \in Chains
        /\ pc[c] \in {"posting", "verifying"} => uses[c] # None /\ c \in Sends /\ posted[c]
        /\ pc[c] \in {"idle", "waiting"} => ~posted[c] /\ outcome[c] = NoOutcome
        /\ pc[c] \in {"posting", "verifying"} => outcome[c] = NoOutcome
        /\ pc[c] = "waiting" => awaits[c] \in Calls
        /\ posted[c] => uses[c] # None /\ outcome[c].kind # "unbound"

Inv ==
    /\ TypeOK
    /\ MemoStands
    /\ CallsStand
    /\ OneChain
    /\ OneBootstrap
    /\ MemoIsLive

LEMMA OutcomeTypes ==
    /\ NoOutcome \in Outcomes
    /\ \A kind \in {"answer", "failed", "unbound"}, chain \in Chains \cup {None} :
          /\ Outcome(kind, chain) \in Outcomes
          /\ Outcome(kind, chain).kind = kind
          /\ Outcome(kind, chain).chain = chain
    /\ NoOutcome.kind = "none"
BY DEF NoOutcome, Outcome, Outcomes

LEMMA MemoTypes ==
    /\ NoVerifier \in Memos /\ NoVerifier.by = None /\ NoVerifier.chain = None
    /\ \A id \in Chains : Made(id) \in Memos /\ Made(id).by = None /\ Made(id).chain = id
    /\ \A c \in Calls : Pending(c) \in Memos /\ Pending(c).by = c /\ Pending(c).chain = None
    /\ \A m \in Memos : m.by = None /\ m.chain = None => m = NoVerifier
    /\ \A s \in {"none", "posting", "verifying", "resolved", "rejected"}, chain \in Chains \cup {None} :
          [state |-> s, chain |-> chain] \in Bootstraps
BY DEF NoVerifier, Made, Pending, Memos, Bootstraps

LEMMA Initially == Init => Inv
<1> SUFFICES ASSUME Init PROVE Inv
  OBVIOUS
<1>1. TypeOK
  BY OutcomeTypes, MemoTypes DEF Init, TypeOK
<1>2. MemoStands /\ OneBootstrap /\ MemoIsLive
  BY MemoTypes, CallsAssumption
     DEF Init, MemoStands, OneBootstrap, MemoIsLive, Ready, ReadyChain, Running
<1>3. CallsStand /\ OneChain
  BY OutcomeTypes DEF Init, CallsStand, OneChain
<1> QED BY <1>1, <1>2, <1>3 DEF Inv

\* Calls that go on with the bound chain's verifier, or return it.
LEMMA ResumeKeeps ==
    ASSUME TypeOK, CallsStand, OneChain, pinned \in {None} \cup Chains,
           NEW C \in SUBSET Calls, NEW chain \in Chains,
           \A c \in C : pc[c] \in {"idle", "waiting"},
           pinned \in {None, chain}, pinned' = chain,
           Resume(C, chain, chain), awaits' = awaits, answer' = answer
    PROVE  /\ CallsStand' /\ OneChain'
           /\ pc' \in [Calls -> {"idle", "waiting", "posting", "verifying", "done"}]
           /\ uses' \in [Calls -> Chains \cup {None}]
           /\ posted' \in [Calls -> BOOLEAN]
           /\ outcome' \in [Calls -> Outcomes]
           /\ \A c \in Calls : pc'[c] = "waiting" => pc[c] = "waiting" /\ c \notin C
<1>1. \A c \in Calls : c \notin C =>
         uses'[c] = uses[c] /\ posted'[c] = posted[c] /\ pc'[c] = pc[c] /\ outcome'[c] = outcome[c]
  BY DEF Resume, TypeOK
<1>2. \A c \in C : uses'[c] = chain /\ pc'[c] \in {"posting", "done"}
  BY DEF Resume, Calls
<1>3. \A c \in C : c \in Sends => pc'[c] = "posting" /\ outcome'[c] = outcome[c] /\ posted'[c]
  BY CallsAssumption DEF Resume, Calls, TypeOK
<1>4. \A c \in C : c \in Asks => pc'[c] = "done" /\ outcome'[c] = Outcome("answer", chain)
                                 /\ posted'[c] = posted[c]
  BY CallsAssumption DEF Resume, Calls, TypeOK
<1>5. \A c \in C : outcome[c] = NoOutcome /\ ~posted[c]
  BY DEF CallsStand
<1>6. chain # None
  BY CallsAssumption
<1>7. pc' \in [Calls -> {"idle", "waiting", "posting", "verifying", "done"}]
  BY DEF Resume, TypeOK
<1>8. uses' \in [Calls -> Chains \cup {None}]
  BY DEF Resume, TypeOK
<1>9. posted' \in [Calls -> BOOLEAN]
  BY DEF Resume, TypeOK
<1>10. outcome' \in [Calls -> Outcomes]
  BY OutcomeTypes DEF Resume, TypeOK
<1>11. CallsStand'
  <2> SUFFICES ASSUME NEW c \in Calls
               PROVE  /\ uses'[c] # None => uses'[c] = pinned' /\ pinned' \in Chains
                      /\ pc'[c] \in {"posting", "verifying"} => uses'[c] # None /\ c \in Sends /\ posted'[c]
                      /\ pc'[c] \in {"idle", "waiting"} => ~posted'[c] /\ outcome'[c] = NoOutcome
                      /\ pc'[c] \in {"posting", "verifying"} => outcome'[c] = NoOutcome
                      /\ pc'[c] = "waiting" => awaits'[c] \in Calls
                      /\ posted'[c] => uses'[c] # None /\ outcome'[c].kind # "unbound"
    BY DEF CallsStand
  <2>1. CASE c \notin C
    BY <1>1, <1>6, <2>1 DEF CallsStand
  <2>2. CASE c \in C /\ c \in Sends
    BY <1>2, <1>3, <1>5, <1>6, <2>2, OutcomeTypes
  <2>3. CASE c \in C /\ c \in Asks
    BY <1>2, <1>4, <1>5, <1>6, <2>3
  <2> QED BY <2>1, <2>2, <2>3 DEF Calls
<1>12. OneChain'
  <2> SUFFICES ASSUME NEW c \in Calls, outcome'[c].kind = "answer"
               PROVE  outcome'[c].chain = pinned' /\ pinned' \in Chains
    BY DEF OneChain
  <2>1. CASE c \notin C
    BY <1>1, <2>1, CallsAssumption DEF OneChain
  <2>2. CASE c \in C /\ c \in Sends
    BY <1>3, <1>5, <2>2, OutcomeTypes
  <2>3. CASE c \in C /\ c \in Asks
    BY <1>4, <2>3, OutcomeTypes
  <2> QED BY <2>1, <2>2, <2>3 DEF Calls
<1>13. \A c \in Calls : pc'[c] = "waiting" => pc[c] = "waiting" /\ c \notin C
  BY <1>1, <1>2
<1> QED BY <1>7, <1>8, <1>9, <1>10, <1>11, <1>12, <1>13

\* A step of one call that leaves the session alone and does not wait.
LEMMA FinishKeeps ==
    ASSUME Inv, NEW c \in Calls, NEW ending \in Outcomes,
           pc[c] \in {"posting", "verifying"}, Finish(c, ending), answer' = answer,
           ending.kind = "failed" \/ (ending.kind = "answer" /\ ending.chain = uses[c])
    PROVE  Inv'
<1>1. /\ pc' = [pc EXCEPT ![c] = "done"]
      /\ outcome' = [outcome EXCEPT ![c] = ending]
      /\ UNCHANGED <<pinned, verifier, bootstrap, awaits, uses, posted, answer>>
  BY DEF Finish, session
<1>2. TypeOK'
  BY <1>1 DEF Inv, TypeOK
<1>3. MemoStands' /\ OneBootstrap'
  BY <1>1 DEF Inv, MemoStands, OneBootstrap, Ready, ReadyChain, Running
<1>4. MemoIsLive'
  BY <1>1 DEF Inv, TypeOK, MemoIsLive, Running
<1>5. CallsStand'
  BY <1>1 DEF Inv, TypeOK, CallsStand
<1>6. OneChain'
  BY <1>1 DEF Inv, TypeOK, OneChain, CallsStand
<1> QED BY <1>2, <1>3, <1>4, <1>5, <1>6 DEF Inv

\* A rejected bootstrap takes its memo along, and its waiters.
LEMMA RejectKeeps ==
    ASSUME Inv, NEW b \in Calls, Running(b), Reject(b)
    PROVE  Inv'
<1> USE DEF Inv
<1> DEFINE failed == Outcome("unbound", None)
<1>1. failed \in Outcomes /\ failed.kind = "unbound"
  BY OutcomeTypes
<1>2. /\ bootstrap' \in [Calls -> Bootstraps]
      /\ bootstrap'[b].state = "rejected"
      /\ \A d \in Calls : d # b => bootstrap'[d] = bootstrap[d]
  BY MemoTypes DEF Reject, TypeOK
<1>3. /\ verifier' = IF verifier.by = b THEN NoVerifier ELSE verifier
      /\ UNCHANGED <<pinned, awaits, uses, posted, answer>>
  BY DEF Reject
<1>4. /\ pc' \in [Calls -> {"idle", "waiting", "posting", "verifying", "done"}]
      /\ outcome' \in [Calls -> Outcomes]
      /\ \A c \in Calls : c \in Waiters(b) => pc'[c] = "done" /\ outcome'[c] = failed
      /\ \A c \in Calls : c \notin Waiters(b) => pc'[c] = pc[c] /\ outcome'[c] = outcome[c]
  BY <1>1 DEF Reject, TypeOK
<1> HIDE DEF failed
<1>5. ~Running(b)' /\ \A d \in Calls : d # b => Running(d)' = Running(d)
  BY <1>2 DEF Running
<1>6. verifier' \in Memos
  BY <1>3, MemoTypes DEF TypeOK
<1>7. TypeOK'
  BY <1>2, <1>3, <1>4, <1>6 DEF TypeOK
<1>8. b # None
  BY CallsAssumption
<1>9. verifier.by \in Calls \cup {None}
  BY DEF TypeOK, Memos
<1>10. MemoStands'
  <2>1. verifier'.by = None \/ verifier'.chain = None
    BY <1>3, MemoTypes DEF MemoStands
  <2>2. Ready' => ReadyChain' = pinned' /\ pinned' \in Chains
    <3>1. CASE verifier.by = b
      <4>1. ~Ready'
        BY <1>3, <3>1, MemoTypes DEF Ready
      <4> QED BY <4>1
    <3>2. CASE verifier.by # b
      <4>1. verifier' = verifier /\ (verifier.by # None => bootstrap'[verifier.by] = bootstrap[verifier.by])
        BY <1>2, <1>3, <1>9, <3>2
      <4>2. Ready' = Ready /\ ReadyChain' = ReadyChain
        BY <4>1 DEF Ready, ReadyChain
      <4> QED BY <1>3, <4>2 DEF MemoStands
    <3> QED BY <3>1, <3>2
  <2>3. \A d \in Calls : bootstrap'[d].state \in {"verifying", "resolved"} => bootstrap'[d].chain \in Chains
    BY <1>2 DEF MemoStands
  <2>4. \A d \in Calls : Running(d)' => verifier'.by = d \/ verifier'.chain # None
    <3> SUFFICES ASSUME NEW d \in Calls, d # b, Running(d)
                 PROVE  verifier'.by = d \/ verifier'.chain # None
      BY <1>5
    <3> QED BY DEF OneBootstrap
  <2> QED BY <2>1, <2>2, <2>3, <2>4 DEF MemoStands
<1>11. CallsStand'
  <2> SUFFICES ASSUME NEW c \in Calls
               PROVE  /\ uses'[c] # None => uses'[c] = pinned' /\ pinned' \in Chains
                      /\ pc'[c] \in {"posting", "verifying"} => uses'[c] # None /\ c \in Sends /\ posted'[c]
                      /\ pc'[c] \in {"idle", "waiting"} => ~posted'[c] /\ outcome'[c] = NoOutcome
                      /\ pc'[c] \in {"posting", "verifying"} => outcome'[c] = NoOutcome
                      /\ pc'[c] = "waiting" => awaits'[c] \in Calls
                      /\ posted'[c] => uses'[c] # None /\ outcome'[c].kind # "unbound"
    BY DEF CallsStand
  <2>1. CASE c \in Waiters(b)
    <3>1. ~posted[c]
      BY <2>1 DEF Waiters, CallsStand
    <3> QED BY <1>3, <1>4, <2>1, <3>1 DEF CallsStand
  <2>2. CASE c \notin Waiters(b)
    BY <1>3, <1>4, <2>2 DEF CallsStand
  <2> QED BY <2>1, <2>2
<1>12. OneChain'
  BY <1>1, <1>3, <1>4 DEF OneChain
<1>13. OneBootstrap'
  BY <1>5 DEF OneBootstrap
<1>14. MemoIsLive'
  <2>1. verifier'.by # None => bootstrap'[verifier'.by].state \in {"posting", "verifying", "resolved"}
    BY <1>2, <1>3, <1>9, MemoTypes DEF MemoIsLive
  <2>2. ASSUME NEW c \in Calls, pc'[c] = "waiting"
        PROVE  Running(awaits[c])'
    <3>1. pc[c] = "waiting" /\ c \notin Waiters(b)
      BY <1>4, <2>2
    <3>2. awaits[c] # b /\ awaits[c] \in Calls /\ Running(awaits[c])
      BY <3>1 DEF Waiters, CallsStand, MemoIsLive
    <3>3. bootstrap'[awaits[c]] = bootstrap[awaits[c]]
      BY <1>2, <3>2
    <3> QED BY <1>3, <3>2, <3>3 DEF Running
  <2> QED BY <2>1, <2>2 DEF MemoIsLive
<1> QED BY <1>7, <1>10, <1>11, <1>12, <1>13, <1>14

\* While nothing is pinned nobody holds a verifier or has returned an answer.
LEMMA PinKeeps ==
    ASSUME Inv, NEW id \in Chains \cup BadIds, Pin(id)
    PROVE  Inv'
<1> USE DEF Inv
<1>1. /\ pinned = None /\ pinned' = id /\ id # None
      /\ verifier' = IF id \in Chains THEN Made(id) ELSE verifier
      /\ UNCHANGED <<bootstrap, pc, awaits, uses, posted, answer, outcome>>
  BY CallsAssumption DEF Pin
<1>2. /\ \A c \in Calls : uses[c] = None /\ outcome[c].kind # "answer"
      /\ ~Ready
  BY <1>1, CallsAssumption DEF CallsStand, OneChain, MemoStands
<1>3. TypeOK'
  BY <1>1, MemoTypes DEF TypeOK
<1>4. CallsStand' /\ OneChain'
  BY <1>1, <1>2 DEF CallsStand, OneChain
<1>5. OneBootstrap'
  BY <1>1 DEF OneBootstrap, Running
<1>6. MemoStands' /\ MemoIsLive'
  <2>1. CASE id \in Chains
    BY <1>1, <2>1, MemoTypes DEF MemoStands, MemoIsLive, Ready, ReadyChain, Running
  <2>2. CASE id \notin Chains
    BY <1>1, <1>2, <2>2 DEF MemoStands, MemoIsLive, Ready, ReadyChain, Running
  <2> QED BY <2>1, <2>2
<1> QED BY <1>3, <1>4, <1>5, <1>6

LEMMA EnterReadyKeeps ==
    ASSUME Inv, NEW c \in Calls, EnterReady(c)
    PROVE  Inv'
<1> USE DEF Inv
<1>1. /\ pc[c] = "idle" /\ Ready
      /\ Resume({c}, ReadyChain, pinned)
      /\ UNCHANGED <<pinned, verifier, bootstrap, awaits, answer>>
  BY DEF EnterReady, session
<1>2. ReadyChain = pinned /\ pinned \in Chains
  BY <1>1 DEF MemoStands
<1>3. /\ CallsStand' /\ OneChain'
      /\ pc' \in [Calls -> {"idle", "waiting", "posting", "verifying", "done"}]
      /\ uses' \in [Calls -> Chains \cup {None}]
      /\ posted' \in [Calls -> BOOLEAN]
      /\ outcome' \in [Calls -> Outcomes]
      /\ \A d \in Calls : pc'[d] = "waiting" => pc[d] = "waiting"
  <2>1. {c} \in SUBSET Calls /\ \A d \in {c} : pc[d] \in {"idle", "waiting"}
    BY <1>1
  <2>2. Resume({c}, pinned, pinned)
    BY <1>1, <1>2
  <2> QED BY <1>1, <1>2, <2>1, <2>2, ResumeKeeps
<1>4. TypeOK'
  BY <1>1, <1>3 DEF TypeOK
<1>5. MemoStands' /\ OneBootstrap'
  BY <1>1 DEF MemoStands, OneBootstrap, Ready, ReadyChain, Running
<1>6. MemoIsLive'
  BY <1>1, <1>3 DEF MemoIsLive, Running
<1> QED BY <1>3, <1>4, <1>5, <1>6

LEMMA EnterJoinKeeps ==
    ASSUME Inv, NEW c \in Calls, EnterJoin(c)
    PROVE  Inv'
<1> USE DEF Inv
<1>1. /\ pc[c] = "idle" /\ ~Ready /\ verifier # NoVerifier
      /\ pc' = [pc EXCEPT ![c] = "waiting"]
      /\ awaits' = [awaits EXCEPT ![c] = verifier.by]
      /\ UNCHANGED <<pinned, verifier, bootstrap, uses, posted, answer, outcome>>
  BY DEF EnterJoin, session
<1>2. verifier.by \in Calls
  BY <1>1, MemoTypes DEF Ready, TypeOK, Memos
<1>3. Running(verifier.by)
  BY <1>1, <1>2, CallsAssumption DEF Ready, MemoIsLive, Running
<1>4. TypeOK'
  BY <1>1, <1>2 DEF TypeOK
<1>5. MemoStands' /\ OneBootstrap' /\ OneChain'
  BY <1>1 DEF MemoStands, OneBootstrap, OneChain, Ready, ReadyChain, Running
<1>6. CallsStand'
  BY <1>1, <1>2 DEF CallsStand, TypeOK
<1>7. MemoIsLive'
  BY <1>1, <1>3 DEF MemoIsLive, Running, TypeOK
<1> QED BY <1>4, <1>5, <1>6, <1>7

\* Only a session without any memo starts a bootstrap: none is running.
LEMMA EnterBootstrapKeeps ==
    ASSUME Inv, NEW c \in Calls, EnterBootstrap(c)
    PROVE  Inv'
<1> USE DEF Inv
<1>1. /\ pc[c] = "idle" /\ verifier = NoVerifier
      /\ verifier' = Pending(c)
      /\ bootstrap' = [bootstrap EXCEPT ![c] = [state |-> "posting", chain |-> None]]
      /\ pc' = [pc EXCEPT ![c] = "waiting"]
      /\ awaits' = [awaits EXCEPT ![c] = c]
      /\ UNCHANGED <<pinned, uses, posted, answer, outcome>>
  BY DEF EnterBootstrap
<1>2. c # None
  BY CallsAssumption
<1>3. \A b \in Calls : ~Running(b)
  BY <1>1, MemoTypes, CallsAssumption DEF MemoStands
<1>4. /\ bootstrap' \in [Calls -> Bootstraps]
      /\ bootstrap'[c].state = "posting"
      /\ \A d \in Calls : d # c => bootstrap'[d] = bootstrap[d]
  BY <1>1, MemoTypes DEF TypeOK
<1>5. Running(c)' /\ \A d \in Calls : d # c => ~Running(d)'
  BY <1>3, <1>4 DEF Running
<1>6. TypeOK'
  BY <1>1, <1>4, MemoTypes DEF TypeOK
<1>7. MemoStands'
  <2>1. ~Ready'
    BY <1>1, <1>2, <1>4, MemoTypes DEF Ready
  <2>2. verifier'.chain = None /\ verifier'.by = c
    BY <1>1, MemoTypes
  <2> QED BY <1>4, <1>5, <2>1, <2>2 DEF MemoStands
<1>8. OneBootstrap'
  BY <1>5 DEF OneBootstrap
<1>9. CallsStand' /\ OneChain'
  BY <1>1 DEF CallsStand, OneChain, TypeOK
<1>10. MemoIsLive'
  <2>1. \A d \in Calls : pc[d] # "waiting"
    BY <1>3 DEF MemoIsLive, CallsStand
  <2>2. \A d \in Calls : pc'[d] = "waiting" => d = c /\ awaits'[d] = c
    BY <1>1, <2>1 DEF TypeOK
  <2>3. \A d \in Calls : pc'[d] = "waiting" => Running(awaits[d])'
    BY <1>5, <2>2 DEF Running
  <2> QED BY <1>1, <1>4, <2>3, MemoTypes DEF MemoIsLive
<1> QED BY <1>6, <1>7, <1>8, <1>9, <1>10

LEMMA BootstrapAnsweredKeeps ==
    ASSUME Inv, NEW b \in Calls, NEW chain \in Chains, BootstrapAnswered(b, chain)
    PROVE  Inv'
<1> USE DEF Inv
<1>1. /\ bootstrap[b].state = "posting"
      /\ bootstrap' = [bootstrap EXCEPT ![b] = [state |-> "verifying", chain |-> chain]]
      /\ UNCHANGED <<pinned, verifier, pc, awaits, uses, posted, answer, outcome>>
  BY DEF BootstrapAnswered
<1>2. /\ bootstrap' \in [Calls -> Bootstraps]
      /\ bootstrap'[b].state = "verifying" /\ bootstrap'[b].chain = chain
      /\ \A d \in Calls : d # b => bootstrap'[d] = bootstrap[d]
  BY <1>1, MemoTypes DEF TypeOK
<1>3. \A d \in Calls : Running(d)' = Running(d)
  BY <1>1, <1>2 DEF Running
<1>4. verifier.by \in Calls \cup {None}
  BY DEF TypeOK, Memos
<1>5. TypeOK' /\ CallsStand' /\ OneChain'
  BY <1>1, <1>2 DEF TypeOK, CallsStand, OneChain
<1>6. OneBootstrap'
  BY <1>3 DEF OneBootstrap
<1>7. MemoStands'
  <2>1. Ready' = Ready /\ (Ready => ReadyChain' = ReadyChain)
    BY <1>1, <1>2, <1>4 DEF Ready, ReadyChain
  <2> QED BY <1>1, <1>2, <1>3, <2>1 DEF MemoStands
<1>8. MemoIsLive'
  <2>1. \A c \in Calls : pc'[c] = "waiting" => Running(awaits[c])'
    BY <1>1, <1>2 DEF Running, MemoIsLive, CallsStand
  <2> QED BY <1>1, <1>2, <1>4, <2>1 DEF MemoIsLive
<1> QED BY <1>5, <1>6, <1>7, <1>8

LEMMA BootstrapVerifiedKeeps ==
    ASSUME Inv, NEW b \in Calls, BootstrapVerified(b)
    PROVE  Inv'
<1> USE DEF Inv
<1> DEFINE chain == bootstrap[b].chain
<1>1. bootstrap[b].state = "verifying" /\ chain \in Chains /\ Running(b)
  BY DEF BootstrapVerified, MemoStands, Running
<1>2. CASE pinned \notin {None, chain}
  BY <1>1, <1>2, RejectKeeps DEF BootstrapVerified
<1>3. CASE pinned \in {None, chain}
  <2>1. /\ pinned' = chain
        /\ bootstrap' = [bootstrap EXCEPT ![b] = [state |-> "resolved", chain |-> chain]]
        /\ Resume(Waiters(b), chain, chain)
        /\ UNCHANGED <<verifier, awaits, answer>>
    BY <1>3 DEF BootstrapVerified
  <2> HIDE DEF chain
  <2>2. /\ CallsStand' /\ OneChain'
        /\ pc' \in [Calls -> {"idle", "waiting", "posting", "verifying", "done"}]
        /\ uses' \in [Calls -> Chains \cup {None}]
        /\ posted' \in [Calls -> BOOLEAN]
        /\ outcome' \in [Calls -> Outcomes]
        /\ \A d \in Calls : pc'[d] = "waiting" => pc[d] = "waiting" /\ d \notin Waiters(b)
    <3>1. Waiters(b) \in SUBSET Calls /\ \A d \in Waiters(b) : pc[d] \in {"idle", "waiting"}
      BY DEF Waiters
    <3>2. pinned \in {None} \cup Chains
      BY <1>1, <1>3
    <3> QED BY <1>1, <1>3, <2>1, <3>1, <3>2, ResumeKeeps
  <2>3. /\ bootstrap' \in [Calls -> Bootstraps]
        /\ bootstrap'[b].state = "resolved" /\ bootstrap'[b].chain = chain
        /\ \A d \in Calls : d # b => bootstrap'[d] = bootstrap[d]
    BY <1>1, <2>1, MemoTypes DEF TypeOK
  <2>4. ~Running(b)' /\ \A d \in Calls : d # b => Running(d)' = Running(d)
    BY <2>3 DEF Running
  <2>5. verifier.by \in Calls \cup {None}
    BY DEF TypeOK, Memos
  <2>6. TypeOK'
    BY <1>1, <2>1, <2>2, <2>3 DEF TypeOK
  <2>7. OneBootstrap'
    BY <2>4 DEF OneBootstrap
  <2>8. MemoStands'
    <3>1. Ready' => ReadyChain' = pinned' /\ pinned' \in Chains
      <4>1. CASE verifier.by = b
        BY <1>1, <2>1, <2>3, <4>1, CallsAssumption DEF ReadyChain
      <4>2. CASE verifier.by # b
        <5>1. Ready' = Ready /\ ReadyChain' = ReadyChain
          BY <2>1, <2>3, <2>5, <4>2 DEF Ready, ReadyChain
        <5>2. Ready => pinned = chain
          BY <1>3, CallsAssumption DEF MemoStands
        <5> QED BY <1>1, <2>1, <5>1, <5>2 DEF MemoStands
      <4> QED BY <4>1, <4>2
    <3> QED BY <1>1, <2>1, <2>3, <2>4, <3>1 DEF MemoStands
  <2>9. MemoIsLive'
    <3>1. ASSUME NEW c \in Calls, pc'[c] = "waiting"
          PROVE  Running(awaits[c])'
      <4>1. pc[c] = "waiting" /\ awaits[c] # b
        BY <2>2, <3>1 DEF Waiters
      <4>2. awaits[c] \in Calls /\ Running(awaits[c])
        BY <4>1 DEF CallsStand, MemoIsLive
      <4>3. bootstrap'[awaits[c]] = bootstrap[awaits[c]]
        BY <2>3, <4>1, <4>2
      <4> QED BY <2>1, <4>2, <4>3 DEF Running
    <3>2. verifier'.by # None => bootstrap'[verifier'.by].state \in {"posting", "verifying", "resolved"}
      BY <2>1, <2>3, <2>5 DEF MemoIsLive
    <3> QED BY <3>1, <3>2 DEF MemoIsLive
  <2> QED BY <2>2, <2>6, <2>7, <2>8, <2>9
<1> QED BY <1>2, <1>3

\* What a call does with the verifier it holds.
LEMMA CallKeeps ==
    ASSUME Inv, NEW c \in Calls, PostFails(c) \/ Receive(c) \/ Verify(c)
    PROVE  Inv'
<1>1. None \in Chains \cup {None} /\ answer[c] \in Chains \cup {None}
  BY DEF Inv, TypeOK
<1>2. CASE PostFails(c)
  BY <1>1, <1>2, FinishKeeps, OutcomeTypes DEF PostFails
<1>3. CASE Receive(c)
  <2>1. /\ pc[c] = "posting" /\ pc' = [pc EXCEPT ![c] = "verifying"]
        /\ answer' \in [Calls -> Chains \cup {None}]
        /\ UNCHANGED <<pinned, verifier, bootstrap, awaits, uses, posted, outcome>>
    BY <1>3 DEF Receive, session, Inv, TypeOK
  <2>2. TypeOK' /\ CallsStand'
    BY <2>1 DEF Inv, TypeOK, CallsStand
  <2>3. MemoStands' /\ OneBootstrap' /\ OneChain'
    BY <2>1 DEF Inv, MemoStands, OneBootstrap, OneChain, Ready, ReadyChain, Running
  <2>4. MemoIsLive'
    BY <2>1 DEF Inv, TypeOK, MemoIsLive, Running
  <2> QED BY <2>2, <2>3, <2>4 DEF Inv
<1>4. CASE Verify(c)
  <2>1. pc[c] = "verifying" /\ answer' = answer
    BY <1>4 DEF Verify
  <2>2. CASE Finish(c, Outcome("failed", None))
    BY <1>1, <2>1, <2>2, FinishKeeps, OutcomeTypes
  <2>3. CASE answer[c] = uses[c] /\ Finish(c, Outcome("answer", answer[c]))
    BY <1>1, <2>1, <2>3, FinishKeeps, OutcomeTypes
  <2> QED BY <1>4, <2>2, <2>3 DEF Verify
<1> QED BY <1>2, <1>3, <1>4

LEMMA StepKeeps == Inv /\ [Next]_vars => Inv'
<1> SUFFICES ASSUME Inv, [Next]_vars PROVE Inv'
  OBVIOUS
<1>1. CASE UNCHANGED vars
  BY <1>1 DEF vars, Inv, TypeOK, MemoStands, CallsStand, OneChain, OneBootstrap, MemoIsLive,
              Ready, ReadyChain, Running
<1>2. ASSUME NEW id \in Chains \cup BadIds, Pin(id) PROVE Inv'
  BY <1>2, PinKeeps
<1>3. ASSUME NEW c \in Calls, EnterReady(c) PROVE Inv'
  BY <1>3, EnterReadyKeeps
<1>4. ASSUME NEW c \in Calls, EnterJoin(c) PROVE Inv'
  BY <1>4, EnterJoinKeeps
<1>5. ASSUME NEW c \in Calls, EnterBootstrap(c) PROVE Inv'
  BY <1>5, EnterBootstrapKeeps
<1>6. ASSUME NEW b \in Calls, NEW chain \in Chains, BootstrapAnswered(b, chain) PROVE Inv'
  BY <1>6, BootstrapAnsweredKeeps
<1>7. ASSUME NEW b \in Calls, BootstrapFails(b) PROVE Inv'
  BY <1>7, RejectKeeps DEF BootstrapFails
<1>8. ASSUME NEW b \in Calls, BootstrapVerified(b) PROVE Inv'
  BY <1>8, BootstrapVerifiedKeeps
<1>9. ASSUME NEW c \in Calls, PostFails(c) \/ Receive(c) \/ Verify(c) PROVE Inv'
  BY <1>9, CallKeeps
<1> QED BY <1>1, <1>2, <1>3, <1>4, <1>5, <1>6, <1>7, <1>8, <1>9 DEF Next

LEMMA Invariance == Spec => []Inv
<1>1. Inv /\ [Next]_vars => Inv'
  BY StepKeeps
<1> QED BY <1>1, Initially, PTL DEF Spec

\* Every variable keeps its type.
THEOREM TypeCorrect == Spec => []TypeOK
<1>1. Inv => TypeOK
  BY DEF Inv
<1> QED BY <1>1, Invariance, PTL

\* A session answers for one chain only, whatever pins and bootstraps raced.
THEOREM AnswersAreOfOneChain == Spec => []OneChain
<1>1. Inv => OneChain
  BY DEF Inv
<1> QED BY <1>1, Invariance, PTL

\* No payload leaves before the session is bound; an unbound call posted nothing.
THEOREM NothingLeavesUnbound == Spec => []PostedOnlyWhenBound
<1>1. Inv => PostedOnlyWhenBound
  BY DEF Inv, CallsStand, PostedOnlyWhenBound, Calls
<1> QED BY <1>1, Invariance, PTL

\* The calls of an unbound session share one bootstrap.
THEOREM BootstrapIsShared == Spec => []OneBootstrap
<1>1. Inv => OneBootstrap
  BY DEF Inv
<1> QED BY <1>1, Invariance, PTL

\* Nobody waits for a bootstrap that has ended, and none is kept.
THEOREM NobodyWaitsInVain == Spec => []MemoIsLive
<1>1. Inv => MemoIsLive
  BY DEF Inv
<1> QED BY <1>1, Invariance, PTL

LEMMA StepKeepsBinding ==
  Inv /\ [Next]_vars => [pinned # None => pinned' = pinned]_pinned
  BY DEF vars, session, Next, Pin, EnterReady, EnterJoin, EnterBootstrap, BootstrapAnswered, BootstrapFails,
         BootstrapVerified, Reject, PostFails, Receive, Verify, Finish

\* The chain a session is bound to never changes.
THEOREM BoundForGood == Spec => BindingIsFinal
<1>1. Inv /\ [Next]_vars => [pinned # None => pinned' = pinned]_pinned
  BY StepKeepsBinding
<1> QED BY <1>1, Invariance, PTL DEF Spec, BindingIsFinal

LEMMA StepKeepsVerifier ==
  Inv /\ [Next]_vars => [Ready => Ready' /\ ReadyChain' = ReadyChain]_vars
<1> SUFFICES ASSUME Inv, Next, Ready
             PROVE  Ready' /\ ReadyChain' = ReadyChain
  OBVIOUS
<1> USE DEF Inv
<1>1. pinned \in Chains /\ pinned # None /\ verifier # NoVerifier /\ verifier.by \in Calls \cup {None}
  BY CallsAssumption, MemoTypes DEF MemoStands, Ready, TypeOK, Memos
<1>2. CASE \E b \in Calls : bootstrap[b].state \in {"posting", "verifying"} /\
              \E r \in Bootstraps : bootstrap' = [bootstrap EXCEPT ![b] = r] /\
                 verifier' = IF verifier.by = b THEN NoVerifier ELSE verifier
  BY <1>1, <1>2, CallsAssumption DEF Ready, ReadyChain, TypeOK
<1>3. CASE \E b \in Calls : bootstrap[b].state \in {"posting", "verifying"} /\
              \E r \in Bootstraps : bootstrap' = [bootstrap EXCEPT ![b] = r] /\ verifier' = verifier
  BY <1>1, <1>3, CallsAssumption DEF Ready, ReadyChain, TypeOK
<1>4. CASE UNCHANGED <<verifier, bootstrap>>
  BY <1>4 DEF Ready, ReadyChain
<1>5. CASE \E id \in Chains \cup BadIds : Pin(id)
  BY <1>1, <1>5 DEF Pin
<1>6. CASE \E c \in Calls : EnterBootstrap(c)
  BY <1>1, <1>6 DEF EnterBootstrap
<1>7. CASE \E b \in Calls : BootstrapFails(b) \/ BootstrapVerified(b)
  <2>1. PICK b \in Calls : BootstrapFails(b) \/ BootstrapVerified(b)
    BY <1>7
  <2>2. [state |-> "rejected", chain |-> None] \in Bootstraps
        /\ [state |-> "resolved", chain |-> bootstrap[b].chain] \in Bootstraps
    BY MemoTypes DEF TypeOK, Bootstraps
  <2> QED BY <1>2, <1>3, <2>1, <2>2 DEF BootstrapFails, BootstrapVerified, Reject, Running
<1>8. CASE \E b \in Calls, chain \in Chains : BootstrapAnswered(b, chain)
  <2>1. PICK b \in Calls, chain \in Chains : BootstrapAnswered(b, chain)
    BY <1>8
  <2>2. [state |-> "verifying", chain |-> chain] \in Bootstraps
    BY MemoTypes
  <2> QED BY <1>3, <2>1, <2>2 DEF BootstrapAnswered
<1>9. CASE \E c \in Calls : EnterReady(c) \/ EnterJoin(c) \/ PostFails(c) \/ Receive(c) \/ Verify(c)
  BY <1>4, <1>9 DEF EnterReady, EnterJoin, PostFails, Receive, Verify, Finish, session
<1> QED BY <1>5, <1>6, <1>7, <1>8, <1>9 DEF Next

\* A verifier is never replaced, not by a bootstrap that fails late either.
THEOREM VerifierIsKept == Spec => VerifierStays
<1>1. Inv /\ [Next]_vars => [Ready => Ready' /\ ReadyChain' = ReadyChain]_vars
  BY StepKeepsVerifier
<1> QED BY <1>1, Invariance, PTL DEF Spec, VerifierStays

-----------------------------------------------------------------------------
(* The session implements BoundSession *)

\* The abstract state, under the names of BoundSession.
BoundTo == IF pinned \in Chains THEN pinned ELSE None
SentBy == {c \in Sends : posted[c]}

LEMMA InitIsBound == Init => Promise!Init
BY DEF Init, Promise!Init, Promise!Nothing, NoOutcome, Calls

\* A step that binds nothing, sends nothing and tells nobody is hidden.
LEMMA HiddenStep ==
    ASSUME UNCHANGED <<pinned, posted, outcome>>
    PROVE  UNCHANGED Promise!vars
BY DEF Promise!vars

\* The calls that go on with the chain of the session, which may have been
\* bound to it in the same step.
LEMMA ResumeIsBind ==
    ASSUME Inv, NEW C \in SUBSET Calls, NEW k \in Chains,
           \A c \in C : pc[c] \in {"idle", "waiting"},
           pinned \in {None, k}, pinned' = k, Resume(C, k, k)
    PROVE  Promise!Next
<1>1. C \in SUBSET Promise!Fresh
  BY DEF Inv, CallsStand, Promise!Fresh, Promise!Nothing, NoOutcome, Calls
<1>2. BoundTo \in {None, k} /\ BoundTo' = k
  BY CallsAssumption DEF BoundTo
<1>3. SentBy' = SentBy \cup (C \cap Sends)
  BY DEF Resume, SentBy, Calls
<1>4. Promise!Tell(C \cap Asks, "answer", k)
  BY DEF Resume, Promise!Tell, Outcome, Calls
<1>5. Promise!Bind(k, C)
  BY <1>2, <1>3, <1>4 DEF BoundTo, SentBy, Promise!Bind
<1> QED BY <1>1, <1>5 DEF Promise!Next

\* A bootstrap that ends without a binding: its waiters are told, and none of
\* them has sent anything.
LEMMA RejectIsGiveUp ==
    ASSUME Inv, NEW b \in Calls, Reject(b)
    PROVE  Promise!Next
<1>1. Waiters(b) \in SUBSET Promise!Fresh
  BY DEF Inv, CallsStand, Waiters, Promise!Fresh, Promise!Nothing, NoOutcome, Calls
<1>2. Promise!Tell(Waiters(b), "unbound", None)
  BY DEF Reject, Promise!Tell, Outcome, Calls
<1>3. UNCHANGED <<pinned, posted>>
  BY DEF Reject
<1>4. Promise!GiveUp(Waiters(b))
  BY <1>2, <1>3 DEF Promise!GiveUp
<1> QED BY <1>1, <1>4 DEF Promise!Next

\* One send behind its payload.
LEMMA FinishIsEnd ==
    ASSUME Inv, NEW c \in Calls, pc[c] \in {"posting", "verifying"},
           NEW kind \in {"failed", "answer"},
           NEW chain, chain = IF kind = "answer" THEN uses[c] ELSE None,
           Finish(c, Outcome(kind, chain))
    PROVE  Promise!Next
<1>1. c \in Sends /\ c \in SentBy /\ outcome[c] = Promise!Nothing
  BY DEF Inv, CallsStand, SentBy, Promise!Nothing, NoOutcome
<1>2. uses[c] = BoundTo
  BY DEF Inv, CallsStand, BoundTo
<1>3. UNCHANGED <<pinned, posted>>
  BY DEF Finish, session
<1>4. Promise!Tell({c}, kind, chain)
  BY DEF Finish, Inv, TypeOK, Promise!Tell, Outcome, Calls
<1>5. CASE kind = "failed"
  BY <1>1, <1>3, <1>4, <1>5 DEF SentBy, Promise!Next, Promise!Fail
<1>6. CASE kind = "answer"
  BY <1>1, <1>2, <1>3, <1>4, <1>6 DEF SentBy, BoundTo, Promise!Next, Promise!Answer
<1> QED BY <1>5, <1>6

LEMMA PinIsBind ==
    ASSUME Inv, NEW id \in Chains \cup BadIds, Pin(id)
    PROVE  [Promise!Next]_(Promise!vars)
<1>1. /\ pinned = None /\ pinned' = id
      /\ UNCHANGED <<posted, outcome>>
  BY DEF Pin
<1>2. CASE id \in Chains
  <2>1. Promise!Tell({} \cap Asks, "answer", id)
    BY <1>1 DEF Inv, TypeOK, Promise!Tell, Calls
  <2>2. Promise!Bind(id, {})
    BY <1>1, <1>2, <2>1, CallsAssumption DEF Promise!Bind
  <2> QED BY <1>2, <2>2 DEF Promise!Next
<1>3. CASE id \in BadIds
  BY <1>1, <1>3, CallsAssumption DEF Promise!vars
<1> QED BY <1>2, <1>3

LEMMA StepIsBound == Inv /\ [Next]_vars => [Promise!Next]_(Promise!vars)
<1> SUFFICES ASSUME Inv, [Next]_vars PROVE [Promise!Next]_(Promise!vars)
  OBVIOUS
<1>1. CASE UNCHANGED vars
  BY <1>1, HiddenStep DEF vars
<1>2. ASSUME NEW id \in Chains \cup BadIds, Pin(id) PROVE [Promise!Next]_(Promise!vars)
  BY <1>2, PinIsBind
<1>3. ASSUME NEW c \in Calls, EnterReady(c) PROVE Promise!Next
  <2>1. ReadyChain = pinned /\ pinned \in Chains /\ pinned' = pinned
    BY <1>3 DEF EnterReady, session, Inv, MemoStands
  <2>2. Resume({c}, pinned, pinned) /\ {c} \in SUBSET Calls /\ \A d \in {c} : pc[d] \in {"idle", "waiting"}
    BY <1>3, <2>1 DEF EnterReady
  <2> QED BY <2>1, <2>2, ResumeIsBind
<1>4. ASSUME NEW c \in Calls, EnterJoin(c) \/ EnterBootstrap(c) \/ Receive(c)
             \/ \E chain \in Chains : BootstrapAnswered(c, chain)
      PROVE  UNCHANGED Promise!vars
  BY <1>4, HiddenStep DEF EnterJoin, EnterBootstrap, Receive, BootstrapAnswered, session
<1>5. ASSUME NEW b \in Calls, BootstrapFails(b) PROVE Promise!Next
  BY <1>5, RejectIsGiveUp DEF BootstrapFails
<1>6. ASSUME NEW b \in Calls, BootstrapVerified(b) PROVE Promise!Next
  <2> DEFINE chain == bootstrap[b].chain
  <2>1. chain \in Chains
    BY <1>6 DEF BootstrapVerified, Inv, MemoStands
  <2>2. CASE pinned \notin {None, chain}
    BY <1>6, <2>2, RejectIsGiveUp DEF BootstrapVerified
  <2>3. CASE pinned \in {None, chain}
    <3>1. pinned' = chain /\ Resume(Waiters(b), chain, chain)
      BY <1>6, <2>3 DEF BootstrapVerified
    <3>2. Waiters(b) \in SUBSET Calls /\ \A d \in Waiters(b) : pc[d] \in {"idle", "waiting"}
      BY DEF Waiters
    <3> HIDE DEF chain
    <3> QED BY <2>1, <2>3, <3>1, <3>2, ResumeIsBind
  <2> QED BY <2>2, <2>3
<1>7. ASSUME NEW c \in Calls, PostFails(c) PROVE Promise!Next
  BY <1>7, FinishIsEnd DEF PostFails
<1>8. ASSUME NEW c \in Calls, Verify(c) PROVE Promise!Next
  <2>1. pc[c] \in {"posting", "verifying"}
    BY <1>8 DEF Verify
  <2>2. CASE Finish(c, Outcome("failed", None))
    BY <2>1, <2>2, FinishIsEnd
  <2>3. CASE answer[c] = uses[c] /\ Finish(c, Outcome("answer", answer[c]))
    BY <2>1, <2>3, FinishIsEnd
  <2> QED BY <1>8, <2>2, <2>3 DEF Verify
<1> QED BY <1>1, <1>2, <1>3, <1>4, <1>5, <1>6, <1>7, <1>8 DEF Next

\* The session implements the register its callers rely on: bound once, no
\* payload before, every answer of that chain.
THEOREM SessionKeepsBinding == Spec => KeepsBinding
<1>1. Inv /\ [Next]_vars => [Promise!Next]_(Promise!vars)
  BY StepIsBound
<1> QED BY <1>1, InitIsBound, Invariance, PTL DEF Spec, KeepsBinding, Promise!Spec

-----------------------------------------------------------------------------
(* The adapters *)

\* Who may be in which state: a declared chain belongs to viem clients, and
\* only calls of the session's own chain leave "idle".
CallsAreOfTheirChain ==
    /\ user \in {"caller", "ethers"} => \A c \in Calls : declared[c] = None
    /\ user = "confidential" => \A c \in Calls : pc[c] = "idle"
    /\ \A c \in Sends : declared[c] # None /\ pc[c] # "idle" => pinned = declared[c]
    /\ \A c \in refused : /\ user = "viem" /\ pc[c] = "idle"
                         /\ pinned # None /\ declared[c] # None /\ pinned # declared[c]

\* A call behind the transport's factory has the chain the lazy client is
\* bound to.
AttachedIsBound ==
    \A c \in Calls : place[c] \in {"attached", "loading", "handed"} \/ result[c].chain # None =>
        bound # None /\ bound = declared[c]

\* An import that runs or has succeeded is the one #loading holds.
LoadIsMemo ==
    \A f \in Calls : load[f] \in {"pending", "resolved"} <=> loading = f

LazyInv == L!TypeOK /\ AttachedIsBound /\ LoadIsMemo

Inductive ==
    /\ Inv
    /\ LazyInv
    /\ AdaptersTypeOK
    /\ CallsAreOfTheirChain

LEMMA CallsOfBoth == L!Calls = Calls
  BY DEF L!Calls, Calls

-----------------------------------------------------------------------------
(* The lazy client *)

LEMMA LazyInit == L!Init => LazyInv
<1> SUFFICES ASSUME L!Init PROVE LazyInv
  OBVIOUS
<1>1. L!TypeOK
  BY CallsOfBoth DEF L!Init, L!TypeOK, L!NoResult, L!Results
<1>2. AttachedIsBound
  BY CallsOfBoth, CallsAssumption DEF L!Init, AttachedIsBound, L!NoResult
<1>3. LoadIsMemo
  BY CallsOfBoth, CallsAssumption DEF L!Init, LoadIsMemo
<1>4. QED
  BY <1>1, <1>2, <1>3 DEF LazyInv

\* Every result the adapters give back is one of Results, of the bound chain
\* or of none.
LEMMA SettleOf ==
  ASSUME LazyInv, NEW c \in Calls, NEW kind, NEW chain \in Chains \cup {None},
         kind \in {"InvalidOption", "InternalError", "aborted", "failed", "ready", "answer",
                   "RpcRequestError", "HttpRequestError", "SERVER_ERROR",
                   "UNSUPPORTED_OPERATION", "BAD_DATA"},
         L!Settle(c, L!Result(kind, chain))
  PROVE  /\ place' \in [Calls -> {"idle", "attached", "loading", "handed", "done"}]
         /\ result' \in [Calls -> L!Results]
         /\ place'[c] = "done" /\ result'[c].chain = chain
         /\ \A d \in Calls \ {c} : place'[d] = place[d] /\ result'[d] = result[d]
<1>1. L!Result(kind, chain) \in L!Results /\ L!Result(kind, chain).chain = chain
  BY DEF L!Result, L!Results
<1>2. /\ place' = [place EXCEPT ![c] = "done"]
      /\ result' = [result EXCEPT ![c] = L!Result(kind, chain)]
  BY DEF L!Settle
<1>3. /\ place \in [Calls -> {"idle", "attached", "loading", "handed", "done"}]
      /\ result \in [Calls -> L!Results]
  BY CallsOfBoth DEF LazyInv, L!TypeOK
<1> HIDE DEF L!Results
<1>4. QED
  BY <1>1, <1>2, <1>3

LEMMA LazyStep ==
  ASSUME LazyInv, L!Next
  PROVE  LazyInv' /\ UNCHANGED <<library, declared>>
<1> USE CallsOfBoth DEF LazyInv
<1>1. PICK c \in Calls : \/ L!Attach(c) \/ L!Call(c) \/ L!Loads(c) \/ L!LoadFails(c)
                         \/ L!Unloaded(c) \/ L!HandOver(c) \/ L!Settles(c) \/ L!Abort(c)
  BY DEF L!Next
<1>2. L!TypeOK /\ AttachedIsBound /\ LoadIsMemo /\ bound \in Chains \cup {None}
  BY DEF L!TypeOK
<1>3. CASE L!Attach(c)
  <2>1. place[c] = "idle" /\ UNCHANGED <<library, declared, loading, load, joined, aborted>>
    BY <1>3 DEF L!Attach, L!setup
  <2>2. CASE declared[c] = None \/ bound \notin {None, declared[c]}
    <3>1. L!Settle(c, L!Result("InvalidOption", None)) /\ bound' = bound
      BY <1>3, <2>2 DEF L!Attach
    <3>2. /\ place' \in [Calls -> {"idle", "attached", "loading", "handed", "done"}]
          /\ result' \in [Calls -> L!Results]
          /\ place'[c] = "done" /\ result'[c].chain = None
          /\ \A d \in Calls \ {c} : place'[d] = place[d] /\ result'[d] = result[d]
      BY <1>2, <3>1, SettleOf
    <3>3. L!TypeOK'
      BY <1>2, <2>1, <3>1, <3>2 DEF L!TypeOK
    <3>4. AttachedIsBound' /\ LoadIsMemo'
      BY <1>2, <2>1, <3>1, <3>2 DEF AttachedIsBound, LoadIsMemo
    <3>5. QED
      BY <2>1, <3>3, <3>4
  <2>3. CASE ~(declared[c] = None \/ bound \notin {None, declared[c]})
    <3>1. /\ bound' = declared[c] /\ place' = [place EXCEPT ![c] = "attached"] /\ result' = result
          /\ bound' # None /\ (bound # None => bound' = bound)
      BY <1>3, <2>3 DEF L!Attach
    <3>2. L!TypeOK'
      BY <1>2, <2>1, <3>1 DEF L!TypeOK
    <3>3. AttachedIsBound' /\ LoadIsMemo'
      BY <1>2, <2>1, <3>1 DEF AttachedIsBound, LoadIsMemo, L!TypeOK
    <3>4. QED
      BY <2>1, <3>2, <3>3
  <2>4. QED
    BY <2>2, <2>3
<1>4. CASE L!Call(c)
  <2>1. place[c] = "attached" /\ place' = [place EXCEPT ![c] = "loading"]
        /\ UNCHANGED <<library, declared, bound, aborted, result>>
        /\ \/ loading # None /\ UNCHANGED <<loading, load>> /\ joined' = [joined EXCEPT ![c] = loading]
           \/ /\ loading = None /\ loading' = c /\ load' = [load EXCEPT ![c] = "pending"]
              /\ joined' = [joined EXCEPT ![c] = c]
    BY <1>4 DEF L!Call, L!setup
  <2>2. L!TypeOK'
    BY <1>2, <2>1 DEF L!TypeOK
  <2>3. AttachedIsBound'
    BY <1>2, <2>1 DEF AttachedIsBound, L!TypeOK
  <2>4. LoadIsMemo'
    BY <1>2, <2>1, CallsAssumption DEF LoadIsMemo, L!TypeOK
  <2>5. QED
    BY <2>1, <2>2, <2>3, <2>4
<1>5. CASE L!Loads(c) \/ L!LoadFails(c)
  <2>1. /\ UNCHANGED <<library, declared, bound, place, joined, aborted, result>>
        /\ load[c] = "pending"
        /\ \/ load' = [load EXCEPT ![c] = "resolved"] /\ loading' = loading
           \/ load' = [load EXCEPT ![c] = "failed"] /\ loading' = None
    BY <1>5 DEF L!Loads, L!LoadFails, L!setup
  <2>2. L!TypeOK'
    BY <1>2, <2>1 DEF L!TypeOK
  <2>3. AttachedIsBound' /\ LoadIsMemo'
    BY <1>2, <2>1, CallsAssumption DEF AttachedIsBound, LoadIsMemo, L!TypeOK
  <2>4. QED
    BY <2>1, <2>2, <2>3
<1>6. CASE L!Unloaded(c) \/ L!Settles(c) \/ (L!HandOver(c) /\ aborted[c])
  <2>1. UNCHANGED <<library, declared, bound, loading, load, joined, aborted>>
        /\ place[c] \in {"loading", "handed"}
    BY <1>6 DEF L!Unloaded, L!Settles, L!HandOver, L!setup
  <2>2. \E kind \in {"InternalError", "aborted", "failed", "ready", "answer", "RpcRequestError",
                     "HttpRequestError", "SERVER_ERROR", "UNSUPPORTED_OPERATION", "BAD_DATA"},
           chain \in {None, bound} : L!Settle(c, L!Result(kind, chain))
    <3>1. \A inner : L!ViemOutcome(inner) \in {"RpcRequestError", "answer", "HttpRequestError"}
                     /\ L!EthersOutcome(inner) \in {"SERVER_ERROR", "UNSUPPORTED_OPERATION",
                                                   "BAD_DATA", "answer"}
      BY DEF L!ViemOutcome, L!EthersOutcome
    <3>2. QED
      BY <1>6, <3>1 DEF L!Unloaded, L!Settles, L!HandOver
  <2>3. PICK kind \in {"InternalError", "aborted", "failed", "ready", "answer", "RpcRequestError",
                       "HttpRequestError", "SERVER_ERROR", "UNSUPPORTED_OPERATION", "BAD_DATA"},
             chain \in {None, bound} : L!Settle(c, L!Result(kind, chain))
    BY <2>2
  <2>4. /\ place' \in [Calls -> {"idle", "attached", "loading", "handed", "done"}]
        /\ result' \in [Calls -> L!Results]
        /\ place'[c] = "done" /\ result'[c].chain = chain
        /\ \A d \in Calls \ {c} : place'[d] = place[d] /\ result'[d] = result[d]
    BY <1>2, <2>3, SettleOf
  <2>5. L!TypeOK'
    BY <1>2, <2>1, <2>4 DEF L!TypeOK
  <2>6. AttachedIsBound' /\ LoadIsMemo'
    BY <1>2, <2>1, <2>3, <2>4 DEF AttachedIsBound, LoadIsMemo
  <2>7. QED
    BY <2>1, <2>5, <2>6
<1>7. CASE L!HandOver(c) /\ ~aborted[c]
  <2>1. place[c] = "loading" /\ place' = [place EXCEPT ![c] = "handed"]
        /\ UNCHANGED <<library, declared, bound, loading, load, joined, aborted, result>>
    BY <1>7 DEF L!HandOver, L!setup
  <2>2. L!TypeOK' /\ AttachedIsBound' /\ LoadIsMemo'
    BY <1>2, <2>1 DEF L!TypeOK, AttachedIsBound, LoadIsMemo
  <2>3. QED
    BY <2>1, <2>2
<1>8. CASE L!Abort(c)
  <2>1. aborted' = [aborted EXCEPT ![c] = TRUE]
        /\ UNCHANGED <<library, declared, bound, loading, load, place, joined, result>>
    BY <1>8 DEF L!Abort, L!setup
  <2>2. L!TypeOK' /\ AttachedIsBound' /\ LoadIsMemo'
    BY <1>2, <2>1 DEF L!TypeOK, AttachedIsBound, LoadIsMemo
  <2>3. QED
    BY <2>1, <2>2
<1>9. QED
  BY <1>1, <1>3, <1>4, <1>5, <1>6, <1>7, <1>8

-----------------------------------------------------------------------------
(* The session *)

\* A viem request that pins and goes on at once: while nothing was pinned
\* nobody held a verifier or had an answer.
LEMMA RequestPinsKeeps ==
  ASSUME Inv, NEW c \in Sends, NEW chain \in Chains, pinned = None, pc[c] = "idle",
         pinned' = chain, verifier' = Made(chain), Resume({c}, chain, chain),
         UNCHANGED <<bootstrap, awaits, answer>>
  PROVE  Inv'
<1> USE DEF Inv
<1>1. c \in Calls
  BY DEF Calls
<1>2. {c} \in SUBSET Calls /\ \A d \in {c} : pc[d] \in {"idle", "waiting"}
  BY <1>1
<1>3. /\ CallsStand' /\ OneChain'
      /\ pc' \in [Calls -> {"idle", "waiting", "posting", "verifying", "done"}]
      /\ uses' \in [Calls -> Chains \cup {None}]
      /\ posted' \in [Calls -> BOOLEAN]
      /\ outcome' \in [Calls -> Outcomes]
      /\ \A d \in Calls : pc'[d] = "waiting" => pc[d] = "waiting" /\ d \notin {c}
  BY <1>2, ResumeKeeps
<1>4. TypeOK'
  BY <1>3, MemoTypes DEF TypeOK
<1>5. MemoStands' /\ OneBootstrap'
  <2>1. verifier'.by = None /\ verifier'.chain = chain /\ chain # None
    BY MemoTypes, CallsAssumption
  <2>2. QED
    BY <2>1 DEF MemoStands, OneBootstrap, Ready, ReadyChain, Running
<1>6. MemoIsLive'
  BY <1>3, MemoTypes DEF MemoIsLive, Running
<1>7. QED
  BY <1>3, <1>4, <1>5, <1>6

\* The calls that leave "idle" in a step of the session are those that enter.
LEMMA StepOf ==
  ASSUME Inv, NEW c \in Calls, Enter(c) \/ GoesOn(c)
  PROVE  /\ Next
         /\ pinned # None => pinned' = pinned
         /\ Enter(c) => \A d \in Calls \ {c} : pc'[d] = pc[d]
         /\ GoesOn(c) => \A d \in Calls : pc[d] = "idle" => pc'[d] = "idle"
<1>1. Next
  BY DEF Enter, GoesOn, Next
<1>2. pinned # None => pinned' = pinned
  BY DEF Enter, GoesOn, EnterReady, EnterJoin, EnterBootstrap, BootstrapAnswered, BootstrapFails,
         BootstrapVerified, Reject, PostFails, Receive, Verify, Finish, session
<1>3. Enter(c) => \A d \in Calls \ {c} : pc'[d] = pc[d]
  BY DEF Enter, EnterReady, EnterJoin, EnterBootstrap, Resume, Inv, TypeOK
<1>4. ASSUME NEW d \in Calls, pc[d] = "idle", GoesOn(c) PROVE pc'[d] = "idle"
  <2>1. CASE \E chain \in Chains : BootstrapAnswered(c, chain)
    BY <1>4, <2>1 DEF BootstrapAnswered
  <2>2. CASE Reject(c)
    BY <1>4, <2>2 DEF Reject, Waiters
  <2>3. CASE Resume(Waiters(c), bootstrap[c].chain, bootstrap[c].chain)
    BY <1>4, <2>3 DEF Resume, Waiters
  <2>4. CASE PostFails(c) \/ Receive(c) \/ Verify(c)
    BY <1>4, <2>4 DEF PostFails, Receive, Verify, Finish, Inv, TypeOK
  <2>5. QED
    BY <1>4, <2>1, <2>2, <2>3, <2>4 DEF GoesOn, BootstrapFails, BootstrapVerified
<1>5. QED
  BY <1>1, <1>2, <1>3, <1>4

-----------------------------------------------------------------------------
(* All steps *)

LEMMA SessionInitInductive == SessionInit => Inductive
<1> SUFFICES ASSUME SessionInit PROVE Inductive
  OBVIOUS
<1>1. Inv /\ LazyInv
  BY Initially, LazyInit DEF SessionInit
<1>2. user # "confidential" => bound = None /\ \A c \in Calls : place[c] = "idle"
  BY CallsOfBoth DEF SessionInit, L!Init
<1>3. AdaptersTypeOK
  BY <1>1, <1>2 DEF SessionInit, AdaptersTypeOK, Inv, LazyInv
<1>4. \A c \in Calls : pc[c] = "idle"
  BY DEF SessionInit, Init
<1>5. CallsAreOfTheirChain
  BY <1>4 DEF SessionInit, CallsAreOfTheirChain, Calls
<1>6. QED
  BY <1>1, <1>3, <1>5 DEF Inductive

\* A step of a session that leaves the lazy client alone.
LEMMA OpenStepInductive ==
  ASSUME Inductive, Inv', user # "confidential", user' = user, declared' = declared,
         UNCHANGED lazy, refused' \subseteq Sends, CallsAreOfTheirChain'
  PROVE  Inductive'
<1>1. UNCHANGED <<library, bound, loading, load, place, joined, aborted, result>>
  BY DEF lazy
<1>2. LazyInv'
  BY <1>1 DEF Inductive, LazyInv, L!TypeOK, AttachedIsBound, LoadIsMemo
<1>3. AdaptersTypeOK'
  BY <1>1, <1>2 DEF Inductive, AdaptersTypeOK, Inv, LazyInv
<1>4. QED
  BY <1>2, <1>3 DEF Inductive

LEMMA SessionStepInductive == Inductive /\ [SessionNext]_adapters => Inductive'
<1> SUFFICES ASSUME Inductive, [SessionNext]_adapters PROVE Inductive'
  OBVIOUS
<1>1. /\ Inv /\ LazyInv /\ AdaptersTypeOK /\ CallsAreOfTheirChain
      /\ user \in Users /\ refused \subseteq Sends
      /\ pinned \in Chains \cup BadIds \cup {None} /\ None \notin Chains
  BY CallsAssumption DEF Inductive, AdaptersTypeOK, Inv, TypeOK
<1>2. CASE OpenStep
  <2>1. user # "confidential" /\ user' = user /\ declared' = declared /\ UNCHANGED lazy
    BY <1>2 DEF OpenStep
  <2>2. SUFFICES Inv' /\ refused' \subseteq Sends /\ CallsAreOfTheirChain'
    BY <2>1, OpenStepInductive
  <2>3. CASE CallerSteps
    <3>1. user = "caller" /\ refused' = refused
          /\ ((\E id \in Chains \cup BadIds : Pin(id)) \/ \E c \in Calls : Enter(c))
      BY <2>3 DEF CallerSteps
    <3>2. Next
      BY <3>1 DEF Next, Enter
    <3>3. Inv'
      BY <1>1, <3>2, StepKeeps
    <3>4. refused = {}
      <4>1. \A c \in Calls : declared[c] = None
        BY <1>1, <3>1 DEF CallsAreOfTheirChain
      <4>2. QED
        BY <1>1, <4>1, <3>1 DEF CallsAreOfTheirChain
    <3>5. CallsAreOfTheirChain'
      BY <1>1, <2>1, <3>1, <3>4 DEF CallsAreOfTheirChain, Calls
    <3>6. QED
      BY <1>1, <3>1, <3>3, <3>5
  <2>4. ASSUME NEW c \in Calls, GoesOn(c), refused' = refused
        PROVE  Inv' /\ refused' \subseteq Sends /\ CallsAreOfTheirChain'
    <3>1. /\ Next /\ (pinned # None => pinned' = pinned)
          /\ \A d \in Calls : pc[d] = "idle" => pc'[d] = "idle"
      BY <1>1, <2>4, StepOf
    <3>2. CallsAreOfTheirChain'
      BY <1>1, <2>1, <2>4, <3>1 DEF CallsAreOfTheirChain, Calls
    <3>3. QED
      BY <1>1, <2>4, <3>1, <3>2, StepKeeps
  <2>5. ASSUME NEW c \in Calls, Enter(c), refused' = refused, c \notin refused,
               declared[c] # None => pinned = declared[c]
        PROVE  Inv' /\ refused' \subseteq Sends /\ CallsAreOfTheirChain'
    <3>1. /\ Next /\ (pinned # None => pinned' = pinned)
          /\ \A d \in Calls \ {c} : pc'[d] = pc[d]
      BY <1>1, <2>5, StepOf
    <3>2. CallsAreOfTheirChain'
      BY <1>1, <2>1, <2>5, <3>1 DEF CallsAreOfTheirChain, Calls
    <3>3. QED
      BY <1>1, <2>5, <3>1, <3>2, StepKeeps
  <2>6. ASSUME NEW c \in Calls, RequestPins(c)
        PROVE  Inv' /\ refused' \subseteq Sends /\ CallsAreOfTheirChain'
    <3>1. /\ c \in Sends /\ pc[c] = "idle" /\ pinned = None /\ declared[c] # None
          /\ user = "viem" /\ refused' = refused
          /\ pinned' = declared[c] /\ verifier' = Made(declared[c])
          /\ Resume({c}, declared[c], declared[c]) /\ UNCHANGED <<bootstrap, awaits, answer>>
      BY <2>6 DEF RequestPins
    <3>2. declared[c] \in Chains
      BY <1>1, <3>1, CallsOfBoth DEF LazyInv, L!TypeOK, Calls
    <3>3. Inv'
      BY <1>1, <3>1, <3>2, RequestPinsKeeps
    <3>4. \A d \in Calls \ {c} : pc'[d] = pc[d]
      BY <3>1 DEF Resume
    <3>5. c \notin refused
      BY <1>1, <3>1 DEF CallsAreOfTheirChain
    <3>6. CallsAreOfTheirChain'
      BY <1>1, <2>1, <3>1, <3>4, <3>5 DEF CallsAreOfTheirChain, Calls
    <3>7. QED
      BY <1>1, <3>1, <3>3, <3>6
  <2>7. ASSUME NEW c \in Calls, RequestUndeclared(c)
        PROVE  Inv' /\ refused' \subseteq Sends /\ CallsAreOfTheirChain'
    <3>1. Enter(c) /\ refused' = refused /\ declared[c] = None
      BY <2>7 DEF RequestUndeclared
    <3>2. c \notin refused
      BY <1>1, <3>1 DEF CallsAreOfTheirChain
    <3>3. QED
      BY <2>5, <3>1, <3>2
  <2>8. ASSUME NEW c \in Calls, RequestDeclared(c)
        PROVE  Inv' /\ refused' \subseteq Sends /\ CallsAreOfTheirChain'
    <3>1. user = "viem" /\ c \in Sends \ refused /\ declared[c] # None /\ pinned # None
      BY <2>8 DEF RequestDeclared
    <3>2. CASE pinned = declared[c]
      BY <2>5, <2>8, <3>1, <3>2 DEF RequestDeclared
    <3>3. CASE pinned # declared[c]
      <4>1. pc[c] = "idle" /\ refused' = refused \cup {c} /\ UNCHANGED vars
        BY <2>8, <3>3 DEF RequestDeclared
      <4>2. Inv'
        BY <1>1, <4>1, StepKeeps
      <4>3. pc' = pc /\ pinned' = pinned
        BY <4>1 DEF vars
      <4>4. CallsAreOfTheirChain'
        BY <1>1, <2>1, <3>1, <3>3, <4>1, <4>3 DEF CallsAreOfTheirChain
      <4>5. QED
        BY <1>1, <3>1, <4>1, <4>2, <4>4
    <3>4. QED
      BY <3>2, <3>3
  <2>9. ASSUME NEW c \in Calls, ProviderCalls(c)
        PROVE  Inv' /\ refused' \subseteq Sends /\ CallsAreOfTheirChain'
    <3>1. user = "ethers" /\ Enter(c) /\ refused' = refused
      BY <2>9 DEF ProviderCalls
    <3>2. c \notin refused /\ declared[c] = None
      BY <1>1, <3>1 DEF CallsAreOfTheirChain
    <3>3. QED
      BY <2>5, <3>1, <3>2
  <2>10. QED
    BY <1>2, <2>3, <2>4, <2>6, <2>7, <2>8, <2>9 DEF OpenStep
<1>3. CASE ConfidentialStep
  <2>1. user = "confidential" /\ user' = user /\ refused' = refused /\ UNCHANGED vars
        /\ LazyInv' /\ declared' = declared
    BY <1>1, <1>3, LazyStep DEF ConfidentialStep
  <2>2. Inv'
    BY <1>1, <2>1, StepKeeps
  <2>3. AdaptersTypeOK'
    BY <1>1, <2>1, <2>2 DEF AdaptersTypeOK, Inv, LazyInv
  <2>4. CallsAreOfTheirChain'
    BY <1>1, <2>1 DEF CallsAreOfTheirChain, vars
  <2>5. QED
    BY <2>1, <2>2, <2>3, <2>4 DEF Inductive
<1>4. CASE UNCHANGED adapters
  <2>1. /\ UNCHANGED vars
        /\ UNCHANGED <<user, refused, library, declared, bound, loading, load, place, joined,
                       aborted, result>>
    BY <1>4 DEF adapters, vars
  <2>2. Inv'
    BY <1>1, <2>1, StepKeeps
  <2>3. LazyInv'
    BY <1>1, <2>1 DEF LazyInv, L!TypeOK, AttachedIsBound, LoadIsMemo
  <2>4. AdaptersTypeOK' /\ CallsAreOfTheirChain'
    BY <1>1, <2>1, <2>2, <2>3 DEF AdaptersTypeOK, Inv, LazyInv, CallsAreOfTheirChain, vars
  <2>5. QED
    BY <2>2, <2>3, <2>4 DEF Inductive
<1>5. QED
  BY <1>2, <1>3, <1>4 DEF SessionNext

LEMMA InductiveInvariance == AdaptersSpec => []Inductive
<1> QED BY SessionInitInductive, SessionStepInductive, PTL DEF AdaptersSpec

-----------------------------------------------------------------------------
(* Theorems *)

\* The session and the lazy client keep their types, and the adapter of one
\* mode never touches the state of the other.
THEOREM AdaptersTyped == AdaptersSpec => []AdaptersTypeOK
<1>1. Inductive => AdaptersTypeOK
  BY DEF Inductive
<1> QED BY <1>1, InductiveInvariance, PTL

\* Whoever shares a viem transport, and whatever bootstraps run beside it, a
\* client that declares a chain gets answers of that chain and sends to no
\* other.
THEOREM DeclaredChainHolds == AdaptersSpec => []DeclaredChainOnly
<1>1. Inductive => DeclaredChainOnly
  <2> SUFFICES ASSUME Inductive PROVE DeclaredChainOnly
    OBVIOUS
  <2>1. Inv /\ CallsStand /\ OneChain /\ CallsAreOfTheirChain /\ AttachedIsBound
    BY DEF Inductive, Inv, LazyInv
  <2>2. ASSUME NEW c \in Sends, declared[c] # None
        PROVE  /\ posted[c] => uses[c] = declared[c]
               /\ outcome[c].kind = "answer" => outcome[c].chain = declared[c]
               /\ c \in refused => ~posted[c]
    <3>1. c \in Calls /\ NoOutcome.kind # "answer"
      BY DEF Calls, NoOutcome
    <3>2. pc[c] = "idle" => ~posted[c] /\ outcome[c].kind # "answer"
      BY <2>1, <3>1 DEF CallsStand
    <3>3. pc[c] # "idle" => pinned = declared[c]
      BY <2>1, <2>2 DEF CallsAreOfTheirChain
    <3>4. QED
      BY <2>1, <3>1, <3>2, <3>3 DEF CallsStand, OneChain, CallsAreOfTheirChain
  <2>3. L!RunsOnDeclaredChain
    BY <2>1, CallsOfBoth DEF L!RunsOnDeclaredChain, AttachedIsBound
  <2>4. QED
    BY <2>2, <2>3 DEF DeclaredChainOnly
<1> QED BY <1>1, InductiveInvariance, PTL

\* A session answers for one chain also where viem requests pin it.
THEOREM AdaptersAnswerOfOneChain == AdaptersSpec => []OneChain
<1>1. Inductive => OneChain
  BY DEF Inductive, Inv
<1> QED BY <1>1, InductiveInvariance, PTL

\* Nothing is posted by a session that is not bound, whoever pins it.
THEOREM AdaptersPostWhenBound == AdaptersSpec => []PostedOnlyWhenBound
<1>1. Inductive => PostedOnlyWhenBound
  BY DEF Inductive, Inv, CallsStand, PostedOnlyWhenBound, Calls
<1> QED BY <1>1, InductiveInvariance, PTL

\* One bootstrap at most runs on a session, also where requests of viem clients
\* pin it before, while and after it runs.
THEOREM AdaptersShareBootstrap == AdaptersSpec => []OneBootstrap
<1>1. Inductive => OneBootstrap
  BY DEF Inductive, Inv
<1> QED BY <1>1, InductiveInvariance, PTL

\* A bootstrap that others wait for is running, also when a viem request pins
\* the session beside it.
THEOREM AdaptersWaitersAreServed == AdaptersSpec => []MemoIsLive
<1>1. Inductive => MemoIsLive
  BY DEF Inductive, Inv
<1> QED BY <1>1, InductiveInvariance, PTL

\* Once a session has a verifier it keeps it, whoever pins or bootstraps late.
THEOREM AdaptersKeepVerifier == AdaptersSpec => VerifierStays
<1>1. Inductive /\ [SessionNext]_adapters => [Ready => Ready' /\ ReadyChain' = ReadyChain]_vars
  <2> SUFFICES ASSUME Inductive, SessionNext, ~ UNCHANGED vars, Ready
               PROVE  Ready' /\ ReadyChain' = ReadyChain
    BY DEF adapters, vars
  <2>1. Inv /\ pinned # None
    BY CallsAssumption DEF Inductive, Inv, MemoStands, Ready, TypeOK
  <2>2. OpenStep
    BY DEF SessionNext, ConfidentialStep
  <2>3. CASE CallerSteps
    BY <2>1, <2>3, StepKeepsVerifier DEF CallerSteps, Enter, Next
  <2>4. CASE \E c \in Calls : Enter(c) \/ GoesOn(c)
    BY <2>1, <2>4, StepOf, StepKeepsVerifier
  <2>5. QED
    BY <2>1, <2>2, <2>3, <2>4
       DEF OpenStep, RequestUndeclared, RequestDeclared, RequestPins, ProviderCalls, vars
<1> QED BY <1>1, InductiveInvariance, PTL DEF AdaptersSpec, VerifierStays

\* It still is that register where requests of viem clients pin it, whichever
\* of them comes first.
THEOREM AdaptersKeepBinding == AdaptersSpec => KeepsBinding
<1>1. SessionInit => Promise!Init
  BY InitIsBound DEF SessionInit
<1>2. Inductive /\ [SessionNext]_adapters => [Promise!Next]_(Promise!vars)
  <2> SUFFICES ASSUME Inductive, [SessionNext]_adapters
               PROVE  [Promise!Next]_(Promise!vars)
    OBVIOUS
  <2>1. Inv /\ LazyInv
    BY DEF Inductive
  <2>2. CASE UNCHANGED vars
    BY <2>1, <2>2, StepIsBound
  <2>3. CASE CallerSteps
    BY <2>1, <2>3, StepIsBound DEF CallerSteps, Enter, Next
  <2>4. CASE \E c \in Calls : Enter(c) \/ GoesOn(c)
    BY <2>1, <2>4, StepOf, StepIsBound
  <2>5. ASSUME NEW c \in Calls, RequestPins(c) PROVE Promise!Next
    <3>1. /\ c \in Sends /\ pc[c] = "idle" /\ pinned = None /\ declared[c] # None
          /\ pinned' = declared[c] /\ Resume({c}, declared[c], declared[c])
      BY <2>5 DEF RequestPins
    <3>2. declared[c] \in Chains
      BY <2>1, <3>1, CallsOfBoth DEF LazyInv, L!TypeOK, Calls
    <3>3. {c} \in SUBSET Calls /\ \A d \in {c} : pc[d] \in {"idle", "waiting"}
      BY <3>1
    <3> QED BY <2>1, <3>1, <3>2, <3>3, ResumeIsBind
  <2> QED BY <2>2, <2>3, <2>4, <2>5
          DEF SessionNext, OpenStep, ConfidentialStep, RequestUndeclared, RequestDeclared,
              ProviderCalls, adapters, vars
<1> QED BY <1>1, <1>2, InductiveInvariance, PTL DEF AdaptersSpec, KeepsBinding, Promise!Spec

\* However often the crypto fails to load and whoever calls meanwhile, one
\* ConfidentialClient is made.
THEOREM OneClientIsMade == AdaptersSpec => []OneClient
<1>1. Inductive => OneClient
  BY CallsOfBoth DEF Inductive, LazyInv, LoadIsMemo, OneClient, L!OneClient
<1> QED BY <1>1, InductiveInvariance, PTL

\* The import the next call awaits has not failed.
THEOREM FailedLoadsAreForgotten == AdaptersSpec => []FailedLoadIsForgotten
<1>1. Inductive => FailedLoadIsForgotten
  BY CallsOfBoth
     DEF Inductive, LazyInv, LoadIsMemo, L!TypeOK, FailedLoadIsForgotten, L!FailedLoadIsForgotten
<1> QED BY <1>1, InductiveInvariance, PTL

\* A call aborted before it reaches the client never reaches it.
THEOREM AbortedStaysOut == AdaptersSpec => AbortedIsNotHanded
<1>1. Inductive /\ [SessionNext]_adapters =>
        [\A c \in L!Calls : aborted[c] /\ place[c] # "handed" => place'[c] # "handed"]_(L!vars)
  <2> SUFFICES ASSUME Inductive, ConfidentialStep, NEW c \in Calls,
                      aborted[c], place[c] # "handed"
               PROVE  place'[c] # "handed"
    BY CallsOfBoth DEF SessionNext, OpenStep, adapters, lazy, L!vars
  <2>1. place \in [Calls -> {"idle", "attached", "loading", "handed", "done"}]
    BY CallsOfBoth DEF Inductive, LazyInv, L!TypeOK
  <2>2. PICK d \in Calls : \/ L!Attach(d) \/ L!Call(d) \/ L!Loads(d) \/ L!LoadFails(d)
                           \/ L!Unloaded(d) \/ L!HandOver(d) \/ L!Settles(d) \/ L!Abort(d)
    BY CallsOfBoth DEF ConfidentialStep, L!Next
  <2>3. CASE L!HandOver(d)
    BY <2>1, <2>3 DEF L!HandOver, L!Settle
  <2>4. CASE ~L!HandOver(d)
    BY <2>1, <2>2, <2>4
       DEF L!Attach, L!Call, L!Loads, L!LoadFails, L!Unloaded, L!Settles, L!Abort, L!Settle
  <2>5. QED
    BY <2>3, <2>4
<1> QED BY <1>1, InductiveInvariance, PTL DEF AdaptersSpec, AbortedIsNotHanded, L!AbortedIsNotHanded
=============================================================================
