----------------------------- MODULE OpenSession -----------------------------
(***************************************************************************)
(* An open-mode session: createOpenSession of core/src/open-session.ts.    *)
(* Its calls share a binding to one chain and one verifier for it.  Both   *)
(* come from pin(), or from a bootstrap: a post of eth_chainId whose       *)
(* answer must verify under the very chain it names.  viem pins before     *)
(* every request, so pins interleave with bootstraps and sends.            *)
(*                                                                         *)
(* Each call is one invocation of send() or chainId() and starts at most   *)
(* one bootstrap, which is named after it.  The network is the             *)
(* environment: it answers a post with any bytes, signed for any chain.    *)
(* A step is the code between two awaits; the end of a bootstrap, its      *)
(* catch handler and the calls that await it are one step.                 *)
(***************************************************************************)
CONSTANTS Sends,   \* invocations of send()
          Asks,    \* invocations of chainId()
          Chains,  \* chain ids TrustedVerifier accepts
          BadIds,  \* strings it refuses with InvalidOption
          None     \* JavaScript's undefined

Calls == Sends \cup Asks

ASSUME CallsAssumption ==
    /\ Sends \cap Asks = {}
    /\ Chains \cap BadIds = {}
    /\ None \notin Calls \cup Chains \cup BadIds

VARIABLES pinned,     \* the chain the session is bound to
          verifier,   \* the memo: a verifier, or the bootstrap that will yield one
          bootstrap,  \* bootstrap[c]: the bootstrap call c started
          pc,         \* where call c is suspended
          awaits,     \* the bootstrap c waits for
          uses,       \* the chain of the verifier c goes on with
          posted,     \* whether c's own payload was handed to post()
          answer,     \* the chain whose node signed the answer to c
          outcome     \* how c settled

session == <<pinned, verifier, bootstrap>>
vars == <<pinned, verifier, bootstrap, pc, awaits, uses, posted, answer, outcome>>

-----------------------------------------------------------------------------
(* The memo *)

\* The chain of the verifier the memo resolves to, None while there is none.
NoVerifier == [by |-> None, chain |-> None]
Made(id) == [by |-> None, chain |-> id]
Pending(c) == [by |-> c, chain |-> None]

Running(c) == bootstrap[c].state \in {"posting", "verifying"}

Ready == IF verifier.by # None THEN bootstrap[verifier.by].state = "resolved"
         ELSE verifier.chain # None
ReadyChain == IF verifier.by # None THEN bootstrap[verifier.by].chain ELSE verifier.chain

NoOutcome == [kind |-> "none", chain |-> None]
Outcome(kind, chain) == [kind |-> kind, chain |-> chain]

\* What a call does with its verifier: send() posts its payload, chainId()
\* returns the pinned chain.
Resume(C, chain, bound) ==
    /\ uses' = [c \in Calls |-> IF c \in C THEN chain ELSE uses[c]]
    /\ posted' = [c \in Calls |-> posted[c] \/ c \in C \cap Sends]
    /\ pc' = [c \in Calls |-> IF c \in C \cap Sends THEN "posting"
                              ELSE IF c \in C THEN "done" ELSE pc[c]]
    /\ outcome' = [c \in Calls |-> IF c \in C \cap Asks THEN Outcome("answer", bound)
                                   ELSE outcome[c]]

-----------------------------------------------------------------------------
(* pin() *)

\* A second pin() of the same chain does nothing, of another one throws.  The
\* id is stored before the verifier is made: an id it refuses stays pinned.
Pin(id) ==
    /\ pinned = None
    /\ pinned' = id
    /\ verifier' = IF id \in Chains THEN Made(id) ELSE verifier
    /\ UNCHANGED <<bootstrap, pc, awaits, uses, posted, answer, outcome>>

-----------------------------------------------------------------------------
(* Entering: current(post) *)

EnterReady(c) ==
    /\ pc[c] = "idle"
    /\ Ready
    /\ Resume({c}, ReadyChain, pinned)
    /\ UNCHANGED <<session, awaits, answer>>

EnterJoin(c) ==
    /\ pc[c] = "idle"
    /\ ~Ready
    /\ verifier # NoVerifier
    /\ pc' = [pc EXCEPT ![c] = "waiting"]
    /\ awaits' = [awaits EXCEPT ![c] = verifier.by]
    /\ UNCHANGED <<session, uses, posted, answer, outcome>>

\* Fault: a bootstrap under way is not shared.
BootstrapsAlone(c) ==
    /\ pc[c] = "idle"
    /\ ~Ready
    /\ verifier' = Pending(c)
    /\ bootstrap' = [bootstrap EXCEPT ![c] = [state |-> "posting", chain |-> None]]
    /\ pc' = [pc EXCEPT ![c] = "waiting"]
    /\ awaits' = [awaits EXCEPT ![c] = c]
    /\ UNCHANGED <<pinned, uses, posted, answer, outcome>>

EnterBootstrap(c) ==
    /\ pc[c] = "idle"
    /\ verifier = NoVerifier
    /\ verifier' = Pending(c)
    /\ bootstrap' = [bootstrap EXCEPT ![c] = [state |-> "posting", chain |-> None]]
    /\ pc' = [pc EXCEPT ![c] = "waiting"]
    /\ awaits' = [awaits EXCEPT ![c] = c]
    /\ UNCHANGED <<pinned, uses, posted, answer, outcome>>

-----------------------------------------------------------------------------
(* One bootstrap *)

Waiters(b) == {c \in Calls : pc[c] = "waiting" /\ awaits[c] = b}

\* A 2xx answer that names a chain; the verifier of that chain takes over.
BootstrapAnswered(b, chain) ==
    /\ bootstrap[b].state = "posting"
    /\ bootstrap' = [bootstrap EXCEPT ![b] = [state |-> "verifying", chain |-> chain]]
    /\ UNCHANGED <<pinned, verifier, pc, awaits, uses, posted, answer, outcome>>

\* Fault: the memo is never cleared.
RejectKeepsMemo(b) ==
    /\ bootstrap' = [bootstrap EXCEPT ![b] = [state |-> "rejected", chain |-> None]]
    /\ pc' = [c \in Calls |-> IF c \in Waiters(b) THEN "done" ELSE pc[c]]
    /\ outcome' = [c \in Calls |-> IF c \in Waiters(b)
                                   THEN Outcome("unbound", None) ELSE outcome[c]]
    /\ UNCHANGED <<pinned, verifier, awaits, uses, posted, answer>>

\* Fault: a bootstrap clears the memo without comparing it with its own.
RejectClearsMemo(b) ==
    /\ bootstrap' = [bootstrap EXCEPT ![b] = [state |-> "rejected", chain |-> None]]
    /\ verifier' = NoVerifier
    /\ pc' = [c \in Calls |-> IF c \in Waiters(b) THEN "done" ELSE pc[c]]
    /\ outcome' = [c \in Calls |-> IF c \in Waiters(b)
                                   THEN Outcome("unbound", None) ELSE outcome[c]]
    /\ UNCHANGED <<pinned, awaits, uses, posted, answer>>

Reject(b) ==
    /\ bootstrap' = [bootstrap EXCEPT ![b] = [state |-> "rejected", chain |-> None]]
    /\ verifier' = IF verifier.by = b THEN NoVerifier ELSE verifier
    /\ pc' = [c \in Calls |-> IF c \in Waiters(b) THEN "done" ELSE pc[c]]
    /\ outcome' = [c \in Calls |-> IF c \in Waiters(b)
                                   THEN Outcome("unbound", None) ELSE outcome[c]]
    /\ UNCHANGED <<pinned, awaits, uses, posted, answer>>

\* The post threw, the answer was not 2xx, named no chain, or did not verify
\* under the chain it names.
BootstrapFails(b) == Running(b) /\ Reject(b)

\* Fault: the chain is bound without looking at pinned again.
BindsUnchecked(b) ==
    /\ bootstrap[b].state = "verifying"
    /\ pinned' = bootstrap[b].chain
    /\ bootstrap' = [bootstrap EXCEPT ![b] =
            [state |-> "resolved", chain |-> bootstrap[b].chain]]
    /\ Resume(Waiters(b), bootstrap[b].chain, bootstrap[b].chain)
    /\ UNCHANGED <<verifier, awaits, answer>>

\* The answer verified.  A pin() may have come first; then it wins.
BootstrapVerified(b) ==
    /\ bootstrap[b].state = "verifying"
    /\ IF pinned \notin {None, bootstrap[b].chain}
       THEN Reject(b)
       ELSE /\ pinned' = bootstrap[b].chain
            /\ bootstrap' = [bootstrap EXCEPT ![b] =
                    [state |-> "resolved", chain |-> bootstrap[b].chain]]
            /\ Resume(Waiters(b), bootstrap[b].chain, bootstrap[b].chain)
            /\ UNCHANGED <<verifier, awaits, answer>>

-----------------------------------------------------------------------------
(* One send() with its verifier *)

Finish(c, result) ==
    /\ pc' = [pc EXCEPT ![c] = "done"]
    /\ outcome' = [outcome EXCEPT ![c] = result]
    /\ UNCHANGED <<session, awaits, uses, posted>>

\* post() threw, or an unsigned answer is not 2xx.
PostFails(c) ==
    /\ pc[c] = "posting"
    /\ Finish(c, Outcome("failed", None))
    /\ UNCHANGED answer

Receive(c) ==
    /\ pc[c] = "posting"
    /\ \E chain \in Chains \cup {None} : answer' = [answer EXCEPT ![c] = chain]
    /\ pc' = [pc EXCEPT ![c] = "verifying"]
    /\ UNCHANGED <<session, awaits, uses, posted, outcome>>

\* Only an answer signed under the chain of the verifier this call holds can
\* verify, and it may still be refused, not be JSON or not be 2xx.
Verify(c) ==
    /\ pc[c] = "verifying"
    /\ \/ Finish(c, Outcome("failed", None))
       \/ /\ answer[c] = uses[c]
          /\ Finish(c, Outcome("answer", answer[c]))
    /\ UNCHANGED answer

-----------------------------------------------------------------------------

\* A configured chain id is pinned at creation.
Init ==
    /\ \/ pinned = None /\ verifier = NoVerifier
       \/ \E id \in Chains : pinned = id /\ verifier = Made(id)
    /\ bootstrap = [c \in Calls |-> [state |-> "none", chain |-> None]]
    /\ pc = [c \in Calls |-> "idle"]
    /\ awaits = [c \in Calls |-> None]
    /\ uses = [c \in Calls |-> None]
    /\ posted = [c \in Calls |-> FALSE]
    /\ answer = [c \in Calls |-> None]
    /\ outcome = [c \in Calls |-> NoOutcome]

Next ==
    \/ \E id \in Chains \cup BadIds : Pin(id)
    \/ \E c \in Calls :
        \/ EnterReady(c)
        \/ EnterJoin(c)
        \/ EnterBootstrap(c)
        \/ \E chain \in Chains : BootstrapAnswered(c, chain)
        \/ BootstrapFails(c)
        \/ BootstrapVerified(c)
        \/ PostFails(c)
        \/ Receive(c)
        \/ Verify(c)

Spec == Init /\ [][Next]_vars

-----------------------------------------------------------------------------
(* Correctness *)

Memos == [by : Calls \cup {None}, chain : Chains \cup {None}]
Bootstraps == [state : {"none", "posting", "verifying", "resolved", "rejected"},
               chain : Chains \cup {None}]
Outcomes == [kind : {"none", "answer", "failed", "unbound"}, chain : Chains \cup {None}]

\* The memo is a verifier of an accepted chain, a bootstrap or nothing; only
\* pinned may hold an id no verifier can be made for.
TypeOK ==
    /\ pinned \in Chains \cup BadIds \cup {None}
    /\ verifier \in Memos
    /\ bootstrap \in [Calls -> Bootstraps]
    /\ pc \in [Calls -> {"idle", "waiting", "posting", "verifying", "done"}]
    /\ awaits \in [Calls -> Calls \cup {None}]
    /\ uses \in [Calls -> Chains \cup {None}]
    /\ posted \in [Calls -> BOOLEAN]
    /\ answer \in [Calls -> Chains \cup {None}]
    /\ outcome \in [Calls -> Outcomes]

\* All answers a session ever returns are of one chain, the one it is bound
\* to, whatever pins and bootstraps raced (open-session.ts 56-59).
OneChain ==
    \A c \in Calls : outcome[c].kind = "answer" =>
        outcome[c].chain = pinned /\ pinned \in Chains

\* "A failed bootstrap never follows a request the node already ran"
\* (open-session.ts 80): a payload is posted only by a call that holds a
\* verifier of the bound chain, so a call that ends unbound posted nothing.
PostedOnlyWhenBound ==
    \A c \in Sends : posted[c] =>
        /\ uses[c] = pinned /\ pinned \in Chains
        /\ outcome[c].kind # "unbound"

\* However many calls find the session unbound, and whatever pins it beside
\* them, one bootstrap runs (open-session.ts 68): a second one would post
\* eth_chainId again, and fail the calls that wait for it if it names another
\* chain than the first.
OneBootstrap == \A b, c \in Calls : Running(b) /\ Running(c) => b = c

\* A failed bootstrap leaves no memo behind: a call that waits has a running
\* bootstrap, and the memo is never one that was rejected.
MemoIsLive ==
    /\ verifier.by # None => bootstrap[verifier.by].state \in {"posting", "verifying", "resolved"}
    /\ \A c \in Calls : pc[c] = "waiting" => Running(awaits[c])

\* The session as its callers see it: an id no verifier is made for binds
\* nothing.
Promise == INSTANCE BoundSession WITH
    chain <- IF pinned \in Chains THEN pinned ELSE None,
    sent <- {c \in Sends : posted[c]},
    told <- outcome

\* Whatever pins and bootstraps race, the session is a register that is bound
\* once: a payload leaves it once and only when bound, and all answers are of
\* the bound chain (open-session.ts 25-33).
KeepsBinding == Promise!Spec

\* What the session is bound to never changes.
BindingIsFinal == [][pinned # None => pinned' = pinned]_pinned

\* "Clears the memo only if pin did not replace it" (open-session.ts 62): a
\* verifier, once there, stays.
VerifierStays == [][Ready => Ready' /\ ReadyChain' = ReadyChain]_vars

\* pin() "throws InvalidOption when it is bound to another chain"
\* (open-session.ts 31): where a pin() of another chain throws, the session
\* is bound, that is it has or is getting a verifier for what it pinned.
RefusesOnlyWhenBound == pinned # None => Ready /\ ReadyChain = pinned
=============================================================================
