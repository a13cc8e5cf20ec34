------------------------------ MODULE Adapters ------------------------------
(***************************************************************************)
(* Who uses the core sessions: the viem transport of viem/src/transport.ts *)
(* and the ethers provider of ethers/src/provider.ts, each in open mode    *)
(* over an OpenSession and in Ankr Confidential RPC mode over a            *)
(* LazyClient, and callers of createOpenSession itself.  The mode is the   *)
(* options' and never changes; the sessions of the other mode are never    *)
(* made.                                                                   *)
(*                                                                         *)
(* In open mode viem hands one session to all viem clients of a transport: *)
(* each of their requests pins the chain its own client declares, and      *)
(* sends, in one step.                                                     *)
(***************************************************************************)
EXTENDS OpenSession

VARIABLES user,      \* who uses the session or the lazy client
          refused    \* viem calls whose pin threw

\* The state of LazyClient.
VARIABLES library, declared, bound, loading, load, place, joined, aborted, result

lazy == <<library, bound, loading, load, place, joined, aborted, result>>
adapters == <<pinned, verifier, bootstrap, pc, awaits, uses, posted, answer, outcome,
              user, refused,
              library, declared, bound, loading, load, place, joined, aborted, result>>

L == INSTANCE LazyClient WITH Requests <- Sends, Readies <- Asks

Users == {"caller", "viem", "ethers", "confidential"}

-----------------------------------------------------------------------------
(* Open mode *)

\* current(post), and what the call does at once if there is a verifier.
Enter(c) == EnterReady(c) \/ EnterJoin(c) \/ EnterBootstrap(c)

\* The steps of a call that is under way.
GoesOn(c) ==
    \/ \E chain \in Chains : BootstrapAnswered(c, chain)
    \/ BootstrapFails(c)
    \/ BootstrapVerified(c)
    \/ PostFails(c)
    \/ Receive(c)
    \/ Verify(c)

\* request() of a viem client without a chain: send() with no pin.
RequestUndeclared(c) ==
    /\ user = "viem"
    /\ c \in Sends
    /\ declared[c] = None
    /\ Enter(c)
    /\ UNCHANGED refused

\* Fault: a pin that throws is ignored.
RequestBound(c) ==
    /\ user = "viem"
    /\ c \in Sends
    /\ declared[c] # None /\ pinned # None
    /\ Enter(c)
    /\ UNCHANGED refused

\* The session is bound: another chain is refused and nothing is sent.
RequestDeclared(c) ==
    /\ user = "viem"
    /\ c \in Sends \ refused
    /\ declared[c] # None /\ pinned # None
    /\ IF pinned = declared[c]
       THEN Enter(c) /\ UNCHANGED refused
       ELSE /\ pc[c] = "idle"
            /\ refused' = refused \cup {c}
            /\ UNCHANGED vars

\* The session is not bound, though it may be bootstrapping: it is pinned to
\* the chain of this client, and the call posts with the verifier just made.
RequestPins(c) ==
    /\ user = "viem"
    /\ c \in Sends
    /\ pc[c] = "idle"
    /\ declared[c] # None /\ pinned = None
    /\ pinned' = declared[c]
    /\ verifier' = Made(declared[c])
    /\ Resume({c}, declared[c], declared[c])
    /\ UNCHANGED <<bootstrap, awaits, answer, refused>>

\* An ethers provider: _send(), and _detectNetwork() for chainId().  Its chain
\* is pinned at creation or never.
ProviderCalls(c) ==
    /\ user = "ethers"
    /\ Enter(c)
    /\ UNCHANGED refused

\* A caller of createOpenSession pins whenever and whatever it likes.
CallerSteps ==
    /\ user = "caller"
    /\ \/ \E id \in Chains \cup BadIds : Pin(id)
       \/ \E c \in Calls : Enter(c)
    /\ UNCHANGED refused

OpenStep ==
    /\ user # "confidential"
    /\ \/ CallerSteps
       \/ \E c \in Calls :
            \/ RequestUndeclared(c)
            \/ RequestDeclared(c)
            \/ RequestPins(c)
            \/ ProviderCalls(c)
            \/ GoesOn(c) /\ UNCHANGED refused
    /\ UNCHANGED <<user, declared, lazy>>

-----------------------------------------------------------------------------

ConfidentialStep ==
    /\ user = "confidential"
    /\ L!Next
    /\ UNCHANGED <<vars, user, refused>>

\* A session is made unbound by a viem transport and by a provider without a
\* chain id; a provider with one pins it at creation.
SessionInit ==
    /\ user \in Users
    /\ refused = {}
    /\ Init
    /\ user \in {"viem", "confidential"} => pinned = None
    /\ L!Init
    /\ user # "confidential" => library = "viem"
    /\ user \in {"caller", "ethers"} => declared = [c \in Calls |-> None]

SessionNext == OpenStep \/ ConfidentialStep

AdaptersSpec == SessionInit /\ [][SessionNext]_adapters

-----------------------------------------------------------------------------
(* Correctness *)

\* The state of both modes has its types, and the mode that is off has none.
AdaptersTypeOK ==
    /\ TypeOK
    /\ L!TypeOK
    /\ user \in Users
    /\ refused \subseteq Sends
    /\ user # "confidential" => bound = None /\ \A c \in Calls : place[c] = "idle"

\* A viem client that declares a chain is given answers of that chain only,
\* and its requests go to no other, in either mode, whatever clients of other
\* chains and bootstraps share its transport: "declaring `chain` on the client
\* pins YOUR chain" (transport.ts 38-40).
DeclaredChainOnly ==
    /\ \A c \in Sends : declared[c] # None =>
        /\ posted[c] => uses[c] = declared[c]
        /\ outcome[c].kind = "answer" => outcome[c].chain = declared[c]
        /\ c \in refused => ~posted[c]
    /\ L!RunsOnDeclaredChain

\* All calls of one provider or transport share one ConfidentialClient.
OneClient == L!OneClient

\* A failed import of the crypto is not what the next call awaits.
FailedLoadIsForgotten == L!FailedLoadIsForgotten

\* A call whose signal aborts while the crypto loads never reaches the client.
AbortedIsNotHanded == L!AbortedIsNotHanded
=============================================================================
