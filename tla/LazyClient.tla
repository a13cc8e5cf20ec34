----------------------------- MODULE LazyClient -----------------------------
(***************************************************************************)
(* Ankr Confidential RPC mode behind viem and ethers: confidentialHttp of  *)
(* viem/src/transport.ts, or one VrpcProvider of ethers/src/provider.ts,   *)
(* over the LazyConfidentialClient of core/src/lazy-confidential.ts.       *)
(*                                                                         *)
(* A viem transport is given to any number of viem clients, each with its  *)
(* own chain; all that pass share one lazy client, which is bound to one   *)
(* chain.  The lazy client imports ConfidentialClient on the first call.   *)
(* An import is named after the call that started it, and so is the client *)
(* it makes.  What that client does with a call is ConfidentialClient's:   *)
(* here it answers, fails, or throws the reason of an aborted signal.      *)
(*                                                                         *)
(* Each call is one invocation; a viem call comes through a viem client of *)
(* its own.  A step is the code between two awaits.                        *)
(***************************************************************************)
CONSTANTS Requests,  \* invocations of request() or _send()
          Readies,   \* invocations of ready() or confidentialReady()
          Chains,    \* chain ids checkOptions accepts; a viem id is a number, always one
          None       \* JavaScript's undefined

Calls == Requests \cup Readies

VARIABLES library,   \* who the lazy client serves
          declared,  \* the chain of the viem client c is called on
          bound,     \* the chain the lazy client was made for
          loading,   \* #loading: the import the next call awaits
          load,      \* load[c]: the import c started
          place,     \* where call c is
          joined,    \* the import c awaits, then the ConfidentialClient it runs on
          aborted,   \* whether c's signal has aborted
          result     \* how c settled

vars == <<library, declared, bound, loading, load, place, joined, aborted, result>>
setup == <<library, declared>>

NoResult == [kind |-> "none", chain |-> None]
Result(kind, chain) == [kind |-> kind, chain |-> chain]

Settle(c, outcome) ==
    /\ place' = [place EXCEPT ![c] = "done"]
    /\ result' = [result EXCEPT ![c] = outcome]

-----------------------------------------------------------------------------
(* What viem and ethers make of the inner answer *)

\* The body: not JSON, JSON but no object, an object whose error is no
\* object, a JSON-RPC error, a batch that leaves a request out, or results.
Inner == [ok : BOOLEAN, body : {"text", "value", "oddError", "error", "partial", "results"}]

\* mapInnerResponse and resultOf: only a truthy error fails, ids are not read.
ViemOutcome(inner) ==
    CASE inner.body = "error"                             -> "RpcRequestError"
      [] inner.ok /\ inner.body \in {"partial", "results"} -> "answer"
      [] OTHER                                            -> "HttpRequestError"

\* sendConfidential: JSON-RPC errors are left to ethers.
EthersOutcome(inner) ==
    CASE ~inner.ok                                     -> "SERVER_ERROR"
      [] inner.ok /\ inner.body = "text"               -> "UNSUPPORTED_OPERATION"
      [] inner.ok /\ inner.body \in {"value", "partial"} -> "BAD_DATA"
      [] OTHER                                         -> "answer"

-----------------------------------------------------------------------------
(* The factory of a viem transport *)

\* A viem client is made with the transport: it needs a chain, and the one the
\* transport is bound to, if any.
Attach(c) ==
    /\ library = "viem"
    /\ place[c] = "idle"
    /\ IF declared[c] = None \/ bound \notin {None, declared[c]}
       THEN Settle(c, Result("InvalidOption", None)) /\ UNCHANGED bound
       ELSE /\ bound' = declared[c]
            /\ place' = [place EXCEPT ![c] = "attached"]
            /\ UNCHANGED result
    /\ UNCHANGED <<setup, loading, load, joined, aborted>>

-----------------------------------------------------------------------------
(* The lazy client *)

\* Fault: an import under way is not shared.
CallLoadsAlone(c) ==
    /\ place[c] = "attached"
    /\ place' = [place EXCEPT ![c] = "loading"]
    /\ IF loading # None /\ load[loading] = "resolved"
       THEN joined' = [joined EXCEPT ![c] = loading] /\ UNCHANGED <<loading, load>>
       ELSE /\ joined' = [joined EXCEPT ![c] = c]
            /\ loading' = c
            /\ load' = [load EXCEPT ![c] = "pending"]
    /\ UNCHANGED <<setup, bound, aborted, result>>

\* request() or ready(): #load().
Call(c) ==
    /\ place[c] = "attached"
    /\ place' = [place EXCEPT ![c] = "loading"]
    /\ IF loading # None
       THEN joined' = [joined EXCEPT ![c] = loading] /\ UNCHANGED <<loading, load>>
       ELSE /\ joined' = [joined EXCEPT ![c] = c]
            /\ loading' = c
            /\ load' = [load EXCEPT ![c] = "pending"]
    /\ UNCHANGED <<setup, bound, aborted, result>>

\* The module is there and its ConfidentialClient made.
Loads(f) ==
    /\ load[f] = "pending"
    /\ load' = [load EXCEPT ![f] = "resolved"]
    /\ UNCHANGED <<setup, bound, loading, place, joined, aborted, result>>

\* Fault: the rejected import stays.
LoadFailsForGood(f) ==
    /\ load[f] = "pending"
    /\ load' = [load EXCEPT ![f] = "failed"]
    /\ UNCHANGED <<setup, bound, loading, place, joined, aborted, result>>

\* The import or the constructor threw: the catch handler.
LoadFails(f) ==
    /\ load[f] = "pending"
    /\ load' = [load EXCEPT ![f] = "failed"]
    /\ loading' = None
    /\ UNCHANGED <<setup, bound, place, joined, aborted, result>>

Unloaded(c) ==
    /\ place[c] = "loading"
    /\ load[joined[c]] = "failed"
    /\ Settle(c, Result("InternalError", None))
    /\ UNCHANGED <<setup, bound, loading, load, joined, aborted>>

\* Fault: the signal is not handed over with the call.
HandOverNoSignal(c) ==
    /\ place[c] = "loading"
    /\ load[joined[c]] = "resolved"
    /\ place' = [place EXCEPT ![c] = "handed"]
    /\ UNCHANGED <<setup, bound, loading, load, joined, aborted, result>>

\* The loaded client's own request() or ready() reads the signal first.
HandOver(c) ==
    /\ place[c] = "loading"
    /\ load[joined[c]] = "resolved"
    /\ IF aborted[c]
       THEN Settle(c, Result("aborted", None))
       ELSE place' = [place EXCEPT ![c] = "handed"] /\ UNCHANGED result
    /\ UNCHANGED <<setup, bound, loading, load, joined, aborted>>

\* The loaded client settles the call, with an error of its own or with an
\* answer signed under the chain it was made for.  An aborted signal need not
\* win: it is not read while an answer is checked.
Settles(c) ==
    /\ place[c] = "handed"
    /\ \/ Settle(c, Result("failed", None))
       \/ aborted[c] /\ Settle(c, Result("aborted", None))
       \/ c \in Readies /\ Settle(c, Result("ready", bound))
       \/ /\ c \in Requests
          /\ \E inner \in Inner :
                Settle(c, Result(IF library = "viem" THEN ViemOutcome(inner)
                                 ELSE EthersOutcome(inner), bound))
    /\ UNCHANGED <<setup, bound, loading, load, joined, aborted>>

\* The caller aborts, or viem's timeout passes.  _send() has no signal.
Abort(c) ==
    /\ library = "viem" \/ c \in Readies
    /\ place[c] \in {"attached", "loading", "handed"}
    /\ ~aborted[c]
    /\ aborted' = [aborted EXCEPT ![c] = TRUE]
    /\ UNCHANGED <<setup, bound, loading, load, place, joined, result>>

-----------------------------------------------------------------------------

\* A VrpcProvider makes its lazy client in its constructor, with the one chain
\* it requires there.
Init ==
    /\ library \in {"viem", "ethers"}
    /\ IF library = "viem"
       THEN /\ declared \in [Calls -> Chains \cup {None}]
            /\ bound = None
            /\ place = [c \in Calls |-> "idle"]
       ELSE \E id \in Chains :
            /\ declared = [c \in Calls |-> id]
            /\ bound = id
            /\ place = [c \in Calls |-> "attached"]
    /\ loading = None
    /\ load = [c \in Calls |-> "none"]
    /\ joined = [c \in Calls |-> None]
    /\ aborted = [c \in Calls |-> FALSE]
    /\ result = [c \in Calls |-> NoResult]

Next ==
    \E c \in Calls :
        \/ Attach(c)
        \/ Call(c)
        \/ Loads(c)
        \/ LoadFails(c)
        \/ Unloaded(c)
        \/ HandOver(c)
        \/ Settles(c)
        \/ Abort(c)

Spec == Init /\ [][Next]_vars

-----------------------------------------------------------------------------
(* Correctness *)

Results == [kind : {"none", "InvalidOption", "InternalError", "aborted", "failed", "ready",
                    "answer", "RpcRequestError", "HttpRequestError", "SERVER_ERROR",
                    "UNSUPPORTED_OPERATION", "BAD_DATA"},
            chain : Chains \cup {None}]

\* Every variable holds what the adapters can put there.
TypeOK ==
    /\ library \in {"viem", "ethers"}
    /\ declared \in [Calls -> Chains \cup {None}]
    /\ bound \in Chains \cup {None}
    /\ loading \in Calls \cup {None}
    /\ load \in [Calls -> {"none", "pending", "resolved", "failed"}]
    /\ place \in [Calls -> {"idle", "attached", "loading", "handed", "done"}]
    /\ joined \in [Calls -> Calls \cup {None}]
    /\ aborted \in [Calls -> BOOLEAN]
    /\ result \in [Calls -> Results]

\* In whatever order viem clients of several chains come, each of their calls
\* reaches only nodes of its own chain (transport.ts 151-161).
RunsOnDeclaredChain ==
    \A c \in Calls : place[c] = "handed" \/ result[c].chain # None => bound = declared[c]

\* However many calls arrive while the crypto loads, and however often loading
\* failed before, one ConfidentialClient is made: all calls share its pin.
OneClient ==
    \A f, g \in Calls : load[f] = "resolved" /\ load[g] = "resolved" => f = g

\* "Is retried on the next call" (lazy-confidential.ts 19): the import the
\* next call would await has not failed.
FailedLoadIsForgotten == loading # None => load[loading] \in {"pending", "resolved"}

\* A call whose signal aborts while the crypto loads never reaches the client,
\* though nothing reads the signal until the load is over.
AbortedIsNotHanded ==
    [][\A c \in Calls : aborted[c] /\ place[c] # "handed" => place'[c] # "handed"]_vars
=============================================================================
