---------------------------- MODULE BoundSession ----------------------------
(***************************************************************************)
(* What an open session promises the code that calls send() and chainId(): *)
(* it is bound to one chain once and for good, a payload leaves it at most *)
(* once and only when it is bound, and every answer is of that chain.      *)
(* Verifiers, bootstraps, pins and the network are hidden.                 *)
(***************************************************************************)
CONSTANTS Sends,   \* invocations of send()
          Asks,    \* invocations of chainId()
          Chains,  \* chain ids
          None     \* no chain

VARIABLES chain,  \* the chain the session is bound to
          sent,   \* the sends whose payload has left
          told    \* told[c]: what call c has been told

vars == <<chain, sent, told>>

Nothing == [kind |-> "none", chain |-> None]

\* The calls that have neither sent anything nor been told anything.
Fresh == {c \in Sends \cup Asks : c \notin sent /\ told[c] = Nothing}

Tell(S, kind, k) ==
    told' = [c \in Sends \cup Asks |->
                IF c \in S THEN [kind |-> kind, chain |-> k] ELSE told[c]]

-----------------------------------------------------------------------------

Init ==
    /\ chain \in Chains \cup {None}
    /\ sent = {}
    /\ told = [c \in Sends \cup Asks |-> Nothing]

\* Calls that waited for a binding go on together: sends put their payload on
\* the wire, asks are told the chain.
Bind(k, S) ==
    /\ chain \in {None, k}
    /\ chain' = k
    /\ sent' = sent \cup (S \cap Sends)
    /\ Tell(S \cap Asks, "answer", k)

\* Calls that find no binding fail; nothing of theirs was sent.
GiveUp(S) ==
    /\ Tell(S, "unbound", None)
    /\ UNCHANGED <<chain, sent>>

\* A send behind its payload fails or returns an answer of the bound chain.
Fail(c) ==
    /\ c \in sent
    /\ told[c] = Nothing
    /\ Tell({c}, "failed", None)
    /\ UNCHANGED <<chain, sent>>

Answer(c) ==
    /\ c \in sent
    /\ told[c] = Nothing
    /\ Tell({c}, "answer", chain)
    /\ UNCHANGED <<chain, sent>>

Next ==
    \/ \E S \in SUBSET Fresh : GiveUp(S) \/ \E k \in Chains : Bind(k, S)
    \/ \E c \in Sends : Fail(c) \/ Answer(c)

Spec == Init /\ [][Next]_vars
=============================================================================
