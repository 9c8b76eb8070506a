----------------------------- MODULE RemoteCalls -----------------------------
(***************************************************************************)
(* What a caller of the MCP client (internal/mcp) may rely on: a request   *)
(* is executed at most once, whatever is retried beneath it, and a result  *)
(* is the result of the request it is returned for.  A request may fail    *)
(* before, while or after the server executes it, and may be executed      *)
(* after its caller has given up.                                          *)
(***************************************************************************)
EXTENDS Naturals, Sequences

VARIABLES
    runs,     \* request -> how often the server has executed it
    open,     \* requests whose caller waits
    answered  \* requests whose caller got the result

vars == <<runs, open, answered>>

Init == runs = << >> /\ open = {} /\ answered = {}

Make ==
    /\ runs' = Append(runs, 0)
    /\ open' = open \cup {Len(runs) + 1}
    /\ UNCHANGED answered

Run(n) ==
    /\ runs[n] = 0
    /\ runs' = [runs EXCEPT ![n] = 1]
    /\ UNCHANGED <<open, answered>>

Return(n) ==
    /\ n \in open /\ runs[n] = 1
    /\ open' = open \ {n}
    /\ answered' = answered \cup {n}
    /\ UNCHANGED runs

\* A request that is made on behalf of another may take it with it.
Fail ==
    /\ \E S \in SUBSET open : S # {} /\ open' = open \ S
    /\ UNCHANGED <<runs, answered>>

Next == Make \/ Fail \/ \E n \in DOMAIN runs : Run(n) \/ Return(n)

Spec == Init /\ [][Next]_vars
=============================================================================
