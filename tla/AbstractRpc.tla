---------------------------- MODULE AbstractRpc ----------------------------
(***************************************************************************)
(* What RpcClient::call() promises: a call runs on the server at most      *)
(* once, and returns either its own answer, after it has run, or an error, *)
(* after which it may still run.                                           *)
(***************************************************************************)
CONSTANT Callers

VARIABLES
    state,      \* state[c]: of the call of fiber c
    executed    \* the calls the server has run

Init == state = [c \in Callers |-> "idle"] /\ executed = {}

Begin(c) ==
    /\ state[c] = "idle"
    /\ state' = [state EXCEPT ![c] = "open"]
    /\ UNCHANGED executed

Execute(c) ==
    /\ state[c] # "idle" /\ c \notin executed
    /\ executed' = executed \cup {c}
    /\ UNCHANGED state

Answer(c) ==
    /\ state[c] = "open" /\ c \in executed
    /\ state' = [state EXCEPT ![c] = "answered"]
    /\ UNCHANGED executed

Fail(c) ==
    /\ state[c] \in {"idle", "open"}
    /\ state' = [state EXCEPT ![c] = "failed"]
    /\ UNCHANGED executed

Next == \E c \in Callers : Begin(c) \/ Execute(c) \/ Answer(c) \/ Fail(c)

Spec == Init /\ [][Next]_<<state, executed>>
=============================================================================
