------------------------------ MODULE JobCall ------------------------------
(***************************************************************************)
(* What AgentRegistry.dispatch and submit_result promise together, without *)
(* queues, sockets or polls: a call is opened once, takes at most one      *)
(* answer and only from its owner, answers its caller only if it was       *)
(* answered, and takes nothing once its caller has been told an outcome.   *)
(***************************************************************************)
CONSTANTS Users, Jobs, None

VARIABLES status, owner, answer

vars == <<status, owner, answer>>

\* "abandoned": the caller left without the call being closed.
Status == {"new", "open", "abandoned", "answered", "failed"}

Init ==
    /\ status = [j \in Jobs |-> "new"]
    /\ owner = [j \in Jobs |-> None]
    /\ answer = [j \in Jobs |-> None]

Call(u, j) ==
    /\ status[j] = "new"
    /\ status' = [status EXCEPT ![j] = "open"]
    /\ owner' = [owner EXCEPT ![j] = u]
    /\ UNCHANGED answer

Answer(j) ==
    /\ status[j] \in {"open", "abandoned"}
    /\ answer[j] = None
    /\ answer' = [answer EXCEPT ![j] = owner[j]]
    /\ UNCHANGED <<status, owner>>

Complete(j) ==
    /\ status[j] = "open"
    /\ answer[j] # None
    /\ status' = [status EXCEPT ![j] = "answered"]
    /\ UNCHANGED <<owner, answer>>

\* A timeout or a cancellation; an answer may have arrived just before it.
Fail(j) ==
    /\ status[j] = "open"
    /\ status' = [status EXCEPT ![j] = "failed"]
    /\ UNCHANGED <<owner, answer>>

Abandon(j) ==
    /\ status[j] = "open"
    /\ status' = [status EXCEPT ![j] = "abandoned"]
    /\ UNCHANGED <<owner, answer>>

Next == \E j \in Jobs : \/ \E u \in Users : Call(u, j)
                        \/ Answer(j) \/ Complete(j) \/ Fail(j) \/ Abandon(j)

Spec == Init /\ [][Next]_vars
=============================================================================
