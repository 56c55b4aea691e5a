----------------------------- MODULE Completion -----------------------------
(***************************************************************************)
(* What the failover router promises one chat request: its plan is tried   *)
(* from left to right, no step twice; the answer, whole or streamed, comes *)
(* from the last step tried and from no other; after an outcome nothing    *)
(* more is tried.                                                          *)
(***************************************************************************)
EXTENDS Naturals

CONSTANTS Requests, MaxSteps

VARIABLES outcome, tried, server

vars == <<outcome, tried, server>>

Outcome == {"open", "served", "broken", "refused", "failed", "cancelled"}

Init ==
    /\ outcome = [r \in Requests |-> "open"]
    /\ tried = [r \in Requests |-> {}]
    /\ server = [r \in Requests |-> 0]

\* Step i goes to its provider.
Try(r, i) ==
    /\ outcome[r] = "open"
    /\ \A j \in tried[r] : j < i
    /\ tried' = [tried EXCEPT ![r] = @ \cup {i}]
    /\ UNCHANGED <<outcome, server>>

\* The last step tried answered.
Serve(r, i) ==
    /\ outcome[r] = "open"
    /\ i \in tried[r] /\ \A j \in tried[r] : j <= i
    /\ outcome' = [outcome EXCEPT ![r] = "served"]
    /\ server' = [server EXCEPT ![r] = i]
    /\ UNCHANGED tried

\* A stream ends early; nobody else continues it.
Break(r) ==
    /\ outcome[r] = "served"
    /\ outcome' = [outcome EXCEPT ![r] = "broken"]
    /\ UNCHANGED <<tried, server>>

\* A provider's own error, an exhausted plan, or a client that did not wait.
End(r, how) ==
    /\ outcome[r] = "open"
    /\ outcome' = [outcome EXCEPT ![r] = how]
    /\ UNCHANGED <<tried, server>>

Next ==
    \E r \in Requests :
        \/ \E i \in 1 .. MaxSteps : Try(r, i) \/ Serve(r, i)
        \/ Break(r)
        \/ \E how \in {"refused", "failed", "cancelled"} : End(r, how)

Spec == Init /\ [][Next]_vars
=============================================================================
