-------------------------- MODULE OneShotApproval --------------------------
(***************************************************************************)
(* What the staging store, confirm_action and the browser's approval       *)
(* rendezvous promise together: a staged action runs at most once, only on *)
(* the word of the subject that staged it, and never after it was          *)
(* declined, popped, lost or older than its time to live.                  *)
(***************************************************************************)
EXTENDS Naturals

CONSTANTS Users, Tokens, NoOne

VARIABLES phase, owner, ran, judge

vars == <<phase, owner, ran, judge>>

Phase == {"new", "staged", "run", "void"}

Init ==
    /\ phase = [t \in Tokens |-> "new"]
    /\ owner = [t \in Tokens |-> NoOne]
    /\ ran = [t \in Tokens |-> 0]
    /\ judge = [t \in Tokens |-> NoOne]

Stage(u, t) ==
    /\ phase[t] = "new"
    /\ phase' = [phase EXCEPT ![t] = "staged"]
    /\ owner' = [owner EXCEPT ![t] = u]
    /\ UNCHANGED <<ran, judge>>

\* Auto mode stages and runs without leaving the token open in between.
StageAndRun(u, t) ==
    /\ phase[t] = "new"
    /\ phase' = [phase EXCEPT ![t] = "run"]
    /\ owner' = [owner EXCEPT ![t] = u]
    /\ ran' = [ran EXCEPT ![t] = 1]
    /\ judge' = [judge EXCEPT ![t] = u]

Run(t) ==
    /\ phase[t] = "staged"
    /\ phase' = [phase EXCEPT ![t] = "run"]
    /\ ran' = [ran EXCEPT ![t] = 1]
    /\ judge' = [judge EXCEPT ![t] = owner[t]]
    /\ UNCHANGED owner

\* Declined, expired, popped as an orphan; a restart voids every open token.
Void(S) ==
    /\ \A t \in S : phase[t] = "staged"
    /\ phase' = [t \in Tokens |-> IF t \in S THEN "void" ELSE phase[t]]
    /\ UNCHANGED <<owner, ran, judge>>

Next ==
    \/ \E u \in Users, t \in Tokens : Stage(u, t) \/ StageAndRun(u, t)
    \/ \E t \in Tokens : Run(t)
    \/ \E S \in SUBSET Tokens : Void(S)

Spec == Init /\ [][Next]_vars
=============================================================================
