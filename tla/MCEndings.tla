----------------------------- MODULE MCEndings -----------------------------
(***************************************************************************)
(* What must end: a dispatched call and a held poll of two accounts, a     *)
(* chat request while the dashboard changes its routing, a browser turn,   *)
(* a companion window.  They share no state here: a behaviour plays one of *)
(* them, and the others keep their initial states.                         *)
(***************************************************************************)
EXTENDS AgentRegistry, ChatTurn, TLC

CONSTANTS u1, u2, c1, c2, c3, r1,
          Places, Home, Unknown

VARIABLES
    scene,
    \* FailoverRouter
    row, setting, changes, cooled, disabled, step, user, pool, want, plan, override, pos, fate,
    attempts, hooked, rows,
    \* Companion
    agent, track, cooling, child, pipe, inbox, view, budget, deaths, lost, won

Route == INSTANCE FailoverRouter WITH
    Creds <- {c1, c2, c3}, Holder <- c1 :> u1 @@ c2 :> u1 @@ c3 :> u2,
    Requests <- {r1}, Chains <- {<<c1, c1>>, <<c2, c1>>}, MaxSteps <- 2, MaxChanges <- 1,
    cooling <- cooled, pc <- step

Overlay == INSTANCE Companion WITH
    InboxSize <- 1, FlightTicks <- 1, HoldTicks <- 2, IdleTicks <- 2, BurstTicks <- 1,
    VoiceTicks <- 2, Envelopes <- 1, Deaths <- 1

routeVars == <<row, setting, changes, cooled, disabled, step, user, pool, want, plan, override,
               pos, fate, attempts, hooked, rows>>
overlayVars == <<agent, track, cooling, child, pipe, inbox, view, budget, deaths, lost, won>>
endings == <<scene, vars, routeVars, turnVars, overlayVars>>

EndingsInit ==
    /\ scene \in {"agent", "route", "turn", "overlay"}
    /\ Init /\ Route!Init /\ TurnInit /\ Overlay!CompanionInit
    /\ scene # "route" => user[r1] = u1 /\ \A c \in {c1, c2, c3} : row[c] = "absent"

EndingsNext ==
    /\ \/ scene = "agent" /\ Next
          /\ UNCHANGED <<routeVars, turnVars, overlayVars>>
       \/ scene = "route" /\ Route!Next
          /\ UNCHANGED <<vars, turnVars, overlayVars>>
       \/ scene = "turn" /\ TurnNext
          /\ UNCHANGED <<vars, routeVars, overlayVars>>
       \/ scene = "overlay" /\ Overlay!CompanionNext
          /\ UNCHANGED <<vars, routeVars, turnVars>>
    /\ UNCHANGED scene

\* Nothing that is fair is enabled initially, but for the step of a turn.
PlayedStep ==
    /\ scene = "turn" /\ Step
    /\ UNCHANGED <<scene, vars, routeVars, overlayVars>>

EndingsSpec ==
    /\ EndingsInit /\ [][EndingsNext]_endings
    /\ Fairness /\ Route!Fairness /\ Overlay!CompanionFairness /\ WF_endings(PlayedStep)

\* Every dispatched call returns and every held poll is answered.
CallsReturn == DispatchReturns /\ PollReturns

\* A chat request gets an answer, the head of a stream or an error.
RequestsEnd == Route!RequestsEnd

\* A turn of the browser agent ends, and is then stored or was refused by the
\* database, wherever the browser leaves.
TurnEnds == scene = "turn" => EndsAtLast

\* A window whose agent died ends, and a pointer that left its spot comes home.
OverlayEnds == Overlay!OverlayEnds
=============================================================================
