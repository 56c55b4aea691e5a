------------------------------ MODULE Services ------------------------------
(***************************************************************************)
(* The services around the core, each over its own tables or its own       *)
(* process memory: accounts, OAuth grants, device pairing, providers, the  *)
(* handoff plane, held approvals, the companion window and the machine's   *)
(* desktop.  They share no state, so a behaviour plays one of them while   *)
(* the others keep their initial states.                                   *)
(***************************************************************************)
EXTENDS Naturals, Sequences, FiniteSets

CONSTANTS
    Scenes,    \* the scenes a run plays
    Users, NoUser,
    Requests,  \* requests that overlap
    \* Accounts
    Emails, Passwords, NoPassword, Logins, MaxUsers, MaxVersion, MaxAttempts,
    \* Grants and Pairing
    Clients, MaxCodes, MaxTokens, MaxDevices,
    \* Providers
    Names, Outcomes, MaxRows, MaxSaves,
    \* ControlPlane
    Handoffs, Voices, MaxHandoffs,
    \* Approvals
    HeldTokens, Calls, Ttl, Deadline,
    \* Companion
    Places, Home, Unknown, InboxSize, FlightTicks, HoldTicks, IdleTicks, BurstTicks, VoiceTicks,
    Envelopes, Deaths,
    \* Desktop
    Controls, Secrets, Empty, Windows, Slots, Actions, Changes

\* A deadline is a time (pending_actions.expires_at), a slot the index of a control in
\* the order of the accessibility tree (_look_assemble).  The companion's inbox holds a
\* message at least and a flight takes a frame (overlay.py); the rest are bounds.
ASSUME ServicesAssumption ==
    /\ Ttl \in Nat
    /\ InboxSize \in Nat \ {0} /\ FlightTicks \in Nat \ {0}
    /\ MaxHandoffs \in Nat /\ Handoffs \in Nat /\ Voices \in Nat
    /\ Slots \subseteq Nat \ {0} /\ IsFiniteSet(Slots)

VARIABLES
    scene,
    \* Accounts
    users, projects, identities, attempts, logins, cookies, replaced, overlapped,
    \* Grants
    granted, codes, tokens, exchanges, consents, cutoff,
    \* Pairing
    devices, keys, polls, approvals, lost,
    \* Providers
    creds, settings, callers, saved, saves, late,
    \* ControlPlane
    queue, slot, posts, posted, relay, wire, answers, shown, gone, crossed,
    \* Approvals
    rows, minted, calls, now,
    \* Companion
    agent, track, cooling, child, pipe, inbox, view, budget, deaths, missed, won,
    \* Desktop
    screen, front, focus, mouse, held, read, act, actions, changes, stale, drifted, refused,
    astray, struck

Account == INSTANCE Accounts WITH requests <- logins

Grant == INSTANCE Grants WITH owner <- granted, requests <- exchanges

Pair == INSTANCE Pairing WITH Polls <- Requests, requests <- polls

Order == INSTANCE Providers WITH Callers <- Requests

Plane == INSTANCE ControlPlane

Hold == INSTANCE Approvals WITH Tokens <- HeldTokens

Overlay == INSTANCE Companion WITH lost <- missed

Screen == INSTANCE Desktop

accountVars == <<users, projects, identities, attempts, logins, cookies, replaced, overlapped>>
grantVars == <<granted, codes, tokens, exchanges, consents, cutoff>>
pairVars == <<devices, keys, polls, approvals, lost>>
providerVars == <<creds, settings, callers, saved, saves, late>>
planeVars == <<queue, slot, posts, posted, relay, wire, answers, shown, gone, crossed>>
holdVars == <<rows, minted, calls, now>>
overlayVars == <<agent, track, cooling, child, pipe, inbox, view, budget, deaths, missed, won>>
desktopVars == <<screen, front, focus, mouse, held, read, act, actions, changes, stale, drifted,
                 refused, astray, struck>>

ServicesInit ==
    /\ scene \in Scenes
    /\ Account!AccountInit /\ Grant!GrantInit /\ Pair!PairingInit /\ Order!ProviderInit
    /\ Plane!ControlInit /\ Hold!ApprovalInit /\ Overlay!CompanionInit /\ Screen!DesktopInit

ServicesNext ==
    /\ UNCHANGED scene
    /\ \/ scene = "accounts" /\ Account!AccountNext
       \/ scene # "accounts" /\ UNCHANGED accountVars
    /\ \/ scene = "grants" /\ Grant!GrantNext
       \/ scene # "grants" /\ UNCHANGED grantVars
    /\ \/ scene = "pairing" /\ Pair!PairingNext
       \/ scene # "pairing" /\ UNCHANGED pairVars
    /\ \/ scene \in {"order", "save"} /\ Order!ProviderNext
       \/ scene \notin {"order", "save"} /\ UNCHANGED providerVars
    /\ \/ scene = "plane" /\ Plane!ControlNext
       \/ scene # "plane" /\ UNCHANGED planeVars
    /\ \/ scene = "hold" /\ Hold!ApprovalNext
       \/ scene # "hold" /\ UNCHANGED holdVars
    /\ \/ scene = "overlay" /\ Overlay!CompanionNext
       \/ scene # "overlay" /\ UNCHANGED overlayVars
    /\ \/ scene = "screen" /\ Screen!DesktopNext
       \/ scene # "screen" /\ UNCHANGED desktopVars

services == <<scene, accountVars, grantVars, pairVars, providerVars, planeVars, holdVars,
              overlayVars, desktopVars>>
ServicesSpec == ServicesInit /\ [][ServicesNext]_services

\* No account has two default projects and whoever is signed in has one, a replaced
\* password signs everyone out and an account has one GitHub id; a token acts for the user
\* who consented to its client and dies with it; a pairing mints at most one key
\* (identity.py, oauth_store.py, accounts.py).
IdentitySafe == Account!AccountsSafe /\ Grant!GrantSafe /\ Pair!PairingSafe

\* The order of the providers is one request's, names are unique, and a saved setting
\* is kept (credential_store.py, byok.py).
ProvidersSafe == Order!ProvidersSafe

\* Handoffs and the newest voice state reach the companion or are accounted for, a held
\* action is approved by its owner and in time, and what the window shows follows from
\* what it was told (endpoints/agents.py, harness_approvals.py, overlay.py).
CompanionSafe == Plane!ControlSafe /\ Hold!ApprovalSafe /\ Overlay!OverlaySafe

\* Input reaches the control that was meant, or the machine refuses (tool_executor.py).
DesktopSafe == Screen!DesktopSafe

\* tool_executor.py:2763 and 2850, of a staged action: the stored arguments pass the
\* normalisation again when they are executed.
StagedRenormalizes == Screen!StagedRenormalizes
=============================================================================
