------------------------------ MODULE Pairing ------------------------------
(***************************************************************************)
(* Device pairing (DeviceCodeStore of core/accounts.py, the /auth/device   *)
(* endpoints) and the API keys it mints (core/identity.py).                *)
(*                                                                         *)
(* A poll is one READ COMMITTED transaction and the insert of the key      *)
(* another; other polls' statements run in between, and the process may    *)
(* die there.  An exception inside a transaction rolls it back: a poll     *)
(* that is told to slow down, or that its code has expired, changes        *)
(* nothing.                                                                *)
(***************************************************************************)
EXTENDS Naturals, Sequences, FiniteSets

CONSTANTS
    Users, NoUser,
    Polls,      \* requests that overlap
    MaxDevices  \* bound: pairing requests

VARIABLES
    devices,   \* device_codes, by number
    keys,      \* api_keys
    requests,  \* the requests under way
    approvals, \* history: who approved which pairing
    lost       \* history: pairings whose poll died before the key

pairingVars == <<devices, keys, requests, approvals, lost>>

Idle == [pc |-> "idle"]
Become(r, request) == requests' = [requests EXCEPT ![r] = request]
-----------------------------------------------------------------------------
CreateDevice ==
    /\ Len(devices) < MaxDevices
    /\ devices' = Append(devices, [status |-> "pending", user |-> NoUser, live |-> TRUE])
    /\ UNCHANGED <<keys, requests, approvals, lost>>

\* approve and deny: one UPDATE of a pending row, expired or not.
Decide(i, status, u) ==
    /\ devices[i].live /\ devices[i].status = "pending"
    /\ devices' = [devices EXCEPT ![i].status = status, ![i].user = u]
    /\ approvals' = IF status = "approved" THEN approvals \cup {<<i, u>>} ELSE approvals
    /\ UNCHANGED <<keys, requests, lost>>

\* poll's SELECT, in its transaction; the answers that change nothing are left
\* out: not yet approved, denied, claimed, expired, too soon.
PollDevice(r, i) ==
    /\ requests[r] = Idle
    /\ devices[i].live /\ devices[i].status = "approved"
    /\ Become(r, [pc |-> "claim", device |-> i])
    /\ UNCHANGED <<devices, keys, approvals, lost>>

\* Variant: the claim trusts the status it read.
ClaimDeviceUnchecked(r) ==
    /\ requests[r].pc = "claim"
    /\ LET i == requests[r].device
       IN /\ devices' = [devices EXCEPT ![i].status = "complete"]
          /\ Become(r, [pc |-> "key", device |-> i, user |-> devices[i].user])
    /\ UNCHANGED <<keys, approvals, lost>>

\* The UPDATE that converts an approved row, for one poll only.
ClaimDevice(r) ==
    /\ requests[r].pc = "claim"
    /\ LET i == requests[r].device
       IN IF devices[i].live /\ devices[i].status = "approved"
          THEN /\ devices' = [devices EXCEPT ![i].status = "complete"]
               /\ Become(r, [pc |-> "key", device |-> i, user |-> devices[i].user])
          ELSE Become(r, Idle) /\ UNCHANGED devices
    /\ UNCHANGED <<keys, approvals, lost>>

\* The key is minted after that transaction, in another.
MintKey(r) ==
    /\ requests[r].pc = "key"
    /\ keys' = Append(keys, [user |-> requests[r].user, device |-> requests[r].device,
                             revoked |-> FALSE])
    /\ Become(r, Idle)
    /\ UNCHANGED <<devices, approvals, lost>>

\* revoke_api_key of a key in the user's own list.
RevokeKey(i) ==
    /\ ~keys[i].revoked /\ keys' = [keys EXCEPT ![i].revoked = TRUE]
    /\ UNCHANGED <<devices, requests, approvals, lost>>

\* _sweep_expired, of the next pairing or approval page.
SweepDevice(i) ==
    /\ devices[i].live /\ devices' = [devices EXCEPT ![i].live = FALSE]
    /\ UNCHANGED <<keys, requests, approvals, lost>>

\* The process dies; what was committed stays.
Abandon(r) ==
    /\ requests[r] # Idle /\ Become(r, Idle)
    /\ lost' = IF requests[r].pc = "key" THEN lost \cup {requests[r].device} ELSE lost
    /\ UNCHANGED <<devices, keys, approvals>>
-----------------------------------------------------------------------------
PairingInit ==
    /\ devices = <<>> /\ keys = <<>> /\ approvals = {} /\ lost = {}
    /\ requests = [r \in Polls |-> Idle]

PairingNext ==
    \/ CreateDevice
    \/ \E i \in DOMAIN devices :
          \/ \E u \in Users : Decide(i, "approved", u)
          \/ Decide(i, "denied", NoUser)
          \/ SweepDevice(i)
          \/ \E r \in Polls : PollDevice(r, i)
    \/ \E r \in Polls : ClaimDevice(r) \/ MintKey(r) \/ Abandon(r)
    \/ \E i \in DOMAIN keys : RevokeKey(i)
-----------------------------------------------------------------------------
\* A pairing request yields one key at most, for its approver, and none when it
\* was denied, however many polls and approvals overlap.
OneKeyPerPairing ==
    \A i \in DOMAIN keys :
        /\ devices[keys[i].device].status = "complete"
        /\ <<keys[i].device, keys[i].user>> \in approvals
        /\ \A j \in DOMAIN keys : keys[i].device = keys[j].device => i = j

\* An approved pairing is waiting for its poll, or has its key, or lost it to a
\* poll that died between the claim and the key, or was swept.
ApprovalAccountedFor ==
    \A a \in approvals :
        \/ devices[a[1]].status = "approved"
        \/ \E i \in DOMAIN keys : keys[i].device = a[1]
        \/ \E r \in Polls : requests[r].pc = "key" /\ requests[r].device = a[1]
        \/ a[1] \in lost

PairingSafe == OneKeyPerPairing /\ ApprovalAccountedFor
=============================================================================
