-------------------------- MODULE CompanionProofs --------------------------
(***************************************************************************)
(* What the user's companion keeps, for any number of handoffs, voice      *)
(* states, approvals, places and deaths: the plane that carries handoffs   *)
(* and voice states to the agent, the approvals that hold actions back,    *)
(* and the window the agent commands.  Each has an inductive invariant     *)
(* over its own variables; they are put together at the end, where a step  *)
(* of the composition is a step of one component or leaves its variables   *)
(* alone.                                                                  *)
(***************************************************************************)
EXTENDS Services, SequenceTheorems, FiniteSetTheorems, TLAPS
-----------------------------------------------------------------------------
(* Held approvals (Approvals.tla).                                         *)

HeldRows == [owner : Hold!Subjects, slow : BOOLEAN, deadline : Nat]
Resolving == [pc : {"none", "expired", "checked", "approved", "declined"}, token : HeldTokens,
              by : Hold!Subjects, approve : BOOLEAN, at : Nat]

\* A call that got past the checks is the owner's and in time; one that found the row
\* too late says so of its deadline; what was answered has no row.
ResolveSound(q, ms, rs, time) ==
    \/ q = Hold!Idle
    \/ /\ q \in Resolving /\ q.token \in DOMAIN ms /\ q.at <= time
       /\ q.pc # "none" => ms[q.token].slow
       /\ q.pc = "expired" => ms[q.token].deadline < q.at
       /\ q.pc \in {"checked", "approved", "declined"} =>
             q.by = ms[q.token].owner /\ q.at <= ms[q.token].deadline
       /\ q.pc \in {"approved", "declined"} => q.token \notin DOMAIN rs

HoldTypes ==
    /\ now \in Nat
    /\ DOMAIN minted \subseteq HeldTokens /\ minted \in [DOMAIN minted -> HeldRows]
    /\ DOMAIN rows \subseteq DOMAIN minted /\ rows = [t \in DOMAIN rows |-> minted[t]]
    /\ calls = [c \in Calls |-> calls[c]]
ResolvesSound == \A c \in Calls : ResolveSound(calls[c], minted, rows, now)
HoldInv == HoldTypes /\ ResolvesSound /\ Hold!FastRowsStay /\ Hold!RowsLeaveForAReason
-----------------------------------------------------------------------------
LEMMA ResolveKept ==
    ASSUME NEW q, NEW ms, NEW ns, NEW rs, NEW ss, NEW time, NEW later,
           ResolveSound(q, ms, rs, time), time \in Nat, later \in Nat, time <= later,
           DOMAIN ms \subseteq DOMAIN ns, \A t \in DOMAIN ms : ns[t] = ms[t],
           DOMAIN ss \cap DOMAIN ms \subseteq DOMAIN rs
    PROVE  ResolveSound(q, ns, ss, later)
<1>1. CASE q = Hold!Idle  BY <1>1 DEF ResolveSound
<1>2. CASE q # Hold!Idle
  <2>1. /\ q \in Resolving /\ q.token \in DOMAIN ms /\ q.at <= time
        /\ ns[q.token] = ms[q.token] /\ q.token \in DOMAIN ns
    BY <1>2 DEF ResolveSound
  <2>2. q.at \in Nat  BY <2>1 DEF Resolving
  <2>3. q.at <= later  BY <2>1, <2>2
  <2>4. q.token \notin DOMAIN rs => q.token \notin DOMAIN ss  BY <2>1
  <2>5. QED  BY <1>2, <2>1, <2>3, <2>4 DEF ResolveSound
<1>3. QED  BY <1>1, <1>2

LEMMA SuspendKeeps ==
    ASSUME HoldInv, NEW t \in HeldTokens, NEW subject \in Hold!Subjects, NEW slow \in BOOLEAN,
           Hold!Suspend(t, subject, slow)
    PROVE  HoldInv'
<1> DEFINE row == [owner |-> subject, slow |-> slow, deadline |-> now + Ttl]
<1>1. /\ t \notin DOMAIN minted /\ UNCHANGED <<calls, now>>
      /\ rows' = [u \in DOMAIN rows \cup {t} |-> IF u = t THEN row ELSE rows[u]]
      /\ minted' = [u \in DOMAIN minted \cup {t} |-> IF u = t THEN row ELSE minted[u]]
  BY DEF Hold!Suspend
<1>2. row \in HeldRows  BY ServicesAssumption DEF HoldInv, HoldTypes, HeldRows
<1> HIDE DEF row
<1>3. /\ DOMAIN minted' = DOMAIN minted \cup {t} /\ DOMAIN rows' = DOMAIN rows \cup {t}
      /\ \A u \in DOMAIN minted : minted'[u] = minted[u]
      /\ minted' \in [DOMAIN minted' -> HeldRows]
  BY <1>1, <1>2 DEF HoldInv, HoldTypes
<1>4. rows' = [u \in DOMAIN rows' |-> minted'[u]]
  BY <1>1, <1>3 DEF HoldInv, HoldTypes
<1>5. HoldTypes'  BY <1>1, <1>3, <1>4 DEF HoldInv, HoldTypes
<1>6. ResolvesSound'
  <2> SUFFICES ASSUME NEW c \in Calls  PROVE ResolveSound(calls[c], minted', rows', now)
    BY <1>1 DEF ResolvesSound
  <2>1. ResolveSound(calls[c], minted, rows, now) /\ now \in Nat /\ now <= now
    BY DEF HoldInv, ResolvesSound, HoldTypes
  <2>2. DOMAIN rows' \cap DOMAIN minted \subseteq DOMAIN rows  BY <1>1, <1>3
  <2>3. QED  BY <1>3, <2>1, <2>2, ResolveKept
<1>7. Hold!FastRowsStay'  BY <1>3 DEF HoldInv, Hold!FastRowsStay
<1>8. Hold!RowsLeaveForAReason'  BY <1>1, <1>3 DEF HoldInv, Hold!RowsLeaveForAReason
<1>9. QED  BY <1>5, <1>6, <1>7, <1>8 DEF HoldInv

\* The table without some rows of the slow path, each of which leaves for a reason, and at
\* most one call moves.
LEMMA RowsLeave ==
    ASSUME HoldInv, NEW leaving \in SUBSET DOMAIN rows,
           rows' = [t \in DOMAIN rows \ leaving |-> rows[t]], UNCHANGED <<minted, now>>,
           \A t \in leaving : /\ minted[t].slow
                           /\ \/ now >= minted[t].deadline
                              \/ \E c \in Calls : calls[c] # Hold!Idle /\ calls[c].token = t
                                                   /\ calls[c].by = minted[t].owner,
           \/ calls' = calls
           \/ \E c \in Calls, pc \in {"none", "approved", "declined"} :
                 /\ calls[c] # Hold!Idle /\ Hold!Become(c, [calls[c] EXCEPT !.pc = pc])
                 /\ pc # "none" => calls[c].pc = "checked" /\ calls[c].token \notin DOMAIN rows'
    PROVE  HoldInv'
<1>1. DOMAIN rows' = DOMAIN rows \ leaving  OBVIOUS
<1>2. \A c \in Calls : ResolveSound(calls[c], minted', rows', now')
  BY <1>1, ResolveKept DEF HoldInv, ResolvesSound, HoldTypes
<1>3. /\ ResolvesSound' /\ calls' = [c \in Calls |-> calls'[c]]
      /\ \A c \in Calls : calls[c] # Hold!Idle =>
            /\ calls'[c] # Hold!Idle /\ calls'[c].token = calls[c].token
            /\ calls'[c].by = calls[c].by
  <2>1. CASE calls' = calls  BY <1>2, <2>1 DEF ResolvesSound, HoldInv, HoldTypes
  <2>2. ASSUME NEW c \in Calls, NEW pc \in {"none", "approved", "declined"},
               calls[c] # Hold!Idle, Hold!Become(c, [calls[c] EXCEPT !.pc = pc]),
               pc # "none" => calls[c].pc = "checked" /\ calls[c].token \notin DOMAIN rows'
        PROVE  /\ ResolvesSound' /\ calls' = [d \in Calls |-> calls'[d]]
               /\ \A d \in Calls : calls[d] # Hold!Idle =>
                     /\ calls'[d] # Hold!Idle /\ calls'[d].token = calls[d].token
                     /\ calls'[d].by = calls[d].by
    <3> DEFINE q == [calls[c] EXCEPT !.pc = pc]
    <3>1. calls' = [calls EXCEPT ![c] = q] /\ calls = [d \in Calls |-> calls[d]]
      BY <2>2 DEF Hold!Become, HoldInv, HoldTypes
    <3>2. calls[c] \in Resolving /\ ResolveSound(calls[c], minted', rows', now')
      BY <1>2, <2>2 DEF ResolveSound
    <3>3. /\ q \in Resolving /\ q.pc = pc /\ q.token = calls[c].token /\ q.by = calls[c].by
          /\ q.at = calls[c].at
      BY <3>2 DEF Resolving
    <3>4. q # Hold!Idle  BY <3>3 DEF Hold!Idle
    <3> HIDE DEF q
    <3>5. ResolveSound(q, minted', rows', now')
      BY <2>2, <3>2, <3>3 DEF ResolveSound
    <3>6. calls'[c] = q /\ \A d \in Calls \ {c} : calls'[d] = calls[d]  BY <3>1
    <3>7. ResolvesSound'  BY <1>2, <3>5, <3>6 DEF ResolvesSound
    <3>8. calls' = [d \in Calls |-> calls'[d]]  BY <3>1
    <3>9. QED  BY <3>3, <3>4, <3>6, <3>7, <3>8
  <2>3. QED  BY <2>1, <2>2
<1>4. HoldTypes'
  <2>1. rows' = [t \in DOMAIN rows' |-> minted'[t]]  BY <1>1 DEF HoldInv, HoldTypes
  <2>2. QED  BY <1>1, <1>3, <2>1 DEF HoldInv, HoldTypes
<1>5. Hold!FastRowsStay'  BY <1>1 DEF HoldInv, Hold!FastRowsStay
<1>6. Hold!RowsLeaveForAReason'
  <2> SUFFICES ASSUME NEW t \in DOMAIN minted, t \notin DOMAIN rows'
               PROVE  \/ now' >= minted'[t].deadline
                      \/ \E c \in Calls : calls'[c] # Hold!Idle /\ calls'[c].token = t
                                           /\ calls'[c].by = minted'[t].owner
    BY DEF Hold!RowsLeaveForAReason
  <2>1. \/ now >= minted[t].deadline
        \/ \E c \in Calls : calls[c] # Hold!Idle /\ calls[c].token = t
                             /\ calls[c].by = minted[t].owner
    BY <1>1 DEF HoldInv, Hold!RowsLeaveForAReason
  <2>2. QED  BY <1>3, <2>1
<1>7. QED  BY <1>3, <1>4, <1>5, <1>6 DEF HoldInv

LEMMA SweepExpiredKeeps == ASSUME HoldInv, Hold!SweepExpired  PROVE HoldInv'
<1> DEFINE dead == {t \in DOMAIN rows : ~(~rows[t].slow \/ rows[t].deadline > now)}
<1>1. rows' = [t \in DOMAIN rows \ dead |-> rows[t]] /\ UNCHANGED <<minted, calls, now>>
  BY DEF Hold!SweepExpired
<1>2. ASSUME NEW t \in dead  PROVE minted[t].slow /\ now >= minted[t].deadline
  <2>1. rows[t] = minted[t] /\ minted[t].deadline \in Nat /\ now \in Nat
    BY DEF HoldInv, HoldTypes, HeldRows
  <2>2. QED  BY <2>1
<1>3. dead \subseteq DOMAIN rows  OBVIOUS
<1> HIDE DEF dead
<1>4. QED  BY <1>1, <1>2, <1>3, RowsLeave

\* What a call that is about to delete knows of its row.
LEMMA Deleting ==
    ASSUME HoldInv, NEW c \in Calls, calls[c].pc \in {"expired", "checked"}
    PROVE  /\ calls[c] # Hold!Idle /\ calls[c] \in Resolving /\ minted[calls[c].token].slow
           /\ \/ now >= minted[calls[c].token].deadline
              \/ calls[c].by = minted[calls[c].token].owner
<1>1. calls[c] # Hold!Idle  BY DEF Hold!Idle
<1>2. ResolveSound(calls[c], minted, rows, now)  BY DEF HoldInv, ResolvesSound
<1>3. /\ calls[c] \in Resolving /\ minted[calls[c].token].slow /\ calls[c].at <= now
      /\ calls[c].at \in Nat /\ now \in Nat /\ minted[calls[c].token].deadline \in Nat
  BY <1>1, <1>2 DEF ResolveSound, Resolving, HoldInv, HoldTypes, HeldRows
<1>4. CASE calls[c].pc = "expired"
  <2>1. minted[calls[c].token].deadline < calls[c].at  BY <1>1, <1>2, <1>4 DEF ResolveSound
  <2>2. QED  BY <1>1, <1>3, <2>1
<1>5. CASE calls[c].pc = "checked"  BY <1>1, <1>2, <1>3, <1>5 DEF ResolveSound
<1>6. QED  BY <1>4, <1>5

LEMMA WithdrawKeeps ==
    ASSUME HoldInv, NEW c \in Calls, Hold!Delete(c) \/ Hold!Crash(c)
    PROVE HoldInv'
<1> DEFINE t == calls[c].token
           leaving == {t} \cap DOMAIN rows
<1>1. calls[c].pc \in {"expired", "checked"} /\ UNCHANGED <<minted, now>>
  BY DEF Hold!Delete, Hold!Crash
<1>2. /\ calls[c] # Hold!Idle /\ calls[c] \in Resolving /\ minted[t].slow
      /\ now >= minted[t].deadline \/ calls[c].by = minted[t].owner
  BY <1>1, Deleting
<1>3. \A u \in leaving : /\ minted[u].slow
                         /\ \/ now >= minted[u].deadline
                            \/ \E d \in Calls : calls[d] # Hold!Idle /\ calls[d].token = u
                                                 /\ calls[d].by = minted[u].owner
  BY <1>2
<1>4. leaving \subseteq DOMAIN rows  OBVIOUS
<1>5. CASE Hold!Delete(c)
  <2> DEFINE pc == IF calls[c].pc = "expired" THEN "none"
                   ELSE IF calls[c].approve THEN "approved" ELSE "declined"
  <2>1. /\ rows' = [u \in DOMAIN rows \ {t} |-> rows[u]]
        /\ Hold!Become(c, [calls[c] EXCEPT !.pc = pc])
    BY <1>5 DEF Hold!Delete
  <2>2. pc \in {"none", "approved", "declined"} /\ (pc # "none" => calls[c].pc = "checked")
    BY <1>1
  <2>3. rows' = [u \in DOMAIN rows \ leaving |-> rows[u]] /\ t \notin DOMAIN rows'
    BY <2>1
  <2> HIDE DEF pc, leaving, t
  <2>4. \E d \in Calls, to \in {"none", "approved", "declined"} :
           /\ calls[d] # Hold!Idle /\ Hold!Become(d, [calls[d] EXCEPT !.pc = to])
           /\ to # "none" => calls[d].pc = "checked" /\ calls[d].token \notin DOMAIN rows'
    BY <1>2, <2>1, <2>2, <2>3 DEF t
  <2>5. QED  BY <1>1, <1>3, <1>4, <2>3, <2>4, RowsLeave
<1>6. CASE Hold!Crash(c)
  <2>1. Hold!Become(c, [calls[c] EXCEPT !.pc = "none"])  BY <1>6 DEF Hold!Crash
  <2>2. \E d \in Calls, to \in {"none", "approved", "declined"} :
           /\ calls[d] # Hold!Idle /\ Hold!Become(d, [calls[d] EXCEPT !.pc = to])
           /\ to # "none" => calls[d].pc = "checked" /\ calls[d].token \notin DOMAIN rows'
    BY <1>2, <2>1
  <2>3. CASE rows' = rows
    <3> DEFINE nothing == {}
    <3>1. rows' = [u \in DOMAIN rows \ nothing |-> rows[u]]
      BY <2>3 DEF HoldInv, HoldTypes
    <3>2. nothing \subseteq DOMAIN rows /\ \A u \in nothing : FALSE  OBVIOUS
    <3> HIDE DEF leaving, t, nothing
    <3>3. QED  BY <1>1, <2>2, <3>1, <3>2, RowsLeave
  <2>4. CASE rows' = [u \in DOMAIN rows \ {t} |-> rows[u]]
    <3>1. rows' = [u \in DOMAIN rows \ leaving |-> rows[u]]  BY <2>4
    <3> HIDE DEF leaving, t
    <3>2. QED  BY <1>1, <1>3, <1>4, <2>2, <3>1, RowsLeave
  <2>5. QED  BY <1>6, <2>3, <2>4 DEF Hold!Crash
<1>7. QED  BY <1>5, <1>6

LEMMA SelectKeeps ==
    ASSUME HoldInv, NEW c \in Calls, NEW t \in HeldTokens, NEW requester \in Hold!Subjects,
           NEW approve \in BOOLEAN, Hold!Select(c, t, requester, approve)
    PROVE  HoldInv'
<1> DEFINE to(pc) == [pc |-> pc, token |-> t, by |-> requester, approve |-> approve, at |-> now]
<1>1. calls[c] = Hold!Idle /\ t \in DOMAIN minted /\ UNCHANGED <<rows, minted, now>>
  BY DEF Hold!Select
<1>2. PICK pc \in {"none", "expired", "checked"} :
         /\ Hold!Become(c, to(pc))
         /\ pc # "none" => t \in DOMAIN rows /\ rows[t].slow
         /\ pc = "expired" => now > rows[t].deadline
         /\ pc = "checked" => ~(now > rows[t].deadline) /\ ~Hold!Refused(rows[t], requester)
  <2>1. CASE t \notin DOMAIN rows \/ ~rows[t].slow  BY <2>1 DEF Hold!Select
  <2>2. CASE ~(t \notin DOMAIN rows \/ ~rows[t].slow) /\ now > rows[t].deadline
    BY <2>2 DEF Hold!Select
  <2>3. CASE /\ ~(t \notin DOMAIN rows \/ ~rows[t].slow) /\ ~(now > rows[t].deadline)
             /\ Hold!Refused(rows[t], requester)
    BY <2>3 DEF Hold!Select
  <2>4. CASE /\ ~(t \notin DOMAIN rows \/ ~rows[t].slow) /\ ~(now > rows[t].deadline)
             /\ ~Hold!Refused(rows[t], requester)
    BY <2>4 DEF Hold!Select
  <2>5. QED  BY <2>1, <2>2, <2>3, <2>4
<1> DEFINE q == to(pc)
<1>3. now \in Nat /\ minted[t].deadline \in Nat /\ (t \in DOMAIN rows => rows[t] = minted[t])
  BY <1>1 DEF HoldInv, HoldTypes, HeldRows
<1>4. /\ q \in Resolving /\ q.pc = pc /\ q.token = t /\ q.by = requester /\ q.at = now
  BY <1>3 DEF Resolving
<1> HIDE DEF q
<1>5. Hold!Become(c, q)  BY <1>2 DEF q
<1>6. pc = "checked" => requester = minted[t].owner /\ now <= minted[t].deadline
  <2>1. pc = "checked" => ~Hold!Refused(minted[t], requester) /\ ~(now > minted[t].deadline)
    BY <1>2, <1>3
  <2>2. QED  BY <1>3, <2>1 DEF Hold!Refused
<1>7. pc = "expired" => minted[t].deadline < now  BY <1>2, <1>3
<1>8. pc # "none" => minted[t].slow  BY <1>2, <1>3
<1>9. ResolveSound(q, minted, rows, now)
  BY <1>1, <1>3, <1>4, <1>6, <1>7, <1>8 DEF ResolveSound
<1>10. calls' = [calls EXCEPT ![c] = q] /\ calls = [d \in Calls |-> calls[d]]
  BY <1>5 DEF Hold!Become, HoldInv, HoldTypes
<1>11. calls'[c] = q /\ \A d \in Calls \ {c} : calls'[d] = calls[d]  BY <1>10
<1>12. ResolvesSound'  BY <1>1, <1>9, <1>11 DEF HoldInv, ResolvesSound
<1>13. calls' = [d \in Calls |-> calls'[d]]  BY <1>10
<1>14. HoldTypes'  BY <1>1, <1>13 DEF HoldInv, HoldTypes
<1>15. Hold!FastRowsStay'  BY <1>1 DEF HoldInv, Hold!FastRowsStay
<1>16. Hold!RowsLeaveForAReason'  BY <1>1, <1>11 DEF HoldInv, Hold!RowsLeaveForAReason
<1>17. QED  BY <1>12, <1>14, <1>15, <1>16 DEF HoldInv

LEMMA TimePassesKeeps == ASSUME HoldInv, Hold!TimePasses  PROVE HoldInv'
<1>1. now' = now + 1 /\ now \in Nat /\ UNCHANGED <<rows, minted, calls>>
  BY DEF Hold!TimePasses, HoldInv, HoldTypes
<1>2. now' \in Nat /\ now <= now'  BY <1>1
<1>3. ResolvesSound'
  <2> SUFFICES ASSUME NEW c \in Calls  PROVE ResolveSound(calls[c], minted, rows, now')
    BY <1>1 DEF ResolvesSound
  <2>1. ResolveSound(calls[c], minted, rows, now)  BY DEF HoldInv, ResolvesSound
  <2>2. QED  BY <1>1, <1>2, <2>1, ResolveKept
<1>4. Hold!RowsLeaveForAReason'
  <2>1. \A t \in DOMAIN minted : minted[t].deadline \in Nat  BY DEF HoldInv, HoldTypes, HeldRows
  <2>2. \A t \in DOMAIN minted : now >= minted[t].deadline => now' >= minted[t].deadline
    BY <1>1, <1>2, <2>1
  <2>3. QED  BY <1>1, <2>2 DEF HoldInv, Hold!RowsLeaveForAReason
<1>5. HoldTypes' /\ Hold!FastRowsStay'  BY <1>1, <1>2 DEF HoldInv, HoldTypes, Hold!FastRowsStay
<1>6. QED  BY <1>3, <1>4, <1>5 DEF HoldInv

LEMMA HoldInitInv == Hold!ApprovalInit => HoldInv
BY DEF Hold!ApprovalInit, HoldInv, HoldTypes, ResolvesSound, ResolveSound, Hold!FastRowsStay,
       Hold!RowsLeaveForAReason

LEMMA HoldStep == HoldInv /\ Hold!ApprovalNext => HoldInv'
BY SuspendKeeps, SelectKeeps, WithdrawKeeps, SweepExpiredKeeps, TimePassesKeeps
   DEF Hold!ApprovalNext

LEMMA HeldActionsAreSafe == HoldInv => Hold!ApprovalSafe
<1> SUFFICES ASSUME HoldInv  PROVE Hold!ApprovedRightly
  BY DEF Hold!ApprovalSafe, HoldInv
<1> SUFFICES ASSUME NEW c \in Calls, calls[c].pc = "approved"
             PROVE  /\ minted[calls[c].token].slow
                    /\ calls[c].by = minted[calls[c].token].owner
                    /\ calls[c].at <= minted[calls[c].token].deadline
                    /\ calls[c].token \notin DOMAIN rows
  BY DEF Hold!ApprovedRightly, Hold!Approved
<1>1. calls[c] # Hold!Idle  BY DEF Hold!Idle
<1>2. QED  BY <1>1 DEF HoldInv, ResolvesSound, ResolveSound
-----------------------------------------------------------------------------
(* The control plane (ControlPlane.tla).                                   *)

Messages == [kind : {"handoff", "voice"}, id : Nat]
Posts == [message : Messages, state : {"sending", "sent", "failed"}]
Distinct(s) == \A i, j \in DOMAIN s : s[i] = s[j] => i = j

ControlTypes ==
    /\ queue \in Seq(Nat) /\ slot \in Nat /\ posts \in SUBSET Posts
    /\ posted \in [handoff : Nat, voice : Nat] /\ relay \in BOOLEAN
    /\ wire \in Seq(Messages) /\ answers \in Seq(Messages) /\ shown \in Seq(Messages)
    /\ Len(queue) <= MaxHandoffs /\ slot <= posted.voice
    /\ posted.handoff <= Handoffs /\ posted.voice <= Voices

\* Only what was posted is anywhere.
Known(m) == m.id <= posted[m.kind]
AllKnown ==
    /\ \A n \in Plane!Set(queue) : n <= posted.handoff
    /\ \A p \in posts : Known(p.message) /\ 1 <= p.message.id
    /\ \A m \in Plane!Set(wire) \cup Plane!Set(answers) \cup Plane!Set(shown) : Known(m)
    /\ \A n \in Nat : Plane!Handoff(n) \in crossed => n <= posted.handoff

\* One push of a message, and one copy of it in each place.
Once ==
    /\ \A p, q \in posts : p.message = q.message => p = q
    /\ Distinct(queue) /\ Distinct(wire) /\ Distinct(answers)
    /\ \A p \in posts : p.state = "sending" => p.message \notin Plane!Set(wire)

Sending(m) == \E p \in posts : p.message = m /\ p.state = "sending"
Open(m) == \E p \in posts : p.message = m /\ p.state # "failed"
Pushed(m) == Sending(m) \/ m \in Plane!Set(wire)
Polled(m) == m \in Plane!Set(answers)

One(b) == IF b THEN 1 ELSE 0
\* A message was shown t times; once more for a push under way and for a poll's answer,
\* and then again only if the copy is taken while the push is awaited.
Fits(t, pushed, polled, queued, open, across) ==
    /\ t + One(pushed) + One(polled) <= IF across THEN 2 ELSE 1
    /\ queued => ~across /\ ~polled /\ (t > 0 \/ pushed => open)
Counted(n) ==
    LET m == Plane!Handoff(n) IN
    Fits(Plane!Times(m), Pushed(m), Polled(m), n \in Plane!Set(queue), Open(m), m \in crossed)

\* A message that is not lost yet has been shown or is in a poll's answer.
Out(m) == m \in Plane!Set(shown) \cup Plane!Set(answers) \cup gone
\* Its copy is where the next poll finds it.
Waits(m) ==
    \/ m.kind = "handoff" /\ m.id \in Plane!Set(queue)
    \/ m.kind = "voice" /\ m.id = slot
\* A voice state that a newer one replaced is of no interest.
Matters(m) == m.kind = "handoff" \/ m.id = posted.voice
\* What was sent is on the wire, shown or lost; while a push is awaited its copy waits or
\* is on its way; so nothing that matters is nowhere.
Kept ==
    /\ \A p \in posts : p.state = "sent" => Out(p.message) \/ p.message \in Plane!Set(wire)
    /\ \A p \in posts : Matters(p.message) => Waits(p.message) \/ Out(p.message)
    /\ \A m \in Messages : 1 <= m.id /\ Known(m) /\ Matters(m) =>
          Waits(m) \/ Out(m) \/ Pushed(m)

ControlInv == ControlTypes /\ AllKnown /\ Once /\ (\A n \in Nat : Counted(n)) /\ Kept
-----------------------------------------------------------------------------
LEMMA ElementsOfAppend ==
    ASSUME NEW T, NEW s \in Seq(T), NEW x \in T
    PROVE  /\ Plane!Set(Append(s, x)) = Plane!Set(s) \cup {x}
           /\ Distinct(s) /\ x \notin Plane!Set(s) => Distinct(Append(s, x))
<1>1. /\ DOMAIN s = 1 .. Len(s) /\ Len(s) \in Nat
      /\ DOMAIN Append(s, x) = 1 .. Len(s) + 1
      /\ \A i \in 1 .. Len(s) : Append(s, x)[i] = s[i]
      /\ Append(s, x)[Len(s) + 1] = x
  BY AppendProperties
<1>2. Plane!Set(Append(s, x)) = Plane!Set(s) \cup {x}
  <2>1. ASSUME NEW y \in Plane!Set(Append(s, x))  PROVE y \in Plane!Set(s) \cup {x}
    <3>1. PICK i \in 1 .. Len(s) + 1 : y = Append(s, x)[i]  BY <1>1, <2>1 DEF Plane!Set
    <3>2. CASE i = Len(s) + 1  BY <1>1, <3>1, <3>2
    <3>3. CASE i # Len(s) + 1
      <4>1. i \in 1 .. Len(s)  BY <1>1, <3>3
      <4>2. QED  BY <1>1, <3>1, <4>1 DEF Plane!Set
    <3>4. QED  BY <3>2, <3>3
  <2>2. ASSUME NEW y \in Plane!Set(s) \cup {x}  PROVE y \in Plane!Set(Append(s, x))
    <3>1. Len(s) + 1 \in 1 .. Len(s) + 1 /\ 1 .. Len(s) \subseteq 1 .. Len(s) + 1  BY <1>1
    <3>2. QED  BY <1>1, <2>2, <3>1 DEF Plane!Set
  <2>3. QED  BY <2>1, <2>2
<1>3. ASSUME Distinct(s), x \notin Plane!Set(s)  PROVE Distinct(Append(s, x))
  <2> SUFFICES ASSUME NEW i \in 1 .. Len(s) + 1, NEW j \in 1 .. Len(s) + 1,
                      Append(s, x)[i] = Append(s, x)[j]
               PROVE  i = j
    BY <1>1 DEF Distinct
  <2>1. \A k \in 1 .. Len(s) : s[k] # x  BY <1>1, <1>3 DEF Plane!Set
  <2>2. \A k \in 1 .. Len(s) + 1 : k = Len(s) + 1 \/ k \in 1 .. Len(s)  BY <1>1
  <2>3. QED  BY <1>1, <1>3, <2>1, <2>2 DEF Distinct
<1>4. QED  BY <1>2, <1>3

LEMMA ElementsOfTail ==
    ASSUME NEW T, NEW s \in Seq(T), s # <<>>
    PROVE  /\ Tail(s) \in Seq(T) /\ Head(s) \in T /\ Len(Tail(s)) = Len(s) - 1
           /\ Plane!Set(s) = Plane!Set(Tail(s)) \cup {Head(s)}
           /\ Distinct(s) => Distinct(Tail(s)) /\ Head(s) \notin Plane!Set(Tail(s))
<1>1. /\ DOMAIN s = 1 .. Len(s) /\ Len(s) \in Nat \ {0} /\ Head(s) = s[1] /\ Head(s) \in T
      /\ Tail(s) \in Seq(T) /\ Len(Tail(s)) = Len(s) - 1
      /\ DOMAIN Tail(s) = 1 .. Len(s) - 1
      /\ \A i \in 1 .. Len(s) - 1 : Tail(s)[i] = s[i + 1]
  <2>1. Len(s) \in Nat /\ Len(s) # 0 /\ DOMAIN s = 1 .. Len(s)  BY EmptySeq
  <2>2. /\ Tail(s) \in Seq(T) /\ Len(Tail(s)) = Len(s) - 1
        /\ \A i \in 1 .. Len(Tail(s)) : Tail(s)[i] = s[i + 1]
        /\ Head(s) = s[1] /\ Head(s) \in T
    BY HeadTailProperties, ElementOfSeq, <2>1
  <2>3. DOMAIN Tail(s) = 1 .. Len(Tail(s))  BY <2>2
  <2>4. QED  BY <2>1, <2>2, <2>3
<1>2. Plane!Set(s) = Plane!Set(Tail(s)) \cup {Head(s)}
  <2>1. ASSUME NEW y \in Plane!Set(s)  PROVE y \in Plane!Set(Tail(s)) \cup {Head(s)}
    <3>1. PICK i \in 1 .. Len(s) : y = s[i]  BY <1>1, <2>1 DEF Plane!Set
    <3>2. CASE i = 1  BY <1>1, <3>1, <3>2
    <3>3. CASE i # 1
      <4>1. i - 1 \in 1 .. Len(s) - 1 /\ (i - 1) + 1 = i  BY <1>1, <3>3
      <4>2. y = Tail(s)[i - 1]  BY <1>1, <3>1, <4>1
      <4>3. QED  BY <1>1, <4>1, <4>2 DEF Plane!Set
    <3>4. QED  BY <3>2, <3>3
  <2>2. ASSUME NEW y \in Plane!Set(Tail(s)) \cup {Head(s)}  PROVE y \in Plane!Set(s)
    <3>1. \A i \in 1 .. Len(s) - 1 : i + 1 \in 1 .. Len(s)  BY <1>1
    <3>2. 1 \in 1 .. Len(s)  BY <1>1
    <3>3. QED  BY <1>1, <2>2, <3>1, <3>2 DEF Plane!Set
  <2>3. QED  BY <2>1, <2>2
<1>3. ASSUME Distinct(s)
      PROVE  Distinct(Tail(s)) /\ Head(s) \notin Plane!Set(Tail(s))
  <2>0. \A i \in 1 .. Len(s) - 1 : i + 1 \in 1 .. Len(s) /\ i + 1 # 1  BY <1>1
  <2>1. Head(s) \notin Plane!Set(Tail(s))
    BY <1>1, <1>3, <2>0 DEF Plane!Set, Distinct
  <2>2. ASSUME NEW i \in 1 .. Len(s) - 1, NEW j \in 1 .. Len(s) - 1, Tail(s)[i] = Tail(s)[j]
        PROVE  i = j
    <3>1. s[i + 1] = s[j + 1]  BY <1>1, <2>2
    <3>2. i + 1 = j + 1  BY <1>1, <1>3, <2>0, <3>1 DEF Distinct
    <3>3. QED  BY <1>1, <3>2
  <2>3. QED  BY <1>1, <2>1, <2>2 DEF Distinct
<1>4. QED  BY <1>1, <1>2, <1>3

LEMMA ElementsOfConcat ==
    ASSUME NEW T, NEW s \in Seq(T), NEW t \in Seq(T)
    PROVE  /\ s \o t \in Seq(T)
           /\ Plane!Set(s \o t) = Plane!Set(s) \cup Plane!Set(t)
           /\ Distinct(s) /\ Distinct(t) /\ Plane!Set(s) \cap Plane!Set(t) = {} =>
                 Distinct(s \o t)
<1>1. /\ DOMAIN s = 1 .. Len(s) /\ Len(s) \in Nat /\ DOMAIN t = 1 .. Len(t) /\ Len(t) \in Nat
      /\ s \o t \in Seq(T) /\ DOMAIN (s \o t) = 1 .. Len(s) + Len(t)
      /\ \A i \in 1 .. Len(s) + Len(t) :
            (s \o t)[i] = IF i <= Len(s) THEN s[i] ELSE t[i - Len(s)]
  BY ConcatProperties
<1>2. \A i \in 1 .. Len(s) + Len(t) : i \in 1 .. Len(s) \/ i - Len(s) \in 1 .. Len(t)
  BY <1>1
<1>3. Plane!Set(s \o t) = Plane!Set(s) \cup Plane!Set(t)
  <2>1. ASSUME NEW y \in Plane!Set(s \o t)  PROVE y \in Plane!Set(s) \cup Plane!Set(t)
    <3>1. PICK i \in 1 .. Len(s) + Len(t) : y = (s \o t)[i]  BY <1>1, <2>1 DEF Plane!Set
    <3>2. CASE i <= Len(s)
      <4>1. i \in 1 .. Len(s) /\ y = s[i]  BY <1>1, <3>1, <3>2
      <4>2. QED  BY <1>1, <4>1 DEF Plane!Set
    <3>3. CASE ~(i <= Len(s))
      <4>1. i - Len(s) \in 1 .. Len(t) /\ y = t[i - Len(s)]  BY <1>1, <3>1, <3>3
      <4>2. QED  BY <1>1, <4>1 DEF Plane!Set
    <3>4. QED  BY <3>2, <3>3
  <2>2. ASSUME NEW y \in Plane!Set(s)  PROVE y \in Plane!Set(s \o t)
    <3>1. PICK i \in 1 .. Len(s) : y = s[i]  BY <1>1, <2>2 DEF Plane!Set
    <3>2. i \in 1 .. Len(s) + Len(t) /\ y = (s \o t)[i]  BY <1>1, <3>1
    <3>3. QED  BY <1>1, <3>2 DEF Plane!Set
  <2>3. ASSUME NEW y \in Plane!Set(t)  PROVE y \in Plane!Set(s \o t)
    <3>1. PICK i \in 1 .. Len(t) : y = t[i]  BY <1>1, <2>3 DEF Plane!Set
    <3>2. /\ i + Len(s) \in 1 .. Len(s) + Len(t) /\ ~(i + Len(s) <= Len(s))
          /\ (i + Len(s)) - Len(s) = i
      BY <1>1
    <3>3. y = (s \o t)[i + Len(s)]  BY <1>1, <3>1, <3>2
    <3>4. QED  BY <1>1, <3>2, <3>3 DEF Plane!Set
  <2>4. QED  BY <2>1, <2>2, <2>3
<1>4. ASSUME Distinct(s), Distinct(t), Plane!Set(s) \cap Plane!Set(t) = {}
      PROVE  Distinct(s \o t)
  <2> SUFFICES ASSUME NEW i \in 1 .. Len(s) + Len(t), NEW j \in 1 .. Len(s) + Len(t),
                      (s \o t)[i] = (s \o t)[j]
               PROVE  i = j
    BY <1>1 DEF Distinct
  <2>1. \A k \in 1 .. Len(s) + Len(t) :
           \/ k <= Len(s) /\ k \in DOMAIN s /\ (s \o t)[k] = s[k]
           \/ ~(k <= Len(s)) /\ k - Len(s) \in DOMAIN t /\ (s \o t)[k] = t[k - Len(s)]
    BY <1>1
  <2>2. \A k \in DOMAIN s, l \in DOMAIN t : s[k] # t[l]  BY <1>4 DEF Plane!Set
  <2>3. CASE i <= Len(s) /\ j <= Len(s)  BY <1>4, <2>1, <2>3 DEF Distinct
  <2>4. CASE ~(i <= Len(s)) /\ ~(j <= Len(s))
    <3>1. i - Len(s) = j - Len(s)  BY <1>4, <2>1, <2>4 DEF Distinct
    <3>2. QED  BY <1>1, <3>1
  <2>5. QED  BY <2>1, <2>2, <2>3, <2>4
<1>5. QED  BY <1>1, <1>3, <1>4

\* How often a message is in a sequence.
CountOf(s, m) == Cardinality({i \in DOMAIN s : s[i] = m})

LEMMA TimesIsCount ==
    \A m : Plane!Times(m) = CountOf(shown, m) /\ Plane!Times(m)' = CountOf(shown', m)
BY DEF Plane!Times, CountOf, Plane!Cardinality, Cardinality

LEMMA CountIsNat ==
    ASSUME NEW T, NEW s \in Seq(T), NEW m
    PROVE  /\ IsFiniteSet({i \in DOMAIN s : s[i] = m}) /\ CountOf(s, m) \in Nat
           /\ m \notin Plane!Set(s) => CountOf(s, m) = 0
<1>1. Len(s) \in Nat /\ DOMAIN s = 1 .. Len(s)  OBVIOUS
<1>2. IsFiniteSet(1 .. Len(s))  BY <1>1, FS_Interval
<1>3. {i \in DOMAIN s : s[i] = m} \in SUBSET (1 .. Len(s))  BY <1>1
<1>4. IsFiniteSet({i \in DOMAIN s : s[i] = m})  BY <1>2, <1>3, FS_Subset
<1>5. CountOf(s, m) \in Nat  BY <1>4, FS_CardinalityType DEF CountOf
<1>6. ASSUME m \notin Plane!Set(s)  PROVE CountOf(s, m) = 0
  <2>1. {i \in DOMAIN s : s[i] = m} = {}  BY <1>6 DEF Plane!Set
  <2>2. QED  BY <2>1, FS_EmptySet DEF CountOf
<1>7. QED  BY <1>4, <1>5, <1>6

LEMMA CountOfAppend ==
    ASSUME NEW T, NEW s \in Seq(T), NEW x \in T, NEW m
    PROVE  CountOf(Append(s, x), m) = CountOf(s, m) + One(x = m)
<1> DEFINE I == {i \in DOMAIN s : s[i] = m}
           J == {i \in DOMAIN Append(s, x) : Append(s, x)[i] = m}
<1>1. /\ DOMAIN s = 1 .. Len(s) /\ Len(s) \in Nat
      /\ DOMAIN Append(s, x) = 1 .. Len(s) + 1
      /\ \A i \in 1 .. Len(s) : Append(s, x)[i] = s[i]
      /\ Append(s, x)[Len(s) + 1] = x
  BY AppendProperties
<1>2. /\ Len(s) + 1 \in 1 .. Len(s) + 1 /\ Len(s) + 1 \notin 1 .. Len(s)
      /\ \A k : k \in 1 .. Len(s) + 1 <=> k = Len(s) + 1 \/ k \in 1 .. Len(s)
  BY <1>1
<1>3. J = IF x = m THEN I \cup {Len(s) + 1} ELSE I
  <2>1. CASE x = m
    <3>1. \A k : k \in J <=> k \in I \/ k = Len(s) + 1  BY <1>1, <1>2, <2>1
    <3>2. QED  BY <2>1, <3>1
  <2>2. CASE x # m
    <3>1. \A k : k \in J <=> k \in I  BY <1>1, <1>2, <2>2
    <3>2. QED  BY <2>2, <3>1
  <2>3. QED  BY <2>1, <2>2
<1>4. IsFiniteSet(I) /\ Cardinality(I) \in Nat  BY CountIsNat DEF CountOf
<1>5. Len(s) + 1 \notin I  BY <1>1, <1>2
<1>6. Cardinality(I \cup {Len(s) + 1}) = Cardinality(I) + 1  BY <1>4, <1>5, FS_AddElement
<1>7. CountOf(Append(s, x), m) = Cardinality(J) /\ CountOf(s, m) = Cardinality(I)
  BY DEF CountOf
<1> HIDE DEF I, J
<1>8. CASE x = m  BY <1>3, <1>6, <1>7, <1>8 DEF One
<1>9. CASE x # m  BY <1>3, <1>4, <1>7, <1>9 DEF One
<1>10. QED  BY <1>8, <1>9

LEMMA CountOfConcat ==
    ASSUME NEW T, NEW s \in Seq(T), NEW t \in Seq(T), Distinct(t), NEW m
    PROVE  CountOf(s \o t, m) = CountOf(s, m) + One(m \in Plane!Set(t))
<1> DEFINE I == {i \in DOMAIN s : s[i] = m}
           J == {i \in DOMAIN (s \o t) : (s \o t)[i] = m}
<1>1. /\ DOMAIN s = 1 .. Len(s) /\ Len(s) \in Nat /\ DOMAIN t = 1 .. Len(t) /\ Len(t) \in Nat
      /\ DOMAIN (s \o t) = 1 .. Len(s) + Len(t)
      /\ \A i \in 1 .. Len(s) + Len(t) :
            (s \o t)[i] = IF i <= Len(s) THEN s[i] ELSE t[i - Len(s)]
  BY ConcatProperties
<1>2. \A k \in 1 .. Len(s) + Len(t) :
         \/ k \in DOMAIN s /\ (s \o t)[k] = s[k]
         \/ ~(k \in DOMAIN s) /\ k - Len(s) \in DOMAIN t /\ (s \o t)[k] = t[k - Len(s)]
  BY <1>1
<1>3. \A k \in DOMAIN s : k \in DOMAIN (s \o t)  BY <1>1
<1>4. IsFiniteSet(I) /\ Cardinality(I) \in Nat  BY CountIsNat DEF CountOf
<1>5. CASE m \notin Plane!Set(t)
  <2>1. \A k \in DOMAIN t : t[k] # m  BY <1>5 DEF Plane!Set
  <2>2. \A k : k \in J <=> k \in I  BY <1>1, <1>2, <1>3, <2>1
  <2>3. J = I  BY <2>2
  <2>4. CountOf(s \o t, m) = CountOf(s, m) /\ CountOf(s, m) \in Nat
    BY <1>4, <2>3 DEF CountOf
  <2>5. QED  BY <1>5, <2>4 DEF One
<1>6. CASE m \in Plane!Set(t)
  <2>1. PICK k \in DOMAIN t : t[k] = m  BY <1>6 DEF Plane!Set
  <2>2. /\ k \in Int /\ Len(s) + k \in DOMAIN (s \o t) /\ Len(s) + k \notin DOMAIN s
        /\ (Len(s) + k) - Len(s) = k
    BY <1>1
  <2>3. (s \o t)[Len(s) + k] = m  BY <1>1, <1>2, <2>1, <2>2
  <2>4. \A j \in DOMAIN (s \o t) : (s \o t)[j] = m => j \in I \/ j = Len(s) + k
    <3>1. ASSUME NEW j \in DOMAIN (s \o t), (s \o t)[j] = m, j \notin DOMAIN s
          PROVE  j = Len(s) + k
      <4>1. j - Len(s) \in DOMAIN t /\ t[j - Len(s)] = m  BY <1>1, <1>2, <3>1
      <4>2. j - Len(s) = k  BY <2>1, <4>1 DEF Distinct
      <4>3. QED  BY <1>1, <2>2, <4>2
    <3>2. QED  BY <1>1, <1>2, <3>1
  <2>5. \A j : j \in J <=> j \in I \cup {Len(s) + k}  BY <1>1, <1>2, <1>3, <2>2, <2>3, <2>4
  <2>6. J = I \cup {Len(s) + k}  BY <2>5
  <2>7. Len(s) + k \notin I  BY <2>2
  <2>8. Cardinality(J) = Cardinality(I) + 1  BY <1>4, <2>6, <2>7, FS_AddElement
  <2>9. QED  BY <1>4, <1>6, <2>8 DEF CountOf, One
<1>7. QED  BY <1>5, <1>6

LEMMA HandoffIsMessage ==
    \A n \in Nat : /\ Plane!Handoff(n) \in Messages /\ Plane!Voice(n) \in Messages
                   /\ Plane!Handoff(n).kind = "handoff" /\ Plane!Handoff(n).id = n
                   /\ Plane!Voice(n).kind = "voice" /\ Plane!Voice(n).id = n
BY DEF Plane!Handoff, Plane!Voice, Messages

LEMMA MessageIsNamed ==
    \A m \in Messages : /\ m.id \in Nat /\ m.kind \in {"handoff", "voice"}
                        /\ m.kind = "handoff" => m = Plane!Handoff(m.id)
                        /\ m.kind = "voice" => m = Plane!Voice(m.id)
BY DEF Plane!Handoff, Plane!Voice, Messages

\* A post's push is over, one way or the other.
LEMMA PostMoves ==
    ASSUME ControlTypes, Once, NEW p \in posts, NEW s \in {"sent", "failed"}, p.state = "sending",
           posts' = (posts \ {p}) \cup {[p EXCEPT !.state = s]}
    PROVE  /\ posts' \in SUBSET Posts
           /\ \A r \in posts' : \E o \in posts : /\ r.message = o.message
                                                 /\ r = o \/ (o = p /\ r.state = s)
           /\ \A r, u \in posts' : r.message = u.message => r = u
           /\ \A m : Sending(m)' <=> Sending(m) /\ m # p.message
           /\ \A m : Open(m)' <=> Open(m) /\ (s = "sent" \/ m # p.message)
<1> DEFINE q == [p EXCEPT !.state = s]
<1>1. p \in Posts /\ posts \in SUBSET Posts  BY DEF ControlTypes
<1>2. q \in Posts /\ q.message = p.message /\ q.state = s  BY <1>1 DEF Posts
<1>3. posts' = (posts \ {p}) \cup {q}  OBVIOUS
<1> HIDE DEF q
<1>4. \A o \in posts : o.message = p.message => o = p  BY DEF Once
<1>5. posts' \in SUBSET Posts  BY <1>1, <1>2, <1>3
<1>6. \A r \in posts' : r = q \/ (r \in posts /\ r # p /\ r.message # p.message)
  BY <1>3, <1>4
<1>7. \A r \in posts' : \E o \in posts :
         r.message = o.message /\ (r = o \/ (o = p /\ r.state = s))
  BY <1>2, <1>6
<1>8. \A r, u \in posts' : r.message = u.message => r = u
  BY <1>2, <1>6 DEF Once
<1>9. \A m : Sending(m)' <=> Sending(m) /\ m # p.message
  BY <1>2, <1>3, <1>4 DEF Sending
<1>10. \A m : Open(m)' <=> Open(m) /\ (s = "sent" \/ m # p.message)
  BY <1>2, <1>3, <1>4 DEF Open
<1>11. QED  BY <1>5, <1>7, <1>8, <1>9, <1>10

\* A push begins.
LEMMA PostAdded ==
    ASSUME ControlTypes, Once, NEW m \in Messages, \A q \in posts : q.message # m,
           Plane!BeginPush(m)
    PROVE  /\ posts' \in SUBSET Posts
           /\ \A r \in posts' : r \in posts \/ (r.message = m /\ r.state # "sent")
           /\ \A r, u \in posts' : r.message = u.message => r = u
           /\ \A x : x # m => (Sending(x)' <=> Sending(x)) /\ (Open(x)' <=> Open(x))
           /\ Sending(m)' => Open(m)'
           /\ \A x : Sending(x) => Sending(x)'
<1>1. PICK new : /\ posts' = posts \cup {new} /\ new.message = m /\ new \in Posts
                 /\ new.state \in {"sending", "failed"}
  <2> DEFINE st == IF relay THEN "sending" ELSE "failed"
             new == [message |-> m, state |-> st]
  <2>1. st \in {"sending", "failed"}  OBVIOUS
  <2>2. posts' = posts \cup {new}  BY DEF Plane!BeginPush
  <2> HIDE DEF st
  <2>3. new \in Posts /\ new.message = m /\ new.state = st  BY <2>1 DEF Posts
  <2>4. QED  BY <2>1, <2>2, <2>3
<1>2. posts \in SUBSET Posts  BY DEF ControlTypes
<1>3. posts' \in SUBSET Posts  BY <1>1, <1>2
<1>4. \A r, u \in posts' : r.message = u.message => r = u  BY <1>1 DEF Once
<1>5. \A x : x # m => (Sending(x)' <=> Sending(x)) /\ (Open(x)' <=> Open(x))
  BY <1>1 DEF Sending, Open
<1>6. Sending(m)' => Open(m)'  BY DEF Sending, Open
<1>7. \A x : Sending(x) => Sending(x)'  BY <1>1 DEF Sending
<1>8. QED  BY <1>1, <1>3, <1>4, <1>5, <1>6, <1>7

\* The prime of a count, spelled out.
LEMMA CountedNext ==
    ASSUME NEW n \in Nat,
           Fits(Plane!Times(Plane!Handoff(n))', Pushed(Plane!Handoff(n))',
                Polled(Plane!Handoff(n))', n \in Plane!Set(queue'), Open(Plane!Handoff(n))',
                Plane!Handoff(n) \in crossed')
    PROVE  Counted(n)'
BY DEF Counted, Plane!Set

\* If the posts stay, what matters goes on waiting or travels.
LEMMA KeptStays ==
    ASSUME Kept, UNCHANGED <<posts, posted>>,
           \A m \in Messages : Known(m) /\ Out(m) => Out(m)',
           \A m \in Messages :
              Known(m) /\ m \in Plane!Set(wire) => m \in Plane!Set(wire') \/ Out(m)',
           \A m \in Messages : 1 <= m.id /\ Known(m) /\ Waits(m) => Waits(m)' \/ Out(m)',
           ControlTypes, AllKnown
    PROVE  Kept'
<1>1. \A p \in posts : p.message \in Messages /\ Known(p.message) /\ 1 <= p.message.id
  BY DEF ControlTypes, Posts, AllKnown
<1>2. \A m : /\ Known(m)' <=> Known(m)
             /\ Matters(m)' <=> Matters(m)
             /\ Pushed(m) => Sending(m)' \/ m \in Plane!Set(wire)
             /\ Pushed(m)' <=> Sending(m)' \/ m \in Plane!Set(wire')
  BY DEF Known, Matters, Pushed, Sending, Plane!Set
<1>3. \A p \in posts' : p.state = "sent" => Out(p.message)' \/ p.message \in Plane!Set(wire')
  BY <1>1 DEF Kept
<1>4. \A p \in posts' : Matters(p.message)' => Waits(p.message)' \/ Out(p.message)'
  BY <1>1, <1>2 DEF Kept
<1>5. \A m \in Messages : 1 <= m.id /\ Known(m)' /\ Matters(m)' =>
         Waits(m)' \/ Out(m)' \/ Pushed(m)'
  BY <1>2 DEF Kept
<1>6. QED  BY <1>3, <1>4, <1>5 DEF Kept, Plane!Set

LEMMA ShowPushedKeeps == ASSUME ControlInv, Plane!ShowPushed  PROVE ControlInv'
<1> DEFINE m0 == Head(wire)
<1>0. ControlTypes /\ AllKnown /\ Once /\ Kept  BY DEF ControlInv
<1>1. /\ wire # <<>> /\ shown' = Append(shown, m0) /\ wire' = Tail(wire)
      /\ UNCHANGED <<queue, slot, posts, posted, relay, answers, gone, crossed>>
      /\ wire \in Seq(Messages) /\ shown \in Seq(Messages)
  BY <1>0 DEF Plane!ShowPushed, ControlTypes
<1>2. /\ wire' \in Seq(Messages) /\ m0 \in Messages /\ shown' \in Seq(Messages)
      /\ Plane!Set(wire) = Plane!Set(wire') \cup {m0} /\ m0 \notin Plane!Set(wire')
      /\ Distinct(wire') /\ Plane!Set(shown') = Plane!Set(shown) \cup {m0}
  BY <1>0, <1>1, ElementsOfTail, ElementsOfAppend, AppendProperties DEF Once
<1> HIDE DEF m0
<1>3. ControlTypes'  BY <1>0, <1>1, <1>2 DEF ControlTypes
<1>4. AllKnown'
  BY <1>0, <1>1, <1>2 DEF AllKnown, Known, Plane!Set
<1>5. Once'  BY <1>0, <1>1, <1>2 DEF Once, Distinct, Plane!Set
<1>6. ASSUME NEW n \in Nat  PROVE Counted(n)'
  <2> DEFINE m == Plane!Handoff(n)
  <2>1. Plane!Times(m)' = Plane!Times(m) + One(m0 = m)
    BY <1>1, <1>2, TimesIsCount, CountOfAppend
  <2>2. /\ Pushed(m)' <=> Pushed(m) /\ m # m0
        /\ m0 \in Plane!Set(wire)
    BY <1>0, <1>1, <1>2 DEF Pushed, Sending, Once
  <2>3. m0 = m => Pushed(m)  BY <2>2 DEF Pushed
  <2>4. (Polled(m)' <=> Polled(m)) /\ (Open(m)' <=> Open(m))
        /\ queue' = queue /\ crossed' = crossed
    BY <1>1 DEF Polled, Open, Plane!Set
  <2>5. Counted(n) /\ Plane!Times(m) \in Nat
    BY <1>1, CountIsNat, TimesIsCount DEF ControlInv
  <2>6. m0 = m /\ n \in Plane!Set(queue) => Open(m)  BY <2>3, <2>5 DEF Counted, Fits
  <2>7. Fits(Plane!Times(m)', Pushed(m)', Polled(m)', n \in Plane!Set(queue'), Open(m)',
             m \in crossed')
    <3>1. CASE m0 = m  BY <2>1, <2>2, <2>3, <2>4, <2>5, <2>6, <3>1 DEF Counted, Fits, One
    <3>2. CASE m0 # m  BY <2>1, <2>2, <2>4, <2>5, <3>2 DEF Counted, Fits, One
    <3>3. QED  BY <3>1, <3>2
  <2>8. QED  BY <2>7, CountedNext
<1>7. Kept'
  <2>1. \A m : Out(m)' <=> Out(m) \/ m = m0  BY <1>1, <1>2 DEF Out, Plane!Set
  <2>2. \A m : Waits(m)' <=> Waits(m)  BY <1>1 DEF Waits, Plane!Set
  <2>3. QED  BY <1>0, <1>1, <1>2, <2>1, <2>2, KeptStays
<1>8. QED  BY <1>3, <1>4, <1>5, <1>6, <1>7 DEF ControlInv

\* What is lost or dropped is not counted more often.
LEMMA CountedLess ==
    ASSUME ControlInv, NEW n \in Nat, UNCHANGED <<shown, crossed>>,
           LET m == Plane!Handoff(n) IN
             /\ Pushed(m)' => Pushed(m)
             /\ Polled(m)' => Polled(m)
             /\ n \in Plane!Set(queue') => n \in Plane!Set(queue)
             /\ n \in Plane!Set(queue') /\ ~Open(m)' =>
                   ~Open(m) \/ (Pushed(m) /\ ~Pushed(m)')
    PROVE  Counted(n)'
<1> DEFINE m == Plane!Handoff(n)
<1>1. Plane!Times(m)' = Plane!Times(m) /\ crossed' = crossed  BY TimesIsCount
<1>2. Counted(n) /\ Plane!Times(m) \in Nat
  BY CountIsNat, TimesIsCount DEF ControlInv, ControlTypes
<1>3. Fits(Plane!Times(m)', Pushed(m)', Polled(m)', n \in Plane!Set(queue'), Open(m)',
           m \in crossed')
  <2>1. Fits(Plane!Times(m), Pushed(m), Polled(m), n \in Plane!Set(queue), Open(m),
             m \in crossed)
    BY <1>2 DEF Counted
  <2>2. Plane!Times(m) + One(Pushed(m)') + One(Polled(m)')
          <= IF m \in crossed THEN 2 ELSE 1
    BY <1>2, <2>1 DEF Fits, One
  <2>3. ASSUME n \in Plane!Set(queue')
        PROVE  /\ m \notin crossed /\ ~Polled(m)'
               /\ Plane!Times(m) > 0 \/ Pushed(m)' => Open(m)'
    <3>1. n \in Plane!Set(queue) /\ m \notin crossed /\ ~Polled(m)'  BY <2>1, <2>3 DEF Fits
    <3>2. CASE Pushed(m) /\ ~Pushed(m)'
      <4>1. ~(Plane!Times(m) > 0)  BY <1>2, <2>1, <3>1, <3>2 DEF Fits, One
      <4>2. QED  BY <3>1, <3>2, <4>1
    <3>3. CASE ~(Pushed(m) /\ ~Pushed(m)')  BY <2>1, <2>3, <3>1, <3>3 DEF Fits
    <3>4. QED  BY <3>2, <3>3
  <2>4. QED  BY <1>1, <2>2, <2>3 DEF Fits
<1>4. QED  BY <1>3, CountedNext

LEMMA NothingInEmpty == Plane!Set(<<>>) = {} /\ Distinct(<<>>) /\ \A T : <<>> \in Seq(T)
BY DEF Plane!Set, Distinct

LEMMA ShowPolledKeeps == ASSUME ControlInv, Plane!ShowPolled  PROVE ControlInv'
<1>0. ControlTypes /\ AllKnown /\ Once /\ Kept  BY DEF ControlInv
<1>1. /\ shown' = shown \o answers /\ answers' = <<>>
      /\ UNCHANGED <<queue, slot, posts, posted, relay, wire, gone, crossed>>
      /\ answers \in Seq(Messages) /\ shown \in Seq(Messages)
  BY <1>0 DEF Plane!ShowPolled, ControlTypes
<1>2. /\ Distinct(answers) /\ answers' \in Seq(Messages) /\ shown' \in Seq(Messages)
      /\ Plane!Set(answers') = {} /\ Distinct(answers')
      /\ Plane!Set(shown') = Plane!Set(shown) \cup Plane!Set(answers)
  <2>1. /\ shown' \in Seq(Messages)
        /\ Plane!Set(shown') = Plane!Set(shown) \cup Plane!Set(answers)
    BY <1>1, ElementsOfConcat
  <2>2. QED  BY <1>0, <1>1, <2>1, NothingInEmpty DEF Once
<1>3. ControlTypes'  BY <1>0, <1>1, <1>2 DEF ControlTypes
<1>4. AllKnown'  BY <1>0, <1>1, <1>2 DEF AllKnown, Known, Plane!Set
<1>5. Once'  BY <1>0, <1>1, <1>2 DEF Once, Distinct, Plane!Set
<1>6. ASSUME NEW n \in Nat  PROVE Counted(n)'
  <2> DEFINE m == Plane!Handoff(n)
  <2>1. Plane!Times(m)' = Plane!Times(m) + One(Polled(m))
    BY <1>1, <1>2, TimesIsCount, CountOfConcat DEF Polled
  <2>2. /\ Pushed(m)' <=> Pushed(m)
        /\ Open(m)' <=> Open(m)
        /\ queue' = queue /\ crossed' = crossed
    BY <1>1 DEF Pushed, Sending, Open, Plane!Set
  <2>3. ~Polled(m)'  BY <1>2 DEF Polled, Plane!Set
  <2>4. Counted(n) /\ Plane!Times(m) \in Nat
    BY <1>1, CountIsNat, TimesIsCount DEF ControlInv
  <2>5. Fits(Plane!Times(m)', Pushed(m)', Polled(m)', n \in Plane!Set(queue'), Open(m)',
             m \in crossed')
    <3>1. CASE Polled(m)  BY <2>1, <2>2, <2>3, <2>4, <3>1 DEF Counted, Fits, One
    <3>2. CASE ~Polled(m)  BY <2>1, <2>2, <2>3, <2>4, <3>2 DEF Counted, Fits, One
    <3>3. QED  BY <3>1, <3>2
  <2>6. QED  BY <2>5, CountedNext
<1>7. Kept'
  <2>1. \A m : Out(m)' <=> Out(m)  BY <1>1, <1>2 DEF Out, Plane!Set
  <2>2. \A m : Waits(m)' <=> Waits(m)  BY <1>1 DEF Waits, Plane!Set
  <2>3. QED  BY <1>0, <1>1, <2>1, <2>2, KeptStays
<1>8. QED  BY <1>3, <1>4, <1>5, <1>6, <1>7 DEF ControlInv

LEMMA LosePollKeeps == ASSUME ControlInv, Plane!LosePoll  PROVE ControlInv'
<1>0. ControlTypes /\ AllKnown /\ Once /\ Kept  BY DEF ControlInv
<1>1. /\ gone' = gone \cup Plane!Set(answers) /\ answers' = <<>>
      /\ UNCHANGED <<queue, slot, posts, posted, relay, wire, shown, crossed>>
  BY <1>0 DEF Plane!LosePoll
<1>2. Plane!Set(answers') = {} /\ Distinct(answers') /\ answers' \in Seq(Messages)
  BY <1>1, NothingInEmpty
<1>3. ControlTypes'  BY <1>0, <1>1, <1>2 DEF ControlTypes
<1>4. AllKnown'  BY <1>0, <1>1, <1>2 DEF AllKnown, Known, Plane!Set
<1>5. Once'  BY <1>0, <1>1, <1>2 DEF Once, Distinct, Plane!Set
<1>6. ASSUME NEW n \in Nat  PROVE Counted(n)'
  <2> DEFINE m == Plane!Handoff(n)
  <2>1. /\ Pushed(m)' <=> Pushed(m)
        /\ Open(m)' <=> Open(m)
        /\ queue' = queue
    BY <1>1 DEF Pushed, Sending, Open, Plane!Set
  <2>2. ~Polled(m)'  BY <1>2 DEF Polled, Plane!Set
  <2>3. QED  BY <1>1, <2>1, <2>2, CountedLess
<1>7. Kept'
  <2>1. \A m : Out(m) => Out(m)'  BY <1>1, <1>2 DEF Out, Plane!Set
  <2>2. \A m : Waits(m)' <=> Waits(m)  BY <1>1 DEF Waits, Plane!Set
  <2>3. QED  BY <1>0, <1>1, <2>1, <2>2, KeptStays
<1>8. QED  BY <1>3, <1>4, <1>5, <1>6, <1>7 DEF ControlInv

LEMMA RelayKeeps == ASSUME ControlInv, Plane!Attach \/ Plane!Detach  PROVE ControlInv'
<1>0. ControlTypes /\ AllKnown /\ Once /\ Kept  BY DEF ControlInv
<1>1. /\ relay' \in BOOLEAN
      /\ UNCHANGED <<queue, slot, posts, posted, answers, shown, crossed>>
      /\ \/ wire' = wire /\ gone' = gone
         \/ wire' = <<>> /\ gone' = gone \cup Plane!Set(wire)
  BY DEF Plane!Attach, Plane!Detach
<1>2. /\ wire' \in Seq(Messages) /\ Distinct(wire')
      /\ Plane!Set(wire') \subseteq Plane!Set(wire) /\ gone \subseteq gone'
      /\ Plane!Set(wire) \subseteq Plane!Set(wire') \cup gone'
  BY <1>0, <1>1, NothingInEmpty DEF ControlTypes, Once
<1>3. ControlTypes'  BY <1>0, <1>1, <1>2 DEF ControlTypes
<1>4. AllKnown'  BY <1>0, <1>1, <1>2 DEF AllKnown, Known, Plane!Set
<1>5. Once'  BY <1>0, <1>1, <1>2 DEF Once, Distinct, Plane!Set
<1>6. ASSUME NEW n \in Nat  PROVE Counted(n)'
  <2> DEFINE m == Plane!Handoff(n)
  <2>1. /\ Open(m)' <=> Open(m)
        /\ Polled(m)' <=> Polled(m)
        /\ queue' = queue
    BY <1>1 DEF Polled, Open, Plane!Set
  <2>2. Pushed(m)' => Pushed(m)  BY <1>1, <1>2 DEF Pushed, Sending, Plane!Set
  <2>3. QED  BY <1>1, <2>1, <2>2, CountedLess
<1>7. Kept'
  <2>1. \A m : Out(m) => Out(m)'  BY <1>1, <1>2 DEF Out, Plane!Set
  <2>2. \A m : m \in Plane!Set(wire) => m \in Plane!Set(wire') \/ Out(m)'
    BY <1>2 DEF Out
  <2>3. \A m : Waits(m)' <=> Waits(m)  BY <1>1 DEF Waits, Plane!Set
  <2>4. QED  BY <1>0, <1>1, <2>1, <2>2, <2>3, KeptStays
<1>8. QED  BY <1>3, <1>4, <1>5, <1>6, <1>7 DEF ControlInv

LEMMA SentKeeps == ASSUME ControlInv, NEW p \in posts, Plane!Sent(p)  PROVE ControlInv'
<1> DEFINE q == [p EXCEPT !.state = "sent"]
           m0 == p.message
<1>0. ControlTypes /\ AllKnown /\ Once /\ Kept  BY DEF ControlInv
<1>1. /\ p.state = "sending" /\ posts' = (posts \ {p}) \cup {q}
      /\ UNCHANGED <<queue, slot, posted, relay, answers, shown, crossed>>
      /\ \/ wire' = Append(wire, m0) /\ gone' = gone
         \/ wire' = wire /\ gone' = gone \cup {m0}
  BY DEF Plane!Sent
<1>2. p \in Posts /\ m0 \in Messages /\ m0 \notin Plane!Set(wire) /\ wire \in Seq(Messages)
      /\ Distinct(wire)
  BY <1>0, <1>1 DEF ControlTypes, Posts, Once
<1>3. /\ posts' \in SUBSET Posts
      /\ \A r \in posts' : \E o \in posts : /\ r.message = o.message
                                            /\ r = o \/ (o = p /\ r.state = "sent")
      /\ \A r, u \in posts' : r.message = u.message => r = u
      /\ \A m : Sending(m)' <=> Sending(m) /\ m # m0
      /\ \A m : Open(m)' <=> Open(m)
  BY <1>0, <1>1, PostMoves
<1>4. /\ wire' \in Seq(Messages) /\ Distinct(wire')
      /\ Plane!Set(wire') \subseteq Plane!Set(wire) \cup {m0}
      /\ Plane!Set(wire) \subseteq Plane!Set(wire') /\ gone \subseteq gone'
      /\ m0 \in Plane!Set(wire') \/ m0 \in gone'
  <2>1. CASE wire' = Append(wire, m0) /\ gone' = gone
    <3>1. /\ wire' \in Seq(Messages)
          /\ Plane!Set(wire') = Plane!Set(wire) \cup {m0} /\ Distinct(wire')
      BY <1>2, <2>1, ElementsOfAppend, AppendProperties
    <3>2. QED  BY <2>1, <3>1
  <2>2. CASE wire' = wire /\ gone' = gone \cup {m0}  BY <1>2, <2>2
  <2>3. QED  BY <1>1, <2>1, <2>2
<1> HIDE DEF q
<1>5. ControlTypes'  BY <1>0, <1>1, <1>3, <1>4 DEF ControlTypes
<1>6. AllKnown'
  BY <1>0, <1>1, <1>3, <1>4 DEF AllKnown, Known, Plane!Set
<1>7. Once'
  <2>1. \A r \in posts' : r.state = "sending" => r.message \notin Plane!Set(wire')
    <3> SUFFICES ASSUME NEW r \in posts', r.state = "sending"
                 PROVE  r.message \notin Plane!Set(wire')
      OBVIOUS
    <3>1. Sending(r.message)'  BY DEF Sending
    <3>2. r.message # m0 /\ Sending(r.message)  BY <1>3, <3>1
    <3>3. r.message \notin Plane!Set(wire)  BY <1>0, <3>2 DEF Sending, Once
    <3>4. QED  BY <1>4, <3>2, <3>3
  <2>2. QED  BY <1>0, <1>1, <1>3, <1>4, <2>1 DEF Once, Distinct, Plane!Set
<1>8. Sending(m0)  BY <1>1 DEF Sending
<1>9. ASSUME NEW n \in Nat  PROVE Counted(n)'
  <2> DEFINE m == Plane!Handoff(n)
  <2>1. /\ Open(m)' <=> Open(m)
        /\ Polled(m)' <=> Polled(m)
        /\ queue' = queue
    BY <1>1, <1>3 DEF Polled, Plane!Set
  <2>2. Pushed(m)' => Pushed(m)  BY <1>3, <1>4, <1>8 DEF Pushed, Plane!Set
  <2>3. QED  BY <1>1, <2>1, <2>2, CountedLess
<1>10. Kept'
  <2>1. \A m : (Out(m) => Out(m)') /\ (Waits(m)' <=> Waits(m)) /\ (Known(m)' <=> Known(m))
               /\ (Matters(m)' <=> Matters(m))
    BY <1>1, <1>4 DEF Out, Waits, Known, Matters, Plane!Set
  <2>2. \A r \in posts' : r.state = "sent" => Out(r.message)' \/ r.message \in Plane!Set(wire)'
    <3> SUFFICES ASSUME NEW r \in posts', r.state = "sent"
                 PROVE  Out(r.message)' \/ r.message \in Plane!Set(wire')
      BY DEF Plane!Set
    <3>1. PICK o \in posts : r.message = o.message /\ (r = o \/ (o = p /\ r.state = "sent"))
      BY <1>3
    <3>2. CASE r.message = m0  BY <1>4, <3>2 DEF Out
    <3>3. CASE r.message # m0  BY <1>0, <1>4, <2>1, <3>1, <3>3 DEF Kept
    <3>4. QED  BY <3>2, <3>3
  <2>3. \A r \in posts' : Matters(r.message)' => Waits(r.message)' \/ Out(r.message)'
    BY <1>0, <1>3, <2>1 DEF Kept
  <2>4. \A m \in Messages : 1 <= m.id /\ Known(m)' /\ Matters(m)' =>
           Waits(m)' \/ Out(m)' \/ Pushed(m)'
    <3> SUFFICES ASSUME NEW m \in Messages, 1 <= m.id, Known(m)', Matters(m)'
                 PROVE  Waits(m)' \/ Out(m)' \/ Pushed(m)'
      OBVIOUS
    <3>1. Waits(m) \/ Out(m) \/ Pushed(m)  BY <1>0, <2>1 DEF Kept
    <3>2. CASE m = m0  BY <1>4, <3>2 DEF Out, Pushed, Plane!Set
    <3>3. CASE m # m0  BY <1>3, <1>4, <2>1, <3>1, <3>3 DEF Pushed, Plane!Set
    <3>4. QED  BY <3>2, <3>3
  <2>5. QED  BY <2>2, <2>3, <2>4 DEF Kept
<1>11. QED  BY <1>5, <1>6, <1>7, <1>9, <1>10 DEF ControlInv

LEMMA SendFailsKeeps == ASSUME ControlInv, NEW p \in posts, Plane!SendFails(p)  PROVE ControlInv'
<1> DEFINE q == [p EXCEPT !.state = "failed"]
           m0 == p.message
<1>0. ControlTypes /\ AllKnown /\ Once /\ Kept  BY DEF ControlInv
<1>1. /\ p.state = "sending" /\ posts' = (posts \ {p}) \cup {q}
      /\ UNCHANGED <<queue, slot, posted, answers, shown, crossed>>
      /\ relay' = FALSE /\ wire' = <<>> /\ gone' = gone \cup Plane!Set(wire)
  BY DEF Plane!SendFails
<1>2. /\ posts' \in SUBSET Posts
      /\ \A r \in posts' : \E o \in posts : /\ r.message = o.message
                                            /\ r = o \/ (o = p /\ r.state = "failed")
      /\ \A r, u \in posts' : r.message = u.message => r = u
      /\ \A m : Sending(m)' <=> Sending(m) /\ m # m0
      /\ \A m : Open(m)' <=> Open(m) /\ m # m0
  BY <1>0, <1>1, PostMoves
<1>3. wire' \in Seq(Messages) /\ Plane!Set(wire') = {} /\ Distinct(wire')
  BY <1>1, NothingInEmpty
<1> HIDE DEF q
<1>4. ControlTypes'  BY <1>0, <1>1, <1>2, <1>3 DEF ControlTypes
<1>5. AllKnown'  BY <1>0, <1>1, <1>2, <1>3 DEF AllKnown, Known, Plane!Set
<1>6. Once'  BY <1>0, <1>1, <1>2, <1>3 DEF Once, Distinct, Plane!Set
<1>7. Sending(m0)  BY <1>1 DEF Sending
<1>8. ASSUME NEW n \in Nat  PROVE Counted(n)'
  <2> DEFINE m == Plane!Handoff(n)
  <2>1. Polled(m)' <=> Polled(m)  BY <1>1 DEF Polled, Plane!Set
  <2>2. Pushed(m)' => Pushed(m) /\ m # m0
    BY <1>2, <1>3 DEF Pushed, Plane!Set
  <2>3. ~Open(m)' => ~Open(m) \/ (Pushed(m) /\ ~Pushed(m)')
    BY <1>2, <1>7, <2>2 DEF Pushed
  <2>4. queue' = queue  BY <1>1
  <2>5. QED  BY <1>1, <2>1, <2>2, <2>3, <2>4, CountedLess
<1>9. Kept'
  <2>1. \A m : /\ Out(m) => Out(m)'
               /\ m \in Plane!Set(wire) => Out(m)'
               /\ Waits(m)' <=> Waits(m)
               /\ Known(m)' <=> Known(m)
               /\ Matters(m)' <=> Matters(m)
    BY <1>1 DEF Out, Waits, Known, Matters, Plane!Set
  <2>2. \A r \in posts' : r.state = "sent" => Out(r.message)'
    BY <1>0, <1>2, <2>1 DEF Kept
  <2>3. \A r \in posts' : Matters(r.message)' => Waits(r.message)' \/ Out(r.message)'
    BY <1>0, <1>2, <2>1 DEF Kept
  <2>4. ASSUME NEW m \in Messages, 1 <= m.id, Known(m)', Matters(m)'
        PROVE  Waits(m)' \/ Out(m)' \/ Pushed(m)'
    <3>1. Waits(m) \/ Out(m) \/ Pushed(m)  BY <1>0, <2>1, <2>4 DEF Kept
    <3>2. CASE m = m0  BY <1>0, <2>1, <2>4, <3>2 DEF Kept
    <3>3. CASE m # m0  BY <1>2, <2>1, <3>1, <3>3 DEF Pushed
    <3>4. QED  BY <3>2, <3>3
  <2>5. QED  BY <2>2, <2>3, <2>4 DEF Kept
<1>10. QED  BY <1>4, <1>5, <1>6, <1>8, <1>9 DEF ControlInv

LEMMA WithoutOne ==
    ASSUME NEW s \in Seq(Nat), Distinct(s), NEW i \in DOMAIN s
    PROVE  /\ Plane!Without(s, i) \in Seq(Nat) /\ Distinct(Plane!Without(s, i))
           /\ Len(Plane!Without(s, i)) <= Len(s)
           /\ Plane!Set(Plane!Without(s, i)) = Plane!Set(s) \ {s[i]}
<1> DEFINE w == Plane!Without(s, i)
<1>1. /\ Len(s) \in Nat /\ DOMAIN s = 1 .. Len(s) /\ Len(s) - 1 \in Nat /\ i \in 1 .. Len(s)
      /\ \A j \in 1 .. Len(s) : s[j] \in Nat
  OBVIOUS
<1>2. w = [j \in 1 .. Len(s) - 1 |-> IF j < i THEN s[j] ELSE s[j + 1]]
  BY DEF Plane!Without
<1>3. w \in Seq(Nat) /\ Len(w) = Len(s) - 1 /\ DOMAIN w = 1 .. Len(s) - 1
  BY <1>1, <1>2
<1> HIDE DEF w
<1>4. \A j \in 1 .. Len(s) - 1 :
         \/ j < i /\ j \in 1 .. Len(s) /\ w[j] = s[j]
         \/ ~(j < i) /\ j + 1 \in 1 .. Len(s) /\ w[j] = s[j + 1] /\ j + 1 > i
  BY <1>1, <1>2
<1>5. \A k \in 1 .. Len(s) : \/ k = i
                             \/ k < i /\ k \in 1 .. Len(s) - 1 /\ w[k] = s[k]
                             \/ k > i /\ k - 1 \in 1 .. Len(s) - 1 /\ w[k - 1] = s[k]
  BY <1>1, <1>2
<1>6. Distinct(w)
  <2> SUFFICES ASSUME NEW j \in 1 .. Len(s) - 1, NEW k \in 1 .. Len(s) - 1, w[j] = w[k]
               PROVE  j = k
    BY <1>3 DEF Distinct
  <2>1. CASE j < i /\ k < i  BY <1>1, <1>4, <2>1 DEF Distinct
  <2>2. CASE ~(j < i) /\ ~(k < i)
    <3>1. j + 1 = k + 1  BY <1>1, <1>4, <2>2 DEF Distinct
    <3>2. QED  BY <1>1, <3>1
  <2>3. CASE j < i /\ ~(k < i)
    <3>1. j = k + 1  BY <1>1, <1>4, <2>3 DEF Distinct
    <3>2. QED  BY <1>1, <2>3, <3>1
  <2>4. CASE ~(j < i) /\ k < i
    <3>1. j + 1 = k  BY <1>1, <1>4, <2>4 DEF Distinct
    <3>2. QED  BY <1>1, <2>4, <3>1
  <2>5. QED  BY <2>1, <2>2, <2>3, <2>4
<1>7. Plane!Set(w) = Plane!Set(s) \ {s[i]}
  <2>1. ASSUME NEW y \in Plane!Set(w)  PROVE y \in Plane!Set(s) \ {s[i]}
    <3>1. PICK j \in 1 .. Len(s) - 1 : y = w[j]  BY <1>3, <2>1 DEF Plane!Set
    <3>2. \E k \in 1 .. Len(s) : y = s[k] /\ k # i
      <4>1. CASE j < i
        <5>1. j \in 1 .. Len(s) /\ j # i /\ y = s[j]  BY <1>1, <1>4, <3>1, <4>1
        <5>2. QED  BY <5>1
      <4>2. CASE ~(j < i)
        <5>1. j + 1 \in 1 .. Len(s) /\ j + 1 # i /\ y = s[j + 1]  BY <1>1, <1>4, <3>1, <4>2
        <5>2. QED  BY <5>1
      <4>3. QED  BY <4>1, <4>2
    <3>3. QED  BY <1>1, <3>2 DEF Plane!Set, Distinct
  <2>2. ASSUME NEW y \in Plane!Set(s) \ {s[i]}  PROVE y \in Plane!Set(w)
    <3>1. PICK k \in 1 .. Len(s) : y = s[k]  BY <1>1, <2>2 DEF Plane!Set
    <3>2. \E j \in 1 .. Len(s) - 1 : w[j] = y  BY <1>1, <1>5, <2>2, <3>1
    <3>3. QED  BY <1>3, <3>2 DEF Plane!Set
  <2>3. QED  BY <2>1, <2>2
<1>8. QED  BY <1>1, <1>3, <1>6, <1>7 DEF w

\* A handoff that was relayed loses its copy, and no other does.
LEMMA HandoffDrops ==
    ASSUME ControlTypes, Once, NEW id, Plane!DropHandoff(id)
    PROVE  /\ queue' \in Seq(Nat) /\ Distinct(queue') /\ Len(queue') <= MaxHandoffs
           /\ Plane!Set(queue') = Plane!Set(queue) \ {id}
<1> DEFINE at == {i \in DOMAIN queue : queue[i] = id}
<1>0. queue \in Seq(Nat) /\ Distinct(queue) /\ Len(queue) <= MaxHandoffs
  BY DEF ControlTypes, Once
<1>1. queue' = IF at = {} THEN queue ELSE Plane!Without(queue, CHOOSE i \in at : TRUE)
  BY DEF Plane!DropHandoff
<1>2. CASE at = {}
  <2>1. id \notin Plane!Set(queue)  BY <1>2 DEF Plane!Set
  <2>2. QED  BY <1>0, <1>1, <1>2, <2>1
<1>3. CASE at # {}
  <2>1. PICK i \in at : queue' = Plane!Without(queue, i)  BY <1>1, <1>3
  <2>2. queue[i] = id /\ i \in DOMAIN queue  OBVIOUS
  <2>3. /\ queue' \in Seq(Nat) /\ Distinct(queue') /\ Len(queue') <= Len(queue)
        /\ Plane!Set(queue') = Plane!Set(queue) \ {id}
    BY <1>0, <2>1, <2>2, WithoutOne
  <2>4. Len(queue') \in Nat /\ Len(queue) \in Nat  BY <1>0, <2>3
  <2>5. QED  BY <1>0, <2>3, <2>4, ServicesAssumption
<1>4. QED  BY <1>2, <1>3

LEMMA AnswerPostKeeps ==
    ASSUME ControlInv, NEW p \in posts, Plane!AnswerPost(p)  PROVE ControlInv'
<1> DEFINE m0 == p.message
<1>0. ControlTypes /\ AllKnown /\ Once /\ Kept  BY DEF ControlInv
<1>1. /\ posts' = posts \ {p}
      /\ UNCHANGED <<posted, relay, wire, answers, shown, gone, crossed>>
      /\ p.state \in {"sent", "failed"}
      /\ \/ p.state = "failed" /\ UNCHANGED <<queue, slot>>
         \/ p.state = "sent" /\ m0.kind = "handoff" /\ Plane!DropHandoff(m0.id) /\ slot' = slot
         \/ p.state = "sent" /\ m0.kind # "handoff" /\ queue' = queue
              /\ slot' = IF slot = m0.id THEN 0 ELSE slot
  BY DEF Plane!AnswerPost, Plane!DropVoiceState
<1>2. /\ p \in Posts /\ m0 \in Messages /\ m0.kind \in {"handoff", "voice"} /\ m0.id \in Nat
      /\ slot \in Nat /\ posted.voice \in Nat /\ slot <= posted.voice
  BY <1>0 DEF ControlTypes, Posts, Messages
<1>3. /\ queue' \in Seq(Nat) /\ Distinct(queue') /\ Len(queue') <= MaxHandoffs
      /\ Plane!Set(queue') \subseteq Plane!Set(queue)
      /\ \A n \in Plane!Set(queue) :
            \/ n \in Plane!Set(queue')
            \/ p.state = "sent" /\ m0.kind = "handoff" /\ n = m0.id
      /\ p.state = "sent" /\ m0.kind = "handoff" => m0.id \notin Plane!Set(queue')
  <2>1. CASE queue' = queue
    <3>1. CASE p.state = "sent" /\ m0.kind = "handoff"
      BY <1>0, <1>1, <2>1, <3>1, HandoffDrops
    <3>2. CASE ~(p.state = "sent" /\ m0.kind = "handoff")
      BY <1>0, <2>1, <3>2 DEF ControlTypes, Once
    <3>3. QED  BY <3>1, <3>2
  <2>2. CASE p.state = "sent" /\ m0.kind = "handoff" /\ Plane!DropHandoff(m0.id)
    BY <1>0, <2>2, HandoffDrops
  <2>3. QED  BY <1>1, <2>1, <2>2
<1>4. slot' \in Nat /\ slot' <= posted.voice /\ (slot' = slot \/ (p.state = "sent" /\ slot = m0.id
                                                                  /\ m0.kind = "voice"))
  BY <1>1, <1>2
<1>5. ControlTypes'  BY <1>0, <1>1, <1>3, <1>4 DEF ControlTypes
<1>6. AllKnown'  BY <1>0, <1>1, <1>3 DEF AllKnown, Known, Plane!Set
<1>7. Once'  BY <1>0, <1>1, <1>3 DEF Once, Distinct, Plane!Set
<1>8. /\ \A m : Sending(m)' <=> Sending(m)
      /\ \A m : Open(m)' <=> Open(m) /\ ~(p.state = "sent" /\ m = m0)
  BY <1>0, <1>1 DEF Sending, Open, Once
<1>9. ASSUME NEW n \in Nat  PROVE Counted(n)'
  <2> DEFINE m == Plane!Handoff(n)
  <2>1. /\ Polled(m)' <=> Polled(m)
        /\ Pushed(m)' <=> Pushed(m)
    BY <1>1, <1>8 DEF Polled, Pushed, Plane!Set
  <2>2. n \in Plane!Set(queue') => n \in Plane!Set(queue) /\ ~(p.state = "sent" /\ m = m0)
    BY <1>3, HandoffIsMessage
  <2>3. QED  BY <1>1, <1>8, <2>1, <2>2, CountedLess
<1>10. Kept'
  <2>1. \A m : /\ Out(m)' <=> Out(m)
               /\ Known(m)' <=> Known(m)
               /\ Matters(m)' <=> Matters(m)
               /\ Pushed(m)' <=> Pushed(m)
    BY <1>1, <1>8 DEF Out, Known, Matters, Pushed, Plane!Set
  <2>2. \A m \in Messages : Waits(m) => Waits(m)' \/ (p.state = "sent" /\ m = m0)
    <3> SUFFICES ASSUME NEW m \in Messages, Waits(m), ~(p.state = "sent" /\ m = m0)
                 PROVE  Waits(m)'
      OBVIOUS
    <3>1. m.kind = m0.kind /\ m.id = m0.id => m = m0
      BY <1>2 DEF Messages
    <3>2. CASE m.kind = "handoff"  BY <1>3, <3>1, <3>2 DEF Waits, Plane!Set
    <3>3. CASE m.kind = "voice"  BY <1>4, <3>1, <3>3 DEF Waits
    <3>4. QED  BY <3>2, <3>3 DEF Messages
  <2>3. \A r \in posts' : r \in posts /\ r.message \in Messages /\ r.message # m0
    BY <1>0, <1>1 DEF ControlTypes, Posts, Once
  <2>4. \A r \in posts' : r.state = "sent" => Out(r.message)' \/ r.message \in Plane!Set(wire)'
    BY <1>0, <1>1, <2>1, <2>3 DEF Kept, Plane!Set
  <2>5. \A r \in posts' : Matters(r.message)' => Waits(r.message)' \/ Out(r.message)'
    BY <1>0, <2>1, <2>2, <2>3 DEF Kept
  <2>6. ASSUME NEW m \in Messages, 1 <= m.id, Known(m)', Matters(m)'
        PROVE  Waits(m)' \/ Out(m)' \/ Pushed(m)'
    <3>1. Waits(m) \/ Out(m) \/ Pushed(m)  BY <1>0, <2>1, <2>6 DEF Kept
    <3>2. p.state = "sent" /\ m = m0 => Out(m) \/ Pushed(m)  BY <1>0 DEF Kept, Pushed
    <3>3. QED  BY <2>1, <2>2, <3>1, <3>2
  <2>7. QED  BY <2>4, <2>5, <2>6 DEF Kept
<1>11. QED  BY <1>5, <1>6, <1>7, <1>9, <1>10 DEF ControlInv

LEMMA AgentPollKeeps ==
    ASSUME ControlInv, NEW expired \in BOOLEAN, Plane!AgentPoll(expired)  PROVE ControlInv'
<1> DEFINE h == IF queue = <<>> THEN <<>> ELSE <<Plane!Handoff(Head(queue))>>
           v == IF slot = 0 \/ expired THEN <<>> ELSE <<Plane!Voice(slot)>>
<1>0. ControlTypes /\ AllKnown /\ Once /\ Kept  BY DEF ControlInv
<1>1. /\ answers = <<>> /\ answers' = h \o v
      /\ crossed' = crossed \cup {m \in Plane!Set(h) : Open(m)}
      /\ queue' = IF queue = <<>> THEN <<>> ELSE Tail(queue)
      /\ slot' = 0
      /\ gone' = IF slot # 0 /\ expired THEN gone \cup {Plane!Voice(slot)} ELSE gone
      /\ UNCHANGED <<posts, posted, relay, wire, shown>>
  BY DEF Plane!AgentPoll, Open
<1>2. /\ queue \in Seq(Nat) /\ slot \in Nat /\ Distinct(queue) /\ Len(queue) <= MaxHandoffs
      /\ slot <= posted.voice /\ posted.voice \in Nat
  BY <1>0 DEF ControlTypes, Once
<1>3. /\ queue' \in Seq(Nat) /\ Distinct(queue') /\ Len(queue') <= MaxHandoffs
      /\ Plane!Set(queue') \subseteq Plane!Set(queue)
      /\ \A n : n \in Plane!Set(queue) /\ n \notin Plane!Set(queue')
                  <=> queue # <<>> /\ n = Head(queue)
  <2>1. CASE queue = <<>>  BY <1>1, <1>2, <2>1, NothingInEmpty
  <2>2. CASE queue # <<>>
    <3>1. /\ queue' = Tail(queue) /\ queue' \in Seq(Nat) /\ Distinct(queue')
          /\ Len(queue') = Len(queue) - 1 /\ Len(queue) \in Nat
          /\ Plane!Set(queue) = Plane!Set(queue') \cup {Head(queue)}
          /\ Head(queue) \notin Plane!Set(queue')
      BY <1>1, <1>2, <2>2, ElementsOfTail
    <3>2. QED  BY <1>2, <2>2, <3>1, ServicesAssumption
  <2>3. QED  BY <2>1, <2>2
<1>4. queue # <<>> => Head(queue) \in Nat /\ Head(queue) \in Plane!Set(queue)
  BY <1>2, ElementsOfTail
<1>5. /\ h \in Seq(Messages) /\ Distinct(h)
      /\ \A m : m \in Plane!Set(h) <=> queue # <<>> /\ m = Plane!Handoff(Head(queue))
  <2>1. CASE queue = <<>>  BY <2>1, NothingInEmpty
  <2>2. CASE queue # <<>>
    <3>1. h = <<Plane!Handoff(Head(queue))>> /\ Plane!Handoff(Head(queue)) \in Messages
      BY <1>4, <2>2, HandoffIsMessage
    <3> HIDE DEF h
    <3>2. h \in Seq(Messages) /\ DOMAIN h = {1} /\ h[1] = Plane!Handoff(Head(queue))
      BY <3>1
    <3>3. QED  BY <2>2, <3>2 DEF Distinct, Plane!Set
  <2>3. QED  BY <2>1, <2>2
<1>6. /\ v \in Seq(Messages) /\ Distinct(v)
      /\ \A m : m \in Plane!Set(v) <=> slot # 0 /\ ~expired /\ m = Plane!Voice(slot)
  <2>1. CASE slot = 0 \/ expired  BY <2>1, NothingInEmpty
  <2>2. CASE ~(slot = 0 \/ expired)
    <3>1. v = <<Plane!Voice(slot)>> /\ Plane!Voice(slot) \in Messages
      BY <1>2, <2>2, HandoffIsMessage
    <3> HIDE DEF v
    <3>2. v \in Seq(Messages) /\ DOMAIN v = {1} /\ v[1] = Plane!Voice(slot)
      BY <3>1
    <3>3. QED  BY <2>2, <3>2 DEF Distinct, Plane!Set
  <2>3. QED  BY <2>1, <2>2
<1> HIDE DEF h, v
<1>7. /\ answers' \in Seq(Messages) /\ Distinct(answers')
      /\ Plane!Set(answers') = Plane!Set(h) \cup Plane!Set(v)
  <2>1. Plane!Set(h) \cap Plane!Set(v) = {}  BY <1>2, <1>4, <1>5, <1>6, HandoffIsMessage
  <2>2. QED  BY <1>1, <1>5, <1>6, <2>1, ElementsOfConcat
<1>8. ControlTypes'
  BY <1>0, <1>1, <1>2, <1>3, <1>7 DEF ControlTypes
<1>9. AllKnown'
  <2>1. \A m \in Plane!Set(answers') : Known(m)
    BY <1>0, <1>2, <1>4, <1>5, <1>6, <1>7, HandoffIsMessage DEF AllKnown, Known
  <2>2. \A n \in Nat : Plane!Handoff(n) \in crossed' => n <= posted.handoff
    <3> SUFFICES ASSUME NEW n \in Nat, Plane!Handoff(n) \in Plane!Set(h)
                 PROVE  n <= posted.handoff
      BY <1>0, <1>1 DEF AllKnown
    <3>1. Head(queue) \in Nat /\ Head(queue) \in Plane!Set(queue)
          /\ Plane!Handoff(n) = Plane!Handoff(Head(queue))
      BY <1>4, <1>5
    <3>2. n = Head(queue)  BY <3>1 DEF Plane!Handoff
    <3>3. QED  BY <1>0, <3>1, <3>2 DEF AllKnown
  <2>3. QED  BY <1>0, <1>1, <1>3, <2>1, <2>2 DEF AllKnown, Known, Plane!Set
<1>10. Once'  BY <1>0, <1>1, <1>3, <1>7 DEF Once, Distinct, Plane!Set
<1>11. ASSUME NEW n \in Nat  PROVE Counted(n)'
  <2> DEFINE m == Plane!Handoff(n)
  <2>1. /\ Pushed(m)' <=> Pushed(m)
        /\ Open(m)' <=> Open(m)
        /\ Plane!Times(m)' = Plane!Times(m) /\ Plane!Times(m) \in Nat
    BY <1>0, <1>1, TimesIsCount, CountIsNat DEF Pushed, Sending, Open, Plane!Set, ControlTypes
  <2>2. ~Polled(m)  BY <1>1, NothingInEmpty DEF Polled
  <2>3. Polled(m)' <=> queue # <<>> /\ n = Head(queue)
    <3>1. Polled(m)' <=> m \in Plane!Set(h) \cup Plane!Set(v)  BY <1>7 DEF Polled, Plane!Set
    <3>2. m \notin Plane!Set(v)  BY <1>2, <1>6, HandoffIsMessage
    <3>3. m \in Plane!Set(h) <=> queue # <<>> /\ n = Head(queue)
      BY <1>4, <1>5, HandoffIsMessage
    <3>4. QED  BY <3>1, <3>2, <3>3
  <2>4. m \in crossed' <=> m \in crossed \/ (queue # <<>> /\ n = Head(queue) /\ Open(m))
    BY <1>1, <1>4, <1>5, HandoffIsMessage
  <2>5. Counted(n)  BY DEF ControlInv
  <2>6. Fits(Plane!Times(m)', Pushed(m)', Polled(m)', n \in Plane!Set(queue'), Open(m)',
             m \in crossed')
    <3>1. CASE queue # <<>> /\ n = Head(queue)
      <4>1. n \in Plane!Set(queue) /\ n \notin Plane!Set(queue')  BY <1>3, <3>1
      <4>2. m \notin crossed /\ (Plane!Times(m) > 0 \/ Pushed(m) => Open(m))
            /\ Plane!Times(m) + One(Pushed(m)) <= 1
        BY <2>1, <2>2, <2>5, <4>1 DEF Counted, Fits, One
      <4>3. CASE Open(m)  BY <2>1, <2>3, <2>4, <3>1, <4>1, <4>2, <4>3 DEF Fits, One
      <4>4. CASE ~Open(m)  BY <2>1, <2>3, <2>4, <3>1, <4>1, <4>2, <4>4 DEF Fits, One
      <4>5. QED  BY <4>3, <4>4
    <3>2. CASE ~(queue # <<>> /\ n = Head(queue))
      <4>1. n \in Plane!Set(queue') => n \in Plane!Set(queue)  BY <1>3
      <4>2. (m \in crossed' <=> m \in crossed) /\ ~Polled(m)'  BY <2>3, <2>4, <3>2
      <4>3. QED  BY <2>1, <2>2, <2>5, <4>1, <4>2 DEF Counted, Fits, One
    <3>3. QED  BY <3>1, <3>2
  <2>7. QED  BY <2>6, CountedNext
<1>12. Kept'
  <2>1. \A m : Out(m) => Out(m)'
    BY <1>1, NothingInEmpty DEF Out, Plane!Set
  <2>2. \A m \in Messages : Waits(m) /\ Known(m) /\ 1 <= m.id => Waits(m)' \/ Out(m)'
    <3> SUFFICES ASSUME NEW m \in Messages, Waits(m), 1 <= m.id  PROVE Waits(m)' \/ Out(m)'
      OBVIOUS
    <3>1. CASE m.kind = "handoff"
      <4>1. m = Plane!Handoff(m.id) /\ m.id \in Plane!Set(queue)
        BY <3>1, MessageIsNamed DEF Waits
      <4>2. m.id \in Plane!Set(queue') \/ m \in Plane!Set(answers')
        BY <1>3, <1>5, <1>7, <4>1
      <4>3. QED  BY <3>1, <4>2 DEF Waits, Out, Plane!Set
    <3>2. CASE m.kind = "voice"
      <4>1. m = Plane!Voice(slot) /\ slot # 0  BY <3>2, MessageIsNamed DEF Waits
      <4>2. m \in Plane!Set(answers') \/ m \in gone'  BY <1>1, <1>6, <1>7, <4>1
      <4>3. QED  BY <4>2 DEF Out, Plane!Set
    <3>3. QED  BY <3>1, <3>2 DEF Messages
  <2>3. QED  BY <1>0, <1>1, <2>1, <2>2, KeptStays
<1>13. QED  BY <1>8, <1>9, <1>10, <1>11, <1>12 DEF ControlInv

\* The queue after one more handoff: the oldest makes room.
LEMMA QueueGrows ==
    ASSUME ControlTypes, Once, NEW id \in Nat, id \notin Plane!Set(queue),
           IF Len(Append(queue, id)) > MaxHandoffs
           THEN queue' = Tail(Append(queue, id))
                /\ gone' = gone \cup {Plane!Handoff(Head(Append(queue, id)))}
           ELSE queue' = Append(queue, id) /\ UNCHANGED gone
    PROVE  /\ queue' \in Seq(Nat) /\ Distinct(queue') /\ Len(queue') <= MaxHandoffs
           /\ Plane!Set(queue') \subseteq Plane!Set(queue) \cup {id}
           /\ gone \subseteq gone'
           /\ \A n \in Plane!Set(queue) \cup {id} :
                 n \in Plane!Set(queue') \/ Plane!Handoff(n) \in gone'
<1> DEFINE longer == Append(queue, id)
<1>1. queue \in Seq(Nat) /\ Distinct(queue) /\ Len(queue) <= MaxHandoffs /\ Len(queue) \in Nat
  BY DEF ControlTypes, Once
<1>2. /\ longer \in Seq(Nat) /\ Len(longer) = Len(queue) + 1 /\ longer # <<>>
      /\ Plane!Set(longer) = Plane!Set(queue) \cup {id} /\ Distinct(longer)
  <2>1. longer \in Seq(Nat) /\ Len(longer) = Len(queue) + 1  BY <1>1, AppendProperties
  <2>2. longer # <<>>  BY <1>1, <2>1
  <2>3. QED  BY <1>1, <2>1, <2>2, ElementsOfAppend
<1>3. CASE Len(longer) > MaxHandoffs
  <2>1. queue' = Tail(longer) /\ gone' = gone \cup {Plane!Handoff(Head(longer))}  BY <1>3
  <2> HIDE DEF longer
  <2>2. /\ queue' \in Seq(Nat) /\ Len(queue') = Len(longer) - 1 /\ Distinct(queue')
        /\ Plane!Set(longer) = Plane!Set(queue') \cup {Head(longer)}
    BY <1>2, <2>1, ElementsOfTail
  <2>3. QED  BY <1>1, <1>2, <2>1, <2>2
<1>4. CASE ~(Len(longer) > MaxHandoffs)
  <2>1. queue' = longer /\ gone' = gone  BY <1>4
  <2> HIDE DEF longer
  <2>2. QED  BY <1>1, <1>2, <1>4, <2>1, ServicesAssumption
<1>5. QED  BY <1>3, <1>4

\* What is posted is new.
LEMMA NewMessage ==
    ASSUME ControlInv, NEW m \in Messages, m.id = posted[m.kind] + 1
    PROVE  /\ \A p \in posts : p.message # m
           /\ m \notin Plane!Set(wire) /\ m \notin Plane!Set(answers)
           /\ m \notin Plane!Set(shown)
           /\ m.kind = "handoff" => m.id \notin Plane!Set(queue) /\ m \notin crossed
<1>1. posted.handoff \in Nat /\ posted.voice \in Nat /\ m.kind \in {"handoff", "voice"}
  BY DEF ControlInv, ControlTypes, Messages
<1>2. ~Known(m) /\ (m.kind = "handoff" => ~(m.id <= posted.handoff))
  <2>1. CASE m.kind = "handoff"  BY <1>1, <2>1 DEF Known
  <2>2. CASE m.kind = "voice"  BY <1>1, <2>2 DEF Known
  <2>3. QED  BY <1>1, <2>1, <2>2
<1>3. AllKnown  BY DEF ControlInv
<1>4. m.kind = "handoff" => m \notin crossed
  BY <1>2, <1>3, MessageIsNamed DEF AllKnown
<1>5. QED  BY <1>2, <1>3, <1>4 DEF AllKnown

LEMMA PostHandoffKeeps == ASSUME ControlInv, Plane!PostHandoff  PROVE ControlInv'
<1>a. PICK id, m0 : id = posted.handoff + 1 /\ m0 = Plane!Handoff(id)
  OBVIOUS
<1>0. ControlTypes /\ AllKnown /\ Once /\ Kept  BY DEF ControlInv
<1>1. /\ posted.handoff < Handoffs /\ posted' = [posted EXCEPT !.handoff = id]
      /\ IF Len(Append(queue, id)) > MaxHandoffs
         THEN queue' = Tail(Append(queue, id))
              /\ gone' = gone \cup {Plane!Handoff(Head(Append(queue, id)))}
         ELSE queue' = Append(queue, id) /\ UNCHANGED gone
      /\ Plane!BeginPush(m0)
      /\ UNCHANGED <<slot, relay, wire, answers, shown, crossed>>
  BY <1>a DEF Plane!PostHandoff
<1>2. /\ id \in Nat /\ m0 \in Messages /\ m0.kind = "handoff" /\ m0.id = id /\ 1 <= id
      /\ posted.handoff \in Nat /\ posted.voice \in Nat
      /\ posted' \in [handoff : Nat, voice : Nat] /\ posted'.handoff = id
      /\ posted'.voice = posted.voice
  <2>1. posted \in [handoff : Nat, voice : Nat]  BY <1>0 DEF ControlTypes
  <2>2. id \in Nat /\ 1 <= id  BY <1>a, <2>1
  <2>3. QED  BY <1>a, <1>1, <2>1, <2>2, HandoffIsMessage
<1>3. /\ \A p \in posts : p.message # m0
      /\ m0 \notin Plane!Set(wire) /\ m0 \notin Plane!Set(answers)
      /\ m0 \notin Plane!Set(shown)
      /\ id \notin Plane!Set(queue) /\ m0 \notin crossed
  <2>1. m0.id = posted[m0.kind] + 1  BY <1>a, <1>2
  <2>2. QED  BY <1>2, <2>1, NewMessage
<1>4. /\ posts' \in SUBSET Posts
      /\ \A r \in posts' : r \in posts \/ (r.message = m0 /\ r.state # "sent")
      /\ \A r, u \in posts' : r.message = u.message => r = u
      /\ \A x : x # m0 => (Sending(x)' <=> Sending(x)) /\ (Open(x)' <=> Open(x))
      /\ Sending(m0)' => Open(m0)'
      /\ \A x : Sending(x) => Sending(x)'
  BY <1>0, <1>1, <1>2, <1>3, PostAdded
<1>5. /\ queue' \in Seq(Nat) /\ Distinct(queue') /\ Len(queue') <= MaxHandoffs
      /\ Plane!Set(queue') \subseteq Plane!Set(queue) \cup {id}
      /\ gone \subseteq gone'
      /\ \A n \in Plane!Set(queue) \cup {id} :
            n \in Plane!Set(queue') \/ Plane!Handoff(n) \in gone'
  BY <1>0, <1>1, <1>2, <1>3, QueueGrows
<1>6. posted.handoff < id /\ id <= Handoffs  BY <1>a, <1>1, <1>2, ServicesAssumption
<1>7. ControlTypes'  BY <1>0, <1>1, <1>2, <1>4, <1>5, <1>6 DEF ControlTypes
<1>8. \A m \in Messages : Known(m) => Known(m)'
  <2> SUFFICES ASSUME NEW m \in Messages, Known(m)  PROVE Known(m)'
    OBVIOUS
  <2>1. CASE m.kind = "handoff"  BY <1>2, <1>6, <2>1, MessageIsNamed DEF Known
  <2>2. CASE m.kind = "voice"  BY <1>2, <2>2, MessageIsNamed DEF Known
  <2>3. QED  BY <2>1, <2>2, MessageIsNamed
<1>9. AllKnown'
  <2>1. \A n \in Plane!Set(queue') : n <= posted'.handoff
    <3>1. \A n \in Plane!Set(queue) : n \in Nat /\ n <= posted.handoff
      BY <1>0 DEF AllKnown, ControlTypes, Plane!Set
    <3>2. QED  BY <1>2, <1>5, <1>6, <3>1
  <2>2. \A p \in posts' : Known(p.message)' /\ 1 <= p.message.id
    <3>1. Known(m0)'  BY <1>2 DEF Known
    <3>2. QED  BY <1>0, <1>2, <1>4, <1>8, <3>1 DEF AllKnown, ControlTypes, Posts
  <2>3. \A m \in Plane!Set(wire) \cup Plane!Set(answers) \cup Plane!Set(shown) :
           m \in Messages /\ Known(m)'
    BY <1>0, <1>8 DEF AllKnown, ControlTypes, Plane!Set
  <2>4. \A n \in Nat : Plane!Handoff(n) \in crossed => n <= posted'.handoff
    BY <1>0, <1>2, <1>6 DEF AllKnown
  <2>5. QED  BY <1>1, <2>1, <2>2, <2>3, <2>4 DEF AllKnown, Plane!Set
<1>10. Once'
  <2>1. \A r \in posts' : r.state = "sending" => r.message \notin Plane!Set(wire)
    BY <1>0, <1>3, <1>4 DEF Once
  <2>2. QED  BY <1>0, <1>1, <1>4, <1>5, <2>1 DEF Once, Distinct, Plane!Set
<1>11. ASSUME NEW n \in Nat  PROVE Counted(n)'
  <2> DEFINE m == Plane!Handoff(n)
  <2>1. /\ Polled(m)' <=> Polled(m)
        /\ Plane!Times(m)' = Plane!Times(m)
        /\ crossed' = crossed
    BY <1>1, TimesIsCount DEF Polled, Plane!Set
  <2>2. CASE n # id
    <3>1. m # m0  BY <1>a, <1>2, <2>2, HandoffIsMessage
    <3>2. /\ Pushed(m)' <=> Pushed(m)
          /\ Open(m)' <=> Open(m)
      BY <1>1, <1>4, <3>1 DEF Pushed, Plane!Set
    <3>3. n \in Plane!Set(queue') => n \in Plane!Set(queue)  BY <1>5, <2>2
    <3>4. QED  BY <1>1, <2>1, <3>2, <3>3, CountedLess
  <2>3. CASE n = id
    <3>1. m = m0  BY <1>a, <2>3
    <3>2. ~Polled(m) /\ m \notin crossed /\ Plane!Times(m) = 0
      BY <1>0, <1>3, <3>1, TimesIsCount, CountIsNat DEF Polled, ControlTypes
    <3>3. Pushed(m)' => Open(m)'  BY <1>1, <1>3, <1>4, <3>1 DEF Pushed, Plane!Set
    <3>4. Fits(Plane!Times(m)', Pushed(m)', Polled(m)', n \in Plane!Set(queue'), Open(m)',
               m \in crossed')
      BY <2>1, <3>2, <3>3 DEF Fits, One
    <3>5. QED  BY <3>4, CountedNext
  <2>4. QED  BY <2>2, <2>3
<1>12. Kept'
  <2>1. \A m : /\ Out(m) => Out(m)'
               /\ Matters(m)' <=> Matters(m)
               /\ Pushed(m) => Pushed(m)'
    BY <1>1, <1>2, <1>4, <1>5 DEF Out, Matters, Pushed, Plane!Set
  <2>2. \A m \in Messages : Waits(m) => Waits(m)' \/ Out(m)'
    <3> SUFFICES ASSUME NEW m \in Messages, Waits(m)  PROVE Waits(m)' \/ Out(m)'
      OBVIOUS
    <3>1. CASE m.kind = "handoff"
      <4>1. m = Plane!Handoff(m.id) /\ m.id \in Plane!Set(queue)
        BY <3>1, MessageIsNamed DEF Waits
      <4>2. m.id \in Plane!Set(queue') \/ m \in gone'  BY <1>5, <4>1
      <4>3. QED  BY <3>1, <4>2 DEF Waits, Out, Plane!Set
    <3>2. CASE m.kind = "voice"  BY <1>1, <3>2 DEF Waits
    <3>3. QED  BY <3>1, <3>2, MessageIsNamed
  <2>3. Waits(m0)' \/ Out(m0)'
    <3>1. id \in Plane!Set(queue') \/ m0 \in gone'  BY <1>a, <1>5
    <3>2. QED  BY <1>2, <3>1 DEF Waits, Out, Plane!Set
  <2>4. \A r \in posts' : r.state = "sent" => Out(r.message)' \/ r.message \in Plane!Set(wire)'
    BY <1>0, <1>1, <1>4, <2>1 DEF Kept, Plane!Set
  <2>5. \A r \in posts' : Matters(r.message)' => Waits(r.message)' \/ Out(r.message)'
    BY <1>0, <1>4, <2>1, <2>2, <2>3 DEF Kept, ControlTypes, Posts
  <2>6. ASSUME NEW m \in Messages, 1 <= m.id, Known(m)', Matters(m)'
        PROVE  Waits(m)' \/ Out(m)' \/ Pushed(m)'
    <3>1. CASE m = m0  BY <2>3, <3>1
    <3>2. CASE m # m0
      <4>1. Known(m)
        <5>1. CASE m.kind = "voice"  BY <1>2, <2>6, <5>1 DEF Known
        <5>2. CASE m.kind = "handoff"
          <6>1. m.id # id  BY <1>a, <3>2, <5>2, MessageIsNamed
          <6>2. m.id <= id /\ m.id \in Nat  BY <1>2, <2>6, <5>2, MessageIsNamed DEF Known
          <6>3. m.id <= posted.handoff  BY <1>a, <1>2, <6>1, <6>2
          <6>4. QED  BY <5>2, <6>3 DEF Known
        <5>3. QED  BY <5>1, <5>2, MessageIsNamed
      <4>2. Waits(m) \/ Out(m) \/ Pushed(m)  BY <1>0, <2>1, <2>6, <4>1 DEF Kept
      <4>3. QED  BY <2>1, <2>2, <4>2
    <3>3. QED  BY <3>1, <3>2
  <2>7. QED  BY <2>4, <2>5, <2>6 DEF Kept
<1>13. QED  BY <1>7, <1>9, <1>10, <1>11, <1>12 DEF ControlInv

LEMMA PostVoiceStateKeeps == ASSUME ControlInv, Plane!PostVoiceState  PROVE ControlInv'
<1>a. PICK id, m0 : id = posted.voice + 1 /\ m0 = Plane!Voice(id)
  OBVIOUS
<1>0. ControlTypes /\ AllKnown /\ Once /\ Kept  BY DEF ControlInv
<1>1. /\ posted.voice < Voices /\ posted' = [posted EXCEPT !.voice = id] /\ slot' = id
      /\ Plane!BeginPush(m0)
      /\ UNCHANGED <<queue, relay, wire, answers, shown, gone, crossed>>
  BY <1>a DEF Plane!PostVoiceState
<1>2. /\ id \in Nat /\ m0 \in Messages /\ m0.kind = "voice" /\ m0.id = id /\ 1 <= id
      /\ posted.handoff \in Nat /\ posted.voice \in Nat
      /\ posted' \in [handoff : Nat, voice : Nat] /\ posted'.voice = id
      /\ posted'.handoff = posted.handoff
  <2>1. posted \in [handoff : Nat, voice : Nat]  BY <1>0 DEF ControlTypes
  <2>2. id \in Nat /\ 1 <= id  BY <1>a, <2>1
  <2>3. QED  BY <1>a, <1>1, <2>1, <2>2, HandoffIsMessage
<1>3. /\ \A p \in posts : p.message # m0
      /\ m0 \notin Plane!Set(wire)
  <2>1. m0.id = posted[m0.kind] + 1  BY <1>a, <1>2
  <2>2. QED  BY <1>2, <2>1, NewMessage
<1>4. /\ posts' \in SUBSET Posts
      /\ \A r \in posts' : r \in posts \/ (r.message = m0 /\ r.state # "sent")
      /\ \A r, u \in posts' : r.message = u.message => r = u
      /\ \A x : x # m0 => (Sending(x)' <=> Sending(x)) /\ (Open(x)' <=> Open(x))
      /\ \A x : Sending(x) => Sending(x)'
  BY <1>0, <1>1, <1>2, <1>3, PostAdded
<1>5. posted.voice < id /\ id <= Voices /\ posted.voice <= id
  BY <1>a, <1>1, <1>2, ServicesAssumption
<1>6. ControlTypes'  BY <1>0, <1>1, <1>2, <1>4, <1>5 DEF ControlTypes
<1>7. \A m \in Messages : Known(m) => Known(m)'
  <2> SUFFICES ASSUME NEW m \in Messages, Known(m)  PROVE Known(m)'
    OBVIOUS
  <2>1. CASE m.kind = "voice"  BY <1>2, <1>5, <2>1, MessageIsNamed DEF Known
  <2>2. CASE m.kind = "handoff"  BY <1>2, <2>2, MessageIsNamed DEF Known
  <2>3. QED  BY <2>1, <2>2, MessageIsNamed
<1>8. AllKnown'
  <2>1. \A p \in posts' : Known(p.message)' /\ 1 <= p.message.id
    <3>1. Known(m0)'  BY <1>2 DEF Known
    <3>2. QED  BY <1>0, <1>2, <1>4, <1>7, <3>1 DEF AllKnown, ControlTypes, Posts
  <2>2. \A m \in Plane!Set(wire) \cup Plane!Set(answers) \cup Plane!Set(shown) :
           m \in Messages /\ Known(m)'
    BY <1>0, <1>7 DEF AllKnown, ControlTypes, Plane!Set
  <2>3. QED  BY <1>0, <1>1, <1>2, <2>1, <2>2 DEF AllKnown, Plane!Set
<1>9. Once'
  <2>1. \A r \in posts' : r.state = "sending" => r.message \notin Plane!Set(wire)
    BY <1>0, <1>3, <1>4 DEF Once
  <2>2. QED  BY <1>0, <1>1, <1>4, <2>1 DEF Once, Distinct, Plane!Set
<1>10. ASSUME NEW n \in Nat  PROVE Counted(n)'
  <2> DEFINE m == Plane!Handoff(n)
  <2>1. m # m0  BY <1>2, HandoffIsMessage
  <2>2. /\ Pushed(m)' <=> Pushed(m)
        /\ Polled(m)' <=> Polled(m)
        /\ Open(m)' <=> Open(m)
        /\ queue' = queue
    BY <1>1, <1>4, <2>1 DEF Pushed, Polled, Plane!Set
  <2>3. QED  BY <1>1, <2>2, CountedLess
<1>11. Kept'
  <2>1. \A m : /\ Out(m)' <=> Out(m)
               /\ Pushed(m) => Pushed(m)'
    BY <1>1, <1>4 DEF Out, Pushed, Plane!Set
  <2>2. \A m \in Messages : m.kind = "voice" /\ Matters(m)' => Waits(m)'
    BY <1>1, <1>2 DEF Matters, Waits
  <2>3. \A m \in Messages : m.kind = "handoff" =>
           Matters(m) /\ (Waits(m) => Waits(m)') /\ (Known(m)' => Known(m))
    BY <1>1, <1>2 DEF Matters, Waits, Known, Plane!Set
  <2>4. \A r \in posts' : r.message \in Messages /\ (r \in posts \/ r.message = m0)
    BY <1>2, <1>4 DEF Posts
  <2>5. \A r \in posts' : r.state = "sent" => Out(r.message)' \/ r.message \in Plane!Set(wire)'
    BY <1>0, <1>1, <1>4, <2>1 DEF Kept, Plane!Set
  <2>6. \A r \in posts' : Matters(r.message)' => Waits(r.message)' \/ Out(r.message)'
    <3> SUFFICES ASSUME NEW r \in posts', Matters(r.message)'
                 PROVE  Waits(r.message)' \/ Out(r.message)'
      OBVIOUS
    <3>1. CASE r.message.kind = "voice"  BY <2>2, <2>4, <3>1
    <3>2. CASE r.message.kind = "handoff"
      BY <1>0, <1>2, <2>1, <2>3, <2>4, <3>2 DEF Kept
    <3>3. QED  BY <2>4, <3>1, <3>2, MessageIsNamed
  <2>7. ASSUME NEW m \in Messages, 1 <= m.id, Known(m)', Matters(m)'
        PROVE  Waits(m)' \/ Out(m)' \/ Pushed(m)'
    <3>1. CASE m.kind = "voice"  BY <2>2, <2>7, <3>1
    <3>2. CASE m.kind = "handoff"  BY <1>0, <2>1, <2>3, <2>7, <3>2 DEF Kept
    <3>3. QED  BY <3>1, <3>2, MessageIsNamed
  <2>8. QED  BY <2>5, <2>6, <2>7 DEF Kept
<1>12. QED  BY <1>6, <1>8, <1>9, <1>10, <1>11 DEF ControlInv

LEMMA ControlInitInv == Plane!ControlInit => ControlInv
<1> SUFFICES ASSUME Plane!ControlInit  PROVE ControlInv
  OBVIOUS
<1>1. /\ queue = <<>> /\ slot = 0 /\ posts = {} /\ posted = [handoff |-> 0, voice |-> 0]
      /\ relay = FALSE /\ wire = <<>> /\ answers = <<>> /\ shown = <<>>
      /\ gone = {} /\ crossed = {}
  BY DEF Plane!ControlInit
<1>2. /\ Plane!Set(queue) = {} /\ Plane!Set(wire) = {} /\ Plane!Set(answers) = {}
      /\ Plane!Set(shown) = {}
      /\ Distinct(queue) /\ Distinct(wire) /\ Distinct(answers)
      /\ queue \in Seq(Nat) /\ wire \in Seq(Messages) /\ answers \in Seq(Messages)
      /\ shown \in Seq(Messages) /\ Len(queue) = 0
  BY <1>1, NothingInEmpty
<1>3. ControlTypes
  <2>1. posted \in [handoff : Nat, voice : Nat] /\ posted.handoff = 0 /\ posted.voice = 0
    BY <1>1
  <2>2. slot = 0 /\ posts \in SUBSET Posts /\ relay \in BOOLEAN  BY <1>1
  <2>3. 0 <= MaxHandoffs /\ 0 <= Handoffs /\ 0 <= Voices  BY ServicesAssumption
  <2>4. QED  BY <1>2, <2>1, <2>2, <2>3 DEF ControlTypes
<1>4. AllKnown /\ Once  BY <1>1, <1>2 DEF AllKnown, Once
<1>5. ASSUME NEW n \in Nat  PROVE Counted(n)
  <2>1. Plane!Times(Plane!Handoff(n)) = 0  BY <1>2, TimesIsCount, CountIsNat
  <2>2. QED  BY <1>1, <1>2, <2>1 DEF Counted, Fits, One, Pushed, Sending, Polled
<1>6. Kept
  <2>1. \A m \in Messages : ~(1 <= m.id /\ Known(m))
    <3>1. \A m \in Messages : posted[m.kind] = 0 /\ m.id \in Nat  BY <1>1 DEF Messages
    <3>2. QED  BY <3>1 DEF Known
  <2>2. QED  BY <1>1, <2>1 DEF Kept
<1>7. QED  BY <1>3, <1>4, <1>5, <1>6 DEF ControlInv

LEMMA ControlStepKeeps == ControlInv /\ Plane!ControlNext => ControlInv'
BY PostHandoffKeeps, PostVoiceStateKeeps, SentKeeps, SendFailsKeeps, AnswerPostKeeps,
   AgentPollKeeps, ShowPushedKeeps, ShowPolledKeeps, LosePollKeeps, RelayKeeps
   DEF Plane!ControlNext

LEMMA ControlVarsStay == ControlInv /\ UNCHANGED planeVars => ControlInv'
<1> SUFFICES ASSUME ControlInv, UNCHANGED planeVars  PROVE ControlInv'
  OBVIOUS
<1>0. ControlTypes /\ AllKnown /\ Once /\ Kept  BY DEF ControlInv
<1>1. UNCHANGED <<queue, slot, posts, posted, relay, wire, answers, shown, gone, crossed>>
  BY DEF planeVars
<1>2. ControlTypes' /\ AllKnown' /\ Once'
  BY <1>0, <1>1 DEF ControlTypes, AllKnown, Known, Once, Distinct, Plane!Set
<1>3. \A m : /\ Pushed(m)' <=> Pushed(m)
             /\ Polled(m)' <=> Polled(m)
             /\ Open(m)' <=> Open(m)
             /\ Out(m)' <=> Out(m)
             /\ Waits(m)' <=> Waits(m)
  BY <1>1 DEF Pushed, Sending, Polled, Open, Out, Waits, Plane!Set
<1>4. \A n \in Nat : Counted(n)'  BY <1>1, <1>3, CountedLess
<1>5. Kept'  BY <1>0, <1>1, <1>3, KeptStays
<1>6. QED  BY <1>2, <1>4, <1>5 DEF ControlInv

LEMMA ControlsAreSafe == ControlInv => Plane!ControlSafe
<1> SUFFICES ASSUME ControlInv  PROVE Plane!ControlSafe
  OBVIOUS
<1>0. ControlTypes /\ AllKnown /\ Once /\ Kept /\ posted.handoff \in Nat /\ posted.voice \in Nat
  BY DEF ControlInv, ControlTypes
<1>1. Plane!ControlTypeOK  BY <1>0 DEF ControlTypes, Plane!ControlTypeOK
<1>2. Plane!ShownTwiceOnlyIfCrossed
  <2> SUFFICES ASSUME NEW n \in 1 .. Handoffs
               PROVE  Plane!Times(Plane!Handoff(n))
                        <= IF Plane!Handoff(n) \in crossed THEN 2 ELSE 1
    BY DEF Plane!ShownTwiceOnlyIfCrossed
  <2>0. n \in Nat  BY ServicesAssumption
  <2>1. Counted(n) /\ Plane!Times(Plane!Handoff(n)) \in Nat
    BY <1>0, <2>0, TimesIsCount, CountIsNat DEF ControlInv, ControlTypes
  <2>2. QED  BY <2>1 DEF Counted, Fits, One
<1>3. Plane!HandoffsKept
  <2> SUFFICES ASSUME NEW n \in 1 .. posted.handoff
               PROVE  \/ n \in Plane!Set(queue)
                      \/ Out(Plane!Handoff(n)) \/ Pushed(Plane!Handoff(n))
    BY DEF Plane!HandoffsKept, Out, Pushed, Sending
  <2>1. n \in Nat /\ 1 <= n /\ n <= posted.handoff  BY <1>0
  <2>2. Known(Plane!Handoff(n)) /\ Matters(Plane!Handoff(n))
    BY <2>1, HandoffIsMessage DEF Known, Matters
  <2>3. QED  BY <1>0, <2>1, <2>2, HandoffIsMessage DEF Kept, Waits
<1>4. Plane!NewestVoiceKept
  <2> DEFINE n == posted.voice
  <2> SUFFICES ASSUME n > 0
               PROVE  slot = n \/ Out(Plane!Voice(n)) \/ Pushed(Plane!Voice(n))
    BY DEF Plane!NewestVoiceKept, Out, Pushed, Sending
  <2>1. n \in Nat /\ 1 <= n  BY <1>0
  <2>2. Known(Plane!Voice(n)) /\ Matters(Plane!Voice(n))
    BY <2>1, HandoffIsMessage DEF Known, Matters
  <2>3. QED  BY <1>0, <2>1, <2>2, HandoffIsMessage DEF Kept, Waits
<1>5. QED  BY <1>1, <1>2, <1>3, <1>4 DEF Plane!ControlSafe
-----------------------------------------------------------------------------
(* The companion window (Companion.tla).                                   *)

FaceNames == {"idle", "working", "searching", "happy", "error", "listening", "speaking"}
Busy == {"plain", "look", "input", "dwell"}
Agents == {"starting", "idle", "stopping", "dead"} \cup Busy
\* The lines an agent that runs writes.
Lines ==
    {Overlay!Effect, Overlay!Settle, Overlay!Quit}
      \cup {Overlay!Target(p) : p \in Places} \cup {Overlay!Point(p) : p \in Places}
      \cup {Overlay!Speaking(on) : on \in BOOLEAN} \cup {Overlay!Face(x) : x \in FaceNames}

IsView(v) ==
    /\ v = [face |-> v.face, left |-> v.left, speaking |-> v.speaking, queue |-> v.queue,
            hold |-> v.hold, quiet |-> v.quiet, at |-> v.at, goal |-> v.goal,
            moving |-> v.moving, steps |-> v.steps]
    /\ v.queue \in Seq(Places) /\ v.speaking \in BOOLEAN /\ v.steps \in Nat
    /\ v.moving \in {"no", "flight", "path"} /\ (v.moving = "no") = (v.steps = 0)

OverlayTypes ==
    /\ agent \in Agents /\ track \in Places \cup {Unknown} /\ child \in {"none", "alive", "gone"}
    /\ pipe \in Seq(Lines \cup {Overlay!EndOfPipe}) /\ inbox \in Seq(Lines)
    /\ agent # "dead" => pipe \in Seq(Lines)
    /\ Len(inbox) <= InboxSize
    /\ IsView(view) /\ (view.speaking => view.face = "speaking")
    /\ missed \in BOOLEAN /\ won \in BOOLEAN

\* Of the messages of some types, the last one in a sequence is one of these; or there is
\* none.
Ends(s, types, good) ==
    \E j \in DOMAIN s : /\ s[j].type \in types /\ s[j] \in good
                        /\ \A k \in DOMAIN s : k > j => s[k].type \notin types
Silent(s, types) == \A k \in DOMAIN s : s[k].type \notin types

\* What the last face should be, and where the last of the pointer's messages should
\* leave it.
GoodFace(x) == (x \in Overlay!Persistent => agent \in Busy) /\ (x = "happy" => won)
GoodFaces == {Overlay!Face(x) : x \in {f \in FaceNames : GoodFace(f)}}
Pointing == {"settle", "target", "point"}
GoodPoints ==
    {m \in {Overlay!Settle, Overlay!Target(track), Overlay!Point(track)} :
        m = Overlay!Settle \/ track # Unknown}
Pointed(v) ==
    IF track = Unknown THEN v.goal = Home /\ v.queue = <<>>
    ELSE IF v.queue = <<>> THEN v.goal \in {track, Home}
    ELSE v.queue[Len(v.queue)] = track

\* What the window will show once everything sent has been heard.
FaceComes ==
    \/ Ends(pipe, {"face"}, GoodFaces)
    \/ /\ Silent(pipe, {"face"})
       /\ Ends(inbox, {"face"}, GoodFaces) \/ (Silent(inbox, {"face"}) /\ GoodFace(view.face))
PointComes ==
    \/ Ends(pipe, Pointing, GoodPoints)
    \/ /\ Silent(pipe, Pointing)
       /\ Ends(inbox, Pointing, GoodPoints) \/ (Silent(inbox, Pointing) /\ Pointed(view))

Live == child = "alive" /\ ~missed /\ agent # "dead"
OverlayInv == OverlayTypes /\ (Live => FaceComes /\ PointComes)
-----------------------------------------------------------------------------
LEMMA LeastNumber ==
    ASSUME NEW T, T \subseteq Nat, T # {}
    PROVE  \E x \in T : \A y \in T : x <= y
<1> DEFINE R == OpToRel(<, Nat)
<1>1. IsWellFoundedOn(R, Nat)  BY NatLessThanWellFounded
<1>2. \A x, y \in Nat : x < y => <<x, y>> \in R  BY DEF OpToRel
<1> HIDE DEF R
<1>3. PICK x \in T : \A y \in T : ~ (<<y, x>> \in R)  BY <1>1, WFMin
<1>4. \A y \in T : ~(y < x)  BY <1>2, <1>3
<1>5. QED  BY <1>4

\* Induction along the messages of a tick.
LEMMA UpTo ==
    ASSUME NEW L \in Nat, NEW n0 \in 0 .. L, NEW S, n0 \in S,
           \A n \in n0 .. L : n \in S /\ n < L => n + 1 \in S
    PROVE  \A n \in n0 .. L : n \in S
<1> SUFFICES ASSUME NEW b \in n0 .. L, b \notin S  PROVE FALSE
  OBVIOUS
<1> DEFINE T == {n \in n0 .. L : n \notin S}
<1>1. T \subseteq Nat /\ b \in T  OBVIOUS
<1>2. PICK x \in T : \A y \in T : x <= y  BY <1>1, LeastNumber
<1>3. x # n0 /\ x \in n0 .. L  OBVIOUS
<1>4. x - 1 \in n0 .. L /\ x - 1 < L /\ ~(x <= x - 1) /\ (x - 1) + 1 = x  BY <1>3
<1>5. x - 1 \in S  BY <1>2, <1>4
<1>6. QED  BY <1>2, <1>4, <1>5

\* The messages of a tick are obeyed one after the other.
LEMMA ObeysInOrder ==
    ASSUME NEW T, NEW s \in Seq(T), NEW v
    PROVE  \E f : /\ f[0] = v /\ Overlay!ObeyAll(v, s) = f[Len(s)]
                  /\ \A n \in 1 .. Len(s) : f[n] = Overlay!Obey(f[n - 1], s[n])
<1> DEFINE L == Len(s)
           IsRun(g, n) ==
               g = [i \in 0 .. n |-> IF i = 0 THEN v ELSE Overlay!Obey(g[i - 1], s[i])]
           S == {n \in 0 .. L : \E g : IsRun(g, n)}
<1>1. L \in Nat  OBVIOUS
<1>2. 0 \in S
  <2>1. IsRun([i \in 0 .. 0 |-> v], 0)  OBVIOUS
  <2>2. 0 \in 0 .. L  BY <1>1
  <2>3. QED  BY <2>1, <2>2
<1>3. ASSUME NEW n \in 0 .. L, n \in S, n < L  PROVE n + 1 \in S
  <2>1. PICK g : IsRun(g, n)  BY <1>3
  <2>2. n \in Nat /\ n + 1 \in 0 .. L  BY <1>1, <1>3
  <2> DEFINE h == [i \in 0 .. n + 1 |-> IF i = n + 1 THEN Overlay!Obey(g[n], s[n + 1]) ELSE g[i]]
  <2>3. \A i \in 0 .. n : g[i] = IF i = 0 THEN v ELSE Overlay!Obey(g[i - 1], s[i])
    BY <2>1
  <2>4. \A i \in 0 .. n : h[i] = g[i]
    <3>1. \A i \in 0 .. n : i \in 0 .. n + 1 /\ i # n + 1  BY <2>2
    <3>2. QED  BY <3>1
  <2>5. h[n + 1] = Overlay!Obey(h[n], s[n + 1])
    <3>1. n + 1 \in 0 .. n + 1 /\ n \in 0 .. n  BY <2>2
    <3>2. QED  BY <2>4, <3>1
  <2> DEFINE k == [i \in 0 .. n + 1 |-> IF i = 0 THEN v ELSE Overlay!Obey(h[i - 1], s[i])]
  <2>6. \A i \in 0 .. n + 1 : h[i] = k[i]
    <3> SUFFICES ASSUME NEW i \in 0 .. n + 1  PROVE h[i] = k[i]
      OBVIOUS
    <3>1. CASE i = n + 1
      <4>1. i # 0 /\ i - 1 = n  BY <2>2, <3>1
      <4>2. k[i] = Overlay!Obey(h[n], s[n + 1])  BY <3>1, <4>1
      <4>3. QED  BY <2>5, <3>1, <4>2
    <3>2. CASE i # n + 1
      <4>1. i \in 0 .. n  BY <2>2, <3>2
      <4>2. i # 0 => i - 1 \in 0 .. n  BY <2>2, <4>1
      <4>3. h[i] = g[i] /\ (i # 0 => h[i - 1] = g[i - 1])  BY <2>4, <4>1, <4>2
      <4>4. k[i] = IF i = 0 THEN v ELSE Overlay!Obey(g[i - 1], s[i])
        <5>1. CASE i = 0  BY <5>1
        <5>2. CASE i # 0
          <6>1. k[i] = Overlay!Obey(h[i - 1], s[i])  BY <5>2
          <6>2. QED  BY <4>3, <5>2, <6>1
        <5>3. QED  BY <5>1, <5>2
      <4>5. QED  BY <2>3, <4>1, <4>3, <4>4
    <3>3. QED  BY <3>1, <3>2
  <2>7. h = [i \in 0 .. n + 1 |-> h[i]] /\ k = [i \in 0 .. n + 1 |-> k[i]]  OBVIOUS
  <2> HIDE DEF h
  <2>8. h = k
    <3> HIDE DEF k
    <3>1. QED  BY <2>6, <2>7
  <2>9. IsRun(h, n + 1)  BY <2>8
  <2>10. QED  BY <2>2, <2>9
<1> HIDE DEF S
<1>4. L \in S
  <2>1. 0 \in 0 .. L /\ L \in 0 .. L  BY <1>1
  <2>2. QED  BY <1>1, <1>2, <1>3, <2>1, UpTo
<1>5. PICK g : IsRun(g, L)  BY <1>4 DEF S
<1> DEFINE f == CHOOSE r : IsRun(r, L)
<1>6. IsRun(f, L)  BY <1>5
<1>7. Overlay!ObeyAll(v, s) = f[L]  BY DEF Overlay!ObeyAll
<1> HIDE DEF f
<1>8. \A i \in 0 .. L : f[i] = IF i = 0 THEN v ELSE Overlay!Obey(f[i - 1], s[i])
  BY <1>6
<1>9. f[0] = v  BY <1>1, <1>8
<1>10. \A n \in 1 .. L : n \in 0 .. L /\ n # 0  BY <1>1
<1>11. \A n \in 1 .. L : f[n] = Overlay!Obey(f[n - 1], s[n])  BY <1>8, <1>10
<1>12. QED  BY <1>7, <1>9, <1>11

LEMMA OneLine ==
    ASSUME NEW m, NEW types, NEW good
    PROVE  /\ m.type \in types /\ m \in good => Ends(<<m>>, types, good)
           /\ m.type \notin types => Silent(<<m>>, types)
           /\ Silent(<<>>, types)
<1>1. DOMAIN <<m>> = {1} /\ <<m>>[1] = m /\ DOMAIN <<>> = {}  OBVIOUS
<1>2. QED  BY <1>1 DEF Ends, Silent

LEMMA EndsConcat ==
    ASSUME NEW T, NEW s \in Seq(T), NEW t \in Seq(T), NEW types, NEW good
    PROVE  /\ s \o t \in Seq(T)
           /\ Ends(t, types, good) => Ends(s \o t, types, good)
           /\ Ends(s, types, good) /\ Silent(t, types) => Ends(s \o t, types, good)
           /\ Silent(s, types) /\ Silent(t, types) => Silent(s \o t, types)
<1> DEFINE c == s \o t
<1>1. /\ DOMAIN s = 1 .. Len(s) /\ Len(s) \in Nat /\ DOMAIN t = 1 .. Len(t) /\ Len(t) \in Nat
      /\ c \in Seq(T) /\ DOMAIN c = 1 .. Len(s) + Len(t)
      /\ \A i \in 1 .. Len(s) + Len(t) :
            c[i] = IF i <= Len(s) THEN s[i] ELSE t[i - Len(s)]
  BY ConcatProperties
<1> HIDE DEF c
<1>2. \A i \in DOMAIN c : \/ i \in DOMAIN s /\ c[i] = s[i]
                          \/ /\ i - Len(s) \in DOMAIN t /\ c[i] = t[i - Len(s)]
                             /\ \A j \in DOMAIN s : j < i
  BY <1>1
<1>3. \A j \in DOMAIN t : j + Len(s) \in DOMAIN c /\ c[j + Len(s)] = t[j]
  <2> SUFFICES ASSUME NEW j \in DOMAIN t
               PROVE  j + Len(s) \in DOMAIN c /\ c[j + Len(s)] = t[j]
    OBVIOUS
  <2>1. j + Len(s) \in 1 .. Len(s) + Len(t) /\ ~(j + Len(s) <= Len(s))
        /\ (j + Len(s)) - Len(s) = j
    BY <1>1
  <2>2. QED  BY <1>1, <2>1
<1>4. \A j \in DOMAIN s : j \in DOMAIN c /\ c[j] = s[j]
  <2>1. \A j \in 1 .. Len(s) : j \in 1 .. Len(s) + Len(t) /\ j <= Len(s)  BY <1>1
  <2>2. QED  BY <1>1, <2>1
<1>5. ASSUME Ends(t, types, good)  PROVE Ends(c, types, good)
  <2>1. PICK j \in DOMAIN t : /\ t[j].type \in types /\ t[j] \in good
                              /\ \A k \in DOMAIN t : k > j => t[k].type \notin types
    BY <1>5 DEF Ends
  <2>2. \A k \in DOMAIN c : k > j + Len(s) => c[k].type \notin types
    <3> SUFFICES ASSUME NEW k \in DOMAIN c, k > j + Len(s)  PROVE c[k].type \notin types
      OBVIOUS
    <3>1. k - Len(s) \in DOMAIN t /\ c[k] = t[k - Len(s)] /\ k - Len(s) > j  BY <1>1
    <3>2. QED  BY <2>1, <3>1
  <2>3. QED  BY <1>3, <2>1, <2>2 DEF Ends
<1>6. ASSUME Ends(s, types, good), Silent(t, types)  PROVE Ends(c, types, good)
  <2>1. PICK j \in DOMAIN s : /\ s[j].type \in types /\ s[j] \in good
                              /\ \A k \in DOMAIN s : k > j => s[k].type \notin types
    BY <1>6 DEF Ends
  <2>2. \A k \in DOMAIN c : k > j => c[k].type \notin types
    BY <1>2, <1>6, <2>1 DEF Silent
  <2>3. QED  BY <1>4, <2>1, <2>2 DEF Ends
<1>7. ASSUME Silent(s, types), Silent(t, types)  PROVE Silent(c, types)
  BY <1>2, <1>7 DEF Silent
<1>8. QED  BY <1>1, <1>5, <1>6, <1>7 DEF c

\* The reader thread takes the first line of the pipe.
LEMMA EndsTail ==
    ASSUME NEW T, NEW s \in Seq(T), s # <<>>, NEW types, NEW good
    PROVE  /\ Head(s) \in T /\ Tail(s) \in Seq(T)
           /\ Ends(s, types, good) =>
                 \/ Ends(Tail(s), types, good)
                 \/ Silent(Tail(s), types) /\ Head(s).type \in types /\ Head(s) \in good
           /\ Silent(s, types) => Silent(Tail(s), types) /\ Head(s).type \notin types
<1> DEFINE r == Tail(s)
<1>1. /\ DOMAIN s = 1 .. Len(s) /\ Len(s) \in Nat \ {0} /\ Head(s) = s[1] /\ Head(s) \in T
      /\ r \in Seq(T) /\ DOMAIN r = 1 .. Len(s) - 1
      /\ \A i \in 1 .. Len(s) - 1 : r[i] = s[i + 1]
  <2>1. Len(s) \in Nat /\ Len(s) # 0 /\ DOMAIN s = 1 .. Len(s)  BY EmptySeq
  <2>2. /\ r \in Seq(T) /\ Len(r) = Len(s) - 1
        /\ \A i \in 1 .. Len(r) : r[i] = s[i + 1]
        /\ Head(s) = s[1] /\ Head(s) \in T
    BY HeadTailProperties, ElementOfSeq, <2>1
  <2>3. DOMAIN r = 1 .. Len(r)  BY <2>2
  <2>4. QED  BY <2>1, <2>2, <2>3
<1> HIDE DEF r
<1>2. \A i \in DOMAIN r : i + 1 \in DOMAIN s /\ r[i] = s[i + 1]  BY <1>1
<1>3. ASSUME Ends(s, types, good)
      PROVE  \/ Ends(r, types, good)
             \/ Silent(r, types) /\ Head(s).type \in types /\ Head(s) \in good
  <2>1. PICK j \in DOMAIN s : /\ s[j].type \in types /\ s[j] \in good
                              /\ \A k \in DOMAIN s : k > j => s[k].type \notin types
    BY <1>3 DEF Ends
  <2>2. CASE j = 1
    <3>1. \A i \in DOMAIN r : i + 1 > 1  BY <1>1
    <3>2. QED  BY <1>1, <1>2, <2>1, <2>2, <3>1 DEF Silent
  <2>3. CASE j # 1
    <3>1. j - 1 \in DOMAIN r /\ r[j - 1] = s[j]
      <4>1. j - 1 \in 1 .. Len(s) - 1 /\ (j - 1) + 1 = j  BY <1>1, <2>3
      <4>2. QED  BY <1>1, <4>1
    <3>2. \A k \in DOMAIN r : k > j - 1 => r[k].type \notin types
      <4>1. \A k \in DOMAIN r : k > j - 1 => k + 1 > j  BY <1>1
      <4>2. QED  BY <1>2, <2>1, <4>1
    <3>3. QED  BY <2>1, <3>1, <3>2 DEF Ends
  <2>4. QED  BY <2>2, <2>3
<1>4. ASSUME Silent(s, types)  PROVE Silent(r, types) /\ Head(s).type \notin types
  <2>1. 1 \in DOMAIN s  BY <1>1
  <2>2. QED  BY <1>1, <1>2, <1>4, <2>1 DEF Silent
<1>5. QED  BY <1>1, <1>3, <1>4 DEF r

LEMMA LineKinds ==
    \A m \in Lines :
       /\ m.type \in {"effect", "settle", "quit", "target", "point", "speaking", "face"}
       /\ m.type = "settle" => m = Overlay!Settle
       /\ m.type \in {"target", "point"} => m.arg \in Places
       /\ m.type = "speaking" => m.arg \in BOOLEAN
BY DEF Lines, Overlay!Effect, Overlay!Settle, Overlay!Quit, Overlay!Target, Overlay!Point,
       Overlay!Speaking, Overlay!Face, Overlay!Message

\* What one message does to the face and to the pointer.
LEMMA ObeyDoes ==
    ASSUME NEW v, IsView(v), NEW m \in Lines, m.type # "quit"
    PROVE  LET w == Overlay!Obey(v, m) IN
           /\ IsView(w)
           /\ w.face = IF m.type = "face" THEN m.arg ELSE v.face
           /\ m.type \notin Pointing => w.goal = v.goal /\ w.queue = v.queue
           /\ m.type = "settle" => w.goal = Home /\ w.queue = <<>>
           /\ m.type = "target" => w.goal = m.arg /\ w.queue = <<>>
           /\ m.type = "point" => w.queue = Append(v.queue, m.arg)
<1> DEFINE w == Overlay!Obey(v, m)
<1>1. FlightTicks \in Nat \ {0} /\ v.queue \in Seq(Places)  BY ServicesAssumption DEF IsView
<1>2. CASE m.type = "settle"
  <2>1. w = [v EXCEPT !.goal = Home, !.moving = "path", !.steps = FlightTicks, !.queue = <<>>]
    BY <1>2 DEF Overlay!Obey, Overlay!GoHome, Overlay!Dock, IsView
  <2>2. /\ w.goal = Home /\ w.queue = <<>> /\ w.face = v.face /\ w.speaking = v.speaking
        /\ w.moving = "path" /\ w.steps = FlightTicks
    BY <2>1 DEF IsView
  <2>3. IsView(w)
    <3>1. w = [face |-> w.face, left |-> w.left, speaking |-> w.speaking, queue |-> w.queue,
               hold |-> w.hold, quiet |-> w.quiet, at |-> w.at, goal |-> w.goal,
               moving |-> w.moving, steps |-> w.steps]
      BY <2>1 DEF IsView
    <3>2. w.queue \in Seq(Places)  BY <2>2
    <3>3. w.steps \in Nat /\ w.steps # 0 /\ w.moving \in {"flight", "path"}  BY <1>1, <2>2
    <3>4. (w.moving = "no") = (w.steps = 0)  BY <3>3
    <3>5. w.speaking \in BOOLEAN  BY <2>2 DEF IsView
    <3> HIDE DEF w
    <3>6. QED  BY <3>1, <3>2, <3>3, <3>4, <3>5 DEF IsView
  <2>4. QED  BY <1>2, <2>2, <2>3 DEF Pointing
<1>3. CASE m.type = "target"
  <2>1. w = [v EXCEPT !.goal = m.arg, !.moving = "flight", !.steps = FlightTicks,
                      !.queue = <<>>]
    BY <1>3 DEF Overlay!Obey, Overlay!Launch, Overlay!TakeControl, IsView
  <2>2. /\ w.goal = m.arg /\ w.queue = <<>> /\ w.face = v.face /\ w.speaking = v.speaking
        /\ w.moving = "flight" /\ w.steps = FlightTicks
    BY <2>1 DEF IsView
  <2>3. IsView(w)
    <3>1. w = [face |-> w.face, left |-> w.left, speaking |-> w.speaking, queue |-> w.queue,
               hold |-> w.hold, quiet |-> w.quiet, at |-> w.at, goal |-> w.goal,
               moving |-> w.moving, steps |-> w.steps]
      BY <2>1 DEF IsView
    <3>2. w.queue \in Seq(Places)  BY <2>2
    <3>3. w.steps \in Nat /\ w.steps # 0 /\ w.moving \in {"flight", "path"}  BY <1>1, <2>2
    <3>4. (w.moving = "no") = (w.steps = 0)  BY <3>3
    <3>5. w.speaking \in BOOLEAN  BY <2>2 DEF IsView
    <3> HIDE DEF w
    <3>6. QED  BY <3>1, <3>2, <3>3, <3>4, <3>5 DEF IsView
  <2>4. QED  BY <1>3, <2>2, <2>3 DEF Pointing
<1>4. CASE m.type = "point"
  <2>1. w = [v EXCEPT !.queue = Append(v.queue, m.arg)]
    BY <1>4 DEF Overlay!Obey, Overlay!ChoreoPoint, IsView
  <2>2. Append(v.queue, m.arg) \in Seq(Places)
    BY <1>1, <1>4, LineKinds, AppendProperties
  <2>3. QED  BY <1>4, <2>1, <2>2 DEF IsView, Pointing
<1>5. CASE m.type = "speaking"
  <2>1. m.arg \in BOOLEAN  BY <1>5, LineKinds
  <2>2. PICK q : w = [v EXCEPT !.speaking = m.arg, !.quiet = q]
    BY <1>5 DEF Overlay!Obey, Overlay!SetSpeaking, IsView
  <2>3. QED  BY <1>5, <2>1, <2>2 DEF IsView, Pointing
<1>6. CASE m.type = "face"
  <2>1. PICK l : w = [v EXCEPT !.face = m.arg, !.left = l]
    BY <1>6 DEF Overlay!Obey, Overlay!FaceApply, IsView
  <2>2. QED  BY <1>6, <2>1 DEF IsView, Pointing
<1>7. CASE m.type = "effect"
  <2>1. w = v  BY <1>7 DEF Overlay!Obey
  <2>2. QED  BY <1>7, <2>1 DEF Pointing
<1>8. QED  BY <1>2, <1>3, <1>4, <1>5, <1>6, <1>7, LineKinds

LEMMA ObeyPoints ==
    ASSUME NEW v, IsView(v), NEW m \in Lines, m.type # "quit",
           \/ m.type \in Pointing /\ m \in GoodPoints
           \/ m.type \notin Pointing /\ Pointed(v)
    PROVE  Pointed(Overlay!Obey(v, m))
<1> DEFINE w == Overlay!Obey(v, m)
<1>1. /\ m.type \notin Pointing => w.goal = v.goal /\ w.queue = v.queue
      /\ m.type = "settle" => w.goal = Home /\ w.queue = <<>>
      /\ m.type = "target" => w.goal = m.arg /\ w.queue = <<>>
      /\ m.type = "point" => w.queue = Append(v.queue, m.arg)
  BY ObeyDoes
<1> SUFFICES Pointed(w)
  OBVIOUS
<1> HIDE DEF w
<1>2. CASE m.type \notin Pointing  BY <1>1, <1>2 DEF Pointed
<1>3. CASE m.type = "settle"  BY <1>1, <1>3 DEF Pointed
<1>4. CASE m.type \in {"target", "point"}
  <2>1. m \in GoodPoints /\ track # Unknown /\ m.arg = track
    BY <1>4 DEF GoodPoints, Pointing, Overlay!Settle, Overlay!Target, Overlay!Point,
                Overlay!Message
  <2>2. CASE m.type = "target"  BY <1>1, <2>1, <2>2 DEF Pointed
  <2>3. CASE m.type = "point"
    <3>1. v.queue \in Seq(Places) /\ m.arg \in Places  BY <2>3, LineKinds DEF IsView
    <3>2. /\ w.queue = Append(v.queue, m.arg) /\ Len(w.queue) = Len(v.queue) + 1
          /\ w.queue[Len(v.queue) + 1] = m.arg /\ w.queue # <<>>
      <4>1. w.queue = Append(v.queue, m.arg)  BY <1>1, <2>3
      <4>2. /\ Append(v.queue, m.arg) # <<>>
            /\ Len(Append(v.queue, m.arg)) = Len(v.queue) + 1
            /\ Append(v.queue, m.arg)[Len(v.queue) + 1] = m.arg
        BY <3>1, AppendProperties
      <4>3. QED  BY <4>1, <4>2
    <3>3. QED  BY <2>1, <3>2 DEF Pointed
  <2>4. QED  BY <1>4, <2>2, <2>3
<1>5. QED  BY <1>2, <1>3, <1>4 DEF Pointing

\* The messages of a tick leave the face and the pointer as the last of them says.
LEMMA ObeyAllDoes ==
    ASSUME NEW v, IsView(v), NEW s \in Seq(Lines), \A i \in DOMAIN s : s[i].type # "quit"
    PROVE  LET w == Overlay!ObeyAll(v, s) IN
           /\ IsView(w)
           /\ Ends(s, {"face"}, GoodFaces) \/ (Silent(s, {"face"}) /\ GoodFace(v.face))
                 => GoodFace(w.face)
           /\ Ends(s, Pointing, GoodPoints) \/ (Silent(s, Pointing) /\ Pointed(v))
                 => Pointed(w)
<1>1. PICK f : /\ f[0] = v /\ Overlay!ObeyAll(v, s) = f[Len(s)]
               /\ \A n \in 1 .. Len(s) : f[n] = Overlay!Obey(f[n - 1], s[n])
  BY ObeysInOrder
<1> DEFINE L == Len(s)
<1>2. /\ L \in Nat /\ DOMAIN s = 1 .. L
      /\ \A n \in 1 .. L : s[n] \in Lines /\ s[n].type # "quit"
  OBVIOUS
<1>3. \A n \in 0 .. L : n < L => /\ n + 1 \in 1 .. L /\ n + 1 \in 0 .. L /\ n + 1 \in DOMAIN s
                                 /\ f[n + 1] = Overlay!Obey(f[n], s[n + 1])
  <2> SUFFICES ASSUME NEW n \in 0 .. L, n < L
               PROVE  n + 1 \in 1 .. L /\ n + 1 \in 0 .. L
                      /\ f[n + 1] = Overlay!Obey(f[n], s[n + 1])
    BY <1>2
  <2>1. n + 1 \in 1 .. L /\ n + 1 \in 0 .. L /\ (n + 1) - 1 = n  BY <1>2
  <2>2. QED  BY <1>1, <2>1
<1>4. 0 \in 0 .. L /\ L \in 0 .. L  BY <1>2
<1> HIDE DEF L
<1>5. \A n \in 0 .. L : IsView(f[n])
  <2> DEFINE S == {n \in 0 .. L : IsView(f[n])}
  <2>1. 0 \in S  BY <1>1, <1>4
  <2>2. ASSUME NEW n \in 0 .. L, n \in S, n < L  PROVE n + 1 \in S
    <3>1. IsView(Overlay!Obey(f[n], s[n + 1]))  BY <1>2, <1>3, <2>2, ObeyDoes
    <3>2. QED  BY <1>3, <2>2, <3>1
  <2> HIDE DEF S
  <2>3. \A n \in 0 .. L : n \in S  BY <1>2, <1>4, <2>1, <2>2, UpTo
  <2>4. QED  BY <2>3 DEF S
<1>6. ASSUME NEW n0 \in 0 .. L, GoodFace(f[n0].face),
             \A k \in DOMAIN s : k > n0 => s[k].type \notin {"face"}
      PROVE  GoodFace(f[L].face)
  <2> DEFINE S == {n \in n0 .. L : f[n].face = f[n0].face}
  <2>1. n0 \in S  BY <1>2
  <2>2. ASSUME NEW n \in n0 .. L, n \in S, n < L  PROVE n + 1 \in S
    <3>1. n \in 0 .. L /\ n + 1 > n0 /\ n + 1 \in n0 .. L  BY <1>2, <2>2
    <3>2. Overlay!Obey(f[n], s[n + 1]).face = f[n].face
      BY <1>2, <1>3, <1>5, <1>6, <2>2, <3>1, ObeyDoes
    <3>3. QED  BY <1>3, <2>2, <3>1, <3>2
  <2> HIDE DEF S
  <2>3. \A n \in n0 .. L : n \in S  BY <1>2, <2>1, <2>2, UpTo
  <2>4. L \in n0 .. L  BY <1>2
  <2>5. QED  BY <1>6, <2>3, <2>4 DEF S
<1>7. ASSUME NEW n0 \in 0 .. L, Pointed(f[n0]),
             \A k \in DOMAIN s : k > n0 => s[k].type \notin Pointing
      PROVE  Pointed(f[L])
  <2> DEFINE S == {n \in n0 .. L : Pointed(f[n])}
  <2>1. n0 \in S  BY <1>2, <1>7
  <2>2. ASSUME NEW n \in n0 .. L, n \in S, n < L  PROVE n + 1 \in S
    <3>1. n \in 0 .. L /\ n + 1 > n0 /\ n + 1 \in n0 .. L  BY <1>2, <2>2
    <3>2. Pointed(Overlay!Obey(f[n], s[n + 1]))
      BY <1>2, <1>3, <1>5, <1>7, <2>2, <3>1, ObeyPoints
    <3>3. QED  BY <1>3, <2>2, <3>1, <3>2
  <2> HIDE DEF S
  <2>3. \A n \in n0 .. L : n \in S  BY <1>2, <2>1, <2>2, UpTo
  <2>4. L \in n0 .. L  BY <1>2
  <2>5. QED  BY <2>3, <2>4 DEF S
<1>8. ASSUME NEW j \in DOMAIN s  PROVE /\ j \in 0 .. L /\ j - 1 \in 0 .. L
                                       /\ IsView(f[j - 1]) /\ f[j] = Overlay!Obey(f[j - 1], s[j])
                                       /\ s[j] \in Lines /\ s[j].type # "quit"
  <2>1. j \in 1 .. L /\ j \in 0 .. L /\ j - 1 \in 0 .. L  BY <1>2
  <2>2. QED  BY <1>1, <1>2, <1>5, <2>1 DEF L
<1>9. ASSUME Ends(s, {"face"}, GoodFaces) \/ (Silent(s, {"face"}) /\ GoodFace(v.face))
      PROVE  GoodFace(f[L].face)
  <2>1. CASE Ends(s, {"face"}, GoodFaces)
    <3>1. PICK j \in DOMAIN s : /\ s[j].type \in {"face"} /\ s[j] \in GoodFaces
                                /\ \A k \in DOMAIN s : k > j => s[k].type \notin {"face"}
      BY <2>1 DEF Ends
    <3>2. f[j].face = s[j].arg  BY <1>8, <3>1, ObeyDoes
    <3>3. GoodFace(s[j].arg)  BY <3>1 DEF GoodFaces, Overlay!Face, Overlay!Message
    <3>4. QED  BY <1>6, <1>8, <3>1, <3>2, <3>3
  <2>2. CASE Silent(s, {"face"}) /\ GoodFace(v.face)
    BY <1>1, <1>4, <1>6, <2>2 DEF Silent
  <2>3. QED  BY <1>9, <2>1, <2>2
<1>10. ASSUME Ends(s, Pointing, GoodPoints) \/ (Silent(s, Pointing) /\ Pointed(v))
       PROVE  Pointed(f[L])
  <2>1. CASE Ends(s, Pointing, GoodPoints)
    <3>1. PICK j \in DOMAIN s : /\ s[j].type \in Pointing /\ s[j] \in GoodPoints
                                /\ \A k \in DOMAIN s : k > j => s[k].type \notin Pointing
      BY <2>1 DEF Ends
    <3>2. Pointed(f[j])  BY <1>8, <3>1, ObeyPoints
    <3>3. QED  BY <1>7, <1>8, <3>1, <3>2
  <2>2. CASE Silent(s, Pointing) /\ Pointed(v)
    BY <1>1, <1>4, <1>7, <2>2 DEF Silent
  <2>3. QED  BY <1>10, <2>1, <2>2
<1>11. QED  BY <1>1, <1>4, <1>5, <1>9, <1>10 DEF L

LEMMA ViewFrom ==
    ASSUME NEW w,
           w = [face |-> w.face, left |-> w.left, speaking |-> w.speaking, queue |-> w.queue,
                hold |-> w.hold, quiet |-> w.quiet, at |-> w.at, goal |-> w.goal,
                moving |-> w.moving, steps |-> w.steps],
           w.queue \in Seq(Places), w.speaking \in BOOLEAN, w.steps \in Nat,
           \/ w.moving = "no" /\ w.steps = 0
           \/ w.moving \in {"flight", "path"} /\ w.steps # 0
    PROVE  IsView(w)
BY DEF IsView

\* The pointer moves on, or takes the next point of its tour.
LEMMA MoveDoes ==
    ASSUME NEW v, IsView(v)
    PROVE  LET w == Overlay!Move(v) IN
           /\ IsView(w) /\ w.face = v.face /\ (Pointed(v) => Pointed(w))
<1> DEFINE w == Overlay!Move(v)
           flown == v.steps > 1
<1>1. /\ FlightTicks \in Nat \ {0} /\ v.queue \in Seq(Places) /\ v.steps \in Nat
      /\ v.speaking \in BOOLEAN /\ v.moving \in {"no", "flight", "path"}
      /\ v.moving # "no" => v.steps # 0
      /\ v.moving = "no" => v.steps = 0
      /\ <<>> \in Seq(Places)
  BY ServicesAssumption DEF IsView
<1>2. CASE v.moving # "no" /\ flown
  <2>1. w = [v EXCEPT !.steps = v.steps - 1, !.at = Unknown]
    BY <1>2 DEF Overlay!Move, IsView
  <2>2. /\ w.face = v.face /\ w.goal = v.goal /\ w.queue = v.queue /\ w.speaking = v.speaking
        /\ w.moving = v.moving /\ w.steps = v.steps - 1
    BY <2>1 DEF IsView
  <2>3. w.steps \in Nat /\ w.steps # 0  BY <1>1, <1>2, <2>2
  <2>4. IsView(w)
    <3>1. w = [face |-> w.face, left |-> w.left, speaking |-> w.speaking, queue |-> w.queue,
               hold |-> w.hold, quiet |-> w.quiet, at |-> w.at, goal |-> w.goal,
               moving |-> w.moving, steps |-> w.steps]
      BY <2>1 DEF IsView
    <3> HIDE DEF w
    <3>2. QED  BY <1>1, <1>2, <2>2, <2>3, <3>1, ViewFrom
  <2> HIDE DEF w
  <2>5. QED  BY <2>2, <2>4 DEF Pointed, w
<1>3. CASE v.moving # "no" /\ ~flown
  <2>1. w = [v EXCEPT !.steps = 0, !.at = v.goal, !.moving = "no"]
    BY <1>3 DEF Overlay!Move, IsView
  <2>2. /\ w.face = v.face /\ w.goal = v.goal /\ w.queue = v.queue /\ w.speaking = v.speaking
        /\ w.moving = "no" /\ w.steps = 0
    BY <2>1 DEF IsView
  <2>3. IsView(w)
    <3>1. w = [face |-> w.face, left |-> w.left, speaking |-> w.speaking, queue |-> w.queue,
               hold |-> w.hold, quiet |-> w.quiet, at |-> w.at, goal |-> w.goal,
               moving |-> w.moving, steps |-> w.steps]
      BY <2>1 DEF IsView
    <3> HIDE DEF w
    <3>2. QED  BY <1>1, <2>2, <3>1, ViewFrom
  <2> HIDE DEF w
  <2>4. QED  BY <2>2, <2>3 DEF Pointed, w
<1>4. CASE v.moving = "no"
  <2>0. w = Overlay!ChoreoStep(v)  BY <1>4 DEF Overlay!Move
  <2> DEFINE Taken(h, q) ==
                w = [v EXCEPT !.goal = Head(v.queue), !.moving = "flight", !.steps = FlightTicks,
                              !.queue = Tail(v.queue), !.hold = h, !.quiet = q]
  <2>1. CASE w = v  BY <2>1
  <2>2. CASE v.queue # <<>> /\ \E h, q : Taken(h, q)
    <3>1. PICK h, q : Taken(h, q)  BY <2>2
    <3>2. /\ w.face = v.face /\ w.goal = Head(v.queue) /\ w.queue = Tail(v.queue)
          /\ w.speaking = v.speaking /\ w.moving = "flight" /\ w.steps = FlightTicks
      BY <3>1 DEF IsView
    <3>3. /\ Len(v.queue) \in Nat \ {0} /\ Tail(v.queue) \in Seq(Places)
          /\ Len(Tail(v.queue)) = Len(v.queue) - 1 /\ Head(v.queue) = v.queue[1]
          /\ \A i \in 1 .. Len(v.queue) - 1 : Tail(v.queue)[i] = v.queue[i + 1]
      <4>1. Len(v.queue) \in Nat /\ Len(v.queue) # 0  BY <1>1, <2>2, EmptySeq
      <4>2. QED  BY <1>1, <2>2, <4>1, HeadTailProperties
    <3>4. IsView(w)
      <4>1. w = [face |-> w.face, left |-> w.left, speaking |-> w.speaking, queue |-> w.queue,
                 hold |-> w.hold, quiet |-> w.quiet, at |-> w.at, goal |-> w.goal,
                 moving |-> w.moving, steps |-> w.steps]
        BY <3>1 DEF IsView
      <4> HIDE DEF w
      <4>2. QED  BY <1>1, <3>2, <3>3, <4>1, ViewFrom
    <3> HIDE DEF w
    <3>5. ASSUME Pointed(v)  PROVE Pointed(w)
      <4>1. track # Unknown /\ v.queue[Len(v.queue)] = track  BY <2>2, <3>5 DEF Pointed
      <4>a. PICK n \in Nat \ {0} : n = Len(v.queue)  BY <3>3
      <4>b. /\ w.queue \in Seq(Places) /\ Len(w.queue) = n - 1 /\ w.goal = v.queue[1]
            /\ \A i \in 1 .. n - 1 : w.queue[i] = v.queue[i + 1]
            /\ v.queue[n] = track
        BY <3>2, <3>3, <4>1, <4>a
      <4>2. CASE n = 1
        <5>1. w.goal = track  BY <4>b, <4>2
        <5>2. Len(w.queue) = 0  BY <4>b, <4>2
        <5>3. w.queue = <<>>  BY <4>b, <5>2, EmptySeq
        <5>4. QED  BY <4>1, <5>1, <5>3 DEF Pointed
      <4>3. CASE n # 1
        <5>1. n - 1 \in 1 .. n - 1 /\ (n - 1) + 1 = n /\ n - 1 # 0  BY <4>3
        <5>2. w.queue[n - 1] = track  BY <4>b, <5>1
        <5>3. w.queue # <<>>
          <6>1. Len(w.queue) # 0  BY <4>b, <5>1
          <6>2. QED  BY <4>b, <6>1, EmptySeq
        <5>4. w.queue[Len(w.queue)] = track  BY <4>b, <5>2
        <5>5. QED  BY <4>1, <5>3, <5>4 DEF Pointed
      <4>4. QED  BY <4>2, <4>3
    <3>6. QED  BY <3>2, <3>4, <3>5 DEF w
  <2>3. CASE w = [v EXCEPT !.goal = Home, !.moving = "path", !.steps = FlightTicks,
                           !.queue = <<>>]
    <3>1. /\ w.face = v.face /\ w.goal = Home /\ w.queue = <<>>
          /\ w.speaking = v.speaking /\ w.moving = "path" /\ w.steps = FlightTicks
      BY <2>3 DEF IsView
    <3>2. IsView(w)
      <4>1. w = [face |-> w.face, left |-> w.left, speaking |-> w.speaking, queue |-> w.queue,
                 hold |-> w.hold, quiet |-> w.quiet, at |-> w.at, goal |-> w.goal,
                 moving |-> w.moving, steps |-> w.steps]
        BY <2>3 DEF IsView
      <4> HIDE DEF w
      <4>2. QED  BY <1>1, <3>1, <4>1, ViewFrom
    <3> HIDE DEF w
    <3>3. QED  BY <3>1, <3>2 DEF Pointed, w
  <2>4. CASE v.queue = <<>> /\ w = [v EXCEPT !.queue = <<>>]
    <3>1. w = v  BY <2>4 DEF IsView
    <3>2. QED  BY <3>1
  <2>5. \/ w = v
        \/ v.queue # <<>> /\ \E h, q : Taken(h, q)
        \/ w = [v EXCEPT !.goal = Home, !.moving = "path", !.steps = FlightTicks, !.queue = <<>>]
        \/ v.queue = <<>> /\ w = [v EXCEPT !.queue = <<>>]
    <3>1. CASE v.hold > 0  BY <2>0, <3>1 DEF Overlay!ChoreoStep
    <3>2. CASE ~(v.hold > 0) /\ v.queue # <<>>
      <4>1. w = [v EXCEPT !.goal = Head(v.queue), !.moving = "flight", !.steps = FlightTicks,
                          !.queue = Tail(v.queue), !.hold = HoldTicks,
                          !.quiet = IF v.speaking THEN v.quiet ELSE 0]
        BY <2>0, <3>2 DEF Overlay!ChoreoStep, Overlay!Launch, IsView
      <4>2. QED  BY <3>2, <4>1
    <3>3. CASE ~(v.hold > 0) /\ v.queue = <<>>
      BY <2>0, <3>3 DEF Overlay!ChoreoStep, Overlay!GoHome, Overlay!Dock, IsView
    <3>4. QED  BY <3>1, <3>2, <3>3
  <2>6. QED  BY <2>1, <2>2, <2>3, <2>4, <2>5
<1>5. QED  BY <1>2, <1>3, <1>4

\* Drawing ends the homing pause that no speaking face shows.
LEMMA FrameDoes ==
    ASSUME NEW v, IsView(v)
    PROVE  LET w == Overlay!Elapse(Overlay!Draw(Overlay!Move(v))) IN
           /\ IsView(w) /\ w.face = v.face /\ (Pointed(v) => Pointed(w))
           /\ w.speaking => w.face = "speaking"
<1>1. PICK u : /\ u = Overlay!Move(v) /\ IsView(u) /\ u.face = v.face
               /\ Pointed(v) => Pointed(u)
  BY MoveDoes
<1>2. PICK d : /\ d = Overlay!Draw(u) /\ IsView(d) /\ d.face = u.face /\ d.goal = u.goal
               /\ d.queue = u.queue /\ (d.speaking => d.face = "speaking")
  <2> DEFINE d == Overlay!Draw(u)
  <2>1. CASE Overlay!FaceKind(u) # "speaking" /\ u.speaking
    <3>1. PICK q : d = [u EXCEPT !.speaking = FALSE, !.quiet = q]
      BY <1>1, <2>1 DEF Overlay!Draw, Overlay!SetSpeaking, IsView
    <3>2. /\ d.face = u.face /\ d.goal = u.goal /\ d.queue = u.queue /\ d.speaking = FALSE
          /\ IsView(d)
      BY <1>1, <3>1 DEF IsView
    <3>3. QED  BY <3>2
  <2>2. CASE ~(Overlay!FaceKind(u) # "speaking" /\ u.speaking)
    <3>1. d = u  BY <2>2 DEF Overlay!Draw
    <3>2. u.speaking => u.face = "speaking"
      BY <1>1, <2>2 DEF Overlay!FaceKind, IsView
    <3>3. QED  BY <1>1, <3>1, <3>2
  <2>3. QED  BY <2>1, <2>2
<1>3. PICK w : /\ w = Overlay!Elapse(d) /\ IsView(w) /\ w.face = d.face /\ w.goal = d.goal
               /\ w.queue = d.queue /\ w.speaking = d.speaking
  <2> DEFINE e == Overlay!Elapse(d)
  <2>1. PICK l, h, q : e = [d EXCEPT !.left = l, !.hold = h, !.quiet = q]
    BY DEF Overlay!Elapse
  <2>2. /\ e.face = d.face /\ e.goal = d.goal /\ e.queue = d.queue /\ e.speaking = d.speaking
        /\ IsView(e)
    BY <1>2, <2>1 DEF IsView
  <2>3. QED  BY <2>2
<1>4. w = Overlay!Elapse(Overlay!Draw(Overlay!Move(v)))  BY <1>1, <1>2, <1>3
<1>5. Pointed(v) => Pointed(w)  BY <1>1, <1>2, <1>3 DEF Pointed
<1>6. QED  BY <1>1, <1>2, <1>3, <1>4, <1>5

LEMMA FaceComesNext ==
    FaceComes' <=>
    \/ Ends(pipe', {"face"}, GoodFaces')
    \/ /\ Silent(pipe', {"face"})
       /\ \/ Ends(inbox', {"face"}, GoodFaces')
          \/ Silent(inbox', {"face"}) /\ GoodFace(view.face)'
BY DEF FaceComes, Ends, Silent, GoodFace

LEMMA PointComesNext ==
    PointComes' <=>
    \/ Ends(pipe', Pointing, GoodPoints')
    \/ /\ Silent(pipe', Pointing)
       /\ \/ Ends(inbox', Pointing, GoodPoints')
          \/ Silent(inbox', Pointing) /\ Pointed(view)'
BY DEF PointComes, Ends, Silent, Pointing

LEMMA NewViewIsView ==
    /\ IsView(Overlay!NewView) /\ ~Overlay!NewView.speaking /\ Overlay!NewView.face = "idle"
    /\ Overlay!NewView.goal = Home /\ Overlay!NewView.queue = <<>>
<1> DEFINE w == Overlay!NewView
<1>1. /\ w = [face |-> w.face, left |-> w.left, speaking |-> w.speaking, queue |-> w.queue,
              hold |-> w.hold, quiet |-> w.quiet, at |-> w.at, goal |-> w.goal,
              moving |-> w.moving, steps |-> w.steps]
      /\ w.speaking = FALSE /\ w.face = "idle" /\ w.goal = Home /\ w.queue = <<>>
      /\ w.moving = "no" /\ w.steps = 0
  BY DEF Overlay!NewView
<1> HIDE DEF w
<1>2. <<>> \in Seq(Places) /\ 0 \in Nat /\ FALSE \in BOOLEAN  OBVIOUS
<1>3. w.queue \in Seq(Places) /\ w.steps \in Nat /\ w.speaking \in BOOLEAN
      /\ w.moving = "no" /\ w.steps = 0
  BY <1>1, <1>2
<1>4. IsView(w)  BY <1>1, <1>3, ViewFrom
<1>5. QED  BY <1>1, <1>4 DEF w

LEMMA TickKeeps == ASSUME OverlayInv, Overlay!Tick  PROVE OverlayInv'
<1>0. OverlayTypes  BY DEF OverlayInv
<1>1. /\ child = "alive" /\ inbox' = <<>>
      /\ UNCHANGED <<agent, track, cooling, budget, deaths, missed, won>>
  BY DEF Overlay!Tick
<1>2. CASE \E i \in DOMAIN inbox : inbox[i].type = "quit"
  <2>1. child' = "gone" /\ pipe' = <<>> /\ view' = Overlay!NewView
    BY <1>2 DEF Overlay!Tick
  <2>2. ~Live'  BY <2>1 DEF Live
  <2>3. OverlayTypes'
    <3>1. IsView(view') /\ ~view'.speaking  BY <2>1, NewViewIsView
    <3>2. Len(inbox') = 0 /\ inbox' \in Seq(Lines) /\ pipe' \in Seq(Lines)
          /\ pipe' \in Seq(Lines \cup {Overlay!EndOfPipe})
      BY <1>1, <2>1
    <3>3. 0 <= InboxSize  BY ServicesAssumption
    <3>4. QED  BY <1>0, <1>1, <2>1, <3>1, <3>2, <3>3 DEF OverlayTypes, IsView
  <2>4. QED  BY <2>2, <2>3 DEF OverlayInv
<1>3. CASE ~(\E i \in DOMAIN inbox : inbox[i].type = "quit")
  <2> DEFINE v == Overlay!ObeyAll(view, inbox)
  <2>1. /\ child' = child /\ pipe' = pipe
        /\ view' = Overlay!Elapse(Overlay!Draw(Overlay!Move(v)))
    BY <1>3 DEF Overlay!Tick
  <2>2. inbox \in Seq(Lines) /\ IsView(view)  BY <1>0 DEF OverlayTypes
  <2>3. /\ IsView(v)
        /\ Ends(inbox, {"face"}, GoodFaces) \/ (Silent(inbox, {"face"}) /\ GoodFace(view.face))
              => GoodFace(v.face)
        /\ Ends(inbox, Pointing, GoodPoints) \/ (Silent(inbox, Pointing) /\ Pointed(view))
              => Pointed(v)
    BY <1>3, <2>2, ObeyAllDoes
  <2> HIDE DEF v
  <2>4. /\ IsView(view') /\ view'.face = v.face /\ (Pointed(v) => Pointed(view)')
        /\ view'.speaking => view'.face = "speaking"
    <3>1. PICK w : /\ w = view' /\ IsView(w) /\ w.face = v.face /\ (Pointed(v) => Pointed(w))
                   /\ w.speaking => w.face = "speaking"
      BY <2>1, <2>3, FrameDoes
    <3>2. Pointed(view)' <=> Pointed(w)  BY <1>1, <3>1 DEF Pointed
    <3>3. QED  BY <3>1, <3>2
  <2>5. OverlayTypes'
    <3>1. Len(inbox') = 0 /\ inbox' \in Seq(Lines)  BY <1>1
    <3>2. 0 <= InboxSize  BY ServicesAssumption
    <3>3. QED  BY <1>0, <1>1, <2>1, <2>4, <3>1, <3>2 DEF OverlayTypes, IsView
  <2>6. ASSUME Live'  PROVE FaceComes' /\ PointComes'
    <3>1. FaceComes /\ PointComes  BY <1>1, <2>1, <2>6 DEF OverlayInv, Live
    <3>2. /\ GoodFaces' = GoodFaces /\ GoodPoints' = GoodPoints
          /\ \A x : GoodFace(x)' <=> GoodFace(x)
      BY <1>1 DEF GoodFaces, GoodFace, GoodPoints
    <3>3. GoodFace(view.face)' <=> GoodFace(v.face)  BY <1>1, <2>4 DEF GoodFace
    <3>4. Silent(inbox', {"face"}) /\ Silent(inbox', Pointing)  BY <1>1 DEF Silent
    <3>5. FaceComes'
      BY <2>1, <2>3, <3>1, <3>2, <3>3, <3>4, FaceComesNext DEF FaceComes
    <3>6. PointComes'
      BY <2>1, <2>3, <2>4, <3>1, <3>2, <3>4, PointComesNext DEF PointComes
    <3>7. QED  BY <3>5, <3>6
  <2>7. QED  BY <2>5, <2>6 DEF OverlayInv
<1>4. QED  BY <1>2, <1>3

LEMMA ReadKeeps == ASSUME OverlayInv, Overlay!Read  PROVE OverlayInv'
<1>0. OverlayTypes  BY DEF OverlayInv
<1>1. /\ child = "alive" /\ pipe # <<>> /\ Head(pipe) # Overlay!EndOfPipe /\ pipe' = Tail(pipe)
      /\ UNCHANGED <<agent, track, cooling, child, view, budget, deaths, won>>
      /\ \/ Len(inbox) < InboxSize /\ inbox' = Append(inbox, Head(pipe)) /\ missed' = missed
         \/ missed' = TRUE /\ inbox' = inbox
  BY DEF Overlay!Read
<1> DEFINE P == Lines \cup {Overlay!EndOfPipe}
           m == Head(pipe)
<1>2. /\ pipe \in Seq(P) /\ inbox \in Seq(Lines) /\ m \in Lines /\ pipe' \in Seq(P)
      /\ agent # "dead" => pipe' \in Seq(Lines)
      /\ <<m>> \in Seq(Lines) /\ Append(inbox, m) = inbox \o <<m>>
  <2>1. pipe \in Seq(P) /\ inbox \in Seq(Lines)  BY <1>0 DEF OverlayTypes
  <2>2. m \in P /\ Tail(pipe) \in Seq(P)  BY <1>1, <2>1, EndsTail
  <2>3. agent # "dead" => Tail(pipe) \in Seq(Lines)  BY <1>0, <1>1, EndsTail DEF OverlayTypes
  <2>4. m \in Lines  BY <1>1, <2>2
  <2>5. QED  BY <1>1, <2>1, <2>2, <2>3, <2>4
<1> HIDE DEF m, P
<1>3. inbox' \in Seq(Lines) /\ Len(inbox') <= InboxSize
  <2>1. Len(inbox) \in Nat /\ Len(inbox) <= InboxSize  BY <1>0, <1>2 DEF OverlayTypes
  <2>2. CASE Len(inbox) < InboxSize /\ inbox' = Append(inbox, m)
    <3>1. inbox' \in Seq(Lines) /\ Len(inbox') = Len(inbox) + 1  BY <1>2, <2>2, AppendProperties
    <3>2. QED  BY <2>1, <2>2, <3>1, ServicesAssumption
  <2>3. CASE inbox' = inbox  BY <1>2, <2>1, <2>3
  <2>4. QED  BY <1>1, <2>2, <2>3 DEF m
<1>4. OverlayTypes'
  BY <1>0, <1>1, <1>2, <1>3 DEF OverlayTypes, IsView, P
<1>5. ASSUME Live'  PROVE FaceComes' /\ PointComes'
  <2>0. missed' = FALSE  BY <1>4, <1>5 DEF Live, OverlayTypes
  <2>a. inbox' = Append(inbox, m) /\ missed' = missed  BY <1>1, <2>0 DEF m
  <2>b. Live  BY <1>1, <1>5, <2>a DEF Live
  <2>1. /\ FaceComes /\ PointComes /\ inbox' = inbox \o <<m>> /\ pipe \in Seq(P)
    BY <1>2, <2>a, <2>b DEF OverlayInv
  <2>2. GoodFaces' = GoodFaces /\ GoodPoints' = GoodPoints
        /\ (GoodFace(view.face)' <=> GoodFace(view.face)) /\ (Pointed(view)' <=> Pointed(view))
    BY <1>1 DEF GoodFaces, GoodFace, GoodPoints, Pointed
  <2>3. FaceComes'
    <3> DEFINE T == {"face"}
    <3>1. /\ Ends(pipe, T, GoodFaces) =>
                \/ Ends(pipe', T, GoodFaces)
                \/ Silent(pipe', T) /\ m.type \in T /\ m \in GoodFaces
          /\ Silent(pipe, T) => Silent(pipe', T) /\ m.type \notin T
      BY <1>1, <2>1, EndsTail DEF m
    <3>2. /\ m.type \in T /\ m \in GoodFaces => Ends(<<m>>, T, GoodFaces)
          /\ m.type \notin T => Silent(<<m>>, T)
      BY OneLine
    <3>3. /\ Ends(<<m>>, T, GoodFaces) => Ends(inbox', T, GoodFaces)
          /\ Ends(inbox, T, GoodFaces) /\ Silent(<<m>>, T) => Ends(inbox', T, GoodFaces)
          /\ Silent(inbox, T) /\ Silent(<<m>>, T) => Silent(inbox', T)
      BY <1>2, <2>1, EndsConcat
    <3>4. QED  BY <2>1, <2>2, <3>1, <3>2, <3>3, FaceComesNext DEF FaceComes
  <2>4. PointComes'
    <3>1. /\ Ends(pipe, Pointing, GoodPoints) =>
                \/ Ends(pipe', Pointing, GoodPoints)
                \/ Silent(pipe', Pointing) /\ m.type \in Pointing /\ m \in GoodPoints
          /\ Silent(pipe, Pointing) => Silent(pipe', Pointing) /\ m.type \notin Pointing
      BY <1>1, <2>1, EndsTail DEF m
    <3>2. /\ m.type \in Pointing /\ m \in GoodPoints => Ends(<<m>>, Pointing, GoodPoints)
          /\ m.type \notin Pointing => Silent(<<m>>, Pointing)
      BY OneLine
    <3>3. /\ Ends(<<m>>, Pointing, GoodPoints) => Ends(inbox', Pointing, GoodPoints)
          /\ Ends(inbox, Pointing, GoodPoints) /\ Silent(<<m>>, Pointing)
                => Ends(inbox', Pointing, GoodPoints)
          /\ Silent(inbox, Pointing) /\ Silent(<<m>>, Pointing) => Silent(inbox', Pointing)
      BY <1>2, <2>1, EndsConcat
    <3>4. QED  BY <2>1, <2>2, <3>1, <3>2, <3>3, PointComesNext DEF PointComes
  <2>5. QED  BY <2>3, <2>4
<1>6. QED  BY <1>4, <1>5 DEF OverlayInv

LEMMA EndOfFileKeeps == ASSUME OverlayInv, Overlay!EndOfFile  PROVE OverlayInv'
<1>0. OverlayTypes  BY DEF OverlayInv
<1>1. /\ child = "alive" /\ pipe = <<Overlay!EndOfPipe>> /\ pipe' = <<>>
      /\ UNCHANGED <<agent, track, cooling, child, view, budget, deaths, won>>
      /\ \/ Len(inbox) < InboxSize /\ inbox' = Append(inbox, Overlay!Quit)
         \/ ~(Len(inbox) < InboxSize) /\ inbox' = Append(Tail(inbox), Overlay!Quit)
      /\ missed' = (missed \/ Len(inbox) = InboxSize)
  BY DEF Overlay!EndOfFile
<1>2. Overlay!EndOfPipe \notin Lines
  <2>1. Overlay!EndOfPipe.type = "eof"  BY DEF Overlay!EndOfPipe, Overlay!Message
  <2>2. QED  BY <2>1, LineKinds
<1>3. agent = "dead"
  <2>1. pipe[1] = Overlay!EndOfPipe /\ 1 \in 1 .. Len(pipe)  BY <1>1
  <2>2. pipe \notin Seq(Lines)
    <3>1. ASSUME pipe \in Seq(Lines)  PROVE pipe[1] \in Lines  BY <2>1, <3>1, ElementOfSeq
    <3>2. QED  BY <1>2, <2>1, <3>1
  <2>3. QED  BY <1>0, <2>2 DEF OverlayTypes
<1>4. ~Live'  BY <1>1, <1>3 DEF Live
<1>5. inbox' \in Seq(Lines) /\ Len(inbox') <= InboxSize
  <2>1. /\ inbox \in Seq(Lines) /\ Len(inbox) \in Nat /\ Len(inbox) <= InboxSize
        /\ InboxSize \in Nat \ {0}
    BY <1>0, ServicesAssumption DEF OverlayTypes
  <2>2. Overlay!Quit \in Lines  BY DEF Lines
  <2>3. CASE Len(inbox) < InboxSize
    <3>1. inbox' \in Seq(Lines) /\ Len(inbox') = Len(inbox) + 1
      BY <1>1, <2>1, <2>2, <2>3, AppendProperties
    <3>2. QED  BY <2>1, <2>3, <3>1
  <2>4. CASE ~(Len(inbox) < InboxSize)
    <3>1. Len(inbox) # 0  BY <2>1, <2>4
    <3>2. inbox # <<>>  BY <3>1, <2>1, EmptySeq
    <3>3. Tail(inbox) \in Seq(Lines) /\ Len(Tail(inbox)) = Len(inbox) - 1
      BY <2>1, <3>2, HeadTailProperties
    <3>4. inbox' \in Seq(Lines) /\ Len(inbox') = Len(Tail(inbox)) + 1
      BY <1>1, <2>2, <2>4, <3>3, AppendProperties
    <3>5. QED  BY <2>1, <3>3, <3>4
  <2>5. QED  BY <2>3, <2>4
<1>6. OverlayTypes'
  <2>1. pipe' \in Seq(Lines) /\ pipe' \in Seq(Lines \cup {Overlay!EndOfPipe})  BY <1>1
  <2>2. missed' \in BOOLEAN  BY <1>1
  <2>3. QED  BY <1>0, <1>1, <1>5, <2>1, <2>2 DEF OverlayTypes, IsView
<1>7. QED  BY <1>4, <1>6 DEF OverlayInv

\* A dead child needs only its types.
LEMMA Gone ==
    ASSUME OverlayTypes', child' # "alive"  PROVE OverlayInv'
BY DEF OverlayInv, Live

\* The lines the agent writes reach the pipe, or a fresh child, or nobody.
Reach(lines) ==
    \/ /\ UNCHANGED <<child, inbox, view>>
       /\ pipe' = IF child = "alive" THEN pipe \o lines ELSE pipe
    \/ child' = "alive" /\ pipe' = lines /\ inbox' = <<>> /\ view' = Overlay!NewView

LEMMA EnsureDoes ==
    ASSUME OverlayTypes, NEW got \in BOOLEAN, NEW lines, Overlay!Ensure(got, lines)
    PROVE  Reach(lines) /\ (child' = "alive" => got)
<1>1. CASE child = "alive"
  BY <1>1 DEF Overlay!Ensure, Overlay!Alive, Overlay!Send, Reach
<1>2. CASE child # "alive" /\ cooling
  BY <1>2 DEF Overlay!Ensure, Overlay!Alive, Overlay!Send, Reach
<1>3. CASE child # "alive" /\ ~cooling
  BY <1>3 DEF Overlay!Ensure, Overlay!Alive, Overlay!Start, Reach
<1>4. QED  BY <1>1, <1>2, <1>3

LEMMA SendDoes ==
    ASSUME NEW lines, Overlay!Send(lines), UNCHANGED <<child, inbox, view>>
    PROVE  Reach(lines)
BY DEF Overlay!Send, Overlay!Alive, Reach

LEMMA LinesReach ==
    ASSUME OverlayInv, NEW lines \in Seq(Lines), Reach(lines),
           agent # "dead", agent' \in Agents \ {"dead"},
           track' \in Places \cup {Unknown}, won' \in BOOLEAN, missed' = missed,
           child' = "alive" =>
              /\ \/ Ends(lines, {"face"}, GoodFaces')
                 \/ Silent(lines, {"face"}) /\ \A x : GoodFace(x) => GoodFace(x)'
              /\ \/ Ends(lines, Pointing, GoodPoints')
                 \/ Silent(lines, Pointing) /\ (child = "alive" => track' = track)
    PROVE  OverlayInv'
<1>0. OverlayTypes  BY DEF OverlayInv
<1>1. pipe \in Seq(Lines) /\ inbox \in Seq(Lines) /\ Len(inbox) <= InboxSize /\ IsView(view)
  BY <1>0 DEF OverlayTypes
<1> DEFINE P == Lines \cup {Overlay!EndOfPipe}
<1>2. \A s \in Seq(Lines) : s \in Seq(P)  OBVIOUS
<1> HIDE DEF P
<1>3. CASE child # "alive" /\ UNCHANGED <<child, inbox, view, pipe>>
  <2>1. OverlayTypes'  BY <1>0, <1>1, <1>2, <1>3 DEF OverlayTypes, IsView, P
  <2>2. QED  BY <1>3, <2>1, Gone
<1>4. CASE child = "alive" /\ UNCHANGED <<child, inbox, view>> /\ pipe' = pipe \o lines
  <2>1. pipe' \in Seq(Lines)  BY <1>1, <1>4, EndsConcat
  <2>2. OverlayTypes'  BY <1>0, <1>1, <1>2, <1>4, <2>1 DEF OverlayTypes, IsView, P
  <2>3. ASSUME Live'  PROVE FaceComes' /\ PointComes'
    <3>1. FaceComes /\ PointComes  BY <1>4, <2>3 DEF OverlayInv, Live
    <3>2. FaceComes'
      <4> DEFINE T == {"face"}
      <4>1. CASE Ends(lines, T, GoodFaces')
        <5>1. Ends(pipe', T, GoodFaces')  BY <1>1, <1>4, <4>1, EndsConcat
        <5>2. QED  BY <5>1, FaceComesNext
      <4>2. CASE Silent(lines, T) /\ \A x : GoodFace(x) => GoodFace(x)'
        <5>1. \A m \in GoodFaces : m \in GoodFaces'  BY <4>2 DEF GoodFaces
        <5>2. \A s : Ends(s, T, GoodFaces) => Ends(s, T, GoodFaces')  BY <5>1 DEF Ends
        <5>3. GoodFace(view.face) => GoodFace(view.face)'
          <6>1. PICK x : x = view.face  OBVIOUS
          <6>2. GoodFace(x) => GoodFace(x)'  BY <4>2
          <6>3. view'.face = x  BY <1>4, <6>1
          <6>4. QED  BY <6>1, <6>2, <6>3 DEF GoodFace
        <5>4. /\ Ends(pipe, T, GoodFaces') => Ends(pipe', T, GoodFaces')
              /\ Silent(pipe, T) => Silent(pipe', T)
          BY <1>1, <1>4, <4>2, EndsConcat
        <5>5. inbox' = inbox  BY <1>4
        <5>6. QED  BY <3>1, <5>2, <5>3, <5>4, <5>5, FaceComesNext DEF FaceComes
      <4>3. QED  BY <1>4, <4>1, <4>2
    <3>3. PointComes'
      <4>1. CASE Ends(lines, Pointing, GoodPoints')
        <5>1. Ends(pipe', Pointing, GoodPoints')  BY <1>1, <1>4, <4>1, EndsConcat
        <5>2. QED  BY <5>1, PointComesNext
      <4>2. CASE Silent(lines, Pointing) /\ track' = track
        <5>1. GoodPoints' = GoodPoints /\ (Pointed(view)' <=> Pointed(view))
          BY <1>4, <4>2 DEF GoodPoints, Pointed
        <5>2. /\ Ends(pipe, Pointing, GoodPoints) => Ends(pipe', Pointing, GoodPoints)
              /\ Silent(pipe, Pointing) => Silent(pipe', Pointing)
          BY <1>1, <1>4, <4>2, EndsConcat
        <5>3. inbox' = inbox  BY <1>4
        <5>4. QED  BY <3>1, <5>1, <5>2, <5>3, PointComesNext DEF PointComes
      <4>3. QED  BY <1>4, <4>1, <4>2
    <3>4. QED  BY <3>2, <3>3
  <2>4. QED  BY <2>2, <2>3 DEF OverlayInv
<1>5. CASE child' = "alive" /\ pipe' = lines /\ inbox' = <<>> /\ view' = Overlay!NewView
  <2>1. /\ IsView(view') /\ ~view'.speaking /\ view'.face = "idle"
        /\ view'.goal = Home /\ view'.queue = <<>>
    BY <1>5, NewViewIsView
  <2>2. OverlayTypes'
    <3>1. inbox' \in Seq(Lines) /\ Len(inbox') = 0 /\ 0 <= InboxSize
      BY <1>5, ServicesAssumption
    <3>2. QED  BY <1>0, <1>2, <1>5, <2>1, <3>1 DEF OverlayTypes, IsView, P
  <2>3. Silent(inbox', {"face"}) /\ Silent(inbox', Pointing)  BY <1>5 DEF Silent
  <2>4. GoodFace(view.face)'  BY <2>1 DEF GoodFace, Overlay!Persistent
  <2>5. Pointed(view)'  BY <2>1 DEF Pointed
  <2>6. FaceComes' /\ PointComes'
    BY <1>5, <2>3, <2>4, <2>5, FaceComesNext, PointComesNext
  <2>7. QED  BY <2>2, <2>6 DEF OverlayInv
<1>6. QED  BY <1>3, <1>4, <1>5 DEF Reach

LEMMA TwoLines ==
    ASSUME NEW a, NEW b, NEW types, NEW good
    PROVE  /\ b.type \in types /\ b \in good => Ends(<<a, b>>, types, good)
           /\ a.type \in types /\ a \in good /\ b.type \notin types => Ends(<<a, b>>, types, good)
           /\ a.type \notin types /\ b.type \notin types => Silent(<<a, b>>, types)
<1> DEFINE s == <<a, b>>
<1>1. DOMAIN s = {1, 2} /\ s[1] = a /\ s[2] = b  OBVIOUS
<1> HIDE DEF s
<1>2. \A k \in DOMAIN s : k = 1 \/ (k = 2 /\ k > 1 /\ ~(k > 2))  BY <1>1
<1>3. b.type \in types /\ b \in good => Ends(s, types, good)
  BY <1>1 DEF Ends
<1>4. a.type \in types /\ a \in good /\ b.type \notin types => Ends(s, types, good)
  BY <1>1, <1>2 DEF Ends
<1>5. a.type \notin types /\ b.type \notin types => Silent(s, types)
  BY <1>1 DEF Silent
<1>6. QED  BY <1>3, <1>4, <1>5 DEF s

LEMMA LinesSent ==
    /\ \A x \in FaceNames : Overlay!Face(x) \in Lines /\ Overlay!Face(x).type = "face"
    /\ \A p \in Places : /\ Overlay!Target(p) \in Lines /\ Overlay!Target(p).type = "target"
                         /\ Overlay!Point(p) \in Lines /\ Overlay!Point(p).type = "point"
    /\ \A on \in BOOLEAN :
          Overlay!Speaking(on) \in Lines /\ Overlay!Speaking(on).type = "speaking"
    /\ Overlay!Effect \in Lines /\ Overlay!Effect.type = "effect"
    /\ Overlay!Settle \in Lines /\ Overlay!Settle.type = "settle"
    /\ Overlay!Quit \in Lines /\ Overlay!Quit.type = "quit"
BY DEF Lines, Overlay!Effect, Overlay!Settle, Overlay!Quit, Overlay!Target, Overlay!Point,
       Overlay!Speaking, Overlay!Face, Overlay!Message

\* A face that is good is sent, and a settled pointer is where it should be.
LEMMA GoodLines ==
    /\ \A x \in FaceNames : GoodFace(x)' => Overlay!Face(x) \in GoodFaces'
    /\ Overlay!Settle \in GoodPoints'
    /\ track' # Unknown => Overlay!Target(track') \in GoodPoints'
                           /\ Overlay!Point(track') \in GoodPoints'
BY DEF GoodFaces, GoodPoints

LEMMA AgentTypes ==
    OverlayInv => /\ OverlayTypes /\ agent \in Agents /\ track \in Places \cup {Unknown}
                  /\ won \in BOOLEAN
BY DEF OverlayInv, OverlayTypes

LEMMA AgentConnectKeeps ==
    ASSUME OverlayInv, NEW got \in BOOLEAN, Overlay!Connect(got)  PROVE OverlayInv'
<1>1. /\ agent = "starting" /\ agent' = "idle" /\ Overlay!Ensure(got, <<>>)
      /\ UNCHANGED <<track, budget, deaths, missed, won>>
  BY DEF Overlay!Connect
<1>2. Reach(<<>>)  BY <1>1, AgentTypes, EnsureDoes
<1>3. Silent(<<>>, {"face"}) /\ Silent(<<>>, Pointing)  BY OneLine
<1>4. \A x : GoodFace(x) => GoodFace(x)'  BY <1>1 DEF GoodFace, Busy
<1>5. agent' \in Agents \ {"dead"} /\ agent # "dead"  BY <1>1 DEF Agents
<1>6. track' \in Places \cup {Unknown} /\ won' \in BOOLEAN /\ missed' = missed /\ track' = track
  BY <1>1, AgentTypes
<1>7. <<>> \in Seq(Lines)  OBVIOUS
<1>8. QED  BY <1>2, <1>3, <1>4, <1>5, <1>6, <1>7, LinesReach

LEMMA StartJobKeeps ==
    ASSUME OverlayInv, NEW kind \in {"plain", "look", "input"}, Overlay!StartJob(kind)
    PROVE  OverlayInv'
<1> DEFINE x == IF kind = "look" THEN "searching" ELSE "working"
           m == Overlay!Face(x)
<1>1. /\ agent = "idle" /\ agent' = kind /\ Overlay!Send(<<m>>)
      /\ UNCHANGED <<track, cooling, child, inbox, view, deaths, missed, won>>
  BY DEF Overlay!StartJob, Overlay!JobFace
<1>2. GoodFace(x)' /\ x \in FaceNames
  BY <1>1 DEF GoodFace, Busy, FaceNames
<1>3. m \in Lines /\ m.type = "face" /\ m \in GoodFaces'  BY <1>2, LinesSent, GoodLines
<1> HIDE DEF m
<1>4. Reach(<<m>>)  BY <1>1, SendDoes
<1>5. Ends(<<m>>, {"face"}, GoodFaces') /\ Silent(<<m>>, Pointing)
  <2>1. m.type \in {"face"} /\ m.type \notin Pointing  BY <1>3 DEF Pointing
  <2>2. QED  BY <1>3, <2>1, OneLine
<1>6. agent' \in Agents \ {"dead"} /\ agent # "dead"  BY <1>1 DEF Agents, Busy
<1>7. track' \in Places \cup {Unknown} /\ won' \in BOOLEAN /\ missed' = missed /\ track' = track
  BY <1>1, AgentTypes
<1>8. <<m>> \in Seq(Lines)  BY <1>3
<1>9. QED  BY <1>4, <1>5, <1>6, <1>7, <1>8, LinesReach

\* A result's face is honest when the agent is idle and remembers the result.
LEMMA ResultFaceDoes ==
    ASSUME NEW ok \in BOOLEAN, won' = ok
    PROVE  LET m == Overlay!ResultFace(ok) IN
           m \in Lines /\ m.type = "face" /\ m \in GoodFaces' /\ m.type \notin Pointing
<1> DEFINE x == IF ok THEN "happy" ELSE "error"
<1>1. Overlay!ResultFace(ok) = Overlay!Face(x)  BY DEF Overlay!ResultFace
<1>2. GoodFace(x)' /\ x \in FaceNames
  BY DEF GoodFace, FaceNames, Overlay!Persistent
<1>3. QED  BY <1>1, <1>2, LinesSent, GoodLines DEF Pointing

LEMMA EndPlainKeeps ==
    ASSUME OverlayInv, NEW ok \in BOOLEAN, Overlay!EndPlain(ok)  PROVE OverlayInv'
<1> DEFINE m == Overlay!ResultFace(ok)
<1>1. /\ agent = "plain" /\ agent' = "idle" /\ Overlay!Send(<<m>>) /\ won' = ok
      /\ UNCHANGED <<track, cooling, child, inbox, view, budget, deaths, missed>>
  BY DEF Overlay!EndPlain
<1>2. m \in Lines /\ m.type = "face" /\ m \in GoodFaces' /\ m.type \notin Pointing
  BY <1>1, ResultFaceDoes
<1> HIDE DEF m
<1>3. Reach(<<m>>)  BY <1>1, SendDoes
<1>4. Ends(<<m>>, {"face"}, GoodFaces') /\ Silent(<<m>>, Pointing)  BY <1>2, OneLine
<1>5. agent' \in Agents \ {"dead"} /\ agent # "dead"  BY <1>1 DEF Agents
<1>6. track' \in Places \cup {Unknown} /\ won' \in BOOLEAN /\ missed' = missed /\ track' = track
  BY <1>1, AgentTypes
<1>7. <<m>> \in Seq(Lines)  BY <1>2
<1>8. QED  BY <1>3, <1>4, <1>5, <1>6, <1>7, LinesReach

LEMMA EndLookKeeps ==
    ASSUME OverlayInv, NEW got \in BOOLEAN, NEW p \in Places \cup {Unknown}, NEW ok \in BOOLEAN,
           Overlay!EndLook(got, p, ok)
    PROVE  OverlayInv'
<1> DEFINE m == Overlay!ResultFace(ok)
           s == IF p = Unknown THEN <<>> ELSE <<Overlay!Point(p)>>
<1>1. /\ agent = "look" /\ agent' = "idle" /\ Overlay!Ensure(got, s \o <<m>>) /\ won' = ok
      /\ track' = IF got /\ p # Unknown THEN p ELSE track
      /\ UNCHANGED <<budget, deaths, missed>>
  BY DEF Overlay!EndLook, Overlay!Estimate
<1>2. m \in Lines /\ m.type = "face" /\ m \in GoodFaces' /\ m.type \notin Pointing
  BY <1>1, ResultFaceDoes
<1> HIDE DEF m
<1>3. <<m>> \in Seq(Lines) /\ Ends(<<m>>, {"face"}, GoodFaces') /\ Silent(<<m>>, Pointing)
  BY <1>2, OneLine
<1>4. s \in Seq(Lines)
  <2>1. CASE p = Unknown  BY <2>1
  <2>2. CASE p # Unknown
    <3>1. Overlay!Point(p) \in Lines  BY <2>2, LinesSent
    <3>2. QED  BY <2>2, <3>1
  <2>3. QED  BY <2>1, <2>2
<1>5. p = Unknown => Silent(s, Pointing)  BY OneLine
<1>6. p # Unknown /\ got => Ends(s, Pointing, GoodPoints')
  <2> SUFFICES ASSUME p # Unknown, got  PROVE Ends(s, Pointing, GoodPoints')
    OBVIOUS
  <2>1. track' = p /\ p \in Places  BY <1>1
  <2>2. Overlay!Point(p) \in GoodPoints'  BY <2>1, GoodLines
  <2>3. Overlay!Point(p).type = "point"  BY <2>1, LinesSent
  <2>4. QED  BY <2>2, <2>3, OneLine DEF Pointing
<1> HIDE DEF s
<1>7. /\ s \o <<m>> \in Seq(Lines) /\ Ends(s \o <<m>>, {"face"}, GoodFaces')
      /\ p = Unknown => Silent(s \o <<m>>, Pointing)
      /\ p # Unknown /\ got => Ends(s \o <<m>>, Pointing, GoodPoints')
  BY <1>3, <1>4, <1>5, <1>6, EndsConcat
<1>8. Reach(s \o <<m>>) /\ (child' = "alive" => got)  BY <1>1, AgentTypes, EnsureDoes
<1>9. agent' \in Agents \ {"dead"} /\ agent # "dead"  BY <1>1 DEF Agents
<1>10. track' \in Places \cup {Unknown} /\ won' \in BOOLEAN /\ missed' = missed
       /\ (p = Unknown => track' = track)
  BY <1>1, AgentTypes
<1> DEFINE l == s \o <<m>>
<1>11. l \in Seq(Lines) /\ Reach(l)  BY <1>7, <1>8
<1>12. child' = "alive" =>
          /\ Ends(l, {"face"}, GoodFaces')
          /\ Ends(l, Pointing, GoodPoints') \/ (Silent(l, Pointing) /\ track' = track)
  BY <1>7, <1>8, <1>10
<1> HIDE DEF l
<1>13. QED  BY <1>9, <1>10, <1>11, <1>12, LinesReach

LEMMA AnnounceKeeps ==
    ASSUME OverlayInv, NEW got \in BOOLEAN, NEW p \in Places \cup {Unknown},
           Overlay!Announce(got, p)
    PROVE  OverlayInv'
<1> DEFINE s == IF p = Unknown THEN <<>> ELSE <<Overlay!Target(p)>>
<1>1. /\ agent = "input" /\ agent' = "dwell" /\ Overlay!Ensure(got, s)
      /\ track' = IF got /\ p # Unknown THEN p ELSE track
      /\ UNCHANGED <<budget, deaths, missed, won>>
  BY DEF Overlay!Announce, Overlay!Estimate
<1>2. s \in Seq(Lines) /\ Silent(s, {"face"})
  <2>1. CASE p = Unknown
    <3>1. s = <<>> /\ <<>> \in Seq(Lines)  BY <2>1
    <3>2. QED  BY <3>1, OneLine
  <2>2. CASE p # Unknown
    <3>1. Overlay!Target(p) \in Lines /\ Overlay!Target(p).type \notin {"face"}
      BY <2>2, LinesSent
    <3>2. QED  BY <2>2, <3>1, OneLine
  <2>3. QED  BY <2>1, <2>2
<1>3. p = Unknown => Silent(s, Pointing) /\ track' = track  BY <1>1, OneLine
<1>4. p # Unknown /\ got => Ends(s, Pointing, GoodPoints')
  <2> SUFFICES ASSUME p # Unknown, got  PROVE Ends(s, Pointing, GoodPoints')
    OBVIOUS
  <2>1. track' = p /\ p \in Places  BY <1>1
  <2>2. Overlay!Target(p) \in GoodPoints'  BY <2>1, GoodLines
  <2>3. Overlay!Target(p).type = "target"  BY <2>1, LinesSent
  <2>4. QED  BY <2>2, <2>3, OneLine DEF Pointing
<1> HIDE DEF s
<1>5. Reach(s) /\ (child' = "alive" => got)  BY <1>1, AgentTypes, EnsureDoes
<1>6. agent' \in Agents \ {"dead"} /\ agent # "dead"  BY <1>1 DEF Agents, Busy
<1>7. track' \in Places \cup {Unknown} /\ won' \in BOOLEAN /\ missed' = missed
  BY <1>1, AgentTypes
<1>8. \A x : GoodFace(x) => GoodFace(x)'  BY <1>1 DEF GoodFace, Busy
<1>9. QED  BY <1>2, <1>3, <1>4, <1>5, <1>6, <1>7, <1>8, LinesReach

LEMMA EndInputKeeps ==
    ASSUME OverlayInv, NEW ok \in BOOLEAN, Overlay!EndInput(ok)  PROVE OverlayInv'
<1> DEFINE m == Overlay!ResultFace(ok)
           t == <<Overlay!Settle>>
           e == IF ok THEN <<Overlay!Effect>> ELSE <<>>
           l == (t \o e) \o <<m>>
<1>1. /\ agent = "dwell" /\ agent' = "idle" /\ Overlay!Send(l) /\ won' = ok /\ track' = Unknown
      /\ UNCHANGED <<cooling, child, inbox, view, budget, deaths, missed>>
  BY DEF Overlay!EndInput
<1>2. m \in Lines /\ m.type = "face" /\ m \in GoodFaces' /\ m.type \notin Pointing
  BY <1>1, ResultFaceDoes
<1> HIDE DEF m
<1>3. <<m>> \in Seq(Lines) /\ Ends(<<m>>, {"face"}, GoodFaces') /\ Silent(<<m>>, Pointing)
  BY <1>2, OneLine
<1>4. t \in Seq(Lines) /\ Ends(t, Pointing, GoodPoints')
  <2>1. /\ Overlay!Settle \in Lines /\ Overlay!Settle \in GoodPoints'
        /\ Overlay!Settle.type \in Pointing
    BY LinesSent, GoodLines DEF Pointing
  <2>2. QED  BY <2>1, OneLine
<1>5. e \in Seq(Lines) /\ Silent(e, Pointing)
  <2>1. Overlay!Effect \in Lines /\ Overlay!Effect.type \notin Pointing
    BY LinesSent DEF Pointing
  <2>2. <<Overlay!Effect>> \in Seq(Lines) /\ <<>> \in Seq(Lines)  BY <2>1
  <2>3. Silent(<<Overlay!Effect>>, Pointing) /\ Silent(<<>>, Pointing)  BY <2>1, OneLine
  <2>4. e = <<Overlay!Effect>> \/ e = <<>>  OBVIOUS
  <2>5. QED  BY <2>2, <2>3, <2>4
<1> HIDE DEF t, e
<1>6. t \o e \in Seq(Lines) /\ Ends(t \o e, Pointing, GoodPoints')
  BY <1>4, <1>5, EndsConcat
<1> DEFINE u == t \o e
<1>a. u \in Seq(Lines) /\ Ends(u, Pointing, GoodPoints') /\ l = u \o <<m>>  BY <1>6
<1> HIDE DEF u, l
<1>7. l \in Seq(Lines) /\ Ends(l, Pointing, GoodPoints') /\ Ends(l, {"face"}, GoodFaces')
  BY <1>3, <1>a, EndsConcat
<1>8. Reach(l)  BY <1>1, SendDoes
<1>9. agent' \in Agents \ {"dead"} /\ agent # "dead"  BY <1>1 DEF Agents
<1>10. track' \in Places \cup {Unknown} /\ won' \in BOOLEAN /\ missed' = missed  BY <1>1
<1>11. QED  BY <1>7, <1>8, <1>9, <1>10, LinesReach

LEMMA CrashJobKeeps == ASSUME OverlayInv, Overlay!CrashJob  PROVE OverlayInv'
<1> DEFINE s == IF agent = "dwell" THEN <<Overlay!Settle>> ELSE <<>>
           t == <<Overlay!Face("idle"), Overlay!Quit>>
           l == s \o t
<1>1. /\ agent \in {"plain", "look", "dwell"} /\ agent' = "stopping" /\ Overlay!Send(l)
      /\ track' = IF agent = "dwell" THEN Unknown ELSE track
      /\ UNCHANGED <<cooling, child, inbox, view, budget, deaths, missed, won>>
  BY DEF Overlay!CrashJob
<1>2. /\ Overlay!Face("idle") \in Lines /\ Overlay!Face("idle").type = "face"
      /\ Overlay!Face("idle") \in GoodFaces'
      /\ Overlay!Quit \in Lines /\ Overlay!Quit.type = "quit"
      /\ Overlay!Settle \in Lines /\ Overlay!Settle.type \in Pointing
      /\ Overlay!Settle \in GoodPoints'
  <2>1. "idle" \in FaceNames /\ GoodFace("idle")'
    BY DEF FaceNames, GoodFace, Overlay!Persistent
  <2>2. QED  BY <2>1, LinesSent, GoodLines DEF Pointing
<1>3. t \in Seq(Lines) /\ Ends(t, {"face"}, GoodFaces') /\ Silent(t, Pointing)
  BY <1>2, TwoLines DEF Pointing
<1>4. s \in Seq(Lines)  BY <1>2
<1>5. agent = "dwell" => Ends(s, Pointing, GoodPoints')  BY <1>2, OneLine
<1>6. agent # "dwell" => Silent(s, Pointing) /\ track' = track  BY <1>1, OneLine
<1> HIDE DEF s, t
<1>7. /\ l \in Seq(Lines) /\ Ends(l, {"face"}, GoodFaces')
      /\ agent = "dwell" => Ends(l, Pointing, GoodPoints')
      /\ agent # "dwell" => Silent(l, Pointing)
  BY <1>3, <1>4, <1>5, <1>6, EndsConcat
<1> HIDE DEF l
<1>8. Reach(l)  BY <1>1, SendDoes
<1>9. agent' \in Agents \ {"dead"} /\ agent # "dead"  BY <1>1 DEF Agents
<1>10. track' \in Places \cup {Unknown} /\ won' \in BOOLEAN /\ missed' = missed
  BY <1>1, AgentTypes
<1>11. QED  BY <1>6, <1>7, <1>8, <1>9, <1>10, LinesReach

LEMMA HandleHandoffKeeps ==
    ASSUME OverlayInv, NEW got \in BOOLEAN, Overlay!HandleHandoff(got)  PROVE OverlayInv'
<1> DEFINE l == <<Overlay!Settle, Overlay!Face("happy")>>
<1>1. /\ agent = "idle" /\ Overlay!Ensure(got, l)
      /\ track' = IF got THEN Unknown ELSE track
      /\ won' = (won \/ got) /\ UNCHANGED <<agent, deaths, missed>>
  BY DEF Overlay!HandleHandoff
<1>2. /\ Overlay!Settle \in Lines /\ Overlay!Settle.type = "settle"
      /\ Overlay!Settle \in GoodPoints'
      /\ Overlay!Face("happy") \in Lines /\ Overlay!Face("happy").type = "face"
  <2>1. "happy" \in FaceNames  BY DEF FaceNames
  <2>2. QED  BY <2>1, LinesSent, GoodLines
<1>3. got => Overlay!Face("happy") \in GoodFaces'
  <2>1. got => GoodFace("happy")'  BY <1>1 DEF GoodFace, Overlay!Persistent
  <2>2. "happy" \in FaceNames  BY DEF FaceNames
  <2>3. QED  BY <2>1, <2>2, GoodLines
<1>4. l \in Seq(Lines) /\ Ends(l, Pointing, GoodPoints') /\ (got => Ends(l, {"face"}, GoodFaces'))
  BY <1>2, <1>3, TwoLines DEF Pointing
<1> HIDE DEF l
<1>5. Reach(l) /\ (child' = "alive" => got)  BY <1>1, AgentTypes, EnsureDoes
<1>6. agent' \in Agents \ {"dead"} /\ agent # "dead"  BY <1>1 DEF Agents
<1>7. track' \in Places \cup {Unknown} /\ won' \in BOOLEAN /\ missed' = missed
  BY <1>1, AgentTypes
<1>8. QED  BY <1>4, <1>5, <1>6, <1>7, LinesReach

LEMMA HandleVoiceStateKeeps ==
    ASSUME OverlayInv, NEW state \in {"listening", "speaking", "idle"},
           Overlay!HandleVoiceState(state)
    PROVE  OverlayInv'
<1> DEFINE on == state = "speaking"
           l == <<Overlay!Speaking(on), Overlay!Face(state)>>
<1>1. /\ agent = "idle" /\ Overlay!Send(l)
      /\ UNCHANGED <<agent, track, cooling, child, inbox, view, deaths, missed, won>>
  BY DEF Overlay!HandleVoiceState
<1>2. /\ Overlay!Speaking(on) \in Lines /\ Overlay!Speaking(on).type = "speaking"
      /\ Overlay!Face(state) \in Lines /\ Overlay!Face(state).type = "face"
      /\ Overlay!Face(state) \in GoodFaces'
  <2>1. state \in FaceNames /\ GoodFace(state)'
    BY DEF FaceNames, GoodFace, Overlay!Persistent
  <2>2. on \in BOOLEAN  OBVIOUS
  <2> HIDE DEF on
  <2>3. QED  BY <2>1, <2>2, LinesSent, GoodLines
<1>3. l \in Seq(Lines) /\ Ends(l, {"face"}, GoodFaces') /\ Silent(l, Pointing)
  BY <1>2, TwoLines DEF Pointing
<1> HIDE DEF l
<1>4. Reach(l)  BY <1>1, SendDoes
<1>5. agent' \in Agents \ {"dead"} /\ agent # "dead"  BY <1>1 DEF Agents
<1>6. track' \in Places \cup {Unknown} /\ won' \in BOOLEAN /\ missed' = missed /\ track' = track
  BY <1>1, AgentTypes
<1>7. QED  BY <1>3, <1>4, <1>5, <1>6, LinesReach

LEMMA DisconnectKeeps == ASSUME OverlayInv, Overlay!Disconnect  PROVE OverlayInv'
<1> DEFINE l == <<Overlay!Quit>>
<1>1. /\ agent = "idle" /\ agent' = "stopping" /\ Overlay!Send(l)
      /\ UNCHANGED <<track, cooling, child, inbox, view, deaths, missed, won>>
  BY DEF Overlay!Disconnect
<1>2. l \in Seq(Lines) /\ Silent(l, {"face"}) /\ Silent(l, Pointing)
  <2>1. Overlay!Quit \in Lines /\ Overlay!Quit.type \notin {"face"}
        /\ Overlay!Quit.type \notin Pointing
    BY LinesSent DEF Pointing
  <2>2. l \in Seq(Lines)  BY <2>1
  <2>3. QED  BY <2>1, <2>2, OneLine
<1> HIDE DEF l
<1>3. Reach(l)  BY <1>1, SendDoes
<1>4. agent' \in Agents \ {"dead"} /\ agent # "dead"  BY <1>1 DEF Agents
<1>5. track' \in Places \cup {Unknown} /\ won' \in BOOLEAN /\ missed' = missed /\ track' = track
  BY <1>1, AgentTypes
<1>6. \A x : GoodFace(x) => GoodFace(x)'  BY <1>1 DEF GoodFace, Busy
<1>7. QED  BY <1>2, <1>3, <1>4, <1>5, <1>6, LinesReach

\* The child's process has ended: nothing of it is left.
LEMMA ChildEnds ==
    ASSUME OverlayInv, child' = "gone", pipe' = <<>>, inbox' = <<>>, view' = Overlay!NewView,
           agent' \in Agents, track' \in Places \cup {Unknown}, UNCHANGED <<missed, won>>
    PROVE  OverlayInv'
<1>1. IsView(view') /\ ~view'.speaking  BY NewViewIsView
<1>2. /\ inbox' \in Seq(Lines) /\ pipe' \in Seq(Lines) /\ Len(inbox') = 0 /\ 0 <= InboxSize
      /\ pipe' \in Seq(Lines \cup {Overlay!EndOfPipe})
  BY ServicesAssumption
<1>3. OverlayTypes'  BY <1>1, <1>2 DEF OverlayInv, OverlayTypes, IsView
<1>4. QED  BY <1>3, Gone

LEMMA StoppedKeeps == ASSUME OverlayInv, Overlay!Stopped  PROVE OverlayInv'
<1>1. /\ agent' = "starting" /\ track' = Unknown /\ child' = "gone" /\ pipe' = <<>>
      /\ inbox' = <<>> /\ view' = Overlay!NewView /\ UNCHANGED <<missed, won>>
  BY DEF Overlay!Stopped
<1>2. QED  BY <1>1, ChildEnds DEF Agents

LEMMA ChildDiesKeeps == ASSUME OverlayInv, Overlay!ChildDies  PROVE OverlayInv'
<1>1. /\ agent' = agent /\ track' = track /\ child' = "gone" /\ pipe' = <<>>
      /\ inbox' = <<>> /\ view' = Overlay!NewView /\ UNCHANGED <<missed, won>>
  BY DEF Overlay!ChildDies
<1>2. QED  BY <1>1, AgentTypes, ChildEnds

LEMMA AgentDiesKeeps == ASSUME OverlayInv, Overlay!AgentDies  PROVE OverlayInv'
<1>0. OverlayTypes  BY AgentTypes
<1>1. /\ agent # "dead" /\ agent' = "dead" /\ Overlay!Send(<<Overlay!EndOfPipe>>)
      /\ UNCHANGED <<track, cooling, child, inbox, view, budget, missed, won>>
  BY DEF Overlay!AgentDies
<1> DEFINE P == Lines \cup {Overlay!EndOfPipe}
<1>2. pipe \in Seq(P) /\ <<Overlay!EndOfPipe>> \in Seq(P)  BY <1>0 DEF OverlayTypes
<1>3. pipe' \in Seq(P)
  BY <1>1, <1>2, EndsConcat DEF Overlay!Send
<1>4. OverlayTypes'  BY <1>0, <1>1, <1>3 DEF OverlayTypes, IsView, Agents
<1>5. QED  BY <1>1, <1>4 DEF OverlayInv, Live

LEMMA WindowStays ==
    ASSUME OverlayInv, UNCHANGED <<agent, track, child, pipe, inbox, view, missed, won>>
    PROVE  OverlayInv'
<1>1. /\ GoodFaces' = GoodFaces /\ GoodPoints' = GoodPoints
      /\ (GoodFace(view.face)' <=> GoodFace(view.face)) /\ (Pointed(view)' <=> Pointed(view))
  BY DEF GoodFaces, GoodFace, GoodPoints, Pointed
<1>2. OverlayTypes'  BY DEF OverlayInv, OverlayTypes, IsView
<1>3. FaceComes => FaceComes'  BY <1>1, FaceComesNext DEF FaceComes
<1>4. PointComes => PointComes'  BY <1>1, PointComesNext DEF PointComes
<1>5. QED  BY <1>2, <1>3, <1>4 DEF OverlayInv, Live

LEMMA OverlayInitInv == Overlay!CompanionInit => OverlayInv
<1> SUFFICES ASSUME Overlay!CompanionInit  PROVE OverlayInv
  OBVIOUS
<1>1. /\ agent = "starting" /\ track = Unknown /\ child = "none" /\ pipe = <<>> /\ inbox = <<>>
      /\ view = Overlay!NewView /\ missed = FALSE /\ won = FALSE
  BY DEF Overlay!CompanionInit
<1>2. IsView(view) /\ ~view.speaking  BY <1>1, NewViewIsView
<1>3. /\ inbox \in Seq(Lines) /\ pipe \in Seq(Lines) /\ Len(inbox) = 0 /\ 0 <= InboxSize
      /\ pipe \in Seq(Lines \cup {Overlay!EndOfPipe})
  BY <1>1, ServicesAssumption
<1>4. OverlayTypes  BY <1>1, <1>2, <1>3 DEF OverlayTypes, Agents
<1>5. QED  BY <1>1, <1>4 DEF OverlayInv, Live

LEMMA OverlayStepKeeps == OverlayInv /\ Overlay!CompanionNext => OverlayInv'
<1> SUFFICES ASSUME OverlayInv, Overlay!CompanionNext  PROVE OverlayInv'
  OBVIOUS
<1>1. CASE Overlay!Tick  BY <1>1, TickKeeps
<1>2. CASE Overlay!Read  BY <1>2, ReadKeeps
<1>3. CASE Overlay!EndOfFile  BY <1>3, EndOfFileKeeps
<1>4. CASE \E got \in BOOLEAN : Overlay!Connect(got) \/ Overlay!HandleHandoff(got)
  BY <1>4, AgentConnectKeeps, HandleHandoffKeeps
<1>5. CASE \E kind \in {"plain", "look", "input"} : Overlay!StartJob(kind)
  BY <1>5, StartJobKeeps
<1>6. CASE \E ok \in BOOLEAN : Overlay!EndPlain(ok) \/ Overlay!EndInput(ok)
  BY <1>6, EndPlainKeeps, EndInputKeeps
<1>7. CASE \E got \in BOOLEAN, p \in Places \cup {Unknown} :
              Overlay!Announce(got, p) \/ \E ok \in BOOLEAN : Overlay!EndLook(got, p, ok)
  BY <1>7, AnnounceKeeps, EndLookKeeps
<1>8. CASE \E state \in {"listening", "speaking", "idle"} : Overlay!HandleVoiceState(state)
  BY <1>8, HandleVoiceStateKeeps
<1>9. CASE Overlay!CrashJob  BY <1>9, CrashJobKeeps
<1>10. CASE Overlay!Disconnect  BY <1>10, DisconnectKeeps
<1>11. CASE Overlay!Stopped  BY <1>11, StoppedKeeps
<1>12. CASE Overlay!CooldownEnds  BY <1>12, WindowStays DEF Overlay!CooldownEnds
<1>13. CASE Overlay!ChildDies  BY <1>13, ChildDiesKeeps
<1>14. CASE Overlay!AgentDies  BY <1>14, AgentDiesKeeps
<1>15. QED
  BY <1>1, <1>2, <1>3, <1>4, <1>5, <1>6, <1>7, <1>8, <1>9, <1>10, <1>11, <1>12, <1>13, <1>14
  DEF Overlay!CompanionNext, Overlay!AgentStep

LEMMA OverlayVarsStay == OverlayInv /\ UNCHANGED overlayVars => OverlayInv'
BY WindowStays DEF overlayVars

LEMMA OverlaysAreSafe == OverlayInv => Overlay!OverlaySafe
<1> SUFFICES ASSUME OverlayInv  PROVE Overlay!OverlaySafe
  OBVIOUS
<1>0. OverlayTypes  BY AgentTypes
<1>1. Overlay!CompanionTypeOK
  BY <1>0 DEF OverlayTypes, Overlay!CompanionTypeOK, Agents, Busy, IsView
<1>2. Overlay!PausedOnlyWhileSpeaking
  BY <1>0 DEF OverlayTypes, Overlay!PausedOnlyWhileSpeaking
<1>3. ASSUME Overlay!Heard  PROVE GoodFace(view.face) /\ Pointed(view)
  <2>1. Live /\ pipe = <<>> /\ inbox = <<>>
    BY <1>3 DEF Overlay!Heard, Live
  <2>2. FaceComes /\ PointComes  BY <2>1 DEF OverlayInv
  <2>3. \A types, good : ~Ends(<<>>, types, good)
    <3>1. DOMAIN <<>> = {}  OBVIOUS
    <3>2. QED  BY <3>1 DEF Ends
  <2>4. QED  BY <2>1, <2>2, <2>3 DEF FaceComes, PointComes
<1>4. Overlay!FaceHonest
  <2>1. Overlay!FaceKind(view) = "happy" => view.face = "happy"
    BY DEF Overlay!FaceKind
  <2>2. QED  BY <1>3, <2>1 DEF Overlay!FaceHonest, GoodFace, Busy
<1>5. Overlay!EstimateHolds
  BY <1>3 DEF Overlay!EstimateHolds, Pointed
<1>6. QED  BY <1>1, <1>2, <1>4, <1>5 DEF Overlay!OverlaySafe
-----------------------------------------------------------------------------
(* The composition.                                                        *)

LEMMA HoldVarsStay == HoldInv /\ UNCHANGED holdVars => HoldInv'
BY DEF holdVars, HoldInv, HoldTypes, ResolvesSound, Hold!FastRowsStay, Hold!RowsLeaveForAReason

\* What was approved was asked for by its owner and in time, a row of the fast path is
\* never resolved by the slow one, and a row leaves by its owner's word, its deadline or a
\* process that died on the way (harness_approvals.py): however the two statements of any
\* number of calls interleave.
THEOREM HeldActionsStaySafe == ServicesSpec => []Hold!ApprovalSafe
<1>1. ServicesInit => HoldInv  BY HoldInitInv DEF ServicesInit
<1>2. HoldInv /\ [ServicesNext]_services => HoldInv'
  <2> SUFFICES ASSUME HoldInv, [ServicesNext]_services  PROVE HoldInv'
    OBVIOUS
  <2>1. Hold!ApprovalNext \/ UNCHANGED holdVars  BY DEF ServicesNext, services
  <2>2. QED  BY <2>1, HoldStep, HoldVarsStay
<1>3. HoldInv => Hold!ApprovalSafe  BY HeldActionsAreSafe
<1>4. QED  BY <1>1, <1>2, <1>3, PTL DEF ServicesSpec

LEMMA SceneVarsStay ==
    /\ ControlInv /\ UNCHANGED planeVars => ControlInv'
    /\ OverlayInv /\ UNCHANGED overlayVars => OverlayInv'
BY ControlVarsStay, OverlayVarsStay

\* Every handoff posted is queued, on its way, shown or lost for a reason, and is shown
\* twice only if a poll took it while its push was awaited; the newest voice state is never
\* dropped for an older one (agent_registry.py, agents.py, agent_ws.py); what a user
\* approves is his and asked for in time; and once the companion window has heard
\* everything, its face tells the truth about the job, its pointer is where the agent
\* believes it to be, and speech pauses it no longer than the speaking face is drawn
\* (runner.py, overlay.py): whatever crosses, breaks or dies in between.
THEOREM CompanionsStaySafe == ServicesSpec => []CompanionSafe
<1> DEFINE Inv == ControlInv /\ HoldInv /\ OverlayInv
<1>1. ServicesInit => Inv
  BY ControlInitInv, HoldInitInv, OverlayInitInv DEF ServicesInit
<1>2. Inv /\ [ServicesNext]_services => Inv'
  <2> SUFFICES ASSUME Inv, [ServicesNext]_services  PROVE Inv'
    OBVIOUS
  <2>1. Plane!ControlNext \/ UNCHANGED planeVars  BY DEF ServicesNext, services
  <2>2. Hold!ApprovalNext \/ UNCHANGED holdVars  BY DEF ServicesNext, services
  <2>3. Overlay!CompanionNext \/ UNCHANGED overlayVars  BY DEF ServicesNext, services
  <2>4. ControlInv'  BY <2>1, ControlStepKeeps, SceneVarsStay
  <2>5. HoldInv'  BY <2>2, HoldStep, HoldVarsStay
  <2>6. OverlayInv'  BY <2>3, OverlayStepKeeps, SceneVarsStay
  <2>7. QED  BY <2>4, <2>5, <2>6
<1>3. Inv => CompanionSafe
  BY ControlsAreSafe, HeldActionsAreSafe, OverlaysAreSafe DEF CompanionSafe
<1>4. QED  BY <1>1, <1>2, <1>3, PTL DEF ServicesSpec
=============================================================================
