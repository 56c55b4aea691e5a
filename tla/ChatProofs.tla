----------------------------- MODULE ChatProofs -----------------------------
(***************************************************************************)
(* Proofs about the browser's chat.                                        *)
(*                                                                         *)
(* Of the actions a turn stages (PendingActions), for every set of         *)
(* subjects and tokens and every bound on stops, crashes and failures: they*)
(* implement OneShotApproval, and a clean stop leaves their rows behind.   *)
(*                                                                         *)
(* Of the turn itself (ChatTurn): what it stores is what happened, it is   *)
(* stored once, and its loop is bounded, wherever the browser leaves and   *)
(* whatever the model calls.                                               *)
(*                                                                         *)
(* Of the tool calls and results a request brings (ToolPairing), for every *)
(* length of the list and every set of ids: what is routed pairs.  The     *)
(* recursions of the repair and of the translations are taken as runs of   *)
(* steps (StepByStep), and what holds between two steps by induction along *)
(* the list (UpTo).                                                        *)
(***************************************************************************)
EXTENDS PendingActions, ChatTurn, ToolPairing, SequenceTheorems, FiniteSetTheorems,
        WellFoundedInduction, TLAPS

\* A token that was never staged has left no trace.
UnusedIsClean ==
    \A t \in Tokens : stream[t] = "unused" =>
        /\ owner[t] = NoOne /\ judge[t] = NoOne /\ ran[t] = 0
        /\ t \notin staged /\ t \notin old

\* resolve compares subjects, so a resolved future holds the owner's answer.
OwnerVotes ==
    \A t \in Tokens : waiter[t] \in {"approved", "denied"} => voter[t] = owner[t]

\* An action that ran has left memory, and nothing puts it back.
RanIsGone == \A t \in Tokens : ran[t] # 0 => t \notin staged /\ ran[t] = 1

IInv == TypeOK /\ WaitersExact
OnceInv == IInv /\ UnusedIsClean /\ OwnerVotes /\ RanIsGone

-----------------------------------------------------------------------------
(* Operators *)

\* Deletes are writes.
LEMMA DeleteType ==
    ASSUME NEW S \in SUBSET Tokens
    PROVE  Delete(S) \subseteq Write
BY DEF Delete, Write

\* Background tasks are writes.
LEMMA LaterTypes ==
    ASSUME writes \subseteq Write, NEW ws, ws \subseteq Write, Later(ws)
    PROVE  writes' \subseteq Write
BY DEF Later

\* _owned_record finds at most the token asked for, of its owner, among those
\* staged and not expired.
LEMMA MineFacts ==
    ASSUME NEW u, NEW t \in Tokens, TypeOK
    PROVE  /\ Mine(u, t) \subseteq {t}
           /\ Mine(u, t) \subseteq Known
           /\ \A k \in Mine(u, t) : k = t /\ owner[t] = u
           /\ Known \subseteq staged
BY DEF Mine, Known, TypeOK

\* take keeps the types.
LEMMA TakeTypes ==
    ASSUME NEW u, NEW t \in Tokens, TypeOK, Take(u, t)
    PROVE  /\ staged' \subseteq staged
           /\ resolved' \subseteq Tokens
           /\ writes' \subseteq Write
<1>1. Mine(u, t) \subseteq Tokens /\ Known \subseteq staged
  BY MineFacts
<1>2. SweptRows \cup Delete(Mine(u, t)) \subseteq Write
  BY <1>1, DeleteType DEF SweptRows, TypeOK
<1>3. QED  BY <1>1, <1>2, LaterTypes DEF Take, TypeOK

\* Running an action keeps the types.
LEMMA RunTypes ==
    ASSUME NEW by \in Users \cup {NoOne}, NEW S, TypeOK, Run(by, S)
    PROVE  ran' \in [Tokens -> Nat] /\ judge' \in [Tokens -> Users \cup {NoOne}]
BY DEF Run, TypeOK

\* confirm_action keeps the types and runs at most its own token.
LEMMA ConfirmTypes ==
    ASSUME NEW by \in Users \cup {NoOne}, NEW u, NEW t \in Tokens,
           NEW ok \in BOOLEAN, TypeOK, ConfirmAction(by, u, t, ok)
    PROVE  /\ staged' \subseteq staged
           /\ resolved' \subseteq Tokens
           /\ writes' \subseteq Write
           /\ ran' \in [Tokens -> Nat]
           /\ judge' \in [Tokens -> Users \cup {NoOne}]
           /\ \A k \in Tokens \ {t} : ran'[k] = ran[k] /\ judge'[k] = judge[k]
<1>1. Mine(u, t) \subseteq {t}  BY MineFacts
<1>2. QED  BY <1>1, TakeTypes, RunTypes DEF ConfirmAction, Run, TypeOK

\* put keeps the types.
LEMMA PutTypes ==
    ASSUME NEW u \in Users, NEW t \in Tokens, NEW how \in Stream,
           NEW ws, ws \subseteq Write, TypeOK, Put(u, t, how, ws)
    PROVE  /\ writes' \subseteq Write
           /\ owner' \in [Tokens -> Users \cup {NoOne}]
           /\ stream' \in [Tokens -> Stream]
<1>1. Insert(t) \subseteq Write  BY DEF Insert, Write
<1>2. SweptRows \subseteq Write  BY DeleteType DEF SweptRows, TypeOK
<1>3. QED  BY <1>1, <1>2, LaterTypes DEF Put, TypeOK

-----------------------------------------------------------------------------
(* Types and waiters *)

\* Types are kept by every step.
LEMMA TypeStep ==
    ASSUME TypeOK, [Next]_vars
    PROVE  TypeOK'
<1>1. CASE UNCHANGED vars
  BY <1>1 DEF TypeOK, vars, store, db, chat, effects, counts
<1>2. ASSUME NEW u \in Users, NEW t \in Tokens, Stage(u, t) PROVE TypeOK'
  <2>1. PICK how \in {"mcp", "telling"} : Put(u, t, how, {})
    BY <1>2 DEF Stage
  <2>2. how \in Stream  BY DEF Stream
  <2>3. QED  BY <1>2, <2>1, <2>2, PutTypes
             DEF Stage, TypeOK, Known, effects, counts
<1>3. ASSUME NEW u \in Users, NEW t \in Tokens, StageAuto(u, t) PROVE TypeOK'
  <2>1. "auto" \in Stream /\ Delete({t}) \subseteq Write
    BY DeleteType DEF Stream
  <2>2. QED  BY <1>3, <2>1, PutTypes, RunTypes
             DEF StageAuto, TypeOK, Known, counts
<1>4. ASSUME NEW u \in Users, NEW t \in Tokens, NEW ok \in BOOLEAN,
             McpConfirm(u, t, ok)
      PROVE  TypeOK'
  <2>1. /\ staged' \subseteq staged /\ resolved' \subseteq Tokens
        /\ writes' \subseteq Write /\ ran' \in [Tokens -> Nat]
        /\ judge' \in [Tokens -> Users \cup {NoOne}]
    BY <1>4, ConfirmTypes DEF McpConfirm
  <2>2. QED  BY <1>4, <2>1 DEF McpConfirm, TypeOK, chat, counts
<1>5. ASSUME NEW u \in Users, NEW t \in Tokens, NEW ok \in BOOLEAN,
             ChatApprove(u, t, ok)
      PROVE  TypeOK'
  <2>1. CASE Resolve(u, t, ok)
    BY <1>5, <2>1 DEF ChatApprove, Resolve, TypeOK, Waiter, store, effects, counts
  <2>2. CASE PopOrphan(u, t)
    <3>1. Mine(u, t) \subseteq Tokens  BY MineFacts
    <3>2. QED  BY <1>5, <2>2, <3>1, TakeTypes
               DEF ChatApprove, PopOrphan, TypeOK, effects, counts
  <2>3. QED  BY <1>5, <2>1, <2>2 DEF ChatApprove
<1>6. CASE Peek
  <2>1. SweptRows \subseteq Write  BY DeleteType DEF SweptRows, TypeOK
  <2>2. QED  BY <1>6, <2>1, LaterTypes DEF Peek, TypeOK, Known, chat, effects, counts
<1>7. ASSUME NEW t \in Tokens, StreamWaits(t) PROVE TypeOK'
  BY <1>7 DEF StreamWaits, TypeOK, Stream, Waiter, store, db, effects, counts
<1>8. ASSUME NEW t \in Tokens, NEW ok \in BOOLEAN, up, StreamConfirms(t, ok)
      PROVE  TypeOK'
  <2>1. voter[t] \in Users \cup {NoOne}  BY DEF TypeOK
  <2>2. /\ staged' \subseteq staged /\ resolved' \subseteq Tokens
        /\ writes' \subseteq Write /\ ran' \in [Tokens -> Nat]
        /\ judge' \in [Tokens -> Users \cup {NoOne}]
    BY <1>8, <2>1, ConfirmTypes DEF StreamConfirms
  <2>3. QED  BY <1>8, <2>2 DEF StreamConfirms, TypeOK, Stream, Waiter, counts
<1>9. ASSUME NEW t \in Tokens, StreamDrops(t) PROVE TypeOK'
  BY <1>9 DEF StreamDrops, TypeOK, Stream, Waiter, store, db, effects, counts
<1>10. ASSUME NEW t \in Tokens, Expire(t) PROVE TypeOK'
  BY <1>10 DEF Expire, TypeOK, store, db, chat, effects, counts
<1>11. ASSUME NEW w \in writes, Commit(w) PROVE TypeOK'
  <2>1. w.of \subseteq Tokens  BY DEF TypeOK, Write
  <2>2. QED  BY <1>11, <2>1 DEF Commit, TypeOK, store, chat, effects, counts
<1>12. ASSUME NEW w \in writes, FailWrite(w) PROVE TypeOK'
  BY <1>12, PendingAssumption DEF FailWrite, TypeOK, store, chat, effects
<1>13. CASE Shutdown \/ Crash
  <2>1. stops' \in 0 .. MaxStops /\ crashes' \in 0 .. MaxCrashes
    BY <1>13, PendingAssumption DEF Shutdown, Crash, ProcessEnds, TypeOK
  <2>2. QED  BY <1>13, <2>1
             DEF Shutdown, Crash, ProcessEnds, TypeOK, Stream, Waiter, effects
<1>14. CASE Boot
  BY <1>14 DEF Boot, TypeOK, store, db, chat, effects, counts
<1>15. QED
  BY <1>1, <1>2, <1>3, <1>4, <1>5, <1>6, <1>7, <1>8, <1>9, <1>10, <1>11,
     <1>12, <1>13, <1>14 DEF Next, StreamWakes, StreamTimesOut

\* A waiter comes and goes with its stream.
LEMMA WaitStep ==
    ASSUME TypeOK, WaitersExact, [Next]_vars
    PROVE  WaitersExact'
<1>1. ASSUME UNCHANGED <<stream, waiter>> PROVE WaitersExact'
  BY <1>1 DEF WaitersExact
<1>2. ASSUME NEW u \in Users, NEW t \in Tokens, Stage(u, t) \/ StageAuto(u, t)
      PROVE  WaitersExact'
  <2>1. /\ stream[t] = "unused" /\ UNCHANGED waiter
        /\ stream'[t] # "waiting" /\ \A k \in Tokens \ {t} : stream'[k] = stream[k]
    BY <1>2 DEF Stage, StageAuto, Put, TypeOK
  <2>2. QED  BY <2>1 DEF WaitersExact
<1>3. ASSUME NEW u \in Users, NEW t \in Tokens, NEW ok \in BOOLEAN,
             ChatApprove(u, t, ok)
      PROVE  WaitersExact'
  BY <1>3 DEF ChatApprove, Resolve, PopOrphan, WaitersExact, TypeOK
<1>4. ASSUME NEW t \in Tokens,
             \/ StreamWaits(t) \/ StreamDrops(t)
             \/ \E ok \in BOOLEAN : StreamConfirms(t, ok)
      PROVE  WaitersExact'
  BY <1>4 DEF StreamWaits, StreamDrops, StreamConfirms, WaitersExact, TypeOK
<1>5. CASE Shutdown \/ Crash
  BY <1>5 DEF Shutdown, Crash, ProcessEnds, WaitersExact
<1>6. QED
  BY <1>1, <1>2, <1>3, <1>4, <1>5
     DEF Next, StreamWakes, StreamTimesOut, McpConfirm, Peek, Expire, Commit,
         FailWrite, Boot, vars, chat

\* Nothing has run, and nothing is stored, at the start.
LEMMA InitInv ==
    ASSUME Init
    PROVE  OnceInv
<1>1. TypeOK
  BY PendingAssumption DEF Init, TypeOK, Stream, Waiter
<1>2. QED
  BY <1>1 DEF Init, OnceInv, IInv, WaitersExact, UnusedIsClean, OwnerVotes, RanIsGone

\* Types and waiters hold in every reachable state, restarts included.
THEOREM Invariance == Spec => []IInv
<1>1. Init => IInv  BY InitInv DEF OnceInv
<1>2. IInv /\ [Next]_vars => IInv'  BY TypeStep, WaitStep DEF IInv
<1>3. QED  BY <1>1, <1>2, PTL DEF Spec

\* The state is well typed, with and without persistence.
THEOREM PendingTypeCorrect == Spec => []TypeOK
<1>1. IInv => TypeOK  BY DEF IInv
<1>2. QED  BY Invariance, <1>1, PTL

\* The approval rendezvous leaks no entry: it holds one for exactly the
\* streams that wait, through timeouts, disconnects, crashes and shutdowns.
THEOREM WaitersAreExact == Spec => []WaitersExact
<1>1. IInv => WaitersExact  BY DEF IInv
<1>2. QED  BY Invariance, <1>1, PTL

-----------------------------------------------------------------------------
(* A token is popped once *)

\* confirm_action pops the record before it runs the action.
LEMMA ConfirmOnce ==
    ASSUME OnceInv, NEW by, NEW u, NEW t \in Tokens, NEW ok \in BOOLEAN,
           ConfirmAction(by, u, t, ok), stream[t] # "unused",
           UNCHANGED <<owner, old>>,
           \A k \in Tokens : stream'[k] = "unused" => stream[k] = "unused"
    PROVE  UnusedIsClean' /\ RanIsGone'
<1>1. TypeOK  BY DEF OnceInv, IInv
<1>2. /\ Mine(u, t) \subseteq {t} /\ Mine(u, t) \subseteq Known
      /\ Known \subseteq staged
  BY <1>1, MineFacts
<1>3. \A k \in Tokens :
        /\ ran'[k] = IF k \in Mine(u, t) /\ ok THEN ran[k] + 1 ELSE ran[k]
        /\ k # t => judge'[k] = judge[k]
  BY <1>2 DEF ConfirmAction, Run
<1>4. staged' = Known \ Mine(u, t)  BY DEF ConfirmAction, Take
<1>5. UnusedIsClean'
  BY <1>2, <1>3, <1>4 DEF OnceInv, UnusedIsClean
<1>6. RanIsGone'
  BY <1>1, <1>2, <1>3, <1>4 DEF OnceInv, RanIsGone, TypeOK
<1>7. QED  BY <1>5, <1>6

\* No step brings an action that ran back to memory.
LEMMA OnceStep ==
    ASSUME OnceInv, [Next]_vars
    PROVE  OnceInv'
<1>1. IInv'  BY TypeStep, WaitStep DEF OnceInv, IInv
<1>2. TypeOK /\ UnusedIsClean /\ OwnerVotes /\ RanIsGone  BY DEF OnceInv, IInv
<1> DEFINE Goal == UnusedIsClean' /\ OwnerVotes' /\ RanIsGone'
<1>3. ASSUME staged' \subseteq staged,
             UNCHANGED <<owner, old, ran, judge>>,
             \A k \in Tokens : stream'[k] = "unused" => stream[k] = "unused"
      PROVE  UnusedIsClean' /\ RanIsGone'
  BY <1>2, <1>3 DEF UnusedIsClean, RanIsGone
<1>4. ASSUME UNCHANGED <<owner, waiter, voter>> PROVE OwnerVotes'
  BY <1>2, <1>4 DEF OwnerVotes
<1>5. ASSUME UNCHANGED <<staged, owner, stream, old, waiter, voter, ran, judge>>
      PROVE  Goal
  BY <1>3, <1>4, <1>5
<1>6. ASSUME NEW u \in Users, NEW t \in Tokens, Stage(u, t) \/ StageAuto(u, t)
      PROVE  Goal
  <2>1. /\ stream[t] = "unused" /\ UNCHANGED <<old, waiter, voter>>
        /\ stream'[t] # "unused"
        /\ \A k \in Tokens \ {t} : stream'[k] = stream[k] /\ owner'[k] = owner[k]
    BY <1>2, <1>6 DEF Stage, StageAuto, Put, TypeOK
  <2>2. /\ \A k \in Tokens \ {t} : /\ ran'[k] = ran[k] /\ judge'[k] = judge[k]
                                   /\ k \in staged' => k \in staged
        /\ ran'[t] # 0 => t \notin staged' /\ ran'[t] = 1
    <3>1. ran[t] = 0 /\ t \notin staged  BY <1>2, <2>1 DEF UnusedIsClean
    <3>2. CASE Stage(u, t)
      BY <3>1, <3>2 DEF Stage, Known, effects
    <3>3. CASE StageAuto(u, t)
      BY <3>1, <3>3 DEF StageAuto, Known, Run
    <3>4. QED  BY <1>6, <3>2, <3>3
  <2>3. waiter[t] = "absent"
    BY <2>1 DEF OnceInv, IInv, WaitersExact
  <2>4. OwnerVotes'  BY <1>2, <2>1, <2>3 DEF OwnerVotes
  <2>5. QED  BY <1>2, <2>1, <2>2, <2>4 DEF UnusedIsClean, RanIsGone
<1>7. ASSUME NEW u \in Users, NEW t \in Tokens, NEW ok \in BOOLEAN,
             McpConfirm(u, t, ok)
      PROVE  Goal
  BY <1>4, <1>7, ConfirmOnce DEF McpConfirm, Told, chat
<1>8. ASSUME NEW u \in Users, NEW t \in Tokens, NEW ok \in BOOLEAN,
             ChatApprove(u, t, ok)
      PROVE  Goal
  <2>1. staged' \subseteq staged
    BY <1>2, <1>8, TakeTypes DEF ChatApprove, Resolve, PopOrphan, store
  <2>2. UnusedIsClean' /\ RanIsGone'
    BY <1>3, <1>8, <2>1 DEF ChatApprove, effects
  <2>3. OwnerVotes'
    BY <1>2, <1>8 DEF ChatApprove, Resolve, PopOrphan, OwnerVotes, TypeOK
  <2>4. QED  BY <2>2, <2>3
<1>9. ASSUME Peek PROVE Goal
  <2>1. /\ staged' \subseteq staged
        /\ UNCHANGED <<owner, old, stream, waiter, voter, ran, judge>>
    BY <1>9 DEF Peek, Known, chat, effects
  <2>2. UnusedIsClean' /\ RanIsGone'  BY <1>3, <2>1
  <2>3. QED  BY <1>4, <2>1, <2>2
<1>10. ASSUME NEW t \in Tokens, StreamWaits(t) \/ StreamDrops(t) PROVE Goal
  <2>1. \A k \in Tokens : stream'[k] = "unused" => stream[k] = "unused"
    BY <1>2, <1>10 DEF StreamWaits, StreamDrops, TypeOK
  <2>2. UnusedIsClean' /\ RanIsGone'
    BY <1>3, <1>10, <2>1 DEF StreamWaits, StreamDrops, store, effects
  <2>3. OwnerVotes'
    BY <1>2, <1>10 DEF StreamWaits, StreamDrops, OwnerVotes, TypeOK
  <2>4. QED  BY <2>2, <2>3
<1>11. ASSUME NEW t \in Tokens, NEW ok \in BOOLEAN, stream[t] = "waiting",
              StreamConfirms(t, ok)
       PROVE  Goal
  <2>1. \A k \in Tokens : stream'[k] = "unused" => stream[k] = "unused"
    BY <1>2, <1>11 DEF StreamConfirms, TypeOK
  <2>2. UnusedIsClean' /\ RanIsGone'
    BY <1>11, <2>1, ConfirmOnce DEF StreamConfirms
  <2>3. OwnerVotes'
    BY <1>2, <1>11 DEF StreamConfirms, OwnerVotes, TypeOK
  <2>4. QED  BY <2>2, <2>3
<1>12. ASSUME NEW t \in Tokens, Expire(t) PROVE Goal
  <2>1. /\ UNCHANGED <<staged, owner, stream, waiter, voter, ran, judge>>
        /\ stream[t] # "unused" /\ old' = old \cup {t}
    BY <1>12 DEF Expire, store, chat, effects
  <2>2. QED  BY <1>2, <2>1 DEF UnusedIsClean, OwnerVotes, RanIsGone
<1>13. ASSUME Shutdown \/ Crash PROVE Goal
  <2>1. /\ staged' = {} /\ UNCHANGED <<owner, old, voter, ran, judge>>
        /\ \A k \in Tokens : waiter'[k] = "absent"
        /\ \A k \in Tokens : stream'[k] = "unused" => stream[k] = "unused"
    BY <1>13 DEF Shutdown, Crash, ProcessEnds, effects
  <2>2. UnusedIsClean' /\ RanIsGone'  BY <1>3, <2>1
  <2>3. OwnerVotes'  BY <2>1 DEF OwnerVotes
  <2>4. QED  BY <2>2, <2>3
<1>14. ASSUME Boot PROVE Goal
  <2>1. UNCHANGED <<staged, owner, stream, old, waiter, voter, ran, judge>>
    BY <1>14 DEF Boot, store, chat, effects
  <2>2. QED  BY <1>5, <2>1
<1> HIDE DEF Goal
<1>15. Goal
  <2>1. CASE UNCHANGED vars
    BY <1>5, <2>1 DEF vars, store, chat, effects
  <2>2. ASSUME NEW w \in writes, Commit(w) \/ FailWrite(w) PROVE Goal
    BY <1>5, <2>2 DEF Commit, FailWrite, store, chat, effects
  <2>3. ASSUME NEW t \in Tokens, StreamWakes(t) \/ StreamTimesOut(t) PROVE Goal
    <3>1. stream[t] = "waiting"
      BY <2>3 DEF StreamWakes, StreamTimesOut, OnceInv, IInv, WaitersExact
    <3>2. PICK ok \in BOOLEAN : StreamConfirms(t, ok)
      BY <2>3 DEF StreamWakes, StreamTimesOut
    <3>3. QED  BY <1>11, <3>1, <3>2
  <2>4. QED
    BY <1>6, <1>7, <1>8, <1>9, <1>10, <1>12, <1>13, <1>14, <2>1, <2>2, <2>3
       DEF Next
<1>16. QED  BY <1>1, <1>15 DEF OnceInv, Goal

\* Start-up reads no rows, so a token is handed to an executor at most once.
THEOREM RunsOnce == Spec => []RunOnce
<1>1. Init => OnceInv  BY InitInv
<1>2. OnceInv /\ [Next]_vars => OnceInv'  BY OnceStep
<1>3. OnceInv => RunOnce
  BY DEF OnceInv, IInv, TypeOK, RanIsGone, RunOnce
<1>4. QED  BY <1>1, <1>2, <1>3, PTL DEF Spec

-----------------------------------------------------------------------------
(* Refinement of OneShotApproval *)

\* The phase of a token, by where it is.
LEMMA PhaseCases ==
    ASSUME NEW t \in Tokens, TypeOK
    PROVE  /\ stream[t] = "unused" => Phase[t] = "new"
           /\ stream[t] # "unused" /\ ran[t] > 0 => Phase[t] = "run"
           /\ stream[t] # "unused" /\ ran[t] = 0 /\ t \in Known => Phase[t] = "staged"
           /\ stream[t] # "unused" /\ ran[t] = 0 /\ t \notin Known => Phase[t] = "void"
<1>1. ran[t] \in Nat  BY DEF TypeOK
<1>2. QED  BY <1>1 DEF Phase

\* The phases form a function of the tokens.
LEMMA PhaseFun ==
    /\ Phase = [t \in Tokens |-> Phase[t]]
    /\ Phase' = [t \in Tokens |-> Phase'[t]]
BY DEF Phase

\* Which phase a step leaves a token in.
LEMMA PhaseAfter ==
    ASSUME NEW t \in Tokens, TypeOK, TypeOK',
           stream'[t] = "unused" <=> stream[t] = "unused", ran'[t] = ran[t]
    PROVE  /\ (t \in Known' <=> t \in Known) => Phase'[t] = Phase[t]
           /\ (Phase[t] = "staged" /\ t \notin Known') => Phase'[t] = "void"
<1>1. ran[t] \in Nat /\ ran'[t] \in Nat  BY DEF TypeOK
<1>2. QED  BY <1>1, PhaseCases DEF Phase

\* Steps after which no token is used, known or run differently.
LEMMA PhaseKept ==
    ASSUME TypeOK, TypeOK', Known' = Known, UNCHANGED ran,
           \A t \in Tokens : stream'[t] = "unused" <=> stream[t] = "unused"
    PROVE  UNCHANGED Phase
<1>1. \A t \in Tokens : Phase'[t] = Phase[t]  BY PhaseAfter
<1>2. QED  BY <1>1, PhaseFun

\* Steps that only take tokens out of memory, or age them.
LEMMA PhaseVoided ==
    ASSUME OnceInv, TypeOK', Known' \subseteq Known, UNCHANGED <<ran, judge, owner>>,
           \A t \in Tokens : stream'[t] = "unused" <=> stream[t] = "unused"
    PROVE  Abstract!Void(Known \ Known')
<1>1. TypeOK /\ UnusedIsClean /\ RanIsGone  BY DEF OnceInv, IInv
<1>2. ASSUME NEW t \in Tokens, t \in Known \ Known'
      PROVE  Phase[t] = "staged" /\ Phase'[t] = "void"
  <2>1. stream[t] # "unused" /\ ran[t] = 0
    BY <1>1, <1>2 DEF Known, UnusedIsClean, RanIsGone
  <2>2. Phase[t] = "staged"  BY <1>1, <1>2, <2>1, PhaseCases
  <2>3. QED  BY <1>1, <1>2, <2>2, PhaseAfter
<1>3. ASSUME NEW t \in Tokens, t \notin Known \ Known' PROVE Phase'[t] = Phase[t]
  BY <1>1, <1>3, PhaseAfter
<1>4. Known \ Known' \subseteq Tokens  BY <1>1 DEF Known, TypeOK
<1>5. Phase' = [t \in Tokens |-> IF t \in Known \ Known' THEN "void" ELSE Phase[t]]
  BY <1>2, <1>3, PhaseFun
<1>6. QED  BY <1>2, <1>4, <1>5 DEF Abstract!Void

\* confirm_action runs its token or voids it.
LEMMA ConfirmImplements ==
    ASSUME OnceInv, TypeOK', NEW u, NEW t \in Tokens, NEW by, NEW ok \in BOOLEAN,
           ConfirmAction(by, u, t, ok), ok => by = u, UNCHANGED <<owner, old>>,
           stream[t] # "unused",
           \A k \in Tokens : stream'[k] = "unused" <=> stream[k] = "unused"
    PROVE  Abstract!Run(t) \/ \E S \in SUBSET Tokens : Abstract!Void(S)
<1>1. TypeOK /\ UnusedIsClean /\ RanIsGone  BY DEF OnceInv, IInv
<1>2. /\ Mine(u, t) \subseteq {t} /\ Mine(u, t) \subseteq Known
      /\ \A k \in Mine(u, t) : owner[k] = u
  BY <1>1, MineFacts
<1>3. Known' = Known \ Mine(u, t)
  BY DEF ConfirmAction, Take, Known
<1>4. CASE ~ok \/ Mine(u, t) = {}
  <2>1. ran' = [k \in Tokens |-> ran[k]] /\ judge' = [k \in Tokens |-> judge[k]]
    BY <1>4 DEF ConfirmAction, Run
  <2>2. UNCHANGED <<ran, judge>>  BY <1>1, <2>1 DEF TypeOK
  <2>3. Abstract!Void(Known \ Known')  BY <1>3, <2>2, PhaseVoided
  <2>4. Known \ Known' \in SUBSET Tokens  BY <1>1 DEF Known, TypeOK
  <2>5. QED  BY <2>3, <2>4
<1>5. CASE ok /\ Mine(u, t) # {}
  <2>1. Mine(u, t) = {t} /\ t \in Known /\ by = owner[t]  BY <1>2, <1>5
  <2>2. ran[t] = 0  BY <1>1, <2>1 DEF Known, RanIsGone
  <2>3. Phase[t] = "staged"  BY <1>1, <2>1, <2>2, PhaseCases
  <2>4. /\ ran' = [ran EXCEPT ![t] = 1]
        /\ judge' = [judge EXCEPT ![t] = owner[t]]
    <3>1. /\ ran' = [k \in Tokens |-> IF k = t THEN ran[k] + 1 ELSE ran[k]]
          /\ judge' = [k \in Tokens |-> IF k = t THEN owner[t] ELSE judge[k]]
      BY <1>5, <2>1 DEF ConfirmAction, Run
    <3>2. ran \in [Tokens -> Nat] /\ judge \in [Tokens -> Users \cup {NoOne}]
      BY <1>1 DEF TypeOK
    <3>3. ran' = [ran EXCEPT ![t] = 1]
      <4>1. \A k \in Tokens : ran'[k] = IF k = t THEN 1 ELSE ran[k]
        BY <2>2, <3>1
      <4>2. ran' = [k \in Tokens |-> ran'[k]]  BY <3>1
      <4>3. QED  BY <3>2, <4>1, <4>2
    <3>4. judge' = [judge EXCEPT ![t] = owner[t]]  BY <3>1, <3>2
    <3>5. QED  BY <3>3, <3>4
  <2>5. Phase'[t] = "run"
    <3>1. ran'[t] > 0 /\ stream'[t] # "unused"  BY <1>1, <2>4 DEF TypeOK
    <3>2. QED  BY <3>1 DEF Phase
  <2>6. ASSUME NEW k \in Tokens, k # t PROVE Phase'[k] = Phase[k]
    <3>1. ran'[k] = ran[k] /\ (k \in Known' <=> k \in Known)
      BY <1>1, <1>3, <2>1, <2>4, <2>6 DEF TypeOK
    <3>2. QED  BY <1>1, <3>1, PhaseAfter
  <2>7. Phase' = [Phase EXCEPT ![t] = "run"]  BY <2>5, <2>6, PhaseFun
  <2>8. QED  BY <2>3, <2>4, <2>7 DEF Abstract!Run
<1>6. QED  BY <1>4, <1>5

\* put is a Stage of OneShotApproval, or a StageAndRun in auto mode.
LEMMA StageImplements ==
    ASSUME OnceInv, TypeOK', NEW u \in Users, NEW t \in Tokens,
           Stage(u, t) \/ StageAuto(u, t)
    PROVE  Abstract!Stage(u, t) \/ Abstract!StageAndRun(u, t)
<1>1. TypeOK /\ UnusedIsClean /\ RanIsGone  BY DEF OnceInv, IInv
<1>2. /\ stream[t] = "unused" /\ stream'[t] # "unused" /\ UNCHANGED old
      /\ \A k \in Tokens \ {t} : stream'[k] = stream[k]
      /\ owner' = [owner EXCEPT ![t] = u]
  BY <1>1 DEF Stage, StageAuto, Put, TypeOK
<1>3. ran[t] = 0 /\ t \notin staged /\ t \notin old
  BY <1>1, <1>2 DEF UnusedIsClean
<1>4. Phase[t] = "new"  BY <1>1, <1>2, PhaseCases
<1>5. ASSUME NEW k \in Tokens, k # t, ran'[k] = ran[k], k \in Known' <=> k \in Known
      PROVE  Phase'[k] = Phase[k]
  BY <1>1, <1>2, <1>5, PhaseAfter
<1>6. CASE Stage(u, t)
  <2>1. Known' = Known \cup {t} /\ UNCHANGED <<ran, judge>>
    BY <1>2, <1>3, <1>6 DEF Stage, Known, effects
  <2>2. Phase'[t] = "staged"
    <3>1. stream'[t] # "unused" /\ ran'[t] = 0 /\ t \in Known'
      BY <1>2, <1>3, <2>1
    <3>2. QED  BY <3>1 DEF Phase
  <2>3. Phase' = [Phase EXCEPT ![t] = "staged"]
    BY <1>5, <2>1, <2>2, PhaseFun
  <2>4. QED  BY <1>2, <1>4, <2>1, <2>3 DEF Abstract!Stage
<1>7. CASE StageAuto(u, t)
  <2>1. /\ Known' = Known
        /\ ran' = [ran EXCEPT ![t] = 1] /\ judge' = [judge EXCEPT ![t] = u]
    <3>1. /\ ran' = [k \in Tokens |-> IF k = t THEN ran[k] + 1 ELSE ran[k]]
          /\ judge' = [k \in Tokens |-> IF k = t THEN u ELSE judge[k]]
      BY <1>7 DEF StageAuto, Run
    <3>2. ran \in [Tokens -> Nat] /\ judge \in [Tokens -> Users \cup {NoOne}]
      BY <1>1 DEF TypeOK
    <3>3. Known' = Known  BY <1>2, <1>7 DEF StageAuto, Known
    <3>4. ran' = [ran EXCEPT ![t] = 1]
      <4>1. \A k \in Tokens : ran'[k] = IF k = t THEN 1 ELSE ran[k]
        BY <1>3, <3>1
      <4>2. ran' = [k \in Tokens |-> ran'[k]]  BY <3>1
      <4>3. QED  BY <3>2, <4>1, <4>2
    <3>5. judge' = [judge EXCEPT ![t] = u]  BY <3>1, <3>2
    <3>6. QED  BY <3>3, <3>4, <3>5
  <2>2. Phase'[t] = "run"
    <3>1. stream'[t] # "unused" /\ ran'[t] > 0  BY <1>1, <1>2, <2>1 DEF TypeOK
    <3>2. QED  BY <3>1 DEF Phase
  <2>3. \A k \in Tokens \ {t} : ran'[k] = ran[k]  BY <1>1, <2>1 DEF TypeOK
  <2>4. Phase' = [Phase EXCEPT ![t] = "run"]
    BY <1>5, <2>1, <2>2, <2>3, PhaseFun
  <2>5. QED  BY <1>2, <1>4, <2>1, <2>4 DEF Abstract!StageAndRun
<1>8. QED  BY <1>6, <1>7

\* Every step is a step of OneShotApproval or a stutter.
LEMMA StepImplements ==
    ASSUME OnceInv, [Next]_vars
    PROVE  [Abstract!Next]_Abstract!vars
<1>1. TypeOK /\ OwnerVotes /\ WaitersExact  BY DEF OnceInv, IInv
<1>2. TypeOK'  BY <1>1, TypeStep
<1> DEFINE Void == \E S \in SUBSET Tokens : Abstract!Void(S)
<1>3. ASSUME Known' = Known, UNCHANGED <<owner, ran, judge>>,
             \A t \in Tokens : stream'[t] = "unused" <=> stream[t] = "unused"
      PROVE  UNCHANGED Abstract!vars
  BY <1>1, <1>2, <1>3, PhaseKept DEF Abstract!vars
<1>4. ASSUME Known' \subseteq Known, UNCHANGED <<owner, ran, judge>>,
             \A t \in Tokens : stream'[t] = "unused" <=> stream[t] = "unused"
      PROVE  Void
  <2>1. Known \ Known' \subseteq Tokens  BY <1>1 DEF TypeOK, Known
  <2>2. QED  BY <1>2, <1>4, <2>1, PhaseVoided
<1>5. ASSUME NEW u \in Users, NEW t \in Tokens, NEW ok \in BOOLEAN,
             McpConfirm(u, t, ok)
      PROVE  Abstract!Run(t) \/ Void
  BY <1>2, <1>5, ConfirmImplements DEF McpConfirm, Told, chat
<1>6. ASSUME NEW u \in Users, NEW t \in Tokens, NEW ok \in BOOLEAN,
             ChatApprove(u, t, ok)
      PROVE  Void
  <2>1. Known' \subseteq Known
    BY <1>6 DEF ChatApprove, Resolve, PopOrphan, Take, Known, store
  <2>2. QED  BY <1>4, <1>6, <2>1 DEF ChatApprove, effects
<1>7. ASSUME Peek PROVE Void
  BY <1>4, <1>7 DEF Peek, Known, chat, effects
<1>8. ASSUME NEW t \in Tokens, StreamWaits(t) \/ StreamDrops(t)
      PROVE  UNCHANGED Abstract!vars
  <2>1. \A k \in Tokens : stream'[k] = "unused" <=> stream[k] = "unused"
    BY <1>1, <1>8 DEF StreamWaits, StreamDrops, TypeOK
  <2>2. QED  BY <1>3, <1>8, <2>1 DEF StreamWaits, StreamDrops, Known, store, effects
<1>9. ASSUME NEW t \in Tokens, StreamWakes(t) \/ StreamTimesOut(t)
      PROVE  Abstract!Run(t) \/ Void
  <2>1. stream[t] = "waiting"
    BY <1>1, <1>9 DEF StreamWakes, StreamTimesOut, WaitersExact
  <2>2. PICK ok \in BOOLEAN : StreamConfirms(t, ok) /\ (ok => waiter[t] = "approved")
    BY <1>9 DEF StreamWakes, StreamTimesOut
  <2>3. ok => voter[t] = owner[t]  BY <1>1, <2>2 DEF OwnerVotes
  <2>4. \A k \in Tokens : stream'[k] = "unused" <=> stream[k] = "unused"
    BY <1>1, <2>1, <2>2 DEF StreamConfirms, TypeOK
  <2>5. QED  BY <1>2, <2>1, <2>2, <2>3, <2>4, ConfirmImplements DEF StreamConfirms
<1>10. ASSUME NEW t \in Tokens, Expire(t) PROVE Void
  BY <1>4, <1>10 DEF Expire, Known, store, chat, effects
<1>11. ASSUME Shutdown \/ Crash PROVE Void
  <2>1. /\ Known' \subseteq Known /\ UNCHANGED <<owner, ran, judge>>
        /\ \A k \in Tokens : stream'[k] = "unused" <=> stream[k] = "unused"
    BY <1>11 DEF Shutdown, Crash, ProcessEnds, Known, effects
  <2>2. QED  BY <1>4, <2>1
<1>12. ASSUME \/ UNCHANGED vars \/ Boot
              \/ \E w \in writes : Commit(w) \/ FailWrite(w)
       PROVE  UNCHANGED Abstract!vars
  <2>1. UNCHANGED <<staged, old, owner, ran, judge, stream>>
    BY <1>12 DEF vars, Boot, Commit, FailWrite, store, chat, effects
  <2>2. QED  BY <1>3, <2>1 DEF Known
<1> HIDE DEF Void
<1>13. ASSUME NEW u \in Users, NEW t \in Tokens, Stage(u, t) \/ StageAuto(u, t)
       PROVE  Abstract!Stage(u, t) \/ Abstract!StageAndRun(u, t)
  BY <1>2, <1>13, StageImplements
<1>14. \/ Void \/ UNCHANGED Abstract!vars
       \/ \E t \in Tokens : Abstract!Run(t)
       \/ \E u \in Users, t \in Tokens : Abstract!Stage(u, t) \/ Abstract!StageAndRun(u, t)
  BY <1>5, <1>6, <1>7, <1>8, <1>9, <1>10, <1>11, <1>12, <1>13 DEF Next
<1>15. QED  BY <1>14 DEF Void, Abstract!Next

\* The staging store, confirm_action and the approval rendezvous implement
\* OneShotApproval: whatever two users confirm, decline, time out or drop, in
\* whatever order, an action runs at most once and only on its owner's word.
THEOREM RefinesOneShotApproval == Spec => OneShot
<1>1. Init => Abstract!Init
  <2>1. SUFFICES ASSUME Init PROVE Abstract!Init  OBVIOUS
  <2>2. \A t \in Tokens : Phase[t] = "new"  BY <2>1 DEF Init, Phase
  <2>3. Phase = [t \in Tokens |-> "new"]  BY <2>2, PhaseFun
  <2>4. QED  BY <2>1, <2>3 DEF Init, Abstract!Init
<1>2. Init => OnceInv  BY InitInv
<1>3. OnceInv /\ [Next]_vars => OnceInv'  BY OnceStep
<1>4. OnceInv /\ [Next]_vars => [Abstract!Next]_Abstract!vars  BY StepImplements
<1>5. QED  BY <1>1, <1>2, <1>3, <1>4, PTL DEF Spec, OneShot, Abstract!Spec
-----------------------------------------------------------------------------
(* What a clean shutdown leaves behind.                                    *)

Undone == {t \in Tokens : stream[t] # "unused" /\ t \notin resolved \cup old}
Unsaved(t) == Insert(t) \subseteq writes

\* A delete is only ever written of tokens whose time has come: its order among the
\* writes of others cannot matter to the tokens that count.
DeletesAreLate == \A w \in writes : w.op = "delete" => w.of \subseteq resolved \cup old

\* An undone action is on its way to the table or in it; a stopped process has nothing
\* on its way.
RowsKept == (\A t \in Undone : t \in rows \/ Unsaved(t)) /\ (~up => writes = {})

Clean == Persists /\ fails + crashes = 0
RowsInv == IInv /\ (Clean => DeletesAreLate /\ RowsKept)

\* A step that adds deletes of what is resolved or old, and the insert of what it stages.
LEMMA StoreKeeps ==
    ASSUME RowsInv, IInv', up, UNCHANGED <<up, old, rows, fails, crashes>>,
           resolved \subseteq resolved', NEW ws, Later(ws),
           \A w \in ws : w.op = "delete" => w.of \subseteq resolved' \cup old,
           \A t \in Undone' : t \in Undone \/ Insert(t) \subseteq ws
    PROVE  RowsInv'
<1> SUFFICES ASSUME Clean'  PROVE DeletesAreLate' /\ RowsKept'
  BY DEF RowsInv
<1>1. Persists /\ DeletesAreLate /\ RowsKept  BY DEF RowsInv, Clean
<1>2. writes' = writes \cup ws  BY <1>1 DEF Later
<1>3. DeletesAreLate'  BY <1>1, <1>2 DEF DeletesAreLate
<1>4. ASSUME NEW t \in Undone'  PROVE t \in rows \/ Insert(t) \subseteq writes'
  BY <1>1, <1>2 DEF RowsKept, Unsaved
<1>5. QED  BY <1>3, <1>4 DEF RowsKept, Unsaved

\* What _sweep deletes has expired.
LEMMA Swept == \A w \in SweptRows : w.of \subseteq old
BY DEF SweptRows, Delete

\* take deletes what it resolves.
LEMMA TakeKeeps ==
    ASSUME RowsInv, IInv', up, UNCHANGED <<up, old, rows, fails, crashes>>,
           NEW u, NEW t, Take(u, t),
           \A k \in Tokens : stream'[k] # "unused" => stream[k] # "unused"
    PROVE  RowsInv'
<1> DEFINE mine == Mine(u, t)
           ws == SweptRows \cup Delete(mine)
<1>1. resolved' = resolved \cup mine /\ Later(ws)  BY DEF Take
<1>2. \A w \in Delete(mine) : w.of \subseteq resolved'  BY <1>1 DEF Delete
<1>3. \A w \in ws : w.op = "delete" => w.of \subseteq resolved' \cup old
  BY <1>2, Swept
<1>4. \A k \in Undone' : k \in Undone  BY <1>1 DEF Undone
<1>5. resolved \subseteq resolved'  BY <1>1
<1> HIDE DEF ws, mine
<1>6. QED  BY <1>1, <1>3, <1>4, <1>5, StoreKeeps

\* put writes the row of what it stages.
LEMMA PutKeeps ==
    ASSUME RowsInv, IInv', NEW u, NEW t \in Tokens, Stage(u, t) \/ StageAuto(u, t)
    PROVE  RowsInv'
<1>1. IInv /\ stream \in [Tokens -> Stream]  BY DEF RowsInv, IInv, TypeOK
<1>2. CASE Stage(u, t)
  <2> DEFINE ws == SweptRows \cup Insert(t) \cup {}
  <2>1. PICK how : Put(u, t, how, {})  BY <1>2 DEF Stage
  <2>2. /\ up /\ stream' = [stream EXCEPT ![t] = how] /\ Later(ws)
        /\ UNCHANGED <<up, old, resolved, rows, fails, crashes>>
    BY <1>2, <2>1 DEF Stage, Put, counts
  <2>3. \A w \in ws : w.op = "delete" => w.of \subseteq resolved' \cup old
    BY Swept DEF Insert
  <2>4. \A k \in Undone' : k \in Undone \/ Insert(k) \subseteq ws
    BY <1>1, <2>2 DEF Undone
  <2> HIDE DEF ws
  <2>5. QED  BY <2>2, <2>3, <2>4, StoreKeeps
<1>3. CASE StageAuto(u, t)
  <2> DEFINE ws == SweptRows \cup Insert(t) \cup Delete({t})
  <2>1. /\ up /\ stream' = [stream EXCEPT ![t] = "auto"] /\ Later(ws)
        /\ resolved' = resolved \cup {t}
        /\ UNCHANGED <<up, old, rows, fails, crashes>>
    BY <1>3 DEF StageAuto, Put, counts
  <2>2. \A w \in ws : w.op = "delete" => w.of \subseteq resolved' \cup old
    BY <2>1, Swept DEF Insert, Delete
  <2>3. \A k \in Undone' : k \in Undone  BY <1>1, <2>1 DEF Undone
  <2>4. resolved \subseteq resolved'  BY <2>1
  <2> HIDE DEF ws
  <2>5. QED  BY <2>1, <2>2, <2>3, <2>4, StoreKeeps
<1>4. QED  BY <1>2, <1>3

\* A stream or a waiter moves, or time passes: fewer actions count.
LEMMA FewerUndone ==
    ASSUME RowsInv, IInv', UNCHANGED <<up, resolved, writes, rows, fails, crashes>>,
           old \subseteq old', \A t \in Tokens : stream'[t] # "unused" => stream[t] # "unused"
    PROVE  RowsInv'
<1>1. Undone' \subseteq Undone  BY DEF Undone
<1>2. DeletesAreLate => DeletesAreLate'  BY DEF DeletesAreLate
<1>3. RowsKept => RowsKept'  BY <1>1 DEF RowsKept, Unsaved
<1>4. QED  BY <1>2, <1>3 DEF RowsInv, Clean

\* A stream moves only once something was staged.
LEMMA StreamMoves ==
    ASSUME IInv, NEW t \in Tokens, NEW to, stream[t] # "unused",
           stream' = [stream EXCEPT ![t] = to]
    PROVE  \A k \in Tokens : stream'[k] # "unused" => stream[k] # "unused"
BY DEF IInv, TypeOK

LEMMA AnswerKeeps ==
    ASSUME RowsInv, IInv', NEW u, NEW t \in Tokens, NEW ok,
           McpConfirm(u, t, ok) \/ ChatApprove(u, t, ok)
    PROVE  RowsInv'
<1>1. up /\ UNCHANGED <<up, old, rows, fails, crashes, stream>>
  BY DEF McpConfirm, ChatApprove, chat, counts
<1>2. CASE McpConfirm(u, t, ok)
  BY <1>1, <1>2, TakeKeeps DEF McpConfirm, ConfirmAction
<1>3. CASE ChatApprove(u, t, ok) /\ Resolve(u, t, ok)
  BY <1>1, <1>3, FewerUndone DEF Resolve, store
<1>4. CASE ChatApprove(u, t, ok) /\ PopOrphan(u, t)
  BY <1>1, <1>4, TakeKeeps DEF PopOrphan
<1>5. QED  BY <1>2, <1>3, <1>4 DEF ChatApprove

LEMMA StreamKeeps ==
    ASSUME RowsInv, IInv', NEW t \in Tokens,
           \/ StreamWaits(t) \/ StreamWakes(t) \/ StreamTimesOut(t)
           \/ StreamDrops(t) \/ Expire(t)
    PROVE  RowsInv'
<1>1. IInv /\ WaitersExact  BY DEF RowsInv, IInv
<1>2. CASE StreamWaits(t) \/ StreamDrops(t)
  <2>1. PICK to : stream[t] # "unused" /\ stream' = [stream EXCEPT ![t] = to]
    BY <1>2 DEF StreamWaits, StreamDrops
  <2>2. UNCHANGED <<up, resolved, writes, rows, fails, crashes, old>>
    BY <1>2 DEF StreamWaits, StreamDrops, store, db, counts
  <2>3. QED  BY <1>1, <2>1, <2>2, StreamMoves, FewerUndone
<1>3. CASE Expire(t)
  BY <1>3, FewerUndone DEF Expire, store, db, chat, counts
<1>4. ASSUME NEW ok, up, stream[t] # "unused", StreamConfirms(t, ok)  PROVE RowsInv'
  <2>1. /\ Take(owner[t], t) /\ stream' = [stream EXCEPT ![t] = "ended"]
        /\ UNCHANGED <<up, old, rows, fails, crashes>>
    BY <1>4 DEF StreamConfirms, ConfirmAction, counts
  <2>2. \A k \in Tokens : stream'[k] # "unused" => stream[k] # "unused"
    BY <1>1, <1>4, <2>1, StreamMoves
  <2>3. QED  BY <1>4, <2>1, <2>2, TakeKeeps
<1>5. CASE StreamTimesOut(t)  BY <1>4, <1>5 DEF StreamTimesOut
<1>6. CASE StreamWakes(t)
  <2>1. stream[t] = "waiting"  BY <1>1, <1>6 DEF StreamWakes, WaitersExact
  <2>2. QED  BY <1>4, <1>6, <2>1 DEF StreamWakes
<1>7. QED  BY <1>2, <1>3, <1>5, <1>6

\* A write commits: inserts add rows, and a delete takes none that counts.
LEMMA WriteKeeps ==
    ASSUME RowsInv, IInv', NEW w \in writes, Commit(w) \/ FailWrite(w)
    PROVE  RowsInv'
<1> SUFFICES ASSUME Clean'  PROVE DeletesAreLate' /\ RowsKept'
  BY DEF RowsInv
<1>1. /\ writes' = writes \ {w} /\ UNCHANGED <<up, resolved, old, crashes, stream>>
      /\ FailWrite(w) => fails' = fails + 1
      /\ Commit(w) => fails' = fails
  BY DEF Commit, FailWrite, store, chat, counts
<1>2. fails \in Nat /\ crashes \in Nat
  BY PendingAssumption DEF RowsInv, IInv, TypeOK
<1>3. Commit(w) /\ Clean  BY <1>1, <1>2 DEF Clean
<1>4. DeletesAreLate /\ RowsKept  BY <1>3 DEF RowsInv
<1>5. DeletesAreLate'  BY <1>1, <1>4 DEF DeletesAreLate
<1>6. Undone' = Undone  BY <1>1 DEF Undone
<1>7. ASSUME NEW t \in Undone  PROVE t \in rows' \/ Insert(t) \subseteq writes'
  <2>1. CASE w \in Insert(t)
    BY <1>3, <2>1 DEF Commit, Insert
  <2>2. CASE w \notin Insert(t) /\ w.op = "insert"
    BY <1>1, <1>3, <1>4, <2>2 DEF Commit, RowsKept, Unsaved
  <2>3. CASE w \notin Insert(t) /\ w.op # "insert"
    <3>1. w.op = "delete"  BY <2>3 DEF RowsInv, IInv, TypeOK, Write
    <3>2. t \notin w.of  BY <1>4, <3>1 DEF DeletesAreLate, Undone
    <3>3. rows' = rows \ w.of  BY <1>3, <2>3 DEF Commit
    <3>4. QED  BY <1>1, <1>4, <2>3, <3>2, <3>3 DEF RowsKept, Unsaved
  <2>4. QED  BY <2>1, <2>2, <2>3
<1>8. QED  BY <1>1, <1>4, <1>5, <1>6, <1>7 DEF RowsKept, Unsaved

\* flush_persisted comes before the process ends.
LEMMA EndKeeps ==
    ASSUME RowsInv, IInv', Shutdown \/ Crash
    PROVE  RowsInv'
<1> SUFFICES ASSUME Clean'  PROVE DeletesAreLate' /\ RowsKept'
  BY DEF RowsInv
<1>1. /\ ~up' /\ writes' = {} /\ UNCHANGED <<rows, resolved, old, fails>>
      /\ \A t \in Tokens : stream'[t] # "unused" => stream[t] # "unused"
      /\ Crash => crashes' = crashes + 1
      /\ Shutdown => crashes' = crashes /\ writes = {}
  BY DEF Shutdown, Crash, ProcessEnds, effects
<1>2. fails \in Nat /\ crashes \in Nat
  BY PendingAssumption DEF RowsInv, IInv, TypeOK
<1>3. Clean /\ writes = {}  BY <1>1, <1>2 DEF Clean
<1>4. \A t \in Undone : t \in rows  BY <1>3 DEF RowsInv, RowsKept, Unsaved, Insert
<1>5. Undone' \subseteq Undone  BY <1>1 DEF Undone
<1>6. QED  BY <1>1, <1>4, <1>5 DEF DeletesAreLate, RowsKept

\* Nothing loses the row of an action that is still undone.
LEMMA RowsStep ==
    ASSUME RowsInv, [Next]_vars
    PROVE  RowsInv'
<1>1. IInv'  BY TypeStep, WaitStep DEF RowsInv, IInv
<1>2. CASE UNCHANGED vars
  BY <1>1, <1>2, FewerUndone DEF vars, store, db, chat, counts
<1>3. CASE Boot
  <2>1. UNCHANGED <<resolved, old, writes, rows, stream, fails, crashes>> /\ up'
    BY <1>3 DEF Boot, store, db, chat, counts
  <2>2. Undone' = Undone  BY <2>1 DEF Undone
  <2>3. DeletesAreLate => DeletesAreLate'  BY <2>1 DEF DeletesAreLate
  <2>4. RowsKept => RowsKept'  BY <2>1, <2>2 DEF RowsKept, Unsaved
  <2>5. QED  BY <1>1, <2>1, <2>3, <2>4 DEF RowsInv, Clean
<1>4. CASE Peek
  <2>1. /\ up /\ UNCHANGED <<up, old, rows, fails, crashes, stream, resolved>>
        /\ Later(SweptRows)
    BY <1>4 DEF Peek, chat, counts
  <2>2. \A k \in Undone' : k \in Undone  BY <2>1 DEF Undone
  <2>3. QED  BY <1>1, <2>1, <2>2, Swept, StoreKeeps
<1>5. QED
  BY <1>1, <1>2, <1>3, <1>4, PutKeeps, AnswerKeeps, StreamKeeps, WriteKeeps, EndKeeps
     DEF Next

\* A clean shutdown leaves the row of every action that is still undone, in whatever
\* order the writes committed and whatever else was confirmed, expired or dropped.
THEOREM RowsOutliveTheProcess == Spec => []RowsOutlive
<1>1. Init => RowsInv
  BY InitInv DEF Init, OnceInv, RowsInv, DeletesAreLate, RowsKept, Undone
<1>2. RowsInv /\ [Next]_vars => RowsInv'  BY RowsStep
<1>3. RowsInv => RowsOutlive
  BY DEF RowsInv, Clean, RowsKept, RowsOutlive, Undone, Unsaved, Insert
<1>4. QED  BY <1>1, <1>2, <1>3, PTL DEF Spec
-----------------------------------------------------------------------------
(* The turn.                                                               *)

Suspended == {"ask", "asking", "saying", "calling", "helping", "token", "storing", "failing", "over"}
Before == {"ask", "asking", "saying", "calling", "helping", "token"}

Asking == {Asked(calls) : calls \in Rounds}
Results == {Result(m, n) : m \in Nat \ {0}, n \in Nat \ {0}}
Said == {User} \cup Asking \cup Results

Types ==
    /\ at \in Suspended /\ iteration \in Nat /\ asks \in Nat /\ shown \in Nat
    /\ search \in [reads : Nat, breadth : Nat, planes : SUBSET Planes, delegated : BOOLEAN,
                   helped : Nat]
    /\ turn \in Seq(Said)
    /\ round \in [calls : Seq(Kinds), ran : Nat, message : Nat, results : Nat]
    /\ reply \in {"none", "given"} /\ committed \in BOOLEAN
    /\ append \in {"idle", "running", "done", "failed"}

\* A message of a turn: the user's stands first, a result where its call asked for it.
Placed(t, i) ==
    t[i].role = "tool" =>
        \E m, n \in Nat \ {0} :
            /\ t[i] = Result(m, n) /\ i = m + n
            /\ t[m].role = "assistant" /\ n \in DOMAIN t[m].calls

PlacedInv == turn # <<>> /\ turn[1] = User /\ \A i \in 1..Len(turn) : Placed(turn, i)

\* The message of a round that is still streamed, or was when the browser left.
Unjoined == round.message = Len(turn) + 1 /\ round.results = 0

\* The results given so far are the last messages of the turn as long as it is calling.
RoundInv ==
    /\ round.results <= Len(round.calls)
    /\ (Unjoined /\ at \in {"saying", "over"}) \/ round.message + round.results <= Len(turn)
    /\ \A n \in 1..round.results : turn[round.message + n] = Result(round.message, n)
    /\ at = "saying" => Unjoined /\ round.calls \in Rounds
    /\ at = "calling" =>
           /\ round.message \in 1..Len(turn) /\ Len(turn) = round.message + round.results
           /\ round.calls \in Rounds /\ turn[round.message] = Asked(round.calls)

\* What is shown is ahead of the turn by the reply, or by the text of a message with calls.
ShownInv ==
    /\ shown <= Len(turn) + 1
    /\ shown = Len(turn) + 1 => reply = "given" \/ round.message = Len(turn) + 1

\* One provider call an iteration, and tools are offered below the cap only.
LoopInv ==
    /\ asks = IF at = "ask" THEN iteration ELSE IF at = "over" THEN asks ELSE iteration + 1
    /\ asks <= iteration + 1 /\ iteration <= MaxIterations + 1
    /\ at \in {"saying", "calling", "helping"} => iteration <= MaxIterations
    /\ search.helped <= 1 /\ (~search.delegated => search.helped = 0)

\* A turn is handed over once, and what history then holds is all of it.
StoreInv ==
    /\ committed <=> append # "idle"
    /\ committed <=> at \notin Before
    /\ reply = "given" => at \in {"token", "storing", "over"}
    /\ stored = IF append = "done" THEN Whole ELSE <<>>

TurnInv == Types /\ PlacedInv /\ RoundInv /\ ShownInv /\ LoopInv /\ StoreInv
-----------------------------------------------------------------------------
(* Messages                                                                *)

LEMMA RoundsAre ==
    ASSUME NEW calls \in Rounds
    PROVE  calls \in Seq(Kinds) /\ Len(calls) \in Nat \ {0} /\ calls # <<>>
<1>1. CASE \E k \in Kinds : calls = <<k>>  BY <1>1
<1>2. CASE \E k \in Kinds, l \in Kinds : calls = <<k, l>>  BY <1>2
<1>3. QED  BY <1>1, <1>2 DEF Rounds

\* The messages can be told apart.
LEMMA MessagesAre ==
    /\ User.role = "user"
    /\ \A calls : Asked(calls).role = "assistant" /\ Asked(calls).calls = calls
    /\ \A m, n : Result(m, n).role = "tool" /\ Result(m, n).of = <<m, n>>
    /\ Replied = Asked(<<>>)
    /\ \A x \in Said : x # Replied
<1>1. User.role = "user"  BY DEF User
<1>2. \A calls : Asked(calls).role = "assistant" /\ Asked(calls).calls = calls  BY DEF Asked
<1>3. \A m, n : Result(m, n).role = "tool" /\ Result(m, n).of = <<m, n>>  BY DEF Result
<1>4. Replied = Asked(<<>>)  BY DEF Replied, Asked
<1>5. \A x \in Said : x # Replied
  <2>1. User # Replied  BY <1>1, <1>2, <1>4
  <2>2. \A m, n : Result(m, n) # Replied  BY <1>2, <1>3, <1>4
  <2>3. \A calls \in Rounds : Asked(calls) # Replied  BY <1>2, <1>4, RoundsAre
  <2>4. QED  BY <2>1, <2>2, <2>3 DEF Said, Asking, Results
<1>6. QED  BY <1>1, <1>2, <1>3, <1>4, <1>5

\* Appending leaves what was placed in place.
LEMMA PlacedStays ==
    ASSUME NEW S, NEW t \in Seq(S), NEW x, NEW i \in 1..Len(t), Placed(t, i)
    PROVE  Placed(Append(t, x), i)
<1> DEFINE u == Append(t, x)
<1>1. u[i] = t[i]  OBVIOUS
<1>2. CASE t[i].role # "tool"  BY <1>1, <1>2 DEF Placed
<1>3. CASE t[i].role = "tool"
  <2>1. PICK m \in Nat \ {0}, n \in Nat \ {0} :
            t[i] = Result(m, n) /\ i = m + n /\ t[m].role = "assistant" /\ n \in DOMAIN t[m].calls
    BY <1>3 DEF Placed
  <2>2. m \in 1..Len(t)  BY <2>1
  <2>3. u[m] = t[m]  BY <2>2
  <2> HIDE DEF u
  <2>4. QED  BY <1>1, <2>1, <2>3 DEF Placed
<1>4. QED  BY <1>2, <1>3

LEMMA Joined ==
    ASSUME NEW t \in Seq(Said), NEW x, t # <<>>, t[1] = User,
           \A i \in 1..Len(t) : Placed(t, i), Placed(Append(t, x), Len(t) + 1)
    PROVE  LET u == Append(t, x) IN
           /\ u # <<>> /\ u[1] = User /\ Len(u) = Len(t) + 1 /\ u[Len(t) + 1] = x
           /\ \A i \in 1..Len(t) : u[i] = t[i]
           /\ \A i \in 1..Len(u) : Placed(u, i)
<1> DEFINE u == Append(t, x)
<1>1. Len(t) \in Nat \ {0}  OBVIOUS
<1>2. Len(u) = Len(t) + 1 /\ u[Len(t) + 1] = x /\ \A i \in 1..Len(t) : u[i] = t[i]  OBVIOUS
<1>3. \A i \in 1..Len(t) : Placed(u, i)  BY PlacedStays
<1> HIDE DEF u
<1>4. \A i \in 1..Len(u) : i \in 1..Len(t) \/ i = Len(t) + 1  BY <1>1, <1>2
<1>5. Placed(u, Len(t) + 1)  BY DEF u
<1>6. u # <<>> /\ u[1] = User  BY <1>1, <1>2
<1>7. QED  BY <1>2, <1>3, <1>4, <1>5, <1>6 DEF u

\* What history is handed: the turn, and the reply last.
LEMMA WholeIs ==
    ASSUME Types, PlacedInv
    PROVE  /\ Whole # <<>> /\ Whole[1] = User
           /\ Len(Whole) \in Nat /\ Len(Whole) >= Len(turn)
           /\ \A i \in 1..Len(turn) : Whole[i] = turn[i]
           /\ \A i \in 1..Len(Whole) : Placed(Whole, i)
           /\ \A i \in 1..Len(Whole) : Whole[i] = Replied => i = Len(Whole)
           /\ reply = "given" => Whole[Len(Whole)] = Replied
<1>1. turn \in Seq(Said) /\ turn # <<>> /\ turn[1] = User /\ Len(turn) \in Nat
        /\ \A i \in 1..Len(turn) : Placed(turn, i)
  BY DEF Types, PlacedInv
<1>2. \A i \in 1..Len(turn) : turn[i] # Replied
  <2>1. \A i \in 1..Len(turn) : turn[i] \in Said  BY <1>1
  <2>2. QED  BY <2>1, MessagesAre
<1>3. CASE reply = "given"
  <2>1. Whole = Append(turn, Replied)  BY <1>3 DEF Whole
  <2>2. Replied.role # "tool"  BY MessagesAre
  <2>3. Placed(Append(turn, Replied), Len(turn) + 1)
    <3>1. Append(turn, Replied)[Len(turn) + 1] = Replied  BY <1>1
    <3>2. QED  BY <2>2, <3>1 DEF Placed
  <2>4. LET u == Append(turn, Replied) IN
           /\ u # <<>> /\ u[1] = User /\ Len(u) = Len(turn) + 1 /\ u[Len(turn) + 1] = Replied
           /\ \A i \in 1..Len(turn) : u[i] = turn[i]
           /\ \A i \in 1..Len(u) : Placed(u, i)
    BY <1>1, <2>3, Joined
  <2> DEFINE u == Append(turn, Replied)
  <2> HIDE DEF u
  <2>5. Whole = u  BY <2>1 DEF u
  <2>6. /\ u # <<>> /\ u[1] = User /\ Len(u) = Len(turn) + 1 /\ u[Len(turn) + 1] = Replied
        /\ \A i \in 1..Len(turn) : u[i] = turn[i]
        /\ \A i \in 1..Len(u) : Placed(u, i)
    BY <2>4 DEF u
  <2>7. \A i \in 1..Len(u) : u[i] = Replied => i = Len(u)  BY <1>1, <1>2, <2>6
  <2>8. QED  BY <1>1, <2>5, <2>6, <2>7
<1>4. CASE reply # "given"
  <2>1. Whole = turn  BY <1>4 DEF Whole
  <2>2. QED  BY <1>1, <1>2, <1>4, <2>1
<1>5. QED  BY <1>3, <1>4
-----------------------------------------------------------------------------
(* The steps                                                               *)

LEMMA TurnInitInv == TurnInit => TurnInv
<1> SUFFICES ASSUME TurnInit  PROVE TurnInv
  OBVIOUS
<1>1. User \in Said /\ User.role = "user"  BY MessagesAre DEF Said
<1>2. turn = <<User>> /\ Len(turn) = 1 /\ turn[1] = User  BY DEF TurnInit
<1>3. Types
  <2>1. <<User>> \in Seq(Said)  BY <1>1
  <2>2. search \in [reads : Nat, breadth : Nat, planes : SUBSET Planes, delegated : BOOLEAN,
                    helped : Nat]
    BY DEF TurnInit
  <2>3. round \in [calls : Seq(Kinds), ran : Nat, message : Nat, results : Nat]
    <3>1. <<>> \in Seq(Kinds)  OBVIOUS
    <3>2. QED  BY <3>1 DEF TurnInit
  <2>4. QED  BY <2>1, <2>2, <2>3 DEF TurnInit, Types, Suspended
<1>4. PlacedInv  BY <1>1, <1>2 DEF PlacedInv, Placed
<1>5. RoundInv /\ ShownInv  BY <1>2 DEF TurnInit, RoundInv, ShownInv, Unjoined
<1>6. LoopInv  BY IterationsAreNat DEF TurnInit, LoopInv
<1>7. StoreInv  BY DEF TurnInit, StoreInv, Before
<1>8. QED  BY <1>3, <1>4, <1>5, <1>6, <1>7 DEF TurnInv

\* Steps that leave the messages alone.
LEMMA QuietTurn ==
    ASSUME TurnInv, turn' = turn, round' = round, at' \notin {"saying", "calling"} \/ at' = at,
           at \in {"saying", "over"} => at' \in {at, "over"},
           UNCHANGED <<shown, reply>> \/ (shown' = Len(turn) + 1 /\ reply' = "given")
    PROVE  PlacedInv' /\ RoundInv' /\ ShownInv'
<1>1. PlacedInv'
  <2>1. \A i \in 1..Len(turn) : Placed(turn, i)  BY DEF TurnInv, PlacedInv
  <2>2. QED  BY <2>1 DEF TurnInv, PlacedInv
<1>2. RoundInv'  BY DEF TurnInv, RoundInv, Unjoined
<1>3. ShownInv'
  <2>1. Len(turn) \in Nat  BY DEF TurnInv, Types
  <2>2. QED  BY <2>1 DEF TurnInv, Types, ShownInv
<1>4. QED  BY <1>1, <1>2, <1>3

\* Steps on the way to the append, and those after it, that do not touch it.
LEMMA QuietStore ==
    ASSUME TurnInv, UNCHANGED <<reply, committed, append, stored>>,
           turn' = turn \/ append # "done",
           at' \notin Before <=> at \notin Before,
           reply = "given" => at' \in {"token", "storing", "over"}
    PROVE  StoreInv'
BY DEF TurnInv, StoreInv, Whole

LEMMA AskKeeps == ASSUME TurnInv, Ask  PROVE TurnInv'
<1>1. Types'  BY DEF TurnInv, Types, Ask, Suspended
<1>2. PlacedInv' /\ RoundInv' /\ ShownInv'  BY QuietTurn DEF Ask
<1>3. LoopInv'  BY DEF TurnInv, Types, LoopInv, Ask
<1>4. StoreInv'  BY QuietStore DEF Ask, Before, TurnInv, StoreInv
<1>5. QED  BY <1>1, <1>2, <1>3, <1>4 DEF TurnInv

\* The turn is handed over.
LEMMA HandsOver ==
    ASSUME TurnInv, at \in Before, at' \in {"failing", "storing", "over"},
           committed' = TRUE, append' = "running", UNCHANGED <<turn, reply, stored>>,
           reply = "given" => at' # "failing"
    PROVE  StoreInv'
BY DEF TurnInv, StoreInv, Whole, Before

LEMMA RouteFailsKeeps == ASSUME TurnInv, RouteFails  PROVE TurnInv'
<1>1. Types'  BY DEF TurnInv, Types, RouteFails, Suspended
<1>2. PlacedInv' /\ RoundInv' /\ ShownInv'  BY QuietTurn DEF RouteFails
<1>3. LoopInv'  BY DEF TurnInv, Types, LoopInv, RouteFails
<1>4. StoreInv'
  <2>1. reply # "given"  BY DEF TurnInv, StoreInv, RouteFails
  <2>2. QED  BY <2>1, HandsOver DEF RouteFails, Before
<1>5. QED  BY <1>1, <1>2, <1>3, <1>4 DEF TurnInv

LEMMA FailureStoredKeeps == ASSUME TurnInv, FailureStored  PROVE TurnInv'
<1>1. Types'  BY DEF TurnInv, Types, FailureStored, Suspended
<1>2. PlacedInv' /\ RoundInv' /\ ShownInv'  BY QuietTurn DEF FailureStored
<1>3. LoopInv'  BY DEF TurnInv, Types, LoopInv, FailureStored
<1>4. StoreInv'  BY QuietStore DEF FailureStored, Before
<1>5. QED  BY <1>1, <1>2, <1>3, <1>4 DEF TurnInv

LEMMA RouteAnswersKeeps == ASSUME TurnInv, RouteAnswers  PROVE TurnInv'
<1>1. Types'  BY DEF TurnInv, Types, RouteAnswers, Suspended
<1>2. PlacedInv' /\ RoundInv' /\ ShownInv'  BY QuietTurn DEF RouteAnswers
<1>3. LoopInv'  BY DEF TurnInv, Types, LoopInv, RouteAnswers
<1>4. StoreInv'  BY DEF TurnInv, StoreInv, RouteAnswers, Before
<1>5. QED  BY <1>1, <1>2, <1>3, <1>4 DEF TurnInv

LEMMA StoreTurnKeeps == ASSUME TurnInv, StoreTurn  PROVE TurnInv'
<1>1. Types'  BY DEF TurnInv, Types, StoreTurn, Suspended
<1>2. PlacedInv' /\ RoundInv' /\ ShownInv'  BY QuietTurn DEF StoreTurn
<1>3. LoopInv'  BY DEF TurnInv, Types, LoopInv, StoreTurn
<1>4. StoreInv'  BY HandsOver DEF StoreTurn, Before
<1>5. QED  BY <1>1, <1>2, <1>3, <1>4 DEF TurnInv

LEMMA DoneKeeps == ASSUME TurnInv, Done  PROVE TurnInv'
<1>1. Types'  BY DEF TurnInv, Types, Done, Suspended
<1>2. PlacedInv' /\ RoundInv' /\ ShownInv'  BY QuietTurn DEF Done
<1>3. LoopInv'  BY DEF TurnInv, Types, LoopInv, Done
<1>4. StoreInv'  BY QuietStore DEF Done, Before
<1>5. QED  BY <1>1, <1>2, <1>3, <1>4 DEF TurnInv

\* The message of a round joins the turn, with no result yet.
LEMMA CallsJoined ==
    ASSUME TurnInv, NEW calls \in Rounds, turn' = Append(turn, Asked(calls)), at' = "calling",
           shown' = shown, round'.calls = calls, round'.message = Len(turn) + 1,
           round'.results = 0
    PROVE  PlacedInv' /\ RoundInv' /\ ShownInv' /\ turn' \in Seq(Said)
<1>1. calls \in Seq(Kinds) /\ Len(calls) \in Nat \ {0}  BY RoundsAre
<1>2. turn \in Seq(Said) /\ turn # <<>> /\ turn[1] = User /\ Len(turn) \in Nat
        /\ \A i \in 1..Len(turn) : Placed(turn, i)
  BY DEF TurnInv, Types, PlacedInv
<1>3. Asked(calls) \in Said /\ Asked(calls).role # "tool"
  BY MessagesAre DEF Said, Asking
<1>5. Placed(Append(turn, Asked(calls)), Len(turn) + 1)
  <2>1. Append(turn, Asked(calls))[Len(turn) + 1] = Asked(calls)  BY <1>2
  <2>2. QED  BY <1>3, <2>1 DEF Placed
<1> DEFINE u == Append(turn, Asked(calls))
<1>6. /\ u # <<>> /\ u[1] = User /\ Len(u) = Len(turn) + 1 /\ u[Len(turn) + 1] = Asked(calls)
      /\ \A i \in 1..Len(turn) : u[i] = turn[i]
      /\ \A i \in 1..Len(u) : Placed(u, i)
  BY <1>2, <1>5, Joined
<1>7. u \in Seq(Said)  BY <1>2, <1>3
<1>8. turn' = u  OBVIOUS
<1> HIDE DEF u
<1>9. PlacedInv'  BY <1>6, <1>8 DEF PlacedInv
<1>11. RoundInv'  BY <1>1, <1>2, <1>6, <1>8 DEF RoundInv
<1>12. ShownInv'
  <2>1. shown <= Len(turn) + 1 /\ shown \in Nat  BY DEF TurnInv, Types, ShownInv
  <2>2. QED  BY <1>2, <1>6, <1>8, <2>1 DEF ShownInv
<1>13. QED  BY <1>7, <1>8, <1>9, <1>11, <1>12

LEMMA RouteCallsKeeps == ASSUME TurnInv, NEW calls \in Rounds, RouteCalls(calls)  PROVE TurnInv'
<1>1. calls \in Seq(Kinds) /\ Len(calls) \in Nat \ {0}  BY RoundsAre
<1>2. turn \in Seq(Said) /\ Len(turn) \in Nat  BY DEF TurnInv, Types
<1>3. /\ round' = [calls |-> calls, ran |-> 0, message |-> Len(turn) + 1, results |-> 0]
      /\ at = "asking" /\ at' \in {"saying", "calling"}
      /\ UNCHANGED <<iteration, asks, search, reply, committed, append, stored>>
  BY DEF RouteCalls
<1>4. iteration <= MaxIterations
  BY IterationsAreNat DEF RouteCalls, Offered, Capped, TurnInv, Types
<1>5. /\ round' \in [calls : Seq(Kinds), ran : Nat, message : Nat, results : Nat]
      /\ round'.calls = calls /\ round'.message = Len(turn) + 1 /\ round'.results = 0
  BY <1>1, <1>2, <1>3
<1>6. PlacedInv' /\ RoundInv' /\ ShownInv' /\ turn' \in Seq(Said) /\ shown' \in Nat
  <2>1. CASE at' = "calling"
    <3>1. turn' = Append(turn, Asked(calls)) /\ shown' = shown
      BY <2>1 DEF RouteCalls
    <3>2. PlacedInv' /\ RoundInv' /\ ShownInv' /\ turn' \in Seq(Said)
      BY <1>5, <2>1, <3>1, CallsJoined
    <3>3. QED  BY <3>1, <3>2 DEF TurnInv, Types
  <2>2. CASE at' = "saying"
    <3>1. turn' = turn /\ shown' = Len(turn) + 1  BY <2>2 DEF RouteCalls
    <3>2. PlacedInv'
      <4>1. \A i \in 1..Len(turn) : Placed(turn, i)  BY DEF TurnInv, PlacedInv
      <4>2. QED  BY <3>1, <4>1 DEF TurnInv, PlacedInv
    <3>3. RoundInv'  BY <1>1, <1>2, <1>5, <2>2, <3>1 DEF RoundInv, Unjoined
    <3>4. ShownInv'  BY <1>2, <1>5, <3>1 DEF ShownInv
    <3>5. QED  BY <1>2, <3>1, <3>2, <3>3, <3>4
  <2>3. QED  BY <1>3, <2>1, <2>2
<1>7. Types'  BY <1>3, <1>5, <1>6 DEF TurnInv, Types, Suspended
<1>8. LoopInv'  BY <1>3, <1>4 DEF TurnInv, Types, LoopInv
<1>9. StoreInv'
  <2>1. append = "idle" /\ stored = <<>> /\ committed = FALSE
    BY <1>3 DEF TurnInv, Types, StoreInv, Before
  <2>2. QED  BY <1>3, <2>1 DEF TurnInv, StoreInv, Before
<1>10. QED  BY <1>6, <1>7, <1>8, <1>9 DEF TurnInv

LEMMA CallsJoinKeeps == ASSUME TurnInv, CallsJoin  PROVE TurnInv'
<1>1. /\ at = "saying" /\ at' = "calling" /\ turn' = Append(turn, Asked(round.calls))
      /\ UNCHANGED <<iteration, asks, search, round, reply, committed, append, stored, shown>>
  BY DEF CallsJoin
<1>2. round.calls \in Rounds /\ round.message = Len(turn) + 1 /\ round.results = 0
  BY <1>1 DEF TurnInv, RoundInv, Unjoined
<1>3. PlacedInv' /\ RoundInv' /\ ShownInv' /\ turn' \in Seq(Said)
  BY <1>1, <1>2, CallsJoined
<1>4. Types'  BY <1>1, <1>3 DEF TurnInv, Types, Suspended
<1>5. LoopInv'  BY <1>1 DEF TurnInv, Types, LoopInv
<1>6. StoreInv'
  <2>1. append = "idle" /\ stored = <<>> /\ committed = FALSE
    BY <1>1 DEF TurnInv, Types, StoreInv, Before
  <2>2. QED  BY <1>1, <2>1 DEF TurnInv, StoreInv, Before
<1>7. QED  BY <1>3, <1>4, <1>5, <1>6 DEF TurnInv

LEMMA RunCallKeeps == ASSUME TurnInv, RunCall  PROVE TurnInv'
<1> DEFINE n == IF Batch THEN Len(round.calls) ELSE round.ran + 1
<1>1. round \in [calls : Seq(Kinds), ran : Nat, message : Nat, results : Nat]
  BY DEF TurnInv, Types
<1>2. n \in Nat  BY <1>1
<1>3. round' = [round EXCEPT !.ran = n]  BY <1>1 DEF RunCall
<1> HIDE DEF n
<1>4. round' \in [calls : Seq(Kinds), ran : Nat, message : Nat, results : Nat]
        /\ round'.calls = round.calls /\ round'.message = round.message
        /\ round'.results = round.results
  BY <1>1, <1>2, <1>3
<1>5. /\ UNCHANGED <<at, iteration, search, turn, reply, committed, append, stored, asks, shown>>
      /\ at = "calling"
  BY DEF RunCall
<1>6. Types'  BY <1>4, <1>5 DEF TurnInv, Types
<1>7. PlacedInv'
  <2>1. \A i \in 1..Len(turn) : Placed(turn, i)  BY DEF TurnInv, PlacedInv
  <2>2. QED  BY <1>5, <2>1 DEF TurnInv, PlacedInv
<1>8. RoundInv'  BY <1>4, <1>5 DEF TurnInv, RoundInv
<1>12. ShownInv'  BY <1>4, <1>5 DEF TurnInv, ShownInv
<1>9. LoopInv'  BY <1>5 DEF TurnInv, LoopInv
<1>10. StoreInv'  BY <1>5 DEF TurnInv, StoreInv, Whole
<1>11. QED  BY <1>6, <1>7, <1>8, <1>9, <1>10, <1>12 DEF TurnInv

LEMMA SearchedIs ==
    ASSUME TurnInv, NEW kind
    PROVE  LET s == Searched(search, kind) IN
           /\ s \in [reads : Nat, breadth : Nat, planes : SUBSET Planes, delegated : BOOLEAN,
                     helped : Nat]
           /\ s.delegated = search.delegated /\ s.helped = search.helped
<1>1. search \in [reads : Nat, breadth : Nat, planes : SUBSET Planes, delegated : BOOLEAN,
                  helped : Nat]
  BY DEF TurnInv, Types
<1> DEFINE r == IF kind \in Machine THEN search.reads + 1 ELSE 0
           b == IF kind \in Planes THEN search.breadth + 1 ELSE 0
           p == IF kind \in Planes THEN search.planes \cup {kind} ELSE {}
<1>2. r \in Nat /\ b \in Nat /\ p \in SUBSET Planes  BY <1>1
<1>3. Searched(search, kind) = [search EXCEPT !.reads = r, !.breadth = b, !.planes = p]
  BY <1>1 DEF Searched
<1> HIDE DEF r, b, p
<1>4. QED  BY <1>1, <1>2, <1>3

\* The next result joins the turn, right behind those before it.
LEMMA GiveResultKeeps == ASSUME TurnInv, NEW screen, GiveResult(screen)  PROVE TurnInv'
<1> DEFINE m == round.message
           n == round.results + 1
<1>1. round \in [calls : Seq(Kinds), ran : Nat, message : Nat, results : Nat]
        /\ turn \in Seq(Said) /\ Len(turn) \in Nat
  BY DEF TurnInv, Types
<1>2. turn # <<>> /\ turn[1] = User /\ \A i \in 1..Len(turn) : Placed(turn, i)
  BY DEF TurnInv, PlacedInv
<1>3. at = "calling" /\ round.results < Len(round.calls)  BY DEF GiveResult
<1>4. /\ m \in 1..Len(turn) /\ Len(turn) = m + round.results
      /\ turn[m] = Asked(round.calls)
      /\ \A k \in 1..round.results : turn[m + k] = Result(m, k)
      /\ round.calls \in Rounds
  BY <1>3 DEF TurnInv, RoundInv
<1>5. n \in 1..Len(round.calls) /\ n \in Nat \ {0} /\ m \in Nat \ {0} /\ Len(turn) + 1 = m + n
        /\ n <= Len(round.calls) /\ n \in DOMAIN round.calls
  <2>1. Len(round.calls) \in Nat /\ DOMAIN round.calls = 1..Len(round.calls)
    <3>1. round.calls \in Seq(Kinds)  BY <1>1
    <3>2. QED  BY <3>1
  <2>2. round.results \in Nat  BY <1>1
  <2>3. m \in Nat \ {0} /\ Len(turn) = m + round.results  BY <1>1, <1>4
  <2> HIDE DEF m
  <2>4. n \in Nat \ {0} /\ n <= Len(round.calls) /\ Len(turn) + 1 = m + n
    BY <1>3, <2>1, <2>2, <2>3
  <2> HIDE DEF n
  <2>5. QED  BY <2>1, <2>3, <2>4
<1>6. /\ turn' = Append(turn, Result(m, n))
      /\ round' = [round EXCEPT !.results = n]
      /\ search' = Searched(search, round.calls[n])
      /\ shown' = m + n
      /\ UNCHANGED <<at, iteration, reply, committed, append, stored, asks>>
  BY DEF GiveResult
<1> DEFINE u == Append(turn, Result(m, n))
<1>7. Result(m, n) \in Said  BY <1>5 DEF Said, Results
<1>8. u \in Seq(Said)  BY <1>1, <1>7
<1>9. Placed(u, Len(turn) + 1)
  <2>1. u[Len(turn) + 1] = Result(m, n) /\ u[m] = turn[m]
    <3> DEFINE e == Result(m, n)
    <3>1. turn \in Seq(Said) /\ e \in Said /\ m \in 1 .. Len(turn)  BY <1>1, <1>4, <1>7
    <3>2. u = Append(turn, e)  OBVIOUS
    <3> HIDE DEF e, m, u
    <3>3. u[Len(turn) + 1] = e /\ \A i \in 1 .. Len(turn) : u[i] = turn[i]
      BY <3>1, <3>2, AppendProperties
    <3>4. QED  BY <3>1, <3>3 DEF e
  <2>2. turn[m].role = "assistant" /\ turn[m].calls = round.calls  BY <1>4, MessagesAre
  <2> HIDE DEF u, m, n
  <2>3. QED  BY <1>5, <2>1, <2>2 DEF Placed
<1>10. /\ u # <<>> /\ u[1] = User /\ Len(u) = Len(turn) + 1 /\ u[Len(turn) + 1] = Result(m, n)
       /\ \A i \in 1..Len(turn) : u[i] = turn[i]
       /\ \A i \in 1..Len(u) : Placed(u, i)
  BY <1>1, <1>2, <1>9, Joined
<1> HIDE DEF u
<1>11. turn' = u  BY <1>6 DEF u
<1>12. PlacedInv'  BY <1>10, <1>11 DEF PlacedInv
<1>13. round' \in [calls : Seq(Kinds), ran : Nat, message : Nat, results : Nat]
         /\ round'.calls = round.calls /\ round'.message = m /\ round'.results = n
  BY <1>1, <1>5, <1>6
<1>14. RoundInv'
  <2>1. \A k \in 1..n : u[m + k] = Result(m, k)
    <3> TAKE k \in 1..n
    <3>1. CASE k = n  BY <1>5, <1>10, <3>1
    <3>2. CASE k # n
      <4>1. k \in 1..round.results /\ m + k \in 1..Len(turn)  BY <1>1, <1>4, <1>5, <3>2
      <4>2. QED  BY <1>4, <1>10, <4>1
    <3>3. QED  BY <3>1, <3>2
  <2>2. m \in 1..Len(u) /\ u[m] = Asked(round.calls) /\ Len(u) = m + n
    BY <1>1, <1>4, <1>5, <1>10
  <2>3. at' = "calling" /\ m + n <= Len(u)  BY <1>1, <1>3, <1>5, <1>6, <2>2
  <2>4. /\ turn' = u /\ round'.calls = round.calls /\ round'.message = m /\ round'.results = n
        /\ n <= Len(round.calls) /\ round.calls \in Rounds
    BY <1>4, <1>5, <1>11, <1>13
  <2> HIDE DEF m, n
  <2>5. QED  BY <2>1, <2>2, <2>3, <2>4 DEF RoundInv
<1>15. Types' /\ LoopInv'
  <2>1. /\ search' \in [reads : Nat, breadth : Nat, planes : SUBSET Planes, delegated : BOOLEAN,
                        helped : Nat]
        /\ search'.delegated = search.delegated /\ search'.helped = search.helped
    BY <1>6, SearchedIs
  <2>2. Types'
    <3>1. shown' \in Nat  BY <1>1, <1>5, <1>6
    <3>2. QED  BY <1>6, <1>8, <1>11, <1>13, <2>1, <3>1 DEF TurnInv, Types
  <2>3. LoopInv'  BY <1>6, <2>1 DEF TurnInv, LoopInv
  <2>4. QED  BY <2>2, <2>3
<1>18. ShownInv' /\ shown' \in Nat
  <2>1. shown' = Len(turn) + 1 /\ Len(turn') = Len(turn) + 1  BY <1>5, <1>6, <1>10, <1>11
  <2>2. QED  BY <1>1, <2>1 DEF ShownInv
<1>16. StoreInv'
  <2>1. append # "done"  BY <1>3 DEF TurnInv, StoreInv, Before
  <2>2. QED  BY <1>6, <2>1 DEF TurnInv, StoreInv
<1>17. QED  BY <1>12, <1>14, <1>15, <1>16, <1>18 DEF TurnInv

LEMMA NextRoundKeeps == ASSUME TurnInv, NextRound  PROVE TurnInv'
<1>1. search \in [reads : Nat, breadth : Nat, planes : SUBSET Planes, delegated : BOOLEAN,
                  helped : Nat]
        /\ iteration \in Nat
  BY DEF TurnInv, Types
<1>2. at = "calling" /\ turn' = turn /\ round' = round
        /\ UNCHANGED <<reply, committed, append, stored, asks, shown>>
  BY DEF NextRound
<1>3. CASE ShouldDelegate
  <2> DEFINE to == [Handed EXCEPT !.delegated = TRUE, !.helped = @ + 1]
  <2>1. /\ to \in [reads : Nat, breadth : Nat, planes : SUBSET Planes, delegated : BOOLEAN,
                   helped : Nat]
        /\ to.delegated = TRUE /\ to.helped = search.helped + 1
    <3> DEFINE h == Handed
    <3>1. h \in [reads : Nat, breadth : Nat, planes : SUBSET Planes, delegated : BOOLEAN,
                 helped : Nat]
          /\ h.helped = search.helped
      <4>1. CASE search.reads >= ExploreReads
        <5>1. Handed = [search EXCEPT !.reads = 0]  BY <4>1 DEF Handed
        <5>2. QED  BY <1>1, <5>1
      <4>2. CASE ~(search.reads >= ExploreReads)
        <5>1. Handed = [search EXCEPT !.breadth = 0, !.planes = {}]  BY <4>2 DEF Handed
        <5>2. QED  BY <1>1, <5>1
      <4>3. QED  BY <4>1, <4>2
    <3>2. to = [h EXCEPT !.delegated = TRUE, !.helped = @ + 1]  OBVIOUS
    <3> HIDE DEF to, h
    <3>3. h.helped \in Nat  BY <3>1
    <3>4. h.helped + 1 \in Nat  BY <3>3
    <3>5. QED  BY <3>1, <3>2, <3>4
  <2> HIDE DEF to
  <2>2. search' = to /\ at' = "helping" /\ iteration' = iteration  BY <1>3 DEF NextRound, to
  <2>3. search.helped = 0  BY <1>3 DEF ShouldDelegate, TurnInv, LoopInv
  <2>4. Types'  BY <1>2, <2>1, <2>2 DEF TurnInv, Types, Suspended
  <2>5. LoopInv'  BY <1>2, <2>1, <2>2, <2>3 DEF TurnInv, LoopInv
  <2>6. PlacedInv' /\ RoundInv' /\ ShownInv'  BY <1>2, <2>2, QuietTurn
  <2>7. StoreInv'  BY <1>2, <2>2, QuietStore DEF Before, TurnInv, StoreInv
  <2>8. QED  BY <2>4, <2>5, <2>6, <2>7 DEF TurnInv
<1>4. CASE ~ShouldDelegate
  <2>1. at' = "ask" /\ iteration' = iteration + 1 /\ search' = search  BY <1>4 DEF NextRound
  <2>2. Types'  BY <1>1, <1>2, <2>1 DEF TurnInv, Types, Suspended
  <2>3. LoopInv'  BY <1>1, <1>2, <2>1, IterationsAreNat DEF TurnInv, Types, LoopInv
  <2>4. PlacedInv' /\ RoundInv' /\ ShownInv'  BY <1>2, <2>1, QuietTurn
  <2>5. StoreInv'  BY <1>2, <2>1, QuietStore DEF Before, TurnInv, StoreInv
  <2>6. QED  BY <2>2, <2>3, <2>4, <2>5 DEF TurnInv
<1>5. QED  BY <1>3, <1>4

LEMMA HelpedKeeps == ASSUME TurnInv, Helped  PROVE TurnInv'
<1>1. Types'  BY DEF TurnInv, Types, Helped, Suspended
<1>2. PlacedInv' /\ RoundInv' /\ ShownInv'  BY QuietTurn DEF Helped
<1>3. LoopInv'  BY IterationsAreNat DEF TurnInv, Types, LoopInv, Helped
<1>4. StoreInv'  BY QuietStore DEF Helped, Before, TurnInv, StoreInv
<1>5. QED  BY <1>1, <1>2, <1>3, <1>4 DEF TurnInv

LEMMA AppendDoneKeeps == ASSUME TurnInv, AppendDone  PROVE TurnInv'
<1>1. Types'  BY DEF TurnInv, Types, AppendDone
<1>2. PlacedInv' /\ RoundInv' /\ ShownInv'  BY QuietTurn DEF AppendDone
<1>3. LoopInv'  BY DEF TurnInv, LoopInv, AppendDone
<1>4. StoreInv'  BY DEF TurnInv, StoreInv, AppendDone, Whole
<1>5. QED  BY <1>1, <1>2, <1>3, <1>4 DEF TurnInv

LEMMA AppendFailsKeeps == ASSUME TurnInv, AppendFails  PROVE TurnInv'
<1>1. Types'  BY DEF TurnInv, Types, AppendFails
<1>2. PlacedInv' /\ RoundInv' /\ ShownInv'  BY QuietTurn DEF AppendFails
<1>3. LoopInv'  BY DEF TurnInv, LoopInv, AppendFails
<1>4. StoreInv'  BY DEF TurnInv, StoreInv, AppendFails
<1>5. QED  BY <1>1, <1>2, <1>3, <1>4 DEF TurnInv

LEMMA BrowserLeavesKeeps == ASSUME TurnInv, BrowserLeaves  PROVE TurnInv'
<1>1. at # "over" /\ at' = "over"
        /\ UNCHANGED <<iteration, search, turn, round, reply, stored, asks, shown>>
  BY DEF BrowserLeaves
<1>2. PlacedInv' /\ RoundInv' /\ ShownInv'  BY <1>1, QuietTurn
<1>3. LoopInv'  BY <1>1 DEF TurnInv, Types, LoopInv
<1>4. Types' /\ StoreInv'
  <2>1. CASE at = "storing" /\ append = "running"
    <3>1. append' = "failed" /\ committed' = committed  BY <2>1 DEF BrowserLeaves
    <3>2. QED  BY <1>1, <2>1, <3>1 DEF TurnInv, Types, StoreInv, Suspended, Before
  <2>2. CASE ~(at = "storing" /\ append = "running") /\ committed
    <3>1. append' = append /\ committed' = committed
      BY <2>2 DEF BrowserLeaves, PersistPartial
    <3>2. QED  BY <1>1, <2>2, <3>1 DEF TurnInv, Types, StoreInv, Suspended, Before, Whole
  <2>3. CASE ~(at = "storing" /\ append = "running") /\ ~committed
    <3>1. append' = "running" /\ committed' = TRUE  BY <2>3 DEF BrowserLeaves, PersistPartial
    <3>2. QED  BY <1>1, <2>3, <3>1 DEF TurnInv, Types, StoreInv, Suspended, Before
  <2>4. QED  BY <2>1, <2>2, <2>3 DEF TurnInv, Types
<1>5. QED  BY <1>2, <1>3, <1>4 DEF TurnInv

LEMMA StutterKeeps == ASSUME TurnInv, UNCHANGED turnVars  PROVE TurnInv'
<1>1. PlacedInv' /\ RoundInv' /\ ShownInv'  BY QuietTurn DEF turnVars
<1>2. Types' /\ LoopInv' /\ StoreInv'  BY DEF turnVars, TurnInv, Types, LoopInv, StoreInv, Whole
<1>3. QED  BY <1>1, <1>2 DEF TurnInv

LEMMA StepInv == TurnInv /\ [TurnNext]_turnVars => TurnInv'
<1> SUFFICES ASSUME TurnInv, [TurnNext]_turnVars  PROVE TurnInv'
  OBVIOUS
<1>1. CASE Ask  BY <1>1, AskKeeps
<1>2. CASE RouteFails  BY <1>2, RouteFailsKeeps
<1>3. CASE FailureStored  BY <1>3, FailureStoredKeeps
<1>4. CASE RouteAnswers  BY <1>4, RouteAnswersKeeps
<1>5. CASE StoreTurn  BY <1>5, StoreTurnKeeps
<1>6. CASE Done  BY <1>6, DoneKeeps
<1>7. CASE \E calls \in Rounds : RouteCalls(calls)  BY <1>7, RouteCallsKeeps
<1>17. CASE CallsJoin  BY <1>17, CallsJoinKeeps
<1>8. CASE RunCall  BY <1>8, RunCallKeeps
<1>9. CASE NextRound  BY <1>9, NextRoundKeeps
<1>10. CASE Helped  BY <1>10, HelpedKeeps
<1>11. CASE \E screen \in {"same", "new", "error"} : GiveResult(screen)
  BY <1>11, GiveResultKeeps
<1>12. CASE AppendDone  BY <1>12, AppendDoneKeeps
<1>13. CASE AppendFails  BY <1>13, AppendFailsKeeps
<1>14. CASE BrowserLeaves  BY <1>14, BrowserLeavesKeeps
<1>15. CASE UNCHANGED turnVars  BY <1>15, StutterKeeps
<1>16. QED
  BY <1>1, <1>2, <1>3, <1>4, <1>5, <1>6, <1>7, <1>8, <1>9, <1>10, <1>11, <1>12, <1>13, <1>14,
     <1>15, <1>17
  DEF TurnNext, Step
-----------------------------------------------------------------------------
(* What follows                                                            *)

\* The invariant a turn keeps (run_agent_turn, every await and yield of it).
THEOREM TurnInvariant == TurnSpec => []TurnInv
<1>1. QED  BY TurnInitInv, StepInv, PTL DEF TurnSpec

LEMMA Sound == ASSUME TurnInv  PROVE StoredIsSound
<1> SUFFICES ASSUME stored # <<>>
             PROVE  /\ stored[1] = User
                    /\ \A i \in DOMAIN stored : stored[i].role = "tool" =>
                           LET m == stored[i].of[1]
                               n == stored[i].of[2]
                           IN m < i /\ i = m + n /\ stored[m].role = "assistant"
                              /\ n \in DOMAIN stored[m].calls
                    /\ \A i \in DOMAIN stored : stored[i] = Replied => i = Len(stored)
  BY DEF StoredIsSound
<1>1. stored = Whole  BY DEF TurnInv, StoreInv
<1>2. /\ stored[1] = User
      /\ \A i \in 1..Len(stored) : Placed(stored, i)
      /\ \A i \in 1..Len(stored) : stored[i] = Replied => i = Len(stored)
  BY <1>1, WholeIs DEF TurnInv
<1>3. DOMAIN stored = 1..Len(stored)
  <2>1. turn \in Seq(Said) /\ turn \in Seq(Said \cup {Replied})  BY DEF TurnInv, Types
  <2>2. Append(turn, Replied) \in Seq(Said \cup {Replied})  BY <2>1
  <2>3. stored \in Seq(Said \cup {Replied})  BY <1>1, <2>1, <2>2 DEF Whole
  <2>4. QED  BY <2>3
<1>4. ASSUME NEW i \in DOMAIN stored, stored[i].role = "tool"
      PROVE  LET m == stored[i].of[1]
                 n == stored[i].of[2]
             IN m < i /\ i = m + n /\ stored[m].role = "assistant" /\ n \in DOMAIN stored[m].calls
  <2>1. PICK m \in Nat \ {0}, n \in Nat \ {0} :
            /\ stored[i] = Result(m, n) /\ i = m + n
            /\ stored[m].role = "assistant" /\ n \in DOMAIN stored[m].calls
    BY <1>2, <1>3, <1>4 DEF Placed
  <2>2. stored[i].of[1] = m /\ stored[i].of[2] = n  BY <2>1, MessagesAre
  <2>3. m < i  BY <2>1
  <2>4. QED  BY <2>1, <2>2, <2>3
<1>5. QED  BY <1>2, <1>3, <1>4

LEMMA Shown == ASSUME TurnInv  PROVE ShownIsStored
<1> SUFFICES ASSUME append = "done"
             PROVE  /\ shown <= Len(stored) \/ (TextCut /\ shown = Len(stored) + 1)
                    /\ \A n \in 1..round.results :
                           \E i \in DOMAIN stored : stored[i] = Result(round.message, n)
                    /\ reply = "given" => stored[Len(stored)] = Replied
  BY DEF ShownIsStored
<1>1. stored = Whole  BY DEF TurnInv, StoreInv
<1>2. /\ Len(stored) \in Nat /\ Len(stored) >= Len(turn)
      /\ \A i \in 1..Len(turn) : stored[i] = turn[i]
      /\ reply = "given" => stored[Len(stored)] = Replied
  BY <1>1, WholeIs DEF TurnInv
<1>3. DOMAIN stored = 1..Len(stored)
  <2>1. turn \in Seq(Said) /\ turn \in Seq(Said \cup {Replied})  BY DEF TurnInv, Types
  <2>2. Append(turn, Replied) \in Seq(Said \cup {Replied})  BY <2>1
  <2>3. stored \in Seq(Said \cup {Replied})  BY <1>1, <2>1, <2>2 DEF Whole
  <2>4. QED  BY <2>3
<1>4. ASSUME NEW n \in 1..round.results
      PROVE  \E i \in DOMAIN stored : stored[i] = Result(round.message, n)
  <2>1. round.message \in Nat /\ round.results \in Nat /\ Len(turn) \in Nat
    BY DEF TurnInv, Types
  <2>2. round.message + round.results <= Len(turn)
          /\ turn[round.message + n] = Result(round.message, n)
    BY <2>1 DEF TurnInv, RoundInv, Unjoined
  <2>3. round.message + n \in 1..Len(turn)  BY <2>1, <2>2
  <2>4. stored[round.message + n] = turn[round.message + n]  BY <1>2, <2>3
  <2>5. round.message + n \in DOMAIN stored  BY <1>2, <1>3, <2>1, <2>3
  <2>6. QED  BY <2>2, <2>4, <2>5
<1>5. shown <= Len(stored) \/ (TextCut /\ shown = Len(stored) + 1)
  <2>1. shown \in Nat /\ Len(turn) \in Nat /\ turn \in Seq(Said)  BY DEF TurnInv, Types
  <2>2. /\ shown <= Len(turn) + 1
        /\ shown = Len(turn) + 1 => reply = "given" \/ round.message = Len(turn) + 1
    BY DEF TurnInv, ShownInv
  <2>3. CASE reply = "given"
    <3>1. stored = Append(turn, Replied)  BY <1>1, <2>3 DEF Whole
    <3>2. Len(stored) = Len(turn) + 1  BY <2>1, <3>1
    <3>3. QED  BY <2>2, <3>2
  <2>4. CASE reply # "given"
    <3>1. stored = turn  BY <1>1, <2>4 DEF Whole
    <3>2. CASE shown <= Len(turn)  BY <3>1, <3>2
    <3>3. CASE ~(shown <= Len(turn))
      <4>1. shown = Len(turn) + 1  BY <2>1, <2>2, <3>3
      <4>2. round.message = Len(turn) + 1  BY <2>2, <2>4, <4>1
      <4>3. TextCut  BY <2>1, <4>1, <4>2 DEF TextCut
      <4>4. QED  BY <3>1, <4>1, <4>3
    <3>4. QED  BY <3>2, <3>3
  <2>5. QED  BY <2>3, <2>4
<1>6. QED  BY <1>2, <1>4, <1>5

\* What a turn stores is what happened, and goes as far as what was shown, the text of a
\* message with calls apart that the browser left while it was streamed; a turn is lost to
\* the database or while being stored only, and its loop is bounded, for any calls and any
\* limits (run_agent_turn, _persist_partial, _persist_new_turns).
THEOREM TurnsAreSafe == TurnSpec => []TurnSafe
<1>1. ASSUME TurnInv  PROVE TurnSafe
  <2>1. StoredIsSound  BY <1>1, Sound
  <2>2. ShownIsStored  BY <1>1, Shown
  <2>3. LostOnlyThere
    <3>1. Whole # <<>>  BY <1>1, WholeIs DEF TurnInv
    <3>2. QED  BY <1>1, <3>1 DEF TurnInv, Types, StoreInv, Before, LostOnlyThere
  <2>4. LoopBounded  BY <1>1, IterationsAreNat DEF TurnInv, Types, LoopInv, LoopBounded
  <2>5. QED  BY <2>1, <2>2, <2>3, <2>4 DEF TurnSafe
<1>2. QED  BY <1>1, TurnInvariant, PTL

\* What became of an append stands: a turn is appended once (run_agent_turn, "Guarantees at
\* most one append per turn").
THEOREM TurnsAreAppendedOnce == TurnSpec => TurnAppendedOnce
<1>1. ASSUME TurnInv, [TurnNext]_turnVars  PROVE [AppendedOnce]_turnVars
  <2>1. SUFFICES ASSUME append \in {"done", "failed"}  PROVE append' = append
    BY DEF AppendedOnce
  <2>2. committed /\ at \notin Before  BY <1>1, <2>1 DEF TurnInv, StoreInv
  <2>3. CASE Step
    BY <2>1, <2>2, <2>3
    DEF Step, Ask, RouteFails, FailureStored, RouteAnswers, StoreTurn, Done, RouteCalls, CallsJoin,
        RunCall, NextRound, Helped, GiveResult, AppendDone, AppendFails, Before
  <2>4. CASE BrowserLeaves  BY <2>1, <2>2, <2>4 DEF BrowserLeaves, PersistPartial
  <2>5. CASE UNCHANGED turnVars  BY <2>5 DEF turnVars
  <2>6. QED  BY <1>1, <2>3, <2>4, <2>5 DEF TurnNext
<1>2. QED  BY <1>1, TurnInvariant, PTL DEF TurnSpec, TurnAppendedOnce

-----------------------------------------------------------------------------
(* Numbers *)

\* A set of numbers with a member has a least one.
LEMMA LeastNumber ==
    ASSUME NEW T, T \subseteq Nat, T # {}
    PROVE  \E x \in T : \A y \in T : x <= y
<1> DEFINE R == OpToRel(<, Nat)
<1>1. IsWellFoundedOn(R, Nat)  BY NatLessThanWellFounded
<1>2. \A x, y \in Nat : x < y => <<x, y>> \in R  BY DEF OpToRel
<1> HIDE DEF R
<1>3. PICK x \in T : \A y \in T : ~ (<<y, x>> \in R)  BY <1>1, WFMin
<1>4. \A y \in T : ~(y < x)  BY <1>2, <1>3
<1>5. QED  BY <1>4

\* And a greatest one, when it is bounded.
LEMMA GreatestNumber ==
    ASSUME NEW L \in Nat, NEW T, T \subseteq 0 .. L, T # {}
    PROVE  \E x \in T : \A y \in T : y <= x
<1> DEFINE R == {L - y : y \in T}
<1>1. R \subseteq Nat /\ R # {}
  <2>1. \A y \in T : L - y \in Nat
    <3>1. \A y \in T : y \in 0 .. L  OBVIOUS
    <3>2. \A y \in 0 .. L : L - y \in Nat  OBVIOUS
    <3>3. QED  BY <3>1, <3>2
  <2>2. PICK y \in T : TRUE  OBVIOUS
  <2>3. L - y \in R  OBVIOUS
  <2>4. QED  BY <2>1, <2>3
<1> HIDE DEF R
<1>2. PICK d \in R : \A e \in R : d <= e  BY <1>1, LeastNumber
<1>3. PICK x \in T : d = L - x  BY <1>2 DEF R
<1>4. ASSUME NEW y \in T  PROVE y <= x
  <2>1. L - y \in R  BY DEF R
  <2>2. L - x <= L - y  BY <1>2, <1>3, <2>1
  <2>3. QED  BY <2>2
<1>5. QED  BY <1>4

\* Induction along a list.
LEMMA UpTo ==
    ASSUME NEW L \in Nat, NEW n0 \in 0 .. L, NEW S, n0 \in S,
           \A n \in n0 .. L : n \in S /\ n < L => n + 1 \in S
    PROVE  \A n \in n0 .. L : n \in S
<1> SUFFICES ASSUME NEW b \in n0 .. L, b \notin S  PROVE FALSE
  OBVIOUS
<1> DEFINE T == {n \in n0 .. L : n \notin S}
<1>1. T \subseteq Nat /\ b \in T  OBVIOUS
<1>2. PICK x \in T : \A y \in T : x <= y  BY <1>1, LeastNumber
<1>3. x # n0 /\ x \in n0 .. L  OBVIOUS
<1>4. x - 1 \in n0 .. L /\ x - 1 < L /\ ~(x <= x - 1) /\ (x - 1) + 1 = x  BY <1>3
<1>5. x - 1 \in S  BY <1>2, <1>4
<1>6. QED  BY <1>2, <1>4, <1>5

\* f goes from v to its end by the steps of F, one after the other.
Goes(f, v, F, L) == f[0] = v /\ \A k \in 1 .. L : f[k] = F[k][f[k - 1]]

\* Steps that each end in T can be taken one after the other.
LEMMA StepByStep ==
    ASSUME NEW L \in Nat, NEW T, NEW v \in T, NEW F \in [1 .. L -> [T -> T]]
    PROVE  \E f \in [0 .. L -> T] : Goes(f, v, F, L)
<1> DEFINE Runs(g, n) == g[0] = v /\ \A k \in 1 .. n : g[k] = F[k][g[k - 1]]
           S == {n \in 0 .. L : \E g \in [0 .. n -> T] : Runs(g, n)}
<1>1. 0 \in S
  <2>1. [i \in 0 .. 0 |-> v] \in [0 .. 0 -> T] /\ Runs([i \in 0 .. 0 |-> v], 0)  OBVIOUS
  <2>2. 0 \in 0 .. L  OBVIOUS
  <2>3. QED  BY <2>1, <2>2
<1>2. ASSUME NEW n \in 0 .. L, n \in S, n < L  PROVE n + 1 \in S
  <2>1. PICK g \in [0 .. n -> T] : Runs(g, n)  BY <1>2
  <2>2. n \in Nat /\ n + 1 \in 0 .. L /\ n + 1 \in 1 .. L  BY <1>2
  <2>3. F[n + 1][g[n]] \in T  BY <2>2
  <2> DEFINE h == [i \in 0 .. n + 1 |-> IF i = n + 1 THEN F[n + 1][g[n]] ELSE g[i]]
  <2>4. h \in [0 .. n + 1 -> T]  BY <2>2, <2>3
  <2>5. h[n + 1] = F[n + 1][g[n]] /\ \A i \in 0 .. n : h[i] = g[i]  BY <2>2
  <2> HIDE DEF h
  <2>6. h[0] = v  BY <2>1, <2>2, <2>5
  <2>7. ASSUME NEW k \in 1 .. n + 1  PROVE h[k] = F[k][h[k - 1]]
    <3>1. CASE k = n + 1
      <4>1. k - 1 = n /\ n \in 0 .. n  BY <2>2, <3>1
      <4>2. QED  BY <2>5, <3>1, <4>1
    <3>2. CASE k # n + 1
      <4>1. k \in 1 .. n /\ k \in 0 .. n /\ k - 1 \in 0 .. n  BY <2>2, <3>2
      <4>2. QED  BY <2>1, <2>5, <4>1
    <3>3. QED  BY <3>1, <3>2
  <2>8. Runs(h, n + 1)  BY <2>6, <2>7
  <2>9. QED  BY <2>2, <2>4, <2>8
<1> HIDE DEF S
<1>3. \A n \in 0 .. L : n \in S
  <2>1. 0 \in 0 .. L  OBVIOUS
  <2>2. QED  BY <1>1, <1>2, <2>1, UpTo
<1>4. L \in S  BY <1>3
<1>5. QED  BY <1>4 DEF S, Goes

-----------------------------------------------------------------------------
(* Lists *)

\* A list with one more thing in it: what stood before the place stays, what stood at it or
\* behind it moves by one.
LEMMA Inserted ==
    ASSUME NEW T, NEW s \in Seq(T), NEW p \in 1 .. Len(s) + 1, NEW e \in T
    PROVE  /\ InsertAt(s, p, e) \in Seq(T)
           /\ Len(InsertAt(s, p, e)) = Len(s) + 1
           /\ InsertAt(s, p, e)[p] = e
           /\ \A j \in 1 .. p - 1 : InsertAt(s, p, e)[j] = s[j]
           /\ \A j \in p + 1 .. Len(s) + 1 : InsertAt(s, p, e)[j] = s[j - 1]
<1> DEFINE a == SubSeq(s, 1, p - 1)
           c == SubSeq(s, p, Len(s))
<1>1. a \in Seq(T) /\ Len(a) = p - 1 /\ \A j \in 1 .. p - 1 : a[j] = s[j]
  <2>1. \A j \in 1 .. p - 1 : s[j] \in T  BY ElementOfSeq
  <2>2. QED  BY <2>1, SubSeqProperties
<1>2. c \in Seq(T) /\ Len(c) = Len(s) + 1 - p
        /\ \A j \in 1 .. Len(s) + 1 - p : c[j] = s[p + j - 1]
  <2>1. \A j \in p .. Len(s) : s[j] \in T  BY ElementOfSeq
  <2>2. QED  BY <2>1, SubSeqProperties
<1> HIDE DEF a, c
<1>3. <<e>> \in Seq(T) /\ Len(<<e>>) = 1 /\ <<e>>[1] = e  OBVIOUS
<1> DEFINE b == a \o <<e>>
<1>4. b \in Seq(T) /\ Len(b) = p /\ b[p] = e /\ \A j \in 1 .. p - 1 : b[j] = s[j]
  <2>1. b \in Seq(T) /\ Len(b) = Len(a) + 1
          /\ \A j \in 1 .. Len(a) + 1 : b[j] = IF j <= Len(a) THEN a[j] ELSE <<e>>[j - Len(a)]
    BY <1>1, <1>3, ConcatProperties
  <2>2. p \in 1 .. Len(a) + 1 /\ ~(p <= Len(a)) /\ p - Len(a) = 1  BY <1>1
  <2>3. \A j \in 1 .. p - 1 : j \in 1 .. Len(a) + 1 /\ j <= Len(a)  BY <1>1
  <2>4. Len(b) = p  BY <1>1, <2>1
  <2>5. b[p] = e  BY <1>3, <2>1, <2>2
  <2>6. QED  BY <1>1, <2>1, <2>3, <2>4, <2>5
<1> HIDE DEF b
<1>5. InsertAt(s, p, e) = b \o c  BY DEF InsertAt, a, b, c
<1>6. b \o c \in Seq(T) /\ Len(b \o c) = Len(s) + 1
        /\ \A j \in 1 .. Len(s) + 1 : (b \o c)[j] = IF j <= p THEN b[j] ELSE c[j - p]
  BY <1>2, <1>4, ConcatProperties
<1>7. ASSUME NEW j \in p + 1 .. Len(s) + 1  PROVE (b \o c)[j] = s[j - 1]
  <2>1. j \in 1 .. Len(s) + 1 /\ ~(j <= p) /\ j - p \in 1 .. Len(s) + 1 - p
          /\ p + (j - p) - 1 = j - 1
    OBVIOUS
  <2>2. QED  BY <1>2, <1>6, <2>1
<1>8. (b \o c)[p] = e /\ \A j \in 1 .. p - 1 : (b \o c)[j] = s[j]
  BY <1>4, <1>6
<1>9. QED  BY <1>5, <1>6, <1>7, <1>8

\* The greatest of some turns is one of them, and none means none.
LEMMA LatestOf ==
    ASSUME NEW L \in Nat, NEW found, found \subseteq 1 .. L
    PROVE  /\ Latest(found) = 0 <=> found = {}
           /\ found # {} => /\ Latest(found) \in found
                            /\ \A u \in found : u <= Latest(found)
<1>1. CASE found = {}  BY <1>1 DEF Latest
<1>2. CASE found # {}
  <2>1. found \subseteq 0 .. L  OBVIOUS
  <2>2. PICK t \in found : \A u \in found : u <= t  BY <1>2, <2>1, GreatestNumber
  <2>3. Latest(found) = CHOOSE x \in found : \A u \in found : u <= x  BY <1>2 DEF Latest
  <2>4. Latest(found) \in found /\ \A u \in found : u <= Latest(found)  BY <2>2, <2>3
  <2>5. Latest(found) # 0  BY <2>4
  <2>6. QED  BY <1>2, <2>4, <2>5
<1>3. QED  BY <1>1, <1>2

-----------------------------------------------------------------------------
(* Messages *)

CallId == (CallIds \cup {"", "call_missing", "call_item"}) \X Nat \X Nat
NamedId == CallId \ {NoId}
Key == SUBSET (Nat \cup (Nat \X Nat))

\* The messages a request can hold: only an assistant calls, and only a result answers.
Message ==
    {m \in [role : {"user", "assistant", "tool"}, text : BOOLEAN, calls : Seq(CallId),
            answers : CallId, key : Key] :
        /\ m.role # "tool" => m.answers = NoId
        /\ m.role # "assistant" => m.calls = <<>> /\ m.text}

\* No id is an id too: what a message without one carries.
LEMMA NoIdIsAnId == NoId \in CallId
  BY DEF NoId, CallId

\* A call that is not dangling survives, and nothing else does.
LEMMA SurvivingOf ==
    ASSUME NEW T, NEW calls \in Seq(T), NEW D
    PROVE  /\ Surviving(calls, D) \in Seq(T)
           /\ IdsOf(Surviving(calls, D)) = IdsOf(calls) \ D
           /\ IdsOf(calls) \cap D = {} => Surviving(calls, D) = calls
<1> DEFINE L == Len(calls)
           Keep(g, p) == IF calls[p] \in D THEN g ELSE Append(g, calls[p])
           F == [p \in 1 .. L |-> [g \in Seq(T) |-> Keep(g, p)]]
           Is(g) == g = [p \in 0 .. L |-> IF p = 0 THEN <<>> ELSE Keep(g[p - 1], p)]
           kept == CHOOSE g : Is(g)
<1>1. L \in Nat /\ <<>> \in Seq(T) /\ \A p \in 1 .. L : calls[p] \in T  BY ElementOfSeq
<1>2. \A p \in 1 .. L : \A g \in Seq(T) : Keep(g, p) \in Seq(T)  BY <1>1
<1>3. F \in [1 .. L -> [Seq(T) -> Seq(T)]]  BY <1>2
<1>4. \A p \in 1 .. L : \A g \in Seq(T) : F[p][g] = Keep(g, p)  OBVIOUS
<1> HIDE DEF F
<1>5. PICK f \in [0 .. L -> Seq(T)] : f[0] = <<>> /\ \A k \in 1 .. L : f[k] = F[k][f[k - 1]]
  <2>1. \E f \in [0 .. L -> Seq(T)] : Goes(f, <<>>, F, L)  BY <1>1, <1>3, StepByStep
  <2>2. QED  BY <2>1 DEF Goes
<1>6. Is(f)
  <2>1. \A p \in 0 .. L : f[p] = IF p = 0 THEN <<>> ELSE Keep(f[p - 1], p)
    <3>1. \A p \in 0 .. L : p = 0 \/ (p \in 1 .. L /\ p - 1 \in 0 .. L)  BY <1>1
    <3>2. QED  BY <1>4, <1>5, <3>1
  <2>2. f = [p \in 0 .. L |-> f[p]]  BY <1>5
  <2>3. QED  BY <2>1, <2>2
<1>7. Is(kept)  BY <1>6
<1>8. Surviving(calls, D) = kept[L]  BY DEF Surviving
<1> HIDE DEF kept
<1>9. kept[0] = <<>> /\ \A p \in 1 .. L : kept[p] = Keep(kept[p - 1], p)
  <2>1. 0 \in 0 .. L /\ \A p \in 1 .. L : p # 0 /\ p \in 0 .. L  BY <1>1
  <2>2. QED  BY <1>7, <2>1
<1> DEFINE S == {n \in 0 .. L :
              /\ kept[n] \in Seq(T)
              /\ \A x : (\E i \in 1 .. Len(kept[n]) : kept[n][i] = x)
                          <=> (\E i \in 1 .. n : calls[i] = x) /\ x \notin D
              /\ (\A i \in 1 .. n : calls[i] \notin D) => Len(kept[n]) = n /\ \A i \in 1 .. n : kept[n][i] = calls[i]}
<1>10. 0 \in S
  <2>1. 0 \in 0 .. L /\ Len(<<>>) = 0 /\ 1 .. 0 = {}  BY <1>1
  <2>2. QED  BY <1>1, <1>9, <2>1
<1>11. ASSUME NEW n \in 0 .. L, n \in S, n < L  PROVE n + 1 \in S
  <2> DEFINE k == kept[n]
             c == calls[n + 1]
  <2>1. n + 1 \in 1 .. L /\ n + 1 \in 0 .. L /\ (n + 1) - 1 = n /\ n \in Nat  BY <1>1, <1>11
  <2>2. kept[n + 1] = IF c \in D THEN k ELSE Append(k, c)  BY <1>9, <2>1
  <2>3. k \in Seq(T) /\ c \in T /\ Len(k) \in Nat  BY <1>1, <1>11, <2>1
  <2>4. \A x : (\E i \in 1 .. Len(k) : k[i] = x) <=> (\E i \in 1 .. n : calls[i] = x) /\ x \notin D
    BY <1>11
  <2>5. \A x : (\E i \in 1 .. n + 1 : calls[i] = x) <=> (\E i \in 1 .. n : calls[i] = x) \/ c = x
    <3>1. \A i \in 1 .. n + 1 : i \in 1 .. n \/ i = n + 1  BY <2>1
    <3>2. \A i \in 1 .. n : i \in 1 .. n + 1  BY <2>1
    <3>3. n + 1 \in 1 .. n + 1  BY <2>1
    <3>4. QED  BY <3>1, <3>2, <3>3
  <2>6. (\A i \in 1 .. n : calls[i] \notin D) => Len(k) = n /\ \A i \in 1 .. n : k[i] = calls[i]
    BY <1>11
  <2>7. CASE c \in D
    <3>1. kept[n + 1] = k  BY <2>2, <2>7
    <3>2. \E i \in 1 .. n + 1 : calls[i] \in D
      <4>1. n + 1 \in 1 .. n + 1  BY <2>1
      <4>2. QED  BY <2>7, <4>1
    <3> HIDE DEF k, c
    <3>3. QED  BY <2>1, <2>3, <2>4, <2>5, <2>7, <3>1, <3>2
  <2>8. CASE c \notin D
    <3> DEFINE a == Append(k, c)
    <3>1. kept[n + 1] = a  BY <2>2, <2>8
    <3> HIDE DEF k, c
    <3>2. a \in Seq(T) /\ Len(a) = Len(k) + 1 /\ a[Len(k) + 1] = c /\ \A i \in 1 .. Len(k) : a[i] = k[i]
      BY <2>3, AppendProperties
    <3> HIDE DEF a
    <3>3. \A x : (\E i \in 1 .. Len(a) : a[i] = x) <=> (\E i \in 1 .. Len(k) : k[i] = x) \/ c = x
      <4>1. \A i \in 1 .. Len(a) : i \in 1 .. Len(k) \/ i = Len(k) + 1  BY <2>3, <3>2
      <4>2. \A i \in 1 .. Len(k) : i \in 1 .. Len(a)  BY <2>3, <3>2
      <4>3. Len(k) + 1 \in 1 .. Len(a)  BY <2>3, <3>2
      <4>4. QED  BY <3>2, <4>1, <4>2, <4>3
    <3>4. \A x : (\E i \in 1 .. Len(a) : a[i] = x)
                   <=> (\E i \in 1 .. n + 1 : calls[i] = x) /\ x \notin D
      BY <2>4, <2>5, <2>8, <3>3
    <3>5. ASSUME \A i \in 1 .. n + 1 : calls[i] \notin D
          PROVE  Len(a) = n + 1 /\ \A i \in 1 .. n + 1 : a[i] = calls[i]
      <4>1. \A i \in 1 .. n : i \in 1 .. n + 1  BY <2>1
      <4>2. Len(k) = n /\ \A i \in 1 .. n : k[i] = calls[i]  BY <2>6, <3>5, <4>1
      <4>3. \A i \in 1 .. n + 1 : i \in 1 .. n \/ i = n + 1  BY <2>1
      <4>4. QED  BY <3>2, <4>2, <4>3 DEF c
    <3>6. QED  BY <2>1, <3>1, <3>2, <3>4, <3>5
  <2>9. QED  BY <2>7, <2>8
<1> HIDE DEF S
<1>12. L \in S
  <2>1. 0 \in 0 .. L /\ L \in 0 .. L  BY <1>1
  <2>2. QED  BY <1>1, <1>10, <1>11, <2>1, UpTo
<1> DEFINE k == kept[L]
<1>13. /\ k \in Seq(T)
       /\ \A x : (\E i \in 1 .. Len(k) : k[i] = x) <=> (\E i \in 1 .. L : calls[i] = x) /\ x \notin D
       /\ (\A i \in 1 .. L : calls[i] \notin D) => Len(k) = L /\ \A i \in 1 .. L : k[i] = calls[i]
  BY <1>12 DEF S
<1> HIDE DEF k
<1>14. DOMAIN k = 1 .. Len(k) /\ DOMAIN calls = 1 .. L  BY <1>13
<1>15. IdsOf(k) = IdsOf(calls) \ D
  <2>1. \A x : x \in IdsOf(k) <=> \E i \in 1 .. Len(k) : k[i] = x  BY <1>14 DEF IdsOf
  <2>2. \A x : x \in IdsOf(calls) <=> \E i \in 1 .. L : calls[i] = x  BY <1>14 DEF IdsOf
  <2>3. \A x : x \in IdsOf(k) <=> x \in IdsOf(calls) /\ x \notin D  BY <1>13, <2>1, <2>2
  <2>4. QED  BY <2>3
<1>16. ASSUME IdsOf(calls) \cap D = {}  PROVE k = calls
  <2>1. \A i \in 1 .. L : calls[i] \notin D  BY <1>14, <1>16 DEF IdsOf
  <2>2. Len(k) = Len(calls) /\ \A i \in 1 .. Len(k) : k[i] = calls[i]  BY <1>13, <2>1
  <2>3. QED  BY <1>13, <2>2, SeqEqual
<1>17. QED  BY <1>8, <1>13, <1>15, <1>16 DEF k

\* The first open call of a turn is one of its calls, and nothing has answered it.
LEMMA FirstOpenOf ==
    ASSUME NEW T, NEW tour, tour.ids \in Seq(T), OpenSlots(tour) # {}
    PROVE  FirstOpen(tour) \in IdsOf(tour.ids) /\ FirstOpen(tour) \notin tour.covered
<1>1. OpenSlots(tour) \subseteq Nat /\ OpenSlots(tour) \subseteq DOMAIN tour.ids
  BY DEF OpenSlots
<1>2. PICK p \in OpenSlots(tour) : \A q \in OpenSlots(tour) : p <= q  BY <1>1, LeastNumber
<1> DEFINE c == CHOOSE x \in OpenSlots(tour) : \A q \in OpenSlots(tour) : x <= q
<1>3. c \in OpenSlots(tour)  BY <1>2
<1>4. FirstOpen(tour) = tour.ids[c]  BY DEF FirstOpen
<1>5. QED  BY <1>1, <1>3, <1>4 DEF OpenSlots, IdsOf

-----------------------------------------------------------------------------
(* The list while it is repaired *)

Turn == [ids : Seq(NamedId), covered : SUBSET NamedId, attached : Nat, position : Nat \ {0}]

\* The places of the results of a turn.
Behind(tour) == tour.position + 1 .. tour.position + tour.attached

\* A turn stands in the list at its place, with its results behind it, one for each id it
\* counts as covered.
Fits(out, tour) ==
    /\ tour.ids # <<>> /\ tour.covered \subseteq IdsOf(tour.ids)
    /\ tour.position + tour.attached <= Len(out)
    /\ out[tour.position].role = "assistant" /\ out[tour.position].calls = tour.ids
    /\ \A j \in Behind(tour) : out[j].role = "tool" /\ out[j].answers \in tour.covered
    /\ \A id \in tour.covered : \E j \in Behind(tour) : out[j].answers = id
    /\ \A j, k \in Behind(tour) : j # k => out[j].answers # out[k].answers

\* The turns stand one behind the other.
Apart(turns) ==
    \A t, u \in DOMAIN turns :
        t < u => turns[t].position + turns[t].attached < turns[u].position

\* A message with calls is a turn, and a result is behind one.
Stands(out, turns, j) ==
    /\ out[j].calls # <<>> => \E t \in DOMAIN turns : turns[t].position = j
    /\ out[j].role = "tool" => \E t \in DOMAIN turns : j \in Behind(turns[t])

\* What holds of the list between any two steps of the repair.
Laid(st) ==
    /\ Apart(st.turns)
    /\ \A t \in DOMAIN st.turns : Fits(st.out, st.turns[t])
    /\ \A j \in DOMAIN st.out : Stands(st.out, st.turns, j)

Layout ==
    {st \in [out : Seq(Message), turns : Seq(Turn), orphans : SUBSET Nat] : Laid(st)}

\* A turn that moves with its results still fits.
LEMMA FitsMoved ==
    ASSUME NEW out \in Seq(Message), NEW new \in Seq(Message), NEW tour \in Turn,
           NEW moved \in Turn, NEW d \in Nat,
           Fits(out, tour),
           moved.ids = tour.ids, moved.covered = tour.covered, moved.attached = tour.attached,
           moved.position = tour.position + d,
           tour.position + d + tour.attached <= Len(new),
           \A j \in tour.position .. tour.position + tour.attached : new[j + d] = out[j]
    PROVE  Fits(new, moved)
<1> DEFINE a == tour.position
           n == tour.attached
<1>1. a \in Nat /\ n \in Nat /\ d \in Nat  BY DEF Turn
<1>2. Behind(tour) = a + 1 .. a + n /\ Behind(moved) = a + d + 1 .. a + d + n  BY DEF Behind
<1>3. new[a + d] = out[a]
  <2>1. a \in a .. a + n  BY <1>1
  <2>2. QED  BY <2>1
<1>4. \A j \in a + d + 1 .. a + d + n : j - d \in a + 1 .. a + n /\ new[j] = out[j - d]
  <2>1. \A j \in a + d + 1 .. a + d + n : j - d \in a + 1 .. a + n /\ j - d \in a .. a + n /\ (j - d) + d = j
    BY <1>1
  <2>2. QED  BY <2>1
<1>5. \A j \in a + 1 .. a + n : j + d \in a + d + 1 .. a + d + n /\ new[j + d] = out[j]
  <2>1. \A j \in a + 1 .. a + n : j + d \in a + d + 1 .. a + d + n /\ j \in a .. a + n
    BY <1>1
  <2>2. QED  BY <2>1
<1>6. Fits(out, tour) /\ moved.position = a + d /\ moved.attached = n  OBVIOUS
<1> HIDE DEF a, n
<1>7. moved.ids # <<>> /\ moved.covered \subseteq IdsOf(moved.ids)  BY DEF Fits
<1>8. moved.position + moved.attached <= Len(new)  BY DEF a, n
<1>9. new[moved.position].role = "assistant" /\ new[moved.position].calls = moved.ids
  BY <1>3, <1>6 DEF Fits, a
<1>10. \A j \in Behind(moved) : new[j].role = "tool" /\ new[j].answers \in moved.covered
  <2>1. \A j \in a + 1 .. a + n : out[j].role = "tool" /\ out[j].answers \in tour.covered
    BY <1>2, <1>6 DEF Fits
  <2>2. QED  BY <1>2, <1>4, <2>1
<1>11. \A id \in moved.covered : \E j \in Behind(moved) : new[j].answers = id
  <2>1. \A id \in tour.covered : \E j \in a + 1 .. a + n : out[j].answers = id
    BY <1>2, <1>6 DEF Fits
  <2>2. QED  BY <1>2, <1>5, <2>1
<1>12. \A j, k \in Behind(moved) : j # k => new[j].answers # new[k].answers
  <2>1. \A j, k \in a + 1 .. a + n : j # k => out[j].answers # out[k].answers
    BY <1>2, <1>6 DEF Fits
  <2>2. \A j, k \in a + d + 1 .. a + d + n : j # k => j - d # k - d  BY <1>1
  <2>3. SUFFICES ASSUME NEW j \in a + d + 1 .. a + d + n, NEW k \in a + d + 1 .. a + d + n, j # k
                 PROVE  new[j].answers # new[k].answers
    BY <1>2
  <2>4. out[j - d].answers # out[k - d].answers  BY <1>4, <2>1, <2>2, <2>3
  <2>5. QED  BY <1>4, <2>4
<1>13. QED  BY <1>7, <1>8, <1>9, <1>10, <1>11, <1>12 DEF Fits

\* A turn that takes one more result, at the place behind those it has, fits.
LEMMA FitsCovering ==
    ASSUME NEW out \in Seq(Message), NEW new \in Seq(Message), NEW tour \in Turn, NEW id \in NamedId,
           Fits(out, tour), id \in IdsOf(tour.ids), id \notin tour.covered,
           Len(new) = Len(out) + 1,
           \A j \in 1 .. tour.position + tour.attached : new[j] = out[j],
           new[PlaceBehind(tour)].role = "tool", new[PlaceBehind(tour)].answers = id
    PROVE  Covering(tour, id) \in Turn /\ Fits(new, Covering(tour, id))
<1> DEFINE a == tour.position
           n == tour.attached
           c == Covering(tour, id)
           p == a + n + 1
<1>1. a \in Nat /\ a >= 1 /\ n \in Nat /\ Len(out) \in Nat  BY DEF Turn
<1>2. /\ c \in Turn /\ c.ids = tour.ids /\ c.covered = tour.covered \cup {id}
      /\ c.attached = n + 1 /\ c.position = a
  <2>1. tour.ids \in Seq(NamedId) /\ tour.covered \cup {id} \in SUBSET NamedId
          /\ tour.attached + 1 \in Nat /\ tour.position \in Nat \ {0}
    BY DEF Turn
  <2>2. tour \in [ids : Seq(NamedId), covered : SUBSET NamedId, attached : Nat, position : Nat \ {0}]
    BY DEF Turn
  <2> DEFINE d == tour.covered \cup {id}
             e == tour.attached + 1
             b == [tour EXCEPT !.attached = e]
  <2>3. d \in SUBSET NamedId /\ e \in Nat  BY <2>1
  <2>4. c = [tour EXCEPT !.attached = e, !.covered = d]  BY <2>2 DEF Covering
  <2> HIDE DEF c, d, e
  <2>5. c \in Turn  BY <2>2, <2>3, <2>4 DEF Turn
  <2>6. c.ids = tour.ids /\ c.position = tour.position /\ c.attached = e /\ c.covered = d
    BY <2>2, <2>4
  <2>7. QED  BY <2>5, <2>6 DEF d, e
<1>3. Behind(tour) = a + 1 .. a + n /\ Behind(c) = a + 1 .. p
  BY <1>1, <1>2 DEF Behind
<1>4. PlaceBehind(tour) = p  BY <1>1 DEF PlaceBehind
<1>5. new[p].role = "tool" /\ new[p].answers = id  BY <1>4
<1>6. \A j \in 1 .. a + n : new[j] = out[j]  OBVIOUS
<1>7. \A j \in a + 1 .. a + n : j \in 1 .. a + n /\ j \in a + 1 .. p  BY <1>1
<1>8. \A j \in a + 1 .. p : j \in a + 1 .. a + n \/ j = p  BY <1>1
<1>9. p \in a + 1 .. p /\ a \in 1 .. a + n  BY <1>1
<1> HIDE DEF p, c
<1>10. \A j \in a + 1 .. a + n : new[j].role = "tool" /\ new[j].answers \in tour.covered
  BY <1>3, <1>6, <1>7 DEF Fits
<1>11. c.ids # <<>> /\ c.covered \subseteq IdsOf(c.ids)  BY <1>2 DEF Fits
<1>12. c.position + c.attached <= Len(new)
  <2>1. a + n <= Len(out)  BY DEF Fits
  <2>2. QED  BY <1>1, <1>2, <2>1
<1>13. new[c.position].role = "assistant" /\ new[c.position].calls = c.ids
  BY <1>2, <1>6, <1>9 DEF Fits
<1>14. \A j \in Behind(c) : new[j].role = "tool" /\ new[j].answers \in c.covered
  BY <1>2, <1>3, <1>5, <1>8, <1>10
<1>15. \A x \in c.covered : \E j \in Behind(c) : new[j].answers = x
  <2>1. \A x \in tour.covered : \E j \in a + 1 .. a + n : out[j].answers = x
    BY <1>3 DEF Fits
  <2>2. QED  BY <1>2, <1>3, <1>5, <1>6, <1>7, <1>9, <2>1
<1>16. \A j, k \in Behind(c) : j # k => new[j].answers # new[k].answers
  <2>1. \A j, k \in a + 1 .. a + n : j # k => new[j].answers # new[k].answers
    <3>1. \A j, k \in Behind(tour) : j # k => out[j].answers # out[k].answers  BY DEF Fits
    <3>2. \A j \in Behind(tour) : new[j] = out[j]  BY <1>3, <1>6, <1>7
    <3>3. \A j, k \in Behind(tour) : j # k => new[j].answers # new[k].answers  BY <3>1, <3>2
    <3>4. QED  BY <1>3, <3>3
  <2>2. QED  BY <1>3, <1>5, <1>8, <1>10, <2>1
<1>17. QED  BY <1>2, <1>11, <1>12, <1>13, <1>14, <1>15, <1>16 DEF Fits, c

\* What a state of the repair is made of.
LEMMA LayoutParts ==
    ASSUME NEW st \in Layout
    PROVE  /\ st.out \in Seq(Message) /\ st.turns \in Seq(Turn) /\ st.orphans \in SUBSET Nat
           /\ st = [out |-> st.out, turns |-> st.turns, orphans |-> st.orphans]
           /\ Apart(st.turns)
           /\ \A t \in DOMAIN st.turns : st.turns[t] \in Turn /\ Fits(st.out, st.turns[t])
           /\ \A j \in DOMAIN st.out : st.out[j] \in Message /\ Stands(st.out, st.turns, j)
           /\ DOMAIN st.turns = 1 .. Len(st.turns) /\ DOMAIN st.out = 1 .. Len(st.out)
           /\ Len(st.turns) \in Nat /\ Len(st.out) \in Nat
<1>1. st \in [out : Seq(Message), turns : Seq(Turn), orphans : SUBSET Nat] /\ Laid(st)
  BY DEF Layout
<1>2. st.out \in Seq(Message) /\ st.turns \in Seq(Turn) /\ st.orphans \in SUBSET Nat
        /\ st = [out |-> st.out, turns |-> st.turns, orphans |-> st.orphans]
  BY <1>1
<1>3. QED  BY <1>1, <1>2, ElementOfSeq DEF Laid

\* A result bound to an id its turn still waits for leaves the list in order; nothing of
\* the list is lost, and only that turn covers more.
LEMMA AttachKeeps ==
    ASSUME NEW st \in Layout, NEW t \in DOMAIN st.turns, NEW m \in Message, m.role = "tool",
           NEW id \in NamedId, id \in IdsOf(st.turns[t].ids), id \notin st.turns[t].covered
    PROVE  /\ Attach(st, t, m, id) \in Layout
           /\ Attach(st, t, m, id).orphans = st.orphans
           /\ Attach(st, t, m, id).out = InsertAt(st.out, PlaceBehind(st.turns[t]), [m EXCEPT !.answers = id])
           /\ Len(Attach(st, t, m, id).out) = Len(st.out) + 1
           /\ \A j \in DOMAIN st.out : \E k \in DOMAIN Attach(st, t, m, id).out :
                  Attach(st, t, m, id).out[k] = st.out[j]
           /\ \E k \in DOMAIN Attach(st, t, m, id).out :
                  Attach(st, t, m, id).out[k] = [m EXCEPT !.answers = id]
<1> DEFINE out == st.out
           turns == st.turns
           tour == turns[t]
           p == PlaceBehind(tour)
           e == [m EXCEPT !.answers = id]
           new == InsertAt(out, p, e)
           Moved(u) == IF u = t THEN Covering(turns[u], id) ELSE Shifted(turns[u], p)
           after == [u \in DOMAIN turns |-> Moved(u)]
<1>1. /\ out \in Seq(Message) /\ turns \in Seq(Turn) /\ st.orphans \in SUBSET Nat
      /\ st = [out |-> out, turns |-> turns, orphans |-> st.orphans]
      /\ Apart(turns)
      /\ \A u \in DOMAIN turns : turns[u] \in Turn /\ Fits(out, turns[u])
      /\ \A j \in DOMAIN out : out[j] \in Message /\ Stands(out, turns, j)
      /\ DOMAIN turns = 1 .. Len(turns) /\ DOMAIN out = 1 .. Len(out)
      /\ Len(turns) \in Nat /\ Len(out) \in Nat
  BY LayoutParts
<1>2. tour \in Turn /\ Fits(out, tour) /\ tour.position \in Nat \ {0} /\ tour.attached \in Nat
        /\ tour.position + tour.attached <= Len(out)
  BY <1>1 DEF Fits, Turn
<1>3. p = tour.position + tour.attached + 1 /\ p \in 1 .. Len(out) + 1
  BY <1>1, <1>2 DEF PlaceBehind
<1>4. e \in Message /\ e.role = "tool" /\ e.answers = id  BY DEF Message, NamedId
<1>6. Attach(st, t, m, id) = [out |-> new, turns |-> after, orphans |-> st.orphans]
  BY DEF Attach, Shifted
<1> HIDE DEF e
<1>7. new \in Seq(Message) /\ Len(new) = Len(out) + 1 /\ new[p] = e
        /\ (\A j \in 1 .. p - 1 : new[j] = out[j])
        /\ \A j \in p + 1 .. Len(out) + 1 : new[j] = out[j - 1]
  BY <1>1, <1>3, <1>4, Inserted
<1> HIDE DEF new
<1>8. \A u \in DOMAIN turns : after[u] = Moved(u)  OBVIOUS
\* Where each turn stands.
<1>9. ASSUME NEW u \in DOMAIN turns, u < t
      PROVE  /\ after[u] = turns[u]
             /\ turns[u].position + turns[u].attached < tour.position
  <2>1. turns[u].position + turns[u].attached < tour.position  BY <1>1, <1>9 DEF Apart
  <2>2. turns[u] \in Turn  BY <1>1
  <2>3. turns[u].position \in Nat /\ turns[u].attached \in Nat  BY <2>2 DEF Turn
  <2>4. ~(turns[u].position >= p)
    <3> DEFINE x == turns[u].position
               y == turns[u].attached
               z == tour.position
               v == tour.attached
    <3>1. x \in Nat /\ y \in Nat /\ z \in Nat /\ v \in Nat /\ x + y < z /\ p = z + v + 1
      BY <1>2, <1>3, <2>1, <2>3
    <3> HIDE DEF x, y, z, v, p
    <3>2. ~(x >= p)  BY ONLY <3>1
    <3>3. QED  BY <3>2 DEF x
  <2>5. u # t  BY <1>1, <1>9
  <2>6. QED  BY <1>8, <2>1, <2>4, <2>5 DEF Shifted
<1>10. ASSUME NEW u \in DOMAIN turns, t < u
       PROVE  /\ after[u] \in Turn /\ after[u].ids = turns[u].ids
              /\ after[u].covered = turns[u].covered /\ after[u].attached = turns[u].attached
              /\ after[u].position = turns[u].position + 1
              /\ turns[u].position >= p
  <2>1. tour.position + tour.attached < turns[u].position  BY <1>1, <1>10 DEF Apart
  <2>2. turns[u] \in Turn  BY <1>1
  <2>3. turns[u].position \in Nat /\ turns[u].attached \in Nat  BY <2>2 DEF Turn
  <2>4. turns[u].position >= p /\ u # t  BY <1>2, <1>3, <1>10, <2>1, <2>3
  <2>5. after[u] = [turns[u] EXCEPT !.position = @ + 1]  BY <1>8, <2>4 DEF Shifted
  <2>6. QED  BY <2>2, <2>4, <2>5 DEF Turn
<1>11. /\ after[t] = Covering(tour, id) /\ after[t] \in Turn /\ Fits(new, after[t])
       /\ after[t].ids = tour.ids /\ after[t].covered = tour.covered \cup {id}
       /\ after[t].position = tour.position /\ after[t].attached = tour.attached + 1
  <2>1. after[t] = Covering(tour, id)  BY <1>8
  <2>2. \A j \in 1 .. tour.position + tour.attached : new[j] = out[j]
    BY <1>2, <1>3, <1>7
  <2>3. new[PlaceBehind(tour)].role = "tool" /\ new[PlaceBehind(tour)].answers = id
    BY <1>4, <1>7
  <2>4. Covering(tour, id) \in Turn /\ Fits(new, Covering(tour, id))
    BY <1>1, <1>2, <1>7, <2>2, <2>3, FitsCovering
  <2>5. QED  BY <1>2, <2>1, <2>4 DEF Covering, Turn
<1> HIDE DEF after, p
<1>12. \A u \in DOMAIN turns : u < t \/ u = t \/ t < u  BY <1>1
<1>13. \A u \in DOMAIN turns : after[u] \in Turn /\ after[u].ids = turns[u].ids
          /\ after[u].covered = IF u = t THEN turns[u].covered \cup {id} ELSE turns[u].covered
  <2> SUFFICES ASSUME NEW u \in DOMAIN turns
               PROVE  after[u] \in Turn /\ after[u].ids = turns[u].ids
                  /\ after[u].covered = IF u = t THEN turns[u].covered \cup {id} ELSE turns[u].covered
    OBVIOUS
  <2>1. CASE u < t
    <3>1. u # t  BY <1>1, <2>1
    <3>2. QED  BY <1>1, <1>9, <2>1, <3>1
  <2>2. CASE u = t  BY <1>11, <2>2
  <2>3. CASE t < u
    <3>1. u # t  BY <1>1, <2>3
    <3>2. QED  BY <1>10, <2>3, <3>1
  <2>4. QED  BY <1>12, <2>1, <2>2, <2>3
<1>14. DOMAIN after = DOMAIN turns /\ after \in Seq(Turn)
  <2>1. DOMAIN after = DOMAIN turns  BY DEF after
  <2>2. after = [u \in 1 .. Len(turns) |-> after[u]]  BY <1>1 DEF after
  <2>3. \A u \in 1 .. Len(turns) : after[u] \in Turn  BY <1>1, <1>13
  <2>4. QED  BY <1>1, <2>1, <2>2, <2>3, IsASeq
<1>15. ASSUME NEW u \in DOMAIN turns  PROVE Fits(new, after[u])
  <2>1. CASE u < t
    <3>1. turns[u] \in Turn /\ Fits(out, turns[u]) /\ after[u] = turns[u]  BY <1>1, <1>9, <2>1
    <3>2. turns[u].position \in Nat /\ turns[u].attached \in Nat  BY <3>1 DEF Turn
    <3>3. turns[u].position >= 1  BY <3>1 DEF Turn
    <3>4. turns[u].position + turns[u].attached < tour.position  BY <1>9, <2>1
    <3>5. \A j \in turns[u].position .. turns[u].position + turns[u].attached :
              j + 0 = j /\ j \in 1 .. p - 1
      <4> DEFINE x == turns[u].position
                 y == turns[u].attached
                 z == tour.position
                 v == tour.attached
      <4>1. x \in Nat /\ y \in Nat /\ z \in Nat /\ v \in Nat /\ x >= 1 /\ x + y < z
              /\ p = z + v + 1
        BY <1>2, <1>3, <3>2, <3>3, <3>4
      <4> HIDE DEF x, y, z, v, p
      <4>2. \A j \in x .. x + y : j + 0 = j /\ j \in 1 .. p - 1  BY ONLY <4>1
      <4>3. QED  BY <4>2 DEF x, y
    <3>6. \A j \in turns[u].position .. turns[u].position + turns[u].attached :
              new[j + 0] = out[j]
      BY <1>7, <3>5
    <3>7. turns[u].position + 0 + turns[u].attached <= Len(new)
            /\ turns[u].position = turns[u].position + 0
      BY <1>1, <1>2, <1>7, <3>2, <3>4
    <3>8. QED  BY <1>1, <1>7, <3>1, <3>6, <3>7, FitsMoved
  <2>2. CASE u = t  BY <1>11, <2>2
  <2>3. CASE t < u
    <3>1. turns[u] \in Turn /\ Fits(out, turns[u]) /\ after[u] \in Turn  BY <1>1, <1>10, <2>3
    <3>2. turns[u].position \in Nat /\ turns[u].attached \in Nat /\ turns[u].position >= p
      BY <1>10, <2>3, <3>1 DEF Turn
    <3>3. turns[u].position + turns[u].attached <= Len(out)  BY <3>1 DEF Fits
    <3>4. \A j \in turns[u].position .. turns[u].position + turns[u].attached :
              j + 1 \in p + 1 .. Len(out) + 1 /\ (j + 1) - 1 = j
      BY <1>1, <1>3, <3>2, <3>3
    <3>5. \A j \in turns[u].position .. turns[u].position + turns[u].attached :
              new[j + 1] = out[j]
      BY <1>7, <3>4
    <3>6. turns[u].position + 1 + turns[u].attached <= Len(new)
      BY <1>1, <1>7, <3>2, <3>3
    <3>7. after[u].ids = turns[u].ids /\ after[u].covered = turns[u].covered
            /\ after[u].attached = turns[u].attached
            /\ after[u].position = turns[u].position + 1
      BY <1>10, <2>3
    <3> DEFINE d == 1
    <3>8. /\ d \in Nat /\ after[u].position = turns[u].position + d
          /\ turns[u].position + d + turns[u].attached <= Len(new)
          /\ \A j \in turns[u].position .. turns[u].position + turns[u].attached :
                 new[j + d] = out[j]
      BY <3>5, <3>6, <3>7
    <3> DEFINE w == turns[u]
               x == after[u]
    <3>9. /\ out \in Seq(Message) /\ new \in Seq(Message) /\ w \in Turn /\ x \in Turn /\ d \in Nat
          /\ Fits(out, w) /\ x.ids = w.ids /\ x.covered = w.covered /\ x.attached = w.attached
          /\ x.position = w.position + d
          /\ w.position + d + w.attached <= Len(new)
          /\ \A j \in w.position .. w.position + w.attached : new[j + d] = out[j]
      BY <1>1, <1>7, <3>1, <3>7, <3>8
    <3> HIDE DEF d, w, x, out
    <3>10. Fits(new, x)  BY ONLY <3>9, FitsMoved
    <3>11. QED  BY <3>10 DEF x
  <2>4. QED  BY <1>12, <2>1, <2>2, <2>3
<1>16. Apart(after)
  <2> SUFFICES ASSUME NEW u \in DOMAIN turns, NEW v \in DOMAIN turns, u < v
               PROVE  after[u].position + after[u].attached < after[v].position
    BY <1>14 DEF Apart
  <2>1. turns[u].position + turns[u].attached < turns[v].position  BY <1>1 DEF Apart
  <2>2. turns[u] \in Turn /\ turns[v] \in Turn  BY <1>1
  <2>3. turns[u].position \in Nat /\ turns[u].attached \in Nat /\ turns[v].position \in Nat
    BY <2>2 DEF Turn
  <2>4. u \in Nat /\ v \in Nat /\ t \in Nat  BY <1>1
  <2>5. CASE u < t
    <3>1. after[u].position + after[u].attached = turns[u].position + turns[u].attached
      BY <1>9, <2>5
    <3>2. after[v].position >= turns[v].position  BY <1>9, <1>10, <1>11, <1>12, <2>3
    <3>3. after[v].position \in Nat
      <4>1. after[v] \in Turn  BY <1>13
      <4>2. QED  BY <4>1 DEF Turn
    <3>4. QED  BY <2>1, <2>3, <3>1, <3>2, <3>3
  <2>6. CASE u = t
    <3>1. after[v].position = turns[v].position + 1  BY <1>10, <2>6
    <3>2. after[u].position = turns[u].position /\ after[u].attached = turns[u].attached + 1
      BY <1>11, <2>6
    <3>3. QED  BY <2>1, <2>3, <3>1, <3>2
  <2>7. CASE t < u
    <3>1. t < v  BY <2>4, <2>7
    <3>2. after[v].position = turns[v].position + 1 /\ after[u].attached = turns[u].attached
            /\ after[u].position = turns[u].position + 1
      BY <1>10, <2>7, <3>1
    <3>3. QED  BY <2>1, <2>3, <3>2
  <2>8. QED  BY <1>12, <2>5, <2>6, <2>7
\* Where each message stands.
<1> DEFINE Now(j) == IF j < p THEN j ELSE j + 1
<1>17. ASSUME NEW j \in DOMAIN out  PROVE Now(j) \in DOMAIN new /\ new[Now(j)] = out[j]
  <2>1. j \in Nat /\ j >= 1 /\ j <= Len(out) /\ DOMAIN new = 1 .. Len(out) + 1  BY <1>1, <1>7
  <2>2. CASE j < p
    <3>1. j \in 1 .. p - 1  BY <1>3, <2>1, <2>2
    <3>2. QED  BY <1>7, <2>1, <2>2, <3>1
  <2>3. CASE ~(j < p)
    <3>1. j + 1 \in p + 1 .. Len(out) + 1 /\ (j + 1) - 1 = j /\ j + 1 \in 1 .. Len(out) + 1
      BY <1>1, <1>3, <2>1, <2>3
    <3>2. new[j + 1] = out[(j + 1) - 1]  BY <1>7, <3>1
    <3>3. QED  BY <2>1, <2>3, <3>1, <3>2
  <2>4. QED  BY <2>2, <2>3
<1>18. \A k \in DOMAIN new : k = p \/ \E j \in DOMAIN out : k = Now(j)
  <2> SUFFICES ASSUME NEW k \in DOMAIN new, k # p  PROVE \E j \in DOMAIN out : k = Now(j)
    OBVIOUS
  <2>1. k \in 1 .. Len(out) + 1  BY <1>7
  <2>2. CASE k < p
    <3>1. k \in 1 .. Len(out)  BY <1>1, <1>3, <2>1, <2>2
    <3>2. k = Now(k)  BY <2>2
    <3>3. QED  BY <1>1, <3>1, <3>2
  <2>3. CASE ~(k < p)
    <3>1. k - 1 \in 1 .. Len(out) /\ ~(k - 1 < p) /\ (k - 1) + 1 = k  BY <1>1, <1>3, <2>1, <2>3
    <3>2. QED  BY <1>1, <3>1
  <2>4. QED  BY <2>2, <2>3
<1>19. ASSUME NEW u \in DOMAIN turns
       PROVE  /\ Now(turns[u].position) = after[u].position
              /\ \A j \in Behind(turns[u]) : Now(j) \in Behind(after[u])
  <2>1. turns[u] \in Turn /\ after[u] \in Turn  BY <1>1, <1>13
  <2>2. turns[u].position \in Nat /\ turns[u].attached \in Nat  BY <2>1 DEF Turn
  <2>3. p \in Nat  BY <1>1, <1>3
  <2>4. CASE u < t
    <3>1. turns[u].position + turns[u].attached < p  BY <1>2, <1>3, <1>9, <2>2, <2>4
    <3>2. \A j \in Behind(turns[u]) : j < p  BY <2>2, <2>3, <3>1 DEF Behind
    <3>3. turns[u].position < p  BY <2>2, <2>3, <3>1
    <3>4. QED  BY <1>9, <2>4, <3>2, <3>3
  <2>5. CASE u = t
    <3>1. turns[u].position < p /\ \A j \in Behind(turns[u]) : j < p
      BY <1>3, <2>2, <2>3, <2>5 DEF Behind
    <3>2. \A j \in Behind(turns[u]) : j \in Behind(after[u])  BY <1>11, <2>2, <2>5 DEF Behind
    <3>3. QED  BY <1>11, <2>5, <3>1, <3>2
  <2>6. CASE t < u
    <3>1. turns[u].position >= p /\ after[u].position = turns[u].position + 1
            /\ after[u].attached = turns[u].attached
      BY <1>10, <2>6
    <3>2. ~(turns[u].position < p) /\ \A j \in Behind(turns[u]) : ~(j < p)
      BY <2>2, <2>3, <3>1 DEF Behind
    <3>3. \A j \in Behind(turns[u]) : j + 1 \in Behind(after[u])  BY <2>2, <3>1 DEF Behind
    <3>4. QED  BY <3>1, <3>2, <3>3
  <2>7. QED  BY <1>12, <2>4, <2>5, <2>6
<1>20. p \in Behind(after[t])
  <2>1. p = tour.position + tour.attached + 1  BY <1>3
  <2>2. QED  BY <1>2, <1>11, <2>1 DEF Behind
<1> HIDE DEF Now
<1>21. ASSUME NEW k \in DOMAIN new  PROVE Stands(new, after, k)
  <2>1. CASE k = p
    <3>1. new[k] \in Message /\ new[k].role = "tool"  BY <1>4, <1>7, <2>1
    <3>2. new[k].calls = <<>>  BY <3>1 DEF Message
    <3>3. QED  BY <1>14, <1>20, <2>1, <3>2 DEF Stands
  <2>2. ASSUME NEW j \in DOMAIN out, k = Now(j)  PROVE Stands(new, after, k)
    <3>1. new[k] = out[j] /\ Stands(out, turns, j)  BY <1>1, <1>17, <2>2
    <3>2. QED  BY <1>14, <1>19, <2>2, <3>1 DEF Stands
  <2>3. QED  BY <1>18, <2>1, <2>2
<1> DEFINE r == [out |-> new, turns |-> after, orphans |-> st.orphans]
<1>22. r \in Layout
  <2>1. r.out = new /\ r.turns = after  OBVIOUS
  <2>2. r \in [out : Seq(Message), turns : Seq(Turn), orphans : SUBSET Nat]
    BY <1>1, <1>7, <1>14
  <2> HIDE DEF r
  <2>3. Laid(r)  BY <1>14, <1>15, <1>16, <1>21, <2>1 DEF Laid
  <2>4. QED  BY <2>2, <2>3 DEF Layout
<1>23. /\ \A j \in DOMAIN out : \E k \in DOMAIN new : new[k] = out[j]
       /\ \E k \in DOMAIN new : new[k] = e
  <2>1. p \in DOMAIN new  BY <1>1, <1>3, <1>7
  <2>2. QED  BY <1>7, <1>17, <2>1
<1>24. Attach(st, t, m, id) = r /\ r.out = new /\ r.turns = after /\ r.orphans = st.orphans
  BY <1>6
<1> DEFINE b == Attach(st, t, m, id)
<1> HIDE DEF r, b
<1>25. b = r  BY <1>24 DEF b
<1>26. /\ b \in Layout /\ b.orphans = st.orphans /\ b.out = new /\ Len(b.out) = Len(out) + 1
       /\ \A j \in DOMAIN out : \E k \in DOMAIN b.out : b.out[k] = out[j]
       /\ \E k \in DOMAIN b.out : b.out[k] = e
  BY <1>7, <1>22, <1>23, <1>24, <1>25
<1>27. QED  BY <1>26 DEF b, e, new, p

\* b covers one id more than st in turn t, and no turn asks for anything else.
Covers(st, b, t, id) ==
    /\ DOMAIN b.turns = DOMAIN st.turns
    /\ \A u \in DOMAIN st.turns :
           /\ b.turns[u].ids = st.turns[u].ids
           /\ b.turns[u].covered = IF u = t THEN st.turns[u].covered \cup {id} ELSE st.turns[u].covered

\* _insert counts the id as covered there, and nowhere else.
LEMMA AttachCovers ==
    ASSUME NEW st \in Layout, NEW t \in DOMAIN st.turns, NEW m \in Message, NEW id \in NamedId
    PROVE  Covers(st, Attach(st, t, m, id), t, id)
<1> DEFINE p == PlaceBehind(st.turns[t])
           Moved(u) == IF u = t THEN Covering(st.turns[u], id) ELSE Shifted(st.turns[u], p)
           after == [u \in DOMAIN st.turns |-> Moved(u)]
<1>1. Attach(st, t, m, id).turns = after  BY DEF Attach
<1>2. \A u \in DOMAIN st.turns : st.turns[u] \in Turn  BY LayoutParts
<1>3. ASSUME NEW u \in DOMAIN st.turns
      PROVE  /\ Moved(u).ids = st.turns[u].ids
             /\ Moved(u).covered = IF u = t THEN st.turns[u].covered \cup {id} ELSE st.turns[u].covered
  <2>1. Covering(st.turns[u], id).ids = st.turns[u].ids
          /\ Covering(st.turns[u], id).covered = st.turns[u].covered \cup {id}
    BY <1>2 DEF Covering, Turn
  <2>2. Shifted(st.turns[u], p).ids = st.turns[u].ids
          /\ Shifted(st.turns[u], p).covered = st.turns[u].covered
    BY <1>2 DEF Shifted, Turn
  <2>3. QED  BY <2>1, <2>2
<1> HIDE DEF Moved
<1>4. QED  BY <1>1, <1>3 DEF Covers

\* A call that has an id keeps it, and one without is given one that is not NoId.
LEMMA NormalizedOf ==
    ASSUME NEW calls \in Seq(CallId), NEW index \in Nat
    PROVE  /\ Normalized(calls, index) \in Seq(NamedId)
           /\ Len(Normalized(calls, index)) = Len(calls)
           /\ NoId \notin IdsOf(calls) => Normalized(calls, index) = calls
<1> DEFINE ids == Normalized(calls, index)
<1>1. Len(calls) \in Nat /\ DOMAIN calls = 1 .. Len(calls) /\ \A p \in 1 .. Len(calls) : calls[p] \in CallId
  BY ElementOfSeq
<1>2. \A p \in 1 .. Len(calls) : ids[p] \in NamedId
  <2>1. ASSUME NEW p \in 1 .. Len(calls)  PROVE <<"call_missing", index, p>> \in NamedId
    <3>1. p \in Nat  BY <1>1
    <3>2. <<"call_missing", index, p>> \in CallId  BY <3>1 DEF CallId
    <3>3. <<"call_missing", index, p>> # NoId  BY DEF NoId
    <3>4. QED  BY <3>2, <3>3 DEF NamedId
  <2>2. \A p \in 1 .. Len(calls) :
            ids[p] = IF calls[p] = NoId THEN <<"call_missing", index, p>> ELSE calls[p]
    BY <1>1 DEF Normalized
  <2>3. QED  BY <1>1, <2>1, <2>2 DEF NamedId
<1>3. ids = [p \in 1 .. Len(calls) |-> ids[p]]  BY <1>1 DEF Normalized
<1>4. ids \in Seq(NamedId) /\ Len(ids) = Len(calls)
  <2> HIDE DEF ids
  <2>1. QED  BY <1>1, <1>2, <1>3, IsASeq
<1>5. ASSUME NoId \notin IdsOf(calls)  PROVE ids = calls
  <2>1. \A p \in 1 .. Len(calls) : calls[p] # NoId  BY <1>1, <1>5 DEF IdsOf
  <2>2. \A p \in 1 .. Len(calls) : ids[p] = calls[p]  BY <1>1, <2>1 DEF Normalized
  <2>3. QED  BY <1>1, <1>3, <2>2
<1>6. QED  BY <1>4, <1>5

\* A message that is no result goes to the end of the list, as a turn when it calls.
LEMMA TakeMessageKeeps ==
    ASSUME NEW st \in Layout, NEW m \in Message, m.role # "tool", NEW index \in Nat
    PROVE  /\ TakeMessage(st, m, index) \in Layout
           /\ TakeMessage(st, m, index).orphans = st.orphans
           /\ TakeMessage(st, m, index).out =
                  Append(st.out, [m EXCEPT !.calls = Normalized(m.calls, index)])
           /\ TakeMessage(st, m, index).turns =
                  IF m.calls = <<>> THEN st.turns
                  ELSE Append(st.turns, NewTurn(Normalized(m.calls, index), Len(st.out) + 1))
<1> DEFINE out == st.out
           turns == st.turns
           ids == Normalized(m.calls, index)
           e == [m EXCEPT !.calls = ids]
           new == Append(out, e)
           tour == NewTurn(ids, Len(out) + 1)
           after == IF m.calls = <<>> THEN turns ELSE Append(turns, tour)
           r == [out |-> new, turns |-> after, orphans |-> st.orphans]
<1>1. /\ out \in Seq(Message) /\ turns \in Seq(Turn) /\ st.orphans \in SUBSET Nat
      /\ Apart(turns)
      /\ \A u \in DOMAIN turns : turns[u] \in Turn /\ Fits(out, turns[u])
      /\ \A j \in DOMAIN out : out[j] \in Message /\ Stands(out, turns, j)
      /\ DOMAIN turns = 1 .. Len(turns) /\ DOMAIN out = 1 .. Len(out)
      /\ Len(turns) \in Nat /\ Len(out) \in Nat
  BY LayoutParts
<1>2. m.calls \in Seq(CallId) /\ m.role \in {"user", "assistant"}  BY DEF Message
<1>3. ids \in Seq(NamedId) /\ Len(ids) = Len(m.calls) /\ (m.calls = <<>> => ids = <<>>)
  <2>1. ids \in Seq(NamedId) /\ Len(ids) = Len(m.calls)  BY <1>2, NormalizedOf
  <2>2. m.calls = <<>> => ids = <<>>
    <3>1. m.calls = <<>> => Len(ids) = 0  BY <2>1
    <3>2. QED  BY <2>1, <3>1, EmptySeq
  <2>3. QED  BY <2>1, <2>2
<1>4. NamedId \subseteq CallId  BY DEF NamedId
<1>5. ids \in Seq(CallId)  BY <1>3, <1>4, SeqMonotonic
<1> HIDE DEF ids
<1>6. e \in Message /\ e.calls = ids /\ e.role = m.role  BY <1>3, <1>5 DEF Message
<1>7. tour \in Turn /\ tour.ids = ids /\ tour.covered = {} /\ tour.attached = 0
        /\ tour.position = Len(out) + 1
  BY <1>1, <1>3 DEF NewTurn, Turn
<1> HIDE DEF e, tour
<1>8. new \in Seq(Message) /\ Len(new) = Len(out) + 1 /\ new[Len(out) + 1] = e
        /\ (\A j \in 1 .. Len(out) : new[j] = out[j]) /\ DOMAIN new = 1 .. Len(out) + 1
  <2>1. new \in Seq(Message) /\ Len(new) = Len(out) + 1 /\ new[Len(out) + 1] = e
          /\ \A j \in 1 .. Len(out) : new[j] = out[j]
    BY <1>1, <1>6, AppendProperties
  <2>2. QED  BY <2>1
<1> HIDE DEF new
<1>9. \A u \in DOMAIN turns : Fits(new, turns[u])
  <2> SUFFICES ASSUME NEW u \in DOMAIN turns  PROVE Fits(new, turns[u])
    OBVIOUS
  <2>1. turns[u] \in Turn /\ Fits(out, turns[u])  BY <1>1
  <2>2. turns[u].position \in Nat /\ turns[u].position >= 1 /\ turns[u].attached \in Nat
    BY <2>1 DEF Turn
  <2>3. turns[u].position + turns[u].attached <= Len(out)  BY <2>1 DEF Fits
  <2>4. \A j \in turns[u].position .. turns[u].position + turns[u].attached : new[j + 0] = out[j]
    <3>1. \A j \in turns[u].position .. turns[u].position + turns[u].attached :
              j + 0 = j /\ j \in 1 .. Len(out)
      BY <1>1, <2>2, <2>3
    <3>2. QED  BY <1>8, <3>1
  <2>5. turns[u].position + 0 + turns[u].attached <= Len(new)
          /\ turns[u].position = turns[u].position + 0
    BY <1>1, <1>8, <2>2, <2>3
  <2>6. QED  BY <1>1, <1>8, <2>1, <2>4, <2>5, FitsMoved
<1>10. ASSUME m.calls = <<>>  PROVE r \in Layout
  <2>1. after = turns  BY <1>10
  <2>2. e.calls = <<>> /\ e.role # "tool"  BY <1>3, <1>6, <1>10
  <2>3. \A j \in DOMAIN new : Stands(new, turns, j)
    <3>1. \A j \in DOMAIN new : j \in DOMAIN out \/ j = Len(out) + 1  BY <1>1, <1>8
    <3>2. \A j \in DOMAIN out : Stands(new, turns, j)  BY <1>1, <1>8 DEF Stands
    <3>3. Stands(new, turns, Len(out) + 1)  BY <1>8, <2>2 DEF Stands
    <3>4. QED  BY <3>1, <3>2, <3>3
  <2> HIDE DEF after
  <2>4. r \in [out : Seq(Message), turns : Seq(Turn), orphans : SUBSET Nat]
    BY <1>1, <1>8, <2>1
  <2>5. r.out = new /\ r.turns = turns  BY <2>1
  <2> HIDE DEF r
  <2>6. Laid(r)  BY <1>1, <1>9, <2>3, <2>5 DEF Laid
  <2>7. QED  BY <2>4, <2>6 DEF Layout
<1>11. ASSUME m.calls # <<>>  PROVE r \in Layout
  <2> DEFINE l == Len(turns) + 1
  <2>1. after = Append(turns, tour)  BY <1>11
  <2>2. after \in Seq(Turn) /\ Len(after) = l /\ after[l] = tour
          /\ (\A u \in 1 .. Len(turns) : after[u] = turns[u]) /\ DOMAIN after = 1 .. l
    <3>1. after \in Seq(Turn) /\ Len(after) = l /\ after[l] = tour
            /\ \A u \in 1 .. Len(turns) : after[u] = turns[u]
      BY <1>1, <1>7, <2>1, AppendProperties
    <3>2. QED  BY <3>1
  <2> HIDE DEF after
  <2>3. \A u \in DOMAIN after : u \in DOMAIN turns \/ u = l  BY <1>1, <2>2
  <2>4. Apart(after)
    <3> SUFFICES ASSUME NEW u \in DOMAIN after, NEW v \in DOMAIN after, u < v
                 PROVE  after[u].position + after[u].attached < after[v].position
      BY DEF Apart
    <3>1. u \in DOMAIN turns  BY <1>1, <2>2
    <3>2. turns[u] \in Turn /\ Fits(out, turns[u]) /\ after[u] = turns[u]  BY <1>1, <2>2, <3>1
    <3>3. turns[u].position + turns[u].attached <= Len(out)  BY <3>2 DEF Fits
    <3>4. turns[u].position \in Nat /\ turns[u].attached \in Nat  BY <3>2 DEF Turn
    <3>5. CASE v = l
      <4>1. after[v].position = Len(out) + 1  BY <1>7, <2>2, <3>5
      <4>2. QED  BY <1>1, <3>2, <3>3, <3>4, <4>1
    <3>6. CASE v # l
      <4>1. v \in DOMAIN turns /\ after[v] = turns[v]  BY <1>1, <2>2, <2>3, <3>6
      <4>2. QED  BY <1>1, <3>1, <3>2, <4>1 DEF Apart
    <3>7. QED  BY <3>5, <3>6
  <2>5. Fits(new, tour)
    <3>1. tour.ids # <<>>
      <4>1. Len(m.calls) # 0  BY <1>2, <1>11, EmptySeq
      <4>2. QED  BY <1>3, <1>7, <4>1
    <3>2. Behind(tour) = {}  BY <1>1, <1>7 DEF Behind
    <3>3. tour.position + tour.attached <= Len(new)  BY <1>1, <1>7, <1>8
    <3>4. m.role = "assistant"  BY <1>11 DEF Message
    <3>5. QED  BY <1>6, <1>7, <1>8, <3>1, <3>2, <3>3, <3>4 DEF Fits
  <2>6. \A u \in DOMAIN after : Fits(new, after[u])  BY <1>1, <1>9, <2>2, <2>3, <2>5
  <2>7. \A j \in DOMAIN new : Stands(new, after, j)
    <3>1. \A j \in DOMAIN new : j \in DOMAIN out \/ j = Len(out) + 1  BY <1>1, <1>8
    <3>2. \A u \in DOMAIN turns : u \in DOMAIN after /\ after[u] = turns[u]  BY <1>1, <2>2
    <3>3. \A j \in DOMAIN out : new[j] = out[j] /\ Stands(out, turns, j)  BY <1>1, <1>8
    <3>4. \A j \in DOMAIN out : Stands(new, after, j)  BY <3>2, <3>3 DEF Stands
    <3>5. Stands(new, after, Len(out) + 1)
      <4>1. l \in DOMAIN after /\ after[l].position = Len(out) + 1  BY <1>1, <1>7, <2>2
      <4>2. new[Len(out) + 1].role # "tool"  BY <1>6, <1>8
      <4>3. QED  BY <4>1, <4>2 DEF Stands
    <3>6. QED  BY <3>1, <3>4, <3>5
  <2>8. r \in [out : Seq(Message), turns : Seq(Turn), orphans : SUBSET Nat]
    BY <1>1, <1>8, <2>2
  <2>9. r.out = new /\ r.turns = after  OBVIOUS
  <2> HIDE DEF r
  <2>10. Laid(r)  BY <2>4, <2>6, <2>7, <2>9 DEF Laid
  <2>11. QED  BY <2>8, <2>10 DEF Layout
<1>12. r \in Layout  BY <1>10, <1>11
<1>13. TakeMessage(st, m, index) = r  BY DEF TakeMessage, new, e, tour, ids
<1>14. QED  BY <1>12, <1>13 DEF new, e, tour, ids

\* The turns a result may go to are turns, and the latest of them is one.
LEMMA AskersAreTurns ==
    ASSUME NEW st \in Layout, NEW id
    PROVE  Askers(st, id) \subseteq 1 .. Len(st.turns)
  BY LayoutParts DEF Askers

\* A result goes behind a turn that waits for the id it is given, the one it names if the
\* latest turn that asked for it does; else it waits.
LEMMA TakeResultKeeps ==
    ASSUME NEW st \in Layout, NEW m \in Message, NEW index
    PROVE  LET asker == Latest(Askers(st, m.answers))
               own == asker # 0 /\ m.answers \notin st.turns[asker].covered
           IN /\ own => /\ asker \in Askers(st, m.answers)
                        /\ \A u \in Askers(st, m.answers) : u <= asker
                        /\ TakeResult(st, m, index) = Attach(st, asker, m, m.answers)
              /\ \/ TakeResult(st, m, index) = [st EXCEPT !.orphans = @ \cup {index}]
                 \/ \E t \in DOMAIN st.turns, id \in NamedId :
                        /\ id \in IdsOf(st.turns[t].ids) /\ id \notin st.turns[t].covered
                        /\ TakeResult(st, m, index) = Attach(st, t, m, id)
<1> DEFINE asker == Latest(Askers(st, m.answers))
           own == asker # 0 /\ m.answers \notin st.turns[asker].covered
           open == {t \in DOMAIN st.turns : OpenSlots(st.turns[t]) # {}}
           other == Latest(open)
<1>1. DOMAIN st.turns = 1 .. Len(st.turns) /\ Len(st.turns) \in Nat
        /\ \A t \in DOMAIN st.turns : st.turns[t] \in Turn
  BY LayoutParts
<1>2. \A t \in DOMAIN st.turns : st.turns[t].ids \in Seq(NamedId)  BY <1>1 DEF Turn
<1>3. \A t \in DOMAIN st.turns : IdsOf(st.turns[t].ids) \subseteq NamedId
  BY <1>2, ElementOfSeq DEF IdsOf
<1>4. Askers(st, m.answers) \subseteq 1 .. Len(st.turns)  BY AskersAreTurns
<1>5. open \subseteq 1 .. Len(st.turns)  BY <1>1
<1>6. TakeResult(st, m, index) =
        IF own THEN Attach(st, asker, m, m.answers)
        ELSE IF other # 0 THEN Attach(st, other, m, FirstOpen(st.turns[other]))
        ELSE [st EXCEPT !.orphans = @ \cup {index}]
  BY DEF TakeResult
<1>7. asker # 0 => asker \in Askers(st, m.answers) /\ \A u \in Askers(st, m.answers) : u <= asker
  BY <1>1, <1>4, LatestOf
<1>8. other # 0 => other \in open
  <2> HIDE DEF open
  <2>1. QED  BY <1>1, <1>5, LatestOf
<1> HIDE DEF asker, other
<1>9. CASE own
  <2>1. TakeResult(st, m, index) = Attach(st, asker, m, m.answers)  BY <1>6, <1>9
  <2>2. asker \in Askers(st, m.answers)  BY <1>7, <1>9
  <2>3. asker \in DOMAIN st.turns /\ m.answers \in IdsOf(st.turns[asker].ids)  BY <2>2 DEF Askers
  <2>4. m.answers \in NamedId  BY <1>3, <2>3
  <2>5. QED  BY <1>7, <1>9, <2>1, <2>3, <2>4 DEF asker
<1>10. CASE ~own /\ other # 0
  <2> DEFINE id == FirstOpen(st.turns[other])
  <2>1. TakeResult(st, m, index) = Attach(st, other, m, id)  BY <1>6, <1>10
  <2>2. other \in DOMAIN st.turns /\ OpenSlots(st.turns[other]) # {}  BY <1>8, <1>10
  <2>3. id \in IdsOf(st.turns[other].ids) /\ id \notin st.turns[other].covered
    BY <1>2, <2>2, FirstOpenOf
  <2>4. id \in NamedId  BY <1>3, <2>2, <2>3
  <2> HIDE DEF id
  <2>5. QED  BY <1>10, <2>1, <2>2, <2>3, <2>4 DEF asker
<1>11. CASE ~own /\ other = 0  BY <1>6, <1>11 DEF asker
<1>12. QED  BY <1>9, <1>10, <1>11

\* A result that waited goes behind a turn that waits for the id it names, or stays.
LEMMA TakeOrphanKeeps ==
    ASSUME NEW st \in Layout, NEW m \in Message, NEW index
    PROVE  \/ TakeOrphan(st, m, index) = st
           \/ \E t \in DOMAIN st.turns :
                  /\ m.answers \in NamedId
                  /\ m.answers \in IdsOf(st.turns[t].ids) /\ m.answers \notin st.turns[t].covered
                  /\ TakeOrphan(st, m, index) =
                         [Attach(st, t, m, m.answers) EXCEPT !.orphans = @ \ {index}]
<1> DEFINE found == {u \in Askers(st, m.answers) : m.answers \notin st.turns[u].covered}
           t == Latest(found)
<1>1. Len(st.turns) \in Nat /\ \A u \in DOMAIN st.turns : st.turns[u] \in Turn
  BY LayoutParts
<1>2. found \subseteq 1 .. Len(st.turns)  BY AskersAreTurns
<1>3. t # 0 => t \in found
  <2> HIDE DEF found
  <2>1. QED  BY <1>1, <1>2, LatestOf
<1>4. TakeOrphan(st, m, index) =
        IF t = 0 THEN st ELSE [Attach(st, t, m, m.answers) EXCEPT !.orphans = @ \ {index}]
  BY DEF TakeOrphan
<1> HIDE DEF t
<1>5. CASE t = 0  BY <1>4, <1>5
<1>6. CASE t # 0
  <2>1. t \in Askers(st, m.answers) /\ m.answers \notin st.turns[t].covered  BY <1>3, <1>6
  <2>2. t \in DOMAIN st.turns /\ m.answers \in IdsOf(st.turns[t].ids)  BY <2>1 DEF Askers
  <2>3. st.turns[t].ids \in Seq(NamedId)  BY <1>1, <2>2 DEF Turn
  <2>4. m.answers \in NamedId  BY <2>2, <2>3, ElementOfSeq DEF IdsOf
  <2>5. QED  BY <1>4, <1>6, <2>1, <2>2, <2>4
<1>7. QED  BY <1>5, <1>6

\* The states of the repair of a list: only results of the list wait.
Repairing(msgs) ==
    {st \in Layout : \A i \in st.orphans : i \in 1 .. Len(msgs) /\ msgs[i].role = "tool"}

\* Who waits says nothing of the layout.
LEMMA OtherOrphans ==
    ASSUME NEW st \in Layout, NEW O \in SUBSET Nat
    PROVE  /\ [st EXCEPT !.orphans = O] \in Layout
           /\ [st EXCEPT !.orphans = O].out = st.out
           /\ [st EXCEPT !.orphans = O].turns = st.turns
           /\ [st EXCEPT !.orphans = O].orphans = O
<1> DEFINE r == [st EXCEPT !.orphans = O]
<1>1. st \in [out : Seq(Message), turns : Seq(Turn), orphans : SUBSET Nat] /\ Laid(st)
  BY DEF Layout
<1>2. r \in [out : Seq(Message), turns : Seq(Turn), orphans : SUBSET Nat]
        /\ r.out = st.out /\ r.turns = st.turns /\ r.orphans = O
  BY <1>1
<1> HIDE DEF r
<1>3. Laid(r)  BY <1>1, <1>2 DEF Laid
<1>4. QED  BY <1>2, <1>3 DEF Layout, r

\* Every message of a list is in the other one too.
Within(out, new) == \A j \in DOMAIN out : \E k \in DOMAIN new : new[k] = out[j]

\* A step puts a message in the list, or leaves it among those that wait.
Steps(msgs, st, a, i, again) ==
    \/ ~again /\ a.out = st.out /\ a.orphans = st.orphans \cup {i}
    \/ /\ Len(a.out) = Len(st.out) + 1 /\ Within(st.out, a.out)
       /\ \E k \in DOMAIN a.out : a.out[k].key = msgs[i].key
       /\ a.orphans = IF again THEN st.orphans \ {i} ELSE st.orphans
       /\ again => i \in st.orphans
    \/ again /\ a = st

\* A step of the first pass puts the message it reads in the list, or lets it wait.
LEMMA ReadStep ==
    ASSUME NEW msgs \in Seq(Message), NEW st \in Repairing(msgs), NEW n \in 1 .. Len(msgs)
    PROVE  /\ RepairStep(msgs, st, n) \in Repairing(msgs)
           /\ Steps(msgs, st, RepairStep(msgs, st, n), n, FALSE)
<1> DEFINE a == RepairStep(msgs, st, n)
           m == msgs[n]
<1>1. m \in Message /\ n \in Nat /\ n <= Len(msgs) /\ Len(msgs) \in Nat  BY ElementOfSeq
<1>2. st \in Layout /\ \A i \in st.orphans : i \in 1 .. Len(msgs) /\ msgs[i].role = "tool"
  BY DEF Repairing
<1>3. st.orphans \in SUBSET Nat /\ st.out \in Seq(Message) /\ Len(st.out) \in Nat
        /\ DOMAIN st.out = 1 .. Len(st.out)
  BY <1>2, LayoutParts
<1>4. CASE m.role = "tool"
  <2>1. a = TakeResult(st, m, n)  BY <1>1, <1>4 DEF RepairStep
  <2>2. CASE a = [st EXCEPT !.orphans = @ \cup {n}]
    <3> DEFINE O == st.orphans \cup {n}
    <3>1. O \in SUBSET Nat  BY <1>1, <1>3
    <3>2. a = [st EXCEPT !.orphans = O]  BY <2>2
    <3> HIDE DEF O, a
    <3>3. a \in Layout /\ a.out = st.out /\ a.orphans = O  BY <1>2, <3>1, <3>2, OtherOrphans
    <3>4. \A i \in a.orphans : i \in 1 .. Len(msgs) /\ msgs[i].role = "tool"
      BY <1>2, <1>4, <3>3 DEF O
    <3>5. QED  BY <3>3, <3>4 DEF Repairing, Steps, O, a
  <2>3. ASSUME NEW t \in DOMAIN st.turns, NEW id \in NamedId, id \in IdsOf(st.turns[t].ids),
               id \notin st.turns[t].covered, a = Attach(st, t, m, id)
        PROVE  a \in Repairing(msgs) /\ Steps(msgs, st, a, n, FALSE)
    <3> HIDE DEF a
    <3>1. /\ a \in Layout /\ a.orphans = st.orphans /\ Len(a.out) = Len(st.out) + 1
          /\ \A j \in DOMAIN st.out : \E k \in DOMAIN a.out : a.out[k] = st.out[j]
          /\ \E k \in DOMAIN a.out : a.out[k] = [m EXCEPT !.answers = id]
      BY <1>1, <1>2, <1>4, <2>3, AttachKeeps
    <3>2. [m EXCEPT !.answers = id].key = m.key  BY <1>1 DEF Message
    <3>3. \E k \in DOMAIN a.out : a.out[k].key = m.key  BY <3>1, <3>2
    <3>4. QED  BY <1>2, <3>1, <3>3 DEF Repairing, Steps, Within
  <2>4. \/ TakeResult(st, m, n) = [st EXCEPT !.orphans = @ \cup {n}]
        \/ \E t \in DOMAIN st.turns, id \in NamedId :
               /\ id \in IdsOf(st.turns[t].ids) /\ id \notin st.turns[t].covered
               /\ TakeResult(st, m, n) = Attach(st, t, m, id)
    <3>1. m \in Message /\ st \in Layout  BY <1>1, <1>2
    <3> HIDE DEF m
    <3>2. QED  BY <3>1, TakeResultKeeps
  <2> HIDE DEF a, m
  <2>5. QED  BY <2>1, <2>2, <2>3, <2>4 DEF a
<1>5. CASE m.role # "tool"
  <2> DEFINE e == [m EXCEPT !.calls = Normalized(m.calls, n)]
  <2>1. a = TakeMessage(st, m, n)  BY <1>1, <1>5 DEF RepairStep
  <2>2. a \in Layout /\ a.orphans = st.orphans /\ a.out = Append(st.out, e)
    <3>1. /\ TakeMessage(st, m, n) \in Layout
          /\ TakeMessage(st, m, n).orphans = st.orphans
          /\ TakeMessage(st, m, n).out = Append(st.out, e)
      BY <1>1, <1>2, <1>5, TakeMessageKeeps
    <3> HIDE DEF a, e
    <3>2. QED  BY <2>1, <3>1
  <2>3. e.key = m.key  BY <1>1 DEF Message
  <2> HIDE DEF e, a
  <2>4. a.out \in Seq(Message) /\ DOMAIN a.out = 1 .. Len(a.out)  BY <2>2, LayoutParts
  <2>5. Len(a.out) = Len(st.out) + 1 /\ a.out[Len(st.out) + 1] = e
          /\ \A j \in 1 .. Len(st.out) : a.out[j] = st.out[j]
    BY <1>3, <2>2
  <2>6. Within(st.out, a.out)
    <3>1. \A j \in DOMAIN st.out : j \in DOMAIN a.out /\ a.out[j] = st.out[j]
      BY <1>3, <2>4, <2>5
    <3>2. QED  BY <3>1 DEF Within
  <2>7. \E k \in DOMAIN a.out : a.out[k].key = m.key
    <3>1. Len(st.out) + 1 \in DOMAIN a.out  BY <1>3, <2>4, <2>5
    <3>2. QED  BY <2>3, <2>5, <3>1
  <2>8. QED  BY <1>2, <2>2, <2>5, <2>6, <2>7 DEF Repairing, Steps, a
<1>6. QED  BY <1>4, <1>5

\* A step of the second pass puts a result that waited in the list, or changes nothing.
LEMMA JoinStep ==
    ASSUME NEW msgs \in Seq(Message), NEW st \in Repairing(msgs), NEW i \in 1 .. Len(msgs)
    PROVE  /\ RepairStep(msgs, st, Len(msgs) + i) \in Repairing(msgs)
           /\ Steps(msgs, st, RepairStep(msgs, st, Len(msgs) + i), i, TRUE)
           /\ i \notin st.orphans => RepairStep(msgs, st, Len(msgs) + i) = st
<1> DEFINE a == RepairStep(msgs, st, Len(msgs) + i)
           m == msgs[i]
<1>1. m \in Message /\ i \in Nat /\ Len(msgs) \in Nat  BY ElementOfSeq
<1>2. st \in Layout /\ \A j \in st.orphans : j \in 1 .. Len(msgs) /\ msgs[j].role = "tool"
  BY DEF Repairing
<1>3. ~(Len(msgs) + i <= Len(msgs)) /\ (Len(msgs) + i) - Len(msgs) = i  BY <1>1
<1>4. a = IF i \in st.orphans THEN TakeOrphan(st, m, i) ELSE st  BY <1>3 DEF RepairStep
<1>5. CASE a = st  BY <1>5 DEF Steps
<1>6. ASSUME i \in st.orphans, NEW t \in DOMAIN st.turns, m.answers \in NamedId,
             m.answers \in IdsOf(st.turns[t].ids), m.answers \notin st.turns[t].covered,
             a = [Attach(st, t, m, m.answers) EXCEPT !.orphans = @ \ {i}]
      PROVE  a \in Repairing(msgs) /\ Steps(msgs, st, a, i, TRUE)
  <2> DEFINE b == Attach(st, t, m, m.answers)
             O == st.orphans \ {i}
  <2>1. m.role = "tool"  BY <1>2, <1>6
  <2>2. /\ b \in Layout /\ b.orphans = st.orphans /\ Len(b.out) = Len(st.out) + 1
        /\ \A j \in DOMAIN st.out : \E k \in DOMAIN b.out : b.out[k] = st.out[j]
        /\ \E k \in DOMAIN b.out : b.out[k] = [m EXCEPT !.answers = m.answers]
    BY <1>1, <1>2, <1>6, <2>1, AttachKeeps
  <2>3. a = [b EXCEPT !.orphans = O]  BY <1>6, <2>2
  <2>4. O \in SUBSET Nat  BY <1>2, LayoutParts
  <2> HIDE DEF b, a, O
  <2>5. a \in Layout /\ a.out = b.out /\ a.orphans = O  BY <2>2, <2>3, <2>4, OtherOrphans
  <2>6. [m EXCEPT !.answers = m.answers].key = m.key  BY <1>1 DEF Message
  <2>7. \E k \in DOMAIN a.out : a.out[k].key = m.key
    <3>1. PICK k \in DOMAIN b.out : b.out[k] = [m EXCEPT !.answers = m.answers]  BY <2>2
    <3>2. k \in DOMAIN a.out /\ a.out[k].key = m.key  BY <2>5, <2>6, <3>1
    <3>3. QED  BY <3>2
  <2>8. a \in Repairing(msgs)  BY <1>2, <2>5 DEF Repairing, O
  <2>9. QED  BY <1>6, <2>2, <2>5, <2>7, <2>8 DEF Steps, Within, O
<1>7. CASE i \in st.orphans
  <2>1. a = TakeOrphan(st, m, i)  BY <1>4, <1>7
  <2>2. \/ TakeOrphan(st, m, i) = st
        \/ \E t \in DOMAIN st.turns :
               /\ m.answers \in NamedId
               /\ m.answers \in IdsOf(st.turns[t].ids) /\ m.answers \notin st.turns[t].covered
               /\ TakeOrphan(st, m, i) = [Attach(st, t, m, m.answers) EXCEPT !.orphans = @ \ {i}]
    BY <1>1, <1>2, TakeOrphanKeeps
  <2> HIDE DEF a, m
  <2>3. QED  BY <1>5, <1>6, <1>7, <2>1, <2>2 DEF a
<1>8. CASE i \notin st.orphans  BY <1>4, <1>5, <1>8
<1>9. QED  BY <1>4, <1>7, <1>8

\* Nothing read is a layout.
LEMMA NothingReadRepairs ==
    ASSUME NEW msgs \in Seq(Message)
    PROVE  NothingRead \in Repairing(msgs)
<1>1. NothingRead \in [out : Seq(Message), turns : Seq(Turn), orphans : SUBSET Nat]
  BY DEF NothingRead
<1>2. DOMAIN NothingRead.out = {} /\ DOMAIN NothingRead.turns = {} /\ NothingRead.orphans = {}
  BY DEF NothingRead
<1>3. Laid(NothingRead)  BY <1>2 DEF Laid, Apart
<1>4. QED  BY <1>1, <1>2, <1>3 DEF Layout, Repairing

\* Either pass keeps the layout, and lets only results of the list wait.
LEMMA RepairStepKeeps ==
    ASSUME NEW msgs \in Seq(Message), NEW st \in Repairing(msgs), NEW n \in 1 .. 2 * Len(msgs)
    PROVE  RepairStep(msgs, st, n) \in Repairing(msgs)
<1>1. Len(msgs) \in Nat  OBVIOUS
<1>2. CASE n <= Len(msgs)
  <2>1. n \in 1 .. Len(msgs)  BY <1>1, <1>2
  <2>2. QED  BY <2>1, ReadStep
<1>3. CASE ~(n <= Len(msgs))
  <2> DEFINE i == n - Len(msgs)
  <2>1. i \in 1 .. Len(msgs) /\ Len(msgs) + i = n  BY <1>1, <1>3
  <2> HIDE DEF i
  <2>2. RepairStep(msgs, st, Len(msgs) + i) \in Repairing(msgs)  BY <2>1, JoinStep
  <2>3. QED  BY <2>1, <2>2
<1>4. QED  BY <1>2, <1>3

\* f is the list after each step of its repair.
Repairs(f, msgs) ==
    /\ f \in [0 .. 2 * Len(msgs) -> Repairing(msgs)]
    /\ f[0] = NothingRead
    /\ \A n \in 1 .. 2 * Len(msgs) : f[n] = RepairStep(msgs, f[n - 1], n)
    /\ Repaired(msgs) = DropDangling(f[2 * Len(msgs)])

\* repair_tool_pairing is the run of its steps from an empty list, all of them laid out.
LEMMA RepairRun ==
    ASSUME NEW msgs \in Seq(Message)
    PROVE  \E f : Repairs(f, msgs)
<1> DEFINE L == 2 * Len(msgs)
           T == Repairing(msgs)
           F == [n \in 1 .. L |-> [st \in T |-> RepairStep(msgs, st, n)]]
           Is(g) == g = [n \in 0 .. L |-> IF n = 0 THEN NothingRead ELSE RepairStep(msgs, g[n - 1], n)]
           after == CHOOSE g : Is(g)
<1>1. L \in Nat /\ NothingRead \in T  BY NothingReadRepairs
<1>2. \A n \in 1 .. L : \A st \in T : RepairStep(msgs, st, n) \in T  BY RepairStepKeeps
<1>3. F \in [1 .. L -> [T -> T]]  BY <1>2
<1>4. \A n \in 1 .. L : \A st \in T : F[n][st] = RepairStep(msgs, st, n)  OBVIOUS
<1>5. Repaired(msgs) = DropDangling(after[L])  BY DEF Repaired
<1> HIDE DEF L, T, F
<1>6. \E f \in [0 .. L -> T] : Goes(f, NothingRead, F, L)  BY <1>1, <1>3, StepByStep
<1>7. PICK f \in [0 .. L -> T] : f[0] = NothingRead /\ \A n \in 1 .. L : f[n] = F[n][f[n - 1]]
  BY <1>6 DEF Goes
<1>8. \A n \in 0 .. L : n = 0 \/ (n \in 1 .. L /\ n - 1 \in 0 .. L)  BY <1>1
<1>9. Is(f)
  <2>1. \A n \in 0 .. L : f[n] = IF n = 0 THEN NothingRead ELSE RepairStep(msgs, f[n - 1], n)
    BY <1>4, <1>7, <1>8
  <2>2. f = [n \in 0 .. L |-> f[n]]  BY <1>7
  <2>3. QED  BY <2>1, <2>2
<1>10. Is(after)  BY <1>9
<1> HIDE DEF after
<1>11. after = [n \in 0 .. L |-> after[n]] /\ after[0] = NothingRead
         /\ \A n \in 1 .. L : after[n] = RepairStep(msgs, after[n - 1], n)
  <2>1. 0 \in 0 .. L /\ \A n \in 1 .. L : n # 0 /\ n \in 0 .. L  BY <1>1
  <2>2. after = [n \in 0 .. L |-> after[n]]  BY <1>10
  <2>3. QED  BY <1>10, <2>1, <2>2
<1> DEFINE S == {n \in 0 .. L : after[n] \in T}
<1>12. 0 \in S  BY <1>1, <1>11
<1>13. ASSUME NEW n \in 0 .. L, n \in S, n < L  PROVE n + 1 \in S
  <2>1. n + 1 \in 1 .. L /\ n + 1 \in 0 .. L /\ (n + 1) - 1 = n  BY <1>1, <1>13
  <2>2. QED  BY <1>2, <1>11, <1>13, <2>1
<1> HIDE DEF S
<1>14. \A n \in 0 .. L : n \in S
  <2>1. 0 \in 0 .. L  BY <1>1
  <2>2. QED  BY <1>1, <1>12, <1>13, <2>1, UpTo
<1>15. after \in [0 .. L -> T]  BY <1>11, <1>14 DEF S
<1>16. Repairs(after, msgs)  BY <1>5, <1>11, <1>15 DEF Repairs, L, T
<1>17. QED  BY <1>16

-----------------------------------------------------------------------------
(* What is routed *)

\* A result behind a turn is asked for by that turn.
LEMMA AskerOf ==
    ASSUME NEW st \in Layout, NEW t \in DOMAIN st.turns, NEW j \in Behind(st.turns[t])
    PROVE  /\ j \in DOMAIN st.out /\ st.turns[t].position \in DOMAIN st.out
           /\ Asker(st.out, j) = st.turns[t].position
<1> DEFINE tour == st.turns[t]
           a == tour.position
           before == {k \in 1 .. j - 1 : st.out[k].role # "tool"}
<1>1. tour \in Turn /\ Fits(st.out, tour) /\ DOMAIN st.out = 1 .. Len(st.out) /\ Len(st.out) \in Nat
  BY LayoutParts
<1>2. a \in Nat /\ a >= 1 /\ tour.attached \in Nat /\ a + tour.attached <= Len(st.out)
  BY <1>1 DEF Turn, Fits
<1>3. j \in a + 1 .. a + tour.attached  BY DEF Behind
<1>4. a \in before
  <2>1. st.out[a].role # "tool"  BY <1>1 DEF Fits
  <2>2. a \in 1 .. j - 1  BY <1>2, <1>3
  <2>3. QED  BY <2>1, <2>2
<1>5. ASSUME NEW k \in before  PROVE k <= a
  <2>1. k \in 1 .. j - 1 /\ st.out[k].role # "tool"  OBVIOUS
  <2>2. SUFFICES ASSUME k > a  PROVE FALSE  BY <1>2, <2>1
  <2>3. k \in Behind(tour)  BY <1>2, <1>3, <2>1, <2>2 DEF Behind
  <2>4. QED  BY <1>1, <2>1, <2>3 DEF Fits
<1>6. before \subseteq Nat  BY <1>2, <1>3
<1>7. before \subseteq 1 .. Len(st.out)  BY <1>1, <1>2, <1>3
<1>8. Asker(st.out, j) = Latest(before)  BY DEF Asker
<1> HIDE DEF before
<1>9. Latest(before) = a
  <2> DEFINE c == Latest(before)
  <2>1. c \in before /\ \A y \in before : y <= c  BY <1>1, <1>4, <1>7, LatestOf
  <2> HIDE DEF c
  <2>2. a <= c /\ c <= a  BY <1>4, <1>5, <2>1
  <2>3. c \in Nat  BY <1>6, <2>1
  <2>4. c = a  BY <1>2, <2>2, <2>3
  <2>5. QED  BY <2>4 DEF c
<1>10. j \in DOMAIN st.out /\ a \in DOMAIN st.out  BY <1>1, <1>2, <1>3
<1>11. QED  BY <1>8, <1>9, <1>10

\* The result of a turn is behind it.
LEMMA TurnOf ==
    ASSUME NEW st \in Layout, NEW j \in DOMAIN st.out, st.out[j].role = "tool"
    PROVE  \E t \in DOMAIN st.turns :
               /\ j \in Behind(st.turns[t]) /\ Asker(st.out, j) = st.turns[t].position
               /\ st.out[j].answers \in st.turns[t].covered
<1>1. Stands(st.out, st.turns, j)  BY LayoutParts
<1>2. PICK t \in DOMAIN st.turns : j \in Behind(st.turns[t])  BY <1>1 DEF Stands
<1>3. Fits(st.out, st.turns[t])  BY LayoutParts
<1>4. QED  BY <1>2, <1>3, AskerOf DEF Fits

\* A place is the place of one turn.
LEMMA OneTurnAt ==
    ASSUME NEW st \in Layout, NEW t \in DOMAIN st.turns, NEW u \in DOMAIN st.turns,
           st.turns[t].position = st.turns[u].position
    PROVE  t = u
<1>1. Apart(st.turns) /\ st.turns[t] \in Turn /\ st.turns[u] \in Turn
        /\ DOMAIN st.turns = 1 .. Len(st.turns) /\ Len(st.turns) \in Nat
  BY LayoutParts
<1>2. \A v \in {t, u} : st.turns[v].position \in Nat /\ st.turns[v].attached \in Nat
  BY <1>1 DEF Turn
<1>3. t \in Nat /\ u \in Nat  BY <1>1
<1>4. CASE t < u
  <2>1. st.turns[t].position + st.turns[t].attached < st.turns[u].position  BY <1>1, <1>4 DEF Apart
  <2>2. QED  BY <1>2, <2>1
<1>5. CASE u < t
  <2>1. st.turns[u].position + st.turns[u].attached < st.turns[t].position  BY <1>1, <1>5 DEF Apart
  <2>2. QED  BY <1>2, <2>1
<1>6. QED  BY <1>3, <1>4, <1>5

\* The list without its dangling calls is the same list, but for the calls nothing covers.
LEMMA DroppedOf ==
    ASSUME NEW st \in Layout
    PROVE  LET new == DropDangling(st).out
           IN /\ new \in Seq(Message) /\ Len(new) = Len(st.out) /\ DOMAIN new = DOMAIN st.out
              /\ DropDangling(st).orphans = st.orphans
              /\ \A j \in DOMAIN new :
                     /\ new[j].role = st.out[j].role /\ new[j].answers = st.out[j].answers
                     /\ new[j].key = st.out[j].key
                     /\ IdsOf(new[j].calls) = IdsOf(st.out[j].calls) \ Uncovered(st, j)
                     /\ Uncovered(st, j) = {} => new[j] = st.out[j]
              /\ \A t \in DOMAIN st.turns :
                     IdsOf(new[st.turns[t].position].calls) = st.turns[t].covered
<1> DEFINE out == st.out
           new == [i \in DOMAIN out |->
                      [out[i] EXCEPT !.calls = Surviving(out[i].calls, Uncovered(st, i))]]
<1>1. /\ out \in Seq(Message) /\ DOMAIN out = 1 .. Len(out) /\ Len(out) \in Nat
      /\ \A j \in DOMAIN out : out[j] \in Message
      /\ \A t \in DOMAIN st.turns : st.turns[t] \in Turn /\ Fits(out, st.turns[t])
      /\ st \in [out : Seq(Message), turns : Seq(Turn), orphans : SUBSET Nat]
  BY LayoutParts DEF Layout
<1>2. DropDangling(st).out = new /\ DropDangling(st).orphans = st.orphans
  <2>1. DropDangling(st) = [st EXCEPT !.out = new]  BY DEF DropDangling, Answered
  <2> HIDE DEF new
  <2>2. QED  BY <1>1, <2>1
<1>3. ASSUME NEW j \in DOMAIN out
      PROVE  /\ new[j] \in Message /\ new[j].role = out[j].role /\ new[j].answers = out[j].answers
             /\ new[j].key = out[j].key
             /\ IdsOf(new[j].calls) = IdsOf(out[j].calls) \ Uncovered(st, j)
             /\ Uncovered(st, j) = {} => new[j] = out[j]
  <2> DEFINE m == out[j]
             D == Uncovered(st, j)
             c == Surviving(m.calls, D)
  <2>1. m \in Message /\ m.calls \in Seq(CallId)  BY <1>1 DEF Message
  <2>2. c \in Seq(CallId) /\ IdsOf(c) = IdsOf(m.calls) \ D
          /\ (IdsOf(m.calls) \cap D = {} => c = m.calls)
    BY <2>1, SurvivingOf
  <2>3. m.calls = <<>> => c = <<>>
    <3>1. ASSUME m.calls = <<>>  PROVE IdsOf(m.calls) \cap D = {}  BY <3>1 DEF IdsOf
    <3>2. QED  BY <2>2, <3>1
  <2>4. D = {} => c = m.calls  BY <2>2
  <2>5. new[j] = [m EXCEPT !.calls = c]  OBVIOUS
  <2> HIDE DEF new, m, c, D
  <2>6. new[j] \in Message /\ new[j].role = m.role /\ new[j].answers = m.answers
          /\ new[j].key = m.key /\ new[j].calls = c
    BY <2>1, <2>2, <2>3, <2>5 DEF Message
  <2>7. c = m.calls => new[j] = m  BY <2>1, <2>5 DEF Message
  <2>8. QED  BY <2>2, <2>4, <2>6, <2>7 DEF m, D
<1>4. DOMAIN new = DOMAIN out /\ new = [i \in 1 .. Len(out) |-> new[i]]  BY <1>1
<1> HIDE DEF new
<1>5. new \in Seq(Message) /\ Len(new) = Len(out)
  <2>1. \A i \in 1 .. Len(out) : new[i] \in Message  BY <1>1, <1>3
  <2>2. QED  BY <1>1, <1>4, <2>1, IsASeq
<1>6. ASSUME NEW t \in DOMAIN st.turns
      PROVE  IdsOf(new[st.turns[t].position].calls) = st.turns[t].covered
  <2> DEFINE tour == st.turns[t]
             p == tour.position
  <2>1. tour \in Turn /\ Fits(out, tour)  BY <1>1
  <2>2. p \in DOMAIN out
    <3>1. p \in Nat /\ p >= 1 /\ tour.attached \in Nat /\ p + tour.attached <= Len(out)
      BY <2>1 DEF Turn, Fits
    <3>2. QED  BY <1>1, <3>1
  <2>3. out[p].calls = tour.ids /\ tour.covered \subseteq IdsOf(tour.ids)  BY <2>1 DEF Fits
  <2>4. Uncovered(st, p) = IdsOf(tour.ids) \ tour.covered
    <3>1. \A u \in DOMAIN st.turns : st.turns[u].position = p => u = t  BY OneTurnAt
    <3>2. QED  BY <2>3, <3>1 DEF Uncovered
  <2>5. IdsOf(new[p].calls) = IdsOf(out[p].calls) \ Uncovered(st, p)  BY <1>3, <2>2
  <2>6. QED  BY <2>3, <2>4, <2>5
<1>7. QED  BY <1>2, <1>3, <1>4, <1>5, <1>6

\* Who asked for a result depends on the roles of the messages alone.
LEMMA AskerByRole ==
    ASSUME NEW out \in Seq(Message), NEW new \in Seq(Message), Len(new) = Len(out),
           \A j \in DOMAIN new : new[j].role = out[j].role, NEW i \in DOMAIN out
    PROVE  Asker(new, i) = Asker(out, i)
<1>1. DOMAIN out = 1 .. Len(out) /\ DOMAIN new = 1 .. Len(out) /\ Len(out) \in Nat  OBVIOUS
<1>2. \A j \in 1 .. i - 1 : new[j].role = out[j].role  BY <1>1
<1>3. {j \in 1 .. i - 1 : new[j].role # "tool"} = {j \in 1 .. i - 1 : out[j].role # "tool"}
  BY <1>2
<1>4. QED  BY <1>3 DEF Asker

\* Every call has an id; the results of a message answer calls of their own.
AllNamed(msgs) == \A i \in DOMAIN msgs : NoId \notin IdsOf(msgs[i].calls)
OneEach(msgs) ==
    \A i, j \in DOMAIN msgs :
        msgs[i].role = "tool" /\ msgs[j].role = "tool" /\ i # j /\ Asker(msgs, i) = Asker(msgs, j)
            => msgs[i].answers # msgs[j].answers

\* What a repair leaves is paired, and could be paired again.
LEMMA DroppedIsPaired ==
    ASSUME NEW st \in Layout
    PROVE  WellPaired(DropDangling(st).out) /\ AllNamed(DropDangling(st).out)
             /\ OneEach(DropDangling(st).out)
<1> DEFINE out == st.out
           new == DropDangling(st).out
<1>1. /\ new \in Seq(Message) /\ Len(new) = Len(out) /\ DOMAIN new = DOMAIN out
      /\ \A j \in DOMAIN new :
             /\ new[j].role = out[j].role /\ new[j].answers = out[j].answers
             /\ IdsOf(new[j].calls) = IdsOf(out[j].calls) \ Uncovered(st, j)
      /\ \A t \in DOMAIN st.turns : IdsOf(new[st.turns[t].position].calls) = st.turns[t].covered
  BY DroppedOf
<1>2. /\ out \in Seq(Message)
      /\ \A j \in DOMAIN out : out[j] \in Message /\ Stands(out, st.turns, j)
      /\ \A t \in DOMAIN st.turns : st.turns[t] \in Turn /\ Fits(out, st.turns[t])
  BY LayoutParts
<1> HIDE DEF new
<1>3. \A i \in DOMAIN new : Asker(new, i) = Asker(out, i)  BY <1>1, <1>2, AskerByRole
<1>4. ASSUME NEW i \in DOMAIN new, IdsOf(new[i].calls) # {}
      PROVE  \E t \in DOMAIN st.turns : st.turns[t].position = i /\ IdsOf(new[i].calls) = st.turns[t].covered
  <2>1. IdsOf(out[i].calls) # {}  BY <1>1, <1>4
  <2>2. out[i].calls # <<>>  BY <2>1 DEF IdsOf
  <2>3. PICK t \in DOMAIN st.turns : st.turns[t].position = i  BY <1>1, <1>2, <2>2 DEF Stands
  <2>4. QED  BY <1>1, <2>3
<1>5. ASSUME NEW i \in DOMAIN new, new[i].role = "tool"
      PROVE  Asker(new, i) # 0 /\ new[i].answers \in IdsOf(new[Asker(new, i)].calls)
  <2>1. out[i].role = "tool" /\ i \in DOMAIN out  BY <1>1, <1>5
  <2>2. PICK t \in DOMAIN st.turns : /\ Asker(out, i) = st.turns[t].position
                                     /\ out[i].answers \in st.turns[t].covered
    BY <2>1, TurnOf
  <2>3. st.turns[t].position # 0  BY <1>2 DEF Turn
  <2>4. QED  BY <1>1, <1>3, <2>2, <2>3
<1>6. ASSUME NEW i \in DOMAIN new, NEW id \in IdsOf(new[i].calls)
      PROVE  \E j \in DOMAIN new : Asker(new, j) = i /\ new[j].role = "tool" /\ new[j].answers = id
  <2>1. PICK t \in DOMAIN st.turns : st.turns[t].position = i /\ id \in st.turns[t].covered
    BY <1>4, <1>6
  <2>2. PICK j \in Behind(st.turns[t]) : out[j].answers = id  BY <1>2, <2>1 DEF Fits
  <2>3. out[j].role = "tool"  BY <1>2 DEF Fits
  <2>4. j \in DOMAIN out /\ Asker(out, j) = i  BY <2>1, AskerOf
  <2>5. QED  BY <1>1, <1>3, <2>2, <2>3, <2>4
<1>7. AllNamed(new)
  <2> SUFFICES ASSUME NEW i \in DOMAIN new, NoId \in IdsOf(new[i].calls)  PROVE FALSE
    BY DEF AllNamed
  <2>1. PICK t \in DOMAIN st.turns : NoId \in st.turns[t].covered  BY <1>4
  <2>2. st.turns[t].covered \subseteq NamedId  BY <1>2 DEF Turn
  <2>3. QED  BY <2>1, <2>2 DEF NamedId
<1>8. OneEach(new)
  <2> SUFFICES ASSUME NEW i \in DOMAIN new, NEW j \in DOMAIN new, new[i].role = "tool",
                      new[j].role = "tool", i # j, Asker(new, i) = Asker(new, j)
               PROVE  new[i].answers # new[j].answers
    BY DEF OneEach
  <2>1. out[i].role = "tool" /\ out[j].role = "tool" /\ i \in DOMAIN out /\ j \in DOMAIN out  BY <1>1
  <2>2. PICK t \in DOMAIN st.turns : i \in Behind(st.turns[t]) /\ Asker(out, i) = st.turns[t].position
    BY <2>1, TurnOf
  <2>3. PICK u \in DOMAIN st.turns : j \in Behind(st.turns[u]) /\ Asker(out, j) = st.turns[u].position
    BY <2>1, TurnOf
  <2>4. t = u  BY <1>3, <2>2, <2>3, OneTurnAt
  <2>5. out[i].answers # out[j].answers  BY <1>2, <2>2, <2>3, <2>4 DEF Fits
  <2>6. QED  BY <1>1, <2>5
<1>9. WellPaired(new)  BY <1>5, <1>6 DEF WellPaired
<1>10. QED  BY <1>7, <1>8, <1>9 DEF new

\* Who asked, as a place: the last message before that is no result.
LEMMA AskerIs ==
    ASSUME NEW msgs \in Seq(Message), NEW i \in 1 .. Len(msgs) + 1
    PROVE  /\ Asker(msgs, i) # 0 => /\ Asker(msgs, i) \in 1 .. i - 1
                                    /\ msgs[Asker(msgs, i)].role # "tool"
           /\ \A j \in 1 .. i - 1 : msgs[j].role # "tool" => j <= Asker(msgs, i)
<1> DEFINE before == {j \in 1 .. i - 1 : msgs[j].role # "tool"}
<1>1. Len(msgs) \in Nat /\ i \in Nat  OBVIOUS
<1>2. before \subseteq 1 .. Len(msgs)  BY <1>1
<1>3. Asker(msgs, i) = Latest(before)  BY DEF Asker
<1>4. /\ Latest(before) # 0 => Latest(before) \in before
      /\ \A j \in before : j <= Latest(before)
  <2> HIDE DEF before
  <2>1. QED  BY <1>1, <1>2, LatestOf
<1>5. QED  BY <1>3, <1>4

\* Reading one more message of a list that already pairs puts it where it stood.
LEMMA KeptStep ==
    ASSUME NEW msgs \in Seq(Message), WellPaired(msgs), AllNamed(msgs), OneEach(msgs),
           NEW n \in 0 .. Len(msgs) - 1, NEW st \in Layout,
           Len(st.out) = n, \A j \in 1 .. n : st.out[j] = msgs[j], st.orphans = {}
    PROVE  /\ Len(RepairStep(msgs, st, n + 1).out) = n + 1
           /\ \A j \in 1 .. n + 1 : RepairStep(msgs, st, n + 1).out[j] = msgs[j]
           /\ RepairStep(msgs, st, n + 1).orphans = {}
<1> DEFINE a == RepairStep(msgs, st, n + 1)
           i == n + 1
           m == msgs[i]
           out == st.out
           turns == st.turns
<1>1. /\ n \in Nat /\ Len(msgs) \in Nat /\ i \in 1 .. Len(msgs) /\ i <= Len(msgs) /\ i \in Nat
      /\ DOMAIN msgs = 1 .. Len(msgs) /\ m \in Message /\ i - 1 = n
  BY ElementOfSeq
<1>2. /\ out \in Seq(Message) /\ turns \in Seq(Turn)
      /\ Apart(turns)
      /\ \A u \in DOMAIN turns : turns[u] \in Turn /\ Fits(out, turns[u])
      /\ \A j \in DOMAIN out : out[j] \in Message /\ Stands(out, turns, j)
      /\ DOMAIN turns = 1 .. Len(turns) /\ DOMAIN out = 1 .. n
      /\ Len(turns) \in Nat
  BY LayoutParts
<1>3. \A j \in 1 .. n : j \in 1 .. Len(msgs) /\ out[j] = msgs[j]  BY <1>1
<1>4. CASE m.role # "tool"
  <2>1. a = TakeMessage(st, m, i)  BY <1>1, <1>4 DEF RepairStep
  <2>2. NoId \notin IdsOf(m.calls)  BY <1>1 DEF AllNamed
  <2>3. m.calls \in Seq(CallId)  BY <1>1 DEF Message
  <2>4. Normalized(m.calls, i) = m.calls  BY <1>1, <2>2, <2>3, NormalizedOf
  <2>5. [m EXCEPT !.calls = m.calls] = m  BY <1>1 DEF Message
  <2>6. /\ TakeMessage(st, m, i).orphans = st.orphans
        /\ TakeMessage(st, m, i).out = Append(out, [m EXCEPT !.calls = Normalized(m.calls, i)])
    <3>1. m \in Message /\ m.role # "tool" /\ i \in Nat  BY <1>1, <1>4
    <3> HIDE DEF m, i
    <3>2. QED  BY <3>1, TakeMessageKeeps
  <2> HIDE DEF a, m, i, out
  <2>7. a.orphans = {} /\ a.out = Append(out, m)  BY <2>1, <2>4, <2>5, <2>6
  <2>8. Len(a.out) = n + 1 /\ a.out[n + 1] = m /\ \A j \in 1 .. n : a.out[j] = out[j]
    BY <1>1, <1>2, <2>7, AppendProperties DEF out
  <2>9. \A j \in 1 .. n + 1 : j \in 1 .. n \/ j = n + 1  BY <1>1
  <2>10. QED  BY <1>3, <2>7, <2>8, <2>9 DEF a, m, i
<1>5. CASE m.role = "tool"
  <2> DEFINE p == Asker(msgs, i)
  <2>1. p # 0 /\ m.answers \in IdsOf(msgs[p].calls)  BY <1>1, <1>5 DEF WellPaired
  <2>2. p \in 1 .. n /\ msgs[p].role # "tool" /\ \A j \in 1 .. n : msgs[j].role # "tool" => j <= p
    BY <1>1, <2>1, AskerIs
  <2>3. msgs[p].calls # <<>>  BY <2>1 DEF IdsOf
  <2> HIDE DEF p
  <2>4. PICK t \in DOMAIN turns : turns[t].position = p
    <3>1. out[p].calls # <<>>  BY <1>3, <2>2, <2>3
    <3>2. QED  BY <1>2, <2>2, <3>1 DEF Stands
  <2> DEFINE tour == turns[t]
  <2>5. tour \in Turn /\ Fits(out, tour) /\ tour.attached \in Nat /\ p + tour.attached <= n
          /\ tour.ids = msgs[p].calls
    BY <1>2, <1>3, <2>2, <2>4 DEF Fits, Turn
  <2>6. \A u \in DOMAIN turns : u <= t
    <3> SUFFICES ASSUME NEW u \in DOMAIN turns, u > t  PROVE FALSE
      BY <1>2
    <3>1. turns[u] \in Turn /\ Fits(out, turns[u])  BY <1>2
    <3>2. turns[u].position \in Nat /\ turns[u].position >= 1 /\ turns[u].attached \in Nat
            /\ turns[u].position + turns[u].attached <= n /\ out[turns[u].position].role = "assistant"
      BY <3>1 DEF Turn, Fits
    <3>3. p + tour.attached < turns[u].position  BY <1>2, <2>4 DEF Apart
    <3>4. turns[u].position \in 1 .. n  BY <1>1, <3>2
    <3>5. turns[u].position <= p  BY <1>3, <2>2, <3>2, <3>4
    <3>6. QED  BY <1>1, <2>2, <2>5, <3>2, <3>3, <3>5
  <2>7. m.answers # NoId
    <3>1. p \in DOMAIN msgs  BY <1>1, <1>3, <2>2
    <3>2. QED  BY <2>1, <3>1 DEF AllNamed
  <2>8. t \in Askers(st, m.answers)  BY <2>1, <2>5, <2>7 DEF Askers
  <2> DEFINE asker == Latest(Askers(st, m.answers))
  <2>9. asker = t
    <3>1. Askers(st, m.answers) \subseteq 1 .. Len(turns)  BY AskersAreTurns
    <3>2. asker \in Askers(st, m.answers) /\ t <= asker  BY <1>2, <2>8, <3>1, LatestOf
    <3>3. asker <= t /\ asker \in Nat  BY <1>2, <2>6, <3>1, <3>2
    <3>4. QED  BY <1>2, <3>2, <3>3
  <2>10. m.answers \notin tour.covered
    <3> SUFFICES ASSUME m.answers \in tour.covered  PROVE FALSE
      OBVIOUS
    <3>1. PICK j \in Behind(tour) : out[j].answers = m.answers  BY <2>5 DEF Fits
    <3>2. out[j].role = "tool"  BY <2>5 DEF Fits
    <3>3. j \in 1 .. n /\ Asker(out, j) = p  BY <1>2, <2>4, AskerOf
    <3>4. Asker(msgs, j) = Asker(out, j)
      <4>1. \A k \in 1 .. j - 1 : out[k] = msgs[k]  BY <1>1, <1>3, <3>3
      <4>2. {k \in 1 .. j - 1 : msgs[k].role # "tool"} = {k \in 1 .. j - 1 : out[k].role # "tool"}
        BY <4>1
      <4>3. QED  BY <4>2 DEF Asker
    <3>5. j \in DOMAIN msgs /\ i \in DOMAIN msgs /\ i # j /\ msgs[j] = out[j]  BY <1>1, <1>3, <3>3
    <3>6. msgs[i].answers # msgs[j].answers  BY <1>5, <3>2, <3>3, <3>4, <3>5 DEF OneEach, p
    <3>7. QED  BY <3>1, <3>5, <3>6
  <2>11. p + tour.attached = n
    <3>1. CASE n = p  BY <1>1, <2>5, <3>1
    <3>2. CASE n # p
      <4>1. n \in 1 .. n /\ n > p  BY <1>1, <2>2, <3>2
      <4>2. out[n].role = "tool"
        <5>1. ~(n <= p)  BY <1>1, <2>2, <4>1
        <5>2. QED  BY <1>3, <2>2, <4>1, <5>1
      <4>3. PICK u \in DOMAIN turns : n \in Behind(turns[u])  BY <1>2, <4>1, <4>2 DEF Stands
      <4>4. turns[u] \in Turn  BY <1>2
      <4>5. turns[u].position \in Nat /\ turns[u].attached \in Nat
              /\ n <= turns[u].position + turns[u].attached
        BY <1>1, <4>3, <4>4 DEF Turn, Behind
      <4>6. u = t
        <5>1. CASE u < t
          <6>1. turns[u].position + turns[u].attached < p  BY <1>2, <2>4, <5>1 DEF Apart
          <6>2. QED  BY <1>1, <2>2, <4>1, <4>5, <6>1
        <5>2. CASE ~(u < t)
          <6>1. u \in Nat /\ t \in Nat /\ u <= t  BY <1>2, <2>6
          <6>2. QED  BY <5>2, <6>1
        <5>3. QED  BY <5>1, <5>2
      <4>7. n <= p + tour.attached  BY <2>4, <4>5, <4>6
      <4>8. p \in Nat  BY <2>2
      <4>9. QED  BY <1>1, <2>5, <4>7, <4>8
    <3>3. QED  BY <3>1, <3>2
  <2>12. PlaceBehind(tour) = n + 1
    <3>1. PlaceBehind(tour) = p + 1 + tour.attached  BY <2>4 DEF PlaceBehind
    <3> DEFINE x == tour.attached
    <3>2. p \in Nat /\ x \in Nat /\ n \in Nat /\ p + x = n  BY <1>1, <2>2, <2>5, <2>11
    <3>3. PlaceBehind(tour) = p + 1 + x  BY <3>1
    <3> HIDE DEF x, tour
    <3>4. p + 1 + x = n + 1  BY ONLY <3>2
    <3>5. QED  BY ONLY <3>3, <3>4
  <2>13. TakeResult(st, m, i) = Attach(st, t, m, m.answers)
    <3>1. asker # 0  BY <1>2, <2>9
    <3>2. asker # 0 /\ m.answers \notin st.turns[asker].covered  BY <2>9, <2>10, <3>1
    <3>3. TakeResult(st, m, i) = Attach(st, asker, m, m.answers)  BY <1>1, <3>2, TakeResultKeeps
    <3>4. QED  BY <2>9, <3>3
  <2>14. a = TakeResult(st, m, i)  BY <1>1, <1>5 DEF RepairStep
  <2>15. [m EXCEPT !.answers = m.answers] = m  BY <1>1 DEF Message
  <2>16. /\ m.answers \in IdsOf(tour.ids) /\ m.answers \in NamedId
    <3>1. m.answers \in CallId  BY <1>1 DEF Message
    <3>2. QED  BY <2>1, <2>5, <2>7, <3>1 DEF NamedId
  <2>17. /\ Attach(st, t, m, m.answers).orphans = st.orphans
         /\ Attach(st, t, m, m.answers).out =
                InsertAt(out, PlaceBehind(tour), [m EXCEPT !.answers = m.answers])
    <3>1. m \in Message /\ m.role = "tool" /\ m.answers \notin tour.covered  BY <1>1, <1>5, <2>10
    <3> DEFINE id == m.answers
    <3>2. id \in IdsOf(tour.ids) /\ id \in NamedId /\ id \notin tour.covered  BY <2>16, <3>1
    <3> HIDE DEF m, id
    <3>3. /\ Attach(st, t, m, id).orphans = st.orphans
          /\ Attach(st, t, m, id).out = InsertAt(out, PlaceBehind(tour), [m EXCEPT !.answers = id])
      BY <3>1, <3>2, AttachKeeps
    <3>4. QED  BY <3>3 DEF id
  <2> HIDE DEF a, m, i, out
  <2>18. a.orphans = {} /\ a.out = InsertAt(out, n + 1, m)
    BY <2>12, <2>13, <2>14, <2>15, <2>17
  <2>19. Len(out) = n /\ n + 1 \in 1 .. Len(out) + 1  BY <1>1 DEF out
  <2>20. Len(a.out) = n + 1 /\ a.out[n + 1] = m /\ \A j \in 1 .. (n + 1) - 1 : a.out[j] = out[j]
    <3>1. m \in Message /\ out \in Seq(Message)  BY <1>1, <1>2
    <3> DEFINE q == n + 1
    <3>2. q \in 1 .. Len(out) + 1 /\ a.out = InsertAt(out, q, m)  BY <2>18, <2>19
    <3> HIDE DEF q
    <3>3. /\ Len(a.out) = Len(out) + 1 /\ a.out[q] = m
          /\ \A j \in 1 .. q - 1 : a.out[j] = out[j]
      BY <3>1, <3>2, Inserted
    <3>4. QED  BY <2>19, <3>3 DEF q
  <2>21. \A j \in 1 .. n + 1 : j \in 1 .. (n + 1) - 1 \/ j = n + 1  BY <1>1
  <2>22. (n + 1) - 1 = n  BY <1>1
  <2>23. QED  BY <1>3, <2>18, <2>20, <2>21, <2>22 DEF a, m, i
<1>6. QED  BY <1>4, <1>5

\* When nothing waits, the second pass has nothing to do.
LEMMA NoneWaiting ==
    ASSUME NEW msgs \in Seq(Message), NEW f, Repairs(f, msgs), f[Len(msgs)].orphans = {}
    PROVE  Repaired(msgs) = DropDangling(f[Len(msgs)])
<1> DEFINE L == Len(msgs)
           R == {n \in L .. 2 * L : f[n] = f[L]}
<1>1. L \in Nat  OBVIOUS
<1>2. /\ f \in [0 .. 2 * L -> Repairing(msgs)]
      /\ \A n \in 1 .. 2 * L : f[n] = RepairStep(msgs, f[n - 1], n)
      /\ Repaired(msgs) = DropDangling(f[2 * L])
  BY DEF Repairs
<1>3. f[L].orphans = {}  OBVIOUS
<1>4. \A n \in L .. 2 * L : f[n] = f[L]
  <2>1. L \in R  BY <1>1
  <2>2. ASSUME NEW n \in L .. 2 * L, n \in R, n < 2 * L  PROVE n + 1 \in R
    <3>1. n + 1 \in L .. 2 * L /\ n + 1 \in 1 .. 2 * L /\ (n + 1) - 1 = n /\ n \in 0 .. 2 * L
      BY <1>1, <2>2
    <3> DEFINE i == n + 1 - L
    <3>2. i \in 1 .. L /\ L + i = n + 1  BY <1>1, <2>2
    <3> HIDE DEF i
    <3>3. f[n] \in Repairing(msgs) /\ i \notin f[n].orphans  BY <1>2, <1>3, <2>2, <3>1
    <3>4. RepairStep(msgs, f[n], L + i) = f[n]  BY <3>2, <3>3, JoinStep
    <3>5. f[n + 1] = f[n]  BY <1>2, <3>1, <3>2, <3>4
    <3>6. QED  BY <2>2, <3>1, <3>5
  <2> HIDE DEF R
  <2>3. 2 * L \in Nat /\ L \in 0 .. 2 * L  BY <1>1
  <2>4. \A n \in L .. 2 * L : n \in R  BY <2>1, <2>2, <2>3, UpTo
  <2>5. QED  BY <2>4 DEF R
<1>5. 2 * L \in L .. 2 * L  BY <1>1
<1>6. QED  BY <1>2, <1>4, <1>5

\* A list that pairs is not touched by the repair.
LEMMA KeptAsItIs ==
    ASSUME NEW msgs \in Seq(Message), WellPaired(msgs), AllNamed(msgs), OneEach(msgs)
    PROVE  Repaired(msgs).out = msgs /\ Repaired(msgs).orphans = {}
<1> DEFINE L == Len(msgs)
<1>1. L \in Nat /\ DOMAIN msgs = 1 .. L  OBVIOUS
<1>2. PICK f : Repairs(f, msgs)  BY RepairRun
<1>3. /\ f \in [0 .. 2 * L -> Repairing(msgs)] /\ f[0] = NothingRead
      /\ \A n \in 1 .. 2 * L : f[n] = RepairStep(msgs, f[n - 1], n)
      /\ Repaired(msgs) = DropDangling(f[2 * L])
  BY <1>2 DEF Repairs
<1>4. Repairing(msgs) \subseteq Layout  BY DEF Repairing
<1> DEFINE Kept(n) == Len(f[n].out) = n /\ (\A j \in 1 .. n : f[n].out[j] = msgs[j]) /\ f[n].orphans = {}
           S == {n \in 0 .. L : Kept(n)}
<1>5. 0 \in S
  <2>1. f[0].out = <<>> /\ f[0].orphans = {}  BY <1>3 DEF NothingRead
  <2>2. QED  BY <1>1, <2>1
<1>6. ASSUME NEW n \in 0 .. L, n \in S, n < L  PROVE n + 1 \in S
  <2>1. n \in 0 .. L - 1 /\ n \in 0 .. 2 * L /\ n + 1 \in 1 .. 2 * L /\ n + 1 \in 0 .. L
          /\ (n + 1) - 1 = n
    BY <1>1, <1>6
  <2>2. f[n] \in Layout /\ f[n + 1] = RepairStep(msgs, f[n], n + 1)  BY <1>3, <1>4, <2>1
  <2>3. Kept(n)  BY <1>6
  <2> DEFINE st == f[n]
             a == RepairStep(msgs, st, n + 1)
  <2>4. st \in Layout /\ Len(st.out) = n /\ (\A j \in 1 .. n : st.out[j] = msgs[j]) /\ st.orphans = {}
    BY <2>2, <2>3
  <2> HIDE DEF st
  <2>5. Len(a.out) = n + 1 /\ (\A j \in 1 .. n + 1 : a.out[j] = msgs[j]) /\ a.orphans = {}
    BY <2>1, <2>4, KeptStep
  <2>6. f[n + 1] = a  BY <2>2 DEF st
  <2> HIDE DEF a
  <2>7. Kept(n + 1)  BY <2>5, <2>6
  <2>8. QED  BY <2>1, <2>7
<1> HIDE DEF S
<1>7. L \in S
  <2>1. 0 \in 0 .. L /\ L \in 0 .. L  BY <1>1
  <2>2. QED  BY <1>1, <1>5, <1>6, <2>1, UpTo
<1>8. Kept(L)  BY <1>7 DEF S
<1> DEFINE st == f[L]
<1>10. Repaired(msgs) = DropDangling(st)  BY <1>2, <1>8, NoneWaiting
<1>11. st \in Layout /\ Len(st.out) = L /\ (\A j \in 1 .. L : st.out[j] = msgs[j]) /\ st.orphans = {}
  <2>1. L \in 0 .. 2 * L  BY <1>1
  <2>2. QED  BY <1>3, <1>4, <1>8, <2>1
<1> HIDE DEF st
<1>12. st.out = msgs /\ DOMAIN st.out = 1 .. L
  <2>1. st.out \in Seq(Message) /\ DOMAIN st.out = 1 .. Len(st.out)  BY <1>11, LayoutParts
  <2>2. QED  BY <1>11, <2>1, SeqEqual
<1>13. ASSUME NEW i \in 1 .. L  PROVE Uncovered(st, i) = {}
  <2> SUFFICES ASSUME NEW id \in IdsOf(st.out[i].calls), NEW t \in DOMAIN st.turns,
                      st.turns[t].position = i
               PROVE  id \in st.turns[t].covered
    BY DEF Uncovered
  <2>1. PICK j \in DOMAIN msgs : Asker(msgs, j) = i /\ msgs[j].role = "tool" /\ msgs[j].answers = id
    <3>1. i \in DOMAIN msgs /\ id \in IdsOf(msgs[i].calls)  BY <1>1, <1>12
    <3>2. QED  BY <3>1 DEF WellPaired
  <2>2. PICK u \in DOMAIN st.turns : Asker(st.out, j) = st.turns[u].position
                                       /\ st.out[j].answers \in st.turns[u].covered
    BY <1>11, <1>12, <2>1, TurnOf
  <2>3. u = t  BY <1>11, <1>12, <2>1, <2>2, OneTurnAt
  <2>4. QED  BY <1>12, <2>1, <2>2, <2>3
<1> DEFINE new == DropDangling(st).out
<1>14. /\ new \in Seq(Message) /\ Len(new) = L /\ DropDangling(st).orphans = {}
       /\ DOMAIN new = 1 .. L
       /\ \A j \in DOMAIN new : Uncovered(st, j) = {} => new[j] = st.out[j]
  BY <1>11, <1>12, DroppedOf
<1> HIDE DEF new
<1>15. \A j \in 1 .. L : new[j] = msgs[j]  BY <1>12, <1>13, <1>14
<1>16. new = msgs  BY <1>14, <1>15, SeqEqual
<1>17. QED  BY <1>10, <1>14, <1>16 DEF new

\* Each message a repair has read is in the list, or it waits, and there is no other.
LEMMA NoneLost ==
    ASSUME NEW msgs \in Seq(Message), Repaired(msgs).orphans = {}
    PROVE  /\ Len(Repaired(msgs).out) = Len(msgs)
           /\ \A i \in DOMAIN msgs : \E j \in DOMAIN Repaired(msgs).out :
                  Repaired(msgs).out[j].key = msgs[i].key
<1> DEFINE L == Len(msgs)
<1>1. L \in Nat /\ DOMAIN msgs = 1 .. L  OBVIOUS
<1>2. PICK f : Repairs(f, msgs)  BY RepairRun
<1>3. /\ f \in [0 .. 2 * L -> Repairing(msgs)] /\ f[0] = NothingRead
      /\ \A n \in 1 .. 2 * L : f[n] = RepairStep(msgs, f[n - 1], n)
      /\ Repaired(msgs) = DropDangling(f[2 * L])
  BY <1>2 DEF Repairs
<1>4. Repairing(msgs) \subseteq Layout  BY DEF Repairing
<1>5. \A n \in 0 .. 2 * L : f[n] \in Layout /\ Len(f[n].out) \in Nat
  BY <1>3, <1>4, LayoutParts
<1> DEFINE Read(n) == IF n <= L THEN n ELSE L
           There(st, i) == \E k \in DOMAIN st.out : st.out[k].key = msgs[i].key
           Counted(n) == /\ f[n].orphans \subseteq 1 .. Read(n)
                         /\ Len(f[n].out) + Cardinality(f[n].orphans) = Read(n)
                         /\ \A i \in 1 .. Read(n) : i \in f[n].orphans \/ There(f[n], i)
           S == {n \in 0 .. 2 * L : Counted(n)}
<1>6. \A n \in Nat : /\ n < L => n + 1 \in 1 .. L /\ Read(n) = n /\ Read(n + 1) = n + 1
                     /\ ~(n < L) => Read(n) = L /\ Read(n + 1) = L
                     /\ Read(n) \in Nat /\ Read(n) \in 0 .. L
  <2>1. L \in Nat  BY <1>1
  <2> HIDE DEF L
  <2>2. QED  BY <2>1
<1>7. 2 * L \in Nat /\ ~(2 * L < L)
  <2>1. L \in Nat  BY <1>1
  <2> HIDE DEF L
  <2>2. QED  BY <2>1
<1>8. 0 \in S
  <2>1. f[0].out = <<>> /\ f[0].orphans = {} /\ Read(0) = 0  BY <1>1, <1>3 DEF NothingRead
  <2>2. 0 \in 0 .. 2 * L /\ 1 .. 0 = {}  BY <1>1
  <2>3. Len(<<>>) + Cardinality({}) = 0  BY FS_EmptySet
  <2>4. f[0].orphans \subseteq 1 .. Read(0)  BY <2>1
  <2>5. Len(f[0].out) + Cardinality(f[0].orphans) = Read(0)  BY <2>1, <2>3
  <2>6. \A i \in 1 .. Read(0) : FALSE  BY <2>1, <2>2
  <2> HIDE DEF Read, There
  <2>7. QED  BY <2>2, <2>4, <2>5, <2>6
<1>9. ASSUME NEW n \in 0 .. 2 * L, n \in S, n < 2 * L  PROVE n + 1 \in S
  <2> DEFINE st == f[n]
             a == f[n + 1]
  <2>1. n + 1 \in 1 .. 2 * L /\ n + 1 \in 0 .. 2 * L /\ (n + 1) - 1 = n /\ n \in Nat
    BY <1>1, <1>9
  <2>2. st \in Repairing(msgs) /\ a = RepairStep(msgs, st, n + 1)  BY <1>3, <2>1
  <2>3. /\ st.orphans \subseteq 1 .. Read(n)
        /\ Len(st.out) + Cardinality(st.orphans) = Read(n)
        /\ \A i \in 1 .. Read(n) : i \in st.orphans \/ There(st, i)
    BY <1>9
  <2>4. Len(st.out) \in Nat /\ Len(a.out) \in Nat  BY <1>5, <2>1
  <2>5. Read(n) \in Nat /\ Read(n) \in 0 .. L  BY <1>6, <2>1
  <2>6. IsFiniteSet(st.orphans) /\ Cardinality(st.orphans) \in Nat
    <3>1. IsFiniteSet(1 .. Read(n))
      <4> HIDE DEF Read
      <4>1. 1 \in Int /\ Read(n) \in Int  BY <2>5
      <4>2. QED  BY <4>1, FS_Interval
    <3>2. IsFiniteSet(st.orphans)  BY <2>3, <3>1, FS_Subset
    <3>3. QED  BY <3>2, FS_CardinalityType
  <2>7. \A i : There(st, i) /\ Within(st.out, a.out) => There(a, i)  BY DEF Within
  <2> HIDE DEF There
  <2>8. CASE n < L
    <3>1. n + 1 \in 1 .. L /\ Read(n) = n /\ Read(n + 1) = n + 1  BY <1>6, <2>1, <2>8
    <3>2. Steps(msgs, st, a, n + 1, FALSE)  BY <2>2, <3>1, ReadStep
    <3> HIDE DEF st, a, Read
    <3>3. n + 1 \notin st.orphans  BY <2>1, <2>3, <3>1
    <3>4. \A i \in 1 .. n + 1 : i \in 1 .. n \/ i = n + 1  BY <2>1
    <3>5. 1 .. n \subseteq 1 .. n + 1 /\ n + 1 \in 1 .. n + 1  BY <2>1
    <3>6. ASSUME a.out = st.out, a.orphans = st.orphans \cup {n + 1}
          PROVE  /\ a.orphans \subseteq 1 .. n + 1
                 /\ Len(a.out) + Cardinality(a.orphans) = n + 1
                 /\ \A i \in 1 .. n + 1 : i \in a.orphans \/ There(a, i)
      <4>1. Cardinality(a.orphans) = Cardinality(st.orphans) + 1
        BY <2>6, <3>3, <3>6, FS_AddElement
      <4>2. Len(a.out) + Cardinality(a.orphans) = n + 1
        BY <2>1, <2>3, <2>4, <2>6, <3>1, <3>6, <4>1
      <4>3. \A i : There(st, i) => There(a, i)  BY <3>6 DEF There
      <4>4. \A i \in 1 .. n + 1 : i \in a.orphans \/ There(a, i)
        BY <2>3, <3>1, <3>4, <3>6, <4>3
      <4>5. a.orphans \subseteq 1 .. n + 1  BY <2>3, <3>1, <3>5, <3>6
      <4>6. QED  BY <4>2, <4>4, <4>5
    <3>7. ASSUME Len(a.out) = Len(st.out) + 1, Within(st.out, a.out), There(a, n + 1),
                 a.orphans = st.orphans
          PROVE  /\ a.orphans \subseteq 1 .. n + 1
                 /\ Len(a.out) + Cardinality(a.orphans) = n + 1
                 /\ \A i \in 1 .. n + 1 : i \in a.orphans \/ There(a, i)
      <4>1. Len(a.out) + Cardinality(a.orphans) = n + 1
        BY <2>1, <2>3, <2>4, <2>6, <3>1, <3>7
      <4>2. \A i \in 1 .. n + 1 : i \in a.orphans \/ There(a, i)
        BY <2>3, <2>7, <3>1, <3>4, <3>7
      <4>3. a.orphans \subseteq 1 .. n + 1  BY <2>3, <3>1, <3>5, <3>7
      <4>4. QED  BY <4>1, <4>2, <4>3
    <3>8. /\ a.orphans \subseteq 1 .. n + 1
          /\ Len(a.out) + Cardinality(a.orphans) = n + 1
          /\ \A i \in 1 .. n + 1 : i \in a.orphans \/ There(a, i)
      BY <3>2, <3>6, <3>7 DEF Steps, There
    <3>9. QED  BY <2>1, <3>1, <3>8 DEF a, There
  <2>9. CASE ~(n < L)
    <3> DEFINE i == n + 1 - L
    <3>1. i \in 1 .. L /\ L + i = n + 1 /\ Read(n) = L /\ Read(n + 1) = L
      <4>1. Read(n) = L /\ Read(n + 1) = L  BY <1>6, <2>1, <2>9
      <4>2. L \in Nat /\ n + 1 \in 1 .. 2 * L  BY <1>1, <2>1
      <4> HIDE DEF L, Read
      <4>3. QED  BY <2>1, <2>9, <4>1, <4>2
    <3> HIDE DEF i
    <3>2. Steps(msgs, st, a, i, TRUE)
      <4>1. Steps(msgs, st, RepairStep(msgs, st, L + i), i, TRUE)  BY <2>2, <3>1, JoinStep
      <4>2. QED  BY <2>2, <3>1, <4>1
    <3> HIDE DEF st, a, Read
    <3>3. ASSUME Len(a.out) = Len(st.out) + 1, Within(st.out, a.out), There(a, i),
                 a.orphans = st.orphans \ {i}, i \in st.orphans
          PROVE  /\ a.orphans \subseteq 1 .. L
                 /\ Len(a.out) + Cardinality(a.orphans) = L
                 /\ \A x \in 1 .. L : x \in a.orphans \/ There(a, x)
      <4>1. Cardinality(a.orphans) = Cardinality(st.orphans) - 1
        BY <2>6, <3>3, FS_RemoveElement
      <4>2. Len(a.out) + Cardinality(a.orphans) = L
        BY <1>1, <2>3, <2>4, <2>6, <3>1, <3>3, <4>1
      <4>3. \A x \in 1 .. L : x \in a.orphans \/ There(a, x)
        BY <2>3, <2>7, <3>1, <3>3
      <4>4. QED  BY <2>3, <3>1, <3>3, <4>2, <4>3
    <3>4. /\ a.orphans \subseteq 1 .. L
          /\ Len(a.out) + Cardinality(a.orphans) = L
          /\ \A x \in 1 .. L : x \in a.orphans \/ There(a, x)
      BY <2>3, <3>1, <3>2, <3>3 DEF Steps, There
    <3>5. QED  BY <2>1, <3>1, <3>4 DEF a, There
  <2>10. QED  BY <2>8, <2>9
<1> HIDE DEF S
<1>10. 2 * L \in S
  <2>1. 2 * L \in Nat /\ 0 \in 0 .. 2 * L /\ 2 * L \in 0 .. 2 * L  BY <1>1
  <2>2. QED  BY <1>8, <1>9, <2>1, UpTo
<1> DEFINE st == f[2 * L]
           new == DropDangling(st).out
<1>11. st \in Layout /\ Repaired(msgs) = DropDangling(st)
  <2>1. 2 * L \in 0 .. 2 * L  BY <1>1
  <2>2. QED  BY <1>3, <1>5, <2>1
<1>12. Read(2 * L) = L  BY <1>6, <1>7
<1>13. /\ Len(st.out) + Cardinality(st.orphans) = L
       /\ \A i \in 1 .. L : i \in st.orphans \/ There(st, i)
  BY <1>10, <1>12 DEF S
<1> HIDE DEF st
<1>14. /\ Len(new) = Len(st.out) /\ DOMAIN new = DOMAIN st.out
       /\ DropDangling(st).orphans = st.orphans
       /\ \A j \in DOMAIN new : new[j].key = st.out[j].key
  BY <1>11, DroppedOf
<1>15. st.orphans = {}  BY <1>11, <1>14
<1>16. Len(st.out) \in Nat  BY <1>11, LayoutParts
<1>17. Len(new) = L  BY <1>1, <1>13, <1>14, <1>15, <1>16, FS_EmptySet
<1>18. \A i \in 1 .. L : \E j \in DOMAIN new : new[j].key = msgs[i].key
  BY <1>13, <1>14, <1>15
<1>19. QED  BY <1>1, <1>11, <1>17, <1>18

\* The results that were read answer what they name, and a turn covers nothing else.
Faithful(msgs, st, n) ==
    /\ st.orphans = {}
    /\ \A i \in 1 .. n : msgs[i].role = "tool" =>
           \E k \in DOMAIN st.out :
               st.out[k].key = msgs[i].key /\ st.out[k].answers = msgs[i].answers
    /\ \A j \in 1 .. n : \A id \in IdsOf(msgs[j].calls) :
           \E t \in DOMAIN st.turns : id \in IdsOf(st.turns[t].ids)
    /\ \A t \in DOMAIN st.turns : \A id \in st.turns[t].covered :
           \E i \in 1 .. n : msgs[i].role = "tool" /\ msgs[i].answers = id

\* Reading one more message keeps every result with the call it names.
LEMMA FaithfulStep ==
    ASSUME NEW msgs \in Seq(Message), AskedOnce(msgs), AnsweredOnce(msgs), InOrder(msgs),
           NEW n \in 0 .. Len(msgs) - 1, NEW st \in Layout, Faithful(msgs, st, n)
    PROVE  Faithful(msgs, RepairStep(msgs, st, n + 1), n + 1)
<1> DEFINE a == RepairStep(msgs, st, n + 1)
           i == n + 1
           m == msgs[i]
<1>1. /\ n \in Nat /\ Len(msgs) \in Nat /\ i \in 1 .. Len(msgs) /\ i <= Len(msgs) /\ i \in Nat
      /\ DOMAIN msgs = 1 .. Len(msgs) /\ m \in Message /\ i - 1 = n
  BY ElementOfSeq
<1>2. \A j \in 1 .. n + 1 : j \in 1 .. n \/ j = i  BY <1>1
<1>3. 1 .. n \subseteq 1 .. i /\ i \in 1 .. i /\ 1 .. n \subseteq DOMAIN msgs  BY <1>1
<1>4. /\ st.out \in Seq(Message) /\ DOMAIN st.out = 1 .. Len(st.out) /\ Len(st.out) \in Nat
      /\ st.turns \in Seq(Turn) /\ DOMAIN st.turns = 1 .. Len(st.turns) /\ Len(st.turns) \in Nat
      /\ \A t \in DOMAIN st.turns : st.turns[t] \in Turn
  BY LayoutParts
<1>5. \A j \in DOMAIN msgs : NoId \notin IdsOf(msgs[j].calls)  BY DEF AskedOnce
<1>6. CASE m.role # "tool"
  <2> DEFINE ids == Normalized(m.calls, i)
             e == [m EXCEPT !.calls = ids]
             tour == NewTurn(ids, Len(st.out) + 1)
  <2>1. a = TakeMessage(st, m, i)  BY <1>1, <1>6 DEF RepairStep
  <2>2. /\ TakeMessage(st, m, i).orphans = st.orphans
        /\ TakeMessage(st, m, i).out = Append(st.out, e)
        /\ TakeMessage(st, m, i).turns =
               IF m.calls = <<>> THEN st.turns ELSE Append(st.turns, tour)
    BY <1>1, <1>6, TakeMessageKeeps
  <2>3. m.calls \in Seq(CallId)  BY <1>1 DEF Message
  <2>4. ids = m.calls  BY <1>1, <1>3, <1>5, <2>3, NormalizedOf
  <2>5. tour.ids = ids /\ tour.covered = {}  BY DEF NewTurn
  <2>6. e \in Message
    <3>1. e = m  BY <1>1, <2>4 DEF Message
    <3>2. QED  BY <1>1, <3>1
  <2> HIDE DEF a, m, i, ids, e, tour
  <2>7. a.orphans = {}  BY <2>1, <2>2 DEF Faithful
  <2>8. \A k \in DOMAIN st.out : k \in DOMAIN a.out /\ a.out[k] = st.out[k]
    <3>1. Len(a.out) = Len(st.out) + 1 /\ a.out \in Seq(Message)
            /\ \A k \in 1 .. Len(st.out) : a.out[k] = st.out[k]
      BY <1>4, <2>1, <2>2, <2>6, AppendProperties
    <3>2. QED  BY <1>4, <3>1
  <2>9. /\ \A t \in DOMAIN st.turns : t \in DOMAIN a.turns /\ a.turns[t] = st.turns[t]
        /\ \A t \in DOMAIN a.turns : t \in DOMAIN st.turns \/ a.turns[t] = tour
        /\ m.calls # <<>> => \E t \in DOMAIN a.turns : a.turns[t] = tour
    <3>1. CASE m.calls = <<>>
      <4>1. a.turns = st.turns  BY <2>1, <2>2, <3>1
      <4>2. QED  BY <3>1, <4>1
    <3>2. CASE m.calls # <<>>
      <4>1. a.turns = Append(st.turns, tour)  BY <2>1, <2>2, <3>2
      <4>2. /\ Len(a.turns) = Len(st.turns) + 1 /\ DOMAIN a.turns = 1 .. Len(a.turns)
            /\ a.turns[Len(st.turns) + 1] = tour
            /\ \A t \in 1 .. Len(st.turns) : a.turns[t] = st.turns[t]
        BY <1>4, <4>1
      <4>3. \A t \in DOMAIN a.turns : t \in DOMAIN st.turns \/ t = Len(st.turns) + 1
        BY <1>4, <4>2
      <4>4. Len(st.turns) + 1 \in DOMAIN a.turns /\ \A t \in DOMAIN st.turns : t \in DOMAIN a.turns
        BY <1>4, <4>2
      <4>5. QED  BY <1>4, <4>2, <4>3, <4>4
    <3>3. QED  BY <3>1, <3>2
  <2>10. \A x \in 1 .. n + 1 : msgs[x].role = "tool" =>
             \E k \in DOMAIN a.out : a.out[k].key = msgs[x].key /\ a.out[k].answers = msgs[x].answers
    BY <1>2, <1>6, <2>8 DEF Faithful, m
  <2>11. \A j \in 1 .. n + 1 : \A id \in IdsOf(msgs[j].calls) :
             \E t \in DOMAIN a.turns : id \in IdsOf(a.turns[t].ids)
    <3>1. \A id \in IdsOf(m.calls) : \E t \in DOMAIN a.turns : id \in IdsOf(a.turns[t].ids)
      <4>1. m.calls = <<>> => IdsOf(m.calls) = {}  BY DEF IdsOf
      <4>2. QED  BY <2>4, <2>5, <2>9, <4>1
    <3>2. QED  BY <1>2, <2>9, <3>1 DEF Faithful, m
  <2>12. \A t \in DOMAIN a.turns : \A id \in a.turns[t].covered :
             \E x \in 1 .. n + 1 : msgs[x].role = "tool" /\ msgs[x].answers = id
    <3> SUFFICES ASSUME NEW t \in DOMAIN a.turns, NEW id \in a.turns[t].covered
                 PROVE  \E x \in 1 .. n + 1 : msgs[x].role = "tool" /\ msgs[x].answers = id
      OBVIOUS
    <3>1. t \in DOMAIN st.turns /\ a.turns[t] = st.turns[t]  BY <2>5, <2>9
    <3>2. \E x \in 1 .. n : msgs[x].role = "tool" /\ msgs[x].answers = id
      BY <3>1 DEF Faithful
    <3>3. QED  BY <1>3, <3>2 DEF i
  <2>13. QED  BY <2>7, <2>10, <2>11, <2>12 DEF Faithful, a
<1>7. CASE m.role = "tool"
  <2> DEFINE asker == Latest(Askers(st, m.answers))
  <2>1. PICK j \in 1 .. i - 1 : m.answers \in IdsOf(msgs[j].calls)  BY <1>1, <1>7 DEF InOrder
  <2>2. m.answers # NoId  BY <1>1, <1>3, <1>5, <2>1
  <2>3. PICK t \in DOMAIN st.turns : m.answers \in IdsOf(st.turns[t].ids)
    BY <1>1, <2>1 DEF Faithful
  <2>4. t \in Askers(st, m.answers)  BY <2>2, <2>3 DEF Askers
  <2>5. asker # 0 /\ asker \in Askers(st, m.answers)
    <3>1. Askers(st, m.answers) \subseteq 1 .. Len(st.turns)  BY AskersAreTurns
    <3>2. QED  BY <1>4, <2>4, <3>1, LatestOf
  <2> HIDE DEF asker
  <2>6. asker \in DOMAIN st.turns /\ m.answers \in IdsOf(st.turns[asker].ids)
    BY <2>5 DEF Askers
  <2>7. m.answers \notin st.turns[asker].covered
    <3> SUFFICES ASSUME m.answers \in st.turns[asker].covered  PROVE FALSE
      OBVIOUS
    <3>1. PICK x \in 1 .. n : msgs[x].role = "tool" /\ msgs[x].answers = m.answers
      BY <2>6 DEF Faithful
    <3>2. x # i /\ x \in DOMAIN msgs /\ i \in DOMAIN msgs  BY <1>1, <1>3
    <3>3. QED  BY <1>7, <3>1, <3>2 DEF AnsweredOnce
  <2>8. m.answers \in NamedId
    <3>1. m.answers \in CallId  BY <1>1 DEF Message
    <3>2. QED  BY <2>2, <3>1 DEF NamedId
  <2> DEFINE b == Attach(st, asker, m, m.answers)
  <2>9. a = b
    <3>1. a = TakeResult(st, m, i)  BY <1>1, <1>7 DEF RepairStep
    <3>2. asker # 0 /\ m.answers \notin st.turns[asker].covered
            => TakeResult(st, m, i) = Attach(st, asker, m, m.answers)
      BY <1>1, TakeResultKeeps DEF asker
    <3>3. QED  BY <2>5, <2>7, <3>1, <3>2
  <2>10. [m EXCEPT !.answers = m.answers] = m  BY <1>1 DEF Message
  <2>11. /\ b.orphans = st.orphans
         /\ \A k \in DOMAIN st.out : \E l \in DOMAIN b.out : b.out[l] = st.out[k]
         /\ \E l \in DOMAIN b.out : b.out[l] = [m EXCEPT !.answers = m.answers]
         /\ DOMAIN b.turns = DOMAIN st.turns
         /\ \A u \in DOMAIN st.turns :
                /\ b.turns[u].ids = st.turns[u].ids
                /\ b.turns[u].covered = IF u = asker THEN st.turns[u].covered \cup {m.answers}
                                        ELSE st.turns[u].covered
    <3>1. m \in Message /\ m.role = "tool"  BY <1>1, <1>7
    <3> HIDE DEF m, i
    <3> DEFINE id == m.answers
    <3>2. id \in NamedId /\ id \in IdsOf(st.turns[asker].ids) /\ id \notin st.turns[asker].covered
      BY <2>6, <2>7, <2>8
    <3>3. b = Attach(st, asker, m, id)  OBVIOUS
    <3> HIDE DEF id, b
    <3>4. /\ b.orphans = st.orphans
          /\ \A k \in DOMAIN st.out : \E l \in DOMAIN b.out : b.out[l] = st.out[k]
          /\ \E l \in DOMAIN b.out : b.out[l] = [m EXCEPT !.answers = id]
      BY <2>6, <3>1, <3>2, <3>3, AttachKeeps
    <3>5. /\ DOMAIN b.turns = DOMAIN st.turns
          /\ \A u \in DOMAIN st.turns :
                /\ b.turns[u].ids = st.turns[u].ids
                /\ b.turns[u].covered = IF u = asker THEN st.turns[u].covered \cup {id}
                                        ELSE st.turns[u].covered
      <4>1. Covers(st, b, asker, id)  BY <2>6, <3>1, <3>2, <3>3, AttachCovers
      <4>2. QED  BY <4>1 DEF Covers
    <3>6. QED  BY <3>4, <3>5 DEF id
  <2> HIDE DEF a, b, m, i
  <2>12. b.orphans = {}  BY <2>11 DEF Faithful
  <2>13. \A x \in 1 .. n + 1 : msgs[x].role = "tool" =>
             \E k \in DOMAIN b.out : b.out[k].key = msgs[x].key /\ b.out[k].answers = msgs[x].answers
    <3>1. \E k \in DOMAIN b.out : b.out[k].key = m.key /\ b.out[k].answers = m.answers
      BY <2>10, <2>11
    <3>2. \A x \in 1 .. n : msgs[x].role = "tool" =>
             \E k \in DOMAIN b.out : b.out[k].key = msgs[x].key /\ b.out[k].answers = msgs[x].answers
      BY <2>11 DEF Faithful
    <3>3. QED  BY <1>2, <3>1, <3>2 DEF m
  <2>14. \A x \in 1 .. n + 1 : \A id \in IdsOf(msgs[x].calls) :
             \E u \in DOMAIN b.turns : id \in IdsOf(b.turns[u].ids)
    <3>1. IdsOf(m.calls) = {}
      <4>1. m.calls = <<>>  BY <1>1, <1>7 DEF Message
      <4>2. QED  BY <4>1 DEF IdsOf
    <3>2. \A x \in 1 .. n : \A id \in IdsOf(msgs[x].calls) :
             \E u \in DOMAIN b.turns : id \in IdsOf(b.turns[u].ids)
      BY <2>11 DEF Faithful
    <3>3. QED  BY <1>2, <3>1, <3>2 DEF m
  <2>15. \A u \in DOMAIN b.turns : \A id \in b.turns[u].covered :
             \E x \in 1 .. n + 1 : msgs[x].role = "tool" /\ msgs[x].answers = id
    <3> SUFFICES ASSUME NEW u \in DOMAIN b.turns, NEW id \in b.turns[u].covered
                 PROVE  \E x \in 1 .. n + 1 : msgs[x].role = "tool" /\ msgs[x].answers = id
      OBVIOUS
    <3>1. id \in st.turns[u].covered \/ id = m.answers
      <4>1. u \in DOMAIN st.turns  BY <2>11
      <4>2. b.turns[u].covered = IF u = asker THEN st.turns[u].covered \cup {m.answers}
                                 ELSE st.turns[u].covered
        BY <2>11, <4>1
      <4>3. QED  BY <4>2
    <3>2. CASE id \in st.turns[u].covered
      <4>1. \E x \in 1 .. n : msgs[x].role = "tool" /\ msgs[x].answers = id
        BY <2>11, <3>2 DEF Faithful
      <4>2. QED  BY <1>3, <4>1 DEF i
    <3>3. CASE id = m.answers
      <4>1. i \in 1 .. n + 1  BY <1>3 DEF i
      <4>2. QED  BY <1>7, <3>3, <4>1 DEF m
    <3>4. QED  BY <3>1, <3>2, <3>3
  <2>16. QED  BY <2>9, <2>12, <2>13, <2>14, <2>15 DEF Faithful, a
<1>8. QED  BY <1>6, <1>7

\* When every call is asked for once and answered once, after it was asked for, each result
\* answers the call it names.
LEMMA EachAnswersItsCall ==
    ASSUME NEW msgs \in Seq(Message), AskedOnce(msgs), AnsweredOnce(msgs), InOrder(msgs),
           NEW i \in DOMAIN msgs, msgs[i].role = "tool"
    PROVE  \E j \in DOMAIN Repaired(msgs).out :
               /\ Repaired(msgs).out[j].key = msgs[i].key
               /\ Repaired(msgs).out[j].answers = msgs[i].answers
<1> DEFINE L == Len(msgs)
<1>1. L \in Nat /\ DOMAIN msgs = 1 .. L  OBVIOUS
<1>2. PICK f : Repairs(f, msgs)  BY RepairRun
<1>3. /\ f \in [0 .. 2 * L -> Repairing(msgs)] /\ f[0] = NothingRead
      /\ \A n \in 1 .. 2 * L : f[n] = RepairStep(msgs, f[n - 1], n)
  BY <1>2 DEF Repairs
<1>4. Repairing(msgs) \subseteq Layout  BY DEF Repairing
<1> DEFINE S == {n \in 0 .. L : Faithful(msgs, f[n], n)}
<1>5. 0 \in S
  <2>1. f[0].orphans = {} /\ DOMAIN f[0].turns = {}  BY <1>3 DEF NothingRead
  <2>2. 0 \in 0 .. L /\ 1 .. 0 = {}  BY <1>1
  <2>3. QED  BY <2>1, <2>2 DEF Faithful
<1>6. ASSUME NEW n \in 0 .. L, n \in S, n < L  PROVE n + 1 \in S
  <2>1. n \in 0 .. L - 1 /\ n \in 0 .. 2 * L /\ n + 1 \in 1 .. 2 * L /\ n + 1 \in 0 .. L
          /\ (n + 1) - 1 = n
    BY <1>1, <1>6
  <2>2. f[n] \in Layout /\ f[n + 1] = RepairStep(msgs, f[n], n + 1)  BY <1>3, <1>4, <2>1
  <2>3. Faithful(msgs, f[n + 1], n + 1)  BY <1>6, <2>1, <2>2, FaithfulStep
  <2>4. QED  BY <2>1, <2>3
<1> HIDE DEF S
<1>7. L \in S
  <2>1. 0 \in 0 .. L /\ L \in 0 .. L  BY <1>1
  <2>2. QED  BY <1>1, <1>5, <1>6, <2>1, UpTo
<1> DEFINE st == f[L]
<1>8. Faithful(msgs, st, L)  BY <1>7 DEF S
<1>9. Repaired(msgs) = DropDangling(st)  BY <1>2, <1>8, NoneWaiting DEF Faithful
<1>10. st \in Layout
  <2>1. L \in 0 .. 2 * L  BY <1>1
  <2>2. QED  BY <1>3, <1>4, <2>1
<1> HIDE DEF st
<1>11. PICK k \in DOMAIN st.out : st.out[k].key = msgs[i].key /\ st.out[k].answers = msgs[i].answers
  BY <1>1, <1>8 DEF Faithful
<1>12. LET new == DropDangling(st).out
       IN k \in DOMAIN new /\ new[k].key = st.out[k].key /\ new[k].answers = st.out[k].answers
  BY <1>10, <1>11, DroppedOf
<1>13. QED  BY <1>9, <1>11, <1>12

-----------------------------------------------------------------------------
(* Lists of lists, laid one behind the other *)

\* b says where each list of seqs starts in `all`.
Starts(b, seqs, all) ==
    /\ b[0] = 0 /\ b[Len(seqs)] = Len(all)
    /\ \A i \in 1 .. Len(seqs) :
           /\ b[i - 1] \in Nat /\ b[i] = b[i - 1] + Len(seqs[i]) /\ b[i] <= Len(all)
           /\ \A k \in 1 .. Len(seqs[i]) : all[b[i - 1] + k] = seqs[i][k]

\* g joins one list more at each step.
Joins(g, seqs) ==
    /\ g[0] = <<>>
    /\ \A n \in 1 .. Len(seqs) : g[n] = g[n - 1] \o seqs[n]

\* FlattenSeq is its lists joined one after the other.
LEMMA FlattenJoins ==
    ASSUME NEW X, NEW seqs \in Seq(Seq(X))
    PROVE  \E g \in [0 .. Len(seqs) -> Seq(X)] : Joins(g, seqs) /\ FlattenSeq(seqs) = g[Len(seqs)]
<1> DEFINE L == Len(seqs)
           T == Seq(X)
           F == [n \in 1 .. L |-> [s \in T |-> s \o seqs[n]]]
           Is(h) == h = [i \in 1 .. L |-> IF i = 1 THEN seqs[i] ELSE h[i - 1] \o seqs[i]]
           flatten == CHOOSE h : Is(h)
<1>1. L \in Nat /\ <<>> \in T /\ \A n \in 1 .. L : seqs[n] \in T  OBVIOUS
<1>2. \A n \in 1 .. L : \A s \in T : s \o seqs[n] \in T  BY <1>1, ConcatProperties
<1>3. F \in [1 .. L -> [T -> T]] /\ \A n \in 1 .. L : \A s \in T : F[n][s] = s \o seqs[n]
  BY <1>2
<1>4. FlattenSeq(seqs) = IF L = 0 THEN seqs ELSE flatten[L]  BY DEF FlattenSeq
<1>5. L = 0 => seqs = <<>>  BY EmptySeq
<1>6. \A s \in T : <<>> \o s = s  BY ConcatEmptySeq
<1> HIDE DEF L, T, F
<1>7. \E g \in [0 .. L -> T] : Goes(g, <<>>, F, L)  BY <1>1, <1>3, StepByStep
<1>8. PICK g \in [0 .. L -> T] : g[0] = <<>> /\ \A n \in 1 .. L : g[n] = F[n][g[n - 1]]
  BY <1>7 DEF Goes
<1>9. \A n \in 1 .. L : n - 1 \in 0 .. L /\ g[n - 1] \in T /\ g[n] = g[n - 1] \o seqs[n]
  <2>1. \A n \in 1 .. L : n - 1 \in 0 .. L  BY <1>1
  <2>2. QED  BY <1>3, <1>8, <2>1
<1>9a. 1 \in 1 .. L => g[1] = seqs[1]
  <2>1. 1 - 1 = 0  OBVIOUS
  <2>2. 1 \in 1 .. L => g[1] = <<>> \o seqs[1]  BY <1>8, <1>9, <2>1
  <2>3. QED  BY <1>1, <1>6, <2>2
<1>10. \E h : Is(h)
  <2> DEFINE h == [i \in 1 .. L |-> g[i]]
  <2>1. \A i \in 1 .. L : i # 1 => i - 1 \in 1 .. L  BY <1>1
  <2>2. \A i \in 1 .. L : g[i] = IF i = 1 THEN seqs[i] ELSE g[i - 1] \o seqs[i]
    BY <1>9a, <1>9
  <2>3. \A i \in 1 .. L : h[i] = IF i = 1 THEN seqs[i] ELSE h[i - 1] \o seqs[i]
    BY <2>1, <2>2
  <2>4. h = [i \in 1 .. L |-> h[i]]  OBVIOUS
  <2> HIDE DEF h
  <2>5. Is(h)  BY <2>3, <2>4
  <2>6. QED  BY <2>5
<1>11. Is(flatten)  BY <1>10
<1> HIDE DEF flatten
<1>12. \A i \in 1 .. L : flatten[i] = IF i = 1 THEN seqs[i] ELSE flatten[i - 1] \o seqs[i]
  BY <1>11
<1> HIDE DEF Is
<1> DEFINE S == {n \in 1 .. L : flatten[n] = g[n]}
<1>13. ASSUME L # 0  PROVE flatten[L] = g[L]
  <2>1. 1 \in 1 .. L /\ L \in 1 .. L /\ 1 - 1 = 0  BY <1>1, <1>13
  <2>2. 1 \in S  BY <1>9a, <1>12, <2>1
  <2>3. ASSUME NEW n \in 1 .. L, n \in S, n < L  PROVE n + 1 \in S
    <3>1. n + 1 \in 1 .. L /\ n + 1 # 1 /\ (n + 1) - 1 = n  BY <1>1, <2>3
    <3>2. flatten[n + 1] = flatten[n] \o seqs[n + 1]  BY <1>12, <3>1
    <3>3. g[n + 1] = g[n] \o seqs[n + 1]  BY <1>9, <3>1
    <3>4. flatten[n + 1] = g[n + 1]  BY <2>3, <3>2, <3>3
    <3>5. QED  BY <3>1, <3>4
  <2> HIDE DEF S
  <2>4. L \in S
    <3>1. 1 \in 0 .. L  BY <2>1, <1>1
    <3>2. QED  BY <1>1, <2>1, <2>2, <2>3, <3>1, UpTo
  <2>5. QED  BY <2>4 DEF S
<1>14. FlattenSeq(seqs) = g[L]  BY <1>4, <1>5, <1>8, <1>13
<1>15. Joins(g, seqs)  BY <1>8, <1>9 DEF Joins, L
<1>16. QED  BY <1>14, <1>15 DEF L, T

\* What is joined behind a list leaves the list where it is.
LEMMA FlattenedAt ==
    ASSUME NEW X, NEW seqs \in Seq(Seq(X))
    PROVE  FlattenSeq(seqs) \in Seq(X) /\ \E b : Starts(b, seqs, FlattenSeq(seqs))
<1> DEFINE L == Len(seqs)
           all == FlattenSeq(seqs)
<1>1. L \in Nat /\ \A n \in 1 .. L : seqs[n] \in Seq(X)  OBVIOUS
<1>2. PICK g \in [0 .. L -> Seq(X)] : Joins(g, seqs) /\ all = g[L]  BY FlattenJoins
<1> HIDE DEF all
<1>3. g[0] = <<>> /\ \A n \in 1 .. L : g[n] = g[n - 1] \o seqs[n]  BY <1>2 DEF Joins
<1>4. \A n \in 1 .. L : n - 1 \in 0 .. L /\ n \in 0 .. L  BY <1>1
<1>5. 0 \in 0 .. L /\ L \in 0 .. L  BY <1>1
<1>6. all \in Seq(X)  BY <1>2, <1>5
<1>7. ASSUME NEW n \in 1 .. L
      PROVE  /\ Len(g[n - 1]) \in Nat /\ Len(g[n]) = Len(g[n - 1]) + Len(seqs[n])
             /\ \A k \in 1 .. Len(g[n - 1]) : g[n][k] = g[n - 1][k]
             /\ \A k \in 1 .. Len(seqs[n]) : g[n][Len(g[n - 1]) + k] = seqs[n][k]
  <2> DEFINE s == g[n - 1]
             t == seqs[n]
             r == g[n]
  <2>1. s \in Seq(X) /\ t \in Seq(X) /\ r = s \o t  BY <1>1, <1>2, <1>3, <1>4
  <2> HIDE DEF s, t, r
  <2>2. /\ Len(r) = Len(s) + Len(t) /\ Len(s) \in Nat /\ Len(t) \in Nat
        /\ \A k \in 1 .. Len(s) + Len(t) : r[k] = IF k <= Len(s) THEN s[k] ELSE t[k - Len(s)]
    BY <2>1, ConcatProperties
  <2>3. \A k \in 1 .. Len(s) : r[k] = s[k]  BY <2>2
  <2>4. \A k \in 1 .. Len(t) : r[Len(s) + k] = t[k]
    <3> SUFFICES ASSUME NEW k \in 1 .. Len(t)  PROVE r[Len(s) + k] = t[k]
      OBVIOUS
    <3>1. Len(s) + k \in 1 .. Len(s) + Len(t) /\ ~(Len(s) + k <= Len(s)) /\ Len(s) + k - Len(s) = k
      BY <2>2
    <3>2. QED  BY <2>2, <3>1
  <2>5. QED  BY <2>2, <2>3, <2>4 DEF s, t, r
<1> DEFINE Kept(i, n) == /\ Len(g[i]) <= Len(g[n])
                         /\ \A k \in 1 .. Len(g[i]) : g[n][k] = g[i][k]
           S == {n \in 0 .. L : \A i \in 0 .. n : Kept(i, n)}
<1>8. \A n \in 0 .. L : Len(g[n]) \in Nat  BY <1>2
<1>9. 0 \in S
  <2>1. \A i \in 0 .. 0 : i = 0  OBVIOUS
  <2>2. Kept(0, 0)  BY <1>5, <1>8
  <2>3. QED  BY <1>5, <2>1, <2>2
<1>10. ASSUME NEW n \in 0 .. L, n \in S, n < L  PROVE n + 1 \in S
  <2>1. n \in Nat /\ n + 1 \in 1 .. L /\ n + 1 \in 0 .. L /\ (n + 1) - 1 = n /\ n \in 0 .. n
    BY <1>1, <1>10
  <2> DEFINE q == n + 1
  <2>1a. q \in 1 .. L /\ q - 1 = n  BY <2>1
  <2> HIDE DEF q
  <2>1b. \A k \in 1 .. Len(g[q - 1]) : g[q][k] = g[q - 1][k]  BY <1>7, <2>1a
  <2>2. \A k \in 1 .. Len(g[n]) : g[n + 1][k] = g[n][k]  BY <2>1a, <2>1b DEF q
  <2>3. Len(g[n]) <= Len(g[n + 1])
    <3>1. Len(g[n + 1]) = Len(g[n]) + Len(seqs[n + 1])  BY <1>7, <2>1
    <3>2. Len(seqs[n + 1]) \in Nat  BY <1>1, <2>1
    <3>3. QED  BY <1>8, <2>1, <3>1, <3>2
  <2>4. \A i \in 0 .. n + 1 : (i \in 0 .. n /\ i \in 0 .. L) \/ i = n + 1  BY <2>1, <1>1
  <2>5. ASSUME NEW i \in 0 .. n, i \in 0 .. L  PROVE Kept(i, n + 1)
    <3>1. Kept(i, n)  BY <1>10
    <3>2. \A k \in 1 .. Len(g[i]) : k \in 1 .. Len(g[n])  BY <1>8, <2>1, <2>5, <3>1
    <3>3. Len(g[i]) <= Len(g[n + 1])  BY <1>8, <2>1, <2>3, <2>5, <3>1
    <3>4. QED  BY <2>2, <3>1, <3>2, <3>3
  <2>6. Kept(n + 1, n + 1)  BY <1>8, <2>1
  <2> HIDE DEF Kept
  <2>7. QED  BY <2>1, <2>4, <2>5, <2>6
<1> HIDE DEF S
<1>11. L \in S  BY <1>1, <1>5, <1>9, <1>10, UpTo
<1>12. \A i \in 0 .. L : Kept(i, L)  BY <1>11 DEF S
<1> DEFINE b == [n \in 0 .. L |-> Len(g[n])]
<1>13. \A n \in 0 .. L : b[n] = Len(g[n])  OBVIOUS
<1> HIDE DEF b
<1>14. b[0] = 0 /\ b[L] = Len(all)  BY <1>2, <1>3, <1>5, <1>13, EmptySeq
<1>15. ASSUME NEW i \in 1 .. L
       PROVE  /\ b[i - 1] \in Nat /\ b[i] = b[i - 1] + Len(seqs[i]) /\ b[i] <= Len(all)
              /\ \A k \in 1 .. Len(seqs[i]) : all[b[i - 1] + k] = seqs[i][k]
  <2>1. /\ b[i - 1] = Len(g[i - 1]) /\ b[i] = Len(g[i]) /\ i \in 0 .. L
        /\ Len(seqs[i]) \in Nat
    <3>1. i - 1 \in 0 .. L /\ i \in 0 .. L  BY <1>4
    <3>2. seqs[i] \in Seq(X)  BY <1>1
    <3>3. Len(seqs[i]) \in Nat  BY <3>2
    <3>4. QED  BY <1>13, <3>1, <3>3
  <2>2. b[i] = b[i - 1] + Len(seqs[i]) /\ b[i - 1] \in Nat  BY <1>7, <2>1
  <2>3. Kept(i, L)  BY <1>12, <2>1
  <2>4. b[i] <= Len(all)  BY <1>2, <2>1, <2>3
  <2>5. \A k \in 1 .. Len(seqs[i]) : all[b[i - 1] + k] = seqs[i][k]
    <3> SUFFICES ASSUME NEW k \in 1 .. Len(seqs[i])  PROVE all[b[i - 1] + k] = seqs[i][k]
      OBVIOUS
    <3>1. b[i - 1] + k \in 1 .. b[i]
      <4> DEFINE d == Len(seqs[i])
                 p == b[i - 1]
      <4>1. k \in 1 .. d /\ d \in Nat /\ p \in Nat /\ b[i] = p + d  BY <2>1, <2>2
      <4> HIDE DEF d, p
      <4>2. p + k \in 1 .. p + d  BY ONLY <4>1
      <4>3. QED  BY <4>1, <4>2 DEF p
    <3>2. g[i][b[i - 1] + k] = seqs[i][k]  BY <1>7, <2>1
    <3>3. QED  BY <1>2, <2>1, <2>3, <3>1, <3>2
  <2>6. QED  BY <2>2, <2>4, <2>5
<1>16. Starts(b, seqs, all)  BY <1>14, <1>15 DEF Starts
<1>17. QED  BY <1>6, <1>16 DEF all

\* Lists of one thing each make the list of those things.
LEMMA FlattenedOnes ==
    ASSUME NEW X, NEW seqs \in Seq(Seq(X)), \A i \in 1 .. Len(seqs) : Len(seqs[i]) = 1
    PROVE  /\ FlattenSeq(seqs) \in Seq(X) /\ Len(FlattenSeq(seqs)) = Len(seqs)
           /\ \A i \in 1 .. Len(seqs) : FlattenSeq(seqs)[i] = seqs[i][1]
<1> DEFINE L == Len(seqs)
           all == FlattenSeq(seqs)
<1>1. L \in Nat /\ 0 \in 0 .. L /\ L \in 0 .. L  OBVIOUS
<1>2. all \in Seq(X) /\ \E b : Starts(b, seqs, all)  BY FlattenedAt
<1> HIDE DEF all
<1>3. PICK b : Starts(b, seqs, all)  BY <1>2
<1>4. /\ b[0] = 0 /\ b[L] = Len(all)
      /\ \A i \in 1 .. L : b[i] = b[i - 1] + 1 /\ all[b[i - 1] + 1] = seqs[i][1]
  <2>1. b[0] = 0 /\ b[L] = Len(all)  BY <1>3 DEF Starts
  <2>2. ASSUME NEW i \in 1 .. L  PROVE b[i] = b[i - 1] + 1 /\ all[b[i - 1] + 1] = seqs[i][1]
    <3>1. Len(seqs[i]) = 1 /\ 1 \in 1 .. 1  OBVIOUS
    <3>2. b[i] = b[i - 1] + Len(seqs[i])
            /\ \A k \in 1 .. Len(seqs[i]) : all[b[i - 1] + k] = seqs[i][k]
      BY <1>3 DEF Starts
    <3>3. QED  BY <3>1, <3>2
  <2>3. QED  BY <2>1, <2>2
<1> DEFINE S == {n \in 0 .. L : b[n] = n}
<1>5. 0 \in S  BY <1>1, <1>4
<1>6. ASSUME NEW n \in 0 .. L, n \in S, n < L  PROVE n + 1 \in S
  <2>1. n + 1 \in 1 .. L /\ n + 1 \in 0 .. L /\ (n + 1) - 1 = n  BY <1>1, <1>6
  <2>2. b[n + 1] = b[n] + 1  BY <1>4, <2>1
  <2>3. QED  BY <1>6, <2>1, <2>2
<1> HIDE DEF S
<1>7. \A n \in 0 .. L : n \in S  BY <1>1, <1>5, <1>6, UpTo
<1>8. \A n \in 0 .. L : b[n] = n  BY <1>7 DEF S
<1>9. \A i \in 1 .. L : i - 1 \in 0 .. L /\ (i - 1) + 1 = i  BY <1>1
<1>10. \A i \in 1 .. L : all[i] = seqs[i][1]  BY <1>4, <1>8, <1>9
<1>11. Len(all) = L  BY <1>1, <1>4, <1>8
<1>12. QED  BY <1>2, <1>10, <1>11 DEF all

-----------------------------------------------------------------------------
(* What a request is translated to *)

\* The ids of a request are ids.
LEMMA WrittenIds == WrittenOrNot \subseteq CallId
<1>1. \A i \in CallIds : <<i, 0, 0>> \in CallId  BY DEF CallId
<1>2. QED  BY <1>1, NoIdIsAnId DEF WrittenOrNot, Written

\* The messages a translation makes.
LEMMA MessagesMade ==
    /\ \A k \in Key : FromUser(k) \in Message
    /\ \A k \in Key, id \in CallId : Tool(id, k) \in Message
    /\ \A t \in BOOLEAN, c \in Seq(CallId), k \in Key : Assistant(t, c, k) \in Message
  BY NoIdIsAnId DEF FromUser, Tool, Assistant, Message

\* The chat dialect needs no translation, only its places.
LEMMA KeyedMessages ==
    ASSUME NEW n \in Nat, NEW msgs \in [1 .. n -> ChatMessages]
    PROVE  Keyed(msgs) \in Seq(Message)
<1>1. {} \in Key /\ \A i \in 1 .. n : {i} \in Key  BY DEF Key
<1>2. \A i \in WrittenOrNot : <<i>> \in Seq(CallId)  BY WrittenIds
<1>3. \A p \in Written \X Written : p \in Seq(CallId)
  <2>1. ASSUME NEW p \in Written \X Written  PROVE p \in Seq(CallId)
    <3>1. PICK i \in Written, j \in Written : p = <<i, j>>  OBVIOUS
    <3>2. i \in CallId /\ j \in CallId  BY WrittenIds DEF WrittenOrNot
    <3>3. QED  BY <3>1, <3>2
  <2>2. QED  BY <2>1
<1>4. <<>> \in Seq(CallId) /\ TRUE \in BOOLEAN /\ FALSE \in BOOLEAN  OBVIOUS
<1>5. ChatMessages \subseteq Message
  <2>1. FromUser({}) \in Message /\ Assistant(TRUE, <<>>, {}) \in Message
    BY <1>1, <1>4, MessagesMade
  <2>2. \A i \in WrittenOrNot : Assistant(FALSE, <<i>>, {}) \in Message /\ Tool(i, {}) \in Message
    BY <1>1, <1>2, <1>4, WrittenIds, MessagesMade
  <2>3. \A p \in Written \X Written : Assistant(FALSE, p, {}) \in Message
    BY <1>1, <1>3, <1>4, MessagesMade
  <2> DEFINE one == {Assistant(FALSE, <<i>>, {}) : i \in WrittenOrNot}
             two == {Assistant(FALSE, pair, {}) : pair \in Written \X Written}
             results == {Tool(i, {}) : i \in WrittenOrNot}
  <2>4. one \subseteq Message /\ results \subseteq Message  BY <2>2
  <2>5. two \subseteq Message  BY <2>3
  <2>6. ChatMessages = {FromUser({}), Assistant(TRUE, <<>>, {})} \cup one \cup two \cup results
    BY DEF ChatMessages
  <2> HIDE DEF one, two, results
  <2>7. QED  BY <2>1, <2>4, <2>5, <2>6
<1>6. \A m \in Message, k \in Key : [m EXCEPT !.key = k] \in Message  BY DEF Message
<1>7. \A i \in 1 .. n : [msgs[i] EXCEPT !.key = {i}] \in Message  BY <1>1, <1>5, <1>6
<1>8. Keyed(msgs) = [i \in 1 .. n |-> [msgs[i] EXCEPT !.key = {i}]]  BY DEF Keyed
<1>9. QED  BY <1>7, <1>8, IsASeq

\* Where the translation of Responses items stands.
Taken == [out : Seq(Message), calls : Seq(CallId), text : BOOLEAN, key : Key]

\* An item, with any id.
AnyItem ==
    [type : {"user", "text", "empty", "unusable", "reasoning", "call", "output"}, id : CallId]

\* Closing the pending turn appends it when there is one (_flush_assistant).
LEMMA FlushTaken ==
    ASSUME NEW st \in Taken
    PROVE  /\ Flush(st) \in Taken
           /\ Flush(st).calls = <<>> /\ Flush(st).text = FALSE
           /\ st.calls = <<>> /\ st.text = FALSE => Flush(st).out = st.out
           /\ ~(st.calls = <<>> /\ st.text = FALSE) =>
                 Flush(st).out = Append(st.out, Assistant(st.text, st.calls, st.key))
<1> DEFINE a == Assistant(st.text, st.calls, st.key)
           done == IF st.calls = <<>> /\ ~st.text THEN <<>> ELSE <<a>>
<1>1. st.out \in Seq(Message) /\ st.calls \in Seq(CallId) /\ st.text \in BOOLEAN /\ st.key \in Key
  BY DEF Taken
<1>2. a \in Message  BY <1>1, MessagesMade
<1>3. Flush(st) = [out |-> st.out \o done, calls |-> <<>>, text |-> FALSE, key |-> {}]
  BY DEF Flush
<1> HIDE DEF a
<1>4. done \in Seq(Message)  BY <1>2
<1>5. st.out \o done \in Seq(Message)  BY <1>1, <1>4, ConcatProperties
<1>6. {} \in Key  BY DEF Key
<1>7. st.out \o <<>> = st.out  BY <1>1, ConcatEmptySeq
<1>8. st.out \o <<a>> = Append(st.out, a)  BY <1>1, <1>2, AppendIsConcat
<1>9. st.calls = <<>> /\ st.text = FALSE => done = <<>>  OBVIOUS
<1>10. ~(st.calls = <<>> /\ st.text = FALSE) => done = <<a>>  BY <1>1
<1> HIDE DEF done
<1>11. Flush(st) \in Taken  BY <1>3, <1>5, <1>6 DEF Taken
<1>12. /\ Flush(st).calls = <<>> /\ Flush(st).text = FALSE
       /\ Flush(st).out = st.out \o done
  BY <1>3
<1>13. QED  BY <1>7, <1>8, <1>9, <1>10, <1>11, <1>12 DEF a

\* One item at a time, by its type.
LEMMA TakeItemBy ==
    ASSUME NEW st \in Taken, NEW item \in AnyItem, NEW i \in Nat
    PROVE  LET to == TakeItem(st, item, i)
           IN /\ to \in Taken
              /\ item.type = "user" => /\ to.out = Append(Flush(st).out, FromUser({i}))
                                       /\ to.calls = <<>> /\ to.text = FALSE
              /\ item.type = "output" => /\ to.out = Append(Flush(st).out, Tool(item.id, {i}))
                                         /\ to.calls = <<>> /\ to.text = FALSE
              /\ item.type = "text" => /\ to.out = Flush(st).out
                                       /\ to.calls = <<>> /\ to.text = TRUE
              /\ item.type = "call" => /\ to.out = st.out /\ to.text = st.text
                                       /\ to.calls = Append(st.calls, FunctionCall(item, i))
<1> DEFINE to == TakeItem(st, item, i)
           o == Flush(st)
           c == FunctionCall(item, i)
<1>1. st.out \in Seq(Message) /\ st.calls \in Seq(CallId) /\ st.text \in BOOLEAN /\ st.key \in Key
        /\ st = [out |-> st.out, calls |-> st.calls, text |-> st.text, key |-> st.key]
  BY DEF Taken
<1>2. o \in Taken /\ o.calls = <<>> /\ o.text = FALSE  BY FlushTaken
<1>3. item.id \in CallId
        /\ item.type \in {"user", "text", "empty", "unusable", "reasoning", "call", "output"}
  BY DEF AnyItem
<1>4. c \in CallId  BY <1>3 DEF FunctionCall, CallId
<1>5. {i} \in Key /\ st.key \cup {i} \in Key  BY <1>1 DEF Key
<1>6. FromUser({i}) \in Message /\ Tool(item.id, {i}) \in Message
  BY <1>3, <1>5, MessagesMade
<1>7. /\ item.type = "user" => to = [o EXCEPT !.out = Append(@, FromUser({i}))]
      /\ item.type = "text" => to = [o EXCEPT !.text = TRUE, !.key = {i}]
      /\ item.type \in {"empty", "unusable"} => to = o
      /\ item.type = "call" => to = [st EXCEPT !.calls = Append(@, c), !.key = @ \cup {i}]
      /\ item.type = "output" => to = [o EXCEPT !.out = Append(@, Tool(item.id, {i}))]
      /\ item.type = "reasoning" => to = st
  BY <1>3 DEF TakeItem
<1> HIDE DEF to, o, c
<1> DEFINE u == FromUser({i})
           w == Tool(item.id, {i})
<1>8. Append(o.out, u) \in Seq(Message) /\ Append(o.out, w) \in Seq(Message)
        /\ Append(st.calls, c) \in Seq(CallId) /\ o.out \in Seq(Message)
  BY <1>1, <1>2, <1>4, <1>6, AppendProperties DEF Taken
<1> HIDE DEF u, w
<1>9. CASE item.type = "user"
  <2>1. to = [o EXCEPT !.out = Append(@, u)]  BY <1>7, <1>9 DEF u
  <2>2. to \in Taken /\ to.out = Append(o.out, u) /\ to.calls = <<>> /\ to.text = FALSE
    BY <1>2, <1>8, <2>1 DEF Taken
  <2>3. QED  BY <1>9, <2>2 DEF to, o, u
<1>10. CASE item.type = "output"
  <2>1. to = [o EXCEPT !.out = Append(@, w)]  BY <1>7, <1>10 DEF w
  <2>2. to \in Taken /\ to.out = Append(o.out, w) /\ to.calls = <<>> /\ to.text = FALSE
    BY <1>2, <1>8, <2>1 DEF Taken
  <2>3. QED  BY <1>10, <2>2 DEF to, o, w
<1>11. CASE item.type = "text"
  <2>1. to \in Taken /\ to.out = o.out /\ to.calls = <<>> /\ to.text = TRUE
    BY <1>2, <1>5, <1>7, <1>8, <1>11 DEF Taken
  <2>2. QED  BY <1>11, <2>1 DEF to, o
<1>12. CASE item.type = "call"
  <2>1. to \in Taken /\ to.out = st.out /\ to.text = st.text /\ to.calls = Append(st.calls, c)
    BY <1>1, <1>5, <1>7, <1>8, <1>12 DEF Taken
  <2>2. QED  BY <1>12, <2>1 DEF to, c
<1>13. CASE item.type \in {"empty", "unusable", "reasoning"}
  <2>1. to \in Taken  BY <1>2, <1>7, <1>13
  <2>2. QED  BY <1>13, <2>1 DEF to
<1>14. QED  BY <1>3, <1>9, <1>10, <1>11, <1>12, <1>13

\* f is the run of the translation over the items.
Translates(f, items) ==
    /\ f \in [0 .. Len(items) -> Taken] /\ f[0] = NothingTaken
    /\ \A n \in 1 .. Len(items) : f[n] = TakeItem(f[n - 1], items[n], n)
    /\ FromResponses(items) = Flush(f[Len(items)]).out

\* The translation of items is the run of its steps from nothing taken.
LEMMA TranslationRun ==
    ASSUME NEW items \in Seq(AnyItem)
    PROVE  \E f : Translates(f, items)
<1> DEFINE L == Len(items)
           T == Taken
           F == [n \in 1 .. L |-> [st \in T |-> TakeItem(st, items[n], n)]]
           Is(g) == g = [n \in 0 .. L |-> IF n = 0 THEN NothingTaken ELSE TakeItem(g[n - 1], items[n], n)]
           after == CHOOSE g : Is(g)
<1>1. L \in Nat /\ NothingTaken \in T  BY DEF NothingTaken, Taken, Key
<1>2. \A n \in 1 .. L : \A st \in T : TakeItem(st, items[n], n) \in T
  <2>1. \A n \in 1 .. L : items[n] \in AnyItem /\ n \in Nat  OBVIOUS
  <2>2. QED  BY <2>1, TakeItemBy
<1>3. F \in [1 .. L -> [T -> T]]  BY <1>2
<1>4. \A n \in 1 .. L : \A st \in T : F[n][st] = TakeItem(st, items[n], n)  OBVIOUS
<1>5. FromResponses(items) = Flush(after[L]).out  BY DEF FromResponses
<1> HIDE DEF L, T, F
<1>6. \E f \in [0 .. L -> T] : Goes(f, NothingTaken, F, L)  BY <1>1, <1>3, StepByStep
<1>7. PICK f \in [0 .. L -> T] : f[0] = NothingTaken /\ \A n \in 1 .. L : f[n] = F[n][f[n - 1]]
  BY <1>6 DEF Goes
<1>8. \A n \in 0 .. L : n = 0 \/ (n \in 1 .. L /\ n - 1 \in 0 .. L)  BY <1>1
<1>9. Is(f)
  <2>1. \A n \in 0 .. L : f[n] = IF n = 0 THEN NothingTaken ELSE TakeItem(f[n - 1], items[n], n)
    BY <1>4, <1>7, <1>8
  <2>2. f = [n \in 0 .. L |-> f[n]]  BY <1>7
  <2>3. QED  BY <2>1, <2>2
<1>10. Is(after)  BY <1>9
<1> HIDE DEF after
<1>11. after = [n \in 0 .. L |-> after[n]] /\ after[0] = NothingTaken
         /\ \A n \in 1 .. L : after[n] = TakeItem(after[n - 1], items[n], n)
  <2>1. 0 \in 0 .. L /\ \A n \in 1 .. L : n # 0 /\ n \in 0 .. L  BY <1>1
  <2>2. after = [n \in 0 .. L |-> after[n]]  BY <1>10
  <2>3. QED  BY <1>10, <2>1, <2>2
<1> DEFINE S == {n \in 0 .. L : after[n] \in T}
<1>12. 0 \in S  BY <1>1, <1>11
<1>13. ASSUME NEW n \in 0 .. L, n \in S, n < L  PROVE n + 1 \in S
  <2>1. n + 1 \in 1 .. L /\ n + 1 \in 0 .. L /\ (n + 1) - 1 = n  BY <1>1, <1>13
  <2>2. QED  BY <1>2, <1>11, <1>13, <2>1
<1> HIDE DEF S
<1>14. \A n \in 0 .. L : n \in S
  <2>1. 0 \in 0 .. L  BY <1>1
  <2>2. QED  BY <1>1, <1>12, <1>13, <2>1, UpTo
<1>15. after \in [0 .. L -> T]  BY <1>11, <1>14 DEF S
<1>16. Translates(after, items)  BY <1>5, <1>11, <1>15 DEF Translates, L, T
<1>17. QED  BY <1>16

\* Items become messages.
LEMMA ResponsesMessages ==
    ASSUME NEW items \in Seq(AnyItem)
    PROVE  FromResponses(items) \in Seq(Message)
<1>1. PICK f : Translates(f, items)  BY TranslationRun
<1>2. Len(items) \in 0 .. Len(items)  OBVIOUS
<1>3. f[Len(items)] \in Taken  BY <1>1, <1>2 DEF Translates
<1>4. Flush(f[Len(items)]) \in Taken  BY <1>3, FlushTaken
<1>5. Flush(f[Len(items)]).out \in Seq(Message)  BY <1>4 DEF Taken
<1>6. QED  BY <1>1, <1>5 DEF Translates

\* A message with blocks, whatever it uses or answers.
AnyBlocks == [role : {"user", "assistant"}, text : BOOLEAN, uses : Seq(CallId)]

\* What a message with blocks becomes.
ToInternal(m, i) == IF m.role = "user" THEN UserToInternal(m, i) ELSE AssistantToInternal(m, i)

\* A message with blocks becomes messages, whatever its ids are.
LEMMA ToInternalMessages ==
    ASSUME NEW m \in AnyBlocks, NEW i \in Nat
    PROVE  ToInternal(m, i) \in Seq(Message)
<1>1. m.text \in BOOLEAN /\ m.uses \in Seq(CallId) /\ m.role \in {"user", "assistant"}
        /\ DOMAIN m.uses = 1 .. Len(m.uses) /\ Len(m.uses) \in Nat
        /\ \A r \in DOMAIN m.uses : m.uses[r] \in CallId
  BY DEF AnyBlocks
<1>2. CASE m.role = "user"
  <2> DEFINE Answer(r) == Tool(m.uses[r], {<<i, r>>})
             results == [r \in DOMAIN m.uses |-> Answer(r)]
             said == IF m.text THEN <<FromUser({<<i, 0>>})>> ELSE <<>>
  <2>1. results \in Seq(Message)
    <3>1. \A r \in 1 .. Len(m.uses) : {<<i, r>>} \in Key  BY DEF Key
    <3>2. \A r \in 1 .. Len(m.uses) : Answer(r) \in Message
      BY <1>1, <3>1, MessagesMade
    <3>3. results = [r \in 1 .. Len(m.uses) |-> Answer(r)]  BY <1>1
    <3> HIDE DEF results, Answer
    <3>4. QED  BY <1>1, <3>2, <3>3, IsASeq
  <2>2. said \in Seq(Message)
    <3>1. {<<i, 0>>} \in Key  BY DEF Key
    <3>2. FromUser({<<i, 0>>}) \in Message  BY <3>1, MessagesMade
    <3>3. QED  BY <3>2
  <2>3. ToInternal(m, i) = results \o said  BY <1>2 DEF ToInternal, UserToInternal
  <2> HIDE DEF results, said
  <2>4. QED  BY <2>1, <2>2, <2>3, ConcatProperties
<1>3. CASE m.role = "assistant"
  <2> DEFINE Named(r) == IF m.uses[r] = NoId THEN <<"call_missing", 0, r>> ELSE m.uses[r]
             calls == [r \in DOMAIN m.uses |-> Named(r)]
             key == {<<i, r>> : r \in DOMAIN m.uses} \cup {<<i, 0>>}
  <2>1. calls \in Seq(CallId)
    <3>1. \A r \in 1 .. Len(m.uses) : Named(r) \in CallId
      <4>1. \A r \in Nat : <<"call_missing", 0, r>> \in CallId  BY DEF CallId
      <4>2. \A r \in 1 .. Len(m.uses) : r \in Nat /\ m.uses[r] \in CallId  BY <1>1
      <4>3. QED  BY <4>1, <4>2
    <3>2. calls = [r \in 1 .. Len(m.uses) |-> Named(r)]  BY <1>1
    <3> HIDE DEF calls, Named
    <3>3. QED  BY <1>1, <3>1, <3>2, IsASeq
  <2>2. key \in Key
    <3>1. \A r \in DOMAIN m.uses : <<i, r>> \in Nat \X Nat  BY <1>1
    <3>2. QED  BY <3>1 DEF Key
  <2>3. ToInternal(m, i) = IF ~m.text /\ m.uses = <<>> THEN <<>>
                           ELSE <<Assistant(m.text, calls, key)>>
    BY <1>3 DEF ToInternal, AssistantToInternal
  <2> HIDE DEF calls, key
  <2>4. Assistant(m.text, calls, key) \in Message  BY <1>1, <2>1, <2>2, MessagesMade
  <2>5. QED  BY <2>3, <2>4
<1>4. QED  BY <1>1, <1>2, <1>3

\* And a list of them the messages of each, one behind the other.
LEMMA AnthropicMessages ==
    ASSUME NEW msgs \in Seq(AnyBlocks)
    PROVE  LET parts == [i \in 1 .. Len(msgs) |-> ToInternal(msgs[i], i)]
           IN /\ parts \in Seq(Seq(Message)) /\ FromAnthropic(msgs) = FlattenSeq(parts)
              /\ FromAnthropic(msgs) \in Seq(Message)
<1> DEFINE parts == [i \in 1 .. Len(msgs) |-> ToInternal(msgs[i], i)]
<1>1. Len(msgs) \in Nat /\ DOMAIN msgs = 1 .. Len(msgs)  OBVIOUS
<1>2. \A i \in 1 .. Len(msgs) : msgs[i] \in AnyBlocks /\ i \in Nat  BY <1>1
<1>3. \A i \in 1 .. Len(msgs) : ToInternal(msgs[i], i) \in Seq(Message)
  BY <1>2, ToInternalMessages
<1>4. FromAnthropic(msgs) = FlattenSeq(parts)  BY <1>1 DEF FromAnthropic, ToInternal
<1>5. parts \in Seq(Seq(Message))  BY <1>1, <1>3, IsASeq
<1> HIDE DEF parts
<1>6. FlattenSeq(parts) \in Seq(Message)  BY <1>5, FlattenedAt
<1>7. QED  BY <1>4, <1>5, <1>6 DEF parts

-----------------------------------------------------------------------------
(* What was routed, sent back *)

\* The items the gateway shows of a message.
ItemsOf(m) ==
    CASE m.role = "user" -> <<Item("user", NoId)>>
      [] m.role = "tool" -> <<Item("output", m.answers)>>
      [] m.role = "assistant" -> OutputItems(m)

\* Where the calls of a message start among its items.
Leading(m) == IF m.text THEN 1 ELSE 0

\* A user turn or a result is shown as one item, an assistant turn as its text, then its calls.
LEMMA ItemsOfMessage ==
    ASSUME NEW m \in Message
    PROVE  /\ ItemsOf(m) \in Seq(AnyItem)
           /\ m.role = "user" => Len(ItemsOf(m)) = 1 /\ ItemsOf(m)[1] = Item("user", NoId)
           /\ m.role = "tool" => Len(ItemsOf(m)) = 1 /\ ItemsOf(m)[1] = Item("output", m.answers)
           /\ m.role = "assistant" =>
                  /\ Len(ItemsOf(m)) = Leading(m) + Len(m.calls)
                  /\ m.text => ItemsOf(m)[1] = Item("text", NoId)
                  /\ \A c \in 1 .. Len(m.calls) : ItemsOf(m)[Leading(m) + c] = Item("call", m.calls[c])
<1>1. m.role \in {"user", "tool", "assistant"} /\ m.text \in BOOLEAN /\ m.calls \in Seq(CallId)
        /\ m.answers \in CallId
  BY DEF Message
<1>2. /\ \A t \in {"user", "output", "text", "call"}, id \in CallId : Item(t, id) \in AnyItem
      /\ NoId \in CallId
  BY NoIdIsAnId DEF Item, AnyItem
<1>3. CASE m.role = "user"
  <2>1. ItemsOf(m) = <<Item("user", NoId)>>  BY <1>3 DEF ItemsOf
  <2>2. Item("user", NoId) \in AnyItem  BY <1>2
  <2>3. QED  BY <1>3, <2>1, <2>2
<1>4. CASE m.role = "tool"
  <2>1. ItemsOf(m) = <<Item("output", m.answers)>>  BY <1>4 DEF ItemsOf
  <2>2. Item("output", m.answers) \in AnyItem  BY <1>1, <1>2
  <2>3. QED  BY <1>4, <2>1, <2>2
<1>5. CASE m.role = "assistant"
  <2> DEFINE said == IF m.text THEN <<Item("text", NoId)>> ELSE <<>>
             Call(c) == Item("call", m.calls[c])
             called == [c \in 1 .. Len(m.calls) |-> Call(c)]
             n == Len(m.calls)
  <2>1. n \in Nat /\ DOMAIN m.calls = 1 .. n /\ \A c \in 1 .. n : m.calls[c] \in CallId  BY <1>1
  <2>2. ItemsOf(m) = said \o called  BY <1>5, <2>1 DEF ItemsOf, OutputItems
  <2>3. /\ said \in Seq(AnyItem) /\ Len(said) = Leading(m)
        /\ m.text => said[1] = Item("text", NoId)
    <3>1. Item("text", NoId) \in AnyItem  BY <1>2
    <3>2. QED  BY <1>1, <3>1 DEF Leading
  <2>4. called \in Seq(AnyItem) /\ Len(called) = n
    <3>1. \A c \in 1 .. n : Call(c) \in AnyItem  BY <1>2, <2>1
    <3> HIDE DEF Call
    <3>2. called \in Seq(AnyItem)  BY <2>1, <3>1, IsASeq
    <3>3. QED  BY <2>1, <3>2
  <2>5. \A c \in 1 .. n : called[c] = Item("call", m.calls[c])  OBVIOUS
  <2> HIDE DEF said, called, n
  <2>6. /\ said \o called \in Seq(AnyItem) /\ Len(said \o called) = Leading(m) + n
        /\ \A k \in 1 .. Leading(m) + n :
               (said \o called)[k] = IF k <= Leading(m) THEN said[k] ELSE called[k - Leading(m)]
    <3>1. /\ said \o called \in Seq(AnyItem)
          /\ Len(said \o called) = Len(said) + Len(called)
          /\ \A k \in 1 .. Len(said) + Len(called) :
                 (said \o called)[k] = IF k <= Len(said) THEN said[k] ELSE called[k - Len(said)]
      BY <2>3, <2>4, ConcatProperties
    <3>2. QED  BY <2>3, <2>4, <3>1
  <2>7. Leading(m) \in {0, 1} /\ (m.text => Leading(m) = 1)  BY DEF Leading
  <2>8. m.text => ItemsOf(m)[1] = Item("text", NoId)  BY <2>1, <2>2, <2>3, <2>6, <2>7
  <2>9. \A c \in 1 .. n : ItemsOf(m)[Leading(m) + c] = Item("call", m.calls[c])
    <3> SUFFICES ASSUME NEW c \in 1 .. n  PROVE ItemsOf(m)[Leading(m) + c] = Item("call", m.calls[c])
      OBVIOUS
    <3> DEFINE k == Leading(m) + c
    <3>1. k \in 1 .. Leading(m) + n /\ ~(k <= Leading(m)) /\ k - Leading(m) = c  BY <2>1, <2>7
    <3> HIDE DEF k
    <3>2. (said \o called)[k] = called[c]  BY <2>6, <3>1
    <3>3. QED  BY <2>2, <2>5, <3>2 DEF k
  <2>10. QED  BY <1>5, <2>2, <2>6, <2>8, <2>9 DEF n
<1>6. QED  BY <1>1, <1>3, <1>4, <1>5

\* Its items, taken one after the other, make the message again.
LEMMA SaidAgain ==
    ASSUME NEW all \in Seq(AnyItem), NEW f, Translates(f, all), NEW m \in Message, NEW p \in Nat,
           NoId \notin IdsOf(m.calls), m.role = "assistant" => m.text \/ m.calls # <<>>,
           m.role = "assistant" => f[p].calls = <<>> /\ f[p].text = FALSE,
           p + Len(ItemsOf(m)) <= Len(all),
           \A k \in 1 .. Len(ItemsOf(m)) : all[p + k] = ItemsOf(m)[k]
    PROVE  /\ \E x \in Message :
                  /\ Flush(f[p + Len(ItemsOf(m))]).out = Append(Flush(f[p]).out, x)
                  /\ Plain(x) = Plain(m)
           /\ m.role # "assistant" =>
                  f[p + Len(ItemsOf(m))].calls = <<>> /\ f[p + Len(ItemsOf(m))].text = FALSE
<1> DEFINE w == Len(ItemsOf(m))
           L == Len(all)
<1>1. /\ m.role \in {"user", "tool", "assistant"} /\ m.text \in BOOLEAN /\ m.calls \in Seq(CallId)
      /\ m.answers \in CallId
      /\ m.role # "tool" => m.answers = NoId
      /\ m.role # "assistant" => m.calls = <<>> /\ m.text = TRUE
  BY DEF Message
<1>2. ItemsOf(m) \in Seq(AnyItem) /\ w \in Nat /\ L \in Nat /\ p + w <= L  BY ItemsOfMessage
<1>3. \A n \in 0 .. L : f[n] \in Taken  BY DEF Translates
<1>4. \A n \in 1 .. L : f[n] = TakeItem(f[n - 1], all[n], n) /\ all[n] \in AnyItem /\ n \in Nat
  BY <1>2 DEF Translates
<1>5. ASSUME NEW k \in 1 .. w
      PROVE  /\ f[p + k - 1] \in Taken /\ p + k \in Nat
             /\ f[p + k] = TakeItem(f[p + k - 1], ItemsOf(m)[k], p + k)
             /\ ItemsOf(m)[k] \in AnyItem
  <2> DEFINE i == p + k
  <2>1. i \in 1 .. L /\ i - 1 \in 0 .. L /\ i \in Nat
    <3> HIDE DEF w, L
    <3>1. QED  BY <1>2
  <2>2. all[i] = ItemsOf(m)[k]  OBVIOUS
  <2> HIDE DEF i, w, L
  <2>3. f[i - 1] \in Taken  BY <1>3, <2>1
  <2>4. f[i] = TakeItem(f[i - 1], all[i], i) /\ all[i] \in AnyItem  BY <1>4, <2>1
  <2>5. /\ f[i - 1] \in Taken /\ i \in Nat /\ f[i] = TakeItem(f[i - 1], ItemsOf(m)[k], i)
        /\ ItemsOf(m)[k] \in AnyItem
    BY <2>1, <2>2, <2>3, <2>4
  <2>6. QED  BY <2>5 DEF i
<1>6. f[p] \in Taken
  <2>1. p \in 0 .. L  BY <1>2
  <2>2. QED  BY <1>3, <2>1
<1>7. ASSUME m.role # "assistant"
      PROVE  /\ \E x \in Message : Flush(f[p + w]).out = Append(Flush(f[p]).out, x) /\ Plain(x) = Plain(m)
             /\ f[p + w].calls = <<>> /\ f[p + w].text = FALSE
  <2> DEFINE it == ItemsOf(m)[1]
             to == f[p + 1]
  <2>1. w = 1 /\ (m.role = "user" => it = Item("user", NoId))
          /\ (m.role = "tool" => it = Item("output", m.answers))
    BY <1>1, <1>7, ItemsOfMessage
  <2>2. it \in AnyItem /\ p + 1 \in Nat /\ to = TakeItem(f[p], it, p + 1)
    <3>1. 1 \in 1 .. w /\ p + 1 - 1 = p  BY <2>1
    <3>2. QED  BY <1>5, <3>1
  <2> DEFINE i == p + 1
  <2> HIDE DEF it, to
  <2>3. to \in Taken  BY <1>6, <2>2, TakeItemBy
  <2>4. {i} \in Key  BY <2>2 DEF Key
  <2>5. PICK x \in Message : /\ to.out = Append(Flush(f[p]).out, x) /\ Plain(x) = Plain(m)
                             /\ to.calls = <<>> /\ to.text = FALSE
    <3>1. CASE m.role = "user"
      <4>1. it.type = "user"  BY <2>1, <3>1 DEF Item
      <4>2. to.out = Append(Flush(f[p]).out, FromUser({i})) /\ to.calls = <<>> /\ to.text = FALSE
        BY <1>6, <2>2, <4>1, TakeItemBy
      <4>3. FromUser({i}) \in Message  BY <2>4, MessagesMade
      <4>4. Plain(FromUser({i})) = Plain(m)  BY <1>1, <3>1 DEF Plain, FromUser
      <4>5. QED  BY <4>2, <4>3, <4>4
    <3>2. CASE m.role = "tool"
      <4>1. it.type = "output" /\ it.id = m.answers  BY <2>1, <3>2 DEF Item
      <4>2. to.out = Append(Flush(f[p]).out, Tool(m.answers, {i})) /\ to.calls = <<>> /\ to.text = FALSE
        <5>1. to.out = Append(Flush(f[p]).out, Tool(it.id, {i})) /\ to.calls = <<>> /\ to.text = FALSE
          BY <1>6, <2>2, <4>1, TakeItemBy
        <5>2. QED  BY <4>1, <5>1
      <4>3. Tool(m.answers, {i}) \in Message  BY <1>1, <2>4, MessagesMade
      <4>4. Plain(Tool(m.answers, {i})) = Plain(m)  BY <1>1, <3>2 DEF Plain, Tool
      <4>5. QED  BY <4>2, <4>3, <4>4
    <3>3. QED  BY <1>1, <1>7, <3>1, <3>2
  <2>6. Flush(to).out = to.out  BY <2>3, <2>5, FlushTaken
  <2>7. f[p + w] = to  BY <2>1 DEF to
  <2>8. QED  BY <2>5, <2>6, <2>7
<1>8. ASSUME m.role = "assistant"
      PROVE  \E x \in Message : Flush(f[p + w]).out = Append(Flush(f[p]).out, x) /\ Plain(x) = Plain(m)
  <2> DEFINE d == Leading(m)
             n == Len(m.calls)
             b == p + d
             out == f[p].out
  <2>1. /\ w = d + n /\ n \in Nat /\ d \in {0, 1} /\ (m.text => d = 1) /\ (m.text = FALSE => d = 0)
        /\ m.text => ItemsOf(m)[1] = Item("text", NoId)
        /\ \A c \in 1 .. n : ItemsOf(m)[d + c] = Item("call", m.calls[c])
    <3>1. d = IF m.text THEN 1 ELSE 0  BY DEF Leading
    <3>2. n \in Nat  BY <1>1
    <3>3. /\ w = Leading(m) + Len(m.calls)
          /\ m.text => ItemsOf(m)[1] = Item("text", NoId)
          /\ \A c \in 1 .. Len(m.calls) : ItemsOf(m)[Leading(m) + c] = Item("call", m.calls[c])
      BY <1>8, ItemsOfMessage
    <3>4. d \in {0, 1} /\ (m.text => d = 1) /\ (m.text = FALSE => d = 0)  BY <1>1, <3>1
    <3>5. QED  BY <3>2, <3>3, <3>4
  <2>2. Flush(f[p]).out = out  BY <1>6, <1>8, FlushTaken
  <2>3. f[b] \in Taken /\ f[b].out = out /\ f[b].calls = <<>> /\ f[b].text = m.text
    <3>1. CASE m.text
      <4> DEFINE it == ItemsOf(m)[1]
                 i == p + 1
      <4>1. b = i /\ 1 \in 1 .. w /\ p + 1 - 1 = p  BY <2>1, <3>1
      <4>2. f[i] = TakeItem(f[p], it, i) /\ it \in AnyItem /\ i \in Nat  BY <1>5, <4>1
      <4>3. it.type = "text"  BY <2>1, <3>1 DEF Item
      <4> DEFINE st == f[p]
                 to == f[i]
      <4> HIDE DEF it, i, st, to
      <4>4. st \in Taken /\ to = TakeItem(st, it, i)  BY <1>6, <4>2 DEF st, to
      <4>5. to \in Taken /\ to.out = Flush(st).out /\ to.calls = <<>> /\ to.text = TRUE
        BY <4>2, <4>3, <4>4, TakeItemBy
      <4>6. f[i] \in Taken /\ f[i].out = Flush(f[p]).out /\ f[i].calls = <<>> /\ f[i].text = TRUE
        BY <4>5 DEF st, to
      <4>7. m.text = TRUE  BY <1>1, <3>1
      <4>8. QED  BY <2>2, <4>1, <4>6, <4>7
    <3>2. CASE m.text = FALSE
      <4>1. b = p  BY <2>1, <3>2
      <4>2. QED  BY <1>6, <1>8, <3>2, <4>1
    <3>3. QED  BY <1>1, <3>1, <3>2
  <2> DEFINE Read(c) == /\ f[b + c] \in Taken /\ f[b + c].out = out /\ f[b + c].text = m.text
                        /\ Len(f[b + c].calls) = c
                        /\ \A k \in 1 .. c : f[b + c].calls[k] = m.calls[k]
             S == {c \in 0 .. n : Read(c)}
  <2>4. b \in Nat /\ 0 \in 0 .. n /\ n \in 0 .. n  BY <2>1
  <2>5. 0 \in S
    <3>1. b + 0 = b  BY <2>4
    <3>2. Read(0)  BY <2>3, <3>1
    <3>3. QED  BY <2>4, <3>2
  <2>6. ASSUME NEW c \in 0 .. n, c \in S, c < n  PROVE c + 1 \in S
    <3> DEFINE q == c + 1
               it == ItemsOf(m)[d + q]
               st == f[b + c]
               to == f[b + q]
               i == b + q
    <3>1. q \in 1 .. n /\ q \in 0 .. n /\ d + q \in 1 .. w /\ p + (d + q) = i /\ p + (d + q) - 1 = b + c
      <4>1. q \in 1 .. n /\ q \in 0 .. n /\ q \in Nat  BY <2>1, <2>6
      <4>2. d + q \in 1 .. w
        <5>1. w = d + n /\ d \in Nat /\ n \in Nat  BY <2>1
        <5> HIDE DEF d, n, q, w
        <5>2. QED  BY <4>1, <5>1
      <4>3. p + (d + q) = i /\ p + (d + q) - 1 = b + c  BY <2>1
      <4>4. QED  BY <4>1, <4>2, <4>3
    <3>2. it = Item("call", m.calls[q])  BY <2>1, <3>1
    <3>3. to = TakeItem(st, it, i) /\ it \in AnyItem /\ i \in Nat  BY <1>5, <3>1
    <3>4. it.type = "call" /\ it.id = m.calls[q]  BY <3>2 DEF Item
    <3>5. m.calls[q] # NoId /\ m.calls[q] \in CallId
      <4>1. q \in DOMAIN m.calls  BY <1>1, <3>1
      <4>2. QED  BY <1>1, <4>1 DEF IdsOf
    <3>6. FunctionCall(it, i) = m.calls[q]  BY <3>4, <3>5 DEF FunctionCall
    <3>7. st \in Taken /\ st.out = out /\ st.text = m.text /\ Len(st.calls) = c
            /\ \A k \in 1 .. c : st.calls[k] = m.calls[k]
      BY <2>6
    <3>8. st.calls \in Seq(CallId)  BY <3>7 DEF Taken
    <3> HIDE DEF it, st, to, i, q, Read
    <3>9. to \in Taken /\ to.out = out /\ to.text = m.text /\ to.calls = Append(st.calls, m.calls[q])
      <4>1. to \in Taken /\ to.out = st.out /\ to.text = st.text
              /\ to.calls = Append(st.calls, FunctionCall(it, i))
        BY <3>3, <3>4, <3>7, TakeItemBy
      <4>2. QED  BY <3>6, <3>7, <4>1
    <3>10. /\ Len(to.calls) = c + 1 /\ to.calls[c + 1] = m.calls[q]
           /\ \A k \in 1 .. c : to.calls[k] = st.calls[k]
      BY <3>5, <3>7, <3>8, <3>9, AppendProperties
    <3>11. \A k \in 1 .. c + 1 : k \in 1 .. c \/ k = c + 1  BY <2>1
    <3>12. \A k \in 1 .. c + 1 : to.calls[k] = m.calls[k]  BY <3>7, <3>10, <3>11 DEF q
    <3>13. Read(c + 1)  BY <3>9, <3>10, <3>12 DEF Read, to, q
    <3>14. QED  BY <3>1, <3>13 DEF q
  <2> HIDE DEF S
  <2>7. n \in S  BY <2>1, <2>4, <2>5, <2>6, UpTo
  <2>8. Read(n)  BY <2>7 DEF S
  <2> DEFINE to == f[b + n]
             x == Assistant(to.text, to.calls, to.key)
  <2>9. to.calls = m.calls
    <3>1. to.calls \in Seq(CallId)  BY <2>8 DEF Taken
    <3>2. Len(to.calls) = Len(m.calls) /\ \A k \in 1 .. Len(m.calls) : to.calls[k] = m.calls[k]
      BY <2>8
    <3> HIDE DEF to
    <3>3. QED  BY <1>1, <3>1, <3>2, SeqEqual
  <2>10. to \in Taken /\ to.out = out /\ to.text = m.text  BY <2>8
  <2> HIDE DEF to
  <2>11. ~(to.calls = <<>> /\ to.text = FALSE)  BY <1>1, <1>8, <2>9, <2>10
  <2>12. Flush(to).out = Append(out, x)  BY <2>10, <2>11, FlushTaken
  <2>13. x \in Message  BY <2>10, MessagesMade DEF Taken
  <2>14. Plain(x) = Plain(m)  BY <1>1, <1>8, <2>9, <2>10 DEF Plain, Assistant
  <2>15. to = f[p + w]
    <3>1. b + n = p + w  BY <2>1
    <3>2. QED  BY <3>1 DEF to
  <2>16. QED  BY <2>2, <2>12, <2>13, <2>14, <2>15
<1>9. QED  BY <1>7, <1>8

\* Of the first i messages of a list, st holds the same messages.
Retold(st, msgs, i) ==
    /\ Len(Flush(st).out) = i
    /\ \A j \in 1 .. i : Plain(Flush(st).out[j]) = Plain(msgs[j])
    /\ i = 0 \/ msgs[i].role # "assistant" => st.calls = <<>> /\ st.text = FALSE

\* The Responses dialect takes back what was shown of a list.
LEMMA ItemsRoundTrip ==
    ASSUME NEW msgs \in Seq(Message), AllNamed(msgs), Alternates(msgs)
    PROVE  PlainAll(FromResponses(SaidBack(msgs))) = PlainAll(msgs)
<1> DEFINE L == Len(msgs)
           seqs == [i \in 1 .. L |-> ItemsOf(msgs[i])]
           all == FlattenSeq(seqs)
           w(i) == Len(ItemsOf(msgs[i]))
<1>1. L \in Nat /\ DOMAIN msgs = 1 .. L /\ \A i \in 1 .. L : msgs[i] \in Message  BY ElementOfSeq
<1>2. SaidBack(msgs) = all  BY <1>1 DEF SaidBack, ItemsOf
<1>3. seqs \in Seq(Seq(AnyItem)) /\ Len(seqs) = L /\ \A i \in 1 .. L : seqs[i] = ItemsOf(msgs[i])
  <2>1. \A i \in 1 .. L : ItemsOf(msgs[i]) \in Seq(AnyItem)  BY <1>1, ItemsOfMessage
  <2>2. seqs \in Seq(Seq(AnyItem))  BY <1>1, <2>1, IsASeq
  <2>3. QED  BY <1>1, <2>2
<1> HIDE DEF seqs
<1>4. all \in Seq(AnyItem) /\ \E b : Starts(b, seqs, all)  BY <1>3, FlattenedAt
<1> HIDE DEF all
<1>5. PICK b : Starts(b, seqs, all)  BY <1>4
<1>6. /\ b[0] = 0 /\ b[L] = Len(all)
      /\ \A i \in 1 .. L :
             /\ b[i - 1] \in Nat /\ b[i] = b[i - 1] + w(i) /\ b[i] <= Len(all)
             /\ \A k \in 1 .. w(i) : all[b[i - 1] + k] = ItemsOf(msgs[i])[k]
  <2>1. b[0] = 0 /\ b[L] = Len(all)  BY <1>3, <1>5 DEF Starts
  <2>2. ASSUME NEW i \in 1 .. L
        PROVE  /\ b[i - 1] \in Nat /\ b[i] = b[i - 1] + w(i) /\ b[i] <= Len(all)
               /\ \A k \in 1 .. w(i) : all[b[i - 1] + k] = ItemsOf(msgs[i])[k]
    <3>1. /\ b[i - 1] \in Nat /\ b[i] = b[i - 1] + Len(seqs[i]) /\ b[i] <= Len(all)
          /\ \A k \in 1 .. Len(seqs[i]) : all[b[i - 1] + k] = seqs[i][k]
      BY <1>3, <1>5 DEF Starts
    <3>2. seqs[i] = ItemsOf(msgs[i])  BY <1>3
    <3>3. QED  BY <3>1, <3>2
  <2>3. QED  BY <2>1, <2>2
<1>7. PICK f : Translates(f, all)  BY <1>4, TranslationRun
<1>8. FromResponses(all) = Flush(f[Len(all)]).out /\ f[0] = NothingTaken
  BY <1>7 DEF Translates
<1>9. \A n \in 0 .. Len(all) : f[n] \in Taken  BY <1>7 DEF Translates
<1> DEFINE S == {i \in 0 .. L : Retold(f[b[i]], msgs, i)}
<1>10. 0 \in S
  <2>1. f[b[0]] = NothingTaken  BY <1>6, <1>8
  <2>2. NothingTaken \in Taken /\ NothingTaken.calls = <<>> /\ NothingTaken.text = FALSE
          /\ NothingTaken.out = <<>>
    BY DEF NothingTaken, Taken, Key
  <2>3. Flush(NothingTaken).out = <<>>  BY <2>2, FlushTaken
  <2>4. Len(<<>>) = 0 /\ 1 .. 0 = {}  OBVIOUS
  <2>5. Retold(NothingTaken, msgs, 0)  BY <2>2, <2>3, <2>4 DEF Retold
  <2>6. QED  BY <1>1, <2>1, <2>5
<1>11. ASSUME NEW i \in 0 .. L, i \in S, i < L  PROVE i + 1 \in S
  <2> DEFINE q == i + 1
             m == msgs[q]
             p == b[i]
             st == f[p]
             to == f[p + w(q)]
             out == Flush(st).out
  <2>1. q \in 1 .. L /\ q \in 0 .. L /\ q - 1 = i /\ i \in Nat  BY <1>1, <1>11
  <2>2. m \in Message /\ NoId \notin IdsOf(m.calls)  BY <1>1, <2>1 DEF AllNamed
  <2>3. m.role = "assistant" => m.text \/ m.calls # <<>>  BY <1>1, <2>1 DEF Alternates
  <2>4. p \in Nat /\ b[q] = p + w(q) /\ p + w(q) <= Len(all)
          /\ \A k \in 1 .. w(q) : all[p + k] = ItemsOf(m)[k]
    BY <1>6, <2>1
  <2>5. Retold(st, msgs, i)  BY <1>11
  <2>6. m.role = "assistant" => st.calls = <<>> /\ st.text = FALSE
    <3>1. ASSUME m.role = "assistant", i # 0  PROVE msgs[i].role # "assistant"
      <4>1. i \in DOMAIN msgs /\ i < Len(msgs)  BY <1>1, <1>11, <2>1, <3>1
      <4>2. QED  BY <3>1, <4>1 DEF Alternates
    <3>2. QED  BY <2>5, <3>1 DEF Retold
  <2>7. p \in 0 .. Len(all) /\ p + w(q) \in 0 .. Len(all)
    <3>1. w(q) \in Nat
      <4>1. ItemsOf(m) \in Seq(AnyItem)  BY <2>2, ItemsOfMessage
      <4>2. QED  BY <4>1
    <3>2. Len(all) \in Nat  BY <1>4
    <3>3. QED  BY <2>4, <3>1, <3>2
  <2>8. st \in Taken /\ to \in Taken  BY <1>9, <2>7
  <2> HIDE DEF q, m
  <2>9. /\ \E x \in Message : Flush(to).out = Append(out, x) /\ Plain(x) = Plain(m)
        /\ m.role # "assistant" => to.calls = <<>> /\ to.text = FALSE
    <3>1. p + Len(ItemsOf(m)) = p + w(q)  BY DEF m
    <3>2. /\ \E x \in Message :
                 /\ Flush(f[p + Len(ItemsOf(m))]).out = Append(Flush(f[p]).out, x)
                 /\ Plain(x) = Plain(m)
          /\ m.role # "assistant" =>
                 f[p + Len(ItemsOf(m))].calls = <<>> /\ f[p + Len(ItemsOf(m))].text = FALSE
      <4>1. p + Len(ItemsOf(m)) <= Len(all) /\ \A k \in 1 .. Len(ItemsOf(m)) : all[p + k] = ItemsOf(m)[k]
        BY <2>4 DEF m
      <4> HIDE DEF p, w
      <4>2. p \in Nat /\ f[p].calls = f[p].calls  BY <2>4
      <4>3. m.role = "assistant" => f[p].calls = <<>> /\ f[p].text = FALSE  BY <2>6
      <4>4. QED  BY <1>4, <1>7, <2>2, <2>3, <4>1, <4>2, <4>3, SaidAgain
    <3>3. QED  BY <3>1, <3>2
  <2>10. out \in Seq(Message)  BY <2>8, FlushTaken DEF Taken
  <2> HIDE DEF st, to, p, out
  <2>11. PICK x \in Message : Flush(to).out = Append(out, x) /\ Plain(x) = Plain(m)  BY <2>9
  <2>12. /\ Len(Flush(to).out) = Len(out) + 1 /\ Flush(to).out[Len(out) + 1] = x
         /\ \A j \in 1 .. Len(out) : Flush(to).out[j] = out[j]
    BY <2>10, <2>11, AppendProperties
  <2>13. Len(out) = i /\ \A j \in 1 .. i : Plain(out[j]) = Plain(msgs[j])  BY <2>5 DEF Retold, out
  <2>14. \A j \in 1 .. q : j \in 1 .. i \/ j = q  BY <2>1 DEF q
  <2>15. Retold(to, msgs, q)
    <3>1. Len(Flush(to).out) = q  BY <2>12, <2>13 DEF q
    <3>2. \A j \in 1 .. i : Plain(Flush(to).out[j]) = Plain(msgs[j])  BY <2>12, <2>13
    <3>3. Plain(Flush(to).out[q]) = Plain(msgs[q])  BY <2>11, <2>12, <2>13 DEF q, m
    <3>4. q # 0  BY <2>1
    <3>5. QED  BY <2>9, <2>14, <3>1, <3>2, <3>3, <3>4 DEF Retold, m
  <2>16. f[b[q]] = to  BY <2>4 DEF to, p
  <2>17. QED  BY <2>1, <2>15, <2>16 DEF q
<1> HIDE DEF S
<1>12. L \in S
  <2>1. 0 \in 0 .. L /\ L \in 0 .. L  BY <1>1
  <2>2. QED  BY <1>1, <1>10, <1>11, <2>1, UpTo
<1> DEFINE r == FromResponses(all)
<1>13. Len(r) = L /\ \A j \in 1 .. L : Plain(r[j]) = Plain(msgs[j])
  <2>1. Retold(f[b[L]], msgs, L)  BY <1>12 DEF S
  <2>2. r = Flush(f[b[L]]).out  BY <1>6, <1>8
  <2> HIDE DEF r
  <2>3. QED  BY <2>1, <2>2 DEF Retold
<1>14. r \in Seq(Message)  BY <1>4, ResponsesMessages
<1> HIDE DEF r
<1>15. DOMAIN r = 1 .. L  BY <1>13, <1>14
<1>16. PlainAll(r) = PlainAll(msgs)  BY <1>1, <1>13, <1>15 DEF PlainAll
<1>17. QED  BY <1>2, <1>16 DEF r

\* The blocks the gateway shows of a message.
BlocksOf(m) ==
    CASE m.role = "user" -> <<Blocks("user", TRUE, <<>>)>>
      [] m.role = "tool" -> <<Blocks("user", FALSE, <<m.answers>>)>>
      [] m.role = "assistant" -> ContentBlocks(m)

\* Each message is shown as one message with blocks.
LEMMA BlocksOfMessage ==
    ASSUME NEW m \in Message
    PROVE  /\ BlocksOf(m) \in Seq(AnyBlocks) /\ Len(BlocksOf(m)) = 1
           /\ BlocksOf(m)[1] = Blocks(IF m.role = "assistant" THEN "assistant" ELSE "user",
                                      IF m.role = "tool" THEN FALSE ELSE m.text,
                                      IF m.role = "tool" THEN <<m.answers>> ELSE m.calls)
           /\ BlocksOf(m)[1] \in AnyBlocks
<1> DEFINE r == IF m.role = "assistant" THEN "assistant" ELSE "user"
           t == IF m.role = "tool" THEN FALSE ELSE m.text
           u == IF m.role = "tool" THEN <<m.answers>> ELSE m.calls
<1>1. m.role \in {"user", "tool", "assistant"} /\ m.text \in BOOLEAN /\ m.calls \in Seq(CallId)
        /\ m.answers \in CallId /\ (m.role # "assistant" => m.calls = <<>> /\ m.text = TRUE)
  BY DEF Message
<1>2. BlocksOf(m) = <<Blocks(r, t, u)>>  BY <1>1 DEF BlocksOf, ContentBlocks
<1>3. r \in {"user", "assistant"} /\ t \in BOOLEAN /\ u \in Seq(CallId)
  <2>1. <<m.answers>> \in Seq(CallId)  BY <1>1
  <2>2. QED  BY <1>1, <2>1
<1> HIDE DEF r, t, u
<1>4. Blocks(r, t, u) \in AnyBlocks  BY <1>3 DEF Blocks, AnyBlocks
<1>5. BlocksOf(m) \in Seq(AnyBlocks) /\ Len(BlocksOf(m)) = 1 /\ BlocksOf(m)[1] = Blocks(r, t, u)
        /\ BlocksOf(m)[1] \in AnyBlocks
  BY <1>2, <1>4
<1>6. QED  BY <1>5 DEF r, t, u

\* And become the message again.
LEMMA BlocksAgain ==
    ASSUME NEW m \in Message, NEW i \in Nat, NoId \notin IdsOf(m.calls),
           m.role = "assistant" => m.text \/ m.calls # <<>>
    PROVE  /\ Len(ToInternal(BlocksOf(m)[1], i)) = 1
           /\ Plain(ToInternal(BlocksOf(m)[1], i)[1]) = Plain(m)
<1> DEFINE e == BlocksOf(m)[1]
<1>1. /\ m.role \in {"user", "tool", "assistant"} /\ m.text \in BOOLEAN /\ m.calls \in Seq(CallId)
      /\ m.answers \in CallId
      /\ m.role # "tool" => m.answers = NoId
      /\ m.role # "assistant" => m.calls = <<>> /\ m.text = TRUE
  BY DEF Message
<1>2. /\ e.role = IF m.role = "assistant" THEN "assistant" ELSE "user"
      /\ e.text = IF m.role = "tool" THEN FALSE ELSE m.text
      /\ e.uses = IF m.role = "tool" THEN <<m.answers>> ELSE m.calls
  <2> DEFINE r == IF m.role = "assistant" THEN "assistant" ELSE "user"
             t == IF m.role = "tool" THEN FALSE ELSE m.text
             u == IF m.role = "tool" THEN <<m.answers>> ELSE m.calls
  <2>1. e = Blocks(r, t, u)  BY BlocksOfMessage
  <2> HIDE DEF e, r, t, u
  <2>2. e.role = r /\ e.text = t /\ e.uses = u  BY <2>1 DEF Blocks
  <2>3. QED  BY <2>2 DEF r, t, u
<1> HIDE DEF e
<1>3. CASE m.role = "user"
  <2> DEFINE u == FromUser({<<i, 0>>})
  <2>1. e.role = "user" /\ e.text = TRUE /\ e.uses = <<>>  BY <1>1, <1>2, <1>3
  <2>2. [r \in DOMAIN e.uses |-> Tool(e.uses[r], {<<i, r>>})] = <<>>  BY <2>1
  <2>3. ToInternal(e, i) = <<>> \o <<u>>  BY <2>1, <2>2 DEF ToInternal, UserToInternal
  <2>4. <<>> \o <<u>> = <<u>>
    <3>1. <<u>> \in Seq({u})  OBVIOUS
    <3>2. QED  BY <3>1, ConcatEmptySeq
  <2>5. Plain(u) = Plain(m)  BY <1>1, <1>3 DEF Plain, FromUser
  <2> HIDE DEF u
  <2>6. Len(<<u>>) = 1 /\ <<u>>[1] = u  OBVIOUS
  <2>7. QED  BY <2>3, <2>4, <2>5, <2>6 DEF e
<1>4. CASE m.role = "tool"
  <2> DEFINE u == Tool(m.answers, {<<i, 1>>})
  <2>1. e.role = "user" /\ e.text = FALSE /\ e.uses = <<m.answers>>  BY <1>1, <1>2, <1>4
  <2>2. [r \in DOMAIN e.uses |-> Tool(e.uses[r], {<<i, r>>})] = <<u>>
    <3>1. DOMAIN e.uses = 1 .. 1 /\ e.uses[1] = m.answers  BY <2>1
    <3>2. \A r \in 1 .. 1 : Tool(e.uses[r], {<<i, r>>}) = u  BY <3>1
    <3> HIDE DEF u
    <3>3. [r \in 1 .. 1 |-> u] = <<u>>  OBVIOUS
    <3>4. QED  BY <3>1, <3>2, <3>3
  <2>3. ToInternal(e, i) = <<u>> \o <<>>  BY <2>1, <2>2 DEF ToInternal, UserToInternal
  <2>4. <<u>> \o <<>> = <<u>>
    <3>1. <<u>> \in Seq({u})  OBVIOUS
    <3>2. QED  BY <3>1, ConcatEmptySeq
  <2>5. Plain(u) = Plain(m)  BY <1>1, <1>4 DEF Plain, Tool
  <2> HIDE DEF u
  <2>6. Len(<<u>>) = 1 /\ <<u>>[1] = u  OBVIOUS
  <2>7. QED  BY <2>3, <2>4, <2>5, <2>6 DEF e
<1>5. CASE m.role = "assistant"
  <2> DEFINE key == {<<i, r>> : r \in DOMAIN e.uses} \cup {<<i, 0>>}
             Named(r) == IF e.uses[r] = NoId THEN <<"call_missing", 0, r>> ELSE e.uses[r]
             calls == [r \in DOMAIN e.uses |-> Named(r)]
             u == Assistant(e.text, calls, key)
  <2>1. e.role = "assistant" /\ e.text = m.text /\ e.uses = m.calls  BY <1>1, <1>2, <1>5
  <2>2. calls = m.calls
    <3>1. \A r \in DOMAIN m.calls : m.calls[r] # NoId  BY DEF IdsOf
    <3>2. m.calls = [r \in DOMAIN m.calls |-> m.calls[r]]  BY <1>1
    <3>3. QED  BY <2>1, <3>1, <3>2
  <2>3. ToInternal(e, i) = IF ~e.text /\ e.uses = <<>> THEN <<>> ELSE <<u>>
    BY <2>1 DEF ToInternal, AssistantToInternal
  <2> HIDE DEF calls, key
  <2>4. Plain(u) = Plain(m)  BY <1>1, <1>5, <2>1, <2>2 DEF Plain, Assistant
  <2> HIDE DEF u
  <2>5. ToInternal(e, i) = <<u>>  BY <1>1, <1>5, <2>1, <2>3
  <2>6. Len(<<u>>) = 1 /\ <<u>>[1] = u  OBVIOUS
  <2>7. QED  BY <2>4, <2>5, <2>6 DEF e
<1>6. QED  BY <1>1, <1>3, <1>4, <1>5

\* The Anthropic dialect takes back what was shown of a list.
LEMMA BlocksRoundTrip ==
    ASSUME NEW msgs \in Seq(Message), AllNamed(msgs), Alternates(msgs)
    PROVE  PlainAll(FromAnthropic(SaidBackInBlocks(msgs))) = PlainAll(msgs)
<1> DEFINE L == Len(msgs)
           seqs == [i \in 1 .. L |-> BlocksOf(msgs[i])]
           all == FlattenSeq(seqs)
<1>1. L \in Nat /\ DOMAIN msgs = 1 .. L /\ \A i \in 1 .. L : msgs[i] \in Message  BY ElementOfSeq
<1>2. SaidBackInBlocks(msgs) = all  BY <1>1 DEF SaidBackInBlocks, BlocksOf
<1>3. /\ seqs \in Seq(Seq(AnyBlocks)) /\ Len(seqs) = L
      /\ \A i \in 1 .. L : seqs[i] = BlocksOf(msgs[i]) /\ Len(seqs[i]) = 1
  <2>1. \A i \in 1 .. L : BlocksOf(msgs[i]) \in Seq(AnyBlocks) /\ Len(BlocksOf(msgs[i])) = 1
    BY <1>1, BlocksOfMessage
  <2>2. seqs \in Seq(Seq(AnyBlocks))  BY <1>1, <2>1, IsASeq
  <2>3. QED  BY <1>1, <2>1, <2>2
<1> HIDE DEF seqs
<1>4. /\ all \in Seq(AnyBlocks) /\ Len(all) = L
      /\ \A i \in 1 .. L : all[i] = BlocksOf(msgs[i])[1]
  <2>1. /\ FlattenSeq(seqs) \in Seq(AnyBlocks) /\ Len(FlattenSeq(seqs)) = Len(seqs)
        /\ \A i \in 1 .. Len(seqs) : FlattenSeq(seqs)[i] = seqs[i][1]
    BY <1>3, FlattenedOnes
  <2>2. QED  BY <1>3, <2>1
<1> HIDE DEF all
<1> DEFINE parts == [i \in 1 .. Len(all) |-> ToInternal(all[i], i)]
           r == FromAnthropic(all)
<1>5. parts \in Seq(Seq(Message)) /\ r = FlattenSeq(parts) /\ r \in Seq(Message)
  BY <1>4, AnthropicMessages
<1>6. ASSUME NEW i \in 1 .. L  PROVE Len(parts[i]) = 1 /\ Plain(parts[i][1]) = Plain(msgs[i])
  <2>1. parts[i] = ToInternal(BlocksOf(msgs[i])[1], i)  BY <1>4
  <2>2. msgs[i] \in Message /\ i \in Nat /\ NoId \notin IdsOf(msgs[i].calls)
    BY <1>1 DEF AllNamed
  <2>3. msgs[i].role = "assistant" => msgs[i].text \/ msgs[i].calls # <<>>
    BY <1>1 DEF Alternates
  <2> HIDE DEF parts
  <2>4. QED  BY <2>1, <2>2, <2>3, BlocksAgain
<1>7. Len(parts) = L  BY <1>1, <1>4
<1> HIDE DEF parts, r
<1>8. Len(r) = L /\ \A i \in 1 .. L : r[i] = parts[i][1]
  <2>1. \A i \in 1 .. Len(parts) : Len(parts[i]) = 1  BY <1>6, <1>7
  <2>2. Len(r) = Len(parts) /\ \A i \in 1 .. Len(parts) : r[i] = parts[i][1]
    BY <1>5, <2>1, FlattenedOnes
  <2>3. QED  BY <1>7, <2>2
<1>9. DOMAIN r = 1 .. L  BY <1>5, <1>8
<1>10. \A i \in 1 .. L : Plain(r[i]) = Plain(msgs[i])  BY <1>6, <1>8
<1>11. PlainAll(r) = PlainAll(msgs)  BY <1>1, <1>9, <1>10 DEF PlainAll
<1>12. QED  BY <1>2, <1>11 DEF r

\* What a run of the repair ends with.
LEMMA RepairedList ==
    ASSUME NEW msgs \in Seq(Message)
    PROVE  LET out == Repaired(msgs).out
           IN out \in Seq(Message) /\ WellPaired(out) /\ AllNamed(out) /\ OneEach(out)
<1>1. PICK f : Repairs(f, msgs)  BY RepairRun
<1> DEFINE n == 2 * Len(msgs)
           st == f[n]
<1>2. n \in 0 .. n
  <2>1. Len(msgs) \in Nat  OBVIOUS
  <2>2. QED  BY <2>1
<1>3. st \in Layout /\ Repaired(msgs) = DropDangling(st)
  BY <1>1, <1>2 DEF Repairs, Repairing
<1> HIDE DEF st
<1>4. DropDangling(st).out \in Seq(Message)  BY <1>3, DroppedOf
<1>5. WellPaired(DropDangling(st).out) /\ AllNamed(DropDangling(st).out) /\ OneEach(DropDangling(st).out)
  BY <1>3, DroppedIsPaired
<1>6. QED  BY <1>3, <1>4, <1>5

\* What the checks of a request ask for is what the repair needs to leave it alone.
LEMMA OnceIsEnough ==
    ASSUME NEW msgs \in Seq(Message), AskedOnce(msgs), AnsweredOnce(msgs)
    PROVE  AllNamed(msgs) /\ OneEach(msgs)
<1>1. AllNamed(msgs)  BY DEF AllNamed, AskedOnce
<1>2. OneEach(msgs)  BY DEF OneEach, AnsweredOnce
<1>3. QED  BY <1>1, <1>2

-----------------------------------------------------------------------------
(* A request on its way *)

\* A request of its dialect, still to be translated.
Requested ==
    /\ protocol \in {"chat", "responses", "anthropic"}
    /\ protocol = "chat" => \E n \in Nat : request \in [1 .. n -> ChatMessages]
    /\ protocol = "responses" => request \in Seq(AnyItem)
    /\ protocol = "anthropic" => request \in Seq(AnyBlocks)

\* The lists a provider takes.
PairedLists == {msgs \in Seq(Message) : WellPaired(msgs) /\ AllNamed(msgs)}

\* The messages are messages once there are any, and paired once they are routed.
PairingInv ==
    /\ Requested
    /\ stage \in {"received", "translated", "routed", "refused"}
    /\ stage = "translated" => messages \in Seq(Message)
    /\ stage = "routed" => messages \in PairedLists

\* A request is one of its dialect.
LEMMA RequestsTyped == PairingInit => Requested
<1> SUFFICES ASSUME PairingInit  PROVE Requested
  OBVIOUS
<1>1. Longest \in Nat  BY LongestAssumption
<1>2. protocol \in {"chat", "responses", "anthropic"}  BY DEF PairingInit
<1>3. ASSUME protocol = "chat"  PROVE \E n \in Nat : request \in [1 .. n -> ChatMessages]
  <2>1. request \in UNION {[1 .. n -> ChatMessages] : n \in 1 .. Longest}
    BY <1>3 DEF PairingInit
  <2>2. QED  BY <1>1, <2>1
<1>4. ASSUME protocol = "responses"  PROVE request \in Seq(AnyItem)
  <2>1. request \in UNION {[1 .. n -> Items] : n \in 1 .. Longest}  BY <1>4 DEF PairingInit
  <2>2. PICK n \in Nat : request \in [1 .. n -> Items]  BY <1>1, <2>1
  <2>3. Items \subseteq AnyItem  BY WrittenIds, NoIdIsAnId DEF Items, AnyItem
  <2>4. request \in [1 .. n -> AnyItem]  BY <2>2, <2>3
  <2>5. QED  BY <2>4, SeqDef
<1>5. ASSUME protocol = "anthropic"  PROVE request \in Seq(AnyBlocks)
  <2>1. request \in UNION {[1 .. n -> BlockMessages] : n \in 1 .. Longest - 1}
    BY <1>5 DEF PairingInit
  <2>2. PICK n \in Nat : request \in [1 .. n -> BlockMessages]  BY <1>1, <2>1
  <2>3. BlockMessages \subseteq AnyBlocks
    <3> DEFINE some == {<<>>} \cup {<<i>> : i \in WrittenOrNot} \cup (Written \X Written)
    <3>1. some \subseteq Seq(CallId)
      <4>1. \A i \in WrittenOrNot : <<i>> \in Seq(CallId)  BY WrittenIds
      <4>2. ASSUME NEW p \in Written \X Written  PROVE p \in Seq(CallId)
        <5>1. PICK i \in Written, j \in Written : p = <<i, j>>  OBVIOUS
        <5>2. i \in CallId /\ j \in CallId  BY WrittenIds DEF WrittenOrNot
        <5>3. QED  BY <5>1, <5>2
      <4>3. <<>> \in Seq(CallId)  OBVIOUS
      <4> DEFINE ones == {<<i>> : i \in WrittenOrNot}
                 pairs == Written \X Written
      <4>4. ones \subseteq Seq(CallId)  BY <4>1
      <4>5. pairs \subseteq Seq(CallId)  BY <4>2
      <4>6. some = {<<>>} \cup ones \cup pairs  OBVIOUS
      <4> HIDE DEF some, ones, pairs
      <4>7. QED  BY <4>3, <4>4, <4>5, <4>6
    <3>2. BlockMessages = [role : {"user", "assistant"}, text : BOOLEAN, uses : some]
      BY DEF BlockMessages
    <3> HIDE DEF some
    <3>3. QED  BY <3>1, <3>2 DEF AnyBlocks
  <2>4. request \in [1 .. n -> AnyBlocks]  BY <2>2, <2>3
  <2>5. QED  BY <2>4, SeqDef
<1>6. QED  BY <1>2, <1>3, <1>4, <1>5 DEF Requested

\* Each endpoint translates its dialect to chat messages (compat/).
LEMMA TranslateTyped ==
    ASSUME Requested, Translate
    PROVE  messages' \in Seq(Message)
<1>1. CASE protocol = "chat"
  <2>1. messages' = Keyed(request)  BY <1>1 DEF Translate
  <2>2. PICK n \in Nat : request \in [1 .. n -> ChatMessages]  BY <1>1 DEF Requested
  <2>3. QED  BY <2>1, <2>2, KeyedMessages
<1>2. CASE protocol = "responses"
  <2>1. messages' = FromResponses(request) /\ request \in Seq(AnyItem)
    BY <1>2 DEF Translate, Requested
  <2>2. QED  BY <2>1, ResponsesMessages
<1>3. CASE protocol = "anthropic"
  <2>1. messages' = FromAnthropic(request) /\ request \in Seq(AnyBlocks)
    BY <1>3 DEF Translate, Requested
  <2>2. QED  BY <2>1, AnthropicMessages
<1>4. QED  BY <1>1, <1>2, <1>3 DEF Requested

\* The invariant holds of a request from the endpoint that receives it to the router.
THEOREM PairingInvariant == PairingSpec => []PairingInv
<1>1. PairingInit => PairingInv
  BY RequestsTyped DEF PairingInit, PairingInv
<1>2. PairingInv /\ [PairingNext]_pairingVars => PairingInv'
  <2> SUFFICES ASSUME PairingInv, [PairingNext]_pairingVars  PROVE PairingInv'
    OBVIOUS
  <2>1. CASE Translate
    <3>1. messages' \in Seq(Message)  BY <2>1, TranslateTyped DEF PairingInv
    <3>2. stage' \in {"translated", "refused"} /\ protocol' = protocol /\ request' = request
      BY <2>1 DEF Translate
    <3>3. Requested'  BY <3>2 DEF PairingInv, Requested
    <3>4. QED  BY <3>1, <3>2, <3>3 DEF PairingInv
  <2>2. CASE Pair
    <3> DEFINE out == Repaired(messages).out
    <3>1. messages \in Seq(Message)  BY <2>2 DEF Pair, PairingInv
    <3>2. out \in PairedLists
      <4>1. out \in Seq(Message) /\ WellPaired(out) /\ AllNamed(out)  BY <3>1, RepairedList
      <4> HIDE DEF out
      <4>2. QED  BY <4>1 DEF PairedLists
    <3>3. /\ stage' = "refused" \/ (stage' = "routed" /\ messages' = out)
          /\ protocol' = protocol /\ request' = request
      BY <2>2 DEF Pair
    <3>4. Requested'  BY <3>3 DEF PairingInv, Requested
    <3> HIDE DEF out
    <3>5. QED  BY <3>2, <3>3, <3>4 DEF PairingInv
  <2>3. CASE UNCHANGED pairingVars
    <3>1. protocol' = protocol /\ request' = request /\ stage' = stage /\ messages' = messages
      BY <2>3 DEF pairingVars
    <3>2. Requested'  BY <3>1 DEF PairingInv, Requested
    <3>3. QED  BY <3>1, <3>2 DEF PairingInv
  <2>4. QED  BY <2>1, <2>2, <2>3 DEF PairingNext
<1>3. QED  BY <1>1, <1>2, PTL DEF PairingSpec

\* Each part of RequestsPaired follows from the invariant and what the repair does to a list.
LEMMA InvMeansPaired == PairingInv => RequestsPaired
<1> SUFFICES ASSUME PairingInv  PROVE RequestsPaired
  OBVIOUS
<1>1. /\ stage = "translated" => messages \in Seq(Message)
      /\ stage = "routed" => messages \in Seq(Message) /\ WellPaired(messages) /\ AllNamed(messages)
  BY DEF PairingInv, PairedLists
<1>2. RoutedIsPaired  BY <1>1 DEF RoutedIsPaired
<1>3. PairedIsKept
  <2> SUFFICES ASSUME stage = "translated", WellPaired(messages), AskedOnce(messages),
                      AnsweredOnce(messages)
               PROVE  Repaired(messages).out = messages /\ Repaired(messages).orphans = {}
    BY DEF PairedIsKept
  <2>1. AllNamed(messages) /\ OneEach(messages)  BY <1>1, OnceIsEnough
  <2>2. QED  BY <1>1, <2>1, KeptAsItIs
<1>4. NothingLost
  <2> SUFFICES ASSUME stage = "translated", Repaired(messages).orphans = {}
               PROVE  LET out == Repaired(messages).out
                      IN /\ Len(out) = Len(messages)
                         /\ \A i \in DOMAIN messages : \E j \in DOMAIN out : out[j].key = messages[i].key
                         /\ Repaired(out).out = out /\ Repaired(out).orphans = {}
    BY DEF NothingLost
  <2> DEFINE out == Repaired(messages).out
  <2>1. /\ Len(out) = Len(messages)
        /\ \A i \in DOMAIN messages : \E j \in DOMAIN out : out[j].key = messages[i].key
    BY <1>1, NoneLost
  <2>2. out \in Seq(Message) /\ WellPaired(out) /\ AllNamed(out) /\ OneEach(out)
    BY <1>1, RepairedList
  <2> HIDE DEF out
  <2>3. Repaired(out).out = out /\ Repaired(out).orphans = {}  BY <2>2, KeptAsItIs
  <2>4. QED  BY <2>1, <2>3 DEF out
<1>5. AnswersItsCall
  <2> SUFFICES ASSUME stage = "translated", AskedOnce(messages), AnsweredOnce(messages),
                      InOrder(messages), NEW i \in DOMAIN messages, messages[i].role = "tool"
               PROVE  \E j \in DOMAIN Repaired(messages).out :
                          /\ Repaired(messages).out[j].key = messages[i].key
                          /\ Repaired(messages).out[j].answers = messages[i].answers
    BY DEF AnswersItsCall
  <2>1. QED  BY <1>1, EachAnswersItsCall
<1>6. RoundTrips
  <2> SUFFICES ASSUME stage = "routed", Alternates(messages)
               PROVE  /\ PlainAll(FromResponses(SaidBack(messages))) = PlainAll(messages)
                      /\ PlainAll(FromAnthropic(SaidBackInBlocks(messages))) = PlainAll(messages)
    BY DEF RoundTrips
  <2>1. QED  BY <1>1, ItemsRoundTrip, BlocksRoundTrip
<1>7. QED  BY <1>2, <1>3, <1>4, <1>5, <1>6 DEF RequestsPaired

\* compat/common.py, compat/responses.py, compat/anthropic.py: a routed list pairs every call
\* with a result right behind it; a list that paired is left alone; no message is lost or
\* doubled; a result answers the call it names; and what a client was shown comes back as
\* what was routed.  For every length of the request and every set of ids.
THEOREM RequestsArePaired == PairingSpec => []RequestsPaired
  BY PairingInvariant, InvMeansPaired, PTL
=============================================================================
