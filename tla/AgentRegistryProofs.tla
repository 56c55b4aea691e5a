------------------------ MODULE AgentRegistryProofs ------------------------
(***************************************************************************)
(* IInv is an inductive invariant of AgentRegistry for any number of       *)
(* users, jobs, polls, sockets and cells, and AgentRegistry implements     *)
(* JobCall.                                                                *)
(***************************************************************************)
EXTENDS AgentRegistry, FiniteSetTheorems, TLAPS

\* The number of polls a user holds is a positive number while one is held.
LEMMA HeldFinite ==
    ASSUME NEW u \in Users
    PROVE  /\ IsFiniteSet(Held(u))
           /\ Cardinality(Held(u)) \in Nat
           /\ Held(u) # {} => Cardinality(Held(u)) \in Nat \ {0}
<1>1. Held(u) \subseteq Polls  BY DEF Held
<1>2. IsFiniteSet(Held(u))  BY <1>1, ConstantsAssumption, FS_Subset
<1>3. Cardinality(Held(u)) \in Nat  BY <1>2, FS_CardinalityType
<1>4. Held(u) # {} => Cardinality(Held(u)) # 0  BY <1>2, FS_EmptySet
<1>5. QED  BY <1>2, <1>3, <1>4

\* A held poll has its user's counter above zero, so leaving never underflows.
LEMMA HeldSlot ==
    ASSUME IInv, NEW p \in Polls, poll[p] # "off"
    PROVE  caller[p] \in Users /\ pollers[caller[p]] \in Nat \ {0}
<1>1. caller[p] \in Users  BY DEF IInv, HoldInv
<1>2. p \in Held(caller[p])  BY DEF Held
<1>3. Cardinality(Held(caller[p])) \in Nat \ {0}  BY <1>1, <1>2, HeldFinite
<1>4. QED  BY <1>1, <1>3 DEF IInv, SlotsAccounted

\* Giving the slot back and dropping a job keep their variables' types.
LEMMA LeaveTypes ==
    ASSUME IInv, NEW p \in Polls, poll[p] # "off", Leave(p)
    PROVE  /\ poll' \in [Polls -> {"off", "asleep", "woken"}]
           /\ caller' \in [Polls -> Users \cup {None}]
           /\ local' \in [Polls -> Cells \cup {NoCell}]
           /\ pollers' \in [Users -> Nat]
<1>1. TypeOK  BY DEF IInv
<1>2. caller[p] \in Users /\ pollers[caller[p]] - 1 \in Nat  BY HeldSlot
<1>3. pollers' \in [Users -> Nat]  BY <1>1, <1>2 DEF Leave, TypeOK
<1>4. QED  BY <1>1, <1>3 DEF Leave, TypeOK

\* Popping a job from a deque keeps the types.
LEMMA HandOutTypes ==
    ASSUME TypeOK, NEW c \in Cells, NEW j \in Jobs, HandOut(c, j)
    PROVE  deque' \in [Cells -> SUBSET Jobs] /\ handouts' \in [Jobs -> Nat]
BY DEF HandOut, TypeOK

\* _drop_job keeps the types of the deques and of the queue table.
LEMMA DropJobTypes ==
    ASSUME TypeOK, NEW q \in [Users -> Cells \cup {NoCell}],
           NEW u \in Users, NEW j \in Jobs, DropJob(q, u, j)
    PROVE  /\ queue' \in [Users -> Cells \cup {NoCell}]
           /\ deque' \in [Cells -> SUBSET Jobs]
<1>1. PICK c \in Cells :
        /\ queue' = IF q[u] = NoCell THEN q ELSE [q EXCEPT ![u] = c]
        /\ deque' = IF q[u] = NoCell THEN deque
                    ELSE [deque EXCEPT ![c] = Contents(q[u]) \ {j}]
  BY DEF DropJob, Fresh, Free
<1>2. Contents(q[u]) \subseteq Jobs  BY DEF Contents, TypeOK
<1>3. QED  BY <1>1, <1>2 DEF TypeOK

\* The step lemmas below go through Next action by action.
LEMMA InitInv == Init => IInv
<1> SUFFICES ASSUME Init PROVE IInv  OBVIOUS
<1>1. TypeOK  BY ConstantsAssumption DEF Init, TypeOK, Control
<1>2. CallInv  BY DEF Init, CallInv
<1>3. TablesMatchCalls  BY DEF Init, TablesMatchCalls, Live
<1>4. HoldInv  BY DEF Init, HoldInv
<1>5. SlotsAccounted
  <2>1. ASSUME NEW u \in Users PROVE Held(u) = {}  BY DEF Init, Held
  <2>2. QED  BY <2>1, FS_EmptySet DEF Init, SlotsAccounted
<1>6. DequesApart  BY DEF Init, DequesApart
<1>7. NoLostWake  BY DEF Init, NoLostWake
<1>8. QueuedIsAwaited  BY DEF Init, QueuedIsAwaited, Contents
<1>9. PushedOnce  BY DEF Init, PushedOnce
<1>10. QED  BY <1>1, <1>2, <1>3, <1>4, <1>5, <1>6, <1>7, <1>8, <1>9 DEF IInv

-----------------------------------------------------------------------------

\* Types are kept by every step.
LEMMA TypeStep == IInv /\ [Next]_vars => TypeOK'
<1> SUFFICES ASSUME IInv, [Next]_vars PROVE TypeOK'  OBVIOUS
<1> USE DEF TypeOK, Control, Live, Gone, NoCell
<1>0. TypeOK  BY DEF IInv
<1>1. ASSUME NEW u \in Users, NEW j \in Jobs, Dispatch(u, j) PROVE TypeOK'
  BY <1>0, <1>1 DEF Dispatch, Signal, Bound, Fresh, Free, Contents, history
<1>2. ASSUME NEW u \in Users, NEW j \in Jobs, PostResult(u, j) PROVE TypeOK'
  BY <1>0, <1>2 DEF PostResult, SubmitResult, queues, holds, history
<1>3. ASSUME NEW u \in Users, NEW j \in Jobs, WsResult(u, j) PROVE TypeOK'
  BY <1>0, <1>3 DEF WsResult, SubmitResult, Heartbeat, Forget, Keep, holds, history
<1>4. ASSUME NEW u \in Users, NEW s \in Sockets, AttachWs(u, s) PROVE TypeOK'
  BY <1>0, <1>4 DEF AttachWs, Heartbeat, Forget, Keep, calls, holds, history
<1>5. ASSUME NEW u \in Users, NEW s \in Sockets, DetachWs(u, s) PROVE TypeOK'
  BY <1>0, <1>5 DEF DetachWs, calls, queues, holds, history
<1>6. ASSUME NEW u \in Users, WsFrame(u) PROVE TypeOK'
  BY <1>0, <1>6 DEF WsFrame, Heartbeat, Forget, Keep, calls, holds, history
<1>7. ASSUME NEW u \in Users, PollFinds(u) PROVE TypeOK'
  BY <1>0, <1>7 DEF PollFinds, Heartbeat, Forget, Keep, HandOut, Leftmost,
                    Contents, calls, holds
<1>8. ASSUME NEW u \in Users, NEW p \in Polls, PollSleeps(u, p) PROVE TypeOK'
  BY <1>0, <1>8 DEF PollSleeps, Heartbeat, Keep, Bound, Fresh, Free, calls, history
<1>9. ASSUME NEW p \in Polls, PollWakes(p) PROVE TypeOK'
  <2>1. caller[p] \in Users /\ local[p] \in Cells  BY <1>9 DEF IInv, HoldInv, PollWakes
  <2>2. CASE Leave(p)
    <3>1. PICK j \in Jobs : HandOut(local[p], j)
      BY <1>0, <1>9, <2>1, <2>2 DEF PollWakes, Leave, Leftmost, Contents
    <3>2. QED
      BY <1>0, <1>9, <2>1, <2>2, <3>1, LeaveTypes, HandOutTypes DEF PollWakes, calls
  <2>3. CASE ~Leave(p)
    BY <1>0, <1>9, <2>1, <2>3 DEF PollWakes, calls
  <2>4. QED  BY <2>2, <2>3
<1>10. ASSUME NEW p \in Polls, PollTimesOut(p) PROVE TypeOK'
  <2>1. local[p] \in Cells  BY <1>10 DEF IInv, HoldInv, PollTimesOut
  <2>2. deque' \in [Cells -> SUBSET Jobs] /\ handouts' \in [Jobs -> Nat]
    BY <1>0, <1>10, <2>1, HandOutTypes DEF PollTimesOut, Leftmost, Contents
  <2>3. QED  BY <1>0, <1>10, <2>2, LeaveTypes DEF PollTimesOut, calls
<1>11. ASSUME NEW p \in Polls, PollAborts(p) PROVE TypeOK'
  BY <1>0, <1>11, LeaveTypes DEF PollAborts, calls, queues, history
<1>12. ASSUME NEW j \in Jobs, NEW s \in Sockets, PushOk(j, s) PROVE TypeOK'
  <2>1. owner[j] \in Users  BY <1>12 DEF PushOk, IInv, CallInv
  <2>2. PICK gone : /\ Heartbeat(owner[j], gone)
                    /\ event' = Keep(gone, event, "absent")
                    /\ DropJob(Keep(gone, queue, NoCell), owner[j], j)
    BY <1>12 DEF PushOk
  <2>3. Keep(gone, queue, NoCell) \in [Users -> Cells \cup {NoCell}]
    BY <1>0 DEF Keep
  <2>4. /\ queue' \in [Users -> Cells \cup {NoCell}]
        /\ deque' \in [Cells -> SUBSET Jobs]
    BY <1>0, <2>1, <2>2, <2>3, DropJobTypes
  <2>5. QED  BY <1>0, <1>12, <2>1, <2>2, <2>4 DEF PushOk, Heartbeat, Keep, holds
<1>13. ASSUME NEW j \in Jobs, NEW s \in Sockets, PushFail(j, s) PROVE TypeOK'
  BY <1>0, <1>13 DEF PushFail, queues, holds, history
<1>14. ASSUME NEW j \in Jobs, CancelPush(j) PROVE TypeOK'
  BY <1>0, <1>14 DEF CancelPush, queues, holds, history
<1>15. ASSUME NEW j \in Jobs, NEW how \in Gone, pc[j] = "waiting", Finish(j, how)
       PROVE  TypeOK'
  <2>1. owner[j] \in Users  BY <1>15 DEF IInv, CallInv
  <2>2. /\ queue' \in [Users -> Cells \cup {NoCell}]
        /\ deque' \in [Cells -> SUBSET Jobs]
    BY <1>0, <1>15, <2>1, DropJobTypes DEF Finish
  <2>3. QED  BY <1>0, <1>15, <2>2 DEF Finish, holds, history
<1>16. ASSUME NEW j \in Jobs, Expire(j) PROVE TypeOK'
  BY <1>0, <1>16 DEF Expire, queues, holds, history
<1>17. CASE UNCHANGED vars
  BY <1>0, <1>17 DEF vars, calls, queues, holds, history
<1>18. QED
  BY <1>1, <1>2, <1>3, <1>4, <1>5, <1>6, <1>7, <1>8, <1>9, <1>10, <1>11, <1>12,
     <1>13, <1>14, <1>15, <1>16, <1>17
     DEF Next, Sending, Return, Timeout, CancelWait
-----------------------------------------------------------------------------
(* The dispatch tables: what a job's entry says about its coroutine *)

CallPart == CallInv /\ TablesMatchCalls /\ PushedOnce

\* The tables, futures and pushes of calls stay consistent in every step.
LEMMA CallStep == IInv /\ [Next]_vars => CallPart'
<1> SUFFICES ASSUME IInv, [Next]_vars PROVE CallPart'  OBVIOUS
<1> USE DEF CallPart, CallInv, TablesMatchCalls, PushedOnce, TypeOK, Control,
            Live, Gone
<1>0. TypeOK /\ CallPart  BY DEF IInv
\* Steps that leave every dispatch coroutine and its entry alone.
<1>1. ASSUME UNCHANGED calls, UNCHANGED pushed PROVE CallPart'
  BY <1>0, <1>1 DEF calls
<1>2. ASSUME NEW u \in Users, NEW j \in Jobs, Dispatch(u, j) PROVE CallPart'
  BY <1>0, <1>2, ConstantsAssumption DEF Dispatch, history
<1>3. ASSUME NEW u \in Users, NEW j \in Jobs, SubmitResult(u, j),
             UNCHANGED <<pc, owner, pushed>>
      PROVE  CallPart'
  BY <1>0, <1>3 DEF SubmitResult
<1>4. ASSUME NEW j \in Jobs, NEW s \in Sockets, PushOk(j, s) PROVE CallPart'
  BY <1>0, <1>4 DEF PushOk
<1>5. ASSUME NEW j \in Jobs, NEW s \in Sockets, PushFail(j, s) PROVE CallPart'
  BY <1>0, <1>5 DEF PushFail, history
<1>6. ASSUME NEW j \in Jobs, CancelPush(j) PROVE CallPart'
  BY <1>0, <1>6 DEF CancelPush, history
<1>7. ASSUME NEW j \in Jobs, NEW how \in Gone, pc[j] = "waiting", Finish(j, how)
      PROVE  CallPart'
  BY <1>0, <1>7 DEF Finish, history
<1>8. ASSUME NEW j \in Jobs, Expire(j) PROVE CallPart'
  BY <1>0, <1>8 DEF Expire, history
<1>9. QED
  BY <1>1, <1>2, <1>3, <1>4, <1>5, <1>6, <1>7, <1>8
     DEF Next, vars, history, Sending, Return, Timeout, CancelWait, PostResult,
         WsResult, AttachWs, DetachWs, WsFrame, PollFinds, PollSleeps, PollWakes,
         PollTimesOut, PollAborts

-----------------------------------------------------------------------------
(* The poll slots *)

\* A step that starts and ends no poll keeps the count right.
LEMMA SlotsKept ==
    ASSUME IInv, UNCHANGED <<caller, pollers>>,
           \A p \in Polls : poll'[p] = "off" <=> poll[p] = "off"
    PROVE  SlotsAccounted'
<1>1. ASSUME NEW u \in Users PROVE Held(u)' = Held(u)  BY DEF Held
<1>2. QED  BY <1>1 DEF IInv, SlotsAccounted

\* _poll_release lowers the counter by the one poll that leaves.
LEMMA SlotReturned ==
    ASSUME IInv, NEW p \in Polls, poll[p] # "off", Leave(p)
    PROVE  SlotsAccounted'
<1>0. TypeOK /\ SlotsAccounted  BY DEF IInv
<1>1. PICK u \in Users : u = caller[p]  BY HeldSlot
<1>2. p \in Held(u) /\ Held(u)' = Held(u) \ {p}
  BY <1>0, <1>1, ConstantsAssumption DEF Held, Leave, TypeOK
<1>3. Cardinality(Held(u)') = Cardinality(Held(u)) - 1
  BY <1>1, <1>2, HeldFinite, FS_RemoveElement
<1>4. ASSUME NEW v \in Users, v # u
      PROVE  Held(v)' = Held(v) /\ pollers'[v] = pollers[v]
  BY <1>0, <1>1, <1>4, ConstantsAssumption DEF Held, Leave, TypeOK
<1>5. pollers'[u] = pollers[u] - 1  BY <1>0, <1>1 DEF Leave, TypeOK
<1>6. ASSUME NEW v \in Users PROVE pollers'[v] = Cardinality(Held(v)')
  <2>1. CASE v = u  BY <1>0, <1>1, <1>3, <1>5, <2>1 DEF SlotsAccounted
  <2>2. CASE v # u  BY <1>0, <1>4, <2>2 DEF SlotsAccounted
  <2>3. QED  BY <2>1, <2>2
<1>7. QED  BY <1>6 DEF SlotsAccounted

\* _poll_hold raises the counter by the one poll that enters.
LEMMA SlotTaken ==
    ASSUME IInv, NEW u \in Users, NEW p \in Polls, PollSleeps(u, p)
    PROVE  SlotsAccounted'
<1>0. TypeOK /\ SlotsAccounted  BY DEF IInv
<1>1. p \notin Held(u) /\ Held(u)' = Held(u) \cup {p}
  BY <1>0 DEF Held, PollSleeps, TypeOK
<1>2. Cardinality(Held(u)') = Cardinality(Held(u)) + 1
  BY <1>1, HeldFinite, FS_AddElement
<1>3. ASSUME NEW v \in Users, v # u
      PROVE  Held(v)' = Held(v) /\ pollers'[v] = pollers[v]
  BY <1>0, <1>3 DEF Held, PollSleeps, TypeOK
<1>4. pollers'[u] = pollers[u] + 1  BY <1>0 DEF PollSleeps, TypeOK
<1>5. ASSUME NEW v \in Users PROVE pollers'[v] = Cardinality(Held(v)')
  <2>1. CASE v = u  BY <1>0, <1>2, <1>4, <2>1 DEF SlotsAccounted
  <2>2. CASE v # u  BY <1>0, <1>3, <2>2 DEF SlotsAccounted
  <2>3. QED  BY <2>1, <2>2
<1>6. QED  BY <1>5 DEF SlotsAccounted

\* Every step keeps the counters equal to the polls they count.
LEMMA SlotStep == IInv /\ [Next]_vars => SlotsAccounted'
<1> SUFFICES ASSUME IInv, [Next]_vars PROVE SlotsAccounted'  OBVIOUS
<1>1. ASSUME UNCHANGED holds PROVE SlotsAccounted'  BY <1>1, SlotsKept DEF holds
<1>2. ASSUME NEW u \in Users, NEW j \in Jobs, Dispatch(u, j) PROVE SlotsAccounted'
  BY <1>2, SlotsKept DEF Dispatch, Signal
<1>3. ASSUME NEW p \in Polls, PollWakes(p) PROVE SlotsAccounted'
  <2>1. CASE Leave(p)  BY <1>3, <2>1, SlotReturned DEF PollWakes
  <2>2. CASE ~Leave(p)
    <3>1. \A q \in Polls : poll'[q] = "off" <=> poll[q] = "off"
      BY <1>3, <2>2 DEF PollWakes, IInv, TypeOK
    <3>2. QED  BY <1>3, <2>2, <3>1, SlotsKept DEF PollWakes
  <2>3. QED  BY <2>1, <2>2
<1>4. ASSUME NEW p \in Polls, PollTimesOut(p) \/ PollAborts(p)
      PROVE  SlotsAccounted'
  BY <1>4, SlotReturned DEF PollTimesOut, PollAborts
<1>5. QED
  BY <1>1, <1>2, <1>3, <1>4, SlotTaken
     DEF Next, vars, holds, Sending, Return, Timeout, CancelWait, PostResult,
         WsResult, AttachWs, DetachWs, WsFrame, PollFinds, PushOk, PushFail,
         CancelPush, Finish, Expire
-----------------------------------------------------------------------------
(* Deques, events and sleeping polls *)

WaitPart == HoldInv /\ DequesApart /\ NoLostWake /\ QueuedIsAwaited

\* A sweep only touches users without a held poll, and drops empty deques.
LEMMA SweptAreIdle ==
    ASSUME IInv, NEW u \in Users, NEW gone \in SUBSET Sweepable(u),
           NEW p \in Polls, poll[p] # "off"
    PROVE  caller[p] \notin gone
<1>1. caller[p] \in Users /\ pollers[caller[p]] \in Nat \ {0}  BY HeldSlot
<1>2. ASSUME caller[p] \in gone PROVE FALSE
  BY <1>1, <1>2 DEF Sweepable, Idle
<1>3. QED  BY <1>2

\* A sweep, and at most some jobs taken out of deques.
LEMMA SweepKeeps ==
    ASSUME IInv, NEW u \in Users, NEW gone \in SUBSET Sweepable(u),
           Forget(gone), UNCHANGED <<holds, pc, owner>>,
           \A c \in Cells : deque'[c] \subseteq deque[c]
    PROVE  WaitPart'
<1>0. TypeOK /\ WaitPart  BY DEF IInv, WaitPart
<1>1. \A p \in Polls : poll[p] # "off" => caller[p] \notin gone
  BY SweptAreIdle
<1>2. \A v \in Users : queue'[v] = queue[v] \/ queue'[v] = NoCell
  BY <1>0 DEF Forget, Keep
<1>3. HoldInv'
  BY <1>0, <1>1 DEF WaitPart, HoldInv, Forget, Keep, holds, TypeOK
<1>4. DequesApart'  BY <1>0, <1>2 DEF WaitPart, DequesApart, holds
<1>5. NoLostWake'  BY <1>0 DEF WaitPart, NoLostWake, Contents, holds, TypeOK
<1>6. QueuedIsAwaited'
  <2>1. SUFFICES ASSUME NEW v \in Users, NEW k \in Contents(queue[v])'
                 PROVE  owner'[k] = v /\ pc'[k] \in Live \cup {"cutoff"}
    BY DEF QueuedIsAwaited
  <2>2. k \in Contents(queue[v])
    BY <1>0, <1>2, <2>1 DEF Contents, TypeOK
  <2>3. QED  BY <1>0, <2>2 DEF WaitPart, QueuedIsAwaited
<1>7. QED  BY <1>3, <1>4, <1>5, <1>6 DEF WaitPart

\* A step of one coroutine that touches no deque, event or poll.
LEMMA CoroutineKeeps ==
    ASSUME IInv, UNCHANGED <<queues, event, holds, owner>>,
           \A j \in Jobs : pc[j] \in Live \cup {"cutoff"}
                             => pc'[j] \in Live \cup {"cutoff"}
    PROVE  WaitPart'
<1>0. TypeOK /\ WaitPart  BY DEF IInv, WaitPart
<1>1. HoldInv' /\ DequesApart' /\ NoLostWake'
  BY <1>0 DEF WaitPart, HoldInv, DequesApart, NoLostWake, Contents, holds, queues
<1>2. QueuedIsAwaited'
  <2>1. SUFFICES ASSUME NEW v \in Users, NEW k \in Contents(queue[v])
                 PROVE  owner'[k] = v /\ pc'[k] \in Live \cup {"cutoff"}
    BY DEF QueuedIsAwaited, Contents, queues
  <2>2. k \in Jobs  BY <1>0 DEF Contents, TypeOK
  <2>3. QED  BY <1>0, <2>1, <2>2 DEF WaitPart, QueuedIsAwaited
<1>3. QED  BY <1>1, <1>2 DEF WaitPart

\* A poll that ends, with or without a job, takes nothing from the others.
LEMMA LeaveKeeps ==
    ASSUME IInv, NEW p \in Polls, poll[p] # "off", Leave(p),
           UNCHANGED <<queue, pc, owner>>,
           \/ UNCHANGED event
           \/ event' = [event EXCEPT ![caller[p]] = "clear"],
           \A c \in Cells : deque'[c] \subseteq deque[c]
    PROVE  WaitPart'
<1>0. TypeOK /\ WaitPart  BY DEF IInv, WaitPart
<1>1. HoldInv'
  <2>1. ASSUME NEW v \in Users, event[v] # "absent" PROVE event'[v] # "absent"
    BY <1>0, <2>1 DEF TypeOK
  <2>2. QED  BY <1>0, <2>1 DEF WaitPart, HoldInv, Leave, TypeOK
<1>2. DequesApart'
  BY <1>0 DEF WaitPart, DequesApart, Leave, TypeOK, NoCell, Cells
<1>3. NoLostWake'
  BY <1>0 DEF WaitPart, NoLostWake, Contents, Leave, TypeOK
<1>4. QueuedIsAwaited'
  BY <1>0 DEF WaitPart, QueuedIsAwaited, Contents, TypeOK
<1>5. QED  BY <1>1, <1>2, <1>3, <1>4 DEF WaitPart

\* Dropping a job of its owner leaves every other queued job where it was.
LEMMA DropKeeps ==
    ASSUME IInv, NEW j \in Jobs, NEW gone, owner[j] \in Users,
           gone = {} \/ gone \in SUBSET Sweepable(owner[j]),
           event' = Keep(gone, event, "absent"),
           DropJob(Keep(gone, queue, NoCell), owner[j], j),
           UNCHANGED <<holds, owner>>,
           pc' \in [Jobs -> Control], \A k \in Jobs \ {j} : pc'[k] = pc[k]
    PROVE  WaitPart'
<1>0. TypeOK /\ WaitPart  BY DEF IInv, WaitPart
<1>1. \A p \in Polls : poll[p] # "off" => caller[p] \notin gone
  BY SweptAreIdle
<1> DEFINE q == Keep(gone, queue, NoCell)
<1>2. q \in [Users -> Cells \cup {NoCell}]
      /\ \A v \in Users : q[v] = queue[v] \/ q[v] = NoCell
  BY <1>0 DEF Keep, TypeOK
<1> HIDE DEF q
<1>q. DropJob(q, owner[j], j)  BY DEF q
<1>3. HoldInv'
  BY <1>0, <1>1 DEF WaitPart, HoldInv, Keep, holds, TypeOK
<1>4. CASE q[owner[j]] = NoCell
  <2>1. queue' = q /\ deque' = deque  BY <1>q, <1>4 DEF DropJob
  <2>2. DequesApart'  BY <1>0, <1>2, <2>1 DEF WaitPart, DequesApart, holds
  <2>3. NoLostWake'  BY <1>0, <2>1 DEF WaitPart, NoLostWake, Contents, holds
  <2>4. QueuedIsAwaited'
    <3>1. SUFFICES ASSUME NEW u \in Users, NEW k \in Contents(queue[u])'
                   PROVE  owner'[k] = u /\ pc'[k] \in Live \cup {"cutoff"}
      BY DEF QueuedIsAwaited
    <3>2. q[u] = queue[u] /\ k \in Contents(queue[u]) /\ k \in Jobs
      BY <1>0, <1>2, <2>1, <3>1 DEF Contents, TypeOK, NoCell
    <3>3. owner[k] = u /\ pc[k] \in Live \cup {"cutoff"}
      BY <1>0, <3>2 DEF WaitPart, QueuedIsAwaited
    <3>4. k # j  BY <1>4, <3>2, <3>3 DEF Contents, NoCell
    <3>5. QED  BY <3>2, <3>3, <3>4
  <2>5. QED  BY <1>3, <2>2, <2>3, <2>4 DEF WaitPart
<1>5. CASE q[owner[j]] # NoCell
  <2>1. PICK c \in Fresh :
          /\ queue' = [q EXCEPT ![owner[j]] = c]
          /\ deque' = [deque EXCEPT ![c] = Contents(q[owner[j]]) \ {j}]
    BY <1>q, <1>5 DEF DropJob
  <2>2. c \in Cells /\ c # NoCell
        /\ (\A v \in Users : queue[v] # c) /\ \A p \in Polls : local[p] # c
    BY <2>1, ConstantsAssumption DEF Fresh, Free, Cells, NoCell
  <2>3. DequesApart'
    BY <1>0, <1>2, <2>1, <2>2 DEF WaitPart, DequesApart, holds
  <2>4. NoLostWake'
    BY <1>0, <2>1, <2>2 DEF WaitPart, NoLostWake, Contents, holds, TypeOK
  <2>5. QueuedIsAwaited'
    <3>1. SUFFICES ASSUME NEW u \in Users, NEW k \in Contents(queue[u])'
                   PROVE  owner'[k] = u /\ pc'[k] \in Live \cup {"cutoff"}
      BY DEF QueuedIsAwaited
    <3>2. k \in Contents(queue[u]) /\ (u = owner[j] => k # j) /\ k \in Jobs
      <4>1. CASE u = owner[j]
        BY <1>0, <1>2, <2>1, <2>2, <3>1, <4>1 DEF Contents, TypeOK, NoCell
      <4>2. CASE u # owner[j]
        BY <1>0, <1>2, <2>1, <2>2, <3>1, <4>2 DEF Contents, TypeOK, NoCell
      <4>3. QED  BY <4>1, <4>2
    <3>3. owner[k] = u /\ pc[k] \in Live \cup {"cutoff"}
      BY <1>0, <3>2 DEF WaitPart, QueuedIsAwaited
    <3>4. QED  BY <3>2, <3>3
  <2>6. QED  BY <1>3, <2>3, <2>4, <2>5 DEF WaitPart
<1>6. QED  BY <1>4, <1>5

\* Handing a job out only shrinks deques.
LEMMA HandOutShrinks ==
    ASSUME TypeOK, NEW c \in Cells, NEW j, HandOut(c, j)
    PROVE  \A d \in Cells : deque'[d] \subseteq deque[d]
BY DEF HandOut, TypeOK

\* dispatch appends to the user's deque and wakes the polls that hold it.
LEMMA DispatchKeeps ==
    ASSUME IInv, TypeOK', NEW u \in Users, NEW j \in Jobs, Dispatch(u, j)
    PROVE  WaitPart'
<1>0. TypeOK /\ WaitPart  BY DEF IInv, WaitPart
<1>1. PICK c \in Bound(u) :
        /\ queue' = [queue EXCEPT ![u] = c]
        /\ deque' = [deque EXCEPT ![c] = Contents(queue[u]) \cup {j}]
  BY DEF Dispatch
<1>2. /\ c \in Cells /\ c # NoCell
      /\ \A v \in Users : queue[v] = c => v = u
      /\ \A p \in Polls : local[p] = c => caller[p] = u /\ queue[u] = c
  BY <1>0, <1>1 DEF WaitPart, DequesApart, Bound, Fresh, Free, TypeOK, Cells, NoCell
<1>3. HoldInv'
  BY <1>0 DEF WaitPart, HoldInv, Dispatch, Signal, TypeOK
<1>4. DequesApart'
  BY <1>0, <1>1, <1>2 DEF WaitPart, DequesApart, Dispatch, TypeOK
<1>5. NoLostWake'
  <2>1. SUFFICES ASSUME NEW p \in Polls, poll'[p] = "asleep"
                 PROVE  Contents(local[p])' = {}
    BY DEF NoLostWake
  <2>2. poll[p] = "asleep" /\ caller[p] # u
    BY <1>0, <2>1 DEF WaitPart, HoldInv, Dispatch, Signal, TypeOK
  <2>3. local'[p] = local[p] /\ local[p] # c  BY <1>2, <2>2 DEF Dispatch
  <2>4. Contents(local[p]) = {}  BY <1>0, <2>2 DEF WaitPart, NoLostWake
  <2>5. QED  BY <1>0, <1>1, <2>3, <2>4 DEF Contents, TypeOK
<1>6. QueuedIsAwaited'
  <2>1. SUFFICES ASSUME NEW v \in Users, NEW k \in Contents(queue[v])'
                 PROVE  owner'[k] = v /\ pc'[k] \in Live \cup {"cutoff"}
    BY DEF QueuedIsAwaited
  <2>2. (k = j /\ v = u) \/ k \in Contents(queue[v])
    <3>1. CASE v = u  BY <1>0, <1>1, <1>2, <2>1, <3>1 DEF Contents, TypeOK
    <3>2. CASE v # u  BY <1>0, <1>1, <1>2, <2>1, <3>2 DEF Contents, TypeOK
    <3>3. QED  BY <3>1, <3>2
  <2>3. CASE k = j /\ v = u
    BY <1>0, <2>3 DEF Dispatch, TypeOK, Live
  <2>4. CASE k \in Contents(queue[v])
    <3>1. owner[k] = v /\ pc[k] \in Live \cup {"cutoff"} /\ k \in Jobs
      BY <1>0, <2>4 DEF WaitPart, QueuedIsAwaited, Contents, TypeOK
    <3>2. k # j  BY <3>1 DEF Dispatch, Live
    <3>3. QED  BY <1>0, <3>1, <3>2 DEF Dispatch, TypeOK
  <2>5. QED  BY <2>2, <2>3, <2>4
<1>7. QED  BY <1>3, <1>4, <1>5, <1>6 DEF WaitPart

\* A poll goes to sleep beside an empty deque, with its user's event created.
LEMMA SleepKeeps ==
    ASSUME IInv, NEW u \in Users, NEW p \in Polls, PollSleeps(u, p)
    PROVE  WaitPart'
<1>0. TypeOK /\ WaitPart  BY DEF IInv, WaitPart
<1>1. PICK gone \in SUBSET Sweepable(u), c \in Bound(u) :
        /\ queue' = [Keep(gone, queue, NoCell) EXCEPT ![u] = c]
        /\ event' = [Keep(gone, event, "absent") EXCEPT
                       ![u] = IF @ = "set" THEN "set" ELSE "clear"]
        /\ deque' = [deque EXCEPT ![c] = {}]
        /\ local' = [local EXCEPT ![p] = c]
  BY DEF PollSleeps
<1>2. /\ c \in Cells /\ c # NoCell
      /\ \A v \in Users : queue[v] = c => v = u
      /\ \A r \in Polls : local[r] = c => caller[r] = u
  BY <1>0, <1>1 DEF WaitPart, DequesApart, Bound, Fresh, Free, TypeOK, Cells, NoCell
<1>3. \A r \in Polls : poll[r] # "off" => caller[r] \notin gone
  BY <1>1, SweptAreIdle
<1>4. \A v \in Users : v # u => queue'[v] \in {queue[v], NoCell}
  BY <1>0, <1>1 DEF Keep, TypeOK
<1>5. queue'[u] = c  BY <1>0, <1>1 DEF Keep, TypeOK
<1>6. \A v \in Users : /\ event'[u] # "absent"
                       /\ v \notin gone /\ event[v] # "absent" => event'[v] # "absent"
  BY <1>0, <1>1 DEF Keep, TypeOK
<1>7. HoldInv'
  BY <1>0, <1>1, <1>2, <1>3, <1>6 DEF WaitPart, HoldInv, PollSleeps, TypeOK
<1>8. DequesApart'
  <2>1. ASSUME NEW v \in Users, queue'[v] # NoCell
        PROVE  /\ \A w \in Users : queue'[w] = queue'[v] => w = v
               /\ \A r \in Polls : local'[r] = queue'[v] => caller'[r] = v
    <3>1. CASE v = u
      BY <1>0, <1>1, <1>2, <1>4, <1>5, <3>1 DEF PollSleeps, TypeOK
    <3>2. CASE v # u
      <4>1. queue'[v] = queue[v] /\ queue[v] # c  BY <1>2, <1>4, <2>1, <3>2
      <4>2. QED
        BY <1>0, <1>1, <1>4, <1>5, <2>1, <3>2, <4>1
           DEF WaitPart, DequesApart, PollSleeps, TypeOK
    <3>3. QED  BY <3>1, <3>2
  <2>2. QED  BY <2>1 DEF DequesApart
<1>9. NoLostWake'
  BY <1>0, <1>1, <1>2 DEF WaitPart, NoLostWake, Contents, PollSleeps, TypeOK
<1>10. QueuedIsAwaited'
  <2>1. SUFFICES ASSUME NEW v \in Users, NEW k \in Contents(queue[v])'
                 PROVE  owner'[k] = v /\ pc'[k] \in Live \cup {"cutoff"}
    BY DEF QueuedIsAwaited
  <2>2. v # u  BY <1>0, <1>1, <1>2, <1>5, <2>1 DEF Contents, TypeOK
  <2>3. k \in Contents(queue[v])
    BY <1>0, <1>1, <1>2, <1>4, <2>1, <2>2 DEF Contents, TypeOK
  <2>4. QED
    BY <1>0, <2>3 DEF WaitPart, QueuedIsAwaited, PollSleeps, calls
<1>11. QED  BY <1>7, <1>8, <1>9, <1>10 DEF WaitPart

\* Every step keeps deques apart and wakes whoever sleeps beside a job.
LEMMA WaitStep == IInv /\ [Next]_vars => WaitPart'
<1> SUFFICES ASSUME IInv, [Next]_vars PROVE WaitPart'  OBVIOUS
<1>0. TypeOK /\ CallInv /\ WaitPart  BY DEF IInv, WaitPart
<1>t. TypeOK'  BY TypeStep
<1>1. ASSUME NEW u \in Users, NEW j \in Jobs, PostResult(u, j) PROVE WaitPart'
  BY <1>1, CoroutineKeeps DEF PostResult
<1>2. ASSUME NEW u \in Users, NEW j \in Jobs, WsResult(u, j) PROVE WaitPart'
  BY <1>2, SweepKeeps DEF WsResult
<1>3. ASSUME NEW u \in Users, NEW s \in Sockets, AttachWs(u, s) PROVE WaitPart'
  BY <1>3, SweepKeeps DEF AttachWs, calls
<1>4. ASSUME NEW u \in Users, NEW s \in Sockets, DetachWs(u, s) PROVE WaitPart'
  BY <1>4, CoroutineKeeps DEF DetachWs, calls
<1>5. ASSUME NEW u \in Users, WsFrame(u) PROVE WaitPart'
  BY <1>5, SweepKeeps DEF WsFrame, calls
<1>6. ASSUME NEW u \in Users, PollFinds(u) PROVE WaitPart'
  <2>1. queue[u] \in Cells
    BY <1>0, <1>6 DEF PollFinds, Leftmost, Contents, TypeOK
  <2>2. QED
    BY <1>0, <1>6, <2>1, SweepKeeps, HandOutShrinks DEF PollFinds, calls
<1>7. ASSUME NEW p \in Polls, PollWakes(p) PROVE WaitPart'
  <2>1. local[p] \in Cells /\ caller[p] \in Users
    BY <1>0, <1>7 DEF WaitPart, HoldInv, PollWakes
  <2>2. CASE Leave(p)
    <3>1. \A c \in Cells : deque'[c] \subseteq deque[c]
      BY <1>0, <1>7, <2>1, HandOutShrinks DEF PollWakes
    <3>2. QED  BY <1>7, <2>2, <3>1, LeaveKeeps DEF PollWakes, calls
  <2>3. CASE ~Leave(p)
    <3>1. /\ Contents(local[p]) = {}
          /\ poll' = [poll EXCEPT ![p] = "asleep"]
          /\ event' = [event EXCEPT ![caller[p]] = "clear"]
          /\ UNCHANGED <<queues, caller, local, pc, owner>>
      BY <1>7, <2>3 DEF PollWakes, calls, queues
    <3>2. HoldInv'
      BY <1>0, <1>7, <2>1, <3>1 DEF WaitPart, HoldInv, PollWakes, TypeOK
    <3>3. DequesApart'  BY <1>0, <3>1 DEF WaitPart, DequesApart, queues
    <3>4. NoLostWake'
      BY <1>0, <3>1 DEF WaitPart, NoLostWake, Contents, TypeOK, queues
    <3>5. QueuedIsAwaited'
      BY <1>0, <3>1 DEF WaitPart, QueuedIsAwaited, Contents, queues
    <3>6. QED  BY <3>2, <3>3, <3>4, <3>5 DEF WaitPart
  <2>4. QED  BY <2>2, <2>3
<1>8. ASSUME NEW p \in Polls, PollTimesOut(p) PROVE WaitPart'
  <2>1. local[p] \in Cells
    BY <1>0, <1>8 DEF WaitPart, HoldInv, PollTimesOut
  <2>2. \A c \in Cells : deque'[c] \subseteq deque[c]
    BY <1>0, <1>8, <2>1, HandOutShrinks DEF PollTimesOut
  <2>3. QED  BY <1>8, <2>2, LeaveKeeps DEF PollTimesOut, calls
<1>9. ASSUME NEW p \in Polls, PollAborts(p) PROVE WaitPart'
  BY <1>9, LeaveKeeps DEF PollAborts, calls, queues
<1>10. ASSUME NEW j \in Jobs, NEW s \in Sockets, PushOk(j, s) PROVE WaitPart'
  <2>1. owner[j] \in Users  BY <1>0, <1>10 DEF PushOk, CallInv
  <2>2. PICK gone \in SUBSET Sweepable(owner[j]) :
          /\ event' = Keep(gone, event, "absent")
          /\ DropJob(Keep(gone, queue, NoCell), owner[j], j)
    BY <1>10 DEF PushOk
  <2>3. /\ pc' \in [Jobs -> Control]
        /\ \A k \in Jobs \ {j} : pc'[k] = pc[k]
        /\ UNCHANGED <<holds, owner>>
    BY <1>0, <1>t, <1>10 DEF PushOk, TypeOK
  <2>4. QED  BY <2>1, <2>2, <2>3, DropKeeps
<1>11. ASSUME NEW j \in Jobs, NEW s \in Sockets, PushFail(j, s) PROVE WaitPart'
  BY <1>0, <1>11, CoroutineKeeps DEF PushFail, Live, TypeOK
<1>12. ASSUME NEW j \in Jobs, CancelPush(j) PROVE WaitPart'
  BY <1>0, <1>12, CoroutineKeeps DEF CancelPush, Live, TypeOK
<1>13. ASSUME NEW j \in Jobs, NEW how \in Gone, pc[j] = "waiting", Finish(j, how)
       PROVE  WaitPart'
  <2>1. owner[j] \in Users  BY <1>0, <1>13 DEF CallInv
  <2>2. Keep({}, queue, NoCell) = queue /\ Keep({}, event, "absent") = event
    BY <1>0 DEF Keep, TypeOK
  <2>3. /\ pc' \in [Jobs -> Control]
        /\ \A k \in Jobs \ {j} : pc'[k] = pc[k]
        /\ UNCHANGED <<holds, owner, event>>
    BY <1>0, <1>t, <1>13 DEF Finish, TypeOK
  <2>4. DropJob(Keep({}, queue, NoCell), owner[j], j)
    BY <1>13, <2>2 DEF Finish
  <2>5. QED  BY <2>1, <2>2, <2>3, <2>4, DropKeeps
<1>14. ASSUME NEW j \in Jobs, Expire(j) PROVE WaitPart'
  BY <1>14, CoroutineKeeps DEF Expire
<1>15. CASE UNCHANGED vars
  BY <1>15, CoroutineKeeps DEF vars, calls
<1>16. QED
  BY <1>t, <1>1, <1>2, <1>3, <1>4, <1>5, <1>6, <1>7, <1>8, <1>9, <1>10, <1>11,
     <1>12, <1>13, <1>14, <1>15, DispatchKeeps, SleepKeeps
     DEF Next, Sending, Return, Timeout, CancelWait, Gone

-----------------------------------------------------------------------------
(* The theorems *)

\* IInv holds in every reachable state, for all values of the constants: the
\* tables, deques, events and slots stay consistent under every interleaving.
THEOREM Invariance == Spec => []IInv
<1>1. IInv /\ [Next]_vars => IInv'
  BY TypeStep, CallStep, SlotStep, WaitStep DEF IInv, CallPart, WaitPart
<1>2. QED  BY InitInv, <1>1, PTL DEF Spec

\* The variables keep their types; the slot counter never goes negative.
THEOREM TypeCorrect == Spec => []TypeOK
<1>1. IInv => TypeOK  BY DEF IInv
<1>2. QED  BY Invariance, <1>1, PTL

\* A poll slot is never leaked or given back twice, whatever ends the poll.
THEOREM SlotsNeverLeak == Spec => []SlotsAccounted
<1>1. IInv => SlotsAccounted  BY DEF IInv
<1>2. QED  BY Invariance, <1>1, PTL

\* "No wake is ever lost", also across sweeps and replaced deques.
THEOREM WakesAreKept == Spec => []NoLostWake
<1>1. IInv => NoLostWake  BY DEF IInv
<1>2. QED  BY Invariance, <1>1, PTL

\* Only a dispatch cancelled inside push_ws leaves its job in the queue.
THEOREM QueueIsAwaited == Spec => []QueuedIsAwaited
<1>1. IInv => QueuedIsAwaited  BY DEF IInv
<1>2. QED  BY Invariance, <1>1, PTL

\* The future and job tables hold exactly the calls that are still open.
THEOREM TablesAreExact == Spec => []TablesMatchCalls
<1>1. IInv => TablesMatchCalls  BY DEF IInv
<1>2. QED  BY Invariance, <1>1, PTL

\* push_ws gives a job to one machine only.
THEOREM OneMachine == Spec => []PushedOnce
<1>1. IInv => PushedOnce  BY DEF IInv
<1>2. QED  BY Invariance, <1>1, PTL

-----------------------------------------------------------------------------
(* Refinement of JobCall *)

StatusOf(j) ==
    CASE pc[j] = "idle"     -> "new"
      [] pc[j] \in Live     -> "open"
      [] pc[j] = "cutoff"   -> "abandoned"
      [] pc[j] = "answered" -> "answered"
      [] OTHER              -> "failed"

\* What the coroutine's place means for the abstract call.
LEMMA StatusCases ==
    ASSUME NEW j \in Jobs
    PROVE  /\ CallStatus[j] = StatusOf(j)
           /\ pc[j] = "idle" => CallStatus[j] = "new"
           /\ pc[j] \in Live => CallStatus[j] = "open"
           /\ pc[j] = "cutoff" => CallStatus[j] = "abandoned"
           /\ pc[j] = "answered" => CallStatus[j] = "answered"
           /\ pc[j] \in {"timeout", "cancelled"} => CallStatus[j] = "failed"
<1>1. CallStatus[j] = StatusOf(j)  BY DEF CallStatus, StatusOf
<1>2. QED  BY <1>1 DEF StatusOf, Live

\* A step that moves only job j's coroutine changes only job j's status.
LEMMA StatusMoves ==
    ASSUME NEW j \in Jobs, NEW st, CallStatus'[j] = st,
           \A k \in Jobs \ {j} : pc'[k] = pc[k]
    PROVE  CallStatus' = [CallStatus EXCEPT ![j] = st]
<1>1. ASSUME NEW k \in Jobs, k # j PROVE CallStatus'[k] = CallStatus[k]
  BY <1>1 DEF CallStatus
<1>2. CallStatus' = [k \in Jobs |-> CallStatus'[k]]
  BY DEF CallStatus
<1>3. CallStatus = [k \in Jobs |-> CallStatus[k]]  BY DEF CallStatus
<1>4. QED  BY <1>1, <1>2, <1>3

\* What does not move a dispatch does not move its abstract call.
LEMMA StatusKept ==
    ASSUME \A k \in Jobs : pc'[k] = pc[k]
    PROVE  UNCHANGED CallStatus
BY DEF CallStatus

\* Every step of the registry is a step of JobCall or a stutter.
LEMMA CallStepImplements ==
    ASSUME IInv, [Next]_vars
    PROVE  [Abstract!Next]_Abstract!vars
<1>0. TypeOK /\ CallInv /\ TablesMatchCalls  BY DEF IInv
<1> USE DEF TypeOK, Control, Live, Gone
<1>1. ASSUME UNCHANGED <<pc, owner, answer>> PROVE UNCHANGED Abstract!vars
  BY <1>1, StatusKept DEF Abstract!vars
<1>2. ASSUME NEW u \in Users, NEW j \in Jobs, Dispatch(u, j)
      PROVE  Abstract!Call(u, j)
  <2>1. pc'[j] \in Live /\ \A k \in Jobs \ {j} : pc'[k] = pc[k]
    BY <1>0, <1>2 DEF Dispatch
  <2>2. CallStatus[j] = "new" /\ CallStatus'[j] = "open"
    BY <1>2, <2>1, StatusCases DEF Dispatch, CallStatus
  <2>3. QED  BY <1>2, <2>1, <2>2, StatusMoves DEF Dispatch, Abstract!Call
<1>3. ASSUME NEW u \in Users, NEW j \in Jobs, SubmitResult(u, j), UNCHANGED <<pc, owner>>
      PROVE  Abstract!Answer(j)
  <2>1. CallStatus[j] \in {"open", "abandoned"} /\ answer[j] = None
    BY <1>0, <1>3, StatusCases DEF SubmitResult, CallInv, TablesMatchCalls
  <2>2. UNCHANGED CallStatus  BY <1>3, StatusKept
  <2>3. QED  BY <1>3, <2>1, <2>2 DEF SubmitResult, Abstract!Answer
<1>4. ASSUME NEW j \in Jobs, NEW s \in Sockets, PushOk(j, s) \/ PushFail(j, s)
      PROVE  UNCHANGED Abstract!vars
  <2>1. pc[j] \in Live /\ pc'[j] \in Live /\ \A k \in Jobs \ {j} : pc'[k] = pc[k]
    BY <1>0, <1>4 DEF PushOk, PushFail
  <2>2. CallStatus[j] = "open" /\ CallStatus'[j] = "open"
    BY <2>1, StatusCases DEF CallStatus
  <2>3. ASSUME NEW k \in Jobs PROVE CallStatus'[k] = CallStatus[k]
    <3>1. CASE k = j  BY <2>2, <3>1
    <3>2. CASE k # j  BY <2>1, <3>2 DEF CallStatus
    <3>3. QED  BY <3>1, <3>2
  <2>4. CallStatus' = CallStatus
    <3>1. CallStatus' = [k \in Jobs |-> CallStatus'[k]]  BY DEF CallStatus
    <3>2. CallStatus = [k \in Jobs |-> CallStatus[k]]  BY DEF CallStatus
    <3>3. QED  BY <2>3, <3>1, <3>2
  <2>5. QED  BY <1>4, <2>4 DEF PushOk, PushFail, Abstract!vars
<1>5. ASSUME NEW j \in Jobs, CancelPush(j) PROVE Abstract!Abandon(j)
  <2>1. pc[j] \in Live /\ pc'[j] = "cutoff" /\ \A k \in Jobs \ {j} : pc'[k] = pc[k]
    BY <1>0, <1>5 DEF CancelPush
  <2>2. CallStatus[j] = "open" /\ CallStatus'[j] = "abandoned"
    BY <2>1, StatusCases DEF CallStatus
  <2>3. QED  BY <1>5, <2>1, <2>2, StatusMoves DEF CancelPush, Abstract!Abandon
<1>6. ASSUME NEW j \in Jobs, NEW how \in Gone, pc[j] = "waiting", Finish(j, how)
      PROVE  CallStatus[j] = "open" /\ \A k \in Jobs \ {j} : pc'[k] = pc[k]
             /\ pc'[j] = how
  BY <1>0, <1>6, StatusCases DEF Finish
<1>7. ASSUME NEW j \in Jobs, Return(j) PROVE Abstract!Complete(j)
  <2>1. CallStatus'[j] = "answered"
    <3>1. pc'[j] = "answered"  BY <1>0, <1>7 DEF Return, Finish
    <3>2. QED  BY <3>1 DEF CallStatus
  <2>2. answer[j] # None
    BY <1>0, <1>7, ConstantsAssumption DEF Return, CallInv
  <2>3. CallStatus[j] = "open" /\ CallStatus' = [CallStatus EXCEPT ![j] = "answered"]
    BY <1>6, <1>7, <2>1, StatusMoves DEF Return
  <2>4. QED  BY <1>7, <2>2, <2>3 DEF Return, Finish, Abstract!Complete
<1>8. ASSUME NEW j \in Jobs, Timeout(j) \/ CancelWait(j) PROVE Abstract!Fail(j)
  <2>1. CallStatus'[j] = "failed"
    <3>1. pc'[j] \in {"timeout", "cancelled"}
      BY <1>0, <1>8 DEF Timeout, CancelWait, Finish
    <3>2. QED  BY <3>1 DEF CallStatus
  <2>2. CallStatus[j] = "open" /\ CallStatus' = [CallStatus EXCEPT ![j] = "failed"]
    BY <1>6, <1>8, <2>1, StatusMoves DEF Timeout, CancelWait
  <2>3. QED
    BY <1>8, <2>2 DEF Timeout, CancelWait, Finish, Abstract!Fail
<1>9. QED
  BY <1>1, <1>2, <1>3, <1>4, <1>5, <1>7, <1>8
     DEF Next, Sending, vars, calls, PostResult, WsResult, AttachWs, DetachWs,
         WsFrame, PollFinds, PollSleeps, PollWakes, PollTimesOut, PollAborts,
         Expire, Abstract!Next

\* The registry implements JobCall: at most one answer per call, only from the
\* owner, none after the caller was told an outcome.
THEOREM RefinesJobCall == Spec => OneShotCall
<1>1. Init => Abstract!Init
  <2>1. SUFFICES ASSUME Init PROVE Abstract!Init  OBVIOUS
  <2>2. \A j \in Jobs : CallStatus[j] = "new"  BY <2>1 DEF Init, CallStatus, Live
  <2>3. CallStatus = [j \in Jobs |-> CallStatus[j]]  BY DEF CallStatus
  <2>4. CallStatus = [j \in Jobs |-> "new"]  BY <2>2, <2>3
  <2>5. QED  BY <2>1, <2>4 DEF Init, Abstract!Init
<1>2. IInv /\ [Next]_vars => [Abstract!Next]_Abstract!vars
  BY CallStepImplements
<1>3. QED  BY Invariance, <1>1, <1>2, PTL DEF Spec, OneShotCall, Abstract!Spec
=============================================================================
