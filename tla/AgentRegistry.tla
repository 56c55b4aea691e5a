--------------------------- MODULE AgentRegistry ---------------------------
(***************************************************************************)
(* core/agent_registry.py: the table that moves a confirmed job down the   *)
(* agent's own connection and carries the result back to the coroutine     *)
(* that holds the request.                                                 *)
(*                                                                         *)
(* One asyncio loop runs everything, so a step of this specification is a  *)
(* stretch of Python between two awaits.  The awaits are: a held poll      *)
(* sleeping on the user's event, a dispatch inside ws.send_json, and a     *)
(* dispatch waiting for its future.                                        *)
(*                                                                         *)
(* Two abstractions.  A job id is a fresh token, so jobs are numbered in   *)
(* the order they are dispatched; a deque is only appended to and filtered *)
(* and is therefore the set of its jobs, its left end the smallest.  Time  *)
(* is not measured: a deadline may pass, a hold may run out and a user may *)
(* have been silent for an hour at any moment.                             *)
(*                                                                         *)
(* What is NOT abstracted is which deque object is which: a held poll      *)
(* binds the deque once, and _drop_job installs a new one under the user's *)
(* key, so deques live in cells and queue[u] says which cell is current    *)
(* (NoCell while the user has no entry in _queues).                        *)
(*                                                                         *)
(* ws.send_json is taken to be all or nothing: the frame reaches the agent *)
(* and the call returns, or it raises or is cancelled and nothing arrived. *)
(***************************************************************************)
EXTENDS Naturals, FiniteSets

CONSTANTS
    Users,        \* accounts (user_id)
    NumJobs,      \* how many jobs are dispatched in a behaviour
    Polls,        \* concurrent POST /agent/poll calls
    Sockets,      \* agent WebSocket connections
    NumCells,     \* memory cells that can hold a deque
    MaxPolls,     \* MAX_POLLS_PER_USER
    MaxSockets,   \* MAX_WS_PER_USER
    None          \* "no user"

Jobs  == 1 .. NumJobs
Cells == 1 .. NumCells
NoCell == 0

ASSUME ConstantsAssumption ==
    /\ NumJobs \in Nat
    /\ NumCells \in Nat
    /\ MaxPolls \in Nat \ {0}
    /\ MaxSockets \in Nat \ {0}
    /\ IsFiniteSet(Polls)
    /\ None \notin Users

\* Every user and every held poll refers to one deque, so a new one always
\* finds a cell: the bound on memory never blocks a step.
ASSUME CellsAssumption == NumCells > Cardinality(Users) + Cardinality(Polls)

VARIABLES
    pc,        \* where job j's dispatch coroutine is
    owner,     \* _jobs[j]["owner"], kept after the entry is popped
    expired,   \* the clock is past _jobs[j]["deadline"]
    future,    \* _futures[u][j] and _jobs[j]: they come and go together
    answer,    \* the user whose submission resolved the future
    targets,   \* push_ws's list(sockets), those not tried yet
    queue,     \* _queues[u]: the cell that holds the user's deque
    deque,     \* the contents of each cell
    event,     \* _events[u]: "absent", "clear" or "set"
    poll,      \* a poll call: "off", "asleep" on the event, "woken"
    caller,    \* the user of a poll call
    local,     \* the deque _poll_hold bound before its loop
    pollers,   \* _pollers[u]
    sockets,   \* _ws[u]
    seen,      \* u has an entry in _last_seen
    handouts,  \* history: polls that answered with job j
    pushed     \* history: sockets that took job j

calls   == <<pc, owner, expired, future, answer, targets>>
queues  == <<queue, deque>>
holds   == <<poll, caller, local, pollers>>
history == <<handouts, pushed>>
vars    == <<calls, queues, event, holds, sockets, seen, history>>

Live == {"pushing", "waiting"}              \* the coroutine is running
Gone == {"answered", "timeout", "cancelled"} \* it left through `finally`

\* "cutoff": cancelled inside push_ws, before the try/finally is entered.
Control == {"idle", "cutoff"} \cup Live \cup Gone

TypeOK ==
    /\ pc \in [Jobs -> Control]
    /\ owner \in [Jobs -> Users \cup {None}]
    /\ expired \in [Jobs -> BOOLEAN]
    /\ future \in [Jobs -> {"absent", "pending", "done"}]
    /\ answer \in [Jobs -> Users \cup {None}]
    /\ targets \in [Jobs -> SUBSET Sockets]
    /\ queue \in [Users -> Cells \cup {NoCell}]
    /\ deque \in [Cells -> SUBSET Jobs]
    /\ event \in [Users -> {"absent", "clear", "set"}]
    /\ poll \in [Polls -> {"off", "asleep", "woken"}]
    /\ caller \in [Polls -> Users \cup {None}]
    /\ local \in [Polls -> Cells \cup {NoCell}]
    /\ pollers \in [Users -> Nat]
    /\ sockets \in [Users -> SUBSET Sockets]
    /\ seen \in [Users -> BOOLEAN]
    /\ handouts \in [Jobs -> Nat]
    /\ pushed \in [Jobs -> Nat]

Init ==
    /\ pc = [j \in Jobs |-> "idle"]
    /\ owner = [j \in Jobs |-> None]
    /\ expired = [j \in Jobs |-> FALSE]
    /\ future = [j \in Jobs |-> "absent"]
    /\ answer = [j \in Jobs |-> None]
    /\ targets = [j \in Jobs |-> {}]
    /\ queue = [u \in Users |-> NoCell]
    /\ deque = [c \in Cells |-> {}]
    /\ event = [u \in Users |-> "absent"]
    /\ poll = [p \in Polls |-> "off"]
    /\ caller = [p \in Polls |-> None]
    /\ local = [p \in Polls |-> NoCell]
    /\ pollers = [u \in Users |-> 0]
    /\ sockets = [u \in Users |-> {}]
    /\ seen = [u \in Users |-> FALSE]
    /\ handouts = [j \in Jobs |-> 0]
    /\ pushed = [j \in Jobs |-> 0]

-----------------------------------------------------------------------------
(* Deques *)

Contents(c) == IF c = NoCell THEN {} ELSE deque[c]

Leftmost(c) == {j \in Contents(c) : \A k \in Contents(c) : j <= k}

\* A newly created deque takes the first cell nothing refers to.
Free  == {c \in Cells : /\ \A u \in Users : queue[u] # c
                        /\ \A p \in Polls : local[p] # c}
Fresh == {c \in Free : \A d \in Free : c <= d}

\* self._queues.setdefault(user_id, deque())
Bound(u) == IF queue[u] = NoCell THEN Fresh ELSE {queue[u]}

\* Variant: a new event is installed and set.
SignalFreshEvent(u) ==
    /\ event' = [event EXCEPT ![u] = "set"]
    /\ UNCHANGED poll

\* Event.set() resolves every waiter, and does nothing if no poll of this
\* user ever created the event.
Signal(u) ==
    /\ event' = [event EXCEPT ![u] = IF @ = "absent" THEN @ ELSE "set"]
    /\ poll' = [p \in Polls |->
                  IF /\ poll[p] = "asleep"
                     /\ caller[p] = u
                     /\ event[u] # "absent"
                  THEN "woken" ELSE poll[p]]

\* _drop_job builds a filtered copy and installs it: a poll that bound the
\* old deque keeps the old one.  q is _queues as the step has left it so far.
DropJob(q, u, j) ==
    \E c \in Fresh :
        /\ queue' = IF q[u] = NoCell THEN q ELSE [q EXCEPT ![u] = c]
        /\ deque' = IF q[u] = NoCell THEN deque
                    ELSE [deque EXCEPT ![c] = Contents(q[u]) \ {j}]

-----------------------------------------------------------------------------
(* Liveness bookkeeping: heartbeat(u) sweeps the other users' stale entries *)

Idle(u) ==
    /\ pollers[u] = 0
    /\ Contents(queue[u]) = {}
    /\ sockets[u] = {}
    /\ \A j \in Jobs : owner[j] = u => future[j] = "absent"

\* The users a sweep inside heartbeat(u) may forget; which of them have been
\* silent long enough, and whether the sweep is due, is left open.
Sweepable(u) == {v \in Users \ {u} : seen[v] /\ Idle(v)}

Heartbeat(u, gone) ==
    seen' = [v \in Users |-> v = u \/ (seen[v] /\ v \notin gone)]

Keep(gone, f, none) == [v \in Users |-> IF v \in gone THEN none ELSE f[v]]

Forget(gone) ==
    /\ event' = Keep(gone, event, "absent")
    /\ queue' = Keep(gone, queue, NoCell)

\* attach_ws; a connection beyond the cap is refused and changes nothing.
AttachWs(u, s) ==
    /\ \A v \in Users : s \notin sockets[v]
    /\ \A j \in Jobs : s \notin targets[j]
    /\ Cardinality(sockets[u]) < MaxSockets
    /\ sockets' = [sockets EXCEPT ![u] = @ \cup {s}]
    /\ \E gone \in SUBSET Sweepable(u) : Heartbeat(u, gone) /\ Forget(gone)
    /\ UNCHANGED <<calls, deque, holds, history>>

\* The receive loop of WS /agent/ws ended.
DetachWs(u, s) ==
    /\ s \in sockets[u]
    /\ sockets' = [sockets EXCEPT ![u] = @ \ {s}]
    /\ UNCHANGED <<calls, queues, event, holds, seen, history>>

\* A frame that is not a result arrived on a connection; its receive loop may
\* outlive the registration, which a failed send removes.
WsFrame(u) ==
    /\ \E gone \in SUBSET Sweepable(u) : Heartbeat(u, gone) /\ Forget(gone)
    /\ UNCHANGED <<calls, deque, holds, sockets, history>>
-----------------------------------------------------------------------------
(* dispatch: the coroutine of job j *)

\* Up to the first await: register the job, queue it, wake a held poll, and
\* pick the sockets to try.  The caller has just seen the agent online.
Dispatch(u, j) ==
    /\ pc[j] = "idle"
    /\ \A k \in Jobs : k < j => pc[k] # "idle"
    /\ seen[u]
    /\ owner' = [owner EXCEPT ![j] = u]
    /\ future' = [future EXCEPT ![j] = "pending"]
    /\ \E c \in Bound(u) :
         /\ queue' = [queue EXCEPT ![u] = c]
         /\ deque' = [deque EXCEPT ![c] = Contents(queue[u]) \cup {j}]
    /\ Signal(u)
    /\ targets' = [targets EXCEPT ![j] = sockets[u]]
    /\ pc' = [pc EXCEPT ![j] = IF sockets[u] = {} THEN "waiting" ELSE "pushing"]
    /\ UNCHANGED <<expired, answer, caller, local, pollers, sockets, seen,
                   history>>

\* Variant: the loop goes on to the remaining sockets.
PushOkBroadcast(j, s) ==
    /\ pc[j] = "pushing"
    /\ s \in targets[j] \cap sockets[owner[j]]
    /\ pushed' = [pushed EXCEPT ![j] = @ + 1]
    /\ targets' = [targets EXCEPT ![j] = @ \ {s}]
    /\ pc' = [pc EXCEPT ![j] = IF targets[j] = {s} THEN "waiting" ELSE @]
    /\ DropJob(queue, owner[j], j)
    /\ UNCHANGED <<owner, expired, future, answer, event, holds, sockets, seen,
                   handouts>>

\* push_ws: the send to s succeeded, so the queued copy is dropped.
PushOk(j, s) ==
    /\ pc[j] = "pushing"
    /\ s \in targets[j] \cap sockets[owner[j]]
    /\ pushed' = [pushed EXCEPT ![j] = @ + 1]
    /\ pc' = [pc EXCEPT ![j] = "waiting"]
    /\ targets' = [targets EXCEPT ![j] = {}]
    /\ \E gone \in SUBSET Sweepable(owner[j]) :
         /\ Heartbeat(owner[j], gone)
         /\ event' = Keep(gone, event, "absent")
         /\ DropJob(Keep(gone, queue, NoCell), owner[j], j)
    /\ UNCHANGED <<owner, expired, future, answer, holds, sockets, handouts>>

\* Variant: the same socket is tried again.
PushFailRetrying(j, s) ==
    /\ pc[j] = "pushing"
    /\ s \in targets[j]
    /\ UNCHANGED vars

\* push_ws: the send to s raised; s is detached and the next one is tried.
PushFail(j, s) ==
    /\ pc[j] = "pushing"
    /\ s \in targets[j]
    /\ sockets' = [sockets EXCEPT ![owner[j]] = @ \ {s}]
    /\ targets' = [targets EXCEPT ![j] = @ \ {s}]
    /\ pc' = [pc EXCEPT ![j] = IF targets[j] = {s} THEN "waiting" ELSE @]
    /\ UNCHANGED <<owner, expired, future, answer, queues, event, holds, seen,
                   history>>

\* The request was cancelled inside push_ws: the coroutine is not yet in its
\* try block, so nothing is cleaned up.
CancelPush(j) ==
    /\ pc[j] = "pushing"
    /\ pc' = [pc EXCEPT ![j] = "cutoff"]
    /\ targets' = [targets EXCEPT ![j] = {}]
    /\ UNCHANGED <<owner, expired, future, answer, queues, event, holds,
                   sockets, seen, history>>

\* Variant: the queued copy stays behind.
FinishKeepingJob(j, how) ==
    /\ pc' = [pc EXCEPT ![j] = how]
    /\ future' = [future EXCEPT ![j] = "absent"]
    /\ expired' = [expired EXCEPT ![j] = FALSE]
    /\ UNCHANGED <<owner, answer, targets, queues, event, holds, sockets, seen,
                   history>>

\* The finally clause, left with outcome `how`.
Finish(j, how) ==
    /\ pc' = [pc EXCEPT ![j] = how]
    /\ DropJob(queue, owner[j], j)
    /\ future' = [future EXCEPT ![j] = "absent"]
    /\ expired' = [expired EXCEPT ![j] = FALSE]
    /\ UNCHANGED <<owner, answer, targets, event, holds, sockets, seen, history>>

Return(j) ==
    /\ pc[j] = "waiting"
    /\ future[j] = "done"
    /\ Finish(j, "answered")

\* The timer can also win against a future resolved in the same loop pass.
Timeout(j) ==
    /\ pc[j] = "waiting"
    /\ expired[j]
    /\ Finish(j, "timeout")

\* Variant: the cleanup is on the timeout branch only.
CancelWaitNoCleanup(j) ==
    /\ pc[j] = "waiting"
    /\ pc' = [pc EXCEPT ![j] = "cancelled"]
    /\ UNCHANGED <<owner, expired, future, answer, targets, queues, event, holds,
                   sockets, seen, history>>

CancelWait(j) ==
    /\ pc[j] = "waiting"
    /\ Finish(j, "cancelled")

\* The clock passes the deadline stored with the job.
Expire(j) ==
    /\ future[j] # "absent"
    /\ ~expired[j]
    /\ expired' = [expired EXCEPT ![j] = TRUE]
    /\ UNCHANGED <<pc, owner, future, answer, targets, queues, event, holds,
                   sockets, seen, history>>

-----------------------------------------------------------------------------
(* submit_result, from POST /agent/result and from a WebSocket frame.  Any  *)
(* user may name any job; a refused submission changes nothing.             *)

\* Variant: the owner is not compared.
SubmitFromAnyone(u, j) ==
    /\ ~expired[j]
    /\ future[j] = "pending"
    /\ future' = [future EXCEPT ![j] = "done"]
    /\ answer' = [answer EXCEPT ![j] = u]

SubmitResult(u, j) ==
    /\ owner[j] = u
    /\ ~expired[j]
    /\ future[j] = "pending"
    /\ future' = [future EXCEPT ![j] = "done"]
    /\ answer' = [answer EXCEPT ![j] = u]

PostResult(u, j) ==
    /\ SubmitResult(u, j)
    /\ UNCHANGED <<pc, owner, expired, targets, queues, event, holds, sockets,
                   seen, history>>

WsResult(u, j) ==
    /\ SubmitResult(u, j)
    /\ \E gone \in SUBSET Sweepable(u) : Heartbeat(u, gone) /\ Forget(gone)
    /\ UNCHANGED <<pc, owner, expired, targets, deque, holds, sockets, history>>
-----------------------------------------------------------------------------
(* poll and _poll_hold: one held long-poll *)

HandOut(c, j) ==
    /\ deque' = [deque EXCEPT ![c] = @ \ {j}]
    /\ handouts' = [handouts EXCEPT ![j] = @ + 1]

\* Variant: the slot is given back by the return and by the finally.
LeaveTwice(p) ==
    /\ poll' = [poll EXCEPT ![p] = "off"]
    /\ caller' = [caller EXCEPT ![p] = None]
    /\ local' = [local EXCEPT ![p] = NoCell]
    /\ pollers' = [pollers EXCEPT ![caller[p]] = @ - 2]

\* poll's finally clause gives the slot back.
Leave(p) ==
    /\ poll' = [poll EXCEPT ![p] = "off"]
    /\ caller' = [caller EXCEPT ![p] = None]
    /\ local' = [local EXCEPT ![p] = NoCell]
    /\ pollers' = [pollers EXCEPT ![caller[p]] = @ - 1]

\* A poll that finds a queued job answers without sleeping, so it takes and
\* returns its slot in one step.  Beyond the cap a poll is refused.
PollFinds(u) ==
    /\ pollers[u] < MaxPolls
    /\ \E gone \in SUBSET Sweepable(u) : Heartbeat(u, gone) /\ Forget(gone)
    /\ \E j \in Leftmost(queue[u]) : HandOut(queue[u], j)
    /\ UNCHANGED <<calls, holds, sockets, pushed>>

\* Nothing queued: bind the deque and wait on the event, which may still be
\* set from a signal nobody consumed.
PollSleeps(u, p) ==
    /\ poll[p] = "off"
    /\ pollers[u] < MaxPolls
    /\ Contents(queue[u]) = {}
    /\ \E gone \in SUBSET Sweepable(u), c \in Bound(u) :
         /\ Heartbeat(u, gone)
         /\ queue' = [Keep(gone, queue, NoCell) EXCEPT ![u] = c]
         /\ event' = [Keep(gone, event, "absent") EXCEPT
                        ![u] = IF @ = "set" THEN "set" ELSE "clear"]
         /\ deque' = [deque EXCEPT ![c] = {}]
         /\ local' = [local EXCEPT ![p] = c]
    /\ poll' = [poll EXCEPT ![p] = IF event[u] = "set" THEN "woken" ELSE "asleep"]
    /\ caller' = [caller EXCEPT ![p] = u]
    /\ pollers' = [pollers EXCEPT ![u] = @ + 1]
    /\ UNCHANGED <<calls, sockets, history>>

\* A woken poll clears the event and looks again at the deque it bound.
PollWakes(p) ==
    /\ poll[p] = "woken"
    /\ event' = [event EXCEPT ![caller[p]] = "clear"]
    /\ \/ /\ \E j \in Leftmost(local[p]) : HandOut(local[p], j)
          /\ Leave(p)
       \/ /\ Contents(local[p]) = {}
          /\ poll' = [poll EXCEPT ![p] = "asleep"]
          /\ UNCHANGED <<deque, caller, local, pollers, handouts>>
    /\ UNCHANGED <<calls, queue, sockets, seen, pushed>>

\* Variant: an empty queue starts another hold.
PollHoldsAgain(p) ==
    /\ poll[p] # "off"
    /\ \/ \E j \in Leftmost(local[p]) : HandOut(local[p], j) /\ Leave(p)
       \/ /\ Contents(local[p]) = {}
          /\ poll' = [poll EXCEPT ![p] = "asleep"]
          /\ UNCHANGED <<deque, handouts, caller, local, pollers>>
    /\ UNCHANGED <<calls, queue, event, sockets, seen, pushed>>

\* The hold ran out, perhaps together with a wake: one more look.
PollTimesOut(p) ==
    /\ poll[p] # "off"
    /\ Leave(p)
    /\ \/ \E j \in Leftmost(local[p]) : HandOut(local[p], j)
       \/ /\ Contents(local[p]) = {}
          /\ UNCHANGED <<deque, handouts>>
    /\ UNCHANGED <<calls, queue, event, sockets, seen, pushed>>

\* Variant: no finally clause.
PollAbortsLeaking(p) ==
    /\ poll[p] # "off"
    /\ poll' = [poll EXCEPT ![p] = "off"]
    /\ caller' = [caller EXCEPT ![p] = None]
    /\ local' = [local EXCEPT ![p] = NoCell]
    /\ UNCHANGED <<calls, queues, event, pollers, sockets, seen, history>>

\* The connection of a held poll was aborted.
PollAborts(p) ==
    /\ poll[p] # "off"
    /\ Leave(p)
    /\ UNCHANGED <<calls, queues, event, sockets, seen, history>>

-----------------------------------------------------------------------------

Sending(j) == \E s \in Sockets : PushOk(j, s) \/ PushFail(j, s)

Next ==
    \/ \E u \in Users, j \in Jobs :
         Dispatch(u, j) \/ PostResult(u, j) \/ WsResult(u, j)
    \/ \E u \in Users, s \in Sockets : AttachWs(u, s) \/ DetachWs(u, s)
    \/ \E u \in Users : WsFrame(u) \/ PollFinds(u)
    \/ \E u \in Users, p \in Polls : PollSleeps(u, p)
    \/ \E p \in Polls : PollWakes(p) \/ PollTimesOut(p) \/ PollAborts(p)
    \/ \E j \in Jobs : \/ Sending(j) \/ CancelPush(j)
                       \/ Return(j) \/ Timeout(j) \/ CancelWait(j)
                       \/ Expire(j)

Spec == Init /\ [][Next]_vars

(***************************************************************************)
(* The loop runs ready callbacks and fires timers; a send on a dead        *)
(* connection fails once the server's WebSocket keepalive gives up.        *)
(* Nothing is assumed of agents, callers or cancellation.                  *)
(***************************************************************************)
Fairness ==
    /\ \A j \in Jobs : /\ WF_vars(Sending(j))
                       /\ WF_vars(Return(j))
                       /\ WF_vars(Timeout(j))
                       /\ WF_vars(Expire(j))
    /\ \A p \in Polls : WF_vars(PollWakes(p)) /\ WF_vars(PollTimesOut(p))

FairSpec == Spec /\ Fairness
-----------------------------------------------------------------------------
(* Correctness *)

Held(u) == {p \in Polls : poll[p] # "off" /\ caller[p] = u}

\* The slot counter that admits polls counts exactly the polls being held,
\* so an aborted or timed-out poll never leaks a slot (poll's finally).
SlotsAccounted == \A u \in Users : pollers[u] = Cardinality(Held(u))

\* "No wake is ever lost": no poll sleeps beside a job in the deque it looks
\* at, whatever set, clear, sweep and timeout came before.
NoLostWake ==
    \A p \in Polls : poll[p] = "asleep" => Contents(local[p]) = {}

\* A job in a user's current deque has a dispatcher waiting for it, unless
\* that dispatcher was cancelled inside push_ws (the exit dispatch misses).
QueuedIsAwaited ==
    \A u \in Users : \A j \in Contents(queue[u]) :
        owner[j] = u /\ pc[j] \in Live \cup {"cutoff"}

\* push_ws hands a job to at most one machine, however many sockets a user
\* has and however many sends fail on the way.
PushedOnce == \A j \in Jobs : pushed[j] <= 1

\* The registry's tables have an entry for exactly the unfinished jobs: a
\* finished one leaves nothing behind and the sweep forgets none in flight.
TablesMatchCalls ==
    \A j \in Jobs : (future[j] # "absent") <=> (pc[j] \in Live \cup {"cutoff"})

\* Every dispatch ends (answer, timeout or cancellation), also when a send
\* hangs until its connection dies.
DispatchReturns ==
    \A j \in Jobs : pc[j] \in Live ~> pc[j] \notin Live

\* Every held poll is answered.
PollReturns ==
    \A p \in Polls : poll[p] # "off" ~> poll[p] = "off"

-----------------------------------------------------------------------------
(* What makes these inductive *)

CallInv ==
    \A j \in Jobs :
        /\ pc[j] = "idle" => owner[j] = None /\ answer[j] = None
        /\ pc[j] # "idle" => owner[j] \in Users
        /\ future[j] = "pending" => answer[j] = None
        /\ future[j] = "done" => answer[j] = owner[j]
        /\ pc[j] \in {"idle", "pushing"} => pushed[j] = 0

\* A held poll has a user, a deque and that user's event.
HoldInv ==
    \A p \in Polls :
        \/ poll[p] = "off" /\ caller[p] = None /\ local[p] = NoCell
        \/ /\ poll[p] # "off" /\ caller[p] \in Users /\ local[p] \in Cells
           /\ event[caller[p]] # "absent"

\* No deque serves two users, as a current one or through a held poll.
DequesApart ==
    \A u \in Users : queue[u] # NoCell =>
        /\ \A v \in Users : queue[v] = queue[u] => v = u
        /\ \A p \in Polls : local[p] = queue[u] => caller[p] = u

IInv ==
    /\ TypeOK
    /\ CallInv
    /\ TablesMatchCalls
    /\ HoldInv
    /\ SlotsAccounted
    /\ DequesApart
    /\ NoLostWake
    /\ QueuedIsAwaited
    /\ PushedOnce

-----------------------------------------------------------------------------
(* The registry implements one-shot calls. *)

CallStatus == [j \in Jobs |->
    CASE pc[j] = "idle"     -> "new"
      [] pc[j] \in Live     -> "open"
      [] pc[j] = "cutoff"   -> "abandoned"
      [] pc[j] = "answered" -> "answered"
      [] OTHER              -> "failed"]

Abstract == INSTANCE JobCall WITH status <- CallStatus

\* A dispatched job takes at most one result, from its owner's agent, and none
\* after its dispatcher has answered; only an accepted result is returned.
OneShotCall == Abstract!Spec

-----------------------------------------------------------------------------
(* What the documentation says and the code does not keep *)

\* push_ws: "Exactly-once delivery to one machine"; dispatch: removed from
\* the poll queue "so it never executes twice".
DeliveredOnce == \A j \in Jobs : handouts[j] + pushed[j] <= 1

\* dispatch: "The queued job is removed on EVERY exit path".
QueueDrained ==
    \A u \in Users : \A j \in Contents(queue[u]) : pc[j] \in Live
=============================================================================
