--------------------------- MODULE PendingActions ---------------------------
(***************************************************************************)
(* Staged actions and the two ways to confirm them.                        *)
(*                                                                         *)
(*   core/tool_executor.py   PendingActionStore (put, take, peek_type,     *)
(*                           _sweep, _persist, flush_persisted) and        *)
(*                           confirm_action                                *)
(*   core/webchat_agent.py   ApprovalWaiter, _execute_call, _await_approval*)
(*   endpoints/chat.py       chat_stream's cleanup and chat_approve        *)
(*   endpoints/mcp.py        the confirm_action tool                       *)
(*   main.py                 start-up and shutdown                         *)
(*                                                                         *)
(* All of it runs on one event loop, so a step is what happens between two *)
(* awaits.  put and take never await; what they write to PostgreSQL is     *)
(* done later by background tasks, each on a connection of its own and     *)
(* therefore in any order.  A process may stop and start again.            *)
(*                                                                         *)
(* A token is a fresh random value, so a Token stands for one staging.     *)
(* That TTL seconds have passed since then is the set `old`; that the      *)
(* waiter's own timer has run is left to the moment it fires.  `ran` counts*)
(* how often confirm_action handed the action to an executor; what the     *)
(* executor does is AgentRegistry's subject.                               *)
(***************************************************************************)
EXTENDS Naturals

CONSTANTS
    Users,       \* subjects (principals)
    Tokens,      \* stagings
    NoOne,       \* "no subject yet"
    Persists,    \* attach_engine was called (INVINCIBLE_PERSIST_PENDING_ACTIONS)
    MaxStops,    \* bound: clean shutdowns
    MaxCrashes,  \* bound: crashes
    MaxFails     \* bound: failed database calls

ASSUME PendingAssumption ==
    /\ NoOne \notin Users
    /\ Persists \in BOOLEAN
    /\ {MaxStops, MaxCrashes, MaxFails} \subseteq Nat

VARIABLES
    up,        \* a process is serving
    staged,    \* the keys of _pending
    owner,     \* owner_subject, kept after the record is popped
    old,       \* tokens staged more than TTL_SECONDS ago
    writes,    \* _background_tasks: database writes not yet committed
    rows,      \* the tokens with a row in pending_actions
    stream,    \* the chat stream a token was staged from, if any
    waiter,    \* ApprovalWaiter._waiters[t] and the state of its future
    voter,     \* history: the subject whose answer the future holds
    resolved,  \* history: tokens popped by a take
    ran,       \* history: how often the action was handed to an executor
    judge,     \* history: on whose word
    stops, crashes, fails   \* counted against their bounds

store   == <<staged, resolved>>
db      == <<writes, rows>>
chat    == <<stream, waiter, voter>>
effects == <<ran, judge>>
counts  == <<stops, crashes, fails>>
vars    == <<up, store, owner, old, db, chat, effects, counts>>

\* "unused": not staged yet.  "mcp": staged by an MCP call.  "auto": staged
\* and confirmed by a chat stream in auto mode, which tells nobody the token.
\* "telling": the approval event is on its way to the browser.
Stream == {"unused", "mcp", "auto", "telling", "waiting", "ended"}
Waiter == {"absent", "open", "approved", "denied"}
Write  == [op : {"insert", "delete"}, of : SUBSET Tokens]

TypeOK ==
    /\ up \in BOOLEAN
    /\ staged \subseteq Tokens
    /\ owner \in [Tokens -> Users \cup {NoOne}]
    /\ old \subseteq Tokens
    /\ writes \subseteq Write
    /\ rows \subseteq Tokens
    /\ stream \in [Tokens -> Stream]
    /\ waiter \in [Tokens -> Waiter]
    /\ voter \in [Tokens -> Users \cup {NoOne}]
    /\ resolved \subseteq Tokens
    /\ ran \in [Tokens -> Nat]
    /\ judge \in [Tokens -> Users \cup {NoOne}]
    /\ stops \in 0 .. MaxStops
    /\ crashes \in 0 .. MaxCrashes
    /\ fails \in 0 .. MaxFails

Init ==
    /\ up = TRUE
    /\ staged = {}
    /\ owner = [t \in Tokens |-> NoOne]
    /\ old = {}
    /\ writes = {}
    /\ rows = {}
    /\ stream = [t \in Tokens |-> "unused"]
    /\ waiter = [t \in Tokens |-> "absent"]
    /\ voter = [t \in Tokens |-> NoOne]
    /\ resolved = {}
    /\ ran = [t \in Tokens |-> 0]
    /\ judge = [t \in Tokens |-> NoOne]
    /\ stops = 0 /\ crashes = 0 /\ fails = 0

-----------------------------------------------------------------------------
(* PendingActionStore *)

Insert(t) == {[op |-> "insert", of |-> {t}]}
Delete(S) == IF S = {} THEN {} ELSE {[op |-> "delete", of |-> S]}

\* _persist: a background task per write, if there is an engine.
Later(ws) == writes' = IF Persists THEN writes \cup ws ELSE writes

\* _sweep, which begins every operation, leaves these behind ...
Known == staged \ old
\* ... and deletes the rows of the others in one statement.
SweptRows == Delete(staged \cap old)

\* The record take(t) pops for requester u: a foreign, expired or unknown
\* token all give nothing.
Mine(u, t) == {k \in {t} \cap Known : owner[k] = u}

\* Variant: the record is read, not popped.
TakeKeeping(u, t) ==
    /\ staged' = Known
    /\ resolved' = resolved \cup Mine(u, t)
    /\ Later(SweptRows)

Take(u, t) ==
    /\ staged' = Known \ Mine(u, t)
    /\ resolved' = resolved \cup Mine(u, t)
    /\ Later(SweptRows \cup Delete(Mine(u, t)))

Run(by, S) ==
    /\ ran' = [k \in Tokens |-> IF k \in S THEN ran[k] + 1 ELSE ran[k]]
    /\ judge' = [k \in Tokens |-> IF k \in S THEN by ELSE judge[k]]

\* confirm_action: the record is popped whatever the answer.  `by` is the
\* subject whose answer this is, u the subject take compares.
ConfirmAction(by, u, t, ok) ==
    /\ Take(u, t)
    /\ Run(by, IF ok THEN Mine(u, t) ELSE {})
-----------------------------------------------------------------------------
(* Staging *)

Put(u, t, how, ws) ==
    /\ up
    /\ stream[t] = "unused"
    /\ owner' = [owner EXCEPT ![t] = u]
    /\ stream' = [stream EXCEPT ![t] = how]
    /\ Later(SweptRows \cup Insert(t) \cup ws)

\* A mutating MCP tool, or a chat tool in manual mode: the approval event is
\* sent before the stream waits.
Stage(u, t) ==
    /\ \E how \in {"mcp", "telling"} : Put(u, t, how, {})
    /\ staged' = Known \cup {t}
    /\ UNCHANGED <<up, resolved, old, rows, waiter, voter, effects,
                   counts>>

\* A chat tool in auto mode: put, take and the start of the executor follow
\* each other without an await.
StageAuto(u, t) ==
    /\ Put(u, t, "auto", Delete({t}))
    /\ staged' = Known
    /\ resolved' = resolved \cup {t}
    /\ Run(u, {t})
    /\ UNCHANGED <<up, old, rows, waiter, voter, counts>>

\* Somebody outside the process holds the token.
Told(t) == stream[t] \notin {"unused", "auto"}

\* The MCP tool confirm_action, by any subject that holds the token.
McpConfirm(u, t, ok) ==
    /\ up
    /\ Told(t)
    /\ ConfirmAction(u, u, t, ok)
    /\ UNCHANGED <<up, owner, old, rows, chat, counts>>

\* peek_type only sweeps.
Peek ==
    /\ up
    /\ staged' = Known
    /\ Later(SweptRows)
    /\ UNCHANGED <<up, resolved, owner, old, rows, chat, effects, counts>>

-----------------------------------------------------------------------------
(* The chat stream and the browser's answer *)

\* ApprovalWaiter.wait registers its future.
StreamWaits(t) ==
    /\ up
    /\ stream[t] = "telling"
    /\ stream' = [stream EXCEPT ![t] = "waiting"]
    /\ waiter' = [waiter EXCEPT ![t] = "open"]
    /\ UNCHANGED <<up, store, owner, old, db, voter, effects, counts>>

\* ApprovalWaiter.resolve accepts the answer.
Resolve(u, t, ok) ==
    /\ waiter[t] = "open"
    /\ owner[t] = u
    /\ waiter' = [waiter EXCEPT ![t] = IF ok THEN "approved" ELSE "denied"]
    /\ voter' = [voter EXCEPT ![t] = u]
    /\ UNCHANGED <<store, writes>>

\* resolve returned False: chat_approve pops the record and answers 404.
PopOrphan(u, t) ==
    /\ ~(waiter[t] = "open" /\ owner[t] = u)
    /\ Take(u, t)
    /\ UNCHANGED <<waiter, voter>>

\* POST /dashboard/chat/approve.
ChatApprove(u, t, ok) ==
    /\ up
    /\ Told(t)
    /\ Resolve(u, t, ok) \/ PopOrphan(u, t)
    /\ UNCHANGED <<up, owner, old, rows, stream, effects, counts>>

\* _await_approval goes on: wait's finally clause drops the waiter, and the
\* action is confirmed or declined.
StreamConfirms(t, ok) ==
    /\ ConfirmAction(voter[t], owner[t], t, ok)
    /\ stream' = [stream EXCEPT ![t] = "ended"]
    /\ waiter' = [waiter EXCEPT ![t] = "absent"]
    /\ UNCHANGED <<up, owner, old, rows, voter, counts>>

StreamWakes(t) ==
    /\ up
    /\ waiter[t] \in {"approved", "denied"}
    /\ StreamConfirms(t, waiter[t] = "approved")

\* Variant: a denied or unanswered wait starts over.
StreamWaitsAgain(t) ==
    /\ up
    /\ stream[t] = "waiting"
    /\ waiter' = [waiter EXCEPT ![t] = "open"]
    /\ UNCHANGED <<up, store, owner, old, db, stream, voter, effects,
                   counts>>

\* The 300 s timer fires; it may do so in the loop pass that resolved the
\* future, and then the answer is dropped.
StreamTimesOut(t) ==
    /\ up
    /\ stream[t] = "waiting"
    /\ StreamConfirms(t, FALSE)

\* Variant: no finally clause discards the waiter.
StreamDropsLeaking(t) ==
    /\ up
    /\ stream[t] \in {"telling", "waiting"}
    /\ stream' = [stream EXCEPT ![t] = "ended"]
    /\ UNCHANGED <<up, store, owner, old, db, waiter, voter, effects,
                   counts>>

\* The browser went away: the stream is cancelled and its waiter discarded.
\* The staged record stays until it expires or someone pops it.
StreamDrops(t) ==
    /\ up
    /\ stream[t] \in {"telling", "waiting"}
    /\ stream' = [stream EXCEPT ![t] = "ended"]
    /\ waiter' = [waiter EXCEPT ![t] = "absent"]
    /\ UNCHANGED <<up, store, owner, old, db, voter, effects, counts>>

-----------------------------------------------------------------------------
(* Time, the database and the process *)

Expire(t) ==
    /\ stream[t] # "unused"
    /\ t \notin old
    /\ old' = old \cup {t}
    /\ UNCHANGED <<up, store, owner, db, chat, effects, counts>>

\* A background task commits.
Commit(w) ==
    /\ w \in writes
    /\ writes' = writes \ {w}
    /\ rows' = IF w.op = "insert" THEN rows \cup w.of ELSE rows \ w.of
    /\ UNCHANGED <<up, store, owner, old, chat, effects, counts>>

\* It fails: logged, and memory stays the source of truth.
FailWrite(w) ==
    /\ w \in writes
    /\ fails < MaxFails
    /\ writes' = writes \ {w}
    /\ fails' = fails + 1
    /\ UNCHANGED <<up, store, owner, old, rows, chat, effects, stops, crashes>>

\* Everything in memory is gone, the streams with it.
ProcessEnds ==
    /\ up' = FALSE
    /\ staged' = {}
    /\ stream' = [t \in Tokens |->
                    IF stream[t] \in {"telling", "waiting"} THEN "ended"
                    ELSE stream[t]]
    /\ waiter' = [t \in Tokens |-> "absent"]
    /\ writes' = {}
    /\ UNCHANGED <<owner, old, rows, resolved, voter, effects, fails>>

\* Variant: the outstanding writes are not awaited.
ShutdownNoFlush ==
    /\ up
    /\ stops < MaxStops
    /\ stops' = stops + 1
    /\ ProcessEnds
    /\ UNCHANGED crashes

\* The lifespan's exit awaits flush_persisted.
Shutdown ==
    /\ up
    /\ writes = {}
    /\ stops < MaxStops
    /\ stops' = stops + 1
    /\ ProcessEnds
    /\ UNCHANGED crashes

Crash ==
    /\ up
    /\ crashes < MaxCrashes
    /\ crashes' = crashes + 1
    /\ ProcessEnds
    /\ UNCHANGED stops

\* Start-up attaches the engine and reads no rows: nothing calls load_persisted.
Boot ==
    /\ ~up
    /\ up' = TRUE
    /\ UNCHANGED <<store, owner, old, db, chat, effects, counts>>

Next ==
    \/ \E u \in Users, t \in Tokens :
         \/ Stage(u, t)
         \/ StageAuto(u, t)
         \/ \E ok \in BOOLEAN : McpConfirm(u, t, ok) \/ ChatApprove(u, t, ok)
    \/ Peek
    \/ \E t \in Tokens :
         \/ StreamWaits(t)
         \/ StreamWakes(t)
         \/ StreamTimesOut(t)
         \/ StreamDrops(t)
         \/ Expire(t)
    \/ \E w \in writes : Commit(w) \/ FailWrite(w)
    \/ Shutdown \/ Crash \/ Boot

Spec == Init /\ [][Next]_vars

\* wait_for's timer is the only thing that must come; a browser may never
\* answer and may never read the event it is sent.
FairSpec == Spec /\ \A t \in Tokens : WF_vars(StreamTimesOut(t))

-----------------------------------------------------------------------------
(* Correctness *)

\* ApprovalWaiter keeps an entry for exactly the streams that wait: none
\* outlives its stream, whichever way the stream ends.
WaitersExact == \A t \in Tokens : waiter[t] # "absent" <=> stream[t] = "waiting"

\* A paused stream does not wait for ever.
StreamEnds == \A t \in Tokens : stream[t] = "waiting" ~> stream[t] = "ended"

\* A staged action that nobody resolved and that is not too old is still
\* there, restarts included (the README's promise for the persisted store),
\* as long as no write failed and every shutdown was clean.
SurvivesRestart ==
    up /\ fails + crashes = 0 => \A t \in Tokens \ (resolved \cup old) : stream[t] # "unused" => t \in staged

\* What a clean shutdown leaves behind: the row of every staged action that nobody
\* resolved and that is not too old, although each write was a task of its own and
\* other actions' deletes were among them.
RowsOutlive ==
    ~up /\ Persists /\ fails + crashes = 0 =>
        \A t \in Tokens \ (resolved \cup old) : stream[t] # "unused" => t \in rows

\* How far a token has come.
Phase == [t \in Tokens |->
    CASE stream[t] = "unused"                    -> "new"
      [] stream[t] # "unused" /\ ran[t] > 0      -> "run"
      [] stream[t] # "unused" /\ ran[t] = 0 /\ t \in Known -> "staged"
      [] OTHER                                   -> "void"]

Abstract == INSTANCE OneShotApproval WITH phase <- Phase

\* A staged action runs at most once, on its owner's word alone, and never
\* once it was declined, popped, expired or lost to a restart.
OneShot == Abstract!Spec

-----------------------------------------------------------------------------
(* What the documentation says and the code does not keep *)

\* PendingActionStore: "confirming the same token twice can never execute
\* the action twice (replay guard)".
RunOnce == \A t \in Tokens : ran[t] <= 1
=============================================================================
