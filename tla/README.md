# Invincible: a TLA+ verification development

Invincible is an AI continuity gateway: one FastAPI process that speaks several
chat-completion dialects, fails over between model providers, keeps sessions
and memory in PostgreSQL, and lets a model act on the user's own machine
through an agent that dials in. This directory holds TLA+ models of the parts
of it where several actors meet, the TLC runs that check them, and the theorems
TLAPS proves about them.

Paths below are relative to `src/invincible/`.

- [The system](#the-system): the inventory of components
- [What is modelled](#what-is-modelled): modules, and how they read the code
- [Runs](#runs), [Bounds](#bounds), [Fairness](#fairness)
- [Proofs](#proofs)
- [What the code does not keep](#what-the-code-does-not-keep)
- [Not modelled](#not-modelled) and [Plan](#plan)

How to run: `tlc -workers 2 -config AgentRegistry.cfg MCAgentRegistry`,
`tlapm AgentRegistryProofs.tla`.

## The system

There is one process and one asyncio event loop, by design a single instance:
the agent registry, staged approvals, tunnels and provider cooldowns live in
memory. Code between two `await`s is atomic. Concurrency therefore means: many
requests interleaved at their awaits; timers; cancellation when a client goes
away; background tasks; and PostgreSQL transactions on separate connections,
which do interleave inside. A restart loses the memory and keeps the rows.

| Component | State | Operations | Hard behaviours | What makes it correct |
|---|---|---|---|---|
| **Agent registry** `core/agent_registry.py`, `endpoints/agents.py` | per user: deque of jobs, event, held-poll count, sockets, last-seen; per job: future, owner, deadline | `dispatch`, `push_ws`, `poll`, `submit_result`, `attach_ws`/`detach_ws`, `heartbeat` and its sweep | a job is queued and pushed at once; sends fail or are cancelled; polls time out or abort; the sweep of one user deletes entries of another | one answer per job, from its owner, before its caller has left; no job for two machines; no lost wake; no leaked slot or entry; everything ends |
| **Handoff and voice control plane** (same files) | bounded handoff queue, latest-wins voice slot | `post_handoff`, `push_ws`, `drop_handoff`, polls | WS-first delivery with a queued copy for polls, across an await | at most one delivery; the newest state wins |
| **Pending actions** `core/tool_executor.py`, `endpoints/mcp.py`, `main.py` | staged actions by token, their rows, background writes | `put`, `take`, `peek_type`, sweep, `confirm_action`, flush | two realms confirm one token; writes out of order; restart | runs at most once, on the owner's word, never after a refusal or expiry |
| **Browser chat and approvals** `core/webchat_agent.py`, `endpoints/chat.py` | token -> (user, future) | stage, wait, approve, time out, disconnect | answer races the timer, a second click, the disconnect | no waiter outlives its stream; a paused stream goes on |
| **Harness approvals** `core/harness_approvals.py` | rows with deadlines and suspended workflows | create, resolve, sweep | resolve is SELECT, then DELETE | single use |
| **Provider failover** `core/router.py`, `core/provider_health.py`, `core/selection.py` | cooldowns, failure counts, disabled set; the attempt loop's position | `_iter_attempts`, `_attempt_nonstreaming`, `_attempt_streaming`, `record_failure`/`record_success` | concurrent requests share cooldowns; a stream commits at its first chunk; aborted streams | steps are tried at most once, in order, on the user's own credentials; no second provider after the first chunk; a request ends as its candidates decided; a run row per attempt |
| **Tunnels** `core/harness_tunnel.py`, `endpoints/tunnel.py` | tunnels by token, pending acks, stream queues, byte counters | open, ack, close, `spend`, `push_to_stream`, `drop_stream`, `detach_ws` | caps checked before an await and charged after; full queues; sockets that vanish | caps hold; every reader is released |
| **Session store** `core/session_store.py` | session and message rows | `save`, `append`, `load`, retention, delete | two appends to one session; deletion in between | whole turns, in order, newest kept |
| **Continuity** `core/continuity.py` | versioned task state, checkpoints | `set_state`, `create_checkpoint`, `reactive_checkpoint` | concurrent writers, advisory lock, background checkpoints | versions grow by one, no lost update |
| **OAuth provider** `core/oauth_store.py`, `endpoints/oauth.py` | codes, access and refresh tokens | authorize, exchange, rotate, revoke | exchange is read, then write | a code is exchanged once |
| **Workflows and bus** `core/harness_runtime.py`, `harness_fanout.py`, `harness_explore.py`, `harness_bus.py`, `run_store.py`, `workflow_store.py` | runs, steps, event history, subscriber queues | run, explore, fan out, publish, subscribe | budgets shared by branches; slow subscribers | budgets hold, runs end |
| **Agent client** `agent/runner.py`, `agent/sandbox.py` | connection mode, tunnel tables, walls | WS first, poll fallback, execute, answer | reconnects, answers after the server gave up, streams cut by their own task | its tunnel tables agree with the server's; a refused path or command never runs |
| **Companion overlay** `agent/overlay.py` | face, pointer, bounded inbox, quiet time | feed a line, drain, fly, point, glide home, end | a full inbox drops; the child or its parent dies | it shows what it was told; it ends; the pointer comes home |
| **Desktop tools** `core/tool_executor.py` | the last look, a staged action, the pressed button | look, resolve, point, type, press, drag, open | the screen changes between look, probe and input; an input is refused half-way | input goes where it was meant; no text in a password field; nothing left pressed |
| **Tools and policy** `core/harness_tools.py`, `core/harness_policy.py`, `core/tool_dispatch.py` | the registry of tools | gate, stage, dispatch, confirm, per surface and mode | the machine comes and goes; an action is confirmed under another routing | changes are approved; explorers only read; refused is refused everywhere |
| **Chat completion and dialects** `core/chat_service.py`, `compat/*`, `endpoints/*_compat.py` | state within one response, the stored baseline | translate, pair, stream, store | providers number tool calls differently; clients resend all they said | results paired with calls; frames in order; what is seen is stored |
| **Memory and projects** `core/memory.py`, `core/retrieval.py`, tools | memories, relations, projects | extract, save, search, list, create, remove | overlapping requests of one user, no unique constraint, a cap counted after the insert | filed once, under one's own project |
| **Accounts and pairing** `core/accounts.py`, `core/identity.py`, `endpoints/accounts.py` | users, projects, identities, session versions, devices, keys | register, sign in, link, replace a password, pair, poll | statements of overlapping requests; a crash between two of them | one default project; a new password signs out; one key per pairing |
| **Providers and settings** `core/credential_store.py`, `core/user_settings_store.py`, `endpoints/byok.py` | credential rows in order, one settings row | connect, update, test, reorder, delete, save | row locks in the order of a list, read-modify-write of settings | one request's order; unique names; nothing saved is lost |
| Context assembly `core/context_builder.py`, `trimming.py`, ... | none | pure functions on messages | - | budget |
| Voice, web research, dashboard, CLI | rows | one call per request | none of their own | - |

How they meet: an MCP call or a chat turn **stages** an action in the pending
store; a confirmation (MCP) or a browser answer (through `ApprovalWaiter`) pops
it and hands it to an executor, which is the registry's **dispatch** when agent
routing is on; the registry moves it over a socket or a held poll and returns
what the agent **submits**. Chat turns and completions go through the
**router**, read and write **sessions**, and trigger **checkpoints** from the
router's failover hook.

## What is modelled

| Module | What it is |
|---|---|
| `AgentRegistry` | `core/agent_registry.py` (jobs, polls, sockets, liveness) with the handlers of `endpoints/agents.py` |
| `JobCall` | abstract: what `dispatch` promises its caller |
| `MCAgentRegistry` | symmetry for the runs |
| `AgentRegistryProofs` | theorems |
| `PendingActions` | `PendingActionStore`, `confirm_action`, `ApprovalWaiter`, the chat stream's pause and cleanup, `chat_approve`, the MCP tool, start-up and shutdown |
| `OneShotApproval` | abstract: what staging and confirming promise together |
| `MCPendingActions` | its two scenes |
| `FailoverRouter` | the attempt loop of `core/router.py` with both transports, `core/provider_health.py`, the plan (`core/selection.py`, `core/user_settings_store.py`) and the credential and routing endpoints of `endpoints/byok.py` |
| `Completion` | abstract: what a chat request may expect of its providers |
| `MCFailoverRouter` | holders and chains for the runs |
| `FailoverRouterProofs` | theorems |
| `SessionStore` | `core/session_store.py` and the requests that load, append and delete, statement by statement |
| `Continuity` | EXTENDS `SessionStore`: task state, todo lists, checkpoints and the failover hook on the same sessions |
| `MCContinuity` | symmetry of the clients; the grouping checked against the loop of the code |
| `ContinuityProofs` | theorems about both |
| `Tunnel` | `core/harness_tunnel.py`, `endpoints/tunnel.py`, the tunnel frames of `endpoints/agents.py` and of `agent/runner.py` |
| `MCTunnel` | its three scenes |
| `TunnelProofs` | theorems |
| `ChatTurn` | `run_agent_turn` of `core/webchat_agent.py` with its event stream and the append of the turn |
| `ChatProofs` | theorems about `PendingActions`, `ChatTurn` and `ToolPairing` |
| `Companion` | `agent/overlay.py` and the envelopes `agent/runner.py` feeds it |
| `MCEndings` | EXTENDS `AgentRegistry` and `ChatTurn`, with `FailoverRouter`, `Companion`: liveness |
| `Accounts`, `Pairing` | `core/accounts.py`, `core/identity.py`, `endpoints/accounts.py` |
| `Grants` | `core/oauth_store.py`, `endpoints/oauth.py` |
| `Providers` | `core/credential_store.py`, `core/user_settings_store.py`, `endpoints/byok.py` |
| `ControlPlane` | handoffs and voice states of `core/agent_registry.py` and `endpoints/agents.py` |
| `Approvals` | `core/harness_approvals.py` |
| `Desktop` | the desktop tools of `core/tool_executor.py` |
| `Services` | those from `Accounts` on composed, with `Companion` |
| `ServicesProofs`, `CompanionProofs` | theorems about `Services`; the second about `ControlPlane`, `Approvals` and `Companion` in it |
| `MCServices` | its scenes and their bounds |
| `ToolGate` | `core/harness_tools.py`, `core/harness_policy.py`, what each surface does with a call, the machine's walls |
| `ToolPairing` | `repair_tool_pairing` and the request translations of `compat/` |
| `Streams` | the stream translators of `compat/` and `core/chat_service.py` |
| `Dialogue` | the Responses and Anthropic endpoints: what they store of a resent conversation |
| `Workflows` | `core/harness_fanout.py`, `harness_explore.py`, `harness_runtime.py`, `harness_bus.py`, `workflow_store.py` |
| `Memories` | `core/memory.py`, `core/retrieval.py`, the memory and project tools |
| `Talk` | `ToolGate`, `Streams`, `Dialogue`, `Workflows` and `Memories` composed |
| `TalkProofs` | theorems about `Talk`, component by component |
| `MCTalk` | EXTENDS `Talk`, with `ToolPairing` for one scene more; its scenes and their bounds |

An operator whose comment begins with `Variant:` is not part of a
specification: it is a plausible mistake in the definition that follows it,
kept beside it, with which a property was seen to fail.

### AgentRegistry

| Code | Model |
|---|---|
| `_queues[u]` | `queue[u]`, a cell; `deque[c]`, its jobs |
| the deque a held poll bound (`_poll_hold`, first line) | `local[p]` |
| `_events[u]` | `event[u]` |
| `_futures[u][j]`, `_jobs[j]` | `future[j]`, `owner[j]`, `expired[j]`, `answer[j]` |
| `_pollers[u]`, `_ws[u]`, `_last_seen` | `pollers[u]`, `sockets[u]`, `seen[u]` |
| the dispatch coroutine | `pc[j]`: `pushing` in `push_ws`, `waiting` at the future |

The model keeps the *identity* of deques, which is where the difficulty is:
`_drop_job` does not remove a job from the deque, it installs a filtered copy
under the user's key, and a poll that bound the old one goes on with the old
one. Jobs are numbered in dispatch order, so a deque is the set of its jobs and
its left end the least of them. Time is a choice: a deadline may pass, a hold
may run out, and an account may have been silent for an hour at any moment.
`heartbeat`'s sweep may forget any subset of the users that
`_prune` would find idle; that is more than the code does (it also waits for a
sweep interval and keeps users with a machine-inventory entry or queued
handoffs), so what holds here holds there.

`ws.send_json` is all or nothing: it returns and the agent has the frame, or it
raises, or is cancelled, and the agent has nothing. `WsFrame` and `WsResult` do
not require a registered socket, because a failed send unregisters a socket
whose receive loop may still be running.

`JobCall` says what a caller may rely on: a call is open from `dispatch` until
its caller has an outcome; it takes at most one answer, from its owner, while
it is open; what an answered call returns was accepted. `OneShotCall` is the
refinement. A call cancelled inside `push_ws` is `abandoned`: its future
stays, and may even be resolved, with nobody waiting.

### PendingActions

| Code | Model |
|---|---|
| `_pending` | `staged` (keys), `owner` |
| age over `TTL_SECONDS` | `old` |
| `_background_tasks` | `writes`: uncommitted inserts and deletes, in no order |
| table `pending_actions` | `rows` |
| `ApprovalWaiter._waiters`, the state of the future | `waiter` |
| the chat stream that staged the token | `stream`: `telling` (the approval event is being sent), `waiting`, `ended` |
| calls of the executor | `ran`, `judge` |

`_sweep` begins `put`, `take` and `peek_type`, and so is part of each action
that calls one. `ConfirmAction` pops the record whatever the answer is.
`ChatApprove` has the two halves of the handler: `Resolve`, and
`PopOrphan` when `resolve` returns False, which it does for an unknown or
foreign token and also for one already answered. The timer of
`wait_for` may fire in the loop pass that resolved the future
(`StreamTimesOut` has no guard on the answer). A browser that goes away
discards the waiter and leaves the record (`StreamDrops`).

Start and stop: `Shutdown` waits for the background writes as the lifespan
does, `Crash` does not. `Boot` is the start-up of `main.py`: it attaches the
engine or not (`Persists`) and reads no rows. The class has a method for that,
`load_persisted`, which only tests call; it is not modelled. `RowsOutlive`
therefore speaks of the rows, which is what the process leaves behind, and
`SurvivesRestart` of the memory after a restart, which finds nothing of them.

`OneShotApproval` has four phases per token: new, staged, run, void. Only
`staged` can become `run`, and only with the owner's subject as judge. The
mapping sends a staged token older than its TTL to `void`, the moment it is too
old: so the refinement also says that an expired token never runs, although the
code removes it only at the next sweep.

### FailoverRouter

| Code | Model |
|---|---|
| a row of `provider_credentials` | `row[c]`, `Holder[c]` |
| `user_settings.routing` | `setting[u]` |
| `cooldown_until` in the future, `HealthTracker.disabled` | `cooling`, `disabled` |
| `attempts` of `byok_attempt_source` | `pool[r]`, `want[r]` (the two reads), then `plan[r]` |
| the `for attempt in attempts` loop | `pos[r]`; `fate[r]` is what became of each candidate |
| `attempt_index`, `checkpoint_fired`, rows given to `run_recorder` | `attempts`, `hooked`, `rows` |
| where the coroutine is suspended | `pc[r]` |

A step is what happens between two awaits: resolving a key is `FindKey`, then
`Send` or `NoKey`; an attempt is `Send`, one of `UpstreamFails`,
`UpstreamDenies`, `LacksModel`, `UpstreamRefuses`, `UpstreamAnswers`, and then
`RunRecorded`, because each branch of the two transports changes the health
before it awaits `_record_run`. `Advance` is the head of the loop: it passes
over every candidate that `is_available` rejects at that instant and stops at
the next, or past the end. It belongs to each step that comes back to the loop.

What is abstracted. Models, tiers and aliases decide the order of a plan and
nothing else, so the order is open: any order of the user's own credentials in
auto mode, any stable partition of a chain (`Floated`). Which status codes fail
over, disable or end a request is the choice between the answers of an attempt.
Whether the request is in a session (and its first failover takes a
checkpoint) and whether it streams are choices too. Time is not measured: a
cooldown may run out at any moment, so its length, `Retry-After` and the
failure count that doubles it are left out. `SaveRouting` accepts a credential
that has been deleted since, because the endpoint validates against rows it
read before it writes.

A request whose client disconnects ends as `cancelled`, in any await; one whose
stream had begun ends as `broken`, like one whose provider stopped.

`Completion` knows, per request, which steps were tried, who served, and how it
ended. A step is tried only while the request is open and only after all lower
ones; only the last step tried may serve; a served request may break but is
never served again. `OneProvider` is the refinement.

### SessionStore and Continuity

| Code | Model |
|---|---|
| a row of `sessions`, and whether it is there | `session` (its key), `lock` (who holds its row lock) |
| message, run, task-state and checkpoint rows | `rows`, told apart by `table` |
| a handler between two statements | `call[c].pc` |
| the advisory transaction lock of `set_state` | `StateLock` |

Transactions are READ COMMITTED: a statement sees what is committed when it
starts. `INSERT ... ON CONFLICT DO NOTHING` followed by `SELECT ... FOR UPDATE`
is two steps, `Insert` and `Select`, with a deletion possible in between
(`SelectNothing` is then `.one()` raising). `Walk` is `_last_turn`: the batch
joins the newest turn unless it starts with a user message. Deletion is its own
statements, children first. A todo tool is a read and a versioned write, which
another client's may come between.

### Tunnel

A frame is a step of its own in each direction, and each socket is a FIFO; a
socket that goes drops what is in it. `spend` is two steps around the pacing
sleep: the cap is looked at before it, the bytes are charged after it. A
response is the sequence of its chunk numbers, so `BodyIsPrefix` says that
nothing is skipped, doubled or reordered; a queue that is full drops its stream
and the reader finds out by its own timer. The agent's stream tasks are part of
the model, including one that cancels itself before its closing frame.

### ChatTurn

`at` is where the generator is suspended. The browser can leave at every
`yield` and every `await`; what follows is the `finally` block, whose append
runs under a shield and may itself be cancelled while it waits for it.
`iteration`, `guards` and `search` are the loop's counters: identical calls,
identical looks, consecutive reads that make it delegate. What the model
answers is a choice of one of `Kinds`, text, or a failure. A message that says
something and calls tools is streamed before it joins the turn: `RouteCalls` may
end in that `yield` (`saying`), and `CallsJoin` is the append behind it. `shown`
counts how far the browser has seen; `ShownIsStored` says that history goes as
far, with the one exception of `TextCut`, a browser that leaves in that `yield`.

### Services

The module `Services` composes the components around the core: each is an
INSTANCE over variables of its own, and a behaviour plays one of them, named by
`scene`. `MCServices` only restricts it: two rows while their order changes, one
while settings are saved; failed passwords are counted where nobody signs in by
GitHub, which reads no counter; three posts of handoffs and
voice states together; one desktop where the desktop is not what is played.

`Accounts`, `Grants`, `Pairing` and `Providers` model a request as its SQL
statements, one action each where another transaction can matter, with row
locks where the code takes them. `InsertDefault` is the INSERT of a default
project and the SELECT that must find exactly one behind it: if a rename since
the first look leaves none to find, `scalar_one` raises and the sign-in is rolled
back (`undone`), so a second default is never committed. In `Providers`, `WriteRow` is one UPDATE of a
reorder: it keeps its lock until the transaction ends, and a cycle of waiters
ends with one rolled back, as PostgreSQL does. `Grants` keeps what consent a
token descends from; `cutoff` is the last time a client was revoked, which a
rotation in flight must not outlive unnoticed. `ControlPlane` has the send and
the queued copy of a handoff as separate steps and remembers deliveries that
crossed. `Approvals` has the SELECT and the DELETE of `resolve` apart.

`Companion` has the agent, the pipe, the reader thread's bounded inbox and the
window's tick as separate actors; durations are ticks in the order of the
constants of `overlay.py`. `Desktop` has windows with controls in slots, and a
user who may move focus, swap windows or replace a control between any two
calls into the operating system; `drifted` and `stale` say whether that
happened since the probe or since the look. A pointed action is several
`SendInput` batches: the move, the click, the click again, and last the
`SetCursorPos` that puts the pointer back, between which the user may move the
pointer (`PointerMoves`). The position may be unreadable and the restore may be
refused without a word; `astray` remembers that, and then the pointer stays on
the target, which `LeavesNoTrace` names.

### Words

`ToolPairing` takes every request up to a length through the real passes
(translate, merge, insert, drop) and compares what is routed with what was
sent; `Streams` feeds every chunk sequence up to a length to the three
translators and compares the frames with each other and with what is stored;
`Dialogue` is the conversation a client resends, over failures, overlapping
requests and retention. `causes` in `Dialogue` names the events after which the
stored history and the conversation part for good: the property is claimed
while none of them has happened, and each is a behaviour of the code. A reply is
text, calls, both, or nothing (`Kinds`): an empty one is stored and shows as no
item, calls alone that were not streamed are stored with content "" and sent back
without any, and text that was streamed behind a call comes back as another
message. What is stored otherwise than it is sent back is the cause `altered`.
`ToolGate` has the tool table itself; a call's arguments are abstracted to
where the rules refuse them. `Workflows` has concurrent steps that share a
timeline, its persisted copy and an inspector that reads either. `Memories` has
the matches of a message, each with the words it caught, since the patterns nest
("remember that I prefer tea" is asked for as "I prefer tea" and guessed as
"preference: tea"), a match by near spelling, and calls of one user or two
between whose statements the others run.

## Runs

| Run | Checks | Shows |
|---|---|---|
| `registry` | `TypeOK`, `SlotsAccounted`, `PushedOnce`, `QueuedIsAwaited` | one account, two jobs, two polls, two machines: slot accounting, queue hygiene and single push under all interleavings of sends, wakes, timeouts, aborts, cancellations |
| `pending` | `WaitersExact`, `RowsOutlive`, `OneShot`, `StreamEnds` | two subjects over all confirmation paths, with the engine attached: scene 1, two tokens and a clean stop between any two steps, writes overtaking each other; scene 2, one token with a stop, a crash and a write the database refuses; the row of an undone action is there after every clean stop |
| `router` | `TypeOK`, `RunsRecorded`, `EndsAsDecided`, `HealthIsEarned`, `OwnCredentials`, `OneProvider` | scene 1, two requests of one user on two credentials: cooldowns set, cleared and running out between any two steps of the other request, hooks, cancellation, streams that break; scene 2, either of two users' requests while the dashboard changes credentials and routing |
| `storage` | `TypeOK`, `StoredAsGrouped`, `DeleteLeavesNothing`, `VersionsHeld` | two clients, three calls of any kind on one conversation: history is grouped and dense, a deletion leaves no row behind, versions follow one another, checkpoints pin what exists |
| `tunnel` | `TypeOK`, `BodyIsPrefix`, `TunnelsHeld`, `OvershootBounded`, `RequestsEnd` | two requests on a tunnel; a request with a body and two machines; two confirmations under a cap of one: no gap, no leaked tunnel, pin or slot, a bounded overshoot of the lifetime cap, and every request ends |
| `endings` | `NoLostWake`, `TablesMatchCalls`, `OneShotCall`, `CallsReturn`, `RequestsEnd`, `TurnSafe`, `TurnAppendedOnce`, `TurnEnds`, `OverlayEnds` | two accounts that sweep each other, a request whose routing changes, a chat turn, a companion window: no wake is lost, the tables are exact, the registry refines `JobCall`, a turn is stored once, and everything that is waited for ends |
| `services` | `IdentitySafe`, `ProvidersSafe`, `CompanionSafe`, `DesktopSafe` | overlapping requests, crashes and expiry on the rows of accounts, grants, pairing and providers; handoffs, held approvals, the window, the desktop |
| `talk` | `RequestsPaired`, `DialectsSafe`, `ToolsSafe`, `RecordsSafe` | messages paired, frames streamed, history stored; each tool on each surface in each mode, two calls at a time; workflows and memories |
| `registry_twice` | `DeliveredOnce` is violated | a poll takes the queued copy of a job while the push of it is in flight, and the push succeeds |
| `pending_orphaned` | `SurvivesRestart` is violated | as `main.py` is wired, a restart loses every staged action |
| `user_turns` | `UserTurnsStored` is violated | after retention has dropped the first turn, a reply stored without the user message it answers |
| `staged_drag` | `StagedRenormalizes` is violated | an approved drag refused for its shape |

**Scenes.** `MCPendingActions`, `MCFailoverRouter`, `MCTunnel`, `MCEndings`,
`MCServices` and `MCTalk` check several configurations or components in one run. A behaviour
plays one scene, chosen in its first state; components outside it keep their
initial states. The components of a scene run share no state in these models,
so nothing is lost by not interleaving them, and the run's states are the sum
of the scenes', not their product. A property of a component holds trivially in
the others' scenes.

`IdentitySafe` stands for `AccountsSafe` (never two default projects, a replaced
password signs everyone out, one GitHub id per account), `GrantSafe` (a token
acts for the consent it came from, a code is used before tokens exist, a
revocation holds but for a rotation that had read before it) and `PairingSafe`;
`CompanionSafe` for `ControlSafe`, `ApprovalSafe`, `OverlaySafe`;
`RequestsPaired` for `RoutedIsPaired`, `PairedIsKept`, `NothingLost`,
`AnswersItsCall` and `RoundTrips` of `ToolPairing`; `DialectsSafe` for that of
`Streams` and `Dialogue`; `RecordsSafe` for `WorkflowSafe` and
`MemorySafe`; `TunnelsHeld` for `Pinned`,
`NoneHalfOpen`, `SlotsOfRunning`; `VersionsHeld` for `HeadHeld`, `PinsExist`.
Each is stated part by part, with the code it is about, in the component's
module.

Several parts say "unless ..." because the code is weaker than one would
first write: two overlapping requests may store a memory twice
(`RepeatsOnlyOverlapping`), a handoff may be shown twice when a poll crossed
the push (`ShownTwiceOnlyIfCrossed`), a click may hit another control if the
desktop changed since the look (`HitsWhatWasSeen`), the pointer may stay away
when the system would not restore it (`LeavesNoTrace`), a text may be shown and
not stored (`ShownIsStored`). The exception is then a
history variable that exactly that event sets, or the state it leads to.

`CapKept` does not say that the project cap holds. The comment at
`mcp.py:1270-1276` calls the cap best-effort: "a burst of distinct-name creates can
overshoot by a few rows". The rows do overshoot in the model, between an INSERT and
the count behind it, and for good if the call stops or fails in between. What never
passes the cap, and what `CapKept` states, is the projects in the caller's list
that a tool has *said* it created: each was there, in the list, before its own
count, so a burst removes too many rather than too few.

Deadlock checking is on for the registry, which can always accept a frame, the
pending store, which can always sweep or boot, and the storage run, in whose
bounded, acyclic behaviours it says that every call comes to its end. It is off
where a system really may stop: all requests over, all bounds used up.

## Bounds

- `NumJobs`, `Users`, `Polls`, `Sockets`, `Tokens` bound how many of each take
  part. Two jobs are what a queue order, a job overtaken by another and a stale
  deque need; two users what foreign submissions and sweeps need; two polls
  what a wake taken by the other poll needs; two sockets what a fallen-through
  send needs. `MaxPolls` and `MaxSockets` are the code's caps, set to the
  number of polls or to 1 so that the cap is met.
- `NumCells` bounds deque objects. `CellsAssumption` makes it larger than the
  number of references (one per user, one per poll), so a new deque always
  finds a free cell and the bound never blocks a step; unreferenced cells are
  reused, as a garbage collector would.
- `MaxStops`, `MaxCrashes`, `MaxFails`, `Deaths` bound restarts, failed
  database calls and crashed windows. One of each is enough to put a stop
  between any two steps; a token that survives one restart is in the state it
  would be in after two.
- `Requests`, `Creds`, `MaxSteps`: requests meet only through `cooling` and
  `disabled`, so what a second request can do to the first is change the health
  of a candidate, which the second one and `CoolDown` do at every point. Two
  candidates are what it takes to fail over, to skip one and use the other, and
  to run past the end. `MaxChanges` bounds what the dashboard does around the
  two reads of a request.
- Storage: `MaxCalls` 3 of two clients. Two overlapping calls and one before
  them to have something stored; `TurnCap` 2 and `ReadCap` 1 are met by the
  third turn. `MaxDeletes` 1: a session deleted and created again is a session
  with another key.
- Tunnel: caps of one (`MaxTunnels`, `MaxStreams`, `QueueSize`, `TotalBytes`) so
  that each is met by the second; two chunks, so that there is an order to
  break.
- Services: two requests at a time, which is what a statement of another
  between two of one's own takes; rows up to the third token (issued, rotated,
  rotated again), the second provider, the second device. `Actions` 2 and
  `Changes` 1 on the desktop: a look or an action, then an action; the change
  may fall anywhere. Three posts are two handoffs, one of them squeezed out of
  the queue, and a voice state, or two voice states, one replacing the other,
  and a handoff.
- Interchangeable values: where nothing distinguishes two values, a run takes
  one of the two orders. `SYMMETRY` does so for the clients of `storage`, the
  accounts, polls and connections of `registry` and the requests of
  `services`. Elsewhere the scene says it: the user who stages the first action
  (`pending`), the credential a first request tries first (`router`), the window
  in front (`services`), the ids and names a stream mentions first (`talk`). Every
  behaviour left out is one that is checked with two names exchanged.
- Words: `Longest` 4 messages (two calls of one turn with their results, or a
  result before its call); `MaxChunks` 3 over two indices, ids and names (a
  call opened, another in between, the first continued); `MaxTalk` 6 with
  `TurnCap` 2 (the third user turn makes retention bite), where an Anthropic
  reply is text or streamed calls, since `FollowsTheTalk` asks what comes back of
  Responses alone (`DialogueOnly`); `user_turns` has one request at a time and a
  `TurnCap` of 1, the least `history_max_turns` a user may set; `Second` is a read of
  the machine, a read of the data and a gesture, which are the three kinds the
  batch rule tells apart; all tools are tried as the first call.
- The theorems have none of these bounds: they hold for every value of the
  constants. `MaxSteps` and `MaxChanges` remain, as any number.

## Fairness

- `AgentRegistry`: weak fairness of a dispatch's send (`ws.send_json` returns,
  or raises when uvicorn's WebSocket keepalive gives the connection up), of a
  dispatcher woken by its future, of the deadline and `wait_for`'s timer, and
  of a held poll's wake and timer. These are the loop's own promises. Nothing
  is assumed of agents, of callers, or of cancellation.
- `PendingActions`: weak fairness of `StreamTimesOut` alone, `wait_for`'s
  300 s timer. A stream in `telling` is not assumed to be read by its browser,
  so `StreamEnds` starts at `waiting`.
- `FailoverRouter`: weak fairness of the steps a request takes by itself:
  database calls return (`ReadRouting`, `Resolved`, `RunRecorded`), the rest of
  `prepare_chat` and the checkpoint hook come back, and an attempt gets some
  answer because httpx's timeouts bound a provider's silence (one that keeps
  trickling bytes is assumed to finish). An open stream may last for ever,
  so `RequestsEnd` is content with `streaming`. Nothing is assumed of the
  dashboard or of cooldowns.
- `Tunnel`: weak fairness of a confirmation's own steps (its timer included)
  and of a public request's own steps, which all end by a timer of
  `endpoints/tunnel.py` if nothing comes. Nothing is assumed of the agent.
- `ChatTurn`: weak fairness of `Step`, the turn's own next step: model calls
  and tools are bounded by timeouts, and their number by `MAX_TOOL_ITERATIONS`
  and the guards (`LoopBounded`). Nothing is assumed of the browser.
- `Companion`: weak fairness of the window's tick and of the reader thread. An
  agent may hang or die.

## Proofs

`AgentRegistryProofs` proves, for every number of users, jobs, polls, sockets
and cells, from `ConstantsAssumption` (caps positive, finitely many
polls) and, where a deque is created, nothing about the number of cells:
`TypeCorrect`, `SlotsNeverLeak`, `WakesAreKept`, `QueueIsAwaited`,
`TablesAreExact`, `OneMachine`, and `RefinesJobCall`. All follow from one
inductive invariant, `IInv` (in `AgentRegistry`). What it adds to the
properties:

- `DequesApart`: no cell serves two users. Without it a `_drop_job` of one
  user could fill the cell another user's poll sleeps on.
- `HoldInv`: a held poll has a user, a cell, and that user's event exists. The
  sweep forgets only users with no held poll, so an event with a sleeper is
  never replaced; this is what `NoLostWake` needs.
- `CallInv`: a resolved future was resolved by its owner, and nothing has been
  pushed before the first send returned; this is what `PushedOnce` and the
  refinement need.

`SlotsAccounted` needs cardinalities: a poll that enters or leaves adds or
removes one element of a finite set (`FiniteSetTheorems`).

`ChatProofs` proves `PendingTypeCorrect` and `WaitersAreExact` for
all constants from `IInv == TypeOK /\ WaitersExact`, which is inductive as it
stands because both the stream and its waiter change in one step between two
awaits. `RunsOnce` and `RefinesOneShotApproval`
use `OnceInv`: an unused token is nowhere, a resolved
future holds the owner's answer, and **an action that ran has left memory**
(`RanIsGone`), which rests on start-up reading no rows: a row may outlive its
record when a delete commits before its insert.
`RowsOutliveTheProcess` needs `DeletesAreLate` and `RowsKept` (`RowsInv`):
background writes commit in any order, and what makes that harmless is that a
delete is only ever issued for an action that was resolved or has expired, while
an undone action's insert is under way until its row is there.

`FailoverRouterProofs` proves every safety property of the router run, for
any users, credentials, holders, requests, chains and bounds, from
`RouterAssumption` (finitely many credentials, each with a holder; plans
bounded by `MaxSteps`): `RouterTypeCorrect`, `RunsAreRecorded`,
`HealthStaysEarned`, `OnlyOwnCredentials`, `EndsAreDecided` and
`RefinesCompletion`. The inductive invariant is the conjunction of

- `SettingsFit` and `PlanAt`: a stored setting is no longer than a plan may be,
  and a plan holds only credentials of the request's pool, all of one holder.
  That auto and chain plans do so is `PlansFit`'s business: a bijection from
  `1 .. n` onto a finite set, or onto the kept steps of a chain.
- `WalkAt`: left of the candidate in hand every fate is a failure or a skip,
  right of it and beyond the plan everything is open, and the fate in hand is
  the one that `pc` says. Without the first half the properties are not
  inductive: nothing else tells a request that comes back from the hook that
  it has not been to the next candidate before. `EndsAsDecided` and the
  refinement both follow from it.
- `RowsAt`: the rows follow `attempts`, one behind while an attempt is in
  flight or being recorded.

Two facts carry most steps. `AdvanceFacts` says what the head of the loop does
to `WalkAt`, once for the four actions that come back to it; `Alone` says that
a request's step leaves the other requests' walks as they are, so each of the
per-request invariants is proved for one request. `HealthIsEarned` needs in
addition that a fate once decided stays (`FatesStay`).

`ContinuityProofs` begins with a theorem about the store alone,
`AppendKeepsTurns`: appending a batch to stored turns that are the newest
`TurnCap` of a history, numbered from zero, gives the newest `TurnCap` turns of
the history with the batch, numbered from zero, wherever the batch begins and
however many turns retention cuts. The model's grouping (`TurnOf`, `Before`)
counts user messages instead of looping over the batch as
`_group_into_turns` does; that the two agree is induction over data, which TLC
does for all short batches (`GroupingIsTheLoop` of `MCContinuity`).

Of the whole module it proves `TypesHold`, `TurnsStayGrouped`,
`DeletionsAreComplete` and `VersionsStayHeld` for any clients, tools, caps and
bounds, from `CapsPositive`, `NoneIsNoClient` and `BoundsAreNat`. The invariant has a part for
each thing the code relies on:

- `RowInv`: whoever walks, writes, sweeps or drops holds the row lock, every
  row belongs to the session that exists, and a deletion about to drop the row
  has in its plan all that refers to it. This is `DeleteLeavesNothing`, and it
  is the foreign keys' work as much as the lock's: without the sweep before the
  drop the second half is not inductive.
- `TaskInv`: between reading a task's head and inserting the next version a
  client holds the advisory lock, no two clients hold the same one, and what a
  pin is about to name exists. `HeadHeld` needs `TopOf` in addition: the newest
  version is a maximum, and a maximum need not exist in an arbitrary state.
- `IdsInv`: a call creates the session at most twice, once when it opens and
  once when it appends after a deletion; so surrogate ids stay below twice the
  calls begun, less those that calls under way can still take.
- `WriteInv`: an append that walked the stored turns under the lock still knows
  the last one when it writes. With `AppendKeepsTurns` this is
  `StoredAsGrouped`.

`TunnelProofs` proves `TypesHold`, `BodiesArePrefixes`, `TunnelsStayHeld` and
`OvershootStaysBounded` for any tokens, sockets, streams and caps, from
`CapsExist`, `SocketsOrdered` and `StreamsFinite`. What the invariant adds:

- `Pinned` leans on `AcksHeld` and `AcksClaimed`: an acknowledgement on a
  linked socket is of a tunnel the machine behind it claimed, and one taken is of
  a tunnel already pinned.
- `Spending` counts: the bytes of a tunnel and the spenders asleep in their
  pacing stay below the cap plus two for each of its requests. A spender looks
  at the cap before it sleeps and pays after it, so the property alone, which
  has no term for the sleepers, is not inductive.
- `InOrder`, `HeadOnce`, `OnLinked` follow one stream over the wires: one head
  frame, then items on one socket in increasing order, bounded below by what is
  due next at the client and above by what the machine has sent. `BodyIsPrefix`
  is the end of that chain. It is proved for one stream at a time
  (`StreamKept`), and `QuietKeeps` says once for all that a step which leaves a
  stream's frames, queue and task alone keeps its part.

`TalkProofs` proves `ToolsStaySafe`, `RecordsStaySafe` and `DialectsStaySafe`
of `TalkSpec`, for any tools in the second place, plans, rings, users, callers,
words, ids, indices and conversations, without the bounds of the run. It assumes
`SecondNames` (the second call names a tool or something unknown) and
`TalkAssumption`: the caps are numbers, a history keeps at least one turn and
the event ring one event, as their settings do, and a finished request brings
finitely many messages. `TalkInv` is the conjunction of one inductive invariant
for each component; `TalkStep` puts them together, since a step of `Talk` is a
step of one component or leaves its variables alone. What they add:

- `GateInv` says of a call asking for its user's word or granted it that the
  server's rules let it through, that its tool needs approval, that no explorer
  made it and that it is not in a batch (`UsesSound`), and the like of staged
  actions, jobs and effects. The lemmas `McpOutcome`, `ChatOutcome`, `ExplorerOutcome`,
  `ConfirmedOutcome` say for each surface what the outcome of a call can be; they rest
  on `NamesAre`, which computes from the table of the registry, for every name,
  the sets each surface derives from it. A new tool whose entry has it in the
  wrong set would fail there.
- `WorkInv`: `Stamped` (stamps never go back, so two events of the log can only
  tie or follow) and `RowsHeld` (an event is inserted by one task, once) are what
  puts the persisted timeline in order whatever order the inserts commit in.
  `Followed` is the argument about the inspector: what it has sent and what it
  is about to send are growing, the first before the second, and an event with
  a stamp at or before the last one sent was sent, is in the batch, has left the
  ring, or *ties* with one that was sent. The tie is the case the code skips,
  and why `InspectorFollows` names it. `JobHeld` ties the charged calls and the
  merged findings to where the workflow is: what is merged is the completed
  steps in order and what is charged is what they made.
- `MemInv`: `BatchHeld` says that the rows a request is about to insert are in
  none of the memories it *saw*, which is all a transaction can know, and why a
  repeat needs two that overlap; `ProjectHeld` that a project between a call's
  check and its use is the caller's own, and that one refused for the cap is
  gone; `ClaimsApart` that no two calls hold the same new project. `Capped`
  counts only projects a call was told of, since an insert precedes its count.
- `StreamInv`: `Held` relates the frames to the text and the calls as they are
  so far. Blocks are numbered in the order they were opened, each has one first
  frame; every piece a call or the text has was sent under its block and every
  piece sent is held by the owner of its block, in the order of the chunks.
  `ApartHeld` goes back to the chunks: an argument fragment belongs to one call.
  `EndHeld` is about closing frames: none while the stream is open, then one
  for each block and the end last (`ClosingBlocks`, for the two orders in which
  the dialects close). `Held` is proved for the three ways in which a chunk can matter, a
  block opened, a piece for the text, a piece for a call, and both dialects
  are compositions of those.
- `DialInv`: `FollowHeld` is why the history stays the beginning of the
  conversation: the base a request read is the beginning of what it was sent
  (`BasesHeld`), a streamed answer is in the client's conversation before it is
  stored (`StreamsHeld`), and only an answer still on its way may put the
  history one message ahead (`Reaches`). `PairsUpstream` rests on `Paired`, that
  a result comes right behind its call, in what the client says and in an
  Anthropic history, where retention keeps it because it cuts at a user turn
  (`RetainedIs`).

`ChatProofs` also proves `TurnsAreSafe` and `TurnsAreAppendedOnce`, of the turn
itself, for any calls and limits, from `IterationsAreNat`. `PlacedInv` places each result of the turn
after the message that asked for it, `RoundInv` says that the results given so
far are the turn's last messages once the calls have joined it (`Unjoined`),
`ShownInv` that the browser has seen no more than the turn holds, but for a text
whose message is about to join it, `LoopInv` ties the provider calls to the
iterations and to where the loop is, and `StoreInv` is the argument about
disconnects: the turn has been committed exactly when it is past the
generation of its answer, however it got there, an append is under way or
finished exactly when it is committed, and what history then holds is the
whole turn as it still stands.

Last, `ChatProofs` proves `RequestsArePaired` of `PairingSpec`: all five parts of
`RequestsPaired`, for requests of every length and any ids, from
`LongestAssumption` (the length is a number). The two passes of the repair and
the loop over a Responses client's items are recursive functions over the
list. `StepByStep` shows that such a function exists as a run of the step it
repeats, and `UpTo` that what each step keeps holds at the end of the run; both
rest on a least element of a set of numbers (`LeastNumber`), so nothing is
assumed of the recursion. What holds between two steps of the repair is `Laid`:

- `Fits`: a turn stands at the place it counts, its results right behind it, one
  for each id it counts as covered and none twice.
- `Apart`: turns with their results do not overlap. This is what an insertion
  needs to move only what stands behind it, and where `Shifted` matters.
- `Stands`: every message with calls is a turn and every result is behind one.

`AttachKeeps` shows that binding a result keeps all three and loses no message.
Once the calls nothing answered are dropped, what a turn asks for is what it
covers, and that is `RoutedIsPaired` (`DroppedIsPaired`). The other parts are runs with one more
fact each: on a list that paired, `out` is the prefix read (`KeptStep`); every
message read is in `out` or waits (`NoneLost`); a result whose call came before it is
bound to that call as long as every id is asked for and answered once
(`FaithfulStep`). A list the repair has made is one it leaves alone, so a second pass
changes nothing. `RoundTrips` goes along a routed list: what the
translation has made of the items of its first messages is those messages, the
last of them perhaps still pending (`SaidAgain`); `FlattenJoins` and `FlattenedAt` say what
`FlattenSeq` returns.

`ServicesProofs` proves `IdentityIsSafe`, `ProvidersStaySafe`
and `DesktopsStaySafe` of the composition, and
`CompanionProofs` `HeldActionsStaySafe` and `CompanionsStaySafe`: for any users,
requests, clients, tokens, calls, windows, controls, handoffs and places, without
the bounds of the runs, from `ServicesAssumption` (a time to live is a number,
the slots of a screen are finitely many positions, the companion's inbox holds
a message at least and a flight takes a frame, the bounds of the control plane
are numbers). Each component has an inductive invariant over its own variables
(`AccountInv`, `GrantInv`, `PairInv`, `ProviderInv`, `DesktopInv`;
`HoldInv`, `ControlInv`, `OverlayInv`); a step of the composition is a step of
one component or leaves its variables alone, so they are put together in the
last lines of each module. What they add to the properties is what a request
knows between two of its statements:

- `AccountRequest`: a request about to write a cookie, a default project or a
  GitHub id still knows what it read of them, or the account is one that two
  requests met at (`overlapped`). `VersionsCount` ties a cookie to the number of
  times its account's password was replaced.
- `TokensDescend` and `RequestsDescend`: every token, and every exchange or
  rotation that is about to mint one, has the user and the client of a used
  code, and that code a consent (`Agreed`). `CutoffsPast` keeps a revocation
  among what was stored at its time, so that only what is minted later, by a
  rotation in flight, is usable after it.
- `PollsClaimed` and `ClaimedOnce`: the UPDATE that claims an approved pairing
  is what mints a key, so at most one poll is past it.
- `CallersSound`: an order that is being written names every connected row,
  unless one was connected since its check (`late`); so whichever order commits
  has given every row its place.
- `ResolveSound`: what a resolver read, its row's owner and deadline, is
  compared with the row as it was minted, not as it is: the row may be gone.
- `ReadSound` and `MeantIsThere`: as long as nothing has made the last look
  stale, every C id it handed out is still the control in that place of the
  window, so an action that was staged or resolved from it is aimed at what was
  meant. `ProbeHolds`: a probe that answered "no" means what it says until the
  focus moves, which is what `drifted` remembers. `Restored` follows the saved position: while an action has the pointer, what
  was saved is the user's spot or nothing, unless an earlier action already left
  it astray.

- `Counted`: a handoff's showings, plus one for a push under way, plus one for
  a poll's answer that holds it, are one at most, or two if a poll took its copy
  while the push was awaited; and if one that was pushed still has its copy in
  the queue, its post has not been answered yet. Neither how often it was shown nor where it is is inductive by
  itself: `ShownTwiceOnlyIfCrossed` is the sum with the last two terms left out.
- `Kept`: while a push is awaited its copy waits for a poll or has gone out, and
  what was sent is on the wire or out; so a post that drops the copy drops
  nothing that was not sent. A voice state replaced by a newer one is exempt
  (`Matters`).
- `FaceComes` and `PointComes`: of all faces between the agent and the window,
  in the pipe, then in the inbox, then drawn, the last one is honest about what
  the agent does *now*; and of all settles, targets and points the last one
  leads to where the agent believes the pointer to be. This is what `FaceHonest`
  and `EstimateHolds` say when pipe and inbox are empty. A tick obeys its
  messages in one step: `ObeyAllDoes` goes along them by the least message that
  would break it (`UpTo`). When the end of the pipe makes room in a full inbox
  the agent is dead, and both are about a live one.

These definitions were rewritten so that the prover can see into them, and say
the same as before: uniqueness in `Accounts` by equality of elements instead of
cardinality, the order of the rows in `Providers` by counting the rows before
one instead of sorting, the order of the controls of a window in `Desktop` in the
same way (`InOrder`), the records of `Approvals` field by field, the handoff
taken out of the queue in `ControlPlane` by its place instead of a filter
(`Without`; `Once` shows that its id is there once), and the messages of a
tick in `Companion` by a recursive function instead of a fold (`ObeyAll`);
what is stored of a stream in `Streams` (`ByIndex`), what is merged and listed
in `Workflows` (`InOrder`: some sequence of just these steps in the plan's
order, which is unique) and the beginning of a conversation in `Dialogue`
(`Begins`) by what they are instead of how they are computed.

The theorems are about each module's own specification (`StorageSpec`,
`TunnelSpec`, `TurnSpec`, `PairingSpec`, `ServicesSpec`, `TalkSpec`, ...). The run `endings`
plays the same actions as scenes of a larger one, in which the others'
variables stay as they are; `MCSpec` of `MCServices` and of `MCTalk` only
restricts `ServicesSpec` and `TalkSpec`, the second beside a scene that plays
`PairingSpec` while `TalkSpec` stutters. `TypeOK` of `PendingActions` is part of the invariant
`IInv` and is proved (`PendingTypeCorrect`), so no run repeats it.

Looking for these proofs made two statements sharper. `StoredAsGrouped` says
which turns are stored, the newest `TurnCap` of all that was appended; a
weaker form, that what is stored is grouped and a suffix of it, would allow
retention to drop a turn too many and is not what an append can build on.
`TunnelsHeld` alone says nothing of the frames under way, and `OvershootBounded`
nothing of sleeping spenders: neither is inductive, which is where the hazards
behind them are.

Only model-checked, with the reason:

- Liveness (`StreamEnds`, `RequestsEnd`, `CallsReturn`, `TurnEnds`,
  `OverlayEnds`): fairness and ENABLED are outside the prover.
- `GroupingIsTheLoop` (`MCContinuity`): the loop that groups messages into turns,
  compared with its definition over all short batches, as an assumption TLC
  evaluates.

Every safety property of the passing runs has a theorem.

## What the code does not keep

1. **A job can execute twice** (`registry_twice`). `dispatch` queues the job,
   signals the event, then awaits the send, and drops the queued copy only when
   the send has succeeded. A poll that comes while the send is in flight pops the
   copy and answers with it; then the send succeeds, and `_drop_job` finds nothing
   to remove. The docstring promises that the job is "pushed to exactly one socket
   and removed from the poll queue so it never executes twice". Two theorems say how far the promise does hold: one
   *push* (`OneMachine`), one *answer* (`RefinesJobCall`).
2. **Staged actions do not survive a restart** (`pending_orphaned`). `main.py`
   attaches the engine and never calls `load_persisted`; the test fixture does.
3. **User messages of a Responses client stop being stored** (`user_turns`).
   `_suffix_after_history` compares the stored history with the beginning of
   the resent conversation. Once retention has dropped the oldest turn it never
   matches again, and only replies are stored: the user message they answer is
   not. Reading the history unbounded, as the endpoint does to prevent this, does
   not help, since retention deletes the rows. Other causes part the two as well
   (`FollowsTheTalk` names them), the run keeps to this one.
4. **A staged drag cannot run** (`staged_drag`). Its arguments are stored as
   `{"from", "to"}` and normalised again on the machine, which looks for
   `control_from` or `x1`, `y1`.

The modules state more that the documents or comments promise and the code does
not keep; no run of this directory checks these, and each fails in the
instance of its module's run or, where noted, a slightly larger one:

| Statement | Promise | What happens |
|---|---|---|
| `QueueDrained` (`AgentRegistry`) | `agent_registry.py:480`: removed "on EVERY exit path" | the send stands before the `try`: a cancellation inside it skips the `finally`. `QueueIsAwaited` proves it is the only such path |
| `PinnedAttemptsOne` (`FailoverRouter`) | `docs/CONFIGURATION.md`: "no silent substitution" | a pinned setting that names no row read before it becomes auto |
| `ModelErrorMeansAll` (`FailoverRouter`) | `router.py:764`: "If EVERY credential rejects the model" | one candidate's model error is raised whatever became of the others |
| `LoadPairs` (`SessionStore`) | `session_store.py:115`: never "an unpairable head" | a deletion between an answer and its append leaves a result at the head |
| `TodoIdsUnique` (`Continuity`) | `todos.py`: ids "never reused within a session" | two clients add at once, or the session is cleared |
| `PlanReadsOnly` (`ToolGate`) | `docs/SECURITY.md:237`: plan mode cannot mutate "by construction" | a call is executed by its name; `memory_save` and its like are not looked up in what the mode offered |
| `EarlyResultWaits` (`ToolPairing`) | `compat/common.py:111`: a result before its call is buffered | it is given to an earlier turn with a call open |
| `LateIdFills` (`Streams`) | `docs/ARCHITECTURE.md`: a late id "only fills a gap" | it opens a second, nameless call |
| `CutAnswerSaysSo` (`Streams`) | `compat/responses.py:531`: "exactly like the non-streaming shape" | an answer cut for its length ends as completed |
| `ChatIdsKept` (`Streams`) | `chat_service.py:103`: history "matches what the client actually received" | an id sent to the client is not the one stored |
| `OutputInPlace`, `EndIsKept` (`Streams`) | none in words | an item of the completed response stands at another index than it was streamed under; a client that leaves on the last frame leaves before the append |
| `CallsAreCapped` (`Workflows`) | `harness_fanout.py:27`: "at most FANOUT_MAX_ITERATIONS provider calls" | the call past the cap, the report without tools and every repeated call for a withdrawn tool are provider calls too |
| `ResolvedOnce` (`Approvals`) | `harness_approvals.py`: "Single-use" | two resolvers both read the row before either deletes it |
| `CodeUsedOnce` (`Grants`) | `oauth_store.py:133`: "marked used exactly once" | two overlapping exchanges of a code both get past the check |
| `NewProviderLast` (`Providers`, three names) | `db.py:740`: new rows "take their place from the create-time position" | a new row gets 0 and comes among the rows a reorder has numbered from 0 |

The router's documents disagree among themselves in two places, where the
models follow the code: the repository's `README.md` has a 401 or 403 skip a
provider "for this request", `docs/API_REFERENCE.md` and the code disable it
until the process restarts; and the table in `docs/API_REFERENCE.md` has
"other 4xx" abort while 402, 404, 408 and 413 fail over.

Behaviours the models show that no document contradicts outright: a browser
that leaves in the very event that brings the text of a message with calls has
seen a text that history never gets (`TextCut`), because the message joins the
turn behind that `yield`; a browser that leaves while the finished turn's own
append runs cancels that append, which alone is not shielded (`LostOnlyThere`);
a pointer whose position could not be read, or not restored, stays where an
action left it; a second
approve request that arrives after the first was accepted, and before the
stream has woken, pops the record, so an answered "approved" ends as declined;
a stream whose browser has gone leaves its action confirmable through MCP
until it expires, although a comment in `_execute_call` says that a disconnect
declines; `memory_list` without a project lists every project's memories while
`memory_search` without one searches only those filed under none.

## Not modelled

- Cryptography, parsing, rendering, audit rows, log lines, wording.
- The bodies of the file, git, shell and web tools, and the images and control
  trees of the desktop tools: sequential functions of their arguments.
- The machine inventory of the registry (display data).
- Legacy records without a subject: `put` gets one from every caller in
  `src/invincible/`.
- Of the router: cooldown lengths and `Retry-After`, models, tiers and
  aliases, `AttemptTrace`, metrics, the events sent to the bus. Credential ids
  are database keys, never used twice, so a disabled id never comes back as
  another row.
- The composition of components that only call each other once. What a chat
  turn needs of its tools (an answer, a refusal, or silence until a timeout) is
  a choice in `ChatTurn`; that the registry, the pending store and the router
  give exactly that is what `JobCall`, `OneShotApproval` and `Completion` state
  and their refinements show.
- Context assembly (compression, trimming, projection): pure functions that
  shorten texts.
- Components listed as `not_modelled` in `PROJECT.json`, each with its reason.

## Plan

Done: the core (`AgentRegistry`, `PendingActions`, `FailoverRouter`) with its
abstract specifications and proofs, and models of the parts around it. Next:

1. An abstract log of whole turns which `SessionStore` refines, from
   `AppendKeepsTurns`.
2. `ChatTurn` composed with the tool gate's calls.
