----------------------------- MODULE Workflows -----------------------------
(***************************************************************************)
(* Delegated work and its timeline: the fan-out of a task to parallel      *)
(* steps, each a bounded loop of provider calls (core/harness_fanout.py,   *)
(* core/harness_explore.py), the workflow loop (core/harness_runtime.py),  *)
(* the event bus they emit on (core/harness_bus.py), the rows it persists  *)
(* (core/workflow_store.py) and the inspector that follows it              *)
(* (harness_events_ws of endpoints/agents.py).                             *)
(*                                                                         *)
(* Steps run concurrently on one event loop; between awaits the code is    *)
(* atomic, and an event is stamped, stored and broadcast where it is       *)
(* emitted.  Texts, prompts and arguments are left out: a tool call is its *)
(* key, equal or not to the previous call's.                               *)
(***************************************************************************)
EXTENDS Naturals, Sequences, FiniteSets

CONSTANTS
    Planned,       \* bound: steps a planner's reply holds
    MaxWidth,      \* FANOUT_MAX_WIDTH
    MaxIterations, \* FANOUT_MAX_ITERATIONS, EXPLORE_MAX_ITERATIONS
    RepeatLimit,   \* FANOUT_REPEAT_LIMIT, EXPLORE_REPEAT_LIMIT
    MaxSteps,      \* max_steps of a workflow
    HistoryLimit,  \* HISTORY_LIMIT of the bus
    Stubborn,      \* bound: calls for tools a model makes after they were withdrawn
    Stored,        \* bound: the first events, whose inserts are followed
    LastTime       \* bound: values of the wall clock

VARIABLES
    job,       \* what the turn is doing: a fan-out or a workflow, or its result
    steps,     \* the steps of the plan, or the workflow's turns
    findings,  \* the merged steps, in order
    charged,   \* provider calls the turn was told of
    clock,     \* the wall clock that stamps events
    events,    \* history: every event emitted
    oldest,    \* how many events the bounded history has let go
    rows,      \* workflow_events, in the order of their ids
    writing,   \* inserts under way
    inspector, \* the socket: what it has sent, its stamp, what it is sending
    follower   \* who follows the bus: the attached engine or an inspector

workflowVars == <<job, steps, findings, charged, clock, events, oldest, rows,
                  writing, inspector, follower>>
-----------------------------------------------------------------------------
(* The bus.                                                                *)

Least(m, n) == IF m < n THEN m ELSE n
Set(s) == {s[k] : k \in DOMAIN s}

\* The ways to write a set of numbers in order: there is one.
InOrder(S) ==
    {s \in [1 .. Cardinality(S) -> S] : \A i, j \in DOMAIN s : i < j => s[i] < s[j]}

Event(type, n) == [type |-> type, of |-> n, ts |-> clock]

\* Stamp, store, broadcast, and schedule the insert, which needs an engine.
Emit(new) ==
    /\ events' = events \o new
    /\ oldest' = IF oldest + HistoryLimit < Len(events') THEN Len(events') - HistoryLimit
                 ELSE oldest
    /\ writing' = IF follower = "engine"
                  THEN writing \cup (Len(events) + 1 .. Least(Len(events'), Stored))
                  ELSE writing
    /\ UNCHANGED follower

\* The inserts commit in any order, or fail and are only logged.
InsertEnds(i) ==
    /\ i \in writing /\ writing' = writing \ {i}
    /\ rows' \in {rows, Append(rows, i)}
    /\ UNCHANGED <<job, steps, findings, charged, clock, events, oldest, inspector, follower>>

ClockAdvances ==
    /\ clock < LastTime /\ clock' = clock + 1
    /\ UNCHANGED <<job, steps, findings, charged, events, oldest, rows, writing, inspector, follower>>

\* list_workflow_events: by stamp, then by row.
ListedBefore(r, s) ==
    \/ events[rows[r]].ts < events[rows[s]].ts
    \/ events[rows[r]].ts = events[rows[s]].ts /\ r < s
-----------------------------------------------------------------------------
(* The inspector.                                                          *)

\* Variant: events of the last stamp are sent again.
HistoryAgain(since) == {i \in oldest + 1 .. Len(events) : events[i].ts >= since}

\* bus.history: what the ring still holds, newer than the last stamp sent.
History(since) == {i \in oldest + 1 .. Len(events) : events[i].ts > since}

\* A connection replays the history; afterwards a poll every second.
Fetch ==
    /\ follower = "inspector" /\ inspector.batch = <<>>
    /\ History(inspector.since) # {}
    /\ \E batch \in InOrder(History(inspector.since)) :
           inspector' = [inspector EXCEPT !.batch = batch]
    /\ UNCHANGED <<job, steps, findings, charged, clock, events, oldest, rows, writing, follower>>

SendEvent ==
    /\ inspector.batch # <<>>
    /\ LET i == Head(inspector.batch)
       IN inspector' = [sent |-> Append(inspector.sent, i), since |-> events[i].ts,
                        batch |-> Tail(inspector.batch)]
    /\ UNCHANGED <<job, steps, findings, charged, clock, events, oldest, rows, writing, follower>>
-----------------------------------------------------------------------------
(* One step of a fan-out; an exploration is the same loop on its own.      *)

Fresh == [pc |-> "ask", calls |-> 0, iteration |-> 0, repeats |-> 0, tripped |-> FALSE,
          late |-> 0]

\* Past the cap, or after the same call again and again, no tools are offered.
Withdrawn(s) == s.iteration > MaxIterations \/ s.tripped

Become(n, s) == steps' = [steps EXCEPT ![n] = s]

\* The provider answers with text: the step is over.
AnswerText(n) ==
    /\ job = "fanout" /\ steps[n].pc = "ask"
    /\ Become(n, [steps[n] EXCEPT !.pc = "done", !.calls = @ + 1])
    /\ Emit(<<Event("subagent.completed", n)>>)
    /\ UNCHANGED <<job, findings, charged, clock, rows, inspector>>

\* The provider answers with a tool call, which is taken even when no tools were
\* offered.
AnswerCall(n, same) ==
    LET s == steps[n]
        repeats == IF same /\ s.repeats > 0 THEN s.repeats + 1 ELSE 1
    IN /\ job = "fanout" /\ s.pc = "ask"
       /\ Withdrawn(s) => s.late < Stubborn
       /\ Become(n, [s EXCEPT !.pc = "tools", !.calls = @ + 1, !.repeats = repeats,
                              !.tripped = @ \/ repeats >= RepeatLimit,
                              !.late = IF Withdrawn(s) THEN @ + 1 ELSE @])
       /\ UNCHANGED <<job, findings, charged, clock, events, oldest, rows, writing, inspector, follower>>

\* The tool's result, an error included, goes back to the model.
ToolReturns(n) ==
    /\ job = "fanout" /\ steps[n].pc = "tools"
    /\ Become(n, [steps[n] EXCEPT !.pc = "ask", !.iteration = @ + 1])
    /\ UNCHANGED <<job, findings, charged, clock, events, oldest, rows, writing, inspector, follower>>

\* Every provider failed, or the reply had no message.
CallFails(n) ==
    /\ job = "fanout" /\ steps[n].pc = "ask"
    /\ Become(n, [steps[n] EXCEPT !.pc = "failed", !.calls = @ + 1])
    /\ Emit(<<Event("subagent.failed", n)>>)
    /\ UNCHANGED <<job, findings, charged, clock, rows, inspector>>

\* The planner's reply: its valid steps, cut to the width, start at once; none
\* is an empty result.
Plan(width) ==
    /\ job = "planning"
    /\ charged' = 1
    /\ IF width = 0
       THEN job' = "merged" /\ UNCHANGED steps /\ Emit(<<Event("plan.created", 0)>>)
       ELSE /\ job' = "fanout"
            /\ steps' = [n \in 1 .. Least(width, MaxWidth) |-> Fresh]
            /\ Emit((IF width > MaxWidth THEN <<Event("log", 0)>> ELSE <<>>)
                      \o <<Event("plan.created", 0)>>
                      \o [n \in 1 .. Least(width, MaxWidth) |->
                            Event("subagent.started", n)])
    /\ UNCHANGED <<findings, clock, rows, inspector>>

PlanFails ==
    /\ job = "planning" /\ job' = "raised"
    /\ UNCHANGED <<steps, findings, charged, clock, events, oldest, rows, writing, inspector, follower>>

\* The provider calls of some steps, by their places.
CallsOf(some) == UNION {{n} \X (1 .. steps[n].calls) : n \in some}

\* Variant: the first failed step ends the merge.
MergeFirst ==
    /\ job = "fanout" /\ \A n \in DOMAIN steps : steps[n].pc \in {"done", "failed"}
    /\ job' = "merged"
    /\ LET failures == {n \in DOMAIN steps : steps[n].pc = "failed"}
           merged == {n \in DOMAIN steps : \A m \in failures : n < m}
       IN /\ findings' \in InOrder(merged)
          /\ charged' = charged + Cardinality(CallsOf(merged))
    /\ UNCHANGED <<steps, clock, events, oldest, rows, writing, inspector, follower>>

\* gather is over: the steps that completed are merged in the plan's order and
\* their calls are charged.
Merge ==
    /\ job = "fanout" /\ \A n \in DOMAIN steps : steps[n].pc \in {"done", "failed"}
    /\ job' = "merged"
    /\ LET merged == {n \in DOMAIN steps : steps[n].pc = "done"}
       IN /\ findings' \in InOrder(merged)
          /\ charged' = charged + Cardinality(CallsOf(merged))
    /\ UNCHANGED <<steps, clock, events, oldest, rows, writing, inspector, follower>>
-----------------------------------------------------------------------------
(* A workflow: turns of one model, each with at most one tool call here.   *)

Turns == Len(steps)

\* Nothing left to call: the workflow completes.
WorkflowText ==
    /\ job = "workflow" /\ Turns < MaxSteps
    /\ job' = "completed"
    /\ Emit(<<Event("model.completed", 0), Event("workflow.completed", 0)>>)
    /\ UNCHANGED <<steps, findings, charged, clock, rows, inspector>>

\* The policy's verdict, asked before anything is requested.
WorkflowPolicy(blocked) ==
    /\ job = "workflow" /\ Turns < MaxSteps
    /\ IF blocked
       THEN /\ steps' = Append(steps, [Fresh EXCEPT !.pc = "blocked"])
            /\ Emit(<<Event("tool.failed", Turns + 1)>>)
            /\ UNCHANGED job
       ELSE /\ job' = "executing"
            /\ Emit(<<Event("tool.requested", Turns + 1)>>)
            /\ UNCHANGED steps
    /\ UNCHANGED <<findings, charged, clock, rows, inspector>>

\* The step's result, a failure included; a checkpoint that cannot be stored
\* ends the workflow without an event of its own.
WorkflowResult(ok, stored) ==
    /\ job = "executing"
    /\ steps' = Append(steps, [Fresh EXCEPT !.pc = IF ok THEN "done" ELSE "failed"])
    /\ job' = IF ok /\ ~stored THEN "raised" ELSE "workflow"
    /\ Emit(<<Event(IF ok THEN "tool.completed" ELSE "tool.failed", Turns + 1)>>)
    /\ UNCHANGED <<findings, charged, clock, rows, inspector>>

WorkflowStepLimit ==
    /\ job = "workflow" /\ Turns = MaxSteps
    /\ job' = "exhausted"
    /\ Emit(<<Event("workflow.failed", 0)>>)
    /\ UNCHANGED <<steps, findings, charged, clock, rows, inspector>>
-----------------------------------------------------------------------------
WorkflowInit ==
    /\ job \in {"planning", "workflow"}
    /\ steps = <<>> /\ findings = <<>> /\ charged = 0 /\ clock = 1
    /\ events = IF job = "workflow" THEN <<Event("workflow.started", 0)>> ELSE <<>>
    /\ oldest = 0 /\ rows = <<>>
    /\ follower \in {"engine", "inspector"}
    /\ writing = IF follower = "engine" THEN DOMAIN events ELSE {}
    /\ inspector = [sent |-> <<>>, since |-> 0, batch |-> <<>>]

FanOut ==
    \/ \E n \in DOMAIN steps :
          \/ AnswerText(n) \/ CallFails(n) \/ ToolReturns(n)
          \/ \E same \in BOOLEAN : AnswerCall(n, same)
    \/ \E width \in 0 .. Planned : Plan(width)
    \/ PlanFails \/ Merge

Workflow ==
    \/ WorkflowText \/ WorkflowStepLimit
    \/ \E b \in BOOLEAN : WorkflowPolicy(b)
    \/ \E ok, stored \in BOOLEAN : WorkflowResult(ok, stored)

WorkflowsNext ==
    \/ FanOut \/ Workflow
    \/ \E i \in writing : InsertEnds(i)
    \/ ClockAdvances \/ Fetch \/ SendEvent
-----------------------------------------------------------------------------
WorkflowTypeOK ==
    /\ Len(events) - oldest <= HistoryLimit
    /\ writing \subseteq DOMAIN events
    /\ \A r, s \in DOMAIN rows : rows[r] = rows[s] => r = s

\* A failed step never hides another's findings: the merge holds the completed
\* steps in the plan's order, and what the turn is charged is short of the calls
\* made by exactly the calls of the failed steps.
MergeIsComplete ==
    job = "merged" /\ steps # <<>> =>
        LET failures == {n \in DOMAIN steps : steps[n].pc = "failed"}
        IN /\ Set(findings) = DOMAIN steps \ failures
           /\ \A i, j \in DOMAIN findings : i < j => findings[i] < findings[j]
           /\ charged + Cardinality(CallsOf(failures)) = 1 + Cardinality(CallsOf(DOMAIN steps))

\* Whatever order the inserts commit in, the timeline lists two stored events
\* in the order they were emitted unless they carry the same stamp.
TimelineInOrder ==
    \A r, s \in DOMAIN rows :
        ListedBefore(r, s) /\ rows[r] > rows[s] => events[rows[r]].ts = events[rows[s]].ts

\* The inspector sends events once and in order; one it has passed over had the
\* stamp of one it sent, or had left the bounded history.
InspectorFollows ==
    /\ \A i, j \in DOMAIN inspector.sent : i < j => inspector.sent[i] < inspector.sent[j]
    /\ \A i \in DOMAIN events :
          events[i].ts <= inspector.since
            => \/ i \in Set(inspector.sent) \cup Set(inspector.batch)
               \/ i <= oldest
               \/ \E j \in Set(inspector.sent) : events[j].ts = events[i].ts

\* A workflow's last event says how it ended, and only its last one.
EndsOnce ==
    LET ends == {i \in DOMAIN events :
                    events[i].type \in {"workflow.completed", "workflow.failed"}}
    IN ends # {} => ends = {Len(events)} /\ job \in {"completed", "exhausted"}

WorkflowSafe ==
    /\ WorkflowTypeOK /\ MergeIsComplete /\ TimelineInOrder /\ InspectorFollows
    /\ EndsOnce

\* A step makes no more provider calls than its cap allows: the iterations, the
\* one past them, and the report asked for without tools.
CallsAreCapped == \A n \in DOMAIN steps : steps[n].calls <= MaxIterations + 2
=============================================================================
