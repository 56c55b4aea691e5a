------------------------------ MODULE ToolGate ------------------------------
(***************************************************************************)
(* Which tool runs, where, and on whose word: the tool registry            *)
(* (core/harness_tools.py), the policy gate (core/harness_policy.py), the  *)
(* surfaces a model calls tools through (endpoints/mcp.py,                 *)
(* core/webchat_agent.py, core/harness_explore.py, core/harness_fanout.py) *)
(* and the walls of the paired machine (agent/runner.py,                   *)
(* agent/sandbox.py).                                                      *)
(*                                                                         *)
(* One account.  What the arguments of a call mean to a rule is a choice:  *)
(* "refused" holds the places whose rules refuse them, the server, the     *)
(* paired machine or both.  The queue a job travels by is AgentRegistry,   *)
(* the life of a token PendingActions.                                     *)
(***************************************************************************)
EXTENDS Naturals, Sequences, FiniteSets

CONSTANTS
    Second  \* bound: tools the second call of one assistant message may name

VARIABLES
    routing,  \* INVINCIBLE_AGENT_ROUTING of the running process
    online,   \* the paired machine answers
    turn,     \* the calls a model makes, or Idle
    pending,  \* staged actions: the tool and its arguments
    jobs,     \* jobs on their way to the machine
    effects   \* what the calls of this turn did, with the reason

toolVars == <<routing, online, turn, pending, jobs, effects>>

Acting == {"manual", "auto"}
AllModes == {"plan", "manual", "auto"}
-----------------------------------------------------------------------------
(* The registry: what each tool is.                                        *)

Read == [reads |-> TRUE, approval |-> FALSE, mcp |-> TRUE, modes |-> AllModes,
         job |-> TRUE, data |-> FALSE, host |-> TRUE]
Act == [Read EXCEPT !.reads = FALSE, !.approval = TRUE, !.modes = Acting]
DataRead == [Read EXCEPT !.job = FALSE, !.data = TRUE]
DataWrite == [DataRead EXCEPT !.reads = FALSE, !.modes = Acting]
Only(entry) == [entry EXCEPT !.host = FALSE]
OverMcp(entry) == [entry EXCEPT !.modes = {}, !.job = FALSE]

FileRead == {"read_file"}
HostWrites == {"execute_bash", "write_file", "edit_file"}
Searches == {"code_search", "list_dir", "find_files"}
Inspections == {"git_status", "git_diff", "git_log", "process_list"}
Pages == {"screenshot", "web_fetch"}
Research == {"web_research"}
Look == {"look_at_screen"}
Inputs == {"click", "type_text", "press_keys"}
Gestures == {"scroll", "drag", "open_app", "open_url"}
Tunnels == {"expose_port", "confirm_action", "tunnel_close"}
StateTools == {"task_state_set", "task_state_get", "checkpoint_create", "todo"}
MemoryTools == {"memory_save", "memory_search", "memory_list"}
ProjectTools == {"project_create", "project_list", "handoff"}

ToolNames == FileRead \cup HostWrites \cup Searches \cup Inspections \cup Pages
             \cup Research \cup Look \cup Inputs \cup Gestures \cup Tunnels
             \cup StateTools \cup MemoryTools \cup ProjectTools

Entry(n) ==
    CASE n \in FileRead \cup Searches \cup Inspections -> Read
      [] n \in HostWrites -> Act
      [] n \in Pages \cup Look -> Only(Read)
      [] n \in Research -> [Read EXCEPT !.job = FALSE]
      [] n \in Inputs \cup Gestures -> Only(Act)
      [] n = "expose_port" -> Only(OverMcp(Act))
      [] n \in {"confirm_action", "tunnel_close"} -> [OverMcp(Act) EXCEPT !.approval = FALSE]
      [] n \in {"task_state_set", "checkpoint_create", "memory_save", "project_create"} ->
             DataWrite
      [] n = "todo" -> [DataWrite EXCEPT !.modes = AllModes]
      [] n \in {"task_state_get", "memory_search", "memory_list", "project_list"} -> DataRead
      [] n = "handoff" -> [OverMcp(Act) EXCEPT !.approval = FALSE, !.mcp = FALSE]
Table == [n \in ToolNames |-> Entry(n)]

mcp_tool_names == {n \in ToolNames : Table[n].mcp}
webchat_tool_names == {n \in ToolNames : Table[n].modes # {}}
read_only_names ==
    {n \in webchat_tool_names : Table[n].reads /\ ~Table[n].data /\ Table[n].host}
approval_required_names == {n \in webchat_tool_names : Table[n].approval}
data_read_names == {n \in webchat_tool_names : Table[n].data /\ Table[n].reads}
data_write_names == {n \in webchat_tool_names : Table[n].data /\ ~Table[n].reads}
agent_only_names == {n \in webchat_tool_names : ~Table[n].host}
explore_names == read_only_names \ {"web_research"}
agent_job_names == {n \in ToolNames : Table[n].job}

COMPUTER_TOOLS == Inputs \cup Gestures
COMPUTER_ONLY_MUTATING == agent_only_names \cap approval_required_names
\* Variant: every tool that runs on the machine only may join a batch.
ReadOnlyBatchLoose == read_only_names \cup agent_only_names \cup data_read_names
READ_ONLY_BATCH == (read_only_names \cup agent_only_names \cup data_read_names)
                   \ COMPUTER_ONLY_MUTATING
-----------------------------------------------------------------------------
(* Calls and the rules that refuse them.                                   *)

SandboxedReads == FileRead \cup Searches
                  \cup {"git_status", "git_diff", "git_log"}
\* The command, chord and port rules are one set of patterns on both sides.
SharedRules == {"execute_bash", "press_keys", "expose_port"}
PathRules == SandboxedReads \cup {"write_file", "edit_file"}

\* A call as the model makes it: a name, perhaps unknown; arguments that decode or do
\* not, that have the tool's shape or do not, and that the rules of a place refuse.
Calls(names) ==
    {c \in [tool : names, decoded : BOOLEAN, shaped : BOOLEAN,
            refused : SUBSET {"server", "machine"}] :
        /\ c.tool \notin PathRules \cup SharedRules => c.refused = {}
        /\ c.tool \in SharedRules => c.refused \in {{}, {"server", "machine"}}
        /\ ~c.shaped => c.tool \in COMPUTER_TOOLS /\ c.refused = {}
        /\ ~c.decoded => c.shaped /\ c.refused = {}}

\* before_tool_call: the rules of the server, skipped for reads that are routed.
Blocked(c, routed) ==
    "server" \in c.refused /\ ~(c.tool \in SandboxedReads /\ routed)

\* The executor of a routed call: the machine, or an answer that it is offline.
Execute == IF online THEN "machine" ELSE "agent_offline"
Routed(routed) == IF routed THEN Execute ELSE "server"
-----------------------------------------------------------------------------
(* POST /mcp: what a call comes to before its first await.                 *)

\* Every read: the gate, then the machine, or this host with routing off.
McpRead(c, routed) == IF Blocked(c, routed) THEN "blocked" ELSE Routed(routed)
McpSearch(c, routed) == McpRead(c, routed)
McpInspect(c, routed) == McpRead(c, routed)
McpStage(c, routed) == IF Blocked(c, routed) THEN "blocked" ELSE "staged"
McpAgentOnly(c, routed) == IF routed THEN Execute ELSE "unavailable"
McpComputer(c, routed) ==
    CASE ~routed -> "unavailable"
      [] routed /\ ~online -> "agent_offline"
      [] routed /\ online /\ Blocked(c, routed) -> "blocked"
      [] routed /\ online /\ ~Blocked(c, routed) -> IF c.shaped THEN "staged" ELSE "malformed"

McpCall(c, routed) ==
    CASE ~c.decoded -> "malformed"
      [] c.decoded /\ c.tool \notin mcp_tool_names -> "unknown"
      [] c.decoded /\ c.tool \in FileRead -> McpRead(c, routed)
      [] c.decoded /\ c.tool \in Searches -> McpSearch(c, routed)
      [] c.decoded /\ c.tool \in Inspections -> McpInspect(c, routed)
      [] c.decoded /\ c.tool \in HostWrites \cup {"expose_port"} -> McpStage(c, routed)
      [] c.decoded /\ c.tool \in Pages \cup Look -> McpAgentOnly(c, routed)
      [] c.decoded /\ c.tool \in COMPUTER_TOOLS -> McpComputer(c, routed)
      [] OTHER -> "service"
-----------------------------------------------------------------------------
(* The browser chat, its explorer and its fan-out.                         *)

RunRead(c, routed) == IF Blocked(c, routed) THEN "blocked" ELSE Routed(routed)
RunAgentOnly(routed) == IF routed THEN Execute ELSE "unavailable"
StageMutating(c) ==
    CASE "server" \in c.refused -> "blocked"
      [] "server" \notin c.refused -> IF c.shaped THEN "staged" ELSE "malformed"

\* run_agent_turn knows a call by its name, whatever the mode offered.
ExecuteCall(c, routed) ==
    CASE c.tool = "web_research" -> "service"
      [] c.tool \in COMPUTER_ONLY_MUTATING /\ ~routed -> "unavailable"
      [] c.tool \in read_only_names \ {"web_research"} -> RunRead(c, routed)
      [] c.tool \in agent_only_names \ COMPUTER_ONLY_MUTATING -> RunAgentOnly(routed)
      [] c.tool \in data_read_names \cup data_write_names -> "service"
      [] OTHER -> StageMutating(c)
WebchatCall(c, routed) ==
    CASE ~c.decoded -> "malformed"
      [] c.decoded /\ c.tool \notin webchat_tool_names -> "unknown"
      [] c.decoded /\ c.tool \in webchat_tool_names -> ExecuteCall(c, routed)

\* Variant: the explorer runs whatever read the browser chat knows.
ExploreCallLoose(c, routed) ==
    IF ~c.decoded THEN "malformed" ELSE WebchatCall(c, routed)
ExploreCall(c, routed) ==
    CASE ~c.decoded -> "malformed"
      [] c.decoded /\ c.tool \notin explore_names -> "unknown"
      [] c.decoded /\ c.tool \in explore_names -> RunRead(c, routed)
LibrarianCall(c, routed) ==
    CASE ~c.decoded -> "malformed"
      [] c.decoded /\ c.tool \notin data_read_names -> "unknown"
      [] c.decoded /\ c.tool \in data_read_names -> "service"

Comes(surface, c, routed) ==
    CASE surface = "mcp" -> McpCall(c, routed)
      [] surface = "webchat" -> WebchatCall(c, routed)
      [] surface = "explore" -> ExploreCall(c, routed)
      [] surface = "librarian" -> LibrarianCall(c, routed)
-----------------------------------------------------------------------------
(* Where a confirmed action goes: confirm_action with the executor the     *)
(* surface gives it.                                                       *)

Tunnel(routed) == IF routed /\ online THEN "tunnel" ELSE "tunnel_unavailable"
ConfirmedAt(tool, routed) ==
    CASE tool \in COMPUTER_TOOLS -> IF routed THEN Execute ELSE "unavailable"
      [] tool = "expose_port" -> Tunnel(routed)
      [] OTHER -> Routed(routed)

\* The stagers: the rules were asked already, the record holds the arguments.
Stage(c) == pending' = pending \cup {c}

Why(by) == [by |-> by, surface |-> turn.surface, mode |-> turn.mode, routed |-> turn.routed]
Effect(c, where, why) ==
    [tool |-> c.tool, refused |-> c.refused, where |-> where, why |-> why]

\* Use i goes to a place: the machine gets a job, any other place acts.
Go(i, c, at, by) ==
    /\ turn' = [turn EXCEPT !.uses[i].at = at, !.uses[i].by = by]
    /\ jobs' = IF at = "machine" THEN jobs \cup {[call |-> c, why |-> Why(by)]} ELSE jobs
    /\ effects' = IF at \in {"server", "service", "tunnel"}
                  THEN effects \cup {Effect(c, at, Why(by))} ELSE effects
-----------------------------------------------------------------------------
(* Actions.                                                                *)

NoTurn == [surface |-> "none"]
Waiting(c) == [call |-> c, at |-> "waiting", by |-> "call"]

\* Does one assistant message run its calls together?
Together(calls) ==
    Len(calls) > 1 /\ \A i \in DOMAIN calls :
                          calls[i].decoded /\ calls[i].tool \in READ_ONLY_BATCH

\* A model answers with tool calls, or an MCP client sends one.
Arrive(surface, mode, calls) ==
    /\ turn = NoTurn /\ jobs = {} /\ pending = {}
    /\ turn' = [surface |-> surface, mode |-> mode, routed |-> routing,
                together |-> surface = "webchat" /\ Together(calls),
                uses |-> [i \in DOMAIN calls |-> Waiting(calls[i])]]
    /\ effects' = {}
    /\ UNCHANGED <<routing, online, pending, jobs>>

First(i) == turn.together \/ \A j \in 1 .. i - 1 : turn.uses[j].at \in {"done", "refused"}

\* The call is decided: answered, sent on, staged, or in auto mode confirmed at once.
Decide(i) ==
    /\ turn # NoTurn /\ i \in DOMAIN turn.uses /\ turn.uses[i].at = "waiting" /\ First(i)
    /\ LET c == turn.uses[i].call
           comes == Comes(turn.surface, c, turn.routed)
       IN CASE comes = "staged" /\ turn.mode = "auto" ->
                  /\ Go(i, c, ConfirmedAt(c.tool, turn.routed), "auto")
                  /\ UNCHANGED pending
            [] comes = "staged" /\ turn.mode # "auto" ->
                  /\ Stage(c)
                  /\ turn' = [turn EXCEPT !.uses[i].at =
                                  IF turn.surface = "mcp" THEN "done" ELSE "asking"]
                  /\ UNCHANGED <<jobs, effects>>
            [] comes # "staged" -> Go(i, c, comes, "call") /\ UNCHANGED pending
    /\ UNCHANGED <<routing, online>>

\* The browser's answer reaches the waiter of a manual turn.
Answer(i, approved) ==
    /\ turn # NoTurn /\ i \in DOMAIN turn.uses /\ turn.uses[i].at = "asking"
    /\ LET c == turn.uses[i].call
       IN /\ pending' = pending \ {c}
          /\ IF approved THEN Go(i, c, ConfirmedAt(c.tool, turn.routed), "approval")
             ELSE Go(i, c, "declined", "call")
    /\ UNCHANGED <<routing, online>>

\* confirm_action over MCP: any staged action of the account, staged there or in the
\* chat, perhaps before a restart.
Confirm(c, approved) ==
    /\ turn = NoTurn /\ jobs = {} /\ c \in pending
    /\ pending' = pending \ {c}
    /\ turn' = [surface |-> "mcp", mode |-> "none", routed |-> routing, together |-> FALSE,
                uses |-> <<[call |-> c, by |-> "approval",
                            at |-> IF approved THEN "confirmed" ELSE "declined"]>>]
    /\ effects' = {}
    /\ UNCHANGED <<routing, online, jobs>>
Confirmed(i) ==
    /\ turn # NoTurn /\ i \in DOMAIN turn.uses /\ turn.uses[i].at = "confirmed"
    /\ LET c == turn.uses[i].call IN Go(i, c, ConfirmedAt(c.tool, turn.routed), "approval")
    /\ UNCHANGED <<routing, online, pending>>

\* What came of it reaches the caller.
Sent == {"server", "machine", "service", "tunnel"}
Refusals == {"blocked", "unknown", "malformed", "unavailable", "agent_offline",
             "tunnel_unavailable", "declined"}
Return(i) ==
    /\ turn # NoTurn /\ i \in DOMAIN turn.uses
    /\ turn.uses[i].at \in (Sent \ {"machine"}) \cup Refusals
    /\ turn' = [turn EXCEPT !.uses[i].at = IF @ \in Sent THEN "done" ELSE "refused"]
    /\ UNCHANGED <<routing, online, pending, jobs, effects>>

\* The machine's walls: the commands' rules again, the sandbox for every path.
\* Variant: the machine trusts what the server let through.
MachineRefusesNothing(job) == job.call.tool \notin agent_job_names
MachineRefuses(job) ==
    \/ "machine" \in job.call.refused
    \/ job.call.tool \notin agent_job_names

\* The machine takes a job off its queue, runs or refuses it and answers.
MachineRuns(job) ==
    /\ online /\ job \in jobs
    /\ jobs' = jobs \ {job}
    /\ effects' = IF MachineRefuses(job) THEN effects
                  ELSE effects \cup {Effect(job.call, "machine", job.why)}
    /\ turn' = IF turn = NoTurn THEN turn
               ELSE [turn EXCEPT !.uses =
                        [i \in DOMAIN @ |-> IF @[i].at = "machine" /\ @[i].call = job.call
                                            THEN [@[i] EXCEPT !.at = "done"] ELSE @[i]]]
    /\ UNCHANGED <<routing, online, pending>>

\* The caller gives up; the job is lost with its connection, or still runs.
TimeOut(i, lost) ==
    /\ turn # NoTurn /\ i \in DOMAIN turn.uses /\ turn.uses[i].at = "machine"
    /\ turn' = [turn EXCEPT !.uses[i].at = "refused"]
    /\ jobs' = IF lost THEN {j \in jobs : j.call # turn.uses[i].call} ELSE jobs
    /\ UNCHANGED <<routing, online, pending, effects>>

\* The turn is over, or its client went away and left what was staged.
EndTurn ==
    /\ turn # NoTurn
    /\ \A i \in DOMAIN turn.uses : turn.uses[i].at \in {"done", "refused"}
    /\ turn' = NoTurn /\ effects' = {}
    /\ UNCHANGED <<routing, online, pending, jobs>>
Disconnect ==
    /\ turn # NoTurn /\ turn' = NoTurn /\ effects' = {}
    /\ UNCHANGED <<routing, online, pending, jobs>>
Expire == pending # {} /\ turn = NoTurn /\ pending' = {}
          /\ UNCHANGED <<routing, online, turn, jobs, effects>>

Connection == online' = ~online /\ UNCHANGED <<routing, turn, pending, jobs, effects>>

\* A restart, perhaps with routing switched: staged actions were saved, nothing else.
Restart ==
    /\ routing' \in BOOLEAN
    /\ online' = FALSE /\ turn' = NoTurn /\ jobs' = {} /\ effects' = {}
    /\ UNCHANGED pending

AnyName == ToolNames \cup {"bogus"}
ASSUME SecondNames == Second \subseteq AnyName
Messages ==
    {<<c>> : c \in Calls(AnyName)}
    \cup {<<c, d>> : c \in {e \in Calls(AnyName) : e.decoded}, d \in Calls(Second)}

ToolInit ==
    /\ routing \in BOOLEAN /\ online \in BOOLEAN
    /\ turn = NoTurn /\ pending = {} /\ jobs = {} /\ effects = {}

ToolNext ==
    \/ /\ turn = NoTurn
       /\ \/ \E c \in Calls(AnyName \ {"confirm_action"}) : Arrive("mcp", "none", <<c>>)
          \/ \E mode \in AllModes, calls \in Messages : Arrive("webchat", mode, calls)
          \/ \E s \in {"explore", "librarian"}, mode \in AllModes, c \in Calls(AnyName) :
                 Arrive(s, mode, <<c>>)
    \/ \E i \in 1 .. 2 : Decide(i) \/ Confirmed(i) \/ Return(i)
    \/ \E i \in 1 .. 2, b \in BOOLEAN : Answer(i, b) \/ TimeOut(i, b)
    \/ \E c \in pending, b \in BOOLEAN : Confirm(c, b)
    \/ \E job \in jobs : MachineRuns(job)
    \/ EndTurn \/ Disconnect \/ Expire \/ Connection \/ Restart

ToolSpec == ToolInit /\ [][ToolNext]_toolVars
-----------------------------------------------------------------------------
(* Properties.                                                             *)

\* No tool that needs approval ever acts unless its user said so: an answer to its own
\* card or token, or a turn in auto mode (webchat_agent.py, confirm_action).
ChangesApproved ==
    \A e \in effects : Table[e.tool].approval =>
        \/ e.why.by = "approval"
        \/ e.why.by = "auto" /\ e.why.surface = "webchat" /\ e.why.mode = "auto"

\* The explorer and the fan-out's specialists never act on anything, whatever name their
\* model comes up with (harness_explore.py:23, harness_fanout.py).
ExplorersRead ==
    \A e \in effects : e.why.surface \in {"explore", "librarian"} =>
        Table[e.tool].reads /\ e.where \in {"server", "machine", "service"}

\* A tool of the paired machine never acts on the server's host, and with routing on
\* neither does any tool of a machine: an offline machine is an answer, not a local run.
RightPlace ==
    \A e \in effects : e.where = "server" => Table[e.tool].host /\ ~e.why.routed

\* Nothing acts where the rules of that place refuse its arguments, also when the action
\* was staged under one routing and confirmed under the other.
WallsHold == \A e \in effects : e.where \notin e.refused

\* A refused or misshapen call has no token, and a job is one the machine knows.
StagedIsSound ==
    /\ \A c \in pending : "server" \notin c.refused /\ c.shaped /\ Table[c.tool].approval
    /\ \A job \in jobs : job.call.tool \in agent_job_names

\* Calls run together never wait for an approval: their events are thrown away, so a
\* card would never reach the browser (webchat_agent.py, COMPUTER_ONLY_MUTATING).
NoSilentCard ==
    turn # NoTurn /\ turn.together => \A i \in DOMAIN turn.uses : turn.uses[i].at # "asking"

ToolsSafe ==
    ChangesApproved /\ ExplorersRead /\ RightPlace /\ WallsHold /\ StagedIsSound /\ NoSilentCard

\* docs/SECURITY.md:237: "Plan mode cannot mutate by construction": in a plan turn only
\* reads act, and the step list (docs/SECURITY.md:272).
PlanReadsOnly ==
    \A e \in effects : e.why.surface = "webchat" /\ e.why.mode = "plan" =>
        Table[e.tool].reads \/ e.tool = "todo"
=============================================================================
