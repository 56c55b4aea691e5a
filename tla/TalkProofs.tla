----------------------------- MODULE TalkProofs -----------------------------
(***************************************************************************)
(* Proofs about what a model's words become, for every value of the        *)
(* constants: the gate its tools pass, the workflows it runs, the memories *)
(* it leaves, the frames a client is streamed and the history that is      *)
(* stored.                                                                 *)
(*                                                                         *)
(* Each component has an invariant of its own, kept by its own steps and   *)
(* by those of the others, which leave its state alone; the theorems at    *)
(* the end put them together.                                              *)
(***************************************************************************)
EXTENDS Talk, SequenceTheorems, FiniteSetTheorems, WellFoundedInduction, TLAPS

\* INSTANCE gives each component a Cardinality of its own; it is this one.
LEMMA SameCount ==
    \A S : /\ Work!Cardinality(S) = Cardinality(S) /\ Memo!Cardinality(S) = Cardinality(S)
           /\ Stream!Cardinality(S) = Cardinality(S) /\ Dialog!Cardinality(S) = Cardinality(S)
BY DEF Work!Cardinality, Memo!Cardinality, Stream!Cardinality, Dialog!Cardinality, Cardinality
-----------------------------------------------------------------------------
(* The gate (ToolGate.tla).                                                *)

Explorers == {"explore", "librarian"}
Surfaces == {"mcp", "webchat"} \cup Explorers
Effective == {"server", "machine", "service", "tunnel"}
Stages == {"waiting", "asking", "confirmed", "done", "refused"} \cup Sent \cup Refusals

Use == [call : Calls(AnyName), at : Stages, by : {"call", "auto", "approval"}]
Reason == [by : {"call", "auto", "approval"}, surface : Surfaces,
           mode : AllModes \cup {"none"}, routed : BOOLEAN]
Turns == [surface : Surfaces, mode : AllModes \cup {"none"}, routed : BOOLEAN,
          together : BOOLEAN, uses : Seq(Use)]

GateTypes ==
    /\ routing \in BOOLEAN /\ online \in BOOLEAN
    /\ turn \in Turns \cup {NoTurn}
    /\ pending \in SUBSET Calls(AnyName)
    /\ jobs \in SUBSET [call : Calls(AnyName), why : Reason]
    /\ effects \in SUBSET [tool : ToolNames, refused : SUBSET {"server", "machine"},
                           where : Effective, why : Reason]

\* A call that the rules of the server let through and that waits for its user's word.
Sound(c) ==
    /\ "server" \notin c.refused /\ c.shaped
    /\ c.tool \in ToolNames /\ Table[c.tool].approval

\* A tool that needs approval has it, and an explorer has a read.
Allowed(tool, why) ==
    /\ tool \in ToolNames
    /\ Table[tool].approval =>
           \/ why.by = "approval"
           \/ why.by = "auto" /\ why.surface = "webchat" /\ why.mode = "auto"
    /\ why.surface \in Explorers => Table[tool].reads

\* A call may go to a place: the tool acts there, and the rules there let it.
Fits(c, where, routed) ==
    /\ where = "server" => Table[c.tool].host /\ ~routed /\ "server" \notin c.refused
    /\ where = "machine" => c.tool \in agent_job_names

JobsSound == \A j \in jobs : Allowed(j.call.tool, j.why) /\ j.call.tool \in agent_job_names

EffectsSound ==
    \A e \in effects :
        /\ Allowed(e.tool, e.why)
        /\ e.why.surface \in Explorers => e.where # "tunnel"
        /\ e.where = "server" => Table[e.tool].host /\ ~e.why.routed
        /\ e.where \notin e.refused

\* What waits for a word may have it, and does not run in a batch.  Only the chat has modes.
UsesSound ==
    turn # NoTurn =>
        /\ turn.surface = "mcp" => turn.mode = "none"
        /\ \A i \in DOMAIN turn.uses :
               turn.uses[i].at \in {"asking", "confirmed"} =>
                   Sound(turn.uses[i].call) /\ turn.surface \notin Explorers /\ ~turn.together
        /\ turn.together =>
               /\ turn.surface = "webchat"
               /\ \A i \in DOMAIN turn.uses :
                      turn.uses[i].call.decoded /\ turn.uses[i].call.tool \in READ_ONLY_BATCH

GateInv == GateTypes /\ JobsSound /\ EffectsSound /\ UsesSound /\ \A c \in pending : Sound(c)
-----------------------------------------------------------------------------
(* The registry                                                            *)

Entries == [reads : BOOLEAN, approval : BOOLEAN, mcp : BOOLEAN, modes : SUBSET AllModes,
            job : BOOLEAN, data : BOOLEAN, host : BOOLEAN]

\* Each group of tools is what its entry says.
LEMMA EntriesAre ==
    /\ \A n \in FileRead \cup Searches \cup Inspections : n \in ToolNames /\ Table[n] = Read
    /\ \A n \in HostWrites : n \in ToolNames /\ Table[n] = Act
    /\ \A n \in Pages \cup Look : n \in ToolNames /\ Table[n] = Only(Read)
    /\ \A n \in Research : n \in ToolNames /\ Table[n] = [Read EXCEPT !.job = FALSE]
    /\ \A n \in Inputs \cup Gestures : n \in ToolNames /\ Table[n] = Only(Act)
    /\ Table["expose_port"] = Only(OverMcp(Act))
    /\ \A n \in {"confirm_action", "tunnel_close"} :
           n \in ToolNames /\ Table[n] = [OverMcp(Act) EXCEPT !.approval = FALSE]
    /\ \A n \in {"task_state_set", "checkpoint_create", "memory_save", "project_create"} :
           n \in ToolNames /\ Table[n] = DataWrite
    /\ Table["todo"] = [DataWrite EXCEPT !.modes = AllModes]
    /\ \A n \in {"task_state_get", "memory_search", "memory_list", "project_list"} :
           n \in ToolNames /\ Table[n] = DataRead
    /\ Table["handoff"] = [OverMcp(Act) EXCEPT !.approval = FALSE, !.mcp = FALSE]
    /\ {"expose_port", "todo", "handoff"} \subseteq ToolNames
<1> USE DEF FileRead, HostWrites, Searches, Inspections, Pages, Research, Look, Inputs, Gestures,
        Tunnels, StateTools, MemoryTools, ProjectTools, ToolNames
<1>1. \A n \in ToolNames : Table[n] = Entry(n)  BY DEF Table
<1>2. \A n \in FileRead \cup Searches \cup Inspections : n \in ToolNames /\ Entry(n) = Read
  BY DEF Entry
<1>3. \A n \in HostWrites : n \in ToolNames /\ Entry(n) = Act
  BY DEF Entry
<1>4. \A n \in Pages \cup Look : n \in ToolNames /\ Entry(n) = Only(Read)
  BY DEF Entry
<1>5. \A n \in Research : n \in ToolNames /\ Entry(n) = [Read EXCEPT !.job = FALSE]
  BY DEF Entry
<1>6. \A n \in Inputs \cup Gestures : n \in ToolNames /\ Entry(n) = Only(Act)
  BY DEF Entry
<1>7. \A n \in {"expose_port"} : n \in ToolNames /\ Entry(n) = Only(OverMcp(Act))
  BY DEF Entry
<1>8. \A n \in {"confirm_action", "tunnel_close"} :
           n \in ToolNames /\ Entry(n) = [OverMcp(Act) EXCEPT !.approval = FALSE]
  BY DEF Entry
<1>9. \A n \in {"task_state_set", "checkpoint_create", "memory_save", "project_create"} :
           n \in ToolNames /\ Entry(n) = DataWrite
  BY DEF Entry
<1>10. \A n \in {"todo"} : n \in ToolNames /\ Entry(n) = [DataWrite EXCEPT !.modes = AllModes]
  BY DEF Entry
<1>11. \A n \in {"task_state_get", "memory_search", "memory_list", "project_list"} :
           n \in ToolNames /\ Entry(n) = DataRead
  BY DEF Entry
<1>12. \A n \in {"handoff"} :
           n \in ToolNames /\ Entry(n) = [OverMcp(Act) EXCEPT !.approval = FALSE, !.mcp = FALSE]
  BY DEF Entry
<1> HIDE DEF ToolNames
<1>13. QED
  BY <1>1, <1>2, <1>3, <1>4, <1>5, <1>6, <1>7, <1>8, <1>9, <1>10, <1>11, <1>12

Inspects == FileRead \cup Searches \cup Inspections
Looks == Pages \cup Look
DataWrites == {"task_state_set", "checkpoint_create", "memory_save", "project_create", "todo"}
DataReads == {"task_state_get", "memory_search", "memory_list", "project_list"}
Closers == {"confirm_action", "tunnel_close", "handoff"}

\* The fields the surfaces go by, group by group.
Fields(e, reads, approval, mcp, webchat, remote, data, host) ==
    /\ e.reads = reads /\ e.approval = approval /\ e.mcp = mcp
    /\ (e.modes # {}) = webchat
    /\ e.job = remote /\ e.data = data /\ e.host = host
Is(n, reads, approval, mcp, webchat, remote, data, host) ==
    n \in ToolNames /\ Fields(Table[n], reads, approval, mcp, webchat, remote, data, host)

LEMMA EntryFields ==
    /\ Fields(Read, TRUE, FALSE, TRUE, TRUE, TRUE, FALSE, TRUE)
    /\ Fields(Act, FALSE, TRUE, TRUE, TRUE, TRUE, FALSE, TRUE)
    /\ Fields(Only(Read), TRUE, FALSE, TRUE, TRUE, TRUE, FALSE, FALSE)
    /\ Fields([Read EXCEPT !.job = FALSE], TRUE, FALSE, TRUE, TRUE, FALSE, FALSE, TRUE)
    /\ Fields(Only(Act), FALSE, TRUE, TRUE, TRUE, TRUE, FALSE, FALSE)
    /\ Fields(Only(OverMcp(Act)), FALSE, TRUE, TRUE, FALSE, FALSE, FALSE, FALSE)
    /\ Fields([OverMcp(Act) EXCEPT !.approval = FALSE],
              FALSE, FALSE, TRUE, FALSE, FALSE, FALSE, TRUE)
    /\ Fields([OverMcp(Act) EXCEPT !.approval = FALSE, !.mcp = FALSE],
              FALSE, FALSE, FALSE, FALSE, FALSE, FALSE, TRUE)
    /\ Fields(DataWrite, FALSE, FALSE, TRUE, TRUE, FALSE, TRUE, TRUE)
    /\ Fields([DataWrite EXCEPT !.modes = AllModes], FALSE, FALSE, TRUE, TRUE, FALSE, TRUE, TRUE)
    /\ Fields(DataRead, TRUE, FALSE, TRUE, TRUE, FALSE, TRUE, TRUE)
<1> USE DEF Fields, Read, Act, DataRead, DataWrite, Only, OverMcp, Acting, AllModes
<1>1. Fields(Read, TRUE, FALSE, TRUE, TRUE, TRUE, FALSE, TRUE)  OBVIOUS
<1>2. Fields(Act, FALSE, TRUE, TRUE, TRUE, TRUE, FALSE, TRUE)  OBVIOUS
<1>3. Fields(Only(Read), TRUE, FALSE, TRUE, TRUE, TRUE, FALSE, FALSE)  OBVIOUS
<1>4. Fields([Read EXCEPT !.job = FALSE], TRUE, FALSE, TRUE, TRUE, FALSE, FALSE, TRUE)  OBVIOUS
<1>5. Fields(Only(Act), FALSE, TRUE, TRUE, TRUE, TRUE, FALSE, FALSE)  OBVIOUS
<1>6. Fields(Only(OverMcp(Act)), FALSE, TRUE, TRUE, FALSE, FALSE, FALSE, FALSE)  OBVIOUS
<1>7. Fields([OverMcp(Act) EXCEPT !.approval = FALSE],
             FALSE, FALSE, TRUE, FALSE, FALSE, FALSE, TRUE)
  OBVIOUS
<1>8. Fields([OverMcp(Act) EXCEPT !.approval = FALSE, !.mcp = FALSE],
             FALSE, FALSE, FALSE, FALSE, FALSE, FALSE, TRUE)
  OBVIOUS
<1>9. Fields(DataWrite, FALSE, FALSE, TRUE, TRUE, FALSE, TRUE, TRUE)  OBVIOUS
<1>10. Fields([DataWrite EXCEPT !.modes = AllModes], FALSE, FALSE, TRUE, TRUE, FALSE, TRUE, TRUE)
  OBVIOUS
<1>11. Fields(DataRead, TRUE, FALSE, TRUE, TRUE, FALSE, TRUE, TRUE)  OBVIOUS
<1> HIDE DEF Fields, Read, Act, DataRead, DataWrite, Only, OverMcp, Acting, AllModes
<1>12. QED
  BY <1>1, <1>2, <1>3, <1>4, <1>5, <1>6, <1>7, <1>8, <1>9, <1>10, <1>11

LEMMA FieldsAre ==
    /\ \A n \in Inspects : Is(n, TRUE, FALSE, TRUE, TRUE, TRUE, FALSE, TRUE)
    /\ \A n \in HostWrites : Is(n, FALSE, TRUE, TRUE, TRUE, TRUE, FALSE, TRUE)
    /\ \A n \in Looks : Is(n, TRUE, FALSE, TRUE, TRUE, TRUE, FALSE, FALSE)
    /\ \A n \in Research : Is(n, TRUE, FALSE, TRUE, TRUE, FALSE, FALSE, TRUE)
    /\ \A n \in COMPUTER_TOOLS : Is(n, FALSE, TRUE, TRUE, TRUE, TRUE, FALSE, FALSE)
    /\ Is("expose_port", FALSE, TRUE, TRUE, FALSE, FALSE, FALSE, FALSE)
    /\ \A n \in Closers : Is(n, FALSE, FALSE, n # "handoff", FALSE, FALSE, FALSE, TRUE)
    /\ \A n \in DataWrites : Is(n, FALSE, FALSE, TRUE, TRUE, FALSE, TRUE, TRUE)
    /\ \A n \in DataReads : Is(n, TRUE, FALSE, TRUE, TRUE, FALSE, TRUE, TRUE)
<1> USE EntriesAre, EntryFields DEF Is
<1>1. \A n \in Inspects : Is(n, TRUE, FALSE, TRUE, TRUE, TRUE, FALSE, TRUE)
  BY DEF Inspects
<1>2. \A n \in HostWrites : Is(n, FALSE, TRUE, TRUE, TRUE, TRUE, FALSE, TRUE)  OBVIOUS
<1>3. \A n \in Looks : Is(n, TRUE, FALSE, TRUE, TRUE, TRUE, FALSE, FALSE)
  BY DEF Looks
<1>4. \A n \in Research : Is(n, TRUE, FALSE, TRUE, TRUE, FALSE, FALSE, TRUE)  OBVIOUS
<1>5. \A n \in COMPUTER_TOOLS : Is(n, FALSE, TRUE, TRUE, TRUE, TRUE, FALSE, FALSE)
  BY DEF COMPUTER_TOOLS
<1>6. Is("expose_port", FALSE, TRUE, TRUE, FALSE, FALSE, FALSE, FALSE)  OBVIOUS
<1>7. \A n \in {"confirm_action", "tunnel_close"} :
          Is(n, FALSE, FALSE, TRUE, FALSE, FALSE, FALSE, TRUE)
  OBVIOUS
<1>8. Is("handoff", FALSE, FALSE, FALSE, FALSE, FALSE, FALSE, TRUE)  OBVIOUS
<1>9. \A n \in {"task_state_set", "checkpoint_create", "memory_save", "project_create"} :
          Is(n, FALSE, FALSE, TRUE, TRUE, FALSE, TRUE, TRUE)
  OBVIOUS
<1>10. Is("todo", FALSE, FALSE, TRUE, TRUE, FALSE, TRUE, TRUE)  OBVIOUS
<1>11. \A n \in DataReads : Is(n, TRUE, FALSE, TRUE, TRUE, FALSE, TRUE, TRUE)
  BY DEF DataReads
<1> HIDE DEF Is
<1>12. \A n \in Closers : Is(n, FALSE, FALSE, n # "handoff", FALSE, FALSE, FALSE, TRUE)
  <2> TAKE n \in Closers
  <2>1. CASE n = "handoff"  BY <1>8, <2>1
  <2>2. CASE n \in {"confirm_action", "tunnel_close"}
    <3>1. (n # "handoff") = TRUE  BY <2>2
    <3>2. QED  BY <1>7, <2>2, <3>1
  <2>3. QED  BY <2>1, <2>2 DEF Closers
<1>13. \A n \in DataWrites : Is(n, FALSE, FALSE, TRUE, TRUE, FALSE, TRUE, TRUE)
  BY <1>9, <1>10 DEF DataWrites
<1>14. QED
  BY <1>1, <1>2, <1>3, <1>4, <1>5, <1>6, <1>11, <1>12, <1>13

\* The groups are all the tools there are, and share none.
LEMMA GroupsAre ==
    /\ ToolNames = Inspects \cup HostWrites \cup Looks \cup Research \cup COMPUTER_TOOLS
                   \cup {"expose_port"} \cup Closers \cup DataWrites \cup DataReads
    /\ "bogus" \notin ToolNames
BY
   DEF ToolNames, FileRead, HostWrites, Searches, Inspections, Pages, Research, Look, Inputs,
       Gestures,
       Tunnels, StateTools, MemoryTools, ProjectTools, Inspects, Looks, COMPUTER_TOOLS, Closers,
       DataWrites, DataReads

\* The names each surface derives from the registry.
LEMMA NamesAre ==
    /\ webchat_tool_names = ToolNames \ ({"expose_port"} \cup Closers)
    /\ mcp_tool_names = ToolNames \ {"handoff"}
    /\ read_only_names = Inspects \cup Research
    /\ approval_required_names = HostWrites \cup COMPUTER_TOOLS
    /\ data_read_names = DataReads /\ data_write_names = DataWrites
    /\ agent_only_names = Looks \cup COMPUTER_TOOLS
    /\ agent_job_names = Inspects \cup HostWrites \cup Looks \cup COMPUTER_TOOLS
    /\ \A n \in ToolNames :
           Table[n].approval <=> n \in HostWrites \cup COMPUTER_TOOLS \cup {"expose_port"}
<1>1. \A n \in ToolNames :
          /\ Table[n].modes # {} <=> n \notin {"expose_port"} \cup Closers
          /\ Table[n].mcp <=> n # "handoff"
          /\ Table[n].approval <=> n \in HostWrites \cup COMPUTER_TOOLS \cup {"expose_port"}
          /\ Table[n].host <=> n \notin Looks \cup COMPUTER_TOOLS \cup {"expose_port"}
          /\ Table[n].job <=> n \in Inspects \cup HostWrites \cup Looks \cup COMPUTER_TOOLS
          /\ Table[n].data <=> n \in DataReads \cup DataWrites
          /\ Table[n].reads <=> n \in Inspects \cup Looks \cup Research \cup DataReads
  <2>1. \A n \in ToolNames : Table[n].modes # {} <=> n \notin {"expose_port"} \cup Closers
    BY FieldsAre, GroupsAre DEF Is, Fields
  <2>2. \A n \in ToolNames : Table[n].mcp <=> n # "handoff"
    BY FieldsAre, GroupsAre DEF Closers, Is, Fields
  <2>3. \A n \in ToolNames :
            Table[n].approval <=> n \in HostWrites \cup COMPUTER_TOOLS \cup {"expose_port"}
    BY FieldsAre, GroupsAre DEF Is, Fields
  <2>4. \A n \in ToolNames :
            Table[n].host <=> n \notin Looks \cup COMPUTER_TOOLS \cup {"expose_port"}
    BY FieldsAre, GroupsAre DEF Is, Fields
  <2>5. \A n \in ToolNames :
            Table[n].job <=> n \in Inspects \cup HostWrites \cup Looks \cup COMPUTER_TOOLS
    BY FieldsAre, GroupsAre DEF Is, Fields
  <2>6. \A n \in ToolNames : Table[n].data <=> n \in DataReads \cup DataWrites
    BY FieldsAre, GroupsAre DEF Is, Fields
  <2>7. \A n \in ToolNames :
            Table[n].reads <=> n \in Inspects \cup Looks \cup Research \cup DataReads
    BY FieldsAre, GroupsAre DEF Is, Fields
  <2>8. QED  BY <2>1, <2>2, <2>3, <2>4, <2>5, <2>6, <2>7
<1>2. webchat_tool_names = ToolNames \ ({"expose_port"} \cup Closers)
  BY <1>1 DEF webchat_tool_names
<1>3. mcp_tool_names = ToolNames \ {"handoff"}  BY <1>1 DEF mcp_tool_names
<1>4. agent_job_names = Inspects \cup HostWrites \cup Looks \cup COMPUTER_TOOLS
  BY <1>1, GroupsAre DEF agent_job_names
<1>5. /\ Inspects \cup Research \cup HostWrites \cup COMPUTER_TOOLS \cup DataReads \cup DataWrites
            \cup Looks \subseteq webchat_tool_names
      /\ webchat_tool_names \subseteq ToolNames
  <2>1. \A n \in Inspects \cup Research \cup HostWrites \cup COMPUTER_TOOLS \cup DataReads
              \cup DataWrites \cup Looks : n \in ToolNames /\ Table[n].modes # {}
    BY FieldsAre DEF Is, Fields
  <2>2. QED  BY <2>1 DEF webchat_tool_names
<1>12. /\ \A n \in Inspects \cup Research : Table[n].reads /\ ~Table[n].data /\ Table[n].host
       /\ \A n \in DataReads : Table[n].reads /\ Table[n].data
       /\ \A n \in DataWrites : ~Table[n].reads /\ Table[n].data
  BY FieldsAre DEF Is, Fields
<1>6. read_only_names = Inspects \cup Research
  BY <1>1, <1>5, <1>12 DEF read_only_names
<1>7. approval_required_names = HostWrites \cup COMPUTER_TOOLS
  BY <1>1, <1>2, <1>5, FieldsAre DEF approval_required_names
<1>8. data_read_names = DataReads
  BY <1>1, <1>5, <1>12 DEF data_read_names
<1>9. data_write_names = DataWrites
  BY <1>1, <1>5, <1>12 DEF data_write_names
<1>10. agent_only_names = Looks \cup COMPUTER_TOOLS
  BY <1>1, <1>2, <1>5, FieldsAre DEF agent_only_names
<1>11. QED  BY <1>1, <1>2, <1>3, <1>4, <1>6, <1>7, <1>8, <1>9, <1>10
-----------------------------------------------------------------------------
(* What a call comes to                                                    *)

LEMMA CallsAre ==
    ASSUME NEW c \in Calls(AnyName)
    PROVE  /\ c.tool \in AnyName /\ c.decoded \in BOOLEAN /\ c.shaped \in BOOLEAN
           /\ c.refused \in SUBSET {"server", "machine"}
           /\ ~c.shaped => c.tool \in COMPUTER_TOOLS
BY DEF Calls

LEMMA CallsWithin == Calls(Second) \subseteq Calls(AnyName)
/\ Calls(ToolNames) \subseteq Calls(AnyName)
BY SecondNames DEF Calls, AnyName

\* The rules for paths a machine reads apply to reads only.
LEMMA SandboxIsRead ==
    /\ SandboxedReads \subseteq Inspects
    /\ SandboxedReads \cap (HostWrites \cup COMPUTER_TOOLS \cup {"expose_port"}) = {}
BY
   DEF SandboxedReads, Inspects, FileRead, Searches, Inspections, HostWrites, COMPUTER_TOOLS,
       Inputs,
       Gestures

\* What an outcome says of the call: it may go where it goes without anyone's word, or
\* it is one that may be staged.
Outcome(c, comes, routed) ==
    /\ comes \in Sent \cup Refusals \cup {"staged"}
    /\ comes = "staged" => Sound(c)
    /\ comes \in Sent =>
           c.tool \in ToolNames /\ ~Table[c.tool].approval /\ comes # "tunnel"
    /\ Fits(c, comes, routed)

LEMMA RefusalIsOutcome ==
    ASSUME NEW c, NEW routed, NEW comes \in Refusals
    PROVE  Outcome(c, comes, routed)
BY DEF Outcome, Refusals, Sent, Fits

\* A read goes to the machine, or acts on this host once the rules have let it.
LEMMA ReadOutcome ==
    ASSUME NEW c \in Calls(AnyName), NEW routed \in BOOLEAN, c.tool \in Inspects
    PROVE  LET comes == IF Blocked(c, routed) THEN "blocked" ELSE Routed(routed)
           IN  Outcome(c, comes, routed) /\ comes # "staged"
<1>1. c.tool \in ToolNames /\ ~Table[c.tool].approval /\ Table[c.tool].host
        /\ c.tool \in agent_job_names
  BY FieldsAre, NamesAre DEF Is, Fields
<1>2. CASE Blocked(c, routed)  BY <1>2 DEF Outcome, Refusals, Sent, Fits
<1>3. CASE ~Blocked(c, routed) /\ routed
  BY <1>1, <1>3 DEF Routed, Execute, Outcome, Refusals, Sent, Fits
<1>4. CASE ~Blocked(c, routed) /\ ~routed
  BY <1>1, <1>4 DEF Routed, Execute, Outcome, Refusals, Sent, Fits, Blocked
<1>5. QED  BY <1>2, <1>3, <1>4

\* A read of the machine alone goes nowhere else.
LEMMA LookOutcome ==
    ASSUME NEW c \in Calls(AnyName), NEW routed \in BOOLEAN, c.tool \in Looks
    PROVE  LET comes == IF routed THEN Execute ELSE "unavailable"
           IN  Outcome(c, comes, routed) /\ comes # "staged"
<1>1. c.tool \in ToolNames /\ ~Table[c.tool].approval /\ c.tool \in agent_job_names
  BY FieldsAre, NamesAre DEF Is, Fields
<1>2. QED  BY <1>1 DEF Execute, Outcome, Refusals, Sent, Fits

\* A tool that needs approval is staged once the rules have let it.
LEMMA StageOutcome ==
    ASSUME NEW c \in Calls(AnyName), NEW routed \in BOOLEAN,
           c.tool \in HostWrites \cup COMPUTER_TOOLS \cup {"expose_port"}
    PROVE  /\ "server" \in c.refused <=> Blocked(c, routed)
           /\ "server" \notin c.refused /\ c.shaped => Outcome(c, "staged", routed)
           /\ c.tool \notin COMPUTER_TOOLS => c.shaped
<1>1. c.tool \in ToolNames /\ Table[c.tool].approval  BY FieldsAre DEF Is, Fields
<1>2. c.tool \notin SandboxedReads  BY SandboxIsRead
<1>3. c.shaped \in BOOLEAN /\ (~c.shaped => c.tool \in COMPUTER_TOOLS)  BY CallsAre
<1>4. QED  BY <1>1, <1>2, <1>3 DEF Blocked, Outcome, Sound, Refusals, Sent, Fits

LEMMA ServiceOutcome ==
    ASSUME NEW c \in Calls(AnyName), NEW routed \in BOOLEAN,
           c.tool \in Research \cup Closers \cup DataReads \cup DataWrites
    PROVE  Outcome(c, "service", routed)
<1>1. c.tool \in ToolNames /\ ~Table[c.tool].approval  BY FieldsAre DEF Is, Fields
<1>2. QED  BY <1>1 DEF Outcome, Refusals, Sent, Fits

\* POST /mcp goes by the group of the tool.
LEMMA McpGroups ==
    ASSUME NEW c, NEW routed, c.decoded, c.tool \in mcp_tool_names
    PROVE  /\ c.tool \in Inspects => McpCall(c, routed) = McpRead(c, routed)
           /\ c.tool \in HostWrites \cup {"expose_port"} =>
                  McpCall(c, routed) = McpStage(c, routed)
           /\ c.tool \in Looks => McpCall(c, routed) = McpAgentOnly(c, routed)
           /\ c.tool \in COMPUTER_TOOLS => McpCall(c, routed) = McpComputer(c, routed)
           /\ c.tool \in Research \cup Closers \cup DataReads \cup DataWrites =>
                  McpCall(c, routed) = "service"
<1> USE DEF FileRead, HostWrites, Searches, Inspections, Pages, Research, Look, Inputs, Gestures
<1>1. c.tool \in Inspects => McpCall(c, routed) = McpRead(c, routed)
  BY DEF McpCall, McpSearch, McpInspect, Inspects, COMPUTER_TOOLS
<1>2. c.tool \in HostWrites \cup {"expose_port"} => McpCall(c, routed) = McpStage(c, routed)
  BY DEF McpCall, COMPUTER_TOOLS
<1>3. c.tool \in Looks => McpCall(c, routed) = McpAgentOnly(c, routed)
  BY DEF McpCall, Looks, COMPUTER_TOOLS
<1>4. c.tool \in COMPUTER_TOOLS => McpCall(c, routed) = McpComputer(c, routed)
  BY DEF McpCall, COMPUTER_TOOLS
<1>5. c.tool \in Research \cup Closers \cup DataReads \cup DataWrites =>
          McpCall(c, routed) = "service"
  BY DEF McpCall, Closers, DataReads, DataWrites, COMPUTER_TOOLS
<1>6. QED  BY <1>1, <1>2, <1>3, <1>4, <1>5

\* POST /mcp decides every call by one of these.
LEMMA McpOutcome ==
    ASSUME NEW c \in Calls(AnyName), NEW routed \in BOOLEAN
    PROVE  Outcome(c, McpCall(c, routed), routed)
<1> DEFINE comes == McpCall(c, routed)
<1>1. c.decoded \in BOOLEAN /\ c.shaped \in BOOLEAN  BY CallsAre
<1>2. CASE ~c.decoded
  <2>1. comes = "malformed"  BY <1>2 DEF McpCall
  <2>2. QED  BY <2>1, RefusalIsOutcome DEF Refusals
<1>3. CASE c.decoded /\ c.tool \notin mcp_tool_names
  <2>1. c.tool \notin FileRead \cup Searches \cup Inspections \cup HostWrites \cup {"expose_port"}
                       \cup Pages \cup Look \cup COMPUTER_TOOLS
    <3>1. \A n \in Inspects \cup HostWrites \cup {"expose_port"} \cup Looks \cup COMPUTER_TOOLS :
              n \in ToolNames /\ Table[n].mcp
      BY FieldsAre DEF Is, Fields
    <3>2. QED  BY <1>3, <3>1 DEF mcp_tool_names, Inspects, Looks
  <2>2. comes = "unknown"  BY <1>3, <2>1 DEF McpCall
  <2>3. QED  BY <2>2, RefusalIsOutcome DEF Refusals
<1>4. CASE c.decoded /\ c.tool \in mcp_tool_names
  <2> USE <1>4
  <2>1. CASE c.tool \in Inspects
    BY <2>1, McpGroups, ReadOutcome DEF McpRead
  <2>2. CASE c.tool \in HostWrites \cup {"expose_port"}
    <3>1. c.tool \notin COMPUTER_TOOLS
      BY <2>2 DEF HostWrites, COMPUTER_TOOLS, Inputs, Gestures
    <3>2. comes = IF Blocked(c, routed) THEN "blocked" ELSE "staged"
      BY <2>2, McpGroups DEF McpStage
    <3>3. CASE Blocked(c, routed)  BY <3>2, <3>3, RefusalIsOutcome DEF Refusals
    <3>4. CASE ~Blocked(c, routed)  BY <2>2, <3>1, <3>2, <3>4, StageOutcome
    <3>5. QED  BY <3>3, <3>4
  <2>3. CASE c.tool \in Looks
    BY <2>3, McpGroups, LookOutcome DEF McpAgentOnly
  <2>4. CASE c.tool \in COMPUTER_TOOLS
    <3>1. comes = McpComputer(c, routed)  BY <2>4, McpGroups
    <3>2. CASE ~routed \/ ~online \/ Blocked(c, routed) \/ ~c.shaped
      <4>1. comes \in {"unavailable", "agent_offline", "blocked", "malformed"}
        BY <1>1, <3>1, <3>2 DEF McpComputer
      <4>2. QED  BY <4>1, RefusalIsOutcome DEF Refusals
    <3>3. CASE routed /\ online /\ ~Blocked(c, routed) /\ c.shaped
      <4>1. comes = "staged"  BY <3>1, <3>3 DEF McpComputer
      <4>2. QED  BY <2>4, <3>3, <4>1, StageOutcome
    <3>4. QED  BY <1>1, <3>2, <3>3
  <2>5. CASE c.tool \in Research \cup Closers \cup DataReads \cup DataWrites
    BY <2>5, McpGroups, ServiceOutcome
  <2>6. c.tool \in ToolNames  BY NamesAre
  <2>7. QED  BY <2>1, <2>2, <2>3, <2>4, <2>5, <2>6, GroupsAre
<1>5. QED  BY <1>1, <1>2, <1>3, <1>4

\* The browser chat goes by the group of the tool too, whatever the mode offered.
LEMMA ChatGroups ==
    ASSUME NEW c, NEW routed \in BOOLEAN, c.decoded
    PROVE  /\ c.tool \notin webchat_tool_names => WebchatCall(c, routed) = "unknown"
           /\ c.tool \in Inspects => WebchatCall(c, routed) = RunRead(c, routed)
           /\ c.tool \in HostWrites => WebchatCall(c, routed) = StageMutating(c)
           /\ c.tool \in Looks => WebchatCall(c, routed) = RunAgentOnly(routed)
           /\ c.tool \in COMPUTER_TOOLS =>
                  WebchatCall(c, routed) = IF routed THEN StageMutating(c) ELSE "unavailable"
           /\ c.tool \in Research \cup DataReads \cup DataWrites =>
                  WebchatCall(c, routed) = "service"
<1>1. COMPUTER_ONLY_MUTATING = COMPUTER_TOOLS
  <2>1. \A n \in Looks : n \notin HostWrites \cup COMPUTER_TOOLS
    BY FieldsAre DEF Is, Fields
  <2>2. QED  BY <2>1, NamesAre DEF COMPUTER_ONLY_MUTATING
<1>2. /\ read_only_names = Inspects \cup Research
      /\ agent_only_names = Looks \cup COMPUTER_TOOLS
      /\ data_read_names = DataReads /\ data_write_names = DataWrites
  BY NamesAre
<1>3. /\ \A n \in Inspects \cup Research \cup HostWrites \cup COMPUTER_TOOLS \cup DataReads
              \cup DataWrites \cup Looks : n \in webchat_tool_names
  BY FieldsAre DEF Is, Fields, webchat_tool_names
<1>4. c.tool \notin webchat_tool_names => WebchatCall(c, routed) = "unknown"
  BY DEF WebchatCall
<1>5. c.tool \in webchat_tool_names => WebchatCall(c, routed) = ExecuteCall(c, routed)
  BY DEF WebchatCall
<1> USE <1>1, <1>2 DEF FileRead, HostWrites, Searches, Inspections, Pages, Research, Look, Inputs,
        Gestures, Inspects, Looks, COMPUTER_TOOLS, DataReads, DataWrites
<1>7. c.tool \in Inspects => ExecuteCall(c, routed) = RunRead(c, routed)
  BY DEF ExecuteCall
<1>8. c.tool \in HostWrites => ExecuteCall(c, routed) = StageMutating(c)
  BY DEF ExecuteCall
<1>9. c.tool \in Looks => ExecuteCall(c, routed) = RunAgentOnly(routed)
  BY DEF ExecuteCall
<1>10. c.tool \in COMPUTER_TOOLS =>
           ExecuteCall(c, routed) = IF routed THEN StageMutating(c) ELSE "unavailable"
  BY DEF ExecuteCall
<1>11. c.tool \in Research \cup DataReads \cup DataWrites => ExecuteCall(c, routed) = "service"
  BY DEF ExecuteCall
<1> HIDE <1>1, <1>2 DEF FileRead, HostWrites, Searches, Inspections, Pages, Research, Look,
    Inputs,
        Gestures, Inspects, Looks, COMPUTER_TOOLS, DataReads, DataWrites
<1>12. QED  BY <1>3, <1>4, <1>5, <1>7, <1>8, <1>9, <1>10, <1>11

\* What StageMutating says of a tool that needs approval.
LEMMA MutatingOutcome ==
    ASSUME NEW c \in Calls(AnyName), NEW routed \in BOOLEAN,
           c.tool \in HostWrites \cup COMPUTER_TOOLS
    PROVE  Outcome(c, StageMutating(c), routed)
<1> DEFINE comes == StageMutating(c)
<1>1. c.shaped \in BOOLEAN  BY CallsAre
<1>2. CASE "server" \notin c.refused /\ c.shaped
  <2>1. comes = "staged"  BY <1>2 DEF StageMutating
  <2>2. QED  BY <1>2, <2>1, StageOutcome
<1>3. CASE "server" \in c.refused \/ ~c.shaped
  <2>1. comes \in {"blocked", "malformed"}  BY <1>3 DEF StageMutating
  <2>2. QED  BY <2>1, RefusalIsOutcome DEF Refusals
<1>4. QED  BY <1>1, <1>2, <1>3

LEMMA ChatOutcome ==
    ASSUME NEW c \in Calls(AnyName), NEW routed \in BOOLEAN
    PROVE  Outcome(c, WebchatCall(c, routed), routed)
<1> DEFINE comes == WebchatCall(c, routed)
<1>1. CASE ~c.decoded
  <2>1. comes = "malformed"  BY <1>1 DEF WebchatCall
  <2>2. QED  BY <2>1, RefusalIsOutcome DEF Refusals
<1>2. CASE c.decoded /\ c.tool \notin webchat_tool_names
  BY <1>2, ChatGroups, RefusalIsOutcome DEF Refusals
<1>3. CASE c.decoded /\ c.tool \in webchat_tool_names
  <2> USE <1>3
  <2>1. CASE c.tool \in Inspects
    BY <2>1, ChatGroups, ReadOutcome DEF RunRead
  <2>2. CASE c.tool \in HostWrites
    BY <2>2, ChatGroups, MutatingOutcome
  <2>3. CASE c.tool \in Looks
    BY <2>3, ChatGroups, LookOutcome DEF RunAgentOnly
  <2>4. CASE c.tool \in COMPUTER_TOOLS
    <3>1. CASE routed  BY <2>4, <3>1, ChatGroups, MutatingOutcome
    <3>2. CASE ~routed  BY <2>4, <3>2, ChatGroups, RefusalIsOutcome DEF Refusals
    <3>3. QED  BY <3>1, <3>2
  <2>5. CASE c.tool \in Research \cup DataReads \cup DataWrites
    BY <2>5, ChatGroups, ServiceOutcome
  <2>6. c.tool \in ToolNames \ ({"expose_port"} \cup Closers)  BY NamesAre
  <2>7. QED  BY <2>1, <2>2, <2>3, <2>4, <2>5, <2>6, GroupsAre
<1>4. c.decoded \in BOOLEAN  BY CallsAre
<1>5. QED  BY <1>1, <1>2, <1>3, <1>4

\* The explorer and the specialists read, and never stage.
LEMMA ExplorerOutcome ==
    ASSUME NEW c \in Calls(AnyName), NEW routed \in BOOLEAN, NEW s \in Explorers
    PROVE  LET comes == Comes(s, c, routed) IN
           /\ Outcome(c, comes, routed) /\ comes # "staged"
           /\ comes \in Sent => Table[c.tool].reads
<1> DEFINE comes == Comes(s, c, routed)
<1>1. c.decoded \in BOOLEAN  BY CallsAre
<1>2. explore_names \subseteq Inspects /\ data_read_names = DataReads
  BY NamesAre DEF explore_names, Research
<1>3. \A n \in Inspects \cup DataReads : Table[n].reads  BY FieldsAre DEF Is, Fields
<1>4. Sent \cap {"malformed", "unknown"} = {}  BY DEF Sent
<1>5. CASE s = "explore"
  <2>1. comes = ExploreCall(c, routed)  BY <1>5 DEF Comes
  <2>2. CASE ~c.decoded \/ c.tool \notin explore_names
    <3>1. comes \in {"malformed", "unknown"}  BY <2>1, <2>2 DEF ExploreCall
    <3>2. QED  BY <1>4, <3>1, RefusalIsOutcome DEF Refusals
  <2>3. CASE c.decoded /\ c.tool \in explore_names
    <3>1. comes = RunRead(c, routed)  BY <2>1, <2>3 DEF ExploreCall
    <3>2. QED  BY <1>2, <1>3, <2>3, <3>1, ReadOutcome DEF RunRead
  <2>4. QED  BY <1>1, <2>2, <2>3
<1>6. CASE s = "librarian"
  <2>1. comes = LibrarianCall(c, routed)  BY <1>6 DEF Comes
  <2>2. CASE ~c.decoded \/ c.tool \notin data_read_names
    <3>1. comes \in {"malformed", "unknown"}  BY <2>1, <2>2 DEF LibrarianCall
    <3>2. QED  BY <1>4, <3>1, RefusalIsOutcome DEF Refusals
  <2>3. CASE c.decoded /\ c.tool \in data_read_names
    <3>1. comes = "service"  BY <2>1, <2>3 DEF LibrarianCall
    <3>2. QED  BY <1>2, <1>3, <2>3, <3>1, ServiceOutcome
  <2>4. QED  BY <1>1, <2>2, <2>3
<1>7. QED  BY <1>5, <1>6 DEF Explorers

\* What may join a batch is never staged.
LEMMA BatchNeverAsks ==
    ASSUME NEW c, NEW routed \in BOOLEAN, c.decoded, c.tool \in READ_ONLY_BATCH
    PROVE  WebchatCall(c, routed) # "staged"
<1>1. READ_ONLY_BATCH \subseteq Inspects \cup Research \cup Looks \cup DataReads
  <2>1. COMPUTER_TOOLS \subseteq COMPUTER_ONLY_MUTATING
    BY NamesAre DEF COMPUTER_ONLY_MUTATING
  <2>2. QED  BY <2>1, NamesAre DEF READ_ONLY_BATCH
<1>2. RunRead(c, routed) # "staged" /\ RunAgentOnly(routed) # "staged"
  BY DEF RunRead, RunAgentOnly, Routed, Execute
<1>3. QED  BY <1>1, <1>2, ChatGroups

LEMMA ComesOutcome ==
    ASSUME NEW c \in Calls(AnyName), NEW routed \in BOOLEAN, NEW s \in Surfaces
    PROVE  Outcome(c, Comes(s, c, routed), routed)
<1>1. CASE s = "mcp"  BY <1>1, McpOutcome DEF Comes
<1>2. CASE s = "webchat"  BY <1>2, ChatOutcome DEF Comes
<1>3. CASE s \in Explorers  BY <1>3, ExplorerOutcome
<1>4. QED  BY <1>1, <1>2, <1>3 DEF Surfaces

\* A confirmed action goes where its tool acts, or is refused.
LEMMA ConfirmedOutcome ==
    ASSUME NEW c \in Calls(AnyName), NEW routed \in BOOLEAN, Sound(c)
    PROVE  LET at == ConfirmedAt(c.tool, routed) IN
           /\ at \in (Sent \ {"service"}) \cup Refusals
           /\ Fits(c, at, routed)
<1> DEFINE at == ConfirmedAt(c.tool, routed)
<1>1. c.tool \in HostWrites \cup COMPUTER_TOOLS \cup {"expose_port"}
  BY NamesAre DEF Sound
<1>2. CASE c.tool \in COMPUTER_TOOLS
  <2>1. at = IF routed THEN Execute ELSE "unavailable"
    BY <1>2 DEF ConfirmedAt, COMPUTER_TOOLS, Inputs, Gestures
  <2>2. c.tool \in agent_job_names  BY <1>2, NamesAre
  <2>3. QED  BY <2>1, <2>2 DEF Execute, Sent, Refusals, Fits
<1>3. CASE c.tool = "expose_port"
  <2>1. at = Tunnel(routed)
    BY <1>3 DEF ConfirmedAt, COMPUTER_TOOLS, Inputs, Gestures
  <2>2. QED  BY <2>1 DEF Tunnel, Sent, Refusals, Fits
<1>4. CASE c.tool \in HostWrites
  <2>1. at = Routed(routed)
    BY <1>4 DEF ConfirmedAt, COMPUTER_TOOLS, Inputs, Gestures, HostWrites
  <2>2. c.tool \in agent_job_names  BY <1>4, NamesAre
  <2>3. Table[c.tool].host  BY <1>4, FieldsAre DEF Is, Fields
  <2>4. QED  BY <2>1, <2>2, <2>3 DEF Routed, Execute, Sent, Refusals, Fits, Sound
<1>5. QED  BY <1>1, <1>2, <1>3, <1>4
-----------------------------------------------------------------------------
(* How a turn moves                                                        *)

LEMMA TurnsAre ==
    ASSUME NEW t \in Turns
    PROVE  /\ t # NoTurn
           /\ t.surface \in Surfaces /\ t.mode \in AllModes \cup {"none"}
           /\ t.routed \in BOOLEAN /\ t.together \in BOOLEAN /\ t.uses \in Seq(Use)
           /\ \A i \in DOMAIN t.uses : t.uses[i] \in Use
<1>1. t.surface \in Surfaces /\ t.mode \in AllModes \cup {"none"}
        /\ t.routed \in BOOLEAN /\ t.together \in BOOLEAN /\ t.uses \in Seq(Use)
  BY DEF Turns
<1>2. t # NoTurn
  <2>1. t.surface # "none"  BY <1>1 DEF Surfaces, Explorers
  <2>2. NoTurn.surface = "none"  BY DEF NoTurn
  <2>3. QED  BY <2>1, <2>2
<1>3. \A i \in DOMAIN t.uses : t.uses[i] \in Use  BY <1>1
<1>4. QED  BY <1>1, <1>2, <1>3

\* u is t but for where its asks stand.
Moved(t, u) ==
    /\ u \in Turns
    /\ u.surface = t.surface /\ u.mode = t.mode /\ u.routed = t.routed /\ u.together = t.together
    /\ DOMAIN u.uses = DOMAIN t.uses
    /\ \A j \in DOMAIN t.uses : u.uses[j].call = t.uses[j].call

LEMMA UsesMoved ==
    ASSUME NEW t \in Turns, NEW uses \in Seq(Use), DOMAIN uses = DOMAIN t.uses,
           \A j \in DOMAIN t.uses : uses[j].call = t.uses[j].call
    PROVE  /\ Moved(t, [t EXCEPT !.uses = uses])
           /\ [t EXCEPT !.uses = uses].uses = uses
BY DEF Moved, Turns

Sends(t, i, at, by) == [t EXCEPT !.uses[i].at = at, !.uses[i].by = by]

LEMMA BothMoved ==
    ASSUME NEW t \in Turns, NEW i \in DOMAIN t.uses, NEW at \in Stages,
           NEW by \in {"call", "auto", "approval"}, NEW u, u = Sends(t, i, at, by)
    PROVE  /\ Moved(t, u)
           /\ \A j \in DOMAIN t.uses : u.uses[j].at = IF j = i THEN at ELSE t.uses[j].at
<1> DEFINE one == [t.uses[i] EXCEPT !.at = at, !.by = by]
           us == [t.uses EXCEPT ![i] = one]
<1>1. t.uses[i] \in Use /\ t.uses \in Seq(Use)  BY TurnsAre
<1>2. one \in Use /\ one.at = at /\ one.call = t.uses[i].call  BY <1>1 DEF Use
<1> HIDE DEF one
<1>3. us \in Seq(Use) /\ DOMAIN us = DOMAIN t.uses /\ us[i] = one
        /\ \A j \in DOMAIN t.uses \ {i} : us[j] = t.uses[j]
  BY <1>1, <1>2
<1>4. u = [t EXCEPT !.uses = us]  BY <1>1 DEF Sends, us, one, Turns, Use
<1> HIDE DEF us
<1>5. Moved(t, [t EXCEPT !.uses = us]) /\ [t EXCEPT !.uses = us].uses = us
  BY <1>2, <1>3, UsesMoved
<1>6. QED  BY <1>2, <1>3, <1>4, <1>5

LEMMA UseMoved ==
    ASSUME NEW t \in Turns, NEW i \in DOMAIN t.uses, NEW at \in Stages, NEW u,
           u = [t EXCEPT !.uses[i].at = at]
    PROVE  /\ Moved(t, u)
           /\ \A j \in DOMAIN t.uses : u.uses[j].at = IF j = i THEN at ELSE t.uses[j].at
<1> DEFINE one == [t.uses[i] EXCEPT !.at = at]
           us == [t.uses EXCEPT ![i] = one]
<1>1. t.uses[i] \in Use /\ t.uses \in Seq(Use)  BY TurnsAre
<1>2. one \in Use /\ one.at = at /\ one.call = t.uses[i].call  BY <1>1 DEF Use
<1> HIDE DEF one
<1>3. us \in Seq(Use) /\ DOMAIN us = DOMAIN t.uses /\ us[i] = one
        /\ \A j \in DOMAIN t.uses \ {i} : us[j] = t.uses[j]
  BY <1>1, <1>2
<1>4. u = [t EXCEPT !.uses = us]  BY <1>1 DEF us, one, Turns, Use
<1> HIDE DEF us
<1>5. Moved(t, [t EXCEPT !.uses = us]) /\ [t EXCEPT !.uses = us].uses = us
  BY <1>2, <1>3, UsesMoved
<1>6. QED  BY <1>2, <1>3, <1>4, <1>5

\* What a call's move asks of the others: those that wait go on waiting.
LEMMA UsesStaySound ==
    ASSUME GateTypes, UsesSound, turn \in Turns, Moved(turn, turn'),
           \A j \in DOMAIN turn.uses :
               \/ turn'.uses[j].at \notin {"asking", "confirmed"}
               \/ turn'.uses[j].at = turn.uses[j].at
               \/ Sound(turn.uses[j].call) /\ turn.surface \notin Explorers /\ ~turn.together
    PROVE  UsesSound'
<1>1. turn # NoTurn /\ turn' # NoTurn  BY TurnsAre DEF Moved
<1>2. \A j \in DOMAIN turn.uses :
          turn'.uses[j].at \in {"asking", "confirmed"} =>
              Sound(turn.uses[j].call) /\ turn.surface \notin Explorers /\ ~turn.together
  BY <1>1 DEF UsesSound
<1>3. \A j \in DOMAIN turn'.uses :
          turn'.uses[j].at \in {"asking", "confirmed"} =>
              Sound(turn'.uses[j].call) /\ turn'.surface \notin Explorers /\ ~turn'.together
  BY <1>2 DEF Moved
<1>4. turn'.together =>
          /\ turn'.surface = "webchat"
          /\ \A i \in DOMAIN turn'.uses :
                 turn'.uses[i].call.decoded /\ turn'.uses[i].call.tool \in READ_ONLY_BATCH
  BY <1>1 DEF UsesSound, Moved
<1>5. turn'.surface = "mcp" => turn'.mode = "none"  BY <1>1 DEF UsesSound, Moved
<1>6. QED  BY <1>1, <1>3, <1>4, <1>5 DEF UsesSound

LEMMA WhyIs ==
    ASSUME turn \in Turns, NEW by \in {"call", "auto", "approval"}
    PROVE  /\ Why(by) \in Reason
           /\ Why(by).by = by /\ Why(by).surface = turn.surface /\ Why(by).mode = turn.mode
           /\ Why(by).routed = turn.routed
BY TurnsAre DEF Why, Reason

\* A call goes where it may: what is left behind is sound.
LEMMA GoKeeps ==
    ASSUME GateTypes, JobsSound, EffectsSound, UsesSound, turn \in Turns,
           NEW i \in DOMAIN turn.uses, NEW c, c = turn.uses[i].call,
           NEW at \in Sent \cup Refusals, NEW by \in {"call", "auto", "approval"},
           Fits(c, at, turn.routed),
           at \in Sent => Allowed(c.tool, Why(by)),
           turn.surface \in Explorers => at # "tunnel",
           Go(i, c, at, by)
    PROVE  /\ turn' \in Turns /\ UsesSound'
           /\ jobs' \in SUBSET [call : Calls(AnyName), why : Reason] /\ JobsSound'
           /\ effects' \in SUBSET [tool : ToolNames, refused : SUBSET {"server", "machine"},
                                   where : Effective, why : Reason]
           /\ EffectsSound'
<1> DEFINE why == Why(by)
<1>1. c \in Calls(AnyName) /\ c.refused \in SUBSET {"server", "machine"}
  <2>1. turn.uses[i] \in Use  BY TurnsAre
  <2>2. c \in Calls(AnyName)  BY <2>1 DEF Use
  <2>3. QED  BY <2>2, CallsAre
<1>2. why \in Reason /\ why.by = by /\ why.surface = turn.surface /\ why.mode = turn.mode
        /\ why.routed = turn.routed
  BY WhyIs
<1>3. at \in Stages /\ at \notin {"asking", "confirmed"}  BY DEF Stages, Sent, Refusals
<1>4. turn' = Sends(turn, i, at, by)  BY DEF Go, Sends
<1>5. Moved(turn, turn')
        /\ \A j \in DOMAIN turn.uses : turn'.uses[j].at = IF j = i THEN at ELSE turn.uses[j].at
  BY <1>3, <1>4, BothMoved
<1>6. turn' \in Turns /\ UsesSound'
  <2>1. turn' \in Turns  BY <1>5 DEF Moved
  <2>2. QED  BY <1>3, <1>5, <2>1, UsesStaySound
<1> HIDE DEF why
<1>7. jobs' \in SUBSET [call : Calls(AnyName), why : Reason] /\ JobsSound'
  <2>1. CASE at = "machine"
    <3>1. jobs' = jobs \cup {[call |-> c, why |-> why]}  BY <2>1 DEF Go, why
    <3>2. Allowed(c.tool, why) /\ c.tool \in agent_job_names  BY <2>1 DEF Sent, Fits, why
    <3>3. QED  BY <1>1, <1>2, <3>1, <3>2 DEF JobsSound, GateTypes
  <2>2. CASE at # "machine"
    <3>1. jobs' = jobs  BY <2>2 DEF Go
    <3>2. QED  BY <3>1 DEF JobsSound, GateTypes
  <2>3. QED  BY <2>1, <2>2
<1>8. /\ effects' \in SUBSET [tool : ToolNames, refused : SUBSET {"server", "machine"},
                              where : Effective, why : Reason]
      /\ EffectsSound'
  <2>1. CASE at \in {"server", "service", "tunnel"}
    <3> DEFINE e == [tool |-> c.tool, refused |-> c.refused, where |-> at, why |-> why]
    <3>1. effects' = effects \cup {e}  BY <2>1 DEF Go, Effect, why
    <3>2. Allowed(c.tool, why)  BY <2>1 DEF Sent, why
    <3>3. e \in [tool : ToolNames, refused : SUBSET {"server", "machine"},
                 where : Effective, why : Reason]
      BY <1>1, <1>2, <2>1, <3>2 DEF Effective, Allowed
    <3>4. /\ Allowed(e.tool, e.why)
          /\ e.why.surface \in Explorers => e.where # "tunnel"
          /\ e.where = "server" => Table[e.tool].host /\ ~e.why.routed
          /\ e.where \notin e.refused
      BY <1>1, <1>2, <2>1, <3>2 DEF Fits
    <3> HIDE DEF e
    <3>5. QED  BY <3>1, <3>3, <3>4 DEF EffectsSound, GateTypes
  <2>2. CASE at \notin {"server", "service", "tunnel"}
    <3>1. effects' = effects  BY <2>2 DEF Go
    <3>2. QED  BY <3>1 DEF EffectsSound, GateTypes
  <2>3. QED  BY <2>1, <2>2
<1>9. QED  BY <1>6, <1>7, <1>8
-----------------------------------------------------------------------------
(* The steps                                                               *)

LEMMA GateInitInv == ToolInit => GateInv
BY DEF ToolInit, GateInv, GateTypes, JobsSound, EffectsSound, UsesSound

\* The word a call carries is enough for where it comes to.
LEMMA CallAllowed ==
    ASSUME turn \in Turns, NEW c \in Calls(AnyName), NEW at,
           at = Comes(turn.surface, c, turn.routed), at # "staged"
    PROVE  /\ at \in Sent \cup Refusals /\ Fits(c, at, turn.routed)
           /\ at \in Sent => Allowed(c.tool, Why("call")) /\ at # "tunnel"
<1>1. turn.surface \in Surfaces /\ turn.routed \in BOOLEAN  BY TurnsAre
<1>2. Outcome(c, at, turn.routed)  BY <1>1, ComesOutcome
<1>3. turn.surface \in Explorers /\ at \in Sent => Table[c.tool].reads
  BY <1>1, ExplorerOutcome
<1>4. Why("call").surface = turn.surface  BY WhyIs
<1>5. QED  BY <1>2, <1>3, <1>4 DEF Outcome, Allowed

LEMMA StagedSound ==
    ASSUME turn \in Turns, NEW c \in Calls(AnyName),
           Comes(turn.surface, c, turn.routed) = "staged"
    PROVE  /\ Sound(c) /\ turn.surface \notin Explorers
           /\ turn.surface = "webchat" => WebchatCall(c, turn.routed) = "staged"
<1>1. turn.surface \in Surfaces /\ turn.routed \in BOOLEAN  BY TurnsAre
<1>2. Sound(c)  BY <1>1, ComesOutcome DEF Outcome
<1>3. turn.surface \notin Explorers  BY <1>1, ExplorerOutcome
<1>4. turn.surface = "webchat" => WebchatCall(c, turn.routed) = "staged"  BY DEF Comes
<1>5. QED  BY <1>2, <1>3, <1>4

LEMMA ConfirmedAllowed ==
    ASSUME turn \in Turns, NEW c \in Calls(AnyName), Sound(c), turn.surface \notin Explorers,
           NEW at, at = ConfirmedAt(c.tool, turn.routed),
           NEW by \in {"auto", "approval"},
           by = "auto" => turn.surface = "webchat" /\ turn.mode = "auto"
    PROVE  /\ at \in Sent \cup Refusals /\ Fits(c, at, turn.routed)
           /\ Allowed(c.tool, Why(by))
<1>1. turn.routed \in BOOLEAN  BY TurnsAre
<1>2. Why(by).by = by /\ Why(by).surface = turn.surface /\ Why(by).mode = turn.mode  BY WhyIs
<1>3. at \in Sent \cup Refusals /\ Fits(c, at, turn.routed)  BY <1>1, ConfirmedOutcome
<1>4. QED  BY <1>2, <1>3 DEF Allowed, Sound

LEMMA UsesAre ==
    ASSUME turn \in Turns, NEW i \in DOMAIN turn.uses
    PROVE  turn.uses[i] \in Use /\ turn.uses[i].call \in Calls(AnyName)
<1>1. turn.uses[i] \in Use  BY TurnsAre
<1>2. QED  BY <1>1 DEF Use

LEMMA ArriveKeeps ==
    ASSUME GateInv, NEW s \in Surfaces, NEW mode \in AllModes \cup {"none"}, NEW asks,
           asks \in Seq(Calls(AnyName)), s = "mcp" => mode = "none", Arrive(s, mode, asks)
    PROVE  GateInv'
<1> DEFINE uses == [i \in DOMAIN asks |-> Waiting(asks[i])]
           t == [surface |-> s, mode |-> mode, routed |-> routing,
                 together |-> s = "webchat" /\ Together(asks), uses |-> uses]
<1>1. \A c \in Calls(AnyName) : Waiting(c) \in Use /\ Waiting(c).call = c
      /\ Waiting(c).at = "waiting"
  BY DEF Waiting, Use, Stages
<1>2. \A i \in DOMAIN asks : asks[i] \in Calls(AnyName)  OBVIOUS
<1>3. uses \in Seq(Use) /\ DOMAIN uses = DOMAIN asks
        /\ \A i \in DOMAIN asks : uses[i].call = asks[i] /\ uses[i].at = "waiting"
  <2>1. PICK n \in Nat : DOMAIN asks = 1..n  OBVIOUS
  <2>2. uses \in [1..n -> Use]  BY <1>1, <1>2, <2>1
  <2>3. QED  BY <1>1, <1>2, <2>1, <2>2
<1> HIDE DEF uses
<1>4. Together(asks) \in BOOLEAN  BY DEF Together
<1>5. t \in Turns  BY <1>3, <1>4 DEF GateInv, GateTypes, Turns
<1>6. t.surface = s /\ t.together = (s = "webchat" /\ Together(asks)) /\ t.uses = uses  OBVIOUS
<1> HIDE DEF t
<1>7. turn' = t /\ effects' = {} /\ routing' = routing /\ online' = online /\ pending' = pending
        /\ jobs' = jobs
  BY DEF Arrive, t, uses
<1>8. UsesSound'
  <2>1. \A i \in DOMAIN uses : uses[i].at \notin {"asking", "confirmed"}  BY <1>3
  <2>2. t.together => /\ t.surface = "webchat"
                      /\ \A i \in DOMAIN uses : uses[i].call.decoded
                                                /\ uses[i].call.tool \in READ_ONLY_BATCH
    BY <1>3, <1>6 DEF Together
  <2>3. t.mode = mode  BY DEF t
  <2>4. QED  BY <1>6, <1>7, <2>1, <2>2, <2>3 DEF UsesSound
<1>9. GateTypes'  BY <1>5, <1>7 DEF GateInv, GateTypes
<1>10. JobsSound' /\ EffectsSound' /\ \A c \in pending' : Sound(c)
  BY <1>7 DEF GateInv, JobsSound, EffectsSound
<1>11. QED  BY <1>8, <1>9, <1>10 DEF GateInv

LEMMA DecideKeeps ==
    ASSUME GateInv, NEW i, Decide(i)
    PROVE  GateInv'
<1> DEFINE c == turn.uses[i].call
           comes == Comes(turn.surface, c, turn.routed)
<1>1. turn \in Turns /\ i \in DOMAIN turn.uses  BY DEF Decide, GateInv, GateTypes
<1>2. c \in Calls(AnyName)  BY <1>1, UsesAre
<1>3. routing' = routing /\ online' = online  BY DEF Decide
<1> HIDE DEF c, comes
<1>4. CASE comes = "staged" /\ turn.mode = "auto"
  <2> DEFINE at == ConfirmedAt(c.tool, turn.routed)
  <2>1. Go(i, c, at, "auto") /\ pending' = pending  BY <1>4 DEF Decide, c, comes
  <2>2. Sound(c) /\ turn.surface \notin Explorers  BY <1>1, <1>2, <1>4, StagedSound DEF comes
  <2>3. turn.surface = "webchat"
    <3>1. turn # NoTurn /\ turn.surface \in Surfaces  BY <1>1, TurnsAre
    <3>2. QED  BY <1>4, <2>2, <3>1 DEF GateInv, UsesSound, Surfaces
  <2>4. at \in Sent \cup Refusals /\ Fits(c, at, turn.routed) /\ Allowed(c.tool, Why("auto"))
    BY <1>1, <1>2, <1>4, <2>2, <2>3, ConfirmedAllowed
  <2> HIDE DEF at
  <2>5. QED  BY <1>1, <1>3, <2>1, <2>2, <2>4, GoKeeps DEF GateInv, GateTypes, c
<1>5. CASE comes = "staged" /\ turn.mode # "auto"
  <2> DEFINE to == IF turn.surface = "mcp" THEN "done" ELSE "asking"
  <2>1. pending' = pending \cup {c} /\ turn' = [turn EXCEPT !.uses[i].at = to]
          /\ jobs' = jobs /\ effects' = effects
    BY <1>5 DEF Decide, Stage, c, comes
  <2>2. Sound(c) /\ turn.surface \notin Explorers
          /\ (turn.surface = "webchat" => WebchatCall(c, turn.routed) = "staged")
    BY <1>1, <1>2, <1>5, StagedSound DEF comes
  <2>3. to \in {"done", "asking"} /\ to \in Stages  BY DEF Stages
  <2> HIDE DEF to
  <2>4. ~turn.together
    <3>1. turn # NoTurn /\ turn.routed \in BOOLEAN  BY <1>1, TurnsAre
    <3>2. turn.together => turn.surface = "webchat" /\ c.decoded /\ c.tool \in READ_ONLY_BATCH
      BY <1>1, <3>1 DEF GateInv, UsesSound, c
    <3>3. QED  BY <2>2, <3>1, <3>2, BatchNeverAsks
  <2>5. Moved(turn, turn')
          /\ \A j \in DOMAIN turn.uses : turn'.uses[j].at = IF j = i THEN to ELSE turn.uses[j].at
    BY <1>1, <2>1, <2>3, UseMoved
  <2>6. UsesSound'
    BY <1>1, <2>2, <2>4, <2>5, UsesStaySound DEF GateInv, c
  <2>7. GateTypes'  BY <1>2, <1>3, <2>1, <2>5 DEF GateInv, GateTypes, Moved
  <2>8. QED  BY <2>1, <2>2, <2>6, <2>7 DEF GateInv, JobsSound, EffectsSound
<1>6. CASE comes # "staged"
  <2>1. Go(i, c, comes, "call") /\ pending' = pending  BY <1>6 DEF Decide, c, comes
  <2>2. comes \in Sent \cup Refusals /\ Fits(c, comes, turn.routed)
          /\ (comes \in Sent => Allowed(c.tool, Why("call"))) /\ comes # "tunnel"
    <3>1. "tunnel" \notin Refusals  BY DEF Refusals
    <3>2. QED  BY <1>1, <1>2, <1>6, <3>1, CallAllowed DEF comes
  <2>3. QED  BY <1>1, <1>3, <2>1, <2>2, GoKeeps DEF GateInv, GateTypes, c
<1>7. QED  BY <1>4, <1>5, <1>6

LEMMA AnswerKeeps ==
    ASSUME GateInv, NEW i, NEW approved \in BOOLEAN, Answer(i, approved)
    PROVE  GateInv'
<1> DEFINE c == turn.uses[i].call
<1>1. turn \in Turns /\ turn # NoTurn /\ i \in DOMAIN turn.uses /\ turn.uses[i].at = "asking"
  BY DEF Answer, GateInv, GateTypes
<1>2. c \in Calls(AnyName)  BY <1>1, UsesAre
<1>3. Sound(c) /\ turn.surface \notin Explorers  BY <1>1 DEF GateInv, UsesSound
<1> HIDE DEF c
<1>4. routing' = routing /\ online' = online /\ pending' = pending \ {c}  BY DEF Answer, c
<1>5. CASE approved
  <2> DEFINE at == ConfirmedAt(c.tool, turn.routed)
  <2>1. Go(i, c, at, "approval")  BY <1>5 DEF Answer, c
  <2>2. at \in Sent \cup Refusals /\ Fits(c, at, turn.routed) /\ Allowed(c.tool, Why("approval"))
    BY <1>1, <1>2, <1>3, ConfirmedAllowed
  <2> HIDE DEF at
  <2>3. QED  BY <1>1, <1>3, <1>4, <2>1, <2>2, GoKeeps DEF GateInv, GateTypes, c
<1>6. CASE ~approved
  <2>1. Go(i, c, "declined", "call")  BY <1>6 DEF Answer, c
  <2>2. "declined" \in Refusals /\ "declined" \notin Sent /\ Fits(c, "declined", turn.routed)
    BY DEF Refusals, Sent, Fits
  <2>3. QED  BY <1>1, <1>4, <2>1, <2>2, GoKeeps DEF GateInv, GateTypes, c
<1>7. QED  BY <1>5, <1>6

LEMMA ConfirmKeeps ==
    ASSUME GateInv, NEW c \in pending, NEW approved \in BOOLEAN, Confirm(c, approved)
    PROVE  GateInv'
<1> DEFINE use == [call |-> c, by |-> "approval",
                   at |-> IF approved THEN "confirmed" ELSE "declined"]
           t == [surface |-> "mcp", mode |-> "none", routed |-> routing, together |-> FALSE,
                 uses |-> <<use>>]
<1>1. c \in Calls(AnyName) /\ Sound(c)  BY DEF GateInv, GateTypes
<1>2. use \in Use /\ use.call = c  BY <1>1 DEF Use, Stages, Refusals
<1> HIDE DEF use
<1>3. t \in Turns /\ DOMAIN t.uses = {1} /\ t.uses[1] = use /\ t.surface = "mcp"
        /\ t.mode = "none" /\ t.together = FALSE
  <2>1. <<use>> \in Seq(Use) /\ DOMAIN <<use>> = {1} /\ <<use>>[1] = use  BY <1>2
  <2>2. QED  BY <2>1 DEF GateInv, GateTypes, Turns, Surfaces
<1> HIDE DEF t
<1>4. turn' = t /\ routing' = routing /\ online' = online /\ pending' = pending \ {c}
        /\ jobs' = jobs /\ effects' = {}
  BY DEF Confirm, t, use
<1>5. UsesSound'  BY <1>1, <1>2, <1>3, <1>4 DEF UsesSound, Explorers
<1>6. QED  BY <1>3, <1>4, <1>5 DEF GateInv, GateTypes, JobsSound, EffectsSound

LEMMA ConfirmedKeeps ==
    ASSUME GateInv, NEW i, Confirmed(i)
    PROVE  GateInv'
<1> DEFINE c == turn.uses[i].call
           at == ConfirmedAt(c.tool, turn.routed)
<1>1. turn \in Turns /\ turn # NoTurn /\ i \in DOMAIN turn.uses /\ turn.uses[i].at = "confirmed"
  BY DEF Confirmed, GateInv, GateTypes
<1>2. c \in Calls(AnyName)  BY <1>1, UsesAre
<1>3. Sound(c) /\ turn.surface \notin Explorers  BY <1>1 DEF GateInv, UsesSound
<1>4. routing' = routing /\ online' = online /\ pending' = pending /\ Go(i, c, at, "approval")
  BY DEF Confirmed
<1> HIDE DEF c
<1>5. at \in Sent \cup Refusals /\ Fits(c, at, turn.routed) /\ Allowed(c.tool, Why("approval"))
  BY <1>1, <1>2, <1>3, ConfirmedAllowed
<1> HIDE DEF at
<1>6. QED  BY <1>1, <1>3, <1>4, <1>5, GoKeeps DEF GateInv, GateTypes, c

\* A use that comes to rest, with nothing else but jobs that are dropped.
LEMMA RestKeeps ==
    ASSUME GateInv, turn \in Turns, NEW i \in DOMAIN turn.uses, NEW at \in {"done", "refused"},
           turn' = [turn EXCEPT !.uses[i].at = at], jobs' \subseteq jobs,
           UNCHANGED <<routing, online, pending, effects>>
    PROVE  GateInv'
<1>1. at \in Stages /\ at \notin {"asking", "confirmed"}  BY DEF Stages
<1>2. Moved(turn, turn')
        /\ \A j \in DOMAIN turn.uses : turn'.uses[j].at = IF j = i THEN at ELSE turn.uses[j].at
  BY <1>1, UseMoved
<1>3. UsesSound'  BY <1>1, <1>2, UsesStaySound DEF GateInv
<1>4. QED  BY <1>2, <1>3 DEF GateInv, GateTypes, JobsSound, EffectsSound, Moved

LEMMA ReturnKeeps ==
    ASSUME GateInv, NEW i, Return(i)
    PROVE  GateInv'
<1> DEFINE at == IF turn.uses[i].at \in Sent THEN "done" ELSE "refused"
<1>1. turn \in Turns /\ i \in DOMAIN turn.uses  BY DEF Return, GateInv, GateTypes
<1>2. at \in {"done", "refused"}  OBVIOUS
<1>3. turn' = [turn EXCEPT !.uses[i].at = at]
  <2>1. turn.uses[i] \in Use /\ turn.uses \in Seq(Use)  BY <1>1, TurnsAre
  <2>2. QED  BY <1>1, <2>1 DEF Return, Turns, Use
<1> HIDE DEF at
<1>4. jobs' = jobs /\ UNCHANGED <<routing, online, pending, effects>>  BY DEF Return
<1>5. QED  BY <1>1, <1>2, <1>3, <1>4, RestKeeps

LEMMA TimeOutKeeps ==
    ASSUME GateInv, NEW i, NEW missed \in BOOLEAN, TimeOut(i, missed)
    PROVE  GateInv'
<1>1. turn \in Turns /\ i \in DOMAIN turn.uses  BY DEF TimeOut, GateInv, GateTypes
<1>2. jobs' \subseteq jobs  BY DEF TimeOut
<1>3. turn' = [turn EXCEPT !.uses[i].at = "refused"]
        /\ UNCHANGED <<routing, online, pending, effects>>
  BY DEF TimeOut
<1>4. QED  BY <1>1, <1>2, <1>3, RestKeeps

\* The machine acts on a job it knows and that its walls let through.
LEMMA MachineKeeps ==
    ASSUME GateInv, NEW j \in jobs, MachineRuns(j)
    PROVE  GateInv'
<1>1. j \in [call : Calls(AnyName), why : Reason] /\ Allowed(j.call.tool, j.why)
  BY DEF GateInv, GateTypes, JobsSound
<1>2. /\ effects' \in SUBSET [tool : ToolNames, refused : SUBSET {"server", "machine"},
                              where : Effective, why : Reason]
      /\ EffectsSound'
  <2>1. CASE MachineRefuses(j)
    <3>1. effects' = effects  BY <2>1 DEF MachineRuns
    <3>2. QED  BY <3>1 DEF GateInv, GateTypes, EffectsSound
  <2>2. CASE ~MachineRefuses(j)
    <3> DEFINE e == Effect(j.call, "machine", j.why)
    <3>1. effects' = effects \cup {e}  BY <2>2 DEF MachineRuns
    <3>2. j.call \in Calls(AnyName) /\ j.why \in Reason
            /\ j.call.refused \in SUBSET {"server", "machine"}
      BY <1>1, CallsAre
    <3>3. e \in [tool : ToolNames, refused : SUBSET {"server", "machine"},
                 where : Effective, why : Reason]
      BY <1>1, <3>2 DEF Effect, Effective, Allowed
    <3>4. /\ Allowed(e.tool, e.why) /\ e.where = "machine"
          /\ e.where \notin e.refused
      BY <1>1, <2>2 DEF MachineRefuses, Effect
    <3> HIDE DEF e
    <3>5. QED  BY <3>1, <3>3, <3>4 DEF GateInv, GateTypes, EffectsSound
  <2>3. QED  BY <2>1, <2>2
<1>3. routing' = routing /\ online' = online /\ pending' = pending /\ jobs' \subseteq jobs
  BY DEF MachineRuns
<1>4. CASE turn = NoTurn
  <2>1. turn' = NoTurn  BY <1>4 DEF MachineRuns
  <2>2. UsesSound'  BY <2>1 DEF UsesSound
  <2>3. QED  BY <1>2, <1>3, <2>1, <2>2 DEF GateInv, GateTypes, JobsSound
<1>5. CASE turn # NoTurn
  <2>1. turn \in Turns  BY <1>5 DEF GateInv, GateTypes
  <2> DEFINE done(use) == IF use.at = "machine" /\ use.call = j.call
                          THEN [use EXCEPT !.at = "done"] ELSE use
             uses == [i \in DOMAIN turn.uses |-> done(turn.uses[i])]
  <2>2. \A use \in Use : done(use) \in Use /\ done(use).call = use.call
                         /\ (done(use).at = use.at \/ done(use).at = "done")
    BY DEF Use, Stages
  <2> HIDE DEF done
  <2>3. uses \in Seq(Use) /\ DOMAIN uses = DOMAIN turn.uses
          /\ \A i \in DOMAIN turn.uses : uses[i] = done(turn.uses[i])
    <3>1. turn.uses \in Seq(Use)  BY <2>1, TurnsAre
    <3>2. PICK n \in Nat : DOMAIN turn.uses = 1..n  BY <3>1
    <3>3. \A i \in DOMAIN turn.uses : turn.uses[i] \in Use  BY <3>1
    <3>4. uses \in [1..n -> Use]  BY <2>2, <3>2, <3>3
    <3>5. QED  BY <3>2, <3>4
  <2>4. turn' = [turn EXCEPT !.uses = uses]
    BY <1>5, <2>1 DEF MachineRuns, uses, done, Turns
  <2> HIDE DEF uses
  <2>5. \A i \in DOMAIN turn.uses : turn.uses[i] \in Use  BY <2>1, TurnsAre
  <2>6. Moved(turn, turn') /\ turn'.uses = uses  BY <2>1, <2>2, <2>3, <2>4, <2>5, UsesMoved
  <2>7. UsesSound'
    BY <2>1, <2>2, <2>3, <2>5, <2>6, UsesStaySound DEF GateInv
  <2>8. QED  BY <1>2, <1>3, <2>6, <2>7 DEF GateInv, GateTypes, JobsSound, Moved
<1>6. QED  BY <1>4, <1>5

\* What ends a turn takes its effects with it.
LEMMA EndKeeps ==
    ASSUME GateInv, turn' = NoTurn, effects' = {}, jobs' \subseteq jobs,
           pending' \subseteq pending,
           routing' \in BOOLEAN, online' \in BOOLEAN
    PROVE  GateInv'
BY DEF GateInv, GateTypes, JobsSound, EffectsSound, UsesSound

LEMMA GateStutter ==
    ASSUME GateInv, UNCHANGED <<turn, effects, jobs, routing>>, pending' \subseteq pending,
           online' \in BOOLEAN
    PROVE  GateInv'
BY DEF GateInv, GateTypes, JobsSound, EffectsSound, UsesSound

LEMMA GateStep == GateInv /\ [ToolNext]_toolVars => GateInv'
<1> SUFFICES ASSUME GateInv, [ToolNext]_toolVars  PROVE GateInv'
  OBVIOUS
<1>1. \A names \in SUBSET AnyName : Calls(names) \subseteq Calls(AnyName)
  BY DEF Calls
<1>2. ASSUME NEW c \in Calls(AnyName \ {"confirm_action"}), Arrive("mcp", "none", <<c>>)
      PROVE  GateInv'
  <2>1. c \in Calls(AnyName)  BY <1>1
  <2>2. <<c>> \in Seq(Calls(AnyName))  BY <2>1
  <2>3. "mcp" \in Surfaces  BY DEF Surfaces
  <2>4. QED  BY <1>2, <2>2, <2>3, ArriveKeeps
<1>3. ASSUME NEW mode \in AllModes, NEW asks \in Messages, Arrive("webchat", mode, asks)
      PROVE  GateInv'
  <2>1. asks \in Seq(Calls(AnyName))
    <3>1. CASE \E c \in Calls(AnyName) : asks = <<c>>  BY <3>1
    <3>2. CASE \E c \in {e \in Calls(AnyName) : e.decoded}, d \in Calls(Second) : asks = <<c, d>>
      <4>1. Calls(Second) \subseteq Calls(AnyName)  BY CallsWithin
      <4>2. QED  BY <3>2, <4>1
    <3>3. QED  BY <3>1, <3>2 DEF Messages
  <2>2. "webchat" \in Surfaces  BY DEF Surfaces
  <2>3. QED  BY <1>3, <2>1, <2>2, ArriveKeeps
<1>4. ASSUME NEW s \in {"explore", "librarian"}, NEW mode \in AllModes, NEW c \in Calls(AnyName),
             Arrive(s, mode, <<c>>)
      PROVE  GateInv'
  <2>1. <<c>> \in Seq(Calls(AnyName))  OBVIOUS
  <2>2. s \in Surfaces /\ s # "mcp"  BY DEF Surfaces, Explorers
  <2>3. QED  BY <1>4, <2>1, <2>2, ArriveKeeps
<1>5. ASSUME NEW i \in 1..2, Decide(i)  PROVE GateInv'  BY <1>5, DecideKeeps
<1>6. ASSUME NEW i \in 1..2, Confirmed(i)  PROVE GateInv'  BY <1>6, ConfirmedKeeps
<1>7. ASSUME NEW i \in 1..2, Return(i)  PROVE GateInv'  BY <1>7, ReturnKeeps
<1>8. ASSUME NEW i \in 1..2, NEW b \in BOOLEAN, Answer(i, b)  PROVE GateInv'  BY <1>8, AnswerKeeps
<1>9. ASSUME NEW i \in 1..2, NEW b \in BOOLEAN, TimeOut(i, b)  PROVE GateInv'
  BY <1>9, TimeOutKeeps
<1>10. ASSUME NEW c \in pending, NEW b \in BOOLEAN, Confirm(c, b)  PROVE GateInv'
  BY <1>10, ConfirmKeeps
<1>11. ASSUME NEW j \in jobs, MachineRuns(j)  PROVE GateInv'  BY <1>11, MachineKeeps
<1>12. ASSUME EndTurn \/ Disconnect \/ Restart  PROVE GateInv'
  BY <1>12, EndKeeps DEF EndTurn, Disconnect, Restart, GateInv, GateTypes
<1>13. ASSUME Expire \/ Connection \/ UNCHANGED toolVars  PROVE GateInv'
  BY <1>13, GateStutter DEF Expire, Connection, toolVars, GateInv, GateTypes
<1>14. QED
  BY <1>2, <1>3, <1>4, <1>5, <1>6, <1>7, <1>8, <1>9, <1>10, <1>11, <1>12, <1>13 DEF ToolNext
-----------------------------------------------------------------------------
(* Workflows and their events (Workflows.tla).                             *)

Passing == {"log", "plan.created", "subagent.started", "subagent.completed", "subagent.failed",
            "workflow.started", "model.completed", "tool.requested", "tool.completed",
            "tool.failed"}
LastKinds == {"workflow.completed", "workflow.failed"}
Events == [type : Passing \cup LastKinds, of : Nat, ts : Nat]
Steps == [pc : {"ask", "tools", "done", "failed", "blocked"}, calls : Nat, iteration : Nat,
          repeats : Nat, tripped : BOOLEAN, late : Nat]

WorkTypes ==
    /\ steps \in Seq(Steps) /\ charged \in Nat /\ clock \in Nat /\ clock >= 1
    /\ events \in Seq(Events) /\ oldest \in Nat
    /\ rows \in Seq(Nat)
    /\ inspector \in [sent : Seq(Nat), since : Nat, batch : Seq(Nat)]

\* Stamps never go back.
Stamped ==
    /\ \A i \in DOMAIN events : events[i].ts <= clock
    /\ \A i, j \in DOMAIN events : i <= j => events[i].ts <= events[j].ts
RingHeld == oldest <= Len(events) /\ Len(events) - oldest <= HistoryLimit

\* An event is inserted once, if at all.
RowsHeld ==
    /\ writing \subseteq DOMAIN events
    /\ \A r \in DOMAIN rows : rows[r] \in DOMAIN events /\ rows[r] \notin writing
    /\ \A r, s \in DOMAIN rows : rows[r] = rows[s] => r = s

Growing(s) == \A i, j \in DOMAIN s : i < j => s[i] < s[j]
\* What is sent comes before what is about to be, and neither skips a stamp.
Followed ==
    /\ Growing(inspector.sent) /\ Growing(inspector.batch)
    /\ \A i \in DOMAIN inspector.sent :
           inspector.sent[i] \in DOMAIN events /\ events[inspector.sent[i]].ts <= inspector.since
    /\ \A j \in DOMAIN inspector.batch :
           inspector.batch[j] \in DOMAIN events
           /\ events[inspector.batch[j]].ts >= inspector.since
    /\ \A i \in DOMAIN inspector.sent, j \in DOMAIN inspector.batch :
           inspector.sent[i] < inspector.batch[j]
    /\ \/ inspector.since = 0
       \/ \E i \in DOMAIN inspector.sent : events[inspector.sent[i]].ts = inspector.since
    /\ \A i \in DOMAIN events : events[i].ts <= inspector.since =>
           \/ i \in Work!Set(inspector.sent) \cup Work!Set(inspector.batch)
           \/ i <= oldest
           \/ \E j \in Work!Set(inspector.sent) : events[j].ts = events[i].ts
    /\ inspector.batch # <<>> =>
           \A i \in DOMAIN events : events[i].ts > inspector.since =>
               \/ i \in Work!Set(inspector.batch) \/ i <= oldest
               \/ \A k \in DOMAIN inspector.batch : events[i].ts >= events[inspector.batch[k]].ts

Closing == {i \in DOMAIN events : events[i].type \in LastKinds}
Done == {n \in DOMAIN steps : steps[n].pc = "done"}
JobHeld ==
    /\ job \notin {"completed", "exhausted"} => Closing = {}
    /\ job \in {"completed", "exhausted"} => Closing = {Len(events)}
    /\ job = "planning" => steps = <<>> /\ charged = 0
    /\ job = "fanout" => charged = 1
    /\ job = "merged" /\ steps # <<>> =>
           /\ \A n \in DOMAIN steps : steps[n].pc \in {"done", "failed"}
           /\ findings \in Work!InOrder(Done) /\ charged = 1 + Cardinality(Work!CallsOf(Done))

WorkInv == WorkTypes /\ Stamped /\ RingHeld /\ RowsHeld /\ Followed /\ JobHeld
-----------------------------------------------------------------------------
(* The bus.                                                                *)

\* What is emitted goes behind what was (HarnessEventBus.emit).
LEMMA EmitGrows ==
    ASSUME WorkTypes, NEW new \in Seq(Events), Work!Emit(new)
    PROVE  /\ events' \in Seq(Events) /\ Len(events') = Len(events) + Len(new)
           /\ DOMAIN events \subseteq DOMAIN events'
           /\ \A i \in DOMAIN events : events'[i] = events[i]
           /\ \A i \in DOMAIN events' \ DOMAIN events :
                  /\ i > Len(events) /\ i - Len(events) \in DOMAIN new
                  /\ events'[i] = new[i - Len(events)]
BY DEF WorkTypes, Work!Emit

\* What the log, its rows and its readers promise outlasts what is emitted now.
LEMMA EmitKeeps ==
    ASSUME WorkTypes, Stamped, RingHeld, RowsHeld, Followed, NEW new \in Seq(Events),
           \A k \in DOMAIN new : new[k].ts = clock, Work!Emit(new),
           UNCHANGED <<clock, rows, inspector>>
    PROVE  /\ Stamped' /\ RingHeld' /\ RowsHeld' /\ Followed'
           /\ events' \in Seq(Events) /\ oldest' \in Nat
<1>1. /\ events' \in Seq(Events) /\ Len(events') = Len(events) + Len(new)
      /\ DOMAIN events = 1 .. Len(events) /\ DOMAIN events' = 1 .. Len(events')
      /\ Len(events) \in Nat /\ Len(events') \in Nat /\ Len(new) \in Nat
      /\ \A i \in DOMAIN events : i \in DOMAIN events' /\ events'[i] = events[i]
      /\ \A i \in DOMAIN events' \ DOMAIN events : i > Len(events) /\ events'[i].ts = clock
  BY EmitGrows DEF WorkTypes
<1>2. oldest \in Nat /\ oldest' \in Nat /\ oldest <= oldest' /\ RingHeld'
  BY <1>1, TalkAssumption DEF WorkTypes, RingHeld, Work!Emit
<1>0. /\ \A i \in DOMAIN events : events[i].ts \in Nat
      /\ \A i \in DOMAIN events' : events'[i].ts \in Nat
  <2>1. /\ \A i \in DOMAIN events : events[i] \in Events
        /\ \A i \in DOMAIN events' : events'[i] \in Events
    BY <1>1, ElementOfSeq DEF WorkTypes
  <2>2. QED  BY <2>1 DEF Events
<1>3. Stamped'
  <2>1. clock' = clock /\ clock \in Nat  BY DEF WorkTypes
  <2>2. \A i \in DOMAIN events' : events'[i].ts <= clock'  BY <1>0, <1>1, <2>1 DEF Stamped
  <2>3. ASSUME NEW i \in DOMAIN events', NEW j \in DOMAIN events', i <= j
        PROVE  events'[i].ts <= events'[j].ts
    <3>1. CASE j \in DOMAIN events
      <4>1. i \in DOMAIN events  BY <1>1, <2>3, <3>1
      <4>2. QED  BY <1>1, <2>3, <3>1, <4>1 DEF Stamped
    <3>2. CASE j \notin DOMAIN events  BY <1>1, <2>1, <2>2, <3>2
    <3>3. QED  BY <3>1, <3>2
  <2>4. QED  BY <2>2, <2>3 DEF Stamped
<1>4. RowsHeld'
  <2>1. \A i \in writing' : i \in writing \/ i \in DOMAIN events' \ DOMAIN events
    BY <1>1, TalkAssumption DEF Work!Emit, Work!Least
  <2>2. QED  BY <1>1, <2>1 DEF RowsHeld
<1>5. Followed'
  <2> DEFINE q == inspector
  <2>1. q' = q /\ q.since \in Nat /\ clock \in Nat /\ clock >= 1  BY DEF WorkTypes
  <2>2. Growing(q.sent)' /\ Growing(q.batch)'  BY <2>1 DEF Followed, Growing
  <2>3. /\ \A i \in DOMAIN q.sent : q.sent[i] \in DOMAIN events'
           /\ events'[q.sent[i]].ts <= q.since
        /\ \A j \in DOMAIN q.batch : q.batch[j] \in DOMAIN events'
           /\ events'[q.batch[j]].ts >= q.since
        /\ \A i \in DOMAIN q.sent, j \in DOMAIN q.batch : q.sent[i] < q.batch[j]
        /\ \/ q.since = 0
           \/ \E i \in DOMAIN q.sent : events'[q.sent[i]].ts = q.since
    BY <1>1 DEF Followed
  <2>4. ASSUME NEW i \in DOMAIN events', events'[i].ts <= q.since
        PROVE  \/ i \in Work!Set(q.sent) \cup Work!Set(q.batch)
               \/ i <= oldest'
               \/ \E j \in Work!Set(q.sent) : events'[j].ts = events'[i].ts
    <3>1. CASE i \in DOMAIN events
      <4>1. events'[i] = events[i] /\ events[i].ts <= q.since  BY <1>1, <2>4, <3>1
      <4>2. \A j \in Work!Set(q.sent) : events'[j] = events[j]  BY <1>1 DEF Followed, Work!Set
      <4>3. CASE i <= oldest  BY <1>1, <1>2, <3>1, <4>3
      <4>4. QED  BY <3>1, <4>1, <4>2, <4>3 DEF Followed
    <3>2. CASE i \notin DOMAIN events
      <4>1. events'[i].ts = clock  BY <1>1, <3>2
      <4>2. PICK k \in DOMAIN q.sent : events[q.sent[k]].ts = q.since
        BY <2>1, <2>4, <4>1 DEF Followed
      <4>3. q.sent[k] \in DOMAIN events  BY DEF Followed
      <4>4. events[q.sent[k]].ts <= clock  BY <4>3 DEF Stamped
      <4>5. q.since = clock  BY <2>1, <2>4, <4>1, <4>2, <4>4
      <4>6. events'[q.sent[k]].ts = clock  BY <1>1, <4>2, <4>3, <4>5
      <4>7. QED  BY <4>1, <4>6 DEF Work!Set
    <3>3. QED  BY <3>1, <3>2
  <2>5. ASSUME q.batch # <<>>, NEW i \in DOMAIN events', events'[i].ts > q.since
        PROVE  \/ i \in Work!Set(q.batch) \/ i <= oldest'
               \/ \A k \in DOMAIN q.batch : events'[i].ts >= events'[q.batch[k]].ts
    <3>1. CASE i \in DOMAIN events
      <4>1. \A k \in DOMAIN q.batch : events'[q.batch[k]] = events[q.batch[k]]
        BY <1>1 DEF Followed
      <4>2. QED  BY <1>1, <1>2, <2>5, <3>1, <4>1 DEF Followed
    <3>2. CASE i \notin DOMAIN events
      <4>1. events'[i].ts = clock  BY <1>1, <3>2
      <4>2. \A k \in DOMAIN q.batch : events[q.batch[k]].ts <= clock
        BY DEF Followed, Stamped
      <4>3. \A k \in DOMAIN q.batch : events[q.batch[k]].ts \in Nat
        BY <1>0 DEF Followed
      <4>4. QED  BY <1>1, <2>1, <4>1, <4>2, <4>3 DEF Followed
    <3>3. QED  BY <3>1, <3>2
  <2>6. QED  BY <2>1, <2>2, <2>3, <2>4, <2>5 DEF Followed, Work!Set
<1>6. QED  BY <1>1, <1>2, <1>3, <1>4, <1>5
-----------------------------------------------------------------------------
(* Steps that leave the log alone.                                         *)

\* A step of a plan that emits nothing (run_one, explore).
LEMMA QuietKeeps ==
    ASSUME WorkInv, steps' \in Seq(Steps), job = "fanout",
           UNCHANGED <<job, charged, clock, events, oldest, rows, writing, inspector>>
    PROVE  WorkInv'
<1>1. Stamped' /\ RingHeld' /\ RowsHeld' /\ WorkTypes'
  BY DEF WorkInv, WorkTypes, Stamped, RingHeld, RowsHeld
<1>2. Followed'  BY DEF WorkInv, Followed, Growing, Work!Set
<1>3. JobHeld'  BY DEF WorkInv, JobHeld, Closing
<1>4. QED  BY <1>1, <1>2, <1>3 DEF WorkInv

LEMMA ClockKeeps == ASSUME WorkInv, Work!ClockAdvances  PROVE WorkInv'
<1>1. WorkTypes' /\ RingHeld' /\ RowsHeld'
  BY DEF WorkInv, WorkTypes, RingHeld, RowsHeld, Work!ClockAdvances
<1>2. Stamped'
  <2>1. \A i \in DOMAIN events : events[i] \in Events
    BY ElementOfSeq DEF WorkInv, WorkTypes
  <2>2. \A i \in DOMAIN events : events[i].ts \in Nat  BY <2>1 DEF Events
  <2>3. QED  BY <2>2 DEF WorkInv, WorkTypes, Stamped, Work!ClockAdvances
<1>3. Followed'  BY DEF WorkInv, Followed, Growing, Work!Set, Work!ClockAdvances
<1>4. JobHeld'
  BY DEF WorkInv, JobHeld, Closing, Done, Work!InOrder, Work!CallsOf, Work!ClockAdvances
<1>5. QED  BY <1>1, <1>2, <1>3, <1>4 DEF WorkInv

\* An insert that ended is not repeated (persist of the engine).
LEMMA InsertEndsKeeps == ASSUME WorkInv, NEW i \in writing, Work!InsertEnds(i)  PROVE WorkInv'
<1>1. i \in Nat /\ i \in DOMAIN events  BY DEF WorkInv, RowsHeld, WorkTypes
<1>2. WorkTypes' /\ Stamped' /\ RingHeld'
  <2>1. rows' = rows \/ rows' = Append(rows, i)  BY DEF Work!InsertEnds
  <2>2. rows \in Seq(Nat) /\ Append(rows, i) \in Seq(Nat)  BY <1>1 DEF WorkInv, WorkTypes
  <2>3. QED  BY <2>1, <2>2 DEF WorkInv, WorkTypes, Stamped, RingHeld, Work!InsertEnds
<1>3. RowsHeld'
  <2>1. CASE rows' = rows  BY <2>1 DEF WorkInv, RowsHeld, Work!InsertEnds
  <2>2. CASE rows' = Append(rows, i)
    <3>1. /\ DOMAIN rows' = DOMAIN rows \cup {Len(rows) + 1} /\ rows'[Len(rows) + 1] = i
          /\ \A r \in DOMAIN rows : rows'[r] = rows[r]
      BY <1>1, <2>2 DEF WorkInv, WorkTypes
    <3>2. QED  BY <1>1, <3>1 DEF WorkInv, RowsHeld, Work!InsertEnds
  <2>3. QED  BY <2>1, <2>2 DEF Work!InsertEnds
<1>4. Followed'  BY DEF WorkInv, Followed, Growing, Work!Set, Work!InsertEnds
<1>5. JobHeld'
  BY DEF WorkInv, JobHeld, Closing, Done, Work!InOrder, Work!CallsOf, Work!InsertEnds
<1>6. QED  BY <1>2, <1>3, <1>4, <1>5 DEF WorkInv
-----------------------------------------------------------------------------
(* The inspector.                                                          *)

\* A set of numbers written in order holds them all.
LEMMA OrderHolds ==
    ASSUME NEW S, IsFiniteSet(S), S \subseteq Nat, NEW s \in Work!InOrder(S)
    PROVE  s \in Seq(Nat) /\ Growing(s) /\ Work!Set(s) = S
<1> DEFINE n == Cardinality(S)
<1>1. n \in Nat  BY FS_CardinalityType
<1>2. s \in [1 .. n -> S] /\ Growing(s)  BY SameCount DEF Work!InOrder, Growing
<1>3. s \in Seq(Nat)
  <2>1. s \in [1 .. n -> Nat]  BY <1>2
  <2>2. QED  BY <1>1, <2>1
<1>4. DOMAIN s = 1 .. n /\ Work!Set(s) \subseteq S  BY <1>2 DEF Work!Set
<1>5. IsInjective(s)
  <2>1. \A i, j \in 1 .. n : i < j \/ j < i \/ i = j  BY <1>1
  <2>2. \A i \in 1 .. n : s[i] \in Nat  BY <1>2
  <2>3. \A i, j \in 1 .. n : i < j => s[i] # s[j]  BY <1>2, <1>4, <2>2 DEF Growing
  <2>4. QED  BY <1>4, <2>1, <2>3 DEF IsInjective
<1>6. s \in Injection(1 .. n, S)  BY <1>2, <1>5 DEF Injection
<1>7. IsFiniteSet(1 .. n) /\ Cardinality(1 .. n) = n  BY <1>1, FS_Interval
<1>8. s \in Surjection(1 .. n, S)  BY <1>6, <1>7, FS_Injection
<1>9. Work!Set(s) = S  BY <1>4, <1>8 DEF Surjection, Work!Set
<1>10. QED  BY <1>2, <1>3, <1>9

LEMMA HistoryIsFinite ==
    ASSUME WorkInv, NEW since \in Nat
    PROVE  Work!History(since) \subseteq DOMAIN events /\ IsFiniteSet(Work!History(since))
<1>1. DOMAIN events = 1 .. Len(events) /\ Len(events) \in Nat /\ oldest \in Nat
  BY DEF WorkInv, WorkTypes
<1>2. Work!History(since) \subseteq 1 .. Len(events)  BY <1>1 DEF Work!History
<1>3. IsFiniteSet(1 .. Len(events))  BY <1>1, FS_Interval
<1>4. QED  BY <1>1, <1>2, <1>3, FS_Subset

LEMMA StampsAre == ASSUME WorkInv  PROVE \A i \in DOMAIN events : events[i].ts \in Nat
<1>1. \A i \in DOMAIN events : events[i] \in Events  BY ElementOfSeq DEF WorkInv, WorkTypes
<1>2. QED  BY <1>1 DEF Events

\* What is fetched comes after everything sent (harness_events_ws).
LEMMA FetchKeeps == ASSUME WorkInv, Work!Fetch  PROVE WorkInv'
<1> DEFINE q == inspector
<1>1. PICK batch \in Work!InOrder(Work!History(q.since)) : inspector'
               = [inspector EXCEPT !.batch = batch]
  BY DEF Work!Fetch
<1>2. q \in [sent : Seq(Nat), since : Nat, batch : Seq(Nat)] /\ q.batch = <<>>
  BY DEF WorkInv, WorkTypes, Work!Fetch
<1>3. /\ Work!History(q.since) \subseteq DOMAIN events /\ IsFiniteSet(Work!History(q.since))
      /\ DOMAIN events \subseteq Nat
  BY <1>2, HistoryIsFinite DEF WorkInv, WorkTypes
<1>4. batch \in Seq(Nat) /\ Growing(batch) /\ Work!Set(batch) = Work!History(q.since)
  BY <1>3, OrderHolds
<1>5. /\ inspector' = [sent |-> q.sent, since |-> q.since, batch |-> batch]
      /\ q'.sent = q.sent /\ q'.since = q.since /\ q'.batch = batch
  BY <1>1, <1>2
<1>6. WorkTypes' /\ Stamped' /\ RingHeld' /\ RowsHeld'
  BY <1>2, <1>4, <1>5 DEF WorkInv, WorkTypes, Stamped, RingHeld, RowsHeld, Work!Fetch
<1>7. \A i \in DOMAIN events : i \in Work!Set(batch) <=> i > oldest /\ events[i].ts > q.since
  BY <1>3, <1>4 DEF Work!History, WorkInv, WorkTypes
<1>8. \A j \in DOMAIN batch : batch[j] \in DOMAIN events /\ events[batch[j]].ts > q.since
  BY <1>3, <1>4 DEF Work!Set, Work!History
<1>9. ASSUME NEW i \in DOMAIN q.sent, NEW j \in DOMAIN batch  PROVE q.sent[i] < batch[j]
  <2>1. /\ q.sent[i] \in DOMAIN events /\ events[q.sent[i]].ts <= q.since
        /\ batch[j] \in DOMAIN events /\ events[batch[j]].ts > q.since
    BY <1>8, <1>9 DEF WorkInv, Followed
  <2>2. ~(events[batch[j]].ts <= events[q.sent[i]].ts)
    BY <1>2, <2>1, StampsAre
  <2>3. ~(batch[j] <= q.sent[i])  BY <2>1, <2>2 DEF WorkInv, Stamped
  <2>4. QED  BY <1>3, <2>1, <2>3
<1>10. Followed'
  <2>1. events' = events /\ oldest' = oldest  BY DEF Work!Fetch
  <2>2. /\ Growing(q.sent) /\ Growing(batch)
        /\ \A i \in DOMAIN q.sent : q.sent[i] \in DOMAIN events /\ events[q.sent[i]].ts <= q.since
        /\ \/ q.since = 0
           \/ \E i \in DOMAIN q.sent : events[q.sent[i]].ts = q.since
    BY <1>4 DEF WorkInv, Followed
  <2>3. \A j \in DOMAIN batch : batch[j] \in DOMAIN events /\ events[batch[j]].ts >= q.since
    BY <1>2, <1>8, StampsAre
  <2>4. \A i \in DOMAIN events : events[i].ts <= q.since =>
           \/ i \in Work!Set(q.sent) \cup Work!Set(batch)
           \/ i <= oldest
           \/ \E j \in Work!Set(q.sent) : events[j].ts = events[i].ts
    BY <1>2 DEF WorkInv, Followed, Work!Set
  <2>5. \A i \in DOMAIN events : events[i].ts > q.since => i \in Work!Set(batch) \/ i <= oldest
    BY <1>3, <1>7 DEF WorkInv, WorkTypes
  <2>6. QED  BY <1>5, <1>9, <2>1, <2>2, <2>3, <2>4, <2>5 DEF Followed
<1>11. JobHeld'  BY DEF WorkInv, JobHeld, Closing, Done, Work!InOrder, Work!CallsOf, Work!Fetch
<1>12. QED  BY <1>6, <1>10, <1>11 DEF WorkInv

\* One event more is sent, and its stamp remembered (harness_events_ws).
LEMMA SendEventKeeps == ASSUME WorkInv, Work!SendEvent  PROVE WorkInv'
<1> DEFINE q == inspector
           i == Head(q.batch)
<1>1. q \in [sent : Seq(Nat), since : Nat, batch : Seq(Nat)] /\ q.batch # <<>>
  BY DEF WorkInv, WorkTypes, Work!SendEvent
<1>2. /\ q.batch \in Seq(Nat) /\ i = q.batch[1] /\ 1 \in DOMAIN q.batch /\ i \in Nat
      /\ Tail(q.batch) \in Seq(Nat)
      /\ \A k \in DOMAIN Tail(q.batch) : k + 1 \in DOMAIN q.batch /\ 1 < k + 1
                                       /\ k \in Nat /\ Tail(q.batch)[k] = q.batch[k + 1]
      /\ \A k \in DOMAIN q.batch : k # 1 => k - 1 \in DOMAIN Tail(q.batch) /\ (k - 1) + 1 = k
  BY <1>1
<1>3. /\ q.sent \in Seq(Nat)
      /\ DOMAIN Append(q.sent, i) = DOMAIN q.sent \cup {Len(q.sent) + 1}
      /\ \A k \in DOMAIN q.sent : k < Len(q.sent) + 1 /\ Append(q.sent, i)[k] = q.sent[k]
      /\ Append(q.sent, i)[Len(q.sent) + 1] = i /\ Append(q.sent, i) \in Seq(Nat)
      /\ DOMAIN q.sent \subseteq Nat
  BY <1>1, <1>2
<1>4. i \in DOMAIN events /\ events[i].ts \in Nat /\ events[i].ts >= q.since
  BY <1>2, StampsAre DEF WorkInv, Followed
<1>5. /\ q' = [sent |-> Append(q.sent, i), since |-> events[i].ts, batch |-> Tail(q.batch)]
      /\ q'.sent = Append(q.sent, i) /\ q'.since = events[i].ts /\ q'.batch = Tail(q.batch)
      /\ events' = events /\ oldest' = oldest
  BY DEF Work!SendEvent
<1>6. WorkTypes' /\ Stamped' /\ RingHeld' /\ RowsHeld'
  BY <1>2, <1>3, <1>4, <1>5 DEF WorkInv, WorkTypes, Stamped, RingHeld, RowsHeld, Work!SendEvent
<1>7. Work!Set(q'.sent) = Work!Set(q.sent) \cup {i}
      /\ Work!Set(q.batch) = {i} \cup Work!Set(q'.batch)
  <2>1. ASSUME NEW x \in Work!Set(q.sent) \cup {i}  PROVE x \in Work!Set(q'.sent)
    <3>1. CASE x = i  BY <1>3, <1>5, <3>1 DEF Work!Set
    <3>2. CASE x \in Work!Set(q.sent)  BY <1>3, <1>5, <3>2 DEF Work!Set
    <3>3. QED  BY <2>1, <3>1, <3>2
  <2>2. Work!Set(q'.sent) \subseteq Work!Set(q.sent) \cup {i}  BY <1>3, <1>5 DEF Work!Set
  <2>3. ASSUME NEW k \in DOMAIN q.batch  PROVE q.batch[k] \in {i} \cup Work!Set(q'.batch)
    <3>1. CASE k = 1  BY <1>2, <3>1
    <3>2. CASE k # 1
      <4>1. k - 1 \in DOMAIN Tail(q.batch) /\ Tail(q.batch)[k - 1] = q.batch[k]  BY <1>2, <3>2
      <4>2. QED  BY <1>5, <4>1 DEF Work!Set
    <3>3. QED  BY <3>1, <3>2
  <2>4. {i} \cup Work!Set(q'.batch) \subseteq Work!Set(q.batch)  BY <1>2, <1>5 DEF Work!Set
  <2>5. Work!Set(q.batch) \subseteq {i} \cup Work!Set(q'.batch)  BY <2>3 DEF Work!Set
  <2>6. QED  BY <2>1, <2>2, <2>4, <2>5
<1>8. Growing(q'.sent) /\ Growing(q'.batch)
  <2>1. \A k \in DOMAIN q.sent : q.sent[k] < i  BY <1>2 DEF WorkInv, Followed
  <2>2. \A k, m \in DOMAIN q'.sent : k < m => k \in DOMAIN q.sent  BY <1>3, <1>5
  <2>3. \A k, m \in DOMAIN q.sent : k < m => q.sent[k] < q.sent[m]
    BY DEF WorkInv, Followed, Growing
  <2>4. ASSUME NEW k \in DOMAIN q'.sent, NEW m \in DOMAIN q'.sent, k < m
        PROVE  q'.sent[k] < q'.sent[m]
    <3>1. k \in DOMAIN q.sent  BY <2>2, <2>4
    <3>2. CASE m \in DOMAIN q.sent  BY <1>3, <1>5, <2>3, <2>4, <3>1, <3>2
    <3>3. CASE m = Len(q.sent) + 1  BY <1>3, <1>5, <2>1, <3>1, <3>3
    <3>4. QED  BY <1>3, <1>5, <3>2, <3>3
  <2>5. \A k, m \in DOMAIN q.batch : k < m => q.batch[k] < q.batch[m]
    BY DEF WorkInv, Followed, Growing
  <2>6. ASSUME NEW k \in DOMAIN q'.batch, NEW m \in DOMAIN q'.batch, k < m
        PROVE  q'.batch[k] < q'.batch[m]
    <3>1. k + 1 < m + 1 /\ k + 1 \in DOMAIN q.batch /\ m + 1 \in DOMAIN q.batch
      BY <1>2, <1>5, <2>6
    <3>2. q'.batch[k] = q.batch[k + 1] /\ q'.batch[m] = q.batch[m + 1]  BY <1>2, <1>5
    <3>3. QED  BY <2>5, <3>1, <3>2
  <2>7. QED  BY <2>4, <2>6 DEF Growing
<1>9. \A k \in DOMAIN q.batch : q.batch[k] \in DOMAIN events /\ (k # 1 => i < q.batch[k])
  BY <1>2 DEF WorkInv, Followed, Growing
<1>10. \A k \in DOMAIN q.batch : events[i].ts <= events[q.batch[k]].ts
  <2>1. ASSUME NEW k \in DOMAIN q.batch  PROVE i <= q.batch[k]
    BY SMTT(30), <1>2, <1>9 DEF WorkInv, WorkTypes
  <2>2. QED  BY <1>4, <1>9, <2>1 DEF WorkInv, Stamped
<1>11. \A k \in DOMAIN q'.sent : q'.sent[k] \in DOMAIN events /\ events[q'.sent[k]].ts <= q'.since
  <2>1. \A k \in DOMAIN q.sent : q.sent[k] \in DOMAIN events /\ events[q.sent[k]].ts <= q.since
    BY DEF WorkInv, Followed
  <2>2. \A k \in DOMAIN q.sent : events[q.sent[k]].ts <= events[i].ts
    BY <1>1, <1>4, <2>1, StampsAre
  <2>3. QED  BY <1>3, <1>4, <1>5, <2>1, <2>2
<1>12. \A k \in DOMAIN q'.batch : q'.batch[k] \in DOMAIN events
       /\ events[q'.batch[k]].ts >= q'.since
  BY <1>2, <1>4, <1>5, <1>9, <1>10, StampsAre
<1>13. \A k \in DOMAIN q'.sent, m \in DOMAIN q'.batch : q'.sent[k] < q'.batch[m]
  <2>1. ASSUME NEW k \in DOMAIN q'.sent, NEW m \in DOMAIN q'.batch
        PROVE  q'.sent[k] < q'.batch[m]
    <3>1. m + 1 \in DOMAIN q.batch /\ m + 1 # 1 /\ q'.batch[m] = q.batch[m + 1]
      BY <1>2, <1>5
    <3>2. CASE k \in DOMAIN q.sent
      <4>1. q'.sent[k] = q.sent[k]  BY <1>3, <1>5, <3>2
      <4>2. q.sent[k] < q.batch[m + 1]  BY <3>1, <3>2 DEF WorkInv, Followed
      <4>3. QED  BY <3>1, <4>1, <4>2
    <3>3. CASE k = Len(q.sent) + 1
      <4>1. q'.sent[k] = i  BY <1>3, <1>5, <3>3
      <4>2. QED  BY <1>9, <3>1, <4>1
    <3>4. QED  BY <1>3, <1>5, <3>2, <3>3
  <2>2. QED  BY <2>1
<1>14. ASSUME NEW n \in DOMAIN events, events[n].ts <= q'.since
       PROVE  \/ n \in Work!Set(q'.sent) \cup Work!Set(q'.batch)
              \/ n <= oldest
              \/ \E j \in Work!Set(q'.sent) : events[j].ts = events[n].ts
  <2>1. CASE events[n].ts <= q.since
    BY <1>7, <2>1 DEF WorkInv, Followed
  <2>2. CASE ~(events[n].ts <= q.since)
    <3>1. events[n].ts > q.since  BY <1>1, <2>2, StampsAre
    <3>2. \/ n \in Work!Set(q.batch) \/ n <= oldest
          \/ \A k \in DOMAIN q.batch : events[n].ts >= events[q.batch[k]].ts
      BY <1>1, <3>1 DEF WorkInv, Followed
    <3>3. CASE events[n].ts >= events[q.batch[1]].ts
      <4>1. events[n].ts = events[i].ts  BY <1>2, <1>4, <1>5, <1>14, <3>3, StampsAre
      <4>2. QED  BY <1>7, <4>1
    <3>4. QED  BY <1>2, <1>7, <3>2, <3>3
  <2>3. QED  BY <2>1, <2>2
<1>15. ASSUME NEW n \in DOMAIN events, events[n].ts > q'.since
       PROVE  \/ n \in Work!Set(q'.batch) \/ n <= oldest
              \/ \A k \in DOMAIN q'.batch : events[n].ts >= events[q'.batch[k]].ts
  <2>1. events[n].ts > q.since /\ n # i  BY <1>1, <1>4, <1>5, <1>15, StampsAre
  <2>2. \/ n \in Work!Set(q.batch) \/ n <= oldest
        \/ \A k \in DOMAIN q.batch : events[n].ts >= events[q.batch[k]].ts
    BY <1>1, <2>1 DEF WorkInv, Followed
  <2>3. QED  BY <1>2, <1>5, <1>7, <2>1, <2>2
<1>16. \E k \in DOMAIN q'.sent : events[q'.sent[k]].ts = q'.since
  BY <1>3, <1>5
<1>17. Followed'
  BY ZenonT(30), <1>5, <1>8, <1>11, <1>12, <1>13, <1>14, <1>15, <1>16 DEF Followed, Work!Set
<1>18. JobHeld'
  BY DEF WorkInv, JobHeld, Closing, Done, Work!InOrder, Work!CallsOf, Work!SendEvent
<1>19. QED  BY <1>6, <1>17, <1>18 DEF WorkInv
-----------------------------------------------------------------------------
(* Steps that emit.                                                        *)

\* Events of now, in no way the last ones of a workflow.
Plain == [type : Passing, of : Nat, ts : {clock}]

LEMMA EventsAre ==
    ASSUME WorkTypes
    PROVE  /\ \A n \in Nat, type \in Passing \cup LastKinds :
                  Work!Event(type, n) \in Events /\ Work!Event(type, n).ts = clock
           /\ \A n \in Nat, type \in Passing : Work!Event(type, n) \in Plain
           /\ Plain \subseteq Events /\ Seq(Plain) \subseteq Seq(Events)
<1>1. clock \in Nat  BY DEF WorkTypes
<1>2. Plain \subseteq Events  BY <1>1 DEF Plain, Events
<1>3. \A s \in Seq(Plain) : s \in [1 .. Len(s) -> Plain] /\ Len(s) \in Nat  OBVIOUS
<1>4. \A s \in Seq(Plain) : s \in [1 .. Len(s) -> Events]  BY <1>2, <1>3
<1>5. Seq(Plain) \subseteq Seq(Events)  BY <1>3, <1>4
<1>6. QED  BY <1>1, <1>2, <1>5 DEF Work!Event, Events, Plain

\* What is emitted in passing closes nothing.
LEMMA PlainKeeps ==
    ASSUME WorkInv, NEW new \in Seq(Plain), Work!Emit(new), UNCHANGED <<clock, rows, inspector>>,
           steps' \in Seq(Steps), charged' \in Nat, Closing' = Closing => JobHeld'
    PROVE  WorkInv'
<1>1. new \in Seq(Events)  BY EventsAre DEF WorkInv
<1>2. \A k \in DOMAIN new : new[k] \in Plain  BY ElementOfSeq
<1>3. \A k \in DOMAIN new : new[k].ts = clock /\ new[k].type \notin LastKinds
  BY <1>2 DEF Plain, Passing, LastKinds
<1>4. /\ Stamped' /\ RingHeld' /\ RowsHeld' /\ Followed'
      /\ events' \in Seq(Events) /\ oldest' \in Nat
  BY <1>1, <1>3, EmitKeeps DEF WorkInv
<1>5. WorkTypes'  BY <1>4 DEF WorkInv, WorkTypes
<1>6. Closing' = Closing
  <2>1. /\ DOMAIN events \subseteq DOMAIN events'
        /\ \A i \in DOMAIN events : events'[i] = events[i]
        /\ \A i \in DOMAIN events' \ DOMAIN events :
               i - Len(events) \in DOMAIN new /\ events'[i] = new[i - Len(events)]
    BY <1>1, EmitGrows DEF WorkInv
  <2>2. \A i \in DOMAIN events' \ DOMAIN events : events'[i].type \notin LastKinds
    BY <1>3, <2>1
  <2>3. QED  BY <2>1, <2>2 DEF Closing
<1>7. QED  BY <1>4, <1>5, <1>6 DEF WorkInv

\* The last event of a workflow (WorkflowEngine._finish).
LEMMA LastKeeps ==
    ASSUME WorkInv, NEW new \in Seq(Events), Work!Emit(new), UNCHANGED <<clock, rows, inspector>>,
           UNCHANGED <<steps, charged>>, new # <<>>,
           \A k \in DOMAIN new : new[k].ts = clock
           /\ (new[k].type \in LastKinds <=> k = Len(new)),
           job \notin {"completed", "exhausted"}, job' \in {"completed", "exhausted"}
    PROVE  WorkInv'
<1>1. /\ Stamped' /\ RingHeld' /\ RowsHeld' /\ Followed'
      /\ events' \in Seq(Events) /\ oldest' \in Nat
  BY EmitKeeps DEF WorkInv
<1>2. WorkTypes'  BY <1>1 DEF WorkInv, WorkTypes
<1>3. /\ Len(events') = Len(events) + Len(new) /\ Len(new) \in Nat \ {0} /\ Len(events) \in Nat
      /\ DOMAIN events' = 1 .. Len(events') /\ DOMAIN events = 1 .. Len(events)
      /\ \A i \in DOMAIN events : events'[i] = events[i]
      /\ \A i \in DOMAIN events' \ DOMAIN events :
             i - Len(events) \in DOMAIN new /\ events'[i] = new[i - Len(events)]
  BY <1>1, EmitGrows DEF WorkInv, WorkTypes
<1>4. Closing = {}  BY DEF WorkInv, JobHeld
<1>5. Closing' = {Len(events')}
  <2>1. ASSUME NEW i \in DOMAIN events'  PROVE events'[i].type \in LastKinds <=> i = Len(events')
    <3>1. CASE i \in DOMAIN events  BY <1>3, <1>4, <3>1 DEF Closing
    <3>2. CASE i \notin DOMAIN events  BY <1>3, <3>2
    <3>3. QED  BY <3>1, <3>2
  <2>2. Len(events') \in DOMAIN events'  BY <1>3
  <2>3. QED  BY <2>1, <2>2 DEF Closing
<1>6. JobHeld'  BY <1>5 DEF JobHeld
<1>7. QED  BY <1>1, <1>2, <1>6 DEF WorkInv

\* A step makes finitely many calls, so all do.
LEMMA CallsAreFinite ==
    ASSUME WorkInv, NEW some \in SUBSET DOMAIN steps
    PROVE  IsFiniteSet(Work!CallsOf(some))
<1> DEFINE of(n) == {n} \X (1 .. steps[n].calls)
           all == {of(n) : n \in some}
<1>1. DOMAIN steps = 1 .. Len(steps) /\ Len(steps) \in Nat /\ steps \in Seq(Steps)
  BY DEF WorkInv, WorkTypes
<1>2. \A n \in DOMAIN steps : steps[n] \in Steps  BY <1>1, ElementOfSeq
<1>3. \A n \in some : steps[n].calls \in Nat  BY <1>2 DEF Steps
<1>4. IsFiniteSet(some)
  <2>1. IsFiniteSet(1 .. Len(steps))  BY <1>1, FS_Interval
  <2>2. QED  BY <1>1, <2>1, FS_Subset
<1>5. ASSUME NEW n \in some  PROVE IsFiniteSet(of(n))
  <2>1. IsFiniteSet({n})  BY FS_Singleton
  <2>3. IsFiniteSet(1 .. steps[n].calls)  BY <1>3, FS_Interval
  <2>4. QED  BY <2>1, <2>3, FS_Product
<1> HIDE DEF of
<1>6. IsFiniteSet(all)
  <2>1. [n \in some |-> of(n)] \in Surjection(some, all)  BY DEF Surjection
  <2>2. QED  BY <1>4, <2>1, FS_Surjection
<1>7. IsFiniteSet(UNION all)  BY <1>5, <1>6, FS_UNION
<1>8. QED  BY <1>7 DEF Work!CallsOf, of
-----------------------------------------------------------------------------
(* The fan-out.                                                            *)

LEMMA StepsAre ==
    ASSUME WorkInv
    PROVE  /\ DOMAIN steps = 1 .. Len(steps) /\ Len(steps) \in Nat
           /\ \A n \in DOMAIN steps : steps[n] \in Steps /\ n \in Nat
           /\ \A n \in DOMAIN steps, s \in Steps : Work!Become(n, s) => steps' \in Seq(Steps)
<1>1. steps \in Seq(Steps)  BY DEF WorkInv, WorkTypes
<1>2. DOMAIN steps = 1 .. Len(steps) /\ Len(steps) \in Nat  BY <1>1
<1>3. \A n \in DOMAIN steps : steps[n] \in Steps /\ n \in Nat  BY <1>1, <1>2, ElementOfSeq
<1>4. ASSUME NEW n \in DOMAIN steps, NEW s \in Steps,
             Work!Become(n, s)  PROVE steps' \in Seq(Steps)
  <2>1. steps' = [steps EXCEPT ![n] = s]  BY <1>4 DEF Work!Become
  <2>2. QED  BY <1>1, <1>2, <2>1
<1>5. QED  BY <1>2, <1>3, <1>4

\* A step after a call or its result is a step.
LEMMA StepChanges ==
    ASSUME NEW s \in Steps
    PROVE  /\ s.calls + 1 \in Nat /\ s.iteration + 1 \in Nat /\ s.repeats + 1 \in Nat
           /\ s.late + 1 \in Nat /\ s.late \in Nat /\ s.tripped \in BOOLEAN
           /\ \A pc \in {"done", "failed"}, c \in Nat :
                  [s EXCEPT !.pc = pc, !.calls = c] \in Steps
           /\ \A k \in Nat : [s EXCEPT !.pc = "ask", !.iteration = k] \in Steps
           /\ \A c, r, k \in Nat, b \in BOOLEAN :
                 [s EXCEPT !.pc = "tools", !.calls = c, !.repeats = r, !.tripped = b,
                           !.late = k] \in Steps
<1>1. /\ s.calls + 1 \in Nat /\ s.iteration + 1 \in Nat /\ s.repeats + 1 \in Nat
      /\ s.late + 1 \in Nat /\ s.late \in Nat
  BY DEF Steps
<1>2. s.tripped \in BOOLEAN  BY Zenon DEF Steps
<1>3. \A pc \in {"done", "failed"}, c \in Nat : [s EXCEPT !.pc = pc, !.calls = c] \in Steps
  BY DEF Steps
<1>4. \A k \in Nat : [s EXCEPT !.pc = "ask", !.iteration = k] \in Steps  BY DEF Steps
<1>5. \A c, r, k \in Nat, b \in BOOLEAN :
          [s EXCEPT !.pc = "tools", !.calls = c, !.repeats = r, !.tripped = b,
                    !.late = k] \in Steps
  BY DEF Steps
<1>6. QED  BY <1>1, <1>2, <1>3, <1>4, <1>5

LEMMA FanOutKeeps ==
    ASSUME WorkInv, NEW n \in DOMAIN steps,
           \/ Work!AnswerText(n) \/ Work!CallFails(n) \/ Work!ToolReturns(n)
           \/ \E same \in BOOLEAN : Work!AnswerCall(n, same)
    PROVE  WorkInv'
<1>1. steps[n] \in Steps /\ n \in Nat  BY StepsAre
<1>2. CASE Work!AnswerText(n) \/ Work!CallFails(n)
  <2>1. PICK pc \in {"done", "failed"}, type \in {"subagent.completed", "subagent.failed"} :
            /\ Work!Become(n, [steps[n] EXCEPT !.pc = pc, !.calls = @ + 1])
            /\ Work!Emit(<<Work!Event(type, n)>>)
    BY <1>2 DEF Work!AnswerText, Work!CallFails
  <2>2. [steps[n] EXCEPT !.pc = pc, !.calls = @ + 1] \in Steps  BY <1>1, StepChanges
  <2>3. steps' \in Seq(Steps)  BY <2>1, <2>2, StepsAre
  <2>4. type \in Passing  BY <2>1 DEF Passing
  <2>5. Work!Event(type, n) \in Plain  BY <1>1, <2>4, EventsAre DEF WorkInv
  <2>6. <<Work!Event(type, n)>> \in Seq(Plain)  BY <2>5
  <2>7. job = "fanout" /\ UNCHANGED <<job, findings, charged, clock, rows, inspector>>
    BY <1>2 DEF Work!AnswerText, Work!CallFails
  <2>8. charged' \in Nat  BY <2>7 DEF WorkInv, WorkTypes
  <2>9. Closing' = Closing => JobHeld'  BY <2>7 DEF WorkInv, JobHeld
  <2>10. QED  BY <2>1, <2>3, <2>6, <2>7, <2>8, <2>9, PlainKeeps
<1>3. CASE Work!ToolReturns(n)
  <2>1. [steps[n] EXCEPT !.pc = "ask", !.iteration = @ + 1] \in Steps  BY <1>1, StepChanges
  <2>2. QED  BY <1>3, <2>1, StepsAre, QuietKeeps DEF Work!ToolReturns
<1>4. ASSUME NEW same \in BOOLEAN, Work!AnswerCall(n, same)  PROVE WorkInv'
  <2> DEFINE s == steps[n]
             repeats == IF same /\ s.repeats > 0 THEN s.repeats + 1 ELSE 1
             t == [s EXCEPT !.pc = "tools", !.calls = @ + 1, !.repeats = repeats,
                            !.tripped = @ \/ repeats >= RepeatLimit,
                            !.late = IF Work!Withdrawn(s) THEN @ + 1 ELSE @]
  <2>1. repeats \in Nat /\ (s.tripped \/ repeats >= RepeatLimit) \in BOOLEAN
    BY <1>1, StepChanges
  <2>2. (IF Work!Withdrawn(s) THEN s.late + 1 ELSE s.late) \in Nat  BY <1>1 DEF Steps
  <2> HIDE DEF repeats
  <2>3. t \in Steps  BY ZenonT(30), <1>1, <2>1, <2>2, StepChanges
  <2>4. Work!Become(n, t)  BY <1>4 DEF Work!AnswerCall, repeats
  <2>5. QED  BY <1>4, <2>3, <2>4, StepsAre, QuietKeeps DEF Work!AnswerCall
<1>5. QED  BY <1>2, <1>3, <1>4

\* A plan's steps start afresh, and its call is charged (run_fan_out).
LEMMA PlanKeeps == ASSUME WorkInv, NEW width \in 0 .. Planned, Work!Plan(width)  PROVE WorkInv'
<1>1. UNCHANGED <<clock, rows, inspector>> /\ charged' = 1 /\ job = "planning" /\ steps = <<>>
      /\ UNCHANGED findings
  BY DEF Work!Plan, WorkInv, JobHeld
<1>2. \A n \in Nat, type \in {"plan.created", "log", "subagent.started"} :
          Work!Event(type, n) \in Plain
  BY EventsAre DEF WorkInv, Passing
<1>3. CASE width = 0
  <2>1. steps' = <<>> /\ job' = "merged" /\ Work!Emit(<<Work!Event("plan.created", 0)>>)
    BY <1>1, <1>3 DEF Work!Plan
  <2>2. <<Work!Event("plan.created", 0)>> \in Seq(Plain)  BY <1>2
  <2>3. steps' \in Seq(Steps)  BY <2>1
  <2>4. Closing' = Closing => JobHeld'  BY <1>1, <2>1 DEF WorkInv, JobHeld
  <2>5. QED  BY <1>1, <2>1, <2>2, <2>3, <2>4, PlainKeeps
<1>4. CASE width # 0
  <2> DEFINE k == Work!Least(width, MaxWidth)
             first == IF width > MaxWidth THEN <<Work!Event("log", 0)>> ELSE <<>>
             started == [n \in 1 .. k |-> Work!Event("subagent.started", n)]
             new == first \o <<Work!Event("plan.created", 0)>> \o started
  <2>1. k \in Nat  BY TalkAssumption DEF Work!Least
  <2>2. steps' = [n \in 1 .. k |-> Work!Fresh] /\ job' = "fanout" /\ Work!Emit(new)
    BY <1>4 DEF Work!Plan
  <2>3. Work!Fresh \in Steps  BY DEF Work!Fresh, Steps
  <2>4. steps' \in Seq(Steps)  BY <2>1, <2>2, <2>3
  <2>5. first \in Seq(Plain) /\ <<Work!Event("plan.created", 0)>> \in Seq(Plain)  BY <1>2
  <2>6. started \in [1 .. k -> Plain]  BY <1>2, <2>1
  <2>7. started \in Seq(Plain)  BY <2>1, <2>6
  <2> HIDE DEF first, started
  <2>8. new \in Seq(Plain)  BY <2>5, <2>7
  <2>9. Closing' = Closing => JobHeld'  BY <1>1, <2>2 DEF WorkInv, JobHeld
  <2> HIDE DEF new
  <2>10. QED  BY <1>1, <2>2, <2>4, <2>8, <2>9, PlainKeeps
<1>5. QED  BY <1>3, <1>4

\* What completed is merged and charged (run_fan_out).
LEMMA MergeKeeps == ASSUME WorkInv, Work!Merge  PROVE WorkInv'
<1>1. /\ job' = "merged" /\ job = "fanout" /\ charged = 1
      /\ findings' \in Work!InOrder(Done) /\ charged' = 1 + Cardinality(Work!CallsOf(Done))
      /\ UNCHANGED <<steps, clock, events, oldest, rows, writing, inspector>>
      /\ \A n \in DOMAIN steps : steps[n].pc \in {"done", "failed"}
  BY SameCount DEF WorkInv, JobHeld, Work!Merge, Done
<1>2. IsFiniteSet(Work!CallsOf(Done))  BY CallsAreFinite DEF Done
<1>3. charged' \in Nat  BY <1>1, <1>2, FS_CardinalityType
<1>4. WorkTypes' /\ Stamped' /\ RingHeld' /\ RowsHeld'
  BY <1>1, <1>3 DEF WorkInv, WorkTypes, Stamped, RingHeld, RowsHeld
<1>5. Followed'  BY <1>1 DEF WorkInv, Followed, Growing, Work!Set
<1>6. Closing' = {}  BY <1>1 DEF WorkInv, JobHeld, Closing
<1>7. Done' = Done /\ Work!CallsOf(Done)' = Work!CallsOf(Done)  BY <1>1 DEF Done, Work!CallsOf
<1>8. JobHeld'  BY <1>1, <1>6, <1>7 DEF JobHeld
<1>9. QED  BY <1>4, <1>5, <1>8 DEF WorkInv

LEMMA PlanFailsKeeps == ASSUME WorkInv, Work!PlanFails  PROVE WorkInv'
<1>1. WorkTypes' /\ Stamped' /\ RingHeld' /\ RowsHeld'
  BY DEF WorkInv, WorkTypes, Stamped, RingHeld, RowsHeld, Work!PlanFails
<1>2. Followed'  BY DEF WorkInv, Followed, Growing, Work!Set, Work!PlanFails
<1>3. JobHeld'  BY DEF WorkInv, JobHeld, Closing, Work!PlanFails
<1>4. QED  BY <1>1, <1>2, <1>3 DEF WorkInv
-----------------------------------------------------------------------------
(* The workflow.                                                           *)

\* A turn of a workflow ends, or its tool is asked for (WorkflowEngine.run).
LEMMA RunTurnKeeps ==
    ASSUME WorkInv,
           \/ \E b \in BOOLEAN : Work!WorkflowPolicy(b)
           \/ \E ok, saved \in BOOLEAN : Work!WorkflowResult(ok, saved)
    PROVE  WorkInv'
<1>1. PICK type \in {"tool.failed", "tool.requested", "tool.completed"},
          pc \in {"blocked", "done", "failed"} :
          /\ Work!Emit(<<Work!Event(type, Work!Turns + 1)>>)
          /\ steps' \in {steps, Append(steps, [Work!Fresh EXCEPT !.pc = pc])}
          /\ job \in {"workflow", "executing"} /\ job' \in {"workflow", "executing", "raised"}
          /\ UNCHANGED <<findings, charged, clock, rows, inspector>>
  BY DEF Work!WorkflowPolicy, Work!WorkflowResult
<1>2. Work!Turns + 1 \in Nat  BY DEF WorkInv, WorkTypes, Work!Turns
<1>3. [Work!Fresh EXCEPT !.pc = pc] \in Steps  BY DEF Work!Fresh, Steps
<1>4. steps' \in Seq(Steps)
  <2>1. steps \in Seq(Steps)  BY DEF WorkInv, WorkTypes
  <2>2. Append(steps, [Work!Fresh EXCEPT !.pc = pc]) \in Seq(Steps)  BY <1>3, <2>1
  <2>3. QED  BY <1>1, <2>1, <2>2
<1>5. type \in Passing  BY <1>1 DEF Passing
<1>6. Work!Event(type, Work!Turns + 1) \in Plain  BY <1>2, <1>5, EventsAre DEF WorkInv
<1>7. <<Work!Event(type, Work!Turns + 1)>> \in Seq(Plain)  BY <1>6
<1>8. charged' \in Nat  BY <1>1 DEF WorkInv, WorkTypes
<1>9. Closing' = Closing => JobHeld'  BY <1>1 DEF WorkInv, JobHeld
<1>10. QED  BY <1>1, <1>4, <1>7, <1>8, <1>9, PlainKeeps

LEMMA WorkflowEndsKeeps ==
    ASSUME WorkInv, Work!WorkflowText \/ Work!WorkflowStepLimit
    PROVE  WorkInv'
<1>1. CASE Work!WorkflowText
  <2> DEFINE new == <<Work!Event("model.completed", 0), Work!Event("workflow.completed", 0)>>
  <2>0. /\ Work!Event("model.completed", 0) \in Events
        /\ Work!Event("workflow.completed", 0) \in Events
        /\ Work!Event("workflow.failed", 0) \in Events
    BY EventsAre DEF WorkInv, Passing, LastKinds
  <2>1. new \in Seq(Events)  BY <2>0
  <2>2. Len(new) = 2 /\ DOMAIN new = 1 .. 2  OBVIOUS
  <2>3. \A k \in 1 .. 2 : new[k].ts = clock /\ (new[k].type \in LastKinds <=> k = 2)
    BY DEF Work!Event, LastKinds
  <2>4. Work!Emit(new) /\ UNCHANGED <<clock, rows, inspector>> /\ UNCHANGED <<steps, charged>>
        /\ job \notin {"completed", "exhausted"} /\ job' \in {"completed", "exhausted"}
    BY <1>1 DEF Work!WorkflowText
  <2>5. new # <<>>  OBVIOUS
  <2> HIDE DEF new
  <2>6. QED  BY <2>1, <2>2, <2>3, <2>4, <2>5, LastKeeps
<1>2. CASE Work!WorkflowStepLimit
  <2> DEFINE new == <<Work!Event("workflow.failed", 0)>>
  <2>0. /\ Work!Event("model.completed", 0) \in Events
        /\ Work!Event("workflow.completed", 0) \in Events
        /\ Work!Event("workflow.failed", 0) \in Events
    BY EventsAre DEF WorkInv, Passing, LastKinds
  <2>1. new \in Seq(Events)  BY <2>0
  <2>2. Len(new) = 1 /\ DOMAIN new = {1} /\ new # <<>>  OBVIOUS
  <2>3. new[1].ts = clock /\ new[1].type \in LastKinds  BY DEF Work!Event, LastKinds
  <2>4. Work!Emit(new) /\ UNCHANGED <<clock, rows, inspector>> /\ UNCHANGED <<steps, charged>>
        /\ job \notin {"completed", "exhausted"} /\ job' \in {"completed", "exhausted"}
    BY <1>2 DEF Work!WorkflowStepLimit
  <2> HIDE DEF new
  <2>5. \A k \in DOMAIN new : new[k].ts = clock /\ (new[k].type \in LastKinds <=> k = Len(new))
    BY <2>2, <2>3
  <2>6. QED  BY <2>1, <2>2, <2>4, <2>5, LastKeeps
<1>3. QED  BY <1>1, <1>2
-----------------------------------------------------------------------------
LEMMA WorkInitInv == Work!WorkflowInit => WorkInv
<1> SUFFICES ASSUME Work!WorkflowInit  PROVE WorkInv
  OBVIOUS
<1>1. WorkTypes
  <2>0. Work!Event("workflow.started", 0) \in Events
    BY DEF Work!WorkflowInit, Work!Event, Events, Passing
  <2>1. <<Work!Event("workflow.started", 0)>> \in Seq(Events)  BY <2>0
  <2>2. events \in Seq(Events)  BY <2>1 DEF Work!WorkflowInit
  <2>3. QED  BY <2>2 DEF Work!WorkflowInit, WorkTypes
<1>2. /\ Len(events) \in {0, 1} /\ DOMAIN events = 1 .. Len(events)
      /\ \A i \in DOMAIN events : events[i].ts = 1 /\ events[i].type = "workflow.started"
  <2>1. events = <<>> \/ events = <<Work!Event("workflow.started", 0)>>  BY DEF Work!WorkflowInit
  <2>2. /\ Work!Event("workflow.started", 0).ts = 1
        /\ Work!Event("workflow.started", 0).type = "workflow.started"
    BY DEF Work!WorkflowInit, Work!Event
  <2>3. QED  BY <2>1, <2>2
<1>3. Stamped /\ RingHeld  BY <1>2, TalkAssumption DEF Stamped, RingHeld, Work!WorkflowInit
<1>4. RowsHeld /\ Followed  BY <1>2 DEF RowsHeld, Followed, Growing, Work!Set, Work!WorkflowInit
<1>5. Closing = {}  BY <1>2 DEF Closing, LastKinds
<1>6. JobHeld  BY <1>5 DEF JobHeld, Work!WorkflowInit
<1>7. QED  BY <1>1, <1>3, <1>4, <1>6 DEF WorkInv

LEMMA WorkStep == WorkInv /\ Work!WorkflowsNext => WorkInv'
BY FanOutKeeps, PlanKeeps, MergeKeeps, PlanFailsKeeps, RunTurnKeeps, WorkflowEndsKeeps,
   InsertEndsKeeps, ClockKeeps, FetchKeeps, SendEventKeeps
   DEF Work!WorkflowsNext, Work!FanOut, Work!Workflow

\* What the workflows promise follows.
LEMMA WorkflowsAreSafe == WorkInv => Work!WorkflowSafe
<1> SUFFICES ASSUME WorkInv  PROVE Work!WorkflowSafe
  OBVIOUS
<1>1. Work!WorkflowTypeOK  BY DEF WorkInv, Work!WorkflowTypeOK, RingHeld, RowsHeld
<1>2. Work!MergeIsComplete
  <2> SUFFICES ASSUME job = "merged", steps # <<>>
               PROVE  LET failures == {n \in DOMAIN steps : steps[n].pc = "failed"}
                      IN /\ Work!Set(findings) = DOMAIN steps \ failures
                         /\ \A i, j \in DOMAIN findings : i < j => findings[i] < findings[j]
                         /\ charged + Cardinality(Work!CallsOf(failures))
                               = 1 + Cardinality(Work!CallsOf(DOMAIN steps))
    BY SameCount DEF Work!MergeIsComplete
  <2> DEFINE failures == {n \in DOMAIN steps : steps[n].pc = "failed"}
  <2>1. /\ Done = DOMAIN steps \ failures /\ failures \subseteq DOMAIN steps
        /\ findings \in Work!InOrder(Done) /\ charged = 1 + Cardinality(Work!CallsOf(Done))
    BY DEF WorkInv, JobHeld, Done
  <2>2. IsFiniteSet(Done) /\ Done \subseteq Nat
    <3>1. DOMAIN steps = 1 .. Len(steps) /\ Len(steps) \in Nat  BY StepsAre
    <3>2. IsFiniteSet(1 .. Len(steps))  BY <3>1, FS_Interval
    <3>3. Done \in SUBSET (1 .. Len(steps))  BY <2>1, <3>1
    <3>4. IsFiniteSet(Done)  BY <3>2, <3>3, FS_Subset
    <3>5. QED  BY <3>1, <3>3, <3>4
  <2>3. Work!Set(findings) = Done /\ Growing(findings)  BY <2>1, <2>2, OrderHolds
  <2>4. IsFiniteSet(Work!CallsOf(Done)) /\ IsFiniteSet(Work!CallsOf(failures))
    BY <2>1, CallsAreFinite
  <2>5. Work!CallsOf(DOMAIN steps) = Work!CallsOf(Done) \cup Work!CallsOf(failures)
    BY <2>1 DEF Work!CallsOf
  <2>6. Work!CallsOf(Done) \cap Work!CallsOf(failures) = {}
    <3>1. \A c \in Work!CallsOf(Done) : c[1] \in Done  BY DEF Work!CallsOf
    <3>2. \A c \in Work!CallsOf(failures) : c[1] \in failures  BY DEF Work!CallsOf
    <3>3. QED  BY <2>1, <3>1, <3>2
  <2>7. Cardinality(Work!CallsOf(DOMAIN steps))
            = Cardinality(Work!CallsOf(Done)) + Cardinality(Work!CallsOf(failures))
    <3> DEFINE S == Work!CallsOf(Done)  T == Work!CallsOf(failures)
    <3>1. Cardinality(S \cup T) = Cardinality(S) + Cardinality(T) - Cardinality(S \cap T)
      BY <2>4, FS_Union
    <3>2. Cardinality(S \cap T) = 0  BY <2>6, FS_EmptySet
    <3>3. Cardinality(S) \in Nat /\ Cardinality(T) \in Nat  BY <2>4, FS_CardinalityType
    <3> HIDE DEF S, T
    <3>4. Cardinality(S \cup T) = Cardinality(S) + Cardinality(T)  BY <3>1, <3>2, <3>3
    <3>5. QED  BY <2>5, <3>4 DEF S, T
  <2>8. Cardinality(Work!CallsOf(Done)) \in Nat /\ Cardinality(Work!CallsOf(failures)) \in Nat
    BY <2>4, FS_CardinalityType
  <2>9. charged + Cardinality(Work!CallsOf(failures))
            = 1 + Cardinality(Work!CallsOf(DOMAIN steps))
    BY <2>1, <2>7, <2>8
  <2>10. QED  BY <2>1, <2>3, <2>9 DEF Growing
<1>3. Work!TimelineInOrder
  <2> SUFFICES ASSUME NEW r \in DOMAIN rows, NEW s \in DOMAIN rows,
                      Work!ListedBefore(r, s), rows[r] > rows[s]
               PROVE  events[rows[r]].ts = events[rows[s]].ts
    BY DEF Work!TimelineInOrder
  <2>1. rows[r] \in DOMAIN events /\ rows[s] \in DOMAIN events  BY DEF WorkInv, RowsHeld
  <2>2. rows[s] <= rows[r]  BY <2>1 DEF WorkInv, WorkTypes
  <2>3. events[rows[s]].ts <= events[rows[r]].ts  BY <2>1, <2>2 DEF WorkInv, Stamped
  <2>4. QED  BY <2>1, <2>3, StampsAre DEF Work!ListedBefore
<1>4. Work!InspectorFollows
  BY DEF WorkInv, Followed, Growing, Work!InspectorFollows
<1>5. Work!EndsOnce  BY DEF WorkInv, JobHeld, Closing, LastKinds, Work!EndsOnce
<1>6. QED  BY <1>1, <1>2, <1>3, <1>4, <1>5 DEF Work!WorkflowSafe

LEMMA WorkStutter == ASSUME WorkInv, UNCHANGED Work!workflowVars PROVE WorkInv'
<1>1. UNCHANGED <<job, steps, findings, charged, clock, events, oldest, rows, writing, inspector,
                  follower>>
  BY DEF Work!workflowVars
<1>2. WorkTypes' /\ Stamped' /\ RingHeld' /\ RowsHeld' /\ Followed'
  BY <1>1 DEF WorkInv, WorkTypes, Stamped, RingHeld, RowsHeld, Followed
<1>3. JobHeld'
  BY <1>1 DEF WorkInv, JobHeld, Closing, Done, Work!InOrder, Work!CallsOf
<1>4. QED  BY <1>2, <1>3 DEF WorkInv
-----------------------------------------------------------------------------
(* Memories and projects (Memories.tla).                                   *)

Matches == UNION {{heard[k] : k \in DOMAIN heard} : heard \in Spoken}
Phrases == Memo!Texts \cup {match.words : match \in Matches}
Contents == [label : {"none"} \cup {match.by : match \in Matches}, words : Phrases]
MemoryRows == [owner : Users, project : Nat, layer : {"auto", "explicit"}, content : Contents,
               live : BOOLEAN, from : {"chat", "tool"}, asked : SUBSET Phrases, seen : SUBSET Nat]
ProjectRows == [owner : Users, name : Memo!ProjectNames, archived : BOOLEAN, live : BOOLEAN]
Facts == [layer : {"auto", "explicit"}, content : Contents]
Answers == {"saved", "failed", "created", "limit"}
Running ==
    [pc : {"idle"}]
    \cup [pc : {"save", "search", "list", "count", "remove"}, user : Users, project : Nat]
    \cup [pc : {"read"}, user : Users, project : Nat, rows : SUBSET Nat]
    \cup [pc : {"insert"}, user : Users, project : {Memo!None}, rows : SUBSET Facts,
          asked : SUBSET Phrases, seen : SUBSET Nat]
    \cup [pc : {"done"}, user : Users, answer : Answers, project : Nat]

MemTypes ==
    /\ projects \in Seq(ProjectRows)
    /\ memories \in Seq(MemoryRows)
    /\ callers \in [Callers -> Running]

\* The project a call made, until it is told it was one too many.
Claiming(q) == q.pc \in {"count", "remove"} \/ (q.pc = "done" /\ q.answer = "created")

\* What a batch about to be inserted knows of the memories ms.
BatchHeld(q, ms) ==
    q.pc = "insert" =>
       /\ IsFiniteSet(q.rows) /\ q.seen \subseteq DOMAIN ms
       /\ \A row \in q.rows :
             /\ row.layer = "auto" => row.content.words \notin q.asked
             /\ \A m \in q.seen :
                   ~ (/\ ms[m].owner = q.user /\ ms[m].project = Memo!None
                      /\ ms[m].layer = row.layer /\ ms[m].content = row.content)
\* What a call knows of the projects ps.
ProjectHeld(q, ps) ==
    /\ q.pc \in {"save", "search", "list"} =>
          q.project = Memo!None \/ (q.project \in DOMAIN ps /\ ps[q.project].owner = q.user)
    /\ Claiming(q) =>
          q.project \in DOMAIN ps /\ ps[q.project].live /\ ps[q.project].owner = q.user
    /\ q.pc = "done" /\ q.answer = "limit" => q.project \in DOMAIN ps /\ ~ps[q.project].live
AnswerHeld(q, ms) ==
    q.pc = "read" =>
       \A m \in q.rows : /\ m \in DOMAIN ms /\ ms[m].owner = q.user
                         /\ q.project # Memo!None => ms[m].project \in {Memo!None, q.project}
CallHeld(q, ps, ms) == BatchHeld(q, ms) /\ ProjectHeld(q, ps) /\ AnswerHeld(q, ms)

ClaimsApart ==
    \A r, s \in Callers : Claiming(callers[r]) /\ Claiming(callers[s])
                          /\ callers[r].project = callers[s].project => r = s
SaidInChat ==
    \A m \in DOMAIN memories : memories[m].from = "chat" => memories[m].project = Memo!None
CallersHeld == \A r \in Callers : CallHeld(callers[r], projects, memories)
Capped == \A u \in Users : Cardinality(Memo!Told("created") \cap Memo!Listing(u)) <= Cap

MemInv == /\ MemTypes /\ CallersHeld /\ ClaimsApart /\ SaidInChat /\ Capped
          /\ Memo!RepeatsOnlyOverlapping /\ Memo!AskedIsNotGuessed /\ Memo!FiledUnderOwn
-----------------------------------------------------------------------------
LEMMA MemInitInv == Memo!MemoryInit => MemInv
<1> SUFFICES ASSUME Memo!MemoryInit PROVE MemInv  OBVIOUS
<1>0. projects = <<>> /\ memories = <<>> /\ DOMAIN projects = {} /\ DOMAIN memories = {}
      /\ \A r \in Callers : callers[r] = Memo!Idle
  BY DEF Memo!MemoryInit
<1>1. MemTypes  BY <1>0 DEF Memo!MemoryInit, MemTypes, Running, Memo!Idle
<1>2. CallersHeld /\ ClaimsApart
  BY <1>0
     DEF CallersHeld, CallHeld, BatchHeld, ProjectHeld, AnswerHeld, ClaimsApart, Claiming,
         Memo!Idle
<1>3. Capped
  <2>1. \A u \in Users : Memo!Told("created") \cap Memo!Listing(u) = {}
    BY <1>0 DEF Memo!Listing, Memo!Projects
  <2>2. QED  BY <2>1, FS_EmptySet, TalkAssumption DEF Capped
<1>4. SaidInChat /\ Memo!RepeatsOnlyOverlapping /\ Memo!AskedIsNotGuessed /\ Memo!FiledUnderOwn
  BY <1>0
     DEF SaidInChat, Memo!RepeatsOnlyOverlapping, Memo!AskedIsNotGuessed, Memo!FiledUnderOwn,
         Memo!Memories
<1>5. QED  BY <1>1, <1>2, <1>3, <1>4 DEF MemInv

\* The tables grow; what a row is filed under, says and belongs to stays.
Grown(ps, ms, qs, ns) ==
    /\ DOMAIN ps \subseteq DOMAIN qs
    /\ \A p \in DOMAIN ps : qs[p].owner = ps[p].owner /\ (qs[p].live => ps[p].live)
    /\ DOMAIN ms \subseteq DOMAIN ns
    /\ \A m \in DOMAIN ms : /\ ns[m].owner = ms[m].owner /\ ns[m].project = ms[m].project
                            /\ ns[m].layer = ms[m].layer /\ ns[m].content = ms[m].content

\* What a call knows outlasts what others do to the tables, but the end of its project.
LEMMA CallKeeps ==
    ASSUME NEW q, NEW ps, NEW ms, NEW qs, NEW ns, Grown(ps, ms, qs, ns), CallHeld(q, ps, ms),
           Claiming(q) => qs[q.project].live
    PROVE  CallHeld(q, qs, ns)
<1>1. BatchHeld(q, ns)  BY DEF Grown, CallHeld, BatchHeld
<1>2. ProjectHeld(q, qs)  BY DEF Grown, CallHeld, ProjectHeld
<1>3. AnswerHeld(q, ns)  BY DEF Grown, CallHeld, AnswerHeld
<1>4. QED  BY <1>1, <1>2, <1>3 DEF CallHeld

\* The projects a listing holds are rows of a finite table.
LEMMA ListingFinite ==
    ASSUME MemTypes, NEW u, NEW S \in SUBSET Memo!Listing(u)
    PROVE  IsFiniteSet(S) /\ Cardinality(S) <= Cardinality(Memo!Listing(u))
           /\ Cardinality(S) \in Nat /\ Cardinality(Memo!Listing(u)) \in Nat
<1>1. Len(projects) \in Nat /\ DOMAIN projects = 1 .. Len(projects)  BY DEF MemTypes
<1>2. IsFiniteSet(1 .. Len(projects))  BY <1>1, FS_Interval
<1>3. Memo!Listing(u) \subseteq 1 .. Len(projects)  BY <1>1 DEF Memo!Listing, Memo!Projects
<1>4. IsFiniteSet(Memo!Listing(u))  BY <1>2, <1>3, FS_Subset
<1>5. QED  BY <1>4, FS_Subset, FS_CardinalityType

\* A step of one call that touches no table and claims nothing new.
LEMMA CallerKeeps ==
    ASSUME MemInv, NEW r \in Callers, NEW q \in Running, Memo!Turn(r, q),
           UNCHANGED <<projects, memories>>,
           CallHeld(q, projects, memories),
           Claiming(q) => Claiming(callers[r]) /\ callers[r].project = q.project,
           q.pc = "done" /\ q.answer = "created" =>
               \/ callers[r].pc = "done" /\ callers[r].answer = "created"
               \/ Cardinality(Memo!Listing(q.user)) <= Cap
    PROVE  MemInv'
<1>1. /\ callers' = [callers EXCEPT ![r] = q] /\ callers \in [Callers -> Running]
      /\ callers'[r] = q /\ \A s \in Callers \ {r} : callers'[s] = callers[s]
  BY DEF MemInv, MemTypes, Memo!Turn
<1>2. MemTypes'  BY <1>1 DEF MemInv, MemTypes
<1>3. CallersHeld'
  <2>1. \A s \in Callers : CallHeld(callers'[s], projects, memories)
    BY <1>1 DEF MemInv, CallersHeld
  <2>2. QED  BY <2>1 DEF CallersHeld
<1>4. ClaimsApart'
  <2>1. \A s \in Callers : Claiming(callers'[s]) =>
            Claiming(callers[s]) /\ callers[s].project = callers'[s].project
    BY <1>1
  <2>2. QED  BY <2>1 DEF MemInv, ClaimsApart
<1>5. Capped'
  <2> SUFFICES ASSUME NEW u \in Users
      PROVE  Cardinality(Memo!Told("created")' \cap Memo!Listing(u)) <= Cap
    BY DEF Capped, Memo!Listing, Memo!Projects
  <2>0. MemTypes /\ Cardinality(Memo!Told("created") \cap Memo!Listing(u)) <= Cap
    BY DEF MemInv, Capped
  <2>1. CASE /\ q.pc = "done" /\ q.answer = "created"
             /\ ~(callers[r].pc = "done" /\ callers[r].answer = "created")
    <3>1. q.project \in Memo!Projects /\ projects[q.project].owner = q.user
          /\ Cardinality(Memo!Listing(q.user)) <= Cap
      BY <2>1 DEF CallHeld, ProjectHeld, Claiming, Memo!Projects
    <3>2. Memo!Told("created")' \subseteq Memo!Told("created") \cup {q.project}
      BY <1>1 DEF Memo!Told
    <3>3. CASE u = q.user
      <4>1. Memo!Told("created")' \cap Memo!Listing(u) \in SUBSET Memo!Listing(u)  OBVIOUS
      <4>2. /\ Cardinality(Memo!Told("created")' \cap Memo!Listing(u))
                   <= Cardinality(Memo!Listing(u))
            /\ Cardinality(Memo!Told("created")' \cap Memo!Listing(u)) \in Nat
            /\ Cardinality(Memo!Listing(u)) \in Nat
        BY ONLY <2>0, <4>1, ListingFinite
      <4>3. QED  BY <3>1, <3>3, <4>2, TalkAssumption
    <3>4. CASE u # q.user
      <4>1. q.project \notin Memo!Listing(u)  BY <3>1, <3>4 DEF Memo!Listing
      <4>2. Memo!Told("created")' \cap Memo!Listing(u)
                \subseteq Memo!Told("created") \cap Memo!Listing(u)
        BY <3>2, <4>1
      <4>3. IsFiniteSet(Memo!Told("created") \cap Memo!Listing(u))  BY <2>0, ListingFinite
      <4>4. Cardinality(Memo!Told("created")' \cap Memo!Listing(u))
                <= Cardinality(Memo!Told("created") \cap Memo!Listing(u))
            /\ Cardinality(Memo!Told("created")' \cap Memo!Listing(u)) \in Nat
            /\ Cardinality(Memo!Told("created") \cap Memo!Listing(u)) \in Nat
        BY <4>2, <4>3, FS_Subset, FS_CardinalityType
      <4>5. QED  BY <2>0, <4>4, TalkAssumption
    <3>5. QED  BY <3>3, <3>4
  <2>2. CASE (q.pc = "done" /\ q.answer = "created") =>
                 callers[r].pc = "done" /\ callers[r].answer = "created"
    <3>1. q.pc = "done" /\ q.answer = "created" => callers[r].project = q.project
      BY DEF Claiming
    <3>2. Memo!Told("created")' \subseteq Memo!Told("created")  BY <1>1, <2>2, <3>1 DEF Memo!Told
    <3>3. IsFiniteSet(Memo!Told("created") \cap Memo!Listing(u))  BY <2>0, ListingFinite
    <3>4. Cardinality(Memo!Told("created")' \cap Memo!Listing(u))
              <= Cardinality(Memo!Told("created") \cap Memo!Listing(u))
          /\ Cardinality(Memo!Told("created")' \cap Memo!Listing(u)) \in Nat
          /\ Cardinality(Memo!Told("created") \cap Memo!Listing(u)) \in Nat
      BY <3>2, <3>3, FS_Subset, FS_CardinalityType
    <3>5. QED  BY <2>0, <3>4, TalkAssumption
  <2>3. QED  BY <2>1, <2>2
<1>6. SaidInChat' /\ Memo!RepeatsOnlyOverlapping' /\ Memo!AskedIsNotGuessed'
      /\ Memo!FiledUnderOwn'
  BY
     DEF MemInv, SaidInChat, Memo!RepeatsOnlyOverlapping, Memo!AskedIsNotGuessed,
         Memo!FiledUnderOwn, Memo!Memories,
         Memo!Projects
<1>7. QED  BY <1>2, <1>3, <1>4, <1>5, <1>6 DEF MemInv

\* The others keep what they know while one call moves and the tables grow.
LEMMA OthersKeep ==
    ASSUME MemInv, NEW r \in Callers, NEW q \in Running, callers' = [callers EXCEPT ![r] = q],
           Grown(projects, memories, projects', memories'), CallHeld(q, projects', memories'),
           \A s \in Callers \ {r} : Claiming(callers[s]) => projects'[callers[s].project].live
    PROVE  /\ callers' \in [Callers -> Running] /\ CallersHeld'
           /\ callers'[r] = q /\ \A s \in Callers \ {r} : callers'[s] = callers[s]
<1>1. /\ callers' \in [Callers -> Running]
      /\ callers'[r] = q /\ \A s \in Callers \ {r} : callers'[s] = callers[s]
  BY DEF MemInv, MemTypes
<1>2. ASSUME NEW s \in Callers PROVE CallHeld(callers'[s], projects', memories')
  <2>1. CASE s = r  BY <1>1, <2>1
  <2>2. CASE s # r
    <3>1. CallHeld(callers[s], projects, memories) /\ callers'[s] = callers[s]
      BY <1>1, <2>2 DEF MemInv, CallersHeld
    <3>2. QED  BY <2>2, <3>1, CallKeeps
  <2>3. QED  BY <2>1, <2>2
<1>3. QED  BY <1>1, <1>2 DEF CallersHeld

\* No project that is told of passes the cap while none is told of anew.
LEMMA CapKeeps ==
    ASSUME MemInv, \A u \in Users : Memo!Told("created")' \cap Memo!Listing(u)'
               \subseteq Memo!Told("created") \cap Memo!Listing(u)
    PROVE  Capped'
<1> SUFFICES ASSUME NEW u \in Users
             PROVE  Cardinality(Memo!Told("created")' \cap Memo!Listing(u)') <= Cap
  BY DEF Capped
<1>1. IsFiniteSet(Memo!Told("created") \cap Memo!Listing(u))  BY ListingFinite DEF MemInv
<1>2. Cardinality(Memo!Told("created")' \cap Memo!Listing(u)')
          <= Cardinality(Memo!Told("created") \cap Memo!Listing(u))
      /\ Cardinality(Memo!Told("created")' \cap Memo!Listing(u)') \in Nat
      /\ Cardinality(Memo!Told("created") \cap Memo!Listing(u)) \in Nat
  BY <1>1, FS_Subset, FS_CardinalityType
<1>3. QED  BY <1>2, TalkAssumption DEF MemInv, Capped
-----------------------------------------------------------------------------
(* Memories.                                                               *)

LEMMA WordsSaid ==
    ASSUME NEW said \in Spoken, NEW k \in DOMAIN said
    PROVE  /\ said[k].words \in Phrases
           /\ [label |-> said[k].by, words |-> said[k].words] \in Contents
<1>1. {said[i] : i \in DOMAIN said} \in {{heard[i] : i \in DOMAIN heard} : heard \in Spoken}
  OBVIOUS
<1>2. said[k] \in {said[i] : i \in DOMAIN said}  OBVIOUS
<1>3. said[k] \in Matches  BY <1>1, <1>2, Zenon DEF Matches
<1>4. said[k].words \in Phrases  BY <1>3 DEF Phrases
<1>5. QED  BY <1>3, <1>4 DEF Contents

LEMMA PlainContents == \A words \in Phrases : Memo!Plain(words) \in Contents
BY DEF Memo!Plain, Contents

\* What record_memories is about to insert is new to what it saw.
LEMMA LookUpKeeps ==
    ASSUME MemInv, NEW r \in Callers, NEW u \in Users, NEW said \in Spoken,
           NEW explicit \in BOOLEAN,
           Memo!LookUp(r, u, said, explicit)
    PROVE  MemInv'
<1> DEFINE asks == IF explicit THEN Memo!ExtractExplicit(said) ELSE {}
           facts == Memo!ExtractFacts(said)
           wanted == {row \in Memo!Rows(said, explicit) : ~Memo!OnRecord(u, row)}
           q == [pc |-> "insert", user |-> u, project |-> Memo!None, rows |-> wanted,
                 asked |-> asks,
                 seen |-> Memo!Memories]
<1>1. DOMAIN facts \subseteq DOMAIN said /\ IsFiniteSet(DOMAIN said)
  BY TalkAssumption DEF Memo!ExtractFacts
<1>2. \A k \in DOMAIN facts : facts[k][1] = said[k].by /\ facts[k][2] = said[k].words
  BY DEF Memo!ExtractFacts
<1>3. asks \subseteq {said[k].words : k \in DOMAIN said}  BY DEF Memo!ExtractExplicit
<1>4. asks \subseteq Phrases  BY <1>3, WordsSaid
<1>5. ASSUME NEW row \in Memo!Rows(said, explicit)
      PROVE  row \in Facts /\ (row.layer = "auto" => row.content.words \notin asks)
  <2>1. CASE \E k \in DOMAIN facts : row = Memo!RowFromFact(facts[k]) /\ facts[k][2] \notin asks
    <3>1. PICK k \in DOMAIN facts : row = Memo!RowFromFact(facts[k]) /\ facts[k][2] \notin asks
      BY <2>1
    <3> DEFINE content == [label |-> said[k].by, words |-> said[k].words]
    <3>2. content \in Contents  BY <1>1, <3>1, WordsSaid
    <3>3. row = [layer |-> "auto", content |-> content] /\ content.words \notin asks
      BY <1>2, <3>1 DEF Memo!RowFromFact
    <3> HIDE DEF content
    <3>4. QED  BY <3>2, <3>3 DEF Facts
  <2>2. CASE \E words \in asks : row = Memo!Explicit(words)
    BY <1>4, <2>2, PlainContents DEF Facts, Memo!Explicit
  <2>3. QED  BY <2>1, <2>2 DEF Memo!Rows
<1>6. IsFiniteSet(wanted)
  <2> DEFINE last == {k \in DOMAIN facts : /\ facts[k][2] \notin asks
                         /\ \A j \in DOMAIN facts : facts[j][2] \notin asks
                               => (facts[j][1] = facts[k][1] => j <= k)}
             guess == [k \in DOMAIN facts |-> Memo!RowFromFact(facts[k])]
             wish == [k \in DOMAIN said |-> Memo!Explicit(said[k].words)]
             guessed == {guess[k] : k \in DOMAIN facts}
             wished == {wish[k] : k \in DOMAIN said}
  <2>1. IsFiniteSet(DOMAIN facts)  BY <1>1, FS_Subset
  <2>2. guess \in Surjection(DOMAIN facts, guessed)  BY DEF Surjection
  <2>3. wish \in Surjection(DOMAIN said, wished)  BY DEF Surjection
  <2>4. IsFiniteSet(guessed)  BY ONLY <2>1, <2>2, FS_Surjection
  <2>5. IsFiniteSet(wished)  BY ONLY <1>1, <2>3, FS_Surjection
  <2>6. IsFiniteSet(guessed \cup wished)  BY ONLY <2>4, <2>5, FS_Union
  <2>7. wanted \subseteq guessed \cup wished  BY <1>3 DEF Memo!Rows
  <2>8. QED  BY ONLY <2>6, <2>7, FS_Subset
<1>7. q \in Running
  <2>1. wanted \subseteq Facts /\ Memo!Memories \subseteq Nat
    BY <1>5 DEF MemInv, MemTypes, Memo!Memories
  <2>2. QED  BY <1>4, <2>1 DEF Running
<1>8. CallHeld(q, projects, memories)
  <2>1. BatchHeld(q, memories)
    <3>1. \A row \in wanted, m \in Memo!Memories :
              ~ (/\ memories[m].owner = u /\ memories[m].project = Memo!None
                 /\ memories[m].layer = row.layer /\ memories[m].content = row.content)
      BY DEF Memo!OnRecord, Memo!OwnedBy
    <3>2. Memo!Memories \subseteq DOMAIN memories  BY DEF Memo!Memories
    <3>3. QED  BY <1>5, <1>6, <3>1, <3>2 DEF BatchHeld
  <2>2. QED  BY <2>1 DEF CallHeld, ProjectHeld, AnswerHeld, Claiming
<1>9. Memo!Turn(r, q) /\ UNCHANGED <<projects, memories>> /\ ~Claiming(q) /\ q.pc # "done"
  BY DEF Memo!LookUp, Claiming
<1>10. QED  BY ONLY <1>7, <1>8, <1>9, MemInv, CallerKeeps, r \in Callers

\* A batch repeats nothing its transaction saw (record_memories).
LEMMA InsertBatchKeeps == ASSUME MemInv, NEW r \in Callers, Memo!InsertBatch(r) PROVE MemInv'
<1> DEFINE q == callers[r]
           some == Memo!Listed(q.rows)
           n == Cardinality(q.rows)
           row(k) == [owner |-> q.user, project |-> Memo!None, layer |-> some[k].layer,
                      content |-> some[k].content, live |-> TRUE, from |-> "chat",
                      asked |-> q.asked, seen |-> q.seen]
           new == [k \in 1 .. n |-> row(k)]
<1>1. /\ q \in Running /\ q.pc = "insert" /\ CallHeld(q, projects, memories)
      /\ memories' = memories \o [k \in DOMAIN some |-> row(k)] /\ UNCHANGED projects
      /\ callers' = [callers EXCEPT ![r] = Memo!Idle]
  BY SameCount DEF Memo!InsertBatch, MemInv, MemTypes, CallersHeld, Memo!Turn
<1>a. BatchHeld(q, memories) /\ q.pc = "insert" /\ UNCHANGED projects  BY <1>1 DEF CallHeld
<1>2. /\ q.user \in Users /\ q.asked \subseteq Phrases /\ q.seen \subseteq Nat
         /\ q.rows \subseteq Facts
      /\ q.project = Memo!None
  BY <1>1 DEF Running
<1>3. n \in Nat /\ \E f \in [1 .. n -> q.rows] : \A i, j \in DOMAIN f : f[i] = f[j] => i = j
  <2>1. IsFiniteSet(q.rows)  BY <1>1 DEF CallHeld, BatchHeld
  <2>2. n \in Nat  BY <2>1, FS_CardinalityType
  <2>3. PICK f \in [1 .. n -> q.rows] : f \in Bijection(1 .. n, q.rows)
    BY <2>1, FS_CardinalityType DEF ExistsBijection, Bijection, Injection
  <2>4. \A i, j \in DOMAIN f : f[i] = f[j] => i = j
    BY <2>3 DEF Bijection, Injection, IsInjective
  <2>5. QED  BY <2>2, <2>3, <2>4
<1>4. some \in [1 .. n -> q.rows]  BY <1>3, SameCount DEF Memo!Listed
<1>5. \A k \in 1 .. n : some[k] \in q.rows /\ some[k] \in Facts  BY <1>2, <1>4
<1>6. new \in Seq(MemoryRows) /\ Len(new) = n
  <2>1. \A k \in 1 .. n : row(k) \in MemoryRows
    <3> SUFFICES ASSUME NEW k \in 1 .. n PROVE row(k) \in MemoryRows  OBVIOUS
    <3>1. some[k].layer \in {"auto", "explicit"} /\ some[k].content \in Contents
      BY <1>5 DEF Facts
    <3>2. QED  BY <1>2, <3>1 DEF MemoryRows, Memo!None
  <2>2. QED  BY <1>3, <2>1
<1>7. memories' = memories \o new  BY <1>1, <1>4
<1>8. /\ memories' \in Seq(MemoryRows) /\ Len(memories) \in Nat
         /\ DOMAIN memories = 1 .. Len(memories)
      /\ DOMAIN memories' = 1 .. Len(memories) + n
      /\ \A m \in DOMAIN memories : m \in DOMAIN memories' /\ memories'[m] = memories[m]
      /\ \A m \in DOMAIN memories' \ DOMAIN memories :
             m - Len(memories) \in 1 .. n /\ memories'[m] = new[m - Len(memories)]
  <2>1. memories \in Seq(MemoryRows)  BY DEF MemInv, MemTypes
  <2> HIDE DEF new, n
  <2>2. n \in Nat /\ new \in Seq(MemoryRows) /\ Len(new) = n /\ memories' = memories \o new
    BY <1>3, <1>6, <1>7
  <2>3. /\ memories \o new \in Seq(MemoryRows) /\ Len(memories \o new) = Len(memories) + n
        /\ \A m \in 1 .. Len(memories) : (memories \o new)[m] = memories[m]
        /\ \A m \in Len(memories) + 1 .. Len(memories) + n :
               (memories \o new)[m] = new[m - Len(memories)]
    <3>1. /\ memories \o new \in Seq(MemoryRows)
          /\ Len(memories \o new) = Len(memories) + Len(new)
          /\ \A i \in 1 .. Len(memories) + Len(new) : (memories \o new)[i] =
                 IF i <= Len(memories) THEN memories[i] ELSE new[i - Len(memories)]
      BY ONLY <2>1, <2>2, ConcatProperties
    <3>2. Len(memories) \in Nat  BY ONLY <2>1
    <3>3. QED  BY ONLY <2>2, <3>1, <3>2
  <2>4. Len(memories) \in Nat /\ DOMAIN memories = 1 .. Len(memories)
        /\ DOMAIN memories' = 1 .. Len(memories')
    BY ONLY <2>1, <2>2, <2>3
  <2>5. QED  BY ONLY <2>2, <2>3, <2>4
<1>9. \A m \in DOMAIN memories' \ DOMAIN memories :
         /\ m \in Nat /\ m > Len(memories)
         /\ memories'[m].owner = q.user /\ memories'[m].project = Memo!None
            /\ memories'[m].from = "chat"
         /\ memories'[m].asked = q.asked /\ memories'[m].seen = q.seen
         /\ \E fact \in q.rows : memories'[m].layer = fact.layer
            /\ memories'[m].content = fact.content
  <2> SUFFICES ASSUME NEW m \in DOMAIN memories' \ DOMAIN memories
      PROVE  /\ m \in Nat /\ m > Len(memories)
             /\ memories'[m].owner = q.user /\ memories'[m].project = Memo!None
             /\ memories'[m].from = "chat"
             /\ memories'[m].asked = q.asked /\ memories'[m].seen = q.seen
             /\ \E fact \in q.rows :
                   memories'[m].layer = fact.layer /\ memories'[m].content = fact.content
    OBVIOUS
  <2>1. m - Len(memories) \in 1 .. n /\ memories'[m] = new[m - Len(memories)]  BY <1>8
  <2>2. m \in Nat /\ m > Len(memories)  BY <1>3, <1>8
  <2>3. new[m - Len(memories)] = row(m - Len(memories))  BY <2>1
  <2>4. some[m - Len(memories)] \in q.rows  BY <1>5, <2>1
  <2>5. QED  BY <2>1, <2>2, <2>3, <2>4
<1>10. Grown(projects, memories, projects', memories')  BY <1>1, <1>8 DEF Grown
<1>11. /\ callers' \in [Callers -> Running] /\ CallersHeld'
       /\ callers'[r] = Memo!Idle /\ \A s \in Callers \ {r} : callers'[s] = callers[s]
  <2>1. Memo!Idle \in Running /\ CallHeld(Memo!Idle, projects', memories')
    BY DEF Running, Memo!Idle, CallHeld, BatchHeld, ProjectHeld, AnswerHeld, Claiming
  <2>2. \A s \in Callers \ {r} : Claiming(callers[s]) => projects'[callers[s].project].live
    BY <1>1 DEF MemInv, CallersHeld, CallHeld, ProjectHeld
  <2>3. QED  BY <1>1, <1>10, <2>1, <2>2, OthersKeep
<1>12. MemTypes'  BY <1>1, <1>8, <1>11 DEF MemInv, MemTypes
<1>13. ClaimsApart'
  <2>1. ~Claiming(Memo!Idle)  BY DEF Claiming, Memo!Idle
  <2>2. QED  BY <1>11, <2>1 DEF MemInv, ClaimsApart
<1>14. Capped'
  <2>1. ~(Memo!Idle.pc = "done")  BY DEF Memo!Idle
  <2>2. Memo!Told("created")' \subseteq Memo!Told("created")  BY <1>11, <2>1 DEF Memo!Told
  <2>3. \A u : Memo!Listing(u)' = Memo!Listing(u)  BY <1>1 DEF Memo!Listing, Memo!Projects
  <2>4. QED  BY <2>2, <2>3, CapKeeps
<1>15. SaidInChat'  BY <1>8, <1>9 DEF MemInv, SaidInChat
<1>16. Memo!RepeatsOnlyOverlapping'
  <2> SUFFICES ASSUME NEW m \in DOMAIN memories', NEW l \in DOMAIN memories',
                      memories'[m].from = "chat", memories'[l].from = "chat", m < l,
                      memories'[m].owner = memories'[l].owner,
                      memories'[m].layer = memories'[l].layer,
                      memories'[m].content = memories'[l].content
               PROVE  m \notin memories'[l].seen
    BY DEF Memo!RepeatsOnlyOverlapping
  <2>1. CASE l \in DOMAIN memories
    <3>1. m \in DOMAIN memories  BY <1>8, <2>1
    <3>2. memories'[m] = memories[m] /\ memories'[l] = memories[l]  BY <1>8, <2>1, <3>1
    <3>3. QED  BY <2>1, <3>1, <3>2 DEF MemInv, Memo!RepeatsOnlyOverlapping
  <2>2. CASE l \notin DOMAIN memories
    <3>1. PICK fact \in q.rows : memories'[l].layer = fact.layer
               /\ memories'[l].content = fact.content
      BY <1>9, <2>2
    <3>2. memories'[l].owner = q.user /\ memories'[l].seen = q.seen  BY <1>9, <2>2
    <3>3. SUFFICES ASSUME m \in q.seen PROVE FALSE  BY <3>2
    <3>4. m \in DOMAIN memories  BY <1>a, <3>3 DEF BatchHeld
    <3>5. memories'[m] = memories[m]  BY <1>8, <3>4
    <3>6. memories[m].project = Memo!None  BY <3>4, <3>5 DEF MemInv, SaidInChat
    <3>7. QED  BY <1>a, <3>1, <3>2, <3>3, <3>5, <3>6 DEF BatchHeld
  <2>3. QED  BY <2>1, <2>2
<1>17. Memo!AskedIsNotGuessed'
  <2> SUFFICES ASSUME NEW m \in DOMAIN memories', memories'[m].layer = "auto"
               PROVE  memories'[m].content.words \notin memories'[m].asked
    BY DEF Memo!AskedIsNotGuessed
  <2>1. CASE m \in DOMAIN memories  BY <1>8, <2>1 DEF MemInv, Memo!AskedIsNotGuessed
  <2>2. CASE m \notin DOMAIN memories
    <3>1. PICK fact \in q.rows : memories'[m].layer = fact.layer
               /\ memories'[m].content = fact.content
      BY <1>9, <2>2
    <3>2. memories'[m].asked = q.asked  BY <1>9, <2>2
    <3>3. QED  BY <1>a, <3>1, <3>2 DEF BatchHeld
  <2>3. QED  BY <2>1, <2>2
<1>18. Memo!FiledUnderOwn'
  <2> SUFFICES ASSUME NEW m \in Memo!Memories', memories'[m].project # Memo!None
               PROVE  /\ memories'[m].project \in Memo!Projects'
                      /\ projects'[memories'[m].project].owner = memories'[m].owner
    BY DEF Memo!FiledUnderOwn
  <2>1. m \in DOMAIN memories' /\ memories'[m].live  BY DEF Memo!Memories
  <2>2. m \in DOMAIN memories  BY <1>9, <2>1
  <2>3. memories'[m] = memories[m] /\ m \in Memo!Memories  BY <1>8, <2>1, <2>2 DEF Memo!Memories
  <2>4. QED  BY <1>a, <2>3 DEF MemInv, Memo!FiledUnderOwn, Memo!Projects
<1>19. QED  BY <1>11, <1>12, <1>13, <1>14, <1>15, <1>16, <1>17, <1>18 DEF MemInv

\* One row more in the table of memories, filed under no project or under a live one of its
\* owner's; the call that asked for it is told.
LEMMA RowKeeps ==
    ASSUME MemInv, NEW u \in Users, NEW p \in Nat, NEW words \in Memo!Texts,
           memories' = Append(memories, Memo!Memory(u, p, words)), UNCHANGED projects,
           p = Memo!None \/ (p \in Memo!Projects /\ projects[p].owner = u),
           \/ UNCHANGED callers
           \/ \E r \in Callers, q \in Running :
                 /\ callers' = [callers EXCEPT ![r] = q]
                 /\ q.pc = "done" /\ q.answer = "saved"
    PROVE  MemInv'
<1> DEFINE row == Memo!Memory(u, p, words)
           l == Len(memories) + 1
<1>1. row \in MemoryRows
  <2>1. words \in Phrases  BY DEF Phrases
  <2>2. QED  BY <2>1, PlainContents DEF Memo!Memory, MemoryRows
<1>2. /\ memories' \in Seq(MemoryRows) /\ Len(memories) \in Nat
         /\ DOMAIN memories = 1 .. Len(memories)
      /\ DOMAIN memories' = DOMAIN memories \cup {l} /\ memories'[l] = row
         /\ l \notin DOMAIN memories
      /\ \A m \in DOMAIN memories : m \in DOMAIN memories' /\ memories'[m] = memories[m]
      /\ DOMAIN memories \subseteq Nat
  <2>1. memories \in Seq(MemoryRows) /\ memories' = Append(memories, row)  BY DEF MemInv, MemTypes
  <2> HIDE DEF row
  <2>2. QED  BY ONLY <1>1, <2>1
<1>3. /\ row.owner = u /\ row.project = p /\ row.layer = "explicit" /\ row.from = "tool"
      /\ row.live
  BY DEF Memo!Memory
<1>4. Grown(projects, memories, projects', memories')  BY <1>2 DEF Grown
<1>5. callers' \in [Callers -> Running] /\ CallersHeld' /\ ClaimsApart'
      /\ Memo!Told("created")' \subseteq Memo!Told("created")
  <2>1. \A s \in Callers : Claiming(callers[s]) => projects'[callers[s].project].live
    BY DEF MemInv, CallersHeld, CallHeld, ProjectHeld
  <2>2. CASE UNCHANGED callers
    <3>1. ASSUME NEW s \in Callers PROVE CallHeld(callers'[s], projects', memories')
      <4>1. CallHeld(callers[s], projects, memories) /\ callers'[s] = callers[s]
        BY <2>2 DEF MemInv, CallersHeld
      <4>2. QED  BY <1>4, <2>1, <4>1, CallKeeps
    <3>2. QED  BY <2>2, <3>1 DEF MemInv, MemTypes, CallersHeld, ClaimsApart, Memo!Told
  <2>3. CASE \E r \in Callers, q \in Running : /\ callers' = [callers EXCEPT ![r] = q]
                                               /\ q.pc = "done" /\ q.answer = "saved"
    <3>1. PICK r \in Callers, q \in Running : /\ callers' = [callers EXCEPT ![r] = q]
                                              /\ q.pc = "done" /\ q.answer = "saved"
      BY <2>3
    <3>2. CallHeld(q, projects', memories')
      BY <3>1 DEF CallHeld, BatchHeld, ProjectHeld, AnswerHeld, Claiming
    <3>3. /\ callers' \in [Callers -> Running] /\ CallersHeld'
          /\ callers'[r] = q /\ \A s \in Callers \ {r} : callers'[s] = callers[s]
      BY <1>4, <2>1, <3>1, <3>2, OthersKeep
    <3>4. ~Claiming(q)  BY <3>1 DEF Claiming
    <3>5. ClaimsApart'  BY <3>3, <3>4 DEF MemInv, ClaimsApart
    <3>6. Memo!Told("created")' \subseteq Memo!Told("created")  BY <3>1, <3>3 DEF Memo!Told
    <3>7. QED  BY <3>3, <3>5, <3>6
  <2>4. QED  BY <2>2, <2>3
<1>6. MemTypes'  BY <1>2, <1>5 DEF MemInv, MemTypes
<1>7. Capped'
  <2>1. \A x : Memo!Listing(x)' = Memo!Listing(x)  BY DEF Memo!Listing, Memo!Projects
  <2>2. QED  BY <1>5, <2>1, CapKeeps
<1>8. SaidInChat' /\ Memo!RepeatsOnlyOverlapping' /\ Memo!AskedIsNotGuessed'
  <2>1. SaidInChat' /\ Memo!AskedIsNotGuessed'
    BY <1>2, <1>3 DEF MemInv, SaidInChat, Memo!AskedIsNotGuessed
  <2>2. Memo!RepeatsOnlyOverlapping'  BY <1>2, <1>3 DEF MemInv, Memo!RepeatsOnlyOverlapping
  <2>3. QED  BY <2>1, <2>2
<1>9. Memo!FiledUnderOwn'
  <2> SUFFICES ASSUME NEW m \in Memo!Memories', memories'[m].project # Memo!None
               PROVE  /\ memories'[m].project \in Memo!Projects
                      /\ projects[memories'[m].project].owner = memories'[m].owner
    BY DEF Memo!FiledUnderOwn, Memo!Projects
  <2>1. CASE m = l  BY <1>2, <1>3, <2>1
  <2>2. CASE m # l
    <3>1. m \in DOMAIN memories /\ memories'[m] = memories[m] /\ m \in Memo!Memories
      BY <1>2, <2>2 DEF Memo!Memories
    <3>2. QED  BY <3>1 DEF MemInv, Memo!FiledUnderOwn
  <2>3. QED  BY <2>1, <2>2
<1>10. QED  BY <1>5, <1>6, <1>7, <1>8, <1>9 DEF MemInv

LEMMA SaveKeeps == ASSUME MemInv, NEW r \in Callers, NEW words \in Memo!Texts,
                          Memo!SaveMemory(r, words)
                   PROVE MemInv'
<1> DEFINE q == callers[r]
<1>1. /\ q \in Running /\ q.pc = "save" /\ ProjectHeld(q, projects)
      /\ q.user \in Users /\ q.project \in Nat
  <2>1. q \in Running /\ q.pc = "save" /\ ProjectHeld(q, projects)
    BY DEF Memo!SaveMemory, MemInv, MemTypes, CallersHeld, CallHeld
  <2>2. QED  BY <2>1 DEF Running
<1>2. CASE q.project \in Memo!Projects \cup {Memo!None}
  <2> DEFINE told == [pc |-> "done", user |-> q.user, answer |-> "saved", project |-> q.project]
  <2>1. told \in Running  BY <1>1 DEF Running, Answers
  <2>2. callers' = [callers EXCEPT ![r] = told]
        /\ memories' = Append(memories, Memo!Memory(q.user, q.project, words))
        /\ UNCHANGED projects
    BY <1>2 DEF Memo!SaveMemory, Memo!Ended, Memo!Turn
  <2>3. told.pc = "done" /\ told.answer = "saved"  OBVIOUS
  <2>4. q.project = Memo!None \/ (q.project \in Memo!Projects
        /\ projects[q.project].owner = q.user)
    BY <1>1, <1>2 DEF ProjectHeld
  <2> HIDE DEF told, q
  <2>5. \E s \in Callers, d \in Running : callers' = [callers EXCEPT ![s] = d]
                                        /\ d.pc = "done" /\ d.answer = "saved"
    BY <2>1, <2>2, <2>3
  <2>6. QED  BY ONLY MemInv, words \in Memo!Texts, <1>1, <2>2, <2>4, <2>5, RowKeeps
<1>3. CASE q.project \notin Memo!Projects \cup {Memo!None}
  <2> DEFINE told == [pc |-> "done", user |-> q.user, answer |-> "failed", project |-> q.project]
  <2>1. told \in Running  BY <1>1 DEF Running, Answers
  <2>2. Memo!Turn(r, told) /\ UNCHANGED <<projects, memories>>
    BY <1>3 DEF Memo!SaveMemory, Memo!Ended
  <2>3. CallHeld(told, projects, memories) /\ ~Claiming(told) /\ told.answer # "created"
    BY DEF CallHeld, BatchHeld, ProjectHeld, AnswerHeld, Claiming
  <2> HIDE DEF told
  <2>4. QED  BY <2>1, <2>2, <2>3, CallerKeeps
<1>4. QED  BY <1>2, <1>3

LEMMA CreateMemoryKeeps ==
    ASSUME MemInv, NEW u \in Users, NEW words \in Memo!Texts,
           Memo!CreateMemory(u, words)  PROVE MemInv'
<1>1. Memo!None \in Nat  BY DEF Memo!None
<1>2. QED  BY <1>1, RowKeeps DEF Memo!CreateMemory

\* A row that is deleted is not looked at again.
LEMMA DeleteKeeps ==
    ASSUME MemInv, NEW u \in Users, NEW m \in Memo!Memories,
           Memo!DeleteMemory(u, m)  PROVE MemInv'
<1>1. /\ m \in DOMAIN memories /\ memories \in Seq(MemoryRows) /\ memories[m] \in MemoryRows
      /\ memories' = [memories EXCEPT ![m] = [memories[m] EXCEPT !.live = FALSE]]
      /\ UNCHANGED <<projects, callers>>
  BY ElementOfSeq DEF Memo!DeleteMemory, MemInv, MemTypes, Memo!Memories
<1> DEFINE row == [memories[m] EXCEPT !.live = FALSE]
<1>2. /\ row \in MemoryRows /\ ~row.live
      /\ row.owner = memories[m].owner /\ row.project = memories[m].project
      /\ row.layer = memories[m].layer /\ row.content = memories[m].content
      /\ row.from = memories[m].from /\ row.asked = memories[m].asked
      /\ row.seen = memories[m].seen
  BY <1>1 DEF MemoryRows
<1>3. /\ memories' \in Seq(MemoryRows) /\ DOMAIN memories' = DOMAIN memories /\ memories'[m] = row
      /\ \A k \in DOMAIN memories \ {m} : memories'[k] = memories[k]
  <2> HIDE DEF row
  <2>1. memories' = [memories EXCEPT ![m] = row]  BY <1>1 DEF row
  <2>2. memories \in [1 .. Len(memories) -> MemoryRows] /\ Len(memories) \in Nat  BY <1>1
  <2>3. memories' \in [1 .. Len(memories) -> MemoryRows]  BY <1>2, <2>1, <2>2
  <2>4. memories' \in Seq(MemoryRows)  BY ONLY <2>2, <2>3
  <2>5. QED  BY <1>1, <2>1, <2>2, <2>3, <2>4
<1> HIDE DEF row
<1>4. \A k \in DOMAIN memories :
         /\ memories'[k].owner = memories[k].owner /\ memories'[k].project = memories[k].project
         /\ memories'[k].layer = memories[k].layer /\ memories'[k].content = memories[k].content
         /\ memories'[k].from = memories[k].from /\ memories'[k].asked = memories[k].asked
         /\ memories'[k].seen = memories[k].seen
  BY <1>2, <1>3
<1>5. Grown(projects, memories, projects', memories')  BY <1>1, <1>3, <1>4 DEF Grown
<1>6. CallersHeld'
  <2>1. ASSUME NEW s \in Callers PROVE CallHeld(callers'[s], projects', memories')
    <3>1. CallHeld(callers[s], projects, memories) /\ callers' = callers /\ projects' = projects
      BY <1>1 DEF MemInv, CallersHeld
    <3>2. Claiming(callers[s]) => projects'[callers[s].project].live
      BY <3>1 DEF CallHeld, ProjectHeld
    <3>3. QED  BY <1>5, <3>1, <3>2, CallKeeps
  <2>2. QED  BY <2>1 DEF CallersHeld
<1>7. MemTypes' /\ ClaimsApart'  BY <1>1, <1>3 DEF MemInv, MemTypes, ClaimsApart
<1>8. Capped'
  <2>1. Memo!Told("created")' = Memo!Told("created") /\ \A x : Memo!Listing(x)' = Memo!Listing(x)
    BY <1>1 DEF Memo!Told, Memo!Listing, Memo!Projects
  <2>2. QED  BY <2>1, CapKeeps
<1>9. SaidInChat' /\ Memo!RepeatsOnlyOverlapping' /\ Memo!AskedIsNotGuessed'
  BY <1>3, <1>4 DEF MemInv, SaidInChat, Memo!RepeatsOnlyOverlapping, Memo!AskedIsNotGuessed
<1>10. Memo!FiledUnderOwn'
  <2>1. \A k \in Memo!Memories' : k \in Memo!Memories  BY <1>2, <1>3 DEF Memo!Memories
  <2>2. \A k \in Memo!Memories : k \in DOMAIN memories  BY DEF Memo!Memories
  <2>3. QED  BY <1>1, <1>4, <2>1, <2>2 DEF MemInv, Memo!FiledUnderOwn, Memo!Projects
<1>11. QED  BY <1>6, <1>7, <1>8, <1>9, <1>10 DEF MemInv

\* What a search or a listing finds (retrieve, list_for_user) is the caller's, and it is not
\* asked again; the tools ask for the project first.
LEMMA ReadKeeps ==
    ASSUME MemInv, NEW r \in Callers,
           \/ \E query \in Memo!Texts : Memo!Retrieve(r, query)
           \/ Memo!ListForUser(r)
    PROVE  MemInv'
<1> DEFINE q == callers[r]
<1>1. /\ q \in Running /\ q.pc \in {"search", "list"} /\ UNCHANGED <<projects, memories>>
      /\ q.user \in Users /\ q.project \in Nat
  <2>1. q \in Running /\ q.pc \in {"search", "list"} /\ UNCHANGED <<projects, memories>>
    BY DEF Memo!Retrieve, Memo!ListForUser, MemInv, MemTypes
  <2>2. QED  BY <2>1 DEF Running
<1>2. PICK found \in SUBSET Memo!OwnedBy(q.user) :
         /\ Memo!Turn(r, [pc |-> "read", user |-> q.user, project |-> q.project, rows |-> found])
         /\ q.project # Memo!None => found \subseteq Memo!InScope(q.user, q.project)
  <2>1. \A p : Memo!InScope(q.user, p) \subseteq Memo!OwnedBy(q.user)  BY DEF Memo!InScope
  <2>2. CASE \E query \in Memo!Texts : Memo!Retrieve(r, query)
    <3>1. PICK query \in Memo!Texts : Memo!Retrieve(r, query)  BY <2>2
    <3>2. \A found \in Memo!Found(q.user, q.project,
                                  query) : found \subseteq Memo!InScope(q.user, q.project)
      BY DEF Memo!Found
    <3>3. QED  BY <2>1, <3>1, <3>2 DEF Memo!Retrieve
  <2>3. CASE Memo!ListForUser(r)  BY <2>1, <2>3 DEF Memo!ListForUser
  <2>4. QED  BY <2>2, <2>3
<1> DEFINE read == [pc |-> "read", user |-> q.user, project |-> q.project, rows |-> found]
<1>3. \A m \in found : m \in DOMAIN memories /\ memories[m].owner = q.user
                       /\ (q.project # Memo!None =>
                               memories[m].project \in {Memo!None, q.project})
  BY <1>2 DEF Memo!OwnedBy, Memo!Memories, Memo!InScope
<1>4. read \in Running
  <2>1. found \subseteq Nat  BY <1>3 DEF MemInv, MemTypes
  <2>2. QED  BY <1>1, <2>1 DEF Running
<1>5. CallHeld(read, projects, memories) /\ ~Claiming(read) /\ read.pc # "done"
  BY <1>3 DEF CallHeld, BatchHeld, ProjectHeld, AnswerHeld, Claiming
<1>6. Memo!Turn(r, read)  BY <1>2
<1> HIDE DEF read
<1>7. QED  BY <1>1, <1>4, <1>5, <1>6, CallerKeeps

LEMMA AnsweredKeeps == ASSUME MemInv, NEW r \in Callers, Memo!Answered(r)  PROVE MemInv'
<1>1. Memo!Idle \in Running /\ CallHeld(Memo!Idle, projects,
                                        memories) /\ ~Claiming(Memo!Idle) /\ Memo!Idle.pc # "done"
  BY DEF Running, Memo!Idle, CallHeld, BatchHeld, ProjectHeld, AnswerHeld, Claiming
<1>2. QED  BY <1>1, CallerKeeps DEF Memo!Answered

\* A tool's project is resolved among the caller's own (resolve_project_by_name).
LEMMA BeginKeeps ==
    ASSUME MemInv, NEW r \in Callers, NEW u \in Users, NEW next \in {"save", "search", "list"},
           NEW name, Memo!Begin(r, u, next, name)
    PROVE  MemInv'
<1>1. CASE UNCHANGED callers
  <2>1. callers[r] = Memo!Idle /\ UNCHANGED <<projects, memories>>  BY DEF Memo!Begin
  <2>2. Memo!Turn(r, callers[r])  BY <1>1 DEF MemInv, MemTypes, Memo!Turn
  <2>3. callers[r] \in Running /\ CallHeld(callers[r], projects, memories)
    BY DEF MemInv, MemTypes, CallersHeld
  <2>4. callers[r].pc # "done"  BY <2>1 DEF Memo!Idle
  <2>5. QED  BY <2>1, <2>2, <2>3, <2>4, CallerKeeps
<1>2. CASE \E p \in Memo!Resolve(u, name) \cup {Memo!None} :
              Memo!Turn(r, [pc |-> next, user |-> u, project |-> p])
  <2>1. PICK p \in Memo!Resolve(u, name) \cup {Memo!None} :
           Memo!Turn(r, [pc |-> next, user |-> u, project |-> p])
    BY <1>2
  <2> DEFINE q == [pc |-> next, user |-> u, project |-> p]
  <2>2. p = Memo!None \/ (p \in DOMAIN projects /\ projects[p].owner = u)
    BY <2>1 DEF Memo!Resolve, Memo!Projects
  <2>3. p \in Nat  BY <2>2 DEF MemInv, MemTypes, Memo!None
  <2>4. q \in Running  BY <2>3 DEF Running
  <2>5. CallHeld(q, projects, memories) /\ ~Claiming(q) /\ q.pc # "done"
    BY <2>2 DEF CallHeld, BatchHeld, ProjectHeld, AnswerHeld, Claiming
  <2>6. Memo!Turn(r, q) /\ UNCHANGED <<projects, memories>>  BY <2>1 DEF Memo!Begin
  <2> HIDE DEF q
  <2>7. QED  BY <2>4, <2>5, <2>6, CallerKeeps
<1>3. QED  BY <1>1, <1>2 DEF Memo!Begin
-----------------------------------------------------------------------------
(* Projects.                                                               *)

\* What any change of the projects must leave true.
LEMMA ProjectsKeep ==
    ASSUME MemInv, projects' \in Seq(ProjectRows), UNCHANGED memories,
           callers' \in [Callers -> Running], CallersHeld', ClaimsApart', Capped',
           Grown(projects, memories, projects', memories'),
           \A p \in DOMAIN projects : projects[p].live /\ ~projects'[p].live =>
               \A m \in Memo!Memories : memories[m].project # p
    PROVE  MemInv'
<1>1. SaidInChat' /\ Memo!RepeatsOnlyOverlapping' /\ Memo!AskedIsNotGuessed' /\ MemTypes'
  BY DEF MemInv, SaidInChat, Memo!RepeatsOnlyOverlapping, Memo!AskedIsNotGuessed, MemTypes
<1>2. Memo!FiledUnderOwn'
  <2> SUFFICES ASSUME NEW m \in Memo!Memories, memories[m].project # Memo!None
               PROVE  /\ memories[m].project \in Memo!Projects'
                      /\ projects'[memories[m].project].owner = memories[m].owner
    BY DEF Memo!FiledUnderOwn, Memo!Memories
  <2>1. /\ memories[m].project \in DOMAIN projects /\ projects[memories[m].project].live
        /\ projects[memories[m].project].owner = memories[m].owner
    BY DEF MemInv, Memo!FiledUnderOwn, Memo!Projects
  <2>2. QED  BY <2>1 DEF Grown, Memo!Projects
<1>3. QED  BY <1>1, <1>2 DEF MemInv

\* A project that is new is nobody's yet.
LEMMA NewProjectKeeps ==
    ASSUME MemInv, NEW u \in Users, NEW name \in Memo!ProjectNames,
           projects' = Append(projects, Memo!Project(u, name)),
           UNCHANGED memories,
           \/ UNCHANGED callers
           \/ \E r \in Callers : /\ callers[r] = Memo!Idle
                                 /\ Memo!Turn(r,
                                              [pc |-> "count", user |-> u,
                                               project |-> Len(projects) + 1])
    PROVE  MemInv'
<1> DEFINE row == Memo!Project(u, name)
           n == Len(projects) + 1
<1>1. row \in ProjectRows /\ row.owner = u /\ row.live  BY DEF Memo!Project, ProjectRows
<1>2. /\ projects' \in Seq(ProjectRows) /\ n \in Nat /\ n # Memo!None
      /\ DOMAIN projects' = DOMAIN projects \cup {n} /\ projects'[n] = row
         /\ n \notin DOMAIN projects
      /\ \A p \in DOMAIN projects : p \in DOMAIN projects' /\ projects'[p] = projects[p]
  <2>1. projects \in Seq(ProjectRows) /\ projects' = Append(projects, row)
    BY DEF MemInv, MemTypes
  <2> HIDE DEF row
  <2>2. QED  BY ONLY <1>1, <2>1 DEF Memo!None
<1>3. Grown(projects, memories, projects', memories')  BY <1>2 DEF Grown
<1>4. \A s \in Callers : Claiming(callers[s]) =>
          /\ callers[s].project \in DOMAIN projects /\ projects[callers[s].project].live
          /\ projects'[callers[s].project].live
  BY <1>2 DEF MemInv, CallersHeld, CallHeld, ProjectHeld
<1>5. callers' \in [Callers -> Running] /\ CallersHeld' /\ ClaimsApart'
      /\ Memo!Told("created")' \subseteq Memo!Told("created")
  <2>1. CASE UNCHANGED callers
    <3>1. ASSUME NEW s \in Callers PROVE CallHeld(callers'[s], projects', memories')
      <4>1. CallHeld(callers[s], projects, memories) /\ callers'[s] = callers[s]
        BY <2>1 DEF MemInv, CallersHeld
      <4>2. QED  BY <1>3, <1>4, <4>1, CallKeeps
    <3>2. QED  BY <2>1, <3>1 DEF MemInv, MemTypes, CallersHeld, ClaimsApart, Memo!Told
  <2>2. CASE \E r \in Callers : /\ callers[r] = Memo!Idle
                                /\ Memo!Turn(r, [pc |-> "count", user |-> u, project |-> n])
    <3>1. PICK r \in Callers : /\ callers[r] = Memo!Idle
                               /\ Memo!Turn(r, [pc |-> "count", user |-> u, project |-> n])
      BY <2>2
    <3> DEFINE q == [pc |-> "count", user |-> u, project |-> n]
    <3>2. q \in Running  BY <1>2 DEF Running
    <3>3. CallHeld(q, projects', memories')
      BY <1>1, <1>2 DEF CallHeld, BatchHeld, ProjectHeld, AnswerHeld, Claiming
    <3>4. callers' = [callers EXCEPT ![r] = q]  BY <3>1 DEF Memo!Turn
    <3>5. q.project = n /\ q.pc # "done"  OBVIOUS
    <3> HIDE DEF q
    <3>6. /\ callers' \in [Callers -> Running] /\ CallersHeld'
          /\ callers'[r] = q /\ \A s \in Callers \ {r} : callers'[s] = callers[s]
      BY <1>3, <1>4, <3>2, <3>3, <3>4, OthersKeep
    <3>7. ClaimsApart'  BY <1>2, <1>4, <3>5, <3>6 DEF MemInv, ClaimsApart
    <3>8. Memo!Told("created")' \subseteq Memo!Told("created")  BY <3>5, <3>6 DEF Memo!Told
    <3>9. QED  BY <3>6, <3>7, <3>8
  <2>3. QED  BY <2>1, <2>2
<1>6. Capped'
  <2>1. Memo!Told("created") \subseteq DOMAIN projects  BY <1>4 DEF Memo!Told, Claiming
  <2>2. \A x : Memo!Listing(x)' \cap DOMAIN projects \subseteq Memo!Listing(x)
    BY <1>2 DEF Memo!Listing, Memo!Projects
  <2>3. QED  BY <1>5, <2>1, <2>2, CapKeeps
<1>7. \A p \in DOMAIN projects : projects[p].live /\ ~projects'[p].live =>
          \A m \in Memo!Memories : memories[m].project # p
  BY <1>2
<1>8. QED  BY <1>2, <1>3, <1>5, <1>6, <1>7, ProjectsKeep

\* A row of the projects that is edited in place.
LEMMA EditedProject ==
    ASSUME MemInv, NEW p \in DOMAIN projects, NEW row \in ProjectRows,
           projects' = [projects EXCEPT ![p] = row],
           row.owner = projects[p].owner, row.live => projects[p].live,
           row.live /\ projects[p].archived => row.archived, UNCHANGED memories
    PROVE  /\ projects' \in Seq(ProjectRows) /\ DOMAIN projects' = DOMAIN projects
           /\ projects'[p] = row /\ \A q \in DOMAIN projects \ {p} : projects'[q] = projects[q]
           /\ Grown(projects, memories, projects', memories')
           /\ \A x : Memo!Listing(x)' \subseteq Memo!Listing(x)
<1>1. projects \in [1 .. Len(projects) -> ProjectRows] /\ Len(projects) \in Nat
  BY DEF MemInv, MemTypes
<1>2. projects' \in [1 .. Len(projects) -> ProjectRows]  BY <1>1
<1>3. projects' \in Seq(ProjectRows)  BY <1>1, <1>2
<1>4. /\ DOMAIN projects' = DOMAIN projects
      /\ projects'[p] = row /\ \A q \in DOMAIN projects \ {p} : projects'[q] = projects[q]
  BY <1>1
<1>5. Grown(projects, memories, projects', memories')  BY <1>4 DEF Grown
<1>6. \A x : Memo!Listing(x)' \subseteq Memo!Listing(x)  BY <1>4 DEF Memo!Listing, Memo!Projects
<1>7. QED  BY <1>3, <1>4, <1>5, <1>6

LEMMA EditKeeps ==
    ASSUME MemInv, NEW p \in Memo!Projects,
           Memo!ArchiveProject(p) \/ \E name \in Memo!ProjectNames : Memo!RenameProject(p, name)
    PROVE  MemInv'
<1>1. /\ p \in DOMAIN projects /\ projects[p] \in ProjectRows /\ projects[p].live
      /\ UNCHANGED <<memories, callers>>
  BY ElementOfSeq DEF MemInv, MemTypes, Memo!Projects, Memo!ArchiveProject, Memo!RenameProject
<1>2. PICK row \in ProjectRows :
         /\ projects' = [projects EXCEPT ![p] = row] /\ row.owner = projects[p].owner
         /\ row.live = projects[p].live /\ (projects[p].archived => row.archived)
  <2>1. CASE Memo!ArchiveProject(p)
    <3>1. projects' = [projects EXCEPT ![p] = [projects[p] EXCEPT !.archived = TRUE]]
      BY <2>1 DEF Memo!ArchiveProject
    <3>2. /\ [projects[p] EXCEPT !.archived = TRUE] \in ProjectRows
          /\ [projects[p] EXCEPT !.archived = TRUE].owner = projects[p].owner
          /\ [projects[p] EXCEPT !.archived = TRUE].live = projects[p].live
          /\ [projects[p] EXCEPT !.archived = TRUE].archived
      BY <1>1 DEF ProjectRows
    <3>3. QED  BY <3>1, <3>2
  <2>2. ASSUME NEW name \in Memo!ProjectNames, Memo!RenameProject(p, name)
        PROVE  \E row \in ProjectRows :
                  /\ projects' = [projects EXCEPT ![p] = row] /\ row.owner = projects[p].owner
                  /\ row.live = projects[p].live /\ (projects[p].archived => row.archived)
    <3>1. projects' = [projects EXCEPT ![p] = [projects[p] EXCEPT !.name = name]]
      BY <2>2 DEF Memo!RenameProject
    <3>2. /\ [projects[p] EXCEPT !.name = name] \in ProjectRows
          /\ [projects[p] EXCEPT !.name = name].owner = projects[p].owner
          /\ [projects[p] EXCEPT !.name = name].live = projects[p].live
          /\ [projects[p] EXCEPT !.name = name].archived = projects[p].archived
      BY <1>1 DEF ProjectRows
    <3>3. QED  BY <3>1, <3>2
  <2>3. QED  BY <2>1, <2>2
<1>3. /\ projects' \in Seq(ProjectRows) /\ DOMAIN projects' = DOMAIN projects
      /\ projects'[p] = row /\ \A q \in DOMAIN projects \ {p} : projects'[q] = projects[q]
      /\ Grown(projects, memories, projects', memories')
      /\ \A x : Memo!Listing(x)' \subseteq Memo!Listing(x)
  BY <1>1, <1>2, EditedProject
<1>4. \A q \in DOMAIN projects : projects'[q].live = projects[q].live  BY <1>2, <1>3
<1>5. CallersHeld'
  <2>1. ASSUME NEW s \in Callers PROVE CallHeld(callers'[s], projects', memories')
    <3>1. CallHeld(callers[s], projects, memories) /\ callers' = callers
      BY <1>1 DEF MemInv, CallersHeld
    <3>2. Claiming(callers[s]) => projects'[callers[s].project].live
      BY <1>4, <3>1 DEF CallHeld, ProjectHeld
    <3>3. QED  BY <1>3, <3>1, <3>2, CallKeeps
  <2>2. QED  BY <2>1 DEF CallersHeld
<1>6. callers' \in [Callers -> Running] /\ ClaimsApart'
      /\ Memo!Told("created")' = Memo!Told("created")
  BY <1>1 DEF MemInv, MemTypes, ClaimsApart, Memo!Told
<1>7. Capped'  BY <1>3, <1>6, CapKeeps
<1>8. QED  BY <1>1, <1>3, <1>4, <1>5, <1>6, <1>7, ProjectsKeep

LEMMA InsertProjectKeeps ==
    ASSUME MemInv, NEW r \in Callers, NEW u \in Users, NEW name \in Memo!ProjectNames,
           Memo!InsertProject(r, u, name)
    PROVE  MemInv'
<1>1. CASE UNCHANGED <<projects, callers>>
  <2>1. callers[r] = Memo!Idle /\ UNCHANGED <<projects, memories>>  BY <1>1 DEF Memo!InsertProject
  <2>2. Memo!Turn(r, callers[r])  BY <1>1 DEF MemInv, MemTypes, Memo!Turn
  <2>3. callers[r] \in Running /\ CallHeld(callers[r], projects, memories)
    BY DEF MemInv, MemTypes, CallersHeld
  <2>4. callers[r].pc # "done"  BY <2>1 DEF Memo!Idle
  <2>5. QED  BY <2>1, <2>2, <2>3, <2>4, CallerKeeps
<1>2. CASE /\ projects' = Append(projects, Memo!Project(u, name))
           /\ Memo!Turn(r, [pc |-> "count", user |-> u, project |-> Len(projects) + 1])
  BY <1>2, NewProjectKeeps DEF Memo!InsertProject
<1>3. QED  BY <1>1, <1>2 DEF Memo!InsertProject

\* A call is told of a project only when the listing is within the cap.
LEMMA CountKeeps == ASSUME MemInv, NEW r \in Callers, Memo!CountProjects(r)  PROVE MemInv'
<1> DEFINE q == callers[r]
<1>1. /\ q \in [pc : {"save", "search", "list", "count", "remove"}, user : Users, project : Nat]
      /\ q.pc = "count" /\ UNCHANGED <<projects, memories>> /\ ProjectHeld(q, projects)
  BY DEF Memo!CountProjects, MemInv, MemTypes, CallersHeld, CallHeld, Running
<1>2. q.user \in Users /\ q.project \in Nat /\ Claiming(q)  BY <1>1 DEF Claiming
<1>3. CASE Cardinality(Memo!Listing(q.user)) > Cap
  <2> DEFINE d == [q EXCEPT !.pc = "remove"]
  <2>1. d \in [pc : {"save", "search", "list", "count", "remove"}, user : Users, project : Nat]
        /\ d.pc = "remove" /\ d.user = q.user /\ d.project = q.project
    BY <1>1
  <2>2. Memo!Turn(r, d)  BY <1>3, SameCount DEF Memo!CountProjects
  <2> HIDE DEF d
  <2>3. d \in Running  BY <2>1 DEF Running
  <2>4. CallHeld(d, projects, memories)
    BY <1>1, <1>2, <2>1 DEF CallHeld, BatchHeld, ProjectHeld, AnswerHeld, Claiming
  <2>5. d.pc # "done"  BY <2>1
  <2>6. QED  BY <1>1, <1>2, <2>1, <2>2, <2>3, <2>4, <2>5, CallerKeeps
<1>4. CASE ~(Cardinality(Memo!Listing(q.user)) > Cap)
  <2> DEFINE d == [pc |-> "done", user |-> q.user, answer |-> "created", project |-> q.project]
  <2>1. d \in Running /\ d.user = q.user /\ d.project = q.project  BY <1>2 DEF Running, Answers
  <2>2. Memo!Turn(r, d)  BY <1>4, SameCount DEF Memo!CountProjects, Memo!Ended
  <2>3. CallHeld(d, projects, memories)
    BY <1>1, <1>2 DEF CallHeld, BatchHeld, ProjectHeld, AnswerHeld, Claiming
  <2> HIDE DEF d
  <2>4. Cardinality(Memo!Listing(q.user)) <= Cap
    <3>1. Cardinality(Memo!Listing(q.user)) \in Nat  BY ListingFinite DEF MemInv
    <3>2. QED  BY <1>4, <3>1, TalkAssumption
  <2>5. QED  BY <1>1, <1>2, <2>1, <2>2, <2>3, <2>4, CallerKeeps
<1>5. QED  BY <1>3, <1>4

\* The project that is removed is told of by no other call, and nothing is filed in it.
LEMMA RemoveKeeps == ASSUME MemInv, NEW r \in Callers, Memo!RemoveProject(r)  PROVE MemInv'
<1> DEFINE q == callers[r]
           p == q.project
<1>1. /\ q \in [pc : {"save", "search", "list", "count", "remove"}, user : Users, project : Nat]
      /\ q.pc = "remove" /\ UNCHANGED memories /\ ProjectHeld(q, projects)
  BY DEF Memo!RemoveProject, MemInv, MemTypes, CallersHeld, CallHeld, Running
<1>2. /\ q.user \in Users /\ p \in Nat /\ Claiming(q)
      /\ p \in DOMAIN projects /\ projects[p].live /\ projects[p].owner = q.user
  BY <1>1 DEF Claiming, ProjectHeld
<1>3. CASE \E m \in Memo!Memories : memories[m].project = p
  <2> DEFINE d == [pc |-> "done", user |-> q.user, answer |-> "failed", project |-> p]
  <2>1. d \in Running /\ ~Claiming(d) /\ d.answer = "failed"
    BY <1>2 DEF Running, Answers, Claiming
  <2>2. Memo!Turn(r, d) /\ UNCHANGED projects  BY <1>3 DEF Memo!RemoveProject, Memo!Ended
  <2>3. CallHeld(d, projects, memories)
    BY DEF CallHeld, BatchHeld, ProjectHeld, AnswerHeld, Claiming
  <2> HIDE DEF d
  <2>4. QED  BY <1>1, <2>1, <2>2, <2>3, CallerKeeps
<1>4. CASE ~(\E m \in Memo!Memories : memories[m].project = p)
  <2> DEFINE d == [pc |-> "done", user |-> q.user, answer |-> "limit", project |-> p]
             row == [projects[p] EXCEPT !.live = FALSE]
  <2>1. projects' = [projects EXCEPT ![p] = row] /\ callers' = [callers EXCEPT ![r] = d]
    BY <1>4 DEF Memo!RemoveProject, Memo!Ended, Memo!Turn
  <2>2. row \in ProjectRows /\ row.owner = projects[p].owner /\ ~row.live
    <3>1. projects[p] \in ProjectRows  BY <1>2, ElementOfSeq DEF MemInv, MemTypes
    <3>2. QED  BY <3>1 DEF ProjectRows
  <2>3. d \in Running /\ ~Claiming(d) /\ d.answer = "limit" /\ d.project = p /\ d.pc = "done"
    BY <1>2 DEF Running, Answers, Claiming
  <2> HIDE DEF d, row
  <2>4. /\ projects' \in Seq(ProjectRows) /\ DOMAIN projects' = DOMAIN projects
        /\ projects'[p] = row /\ \A k \in DOMAIN projects \ {p} : projects'[k] = projects[k]
        /\ Grown(projects, memories, projects', memories')
        /\ \A x : Memo!Listing(x)' \subseteq Memo!Listing(x)
    BY <1>1, <1>2, <2>1, <2>2, EditedProject
  <2>5. CallHeld(d, projects', memories')
    BY <1>2, <2>2, <2>3, <2>4 DEF CallHeld, BatchHeld, ProjectHeld, AnswerHeld
  <2>6. \A s \in Callers \ {r} : Claiming(callers[s]) => projects'[callers[s].project].live
    <3> SUFFICES ASSUME NEW s \in Callers \ {r}, Claiming(callers[s])
        PROVE  projects'[callers[s].project].live
      OBVIOUS
    <3>1. callers[s].project # p  BY <1>2 DEF MemInv, ClaimsApart
    <3>2. callers[s].project \in DOMAIN projects /\ projects[callers[s].project].live
      BY DEF MemInv, CallersHeld, CallHeld, ProjectHeld
    <3>3. QED  BY <2>4, <3>1, <3>2
  <2>7. /\ callers' \in [Callers -> Running] /\ CallersHeld'
        /\ callers'[r] = d /\ \A s \in Callers \ {r} : callers'[s] = callers[s]
    BY <2>1, <2>3, <2>4, <2>5, <2>6, OthersKeep
  <2>8. ClaimsApart'  BY <2>3, <2>7 DEF MemInv, ClaimsApart
  <2>9. Capped'
    <3>1. Memo!Told("created")' \subseteq Memo!Told("created")  BY <2>3, <2>7 DEF Memo!Told
    <3>2. QED  BY <2>4, <3>1, CapKeeps
  <2>10. \A k \in DOMAIN projects : projects[k].live /\ ~projects'[k].live =>
             \A m \in Memo!Memories : memories[m].project # k
    BY <1>4, <2>4
  <2>11. QED  BY <1>1, <2>4, <2>7, <2>8, <2>9, <2>10, ProjectsKeep
<1>5. QED  BY <1>3, <1>4

\* Calls that are cut off leave their rows behind and claim nothing.
LEMMA StopKeeps == ASSUME MemInv, Memo!Stop  PROVE MemInv'
<1>1. \A r \in Callers : callers'[r] = callers[r] \/ callers'[r] = Memo!Idle  BY DEF Memo!Stop
<1>2. callers' \in [Callers -> Running] /\ UNCHANGED <<projects, memories>>
  <2>1. Memo!Idle \in Running  BY DEF Running, Memo!Idle
  <2>2. QED  BY <2>1 DEF MemInv, MemTypes, Memo!Stop
<1>3. CallersHeld'
  <2>1. CallHeld(Memo!Idle, projects, memories)
    BY DEF Memo!Idle, CallHeld, BatchHeld, ProjectHeld, AnswerHeld, Claiming
  <2>2. QED  BY <1>1, <1>2, <2>1 DEF MemInv, CallersHeld
<1>4. ~Claiming(Memo!Idle) /\ Memo!Idle.pc # "done"  BY DEF Claiming, Memo!Idle
<1>5. ClaimsApart'  BY <1>1, <1>4 DEF MemInv, ClaimsApart
<1>6. Capped'
  <2>1. Memo!Told("created")' \subseteq Memo!Told("created")  BY <1>1, <1>4 DEF Memo!Told
  <2>2. \A x : Memo!Listing(x)' = Memo!Listing(x)  BY <1>2 DEF Memo!Listing, Memo!Projects
  <2>3. QED  BY <2>1, <2>2, CapKeeps
<1>7. MemTypes' /\ SaidInChat' /\ Memo!RepeatsOnlyOverlapping' /\ Memo!AskedIsNotGuessed'
      /\ Memo!FiledUnderOwn'
  BY <1>2 DEF MemInv, MemTypes, SaidInChat, Memo!RepeatsOnlyOverlapping, Memo!AskedIsNotGuessed,
         Memo!FiledUnderOwn, Memo!Memories, Memo!Projects
<1>8. QED  BY <1>3, <1>5, <1>6, <1>7 DEF MemInv

LEMMA MemStutter == ASSUME MemInv, UNCHANGED Memo!memoryVars  PROVE MemInv'
<1>1. UNCHANGED <<projects, memories, callers>>  BY DEF Memo!memoryVars
<1>2. MemTypes' /\ CallersHeld' /\ ClaimsApart' /\ SaidInChat'
  BY <1>1 DEF MemInv, MemTypes, CallersHeld, ClaimsApart, SaidInChat
<1>3. Capped' /\ Memo!FiledUnderOwn'
  BY <1>1
     DEF MemInv, Capped, Memo!Told, Memo!Listing, Memo!Projects, Memo!FiledUnderOwn, Memo!Memories
<1>4. Memo!RepeatsOnlyOverlapping' /\ Memo!AskedIsNotGuessed'
  BY <1>1 DEF MemInv, Memo!RepeatsOnlyOverlapping, Memo!AskedIsNotGuessed
<1>5. QED  BY <1>2, <1>3, <1>4 DEF MemInv

LEMMA MemStep == MemInv /\ Memo!MemoryNext => MemInv'
<1> SUFFICES ASSUME MemInv, Memo!MemoryNext PROVE MemInv'  OBVIOUS
<1>1. ASSUME NEW r \in Callers, NEW u \in Users, NEW said \in Spoken, NEW explicit \in BOOLEAN,
             Memo!LookUp(r, u, said, explicit)
      PROVE  MemInv'
  BY <1>1, LookUpKeeps
<1>2. ASSUME NEW r \in Callers, NEW u \in Users, Memo!ToolCall(r, u)  PROVE MemInv'
  <2>1. ASSUME NEW name, NEW next \in {"save", "search", "list"},
               Memo!Begin(r, u, next, name)  PROVE MemInv'
    BY <2>1, BeginKeeps
  <2>2. ASSUME NEW name \in Memo!ProjectNames, Memo!InsertProject(r, u, name)  PROVE MemInv'
    BY <2>2, InsertProjectKeeps
  <2>3. QED
    BY <1>2, <2>1, <2>2
       DEF Memo!ToolCall, Memo!McpSave, Memo!WebchatSave, Memo!McpSearch, Memo!WebchatSearch,
                                    Memo!McpList, Memo!WebchatList, Memo!McpCreate,
                                    Memo!WebchatCreate
<1>3. ASSUME NEW r \in Callers,
             \/ Memo!InsertBatch(r) \/ Memo!ListForUser(r) \/ Memo!Answered(r)
             \/ Memo!CountProjects(r) \/ Memo!RemoveProject(r)
             \/ \E words \in Memo!Texts : Memo!SaveMemory(r, words) \/ Memo!Retrieve(r, words)
      PROVE  MemInv'
  BY <1>3, InsertBatchKeeps, ReadKeeps, AnsweredKeeps, CountKeeps, RemoveKeeps, SaveKeeps
<1>4. ASSUME NEW u \in Users,
             \/ \E words \in Memo!Texts : Memo!CreateMemory(u, words)
             \/ \E m \in Memo!Memories : Memo!DeleteMemory(u, m)
      PROVE  MemInv'
  BY <1>4, CreateMemoryKeeps, DeleteKeeps
<1>5. ASSUME NEW u \in Users, NEW name \in Memo!ProjectNames,
             Memo!DashboardProject(u, name)  PROVE MemInv'
  BY <1>5, NewProjectKeeps DEF Memo!DashboardProject
<1>6. QED  BY <1>1, <1>2, <1>3, <1>4, <1>5, EditKeeps, StopKeeps DEF Memo!MemoryNext

LEMMA MemoriesAreSafe == MemInv => Memo!MemorySafe
<1> SUFFICES ASSUME MemInv PROVE Memo!MemorySafe  OBVIOUS
<1>1. Memo!CapKept
  <2>1. Memo!Told("created") \subseteq Memo!Projects
    BY DEF MemInv, CallersHeld, CallHeld, ProjectHeld, Claiming, Memo!Told, Memo!Projects
  <2>2. Memo!Told("limit") \cap Memo!Projects = {}
    BY DEF MemInv, CallersHeld, CallHeld, ProjectHeld, Memo!Told, Memo!Projects
  <2>3. QED  BY <2>1, <2>2, SameCount DEF MemInv, Capped, Memo!CapKept
<1>2. Memo!AnswersAreOwn  BY DEF MemInv, CallersHeld, CallHeld, AnswerHeld, Memo!AnswersAreOwn
<1>3. QED  BY <1>1, <1>2 DEF MemInv, Memo!MemorySafe
-----------------------------------------------------------------------------
(* Streamed answers (Streams.tla).                                         *)

AllIds == Stream!Given \cup {Stream!NoId} \cup {Stream!Made(n) : n \in Nat}
AllNames == Names \cup {Stream!NoName}
Chunks == [kind : {"text", "finish"}] \cup [kind : {"call"}, of : Stream!Fragments]
Frames ==
    [type : {"start"}, block : Nat, kind : {"text", "call"}, id : AllIds, name : AllNames]
    \cup [type : {"delta"}, block : Nat, piece : Nat]
    \cup [type : {"stop"}, block : Nat]
    \cup [type : {"stop"}, block : Nat, id : AllIds, name : AllNames, args : Seq(Nat)]
    \cup [type : {"chunk"}, of : Stream!Fragments, piece : Nat]
    \cup [type : {"end"}, reason : {"tool_use", "stop", "length", "completed"}, output : Seq(Nat)]
    \cup [type : {"error"}]
CallRows == [block : Nat, index : Indices, name : AllNames, id : AllIds, args : Seq(Nat)]
Texts == [block : Nat, pieces : Seq(Nat)]

StreamTypes ==
    /\ wire \in {"responses", "anthropic", "chat"}
    /\ phase \in {"open", "failed", "ended", "gone", "over"}
    /\ chunks \in Seq(Chunks) /\ frames \in Seq(Frames)
    /\ calls \in Seq(CallRows) /\ text \in Texts
    /\ latest \in [Indices -> Nat] /\ finish \in {"stop", "length"} /\ completions \in Nat

Holds(s, x) == \E i \in DOMAIN s : s[i] = x
-----------------------------------------------------------------------------
(* What the frames fr say of the text tx and the calls cl, after n chunks. *)
Starts(fr) == {i \in DOMAIN fr : fr[i].type = "start"}
Deltas(fr) == {i \in DOMAIN fr : fr[i].type = "delta"}
Count(tx, cl) == Len(cl) + (IF tx.block = 0 THEN 0 ELSE 1)

BlocksHeld(tx, cl) ==
    /\ tx.block <= Count(tx, cl)
    /\ \A k \in DOMAIN cl : cl[k].block \in 1 .. Count(tx, cl) /\ cl[k].block # tx.block
    /\ \A k, l \in DOMAIN cl : k < l => cl[k].block < cl[l].block
    /\ \A b \in 1 .. Count(tx, cl) : b = tx.block \/ \E k \in DOMAIN cl : cl[k].block = b
StartsHeld(fr, tx, cl) ==
    /\ \A i \in Starts(fr) :
          /\ fr[i].block \in 1 .. Count(tx, cl)
          /\ fr[i].kind = "text" => fr[i].block = tx.block
          /\ fr[i].kind # "text" => \E k \in DOMAIN cl : /\ cl[k].block = fr[i].block
                                                        /\ cl[k].id = fr[i].id
                                                        /\ fr[i].kind = "call"
    /\ \A i, j \in Starts(fr) : i < j => fr[i].block < fr[j].block
    /\ \A b \in 1 .. Count(tx, cl) : \E i \in Starts(fr) : fr[i].block = b
    /\ IsFiniteSet(Starts(fr)) /\ Cardinality(Starts(fr)) = Count(tx, cl)
PiecesHeld(fr, tx, cl, n) ==
    /\ \A i \in Deltas(fr) : /\ fr[i].piece \in 1 .. n
                             /\ \E j \in Starts(fr) : j < i /\ fr[j].block = fr[i].block
    /\ \A i, j \in Deltas(fr) : i < j => fr[i].piece < fr[j].piece
    /\ Growing(tx.pieces) /\ \A k \in DOMAIN cl : Growing(cl[k].args)
    /\ \A p \in DOMAIN tx.pieces :
          \E i \in Deltas(fr) : fr[i].block = tx.block /\ fr[i].piece = tx.pieces[p]
    /\ \A k \in DOMAIN cl : \A p \in DOMAIN cl[k].args :
          \E i \in Deltas(fr) : fr[i].block = cl[k].block /\ fr[i].piece = cl[k].args[p]
    /\ \A i \in Deltas(fr) : fr[i].block = tx.block => Holds(tx.pieces, fr[i].piece)
    /\ \A i \in Deltas(fr), k \in DOMAIN cl :
          fr[i].block = cl[k].block => Holds(cl[k].args, fr[i].piece)
Held(fr, tx, cl, n) ==
    /\ fr \in Seq(Frames) /\ tx \in Texts /\ cl \in Seq(CallRows) /\ n \in Nat
    /\ BlocksHeld(tx, cl) /\ StartsHeld(fr, tx, cl) /\ PiecesHeld(fr, tx, cl, n)

\* One frame more.
LEMMA OneMore ==
    ASSUME NEW fr \in Seq(Frames), NEW f \in Frames
    PROVE  /\ Append(fr, f) \in Seq(Frames) /\ Len(fr) \in Nat /\ DOMAIN fr = 1 .. Len(fr)
           /\ DOMAIN Append(fr, f) = DOMAIN fr \cup {Len(fr) + 1}
           /\ Append(fr, f)[Len(fr) + 1] = f /\ Len(fr) + 1 \notin DOMAIN fr
           /\ \A i \in DOMAIN fr : Append(fr, f)[i] = fr[i] /\ i <= Len(fr) /\ i \in Nat
           /\ f.type = "start" => /\ Starts(Append(fr, f)) = Starts(fr) \cup {Len(fr) + 1}
                                  /\ Deltas(Append(fr, f)) = Deltas(fr)
           /\ f.type = "delta" => /\ Starts(Append(fr, f)) = Starts(fr)
                                  /\ Deltas(Append(fr, f)) = Deltas(fr) \cup {Len(fr) + 1}
<1>1. /\ Append(fr, f) \in Seq(Frames) /\ Len(fr) \in Nat /\ DOMAIN fr = 1 .. Len(fr)
      /\ DOMAIN Append(fr, f) = DOMAIN fr \cup {Len(fr) + 1}
      /\ Append(fr, f)[Len(fr) + 1] = f /\ Len(fr) + 1 \notin DOMAIN fr
      /\ \A i \in DOMAIN fr : Append(fr, f)[i] = fr[i] /\ i <= Len(fr) /\ i \in Nat
  OBVIOUS
<1>2. QED  BY <1>1 DEF Starts, Deltas

\* What is known of a frame by its type.
LEMMA FrameFacts ==
    ASSUME NEW fr \in Seq(Frames), NEW i \in DOMAIN fr
    PROVE  /\ fr[i].type = "start" => fr[i].block \in Nat /\ fr[i].kind \in {"text", "call"}
           /\ fr[i].type = "delta" => fr[i].block \in Nat /\ fr[i].piece \in Nat
<1>1. fr[i] \in Frames  BY ElementOfSeq
<1>2. QED  BY <1>1 DEF Frames

LEMMA RowFacts ==
    ASSUME NEW cl \in Seq(CallRows), NEW k \in DOMAIN cl
    PROVE  cl[k].block \in Nat /\ cl[k].args \in Seq(Nat)
<1>1. cl[k] \in CallRows  BY ElementOfSeq
<1>2. QED  BY <1>1 DEF CallRows

\* A chunk that brings nothing for a block.
LEMMA HeldLater == ASSUME NEW fr, NEW tx, NEW cl, NEW n \in Nat, Held(fr, tx, cl, n)
                   PROVE  Held(fr, tx, cl, n + 1)
<1>1. PiecesHeld(fr, tx, cl, n + 1)
  <2>1. PiecesHeld(fr, tx, cl, n)  BY DEF Held
  <2>2. \A i \in Deltas(fr) : fr[i].piece \in 1 .. n + 1  BY <2>1 DEF PiecesHeld
  <2>3. QED  BY <2>1, <2>2 DEF PiecesHeld
<1>2. QED  BY <1>1 DEF Held

\* The calls in another form (a name filled in) are the same blocks.
LEMMA HeldSame ==
    ASSUME NEW fr, NEW tx, NEW cl, NEW cm \in Seq(CallRows), NEW n, Held(fr, tx, cl, n),
           Len(cm) = Len(cl),
           \A k \in DOMAIN cl : cm[k].block = cl[k].block /\ cm[k].id = cl[k].id
                                /\ cm[k].args = cl[k].args
    PROVE  Held(fr, tx, cm, n)
<1>1. DOMAIN cm = DOMAIN cl /\ Count(tx, cm) = Count(tx, cl)  BY DEF Held, Count
<1>2. BlocksHeld(tx, cm)
  <2>1. BlocksHeld(tx, cl) /\ \A k \in DOMAIN cl : cm[k].block = cl[k].block  BY DEF Held
  <2>2. QED  BY ONLY <1>1, <2>1 DEF BlocksHeld
<1>3. StartsHeld(fr, tx, cm)  BY <1>1 DEF Held, StartsHeld
<1>4. PiecesHeld(fr, tx, cm, n)
  <2>1. PiecesHeld(fr, tx, cl, n)  BY DEF Held
  <2>2. /\ \A k \in DOMAIN cm : Growing(cm[k].args)
        /\ \A i \in Deltas(fr), k \in DOMAIN cm :
              fr[i].block = cm[k].block => Holds(cm[k].args, fr[i].piece)
    BY <1>1, <2>1 DEF PiecesHeld
  <2>3. ASSUME NEW k \in DOMAIN cm, NEW p \in DOMAIN cm[k].args
        PROVE  \E i \in Deltas(fr) : fr[i].block = cm[k].block /\ fr[i].piece = cm[k].args[p]
    <3>1. k \in DOMAIN cl /\ p \in DOMAIN cl[k].args  BY <1>1
    <3>2. PICK i \in Deltas(fr) : fr[i].block = cl[k].block /\ fr[i].piece = cl[k].args[p]
      BY <2>1, <3>1 DEF PiecesHeld
    <3>3. QED  BY <3>1, <3>2
  <2>4. QED  BY <2>1, <2>2, <2>3 DEF PiecesHeld
<1>5. QED  BY <1>2, <1>3, <1>4 DEF Held

\* A block's first frame: of a call ...
LEMMA CallOpens ==
    ASSUME NEW fr, NEW tx, NEW cl, NEW n, Held(fr, tx, cl, n), NEW c \in CallRows,
           c.block = Count(tx, cl) + 1, c.args = <<>>, NEW f \in Frames,
           f.type = "start", f.block = c.block, f.kind = "call", f.id = c.id
    PROVE  Held(Append(fr, f), tx, Append(cl, c), n)
<1> DEFINE gr == Append(fr, f)  cm == Append(cl, c)  l == Len(cl) + 1
<1>1. /\ gr \in Seq(Frames) /\ Len(fr) \in Nat /\ DOMAIN fr = 1 .. Len(fr)
      /\ gr[Len(fr) + 1] = f /\ Len(fr) + 1 \notin DOMAIN fr
      /\ \A i \in DOMAIN fr : gr[i] = fr[i] /\ i <= Len(fr) /\ i \in Nat
      /\ Starts(gr) = Starts(fr) \cup {Len(fr) + 1} /\ Deltas(gr) = Deltas(fr)
      /\ Starts(fr) \subseteq DOMAIN fr /\ Deltas(fr) \subseteq DOMAIN fr
  <2>1. fr \in Seq(Frames)  BY DEF Held
  <2>2. Starts(fr) \subseteq DOMAIN fr /\ Deltas(fr) \subseteq DOMAIN fr  BY DEF Starts, Deltas
  <2>3. Starts(gr) = Starts(fr) \cup {Len(fr) + 1} /\ Deltas(gr) = Deltas(fr)
    BY <2>1, OneMore
  <2>4. /\ gr \in Seq(Frames) /\ Len(fr) \in Nat /\ DOMAIN fr = 1 .. Len(fr)
        /\ gr[Len(fr) + 1] = f /\ Len(fr) + 1 \notin DOMAIN fr
        /\ \A i \in DOMAIN fr : gr[i] = fr[i] /\ i <= Len(fr) /\ i \in Nat
    BY <2>1, OneMore
  <2>5. QED  BY <2>2, <2>3, <2>4
<1>2. /\ cm \in Seq(CallRows) /\ DOMAIN cm = DOMAIN cl \cup {l} /\ cm[l] = c
      /\ l \notin DOMAIN cl /\ Len(cl) \in Nat /\ Len(cm) = l
      /\ \A k \in DOMAIN cl : cm[k] = cl[k] /\ k < l /\ k \in Nat
  <2>1. cl \in Seq(CallRows)  BY DEF Held
  <2>2. QED  BY <2>1
<1>3. tx.block \in Nat /\ Count(tx, cl) \in Nat /\ Count(tx, cm) = Count(tx, cl) + 1
  BY <1>2 DEF Held, Texts, Count
<1> HIDE DEF gr, cm, l
<1>4. BlocksHeld(tx, cm)
  <2>1. BlocksHeld(tx, cl)  BY DEF Held
  <2>2. \A b \in 1 .. Count(tx, cm) : b \in 1 .. Count(tx, cl) \/ b = c.block  BY <1>3
  <2>3. \A k \in DOMAIN cl : cl[k].block < c.block  BY <1>3, <2>1 DEF BlocksHeld
  <2>4. tx.block <= Count(tx, cm) /\ \A k, m \in DOMAIN cm : k < m => cm[k].block < cm[m].block
    BY <1>2, <1>3, <2>1, <2>3 DEF BlocksHeld
  <2>5. \A k \in DOMAIN cm : cm[k].block \in 1 .. Count(tx, cm) /\ cm[k].block # tx.block
    BY <1>2, <1>3, <2>1 DEF BlocksHeld
  <2>6. \A b \in 1 .. Count(tx, cm) : b = tx.block \/ \E k \in DOMAIN cm : cm[k].block = b
    BY <1>2, <2>1, <2>2 DEF BlocksHeld
  <2>7. QED  BY <2>4, <2>5, <2>6 DEF BlocksHeld
<1>5. StartsHeld(gr, tx, cm)
  <2>1. StartsHeld(fr, tx, cl)  BY DEF Held
  <2>2. \A b \in 1 .. Count(tx, cm) : b \in 1 .. Count(tx, cl) \/ b = c.block  BY <1>3
  <2>3. IsFiniteSet(Starts(gr)) /\ Cardinality(Starts(gr)) = Count(tx, cm)
    <3>1. Len(fr) + 1 \notin Starts(fr)  BY <1>1
    <3>2. IsFiniteSet(Starts(fr)) /\ Cardinality(Starts(fr)) = Count(tx, cl)
      BY <2>1 DEF StartsHeld
    <3>3. /\ IsFiniteSet(Starts(fr) \cup {Len(fr) + 1})
          /\ Cardinality(Starts(fr) \cup {Len(fr) + 1}) = Count(tx, cl) + 1
      BY <3>1, <3>2, FS_AddElement
    <3>4. QED  BY <1>1, <1>3, <3>3
  <2>4. \A b \in 1 .. Count(tx, cm) : \E i \in Starts(gr) : gr[i].block = b
    BY <1>1, <2>1, <2>2 DEF StartsHeld
  <2>5. \A i, j \in Starts(gr) : i < j => gr[i].block < gr[j].block
    <3>1. \A i \in Starts(fr) : fr[i].block < c.block  BY <1>3, <2>1 DEF StartsHeld
    <3>2. QED  BY <1>1, <2>1, <3>1 DEF StartsHeld
  <2>6. ASSUME NEW i \in Starts(gr)
        PROVE  /\ gr[i].block \in 1 .. Count(tx, cm)
               /\ gr[i].kind = "text" => gr[i].block = tx.block
               /\ gr[i].kind # "text" => \E k \in DOMAIN cm : /\ cm[k].block = gr[i].block
                                                        /\ cm[k].id = gr[i].id
                                                        /\ gr[i].kind = "call"
    <3>1. CASE i = Len(fr) + 1  BY SMTT(30), <1>1, <1>2, <1>3, <3>1
    <3>2. CASE i # Len(fr) + 1
      <4>1. i \in Starts(fr) /\ gr[i] = fr[i]  BY <1>1, <3>2
      <4>2. fr[i].block \in 1 .. Count(tx, cm)  BY <1>3, <2>1, <4>1 DEF StartsHeld
      <4>3. fr[i].kind # "text" => \E k \in DOMAIN cl : /\ cl[k].block = fr[i].block
                                                         /\ cl[k].id = fr[i].id
                                                         /\ fr[i].kind = "call"
        BY <2>1, <4>1 DEF StartsHeld
      <4>4. QED  BY <1>2, <2>1, <4>1, <4>2, <4>3 DEF StartsHeld
    <3>3. QED  BY <3>1, <3>2
  <2>7. QED  BY <2>3, <2>4, <2>5, <2>6 DEF StartsHeld
<1>6. PiecesHeld(gr, tx, cm, n)
  <2>1. PiecesHeld(fr, tx, cl, n)  BY DEF Held
  <2>2. \A i \in Deltas(fr) : fr[i].block # c.block
    <3>1. \A j \in Starts(fr) : fr[j].block \in 1 .. Count(tx, cl)  BY DEF Held, StartsHeld
    <3>2. QED  BY <1>3, <2>1, <3>1 DEF PiecesHeld
  <2>3. Growing(c.args) /\ DOMAIN c.args = {}  BY DEF Growing
  <2>4. \A k \in DOMAIN cm : Growing(cm[k].args)  BY <1>2, <2>1, <2>3 DEF PiecesHeld
  <2>5. \A i \in Deltas(gr) : /\ gr[i].piece \in 1 .. n
                              /\ \E j \in Starts(gr) : j < i /\ gr[j].block = gr[i].block
    BY <1>1, <2>1 DEF PiecesHeld
  <2>6. \A k \in DOMAIN cm : \A p \in DOMAIN cm[k].args :
          \E i \in Deltas(gr) : gr[i].block = cm[k].block /\ gr[i].piece = cm[k].args[p]
    <3>1. ASSUME NEW k \in DOMAIN cl, NEW p \in DOMAIN cl[k].args
          PROVE  \E i \in Deltas(gr) : gr[i].block = cl[k].block /\ gr[i].piece = cl[k].args[p]
      <4>1. PICK i \in Deltas(fr) : fr[i].block = cl[k].block /\ fr[i].piece = cl[k].args[p]
        BY <2>1, <3>1 DEF PiecesHeld
      <4>2. QED  BY <1>1, <4>1
    <3>2. QED  BY <1>2, <2>3, <3>1
  <2>7. \A i \in Deltas(gr), k \in DOMAIN cm :
          gr[i].block = cm[k].block => Holds(cm[k].args, gr[i].piece)
    BY ZenonT(30), <1>1, <1>2, <2>1, <2>2 DEF PiecesHeld
  <2>8. /\ \A i, j \in Deltas(gr) : i < j => gr[i].piece < gr[j].piece
        /\ Growing(tx.pieces)
        /\ \A p \in DOMAIN tx.pieces :
              \E i \in Deltas(gr) : gr[i].block = tx.block /\ gr[i].piece = tx.pieces[p]
        /\ \A i \in Deltas(gr) : gr[i].block = tx.block => Holds(tx.pieces, gr[i].piece)
    BY <1>1, <2>1 DEF PiecesHeld
  <2>9. QED  BY <2>4, <2>5, <2>6, <2>7, <2>8 DEF PiecesHeld
<1>7. QED  BY <1>1, <1>2, <1>4, <1>5, <1>6 DEF Held, gr, cm

\* ... and of the text.
LEMMA TextOpens ==
    ASSUME NEW fr, NEW tx, NEW cl, NEW n, Held(fr, tx, cl, n), tx.block = 0, NEW f \in Frames,
           f.type = "start", f.block = Count(tx, cl) + 1, f.kind = "text"
    PROVE  Held(Append(fr, f), [block |-> f.block, pieces |-> tx.pieces], cl, n)
           /\ tx.pieces = <<>>
<1> DEFINE gr == Append(fr, f)  ty == [block |-> f.block, pieces |-> tx.pieces]
<1>1. /\ gr \in Seq(Frames) /\ Len(fr) \in Nat /\ DOMAIN fr = 1 .. Len(fr)
      /\ gr[Len(fr) + 1] = f /\ Len(fr) + 1 \notin DOMAIN fr
      /\ \A i \in DOMAIN fr : gr[i] = fr[i] /\ i <= Len(fr) /\ i \in Nat
      /\ Starts(gr) = Starts(fr) \cup {Len(fr) + 1} /\ Deltas(gr) = Deltas(fr)
      /\ Starts(fr) \subseteq DOMAIN fr /\ Deltas(fr) \subseteq DOMAIN fr
  <2>1. fr \in Seq(Frames)  BY DEF Held
  <2>2. Starts(fr) \subseteq DOMAIN fr /\ Deltas(fr) \subseteq DOMAIN fr  BY DEF Starts, Deltas
  <2>3. Starts(gr) = Starts(fr) \cup {Len(fr) + 1} /\ Deltas(gr) = Deltas(fr)
    BY <2>1, OneMore
  <2>4. /\ gr \in Seq(Frames) /\ Len(fr) \in Nat /\ DOMAIN fr = 1 .. Len(fr)
        /\ gr[Len(fr) + 1] = f /\ Len(fr) + 1 \notin DOMAIN fr
        /\ \A i \in DOMAIN fr : gr[i] = fr[i] /\ i <= Len(fr) /\ i \in Nat
    BY <2>1, OneMore
  <2>5. QED  BY <2>2, <2>3, <2>4
<1>2. cl \in Seq(CallRows) /\ Len(cl) \in Nat /\ tx.pieces \in Seq(Nat)  BY DEF Held, Texts
<1>3. /\ Count(tx, cl) = Len(cl) /\ f.block = Len(cl) + 1 /\ Count(ty, cl) = Len(cl) + 1
      /\ ty \in Texts /\ ty.block = Len(cl) + 1 /\ ty.pieces = tx.pieces
  BY <1>2 DEF Texts, Count
<1>4. \A i \in Starts(fr) : fr[i].block \in 1 .. Len(cl)  BY <1>3 DEF Held, StartsHeld
<1>5. \A i \in Deltas(fr) : fr[i].block \in 1 .. Len(cl)  BY <1>4 DEF Held, PiecesHeld
<1>6. tx.pieces = <<>>
  <2>1. \A i \in Deltas(fr) : fr[i].block # tx.block  BY <1>5
  <2>2. \A p \in DOMAIN tx.pieces : FALSE  BY <2>1 DEF Held, PiecesHeld
  <2>3. Len(tx.pieces) \in Nat /\ DOMAIN tx.pieces = 1 .. Len(tx.pieces)  BY <1>2
  <2>4. Len(tx.pieces) = 0
    <3>1. 1 \notin 1 .. Len(tx.pieces)  BY <2>2, <2>3
    <3>2. QED  BY <2>3, <3>1
  <2>5. QED  BY <1>2, <2>4
<1> HIDE DEF gr, ty
<1>7. BlocksHeld(ty, cl)
  <2>1. BlocksHeld(tx, cl)  BY DEF Held
  <2>2. \A b \in 1 .. Len(cl) + 1 : b \in 1 .. Len(cl) \/ b = Len(cl) + 1  BY <1>2
  <2>3. \A b \in 1 .. Len(cl) : b # 0  OBVIOUS
  <2>4. QED  BY <1>2, <1>3, <2>1, <2>2, <2>3 DEF BlocksHeld
<1>8. StartsHeld(gr, ty, cl)
  <2>1. StartsHeld(fr, tx, cl)  BY DEF Held
  <2>2. \A b \in 1 .. Len(cl) + 1 : b \in 1 .. Len(cl) \/ b = f.block  BY <1>2, <1>3
  <2>3. IsFiniteSet(Starts(gr)) /\ Cardinality(Starts(gr)) = Count(ty, cl)
    <3>1. Len(fr) + 1 \notin Starts(fr)  BY <1>1
    <3>2. IsFiniteSet(Starts(fr)) /\ Cardinality(Starts(fr)) = Count(tx, cl)
      BY <2>1 DEF StartsHeld
    <3>3. /\ IsFiniteSet(Starts(fr) \cup {Len(fr) + 1})
          /\ Cardinality(Starts(fr) \cup {Len(fr) + 1}) = Count(tx, cl) + 1
      BY <3>1, <3>2, FS_AddElement
    <3>4. QED  BY <1>1, <1>3, <3>3
  <2>4. \A b \in 1 .. Count(ty, cl) : \E i \in Starts(gr) : gr[i].block = b
    <3>1. \A b \in 1 .. Len(cl) : \E i \in Starts(fr) : fr[i].block = b
      BY <1>3, <2>1 DEF StartsHeld
    <3>2. QED  BY <1>1, <1>3, <2>2, <3>1
  <2>5. \A i, j \in Starts(gr) : i < j => gr[i].block < gr[j].block
    <3>1. \A i \in Starts(fr) : fr[i].block < f.block  BY <1>2, <1>3, <1>4
    <3>2. QED  BY <1>1, <2>1, <3>1 DEF StartsHeld
  <2>6. ASSUME NEW i \in Starts(gr)
        PROVE  /\ gr[i].block \in 1 .. Count(ty, cl)
               /\ gr[i].kind = "text" => gr[i].block = ty.block
               /\ gr[i].kind # "text" => \E k \in DOMAIN cl : /\ cl[k].block = gr[i].block
                                                        /\ cl[k].id = gr[i].id
                                                        /\ gr[i].kind = "call"
    <3>1. CASE i = Len(fr) + 1  BY SMTT(30), <1>1, <1>2, <1>3, <3>1
    <3>2. CASE i # Len(fr) + 1
      <4>1. i \in Starts(fr) /\ gr[i] = fr[i]  BY <1>1, <3>2
      <4>2. fr[i].block \in 1 .. Len(cl)  BY <1>4, <4>1
      <4>3. fr[i].kind # "text"  BY <2>1, <4>1, <4>2 DEF StartsHeld
      <4>4. QED  BY <1>2, <1>3, <2>1, <4>1, <4>2, <4>3 DEF StartsHeld
    <3>3. QED  BY <3>1, <3>2
  <2>7. QED  BY <2>3, <2>4, <2>5, <2>6 DEF StartsHeld
<1>9. PiecesHeld(gr, ty, cl, n)
  <2>1. PiecesHeld(fr, tx, cl, n)  BY DEF Held
  <2>2. Growing(ty.pieces) /\ DOMAIN ty.pieces = {}  BY <1>3, <1>6 DEF Growing
  <2>3. \A i \in Deltas(gr) : gr[i].block # ty.block  BY <1>1, <1>2, <1>3, <1>5
  <2>4. QED  BY SMTT(30), <1>1, <2>1, <2>2, <2>3 DEF PiecesHeld
<1>10. QED  BY <1>1, <1>2, <1>3, <1>6, <1>7, <1>8, <1>9 DEF Held, gr, ty

\* What is said in the pieces of a sequence, with the next number behind them.
LEMMA NextPiece ==
    ASSUME NEW s \in Seq(Nat), NEW n \in Nat, Growing(s), \A i \in DOMAIN s : s[i] \in 1 .. n
    PROVE  /\ Append(s, n + 1) \in Seq(Nat) /\ Growing(Append(s, n + 1))
           /\ DOMAIN Append(s, n + 1) = DOMAIN s \cup {Len(s) + 1}
           /\ Append(s, n + 1)[Len(s) + 1] = n + 1
           /\ \A i \in DOMAIN s : Append(s, n + 1)[i] = s[i]
           /\ \A x : Holds(s, x) => Holds(Append(s, n + 1), x)
           /\ Holds(Append(s, n + 1), n + 1)
<1>1. /\ Append(s, n + 1) \in Seq(Nat)
      /\ DOMAIN Append(s, n + 1) = DOMAIN s \cup {Len(s) + 1}
      /\ Append(s, n + 1)[Len(s) + 1] = n + 1
      /\ \A i \in DOMAIN s : Append(s, n + 1)[i] = s[i] /\ i < Len(s) + 1 /\ i \in Nat
      /\ Len(s) \in Nat
  OBVIOUS
<1>2. Growing(Append(s, n + 1))  BY <1>1 DEF Growing
<1>3. QED  BY <1>1, <1>2 DEF Holds

\* The first frames of the blocks stay the same.
LEMMA StartsStay ==
    ASSUME NEW fr, NEW gr, NEW tx, NEW ty, NEW cl, NEW cm, StartsHeld(fr, tx, cl),
           Starts(gr) = Starts(fr), \A i \in Starts(fr) : gr[i] = fr[i], ty.block = tx.block,
           DOMAIN cm = DOMAIN cl, Count(ty, cm) = Count(tx, cl),
           \A k \in DOMAIN cl : cm[k].block = cl[k].block /\ cm[k].id = cl[k].id
    PROVE  StartsHeld(gr, ty, cm)
<1>1. ASSUME NEW i \in Starts(gr)
      PROVE  /\ gr[i].block \in 1 .. Count(ty, cm)
             /\ gr[i].kind = "text" => gr[i].block = ty.block
             /\ gr[i].kind # "text" => \E k \in DOMAIN cm : /\ cm[k].block = gr[i].block
                                                           /\ cm[k].id = gr[i].id
                                                           /\ gr[i].kind = "call"
  <2>1. i \in Starts(fr) /\ gr[i] = fr[i]  OBVIOUS
  <2>2. fr[i].block \in 1 .. Count(tx, cl) /\ (fr[i].kind = "text" => fr[i].block = tx.block)
    BY <2>1 DEF StartsHeld
  <2>3. fr[i].kind # "text" => \E k \in DOMAIN cl : /\ cl[k].block = fr[i].block
                                                     /\ cl[k].id = fr[i].id /\ fr[i].kind = "call"
    BY <2>1 DEF StartsHeld
  <2>4. QED  BY <2>1, <2>2, <2>3
<1>2. \A i, j \in Starts(gr) : i < j => gr[i].block < gr[j].block  BY DEF StartsHeld
<1>3. ASSUME NEW b \in 1 .. Count(ty, cm) PROVE \E i \in Starts(gr) : gr[i].block = b
  <2>1. PICK i \in Starts(fr) : fr[i].block = b  BY DEF StartsHeld
  <2>2. QED  BY <2>1
<1>4. IsFiniteSet(Starts(gr)) /\ Cardinality(Starts(gr)) = Count(ty, cm)  BY DEF StartsHeld
<1>5. QED  BY <1>1, <1>2, <1>3, <1>4 DEF StartsHeld

LEMMA CallGrows ==
    ASSUME NEW fr, NEW tx, NEW cl, NEW n, Held(fr, tx, cl, n), NEW cm \in Seq(CallRows),
           NEW k \in DOMAIN cl, Len(cm) = Len(cl),
           \A l \in DOMAIN cl : /\ cm[l].block = cl[l].block /\ cm[l].id = cl[l].id
                                /\ l # k => cm[l].args = cl[l].args,
           cm[k].args = Append(cl[k].args, n + 1),
           NEW f \in Frames, f.type = "delta", f.block = cl[k].block, f.piece = n + 1
    PROVE  Held(Append(fr, f), tx, cm, n + 1)
<1> DEFINE gr == Append(fr, f)
<1>1. /\ gr \in Seq(Frames) /\ Len(fr) \in Nat /\ DOMAIN fr = 1 .. Len(fr)
      /\ gr[Len(fr) + 1] = f /\ Len(fr) + 1 \notin DOMAIN fr
      /\ \A i \in DOMAIN fr : gr[i] = fr[i] /\ i <= Len(fr) /\ i \in Nat
      /\ Starts(gr) = Starts(fr) /\ Deltas(gr) = Deltas(fr) \cup {Len(fr) + 1}
      /\ Starts(fr) \subseteq DOMAIN fr /\ Deltas(fr) \subseteq DOMAIN fr
  <2>1. fr \in Seq(Frames)  BY DEF Held
  <2>2. Starts(fr) \subseteq DOMAIN fr /\ Deltas(fr) \subseteq DOMAIN fr  BY DEF Starts, Deltas
  <2>3. Starts(gr) = Starts(fr) /\ Deltas(gr) = Deltas(fr) \cup {Len(fr) + 1}
    BY <2>1, OneMore
  <2>4. /\ gr \in Seq(Frames) /\ Len(fr) \in Nat /\ DOMAIN fr = 1 .. Len(fr)
        /\ gr[Len(fr) + 1] = f /\ Len(fr) + 1 \notin DOMAIN fr
        /\ \A i \in DOMAIN fr : gr[i] = fr[i] /\ i <= Len(fr) /\ i \in Nat
    BY <2>1, OneMore
  <2>5. QED  BY <2>2, <2>3, <2>4
<1> HIDE DEF gr
<1>2. /\ DOMAIN cm = DOMAIN cl /\ Count(tx, cm) = Count(tx, cl) /\ n \in Nat
      /\ cl \in Seq(CallRows) /\ PiecesHeld(fr, tx, cl, n)
  BY DEF Held, Count
<1>3. cl[k].args \in Seq(Nat)  BY <1>2, RowFacts
<1>4. Growing(cl[k].args) /\ \A p \in DOMAIN cl[k].args : cl[k].args[p] \in 1 .. n
  <2>1. Growing(cl[k].args)  BY <1>2 DEF PiecesHeld
  <2>2. ASSUME NEW p \in DOMAIN cl[k].args PROVE cl[k].args[p] \in 1 .. n
    <3>1. PICK i \in Deltas(fr) : fr[i].piece = cl[k].args[p]  BY <1>2 DEF PiecesHeld
    <3>2. QED  BY <1>2, <3>1 DEF PiecesHeld
  <2>3. QED  BY <2>1, <2>2
<1>5. /\ Growing(cm[k].args) /\ DOMAIN cm[k].args = DOMAIN cl[k].args \cup {Len(cl[k].args) + 1}
      /\ cm[k].args[Len(cl[k].args) + 1] = n + 1
      /\ \A i \in DOMAIN cl[k].args : cm[k].args[i] = cl[k].args[i]
      /\ \A x : Holds(cl[k].args, x) => Holds(cm[k].args, x)
      /\ Holds(cm[k].args, n + 1)
  BY <1>2, <1>3, <1>4, NextPiece
<1>6. BlocksHeld(tx, cm)
  <2>1. BlocksHeld(tx, cl) /\ \A l \in DOMAIN cl : cm[l].block = cl[l].block  BY DEF Held
  <2>2. /\ tx.block <= Count(tx, cm)
        /\ \A l \in DOMAIN cm : cm[l].block \in 1 .. Count(tx, cm) /\ cm[l].block # tx.block
    BY ONLY <1>2, <2>1 DEF BlocksHeld
  <2>3. \A l, m \in DOMAIN cm : l < m => cm[l].block < cm[m].block
    BY ONLY <1>2, <2>1 DEF BlocksHeld
  <2>4. \A b \in 1 .. Count(tx, cm) : b = tx.block \/ \E l \in DOMAIN cm : cm[l].block = b
    BY ONLY <1>2, <2>1 DEF BlocksHeld
  <2>5. QED  BY ONLY <2>2, <2>3, <2>4 DEF BlocksHeld
<1>7. StartsHeld(gr, tx, cm)
  <2>1. StartsHeld(fr, tx, cl)  BY DEF Held
  <2>2. \A i \in Starts(fr) : gr[i] = fr[i]  BY <1>1
  <2>3. \A l \in DOMAIN cl : cm[l].block = cl[l].block /\ cm[l].id = cl[l].id  OBVIOUS
  <2>4. QED  BY ZenonT(30), <1>1, <1>2, <2>1, <2>2, <2>3, StartsStay
<1>8. PiecesHeld(gr, tx, cm, n + 1)
  <2>1. ASSUME NEW i \in Deltas(gr)
        PROVE  /\ gr[i].piece \in 1 .. n + 1
               /\ \E j \in Starts(gr) : j < i /\ gr[j].block = gr[i].block
    <3>1. CASE i \in Deltas(fr)
      <4>1. fr[i].piece \in 1 .. n /\ \E j \in Starts(fr) : j < i /\ fr[j].block = fr[i].block
        BY <1>2, <3>1 DEF PiecesHeld
      <4>2. gr[i] = fr[i]  BY <1>1, <3>1
      <4>3. \A j \in Starts(fr) : gr[j] = fr[j]  BY <1>1
      <4>4. fr[i].piece \in 1 .. n + 1  BY <1>2, <4>1
      <4>5. QED  BY <1>1, <4>1, <4>2, <4>3, <4>4
    <3>2. CASE i = Len(fr) + 1
      <4>1. \E j \in Starts(fr) : fr[j].block = cl[k].block
        BY DEF Held, BlocksHeld, StartsHeld
      <4>2. gr[i] = f /\ n + 1 \in 1 .. n + 1  BY <1>1, <1>2, <3>2
      <4>3. \A j \in Starts(fr) : gr[j] = fr[j] /\ j < i  BY <1>1, <3>2
      <4>4. QED  BY <1>1, <4>1, <4>2, <4>3
    <3>3. QED  BY <1>1, <3>1, <3>2
  <2>2. \A i, j \in Deltas(gr) : i < j => gr[i].piece < gr[j].piece
    <3>1. \A i \in Deltas(fr) : fr[i].piece < n + 1  BY <1>2 DEF PiecesHeld
    <3>2. \A i, j \in Deltas(fr) : i < j => fr[i].piece < fr[j].piece  BY <1>2 DEF PiecesHeld
    <3>3. \A i \in Deltas(fr) : gr[i] = fr[i] /\ ~(Len(fr) + 1 < i)  BY <1>1
    <3>4. ~(Len(fr) + 1 < Len(fr) + 1)  BY <1>1
    <3>5. QED  BY <1>1, <3>1, <3>2, <3>3, <3>4
  <2>3. Growing(tx.pieces) /\ \A l \in DOMAIN cm : Growing(cm[l].args)
    BY <1>2, <1>5 DEF PiecesHeld
  <2>4. ASSUME NEW p \in DOMAIN tx.pieces
        PROVE  \E i \in Deltas(gr) : gr[i].block = tx.block /\ gr[i].piece = tx.pieces[p]
    <3>1. PICK i \in Deltas(fr) : fr[i].block = tx.block /\ fr[i].piece = tx.pieces[p]
      BY <1>2 DEF PiecesHeld
    <3>2. QED  BY <1>1, <3>1
  <2>5. ASSUME NEW l \in DOMAIN cm, NEW p \in DOMAIN cm[l].args
        PROVE  \E i \in Deltas(gr) : gr[i].block = cm[l].block /\ gr[i].piece = cm[l].args[p]
    <3>1. CASE l = k /\ p = Len(cl[k].args) + 1  BY <1>1, <1>5, <3>1
    <3>2. CASE ~(l = k /\ p = Len(cl[k].args) + 1)
      <4>1. l \in DOMAIN cl /\ p \in DOMAIN cl[l].args /\ cm[l].args[p] = cl[l].args[p]
        BY <1>2, <1>5, <2>5, <3>2
      <4>2. PICK i \in Deltas(fr) : fr[i].block = cl[l].block /\ fr[i].piece = cl[l].args[p]
        BY <1>2, <4>1 DEF PiecesHeld
      <4>3. QED  BY <1>1, <4>1, <4>2
    <3>3. QED  BY <3>1, <3>2
  <2>6. \A i \in Deltas(gr) : gr[i].block = tx.block => Holds(tx.pieces, gr[i].piece)
    <3>1. cl[k].block # tx.block  BY DEF Held, BlocksHeld
    <3>2. QED  BY <1>1, <1>2, <3>1 DEF PiecesHeld
  <2>7. ASSUME NEW i \in Deltas(gr), NEW l \in DOMAIN cm, gr[i].block = cm[l].block
        PROVE  Holds(cm[l].args, gr[i].piece)
    <3>1. CASE i \in Deltas(fr)
      <4>1. gr[i] = fr[i] /\ fr[i].block = cl[l].block  BY <1>1, <1>2, <2>7, <3>1
      <4>2. Holds(cl[l].args, fr[i].piece)  BY <1>2, <3>1, <4>1 DEF PiecesHeld
      <4>3. QED  BY <1>2, <1>5, <4>1, <4>2
    <3>2. CASE i = Len(fr) + 1
      <4>1. cl[l].block = cl[k].block  BY <1>1, <1>2, <2>7, <3>2
      <4>2. l = k
        <5>1. l \in Nat /\ k \in Nat /\ l \in DOMAIN cl  BY <1>2
        <5>2. cl[l].block \in Nat /\ cl[k].block \in Nat  BY <1>2, <5>1, RowFacts
        <5>3. ~(l < k) /\ ~(k < l)  BY <4>1, <5>1, <5>2 DEF Held, BlocksHeld
        <5>4. QED  BY <5>1, <5>3
      <4>3. QED  BY <1>1, <1>5, <3>2, <4>2
    <3>3. QED  BY <1>1, <3>1, <3>2
  <2>8. QED  BY <2>1, <2>2, <2>3, <2>4, <2>5, <2>6, <2>7 DEF PiecesHeld
<1>9. QED  BY <1>1, <1>2, <1>6, <1>7, <1>8 DEF Held, gr

LEMMA TextGrows ==
    ASSUME NEW fr, NEW tx, NEW cl, NEW n, Held(fr, tx, cl, n), tx.block # 0,
           NEW f \in Frames, f.type = "delta", f.block = tx.block, f.piece = n + 1
    PROVE  Held(Append(fr, f), [block |-> tx.block, pieces |-> Append(tx.pieces, n + 1)], cl,
                n + 1)
<1> DEFINE gr == Append(fr, f)  ty == [block |-> tx.block, pieces |-> Append(tx.pieces, n + 1)]
<1>1. /\ gr \in Seq(Frames) /\ Len(fr) \in Nat /\ DOMAIN fr = 1 .. Len(fr)
      /\ gr[Len(fr) + 1] = f /\ Len(fr) + 1 \notin DOMAIN fr
      /\ \A i \in DOMAIN fr : gr[i] = fr[i] /\ i <= Len(fr) /\ i \in Nat
      /\ Starts(gr) = Starts(fr) /\ Deltas(gr) = Deltas(fr) \cup {Len(fr) + 1}
      /\ Starts(fr) \subseteq DOMAIN fr /\ Deltas(fr) \subseteq DOMAIN fr
  <2>1. fr \in Seq(Frames)  BY DEF Held
  <2>2. Starts(fr) \subseteq DOMAIN fr /\ Deltas(fr) \subseteq DOMAIN fr  BY DEF Starts, Deltas
  <2>3. Starts(gr) = Starts(fr) /\ Deltas(gr) = Deltas(fr) \cup {Len(fr) + 1}
    BY <2>1, OneMore
  <2>4. /\ gr \in Seq(Frames) /\ Len(fr) \in Nat /\ DOMAIN fr = 1 .. Len(fr)
        /\ gr[Len(fr) + 1] = f /\ Len(fr) + 1 \notin DOMAIN fr
        /\ \A i \in DOMAIN fr : gr[i] = fr[i] /\ i <= Len(fr) /\ i \in Nat
    BY <2>1, OneMore
  <2>5. QED  BY <2>2, <2>3, <2>4
<1>2. /\ ty.block = tx.block /\ ty.pieces = Append(tx.pieces, n + 1)
      /\ Count(ty, cl) = Count(tx, cl)
      /\ n \in Nat /\ tx.block \in Nat /\ tx.pieces \in Seq(Nat) /\ PiecesHeld(fr, tx, cl, n)
      /\ cl \in Seq(CallRows)
  BY DEF Held, Count, Texts
<1>3. Growing(tx.pieces) /\ \A p \in DOMAIN tx.pieces : tx.pieces[p] \in 1 .. n
  <2>1. Growing(tx.pieces)  BY <1>2 DEF PiecesHeld
  <2>2. ASSUME NEW p \in DOMAIN tx.pieces PROVE tx.pieces[p] \in 1 .. n
    <3>1. PICK i \in Deltas(fr) : fr[i].piece = tx.pieces[p]  BY <1>2 DEF PiecesHeld
    <3>2. QED  BY <1>2, <3>1 DEF PiecesHeld
  <2>3. QED  BY <2>1, <2>2
<1>4. /\ ty.pieces \in Seq(Nat) /\ Growing(ty.pieces)
      /\ DOMAIN ty.pieces = DOMAIN tx.pieces \cup {Len(tx.pieces) + 1}
      /\ ty.pieces[Len(tx.pieces) + 1] = n + 1
      /\ \A i \in DOMAIN tx.pieces : ty.pieces[i] = tx.pieces[i]
      /\ \A x : Holds(tx.pieces, x) => Holds(ty.pieces, x)
      /\ Holds(ty.pieces, n + 1)
  BY <1>2, <1>3, NextPiece
<1>5. ty \in Texts  BY <1>2, <1>4 DEF Texts
<1> HIDE DEF gr, ty
<1>6. BlocksHeld(ty, cl)  BY <1>2 DEF Held, BlocksHeld
<1>7. StartsHeld(gr, ty, cl)
  <2>1. StartsHeld(fr, tx, cl)  BY DEF Held
  <2>2. \A i \in Starts(fr) : gr[i] = fr[i]  BY <1>1
  <2>3. QED  BY <1>1, <1>2, <2>1, <2>2, StartsStay
<1>8. PiecesHeld(gr, ty, cl, n + 1)
  <2>1. ASSUME NEW i \in Deltas(gr)
        PROVE  /\ gr[i].piece \in 1 .. n + 1
               /\ \E j \in Starts(gr) : j < i /\ gr[j].block = gr[i].block
    <3>1. CASE i \in Deltas(fr)
      <4>1. fr[i].piece \in 1 .. n /\ \E j \in Starts(fr) : j < i /\ fr[j].block = fr[i].block
        BY <1>2, <3>1 DEF PiecesHeld
      <4>2. gr[i] = fr[i]  BY <1>1, <3>1
      <4>3. \A j \in Starts(fr) : gr[j] = fr[j]  BY <1>1
      <4>4. fr[i].piece \in 1 .. n + 1  BY <1>2, <4>1
      <4>5. QED  BY <1>1, <4>1, <4>2, <4>3, <4>4
    <3>2. CASE i = Len(fr) + 1
      <4>1. tx.block \in 1 .. Count(tx, cl)
        <5>1. Count(tx, cl) \in Nat  BY <1>2 DEF Count
        <5>2. QED  BY <1>2, <5>1 DEF Held, BlocksHeld
      <4>2. \E j \in Starts(fr) : fr[j].block = tx.block  BY <4>1 DEF Held, StartsHeld
      <4>3. gr[i] = f /\ n + 1 \in 1 .. n + 1  BY <1>1, <1>2, <3>2
      <4>4. \A j \in Starts(fr) : gr[j] = fr[j] /\ j < i  BY <1>1, <3>2
      <4>5. QED  BY <1>1, <4>2, <4>3, <4>4
    <3>3. QED  BY <1>1, <3>1, <3>2
  <2>2. \A i, j \in Deltas(gr) : i < j => gr[i].piece < gr[j].piece
    <3>1. \A i \in Deltas(fr) : fr[i].piece < n + 1  BY <1>2 DEF PiecesHeld
    <3>2. \A i, j \in Deltas(fr) : i < j => fr[i].piece < fr[j].piece  BY <1>2 DEF PiecesHeld
    <3>3. \A i \in Deltas(fr) : gr[i] = fr[i] /\ ~(Len(fr) + 1 < i)  BY <1>1
    <3>4. ~(Len(fr) + 1 < Len(fr) + 1)  BY <1>1
    <3>5. QED  BY <1>1, <3>1, <3>2, <3>3, <3>4
  <2>3. Growing(ty.pieces) /\ \A l \in DOMAIN cl : Growing(cl[l].args)
    BY <1>2, <1>4 DEF PiecesHeld
  <2>4. ASSUME NEW p \in DOMAIN ty.pieces
        PROVE  \E i \in Deltas(gr) : gr[i].block = ty.block /\ gr[i].piece = ty.pieces[p]
    <3>1. CASE p = Len(tx.pieces) + 1  BY <1>1, <1>2, <1>4, <3>1
    <3>2. CASE p # Len(tx.pieces) + 1
      <4>1. p \in DOMAIN tx.pieces /\ ty.pieces[p] = tx.pieces[p]  BY <1>4, <2>4, <3>2
      <4>2. PICK i \in Deltas(fr) : fr[i].block = tx.block /\ fr[i].piece = tx.pieces[p]
        BY <1>2, <4>1 DEF PiecesHeld
      <4>3. QED  BY <1>1, <1>2, <4>1, <4>2
    <3>3. QED  BY <3>1, <3>2
  <2>5. ASSUME NEW l \in DOMAIN cl, NEW p \in DOMAIN cl[l].args
        PROVE  \E i \in Deltas(gr) : gr[i].block = cl[l].block /\ gr[i].piece = cl[l].args[p]
    <3>1. PICK i \in Deltas(fr) : fr[i].block = cl[l].block /\ fr[i].piece = cl[l].args[p]
      BY <1>2 DEF PiecesHeld
    <3>2. QED  BY <1>1, <3>1
  <2>6. ASSUME NEW i \in Deltas(gr), gr[i].block = ty.block
        PROVE  Holds(ty.pieces, gr[i].piece)
    <3>1. CASE i \in Deltas(fr)
      <4>1. gr[i] = fr[i] /\ Holds(tx.pieces, fr[i].piece)
        BY <1>1, <1>2, <2>6, <3>1 DEF PiecesHeld
      <4>2. QED  BY <1>4, <4>1
    <3>2. CASE i = Len(fr) + 1  BY <1>1, <1>4, <3>2
    <3>3. QED  BY <1>1, <3>1, <3>2
  <2>7. \A i \in Deltas(gr), l \in DOMAIN cl :
           gr[i].block = cl[l].block => Holds(cl[l].args, gr[i].piece)
    <3>1. \A l \in DOMAIN cl : cl[l].block # tx.block  BY DEF Held, BlocksHeld
    <3>2. QED  BY SMTT(30), <1>1, <1>2, <3>1 DEF PiecesHeld
  <2>8. QED  BY <2>1, <2>2, <2>3, <2>4, <2>5, <2>6, <2>7 DEF PiecesHeld
<1>9. QED  BY <1>1, <1>2, <1>5, <1>6, <1>7, <1>8 DEF Held, gr, ty
-----------------------------------------------------------------------------
(* The stream.                                                             *)

LatestHeld == \A i \in Indices : latest[i] = 0 \/ latest[i] \in DOMAIN calls
\* A piece of a call is an argument fragment of one chunk, and of one call.
ApartHeld ==
    /\ \A k \in DOMAIN calls : \A x : Holds(calls[k].args, x) =>
          x \in DOMAIN chunks /\ chunks[x].kind = "call"
    /\ \A n \in DOMAIN chunks : chunks[n].kind = "call" /\ chunks[n].of.args =>
          \E k \in DOMAIN calls : Holds(calls[k].args, n)
    /\ \A k, l \in DOMAIN calls : \A x :
           Holds(calls[k].args, x) /\ Holds(calls[l].args, x) => k = l
    /\ Stream!Translated => \A k \in DOMAIN calls : \A x : Holds(calls[k].args, x) =>
          chunks[x].of.id \in {Stream!NoId, calls[k].id}
PhaseHeld ==
    /\ completions = (IF phase = "over" THEN 1 ELSE 0)
    /\ phase # "over" => stored = <<>>
    /\ phase = "over" /\ Stream!Translated =>
          /\ stored.text = text.pieces /\ DOMAIN stored.calls = DOMAIN calls
          /\ Len(stored.calls) = Len(calls)
          /\ \A k \in DOMAIN calls : stored.calls[k].id = calls[k].id
                                     /\ stored.calls[k].args = calls[k].args
EndHeld ==
    /\ phase = "open" => Stream!Of("stop") = {} /\ Stream!Of("end") = {}
       /\ Stream!Of("error") = {}
    /\ Stream!Translated =>
          /\ \A i \in Stream!Of("stop"), j \in Stream!Of("delta") : j < i
          /\ Stream!Of("end") # {} =>
                /\ \A b \in 1 .. Stream!Blocks : \E i \in Stream!Of("stop") :
                      /\ frames[i].block = b
                      /\ \A j \in Stream!Of("stop") : frames[j].block = b => j = i
                /\ Stream!Of("end") = {Len(frames)} /\ Stream!Of("error") = {}
    /\ wire = "anthropic" => \A i \in Stream!Of("end") : calls # <<>> =>
       frames[i].reason = "tool_use"

StreamInv ==
    /\ StreamTypes /\ LatestHeld /\ ApartHeld /\ PhaseHeld /\ EndHeld
    /\ Stream!Translated => Held(frames, text, calls, Len(chunks))

LEMMA StreamInitInv == Stream!StreamInit => StreamInv
<1> SUFFICES ASSUME Stream!StreamInit PROVE StreamInv  OBVIOUS
<1>1. /\ wire \in {"responses", "anthropic", "chat"} /\ phase = "open"
      /\ chunks = <<>> /\ frames = <<>> /\ calls = <<>> /\ text = [block |-> 0, pieces |-> <<>>]
      /\ latest = [i \in Indices |-> 0] /\ finish = "stop" /\ stored = <<>> /\ completions = 0
  BY DEF Stream!StreamInit
<1>2. StreamTypes  BY <1>1 DEF StreamTypes, Texts
<1>3. LatestHeld /\ ApartHeld /\ PhaseHeld
  BY <1>1 DEF LatestHeld, ApartHeld, PhaseHeld
<1>4. EndHeld  BY <1>1 DEF EndHeld, Stream!Of
<1>5. Held(frames, text, calls, Len(chunks))
  <2>1. Count(text, calls) = 0 /\ text.block = 0 /\ text.pieces = <<>>
        /\ Starts(frames) = {} /\ Deltas(frames) = {} /\ DOMAIN calls = {} /\ Len(chunks) = 0
    BY <1>1 DEF Count, Starts, Deltas
  <2>2. BlocksHeld(text, calls)  BY <2>1 DEF BlocksHeld
  <2>3. StartsHeld(frames, text, calls)  BY <2>1, FS_EmptySet DEF StartsHeld
  <2>4. PiecesHeld(frames, text, calls, 0)  BY <2>1 DEF PiecesHeld, Growing
  <2>5. QED  BY <1>1, <1>2, <2>1, <2>2, <2>3, <2>4 DEF Held, StreamTypes
<1>6. QED  BY <1>2, <1>3, <1>4, <1>5 DEF StreamInv

\* The numbers of a sequence and of the same sequence with one more behind it.
LEMMA HoldsMore ==
    ASSUME NEW s \in Seq(Nat), NEW x \in Nat
    PROVE  /\ Append(s, x) \in Seq(Nat) /\ \A y : Holds(Append(s, x), y) <=> Holds(s, y) \/ y = x
<1>1. /\ Append(s, x) \in Seq(Nat) /\ DOMAIN Append(s, x) = DOMAIN s \cup {Len(s) + 1}
      /\ Append(s, x)[Len(s) + 1] = x /\ \A i \in DOMAIN s : Append(s, x)[i] = s[i]
  OBVIOUS
<1>2. QED  BY <1>1 DEF Holds

\* A chunk and the call it belongs to.
LEMMA ApartKeeps ==
    ASSUME StreamTypes, ApartHeld, NEW c \in Chunks, chunks' = Append(chunks, c), UNCHANGED wire,
           DOMAIN calls \subseteq DOMAIN calls', NEW gains \in BOOLEAN, NEW k \in Nat,
           gains => c.kind = "call" /\ k \in DOMAIN calls'
                    /\ (Stream!Translated => c.of.id \in {Stream!NoId, calls'[k].id}),
           c.kind = "call" /\ c.of.args => gains,
           \A l \in DOMAIN calls : calls'[l].id = calls[l].id,
           \A l \in DOMAIN calls' : \A x : Holds(calls'[l].args, x) <=>
               \/ l \in DOMAIN calls /\ Holds(calls[l].args, x)
               \/ gains /\ l = k /\ x = Stream!Now
    PROVE  ApartHeld'
<1>1. /\ DOMAIN chunks' = DOMAIN chunks \cup {Stream!Now} /\ Stream!Now \notin DOMAIN chunks
         /\ chunks'[Stream!Now] = c
      /\ \A n \in DOMAIN chunks : chunks'[n] = chunks[n]
  BY DEF StreamTypes, Stream!Now
<1>2. \A l \in DOMAIN calls : ~Holds(calls[l].args, Stream!Now)  BY <1>1 DEF ApartHeld
<1>3. \A l \in DOMAIN calls' : \A x : Holds(calls'[l].args, x) =>
          x \in DOMAIN chunks' /\ chunks'[x].kind = "call"
  <2> SUFFICES ASSUME NEW l \in DOMAIN calls', NEW x, Holds(calls'[l].args, x)
      PROVE  x \in DOMAIN chunks' /\ chunks'[x].kind = "call"
    OBVIOUS
  <2>1. CASE l \in DOMAIN calls /\ Holds(calls[l].args, x)
    <3>1. x \in DOMAIN chunks /\ chunks[x].kind = "call"  BY <2>1 DEF ApartHeld
    <3>2. QED  BY <1>1, <3>1
  <2>2. CASE gains /\ l = k /\ x = Stream!Now
    <3>1. c.kind = "call" /\ x \in DOMAIN chunks' /\ chunks'[x] = c  BY <1>1, <2>2
    <3>2. QED  BY <3>1
  <2>3. (l \in DOMAIN calls /\ Holds(calls[l].args, x)) \/ (gains /\ l = k /\ x = Stream!Now)
    OBVIOUS
  <2>4. QED  BY <2>1, <2>2, <2>3
<1>4. \A n \in DOMAIN chunks' : chunks'[n].kind = "call" /\ chunks'[n].of.args =>
          \E l \in DOMAIN calls' : Holds(calls'[l].args, n)
  BY <1>1 DEF ApartHeld
<1>5. \A l, m \in DOMAIN calls' : \A x :
          Holds(calls'[l].args, x) /\ Holds(calls'[m].args, x) => l = m
  <2> SUFFICES ASSUME NEW l \in DOMAIN calls', NEW m \in DOMAIN calls', NEW x,
                      Holds(calls'[l].args, x), Holds(calls'[m].args, x)
      PROVE  l = m
    OBVIOUS
  <2>1. CASE x = Stream!Now
    <3>1. ~(l \in DOMAIN calls /\ Holds(calls[l].args, x))  BY <1>2, <2>1
    <3>2. ~(m \in DOMAIN calls /\ Holds(calls[m].args, x))  BY <1>2, <2>1
    <3>3. QED  BY <3>1, <3>2
  <2>2. CASE x # Stream!Now
    <3>1. l \in DOMAIN calls /\ Holds(calls[l].args, x)  BY <2>2
    <3>2. m \in DOMAIN calls /\ Holds(calls[m].args, x)  BY <2>2
    <3>3. QED  BY <3>1, <3>2 DEF ApartHeld
  <2>3. QED  BY <2>1, <2>2
<1>6. Stream!Translated => \A l \in DOMAIN calls' : \A x : Holds(calls'[l].args, x) =>
          chunks'[x].of.id \in {Stream!NoId, calls'[l].id}
  BY <1>1, <1>2 DEF ApartHeld
<1>7. QED  BY <1>3, <1>4, <1>5, <1>6 DEF ApartHeld, Stream!Translated

\* While a stream is open nothing is closed.
LEMMA OpenKeeps ==
    ASSUME StreamInv, phase = "open", frames' \in Seq(Frames),
           DOMAIN frames \subseteq DOMAIN frames',
           \A i \in DOMAIN frames : frames'[i] = frames[i],
           \A i \in DOMAIN frames' \ DOMAIN frames :
               frames'[i].type \in {"start", "delta", "chunk"},
           UNCHANGED <<wire, phase, stored, completions>>
    PROVE  PhaseHeld' /\ EndHeld'
<1>1. Stream!Of("stop")' = {} /\ Stream!Of("end")' = {} /\ Stream!Of("error")' = {}
  <2>1. \A i \in DOMAIN frames : frames[i].type \notin {"stop", "end", "error"}
    BY DEF StreamInv, EndHeld, Stream!Of
  <2>2. \A i \in DOMAIN frames' : frames'[i].type \notin {"stop", "end", "error"}  BY <2>1
  <2>3. QED  BY <2>2 DEF Stream!Of
<1>2. EndHeld'  BY <1>1 DEF EndHeld
<1>3. PhaseHeld'  BY DEF StreamInv, PhaseHeld
<1>4. QED  BY <1>2, <1>3

\* What is appended to the chunks and to the frames.
LEMMA ChunkMore ==
    ASSUME StreamTypes, NEW c \in Chunks
    PROVE  /\ Append(chunks, c) \in Seq(Chunks) /\ Len(Append(chunks, c)) = Stream!Now
           /\ Stream!Now \in Nat
           /\ Len(chunks) + 1 = Stream!Now
BY DEF StreamTypes, Stream!Now

LEMMA TwoMore ==
    ASSUME NEW fr \in Seq(Frames), NEW f \in Frames, NEW g \in Frames
    PROVE  /\ fr \o <<f>> \o <<g>> = Append(Append(fr, f), g)
           /\ fr \o <<f>> \o <<>> = Append(fr, f)
           /\ fr \o <<>> \o <<g>> = Append(fr, g)
           /\ fr \o <<>> \o <<>> = fr
<1>1. Append(fr, f) \in Seq(Frames) /\ fr \o <<f>> = Append(fr, f)  OBVIOUS
<1>2. Append(fr, f) \o <<g>> = Append(Append(fr, f), g)  BY <1>1
<1>3. fr \o <<>> = fr /\ Append(fr, f) \o <<>> = Append(fr, f)  BY <1>1, ConcatEmptySeq
<1>4. fr \o <<g>> = Append(fr, g)  OBVIOUS
<1>5. QED  BY <1>1, <1>2, <1>3, <1>4

LEMMA TextPieceKeeps == ASSUME StreamInv, Stream!TextPiece PROVE StreamInv'
<1> DEFINE c == [kind |-> "text"]
           first == text.block = 0
           block == IF first THEN Stream!Blocks + 1 ELSE text.block
           opening == Stream!Start(block, "text", Stream!NoId, Stream!NoName)
           piece == Stream!Piece(block)
           opened == IF first THEN Append(frames, opening) ELSE frames
           begun == IF first THEN [block |-> block, pieces |-> text.pieces] ELSE text
<1>1. /\ StreamTypes /\ phase = "open" /\ chunks' = Append(chunks, c)
      /\ text' = [block |-> block, pieces |-> Append(text.pieces, Stream!Now)]
      /\ frames' = frames \o (IF first THEN <<opening>> ELSE <<>>) \o <<piece>>
      /\ UNCHANGED <<wire, phase, calls, latest, finish, stored, completions>>
  BY DEF Stream!TextPiece, StreamInv
<1>2. /\ frames \in Seq(Frames) /\ text.block \in Nat /\ text.pieces \in Seq(Nat)
         /\ Len(calls) \in Nat
      /\ Stream!Blocks \in Nat /\ block \in Nat /\ Stream!Now \in Nat /\ text \in Texts
  BY <1>1 DEF StreamTypes, Texts, Stream!Blocks, Stream!Now
<1>3. /\ opening \in Frames /\ opening.type = "start" /\ opening.block = block
      /\ opening.kind = "text" /\ piece \in Frames /\ piece.type = "delta"
      /\ piece.block = block /\ piece.piece = Stream!Now
  BY <1>2 DEF Frames, Stream!Start, Stream!Piece, AllIds, AllNames
<1>4. c \in Chunks /\ c.kind = "text"  BY DEF Chunks
<1> HIDE DEF opening, piece, c
<1>5. opened \in Seq(Frames)  BY <1>2, <1>3
<1>6. frames' = Append(opened, piece)
  <2>1. CASE first
    <3>1. frames' = frames \o <<opening>> \o <<piece>>  BY <1>1, <2>1
    <3>2. QED  BY <1>2, <1>3, <2>1, <3>1, TwoMore
  <2>2. CASE ~first
    <3>1. frames' = frames \o <<>> \o <<piece>>  BY <1>1, <2>2
    <3>2. QED  BY <1>2, <1>3, <2>2, <3>1
  <2>3. QED  BY <2>1, <2>2
<1>7. /\ frames' \in Seq(Frames) /\ DOMAIN frames \subseteq DOMAIN frames'
      /\ \A i \in DOMAIN frames : frames'[i] = frames[i]
      /\ \A i \in DOMAIN frames' \ DOMAIN frames : frames'[i].type \in {"start", "delta", "chunk"}
  <2>1. CASE first  BY <1>2, <1>3, <1>6, <2>1
  <2>2. CASE ~first  BY <1>2, <1>3, <1>6, <2>2
  <2>3. QED  BY <2>1, <2>2
<1>8. StreamTypes' /\ LatestHeld'
  <2>1. text' \in Texts  BY <1>1, <1>2 DEF Texts
  <2>2. chunks' \in Seq(Chunks)  BY <1>1, <1>4, ChunkMore
  <2>3. QED  BY <1>1, <1>7, <2>1, <2>2 DEF StreamInv, StreamTypes, LatestHeld
<1>9. ApartHeld'
  <2>1. \A l \in DOMAIN calls' : \A x : Holds(calls'[l].args, x) <=>
               \/ l \in DOMAIN calls /\ Holds(calls[l].args, x)
               \/ FALSE /\ l = 0 /\ x = Stream!Now
    BY <1>1
  <2>2. c.kind # "call" /\ ApartHeld /\ 0 \in Nat /\ FALSE \in BOOLEAN  BY <1>4 DEF StreamInv
  <2>3. QED  BY <1>1, <1>4, <2>1, <2>2, ApartKeeps
<1>10. PhaseHeld' /\ EndHeld'  BY <1>1, <1>7, OpenKeeps
<1>11. ASSUME Stream!Translated' PROVE Held(frames', text', calls', Len(chunks'))
  <2>1. Held(frames, text, calls, Len(chunks))  BY <1>1, <1>11 DEF StreamInv, Stream!Translated
  <2>2. Stream!Blocks = Count(text, calls)  BY DEF Stream!Blocks, Count
  <2>3. Held(opened, begun, calls, Len(chunks)) /\ begun.block = block /\ begun.block # 0
        /\ begun.pieces = text.pieces
    <3>1. CASE first
      <4>1. Held(Append(frames, opening), [block |-> opening.block, pieces |-> text.pieces],
                 calls,
                 Len(chunks))
        BY <1>3, <2>1, <2>2, <3>1, TextOpens
      <4>2. QED  BY <1>2, <1>3, <3>1, <4>1
    <3>2. CASE ~first  BY <1>2, <2>1, <3>2
    <3>3. QED  BY <3>1, <3>2
  <2>4. Len(chunks') = Len(chunks) + 1 /\ Stream!Now = Len(chunks) + 1  BY <1>1, <1>4, ChunkMore
  <2> HIDE DEF opened, begun, block
  <2>5. Held(Append(opened, piece), [block |-> begun.block,
                                     pieces |-> Append(begun.pieces, Len(chunks) + 1)],
             calls, Len(chunks) + 1)
    BY <1>3, <2>3, <2>4, TextGrows
  <2>6. QED  BY <1>1, <1>6, <2>3, <2>4, <2>5
<1>12. QED  BY <1>8, <1>9, <1>10, <1>11 DEF StreamInv

\* A call that a fragment opens.
LEMMA OpenedCall ==
    ASSUME StreamTypes, NEW f \in Stream!Fragments
    PROVE  /\ Stream!OpenCall(f) \in CallRows /\ Stream!OpenCall(f).block = Stream!Blocks + 1
           /\ Stream!OpenCall(f).id
                  = (IF f.id = Stream!NoId THEN Stream!Made(Len(calls) + 1) ELSE f.id)
           /\ Stream!OpenCall(f).args = (IF f.args THEN <<Stream!Now>> ELSE <<>>)
              /\ Stream!OpenCall(f).index = f.index
           /\ Stream!Blocks \in Nat /\ Stream!Now \in Nat
<1>1. /\ f.index \in Indices /\ f.id \in Stream!Given \cup {Stream!NoId} /\ f.name \in AllNames
         /\ f.args \in BOOLEAN
  BY DEF Stream!Fragments, AllNames
<1>2. Stream!Blocks \in Nat /\ Stream!Now \in Nat /\ Len(calls) \in Nat
  BY DEF StreamTypes, Stream!Blocks, Stream!Now, Texts
<1>3. Stream!Made(Len(calls) + 1) \in AllIds /\ f.id \in AllIds  BY <1>1, <1>2 DEF AllIds
<1>4. (IF f.args THEN <<Stream!Now>> ELSE <<>>) \in Seq(Nat)  BY <1>2
<1>5. QED  BY <1>1, <1>2, <1>3, <1>4 DEF Stream!OpenCall, CallRows

\* A call that a fragment goes on with.
LEMMA ContinuedCall ==
    ASSUME StreamTypes, NEW f \in Stream!Fragments, NEW c \in CallRows
    PROVE  /\ Stream!Continued(c, f) \in CallRows /\ Stream!Continued(c, f).block = c.block
           /\ Stream!Continued(c, f).id = c.id /\ Stream!Continued(c, f).index = c.index
           /\ Stream!Continued(c, f).args =
                  IF f.args THEN Append(c.args, Stream!Now) ELSE c.args
<1>1. f.name \in AllNames /\ f.args \in BOOLEAN /\ Stream!Now \in Nat
  BY DEF Stream!Fragments, AllNames, StreamTypes, Stream!Now
<1>2. c.args \in Seq(Nat) /\ c.name \in AllNames  BY DEF CallRows
<1>3. (IF f.args THEN Append(c.args, Stream!Now) ELSE c.args) \in Seq(Nat)  BY <1>1, <1>2
<1>4. (IF c.name = Stream!NoName THEN f.name ELSE c.name) \in AllNames  BY <1>1, <1>2
<1>5. QED  BY <1>3, <1>4 DEF Stream!Continued, CallRows

LEMMA FeedKeeps == ASSUME StreamInv, NEW f \in Stream!Fragments, Stream!Feed(f) PROVE StreamInv'
<1> DEFINE new == Stream!IsNew(f)
           k == IF new THEN Len(calls) + 1 ELSE latest[f.index]
           c == IF new THEN Stream!OpenCall(f) ELSE Stream!Continued(calls[k], f)
           opening == Stream!Start(c.block, "call", c.id, c.name)
           piece == Stream!Piece(c.block)
           chunk == [kind |-> "call", of |-> f]
           n == Len(chunks)
           opened == IF new THEN Append(frames, opening) ELSE frames
<1>1. /\ StreamTypes /\ phase = "open" /\ wire # "chat" /\ Stream!Translated
      /\ chunks' = Append(chunks, chunk)
      /\ calls' = (IF new THEN Append(calls, c) ELSE [calls EXCEPT ![k] = c])
      /\ latest' = [latest EXCEPT ![f.index] = k]
      /\ frames' = frames \o (IF new THEN <<opening>> ELSE <<>>)
                          \o (IF f.args THEN <<piece>> ELSE <<>>)
      /\ UNCHANGED <<wire, phase, text, finish, stored, completions>>
  BY DEF Stream!Feed, StreamInv, Stream!Translated
<1>2. /\ f.index \in Indices /\ f.id \in Stream!Given \cup {Stream!NoId} /\ f.args \in BOOLEAN
      /\ frames \in Seq(Frames) /\ calls \in Seq(CallRows) /\ Len(calls) \in Nat
      /\ Stream!Blocks \in Nat /\ Stream!Now \in Nat /\ Stream!Now = n + 1 /\ n \in Nat
         /\ Stream!Blocks = Count(text, calls)
      /\ text.block \in Nat
  BY <1>1 DEF StreamTypes, Stream!Fragments, Stream!Blocks, Count, Stream!Now, Texts
<1>3. ~new => /\ k \in DOMAIN calls /\ calls[k] \in CallRows /\ calls[k].args \in Seq(Nat)
              /\ f.id \in {Stream!NoId, calls[k].id}
  <2>1. ~new => k = latest[f.index] /\ latest[f.index] # 0 /\ ~Stream!Reused(f)
    BY DEF Stream!IsNew
  <2>2. ~new => k \in DOMAIN calls  BY <1>2, <2>1 DEF StreamInv, LatestHeld
  <2>3. ~new => calls[k] \in CallRows  BY <1>2, <2>2, ElementOfSeq
  <2>4. ~new => f.id \in {Stream!NoId, calls[k].id}  BY <2>1 DEF Stream!Reused
  <2>5. QED  BY <2>2, <2>3, <2>4 DEF CallRows
<1>4. /\ c \in CallRows /\ k \in Nat
      /\ new => /\ c.block = Stream!Blocks + 1
                /\ c.args = (IF f.args THEN <<Stream!Now>> ELSE <<>>)
                /\ f.id \in {Stream!NoId, c.id}
      /\ ~new => /\ c.block = calls[k].block /\ c.id = calls[k].id
                 /\ c.args = (IF f.args THEN Append(calls[k].args, Stream!Now) ELSE calls[k].args)
  <2>1. CASE new  BY <1>1, <1>2, <2>1, OpenedCall
  <2>2. CASE ~new  BY <1>1, <1>2, <1>3, <2>2, ContinuedCall
  <2>3. QED  BY <2>1, <2>2
<1>5. /\ opening \in Frames /\ opening.type = "start" /\ opening.block = c.block
      /\ opening.kind = "call" /\ opening.id = c.id
      /\ piece \in Frames /\ piece.type = "delta" /\ piece.block = c.block
         /\ piece.piece = Stream!Now
      /\ chunk \in Chunks /\ chunk.kind = "call" /\ chunk.of = f
  <2>1. c.block \in Nat /\ c.id \in AllIds /\ c.name \in AllNames  BY <1>4 DEF CallRows
  <2>2. QED  BY <1>2, <2>1 DEF Frames, Stream!Start, Stream!Piece, Chunks
<1>6. /\ k \in DOMAIN calls' /\ calls' \in Seq(CallRows) /\ DOMAIN calls' = DOMAIN calls \cup {k}
      /\ calls'[k] = c /\ \A l \in DOMAIN calls : l # k => calls'[l] = calls[l]
      /\ new => k \notin DOMAIN calls
      /\ Len(calls') = (IF new THEN Len(calls) + 1 ELSE Len(calls))
  <2> HIDE DEF c
  <2>1. CASE new
    <3>1. calls' = Append(calls, c) /\ k = Len(calls) + 1  BY <1>1, <2>1
    <3>2. QED  BY <1>2, <1>4, <2>1, <3>1
  <2>2. CASE ~new
    <3>1. calls' = [calls EXCEPT ![k] = c] /\ k \in DOMAIN calls  BY <1>1, <1>3, <2>2
    <3>2. calls \in [1 .. Len(calls) -> CallRows]  BY <1>2
    <3>3. calls' \in [1 .. Len(calls) -> CallRows]  BY <1>4, <3>1, <3>2
    <3>4. calls' \in Seq(CallRows) /\ Len(calls') = Len(calls)  BY <1>2, <3>3
    <3>5. QED  BY <1>2, <2>2, <3>1, <3>2, <3>3, <3>4
  <2>3. QED  BY <2>1, <2>2
<1> HIDE DEF opening, piece, chunk, c, new, k
<1>7. opened \in Seq(Frames)  BY <1>2, <1>5
<1>8. frames' = IF f.args THEN Append(opened, piece) ELSE opened
  <2>1. /\ frames \o <<opening>> \o <<piece>> = Append(Append(frames, opening), piece)
        /\ frames \o <<opening>> \o <<>> = Append(frames, opening)
        /\ frames \o <<>> \o <<piece>> = Append(frames, piece)
        /\ frames \o <<>> \o <<>> = frames
    BY <1>2, <1>5, TwoMore
  <2>2. CASE new /\ f.args  BY <1>1, <2>1, <2>2
  <2>3. CASE new /\ ~f.args  BY <1>1, <2>1, <2>3
  <2>4. CASE ~new /\ f.args  BY <1>1, <2>1, <2>4
  <2>5. CASE ~new /\ ~f.args  BY <1>1, <2>1, <2>5
  <2>6. QED  BY <2>2, <2>3, <2>4, <2>5
<1>9. /\ frames' \in Seq(Frames) /\ DOMAIN frames \subseteq DOMAIN frames'
      /\ \A i \in DOMAIN frames : frames'[i] = frames[i]
      /\ \A i \in DOMAIN frames' \ DOMAIN frames : frames'[i].type \in {"start", "delta", "chunk"}
  <2>1. /\ DOMAIN frames \subseteq DOMAIN opened /\ \A i \in DOMAIN frames : opened[i] = frames[i]
        /\ \A i \in DOMAIN opened \ DOMAIN frames : opened[i].type = "start"
    <3>1. CASE new  BY <1>2, <1>5, <3>1
    <3>2. CASE ~new  BY <3>2
    <3>3. QED  BY <3>1, <3>2
  <2> HIDE DEF opened
  <2>2. CASE f.args
    <3>1. frames' = Append(opened, piece)  BY <1>8, <2>2
    <3>2. /\ frames' \in Seq(Frames) /\ DOMAIN frames' = DOMAIN opened \cup {Len(opened) + 1}
          /\ frames'[Len(opened) + 1] = piece /\ \A i \in DOMAIN opened : frames'[i] = opened[i]
      BY <1>5, <1>7, <3>1
    <3>3. QED  BY <1>5, <2>1, <3>2
  <2>3. CASE ~f.args  BY <1>7, <1>8, <2>1, <2>3
  <2>4. QED  BY <2>2, <2>3
<1>10. StreamTypes' /\ LatestHeld'
  <2>1. chunks' \in Seq(Chunks)  BY <1>1, <1>5, ChunkMore
  <2>2. latest' \in [Indices -> Nat]  BY <1>1, <1>4 DEF StreamTypes
  <2>3. StreamTypes'  BY <1>1, <1>6, <1>9, <2>1, <2>2 DEF StreamTypes
  <2>4. \A i \in Indices : latest'[i] = (IF i = f.index THEN k ELSE latest[i])
    BY <1>1 DEF StreamTypes
  <2>5. QED  BY <1>6, <2>3, <2>4 DEF StreamInv, LatestHeld
<1>11. ApartHeld'
  <2>1. \A l \in DOMAIN calls' : \A x : Holds(calls'[l].args, x) <=>
               \/ l \in DOMAIN calls /\ Holds(calls[l].args, x)
               \/ f.args /\ l = k /\ x = Stream!Now
    <3>1. CASE new
      <4>1. \A x : Holds(c.args, x) <=> f.args /\ x = Stream!Now
        <5>1. /\ Holds(<<Stream!Now>>, Stream!Now)
              /\ \A x : Holds(<<Stream!Now>>, x) => x = Stream!Now
          BY DEF Holds
        <5>2. \A x : ~Holds(<<>>, x)  BY DEF Holds
        <5>3. QED  BY <1>4, <3>1, <5>1, <5>2
      <4>2. k \notin DOMAIN calls  BY <1>6, <3>1
      <4>3. QED  BY <1>6, <4>1, <4>2
    <3>2. CASE ~new
      <4>1. \A x : Holds(c.args, x) <=> Holds(calls[k].args, x) \/ (f.args /\ x = Stream!Now)
        <5>1. \A x : Holds(Append(calls[k].args, Stream!Now), x) <=>
                         Holds(calls[k].args, x) \/ x = Stream!Now
          BY <1>2, <1>3, <3>2, HoldsMore
        <5>2. QED  BY <1>4, <3>2, <5>1
      <4>2. k \in DOMAIN calls  BY <1>3, <3>2
      <4>3. QED  BY <1>6, <4>1, <4>2
    <3>3. QED  BY <3>1, <3>2
  <2>2. \A l \in DOMAIN calls : calls'[l].id = calls[l].id
    <3>1. ASSUME NEW l \in DOMAIN calls PROVE calls'[l].id = calls[l].id
      <4>1. CASE l = k  BY <1>4, <1>6, <4>1
      <4>2. CASE l # k  BY <1>6, <4>2
      <4>3. QED  BY <4>1, <4>2
    <3>2. QED  BY <3>1
  <2>3. f.id \in {Stream!NoId, calls'[k].id}  BY <1>3, <1>4, <1>6
  <2>4. ApartHeld  BY DEF StreamInv
  <2>5. f.args => /\ chunk.kind = "call" /\ k \in DOMAIN calls'
                  /\ Stream!Translated => chunk.of.id \in {Stream!NoId, calls'[k].id}
    BY <1>5, <1>6, <2>3
  <2>6. chunk.kind = "call" /\ chunk.of.args => f.args  BY <1>5
  <2>7. chunk \in Chunks /\ chunks' = Append(chunks, chunk) /\ UNCHANGED wire /\ k \in Nat
        /\ f.args \in BOOLEAN /\ DOMAIN calls \subseteq DOMAIN calls' /\ StreamTypes
    BY <1>1, <1>2, <1>4, <1>5, <1>6
  <2>8. QED  BY ONLY <2>1, <2>2, <2>4, <2>5, <2>6, <2>7, ApartKeeps
<1>12. PhaseHeld' /\ EndHeld'  BY <1>1, <1>9, OpenKeeps
<1>13. Held(frames', text', calls', Len(chunks'))
  <2>1. Held(frames, text, calls, n)  BY <1>1 DEF StreamInv
  <2>2. Len(chunks') = n + 1  BY <1>1, <1>2, <1>5, ChunkMore
  <2>3. PICK cl : /\ Held(opened, text, cl, n) /\ Len(cl) = Len(calls') /\ k \in DOMAIN cl
                  /\ \A l \in DOMAIN cl : /\ cl[l].block = calls'[l].block
                                          /\ cl[l].id = calls'[l].id
                                          /\ l # k => cl[l].args = calls'[l].args
                  /\ calls'[k].args =
                         IF f.args THEN Append(cl[k].args, Stream!Now) ELSE cl[k].args
    <3>1. CASE new
      <4> DEFINE bare == [block |-> c.block, index |-> c.index, name |-> c.name, id |-> c.id,
                          args |-> <<>>]
                 cl == Append(calls, bare)
      <4>1. bare \in CallRows /\ bare.block = c.block /\ bare.id = c.id /\ bare.args = <<>>
        <5>1. <<>> \in Seq(Nat)  OBVIOUS
        <5>2. QED  BY <1>4, <5>1 DEF CallRows
      <4> HIDE DEF bare
      <4>2. Held(Append(frames, opening), text, cl, n)
        BY <1>2, <1>4, <1>5, <2>1, <3>1, <4>1, CallOpens
      <4>3. k = Len(calls) + 1  BY <3>1 DEF k
      <4>4. /\ Len(cl) = Len(calls) + 1 /\ DOMAIN cl = DOMAIN calls \cup {k} /\ cl[k] = bare
            /\ \A l \in DOMAIN calls : cl[l] = calls[l] /\ l # k
        BY <1>2, <4>1, <4>3
      <4>5. c.args = IF f.args THEN Append(<<>>, Stream!Now) ELSE <<>>  BY <1>4, <3>1
      <4>6. \A l \in DOMAIN cl : /\ cl[l].block = calls'[l].block /\ cl[l].id = calls'[l].id
                                 /\ l # k => cl[l].args = calls'[l].args
        BY <1>6, <4>1, <4>4
      <4> HIDE DEF cl
      <4>7. QED  BY <1>6, <3>1, <4>1, <4>2, <4>4, <4>5, <4>6
    <3>2. CASE ~new
      <4>1. \A l \in DOMAIN calls : /\ calls[l].block = calls'[l].block
                                    /\ calls[l].id = calls'[l].id
                                    /\ l # k => calls[l].args = calls'[l].args
        BY <1>4, <1>6, <3>2
      <4>2. calls'[k].args = (IF f.args THEN Append(calls[k].args, Stream!Now) ELSE calls[k].args)
        BY <1>4, <1>6, <3>2
      <4>3. opened = frames /\ Len(calls') = Len(calls) /\ k \in DOMAIN calls  BY <1>3, <1>6, <3>2
      <4>4. QED  BY <2>1, <4>1, <4>2, <4>3
    <3>3. QED  BY <3>1, <3>2
  <2> HIDE DEF opened, n
  <2>4. CASE f.args
    <3>1. c.block = cl[k].block  BY <1>6, <2>3
    <3>2. calls'[k].args = Append(cl[k].args, n + 1)  BY <1>2, <2>3, <2>4
    <3>3. /\ Len(calls') = Len(cl) /\ calls' \in Seq(CallRows) /\ k \in DOMAIN cl
          /\ Held(opened, text, cl, n)
          /\ \A l \in DOMAIN cl : /\ calls'[l].block = cl[l].block /\ calls'[l].id = cl[l].id
                                  /\ l # k => calls'[l].args = cl[l].args
      BY <1>6, <2>3
    <3>4. piece \in Frames /\ piece.type = "delta" /\ piece.block = cl[k].block
          /\ piece.piece = n + 1
      BY <1>2, <1>5, <3>1
    <3>5. Held(Append(opened, piece), text, calls', n + 1)
      BY ONLY <3>2, <3>3, <3>4, CallGrows
    <3>6. QED  BY <1>1, <1>8, <2>2, <2>4, <3>5
  <2>5. CASE ~f.args
    <3>1. \A l \in DOMAIN cl : cl[l].args = calls'[l].args  BY <2>3, <2>5
    <3>2. Held(opened, text, calls', n)  BY <1>6, <2>3, <3>1, HeldSame
    <3>3. Held(opened, text, calls', n + 1)  BY <1>2, <3>2, HeldLater
    <3>4. QED  BY <1>1, <1>8, <2>2, <2>5, <3>3
  <2>6. QED  BY <1>2, <2>4, <2>5
<1>14. QED  BY <1>10, <1>11, <1>12, <1>13 DEF StreamInv

\* A chat stream keeps its calls by index (_accumulate_tool_calls).
LEMMA AccumulateKeeps == ASSUME StreamInv, NEW f \in Stream!Fragments,
                                Stream!Accumulate(f) PROVE StreamInv'
<1> DEFINE chunk == [kind |-> "call", of |-> f]
           passed == [type |-> "chunk", of |-> f, piece |-> Stream!Now]
           fresh == latest[f.index] = 0
           k == IF fresh THEN Len(calls) + 1 ELSE latest[f.index]
           c == IF fresh THEN [Stream!OpenCall(f) EXCEPT !.id = f.id]
                ELSE [calls[k] EXCEPT !.args = IF f.args THEN Append(@, Stream!Now) ELSE @]
<1>1. /\ StreamTypes /\ phase = "open" /\ wire = "chat" /\ ~Stream!Translated
      /\ chunks' = Append(chunks, chunk)
      /\ calls' = (IF fresh THEN Append(calls, c) ELSE [calls EXCEPT ![k] = c])
      /\ latest' = (IF fresh THEN [latest EXCEPT ![f.index] = k] ELSE latest)
      /\ frames' = Append(frames, passed)
      /\ UNCHANGED <<wire, phase, text, finish, stored, completions>>
  BY DEF Stream!Accumulate, StreamInv, Stream!Translated
<1>2. /\ f.index \in Indices /\ f.id \in Stream!Given \cup {Stream!NoId} /\ f.args \in BOOLEAN
      /\ frames \in Seq(Frames) /\ calls \in Seq(CallRows) /\ Len(calls) \in Nat
         /\ Stream!Now \in Nat
  BY <1>1 DEF StreamTypes, Stream!Fragments, Stream!Now
<1>3. ~fresh => k \in DOMAIN calls /\ calls[k] \in CallRows /\ calls[k].args \in Seq(Nat)
  <2>1. ~fresh => k \in DOMAIN calls  BY <1>2 DEF StreamInv, LatestHeld
  <2>2. ~fresh => calls[k] \in CallRows  BY <1>2, <2>1, ElementOfSeq
  <2>3. QED  BY <2>1, <2>2 DEF CallRows
<1>4. /\ c \in CallRows /\ k \in Nat
      /\ fresh => c.args = (IF f.args THEN <<Stream!Now>> ELSE <<>>)
      /\ ~fresh => c.args = (IF f.args THEN Append(calls[k].args, Stream!Now) ELSE calls[k].args)
                   /\ c.id = calls[k].id
  <2>1. CASE fresh
    <3>1. Stream!OpenCall(f) \in CallRows
          /\ Stream!OpenCall(f).args = (IF f.args THEN <<Stream!Now>> ELSE <<>>)
      BY <1>1, OpenedCall
    <3>2. f.id \in AllIds  BY <1>2 DEF AllIds
    <3>3. QED  BY <1>2, <2>1, <3>1, <3>2 DEF CallRows
  <2>2. CASE ~fresh
    <3>1. (IF f.args THEN Append(calls[k].args, Stream!Now) ELSE calls[k].args) \in Seq(Nat)
      BY <1>2, <1>3, <2>2
    <3> DEFINE more == IF f.args THEN Append(calls[k].args, Stream!Now) ELSE calls[k].args
    <3>2. c = [calls[k] EXCEPT !.args = more]  BY <2>2
    <3> HIDE DEF c, more
    <3>3. c \in CallRows /\ c.args = more /\ c.id = calls[k].id
      BY <1>3, <2>2, <3>1, <3>2 DEF CallRows, more
    <3>4. k \in Nat  BY <1>2, <1>3, <2>2
    <3>5. QED  BY <2>2, <3>3, <3>4 DEF more
  <2>3. QED  BY <2>1, <2>2
<1>5. /\ passed \in Frames /\ passed.type = "chunk"
      /\ chunk \in Chunks /\ chunk.kind = "call" /\ chunk.of = f
  BY <1>2 DEF Frames, Chunks
<1>6. /\ k \in DOMAIN calls' /\ calls' \in Seq(CallRows) /\ DOMAIN calls' = DOMAIN calls \cup {k}
      /\ calls'[k] = c /\ \A l \in DOMAIN calls : l # k => calls'[l] = calls[l]
      /\ fresh => k \notin DOMAIN calls
  <2> HIDE DEF c
  <2>1. CASE fresh
    <3>1. calls' = Append(calls, c) /\ k = Len(calls) + 1  BY <1>1, <2>1
    <3>2. QED  BY <1>2, <1>4, <2>1, <3>1
  <2>2. CASE ~fresh
    <3>1. calls' = [calls EXCEPT ![k] = c] /\ k \in DOMAIN calls  BY <1>1, <1>3, <2>2
    <3>2. calls \in [1 .. Len(calls) -> CallRows]  BY <1>2
    <3>3. calls' \in [1 .. Len(calls) -> CallRows]  BY <1>4, <3>1, <3>2
    <3>4. calls' \in Seq(CallRows)  BY <1>2, <3>3
    <3>5. QED  BY <1>2, <2>2, <3>1, <3>2, <3>3, <3>4
  <2>3. QED  BY <2>1, <2>2
<1> HIDE DEF passed, chunk, c, fresh, k
<1>7. /\ frames' \in Seq(Frames) /\ DOMAIN frames \subseteq DOMAIN frames'
      /\ \A i \in DOMAIN frames : frames'[i] = frames[i]
      /\ \A i \in DOMAIN frames' \ DOMAIN frames : frames'[i].type \in {"start", "delta", "chunk"}
  BY <1>1, <1>2, <1>5
<1>8. StreamTypes' /\ LatestHeld'
  <2>1. chunks' \in Seq(Chunks)  BY <1>1, <1>5, ChunkMore
  <2>2. latest' \in [Indices -> Nat]  BY <1>1, <1>4 DEF StreamTypes
  <2>3. StreamTypes'  BY <1>1, <1>6, <1>7, <2>1, <2>2 DEF StreamTypes
  <2>4. \A i \in Indices : latest'[i] = k \/ latest'[i] = latest[i]
    BY <1>1 DEF StreamTypes
  <2>5. QED  BY <1>6, <2>3, <2>4 DEF StreamInv, LatestHeld
<1>9. ApartHeld'
  <2>1. \A l \in DOMAIN calls' : \A x : Holds(calls'[l].args, x) <=>
               \/ l \in DOMAIN calls /\ Holds(calls[l].args, x)
               \/ f.args /\ l = k /\ x = Stream!Now
    <3>1. CASE fresh
      <4>1. \A x : Holds(c.args, x) <=> f.args /\ x = Stream!Now
        <5>1. /\ Holds(<<Stream!Now>>, Stream!Now)
              /\ \A x : Holds(<<Stream!Now>>, x) => x = Stream!Now
          BY DEF Holds
        <5>2. \A x : ~Holds(<<>>, x)  BY DEF Holds
        <5>3. QED  BY <1>4, <3>1, <5>1, <5>2
      <4>2. k \notin DOMAIN calls  BY <1>6, <3>1
      <4>3. QED  BY <1>6, <4>1, <4>2
    <3>2. CASE ~fresh
      <4>1. \A x : Holds(c.args, x) <=> Holds(calls[k].args, x) \/ (f.args /\ x = Stream!Now)
        <5>1. \A x : Holds(Append(calls[k].args, Stream!Now), x) <=>
                         Holds(calls[k].args, x) \/ x = Stream!Now
          BY <1>2, <1>3, <3>2, HoldsMore
        <5>2. QED  BY <1>4, <3>2, <5>1
      <4>2. k \in DOMAIN calls  BY <1>3, <3>2
      <4>3. QED  BY <1>6, <4>1, <4>2
    <3>3. QED  BY <3>1, <3>2
  <2>2. \A l \in DOMAIN calls : calls'[l].id = calls[l].id
    <3>1. ASSUME NEW l \in DOMAIN calls PROVE calls'[l].id = calls[l].id
      <4>1. CASE l = k  BY <1>4, <1>6, <4>1
      <4>2. CASE l # k  BY <1>6, <4>2
      <4>3. QED  BY <4>1, <4>2
    <3>2. QED  BY <3>1
  <2>3. ApartHeld  BY DEF StreamInv
  <2>4. f.args => /\ chunk.kind = "call" /\ k \in DOMAIN calls'
                  /\ Stream!Translated => chunk.of.id \in {Stream!NoId, calls'[k].id}
    BY <1>1, <1>5, <1>6
  <2>5. chunk.kind = "call" /\ chunk.of.args => f.args  BY <1>5
  <2>6. chunk \in Chunks /\ chunks' = Append(chunks, chunk) /\ UNCHANGED wire /\ k \in Nat
        /\ f.args \in BOOLEAN /\ DOMAIN calls \subseteq DOMAIN calls' /\ StreamTypes
    BY <1>1, <1>2, <1>4, <1>5, <1>6
  <2>7. QED  BY ONLY <2>1, <2>2, <2>3, <2>4, <2>5, <2>6, ApartKeeps
<1>10. PhaseHeld' /\ EndHeld'  BY <1>1, <1>7, OpenKeeps
<1>11. ~Stream!Translated'  BY <1>1 DEF Stream!Translated
<1>12. QED  BY <1>8, <1>9, <1>10, <1>11 DEF StreamInv

LEMMA FinishedKeeps == ASSUME StreamInv, Stream!Finished("length") PROVE StreamInv'
<1> DEFINE chunk == [kind |-> "finish"]
<1>1. /\ StreamTypes /\ phase = "open" /\ chunks' = Append(chunks, chunk) /\ finish' = "length"
      /\ UNCHANGED <<wire, phase, text, calls, latest, frames, stored, completions>>
  BY DEF Stream!Finished, StreamInv
<1>2. chunk \in Chunks /\ chunk.kind # "call"  BY DEF Chunks
<1> HIDE DEF chunk
<1>3. chunks' \in Seq(Chunks) /\ Len(chunks') = Len(chunks) + 1 /\ Len(chunks) \in Nat
  <2>1. chunks \in Seq(Chunks)  BY <1>1 DEF StreamTypes
  <2>2. QED  BY <1>1, <1>2, <2>1
<1>4. StreamTypes' /\ LatestHeld'  BY <1>1, <1>3 DEF StreamInv, StreamTypes, LatestHeld
<1>5. ApartHeld'
  <2>1. \A l \in DOMAIN calls' : \A x : Holds(calls'[l].args, x) <=>
               \/ l \in DOMAIN calls /\ Holds(calls[l].args, x)
               \/ FALSE /\ l = 0 /\ x = Stream!Now
    BY <1>1
  <2>2. ApartHeld /\ 0 \in Nat /\ FALSE \in BOOLEAN  BY DEF StreamInv
  <2>3. QED  BY <1>1, <1>2, <2>1, <2>2, ApartKeeps
<1>6. PhaseHeld' /\ EndHeld'  BY <1>1, OpenKeeps DEF StreamTypes
<1>7. Stream!Translated' => Held(frames', text', calls', Len(chunks'))
  BY <1>1, <1>3, HeldLater DEF StreamInv, Stream!Translated
<1>8. QED  BY <1>4, <1>5, <1>6, <1>7 DEF StreamInv
-----------------------------------------------------------------------------
(* The end of a stream.                                                    *)

\* Frames that close leave what was said alone.
LEMMA HeldBehind ==
    ASSUME NEW fr, NEW gr \in Seq(Frames), NEW tx, NEW cl, NEW n, Held(fr, tx, cl, n),
           DOMAIN fr \subseteq DOMAIN gr, \A i \in DOMAIN fr : gr[i] = fr[i],
           \A i \in DOMAIN gr \ DOMAIN fr : gr[i].type \notin {"start", "delta"}
    PROVE  Held(gr, tx, cl, n)
<1>1. Starts(gr) = Starts(fr) /\ Deltas(gr) = Deltas(fr)  BY DEF Starts, Deltas
<1>2. /\ \A i \in Starts(fr) : gr[i] = fr[i]
      /\ \A i \in Deltas(fr) : gr[i] = fr[i]
  BY DEF Starts, Deltas
<1>3. StartsHeld(gr, tx, cl)  BY <1>1, <1>2, StartsStay DEF Held
<1>4. PiecesHeld(gr, tx, cl, n)
  <2>1. PiecesHeld(fr, tx, cl, n)  BY DEF Held
  <2>2. ASSUME NEW p \in DOMAIN tx.pieces
        PROVE  \E i \in Deltas(gr) : gr[i].block = tx.block /\ gr[i].piece = tx.pieces[p]
    <3>1. PICK i \in Deltas(fr) : fr[i].block = tx.block /\ fr[i].piece = tx.pieces[p]
      BY <2>1 DEF PiecesHeld
    <3>2. QED  BY <1>1, <1>2, <3>1
  <2>3. ASSUME NEW k \in DOMAIN cl, NEW p \in DOMAIN cl[k].args
        PROVE  \E i \in Deltas(gr) : gr[i].block = cl[k].block /\ gr[i].piece = cl[k].args[p]
    <3>1. PICK i \in Deltas(fr) : fr[i].block = cl[k].block /\ fr[i].piece = cl[k].args[p]
      BY <2>1 DEF PiecesHeld
    <3>2. QED  BY <1>1, <1>2, <3>1
  <2>4. ASSUME NEW i \in Deltas(gr)
        PROVE  gr[i].piece \in 1 .. n /\ \E j \in Starts(gr) : j < i /\ gr[j].block = gr[i].block
    <3>1. PICK j \in Starts(fr) : j < i /\ fr[j].block = fr[i].block  BY <1>1, <2>1 DEF PiecesHeld
    <3>2. QED  BY <1>1, <1>2, <2>1, <3>1 DEF PiecesHeld
  <2>5. QED  BY <1>1, <1>2, <2>1, <2>2, <2>3, <2>4 DEF PiecesHeld
<1>5. QED  BY <1>3, <1>4 DEF Held

LEMMA Joined ==
    ASSUME NEW s \in Seq(Frames), NEW t \in Seq(Frames)
    PROVE  /\ s \o t \in Seq(Frames) /\ Len(s) \in Nat /\ Len(t) \in Nat
           /\ Len(s \o t) = Len(s) + Len(t)
           /\ DOMAIN s = 1 .. Len(s) /\ DOMAIN t = 1 .. Len(t)
           /\ DOMAIN (s \o t) = 1 .. Len(s) + Len(t)
           /\ \A i \in 1 .. Len(s) : (s \o t)[i] = s[i]
           /\ \A i \in 1 .. Len(t) : (s \o t)[Len(s) + i] = t[i]
OBVIOUS

\* Every block is stopped once, in some order, and the end says what was asked for.
Closes(stops, ending) ==
    /\ stops \in Seq(Frames) /\ Len(stops) = Stream!Blocks /\ ending \in Frames
       /\ ending.type = "end"
    /\ \A i \in 1 .. Stream!Blocks : stops[i].type = "stop"
    /\ wire = "anthropic" /\ calls # <<>> => ending.reason = "tool_use"
    /\ \A b \in 1 .. Stream!Blocks : \E i \in 1 .. Stream!Blocks : /\ stops[i].block = b
          /\ \A j \in 1 .. Stream!Blocks : stops[j].block = b => j = i

\* Where the closing frames of a dialect that translates stand.
LEMMA ClosingBlocks ==
    ASSUME StreamInv, Stream!UpstreamEnds, Stream!Translated
    PROVE  /\ frames' \in Seq(Frames) /\ Stream!Blocks \in Nat
              /\ Len(frames') = Len(frames) + Stream!Blocks + 1
           /\ DOMAIN frames = 1 .. Len(frames) /\ Len(frames) \in Nat
           /\ DOMAIN frames' = 1 .. Len(frames) + Stream!Blocks + 1
           /\ \A i \in DOMAIN frames : frames'[i] = frames[i]
           /\ \A i \in 1 .. Stream!Blocks : frames'[Len(frames) + i].type = "stop"
           /\ frames'[Len(frames) + Stream!Blocks + 1].type = "end"
           /\ wire = "anthropic" /\ calls # <<>> =>
                 frames'[Len(frames) + Stream!Blocks + 1].reason = "tool_use"
           /\ \A b \in 1 .. Stream!Blocks : \E i \in 1 .. Stream!Blocks :
                 /\ frames'[Len(frames) + i].block = b
                 /\ \A j \in 1 .. Stream!Blocks : frames'[Len(frames) + j].block = b => j = i
<1>1. /\ StreamTypes /\ frames \in Seq(Frames) /\ calls \in Seq(CallRows) /\ Len(calls) \in Nat
      /\ text.block \in Nat /\ finish \in {"stop", "length"}
      /\ Stream!Blocks = Count(text, calls) /\ Held(frames, text, calls, Len(chunks))
  BY DEF StreamInv, StreamTypes, Texts, Stream!Blocks, Count
<1>2. Stream!Blocks \in Nat  BY <1>1 DEF Stream!Blocks
<1>3. PICK stops, ending : Closes(stops, ending) /\ frames' = frames \o (stops \o <<ending>>)
  <2>1. CASE wire = "anthropic"
    <3> DEFINE stops == [b \in 1 .. Stream!Blocks |-> Stream!Stop(b)]
               ending == [type |-> "end", reason |-> IF calls # <<>> THEN "tool_use" ELSE finish,
                          output |-> <<>>]
    <3>1. frames' = frames \o (stops \o <<ending>>)
      BY <2>1 DEF Stream!UpstreamEnds, Stream!AnthropicEnd
    <3>2. ending \in Frames /\ ending.type = "end" /\ (calls # <<>> => ending.reason = "tool_use")
      BY <1>1 DEF Frames
    <3>3. \A b \in 1 .. Stream!Blocks : Stream!Stop(b) \in Frames
          /\ Stream!Stop(b).type = "stop" /\ Stream!Stop(b).block = b
      BY <1>2 DEF Frames, Stream!Stop
    <3> HIDE DEF ending
    <3>4. stops \in [1 .. Stream!Blocks -> Frames]  BY <3>3
    <3>5. stops \in Seq(Frames) /\ Len(stops) = Stream!Blocks  BY <1>2, <3>4
    <3>6. \A b \in 1 .. Stream!Blocks : stops[b].type = "stop" /\ stops[b].block = b  BY <3>3
    <3>7. \A b \in 1 .. Stream!Blocks : \E i \in 1 .. Stream!Blocks : /\ stops[i].block = b
             /\ \A j \in 1 .. Stream!Blocks : stops[j].block = b => j = i
      BY <3>6
    <3> HIDE DEF stops
    <3>8. Closes(stops, ending)  BY <3>2, <3>5, <3>6, <3>7 DEF Closes
    <3>9. QED  BY <3>1, <3>8
  <2>2. CASE wire = "responses"
    <3> DEFINE texts == IF text.block = 0 THEN <<>> ELSE <<text.block>>
               closed == [k \in DOMAIN calls |-> Stream!StopCall(calls[k])]
               rest == [k \in DOMAIN texts |-> Stream!Stop(texts[k])]
               stops == closed \o rest
               ending == [type |-> "end", reason |-> "completed",
                          output |-> texts \o [k \in DOMAIN calls |-> calls[k].block]]
    <3>1. frames' = frames \o (stops \o <<ending>>)
      BY <2>2 DEF Stream!UpstreamEnds, Stream!ResponsesEnd
    <3>2. \A k \in DOMAIN calls : /\ Stream!StopCall(calls[k]) \in Frames
                                  /\ Stream!StopCall(calls[k]).type = "stop"
                                  /\ Stream!StopCall(calls[k]).block = calls[k].block
                                  /\ calls[k].block \in Nat
      <4>1. \A k \in DOMAIN calls : calls[k] \in CallRows  BY <1>1, ElementOfSeq
      <4>2. QED  BY <4>1 DEF CallRows, Frames, Stream!StopCall
    <3>3. /\ texts \in Seq(Nat) /\ Len(texts) = Stream!Blocks - Len(calls)
          /\ \A k \in DOMAIN texts : texts[k] = text.block
      <4>1. CASE text.block = 0  BY <1>1, <4>1 DEF Stream!Blocks
      <4>2. CASE text.block # 0  BY <1>1, <4>2 DEF Stream!Blocks
      <4>3. QED  BY <4>1, <4>2
    <3>4. ending \in Frames /\ ending.type = "end"
      <4> DEFINE placed == [k \in DOMAIN calls |-> calls[k].block]
      <4>1. placed \in Seq(Nat)
        <5>1. placed \in [1 .. Len(calls) -> Nat]  BY <1>1, <3>2
        <5>2. QED  BY <1>1, <5>1
      <4> HIDE DEF texts, placed
      <4>2. texts \o placed \in Seq(Nat)  BY <3>3, <4>1
      <4>3. QED  BY <4>2 DEF Frames, placed
    <3>5. closed \in Seq(Frames) /\ Len(closed) = Len(calls)
      <4>1. closed \in [1 .. Len(calls) -> Frames]  BY <1>1, <3>2
      <4>2. QED  BY <1>1, <4>1
    <3>6. rest \in Seq(Frames) /\ Len(rest) = Stream!Blocks - Len(calls)
      <4>0. Stream!Stop(text.block) \in Frames  BY <1>1 DEF Frames, Stream!Stop
      <4> HIDE DEF texts
      <4>1. rest \in [1 .. Len(texts) -> Frames]  BY <3>3, <4>0
      <4>2. Len(texts) \in Nat  BY <3>3
      <4>3. QED  BY <3>3, <4>1, <4>2
    <3>7. \A k \in DOMAIN calls : closed[k].type = "stop" /\ closed[k].block = calls[k].block
      BY <3>2
    <3>8. \A k \in DOMAIN rest : rest[k].type = "stop" /\ rest[k].block = text.block
      BY <3>3 DEF Stream!Stop
    <3> HIDE DEF texts, closed, rest, ending
    <3>9. /\ stops \in Seq(Frames) /\ Len(stops) = Stream!Blocks
          /\ \A k \in 1 .. Len(calls) : stops[k] = closed[k]
          /\ \A k \in 1 .. Stream!Blocks - Len(calls) : stops[Len(calls) + k] = rest[k]
          /\ DOMAIN closed = 1 .. Len(calls) /\ DOMAIN rest = 1 .. Stream!Blocks - Len(calls)
      <4>1. /\ stops \in Seq(Frames) /\ Len(closed) \in Nat /\ Len(rest) \in Nat
            /\ Len(stops) = Len(closed) + Len(rest)
            /\ DOMAIN closed = 1 .. Len(closed) /\ DOMAIN rest = 1 .. Len(rest)
            /\ \A i \in 1 .. Len(closed) : stops[i] = closed[i]
            /\ \A i \in 1 .. Len(rest) : stops[Len(closed) + i] = rest[i]
        BY ONLY <3>5, <3>6, Joined
      <4> HIDE DEF stops
      <4>2. Len(calls) + (Stream!Blocks - Len(calls)) = Stream!Blocks  BY <1>1, <1>2
      <4>3. QED  BY <3>5, <3>6, <4>1, <4>2
    <3> HIDE DEF stops
    <3>10. /\ \A k \in 1 .. Len(calls) : stops[k].type = "stop" /\ stops[k].block = calls[k].block
           /\ \A k \in Len(calls) + 1 .. Stream!Blocks : stops[k].type = "stop"
              /\ stops[k].block = text.block
      <4>1. \A k \in 1 .. Len(calls) : stops[k].type = "stop" /\ stops[k].block = calls[k].block
        <5>1. DOMAIN calls = 1 .. Len(calls)  BY <1>1
        <5>2. QED  BY <3>7, <3>9, <5>1
      <4>2. \A k \in 1 .. Stream!Blocks - Len(calls) : stops[Len(calls) + k].type = "stop"
                                              /\ stops[Len(calls) + k].block = text.block
        <5> TAKE k \in 1 .. Stream!Blocks - Len(calls)
        <5>1. stops[Len(calls) + k] = rest[k] /\ k \in DOMAIN rest  BY <3>9
        <5>2. QED  BY <3>8, <5>1
      <4>3. ASSUME NEW k \in Len(calls) + 1 .. Stream!Blocks
            PROVE  stops[k].type = "stop" /\ stops[k].block = text.block
        <5>1. k - Len(calls) \in 1 .. Stream!Blocks - Len(calls)
              /\ Len(calls) + (k - Len(calls)) = k
          BY <1>1, <1>2
        <5>2. QED  BY <4>2, <5>1
      <4>4. QED  BY <4>1, <4>3
    <3>11. DOMAIN calls = 1 .. Len(calls) /\ \A i \in 1 .. Stream!Blocks :
              i \in DOMAIN calls \/ (i \in Len(calls) + 1 .. Stream!Blocks
              /\ i = Len(calls) + 1 /\ Stream!Blocks = i
                                     /\ text.block # 0)
      BY <1>1 DEF Stream!Blocks
    <3>12. /\ \A k \in DOMAIN calls : calls[k].block \in 1 .. Stream!Blocks
              /\ calls[k].block # text.block
           /\ \A k, l \in DOMAIN calls : k < l => calls[k].block < calls[l].block
           /\ \A b \in 1 .. Stream!Blocks : b
                  = text.block \/ \E k \in DOMAIN calls : calls[k].block = b
      BY <1>1 DEF Held, BlocksHeld
    <3>13. ASSUME NEW b \in 1 .. Stream!Blocks
           PROVE  \E i \in 1 .. Stream!Blocks : /\ stops[i].block = b
                     /\ \A j \in 1 .. Stream!Blocks : stops[j].block = b => j = i
      <4>1. CASE b = text.block
        <5>1. Stream!Blocks = Len(calls) + 1  BY <1>1, <1>2, <4>1 DEF Stream!Blocks
        <5>2. stops[Stream!Blocks].block = b /\ Stream!Blocks \in 1 .. Stream!Blocks
          BY <1>1, <3>10, <4>1, <5>1
        <5>3. \A j \in 1 .. Stream!Blocks : stops[j].block = b => j = Stream!Blocks
          BY <3>10, <3>11, <3>12, <4>1
        <5>4. QED  BY <5>2, <5>3
      <4>2. CASE b # text.block
        <5>1. PICK k \in DOMAIN calls : calls[k].block = b  BY <3>12, <4>2
        <5>2. stops[k].block = b /\ k \in 1 .. Stream!Blocks
          <6>1. Len(calls) <= Stream!Blocks  BY <1>1 DEF Stream!Blocks
          <6>2. QED  BY <1>1, <1>2, <3>10, <3>11, <5>1, <6>1
        <5>3. ASSUME NEW j \in 1 .. Stream!Blocks, stops[j].block = b PROVE j = k
          <6>1. j \in DOMAIN calls /\ calls[j].block = b  BY <3>10, <3>11, <4>2, <5>3
          <6>2. j \in Nat /\ k \in Nat /\ calls[j].block \in Nat /\ calls[k].block \in Nat
            BY <1>1, <3>2, <6>1
          <6>3. ~(j < k) /\ ~(k < j)  BY <3>12, <5>1, <6>1, <6>2
          <6>4. QED  BY <6>2, <6>3
        <5>4. QED  BY <5>2, <5>3
      <4>3. QED  BY <4>1, <4>2
    <3>14. \A i \in 1 .. Stream!Blocks : stops[i].type = "stop"  BY <3>10, <3>11
    <3>15. Closes(stops, ending)  BY <2>2, <3>4, <3>9, <3>13, <3>14 DEF Closes
    <3>16. QED  BY <3>1, <3>15
  <2>3. QED  BY <1>1, <2>1, <2>2 DEF StreamTypes, Stream!Translated
<1>4. /\ stops \o <<ending>> \in Seq(Frames) /\ Len(stops \o <<ending>>) = Stream!Blocks + 1
      /\ \A i \in 1 .. Stream!Blocks : (stops \o <<ending>>)[i] = stops[i]
      /\ (stops \o <<ending>>)[Stream!Blocks + 1] = ending
  BY <1>2, <1>3 DEF Closes
<1> DEFINE closing == stops \o <<ending>>
<1>5. /\ frames' = frames \o closing /\ closing \in Seq(Frames)
         /\ Len(closing) = Stream!Blocks + 1
      /\ \A i \in 1 .. Stream!Blocks : closing[i] = stops[i]
      /\ closing[Stream!Blocks + 1] = ending
  BY <1>3, <1>4
<1> HIDE DEF closing
<1>6. /\ frames' \in Seq(Frames) /\ Len(frames') = Len(frames) + Stream!Blocks + 1
      /\ DOMAIN frames = 1 .. Len(frames) /\ Len(frames) \in Nat
      /\ DOMAIN frames' = 1 .. Len(frames) + Stream!Blocks + 1
      /\ \A i \in DOMAIN frames : frames'[i] = frames[i]
      /\ \A i \in 1 .. Stream!Blocks + 1 : frames'[Len(frames) + i] = closing[i]
  <2>1. /\ frames \o closing \in Seq(Frames) /\ Len(frames) \in Nat
        /\ Len(frames \o closing) = Len(frames) + Len(closing) /\ DOMAIN frames = 1 .. Len(frames)
        /\ DOMAIN (frames \o closing) = 1 .. Len(frames) + Len(closing)
        /\ \A i \in 1 .. Len(frames) : (frames \o closing)[i] = frames[i]
        /\ \A i \in 1 .. Len(closing) : (frames \o closing)[Len(frames) + i] = closing[i]
    BY ONLY <1>1, <1>5, Joined
  <2>2. Len(frames) + Len(closing) = Len(frames) + Stream!Blocks + 1  BY <1>2, <1>5, <2>1
  <2>3. QED  BY <1>5, <2>1, <2>2
<1>7. /\ \A i \in 1 .. Stream!Blocks : frames'[Len(frames) + i] = stops[i]
      /\ frames'[Len(frames) + Stream!Blocks + 1] = ending
  <2>1. \A i \in 1 .. Stream!Blocks : i \in 1 .. Stream!Blocks + 1  BY <1>2
  <2>2. Stream!Blocks + 1 \in 1 .. Stream!Blocks + 1
        /\ Len(frames) + Stream!Blocks + 1 = Len(frames) + (Stream!Blocks + 1)
    BY <1>2, <1>6
  <2>3. QED  BY <1>5, <1>6, <2>1, <2>2
<1>8. /\ \A i \in 1 .. Stream!Blocks : frames'[Len(frames) + i].type = "stop"
      /\ frames'[Len(frames) + Stream!Blocks + 1].type = "end"
      /\ wire = "anthropic" /\ calls # <<>> =>
            frames'[Len(frames) + Stream!Blocks + 1].reason = "tool_use"
  BY <1>3, <1>7 DEF Closes
<1>9. ASSUME NEW b \in 1 .. Stream!Blocks
      PROVE  \E i \in 1 .. Stream!Blocks : /\ frames'[Len(frames) + i].block = b
                 /\ \A j \in 1 .. Stream!Blocks : frames'[Len(frames) + j].block = b => j = i
  <2>1. PICK i \in 1 .. Stream!Blocks : /\ stops[i].block = b
                                        /\ \A j \in 1 .. Stream!Blocks : stops[j].block = b =>
                                           j = i
    BY <1>3 DEF Closes
  <2>2. frames'[Len(frames) + i].block = b  BY <1>7, <2>1
  <2>3. \A j \in 1 .. Stream!Blocks : frames'[Len(frames) + j].block = b => j = i  BY <1>7, <2>1
  <2>4. QED  BY <2>2, <2>3
<1>10. QED  BY <1>2, <1>6, <1>8, <1>9

LEMMA UpstreamEndsKeeps == ASSUME StreamInv, Stream!UpstreamEnds PROVE StreamInv'
<1>1. /\ StreamTypes /\ phase = "open" /\ phase' = "ended"
         /\ Stream!Translated' = Stream!Translated
      /\ UNCHANGED <<wire, chunks, text, calls, latest, finish, stored, completions>>
  BY DEF Stream!UpstreamEnds, StreamInv, Stream!Translated
<1>2. CASE ~Stream!Translated
  <2>1. frames' = frames \o <<>>
    BY <1>1, <1>2 DEF Stream!UpstreamEnds, Stream!Translated, StreamTypes
  <2>2. frames' = frames  BY <1>1, <2>1 DEF StreamTypes
  <2>3. StreamTypes' /\ LatestHeld' /\ ApartHeld' /\ PhaseHeld'
    BY <1>1, <2>2 DEF StreamInv, StreamTypes, LatestHeld, ApartHeld, Stream!Translated, PhaseHeld
  <2>4. EndHeld'  BY <1>1, <1>2, <2>2 DEF StreamInv, EndHeld, Stream!Of, Stream!Translated
  <2>5. QED  BY <1>1, <1>2, <2>3, <2>4 DEF StreamInv
<1>3. CASE Stream!Translated
  <2>1. /\ frames' \in Seq(Frames) /\ Stream!Blocks \in Nat
           /\ Len(frames') = Len(frames) + Stream!Blocks + 1
        /\ DOMAIN frames = 1 .. Len(frames) /\ Len(frames) \in Nat
        /\ DOMAIN frames' = 1 .. Len(frames) + Stream!Blocks + 1
        /\ \A i \in DOMAIN frames : frames'[i] = frames[i]
        /\ \A i \in 1 .. Stream!Blocks : frames'[Len(frames) + i].type = "stop"
        /\ frames'[Len(frames) + Stream!Blocks + 1].type = "end"
        /\ wire = "anthropic" /\ calls # <<>> =>
                 frames'[Len(frames) + Stream!Blocks + 1].reason = "tool_use"
        /\ \A b \in 1 .. Stream!Blocks : \E i \in 1 .. Stream!Blocks :
              /\ frames'[Len(frames) + i].block = b
              /\ \A j \in 1 .. Stream!Blocks : frames'[Len(frames) + j].block = b => j = i
    BY <1>3, ClosingBlocks
  <2>2. \A i \in DOMAIN frames : frames[i].type \notin {"stop", "end", "error"}
    BY <1>1 DEF StreamInv, EndHeld, Stream!Of
  <2>3. \A i \in DOMAIN frames' : \/ i \in DOMAIN frames
                                  \/ i - Len(frames) \in 1 .. Stream!Blocks
                                     /\ frames'[i].type = "stop"
                                  \/ i = Len(frames) + Stream!Blocks + 1
    <3>1. ASSUME NEW i \in DOMAIN frames', i \notin DOMAIN frames,
                 i # Len(frames) + Stream!Blocks + 1
          PROVE  i - Len(frames) \in 1 .. Stream!Blocks /\ frames'[i].type = "stop"
      <4>1. i - Len(frames) \in 1 .. Stream!Blocks /\ Len(frames) + (i - Len(frames)) = i
        <5>1. Len(frames) \in Nat /\ Stream!Blocks \in Nat  BY <2>1
        <5>2. i \in 1 .. Len(frames) + Stream!Blocks + 1 /\ i \notin 1 .. Len(frames)
          BY <2>1, <3>1
        <5>3. QED  BY ONLY <3>1, <5>1, <5>2
      <4>2. \A m \in 1 .. Stream!Blocks : frames'[Len(frames) + m].type = "stop"  BY <2>1
      <4>3. QED  BY ONLY <4>1, <4>2
    <3>2. QED  BY <3>1
  <2>4. \A i \in DOMAIN frames' : /\ frames'[i].type # "error"
                                  /\ frames'[i].type = "end" => i = Len(frames')
                                  /\ frames'[i].type = "stop" =>
                                     i - Len(frames) \in 1 .. Stream!Blocks
                                  /\ frames'[i].type \in {"start", "delta"} => i \in DOMAIN frames
    BY <2>1, <2>2, <2>3
  <2>5. Stream!Of("error")' = {} /\ Stream!Of("end")' = {Len(frames')}
    <3>1. Len(frames') \in DOMAIN frames' /\ frames'[Len(frames')].type = "end"  BY <2>1
    <3>2. QED  BY <2>4, <3>1 DEF Stream!Of
  <2>6. \A i \in Stream!Of("stop")', j \in Stream!Of("delta")' : j < i
    <3>1. \A i \in Stream!Of("stop")' : i \in DOMAIN frames'
          /\ i - Len(frames) \in 1 .. Stream!Blocks
      BY <2>4 DEF Stream!Of
    <3>2. \A j \in Stream!Of("delta")' : j \in DOMAIN frames  BY <2>4 DEF Stream!Of
    <3>3. QED  BY <2>1, <3>1, <3>2
  <2>7. ASSUME NEW b \in 1 .. Stream!Blocks
        PROVE  \E i \in Stream!Of("stop")' : /\ frames'[i].block = b
                   /\ \A j \in Stream!Of("stop")' : frames'[j].block = b => j = i
    <3>1. PICK i \in 1 .. Stream!Blocks : /\ frames'[Len(frames) + i].block = b
              /\ \A j \in 1 .. Stream!Blocks : frames'[Len(frames) + j].block = b => j = i
      BY <2>1
    <3>2. Len(frames) + i \in DOMAIN frames' /\ frames'[Len(frames) + i].type = "stop"
      <4>1. Len(frames) + i \in 1 .. Len(frames) + Stream!Blocks + 1  BY <2>1
      <4>2. QED  BY <2>1, <4>1
    <3>3. ASSUME NEW j \in Stream!Of("stop")', frames'[j].block = b PROVE j = Len(frames) + i
      <4>1. j \in DOMAIN frames' /\ j - Len(frames) \in 1 .. Stream!Blocks  BY <2>4 DEF Stream!Of
      <4>2. j = Len(frames) + (j - Len(frames))  BY <2>1, <4>1
      <4>3. j - Len(frames) = i  BY <3>1, <3>3, <4>1, <4>2
      <4>4. QED  BY <4>2, <4>3
    <3>4. Len(frames) + i \in Stream!Of("stop")'  BY <3>2 DEF Stream!Of
    <3>5. QED  BY <3>1, <3>3, <3>4
  <2>8. EndHeld'
    <3>1. Stream!Blocks' = Stream!Blocks  BY <1>1 DEF Stream!Blocks
    <3>2. Len(frames') = Len(frames) + Stream!Blocks + 1  BY <2>1
    <3>3. wire' = "anthropic" => \A i \in Stream!Of("end")' : calls' # <<>> =>
          frames'[i].reason = "tool_use"
      BY <1>1, <2>1, <2>5, <3>2
    <3>4. phase' # "open"  BY <1>1
    <3>5. QED  BY <2>5, <2>6, <2>7, <3>1, <3>3, <3>4 DEF EndHeld
  <2>9. StreamTypes' /\ LatestHeld' /\ ApartHeld' /\ PhaseHeld'
    BY <1>1, <2>1 DEF StreamInv, StreamTypes, LatestHeld, ApartHeld, Stream!Translated, PhaseHeld
  <2>10. Held(frames', text', calls', Len(chunks'))
    <3>1. Held(frames, text, calls, Len(chunks))  BY <1>3 DEF StreamInv
    <3>2. \A i \in DOMAIN frames' \ DOMAIN frames : frames'[i].type \notin {"start", "delta"}
      BY <2>4
    <3>3. DOMAIN frames \subseteq DOMAIN frames'  BY <2>1
    <3>4. Held(frames', text, calls, Len(chunks))  BY <2>1, <3>1, <3>2, <3>3, HeldBehind
    <3>5. QED  BY <1>1, <3>4
  <2>11. QED  BY <2>8, <2>9, <2>10 DEF StreamInv
<1>4. QED  BY <1>2, <1>3

LEMMA UpstreamFailsKeeps == ASSUME StreamInv, Stream!UpstreamFails PROVE StreamInv'
<1> DEFINE f == [type |-> "error"]
<1>1. /\ StreamTypes /\ phase = "open" /\ phase' = "failed"
         /\ Stream!Translated' = Stream!Translated
      /\ frames' = Append(frames, f) /\ frames \in Seq(Frames)
      /\ UNCHANGED <<wire, chunks, text, calls, latest, finish, stored, completions>>
  BY DEF Stream!UpstreamFails, StreamInv, Stream!Translated, StreamTypes
<1>2. f \in Frames /\ f.type = "error"  BY DEF Frames
<1> HIDE DEF f
<1>3. /\ frames' \in Seq(Frames) /\ DOMAIN frames \subseteq DOMAIN frames'
      /\ \A i \in DOMAIN frames : frames'[i] = frames[i]
      /\ \A i \in DOMAIN frames' \ DOMAIN frames : frames'[i].type = "error"
  BY <1>1, <1>2
<1>4. StreamTypes' /\ LatestHeld' /\ ApartHeld' /\ PhaseHeld'
  BY <1>1, <1>3 DEF StreamInv, StreamTypes, LatestHeld, ApartHeld, Stream!Translated, PhaseHeld
<1>5. EndHeld'
  <2>1. \A i \in DOMAIN frames : frames[i].type \notin {"stop", "end", "error"}
    BY <1>1 DEF StreamInv, EndHeld, Stream!Of
  <2>2. \A i \in DOMAIN frames' : frames'[i].type \notin {"stop", "end"}  BY <1>3, <2>1
  <2>3. Stream!Of("stop")' = {} /\ Stream!Of("end")' = {}  BY <2>2 DEF Stream!Of
  <2>4. QED  BY <1>1, <2>3 DEF EndHeld
<1>6. Stream!Translated' => Held(frames', text', calls', Len(chunks'))
  <2>1. Stream!Translated => Held(frames, text, calls, Len(chunks))  BY DEF StreamInv
  <2>2. \A i \in DOMAIN frames' \ DOMAIN frames : frames'[i].type \notin {"start", "delta"}
    BY <1>3
  <2>3. Stream!Translated => Held(frames', text, calls, Len(chunks))
    BY <1>3, <2>1, <2>2, HeldBehind
  <2>4. QED  BY <1>1, <2>3
<1>7. QED  BY <1>4, <1>5, <1>6 DEF StreamInv

LEMMA CompleteKeeps == ASSUME StreamInv, Stream!Complete PROVE StreamInv'
<1>1. /\ StreamTypes /\ phase \in {"ended", "failed"} /\ phase' = "over"
      /\ Stream!Translated' = Stream!Translated /\ stored' = Stream!Message
         /\ completions' = completions + 1
      /\ UNCHANGED <<wire, chunks, text, calls, latest, finish>> /\ completions = 0
  BY DEF Stream!Complete, StreamInv, Stream!Translated, PhaseHeld
<1>2. LatestHeld' /\ ApartHeld'  BY <1>1 DEF StreamInv, LatestHeld, ApartHeld, Stream!Translated
<1>3. PhaseHeld'
  <2>1. ASSUME Stream!Translated
        PROVE  /\ Stream!Message.text = text.pieces /\ DOMAIN Stream!Message.calls = DOMAIN calls
               /\ Len(Stream!Message.calls) = Len(calls)
               /\ \A k \in DOMAIN calls : Stream!Message.calls[k].id = calls[k].id
                                          /\ Stream!Message.calls[k].args = calls[k].args
    <3>1. Stream!Message.text = text.pieces
          /\ Stream!Message.calls = [k \in DOMAIN calls |->
                 [id |-> calls[k].id, name |-> calls[k].name, args |-> calls[k].args]]
      BY <2>1 DEF Stream!Message, Stream!Translated
    <3>2. DOMAIN calls = 1 .. Len(calls) /\ Len(calls) \in Nat  BY <1>1 DEF StreamTypes
    <3>3. DOMAIN Stream!Message.calls = 1 .. Len(calls)  BY <3>1, <3>2
    <3>4. Len(Stream!Message.calls) = Len(calls)  BY <3>1, <3>2
    <3>5. QED  BY <3>1, <3>2, <3>3, <3>4
  <2>2. QED  BY <1>1, <2>1 DEF PhaseHeld
<1>4. CASE Stream!Translated
  <2>1. frames' = frames  BY <1>4 DEF Stream!Complete, Stream!Translated
  <2>2. StreamTypes'  BY <1>1, <2>1 DEF StreamTypes
  <2>3. EndHeld'
    BY <1>1, <2>1 DEF StreamInv, EndHeld, Stream!Of, Stream!Blocks, Stream!Translated
  <2>4. Held(frames', text', calls', Len(chunks'))  BY <1>1, <1>4, <2>1 DEF StreamInv
  <2>5. QED  BY <1>2, <1>3, <2>2, <2>3, <2>4 DEF StreamInv
<1>5. CASE ~Stream!Translated
  <2>1. wire = "chat" /\ phase' # "open"  BY <1>1, <1>5 DEF Stream!Translated
  <2>2. EndHeld'  BY <1>1, <1>5, <2>1 DEF EndHeld
  <2>3. frames' \in Seq(Frames)
    <3>1. [type |-> "end", reason |-> finish, output |-> <<>>] \in Frames
      <4>1. <<>> \in Seq(Nat) /\ finish \in {"stop", "length"}  BY <1>1 DEF StreamTypes
      <4>2. QED  BY <4>1 DEF Frames
    <3>2. frames \in Seq(Frames)  BY <1>1 DEF StreamTypes
    <3>3. frames' = frames \/ frames' = Append(frames,
                                               [type |-> "end", reason |-> finish,
                                                output |-> <<>>])
      BY DEF Stream!Complete
    <3>4. QED  BY <3>1, <3>2, <3>3
  <2>4. StreamTypes'  BY <1>1, <2>3 DEF StreamTypes
  <2>5. QED  BY <1>1, <1>2, <1>3, <1>5, <2>2, <2>4 DEF StreamInv
<1>6. QED  BY <1>4, <1>5

LEMMA LeaveKeeps == ASSUME StreamInv, Stream!Leave PROVE StreamInv'
<1>1. /\ phase # "over" /\ phase' = "gone"
      /\ UNCHANGED <<wire, chunks, text, calls, latest, finish, frames, stored, completions>>
  BY DEF Stream!Leave
<1>2. StreamTypes' /\ LatestHeld' /\ ApartHeld' /\ PhaseHeld'
  BY <1>1 DEF StreamInv, StreamTypes, LatestHeld, ApartHeld, PhaseHeld, Stream!Translated
<1>3. EndHeld'  BY <1>1 DEF StreamInv, EndHeld, Stream!Of, Stream!Blocks, Stream!Translated
<1>4. Stream!Translated' => Held(frames', text', calls', Len(chunks'))
  BY <1>1 DEF StreamInv, Stream!Translated
<1>5. QED  BY <1>2, <1>3, <1>4 DEF StreamInv

LEMMA StreamStutter == ASSUME StreamInv, UNCHANGED Stream!streamVars PROVE StreamInv'
<1>1. UNCHANGED <<wire, phase, chunks, text, calls, latest, finish, frames, stored, completions>>
  BY DEF Stream!streamVars
<1>2. StreamTypes' /\ LatestHeld' /\ ApartHeld' /\ PhaseHeld'
  BY <1>1 DEF StreamInv, StreamTypes, LatestHeld, ApartHeld, PhaseHeld, Stream!Translated
<1>3. EndHeld'  BY <1>1 DEF StreamInv, EndHeld, Stream!Of, Stream!Blocks, Stream!Translated
<1>4. Stream!Translated' => Held(frames', text', calls', Len(chunks'))
  BY <1>1 DEF StreamInv, Stream!Translated
<1>5. QED  BY <1>2, <1>3, <1>4 DEF StreamInv

LEMMA StreamStep == StreamInv /\ Stream!StreamNext => StreamInv'
BY TextPieceKeeps, FeedKeeps, AccumulateKeeps, FinishedKeeps, UpstreamEndsKeeps,
   UpstreamFailsKeeps, CompleteKeeps, LeaveKeeps DEF Stream!StreamNext
-----------------------------------------------------------------------------
(* The properties.                                                         *)

LEMMA Apart == \A a, b \in Nat : a < b <=> ~(b < a) /\ a # b
OBVIOUS

\* Numbers met in their order are read one after the other.
LEMMA InTurn ==
    ASSUME NEW S \in SUBSET Nat, NEW n \in Nat, NEW rank \in [S -> Nat],
           NEW want \in [1 .. n -> Nat],
           \A i, j \in 1 .. n : i < j => want[i] < want[j],
           \A i, j \in S : i < j => rank[i] < rank[j],
           \A k \in 1 .. n : \E i \in S : rank[i] = want[k],
           \A i \in S : \E k \in 1 .. n : rank[i] = want[k]
    PROVE  \E at \in Stream!Read(S, n) : \A k \in 1 .. n : rank[at[k]] = want[k]
<1> DEFINE at == [k \in 1 .. n |-> CHOOSE i \in S : rank[i] = want[k]]
<1>1. \A k \in 1 .. n : at[k] \in S /\ rank[at[k]] = want[k]  OBVIOUS
<1>2. at \in [1 .. n -> S]  BY <1>1
<1> HIDE DEF at
<1>3. \A i, j \in S : rank[i] = rank[j] => i = j
  <2>1. ASSUME NEW i \in S, NEW j \in S, rank[i] = rank[j] PROVE i = j
    <3>1. ~(i < j) /\ ~(j < i)
      <4>1. rank[i] \in Nat /\ rank[j] \in Nat  OBVIOUS
      <4>2. (i < j => rank[i] < rank[j]) /\ (j < i => rank[j] < rank[i])  OBVIOUS
      <4>3. ~(rank[i] < rank[j]) /\ ~(rank[j] < rank[i])  BY <2>1, <4>1
      <4>4. QED  BY <4>2, <4>3
    <3>2. i \in Nat /\ j \in Nat  OBVIOUS
    <3>3. QED  BY <3>1, <3>2
  <2>2. QED  BY <2>1
<1>4. ASSUME NEW i \in 1 .. n, NEW j \in 1 .. n, i < j PROVE at[i] < at[j]
  <2>1. rank[at[i]] < rank[at[j]] /\ at[i] \in S /\ at[j] \in S  BY <1>1, <1>4
  <2>2. ~(at[j] < at[i]) /\ at[i] # at[j]
    <3>1. rank[at[i]] \in Nat /\ rank[at[j]] \in Nat  BY <2>1
    <3>2. at[j] < at[i] => rank[at[j]] < rank[at[i]]  BY <2>1
    <3>3. ~(rank[at[j]] < rank[at[i]]) /\ rank[at[i]] # rank[at[j]]
      BY ONLY <2>1, <3>1, Apart
    <3>4. QED  BY <3>2, <3>3
  <2>3. at[i] \in Nat /\ at[j] \in Nat  BY <2>1
  <2>4. QED  BY ONLY <2>2, <2>3, Apart
<1>5. ASSUME NEW s \in S PROVE \E i \in 1 .. n : at[i] = s
  <2>1. PICK k \in 1 .. n : rank[s] = want[k]  OBVIOUS
  <2>2. at[k] \in S /\ rank[at[k]] = rank[s]  BY <1>1, <2>1
  <2>3. at[k] = s  BY <1>3, <2>2
  <2>4. QED  BY <2>3
<1>6. at \in Stream!Read(S, n)  BY <1>2, <1>4, <1>5 DEF Stream!Read
<1>7. QED  BY <1>1, <1>6

LEMMA Spelled ==
    ASSUME frames \in Seq(Frames), NEW b \in Nat, NEW pieces \in Seq(Nat), Growing(pieces),
           \A p \in DOMAIN pieces :
              \E i \in Deltas(frames) : frames[i].block = b /\ frames[i].piece = pieces[p],
           \A i \in Deltas(frames) : frames[i].block = b => Holds(pieces, frames[i].piece),
           \A i, j \in Deltas(frames) : i < j => frames[i].piece < frames[j].piece
    PROVE  Stream!Spell(b, pieces)
<1> DEFINE S == Stream!DeltasOf(b)  rank == [i \in S |-> frames[i].piece]  n == Len(pieces)
<1>1. DOMAIN frames \subseteq Nat /\ n \in Nat /\ DOMAIN pieces = 1 .. n
      /\ pieces \in [1 .. n -> Nat]
  OBVIOUS
<1>2. S = {i \in Deltas(frames) : frames[i].block = b} /\ S \subseteq DOMAIN frames
  BY DEF Stream!DeltasOf, Stream!Of, Deltas
<1>3. rank \in [S -> Nat]
  <2>1. \A i \in S : frames[i].piece \in Nat
    <3>1. \A i \in Deltas(frames) : frames[i].piece \in Nat
      BY FrameFacts DEF Deltas
    <3>2. QED  BY <1>2, <3>1
  <2>2. QED  BY <2>1
<1>4. \A i \in S : rank[i] = frames[i].piece  OBVIOUS
<1> HIDE DEF S, rank, n
<1>5. S \in SUBSET Nat  BY <1>1, <1>2
<1>6. \A i, j \in 1 .. n : i < j => pieces[i] < pieces[j]  BY <1>1 DEF Growing
<1>7. \A i, j \in S : i < j => rank[i] < rank[j]  BY <1>2, <1>4
<1>8. \A k \in 1 .. n : \E i \in S : rank[i] = pieces[k]  BY <1>1, <1>2, <1>4
<1>9. \A i \in S : \E k \in 1 .. n : rank[i] = pieces[k]  BY <1>1, <1>2, <1>4 DEF Holds
<1>10. PICK at \in Stream!Read(S, n) : \A k \in 1 .. n : rank[at[k]] = pieces[k]
  <2>1. \E at \in Stream!Read(S, n) : \A k \in 1 .. n : rank[at[k]] = pieces[k]
    BY ONLY <1>1, <1>3, <1>5, <1>6, <1>7, <1>8, <1>9, InTurn
  <2>2. QED  BY <2>1
<1>11. \A k \in 1 .. n : frames[at[k]].piece = pieces[k]
  <2>1. \A k \in 1 .. n : at[k] \in S  BY DEF Stream!Read
  <2>2. QED  BY <1>4, <1>10, <2>1
<1>12. QED  BY <1>1, <1>10, <1>11 DEF Stream!Spell, S, n

LEMMA AllSeen == ASSUME StreamInv, stored # <<>>, Stream!Translated
                 PROVE  /\ \E at \in Stream!Read(Stream!CallStarts, Len(stored.calls)) :
                              \A k \in DOMAIN stored.calls :
                                 /\ frames[at[k]].id = stored.calls[k].id
                                 /\ Stream!Spell(frames[at[k]].block, stored.calls[k].args)
                        /\ Stream!Spell(text.block, stored.text)
<1> DEFINE S == Stream!CallStarts  n == Len(calls)  rank == [i \in S |-> frames[i].block]
           want == [k \in 1 .. n |-> calls[k].block]
<1>1. /\ frames \in Seq(Frames) /\ text \in Texts /\ calls \in Seq(CallRows)
      /\ BlocksHeld(text, calls) /\ StartsHeld(frames, text, calls)
      /\ PiecesHeld(frames, text, calls, Len(chunks))
  BY DEF StreamInv, Held
<1>2. /\ stored.text = text.pieces /\ DOMAIN stored.calls = DOMAIN calls
      /\ Len(stored.calls) = n
      /\ \A k \in DOMAIN calls : stored.calls[k].id = calls[k].id
                                 /\ stored.calls[k].args = calls[k].args
  BY DEF StreamInv, PhaseHeld
<1>3. DOMAIN frames \subseteq Nat /\ n \in Nat /\ DOMAIN calls = 1 .. n  BY <1>1
<1>4. S = {i \in Starts(frames) : frames[i].kind = "call"} /\ S \subseteq DOMAIN frames
  BY DEF Stream!CallStarts, Stream!Of, Starts
<1>5. \A i \in S : frames[i].block \in Nat  BY <1>1, <1>4, FrameFacts DEF Starts
<1>6. \A k \in 1 .. n : calls[k].block \in Nat /\ calls[k].args \in Seq(Nat)
  BY <1>1, <1>3, RowFacts
<1>7. rank \in [S -> Nat] /\ want \in [1 .. n -> Nat]  BY <1>5, <1>6
<1>8. /\ \A i \in S : rank[i] = frames[i].block
      /\ \A k \in 1 .. n : want[k] = calls[k].block
  OBVIOUS
<1> HIDE DEF S, n, rank, want
<1>9. \A k, l \in 1 .. n : calls[k].block = calls[l].block => k = l
  <2>1. ASSUME NEW k \in 1 .. n, NEW l \in 1 .. n, calls[k].block = calls[l].block PROVE k = l
    <3>1. /\ k < l => calls[k].block < calls[l].block /\ calls[k].block \in Nat
          /\ l < k => calls[l].block < calls[k].block /\ calls[l].block \in Nat
      BY <1>1, <1>3, <1>6 DEF BlocksHeld
    <3>2. calls[k].block \in Nat  BY <1>6
    <3>3. QED  BY <1>3, <2>1, <3>1, <3>2
  <2>2. QED  BY <2>1
<1>10. \A i \in S : \E k \in 1 .. n : calls[k].block = frames[i].block
       /\ calls[k].id = frames[i].id
  BY <1>1, <1>3, <1>4 DEF StartsHeld
<1>11. \A k \in 1 .. n : \E i \in S : frames[i].block = calls[k].block
  <2>1. ASSUME NEW k \in 1 .. n PROVE \E i \in S : frames[i].block = calls[k].block
    <3>1. calls[k].block \in 1 .. Count(text, calls) /\ calls[k].block # text.block
      BY <1>1, <1>3 DEF BlocksHeld
    <3>2. PICK i \in Starts(frames) : frames[i].block = calls[k].block
      BY <1>1, <3>1 DEF StartsHeld
    <3>3. frames[i].kind # "text"  BY <1>1, <3>1, <3>2 DEF StartsHeld
    <3>4. frames[i].kind = "call"  BY <1>1, <3>3 DEF StartsHeld
    <3>5. QED  BY <1>4, <3>2, <3>4
  <2>2. QED  BY <2>1
<1>12. \E at \in Stream!Read(S, n) : \A k \in 1 .. n : rank[at[k]] = want[k]
  <2>1. S \in SUBSET Nat  BY <1>3, <1>4
  <2>2. \A i, j \in 1 .. n : i < j => want[i] < want[j]
    <3>1. \A k, l \in DOMAIN calls : k < l => calls[k].block < calls[l].block
      BY <1>1 DEF BlocksHeld
    <3>2. QED  BY ONLY <1>3, <1>8, <3>1
  <2>3. \A i, j \in S : i < j => rank[i] < rank[j]  BY <1>1, <1>4, <1>8 DEF StartsHeld
  <2>4. \A k \in 1 .. n : \E i \in S : rank[i] = want[k]  BY <1>8, <1>11
  <2>5. \A i \in S : \E k \in 1 .. n : rank[i] = want[k]
    <3>1. ASSUME NEW i \in S PROVE \E k \in 1 .. n : rank[i] = want[k]
      <4>1. PICK k \in 1 .. n : calls[k].block = frames[i].block  BY <1>10
      <4>2. QED  BY <1>8, <4>1
    <3>2. QED  BY <3>1
  <2>6. QED  BY ONLY <1>3, <1>7, <2>1, <2>2, <2>3, <2>4, <2>5, InTurn
<1>13. PICK at \in Stream!Read(S, n) : \A k \in 1 .. n : rank[at[k]] = want[k]  BY <1>12
<1>14. \A k \in 1 .. n : at[k] \in S /\ frames[at[k]].block = calls[k].block
  <2>1. \A k \in 1 .. n : at[k] \in S  BY DEF Stream!Read
  <2>2. QED  BY <1>8, <1>13, <2>1
<1>15. ASSUME NEW k \in 1 .. n
       PROVE  frames[at[k]].id = calls[k].id /\ Stream!Spell(calls[k].block, calls[k].args)
  <2>1. frames[at[k]].id = calls[k].id
    <3>1. PICK l \in 1 .. n : calls[l].block = frames[at[k]].block
               /\ calls[l].id = frames[at[k]].id
      BY <1>10, <1>14
    <3>2. QED  BY <1>9, <1>14, <3>1
  <2>2. k \in DOMAIN calls  BY <1>3
  <2>3. calls[k].block \in Nat /\ calls[k].args \in Seq(Nat)  BY <1>6
  <2>4. /\ Growing(calls[k].args)
        /\ \A p \in DOMAIN calls[k].args : \E i \in Deltas(frames) :
              frames[i].block = calls[k].block /\ frames[i].piece = calls[k].args[p]
        /\ \A i \in Deltas(frames) :
              frames[i].block = calls[k].block => Holds(calls[k].args, frames[i].piece)
        /\ \A i, j \in Deltas(frames) : i < j => frames[i].piece < frames[j].piece
    BY <1>1, <2>2 DEF PiecesHeld
  <2>5. Stream!Spell(calls[k].block, calls[k].args)  BY ONLY <1>1, <2>3, <2>4, Spelled
  <2>6. QED  BY <2>1, <2>5
<1>16. Stream!Spell(text.block, stored.text)
  <2>1. text.block \in Nat /\ text.pieces \in Seq(Nat)  BY <1>1 DEF Texts
  <2>2. /\ Growing(text.pieces)
        /\ \A p \in DOMAIN text.pieces : \E i \in Deltas(frames) :
              frames[i].block = text.block /\ frames[i].piece = text.pieces[p]
        /\ \A i \in Deltas(frames) :
               frames[i].block = text.block => Holds(text.pieces, frames[i].piece)
        /\ \A i, j \in Deltas(frames) : i < j => frames[i].piece < frames[j].piece
    BY <1>1 DEF PiecesHeld
  <2>3. Stream!Spell(text.block, text.pieces)  BY ONLY <1>1, <2>1, <2>2, Spelled
  <2>4. QED  BY <1>2, <2>3
<1>17. \A k \in DOMAIN stored.calls : /\ frames[at[k]].id = stored.calls[k].id
                                      /\ Stream!Spell(frames[at[k]].block, stored.calls[k].args)
  BY <1>2, <1>3, <1>14, <1>15
<1>18. QED  BY <1>2, <1>13, <1>16, <1>17 DEF S

LEMMA FramesHeld == ASSUME StreamInv PROVE Stream!Framed
<1> SUFFICES ASSUME Stream!Translated PROVE Stream!Framed  BY DEF Stream!Framed
<1>1. /\ Stream!Of("start") = Starts(frames) /\ Stream!Of("delta") = Deltas(frames)
      /\ StartsHeld(frames, text, calls) /\ PiecesHeld(frames, text, calls, Len(chunks))
      /\ Stream!Blocks = Count(text, calls) /\ Cardinality(Stream!Of("start")) = Stream!Blocks
  BY DEF Stream!Of, Starts, Deltas, StreamInv, Held, Stream!Blocks, Count, StartsHeld
<1>2. Stream!Opened = 1 .. Stream!Blocks
  <2>1. \A i \in Stream!Of("start") : frames[i].block \in 1 .. Stream!Blocks
    BY <1>1 DEF StartsHeld
  <2>2. \A b \in 1 .. Stream!Blocks : \E i \in Stream!Of("start") : frames[i].block = b
    BY <1>1 DEF StartsHeld
  <2>3. QED  BY <2>1, <2>2 DEF Stream!Opened
<1>3. \A i, j \in Stream!Of("start") : i < j => frames[i].block < frames[j].block
  BY <1>1 DEF StartsHeld
<1>4. \A i \in Stream!Of("delta") : \E j \in Stream!Of("start") : j < i
      /\ frames[j].block = frames[i].block
  BY <1>1 DEF PiecesHeld
<1>5. /\ \A i \in Stream!Of("stop"), j \in Stream!Of("delta") : j < i
      /\ Stream!Of("end") # {} => Stream!Of("end") = {Len(frames)} /\ Stream!Of("error") = {}
  BY DEF StreamInv, EndHeld
<1>6. ASSUME Stream!Of("end") # {}, NEW b \in Stream!Opened
      PROVE  Cardinality({i \in Stream!Of("stop") : frames[i].block = b}) = 1
  <2>1. PICK i \in Stream!Of("stop") : /\ frames[i].block = b
                                       /\ \A j \in Stream!Of("stop") : frames[j].block = b =>
                                          j = i
    BY <1>2, <1>6 DEF StreamInv, EndHeld
  <2>2. {j \in Stream!Of("stop") : frames[j].block = b} = {i}  BY <2>1
  <2>3. QED  BY <2>2, FS_Singleton
<1>7. QED  BY <1>1, <1>2, <1>3, <1>4, <1>5, <1>6, SameCount DEF Stream!Framed

LEMMA PiecesApart == ASSUME StreamInv PROVE Stream!CallsApart
<1>1. ASSUME NEW n \in DOMAIN chunks, chunks[n].kind = "call", chunks[n].of.args
      PROVE  Cardinality({k \in DOMAIN calls : \E p \in DOMAIN calls[k].args : calls[k].args[p]
                 = n}) = 1
  <2>1. PICK k \in DOMAIN calls : Holds(calls[k].args, n)  BY <1>1 DEF StreamInv, ApartHeld
  <2>2. \A l \in DOMAIN calls : Holds(calls[l].args, n) => l = k
    BY <2>1 DEF StreamInv, ApartHeld
  <2>3. {l \in DOMAIN calls : \E p \in DOMAIN calls[l].args : calls[l].args[p] = n} = {k}
    BY <2>1, <2>2 DEF Holds
  <2>4. QED  BY <2>3, FS_Singleton
<1>2. ASSUME Stream!Translated, NEW k \in DOMAIN calls, NEW p \in DOMAIN calls[k].args
      PROVE  chunks[calls[k].args[p]].of.id \in {Stream!NoId, calls[k].id}
  <2>1. Holds(calls[k].args, calls[k].args[p])  BY DEF Holds
  <2>2. QED  BY <1>2, <2>1 DEF StreamInv, ApartHeld
<1>3. QED  BY <1>1, <1>2, SameCount DEF Stream!CallsApart

LEMMA StreamsAreSafe == StreamInv => Stream!StreamSafe
<1> SUFFICES ASSUME StreamInv PROVE Stream!StreamSafe  OBVIOUS
<1>1. Stream!SeenIsStored  BY AllSeen DEF Stream!SeenIsStored
<1>2. Stream!HandedOnce
  <2>1. completions = (IF phase = "over" THEN 1 ELSE 0)  BY DEF StreamInv, PhaseHeld
  <2>2. QED  BY <2>1 DEF Stream!HandedOnce
<1>3. Stream!ToolsAreAnnounced  BY DEF StreamInv, EndHeld, Stream!ToolsAreAnnounced
<1>4. QED  BY <1>1, <1>2, <1>3, FramesHeld, PiecesApart DEF Stream!StreamSafe
-----------------------------------------------------------------------------
(* The stored history (Dialogue.tla).                                      *)

Turnings == [who : {"user", "result", "text", "calls", "part", "empty"}, n : Nat,
             beside : {"null", "empty", "text", "apart"}]
Talks == Seq(Turnings)
Rows == [pc : {"idle", "load", "route", "store", "answer"}, streamed : BOOLEAN, said : Talks,
         base : Talks, up : Talks, reply : Talks]

DialTypes ==
    /\ dialect \in {"responses", "anthropic"} /\ talk \in Talks /\ history \in Talks
    /\ awaited \in Requests \cup {NoRequest} /\ call \in [Requests -> Rows] /\ kept \in Nat

\* A message carries its place; a result comes right behind its call.
Numbered(s) == \A i \in DOMAIN s : s[i].n = i
Paired(s) ==
    \A i \in DOMAIN s : s[i].who = "result" =>
        i > 1 /\ s[i - 1].who = "calls" /\ s[i - 1].n + 1 = s[i].n
UsersApart(s) ==
    \A i, j \in DOMAIN s : i # j /\ s[i].who = "user" => s[i] # s[j]

RowHeld(c) ==
    /\ Numbered(c.said) /\ Paired(c.said) /\ Paired(c.up)
    /\ c.pc \in {"store", "answer"} =>
          /\ Len(c.reply) = 1 /\ c.reply[1].who \notin {"user", "result"}
          /\ c.reply[1].n = Len(c.said) + 1
RequestsHeld == \A r \in Requests : RowHeld(call[r])

\* The client waits for one answer, to what it said last; a stream ends with its wait.
WaitHeld ==
    /\ \A r \in Requests : awaited = r =>
          /\ call[r].pc # "idle" /\ talk = call[r].said
          /\ call[r].streamed => call[r].pc \in {"load", "route"}
    /\ \A r \in Requests :
          call[r].streamed /\ call[r].pc \in {"load", "route"} => awaited = r

\* What a result was asked with is never cut from it, and is in history before it.
HistoryHeld == dialect = "anthropic" => Paired(history)

\* A reply the client sends back as it is stored.
AsHeard(m) == m.who # "empty" /\ Dialog!SentBack(m) = m

Reaches ==
    \/ Dialog!Begins(history, talk)
    \/ \E r \in Requests : /\ awaited = r /\ call[r].pc = "answer"
                           /\ history = Append(talk, call[r].reply[1])
                           /\ AsHeard(call[r].reply[1])
BasesHeld ==
    \A r \in Requests : call[r].pc \in {"route", "store"} /\ (call[r].streamed \/ awaited = r) =>
        Dialog!Begins(call[r].base, call[r].said)
StreamsHeld ==
    \A r \in Requests : call[r].streamed /\ call[r].pc = "store" /\ AsHeard(call[r].reply[1]) =>
        Dialog!Begins(Append(call[r].said, call[r].reply[1]), talk)
FollowHeld ==
    dialect = "responses" /\ causes = {} =>
        Len(history) >= kept /\ Reaches /\ BasesHeld /\ StreamsHeld

DialInv ==
    /\ DialTypes /\ Numbered(talk) /\ Paired(talk) /\ RequestsHeld /\ WaitHeld /\ HistoryHeld
    /\ Dialog!UserOnce /\ FollowHeld
-----------------------------------------------------------------------------
(* Sequences.                                                              *)

LEMMA PrefixIs ==
    ASSUME NEW s \in Talks, NEW t \in Talks
    PROVE  Dialog!Begins(s, t) <=> Len(s) <= Len(t) /\ \A i \in 1 .. Len(s) : s[i] = t[i]
<1>1. s = SubSeq(s, 1, Len(s)) /\ Len(s) \in Nat /\ Len(t) \in Nat
  BY DEF Talks
<1>2. ASSUME Len(s) <= Len(t)
      PROVE  /\ SubSeq(t, 1, Len(s)) \in Talks /\ Len(SubSeq(t, 1, Len(s))) = Len(s)
             /\ \A i \in 1 .. Len(s) : SubSeq(t, 1, Len(s))[i] = t[i]
  BY <1>1, <1>2 DEF Talks
<1>3. ASSUME Dialog!Begins(s, t) PROVE Len(s) <= Len(t) /\ \A i \in 1 .. Len(s) : s[i] = t[i]
  BY <1>1, <1>2, <1>3 DEF Dialog!Begins
<1>4. ASSUME Len(s) <= Len(t), \A i \in 1 .. Len(s) : s[i] = t[i] PROVE Dialog!Begins(s, t)
  <2> DEFINE u == SubSeq(t, 1, Len(s))
  <2>1. /\ u \in Talks /\ Len(u) = Len(s) /\ \A i \in 1 .. Len(s) : u[i] = t[i]  BY <1>2, <1>4
  <2> HIDE DEF u
  <2>2. s = u  BY <2>1, <1>4, SeqEqual DEF Talks
  <2>3. QED  BY <1>1, <1>4, <2>2 DEF Dialog!Begins, u
<1>5. QED  BY <1>3, <1>4

LEMMA SeqGrows ==
    ASSUME NEW s \in Talks, NEW m \in Turnings
    PROVE  /\ Append(s, m) \in Talks /\ Len(Append(s, m)) = Len(s) + 1 /\ Len(s) \in Nat
           /\ DOMAIN s = 1 .. Len(s) /\ DOMAIN Append(s, m) = 1 .. Len(s) + 1
           /\ Append(s, m)[Len(s) + 1] = m /\ \A i \in 1 .. Len(s) : Append(s, m)[i] = s[i]
BY DEF Talks

LEMMA PrefixGrows ==
    ASSUME NEW s \in Talks, NEW t \in Talks, NEW m \in Turnings
    PROVE  Dialog!Begins(s, t) => Dialog!Begins(s, Append(t, m))
<1>2. ASSUME Dialog!Begins(s, t) PROVE Dialog!Begins(s, Append(t, m))
  <2>1. Len(s) <= Len(t) /\ \A i \in 1 .. Len(s) : s[i] = t[i]  BY <1>2, PrefixIs
  <2>2. /\ Append(t, m) \in Talks /\ Len(Append(t, m)) = Len(t) + 1 /\ Len(t) \in Nat
        /\ \A i \in 1 .. Len(t) : Append(t, m)[i] = t[i] /\ Len(s) \in Nat
    BY SeqGrows DEF Talks
  <2>3. Len(s) <= Len(Append(t, m)) /\ \A i \in 1 .. Len(s) : s[i] = Append(t, m)[i]
    BY <2>1, <2>2
  <2>4. QED  BY <2>2, <2>3, PrefixIs
<1>3. QED  BY <1>2

LEMMA PrefixSelf == \A t \in Talks : Dialog!Begins(t, t)
BY PrefixIs DEF Talks

\* The rest of a conversation behind its beginning.
LEMMA RestBehind ==
    ASSUME NEW s \in Talks, NEW t \in Talks
    PROVE  /\ Dialog!SuffixAfterHistory(s, t) \in Talks
           /\ Dialog!Begins(s, t) => s \o Dialog!SuffixAfterHistory(s, t) = t
           /\ ~Dialog!Begins(s, t) => Dialog!SuffixAfterHistory(s, t) = <<>>
<1>1. Len(s) \in Nat /\ Len(t) \in Nat  BY DEF Talks
<1>2. CASE ~Dialog!Begins(s, t)  BY <1>2 DEF Dialog!SuffixAfterHistory, Talks
<1>3. CASE Dialog!Begins(s, t)
  <2> DEFINE u == SubSeq(t, Len(s) + 1, Len(t))
  <2>1. Len(s) <= Len(t) /\ \A i \in 1 .. Len(s) : s[i] = t[i]  BY <1>3, PrefixIs
  <2>2. /\ u \in Talks /\ Len(u) = Len(t) - Len(s)
        /\ \A i \in 1 .. Len(t) - Len(s) : u[i] = t[Len(s) + i]
    <3>1. \A i \in Len(s) + 1 .. Len(t) : t[i] \in Turnings  BY <1>1 DEF Talks
    <3>2. Len(s) + 1 \in Int /\ Len(t) \in Int  BY <1>1
    <3>3. /\ u \in Seq(Turnings)
          /\ Len(u) = IF Len(s) + 1 <= Len(t) THEN Len(t) - (Len(s) + 1) + 1 ELSE 0
          /\ \A i \in 1 .. Len(t) - (Len(s) + 1) + 1 : u[i] = t[Len(s) + 1 + i - 1]
      BY <3>1, <3>2, SubSeqProperties
    <3>4. QED  BY <1>1, <2>1, <3>3 DEF Talks
  <2> HIDE DEF u
  <2>3. /\ s \o u \in Talks /\ Len(s \o u) = Len(t)
        /\ \A i \in 1 .. Len(t) : (s \o u)[i] = IF i <= Len(s) THEN s[i] ELSE u[i - Len(s)]
    <3>1. /\ s \o u \in Seq(Turnings) /\ Len(s \o u) = Len(s) + Len(u)
          /\ \A i \in 1 .. Len(s) + Len(u) : (s \o u)[i] = IF i
                 <= Len(s) THEN s[i] ELSE u[i - Len(s)]
      BY <2>2, ConcatProperties DEF Talks
    <3>2. Len(s) + Len(u) = Len(t)  BY <1>1, <2>1, <2>2
    <3>3. QED  BY <3>1, <3>2 DEF Talks
  <2>4. \A i \in 1 .. Len(t) : (s \o u)[i] = t[i]
    <3>1. ASSUME NEW i \in 1 .. Len(t) PROVE (s \o u)[i] = t[i]
      <4>1. CASE i <= Len(s)  BY <1>1, <2>1, <2>3, <4>1
      <4>2. CASE ~(i <= Len(s))
        <5>1. i - Len(s) \in 1 .. Len(t) - Len(s) /\ Len(s) + (i - Len(s)) = i
          BY <1>1, <4>2
        <5>2. QED  BY <2>2, <2>3, <4>2, <5>1
      <4>3. QED  BY <4>1, <4>2
    <3>2. QED  BY <3>1
  <2>5. s \o u = t  BY <2>3, <2>4, SeqEqual DEF Talks
  <2>6. Dialog!SuffixAfterHistory(s, t) = u  BY <1>3 DEF Dialog!SuffixAfterHistory, u
  <2>7. QED  BY <1>3, <2>2, <2>5, <2>6
<1>4. QED  BY <1>2, <1>3

LEMMA LeastOf == ASSUME NEW S \in SUBSET Nat, S # {} PROVE \E x \in S : \A y \in S : x <= y
<1>1. PICK x \in S : \A y \in S : ~ (<<y, x>> \in OpToRel(<, Nat))
  BY NatLessThanWellFounded, WFMin
<1>2. \A y \in S : y < x => <<y, x>> \in OpToRel(<, Nat)  BY DEF OpToRel
<1>3. \A y \in S : ~ (y < x)  BY <1>1, <1>2, Zenon
<1>4. QED  BY <1>3

\* Retention cuts where a turn begins.
LEMMA RetainedIs ==
    ASSUME NEW h \in Talks, h # <<>>
    PROVE  \E i \in DOMAIN h : /\ i = 1 \/ h[i].who = "user"
                               /\ Dialog!Retained(h) = SubSeq(h, i, Len(h))
<1> DEFINE starts == {i \in DOMAIN h : i = 1 \/ h[i].who = "user"}
           fits == {i \in starts : Dialog!Turns(SubSeq(h, i, Len(h))) <= TurnCap}
<1>1. Len(h) \in Nat /\ Len(h) >= 1 /\ DOMAIN h = 1 .. Len(h)  BY DEF Talks
<1>2. \E i \in starts : \A j \in starts : j <= i
  <2> DEFINE gaps == {Len(h) - i : i \in starts}
  <2>1. gaps \in SUBSET Nat /\ gaps # {}
    <3>1. 1 \in starts  BY <1>1
    <3>2. \A i \in starts : Len(h) - i \in Nat  BY <1>1
    <3>3. QED  BY <3>1, <3>2
  <2>2. PICK x \in gaps : \A y \in gaps : x <= y  BY <2>1, LeastOf
  <2>3. PICK i \in starts : x = Len(h) - i  OBVIOUS
  <2>4. \A j \in starts : Len(h) - i <= Len(h) - j  BY <2>2, <2>3
  <2>5. \A j \in starts : j <= i  BY <1>1, <2>4
  <2>6. QED  BY <2>5
<1>3. PICK last \in starts : \A j \in starts : j <= last  BY <1>2
<1>4. last \in fits
  <2> DEFINE s == SubSeq(h, last, Len(h))
  <2>1. /\ DOMAIN s = 1 .. Len(h) - last + 1 /\ \A i \in DOMAIN s : s[i] = h[last + i - 1]
    <3>1. \A i \in last .. Len(h) : h[i] \in Turnings  BY <1>1 DEF Talks
    <3>2. last \in Int /\ Len(h) \in Int /\ last <= Len(h)  BY <1>1
    <3>3. /\ s \in Seq(Turnings)
          /\ Len(s) = IF last <= Len(h) THEN Len(h) - last + 1 ELSE 0
          /\ \A i \in 1 .. Len(h) - last + 1 : s[i] = h[last + i - 1]
      BY <3>1, <3>2, SubSeqProperties
    <3>4. QED  BY <3>2, <3>3
  <2>2. {i \in DOMAIN s : i = 1 \/ s[i].who = "user"} = {1}
    <3>1. 1 \in DOMAIN s  BY <1>1, <2>1
    <3>2. ASSUME NEW i \in DOMAIN s, s[i].who = "user" PROVE i = 1
      <4>1. last + i - 1 \in starts  BY <1>1, <2>1, <3>2
      <4>2. last + i - 1 <= last  BY <1>3, <4>1
      <4>3. QED  BY <1>1, <2>1, <4>2
    <3>3. QED  BY <3>1, <3>2
  <2>3. Dialog!Turns(s) = 1  BY <2>2, FS_Singleton, SameCount DEF Dialog!Turns
  <2>4. QED  BY <2>3, TalkAssumption
<1>5. fits \in SUBSET Nat /\ fits # {}  BY <1>1, <1>4
<1>6. PICK i \in fits : \A j \in fits : i <= j  BY <1>5, LeastOf
<1>7. fits = {i_1 \in DOMAIN h : /\ i_1 = 1 \/ h[i_1].who = "user"
                                 /\ Dialog!Turns(SubSeq(h, i_1, Len(h))) <= TurnCap}
  OBVIOUS
<1> HIDE DEF fits
<1>8. LET m == CHOOSE x \in fits : \A j \in fits : x <= j
      IN m \in fits /\ Dialog!Retained(h) = SubSeq(h, m, Len(h))
  BY <1>6, <1>7 DEF Dialog!Retained
<1>9. \A m \in fits : m \in DOMAIN h /\ (m = 1 \/ h[m].who = "user")  BY <1>7
<1>10. QED  BY <1>8, <1>9

\* What is cut off at the beginning of a turn.
LEMMA CutKeeps ==
    ASSUME NEW h \in Talks, h # <<>>
    PROVE  /\ Dialog!Retained(h) \in Talks
           /\ Paired(h) => Paired(Dialog!Retained(h))
           /\ UsersApart(h) => UsersApart(Dialog!Retained(h))
<1>1. PICK b \in DOMAIN h : /\ b = 1 \/ h[b].who = "user"
                            /\ Dialog!Retained(h) = SubSeq(h, b, Len(h))
  BY RetainedIs
<1> DEFINE s == SubSeq(h, b, Len(h))
<1>2. /\ s \in Talks /\ DOMAIN s = 1 .. Len(h) - b + 1
      /\ \A i \in DOMAIN s : s[i] = h[b + i - 1] /\ b + i - 1 \in DOMAIN h
      /\ b \in Nat /\ Len(h) \in Nat
  <2>1. DOMAIN h = 1 .. Len(h) /\ Len(h) \in Nat  BY DEF Talks
  <2>2. \A i \in b .. Len(h) : h[i] \in Turnings  BY <2>1 DEF Talks
  <2>3. b \in Int /\ Len(h) \in Int /\ b <= Len(h) /\ b >= 1  BY <2>1
  <2>4. /\ s \in Seq(Turnings)
        /\ Len(s) = IF b <= Len(h) THEN Len(h) - b + 1 ELSE 0
        /\ \A i \in 1 .. Len(h) - b + 1 : s[i] = h[b + i - 1]
    BY <2>2, <2>3, SubSeqProperties
  <2>5. DOMAIN s = 1 .. Len(h) - b + 1  BY <2>3, <2>4
  <2>6. \A i \in 1 .. Len(h) - b + 1 : b + i - 1 \in 1 .. Len(h)  BY <2>1, <2>3
  <2>7. QED  BY <2>1, <2>3, <2>4, <2>5, <2>6 DEF Talks
<1> HIDE DEF s
<1>3. ASSUME Paired(h) PROVE Paired(s)
  <2>1. ASSUME NEW i \in DOMAIN s, s[i].who = "result"
        PROVE  i > 1 /\ s[i - 1].who = "calls" /\ s[i - 1].n + 1 = s[i].n
    <3>1. s[i] = h[b + i - 1] /\ b + i - 1 \in DOMAIN h  BY <1>2
    <3>2. b + i - 1 > 1 /\ h[b + i - 2].who = "calls" /\ h[b + i - 2].n + 1 = s[i].n
      <4>1. (b + i - 1) - 1 = b + i - 2  BY <1>2
      <4>2. QED  BY <1>3, <2>1, <3>1, <4>1 DEF Paired
    <3>3. i # 1
      <4>1. CASE b = 1  BY <1>2, <3>2, <4>1
      <4>2. CASE h[b].who = "user"
        <5>1. i = 1 => b + i - 1 = b  BY <1>2
        <5>2. QED  BY <2>1, <3>1, <4>2, <5>1
      <4>3. QED  BY <1>1, <4>1, <4>2
    <3>4. i - 1 \in DOMAIN s /\ b + (i - 1) - 1 = b + i - 2 /\ i > 1  BY <1>2, <3>3
    <3>5. s[i - 1] = h[b + i - 2]  BY <1>2, <3>4
    <3>6. QED  BY <3>2, <3>4, <3>5
  <2>2. QED  BY <2>1 DEF Paired
<1>4. ASSUME UsersApart(h) PROVE UsersApart(s)
  <2>1. ASSUME NEW i \in DOMAIN s, NEW j \in DOMAIN s, i # j, s[i].who = "user" PROVE s[i] # s[j]
    <3>1. /\ s[i] = h[b + i - 1] /\ b + i - 1 \in DOMAIN h
          /\ s[j] = h[b + j - 1] /\ b + j - 1 \in DOMAIN h
      BY <1>2
    <3>2. b + i - 1 # b + j - 1  BY <1>2, <2>1
    <3>3. QED  BY <1>4, <2>1, <3>1, <3>2 DEF UsersApart
  <2>2. QED  BY <2>1 DEF UsersApart
<1>5. QED  BY <1>1, <1>2, <1>3, <1>4 DEF s

\* One conversation behind another, and a reply behind one.
LEMMA PairedJoin ==
    ASSUME NEW s \in Talks, NEW t \in Talks, Paired(s), Paired(t)
    PROVE  s \o t \in Talks /\ Paired(s \o t) /\ Len(s \o t) = Len(s) + Len(t)
<1>1. /\ s \o t \in Talks /\ DOMAIN (s \o t) = 1 .. Len(s) + Len(t)
      /\ Len(s) \in Nat /\ Len(t) \in Nat /\ Len(s \o t) = Len(s) + Len(t)
      /\ DOMAIN s = 1 .. Len(s) /\ DOMAIN t = 1 .. Len(t)
      /\ \A i \in 1 .. Len(s) : (s \o t)[i] = s[i]
      /\ \A i \in 1 .. Len(t) : (s \o t)[Len(s) + i] = t[i]
  BY DEF Talks
<1> DEFINE u == s \o t
<1> HIDE DEF u
<1>2. ASSUME NEW i \in 1 .. Len(s) + Len(t), u[i].who = "result"
      PROVE  i > 1 /\ u[i - 1].who = "calls" /\ u[i - 1].n + 1 = u[i].n
  <2>1. CASE i \in 1 .. Len(s)
    <3>1. u[i] = s[i]  BY <1>1, <2>1 DEF u
    <3>2. i > 1 /\ s[i - 1].who = "calls" /\ s[i - 1].n + 1 = s[i].n
      BY <1>1, <1>2, <2>1, <3>1 DEF Paired
    <3>3. i - 1 \in 1 .. Len(s)  BY <1>1, <2>1, <3>2
    <3>4. u[i - 1] = s[i - 1]  BY <1>1, <3>3 DEF u
    <3>5. QED  BY <3>1, <3>2, <3>4
  <2>2. CASE i \notin 1 .. Len(s)
    <3> DEFINE k == i - Len(s)
    <3>1. k \in 1 .. Len(t) /\ Len(s) + k = i  BY <1>1, <2>2
    <3> HIDE DEF k
    <3>2. u[i] = t[k]  BY <1>1, <3>1 DEF u
    <3>3. k > 1 /\ t[k - 1].who = "calls" /\ t[k - 1].n + 1 = t[k].n
      BY <1>1, <1>2, <3>1, <3>2 DEF Paired
    <3>4. k - 1 \in 1 .. Len(t) /\ Len(s) + (k - 1) = i - 1 /\ i > 1  BY <1>1, <3>1, <3>3
    <3>5. u[i - 1] = t[k - 1]  BY <1>1, <3>4 DEF u
    <3>6. QED  BY <3>2, <3>3, <3>4, <3>5
  <2>3. QED  BY <2>1, <2>2
<1>3. Paired(u)  BY <1>1, <1>2 DEF Paired, u
<1>4. QED  BY <1>1, <1>3 DEF u

LEMMA ReplyBehind ==
    ASSUME NEW s \in Talks, NEW m \in Turnings
    PROVE  /\ Append(s, m) \in Talks /\ Append(s, m) # <<>>
           /\ Paired(s) /\ (m.who = "result" =>
                  s # <<>> /\ s[Len(s)].who = "calls" /\ s[Len(s)].n + 1 = m.n) =>
                  Paired(Append(s, m))
           /\ Numbered(s) /\ m.n = Len(s) + 1 => Numbered(Append(s, m))
           /\ UsersApart(s) /\ m.who # "user" => UsersApart(Append(s, m))
<1> DEFINE t == Append(s, m)
<1>1. /\ t \in Talks /\ Len(t) = Len(s) + 1 /\ Len(s) \in Nat
      /\ DOMAIN s = 1 .. Len(s) /\ DOMAIN t = 1 .. Len(s) + 1
      /\ t[Len(s) + 1] = m /\ \A i \in 1 .. Len(s) : t[i] = s[i]
  BY SeqGrows
<1>2. t # <<>> /\ (s # <<>> => Len(s) >= 1)  BY <1>1 DEF Talks
<1> HIDE DEF t
<1>3. Numbered(s) /\ m.n = Len(s) + 1 => Numbered(t)  BY <1>1 DEF Numbered
<1>4. UsersApart(s) /\ m.who # "user" => UsersApart(t)
  <2>1. \A i \in DOMAIN t : \/ i \in DOMAIN s /\ t[i] = s[i]
                            \/ i = Len(s) + 1 /\ t[i] = m
    BY <1>1
  <2>2. ASSUME UsersApart(s), m.who # "user", NEW i \in DOMAIN t, NEW j \in DOMAIN t, i # j,
               t[i].who = "user"
        PROVE  t[i] # t[j]
    <3>1. i \in DOMAIN s /\ t[i] = s[i]  BY <2>1, <2>2
    <3>2. CASE j = Len(s) + 1
      <4>1. t[j] = m  BY <1>1, <3>2
      <4>2. t[i].who # t[j].who  BY <2>2, <4>1
      <4>3. QED  BY <4>2
    <3>3. CASE j \in DOMAIN s /\ t[j] = s[j]  BY <2>2, <3>1, <3>3 DEF UsersApart
    <3>4. QED  BY <2>1, <3>2, <3>3
  <2>3. QED  BY <2>2 DEF UsersApart
<1>5. ASSUME Paired(s), m.who = "result" =>
                 s # <<>> /\ s[Len(s)].who = "calls" /\ s[Len(s)].n + 1 = m.n
      PROVE  Paired(t)
  <2>1. ASSUME NEW i \in DOMAIN t, t[i].who = "result"
        PROVE  i > 1 /\ t[i - 1].who = "calls" /\ t[i - 1].n + 1 = t[i].n
    <3>1. CASE i = Len(s) + 1
      <4>1. t[i] = m  BY <1>1, <3>1
      <4>2. Len(s) >= 1 /\ i > 1 /\ i - 1 = Len(s) /\ Len(s) \in 1 .. Len(s)
        BY <1>1, <1>2, <1>5, <2>1, <3>1, <4>1
      <4>3. t[i - 1] = s[Len(s)]  BY <1>1, <4>2
      <4>4. QED  BY <1>5, <2>1, <4>1, <4>2, <4>3
    <3>2. CASE i \in 1 .. Len(s)
      <4>1. i > 1 /\ s[i - 1].who = "calls" /\ s[i - 1].n + 1 = s[i].n /\ t[i] = s[i]
        BY <1>1, <1>5, <2>1, <3>2 DEF Paired
      <4>2. i - 1 \in 1 .. Len(s)  BY <1>1, <3>2, <4>1
      <4>3. t[i - 1] = s[i - 1]  BY <1>1, <4>2
      <4>4. QED  BY <4>1, <4>3
    <3>3. QED  BY <1>1, <3>1, <3>2
  <2>2. QED  BY <2>1 DEF Paired
<1>6. QED  BY <1>1, <1>2, <1>3, <1>4, <1>5 DEF t

-----------------------------------------------------------------------------
(* The steps.                                                              *)

LEMMA DialInitInv == Dialog!DialogueInit => DialInv
<1> SUFFICES ASSUME Dialog!DialogueInit PROVE DialInv  OBVIOUS
<1>1. /\ talk = <<>> /\ history = <<>> /\ awaited = NoRequest /\ kept = 0 /\ causes = {}
      /\ call = [r \in Requests |-> Dialog!Idle] /\ dialect \in {"responses", "anthropic"}
      /\ <<>> \in Talks
  BY DEF Dialog!DialogueInit, Talks
<1>2. Dialog!Idle \in Rows /\ Dialog!Idle.pc = "idle" /\ RowHeld(Dialog!Idle)
  BY <1>1 DEF Dialog!Idle, Rows, RowHeld, Numbered, Paired
<1>3. \A r \in Requests : call[r] = Dialog!Idle  BY <1>1
<1>4. DialTypes  BY <1>1, <1>2 DEF DialTypes
<1>5. Numbered(talk) /\ Paired(talk) /\ HistoryHeld /\ Dialog!UserOnce
  BY <1>1 DEF Numbered, Paired, HistoryHeld, Dialog!UserOnce
<1>6. RequestsHeld /\ WaitHeld  BY <1>1, <1>2, <1>3, TalkAssumption DEF RequestsHeld, WaitHeld
<1>7. FollowHeld
  <2>1. Dialog!Begins(history, talk)  BY <1>1, PrefixSelf
  <2>2. Len(history) >= kept  BY <1>1
  <2>3. BasesHeld /\ StreamsHeld  BY <1>2, <1>3 DEF BasesHeld, StreamsHeld
  <2>4. QED  BY <2>1, <2>2, <2>3 DEF FollowHeld, Reaches
<1>8. QED  BY <1>4, <1>5, <1>6, <1>7 DEF DialInv

\* One request moves, the others stay.
LEMMA RowMoves ==
    ASSUME call \in [Requests -> Rows], NEW r \in Requests, NEW row \in Rows,
           call' = [call EXCEPT ![r] = row]
    PROVE  /\ call' \in [Requests -> Rows] /\ call'[r] = row
           /\ \A q \in Requests : q # r => call'[q] = call[q]
OBVIOUS

LEMMA RowIs ==
    ASSUME NEW c \in Rows
    PROVE  /\ c.said \in Talks /\ c.base \in Talks /\ c.up \in Talks /\ c.reply \in Talks
           /\ c.streamed \in BOOLEAN
           /\ c.pc \in {"idle", "load", "route", "store", "answer"}
           /\ \A pc \in {"idle", "load", "route", "store", "answer"} :
                 /\ [c EXCEPT !.pc = pc] \in Rows
                 /\ [c EXCEPT !.pc = pc].pc = pc
                 /\ [c EXCEPT !.pc = pc].streamed = c.streamed
                 /\ [c EXCEPT !.pc = pc].said = c.said
                 /\ [c EXCEPT !.pc = pc].base = c.base
                 /\ [c EXCEPT !.pc = pc].up = c.up
                 /\ [c EXCEPT !.pc = pc].reply = c.reply
BY DEF Rows

LEMMA IdleIs == /\ Dialog!Idle \in Rows /\ Dialog!Idle.pc = "idle" /\ RowHeld(Dialog!Idle)
/\ ~Dialog!Idle.streamed
<1>1. <<>> \in Talks  BY DEF Talks
<1>2. QED  BY <1>1 DEF Dialog!Idle, Rows, RowHeld, Numbered, Paired

\* What every step keeps as long as one request moves by itself.
LEMMA CallsStay ==
    ASSUME DialInv, NEW r \in Requests, NEW row \in Rows, RowHeld(row),
           call' = [call EXCEPT ![r] = row]
    PROVE  RequestsHeld' /\ call' \in [Requests -> Rows] /\ call'[r] = row
           /\ \A q \in Requests : q # r => call'[q] = call[q]
<1>1. call \in [Requests -> Rows]  BY DEF DialInv, DialTypes
<1>2. /\ call' \in [Requests -> Rows] /\ call'[r] = row
      /\ \A q \in Requests : q # r => call'[q] = call[q]
  BY <1>1, RowMoves
<1>3. ASSUME NEW q \in Requests PROVE RowHeld(call'[q])
  <2>1. CASE q = r  BY <1>2, <2>1
  <2>2. CASE q # r  BY <1>2, <2>2 DEF DialInv, RequestsHeld
  <2>3. QED  BY <2>1, <2>2
<1>4. QED  BY <1>2, <1>3 DEF RequestsHeld

LEMMA SendKeeps ==
    ASSUME DialInv, NEW r \in Requests, NEW streamed \in BOOLEAN, Dialog!Send(r, streamed)
    PROVE  DialInv'
<1>1. /\ call[r].pc = "idle" /\ awaited = NoRequest /\ awaited' = r
      /\ UNCHANGED <<dialect, history, kept, causes>>
      /\ talk \in Talks /\ Numbered(talk) /\ Paired(talk)
  BY DEF Dialog!Send, DialInv, DialTypes
<1>2. PICK said \in Dialog!Continuations :
        /\ talk' = said
        /\ call' = [call EXCEPT ![r] =
                       [Dialog!Idle EXCEPT !.pc = "load", !.streamed = streamed, !.said = said]]
  BY DEF Dialog!Send
<1> DEFINE row == [Dialog!Idle EXCEPT !.pc = "load", !.streamed = streamed, !.said = said]
<1>3. /\ said \in Talks /\ Numbered(said) /\ Paired(said)
      /\ \A s \in Talks : Dialog!Begins(s, talk) => Dialog!Begins(s, said)
  <2>1. Len(talk) \in Nat /\ (talk # <<>> => Len(talk) \in DOMAIN talk)  BY <1>1 DEF Talks
  <2>2. CASE said = talk  BY <1>1, <2>2
  <2>3. ASSUME said # talk
        PROVE  \E m \in Turnings :
                  /\ said = Append(talk, m) /\ m.n = Len(talk) + 1
                  /\ m.who = "result" => talk # <<>> /\ talk[Len(talk)].who = "calls"
    <3>1. \A who \in {"user", "result"} :
             /\ Dialog!Said(who, Len(talk) + 1) \in Turnings
             /\ Dialog!Said(who, Len(talk) + 1).n = Len(talk) + 1
             /\ Dialog!Said(who, Len(talk) + 1).who = who
      BY <2>1 DEF Dialog!Said, Turnings
    <3>2. \/ said = Append(talk, Dialog!Said("user", Len(talk) + 1))
          \/ /\ said = Append(talk, Dialog!Said("result", Len(talk) + 1))
             /\ talk # <<>> /\ talk[Len(talk)].who = "calls"
      BY <2>3 DEF Dialog!Continuations
    <3>3. CASE said = Append(talk, Dialog!Said("user", Len(talk) + 1))  BY <3>1, <3>3
    <3>4. CASE /\ said = Append(talk, Dialog!Said("result", Len(talk) + 1))
               /\ talk # <<>> /\ talk[Len(talk)].who = "calls"
      BY <3>1, <3>4
    <3>5. QED  BY <3>2, <3>3, <3>4
  <2>4. CASE said # talk
    <3>1. PICK m \in Turnings :
             /\ said = Append(talk, m) /\ m.n = Len(talk) + 1
             /\ m.who = "result" => talk # <<>> /\ talk[Len(talk)].who = "calls"
      BY ONLY <2>3, <2>4
    <3>2. m.who = "result" => talk[Len(talk)].n + 1 = m.n
      BY <1>1, <2>1, <3>1 DEF Numbered
    <3>3. said \in Talks /\ Numbered(said) /\ Paired(said)
      BY <1>1, <3>1, <3>2, ReplyBehind
    <3>4. \A s \in Talks : Dialog!Begins(s, talk) => Dialog!Begins(s, said)
      BY <1>1, <3>1, PrefixGrows
    <3>5. QED  BY <3>3, <3>4
  <2>5. QED  BY <2>2, <2>4
<1>4. /\ row \in Rows /\ row.pc = "load" /\ row.streamed = streamed /\ row.said = said
      /\ row.up = <<>>
  <2>1. Dialog!Idle \in Rows /\ Dialog!Idle.up = <<>>  BY IdleIs DEF Dialog!Idle
  <2>2. QED  BY <1>3, <2>1 DEF Rows
<1> HIDE DEF row
<1>5. RowHeld(row)
  <2>1. Paired(row.up)  BY <1>4 DEF Paired
  <2>2. QED  BY <1>3, <1>4, <2>1 DEF RowHeld
<1>6. RequestsHeld' /\ call' \in [Requests -> Rows] /\ call'[r] = row
      /\ \A q \in Requests : q # r => call'[q] = call[q]
  BY <1>2, <1>4, <1>5, CallsStay DEF row
<1>7. DialTypes' /\ Numbered(talk') /\ Paired(talk') /\ HistoryHeld' /\ Dialog!UserOnce'
  BY <1>1, <1>2, <1>3, <1>6 DEF DialInv, DialTypes, HistoryHeld, Dialog!UserOnce
<1>8. \A q \in Requests : ~(awaited = q)  BY <1>1, TalkAssumption
<1>9. WaitHeld'
  <2>1. ASSUME NEW q \in Requests, awaited' = q
        PROVE  /\ call'[q].pc # "idle" /\ talk' = call'[q].said
               /\ call'[q].streamed => call'[q].pc \in {"load", "route"}
    BY <1>1, <1>2, <1>4, <1>6, <2>1
  <2>2. ASSUME NEW q \in Requests, call'[q].streamed, call'[q].pc \in {"load", "route"}
        PROVE  awaited' = q
    <3>1. CASE q = r  BY <1>1, <3>1
    <3>2. CASE q # r  BY <1>6, <1>8, <2>2, <3>2 DEF DialInv, WaitHeld
    <3>3. QED  BY <3>1, <3>2
  <2>3. QED  BY <2>1, <2>2 DEF WaitHeld
<1>10. ASSUME dialect = "responses", causes = {}
       PROVE  Reaches' /\ BasesHeld' /\ StreamsHeld'
  <2>1. Reaches /\ BasesHeld /\ StreamsHeld  BY <1>10 DEF DialInv, FollowHeld
  <2>2. Dialog!Begins(history, talk)  BY <1>8, <2>1 DEF Reaches
  <2>3. Reaches'  BY <1>1, <1>2, <1>3, <2>2 DEF Reaches, DialInv, DialTypes
  <2>4. ASSUME NEW q \in Requests, call'[q].pc \in {"route", "store"},
               call'[q].streamed \/ awaited' = q
        PROVE  Dialog!Begins(call'[q].base, call'[q].said)
    <3>1. q # r  BY <1>4, <1>6, <2>4
    <3>2. call'[q] = call[q] /\ call[q].streamed  BY <1>1, <1>6, <2>4, <3>1
    <3>3. QED  BY <2>1, <2>4, <3>2 DEF BasesHeld
  <2>5. ASSUME NEW q \in Requests, call'[q].streamed, call'[q].pc = "store",
               AsHeard(call'[q].reply[1])
        PROVE  Dialog!Begins(Append(call'[q].said, call'[q].reply[1]), talk')
    <3>1. q # r /\ call'[q] = call[q]  BY <1>4, <1>6, <2>5
    <3>2. Dialog!Begins(Append(call[q].said, call[q].reply[1]), talk)
      BY <2>1, <2>5, <3>1 DEF StreamsHeld
    <3>3. Append(call[q].said, call[q].reply[1]) \in Talks
      <4>1. call[q] \in Rows /\ RowHeld(call[q])  BY DEF DialInv, DialTypes, RequestsHeld
      <4>2. call[q].reply \in Talks /\ Len(call[q].reply) = 1 /\ call[q].said \in Talks
        BY <2>5, <3>1, <4>1, RowIs DEF RowHeld
      <4>3. call[q].reply[1] \in Turnings  BY <4>2 DEF Talks
      <4>4. QED  BY <4>2, <4>3, SeqGrows
    <3>4. QED  BY <1>2, <1>3, <3>1, <3>2, <3>3
  <2>6. QED  BY <2>3, <2>4, <2>5 DEF BasesHeld, StreamsHeld
<1>11. FollowHeld'  BY <1>1, <1>10 DEF DialInv, FollowHeld
<1>12. QED  BY <1>6, <1>7, <1>9, <1>11 DEF DialInv

LEMMA GiveUpKeeps == ASSUME DialInv, NEW r \in Requests, Dialog!GiveUp(r) PROVE DialInv'
<1> DEFINE row == IF call[r].streamed THEN Dialog!Idle ELSE call[r]
<1>1. /\ awaited = r /\ awaited' = NoRequest
      /\ UNCHANGED <<dialect, talk, history, kept>> /\ causes \subseteq causes'
      /\ call[r].pc = "answer" => causes' # {}
  BY DEF Dialog!GiveUp
<1>2. call \in [Requests -> Rows] /\ RowHeld(call[r]) /\ call[r] \in Rows
  BY DEF DialInv, DialTypes, RequestsHeld
<1>3. call' = [call EXCEPT ![r] = row]  BY <1>2 DEF Dialog!GiveUp
<1>4. RowHeld(row) /\ row \in Rows  BY <1>2, IdleIs
<1>5. row = Dialog!Idle \/ (row = call[r] /\ ~call[r].streamed)  BY <1>2, RowIs
<1> HIDE DEF row
<1>6. RequestsHeld' /\ call' \in [Requests -> Rows] /\ call'[r] = row
      /\ \A q \in Requests : q # r => call'[q] = call[q]
  BY <1>2, <1>3, <1>4, CallsStay
<1>7. DialTypes' /\ Numbered(talk') /\ Paired(talk') /\ HistoryHeld' /\ Dialog!UserOnce'
  BY <1>1, <1>6 DEF DialInv, DialTypes, HistoryHeld, Dialog!UserOnce
<1>8. ~call'[r].streamed  BY <1>5, <1>6, IdleIs
<1>9. \A q \in Requests : awaited' # q  BY <1>1, TalkAssumption
<1>10. WaitHeld'
  <2>1. \A q \in Requests : call'[q].streamed /\ call'[q].pc \in {"load", "route"} => awaited = q
    BY <1>6, <1>8 DEF DialInv, WaitHeld
  <2>2. \A q \in Requests : ~(call'[q].streamed /\ call'[q].pc \in {"load", "route"})
    BY <1>1, <1>8, <2>1
  <2>3. QED  BY <1>9, <2>2 DEF WaitHeld
<1>11. ASSUME dialect = "responses", causes' = {}
       PROVE  Reaches' /\ BasesHeld' /\ StreamsHeld'
  <2>1. Reaches /\ BasesHeld /\ StreamsHeld  BY <1>1, <1>11 DEF DialInv, FollowHeld
  <2>2. call[r].pc # "answer"  BY <1>1, <1>11
  <2>3. Reaches'  BY <1>1, <2>1, <2>2 DEF Reaches
  <2>4. \A q \in Requests : call'[q].streamed => call'[q] = call[q]  BY <1>6, <1>8
  <2>5. BasesHeld'  BY <1>9, <2>1, <2>4 DEF BasesHeld
  <2>6. StreamsHeld'  BY <1>1, <2>1, <2>4 DEF StreamsHeld
  <2>7. QED  BY <2>3, <2>5, <2>6
<1>12. FollowHeld'
  <2>1. ASSUME dialect = "responses", causes' = {}
        PROVE  Len(history') >= kept'
    BY <1>1, <2>1 DEF DialInv, FollowHeld
  <2>2. QED  BY <1>1, <1>11, <2>1 DEF FollowHeld
<1>13. QED  BY <1>6, <1>7, <1>10, <1>12 DEF DialInv

LEMMA LoadKeeps == ASSUME DialInv, NEW r \in Requests, Dialog!Load(r) PROVE DialInv'
<1> DEFINE row == [call[r] EXCEPT !.pc = "route", !.base = history, !.up = Dialog!Upstream(r)]
<1>1. /\ call[r].pc = "load"
      /\ UNCHANGED <<dialect, talk, awaited, history, kept, causes>>
  BY DEF Dialog!Load
<1>2. call \in [Requests -> Rows] /\ RowHeld(call[r]) /\ call[r] \in Rows /\ history \in Talks
  BY DEF DialInv, DialTypes, RequestsHeld
<1>3. call' = [call EXCEPT ![r] = row]  BY <1>2 DEF Dialog!Load
<1>4. Dialog!Upstream(r) \in Talks /\ Paired(Dialog!Upstream(r))
  <2>1. call[r].said \in Talks /\ Paired(call[r].said)  BY <1>2, RowIs DEF RowHeld
  <2>2. CASE dialect # "anthropic"  BY <2>1, <2>2 DEF Dialog!Upstream
  <2>3. CASE dialect = "anthropic"
    <3>1. Paired(history)  BY <2>3 DEF DialInv, HistoryHeld
    <3>2. QED  BY <1>2, <2>1, <2>3, <3>1, PairedJoin DEF Dialog!Upstream
  <2>4. QED  BY <2>2, <2>3
<1>5. /\ row \in Rows /\ row.pc = "route" /\ row.streamed = call[r].streamed
      /\ row.said = call[r].said /\ row.base = history /\ row.up = Dialog!Upstream(r)
  BY <1>2, <1>4 DEF Rows
<1> HIDE DEF row
<1>6. RowHeld(row)  BY <1>2, <1>4, <1>5 DEF RowHeld
<1>7. RequestsHeld' /\ call' \in [Requests -> Rows] /\ call'[r] = row
      /\ \A q \in Requests : q # r => call'[q] = call[q]
  BY <1>3, <1>5, <1>6, CallsStay
<1>8. DialTypes' /\ Numbered(talk') /\ Paired(talk') /\ HistoryHeld' /\ Dialog!UserOnce'
  BY <1>1, <1>7 DEF DialInv, DialTypes, HistoryHeld, Dialog!UserOnce
<1>9. WaitHeld'
  <2>1. ASSUME NEW q \in Requests
        PROVE  /\ awaited' = q =>
                     /\ call'[q].pc # "idle" /\ talk' = call'[q].said
                     /\ call'[q].streamed => call'[q].pc \in {"load", "route"}
               /\ call'[q].streamed /\ call'[q].pc \in {"load", "route"} => awaited' = q
    <3>1. CASE q = r  BY <1>1, <1>5, <1>7, <3>1 DEF DialInv, WaitHeld
    <3>2. CASE q # r  BY <1>1, <1>7, <3>2 DEF DialInv, WaitHeld
    <3>3. QED  BY <3>1, <3>2
  <2>2. QED  BY <2>1 DEF WaitHeld
<1>10. ASSUME dialect = "responses", causes = {}
       PROVE  Reaches' /\ BasesHeld' /\ StreamsHeld'
  <2>1. Reaches /\ BasesHeld /\ StreamsHeld  BY <1>10 DEF DialInv, FollowHeld
  <2>2. Reaches'
    <3>1. CASE Dialog!Begins(history, talk)  BY <1>1, <3>1 DEF Reaches
    <3>2. CASE ~Dialog!Begins(history, talk)
      <4>1. PICK q \in Requests : /\ awaited = q /\ call[q].pc = "answer"
                                  /\ history = Append(talk, call[q].reply[1])
                                  /\ AsHeard(call[q].reply[1])
        BY <2>1, <3>2 DEF Reaches
      <4>2. call'[q] = call[q]  BY <1>1, <1>7, <4>1
      <4>3. QED  BY <1>1, <4>1, <4>2 DEF Reaches
    <3>3. QED  BY <3>1, <3>2
  <2>3. ASSUME NEW q \in Requests, call'[q].pc \in {"route", "store"},
               call'[q].streamed \/ awaited' = q
        PROVE  Dialog!Begins(call'[q].base, call'[q].said)
    <3>1. CASE q # r
      <4>1. call'[q] = call[q]  BY <1>7, <3>1
      <4>2. QED  BY <1>1, <2>1, <2>3, <4>1 DEF BasesHeld
    <3>2. CASE q = r
      <4>1. call[r].streamed \/ awaited = r  BY <1>1, <1>5, <1>7, <2>3, <3>2
      <4>2. awaited = r /\ talk = call[r].said
        BY <1>1, <4>1 DEF DialInv, WaitHeld
      <4>3. Dialog!Begins(history, talk)  BY <1>1, <2>1, <4>2 DEF Reaches
      <4>4. QED  BY <1>5, <1>7, <3>2, <4>2, <4>3
    <3>3. QED  BY <3>1, <3>2
  <2>4. StreamsHeld'
    <3>1. \A q \in Requests : call'[q].pc = "store" => call'[q] = call[q]  BY <1>5, <1>7
    <3>2. QED  BY <1>1, <2>1, <3>1 DEF StreamsHeld
  <2>5. QED  BY <2>2, <2>3, <2>4 DEF BasesHeld
<1>11. FollowHeld'  BY <1>1, <1>10 DEF DialInv, FollowHeld
<1>12. QED  BY <1>7, <1>8, <1>9, <1>11 DEF DialInv

LEMMA RefuseKeeps == ASSUME DialInv, NEW r \in Requests, Dialog!Refuse(r) PROVE DialInv'
<1>1. /\ call[r].pc = "route" /\ UNCHANGED <<dialect, talk, history, kept, causes>>
      /\ call' = [call EXCEPT ![r] = Dialog!Idle]
      /\ awaited' = IF awaited = r THEN NoRequest ELSE awaited
  BY DEF Dialog!Refuse
<1>2. RequestsHeld' /\ call' \in [Requests -> Rows] /\ call'[r] = Dialog!Idle
      /\ \A q \in Requests : q # r => call'[q] = call[q]
  BY <1>1, IdleIs, CallsStay
<1>3. DialTypes' /\ Numbered(talk') /\ Paired(talk') /\ HistoryHeld' /\ Dialog!UserOnce'
  BY <1>1, <1>2 DEF DialInv, DialTypes, HistoryHeld, Dialog!UserOnce
<1>4. \A q \in Requests : awaited' = q <=> awaited = q /\ q # r  BY <1>1, TalkAssumption
<1>5. WaitHeld'
  <2>1. ASSUME NEW q \in Requests
        PROVE  /\ awaited' = q =>
                     /\ call'[q].pc # "idle" /\ talk' = call'[q].said
                     /\ call'[q].streamed => call'[q].pc \in {"load", "route"}
               /\ call'[q].streamed /\ call'[q].pc \in {"load", "route"} => awaited' = q
    <3>1. CASE q = r  BY <1>2, <1>4, <3>1, IdleIs
    <3>2. CASE q # r  BY <1>1, <1>2, <1>4, <3>2 DEF DialInv, WaitHeld
    <3>3. QED  BY <3>1, <3>2
  <2>2. QED  BY <2>1 DEF WaitHeld
<1>6. ASSUME dialect = "responses", causes = {}
      PROVE  Reaches' /\ BasesHeld' /\ StreamsHeld'
  <2>1. Reaches /\ BasesHeld /\ StreamsHeld  BY <1>6 DEF DialInv, FollowHeld
  <2>2. Reaches'
    <3>1. CASE Dialog!Begins(history, talk)  BY <1>1, <3>1 DEF Reaches
    <3>2. CASE ~Dialog!Begins(history, talk)
      <4>1. PICK q \in Requests : /\ awaited = q /\ call[q].pc = "answer"
                                  /\ history = Append(talk, call[q].reply[1])
                                  /\ AsHeard(call[q].reply[1])
        BY <2>1, <3>2 DEF Reaches
      <4>2. q # r /\ call'[q] = call[q] /\ awaited' = q  BY <1>1, <1>2, <1>4, <4>1
      <4>3. QED  BY <1>1, <4>1, <4>2 DEF Reaches
    <3>3. QED  BY <3>1, <3>2
  <2>3. \A q \in Requests : call'[q].pc # "idle" => q # r /\ call'[q] = call[q]
    BY <1>2, IdleIs
  <2>4. BasesHeld'  BY <1>4, <2>1, <2>3 DEF BasesHeld
  <2>5. StreamsHeld'  BY <1>1, <2>1, <2>3 DEF StreamsHeld
  <2>6. QED  BY <2>2, <2>4, <2>5
<1>7. FollowHeld'  BY <1>1, <1>6 DEF DialInv, FollowHeld
<1>8. QED  BY <1>2, <1>3, <1>5, <1>7 DEF DialInv

\* What comes back of a message is a message at its place.
LEMMA BackIs ==
    ASSUME NEW m \in Turnings
    PROVE  /\ Dialog!SentBack(m) \in Turnings /\ Dialog!SentBack(m).who = m.who
           /\ Dialog!SentBack(m).n = m.n
<1>1. Dialog!SentBack(m) = [m EXCEPT !.beside = IF m.beside = "text" THEN "text" ELSE "null"]
  BY DEF Dialog!SentBack
<1>2. QED  BY <1>1 DEF Turnings

LEMMA RepliesAre ==
    ASSUME NEW r \in Requests, NEW kind \in Dialog!Kinds, call[r] \in Rows
    PROVE  LET m == Dialog!Reply(r, kind)
           IN m \in Turnings /\ m.who \notin {"user", "result"} /\ m.n = Len(call[r].said) + 1
<1> DEFINE m == Dialog!Reply(r, kind)
<1>1. Len(call[r].said) \in Nat  BY RowIs DEF Talks
<1>2. m.who \in {"text", "calls", "empty"}  BY DEF Dialog!Reply, Dialog!Kinds
<1>3. m.beside \in {"text", "apart", "empty", "null"}  BY DEF Dialog!Reply
<1>4. m.n = Len(call[r].said) + 1  BY DEF Dialog!Reply
<1>5. m = [who |-> m.who, n |-> m.n, beside |-> m.beside]  BY DEF Dialog!Reply
<1> HIDE DEF m
<1>6. m \in Turnings  BY <1>1, <1>2, <1>3, <1>4, <1>5 DEF Turnings
<1>7. QED  BY <1>2, <1>4, <1>6 DEF m

\* What a reply at its place makes of the conversation.
LEMMA HeardIs ==
    ASSUME talk \in Talks, Numbered(talk), Paired(talk), NEW m \in Turnings,
           m.who \notin {"user", "result"}, m.n = Len(talk) + 1
    PROVE  /\ Dialog!Heard(m) \in Talks /\ Numbered(Dialog!Heard(m)) /\ Paired(Dialog!Heard(m))
           /\ \A s \in Talks : Dialog!Begins(s, talk) => Dialog!Begins(s, Dialog!Heard(m))
           /\ AsHeard(m) => Dialog!Heard(m) = Append(talk, m)
<1>1. CASE m.who = "empty"  BY <1>1 DEF Dialog!Heard, AsHeard
<1>2. CASE m.who # "empty"
  <2> DEFINE back == Dialog!SentBack(m)
  <2>1. back \in Turnings /\ back.who # "result" /\ back.n = Len(talk) + 1  BY BackIs
  <2>2. Dialog!Heard(m) = Append(talk, back)  BY <1>2 DEF Dialog!Heard
  <2>3. AsHeard(m) => back = m  BY DEF AsHeard
  <2> HIDE DEF back
  <2>4. Dialog!Heard(m) \in Talks /\ Numbered(Dialog!Heard(m)) /\ Paired(Dialog!Heard(m))
    BY <2>1, <2>2, ReplyBehind
  <2>5. \A s \in Talks : Dialog!Begins(s, talk) => Dialog!Begins(s, Dialog!Heard(m))
    BY <2>1, <2>2, PrefixGrows
  <2>6. QED  BY <2>2, <2>3, <2>4, <2>5
<1>3. QED  BY <1>1, <1>2

LEMMA OneReply ==
    ASSUME NEW m \in Turnings
    PROVE  <<m>> \in Talks /\ Len(<<m>>) = 1 /\ <<m>>[1] = m
BY DEF Talks

\* What a request that is about to be stored has heard.
LEMMA ReplyHeard ==
    ASSUME DialInv, NEW q \in Requests, call[q].pc \in {"store", "answer"}
    PROVE  /\ call[q] \in Rows /\ call[q].said \in Talks /\ call[q].reply[1] \in Turnings
           /\ call[q].reply = <<call[q].reply[1]>>
           /\ call[q].reply[1].who \notin {"user", "result"}
           /\ call[q].reply[1].n = Len(call[q].said) + 1
           /\ Append(call[q].said, call[q].reply[1]) \in Talks
<1>1. call[q] \in Rows /\ RowHeld(call[q])  BY DEF DialInv, DialTypes, RequestsHeld
<1>2. /\ call[q].said \in Talks /\ call[q].reply \in Talks /\ Len(call[q].reply) = 1
      /\ call[q].reply[1].who \notin {"user", "result"}
      /\ call[q].reply[1].n = Len(call[q].said) + 1
  BY <1>1, RowIs DEF RowHeld
<1>3. call[q].reply[1] \in Turnings /\ call[q].reply = <<call[q].reply[1]>>
  BY <1>2 DEF Talks
<1>4. QED  BY <1>1, <1>2, <1>3, SeqGrows

LEMMA RouteKeeps ==
    ASSUME DialInv, NEW r \in Requests, NEW kind \in Dialog!Kinds, Dialog!Route(r, kind)
    PROVE  DialInv'
<1> DEFINE m == Dialog!Reply(r, kind)  row == [call[r] EXCEPT !.pc = "store", !.reply = <<m>>]
<1>1. /\ call[r].pc = "route" /\ UNCHANGED <<dialect, history, kept, causes>>
      /\ call[r].streamed => awaited' = NoRequest /\ talk' = Dialog!Heard(m)
      /\ ~call[r].streamed => UNCHANGED <<awaited, talk>>
      /\ call' = [call EXCEPT ![r].pc = "store", ![r].reply = <<m>>]
  BY DEF Dialog!Route
<1>2. /\ call \in [Requests -> Rows] /\ RowHeld(call[r]) /\ call[r] \in Rows
      /\ talk \in Talks /\ Numbered(talk) /\ Paired(talk) /\ history \in Talks
  BY DEF DialInv, DialTypes, RequestsHeld
<1>3. call' = [call EXCEPT ![r] = row]  BY <1>1, <1>2
<1>4. m \in Turnings /\ m.who \notin {"user", "result"} /\ m.n = Len(call[r].said) + 1
  BY <1>2, RepliesAre
<1> HIDE DEF m
<1>5. <<m>> \in Talks /\ Len(<<m>>) = 1 /\ <<m>>[1] = m  BY <1>4, OneReply
<1>6. /\ row \in Rows /\ row.pc = "store" /\ row.streamed = call[r].streamed
      /\ row.said = call[r].said /\ row.base = call[r].base /\ row.up = call[r].up
      /\ row.reply = <<m>>
  BY <1>2, <1>5 DEF Rows
<1> HIDE DEF row
<1>7. RowHeld(row)  BY <1>2, <1>4, <1>5, <1>6 DEF RowHeld
<1>8. RequestsHeld' /\ call' \in [Requests -> Rows] /\ call'[r] = row
      /\ \A q \in Requests : q # r => call'[q] = call[q]
  BY <1>3, <1>6, <1>7, CallsStay
<1>9. call[r].streamed => awaited = r /\ talk = call[r].said
  BY <1>1 DEF DialInv, WaitHeld
<1>10. /\ talk' \in Talks /\ Numbered(talk') /\ Paired(talk')
       /\ \A s \in Talks : Dialog!Begins(s, talk) => Dialog!Begins(s, talk')
       /\ call[r].streamed /\ AsHeard(m) => talk' = Append(talk, m)
  <2>1. CASE ~call[r].streamed  BY <1>1, <1>2, <2>1
  <2>2. CASE call[r].streamed
    <3>1. talk' = Dialog!Heard(m) /\ m.n = Len(talk) + 1  BY <1>1, <1>4, <1>9, <2>2
    <3>2. QED  BY <1>2, <1>4, <3>1, HeardIs
  <2>3. QED  BY <1>2, <2>1, <2>2, RowIs
<1>11. awaited' \in Requests \cup {NoRequest}
  BY <1>1, <1>2, RowIs DEF DialInv, DialTypes
<1>12. DialTypes' /\ HistoryHeld' /\ Dialog!UserOnce'
  BY <1>1, <1>8, <1>10, <1>11 DEF DialInv, DialTypes, HistoryHeld, Dialog!UserOnce
<1>13. \A q \in Requests : awaited' = q <=> awaited = q /\ ~call[r].streamed
  <2>1. CASE ~call[r].streamed  BY <1>1, <2>1
  <2>2. CASE call[r].streamed  BY <1>1, <2>2, TalkAssumption
  <2>3. QED  BY <2>1, <2>2
<1>14. WaitHeld'
  <2>1. ASSUME NEW q \in Requests, awaited' = q
        PROVE  /\ call'[q].pc # "idle" /\ talk' = call'[q].said
               /\ call'[q].streamed => call'[q].pc \in {"load", "route"}
    <3>1. awaited = q /\ ~call[r].streamed /\ talk' = talk  BY <1>1, <1>13, <2>1
    <3>2. CASE q = r  BY <1>6, <1>8, <3>1, <3>2 DEF DialInv, WaitHeld
    <3>3. CASE q # r  BY <1>8, <3>1, <3>3 DEF DialInv, WaitHeld
    <3>4. QED  BY <3>2, <3>3
  <2>2. ASSUME NEW q \in Requests, call'[q].streamed, call'[q].pc \in {"load", "route"}
        PROVE  awaited' = q
    <3>1. q # r /\ call'[q] = call[q]  BY <1>6, <1>8, <2>2
    <3>2. awaited = q  BY <2>2, <3>1 DEF DialInv, WaitHeld
    <3>3. ~call[r].streamed  BY <1>9, <3>1, <3>2
    <3>4. QED  BY <1>13, <3>2, <3>3
  <2>3. QED  BY <2>1, <2>2 DEF WaitHeld
<1>15. ASSUME dialect = "responses", causes = {}
       PROVE  Reaches' /\ BasesHeld' /\ StreamsHeld'
  <2>1. Reaches /\ BasesHeld /\ StreamsHeld  BY <1>15 DEF DialInv, FollowHeld
  <2>2. Reaches'
    <3>1. CASE Dialog!Begins(history, talk)  BY <1>1, <1>2, <1>10, <3>1 DEF Reaches
    <3>2. CASE ~Dialog!Begins(history, talk)
      <4>1. PICK q \in Requests : /\ awaited = q /\ call[q].pc = "answer"
                                  /\ history = Append(talk, call[q].reply[1])
                                  /\ AsHeard(call[q].reply[1])
        BY <2>1, <3>2 DEF Reaches
      <4>2. q # r /\ call'[q] = call[q]  BY <1>1, <1>8, <4>1
      <4>3. ~call[r].streamed  BY <1>9, <4>1, <4>2
      <4>4. awaited' = q /\ talk' = talk  BY <1>1, <4>1, <4>3
      <4>5. QED  BY <1>1, <4>1, <4>2, <4>4 DEF Reaches
    <3>3. QED  BY <3>1, <3>2
  <2>3. ASSUME NEW q \in Requests, call'[q].pc \in {"route", "store"},
               call'[q].streamed \/ awaited' = q
        PROVE  Dialog!Begins(call'[q].base, call'[q].said)
    <3>1. call[q].pc \in {"route", "store"} /\ (call[q].streamed \/ awaited = q)
      BY <1>1, <1>6, <1>8, <1>13, <2>3
    <3>2. call'[q].base = call[q].base /\ call'[q].said = call[q].said  BY <1>6, <1>8
    <3>3. QED  BY <2>1, <3>1, <3>2 DEF BasesHeld
  <2>4. ASSUME NEW q \in Requests, call'[q].streamed, call'[q].pc = "store",
               AsHeard(call'[q].reply[1])
        PROVE  Dialog!Begins(Append(call'[q].said, call'[q].reply[1]), talk')
    <3>1. CASE q = r
      <4>1. call[r].streamed  BY <1>6, <1>8, <2>4, <3>1
      <4>3. call'[q].said = call[r].said /\ call'[q].reply[1] = m  BY <1>5, <1>6, <1>8, <3>1
      <4>2. talk' = Append(call[r].said, m)  BY <1>9, <1>10, <2>4, <4>1, <4>3
      <4>4. QED  BY <1>10, <4>2, <4>3, PrefixSelf
    <3>2. CASE q # r
      <4>1. call'[q] = call[q]  BY <1>8, <3>2
      <4>2. Dialog!Begins(Append(call[q].said, call[q].reply[1]), talk)
        BY <2>1, <2>4, <4>1 DEF StreamsHeld
      <4>3. Append(call[q].said, call[q].reply[1]) \in Talks  BY <2>4, <4>1, ReplyHeard
      <4>4. QED  BY <1>10, <4>1, <4>2, <4>3
    <3>3. QED  BY <3>1, <3>2
  <2>5. QED  BY <2>2, <2>3, <2>4 DEF BasesHeld, StreamsHeld
<1>16. FollowHeld'  BY <1>1, <1>15 DEF DialInv, FollowHeld
<1>17. QED  BY <1>8, <1>10, <1>12, <1>14, <1>16 DEF DialInv

LEMMA CutShortKeeps == ASSUME DialInv, NEW r \in Requests, Dialog!CutShort(r) PROVE DialInv'
<1> DEFINE m == Dialog!Said("part", Len(call[r].said) + 1)
           row == [call[r] EXCEPT !.pc = "store", !.reply = <<m>>]
<1>1. /\ call[r].pc = "route" /\ call[r].streamed /\ awaited' = NoRequest
      /\ UNCHANGED <<dialect, talk, history, kept>> /\ causes' = causes \cup {"cut short"}
      /\ call' = [call EXCEPT ![r].pc = "store", ![r].reply = <<m>>]
  BY DEF Dialog!CutShort
<1>2. call \in [Requests -> Rows] /\ RowHeld(call[r]) /\ call[r] \in Rows
  BY DEF DialInv, DialTypes, RequestsHeld
<1>3. call' = [call EXCEPT ![r] = row]  BY <1>1, <1>2
<1>4. m \in Turnings /\ m.who = "part" /\ m.n = Len(call[r].said) + 1
  <2>1. Len(call[r].said) \in Nat  BY <1>2, RowIs DEF Talks
  <2>2. QED  BY <2>1 DEF Dialog!Said, Turnings
<1> HIDE DEF m
<1>5. <<m>> \in Talks /\ Len(<<m>>) = 1 /\ <<m>>[1] = m  BY <1>4, OneReply
<1>6. /\ row \in Rows /\ row.pc = "store" /\ row.said = call[r].said /\ row.up = call[r].up
      /\ row.reply = <<m>>
  BY <1>2, <1>5 DEF Rows
<1> HIDE DEF row
<1>7. RowHeld(row)  BY <1>2, <1>4, <1>5, <1>6 DEF RowHeld
<1>8. RequestsHeld' /\ call' \in [Requests -> Rows] /\ call'[r] = row
      /\ \A q \in Requests : q # r => call'[q] = call[q]
  BY <1>3, <1>6, <1>7, CallsStay
<1>9. DialTypes' /\ Numbered(talk') /\ Paired(talk') /\ HistoryHeld' /\ Dialog!UserOnce'
  BY <1>1, <1>8 DEF DialInv, DialTypes, HistoryHeld, Dialog!UserOnce
<1>10. awaited = r  BY <1>1 DEF DialInv, WaitHeld
<1>11. WaitHeld'
  <2>1. \A q \in Requests : awaited' # q  BY <1>1, TalkAssumption
  <2>2. ASSUME NEW q \in Requests, call'[q].streamed, call'[q].pc \in {"load", "route"}
        PROVE  FALSE
    <3>1. q # r /\ call'[q] = call[q]  BY <1>6, <1>8, <2>2
    <3>2. awaited = q  BY <2>2, <3>1 DEF DialInv, WaitHeld
    <3>3. QED  BY <1>10, <3>1, <3>2
  <2>3. QED  BY <2>1, <2>2 DEF WaitHeld
<1>12. FollowHeld'  BY <1>1 DEF FollowHeld
<1>13. QED  BY <1>8, <1>9, <1>11, <1>12 DEF DialInv

LEMMA AfterStore ==
    ASSUME DialInv, NEW r \in Requests, call[r].pc = "store",
           call' = [call EXCEPT ![r]
               = IF @.streamed THEN Dialog!Idle ELSE [@ EXCEPT !.pc = "answer"]],
           UNCHANGED <<talk, awaited>>
    PROVE  /\ RequestsHeld' /\ WaitHeld' /\ call' \in [Requests -> Rows]
           /\ \A q \in Requests : q # r => call'[q] = call[q]
           /\ call'[r].pc \in {"idle", "answer"}
           /\ ~call[r].streamed => call'[r].pc = "answer" /\ call'[r].reply = call[r].reply
<1> DEFINE row == IF call[r].streamed THEN Dialog!Idle ELSE [call[r] EXCEPT !.pc = "answer"]
<1>1. call \in [Requests -> Rows] /\ RowHeld(call[r]) /\ call[r] \in Rows
  BY DEF DialInv, DialTypes, RequestsHeld
<1>2. call' = [call EXCEPT ![r] = row]  BY <1>1
<1>3. /\ row \in Rows /\ RowHeld(row) /\ ~row.streamed /\ row.pc \in {"idle", "answer"}
      /\ ~call[r].streamed => /\ row.pc = "answer" /\ row.reply = call[r].reply
                              /\ row.said = call[r].said
  <2>1. CASE call[r].streamed  BY <2>1, IdleIs
  <2>2. CASE ~call[r].streamed
    <3> DEFINE c == [call[r] EXCEPT !.pc = "answer"]
    <3>1. /\ c \in Rows /\ c.pc = "answer" /\ c.streamed = call[r].streamed
          /\ c.said = call[r].said /\ c.up = call[r].up /\ c.reply = call[r].reply
      BY <1>1, RowIs
    <3> HIDE DEF c
    <3>2. RowHeld(c)  BY <1>1, <3>1 DEF RowHeld
    <3>3. row = c  BY <2>2 DEF c
    <3>4. QED  BY <2>2, <3>1, <3>2, <3>3
  <2>3. QED  BY <2>1, <2>2
<1> HIDE DEF row
<1>4. RequestsHeld' /\ call' \in [Requests -> Rows] /\ call'[r] = row
      /\ \A q \in Requests : q # r => call'[q] = call[q]
  BY <1>2, <1>3, CallsStay
<1>5. WaitHeld'
  <2>1. ASSUME NEW q \in Requests
        PROVE  /\ awaited' = q =>
                     /\ call'[q].pc # "idle" /\ talk' = call'[q].said
                     /\ call'[q].streamed => call'[q].pc \in {"load", "route"}
               /\ call'[q].streamed /\ call'[q].pc \in {"load", "route"} => awaited' = q
    <3>1. CASE q = r
      <4>1. awaited = r => talk = call[r].said /\ ~call[r].streamed  BY DEF DialInv, WaitHeld
      <4>2. QED  BY <1>3, <1>4, <3>1, <4>1
    <3>2. CASE q # r  BY <1>4, <3>2 DEF DialInv, WaitHeld
    <3>3. QED  BY <3>1, <3>2
  <2>2. QED  BY <2>1 DEF WaitHeld
<1>6. QED  BY <1>3, <1>4, <1>5

LEMMA StoreKeeps == ASSUME DialInv, NEW r \in Requests, Dialog!Store(r) PROVE DialInv'
<1> DEFINE m == call[r].reply[1]  said == call[r].said  base == call[r].base
           behind == history \o Dialog!NewTurns(r)  grown == Append(behind, m)
<1>1. /\ call[r].pc = "store" /\ UNCHANGED <<dialect, talk, awaited>> /\ kept' = Len(said) + 1
      /\ call' = [call EXCEPT ![r]
             = IF @.streamed THEN Dialog!Idle ELSE [@ EXCEPT !.pc = "answer"]]
  BY DEF Dialog!Store
<1>2. /\ history' = Dialog!Retained(history \o Dialog!NewTurns(r) \o call[r].reply)
      /\ causes \subseteq causes'
      /\ history # base => "overlap" \in causes'
      /\ history' # history \o Dialog!NewTurns(r) \o call[r].reply => "retention" \in causes'
      /\ ~AsHeard(m) => "altered" \in causes'
      /\ ~call[r].streamed /\ awaited # r => "given up" \in causes'
  BY DEF Dialog!Store, AsHeard
<1>3. /\ call[r] \in Rows /\ said \in Talks /\ m \in Turnings
      /\ call[r].reply = <<m>> /\ m.who \notin {"user", "result"}
      /\ m.n = Len(said) + 1 /\ Append(said, m) \in Talks
      /\ RowHeld(call[r]) /\ base \in Talks /\ history \in Talks /\ Len(said) \in Nat
  <2>1. history \in Talks /\ RowHeld(call[r])  BY DEF DialInv, DialTypes, RequestsHeld
  <2>2. call[r] \in Rows  BY DEF DialInv, DialTypes
  <2>3. base \in Talks  BY <2>2, RowIs
  <2>4. /\ said \in Talks /\ m \in Turnings /\ call[r].reply = <<m>>
        /\ m.who \notin {"user", "result"} /\ m.n = Len(said) + 1 /\ Append(said, m) \in Talks
    BY <1>1, ReplyHeard
  <2>5. Len(said) \in Nat  BY <2>4 DEF Talks
  <2>6. QED  BY <2>1, <2>2, <2>3, <2>4, <2>5
<1>5. /\ RequestsHeld' /\ WaitHeld' /\ call' \in [Requests -> Rows]
      /\ \A q \in Requests : q # r => call'[q] = call[q]
      /\ call'[r].pc \in {"idle", "answer"}
      /\ ~call[r].streamed => call'[r].pc = "answer" /\ call'[r].reply = call[r].reply
  BY <1>1, AfterStore
<1> HIDE DEF m, said, base
<1>6. Dialog!NewTurns(r) \in Talks /\ behind \in Talks
  <2>1. Dialog!SuffixAfterHistory(base, said) \in Talks  BY <1>3, RestBehind
  <2>2. Dialog!NewTurns(r) \in Talks  BY <1>3, <2>1 DEF Dialog!NewTurns, said, base
  <2>3. QED  BY <1>3, <2>2, ConcatProperties DEF Talks
<1>7. history \o Dialog!NewTurns(r) \o call[r].reply = grown
  <2>1. behind \o <<m>> = Append(behind, m)
    <3>1. behind \in Seq(Turnings)  BY <1>6 DEF Talks
    <3> HIDE DEF behind
    <3>2. QED  BY <1>3, <3>1
  <2>2. QED  BY <1>3, <2>1
<1> HIDE DEF behind
<1>8. grown \in Talks /\ grown # <<>>  BY <1>3, <1>6, ReplyBehind
<1>9. Dialog!Retained(grown) = history' /\ history' \in Talks
  BY <1>2, <1>7, <1>8, CutKeeps
<1>10. HistoryHeld'
  <2>1. ASSUME dialect = "anthropic" PROVE Paired(history')
    <3>1. Dialog!NewTurns(r) = said /\ Paired(said) /\ Paired(history)
      BY <1>3, <2>1 DEF Dialog!NewTurns, said, RowHeld, DialInv, HistoryHeld
    <3>2. Paired(behind)  BY <1>3, <3>1, PairedJoin DEF behind
    <3>3. Paired(grown)  BY <1>3, <1>6, <3>2, ReplyBehind
    <3>4. QED  BY <1>8, <1>9, <3>3, CutKeeps
  <2>2. QED  BY <1>1, <2>1 DEF HistoryHeld
<1>11. ASSUME dialect = "responses", history = base
       PROVE  /\ Dialog!Begins(base, said) => behind = said
              /\ ~Dialog!Begins(base, said) => behind = history
  <2>1. Dialog!NewTurns(r) = Dialog!SuffixAfterHistory(base, said)
    BY <1>11 DEF Dialog!NewTurns, said, base
  <2>2. /\ Dialog!Begins(base, said) => base \o Dialog!SuffixAfterHistory(base, said) = said
        /\ ~Dialog!Begins(base, said) => Dialog!SuffixAfterHistory(base, said) = <<>>
    BY <1>3, RestBehind
  <2>3. history \o <<>> = history  BY <1>3 DEF Talks
  <2>4. QED  BY <1>11, <2>1, <2>2, <2>3 DEF behind
<1>12. Dialog!UserOnce'
  <2>1. ASSUME dialect = "responses", "overlap" \notin causes' PROVE UsersApart(history')
    <3>1. history = base /\ "overlap" \notin causes  BY <1>2, <2>1
    <3>2. UsersApart(history)  BY <2>1, <3>1 DEF DialInv, Dialog!UserOnce, UsersApart
    <3>3. UsersApart(said)
      <4>1. Numbered(said)  BY <1>3 DEF RowHeld, said
      <4>2. \A i, j \in DOMAIN said : i # j => said[i] # said[j]  BY <4>1 DEF Numbered
      <4>3. QED  BY <4>2 DEF UsersApart
    <3>4. UsersApart(behind)  BY <1>11, <2>1, <3>1, <3>2, <3>3
    <3>5. UsersApart(grown)  BY <1>3, <1>6, <3>4, ReplyBehind
    <3>6. QED  BY <1>8, <1>9, <3>5, CutKeeps
  <2>2. QED  BY <1>1, <2>1 DEF Dialog!UserOnce, UsersApart
<1>13. FollowHeld'
  <2>1. ASSUME dialect = "responses", causes' = {}
        PROVE  Len(history') >= kept' /\ Reaches' /\ BasesHeld' /\ StreamsHeld'
    <3>1. /\ causes = {} /\ history = base /\ history' = grown /\ AsHeard(m)
          /\ (call[r].streamed \/ awaited = r)
      BY <1>2, <1>7, <2>1
    <3>2. Reaches /\ BasesHeld /\ StreamsHeld  BY <2>1, <3>1 DEF DialInv, FollowHeld
    <3>3. Dialog!Begins(base, said)  BY <1>1, <3>1, <3>2 DEF BasesHeld, base, said
    <3>4. history' = Append(said, m)  BY <1>11, <2>1, <3>1, <3>3
    <3>5. Len(history') >= kept'
      <4>1. Len(history') = Len(said) + 1  BY <1>3, <3>4, SeqGrows
      <4>2. QED  BY <1>1, <1>3, <4>1 DEF said
    <3>6. Reaches'
      <4>1. CASE call[r].streamed
        <5>1. Dialog!Begins(Append(said, m), talk)
          BY <1>1, <3>1, <3>2, <4>1 DEF StreamsHeld, said, m
        <5>2. QED  BY <1>1, <3>4, <5>1 DEF Reaches
      <4>2. CASE ~call[r].streamed
        <5>1. awaited' = r /\ talk' = said  BY <1>1, <3>1, <4>2 DEF DialInv, WaitHeld, said
        <5>2. call'[r].pc = "answer" /\ call'[r].reply[1] = m  BY <1>5, <4>2 DEF m
        <5>3. QED  BY <3>1, <3>4, <5>1, <5>2 DEF Reaches
      <4>3. QED  BY <4>1, <4>2
    <3>7. \A q \in Requests : call'[q].pc \in {"route", "store"} => call'[q] = call[q]
      BY <1>5
    <3>8. BasesHeld'  BY <1>1, <3>2, <3>7 DEF BasesHeld
    <3>9. StreamsHeld'  BY <1>1, <3>2, <3>7 DEF StreamsHeld
    <3>10. QED  BY <3>5, <3>6, <3>8, <3>9
  <2>2. QED  BY <1>1, <2>1 DEF FollowHeld
<1>14. DialTypes' /\ Numbered(talk') /\ Paired(talk')
  BY <1>1, <1>3, <1>5, <1>9 DEF DialInv, DialTypes
<1>15. QED  BY <1>5, <1>10, <1>12, <1>13, <1>14 DEF DialInv

LEMMA StoreFailsKeeps == ASSUME DialInv, NEW r \in Requests, Dialog!StoreFails(r) PROVE DialInv'
<1>1. /\ call[r].pc = "store" /\ UNCHANGED <<dialect, talk, awaited, history, kept, causes>>
      /\ call' = [call EXCEPT ![r]
             = IF @.streamed THEN Dialog!Idle ELSE [@ EXCEPT !.pc = "answer"]]
  BY DEF Dialog!StoreFails
<1>2. /\ RequestsHeld' /\ WaitHeld' /\ call' \in [Requests -> Rows]
      /\ \A q \in Requests : q # r => call'[q] = call[q]
      /\ call'[r].pc \in {"idle", "answer"}
  BY <1>1, AfterStore
<1>3. DialTypes' /\ Numbered(talk') /\ Paired(talk') /\ HistoryHeld' /\ Dialog!UserOnce'
  BY <1>1, <1>2 DEF DialInv, DialTypes, HistoryHeld, Dialog!UserOnce
<1>4. ASSUME dialect = "responses", causes = {}
      PROVE  Reaches' /\ BasesHeld' /\ StreamsHeld'
  <2>1. Reaches /\ BasesHeld /\ StreamsHeld  BY <1>4 DEF DialInv, FollowHeld
  <2>2. Reaches'
    <3>1. CASE Dialog!Begins(history, talk)  BY <1>1, <3>1 DEF Reaches
    <3>2. CASE ~Dialog!Begins(history, talk)
      <4>1. PICK q \in Requests : /\ awaited = q /\ call[q].pc = "answer"
                                  /\ history = Append(talk, call[q].reply[1])
                                  /\ AsHeard(call[q].reply[1])
        BY <2>1, <3>2 DEF Reaches
      <4>2. call'[q] = call[q] /\ awaited' = q  BY <1>1, <1>2, <4>1
      <4>3. QED  BY <1>1, <4>1, <4>2 DEF Reaches
    <3>3. QED  BY <3>1, <3>2
  <2>3. \A q \in Requests : call'[q].pc \in {"route", "store"} => call'[q] = call[q]  BY <1>2
  <2>4. BasesHeld'  BY <1>1, <2>1, <2>3 DEF BasesHeld
  <2>5. StreamsHeld'  BY <1>1, <2>1, <2>3 DEF StreamsHeld
  <2>6. QED  BY <2>2, <2>4, <2>5
<1>5. FollowHeld'  BY <1>1, <1>4 DEF DialInv, FollowHeld
<1>6. QED  BY <1>2, <1>3, <1>5 DEF DialInv

LEMMA ReplyKeeps == ASSUME DialInv, NEW r \in Requests, Dialog!Answer(r) PROVE DialInv'
<1> DEFINE m == call[r].reply[1]
<1>1. /\ call[r].pc = "answer" /\ UNCHANGED <<dialect, history, kept, causes>>
      /\ call' = [call EXCEPT ![r] = Dialog!Idle]
      /\ awaited = r => awaited' = NoRequest /\ talk' = Dialog!Heard(m)
      /\ awaited # r => UNCHANGED <<awaited, talk>>
  BY DEF Dialog!Answer
<1>2. /\ talk \in Talks /\ Numbered(talk) /\ Paired(talk) /\ history \in Talks
      /\ m \in Turnings /\ m.who \notin {"user", "result"} /\ m.n = Len(call[r].said) + 1
      /\ awaited \in Requests \cup {NoRequest}
  BY <1>1, ReplyHeard DEF DialInv, DialTypes
<1> HIDE DEF m
<1>3. RequestsHeld' /\ call' \in [Requests -> Rows] /\ call'[r] = Dialog!Idle
      /\ \A q \in Requests : q # r => call'[q] = call[q]
  BY <1>1, IdleIs, CallsStay
<1>5. /\ talk' \in Talks /\ Numbered(talk') /\ Paired(talk')
      /\ \A s \in Talks : Dialog!Begins(s, talk) => Dialog!Begins(s, talk')
      /\ awaited = r /\ AsHeard(m) => talk' = Append(talk, m)
  <2>1. CASE awaited # r  BY <1>1, <1>2, <2>1
  <2>2. CASE awaited = r
    <3>1. talk = call[r].said  BY <2>2 DEF DialInv, WaitHeld
    <3>2. talk' = Dialog!Heard(m) /\ m.n = Len(talk) + 1  BY <1>1, <1>2, <2>2, <3>1
    <3>3. QED  BY <1>2, <3>2, HeardIs
  <2>3. QED  BY <2>1, <2>2
<1>6. \A q \in Requests : awaited' = q <=> awaited = q /\ q # r
  <2>1. CASE awaited = r  BY <1>1, <2>1, TalkAssumption
  <2>2. CASE awaited # r  BY <1>1, <2>2
  <2>3. QED  BY <2>1, <2>2
<1>7. awaited' \in Requests \cup {NoRequest}  BY <1>1, <1>2
<1>8. DialTypes' /\ HistoryHeld' /\ Dialog!UserOnce'
  BY <1>1, <1>3, <1>5, <1>7 DEF DialInv, DialTypes, HistoryHeld, Dialog!UserOnce
<1>9. WaitHeld'
  <2>1. ASSUME NEW q \in Requests
        PROVE  /\ awaited' = q =>
                     /\ call'[q].pc # "idle" /\ talk' = call'[q].said
                     /\ call'[q].streamed => call'[q].pc \in {"load", "route"}
               /\ call'[q].streamed /\ call'[q].pc \in {"load", "route"} => awaited' = q
    <3>1. CASE q = r  BY <1>3, <1>6, <3>1, IdleIs
    <3>2. CASE q # r
      <4>1. call'[q] = call[q]  BY <1>3, <3>2
      <4>2. awaited' = q => awaited = q /\ talk' = talk  BY <1>1, <1>6, <3>2
      <4>3. awaited = q => awaited' = q  BY <1>6, <3>2
      <4>4. QED  BY <4>1, <4>2, <4>3 DEF DialInv, WaitHeld
    <3>3. QED  BY <3>1, <3>2
  <2>2. QED  BY <2>1 DEF WaitHeld
<1>10. ASSUME dialect = "responses", causes = {}
       PROVE  Reaches' /\ BasesHeld' /\ StreamsHeld'
  <2>1. Reaches /\ BasesHeld /\ StreamsHeld  BY <1>10 DEF DialInv, FollowHeld
  <2>2. Reaches'
    <3>1. CASE Dialog!Begins(history, talk)  BY <1>1, <1>2, <1>5, <3>1 DEF Reaches
    <3>2. CASE ~Dialog!Begins(history, talk)
      <4>1. PICK q \in Requests : /\ awaited = q /\ call[q].pc = "answer"
                                  /\ history = Append(talk, call[q].reply[1])
                                  /\ AsHeard(call[q].reply[1])
        BY <2>1, <3>2 DEF Reaches
      <4>2. CASE q = r
        <5>1. history = Append(talk, m) /\ AsHeard(m) /\ awaited = r
          BY <4>1, <4>2 DEF m
        <5>2. talk' = history  BY <1>5, <5>1
        <5>3. QED  BY <1>1, <1>2, <5>2, PrefixSelf DEF Reaches
      <4>3. CASE q # r
        <5>1. awaited' = q /\ talk' = talk /\ call'[q] = call[q]
          BY <1>1, <1>3, <1>6, <4>1, <4>3
        <5>2. QED  BY <1>1, <4>1, <5>1 DEF Reaches
      <4>4. QED  BY <4>2, <4>3
    <3>3. QED  BY <3>1, <3>2
  <2>3. \A q \in Requests : call'[q].pc # "idle" => q # r /\ call'[q] = call[q]
    BY <1>3, IdleIs
  <2>4. BasesHeld'  BY <1>6, <2>1, <2>3 DEF BasesHeld
  <2>5. ASSUME NEW q \in Requests, call'[q].streamed, call'[q].pc = "store",
               AsHeard(call'[q].reply[1])
        PROVE  Dialog!Begins(Append(call'[q].said, call'[q].reply[1]), talk')
    <3>1. call'[q] = call[q]  BY <2>3, <2>5
    <3>2. Dialog!Begins(Append(call[q].said, call[q].reply[1]), talk)
      BY <2>1, <2>5, <3>1 DEF StreamsHeld
    <3>3. Append(call[q].said, call[q].reply[1]) \in Talks  BY <2>5, <3>1, ReplyHeard
    <3>4. QED  BY <1>5, <3>1, <3>2, <3>3
  <2>6. QED  BY <2>2, <2>4, <2>5 DEF StreamsHeld
<1>11. FollowHeld'  BY <1>1, <1>10 DEF DialInv, FollowHeld
<1>12. QED  BY <1>3, <1>5, <1>8, <1>9, <1>11 DEF DialInv

LEMMA DialStutter == ASSUME DialInv, UNCHANGED Dialog!dialogueVars PROVE DialInv'
<1>1. UNCHANGED <<dialect, talk, awaited, call, history, sent, kept, causes>>
  BY DEF Dialog!dialogueVars
<1>2. DialTypes' /\ Numbered(talk') /\ Paired(talk') /\ RequestsHeld' /\ WaitHeld' /\ HistoryHeld'
  BY <1>1 DEF DialInv, DialTypes, RequestsHeld, WaitHeld, HistoryHeld
<1>3. Dialog!UserOnce' /\ FollowHeld'
  BY <1>1 DEF DialInv, Dialog!UserOnce, FollowHeld, Reaches, BasesHeld, StreamsHeld
<1>4. QED  BY <1>2, <1>3 DEF DialInv

LEMMA DialStep == DialInv /\ Dialog!DialogueNext => DialInv'
BY SendKeeps, GiveUpKeeps, LoadKeeps, RefuseKeeps, RouteKeeps, CutShortKeeps, StoreKeeps,
   StoreFailsKeeps, ReplyKeeps DEF Dialog!DialogueNext

LEMMA DialoguesAreSafe == DialInv => Dialog!DialogueSafe
<1> SUFFICES ASSUME DialInv PROVE Dialog!DialogueSafe  OBVIOUS
<1>1. Dialog!FollowsTheTalk
  <2>1. ASSUME dialect = "responses", causes = {}
        PROVE  /\ Len(history) >= kept
               /\ \/ Dialog!Begins(history, talk)
                  \/ \E r \in Dialog!Replying :
                         Dialog!Begins(history, Append(talk, call[r].reply[1]))
    <3>1. Len(history) >= kept /\ Reaches  BY <2>1 DEF DialInv, FollowHeld
    <3>2. ASSUME NEW r \in Requests, call[r].pc = "answer",
                 history = Append(talk, call[r].reply[1])
          PROVE  r \in Dialog!Replying /\ Dialog!Begins(history, Append(talk, call[r].reply[1]))
      BY <3>2, PrefixSelf DEF Dialog!Replying, DialInv, DialTypes
    <3>3. QED  BY <3>1, <3>2 DEF Reaches
  <2>2. QED  BY <2>1 DEF Dialog!FollowsTheTalk
<1>2. Dialog!PairsUpstream
  <2>1. ASSUME NEW r \in Requests, NEW i \in DOMAIN call[r].up, call[r].up[i].who = "result"
        PROVE  \E j \in 1 .. i - 1 : /\ call[r].up[j].who = "calls"
                                     /\ call[r].up[j].n + 1 = call[r].up[i].n
    <3>1. Paired(call[r].up) /\ call[r] \in Rows  BY DEF DialInv, RequestsHeld, RowHeld, DialTypes
    <3>2. call[r].up \in Talks  BY <3>1, RowIs
    <3>3. i \in Nat  BY <3>2 DEF Talks
    <3>4. /\ i > 1 /\ call[r].up[i - 1].who = "calls"
          /\ call[r].up[i - 1].n + 1 = call[r].up[i].n
      BY <2>1, <3>1 DEF Paired
    <3>5. i - 1 \in 1 .. i - 1  BY <3>3, <3>4
    <3>6. QED  BY <3>4, <3>5
  <2>2. QED  BY <2>1 DEF Dialog!PairsUpstream
<1>3. QED  BY <1>1, <1>2 DEF DialInv, Dialog!DialogueSafe
-----------------------------------------------------------------------------
(* What follows                                                            *)

TalkInv == GateInv /\ WorkInv /\ MemInv /\ StreamInv /\ DialInv

LEMMA TalkInitInv == TalkInit => TalkInv
BY GateInitInv, WorkInitInv, MemInitInv, StreamInitInv, DialInitInv DEF TalkInit, TalkInv

LEMMA TalkStep == TalkInv /\ [TalkNext]_vars => TalkInv'
<1> SUFFICES ASSUME TalkInv, [TalkNext]_vars PROVE TalkInv'  OBVIOUS
<1>1. /\ ToolNext \/ UNCHANGED toolVars
      /\ Work!WorkflowsNext \/ UNCHANGED workflowVars
      /\ Memo!MemoryNext \/ UNCHANGED memoryVars
      /\ Stream!StreamNext \/ UNCHANGED streamVars
      /\ Dialog!DialogueNext \/ UNCHANGED dialogueVars
  BY DEF TalkNext, vars
<1>2. GateInv /\ WorkInv /\ MemInv /\ StreamInv /\ DialInv  BY DEF TalkInv
<1>3. GateInv'  BY <1>1, <1>2, GateStep
<1>4. WorkInv'
  <2>1. CASE Work!WorkflowsNext  BY <1>2, <2>1, WorkStep
  <2>2. CASE UNCHANGED workflowVars
    <3>1. UNCHANGED Work!workflowVars  BY <2>2 DEF workflowVars, Work!workflowVars
    <3>2. QED  BY <1>2, <3>1, WorkStutter
  <2>3. QED  BY <1>1, <2>1, <2>2
<1>5. MemInv'
  <2>1. CASE Memo!MemoryNext  BY <1>2, <2>1, MemStep
  <2>2. CASE UNCHANGED memoryVars
    <3>1. UNCHANGED Memo!memoryVars  BY <2>2 DEF memoryVars, Memo!memoryVars
    <3>2. QED  BY <1>2, <3>1, MemStutter
  <2>3. QED  BY <1>1, <2>1, <2>2
<1>6. StreamInv'
  <2>1. CASE Stream!StreamNext  BY <1>2, <2>1, StreamStep
  <2>2. CASE UNCHANGED streamVars
    <3>1. UNCHANGED Stream!streamVars  BY <2>2 DEF streamVars, Stream!streamVars
    <3>2. QED  BY <1>2, <3>1, StreamStutter
  <2>3. QED  BY <1>1, <2>1, <2>2
<1>7. DialInv'
  <2>1. CASE Dialog!DialogueNext  BY <1>2, <2>1, DialStep
  <2>2. CASE UNCHANGED dialogueVars
    <3>1. UNCHANGED Dialog!dialogueVars  BY <2>2 DEF dialogueVars, Dialog!dialogueVars
    <3>2. QED  BY <1>2, <3>1, DialStutter
  <2>3. QED  BY <1>1, <2>1, <2>2
<1>8. QED  BY <1>3, <1>4, <1>5, <1>6, <1>7 DEF TalkInv

\* The invariant the components keep together (every action of Talk).
THEOREM TalkInvariant == TalkSpec => []TalkInv
<1>1. QED  BY TalkInitInv, TalkStep, PTL DEF TalkSpec

\* Nothing acts without its word, for an explorer, in the wrong place or past a rule; what
\* is staged is sound, and a batch never waits for a card (before_tool_call, _dispatch,
\* run_agent_turn, confirm_action, execute_job).
THEOREM ToolsStaySafe == TalkSpec => []ToolsSafe
<1>1. ASSUME GateInv  PROVE ToolsSafe
  <2>1. ChangesApproved  BY <1>1 DEF GateInv, EffectsSound, Allowed, ChangesApproved
  <2>2. ExplorersRead
    <3>1. \A e \in effects : e.where \in Effective  BY <1>1 DEF GateInv, GateTypes
    <3>2. QED
      BY <1>1, <3>1 DEF GateInv, EffectsSound, Allowed, ExplorersRead, Explorers, Effective
  <2>3. RightPlace  BY <1>1 DEF GateInv, EffectsSound, RightPlace
  <2>4. WallsHold  BY <1>1 DEF GateInv, EffectsSound, WallsHold
  <2>5. StagedIsSound  BY <1>1 DEF GateInv, JobsSound, Sound, StagedIsSound
  <2>6. NoSilentCard  BY <1>1 DEF GateInv, UsesSound, NoSilentCard
  <2>7. QED  BY <2>1, <2>2, <2>3, <2>4, <2>5, <2>6 DEF ToolsSafe
<1>2. TalkInv => ToolsSafe  BY <1>1 DEF TalkInv
<1>3. QED  BY <1>2, TalkInvariant, PTL

\* The steps, findings and events of a workflow are the ones it ran, in order, each event
\* is stored and inspected once and none it has not emitted, and a user's memories are
\* filed once, under projects of their own, which never pass the cap (harness_fanout,
\* harness_workflows, harness_events, record_memories, save_memory, project_create).
THEOREM RecordsStaySafe == TalkSpec => []RecordsSafe
<1>1. TalkInv => RecordsSafe  BY WorkflowsAreSafe, MemoriesAreSafe DEF TalkInv, RecordsSafe
<1>2. QED  BY <1>1, TalkInvariant, PTL

\* A client is sent well formed frames of what is then stored, its tool calls announced and
\* apart, and handed over once; until a named cause parts them, the stored history of a
\* Responses client is the beginning of what it resends, no user message is in it twice but
\* by requests that overlapped, and what goes upstream pairs each result with its call
\* (build_stream_events, create_response, anthropic_messages).
THEOREM DialectsStaySafe == TalkSpec => []DialectsSafe
<1>1. TalkInv => DialectsSafe  BY StreamsAreSafe, DialoguesAreSafe DEF TalkInv, DialectsSafe
<1>2. QED  BY <1>1, TalkInvariant, PTL
=============================================================================
