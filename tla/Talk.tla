-------------------------------- MODULE Talk --------------------------------
(***************************************************************************)
(* What a model's words become: frames streamed, history stored, tools     *)
(* gated, workflows and memories recorded.                                 *)
(*                                                                         *)
(* The components share no state and meet only in what they hand on; each  *)
(* is played in a scene of its own, the others keeping their initial       *)
(* states.  Memories are played in three: requests that overlap, projects  *)
(* created against a cap, and users who save, search and list.             *)
(***************************************************************************)
EXTENDS ToolGate

CONSTANTS
    Scenes,                                                  \* the scenes a run plays
    Ids, Names, Indices, MaxChunks,                          \* Streams
    Requests, NoRequest, MaxTalk, MaxRequests, TurnCap,      \* Dialogue
    Planned, MaxWidth, MaxIterations, RepeatLimit, MaxSteps, \* Workflows
    HistoryLimit, Stubborn, Stored, LastTime,
    Users, Callers, Ops, Spoken, Alike, Cap, Limit,          \* Memories
    MaxProjects, MaxMemories

VARIABLES
    scene,
    \* Streams
    wire, phase, chunks, text, calls, latest, finish, frames, stored, completions,
    \* Dialogue
    dialect, talk, awaited, call, history, sent, kept, causes,
    \* Workflows
    job, steps, findings, charged, clock, events, oldest, rows, writing, inspector, follower,
    \* Memories
    projects, memories, callers

Stream == INSTANCE Streams WITH dialect <- wire
Dialog == INSTANCE Dialogue
Work == INSTANCE Workflows
Memo == INSTANCE Memories

\* A history keeps a turn, an event bus an event; a finished request brings finitely many
\* messages.
ASSUME TalkAssumption ==
    /\ NoRequest \notin Requests /\ TurnCap \in Nat \ {0}
    /\ HistoryLimit \in Nat \ {0} /\ MaxWidth \in Nat /\ Planned \in Nat /\ Stored \in Nat
    /\ Cap \in Nat /\ Limit \in Nat
    /\ \A said \in Spoken : IsFiniteSet(DOMAIN said)

streamVars == <<wire, phase, chunks, text, calls, latest, finish, frames, stored, completions>>
dialogueVars == <<dialect, talk, awaited, call, history, sent, kept, causes>>
workflowVars == <<job, steps, findings, charged, clock, events, oldest, rows, writing, inspector,
                  follower>>
memoryVars == <<projects, memories, callers>>
vars == <<scene, streamVars, dialogueVars, toolVars, workflowVars, memoryVars>>

MemoryScenes == {"record", "file", "find"}

\* A component outside its scene has one initial state.
TalkInit ==
    /\ scene \in Scenes
    /\ Memo!MemoryInit
    /\ Stream!StreamInit /\ (scene # "stream" => wire = "chat")
    /\ Dialog!DialogueInit /\ (scene # "dialogue" => dialect = "responses")
    /\ ToolInit /\ (scene # "gate" => ~routing /\ ~online)
    /\ Work!WorkflowInit /\ (scene # "work" => job = "planning" /\ follower = "engine")

TalkNext ==
    /\ UNCHANGED scene
    /\ \/ scene = "stream" /\ Stream!StreamNext
       \/ scene # "stream" /\ UNCHANGED streamVars
    /\ \/ scene = "dialogue" /\ Dialog!DialogueNext
       \/ scene # "dialogue" /\ UNCHANGED dialogueVars
    /\ \/ scene = "work" /\ Work!WorkflowsNext
       \/ scene # "work" /\ UNCHANGED workflowVars
    /\ \/ scene \in MemoryScenes /\ Memo!MemoryNext
       \/ scene \notin MemoryScenes /\ UNCHANGED memoryVars
    /\ \/ scene = "gate" /\ ToolNext
       \/ scene # "gate" /\ UNCHANGED toolVars

TalkSpec == TalkInit /\ [][TalkNext]_vars
-----------------------------------------------------------------------------
\* A client is sent well formed frames of what is then stored, and the stored
\* history follows the conversation the client resends (compat/,
\* responses_compat.py).
DialectsSafe == Stream!StreamSafe /\ Dialog!DialogueSafe

\* The steps, findings and events of a workflow are the ones it ran, in order, and a
\* user's memories are filed once, under projects of their own (harness_fanout.py,
\* harness_events.py, core/memory.py).
RecordsSafe == Work!WorkflowSafe /\ Memo!MemorySafe

\* responses_compat.py:117-125, of the history behind a previous_response_id: new user
\* turns are stored also past the window, "correctness wins here".
UserTurnsStored == Dialog!UserTurnsStored
=============================================================================
