------------------------------ MODULE Memories ------------------------------
(***************************************************************************)
(* What is remembered of a person, and the projects it is filed under:     *)
(* core/memory.py and core/retrieval.py, reached from a finished chat      *)
(* request, from the memory and project tools of POST /mcp and of the      *)
(* browser agent (endpoints/mcp.py, core/tool_dispatch.py), and from the   *)
(* dashboard.                                                              *)
(*                                                                         *)
(* Each statement of a call commits alone unless a comment says otherwise, *)
(* so calls of one user interleave between them; no unique constraint      *)
(* backs a memory's content.  A text is its words, with a label in front   *)
(* when it was found as a fact.  What a request brings is what the patterns*)
(* find in its messages, in their order: they nest, so one sentence may be *)
(* asked for, be a note and hold a preference, each with words of its own. *)
(* The kill-switches are read at each call: with INVINCIBLE_MEMORY off a   *)
(* call that would create a memory changes nothing, and                    *)
(* INVINCIBLE_MEMORY_EXPLICIT is the value a call read.                    *)
(***************************************************************************)
EXTENDS Naturals, Sequences, FiniteSets

CONSTANTS
    Users, Callers,
    Ops,           \* the operations a scene has
    Spoken,        \* what is found in the messages of a finished request: [role, by, words]
    Alike,         \* pairs of words the trigram match takes for each other
    Cap,           \* PROJECT_CAP
    Limit,         \* rows one search returns
    MaxProjects, MaxMemories   \* bounds: rows ever created

VARIABLES
    projects,      \* by id: [owner, name, archived, live]
    memories,      \* by id: [owner, project, layer, content, live, ...]
    callers        \* calls under way and what they were answered

memoryVars == <<projects, memories, callers>>

None == 0
Idle == [pc |-> "idle"]
Turn(r, caller) == callers' = [callers EXCEPT ![r] = caller]
Ended(r, caller, answer) ==
    Turn(r, [pc |-> "done", user |-> caller.user, answer |-> answer,
             project |-> caller.project])

Projects == {p \in DOMAIN projects : projects[p].live}
Memories == {m \in DOMAIN memories : memories[m].live}
OwnedBy(u) == {m \in Memories : memories[m].owner = u}
-----------------------------------------------------------------------------
\* resolve_project_by_name: an active project of the caller's own.
Resolve(u, name) ==
    {p \in Projects : /\ projects[p].owner = u /\ projects[p].name = name
                      /\ ~projects[p].archived}

\* ProjectService.list without the archived ones.
Listing(u) == {p \in Projects : projects[p].owner = u /\ ~projects[p].archived}

\* extract_facts: what the user said, each triple once, in spoken order.
ExtractFacts(found) ==
    LET fact(k) == <<found[k].by, found[k].words>>
        first(k) == /\ found[k].role = "user" /\ found[k].by # "asked"
                    /\ \A j \in 1 .. k - 1 : found[j].role = "user" => fact(j) # fact(k)
    IN [k \in {k \in DOMAIN found : first(k)} |-> fact(k)]

\* extract_explicit: what the user asked to have kept.
ExtractExplicit(found) ==
    {found[k].words : k \in {k \in DOMAIN found : found[k].role = "user" /\ found[k].by = "asked"}}

Plain(words) == [label |-> "none", words |-> words]
Explicit(words) == [layer |-> "explicit", content |-> Plain(words)]

\* memory_row_from_fact: "relation: target", without the entity.
RowFromFact(fact) == [layer |-> "auto", content |-> [label |-> fact[1], words |-> fact[2]]]

\* Variant: a phrase the user asked to keep is filed as a guess as well.
RowsTwice(found, explicit) ==
    LET facts == ExtractFacts(found)
    IN {RowFromFact(facts[k]) : k \in DOMAIN facts}
       \cup {Explicit(words) : words \in ExtractExplicit(found)}

\* record_memories: one guess per relation, the last one found, unless its
\* words were asked for; and every phrase that was.
Rows(found, explicit) ==
    LET asked == IF explicit THEN ExtractExplicit(found) ELSE {}
        facts == ExtractFacts(found)
        guesses == {k \in DOMAIN facts : facts[k][2] \notin asked}
        last == {k \in guesses : \A j \in guesses : facts[j][1] = facts[k][1] => j <= k}
    IN {RowFromFact(facts[k]) : k \in last} \cup {Explicit(words) : words \in asked}
-----------------------------------------------------------------------------
(* A finished chat request: record_memories in one transaction that other  *)
(* transactions interleave with.                                           *)
OnRecord(u, row) ==
    \E m \in OwnedBy(u) : /\ memories[m].project = None
                          /\ memories[m].layer = row.layer
                          /\ memories[m].content = row.content

\* Variant: what the batch repeats is left out, what the table holds is not.
LookUpBatchOnly(r, u, found, explicit) ==
    /\ callers[r] = Idle /\ Rows(found, explicit) # {}
    /\ Turn(r, [pc |-> "insert", user |-> u, project |-> None,
                rows |-> Rows(found, explicit),
                asked |-> IF explicit THEN ExtractExplicit(found) ELSE {},
                seen |-> Memories])
    /\ UNCHANGED <<projects, memories>>

\* The batch-aware lookup, keeping what is not stored yet.
LookUp(r, u, found, explicit) ==
    /\ callers[r] = Idle /\ Rows(found, explicit) # {}
    /\ Turn(r, [pc |-> "insert", user |-> u, project |-> None,
                rows |-> {row \in Rows(found, explicit) : ~OnRecord(u, row)},
                asked |-> IF explicit THEN ExtractExplicit(found) ELSE {},
                seen |-> Memories])
    /\ UNCHANGED <<projects, memories>>

\* Some rows, one after the other.
Listed(rows) ==
    CHOOSE s \in [1 .. Cardinality(rows) -> rows] : \A i, j \in DOMAIN s : s[i] = s[j] => i = j

\* One multi-row INSERT, then the commit.
InsertBatch(r) ==
    LET caller == callers[r]
        rows == Listed(caller.rows)
    IN /\ caller.pc = "insert"
       /\ Len(memories) + Len(rows) <= MaxMemories
       /\ memories' = memories \o
             [k \in DOMAIN rows |->
                 [owner |-> caller.user, project |-> None, layer |-> rows[k].layer,
                  content |-> rows[k].content, live |-> TRUE, from |-> "chat",
                  asked |-> caller.asked, seen |-> caller.seen]]
       /\ Turn(r, Idle)
       /\ UNCHANGED projects
-----------------------------------------------------------------------------
(* The memory tools.  Both surfaces ask for the project first and use its  *)
(* id in a later statement.                                                *)
Begin(r, u, next, name) ==
    /\ callers[r] = Idle
    /\ \/ /\ name = "none"
          /\ Turn(r, [pc |-> next, user |-> u, project |-> None])
       \/ \E p \in Resolve(u, name) : Turn(r, [pc |-> next, user |-> u, project |-> p])
       \/ /\ name # "none" /\ Resolve(u, name) = {}
          /\ UNCHANGED callers        \* "Unknown project"
    /\ UNCHANGED <<projects, memories>>

McpSave(r, u, name) == Begin(r, u, "save", name)
WebchatSave(r, u, name) == Begin(r, u, "save", name)
McpSearch(r, u, name) == Begin(r, u, "search", name)
WebchatSearch(r, u, name) == Begin(r, u, "search", name)
McpList(r, u, name) == Begin(r, u, "list", name)
WebchatList(r, u, name) == Begin(r, u, "list", name)

Memory(u, p, words) ==
    [owner |-> u, project |-> p, layer |-> "explicit", content |-> Plain(words), live |-> TRUE,
     from |-> "tool", asked |-> {}, seen |-> {}]

\* save_memory: one INSERT; the project may have been removed since it was
\* resolved, and then its foreign key refuses the row.
SaveMemory(r, words) ==
    LET caller == callers[r] IN
    /\ caller.pc = "save" /\ Len(memories) < MaxMemories
    /\ IF caller.project \in Projects \cup {None}
       THEN /\ memories' = Append(memories, Memory(caller.user, caller.project, words))
            /\ Ended(r, caller, "saved")
       ELSE /\ UNCHANGED memories
            /\ Ended(r, caller, "failed")
    /\ UNCHANGED projects

InScope(u, p) == {m \in OwnedBy(u) : memories[m].project \in {None, p}}

\* prefix_tsquery with "&", with "|", and the trigram branches.
Holds(m) == memories[m].content.words \cup ({memories[m].content.label} \ {"none"})
AllWords(query, m) == query \subseteq Holds(m)
AnyWord(query, m) == query \cap Holds(m) # {}
FuzzyWord(query, m) == \E w \in query, v \in Holds(m) : <<w, v>> \in Alike

\* retrieve: strict first, and only when that finds nothing any or almost any
\* word; the floor may drop a row, the limit keeps the best.
Found(u, p, query) ==
    LET strict == {m \in InScope(u, p) : AllWords(query, m)}
        loose == {m \in InScope(u, p) : AnyWord(query, m) \/ FuzzyWord(query, m)}
        pool == IF strict # {} THEN strict ELSE loose
    IN {found \in SUBSET pool : Cardinality(found) <= Limit}

Retrieve(r, query) ==
    LET caller == callers[r] IN
    /\ caller.pc = "search"
    /\ \E found \in Found(caller.user, caller.project, query) :
          Turn(r, [pc |-> "read", user |-> caller.user, project |-> caller.project,
                   rows |-> found])
    /\ UNCHANGED <<projects, memories>>

\* Variant: a project named narrows to its rows, whoever saved them.
ListForUserAnyOwner(r) ==
    LET caller == callers[r] IN
    /\ caller.pc = "list"
    /\ Turn(r, [pc |-> "read", user |-> caller.user, project |-> caller.project,
                rows |-> {m \in Memories : memories[m].project \in {None, caller.project}}])
    /\ UNCHANGED <<projects, memories>>

\* list_for_user: without a project every row of the owner, otherwise the
\* project's and those of no project.
ListForUser(r) ==
    LET caller == callers[r] IN
    /\ caller.pc = "list"
    /\ Turn(r, [pc |-> "read", user |-> caller.user, project |-> caller.project,
                rows |-> IF caller.project = None THEN OwnedBy(caller.user)
                         ELSE InScope(caller.user, caller.project)])
    /\ UNCHANGED <<projects, memories>>

\* The answer leaves; its call is over.
Answered(r) ==
    /\ callers[r].pc = "read"
    /\ Turn(r, Idle)
    /\ UNCHANGED <<projects, memories>>

\* POST /memories and DELETE /memories/{id} of the dashboard.
CreateMemory(u, words) ==
    /\ Len(memories) < MaxMemories
    /\ memories' = Append(memories, Memory(u, None, words))
    /\ UNCHANGED <<projects, callers>>

DeleteMemory(u, m) ==
    /\ m \in OwnedBy(u)
    /\ memories' = [memories EXCEPT ![m].live = FALSE]
    /\ UNCHANGED <<projects, callers>>
-----------------------------------------------------------------------------
(* Projects.  The tools create first and count afterwards; the dashboard   *)
(* does not count.                                                         *)
Insertable(u, name) ==
    /\ Len(projects) < MaxProjects
    /\ \A p \in Projects : projects[p].owner = u => projects[p].name # name

Project(u, name) == [owner |-> u, name |-> name, archived |-> FALSE, live |-> TRUE]

\* The INSERT of project_create, the uniqueness of (user_id, name) refusing a
\* name that is taken, archived or not.
InsertProject(r, u, name) ==
    /\ callers[r] = Idle
    /\ \/ /\ Insertable(u, name)
          /\ projects' = Append(projects, Project(u, name))
          /\ Turn(r, [pc |-> "count", user |-> u, project |-> Len(projects) + 1])
       \/ /\ \E p \in Projects : projects[p].owner = u /\ projects[p].name = name
          /\ UNCHANGED <<projects, callers>>        \* "duplicate_project"
    /\ UNCHANGED <<memories>>

McpCreate(r, u, name) == InsertProject(r, u, name)
WebchatCreate(r, u, name) == InsertProject(r, u, name)

\* Variant: a project more than the cap is let through.
CountProjectsLoosely(r) ==
    LET caller == callers[r] IN
    /\ caller.pc = "count"
    /\ IF Cardinality(Listing(caller.user)) > Cap + 1
       THEN Turn(r, [caller EXCEPT !.pc = "remove"])
       ELSE Ended(r, caller, "created")
    /\ UNCHANGED <<projects, memories>>

\* The listing after the INSERT.
CountProjects(r) ==
    LET caller == callers[r] IN
    /\ caller.pc = "count"
    /\ IF Cardinality(Listing(caller.user)) > Cap
       THEN Turn(r, [caller EXCEPT !.pc = "remove"])
       ELSE Ended(r, caller, "created")
    /\ UNCHANGED <<projects, memories>>

\* The DELETE of a project too many; a memory saved in it meanwhile keeps it,
\* by its foreign key, and the call fails.
RemoveProject(r) ==
    LET caller == callers[r]
        held == \E m \in Memories : memories[m].project = caller.project
    IN /\ caller.pc = "remove"
       /\ IF held THEN UNCHANGED projects /\ Ended(r, caller, "failed")
          ELSE /\ projects' = [projects EXCEPT ![caller.project].live = FALSE]
               /\ Ended(r, caller, "limit")
       /\ UNCHANGED <<memories>>

DashboardProject(u, name) ==
    /\ Insertable(u, name)
    /\ projects' = Append(projects, Project(u, name))
    /\ UNCHANGED <<memories, callers>>

ArchiveProject(p) ==
    /\ ~projects[p].archived
    /\ projects' = [projects EXCEPT ![p].archived = TRUE]
    /\ UNCHANGED <<memories, callers>>

RenameProject(p, name) ==
    /\ \A q \in Projects \ {p} :
          projects[q].owner = projects[p].owner => projects[q].name # name
    /\ projects' = [projects EXCEPT ![p].name = name]
    /\ UNCHANGED <<memories, callers>>
-----------------------------------------------------------------------------
\* The server stops between two statements of its calls.
Stop ==
    /\ \E r \in Callers : callers[r].pc \notin {"idle", "done"}
    /\ callers' = [r \in Callers |-> IF callers[r].pc = "done" THEN callers[r] ELSE Idle]
    /\ UNCHANGED <<projects, memories>>

ProjectNames == {"home", "work"}
Texts == {{"postgres"}, {"decision", "postgers"}}

MemoryInit ==
    /\ projects = <<>> /\ memories = <<>>
    /\ callers = [r \in Callers |-> Idle]

ToolCall(r, u) ==
    \/ \E name \in ProjectNames \cup {"none"} :
          \/ "save" \in Ops /\ (McpSave(r, u, name) \/ WebchatSave(r, u, name))
          \/ "search" \in Ops /\ (McpSearch(r, u, name) \/ WebchatSearch(r, u, name))
          \/ "list" \in Ops /\ (McpList(r, u, name) \/ WebchatList(r, u, name))
    \/ \E name \in ProjectNames :
          "create" \in Ops /\ (McpCreate(r, u, name) \/ WebchatCreate(r, u, name))

MemoryNext ==
    \/ \E r \in Callers, u \in Users :
          \/ \E found \in Spoken, explicit \in BOOLEAN : LookUp(r, u, found, explicit)
          \/ ToolCall(r, u)
    \/ \E r \in Callers :
          \/ InsertBatch(r) \/ ListForUser(r) \/ Answered(r)
          \/ CountProjects(r) \/ RemoveProject(r)
          \/ \E words \in Texts : SaveMemory(r, words) \/ Retrieve(r, words)
    \/ \E u \in Users :
          \/ \E words \in Texts : "chat" \in Ops /\ CreateMemory(u, words)
          \/ \E m \in Memories : DeleteMemory(u, m)
          \/ \E name \in ProjectNames : "dashboard" \in Ops /\ DashboardProject(u, name)
    \/ \E p \in Projects :
          "dashboard" \in Ops /\ (ArchiveProject(p) \/ \E name \in ProjectNames : RenameProject(p, name))
    \/ Stop

MemorySpec == MemoryInit /\ [][MemoryNext]_memoryVars
-----------------------------------------------------------------------------
\* Two chat rows of one user say the same thing only when neither transaction
\* could see the other's row, that is, when the two calls overlapped.
RepeatsOnlyOverlapping ==
    \A m, n \in {i \in DOMAIN memories : memories[i].from = "chat"} :
       (/\ m < n /\ memories[m].owner = memories[n].owner
        /\ memories[m].layer = memories[n].layer
        /\ memories[m].content = memories[n].content)
       => m \notin memories[n].seen

\* What the user asked to have kept "must not ALSO land as an auto-extracted note" of the
\* same call (memory.py:227-229): no guess has the words of a phrase that was asked for.
\* Words within the phrase that another pattern finds are a guess of their own.
AskedIsNotGuessed ==
    \A m \in DOMAIN memories :
        memories[m].layer = "auto" => memories[m].content.words \notin memories[m].asked

\* A project the tool said it created exists, one it said was over the limit does not, and
\* those it said it created never pass the cap, however the calls overlap and whatever the
\* dashboard adds.  Of the rows this is not true: mcp.py:1270-1276 allows a burst of creates
\* to overshoot, for as long as the calls count and remove, or stop or fail in between.
Told(answer) == {callers[r].project : r \in {r \in Callers : callers[r].pc = "done" /\ callers[r].answer = answer}}
CapKept ==
    /\ Told("created") \subseteq Projects
    /\ Told("limit") \cap Projects = {}
    /\ \A u \in Users : Cardinality(Told("created") \cap Listing(u)) <= Cap

\* A memory filed under a project is filed under a project that exists and is
\* its owner's, although the id was resolved in an earlier statement.
FiledUnderOwn ==
    \A m \in Memories : memories[m].project # None =>
       /\ memories[m].project \in Projects
       /\ projects[memories[m].project].owner = memories[m].owner

\* An answer about memories shows rows of the caller alone and, once a project
\* is named, of no other project, although it is found in steps that interleave
\* with renames, archiving and deletion.
AnswersAreOwn ==
    \A r \in Callers : callers[r].pc = "read" =>
       \A m \in callers[r].rows :
          /\ memories[m].owner = callers[r].user
          /\ callers[r].project # None => memories[m].project \in {None, callers[r].project}

\* The memory store and the projects in one statement.
MemorySafe ==
    RepeatsOnlyOverlapping /\ AskedIsNotGuessed /\ CapKept /\ FiledUnderOwn /\ AnswersAreOwn
=============================================================================
