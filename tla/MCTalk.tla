------------------------------ MODULE MCTalk ------------------------------
(***************************************************************************)
(* Talk on a small instance, with the pairing of a request's messages for  *)
(* one scene more; each memory scene plays the operations it is about, on  *)
(* the rows its bound allows.                                              *)
(***************************************************************************)
EXTENDS Talk, ToolPairing

CONSTANTS c1, c2, u1, u2

\* The assistant's echo, then "remember that I prefer postgres"; and a decision that is
\* taken back, what it is now being asked for as well.
Found(role, by, words) == [role |-> role, by |-> by, words |-> words]
SaidThings ==
    { <<Found("assistant", "note", {"redis"}), Found("assistant", "asked", {"redis"}),
        Found("user", "note", {"prefer", "postgres"}), Found("user", "preference", {"postgres"}),
        Found("user", "asked", {"prefer", "postgres"})>>,
      <<Found("user", "decision", {"redis"}), Found("user", "decision", {"postgres"}),
        Found("user", "asked", {"postgres"})>> }
Misspelt == {<<"postgres", "postgers">>, <<"postgers", "postgres">>}

Doing == {callers[r].pc : r \in Callers}
ActingFor == {callers[r].user : r \in {r \in Callers : callers[r].pc # "idle"}}
Owners == {memories[m].owner : m \in DOMAIN memories} \cup {projects[p].owner : p \in DOMAIN projects}

\* One user's requests, and a memory of the dashboard's.
RecordOnly ==
    /\ projects = <<>> /\ Doing \subseteq {"idle", "insert"}
    /\ ActingFor \cup Owners \subseteq {u1}
    /\ Cardinality({m \in DOMAIN memories : memories[m].from = "tool"}) <= 1

\* Projects of one user, one memory at most, saved by a tool.
FileOnly ==
    /\ Doing \subseteq {"idle", "done", "save", "count", "remove"}
    /\ ActingFor \cup Owners \subseteq {u1} /\ Len(memories) <= 1

\* Two users, two projects and two memories.
FindOnly ==
    /\ Doing \cap {"insert", "count", "remove"} = {}
    /\ Len(projects) <= 2 /\ Len(memories) <= 2

MemoryByTool == Len(memories') = Len(memories) \/ callers' # callers

\* Whether a reply comes back as it was stored is asked for Responses alone.
DialogueOnly ==
    dialect = "anthropic" =>
        \A r \in Requests : call[r].reply # <<>> =>
            call[r].reply[1].who # "empty" /\ call[r].reply[1].beside \notin {"text", "apart"}

\* A stream only compares ids and names, so whichever it mentions first may be the first
\* of them.
Parts == {i \in DOMAIN chunks : chunks[i].kind = "call"}
FirstId == <<CHOOSE i \in Ids : TRUE, 0>>
FirstName == CHOOSE n \in Names : TRUE
Canonical ==
    \A i \in Parts :
        /\ chunks[i].of.id \in {Stream!NoId, FirstId} \/ \E j \in Parts : j < i /\ chunks[j].of.id = FirstId
        /\ chunks[i].of.name \in {Stream!NoName, FirstName}
             \/ \E j \in Parts : j < i /\ chunks[j].of.name = FirstName

MCInit ==
    /\ TalkInit /\ PairingInit
    /\ scene # "pairing" => /\ protocol = "chat" /\ Len(request) = 1
                            /\ request[1] = CHOOSE m \in ChatMessages : TRUE

MCNext ==
    /\ TalkNext
    /\ \/ scene = "pairing" /\ PairingNext
       \/ scene # "pairing" /\ UNCHANGED pairingVars
    /\ scene = "stream" => Canonical'
    /\ scene = "dialogue" => DialogueOnly'
    /\ scene = "record" => RecordOnly'
    /\ scene = "file" => FileOnly' /\ MemoryByTool
    /\ scene = "find" => FindOnly' /\ MemoryByTool

MCSpec == MCInit /\ [][MCNext]_<<vars, pairingVars>>
=============================================================================
