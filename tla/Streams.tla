------------------------------ MODULE Streams ------------------------------
(***************************************************************************)
(* A streamed answer on its way to the client: build_stream_events of      *)
(* compat/responses.py and compat/anthropic.py, _stream_body of            *)
(* core/chat_service.py, and the storing of what was streamed.             *)
(*                                                                         *)
(* A chunk of the provider carries a piece of text, a fragment of a tool   *)
(* call, or a finish reason; a piece is known by the number of its chunk.  *)
(* An item of Responses and a content block of Anthropic are both a block. *)
(***************************************************************************)
EXTENDS Naturals, Sequences, FiniteSets

CONSTANTS
    Ids, Names, \* what a provider may call a tool call
    Indices,    \* upstream indices
    MaxChunks   \* bound: chunks of a stream

VARIABLES
    dialect,     \* responses, anthropic or chat
    phase,       \* open, failed, ended, gone, or over
    chunks,      \* the chunks so far
    text,        \* the text block: its number (0 for none) and its pieces
    calls,       \* the tool calls, in first-seen order
    latest,      \* the call each upstream index stands for, 0 for none
    finish,      \* the last finish reason
    frames,      \* what the client was sent
    stored,      \* the message handed to history, or <<>>
    completions  \* how often one was

streamVars == <<dialect, phase, chunks, text, calls, latest, finish, frames, stored, completions>>

NoId == <<"", 0>>
NoName == ""
Given == {<<i, 0>> : i \in Ids}
Made(n) == <<"call", n>>   \* an id the gateway makes for its n-th call
Fragments == [index : Indices, id : Given \cup {NoId}, name : Names \cup {NoName}, args : BOOLEAN]

Blocks == Len(calls) + (IF text.block = 0 THEN 0 ELSE 1)
Now == Len(chunks) + 1
-----------------------------------------------------------------------------
(* Frames.                                                                 *)

Start(block, kind, id, name) ==
    [type |-> "start", block |-> block, kind |-> kind, id |-> id, name |-> name]
Piece(block) == [type |-> "delta", block |-> block, piece |-> Now]
Stop(block) == [type |-> "stop", block |-> block]
StopCall(c) == [type |-> "stop", block |-> c.block, id |-> c.id, name |-> c.name, args |-> c.args]
-----------------------------------------------------------------------------
(* Feeding.                                                                *)

\* The first piece of text opens its block.
TextPiece ==
    /\ phase = "open" /\ Len(chunks) < MaxChunks
    /\ chunks' = Append(chunks, [kind |-> "text"])
    /\ LET first == text.block = 0
           block == IF first THEN Blocks + 1 ELSE text.block
       IN /\ text' = [block |-> block, pieces |-> Append(text.pieces, Now)]
          /\ frames' = frames \o (IF first THEN <<Start(block, "text", NoId, NoName)>> ELSE <<>>)
                              \o <<Piece(block)>>
    /\ UNCHANGED <<dialect, phase, calls, latest, finish, stored, completions>>

\* An index that comes again with another id is another call.
Reused(f) == f.id # NoId /\ f.id # calls[latest[f.index]].id
\* A name sent again on an index that has one is another call (Responses only).
Renamed(f) ==
    LET had == calls[latest[f.index]].name
    IN dialect = "responses" /\ f.name # NoName /\ had # NoName /\ f.name # had

\* Variant: an index stands for one call.
IsNewByIndex(f) == latest[f.index] = 0
IsNew(f) == latest[f.index] = 0 \/ Reused(f) \/ Renamed(f)

OpenCall(f) ==
    [block |-> Blocks + 1, index |-> f.index, name |-> f.name,
     id |-> IF f.id = NoId THEN Made(Len(calls) + 1) ELSE f.id,
     args |-> IF f.args THEN <<Now>> ELSE <<>>]
\* A later name fills a gap; an id is never missing, so a later one never does.
Continued(c, f) ==
    [c EXCEPT !.name = IF @ = NoName THEN f.name ELSE @,
              !.args = IF f.args THEN Append(@, Now) ELSE @]

\* A fragment of a call, in the two dialects that translate.
Feed(f) ==
    /\ phase = "open" /\ Len(chunks) < MaxChunks /\ dialect # "chat"
    /\ chunks' = Append(chunks, [kind |-> "call", of |-> f])
    /\ LET k == IF IsNew(f) THEN Len(calls) + 1 ELSE latest[f.index]
           c == IF IsNew(f) THEN OpenCall(f) ELSE Continued(calls[k], f)
       IN /\ calls' = IF IsNew(f) THEN Append(calls, c) ELSE [calls EXCEPT ![k] = c]
          /\ latest' = [latest EXCEPT ![f.index] = k]
          /\ frames' = frames \o (IF IsNew(f) THEN <<Start(c.block, "call", c.id, c.name)>> ELSE <<>>)
                              \o (IF f.args THEN <<Piece(c.block)>> ELSE <<>>)
    /\ UNCHANGED <<dialect, phase, text, finish, stored, completions>>

\* Chat chunks pass as they are; what is to be stored is kept by index, and only its
\* arguments grow.
Accumulate(f) ==
    /\ phase = "open" /\ Len(chunks) < MaxChunks /\ dialect = "chat"
    /\ chunks' = Append(chunks, [kind |-> "call", of |-> f])
    /\ IF latest[f.index] = 0
       THEN calls' = Append(calls, [OpenCall(f) EXCEPT !.id = f.id])
            /\ latest' = [latest EXCEPT ![f.index] = Len(calls) + 1]
       ELSE calls' = [calls EXCEPT ![latest[f.index]].args = IF f.args THEN Append(@, Now) ELSE @]
            /\ UNCHANGED latest
    /\ frames' = Append(frames, [type |-> "chunk", of |-> f, piece |-> Now])
    /\ UNCHANGED <<dialect, phase, text, finish, stored, completions>>

Finished(reason) ==
    /\ phase = "open" /\ Len(chunks) < MaxChunks
    /\ chunks' = Append(chunks, [kind |-> "finish"]) /\ finish' = reason
    /\ UNCHANGED <<dialect, phase, text, calls, latest, frames, stored, completions>>
-----------------------------------------------------------------------------
(* Ending.                                                                 *)

\* The assistant message of a stream: the text and the calls, in first-seen order; of a
\* chat stream, in the order of the indices, an id made for a call that has none.
Before(l) == {m \in DOMAIN calls : calls[m].index < calls[l].index}
ByIndex ==
    [k \in DOMAIN calls |-> calls[CHOOSE l \in DOMAIN calls : Cardinality(Before(l)) = k - 1]]
Message ==
    [text |-> text.pieces,
     calls |-> IF dialect # "chat" THEN [k \in DOMAIN calls |-> [id |-> calls[k].id, name |-> calls[k].name, args |-> calls[k].args]]
               ELSE [k \in DOMAIN ByIndex |->
                        [id |-> IF ByIndex[k].id = NoId THEN Made(k) ELSE ByIndex[k].id,
                         name |-> ByIndex[k].name, args |-> ByIndex[k].args]]]

\* What ends a stream: Anthropic stops every block by its number.
AnthropicEnd ==
    [b \in 1 .. Blocks |-> Stop(b)]
        \o <<[type |-> "end", reason |-> IF calls # <<>> THEN "tool_use" ELSE finish, output |-> <<>>]>>

\* Variant: the calls are closed, the text is forgotten.
ResponsesEndCalls ==
    [k \in DOMAIN calls |-> StopCall(calls[k])]
        \o <<[type |-> "end", reason |-> "completed", output |-> <<>>]>>
\* Responses closes the calls, then the text, and lists the text before the calls.
ResponsesEnd ==
    LET texts == IF text.block = 0 THEN <<>> ELSE <<text.block>>
    IN [k \in DOMAIN calls |-> StopCall(calls[k])] \o [k \in DOMAIN texts |-> Stop(texts[k])]
        \o <<[type |-> "end", reason |-> "completed",
              output |-> texts \o [k \in DOMAIN calls |-> calls[k].block]]>>

\* The provider is done: the dialect's closing frames go out.
UpstreamEnds ==
    /\ phase = "open" /\ phase' = "ended"
    /\ frames' = frames \o CASE dialect = "responses" -> ResponsesEnd
                             [] dialect = "anthropic" -> AnthropicEnd
                             [] dialect = "chat" -> <<>>
    /\ UNCHANGED <<dialect, chunks, text, calls, latest, finish, stored, completions>>
UpstreamFails ==
    /\ phase = "open" /\ phase' = "failed"
    /\ frames' = Append(frames, [type |-> "error"])
    /\ UNCHANGED <<dialect, chunks, text, calls, latest, finish, stored, completions>>

\* Variant: after a failure nothing is handed over.
CompleteUnlessFailed ==
    /\ phase \in {"ended", "failed"} /\ phase' = "over"
    /\ IF phase = "ended" THEN stored' = Message /\ completions' = completions + 1
       ELSE UNCHANGED <<stored, completions>>
    /\ UNCHANGED <<dialect, chunks, text, calls, latest, finish, frames>>
\* on_complete, after the last frame; a chat stream stores first, then says [DONE].
Complete ==
    /\ phase \in {"ended", "failed"} /\ phase' = "over"
    /\ stored' = Message /\ completions' = completions + 1
    /\ frames' = IF dialect = "chat" /\ phase = "ended"
                 THEN Append(frames, [type |-> "end", reason |-> finish, output |-> <<>>]) ELSE frames
    /\ UNCHANGED <<dialect, chunks, text, calls, latest, finish>>

\* The client leaves: the generator is closed where it stands, and nothing is stored.
Leave ==
    /\ phase \in {"open", "ended", "failed"} /\ phase' = "gone"
    /\ UNCHANGED <<dialect, chunks, text, calls, latest, finish, frames, stored, completions>>

StreamInit ==
    /\ dialect \in {"responses", "anthropic", "chat"} /\ phase = "open"
    /\ chunks = <<>> /\ text = [block |-> 0, pieces |-> <<>>] /\ calls = <<>>
    /\ latest = [i \in Indices |-> 0] /\ finish = "stop" /\ frames = <<>>
    /\ stored = <<>> /\ completions = 0

StreamNext ==
    \/ TextPiece \/ \E f \in Fragments : Feed(f) \/ Accumulate(f)
    \/ Finished("length") \/ UpstreamEnds \/ UpstreamFails \/ Complete \/ Leave
-----------------------------------------------------------------------------
(* Properties.                                                             *)

Translated == dialect # "chat"
Of(type) == {i \in DOMAIN frames : frames[i].type = type}
Opened == {frames[i].block : i \in Of("start")}

\* Blocks open in the order of their numbers; a piece belongs to a block that is open; at
\* the end every block is closed once and nothing follows.
Framed ==
    Translated =>
        /\ Opened = 1 .. Cardinality(Of("start"))
        /\ \A i, j \in Of("start") : i < j => frames[i].block < frames[j].block
        /\ \A i \in Of("delta") : \E j \in Of("start") : j < i /\ frames[j].block = frames[i].block
        /\ \A i \in Of("stop"), j \in Of("delta") : j < i
        /\ Of("end") # {} => /\ \A b \in Opened : Cardinality({i \in Of("stop") : frames[i].block = b}) = 1
                             /\ Of("end") = {Len(frames)} /\ Of("error") = {}

\* What a client puts together from the frames is what history is given: the next request
\* names calls by ids it saw.
Read(S, n) ==      \* the frames S one after the other, if they are n
    {at \in [1 .. n -> S] : /\ \A i, j \in 1 .. n : i < j => at[i] < at[j]
                            /\ \A s \in S : \E i \in 1 .. n : at[i] = s}
DeltasOf(b) == {i \in Of("delta") : frames[i].block = b}
Spell(b, pieces) ==
    \E at \in Read(DeltasOf(b), Len(pieces)) :
        \A i \in DOMAIN pieces : frames[at[i]].piece = pieces[i]
CallStarts == {i \in Of("start") : frames[i].kind = "call"}
SeenIsStored ==
    stored # <<>> /\ Translated =>
        /\ \E at \in Read(CallStarts, Len(stored.calls)) : \A k \in DOMAIN stored.calls :
              /\ frames[at[k]].id = stored.calls[k].id
              /\ Spell(frames[at[k]].block, stored.calls[k].args)
        /\ Spell(text.block, stored.text)

\* No piece is lost or joined to a call its fragment names another id for, in any dialect
\* but the one that passes chunks on.
CallsApart ==
    /\ \A n \in DOMAIN chunks :
           chunks[n].kind = "call" /\ chunks[n].of.args =>
               Cardinality({k \in DOMAIN calls : \E p \in DOMAIN calls[k].args : calls[k].args[p] = n}) = 1
    /\ Translated => \A k \in DOMAIN calls : \A p \in DOMAIN calls[k].args :
           chunks[calls[k].args[p]].of.id \in {NoId, calls[k].id}

\* A stream read to its end or to its error is handed over exactly once.
HandedOnce == completions <= 1 /\ (phase = "over" => completions = 1)

\* Anthropic clients run tools only on this stop reason.
ToolsAreAnnounced ==
    dialect = "anthropic" => \A i \in Of("end") : calls # <<>> => frames[i].reason = "tool_use"

StreamSafe == Framed /\ SeenIsStored /\ CallsApart /\ HandedOnce /\ ToolsAreAnnounced

\* docs/ARCHITECTURE.md: "a missing id/name on a later delta only fills a gap and never
\* rewrites what the client was already told": the id that a named call still lacked does
\* not open a second, nameless one.
LateIdFills ==
    Translated => \A k, l \in DOMAIN calls :
        k < l /\ calls[k].index = calls[l].index /\ calls[k].id \notin Given
            /\ calls[k].name # NoName => calls[l].name # NoName

\* compat/responses.py:531: response.completed carries the response "exactly like the
\* non-streaming shape", where an answer cut for its length is incomplete.
CutAnswerSaysSo ==
    dialect = "responses" => \A i \in Of("end") : finish = "length" => frames[i].reason = "incomplete"

\* Every item of response.completed stands at the index it was streamed under.
OutputInPlace ==
    dialect = "responses" => \A i \in Of("end") : \A k \in DOMAIN frames[i].output : frames[i].output[k] = k

\* chat_service.py:103: "so persisted history matches what the client actually received".
ChatIdsKept ==
    dialect = "chat" /\ stored # <<>> =>
        \A i \in Of("chunk") : frames[i].of.id # NoId =>
            \E k \in DOMAIN stored.calls : stored.calls[k].id = frames[i].of.id

\* A client that has seen the end of the answer finds it in history.
EndIsKept == phase = "gone" => Of("end") = {}
=============================================================================
