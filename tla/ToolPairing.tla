----------------------------- MODULE ToolPairing -----------------------------
(***************************************************************************)
(* What a request becomes before it is routed: the translation of the      *)
(* Responses and the Anthropic dialects to chat messages (compat/          *)
(* responses.py, compat/anthropic.py) and repair_tool_pairing of           *)
(* compat/common.py, which every dialect goes through.                     *)
(*                                                                         *)
(* A text is there or not; a message carries in `key` the place of what it *)
(* came from, so that nothing lost, doubled or answered by another's       *)
(* result goes unseen.  A request is chosen at the start and taken through *)
(* the steps of its endpoint.                                              *)
(***************************************************************************)
EXTENDS Naturals, Sequences, SequencesExt, FiniteSets

CONSTANTS
    CallIds,  \* tool call ids a client or a provider writes
    Longest   \* bound: items of a request

ASSUME LongestAssumption == Longest \in Nat

VARIABLES
    protocol, \* chat, responses or anthropic
    request,  \* the messages or items of the request
    stage,    \* received, translated, routed or refused
    messages  \* the chat messages it has become

pairingVars == <<protocol, request, stage, messages>>

\* Ids are tuples of one shape, so that written and synthetic ones compare.
NoId == <<"", 0, 0>>
Written == {<<i, 0, 0>> : i \in CallIds}
WrittenOrNot == Written \cup {NoId}
-----------------------------------------------------------------------------
(* Chat messages.                                                          *)

FromUser(key) == [role |-> "user", text |-> TRUE, calls |-> <<>>, answers |-> NoId, key |-> key]
Assistant(text, calls, key) ==
    [role |-> "assistant", text |-> text, calls |-> calls, answers |-> NoId, key |-> key]
Tool(id, key) == [role |-> "tool", text |-> TRUE, calls |-> <<>>, answers |-> id, key |-> key]

IdsOf(calls) == {calls[i] : i \in DOMAIN calls}
-----------------------------------------------------------------------------
(* repair_tool_pairing: a pass from left to right, and one over the        *)
(* results that wait.  `out` is the list so far; each assistant message    *)
(* with calls is a turn, with the place it holds in `out`, the results     *)
(* attached behind it and the ids they cover.                              *)

\* The places of the calls of a turn that nothing has answered, and the id at the first.
OpenSlots(turn) == {p \in DOMAIN turn.ids : turn.ids[p] \notin turn.covered}
FirstOpen(turn) == turn.ids[CHOOSE p \in OpenSlots(turn) : \A q \in OpenSlots(turn) : p <= q]

\* The latest of some turns, 0 for none.
Latest(found) == IF found = {} THEN 0 ELSE CHOOSE t \in found : \A u \in found : u <= t

\* A turn with one more result behind it.
Covering(turn, id) == [turn EXCEPT !.attached = @ + 1, !.covered = @ \cup {id}]

\* Behind its turn and the results already there.
PlaceBehind(turn) == turn.position + 1 + turn.attached

\* Variant: a turn behind an insertion keeps the place it had.
KeptInPlace(turn, place) == turn

\* A turn behind an insertion moves with the list.
Shifted(turn, place) ==
    IF turn.position >= place THEN [turn EXCEPT !.position = @ + 1] ELSE turn

\* _insert.
Attach(st, t, m, id) ==
    LET place == PlaceBehind(st.turns[t])
    IN [out |-> InsertAt(st.out, place, [m EXCEPT !.answers = id]),
        turns |-> [u \in DOMAIN st.turns |-> IF u = t THEN Covering(st.turns[u], id)
                                            ELSE Shifted(st.turns[u], place)],
        orphans |-> st.orphans]

\* A call without an id gets one from its place.
Normalized(calls, index) ==
    [p \in DOMAIN calls |-> IF calls[p] = NoId THEN <<"call_missing", index, p>> ELSE calls[p]]

NewTurn(ids, position) == [ids |-> ids, covered |-> {}, attached |-> 0, position |-> position]

TakeMessage(st, m, index) ==
    LET ids == Normalized(m.calls, index)
        turn == NewTurn(ids, Len(st.out) + 1)
    IN [out |-> Append(st.out, [m EXCEPT !.calls = ids]),
        turns |-> IF m.calls = <<>> THEN st.turns ELSE Append(st.turns, turn),
        orphans |-> st.orphans]

\* The turns that asked for an id.
Askers(st, id) == {t \in DOMAIN st.turns : id # NoId /\ id \in IdsOf(st.turns[t].ids)}

\* A result goes to the latest turn that asked for its id, else to the latest turn with
\* a call open, else it waits.
TakeResult(st, m, index) ==
    LET asker == Latest(Askers(st, m.answers))
        own == asker # 0 /\ m.answers \notin st.turns[asker].covered
        other == Latest({t \in DOMAIN st.turns : OpenSlots(st.turns[t]) # {}})
    IN IF own THEN Attach(st, asker, m, m.answers)
       ELSE IF other # 0 THEN Attach(st, other, m, FirstOpen(st.turns[other]))
       ELSE [st EXCEPT !.orphans = @ \cup {index}]

\* A result that waited joins the latest turn that came to ask for its id.
TakeOrphan(st, m, index) ==
    LET t == Latest({u \in Askers(st, m.answers) : m.answers \notin st.turns[u].covered})
    IN IF t = 0 THEN st
       ELSE [Attach(st, t, m, m.answers) EXCEPT !.orphans = @ \ {index}]

\* One step of the two passes over the list.
RepairStep(msgs, st, n) ==
    LET i == n - Len(msgs)
    IN IF n <= Len(msgs)
       THEN IF msgs[n].role = "tool" THEN TakeResult(st, msgs[n], n) ELSE TakeMessage(st, msgs[n], n)
       ELSE IF i \in st.orphans THEN TakeOrphan(st, msgs[i], i) ELSE st

\* The ids at a place of the list that its turn still waits for.
Uncovered(st, i) ==
    {id \in IdsOf(st.out[i].calls) : \E t \in DOMAIN st.turns :
         st.turns[t].position = i /\ id \notin st.turns[t].covered}

\* The calls of a message without the dangling ones.
Surviving(calls, dangling) ==
    LET kept[p \in 0 .. Len(calls)] ==
            IF p = 0 THEN <<>>
            ELSE IF calls[p] \in dangling THEN kept[p - 1] ELSE Append(kept[p - 1], calls[p])
    IN kept[Len(calls)]

\* A call nothing answered is dropped from its message.
Answered(st, i) ==
    [st.out[i] EXCEPT !.calls = Surviving(st.out[i].calls, Uncovered(st, i))]
DropDangling(st) == [st EXCEPT !.out = [i \in DOMAIN st.out |-> Answered(st, i)]]

NothingRead == [out |-> <<>>, turns |-> <<>>, orphans |-> {}]

Repaired(msgs) ==
    LET after[n \in 0 .. 2 * Len(msgs)] ==
            IF n = 0 THEN NothingRead ELSE RepairStep(msgs, after[n - 1], n)
    IN DropDangling(after[2 * Len(msgs)])
-----------------------------------------------------------------------------
(* Responses: items.  Sibling calls fold into one assistant message, with  *)
(* the assistant text right before them.                                   *)

Item(type, id) == [type |-> type, id |-> id]
Items == [type : {"user", "text", "empty", "unusable", "reasoning"}, id : {NoId}]
           \cup [type : {"call", "output"}, id : WrittenOrNot]

\* The pending assistant turn, closed.
Flush(st) ==
    LET done == IF st.calls = <<>> /\ ~st.text THEN <<>>
                ELSE <<Assistant(st.text, st.calls, st.key)>>
    IN [out |-> st.out \o done, calls |-> <<>>, text |-> FALSE, key |-> {}]

\* A call without an id is named after the place of its item.
FunctionCall(item, i) == IF item.id = NoId THEN <<"call_item", i, 0>> ELSE item.id

TakeItem(st, item, i) ==
    CASE item.type = "user" -> [Flush(st) EXCEPT !.out = Append(@, FromUser({i}))]
      [] item.type = "text" -> [Flush(st) EXCEPT !.text = TRUE, !.key = {i}]
      [] item.type \in {"empty", "unusable"} -> Flush(st)
      [] item.type = "call" ->
             [st EXCEPT !.calls = Append(@, FunctionCall(item, i)), !.key = @ \cup {i}]
      [] item.type = "output" -> [Flush(st) EXCEPT !.out = Append(@, Tool(item.id, {i}))]
      [] item.type = "reasoning" -> st

NothingTaken == [out |-> <<>>, calls |-> <<>>, text |-> FALSE, key |-> {}]

FromResponses(items) ==
    LET after[n \in 0 .. Len(items)] ==
            IF n = 0 THEN NothingTaken ELSE TakeItem(after[n - 1], items[n], n)
    IN Flush(after[Len(items)]).out

\* What the gateway shows of an assistant message: its text, then its calls.
OutputItems(m) ==
    (IF m.text THEN <<Item("text", NoId)>> ELSE <<>>)
        \o [c \in DOMAIN m.calls |-> Item("call", m.calls[c])]
-----------------------------------------------------------------------------
(* Anthropic: messages with blocks.                                        *)

Blocks(role, text, uses) == [role |-> role, text |-> text, uses |-> uses]
BlockMessages ==
    [role : {"user", "assistant"}, text : BOOLEAN,
     uses : {<<>>} \cup {<<i>> : i \in WrittenOrNot} \cup (Written \X Written)]

\* The results of a user message come first, its text behind them.
UserToInternal(m, i) ==
    [r \in DOMAIN m.uses |-> Tool(m.uses[r], {<<i, r>>})]
        \o (IF m.text THEN <<FromUser({<<i, 0>>})>> ELSE <<>>)

\* A call without an id is named after its place in the message.
AssistantToInternal(m, i) ==
    IF ~m.text /\ m.uses = <<>> THEN <<>>
    ELSE <<Assistant(m.text, [r \in DOMAIN m.uses |-> IF m.uses[r] = NoId
                                                      THEN <<"call_missing", 0, r>>
                                                      ELSE m.uses[r]],
                     {<<i, r>> : r \in DOMAIN m.uses} \cup {<<i, 0>>})>>

FromAnthropic(msgs) ==
    FlattenSeq([i \in DOMAIN msgs |-> IF msgs[i].role = "user" THEN UserToInternal(msgs[i], i)
                                      ELSE AssistantToInternal(msgs[i], i)])

\* What the gateway shows of an assistant message, as a client sends it back.
ContentBlocks(m) == <<Blocks("assistant", m.text, m.calls)>>
-----------------------------------------------------------------------------
(* A request on its way.                                                   *)

ChatMessages ==
    {FromUser({}), Assistant(TRUE, <<>>, {})}
        \cup {Assistant(FALSE, <<i>>, {}) : i \in WrittenOrNot}
        \cup {Assistant(FALSE, pair, {}) : pair \in Written \X Written}
        \cup {Tool(i, {}) : i \in WrittenOrNot}
Keyed(msgs) == [i \in DOMAIN msgs |-> [msgs[i] EXCEPT !.key = {i}]]

PairingInit ==
    /\ protocol \in {"chat", "responses", "anthropic"}
    /\ request \in CASE protocol = "chat" -> UNION {[1 .. n -> ChatMessages] : n \in 1 .. Longest}
                     [] protocol = "responses" -> UNION {[1 .. n -> Items] : n \in 1 .. Longest}
                     [] protocol = "anthropic" -> UNION {[1 .. n -> BlockMessages] : n \in 1 .. Longest - 1}
    /\ stage = "received" /\ messages = <<>>

\* A request whose items say nothing is refused.
Translate ==
    /\ stage = "received"
    /\ messages' = CASE protocol = "chat" -> Keyed(request)
                     [] protocol = "responses" -> FromResponses(request)
                     [] protocol = "anthropic" -> FromAnthropic(request)
    /\ stage' = IF messages' = <<>> THEN "refused" ELSE "translated"
    /\ UNCHANGED <<protocol, request>>

\* A result no call can take refuses the request: a 400, and nothing is routed.
Pair ==
    /\ stage = "translated"
    /\ IF Repaired(messages).orphans = {}
       THEN stage' = "routed" /\ messages' = Repaired(messages).out
       ELSE stage' = "refused" /\ UNCHANGED messages
    /\ UNCHANGED <<protocol, request>>

PairingNext == Translate \/ Pair

PairingSpec == PairingInit /\ [][PairingNext]_pairingVars
-----------------------------------------------------------------------------
(* Properties.                                                             *)

\* What a provider demands: results stand right behind the message that asked for them,
\* every call has one, and no result stands anywhere else.
Asker(msgs, i) == Latest({j \in 1 .. i - 1 : msgs[j].role # "tool"})
WellPaired(msgs) ==
    /\ \A i \in DOMAIN msgs : msgs[i].role = "tool" =>
           Asker(msgs, i) # 0 /\ msgs[i].answers \in IdsOf(msgs[Asker(msgs, i)].calls)
    /\ \A i \in DOMAIN msgs : \A id \in IdsOf(msgs[i].calls) :
           \E j \in DOMAIN msgs : Asker(msgs, j) = i /\ msgs[j].role = "tool" /\ msgs[j].answers = id
RoutedIsPaired == stage = "routed" => WellPaired(messages)

\* A list that already pairs, each id asked for once and answered once, is not touched.
AskedOnce(msgs) ==
    \A i, j \in DOMAIN msgs :
        /\ i # j => IdsOf(msgs[i].calls) \cap IdsOf(msgs[j].calls) = {}
        /\ Cardinality(IdsOf(msgs[i].calls)) = Len(msgs[i].calls)
        /\ NoId \notin IdsOf(msgs[i].calls)
AnsweredOnce(msgs) ==
    \A i, j \in DOMAIN msgs : msgs[i].role = "tool" /\ msgs[j].role = "tool" /\ i # j =>
        msgs[i].answers # msgs[j].answers
PairedIsKept ==
    stage = "translated" /\ WellPaired(messages) /\ AskedOnce(messages) /\ AnsweredOnce(messages)
        => Repaired(messages).out = messages /\ Repaired(messages).orphans = {}

\* The repair moves results; it neither loses nor doubles a message, and a second pass
\* over the list changes nothing.
NothingLost ==
    stage = "translated" /\ Repaired(messages).orphans = {} =>
        LET out == Repaired(messages).out
        IN /\ Len(out) = Len(messages)
           /\ \A i \in DOMAIN messages : \E j \in DOMAIN out : out[j].key = messages[i].key
           /\ Repaired(out).out = out /\ Repaired(out).orphans = {}

\* A result is never given to another call than the one it names, when it comes after
\* that call and every id is written and used once.
InOrder(msgs) ==
    \A i \in DOMAIN msgs : msgs[i].role = "tool" =>
        \E j \in 1 .. i - 1 : msgs[i].answers \in IdsOf(msgs[j].calls)
AnswersItsCall ==
    stage = "translated" /\ AskedOnce(messages) /\ AnsweredOnce(messages) /\ InOrder(messages) =>
        \A i \in DOMAIN messages : messages[i].role = "tool" =>
            \E j \in DOMAIN Repaired(messages).out :
                /\ Repaired(messages).out[j].key = messages[i].key
                /\ Repaired(messages).out[j].answers = messages[i].answers

\* A client that sends back what it was shown sends back what was routed: both dialects
\* translate the gateway's own rendering to the list they rendered.
Plain(m) == [role |-> m.role, text |-> m.text, calls |-> m.calls, answers |-> m.answers]
PlainAll(msgs) == [i \in DOMAIN msgs |-> Plain(msgs[i])]
SaidBack(msgs) ==
    FlattenSeq([i \in DOMAIN msgs |-> CASE msgs[i].role = "user" -> <<Item("user", NoId)>>
                                        [] msgs[i].role = "tool" -> <<Item("output", msgs[i].answers)>>
                                        [] msgs[i].role = "assistant" -> OutputItems(msgs[i])])
SaidBackInBlocks(msgs) ==
    FlattenSeq([i \in DOMAIN msgs |-> CASE msgs[i].role = "user" -> <<Blocks("user", TRUE, <<>>)>>
                                        [] msgs[i].role = "tool" -> <<Blocks("user", FALSE, <<msgs[i].answers>>)>>
                                        [] msgs[i].role = "assistant" -> ContentBlocks(msgs[i])])
Alternates(msgs) ==
    \A i \in DOMAIN msgs : msgs[i].role = "assistant" =>
        /\ msgs[i].text \/ msgs[i].calls # <<>>
        /\ i < Len(msgs) => msgs[i + 1].role # "assistant"
RoundTrips ==
    stage = "routed" /\ Alternates(messages) =>
        /\ PlainAll(FromResponses(SaidBack(messages))) = PlainAll(messages)
        /\ PlainAll(FromAnthropic(SaidBackInBlocks(messages))) = PlainAll(messages)

RequestsPaired == RoutedIsPaired /\ PairedIsKept /\ NothingLost /\ AnswersItsCall /\ RoundTrips

\* compat/common.py: "a tool message arriving before its assistant call is buffered and
\* folded in once that assistant turn appears".
EarlyResultWaits ==
    stage = "translated" /\ AskedOnce(messages) /\ AnsweredOnce(messages)
        /\ Repaired(messages).orphans = {} =>
        \A i \in DOMAIN messages :
            messages[i].role = "tool" /\ (\E j \in DOMAIN messages : messages[i].answers \in IdsOf(messages[j].calls)) =>
                \E j \in DOMAIN Repaired(messages).out :
                    /\ Repaired(messages).out[j].key = messages[i].key
                    /\ Repaired(messages).out[j].answers = messages[i].answers
=============================================================================
