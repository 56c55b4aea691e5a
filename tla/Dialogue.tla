------------------------------ MODULE Dialogue ------------------------------
(***************************************************************************)
(* A client that sends its whole conversation with every request, and the  *)
(* history the gateway keeps of it: create_response of endpoints/          *)
(* responses_compat.py and anthropic_messages of endpoints/                *)
(* anthropic_compat.py.                                                    *)
(*                                                                         *)
(* Responses stores what the resent conversation adds to the history it    *)
(* read before routing; Anthropic stores all it was sent.  A request may   *)
(* be answered at once or streamed, fail before or in the middle of its    *)
(* answer, and be given up by a client that sends again.  How an append    *)
(* lays out turns is SessionStore, how messages are translated ToolPairing.*)
(***************************************************************************)
EXTENDS Naturals, Sequences, FiniteSets

CONSTANTS
    Requests, NoRequest,
    MaxTalk,     \* bound: messages of the conversation
    MaxRequests, \* bound: requests sent
    TurnCap      \* history_max_turns

VARIABLES
    dialect, \* responses or anthropic
    talk,    \* the conversation as the client has it
    awaited, \* the request whose answer the client waits for
    call,    \* what each request is doing
    history, \* the stored messages of the session
    sent,    \* requests sent
    kept,    \* messages the last stored request left in history
    causes   \* what has parted history and conversation

dialogueVars == <<dialect, talk, awaited, call, history, sent, kept, causes>>

Idle == [pc |-> "idle", streamed |-> FALSE, said |-> <<>>, base |-> <<>>, up |-> <<>>,
         reply |-> <<>>]

\* A message: who says it, the how-manieth it is, and the content beside its tool calls.
Said(who, n) == [who |-> who, n |-> n, beside |-> "null"]

\* A reply, as it is stored, is text, calls, both or nothing.  Beside calls alone the content
\* is null once it was streamed and empty as it is passed on.  Both are apart when the client
\* cannot send them back as one message: its stream had a call before the text, or what is
\* passed on has more to a call than its id, name and arguments.
Kinds == {"text", "calls", "both", "apart", "empty"}
Reply(r, kind) ==
    [who |-> IF kind \in {"both", "apart"} THEN "calls" ELSE kind,
     n |-> Len(call[r].said) + 1,
     beside |-> CASE kind = "both" -> "text"
                  [] kind = "apart" -> "apart"
                  [] kind = "calls" /\ ~call[r].streamed -> "empty"
                  [] OTHER -> "null"]
\* As the client has it, and sends it back; a reply that is empty shows as no item.
SentBack(m) == [m EXCEPT !.beside = IF @ = "text" THEN "text" ELSE "null"]
Heard(m) == IF m.who = "empty" THEN talk ELSE Append(talk, SentBack(m))

\* Variant: what goes is counted in messages.
RetainedByMessage(h) ==
    IF Len(h) <= TurnCap + 1 THEN h ELSE SubSeq(h, Len(h) - TurnCap, Len(h))
\* Turns past the cap go, oldest first and whole.
Turns(h) == Cardinality({i \in DOMAIN h : i = 1 \/ h[i].who = "user"})
Retained(h) ==
    LET fits == {i \in DOMAIN h : (i = 1 \/ h[i].who = "user") /\ Turns(SubSeq(h, i, Len(h))) <= TurnCap}
    IN SubSeq(h, CHOOSE i \in fits : \A j \in fits : i <= j, Len(h))
-----------------------------------------------------------------------------
(* The client.                                                             *)

\* What it says next: a user message, the result of a call it was asked for, or the same
\* conversation again after a failure.
Continuations ==
    IF talk # <<>> /\ talk[Len(talk)].who = "calls" THEN {Append(talk, Said("result", Len(talk) + 1))}
    ELSE {Append(talk, Said("user", Len(talk) + 1))}
             \cup (IF talk # <<>> /\ talk[Len(talk)].who \in {"user", "result"} THEN {talk} ELSE {})

Send(r, streamed) ==
    /\ call[r].pc = "idle" /\ awaited = NoRequest /\ sent < MaxRequests
    /\ \E said \in Continuations :
           /\ Len(said) < MaxTalk
           /\ talk' = said
           /\ call' = [call EXCEPT ![r] = [Idle EXCEPT !.pc = "load", !.streamed = streamed, !.said = said]]
    /\ awaited' = r /\ sent' = sent + 1
    /\ UNCHANGED <<dialect, history, kept, causes>>

\* The client gives up.  A stream is closed with it; a handler that is not streaming
\* learns nothing of it and goes on.
GiveUp(r) ==
    /\ awaited = r /\ call[r].pc \in {"load", "route", "store", "answer"}
    /\ awaited' = NoRequest
    /\ call' = IF call[r].streamed THEN [call EXCEPT ![r] = Idle] ELSE call
    /\ causes' = causes \cup {c \in {"given up"} : call[r].pc = "answer"}
    /\ UNCHANGED <<dialect, talk, history, sent, kept>>
-----------------------------------------------------------------------------
(* The handler.                                                            *)

\* What goes upstream: Anthropic puts the stored history before what it was sent.
Upstream(r) == IF dialect = "anthropic" THEN history \o call[r].said ELSE call[r].said

\* The stored history is read before anything is routed.
Load(r) ==
    /\ call[r].pc = "load"
    /\ call' = [call EXCEPT ![r].pc = "route", ![r].base = history, ![r].up = Upstream(r)]
    /\ UNCHANGED <<dialect, talk, awaited, history, sent, kept, causes>>

\* No credential, an unpaired conversation or no provider: an error, nothing is stored.  So
\* it is with an answer that has no message in it.
Refuse(r) ==
    /\ call[r].pc = "route"
    /\ call' = [call EXCEPT ![r] = Idle]
    /\ awaited' = IF awaited = r THEN NoRequest ELSE awaited
    /\ UNCHANGED <<dialect, talk, history, sent, kept, causes>>

\* The whole answer is there; of a stream, the client has it and may go on.
Route(r, kind) ==
    /\ call[r].pc = "route"
    /\ call' = [call EXCEPT ![r].pc = "store", ![r].reply = <<Reply(r, kind)>>]
    /\ IF call[r].streamed
       THEN awaited' = NoRequest /\ talk' = Heard(Reply(r, kind))
       ELSE UNCHANGED <<awaited, talk>>
    /\ UNCHANGED <<dialect, history, sent, kept, causes>>

\* The provider fails in the middle of a stream: the client gets an error event, what had
\* come is stored.
CutShort(r) ==
    /\ call[r].pc = "route" /\ call[r].streamed
    /\ call' = [call EXCEPT ![r].pc = "store", ![r].reply = <<Said("part", Len(call[r].said) + 1)>>]
    /\ awaited' = NoRequest
    /\ causes' = causes \cup {"cut short"}
    /\ UNCHANGED <<dialect, talk, history, sent, kept>>

\* Is a message list the beginning of another?
Begins(s, t) == Len(s) <= Len(t) /\ \A i \in DOMAIN s : s[i] = t[i]

\* _suffix_after_history.
\* Variant: the whole conversation is new.
SuffixWhole(base, said) == said
SuffixAfterHistory(base, said) ==
    IF Begins(base, said) THEN SubSeq(said, Len(base) + 1, Len(said)) ELSE <<>>
\* What is new to history: of an Anthropic request, all of it.
NewTurns(r) ==
    IF dialect = "responses" THEN SuffixAfterHistory(call[r].base, call[r].said) ELSE call[r].said

\* _persist_new_turns: one append of the new turns and the reply.
Store(r) ==
    LET grown == history \o NewTurns(r) \o call[r].reply
    IN /\ call[r].pc = "store"
       /\ history' = Retained(grown)
       /\ kept' = Len(call[r].said) + 1
       /\ causes' = causes
              \cup {c \in {"overlap"} : history # call[r].base}
              \cup {c \in {"retention"} : history' # grown}
              \cup {c \in {"altered"} : LET m == call[r].reply[1] IN m.who = "empty" \/ SentBack(m) # m}
              \cup {c \in {"given up"} : ~call[r].streamed /\ awaited # r}
       /\ call' = [call EXCEPT ![r] = IF @.streamed THEN Idle ELSE [@ EXCEPT !.pc = "answer"]]
       /\ UNCHANGED <<dialect, talk, awaited, sent>>
\* The database refuses, which is logged; the answer goes out all the same.
StoreFails(r) ==
    /\ call[r].pc = "store"
    /\ call' = [call EXCEPT ![r] = IF @.streamed THEN Idle ELSE [@ EXCEPT !.pc = "answer"]]
    /\ UNCHANGED <<dialect, talk, awaited, history, sent, kept, causes>>

\* An unstreamed answer reaches the client, if it still waits.
Answer(r) ==
    /\ call[r].pc = "answer"
    /\ IF awaited = r
       THEN awaited' = NoRequest /\ talk' = Heard(call[r].reply[1])
       ELSE UNCHANGED <<awaited, talk>>
    /\ call' = [call EXCEPT ![r] = Idle]
    /\ UNCHANGED <<dialect, history, sent, kept, causes>>

DialogueInit ==
    /\ dialect \in {"responses", "anthropic"}
    /\ talk = <<>> /\ awaited = NoRequest /\ call = [r \in Requests |-> Idle]
    /\ history = <<>> /\ sent = 0 /\ kept = 0 /\ causes = {}

DialogueNext ==
    \E r \in Requests :
        \/ \E streamed \in BOOLEAN : Send(r, streamed)
        \/ GiveUp(r) \/ Load(r) \/ Refuse(r) \/ CutShort(r)
        \/ \E kind \in Kinds : Route(r, kind)
        \/ Store(r) \/ StoreFails(r) \/ Answer(r)
-----------------------------------------------------------------------------
(* Properties.                                                             *)

Replying == {r \in Requests : call[r].pc = "answer"}

\* As long as none of the named causes has struck, the history of a Responses client is the
\* beginning of its conversation, and holds all of the last request that was stored:
\* whatever errors, refusals, disconnects and failed appends came before.  The causes: two
\* requests that overlap, retention, an answer nobody waits for or that is cut short, and
\* one that is stored otherwise than it is sent back (empty, apart, or calls passed on).
FollowsTheTalk ==
    dialect = "responses" /\ causes = {} =>
        /\ \/ Begins(history, talk)
           \/ \E r \in Replying : Begins(history, Append(talk, call[r].reply[1]))
        /\ Len(history) >= kept

\* No user message of a Responses client is stored twice but by requests that overlap.
UserOnce ==
    dialect = "responses" /\ "overlap" \notin causes =>
        \A i, j \in DOMAIN history : i # j /\ history[i].who = "user" => history[i] # history[j]

\* What goes upstream can be paired: every tool result, stored or resent, has its call
\* before it, so no client that answers its calls is ever refused for its history.
PairsUpstream ==
    \A r \in Requests : \A i \in DOMAIN call[r].up : call[r].up[i].who = "result" =>
        \E j \in 1 .. i - 1 : call[r].up[j].who = "calls" /\ call[r].up[j].n + 1 = call[r].up[i].n

DialogueSafe == FollowsTheTalk /\ UserOnce /\ PairsUpstream

\* responses_compat.py:121-125: the baseline is read unbounded lest a comparison of the
\* wrong end "silently stop persisting new user turns past the window ... correctness wins
\* here": while retention is all that has parted the two, a user message is stored once its
\* reply is.
UserTurnsStored ==
    dialect = "responses" /\ causes \subseteq {"retention"} =>
        \A r \in Replying :
            LET last == call[r].said[Len(call[r].said)]
                stored(m) == \E j \in DOMAIN history : history[j] = m
            IN last.who = "user" /\ stored(call[r].reply[1]) => stored(last)
=============================================================================
