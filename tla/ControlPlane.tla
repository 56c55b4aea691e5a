---------------------------- MODULE ControlPlane ----------------------------
(***************************************************************************)
(* The display-only control plane of one account: handoffs from a phone    *)
(* and voice states from a browser, posted to the server                   *)
(* (core/agent_registry.py, endpoints/agents.py, endpoints/voice.py) and   *)
(* delivered to the paired machine over its relay socket, with the copies  *)
(* kept for the next poll (agent/runner.py).                               *)
(*                                                                         *)
(* Posting stores the copy, awaits the send of a push and then drops the   *)
(* copy; polls, other posts and disconnections happen during the await.    *)
(***************************************************************************)
EXTENDS Naturals, Sequences, FiniteSets

CONSTANTS
    Handoffs,    \* bound: handoffs a phone posts, numbered from 1
    Voices,      \* bound: voice states a browser posts, numbered from 1
    MaxHandoffs  \* MAX_HANDOFFS_PER_USER

VARIABLES
    queue,    \* _handoffs: ids waiting for a poll
    slot,     \* _voice: the latest state not delivered, or 0
    posts,    \* pushes being awaited
    posted,   \* how many handoffs and voice states were posted
    relay,    \* the machine's relay socket is attached
    wire,     \* pushed messages on their way to the machine
    answers,  \* poll answers on their way to the machine
    shown,    \* what the machine showed, in order
    gone,     \* history: messages lost with a connection, squeezed out or expired
    crossed   \* history: handoffs a poll took while their push was awaited

controlVars == <<queue, slot, posts, posted, relay, wire, answers, shown, gone, crossed>>

Handoff(n) == [kind |-> "handoff", id |-> n]
Voice(n) == [kind |-> "voice", id |-> n]
Set(seq) == {seq[i] : i \in DOMAIN seq}
-----------------------------------------------------------------------------
(* Posting.                                                                *)

\* push_ws up to its await: the message is handed to the attached socket; with
\* none the push has already failed.
BeginPush(message) ==
    /\ posts' = posts \cup {[message |-> message,
                             state |-> IF relay THEN "sending" ELSE "failed"]}

\* post_handoff: bounded, oldest first.
PostHandoff ==
    /\ posted.handoff < Handoffs
    /\ LET id == posted.handoff + 1
           longer == Append(queue, id)
       IN /\ posted' = [posted EXCEPT !.handoff = id]
          /\ IF Len(longer) > MaxHandoffs
             THEN queue' = Tail(longer) /\ gone' = gone \cup {Handoff(Head(longer))}
             ELSE queue' = longer /\ UNCHANGED gone
          /\ BeginPush(Handoff(id))
    /\ UNCHANGED <<slot, relay, wire, answers, shown, crossed>>

\* post_voice_state: the latest wins.
PostVoiceState ==
    /\ posted.voice < Voices
    /\ LET id == posted.voice + 1
       IN /\ posted' = [posted EXCEPT !.voice = id]
          /\ slot' = id
          /\ BeginPush(Voice(id))
    /\ UNCHANGED <<queue, relay, wire, answers, shown, gone, crossed>>

\* The send is done: the message is with the socket, or lost if it has died
\* since, which the sender cannot tell.  Sends of one socket keep their order.
Sent(p) ==
    /\ p \in posts /\ p.state = "sending"
    /\ \A q \in posts : q.state = "sending" /\ q.message.kind = p.message.kind
                          => p.message.id <= q.message.id
    /\ posts' = (posts \ {p}) \cup {[p EXCEPT !.state = "sent"]}
    /\ IF relay THEN wire' = Append(wire, p.message) /\ UNCHANGED gone
       ELSE gone' = gone \cup {p.message} /\ UNCHANGED wire
    /\ UNCHANGED <<queue, slot, posted, relay, answers, shown, crossed>>

\* The send raised: push_ws detaches the socket and reports failure.
SendFails(p) ==
    /\ p \in posts /\ p.state = "sending"
    /\ posts' = (posts \ {p}) \cup {[p EXCEPT !.state = "failed"]}
    /\ relay' = FALSE /\ wire' = <<>>
    /\ gone' = gone \cup Set(wire)
    /\ UNCHANGED <<queue, slot, posted, answers, shown, crossed>>

Without(seq, i) == [j \in 1 .. Len(seq) - 1 |-> IF j < i THEN seq[j] ELSE seq[j + 1]]

\* The copy of a handoff, if it is still queued (an id is queued once).
DropHandoff(id) ==
    queue' = LET at == {i \in DOMAIN queue : queue[i] = id}
             IN IF at = {} THEN queue ELSE Without(queue, CHOOSE i \in at : TRUE)

\* Variant: drops whatever state is in the slot.
DropVoiceStateAny(id) == slot' = 0

\* Only the copy that was relayed: a newer state may have replaced it.
DropVoiceState(id) == slot' = IF slot = id THEN 0 ELSE slot

\* The post continues: a relayed message's copy is dropped, another's stays.
AnswerPost(p) ==
    /\ p \in posts /\ p.state \in {"sent", "failed"}
    /\ posts' = posts \ {p}
    /\ IF p.state = "failed" THEN UNCHANGED <<queue, slot>>
       ELSE IF p.message.kind = "handoff" THEN DropHandoff(p.message.id) /\ UNCHANGED slot
       ELSE DropVoiceState(p.message.id) /\ UNCHANGED queue
    /\ UNCHANGED <<posted, relay, wire, answers, shown, gone, crossed>>
-----------------------------------------------------------------------------
(* Polling, delivery and loss.                                             *)

\* take_handoff and take_voice_state after the hold, in one step with the
\* answer; a state past VOICE_STATE_TTL_SECONDS is dropped.
AgentPoll(expired) ==
    /\ answers = <<>>
    /\ queue # <<>> \/ slot # 0
    /\ LET handoff == IF queue = <<>> THEN <<>> ELSE <<Handoff(Head(queue))>>
           voice == IF slot = 0 \/ expired THEN <<>> ELSE <<Voice(slot)>>
       IN /\ answers' = handoff \o voice
          /\ crossed' = crossed \cup
                {message \in Set(handoff) :
                    \E p \in posts : p.message = message /\ p.state # "failed"}
    /\ queue' = IF queue = <<>> THEN <<>> ELSE Tail(queue)
    /\ slot' = 0
    /\ gone' = IF slot # 0 /\ expired THEN gone \cup {Voice(slot)} ELSE gone
    /\ UNCHANGED <<posts, posted, relay, wire, shown>>

\* The agent shows what arrives: pushes one by one, an answer as a whole.
ShowPushed ==
    /\ wire # <<>>
    /\ shown' = Append(shown, Head(wire)) /\ wire' = Tail(wire)
    /\ UNCHANGED <<queue, slot, posts, posted, relay, answers, gone, crossed>>

ShowPolled ==
    /\ answers # <<>>
    /\ shown' = shown \o answers /\ answers' = <<>>
    /\ UNCHANGED <<queue, slot, posts, posted, relay, wire, gone, crossed>>

\* The machine's poll is abandoned: what it carried is lost.
LosePoll ==
    /\ answers # <<>>
    /\ gone' = gone \cup Set(answers) /\ answers' = <<>>
    /\ UNCHANGED <<queue, slot, posts, posted, relay, wire, shown, crossed>>

\* The relay connects (once: afterwards the agent polls) and breaks.
Attach ==
    /\ ~relay /\ posted.handoff + posted.voice = 0
    /\ relay' = TRUE
    /\ UNCHANGED <<queue, slot, posts, posted, wire, answers, shown, gone, crossed>>

Detach ==
    /\ relay /\ relay' = FALSE
    /\ gone' = gone \cup Set(wire) /\ wire' = <<>>
    /\ UNCHANGED <<queue, slot, posts, posted, answers, shown, crossed>>
-----------------------------------------------------------------------------
ControlInit ==
    /\ queue = <<>> /\ slot = 0 /\ posts = {}
    /\ posted = [handoff |-> 0, voice |-> 0]
    /\ relay = FALSE /\ wire = <<>> /\ answers = <<>> /\ shown = <<>>
    /\ gone = {} /\ crossed = {}

ControlNext ==
    \/ PostHandoff \/ PostVoiceState
    \/ \E p \in posts : Sent(p) \/ SendFails(p) \/ AnswerPost(p)
    \/ \E expired \in BOOLEAN : AgentPoll(expired)
    \/ ShowPushed \/ ShowPolled \/ LosePoll \/ Attach \/ Detach
-----------------------------------------------------------------------------
ControlTypeOK ==
    /\ Len(queue) <= MaxHandoffs /\ slot \in 0 .. posted.voice
    /\ posted.handoff <= Handoffs /\ posted.voice <= Voices

Times(message) == Cardinality({i \in DOMAIN shown : shown[i] = message})

\* A handoff is shown twice only when a poll took its copy while the push that
\* relayed it was awaited; never more often.
ShownTwiceOnlyIfCrossed ==
    \A n \in 1 .. Handoffs :
        Times(Handoff(n)) <= IF Handoff(n) \in crossed THEN 2 ELSE 1

\* Every handoff is somewhere: queued, on its way, shown, or lost with a
\* connection or to the bound of the queue.
HandoffsKept ==
    \A n \in 1 .. posted.handoff :
        \/ n \in Set(queue)
        \/ Handoff(n) \in Set(shown) \cup Set(wire) \cup Set(answers) \cup gone
        \/ \E p \in posts : p.message = Handoff(n) /\ p.state = "sending"

\* The newest voice state is never dropped for an older one: it is on its way,
\* shown, waiting for a poll, expired or lost with a connection.
NewestVoiceKept ==
    LET n == posted.voice
    IN n > 0 =>
        \/ slot = n
        \/ Voice(n) \in Set(shown) \cup Set(wire) \cup Set(answers) \cup gone
        \/ \E p \in posts : p.message = Voice(n) /\ p.state = "sending"

ControlSafe ==
    ControlTypeOK /\ ShownTwiceOnlyIfCrossed /\ HandoffsKept /\ NewestVoiceKept
=============================================================================
