------------------------------ MODULE ChatTurn ------------------------------
(***************************************************************************)
(* One turn of the browser chat: run_agent_turn of core/webchat_agent.py,  *)
(* the event stream it feeds (endpoints/chat.py) and the append of the     *)
(* turn to history (_persist_new_turns of core/chat_service.py).           *)
(*                                                                         *)
(* A turn is a generator.  The browser may leave at any of its awaits,     *)
(* which raises inside it, and at any of its yields, which closes it; both *)
(* run the finally that stores what the turn has come to.  Which tool runs *)
(* where is ToolGate, how history stores a batch is SessionStore.          *)
(***************************************************************************)
EXTENDS Naturals, Sequences

CONSTANTS
    Kinds,         \* the calls a model makes, told apart by their key
    MaxIterations, \* MAX_TOOL_ITERATIONS
    RepeatLimit,   \* REPEAT_LIMIT
    LookLimit,     \* IDENTICAL_LOOK_LIMIT
    ExploreReads,  \* EXPLORE_TRIGGER_CONSECUTIVE_READS
    FanoutReads    \* FANOUT_TRIGGER_READS, over two planes

ASSUME IterationsAreNat == MaxIterations \in Nat

VARIABLES
    at,        \* where the generator is suspended
    iteration, \* rounds of tool calls so far
    guards,    \* the stuck-loop counters and their trip
    search,    \* the delegation counters, whether and how often it delegated
    turn,      \* the messages of the turn
    round,     \* the calls of the last assistant message, and how many results are in
    reply,     \* the answer the model gave, or "none"
    committed, \* the turn has been handed to history
    append,    \* the write of the turn: idle, running, done or failed
    stored,    \* history: what was appended, or <<>>
    asks,      \* history: provider calls of this loop
    shown      \* history: how far into the turn the browser was shown texts and results

turnVars == <<at, iteration, guards, search, turn, round, reply, committed, append, stored,
              asks, shown>>

User == [role |-> "user"]
Asked(calls) == [role |-> "assistant", calls |-> calls]
Result(message, n) == [role |-> "tool", of |-> <<message, n>>]
Replied == [role |-> "assistant", calls |-> <<>>]

Machine == {"read"}         \* explore_names
Planes == {"read", "data"}  \* a read of a plane, the plane its name
Batched == {"read", "data", "look"}
-----------------------------------------------------------------------------
(* Counting the calls of a turn.                                           *)

Tripped == guards.tripped
Capped == iteration > MaxIterations
Offered == ~Capped /\ ~Tripped

\* The repeat guard and the unchanged-screen guard, after one result.
Guarded(g, kind, screen) ==
    LET repeat == IF kind = g.key THEN g.repeat + 1 ELSE 1
        looks == CASE kind # "look" -> g.looks
                   [] kind = "look" /\ screen = "error" -> 0
                   [] kind = "look" /\ screen = "same" -> g.looks + 1
                   [] kind = "look" /\ screen = "new" -> 1
    IN [key |-> kind, repeat |-> repeat, looks |-> looks,
        tripped |-> g.tripped \/ repeat >= RepeatLimit
                    \/ (kind = "look" /\ looks >= LookLimit)]

Searched(s, kind) ==
    [s EXCEPT !.reads = IF kind \in Machine THEN @ + 1 ELSE 0,
              !.breadth = IF kind \in Planes THEN @ + 1 ELSE 0,
              !.planes = IF kind \in Planes THEN @ \cup {kind} ELSE {}]

\* Variant: each helper has a flag of its own.
ShouldDelegateAgain ==
    \/ search.reads >= ExploreReads
    \/ (search.breadth >= FanoutReads /\ search.planes = Planes)
ShouldDelegate ==
    /\ ~search.delegated
    /\ \/ search.reads >= ExploreReads
       \/ (search.breadth >= FanoutReads /\ search.planes = Planes)
-----------------------------------------------------------------------------
(* The loop.                                                               *)

\* The provider is asked, with tools or, once a guard or the cap has tripped, without.
Ask ==
    /\ at = "ask" /\ at' = "asking" /\ asks' = asks + 1
    /\ UNCHANGED <<iteration, guards, search, turn, round, reply, committed, append, stored, shown>>

\* No provider, or none that answers a message: what the turn has come to is stored, and
\* the stream ends with the error.
RouteFails ==
    /\ at = "asking" /\ at' = "failing"
    /\ committed' = TRUE /\ append' = "running"
    /\ UNCHANGED <<iteration, guards, search, turn, round, reply, stored, asks, shown>>
FailureStored ==
    /\ at = "failing" /\ append # "running" /\ at' = "over"
    /\ UNCHANGED <<iteration, guards, search, turn, round, reply, committed, append, stored,
                   asks, shown>>

\* The model answers: its text is streamed, then the turn is stored.
RouteAnswers ==
    /\ at = "asking" /\ at' = "token" /\ reply' = "given" /\ shown' = Len(turn) + 1
    /\ UNCHANGED <<iteration, guards, search, turn, round, committed, append, stored, asks>>
StoreTurn ==
    /\ at = "token" /\ at' = "storing"
    /\ committed' = TRUE /\ append' = "running"
    /\ UNCHANGED <<iteration, guards, search, turn, round, reply, stored, asks, shown>>
\* Variant: a turn the database refused waits to be stored.
DoneOnceStored ==
    /\ at = "storing" /\ append = "done" /\ at' = "over"
    /\ UNCHANGED <<iteration, guards, search, turn, round, reply, committed, append, stored,
                   asks, shown>>
\* With memory and usage recorded too, the stream ends with the reply.
Done ==
    /\ at = "storing" /\ append # "running" /\ at' = "over"
    /\ UNCHANGED <<iteration, guards, search, turn, round, reply, committed, append, stored,
                   asks, shown>>

\* The model wants tools.  A message that says something too is streamed first, and the
\* generator is suspended in that yield; the message joins the turn before any tool runs.
RouteCalls(calls) ==
    /\ at = "asking" /\ Offered
    /\ round' = [calls |-> calls, ran |-> 0, message |-> Len(turn) + 1, results |-> 0]
    /\ \/ at' = "calling" /\ turn' = Append(turn, Asked(calls)) /\ UNCHANGED shown
       \/ at' = "saying" /\ shown' = Len(turn) + 1 /\ UNCHANGED turn
    /\ UNCHANGED <<iteration, guards, search, reply, committed, append, stored, asks>>
CallsJoin ==
    /\ at = "saying" /\ at' = "calling" /\ turn' = Append(turn, Asked(round.calls))
    /\ UNCHANGED <<iteration, guards, search, round, reply, committed, append, stored, asks, shown>>

\* Calls run one by one, or together when all of them may be batched.
Batch == Len(round.calls) > 1 /\ \A i \in DOMAIN round.calls : round.calls[i] \in Batched
RunCall ==
    /\ at = "calling" /\ round.ran < Len(round.calls)
    /\ round' = [round EXCEPT !.ran = IF Batch THEN Len(round.calls) ELSE @ + 1]
    /\ UNCHANGED <<at, iteration, guards, search, turn, reply, committed, append, stored,
                   asks, shown>>

\* One result after the other joins the turn and is streamed.
\* Variant: a result joins the turn once the browser has it.
GiveResultLate(screen) ==
    /\ at = "calling" /\ round.ran = Len(round.calls) /\ round.results < Len(round.calls)
    /\ LET n == round.results + 1
       IN /\ turn' = IF n = 1 THEN turn ELSE Append(turn, Result(round.message, n - 1))
          /\ round' = [round EXCEPT !.results = n]
          /\ guards' = Guarded(guards, round.calls[n], screen)
          /\ search' = Searched(search, round.calls[n])
          /\ shown' = round.message + n
    /\ UNCHANGED <<at, iteration, reply, committed, append, stored, asks>>
GiveResult(screen) ==
    /\ at = "calling" /\ round.ran = Len(round.calls) /\ round.results < Len(round.calls)
    /\ LET n == round.results + 1
       IN /\ turn' = Append(turn, Result(round.message, n))
          /\ round' = [round EXCEPT !.results = n]
          /\ guards' = Guarded(guards, round.calls[n], screen)
          /\ search' = Searched(search, round.calls[n])
          /\ shown' = round.message + n
    /\ UNCHANGED <<at, iteration, reply, committed, append, stored, asks>>

\* The explorer takes the depth of the search, the fan-out its breadth.
Handed == IF search.reads >= ExploreReads THEN [search EXCEPT !.reads = 0]
          ELSE [search EXCEPT !.breadth = 0, !.planes = {}]

\* After the round, the search may be handed to a helper, once; its findings go to the
\* model, not to the turn, and its failure changes nothing.
NextRound ==
    /\ at = "calling" /\ round.results = Len(round.calls)
    /\ IF ShouldDelegate
       THEN /\ at' = "helping"
            /\ search' = [Handed EXCEPT !.delegated = TRUE, !.helped = @ + 1]
            /\ UNCHANGED iteration
       ELSE at' = "ask" /\ iteration' = iteration + 1 /\ UNCHANGED search
    /\ UNCHANGED <<guards, turn, round, reply, committed, append, stored, asks, shown>>
Helped ==
    /\ at = "helping" /\ at' = "ask" /\ iteration' = iteration + 1
    /\ UNCHANGED <<guards, search, turn, round, reply, committed, append, stored, asks, shown>>
-----------------------------------------------------------------------------
(* History, and the browser that leaves.                                   *)

\* What an append hands over: the turn, with the reply when the model has given one.
Whole == IF reply = "given" THEN Append(turn, Replied) ELSE turn

AppendDone ==
    /\ append = "running"
    /\ append' = "done" /\ stored' = Whole
    /\ UNCHANGED <<at, iteration, guards, search, turn, round, reply, committed, asks, shown>>
\* The database refuses: logged, and the turn goes on.
AppendFails ==
    /\ append = "running"
    /\ append' = "failed"
    /\ UNCHANGED <<at, iteration, guards, search, turn, round, reply, committed, stored, asks,
                   shown>>

\* _persist_partial: at most one append for a turn, and the append is shielded.
\* Variant: the flag is looked at by nobody.
PersistPartialAgain == committed' = TRUE /\ append' = "running"
PersistPartial ==
    IF committed THEN UNCHANGED <<committed, append>>
    ELSE committed' = TRUE /\ append' = "running"

\* The browser leaves.  The append a finished turn awaits is cancelled with it; the
\* one of a failed turn is shielded and goes on.
BrowserLeaves ==
    /\ at # "over" /\ at' = "over"
    /\ IF at = "storing" /\ append = "running"
       THEN append' = "failed" /\ UNCHANGED committed
       ELSE PersistPartial
    /\ UNCHANGED <<iteration, guards, search, turn, round, reply, stored, asks, shown>>

Rounds == {<<k>> : k \in Kinds} \cup {<<k, l>> : k \in Kinds, l \in Kinds}

TurnInit ==
    /\ at = "ask" /\ iteration = 0
    /\ guards = [key |-> "none", repeat |-> 0, looks |-> 0, tripped |-> FALSE]
    /\ search = [reads |-> 0, breadth |-> 0, planes |-> {}, delegated |-> FALSE, helped |-> 0]
    /\ turn = <<User>> /\ round = [calls |-> <<>>, ran |-> 0, message |-> 0, results |-> 0]
    /\ reply = "none" /\ committed = FALSE /\ append = "idle" /\ stored = <<>>
    /\ asks = 0 /\ shown = 0

Step ==
    \/ Ask \/ RouteFails \/ FailureStored \/ RouteAnswers \/ StoreTurn \/ Done
    \/ \E calls \in Rounds : RouteCalls(calls)
    \/ CallsJoin \/ RunCall \/ NextRound \/ Helped
    \/ \E screen \in {"same", "new", "error"} :
           GiveResult(screen) /\ (round.calls[round.results + 1] = "look" \/ screen = "new")
    \/ AppendDone \/ AppendFails
TurnNext == Step \/ BrowserLeaves
TurnSpec == TurnInit /\ [][TurnNext]_turnVars

\* Providers, tools, helpers and the database answer or time out; the browser may stay.
TurnFairness == WF_turnVars(Step)
-----------------------------------------------------------------------------
(* Properties.                                                             *)

\* What history holds is the turn as it stood: the user's message first, every result
\* after the message that asked for it and in its order, the reply at the end.
StoredIsSound ==
    stored # <<>> =>
        /\ stored[1] = User
        /\ \A i \in DOMAIN stored : stored[i].role = "tool" =>
               LET m == stored[i].of[1]
                   n == stored[i].of[2]
               IN m < i /\ i = m + n /\ stored[m].role = "assistant"
                  /\ n \in DOMAIN stored[m].calls
        /\ \A i \in DOMAIN stored : stored[i] = Replied => i = Len(stored)

\* The browser left while the text of a message that asks for tools was streamed to it:
\* that message had not joined the turn yet.
TextCut == Len(turn) < round.message /\ shown = round.message

\* However the turn ended, history goes as far as what the browser was shown, through every
\* round, and holds the results of the last round and the reply.  One text it may lack:
\* what a message with calls says is streamed before the message joins the
\* turn (webchat_agent.py:890-916), so a browser that leaves there saw a text that history
\* never gets.
ShownIsStored ==
    at = "over" /\ append = "done" =>
        /\ shown <= Len(stored) \/ (TextCut /\ shown = Len(stored) + 1)
        /\ \A n \in 1 .. round.results :
               \E i \in DOMAIN stored : stored[i] = Result(round.message, n)
        /\ reply = "given" => stored[Len(stored)] = Replied

\* A turn is lost only to the database, or to the browser leaving while the finished turn
\* is being stored: never because it left earlier or because a provider failed.
LostOnlyThere == at = "over" /\ append # "running" /\ stored = <<>> => append = "failed"

\* A model that stops when tools are withdrawn costs at most two provider calls more than
\* the cap, and one helper.
LoopBounded == asks <= MaxIterations + 2 /\ search.helped <= 1 /\ iteration <= MaxIterations + 1

TurnSafe == StoredIsSound /\ ShownIsStored /\ LostOnlyThere /\ LoopBounded

\* An append once begun is never begun again: history gets a turn once (webchat_agent.py,
\* "Guarantees at most one append per turn").
AppendedOnce == append \in {"done", "failed"} => append' = append
TurnAppendedOnce == [][AppendedOnce]_turnVars

\* Every turn comes to its end.
EndsAtLast == <>(at = "over" /\ append # "running")
=============================================================================
