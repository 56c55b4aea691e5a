---------------------------- MODULE SessionStore ----------------------------
(***************************************************************************)
(* The stored conversation behind one session name of one account:         *)
(* core/session_store.py, with the chat requests of core/chat_service.py   *)
(* that read and append it, the run rows of core/run_store.py that point   *)
(* at it, and its deletion.                                                *)
(*                                                                         *)
(* A request runs as a chain of transactions; one action is one statement  *)
(* of a transaction where another transaction could come between, and a    *)
(* run of statements under the row lock where none can.  FOR UPDATE on the *)
(* sessions row is `lock`; inserting a row that refers to the session      *)
(* waits for it too (PostgreSQL takes FOR KEY SHARE for the foreign key).  *)
(***************************************************************************)
EXTENDS Naturals, Sequences, FiniteSets, SequencesExt

CONSTANTS
    Clients,    \* programs that use the session, one call at a time each
    None,
    TurnCap,    \* history_max_turns, the retention cap
    ReadCap,    \* history_read_max_turns, the window a request loads
    MaxCalls,   \* bound: calls begun
    MaxDeletes  \* bound: deletions among them

ASSUME CapsPositive == TurnCap \in Nat \ {0} /\ ReadCap \in Nat \ {0}
ASSUME NoneIsNoClient == None \notin Clients /\ IsFiniteSet(Clients)
ASSUME BoundsAreNat == MaxCalls \in Nat /\ MaxDeletes \in Nat

VARIABLES
    session,    \* surrogate id of the sessions row, 0 when there is none
    ids,        \* last surrogate id handed out
    lock,       \* the client whose transaction holds the row
    turns,      \* committed turns of the row, oldest first
    log,        \* every message committed since the row was created
    rows,       \* committed rows of other tables that refer to a session
    call,       \* what each client is doing
    owes,       \* the tool call each client has yet to answer, 0 for none
    begun,      \* calls begun
    deletes     \* deletions begun

vars == <<session, ids, lock, turns, log, rows, call, owes, begun, deletes>>
-----------------------------------------------------------------------------
(* Messages carry their role and the number of the exchange they belong   *)
(* to; a tool result carries the number of the call it answers.            *)

Message == [role: {"user", "tool", "text", "call"}, n: 1..MaxCalls]

\* group_into_turns: a turn opens on a user message that follows anything,
\* and holds the messages up to the next one that does.
Opens(msgs) == {i \in DOMAIN msgs : i = 1 \/ msgs[i].role = "user"}
TurnOf(msgs, i) == Cardinality({j \in Opens(msgs) : j <= i})
Before(msgs, t) == Cardinality({i \in DOMAIN msgs : TurnOf(msgs, i) < t})
GroupIntoTurns(msgs) ==
    [t \in 1..Cardinality(Opens(msgs)) |->
        SubSeq(msgs, Before(msgs, t) + 1, Before(msgs, t + 1))]

\* The messages of a batch that join the turn already open.
Leading(batch) ==
    LET users == {i \in DOMAIN batch : batch[i].role = "user"}
    IN  IF users = {} THEN Len(batch) ELSE Min(users) - 1

\* _insert_grouped, from the newest turn `_last_turn` returned.
InsertGrouped(stored, last, batch) ==
    LET joins  == IF last = 0 THEN 0 ELSE Leading(batch)
        opened == GroupIntoTurns(SubSeq(batch, joins + 1, Len(batch)))
        held   == [i \in DOMAIN stored |->
                     IF stored[i].seq = last - 1
                     THEN [stored[i] EXCEPT !.msgs = @ \o SubSeq(batch, 1, joins)]
                     ELSE stored[i]]
    IN  held \o [i \in DOMAIN opened |->
                    [seq |-> last + i - 1, msgs |-> opened[i]]]

\* Variant: the renumbering forgets that ROW_NUMBER counts from 1.
EnforceRetentionFromTwo(stored) ==
    LET kept == IF Len(stored) <= TurnCap THEN stored
                ELSE SubSeq(stored, Len(stored) - TurnCap + 1, Len(stored))
    IN  IF kept = stored THEN stored
        ELSE [i \in DOMAIN kept |-> [kept[i] EXCEPT !.seq = i - 2]]

\* _enforce_retention: drop the oldest turns whole, renumber from 0.
EnforceRetention(stored) ==
    LET kept == IF Len(stored) <= TurnCap THEN stored
                ELSE SubSeq(stored, Len(stored) - TurnCap + 1, Len(stored))
    IN  IF kept = stored THEN stored
        ELSE [i \in DOMAIN kept |-> [kept[i] EXCEPT !.seq = i - 1]]

Contents(stored) == FlattenSeq([i \in DOMAIN stored |-> stored[i].msgs])

\* load: the newest ReadCap turns; a window that left turns behind loses
\* the tool results it begins with.
Loaded ==
    LET window == IF Len(turns) <= ReadCap THEN turns
                  ELSE SubSeq(turns, Len(turns) - ReadCap + 1, Len(turns))
        msgs   == Contents(window)
        others == {i \in DOMAIN msgs : msgs[i].role # "tool"}
        first  == IF others = {} THEN Len(msgs) + 1 ELSE Min(others)
    IN  IF window # <<>> /\ Head(window).seq > 0
        THEN SubSeq(msgs, first, Len(msgs))
        ELSE msgs

\* repair_tool_pairing accepts a history when each tool result finds a call:
\* with its own id, or else an earlier one no result has covered yet.
Pairable(msgs) ==
    \A i \in DOMAIN msgs : msgs[i].role = "tool" =>
        \/ \E j \in DOMAIN msgs : msgs[j].role = "call" /\ msgs[j].n = msgs[i].n
        \/ Cardinality({j \in 1..(i - 1) : msgs[j].role = "call"})
             > Cardinality({j \in 1..(i - 1) : msgs[j].role = "tool"})
-----------------------------------------------------------------------------
(* Calls *)

Idle == [op |-> None, pc |-> "idle", pk |-> 0, n |-> 0, seen |-> 0,
         arg |-> None, batch |-> <<>>, plan |-> {}]

At(c, pc)    == call[c].pc = pc
Goto(c, pc)  == call' = [call EXCEPT ![c].pc = pc]
End(c)       == call' = [call EXCEPT ![c] = Idle]
RowIgnored(c) == TRUE        \* variant: nobody waits for FOR UPDATE
RowFree(c)   == lock \in {None, c}
Unlock(c)    == lock' = IF lock = c THEN None ELSE lock
Owned(pk)    == {r \in rows : r.pk = pk}

\* What a client owes once it has the answer at the end of a batch.
Answered(batch, before) ==
    IF batch = <<>> \/ Last(batch).role \notin {"call", "text"} THEN before
    ELSE IF Last(batch).role = "call" THEN Last(batch).n ELSE 0

Begin(c, op, pc, pk, batch) ==
    /\ At(c, "idle") /\ begun < MaxCalls
    /\ begun' = begun + 1
    /\ call' = [call EXCEPT ![c] = [Idle EXCEPT !.op = op, !.pc = pc, !.pk = pk,
                                    !.n = begun + 1, !.batch = batch]]

\* A chat request: the result of the tool call its last answer made, or a
\* user message, or a client that resends an earlier exchange before it.
BeginChat(c) ==
    /\ LET n == begun + 1 IN
       IF owes[c] # 0
       THEN Begin(c, "chat", "insert", 0, <<[role |-> "tool", n |-> owes[c]]>>)
       ELSE \E resent \in {<<>>, <<[role |-> "user", n |-> n],
                                   [role |-> "text", n |-> n]>>} :
              Begin(c, "chat", "insert", 0,
                    Append(resent, [role |-> "user", n |-> n]))
    /\ UNCHANGED <<session, ids, lock, turns, log, rows, owes, deletes>>

\* INSERT ... ON CONFLICT DO NOTHING: creates the row, or finds one.
Insert(c) ==
    /\ At(c, "insert")
    /\ IF session = 0
       THEN /\ ids' = ids + 1 /\ session' = ids + 1 /\ lock' = c
       ELSE UNCHANGED <<session, ids, lock>>
    /\ Goto(c, "select")
    /\ UNCHANGED <<turns, log, rows, owes, begun, deletes>>

\* SELECT ... FOR UPDATE, then .one(): the row may be gone again.  Opening a
\* request commits at once; appending keeps the lock for what follows.
Select(c) ==
    /\ At(c, "select") /\ RowFree(c) /\ session # 0
    /\ IF call[c].pk # 0
       THEN lock' = c /\ Goto(c, "walk")
       ELSE lock' = None /\ call' = [call EXCEPT ![c].pk = session, ![c].pc = "load"]
    /\ UNCHANGED <<session, ids, turns, log, rows, owes, begun, deletes>>

\* NoResultFound.  Of an append, a client that streamed the answer has it;
\* any other was told 503.
SelectNothing(c) ==
    /\ At(c, "select") /\ RowFree(c) /\ session = 0
    /\ End(c)
    /\ owes' \in {owes, [owes EXCEPT ![c] = Answered(call[c].batch, @)]}
    /\ UNCHANGED <<session, ids, lock, turns, log, rows, begun, deletes>>

\* prepare_chat: load the window; history and request must pair, or 400.
Load(c) ==
    /\ At(c, "load") /\ call[c].op = "chat"
    /\ IF Pairable(Loaded \o call[c].batch) THEN Goto(c, "route") ELSE End(c)
    /\ UNCHANGED <<session, ids, lock, turns, log, rows, owes, begun, deletes>>

\* One attempt's run row.  The recorder swallows a failed insert.
Record(c, outcome) ==
    /\ RowFree(c)
    /\ rows' = rows \cup
         IF session # call[c].pk THEN {}
         ELSE {[table |-> "run", pk |-> session, n |-> call[c].n,
                outcome |-> outcome]}

\* An attempt fails: it is recorded and the failover hook comes next.
AttemptFails(c) ==
    /\ At(c, "route") /\ call[c].seen = 0
    /\ Record(c, "failover")
    /\ call' = [call EXCEPT ![c].seen = 1, ![c].pc = "hook"]
    /\ UNCHANGED <<session, ids, lock, turns, log, owes, begun, deletes>>

\* The last attempt fails too: the request ends with nothing appended.
AttemptsExhausted(c) ==
    /\ At(c, "route") /\ call[c].seen = 1
    /\ Record(c, "failover")
    /\ End(c)
    /\ UNCHANGED <<session, ids, lock, turns, log, owes, begun, deletes>>

\* An attempt answers, with text or with a tool call; then append.
AttemptAnswers(c) ==
    /\ At(c, "route")
    /\ Record(c, "ok")
    /\ \E role \in {"text", "call"} :
         call' = [call EXCEPT ![c].pc = "insert",
                              ![c].batch = Append(@, [role |-> role, n |-> call[c].n])]
    /\ UNCHANGED <<session, ids, lock, turns, log, owes, begun, deletes>>

\* _last_turn, under the row lock.
Walk(c) ==
    /\ At(c, "walk")
    /\ call' = [call EXCEPT ![c].pc = "write", ![c].seen =
                  IF turns = <<>> THEN 0 ELSE Last(turns).seq + 1]
    /\ UNCHANGED <<session, ids, lock, turns, log, rows, owes, begun, deletes>>

\* _insert_grouped, _bump_updated_at, _enforce_retention and the commit.
Write(c) ==
    /\ At(c, "write")
    /\ turns' = EnforceRetention(InsertGrouped(turns, call[c].seen, call[c].batch))
    /\ log' = log \o call[c].batch
    /\ lock' = None
    /\ owes' = [owes EXCEPT ![c] = Answered(call[c].batch, @)]
    /\ Goto(c, "usage")
    /\ UNCHANGED <<session, ids, rows, begun, deletes>>

\* attach_output: stamp the 'ok' run of this request, if it is there; a row
\* a deletion has swept is locked until the deletion ends.
AttachOutput(c) ==
    LET won == {r \in rows : r.table = "run" /\ r.n = call[c].n /\ r.outcome = "ok"}
    IN
    /\ At(c, "usage")
    /\ \A d \in Clients : At(d, "drop") => won \cap call[d].plan = {}
    /\ rows' = (rows \ won) \cup {[r EXCEPT !.outcome = "counted"] : r \in won}
    /\ End(c)
    /\ UNCHANGED <<session, ids, lock, turns, log, owes, begun, deletes>>
-----------------------------------------------------------------------------
(* delete_session, by the surrogate id some earlier page showed.           *)

BeginDelete(c) ==
    /\ deletes < MaxDeletes /\ deletes' = deletes + 1
    /\ \E pk \in 1..ids : Begin(c, "delete", "own", pk, <<>>)
    /\ UNCHANGED <<session, ids, lock, turns, log, rows, owes>>

\* Variant: a plain SELECT, no FOR UPDATE.
DeleteOwnUnlocked(c) ==
    /\ At(c, "own")
    /\ IF session = call[c].pk THEN Goto(c, "sweep") ELSE End(c)
    /\ UNCHANGED <<session, ids, lock, turns, log, rows, owes, begun, deletes>>

\* The ownership SELECT ... FOR UPDATE; a stale id deletes nothing.
DeleteOwn(c) ==
    /\ At(c, "own") /\ RowFree(c)
    /\ IF session = call[c].pk THEN lock' = c /\ Goto(c, "sweep")
                               ELSE End(c) /\ UNCHANGED lock
    /\ UNCHANGED <<session, ids, turns, log, rows, owes, begun, deletes>>

\* Messages, turns, checkpoints, task_states and runs, as they stand now.
DeleteChildren(c) ==
    /\ At(c, "sweep")
    /\ call' = [call EXCEPT ![c].pc = "drop", ![c].plan = Owned(call[c].pk)]
    /\ UNCHANGED <<session, ids, lock, turns, log, rows, owes, begun, deletes>>

\* The sessions row itself, and the commit; a row that still refers to it
\* makes the whole transaction fail.
DeleteRow(c) ==
    /\ At(c, "drop")
    /\ IF Owned(call[c].pk) \subseteq call[c].plan
       THEN /\ session' = 0 /\ turns' = <<>> /\ log' = <<>>
            /\ rows' = rows \ call[c].plan
       ELSE UNCHANGED <<session, turns, log, rows>>
    /\ Unlock(c) /\ End(c)
    /\ UNCHANGED <<ids, owes, begun, deletes>>
-----------------------------------------------------------------------------
Init ==
    /\ session = 0 /\ ids = 0 /\ lock = None /\ turns = <<>> /\ log = <<>>
    /\ rows = {}
    /\ call = [c \in Clients |-> Idle]
    /\ owes = [c \in Clients |-> 0]
    /\ begun = 0 /\ deletes = 0

\* The statements of a call under way.
Step(c) ==
    \/ Insert(c) \/ Select(c) \/ SelectNothing(c) \/ Load(c)
    \/ AttemptFails(c) \/ AttemptsExhausted(c) \/ AttemptAnswers(c)
    \/ Walk(c) \/ Write(c) \/ AttachOutput(c)
    \/ DeleteOwn(c) \/ DeleteChildren(c) \/ DeleteRow(c)
-----------------------------------------------------------------------------
(* Properties *)

\* The stored turns are always the newest TurnCap turns of everything appended
\* since the row was created, numbered densely from 0: writers that interleave
\* never split, lose, repeat, reorder or renumber a turn, and retention cuts
\* between turns only (_insert_grouped, _enforce_retention).
StoredAsGrouped ==
    LET all  == GroupIntoTurns(log)
        past == IF Len(all) <= TurnCap THEN 0 ELSE Len(all) - TurnCap
    IN  turns = [i \in 1..(Len(all) - past) |-> [seq |-> i - 1, msgs |-> all[past + i]]]

\* A row of runs, task_states or checkpoints always refers to the session row
\* that exists, and the last statement of a deletion never meets one it did
\* not delete: FOR UPDATE holds off every insert that refers to the session
\* (delete_session).
DeleteLeavesNothing ==
    /\ \A r \in rows : r.pk = session
    /\ \A c \in Clients : At(c, "drop") => Owned(call[c].pk) \subseteq call[c].plan

\* What load returns can be paired with the calls it answers, so that the
\* conversation stays usable ("callers never hand repair_tool_pairing an
\* unpairable head", session_store.py:115).
LoadPairs == Pairable(Loaded)
=============================================================================
