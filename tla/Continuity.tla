----------------------------- MODULE Continuity -----------------------------
(***************************************************************************)
(* Task state, checkpoints and todo lists (core/continuity.py,             *)
(* core/todos.py) over the stored conversation they belong to: the tools   *)
(* that write them (tool_dispatch.py, endpoints/mcp.py) and the snapshot   *)
(* the router asks for before it moves a request to another provider.      *)
(*                                                                         *)
(* A state row is one version of one task key, a checkpoint row names the  *)
(* version it pins.  Payloads are kept for the todo list only.             *)
(***************************************************************************)
EXTENDS SessionStore

CONSTANTS
    Tools,      \* the kinds of task call the clients make
    MaxItems    \* TODO_MAX_ITEMS

ASSUME ToolsKnown == Tools \subseteq {"set", "pin", "add", "complete", "clear"}

VARIABLES
    advisory,   \* the (session, key) each client holds the advisory lock of
    added       \* what the todo tool reported as added

contVars == <<advisory, added>>
allVars  == <<vars, contVars>>

Keys == {"task", "todos"}
KeyOf(c) == IF call[c].op \in {"add", "complete", "clear"} THEN "todos" ELSE "task"
-----------------------------------------------------------------------------
States(pk, key) == {r \in rows : r.table = "state" /\ r.pk = pk /\ r.key = key}

\* max(version), 0 when nothing is tracked.
HeadVersion(pk, key) == Max({0} \cup {r.version : r \in States(pk, key)})

\* get_state, and normalize: the head's list, or a blank one.
TodoList(pk) ==
    LET head == {r \in States(pk, "todos") : r.version = HeadVersion(pk, "todos")}
    IN  IF head = {} THEN [items |-> {}, next |-> 1]
        ELSE (CHOOSE r \in head : TRUE).list

\* active_task_keys.
Tracked(pk) == {key \in Keys : States(pk, key) # {}}
-----------------------------------------------------------------------------
(* set_state *)

\* A task call resolves or creates its session first, like a chat request.
\* `arg` is expected_version: given or not for a plain write, never for todos.
BeginTask(c) ==
    /\ \E op \in Tools, e \in {None} \cup 0..MaxCalls :
         /\ e # None => op = "set"
         /\ At(c, "idle") /\ begun < MaxCalls
         /\ begun' = begun + 1
         /\ call' = [call EXCEPT ![c] = [Idle EXCEPT
                !.op = op, !.pc = "insert", !.n = begun + 1, !.arg = e]]
    /\ UNCHANGED <<session, ids, lock, turns, log, rows, owes, deletes, contVars>>

\* task_state_set has nothing to work out.
SetState(c) ==
    /\ At(c, "load") /\ call[c].op = "set"
    /\ Goto(c, "advise")
    /\ UNCHANGED <<session, ids, lock, turns, log, rows, owes, begun, deletes,
                   contVars>>

\* Variant: writers of one task do not wait for each other.
StateLockOpen(c) ==
    /\ At(c, "advise")
    /\ advisory' = [advisory EXCEPT ![c] = <<call[c].pk, KeyOf(c)>>]
    /\ Goto(c, "head")
    /\ UNCHANGED <<session, ids, lock, turns, log, rows, owes, begun, deletes, added>>

\* pg_advisory_xact_lock on (session, key).
StateLock(c) ==
    /\ At(c, "advise")
    /\ \A d \in Clients \ {c} : advisory[d] # <<call[c].pk, KeyOf(c)>>
    /\ advisory' = [advisory EXCEPT ![c] = <<call[c].pk, KeyOf(c)>>]
    /\ Goto(c, "head")
    /\ UNCHANGED <<session, ids, lock, turns, log, rows, owes, begun, deletes, added>>

Release(c) == advisory' = [advisory EXCEPT ![c] = None]

\* The head, and the compare of compare-and-set.
StateHead(c) ==
    LET head == HeadVersion(call[c].pk, KeyOf(c)) IN
    /\ At(c, "head")
    /\ IF call[c].arg \in {None, head}
       THEN /\ call' = [call EXCEPT ![c].seen = head, ![c].pc = "put"]
            /\ UNCHANGED advisory
       ELSE End(c) /\ Release(c)
    /\ UNCHANGED <<session, ids, lock, turns, log, rows, owes, begun, deletes, added>>

\* The insert and the commit.  The foreign key and the unique version both
\* end it as a conflict.
StateInsert(c) ==
    LET pk == call[c].pk
        new == [table |-> "state", pk |-> pk, key |-> KeyOf(c),
                version |-> call[c].seen + 1, n |-> call[c].n, list |-> call[c].plan]
        taken == \E r \in States(pk, KeyOf(c)) : r.version = new.version
    IN
    /\ At(c, "put") /\ RowFree(c)
    /\ IF session = pk /\ ~taken
       THEN /\ rows' = rows \cup {new}
            /\ added' = added \cup
                 IF call[c].op = "add"
                 THEN {[pk |-> pk, id |-> i.id, n |-> i.n] :
                          i \in {x \in call[c].plan.items : x.n = call[c].n}}
                 ELSE {}
       ELSE UNCHANGED <<rows, added>>
    /\ End(c) /\ Release(c)
    /\ UNCHANGED <<session, ids, lock, turns, log, owes, begun, deletes>>
-----------------------------------------------------------------------------
(* run_todo: read the list, work out the next one, write it without        *)
(* expected_version.                                                       *)

\* A call that finds nothing to do (full list, unknown id) ends here.
TodoRead(c) ==
    LET list == TodoList(call[c].pk)
        put(next) == call' = [call EXCEPT ![c].plan = next, ![c].pc = "advise"]
    IN
    /\ At(c, "load")
    /\ \/ /\ call[c].op = "add" /\ Cardinality(list.items) < MaxItems
          /\ put([items |-> list.items \cup
                              {[id |-> list.next, n |-> call[c].n, done |-> FALSE]},
                  next  |-> list.next + 1])
       \/ call[c].op = "add" /\ Cardinality(list.items) >= MaxItems /\ End(c)
       \/ /\ call[c].op = "complete"
          /\ \E want \in {i.id : i \in list.items} :
               put([list EXCEPT !.items =
                      {IF i.id = want THEN [i EXCEPT !.done = TRUE] ELSE i : i \in @}])
       \/ call[c].op = "complete" /\ End(c)
       \/ call[c].op = "clear" /\ put([list EXCEPT !.items = {}])
    /\ UNCHANGED <<session, ids, lock, turns, log, rows, owes, begun, deletes,
                   contVars>>
-----------------------------------------------------------------------------
(* Checkpoints: checkpoint_create, and the failover hook's one per key.    *)

\* reactive_checkpoint lists the tracked keys, then pins them one by one.
HookKeys(c) ==
    /\ At(c, "hook")
    /\ call' = [call EXCEPT ![c].plan = Tracked(call[c].pk), ![c].pc = "pin"]
    /\ UNCHANGED <<session, ids, lock, turns, log, rows, owes, begun, deletes,
                   contVars>>

HookDone(c) ==
    /\ At(c, "pin") /\ call[c].plan = {}
    /\ Goto(c, "route")
    /\ UNCHANGED <<session, ids, lock, turns, log, rows, owes, begun, deletes,
                   contVars>>

\* Variant: the head is looked up without the task_key predicate.
PinAnyHead(c) ==
    LET head == Max({HeadVersion(call[c].pk, k) : k \in Keys}) IN
    /\ \/ /\ At(c, "pin")
          /\ \E key \in call[c].plan :
               call' = [call EXCEPT ![c].pc = "pinput", ![c].arg = <<key, head>>]
       \/ /\ At(c, "load") /\ call[c].op = "pin"
          /\ call' = [call EXCEPT ![c].pc = "pinput", ![c].arg = <<"task", head>>]
    /\ UNCHANGED <<session, ids, lock, turns, log, rows, owes, begun, deletes,
                   contVars>>

\* create_checkpoint reads the head ...
PinHead(c) ==
    /\ \/ /\ At(c, "pin")
          /\ \E key \in call[c].plan :
               call' = [call EXCEPT ![c].pc = "pinput",
                                    ![c].arg = <<key, HeadVersion(call[c].pk, key)>>]
       \/ /\ At(c, "load") /\ call[c].op = "pin"
          /\ call' = [call EXCEPT ![c].pc = "pinput",
                                  ![c].arg = <<"task", HeadVersion(call[c].pk, "task")>>]
    /\ UNCHANGED <<session, ids, lock, turns, log, rows, owes, begun, deletes,
                   contVars>>

\* ... and inserts the row.  A failure ends the hook, never the request.
PinInsert(c) ==
    LET live == session = call[c].pk IN
    /\ At(c, "pinput") /\ RowFree(c)
    /\ rows' = rows \cup
         IF live THEN {[table |-> "check", pk |-> session, key |-> call[c].arg[1],
                        version |-> call[c].arg[2], n |-> call[c].n]} ELSE {}
    /\ IF call[c].op = "pin" THEN End(c)
       ELSE call' = [call EXCEPT ![c].pc = "pin", ![c].arg = None,
                        ![c].plan = IF live THEN @ \ {call[c].arg[1]} ELSE {}]
    /\ UNCHANGED <<session, ids, lock, turns, log, owes, begun, deletes, contVars>>
-----------------------------------------------------------------------------
AllInit == Init /\ advisory = [c \in Clients |-> None] /\ added = {}

Conversation(c) ==
    (BeginChat(c) \/ BeginDelete(c) \/ Step(c)) /\ UNCHANGED contVars

TaskStep(c) ==
    \/ SetState(c) \/ StateLock(c) \/ StateHead(c) \/ StateInsert(c) \/ TodoRead(c)
    \/ HookKeys(c) \/ HookDone(c) \/ PinHead(c) \/ PinInsert(c)

\* Every client is done and no call is left to begin.
Rest ==
    /\ begun = MaxCalls /\ \A c \in Clients : At(c, "idle")
    /\ UNCHANGED allVars

AllNext == (\E c \in Clients : Conversation(c) \/ BeginTask(c) \/ TaskStep(c)) \/ Rest

StorageSpec == AllInit /\ [][AllNext]_allVars
-----------------------------------------------------------------------------
(* Properties *)

\* Types of the variables.
TypeOK ==
    /\ session \in 0..ids /\ ids \in 0..(2 * MaxCalls)
    /\ lock \in Clients \cup {None}
    /\ \A i \in DOMAIN turns : turns[i].seq \in Nat /\ turns[i].msgs \in Seq(Message)
    /\ log \in Seq(Message)
    /\ \A r \in rows : r.table \in {"run", "state", "check"} /\ r.pk \in 1..ids
    /\ \A c \in Clients : call[c].pc = "idle" <=> call[c] = Idle
    /\ owes \in [Clients -> 0..MaxCalls]
    /\ advisory \in [Clients -> {None} \cup ((1..ids) \X Keys)]

\* While a writer is about to insert version N+1 of a task, N is still the
\* head of that task: a write that named no version never loses a race it
\* was told it could not have, and one that did follows exactly the version
\* it named (set_state's advisory lock).
HeadHeld ==
    \A c \in Clients : At(c, "put") /\ session = call[c].pk =>
        HeadVersion(call[c].pk, KeyOf(c)) = call[c].seen

\* A checkpoint pins a version that is there to go back to, or 0 while
\* nothing was tracked, through deletions and hooks that pin several keys
\* while others write them (create_checkpoint reads the head unlocked).
PinsExist ==
    \A r \in rows : r.table = "check" /\ r.version # 0 =>
        \E s \in States(r.pk, r.key) : s.version = r.version

\* Versions follow one another, and what points at one points at one that is there.
VersionsHeld == HeadHeld /\ PinsExist

\* Two todo items a session reported as added never carry the same id
\* ("ids are never reused within a session", todos.py:18).
TodoIdsUnique ==
    \A a, b \in added : a.pk = b.pk /\ a.id = b.id => a = b
=============================================================================
