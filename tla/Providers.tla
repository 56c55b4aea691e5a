----------------------------- MODULE Providers -----------------------------
(***************************************************************************)
(* One user's provider credentials and settings rows: endpoints/byok.py    *)
(* over core/credential_store.py and core/user_settings_store.py.          *)
(*                                                                         *)
(* Statements of overlapping requests interleave.  Only reorder runs       *)
(* several in one transaction: each UPDATE keeps its row locked until the  *)
(* commit, writers of that row wait, and PostgreSQL aborts one of two      *)
(* transactions that wait for each other.                                  *)
(***************************************************************************)
EXTENDS Naturals, Sequences, SequencesExt, FiniteSets

CONSTANTS
    Names,        \* provider names, unique per user
    Callers,      \* requests that overlap
    Outcomes,     \* what a probe reports
    MaxRows,      \* bound: credentials ever connected
    MaxSaves      \* bound: settings saved

VARIABLES
    creds,        \* user_provider_credentials, by id
    settings,     \* the user_settings row: its routing steps, its overrides
    callers,      \* the requests under way
    saved,        \* history: the value each column was last saved with
    saves,
    late          \* history: connected while an order was being written

providerVars == <<creds, settings, callers, saved, saves, late>>

Resting == [pc |-> "idle"]
Turn(r, caller) == callers' = [callers EXCEPT ![r] = caller]

Rows == {i \in DOMAIN creds : creds[i].live}

\* ORDER BY sort_order, id: the k-th row is the one with k - 1 rows before it.
OrderOf(table) ==
    LET held == {i \in DOMAIN table : table[i].live}
        before(i) == {j \in held : \/ table[j].sort < table[i].sort
                                   \/ table[j].sort = table[i].sort /\ j < i}
    IN [k \in 1 .. Cardinality(held) |-> CHOOSE i \in held : Cardinality(before(i)) = k - 1]
Order == OrderOf(creds)

\* The rows an open transaction has updated.
Written(r) ==
    IF callers[r].pc = "write"
    THEN {callers[r].ids[k] : k \in 1 .. callers[r].at - 1} ELSE {}
LockedFor(r, i) == \E q \in Callers \ {r} : i \in Written(q)
Waits(r, q) ==
    /\ callers[r].pc = "write" /\ callers[r].at <= Len(callers[r].ids)
    /\ callers[r].ids[callers[r].at] \in Written(q)
-----------------------------------------------------------------------------
\* connect_provider: one INSERT, with the column's default place; a taken name
\* is refused.
ConnectProvider(n) ==
    /\ Len(creds) < MaxRows /\ \A i \in Rows : creds[i].name # n
    /\ creds' = Append(creds, [name |-> n, sort |-> 0, status |-> "untested",
                               live |-> TRUE, moved |-> FALSE])
    /\ late' = (late \/ \E r \in Callers : callers[r].pc = "write")
    /\ UNCHANGED <<settings, callers, saved, saves>>

\* delete_provider: a row found and removed; it waits for whoever holds it.
DeleteProvider(i) ==
    /\ i \in Rows /\ \A q \in Callers : i \notin Written(q)
    /\ creds' = [creds EXCEPT ![i].live = FALSE]
    /\ UNCHANGED <<settings, callers, saved, saves, late>>
-----------------------------------------------------------------------------
\* move_provider lists the rows and swaps two neighbours in its own copy; a
\* move off the end keeps the order and still writes it.
StartMove(r, i, up) ==
    /\ callers[r] = Resting /\ i \in Rows
    /\ LET at == CHOOSE k \in DOMAIN Order : Order[k] = i
           other == IF up THEN at - 1 ELSE at + 1
       IN Turn(r, [pc |-> "check",
                   ids |-> IF other \in DOMAIN Order
                           THEN [Order EXCEPT ![at] = Order[other], ![other] = i]
                           ELSE Order])
    /\ UNCHANGED <<creds, settings, saved, saves, late>>

\* reorder: refused when the rows are no longer the ones listed.
CheckOrder(r) ==
    /\ callers[r].pc = "check"
    /\ Turn(r, IF ToSet(callers[r].ids) = Rows
               THEN [pc |-> "write", ids |-> callers[r].ids, at |-> 1]
               ELSE Resting)
    /\ UNCHANGED <<creds, settings, saved, saves, late>>

\* Variant: each UPDATE is committed on its own.
WriteRowAlone(r) ==
    /\ callers[r].pc = "write"
    /\ LET i == callers[r].ids[callers[r].at]
           last == callers[r].at = Len(callers[r].ids)
       IN /\ creds' = IF i \in Rows
                      THEN [creds EXCEPT ![i].sort = callers[r].at - 1,
                                         ![i].moved = TRUE]
                      ELSE creds
          /\ Turn(r, IF last THEN Resting ELSE [callers[r] EXCEPT !.at = @ + 1])
    /\ UNCHANGED <<settings, saved, saves, late>>

\* One UPDATE of the transaction: it waits for the row's writer.
WriteRow(r) ==
    /\ callers[r].pc = "write" /\ callers[r].at <= Len(callers[r].ids)
    /\ ~LockedFor(r, callers[r].ids[callers[r].at])
    /\ Turn(r, [callers[r] EXCEPT !.at = @ + 1])
    /\ UNCHANGED <<creds, settings, saved, saves, late>>

\* The commit shows every place at once; a row deleted before its UPDATE
\* stays deleted.
CommitOrder(r) ==
    /\ callers[r].pc = "write" /\ callers[r].at > Len(callers[r].ids)
    /\ LET place(i) == CHOOSE k \in DOMAIN callers[r].ids : callers[r].ids[k] = i
       IN creds' = [i \in DOMAIN creds |->
                       IF i \in ToSet(callers[r].ids)
                       THEN [creds[i] EXCEPT !.sort = place(i) - 1, !.moved = TRUE]
                       ELSE creds[i]]
    /\ Turn(r, Resting)
    /\ UNCHANGED <<settings, saved, saves, late>>

\* Two transactions wait for each other: one is rolled back, its client gets
\* the 500.
AbortOrder(r) ==
    /\ \E q \in Callers \ {r} : Waits(r, q) /\ Waits(q, r)
    /\ Turn(r, Resting)
    /\ UNCHANGED <<creds, settings, saved, saves, late>>
-----------------------------------------------------------------------------
\* test_provider reads the row, and probes what it read; the outcome is written
\* to the id, whose row may have gone.  A blocked address fails unprobed.
StartTest(r, i) ==
    /\ callers[r] = Resting /\ i \in Rows
    /\ Turn(r, [pc |-> "probe", id |-> i])
    /\ UNCHANGED <<creds, settings, saved, saves, late>>

\* Variant: the outcome is written back with the whole row that was read.
RecordTestReviving(r, status) ==
    /\ callers[r].pc = "probe" /\ ~LockedFor(r, callers[r].id)
    /\ creds' = [creds EXCEPT ![callers[r].id].status = status,
                              ![callers[r].id].live = TRUE]
    /\ Turn(r, Resting)
    /\ UNCHANGED <<settings, saved, saves, late>>

RecordTest(r, status) ==
    /\ callers[r].pc = "probe" /\ ~LockedFor(r, callers[r].id)
    /\ creds' = IF callers[r].id \in Rows
                THEN [creds EXCEPT ![callers[r].id].status = status] ELSE creds
    /\ Turn(r, Resting)
    /\ UNCHANGED <<settings, saved, saves, late>>

\* The undecryptable key: 503 before any probe, nothing is written.
RefuseTest(r) ==
    /\ callers[r].pc = "probe" /\ Turn(r, Resting)
    /\ UNCHANGED <<creds, settings, saved, saves, late>>
-----------------------------------------------------------------------------
\* save_routing checks its steps against the rows listed before the write.
StartRouting(r, steps) ==
    /\ callers[r] = Resting /\ saves < MaxSaves /\ steps \subseteq Rows
    /\ Turn(r, [pc |-> "routing", steps |-> steps]) /\ saves' = saves + 1
    /\ UNCHANGED <<creds, settings, saved, late>>

\* The dashboard's request settings, validated without the row.
StartOverrides(r) ==
    /\ callers[r] = Resting /\ saves < MaxSaves
    /\ Turn(r, [pc |-> "overrides", on |-> TRUE, read |-> settings]) /\ saves' = saves + 1
    /\ UNCHANGED <<creds, settings, saved, late>>

\* Variant: the overrides are saved with the routing read before.
UpsertWhole(r) ==
    \/ /\ callers[r].pc = "routing"
       /\ settings' = [settings EXCEPT !.routing = callers[r].steps]
       /\ saved' = [saved EXCEPT !.routing = callers[r].steps]
       /\ Turn(r, Resting) /\ UNCHANGED <<creds, saves, late>>
    \/ /\ callers[r].pc = "overrides"
       /\ settings' = [callers[r].read EXCEPT !.overrides = callers[r].on]
       /\ saved' = [saved EXCEPT !.overrides = callers[r].on]
       /\ Turn(r, Resting) /\ UNCHANGED <<creds, saves, late>>

\* _upsert inserts the row or sets the one column it was given.
Upsert(r) ==
    \/ /\ callers[r].pc = "routing"
       /\ settings' = [settings EXCEPT !.routing = callers[r].steps]
       /\ saved' = [saved EXCEPT !.routing = callers[r].steps]
       /\ Turn(r, Resting) /\ UNCHANGED <<creds, saves, late>>
    \/ /\ callers[r].pc = "overrides"
       /\ settings' = [settings EXCEPT !.overrides = callers[r].on]
       /\ saved' = [saved EXCEPT !.overrides = callers[r].on]
       /\ Turn(r, Resting) /\ UNCHANGED <<creds, saves, late>>
-----------------------------------------------------------------------------
ProviderInit ==
    /\ creds = <<>> /\ saves = 0 /\ late = FALSE
    /\ settings = [routing |-> {}, overrides |-> FALSE] /\ saved = settings
    /\ callers = [r \in Callers |-> Resting]

ProviderNext ==
    \/ \E n \in Names : ConnectProvider(n)
    \/ \E i \in DOMAIN creds : DeleteProvider(i)
    \/ \E r \in Callers :
          \/ \E i \in DOMAIN creds :
                \/ \E up \in BOOLEAN : StartMove(r, i, up)
                \/ StartTest(r, i)
          \/ CheckOrder(r) \/ WriteRow(r) \/ CommitOrder(r) \/ AbortOrder(r)
          \/ \E status \in Outcomes : RecordTest(r, status)
          \/ RefuseTest(r)
          \/ \E steps \in SUBSET Rows : StartRouting(r, steps)
          \/ StartOverrides(r)
          \/ Upsert(r)
-----------------------------------------------------------------------------
\* Two credentials that were moved have places of one order, never the same
\* place from two requests (reorder's single transaction); the exception is one
\* connected while an order checked before it was still being written.
OrderIsOneRequests ==
    ~late => \A i, j \in Rows : /\ creds[i].moved /\ creds[j].moved
                               /\ creds[i].sort = creds[j].sort => i = j

\* A name is connected once: no write of a finished test, or of an order, brings
\* a deleted credential back beside the one that took its name.
NamesUnique ==
    \A i, j \in Rows : creds[i].name = creds[j].name => i = j

\* The last save of each settings column is what is stored, whatever saves of
\* the other column overlap it.
SettingsKept == settings = saved

ProvidersSafe == OrderIsOneRequests /\ NamesUnique /\ SettingsKept

\* What the schema says of a new row (core/db.py: it takes its place from the
\* create-time position): a credential just connected comes last.
NewProviderLast ==
    [][\A n \in Names : ConnectProvider(n) =>
          OrderOf(creds') = Append(Order, Len(creds'))]_providerVars
=============================================================================
