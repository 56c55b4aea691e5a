--------------------------- MODULE FailoverRouter ---------------------------
(***************************************************************************)
(* core/router.py and core/provider_health.py: one chat request walks its  *)
(* user's credentials until one answers, while other requests do the same  *)
(* and share the health of the credentials with it.                        *)
(*                                                                         *)
(*   core/router.py          _iter_attempts and the two transports         *)
(*   core/selection.py, core/user_settings_store.py   the plan of a request*)
(*   endpoints/byok.py       byok_attempt_source, the credential and       *)
(*                           routing endpoints                             *)
(*                                                                         *)
(* A step is what happens between two awaits.  A plan is the sequence      *)
(* attempt_order returns; models, tiers and aliases only rearrange it and  *)
(* are left out, so which rearrangement a model hint causes is left open.  *)
(* Payloads are abstract.  Time is not measured: a cooldown may run out at *)
(* any moment, and its length and the failure count that sets it are left  *)
(* out.                                                                    *)
(***************************************************************************)
EXTENDS Naturals, Sequences, FiniteSets, Functions

CONSTANTS
    Users,
    Creds,        \* credential rows; an id is never used twice
    Holder,       \* Holder[c]: user_id of the row
    Requests,     \* chat requests
    Chains,       \* chain settings users may save
    MaxSteps,     \* bound: the longest plan
    MaxChanges    \* bound: dashboard operations

ASSUME RouterAssumption ==
    /\ Holder \in [Creds -> Users]
    /\ IsFiniteSet(Creds)
    /\ MaxSteps \in Nat
    /\ MaxChanges \in Nat
    /\ \A u \in Users : Cardinality({c \in Creds : Holder[c] = u}) <= MaxSteps
    /\ Chains \subseteq Seq(Creds)
    /\ \A s \in Chains : Len(s) <= MaxSteps

Steps == 1 .. MaxSteps

VARIABLES
    row,        \* a credential: "absent", "connected" or "deleted"
    setting,    \* user_settings.routing of each user
    changes,    \* dashboard operations so far
    cooling,    \* credentials whose cooldown_until lies ahead
    disabled,   \* HealthTracker.disabled
    pc,         \* where a request is
    user,       \* its principal
    pool,       \* the credentials it read
    want,       \* the routing setting it read
    plan,       \* its candidates
    override,   \* "model_override": the client's model goes to every candidate
    pos,        \* the candidate in hand
    fate,       \* what became of each candidate
    attempts,   \* attempt_index
    hooked,     \* checkpoint_fired
    rows        \* rows handed to run_recorder, oldest first

health  == <<cooling, disabled>>
account == <<row, setting, changes>>
given   == <<user, pool, want, plan, override>>
walk    == <<pos, fate, attempts>>
vars    == <<health, account, given, walk, pc, hooked, rows>>

Setting == [mode : {"auto", "pinned", "chain"}, steps : Seq(Creds)]
AutoRouting == [mode |-> "auto", steps |-> <<>>]

\* "pooled": between the read of the rows and that of the settings.
Walking == {"ready", "resolving", "keyed", "sent", "recording", "hook"}
Ended   == {"served", "broken", "refused", "exhausted", "nomodel", "nocreds",
            "cancelled"}
InPlan  == {"resolving", "keyed", "sent", "recording", "hook", "streaming"}
Control == {"idle", "pooled", "streaming"} \cup Walking \cup Ended

\* Ways a candidate is passed over, and verdicts of an attempt.
Passed  == {"skipped", "nokey"}
Failed  == {"failed", "denied", "unserved"}
Verdict == Failed \cup {"refused", "ok"}

RunRow == [index : Nat, outcome : {"failover", "disabled", "error", "ok"}]

TypeOK ==
    /\ row \in [Creds -> {"absent", "connected", "deleted"}]
    /\ setting \in [Users -> Setting]
    /\ changes \in 0 .. MaxChanges
    /\ cooling \subseteq Creds
    /\ disabled \subseteq Creds
    /\ pc \in [Requests -> Control]
    /\ user \in [Requests -> Users]
    /\ pool \in [Requests -> SUBSET Creds]
    /\ want \in [Requests -> Setting]
    /\ plan \in [Requests -> Seq(Creds)]
    /\ override \in [Requests -> BOOLEAN]
    /\ pos \in [Requests -> 0 .. MaxSteps + 1]
    /\ fate \in [Requests -> [Steps -> {"open", "sent"} \cup Passed \cup Verdict]]
    /\ attempts \in [Requests -> Nat]
    /\ hooked \in [Requests -> BOOLEAN]
    /\ rows \in [Requests -> Seq(RunRow)]
    /\ \A r \in Requests : pc[r] \in InPlan => pos[r] \in 1 .. Len(plan[r])

Init ==
    /\ row \in [Creds -> {"absent", "connected"}]
    /\ setting = [u \in Users |-> AutoRouting]
    /\ changes = 0
    /\ cooling = {}
    /\ disabled = {}
    /\ pc = [r \in Requests |-> "idle"]
    /\ user \in [Requests -> Users]
    /\ pool = [r \in Requests |-> {}]
    /\ want = [r \in Requests |-> AutoRouting]
    /\ plan = [r \in Requests |-> <<>>]
    /\ override = [r \in Requests |-> FALSE]
    /\ pos = [r \in Requests |-> 0]
    /\ fate = [r \in Requests |-> [i \in Steps |-> "open"]]
    /\ attempts = [r \in Requests |-> 0]
    /\ hooked = [r \in Requests |-> FALSE]
    /\ rows = [r \in Requests |-> <<>>]

Connected(u) == {c \in Creds : Holder[c] = u /\ row[c] = "connected"}

-----------------------------------------------------------------------------
(* The dashboard *)

Change ==
    /\ changes < MaxChanges
    /\ changes' = changes + 1
    /\ UNCHANGED <<health, given, walk, pc, hooked, rows>>

\* POST /providers/mine.
Connect(c) ==
    /\ row[c] = "absent"
    /\ row' = [row EXCEPT ![c] = "connected"]
    /\ Change /\ UNCHANGED setting

\* DELETE /providers/mine/{id}: settings that name it stay as they are.
Delete(c) ==
    /\ row[c] = "connected"
    /\ row' = [row EXCEPT ![c] = "deleted"]
    /\ Change /\ UNCHANGED setting

\* POST /routing/mine accepts the credentials the user had when it read them;
\* one of them may be deleted before the setting is written.
SaveRouting(u, st) ==
    /\ \A i \in DOMAIN st.steps : /\ Holder[st.steps[i]] = u
                                   /\ row[st.steps[i]] # "absent"
    /\ setting' = [setting EXCEPT ![u] = st]
    /\ Change /\ UNCHANGED row

Savable == {AutoRouting} \cup {[mode |-> "pinned", steps |-> <<c>>] : c \in Creds}
                  \cup {[mode |-> "chain", steps |-> s] : s \in Chains}
-----------------------------------------------------------------------------
(* The plan of a request *)

\* Variant: steps whose credential is gone stay in.
KeptDrifted(st, S) == DOMAIN st.steps

\* The steps of a chain whose credential is still there.
Kept(st, S) == {i \in DOMAIN st.steps : st.steps[i] \in S}

\* chain_with_model_hint: of the kept steps K those that name the model
\* asked for (M) come first; either group keeps its order.
Floated(s, K) ==
    LET Before(M, i, j) == IF (i \in M) = (j \in M) THEN i < j ELSE i \in M
        Orders == {f \in Bijection(1 .. Cardinality(K), K) :
                     \E M \in SUBSET K : \A i, j \in DOMAIN f :
                        i < j => Before(M, f[i], f[j])}
    IN {[i \in DOMAIN f |-> s[f[i]]] : f \in Orders}

\* routing_config_from_user: a setting that no longer fits its user's rows
\* counts as auto.
Mode(st, S) ==
    CASE st.mode = "pinned" /\ st.steps[1] \in S    -> "pinned"
      [] st.mode = "chain" /\ Kept(st, S) # {}    -> "chain"
      [] OTHER                                      -> "auto"

\* attempt_order.  Users put their credentials in any order.
Plans(st, S) ==
    CASE Mode(st, S) = "pinned" -> {st.steps}
      [] Mode(st, S) = "chain"  -> Floated(st.steps, Kept(st, S))
      [] OTHER                  -> Bijection(1 .. Cardinality(S), S)

\* A request arrives; byok_attempt_source reads its user's rows ...
ReadRows(r) ==
    /\ pc[r] = "idle"
    /\ pool' = [pool EXCEPT ![r] = Connected(user[r])]
    /\ pc' = [pc EXCEPT ![r] = "pooled"]
    /\ UNCHANGED <<health, account, user, want, plan, override, walk, hooked, rows>>

\* ... and then the settings.  prepare_chat turns a user without credentials
\* away.
ReadRouting(r) ==
    /\ pc[r] = "pooled"
    /\ want' = [want EXCEPT ![r] = setting[user[r]]]
    /\ \E p \in Plans(setting[user[r]], pool[r]) : plan' = [plan EXCEPT ![r] = p]
    /\ \E hint \in BOOLEAN :
         override' = [override EXCEPT
                        ![r] = hint /\ Mode(setting[user[r]], pool[r]) = "auto"]
    /\ pc' = [pc EXCEPT ![r] = IF pool[r] = {} THEN "nocreds" ELSE "ready"]
    /\ UNCHANGED <<health, account, user, pool, walk, hooked, rows>>

-----------------------------------------------------------------------------
(* ProviderHealth *)

\* Variant: health is kept under the provider's name, and every
\* user calls a credential the same.
HealthKeyByName(c) == CHOOSE d \in Creds : TRUE

\* _health_key: credentials never share an entry.
HealthKey(c) == c

Available(c) == HealthKey(c) \notin disabled \cup cooling

RecordFailure(c) ==
    /\ cooling' = cooling \cup {HealthKey(c)}
    /\ UNCHANGED disabled

RecordSuccess(c) ==
    /\ cooling' = cooling \ {HealthKey(c)}
    /\ UNCHANGED disabled

Disable(c) ==
    /\ disabled' = disabled \cup {HealthKey(c)}
    /\ cooling' = cooling \ {HealthKey(c)}

\* The clock passes cooldown_until.
CoolDown(c) ==
    /\ c \in cooling
    /\ cooling' = cooling \ {c}
    /\ UNCHANGED <<disabled, account, given, walk, pc, hooked, rows>>

-----------------------------------------------------------------------------
(* The attempt loop *)

Here(r) == plan[r][pos[r]]

\* Variant: a candidate that is not available ends the walk.
AdvanceStopping(r, f) ==
    LET i == pos[r] + 1
        go == i <= Len(plan[r]) /\ Available(plan[r][i])
    IN /\ pos' = [pos EXCEPT ![r] = i]
       /\ fate' = [fate EXCEPT ![r] = f]
       /\ pc' = [pc EXCEPT ![r] = IF go THEN "resolving" ELSE "exhausted"]

\* Variant: the end of the plan is missed by one.
AdvanceOverrunning(r, f) ==
    /\ pos' = [pos EXCEPT ![r] = @ + 1]
    /\ fate' = [fate EXCEPT ![r] = f]
    /\ pc' = [pc EXCEPT ![r] = IF pos[r] <= Len(plan[r]) THEN "resolving" ELSE "exhausted"]

\* The head of the for loop: pass over the candidates that is_available
\* rejects, then take the next one or raise.  f is the fate so far.
Advance(r, f) ==
    \E i \in pos[r] + 1 .. Len(plan[r]) + 1 :
        /\ \A j \in pos[r] + 1 .. i - 1 : ~Available(plan[r][j])
        /\ i <= Len(plan[r]) => Available(plan[r][i])
        /\ pos' = [pos EXCEPT ![r] = i]
        /\ fate' = [fate EXCEPT ![r] =
             [j \in Steps |-> IF j \in pos[r] + 1 .. i - 1
                              THEN "skipped" ELSE f[j]]]
        /\ pc' = [pc EXCEPT ![r] =
             IF i <= Len(plan[r]) THEN "resolving"
             ELSE IF \E j \in Steps : f[j] = "unserved" THEN "nomodel"
             ELSE "exhausted"]

Decided(r, v) == [fate[r] EXCEPT ![pos[r]] = v]

\* The rest of prepare_chat is done and the loop begins.
Route(r) ==
    /\ pc[r] = "ready"
    /\ Advance(r, fate[r])
    /\ UNCHANGED <<health, account, given, attempts, hooked, rows>>

\* Variant: a key that cannot be used counts as a failure.
NoKeyCooling(r) ==
    /\ \/ pc[r] = "resolving" /\ row[Here(r)] # "connected"
       \/ pc[r] = "keyed"
    /\ RecordFailure(Here(r))
    /\ Advance(r, Decided(r, "nokey"))
    /\ UNCHANGED <<account, given, attempts, hooked, rows>>

\* resolve_key finds the row ...
FindKey(r) ==
    /\ pc[r] = "resolving"
    /\ row[Here(r)] = "connected"
    /\ pc' = [pc EXCEPT ![r] = "keyed"]
    /\ UNCHANGED <<health, account, given, walk, hooked, rows>>

\* ... or it is gone, or its URL is not safe any more, or the key cannot be
\* decrypted.
NoKey(r) ==
    /\ \/ pc[r] = "resolving" /\ row[Here(r)] # "connected"
       \/ pc[r] = "keyed"
    /\ Advance(r, Decided(r, "nokey"))
    /\ UNCHANGED <<health, account, given, attempts, hooked, rows>>

Send(r) ==
    /\ pc[r] = "keyed"
    /\ attempts' = [attempts EXCEPT ![r] = @ + 1]
    /\ fate' = [fate EXCEPT ![r] = Decided(r, "sent")]
    /\ pc' = [pc EXCEPT ![r] = "sent"]
    /\ UNCHANGED <<health, account, given, pos, hooked, rows>>

Decide(r, v) ==
    /\ pc[r] = "sent"
    /\ fate' = [fate EXCEPT ![r] = Decided(r, v)]
    /\ pc' = [pc EXCEPT ![r] = "recording"]
    /\ UNCHANGED <<account, given, pos, attempts, hooked, rows>>

\* A failover status, a network error or a 200 without a completion.
UpstreamFails(r)  == Decide(r, "failed") /\ RecordFailure(Here(r))

\* Variant: the 401 branch records no run.
UpstreamDeniesUnrecorded(r) ==
    /\ pc[r] = "sent"
    /\ Disable(Here(r))
    /\ Advance(r, Decided(r, "denied"))
    /\ UNCHANGED <<account, given, attempts, hooked, rows>>

\* 401 or 403.
UpstreamDenies(r) == Decide(r, "denied") /\ Disable(Here(r))

\* Variant: the attempt does not count and is made again.
LacksModelRetrying(r) ==
    /\ pc[r] = "sent"
    /\ override[r]
    /\ attempts' = [attempts EXCEPT ![r] = @ - 1]
    /\ pc' = [pc EXCEPT ![r] = "resolving"]
    /\ UNCHANGED <<health, account, given, pos, fate, hooked, rows>>

\* A 400 that says the overriding model is not served here.
LacksModel(r) == override[r] /\ Decide(r, "unserved") /\ UNCHANGED health

\* Any other client error.
UpstreamRefuses(r) == Decide(r, "refused") /\ UNCHANGED health

\* A completion, or a stream's first chunk.
UpstreamAnswers(r) == Decide(r, "ok") /\ RecordSuccess(Here(r))

RunOutcome(v) ==
    CASE v = "denied"               -> "disabled"
      [] v = "refused"              -> "error"
      [] v = "ok"                   -> "ok"
      [] v \in {"failed", "unserved"} -> "failover"

\* _record_run returned: fail over, by way of the checkpoint hook if the
\* request is in a session and this is its first failover, or end.
RunRecorded(r) ==
    LET v == fate[r][pos[r]] IN
    /\ pc[r] = "recording"
    /\ rows' = [rows EXCEPT ![r] =
         Append(@, [index |-> attempts[r], outcome |-> RunOutcome(v)])]
    /\ \/ v \in Failed /\ Advance(r, fate[r]) /\ UNCHANGED hooked
       \/ /\ v \in Failed /\ ~hooked[r]
          /\ hooked' = [hooked EXCEPT ![r] = TRUE]
          /\ pc' = [pc EXCEPT ![r] = "hook"]
          /\ UNCHANGED <<pos, fate>>
       \/ /\ v = "refused"
          /\ pc' = [pc EXCEPT ![r] = "refused"]
          /\ UNCHANGED <<pos, fate, hooked>>
       \/ /\ v = "ok"
          /\ \E how \in {"served", "streaming"} : pc' = [pc EXCEPT ![r] = how]
          /\ UNCHANGED <<pos, fate, hooked>>
    /\ UNCHANGED <<health, account, given, attempts>>

\* Variant: the walk starts over.
HookDoneRestarting(r) ==
    /\ pc[r] = "hook"
    /\ \E i \in 1 .. Len(plan[r]) :
         /\ Available(plan[r][i])
         /\ \A j \in 1 .. i - 1 : ~Available(plan[r][j])
         /\ pos' = [pos EXCEPT ![r] = i]
    /\ pc' = [pc EXCEPT ![r] = "resolving"]
    /\ UNCHANGED <<health, account, given, fate, attempts, hooked, rows>>

\* The reactive checkpoint is taken or has failed; the walk goes on.
HookDone(r) ==
    /\ pc[r] = "hook"
    /\ Advance(r, fate[r])
    /\ UNCHANGED <<health, account, given, attempts, hooked, rows>>

StreamEnds(r) ==
    /\ pc[r] = "streaming"
    /\ pc' = [pc EXCEPT ![r] = "served"]
    /\ UNCHANGED <<health, account, given, walk, hooked, rows>>

\* Variant: the next candidate continues the stream.
StreamBreaksFailingOver(r) ==
    /\ pc[r] = "streaming"
    /\ RecordFailure(Here(r))
    /\ Advance(r, Decided(r, "failed"))
    /\ UNCHANGED <<account, given, attempts, hooked, rows>>

\* An error after the first chunk propagates to the client.
StreamBreaks(r) ==
    /\ pc[r] = "streaming"
    /\ pc' = [pc EXCEPT ![r] = "broken"]
    /\ UNCHANGED <<health, account, given, walk, hooked, rows>>

\* The client goes away and the request is cancelled at an await.
Cancel(r) ==
    /\ pc[r] \notin {"idle"} \cup Ended
    /\ pc' = [pc EXCEPT ![r] = IF @ = "streaming" THEN "broken" ELSE "cancelled"]
    /\ UNCHANGED <<health, account, given, walk, hooked, rows>>

-----------------------------------------------------------------------------

Upstream(r) ==
    UpstreamFails(r) \/ UpstreamDenies(r) \/ LacksModel(r) \/ UpstreamRefuses(r)
    \/ UpstreamAnswers(r)

Resolved(r) == FindKey(r) \/ NoKey(r) \/ Send(r)

Next ==
    \/ \E c \in Creds : Connect(c) \/ Delete(c) \/ CoolDown(c)
    \/ \E u \in Users, st \in Savable : SaveRouting(u, st)
    \/ \E r \in Requests :
         \/ ReadRows(r) \/ ReadRouting(r) \/ Route(r)
         \/ Resolved(r) \/ Upstream(r) \/ RunRecorded(r) \/ HookDone(r)
         \/ StreamEnds(r) \/ StreamBreaks(r) \/ Cancel(r)

Spec == Init /\ [][Next]_vars

\* Database calls return, and httpx's timeouts bound an attempt.  A stream,
\* once open, may last as long as its provider talks.
Fairness ==
    \A r \in Requests :
        /\ WF_vars(ReadRouting(r)) /\ WF_vars(Route(r)) /\ WF_vars(Resolved(r))
        /\ WF_vars(Upstream(r)) /\ WF_vars(RunRecorded(r)) /\ WF_vars(HookDone(r))

FairSpec == Spec /\ Fairness
-----------------------------------------------------------------------------
(* Correctness *)

Tried(r, i) == fate[r][i] \in Verdict \cup {"sent"}

\* "Every terminal outcome records a run row": the rows of a request are
\* numbered without gaps, one per attempt but for the one in progress or cut
\* off, and nothing follows a row that ends the request.
RunsRecorded ==
    \A r \in Requests :
        LET n == Len(rows[r]) IN
        /\ \A k \in 1 .. n : /\ rows[r][k].index = k
                             /\ rows[r][k].outcome \in {"ok", "error"} => k = n
        /\ n \in {attempts[r], attempts[r] - 1}
        /\ pc[r] \notin {"sent", "recording", "cancelled"} => n = attempts[r]

\* A request ends as its candidates' fates say: a 503 only when each of them
\* was unavailable, unusable or failed, the provider's own error when one
\* refused, and an answer when one gave it.
EndsAsDecided ==
    \A r \in Requests :
        LET f == {fate[r][i] : i \in DOMAIN plan[r]} IN
        /\ pc[r] = "exhausted" => f \subseteq Passed \cup {"failed", "denied"}
        /\ pc[r] = "nomodel"   => f \subseteq Passed \cup Failed /\ "unserved" \in f
        /\ pc[r] = "refused"   => "refused" \in f /\ "ok" \notin f
        /\ pc[r] \in {"streaming", "served", "broken"}
                               => "ok" \in f /\ "refused" \notin f

\* "never share cooldown state (and can never poison each other's)": what is
\* held against a credential goes back to an attempt with that credential,
\* by its own holder.
HealthIsEarned ==
    \A c \in Creds :
        LET Saw(v) == \E r \in Requests : /\ user[r] = Holder[c]
                                          /\ \E i \in DOMAIN plan[r] :
                                               plan[r][i] = c /\ fate[r][i] = v
        IN /\ c \in cooling => Saw("failed")
           /\ c \in disabled => Saw("denied")

\* "built entirely from this user's" rows: a request goes only to
\* credentials its own user had connected when it came, whatever the stored
\* settings name and however the dashboard is used meanwhile.
OwnCredentials ==
    \A r \in Requests : \A i \in DOMAIN plan[r] :
        Tried(r, i) => Holder[plan[r][i]] = user[r] /\ plan[r][i] \in pool[r]

\* A request gets an answer, the head of a stream or an error.
RequestsEnd ==
    \A r \in Requests : pc[r] # "idle" ~> pc[r] \in Ended \cup {"streaming"}

OutcomeOf == [r \in Requests |->
    CASE pc[r] \in {"served", "streaming"}               -> "served"
      [] pc[r] \in {"exhausted", "nomodel", "nocreds"}   -> "failed"
      [] pc[r] \in {"broken", "refused", "cancelled"}    -> pc[r]
      [] OTHER                                           -> "open"]

TriedBy == [r \in Requests |-> {i \in Steps : Tried(r, i)}]

Server == [r \in Requests |->
    IF pc[r] \in {"streaming", "served", "broken"} THEN pos[r] ELSE 0]

Abstract == INSTANCE Completion
              WITH outcome <- OutcomeOf, tried <- TriedBy, server <- Server

\* A request is served by one provider: no step is tried twice, none after
\* the first chunk of a stream or after an error went out.
OneProvider == Abstract!Spec

-----------------------------------------------------------------------------
(* What the documentation says and the code does not keep *)

\* docs/CONFIGURATION.md: pinned "attempts exactly one credential/model and
\* surfaces failures verbatim (no silent substitution)".
PinnedAttemptsOne ==
    \A r \in Requests : want[r].mode = "pinned" =>
        \A i \in DOMAIN plan[r] : Tried(r, i) => plan[r][i] = want[r].steps[1]

\* _iter_attempts: "If EVERY credential rejects the model that way, the last
\* provider's own error surfaces instead of the generic exhaustion message".
ModelErrorMeansAll ==
    \A r \in Requests : pc[r] = "nomodel" =>
        \A i \in DOMAIN plan[r] : fate[r][i] = "unserved"
=============================================================================
