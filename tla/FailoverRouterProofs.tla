------------------------ MODULE FailoverRouterProofs ------------------------
(***************************************************************************)
(* Proofs about FailoverRouter, for any users, credentials, requests and   *)
(* chains, and every bound on plans and dashboard operations.              *)
(***************************************************************************)
EXTENDS FailoverRouter, FiniteSetTheorems, TLAPS

Fate == {"open", "sent"} \cup Passed \cup Verdict

\* A stored setting fits the bound on plans.
SettingsFit ==
    \A u \in Users : /\ Len(setting[u].steps) <= MaxSteps
                     /\ setting[u].mode = "pinned" => Len(setting[u].steps) = 1

\* A request holds its user's credentials and plans with nothing else.
PlanAt(r) ==
    /\ \A c \in pool[r] : Holder[c] = user[r]
    /\ Len(plan[r]) <= MaxSteps
    /\ \A i \in DOMAIN plan[r] : plan[r][i] \in pool[r]

Before == {"idle", "pooled", "ready", "nocreds"}

\* The walk has failed to the left of the candidate in hand, has not been to
\* its right, and is where the fate of that candidate says.
WalkAt(r) ==
    /\ pos[r] <= Len(plan[r]) + 1
    /\ pc[r] \in Before => pos[r] = 0
    /\ pc[r] \in {"idle", "pooled"} => plan[r] = <<>>
    /\ \A i \in Steps : i > pos[r] => fate[r][i] = "open"
    /\ \A i \in Steps : i > Len(plan[r]) => fate[r][i] = "open"
    /\ \A i \in Steps : i < pos[r] => fate[r][i] \in Passed \cup Failed
    /\ pc[r] \in InPlan \cup {"served", "broken", "refused"}
         => pos[r] \in 1 .. Len(plan[r])
    /\ pc[r] \in {"resolving", "keyed"} => fate[r][pos[r]] = "open"
    /\ pc[r] = "sent" => fate[r][pos[r]] = "sent"
    /\ pc[r] = "recording" => fate[r][pos[r]] \in Verdict
    /\ pc[r] = "hook" => fate[r][pos[r]] \in Failed
    /\ pc[r] \in {"streaming", "served", "broken"} => fate[r][pos[r]] = "ok"
    /\ pc[r] = "refused" => fate[r][pos[r]] = "refused"
    /\ pc[r] \in {"exhausted", "nomodel"} => pos[r] = Len(plan[r]) + 1
    /\ pc[r] = "exhausted" => \A i \in Steps : fate[r][i] # "unserved"
    /\ pc[r] = "nomodel" => \E i \in Steps : fate[r][i] = "unserved"

\* The rows of a request follow its attempts.
RowsAt(r) ==
    LET n == Len(rows[r]) IN
    /\ \A k \in 1 .. n : /\ rows[r][k].index = k
                         /\ rows[r][k].outcome \in {"ok", "error"} =>
                              k = n /\ pc[r] \in {"streaming", "served", "broken", "refused"}
    /\ n \in {attempts[r], attempts[r] - 1}
    /\ pc[r] \in {"sent", "recording"} => n = attempts[r] - 1
    /\ pc[r] \notin {"sent", "recording", "cancelled"} => n = attempts[r]

PlanInv == \A r \in Requests : PlanAt(r)
WalkInv == \A r \in Requests : WalkAt(r)
RowsInv == \A r \in Requests : RowsAt(r)

IInv == TypeOK /\ SettingsFit /\ PlanInv /\ WalkInv /\ RowsInv /\ HealthIsEarned

-----------------------------------------------------------------------------
(* Plans *)

\* A user's credentials are finitely many and fit the bound on plans.
LEMMA HeldFit ==
    ASSUME NEW u \in Users, NEW S \in SUBSET Creds, \A c \in S : Holder[c] = u
    PROVE  IsFiniteSet(S) /\ Cardinality(S) \in Nat /\ Cardinality(S) <= MaxSteps
<1> DEFINE H == {c \in Creds : Holder[c] = u}
<1>1. IsFiniteSet(H) /\ S \subseteq H
  BY RouterAssumption, FS_Subset
<1>2. IsFiniteSet(S) /\ Cardinality(S) <= Cardinality(H)
  BY <1>1, FS_Subset
<1>3. Cardinality(H) <= MaxSteps /\ MaxSteps \in Nat
  BY RouterAssumption
<1>4. Cardinality(S) \in Nat /\ Cardinality(H) \in Nat
  BY <1>1, <1>2, FS_CardinalityType
<1>5. QED  BY <1>2, <1>3, <1>4

\* chain_with_model_hint returns kept steps only, and no more of them than
\* there were.
LEMMA FloatedFits ==
    ASSUME NEW s \in Seq(Creds), NEW K \in SUBSET DOMAIN s, NEW p \in Floated(s, K)
    PROVE  /\ p \in Seq(Creds)
           /\ Len(p) <= Len(s)
           /\ \A i \in DOMAIN p : \E k \in K : p[i] = s[k]
<1>1. IsFiniteSet(DOMAIN s) /\ Cardinality(DOMAIN s) = Len(s)
  <2>1. DOMAIN s = 1 .. Len(s) /\ Len(s) \in Nat  OBVIOUS
  <2>2. Len(s) = 0 \/ Cardinality(1 .. Len(s)) = Len(s)
    <3>1. Cardinality(1 .. Len(s)) = IF 1 > Len(s) THEN 0 ELSE Len(s) - 1 + 1
      BY <2>1, FS_Interval
    <3>2. QED  BY <2>1, <3>1
  <2>3. IsFiniteSet(1 .. Len(s))  BY <2>1, FS_Interval
  <2>4. Len(s) = 0 => DOMAIN s = {}  BY <2>1
  <2>5. QED  BY <2>1, <2>2, <2>3, <2>4, FS_EmptySet
<1>2. Cardinality(K) \in Nat /\ Cardinality(K) <= Len(s)
  BY <1>1, FS_Subset, FS_CardinalityType
<1>3. PICK f \in Bijection(1 .. Cardinality(K), K) :
         p = [i \in DOMAIN f |-> s[f[i]]]
  BY DEF Floated
<1>4. f \in [1 .. Cardinality(K) -> K]
  BY <1>3 DEF Bijection, Injection
<1>5. p = [i \in 1 .. Cardinality(K) |-> s[f[i]]]
  BY <1>3, <1>4
<1>6. \A i \in 1 .. Cardinality(K) : f[i] \in K /\ s[f[i]] \in Creds
  BY <1>4
<1>7. p \in [1 .. Cardinality(K) -> Creds]
  BY <1>5, <1>6
<1>8. p \in Seq(Creds) /\ Len(p) = Cardinality(K)
  BY <1>2, <1>7
<1>9. QED  BY <1>2, <1>5, <1>6, <1>8

\* Whatever the stored setting, the plan stays among the credentials read.
LEMMA PlansFit ==
    ASSUME NEW u \in Users, NEW S \in SUBSET Creds, \A c \in S : Holder[c] = u,
           NEW st \in Setting, Len(st.steps) <= MaxSteps,
           st.mode = "pinned" => Len(st.steps) = 1,
           NEW p \in Plans(st, S)
    PROVE  p \in Seq(Creds) /\ Len(p) <= MaxSteps /\ \A i \in DOMAIN p : p[i] \in S
<1>0. MaxSteps \in Nat /\ st.steps \in Seq(Creds) /\ Len(st.steps) \in Nat
  BY RouterAssumption DEF Setting
<1>1. CASE Mode(st, S) = "pinned"
  <2>1. st.mode = "pinned" /\ st.steps[1] \in S  BY <1>1 DEF Mode
  <2>2. p = st.steps  BY <1>1 DEF Plans
  <2>3. QED  BY <1>0, <2>1, <2>2
<1>2. CASE Mode(st, S) = "chain"
  <2>1. p \in Floated(st.steps, Kept(st, S))  BY <1>2 DEF Plans
  <2>2. Kept(st, S) \subseteq DOMAIN st.steps
        /\ \A k \in Kept(st, S) : st.steps[k] \in S
    BY DEF Kept
  <2>3. /\ p \in Seq(Creds) /\ Len(p) <= Len(st.steps)
        /\ \A i \in DOMAIN p : \E k \in Kept(st, S) : p[i] = st.steps[k]
    BY <1>0, <2>1, <2>2, FloatedFits
  <2>4. Len(p) \in Nat  BY <2>3
  <2>5. QED  BY <1>0, <2>2, <2>3, <2>4
<1>3. CASE Mode(st, S) \notin {"pinned", "chain"}
  <2>1. p \in Bijection(1 .. Cardinality(S), S)  BY <1>3 DEF Plans
  <2>2. p \in [1 .. Cardinality(S) -> S]  BY <2>1 DEF Bijection, Injection
  <2>3. Cardinality(S) \in Nat /\ Cardinality(S) <= MaxSteps  BY HeldFit
  <2>4. p \in Seq(Creds) /\ Len(p) = Cardinality(S)  BY <2>2, <2>3
  <2>5. QED  BY <2>2, <2>3, <2>4
<1>4. QED  BY <1>1, <1>2, <1>3

\* What POST /routing/mine stores fits the bound on plans.
LEMMA SavableFits ==
    ASSUME NEW st \in Savable
    PROVE  /\ st \in Setting /\ Len(st.steps) <= MaxSteps
           /\ st.mode = "pinned" => Len(st.steps) = 1
<1>0. MaxSteps \in Nat  BY RouterAssumption
<1>1. CASE st = AutoRouting
  BY <1>0, <1>1 DEF AutoRouting, Setting
<1>2. ASSUME NEW c \in Creds, st = [mode |-> "pinned", steps |-> <<c>>]
      PROVE  st \in Setting /\ Len(st.steps) = 1 /\ Len(st.steps) <= MaxSteps
  <2>1. Holder[c] \in Users  BY RouterAssumption
  <2>2. Cardinality({c}) <= MaxSteps  BY <2>1, HeldFit
  <2>3. Cardinality({c}) = 1  BY FS_Singleton
  <2>4. QED  BY <1>0, <1>2, <2>2, <2>3 DEF Setting
<1>3. ASSUME NEW s \in Chains, st = [mode |-> "chain", steps |-> s]
      PROVE  st \in Setting /\ Len(st.steps) <= MaxSteps /\ st.mode # "pinned"
  BY <1>3, RouterAssumption DEF Setting
<1>4. QED  BY <1>1, <1>2, <1>3 DEF Savable

\* routing_rows returns rows of its user.
LEMMA ConnectedFits ==
    ASSUME NEW u
    PROVE  Connected(u) \subseteq Creds /\ \A c \in Connected(u) : Holder[c] = u
BY DEF Connected

-----------------------------------------------------------------------------
(* The head of the loop *)

\* What advance is given: the walk has failed up to the candidate in hand.
Failing(r, f) ==
    /\ pos[r] <= Len(plan[r])
    /\ f \in [Steps -> Fate]
    /\ \A i \in Steps : /\ (i > pos[r] => f[i] = "open")
                         /\ (i <= pos[r] => f[i] \in Passed \cup Failed)

\* The head of the loop keeps the types, leaves other requests alone, decides
\* no fate but by skipping, and keeps the walk in order.
LEMMA AdvanceFacts ==
    ASSUME NEW r \in Requests, NEW f, TypeOK, PlanAt(r), Failing(r, f),
           Advance(r, f), plan'[r] = plan[r]
    PROVE  /\ pos' \in [Requests -> 0 .. MaxSteps + 1]
           /\ fate' \in [Requests -> [Steps -> Fate]]
           /\ pc' \in [Requests -> Control]
           /\ \A k \in Requests \ {r} :
                pos'[k] = pos[k] /\ fate'[k] = fate[k] /\ pc'[k] = pc[k]
           /\ pc'[r] \in {"resolving", "exhausted", "nomodel"}
           /\ \A j \in Steps : fate'[r][j] = f[j] \/ (f[j] = "open" /\ fate'[r][j] = "skipped")
           /\ WalkAt(r)'
<1> DEFINE n == Len(plan[r])
<1>0. /\ MaxSteps \in Nat /\ n \in Nat /\ n <= MaxSteps
      /\ pos[r] \in Nat /\ pos[r] <= n
      /\ pos \in [Requests -> 0 .. MaxSteps + 1] /\ pc \in [Requests -> Control]
      /\ fate \in [Requests -> [Steps -> Fate]]
  BY RouterAssumption DEF TypeOK, PlanAt, Failing, Fate
<1> DEFINE g(i) == [j \in Steps |-> IF j \in pos[r] + 1 .. i - 1 THEN "skipped" ELSE f[j]]
<1>1. PICK i \in pos[r] + 1 .. n + 1 :
        /\ pos' = [pos EXCEPT ![r] = i]
        /\ fate' = [fate EXCEPT ![r] = g(i)]
        /\ pc' = [pc EXCEPT ![r] =
             IF i <= n THEN "resolving"
             ELSE IF \E j \in Steps : f[j] = "unserved" THEN "nomodel" ELSE "exhausted"]
  BY DEF Advance
<1>2. i \in Nat /\ i > pos[r] /\ i <= n + 1 /\ i \in 0 .. MaxSteps + 1
  BY <1>0
<1>3. g(i) \in [Steps -> Fate]
  BY DEF Failing, Fate, Passed
<1>4. /\ pos' \in [Requests -> 0 .. MaxSteps + 1]
      /\ fate' \in [Requests -> [Steps -> Fate]]
      /\ pos'[r] = i /\ fate'[r] = g(i)
  BY <1>0, <1>1, <1>2, <1>3
<1>5. /\ pc' \in [Requests -> Control]
      /\ pc'[r] \in {"resolving", "exhausted", "nomodel"}
      /\ pc'[r] = "resolving" <=> i <= n
      /\ pc'[r] = "exhausted" => \A j \in Steps : f[j] # "unserved"
      /\ pc'[r] = "nomodel" => \E j \in Steps : f[j] = "unserved"
  BY <1>0, <1>1 DEF Control, Walking, Ended
<1>6. \A k \in Requests \ {r} :
         pos'[k] = pos[k] /\ fate'[k] = fate[k] /\ pc'[k] = pc[k]
  BY <1>0, <1>1
<1>7. \A j \in Steps : fate'[r][j] = f[j] \/ (f[j] = "open" /\ fate'[r][j] = "skipped")
  <2>1. ASSUME NEW j \in Steps, j \in pos[r] + 1 .. i - 1
        PROVE  f[j] = "open" /\ g(i)[j] = "skipped"
    BY <2>1, <1>0 DEF Failing, Steps
  <2>2. ASSUME NEW j \in Steps, j \notin pos[r] + 1 .. i - 1 PROVE g(i)[j] = f[j]
    BY <2>2
  <2>3. QED  BY <2>1, <2>2, <1>4
<1>8. \A j \in Steps : /\ (j > i => g(i)[j] = "open")
                       /\ (j < i => g(i)[j] \in Passed \cup Failed)
                       /\ (j = i => g(i)[j] = "open")
  BY <1>0, <1>2 DEF Failing, Steps, Passed
<1>80. \A j \in Steps : j > n => g(i)[j] = "open"
  BY <1>0, <1>2 DEF Failing, Steps
<1>9. i <= n => i \in Steps /\ i \in 1 .. n
  BY <1>0, <1>2 DEF Steps
<1>10. pc'[r] = "exhausted" => \A j \in Steps : fate'[r][j] # "unserved"
  BY <1>5, <1>7
<1>11. pc'[r] = "nomodel" => \E j \in Steps : fate'[r][j] = "unserved"
  BY <1>5, <1>7
<1>12. WalkAt(r)'
  BY <1>0, <1>2, <1>4, <1>5, <1>8, <1>80, <1>9, <1>10, <1>11
     DEF WalkAt, InPlan, Before
<1>13. QED  BY <1>4, <1>5, <1>6, <1>7, <1>12

\* Every action that advances is a failure of the candidate in hand, and
\* leaves the fates already decided alone.
Advancing(r) ==
    \E f : /\ Failing(r, f) /\ Advance(r, f)
          /\ \A j \in Steps : f[j] = fate[r][j] \/ (fate[r][j] = "open" /\ f[j] = "nokey")

\* Every step that comes back to the loop has decided the candidate in hand.
LEMMA WalksAdvance ==
    ASSUME NEW r \in Requests, TypeOK, PlanAt(r), WalkAt(r)
    PROVE  /\ Route(r) => Advancing(r)
           /\ NoKey(r) => Advancing(r)
           /\ HookDone(r) => Advancing(r)
           /\ pc[r] = "recording" /\ fate[r][pos[r]] \in Failed /\ Advance(r, fate[r])
                => Advancing(r)
<1>0. /\ MaxSteps \in Nat /\ Len(plan[r]) \in Nat /\ Len(plan[r]) <= MaxSteps
      /\ pos[r] \in Nat /\ fate[r] \in [Steps -> Fate]
  BY RouterAssumption DEF TypeOK, PlanAt, Fate
<1>1. ASSUME Route(r) PROVE Advancing(r)
  <2>1. pos[r] = 0  BY <1>1 DEF Route, WalkAt, Before
  <2>2. Failing(r, fate[r])  BY <1>0, <2>1 DEF Failing, WalkAt, Steps
  <2>3. QED  BY <1>1, <2>2 DEF Route, Advancing
<1>2. ASSUME NoKey(r) PROVE Advancing(r)
  <2> DEFINE f == Decided(r, "nokey")
  <2>1. /\ pos[r] \in 1 .. Len(plan[r]) /\ pos[r] \in Steps
        /\ fate[r][pos[r]] = "open"
    BY <1>0, <1>2 DEF NoKey, WalkAt, InPlan, Steps
  <2>2. f = [fate[r] EXCEPT ![pos[r]] = "nokey"]  BY DEF Decided
  <2>3. f \in [Steps -> Fate]  BY <1>0, <2>2 DEF Fate, Passed
  <2>4. f[pos[r]] = "nokey" /\ \A j \in Steps : j # pos[r] => f[j] = fate[r][j]
    BY <1>0, <2>1, <2>2
  <2>5. Failing(r, f)
    BY <1>0, <2>1, <2>3, <2>4 DEF Failing, WalkAt, Steps, Passed
  <2>6. \A j \in Steps : f[j] = fate[r][j] \/ (fate[r][j] = "open" /\ f[j] = "nokey")
    BY <2>1, <2>4
  <2>7. QED  BY <1>2, <2>5, <2>6 DEF NoKey, Advancing
<1>3. ASSUME pc[r] \in {"hook", "recording"}, fate[r][pos[r]] \in Failed, Advance(r, fate[r])
      PROVE  Advancing(r)
  <2>1. pos[r] \in 1 .. Len(plan[r])  BY <1>3 DEF WalkAt, InPlan
  <2>2. Failing(r, fate[r])  BY <1>0, <1>3, <2>1 DEF Failing, WalkAt, Steps
  <2>3. QED  BY <1>3, <2>2 DEF Advancing
<1>4. ASSUME HookDone(r) PROVE Advancing(r)
  BY <1>3, <1>4 DEF HookDone, WalkAt
<1>5. QED  BY <1>1, <1>2, <1>3, <1>4
-----------------------------------------------------------------------------
(* Steps *)

\* The dashboard, a cooldown that runs out and stuttering leave requests alone.
Quiet == UNCHANGED <<given, walk, pc, hooked, rows>>

Request(r) ==
    \/ ReadRows(r) \/ ReadRouting(r) \/ Route(r)
    \/ FindKey(r) \/ NoKey(r) \/ Send(r)
    \/ UpstreamFails(r) \/ UpstreamDenies(r) \/ LacksModel(r)
    \/ UpstreamRefuses(r) \/ UpstreamAnswers(r)
    \/ RunRecorded(r) \/ HookDone(r)
    \/ StreamEnds(r) \/ StreamBreaks(r) \/ Cancel(r)

\* A step belongs to the dashboard, the clock or one request.
LEMMA StepKinds ==
    ASSUME [Next]_vars
    PROVE  \/ UNCHANGED vars
           \/ \E c \in Creds : Connect(c) \/ Delete(c) \/ CoolDown(c)
           \/ \E u \in Users, st \in Savable : SaveRouting(u, st)
           \/ \E r \in Requests : Request(r)
BY DEF Next, Request, Upstream, Resolved

\* An attempt's answer decides the candidate that was sent to, and nothing
\* else.
LEMMA AnswerTypes ==
    ASSUME NEW r \in Requests, NEW v \in Verdict, TypeOK, WalkAt(r), Decide(r, v)
    PROVE  /\ fate' \in [Requests -> [Steps -> Fate]]
           /\ pc' \in [Requests -> Control]
           /\ pc[r] = "sent" /\ pc'[r] = "recording"
           /\ pos[r] \in 1 .. Len(plan[r])
           /\ fate[r][pos[r]] = "sent"
           /\ fate'[r] = [fate[r] EXCEPT ![pos[r]] = v]
           /\ \A k \in Requests \ {r} : fate'[k] = fate[k] /\ pc'[k] = pc[k]
           /\ UNCHANGED <<account, given, pos, attempts, hooked, rows>>
<1>1. fate \in [Requests -> [Steps -> Fate]] /\ pc \in [Requests -> Control]
  BY DEF TypeOK, Fate
<1>2. v \in Fate /\ "recording" \in Control
  BY DEF Fate, Control, Walking
<1>3. pc[r] = "sent" /\ pos[r] \in 1 .. Len(plan[r]) /\ fate[r][pos[r]] = "sent"
  BY DEF Decide, WalkAt, InPlan
<1>4. QED  BY <1>1, <1>2, <1>3 DEF Decide, Decided

\* Each kind of answer is a verdict.
LEMMA AnswersDecide ==
    ASSUME NEW r \in Requests
    PROVE  /\ UpstreamFails(r) => Decide(r, "failed")
           /\ UpstreamDenies(r) => Decide(r, "denied")
           /\ LacksModel(r) => Decide(r, "unserved")
           /\ UpstreamRefuses(r) => Decide(r, "refused")
           /\ UpstreamAnswers(r) => Decide(r, "ok")
           /\ {"failed", "denied", "unserved", "refused", "ok"} = Verdict
BY DEF UpstreamFails, UpstreamDenies, LacksModel, UpstreamRefuses, UpstreamAnswers,
       Verdict, Failed

Answers(r) == \E v \in Verdict : Decide(r, v)

\* A request on its way has a candidate of its plan in hand.
LEMMA HereIsPlanned ==
    ASSUME NEW r \in Requests, TypeOK, WalkAt(r), pc[r] \in InPlan
    PROVE  Here(r) \in Creds /\ pos[r] \in DOMAIN plan[r]
<1>1. plan[r] \in Seq(Creds) /\ pos[r] \in 1 .. Len(plan[r])
  BY DEF TypeOK, WalkAt
<1>2. QED  BY <1>1 DEF Here

-----------------------------------------------------------------------------
(* Settings and plans *)

\* Stored settings keep fitting the bound.
LEMMA SettingsStep ==
    ASSUME IInv, [Next]_vars
    PROVE  SettingsFit' /\ setting' \in [Users -> Setting]
<1>1. ASSUME NEW u \in Users, NEW st \in Savable, SaveRouting(u, st)
      PROVE  SettingsFit' /\ setting' \in [Users -> Setting]
  <2>1. /\ st \in Setting /\ Len(st.steps) <= MaxSteps
        /\ (st.mode = "pinned" => Len(st.steps) = 1)
    BY SavableFits
  <2>2. setting' = [setting EXCEPT ![u] = st] /\ setting \in [Users -> Setting]
    BY <1>1 DEF SaveRouting, IInv, TypeOK
  <2>3. QED  BY <2>1, <2>2 DEF SettingsFit, IInv
<1>2. ASSUME UNCHANGED setting
      PROVE  SettingsFit' /\ setting' \in [Users -> Setting]
  BY <1>2 DEF SettingsFit, IInv, TypeOK
<1>3. ASSUME NEW c \in Creds, Connect(c) \/ Delete(c) \/ CoolDown(c)
      PROVE  UNCHANGED setting
  BY <1>3 DEF Connect, Delete, CoolDown, account
<1>4. ASSUME NEW r \in Requests, Request(r) PROVE UNCHANGED setting
  BY <1>4, AnswersDecide
     DEF Request, ReadRows, ReadRouting, Route, FindKey, NoKey, Send, Decide,
         RunRecorded, HookDone, StreamEnds, StreamBreaks, Cancel, account
<1>5. CASE UNCHANGED vars  BY <1>2, <1>5 DEF vars, account
<1>6. QED  BY <1>1, <1>2, <1>3, <1>4, <1>5, StepKinds

\* Only the two reads change what a request was given.
LEMMA GivenStep ==
    ASSUME NEW r \in Requests, Request(r), ~ReadRows(r), ~ReadRouting(r)
    PROVE  UNCHANGED given
BY AnswersDecide
   DEF Request, Route, FindKey, NoKey, Send, Decide,
       RunRecorded, HookDone, StreamEnds, StreamBreaks, Cancel

\* Pools and plans stay with one holder.
LEMMA PlanStep ==
    ASSUME IInv, [Next]_vars
    PROVE  PlanInv' /\ plan' \in [Requests -> Seq(Creds)]
                    /\ pool' \in [Requests -> SUBSET Creds]
<1> USE DEF IInv
<1>1. CASE UNCHANGED <<user, pool, plan>>
  BY <1>1 DEF PlanInv, PlanAt, TypeOK
<1>2. ASSUME NEW r \in Requests, ReadRows(r)
      PROVE  PlanInv' /\ plan' \in [Requests -> Seq(Creds)]
                      /\ pool' \in [Requests -> SUBSET Creds]
  <2>1. /\ pool' = [pool EXCEPT ![r] = Connected(user[r])]
        /\ UNCHANGED <<user, plan>> /\ pc[r] = "idle"
    BY <1>2 DEF ReadRows
  <2>2. plan[r] = <<>>
    BY <2>1 DEF WalkInv, WalkAt
  <2>3. /\ Connected(user[r]) \subseteq Creds
        /\ \A c \in Connected(user[r]) : Holder[c] = user[r]
    BY ConnectedFits
  <2>4. QED  BY <2>1, <2>2, <2>3 DEF PlanInv, PlanAt, TypeOK
<1>3. ASSUME NEW r \in Requests, ReadRouting(r)
      PROVE  PlanInv' /\ plan' \in [Requests -> Seq(Creds)]
                      /\ pool' \in [Requests -> SUBSET Creds]
  <2> DEFINE st == setting[user[r]]
  <2>1. PICK p \in Plans(st, pool[r]) : plan' = [plan EXCEPT ![r] = p]
    BY <1>3 DEF ReadRouting
  <2>2. UNCHANGED <<user, pool>>  BY <1>3 DEF ReadRouting
  <2>3. /\ user[r] \in Users /\ st \in Setting /\ Len(st.steps) <= MaxSteps
        /\ (st.mode = "pinned" => Len(st.steps) = 1)
        /\ pool[r] \subseteq Creds /\ \A c \in pool[r] : Holder[c] = user[r]
    BY DEF TypeOK, SettingsFit, PlanInv, PlanAt
  <2>4. p \in Seq(Creds) /\ Len(p) <= MaxSteps /\ \A i \in DOMAIN p : p[i] \in pool[r]
    BY <2>1, <2>3, PlansFit
  <2>5. QED  BY <2>1, <2>2, <2>4 DEF PlanInv, PlanAt, TypeOK
<1>4. ASSUME NEW r \in Requests, Request(r), ~ReadRows(r), ~ReadRouting(r)
      PROVE  UNCHANGED <<user, pool, plan>>
  BY <1>4, GivenStep DEF given
<1>5. ASSUME NEW c \in Creds, Connect(c) \/ Delete(c) \/ CoolDown(c)
      PROVE  UNCHANGED <<user, pool, plan>>
  BY <1>5 DEF Connect, Delete, CoolDown, Change, given
<1>6. ASSUME NEW u \in Users, NEW st \in Savable, SaveRouting(u, st)
      PROVE  UNCHANGED <<user, pool, plan>>
  BY <1>6 DEF SaveRouting, Change, given
<1>7. CASE UNCHANGED vars  BY <1>1, <1>7 DEF vars, given
<1>8. QED  BY <1>1, <1>2, <1>3, <1>4, <1>5, <1>6, <1>7, StepKinds
-----------------------------------------------------------------------------
(* The walk *)

WalkTypes ==
    /\ pos' \in [Requests -> 0 .. MaxSteps + 1]
    /\ fate' \in [Requests -> [Steps -> Fate]]
    /\ pc' \in [Requests -> Control]

\* A step of r leaves the walk of every other request where it is.
Alone(r) ==
    \A k \in Requests \ {r} :
        /\ pos'[k] = pos[k] /\ fate'[k] = fate[k] /\ pc'[k] = pc[k]
        /\ plan'[k] = plan[k] /\ user'[k] = user[k] /\ pool'[k] = pool[k]
        /\ attempts'[k] = attempts[k] /\ rows'[k] = rows[k]

\* A step of one request keeps its walk in order and leaves the others alone.
LEMMA RequestStep ==
    ASSUME IInv, NEW r \in Requests, Request(r)
    PROVE  WalkTypes /\ Alone(r) /\ WalkAt(r)'
<1>0. /\ TypeOK /\ PlanAt(r) /\ WalkAt(r)
      /\ MaxSteps \in Nat /\ Len(plan[r]) \in Nat /\ Len(plan[r]) <= MaxSteps
      /\ pos \in [Requests -> 0 .. MaxSteps + 1] /\ pos[r] \in Nat
      /\ fate \in [Requests -> [Steps -> Fate]]
      /\ pc \in [Requests -> Control]
      /\ pc[r] \in InPlan => pos[r] \in Steps /\ pos[r] \in 1 .. Len(plan[r])
  BY RouterAssumption
     DEF IInv, TypeOK, PlanInv, PlanAt, WalkInv, WalkAt, Fate, Steps
<1>1. CASE ReadRows(r)
  <2>1. /\ pc' = [pc EXCEPT ![r] = "pooled"] /\ pc[r] = "idle"
        /\ pool' = [pool EXCEPT ![r] = Connected(user[r])]
        /\ UNCHANGED <<pos, fate, plan, user, attempts, rows>>
    BY <1>1 DEF ReadRows, walk
  <2>2. "pooled" \in Control  BY DEF Control
  <2>3. Alone(r) /\ WalkTypes
    BY <1>0, <2>1, <2>2 DEF Alone, WalkTypes, TypeOK
  <2>4. WalkAt(r)'
    BY <1>0, <2>1 DEF WalkAt, InPlan, Before
  <2>5. QED  BY <2>3, <2>4
<1>2. CASE ReadRouting(r)
  <2>1. PICK p \in Plans(setting[user[r]], pool[r]) : plan' = [plan EXCEPT ![r] = p]
    BY <1>2 DEF ReadRouting
  <2>2. /\ pc[r] = "pooled" /\ pc'[r] \in {"ready", "nocreds"}
        /\ pc' \in [Requests -> Control]
        /\ \A k \in Requests \ {r} : pc'[k] = pc[k]
        /\ UNCHANGED <<pos, fate, pool, user, attempts, rows>>
    BY <1>0, <1>2 DEF ReadRouting, walk, Control, Walking, Ended
  <2>3. plan'[r] \in Seq(Creds)
    <3>1. [Next]_vars  BY <1>2 DEF Next
    <3>2. QED  BY <3>1, PlanStep
  <2>4. Alone(r) /\ WalkTypes
    BY <1>0, <2>1, <2>2 DEF Alone, WalkTypes, TypeOK
  <2>5. pos'[r] <= Len(plan'[r]) + 1
    BY <1>0, <2>2, <2>3 DEF WalkAt, Before
  <2>6. /\ pos[r] = 0 /\ pos'[r] = 0 /\ fate'[r] = fate[r]
        /\ \A i \in Steps : i > 0 /\ fate[r][i] = "open"
    <3>1. pos[r] = 0  BY <1>0, <2>2 DEF WalkAt, Before
    <3>2. \A i \in Steps : i > 0  BY <1>0 DEF Steps
    <3>3. QED  BY <1>0, <2>2, <3>1, <3>2 DEF WalkAt
  <2>7. WalkAt(r)'
    <3>1. \A i \in Steps : fate'[r][i] = "open" /\ ~(i < pos'[r])
      BY <2>6 DEF Steps
    <3>2. /\ pc'[r] \notin {"idle", "pooled", "exhausted", "nomodel", "served",
                            "broken", "refused"}
          /\ pc'[r] \notin InPlan
      BY <2>2 DEF InPlan
    <3>3. QED  BY <2>5, <2>6, <3>1, <3>2 DEF WalkAt, InPlan
  <2>8. QED  BY <2>4, <2>7
<1>3. CASE Advancing(r) /\ UNCHANGED <<plan, user, pool, attempts>>
           /\ \A k \in Requests \ {r} : rows'[k] = rows[k]
  <2>1. PICK f : Failing(r, f) /\ Advance(r, f)  BY <1>3 DEF Advancing
  <2>2. QED  BY <1>0, <1>3, <2>1, AdvanceFacts DEF WalkTypes, Alone
<1>4. CASE Route(r) \/ NoKey(r) \/ HookDone(r)
  <2>1. Advancing(r)  BY <1>0, <1>4, WalksAdvance
  <2>2. UNCHANGED <<plan, user, pool, attempts, rows>>
    BY <1>4 DEF Route, NoKey, HookDone, given
  <2>3. QED  BY <1>3, <2>1, <2>2
<1>5. CASE FindKey(r)
  <2>1. /\ pc' = [pc EXCEPT ![r] = "keyed"] /\ pc[r] = "resolving"
        /\ UNCHANGED <<pos, fate, plan, pool, user, attempts, rows>>
    BY <1>5 DEF FindKey, walk, given
  <2>2. "keyed" \in Control  BY DEF Control, Walking
  <2>3. Alone(r) /\ WalkTypes
    BY <1>0, <2>1, <2>2 DEF Alone, WalkTypes
  <2>4. WalkAt(r)'
    BY <1>0, <2>1 DEF WalkAt, InPlan, Before
  <2>5. QED  BY <2>3, <2>4
<1>6. CASE Send(r)
  <2>1. /\ pc' = [pc EXCEPT ![r] = "sent"] /\ pc[r] = "keyed"
        /\ fate' = [fate EXCEPT ![r] = [fate[r] EXCEPT ![pos[r]] = "sent"]]
        /\ attempts' = [attempts EXCEPT ![r] = @ + 1]
        /\ UNCHANGED <<pos, plan, pool, user, rows>>
    BY <1>6 DEF Send, Decided, given
  <2>2. "sent" \in Control /\ "sent" \in Fate  BY DEF Control, Walking, Fate
  <2>3. pos[r] \in Steps /\ pos[r] \in 1 .. Len(plan[r])
    BY <1>0, <2>1 DEF InPlan
  <2>4. Alone(r) /\ WalkTypes
    BY <1>0, <2>1, <2>2 DEF Alone, WalkTypes, TypeOK
  <2>5. /\ fate'[r][pos[r]] = "sent"
        /\ \A i \in Steps : i # pos[r] => fate'[r][i] = fate[r][i]
        /\ pc'[r] = "sent" /\ pos'[r] = pos[r] /\ plan'[r] = plan[r]
    BY <1>0, <2>1, <2>3
  <2>6. WalkAt(r)'
    <3>1. WalkAt(r) /\ \A i \in Steps : i \in Nat  BY <1>0 DEF Steps
    <3>2. \A i \in Steps : (i > pos'[r] => fate'[r][i] = "open")
                           /\ (i < pos'[r] => fate'[r][i] \in Passed \cup Failed)
      BY <1>0, <2>3, <2>5, <3>1 DEF WalkAt
    <3>3. QED  BY <2>3, <2>5, <3>1, <3>2 DEF WalkAt, InPlan, Before
  <2>7. QED  BY <2>4, <2>6
<1>7. CASE Answers(r)
  <2>1. PICK v \in Verdict : Decide(r, v)  BY <1>7 DEF Answers
  <2>2. /\ fate' \in [Requests -> [Steps -> Fate]]
        /\ pc' \in [Requests -> Control]
        /\ pc[r] = "sent" /\ pc'[r] = "recording"
        /\ fate'[r] = [fate[r] EXCEPT ![pos[r]] = v]
        /\ \A k \in Requests \ {r} : fate'[k] = fate[k] /\ pc'[k] = pc[k]
        /\ UNCHANGED <<pos, plan, pool, user, attempts, rows>>
    BY <1>0, <2>1, AnswerTypes DEF given
  <2>3. pos[r] \in Steps /\ pos[r] \in 1 .. Len(plan[r])
    BY <1>0, <2>2 DEF InPlan
  <2>4. Alone(r) /\ WalkTypes  BY <1>0, <2>2 DEF Alone, WalkTypes
  <2>5. /\ fate'[r][pos[r]] = v
        /\ \A i \in Steps : i # pos[r] => fate'[r][i] = fate[r][i]
        /\ pos'[r] = pos[r] /\ plan'[r] = plan[r]
    BY <1>0, <2>2, <2>3
  <2>6. WalkAt(r)'
    BY <1>0, <2>2, <2>3, <2>5 DEF WalkAt, InPlan, Before, Steps
  <2>7. QED  BY <2>4, <2>6
<1>8. CASE RunRecorded(r)
  <2> DEFINE v == fate[r][pos[r]]
  <2>1. /\ pc[r] = "recording"
        /\ \A k \in Requests \ {r} : rows'[k] = rows[k]
        /\ UNCHANGED <<plan, pool, user, attempts>>
    BY <1>8 DEF RunRecorded, given, IInv, TypeOK
  <2>2. CASE v \in Failed /\ Advance(r, fate[r])
    <3>1. Advancing(r)  BY <1>0, <2>1, <2>2, WalksAdvance
    <3>2. QED  BY <1>3, <2>1, <3>1
  <2>3. ASSUME NEW how \in {"hook", "refused", "served", "streaming"},
               pc' = [pc EXCEPT ![r] = how], UNCHANGED <<pos, fate>>,
               how = "hook" => v \in Failed,
               how = "refused" => v = "refused",
               how \in {"served", "streaming"} => v = "ok"
        PROVE  WalkTypes /\ Alone(r) /\ WalkAt(r)'
    <3>1. how \in Control  BY DEF Control, Walking, Ended
    <3>2. WalkTypes /\ Alone(r)  BY <1>0, <2>1, <2>3, <3>1 DEF WalkTypes, Alone
    <3>3. pc'[r] = how /\ pos[r] \in 1 .. Len(plan[r])
      BY <1>0, <2>1, <2>3 DEF InPlan
    <3>4. WalkAt(r)'
      BY <1>0, <2>1, <2>3, <3>3 DEF WalkAt, InPlan, Before
    <3>5. QED  BY <3>2, <3>4
  <2>4. \/ v \in Failed /\ Advance(r, fate[r])
        \/ \E how \in {"hook", "refused", "served", "streaming"} :
             /\ pc' = [pc EXCEPT ![r] = how] /\ UNCHANGED <<pos, fate>>
             /\ (how = "hook" => v \in Failed)
             /\ (how = "refused" => v = "refused")
             /\ (how \in {"served", "streaming"} => v = "ok")
    BY <1>8 DEF RunRecorded
  <2>5. QED  BY <2>2, <2>3, <2>4
<1>9. CASE StreamEnds(r) \/ StreamBreaks(r) \/ Cancel(r)
  <2>1. PICK how \in {"served", "broken", "cancelled"} :
          /\ pc' = [pc EXCEPT ![r] = how]
          /\ how # "cancelled" => pc[r] = "streaming"
          /\ pc[r] # "idle"
    BY <1>9 DEF StreamEnds, StreamBreaks, Cancel
  <2>2. UNCHANGED <<pos, fate, plan, pool, user, attempts, rows>>
    BY <1>9 DEF StreamEnds, StreamBreaks, Cancel, walk, given
  <2>3. how \in Control  BY DEF Control, Ended
  <2>4. Alone(r) /\ WalkTypes  BY <1>0, <2>1, <2>2, <2>3 DEF Alone, WalkTypes
  <2>5. pc'[r] = how  BY <1>0, <2>1
  <2>6. WalkAt(r)'
    BY <1>0, <2>1, <2>2, <2>5 DEF WalkAt, InPlan, Before
  <2>7. QED  BY <2>4, <2>6
<1>10. CASE \/ UpstreamFails(r) \/ UpstreamDenies(r) \/ LacksModel(r)
            \/ UpstreamRefuses(r) \/ UpstreamAnswers(r)
  BY <1>7, <1>10, AnswersDecide DEF Answers
<1>11. QED
  BY <1>1, <1>2, <1>4, <1>5, <1>6, <1>8, <1>9, <1>10 DEF Request

\* The dashboard and the clock leave every request as it is.
LEMMA QuietSteps ==
    /\ UNCHANGED vars => Quiet
    /\ \A c \in Creds : (Connect(c) \/ Delete(c) \/ CoolDown(c)) => Quiet
    /\ \A u \in Users, st \in Savable : SaveRouting(u, st) => Quiet
BY DEF Quiet, vars, Connect, Delete, CoolDown, SaveRouting, Change

\* Every walk stays in order.
LEMMA WalkStep ==
    ASSUME IInv, [Next]_vars
    PROVE  WalkInv' /\ WalkTypes
<1>1. CASE Quiet
  <2>1. UNCHANGED <<pos, fate, pc, plan>>  BY <1>1 DEF Quiet, walk, given
  <2>2. WalkTypes  BY <2>1 DEF IInv, TypeOK, WalkTypes, Fate
  <2>3. ASSUME NEW r \in Requests PROVE WalkAt(r)'
    <3>1. WalkAt(r)  BY DEF IInv, WalkInv
    <3>2. QED  BY <2>1, <3>1 DEF WalkAt
  <2>4. QED  BY <2>2, <2>3 DEF WalkInv
<1>2. ASSUME NEW r \in Requests, Request(r) PROVE WalkInv' /\ WalkTypes
  <2>1. WalkTypes /\ Alone(r) /\ WalkAt(r)'  BY <1>2, RequestStep
  <2>2. ASSUME NEW k \in Requests \ {r} PROVE WalkAt(k)'
    <3>1. WalkAt(k)  BY DEF IInv, WalkInv
    <3>2. /\ pos'[k] = pos[k] /\ fate'[k] = fate[k]
          /\ pc'[k] = pc[k] /\ plan'[k] = plan[k]
      BY <2>1 DEF Alone
    <3>3. QED  BY <3>1, <3>2 DEF WalkAt
  <2>3. QED  BY <2>1, <2>2 DEF WalkInv
<1>3. QED  BY <1>1, <1>2, StepKinds, QuietSteps

-----------------------------------------------------------------------------
(* The rows *)

\* A step of one request keeps its rows in step with its attempts.
LEMMA RowsRequestStep ==
    ASSUME IInv, NEW r \in Requests, Request(r)
    PROVE  /\ RowsAt(r)'
           /\ rows' \in [Requests -> Seq(RunRow)]
           /\ attempts' \in [Requests -> Nat]
<1>0. /\ RowsAt(r) /\ WalkAt(r) /\ pc \in [Requests -> Control]
      /\ rows \in [Requests -> Seq(RunRow)] /\ attempts \in [Requests -> Nat]
      /\ attempts[r] \in Nat /\ rows[r] \in Seq(RunRow) /\ Len(rows[r]) \in Nat
  BY DEF IInv, TypeOK, RowsInv, WalkInv
<1> DEFINE Final == {"streaming", "served", "broken", "refused"}
\* What moves the walk and records nothing.
<1>1. ASSUME UNCHANGED <<rows, attempts>>, pc[r] \notin {"sent", "recording"},
             pc[r] \in Final => pc'[r] \in Final,
             pc'[r] \notin {"sent", "recording"},
             pc[r] = "cancelled" => pc'[r] = "cancelled"
      PROVE  /\ RowsAt(r)'
             /\ rows' \in [Requests -> Seq(RunRow)]
             /\ attempts' \in [Requests -> Nat]
  BY <1>0, <1>1 DEF RowsAt
<1>2. CASE ReadRows(r) \/ ReadRouting(r) \/ FindKey(r)
  <2>1. /\ pc[r] \in {"idle", "pooled", "resolving"}
        /\ pc'[r] \in {"pooled", "ready", "nocreds", "keyed"}
        /\ UNCHANGED <<rows, attempts>>
    BY <1>0, <1>2 DEF ReadRows, ReadRouting, FindKey, walk
  <2>2. QED  BY <1>1, <2>1
<1>3. CASE Route(r) \/ NoKey(r) \/ HookDone(r)
  <2>1. /\ pc[r] \in {"ready", "resolving", "keyed", "hook"}
        /\ UNCHANGED <<rows, attempts, plan>> /\ Advancing(r)
    BY <1>0, <1>3, WalksAdvance
       DEF Route, NoKey, HookDone, given, IInv, PlanInv
  <2>2. PICK f : Failing(r, f) /\ Advance(r, f)  BY <2>1 DEF Advancing
  <2>3. pc'[r] \in {"resolving", "exhausted", "nomodel"}
    BY <2>1, <2>2, AdvanceFacts DEF IInv, PlanInv
  <2>4. QED  BY <1>1, <2>1, <2>3
<1>4. CASE Send(r)
  <2>1. /\ pc[r] = "keyed" /\ pc'[r] = "sent"
        /\ attempts' = [attempts EXCEPT ![r] = @ + 1] /\ UNCHANGED rows
    BY <1>0, <1>4 DEF Send
  <2>2. attempts'[r] = attempts[r] + 1 /\ attempts' \in [Requests -> Nat]
    BY <1>0, <2>1
  <2>3. Len(rows[r]) = attempts[r] /\ \A k \in 1 .. Len(rows[r]) :
           rows[r][k].index = k /\ rows[r][k].outcome \notin {"ok", "error"}
    BY <1>0, <2>1 DEF RowsAt
  <2>4. QED  BY <1>0, <2>1, <2>2, <2>3 DEF RowsAt
<1>5. CASE Answers(r)
  <2>1. /\ pc[r] = "sent" /\ pc'[r] = "recording" /\ UNCHANGED <<rows, attempts>>
    BY <1>5, AnswerTypes DEF Answers, IInv, WalkInv
  <2>2. QED  BY <1>0, <2>1 DEF RowsAt
<1>6. CASE RunRecorded(r)
  <2> DEFINE v == fate[r][pos[r]]
             new == [index |-> attempts[r], outcome |-> RunOutcome(v)]
  <2>1. /\ pc[r] = "recording" /\ UNCHANGED <<attempts, plan>>
        /\ rows' = [rows EXCEPT ![r] = Append(rows[r], new)]
    BY <1>6 DEF RunRecorded, given
  <2>2. v \in Verdict  BY <1>0, <2>1 DEF WalkAt
  <2>3. /\ RunOutcome(v) \in {"failover", "disabled", "error", "ok"}
        /\ RunOutcome(v) \in {"ok", "error"} => v \in {"ok", "refused"}
    BY <2>2 DEF RunOutcome, Verdict, Failed
  <2>4. pc'[r] \notin {"sent", "recording"}
        /\ (v \in {"ok", "refused"} => pc'[r] \in Final)
    <3>1. CASE v \in Failed /\ Advance(r, fate[r])
      <4>1. Advancing(r)
        BY <1>0, <2>1, <3>1, WalksAdvance DEF IInv, PlanInv
      <4>2. PICK f : Failing(r, f) /\ Advance(r, f)  BY <4>1 DEF Advancing
      <4>3. pc'[r] \in {"resolving", "exhausted", "nomodel"}
        BY <2>1, <4>2, AdvanceFacts DEF IInv, PlanInv
      <4>4. QED  BY <3>1, <4>3 DEF Failed
    <3>2. CASE ~(v \in Failed /\ Advance(r, fate[r]))
      BY <1>0, <1>6, <3>2 DEF RunRecorded, Failed
    <3>3. QED  BY <3>1, <3>2
  <2>5. new \in RunRow /\ new.index = attempts[r] /\ new.outcome = RunOutcome(v)
    BY <1>0, <2>3 DEF RunRow
  <2>6. /\ Len(rows[r]) = attempts[r] - 1
        /\ \A k \in 1 .. Len(rows[r]) :
             rows[r][k].index = k /\ rows[r][k].outcome \notin {"ok", "error"}
    BY <1>0, <2>1 DEF RowsAt
  <2>7. /\ rows'[r] = Append(rows[r], new) /\ rows' \in [Requests -> Seq(RunRow)]
        /\ Len(rows'[r]) = attempts[r]
    BY <1>0, <2>1, <2>5, <2>6
  <2>8. ASSUME NEW k \in 1 .. Len(rows'[r])
        PROVE  /\ rows'[r][k].index = k
               /\ rows'[r][k].outcome \in {"ok", "error"} =>
                    k = Len(rows'[r]) /\ pc'[r] \in Final
    <3>1. CASE k = Len(rows'[r])
      <4>1. rows'[r][k] = new  BY <1>0, <2>5, <2>6, <2>7, <3>1
      <4>2. QED  BY <2>3, <2>4, <2>5, <2>7, <3>1, <4>1
    <3>2. CASE k # Len(rows'[r])
      <4>1. k \in 1 .. Len(rows[r])  BY <1>0, <2>6, <2>7, <3>2
      <4>2. rows'[r][k] = rows[r][k]  BY <1>0, <2>5, <2>7, <4>1
      <4>3. QED  BY <2>6, <4>1, <4>2
    <3>3. QED  BY <3>1, <3>2
  <2>9. QED  BY <1>0, <2>1, <2>4, <2>7, <2>8 DEF RowsAt
<1>7. CASE StreamEnds(r) \/ StreamBreaks(r) \/ Cancel(r)
  <2>1. UNCHANGED <<rows, attempts>>
    BY <1>7 DEF StreamEnds, StreamBreaks, Cancel, walk
  <2>2. CASE pc'[r] = "cancelled"
    <3>1. pc[r] \notin Final
      BY <1>0, <1>7, <2>2 DEF StreamEnds, StreamBreaks, Cancel, Ended
    <3>2. QED  BY <1>0, <2>1, <2>2, <3>1 DEF RowsAt
  <2>3. CASE pc'[r] # "cancelled"
    <3>1. pc[r] = "streaming" /\ pc'[r] \in {"served", "broken"}
      BY <1>0, <1>7, <2>3 DEF StreamEnds, StreamBreaks, Cancel
    <3>2. QED  BY <1>1, <2>1, <3>1
  <2>4. QED  BY <2>2, <2>3
<1>8. CASE \/ UpstreamFails(r) \/ UpstreamDenies(r) \/ LacksModel(r)
           \/ UpstreamRefuses(r) \/ UpstreamAnswers(r)
  BY <1>5, <1>8, AnswersDecide DEF Answers
<1>9. QED  BY <1>2, <1>3, <1>4, <1>6, <1>7, <1>8 DEF Request

\* All rows stay in step with attempts.
LEMMA RowsStep ==
    ASSUME IInv, [Next]_vars
    PROVE  /\ RowsInv'
           /\ rows' \in [Requests -> Seq(RunRow)]
           /\ attempts' \in [Requests -> Nat]
<1>1. CASE Quiet
  <2>1. UNCHANGED <<rows, attempts, pc>>  BY <1>1 DEF Quiet, walk
  <2>2. QED  BY <2>1 DEF IInv, TypeOK, RowsInv, RowsAt
<1>2. ASSUME NEW r \in Requests, Request(r)
      PROVE  /\ RowsInv'
             /\ rows' \in [Requests -> Seq(RunRow)]
             /\ attempts' \in [Requests -> Nat]
  <2>1. Alone(r)  BY <1>2, RequestStep
  <2>2. ASSUME NEW k \in Requests \ {r} PROVE RowsAt(k)'
    <3>1. RowsAt(k)  BY DEF IInv, RowsInv
    <3>2. rows'[k] = rows[k] /\ attempts'[k] = attempts[k] /\ pc'[k] = pc[k]
      BY <2>1 DEF Alone
    <3>3. QED  BY <3>1, <3>2 DEF RowsAt
  <2>3. QED  BY <1>2, <2>2, RowsRequestStep DEF RowsInv
<1>3. QED  BY <1>1, <1>2, StepKinds, QuietSteps
-----------------------------------------------------------------------------
(* Health *)

Saw(c, v) ==
    \E r \in Requests : /\ user[r] = Holder[c]
                        /\ \E i \in DOMAIN plan[r] : plan[r][i] = c /\ fate[r][i] = v

\* HealthIsEarned, by credential.
LEMMA EarnedIsSeen ==
    /\ HealthIsEarned <=> /\ \A c \in cooling \cap Creds : Saw(c, "failed")
                          /\ \A c \in disabled \cap Creds : Saw(c, "denied")
    /\ HealthIsEarned' <=> /\ \A c \in cooling' \cap Creds : Saw(c, "failed")'
                           /\ \A c \in disabled' \cap Creds : Saw(c, "denied")'
BY DEF HealthIsEarned, Saw

\* What an attempt met is not forgotten.
LEMMA FatesStay ==
    ASSUME IInv, NEW r \in Requests, Request(r), NEW i \in DOMAIN plan[r],
           fate[r][i] \in {"failed", "denied"}
    PROVE  user'[r] = user[r] /\ plan'[r] = plan[r] /\ fate'[r][i] = fate[r][i]
<1>0. /\ TypeOK /\ PlanAt(r) /\ WalkAt(r) /\ i \in 1 .. Len(plan[r]) /\ i \in Steps
      /\ fate \in [Requests -> [Steps -> Fate]]
      /\ plan[r] \in Seq(Creds) /\ plan[r] # <<>>
      /\ pc[r] \notin {"idle", "pooled"}
  <2>1. TypeOK /\ PlanAt(r) /\ WalkAt(r) /\ plan[r] \in Seq(Creds) /\ MaxSteps \in Nat
    BY RouterAssumption DEF IInv, PlanInv, WalkInv, TypeOK
  <2>2. i \in 1 .. Len(plan[r]) /\ plan[r] # <<>> /\ Len(plan[r]) <= MaxSteps
    BY <2>1 DEF PlanAt
  <2>3. i \in Steps  BY <2>1, <2>2 DEF Steps
  <2>4. pc[r] \notin {"idle", "pooled"}  BY <2>1, <2>2 DEF WalkAt
  <2>5. QED  BY <2>1, <2>2, <2>3, <2>4 DEF TypeOK, Fate
<1>1. ~ReadRows(r) /\ ~ReadRouting(r)
  BY <1>0 DEF ReadRows, ReadRouting
<1>2. UNCHANGED <<user, plan>>
  BY <1>1, GivenStep DEF given
<1>3. CASE Advancing(r)
  <2>1. PICK f : /\ Failing(r, f) /\ Advance(r, f)
                 /\ \A j \in Steps : f[j] = fate[r][j]
                                     \/ (fate[r][j] = "open" /\ f[j] = "nokey")
    BY <1>3 DEF Advancing
  <2>2. \A j \in Steps : fate'[r][j] = f[j] \/ (f[j] = "open" /\ fate'[r][j] = "skipped")
    BY <1>0, <1>2, <2>1, AdvanceFacts
  <2>3. QED  BY <1>0, <1>2, <2>1, <2>2
<1>4. CASE Route(r) \/ NoKey(r) \/ HookDone(r)
  BY <1>0, <1>3, <1>4, WalksAdvance
<1>5. CASE FindKey(r) \/ StreamEnds(r) \/ StreamBreaks(r) \/ Cancel(r)
  BY <1>2, <1>5 DEF FindKey, StreamEnds, StreamBreaks, Cancel, walk
<1>6. CASE Send(r)
  <2>1. fate[r][pos[r]] = "open"  BY <1>0, <1>6 DEF Send, WalkAt
  <2>2. QED  BY <1>0, <1>2, <1>6, <2>1 DEF Send, Decided
<1>7. CASE Answers(r)
  <2>1. PICK v \in Verdict : Decide(r, v)  BY <1>7 DEF Answers
  <2>2. /\ fate[r][pos[r]] = "sent"
        /\ fate'[r] = [fate[r] EXCEPT ![pos[r]] = v]
    BY <1>0, <2>1, AnswerTypes
  <2>3. QED  BY <1>0, <1>2, <2>2
<1>8. CASE RunRecorded(r)
  <2>1. CASE fate[r][pos[r]] \in Failed /\ Advance(r, fate[r])
    <3>1. pc[r] = "recording"  BY <1>8 DEF RunRecorded
    <3>2. QED  BY <1>0, <1>3, <2>1, <3>1, WalksAdvance
  <2>2. CASE ~(fate[r][pos[r]] \in Failed /\ Advance(r, fate[r]))
    <3>1. UNCHANGED fate  BY <1>8, <2>2 DEF RunRecorded
    <3>2. QED  BY <1>2, <3>1
  <2>3. QED  BY <2>1, <2>2
<1>9. CASE \/ UpstreamFails(r) \/ UpstreamDenies(r) \/ LacksModel(r)
           \/ UpstreamRefuses(r) \/ UpstreamAnswers(r)
  BY <1>7, <1>9, AnswersDecide DEF Answers
<1>10. QED  BY <1>1, <1>4, <1>5, <1>6, <1>8, <1>9 DEF Request

\* What a request has seen of a credential stays seen.
LEMMA SawStays ==
    ASSUME IInv, [Next]_vars, NEW c \in Creds, NEW v \in {"failed", "denied"},
           Saw(c, v)
    PROVE  Saw(c, v)'
<1>0. PICK k \in Requests :
        /\ user[k] = Holder[c]
        /\ \E i \in DOMAIN plan[k] : plan[k][i] = c /\ fate[k][i] = v
  BY DEF Saw
<1>1. PICK i \in DOMAIN plan[k] :
        user[k] = Holder[c] /\ plan[k][i] = c /\ fate[k][i] = v
  BY <1>0
<1>2. CASE Quiet
  <2>1. UNCHANGED <<user, plan, fate>>  BY <1>2 DEF Quiet, given, walk
  <2>2. QED  BY <1>1, <2>1 DEF Saw
<1>3. ASSUME NEW r \in Requests, Request(r) PROVE Saw(c, v)'
  <2>1. CASE k = r
    <3>1. user'[k] = user[k] /\ plan'[k] = plan[k] /\ fate'[k][i] = fate[k][i]
      BY <1>1, <1>3, <2>1, FatesStay
    <3>2. QED  BY <1>1, <3>1 DEF Saw
  <2>2. CASE k # r
    <3>1. user'[k] = user[k] /\ plan'[k] = plan[k] /\ fate'[k] = fate[k]
      BY <1>3, <2>2, RequestStep DEF Alone
    <3>2. QED  BY <1>1, <3>1 DEF Saw
  <2>3. QED  BY <2>1, <2>2
<1>4. QED  BY <1>2, <1>3, StepKinds, QuietSteps

\* The request that puts a credential aside has met it itself.
LEMMA HealthStep ==
    ASSUME IInv, [Next]_vars
    PROVE  HealthIsEarned' /\ cooling' \subseteq Creds /\ disabled' \subseteq Creds
<1>0. /\ cooling \subseteq Creds /\ disabled \subseteq Creds
      /\ \A c \in cooling : Saw(c, "failed")
      /\ \A c \in disabled : Saw(c, "denied")
  BY EarnedIsSeen DEF IInv, TypeOK
<1>1. /\ \A c \in cooling : Saw(c, "failed")'
      /\ \A c \in disabled : Saw(c, "denied")'
  BY <1>0, SawStays
<1>2. CASE cooling' \subseteq cooling /\ disabled' \subseteq disabled
  BY <1>0, <1>1, <1>2, EarnedIsSeen
<1>3. ASSUME NEW r \in Requests, UpstreamFails(r) \/ UpstreamDenies(r)
      PROVE  HealthIsEarned' /\ cooling' \subseteq Creds /\ disabled' \subseteq Creds
  <2>0. PICK c \in Creds : c = Here(r)
    <3>1. PlanAt(r) /\ WalkAt(r) /\ TypeOK /\ pc[r] = "sent"
      BY <1>3 DEF IInv, PlanInv, WalkInv, UpstreamFails, UpstreamDenies, Decide
    <3>2. QED  BY <3>1, HereIsPlanned DEF InPlan
  <2>1. PICK v \in {"failed", "denied"} :
          /\ Decide(r, v)
          /\ cooling' \subseteq IF v = "failed" THEN cooling \cup {c} ELSE cooling
          /\ disabled' \subseteq IF v = "denied" THEN disabled \cup {c} ELSE disabled
    BY <1>3, <2>0 DEF UpstreamFails, UpstreamDenies, RecordFailure, Disable, HealthKey
  <2>2. v \in Verdict  BY DEF Verdict, Failed
  <2>3. TypeOK /\ PlanAt(r) /\ WalkAt(r) /\ pc[r] = "sent"
    BY <2>1 DEF IInv, PlanInv, WalkInv, Decide
  <2>4. c \in Creds /\ pos[r] \in DOMAIN plan[r] /\ c = plan[r][pos[r]]
    BY <2>0, <2>3, HereIsPlanned DEF InPlan, Here
  <2>5. Holder[c] = user[r]  BY <2>3, <2>4 DEF PlanAt
  <2>6. pos[r] \in Steps /\ fate[r] \in [Steps -> Fate]
    <3>1. /\ pos[r] \in 1 .. Len(plan[r]) /\ Len(plan[r]) \in Nat
          /\ Len(plan[r]) <= MaxSteps /\ MaxSteps \in Nat
      BY <2>3, RouterAssumption DEF WalkAt, InPlan, PlanAt, TypeOK
    <3>2. QED  BY <2>3, <3>1 DEF Steps, TypeOK, Fate
  <2>7. fate'[r][pos[r]] = v /\ plan' = plan /\ user' = user
    <3>1. /\ fate'[r] = [fate[r] EXCEPT ![pos[r]] = v]
          /\ UNCHANGED given
      BY <2>1, <2>2, <2>3, AnswerTypes
    <3>2. fate'[r][pos[r]] = v  BY <2>6, <3>1
    <3>3. QED  BY <3>1, <3>2 DEF given
  <2>8. Saw(c, v)'
    <3>1. user'[r] = Holder[c] /\ pos[r] \in DOMAIN plan'[r]
          /\ plan'[r][pos[r]] = c /\ fate'[r][pos[r]] = v
      BY <2>4, <2>5, <2>7
    <3>2. QED  BY <3>1 DEF Saw
  <2>9. /\ cooling' \subseteq Creds /\ \A d \in cooling' : Saw(d, "failed")'
    <3>1. CASE v = "failed"  BY <1>0, <1>1, <2>1, <2>4, <2>8, <3>1
    <3>2. CASE v # "failed"  BY <1>0, <1>1, <2>1, <3>2
    <3>3. QED  BY <3>1, <3>2
  <2>10. /\ disabled' \subseteq Creds /\ \A d \in disabled' : Saw(d, "denied")'
    <3>1. CASE v = "denied"  BY <1>0, <1>1, <2>1, <2>4, <2>8, <3>1
    <3>2. CASE v # "denied"  BY <1>0, <1>1, <2>1, <3>2
    <3>3. QED  BY <3>1, <3>2
  <2>11. QED  BY <2>9, <2>10, EarnedIsSeen
<1>4. ASSUME NEW r \in Requests, Request(r), ~UpstreamFails(r), ~UpstreamDenies(r)
      PROVE  cooling' \subseteq cooling /\ disabled' \subseteq disabled
  <2>1. CASE LacksModel(r) \/ UpstreamRefuses(r) \/ UpstreamAnswers(r)
    BY <2>1 DEF LacksModel, UpstreamRefuses, UpstreamAnswers, RecordSuccess, health
  <2>2. CASE ~(LacksModel(r) \/ UpstreamRefuses(r) \/ UpstreamAnswers(r))
    BY <1>4, <2>2
       DEF Request, ReadRows, ReadRouting, Route, FindKey, NoKey, Send,
           RunRecorded, HookDone, StreamEnds, StreamBreaks, Cancel, health
  <2>3. QED  BY <2>1, <2>2
<1>5. ASSUME NEW c \in Creds, Connect(c) \/ Delete(c) \/ CoolDown(c)
      PROVE  cooling' \subseteq cooling /\ disabled' \subseteq disabled
  BY <1>5 DEF Connect, Delete, CoolDown, Change, health
<1>6. ASSUME NEW u \in Users, NEW st \in Savable, SaveRouting(u, st)
      PROVE  cooling' \subseteq cooling /\ disabled' \subseteq disabled
  BY <1>6 DEF SaveRouting, Change, health
<1>7. CASE UNCHANGED vars  BY <1>2, <1>7 DEF vars, health
<1>8. QED  BY <1>2, <1>3, <1>4, <1>5, <1>6, <1>7, StepKinds

-----------------------------------------------------------------------------
(* The invariant *)

\* Types are kept by every step.
LEMMA TypeStep ==
    ASSUME IInv, [Next]_vars
    PROVE  TypeOK'
<1> USE DEF IInv
<1>1. /\ setting' \in [Users -> Setting]
      /\ plan' \in [Requests -> Seq(Creds)] /\ pool' \in [Requests -> SUBSET Creds]
      /\ WalkTypes /\ WalkInv'
      /\ rows' \in [Requests -> Seq(RunRow)] /\ attempts' \in [Requests -> Nat]
      /\ cooling' \subseteq Creds /\ disabled' \subseteq Creds
  BY SettingsStep, PlanStep, WalkStep, RowsStep, HealthStep
<1>2. /\ row' \in [Creds -> {"absent", "connected", "deleted"}]
      /\ changes' \in 0 .. MaxChanges
  <2>0. /\ row \in [Creds -> {"absent", "connected", "deleted"}]
        /\ changes \in 0 .. MaxChanges /\ MaxChanges \in Nat
    BY RouterAssumption DEF TypeOK
  <2>1. ASSUME Change PROVE changes' \in 0 .. MaxChanges
    <3>1. changes < MaxChanges /\ changes' = changes + 1  BY <2>1 DEF Change
    <3>2. QED  BY <2>0, <3>1
  <2>2. ASSUME NEW c \in Creds, Connect(c) \/ Delete(c) \/ CoolDown(c)
        PROVE  /\ row' \in [Creds -> {"absent", "connected", "deleted"}]
               /\ changes' \in 0 .. MaxChanges
    <3>1. CASE Connect(c)  BY <2>0, <2>1, <3>1 DEF Connect
    <3>2. CASE Delete(c)  BY <2>0, <2>1, <3>2 DEF Delete
    <3>3. CASE CoolDown(c)  BY <2>0, <3>3 DEF CoolDown, account
    <3>4. QED  BY <2>2, <3>1, <3>2, <3>3
  <2>6. ASSUME NEW u \in Users, NEW st \in Savable, SaveRouting(u, st)
        PROVE  /\ row' \in [Creds -> {"absent", "connected", "deleted"}]
               /\ changes' \in 0 .. MaxChanges
    BY <2>0, <2>1, <2>6 DEF SaveRouting
  <2>3. ASSUME NEW r \in Requests, Request(r) PROVE UNCHANGED <<row, changes>>
    BY <2>3, AnswersDecide
       DEF Request, ReadRows, ReadRouting, Route, FindKey, NoKey, Send, Decide,
           RunRecorded, HookDone, StreamEnds, StreamBreaks, Cancel, account
  <2>4. CASE UNCHANGED vars  BY <2>4 DEF vars, account, TypeOK
  <2>5. QED  BY <2>0, <2>2, <2>3, <2>4, <2>6, StepKinds
<1>3. /\ user' \in [Requests -> Users] /\ want' \in [Requests -> Setting]
      /\ override' \in [Requests -> BOOLEAN]
  <2>1. CASE UNCHANGED <<user, want, override>>  BY <2>1 DEF TypeOK
  <2>2. ASSUME NEW r \in Requests, ReadRows(r)
        PROVE  UNCHANGED <<user, want, override>>
    BY <2>2 DEF ReadRows
  <2>3. ASSUME NEW r \in Requests, ReadRouting(r)
        PROVE  /\ user' \in [Requests -> Users] /\ want' \in [Requests -> Setting]
               /\ override' \in [Requests -> BOOLEAN]
    BY <2>3 DEF ReadRouting, TypeOK
  <2>4. ASSUME NEW r \in Requests, Request(r), ~ReadRows(r), ~ReadRouting(r)
        PROVE  UNCHANGED <<user, want, override>>
    BY <2>4, GivenStep DEF given
  <2>5. CASE Quiet  BY <2>1, <2>5 DEF Quiet, given
  <2>6. QED  BY <2>1, <2>2, <2>3, <2>4, <2>5, StepKinds, QuietSteps
<1>4. hooked' \in [Requests -> BOOLEAN]
  <2>1. CASE UNCHANGED hooked  BY <2>1 DEF TypeOK
  <2>2. ASSUME NEW r \in Requests, RunRecorded(r) PROVE hooked' \in [Requests -> BOOLEAN]
    BY <2>2 DEF RunRecorded, TypeOK
  <2>3. ASSUME NEW r \in Requests, Request(r), ~RunRecorded(r) PROVE UNCHANGED hooked
    BY <2>3, AnswersDecide
       DEF Request, ReadRows, ReadRouting, Route, FindKey, NoKey, Send, Decide,
           HookDone, StreamEnds, StreamBreaks, Cancel
  <2>4. CASE Quiet  BY <2>1, <2>4 DEF Quiet
  <2>5. QED  BY <2>1, <2>2, <2>3, <2>4, StepKinds, QuietSteps
<1>5. \A r \in Requests : pc'[r] \in InPlan => pos'[r] \in 1 .. Len(plan'[r])
  BY <1>1 DEF WalkInv, WalkAt
<1>6. QED  BY <1>1, <1>2, <1>3, <1>4, <1>5 DEF TypeOK, WalkTypes, Fate

\* The invariant holds at the start ...
LEMMA InitInv ==
    ASSUME Init
    PROVE  IInv
<1>0. MaxSteps \in Nat /\ MaxChanges \in Nat  BY RouterAssumption
<1>1. AutoRouting \in Setting /\ Len(AutoRouting.steps) = 0 /\ AutoRouting.mode = "auto"
  BY DEF AutoRouting, Setting
<1>2. TypeOK
  BY <1>0, <1>1 DEF Init, TypeOK, Control, InPlan, Steps
<1>3. SettingsFit  BY <1>0, <1>1 DEF Init, SettingsFit
<1>4. PlanInv  BY <1>0 DEF Init, PlanInv, PlanAt
<1>5. WalkInv  BY <1>0 DEF Init, WalkInv, WalkAt, Before, InPlan, Steps
<1>6. RowsInv  BY DEF Init, RowsInv, RowsAt
<1>7. HealthIsEarned  BY DEF Init, HealthIsEarned
<1>8. QED  BY <1>2, <1>3, <1>4, <1>5, <1>6, <1>7 DEF IInv

\* ... is kept by every step ...
LEMMA InvStep ==
    ASSUME IInv, [Next]_vars
    PROVE  IInv'
BY TypeStep, SettingsStep, PlanStep, WalkStep, RowsStep, HealthStep DEF IInv

\* ... and so holds always.
LEMMA Invariance == Spec => []IInv
BY InitInv, InvStep, PTL DEF Spec

\* Every variable keeps its type.
THEOREM RouterTypeCorrect == Spec => []TypeOK
<1>1. IInv => TypeOK  BY DEF IInv
<1>2. QED  BY <1>1, Invariance, PTL

\* "Every terminal outcome records a run row": a row per attempt, numbered
\* without gaps, and none after the one that ends the request.
THEOREM RunsAreRecorded == Spec => []RunsRecorded
<1>1. IInv => RunsRecorded  BY DEF IInv, RowsInv, RowsAt, RunsRecorded, TypeOK
<1>2. QED  BY <1>1, Invariance, PTL

\* A credential is put aside only for what its own holder's requests met.
THEOREM HealthStaysEarned == Spec => []HealthIsEarned
<1>1. IInv => HealthIsEarned  BY DEF IInv
<1>2. QED  BY <1>1, Invariance, PTL

\* A request never goes to a credential that is not among its user's own.
THEOREM OnlyOwnCredentials == Spec => []OwnCredentials
<1>1. ASSUME IInv PROVE OwnCredentials
  <2>1. PlanInv /\ TypeOK  BY <1>1 DEF IInv
  <2>2. QED  BY <2>1 DEF OwnCredentials, PlanInv, PlanAt, TypeOK
<1>2. QED  BY <1>1, Invariance, PTL

\* The way a request ends agrees with what became of its candidates.
THEOREM EndsAreDecided == Spec => []EndsAsDecided
<1>1. ASSUME IInv, NEW r \in Requests,
             NEW f, f = {fate[r][i] : i \in DOMAIN plan[r]}
      PROVE  /\ pc[r] = "exhausted" => f \subseteq Passed \cup {"failed", "denied"}
             /\ pc[r] = "nomodel"   => f \subseteq Passed \cup Failed /\ "unserved" \in f
             /\ pc[r] = "refused"   => "refused" \in f /\ "ok" \notin f
             /\ pc[r] \in {"streaming", "served", "broken"}
                                    => "ok" \in f /\ "refused" \notin f
  <2>1. /\ WalkAt(r) /\ MaxSteps \in Nat /\ plan[r] \in Seq(Creds)
        /\ pos[r] \in Nat /\ Len(plan[r]) \in Nat /\ Len(plan[r]) <= MaxSteps
    BY <1>1, RouterAssumption DEF IInv, TypeOK, WalkInv, PlanInv, PlanAt
  <2>2. \A i \in DOMAIN plan[r] : i \in Steps /\ i \in 1 .. Len(plan[r])
    BY <2>1 DEF Steps
  <2>3. CASE pc[r] \in {"exhausted", "nomodel"}
    <3>1. \A i \in DOMAIN plan[r] : fate[r][i] \in Passed \cup Failed
      BY <2>1, <2>2, <2>3 DEF WalkAt
    <3>2. \A i \in Steps : i \notin DOMAIN plan[r] => fate[r][i] = "open"
      BY <2>1 DEF WalkAt, Steps
    <3>3. pc[r] = "exhausted" => \A i \in DOMAIN plan[r] : fate[r][i] # "unserved"
      BY <2>1, <2>2 DEF WalkAt
    <3>4. pc[r] = "nomodel" => \E i \in DOMAIN plan[r] : fate[r][i] = "unserved"
      BY <2>1, <3>2 DEF WalkAt
    <3>5. QED  BY <1>1, <2>3, <3>1, <3>3, <3>4 DEF Failed
  <2>4. CASE pc[r] \in {"refused", "streaming", "served", "broken"}
    <3>1. pos[r] \in DOMAIN plan[r]  BY <2>1, <2>4 DEF WalkAt, InPlan
    <3>2. \A i \in DOMAIN plan[r] : i # pos[r] => fate[r][i] \notin {"ok", "refused"}
      BY <2>1, <2>2 DEF WalkAt, Passed, Failed
    <3>3. QED  BY <1>1, <2>1, <2>4, <3>1, <3>2 DEF WalkAt
  <2>5. QED  BY <2>3, <2>4
<1>2. IInv => EndsAsDecided  BY <1>1 DEF EndsAsDecided
<1>3. QED  BY <1>2, Invariance, PTL

-----------------------------------------------------------------------------
(* Refinement of Completion *)

Out(p) == CASE p \in {"served", "streaming"}               -> "served"
            [] p \in {"exhausted", "nomodel", "nocreds"}   -> "failed"
            [] p \in {"broken", "refused", "cancelled"}    -> p
            [] OTHER                                       -> "open"

Went(f) == {i \in Steps : f[i] \in Verdict \cup {"sent"}}

Serving(p, i) == IF p \in {"streaming", "served", "broken"} THEN i ELSE 0

\* The mapping to Completion, request by request, now ...
LEMMA AbstractState ==
    /\ OutcomeOf = [r \in Requests |-> Out(pc[r])]
    /\ TriedBy = [r \in Requests |-> Went(fate[r])]
    /\ Server = [r \in Requests |-> Serving(pc[r], pos[r])]
BY DEF OutcomeOf, TriedBy, Tried, Server, Out, Went, Serving

\* ... and in the next state.
LEMMA AbstractStateNext ==
    /\ OutcomeOf' = [r \in Requests |-> Out(pc'[r])]
    /\ TriedBy' = [r \in Requests |-> Went(fate'[r])]
    /\ Server' = [r \in Requests |-> Serving(pc'[r], pos'[r])]
BY DEF OutcomeOf, TriedBy, Tried, Server, Out, Went, Serving

\* A step of one request moves one request of Completion.
LEMMA OneMoves ==
    ASSUME NEW r \in Requests, Alone(r)
    PROVE  /\ OutcomeOf' = [OutcomeOf EXCEPT ![r] = Out(pc'[r])]
           /\ TriedBy' = [TriedBy EXCEPT ![r] = Went(fate'[r])]
           /\ Server' = [Server EXCEPT ![r] = Serving(pc'[r], pos'[r])]
           /\ OutcomeOf[r] = Out(pc[r])
           /\ TriedBy[r] = Went(fate[r])
           /\ Server[r] = Serving(pc[r], pos[r])
           /\ (Out(pc'[r]) = Out(pc[r]) => UNCHANGED OutcomeOf)
           /\ (Went(fate'[r]) = Went(fate[r]) => UNCHANGED TriedBy)
           /\ (Serving(pc'[r], pos'[r]) = Serving(pc[r], pos[r]) => UNCHANGED Server)
<1>1. \A k \in Requests \ {r} : pc'[k] = pc[k] /\ fate'[k] = fate[k] /\ pos'[k] = pos[k]
  BY DEF Alone
<1>2. QED  BY <1>1, AbstractState, AbstractStateNext

\* Fates that change without an attempt leave the set of tried steps alone.
LEMMA WentKept ==
    ASSUME NEW f, NEW g,
           \A i \in Steps : g[i] \in Verdict \cup {"sent"} <=> f[i] \in Verdict \cup {"sent"}
    PROVE  Went(g) = Went(f)
BY DEF Went

\* Which control states are open, over or serving in Completion.
LEMMA OpenIsOut ==
    /\ \A p \in {"idle", "pooled"} \cup Walking : Out(p) = "open" /\ Serving(p, 0) = 0
    /\ \A p \in {"idle", "pooled", "exhausted", "nomodel", "nocreds", "refused",
                  "cancelled"} \cup Walking, i \in Nat : Serving(p, i) = 0
    /\ Out("exhausted") = "failed" /\ Out("nomodel") = "failed" /\ Out("nocreds") = "failed"
    /\ Out("refused") = "refused" /\ Out("cancelled") = "cancelled" /\ Out("broken") = "broken"
    /\ Out("streaming") = "served" /\ Out("served") = "served"
    /\ \A p \in {"streaming", "served", "broken"}, i \in Nat : Serving(p, i) = i
BY DEF Out, Serving, Walking

\* A step of one request is a step of Completion or a stutter.
LEMMA RequestSim ==
    ASSUME IInv, NEW r \in Requests, Request(r)
    PROVE  [Abstract!Next]_Abstract!vars
<1>0. /\ TypeOK /\ PlanAt(r) /\ WalkAt(r) /\ Alone(r) /\ WalkTypes
      /\ pos[r] \in Nat /\ pos'[r] \in Nat
      /\ fate[r] \in [Steps -> Fate] /\ fate'[r] \in [Steps -> Fate]
      /\ pos \in [Requests -> 0 .. MaxSteps + 1] /\ pc \in [Requests -> Control]
      /\ fate \in [Requests -> [Steps -> Fate]]
      /\ MaxSteps \in Nat /\ Len(plan[r]) \in Nat /\ Len(plan[r]) <= MaxSteps
  <2>1. TypeOK /\ PlanAt(r) /\ WalkAt(r)  BY DEF IInv, PlanInv, WalkInv
  <2>2. Alone(r) /\ WalkTypes  BY RequestStep
  <2>3. QED  BY <2>1, <2>2, RouterAssumption DEF TypeOK, PlanAt, WalkTypes, Fate
<1>1. ASSUME Out(pc'[r]) = Out(pc[r]), Went(fate'[r]) = Went(fate[r]),
             Serving(pc'[r], pos'[r]) = Serving(pc[r], pos[r])
      PROVE  UNCHANGED Abstract!vars
  BY <1>0, <1>1, OneMoves DEF Abstract!vars
<1>2. ASSUME Out(pc[r]) = "open", Out(pc'[r]) \in {"refused", "failed", "cancelled"},
             Went(fate'[r]) = Went(fate[r]),
             Serving(pc[r], pos[r]) = 0, Serving(pc'[r], pos'[r]) = 0
      PROVE  Abstract!Next
  <2>1. Abstract!End(r, Out(pc'[r]))
    BY <1>0, <1>2, OneMoves DEF Abstract!End
  <2>2. QED  BY <1>2, <2>1 DEF Abstract!Next
<1>3. ASSUME UNCHANGED <<fate, pos>>, pc[r] \in {"idle", "pooled"} \cup Walking,
             pc'[r] \in {"pooled", "nocreds", "refused", "cancelled"} \cup Walking
      PROVE  [Abstract!Next]_Abstract!vars
  <2>1. /\ Went(fate'[r]) = Went(fate[r])
        /\ Out(pc[r]) = "open" /\ Serving(pc[r], pos[r]) = 0
        /\ Serving(pc'[r], pos'[r]) = 0
    BY <1>0, <1>3, OpenIsOut
  <2>2. CASE pc'[r] \in {"pooled"} \cup Walking
    <3>1. Out(pc'[r]) = "open"  BY <2>2, OpenIsOut
    <3>2. QED  BY <1>1, <2>1, <3>1
  <2>3. CASE pc'[r] \in {"nocreds", "refused", "cancelled"}
    <3>1. Out(pc'[r]) \in {"refused", "failed", "cancelled"}  BY <2>3, OpenIsOut
    <3>2. QED  BY <1>2, <2>1, <3>1
  <2>4. QED  BY <1>3, <2>2, <2>3
<1>4. ASSUME Advancing(r), plan'[r] = plan[r], pc[r] \in Walking
      PROVE  [Abstract!Next]_Abstract!vars
  <2>1. PICK f : /\ Failing(r, f) /\ Advance(r, f)
                 /\ \A j \in Steps : f[j] = fate[r][j]
                                     \/ (fate[r][j] = "open" /\ f[j] = "nokey")
    BY <1>4 DEF Advancing
  <2>2. /\ pc'[r] \in {"resolving", "exhausted", "nomodel"}
        /\ \A j \in Steps : fate'[r][j] = f[j] \/ (f[j] = "open" /\ fate'[r][j] = "skipped")
    BY <1>0, <1>4, <2>1, AdvanceFacts
  <2>3. {"open", "nokey", "skipped"} \cap (Verdict \cup {"sent"}) = {}
    BY DEF Verdict, Failed
  <2>4. Went(fate'[r]) = Went(fate[r])
    <3>1. \A i \in Steps : fate'[r][i] = fate[r][i]
                            \/ (/\ fate[r][i] \in {"open", "nokey", "skipped"}
                                /\ fate'[r][i] \in {"open", "nokey", "skipped"})
      BY <2>1, <2>2
    <3>2. QED  BY <2>3, <3>1, WentKept
  <2>5. /\ Out(pc[r]) = "open" /\ Serving(pc[r], pos[r]) = 0
        /\ Serving(pc'[r], pos'[r]) = 0
    <3>1. "resolving" \in Walking  BY DEF Walking
    <3>2. QED  BY <1>0, <1>4, <2>2, <3>1, OpenIsOut
  <2>6. CASE pc'[r] = "resolving"
    <3>1. Out(pc'[r]) = "open"  BY <2>6, OpenIsOut DEF Walking
    <3>2. QED  BY <1>1, <2>4, <2>5, <3>1
  <2>7. CASE pc'[r] # "resolving"
    <3>1. Out(pc'[r]) = "failed"  BY <2>2, <2>7, OpenIsOut
    <3>2. QED  BY <1>2, <2>4, <2>5, <3>1
  <2>8. QED  BY <2>6, <2>7
<1>5. CASE ReadRows(r) \/ ReadRouting(r) \/ FindKey(r)
  <2>1. /\ UNCHANGED <<fate, pos>> /\ pc[r] \in {"idle", "pooled", "resolving"}
        /\ pc'[r] \in {"pooled", "nocreds", "ready", "keyed"}
    BY <1>0, <1>5 DEF ReadRows, ReadRouting, FindKey, walk
  <2>2. QED  BY <1>3, <2>1 DEF Walking
<1>6. CASE Route(r) \/ NoKey(r) \/ HookDone(r)
  <2>1. Advancing(r)  BY <1>0, <1>6, WalksAdvance
  <2>2. plan'[r] = plan[r] /\ pc[r] \in Walking
    BY <1>6 DEF Route, NoKey, HookDone, given, Walking
  <2>3. QED  BY <1>4, <2>1, <2>2
<1>7. CASE Send(r)
  <2>1. /\ pc[r] = "keyed" /\ pc'[r] = "sent" /\ pos' = pos
        /\ fate'[r] = [fate[r] EXCEPT ![pos[r]] = "sent"]
    BY <1>0, <1>7 DEF Send, Decided
  <2>2. pos[r] \in Steps  BY <1>0, <2>1 DEF WalkAt, InPlan, Steps
  <2>3. Went(fate'[r]) = Went(fate[r]) \cup {pos[r]}
    BY <1>0, <2>1, <2>2 DEF Went
  <2>4. \A j \in Went(fate[r]) : j < pos[r]
    <3>1. ASSUME NEW j \in Steps, ~(j < pos[r]) PROVE fate[r][j] = "open"
      <4>1. j \in Nat /\ (j = pos[r] \/ j > pos[r])  BY <1>0, <3>1 DEF Steps
      <4>2. QED  BY <1>0, <2>1, <4>1 DEF WalkAt
    <3>2. "open" \notin Verdict \cup {"sent"}  BY DEF Verdict, Failed
    <3>3. QED  BY <3>1, <3>2 DEF Went
  <2>5. /\ Out(pc[r]) = "open" /\ Out(pc'[r]) = "open"
        /\ Serving(pc[r], pos[r]) = 0 /\ Serving(pc'[r], pos'[r]) = 0
    BY <1>0, <2>1, OpenIsOut DEF Walking
  <2>6. Abstract!Try(r, pos[r])
    BY <1>0, <2>3, <2>4, <2>5, OneMoves DEF Abstract!Try
  <2>7. QED  BY <2>2, <2>6 DEF Abstract!Next, Steps
<1>8. CASE Answers(r)
  <2>1. PICK v \in Verdict : Decide(r, v)  BY <1>8 DEF Answers
  <2>2. /\ pc[r] = "sent" /\ pc'[r] = "recording" /\ pos' = pos
        /\ fate[r][pos[r]] = "sent"
        /\ fate'[r] = [fate[r] EXCEPT ![pos[r]] = v]
    BY <1>0, <2>1, AnswerTypes
  <2>3. \A i \in Steps : (i = pos[r] /\ fate'[r][i] = v /\ fate[r][i] = "sent")
                          \/ fate'[r][i] = fate[r][i]
    BY <1>0, <2>2
  <2>4. Went(fate'[r]) = Went(fate[r])  BY <2>1, <2>3, WentKept
  <2>5. /\ Out(pc[r]) = "open" /\ Out(pc'[r]) = "open"
        /\ Serving(pc[r], pos[r]) = 0 /\ Serving(pc'[r], pos'[r]) = 0
    BY <1>0, <2>2, OpenIsOut DEF Walking
  <2>6. QED  BY <1>1, <2>4, <2>5
<1>9. CASE RunRecorded(r)
  <2>1. /\ pc[r] = "recording" /\ pc[r] \in Walking /\ plan'[r] = plan[r]
        /\ pos[r] \in Steps
    BY <1>0, <1>9 DEF RunRecorded, Walking, given, WalkAt, InPlan, Steps
  <2>2. CASE fate[r][pos[r]] \in Failed /\ Advance(r, fate[r])
    BY <1>0, <1>4, <2>1, <2>2, WalksAdvance
  <2>3. CASE /\ UNCHANGED <<pos, fate>>
             /\ pc'[r] \in {"hook", "refused"}
    BY <1>3, <2>1, <2>3 DEF Walking
  <2>4. CASE /\ UNCHANGED <<pos, fate>> /\ fate[r][pos[r]] = "ok"
             /\ pc'[r] \in {"served", "streaming"}
    <3>1. /\ Out(pc[r]) = "open" /\ Out(pc'[r]) = "served"
          /\ Serving(pc'[r], pos'[r]) = pos[r] /\ Went(fate'[r]) = Went(fate[r])
      BY <1>0, <2>1, <2>4, OpenIsOut
    <3>2. pos[r] \in Went(fate[r])  BY <2>1, <2>4 DEF Went, Verdict
    <3>3. \A j \in Went(fate[r]) : j <= pos[r]
      <4>1. ASSUME NEW j \in Steps, ~(j <= pos[r]) PROVE fate[r][j] = "open"
        BY <1>0, <4>1 DEF WalkAt, Steps
      <4>2. "open" \notin Verdict \cup {"sent"}  BY DEF Verdict, Failed
      <4>3. QED  BY <4>1, <4>2 DEF Went
    <3>4. Abstract!Serve(r, pos[r])
      BY <1>0, <3>1, <3>2, <3>3, OneMoves DEF Abstract!Serve
    <3>5. QED  BY <2>1, <3>4 DEF Abstract!Next, Steps
  <2>5. QED  BY <1>0, <1>9, <2>2, <2>3, <2>4 DEF RunRecorded
<1>10. CASE StreamEnds(r)
  <2>1. /\ pc[r] = "streaming" /\ pc'[r] = "served" /\ UNCHANGED <<pos, fate>>
    BY <1>0, <1>10 DEF StreamEnds, walk
  <2>2. QED  BY <1>0, <1>1, <2>1, OpenIsOut
<1>11. CASE StreamBreaks(r) \/ (Cancel(r) /\ pc[r] = "streaming")
  <2>1. /\ pc[r] = "streaming" /\ pc'[r] = "broken" /\ UNCHANGED <<pos, fate>>
    BY <1>0, <1>11 DEF StreamBreaks, Cancel, walk
  <2>2. /\ Out(pc[r]) = "served" /\ Out(pc'[r]) = "broken"
        /\ Serving(pc[r], pos[r]) = Serving(pc'[r], pos'[r])
    BY <1>0, <2>1, OpenIsOut
  <2>3. Abstract!Break(r)
    BY <1>0, <2>1, <2>2, OneMoves DEF Abstract!Break
  <2>4. QED  BY <2>3 DEF Abstract!Next
<1>12. CASE Cancel(r) /\ pc[r] # "streaming"
  <2>1. /\ pc'[r] = "cancelled" /\ pc[r] \notin Ended /\ UNCHANGED <<pos, fate>>
    BY <1>0, <1>12 DEF Cancel, walk
  <2>2. pc[r] \in {"idle", "pooled"} \cup Walking
    BY <1>0, <1>12, <2>1 DEF Control
  <2>3. QED  BY <1>3, <2>1, <2>2
<1>13. QED
  BY <1>5, <1>6, <1>7, <1>8, <1>9, <1>10, <1>11, <1>12, AnswersDecide
     DEF Request, Answers

\* A request is served by one provider: Completion's specification holds of
\* every behaviour of the router.
THEOREM RefinesCompletion == Spec => OneProvider
<1>1. Init => Abstract!Init
  <2>1. SUFFICES ASSUME Init PROVE Abstract!Init  OBVIOUS
  <2>2. /\ \A r \in Requests : pc[r] = "idle" /\ pos[r] = 0
        /\ \A r \in Requests : \A i \in Steps : fate[r][i] = "open"
    BY <2>1 DEF Init
  <2>3. Out("idle") = "open" /\ Serving("idle", 0) = 0
    BY DEF Out, Serving
  <2>4. \A r \in Requests : Went(fate[r]) = {}
    BY <2>2 DEF Went, Verdict, Failed
  <2>5. QED  BY <2>2, <2>3, <2>4, AbstractState DEF Abstract!Init
<1>2. ASSUME IInv, [Next]_vars PROVE [Abstract!Next]_Abstract!vars
  <2>1. CASE Quiet
    <3>1. UNCHANGED <<pc, fate, pos>>  BY <2>1 DEF Quiet, walk
    <3>2. QED  BY <3>1, AbstractState, AbstractStateNext DEF Abstract!vars
  <2>2. QED  BY <1>2, <2>1, RequestSim, StepKinds, QuietSteps
<1>3. QED  BY <1>1, <1>2, Invariance, PTL DEF Spec, OneProvider, Abstract!Spec
=============================================================================
