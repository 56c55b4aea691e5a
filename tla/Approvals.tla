----------------------------- MODULE Approvals -----------------------------
(***************************************************************************)
(* The slow path of human approvals: rows of pending_actions that carry a  *)
(* workflow and a deadline (core/harness_approvals.py).  A call of resolve *)
(* is one READ COMMITTED transaction of two statements, SELECT and DELETE, *)
(* so other calls' statements run between them; a DELETE that waited for   *)
(* another transaction's deletion then deletes nothing and reports no      *)
(* error.  The rows outlive the process.                                   *)
(***************************************************************************)
EXTENDS Naturals

CONSTANTS
    Tokens,   \* tokens of rows, slow and fast
    Users,    \* owners and requesters
    NoUser,   \* owner_subject None
    Calls,    \* calls of resolve
    Ttl,      \* ttl_seconds of a suspended row
    Deadline  \* bound: values of the clock

VARIABLES
    rows,     \* the stored rows, by token
    minted,   \* history: the row a token was minted with
    calls,    \* the calls of resolve under way or over
    now       \* time.time()

approvalVars == <<rows, minted, calls, now>>

Subjects == Users \cup {NoUser}
Idle == [pc |-> "idle"]
-----------------------------------------------------------------------------
\* suspend: a new token, one insert; a fast-path row has no workflow.
Suspend(t, owner, slow) ==
    /\ t \notin DOMAIN minted
    /\ LET row == [owner |-> owner, slow |-> slow, deadline |-> now + Ttl]
           add(f) == [u \in DOMAIN f \cup {t} |-> IF u = t THEN row ELSE f[u]]
       IN rows' = add(rows) /\ minted' = add(minted)
    /\ UNCHANGED <<calls, now>>

Become(c, call) == calls' = [calls EXCEPT ![c] = call]

\* Variant: the requester is compared only when it has a subject.
RefusedLoosely(row, requester) ==
    \/ ~row.slow
    \/ requester # NoUser /\ requester # row.owner

\* A row a requester cannot resolve: not of this path, or of another subject.
Refused(row, requester) ==
    \/ ~row.slow
    \/ row.owner = NoUser /\ requester # NoUser
    \/ row.owner # NoUser /\ requester # row.owner

\* resolve's SELECT and the checks on what it read.
Select(c, t, requester, approve) ==
    /\ calls[c] = Idle /\ t \in DOMAIN minted
    /\ LET to(pc) == [pc |-> pc, token |-> t, by |-> requester, approve |-> approve, at |-> now]
       IN Become(c, IF t \notin DOMAIN rows \/ ~rows[t].slow THEN to("none")
                    ELSE IF now > rows[t].deadline THEN to("expired")
                    ELSE IF Refused(rows[t], requester) THEN to("none")
                    ELSE to("checked"))
    /\ UNCHANGED <<rows, minted, now>>

\* resolve's DELETE, its commit and its answer.
Delete(c) ==
    /\ calls[c].pc \in {"expired", "checked"}
    /\ rows' = [u \in DOMAIN rows \ {calls[c].token} |-> rows[u]]
    /\ Become(c, [calls[c] EXCEPT !.pc =
                    IF @ = "expired" THEN "none"
                    ELSE IF calls[c].approve THEN "approved" ELSE "declined"])
    /\ UNCHANGED <<minted, now>>

\* sweep_expired: at the deadline, when resolve still accepts it.
SweepExpired ==
    /\ rows' = [u \in {t \in DOMAIN rows : ~rows[t].slow \/ rows[t].deadline > now} |-> rows[u]]
    /\ rows' # rows
    /\ UNCHANGED <<minted, calls, now>>

TimePasses == now < Deadline /\ now' = now + 1 /\ UNCHANGED <<rows, minted, calls>>

\* A restart ends the calls under way; the rows stay, or are gone when the
\* transaction had committed before its answer was read.
Crash(c) ==
    /\ calls[c].pc \in {"expired", "checked"}
    /\ rows' \in {rows, [u \in DOMAIN rows \ {calls[c].token} |-> rows[u]]}
    /\ Become(c, [calls[c] EXCEPT !.pc = "none"])
    /\ UNCHANGED <<minted, now>>
-----------------------------------------------------------------------------
ApprovalInit ==
    /\ rows = [t \in {} |-> 0] /\ minted = rows
    /\ calls = [c \in Calls |-> Idle] /\ now = 0

ApprovalNext ==
    \/ \E t \in Tokens, owner \in Subjects, slow \in BOOLEAN : Suspend(t, owner, slow)
    \/ \E c \in Calls :
          \/ \E t \in Tokens, requester \in Subjects, approve \in BOOLEAN :
                Select(c, t, requester, approve)
          \/ Delete(c) \/ Crash(c)
    \/ SweepExpired \/ TimePasses
-----------------------------------------------------------------------------
Approved == {c \in Calls : calls[c].pc = "approved"}

\* What was approved had a row of the slow path, was asked for by its owner and
\* before its deadline, and its row is gone.
ApprovedRightly ==
    \A c \in Approved :
        LET row == minted[calls[c].token]
        IN /\ row.slow /\ calls[c].by = row.owner /\ calls[c].at <= row.deadline
           /\ calls[c].token \notin DOMAIN rows

\* Neither path resolves the other's tokens: a fast row stays where it is.
FastRowsStay == \A t \in DOMAIN minted : ~minted[t].slow => t \in DOMAIN rows

\* A row leaves only by a definitive outcome: its owner's, its deadline or a
\* process that died on the way.
RowsLeaveForAReason ==
    \A t \in DOMAIN minted \ DOMAIN rows :
        \/ now >= minted[t].deadline
        \/ \E c \in Calls : calls[c] # Idle /\ calls[c].token = t
                             /\ calls[c].by = minted[t].owner

ApprovalSafe == ApprovedRightly /\ FastRowsStay /\ RowsLeaveForAReason

\* A token has one outcome: approved at most once, and never approved and
\* declined ("a replayed or forged result can never execute twice").
ResolvedOnce ==
    \A c, d \in Calls :
        /\ c # d /\ calls[c] # Idle /\ calls[d] # Idle
        /\ calls[c].token = calls[d].token
        => ~({calls[c].pc, calls[d].pc} \in {{"approved"}, {"approved", "declined"}})
=============================================================================
