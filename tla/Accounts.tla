------------------------------ MODULE Accounts ------------------------------
(***************************************************************************)
(* Accounts: registration, password and GitHub sign-in, browser cookies,   *)
(* password replacement, the lockout counter and default projects          *)
(* (core/accounts.py, core/identity.py, endpoints/accounts.py).            *)
(*                                                                         *)
(* A request is a sequence of READ COMMITTED transactions; other requests' *)
(* transactions run between them, and between a SELECT and the statement   *)
(* that relies on it.  A cookie is signed and not stored: it is known by   *)
(* the user and session version inside it.  Hashing, rendering and the     *)
(* audit trail, which is best-effort, are left out.                        *)
(***************************************************************************)
EXTENDS Naturals, Sequences

CONSTANTS
    Emails, Passwords, NoPassword,
    Logins,        \* GitHub account ids
    Requests,      \* requests that overlap
    MaxUsers,      \* bound: accounts
    MaxVersion,    \* bound: password replacements of an account
    MaxAttempts    \* AUTH_LOGIN_MAX_ATTEMPTS

VARIABLES
    users,       \* the users table: ids are positions
    projects,    \* the projects table
    identities,  \* user_identities: linked GitHub ids and their accounts
    attempts,    \* the count of the current lockout window
    requests,    \* the requests under way
    cookies,     \* cookies minted, with the replacements counted at the time
    replaced,    \* history: how often each account's password was replaced
    overlapped   \* history: what two requests did to an account at once

accountVars == <<users, projects, identities, attempts, requests, cookies,
                 replaced, overlapped>>

Idle == [pc |-> "idle"]
Become(r, request) == requests' = [requests EXCEPT ![r] = request]
Goto(r, pc) == Become(r, [requests[r] EXCEPT !.pc = pc])
WithUser(r, u, pc) == Become(r, [pc |-> pc, user |-> u])

UserOf(e) == {u \in DOMAIN users : users[u].email = e}

\* resolve_session: the account's version is the one the cookie was minted with.
Accepted(cookie) ==
    cookie.user \in DOMAIN users /\ users[cookie.user].version = cookie.version

SignedIn(u) == \E cookie \in cookies : cookie.user = u /\ Accepted(cookie)

\* INSERT under the unique constraint on the address.
InsertUser(e, password) ==
    /\ Len(users) < MaxUsers
    /\ users' = Append(users, [email |-> e, password |-> password, version |-> 0])
    /\ replaced' = Append(replaced, 0)
-----------------------------------------------------------------------------
(* Registration and sign-in.                                               *)

Register(r, e, password) ==
    /\ requests[r] = Idle
    /\ IF UserOf(e) # {} THEN UNCHANGED <<users, replaced, requests>>
       ELSE InsertUser(e, password) /\ WithUser(r, Len(users) + 1, "project")
    /\ UNCHANGED <<projects, identities, attempts, cookies, overlapped>>

\* login up to its password check; a locked-out address is answered at once.
StartLogin(r, e, password) ==
    /\ requests[r] = Idle /\ attempts < MaxAttempts
    /\ Become(r, [pc |-> "authenticate", email |-> e, password |-> password])
    /\ UNCHANGED <<users, projects, identities, attempts, cookies, replaced, overlapped>>

\* authenticate: an unknown address, an account without a password and a wrong
\* password look the same.
Authenticate(r) ==
    /\ requests[r].pc = "authenticate"
    /\ LET right == {u \in UserOf(requests[r].email) :
                        users[u].password = requests[r].password}
       IN IF right = {} THEN Goto(r, "failed")
          ELSE \E u \in right : WithUser(r, u, "reset")
    /\ UNCHANGED <<users, projects, identities, attempts, cookies, replaced, overlapped>>

\* record_failure: the count is read, and written back by another statement,
\* which finds no row when the window has ended.  Counts past the limit are alike.
ReadAttempts(r) ==
    /\ requests[r].pc = "failed"
    /\ Become(r, [pc |-> "count", count |-> attempts])
    /\ UNCHANGED <<users, projects, identities, attempts, cookies, replaced, overlapped>>

WriteAttempts(r) ==
    /\ requests[r].pc = "count"
    /\ LET count == requests[r].count
       IN attempts' = IF count = 0 THEN 1
                      ELSE IF attempts = 0 THEN 0
                      ELSE IF count = MaxAttempts THEN count ELSE count + 1
    /\ Become(r, Idle)
    /\ UNCHANGED <<users, projects, identities, cookies, replaced, overlapped>>

\* A successful login clears the counter, and so does the end of the window.
ResetAttempts(r) ==
    /\ requests[r].pc = "reset"
    /\ attempts' = 0 /\ Goto(r, "project")
    /\ UNCHANGED <<users, projects, identities, cookies, replaced, overlapped>>

WindowEnds ==
    /\ attempts > 0 /\ attempts' = 0
    /\ UNCHANGED <<users, projects, identities, requests, cookies, replaced, overlapped>>

Default(u) == {p \in projects : p.user = u /\ p.default}
Named(u, name) == {p \in projects : p.user = u /\ p.name = name}

\* ensure_default_project: the SELECT, and the rest of the transaction when it
\* found none: INSERT ... ON CONFLICT DO NOTHING and scalar_one, which raises
\* unless there is one default, and then the INSERT is rolled back (500).
LookDefault(r) ==
    /\ requests[r].pc = "project"
    /\ Goto(r, IF Default(requests[r].user) # {} THEN "cookie" ELSE "default")
    /\ UNCHANGED <<users, projects, identities, attempts, cookies, replaced, overlapped>>

InsertDefault(r) ==
    /\ requests[r].pc = "default"
    /\ LET u == requests[r].user
           made == IF Named(u, "personal") # {} THEN projects
                   ELSE projects \cup {[user |-> u, name |-> "personal",
                                        default |-> TRUE, archived |-> FALSE]}
       IN IF \E p \in made : {d \in made : d.user = u /\ d.default} = {p}
          THEN projects' = made /\ Goto(r, "cookie")
          ELSE Goto(r, "undone") /\ UNCHANGED projects
    /\ UNCHANGED <<users, identities, attempts, cookies, replaced, overlapped>>

\* _set_session_cookie_for: the version is the account's current one.
MintCookie(r) ==
    /\ requests[r].pc = "cookie"
    /\ LET u == requests[r].user
       IN cookies' = cookies \cup {[user |-> u, version |-> users[u].version,
                                    after |-> replaced[u]]}
    /\ Become(r, Idle)
    /\ UNCHANGED <<users, projects, identities, attempts, replaced, overlapped>>
-----------------------------------------------------------------------------
(* Replacing a password.                                                   *)

\* Variant: the version stays.
ReplaceQuietly(u, password) ==
    /\ users[u].version < MaxVersion
    /\ users' = [users EXCEPT ![u].password = password]
    /\ replaced' = [replaced EXCEPT ![u] = @ + 1]

\* The UPDATE that replaces a password bumps the version with it.
Replace(u, password) ==
    /\ users[u].version < MaxVersion
    /\ users' = [users EXCEPT ![u].password = password, ![u].version = @ + 1]
    /\ replaced' = [replaced EXCEPT ![u] = @ + 1]

\* auth_password: which flow applies is read from the account.
StartPassword(r, u, current, new) ==
    /\ requests[r] = Idle /\ SignedIn(u)
    /\ Become(r, [pc |-> IF users[u].password = NoPassword THEN "set" ELSE "verify",
                  user |-> u, current |-> current, new |-> new])
    /\ UNCHANGED <<users, projects, identities, attempts, cookies, replaced, overlapped>>

\* set_password, guarded by the NULL hash in the statement itself.
SetPassword(r) ==
    /\ requests[r].pc = "set"
    /\ IF users[requests[r].user].password = NoPassword
       THEN Replace(requests[r].user, requests[r].new) /\ WithUser(r, requests[r].user, "cookie")
       ELSE Become(r, Idle) /\ UNCHANGED <<users, replaced>>
    /\ UNCHANGED <<projects, identities, attempts, cookies, overlapped>>

\* change_password: the current password is checked, and the hash replaced by
\* another transaction that does not check again.
VerifyPassword(r) ==
    /\ requests[r].pc = "verify"
    /\ IF users[requests[r].user].password = requests[r].current
       THEN Goto(r, "replace") ELSE Become(r, Idle)
    /\ UNCHANGED <<users, projects, identities, attempts, cookies, replaced, overlapped>>

ChangePassword(r) ==
    /\ requests[r].pc = "replace"
    /\ Replace(requests[r].user, requests[r].new)
    /\ WithUser(r, requests[r].user, "cookie")
    /\ UNCHANGED <<projects, identities, attempts, cookies, overlapped>>

\* reset_password, of the command line.
ResetPassword(u, new) ==
    /\ Replace(u, new)
    /\ UNCHANGED <<projects, identities, attempts, requests, cookies, overlapped>>
-----------------------------------------------------------------------------
(* Signing in with GitHub: the callback, after the exchange of its code.   *)

Linked(u) == {g \in DOMAIN identities : identities[g] = u}

\* get_user: a linked id signs in to its account.
StartGitHub(r, g, e) ==
    /\ requests[r] = Idle
    /\ Become(r, IF g \in DOMAIN identities
                 THEN [pc |-> "link", user |-> identities[g], login |-> g]
                 ELSE [pc |-> "email", login |-> g, email |-> e])
    /\ UNCHANGED <<users, projects, identities, attempts, cookies, replaced, overlapped>>

\* Variant: an account that another id is linked to is taken as well.
FindByEmailAnyway(r) ==
    /\ requests[r].pc = "email"
    /\ LET found == UserOf(requests[r].email)
       IN IF found = {} THEN Goto(r, "register")
          ELSE \E u \in found :
                  Become(r, [pc |-> "link", user |-> u, login |-> requests[r].login])
    /\ UNCHANGED <<users, projects, identities, attempts, cookies, replaced, overlapped>>

\* get_by_email and account_ids_for: an account that another id is linked to is
\* refused.
FindByEmail(r) ==
    /\ requests[r].pc = "email"
    /\ LET found == UserOf(requests[r].email)
       IN IF found = {} THEN Goto(r, "register")
          ELSE \E u \in found :
                  Become(r, IF Linked(u) \ {requests[r].login} # {} THEN Idle
                            ELSE [pc |-> "link", user |-> u, login |-> requests[r].login])
    /\ UNCHANGED <<users, projects, identities, attempts, cookies, replaced, overlapped>>

\* register_without_password; a duplicate address is not caught here.
RegisterExternal(r) ==
    /\ requests[r].pc = "register"
    /\ IF UserOf(requests[r].email) # {}
       THEN Goto(r, "raised") /\ UNCHANGED <<users, replaced>>
       ELSE /\ InsertUser(requests[r].email, NoPassword)
            /\ Become(r, [pc |-> "link", user |-> Len(users) + 1,
                          login |-> requests[r].login])
    /\ UNCHANGED <<projects, identities, attempts, cookies, overlapped>>

\* link: insert first; a duplicate is a no-op whose answer nobody reads.
Link(r) ==
    /\ requests[r].pc = "link"
    /\ LET g == requests[r].login
           u == requests[r].user
       IN /\ identities' = IF g \in DOMAIN identities THEN identities
                           ELSE [h \in DOMAIN identities \cup {g} |->
                                    IF h = g THEN u ELSE identities[h]]
          /\ overlapped' = overlapped \cup
                {<<u, "link">> : q \in {q \in Requests \ {r} : requests[q].pc = "link"
                                                    /\ requests[q].user = u}}
          /\ WithUser(r, u, "project")
    /\ UNCHANGED <<users, projects, attempts, cookies, replaced>>
-----------------------------------------------------------------------------
(* Projects of a signed-in user.                                           *)

CreateProject(u, name) ==
    /\ SignedIn(u) /\ Named(u, name) = {}
    /\ projects' = projects \cup {[user |-> u, name |-> name, default |-> FALSE,
                                   archived |-> FALSE]}
    /\ UNCHANGED <<users, identities, attempts, requests, cookies, replaced, overlapped>>

RenameProject(p, name) ==
    /\ SignedIn(p.user) /\ Named(p.user, name) = {}
    /\ projects' = (projects \ {p}) \cup {[p EXCEPT !.name = name]}
    /\ overlapped' = overlapped \cup
          {<<p.user, "default">> : q \in {q \in Requests : /\ p.default
                                                        /\ requests[q].pc = "default"
                                                        /\ requests[q].user = p.user}}
    /\ UNCHANGED <<users, identities, attempts, requests, cookies, replaced>>

ArchiveProject(p) ==
    /\ SignedIn(p.user) /\ ~p.default /\ ~p.archived
    /\ projects' = (projects \ {p}) \cup {[p EXCEPT !.archived = TRUE]}
    /\ UNCHANGED <<users, identities, attempts, requests, cookies, replaced, overlapped>>

\* The process dies with the request: what it committed stays.
Abandon(r) ==
    /\ requests[r] # Idle /\ Become(r, Idle)
    /\ UNCHANGED <<users, projects, identities, attempts, cookies, replaced, overlapped>>
-----------------------------------------------------------------------------
AccountInit ==
    /\ users = <<>> /\ projects = {} /\ identities = [g \in {} |-> 0]
    /\ attempts = 0 /\ requests = [r \in Requests |-> Idle] /\ cookies = {}
    /\ replaced = <<>> /\ overlapped = {}

SignIn(r) ==
    \/ \E e \in Emails, password \in Passwords :
          Register(r, e, password) \/ StartLogin(r, e, password)
    \/ Authenticate(r) \/ ReadAttempts(r) \/ WriteAttempts(r) \/ ResetAttempts(r)
    \/ LookDefault(r) \/ InsertDefault(r) \/ MintCookie(r)

GitHub(r) ==
    \/ \E g \in Logins, e \in Emails : StartGitHub(r, g, e)
    \/ FindByEmail(r) \/ RegisterExternal(r) \/ Link(r)

Passwording(r) ==
    \/ \E u \in DOMAIN users, current, new \in Passwords : StartPassword(r, u, current, new)
    \/ SetPassword(r) \/ VerifyPassword(r) \/ ChangePassword(r)

AccountNext ==
    \/ \E r \in Requests : SignIn(r) \/ GitHub(r) \/ Passwording(r) \/ Abandon(r)
    \/ \E u \in DOMAIN users :
          \/ \E new \in Passwords : ResetPassword(u, new)
          \/ \E name \in {"personal", "work"} : CreateProject(u, name)
    \/ \E p \in projects :
          ArchiveProject(p) \/ \E name \in {"personal", "work"} : RenameProject(p, name)
    \/ WindowEnds
-----------------------------------------------------------------------------
\* An account never has two default projects, whoever has been given a cookie has
\* one, which is not archived, and a sign-in is rolled back for the want of exactly
\* one only when the default was renamed between its SELECT and its INSERT.
OneDefault ==
    /\ \A p, q \in projects : p.user = q.user /\ p.default /\ q.default => p = q
    /\ \A cookie \in cookies :
          /\ Default(cookie.user) # {}
          /\ \A p \in Default(cookie.user) : ~p.archived
    /\ \A r \in Requests :
          requests[r].pc = "undone" => <<requests[r].user, "default">> \in overlapped

\* A cookie minted before the account's password was last replaced is refused.
ReplacementSignsOut ==
    \A cookie \in cookies : Accepted(cookie) => cookie.after = replaced[cookie.user]

\* A second GitHub id is never attached to an account, except by two callbacks
\* that both looked before either had linked.
OneIdentity ==
    \A u \in DOMAIN users :
        <<u, "link">> \in overlapped \/ \A g, h \in Linked(u) : g = h

AccountsSafe == OneDefault /\ ReplacementSignsOut /\ OneIdentity
=============================================================================
