--------------------------- MODULE ServicesProofs ---------------------------
(***************************************************************************)
(* What the services keep, for any number of users, requests, accounts,    *)
(* codes, tokens, devices, rows and windows: all of Services but what      *)
(* CompanionProofs is about. Each component has an inductive invariant     *)
(* over its own variables; they are put together at the end, where a step  *)
(* of the composition is a step of one component or leaves its variables   *)
(* alone.                                                                  *)
(***************************************************************************)
EXTENDS Services, SequenceTheorems, FiniteSetTheorems, TLAPS

(* A table that grows by a row, or of which one row changes.               *)

LEMMA Grown ==
    ASSUME NEW S, NEW s \in Seq(S), NEW x \in S
    PROVE  /\ Append(s, x) \in Seq(S)
           /\ DOMAIN s = 1..Len(s) /\ Len(s) \in Nat
           /\ DOMAIN Append(s, x) = DOMAIN s \cup {Len(s) + 1}
           /\ Len(s) + 1 \notin DOMAIN s
           /\ \A i \in DOMAIN s : Append(s, x)[i] = s[i]
           /\ Append(s, x)[Len(s) + 1] = x
OBVIOUS

LEMMA Changed ==
    ASSUME NEW S, NEW s \in Seq(S), NEW i \in DOMAIN s, NEW x \in S
    PROVE  LET t == [s EXCEPT ![i] = x] IN
           /\ t \in Seq(S) /\ DOMAIN t = DOMAIN s /\ Len(t) = Len(s)
           /\ \A j \in DOMAIN s : t[j] = IF j = i THEN x ELSE s[j]
<1>1. DOMAIN s = 1..Len(s) /\ Len(s) \in Nat /\ s \in [1..Len(s) -> S]  OBVIOUS
<1>2. [s EXCEPT ![i] = x] \in [1..Len(s) -> S]  BY <1>1
<1>3. [s EXCEPT ![i] = x] \in Seq(S) /\ Len([s EXCEPT ![i] = x]) = Len(s)  BY <1>1, <1>2
<1>4. QED  BY <1>1, <1>3
-----------------------------------------------------------------------------
(* Accounts (Accounts.tla).                                                *)

AccountRows == [email : Emails, password : Passwords \cup {NoPassword}, version : Nat]
ProjectNames == {"personal", "work"}
ProjectRows == [user : Nat, name : ProjectNames, default : BOOLEAN, archived : BOOLEAN]
Cookies == [user : Nat, version : Nat, after : Nat]

Typing == [pc : {"authenticate", "failed"}, email : Emails, password : Passwords]
Entering == [pc : {"reset", "project", "default", "cookie", "undone"}, user : Nat]
Replacing == [pc : {"set", "verify", "replace"}, user : Nat,
              current : Passwords, new : Passwords]
Linking == [pc : {"link"}, user : Nat, login : Logins]
Mailed == [pc : {"email", "register", "raised"}, login : Logins, email : Emails]

HasDefault(ps, u) == \E p \in ps : p.user = u /\ p.default
\* Whoever found no default project still finds none, or finds one by the name of its
\* own, or a rename came between.
DefaultAwaits(ps, u, met) ==
    \/ ~HasDefault(ps, u)
    \/ \E p \in ps : p.user = u /\ p.default /\ p.name = "personal"
    \/ <<u, "default">> \in met
\* A callback links nothing, or the first id of its account, or met another there.
MayLink(ids, u, g, met) ==
    \/ g \in DOMAIN ids
    \/ \A h \in DOMAIN ids : ids[h] = u => h = g
    \/ <<u, "link">> \in met

AccountRequest(q, us, ps, ids, met) ==
    \/ q = Account!Idle
    \/ q \in Typing \cup Mailed
    \/ q.pc = "count" /\ q = [pc |-> "count", count |-> q.count]
    \/ /\ q \in Entering /\ q.user \in DOMAIN us
       /\ q.pc = "cookie" => HasDefault(ps, q.user)
       /\ q.pc = "default" => DefaultAwaits(ps, q.user, met)
       /\ q.pc = "undone" => <<q.user, "default">> \in met
    \/ q \in Replacing /\ q.user \in DOMAIN us /\ HasDefault(ps, q.user)
    \/ q \in Linking /\ q.user \in DOMAIN us /\ MayLink(ids, q.user, q.login, met)

AccountTypes ==
    /\ users \in Seq(AccountRows) /\ replaced \in Seq(Nat) /\ Len(replaced) = Len(users)
    /\ projects \subseteq ProjectRows /\ cookies \subseteq Cookies
    /\ identities \in [DOMAIN identities -> DOMAIN users]
    /\ logins = [r \in Requests |-> logins[r]]
VersionsCount ==
    /\ \A u \in DOMAIN users : users[u].version = replaced[u]
    /\ \A cookie \in cookies : cookie.user \in DOMAIN users /\ cookie.version = cookie.after
DefaultsHeld ==
    /\ \A p \in projects : (p.default => ~p.archived) /\ HasDefault(projects, p.user)
    /\ \A cookie \in cookies : HasDefault(projects, cookie.user)
DefaultsAreOne ==
    \A p, q \in projects : p.default /\ q.default /\ p.user = q.user => p = q
LinksAreOne ==
    \A g, h \in DOMAIN identities : identities[g] = identities[h]
        => g = h \/ <<identities[g], "link">> \in overlapped
LoginsSound ==
    \A r \in Requests : AccountRequest(logins[r], users, projects, identities, overlapped)

AccountInv ==
    /\ AccountTypes /\ VersionsCount /\ DefaultsHeld /\ DefaultsAreOne /\ LinksAreOne
    /\ LoginsSound
-----------------------------------------------------------------------------
\* A request that stands still while the tables change.
LEMMA LoginKept ==
    ASSUME NEW q, NEW us, NEW vs, NEW ps, NEW ts, NEW ids, NEW jds, NEW met, NEW more,
           AccountRequest(q, us, ps, ids, met), DOMAIN us \subseteq DOMAIN vs,
           \A u : HasDefault(ps, u) => HasDefault(ts, u),
           q.pc = "default" => (DefaultAwaits(ps, q.user, met)
                                   => DefaultAwaits(ts, q.user, more)),
           q.pc = "link" => (MayLink(ids, q.user, q.login, met)
                                => MayLink(jds, q.user, q.login, more)),
           met \subseteq more
    PROVE  AccountRequest(q, vs, ts, jds, more)
<1>1. CASE q = Account!Idle  BY <1>1 DEF AccountRequest
<1>2. CASE q \in Typing \cup Mailed  BY <1>2 DEF AccountRequest
<1>3. CASE q.pc = "count" /\ q = [pc |-> "count", count |-> q.count]  BY <1>3 DEF AccountRequest
<1>4. CASE /\ q \in Entering /\ q.user \in DOMAIN us
           /\ q.pc = "cookie" => HasDefault(ps, q.user)
           /\ q.pc = "default" => DefaultAwaits(ps, q.user, met)
           /\ q.pc = "undone" => <<q.user, "default">> \in met
  BY <1>4 DEF AccountRequest
<1>5. CASE q \in Replacing /\ q.user \in DOMAIN us /\ HasDefault(ps, q.user)
  BY <1>5 DEF AccountRequest
<1>6. CASE q \in Linking /\ q.user \in DOMAIN us /\ MayLink(ids, q.user, q.login, met)
  <2>1. q.pc = "link"  BY <1>6 DEF Linking
  <2>2. QED  BY <1>6, <2>1 DEF AccountRequest
<1>7. QED  BY <1>1, <1>2, <1>3, <1>4, <1>5, <1>6 DEF AccountRequest

\* One request moves while the tables change, or while they stand still.
LEMMA LoginMoves ==
    ASSUME AccountInv, NEW r \in Requests, NEW q, Account!Become(r, q),
           AccountRequest(q, users', projects', identities', overlapped'),
           \A p \in Requests \ {r} :
               AccountRequest(logins[p], users', projects', identities', overlapped')
    PROVE  /\ LoginsSound' /\ logins' = [p \in Requests |-> logins'[p]]
           /\ logins'[r] = q /\ \A p \in Requests \ {r} : logins'[p] = logins[p]
<1>1. logins' = [logins EXCEPT ![r] = q] /\ logins = [p \in Requests |-> logins[p]]
  BY DEF Account!Become, AccountInv, AccountTypes
<1>2. logins'[r] = q /\ \A p \in Requests \ {r} : logins'[p] = logins[p]  BY <1>1
<1>3. logins' = [p \in Requests |-> logins'[p]]  BY <1>1
<1>4. LoginsSound'  BY <1>2 DEF LoginsSound
<1>5. QED  BY <1>2, <1>3, <1>4

LEMMA OnlyTheLogin ==
    ASSUME AccountInv, NEW r \in Requests, NEW q, Account!Become(r, q),
           UNCHANGED <<users, projects, identities, cookies, replaced, overlapped>>,
           AccountRequest(q, users, projects, identities, overlapped)
    PROVE  AccountInv'
<1>1. \A p \in Requests \ {r} :
          AccountRequest(logins[p], users', projects', identities', overlapped')
  BY DEF AccountInv, LoginsSound
<1>2. LoginsSound' /\ logins' = [p \in Requests |-> logins'[p]]  BY <1>1, LoginMoves
<1>3. AccountTypes'  BY <1>2 DEF AccountInv, AccountTypes
<1>4. VersionsCount' /\ DefaultsHeld' /\ DefaultsAreOne' /\ LinksAreOne'
  BY DEF AccountInv, VersionsCount, DefaultsHeld, DefaultsAreOne, LinksAreOne
<1>5. QED  BY <1>2, <1>3, <1>4 DEF AccountInv

\* What a request at each place is.
LEMMA LoginAt ==
    ASSUME AccountInv, NEW r \in Requests
    PROVE  /\ logins[r].pc \in {"authenticate", "failed"} => logins[r] \in Typing
           /\ logins[r].pc \in {"email", "register", "raised"} => logins[r] \in Mailed
           /\ logins[r].pc \in {"reset", "project", "default", "cookie", "undone"} =>
                 /\ logins[r] \in Entering /\ logins[r].user \in DOMAIN users
                 /\ logins[r].pc = "cookie" => HasDefault(projects, logins[r].user)
                 /\ logins[r].pc = "default"
                       => DefaultAwaits(projects, logins[r].user, overlapped)
                 /\ logins[r].pc = "undone" => <<logins[r].user, "default">> \in overlapped
           /\ logins[r].pc \in {"set", "verify", "replace"} =>
                 /\ logins[r] \in Replacing /\ logins[r].user \in DOMAIN users
                 /\ HasDefault(projects, logins[r].user)
           /\ logins[r].pc = "link" =>
                 /\ logins[r] \in Linking /\ logins[r].user \in DOMAIN users
                 /\ MayLink(identities, logins[r].user, logins[r].login, overlapped)
<1>1. AccountRequest(logins[r], users, projects, identities, overlapped)
  BY DEF AccountInv, LoginsSound
<1>2. logins[r] = Account!Idle => logins[r].pc = "idle"  BY DEF Account!Idle
<1>3. logins[r] \in Typing => logins[r].pc \in {"authenticate", "failed"}  BY DEF Typing
<1>4. logins[r] \in Mailed => logins[r].pc \in {"email", "register", "raised"}  BY DEF Mailed
<1>5. logins[r] \in Entering
         => logins[r].pc \in {"reset", "project", "default", "cookie", "undone"}
  BY DEF Entering
<1>6. logins[r] \in Replacing => logins[r].pc \in {"set", "verify", "replace"}
  BY DEF Replacing
<1>7. logins[r] \in Linking => logins[r].pc = "link"  BY DEF Linking
<1>8. QED  BY <1>1, <1>2, <1>3, <1>4, <1>5, <1>6, <1>7 DEF AccountRequest

\* Who has a cookie that is accepted has an account with a default project.
LEMMA SignedInHasDefault ==
    ASSUME AccountInv, NEW u, Account!SignedIn(u)
    PROVE  u \in DOMAIN users /\ HasDefault(projects, u)
BY DEF AccountInv, Account!SignedIn, Account!Accepted, DefaultsHeld

LEMMA StartLoginKeeps ==
    ASSUME AccountInv, NEW r \in Requests, NEW e \in Emails, NEW password \in Passwords,
           Account!StartLogin(r, e, password)
    PROVE  AccountInv'
<1> DEFINE q == [pc |-> "authenticate", email |-> e, password |-> password]
<1>1. Account!Become(r, q) /\ UNCHANGED <<users, projects, identities, cookies, replaced,
                                          overlapped>>
  BY DEF Account!StartLogin
<1>2. AccountRequest(q, users, projects, identities, overlapped)
  BY DEF AccountRequest, Typing
<1>3. QED  BY <1>1, <1>2, OnlyTheLogin

LEMMA AuthenticateKeeps ==
    ASSUME AccountInv, NEW r \in Requests, Account!Authenticate(r)
    PROVE AccountInv'
<1>1. /\ logins[r].pc = "authenticate"
      /\ UNCHANGED <<users, projects, identities, cookies, replaced, overlapped>>
  BY DEF Account!Authenticate
<1>2. logins[r] \in Typing  BY <1>1, LoginAt
<1>3. CASE Account!Goto(r, "failed")
  <2>1. [logins[r] EXCEPT !.pc = "failed"] \in Typing  BY <1>2 DEF Typing
  <2>2. AccountRequest([logins[r] EXCEPT !.pc = "failed"], users, projects, identities,
                       overlapped)
    BY <2>1 DEF AccountRequest
  <2>3. QED  BY <1>1, <1>3, <2>2, OnlyTheLogin DEF Account!Goto
<1>4. ASSUME NEW u \in Account!UserOf(logins[r].email),
             Account!WithUser(r, u, "reset")  PROVE AccountInv'
  <2>1. u \in DOMAIN users /\ u \in Nat  BY DEF Account!UserOf, AccountInv, AccountTypes
  <2>2. AccountRequest([pc |-> "reset", user |-> u], users, projects, identities, overlapped)
    BY <2>1 DEF AccountRequest, Entering
  <2>3. QED  BY <1>1, <1>4, <2>2, OnlyTheLogin DEF Account!WithUser
<1>5. QED  BY <1>3, <1>4 DEF Account!Authenticate

LEMMA AttemptsKeep ==
    ASSUME AccountInv, NEW r \in Requests,
           Account!ReadAttempts(r) \/ Account!WriteAttempts(r) \/ Account!ResetAttempts(r)
    PROVE  AccountInv'
<1>1. UNCHANGED <<users, projects, identities, cookies, replaced, overlapped>>
  BY DEF Account!ReadAttempts, Account!WriteAttempts, Account!ResetAttempts
<1>2. CASE Account!ReadAttempts(r)
  <2>1. AccountRequest([pc |-> "count", count |-> attempts], users, projects, identities,
                       overlapped)
    BY DEF AccountRequest
  <2>2. QED  BY <1>1, <1>2, <2>1, OnlyTheLogin DEF Account!ReadAttempts
<1>3. CASE Account!WriteAttempts(r)
  <2>1. AccountRequest(Account!Idle, users, projects, identities, overlapped)
    BY DEF AccountRequest
  <2>2. QED  BY <1>1, <1>3, <2>1, OnlyTheLogin DEF Account!WriteAttempts
<1>4. CASE Account!ResetAttempts(r)
  <2>1. logins[r] \in Entering /\ logins[r].user \in DOMAIN users
    BY <1>4, LoginAt DEF Account!ResetAttempts
  <2>2. AccountRequest([logins[r] EXCEPT !.pc = "project"], users, projects, identities,
                       overlapped)
    BY <2>1 DEF AccountRequest, Entering
  <2>3. QED  BY <1>1, <1>4, <2>2, OnlyTheLogin DEF Account!ResetAttempts, Account!Goto
<1>5. QED  BY <1>2, <1>3, <1>4

LEMMA LookDefaultKeeps ==
    ASSUME AccountInv, NEW r \in Requests, Account!LookDefault(r)
    PROVE AccountInv'
<1>1. /\ logins[r].pc = "project"
      /\ UNCHANGED <<users, projects, identities, cookies, replaced, overlapped>>
  BY DEF Account!LookDefault
<1>2. logins[r] \in Entering /\ logins[r].user \in DOMAIN users  BY <1>1, LoginAt
<1>3. CASE Account!Default(logins[r].user) # {}
  <2>1. HasDefault(projects, logins[r].user)  BY <1>3 DEF Account!Default, HasDefault
  <2>2. AccountRequest([logins[r] EXCEPT !.pc = "cookie"], users, projects, identities,
                       overlapped)
    BY <1>2, <2>1 DEF AccountRequest, Entering
  <2>3. Account!Become(r, [logins[r] EXCEPT !.pc = "cookie"])
    BY <1>3 DEF Account!LookDefault, Account!Goto
  <2>4. QED  BY <1>1, <2>2, <2>3, OnlyTheLogin
<1>4. CASE Account!Default(logins[r].user) = {}
  <2>1. ~HasDefault(projects, logins[r].user)  BY <1>4 DEF Account!Default, HasDefault
  <2>2. AccountRequest([logins[r] EXCEPT !.pc = "default"], users, projects, identities,
                       overlapped)
    BY <1>2, <2>1 DEF AccountRequest, Entering, DefaultAwaits
  <2>3. Account!Become(r, [logins[r] EXCEPT !.pc = "default"])
    BY <1>4 DEF Account!LookDefault, Account!Goto
  <2>4. QED  BY <1>1, <2>2, <2>3, OnlyTheLogin
<1>5. QED  BY <1>3, <1>4

LEMMA StartPasswordKeeps ==
    ASSUME AccountInv, NEW r \in Requests, NEW u, NEW current \in Passwords,
           NEW new \in Passwords, Account!StartPassword(r, u, current, new)
    PROVE  AccountInv'
<1> DEFINE q == [pc |-> IF users[u].password = NoPassword THEN "set" ELSE "verify",
                 user |-> u, current |-> current, new |-> new]
<1>1. /\ Account!Become(r, q) /\ Account!SignedIn(u)
      /\ UNCHANGED <<users, projects, identities, cookies, replaced, overlapped>>
  BY DEF Account!StartPassword
<1>2. u \in DOMAIN users /\ HasDefault(projects, u) /\ u \in Nat
  BY <1>1, SignedInHasDefault DEF AccountInv, AccountTypes
<1>3. q \in Replacing /\ q.user = u  BY <1>2 DEF Replacing
<1> HIDE DEF q
<1>4. AccountRequest(q, users, projects, identities, overlapped)  BY <1>2, <1>3 DEF AccountRequest
<1>5. QED  BY <1>1, <1>4, OnlyTheLogin

LEMMA VerifyPasswordKeeps ==
    ASSUME AccountInv, NEW r \in Requests, Account!VerifyPassword(r)
    PROVE  AccountInv'
<1>1. /\ logins[r].pc = "verify"
      /\ UNCHANGED <<users, projects, identities, cookies, replaced, overlapped>>
  BY DEF Account!VerifyPassword
<1>2. CASE Account!Become(r, Account!Idle)
  <2>1. AccountRequest(Account!Idle, users, projects, identities, overlapped)
    BY DEF AccountRequest
  <2>2. QED  BY <1>1, <1>2, <2>1, OnlyTheLogin
<1>3. CASE Account!Goto(r, "replace")
  <2>1. /\ logins[r] \in Replacing /\ logins[r].user \in DOMAIN users
        /\ HasDefault(projects, logins[r].user)
    BY <1>1, LoginAt
  <2>2. [logins[r] EXCEPT !.pc = "replace"] \in Replacing
        /\ [logins[r] EXCEPT !.pc = "replace"].user = logins[r].user
    BY <2>1 DEF Replacing
  <2>3. AccountRequest([logins[r] EXCEPT !.pc = "replace"], users, projects, identities,
                       overlapped)
    BY <2>1, <2>2 DEF AccountRequest
  <2>4. QED  BY <1>1, <1>3, <2>3, OnlyTheLogin DEF Account!Goto
<1>4. QED  BY <1>2, <1>3 DEF Account!VerifyPassword

LEMMA StartGitHubKeeps ==
    ASSUME AccountInv, NEW r \in Requests, NEW g \in Logins, NEW e \in Emails,
           Account!StartGitHub(r, g, e)
    PROVE  AccountInv'
<1>1. UNCHANGED <<users, projects, identities, cookies, replaced, overlapped>>
  BY DEF Account!StartGitHub
<1>2. CASE g \in DOMAIN identities
  <2> DEFINE q == [pc |-> "link", user |-> identities[g], login |-> g]
  <2>1. identities[g] \in DOMAIN users /\ identities[g] \in Nat
    BY <1>2 DEF AccountInv, AccountTypes
  <2>2. AccountRequest(q, users, projects, identities, overlapped)
    BY <1>2, <2>1 DEF AccountRequest, Linking, MayLink
  <2>3. Account!Become(r, q)  BY <1>2 DEF Account!StartGitHub
  <2>4. QED  BY <1>1, <2>2, <2>3, OnlyTheLogin
<1>3. CASE g \notin DOMAIN identities
  <2> DEFINE q == [pc |-> "email", login |-> g, email |-> e]
  <2>1. AccountRequest(q, users, projects, identities, overlapped)  BY DEF AccountRequest, Mailed
  <2>2. Account!Become(r, q)  BY <1>3 DEF Account!StartGitHub
  <2>3. QED  BY <1>1, <2>1, <2>2, OnlyTheLogin
<1>4. QED  BY <1>2, <1>3

LEMMA FindByEmailKeeps ==
    ASSUME AccountInv, NEW r \in Requests, Account!FindByEmail(r)
    PROVE AccountInv'
<1>1. /\ logins[r].pc = "email"
      /\ UNCHANGED <<users, projects, identities, cookies, replaced, overlapped>>
  BY DEF Account!FindByEmail
<1>2. logins[r] \in Mailed  BY <1>1, LoginAt
<1>3. CASE Account!UserOf(logins[r].email) = {}
  <2>1. [logins[r] EXCEPT !.pc = "register"] \in Mailed  BY <1>2 DEF Mailed
  <2>2. AccountRequest([logins[r] EXCEPT !.pc = "register"], users, projects, identities,
                       overlapped)
    BY <2>1 DEF AccountRequest
  <2>3. Account!Goto(r, "register")  BY <1>3 DEF Account!FindByEmail
  <2>4. QED  BY <1>1, <2>2, <2>3, OnlyTheLogin DEF Account!Goto
<1>4. CASE Account!UserOf(logins[r].email) # {}
  <2> DEFINE q(u) == [pc |-> "link", user |-> u, login |-> logins[r].login]
  <2>1. PICK u \in Account!UserOf(logins[r].email) :
            Account!Become(r, IF Account!Linked(u) \ {logins[r].login} # {} THEN Account!Idle
                              ELSE q(u))
    BY <1>4 DEF Account!FindByEmail
  <2>2. CASE Account!Linked(u) \ {logins[r].login} # {}
    <3>1. AccountRequest(Account!Idle, users, projects, identities, overlapped)
      BY DEF AccountRequest
    <3>2. Account!Become(r, Account!Idle)  BY <2>1, <2>2
    <3>3. QED  BY <1>1, <3>1, <3>2, OnlyTheLogin
  <2>3. CASE Account!Linked(u) \subseteq {logins[r].login}
    <3>1. u \in DOMAIN users /\ u \in Nat  BY DEF Account!UserOf, AccountInv, AccountTypes
    <3>2. MayLink(identities, u, logins[r].login, overlapped)  BY <2>3 DEF MayLink, Account!Linked
    <3>3. AccountRequest(q(u), users, projects, identities, overlapped)
      BY <1>2, <3>1, <3>2 DEF AccountRequest, Linking, Mailed
    <3>4. Account!Become(r, q(u))  BY <2>1, <2>3
    <3>5. QED  BY <1>1, <3>3, <3>4, OnlyTheLogin
  <2>4. QED  BY <2>2, <2>3
<1>5. QED  BY <1>3, <1>4

LEMMA AccountAbandonKeeps ==
    ASSUME AccountInv, NEW r \in Requests, Account!Abandon(r)
    PROVE AccountInv'
<1>1. AccountRequest(Account!Idle, users, projects, identities, overlapped)  BY DEF AccountRequest
<1>2. QED  BY <1>1, OnlyTheLogin DEF Account!Abandon
-----------------------------------------------------------------------------
LEMMA UserInserted ==
    ASSUME AccountInv, NEW e \in Emails, NEW password \in Passwords \cup {NoPassword},
           Account!InsertUser(e, password)
    PROVE  /\ users' \in Seq(AccountRows)
           /\ replaced' \in Seq(Nat) /\ Len(replaced') = Len(users')
           /\ DOMAIN users' = DOMAIN users \cup {Len(users) + 1}
           /\ Len(users) + 1 \in Nat /\ Len(users) + 1 \notin DOMAIN users
           /\ \A u \in DOMAIN users' : users'[u].version = replaced'[u]
<1> DEFINE user == [email |-> e, password |-> password, version |-> 0]
<1>1. users' = Append(users, user) /\ replaced' = Append(replaced, 0)  BY DEF Account!InsertUser
<1>2. /\ users \in Seq(AccountRows) /\ replaced \in Seq(Nat) /\ Len(replaced) = Len(users)
      /\ user \in AccountRows /\ user.version = 0
  BY DEF AccountInv, AccountTypes, AccountRows
<1> HIDE DEF user
<1>3. /\ users' \in Seq(AccountRows) /\ DOMAIN users' = DOMAIN users \cup {Len(users) + 1}
      /\ Len(users) + 1 \notin DOMAIN users /\ Len(users) \in Nat
      /\ \A u \in DOMAIN users : users'[u] = users[u]
      /\ users'[Len(users) + 1] = user /\ DOMAIN users = 1..Len(users)
  BY <1>1, <1>2, Grown
<1>4. /\ replaced' \in Seq(Nat) /\ DOMAIN replaced = 1..Len(replaced)
      /\ \A u \in DOMAIN replaced : replaced'[u] = replaced[u]
      /\ replaced'[Len(replaced) + 1] = 0
  BY <1>1, <1>2, Grown
<1>5. Len(users') = Len(users) + 1 /\ Len(replaced') = Len(replaced) + 1  BY <1>1, <1>2
<1>6. \A u \in DOMAIN users' : users'[u].version = replaced'[u]
  BY <1>2, <1>3, <1>4 DEF AccountInv, VersionsCount
<1>7. QED  BY <1>2, <1>3, <1>4, <1>5, <1>6

\* A new account, with the request that made it.
LEMMA AccountOpens ==
    ASSUME AccountInv, NEW e \in Emails, NEW password \in Passwords \cup {NoPassword},
           Account!InsertUser(e, password), NEW r \in Requests, NEW q, Account!Become(r, q),
           UNCHANGED <<projects, identities, cookies, overlapped>>,
           AccountRequest(q, users', projects', identities', overlapped')
    PROVE  AccountInv'
<1>1. /\ users' \in Seq(AccountRows) /\ replaced' \in Seq(Nat) /\ Len(replaced') = Len(users')
      /\ DOMAIN users' = DOMAIN users \cup {Len(users) + 1}
      /\ \A u \in DOMAIN users' : users'[u].version = replaced'[u]
  BY UserInserted
<1>2. ASSUME NEW p \in Requests \ {r}
      PROVE  AccountRequest(logins[p], users', projects', identities', overlapped')
  <2>1. AccountRequest(logins[p], users, projects, identities, overlapped)
    BY DEF AccountInv, LoginsSound
  <2>2. QED  BY <1>1, <2>1, LoginKept
<1>3. LoginsSound' /\ logins' = [p \in Requests |-> logins'[p]]  BY <1>2, LoginMoves
<1>4. identities' \in [DOMAIN identities' -> DOMAIN users']  BY <1>1 DEF AccountInv, AccountTypes
<1>5. AccountTypes'  BY <1>1, <1>3, <1>4 DEF AccountInv, AccountTypes
<1>6. VersionsCount'  BY <1>1 DEF AccountInv, VersionsCount
<1>7. DefaultsHeld' /\ DefaultsAreOne' /\ LinksAreOne'
  BY DEF AccountInv, DefaultsHeld, DefaultsAreOne, LinksAreOne
<1>8. QED  BY <1>3, <1>5, <1>6, <1>7 DEF AccountInv

LEMMA RegisterKeeps ==
    ASSUME AccountInv, NEW r \in Requests, NEW e \in Emails, NEW password \in Passwords,
           Account!Register(r, e, password)
    PROVE  AccountInv'
<1>1. CASE Account!UserOf(e) # {}
  <2>1. UNCHANGED <<users, projects, identities, cookies, replaced, overlapped, logins>>
    BY <1>1 DEF Account!Register
  <2>2. QED
    BY <2>1 DEF AccountInv, AccountTypes, VersionsCount, DefaultsHeld, DefaultsAreOne,
                LinksAreOne, LoginsSound
<1>2. CASE Account!UserOf(e) = {}
  <2> DEFINE q == [pc |-> "project", user |-> Len(users) + 1]
  <2>1. /\ Account!InsertUser(e, password) /\ Account!Become(r, q)
        /\ UNCHANGED <<projects, identities, cookies, overlapped>>
    BY <1>2 DEF Account!Register, Account!WithUser
  <2>2. DOMAIN users' = DOMAIN users \cup {Len(users) + 1} /\ Len(users) + 1 \in Nat
    BY <2>1, UserInserted
  <2>3. AccountRequest(q, users', projects', identities', overlapped')
    BY <2>2 DEF AccountRequest, Entering
  <2>4. QED  BY <2>1, <2>3, AccountOpens
<1>3. QED  BY <1>1, <1>2

LEMMA RegisterExternalKeeps ==
    ASSUME AccountInv, NEW r \in Requests, Account!RegisterExternal(r)
    PROVE  AccountInv'
<1>1. /\ logins[r].pc = "register"
      /\ UNCHANGED <<projects, identities, cookies, overlapped>>
  BY DEF Account!RegisterExternal
<1>2. logins[r] \in Mailed /\ logins[r].email \in Emails /\ logins[r].login \in Logins
  BY <1>1, LoginAt DEF Mailed
<1>3. CASE Account!UserOf(logins[r].email) # {}
  <2>1. Account!Goto(r, "raised") /\ UNCHANGED <<users, replaced>>
    BY <1>3 DEF Account!RegisterExternal
  <2>2. [logins[r] EXCEPT !.pc = "raised"] \in Mailed  BY <1>2 DEF Mailed
  <2>3. AccountRequest([logins[r] EXCEPT !.pc = "raised"], users, projects, identities,
                       overlapped)
    BY <2>2 DEF AccountRequest
  <2>4. QED  BY <1>1, <2>1, <2>3, OnlyTheLogin DEF Account!Goto
<1>4. CASE Account!UserOf(logins[r].email) = {}
  <2> DEFINE q == [pc |-> "link", user |-> Len(users) + 1, login |-> logins[r].login]
  <2>1. Account!InsertUser(logins[r].email, NoPassword) /\ Account!Become(r, q)
    BY <1>4 DEF Account!RegisterExternal
  <2>2. /\ DOMAIN users' = DOMAIN users \cup {Len(users) + 1} /\ Len(users) + 1 \in Nat
        /\ Len(users) + 1 \notin DOMAIN users
    BY <1>2, <2>1, UserInserted
  <2>3. \A h \in DOMAIN identities : identities[h] # Len(users) + 1
    BY <2>2 DEF AccountInv, AccountTypes
  <2>4. MayLink(identities', Len(users) + 1, logins[r].login, overlapped')
    BY <1>1, <2>3 DEF MayLink
  <2>5. q \in Linking /\ q.user = Len(users) + 1 /\ q.login = logins[r].login
    BY <1>2, <2>2 DEF Linking
  <2> HIDE DEF q
  <2>6. AccountRequest(q, users', projects', identities', overlapped')
    BY <2>2, <2>4, <2>5 DEF AccountRequest
  <2>7. QED  BY <1>1, <1>2, <2>1, <2>6, AccountOpens
<1>5. QED  BY <1>3, <1>4

\* One account gets another password, and its version goes up with it.
LEMMA Replaced ==
    ASSUME AccountInv, NEW u \in DOMAIN users, NEW password \in Passwords,
           Account!Replace(u, password)
    PROVE  /\ users' \in Seq(AccountRows)
           /\ replaced' \in Seq(Nat) /\ Len(replaced') = Len(users')
           /\ DOMAIN users' = DOMAIN users
           /\ \A v \in DOMAIN users' : users'[v].version = replaced'[v]
<1> DEFINE user == [users[u] EXCEPT !.password = password, !.version = users[u].version + 1]
<1> DEFINE count == replaced[u] + 1
<1>1. users' = [users EXCEPT ![u] = user] /\ replaced' = [replaced EXCEPT ![u] = count]
  BY DEF Account!Replace
<1>2. /\ users \in Seq(AccountRows) /\ replaced \in Seq(Nat) /\ Len(replaced) = Len(users)
      /\ users[u] \in AccountRows /\ users[u].version = replaced[u]
      /\ u \in DOMAIN replaced /\ replaced[u] \in Nat
  BY DEF AccountInv, AccountTypes, VersionsCount
<1>3. user \in AccountRows /\ user.version = replaced[u] + 1
  <2>1. users[u].version + 1 \in Nat /\ users[u].version + 1 = replaced[u] + 1  BY <1>2
  <2>2. QED  BY <1>2, <2>1 DEF AccountRows
<1>4. count \in Nat /\ count = replaced[u] + 1  BY <1>2
<1> HIDE DEF user, count
<1>5. /\ users' \in Seq(AccountRows) /\ DOMAIN users' = DOMAIN users /\ Len(users') = Len(users)
      /\ \A v \in DOMAIN users : users'[v] = IF v = u THEN user ELSE users[v]
  BY <1>1, <1>2, <1>3, Changed
<1>6. /\ replaced' \in Seq(Nat) /\ Len(replaced') = Len(replaced)
      /\ \A v \in DOMAIN replaced : replaced'[v] = IF v = u THEN count ELSE replaced[v]
  BY <1>1, <1>2, <1>4, Changed
<1>7. DOMAIN replaced = DOMAIN users  BY <1>2
<1>8. QED  BY <1>2, <1>3, <1>4, <1>5, <1>6, <1>7 DEF AccountInv, VersionsCount

\* The rest of a replacement: the request that asked for it moves on, or none did.
LEMMA ReplacementKeeps ==
    ASSUME AccountInv, NEW u \in DOMAIN users, NEW password \in Passwords,
           Account!Replace(u, password),
           UNCHANGED <<projects, identities, cookies, overlapped>>,
           \/ logins' = logins
           \/ \E r \in Requests : Account!WithUser(r, u, "cookie") /\ HasDefault(projects, u)
    PROVE  AccountInv'
<1>1. /\ users' \in Seq(AccountRows) /\ replaced' \in Seq(Nat) /\ Len(replaced') = Len(users')
      /\ DOMAIN users' = DOMAIN users
      /\ \A v \in DOMAIN users' : users'[v].version = replaced'[v]
  BY Replaced
<1>2. ASSUME NEW p \in Requests
      PROVE  AccountRequest(logins[p], users', projects', identities', overlapped')
  <2>1. AccountRequest(logins[p], users, projects, identities, overlapped)
    BY DEF AccountInv, LoginsSound
  <2>2. QED  BY <1>1, <2>1, LoginKept
<1>3. LoginsSound' /\ logins' = [p \in Requests |-> logins'[p]]
  <2>1. CASE logins' = logins  BY <1>2, <2>1 DEF LoginsSound, AccountInv, AccountTypes
  <2>2. ASSUME NEW r \in Requests, Account!WithUser(r, u, "cookie"), HasDefault(projects, u)
        PROVE  LoginsSound' /\ logins' = [p \in Requests |-> logins'[p]]
    <3>1. u \in Nat  BY DEF AccountInv, AccountTypes
    <3>2. AccountRequest([pc |-> "cookie", user |-> u], users', projects', identities',
                         overlapped')
      BY <1>1, <2>2, <3>1 DEF AccountRequest, Entering
    <3>3. QED  BY <1>2, <2>2, <3>2, LoginMoves DEF Account!WithUser
  <2>3. QED  BY <2>1, <2>2
<1>4. AccountTypes'  BY <1>1, <1>3 DEF AccountInv, AccountTypes
<1>5. VersionsCount'  BY <1>1 DEF AccountInv, VersionsCount
<1>6. DefaultsHeld' /\ DefaultsAreOne' /\ LinksAreOne'
  BY DEF AccountInv, DefaultsHeld, DefaultsAreOne, LinksAreOne
<1>7. QED  BY <1>3, <1>4, <1>5, <1>6 DEF AccountInv

LEMMA SetPasswordKeeps ==
    ASSUME AccountInv, NEW r \in Requests, Account!SetPassword(r)
    PROVE AccountInv'
<1>1. logins[r].pc = "set" /\ UNCHANGED <<projects, identities, cookies, overlapped>>
  BY DEF Account!SetPassword
<1>2. /\ logins[r] \in Replacing /\ logins[r].user \in DOMAIN users
      /\ HasDefault(projects, logins[r].user) /\ logins[r].new \in Passwords
  BY <1>1, LoginAt DEF Replacing
<1>3. CASE users[logins[r].user].password = NoPassword
  BY <1>1, <1>2, <1>3, ReplacementKeeps DEF Account!SetPassword
<1>4. CASE users[logins[r].user].password # NoPassword
  <2>1. AccountRequest(Account!Idle, users, projects, identities, overlapped)
    BY DEF AccountRequest
  <2>2. Account!Become(r, Account!Idle) /\ UNCHANGED <<users, replaced>>
    BY <1>4 DEF Account!SetPassword
  <2>3. QED  BY <1>1, <2>1, <2>2, OnlyTheLogin
<1>5. QED  BY <1>3, <1>4

LEMMA ChangePasswordKeeps ==
    ASSUME AccountInv, NEW r \in Requests, Account!ChangePassword(r)
    PROVE  AccountInv'
<1>1. logins[r].pc = "replace" /\ UNCHANGED <<projects, identities, cookies, overlapped>>
  BY DEF Account!ChangePassword
<1>2. /\ logins[r] \in Replacing /\ logins[r].user \in DOMAIN users
      /\ HasDefault(projects, logins[r].user) /\ logins[r].new \in Passwords
  BY <1>1, LoginAt DEF Replacing
<1>3. QED  BY <1>1, <1>2, ReplacementKeeps DEF Account!ChangePassword

LEMMA ResetPasswordKeeps ==
    ASSUME AccountInv, NEW u \in DOMAIN users, NEW new \in Passwords,
           Account!ResetPassword(u, new)
    PROVE  AccountInv'
BY ReplacementKeeps DEF Account!ResetPassword

LEMMA MintCookieKeeps ==
    ASSUME AccountInv, NEW r \in Requests, Account!MintCookie(r)
    PROVE AccountInv'
<1> DEFINE u == logins[r].user
<1> DEFINE cookie == [user |-> u, version |-> users[u].version, after |-> replaced[u]]
<1>1. /\ logins[r].pc = "cookie" /\ cookies' = cookies \cup {cookie}
      /\ Account!Become(r, Account!Idle)
      /\ UNCHANGED <<users, projects, identities, replaced, overlapped>>
  BY DEF Account!MintCookie
<1>2. u \in DOMAIN users /\ HasDefault(projects, u)  BY <1>1, LoginAt
<1>3. /\ users[u] \in AccountRows /\ users[u].version = replaced[u] /\ u \in Nat
  BY <1>2 DEF AccountInv, AccountTypes, VersionsCount
<1>4. cookie \in Cookies /\ cookie.user = u /\ cookie.version = cookie.after
  BY <1>3 DEF Cookies, AccountRows
<1> HIDE DEF cookie, u
<1>5. AccountRequest(Account!Idle, users', projects', identities', overlapped')
  BY DEF AccountRequest
<1>6. \A p \in Requests \ {r} :
          AccountRequest(logins[p], users', projects', identities', overlapped')
  BY <1>1 DEF AccountInv, LoginsSound
<1>7. LoginsSound' /\ logins' = [p \in Requests |-> logins'[p]]  BY <1>1, <1>5, <1>6, LoginMoves
<1>8. AccountTypes'  BY <1>1, <1>4, <1>7 DEF AccountInv, AccountTypes
<1>9. VersionsCount'  BY <1>1, <1>2, <1>4 DEF AccountInv, VersionsCount
<1>10. DefaultsHeld'  BY <1>1, <1>2, <1>4 DEF AccountInv, DefaultsHeld
<1>11. DefaultsAreOne' /\ LinksAreOne'  BY <1>1 DEF AccountInv, DefaultsAreOne, LinksAreOne
<1>12. QED  BY <1>7, <1>8, <1>9, <1>10, <1>11 DEF AccountInv
-----------------------------------------------------------------------------
\* The projects change, and at most one request with them.
LEMMA ProjectsChange ==
    ASSUME AccountInv, UNCHANGED <<users, identities, cookies, replaced>>,
           overlapped \subseteq overlapped', projects' \subseteq ProjectRows,
           \A u : HasDefault(projects, u) => HasDefault(projects', u),
           \A p \in projects' : (p.default => ~p.archived) /\ HasDefault(projects', p.user),
           DefaultsAreOne',
           \A q \in Requests : logins[q].pc = "default" =>
               (DefaultAwaits(projects, logins[q].user, overlapped)
                   => DefaultAwaits(projects', logins[q].user, overlapped')),
           \/ logins' = logins
           \/ \E r \in Requests : \E q :
                 /\ Account!Become(r, q)
                 /\ AccountRequest(q, users', projects', identities', overlapped')
    PROVE  AccountInv'
<1>1. ASSUME NEW p \in Requests
      PROVE  AccountRequest(logins[p], users', projects', identities', overlapped')
  <2>1. AccountRequest(logins[p], users, projects, identities, overlapped)
    BY DEF AccountInv, LoginsSound
  <2>2. MayLink(identities, logins[p].user, logins[p].login, overlapped)
           => MayLink(identities', logins[p].user, logins[p].login, overlapped')
    BY DEF MayLink
  <2>3. QED  BY <2>1, <2>2, LoginKept
<1>2. LoginsSound' /\ logins' = [p \in Requests |-> logins'[p]]
  <2>1. CASE logins' = logins  BY <1>1, <2>1 DEF LoginsSound, AccountInv, AccountTypes
  <2>2. ASSUME NEW r \in Requests, NEW q, Account!Become(r, q),
               AccountRequest(q, users', projects', identities', overlapped')
        PROVE  LoginsSound' /\ logins' = [p \in Requests |-> logins'[p]]
    BY <1>1, <2>2, LoginMoves
  <2>3. QED  BY <2>1, <2>2
<1>3. AccountTypes'  BY <1>2 DEF AccountInv, AccountTypes
<1>4. VersionsCount'  BY DEF AccountInv, VersionsCount
<1>5. DefaultsHeld'  BY DEF AccountInv, DefaultsHeld
<1>6. LinksAreOne'  BY DEF AccountInv, LinksAreOne
<1>7. QED  BY <1>2, <1>3, <1>4, <1>5, <1>6 DEF AccountInv

LEMMA InsertDefaultKeeps ==
    ASSUME AccountInv, NEW r \in Requests, Account!InsertDefault(r)
    PROVE AccountInv'
<1> DEFINE u == logins[r].user
<1> DEFINE q == [logins[r] EXCEPT !.pc = "cookie"]
<1> DEFINE back == [logins[r] EXCEPT !.pc = "undone"]
<1> DEFINE new == [user |-> u, name |-> "personal", default |-> TRUE, archived |-> FALSE]
<1> DEFINE made == IF Account!Named(u, "personal") # {} THEN projects ELSE projects \cup {new}
<1> DEFINE Single == \E p \in made : {d \in made : d.user = u /\ d.default} = {p}
<1>1. logins[r].pc = "default" /\ UNCHANGED <<users, identities, cookies, replaced, overlapped>>
  BY DEF Account!InsertDefault
<1>2. /\ logins[r] \in Entering /\ u \in DOMAIN users /\ u \in Nat
      /\ DefaultAwaits(projects, u, overlapped)
  <2>1. /\ logins[r] \in Entering /\ u \in DOMAIN users
        /\ DefaultAwaits(projects, u, overlapped)
    BY <1>1, LoginAt
  <2>2. QED  BY <2>1 DEF AccountInv, AccountTypes
<1>3. q \in Entering /\ q.user = u /\ q.pc = "cookie"  BY <1>2 DEF Entering
<1>4. back \in Entering /\ back.user = u /\ back.pc = "undone"  BY <1>2 DEF Entering
<1>5. /\ new \in ProjectRows /\ new.user = u /\ new.name = "personal" /\ new.default
      /\ ~new.archived
  BY <1>2 DEF ProjectRows, ProjectNames
<1>6. IF Single THEN projects' = made /\ Account!Become(r, q)
      ELSE projects' = projects /\ Account!Become(r, back)
  BY DEF Account!InsertDefault, Account!Goto
<1>7. CASE Account!Named(u, "personal") # {}
  <2>1. made = projects  BY <1>7
  <2>2. HasDefault(projects, u)  BY <1>7 DEF Account!Named, AccountInv, DefaultsHeld
  <2>3. PICK p \in projects : p.user = u /\ p.default  BY <2>2 DEF HasDefault
  <2> HIDE DEF q, back, new, u
  <2>4. \A d \in projects : d.user = u /\ d.default => d = p
    BY <2>3 DEF AccountInv, DefaultsAreOne
  <2>5. {d \in projects : d.user = u /\ d.default} = {p}  BY <2>3, <2>4
  <2>6. Single  BY <2>1, <2>3, <2>5
  <2>7. projects' = projects /\ Account!Become(r, q)  BY <1>6, <2>1, <2>6
  <2>8. AccountRequest(q, users, projects, identities, overlapped)
    BY <1>2, <1>3, <2>2 DEF AccountRequest
  <2>9. QED  BY <1>1, <2>7, <2>8, OnlyTheLogin
<1>8. CASE Account!Named(u, "personal") = {} /\ HasDefault(projects, u)
  <2>1. made = projects \cup {new}  BY <1>8
  <2>2. PICK p \in projects : p.user = u /\ p.default  BY <1>8 DEF HasDefault
  <2>3. <<u, "default">> \in overlapped  BY <1>2, <1>8 DEF DefaultAwaits, Account!Named
  <2>4. p # new  BY <1>5, <1>8, <2>2 DEF Account!Named
  <2> HIDE DEF q, back, new, u
  <2>5. ~Single
    <3> SUFFICES ASSUME NEW d, {e \in made : e.user = u /\ e.default} = {d}  PROVE FALSE
      OBVIOUS
    <3>1. p \in {e \in made : e.user = u /\ e.default}  BY <2>1, <2>2
    <3>2. new \in {e \in made : e.user = u /\ e.default}  BY <1>5, <2>1
    <3>3. QED  BY <2>4, <3>1, <3>2
  <2>6. projects' = projects /\ Account!Become(r, back)  BY <1>6, <2>5
  <2>7. AccountRequest(back, users, projects, identities, overlapped)
    BY <1>2, <1>4, <2>3 DEF AccountRequest
  <2>8. QED  BY <1>1, <2>6, <2>7, OnlyTheLogin
<1>9. CASE Account!Named(u, "personal") = {} /\ ~HasDefault(projects, u)
  <2>1. made = projects \cup {new}  BY <1>9
  <2> HIDE DEF q, back, new, u
  <2>2. {d \in made : d.user = u /\ d.default} = {new}  BY <1>5, <1>9, <2>1 DEF HasDefault
  <2>3. Single  BY <2>1, <2>2
  <2>4. projects' = projects \cup {new} /\ Account!Become(r, q)  BY <1>6, <2>1, <2>3
  <2>5. \A v : HasDefault(projects, v) => HasDefault(projects', v)  BY <2>4 DEF HasDefault
  <2>6. HasDefault(projects', u)  BY <1>5, <2>4 DEF HasDefault
  <2>7. AccountRequest(q, users', projects', identities', overlapped')
    BY <1>1, <1>2, <1>3, <2>6 DEF AccountRequest
  <2>8. \A p \in projects' : (p.default => ~p.archived) /\ HasDefault(projects', p.user)
    BY <1>5, <2>4, <2>5, <2>6 DEF AccountInv, DefaultsHeld
  <2>9. DefaultsAreOne'
    <3> SUFFICES ASSUME NEW p \in projects', NEW o \in projects', p.default, o.default,
                        p.user = o.user
                 PROVE  p = o
      BY DEF DefaultsAreOne
    <3>1. CASE p \in projects /\ o \in projects  BY <3>1 DEF AccountInv, DefaultsAreOne
    <3>2. CASE p = new /\ o \in projects  BY <1>5, <1>9, <3>2 DEF HasDefault
    <3>3. CASE p \in projects /\ o = new  BY <1>5, <1>9, <3>3 DEF HasDefault
    <3>4. QED  BY <2>4, <3>1, <3>2, <3>3
  <2>10. ASSUME NEW p \in Requests, DefaultAwaits(projects, logins[p].user, overlapped)
         PROVE  DefaultAwaits(projects', logins[p].user, overlapped')
    <3>1. CASE logins[p].user = u  BY <1>5, <2>4, <3>1 DEF DefaultAwaits
    <3>2. CASE logins[p].user # u
      BY <1>1, <1>5, <2>4, <2>10, <3>2 DEF DefaultAwaits, HasDefault
    <3>3. QED  BY <3>1, <3>2
  <2>11. projects' \subseteq ProjectRows  BY <1>5, <2>4 DEF AccountInv, AccountTypes
  <2>12. QED  BY <1>1, <2>4, <2>5, <2>7, <2>8, <2>9, <2>10, <2>11, ProjectsChange
<1>10. QED  BY <1>7, <1>8, <1>9

LEMMA CreateProjectKeeps ==
    ASSUME AccountInv, NEW u, NEW name \in ProjectNames, Account!CreateProject(u, name)
    PROVE  AccountInv'
<1> DEFINE new == [user |-> u, name |-> name, default |-> FALSE, archived |-> FALSE]
<1>1. /\ Account!SignedIn(u) /\ projects' = projects \cup {new}
      /\ UNCHANGED <<users, identities, logins, cookies, replaced, overlapped>>
  BY DEF Account!CreateProject
<1>2. u \in DOMAIN users /\ HasDefault(projects, u) /\ u \in Nat
  BY <1>1, SignedInHasDefault DEF AccountInv, AccountTypes
<1>3. new \in ProjectRows /\ new.user = u /\ ~new.default  BY <1>2 DEF ProjectRows
<1> HIDE DEF new
<1>4. \A v : HasDefault(projects, v) <=> HasDefault(projects', v)  BY <1>1, <1>3 DEF HasDefault
<1>5. \A p \in projects' : (p.default => ~p.archived) /\ HasDefault(projects', p.user)
  BY <1>1, <1>2, <1>3, <1>4 DEF AccountInv, DefaultsHeld
<1>6. DefaultsAreOne'  BY <1>1, <1>3 DEF AccountInv, DefaultsAreOne
<1>7. \A p \in Requests : DefaultAwaits(projects, logins[p].user, overlapped)
                            => DefaultAwaits(projects', logins[p].user, overlapped')
  BY <1>1, <1>4 DEF DefaultAwaits
<1>8. projects' \subseteq ProjectRows  BY <1>1, <1>3 DEF AccountInv, AccountTypes
<1>9. QED  BY <1>1, <1>4, <1>5, <1>6, <1>7, <1>8, ProjectsChange

\* One project is replaced by another of the same user that is its default or not as it was.
LEMMA ProjectChanges ==
    ASSUME AccountInv, NEW p \in projects, NEW t \in ProjectRows,
           t.user = p.user, t.default = p.default, t.default => ~t.archived,
           projects' = (projects \ {p}) \cup {t}
    PROVE  /\ projects' \subseteq ProjectRows
           /\ \A u : HasDefault(projects, u) <=> HasDefault(projects', u)
           /\ \A o \in projects' : (o.default => ~o.archived) /\ HasDefault(projects', o.user)
           /\ DefaultsAreOne'
<1>1. projects' \subseteq ProjectRows  BY DEF AccountInv, AccountTypes
<1>2. ASSUME NEW u, HasDefault(projects, u)  PROVE HasDefault(projects', u)
  <2>1. PICK o \in projects : o.user = u /\ o.default  BY <1>2 DEF HasDefault
  <2>2. CASE o = p  BY <2>1, <2>2 DEF HasDefault
  <2>3. CASE o # p  BY <2>1, <2>3 DEF HasDefault
  <2>4. QED  BY <2>2, <2>3
<1>3. ASSUME NEW u, HasDefault(projects', u)  PROVE HasDefault(projects, u)
  <2>1. PICK o \in projects' : o.user = u /\ o.default  BY <1>3 DEF HasDefault
  <2>2. CASE o = t  BY <2>1, <2>2 DEF HasDefault
  <2>3. CASE o # t  BY <2>1, <2>3 DEF HasDefault
  <2>4. QED  BY <2>2, <2>3
<1>4. ASSUME NEW o \in projects'
      PROVE  (o.default => ~o.archived) /\ HasDefault(projects', o.user)
  <2>1. CASE o = t  BY <1>2, <2>1 DEF AccountInv, DefaultsHeld
  <2>2. CASE o # t  BY <1>2, <2>2 DEF AccountInv, DefaultsHeld
  <2>3. QED  BY <2>1, <2>2
<1>5. DefaultsAreOne'
  <2> SUFFICES ASSUME NEW o \in projects', NEW n \in projects', o.default, n.default,
                      o.user = n.user
               PROVE  o = n
    BY DEF DefaultsAreOne
  <2>1. \A x, y \in projects : x.default /\ y.default /\ x.user = y.user => x = y
    BY DEF AccountInv, DefaultsAreOne
  <2>2. CASE o = t /\ n # t  BY <2>1, <2>2
  <2>3. CASE o # t /\ n = t  BY <2>1, <2>3
  <2>4. CASE o # t /\ n # t  BY <2>1, <2>4
  <2>5. QED  BY <2>2, <2>3, <2>4
<1>6. QED  BY <1>1, <1>2, <1>3, <1>4, <1>5

LEMMA RenameProjectKeeps ==
    ASSUME AccountInv, NEW p \in projects, NEW name \in ProjectNames,
           Account!RenameProject(p, name)
    PROVE  AccountInv'
<1> DEFINE t == [p EXCEPT !.name = name]
<1> DEFINE met == {<<p.user, "default">> : q \in {q \in Requests : /\ p.default
                                                                 /\ logins[q].pc = "default"
                                                                 /\ logins[q].user = p.user}}
<1>1. /\ projects' = (projects \ {p}) \cup {t} /\ overlapped' = overlapped \cup met
      /\ UNCHANGED <<users, identities, logins, cookies, replaced>>
  BY DEF Account!RenameProject
<1>2. p \in ProjectRows /\ (p.default => ~p.archived)
  BY DEF AccountInv, AccountTypes, DefaultsHeld
<1>3. t \in ProjectRows /\ t.user = p.user /\ t.default = p.default /\ (t.default => ~t.archived)
  BY <1>2 DEF ProjectRows
<1> HIDE DEF t
<1>4. \A q \in Requests : p.default /\ logins[q].pc = "default" /\ logins[q].user = p.user
                            => <<p.user, "default">> \in overlapped'
  BY <1>1
<1> HIDE DEF met
<1>5. overlapped \subseteq overlapped'  BY <1>1
<1>6. /\ projects' \subseteq ProjectRows
      /\ \A u : HasDefault(projects, u) <=> HasDefault(projects', u)
      /\ \A o \in projects' : (o.default => ~o.archived) /\ HasDefault(projects', o.user)
      /\ DefaultsAreOne'
  BY <1>1, <1>3, <1>5, ProjectChanges
<1>7. ASSUME NEW q \in Requests, logins[q].pc = "default",
             DefaultAwaits(projects, logins[q].user, overlapped)
      PROVE  DefaultAwaits(projects', logins[q].user, overlapped')
  <2>1. CASE logins[q].user = p.user /\ p.default  BY <1>4, <1>7, <2>1 DEF DefaultAwaits
  <2>2. CASE ~(logins[q].user = p.user /\ p.default)
    BY <1>1, <1>5, <1>6, <1>7, <2>2 DEF DefaultAwaits
  <2>3. QED  BY <2>1, <2>2
<1>8. QED  BY <1>1, <1>5, <1>6, <1>7, ProjectsChange

LEMMA ArchiveProjectKeeps ==
    ASSUME AccountInv, NEW p \in projects, Account!ArchiveProject(p)
    PROVE  AccountInv'
<1> DEFINE t == [p EXCEPT !.archived = TRUE]
<1>1. /\ projects' = (projects \ {p}) \cup {t} /\ ~p.default
      /\ UNCHANGED <<users, identities, logins, cookies, replaced, overlapped>>
  BY DEF Account!ArchiveProject
<1>2. p \in ProjectRows  BY DEF AccountInv, AccountTypes
<1>3. t \in ProjectRows /\ t.user = p.user /\ t.default = p.default /\ ~t.default
      /\ t.name = p.name
  BY <1>1, <1>2 DEF ProjectRows
<1> HIDE DEF t
<1>4. /\ projects' \subseteq ProjectRows
      /\ \A u : HasDefault(projects, u) <=> HasDefault(projects', u)
      /\ \A o \in projects' : (o.default => ~o.archived) /\ HasDefault(projects', o.user)
      /\ DefaultsAreOne'
  BY <1>1, <1>3, ProjectChanges
<1>5. ASSUME NEW q \in Requests, DefaultAwaits(projects, logins[q].user, overlapped)
      PROVE  DefaultAwaits(projects', logins[q].user, overlapped')
  BY <1>1, <1>3, <1>4, <1>5 DEF DefaultAwaits
<1>6. QED  BY <1>1, <1>4, <1>5, ProjectsChange

LEMMA LinkKeeps == ASSUME AccountInv, NEW r \in Requests, Account!Link(r)  PROVE AccountInv'
<1> DEFINE g == logins[r].login
<1> DEFINE u == logins[r].user
<1> DEFINE met == {<<u, "link">> : q \in {q \in Requests \ {r} : logins[q].pc = "link"
                                                   /\ logins[q].user = u}}
<1> DEFINE q == [pc |-> "project", user |-> u]
<1>1. /\ logins[r].pc = "link" /\ Account!Become(r, q) /\ overlapped' = overlapped \cup met
      /\ UNCHANGED <<users, projects, cookies, replaced>>
      /\ identities' = IF g \in DOMAIN identities THEN identities
                       ELSE [h \in DOMAIN identities \cup {g} |->
                                 IF h = g THEN u ELSE identities[h]]
  BY DEF Account!Link, Account!WithUser
<1>2. u \in DOMAIN users /\ u \in Nat /\ MayLink(identities, u, g, overlapped)
  <2>1. u \in DOMAIN users /\ MayLink(identities, u, g, overlapped)  BY <1>1, LoginAt
  <2>2. QED  BY <2>1 DEF AccountInv, AccountTypes
<1>3. AccountRequest(q, users', projects', identities', overlapped')
  <2>1. q \in Entering /\ q.user = u /\ q.pc = "project"  BY <1>2 DEF Entering
  <2> HIDE DEF q, u
  <2>2. QED  BY <1>1, <1>2, <2>1 DEF AccountRequest
<1>4. \A p \in Requests \ {r} : logins[p].pc = "link" /\ logins[p].user = u
                                  => <<u, "link">> \in overlapped'
  BY <1>1
<1> HIDE DEF met, q, g, u
<1>5. overlapped \subseteq overlapped'  BY <1>1
<1>6. identities \in [DOMAIN identities -> DOMAIN users]  BY DEF AccountInv, AccountTypes
<1>7. /\ identities' \in [DOMAIN identities' -> DOMAIN users']
      /\ DOMAIN identities' = DOMAIN identities \cup {g}
      /\ \A h \in DOMAIN identities : identities'[h] = identities[h]
      /\ g \notin DOMAIN identities => identities'[g] = u
  <2>1. CASE g \in DOMAIN identities  BY <1>1, <1>6, <2>1
  <2>2. CASE g \notin DOMAIN identities  BY <1>1, <1>2, <1>6, <2>2
  <2>3. QED  BY <2>1, <2>2
<1>8. ASSUME NEW p \in Requests \ {r}
      PROVE  AccountRequest(logins[p], users', projects', identities', overlapped')
  <2>1. AccountRequest(logins[p], users, projects, identities, overlapped)
    BY DEF AccountInv, LoginsSound
  <2>2. ASSUME logins[p].pc = "link",
               MayLink(identities, logins[p].user, logins[p].login, overlapped)
        PROVE  MayLink(identities', logins[p].user, logins[p].login, overlapped')
    <3>1. CASE logins[p].user = u  BY <1>4, <2>2, <3>1 DEF MayLink
    <3>2. CASE logins[p].user # u
      <4>1. \A h \in DOMAIN identities' : identities'[h] = logins[p].user
               => h \in DOMAIN identities /\ identities[h] = logins[p].user
        BY <1>7, <3>2
      <4>2. QED  BY <1>5, <1>7, <2>2, <4>1 DEF MayLink
    <3>3. QED  BY <3>1, <3>2
  <2>3. DefaultAwaits(projects, logins[p].user, overlapped)
           => DefaultAwaits(projects', logins[p].user, overlapped')
    BY <1>1, <1>5 DEF DefaultAwaits
  <2>4. QED  BY <1>1, <1>5, <2>1, <2>2, <2>3, LoginKept
<1>9. LoginsSound' /\ logins' = [p \in Requests |-> logins'[p]]  BY <1>1, <1>3, <1>8, LoginMoves
<1>10. LinksAreOne'
  <2> SUFFICES ASSUME NEW h \in DOMAIN identities', NEW k \in DOMAIN identities',
                      identities'[h] = identities'[k]
               PROVE  h = k \/ <<identities'[h], "link">> \in overlapped'
    BY DEF LinksAreOne
  <2>1. CASE h \in DOMAIN identities /\ k \in DOMAIN identities
    BY <1>5, <1>7, <2>1 DEF AccountInv, LinksAreOne
  <2>2. g \notin DOMAIN identities => \/ \A x \in DOMAIN identities : identities[x] # u
                                      \/ <<u, "link">> \in overlapped
    BY <1>2 DEF MayLink
  <2>3. CASE g \notin DOMAIN identities /\ h = g /\ k \in DOMAIN identities
    BY <1>5, <1>7, <2>2, <2>3
  <2>4. CASE g \notin DOMAIN identities /\ k = g /\ h \in DOMAIN identities
    BY <1>5, <1>7, <2>2, <2>4
  <2>5. QED  BY <1>7, <2>1, <2>3, <2>4
<1>11. AccountTypes'  BY <1>1, <1>7, <1>9 DEF AccountInv, AccountTypes
<1>12. VersionsCount' /\ DefaultsHeld'  BY <1>1 DEF AccountInv, VersionsCount, DefaultsHeld
<1>13. DefaultsAreOne'  BY <1>1, <1>5 DEF AccountInv, DefaultsAreOne
<1>14. QED  BY <1>9, <1>10, <1>11, <1>12, <1>13 DEF AccountInv

LEMMA WindowEndsKeeps == AccountInv /\ Account!WindowEnds => AccountInv'
BY DEF Account!WindowEnds, AccountInv, AccountTypes, VersionsCount, DefaultsHeld, DefaultsAreOne,
       LinksAreOne, LoginsSound

LEMMA AccountInitInv == Account!AccountInit => AccountInv
BY DEF Account!AccountInit, AccountInv, AccountTypes, VersionsCount, DefaultsHeld, DefaultsAreOne,
       LinksAreOne, LoginsSound, AccountRequest

LEMMA AccountStep == AccountInv /\ Account!AccountNext => AccountInv'
<1> SUFFICES ASSUME AccountInv, Account!AccountNext  PROVE AccountInv'
  OBVIOUS
<1>1. ASSUME NEW r \in Requests, Account!SignIn(r)  PROVE AccountInv'
  BY <1>1, RegisterKeeps, StartLoginKeeps, AuthenticateKeeps, AttemptsKeep, LookDefaultKeeps,
     InsertDefaultKeeps, MintCookieKeeps DEF Account!SignIn
<1>2. ASSUME NEW r \in Requests, Account!GitHub(r)  PROVE AccountInv'
  BY <1>2, StartGitHubKeeps, FindByEmailKeeps, RegisterExternalKeeps, LinkKeeps DEF Account!GitHub
<1>3. ASSUME NEW r \in Requests, Account!Passwording(r)  PROVE AccountInv'
  BY <1>3, StartPasswordKeeps, SetPasswordKeeps, VerifyPasswordKeeps, ChangePasswordKeeps
     DEF Account!Passwording
<1>4. QED
  BY <1>1, <1>2, <1>3, AccountAbandonKeeps, ResetPasswordKeeps, CreateProjectKeeps,
     ArchiveProjectKeeps,
     RenameProjectKeeps, WindowEndsKeeps
     DEF Account!AccountNext, ProjectNames

LEMMA AccountsAreSafe == AccountInv => Account!AccountsSafe
<1> SUFFICES ASSUME AccountInv  PROVE Account!AccountsSafe
  OBVIOUS
<1>1. ASSUME NEW cookie \in cookies
      PROVE  /\ Account!Default(cookie.user) # {}
             /\ \A p \in Account!Default(cookie.user) : ~p.archived
  BY DEF AccountInv, DefaultsHeld, HasDefault, Account!Default
<1>2. ASSUME NEW r \in Requests, logins[r].pc = "undone"
      PROVE  <<logins[r].user, "default">> \in overlapped
  BY <1>2, LoginAt
<1>3. Account!OneDefault
  BY <1>1, <1>2 DEF Account!OneDefault, AccountInv, DefaultsAreOne
<1>4. Account!ReplacementSignsOut
  BY DEF Account!ReplacementSignsOut, Account!Accepted, AccountInv, VersionsCount
<1>5. ASSUME NEW u \in DOMAIN users, <<u, "link">> \notin overlapped
      PROVE  \A g, h \in Account!Linked(u) : g = h
  BY <1>5 DEF AccountInv, LinksAreOne, Account!Linked
<1>6. QED  BY <1>3, <1>4, <1>5 DEF Account!AccountsSafe, Account!OneIdentity
-----------------------------------------------------------------------------
(* OAuth grants (Grants.tla).                                              *)

Codes == [client : Clients, user : Users, used : BOOLEAN, live : BOOLEAN]
Minted == [kind : {"access", "refresh"}, client : Clients, user : Users, revoked : BOOLEAN,
           live : BOOLEAN, code : Nat]
Consent == [pc : {"code"}, user : Users, client : Clients]
Exchange == [pc : {"use", "access", "refresh"}, code : Nat, client : Clients, user : Users]
Rotation == [pc : {"rotate", "access", "refresh"}, token : Nat, client : Clients, user : Users,
             code : Nat]

\* A request or a token acts for the user and the client of its code.
Descends(q, cs) ==
    q.code \in DOMAIN cs /\ q.user = cs[q.code].user /\ q.client = cs[q.code].client
GrantRequest(q, cs, agreed) ==
    \/ q = Grant!Idle
    \/ q \in Consent /\ <<q.user, q.client>> \in agreed
    \/ q \in Exchange \cup Rotation /\ Descends(q, cs) /\ (q.pc # "use" => cs[q.code].used)

GrantTypes ==
    /\ codes \in Seq(Codes) /\ tokens \in Seq(Minted)
    /\ exchanges = [r \in Requests |-> exchanges[r]]
    /\ cutoff \in [Clients -> Nat] /\ granted = [c \in Clients |-> granted[c]]
Agreed ==
    /\ \A i \in DOMAIN codes : <<codes[i].user, codes[i].client>> \in consents
    /\ \A c \in Clients : granted[c] # NoUser => <<granted[c], c>> \in consents
TokensDescend == \A i \in DOMAIN tokens : Descends(tokens[i], codes) /\ codes[tokens[i].code].used
CutoffsPast == \A c \in Clients : cutoff[c] <= Len(tokens)
RequestsDescend == \A r \in Requests : GrantRequest(exchanges[r], codes, consents)

GrantInv ==
    /\ GrantTypes /\ Agreed /\ TokensDescend /\ Grant!RevocationHolds /\ CutoffsPast
    /\ RequestsDescend

\* What codes become keeps what descends from them.
Keeps(cs, ds) ==
    /\ DOMAIN cs \subseteq DOMAIN ds
    /\ \A i \in DOMAIN cs : /\ ds[i].user = cs[i].user /\ ds[i].client = cs[i].client
                            /\ cs[i].used => ds[i].used

LEMMA RequestKept ==
    ASSUME NEW q, NEW cs, NEW ds, NEW agreed, NEW more, Keeps(cs, ds), agreed \subseteq more,
           GrantRequest(q, cs, agreed)
    PROVE  GrantRequest(q, ds, more)
<1>1. CASE q = Grant!Idle  BY <1>1 DEF GrantRequest
<1>2. CASE q \in Consent /\ <<q.user, q.client>> \in agreed  BY <1>2 DEF GrantRequest
<1>3. CASE q \in Exchange \cup Rotation /\ Descends(q, cs) /\ (q.pc # "use" => cs[q.code].used)
  BY <1>3 DEF GrantRequest, Keeps, Descends
<1>4. QED  BY <1>1, <1>2, <1>3 DEF GrantRequest

\* One request moves.
LEMMA RequestMoves ==
    ASSUME GrantInv, NEW r \in Requests, NEW q, Grant!Become(r, q), Keeps(codes, codes'),
           consents \subseteq consents', GrantRequest(q, codes', consents')
    PROVE  RequestsDescend' /\ exchanges' = [p \in Requests |-> exchanges'[p]]
<1>1. exchanges' = [exchanges EXCEPT ![r] = q] /\ exchanges = [p \in Requests |-> exchanges[p]]
  BY DEF Grant!Become, GrantInv, GrantTypes
<1>2. ASSUME NEW p \in Requests  PROVE GrantRequest(exchanges'[p], codes', consents')
  <2>1. CASE p = r  BY <1>1, <2>1
  <2>2. CASE p # r
    <3>1. exchanges'[p] = exchanges[p]  BY <1>1, <2>2
    <3>2. GrantRequest(exchanges[p], codes, consents)  BY DEF GrantInv, RequestsDescend
    <3>3. QED  BY <3>1, <3>2, RequestKept
  <2>3. QED  BY <2>1, <2>2
<1>3. exchanges' = [p \in Requests |-> exchanges'[p]]  BY <1>1
<1>4. QED  BY <1>2, <1>3 DEF RequestsDescend

LEMMA RequestsStay ==
    ASSUME GrantInv, exchanges' = exchanges, Keeps(codes, codes'), consents \subseteq consents'
    PROVE  RequestsDescend' /\ exchanges' = [p \in Requests |-> exchanges'[p]]
<1>1. ASSUME NEW p \in Requests  PROVE GrantRequest(exchanges'[p], codes', consents')
  BY RequestKept DEF GrantInv, RequestsDescend
<1>2. QED  BY <1>1 DEF RequestsDescend, GrantInv, GrantTypes

LEMMA KeepsSame == ASSUME NEW cs  PROVE Keeps(cs, cs)
BY DEF Keeps
-----------------------------------------------------------------------------
\* A step that leaves the tables alone.
LEMMA GrantTablesStay ==
    ASSUME GrantInv, UNCHANGED <<granted, codes, tokens, cutoff>>, consents \subseteq consents'
    PROVE  Agreed' /\ TokensDescend' /\ Grant!RevocationHolds' /\ CutoffsPast'
BY DEF GrantInv, GrantTypes, Agreed, TokensDescend, Grant!RevocationHolds, CutoffsPast

LEMMA GrantTokensStay ==
    ASSUME GrantInv, tokens' = tokens, cutoff' = cutoff, Keeps(codes, codes')
    PROVE  TokensDescend' /\ Grant!RevocationHolds' /\ CutoffsPast'
<1>1. Grant!RevocationHolds' /\ CutoffsPast'  BY DEF GrantInv, Grant!RevocationHolds, CutoffsPast
<1>2. TokensDescend'  BY DEF GrantInv, TokensDescend, Descends, Keeps
<1>3. QED  BY <1>1, <1>2

LEMMA CodeChanges ==
    ASSUME GrantInv, NEW i \in DOMAIN codes, NEW code \in Codes,
           code.user = codes[i].user, code.client = codes[i].client,
           codes[i].used => code.used, codes' = [codes EXCEPT ![i] = code],
           UNCHANGED <<granted, consents>>
    PROVE  codes' \in Seq(Codes) /\ Keeps(codes, codes') /\ Agreed'
<1>1. codes \in Seq(Codes)  BY DEF GrantInv, GrantTypes
<1>2. codes' \in Seq(Codes) /\ DOMAIN codes' = DOMAIN codes
        /\ \A j \in DOMAIN codes : codes'[j] = IF j = i THEN code ELSE codes[j]
  BY <1>1, Changed
<1>3. Keeps(codes, codes')  BY <1>2 DEF Keeps
<1>4. Agreed'  BY <1>2 DEF GrantInv, Agreed
<1>5. QED  BY <1>2, <1>3, <1>4

\* One token is revoked or deleted.
LEMMA TokenChanges ==
    ASSUME GrantInv, NEW i \in DOMAIN tokens, NEW token \in Minted,
           token.user = tokens[i].user, token.client = tokens[i].client,
           token.code = tokens[i].code, token.live => tokens[i].live,
           tokens[i].revoked => token.revoked, tokens' = [tokens EXCEPT ![i] = token],
           UNCHANGED <<granted, codes, consents, cutoff>>
    PROVE  /\ tokens' \in Seq(Minted) /\ Agreed'
           /\ TokensDescend' /\ Grant!RevocationHolds' /\ CutoffsPast'
<1>1. tokens \in Seq(Minted)  BY DEF GrantInv, GrantTypes
<1>2. tokens' \in Seq(Minted) /\ DOMAIN tokens' = DOMAIN tokens /\ Len(tokens') = Len(tokens)
        /\ \A j \in DOMAIN tokens : tokens'[j] = IF j = i THEN token ELSE tokens[j]
  BY <1>1, Changed
<1>3. TokensDescend'  BY <1>2 DEF GrantInv, TokensDescend, Descends
<1>4. Grant!RevocationHolds'  BY <1>2 DEF GrantInv, Grant!RevocationHolds
<1>5. CutoffsPast'  BY <1>2 DEF GrantInv, CutoffsPast
<1>6. Agreed'  BY DEF GrantInv, Agreed
<1>7. QED  BY <1>2, <1>3, <1>4, <1>5, <1>6

LEMMA ApproveKeeps ==
    ASSUME GrantInv, NEW r \in Requests, NEW u \in Users, NEW c \in Clients,
           Grant!Approve(r, u, c)
    PROVE  GrantInv'
<1> DEFINE q == [pc |-> "code", user |-> u, client |-> c]
<1>1. /\ Grant!Become(r, q) /\ UNCHANGED <<codes, tokens, cutoff>>
      /\ consents' = consents \cup {<<u, c>>} /\ granted' = [granted EXCEPT ![c] = u]
  BY DEF Grant!Approve
<1>2. GrantRequest(q, codes', consents')  BY <1>1 DEF GrantRequest, Consent
<1>3. Keeps(codes, codes')  BY <1>1, KeepsSame
<1>4. RequestsDescend' /\ exchanges' = [p \in Requests |-> exchanges'[p]]
  BY <1>1, <1>2, <1>3, RequestMoves
<1>5. TokensDescend' /\ Grant!RevocationHolds' /\ CutoffsPast'  BY <1>1, <1>3, GrantTokensStay
<1>6. Agreed'  BY <1>1 DEF GrantInv, GrantTypes, Agreed
<1>7. GrantTypes'  BY <1>1, <1>4 DEF GrantInv, GrantTypes
<1>8. QED  BY <1>4, <1>5, <1>6, <1>7 DEF GrantInv

LEMMA CreateCodeKeeps == ASSUME GrantInv, NEW r \in Requests, Grant!CreateCode(r)  PROVE GrantInv'
<1> DEFINE code == [client |-> exchanges[r].client, user |-> exchanges[r].user,
                    used |-> FALSE, live |-> TRUE]
<1>1. /\ exchanges[r].pc = "code" /\ codes' = Append(codes, code) /\ Grant!Become(r, Grant!Idle)
      /\ UNCHANGED <<granted, tokens, consents, cutoff>>
  BY DEF Grant!CreateCode
<1>2. exchanges[r] \in Consent /\ <<exchanges[r].user, exchanges[r].client>> \in consents
  BY <1>1 DEF GrantInv, RequestsDescend, GrantRequest, Grant!Idle, Exchange, Rotation
<1>3. code \in Codes  BY <1>2 DEF Codes, Consent
<1>4. codes \in Seq(Codes)  BY DEF GrantInv, GrantTypes
<1> HIDE DEF code
<1>5. /\ codes' \in Seq(Codes) /\ DOMAIN codes' = DOMAIN codes \cup {Len(codes) + 1}
      /\ \A i \in DOMAIN codes : codes'[i] = codes[i]
      /\ codes'[Len(codes) + 1] = code
  BY <1>1, <1>3, <1>4, Grown
<1>6. Keeps(codes, codes')  BY <1>5 DEF Keeps
<1>7. GrantRequest(Grant!Idle, codes', consents')  BY DEF GrantRequest
<1>8. RequestsDescend' /\ exchanges' = [p \in Requests |-> exchanges'[p]]
  BY <1>1, <1>6, <1>7, RequestMoves
<1>9. TokensDescend' /\ Grant!RevocationHolds' /\ CutoffsPast'  BY <1>1, <1>6, GrantTokensStay
<1>10. Agreed'
  <2>1. <<code.user, code.client>> \in consents  BY <1>2 DEF code
  <2>2. QED  BY <1>1, <1>5, <2>1 DEF GrantInv, Agreed
<1>11. GrantTypes'  BY <1>1, <1>5, <1>8 DEF GrantInv, GrantTypes
<1>12. QED  BY <1>8, <1>9, <1>10, <1>11 DEF GrantInv

\* A request goes on to another statement and writes nothing yet.
LEMMA LookKeeps ==
    ASSUME GrantInv, NEW r \in Requests, NEW q, Grant!Become(r, q),
           GrantRequest(q, codes, consents),
           UNCHANGED <<granted, codes, tokens, consents, cutoff>>
    PROVE  GrantInv'
<1>1. Keeps(codes, codes')  BY KeepsSame
<1>2. RequestsDescend' /\ exchanges' = [p \in Requests |-> exchanges'[p]]
  BY <1>1, RequestMoves
<1>3. Agreed' /\ TokensDescend' /\ Grant!RevocationHolds' /\ CutoffsPast'  BY GrantTablesStay
<1>4. GrantTypes'  BY <1>2 DEF GrantInv, GrantTypes
<1>5. QED  BY <1>2, <1>3, <1>4 DEF GrantInv

LEMMA CheckCodeKeeps ==
    ASSUME GrantInv, NEW r \in Requests, NEW i \in DOMAIN codes, Grant!CheckCode(r, i)
    PROVE  GrantInv'
<1> DEFINE q == [pc |-> "use", code |-> i, client |-> codes[i].client, user |-> codes[i].user]
<1>1. codes[i] \in Codes /\ i \in Nat  BY DEF GrantInv, GrantTypes
<1>2. q \in Exchange /\ Descends(q, codes) /\ q.pc = "use"
  BY <1>1 DEF Exchange, Codes, Descends
<1>3. GrantRequest(q, codes, consents)  BY <1>2 DEF GrantRequest
<1>4. QED  BY <1>3, LookKeeps DEF Grant!CheckCode

LEMMA CheckRefreshKeeps ==
    ASSUME GrantInv, NEW r \in Requests, NEW i \in DOMAIN tokens, Grant!CheckRefresh(r, i)
    PROVE  GrantInv'
<1> DEFINE q == [pc |-> "rotate", token |-> i, client |-> tokens[i].client,
                 user |-> tokens[i].user, code |-> tokens[i].code]
<1>1. tokens[i] \in Minted /\ i \in Nat  BY DEF GrantInv, GrantTypes
<1>2. Descends(tokens[i], codes) /\ codes[tokens[i].code].used  BY DEF GrantInv, TokensDescend
<1>3. q \in Rotation /\ Descends(q, codes) /\ codes[q.code].used
  BY <1>1, <1>2 DEF Rotation, Minted, Descends
<1>4. GrantRequest(q, codes, consents)  BY <1>3 DEF GrantRequest
<1>5. QED  BY <1>4, LookKeeps DEF Grant!CheckRefresh

LEMMA GrantAbandonKeeps == ASSUME GrantInv, NEW r \in Requests, Grant!Abandon(r)  PROVE GrantInv'
<1>1. GrantRequest(Grant!Idle, codes, consents)  BY DEF GrantRequest
<1>2. QED  BY <1>1, LookKeeps DEF Grant!Abandon

\* What a request of the token endpoint stands on, and what it is in its next statement.
LEMMA Exchanging ==
    ASSUME GrantInv, NEW r \in Requests,
           exchanges[r].pc \in {"use", "rotate", "access", "refresh"}
    PROVE  /\ exchanges[r] \in Exchange \cup Rotation /\ Descends(exchanges[r], codes)
           /\ exchanges[r].pc # "use" => codes[exchanges[r].code].used
           /\ exchanges[r].user \in Users /\ exchanges[r].client \in Clients
           /\ exchanges[r].code \in DOMAIN codes
           /\ codes[exchanges[r].code] \in Codes
<1>1. /\ exchanges[r] \in Exchange \cup Rotation /\ Descends(exchanges[r], codes)
      /\ exchanges[r].pc # "use" => codes[exchanges[r].code].used
  <2>1. GrantRequest(exchanges[r], codes, consents)  BY DEF GrantInv, RequestsDescend
  <2>2. Grant!Idle.pc = "idle"  BY DEF Grant!Idle
  <2>3. exchanges[r] # Grant!Idle  BY <2>2
  <2>4. exchanges[r] \notin Consent  BY DEF Consent
  <2>5. QED  BY <2>1, <2>3, <2>4 DEF GrantRequest
<1>2. exchanges[r].user \in Users /\ exchanges[r].client \in Clients
  BY <1>1 DEF Exchange, Rotation
<1>3. codes \in Seq(Codes)  BY DEF GrantInv, GrantTypes
<1>4. QED  BY <1>1, <1>2, <1>3 DEF Descends

LEMMA GoesOn ==
    ASSUME NEW q \in Exchange \cup Rotation, NEW pc \in {"access", "refresh"}, NEW cs,
           Descends(q, cs), cs[q.code].used, NEW agreed
    PROVE  GrantRequest([q EXCEPT !.pc = pc], cs, agreed)
<1> DEFINE p == [q EXCEPT !.pc = pc]
<1>1. p.code = q.code /\ p.user = q.user /\ p.client = q.client  BY DEF Exchange, Rotation
<1>2. p \in Exchange \cup Rotation
  <2>1. CASE q \in Exchange  BY <2>1 DEF Exchange
  <2>2. CASE q \in Rotation  BY <2>2 DEF Rotation
  <2>3. QED  BY <2>1, <2>2
<1> HIDE DEF p
<1>3. GrantRequest(p, cs, agreed)  BY <1>1, <1>2 DEF GrantRequest, Descends
<1>4. QED  BY <1>3 DEF p

LEMMA UseCodeKeeps == ASSUME GrantInv, NEW r \in Requests, Grant!UseCode(r)  PROVE GrantInv'
<1> DEFINE q == exchanges[r]
           k == q.code
           code == [codes[k] EXCEPT !.used = TRUE]
           next == [q EXCEPT !.pc = "access"]
<1>1. /\ q.pc = "use" /\ codes' = [codes EXCEPT ![k].used = TRUE] /\ Grant!Become(r, next)
      /\ UNCHANGED <<granted, tokens, consents, cutoff>>
  BY DEF Grant!UseCode, Grant!Goto
<1>2. /\ q \in Exchange \cup Rotation /\ Descends(q, codes) /\ k \in DOMAIN codes
      /\ codes[k] \in Codes
  BY <1>1, Exchanging
<1>3. /\ code \in Codes /\ code.user = codes[k].user /\ code.client = codes[k].client /\ code.used
  BY <1>2 DEF Codes
<1>4. codes' = [codes EXCEPT ![k] = code]  BY <1>1
<1>5. codes'[k] = code  BY <1>2, <1>4
<1> HIDE DEF code, next
<1>6. codes' \in Seq(Codes) /\ Keeps(codes, codes') /\ Agreed'
  BY <1>1, <1>2, <1>3, <1>4, CodeChanges
<1>7. Descends(q, codes') /\ codes'[q.code].used  BY <1>2, <1>3, <1>5, <1>6 DEF Descends, Keeps
<1>8. GrantRequest(next, codes', consents')  BY <1>2, <1>7, GoesOn DEF next
<1>9. RequestsDescend' /\ exchanges' = [p \in Requests |-> exchanges'[p]]
  BY <1>1, <1>6, <1>8, RequestMoves
<1>10. TokensDescend' /\ Grant!RevocationHolds' /\ CutoffsPast'  BY <1>1, <1>6, GrantTokensStay
<1>11. GrantTypes'  BY <1>1, <1>6, <1>9 DEF GrantInv, GrantTypes
<1>12. QED  BY <1>6, <1>9, <1>10, <1>11 DEF GrantInv

LEMMA RevokeRotatedKeeps ==
    ASSUME GrantInv, NEW r \in Requests, Grant!RevokeRotated(r)
    PROVE GrantInv'
<1> DEFINE q == exchanges[r]
           next == [q EXCEPT !.pc = "access"]
           i == q.token
           token == [tokens[i] EXCEPT !.revoked = TRUE]
<1>1. /\ q.pc = "rotate" /\ tokens' = [tokens EXCEPT ![i].revoked = TRUE] /\ Grant!Become(r, next)
      /\ UNCHANGED <<granted, codes, consents, cutoff>>
  BY DEF Grant!RevokeRotated, Grant!Goto
<1>2. q \in Exchange \cup Rotation /\ Descends(q, codes) /\ codes[q.code].used
  BY <1>1, Exchanging
<1>3. Keeps(codes, codes')  BY <1>1, KeepsSame
<1>4. GrantRequest(next, codes', consents')  BY <1>1, <1>2, GoesOn
<1>5. RequestsDescend' /\ exchanges' = [p \in Requests |-> exchanges'[p]]
  BY <1>1, <1>3, <1>4, RequestMoves
<1>6. tokens \in Seq(Minted)  BY DEF GrantInv, GrantTypes
<1>7. /\ tokens' \in Seq(Minted) /\ Agreed' /\ TokensDescend'
      /\ Grant!RevocationHolds' /\ CutoffsPast'
  <2>1. CASE i \in DOMAIN tokens
    <3>1. tokens[i] \in Minted  BY <1>6, <2>1
    <3>2. /\ token \in Minted /\ token.user = tokens[i].user /\ token.client = tokens[i].client
          /\ token.code = tokens[i].code /\ token.live = tokens[i].live /\ token.revoked
      BY <3>1 DEF Minted
    <3>3. tokens' = [tokens EXCEPT ![i] = token]  BY <1>1
    <3> HIDE DEF token
    <3>4. QED  BY <1>1, <2>1, <3>2, <3>3, TokenChanges
  <2>2. CASE i \notin DOMAIN tokens
    <3>1. tokens' = tokens  BY <1>1, <1>6, <2>2
    <3>2. QED  BY <1>1, <1>6, <3>1, GrantTablesStay
  <2>3. QED  BY <2>1, <2>2
<1>8. GrantTypes'  BY <1>1, <1>5, <1>7 DEF GrantInv, GrantTypes
<1>9. QED  BY <1>5, <1>7, <1>8 DEF GrantInv

\* A token is minted after every cutoff.
LEMMA MintKeeps ==
    ASSUME GrantInv, NEW r \in Requests, NEW kind \in {"access", "refresh"},
           exchanges[r].pc = kind,
           tokens' = Append(tokens, [kind |-> kind, client |-> exchanges[r].client,
                                     user |-> exchanges[r].user, revoked |-> FALSE, live |-> TRUE,
                                     code |-> exchanges[r].code]),
           NEW q, Grant!Become(r, q), GrantRequest(q, codes, consents),
           UNCHANGED <<granted, codes, consents, cutoff>>
    PROVE  GrantInv'
<1> DEFINE token == [kind |-> kind, client |-> exchanges[r].client, user |-> exchanges[r].user,
                     revoked |-> FALSE, live |-> TRUE, code |-> exchanges[r].code]
<1>1. /\ Descends(exchanges[r], codes) /\ codes[exchanges[r].code].used
      /\ exchanges[r].user \in Users /\ exchanges[r].client \in Clients
      /\ exchanges[r].code \in DOMAIN codes
  BY Exchanging
<1>2. codes \in Seq(Codes) /\ tokens \in Seq(Minted) /\ cutoff \in [Clients -> Nat]
  BY DEF GrantInv, GrantTypes
<1>3. exchanges[r].code \in Nat  BY <1>1, <1>2
<1>4. token \in Minted  BY <1>1, <1>3 DEF Minted
<1>5. Descends(token, codes) /\ codes[token.code].used  BY <1>1 DEF Descends
<1>6. token.client \in Clients  BY <1>1
<1> HIDE DEF token
<1>7. tokens' = Append(tokens, token)  BY DEF token
<1>8. /\ tokens' \in Seq(Minted) /\ DOMAIN tokens' = DOMAIN tokens \cup {Len(tokens) + 1}
      /\ \A i \in DOMAIN tokens : tokens'[i] = tokens[i]
      /\ tokens'[Len(tokens) + 1] = token
      /\ Len(tokens) \in Nat
  BY <1>2, <1>4, <1>7, Grown
<1>9. Len(tokens') = Len(tokens) + 1  BY <1>2, <1>4, <1>7
<1>10. TokensDescend'  BY <1>5, <1>8 DEF GrantInv, TokensDescend, Descends
<1>11. CutoffsPast'  BY <1>2, <1>8, <1>9 DEF GrantInv, CutoffsPast
<1>12. Grant!RevocationHolds'
  <2>1. cutoff[token.client] < Len(tokens) + 1
    BY <1>2, <1>6, <1>8 DEF GrantInv, CutoffsPast
  <2>2. QED  BY <1>2, <1>8, <2>1 DEF GrantInv, Grant!RevocationHolds
<1>13. Keeps(codes, codes')  BY KeepsSame
<1>14. RequestsDescend' /\ exchanges' = [p \in Requests |-> exchanges'[p]]
  BY <1>13, RequestMoves
<1>15. Agreed'  BY DEF GrantInv, Agreed
<1>16. GrantTypes'  BY <1>8, <1>14 DEF GrantInv, GrantTypes
<1>17. QED  BY <1>10, <1>11, <1>12, <1>14, <1>15, <1>16 DEF GrantInv

LEMMA InsertKeeps ==
    ASSUME GrantInv, NEW r \in Requests, Grant!InsertAccess(r) \/ Grant!InsertRefresh(r)
    PROVE  GrantInv'
<1>1. CASE Grant!InsertAccess(r)
  <2>1. exchanges[r].pc = "access"  BY <1>1 DEF Grant!InsertAccess, Grant!InsertToken
  <2>2. GrantRequest([exchanges[r] EXCEPT !.pc = "refresh"], codes, consents)
    BY <2>1, Exchanging, GoesOn
  <2>3. QED  BY <1>1, <2>1, <2>2, MintKeeps DEF Grant!InsertAccess, Grant!InsertToken, Grant!Goto
<1>2. CASE Grant!InsertRefresh(r)
  <2>1. exchanges[r].pc = "refresh"  BY <1>2 DEF Grant!InsertRefresh, Grant!InsertToken
  <2>2. GrantRequest(Grant!Idle, codes, consents)  BY DEF GrantRequest
  <2>3. QED  BY <1>2, <2>1, <2>2, MintKeeps DEF Grant!InsertRefresh, Grant!InsertToken
<1>3. QED  BY <1>1, <1>2

LEMMA TokenEndsKeeps ==
    ASSUME GrantInv, NEW i \in DOMAIN tokens, Grant!Revoke(i) \/ Grant!ExpireToken(i)
    PROVE  GrantInv'
<1>1. tokens \in Seq(Minted)  BY DEF GrantInv, GrantTypes
<1>2. tokens[i] \in Minted  BY <1>1
<1>3. /\ tokens' \in Seq(Minted) /\ Agreed' /\ TokensDescend'
      /\ Grant!RevocationHolds' /\ CutoffsPast'
  <2>1. CASE Grant!Revoke(i)
    <3> DEFINE token == [tokens[i] EXCEPT !.revoked = TRUE]
    <3>1. /\ token \in Minted /\ token.user = tokens[i].user /\ token.client = tokens[i].client
          /\ token.code = tokens[i].code /\ token.live = tokens[i].live /\ token.revoked
      BY <1>2 DEF Minted
    <3>2. tokens' = [tokens EXCEPT ![i] = token] /\ UNCHANGED <<granted, codes, consents, cutoff>>
      BY <2>1 DEF Grant!Revoke
    <3> HIDE DEF token
    <3>3. QED  BY <3>1, <3>2, TokenChanges
  <2>2. CASE Grant!ExpireToken(i)
    <3> DEFINE token == [tokens[i] EXCEPT !.live = FALSE]
    <3>1. /\ token \in Minted /\ token.user = tokens[i].user /\ token.client = tokens[i].client
          /\ token.code = tokens[i].code /\ ~token.live /\ token.revoked = tokens[i].revoked
      BY <1>2 DEF Minted
    <3>2. tokens' = [tokens EXCEPT ![i] = token] /\ UNCHANGED <<granted, codes, consents, cutoff>>
      BY <2>2 DEF Grant!ExpireToken
    <3> HIDE DEF token
    <3>3. QED  BY <3>1, <3>2, TokenChanges
  <2>3. QED  BY <2>1, <2>2
<1>4. UNCHANGED <<granted, codes, exchanges, consents, cutoff>>
  BY DEF Grant!Revoke, Grant!ExpireToken
<1>5. RequestsDescend' /\ exchanges' = [p \in Requests |-> exchanges'[p]]
  BY <1>4, KeepsSame, RequestsStay
<1>6. GrantTypes'  BY <1>3, <1>4, <1>5 DEF GrantInv, GrantTypes
<1>7. QED  BY <1>3, <1>5, <1>6 DEF GrantInv

LEMMA RevokeClientTokensKeeps ==
    ASSUME GrantInv, NEW c \in Clients, Grant!RevokeClientTokens(c)
    PROVE  GrantInv'
<1> DEFINE dead(i) == [tokens[i] EXCEPT !.revoked = TRUE]
<1>1. /\ tokens' = [i \in DOMAIN tokens |-> IF tokens[i].client = c THEN dead(i) ELSE tokens[i]]
      /\ cutoff' = [cutoff EXCEPT ![c] = Len(tokens)]
      /\ UNCHANGED <<granted, codes, exchanges, consents>>
  BY DEF Grant!RevokeClientTokens
<1>2. tokens \in Seq(Minted) /\ cutoff \in [Clients -> Nat]  BY DEF GrantInv, GrantTypes
<1>3. DOMAIN tokens = 1..Len(tokens) /\ Len(tokens) \in Nat  BY <1>2
<1>4. ASSUME NEW i \in DOMAIN tokens
      PROVE  /\ tokens[i] \in Minted /\ dead(i) \in Minted
             /\ dead(i).user = tokens[i].user /\ dead(i).client = tokens[i].client
             /\ dead(i).code = tokens[i].code /\ dead(i).revoked
  <2>1. tokens[i] \in Minted  BY <1>2
  <2>2. QED  BY <2>1 DEF Minted
<1> HIDE DEF dead
<1>5. /\ DOMAIN tokens' = DOMAIN tokens
      /\ \A i \in DOMAIN tokens :
            /\ tokens'[i] \in Minted
            /\ tokens'[i].user = tokens[i].user /\ tokens'[i].client = tokens[i].client
            /\ tokens'[i].code = tokens[i].code
            /\ tokens[i].client = c => tokens'[i].revoked
            /\ tokens[i].client # c => tokens'[i] = tokens[i]
  BY <1>1, <1>4
<1>6. tokens' \in Seq(Minted) /\ Len(tokens') = Len(tokens)
  <2>1. tokens' \in [1..Len(tokens) -> Minted]  BY <1>1, <1>3, <1>4
  <2>2. QED  BY <1>3, <2>1
<1>7. TokensDescend'  BY <1>1, <1>5 DEF GrantInv, TokensDescend, Descends
<1>8. cutoff' \in [Clients -> Nat] /\ cutoff'[c] = Len(tokens)
        /\ \A d \in Clients \ {c} : cutoff'[d] = cutoff[d]
  BY <1>1, <1>2, <1>3
<1>9. CutoffsPast'  BY <1>2, <1>3, <1>6, <1>8 DEF GrantInv, CutoffsPast
<1>10. Grant!RevocationHolds'
  <2> SUFFICES ASSUME NEW i \in DOMAIN tokens', tokens'[i].live, ~tokens'[i].revoked
               PROVE  i > cutoff'[tokens'[i].client]
    BY DEF Grant!RevocationHolds
  <2>1. tokens[i].client # c /\ tokens'[i] = tokens[i] /\ tokens[i].client \in Clients
    BY <1>4, <1>5 DEF Minted
  <2>2. i > cutoff[tokens[i].client]  BY <1>5, <2>1 DEF GrantInv, Grant!RevocationHolds
  <2>3. QED  BY <1>8, <2>1, <2>2
<1>11. RequestsDescend' /\ exchanges' = [p \in Requests |-> exchanges'[p]]
  BY <1>1, KeepsSame, RequestsStay
<1>12. Agreed'  BY <1>1 DEF GrantInv, Agreed
<1>13. GrantTypes'  BY <1>1, <1>6, <1>8, <1>11 DEF GrantInv, GrantTypes
<1>14. QED  BY <1>7, <1>9, <1>10, <1>11, <1>12, <1>13 DEF GrantInv

LEMMA ExpireCodeKeeps ==
    ASSUME GrantInv, NEW i \in DOMAIN codes, Grant!ExpireCode(i)
    PROVE  GrantInv'
<1> DEFINE code == [codes[i] EXCEPT !.live = FALSE]
<1>1. /\ codes' = [codes EXCEPT ![i] = code]
      /\ UNCHANGED <<granted, tokens, exchanges, consents, cutoff>>
  BY DEF Grant!ExpireCode
<1>2. codes[i] \in Codes  BY DEF GrantInv, GrantTypes
<1>3. /\ code \in Codes /\ code.user = codes[i].user /\ code.client = codes[i].client
      /\ code.used = codes[i].used
  BY <1>2 DEF Codes
<1> HIDE DEF code
<1>4. codes' \in Seq(Codes) /\ Keeps(codes, codes') /\ Agreed'  BY <1>1, <1>3, CodeChanges
<1>5. TokensDescend' /\ Grant!RevocationHolds' /\ CutoffsPast'  BY <1>1, <1>4, GrantTokensStay
<1>6. RequestsDescend' /\ exchanges' = [p \in Requests |-> exchanges'[p]]
  BY <1>1, <1>4, RequestsStay
<1>7. GrantTypes'  BY <1>1, <1>4, <1>6 DEF GrantInv, GrantTypes
<1>8. QED  BY <1>4, <1>5, <1>6, <1>7 DEF GrantInv

LEMMA GrantInitInv == Grant!GrantInit => GrantInv
<1> SUFFICES ASSUME Grant!GrantInit  PROVE GrantInv
  OBVIOUS
<1>1. GrantTypes  BY DEF Grant!GrantInit, GrantTypes
<1>2. RequestsDescend  BY DEF Grant!GrantInit, RequestsDescend, GrantRequest
<1>3. Agreed /\ TokensDescend /\ Grant!RevocationHolds /\ CutoffsPast
  BY DEF Grant!GrantInit, Agreed, TokensDescend, Grant!RevocationHolds, CutoffsPast
<1>4. QED  BY <1>1, <1>2, <1>3 DEF GrantInv

LEMMA GrantStep == GrantInv /\ Grant!GrantNext => GrantInv'
<1> SUFFICES ASSUME GrantInv, Grant!GrantNext  PROVE GrantInv'
  OBVIOUS
<1>1. ASSUME NEW r \in Requests, Grant!TokenRequest(r)  PROVE GrantInv'
  BY <1>1, ApproveKeeps, CreateCodeKeeps, CheckCodeKeeps, CheckRefreshKeeps, UseCodeKeeps,
     RevokeRotatedKeeps, InsertKeeps
     DEF Grant!TokenRequest
<1>2. QED
  BY <1>1, GrantAbandonKeeps, TokenEndsKeeps, ExpireCodeKeeps, RevokeClientTokensKeeps
     DEF Grant!GrantNext

LEMMA GrantsAreSafe == GrantInv => Grant!GrantSafe
<1> SUFFICES ASSUME GrantInv  PROVE Grant!GrantSafe
  OBVIOUS
<1>1. Grant!ActsForItsConsent
  BY DEF GrantInv, Agreed, TokensDescend, Descends, Grant!ActsForItsConsent
<1>2. Grant!UsedBeforeTokens /\ Grant!RevocationHolds
  BY DEF GrantInv, TokensDescend, Grant!UsedBeforeTokens
<1>3. QED  BY <1>1, <1>2 DEF Grant!GrantSafe
-----------------------------------------------------------------------------
(* Device pairing (Pairing.tla).                                           *)

Statuses == {"pending", "approved", "denied", "complete"}
Devices == [status : Statuses, user : Users \cup {NoUser}, live : BOOLEAN]
ApiKeys == [user : Users \cup {NoUser}, device : Nat, revoked : BOOLEAN]
Claim == [pc : {"claim"}, device : Nat]
Minting == [pc : {"key"}, device : Nat, user : Users \cup {NoUser}]

\* A pairing that a poll claimed: complete, approved by the user of its key.
Claimed(d, u, ds, said) == d \in DOMAIN ds /\ ds[d].status = "complete" /\ <<d, u>> \in said
PairRequest(q, ds, said) ==
    \/ q = Pair!Idle
    \/ q \in Claim /\ q.device \in DOMAIN ds
    \/ q \in Minting /\ Claimed(q.device, q.user, ds, said)

PairTypes ==
    /\ devices \in Seq(Devices) /\ keys \in Seq(ApiKeys)
    /\ polls = [r \in Requests |-> polls[r]]
ApprovedAt ==
    /\ \A i \in DOMAIN devices : devices[i].status = "approved"
                                  => <<i, devices[i].user>> \in approvals
    /\ \A a \in approvals : a[1] \in DOMAIN devices
KeysClaimed ==
    /\ \A i \in DOMAIN keys : Claimed(keys[i].device, keys[i].user, devices, approvals)
    /\ \A i, j \in DOMAIN keys : keys[i].device = keys[j].device => i = j
PollsClaimed == \A r \in Requests : PairRequest(polls[r], devices, approvals)
\* What one poll claimed no other poll and no key has.
ClaimedOnce ==
    \A r \in Requests : polls[r].pc = "key" =>
        /\ \A i \in DOMAIN keys : keys[i].device # polls[r].device
        /\ \A p \in Requests : polls[p].pc = "key" /\ polls[p].device = polls[r].device
                                  => p = r

PairInv ==
    /\ PairTypes /\ ApprovedAt /\ KeysClaimed /\ PollsClaimed /\ ClaimedOnce
    /\ Pair!ApprovalAccountedFor

\* What becomes of the pairings: a claimed one stays so, and none is forgotten.
DevicesKeep(ds, es) ==
    /\ DOMAIN ds \subseteq DOMAIN es
    /\ \A i \in DOMAIN ds : ds[i].status = "complete" => es[i].status = "complete"

LEMMA PairKept ==
    ASSUME NEW q, NEW ds, NEW es, NEW said, NEW more, DevicesKeep(ds, es), said \subseteq more,
           PairRequest(q, ds, said)
    PROVE  PairRequest(q, es, more)
BY DEF PairRequest, Claimed, DevicesKeep

LEMMA KeysKept ==
    ASSUME PairInv, keys' = keys, DevicesKeep(devices, devices'), approvals \subseteq approvals'
    PROVE  KeysClaimed'
BY DEF PairInv, KeysClaimed, Claimed, DevicesKeep

LEMMA PollMoves ==
    ASSUME PairInv, NEW r \in Requests, NEW q, Pair!Become(r, q), DevicesKeep(devices, devices'),
           approvals \subseteq approvals', PairRequest(q, devices', approvals')
    PROVE  /\ PollsClaimed' /\ polls' = [p \in Requests |-> polls'[p]]
           /\ polls'[r] = q /\ \A p \in Requests \ {r} : polls'[p] = polls[p]
<1>1. polls' = [polls EXCEPT ![r] = q] /\ polls = [p \in Requests |-> polls[p]]
  BY DEF Pair!Become, PairInv, PairTypes
<1>2. ASSUME NEW p \in Requests  PROVE PairRequest(polls'[p], devices', approvals')
  <2>1. CASE p = r  BY <1>1, <2>1
  <2>2. CASE p # r
    <3>1. polls'[p] = polls[p]  BY <1>1, <2>2
    <3>2. PairRequest(polls[p], devices, approvals)  BY DEF PairInv, PollsClaimed
    <3>3. QED  BY <3>1, <3>2, PairKept
  <2>3. QED  BY <2>1, <2>2
<1>3. QED  BY <1>1, <1>2 DEF PollsClaimed

LEMMA PollsStay ==
    ASSUME PairInv, polls' = polls, DevicesKeep(devices, devices'),
           approvals \subseteq approvals'
    PROVE  PollsClaimed' /\ polls' = [p \in Requests |-> polls'[p]]
<1>1. ASSUME NEW p \in Requests  PROVE PairRequest(polls'[p], devices', approvals')
  BY PairKept DEF PairInv, PollsClaimed
<1>2. QED  BY <1>1 DEF PollsClaimed, PairInv, PairTypes

LEMMA SamePairings == ASSUME NEW ds  PROVE DevicesKeep(ds, ds)
BY DEF DevicesKeep

\* A change of one pairing that is not complete, and that no poll has claimed.
LEMMA DeviceChanges ==
    ASSUME PairInv, NEW i \in DOMAIN devices, NEW device \in Devices,
           devices[i].status = "complete" => device.status = "complete",
           devices' = [devices EXCEPT ![i] = device]
    PROVE  /\ devices' \in Seq(Devices) /\ DevicesKeep(devices, devices')
           /\ DOMAIN devices' = DOMAIN devices
           /\ devices'[i] = device /\ \A j \in DOMAIN devices : j # i => devices'[j] = devices[j]
<1>1. devices \in Seq(Devices)  BY DEF PairInv, PairTypes
<1>2. QED  BY <1>1, Changed DEF DevicesKeep

LEMMA CreateDeviceKeeps == ASSUME PairInv, Pair!CreateDevice  PROVE PairInv'
<1> DEFINE device == [status |-> "pending", user |-> NoUser, live |-> TRUE]
<1>1. devices' = Append(devices, device) /\ UNCHANGED <<keys, polls, approvals, lost>>
  BY DEF Pair!CreateDevice
<1>2. devices \in Seq(Devices) /\ device \in Devices /\ device.status = "pending"
  BY DEF PairInv, PairTypes, Devices, Statuses
<1> HIDE DEF device
<1>3. /\ devices' \in Seq(Devices) /\ DOMAIN devices' = DOMAIN devices \cup {Len(devices) + 1}
      /\ \A i \in DOMAIN devices : devices'[i] = devices[i]
      /\ devices'[Len(devices) + 1] = device
  BY <1>1, <1>2, Grown
<1>4. DevicesKeep(devices, devices')  BY <1>3 DEF DevicesKeep
<1>5. PollsClaimed' /\ polls' = [p \in Requests |-> polls'[p]]  BY <1>1, <1>4, PollsStay
<1>6. KeysClaimed'  BY <1>1, <1>4, KeysKept
<1>7. ApprovedAt'  BY <1>1, <1>2, <1>3 DEF PairInv, ApprovedAt
<1>8. ClaimedOnce'  BY <1>1 DEF PairInv, ClaimedOnce
<1>9. Pair!ApprovalAccountedFor'
  BY <1>1, <1>3 DEF PairInv, Pair!ApprovalAccountedFor, ApprovedAt
<1>10. PairTypes'  BY <1>1, <1>3, <1>5 DEF PairInv, PairTypes
<1>11. QED  BY <1>5, <1>6, <1>7, <1>8, <1>9, <1>10 DEF PairInv

LEMMA DecideKeeps ==
    ASSUME PairInv, NEW i \in DOMAIN devices,
           NEW status \in {"approved", "denied"}, NEW u \in Users \cup {NoUser},
           Pair!Decide(i, status, u)
    PROVE  PairInv'
<1> DEFINE device == [devices[i] EXCEPT !.status = status, !.user = u]
<1>1. /\ devices[i].status = "pending" /\ devices' = [devices EXCEPT ![i] = device]
      /\ UNCHANGED <<keys, polls, lost>>
      /\ approvals' = IF status = "approved" THEN approvals \cup {<<i, u>>} ELSE approvals
  BY DEF Pair!Decide
<1>2. devices \in Seq(Devices) /\ devices[i] \in Devices  BY DEF PairInv, PairTypes
<1>3. device \in Devices /\ device.status = status /\ device.user = u
  BY <1>2 DEF Devices, Statuses
<1> HIDE DEF device
<1>4. /\ devices' \in Seq(Devices) /\ DevicesKeep(devices, devices')
      /\ DOMAIN devices' = DOMAIN devices
      /\ devices'[i] = device /\ \A j \in DOMAIN devices : j # i => devices'[j] = devices[j]
  BY <1>1, <1>3, DeviceChanges
<1>5. approvals \subseteq approvals'  BY <1>1
<1>6. PollsClaimed' /\ polls' = [p \in Requests |-> polls'[p]]  BY <1>1, <1>4, <1>5, PollsStay
<1>7. KeysClaimed'  BY <1>1, <1>4, <1>5, KeysKept
<1>8. ApprovedAt'
  <2>1. \A a \in approvals' : a[1] \in DOMAIN devices'  BY <1>1, <1>4 DEF PairInv, ApprovedAt
  <2>2. ASSUME NEW j \in DOMAIN devices', devices'[j].status = "approved"
        PROVE  <<j, devices'[j].user>> \in approvals'
    <3>1. CASE j = i  BY <1>1, <1>3, <1>4, <2>2, <3>1
    <3>2. CASE j # i  BY <1>4, <1>5, <2>2, <3>2 DEF PairInv, ApprovedAt
    <3>3. QED  BY <3>1, <3>2
  <2>3. QED  BY <2>1, <2>2 DEF ApprovedAt
<1>9. ClaimedOnce'  BY <1>1 DEF PairInv, ClaimedOnce
<1>10. Pair!ApprovalAccountedFor'
  <2> SUFFICES ASSUME NEW a \in approvals'
               PROVE  \/ devices'[a[1]].status = "approved"
                      \/ \E k \in DOMAIN keys' : keys'[k].device = a[1]
                      \/ \E r \in Requests : polls'[r].pc = "key" /\ polls'[r].device = a[1]
                      \/ a[1] \in lost'
    BY DEF Pair!ApprovalAccountedFor
  <2>1. CASE a \in approvals
    <3>1. a[1] \in DOMAIN devices  BY <2>1 DEF PairInv, ApprovedAt
    <3>2. CASE a[1] = i
      <4>1. devices[a[1]].status # "approved"  BY <1>1, <3>2
      <4>2. QED  BY <1>1, <2>1, <4>1 DEF PairInv, Pair!ApprovalAccountedFor
    <3>3. CASE a[1] # i
      BY <1>1, <1>4, <2>1, <3>1, <3>3 DEF PairInv, Pair!ApprovalAccountedFor
    <3>4. QED  BY <3>2, <3>3
  <2>2. CASE a \notin approvals
    <3>1. a = <<i, u>> /\ status = "approved"  BY <1>1, <2>2
    <3>2. QED  BY <1>3, <1>4, <3>1
  <2>3. QED  BY <2>1, <2>2
<1>11. PairTypes'  BY <1>1, <1>4, <1>6 DEF PairInv, PairTypes
<1>12. QED  BY <1>6, <1>7, <1>8, <1>9, <1>10, <1>11 DEF PairInv

LEMMA SweepDeviceKeeps ==
    ASSUME PairInv, NEW i \in DOMAIN devices, Pair!SweepDevice(i)
    PROVE  PairInv'
<1> DEFINE device == [devices[i] EXCEPT !.live = FALSE]
<1>1. devices' = [devices EXCEPT ![i] = device] /\ UNCHANGED <<keys, polls, approvals, lost>>
  BY DEF Pair!SweepDevice
<1>2. devices \in Seq(Devices) /\ devices[i] \in Devices  BY DEF PairInv, PairTypes
<1>3. device \in Devices /\ device.status = devices[i].status /\ device.user = devices[i].user
  BY <1>2 DEF Devices, Statuses
<1> HIDE DEF device
<1>4. /\ devices' \in Seq(Devices) /\ DevicesKeep(devices, devices')
      /\ DOMAIN devices' = DOMAIN devices
      /\ devices'[i] = device /\ \A j \in DOMAIN devices : j # i => devices'[j] = devices[j]
  BY <1>1, <1>3, DeviceChanges
<1>5. \A j \in DOMAIN devices : devices'[j].status = devices[j].status
                                 /\ devices'[j].user = devices[j].user
  BY <1>3, <1>4
<1>6. PollsClaimed' /\ polls' = [p \in Requests |-> polls'[p]]  BY <1>1, <1>4, PollsStay
<1>7. KeysClaimed'  BY <1>1, <1>4, KeysKept
<1>8. ApprovedAt'  BY <1>1, <1>4, <1>5 DEF PairInv, ApprovedAt
<1>9. ClaimedOnce'  BY <1>1 DEF PairInv, ClaimedOnce
<1>10. Pair!ApprovalAccountedFor'
  BY <1>1, <1>4, <1>5 DEF PairInv, ApprovedAt, Pair!ApprovalAccountedFor
<1>11. PairTypes'  BY <1>1, <1>4, <1>6 DEF PairInv, PairTypes
<1>12. QED  BY <1>6, <1>7, <1>8, <1>9, <1>10, <1>11 DEF PairInv

LEMMA PollDeviceKeeps ==
    ASSUME PairInv, NEW r \in Requests, NEW i \in DOMAIN devices, Pair!PollDevice(r, i)
    PROVE  PairInv'
<1> DEFINE q == [pc |-> "claim", device |-> i]
<1>1. /\ polls[r] = Pair!Idle /\ Pair!Become(r, q) /\ UNCHANGED <<devices, keys, approvals, lost>>
  BY DEF Pair!PollDevice
<1>2. devices \in Seq(Devices) /\ i \in Nat  BY DEF PairInv, PairTypes
<1>3. PairRequest(q, devices', approvals')  BY <1>1, <1>2 DEF PairRequest, Claim
<1>4. DevicesKeep(devices, devices')  BY <1>1, SamePairings
<1>5. /\ PollsClaimed' /\ polls' = [p \in Requests |-> polls'[p]]
      /\ polls'[r] = q /\ \A p \in Requests \ {r} : polls'[p] = polls[p]
  BY <1>1, <1>3, <1>4, PollMoves
<1>6. polls[r].pc = "idle" /\ q.pc = "claim"  BY <1>1 DEF Pair!Idle
<1> HIDE DEF q
<1>7. KeysClaimed' /\ ApprovedAt'  BY <1>1 DEF PairInv, KeysClaimed, ApprovedAt
<1>8. ClaimedOnce'  BY <1>1, <1>5, <1>6 DEF PairInv, ClaimedOnce
<1>9. Pair!ApprovalAccountedFor'  BY <1>1, <1>5, <1>6 DEF PairInv, Pair!ApprovalAccountedFor
<1>10. PairTypes'  BY <1>1, <1>5 DEF PairInv, PairTypes
<1>11. QED  BY <1>5, <1>7, <1>8, <1>9, <1>10 DEF PairInv

LEMMA ClaimDeviceKeeps == ASSUME PairInv, NEW r \in Requests, Pair!ClaimDevice(r)  PROVE PairInv'
<1> DEFINE i == polls[r].device
<1> DEFINE device == [devices[i] EXCEPT !.status = "complete"]
<1> DEFINE q == [pc |-> "key", device |-> i, user |-> devices[i].user]
<1>1. PairRequest(polls[r], devices, approvals) /\ polls[r].pc = "claim"
  BY DEF Pair!ClaimDevice, PairInv, PollsClaimed
<1>2. polls[r] \in Claim /\ i \in DOMAIN devices
  BY <1>1 DEF PairRequest, Pair!Idle, Claim, Minting
<1>3. devices \in Seq(Devices) /\ devices[i] \in Devices /\ i \in Nat
  BY <1>2 DEF PairInv, PairTypes
<1>4. CASE ~(devices[i].live /\ devices[i].status = "approved")
  <2>1. Pair!Become(r, Pair!Idle) /\ UNCHANGED <<devices, keys, approvals, lost>>
    BY <1>4 DEF Pair!ClaimDevice
  <2>2. DevicesKeep(devices, devices')  BY <2>1, SamePairings
  <2>3. PairRequest(Pair!Idle, devices', approvals') /\ Pair!Idle.pc = "idle"
    BY DEF PairRequest, Pair!Idle
  <2>4. /\ PollsClaimed' /\ polls' = [p \in Requests |-> polls'[p]]
        /\ polls'[r] = Pair!Idle /\ \A p \in Requests \ {r} : polls'[p] = polls[p]
    BY <2>1, <2>2, <2>3, PollMoves
  <2>5. KeysClaimed' /\ ApprovedAt'  BY <2>1 DEF PairInv, KeysClaimed, ApprovedAt
  <2>6. ClaimedOnce'  BY <2>1, <2>3, <2>4 DEF PairInv, ClaimedOnce
  <2>7. Pair!ApprovalAccountedFor'
    BY <1>1, <2>1, <2>3, <2>4 DEF PairInv, Pair!ApprovalAccountedFor
  <2>8. PairTypes'  BY <2>1, <2>4 DEF PairInv, PairTypes
  <2>9. QED  BY <2>4, <2>5, <2>6, <2>7, <2>8 DEF PairInv
<1>5. CASE devices[i].live /\ devices[i].status = "approved"
  <2>1. /\ devices' = [devices EXCEPT ![i] = device] /\ Pair!Become(r, q)
        /\ UNCHANGED <<keys, approvals, lost>>
    BY <1>5 DEF Pair!ClaimDevice
  <2>2. device \in Devices /\ device.status = "complete" /\ device.user = devices[i].user
    BY <1>3 DEF Devices, Statuses
  <2>3. devices[i].status = "approved" /\ <<i, devices[i].user>> \in approvals
    BY <1>2, <1>5 DEF PairInv, ApprovedAt
  <2>4. q.pc = "key" /\ q.device = i /\ q.user = devices[i].user  OBVIOUS
  <2>5. q \in Minting  BY <1>3 DEF Minting, Devices
  <2> HIDE DEF device
  <2>6. /\ devices' \in Seq(Devices) /\ DevicesKeep(devices, devices')
        /\ DOMAIN devices' = DOMAIN devices
        /\ devices'[i] = device /\ \A j \in DOMAIN devices : j # i => devices'[j] = devices[j]
    BY <1>2, <1>5, <2>1, <2>2, DeviceChanges
  <2>7. PairRequest(q, devices', approvals')
    BY <1>2, <2>1, <2>2, <2>3, <2>4, <2>5, <2>6 DEF PairRequest, Claimed
  <2> HIDE DEF q, i
  <2>8. /\ PollsClaimed' /\ polls' = [p \in Requests |-> polls'[p]]
        /\ polls'[r] = q /\ \A p \in Requests \ {r} : polls'[p] = polls[p]
    BY <2>1, <2>6, <2>7, PollMoves
  <2>9. KeysClaimed'  BY <2>1, <2>6, KeysKept
  <2>10. ApprovedAt'
    <3>1. \A a \in approvals' : a[1] \in DOMAIN devices'
      BY <2>1, <2>6 DEF PairInv, ApprovedAt
    <3>2. \A j \in DOMAIN devices' : devices'[j].status = "approved"
                                      => <<j, devices'[j].user>> \in approvals'
      BY <2>1, <2>2, <2>6 DEF PairInv, ApprovedAt
    <3>3. QED  BY <3>1, <3>2 DEF ApprovedAt
  <2>11. ClaimedOnce'
    <3>1. \A k \in DOMAIN keys : devices[keys[k].device].status = "complete"
      BY DEF PairInv, KeysClaimed, Claimed
    <3>2. ASSUME NEW p \in Requests, polls[p].pc = "key"
          PROVE  devices[polls[p].device].status = "complete"
      <4>1. PairRequest(polls[p], devices, approvals)  BY DEF PairInv, PollsClaimed
      <4>2. polls[p] \in Minting  BY <3>2, <4>1 DEF PairRequest, Pair!Idle, Claim
      <4>3. polls[p] \notin Claim /\ polls[p] # Pair!Idle  BY <3>2 DEF Claim, Pair!Idle
      <4>4. QED  BY <4>1, <4>3 DEF PairRequest, Claimed
    <3>3. \A k \in DOMAIN keys : keys[k].device # i  BY <2>3, <3>1
    <3>4. \A p \in Requests : polls[p].pc = "key" => polls[p].device # i  BY <2>3, <3>2
    <3>5. QED  BY <2>1, <2>4, <2>8, <3>3, <3>4 DEF PairInv, ClaimedOnce
  <2>12. Pair!ApprovalAccountedFor'
    <3> SUFFICES ASSUME NEW a \in approvals
                 PROVE  \/ devices'[a[1]].status = "approved"
                        \/ \E k \in DOMAIN keys' : keys'[k].device = a[1]
                        \/ \E p \in Requests : polls'[p].pc = "key" /\ polls'[p].device = a[1]
                        \/ a[1] \in lost'
      BY <2>1 DEF Pair!ApprovalAccountedFor
    <3>1. CASE a[1] = i  BY <2>4, <2>8, <3>1
    <3>2. CASE a[1] # i
      <4>1. a[1] \in DOMAIN devices  BY DEF PairInv, ApprovedAt
      <4>2. devices'[a[1]] = devices[a[1]]  BY <2>6, <3>2, <4>1
      <4>3. \A p \in Requests : polls[p].pc = "key" => polls'[p] = polls[p]
        BY <1>1, <2>8
      <4>4. QED  BY <2>1, <4>2, <4>3 DEF PairInv, Pair!ApprovalAccountedFor
    <3>3. QED  BY <3>1, <3>2
  <2>13. PairTypes'  BY <2>1, <2>6, <2>8 DEF PairInv, PairTypes
  <2>14. QED  BY <2>8, <2>9, <2>10, <2>11, <2>12, <2>13 DEF PairInv
<1>6. QED  BY <1>4, <1>5

LEMMA MintKeyKeeps == ASSUME PairInv, NEW r \in Requests, Pair!MintKey(r)  PROVE PairInv'
<1> DEFINE d == polls[r].device
<1> DEFINE key == [user |-> polls[r].user, device |-> d, revoked |-> FALSE]
<1>1. /\ polls[r].pc = "key" /\ keys' = Append(keys, key) /\ Pair!Become(r, Pair!Idle)
      /\ UNCHANGED <<devices, approvals, lost>>
  BY DEF Pair!MintKey
<1>2. polls[r] \in Minting /\ Claimed(d, polls[r].user, devices, approvals)
  <2>1. PairRequest(polls[r], devices, approvals)  BY DEF PairInv, PollsClaimed
  <2>2. polls[r] \notin Claim /\ polls[r] # Pair!Idle  BY <1>1 DEF Claim, Pair!Idle
  <2>3. QED  BY <2>1, <2>2 DEF PairRequest
<1>3. key \in ApiKeys /\ key.device = d /\ key.user = polls[r].user
  BY <1>2 DEF Minting, ApiKeys
<1>4. keys \in Seq(ApiKeys)  BY DEF PairInv, PairTypes
<1> HIDE DEF key
<1>5. /\ keys' \in Seq(ApiKeys) /\ DOMAIN keys' = DOMAIN keys \cup {Len(keys) + 1}
      /\ Len(keys) + 1 \notin DOMAIN keys
      /\ \A i \in DOMAIN keys : keys'[i] = keys[i]
      /\ keys'[Len(keys) + 1] = key
  BY <1>1, <1>3, <1>4, Grown
<1>6. DevicesKeep(devices, devices')  BY <1>1, SamePairings
<1>7. PairRequest(Pair!Idle, devices', approvals') /\ Pair!Idle.pc = "idle"
  BY DEF PairRequest, Pair!Idle
<1>8. /\ PollsClaimed' /\ polls' = [p \in Requests |-> polls'[p]]
      /\ polls'[r] = Pair!Idle /\ \A p \in Requests \ {r} : polls'[p] = polls[p]
  BY <1>1, <1>6, <1>7, PollMoves
<1>9. \A i \in DOMAIN keys : keys[i].device # d
  BY <1>1 DEF PairInv, ClaimedOnce
<1>10. \A p \in Requests : polls[p].pc = "key" /\ polls[p].device = d => p = r
  BY <1>1 DEF PairInv, ClaimedOnce
<1> HIDE DEF d
<1>11. KeysClaimed'
  <2>1. \A i \in DOMAIN keys' : Claimed(keys'[i].device, keys'[i].user, devices', approvals')
    BY <1>1, <1>2, <1>3, <1>5 DEF PairInv, KeysClaimed
  <2>2. \A i, j \in DOMAIN keys' : keys'[i].device = keys'[j].device => i = j
    BY <1>3, <1>5, <1>9 DEF PairInv, KeysClaimed
  <2>3. QED  BY <2>1, <2>2 DEF KeysClaimed
<1>12. ApprovedAt'  BY <1>1 DEF PairInv, ApprovedAt
<1>13. ClaimedOnce'
  <2> SUFFICES ASSUME NEW p \in Requests, polls'[p].pc = "key"
               PROVE  /\ \A i \in DOMAIN keys' : keys'[i].device # polls'[p].device
                      /\ \A o \in Requests : polls'[o].pc = "key"
                                           /\ polls'[o].device = polls'[p].device => o = p
    BY DEF ClaimedOnce
  <2>1. p # r /\ polls'[p] = polls[p]  BY <1>7, <1>8
  <2>2. polls[p].device # d  BY <1>10, <2>1
  <2>3. \A i \in DOMAIN keys : keys[i].device # polls[p].device
    BY <2>1 DEF PairInv, ClaimedOnce
  <2>4. \A o \in Requests : polls'[o].pc = "key" => polls'[o] = polls[o]
    BY <1>7, <1>8
  <2>5. \A o \in Requests : polls[o].pc = "key" /\ polls[o].device = polls[p].device
                             => o = p
    BY <2>1 DEF PairInv, ClaimedOnce
  <2>6. QED  BY <1>3, <1>5, <2>1, <2>2, <2>3, <2>4, <2>5
<1>14. Pair!ApprovalAccountedFor'
  <2> SUFFICES ASSUME NEW a \in approvals
               PROVE  \/ devices'[a[1]].status = "approved"
                      \/ \E k \in DOMAIN keys' : keys'[k].device = a[1]
                      \/ \E p \in Requests : polls'[p].pc = "key" /\ polls'[p].device = a[1]
                      \/ a[1] \in lost'
    BY <1>1 DEF Pair!ApprovalAccountedFor
  <2>1. CASE a[1] = d  BY <1>3, <1>5, <2>1
  <2>2. CASE a[1] # d
    <3>1. \A p \in Requests : polls[p].device = a[1] => p # r  BY <2>2 DEF d
    <3>2. QED  BY <1>1, <1>5, <1>8, <3>1 DEF PairInv, Pair!ApprovalAccountedFor
  <2>3. QED  BY <2>1, <2>2
<1>15. PairTypes'  BY <1>1, <1>5, <1>8 DEF PairInv, PairTypes
<1>16. QED  BY <1>8, <1>11, <1>12, <1>13, <1>14, <1>15 DEF PairInv

LEMMA PairAbandonKeeps == ASSUME PairInv, NEW r \in Requests, Pair!Abandon(r)  PROVE PairInv'
<1>1. /\ Pair!Become(r, Pair!Idle) /\ UNCHANGED <<devices, keys, approvals>>
      /\ lost' = IF polls[r].pc = "key" THEN lost \cup {polls[r].device} ELSE lost
  BY DEF Pair!Abandon
<1>2. DevicesKeep(devices, devices')  BY <1>1, SamePairings
<1>3. PairRequest(Pair!Idle, devices', approvals') /\ Pair!Idle.pc = "idle"
  BY DEF PairRequest, Pair!Idle
<1>4. /\ PollsClaimed' /\ polls' = [p \in Requests |-> polls'[p]]
      /\ polls'[r] = Pair!Idle /\ \A p \in Requests \ {r} : polls'[p] = polls[p]
  BY <1>1, <1>2, <1>3, PollMoves
<1>5. KeysClaimed' /\ ApprovedAt'  BY <1>1 DEF PairInv, KeysClaimed, ApprovedAt
<1>6. ClaimedOnce'
  <2>1. \A o \in Requests : polls'[o].pc = "key" => polls'[o] = polls[o]
    BY <1>3, <1>4
  <2>2. QED  BY <1>1, <2>1 DEF PairInv, ClaimedOnce
<1>7. Pair!ApprovalAccountedFor'
  <2> SUFFICES ASSUME NEW a \in approvals
               PROVE  \/ devices'[a[1]].status = "approved"
                      \/ \E k \in DOMAIN keys' : keys'[k].device = a[1]
                      \/ \E p \in Requests : polls'[p].pc = "key" /\ polls'[p].device = a[1]
                      \/ a[1] \in lost'
    BY <1>1 DEF Pair!ApprovalAccountedFor
  <2>1. CASE polls[r].pc = "key" /\ polls[r].device = a[1]  BY <1>1, <2>1
  <2>2. CASE ~(polls[r].pc = "key" /\ polls[r].device = a[1])
    BY <1>1, <1>4, <2>2 DEF PairInv, Pair!ApprovalAccountedFor
  <2>3. QED  BY <2>1, <2>2
<1>8. PairTypes'  BY <1>1, <1>4 DEF PairInv, PairTypes
<1>9. QED  BY <1>4, <1>5, <1>6, <1>7, <1>8 DEF PairInv

LEMMA RevokeKeyKeeps == ASSUME PairInv, NEW i \in DOMAIN keys, Pair!RevokeKey(i)  PROVE PairInv'
<1> DEFINE key == [keys[i] EXCEPT !.revoked = TRUE]
<1>1. keys' = [keys EXCEPT ![i] = key] /\ UNCHANGED <<devices, polls, approvals, lost>>
  BY DEF Pair!RevokeKey
<1>2. keys \in Seq(ApiKeys) /\ keys[i] \in ApiKeys  BY DEF PairInv, PairTypes
<1>3. key \in ApiKeys /\ key.device = keys[i].device /\ key.user = keys[i].user
  BY <1>2 DEF ApiKeys
<1> HIDE DEF key
<1>4. /\ keys' \in Seq(ApiKeys) /\ DOMAIN keys' = DOMAIN keys
      /\ \A j \in DOMAIN keys : keys'[j] = IF j = i THEN key ELSE keys[j]
  BY <1>1, <1>2, <1>3, Changed
<1>5. \A j \in DOMAIN keys : keys'[j].device = keys[j].device /\ keys'[j].user = keys[j].user
  BY <1>3, <1>4
<1>6. DevicesKeep(devices, devices')  BY <1>1, SamePairings
<1>7. PollsClaimed' /\ polls' = [p \in Requests |-> polls'[p]]  BY <1>1, <1>6, PollsStay
<1>8. KeysClaimed'  BY <1>1, <1>4, <1>5 DEF PairInv, KeysClaimed
<1>9. ApprovedAt'  BY <1>1 DEF PairInv, ApprovedAt
<1>10. ClaimedOnce'  BY <1>1, <1>4, <1>5 DEF PairInv, ClaimedOnce
<1>11. Pair!ApprovalAccountedFor'  BY <1>1, <1>4, <1>5 DEF PairInv, Pair!ApprovalAccountedFor
<1>12. PairTypes'  BY <1>1, <1>4, <1>7 DEF PairInv, PairTypes
<1>13. QED  BY <1>7, <1>8, <1>9, <1>10, <1>11, <1>12 DEF PairInv

LEMMA PairInitInv == Pair!PairingInit => PairInv
BY DEF Pair!PairingInit, PairInv, PairTypes, ApprovedAt, KeysClaimed, PollsClaimed, ClaimedOnce,
       Pair!ApprovalAccountedFor, PairRequest, Pair!Idle

LEMMA PairStep == PairInv /\ Pair!PairingNext => PairInv'
BY CreateDeviceKeeps, DecideKeeps, SweepDeviceKeeps, PollDeviceKeeps, ClaimDeviceKeeps,
   MintKeyKeeps, PairAbandonKeeps, RevokeKeyKeeps
   DEF Pair!PairingNext

LEMMA PairingsAreSafe == PairInv => Pair!PairingSafe
BY DEF PairInv, KeysClaimed, Claimed, Pair!PairingSafe, Pair!OneKeyPerPairing
-----------------------------------------------------------------------------
(* Provider credentials and settings (Providers.tla).                      *)

Credentials == [name : Names, sort : Int, status : Outcomes \cup {"untested"}, live : BOOLEAN,
                moved : BOOLEAN]

LiveOf(cs) == {i \in DOMAIN cs : cs[i].live}
\* An order being written holds every row, unless one was connected since.
CallerSound(q, cs, since) ==
    /\ q.pc \in {"check", "write"} => DOMAIN q.ids \subseteq Int
    /\ q.pc = "write" =>
          /\ q = [pc |-> "write", ids |-> q.ids, at |-> q.at]
          /\ since \/ LiveOf(cs) \subseteq Order!ToSet(q.ids)

ProviderTypes == creds \in Seq(Credentials) /\ callers = [r \in Requests |-> callers[r]]
CallersSound == \A r \in Requests : CallerSound(callers[r], creds, late)
ProviderInv ==
    /\ ProviderTypes /\ CallersSound
    /\ Order!OrderIsOneRequests /\ Order!NamesUnique /\ Order!SettingsKept
-----------------------------------------------------------------------------
LEMMA CallersStay ==
    ASSUME ProviderInv, callers' = callers, late => late', LiveOf(creds') \subseteq LiveOf(creds)
    PROVE  CallersSound' /\ callers' = [r \in Requests |-> callers'[r]]
BY DEF ProviderInv, ProviderTypes, CallersSound, CallerSound

LEMMA CallerMoves ==
    ASSUME ProviderInv, NEW r \in Requests, NEW q, Order!Turn(r, q), late' = late,
           LiveOf(creds') \subseteq LiveOf(creds), CallerSound(q, creds', late')
    PROVE  CallersSound' /\ callers' = [p \in Requests |-> callers'[p]]
<1>1. callers' = [callers EXCEPT ![r] = q] /\ callers = [p \in Requests |-> callers[p]]
  BY DEF Order!Turn, ProviderInv, ProviderTypes
<1>2. ASSUME NEW p \in Requests  PROVE CallerSound(callers'[p], creds', late')
  <2>1. CASE p = r  BY <1>1, <2>1
  <2>2. CASE p # r
    <3>1. callers'[p] = callers[p] /\ CallerSound(callers[p], creds, late)
      BY <1>1, <2>2 DEF ProviderInv, CallersSound
    <3>2. QED  BY <3>1 DEF CallerSound
  <2>3. QED  BY <2>1, <2>2
<1>3. QED  BY <1>1, <1>2 DEF CallersSound

LEMMA OnlyTheCaller ==
    ASSUME ProviderInv, NEW r \in Requests, NEW q, Order!Turn(r, q), CallerSound(q, creds, late),
           UNCHANGED <<creds, late>>, settings' = saved'
    PROVE  ProviderInv'
<1>1. CallersSound' /\ callers' = [p \in Requests |-> callers'[p]]  BY CallerMoves
<1>2. Order!OrderIsOneRequests' /\ Order!NamesUnique'
  BY DEF ProviderInv, Order!OrderIsOneRequests, Order!NamesUnique, Order!Rows
<1>3. QED  BY <1>1, <1>2 DEF ProviderInv, ProviderTypes, Order!SettingsKept

LEMMA ConnectKeeps ==
    ASSUME ProviderInv, NEW n \in Names, Order!ConnectProvider(n)
    PROVE ProviderInv'
<1> DEFINE row == [name |-> n, sort |-> 0, status |-> "untested", live |-> TRUE, moved |-> FALSE]
<1>1. /\ creds' = Append(creds, row) /\ \A i \in Order!Rows : creds[i].name # n
      /\ late' = (late \/ \E r \in Requests : callers[r].pc = "write")
      /\ UNCHANGED <<settings, callers, saved, saves>>
  BY DEF Order!ConnectProvider
<1>2. creds \in Seq(Credentials) /\ row \in Credentials /\ row.name = n /\ ~row.moved
  BY DEF ProviderInv, ProviderTypes, Credentials
<1> HIDE DEF row
<1>3. /\ creds' \in Seq(Credentials) /\ DOMAIN creds' = DOMAIN creds \cup {Len(creds) + 1}
      /\ Len(creds) + 1 \notin DOMAIN creds
      /\ \A i \in DOMAIN creds : creds'[i] = creds[i]
      /\ creds'[Len(creds) + 1] = row
  BY <1>1, <1>2, Grown
<1>4. \A i \in Order!Rows' : \/ i \in Order!Rows /\ creds'[i] = creds[i]
                             \/ i = Len(creds) + 1 /\ creds'[i] = row
  BY <1>3 DEF Order!Rows
<1>5. Order!NamesUnique'
  BY <1>1, <1>2, <1>4 DEF Order!NamesUnique, ProviderInv
<1>6. Order!OrderIsOneRequests'
  BY <1>1, <1>2, <1>4 DEF Order!OrderIsOneRequests, ProviderInv
<1>7. CallersSound'
  <2> SUFFICES ASSUME NEW r \in Requests  PROVE CallerSound(callers'[r], creds', late')
    BY DEF CallersSound
  <2>1. CallerSound(callers[r], creds, late)  BY DEF ProviderInv, CallersSound
  <2>2. callers'[r] = callers[r]  BY <1>1
  <2>3. callers[r].pc = "write" => late'  BY <1>1
  <2>4. QED  BY <2>1, <2>2, <2>3 DEF CallerSound
<1>8. QED  BY <1>1, <1>3, <1>5, <1>6, <1>7 DEF ProviderInv, ProviderTypes, Order!SettingsKept

\* One row changes: never its name, its place or whether it was moved, and it does not
\* come back.
LEMMA RowChanges ==
    ASSUME ProviderInv, NEW i \in DOMAIN creds, NEW row \in Credentials,
           row.name = creds[i].name, row.sort = creds[i].sort, row.moved = creds[i].moved,
           row.live => creds[i].live, creds' = [creds EXCEPT ![i] = row], late' = late
    PROVE  /\ creds' \in Seq(Credentials) /\ LiveOf(creds') \subseteq LiveOf(creds)
           /\ Order!OrderIsOneRequests' /\ Order!NamesUnique'
<1>1. creds \in Seq(Credentials)  BY DEF ProviderInv, ProviderTypes
<1>2. /\ creds' \in Seq(Credentials) /\ DOMAIN creds' = DOMAIN creds
      /\ \A j \in DOMAIN creds : creds'[j] = IF j = i THEN row ELSE creds[j]
  BY <1>1, Changed
<1>3. \A j \in Order!Rows' : /\ j \in Order!Rows /\ creds'[j].name = creds[j].name
                             /\ creds'[j].sort = creds[j].sort /\ creds'[j].moved = creds[j].moved
  BY <1>2 DEF Order!Rows
<1>4. Order!OrderIsOneRequests' /\ Order!NamesUnique'
  BY <1>3 DEF Order!OrderIsOneRequests, Order!NamesUnique, ProviderInv
<1>5. LiveOf(creds') \subseteq LiveOf(creds)  BY <1>3 DEF LiveOf, Order!Rows
<1>6. QED  BY <1>2, <1>4, <1>5

LEMMA DeleteKeeps ==
    ASSUME ProviderInv, NEW i \in DOMAIN creds, Order!DeleteProvider(i)
    PROVE  ProviderInv'
<1> DEFINE row == [creds[i] EXCEPT !.live = FALSE]
<1>1. creds' = [creds EXCEPT ![i] = row] /\ UNCHANGED <<settings, callers, saved, saves, late>>
  BY DEF Order!DeleteProvider
<1>2. creds[i] \in Credentials  BY DEF ProviderInv, ProviderTypes
<1>3. /\ row \in Credentials /\ row.name = creds[i].name /\ row.sort = creds[i].sort
      /\ row.moved = creds[i].moved /\ ~row.live
  BY <1>2 DEF Credentials
<1> HIDE DEF row
<1>4. /\ creds' \in Seq(Credentials) /\ LiveOf(creds') \subseteq LiveOf(creds)
      /\ Order!OrderIsOneRequests' /\ Order!NamesUnique'
  BY <1>1, <1>3, RowChanges
<1>5. CallersSound' /\ callers' = [r \in Requests |-> callers'[r]]  BY <1>1, <1>4, CallersStay
<1>6. QED  BY <1>1, <1>4, <1>5 DEF ProviderInv, ProviderTypes, Order!SettingsKept

LEMMA RecordTestKeeps ==
    ASSUME ProviderInv, NEW r \in Requests, NEW status \in Outcomes, Order!RecordTest(r, status)
    PROVE  ProviderInv'
<1> DEFINE i == callers[r].id
<1> DEFINE row == [creds[i] EXCEPT !.status = status]
<1>1. /\ creds' = IF i \in Order!Rows THEN [creds EXCEPT ![i] = row] ELSE creds
      /\ Order!Turn(r, Order!Resting) /\ UNCHANGED <<settings, saved, saves, late>>
  BY DEF Order!RecordTest
<1>2. CallerSound(Order!Resting, creds', late')  BY DEF CallerSound, Order!Resting
<1>3. CASE i \notin Order!Rows
  <2>1. UNCHANGED <<creds, late>> /\ settings' = saved'
    BY <1>1, <1>3 DEF ProviderInv, Order!SettingsKept
  <2>2. QED  BY <1>1, <1>2, <2>1, OnlyTheCaller
<1>4. CASE i \in Order!Rows
  <2>1. i \in DOMAIN creds /\ creds[i] \in Credentials
    BY <1>4 DEF Order!Rows, ProviderInv, ProviderTypes
  <2>2. /\ row \in Credentials /\ row.name = creds[i].name /\ row.sort = creds[i].sort
        /\ row.moved = creds[i].moved /\ row.live = creds[i].live
    BY <2>1 DEF Credentials
  <2> HIDE DEF row, i
  <2>3. /\ creds' \in Seq(Credentials) /\ LiveOf(creds') \subseteq LiveOf(creds)
        /\ Order!OrderIsOneRequests' /\ Order!NamesUnique'
    BY <1>1, <1>4, <2>1, <2>2, RowChanges
  <2>4. CallersSound' /\ callers' = [p \in Requests |-> callers'[p]]
    BY <1>1, <1>2, <2>3, CallerMoves
  <2>5. QED  BY <1>1, <2>3, <2>4 DEF ProviderInv, ProviderTypes, Order!SettingsKept
<1>5. QED  BY <1>3, <1>4
-----------------------------------------------------------------------------
LEMMA OrderIsNumbered == DOMAIN Order!Order \subseteq Int
BY DEF Order!Order, Order!OrderOf

LEMMA StartMoveKeeps ==
    ASSUME ProviderInv, NEW r \in Requests, NEW i, NEW upward, Order!StartMove(r, i, upward)
    PROVE  ProviderInv'
<1>1. PICK ids : Order!Turn(r, [pc |-> "check", ids |-> ids]) /\ DOMAIN ids = DOMAIN Order!Order
  BY DEF Order!StartMove
<1>2. CallerSound([pc |-> "check", ids |-> ids], creds, late)
  BY <1>1, OrderIsNumbered DEF CallerSound
<1>3. UNCHANGED <<creds, late>> /\ settings' = saved'
  BY DEF Order!StartMove, ProviderInv, Order!SettingsKept
<1>4. QED  BY <1>1, <1>2, <1>3, OnlyTheCaller

LEMMA CheckOrderKeeps ==
    ASSUME ProviderInv, NEW r \in Requests, Order!CheckOrder(r)
    PROVE ProviderInv'
<1>1. UNCHANGED <<creds, late>> /\ settings' = saved'
  BY DEF Order!CheckOrder, ProviderInv, Order!SettingsKept
<1>2. CASE Order!ToSet(callers[r].ids) = Order!Rows
  <2> DEFINE q == [pc |-> "write", ids |-> callers[r].ids, at |-> 1]
  <2>1. Order!Turn(r, q)  BY <1>2 DEF Order!CheckOrder
  <2>2. DOMAIN callers[r].ids \subseteq Int
    BY DEF Order!CheckOrder, ProviderInv, CallersSound, CallerSound
  <2>3. CallerSound(q, creds, late)  BY <1>2, <2>2 DEF CallerSound, LiveOf, Order!Rows
  <2>4. QED  BY <1>1, <2>1, <2>3, OnlyTheCaller
<1>3. CASE Order!ToSet(callers[r].ids) # Order!Rows
  <2>1. Order!Turn(r, Order!Resting)  BY <1>3 DEF Order!CheckOrder
  <2>2. CallerSound(Order!Resting, creds, late)  BY DEF CallerSound, Order!Resting
  <2>3. QED  BY <1>1, <2>1, <2>2, OnlyTheCaller
<1>4. QED  BY <1>2, <1>3

LEMMA WriteRowKeeps ==
    ASSUME ProviderInv, NEW r \in Requests, Order!WriteRow(r)
    PROVE ProviderInv'
<1> DEFINE q == [callers[r] EXCEPT !.at = @ + 1]
<1>1. /\ callers[r].pc = "write" /\ Order!Turn(r, q) /\ UNCHANGED <<creds, late>>
      /\ settings' = saved'
  BY DEF Order!WriteRow, ProviderInv, Order!SettingsKept
<1>2. CallerSound(callers[r], creds, late)  BY DEF ProviderInv, CallersSound
<1>3. callers[r] = [pc |-> "write", ids |-> callers[r].ids, at |-> callers[r].at]
  BY <1>1, <1>2 DEF CallerSound
<1>4. q = [pc |-> "write", ids |-> callers[r].ids, at |-> callers[r].at + 1]  BY <1>3
<1> HIDE DEF q
<1>5. q.pc = "write" /\ q.ids = callers[r].ids /\ q = [pc |-> "write", ids |-> q.ids, at |-> q.at]
  BY <1>4
<1>6. CallerSound(q, creds, late)  BY <1>1, <1>2, <1>5 DEF CallerSound
<1>7. QED  BY <1>1, <1>6, OnlyTheCaller

LEMMA CommitOrderKeeps ==
    ASSUME ProviderInv, NEW r \in Requests, Order!CommitOrder(r)
    PROVE ProviderInv'
<1> DEFINE ids == callers[r].ids
<1> DEFINE place(i) == CHOOSE k \in DOMAIN ids : ids[k] = i
<1> DEFINE row(i) == [creds[i] EXCEPT !.sort = place(i) - 1, !.moved = TRUE]
<1>1. /\ callers[r].pc = "write"
      /\ creds' = [i \in DOMAIN creds |-> IF i \in Order!ToSet(ids) THEN row(i) ELSE creds[i]]
      /\ Order!Turn(r, Order!Resting) /\ UNCHANGED <<settings, saved, saves, late>>
  BY DEF Order!CommitOrder
<1>2. DOMAIN ids \subseteq Int /\ (late \/ LiveOf(creds) \subseteq Order!ToSet(ids))
  BY <1>1 DEF ProviderInv, CallersSound, CallerSound
<1>3. ASSUME NEW i \in Order!ToSet(ids)  PROVE place(i) \in DOMAIN ids /\ ids[place(i)] = i
  BY DEF Order!ToSet
<1>4. ASSUME NEW i \in DOMAIN creds, i \in Order!ToSet(ids)
      PROVE  /\ row(i) \in Credentials /\ row(i).name = creds[i].name
             /\ row(i).live = creds[i].live /\ row(i).sort = place(i) - 1
  <2>1. creds[i] \in Credentials  BY DEF ProviderInv, ProviderTypes
  <2>2. place(i) \in DOMAIN ids  BY <1>3, <1>4
  <2> HIDE DEF place, ids
  <2>3. place(i) - 1 \in Int  BY <1>2, <2>2
  <2>4. QED  BY <2>1, <2>3 DEF Credentials
<1> HIDE DEF row, place, ids
<1>5. creds \in Seq(Credentials) /\ DOMAIN creds = 1..Len(creds) /\ Len(creds) \in Nat
  BY DEF ProviderInv, ProviderTypes
<1>6. creds' \in Seq(Credentials) /\ DOMAIN creds' = DOMAIN creds
  <2>1. ASSUME NEW i \in DOMAIN creds
        PROVE  (IF i \in Order!ToSet(ids) THEN row(i) ELSE creds[i]) \in Credentials
    BY <1>4, <1>5
  <2>2. creds' \in [1..Len(creds) -> Credentials]  BY <1>1, <1>5, <2>1
  <2>3. QED  BY <1>1, <1>5, <2>2
<1>7. \A i \in Order!Rows' : i \in Order!Rows /\ creds'[i].name = creds[i].name
  BY <1>1, <1>4 DEF Order!Rows
<1>8. LiveOf(creds') \subseteq LiveOf(creds)  BY <1>7 DEF LiveOf, Order!Rows
<1>9. CallerSound(Order!Resting, creds', late')  BY DEF CallerSound, Order!Resting
<1>10. CallersSound' /\ callers' = [p \in Requests |-> callers'[p]]
  BY <1>1, <1>8, <1>9, CallerMoves
<1>11. Order!NamesUnique'  BY <1>7 DEF Order!NamesUnique, ProviderInv
<1>12. Order!OrderIsOneRequests'
  <2> SUFFICES ASSUME ~late, NEW i \in Order!Rows', NEW j \in Order!Rows',
                      creds'[i].sort = creds'[j].sort
               PROVE  i = j
    BY <1>1 DEF Order!OrderIsOneRequests
  <2>1. /\ i \in Order!ToSet(ids) /\ j \in Order!ToSet(ids)
        /\ i \in DOMAIN creds /\ j \in DOMAIN creds
    BY <1>2, <1>7 DEF LiveOf, Order!Rows
  <2>2. creds'[i] = row(i) /\ creds'[j] = row(j)  BY <1>1, <2>1
  <2>3. place(i) - 1 = place(j) - 1  BY <1>4, <2>1, <2>2
  <2>4. place(i) \in Int /\ place(j) \in Int  BY <1>2, <1>3, <2>1
  <2>5. place(i) = place(j)  BY <2>3, <2>4
  <2>6. QED  BY <1>3, <2>1, <2>5
<1>13. QED  BY <1>1, <1>6, <1>10, <1>11, <1>12 DEF ProviderInv, ProviderTypes, Order!SettingsKept

LEMMA CallerRests ==
    ASSUME ProviderInv, NEW r \in Requests, NEW q, Order!Turn(r, q),
           q.pc \notin {"check", "write"},
           UNCHANGED <<creds, late>>, settings' = saved'
    PROVE  ProviderInv'
BY OnlyTheCaller DEF CallerSound

LEMMA CallersRest ==
    ASSUME ProviderInv, NEW r \in Requests,
           \/ Order!AbortOrder(r)
           \/ \E i \in DOMAIN creds : Order!StartTest(r, i)
           \/ Order!RefuseTest(r)
           \/ \E steps \in SUBSET Order!Rows : Order!StartRouting(r, steps)
           \/ Order!StartOverrides(r)
           \/ Order!Upsert(r)
    PROVE  ProviderInv'
<1>1. settings = saved  BY DEF ProviderInv, Order!SettingsKept
<1>2. UNCHANGED <<creds, late>> /\ settings' = saved'
  BY <1>1
     DEF Order!AbortOrder, Order!StartTest, Order!RefuseTest, Order!StartRouting,
         Order!StartOverrides, Order!Upsert
<1>3. \E q : Order!Turn(r, q) /\ q.pc \notin {"check", "write"}
  <2>1. Order!Resting.pc = "idle"  BY DEF Order!Resting
  <2>2. CASE Order!AbortOrder(r) \/ Order!RefuseTest(r) \/ Order!Upsert(r)
    BY <2>1, <2>2 DEF Order!AbortOrder, Order!RefuseTest, Order!Upsert
  <2>3. CASE \E i \in DOMAIN creds : Order!StartTest(r, i)
    <3>1. PICK i : Order!Turn(r, [pc |-> "probe", id |-> i])  BY <2>3 DEF Order!StartTest
    <3>2. [pc |-> "probe", id |-> i].pc = "probe"  OBVIOUS
    <3>3. QED  BY <3>1, <3>2
  <2>4. CASE \E steps \in SUBSET Order!Rows : Order!StartRouting(r, steps)
    <3>1. PICK steps : Order!Turn(r, [pc |-> "routing", steps |-> steps])
      BY <2>4 DEF Order!StartRouting
    <3>2. [pc |-> "routing", steps |-> steps].pc = "routing"  OBVIOUS
    <3>3. QED  BY <3>1, <3>2
  <2>5. CASE Order!StartOverrides(r)
    <3>1. Order!Turn(r, [pc |-> "overrides", on |-> TRUE, read |-> settings])
      BY <2>5 DEF Order!StartOverrides
    <3>2. [pc |-> "overrides", on |-> TRUE, read |-> settings].pc = "overrides"  OBVIOUS
    <3>3. QED  BY <3>1, <3>2
  <2>6. QED  BY <2>2, <2>3, <2>4, <2>5
<1>4. QED  BY <1>2, <1>3, CallerRests

LEMMA ProviderInitInv == Order!ProviderInit => ProviderInv
BY
   DEF Order!ProviderInit, ProviderInv, ProviderTypes, CallersSound, CallerSound,
       Order!OrderIsOneRequests,
       Order!NamesUnique, Order!SettingsKept, Order!Resting, Order!Rows

LEMMA ProviderStep == ProviderInv /\ Order!ProviderNext => ProviderInv'
BY ConnectKeeps, DeleteKeeps, StartMoveKeeps, CheckOrderKeeps, WriteRowKeeps, CommitOrderKeeps,
   RecordTestKeeps, CallersRest
   DEF Order!ProviderNext

LEMMA ProvidersAreSafe == ProviderInv => Order!ProvidersSafe
BY DEF ProviderInv, Order!ProvidersSafe
-----------------------------------------------------------------------------
(* The desktop (Desktop.tla).                                              *)

Seen == Controls \cup {Empty}
Spots == Slots \cup {Screen!User}
Answers == {"none", "shape", "error", "ok", "password", "unknown", "no"}
Hands == {"press", "again", "warp"}
Steps == {"none", "staged", "resolve", "dwell", "probe", "probed", "keys", "open"} \cup Hands
Kinds == {"control", "point", "bare"}
Acts == [name : Screen!Tools \cup {"none"}, pc : Steps,
         target : Kinds \cup {Empty}, meant : Seen, where : Spots,
         saved : Spots \cup {Empty}, probe : Answers]

DeskTypes ==
    /\ screen \in [Windows -> [Slots -> Seen]] /\ front \in Windows
    /\ focus \in Seen /\ mouse \in Spots /\ act \in Acts
    /\ held \in BOOLEAN /\ astray \in BOOLEAN /\ refused \in BOOLEAN
\* A look that nothing has made stale shows what is in the window it was of.
ReadSound ==
    /\ read = [window |-> read.window, ids |-> read.ids, slots |-> read.slots]
    /\ \A n \in DOMAIN read.ids :
          /\ read.ids[n] \in Seen /\ read.slots[n] \in Slots
          /\ ~stale => /\ n \in DOMAIN Screen!Shown(read.window)
                       /\ read.slots[n] = Screen!Shown(read.window)[n]
                       /\ read.ids[n] = screen[read.window][read.slots[n]]
Aimed ==
    /\ act.pc # "none" => act.target \in Kinds
    /\ act.pc = "resolve" => act.target = "control"
Current == ~stale /\ read.window = front
\* What is meant by a C id is behind it, what is meant by a place is there.
MeantIsThere ==
    /\ act.pc \in {"staged", "resolve"} /\ act.target = "control" =>
          act.where \in DOMAIN read.ids /\ act.meant = read.ids[act.where]
    /\ \/ act.pc \in {"staged", "resolve", "dwell"} /\ act.target = "point"
       \/ act.pc = "dwell" /\ act.target = "control"
       => act.where \in Slots /\ (Current => screen[front][act.where] = act.meant)
    /\ act.pc \in {"press", "again"} /\ Current =>
          mouse \in Slots /\ screen[front][mouse] = act.meant
\* A probe that said no has said it of what still has the focus.
ProbeHolds == act.pc = "probed" /\ act.probe = "no" /\ ~drifted => focus \notin Secrets
\* While an action has the pointer, it knows where it was.
Restored ==
    /\ astray \/ IF act.pc \in Hands THEN act.saved \in {Screen!User, Empty}
                 ELSE mouse = Screen!User
    /\ held => refused

DesktopInv ==
    /\ DeskTypes /\ ReadSound /\ Aimed /\ MeantIsThere /\ ProbeHolds /\ Restored
    /\ Screen!NoTextInSecrets /\ Screen!HitsWhatWasSeen
-----------------------------------------------------------------------------
LEMMA SameCount == ASSUME NEW S  PROVE Screen!Cardinality(S) = Cardinality(S)
BY DEF Screen!Cardinality, Cardinality

\* A finite set of numbers has an i-th element: how many come before one is a number
\* below the size of the set, and another for each.
LEMMA RanksExist ==
    ASSUME NEW S, S \subseteq Nat, IsFiniteSet(S), NEW i \in 1 .. Cardinality(S)
    PROVE  \E s \in S : Cardinality({t \in S : t < s}) = i - 1
<1> DEFINE Before(s) == {t \in S : t < s}
           n == Cardinality(S)
           f == [s \in S |-> Cardinality(Before(s))]
<1>1. n \in Nat  BY FS_CardinalityType
<1>2. ASSUME NEW s \in S
      PROVE  IsFiniteSet(Before(s)) /\ f[s] \in 0 .. n - 1 /\ f[s] = Cardinality(Before(s))
  <2>1. Before(s) \in SUBSET S /\ s \notin Before(s)  OBVIOUS
  <2>2. /\ IsFiniteSet(Before(s)) /\ Cardinality(Before(s)) <= n
        /\ Cardinality(Before(s)) # n
    BY <2>1, FS_Subset
  <2>3. Cardinality(Before(s)) \in Nat  BY <2>2, FS_CardinalityType
  <2>4. QED  BY <1>1, <2>2, <2>3
<1>3. ASSUME NEW s \in S, NEW t \in S, s < t  PROVE f[s] < f[t]
  <2>0. s \in Nat /\ t \in Nat /\ \A u \in S : u < s => u < t  BY <1>3
  <2>1. Before(s) \in SUBSET Before(t) /\ s \in Before(t) /\ s \notin Before(s)
    <3>1. Before(s) \subseteq Before(t)  BY <2>0
    <3>2. s \in Before(t)  BY <1>3
    <3>3. ~(s < s)  BY <2>0
    <3>4. QED  BY <3>1, <3>2, <3>3
  <2>2. /\ Cardinality(Before(s)) <= Cardinality(Before(t))
        /\ Cardinality(Before(s)) # Cardinality(Before(t))
    BY <1>2, <2>1, FS_Subset
  <2>3. f[s] \in Nat /\ f[t] \in Nat  BY <1>1, <1>2
  <2>4. f[s] <= f[t] /\ f[s] # f[t]  BY <1>2, <2>2
  <2>5. QED  BY <2>3, <2>4
<1>0. \A s \in S : f[s] \in Nat  BY <1>1, <1>2
<1> HIDE DEF f
<1>4. \A s, t \in S : f[s] = f[t] => s = t
  <2> SUFFICES ASSUME NEW s \in S, NEW t \in S, f[s] = f[t], s # t  PROVE FALSE
    OBVIOUS
  <2>1. s < t \/ t < s  OBVIOUS
  <2>2. QED  BY <1>0, <1>3, <2>1
<1>5. f \in [S -> 0 .. n - 1]  BY <1>2 DEF f
<1>6. f \in Injection(S, 0 .. n - 1)  BY <1>4, <1>5 DEF Injection, IsInjective
<1>7. IsFiniteSet(0 .. n - 1) /\ Cardinality(0 .. n - 1) = n
  <2>1. 0 \in Int /\ n - 1 \in Int  BY <1>1
  <2>2. /\ IsFiniteSet(0 .. n - 1)
        /\ Cardinality(0 .. n - 1) = IF 0 > n - 1 THEN 0 ELSE n - 1 - 0 + 1
    BY <2>1, FS_Interval
  <2>3. QED  BY <1>1, <2>2
<1>8. f \in Surjection(S, 0 .. n - 1)  BY <1>6, <1>7, FS_Injection
<1>9. i - 1 \in 0 .. n - 1  BY <1>1
<1>10. PICK s \in S : f[s] = i - 1  BY <1>8, <1>9 DEF Surjection
<1>11. QED  BY <1>2, <1>10

LEMMA ShownAreSlots ==
    ASSUME NEW w
    PROVE  \A n \in DOMAIN Screen!Shown(w) : Screen!Shown(w)[n] \in Slots
<1> DEFINE S == {s \in Slots : screen[w][s] # Empty}
<1>1. S \subseteq Nat /\ IsFiniteSet(S)
  <2>1. S \in SUBSET Slots  OBVIOUS
  <2>2. QED  BY <2>1, ServicesAssumption, FS_Subset
<1>2. Screen!Shown(w) = Screen!InOrder(S)  BY DEF Screen!Shown
<1> HIDE DEF S
<1>3. Screen!InOrder(S) = [i \in 1 .. Cardinality(S) |->
                             CHOOSE s \in S : Cardinality({t \in S : t < s}) = i - 1]
  BY DEF Screen!InOrder, Screen!Cardinality, Cardinality
<1>4. \A n \in DOMAIN Screen!InOrder(S) : Screen!InOrder(S)[n] \in S
  <2> SUFFICES ASSUME NEW n \in 1 .. Cardinality(S)  PROVE Screen!InOrder(S)[n] \in S
    BY <1>3
  <2>1. \E s \in S : Cardinality({t \in S : t < s}) = n - 1  BY <1>1, RanksExist
  <2>2. Screen!InOrder(S)[n] = CHOOSE s \in S : Cardinality({t \in S : t < s}) = n - 1
    BY <1>3
  <2>3. QED  BY <2>1, <2>2
<1>5. QED  BY <1>2, <1>4 DEF S

\* What a walk of a window reads.
LEMMA WalkReads ==
    ASSUME NEW w, screen \in [Windows -> [Slots -> Seen]], w \in Windows
    PROVE  LET r == Screen!Walk(w) IN
           /\ r = [window |-> r.window, ids |-> r.ids, slots |-> r.slots] /\ r.window = w
           /\ \A n \in DOMAIN r.ids : /\ r.ids[n] \in Seen /\ r.slots[n] \in Slots
                                      /\ n \in DOMAIN Screen!Shown(w)
                                      /\ r.slots[n] = Screen!Shown(w)[n]
                                      /\ r.ids[n] = screen[w][r.slots[n]]
<1> DEFINE r == Screen!Walk(w)
<1>1. /\ r = [window |-> r.window, ids |-> r.ids, slots |-> r.slots] /\ r.window = w
      /\ r.slots = Screen!Shown(w)
      /\ r.ids = [i \in DOMAIN Screen!Shown(w) |-> screen[w][Screen!Shown(w)[i]]]
  BY DEF Screen!Walk, Screen!Ids
<1> HIDE DEF r
<1>2. \A n \in DOMAIN Screen!Shown(w) : Screen!Shown(w)[n] \in Slots  BY ShownAreSlots
<1>3. \A n \in DOMAIN r.ids : /\ n \in DOMAIN Screen!Shown(w)
                              /\ r.slots[n] = Screen!Shown(w)[n] /\ r.slots[n] \in Slots
                              /\ r.ids[n] = screen[w][r.slots[n]]
  BY <1>1, <1>2
<1>4. \A n \in DOMAIN r.ids : r.ids[n] \in Seen  BY <1>3
<1>5. QED  BY <1>1, <1>3, <1>4 DEF r

LEMMA LookKeepsDesktop ==
    ASSUME DesktopInv, Screen!ReadFails \/ \E w \in Windows : Screen!LookAtScreen(w)
    PROVE  DesktopInv'
<1>1. /\ act.pc = "none"
      /\ UNCHANGED <<screen, front, focus, mouse, held, act, drifted, refused, astray, struck>>
  BY DEF Screen!ReadFails, Screen!LookAtScreen, Screen!desk, Screen!past
<1>2. ReadSound'
  <2>1. CASE Screen!ReadFails
    <3>1. read' = [window |-> front, ids |-> <<>>, slots |-> <<>>]
      BY <2>1 DEF Screen!ReadFails
    <3>2. QED  BY <3>1 DEF ReadSound
  <2>2. ASSUME NEW w \in Windows, Screen!LookAtScreen(w)  PROVE ReadSound'
    <3>1. read' = Screen!Walk(w)  BY <2>2 DEF Screen!LookAtScreen
    <3>2. LET r == Screen!Walk(w) IN
           /\ r = [window |-> r.window, ids |-> r.ids, slots |-> r.slots] /\ r.window = w
           /\ \A n \in DOMAIN r.ids : /\ r.ids[n] \in Seen /\ r.slots[n] \in Slots
                                      /\ n \in DOMAIN Screen!Shown(w)
                                      /\ r.slots[n] = Screen!Shown(w)[n]
                                      /\ r.ids[n] = screen[w][r.slots[n]]
      BY WalkReads DEF DesktopInv, DeskTypes
    <3>3. Screen!Shown(w)' = Screen!Shown(w)  BY <1>1 DEF Screen!Shown
    <3>4. QED  BY <1>1, <3>1, <3>2, <3>3 DEF ReadSound
  <2>3. QED  BY <2>1, <2>2
<1>3. DeskTypes' /\ Restored' /\ Screen!NoTextInSecrets' /\ Screen!HitsWhatWasSeen'
  BY <1>1 DEF DesktopInv, DeskTypes, Restored, Screen!NoTextInSecrets, Screen!HitsWhatWasSeen
<1>4. MeantIsThere' /\ ProbeHolds' /\ Aimed'
  BY <1>1 DEF MeantIsThere, ProbeHolds, Aimed
<1>5. QED  BY <1>2, <1>3, <1>4 DEF DesktopInv

\* A step that leaves the desktop and the look alone, and strikes nothing.
LEMMA OnlyTheAct ==
    ASSUME DesktopInv, NEW a \in Acts, act' = a,
           UNCHANGED <<screen, front, focus, mouse, held, read, stale, drifted, refused,
                       astray>>,
           struck' = struck \/ struck' = Screen!Nothing, act.pc \notin Hands, a.pc \notin Hands,
           MeantIsThere', a.pc = "probed" => ProbeHolds', Aimed'
    PROVE  DesktopInv'
<1>1. DeskTypes' /\ Restored' /\ Screen!NoTextInSecrets' /\ Screen!HitsWhatWasSeen'
  <2>1. DeskTypes' /\ Restored'  BY DEF DesktopInv, DeskTypes, Restored
  <2>2. Screen!NoTextInSecrets' /\ Screen!HitsWhatWasSeen'
    BY DEF DesktopInv, Screen!NoTextInSecrets, Screen!HitsWhatWasSeen, Screen!Nothing
  <2>3. QED  BY <2>1, <2>2
<1>2. ReadSound'
  <2>1. Screen!Shown(read.window)' = Screen!Shown(read.window)  BY DEF Screen!Shown
  <2>2. QED  BY <2>1 DEF DesktopInv, ReadSound
<1>3. ProbeHolds'  BY DEF ProbeHolds
<1>4. QED  BY <1>1, <1>2, <1>3 DEF DesktopInv

\* The answer to an action.
LEMMA Ended == \A result \in Answers : [Screen!Idle EXCEPT !.probe = result] \in Acts
BY DEF Screen!Idle, Acts, Answers, Steps, Seen, Spots, Kinds

LEMMA EndedFields ==
    ASSUME NEW result, Screen!Answer(result)
    PROVE  act'.pc = "none" /\ act'.pc \notin Hands /\ (result \in Answers => act' \in Acts)
<1>1. act' = [Screen!Idle EXCEPT !.probe = result]  BY DEF Screen!Answer
<1>2. act'.pc = "none" /\ act'.pc \notin Hands  BY <1>1 DEF Screen!Idle, Hands
<1>3. QED  BY <1>1, <1>2, Ended

LEMMA EndKeepsMeaning ==
    ASSUME act'.pc = "none"
    PROVE  MeantIsThere' /\ ProbeHolds' /\ Aimed'
BY DEF MeantIsThere, ProbeHolds, Aimed

LEMMA StageKeepsDesktop ==
    ASSUME DesktopInv, NEW name \in Screen!Tools, NEW kind \in {"control", "point", "bare"},
           NEW n \in Slots, Screen!Stage(name, kind, n)
    PROVE  DesktopInv'
<1> DEFINE meant == IF kind = "bare" THEN Empty ELSE read.ids[n]
           where == CASE kind = "control" -> n
                      [] kind = "point" -> read.slots[n]
                      [] OTHER -> Screen!User
           a == [name |-> name, pc |-> "staged", target |-> kind, meant |-> meant,
                 where |-> where, saved |-> Empty, probe |-> "none"]
<1>1. /\ kind # "bare" => n \in DOMAIN read.ids
      /\ UNCHANGED <<screen, front, focus, mouse, held, read, stale, drifted, refused,
                     astray>>
      /\ struck' = Screen!Nothing /\ act' = a /\ act.pc \notin Hands
  BY DEF Screen!Stage, Screen!desk, Screen!Idle, Hands
<1>2. kind # "bare" => read.ids[n] \in Seen /\ read.slots[n] \in Slots
  BY <1>1 DEF DesktopInv, ReadSound
<1>3. meant \in Seen /\ where \in Spots
  <2>1. CASE kind = "bare"  BY <2>1 DEF Seen, Spots
  <2>2. CASE kind = "control"  BY <1>2, <2>2 DEF Spots
  <2>3. CASE kind = "point"  BY <1>2, <2>3 DEF Spots
  <2>4. QED  BY <2>1, <2>2, <2>3
<1>4. /\ kind = "control" => where = n /\ meant = read.ids[n]
      /\ kind = "point" => where = read.slots[n] /\ meant = read.ids[n]
  OBVIOUS
<1> HIDE DEF meant, where
<1>5. a \in Acts  BY <1>3 DEF Acts, Steps, Answers, Kinds
<1>6. MeantIsThere'
  <2>1. CASE kind = "bare"  BY <1>1, <2>1 DEF MeantIsThere
  <2>2. CASE kind = "control"  BY <1>1, <1>4, <2>2 DEF MeantIsThere
  <2>3. CASE kind = "point"
    <3>1. Current => screen[front][where] = meant
      BY <1>1, <1>4, <2>3 DEF DesktopInv, ReadSound, Current
    <3>2. where \in Slots  BY <1>2, <1>4, <2>3
    <3>3. QED  BY <1>1, <2>3, <3>1, <3>2 DEF MeantIsThere, Current
  <2>4. QED  BY <2>1, <2>2, <2>3
<1>7. a.pc # "probed" /\ a.pc \notin Hands /\ Aimed'  BY <1>1 DEF Aimed, Kinds, Hands
<1> HIDE DEF a
<1>8. QED  BY <1>1, <1>5, <1>6, <1>7, OnlyTheAct

LEMMA ExecuteKeepsDesktop ==
    ASSUME DesktopInv, Screen!Execute \/ Screen!Decline \/ Screen!ResolveFails
    PROVE  DesktopInv'
<1>1. /\ act.pc \notin Hands
      /\ UNCHANGED <<screen, front, focus, mouse, held, read, stale, drifted, refused, astray,
                     struck>>
  BY DEF Screen!Execute, Screen!Decline, Screen!ResolveFails, Screen!desk, Screen!past, Hands
<1>2. ASSUME NEW result \in Answers, Screen!Answer(result)  PROVE DesktopInv'
  <2>1. act'.pc = "none" /\ act'.pc \notin Hands /\ act' \in Acts  BY <1>2, EndedFields
  <2>2. MeantIsThere' /\ Aimed'  BY <2>1, EndKeepsMeaning
  <2>3. QED  BY <1>1, <2>1, <2>2, OnlyTheAct
<1>3. CASE Screen!Execute /\ Screen!Renormalizes(act.name)
  <2> DEFINE pc == CASE act.name = "open_app" -> "open"
                     [] act.target = "control" -> "resolve"
                     [] act.target = "point" -> "dwell"
                     [] OTHER -> "dwell"
  <2>1. act.pc = "staged" /\ act' = [act EXCEPT !.pc = pc]  BY <1>3 DEF Screen!Execute
  <2>2. pc \in {"open", "resolve", "dwell"} /\ (pc = "dwell" => act.target # "control")
    OBVIOUS
  <2>3. (pc = "resolve" => act.target = "control")
    OBVIOUS
  <2> HIDE DEF pc
  <2>4. act \in Acts  BY DEF DesktopInv, DeskTypes
  <2>5. /\ act' \in Acts /\ act'.pc = pc /\ act'.target = act.target /\ act'.meant = act.meant
        /\ act'.where = act.where
    BY <2>1, <2>2, <2>4 DEF Acts, Steps
  <2>6. MeantIsThere'
    BY <1>1, <2>1, <2>2, <2>5 DEF DesktopInv, MeantIsThere, Current
  <2>7. Aimed'  BY <2>1, <2>3, <2>5 DEF DesktopInv, Aimed
  <2>8. act'.pc \notin Hands  BY <2>2, <2>5 DEF Hands
  <2>9. QED  BY <1>1, <2>2, <2>5, <2>6, <2>7, <2>8, OnlyTheAct
<1>4. QED  BY <1>2, <1>3 DEF Screen!Execute, Screen!Decline, Screen!ResolveFails, Answers

LEMMA ResolveKeepsDesktop == ASSUME DesktopInv, Screen!Resolve  PROVE DesktopInv'
<1>1. /\ act.pc = "resolve" /\ act.pc \notin Hands /\ act \in Acts /\ act.target = "control"
      /\ UNCHANGED <<screen, front, focus, mouse, held, read, stale, drifted, refused, astray,
                     struck>>
  BY DEF Screen!Resolve, Screen!desk, Screen!past, DesktopInv, DeskTypes, Aimed, Hands
<1>2. CASE Screen!Answer("error")
  <2>1. act'.pc = "none" /\ act'.pc \notin Hands /\ act' \in Acts
    BY <1>2, EndedFields DEF Answers
  <2>2. MeantIsThere' /\ Aimed'  BY <2>1, EndKeepsMeaning
  <2>3. QED  BY <1>1, <2>1, <2>2, OnlyTheAct
<1>3. CASE ~Screen!Answer("error")
  <2> DEFINE place == Screen!Shown(front)[act.where]
  <2>1. /\ act.where \in DOMAIN Screen!Ids(front)
        /\ act' = [act EXCEPT !.pc = "dwell", !.where = place]
    BY <1>3 DEF Screen!Resolve
  <2>2. /\ act.where \in DOMAIN Screen!Shown(front)
        /\ Screen!Ids(front)[act.where] = screen[front][place]
    BY <2>1 DEF Screen!Ids
  <2>3. place \in Slots  BY <2>2, ShownAreSlots
  <2>4. act.target = "control" /\ Current => screen[front][place] = act.meant
    BY <1>1, <2>2 DEF DesktopInv, ReadSound, MeantIsThere, Current
  <2> HIDE DEF place
  <2>6. /\ act' \in Acts /\ act'.pc = "dwell" /\ act'.target = act.target
        /\ act'.meant = act.meant /\ act'.where = place
    BY <1>1, <2>1, <2>3 DEF Acts, Steps, Spots
  <2>7. MeantIsThere'
    BY <1>1, <2>3, <2>4, <2>6 DEF MeantIsThere, Current
  <2>8. Aimed'  BY <1>1, <2>6 DEF Aimed, Kinds
  <2>9. act'.pc \notin Hands  BY <2>6 DEF Hands
  <2>10. QED  BY <1>1, <2>6, <2>7, <2>8, <2>9, OnlyTheAct
<1>4. QED  BY <1>2, <1>3

\* What an input reached, and what is known of it then.
LEMMA StruckSound ==
    ASSUME NEW how, NEW control, NEW changed, Screen!Struck(how, control, changed),
           how = "text" /\ control \in Secrets => changed,
           how = "mouse" /\ control # act.meant => changed \/ read.window # front
    PROVE  Screen!NoTextInSecrets' /\ Screen!HitsWhatWasSeen'
<1>1. struck' = [how |-> how, control |-> control, meant |-> act.meant, changed |-> changed,
                 behind |-> read.window # front]
  BY DEF Screen!Struck
<1>2. /\ struck'.how = how /\ struck'.control = control /\ struck'.meant = act.meant
      /\ struck'.changed = changed /\ struck'.behind = (read.window # front)
  BY <1>1
<1>3. QED  BY <1>2 DEF Screen!NoTextInSecrets, Screen!HitsWhatWasSeen

LEMMA ReadKept ==
    ASSUME DesktopInv, UNCHANGED <<screen, read>>, ~stale' => ~stale
    PROVE  ReadSound'
<1>1. Screen!Shown(read.window)' = Screen!Shown(read.window)  BY DEF Screen!Shown
<1>2. QED  BY <1>1 DEF DesktopInv, ReadSound

\* An action goes on to type or to press, or ends.
LEMMA MeaningGoesOn ==
    ASSUME DesktopInv, act.pc # "none", act' \in Acts,
           \/ act'.pc \in {"none", "probe", "keys"} /\ act'.target \in Kinds
           \/ act'.pc = "none"
    PROVE  MeantIsThere' /\ ProbeHolds' /\ Aimed'
BY DEF MeantIsThere, ProbeHolds, Aimed

\* The pointer is over what was meant, and it is known where it was.
LEMMA HoverKeepsDesktop ==
    ASSUME DesktopInv, NEW known \in BOOLEAN, NEW lands \in BOOLEAN,
           Screen!Hover(known, lands)
    PROVE  DesktopInv'
<1> DEFINE kept == IF known THEN mouse ELSE Empty
           pc == IF lands THEN "press" ELSE "warp"
           probe == IF lands THEN act.probe ELSE "error"
<1>1. /\ act.pc = "dwell" /\ act.pc \notin Hands /\ act.target # "bare" /\ act \in Acts
      /\ act.target \in Kinds
      /\ UNCHANGED <<screen, front, focus, held, read, stale, drifted, astray, struck>>
      /\ mouse' = IF lands THEN act.where ELSE mouse
      /\ refused' = (refused \/ ~lands)
      /\ act' = [act EXCEPT !.saved = kept, !.pc = pc, !.probe = probe]
  BY DEF Screen!Hover, DesktopInv, DeskTypes, Aimed, Hands
<1>2. act.where \in Slots /\ (Current => screen[front][act.where] = act.meant)
  BY <1>1 DEF DesktopInv, MeantIsThere, Kinds
<1>3. mouse \in Spots /\ (mouse = Screen!User \/ astray)
  BY <1>1 DEF DesktopInv, DeskTypes, Restored
<1>4. kept \in Spots \cup {Empty} /\ (kept \in {Screen!User, Empty} \/ astray)
  BY <1>3
<1>5. /\ pc \in Hands /\ pc \in Steps /\ probe \in Answers /\ pc \in {"press", "warp"}
      /\ pc = "press" <=> lands
  BY <1>1 DEF Hands, Steps, Acts, Answers
<1> HIDE DEF kept, pc, probe
<1>6. /\ act' \in Acts /\ act'.pc = pc /\ act'.saved = kept /\ act'.target = act.target
      /\ act'.meant = act.meant
  BY <1>1, <1>4, <1>5 DEF Acts
<1>7. mouse' \in Spots  BY <1>1, <1>2, <1>3 DEF Spots
<1>8. refused' \in BOOLEAN /\ (held' => refused')
  BY <1>1 DEF DesktopInv, DeskTypes, Restored
<1>9. DeskTypes' /\ Restored'
  BY <1>1, <1>4, <1>5, <1>6, <1>7, <1>8 DEF DesktopInv, DeskTypes, Restored
<1>10. MeantIsThere'
  BY <1>1, <1>2, <1>5, <1>6 DEF MeantIsThere, Current
<1>11. ProbeHolds' /\ Aimed'
  BY <1>1, <1>5, <1>6 DEF ProbeHolds, Aimed
<1>12. Screen!NoTextInSecrets' /\ Screen!HitsWhatWasSeen'
  BY <1>1 DEF DesktopInv, Screen!NoTextInSecrets, Screen!HitsWhatWasSeen
<1>13. ReadSound'  BY <1>1, ReadKept
<1>14. QED  BY <1>9, <1>10, <1>11, <1>12, <1>13 DEF DesktopInv

\* What is clicked is what the pointer is over.
LEMMA PressKeepsDesktop == ASSUME DesktopInv, Screen!Press  PROVE DesktopInv'
<1>1. /\ act.pc \in {"press", "again"} /\ act.pc \in Hands /\ act \in Acts
      /\ act.target \in Kinds /\ mouse \in Spots
      /\ UNCHANGED <<screen, front, mouse, held, read, stale, drifted, refused, astray>>
      /\ Screen!Struck("mouse", Screen!Under(mouse), stale)
  BY DEF Screen!Press, DesktopInv, DeskTypes, Aimed, Hands
<1>2. PICK pc \in {"warp", "again"} : act' = [act EXCEPT !.pc = pc]
  BY DEF Screen!Press
<1>3. /\ act' \in Acts /\ act'.pc = pc /\ act'.target = act.target /\ act'.meant = act.meant
      /\ act'.saved = act.saved /\ pc \in Hands
  BY <1>1, <1>2 DEF Acts, Steps, Hands
<1>4. Screen!Under(mouse) \in Seen
  BY <1>1 DEF Screen!Under, DesktopInv, DeskTypes, Seen, Spots
<1>5. focus' \in Seen
  BY <1>4 DEF Screen!Press, DesktopInv, DeskTypes
<1>6. Current => Screen!Under(mouse) = act.meant
  <2>1. \A s \in Slots : s # Screen!User  BY ServicesAssumption DEF Screen!User
  <2>2. Current => mouse \in Slots /\ screen[front][mouse] = act.meant
    BY <1>1 DEF DesktopInv, MeantIsThere
  <2>3. QED  BY <2>1, <2>2 DEF Screen!Under
<1>7. Screen!NoTextInSecrets' /\ Screen!HitsWhatWasSeen'
  <2>1. Screen!Under(mouse) # act.meant => stale \/ read.window # front
    BY <1>6 DEF Current
  <2>2. QED  BY <1>1, <2>1, StruckSound
<1>8. DeskTypes' /\ Restored'
  BY <1>1, <1>3, <1>5 DEF DesktopInv, DeskTypes, Restored
<1>9. MeantIsThere' /\ ProbeHolds' /\ Aimed'
  BY <1>1, <1>3 DEF DesktopInv, MeantIsThere, ProbeHolds, Aimed, Current
<1>10. ReadSound'  BY <1>1, ReadKept
<1>11. QED  BY <1>7, <1>8, <1>9, <1>10 DEF DesktopInv

\* A refused batch leaves the pointer to be put back.
LEMMA PressFailsKeepsDesktop == ASSUME DesktopInv, Screen!PressFails  PROVE DesktopInv'
<1>1. /\ act.pc \in Hands /\ act \in Acts /\ act.target \in Kinds
      /\ UNCHANGED <<screen, front, focus, mouse, read, stale, drifted, astray, struck>>
      /\ held' \in {held, TRUE} /\ refused' = TRUE
      /\ act' = [act EXCEPT !.pc = "warp", !.probe = "error"]
  BY DEF Screen!PressFails, DesktopInv, DeskTypes, Aimed, Hands
<1>2. /\ act' \in Acts /\ act'.pc = "warp" /\ act'.target = act.target
      /\ act'.saved = act.saved /\ act'.pc \in Hands
  BY <1>1 DEF Acts, Steps, Hands, Answers
<1>3. DeskTypes' /\ Restored'
  BY <1>1, <1>2 DEF DesktopInv, DeskTypes, Restored
<1>4. MeantIsThere' /\ ProbeHolds' /\ Aimed'
  BY <1>1, <1>2 DEF MeantIsThere, ProbeHolds, Aimed
<1>5. Screen!NoTextInSecrets' /\ Screen!HitsWhatWasSeen'
  BY <1>1 DEF DesktopInv, Screen!NoTextInSecrets, Screen!HitsWhatWasSeen
<1>6. ReadSound'  BY <1>1, ReadKept
<1>7. QED  BY <1>3, <1>4, <1>5, <1>6 DEF DesktopInv

\* The pointer is where it was, or the machine would not say or not move it.
LEMMA WarpBackKeepsDesktop ==
    ASSUME DesktopInv, NEW moves \in BOOLEAN, Screen!WarpBack(moves)
    PROVE  DesktopInv'
<1> DEFINE back == act.saved # Empty /\ moves
<1>1. /\ act.pc = "warp" /\ act.pc \in Hands /\ act \in Acts /\ act.target \in Kinds
      /\ UNCHANGED <<screen, front, focus, held, read, stale, drifted, refused, struck>>
      /\ mouse' = IF back THEN act.saved ELSE mouse
      /\ astray' = (astray \/ ~back)
  BY DEF Screen!WarpBack, DesktopInv, DeskTypes, Aimed, Hands
<1>2. /\ act.saved \in Spots \cup {Empty} /\ mouse \in Spots /\ astray \in BOOLEAN
      /\ act.saved \in {Screen!User, Empty} \/ astray
  BY <1>1 DEF DesktopInv, DeskTypes, Restored, Acts
<1>3. mouse' \in Spots /\ astray' \in BOOLEAN /\ (mouse' = Screen!User \/ astray')
  BY <1>1, <1>2
<1>4. /\ act' \in Acts
      /\ \/ act'.pc \in {"probe", "keys"} /\ act'.target \in Kinds
         \/ act'.pc = "none"
  <2>1. CASE act.probe = "error"
    <3>1. Screen!Answer("error")  BY <2>1 DEF Screen!WarpBack
    <3>2. QED  BY <3>1, EndedFields DEF Answers
  <2>2. CASE act.probe # "error" /\ act.name = "type_text"
    <3>1. act' = [act EXCEPT !.pc = "probe"]
      BY <2>2 DEF Screen!WarpBack, Screen!AfterClick
    <3>2. QED  BY <1>1, <3>1 DEF Acts, Steps
  <2>3. CASE act.probe # "error" /\ act.name = "press_keys"
    <3>1. act' = [act EXCEPT !.pc = "keys"]
      BY <2>3 DEF Screen!WarpBack, Screen!AfterClick
    <3>2. QED  BY <1>1, <3>1 DEF Acts, Steps
  <2>4. CASE act.probe # "error" /\ act.name \notin {"type_text", "press_keys"}
    <3>1. Screen!Answer("ok")  BY <2>4 DEF Screen!WarpBack, Screen!AfterClick
    <3>2. QED  BY <3>1, EndedFields DEF Answers
  <2>5. QED  BY <2>1, <2>2, <2>3, <2>4
<1>5. act'.pc \notin Hands  BY <1>4 DEF Hands
<1>6. DeskTypes' /\ Restored'
  BY <1>1, <1>3, <1>4, <1>5 DEF DesktopInv, DeskTypes, Restored
<1>7. MeantIsThere' /\ ProbeHolds' /\ Aimed'
  BY <1>1, <1>4, MeaningGoesOn
<1>8. Screen!NoTextInSecrets' /\ Screen!HitsWhatWasSeen'
  BY <1>1 DEF DesktopInv, Screen!NoTextInSecrets, Screen!HitsWhatWasSeen
<1>9. ReadSound'  BY <1>1, ReadKept
<1>10. QED  BY <1>6, <1>7, <1>8, <1>9 DEF DesktopInv

LEMMA InPlaceKeepsDesktop == ASSUME DesktopInv, Screen!ActInPlace  PROVE DesktopInv'
<1>1. /\ act.pc = "dwell" /\ act.pc \notin Hands /\ act \in Acts /\ act.target \in Kinds
      /\ UNCHANGED <<screen, front, focus, mouse, held, read, stale, drifted, refused, astray,
                     struck>>
  BY DEF Screen!ActInPlace, Screen!desk, Screen!past, DesktopInv, DeskTypes, Aimed, Hands
<1>2. /\ act' \in Acts
      /\ \/ act'.pc \in {"probe", "keys"} /\ act'.target \in Kinds
         \/ act'.pc = "none"
  <2>1. CASE act.name = "scroll"
    <3>1. Screen!Answer("ok")  BY <2>1 DEF Screen!ActInPlace
    <3>2. QED  BY <3>1, EndedFields DEF Answers
  <2>2. CASE act.name # "scroll"
    <3>1. PICK pc \in {"probe", "keys"} : act' = [act EXCEPT !.pc = pc]
      BY <2>2 DEF Screen!ActInPlace
    <3>2. QED  BY <1>1, <3>1 DEF Acts, Steps
  <2>3. QED  BY <2>1, <2>2
<1>3. MeantIsThere' /\ ProbeHolds' /\ Aimed'  BY <1>1, <1>2, MeaningGoesOn
<1>4. act'.pc \notin Hands  BY <1>2 DEF Hands
<1>5. QED  BY <1>1, <1>2, <1>3, <1>4, OnlyTheAct

LEMMA ProbeKeepsDesktop == ASSUME DesktopInv, Screen!FocusIsPassword  PROVE DesktopInv'
<1>1. /\ act.pc = "probe" /\ act.pc \notin Hands /\ act \in Acts /\ act.target \in Kinds
      /\ UNCHANGED <<screen, front, focus, mouse, held, read, stale, refused, astray, struck>>
  BY DEF Screen!FocusIsPassword, Screen!desk, DesktopInv, DeskTypes, Aimed, Hands
<1>2. PICK answer \in {"password", "unknown", "no"} :
         /\ act' = [act EXCEPT !.pc = "probed", !.probe = answer]
         /\ answer = "no" => focus \notin Secrets
  <2>1. CASE act' = [act EXCEPT !.pc = "probed", !.probe = "unknown"]  BY <2>1
  <2>2. CASE act' = [act EXCEPT !.pc = "probed",
                        !.probe = IF focus \in Secrets THEN "password"
                                  ELSE IF focus = Empty THEN "unknown" ELSE "no"]
    <3>1. CASE focus \in Secrets  BY <2>2, <3>1
    <3>2. CASE focus \notin Secrets /\ focus = Empty  BY <2>2, <3>2
    <3>3. CASE focus \notin Secrets /\ focus # Empty  BY <2>2, <3>3
    <3>4. QED  BY <3>1, <3>2, <3>3
  <2>3. QED  BY <2>1, <2>2 DEF Screen!FocusIsPassword
<1>3. /\ act' \in Acts /\ act'.pc = "probed" /\ act'.probe = answer /\ act'.target = act.target
      /\ act'.pc \notin Hands
  BY <1>1, <1>2 DEF Acts, Steps, Answers, Hands
<1>4. MeantIsThere' /\ ProbeHolds' /\ Aimed'
  BY <1>1, <1>2, <1>3 DEF MeantIsThere, ProbeHolds, Aimed
<1>5. DeskTypes' /\ Restored' /\ Screen!NoTextInSecrets' /\ Screen!HitsWhatWasSeen'
  BY <1>1, <1>3 DEF DesktopInv, DeskTypes, Restored, Screen!NoTextInSecrets,
                    Screen!HitsWhatWasSeen
<1>6. ReadSound'  BY <1>1, ReadKept
<1>7. QED  BY <1>4, <1>5, <1>6 DEF DesktopInv

LEMMA KeysKeepDesktop ==
    ASSUME DesktopInv, NEW lands \in BOOLEAN, Screen!TypeText(lands) \/ Screen!PressKeys(lands)
    PROVE  DesktopInv'
<1>1. act.pc \notin Hands /\ UNCHANGED <<screen, front, focus, mouse, read, stale, drifted, astray>>
  BY DEF Screen!TypeText, Screen!PressKeys, Screen!desk, Hands
<1>2. act' \in Acts /\ act'.pc = "none" /\ act'.pc \notin Hands
  <2>1. PICK result \in Answers : Screen!Answer(result)
    <3>1. CASE Screen!TypeText(lands)
      BY <3>1 DEF Screen!TypeText, Answers
    <3>2. CASE Screen!PressKeys(lands)
      BY <3>2 DEF Screen!PressKeys, Answers
    <3>3. QED  BY <3>1, <3>2
  <2>2. QED  BY <2>1, EndedFields
<1>3. MeantIsThere' /\ ProbeHolds' /\ Aimed'  BY <1>2, EndKeepsMeaning
<1>4. /\ held' \in BOOLEAN /\ refused' \in BOOLEAN /\ (held' => refused')
      /\ mouse' = Screen!User \/ astray'
  <2>1. /\ held \in BOOLEAN /\ refused \in BOOLEAN /\ (held => refused)
        /\ mouse = Screen!User \/ astray
    BY <1>1 DEF DesktopInv, DeskTypes, Restored
  <2>2. CASE Screen!TypeText(lands)
    <3>1. held' = held /\ (refused' = refused \/ refused' = (refused \/ ~lands))
      BY <2>2 DEF Screen!TypeText, Screen!desk
    <3>2. QED  BY <1>1, <2>1, <3>1
  <2>3. CASE Screen!PressKeys(lands)
    <3>1. CASE lands  BY <1>1, <2>1, <2>3, <3>1 DEF Screen!PressKeys
    <3>2. CASE ~lands
      <4>1. refused' = TRUE /\ (held' = held \/ held' = TRUE)
        BY <2>3, <3>2 DEF Screen!PressKeys
      <4>2. QED  BY <1>1, <2>1, <4>1
    <3>3. QED  BY <3>1, <3>2
  <2>4. QED  BY <2>2, <2>3
<1>5. Screen!NoTextInSecrets' /\ Screen!HitsWhatWasSeen'
  <2>1. CASE struck' = struck
    BY <2>1 DEF DesktopInv, Screen!NoTextInSecrets, Screen!HitsWhatWasSeen
  <2>2. CASE Screen!TypeText(lands) /\ struck' # struck
    <3>1. act.pc = "probed" /\ act.probe = "no" /\ Screen!Struck("text", focus, drifted)
      BY <2>2 DEF Screen!TypeText
    <3>2. focus \in Secrets => drifted  BY <3>1 DEF DesktopInv, ProbeHolds
    <3>3. QED  BY <3>1, <3>2, StruckSound
  <2>3. CASE Screen!PressKeys(lands)
    <3>1. Screen!Struck("keys", focus, stale)  BY <2>3 DEF Screen!PressKeys
    <3>2. QED  BY <3>1, StruckSound
  <2>4. QED  BY <2>1, <2>2, <2>3
<1>6. ReadSound'  BY <1>1, ReadKept
<1>7. DeskTypes' /\ Restored'  BY <1>1, <1>2, <1>4 DEF DesktopInv, DeskTypes, Restored
<1>8. QED  BY <1>3, <1>5, <1>6, <1>7 DEF DesktopInv

LEMMA OpenKeepsDesktop ==
    ASSUME DesktopInv, NEW w \in Windows, NEW ok \in BOOLEAN, NEW look \in BOOLEAN,
           Screen!Open(w, ok, look)
    PROVE  DesktopInv'
<1>1. act.pc \notin Hands /\ UNCHANGED <<screen, mouse, held, drifted, refused, astray, struck>>
  BY DEF Screen!Open, Hands
<1>2. act' \in Acts /\ act'.pc = "none" /\ act'.pc \notin Hands
  <2>1. PICK result \in Answers : Screen!Answer(result)  BY DEF Screen!Open, Answers
  <2>2. QED  BY <2>1, EndedFields
<1>3. MeantIsThere' /\ ProbeHolds' /\ Aimed'  BY <1>2, EndKeepsMeaning
<1>4. front' \in Windows /\ focus' \in Seen
  BY DEF Screen!Open, DesktopInv, DeskTypes, Seen
<1>5. DeskTypes' /\ Restored' /\ Screen!NoTextInSecrets' /\ Screen!HitsWhatWasSeen'
  BY <1>1, <1>2, <1>4 DEF DesktopInv, DeskTypes, Restored, Screen!NoTextInSecrets,
                          Screen!HitsWhatWasSeen
<1>6. ReadSound'
  <2>1. CASE ok /\ look
    <3>1. read' = Screen!Walk(w)  BY <2>1 DEF Screen!Open
    <3>2. LET r == Screen!Walk(w) IN
           /\ r = [window |-> r.window, ids |-> r.ids, slots |-> r.slots] /\ r.window = w
           /\ \A n \in DOMAIN r.ids : /\ r.ids[n] \in Seen /\ r.slots[n] \in Slots
                                      /\ n \in DOMAIN Screen!Shown(w)
                                      /\ r.slots[n] = Screen!Shown(w)[n]
                                      /\ r.ids[n] = screen[w][r.slots[n]]
      BY WalkReads DEF DesktopInv, DeskTypes
    <3>3. Screen!Shown(w)' = Screen!Shown(w)  BY <1>1 DEF Screen!Shown
    <3>4. QED  BY <1>1, <3>1, <3>2, <3>3 DEF ReadSound
  <2>2. CASE ~(ok /\ look)
    <3>1. read' = read /\ (~stale' => ~stale)  BY <2>2 DEF Screen!Open
    <3>2. QED  BY <1>1, <3>1, ReadKept
  <2>3. QED  BY <2>1, <2>2
<1>7. QED  BY <1>3, <1>5, <1>6 DEF DesktopInv

LEMMA UserKeepsDesktop ==
    ASSUME DesktopInv,
           \/ \E w \in Windows, s \in Slots, c \in Seen : Screen!ScreenChanges(w, s, c)
           \/ \E w \in Windows, c \in Controls : Screen!FocusMoves(w, c)
           \/ \E spot \in Spots : Screen!PointerMoves(spot)
    PROVE  DesktopInv'
<1> DEFINE Effect == /\ UNCHANGED <<held, read, act, refused, astray, struck>>
                     /\ mouse' \in Spots /\ (mouse' = mouse \/ act.pc \in Hands)
                     /\ screen' \in [Windows -> [Slots -> Seen]] /\ front' \in Windows
                     /\ focus' \in Seen /\ (~drifted' => ~drifted /\ focus' = focus)
                     /\ stale' \/ (~stale /\ screen' = screen)
                     /\ Current' => Current /\ screen' = screen /\ front' = front /\ mouse' = mouse
<1>1. ASSUME NEW w \in Windows, NEW s \in Slots, NEW c \in Seen, Screen!ScreenChanges(w, s, c)
      PROVE  Effect
  BY <1>1 DEF Screen!ScreenChanges, Current, DesktopInv, DeskTypes, Seen
<1>2. ASSUME NEW w \in Windows, NEW c \in Controls, Screen!FocusMoves(w, c)
      PROVE  Effect
  BY <1>2 DEF Screen!FocusMoves, Current, DesktopInv, DeskTypes, Seen
<1>3. ASSUME NEW spot \in Spots, Screen!PointerMoves(spot)
      PROVE  Effect
  BY <1>3 DEF Screen!PointerMoves, Current, DesktopInv, DeskTypes, Hands
<1>4. Effect  BY <1>1, <1>2, <1>3
<1> HIDE DEF Effect
<1>5. ReadSound'
  <2>1. CASE stale'  BY <1>4, <2>1 DEF Effect, DesktopInv, ReadSound
  <2>2. CASE ~stale'  BY <1>4, <2>2, ReadKept DEF Effect
  <2>3. QED  BY <2>1, <2>2
<1>6. MeantIsThere' /\ Aimed'  BY <1>4 DEF Effect, DesktopInv, MeantIsThere, Aimed
<1>7. ProbeHolds'  BY <1>4 DEF Effect, DesktopInv, ProbeHolds
<1>8. DeskTypes' /\ Restored' /\ Screen!NoTextInSecrets' /\ Screen!HitsWhatWasSeen'
  BY <1>4 DEF Effect, DesktopInv, DeskTypes, Restored, Screen!NoTextInSecrets,
              Screen!HitsWhatWasSeen
<1>9. QED  BY <1>5, <1>6, <1>7, <1>8 DEF DesktopInv

LEMMA DesktopInitInv == Screen!DesktopInit => DesktopInv
<1> SUFFICES ASSUME Screen!DesktopInit  PROVE DesktopInv
  OBVIOUS
<1>1. /\ screen \in [Windows -> [Slots -> Seen]] /\ front \in Windows
      /\ focus = Empty /\ mouse = Screen!User /\ held = FALSE /\ read = Screen!Walk(front)
      /\ act = Screen!Idle /\ refused = FALSE /\ astray = FALSE
      /\ struck.how = "none"
  BY DEF Screen!DesktopInit, Screen!Nothing, Seen
<1>2. act \in Acts /\ act.pc = "none" /\ act.pc \notin Hands
  BY <1>1 DEF Screen!Idle, Acts, Steps, Answers, Seen, Spots, Kinds, Hands
<1>3. DeskTypes /\ Restored /\ MeantIsThere /\ ProbeHolds /\ Aimed
  BY <1>1, <1>2 DEF DeskTypes, Restored, MeantIsThere, ProbeHolds, Aimed, Seen, Spots
<1>4. ReadSound
  <2>1. LET r == Screen!Walk(front) IN
           /\ r = [window |-> r.window, ids |-> r.ids, slots |-> r.slots] /\ r.window = front
           /\ \A n \in DOMAIN r.ids : /\ r.ids[n] \in Seen /\ r.slots[n] \in Slots
                                      /\ n \in DOMAIN Screen!Shown(front)
                                      /\ r.slots[n] = Screen!Shown(front)[n]
                                      /\ r.ids[n] = screen[front][r.slots[n]]
    BY <1>1, WalkReads
  <2>2. QED  BY <1>1, <2>1 DEF ReadSound
<1>5. QED  BY <1>1, <1>3, <1>4 DEF DesktopInv, Screen!NoTextInSecrets, Screen!HitsWhatWasSeen

LEMMA DesktopStepKeeps == DesktopInv /\ Screen!DesktopNext => DesktopInv'
BY LookKeepsDesktop, StageKeepsDesktop, ExecuteKeepsDesktop, ResolveKeepsDesktop,
   HoverKeepsDesktop, PressKeepsDesktop, PressFailsKeepsDesktop, WarpBackKeepsDesktop,
   InPlaceKeepsDesktop, ProbeKeepsDesktop, KeysKeepDesktop,
   OpenKeepsDesktop, UserKeepsDesktop DEF Screen!DesktopNext, Screen!DesktopStep, Seen, Spots

LEMMA DesktopsAreSafe == DesktopInv => Screen!DesktopSafe
BY DEF DesktopInv, DeskTypes, Restored, Screen!DesktopSafe, Screen!DesktopTypeOK,
       Screen!LeavesNoTrace, Acts, Seen, Spots, Steps, Hands
-----------------------------------------------------------------------------
(* The composition.                                                        *)

IdentityInv == AccountInv /\ GrantInv /\ PairInv

LEMMA AccountVarsStay == AccountInv /\ UNCHANGED accountVars => AccountInv'
BY DEF accountVars, AccountInv, AccountTypes, VersionsCount, DefaultsHeld, DefaultsAreOne,
       LinksAreOne, LoginsSound

LEMMA GrantVarsStay == GrantInv /\ UNCHANGED grantVars => GrantInv'
BY DEF grantVars, GrantInv, GrantTypes, Agreed, TokensDescend, Grant!RevocationHolds, CutoffsPast,
       RequestsDescend

LEMMA PairVarsStay == PairInv /\ UNCHANGED pairVars => PairInv'
BY DEF pairVars, PairInv, PairTypes, ApprovedAt, KeysClaimed, PollsClaimed, ClaimedOnce,
       Pair!ApprovalAccountedFor

LEMMA ProviderVarsStay == ProviderInv /\ UNCHANGED providerVars => ProviderInv'
BY DEF providerVars, ProviderInv, ProviderTypes, CallersSound, Order!OrderIsOneRequests,
       Order!NamesUnique, Order!SettingsKept, Order!Rows

\* No account has two default projects and whoever is signed in has one, a replaced
\* password signs everyone out, an account has one GitHub id; a token acts for the user who
\* consented to its client, and none outlives the client's revocation; a pairing mints one
\* key at most, for the user who approved it (core/accounts.py, core/identity.py,
\* oauth_store.py): of any number of overlapping requests, and wherever one dies.
THEOREM IdentityIsSafe == ServicesSpec => []IdentitySafe
<1>1. ServicesInit => IdentityInv
  BY AccountInitInv, GrantInitInv, PairInitInv DEF ServicesInit, IdentityInv
<1>2. IdentityInv /\ [ServicesNext]_services => IdentityInv'
  <2> SUFFICES ASSUME IdentityInv, [ServicesNext]_services  PROVE IdentityInv'
    OBVIOUS
  <2>1. Account!AccountNext \/ UNCHANGED accountVars  BY DEF ServicesNext, services
  <2>2. Grant!GrantNext \/ UNCHANGED grantVars  BY DEF ServicesNext, services
  <2>3. Pair!PairingNext \/ UNCHANGED pairVars  BY DEF ServicesNext, services
  <2>4. AccountInv'  BY <2>1, AccountStep, AccountVarsStay DEF IdentityInv
  <2>5. GrantInv'  BY <2>2, GrantStep, GrantVarsStay DEF IdentityInv
  <2>6. PairInv'  BY <2>3, PairStep, PairVarsStay DEF IdentityInv
  <2>7. QED  BY <2>4, <2>5, <2>6 DEF IdentityInv
<1>3. IdentityInv => IdentitySafe
  BY AccountsAreSafe, GrantsAreSafe, PairingsAreSafe DEF IdentityInv, IdentitySafe
<1>4. QED  BY <1>1, <1>2, <1>3, PTL DEF ServicesSpec

\* The places of one user's providers come from one request's order, a name is connected
\* once, and the last save of each settings column is what is stored (endpoints/byok.py,
\* core/credential_store.py, core/user_settings_store.py).
THEOREM ProvidersStaySafe == ServicesSpec => []ProvidersSafe
<1>1. ServicesInit => ProviderInv  BY ProviderInitInv DEF ServicesInit
<1>2. ProviderInv /\ [ServicesNext]_services => ProviderInv'
  <2> SUFFICES ASSUME ProviderInv, [ServicesNext]_services  PROVE ProviderInv'
    OBVIOUS
  <2>1. Order!ProviderNext \/ UNCHANGED providerVars  BY DEF ServicesNext, services
  <2>2. QED  BY <2>1, ProviderStep, ProviderVarsStay
<1>3. ProviderInv => ProvidersSafe  BY ProvidersAreSafe DEF ProvidersSafe
<1>4. QED  BY <1>1, <1>2, <1>3, PTL DEF ServicesSpec

LEMMA DesktopVarsStay == DesktopInv /\ UNCHANGED desktopVars => DesktopInv'
<1> SUFFICES ASSUME DesktopInv, UNCHANGED desktopVars  PROVE DesktopInv'
  OBVIOUS
<1>1. UNCHANGED <<screen, front, focus, mouse, held, read, act, stale, drifted, refused,
                  astray, struck>>
  BY DEF desktopVars
<1>2. ReadSound'  BY <1>1, ReadKept
<1>3. QED
  BY <1>1, <1>2 DEF DesktopInv, DeskTypes, Aimed, MeantIsThere, Current, ProbeHolds, Restored,
                    Screen!NoTextInSecrets, Screen!HitsWhatWasSeen

\* The desktop tools never type into a password field unless the focus moved after the
\* probe, strike what the model was last shown unless the screen or the pointer moved after
\* the look, and leave the pointer and the modifier keys as they were unless the system
\* would not say or restore the one, or refused an input (core/tool_executor.py).
THEOREM DesktopsStaySafe == ServicesSpec => []DesktopSafe
<1>1. ServicesInit => DesktopInv  BY DesktopInitInv DEF ServicesInit
<1>2. DesktopInv /\ [ServicesNext]_services => DesktopInv'
  <2> SUFFICES ASSUME DesktopInv, [ServicesNext]_services  PROVE DesktopInv'
    OBVIOUS
  <2>1. Screen!DesktopNext \/ UNCHANGED desktopVars  BY DEF ServicesNext, services
  <2>2. QED  BY <2>1, DesktopStepKeeps, DesktopVarsStay
<1>3. DesktopInv => DesktopSafe  BY DesktopsAreSafe DEF DesktopSafe
<1>4. QED  BY <1>1, <1>2, <1>3, PTL DEF ServicesSpec
=============================================================================
