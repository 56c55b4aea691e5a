------------------------------- MODULE Grants -------------------------------
(***************************************************************************)
(* The OAuth provider: consent, authorization codes, access and refresh    *)
(* tokens and their revocation (core/oauth_store.py, endpoints/oauth.py).  *)
(*                                                                         *)
(* Every statement below commits on its own; other requests run in         *)
(* between, and the process may die there.                                 *)
(***************************************************************************)
EXTENDS Naturals, Sequences, FiniteSets

CONSTANTS
    Users, NoUser,
    Clients,    \* registered OAuth clients
    Requests,   \* requests that overlap
    MaxCodes,   \* bound: authorization codes
    MaxTokens   \* bound: tokens

VARIABLES
    owner,     \* oauth_clients.owner_user_id
    codes,     \* oauth_codes, by number
    tokens,    \* oauth_tokens, by number
      \* device_codes, by number
    requests,  \* the requests under way
    consents,  \* history: the users who approved a client
    cutoff     \* history: the tokens minted when a client was last revoked

grantVars == <<owner, codes, tokens, requests, consents, cutoff>>

Idle == [pc |-> "idle"]
Become(r, request) == requests' = [requests EXCEPT ![r] = request]
Goto(r, pc) == Become(r, [requests[r] EXCEPT !.pc = pc])
-----------------------------------------------------------------------------
(* Consent.                                                                *)

\* attach_owner: the last user to approve a client owns it.
Approve(r, u, c) ==
    /\ requests[r] = Idle /\ Len(codes) < MaxCodes
    /\ owner' = [owner EXCEPT ![c] = u]
    /\ consents' = consents \cup {<<u, c>>}
    /\ Become(r, [pc |-> "code", user |-> u, client |-> c])
    /\ UNCHANGED <<codes, tokens, cutoff>>

\* create_code, which is bound to the user who approved.
CreateCode(r) ==
    /\ requests[r].pc = "code" /\ Len(codes) < MaxCodes
    /\ codes' = Append(codes, [client |-> requests[r].client, user |-> requests[r].user,
                               used |-> FALSE, live |-> TRUE])
    /\ Become(r, Idle)
    /\ UNCHANGED <<owner, tokens, consents, cutoff>>
-----------------------------------------------------------------------------
(* The token endpoint.                                                     *)

\* consume_code_subject: _expire_lazy, the SELECT and its checks.
CheckCode(r, i) ==
    /\ requests[r] = Idle
    /\ codes[i].live /\ ~codes[i].used
    /\ Become(r, [pc |-> "use", code |-> i, client |-> codes[i].client,
                  user |-> codes[i].user])
    /\ UNCHANGED <<owner, codes, tokens, consents, cutoff>>

\* The UPDATE that marks the code used, whatever it was before.
UseCode(r) ==
    /\ requests[r].pc = "use"
    /\ codes' = [codes EXCEPT ![requests[r].code].used = TRUE]
    /\ Goto(r, "access")
    /\ UNCHANGED <<owner, tokens, consents, cutoff>>

\* issue_token_pair: two inserts.
InsertToken(r, kind, next) ==
    /\ requests[r].pc = kind /\ Len(tokens) < MaxTokens
    /\ tokens' = Append(tokens, [kind |-> kind, client |-> requests[r].client,
                                 user |-> requests[r].user, revoked |-> FALSE, live |-> TRUE,
                                 code |-> requests[r].code])
    /\ next
    /\ UNCHANGED <<owner, codes, consents, cutoff>>

InsertAccess(r) == InsertToken(r, "access", Goto(r, "refresh"))
InsertRefresh(r) == InsertToken(r, "refresh", Become(r, Idle))

Usable(i, kind) == tokens[i].live /\ ~tokens[i].revoked /\ tokens[i].kind = kind

\* rotate_refresh: the SELECT and its checks.
CheckRefresh(r, i) ==
    /\ requests[r] = Idle /\ Usable(i, "refresh")
    /\ Become(r, [pc |-> "rotate", token |-> i, client |-> tokens[i].client,
                  user |-> tokens[i].user, code |-> tokens[i].code])
    /\ UNCHANGED <<owner, codes, tokens, consents, cutoff>>

\* Variant: the new pair is minted for the client's owner.
RevokeRotatedForOwner(r) ==
    /\ requests[r].pc = "rotate"
    /\ tokens' = [tokens EXCEPT ![requests[r].token].revoked = TRUE]
    /\ Become(r, [requests[r] EXCEPT !.pc = "access", !.user = owner[requests[r].client]])
    /\ UNCHANGED <<owner, codes, consents, cutoff>>

\* The old token is revoked before the new pair is minted.
RevokeRotated(r) ==
    /\ requests[r].pc = "rotate"
    /\ tokens' = [tokens EXCEPT ![requests[r].token].revoked = TRUE]
    /\ Goto(r, "access")
    /\ UNCHANGED <<owner, codes, consents, cutoff>>
-----------------------------------------------------------------------------
(* Revocation and expiry.                                                  *)

\* revoke: unknown and revoked tokens are answered alike.
Revoke(i) ==
    /\ tokens[i].live /\ ~tokens[i].revoked
    /\ tokens' = [tokens EXCEPT ![i].revoked = TRUE]
    /\ UNCHANGED <<owner, codes, requests, consents, cutoff>>

\* revoke_client_tokens: one UPDATE over what is stored now.
RevokeClientTokens(c) ==
    /\ \E i \in DOMAIN tokens : tokens[i].client = c /\ ~tokens[i].revoked
    /\ tokens' = [i \in DOMAIN tokens |->
                    IF tokens[i].client = c THEN [tokens[i] EXCEPT !.revoked = TRUE]
                    ELSE tokens[i]]
    /\ cutoff' = [cutoff EXCEPT ![c] = Len(tokens)]
    /\ UNCHANGED <<owner, codes, requests, consents>>

\* A code or token is past its time and deleted by the next request.
ExpireCode(i) ==
    /\ codes[i].live /\ codes' = [codes EXCEPT ![i].live = FALSE]
    /\ UNCHANGED <<owner, tokens, requests, consents, cutoff>>

ExpireToken(i) ==
    /\ tokens[i].live /\ tokens' = [tokens EXCEPT ![i].live = FALSE]
    /\ UNCHANGED <<owner, codes, requests, consents, cutoff>>
\* The process dies; what was committed stays.
Abandon(r) ==
    /\ requests[r] # Idle /\ Become(r, Idle)
    /\ UNCHANGED <<owner, codes, tokens, consents, cutoff>>
-----------------------------------------------------------------------------
GrantInit ==
    /\ owner = [c \in Clients |-> NoUser]
    /\ codes = <<>> /\ tokens = <<>>
    /\ requests = [r \in Requests |-> Idle]
    /\ consents = {} /\ cutoff = [c \in Clients |-> 0]

TokenRequest(r) ==
    \/ \E u \in Users, c \in Clients : Approve(r, u, c)
    \/ CreateCode(r)
    \/ \E i \in DOMAIN codes : CheckCode(r, i)
    \/ \E i \in DOMAIN tokens : CheckRefresh(r, i)
    \/ UseCode(r) \/ RevokeRotated(r) \/ InsertAccess(r) \/ InsertRefresh(r)

GrantNext ==
    \/ \E r \in Requests : TokenRequest(r) \/ Abandon(r)
    \/ \E i \in DOMAIN tokens : Revoke(i) \/ ExpireToken(i)
    \/ \E i \in DOMAIN codes : ExpireCode(i)
    \/ \E c \in Clients : RevokeClientTokens(c)
-----------------------------------------------------------------------------
\* Every token acts for the user of the code it descends from, a user who
\* approved that very client; whoever owns a client has approved it.
ActsForItsConsent ==
    /\ \A i \in DOMAIN tokens :
          LET t == tokens[i]
          IN /\ t.user = codes[t.code].user /\ t.client = codes[t.code].client
             /\ <<t.user, t.client>> \in consents
    /\ \A c \in Clients : owner[c] # NoUser => <<owner[c], c>> \in consents

\* A code is marked used before any token exists for it.
UsedBeforeTokens == \A i \in DOMAIN tokens : codes[tokens[i].code].used

\* After a client is revoked, what was stored is unusable for good; a token that
\* is usable was minted later.
RevocationHolds ==
    \A i \in DOMAIN tokens :
        tokens[i].live /\ ~tokens[i].revoked => i > cutoff[tokens[i].client]

GrantSafe ==
    ActsForItsConsent /\ UsedBeforeTokens /\ RevocationHolds

\* "The code is marked used exactly once; reuse ... raise[s] invalid_grant": one
\* exchange gets past the check, so no two requests hold one code.
CodeUsedOnce ==
    \A r, q \in Requests :
        r # q /\ requests[r].pc = "access" /\ requests[q].pc = "access"
              /\ "token" \notin DOMAIN requests[r] \cup DOMAIN requests[q]
        => requests[r].code # requests[q].code
=============================================================================
