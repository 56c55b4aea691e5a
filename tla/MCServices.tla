----------------------------- MODULE MCServices -----------------------------
EXTENDS Services, TLC

CONSTANTS k1, k2, w1

\* Windows are only told apart, so any may be the one in front; the desktop of the
\* other scenes is one desktop.
MCInit ==
    /\ ServicesInit
    /\ front = w1
    /\ scene # "screen" => screen[w1] = (1 :> k1 @@ 2 :> k2)

\* A sign-in by GitHub is under way or has been.
WithGitHub ==
    DOMAIN identities # {} \/ \E r \in Requests : logins[r].pc \in {"email", "register", "link"}

\* Failed passwords are counted where nobody signs in by GitHub; three posts of the two
\* kinds; two rows while their order changes; one row while settings are saved.
MCNext ==
    /\ ServicesNext
    /\ scene = "accounts" => attempts' = 0 \/ ~WithGitHub'
    /\ scene = "plane" => posted'.handoff + posted'.voice <= 3
    /\ scene = "order" => saves' = 0
    /\ scene = "save" => Len(creds') <= 1

\* Requests are interchangeable.
Interchangeable == Permutations(Requests)

MCSpec == MCInit /\ [][MCNext]_services
=============================================================================
