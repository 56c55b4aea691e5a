-------------------------- MODULE MCFailoverRouter --------------------------
EXTENDS FailoverRouter, TLC

CONSTANTS u1, u2, c1, c2, c3, r1, r2

VARIABLE scene

\* One user with two credentials beside one with a single one.
TwoHolders == c1 :> u1 @@ c2 :> u1 @@ c3 :> u2

\* Two models of one credential, a model each of two.
TwoChains  == {<<c1, c1>>, <<c2, c1>>}

\* Two scenes: two requests of one user's account, which nobody changes
\* meanwhile; one request of either user while the dashboard connects and
\* deletes credentials and saves routing.  In the first the two credentials
\* differ in nothing, so the one that the first request tries first is c1.
SceneInit ==
    /\ Init
    /\ \/ /\ scene = "two requests"
          /\ user = [r \in Requests |-> u1] /\ row[c3] = "absent"
          /\ row[c1] = "absent" => row[c2] = "absent"
       \/ /\ scene = "dashboard"
          /\ user[r2] = u1

SceneNext ==
    /\ Next
    /\ scene = "two requests" => changes' = 0 /\ plan'[r1] \in {<<>>, <<c1>>, <<c1, c2>>}
    /\ scene = "dashboard" => pc'[r2] = "idle"
    /\ UNCHANGED scene

SceneSpec == SceneInit /\ [][SceneNext]_<<vars, scene>>
=============================================================================
