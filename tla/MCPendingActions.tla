------------------------- MODULE MCPendingActions -------------------------
EXTENDS PendingActions, TLC

CONSTANTS t1, t2

VARIABLE scene

\* Users are only told apart: whoever stages the first action may be this one.
Somebody == CHOOSE u \in Users : TRUE

\* Two scenes: two actions with a clean stop; one action with a stop, a crash
\* and a write the database refuses.
SceneInit == Init /\ scene \in {"two actions", "one action"}

SceneNext ==
    /\ Next
    /\ scene = "two actions" => crashes' = 0 /\ fails' = 0
    /\ scene = "one action" => owner'[t2] = NoOne
    /\ owner'[t1] \in {NoOne, Somebody}
    /\ UNCHANGED scene

SceneSpec ==
    /\ SceneInit /\ [][SceneNext]_<<vars, scene>>
    /\ \A t \in Tokens : WF_vars(StreamTimesOut(t))
=============================================================================
