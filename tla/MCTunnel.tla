------------------------------ MODULE MCTunnel ------------------------------
EXTENDS Tunnel, TLC

CONSTANTS t1, t2, s1, s2

\* Three scenes: two requests on one tunnel; one request with a body while
\* two machines are attached; two confirmations against a cap of one tunnel.
\* A confirmation or a request outside the scene is over when it starts.
Scene(confirmed, machines, requests, size, body) ==
    /\ \A t \in Tokens : opener[t] = IF t \in confirmed THEN "idle" ELSE "refused"
    /\ attached = machines
    /\ \A s \in Streams : req[s].pc = IF s \in requests THEN "idle" ELSE "answered"
    /\ req[s1].size = size /\ req[s1].body = body
    /\ req[s2].size = 0 /\ req[s2].body = 0

SceneInit ==
    /\ Init
    /\ \/ Scene({t1}, {1}, {s1, s2}, 1, 0)
       \/ Scene({t1}, {1, 2}, {s1}, 2, 1)
       \/ Scene({t1, t2}, {1}, {s1}, 1, 0)

SceneSpec == SceneInit /\ [][Next]_vars /\ Fairness
=============================================================================
