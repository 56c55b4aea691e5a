-------------------------- MODULE MCAgentRegistry --------------------------
EXTENDS AgentRegistry, TLC

\* Accounts, poll calls and connections are interchangeable in the safety runs.
Interchangeable ==
    Permutations(Users) \cup Permutations(Polls) \cup Permutations(Sockets)
=============================================================================
