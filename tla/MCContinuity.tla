---------------------------- MODULE MCContinuity ----------------------------
EXTENDS Continuity, TLC

\* Clients are interchangeable in the safety runs.
Interchangeable == Permutations(Clients)

\* group_into_turns as its loop has it.
GroupByLoop(msgs) ==
    FoldLeft(LAMBDA groups, m:
                 IF groups = <<>> \/ m.role = "user"
                 THEN Append(groups, <<m>>)
                 ELSE [groups EXCEPT ![Len(groups)] = Append(@, m)],
             <<>>, msgs)
ASSUME GroupingIsTheLoop ==
    \A roles \in BoundedSeq({"user", "text"}, 6) :
        LET msgs == [i \in DOMAIN roles |-> [role |-> roles[i], n |-> i]]
        IN  GroupIntoTurns(msgs) = GroupByLoop(msgs)
=============================================================================
