----------------------------- MODULE MCSession -----------------------------
EXTENDS SessionSystem, TLC

\* The members, the connections, the requests and the handoff tasks are
\* interchangeable.
Symmetric ==
    Permutations(Conns) \cup Permutations(Members) \cup Permutations(Requests)
        \cup Permutations(HandoffTasks)

\* For properties that do not speak of what was delivered: no step depends on
\* rcvd, nor on which frames wait in a buffer, nor on whose frames were counted.
WithoutContents ==
    <<row, state, sockets, [m \in Members |-> Len(buffers[m])], orphan,
      lockVars, conn, req, TotalSent, assent, environment>>

\* For runs without frames, about the match: no step depends on how often the
\* session was started and, but for the handoff's, why it was closed, nor on the
\* proposer of a row that is not match_proposed.
MatchOnly ==
    LET match == [row EXCEPT
                    !.started = 0,
                    !.close_reason = (@ = "handoff_complete"),
                    !.proposer = IF row.status = "match_proposed" THEN @ ELSE None]
    IN  <<match, state, sockets, orphan, lockVars, conn, req, assent, environment>>
=============================================================================
