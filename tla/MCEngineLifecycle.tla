------------------------- MODULE MCEngineLifecycle -------------------------
(* Two connections, with one SessionID or with two. *)
EXTENDS EngineLifecycle

CONSTANTS c1, c2

TwoConns == {c1, c2}

OneId == [c \in TwoConns |-> "a"]
TwoIds == [c \in TwoConns |-> IF c = c1 THEN "a" ELSE "b"]

\* An id is added again; ids differ, and callbacks may remove any session, or call
\* stop().
AllSetups ==
    {[id |-> OneId, stoppers |-> {"app"}, foreign |-> FALSE],
     [id |-> TwoIds, stoppers |-> {"app"}, foreign |-> TRUE],
     [id |-> TwoIds, stoppers |-> {"app", "timer", c1}, foreign |-> FALSE]}
=============================================================================
