---------------------------- MODULE MCSessionPair ----------------------------
(* Two ends and a handful of messages. *)
EXTENDS SessionPair

EndConfigs ==
    [x \in Ends |-> [initiator |-> x = "initiator", reset_on_logon |-> FALSE,
                     validate |-> FALSE, hb |-> IF x = "initiator" THEN 2 ELSE 1,
                     logon_timeout |-> 2, logout_timeout |-> 2]]

\* Two messages over a connection that breaks and is made again, with heartbeats
\* and gap retries; one message over such a connection with the other deadlines;
\* one message over a connection that garbles two frames.
ThreeLimits ==
    {[due |-> {{"rr"}, {"send"}}, sends |-> 2, garbled |-> 0, connects |-> 2, number |-> 3],
     [due |-> {{"recv"}, {"probe"}, {"logon", "logout"}}, sends |-> 1, garbled |-> 0,
      connects |-> 2, number |-> 3],
     [due |-> {{"send"}, {"rr"}}, sends |-> 1, garbled |-> 2, connects |-> 1, number |-> 4]}
=============================================================================
