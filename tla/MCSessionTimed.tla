--------------------------- MODULE MCSessionTimed ---------------------------
(* A session of HeartBtInt 1 s, either role. *)
EXTENDS SessionTimed

Initiator == [initiator |-> TRUE, reset_on_logon |-> FALSE, validate |-> FALSE,
              hb |-> 1, logon_timeout |-> 2, logout_timeout |-> 2]
BothRoles == {Initiator, [Initiator EXCEPT !.initiator = FALSE]}
=============================================================================
