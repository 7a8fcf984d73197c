--------------------------- MODULE MCTcpTransport ---------------------------
(* Two senders, two connections, and a send buffer of one frame and a half. *)
EXTENDS TcpTransport

CONSTANTS s1, s2

Two == {s1, s2}
=============================================================================
