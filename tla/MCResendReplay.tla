--------------------------- MODULE MCResendReplay ---------------------------
(* Every history of up to five numbers and every window of it. *)
EXTENDS ResendReplay
=============================================================================
