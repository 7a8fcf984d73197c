----------------------------- MODULE MCSendPath -----------------------------
(* Two application threads and one ResendRequest at a time. *)
EXTENDS SendPath

Threads == {"t1", "t2"}
=============================================================================
