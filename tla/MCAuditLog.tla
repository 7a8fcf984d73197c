----------------------------- MODULE MCAuditLog -----------------------------
(* Two callers, a queue that fills up and files that fill up. *)
EXTENDS AuditLog

CONSTANTS t1, t2

Two == {t1, t2}
AllFaults == {"write", "flush", "open"}
=============================================================================
