------------------------------ MODULE MCSession ------------------------------
(* One session, small: numbers up to 5, every kind of message, store faults. *)
EXTENDS Session

BothRoles ==
    [initiator : BOOLEAN, reset_on_logon : BOOLEAN, validate : {TRUE},
     hb : {0}, logon_timeout : {2}, logout_timeout : {2}]

Plain(t, n, d) == [Msg(t) EXCEPT !.seq = n, !.dup = d]

PeerMessages ==
    {Plain(t, 2, FALSE) : t \in {"Logout", "NoType"}}
    \cup {Plain("TestRequest", 1, FALSE), Plain("Reject", 1, FALSE), Msg("BadIdentity")}
    \cup {[Plain("Heartbeat", 2, FALSE) EXCEPT !.hdrDup = TRUE]}
    \cup {[Plain("App", n, d) EXCEPT !.body = b] : n \in {2, 3}, d \in BOOLEAN, b \in Bodies}
    \cup {[Plain("App", n, FALSE) EXCEPT !.body = b] : n \in {0, MaxSeq}, b \in Bodies}
    \cup {[Plain("App", 2, FALSE) EXCEPT !.body = b, !.valid = FALSE] : b \in Bodies}
    \cup {[Plain("Logon", 1, FALSE) EXCEPT !.hb = 1, !.reset = r] : r \in BOOLEAN}
    \cup {Plain("Logon", 1, FALSE), [Plain("Logon", 3, FALSE) EXCEPT !.hb = 2]}
    \cup {[Plain("ResendRequest", n, FALSE) EXCEPT !.begin = 1] : n \in {1, 2}}
    \cup {[Plain("ResendRequest", 2, FALSE) EXCEPT !.begin = b, !.end = 2] : b \in {0, 2}}
    \cup {[Plain("SequenceReset", n, TRUE) EXCEPT !.fill = g, !.new = 3 - n] :
             n \in {1, 2}, g \in BOOLEAN}
    \cup {[Plain("SequenceReset", 2, TRUE) EXCEPT !.fill = TRUE, !.new = 2]}
    \cup {[Plain("SequenceReset", 2, d) EXCEPT !.fill = d, !.new = -1] : d \in BOOLEAN}
    \cup {[Plain("SequenceReset", 1, FALSE) EXCEPT !.fill = TRUE, !.new = 2]}

\* Frames and callbacks are outputs: no operation reads them.
View == <<cfg, shook, [ses EXCEPT !.tx = {}, !.cb = {}]>>

\* Nothing fails, or everything does but the giving back of a number.  A failed write
\* also makes the stores of later steps fail, until a reset; a claim fails without a
\* fault when the numbers are exhausted; a failed serialisation differs from a failed
\* write only in what follows it.
NumberSafeFaults == {{}, {"write", "target", "reset", "read"}}

EachDeadline == {{"send"}, {"recv"}, {"probe"}, {"rr"}, {"logon", "logout"}}
==============================================================================
