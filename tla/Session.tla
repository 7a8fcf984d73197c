------------------------------- MODULE Session -------------------------------
(***************************************************************************)
(* One session against an arbitrary peer.  Every public operation of       *)
(* Session is an action; the peer may send any message of Inbound, the     *)
(* application may call any operation at any time, any deadline may pass   *)
(* before any tick, and the store may fail in any of the ways of Faults.   *)
(* The operations run one at a time, as they do when the engine drives a   *)
(* session from its own threads and no two of them overlap.                *)
(***************************************************************************)
EXTENDS SessionCore

CONSTANTS Configs,   \* the SessionConfigs considered
          Inbound,   \* the messages the peer may send
          Faults,    \* the sets of store operations that may fail together
          DueSets    \* the sets of deadlines that may have passed at a tick

ASSUME SessionInputs ==
    /\ Configs \subseteq Config
    /\ Inbound \subseteq Message
    /\ Faults \subseteq SUBSET FaultKinds
    /\ DueSets \subseteq SUBSET Deadlines

VARIABLES cfg,     \* cfg_
          ses,     \* the session and its store
          shook    \* history: whose Logon has crossed the present connection

vars == <<cfg, ses, shook>>

Init ==
    /\ cfg \in Configs
    /\ ses = NewSession(cfg)
    /\ shook = {}

\* A Logon of ours among the frames of the step.
OurLogon(s) == IF \E m \in s.tx : m.type = "Logon" THEN {"ours"} ELSE {}

\* The session becomes what an operation makes of it.
Does(s) ==
    /\ ses' = s
    /\ shook' = shook \cup OurLogon(s)
    /\ UNCHANGED cfg

\* TcpTransport reports an established connection (on_connected).
TransportConnected ==
    \E f \in Faults :
        LET s == on_transport_connected(cfg, [Begin(ses) EXCEPT !.link = "up"], f)
        IN  /\ ses.link = "down"
            /\ ses' = s
            /\ shook' = OurLogon(s)
            /\ UNCHANGED cfg

\* The connection is gone (on_disconnected).
TransportDisconnected ==
    /\ ses.link # "down"
    /\ Does(disconnect([Begin(ses) EXCEPT !.link = "down"]))

\* One framed message reaches on_data.
Receive(m, f) ==
    LET s == on_data(cfg, Begin(ses), m, f)
    IN  /\ ses.link # "down"
        /\ ses' = s
        /\ shook' = shook \cup OurLogon(s)
                          \cup (IF m.type = "Logon" /\ ses.state # "Disconnected"
                                THEN {"theirs"} ELSE {})
        /\ UNCHANGED cfg

\* The parser latched a fatal condition.
ParserUnhealthy == ses.link # "down" /\ Does(disconnect(Begin(ses)))

Send(b) == \E f \in Faults : Does(send(Begin(ses), AppMsg(b), f))

Logon == \E f \in Faults : Does(logon(cfg, Begin(ses), f))

Logout == \E f \in Faults : Does(logout(Begin(ses), f))

Disconnect == Does(disconnect(Begin(ses)))

Reset == \E f \in Faults : Does(reset(Begin(ses), f))

OnTimer == \E due \in DueSets, f \in Faults : Does(on_timer(Begin(ses), due, f))

Next ==
    \/ TransportConnected
    \/ TransportDisconnected
    \/ \E m \in Inbound, f \in Faults : Receive(m, f)
    \/ ParserUnhealthy
    \/ \E b \in Bodies : Send(b)
    \/ Logon
    \/ Logout
    \/ Disconnect
    \/ Reset
    \/ OnTimer

Spec == Init /\ [][Next]_vars

----------------------------------------------------------------------------
(* Properties *)

\* Every field keeps its type; the two counters are never 0.
TypeOK ==
    /\ cfg \in Configs
    /\ ses \in Session
    /\ ses.next_sender # 0 /\ ses.next_target # 0
    /\ shook \subseteq {"ours", "theirs"}

\* An open gap has used between 1 and kMaxGapRetries requests and a closed one
\* none (request_gap, on_timer, clear_gap), and neither a gap nor a pending
\* TestRequest outlives its session (disconnect, reset, on_transport_connected):
\* the one's throttle would swallow the first ResendRequest of the next
\* connection, the other's deadline would tear that connection down.
GapAndProbeFresh ==
    /\ ses.gap_open => ses.gap_rr_attempts \in 1 .. kMaxGapRetries
    /\ ~ses.gap_open => ses.gap_rr_attempts = 0
    /\ ses.state = "Disconnected" => ~ses.gap_open
    /\ ses.test_req_pending => ses.state \in {"Active", "LogoutSent"}

\* A session is Active only on a live connection over which both Logons have
\* passed (the F6 rule of handle_logon and send_logon), and the application has
\* not been told that this session ended.
ActiveIsEstablished ==
    ses.state = "Active" =>
        /\ ses.link # "down"
        /\ shook = {"ours", "theirs"}
        /\ ~ses.logout_notified

\* The interval all deadlines are computed from is never 0 or less: the
\* constructor floors the configured one and handle_logon refuses such a Logon.
\* It does not hold when a field is wider than int (Half > 2 * IntHalf).
IntervalPositive == ses.hb >= 1

\* The outbound history of send_message_locked: no frame is stored under a
\* number not yet claimed, and, when a claim can always be given back, every
\* claimed number has its frame, so a replay never covers a number with a
\* GapFill because its frame is missing.
HistoryMatchesNumbers ==
    /\ \A n \in SeqNum : n >= ses.next_sender => ses.out[n] = "none"
    /\ (\A f \in Faults : "rollback" \notin f) =>
           \A n \in 1 .. ses.next_sender - 1 : ses.out[n] # "none"

\* What each step emits (send_message_locked, emit_wire_locked): a fresh frame
\* carries a number that was unclaimed before the step, or was re-baselined in
\* it, and is the frame the store keeps under it; a resent frame repeats what
\* the store held, and a GapFill covers no application message.
FramesMatchStore ==
    [][\A m \in ses'.tx :
          IF ~m.dup
          THEN /\ ses'.out[m.seq] = StoredAs(m)
               /\ ses.out[m.seq] = "none" \/ ses'.next_sender <= ses.next_sender
          ELSE /\ m.seq \in 1 .. ses.next_sender - 1
               /\ m.type = "SequenceReset" =>
                      \A n \in m.seq .. Cast(m.new) - 1 :
                          n < ses.next_sender /\ ~Replayable(ses.out[n])
               /\ m.type # "SequenceReset" => ses.out[m.seq] = StoredAs(m)]_vars

\* Our own numbering is never rewound under a live session: not by an inbound
\* Logon with ResetSeqNumFlag, not by Session::reset, not by a rollback.
LiveNumberingNeverRewinds ==
    [][ses.state \in {"Active", "LogoutSent"} /\ ses.link # "down"
          => ses'.next_sender >= ses.next_sender]_vars

\* The expected number of a live session moves back by nothing but an inbound
\* SequenceReset in reset mode: not by a GapFill, a Logon or a local call.
TargetRewindsOnlyByReset ==
    [][(ses.state = "Active" /\ ses'.next_target < ses.next_target)
          => /\ \E m \in Inbound, f \in Faults : Receive(m, f)
             /\ \A m \in Inbound, f \in Faults :
                    Receive(m, f) => m.type = "SequenceReset" /\ ~m.fill]_vars

\* on_message is only called for an inbound message that is not an admin one and
\* carries the next expected number on an established session, and that number is
\* then spent unless its persist fails: a message is not handed to the application
\* again however often the peer resends it.
DeliveredInOrder ==
    [][("on_message" \in ses'.cb)
          => /\ ses.state = "Active"
             /\ \E m \in Inbound, f \in Faults : Receive(m, f)
             /\ \A m \in Inbound, f \in Faults : Receive(m, f) =>
                    /\ ~is_admin_msg(m.type) /\ m.seq = ses.next_target
                    /\ (\/ ses'.next_target = m.seq + 1
                        \/ m.seq = MaxSeq
                        \/ "target" \in f)]_vars

\* The rule handle_sequence_reset states for a GapFill: its NewSeqNo is strictly
\* greater than the number expected.  It does not hold for a negative NewSeqNo,
\* which the cast makes a large one.
GapFillMovesForward ==
    [][\A m \in Inbound, f \in Faults :
          (m.type = "SequenceReset" /\ m.fill /\ Receive(m, f)
             /\ ses'.next_target # ses.next_target)
          => m.new > ses.next_target]_vars
=============================================================================
