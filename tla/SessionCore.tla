----------------------------- MODULE SessionCore -----------------------------
(***************************************************************************)
(* The FIX session layer (src/session/session.cpp) as operators on one     *)
(* session: the value s is the Session object together with the counters   *)
(* and the outbound history of its message store, c is its SessionConfig,  *)
(* m an inbound message and f the set of store operations that fail while  *)
(* the handler runs.  Each operator is one function of the source and      *)
(* returns the session that function leaves behind.                        *)
(*                                                                         *)
(* What a handler puts on the wire and the callbacks it invokes are        *)
(* collected in s.tx and s.cb, which every operation starts empty.  Within *)
(* one operation frames leave in ascending MsgSeqNum order, so a set is    *)
(* enough.                                                                 *)
(*                                                                         *)
(* The timestamps last_send_time_ms_, last_recv_time_ms_, ... are kept as  *)
(* ages: the number of 200 ms engine timer periods since the timestamp was *)
(* taken.  A HeartBtInt of h seconds is 5h periods and 1.2 h is 6h.        *)
(***************************************************************************)
EXTENDS Integers, FiniteSets

CONSTANTS MaxSeq,         \* std::numeric_limits<SeqNum>::max()
          Half,           \* 1 + std::numeric_limits<std::int64_t>::max()
          IntHalf,        \* 1 + std::numeric_limits<int>::max()
          kMaxGapRetries, \* ResendRequests one gap may produce
          Bodies          \* application payloads

ASSUME SessionConstants ==
    /\ Half \in Nat \ {0, 1} /\ MaxSeq = 2 * Half - 1
    /\ IntHalf \in 2 .. Half
    /\ kMaxGapRetries \in Nat \ {0}
    /\ Bodies \cap {"none", "admin", "reject"} = {}

SeqNum == 0 .. MaxSeq

\* The signed integers a numeric field carries (Message::get_int).
Int64 == -Half .. Half - 1

\* int, the type of heartbeat_interval_sec.
Int32 == -IntHalf .. IntHalf - 1

\* static_cast<SeqNum> and static_cast<std::int64_t>.
Cast(i) == IF i < 0 THEN MaxSeq + 1 + i ELSE i
Signed(n) == IF n < Half THEN n ELSE n - (MaxSeq + 1)

\* static_cast<int> of a signed 64-bit value.
ToInt(i) ==
    LET r == i % (2 * IntHalf) IN IF r < IntHalf THEN r ELSE r - 2 * IntHalf

\* Unsigned increment: wraps.
Inc(n) == IF n = MaxSeq THEN 0 ELSE n + 1

SessionState == {"NotConnected", "WaitingLogon", "LogonSent", "Active",
                 "LogoutSent", "Disconnected"}

AdminTypes == {"Logon", "Logout", "Heartbeat", "TestRequest",
               "ResendRequest", "SequenceReset", "Reject"}

\* "BadIdentity" is any frame whose BeginString or CompIDs are not the
\* session's, "NoType" one without MsgType(35).
MsgTypes == AdminTypes \cup {"App", "BusinessReject", "BadIdentity", "NoType"}

is_admin_msg(mt) == mt \in AdminTypes

\* hb is HeartBtInt(108), reset is ResetSeqNumFlag(141), fill GapFillFlag(123),
\* new NewSeqNo(36), begin and end tags 7 and 16; a missing integer is 0.  valid:
\* the dictionary finds no fault with the message.
Message == [type : MsgTypes, seq : SeqNum, dup : BOOLEAN, hdrDup : BOOLEAN,
            hb : Int64, reset : BOOLEAN, begin : Int64, end : Int64,
            fill : BOOLEAN, new : Int64, valid : BOOLEAN,
            body : Bodies \cup {"none"}]

Msg(t) == [type |-> t, seq |-> 0, dup |-> FALSE, hdrDup |-> FALSE,
           hb |-> 0, reset |-> FALSE, begin |-> 0, end |-> 0,
           fill |-> FALSE, new |-> 0, valid |-> TRUE, body |-> "none"]

AppMsg(b) == [Msg("App") EXCEPT !.body = b]

\* What a slot of the outbound history holds, as far as a replay tells apart.
Stored == Bodies \cup {"none", "admin", "reject"}

\* Faulty variant: an application message is taken for an admin one.
Replayable_rejects_only(e) == e = "reject"

Replayable(e) == e \notin {"none", "admin"}

StoredAs(m) == IF is_admin_msg(m.type) THEN "admin"
               ELSE IF m.type = "BusinessReject" THEN "reject" ELSE m.body

Callbacks == {"on_logon", "on_logout", "on_message", "on_reject",
              "on_sequence_gap", "on_resend_request", "on_heartbeat_timeout"}

Ages == [send : Nat, recv : Nat, probe : Nat, rr : Nat, logon : Nat, logout : Nat]

Config == [initiator : BOOLEAN, reset_on_logon : BOOLEAN, validate : BOOLEAN,
           hb : Int32, logon_timeout : Nat, logout_timeout : Nat]

\* link is the transport below: "closing" once do_disconnect asked for a close.
Session == [state : SessionState, link : {"down", "up", "closing"},
            next_sender : SeqNum, next_target : SeqNum,
            out : [SeqNum -> Stored], log_open : BOOLEAN,
            gap_open : BOOLEAN, gap_rr_attempts : 0 .. kMaxGapRetries,
            test_req_pending : BOOLEAN, logout_notified : BOOLEAN,
            hb : Int32, age : Ages,
            tx : SUBSET Message, cb : SUBSET Callbacks]

NoFrames == [n \in SeqNum |-> "none"]

\* Session::Session over a fresh store; the interval is floored at 1 second.
NewSession(c) ==
    [state |-> "NotConnected", link |-> "down", next_sender |-> 1, next_target |-> 1,
     out |-> NoFrames, log_open |-> TRUE, gap_open |-> FALSE, gap_rr_attempts |-> 0,
     test_req_pending |-> FALSE, logout_notified |-> FALSE,
     hb |-> IF c.hb < 1 THEN 1 ELSE c.hb,
     age |-> [send |-> 0, recv |-> 0, probe |-> 0, rr |-> 0, logon |-> 0, logout |-> 0],
     tx |-> {}, cb |-> {}]

----------------------------------------------------------------------------
(* The message store as the session uses it: IMessageStore over FileStore. *)

\* "claim": next_sender_seq_num_incr cannot persist; "frame": the frame cannot
\* be serialised or synced; "write": the log write fails and latches the
\* stream; "rollback": giving the claimed number back cannot persist; "target":
\* NextTarget cannot persist; "reset", "read": FileStore::reset and
\* get_messages fail.
FaultKinds == {"claim", "frame", "write", "rollback", "target", "reset", "read"}

ClaimFails(s, f) == s.next_sender = MaxSeq \/ "claim" \in f

FrameFails(s, f) == ~s.log_open \/ f \cap {"frame", "write"} # {}

set_next_target_seq_num(s, n, f) ==
    IF "target" \in f THEN s ELSE [s EXCEPT !.next_target = n]

advance_next_target_seq_num(s, n, f) ==
    IF n <= s.next_target THEN s ELSE set_next_target_seq_num(s, n, f)

\* FileStore::reset re-baselines memory first; when truncating or persisting
\* then fails it returns with both log streams closed.
store_reset(s, f) ==
    [s EXCEPT !.next_sender = 1, !.next_target = 1, !.out = NoFrames,
              !.log_open = "reset" \notin f]

----------------------------------------------------------------------------
(* Sending. *)

SendOk(s, f) == ~ClaimFails(s, f) /\ ~FrameFails(s, f)

\* Faulty variant: a failed store always loses the number.
send_message_burns(s, m, f) ==
    IF ClaimFails(s, f) THEN s
    ELSE IF FrameFails(s, f)
    THEN [s EXCEPT !.next_sender = @ + 1, !.log_open = @ /\ "write" \notin f]
    ELSE [s EXCEPT !.next_sender = @ + 1,
                   !.out[s.next_sender] = StoredAs(m),
                   !.tx = @ \cup {[m EXCEPT !.seq = s.next_sender]},
                   !.age.send = 0]

\* Claim a number, store the frame, hand it to the transport.  A frame that
\* cannot be stored gives the claim back.
send_message(s, m, f) ==
    IF ClaimFails(s, f) THEN s
    ELSE IF FrameFails(s, f)
    THEN [s EXCEPT !.next_sender = IF "rollback" \in f THEN @ + 1 ELSE @,
                   !.log_open = @ /\ "write" \notin f]
    ELSE [s EXCEPT !.next_sender = @ + 1,
                   !.out[s.next_sender] = StoredAs(m),
                   !.tx = @ \cup {[m EXCEPT !.seq = s.next_sender]},
                   !.age.send = 0]

send_raw(s) == [s EXCEPT !.age.send = 0]

send_heartbeat(s, f) == send_message(s, Msg("Heartbeat"), f)

send_test_request(s, f) ==
    send_message([s EXCEPT !.age.probe = 0, !.test_req_pending = TRUE],
                 Msg("TestRequest"), f)

send_resend_request(s, begin, f) ==
    send_message(s, [Msg("ResendRequest") EXCEPT !.begin = Signed(begin)], f)

send_reject(s, f) == send_message(s, Msg("Reject"), f)

send_business_reject(s, f) == send_message(s, Msg("BusinessReject"), f)

send_logout_echo(s, f) == send_message(s, Msg("Logout"), f)

send_logout(s, f) ==
    LET sent == send_message(s, Msg("Logout"), f)
    IN  [sent EXCEPT !.age.logout = 0,
                     !.state = IF @ = "Disconnected" THEN @ ELSE "LogoutSent"]

----------------------------------------------------------------------------
(* Gap bookkeeping, teardown and the logout gate. *)

clear_gap(s) == [s EXCEPT !.gap_rr_attempts = 0, !.age.rr = 0, !.gap_open = FALSE]

request_gap(s, begin, f) ==
    IF s.gap_open THEN s
    ELSE send_resend_request(
             [s EXCEPT !.gap_rr_attempts = 1, !.age.rr = 0, !.gap_open = TRUE], begin, f)

\* Faulty variant: the pending TestRequest survives the connection.
disconnect_keeps_probe(s) ==
    clear_gap([s EXCEPT !.state = "Disconnected",
                        !.link = IF @ = "up" THEN "closing" ELSE @])

disconnect(s) ==
    clear_gap([s EXCEPT !.state = "Disconnected", !.test_req_pending = FALSE,
                        !.link = IF @ = "up" THEN "closing" ELSE @])

LogoutAndDrop(s, f) == disconnect(send_logout(s, f))

notify_logout(s) ==
    IF s.logout_notified THEN s
    ELSE [s EXCEPT !.logout_notified = TRUE, !.cb = @ \cup {"on_logout"}]

Calls(s, cb) == [s EXCEPT !.cb = @ \cup {cb}]

----------------------------------------------------------------------------
(* Logon. *)

PreLogon == {"NotConnected", "Disconnected"}

LogonState(c) == IF c.initiator THEN "LogonSent" ELSE "WaitingLogon"

\* send_logon refuses to resurrect or downgrade a session, and an initiator
\* refuses a second Logon; the acceptor answers from WaitingLogon.
MayLogon(c, s) ==
    s.state \in PreLogon \/ (s.state = "WaitingLogon" /\ ~c.initiator)

LogonMsg(c, s) == [Msg("Logon") EXCEPT !.hb = s.hb, !.reset = c.reset_on_logon]

\* Faulty variant: every Logon re-baselines the store.
LogonPublished_resets(c, s, f) ==
    clear_gap(store_reset([s EXCEPT !.age.logon = 0, !.state = LogonState(c)], f))

\* The session when the Logon is numbered: state published, store re-baselined.
LogonPublished(c, s, f) ==
    LET published == [s EXCEPT !.age.logon = 0, !.state = LogonState(c)]
    IN  IF c.reset_on_logon THEN clear_gap(store_reset(published, f)) ELSE published

LogonGoesOut(c, s, f) ==
    /\ MayLogon(c, s)
    /\ c.reset_on_logon => "reset" \notin f
    /\ SendOk(LogonPublished(c, s, f), f)

send_logon(c, s, f) ==
    LET published == LogonPublished(c, s, f)
        sent      == send_message(published, LogonMsg(c, s), f)
    IN  IF ~MayLogon(c, s) THEN s
        ELSE IF c.reset_on_logon /\ "reset" \in f
             THEN [store_reset(s, f) EXCEPT !.age.logon = 0]
        ELSE IF LogonGoesOut(c, s, f) THEN sent
        ELSE [sent EXCEPT !.state = s.state]

----------------------------------------------------------------------------
(* Replay of the outbound history for a ResendRequest. *)

RangeEnd(s, m) ==
    IF Cast(m.end) = 0 \/ Cast(m.end) >= s.next_sender THEN s.next_sender - 1 ELSE Cast(m.end)

\* Faulty variant: the fill reaches one number too far.
GapFill_too_far(from, to) ==
    [Msg("SequenceReset") EXCEPT !.seq = from, !.fill = TRUE, !.dup = TRUE, !.new = Signed(to + 1)]

GapFill(from, to) ==
    [Msg("SequenceReset") EXCEPT !.seq = from, !.fill = TRUE, !.dup = TRUE, !.new = Signed(to)]

Resent(n, e) ==
    [Msg(IF e = "reject" THEN "BusinessReject" ELSE "App")
        EXCEPT !.seq = n, !.dup = TRUE, !.body = IF e = "reject" THEN "none" ELSE e]

\* Faulty variant: neighbouring fills are not merged.
IsHole_any_run(out, begin, last, lo, hi) == \A n \in lo .. hi : ~Replayable(out[n])

\* lo .. hi is a maximal run of slots of the window that are not resent.
IsHole(out, begin, last, lo, hi) ==
    /\ \A n \in lo .. hi : ~Replayable(out[n])
    /\ lo = begin \/ Replayable(out[lo - 1])
    /\ hi = last \/ Replayable(out[hi + 1])

\* The frames the replay loop emits: application messages under their old
\* number, one GapFill for each run of anything else.
Replay(out, begin, last) ==
    {Resent(n, out[n]) : n \in {k \in begin .. last : Replayable(out[k])}}
    \cup {GapFill(h[1], h[2] + 1) :
             h \in {p \in (begin .. last) \X (begin .. last) :
                       p[1] <= p[2] /\ IsHole(out, begin, last, p[1], p[2])}}

handle_resend_request(s, m, f) ==
    LET asked == Calls(s, "on_resend_request")
    IN  IF m.begin < 1 THEN send_reject(s, f)
        ELSE IF m.begin > s.next_sender THEN send_reject(asked, f)
        ELSE IF "read" \in f \/ m.begin > RangeEnd(s, m) THEN asked
        ELSE [asked EXCEPT !.tx = @ \cup Replay(s.out, m.begin, RangeEnd(s, m)),
                           !.age.send = 0]

----------------------------------------------------------------------------
(* The admin handlers. *)

\* Faulty variant: a new cycle does not re-arm on_logout.
GoActive_keeps_gate(s) == Calls([s EXCEPT !.state = "Active"], "on_logon")

GoActive(s) == Calls([s EXCEPT !.state = "Active", !.logout_notified = FALSE], "on_logon")

\* The peer's HeartBtInt becomes ours.
Adopt(s, m) == [s EXCEPT !.hb = ToInt(m.hb)]

handle_logon(c, s, m, f) ==
    LET adopted   == Adopt(s, m)
        handshake == s.state \in {"WaitingLogon", "LogonSent"}
        baseline  == clear_gap(IF m.reset /\ handshake
                               THEN set_next_target_seq_num(adopted, 1, f) ELSE adopted)
    IN  CASE m.hb <= 0 -> LogoutAndDrop(s, f)
          [] m.hb > 0 /\ c.initiator /\ s.state = "LogonSent" /\ m.hb # s.hb ->
                LogoutAndDrop(s, f)
          [] m.hb > 0 /\ s.state = "LogonSent" /\ (c.initiator => m.hb = s.hb) ->
                GoActive(baseline)
          [] m.hb > 0 /\ s.state = "WaitingLogon" ->
                IF LogonGoesOut(c, baseline, f)
                THEN GoActive(send_logon(c, baseline, f))
                ELSE send_logon(c, baseline, f)
          [] m.hb > 0 /\ s.state = "Active" -> LogoutAndDrop(baseline, f)
          [] OTHER -> baseline

handle_logout(s, f) ==
    notify_logout(disconnect(IF s.state = "LogoutSent" THEN s ELSE send_logout_echo(s, f)))

\* process_message has just cleared the pending TestRequest, so on one thread
\* the TestReqID comparison is never reached.
handle_heartbeat(s) == s

handle_test_request(s, f) == send_heartbeat(s, f)

handle_reject(s) ==
    IF s.state = "LogonSent" THEN disconnect(notify_logout(s)) ELSE Calls(s, "on_reject")

\* Faulty variant: a GapFill's NewSeqNo need only be positive.
handle_sequence_reset_unchecked(s, m, f) ==
    LET landed == clear_gap(set_next_target_seq_num(s, Cast(m.new), f))
    IN  IF ~m.fill
        THEN IF m.new <= 0 THEN LogoutAndDrop(s, f) ELSE landed
        ELSE CASE ~m.dup -> LogoutAndDrop(s, f)
               [] m.dup /\ m.seq > s.next_target -> request_gap(s, s.next_target, f)
               [] m.dup /\ m.seq < s.next_target -> s
               [] m.dup /\ m.seq = s.next_target ->
                     IF m.new <= 0 THEN LogoutAndDrop(s, f) ELSE landed

handle_sequence_reset(s, m, f) ==
    LET landed == clear_gap(set_next_target_seq_num(s, Cast(m.new), f))
    IN  IF ~m.fill
        THEN IF m.new <= 0 THEN LogoutAndDrop(s, f) ELSE landed
        ELSE CASE ~m.dup -> LogoutAndDrop(s, f)
               [] m.dup /\ m.seq > s.next_target -> request_gap(s, s.next_target, f)
               [] m.dup /\ m.seq < s.next_target -> s
               [] m.dup /\ m.seq = s.next_target ->
                     IF Cast(m.new) <= s.next_target THEN LogoutAndDrop(s, f) ELSE landed

process_admin(c, s, m, f) ==
    CASE m.type = "Logon"         -> handle_logon(c, s, m, f)
      [] m.type = "Logout"        -> handle_logout(s, f)
      [] m.type = "Heartbeat"     -> handle_heartbeat(s)
      [] m.type = "TestRequest"   -> handle_test_request(s, f)
      [] m.type = "ResendRequest" -> handle_resend_request(s, m, f)
      [] m.type = "SequenceReset" -> handle_sequence_reset(s, m, f)
      [] m.type = "Reject"        -> handle_reject(s)

process_app(c, s, m, f) ==
    IF s.state # "Active" THEN send_reject(s, f)
    ELSE IF c.validate /\ ~m.valid THEN send_business_reject(s, f)
    ELSE Calls(s, "on_message")

----------------------------------------------------------------------------
(* One inbound message. *)

SeqValidated(s) == s.state \notin {"WaitingLogon", "LogonSent", "NotConnected"}

\* What validate_seq_num does when it returns false.
refuse_seq_num(s, m, f) ==
    CASE m.seq = 0 -> send_reject(s, f)
      [] m.seq > s.next_target ->
            request_gap(Calls(s, "on_sequence_gap"), s.next_target, f)
      [] 0 < m.seq /\ m.seq < s.next_target -> IF m.dup THEN s ELSE LogoutAndDrop(s, f)

\* Faulty variant: a message in sequence does not take its number.
consume_inbound_first_only(s, m, validated, f) ==
    IF validated \/ m.dup THEN s ELSE advance_next_target_seq_num(s, Inc(m.seq), f)

consume_inbound(s, m, validated, f) ==
    IF ~validated /\ m.dup THEN s
    ELSE advance_next_target_seq_num(s, Inc(m.seq), f)

MissingMsgType(s, m, f) ==
    send_reject(IF SeqValidated(s) /\ ~m.dup /\ m.seq = s.next_target
                THEN advance_next_target_seq_num(s, Inc(m.seq), f) ELSE s, f)

Dispatch(c, s, m, f) ==
    IF m.hdrDup THEN send_reject(s, f)
    ELSE IF is_admin_msg(m.type) THEN process_admin(c, s, m, f)
    ELSE process_app(c, s, m, f)

process_message(c, s, m, f) ==
    LET alive == [s EXCEPT !.age.recv = 0, !.test_req_pending = FALSE]
    IN  CASE m.type = "BadIdentity"   -> LogoutAndDrop(alive, f)
          [] m.type = "NoType"        -> MissingMsgType(alive, m, f)
          [] m.type = "SequenceReset" -> handle_sequence_reset(alive, m, f)
          [] OTHER ->
                IF ~SeqValidated(s)
                THEN consume_inbound(Dispatch(c, alive, m, f), m, FALSE, f)
                ELSE IF m.seq # s.next_target \/ m.seq = 0
                THEN refuse_seq_num(alive, m, f)
                ELSE consume_inbound(Dispatch(c, clear_gap(alive), m, f), m, TRUE, f)

----------------------------------------------------------------------------
(* The public operations.  Each begins with no frame emitted and no callback *)
(* made.                                                                     *)

Begin(s) == [s EXCEPT !.tx = {}, !.cb = {}]

\* on_data for one framed message; a torn-down session stops dispatching.
on_data(c, s, m, f) ==
    IF s.state = "Disconnected" THEN s ELSE process_message(c, s, m, f)

send(s, m, f) == IF s.state = "Active" THEN send_message(s, m, f) ELSE s

logon(c, s, f) == IF s.state \in PreLogon THEN send_logon(c, s, f) ELSE s

logout(s, f) ==
    IF s.state \in {"Active", "LogonSent", "WaitingLogon"} THEN send_logout(s, f) ELSE s

on_transport_connected(c, s, f) ==
    LET fresh == [clear_gap(s) EXCEPT !.test_req_pending = FALSE, !.logout_notified = FALSE,
                                      !.age.send = 0, !.age.recv = 0,
                                      !.age.logon = 0, !.age.logout = 0]
    IN  IF c.initiator
        THEN logon(c, [fresh EXCEPT !.state = IF @ \in PreLogon THEN @ ELSE "Disconnected"], f)
        ELSE [fresh EXCEPT !.state = "WaitingLogon"]

\* Faulty variant: a session waiting for the peer's Logout may be reset.
reset_in_logout(s, f) ==
    IF s.state \in {"Active", "LogonSent"} THEN s
    ELSE store_reset(clear_gap([s EXCEPT !.state = "NotConnected", !.test_req_pending = FALSE,
                                         !.logout_notified = FALSE]), f)

reset(s, f) ==
    IF s.state \in {"Active", "LogonSent", "LogoutSent"} THEN s
    ELSE store_reset(clear_gap([s EXCEPT !.state = "NotConnected", !.test_req_pending = FALSE,
                                         !.logout_notified = FALSE]), f)

\* due names the deadlines that have passed at this tick.
Deadlines == {"send", "recv", "probe", "rr", "logon", "logout"}

\* Faulty variant: an unanswered TestRequest has no consequence.
ProbeTick_patient(s, due, f) ==
    IF ~s.test_req_pending /\ "recv" \in due THEN send_test_request(s, f) ELSE s

ProbeTick(s, due, f) ==
    IF ~s.test_req_pending
    THEN IF "recv" \in due THEN send_test_request(s, f) ELSE s
    ELSE IF "probe" \in due THEN disconnect(Calls(s, "on_heartbeat_timeout")) ELSE s

\* Faulty variant: a gap is requested once only.
GapTick_never(s, due, f) == s

GapTick(s, due, f) ==
    IF ~(s.gap_open /\ s.gap_rr_attempts >= 1 /\ "rr" \in due) THEN s
    ELSE IF s.gap_rr_attempts + 1 > kMaxGapRetries THEN disconnect(s)
    ELSE send_resend_request([s EXCEPT !.gap_rr_attempts = @ + 1, !.age.rr = 0],
                             s.next_target, f)

\* Faulty variant: silence is never broken.
HeartbeatTick_silent(s, due, f) == s

HeartbeatTick(s, due, f) == IF "send" \in due THEN send_heartbeat(s, f) ELSE s

on_timer(s, due, f) ==
    CASE s.state = "Active" ->
            GapTick(ProbeTick(HeartbeatTick(s, due, f), due, f), due, f)
      [] s.state = "LogonSent" -> IF "logon" \in due THEN disconnect(s) ELSE s
      [] s.state = "LogoutSent" ->
            IF "logout" \in due THEN disconnect(notify_logout(s)) ELSE HeartbeatTick(s, due, f)
      [] OTHER -> s
=============================================================================
