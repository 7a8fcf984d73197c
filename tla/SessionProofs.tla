---------------------------- MODULE SessionProofs ----------------------------
(***************************************************************************)
(* Facts about a session that hold for every configuration, every peer,    *)
(* every pattern of store failures and every width of the sequence         *)
(* numbers.  Sound says of one session value what the invariants TypeOK,   *)
(* GapAndProbeFresh and HistoryMatchesNumbers say of ses; each operator of *)
(* SessionCore is shown to keep it, and to move NextSender back only where *)
(* it re-baselines the store.  The last sections, which SessionStepProofs  *)
(* continues, say what sending adds to the frames, the history and the     *)
(* handshake.                                                              *)
(***************************************************************************)
EXTENDS Session, TLAPS

(* Messages and numbers. *)

\* The small numbers the handlers assign are in the ranges they are assigned to.
LEMMA Zeros ==
    /\ 0 \in SeqNum /\ 1 \in SeqNum /\ 0 \in Int64 /\ 1 \in Int32 /\ 0 \in Int32
    /\ 0 \in 0 .. kMaxGapRetries /\ 1 \in 0 .. kMaxGapRetries
  BY SessionConstants DEF SeqNum, Int64, Int32

\* An empty message of a given MsgType is a message.
LEMMA MsgType ==
    ASSUME NEW t \in MsgTypes
    PROVE  Msg(t) \in Message /\ Msg(t).type = t /\ ~Msg(t).dup
  BY Zeros, Zenon DEF Msg, Message

\* static_cast<int64_t> of a sequence number.
LEMMA SignedType ==
    ASSUME NEW n \in SeqNum
    PROVE  Signed(n) \in Int64
  BY SessionConstants DEF Signed, SeqNum, Int64

\* static_cast<uint64_t> of a field: only a positive field keeps its value.
LEMMA CastType ==
    ASSUME NEW i \in Int64
    PROVE  Cast(i) \in SeqNum /\ (i # 0 => Cast(i) # 0) /\ (i > 0 => Cast(i) = i)
  BY SessionConstants DEF Cast, SeqNum, Int64

\* Adding one to a uint64_t, which wraps.
LEMMA IncType ==
    ASSUME NEW n \in SeqNum
    PROVE  Inc(n) \in SeqNum
  BY SessionConstants DEF Inc, SeqNum

\* static_cast<int> of HeartBtInt.
LEMMA ToIntType ==
    ASSUME NEW i \in Int64
    PROVE  ToInt(i) \in Int32
<1>1. i % (2 * IntHalf) \in 0 .. 2 * IntHalf - 1
  BY SessionConstants DEF Int64
<1> QED
  BY <1>1, SessionConstants DEF ToInt, Int32

\* What store_outbound keeps of a message.
LEMMA StoredAsType ==
    ASSUME NEW m \in Message
    PROVE  StoredAs(m) \in Stored
  BY Zenon DEF StoredAs, Stored, Message, is_admin_msg

\* The frames a session numbers and sends.
Sendable(m) ==
    /\ m \in Message /\ ~m.dup
    /\ m.type \in AdminTypes \cup {"App", "BusinessReject"}
    /\ m.type = "App" => m.body # "none"

\* A frame that is numbered and sent leaves its trace in the history.
LEMMA SentIsStored ==
    ASSUME NEW m, Sendable(m)
    PROVE  StoredAs(m) \in Stored \ {"none"}
  BY StoredAsType, Zenon DEF Sendable, StoredAs, is_admin_msg

\* So may every admin frame be sent.
LEMMA AdminSendable ==
    ASSUME NEW t \in AdminTypes \cup {"BusinessReject"}
    PROVE  Sendable(Msg(t))
  BY MsgType, Zenon DEF Sendable, MsgTypes, AdminTypes

----------------------------------------------------------------------------
(* The frames of a replay. *)

\* What flush_gap sends is a message marked PossDup.
LEMMA GapFillType ==
    ASSUME NEW from \in SeqNum, NEW to \in SeqNum
    PROVE  GapFill(from, to) \in Message /\ GapFill(from, to).dup
<1>1. Signed(to) \in Int64
  BY SignedType, Zenon
<1> QED
  BY <1>1, Zeros, Zenon DEF GapFill, Msg, Message, MsgTypes, AdminTypes

\* What the replay loop sends for a stored frame is a message marked PossDup.
LEMMA ResentType ==
    ASSUME NEW n \in SeqNum, NEW e \in Stored, Replayable(e)
    PROVE  Resent(n, e) \in Message /\ Resent(n, e).dup
<1>1. e = "reject" \/ e \in Bodies
  BY Zenon DEF Stored, Replayable
<1> QED
  BY <1>1, Zeros, Zenon DEF Resent, Msg, Message, MsgTypes, AdminTypes

\* Everything a replay emits is a message marked PossDup.
LEMMA ReplayType ==
    ASSUME NEW h \in [SeqNum -> Stored], NEW b \in SeqNum, NEW last \in Int,
           last + 1 \in SeqNum, NEW m \in Replay(h, b, last)
    PROVE  m \in Message /\ m.dup
<1>1. b .. last \subseteq SeqNum /\ \A k \in b .. last : k + 1 \in SeqNum
  BY SessionConstants DEF SeqNum
<1>2. CASE \E k \in b .. last : Replayable(h[k]) /\ m = Resent(k, h[k])
  BY <1>1, <1>2, ResentType, Zenon
<1>3. CASE \E p \in (b .. last) \X (b .. last) : m = GapFill(p[1], p[2] + 1)
  BY <1>1, <1>3, GapFillType, ZenonT(30)
<1> QED
  BY <1>2, <1>3, Zenon DEF Replay

----------------------------------------------------------------------------
GapOk(s) ==
    /\ s.gap_open => s.gap_rr_attempts >= 1
    /\ ~s.gap_open => s.gap_rr_attempts = 0
    /\ s.state = "Disconnected" => ~s.gap_open

ProbeOk(s) == s.test_req_pending => s.state \in {"Active", "LogoutSent"}

NoRollback == \A f \in Faults : "rollback" \notin f

HistoryOk(s) ==
    /\ \A n \in SeqNum : n >= s.next_sender => s.out[n] = "none"
    /\ NoRollback => \A n \in 1 .. s.next_sender - 1 : s.out[n] # "none"

Sound(s) ==
    /\ s \in Session
    /\ s.next_sender # 0 /\ s.next_target # 0
    /\ GapOk(s) /\ ProbeOk(s) /\ HistoryOk(s)

\* t differs from s in nothing but what sending frames changes.
OnlySends(s, t) ==
    /\ t.next_sender >= s.next_sender
    /\ t.state = s.state /\ t.link = s.link /\ t.next_target = s.next_target
    /\ t.gap_open = s.gap_open /\ t.gap_rr_attempts = s.gap_rr_attempts
    /\ t.test_req_pending = s.test_req_pending /\ t.logout_notified = s.logout_notified

----------------------------------------------------------------------------
(* Sending. *)

\* send_message_locked keeps the history in step with NextSender, whichever of its
\* calls fails, and changes nothing else.
LEMMA SendSound ==
    ASSUME NEW s, Sound(s), NEW m, Sendable(m), NEW f \in Faults
    PROVE  /\ Sound(send_message(s, m, f))
           /\ OnlySends(s, send_message(s, m, f))
<1> DEFINE t == send_message(s, m, f)
<1>1. /\ s \in Session /\ s.next_sender \in SeqNum \ {0} /\ s.out \in [SeqNum -> Stored]
      /\ s.tx \subseteq Message /\ s.age \in Ages /\ s.log_open \in BOOLEAN
  BY Zenon DEF Sound, Session
<1>2. CASE ClaimFails(s, f)
  BY <1>1, <1>2, SessionConstants DEF send_message, OnlySends, SeqNum
<1>3. CASE ~ClaimFails(s, f) /\ FrameFails(s, f)
  <2>1. s.next_sender + 1 \in SeqNum \ {0}
    BY <1>1, <1>3, SessionConstants DEF SeqNum, ClaimFails
  <2>2. t = [s EXCEPT !.next_sender = IF "rollback" \in f THEN @ + 1 ELSE @,
                      !.log_open = @ /\ "write" \notin f]
    BY <1>3, Zenon DEF send_message
  <2>3. (s.log_open /\ "write" \notin f) \in BOOLEAN
    BY Zenon
  <2>4. t \in Session
    BY <1>1, <2>1, <2>2, <2>3, Zenon DEF Session
  <2>5. t.next_sender = (IF "rollback" \in f THEN s.next_sender + 1 ELSE s.next_sender)
        /\ t.out = s.out
    BY <1>1, <2>2, ZenonT(30) DEF Session
  <2>6. OnlySends(s, t)
    BY <1>1, <2>2, SessionConstants DEF OnlySends, Session, SeqNum
  <2>7. GapOk(t) /\ ProbeOk(t) /\ t.next_target # 0
    BY <2>6, Zenon DEF Sound, OnlySends, GapOk, ProbeOk
  <2>8. HistoryOk(t)
    BY <1>1, <2>5, SessionConstants DEF Sound, HistoryOk, NoRollback, SeqNum
  <2> QED
    BY <1>1, <2>1, <2>4, <2>5, <2>6, <2>7, <2>8, Zenon DEF Sound
<1>4. CASE ~ClaimFails(s, f) /\ ~FrameFails(s, f)
  <2>1. s.next_sender + 1 \in SeqNum \ {0}
    BY <1>1, <1>4, SessionConstants DEF SeqNum, ClaimFails
  <2>2. t = [s EXCEPT !.next_sender = @ + 1, !.out[s.next_sender] = StoredAs(m),
                      !.tx = @ \cup {[m EXCEPT !.seq = s.next_sender]}, !.age.send = 0]
    BY <1>4, Zenon DEF send_message
  <2>3. StoredAs(m) \in Stored /\ StoredAs(m) # "none"
    BY SentIsStored, Zenon
  <2>4. [m EXCEPT !.seq = s.next_sender] \in Message
    BY <1>1, Zenon DEF Message, Sendable
  <2>5. [s.age EXCEPT !.send = 0] \in Ages
    BY <1>1, Zenon DEF Ages
  <2>6. t \in Session
    <3>1. [s.out EXCEPT ![s.next_sender] = StoredAs(m)] \in [SeqNum -> Stored]
      BY <1>1, <2>3, Zenon
    <3>2. s.tx \cup {[m EXCEPT !.seq = s.next_sender]} \in SUBSET Message
      BY <1>1, <2>4, Zenon
    <3>3. t = [s EXCEPT !.next_sender = s.next_sender + 1,
                        !.out = [s.out EXCEPT ![s.next_sender] = StoredAs(m)],
                        !.tx = s.tx \cup {[m EXCEPT !.seq = s.next_sender]},
                        !.age = [s.age EXCEPT !.send = 0]]
      BY <1>1, <2>2, Zenon DEF Session
    <3> QED
      BY <1>1, <2>1, <2>5, <3>1, <3>2, <3>3, ZenonT(30) DEF Session
  <2>7. t.next_sender = s.next_sender + 1 /\ t.out = [s.out EXCEPT ![s.next_sender] = StoredAs(m)]
    BY <1>1, <2>2, Zenon DEF Session
  <2>8. OnlySends(s, t)
    BY <1>1, <2>2, SessionConstants DEF OnlySends, Session, SeqNum
  <2>9. GapOk(t) /\ ProbeOk(t) /\ t.next_target # 0
    BY <2>8, Zenon DEF Sound, OnlySends, GapOk, ProbeOk
  <2>10. HistoryOk(t)
    BY <1>1, <2>3, <2>7, SessionConstants DEF Sound, HistoryOk, SeqNum
  <2> QED
    BY <2>1, <2>6, <2>7, <2>8, <2>9, <2>10, Zenon DEF Sound
<1> QED
  BY <1>2, <1>3, <1>4, Zenon

\* t is a sound successor of s that has given no number back.
Keeps(s, t) == Sound(t) /\ t.next_sender >= s.next_sender

\* Doing nothing keeps the session sound.
LEMMA KeepsItself ==
    ASSUME NEW s, Sound(s)
    PROVE  Keeps(s, s)
  BY SessionConstants DEF Keeps, Sound, Session, SeqNum

\* Two calls in a row.
LEMMA KeepsTransitive ==
    ASSUME NEW s, NEW t, NEW u, Sound(s), Keeps(s, t), Keeps(t, u)
    PROVE  Keeps(s, u)
<1>1. s.next_sender \in SeqNum /\ t.next_sender \in SeqNum /\ u.next_sender \in SeqNum
  BY Zenon DEF Keeps, Sound, Session
<1> QED
  BY <1>1, SessionConstants DEF Keeps, SeqNum

\* send_message as a step of a handler.
LEMMA SendKeeps ==
    ASSUME NEW s, Sound(s), NEW m, Sendable(m), NEW f \in Faults
    PROVE  /\ Keeps(s, send_message(s, m, f))
           /\ send_message(s, m, f).state = s.state
  BY SendSound, Zenon DEF Keeps, OnlySends

\* The senders of admin messages: send_heartbeat, send_reject and the like.
LEMMA AdminKeeps ==
    ASSUME NEW s, Sound(s), NEW f \in Faults
    PROVE  /\ Keeps(s, send_heartbeat(s, f)) /\ send_heartbeat(s, f).state = s.state
           /\ Keeps(s, send_reject(s, f)) /\ Keeps(s, send_business_reject(s, f))
           /\ Keeps(s, send_logout_echo(s, f))
<1>1. \A t \in AdminTypes \cup {"BusinessReject"} : Sendable(Msg(t))
  BY AdminSendable, Zenon
<1> QED
  BY <1>1, SendKeeps, Zenon DEF send_heartbeat, send_reject, send_business_reject, send_logout_echo,
                         AdminTypes

\* A session whose store has not changed.
LEMMA SameStore ==
    ASSUME NEW s, Sound(s), NEW t \in Session,
           t.next_sender = s.next_sender, t.out = s.out, t.next_target # 0,
           GapOk(t), ProbeOk(t)
    PROVE  Keeps(s, t)
<1>1. HistoryOk(t)
  BY Zenon DEF Sound, HistoryOk
<1>2. t.next_sender >= s.next_sender
  BY SessionConstants DEF Sound, Session, SeqNum
<1> QED
  BY <1>1, <1>2, Zenon DEF Keeps, Sound

----------------------------------------------------------------------------
(* Gap bookkeeping, teardown, counters. *)

\* clear_gap resets the retry budget and leaves the numbers alone.
LEMMA ClearGapKeeps ==
    ASSUME NEW s, Sound(s)
    PROVE  /\ Keeps(s, clear_gap(s))
           /\ clear_gap(s).state = s.state /\ clear_gap(s).next_target = s.next_target
           /\ clear_gap(s).test_req_pending = s.test_req_pending
<1> DEFINE t == clear_gap(s)
<1>1. s \in Session /\ s.age \in Ages
  BY Zenon DEF Sound, Session
<1>2. [s.age EXCEPT !.rr = 0] \in Ages
  BY <1>1, Zenon DEF Ages
<1>3. t \in Session
  BY <1>1, <1>2, Zeros, Zenon DEF clear_gap, Session
<1>4. /\ t.next_sender = s.next_sender /\ t.out = s.out /\ t.next_target = s.next_target
      /\ t.state = s.state /\ t.test_req_pending = s.test_req_pending
      /\ ~t.gap_open /\ t.gap_rr_attempts = 0
  BY <1>1, Zenon DEF clear_gap, Session
<1>5. GapOk(t) /\ ProbeOk(t)
  BY <1>4, Zenon DEF GapOk, ProbeOk, Sound
<1> QED
  BY <1>3, <1>4, <1>5, SameStore, Zenon DEF Sound

\* send_resend_request.
LEMMA ResendRequestKeeps ==
    ASSUME NEW s, Sound(s), NEW begin \in SeqNum, NEW f \in Faults
    PROVE  Keeps(s, send_resend_request(s, begin, f))
<1> DEFINE m == [Msg("ResendRequest") EXCEPT !.begin = Signed(begin)]
<1>1. m \in Message /\ m.type = "ResendRequest" /\ ~m.dup
  BY SignedType, Zeros, Zenon DEF Msg, Message, MsgTypes, AdminTypes
<1>2. Sendable(m)
  BY <1>1, Zenon DEF Sendable, AdminTypes
<1> QED
  BY <1>2, SendKeeps, Zenon DEF send_resend_request

\* request_gap opens a gap with one attempt spent.
LEMMA RequestGapKeeps ==
    ASSUME NEW s, Sound(s), s.state # "Disconnected", NEW begin \in SeqNum, NEW f \in Faults
    PROVE  Keeps(s, request_gap(s, begin, f))
<1> DEFINE t == [s EXCEPT !.gap_rr_attempts = 1, !.age.rr = 0, !.gap_open = TRUE]
<1>1. s \in Session /\ s.age \in Ages
  BY Zenon DEF Sound, Session
<1>2. [s.age EXCEPT !.rr = 0] \in Ages
  BY <1>1, Zenon DEF Ages
<1>3. t \in Session
  BY <1>1, <1>2, Zeros, Zenon DEF Session
<1>4. /\ t.next_sender = s.next_sender /\ t.out = s.out /\ t.next_target = s.next_target
      /\ t.state = s.state /\ t.test_req_pending = s.test_req_pending
      /\ t.gap_open /\ t.gap_rr_attempts = 1
  BY <1>1, Zenon DEF Session
<1> HIDE DEF t
<1>5. GapOk(t) /\ ProbeOk(t)
  BY <1>4 DEF GapOk, ProbeOk, Sound
<1>6. Keeps(s, t)
  BY <1>3, <1>4, <1>5, SameStore, Zenon DEF Sound
<1>7. Keeps(t, send_resend_request(t, begin, f))
  BY <1>6, ResendRequestKeeps, Zenon DEF Keeps
<1> QED
  BY <1>6, <1>7, KeepsTransitive, KeepsItself, Zenon DEF request_gap, t

\* disconnect() ends the probe and the gap with the connection.
LEMMA DisconnectKeeps ==
    ASSUME NEW s, Sound(s)
    PROVE  /\ Keeps(s, disconnect(s)) /\ disconnect(s).state = "Disconnected"
           /\ disconnect(s).link = (IF s.link = "up" THEN "closing" ELSE s.link)
<1> DEFINE t == disconnect(s)
<1>1. s \in Session /\ s.age \in Ages
  BY Zenon DEF Sound, Session
<1>2. [s.age EXCEPT !.rr = 0] \in Ages
  BY <1>1, Zenon DEF Ages
<1>3. t \in Session
  BY <1>1, <1>2, Zeros, Zenon DEF disconnect, clear_gap, Session, SessionState
<1>4. /\ t.next_sender = s.next_sender /\ t.out = s.out /\ t.next_target = s.next_target
      /\ t.state = "Disconnected" /\ ~t.test_req_pending
      /\ ~t.gap_open /\ t.gap_rr_attempts = 0
      /\ t.link = (IF s.link = "up" THEN "closing" ELSE s.link)
  BY <1>1, Zenon DEF disconnect, clear_gap, Session
<1>5. GapOk(t) /\ ProbeOk(t)
  BY <1>4, Zenon DEF GapOk, ProbeOk
<1> QED
  BY <1>3, <1>4, <1>5, SameStore, Zenon DEF Sound

\* send_logout, and Logout followed by disconnect().
LEMMA LogoutKeeps ==
    ASSUME NEW s, Sound(s), NEW f \in Faults
    PROVE  Keeps(s, send_logout(s, f)) /\ Keeps(s, LogoutAndDrop(s, f))
<1> DEFINE u == send_message(s, Msg("Logout"), f)
           t == send_logout(s, f)
<1>1. Keeps(s, u) /\ u.state = s.state
  BY SendKeeps, AdminSendable, Zenon DEF AdminTypes
<1>2. u \in Session /\ u.age \in Ages /\ Sound(u)
  BY <1>1, Zenon DEF Keeps, Sound, Session
<1> HIDE DEF u
<1>3. [u.age EXCEPT !.logout = 0] \in Ages
  BY <1>2, Zenon DEF Ages
<1>4. t = [u EXCEPT !.age.logout = 0, !.state = IF @ = "Disconnected" THEN @ ELSE "LogoutSent"]
  BY Zenon DEF send_logout, u
<1>5. t \in Session
  BY <1>2, <1>3, <1>4, Zenon DEF Session, SessionState
<1>6. /\ t.next_sender = u.next_sender /\ t.out = u.out /\ t.next_target = u.next_target
      /\ t.state = (IF u.state = "Disconnected" THEN u.state ELSE "LogoutSent")
      /\ t.test_req_pending = u.test_req_pending
      /\ t.gap_open = u.gap_open /\ t.gap_rr_attempts = u.gap_rr_attempts
  BY <1>2, <1>4, ZenonT(30) DEF Session
<1> HIDE DEF t
<1>7. GapOk(t) /\ ProbeOk(t)
  BY <1>2, <1>6, Zenon DEF Sound, GapOk, ProbeOk
<1>8. Keeps(u, t)
  BY <1>2, <1>5, <1>6, <1>7, SameStore, Zenon DEF Sound
<1>9. Keeps(s, t)
  BY <1>1, <1>8, KeepsTransitive, Zenon
<1>10. Keeps(s, disconnect(t))
  BY <1>9, DisconnectKeeps, KeepsTransitive, Zenon DEF Keeps
<1> QED
  BY <1>9, <1>10, Zenon DEF LogoutAndDrop, t

\* A user callback touches none of the state of the session.
LEMMA CallsKeeps ==
    ASSUME NEW s, Sound(s), NEW cb \in Callbacks
    PROVE  /\ Keeps(s, Calls(s, cb))
           /\ Calls(s, cb) \in Session /\ Calls(s, cb).state = s.state
           /\ Calls(s, cb).next_target = s.next_target /\ Calls(s, cb).link = s.link
           /\ Calls(s, cb).out = s.out /\ Calls(s, cb).next_sender = s.next_sender
<1> DEFINE t == Calls(s, cb)
<1>1. s \in Session /\ s.cb \cup {cb} \in SUBSET Callbacks
  BY Zenon DEF Sound, Session
<1>2. t \in Session
  BY <1>1, Zenon DEF Calls, Session
<1>3. /\ t.next_sender = s.next_sender /\ t.out = s.out /\ t.next_target = s.next_target
      /\ t.state = s.state /\ t.link = s.link /\ t.test_req_pending = s.test_req_pending
      /\ t.gap_open = s.gap_open /\ t.gap_rr_attempts = s.gap_rr_attempts
  BY <1>1, Zenon DEF Calls, Session
<1> HIDE DEF t
<1>4. GapOk(t) /\ ProbeOk(t)
  BY <1>3, Zenon DEF Sound, GapOk, ProbeOk
<1>5. Keeps(s, t)
  BY <1>2, <1>3, <1>4, SameStore, Zenon DEF Sound
<1> QED
  BY <1>2, <1>3, <1>5, Zenon DEF t

\* notify_logout.
LEMMA NotifyLogoutKeeps ==
    ASSUME NEW s, Sound(s)
    PROVE  Keeps(s, notify_logout(s))
<1> DEFINE t == [s EXCEPT !.logout_notified = TRUE, !.cb = @ \cup {"on_logout"}]
<1>1. s \in Session /\ s.cb \cup {"on_logout"} \in SUBSET Callbacks
  BY Zenon DEF Sound, Session, Callbacks
<1>2. t \in Session
  BY <1>1, Zenon DEF Session
<1>3. /\ t.next_sender = s.next_sender /\ t.out = s.out /\ t.next_target = s.next_target
      /\ t.state = s.state /\ t.test_req_pending = s.test_req_pending
      /\ t.gap_open = s.gap_open /\ t.gap_rr_attempts = s.gap_rr_attempts
  BY <1>1, Zenon DEF Session
<1> HIDE DEF t
<1>4. GapOk(t) /\ ProbeOk(t)
  BY <1>3, Zenon DEF Sound, GapOk, ProbeOk
<1>5. Keeps(s, t)
  BY <1>2, <1>3, <1>4, SameStore, Zenon DEF Sound
<1> QED
  BY <1>5, KeepsItself, Zenon DEF notify_logout, t

\* set_next_target_seq_num changes the inbound number only.
LEMMA SetTargetKeeps ==
    ASSUME NEW s, Sound(s), NEW n \in SeqNum \ {0}, NEW f \in Faults
    PROVE  /\ Keeps(s, set_next_target_seq_num(s, n, f))
           /\ set_next_target_seq_num(s, n, f).state = s.state
<1> DEFINE t == [s EXCEPT !.next_target = n]
<1>1. s \in Session
  BY Zenon DEF Sound
<1>2. t \in Session
  BY <1>1, Zenon DEF Session
<1>3. /\ t.next_sender = s.next_sender /\ t.out = s.out /\ t.next_target = n
      /\ t.state = s.state /\ t.test_req_pending = s.test_req_pending
      /\ t.gap_open = s.gap_open /\ t.gap_rr_attempts = s.gap_rr_attempts
  BY <1>1, Zenon DEF Session
<1> HIDE DEF t
<1>4. GapOk(t) /\ ProbeOk(t)
  BY <1>3, Zenon DEF Sound, GapOk, ProbeOk
<1>5. Keeps(s, t)
  BY <1>2, <1>3, <1>4, SameStore, Zenon
<1> QED
  BY <1>3, <1>5, KeepsItself, Zenon DEF set_next_target_seq_num, t

\* advance_next_target_seq_num changes the inbound number only.
LEMMA AdvanceKeeps ==
    ASSUME NEW s, Sound(s), NEW n \in SeqNum, NEW f \in Faults
    PROVE  Keeps(s, advance_next_target_seq_num(s, n, f))
<1>1. CASE n <= s.next_target
  BY <1>1, KeepsItself, Zenon DEF advance_next_target_seq_num
<1>2. CASE ~(n <= s.next_target)
  <2>1. n # 0
    BY <1>2, SessionConstants DEF Sound, Session, SeqNum
  <2> QED
    BY <1>2, <2>1, SetTargetKeeps, Zenon DEF advance_next_target_seq_num
<1> QED
  BY <1>1, <1>2, Zenon

\* FileStore::reset: the numbering starts again with an empty history.
LEMMA StoreResetSound ==
    ASSUME NEW s, Sound(s), NEW f
    PROVE  /\ Sound(store_reset(s, f)) /\ store_reset(s, f).state = s.state
           /\ store_reset(s, f).test_req_pending = s.test_req_pending
<1> DEFINE t == store_reset(s, f)
<1>1. s \in Session /\ NoFrames \in [SeqNum -> Stored]
  BY Zenon DEF Sound, NoFrames, Stored
<1>2. ("reset" \notin f) \in BOOLEAN
  BY Zenon
<1>3. t \in Session
  BY <1>1, <1>2, Zeros, Zenon DEF store_reset, Session
<1>4. /\ t.next_sender = 1 /\ t.out = NoFrames /\ t.next_target = 1
      /\ t.state = s.state /\ t.test_req_pending = s.test_req_pending
      /\ t.gap_open = s.gap_open /\ t.gap_rr_attempts = s.gap_rr_attempts
  BY <1>1, Zenon DEF store_reset, Session
<1> HIDE DEF t
<1>5. GapOk(t) /\ ProbeOk(t)
  BY <1>4, Zenon DEF Sound, GapOk, ProbeOk
<1>6. HistoryOk(t)
  BY <1>4 DEF HistoryOk, NoFrames
<1>7. Sound(t)
  BY <1>3, <1>4, <1>5, <1>6 DEF Sound
<1> QED
  BY <1>4, <1>7, Zenon DEF t

----------------------------------------------------------------------------
(* Logon. *)

\* Entering a state that waits for the peer's Logon.
LEMMA LogonStateSound ==
    ASSUME NEW c \in Config, NEW s, Sound(s), MayLogon(c, s)
    PROVE  LET t == [s EXCEPT !.age.logon = 0, !.state = LogonState(c)]
           IN  Sound(t) /\ ~t.test_req_pending
<1> DEFINE t == [s EXCEPT !.age.logon = 0, !.state = LogonState(c)]
<1>1. s \in Session /\ s.age \in Ages /\ s.test_req_pending \in BOOLEAN
  BY Zenon DEF Sound, Session
<1>2. [s.age EXCEPT !.logon = 0] \in Ages
  BY <1>1, Zenon DEF Ages
<1>3. LogonState(c) \in {"LogonSent", "WaitingLogon"} /\ LogonState(c) \in SessionState
  BY Zenon DEF LogonState, SessionState
<1>4. t \in Session
  BY <1>1, <1>2, <1>3, Zenon DEF Session
<1>5. /\ t.next_sender = s.next_sender /\ t.out = s.out /\ t.next_target = s.next_target
      /\ t.state = LogonState(c) /\ t.test_req_pending = s.test_req_pending
      /\ t.gap_open = s.gap_open /\ t.gap_rr_attempts = s.gap_rr_attempts
  BY <1>1, Zenon DEF Session
<1> HIDE DEF t
<1>6. ~s.test_req_pending
  BY Zenon DEF Sound, ProbeOk, MayLogon, PreLogon
<1>7. GapOk(t) /\ ProbeOk(t)
  BY <1>3, <1>5, <1>6, Zenon DEF Sound, GapOk, ProbeOk
<1>8. Keeps(s, t)
  BY <1>4, <1>5, <1>7, SameStore, Zenon DEF Sound
<1> QED
  BY <1>5, <1>6, <1>8, Zenon DEF Keeps, t

\* send_logon, with and without ResetSeqNumFlag: the history follows the numbers.
LEMMA LogonSound ==
    ASSUME NEW c \in Config, NEW s, Sound(s), NEW f \in Faults
    PROVE  Sound(send_logon(c, s, f))
<1> DEFINE p == LogonPublished(c, s, f)
           u == send_message(p, LogonMsg(c, s), f)
           r == store_reset(s, f)
<1>1. CASE ~MayLogon(c, s)
  BY <1>1, Zenon DEF send_logon
<1>2. CASE MayLogon(c, s) /\ c.reset_on_logon /\ "reset" \in f
  <2>1. Sound(r) /\ r \in Session /\ r.age \in Ages
    BY StoreResetSound DEF Sound, Session
  <2> HIDE DEF r
  <2> DEFINE t == [r EXCEPT !.age.logon = 0]
  <2>2. [r.age EXCEPT !.logon = 0] \in Ages
    BY <2>1, Zenon DEF Ages
  <2>3. t \in Session
    BY <2>1, <2>2, Zenon DEF Session
  <2>4. /\ t.next_sender = r.next_sender /\ t.out = r.out /\ t.next_target = r.next_target
        /\ t.state = r.state /\ t.test_req_pending = r.test_req_pending
        /\ t.gap_open = r.gap_open /\ t.gap_rr_attempts = r.gap_rr_attempts
    BY <2>1, Zenon DEF Session
  <2> HIDE DEF t
  <2>5. GapOk(t) /\ ProbeOk(t)
    BY <2>1, <2>4, Zenon DEF Sound, GapOk, ProbeOk
  <2>6. Sound(t)
    BY <2>1, <2>3, <2>4, <2>5, SameStore, Zenon DEF Sound, Keeps
  <2> QED
    BY <1>2, <2>6, Zenon DEF send_logon, t, r
<1>3. CASE MayLogon(c, s) /\ ~(c.reset_on_logon /\ "reset" \in f)
  <2>1. Sound(p) /\ ~p.test_req_pending /\ (s.state = "Disconnected" => ~p.gap_open)
    <3> DEFINE q == [s EXCEPT !.age.logon = 0, !.state = LogonState(c)]
    <3>1. Sound(q) /\ ~q.test_req_pending
      BY <1>3, LogonStateSound, Zenon
    <3>2. q.gap_open = s.gap_open
      BY Zenon DEF Sound, Session
    <3> HIDE DEF q
    <3>3. Sound(store_reset(q, f)) /\ ~store_reset(q, f).test_req_pending
      BY <3>1, StoreResetSound
    <3>4. Sound(clear_gap(store_reset(q, f))) /\ ~clear_gap(store_reset(q, f)).test_req_pending
      BY <3>3, ClearGapKeeps, Zenon DEF Keeps
    <3>5. ~clear_gap(store_reset(q, f)).gap_open
      <4>1. store_reset(q, f) \in Session
        BY <3>3, Zenon DEF Sound
      <4> QED
        BY <4>1, Zenon DEF clear_gap, Session
    <3> QED
      BY <3>1, <3>2, <3>4, <3>5, Zenon DEF LogonPublished, Sound, GapOk, q
  <2>2. Sendable(LogonMsg(c, s))
    <3>1. s.hb \in Int64 /\ c.reset_on_logon \in BOOLEAN
      BY SessionConstants DEF Sound, Session, Config, Int32, Int64
    <3> QED
      BY <3>1, Zeros, Zenon DEF LogonMsg, Msg, Message, Sendable, MsgTypes, AdminTypes
  <2>3. Sound(u) /\ OnlySends(p, u)
    BY <2>1, <2>2, SendSound, Zenon
  <2> HIDE DEF p, u
  <2> DEFINE t == [u EXCEPT !.state = s.state]
  <2>4. u \in Session /\ s.state \in SessionState
    BY <2>3, Zenon DEF Sound, Session
  <2>5. t \in Session
    BY <2>4, Zenon DEF Session
  <2>6. /\ t.next_sender = u.next_sender /\ t.out = u.out /\ t.next_target = u.next_target
        /\ t.state = s.state /\ t.test_req_pending = u.test_req_pending
        /\ t.gap_open = u.gap_open /\ t.gap_rr_attempts = u.gap_rr_attempts
    BY <2>4, Zenon DEF Session
  <2> HIDE DEF t
  <2>7. GapOk(t) /\ ProbeOk(t)
    BY <2>1, <2>3, <2>6, Zenon DEF Sound, OnlySends, GapOk, ProbeOk
  <2>8. Sound(t)
    BY <2>3, <2>5, <2>6, <2>7, SameStore, Zenon DEF Sound, Keeps
  <2> QED
    BY <1>3, <2>3, <2>8, Zenon DEF send_logon, t, u, p
<1> QED
  BY <1>1, <1>2, <1>3, Zenon

----------------------------------------------------------------------------
(* The handlers. *)

\* handle_resend_request replays and claims no number.
LEMMA ResendRequestHandled ==
    ASSUME NEW s, Sound(s), NEW m \in Message, NEW f \in Faults
    PROVE  Keeps(s, handle_resend_request(s, m, f))
<1> DEFINE a == Calls(s, "on_resend_request")
           e == RangeEnd(s, m)
           tx == Replay(s.out, m.begin, e)
           t == [a EXCEPT !.tx = @ \cup tx, !.age.send = 0]
<1>1. Keeps(s, a) /\ a \in Session /\ Sound(a)
  BY CallsKeeps, Zenon DEF Callbacks, Keeps
<1>2. Keeps(s, send_reject(s, f)) /\ Keeps(s, send_reject(a, f))
  <2>1. Keeps(a, send_reject(a, f)) /\ Keeps(s, send_reject(s, f))
    BY <1>1, AdminKeeps, Zenon
  <2> QED
    BY <1>1, <2>1, KeepsTransitive, Zenon
<1>3. ASSUME ~(m.begin < 1), ~(m.begin > s.next_sender)
      PROVE  tx \subseteq Message
  <2>1. s.out \in [SeqNum -> Stored] /\ s.next_sender \in SeqNum \ {0}
    BY Zenon DEF Sound, Session
  <2>2. m.begin \in SeqNum
    BY <1>3, <2>1, SessionConstants DEF Message, SeqNum, Int64
  <2>3. Cast(m.end) \in SeqNum
    BY CastType, Zenon DEF Message
  <2>4. e \in Int /\ e + 1 \in SeqNum
    BY <2>1, <2>3, SessionConstants DEF RangeEnd, SeqNum
  <2> QED
    BY <2>1, <2>2, <2>4, ReplayType, Zenon
<1>4. ASSUME tx \subseteq Message
      PROVE  Keeps(s, t)
  <2> HIDE DEF a, tx
  <2>1. a.tx \cup tx \in SUBSET Message /\ [a.age EXCEPT !.send = 0] \in Ages
    BY <1>1, <1>4, Zenon DEF Session, Ages
  <2>2. t \in Session
    BY <1>1, <2>1, Zenon DEF Session
  <2>3. /\ t.next_sender = a.next_sender /\ t.out = a.out /\ t.next_target = a.next_target
        /\ t.state = a.state /\ t.test_req_pending = a.test_req_pending
        /\ t.gap_open = a.gap_open /\ t.gap_rr_attempts = a.gap_rr_attempts
    BY <1>1, Zenon DEF Session
  <2> HIDE DEF t
  <2>4. GapOk(t) /\ ProbeOk(t)
    BY <1>1, <2>3, Zenon DEF Sound, GapOk, ProbeOk
  <2>5. Keeps(a, t)
    BY <1>1, <2>2, <2>3, <2>4, SameStore, Zenon DEF Sound
  <2> QED
    BY <1>1, <2>5, KeepsTransitive, Zenon
<1> QED
  BY <1>1, <1>2, <1>3, <1>4, Zenon DEF handle_resend_request

\* The transition to Active.
LEMMA GoActiveKeeps ==
    ASSUME NEW s, Sound(s)
    PROVE  Keeps(s, GoActive(s))
<1> DEFINE t == [s EXCEPT !.state = "Active", !.logout_notified = FALSE]
<1>1. s \in Session
  BY Zenon DEF Sound
<1>2. t \in Session
  BY <1>1, Zenon DEF Session, SessionState
<1>3. /\ t.next_sender = s.next_sender /\ t.out = s.out /\ t.next_target = s.next_target
      /\ t.state = "Active" /\ t.test_req_pending = s.test_req_pending
      /\ t.gap_open = s.gap_open /\ t.gap_rr_attempts = s.gap_rr_attempts
  BY <1>1, Zenon DEF Session
<1> HIDE DEF t
<1>4. GapOk(t) /\ ProbeOk(t)
  BY <1>3, Zenon DEF Sound, GapOk, ProbeOk
<1>5. Keeps(s, t)
  BY <1>2, <1>3, <1>4, SameStore, Zenon DEF Sound
<1>6. Keeps(t, Calls(t, "on_logon"))
  BY <1>5, CallsKeeps, Zenon DEF Keeps, Callbacks
<1> QED
  BY <1>5, <1>6, KeepsTransitive, Zenon DEF GoActive, t

\* Adopting the HeartBtInt of the peer.
LEMMA AdoptKeeps ==
    ASSUME NEW s, Sound(s), NEW m \in Message
    PROVE  Keeps(s, Adopt(s, m)) /\ Adopt(s, m).state = s.state
<1> DEFINE t == Adopt(s, m)
<1>1. s \in Session /\ ToInt(m.hb) \in Int32
  BY ToIntType, Zenon DEF Sound, Message
<1>2. t \in Session
  BY <1>1, Zenon DEF Adopt, Session
<1>3. /\ t.next_sender = s.next_sender /\ t.out = s.out /\ t.next_target = s.next_target
      /\ t.state = s.state /\ t.test_req_pending = s.test_req_pending
      /\ t.gap_open = s.gap_open /\ t.gap_rr_attempts = s.gap_rr_attempts
  BY <1>1, Zenon DEF Adopt, Session
<1> HIDE DEF t
<1>4. GapOk(t) /\ ProbeOk(t)
  BY <1>3, Zenon DEF Sound, GapOk, ProbeOk
<1>5. Keeps(s, t)
  BY <1>2, <1>3, <1>4, SameStore, Zenon DEF Sound
<1> QED
  BY <1>3, <1>5, Zenon DEF t

\* A step of a live session gives no number back; any other may start again at 1.
Live(s) == s.state \in {"Active", "LogoutSent"}
Steps(s, t) == Sound(t) /\ (Live(s) => t.next_sender >= s.next_sender)

\* handle_logon: the one handler that may reset NextSender, and only before the
\* session is established.
LEMMA LogonHandled ==
    ASSUME NEW c \in Config, NEW s, Sound(s), NEW m \in Message, NEW f \in Faults
    PROVE  Steps(s, handle_logon(c, s, m, f))
<1> DEFINE a == Adopt(s, m)
           h == s.state \in {"WaitingLogon", "LogonSent"}
           x == IF m.reset /\ h THEN set_next_target_seq_num(a, 1, f) ELSE a
           b == clear_gap(x)
<1>1. Keeps(s, a)
  BY AdoptKeeps, Zenon
<1>2. Keeps(s, x)
  <2>1. Keeps(a, set_next_target_seq_num(a, 1, f))
    BY <1>1, SetTargetKeeps, Zeros DEF Keeps
  <2> QED
    BY <1>1, <2>1, KeepsTransitive, Zenon
<1> HIDE DEF x
<1>3. Keeps(s, b) /\ Sound(b)
  BY <1>2, ClearGapKeeps, KeepsTransitive, Zenon DEF Keeps
<1> HIDE DEF b
<1>4. Keeps(s, LogoutAndDrop(s, f)) /\ Keeps(s, LogoutAndDrop(b, f))
  BY <1>3, LogoutKeeps, KeepsTransitive, Zenon
<1>5. Keeps(s, GoActive(b))
  BY <1>3, GoActiveKeeps, KeepsTransitive, Zenon
<1>6. Sound(send_logon(c, b, f)) /\ Sound(GoActive(send_logon(c, b, f)))
  BY <1>3, LogonSound, GoActiveKeeps, Zenon DEF Keeps
<1>7. ASSUME NEW t, Keeps(s, t) PROVE Steps(s, t)
  BY <1>7, Zenon DEF Keeps, Steps
<1>8. CASE m.hb <= 0
  <2>1. ~(m.hb > 0)
    BY <1>8, SessionConstants DEF Message, Int64
  <2>2. handle_logon(c, s, m, f) = LogoutAndDrop(s, f)
    BY <1>8, <2>1, Zenon DEF handle_logon
  <2> QED
    BY <1>4, <1>7, <2>2, Zenon
<1>9. CASE m.hb > 0
  <2> DEFINE t == handle_logon(c, s, m, f)
  <2>1. ~(m.hb <= 0)
    BY <1>9, SessionConstants DEF Message, Int64
  <2>2. CASE s.state = "LogonSent"
    BY <1>4, <1>5, <1>7, <1>9, <2>1, <2>2, Zenon DEF handle_logon, b, x
  <2>3. CASE s.state = "WaitingLogon"
    BY <1>6, <1>9, <2>1, <2>3, Zenon DEF handle_logon, b, x, Steps, Live
  <2>4. CASE s.state = "Active"
    BY <1>4, <1>7, <1>9, <2>1, <2>4, Zenon DEF handle_logon, b, x
  <2>5. CASE s.state \notin {"LogonSent", "WaitingLogon", "Active"}
    BY <1>3, <1>7, <1>9, <2>1, <2>5, Zenon DEF handle_logon, b, x
  <2> QED
    BY <2>2, <2>3, <2>4, <2>5, Zenon
<1>10. m.hb \in Int
  BY SessionConstants DEF Message, Int64
<1> QED
  BY <1>8, <1>9, <1>10

\* handle_logout.
LEMMA LogoutHandled ==
    ASSUME NEW s, Sound(s), NEW f \in Faults
    PROVE  Keeps(s, handle_logout(s, f))
<1> DEFINE e == IF s.state = "LogoutSent" THEN s ELSE send_logout_echo(s, f)
<1>1. Keeps(s, e)
  BY KeepsItself, AdminKeeps, Zenon
<1>2. Keeps(s, disconnect(e))
  BY <1>1, DisconnectKeeps, KeepsTransitive, Zenon DEF Keeps
<1>3. Keeps(s, notify_logout(disconnect(e)))
  BY <1>2, NotifyLogoutKeeps, KeepsTransitive, Zenon DEF Keeps
<1> QED
  BY <1>3, Zenon DEF handle_logout

\* handle_reject.
LEMMA RejectHandled ==
    ASSUME NEW s, Sound(s)
    PROVE  Keeps(s, handle_reject(s))
<1>1. Keeps(s, disconnect(notify_logout(s)))
  BY NotifyLogoutKeeps, DisconnectKeeps, KeepsTransitive, Zenon DEF Keeps
<1>2. Keeps(s, Calls(s, "on_reject"))
  BY CallsKeeps, Zenon DEF Callbacks
<1> QED
  BY <1>1, <1>2, Zenon DEF handle_reject

\* handle_sequence_reset, both modes.
LEMMA SequenceResetHandled ==
    ASSUME NEW s, Sound(s), s.state # "Disconnected", NEW m \in Message, NEW f \in Faults
    PROVE  Keeps(s, handle_sequence_reset(s, m, f))
<1> DEFINE l == clear_gap(set_next_target_seq_num(s, Cast(m.new), f))
<1>1. Keeps(s, LogoutAndDrop(s, f)) /\ Keeps(s, s)
  BY LogoutKeeps, KeepsItself, Zenon
<1>2. m.new \in Int /\ Cast(m.new) \in SeqNum /\ (m.new # 0 => Cast(m.new) # 0)
  BY CastType, SessionConstants DEF Message, Int64
<1>3. s.next_target \in SeqNum /\ m.seq \in SeqNum /\ s.next_target \in Nat /\ m.seq \in Nat
  BY SessionConstants DEF Sound, Session, Message, SeqNum
<1>4. ASSUME Cast(m.new) # 0 PROVE Keeps(s, l)
  <2>1. Keeps(s, set_next_target_seq_num(s, Cast(m.new), f))
    BY <1>2, <1>4, SetTargetKeeps, Zenon
  <2> QED
    BY <2>1, ClearGapKeeps, KeepsTransitive, ZenonT(30) DEF Keeps
<1>5. Keeps(s, request_gap(s, s.next_target, f))
  BY <1>3, RequestGapKeeps, Zenon
<1> HIDE DEF l
<1>6. CASE ~m.fill
  BY <1>1, <1>2, <1>4, <1>6 DEF handle_sequence_reset, l
<1>7. CASE m.fill
  <2>1. CASE ~m.dup
    BY <1>1, <1>7, <2>1, Zenon DEF handle_sequence_reset
  <2>2. CASE m.dup /\ m.seq > s.next_target
    BY <1>3, <1>5, <1>7, <2>2 DEF handle_sequence_reset
  <2>3. CASE m.dup /\ m.seq < s.next_target
    BY <1>1, <1>3, <1>7, <2>3 DEF handle_sequence_reset
  <2>4. CASE m.dup /\ m.seq = s.next_target
    <3>1. Cast(m.new) = 0 => Cast(m.new) <= s.next_target
      BY <1>3
    <3> QED
      BY <1>1, <1>3, <1>4, <1>7, <2>4, <3>1 DEF handle_sequence_reset, l
  <2> QED
    BY <1>3, <2>1, <2>2, <2>3, <2>4
<1> QED
  BY <1>6, <1>7, Zenon

\* A call that never rewinds NextSender never rewinds it while Live.
LEMMA KeepsSteps ==
    ASSUME NEW s, NEW t, Keeps(s, t)
    PROVE  Steps(s, t)
  BY Zenon DEF Keeps, Steps

\* process_admin: one of the admin handlers.
LEMMA AdminHandled ==
    ASSUME NEW c \in Config, NEW s, Sound(s), s.state # "Disconnected",
           NEW m \in Message, m.type \in AdminTypes, NEW f \in Faults
    PROVE  Steps(s, process_admin(c, s, m, f))
<1> DEFINE t == process_admin(c, s, m, f)
<1>1. CASE m.type = "Logon"
  BY <1>1, LogonHandled, Zenon DEF process_admin
<1>2. CASE m.type = "Logout"
  BY <1>2, LogoutHandled, KeepsSteps, Zenon DEF process_admin
<1>3. CASE m.type = "Heartbeat"
  BY <1>3, KeepsItself, KeepsSteps, Zenon DEF process_admin, handle_heartbeat
<1>4. CASE m.type = "TestRequest"
  BY <1>4, AdminKeeps, KeepsSteps, Zenon DEF process_admin, handle_test_request
<1>5. CASE m.type = "ResendRequest"
  BY <1>5, ResendRequestHandled, KeepsSteps, Zenon DEF process_admin
<1>6. CASE m.type = "SequenceReset"
  BY <1>6, SequenceResetHandled, KeepsSteps, Zenon DEF process_admin
<1>7. CASE m.type = "Reject"
  BY <1>7, RejectHandled, KeepsSteps, Zenon DEF process_admin
<1> QED
  BY <1>1, <1>2, <1>3, <1>4, <1>5, <1>6, <1>7, Zenon DEF AdminTypes

\* process_message after the sequence number has been validated.
LEMMA Dispatched ==
    ASSUME NEW c \in Config, NEW s, Sound(s), s.state # "Disconnected",
           NEW m \in Message, NEW f \in Faults
    PROVE  Steps(s, Dispatch(c, s, m, f))
<1>1. Steps(s, send_reject(s, f)) /\ Steps(s, send_business_reject(s, f))
  BY AdminKeeps, KeepsSteps, Zenon
<1>2. Steps(s, Calls(s, "on_message"))
  BY CallsKeeps, KeepsSteps, Zenon DEF Callbacks
<1>3. Steps(s, process_app(c, s, m, f))
  BY <1>1, <1>2, Zenon DEF process_app
<1> QED
  BY <1>1, <1>3, AdminHandled, Zenon DEF Dispatch, is_admin_msg

\* consume_inbound after the handler.
LEMMA Consumed ==
    ASSUME NEW s, NEW t, Sound(s), Steps(s, t), NEW m \in Message, NEW v, NEW f \in Faults
    PROVE  Steps(s, consume_inbound(t, m, v, f))
<1>1. Sound(t)
  BY Zenon DEF Steps
<1>2. Keeps(t, advance_next_target_seq_num(t, Inc(m.seq), f)) /\ Keeps(t, t)
  BY <1>1, AdvanceKeeps, IncType, KeepsItself, Zenon DEF Message
<1>3. Keeps(t, consume_inbound(t, m, v, f))
  BY <1>2, Zenon DEF consume_inbound
<1>4. Live(s) => Keeps(s, t)
  BY Zenon DEF Steps, Keeps
<1>5. Live(s) => Keeps(s, consume_inbound(t, m, v, f))
  BY <1>3, <1>4, KeepsTransitive, Zenon
<1> QED
  BY <1>3, <1>5, Zenon DEF Steps, Keeps

\* Stamps and flags set before the handler do not matter to it.
LEMMA StepsFrom ==
    ASSUME NEW s, NEW a, NEW t, a.state = s.state, a.next_sender = s.next_sender, Steps(a, t)
    PROVE  Steps(s, t)
  BY Zenon DEF Steps, Live

\* validate_seq_num when the number is not the expected one.
LEMMA SeqNumRefused ==
    ASSUME NEW s, Sound(s), s.state # "Disconnected", NEW m \in Message, NEW f \in Faults,
           m.seq # s.next_target \/ m.seq = 0
    PROVE  Keeps(s, refuse_seq_num(s, m, f))
<1> DEFINE a == Calls(s, "on_sequence_gap")
<1>1. s.next_target \in SeqNum /\ m.seq \in SeqNum /\ s.next_target \in Nat /\ m.seq \in Nat
  BY SessionConstants DEF Sound, Session, Message, SeqNum
<1>2. Keeps(s, send_reject(s, f)) /\ Keeps(s, LogoutAndDrop(s, f)) /\ Keeps(s, s)
  BY AdminKeeps, LogoutKeeps, KeepsItself, Zenon
<1>3. Keeps(s, a) /\ a.state # "Disconnected"
  BY CallsKeeps, Zenon DEF Callbacks
<1>4. Keeps(s, request_gap(a, s.next_target, f))
  BY <1>1, <1>3, RequestGapKeeps, KeepsTransitive, Zenon DEF Keeps
<1>5. CASE m.seq = 0
  BY <1>1, <1>2, <1>5 DEF refuse_seq_num
<1>6. CASE m.seq > s.next_target
  BY <1>1, <1>4, <1>6 DEF refuse_seq_num
<1>7. CASE 0 < m.seq /\ m.seq < s.next_target
  BY <1>1, <1>2, <1>7 DEF refuse_seq_num
<1> QED
  BY <1>1, <1>5, <1>6, <1>7

\* process_message on any message.
LEMMA MessageProcessed ==
    ASSUME NEW c \in Config, NEW s, Sound(s), s.state # "Disconnected",
           NEW m \in Message, NEW f \in Faults
    PROVE  Steps(s, process_message(c, s, m, f))
<1> DEFINE a == [s EXCEPT !.age.recv = 0, !.test_req_pending = FALSE]
           t == process_message(c, s, m, f)
<1>1. /\ Sound(a) /\ a.state = s.state /\ a.next_sender = s.next_sender
      /\ a.next_target = s.next_target
  <2>1. s \in Session /\ s.age \in Ages
    BY Zenon DEF Sound, Session
  <2>2. [s.age EXCEPT !.recv = 0] \in Ages
    BY <2>1, Zenon DEF Ages
  <2>3. a \in Session
    BY <2>1, <2>2, Zenon DEF Session
  <2>4. /\ a.next_sender = s.next_sender /\ a.out = s.out /\ a.next_target = s.next_target
        /\ a.state = s.state /\ a.test_req_pending = FALSE
        /\ a.gap_open = s.gap_open /\ a.gap_rr_attempts = s.gap_rr_attempts
    BY <2>1, Zenon DEF Session
  <2> HIDE DEF a
  <2>5. GapOk(a) /\ ProbeOk(a)
    BY <2>4, Zenon DEF Sound, GapOk, ProbeOk
  <2>6. Keeps(s, a)
    BY <2>3, <2>4, <2>5, SameStore, Zenon DEF Sound
  <2> QED
    BY <2>4, <2>6, Zenon DEF Keeps
<1> HIDE DEF a
<1>2. Steps(a, LogoutAndDrop(a, f))
  BY <1>1, LogoutKeeps, KeepsSteps, Zenon
<1>3. Steps(a, MissingMsgType(a, m, f))
  <2> DEFINE x == IF SeqValidated(a) /\ ~m.dup /\ m.seq = a.next_target
                  THEN advance_next_target_seq_num(a, Inc(m.seq), f) ELSE a
  <2>1. Keeps(a, x)
    BY <1>1, AdvanceKeeps, IncType, KeepsItself, Zenon DEF Message
  <2> HIDE DEF x
  <2>2. Sound(x) /\ Keeps(x, send_reject(x, f))
    BY <2>1, AdminKeeps, Zenon DEF Keeps
  <2>3. Keeps(a, send_reject(x, f))
    BY <1>1, <2>1, <2>2, KeepsTransitive, Zenon
  <2> QED
    BY <2>3, KeepsSteps, Zenon DEF MissingMsgType, x
<1>4. Steps(a, handle_sequence_reset(a, m, f))
  BY <1>1, SequenceResetHandled, KeepsSteps, Zenon
<1>5. Steps(a, consume_inbound(Dispatch(c, a, m, f), m, FALSE, f))
  BY <1>1, Dispatched, Consumed, Zenon
<1>6. ASSUME m.seq # s.next_target \/ m.seq = 0
      PROVE  Steps(a, refuse_seq_num(a, m, f))
  BY <1>1, <1>6, SeqNumRefused, KeepsSteps, Zenon
<1>7. Steps(a, consume_inbound(Dispatch(c, clear_gap(a), m, f), m, TRUE, f))
  <2> DEFINE g == clear_gap(a)
  <2>1. Sound(g) /\ g.state = a.state /\ g.next_sender >= a.next_sender /\ Keeps(a, g)
    BY <1>1, ClearGapKeeps, Zenon DEF Keeps
  <2>2. g.next_sender = a.next_sender
    BY <1>1, Zenon DEF clear_gap, Sound, Session
  <2> HIDE DEF g
  <2>3. Steps(g, consume_inbound(Dispatch(c, g, m, f), m, TRUE, f))
    BY <1>1, <2>1, Dispatched, Consumed, Zenon
  <2> QED
    BY <2>1, <2>2, <2>3, StepsFrom, Zenon DEF g
<1>8. Steps(a, t)
  <2>1. CASE m.type = "BadIdentity"
    BY <1>2, <2>1, Zenon DEF process_message, a
  <2>2. CASE m.type = "NoType"
    BY <1>3, <2>2, Zenon DEF process_message, a
  <2>3. CASE m.type = "SequenceReset"
    BY <1>4, <2>3, Zenon DEF process_message, a
  <2>4. CASE m.type \notin {"BadIdentity", "NoType", "SequenceReset"}
    BY <1>5, <1>6, <1>7, <2>4, Zenon DEF process_message, a
  <2> QED
    BY <2>1, <2>2, <2>3, <2>4, Zenon
<1> QED
  BY <1>1, <1>8, StepsFrom, Zenon

----------------------------------------------------------------------------
(* The timer. *)

\* The heartbeat deadline of on_timer.
LEMMA HeartbeatKeeps ==
    ASSUME NEW s, Sound(s), NEW due, NEW f \in Faults
    PROVE  Keeps(s, HeartbeatTick(s, due, f)) /\ HeartbeatTick(s, due, f).state = s.state
  BY AdminKeeps, KeepsItself, Zenon DEF HeartbeatTick

\* The TestRequest deadline of on_timer.
LEMMA ProbeKeeps ==
    ASSUME NEW s, Sound(s), s.state = "Active", NEW due, NEW f \in Faults
    PROVE  Keeps(s, ProbeTick(s, due, f))
<1> DEFINE t == [s EXCEPT !.age.probe = 0, !.test_req_pending = TRUE]
<1>1. Keeps(s, t)
  <2>1. s \in Session /\ s.age \in Ages
    BY Zenon DEF Sound, Session
  <2>2. [s.age EXCEPT !.probe = 0] \in Ages
    BY <2>1, Zenon DEF Ages
  <2>3. t \in Session
    BY <2>1, <2>2, Zenon DEF Session
  <2>4. /\ t.next_sender = s.next_sender /\ t.out = s.out /\ t.next_target = s.next_target
        /\ t.state = s.state
        /\ t.gap_open = s.gap_open /\ t.gap_rr_attempts = s.gap_rr_attempts
    BY <2>1, Zenon DEF Session
  <2> HIDE DEF t
  <2>5. GapOk(t) /\ ProbeOk(t)
    BY <2>4, Zenon DEF Sound, GapOk, ProbeOk
  <2> QED
    BY <2>3, <2>4, <2>5, SameStore, Zenon DEF Sound
<1> HIDE DEF t
<1>2. Keeps(t, send_message(t, Msg("TestRequest"), f))
  BY <1>1, SendKeeps, AdminSendable, Zenon DEF Keeps, AdminTypes
<1>3. Keeps(s, send_test_request(s, f))
  BY <1>1, <1>2, KeepsTransitive, Zenon DEF send_test_request, t
<1>4. Keeps(s, disconnect(Calls(s, "on_heartbeat_timeout")))
  BY CallsKeeps, DisconnectKeeps, KeepsTransitive, Zenon DEF Callbacks, Keeps
<1> QED
  BY <1>3, <1>4, KeepsItself, Zenon DEF ProbeTick

\* The gap deadline of on_timer: one attempt more, or the end of the connection.
LEMMA GapTickKeeps ==
    ASSUME NEW s, Sound(s), NEW due, NEW f \in Faults
    PROVE  Keeps(s, GapTick(s, due, f))
<1> DEFINE t == [s EXCEPT !.gap_rr_attempts = @ + 1, !.age.rr = 0]
<1>1. Keeps(s, s) /\ Keeps(s, disconnect(s))
  BY KeepsItself, DisconnectKeeps, Zenon
<1>2. ASSUME s.gap_open, ~(s.gap_rr_attempts + 1 > kMaxGapRetries)
      PROVE  Keeps(s, send_resend_request(t, s.next_target, f))
  <2>1. s \in Session /\ s.age \in Ages /\ s.next_target \in SeqNum
        /\ s.gap_rr_attempts \in 0 .. kMaxGapRetries
    BY Zenon DEF Sound, Session
  <2>2. [s.age EXCEPT !.rr = 0] \in Ages
    BY <2>1, Zenon DEF Ages
  <2>3. s.gap_rr_attempts + 1 \in 0 .. kMaxGapRetries /\ s.gap_rr_attempts + 1 >= 1
    BY <1>2, <2>1, SessionConstants
  <2>4. t \in Session
    BY <2>1, <2>2, <2>3, Zenon DEF Session
  <2>5. /\ t.next_sender = s.next_sender /\ t.out = s.out /\ t.next_target = s.next_target
        /\ t.state = s.state /\ t.test_req_pending = s.test_req_pending
        /\ t.gap_open = s.gap_open /\ t.gap_rr_attempts = s.gap_rr_attempts + 1
    BY <2>1, Zenon DEF Session
  <2> HIDE DEF t
  <2>6. GapOk(t) /\ ProbeOk(t)
    BY <1>2, <2>3, <2>5, Zenon DEF Sound, GapOk, ProbeOk
  <2>7. Keeps(s, t)
    BY <2>4, <2>5, <2>6, SameStore, Zenon DEF Sound
  <2> QED
    BY <2>1, <2>7, ResendRequestKeeps, KeepsTransitive, Zenon DEF Keeps
<1> QED
  BY <1>1, <1>2, Zenon DEF GapTick

\* on_timer on any set of deadlines.
LEMMA TimerKeeps ==
    ASSUME NEW s, Sound(s), NEW due, NEW f \in Faults
    PROVE  Keeps(s, on_timer(s, due, f))
<1> DEFINE h == HeartbeatTick(s, due, f)
<1>1. Keeps(s, s) /\ Keeps(s, disconnect(s)) /\ Keeps(s, h) /\ h.state = s.state
  BY KeepsItself, DisconnectKeeps, HeartbeatKeeps, Zenon
<1>2. Keeps(s, disconnect(notify_logout(s)))
  BY NotifyLogoutKeeps, DisconnectKeeps, KeepsTransitive, Zenon DEF Keeps
<1>3. CASE s.state = "Active"
  <2> HIDE DEF h
  <2>1. Keeps(s, ProbeTick(h, due, f))
    BY <1>1, <1>3, ProbeKeeps, KeepsTransitive, Zenon DEF Keeps
  <2>2. Keeps(s, GapTick(ProbeTick(h, due, f), due, f))
    BY <2>1, GapTickKeeps, KeepsTransitive, Zenon DEF Keeps
  <2> QED
    BY <1>3, <2>2, Zenon DEF on_timer, h
<1>4. CASE s.state = "LogonSent"
  BY <1>1, <1>4, Zenon DEF on_timer
<1>5. CASE s.state = "LogoutSent"
  BY <1>1, <1>2, <1>5, Zenon DEF on_timer
<1>6. CASE s.state \notin {"Active", "LogonSent", "LogoutSent"}
  BY <1>1, <1>6, Zenon DEF on_timer
<1> QED
  BY <1>3, <1>4, <1>5, <1>6, Zenon

----------------------------------------------------------------------------
(* The public operations. *)

\* A session at the start of an operation, on whichever link.
LEMMA BeginSound ==
    ASSUME NEW s, Sound(s), NEW l \in {"down", "up", "closing"}
    PROVE  /\ Sound(Begin(s)) /\ Begin(s).state = s.state
           /\ Begin(s).next_sender = s.next_sender /\ Begin(s).link = s.link
           /\ Sound([Begin(s) EXCEPT !.link = l])
           /\ [Begin(s) EXCEPT !.link = l].next_sender = s.next_sender
<1>1. s \in Session
  BY Zenon DEF Sound
<1>2. ASSUME NEW t, t = Begin(s) \/ t = [Begin(s) EXCEPT !.link = l]
      PROVE  Sound(t) /\ t.state = s.state /\ t.next_sender = s.next_sender
  <2>1. t \in Session
    BY <1>1, <1>2, ZenonT(30) DEF Begin, Session
  <2>2. /\ t.next_sender = s.next_sender /\ t.out = s.out /\ t.next_target = s.next_target
        /\ t.state = s.state /\ t.test_req_pending = s.test_req_pending
        /\ t.gap_open = s.gap_open /\ t.gap_rr_attempts = s.gap_rr_attempts
    BY <1>1, <1>2, Zenon DEF Begin, Session
  <2>3. GapOk(t) /\ ProbeOk(t)
    BY <2>2, Zenon DEF Sound, GapOk, ProbeOk
  <2>4. Keeps(s, t)
    BY <2>1, <2>2, <2>3, SameStore, Zenon DEF Sound
  <2> QED
    BY <2>2, <2>4, Zenon DEF Keeps
<1>3. Begin(s).link = s.link
  BY <1>1, Zenon DEF Begin, Session
<1> QED
  BY <1>2, <1>3, Zenon

\* on_transport_connected: a new connection starts without gap or probe.
LEMMA ConnectedSound ==
    ASSUME NEW c \in Config, NEW s, Sound(s), NEW f \in Faults
    PROVE  Sound(on_transport_connected(c, s, f))
<1> DEFINE g == clear_gap(s)
           x == [g EXCEPT !.test_req_pending = FALSE, !.logout_notified = FALSE,
                          !.age.send = 0, !.age.recv = 0, !.age.logon = 0, !.age.logout = 0]
           w == [x EXCEPT !.state = "WaitingLogon"]
           i == [x EXCEPT !.state = IF @ \in PreLogon THEN @ ELSE "Disconnected"]
<1>1. Sound(g) /\ g \in Session /\ g.age \in Ages
  BY ClearGapKeeps, ZenonT(30) DEF Keeps, Sound, Session
<1>2. ~g.gap_open
  BY Zenon DEF Sound, Session, clear_gap
<1> HIDE DEF g
<1>3. [g.age EXCEPT !.send = 0, !.recv = 0, !.logon = 0, !.logout = 0] \in Ages
  BY <1>1, Zenon DEF Ages
<1>4. x = [g EXCEPT !.test_req_pending = FALSE, !.logout_notified = FALSE,
                    !.age = [g.age EXCEPT !.send = 0, !.recv = 0, !.logon = 0, !.logout = 0]]
  BY <1>1, Zenon DEF Session, Ages
<1>5. x \in Session
  BY <1>1, <1>3, <1>4, Zenon DEF Session
<1>6. /\ x.next_sender = g.next_sender /\ x.out = g.out /\ x.next_target = g.next_target
      /\ ~x.test_req_pending /\ ~x.gap_open /\ x.gap_rr_attempts = g.gap_rr_attempts
  BY <1>1, <1>2, <1>4, ZenonT(30) DEF Session
<1> HIDE DEF x
<1>7. ASSUME NEW t, t = w \/ t = i
      PROVE  Sound(t)
  <2>1. t \in Session
    BY <1>5, <1>7 DEF Session, SessionState
  <2>2. /\ t.next_sender = g.next_sender /\ t.out = g.out /\ t.next_target = g.next_target
        /\ ~t.test_req_pending /\ ~t.gap_open /\ t.gap_rr_attempts = g.gap_rr_attempts
    BY <1>5, <1>6, <1>7, Zenon DEF Session
  <2>3. GapOk(t) /\ ProbeOk(t)
    BY <1>1, <1>2, <2>2, Zenon DEF Sound, GapOk, ProbeOk
  <2> QED
    BY <1>1, <2>1, <2>2, <2>3, SameStore, Zenon DEF Sound, Keeps
<1>8. Sound(logon(c, i, f)) /\ Sound(w)
  BY <1>7, LogonSound, Zenon DEF logon
<1> QED
  BY <1>8, Zenon DEF on_transport_connected, x, g

\* Session::reset, which refuses while the session is live.
LEMMA ResetSteps ==
    ASSUME NEW s, Sound(s), NEW f \in Faults
    PROVE  Steps(s, reset(s, f))
<1>1. CASE s.state \in {"Active", "LogonSent", "LogoutSent"}
  BY <1>1, KeepsItself, KeepsSteps, Zenon DEF reset
<1>2. CASE s.state \notin {"Active", "LogonSent", "LogoutSent"}
  <2> DEFINE t == [s EXCEPT !.state = "NotConnected", !.test_req_pending = FALSE,
                            !.logout_notified = FALSE]
  <2>1. s \in Session
    BY Zenon DEF Sound
  <2>2. t \in Session
    BY <2>1, Zenon DEF Session, SessionState
  <2>3. /\ t.next_sender = s.next_sender /\ t.out = s.out /\ t.next_target = s.next_target
        /\ t.state = "NotConnected" /\ ~t.test_req_pending
        /\ t.gap_open = s.gap_open /\ t.gap_rr_attempts = s.gap_rr_attempts
    BY <2>1, Zenon DEF Session
  <2> HIDE DEF t
  <2>4. GapOk(t) /\ ProbeOk(t)
    BY <2>3, Zenon DEF Sound, GapOk, ProbeOk
  <2>5. Sound(t)
    BY <2>2, <2>3, <2>4, SameStore, Zenon DEF Sound, Keeps
  <2>6. Sound(store_reset(clear_gap(t), f))
    BY <2>5, ClearGapKeeps, StoreResetSound, Zenon DEF Keeps
  <2> QED
    BY <1>2, <2>6, Zenon DEF reset, t, Steps, Live
<1> QED
  BY <1>1, <1>2, Zenon

\* What the application sends is not mistaken for a session message.
LEMMA AppSendable ==
    ASSUME NEW b \in Bodies
    PROVE  Sendable(AppMsg(b))
<1>1. b # "none"
  BY SessionConstants, Zenon
<1> QED
  BY <1>1, Zeros, Zenon DEF AppMsg, Msg, Message, Sendable, MsgTypes, AdminTypes

----------------------------------------------------------------------------
(* The specification. *)

IInv == cfg \in Configs /\ Sound(ses) /\ shook \subseteq {"ours", "theirs"}

\* A session is constructed sound.
LEMMA InitHolds == Init => IInv
<1> SUFFICES ASSUME Init PROVE IInv
  BY Zenon
<1>1. cfg \in Configs /\ cfg \in Config /\ ses = NewSession(cfg)
  BY SessionInputs, Zenon DEF Init
<1>2. (IF cfg.hb < 1 THEN 1 ELSE cfg.hb) \in Int32
  BY <1>1, Zeros, Zenon DEF Config
<1>3. [send |-> 0, recv |-> 0, probe |-> 0, rr |-> 0, logon |-> 0, logout |-> 0] \in Ages
  BY Zenon DEF Ages
<1>4. NoFrames \in [SeqNum -> Stored]
  BY Zenon DEF NoFrames, Stored
<1>5. ses \in Session
  BY <1>1, <1>2, <1>3, <1>4, Zeros, Zenon DEF NewSession, Session, SessionState
<1>6. /\ ses.next_sender = 1 /\ ses.next_target = 1 /\ ses.out = NoFrames
      /\ ~ses.gap_open /\ ses.gap_rr_attempts = 0 /\ ~ses.test_req_pending
  BY <1>1, Zenon DEF NewSession
<1>7. HistoryOk(ses)
  BY <1>6 DEF HistoryOk, NoFrames
<1>8. Sound(ses)
  BY <1>5, <1>6, <1>7 DEF Sound, GapOk, ProbeOk
<1> QED
  BY <1>1, <1>8, Zenon DEF IInv, Init

\* What one step does to the session.
LEMMA SessionStep ==
    ASSUME IInv, Next
    PROVE  /\ Sound(ses')
           /\ (Live(ses) /\ ses.link # "down") => ses'.next_sender >= ses.next_sender
<1> DEFINE b == Begin(ses)
<1>1. Sound(ses) /\ cfg \in Config /\ ses.link \in {"down", "up", "closing"}
  BY SessionInputs, Zenon DEF IInv, Sound, Session
<1>2. Sound(b) /\ b.state = ses.state /\ b.next_sender = ses.next_sender
  BY <1>1, BeginSound, Zenon
<1> HIDE DEF b
<1>3. ASSUME NEW t, Steps(b, t), ses' = t
      PROVE  Sound(ses') /\ (Live(ses) => ses'.next_sender >= ses.next_sender)
  BY <1>2, <1>3, Zenon DEF Steps, Live
<1>4. CASE TransportConnected
  <2>1. PICK f \in Faults :
            /\ ses' = on_transport_connected(cfg, [b EXCEPT !.link = "up"], f)
            /\ ses.link = "down"
    BY <1>4, Zenon DEF TransportConnected, b
  <2>2. Sound([b EXCEPT !.link = "up"])
    BY <1>1, BeginSound, Zenon DEF b
  <2> QED
    BY <1>1, <2>1, <2>2, ConnectedSound, Zenon
<1>5. CASE TransportDisconnected
  <2> DEFINE d == [b EXCEPT !.link = "down"]
  <2>1. Sound(d) /\ d.next_sender = ses.next_sender
    BY <1>1, BeginSound, Zenon DEF b
  <2>2. ses' = disconnect(d)
    BY <1>5, Zenon DEF TransportDisconnected, Does, b
  <2> HIDE DEF d
  <2> QED
    BY <2>1, <2>2, DisconnectKeeps, Zenon DEF Keeps
<1>6. ASSUME NEW m \in Inbound, NEW f \in Faults, Receive(m, f)
      PROVE  Sound(ses') /\ (Live(ses) => ses'.next_sender >= ses.next_sender)
  <2>1. m \in Message
    BY SessionInputs, Zenon
  <2>2. ses' = on_data(cfg, b, m, f)
    BY <1>6, Zenon DEF Receive, b
  <2>3. Steps(b, on_data(cfg, b, m, f))
    BY <1>1, <1>2, <2>1, MessageProcessed, KeepsItself, KeepsSteps, Zenon DEF on_data
  <2> QED
    BY <1>3, <2>2, <2>3, Zenon
<1>7. CASE ParserUnhealthy \/ Disconnect
  <2>1. ses' = disconnect(b)
    BY <1>7, Zenon DEF ParserUnhealthy, Disconnect, Does, b
  <2> QED
    BY <1>2, <1>3, <2>1, DisconnectKeeps, KeepsSteps, Zenon
<1>8. ASSUME NEW x \in Bodies, Send(x)
      PROVE  Sound(ses') /\ (Live(ses) => ses'.next_sender >= ses.next_sender)
  <2>1. PICK f \in Faults : ses' = send(b, AppMsg(x), f)
    BY <1>8, Zenon DEF Send, Does, b
  <2>2. Steps(b, send(b, AppMsg(x), f))
    BY <1>2, AppSendable, SendKeeps, KeepsItself, KeepsSteps, Zenon DEF send
  <2> QED
    BY <1>3, <2>1, <2>2, Zenon
<1>9. CASE Logon
  <2>1. PICK f \in Faults : ses' = logon(cfg, b, f)
    BY <1>9, Zenon DEF Logon, Does, b
  <2>2. Steps(b, logon(cfg, b, f))
    BY <1>1, <1>2, LogonSound, KeepsItself, KeepsSteps, Zenon DEF logon, Steps, Live, PreLogon
  <2> QED
    BY <1>3, <2>1, <2>2, Zenon
<1>10. CASE Logout
  <2>1. PICK f \in Faults : ses' = logout(b, f)
    BY <1>10, Zenon DEF Logout, Does, b
  <2>2. Steps(b, logout(b, f))
    BY <1>2, LogoutKeeps, KeepsItself, KeepsSteps, Zenon DEF logout
  <2> QED
    BY <1>3, <2>1, <2>2, Zenon
<1>11. CASE Reset
  <2>1. PICK f \in Faults : ses' = reset(b, f)
    BY <1>11, Zenon DEF Reset, Does, b
  <2> QED
    BY <1>2, <1>3, <2>1, ResetSteps, Zenon
<1>12. CASE OnTimer
  <2>1. PICK due \in DueSets, f \in Faults : ses' = on_timer(b, due, f)
    BY <1>12, Zenon DEF OnTimer, Does, b
  <2> QED
    BY <1>2, <1>3, <2>1, TimerKeeps, KeepsSteps, Zenon
<1> QED
  BY <1>4, <1>5, <1>6, <1>7, <1>8, <1>9, <1>10, <1>11, <1>12, Zenon DEF Next

\* Every operation of the session keeps the invariant.
LEMMA StepHolds == IInv /\ [Next]_vars => IInv'
<1> SUFFICES ASSUME IInv, [Next]_vars PROVE IInv'
  BY Zenon
<1>1. CASE Next
  <2>1. Sound(ses')
    BY <1>1, SessionStep, Zenon
  <2>2. cfg' = cfg /\ shook' \subseteq {"ours", "theirs"}
    BY <1>1, Zenon DEF IInv, Next, TransportConnected, TransportDisconnected, Receive, ParserUnhealthy,
                Send, Logon, Logout, Disconnect, Reset, OnTimer, Does, OurLogon
  <2> QED
    BY <2>1, <2>2, Zenon DEF IInv
<1>2. CASE UNCHANGED vars
  BY <1>2, Zenon DEF vars, IInv
<1> QED
  BY <1>1, <1>2, Zenon

\* Every operation keeps every field of the session within its type, and neither
\* counter ever becomes 0, not even by the wrapping increment of consume_inbound.
THEOREM TypeCorrect == Spec => []TypeOK
<1>1. IInv => TypeOK
  BY Zenon DEF IInv, TypeOK, Sound
<1> QED
  BY <1>1, InitHolds, StepHolds, PTL DEF Spec

\* On every path the retry budget stays within its bounds, and neither a gap nor
\* a pending TestRequest is carried into the next connection.
THEOREM GapAndProbeKept == Spec => []GapAndProbeFresh
<1>1. IInv => GapAndProbeFresh
  <2> SUFFICES ASSUME IInv PROVE GapAndProbeFresh
    BY Zenon
  <2>1. /\ ses.gap_open => ses.gap_rr_attempts \in 1 .. kMaxGapRetries
        /\ ~ses.gap_open => ses.gap_rr_attempts = 0
        /\ ses.state = "Disconnected" => ~ses.gap_open
    BY SessionConstants DEF IInv, Sound, GapOk, Session
  <2>2. ses.test_req_pending => ses.state \in {"Active", "LogoutSent"}
    BY Zenon DEF IInv, Sound, ProbeOk
  <2> QED
    BY <2>1, <2>2, Zenon DEF GapAndProbeFresh
<1> QED
  BY <1>1, InitHolds, StepHolds, PTL DEF Spec

\* The outbound history agrees with NextSender whatever the store fails to do:
\* nothing is stored at or above it, and nothing is missing below it unless a
\* claim could not be given back.
THEOREM HistoryKept == Spec => []HistoryMatchesNumbers
<1>1. IInv => HistoryMatchesNumbers
  BY Zenon DEF IInv, HistoryMatchesNumbers, Sound, HistoryOk, NoRollback
<1> QED
  BY <1>1, InitHolds, StepHolds, PTL DEF Spec

\* No peer, application call or failure makes a live session reuse a number it
\* has claimed on the connection.
THEOREM NumberingNeverRewinds == Spec => LiveNumberingNeverRewinds
<1>1. IInv /\ [Next]_vars =>
      [ses.state \in {"Active", "LogoutSent"} /\ ses.link # "down"
          => ses'.next_sender >= ses.next_sender]_vars
  BY SessionStep, Zenon DEF Live
<1> QED
  BY <1>1, InitHolds, StepHolds, PTL DEF Spec, LiveNumberingNeverRewinds

----------------------------------------------------------------------------
(* What sending adds to a session.  Steady: the frames since s are fresh, each *)
(* stored under its number, the history before them is as it was, the expected *)
(* number has not moved back, and no session has been established.             *)

\* t is s after sends, advances of NextTarget and callbacks other than on_message;
\* it is in a handshake or Active only if s was, over the same connection.
Steady(s, t) ==
    /\ s.tx \subseteq t.tx
    /\ \A m \in t.tx \ s.tx : /\ ~m.dup /\ s.next_sender <= m.seq /\ m.seq < t.next_sender
                              /\ t.out[m.seq] = StoredAs(m)
    /\ \A n \in SeqNum : n < s.next_sender => t.out[n] = s.out[n]
    /\ t.next_target >= s.next_target
    /\ "on_message" \in t.cb => "on_message" \in s.cb
    /\ t.state \in {"LogonSent", "Active"} =>
           t.state = s.state /\ t.link = s.link /\ t.logout_notified = s.logout_notified

\* The numbers of a session are naturals, and its frames carry such numbers.
LEMMA SessionNumbers ==
    ASSUME NEW s, Sound(s)
    PROVE  /\ s.next_sender \in Nat /\ s.next_target \in Nat
           /\ \A m \in s.tx : m.seq \in Nat /\ m.seq \in SeqNum
  BY SessionConstants DEF Sound, Session, SeqNum, Message

\* Two steady steps in a row are one.
LEMMA SteadyTransitive ==
    ASSUME NEW s, NEW t, NEW u, Sound(s), Keeps(s, t), Keeps(t, u), Steady(s, t), Steady(t, u)
    PROVE  Steady(s, u)
<1>1. /\ s.next_sender \in Nat /\ t.next_sender \in Nat /\ u.next_sender \in Nat
      /\ s.next_target \in Nat /\ t.next_target \in Nat /\ u.next_target \in Nat
      /\ s.next_sender <= t.next_sender /\ t.next_sender <= u.next_sender
      /\ \A m \in u.tx : m.seq \in Nat /\ m.seq \in SeqNum
  BY SessionNumbers, Zenon DEF Keeps
<1>2. s.tx \subseteq u.tx
  BY Zenon DEF Steady
<1>3. ASSUME NEW m \in u.tx \ s.tx
      PROVE  /\ ~m.dup /\ s.next_sender <= m.seq /\ m.seq < u.next_sender
             /\ u.out[m.seq] = StoredAs(m)
  <2>1. CASE m \in t.tx
    <3>1. ~m.dup /\ s.next_sender <= m.seq /\ m.seq < t.next_sender /\ t.out[m.seq] = StoredAs(m)
      BY <1>3, <2>1, Zenon DEF Steady
    <3>2. u.out[m.seq] = t.out[m.seq]
      BY <1>1, <3>1, Zenon DEF Steady
    <3> QED
      BY <1>1, <3>1, <3>2
  <2>2. CASE m \notin t.tx
    BY <1>1, <1>3, <2>2 DEF Steady
  <2> QED
    BY <2>1, <2>2, Zenon
<1>4. \A n \in SeqNum : n < s.next_sender => u.out[n] = s.out[n]
  BY <1>1, SessionConstants DEF Steady, SeqNum
<1>5. u.next_target >= s.next_target
  BY <1>1 DEF Steady
<1>6. /\ "on_message" \in u.cb => "on_message" \in s.cb
      /\ u.state \in {"LogonSent", "Active"} =>
             u.state = s.state /\ u.link = s.link /\ u.logout_notified = s.logout_notified
  BY Zenon DEF Steady
<1> QED
  BY <1>2, <1>3, <1>4, <1>5, <1>6, Zenon DEF Steady

\* A step that sends nothing and changes no history is steady.
LEMMA SteadySilent ==
    ASSUME NEW s, NEW t, Sound(s), Keeps(s, t), t.tx = s.tx, t.out = s.out,
           t.next_target >= s.next_target, "on_message" \in t.cb => "on_message" \in s.cb,
           t.state \in {"LogonSent", "Active"} =>
               t.state = s.state /\ t.link = s.link /\ t.logout_notified = s.logout_notified
    PROVE  Steady(s, t)
  BY Zenon DEF Steady

\* So is no step.
LEMMA SteadyItself ==
    ASSUME NEW s, Sound(s)
    PROVE  Steady(s, s)
<1>1. s.next_target >= s.next_target
  BY SessionNumbers
<1> QED
  BY <1>1, SteadySilent, KeepsItself, Zenon

\* send_message_locked is steady whichever of its calls fails: the frame it emits is
\* the one it has stored under the number it has claimed.
LEMMA SendSteady ==
    ASSUME NEW s, Sound(s), NEW m, Sendable(m), NEW f \in Faults
    PROVE  /\ Steady(s, send_message(s, m, f))
           /\ SendOk(s, f) => \E x \in send_message(s, m, f).tx : x.type = m.type
<1> DEFINE t == send_message(s, m, f)
<1> HIDE DEF t
<1>1. /\ s \in Session /\ s.next_sender \in SeqNum /\ s.out \in [SeqNum -> Stored]
      /\ s.next_sender \in Nat /\ s.next_target \in Nat
  BY SessionNumbers, Zenon DEF Sound, Session
<1>2. Keeps(s, t)
  BY SendKeeps, Zenon DEF t
<1>3. CASE ~SendOk(s, f)
  <2>1. /\ t.tx = s.tx /\ t.out = s.out /\ t.cb = s.cb /\ t.state = s.state /\ t.link = s.link
        /\ t.next_target = s.next_target /\ t.logout_notified = s.logout_notified
    BY <1>1, <1>3, Zenon DEF send_message, SendOk, Session, t
  <2> QED
    <3>1. t.next_target >= s.next_target
      BY <1>1, <2>1
    <3> QED
      BY <1>2, <1>3, <2>1, <3>1, SteadySilent, Zenon DEF t
<1>4. CASE SendOk(s, f)
  <2> DEFINE x == [m EXCEPT !.seq = s.next_sender]
  <2>1. t = [s EXCEPT !.next_sender = @ + 1, !.out[s.next_sender] = StoredAs(m),
                      !.tx = @ \cup {x}, !.age.send = 0]
    BY <1>4, Zenon DEF send_message, SendOk, t
  <2>2. ~x.dup /\ x.seq = s.next_sender /\ x.type = m.type /\ StoredAs(x) = StoredAs(m)
    BY Zenon DEF Sendable, Message, StoredAs
  <2> HIDE DEF x
  <2>3. /\ t.tx = s.tx \cup {x} /\ t.out = [s.out EXCEPT ![s.next_sender] = StoredAs(m)]
        /\ t.next_sender = s.next_sender + 1
        /\ t.cb = s.cb /\ t.state = s.state /\ t.link = s.link
        /\ t.next_target = s.next_target /\ t.logout_notified = s.logout_notified
    BY <1>1, <2>1, Zenon DEF Session
  <2>4. \A n \in SeqNum : n < s.next_sender => t.out[n] = s.out[n]
    BY <1>1, <2>3
  <2>5. \A y \in t.tx \ s.tx : /\ ~y.dup /\ s.next_sender <= y.seq /\ y.seq < t.next_sender
                               /\ t.out[y.seq] = StoredAs(y)
    BY <1>1, <2>2, <2>3
  <2>6. Steady(s, t)
    BY <1>1, <2>3, <2>4, <2>5 DEF Steady
  <2> QED
    BY <2>2, <2>3, <2>6, Zenon DEF t
<1> QED
  BY <1>3, <1>4, Zenon

\* Steady, and sound.
Goes(s, t) == Keeps(s, t) /\ Steady(s, t)

\* Two such steps in a row are one.
LEMMA GoesOn ==
    ASSUME NEW s, NEW t, NEW u, Sound(s), Goes(s, t), Goes(t, u)
    PROVE  Goes(s, u)
  BY KeepsTransitive, SteadyTransitive, Zenon DEF Goes

\* So is no step.
LEMMA GoesItself ==
    ASSUME NEW s, Sound(s)
    PROVE  Goes(s, s)
  BY KeepsItself, SteadyItself, Zenon DEF Goes

\* send_message_locked.
LEMMA SendGoes ==
    ASSUME NEW s, Sound(s), NEW m, Sendable(m), NEW f \in Faults
    PROVE  Goes(s, send_message(s, m, f))
  BY SendKeeps, SendSteady, Zenon DEF Goes

\* The admin frames that send_heartbeat, send_reject, send_business_reject and the
\* echo of a Logout send.
LEMMA AdminGoes ==
    ASSUME NEW s, Sound(s), NEW f \in Faults
    PROVE  /\ Goes(s, send_heartbeat(s, f)) /\ Goes(s, send_reject(s, f))
           /\ Goes(s, send_business_reject(s, f)) /\ Goes(s, send_logout_echo(s, f))
<1>1. \A t \in AdminTypes \cup {"BusinessReject"} : Sendable(Msg(t))
  BY AdminSendable, Zenon
<1> QED
  BY <1>1, SendGoes, Zenon DEF send_heartbeat, send_reject, send_business_reject, send_logout_echo,
                        AdminTypes

\* clear_gap.
LEMMA ClearGapGoes ==
    ASSUME NEW s, Sound(s)
    PROVE  /\ Goes(s, clear_gap(s))
           /\ clear_gap(s).tx = s.tx /\ clear_gap(s).out = s.out /\ clear_gap(s).cb = s.cb
           /\ clear_gap(s).next_sender = s.next_sender /\ clear_gap(s).next_target = s.next_target
           /\ clear_gap(s).link = s.link /\ clear_gap(s).state = s.state
           /\ clear_gap(s).logout_notified = s.logout_notified
<1> DEFINE t == clear_gap(s)
<1>1. s \in Session /\ s.next_target \in Nat /\ Keeps(s, t)
  BY SessionNumbers, ClearGapKeeps, Zenon DEF Sound
<1>2. /\ t.tx = s.tx /\ t.out = s.out /\ t.cb = s.cb /\ t.next_sender = s.next_sender
      /\ t.next_target = s.next_target /\ t.link = s.link /\ t.state = s.state
      /\ t.logout_notified = s.logout_notified
  BY <1>1, Zenon DEF clear_gap, Session
<1> HIDE DEF t
<1>3. Steady(s, t)
  BY <1>1, <1>2, SteadySilent
<1> QED
  BY <1>1, <1>2, <1>3, Zenon DEF Goes, t

\* send_resend_request.
LEMMA ResendRequestGoes ==
    ASSUME NEW s, Sound(s), NEW begin \in SeqNum, NEW f \in Faults
    PROVE  Goes(s, send_resend_request(s, begin, f))
<1> DEFINE m == [Msg("ResendRequest") EXCEPT !.begin = Signed(begin)]
<1>1. m \in Message /\ m.type = "ResendRequest" /\ ~m.dup
  BY SignedType, Zeros, Zenon DEF Msg, Message, MsgTypes, AdminTypes
<1>2. Sendable(m)
  BY <1>1, Zenon DEF Sendable, AdminTypes
<1> QED
  BY <1>2, SendGoes, Zenon DEF send_resend_request

\* request_gap, which records the gap and asks for it once.
LEMMA RequestGapGoes ==
    ASSUME NEW s, Sound(s), s.state # "Disconnected", NEW begin \in SeqNum, NEW f \in Faults
    PROVE  Goes(s, request_gap(s, begin, f))
<1> DEFINE t == [s EXCEPT !.gap_rr_attempts = 1, !.age.rr = 0, !.gap_open = TRUE]
<1>1. s \in Session /\ s.age \in Ages /\ s.next_target \in Nat
  BY SessionNumbers, Zenon DEF Sound, Session
<1>2. [s.age EXCEPT !.rr = 0] \in Ages
  BY <1>1, Zenon DEF Ages
<1>3. t \in Session
  BY <1>1, <1>2, Zeros, Zenon DEF Session
<1>4. /\ t.next_sender = s.next_sender /\ t.out = s.out /\ t.next_target = s.next_target
      /\ t.state = s.state /\ t.test_req_pending = s.test_req_pending
      /\ t.gap_open /\ t.gap_rr_attempts = 1
      /\ t.tx = s.tx /\ t.cb = s.cb /\ t.link = s.link /\ t.logout_notified = s.logout_notified
  BY <1>1, Zenon DEF Session
<1> HIDE DEF t
<1>5. GapOk(t) /\ ProbeOk(t)
  BY <1>4 DEF GapOk, ProbeOk, Sound
<1>6. Keeps(s, t)
  BY <1>3, <1>4, <1>5, SameStore, Zenon DEF Sound
<1>7. Goes(s, t)
  BY <1>1, <1>4, <1>6, SteadySilent DEF Goes
<1>8. Goes(t, send_resend_request(t, begin, f))
  BY <1>6, ResendRequestGoes, Zenon DEF Keeps
<1> QED
  BY <1>7, <1>8, GoesOn, GoesItself, Zenon DEF request_gap, t

\* A teardown.
LEMMA DisconnectGoes ==
    ASSUME NEW s, Sound(s)
    PROVE  Goes(s, disconnect(s))
<1> DEFINE t == disconnect(s)
<1>1. s \in Session /\ s.next_target \in Nat /\ Keeps(s, t) /\ t.state = "Disconnected"
  BY SessionNumbers, DisconnectKeeps, Zenon DEF Sound
<1>2. t.tx = s.tx /\ t.out = s.out /\ t.cb = s.cb /\ t.next_target = s.next_target
  BY <1>1, Zenon DEF disconnect, clear_gap, Session
<1> HIDE DEF t
<1>3. Steady(s, t)
  BY <1>1, <1>2, SteadySilent
<1> QED
  BY <1>1, <1>3, Zenon DEF Goes, t

\* send_logout, also when it is followed by a teardown.
LEMMA LogoutGoes ==
    ASSUME NEW s, Sound(s), NEW f \in Faults
    PROVE  /\ Goes(s, send_logout(s, f)) /\ Goes(s, LogoutAndDrop(s, f))
           /\ LogoutAndDrop(s, f).state = "Disconnected"
<1> DEFINE u == send_message(s, Msg("Logout"), f)
           t == send_logout(s, f)
<1>1. Goes(s, u)
  BY SendGoes, AdminSendable, Zenon DEF AdminTypes
<1>2. u \in Session /\ u.age \in Ages /\ Sound(u) /\ u.next_target \in Nat
  BY <1>1, SessionNumbers, Zenon DEF Goes, Keeps, Sound, Session
<1> HIDE DEF u
<1>3. t = [u EXCEPT !.age.logout = 0, !.state = IF @ = "Disconnected" THEN @ ELSE "LogoutSent"]
  BY Zenon DEF send_logout, u
<1>4. /\ t.tx = u.tx /\ t.out = u.out /\ t.cb = u.cb /\ t.next_target = u.next_target
      /\ t.state \in {"Disconnected", "LogoutSent"} /\ t.next_sender = u.next_sender
  BY <1>2, <1>3, Zenon DEF Session
<1>5. Keeps(s, t)
  BY LogoutKeeps, Zenon
<1> HIDE DEF t
<1>6. Steady(u, t)
  BY <1>2, <1>4 DEF Steady
<1>7. Keeps(u, t)
  BY <1>2, <1>4, <1>5, SessionNumbers DEF Keeps
<1>8. Goes(s, t)
  BY <1>1, <1>6, <1>7, GoesOn, Zenon DEF Goes
<1>9. Goes(t, disconnect(t)) /\ disconnect(t).state = "Disconnected"
  BY <1>5, DisconnectGoes, DisconnectKeeps, Zenon DEF Keeps
<1> QED
  BY <1>8, <1>9, GoesOn, Zenon DEF LogoutAndDrop, t

----------------------------------------------------------------------------
(* The frames of one operation, and the handshake.                             *)

\* t differs from s in the expected number, the gap, the interval or a deadline at most.
Alike(s, t) ==
    /\ t.tx = s.tx /\ t.out = s.out /\ t.cb = s.cb /\ t.next_sender = s.next_sender
    /\ t.state = s.state /\ t.link = s.link /\ t.logout_notified = s.logout_notified

\* A change of the expected number and of the deadlines alone.
LEMMA AlikeGoes ==
    ASSUME NEW s, NEW t, Sound(s), Sound(t), Alike(s, t), t.next_target >= s.next_target
    PROVE  Goes(s, t)
<1>1. Keeps(s, t)
  BY SessionNumbers DEF Keeps, Alike
<1> QED
  BY <1>1, SteadySilent, Zenon DEF Goes, Alike

\* A callback other than on_message.
LEMMA CallsGoes ==
    ASSUME NEW s, Sound(s), NEW cb \in Callbacks
    PROVE  /\ cb # "on_message" => Goes(s, Calls(s, cb))
           /\ Calls(s, cb).cb = s.cb \cup {cb} /\ Calls(s, cb).tx = s.tx
           /\ Calls(s, cb).logout_notified = s.logout_notified
<1> DEFINE t == Calls(s, cb)
<1>1. /\ s \in Session /\ s.next_target \in Nat /\ Keeps(s, t) /\ t.state = s.state
      /\ t.next_target = s.next_target /\ t.link = s.link /\ t.out = s.out
  BY CallsKeeps, SessionNumbers, Zenon DEF Sound
<1>2. t.cb = s.cb \cup {cb} /\ t.tx = s.tx /\ t.logout_notified = s.logout_notified
  BY <1>1, Zenon DEF Calls, Session
<1> HIDE DEF t
<1>3. cb # "on_message" => Steady(s, t)
  BY <1>1, <1>2, SteadySilent
<1> QED
  BY <1>1, <1>2, <1>3, Zenon DEF Goes, t

\* on_logout is called on a session that is then torn down.
LEMMA NotifyGoes ==
    ASSUME NEW s, Sound(s)
    PROVE  /\ s.state = "Disconnected" => Goes(s, notify_logout(s))
           /\ Goes(s, disconnect(notify_logout(s)))
<1> DEFINE t == notify_logout(s)
           d == disconnect(t)
<1>1. s \in Session /\ s.next_target \in Nat /\ Keeps(s, t)
  BY NotifyLogoutKeeps, SessionNumbers, Zenon DEF Sound
<1>2. /\ t.tx = s.tx /\ t.out = s.out /\ t.next_target = s.next_target /\ t.state = s.state
      /\ t.cb \in {s.cb, s.cb \cup {"on_logout"}}
  BY <1>1, Zenon DEF notify_logout, Session
<1> HIDE DEF t
<1>3. s.state = "Disconnected" => Goes(s, t)
  BY <1>1, <1>2, SteadySilent DEF Goes
<1>4. Goes(t, d) /\ d.state = "Disconnected" /\ Sound(t)
  BY <1>1, DisconnectGoes, DisconnectKeeps, Zenon DEF Keeps
<1>5. t \in Session
  BY <1>4, Zenon DEF Sound
<1>6. d.tx = t.tx /\ d.out = t.out /\ d.cb = t.cb /\ d.next_target = t.next_target
  BY <1>5, Zenon DEF disconnect, clear_gap, Session
<1>7. Keeps(s, d)
  BY <1>1, <1>4, KeepsTransitive, Zenon DEF Goes
<1> HIDE DEF d
<1>8. Steady(s, d)
  BY <1>1, <1>2, <1>4, <1>6, <1>7, SteadySilent
<1> QED
  BY <1>3, <1>7, <1>8, Zenon DEF Goes, d, t

\* set_next_target_seq_num changes the expected number alone.
LEMMA SetTargetAlike ==
    ASSUME NEW s, Sound(s), NEW n \in SeqNum \ {0}, NEW f \in Faults
    PROVE  /\ Sound(set_next_target_seq_num(s, n, f))
           /\ Alike(s, set_next_target_seq_num(s, n, f))
           /\ set_next_target_seq_num(s, n, f).next_target
                  = IF "target" \in f THEN s.next_target ELSE n
<1>1. s \in Session
  BY Zenon DEF Sound
<1>2. Sound(set_next_target_seq_num(s, n, f))
  BY SetTargetKeeps, Zenon DEF Keeps
<1> QED
  BY <1>1, <1>2, Zenon DEF set_next_target_seq_num, Alike, Session

\* advance_next_target_seq_num moves the expected number forward or not at all, and
\* reaches the number asked for unless its persist fails.
LEMMA AdvanceAlike ==
    ASSUME NEW s, Sound(s), NEW n \in SeqNum, NEW f \in Faults
    PROVE  LET t == advance_next_target_seq_num(s, n, f)
           IN  /\ Sound(t) /\ Alike(s, t) /\ Goes(s, t)
               /\ t.next_target = IF n > s.next_target /\ "target" \notin f THEN n
                                  ELSE s.next_target
<1> DEFINE t == advance_next_target_seq_num(s, n, f)
<1>1. s.next_target \in Nat /\ n \in Nat
  BY SessionNumbers, SessionConstants DEF SeqNum
<1>2. CASE n <= s.next_target
  <2>1. t = s
    BY <1>2, Zenon DEF advance_next_target_seq_num
  <2> QED
    BY <1>1, <1>2, <2>1, GoesItself DEF Alike
<1>3. CASE ~(n <= s.next_target)
  <2>1. t = set_next_target_seq_num(s, n, f) /\ n # 0
    BY <1>1, <1>3 DEF advance_next_target_seq_num
  <2>2. /\ Sound(t) /\ Alike(s, t)
        /\ t.next_target = IF "target" \in f THEN s.next_target ELSE n
    BY <2>1, SetTargetAlike
  <2> HIDE DEF t
  <2>3. Goes(s, t)
    BY <1>1, <1>3, <2>2, AlikeGoes
  <2> QED
    BY <1>1, <1>3, <2>2, <2>3 DEF t
<1> QED
  BY <1>2, <1>3, Zenon

\* The HeartBtInt of the peer's Logon touches nothing but the interval.
LEMMA AdoptAlike ==
    ASSUME NEW s, Sound(s), NEW m \in Message
    PROVE  /\ Sound(Adopt(s, m)) /\ Alike(s, Adopt(s, m))
           /\ Adopt(s, m).next_target = s.next_target
<1>1. s \in Session /\ Sound(Adopt(s, m))
  BY AdoptKeeps, Zenon DEF Sound, Keeps
<1> QED
  BY <1>1, Zenon DEF Adopt, Alike, Session

\* clear_gap touches nothing but the gap.
LEMMA ClearGapAlike ==
    ASSUME NEW s, Sound(s)
    PROVE  /\ Sound(clear_gap(s)) /\ Alike(s, clear_gap(s))
           /\ clear_gap(s).next_target = s.next_target
  BY ClearGapGoes, Zenon DEF Goes, Keeps, Alike

\* What FramesMatchStore says of one frame of a step from s to t.
FrameOk(s, t, m) ==
    IF ~m.dup
    THEN /\ t.out[m.seq] = StoredAs(m)
         /\ s.out[m.seq] = "none" \/ t.next_sender <= s.next_sender
    ELSE /\ m.seq \in 1 .. s.next_sender - 1
         /\ m.type = "SequenceReset" =>
                \A n \in m.seq .. Cast(m.new) - 1 : n < s.next_sender /\ ~Replayable(s.out[n])
         /\ m.type # "SequenceReset" => s.out[m.seq] = StoredAs(m)

\* A Logon of ours is among the frames of t.
LogonIn(t) == \E m \in t.tx : m.type = "Logon"

\* t is in a handshake or established only if s was or its own Logon has now left;
\* theirs: the peer's Logon is being handled.
Shakes(s, t, theirs) ==
    /\ t.state = "LogonSent" => s.state = "LogonSent" \/ LogonIn(t)
    /\ t.state = "Active" =>
           /\ t.link = s.link
           /\ \/ s.state = "Active" /\ t.logout_notified = s.logout_notified
              \/ theirs /\ ~t.logout_notified /\ (s.state = "LogonSent" \/ LogonIn(t))

\* An operation that begins at s and has not emitted anything, and t after it.
Emits(s, t, theirs) == (\A m \in t.tx : FrameOk(s, t, m)) /\ Shakes(s, t, theirs)

\* What a steady step emits is right.
LEMMA GoesEmits ==
    ASSUME NEW s, NEW t, Sound(s), s.tx = {}, Goes(s, t), NEW theirs
    PROVE  Emits(s, t, theirs)
<1>1. ASSUME NEW m \in t.tx PROVE FrameOk(s, t, m)
  <2>1. ~m.dup /\ s.next_sender <= m.seq /\ t.out[m.seq] = StoredAs(m)
    BY Zenon DEF Goes, Steady
  <2>2. m.seq \in SeqNum /\ m.seq \in Nat /\ s.next_sender \in Nat
    BY SessionNumbers, Zenon DEF Goes, Keeps
  <2>3. s.out[m.seq] = "none"
    BY <2>1, <2>2, Zenon DEF Sound, HistoryOk
  <2> QED
    BY <2>1, <2>3, Zenon DEF FrameOk
<1>2. Shakes(s, t, theirs)
  BY Zenon DEF Goes, Steady, Shakes
<1> QED
  BY <1>1, <1>2, Zenon DEF Emits

\* It stays right when only the expected number or a deadline changes after it.
LEMMA AlikeEmits ==
    ASSUME NEW s, NEW t, NEW u, NEW theirs, Emits(s, t, theirs), Alike(t, u)
    PROVE  Emits(s, u, theirs)
  BY Zenon DEF Emits, Shakes, LogonIn, FrameOk, Alike

\* It stays right when only the expected number or a deadline changed before it.
LEMMA EmitsFrom ==
    ASSUME NEW s, NEW a, NEW t, NEW theirs, Emits(a, t, theirs), Alike(s, a)
    PROVE  Emits(s, t, theirs)
  BY DEF Emits, Shakes, LogonIn, FrameOk, Alike

\* send_logon puts a Logon on the wire exactly when it says so.
LEMMA LogonEmits ==
    ASSUME NEW c \in Config, NEW s, Sound(s), s.tx = {}, NEW f \in Faults
    PROVE  LET t == send_logon(c, s, f)
           IN  /\ \A m \in t.tx : FrameOk(s, t, m)
               /\ t.cb = s.cb /\ t.link = s.link /\ t.logout_notified = s.logout_notified
               /\ IF LogonGoesOut(c, s, f) THEN LogonIn(t) /\ t.state = LogonState(c)
                                           ELSE t.tx = {} /\ t.state = s.state
<1> DEFINE p == LogonPublished(c, s, f)
           u == send_message(p, LogonMsg(c, s), f)
           r == store_reset(s, f)
           t == send_logon(c, s, f)
<1> HIDE DEF p, u, r, t
<1>0. s \in Session /\ s.next_sender \in Nat /\ s.next_sender >= 1
  BY SessionNumbers DEF Sound
<1>1. CASE ~MayLogon(c, s)
  BY <1>1, Zenon DEF send_logon, LogonGoesOut
<1>2. CASE MayLogon(c, s) /\ c.reset_on_logon /\ "reset" \in f
  <2>1. t = [r EXCEPT !.age.logon = 0] /\ ~LogonGoesOut(c, s, f)
    BY <1>2, Zenon DEF send_logon, LogonGoesOut, r, t
  <2>2. /\ t.tx = s.tx /\ t.cb = s.cb /\ t.link = s.link /\ t.state = s.state
        /\ t.logout_notified = s.logout_notified
    BY <1>0, <2>1, Zenon DEF store_reset, Session, r
  <2> QED
    BY <2>1, <2>2, Zenon DEF t
<1>3. CASE MayLogon(c, s) /\ ~(c.reset_on_logon /\ "reset" \in f)
  <2>1. /\ Sound(p)
        /\ p.tx = {} /\ p.cb = s.cb /\ p.link = s.link /\ p.logout_notified = s.logout_notified
        /\ p.state = LogonState(c)
        /\ p.next_sender = s.next_sender \/ p.next_sender = 1
    <3> DEFINE q == [s EXCEPT !.age.logon = 0, !.state = LogonState(c)]
    <3>1. Sound(q)
      BY <1>3, LogonStateSound, Zenon
    <3>2. /\ q.tx = {} /\ q.cb = s.cb /\ q.link = s.link /\ q.state = LogonState(c)
          /\ q.logout_notified = s.logout_notified /\ q.next_sender = s.next_sender
      BY <1>0, Zenon DEF Session
    <3> HIDE DEF q
    <3> DEFINE z == store_reset(q, f)
    <3>3. Sound(z)
      BY <3>1, StoreResetSound, Zenon
    <3>4. /\ z.tx = q.tx /\ z.cb = q.cb /\ z.link = q.link /\ z.state = q.state
          /\ z.logout_notified = q.logout_notified /\ z.next_sender = 1
      BY <3>1, Zenon DEF store_reset, Sound, Session
    <3> HIDE DEF z
    <3>5. Sound(clear_gap(z)) /\ Alike(z, clear_gap(z))
      BY <3>3, ClearGapAlike, Zenon
    <3>6. p = clear_gap(z) \/ p = q
      BY Zenon DEF LogonPublished, p, q, z
    <3> QED
      BY <3>1, <3>2, <3>4, <3>5, <3>6, Zenon DEF Alike
  <2>2. Sendable(LogonMsg(c, s)) /\ LogonMsg(c, s).type = "Logon"
    <3>1. s.hb \in Int64 /\ c.reset_on_logon \in BOOLEAN
      BY SessionConstants DEF Sound, Session, Config, Int32, Int64
    <3> QED
      BY <3>1, Zeros, Zenon DEF LogonMsg, Msg, Message, Sendable, MsgTypes, AdminTypes
  <2>3. /\ Sound(u) /\ OnlySends(p, u) /\ Steady(p, u)
        /\ SendOk(p, f) => LogonIn(u)
    BY <2>1, <2>2, SendSound, SendSteady, Zenon DEF LogonIn, u
  <2>4. /\ u.cb = p.cb /\ u.next_sender \in {p.next_sender, p.next_sender + 1}
        /\ ~SendOk(p, f) => u.tx = p.tx
    BY <2>1, Zenon DEF send_message, SendOk, Sound, Session, u
  <2>5. LogonGoesOut(c, s, f) <=> SendOk(p, f)
    BY <1>3, Zenon DEF LogonGoesOut, p
  <2>6. p.next_sender \in Nat /\ u.next_sender \in Nat
    BY <2>1, <2>3, SessionNumbers, Zenon
  <2>7. t = IF SendOk(p, f) THEN u ELSE [u EXCEPT !.state = s.state]
    BY <1>3, <2>5, Zenon DEF send_logon, p, u, t
  <2>8. /\ t.tx = u.tx /\ t.out = u.out /\ t.cb = u.cb /\ t.link = u.link
        /\ t.next_sender = u.next_sender /\ t.logout_notified = u.logout_notified
        /\ t.state = IF SendOk(p, f) THEN u.state ELSE s.state
    BY <2>3, <2>7, Zenon DEF Sound, Session
  <2>9. ASSUME NEW m \in t.tx PROVE FrameOk(s, t, m)
    <3>1. /\ ~m.dup /\ p.next_sender <= m.seq /\ m.seq < u.next_sender /\ u.out[m.seq] = StoredAs(m)
          /\ m.seq \in Nat /\ m.seq \in SeqNum
      BY <2>1, <2>3, <2>8, <2>9, SessionNumbers, Zenon DEF Steady
    <3>2. m.seq = p.next_sender /\ u.next_sender = p.next_sender + 1
      BY <2>4, <2>6, <3>1
    <3>3. s.out[m.seq] = "none" \/ t.next_sender <= s.next_sender
      <4>1. CASE p.next_sender = s.next_sender
        BY <1>0, <3>1, <3>2, <4>1, Zenon DEF Sound, HistoryOk
      <4>2. CASE p.next_sender = 1 /\ s.next_sender # 1
        BY <1>0, <2>8, <3>2, <4>2
      <4> QED
        BY <2>1, <4>1, <4>2, Zenon
    <3> QED
      BY <2>8, <3>1, <3>3, Zenon DEF FrameOk
  <2>10. u.state = p.state /\ u.link = p.link /\ u.logout_notified = p.logout_notified
    BY <2>3, Zenon DEF OnlySends
  <2>11. SendOk(p, f) => LogonIn(t) /\ t.state = LogonState(c)
    BY <2>1, <2>3, <2>8, <2>10, Zenon DEF LogonIn
  <2>12. ~SendOk(p, f) => t.tx = {} /\ t.state = s.state
    BY <2>1, <2>4, <2>8, Zenon
  <2>13. t.cb = s.cb /\ t.link = s.link /\ t.logout_notified = s.logout_notified
    BY <2>1, <2>4, <2>8, <2>10, Zenon
  <2> QED
    BY <2>5, <2>9, <2>11, <2>12, <2>13, Zenon DEF t
<1> QED
  BY <1>1, <1>2, <1>3, Zenon
=============================================================================
