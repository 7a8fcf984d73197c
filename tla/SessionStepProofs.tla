-------------------------- MODULE SessionStepProofs --------------------------
(***************************************************************************)
(* What one step of a session does to the frames on the wire, the expected *)
(* number and the handshake.  Settled says what on_data may make of a      *)
(* session and Local what every other operation may; from them follow the  *)
(* action properties, and HandshakeInv, the inductive invariant behind     *)
(* ActiveIsEstablished: each Logon that has passed over the connection is  *)
(* recorded in shook before the session can be Active.                     *)
(***************************************************************************)
EXTENDS SessionProofs

----------------------------------------------------------------------------
(* The handlers of the admin messages.                                         *)

\* What dispatching the message m in s may make of it.
Handled(s, t, m) ==
    /\ Sound(t) /\ Emits(s, t, m.type = "Logon")
    /\ "on_message" \in t.cb =>
           ~is_admin_msg(m.type) /\ s.state = "Active" /\ t.next_target = s.next_target
    /\ s.state = "Active" /\ ~(m.type = "SequenceReset" /\ ~m.fill) =>
           t.next_target >= s.next_target

\* A session at the beginning of an operation.
Idle(s) == Sound(s) /\ s.tx = {} /\ s.cb = {}

\* A steady step is a legal handling of any message.
LEMMA GoesHandled ==
    ASSUME NEW s, NEW t, NEW m, Idle(s), Goes(s, t)
    PROVE  Handled(s, t, m)
<1>1. Emits(s, t, m.type = "Logon")
  BY GoesEmits, Zenon DEF Idle
<1> QED
  BY <1>1, Zenon DEF Handled, Idle, Goes, Keeps, Steady

\* handle_logon: Active only from LogonSent or with our own Logon sent.
LEMMA LogonSettles ==
    ASSUME NEW c \in Config, NEW s, Idle(s), NEW m \in Message, m.type = "Logon", NEW f \in Faults
    PROVE  Handled(s, handle_logon(c, s, m, f), m)
<1> DEFINE a == Adopt(s, m)
           h == s.state \in {"WaitingLogon", "LogonSent"}
           x == IF m.reset /\ h THEN set_next_target_seq_num(a, 1, f) ELSE a
           b == clear_gap(x)
           t == handle_logon(c, s, m, f)
<1>0. Sound(s) /\ s.next_target \in Nat /\ m.hb \in Int /\ s.hb \in Int
  BY SessionNumbers, SessionConstants DEF Idle, Message, Int64, Sound, Session, Int32
<1>1. Sound(t)
  BY <1>0, LogonHandled, Zenon DEF Steps
<1>2. Sound(a) /\ Alike(s, a) /\ a.next_target = s.next_target
  BY <1>0, AdoptAlike, Zenon
<1>3. Sound(x) /\ Alike(s, x) /\ (~h => x.next_target = s.next_target)
  <2>1. 1 \in SeqNum \ {0}
    BY Zeros
  <2> HIDE DEF a
  <2>2. Sound(set_next_target_seq_num(a, 1, f)) /\ Alike(a, set_next_target_seq_num(a, 1, f))
    BY <1>2, <2>1, SetTargetAlike, Zenon
  <2> QED
    BY <1>2, <2>2, Zenon DEF Alike
<1>4. Sound(b) /\ Alike(s, b) /\ (~h => b.next_target = s.next_target)
  <2> HIDE DEF x
  <2>1. Sound(b) /\ Alike(x, b) /\ b.next_target = x.next_target
    BY <1>3, ClearGapAlike, Zenon
  <2> QED
    BY <1>3, <2>1, Zenon DEF Alike
<1>5. b.tx = {} /\ b.cb = {} /\ b.state = s.state /\ b.link = s.link
  BY <1>4, Zenon DEF Alike, Idle
<1>6. t = CASE m.hb <= 0 -> LogoutAndDrop(s, f)
          [] m.hb > 0 /\ c.initiator /\ s.state = "LogonSent" /\ m.hb # s.hb -> LogoutAndDrop(s, f)
          [] m.hb > 0 /\ s.state = "LogonSent" /\ (c.initiator => m.hb = s.hb) -> GoActive(b)
          [] m.hb > 0 /\ s.state = "WaitingLogon" ->
                IF LogonGoesOut(c, b, f) THEN GoActive(send_logon(c, b, f)) ELSE send_logon(c, b, f)
          [] m.hb > 0 /\ s.state = "Active" -> LogoutAndDrop(b, f)
          [] OTHER -> b
  BY Zenon DEF handle_logon
<1> HIDE DEF b
<1>7. ASSUME NEW g, Sound(g), g.tx = {} \/ LogonIn(g), \A y \in g.tx : FrameOk(s, g, y),
             g.cb = {}, g.link = s.link, s.state \in {"LogonSent", "WaitingLogon"},
             s.state = "LogonSent" \/ LogonIn(g), t = GoActive(g)
      PROVE  Handled(s, t, m)
  <2>1. /\ t.tx = g.tx /\ t.out = g.out /\ t.cb = {"on_logon"} /\ t.next_sender = g.next_sender
        /\ t.state = "Active" /\ t.link = g.link /\ ~t.logout_notified
    BY <1>7, ZenonT(30) DEF GoActive, Calls, Sound, Session
  <2> HIDE DEF t
  <2>2. \A y \in t.tx : FrameOk(s, t, y)
    BY <1>7, <2>1, Zenon DEF FrameOk
  <2>3. Shakes(s, t, TRUE)
    BY <1>7, <2>1, Zenon DEF Shakes, LogonIn
  <2> QED
    BY <1>1, <1>7, <2>1, <2>2, <2>3, Zenon DEF Handled, Emits
<1>8. CASE m.hb <= 0 \/ (c.initiator /\ s.state = "LogonSent" /\ m.hb # s.hb)
  <2>1. t = LogoutAndDrop(s, f)
    BY <1>0, <1>6, <1>8
  <2> QED
    BY <1>0, <2>1, LogoutGoes, GoesHandled, Zenon
<1>9. CASE m.hb > 0 /\ s.state = "LogonSent" /\ (c.initiator => m.hb = s.hb)
  <2>1. t = GoActive(b)
    BY <1>0, <1>6, <1>9
  <2> QED
    BY <1>4, <1>5, <1>7, <1>9, <2>1, Zenon
<1>10. CASE m.hb > 0 /\ s.state = "WaitingLogon"
  <2> DEFINE g == send_logon(c, b, f)
  <2>1. t = IF LogonGoesOut(c, b, f) THEN GoActive(g) ELSE g
    BY <1>0, <1>6, <1>10
  <2>2. Sound(g)
    BY <1>4, LogonSound, Zenon
  <2>3. /\ \A y \in g.tx : FrameOk(b, g, y)
        /\ g.cb = {} /\ g.link = s.link
        /\ IF LogonGoesOut(c, b, f) THEN LogonIn(g) ELSE g.tx = {} /\ g.state = b.state
    BY <1>4, <1>5, LogonEmits, ZenonT(30)
  <2> HIDE DEF g
  <2>4. \A y \in g.tx : FrameOk(s, g, y)
    BY <1>4, <2>3, ZenonT(30) DEF FrameOk, Alike
  <2>5. CASE LogonGoesOut(c, b, f)
    BY <1>7, <1>10, <2>1, <2>2, <2>3, <2>4, <2>5, Zenon
  <2>6. CASE ~LogonGoesOut(c, b, f)
    <3>1. t = g /\ t.state = "WaitingLogon" /\ t.cb = {}
      BY <1>5, <1>10, <2>1, <2>3, <2>6, Zenon
    <3> QED
      BY <1>10, <2>2, <2>4, <3>1, Zenon DEF Handled, Emits, Shakes
  <2> QED
    BY <2>5, <2>6, Zenon
<1>11. CASE m.hb > 0 /\ s.state \notin {"LogonSent", "WaitingLogon"}
  <2>1. t = IF s.state = "Active" THEN LogoutAndDrop(b, f) ELSE b
    BY <1>0, <1>6, <1>11
  <2>2. Goes(s, b)
    BY <1>0, <1>4, <1>11, AlikeGoes
  <2>3. Goes(b, LogoutAndDrop(b, f))
    BY <1>4, LogoutGoes, Zenon
  <2>4. Goes(s, t)
    BY <1>0, <2>1, <2>2, <2>3, GoesOn, Zenon
  <2> QED
    BY <2>4, GoesHandled, Zenon
<1> QED
  BY <1>0, <1>8, <1>9, <1>10, <1>11

\* A frame of the replay loop: what the store holds under its number, or a fill of
\* numbers that hold nothing to resend.
LEMMA ReplayFrames ==
    ASSUME NEW s, Sound(s), NEW b \in 1 .. MaxSeq, NEW last \in Nat, last < s.next_sender,
           NEW m \in Replay(s.out, b, last), NEW t
    PROVE  FrameOk(s, t, m)
<1>0. s.next_sender \in Nat /\ s.next_sender <= MaxSeq /\ s.out \in [SeqNum -> Stored] /\ MaxSeq \in Nat
  BY SessionConstants DEF Sound, Session, SeqNum
<1>1. ASSUME NEW k \in b .. last, Replayable(s.out[k]), m = Resent(k, s.out[k])
      PROVE  FrameOk(s, t, m)
  <2> DEFINE e == s.out[k]
  <2>1. k \in SeqNum /\ k \in 1 .. s.next_sender - 1
    BY <1>0 DEF SeqNum
  <2>2. e = "reject" \/ e \in Bodies
    BY <1>0, <1>1, <2>1, Zenon DEF Replayable, Stored
  <2> HIDE DEF e
  <2>3. /\ m.seq = k /\ m.dup /\ m.type = (IF e = "reject" THEN "BusinessReject" ELSE "App")
        /\ m.body = (IF e = "reject" THEN "none" ELSE e)
    BY <1>1, Zenon DEF Resent, Msg, e
  <2>4. StoredAs(m) = e /\ m.type # "SequenceReset"
    BY <2>2, <2>3, Zenon DEF StoredAs, is_admin_msg, AdminTypes
  <2> QED
    BY <2>1, <2>3, <2>4, Zenon DEF FrameOk, e
<1>2. ASSUME NEW lo \in b .. last, NEW hi \in b .. last, lo <= hi,
             IsHole(s.out, b, last, lo, hi), m = GapFill(lo, hi + 1)
      PROVE  FrameOk(s, t, m)
  <2>1. m.seq = lo /\ m.dup /\ m.type = "SequenceReset" /\ m.new = Signed(hi + 1)
    BY <1>2, Zenon DEF GapFill, Msg
  <2>2. hi + 1 \in 1 .. MaxSeq /\ Cast(Signed(hi + 1)) = hi + 1
    BY <1>0, SessionConstants DEF Cast, Signed
  <2>3. lo \in 1 .. s.next_sender - 1
    BY <1>0
  <2>4. \A n \in lo .. hi : n < s.next_sender /\ ~Replayable(s.out[n])
    BY <1>0, <1>2 DEF IsHole
  <2>5. lo .. Cast(m.new) - 1 = lo .. hi
    BY <2>1, <2>2
  <2> QED
    BY <2>1, <2>3, <2>4, <2>5, Zenon DEF FrameOk
<1> QED
  BY <1>1, <1>2, Zenon DEF Replay

\* handle_resend_request.
LEMMA ReplaySettles ==
    ASSUME NEW s, Idle(s), NEW m \in Message, m.type = "ResendRequest", NEW f \in Faults
    PROVE  Handled(s, handle_resend_request(s, m, f), m)
<1> DEFINE a == Calls(s, "on_resend_request")
           e == RangeEnd(s, m)
           r == Replay(s.out, m.begin, e)
           t == [a EXCEPT !.tx = @ \cup r, !.age.send = 0]
<1>0. /\ Sound(s) /\ s.next_sender \in Nat \ {0} /\ s.next_sender <= MaxSeq /\ s.next_target \in Nat
      /\ m.begin \in Int /\ Cast(m.end) \in Nat
  <2>1. Sound(s)
    BY Zenon DEF Idle
  <2>2. s.next_sender \in Nat \ {0} /\ s.next_sender <= MaxSeq /\ s.next_target \in Nat
    BY <2>1, SessionConstants DEF Sound, Session, SeqNum
  <2>3. m.begin \in Int64 /\ m.end \in Int64
    BY Zenon DEF Message
  <2>4. Cast(m.end) \in Nat /\ m.begin \in Int
    BY <2>3, CastType, SessionConstants DEF SeqNum, Int64
  <2> QED
    BY <2>1, <2>2, <2>4, Zenon
<1>1. /\ Goes(s, a) /\ Sound(a) /\ a.cb = {"on_resend_request"} /\ a.tx = {}
      /\ a.next_target = s.next_target /\ a.state = s.state /\ a.link = s.link
      /\ a.logout_notified = s.logout_notified
  BY <1>0, CallsGoes, CallsKeeps, ZenonT(30) DEF Callbacks, Goes, Keeps, Idle
<1>2. Goes(s, send_reject(s, f)) /\ Goes(s, send_reject(a, f))
  BY <1>0, <1>1, AdminGoes, GoesOn, Zenon
<1>3. CASE m.begin < 1 \/ m.begin > s.next_sender \/ "read" \in f \/ m.begin > e
  <2>1. handle_resend_request(s, m, f) \in {send_reject(s, f), send_reject(a, f), a}
    BY <1>3, Zenon DEF handle_resend_request
  <2> QED
    BY <1>1, <1>2, <2>1, GoesHandled, Zenon
<1>4. CASE ~(m.begin < 1) /\ ~(m.begin > s.next_sender) /\ "read" \notin f /\ ~(m.begin > e)
  <2>1. handle_resend_request(s, m, f) = t
    BY <1>4, Zenon DEF handle_resend_request
  <2>2. Sound(t)
    BY <1>0, <2>1, ResendRequestHandled DEF Keeps
  <2>3. e \in Int /\ e < s.next_sender
    <3>1. CASE Cast(m.end) = 0 \/ Cast(m.end) >= s.next_sender
      BY <1>0, <3>1 DEF RangeEnd
    <3>2. CASE ~(Cast(m.end) = 0 \/ Cast(m.end) >= s.next_sender)
      BY <1>0, <3>2 DEF RangeEnd
    <3> QED
      BY <3>1, <3>2, Zenon
  <2> HIDE DEF e
  <2>4. m.begin \in 1 .. MaxSeq /\ e \in Nat
    BY <1>0, <1>4, <2>3, SessionConstants
  <2>5. \A y \in r : FrameOk(s, t, y)
    BY <1>0, <2>3, <2>4, ReplayFrames, Zenon
  <2> HIDE DEF r
  <2>6. /\ t.tx = r /\ t.cb = {"on_resend_request"} /\ t.next_target = s.next_target
        /\ t.state = s.state /\ t.link = s.link /\ t.logout_notified = s.logout_notified
    <3> HIDE DEF a
    <3> QED
      BY <1>1, ZenonT(30) DEF Sound, Session
  <2> HIDE DEF t
  <2>7. Emits(s, t, m.type = "Logon")
    BY <2>5, <2>6, Zenon DEF Emits, Shakes
  <2> QED
    BY <1>0, <2>1, <2>2, <2>6, <2>7 DEF Handled
<1> QED
  BY <1>3, <1>4, Zenon

\* handle_sequence_reset: a GapFill does not move the expected number back.
LEMMA SequenceResetSettles ==
    ASSUME NEW s, Idle(s), s.state # "Disconnected", NEW m \in Message,
           m.type = "SequenceReset", NEW f \in Faults
    PROVE  Handled(s, handle_sequence_reset(s, m, f), m)
<1> DEFINE x == set_next_target_seq_num(s, Cast(m.new), f)
           l == clear_gap(x)
           t == handle_sequence_reset(s, m, f)
<1>0. /\ Sound(s) /\ s.next_target \in Nat /\ s.next_target \in SeqNum /\ s.next_target # 0
      /\ m.seq \in Nat /\ m.new \in Int /\ Cast(m.new) \in SeqNum /\ Cast(m.new) \in Nat
      /\ (m.new # 0 => Cast(m.new) # 0)
  <2>1. Sound(s)
    BY Zenon DEF Idle
  <2>2. s.next_target \in SeqNum /\ s.next_target # 0
    BY <2>1, Zenon DEF Sound, Session
  <2>3. m.new \in Int64 /\ m.seq \in SeqNum
    BY Zenon DEF Message
  <2>4. Cast(m.new) \in SeqNum /\ (m.new # 0 => Cast(m.new) # 0)
    BY <2>3, CastType, Zenon
  <2> QED
    BY <2>1, <2>2, <2>3, <2>4, SessionConstants DEF SeqNum, Int64
<1>1. ASSUME Cast(m.new) # 0
      PROVE  Sound(l) /\ Alike(s, l) /\ l.next_target \in {s.next_target, Cast(m.new)}
  <2>1. Sound(x) /\ Alike(s, x) /\ x.next_target \in {s.next_target, Cast(m.new)}
    BY <1>0, <1>1, SetTargetAlike
  <2> HIDE DEF x
  <2>2. Sound(l) /\ Alike(x, l) /\ l.next_target = x.next_target
    BY <2>1, ClearGapAlike, Zenon
  <2> QED
    BY <2>1, <2>2, Zenon DEF Alike
<1> HIDE DEF l
<1>2. Goes(s, LogoutAndDrop(s, f)) /\ Goes(s, s) /\ Goes(s, request_gap(s, s.next_target, f))
  BY <1>0, LogoutGoes, GoesItself, RequestGapGoes, Zenon
<1>3. CASE t \in {LogoutAndDrop(s, f), s, request_gap(s, s.next_target, f)}
  BY <1>2, <1>3, GoesHandled, Zenon
<1>4. CASE ~m.fill /\ m.new > 0 /\ t = l
  <2>1. Sound(l) /\ Alike(s, l)
    BY <1>0, <1>1, <1>4
  <2>2. Emits(s, s, m.type = "Logon")
    BY <1>0, <1>2, GoesEmits, Zenon DEF Idle
  <2>3. Emits(s, l, m.type = "Logon")
    BY <2>1, <2>2, AlikeEmits, Zenon
  <2>4. l.cb = {}
    BY <2>1, Zenon DEF Alike, Idle
  <2> QED
    BY <1>4, <2>1, <2>3, <2>4, Zenon DEF Handled
<1>5. CASE Cast(m.new) > s.next_target /\ t = l
  <2>1. Sound(l) /\ Alike(s, l) /\ l.next_target >= s.next_target
    BY <1>0, <1>1, <1>5
  <2>2. Goes(s, l)
    BY <1>0, <2>1, AlikeGoes, Zenon
  <2> QED
    BY <1>5, <2>2, GoesHandled, Zenon
<1>6. CASE ~m.fill
  <2>1. t = IF m.new <= 0 THEN LogoutAndDrop(s, f) ELSE l
    BY <1>6, Zenon DEF handle_sequence_reset, l
  <2> QED
    BY <1>0, <1>3, <1>4, <1>6, <2>1
<1>7. CASE m.fill
  <2>1. m.dup \in BOOLEAN
    BY Zenon DEF Message
  <2>2. \/ t \in {LogoutAndDrop(s, f), s, request_gap(s, s.next_target, f)}
        \/ t = l /\ ~(Cast(m.new) <= s.next_target)
    BY <1>0, <1>7, <2>1 DEF handle_sequence_reset, l
  <2> HIDE DEF t
  <2> QED
    BY <1>0, <1>3, <1>5, <2>2
<1> QED
  BY <1>6, <1>7, Zenon

\* process_admin.
LEMMA AdminSettles ==
    ASSUME NEW c \in Config, NEW s, Idle(s), s.state # "Disconnected",
           NEW m \in Message, m.type \in AdminTypes, NEW f \in Faults
    PROVE  Handled(s, process_admin(c, s, m, f), m)
<1> DEFINE t == process_admin(c, s, m, f)
<1>0. Sound(s)
  BY Zenon DEF Idle
<1>1. CASE m.type = "Logon"
  BY <1>1, LogonSettles, Zenon DEF process_admin
<1>2. CASE m.type = "Logout"
  <2> DEFINE e == IF s.state = "LogoutSent" THEN s ELSE send_logout_echo(s, f)
             d == disconnect(e)
  <2>1. Goes(s, e)
    BY <1>0, GoesItself, AdminGoes, Zenon
  <2> HIDE DEF e
  <2>2. Goes(s, d) /\ d.state = "Disconnected" /\ Sound(d)
    BY <1>0, <2>1, DisconnectGoes, DisconnectKeeps, GoesOn, Zenon DEF Goes, Keeps
  <2> HIDE DEF d
  <2>3. Goes(s, notify_logout(d))
    BY <1>0, <2>2, NotifyGoes, GoesOn, Zenon
  <2>4. t = notify_logout(d)
    BY <1>2, Zenon DEF process_admin, handle_logout, d, e
  <2> QED
    BY <2>3, <2>4, GoesHandled, Zenon
<1>3. CASE m.type = "Heartbeat"
  <2>1. t = s
    BY <1>3, Zenon DEF process_admin, handle_heartbeat
  <2> QED
    BY <1>0, <2>1, GoesItself, GoesHandled, Zenon
<1>4. CASE m.type = "TestRequest"
  <2>1. t = send_heartbeat(s, f)
    BY <1>4, Zenon DEF process_admin, handle_test_request
  <2> QED
    BY <1>0, <2>1, AdminGoes, GoesHandled, Zenon
<1>5. CASE m.type = "ResendRequest"
  BY <1>5, ReplaySettles, Zenon DEF process_admin
<1>6. CASE m.type = "SequenceReset"
  BY <1>6, SequenceResetSettles, Zenon DEF process_admin
<1>7. CASE m.type = "Reject"
  <2>1. t = IF s.state = "LogonSent" THEN disconnect(notify_logout(s)) ELSE Calls(s, "on_reject")
    BY <1>7, Zenon DEF process_admin, handle_reject
  <2>2. Goes(s, disconnect(notify_logout(s))) /\ Goes(s, Calls(s, "on_reject"))
    BY <1>0, NotifyGoes, CallsGoes, Zenon DEF Callbacks
  <2> QED
    BY <2>1, <2>2, GoesHandled, Zenon
<1> QED
  BY <1>1, <1>2, <1>3, <1>4, <1>5, <1>6, <1>7, Zenon DEF AdminTypes

\* on_message is called by process_app alone.
LEMMA DispatchSettles ==
    ASSUME NEW c \in Config, NEW s, Idle(s), s.state # "Disconnected",
           NEW m \in Message, NEW f \in Faults
    PROVE  Handled(s, Dispatch(c, s, m, f), m)
<1>0. Sound(s) /\ s.next_target \in Nat
  BY SessionNumbers, Zenon DEF Idle
<1>1. Goes(s, send_reject(s, f)) /\ Goes(s, send_business_reject(s, f))
  BY <1>0, AdminGoes, Zenon
<1>2. CASE m.hdrDup
  BY <1>1, <1>2, GoesHandled, Zenon DEF Dispatch
<1>3. CASE ~m.hdrDup /\ is_admin_msg(m.type)
  BY <1>3, AdminSettles, Zenon DEF Dispatch, is_admin_msg
<1>4. CASE ~m.hdrDup /\ ~is_admin_msg(m.type)
  <2> DEFINE t == Calls(s, "on_message")
  <2>1. Dispatch(c, s, m, f) = process_app(c, s, m, f)
    BY <1>4, Zenon DEF Dispatch
  <2>2. CASE s.state # "Active" \/ (c.validate /\ ~m.valid)
    BY <1>1, <2>1, <2>2, GoesHandled, Zenon DEF process_app
  <2>3. CASE s.state = "Active" /\ ~(c.validate /\ ~m.valid)
    <3>1. Dispatch(c, s, m, f) = t
      BY <2>1, <2>3, Zenon DEF process_app
    <3>2. /\ Sound(t) /\ t.state = s.state /\ t.next_target = s.next_target /\ t.link = s.link
          /\ t.tx = {} /\ t.logout_notified = s.logout_notified
      BY <1>0, CallsKeeps, CallsGoes, Zenon DEF Callbacks, Keeps, Idle
    <3> HIDE DEF t
    <3>3. Emits(s, t, m.type = "Logon")
      BY <2>3, <3>2, Zenon DEF Emits, Shakes
    <3> QED
      BY <1>0, <1>4, <2>3, <3>1, <3>2, <3>3 DEF Handled
  <2> QED
    BY <2>2, <2>3, Zenon
<1> QED
  BY <1>2, <1>3, <1>4, Zenon

\* What on_data may make of it once m is consumed.
Settled(s, t, m, f) ==
    /\ Emits(s, t, m.type = "Logon")
    /\ "on_message" \in t.cb =>
           /\ ~is_admin_msg(m.type) /\ s.state = "Active" /\ m.seq = s.next_target
           /\ t.next_target = m.seq + 1 \/ m.seq = MaxSeq \/ "target" \in f
    /\ s.state = "Active" /\ ~(m.type = "SequenceReset" /\ ~m.fill) =>
           t.next_target >= s.next_target

\* A steady step is a legal outcome of any message.
LEMMA GoesSettles ==
    ASSUME NEW s, NEW t, NEW m, NEW f, Idle(s), Goes(s, t)
    PROVE  Settled(s, t, m, f)
<1>1. Emits(s, t, m.type = "Logon")
  BY GoesEmits, Zenon DEF Idle
<1> QED
  BY <1>1, Zenon DEF Settled, Idle, Goes, Steady

\* consume_inbound, after the dispatch, spends the number of the message.
LEMMA ConsumeSettles ==
    ASSUME NEW s, Idle(s), NEW t, NEW m \in Message, Handled(s, t, m), NEW v, NEW f \in Faults,
           s.state = "Active" => v /\ m.seq = s.next_target
    PROVE  Settled(s, consume_inbound(t, m, v, f), m, f)
<1> DEFINE n == advance_next_target_seq_num(t, Inc(m.seq), f)
           u == consume_inbound(t, m, v, f)
<1>0. /\ Sound(t) /\ m.seq \in SeqNum /\ m.seq \in Nat /\ s.next_target \in Nat /\ t.next_target \in Nat
      /\ Inc(m.seq) \in SeqNum /\ Inc(m.seq) \in Nat
      /\ m.seq # MaxSeq => Inc(m.seq) = m.seq + 1
  <2>1. Sound(t) /\ Sound(s) /\ m.seq \in SeqNum
    BY Zenon DEF Handled, Idle, Message
  <2>2. Inc(m.seq) \in SeqNum
    BY <2>1, IncType, Zenon
  <2> QED
    BY <2>1, <2>2, SessionNumbers, SessionConstants DEF SeqNum, Inc
<1>1. /\ Alike(t, n) /\ Goes(t, n)
      /\ n.next_target = IF Inc(m.seq) > t.next_target /\ "target" \notin f THEN Inc(m.seq)
                         ELSE t.next_target
  BY <1>0, AdvanceAlike, Zenon
<1>2. (u = t /\ ~v) \/ u = n
  BY Zenon DEF consume_inbound
<1> HIDE DEF n, u
<1>3. Alike(t, u) /\ u.next_target >= t.next_target
  BY <1>0, <1>1, <1>2 DEF Alike
<1>4. Emits(s, u, m.type = "Logon")
  BY <1>3, AlikeEmits, Zenon DEF Handled
<1>5. ASSUME "on_message" \in u.cb
      PROVE  /\ ~is_admin_msg(m.type) /\ s.state = "Active" /\ m.seq = s.next_target
             /\ u.next_target = m.seq + 1 \/ m.seq = MaxSeq \/ "target" \in f
  <2>1. ~is_admin_msg(m.type) /\ s.state = "Active" /\ t.next_target = s.next_target
    BY <1>3, <1>5, Zenon DEF Alike, Handled
  <2>2. u = n /\ m.seq = s.next_target
    BY <1>2, <2>1, Zenon
  <2> QED
    BY <1>0, <1>1, <2>1, <2>2
<1>6. ASSUME s.state = "Active", ~(m.type = "SequenceReset" /\ ~m.fill)
      PROVE  u.next_target >= s.next_target
  <2>1. u.next_target \in Nat
    BY <1>0, <1>1, <1>2, Zenon
  <2>2. t.next_target >= s.next_target
    BY <1>6, Zenon DEF Handled
  <2> QED
    BY <1>0, <1>3, <2>1, <2>2
<1> QED
  BY <1>4, <1>5, <1>6, Zenon DEF Settled, u

\* refuse_seq_num: no message with another number than the expected one is consumed.
LEMMA RefuseSettles ==
    ASSUME NEW s, Sound(s), s.state # "Disconnected", NEW m \in Message, NEW f \in Faults,
           m.seq # s.next_target \/ m.seq = 0
    PROVE  Goes(s, refuse_seq_num(s, m, f))
<1> DEFINE a == Calls(s, "on_sequence_gap")
<1>1. s.next_target \in SeqNum /\ m.seq \in SeqNum /\ s.next_target \in Nat /\ m.seq \in Nat
  BY SessionConstants DEF Sound, Session, Message, SeqNum
<1>2. Goes(s, send_reject(s, f)) /\ Goes(s, LogoutAndDrop(s, f)) /\ Goes(s, s)
  BY AdminGoes, LogoutGoes, GoesItself, Zenon
<1>3. Goes(s, a) /\ Sound(a) /\ a.state = s.state
  BY CallsGoes, CallsKeeps, ZenonT(30) DEF Callbacks, Goes, Keeps
<1> HIDE DEF a
<1>4. Goes(a, request_gap(a, s.next_target, f))
  BY <1>1, <1>3, RequestGapGoes, Zenon
<1>5. Goes(s, request_gap(a, s.next_target, f))
  BY <1>3, <1>4, GoesOn, Zenon
<1> QED
  BY <1>1, <1>2, <1>5 DEF refuse_seq_num, a

\* process_message as a whole.
LEMMA MessageSettles ==
    ASSUME NEW c \in Config, NEW s, Idle(s), s.state # "Disconnected",
           NEW m \in Message, NEW f \in Faults
    PROVE  Settled(s, process_message(c, s, m, f), m, f)
<1> DEFINE a == [s EXCEPT !.age.recv = 0, !.test_req_pending = FALSE]
           g == clear_gap(a)
           t == process_message(c, s, m, f)
<1>0. Sound(s) /\ s.next_target \in Nat /\ s.next_target \in SeqNum
  BY SessionNumbers, Zenon DEF Idle, Sound, Session
<1>1. Sound(a) /\ Alike(s, a) /\ a.next_target = s.next_target
  <2>1. s \in Session /\ s.age \in Ages
    BY <1>0, Zenon DEF Sound, Session
  <2>2. [s.age EXCEPT !.recv = 0] \in Ages
    BY <2>1, Zenon DEF Ages
  <2>3. a \in Session
    BY <2>1, <2>2, Zenon DEF Session
  <2>4. /\ Alike(s, a) /\ a.next_target = s.next_target /\ ~a.test_req_pending
        /\ a.gap_open = s.gap_open /\ a.gap_rr_attempts = s.gap_rr_attempts
    BY <2>1, Zenon DEF Session, Alike
  <2> HIDE DEF a
  <2>5. GapOk(a) /\ ProbeOk(a)
    BY <1>0, <2>4, Zenon DEF Sound, GapOk, ProbeOk, Alike
  <2>6. Sound(a)
    BY <1>0, <2>3, <2>4, <2>5, SameStore, Zenon DEF Keeps, Sound, Alike
  <2> QED
    BY <2>4, <2>6, Zenon
<1> HIDE DEF a
<1>2. Sound(g) /\ Alike(s, g) /\ g.next_target = s.next_target
  BY <1>1, ClearGapAlike, Zenon DEF Alike
<1> HIDE DEF g
<1>3. Idle(a) /\ Idle(g) /\ a.state = s.state /\ g.state = s.state
  BY <1>1, <1>2, Zenon DEF Idle, Alike
<1>4. ASSUME NEW x, x = a \/ x = g, Settled(x, t, m, f)
      PROVE  Settled(s, t, m, f)
  <2>1. Alike(s, x) /\ x.next_target = s.next_target
    BY <1>1, <1>2, <1>4, Zenon
  <2>2. Emits(s, t, m.type = "Logon")
    BY <1>4, <2>1, EmitsFrom, Zenon DEF Settled
  <2>3. x.state = s.state
    BY <2>1, Zenon DEF Alike
  <2> QED
    BY <1>4, <2>1, <2>2, <2>3, Zenon DEF Settled
<1>5. ASSUME Goes(a, t) PROVE Settled(s, t, m, f)
  BY <1>3, <1>4, <1>5, GoesSettles, Zenon
<1>6. CASE m.type = "BadIdentity"
  BY <1>1, <1>5, <1>6, LogoutGoes, Zenon DEF process_message, a
<1>7. CASE m.type = "NoType"
  <2> DEFINE n == advance_next_target_seq_num(a, Inc(m.seq), f)
             k == IF SeqValidated(a) /\ ~m.dup /\ m.seq = a.next_target THEN n ELSE a
  <2>1. Goes(a, n)
    BY <1>1, AdvanceAlike, IncType, Zenon DEF Message
  <2> HIDE DEF n
  <2>2. Goes(a, k)
    BY <1>1, <2>1, GoesItself, Zenon
  <2>3. t = send_reject(k, f)
    BY <1>7, Zenon DEF process_message, MissingMsgType, a, k, n
  <2> HIDE DEF k
  <2>4. Goes(k, send_reject(k, f))
    BY <2>2, AdminGoes, Zenon DEF Goes, Keeps
  <2> QED
    BY <1>1, <1>5, <2>2, <2>3, <2>4, GoesOn, Zenon
<1>8. CASE m.type = "SequenceReset"
  <2>1. t = handle_sequence_reset(a, m, f)
    BY <1>8, Zenon DEF process_message, a
  <2>2. Handled(a, t, m)
    BY <1>3, <1>8, <2>1, SequenceResetSettles, Zenon
  <2>3. is_admin_msg(m.type)
    BY <1>8, Zenon DEF is_admin_msg, AdminTypes
  <2>4. Settled(a, t, m, f)
    BY <2>2, <2>3, Zenon DEF Handled, Settled
  <2> QED
    BY <1>4, <2>4, Zenon
<1>9. CASE m.type \notin {"BadIdentity", "NoType", "SequenceReset"}
  <2>1. t = IF ~SeqValidated(s)
            THEN consume_inbound(Dispatch(c, a, m, f), m, FALSE, f)
            ELSE IF m.seq # s.next_target \/ m.seq = 0
            THEN refuse_seq_num(a, m, f)
            ELSE consume_inbound(Dispatch(c, g, m, f), m, TRUE, f)
    BY <1>9, Zenon DEF process_message, a, g
  <2>2. CASE ~SeqValidated(s)
    <3>1. t = consume_inbound(Dispatch(c, a, m, f), m, FALSE, f) /\ a.state # "Active"
      BY <1>3, <2>1, <2>2, Zenon DEF SeqValidated
    <3>2. Handled(a, Dispatch(c, a, m, f), m)
      BY <1>3, DispatchSettles, Zenon
    <3>3. Settled(a, t, m, f)
      BY <1>3, <3>1, <3>2, ConsumeSettles, Zenon
    <3> QED
      BY <1>4, <3>3, Zenon
  <2>3. CASE SeqValidated(s) /\ (m.seq # s.next_target \/ m.seq = 0)
    <3>1. t = refuse_seq_num(a, m, f) /\ (m.seq # a.next_target \/ m.seq = 0)
      BY <1>1, <2>1, <2>3, Zenon
    <3> QED
      BY <1>1, <1>3, <1>5, <3>1, RefuseSettles, Zenon
  <2>4. CASE SeqValidated(s) /\ ~(m.seq # s.next_target \/ m.seq = 0)
    <3>1. t = consume_inbound(Dispatch(c, g, m, f), m, TRUE, f) /\ m.seq = g.next_target
      BY <1>2, <2>1, <2>4, Zenon
    <3>2. Handled(g, Dispatch(c, g, m, f), m)
      BY <1>3, DispatchSettles, Zenon
    <3>3. Settled(g, t, m, f)
      BY <1>3, <3>1, <3>2, ConsumeSettles, Zenon
    <3> QED
      BY <1>4, <3>3, Zenon
  <2> QED
    BY <2>2, <2>3, <2>4, Zenon
<1> QED
  BY <1>6, <1>7, <1>8, <1>9, Zenon

----------------------------------------------------------------------------
(* The operations other than on_data.                                          *)

\* The heartbeat of on_timer.
LEMMA HeartbeatGoes ==
    ASSUME NEW s, Sound(s), NEW due, NEW f \in Faults
    PROVE  Goes(s, HeartbeatTick(s, due, f))
  BY AdminGoes, GoesItself, Zenon DEF HeartbeatTick

\* The TestRequest of on_timer, and the teardown when it was not answered.
LEMMA ProbeGoes ==
    ASSUME NEW s, Sound(s), s.state = "Active", NEW due, NEW f \in Faults
    PROVE  Goes(s, ProbeTick(s, due, f))
<1> DEFINE t == [s EXCEPT !.age.probe = 0, !.test_req_pending = TRUE]
<1>1. Goes(s, t)
  <2>1. s \in Session /\ s.age \in Ages /\ s.next_target \in Nat
    BY SessionNumbers, Zenon DEF Sound, Session
  <2>2. [s.age EXCEPT !.probe = 0] \in Ages
    BY <2>1, Zenon DEF Ages
  <2>3. t \in Session
    BY <2>1, <2>2, Zenon DEF Session
  <2>4. /\ Alike(s, t) /\ t.next_target = s.next_target
        /\ t.gap_open = s.gap_open /\ t.gap_rr_attempts = s.gap_rr_attempts
    BY <2>1, Zenon DEF Session, Alike
  <2> HIDE DEF t
  <2>5. GapOk(t) /\ ProbeOk(t)
    BY <2>4, Zenon DEF Sound, GapOk, ProbeOk, Alike
  <2>6. Sound(t)
    BY <2>3, <2>4, <2>5, SameStore, Zenon DEF Sound, Keeps, Alike
  <2> QED
    BY <2>1, <2>4, <2>6, AlikeGoes
<1> HIDE DEF t
<1>2. Goes(t, send_message(t, Msg("TestRequest"), f))
  BY <1>1, SendGoes, AdminSendable, Zenon DEF Goes, Keeps, AdminTypes
<1>3. Goes(s, send_test_request(s, f))
  BY <1>1, <1>2, GoesOn, Zenon DEF send_test_request, t
<1>4. Goes(s, disconnect(Calls(s, "on_heartbeat_timeout")))
  <2> DEFINE a == Calls(s, "on_heartbeat_timeout")
  <2>1. Goes(s, a)
    BY CallsGoes, Zenon DEF Callbacks
  <2> HIDE DEF a
  <2>2. Goes(a, disconnect(a))
    BY <2>1, DisconnectGoes, Zenon DEF Goes, Keeps
  <2> QED
    BY <2>1, <2>2, GoesOn, Zenon DEF a
<1> QED
  BY <1>3, <1>4, GoesItself, Zenon DEF ProbeTick

\* The repeated ResendRequest of on_timer, and the teardown after the last one.
LEMMA GapTickGoes ==
    ASSUME NEW s, Sound(s), NEW due, NEW f \in Faults
    PROVE  Goes(s, GapTick(s, due, f))
<1> DEFINE t == [s EXCEPT !.gap_rr_attempts = @ + 1, !.age.rr = 0]
<1>1. Goes(s, s) /\ Goes(s, disconnect(s))
  BY GoesItself, DisconnectGoes, Zenon
<1>2. ASSUME s.gap_open, ~(s.gap_rr_attempts + 1 > kMaxGapRetries)
      PROVE  Goes(s, send_resend_request(t, s.next_target, f))
  <2>1. s \in Session /\ s.age \in Ages /\ s.next_target \in SeqNum
        /\ s.gap_rr_attempts \in 0 .. kMaxGapRetries /\ s.next_target \in Nat
    BY SessionNumbers, Zenon DEF Sound, Session
  <2>2. [s.age EXCEPT !.rr = 0] \in Ages
    BY <2>1, Zenon DEF Ages
  <2>3. s.gap_rr_attempts + 1 \in 0 .. kMaxGapRetries /\ s.gap_rr_attempts + 1 >= 1
    BY <1>2, <2>1, SessionConstants
  <2>4. t \in Session
    BY <2>1, <2>2, <2>3, Zenon DEF Session
  <2>5. /\ Alike(s, t) /\ t.next_target = s.next_target
        /\ t.test_req_pending = s.test_req_pending
        /\ t.gap_open = s.gap_open /\ t.gap_rr_attempts = s.gap_rr_attempts + 1
    BY <2>1, Zenon DEF Session, Alike
  <2> HIDE DEF t
  <2>6. GapOk(t) /\ ProbeOk(t)
    BY <1>2, <2>3, <2>5, Zenon DEF Sound, GapOk, ProbeOk, Alike
  <2>7. Sound(t)
    BY <2>4, <2>5, <2>6, SameStore, Zenon DEF Sound, Keeps, Alike
  <2>8. Goes(s, t)
    BY <2>1, <2>5, <2>7, AlikeGoes
  <2>9. Goes(t, send_resend_request(t, s.next_target, f))
    BY <2>1, <2>7, ResendRequestGoes, Zenon
  <2> QED
    BY <2>8, <2>9, GoesOn, Zenon
<1> QED
  BY <1>1, <1>2, Zenon DEF GapTick

\* on_timer as a whole.
LEMMA TimerGoes ==
    ASSUME NEW s, Sound(s), NEW due, NEW f \in Faults
    PROVE  Goes(s, on_timer(s, due, f))
<1> DEFINE h == HeartbeatTick(s, due, f)
           p == ProbeTick(h, due, f)
<1>1. Goes(s, s) /\ Goes(s, disconnect(s)) /\ Goes(s, h) /\ h.state = s.state
  BY GoesItself, DisconnectGoes, HeartbeatGoes, HeartbeatKeeps, Zenon
<1>2. Goes(s, disconnect(notify_logout(s)))
  BY NotifyGoes, Zenon
<1>3. CASE s.state = "Active"
  <2> HIDE DEF h
  <2>1. Goes(h, p)
    BY <1>1, <1>3, ProbeGoes, Zenon DEF Goes, Keeps
  <2> HIDE DEF p
  <2>2. Goes(p, GapTick(p, due, f))
    BY <2>1, GapTickGoes, Zenon DEF Goes, Keeps
  <2>3. Goes(s, GapTick(p, due, f))
    BY <1>1, <2>1, <2>2, GoesOn, Zenon
  <2> QED
    BY <1>3, <2>3, Zenon DEF on_timer, h, p
<1>4. CASE s.state = "LogonSent"
  BY <1>1, <1>4, Zenon DEF on_timer
<1>5. CASE s.state = "LogoutSent"
  BY <1>1, <1>2, <1>5, Zenon DEF on_timer
<1>6. CASE s.state \notin {"Active", "LogonSent", "LogoutSent"}
  BY <1>1, <1>6, Zenon DEF on_timer
<1> QED
  BY <1>3, <1>4, <1>5, <1>6, Zenon

\* An operation other than on_data.
Local(s, t) ==
    /\ Emits(s, t, FALSE) /\ "on_message" \notin t.cb
    /\ s.state = "Active" => t.next_target >= s.next_target

\* A steady step is a legal outcome of any such operation.
LEMMA GoesLocal ==
    ASSUME NEW s, NEW t, Idle(s), Goes(s, t)
    PROVE  Local(s, t)
<1>1. Emits(s, t, FALSE)
  BY GoesEmits, Zenon DEF Idle
<1> QED
  BY <1>1, Zenon DEF Local, Idle, Goes, Steady

\* Session::logon.
LEMMA LogonLocal ==
    ASSUME NEW c \in Config, NEW s, Idle(s), NEW f \in Faults
    PROVE  Local(s, logon(c, s, f))
<1> DEFINE t == send_logon(c, s, f)
<1>0. Sound(s)
  BY Zenon DEF Idle
<1>1. CASE s.state \notin PreLogon
  BY <1>0, <1>1, GoesItself, GoesLocal, Zenon DEF logon, Idle
<1>2. CASE s.state \in PreLogon
  <2>1. /\ \A m \in t.tx : FrameOk(s, t, m)
        /\ t.cb = {}
        /\ IF LogonGoesOut(c, s, f) THEN LogonIn(t) /\ t.state = LogonState(c)
                                    ELSE t.tx = {} /\ t.state = s.state
    BY <1>0, LogonEmits, ZenonT(30) DEF Idle
  <2> HIDE DEF t
  <2>2. \/ t.state \in {"NotConnected", "Disconnected", "WaitingLogon"}
        \/ t.state = "LogonSent" /\ LogonIn(t)
    BY <1>2, <2>1, Zenon DEF PreLogon, LogonState
  <2>3. Emits(s, t, FALSE) /\ t.state # "Active"
    BY <2>1, <2>2, Zenon DEF Emits, Shakes
  <2>4. Local(s, t)
    BY <1>2, <2>1, <2>3, Zenon DEF Local, PreLogon
  <2> QED
    BY <1>2, <2>3, <2>4, Zenon DEF logon, t
<1> QED
  BY <1>1, <1>2, Zenon

\* Session::reset, which does nothing to a live session.
LEMMA ResetLocal ==
    ASSUME NEW s, Idle(s), NEW f \in Faults
    PROVE  Local(s, reset(s, f))
<1> DEFINE t == reset(s, f)
<1>0. Sound(s) /\ s \in Session
  BY Zenon DEF Idle, Sound
<1>1. CASE s.state \in {"Active", "LogonSent", "LogoutSent"}
  BY <1>0, <1>1, GoesItself, GoesLocal, Zenon DEF reset
<1>2. CASE s.state \notin {"Active", "LogonSent", "LogoutSent"}
  <2>1. t.tx = {} /\ t.cb = {} /\ t.state = "NotConnected"
    BY <1>0, <1>2, Zenon DEF reset, store_reset, clear_gap, Session, Idle
  <2> HIDE DEF t
  <2>2. Emits(s, t, FALSE)
    BY <2>1, Zenon DEF Emits, Shakes
  <2>3. Local(s, t)
    BY <1>2, <2>1, <2>2, Zenon DEF Local
  <2> QED
    BY <2>3, Zenon DEF t
<1> QED
  BY <1>1, <1>2, Zenon

\* on_transport_connected: a new connection starts with no session established on it.
LEMMA ConnectedLocal ==
    ASSUME NEW c \in Config, NEW s, Idle(s), NEW f \in Faults
    PROVE  LET t == on_transport_connected(c, s, f)
           IN  /\ \A m \in t.tx : FrameOk(s, t, m)
               /\ t.cb = {} /\ t.state # "Active"
               /\ t.state = "LogonSent" => LogonIn(t)
<1> DEFINE g == clear_gap(s)
           x == [g EXCEPT !.test_req_pending = FALSE, !.logout_notified = FALSE,
                          !.age.send = 0, !.age.recv = 0, !.age.logon = 0, !.age.logout = 0]
           w == [x EXCEPT !.state = "WaitingLogon"]
           i == [x EXCEPT !.state = IF @ \in PreLogon THEN @ ELSE "Disconnected"]
           t == on_transport_connected(c, s, f)
<1> HIDE DEF w, i, t
<1>0. Sound(s)
  BY Zenon DEF Idle
<1>1. Sound(g) /\ Alike(s, g) /\ ~g.gap_open /\ g \in Session /\ g.age \in Ages
  <2>1. Sound(g) /\ Alike(s, g)
    BY <1>0, ClearGapAlike, Zenon
  <2>2. ~g.gap_open
    BY <1>0, Zenon DEF Sound, Session, clear_gap
  <2> QED
    BY <2>1, <2>2, Zenon DEF Sound, Session
<1> HIDE DEF g
<1>2. [g.age EXCEPT !.send = 0, !.recv = 0, !.logon = 0, !.logout = 0] \in Ages
  BY <1>1, Zenon DEF Ages
<1>3. x = [g EXCEPT !.test_req_pending = FALSE, !.logout_notified = FALSE,
                    !.age = [g.age EXCEPT !.send = 0, !.recv = 0, !.logon = 0, !.logout = 0]]
  BY <1>1, Zenon DEF Session, Ages
<1>4. x \in Session
  BY <1>1, <1>2, <1>3, ZenonT(30) DEF Session
<1>5. /\ x.next_sender = g.next_sender /\ x.out = g.out /\ x.next_target = g.next_target
      /\ ~x.test_req_pending /\ ~x.gap_open /\ x.gap_rr_attempts = g.gap_rr_attempts
      /\ x.tx = g.tx /\ x.cb = g.cb
  BY <1>1, <1>3, Zenon DEF Session
<1> HIDE DEF x
<1>6. CASE c.initiator
  <2>1. i \in Session
    BY <1>4, Zenon DEF Session, SessionState, i
  <2>2. /\ i.next_sender = s.next_sender /\ i.out = s.out /\ i.next_target = g.next_target
        /\ ~i.test_req_pending /\ ~i.gap_open /\ i.gap_rr_attempts = g.gap_rr_attempts
        /\ i.tx = {} /\ i.cb = {} /\ i.state \in PreLogon
    BY <1>1, <1>4, <1>5, Zenon DEF Session, Alike, Idle, PreLogon, i
  <2>3. GapOk(i) /\ ProbeOk(i)
    BY <1>1, <2>2, Zenon DEF Sound, GapOk, ProbeOk
  <2>4. Sound(i)
    BY <1>1, <2>1, <2>2, <2>3, SameStore, Zenon DEF Sound, Keeps, Alike
  <2>5. t = logon(c, i, f)
    BY <1>6, Zenon DEF on_transport_connected, t, i, x, g
  <2> DEFINE n == send_logon(c, i, f)
  <2>6. /\ \A m \in n.tx : FrameOk(i, n, m)
        /\ n.cb = {}
        /\ IF LogonGoesOut(c, i, f) THEN LogonIn(n) /\ n.state = LogonState(c)
                                    ELSE n.tx = {} /\ n.state = i.state
    BY <2>2, <2>4, LogonEmits, Zenon
  <2>7. t = n
    BY <2>2, <2>5, Zenon DEF logon
  <2> HIDE DEF n
  <2>8. \A m \in n.tx : FrameOk(s, n, m)
    BY <2>2, <2>6, Zenon DEF FrameOk
  <2> QED
    BY <2>2, <2>6, <2>7, <2>8, Zenon DEF LogonState, PreLogon, t
<1>7. CASE ~c.initiator
  <2>1. t = w
    BY <1>7, Zenon DEF on_transport_connected, t, w, x, g
  <2>2. w.tx = {} /\ w.cb = {} /\ w.state = "WaitingLogon"
    BY <1>1, <1>4, <1>5, Zenon DEF Session, Alike, Idle, w
  <2> QED
    BY <2>1, <2>2, Zenon DEF t
<1> QED
  BY <1>6, <1>7, Zenon

----------------------------------------------------------------------------
(* The step, and the theorems about it.                                        *)

\* What ActiveIsEstablished needs: our Logon has left once LogonSent is reached.
HandshakeInv ==
    /\ shook \subseteq {"ours", "theirs"}
    /\ ses.state = "LogonSent" => "ours" \in shook
    /\ ActiveIsEstablished

\* An operation begins with no frame emitted and no callback made.
LEMMA BeginIdle ==
    ASSUME NEW s, Sound(s), NEW l \in {"down", "up", "closing"},
           NEW b, b = Begin(s) \/ b = [Begin(s) EXCEPT !.link = l]
    PROVE  /\ Idle(b)
           /\ b.out = s.out /\ b.next_sender = s.next_sender /\ b.next_target = s.next_target
           /\ b.state = s.state /\ b.logout_notified = s.logout_notified
           /\ b = Begin(s) => b.link = s.link
<1>1. s \in Session
  BY Zenon DEF Sound
<1>2. Sound(b)
  BY BeginSound, ZenonT(30)
<1> QED
  BY <1>1, <1>2, ZenonT(30) DEF Idle, Begin, Session

\* What is right of the frames since the operation began is right since the step did.
LEMMA EmitsBegin ==
    ASSUME NEW s, NEW b, NEW t, b.out = s.out, b.next_sender = s.next_sender,
           \A m \in t.tx : FrameOk(b, t, m)
    PROVE  \A m \in t.tx : FrameOk(s, t, m)
  BY Zenon DEF FrameOk

\* A step other than that of an inbound message.
OwnStep ==
    /\ \A m \in ses'.tx : FrameOk(ses, ses', m)
    /\ "on_message" \notin ses'.cb
    /\ ses.state = "Active" /\ ses.link # "down" => ses'.next_target >= ses.next_target
    /\ HandshakeInv'

\* An operation of the session is such a step.
LEMMA LocalOwn ==
    ASSUME Sound(ses), HandshakeInv, NEW t, Local(Begin(ses), t), Does(t)
    PROVE  OwnStep
<1> DEFINE b == Begin(ses)
<1>1. /\ b.out = ses.out /\ b.next_sender = ses.next_sender /\ b.next_target = ses.next_target
      /\ b.state = ses.state /\ b.logout_notified = ses.logout_notified /\ b.link = ses.link
  BY BeginIdle, Zenon
<1> HIDE DEF b
<1>2. ses' = t /\ shook' = shook \cup OurLogon(t)
  BY Zenon DEF Does
<1>3. Emits(b, t, FALSE) /\ "on_message" \notin t.cb /\ (b.state = "Active" => t.next_target >= b.next_target)
  BY Zenon DEF Local, b
<1>4. \A m \in t.tx : FrameOk(ses, t, m)
  BY <1>1, <1>3, EmitsBegin, Zenon DEF Emits
<1>5. LogonIn(t) => OurLogon(t) = {"ours"}
  BY Zenon DEF LogonIn, OurLogon
<1>6. OurLogon(t) \subseteq {"ours", "theirs"}
  BY Zenon DEF OurLogon
<1>7. t.state = "LogonSent" => "ours" \in shook'
  BY <1>1, <1>2, <1>3, <1>5, Zenon DEF Emits, Shakes, HandshakeInv
<1>8. ActiveIsEstablished'
  <2> SUFFICES ASSUME t.state = "Active"
               PROVE  t.link # "down" /\ shook' = {"ours", "theirs"} /\ ~t.logout_notified
    BY <1>2, Zenon DEF ActiveIsEstablished
  <2>1. t.link = b.link /\ b.state = "Active" /\ t.logout_notified = b.logout_notified
    BY <1>3, Zenon DEF Emits, Shakes
  <2> QED
    BY <1>1, <1>2, <1>6, <2>1, Zenon DEF HandshakeInv, ActiveIsEstablished
<1> QED
  BY <1>1, <1>2, <1>3, <1>4, <1>6, <1>7, <1>8, Zenon DEF OwnStep, HandshakeInv

\* Every step but that of an inbound message is one.
LEMMA OwnSteps ==
    ASSUME IInv, HandshakeInv, Next, \A m \in Inbound, f \in Faults : ~Receive(m, f)
    PROVE  OwnStep
<1> DEFINE b == Begin(ses)
<1>1. Sound(ses) /\ cfg \in Config /\ ses.link \in {"down", "up", "closing"}
  BY SessionInputs, Zenon DEF IInv, Sound, Session
<1>2. Idle(b) /\ Sound(b)
  BY <1>1, BeginIdle, Zenon DEF Idle
<1> HIDE DEF b
<1>3. ASSUME NEW t, Does(t), Local(b, t) PROVE OwnStep
  BY <1>1, <1>3, LocalOwn, Zenon DEF b
<1>4. CASE TransportConnected
  <2> DEFINE u == [b EXCEPT !.link = "up"]
  <2>1. PICK f \in Faults :
            LET t == on_transport_connected(cfg, u, f)
            IN  ses' = t /\ shook' = OurLogon(t) /\ ses.link = "down"
    BY <1>4, Zenon DEF TransportConnected, b
  <2>2. Idle(u) /\ u.out = ses.out /\ u.next_sender = ses.next_sender
    BY <1>1, BeginIdle, Zenon DEF b
  <2> HIDE DEF u
  <2>3. /\ \A m \in ses'.tx : FrameOk(u, ses', m)
        /\ ses'.cb = {} /\ ses'.state # "Active"
        /\ ses'.state = "LogonSent" => LogonIn(ses')
    BY <1>1, <2>1, <2>2, ConnectedLocal, Zenon
  <2>4. \A m \in ses'.tx : FrameOk(ses, ses', m)
    BY <2>2, <2>3, EmitsBegin, Zenon
  <2>5. shook' = OurLogon(ses') /\ ses.link = "down"
    BY <2>1, Zenon
  <2>6. shook' \subseteq {"ours", "theirs"} /\ (LogonIn(ses') => "ours" \in shook')
    BY <2>5, Zenon DEF OurLogon, LogonIn
  <2>7. HandshakeInv'
    BY <2>3, <2>6, ZenonT(30) DEF HandshakeInv, ActiveIsEstablished
  <2> QED
    BY <2>3, <2>4, <2>5, <2>7, Zenon DEF OwnStep
<1>5. CASE TransportDisconnected
  <2> DEFINE d == [b EXCEPT !.link = "down"]
             t == disconnect(d)
  <2>1. /\ Idle(d) /\ d.out = ses.out /\ d.next_sender = ses.next_sender
        /\ d.next_target = ses.next_target
    BY <1>1, BeginIdle DEF b
  <2>2. ses' = t /\ shook' = shook \cup OurLogon(t)
    BY <1>5, Zenon DEF TransportDisconnected, Does, b
  <2> HIDE DEF d
  <2>3. Goes(d, t)
    BY <2>1, DisconnectGoes, Zenon DEF Idle
  <2>4. t.state \notin {"Active", "LogonSent"}
    BY <2>1, Zenon DEF disconnect, Idle, Sound, Session, clear_gap, PreLogon
  <2> HIDE DEF t
  <2>5. Local(d, t)
    BY <2>1, <2>3, GoesLocal, Zenon
  <2>6. \A m \in t.tx : FrameOk(ses, t, m)
    BY <2>1, <2>5, EmitsBegin, Zenon DEF Local, Emits
  <2>7. t.next_target >= ses.next_target
    BY <2>1, <2>3, Zenon DEF Goes, Steady
  <2>8. HandshakeInv'
    BY <2>2, <2>4, Zenon DEF HandshakeInv, ActiveIsEstablished, OurLogon
  <2> QED
    BY <2>2, <2>5, <2>6, <2>7, <2>8, Zenon DEF OwnStep, Local
<1>6. CASE ParserUnhealthy \/ Disconnect
  <2>1. Does(disconnect(b))
    BY <1>6, Zenon DEF ParserUnhealthy, Disconnect, b
  <2> QED
    BY <1>2, <1>3, <2>1, DisconnectGoes, GoesLocal, Zenon
<1>7. ASSUME NEW x \in Bodies, Send(x) PROVE OwnStep
  <2>1. PICK f \in Faults : Does(send(b, AppMsg(x), f))
    BY <1>7, Zenon DEF Send, b
  <2>2. Goes(b, send(b, AppMsg(x), f))
    BY <1>2, AppSendable, SendGoes, GoesItself, Zenon DEF send
  <2> QED
    BY <1>2, <1>3, <2>1, <2>2, GoesLocal, Zenon
<1>8. CASE Logon
  <2>1. PICK f \in Faults : Does(logon(cfg, b, f))
    BY <1>8, Zenon DEF Logon, b
  <2> QED
    BY <1>1, <1>2, <1>3, <2>1, LogonLocal, Zenon
<1>9. CASE Logout
  <2>1. PICK f \in Faults : Does(logout(b, f))
    BY <1>9, Zenon DEF Logout, b
  <2>2. Goes(b, logout(b, f))
    BY <1>2, LogoutGoes, GoesItself, Zenon DEF logout
  <2> QED
    BY <1>2, <1>3, <2>1, <2>2, GoesLocal, Zenon
<1>10. CASE Reset
  <2>1. PICK f \in Faults : Does(reset(b, f))
    BY <1>10, Zenon DEF Reset, b
  <2> QED
    BY <1>2, <1>3, <2>1, ResetLocal, Zenon
<1>11. CASE OnTimer
  <2>1. PICK due \in DueSets, f \in Faults : Does(on_timer(b, due, f))
    BY <1>11, Zenon DEF OnTimer, b
  <2> QED
    BY <1>2, <1>3, <2>1, TimerGoes, GoesLocal, Zenon
<1> QED
  BY <1>4, <1>5, <1>6, <1>7, <1>8, <1>9, <1>10, <1>11, Zenon DEF Next

\* on_data, for a framed message.
LEMMA ReceiveSteps ==
    ASSUME IInv, HandshakeInv, NEW m \in Inbound, NEW f \in Faults, Receive(m, f)
    PROVE  /\ HandshakeInv'
           /\ Settled(Begin(ses), ses', m, f)
           /\ \A x \in ses'.tx : FrameOk(ses, ses', x)
<1> DEFINE b == Begin(ses)
           theirs == IF m.type = "Logon" /\ ses.state # "Disconnected" THEN {"theirs"} ELSE {}
<1>1. Sound(ses) /\ cfg \in Config /\ m \in Message
  BY SessionInputs, Zenon DEF IInv, Sound, Session
<1>2. /\ Idle(b) /\ Sound(b) /\ b.out = ses.out /\ b.next_sender = ses.next_sender
      /\ b.state = ses.state /\ b.logout_notified = ses.logout_notified /\ b.link = ses.link
  BY <1>1, BeginIdle, ZenonT(30) DEF Idle
<1>3. /\ ses.link # "down" /\ ses' = on_data(cfg, b, m, f)
      /\ shook' = shook \cup OurLogon(ses') \cup theirs
  BY Zenon DEF Receive
<1> HIDE DEF b
<1>4. Settled(b, ses', m, f) /\ (ses.state = "Disconnected" => ses' = b)
  <2>1. CASE b.state = "Disconnected"
    BY <1>2, <1>3, <2>1, GoesItself, GoesSettles, Zenon DEF on_data
  <2>2. CASE b.state # "Disconnected"
    BY <1>1, <1>2, <1>3, <2>2, MessageSettles, Zenon DEF on_data
  <2> QED
    BY <2>1, <2>2, Zenon
<1>5. \A x \in ses'.tx : FrameOk(ses, ses', x)
  BY <1>2, <1>4, EmitsBegin, Zenon DEF Settled, Emits
<1>6. Shakes(b, ses', m.type = "Logon")
  BY <1>4, Zenon DEF Settled, Emits
<1>7. (LogonIn(ses') => OurLogon(ses') = {"ours"}) /\ OurLogon(ses') \subseteq {"ours", "theirs"}
  BY Zenon DEF LogonIn, OurLogon
<1>8. shook' \subseteq {"ours", "theirs"} /\ shook \subseteq shook'
  BY <1>3, <1>7, Zenon DEF HandshakeInv
<1>9. ses'.state = "LogonSent" => "ours" \in shook'
  BY <1>2, <1>3, <1>6, <1>7, Zenon DEF Shakes, HandshakeInv
<1>10. ActiveIsEstablished'
  <2> SUFFICES ASSUME ses'.state = "Active"
               PROVE  ses'.link # "down" /\ shook' = {"ours", "theirs"} /\ ~ses'.logout_notified
    BY Zenon DEF ActiveIsEstablished
  <2>1. CASE b.state = "Active" /\ ses'.logout_notified = b.logout_notified
    BY <1>2, <1>3, <1>6, <1>8, <2>1, Zenon DEF Shakes, HandshakeInv, ActiveIsEstablished
  <2>2. CASE /\ m.type = "Logon" /\ ~ses'.logout_notified
             /\ b.state = "LogonSent" \/ LogonIn(ses')
    <3>1. ses.state # "Disconnected"
      BY <1>2, <1>4, Zenon
    <3>2. "theirs" \in shook'
      BY <1>3, <2>2, <3>1, Zenon
    <3>3. "ours" \in shook'
      BY <1>2, <1>3, <1>7, <2>2, Zenon DEF HandshakeInv
    <3> QED
      BY <1>2, <1>3, <1>6, <1>8, <2>2, <3>2, <3>3 DEF Shakes
  <2> QED
    BY <1>6, <2>1, <2>2, Zenon DEF Shakes
<1> QED
  BY <1>4, <1>5, <1>8, <1>9, <1>10, Zenon DEF HandshakeInv, b

\* The handshake invariant is inductive.
LEMMA HandshakeStep ==
    ASSUME IInv, HandshakeInv, [Next]_vars
    PROVE  HandshakeInv'
<1>1. CASE UNCHANGED vars
  BY <1>1, Zenon DEF vars, HandshakeInv, ActiveIsEstablished
<1>2. CASE Next
  BY <1>2, OwnSteps, ReceiveSteps, Zenon DEF OwnStep
<1> QED
  BY <1>1, <1>2, Zenon

\* Both invariants hold in every reachable state.
LEMMA InvariantsHold == Spec => [](IInv /\ HandshakeInv)
<1>1. Init => IInv
  BY InitHolds, Zenon
<1>2. Init => HandshakeInv
  BY DEF Init, HandshakeInv, ActiveIsEstablished, NewSession
<1>3. IInv /\ [Next]_vars => IInv'
  BY StepHolds, Zenon
<1>4. IInv /\ HandshakeInv /\ [Next]_vars => HandshakeInv'
  BY HandshakeStep, Zenon
<1> QED
  BY <1>1, <1>2, <1>3, <1>4, PTL DEF Spec

\* A session is Active only on a live connection over which both Logons have passed
\* and before on_logout, whatever the peer sends and in whatever order.
THEOREM ActiveEstablished == Spec => []ActiveIsEstablished
<1>1. HandshakeInv => ActiveIsEstablished
  BY Zenon DEF HandshakeInv
<1> QED
  BY <1>1, InvariantsHold, PTL

\* Every frame a step puts on the wire is the one the store holds under its number:
\* a fresh one under a number free until then, a resent one unchanged, and a GapFill
\* over numbers that hold no application message.
THEOREM FramesMatch == Spec => FramesMatchStore
<1> DEFINE A == \A m \in ses'.tx : FrameOk(ses, ses', m)
<1>1. IInv /\ HandshakeInv /\ [Next]_vars => [A]_vars
  BY OwnSteps, ReceiveSteps, Zenon DEF OwnStep
<1>2. Spec => [][A]_vars
  BY <1>1, InvariantsHold, PTL DEF Spec
<1> QED
  BY <1>2, Zenon DEF FramesMatchStore, FrameOk

\* Nothing but an inbound SequenceReset in reset mode moves the expected number of an
\* Active session back.
THEOREM TargetRewinds == Spec => TargetRewindsOnlyByReset
<1> DEFINE A == (ses.state = "Active" /\ ses'.next_target < ses.next_target)
                  => /\ \E m \in Inbound, f \in Faults : Receive(m, f)
                     /\ \A m \in Inbound, f \in Faults :
                            Receive(m, f) => m.type = "SequenceReset" /\ ~m.fill
<1>1. ASSUME IInv, HandshakeInv, [Next]_vars PROVE [A]_vars
  <2> SUFFICES ASSUME Next, ses.state = "Active", ses'.next_target < ses.next_target
               PROVE  /\ \E m \in Inbound, f \in Faults : Receive(m, f)
                      /\ \A m \in Inbound, f \in Faults :
                             Receive(m, f) => m.type = "SequenceReset" /\ ~m.fill
    BY <1>1, Zenon
  <2>1. Sound(ses) /\ Sound(ses') /\ ses.link # "down"
    BY <1>1, SessionStep, Zenon DEF IInv, HandshakeInv, ActiveIsEstablished
  <2>2. ses.next_target \in Nat /\ ses'.next_target \in Nat
    BY <2>1, SessionNumbers, Zenon
  <2>3. \E m \in Inbound, f \in Faults : Receive(m, f)
    BY <1>1, <2>1, <2>2, OwnSteps DEF OwnStep
  <2>4. ASSUME NEW m \in Inbound, NEW f \in Faults, Receive(m, f)
        PROVE  m.type = "SequenceReset" /\ ~m.fill
    <3>1. Settled(Begin(ses), ses', m, f)
      BY <1>1, <2>4, ReceiveSteps, Zenon
    <3>2. Begin(ses).state = "Active" /\ Begin(ses).next_target = ses.next_target
      BY <2>1, BeginIdle, ZenonT(30)
    <3>3. m \in Message
      BY SessionInputs, Zenon
    <3> QED
      BY <2>2, <3>1, <3>2, <3>3 DEF Settled
  <2> QED
    BY <2>3, <2>4, Zenon
<1>2. Spec => [][A]_vars
  BY <1>1, InvariantsHold, PTL DEF Spec
<1> QED
  BY <1>2, Zenon DEF TargetRewindsOnlyByReset

\* on_message is called only on an Active session for a message with the expected
\* number, which is then spent unless its persist fails.
THEOREM Delivered == Spec => DeliveredInOrder
<1> DEFINE A == ("on_message" \in ses'.cb)
                  => /\ ses.state = "Active"
                     /\ \E m \in Inbound, f \in Faults : Receive(m, f)
                     /\ \A m \in Inbound, f \in Faults : Receive(m, f) =>
                            /\ ~is_admin_msg(m.type) /\ m.seq = ses.next_target
                            /\ (\/ ses'.next_target = m.seq + 1
                                \/ m.seq = MaxSeq
                                \/ "target" \in f)
<1>1. ASSUME IInv, HandshakeInv, [Next]_vars PROVE [A]_vars
  <2> SUFFICES ASSUME Next, "on_message" \in ses'.cb PROVE A
    BY <1>1, Zenon
  <2>1. PICK m0 \in Inbound, f0 \in Faults : Receive(m0, f0)
    BY <1>1, OwnSteps, Zenon DEF OwnStep
  <2>2. Begin(ses).state = ses.state /\ Begin(ses).next_target = ses.next_target
    BY <1>1, BeginIdle, Zenon DEF IInv
  <2>3. ASSUME NEW m \in Inbound, NEW f \in Faults, Receive(m, f)
        PROVE  /\ ~is_admin_msg(m.type) /\ ses.state = "Active" /\ m.seq = ses.next_target
               /\ ses'.next_target = m.seq + 1 \/ m.seq = MaxSeq \/ "target" \in f
    BY <1>1, <2>2, <2>3, ReceiveSteps, Zenon DEF Settled
  <2> QED
    BY <2>1, <2>3, Zenon
<1>2. Spec => [][A]_vars
  BY <1>1, InvariantsHold, PTL DEF Spec
<1> QED
  BY <1>2, Zenon DEF DeliveredInOrder
=============================================================================
