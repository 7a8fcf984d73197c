---------------------------- MODULE SessionTimed ----------------------------
(***************************************************************************)
(* One session and the clock.  Time is counted in periods of the engine's  *)
(* timer (200 ms): each Tick ages every timestamp by one period and runs   *)
(* Session::on_timer, as the engine's timer thread does.  An event between *)
(* two ticks is up to one period younger than its age, so a deadline of d  *)
(* periods may pass at age d and has passed at age d + 1.                  *)
(*                                                                         *)
(* Sequence numbers play no part in these properties: Forget re-baselines  *)
(* the numbering after each step, so that a session can run for ever, and  *)
(* an inbound message is either the next one or ahead of a gap.            *)
(***************************************************************************)
EXTENDS SessionCore

CONSTANTS Configs,  \* the SessionConfigs considered
          AgeCap    \* ages beyond this are not told apart

ASSUME TimedConstants ==
    /\ Configs \subseteq Config
    /\ AgeCap \in Nat

VARIABLES cfg,      \* cfg_
          ses,      \* the session
          gapAge    \* history: periods since the open gap was detected

vars == <<cfg, ses, gapAge>>

Period(sec) == 5 * sec              \* seconds, in periods
Grace(sec)  == 6 * sec              \* 1.2 times as long

Older(n) == IF n = AgeCap THEN n ELSE n + 1

Aged(s) == [s EXCEPT !.age = [k \in DOMAIN s.age |-> Older(s.age[k])]]

\* Faulty variant: the tick after a TestRequest already finds it unanswered.
DeadlineAge_eager(s) ==
    [send |-> Period(s.hb), recv |-> Period(s.hb), probe |-> 1, rr |-> 1,
     logon |-> Period(cfg.logon_timeout), logout |-> Period(cfg.logout_timeout)]

\* The age at which each deadline of on_timer is reached.
DeadlineAge(s) ==
    [send |-> Period(s.hb), recv |-> Period(s.hb), probe |-> Grace(s.hb), rr |-> Grace(s.hb),
     logon |-> Period(cfg.logon_timeout), logout |-> Period(cfg.logout_timeout)]

MustBeDue(s) == {d \in Deadlines : s.age[d] > DeadlineAge(s)[d]}
MayBeDue(s)  == {d \in Deadlines : s.age[d] >= DeadlineAge(s)[d]}

\* An age no deadline reads in this state is written before it is next read.
Forget(s) ==
    [s EXCEPT !.next_sender = 1, !.next_target = 1, !.out = NoFrames, !.tx = {},
              !.age.probe = IF s.test_req_pending THEN @ ELSE 0,
              !.age.rr = IF s.gap_open THEN @ ELSE 0,
              !.age.logon = IF s.state = "LogonSent" THEN @ ELSE 0,
              !.age.logout = IF s.state = "LogoutSent" THEN @ ELSE 0]

Does(s) ==
    /\ ses' = Forget(s)
    /\ gapAge' = IF s.gap_open /\ ses.gap_open THEN gapAge ELSE 0
    /\ UNCHANGED cfg

Init ==
    /\ cfg \in Configs
    /\ ses = NewSession(cfg)
    /\ gapAge = 0

\* One round of the timer thread.
Tick ==
    LET now == Aged(Begin(ses))
    IN  \E due \in SUBSET MayBeDue(now) :
            LET s == on_timer(now, due, {})
            IN  /\ MustBeDue(now) \subseteq due
                /\ ses' = Forget(s)
                /\ gapAge' = IF s.gap_open THEN Older(gapAge) ELSE 0
                /\ UNCHANGED cfg

\* The next message, or one that shows a gap.
Receive ==
    /\ ses.link # "down"
    /\ \E n \in {1, 2}, t \in {"Heartbeat", "Logon", "Logout", "TestRequest"} :
           Does(on_data(cfg, Begin(ses), [Msg(t) EXCEPT !.seq = n, !.hb = cfg.hb], {}))

TransportConnected ==
    /\ ses.link = "down"
    /\ Does(on_transport_connected(cfg, [Begin(ses) EXCEPT !.link = "up"], {}))

TransportDisconnected ==
    /\ ses.link # "down"
    /\ Does(disconnect([Begin(ses) EXCEPT !.link = "down"]))

Send == \E b \in Bodies : Does(send(Begin(ses), AppMsg(b), {}))

SendRaw == Does(send_raw(Begin(ses)))

Logon == Does(logon(cfg, Begin(ses), {}))

Logout == Does(logout(Begin(ses), {}))

Next ==
    \/ Tick
    \/ Receive
    \/ TransportConnected
    \/ TransportDisconnected
    \/ Send
    \/ SendRaw
    \/ Logon
    \/ Logout

Spec == Init /\ [][Next]_vars

----------------------------------------------------------------------------
\* Every field keeps its type, the retry budget of a gap included, and no age passes
\* AgeCap.
TypeOK ==
    /\ cfg \in Configs
    /\ ses \in Session
    /\ \A k \in DOMAIN ses.age : ses.age[k] <= AgeCap
    /\ gapAge \in 0 .. AgeCap

\* on_timer detects a dead peer: an Active session has heard from its peer
\* within one HeartBtInt, the probe's 1.2 HeartBtInt, and a period of each.
SilentPeerDetected ==
    ses.state = "Active" => ses.age.recv <= Period(ses.hb) + Grace(ses.hb) + 1

\* and it never drops a peer that was heard from within 2.2 HeartBtInt: the
\* deadline runs from the TestRequest, not from the last message.
LivePeerNotDropped ==
    [][("on_heartbeat_timeout" \in ses'.cb)
          => ses.age.recv + 1 >= Period(ses.hb) + Grace(ses.hb)]_vars

\* The peer hears from us: time does not pass an Active session, or one waiting
\* for the peer's Logout, without a frame in the last HeartBtInt.
WeKeepTalking ==
    [][(/\ ses.state \in {"Active", "LogoutSent"} /\ ses'.state = ses.state
        /\ ses'.age.send > ses.age.send)
          => ses'.age.send <= Period(ses.hb)]_vars

\* No wait for the peer lasts for ever: logon_timeout and logout_timeout end the
\* handshakes, and after kMaxGapRetries requests, 1.2 HeartBtInt apart, the gap an
\* Active session chases has closed or the session is dropped.
WaitsBounded ==
    /\ ses.state = "LogonSent" => ses.age.logon <= Period(cfg.logon_timeout)
    /\ ses.state = "LogoutSent" => ses.age.logout <= Period(cfg.logout_timeout)
    /\ ses.state = "Active" /\ ses.gap_open => gapAge < kMaxGapRetries * (Grace(ses.hb) + 1)
=============================================================================
