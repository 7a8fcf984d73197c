----------------------------- MODULE SessionPair -----------------------------
(***************************************************************************)
(* An initiator and an acceptor, each a Session of SessionCore, joined by  *)
(* a TCP connection.  Frames travel in order and are not lost while the    *)
(* connection lives, except those the receiver's parser discards as        *)
(* garbled.  A connection may break at any moment; what was in flight is   *)
(* then lost, the ends notice separately, and the initiator reconnects.    *)
(***************************************************************************)
EXTENDS SessionCore, Sequences

CONSTANTS Cfg,            \* the SessionConfig of each end
          Limits          \* the bounds a behaviour runs under, one of these records

\* The deadlines a tick may find passed; application messages, garbled frames and
\* connections in all; and the number at which heartbeats and probes stop.
Limit == [due : SUBSET SUBSET Deadlines, sends : Nat, garbled : Nat, connects : Nat,
          number : Nat]

Ends == {"initiator", "acceptor"}

ASSUME PairConstants ==
    /\ Cfg \in [Ends -> Config]
    /\ Cfg["initiator"].initiator /\ ~Cfg["acceptor"].initiator
    /\ Limits \subseteq Limit

Peer(x) == IF x = "initiator" THEN "acceptor" ELSE "initiator"

VARIABLES ses,     \* the two sessions
          wire,    \* wire[x]: the frames on their way to x
          open,    \* the ends whose socket of the present connection is open
          got,     \* history: what on_message handed to the application of x
          refused, \* history: the application messages x answered with a Reject
          limit,   \* the bounds of this behaviour
          sends, garbled, connects   \* how much of each is used

vars == <<ses, wire, open, got, refused, limit, sends, garbled, connects>>

Init ==
    /\ ses = [x \in Ends |-> NewSession(Cfg[x])]
    /\ wire = [x \in Ends |-> <<>>]
    /\ open = {}
    /\ got = [x \in Ends |-> <<>>]
    /\ refused = [x \in Ends |-> {}]
    /\ limit \in Limits
    /\ sends = 0
    /\ garbled = 0
    /\ connects = 0

\* The frames of a step in the order they are emitted.
InOrder(tx) ==
    LET ns == SelectSeq([n \in 1 .. MaxSeq |-> n], LAMBDA n : \E m \in tx : m.seq = n)
    IN  [i \in 1 .. Len(ns) |-> CHOOSE m \in tx : m.seq = ns[i]]

\* Session x becomes s; its frames reach the peer's socket while that is open.
\* The frames already taken off the wire to x are gone.
Step(x, s, inbound) ==
    /\ ses' = [ses EXCEPT ![x] = [s EXCEPT !.tx = {}, !.cb = {}]]
    /\ wire' = [wire EXCEPT ![x] = inbound,
                            ![Peer(x)] = IF x \in open /\ Peer(x) \in open
                                         THEN @ \o InOrder(s.tx) ELSE @]

Connect ==
    LET s == on_transport_connected(Cfg["initiator"],
                                    [ses["initiator"] EXCEPT !.link = "up"], {})
    IN  /\ open = {} /\ \A x \in Ends : ses[x].link = "down"
        /\ connects < limit.connects /\ connects' = connects + 1
        /\ open' = Ends
        /\ ses' = [ses EXCEPT !["initiator"] = [s EXCEPT !.tx = {}, !.cb = {}]]
        /\ wire' = [x \in Ends |-> IF x = "acceptor" THEN InOrder(s.tx) ELSE <<>>]
        /\ UNCHANGED <<got, refused, limit, sends, garbled>>

Accept ==
    /\ "acceptor" \in open /\ ses["acceptor"].link = "down"
    /\ Step("acceptor",
            on_transport_connected(Cfg["acceptor"], [ses["acceptor"] EXCEPT !.link = "up"], {}),
            wire["acceptor"])
    /\ UNCHANGED <<open, got, refused, limit, sends, garbled, connects>>

Receive(x) ==
    LET m == Head(wire[x])
        s == on_data(Cfg[x], ses[x], m, {})
    IN  /\ wire[x] # <<>> /\ ses[x].link # "down"
        /\ Step(x, s, Tail(wire[x]))
        /\ got' = IF "on_message" \in s.cb
                  THEN [got EXCEPT ![x] = Append(@, <<m.seq, m.body>>)] ELSE got
        /\ refused' = IF m.type = "App" /\ \E r \in s.tx : r.type \in {"Reject", "BusinessReject"}
                      THEN [refused EXCEPT ![x] = @ \cup {m.seq}] ELSE refused
        /\ UNCHANGED <<open, limit, sends, garbled, connects>>

\* The parser drops a frame whose checksum does not hold.  A frame is garbled
\* only while a heartbeat can still follow it: past that number none would.
Garble(x) ==
    /\ garbled < limit.garbled
    /\ wire[x] # <<>> /\ ses[x].state = "Active"
    /\ ses[Peer(x)].next_sender < limit.number
    /\ wire' = [wire EXCEPT ![x] = Tail(@)]
    /\ garbled' = garbled + 1
    /\ UNCHANGED <<ses, open, got, refused, limit, sends, connects>>

\* The socket of x is closed, by its own request or because nothing more comes
\* from the other side, and on_disconnected tells the session.
Closed(x) ==
    /\ ses[x].link # "down"
    /\ ses[x].link = "closing" \/ (Peer(x) \notin open /\ wire[x] = <<>>) \/ x \notin open
    /\ Step(x, disconnect([ses[x] EXCEPT !.link = "down"]), <<>>)
    /\ open' = open \ {x}
    /\ UNCHANGED <<got, refused, limit, sends, garbled, connects>>

\* The network drops the connection: everything in flight is lost.
Break ==
    /\ open # {}
    /\ open' = {}
    /\ wire' = [x \in Ends |-> <<>>]
    /\ UNCHANGED <<ses, got, refused, limit, sends, garbled, connects>>

Send(x, b) ==
    /\ sends < limit.sends /\ ses[x].state = "Active"
    /\ Step(x, send(ses[x], AppMsg(b), {}), wire[x])
    /\ sends' = sends + 1
    /\ UNCHANGED <<open, got, refused, limit, garbled, connects>>

Logout(x) ==
    /\ ses[x].state = "Active"
    /\ Step(x, logout(ses[x], {}), wire[x])
    /\ UNCHANGED <<open, got, refused, limit, sends, garbled, connects>>

OnTimer(x, due) ==
    /\ due \cap {"send", "recv"} # {} => ses[x].next_sender < limit.number
    /\ Step(x, on_timer(ses[x], due, {}), wire[x])
    /\ UNCHANGED <<open, got, refused, limit, sends, garbled, connects>>

Next ==
    \/ Connect
    \/ Accept
    \/ Break
    \/ \E x \in Ends :
           \/ Receive(x)
           \/ Garble(x)
           \/ Closed(x)
           \/ \E b \in Bodies : Send(x, b)
           \/ Logout(x)
           \/ \E due \in limit.due : OnTimer(x, due)

\* The IO thread of each end connects, reads and closes; the engine's timer runs.
Spec ==
    /\ Init
    /\ [][Next]_vars
    /\ WF_vars(Connect)
    /\ WF_vars(Accept)
    /\ \A x \in Ends :
           /\ WF_vars(Receive(x))
           /\ WF_vars(Closed(x))
           /\ \A due \in UNION {l.due : l \in Limits} :
                  WF_vars(due \in limit.due /\ OnTimer(x, due))

----------------------------------------------------------------------------
GotNumbers(x) == {got[x][i][1] : i \in DOMAIN got[x]}

\* Both sessions keep their types, and every frame under way is a Message.
TypeOK ==
    /\ ses \in [Ends -> Session]
    /\ \A x \in Ends : \A i \in DOMAIN wire[x] : wire[x][i] \in Message
    /\ open \subseteq Ends

\* The application sees each message at most once and in the order sent, with
\* the content sent under that number, across any number of connections
\* (validate_seq_num, consume_inbound and the replay of handle_resend_request).
DeliveredOnceInOrder ==
    \A x \in Ends : \A i \in DOMAIN got[x] :
        /\ i > 1 => got[x][i - 1][1] < got[x][i][1]
        /\ ses[Peer(x)].out[got[x][i][1]] = got[x][i][2]

\* An end never expects a number its peer has not reached: a peer's next frame
\* is never "MsgSeqNum too low", which would end the session.
TargetNotAheadOfSender ==
    \A x \in Ends : ses[x].next_target <= ses[Peer(x)].next_sender

\* An acceptor that went Active runs on the HeartBtInt the initiator proposed on
\* this connection, already while its answer is under way.
IntervalAgreed ==
    (ses["acceptor"].state = "Active" /\ ses["initiator"].state \in {"LogonSent", "Active"})
        => ses["acceptor"].hb = ses["initiator"].hb

\* Gap detection: an application message whose number an end has moved past was
\* delivered to its application, or refused in a Reject the peer is sent.  On the
\* first connection: the Logon of a later one opens no gap.
NothingSkipped ==
    connects <= 1 => \A x \in Ends : \A n \in 1 .. ses[x].next_target - 1 :
        ses[Peer(x)].out[n] \in Bodies => n \in GotNumbers(x) \cup refused[x]

Undelivered(x) ==
    {n \in SeqNum : ses[Peer(x)].out[n] \in Bodies} \ (GotNumbers(x) \cup refused[x])

\* The application messages sent, finitely many here, reach the application on
\* the other side unless one of the two sessions ends; on the first connection,
\* as above.
SentIsDelivered ==
    \A x \in Ends :
        (Undelivered(x) # {} /\ connects <= 1)
            ~> (Undelivered(x) = {} \/ \E y \in Ends : ses[y].state # "Active")
=============================================================================
