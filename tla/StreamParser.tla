---------------------------- MODULE StreamParser ----------------------------
(***************************************************************************)
(* The incremental parser of parser.cpp: a byte stream is fed in pieces,   *)
(* complete frames are cut out of it and queued for next(), and whatever   *)
(* cannot be a frame is skipped up to the next frame start.                *)
(*                                                                         *)
(* A symbol stands for a run of bytes the parser looks at as one thing:    *)
(* below 1000 a run of digits (a tag number or a numeric value), SOH and   *)
(* EQ the two delimiters, NUL the byte no value may hold, NOISE any other  *)
(* text.  Lengths count symbols, so the length constants of parser.hpp     *)
(* are parameters here.  The buffer is modelled by its unread part:        *)
(* compact() moves bytes without changing it.                              *)
(***************************************************************************)
EXTENDS Integers, Sequences

CONSTANTS
    Streams,            \* the streams a peer may send: what is on the wire, and the
                        \* frames and damaged frames it was made of
    Chunks,             \* the sizes a single feed() may have: what one recv returns
    max_msg_len,        \* StreamParserOptions::max_msg_len
    kMinMsgLen, kTrailerBytes, kKeepTail, kMaxHeaderScan, kBacklogSlack

SOH == 1001
EQ == 1061
NUL == 1000
NOISE == 1065

BeginString == 8
BodyLength == 9
CheckSum == 10
MsgType == 35

kStandardHeaderTags == {BeginString, BodyLength, MsgType}

buf_cap == max_msg_len + kBacklogSlack

(***************************************************************************)
(* The constants as parser.hpp orders them: the slack exceeds the tail,    *)
(* the shortest frame and two header scans.  One read with the kept tail   *)
(* fits in max_msg_len (64 KiB against 1 MiB by default): resync_scan      *)
(* looks no further than that, and discards the rest unseen.               *)
(***************************************************************************)
ASSUME ParserConstants ==
    /\ Chunks \subseteq Nat \ {0} /\ max_msg_len \in Nat \ {0}
    /\ kTrailerBytes \in Nat /\ kKeepTail \in Nat \ {0}
    /\ kMinMsgLen \in Nat /\ kMinMsgLen >= kTrailerBytes
    /\ kMaxHeaderScan \in Nat /\ kBacklogSlack \in Nat
    /\ \A st \in Streams : st.wire \in Seq(Nat)
    /\ kBacklogSlack >= kKeepTail /\ kBacklogSlack >= kMinMsgLen
    /\ kBacklogSlack >= 2 * kMaxHeaderScan
    /\ \A n \in Chunks : n + kKeepTail <= max_msg_len

VARIABLES
    stream,     \* what the peer sends on this connection
    fed,        \* symbols of the stream handed to feed() so far
    origin,     \* the value of fed at the last reset()
    buf,        \* [read_pos_, write_pos_) of buf_
    input,      \* what the running feed() has not appended yet
    pc,         \* "idle", or where feed() stands: "loop", "append", "last"
    pending,    \* pending_: messages queued for next(), with where they began
    taken,      \* history: messages next() has returned since reset()
    consumed,   \* consumed_
    healthy     \* healthy_

vars == <<stream, fed, origin, buf, input, pc, pending, taken, consumed, healthy>>

Least(a, b) == IF a <= b THEN a ELSE b

Greatest(a, b) == IF a >= b THEN a ELSE b

Drop(s, k) == SubSeq(s, k + 1, Len(s))

----------------------------------------------------------------------------
\* Fields.

\* std::from_chars: digits only, and a number within range.
IsNumber(run) == Len(run) \in {1, 2} /\ \A k \in DOMAIN run : run[k] < NUL

Number(run) == IF Len(run) = 1 THEN run[1] ELSE NUL * run[1] + run[2]

\* The first position of s at or after k that holds a symbol of S; Len(s)+1
\* when there is none.
Find(s, k, S) == LET hits == {j \in k..Len(s) : s[j] \in S}
                 IN  IF hits = {} THEN Len(s) + 1
                     ELSE CHOOSE j \in hits : \A i \in hits : j <= i

Bad(why) == [status |-> why, tag |-> 0, value |-> <<>>, len |-> 0]

parse_field(s) ==
    LET eq == Find(s, 1, {EQ, SOH})
        tag == SubSeq(s, 1, eq - 1)
        soh == Find(s, eq + 1, {SOH})
    IN  IF eq > Len(s) THEN Bad("Incomplete")
        ELSE IF s[eq] = SOH \/ ~IsNumber(tag) THEN Bad("Invalid")
        ELSE IF soh > Len(s) THEN Bad("Incomplete")
        ELSE [status |-> "Ok", tag |-> Number(tag),
              value |-> SubSeq(s, eq + 1, soh - 1), len |-> soh]

compute_checksum(s) ==
    LET sum[k \in 0..Len(s)] == IF k = 0 THEN 0 ELSE sum[k - 1] + s[k]
    IN  sum[Len(s)] % 256

\* parse_checksum: one run of three digits, at most 255.
IsCheckSum(value) == Len(value) = 1 /\ value[1] <= 255

\* Message::add refuses a value with a NUL in it.
Addable(value) == \A k \in DOMAIN value : value[k] # NUL

----------------------------------------------------------------------------
\* Re-alignment.

StartsFrame(s, k) == k < Len(s) /\ s[k] = BeginString /\ s[k + 1] = EQ

\* resync_scan: how many symbols of s it discards.
resync_scan(s) ==
    LET window == Least(Len(s), max_msg_len)
        starts == {k \in 1..(window - 1) : StartsFrame(s, k)}
    IN  IF Len(s) < 2 THEN 0
        ELSE IF starts # {}
        THEN (CHOOSE k \in starts : \A j \in starts : k <= j) - 1
        ELSE Len(s) - Least(Len(s), kKeepTail)

NeedMore == [status |-> "NeedMore", skip |-> 0, dup |-> FALSE]

\* skip_frame: the error result that discards n symbols of s, at least one,
\* and then re-aligns.
skip_frame(s, n) ==
    LET k == Least(Greatest(n, 1), Len(s))
    IN  [status |-> "Error", skip |-> k + resync_scan(Drop(s, k)), dup |-> FALSE]

----------------------------------------------------------------------------
\* try_parse_one, one operator per numbered part of the code.

\* Part 6.  The body of s lies between the offsets body_start and body_end;
\* every SOH in it ends a field.  A header tag that was met before is flagged
\* and passed over, anything unusable stops the loop at its field.
BodyFields(s, body_start, body_end) ==
    {k \in body_start..(body_end - 1) : k = body_start \/ s[k] = SOH}

FieldAt(s, body_end, k) == parse_field(SubSeq(s, k + 1, body_end))

Repeated(s, body_start, body_end, k) ==
    LET tag == FieldAt(s, body_end, k).tag
    IN  /\ tag \in kStandardHeaderTags
        /\ \/ tag \in {BeginString, BodyLength}
           \/ \E j \in BodyFields(s, body_start, body_end) :
                  j < k /\ FieldAt(s, body_end, j).tag = tag

Unusable(s, body_start, body_end, k) ==
    LET f == FieldAt(s, body_end, k)
    IN  \/ f.status # "Ok" \/ f.tag = CheckSum
        \/ ~Addable(f.value) /\ ~Repeated(s, body_start, body_end, k)

\* Faulty variant: a frame without its trailer is skipped to where the trailer
\* should have ended.
TakeFrame_eats(s, body_end, dup) ==
    LET frame_end == body_end + kTrailerBytes
        f == parse_field(SubSeq(s, body_end + 1, frame_end))
    IN  IF f.status # "Ok" \/ f.tag # CheckSum \/ ~IsCheckSum(f.value)
            \/ f.len # kTrailerBytes
        THEN skip_frame(s, frame_end)
        ELSE IF f.value[1] # compute_checksum(SubSeq(s, 1, body_end))
        THEN skip_frame(s, frame_end)
        ELSE [status |-> "Message", skip |-> frame_end, dup |-> dup]

\* Parts 7 and 8, the trailer at body_end, and success.
TakeFrame(s, body_end, dup) ==
    LET frame_end == body_end + kTrailerBytes
        f == parse_field(SubSeq(s, body_end + 1, frame_end))
    IN  IF f.status # "Ok" \/ f.tag # CheckSum \/ ~IsCheckSum(f.value)
            \/ f.len # kTrailerBytes
        THEN skip_frame(s, body_end)
        ELSE IF f.value[1] # compute_checksum(SubSeq(s, 1, body_end))
        THEN skip_frame(s, frame_end)
        ELSE [status |-> "Message", skip |-> frame_end, dup |-> dup]

\* Faulty variant: an oversized frame is waited for even beyond the cap.
FrameOf_waits(s, begin, body_start, body_length) ==
    LET body_end == body_start + body_length
        frame_end == body_end + kTrailerBytes
        fields == BodyFields(s, body_start, body_end)
        unusable == {k \in fields : Unusable(s, body_start, body_end, k)}
        first == CHOOSE k \in unusable : \A j \in unusable : k <= j
    IN  IF frame_end > max_msg_len
        THEN IF Len(s) < frame_end THEN NeedMore ELSE skip_frame(s, frame_end)
        ELSE IF Len(s) < frame_end THEN NeedMore
        ELSE IF ~Addable(begin) THEN skip_frame(s, body_start)
        ELSE IF unusable # {}
        THEN skip_frame(s, IF FieldAt(s, body_end, first).status = "Incomplete"
                           THEN body_end ELSE first)
        ELSE TakeFrame(s, body_end,
                       \E k \in fields : Repeated(s, body_start, body_end, k))

\* Parts 4 to 6, once the header has announced body_length.
FrameOf(s, begin, body_start, body_length) ==
    LET body_end == body_start + body_length
        frame_end == body_end + kTrailerBytes
        fields == BodyFields(s, body_start, body_end)
        unusable == {k \in fields : Unusable(s, body_start, body_end, k)}
        first == CHOOSE k \in unusable : \A j \in unusable : k <= j
    IN  IF frame_end > max_msg_len
        THEN IF frame_end <= buf_cap /\ Len(s) < frame_end THEN NeedMore
             ELSE skip_frame(s, IF Len(s) >= frame_end THEN frame_end ELSE body_start)
        ELSE IF Len(s) < frame_end THEN NeedMore
        ELSE IF ~Addable(begin) THEN skip_frame(s, body_start)
        ELSE IF unusable # {}
        THEN skip_frame(s, IF FieldAt(s, body_end, first).status = "Incomplete"
                           THEN body_end ELSE first)
        ELSE TakeFrame(s, body_end,
                       \E k \in fields : Repeated(s, body_start, body_end, k))

\* Part 3 and the strict BodyLength of part 4.
AfterBegin(s, begin, pos) ==
    LET f == parse_field(SubSeq(s, pos + 1, Least(Len(s), pos + kMaxHeaderScan)))
    IN  IF f.status = "Incomplete" /\ Len(s) - pos < kMaxHeaderScan THEN NeedMore
        ELSE IF f.status # "Ok" \/ f.tag # BodyLength THEN skip_frame(s, pos)
        ELSE IF ~IsNumber(f.value) THEN skip_frame(s, pos + f.len)
        ELSE FrameOf(s, begin, pos + f.len, Number(f.value))

\* Faulty variant: garbage that is too short to discard is an error, not a wait.
try_parse_one_spins(s) ==
    LET f == parse_field(SubSeq(s, 1, Least(Len(s), kMaxHeaderScan)))
        dropped == resync_scan(s)
    IN  IF Len(s) < 2 THEN NeedMore
        ELSE IF ~StartsFrame(s, 1)
        THEN [status |-> "Error", skip |-> dropped, dup |-> FALSE]
        ELSE IF Len(s) < kMinMsgLen THEN NeedMore
        ELSE IF f.status = "Incomplete" /\ Len(s) < kMaxHeaderScan THEN NeedMore
        ELSE IF f.status # "Ok" \/ f.tag # BeginString THEN skip_frame(s, 1)
        ELSE AfterBegin(s, f.value, f.len)

\* Parts 1 and 2.
try_parse_one(s) ==
    LET f == parse_field(SubSeq(s, 1, Least(Len(s), kMaxHeaderScan)))
        dropped == resync_scan(s)
    IN  IF Len(s) < 2 THEN NeedMore
        ELSE IF ~StartsFrame(s, 1)
        THEN IF dropped > 0 THEN [status |-> "Error", skip |-> dropped, dup |-> FALSE]
             ELSE NeedMore
        ELSE IF Len(s) < kMinMsgLen THEN NeedMore
        ELSE IF f.status = "Incomplete" /\ Len(s) < kMaxHeaderScan THEN NeedMore
        ELSE IF f.status # "Ok" \/ f.tag # BeginString THEN skip_frame(s, 1)
        ELSE AfterBegin(s, f.value, f.len)

----------------------------------------------------------------------------
Init ==
    /\ stream \in Streams
    /\ fed = 0 /\ origin = 0
    /\ buf = <<>> /\ input = <<>> /\ pc = "idle"
    /\ pending = <<>> /\ taken = <<>>
    /\ consumed = 0 /\ healthy = TRUE

\* feed() is entered with the next n symbols of the stream; an unhealthy
\* parser drops them.
Feed(n) ==
    /\ pc = "idle"
    /\ fed + n <= Len(stream.wire)
    /\ fed' = fed + n
    /\ IF healthy
       THEN input' = SubSeq(stream.wire, fed + 1, fed + n) /\ pc' = "loop"
       ELSE UNCHANGED <<input, pc>>
    /\ UNCHANGED <<stream, origin, buf, pending, taken, consumed, healthy>>

\* Faulty variant: an error ends the drain loop.
TryParseOne_stops ==
    /\ pc \in {"loop", "last"}
    /\ LET r == try_parse_one(buf)
       IN  /\ buf' = Drop(buf, r.skip)
           /\ consumed' = consumed + r.skip
           /\ pending' = IF r.status = "Message"
                         THEN Append(pending, [at |-> origin + consumed,
                                               raw |-> SubSeq(buf, 1, r.skip),
                                               dup |-> r.dup])
                         ELSE pending
           /\ pc' = IF r.status = "Message" THEN pc
                    ELSE IF pc = "loop" THEN "append" ELSE "idle"
    /\ UNCHANGED <<stream, fed, origin, input, taken, healthy>>

\* One turn of drain().
TryParseOne ==
    /\ pc \in {"loop", "last"}
    /\ LET r == try_parse_one(buf)
       IN  /\ buf' = Drop(buf, r.skip)
           /\ consumed' = consumed + r.skip
           /\ pending' = IF r.status = "Message"
                         THEN Append(pending, [at |-> origin + consumed,
                                               raw |-> SubSeq(buf, 1, r.skip),
                                               dup |-> r.dup])
                         ELSE pending
           /\ pc' = IF r.status # "NeedMore" THEN pc
                    ELSE IF pc = "loop" THEN "append" ELSE "idle"
    /\ UNCHANGED <<stream, fed, origin, input, taken, healthy>>

\* feed() appends what fits under the cap and drains again.  With no room
\* left enforce_cap() re-aligns the backlog; drain() has just asked for more,
\* so a backlog that is already aligned stays as it is and is fatal.
AppendBytes ==
    /\ pc = "append"
    /\ LET n == Least(Len(input), buf_cap - Len(buf))
           dropped == resync_scan(buf)
       IN  IF n > 0
           THEN /\ buf' = buf \o SubSeq(input, 1, n)
                /\ input' = Drop(input, n)
                /\ pc' = IF n = Len(input) THEN "last" ELSE "loop"
                /\ UNCHANGED <<consumed, healthy>>
           ELSE /\ healthy' = (dropped > 0)
                /\ buf' = IF dropped > 0 THEN Drop(buf, dropped) ELSE <<>>
                /\ consumed' = consumed + Len(buf) - Len(buf')
                /\ input' = IF dropped > 0 THEN input ELSE <<>>
                /\ pc' = IF dropped > 0 THEN "loop" ELSE "idle"
    /\ UNCHANGED <<stream, fed, origin, pending, taken>>

\* next() hands out the oldest queued message.
NextMessage ==
    /\ pc = "idle" /\ pending # <<>>
    /\ taken' = Append(taken, Head(pending))
    /\ pending' = Tail(pending)
    /\ UNCHANGED <<stream, fed, origin, buf, input, pc, consumed, healthy>>

Cleared ==
    /\ buf' = <<>> /\ pending' = <<>> /\ taken' = <<>>
    /\ consumed' = 0 /\ healthy' = TRUE
    /\ UNCHANGED <<input, pc>>

\* reset() from Session::disconnect or Session::reset: bytes of the old
\* connection may still follow.  Once per connection is enough here.
Reset ==
    /\ pc = "idle" /\ origin = 0
    /\ Cleared
    /\ origin' = fed
    /\ UNCHANGED <<stream, fed>>

\* reset() from Session::on_transport_connected: a stream begins.  Nothing of
\* the old one is kept, so that it is the same stream again loses nothing.
Connect ==
    /\ pc = "idle"
    /\ Cleared
    /\ fed' = 0 /\ origin' = 0
    /\ UNCHANGED stream

Next ==
    \/ \E n \in Chunks : Feed(n)
    \/ TryParseOne
    \/ AppendBytes
    \/ NextMessage
    \/ Reset
    \/ Connect

Spec == Init /\ [][Next]_vars

----------------------------------------------------------------------------
\* Properties.

got == taken \o pending

Pieces == DOMAIN stream.pieces

StartOf(k) == stream.pieces[k].at

EndOf(k) == StartOf(k) + stream.pieces[k].len

WireOf(k) == SubSeq(stream.wire, StartOf(k) + 1, EndOf(k))

\* A whole frame the parser gets to see from its start.  A piece before it
\* that announces more than max_msg_len but no more than the cap is skipped
\* with everything it announces, and so may be the frame behind one that was
\* cut short: the frames within such a reach are excepted.
Deliverable(k) ==
    /\ stream.pieces[k].whole /\ StartOf(k) >= origin
    /\ \A j \in 1..(k - 1) : StartOf(j) + stream.pieces[j].reach <= StartOf(k)

Emitted(k) == \E i \in DOMAIN got : got[i].at = StartOf(k)

(***************************************************************************)
(* The messages handed out are whole frames of the stream, unchanged, in   *)
(* order and once each, flagged exactly when a header tag is repeated, and *)
(* no damaged frame takes a later one with it: whatever the stream was cut *)
(* into, the parser is never past the start of a whole frame it has not    *)
(* delivered (parser.hpp: "valid messages already buffered behind a bad    *)
(* frame are still delivered").                                            *)
(***************************************************************************)
FramesExtracted ==
    /\ \A i \in DOMAIN got : \E k \in Pieces :
           /\ stream.pieces[k].whole /\ got[i].at = StartOf(k)
           /\ got[i].raw = WireOf(k) /\ got[i].dup = stream.pieces[k].dup
    /\ \A i, j \in DOMAIN got : i < j => got[i].at < got[j].at
    /\ \A k \in Pieces :
           Deliverable(k) /\ StartOf(k) < origin + consumed => Emitted(k)

\* The end of the frame that the header at the front of s announces; 0 when
\* there is no header.
Announced(s) ==
    LET f == parse_field(s)
        g == parse_field(Drop(s, f.len))
    IN  IF f.status = "Ok" /\ f.tag = BeginString /\ g.status = "Ok"
              /\ g.tag = BodyLength /\ IsNumber(g.value)
        THEN f.len + g.len + Number(g.value) + kTrailerBytes
        ELSE 0

(***************************************************************************)
(* "Only a genuine 'need more bytes' stops the loop" (parser.hpp): when    *)
(* feed() has returned, a whole frame that has arrived is undelivered only *)
(* while the backlog begins with a frame that announces more than has      *)
(* arrived.                                                                *)
(***************************************************************************)
StallsOnlyOnClaim ==
    pc = "idle" =>
        \A k \in Pieces :
            Deliverable(k) /\ EndOf(k) <= fed /\ ~Emitted(k)
                => Announced(buf) > Len(buf)

(***************************************************************************)
(* The backlog is within the cap, and the fatal condition of enforce_cap   *)
(* is never met: what drain() leaves behind is always short of the cap,    *)
(* because the code waits only for frames that fit in it.                  *)
(***************************************************************************)
StaysHealthy == healthy /\ Len(buf) <= buf_cap

(***************************************************************************)
(* A turn of drain() that asks for another one has discarded or delivered  *)
(* something, never more than there is: the loop ends, whatever is in the  *)
(* backlog ("the parser never stalls on garbage").                         *)
(***************************************************************************)
DrainEnds ==
    pc \in {"loop", "last"} =>
        LET r == try_parse_one(buf)
        IN  r.status # "NeedMore" => r.skip \in 1..Len(buf)
=============================================================================
