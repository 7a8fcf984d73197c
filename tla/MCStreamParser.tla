--------------------------- MODULE MCStreamParser ---------------------------
EXTENDS StreamParser, SequencesExt

\* A correct frame around a body, and a frame that announces n instead.
FrameWith(n, body) ==
    LET front == <<BeginString, EQ, 42, SOH, BodyLength, EQ, n, SOH>> \o body
    IN  front \o <<CheckSum, EQ, compute_checksum(front), SOH>>

Frame(body) == FrameWith(Len(body), body)

Plain(v) == <<MsgType, EQ, v, SOH>>

Whole(body) == [wire |-> Frame(body), whole |-> TRUE, dup |-> FALSE, reach |-> 0]

Broken(wire, reach) == [wire |-> wire, whole |-> FALSE, dup |-> FALSE, reach |-> reach]

\* A frame with a repeated header tag, and one with "8=" inside its body.
Repeats == [Whole(Plain(5) \o Plain(6)) EXCEPT !.dup = TRUE]
FalseStart == Whole(<<3, 8, EQ, 7, SOH>>)

Without(s, k) == SubSeq(s, 1, k - 1) \o SubSeq(s, k + 1, Len(s))

\* One symbol of a frame lost, or turned into another one.
Garbles(s) ==
    ({Broken(Without(s, k), 0) : k \in DOMAIN s} \cup
     {Broken([s EXCEPT ![k] = b], 0) : k \in DOMAIN s, b \in {NOISE, NUL, SOH, EQ}})
        \ {Broken(s, 0)}

\* Frames that announce a length they do not have.  Up to max_msg_len, more
\* than that but within the cap, and beyond the cap.
Claims(body, lengths) ==
    {Broken(FrameWith(n, body),
            IF n + 12 > max_msg_len /\ n + 12 <= buf_cap THEN n + 12 ELSE 0) :
        n \in lengths \ {Len(body)}}

Lies ==
    Claims(Plain(7), {0, 3, 5, 8, 12, 16, 20, 24, 32, 33, 90})
        \cup {Broken(Frame(FlattenSeq([k \in 1..7 |-> Plain(k)])), 40)}

Noises == {Broken(<<NOISE, NOISE, NOISE, NOISE>>, 0), Broken(<<NOISE, 8>>, 0)}

\* Frames cut short: the frame behind one may be read as its end and is
\* skipped with it, the frame after that may not.
Cuts(s) == {Broken(SubSeq(s, 1, k), k + Len(Frame(Plain(2)))) : k \in 1..(Len(s) - 1)}

Made ==
    {<<d, Whole(Plain(2))>> : d \in Noises \cup Garbles(FalseStart.wire)}
        \cup {<<d, Whole(Plain(2)), Whole(Plain(3))>> :
                 d \in Lies \cup Cuts(Frame(Plain(7))) \cup Garbles(Frame(Plain(7)))}
        \cup {<<FalseStart, Repeats, Whole(Plain(3))>>}

\* The pieces one after the other.
Wire(m) == FlattenSeq([k \in DOMAIN m |-> m[k].wire])

TheStreams ==
    {[wire |-> Wire(m),
      pieces |-> [k \in DOMAIN m |->
                     [at |-> Len(Wire(SubSeq(m, 1, k - 1))), len |-> Len(m[k].wire),
                      whole |-> m[k].whole, dup |-> m[k].dup, reach |-> m[k].reach]]] :
        m \in Made}
=============================================================================
