------------------------- MODULE StreamParserProofs -------------------------
(***************************************************************************)
(* For every stream, every way of cutting it and every max_msg_len, the    *)
(* drain loop ends and the parser never meets its fatal condition.  Both   *)
(* rest on one fact about try_parse_one: it discards at least one and at   *)
(* most all symbols, or it asks for more with a backlog short of the cap.  *)
(***************************************************************************)
EXTENDS StreamParser, WellFoundedInduction, TLAPS

\* A set of naturals has a least member.
LEMMA LeastOf ==
    ASSUME NEW T \in SUBSET Nat, T # {}
    PROVE  \E x \in T : \A y \in T : x <= y
<1> DEFINE R == {ss \in Nat \X Nat : ss[1] < ss[2]}
<1>1. OpToRel(<, Nat) = R
  BY DEF OpToRel
<1>2. IsWellFoundedOn(R, Nat)
  BY NatLessThanWellFounded, <1>1, Zenon
<1>3. \E x \in T : \A y \in T : ~ (<<y, x>> \in R)
  <2> HIDE DEF R
  <2> QED BY <1>2, WFMin, Zenon
<1>4. PICK x \in T : \A y \in T : ~ (<<y, x>> \in R)
  BY <1>3
<1>5. \A y \in T : x <= y
  <2> TAKE y \in T
  <2>1. x \in Nat /\ y \in Nat
    OBVIOUS
  <2>2. ~ (<<y, x>> \in R)
    BY <1>4
  <2>3. ~ (y < x)
    BY <2>1, <2>2
  <2> QED BY <2>1, <2>3
<1> QED BY <1>5

\* Find returns a position of the sequence or the one behind it.
LEMMA FindInRange ==
    ASSUME NEW s \in Seq(Nat), NEW k \in Nat \ {0}, NEW S
    PROVE  Find(s, k, S) \in 1..(Len(s) + 1)
<1> DEFINE hits == {j \in k..Len(s) : s[j] \in S}
<1>1. CASE hits = {}
  BY <1>1 DEF Find
<1>2. CASE hits # {}
  <2>1. hits \in SUBSET Nat
    OBVIOUS
  <2>2. \E j \in hits : \A i \in hits : j <= i
    <3> HIDE DEF hits
    <3> QED BY <1>2, <2>1, LeastOf, Zenon
  <2>3. Find(s, k, S) \in hits
    BY <1>2, <2>2, Zenon DEF Find
  <2> QED BY <2>3
<1> QED BY <1>1, <1>2

\* A field lies within what parse_field was given.
LEMMA FieldFits ==
    ASSUME NEW s \in Seq(Nat)
    PROVE  /\ parse_field(s).len \in 0..Len(s)
           /\ parse_field(s).value \in Seq(Nat)
           /\ parse_field(s).status = "Ok" => parse_field(s).len > 0
<1> DEFINE eq == Find(s, 1, {EQ, SOH})
           soh == Find(s, eq + 1, {SOH})
<1>1. eq \in 1..(Len(s) + 1)
  BY FindInRange
<1>2. soh \in 1..(Len(s) + 1)
  <2>1. eq + 1 \in Nat \ {0}
    BY <1>1
  <2> HIDE DEF eq
  <2> QED BY <2>1, FindInRange
<1>3. SubSeq(s, eq + 1, soh - 1) \in Seq(Nat)
  <2> HIDE DEF eq, soh
  <2>1. \A i \in (eq + 1)..(soh - 1) : s[i] \in Nat
    BY <1>1, <1>2
  <2> QED BY <2>1, <1>1, <1>2
<1>4. \/ \E why \in {"Incomplete", "Invalid"} : parse_field(s) = Bad(why)
      \/ /\ ~ (soh > Len(s))
         /\ parse_field(s) = [status |-> "Ok", tag |-> Number(SubSeq(s, 1, eq - 1)),
                              value |-> SubSeq(s, eq + 1, soh - 1), len |-> soh]
  BY DEF parse_field
<1>5. CASE \E why \in {"Incomplete", "Invalid"} : parse_field(s) = Bad(why)
  BY <1>5 DEF Bad
<1>6. CASE /\ ~ (soh > Len(s))
           /\ parse_field(s) = [status |-> "Ok", tag |-> Number(SubSeq(s, 1, eq - 1)),
                                value |-> SubSeq(s, eq + 1, soh - 1), len |-> soh]
  <2> HIDE DEF eq, soh
  <2> QED BY <1>2, <1>3, <1>6
<1> QED BY <1>4, <1>5, <1>6, Zenon

\* What is left when k symbols are dropped.
LEMMA DropFits ==
    ASSUME NEW s \in Seq(Nat), NEW k \in 0..Len(s)
    PROVE  Drop(s, k) \in Seq(Nat) /\ Len(Drop(s, k)) = Len(s) - k
<1>1. \A i \in (k + 1)..Len(s) : s[i] \in Nat
  OBVIOUS
<1> QED BY <1>1 DEF Drop

\* resync_scan discards no more than there is, and nothing only when the
\* sequence is aligned or no longer than the tail.
LEMMA ResyncFits ==
    ASSUME NEW s \in Seq(Nat)
    PROVE  /\ resync_scan(s) \in 0..Len(s)
           /\ Len(s) >= 2 /\ ~StartsFrame(s, 1) /\ resync_scan(s) = 0
                  => Len(s) <= kKeepTail
<1> DEFINE window == Least(Len(s), max_msg_len)
           starts == {k \in 1..(window - 1) : StartsFrame(s, k)}
<1>1. CASE Len(s) < 2
  BY <1>1 DEF resync_scan
<1>2. CASE Len(s) >= 2 /\ starts # {}
  <2>1. window \in Nat /\ window <= Len(s)
    BY ParserConstants DEF Least
  <2>2. starts \in SUBSET Nat
    BY <2>1
  <2>3. PICK k : k = CHOOSE j \in starts : \A i \in starts : j <= i
    OBVIOUS
  <2>4. k \in starts
    <3>1. \E j \in starts : \A i \in starts : j <= i
      <4> HIDE DEF starts
      <4> QED BY <1>2, <2>2, LeastOf
    <3> HIDE DEF starts
    <3> QED BY <2>3, <3>1
  <2>5. resync_scan(s) = k - 1
    BY <1>2, <2>3 DEF resync_scan
  <2>6. k \in 1..(window - 1) /\ StartsFrame(s, k)
    BY <2>4
  <2> HIDE DEF window, starts
  <2>7. k - 1 \in 0..Len(s)
    BY <2>1, <2>6
  <2>8. k - 1 = 0 => StartsFrame(s, 1)
    <3>1. k - 1 = 0 => k = 1
      BY <2>1, <2>6
    <3> QED BY <3>1, <2>6
  <2> QED BY <2>5, <2>7, <2>8
<1>3. CASE Len(s) >= 2 /\ starts = {}
  <2>1. resync_scan(s) = Len(s) - Least(Len(s), kKeepTail)
    BY <1>3 DEF resync_scan
  <2> QED BY <2>1, ParserConstants DEF Least
<1> QED BY <1>1, <1>2, <1>3

\* What try_parse_one and its parts return: progress within s, or a wait
\* with a backlog short of the cap.
Fits(s, r) ==
    /\ r.status \in {"NeedMore", "Error", "Message"}
    /\ r.status # "NeedMore" => r.skip \in 1..Len(s)
    /\ r.status = "NeedMore" => r.skip = 0 /\ Len(s) < buf_cap

\* Asking for more input consumes nothing, and is an answer while the buffer has room.
LEMMA NeedMoreFits ==
    ASSUME NEW s, Len(s) < buf_cap
    PROVE  Fits(s, NeedMore)
BY DEF Fits, NeedMore

\* skip_frame consumes at least one symbol and no more than there are.
LEMMA SkipFits ==
    ASSUME NEW s \in Seq(Nat), Len(s) >= 1, NEW n \in Nat
    PROVE  Fits(s, skip_frame(s, n))
<1> DEFINE k == Least(Greatest(n, 1), Len(s))
<1>1. k \in 1..Len(s)
  BY DEF Least, Greatest
<1>2. Drop(s, k) \in Seq(Nat) /\ Len(Drop(s, k)) = Len(s) - k
  <2> HIDE DEF k
  <2> QED BY <1>1, DropFits
<1>3. resync_scan(Drop(s, k)) \in 0..(Len(s) - k)
  <2> HIDE DEF k
  <2> QED BY <1>2, ResyncFits
<1>4. skip_frame(s, n) = [status |-> "Error", skip |-> k + resync_scan(Drop(s, k)),
                          dup |-> FALSE]
  BY DEF skip_frame
<1>5. k + resync_scan(Drop(s, k)) \in 1..Len(s)
  <2> HIDE DEF k
  <2> QED BY <1>1, <1>3
<1> QED BY <1>4, <1>5 DEF Fits

\* So does cutting out a frame that ends inside the buffer.
LEMMA TakeFits ==
    ASSUME NEW s \in Seq(Nat), NEW body_end \in Nat \ {0}, NEW dup \in BOOLEAN,
           body_end + kTrailerBytes <= Len(s)
    PROVE  Fits(s, TakeFrame(s, body_end, dup))
<1> DEFINE frame_end == body_end + kTrailerBytes
<1>1. frame_end \in 1..Len(s) /\ Len(s) >= 1 /\ frame_end \in Nat
  BY ParserConstants
<1>2. \/ TakeFrame(s, body_end, dup) = skip_frame(s, body_end)
      \/ TakeFrame(s, body_end, dup) = skip_frame(s, frame_end)
      \/ TakeFrame(s, body_end, dup)
            = [status |-> "Message", skip |-> frame_end, dup |-> dup]
  BY DEF TakeFrame
<1>3. Fits(s, skip_frame(s, body_end)) /\ Fits(s, skip_frame(s, frame_end))
  <2> HIDE DEF frame_end
  <2> QED BY <1>1, SkipFits
<1>4. Fits(s, [status |-> "Message", skip |-> frame_end, dup |-> dup])
  BY <1>1 DEF Fits
<1> QED BY <1>2, <1>3, <1>4

\* Whatever is decided once the body length is known: progress, or a wait for the rest.
LEMMA FrameFits ==
    ASSUME NEW s \in Seq(Nat), NEW begin, NEW body_start \in Nat \ {0},
           NEW body_length \in Nat, body_start <= Len(s)
    PROVE  Fits(s, FrameOf(s, begin, body_start, body_length))
<1> DEFINE body_end == body_start + body_length
           frame_end == body_end + kTrailerBytes
           fields == BodyFields(s, body_start, body_end)
           unusable == {k \in fields : Unusable(s, body_start, body_end, k)}
           first == CHOOSE k \in unusable : \A j \in unusable : k <= j
           dup == \E k \in fields : Repeated(s, body_start, body_end, k)
           to == IF FieldAt(s, body_end, first).status = "Incomplete"
                 THEN body_end ELSE first
<1>1. /\ body_end \in Nat \ {0} /\ frame_end \in Nat /\ buf_cap \in Nat
      /\ max_msg_len <= buf_cap /\ Len(s) >= 1
  BY ParserConstants DEF buf_cap
<1>2. \/ FrameOf(s, begin, body_start, body_length) = NeedMore
            /\ Len(s) < frame_end
            /\ (frame_end <= buf_cap \/ ~(frame_end > max_msg_len))
      \/ FrameOf(s, begin, body_start, body_length) = skip_frame(s, frame_end)
      \/ FrameOf(s, begin, body_start, body_length) = skip_frame(s, body_start)
      \/ FrameOf(s, begin, body_start, body_length) = skip_frame(s, to)
            /\ unusable # {}
      \/ FrameOf(s, begin, body_start, body_length) = TakeFrame(s, body_end, dup)
            /\ ~(Len(s) < frame_end)
  BY Zenon DEF FrameOf
<1>3. unusable # {} => to \in Nat
  <2>1. unusable \in SUBSET Nat
    BY DEF BodyFields
  <2>2. ASSUME unusable # {} PROVE first \in Nat
    <3>1. \E k \in unusable : \A j \in unusable : k <= j
      <4> HIDE DEF unusable
      <4> QED BY <2>1, <2>2, LeastOf
    <3>2. first \in unusable
      <4> HIDE DEF unusable
      <4> QED BY <3>1
    <3> QED BY <2>1, <3>2
  <2> HIDE DEF first, unusable
  <2> QED BY <1>1, <2>2
<1>4. CASE FrameOf(s, begin, body_start, body_length) = NeedMore
            /\ Len(s) < frame_end
            /\ (frame_end <= buf_cap \/ ~(frame_end > max_msg_len))
  <2>1. Len(s) < buf_cap
    <3> HIDE DEF frame_end
    <3> QED BY <1>1, <1>4, ParserConstants
  <2> QED BY <1>4, <2>1, NeedMoreFits
<1>5. CASE FrameOf(s, begin, body_start, body_length) = skip_frame(s, frame_end)
  <2> HIDE DEF frame_end
  <2> QED BY <1>1, <1>5, SkipFits
<1>6. CASE FrameOf(s, begin, body_start, body_length) = skip_frame(s, body_start)
  BY <1>1, <1>6, SkipFits
<1>7. CASE FrameOf(s, begin, body_start, body_length) = skip_frame(s, to)
            /\ unusable # {}
  <2> HIDE DEF to, unusable
  <2> QED BY <1>1, <1>3, <1>7, SkipFits
<1>8. CASE FrameOf(s, begin, body_start, body_length) = TakeFrame(s, body_end, dup)
            /\ ~(Len(s) < frame_end)
  <2>1. dup \in BOOLEAN
    OBVIOUS
  <2>2. body_end + kTrailerBytes <= Len(s)
    BY <1>1, <1>8
  <2> HIDE DEF dup, body_end
  <2> QED BY <1>1, <1>8, <2>1, <2>2, TakeFits
<1> HIDE DEF body_end, frame_end, unusable, dup, to
<1> QED BY <1>2, <1>4, <1>5, <1>6, <1>7, <1>8

\* The length and type of a part of a sequence.
LEMMA SubSeqFits ==
    ASSUME NEW s \in Seq(Nat), NEW a \in Nat \ {0}, NEW b \in Nat,
           a <= b + 1, b <= Len(s)
    PROVE  SubSeq(s, a, b) \in Seq(Nat) /\ Len(SubSeq(s, a, b)) = b - a + 1
<1>1. \A i \in a..b : s[i] \in Nat
  OBVIOUS
<1> QED BY <1>1

\* What the parser reads as a number is one.
LEMMA NumberIsNat ==
    ASSUME NEW run \in Seq(Nat), IsNumber(run)
    PROVE  Number(run) \in Nat
<1>1. Len(run) = 1 \/ Len(run) = 2
  BY DEF IsNumber
<1>2. CASE Len(run) = 1
  BY <1>2 DEF Number
<1>3. CASE Len(run) = 2
  <2>1. \A i \in 1..Len(run) : run[i] \in Nat
    OBVIOUS
  <2>2. run[1] \in Nat /\ run[2] \in Nat
    BY <1>3, <2>1
  <2> QED BY <1>3, <2>2 DEF Number, NUL
<1> QED BY <1>1, <1>2, <1>3

\* The answer of try_parse_one from BodyLength on.
LEMMA AfterFits ==
    ASSUME NEW s \in Seq(Nat), NEW begin, NEW pos \in Nat \ {0},
           pos <= Len(s), pos <= kMaxHeaderScan
    PROVE  Fits(s, AfterBegin(s, begin, pos))
<1> DEFINE to == Least(Len(s), pos + kMaxHeaderScan)
           f == parse_field(SubSeq(s, pos + 1, to))
<1>1. to \in Nat /\ pos <= to /\ to <= Len(s)
  BY ParserConstants DEF Least
<1>2. SubSeq(s, pos + 1, to) \in Seq(Nat) /\ Len(SubSeq(s, pos + 1, to)) = to - pos
  <2> HIDE DEF to
  <2> QED BY <1>1, SubSeqFits
<1>3. f.len \in 0..(to - pos) /\ f.value \in Seq(Nat)
  <2> HIDE DEF to
  <2> QED BY <1>2, FieldFits, Zenon
<1>4. \/ AfterBegin(s, begin, pos) = NeedMore /\ Len(s) - pos < kMaxHeaderScan
      \/ AfterBegin(s, begin, pos) = skip_frame(s, pos)
      \/ AfterBegin(s, begin, pos) = skip_frame(s, pos + f.len)
      \/ AfterBegin(s, begin, pos) = FrameOf(s, begin, pos + f.len, Number(f.value))
            /\ IsNumber(f.value)
  BY DEF AfterBegin
<1> HIDE DEF to, f
<1>5. pos + f.len \in Nat \ {0} /\ pos + f.len <= Len(s) /\ Len(s) >= 1
  <2>1. \A p, n, t, l \in Nat :
            p # 0 /\ p <= t /\ t <= l /\ n <= t - p => p + n # 0 /\ p + n <= l /\ l >= 1
    OBVIOUS
  <2>2. f.len \in Nat /\ f.len <= to - pos /\ Len(s) \in Nat
    BY <1>1, <1>3
  <2> QED
    BY <1>1, <2>1, <2>2
<1>6. CASE AfterBegin(s, begin, pos) = NeedMore /\ Len(s) - pos < kMaxHeaderScan
  <2>1. Len(s) < buf_cap
    BY <1>6, ParserConstants DEF buf_cap
  <2> QED BY <1>6, <2>1, NeedMoreFits
<1>7. CASE AfterBegin(s, begin, pos) = skip_frame(s, pos)
  BY <1>5, <1>7, SkipFits
<1>8. CASE AfterBegin(s, begin, pos) = skip_frame(s, pos + f.len)
  BY <1>5, <1>8, SkipFits
<1>9. CASE AfterBegin(s, begin, pos) = FrameOf(s, begin, pos + f.len, Number(f.value))
            /\ IsNumber(f.value)
  BY <1>3, <1>5, <1>9, NumberIsNat, FrameFits
<1> QED BY <1>4, <1>6, <1>7, <1>8, <1>9

(***************************************************************************)
(* try_parse_one on any backlog: it discards or delivers at least one      *)
(* symbol and at most all, or it asks for more and the backlog is short of *)
(* the cap.                                                                *)
(***************************************************************************)
LEMMA TryFits ==
    ASSUME NEW s \in Seq(Nat)
    PROVE  Fits(s, try_parse_one(s))
<1> DEFINE to == Least(Len(s), kMaxHeaderScan)
           f == parse_field(SubSeq(s, 1, to))
           dropped == resync_scan(s)
<1>1. to \in Nat /\ to <= Len(s) /\ to <= kMaxHeaderScan
  BY ParserConstants DEF Least
<1>2. SubSeq(s, 1, to) \in Seq(Nat) /\ Len(SubSeq(s, 1, to)) = to
  <2> HIDE DEF to
  <2> QED BY <1>1, SubSeqFits
<1>3. f.len \in 0..to /\ (f.status = "Ok" => f.len > 0)
  <2> HIDE DEF to
  <2> QED BY <1>2, FieldFits, Zenon
<1>4. /\ dropped \in 0..Len(s)
      /\ Len(s) >= 2 /\ ~StartsFrame(s, 1) /\ dropped = 0 => Len(s) <= kKeepTail
  BY ResyncFits
<1>5. \/ /\ try_parse_one(s) = NeedMore
         /\ \/ Len(s) < 2
            \/ ~(Len(s) < 2) /\ ~StartsFrame(s, 1) /\ ~(dropped > 0)
            \/ Len(s) < kMinMsgLen
            \/ Len(s) < kMaxHeaderScan
      \/ /\ try_parse_one(s) = [status |-> "Error", skip |-> dropped, dup |-> FALSE]
         /\ dropped > 0
      \/ try_parse_one(s) = skip_frame(s, 1) /\ ~(Len(s) < 2)
      \/ /\ try_parse_one(s) = AfterBegin(s, f.value, f.len)
         /\ f.status = "Ok"
  BY DEF try_parse_one
<1> HIDE DEF to, f, dropped
<1>6. CASE /\ try_parse_one(s) = NeedMore
           /\ \/ Len(s) < 2
              \/ ~(Len(s) < 2) /\ ~StartsFrame(s, 1) /\ ~(dropped > 0)
              \/ Len(s) < kMinMsgLen
              \/ Len(s) < kMaxHeaderScan
  <2>1. Len(s) < buf_cap
    <3>1. ~(Len(s) < 2) /\ ~StartsFrame(s, 1) /\ ~(dropped > 0) => Len(s) <= kKeepTail
      BY <1>4
    <3> QED BY <1>6, <3>1, ParserConstants DEF buf_cap
  <2> QED BY <1>6, <2>1, NeedMoreFits
<1>7. CASE /\ try_parse_one(s) = [status |-> "Error", skip |-> dropped, dup |-> FALSE]
           /\ dropped > 0
  BY <1>4, <1>7 DEF Fits
<1>8. CASE try_parse_one(s) = skip_frame(s, 1) /\ ~(Len(s) < 2)
  BY <1>8, SkipFits
<1>9. CASE /\ try_parse_one(s) = AfterBegin(s, f.value, f.len)
           /\ f.status = "Ok"
  <2>1. f.len \in Nat \ {0} /\ f.len <= Len(s) /\ f.len <= kMaxHeaderScan
    BY <1>1, <1>3, <1>9, ParserConstants
  <2> QED BY <1>9, <2>1, AfterFits
<1> QED BY <1>5, <1>6, <1>7, <1>8, <1>9

----------------------------------------------------------------------------
\* The inductive invariant: the types, a healthy parser, something to append
\* while feed() loops, and room for it when drain() has asked for more.
HealthInv ==
    /\ stream \in Streams /\ fed \in Nat
    /\ buf \in Seq(Nat) /\ input \in Seq(Nat)
    /\ pc \in {"idle", "loop", "append", "last"}
    /\ healthy = TRUE /\ Len(buf) <= buf_cap
    /\ pc \in {"loop", "append"} => Len(input) > 0
    /\ pc = "append" => Len(buf) < buf_cap

\* A new parser is healthy ...
LEMMA HealthInit == Init => HealthInv
BY ParserConstants DEF Init, HealthInv, buf_cap

\* ... feed() starts with its whole input ahead of it ...
LEMMA HealthFeed ==
    ASSUME HealthInv, NEW n \in Chunks, Feed(n)
    PROVE  HealthInv'
<1>1. stream.wire \in Seq(Nat) /\ n \in Nat \ {0}
  BY ParserConstants DEF HealthInv
<1>2. fed + n <= Len(stream.wire) /\ fed' = fed + n /\ healthy = TRUE
  BY DEF Feed, HealthInv
<1>3. /\ SubSeq(stream.wire, fed + 1, fed + n) \in Seq(Nat)
      /\ Len(SubSeq(stream.wire, fed + 1, fed + n)) = n
  <2>1. fed + 1 \in Nat \ {0} /\ fed + n \in Nat /\ fed + 1 <= fed + n + 1
    BY <1>1 DEF HealthInv
  <2> QED BY <1>1, <1>2, <2>1, SubSeqFits DEF HealthInv
<1>4. input' = SubSeq(stream.wire, fed + 1, fed + n) /\ pc' = "loop"
  BY <1>2 DEF Feed
<1> QED BY <1>1, <1>2, <1>3, <1>4 DEF HealthInv, Feed

\* ... a parse attempt leaves room in the buffer if it asks for more ...
LEMMA HealthTry ==
    ASSUME HealthInv, TryParseOne
    PROVE  HealthInv'
<1> DEFINE r == try_parse_one(buf)
<1>1. Fits(buf, r)
  BY TryFits DEF HealthInv
<1>2. r.skip \in 0..Len(buf) /\ (r.status = "NeedMore" => Len(buf) < buf_cap)
  <2> HIDE DEF r
  <2> QED BY <1>1 DEF Fits, HealthInv
<1>3. buf' = Drop(buf, r.skip)
  BY DEF TryParseOne
<1>4. pc' = IF r.status # "NeedMore" THEN pc ELSE IF pc = "loop" THEN "append" ELSE "idle"
  BY DEF TryParseOne
<1>5. UNCHANGED <<stream, fed, input, healthy>> /\ pc \in {"loop", "last"}
  BY DEF TryParseOne
<1> HIDE DEF r
<1>6. buf' \in Seq(Nat) /\ Len(buf') = Len(buf) - r.skip
  BY <1>2, <1>3, DropFits, SMTT(30) DEF HealthInv
<1>7. Len(buf') <= buf_cap /\ (pc' = "append" => Len(buf') < buf_cap)
  <2>1. Len(buf) \in Nat /\ Len(buf) <= buf_cap /\ buf_cap \in Nat
    BY ParserConstants DEF HealthInv, buf_cap
  <2>2. pc' = "append" => Len(buf) < buf_cap
    BY <1>2, <1>4, <1>5, Zenon
  <2>3. Len(buf') <= Len(buf)
    BY <1>2, <1>6, <2>1
  <2> QED
    BY <1>6, <2>1, <2>2, <2>3
<1> QED BY <1>4, <1>5, <1>6, <1>7 DEF HealthInv

\* ... an append takes at least one symbol and stays within buf_cap ...
LEMMA HealthAppend ==
    ASSUME HealthInv, AppendBytes
    PROVE  HealthInv'
<1> DEFINE n == Least(Len(input), buf_cap - Len(buf))
<1>1. buf_cap \in Nat /\ pc = "append"
  BY ParserConstants DEF buf_cap, AppendBytes
<1>2. n \in 1..Len(input) /\ n <= buf_cap - Len(buf)
  BY <1>1 DEF HealthInv, Least
<1>3. /\ buf' = buf \o SubSeq(input, 1, n) /\ input' = Drop(input, n)
      /\ pc' = IF n = Len(input) THEN "last" ELSE "loop"
      /\ UNCHANGED healthy
  BY <1>2 DEF AppendBytes
<1>4. UNCHANGED <<stream, fed>>
  BY DEF AppendBytes
<1> HIDE DEF n
<1>5. SubSeq(input, 1, n) \in Seq(Nat) /\ Len(SubSeq(input, 1, n)) = n
  BY <1>2, SubSeqFits DEF HealthInv
<1>6. buf' \in Seq(Nat) /\ Len(buf') = Len(buf) + n
  BY <1>3, <1>5, SMTT(30) DEF HealthInv
<1>7. input' \in Seq(Nat) /\ Len(input') = Len(input) - n
  BY <1>2, <1>3, DropFits, SMTT(30) DEF HealthInv
<1> QED BY <1>1, <1>2, <1>3, <1>4, <1>6, <1>7 DEF HealthInv

\* ... so every step keeps the parser healthy.
LEMMA HealthStep == HealthInv /\ [Next]_vars => HealthInv'
<1> SUFFICES ASSUME HealthInv, [Next]_vars PROVE HealthInv'
  OBVIOUS
<1>1. ASSUME NEW n \in Chunks, Feed(n) PROVE HealthInv'
  BY <1>1, HealthFeed
<1>2. CASE TryParseOne
  BY <1>2, HealthTry
<1>3. CASE AppendBytes
  BY <1>3, HealthAppend
<1>4. CASE NextMessage
  BY <1>4 DEF NextMessage, HealthInv
<1>5. CASE Reset
  BY <1>5, ParserConstants DEF Reset, Cleared, HealthInv, buf_cap
<1>6. CASE Connect
  BY <1>6, ParserConstants DEF Connect, Cleared, HealthInv, buf_cap
<1>7. CASE UNCHANGED vars
  BY <1>7 DEF vars, HealthInv
<1> QED BY <1>1, <1>2, <1>3, <1>4, <1>5, <1>6, <1>7 DEF Next

\* The inductive invariant holds throughout.
LEMMA AlwaysHealthInv == Spec => []HealthInv
BY HealthInit, HealthStep, PTL DEF Spec

(***************************************************************************)
(* The fatal condition of enforce_cap is never met, and the backlog is     *)
(* within the cap, for every stream, every cut and every max_msg_len.      *)
(***************************************************************************)
THEOREM AlwaysHealthy == Spec => []StaysHealthy
<1>1. HealthInv => StaysHealthy
  BY DEF HealthInv, StaysHealthy
<1> QED BY <1>1, AlwaysHealthInv, PTL

(***************************************************************************)
(* drain() terminates: each of its turns but the last shortens the backlog.*)
(***************************************************************************)
THEOREM DrainAlwaysEnds == Spec => []DrainEnds
<1>1. HealthInv => DrainEnds
  <2> SUFFICES ASSUME HealthInv PROVE DrainEnds
    OBVIOUS
  <2>1. Fits(buf, try_parse_one(buf))
    BY TryFits DEF HealthInv
  <2> QED BY <2>1 DEF Fits, DrainEnds
<1> QED BY <1>1, AlwaysHealthInv, PTL
=============================================================================
