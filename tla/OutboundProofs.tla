--------------------------- MODULE OutboundProofs ---------------------------
(***************************************************************************)
(* What leaves a session.  First the replay loop, for every history and    *)
(* every window: the frames it emits tile the window, no fill covers a     *)
(* message that could be resent, and they are the set Replay.  The cursor  *)
(* never passes pos, and what lies between them is the hole the next fill  *)
(* will cover.  Then the numbers the send path puts on the wire, for any   *)
(* number of threads and any range of sequence numbers: the inductive      *)
(* invariant says who holds send_mutex_, that a claim in progress is the   *)
(* last number claimed, and that everything sent fresh so far lies below   *)
(* it.                                                                     *)
(***************************************************************************)
EXTENDS ResendReplay, SendPath, TLAPS

(* The frames of a replay. *)

\* The small numbers the handlers assign are in the ranges they are assigned to.
LEMMA Zeros ==
    /\ 0 \in SeqNum /\ 1 \in SeqNum /\ 0 \in Int64 /\ 1 \in Int32 /\ 0 \in Int32
    /\ 0 \in 0 .. kMaxGapRetries /\ 1 \in 0 .. kMaxGapRetries
  BY SessionConstants DEF SeqNum, Int64, Int32

\* static_cast<int64_t> of a sequence number.
LEMMA SignedType ==
    ASSUME NEW n \in SeqNum
    PROVE  Signed(n) \in Int64
  BY SessionConstants DEF Signed, SeqNum, Int64

\* What flush_gap sends is a message marked PossDup.
LEMMA GapFillType ==
    ASSUME NEW from \in SeqNum, NEW to \in SeqNum
    PROVE  GapFill(from, to) \in Message /\ GapFill(from, to).dup
<1>1. Signed(to) \in Int64
  BY SignedType, Zenon
<1> QED
  BY <1>1, Zeros, Zenon DEF GapFill, Msg, Message, MsgTypes, AdminTypes

\* What the replay loop sends for a stored frame is a message marked PossDup.
LEMMA ResentType ==
    ASSUME NEW n \in SeqNum, NEW e \in Stored, Replayable(e)
    PROVE  Resent(n, e) \in Message /\ Resent(n, e).dup
<1>1. e = "reject" \/ e \in Bodies
  BY Zenon DEF Stored, Replayable
<1> QED
  BY <1>1, Zeros, Zenon DEF Resent, Msg, Message, MsgTypes, AdminTypes

\* Everything a replay emits is a message marked PossDup.
LEMMA ReplayType ==
    ASSUME NEW h \in [SeqNum -> Stored], NEW b \in SeqNum, NEW l \in Int,
           l + 1 \in SeqNum, NEW m \in Replay(h, b, l)
    PROVE  m \in Message /\ m.dup
<1>1. b .. l \subseteq SeqNum /\ \A k \in b .. l : k + 1 \in SeqNum
  BY SessionConstants DEF SeqNum
<1>2. CASE \E k \in b .. l : Replayable(h[k]) /\ m = Resent(k, h[k])
  BY <1>1, <1>2, ResentType, Zenon
<1>3. CASE \E p \in (b .. l) \X (b .. l) : m = GapFill(p[1], p[2] + 1)
  BY <1>1, <1>3, GapFillType, Zenon
<1> QED
  BY <1>2, <1>3, Zenon DEF Replay


----------------------------------------------------------------------------
(* The replay loop. *)

\* The frames of S account for lo .. hi - 1, each number once.
Tiled(S, lo, hi) ==
    /\ \A n \in lo .. hi - 1 : \E m \in S : n \in Covers(m)
    /\ \A m \in S : Covers(m) \subseteq lo .. hi - 1
    /\ \A m1, m2 \in S : m1 # m2 => Covers(m1) \cap Covers(m2) = {}

\* A fill of S covers no message other than those of U.
FillsOnly(S, U) ==
    \A m \in S : m.type = "SequenceReset" =>
        \A n \in Covers(m) : Replayable(snap[n]) => n \in U

HoleBehindCursor ==
    /\ cursor <= pos
    /\ \A n \in cursor .. pos - 1 : ~Replayable(snap[n])

TilingInv == InWindow /\ HoleBehindCursor /\ WindowTiled /\ NothingFilledOver

----------------------------------------------------------------------------
\* A fill covers the numbers up to its NewSeqNo, which survives the conversion to
\* a signed field and back.
LEMMA GapFillCovers ==
    ASSUME NEW from \in SeqNum, NEW to \in SeqNum
    PROVE  GapFill(from, to).type = "SequenceReset" /\ Covers(GapFill(from, to)) = from .. to - 1
<1>1. Cast(Signed(to)) = to
  BY SessionConstants DEF Cast, Signed, SeqNum
<1>2. GapFill(from, to).type = "SequenceReset" /\ GapFill(from, to).seq = from
      /\ GapFill(from, to).new = Signed(to)
  BY Zenon DEF GapFill, Msg
<1> QED
  BY <1>1, <1>2, Zenon DEF Covers

\* A message sent again covers its own number.
LEMMA ResentCovers ==
    ASSUME NEW n \in SeqNum, NEW e
    PROVE  Resent(n, e).type # "SequenceReset" /\ Covers(Resent(n, e)) = n .. n
<1>1. Resent(n, e).type \in {"BusinessReject", "App"} /\ Resent(n, e).seq = n
  BY Zenon DEF Resent, Msg
<1>2. {n} = n .. n
  BY SessionConstants DEF SeqNum
<1> QED
  BY <1>1, <1>2, Zenon DEF Covers

\* A frame that starts where the others end extends the tiling.
LEMMA TilingExtends ==
    ASSUME NEW S, NEW lo \in Int, NEW k \in Int, NEW hi \in Int, lo <= k, k <= hi,
           Tiled(S, lo, k), NEW m, Covers(m) = k .. hi - 1
    PROVE  Tiled(S \cup {m}, lo, hi)
<1>1. \A n \in lo .. hi - 1 : \E x \in S \cup {m} : n \in Covers(x)
  BY DEF Tiled
<1>2. \A x \in S \cup {m} : Covers(x) \subseteq lo .. hi - 1
  BY DEF Tiled
<1>3. \A x \in S : Covers(x) \cap Covers(m) = {}
  BY DEF Tiled
<1>4. \A m1, m2 \in S \cup {m} : m1 # m2 => Covers(m1) \cap Covers(m2) = {}
  BY <1>3, Zenon DEF Tiled
<1> QED
  BY <1>1, <1>2, <1>4, Zenon DEF Tiled

\* flush_gap closes the hole behind the cursor, and nothing else.
LEMMA FlushCloses ==
    ASSUME TilingInv, NEW up \in SeqNum, cursor <= up,
           \A n \in cursor .. up - 1 : ~Replayable(snap[n])
    PROVE  LET S == sent \cup flush_gap(up)
           IN  Tiled(S, begin, up) /\ FillsOnly(S, untagged) /\ S \subseteq Message
<1>1. cursor \in SeqNum /\ begin \in Int /\ cursor \in Int /\ up \in Int /\ begin <= cursor
  BY SessionConstants DEF TilingInv, InWindow, SeqNum
<1>2. Tiled(sent, begin, cursor) /\ FillsOnly(sent, untagged) /\ sent \subseteq Message
  BY Zenon DEF TilingInv, WindowTiled, NothingFilledOver, Tiled, FillsOnly, InWindow
<1>3. CASE cursor >= up
  <2>1. cursor = up /\ sent \cup flush_gap(up) = sent
    BY <1>1, <1>3 DEF flush_gap
  <2> QED
    BY <1>2, <2>1, Zenon
<1>4. CASE ~(cursor >= up)
  <2> DEFINE g == GapFill(cursor, up)
  <2>1. Covers(g) = cursor .. up - 1 /\ g \in Message
    BY <1>1, GapFillCovers, GapFillType, Zenon
  <2>2. sent \cup flush_gap(up) = sent \cup {g}
    BY <1>4, Zenon DEF flush_gap
  <2> HIDE DEF g
  <2>3. Tiled(sent \cup {g}, begin, up)
    BY <1>1, <1>2, <2>1, TilingExtends, Zenon
  <2>4. FillsOnly(sent \cup {g}, untagged)
    BY <1>2, <2>1, Zenon DEF FillsOnly
  <2> QED
    BY <1>2, <2>1, <2>2, <2>3, <2>4, Zenon
<1> QED
  BY <1>3, <1>4, Zenon

----------------------------------------------------------------------------
\* Before the first message of the loop nothing is sent and nothing is covered.
LEMMA TilingInitHolds == ReplayInit => TilingInv
<1> SUFFICES ASSUME ReplayInit PROVE TilingInv
  BY Zenon
<1>1. begin \in 1 .. MaxSeq - 1 /\ last \in begin .. MaxSeq - 1 /\ begin \in begin .. last + 1
  <2>1. MaxSeq \in Int /\ begin \in 1 .. MaxSeq /\ last \in begin .. MaxSeq - 1
    BY SessionConstants DEF ReplayInit
  <2> QED
    BY <2>1
<1>2. InWindow
  BY <1>1, Zenon DEF ReplayInit, InWindow
<1> QED
  BY <1>2, SessionConstants DEF ReplayInit, TilingInv, HoleBehindCursor, WindowTiled, NothingFilledOver, InWindow

\* A replayed message closes the hole before it and covers its own number.
LEMMA ResendStep ==
    ASSUME TilingInv, Resend
    PROVE  TilingInv'
<1> DEFINE S == sent \cup flush_gap(pos)
           r == Resent(pos, snap[pos])
<1>1. /\ pos \in SeqNum /\ pos \in Int /\ begin \in Int /\ begin <= pos /\ pos <= last
      /\ snap[pos] \in Stored /\ Replayable(snap[pos]) /\ cursor <= pos
      /\ \A n \in cursor .. pos - 1 : ~Replayable(snap[n])
  BY SessionConstants DEF TilingInv, InWindow, HoleBehindCursor, Resend, SeqNum
<1>2. Tiled(S, begin, pos) /\ FillsOnly(S, untagged) /\ S \subseteq Message
  BY <1>1, FlushCloses, Zenon
<1>3. r.type # "SequenceReset" /\ Covers(r) = pos .. (pos + 1) - 1 /\ r \in Message
  BY <1>1, ResentCovers, ResentType
<1>4. /\ sent' = S \cup {r} /\ pos' = pos + 1 /\ cursor' = pos + 1
      /\ UNCHANGED <<snap, begin, last, untagged, done>>
  BY Zenon DEF Resend
<1> HIDE DEF S, r
<1>5. Tiled(S \cup {r}, begin, pos + 1)
  <2>1. pos + 1 \in Int /\ pos <= pos + 1
    BY <1>1
  <2> QED
    BY <1>1, <1>2, <1>3, <2>1, TilingExtends, Zenon
<1>6. WindowTiled'
  BY <1>4, <1>5, Zenon DEF WindowTiled, Tiled, Covers
<1>7. NothingFilledOver'
  BY <1>2, <1>3, <1>4, Zenon DEF FillsOnly, NothingFilledOver, Covers
<1>8. InWindow'
  BY <1>1, <1>2, <1>3, <1>4 DEF TilingInv, InWindow
<1>9. HoleBehindCursor'
  BY <1>1, <1>4 DEF HoleBehindCursor
<1> QED
  BY <1>6, <1>7, <1>8, <1>9, Zenon DEF TilingInv

\* A stored frame that cannot be rebuilt is covered by a GapFill of length one.
LEMMA ResendFailsStep ==
    ASSUME TilingInv, ResendFails
    PROVE  TilingInv'
<1> DEFINE S == sent \cup flush_gap(pos)
           g == GapFill(pos, pos + 1)
<1>1. /\ pos \in SeqNum /\ pos + 1 \in SeqNum /\ pos \in Int /\ begin \in Int /\ begin <= pos
      /\ pos <= last /\ cursor <= pos
      /\ \A n \in cursor .. pos - 1 : ~Replayable(snap[n])
  BY SessionConstants DEF TilingInv, InWindow, HoleBehindCursor, ResendFails, SeqNum
<1>2. Tiled(S, begin, pos) /\ FillsOnly(S, untagged) /\ S \subseteq Message
  BY <1>1, FlushCloses, Zenon
<1>3. Covers(g) = pos .. (pos + 1) - 1 /\ g \in Message
  BY <1>1, GapFillCovers, GapFillType, Zenon
<1>4. /\ sent' = S \cup {g} /\ pos' = pos + 1 /\ cursor' = pos + 1
      /\ untagged' = untagged \cup {pos} /\ UNCHANGED <<snap, begin, last, done>>
  BY Zenon DEF ResendFails
<1> HIDE DEF S, g
<1>5. Tiled(S \cup {g}, begin, pos + 1)
  <2>1. pos + 1 \in Int /\ pos <= pos + 1
    BY <1>1
  <2> QED
    BY <1>1, <1>2, <1>3, <2>1, TilingExtends, Zenon
<1>6. WindowTiled'
  BY <1>4, <1>5, Zenon DEF WindowTiled, Tiled, Covers
<1>7. \A n \in Covers(g) : n = pos
  BY <1>1, <1>3
<1>8. NothingFilledOver'
  BY <1>2, <1>4, <1>7, Zenon DEF FillsOnly, NothingFilledOver, Covers
<1>9. InWindow'
  BY <1>1, <1>2, <1>3, <1>4 DEF TilingInv, InWindow
<1>10. HoleBehindCursor'
  BY <1>1, <1>4 DEF HoleBehindCursor
<1> QED
  BY <1>6, <1>8, <1>9, <1>10, Zenon DEF TilingInv

\* A skipped admin frame leaves the cursor behind it: it joins the hole.
LEMMA SkipStep ==
    ASSUME TilingInv, Skip
    PROVE  TilingInv'
<1>1. pos \in Int /\ cursor \in Int /\ last \in Int /\ begin \in Int
  BY SessionConstants DEF TilingInv, InWindow
<1>2. InWindow'
  BY <1>1 DEF TilingInv, InWindow, Skip
<1>3. HoleBehindCursor'
  BY <1>1 DEF TilingInv, HoleBehindCursor, Skip
<1>4. WindowTiled' /\ NothingFilledOver'
  BY Zenon DEF TilingInv, WindowTiled, NothingFilledOver, Covers, Skip
<1> QED
  BY <1>2, <1>3, <1>4, Zenon DEF TilingInv

\* The last flush_gap covers the hole that reaches the end of the range.
LEMMA FinishStep ==
    ASSUME TilingInv, Finish
    PROVE  TilingInv'
<1> DEFINE S == sent \cup flush_gap(last + 1)
<1>1. /\ last + 1 \in SeqNum /\ last \in Int /\ begin \in Int /\ begin <= last
      /\ pos = last + 1 /\ cursor <= last + 1
      /\ \A n \in cursor .. (last + 1) - 1 : ~Replayable(snap[n])
  BY SessionConstants DEF TilingInv, InWindow, HoleBehindCursor, Finish, SeqNum
<1>2. Tiled(S, begin, last + 1) /\ FillsOnly(S, untagged) /\ S \subseteq Message
  BY <1>1, FlushCloses, Zenon
<1>3. /\ sent' = S /\ cursor' = last + 1 /\ done' = TRUE
      /\ UNCHANGED <<snap, begin, last, pos, untagged>>
  BY Zenon DEF Finish
<1> HIDE DEF S
<1>4. WindowTiled' /\ NothingFilledOver'
  BY <1>2, <1>3, Zenon DEF WindowTiled, Tiled, Covers, FillsOnly, NothingFilledOver
<1>5. InWindow'
  BY <1>1, <1>2, <1>3, Zenon DEF TilingInv, InWindow
<1>6. HoleBehindCursor'
  BY <1>1, <1>3 DEF HoleBehindCursor
<1> QED
  BY <1>4, <1>5, <1>6, Zenon DEF TilingInv

\* Every step of the loop keeps the invariant.
LEMMA TilingStepHolds == TilingInv /\ [ReplayNext]_replay_vars => TilingInv'
<1> SUFFICES ASSUME TilingInv, [ReplayNext]_replay_vars PROVE TilingInv'
  BY Zenon
<1>1. CASE UNCHANGED replay_vars
  BY <1>1, Zenon DEF replay_vars, TilingInv, InWindow, HoleBehindCursor, WindowTiled, NothingFilledOver, Covers
<1> QED
  BY <1>1, ResendStep, ResendFailsStep, SkipStep, FinishStep, Zenon DEF ReplayNext

----------------------------------------------------------------------------
(* What the loop has emitted is the Replay of the window up to the cursor. *)

\* The number before the cursor was resent, until the trailing fill is out.
CursorBehindMessage == done \/ cursor = begin \/ Replayable(snap[cursor - 1])

ReplaySoFar == untagged = {} => sent = Replay(snap, begin, cursor - 1)

\* Replay element by element.
LEMMA ReplayMember ==
    ASSUME NEW h, NEW b \in Int, NEW l \in Int, NEW m
    PROVE  m \in Replay(h, b, l) <=>
               \/ \E n \in b .. l : Replayable(h[n]) /\ m = Resent(n, h[n])
               \/ \E lo, hi \in b .. l : lo <= hi /\ IsHole(h, b, l, lo, hi) /\ m = GapFill(lo, hi + 1)
<1> DEFINE P == {p \in (b .. l) \X (b .. l) : p[1] <= p[2] /\ IsHole(h, b, l, p[1], p[2])}
<1>1. ASSUME NEW p \in P
      PROVE  p[1] \in b .. l /\ p[2] \in b .. l /\ p[1] <= p[2] /\ IsHole(h, b, l, p[1], p[2])
  BY Zenon
<1>2. ASSUME NEW lo \in b .. l, NEW hi \in b .. l, lo <= hi, IsHole(h, b, l, lo, hi)
      PROVE  <<lo, hi>> \in P /\ <<lo, hi>>[1] = lo /\ <<lo, hi>>[2] = hi
  BY <1>2, Zenon
<1>3. Replay(h, b, l) = {Resent(n, h[n]) : n \in {k \in b .. l : Replayable(h[k])}}
                        \cup {GapFill(p[1], p[2] + 1) : p \in P}
  BY Zenon DEF Replay
<1> HIDE DEF P
<1>4. m \in {GapFill(p[1], p[2] + 1) : p \in P} <=>
        \E lo, hi \in b .. l : lo <= hi /\ IsHole(h, b, l, lo, hi) /\ m = GapFill(lo, hi + 1)
  <2>1. ASSUME NEW p \in P, m = GapFill(p[1], p[2] + 1)
        PROVE  \E lo, hi \in b .. l : lo <= hi /\ IsHole(h, b, l, lo, hi) /\ m = GapFill(lo, hi + 1)
    BY <1>1, <2>1, Zenon
  <2>2. ASSUME NEW lo \in b .. l, NEW hi \in b .. l, lo <= hi, IsHole(h, b, l, lo, hi),
               m = GapFill(lo, hi + 1)
        PROVE  \E p \in P : m = GapFill(p[1], p[2] + 1)
    BY <1>2, <2>2, Zenon
  <2> QED
    BY <2>1, <2>2, Zenon
<1> QED
  BY <1>3, <1>4, Zenon

\* After the cursor c comes a run c .. k - 1 without messages, ended by the message
\* k or by the end l of the window.
Run(h, b, c, k, l) ==
    /\ b \in Int /\ c \in Int /\ k \in Int /\ l \in Int
    /\ b <= c /\ c <= k /\ l \in {k - 1, k}
    /\ c = b \/ Replayable(h[c - 1])
    /\ \A n \in c .. k - 1 : ~Replayable(h[n])
    /\ l = k => Replayable(h[k])

\* Past the run the holes are the earlier ones and the run.
LEMMA HolesExtend ==
    ASSUME NEW h, NEW b, NEW c, NEW k, NEW l, Run(h, b, c, k, l),
           NEW lo \in Int, NEW hi \in Int, lo <= hi
    PROVE  (lo \in b .. l /\ hi \in b .. l /\ IsHole(h, b, l, lo, hi)) <=>
               \/ lo \in b .. c - 1 /\ hi \in b .. c - 1 /\ IsHole(h, b, c - 1, lo, hi)
               \/ lo = c /\ hi = k - 1
<1> USE DEF Run
<1>1. ASSUME lo \in b .. l, hi \in b .. l, IsHole(h, b, l, lo, hi), hi >= c
      PROVE  lo = c /\ hi = k - 1
  <2>1. hi <= k - 1
    BY <1>1 DEF IsHole
  <2>2. hi = k - 1
    <3>1. CASE hi = l
      BY <1>1, <2>1, <3>1
    <3>2. CASE Replayable(h[hi + 1])
      <4>1. hi + 1 \notin c .. k - 1
        BY <3>2, Zenon
      <4> QED
        BY <1>1, <2>1, <4>1
    <3> QED
      BY <1>1, <3>1, <3>2, Zenon DEF IsHole
  <2>3. lo >= c
    <3> SUFFICES ASSUME lo < c PROVE FALSE
      OBVIOUS
    <3>1. Replayable(h[c - 1]) /\ c - 1 \in lo .. hi
      BY <1>1
    <3> QED
      BY <1>1, <3>1, Zenon DEF IsHole
  <2>4. lo = c
    <3> SUFFICES ASSUME lo > c PROVE FALSE
      BY <2>3
    <3>1. lo - 1 \in c .. k - 1
      BY <1>1, <2>2
    <3> QED
      BY <1>1, <3>1 DEF IsHole
  <2> QED
    BY <2>2, <2>4, Zenon
<1>2. ASSUME lo \in b .. l, hi \in b .. l, IsHole(h, b, l, lo, hi), hi < c
      PROVE  lo \in b .. c - 1 /\ hi \in b .. c - 1 /\ IsHole(h, b, c - 1, lo, hi)
  <2>1. hi = l => hi = c - 1
    BY <1>2
  <2> QED
    BY <1>2, <2>1 DEF IsHole
<1>3. ASSUME lo \in b .. c - 1, hi \in b .. c - 1, IsHole(h, b, c - 1, lo, hi)
      PROVE  lo \in b .. l /\ hi \in b .. l /\ IsHole(h, b, l, lo, hi)
  <2>1. Replayable(h[c - 1])
    BY <1>3
  <2>2. hi # c - 1
    BY <1>3, <2>1 DEF IsHole
  <2> QED
    BY <1>3, <2>2 DEF IsHole
<1>4. ASSUME lo = c, hi = k - 1
      PROVE  lo \in b .. l /\ hi \in b .. l /\ IsHole(h, b, l, lo, hi)
  <2>1. hi = l \/ Replayable(h[hi + 1])
    BY <1>4
  <2> QED
    BY <1>4, <2>1 DEF IsHole
<1> QED
  BY <1>1, <1>2, <1>3, <1>4

\* The fill of c .. k - 1, and the message k when the window reaches to it.
FillOf(c, k) == IF c >= k THEN {} ELSE {GapFill(c, k)}
MessageAt(h, k, l) == IF l = k THEN {Resent(k, h[k])} ELSE {}

\* So one turn of the loop extends the replay as flush_gap and the message do.
LEMMA ReplayExtends ==
    ASSUME NEW h, NEW b, NEW c, NEW k, NEW l, Run(h, b, c, k, l)
    PROVE  Replay(h, b, l) = Replay(h, b, c - 1) \cup FillOf(c, k) \cup MessageAt(h, k, l)
<1> DEFINE R == Replay(h, b, l)
           Q == Replay(h, b, c - 1)
           G == IF c >= k THEN {} ELSE {GapFill(c, k)}
           N == IF l = k THEN {Resent(k, h[k])} ELSE {}
<1>0. ASSUME NEW lo \in Int, NEW hi \in Int, lo <= hi
      PROVE  (lo \in b .. l /\ hi \in b .. l /\ IsHole(h, b, l, lo, hi)) <=>
                 \/ lo \in b .. c - 1 /\ hi \in b .. c - 1 /\ IsHole(h, b, c - 1, lo, hi)
                 \/ lo = c /\ hi = k - 1
  BY <1>0, HolesExtend, ZenonT(30)
<1> USE DEF Run
<1>1. ASSUME NEW m PROVE m \in R <=> m \in Q \cup G \cup N
  <2> DEFINE A(z) == \E n \in b .. z : Replayable(h[n]) /\ m = Resent(n, h[n])
             B(z) == \E lo, hi \in b .. z : lo <= hi /\ IsHole(h, b, z, lo, hi) /\ m = GapFill(lo, hi + 1)
  <2>1. (m \in R <=> A(l) \/ B(l)) /\ (m \in Q <=> A(c - 1) \/ B(c - 1))
    BY ReplayMember
  <2>2. A(l) <=> A(c - 1) \/ m \in N
    <3>1. ASSUME NEW n \in b .. l, Replayable(h[n]) PROVE n \in b .. c - 1 \/ (n = k /\ l = k)
      <4>1. n \notin c .. k - 1
        BY <3>1, Zenon
      <4> QED
        BY <3>1, <4>1
    <3>2. ASSUME NEW n \in b .. c - 1 PROVE n \in b .. l
      BY <3>2
    <3>3. l = k => k \in b .. l
      OBVIOUS
    <3> QED
      BY <3>1, <3>2, <3>3, Zenon
  <2>3. B(l) <=> B(c - 1) \/ m \in G
    <3>1. ASSUME NEW lo \in b .. l, NEW hi \in b .. l, lo <= hi, IsHole(h, b, l, lo, hi),
                 m = GapFill(lo, hi + 1)
          PROVE  B(c - 1) \/ m \in G
      <4>1. CASE lo \in b .. c - 1 /\ hi \in b .. c - 1 /\ IsHole(h, b, c - 1, lo, hi)
        BY <3>1, <4>1, Zenon
      <4>2. CASE lo = c /\ hi = k - 1
        <5>1. ~(c >= k) /\ hi + 1 = k
          BY <3>1, <4>2
        <5> QED
          BY <3>1, <4>2, <5>1, Zenon
      <4> QED
        BY <1>0, <3>1, <4>1, <4>2
    <3>2. ASSUME NEW lo \in b .. c - 1, NEW hi \in b .. c - 1, lo <= hi,
                 IsHole(h, b, c - 1, lo, hi), m = GapFill(lo, hi + 1)
          PROVE  B(l)
      <4>1. lo \in b .. l /\ hi \in b .. l /\ IsHole(h, b, l, lo, hi)
        BY <1>0, <3>2
      <4> QED
        BY <3>2, <4>1, Zenon
    <3>3. ASSUME m \in G PROVE B(l)
      <4>1. c <= k - 1 /\ m = GapFill(c, (k - 1) + 1)
        <5>1. ~(c >= k) /\ m = GapFill(c, k)
          BY <3>3, Zenon
        <5>2. (k - 1) + 1 = k
          OBVIOUS
        <5> QED
          BY <5>1, <5>2
      <4>2. c \in b .. l /\ k - 1 \in b .. l /\ IsHole(h, b, l, c, k - 1)
        BY <1>0, <4>1
      <4> QED
        BY <4>1, <4>2, Zenon
    <3> QED
      BY <3>1, <3>2, <3>3, Zenon
  <2> HIDE DEF A, B, R, Q, G, N
  <2> QED
    BY <2>1, <2>2, <2>3, Zenon
<1>2. R = Q \cup G \cup N
  <2> HIDE DEF R, Q, G, N
  <2> QED
    BY <1>1, Zenon
<1> QED
  BY <1>2, Zenon DEF FillOf, MessageAt

ReplayInv ==
    /\ TilingInv
    /\ CursorBehindMessage /\ ReplaySoFar
    /\ done => cursor = last + 1

\* An empty replay is the replay of the empty range.
LEMMA ReplayInitHolds == ReplayInit => ReplayInv
<1> SUFFICES ASSUME ReplayInit PROVE ReplayInv
  BY Zenon
<1>1. begin \in Int /\ cursor = begin /\ sent = {} /\ ~done /\ cursor - 1 \in Int
  BY SessionConstants DEF ReplayInit
<1>2. Replay(snap, begin, begin - 1) = {}
  <2>1. \A m : m \notin Replay(snap, begin, begin - 1)
    BY <1>1, ReplayMember
  <2> QED
    BY <2>1, Zenon
<1> QED
  BY <1>1, <1>2, TilingInitHolds, Zenon DEF ReplayInv, CursorBehindMessage, ReplaySoFar

\* Every step of the loop extends the replay by what Replay says of the new range.
LEMMA ReplayStepHolds == ReplayInv /\ [ReplayNext]_replay_vars => ReplayInv'
<1> SUFFICES ASSUME ReplayInv, [ReplayNext]_replay_vars PROVE ReplayInv'
  BY Zenon
<1>1. TilingInv'
  BY TilingStepHolds, Zenon DEF ReplayInv
<1>2. /\ begin \in Int /\ cursor \in Int /\ pos \in Int /\ last \in Int
      /\ begin <= cursor /\ cursor <= pos /\ pos <= last + 1
      /\ \A n \in cursor .. pos - 1 : ~Replayable(snap[n])
  BY SessionConstants DEF ReplayInv, TilingInv, InWindow, HoleBehindCursor
<1>3. CASE Resend
  <2>1. /\ sent' = sent \cup flush_gap(pos) \cup {Resent(pos, snap[pos])}
        /\ cursor' = pos + 1 /\ Replayable(snap[pos]) /\ pos <= last
        /\ UNCHANGED <<snap, begin, last, untagged, done>>
    BY <1>3, Zenon DEF Resend
  <2>2. ~done
    BY <1>2, <2>1 DEF ReplayInv
  <2>3. (pos + 1) - 1 = pos
    BY <1>2
  <2>4. Replay(snap, begin, pos) =
            Replay(snap, begin, cursor - 1) \cup flush_gap(pos) \cup {Resent(pos, snap[pos])}
    <3>1. pos \in {pos - 1, pos}
      BY Zenon
    <3>2. Run(snap, begin, cursor, pos, pos)
      BY <1>2, <2>1, <2>2, <3>1, Zenon DEF Run, ReplayInv, CursorBehindMessage
    <3>3. Replay(snap, begin, pos) =
              Replay(snap, begin, cursor - 1) \cup FillOf(cursor, pos) \cup MessageAt(snap, pos, pos)
      BY <3>2, ReplayExtends
    <3> QED
      BY <3>3, Zenon DEF flush_gap, FillOf, MessageAt
  <2>5. ReplaySoFar'
    BY <2>1, <2>3, <2>4, Zenon DEF ReplayInv, ReplaySoFar
  <2> QED
    BY <1>1, <2>1, <2>2, <2>3, <2>5, Zenon DEF ReplayInv, CursorBehindMessage
<1>4. CASE ResendFails
  <2>1. /\ untagged' # {} /\ cursor' = pos + 1 /\ Replayable(snap[pos]) /\ pos <= last
        /\ UNCHANGED <<snap, begin, last, done>>
    BY <1>4, Zenon DEF ResendFails
  <2>2. ~done /\ (pos + 1) - 1 = pos
    BY <1>2, <2>1 DEF ReplayInv
  <2> QED
    BY <1>1, <2>1, <2>2, Zenon DEF ReplayInv, CursorBehindMessage, ReplaySoFar
<1>5. CASE Skip
  BY <1>1, <1>5, Zenon DEF ReplayInv, CursorBehindMessage, ReplaySoFar, Skip
<1>6. CASE Finish
  <2>1. /\ sent' = sent \cup flush_gap(last + 1) /\ cursor' = last + 1 /\ done' /\ ~done
        /\ pos = last + 1 /\ UNCHANGED <<snap, begin, last, untagged>>
    BY <1>2, <1>6 DEF Finish
  <2>2. (last + 1) - 1 = last /\ last # last + 1
    BY <1>2
  <2>3. Replay(snap, begin, last) = Replay(snap, begin, cursor - 1) \cup flush_gap(last + 1)
    <3>1. last \in {pos - 1, pos} /\ (last = pos => Replayable(snap[pos])) /\ last # pos
      BY <1>2, <2>1
    <3>2. Run(snap, begin, cursor, pos, last)
      BY <1>2, <2>1, <3>1, Zenon DEF Run, ReplayInv, CursorBehindMessage
    <3>3. Replay(snap, begin, last) =
              Replay(snap, begin, cursor - 1) \cup FillOf(cursor, pos) \cup MessageAt(snap, pos, last)
      BY <3>2, ReplayExtends
    <3> QED
      BY <2>1, <3>1, <3>3, Zenon DEF flush_gap, FillOf, MessageAt
  <2>4. ReplaySoFar'
    BY <2>1, <2>2, <2>3, Zenon DEF ReplayInv, ReplaySoFar
  <2> QED
    BY <1>1, <2>1, <2>4, Zenon DEF ReplayInv, CursorBehindMessage
<1>7. CASE UNCHANGED replay_vars
  BY <1>1, <1>7, Zenon DEF replay_vars, ReplayInv, CursorBehindMessage, ReplaySoFar
<1> QED
  BY <1>3, <1>4, <1>5, <1>6, <1>7, Zenon DEF ReplayNext

----------------------------------------------------------------------------
\* Whatever the history and the window, the frames of handle_resend_request
\* account for every number of the window exactly once and for none outside it.
THEOREM ReplayTilesWindow == ReplaySpec => []WindowTiled
<1>1. TilingInv => WindowTiled
  BY Zenon DEF TilingInv
<1> QED
  BY <1>1, TilingInitHolds, TilingStepHolds, PTL DEF ReplaySpec

\* No fill covers a message of the snapshot that could be serialised again.
THEOREM ReplayFillsHolesOnly == ReplaySpec => []NothingFilledOver
<1>1. TilingInv => NothingFilledOver
  BY Zenon DEF TilingInv
<1> QED
  BY <1>1, TilingInitHolds, TilingStepHolds, PTL DEF ReplaySpec

\* The loop of handle_resend_request emits exactly the set Replay that the session
\* model uses for it, when every message can be serialised again.
THEOREM LoopIsReplay == ReplaySpec => []LoopComputesReplay
<1>1. ReplayInv => LoopComputesReplay
  <2> SUFFICES ASSUME ReplayInv, done, untagged = {} PROVE sent = Replay(snap, begin, last)
    BY Zenon DEF LoopComputesReplay
  <2>1. cursor - 1 = last
    BY SessionConstants DEF ReplayInv, TilingInv, InWindow
  <2> QED
    BY <2>1, Zenon DEF ReplayInv, ReplaySoFar
<1> QED
  BY <1>1, ReplayInitHolds, ReplayStepHolds, PTL DEF ReplaySpec

----------------------------------------------------------------------------
(* The send path. *)

Inside == {"claim", "store", "emit", "unlock"}
Claimed == {"store", "emit"}

\* A thread is between lock and unlock exactly when it holds send_mutex_.
Exclusive == \A t \in Senders : pc[t] \in Inside <=> holder = t

\* The number being sent is the last one claimed.
ClaimIsLast ==
    \A t \in Senders : pc[t] \in Claimed => claim[t] >= 1 /\ next_sender = claim[t] + 1

\* A number is below n when it has been claimed, and not by a send in progress.
FreshBelow ==
    \A i \in DOMAIN wire : FreshAt(i) =>
        /\ wire[i].seq < next_sender
        /\ \A t \in Senders : pc[t] \in Claimed => wire[i].seq < claim[t]

\* The history reaches up to NextSender, or to the claim not yet stored.
HistoryFollows ==
    /\ QuietHistoryComplete
    /\ \A t \in Senders : pc[t] = "store" =>
           \A n \in 1 .. MaxSeq : (out[n] # "none") <=> (n < claim[t])
    /\ \A t \in Senders : pc[t] = "emit" => out[claim[t]] \in Bodies

IInv == TypeOK /\ Exclusive /\ ClaimIsLast /\ FreshBelow /\ FreshNumbersAscend /\ HistoryFollows

----------------------------------------------------------------------------
\* The invariant holds before the first send.
LEMMA InitHolds == Init => IInv
<1> SUFFICES ASSUME Init PROVE IInv
  BY Zenon
<1>1. NoFrames \in [SeqNum -> Stored] /\ \A n \in SeqNum : NoFrames[n] = "none"
  BY Zenon DEF NoFrames, Stored
<1>2. 1 \in 1 .. MaxSeq /\ 0 \in SeqNum
  BY SessionConstants DEF SeqNum
<1>3. TypeOK
  BY <1>1, <1>2 DEF Init, TypeOK, NoReplay
<1>4. DOMAIN wire = {}
  BY DEF Init
<1>5. Exclusive /\ ClaimIsLast
  BY SendPathConstants, Zenon DEF Init, Exclusive, ClaimIsLast, Inside, Claimed
<1>6. FreshBelow /\ FreshNumbersAscend
  BY <1>4, Zenon DEF FreshBelow, FreshNumbersAscend
<1>7. HistoryFollows
  BY <1>1, SessionConstants DEF Init, HistoryFollows, QuietHistoryComplete, SeqNum
<1> QED
  BY <1>3, <1>5, <1>6, <1>7, Zenon DEF IInv

\* What is on the wire is a message with a number.
LEMMA WireType ==
    ASSUME TypeOK, NEW i \in DOMAIN wire
    PROVE  wire[i] \in Message /\ wire[i].seq \in Nat
<1>1. wire[i] \in Message
  BY DEF TypeOK
<1>2. wire[i].seq \in SeqNum
  BY <1>1, Zenon DEF Message
<1> QED
  BY <1>1, <1>2, SessionConstants DEF SeqNum

\* Steps that neither number nor send anything.
LEMMA QuietStep ==
    ASSUME IInv, TypeOK', Exclusive',
           UNCHANGED <<next_sender, out, claim, wire>>,
           \A t \in Senders : pc'[t] = pc[t] \/ {pc[t], pc'[t]} \cap Claimed = {}
    PROVE  IInv'
<1>1. ClaimIsLast' /\ FreshBelow' /\ FreshNumbersAscend'
  BY Zenon DEF IInv, ClaimIsLast, FreshBelow, FreshNumbersAscend, FreshAt
<1>2. HistoryFollows'
  BY Zenon DEF IInv, HistoryFollows, QuietHistoryComplete, Claimed
<1> QED
  BY <1>1, <1>2, Zenon DEF IInv

\* Checking the state, locking, a refused claim and unlocking touch no number.
LEMMA SenderStep ==
    ASSUME IInv, NEW t \in Senders,
           \/ CheckActive(t) \/ Lock(t) \/ ClaimRefused(t) \/ Unlock(t)
    PROVE  IInv'
<1> USE DEF At
<1>1. TypeOK'
  BY Zenon DEF IInv, TypeOK, CheckActive, Lock, ClaimRefused, Unlock
<1>2. Exclusive'
  <2>1. CASE CheckActive(t) \/ ClaimRefused(t)
    BY <2>1, Zenon DEF IInv, TypeOK, Exclusive, Inside, CheckActive, ClaimRefused
  <2>2. CASE Lock(t)
    BY <2>2, SendPathConstants, Zenon DEF IInv, TypeOK, Exclusive, Inside, Lock
  <2>3. CASE Unlock(t)
    BY <2>3, SendPathConstants, Zenon DEF IInv, TypeOK, Exclusive, Inside, Unlock
  <2> QED
    BY <2>1, <2>2, <2>3, Zenon
<1>3. UNCHANGED <<next_sender, out, claim, wire>>
  BY Zenon DEF CheckActive, Lock, ClaimRefused, Unlock
<1>4. \A u \in Senders : pc'[u] = pc[u] \/ {pc[u], pc'[u]} \cap Claimed = {}
  BY ZenonT(30) DEF IInv, TypeOK, Claimed, CheckActive, Lock, ClaimRefused, Unlock
<1> QED
  BY <1>1, <1>2, <1>3, <1>4, QuietStep, Zenon

\* next_sender_seq_num_incr under send_mutex_ hands out the highest number so far.
LEMMA ClaimStep ==
    ASSUME IInv, NEW t \in Senders, Claim(t)
    PROVE  IInv'
<1> USE DEF At
<1>1. holder = t /\ \A u \in Senders : u # t => pc[u] \notin Inside
  BY Zenon DEF IInv, Exclusive, Inside, Claim
<1>2. TypeOK'
  BY SessionConstants DEF IInv, TypeOK, Claim, SeqNum
<1>3. Exclusive' /\ ClaimIsLast'
  BY <1>1 DEF IInv, TypeOK, Exclusive, ClaimIsLast, Inside, Claimed, Claim
<1>4. FreshBelow'
  <2> SUFFICES ASSUME NEW i \in DOMAIN wire, FreshAt(i)
               PROVE  /\ wire[i].seq < next_sender'
                      /\ \A u \in Senders : pc'[u] \in Claimed => wire[i].seq < claim'[u]
    BY Zenon DEF FreshBelow, FreshAt, Claim
  <2>1. wire[i].seq \in Nat /\ wire[i].seq < next_sender
    BY WireType, Zenon DEF IInv, FreshBelow
  <2> QED
    BY <1>1, <2>1 DEF IInv, TypeOK, Claim, Inside, Claimed
<1>5. FreshNumbersAscend'
  BY Zenon DEF IInv, FreshNumbersAscend, FreshAt, Claim
<1>6. HistoryFollows'
  <2>1. pc'[t] = "store" /\ claim'[t] = next_sender
        /\ \A u \in Senders : u # t => pc'[u] \notin Inside
    BY <1>1, Zenon DEF IInv, TypeOK, Claim
  <2>2. \A u \in Senders : pc[u] # "store"
    BY <1>1, Zenon DEF Inside, Claim
  <2>3. \A n \in 1 .. MaxSeq : (out[n] # "none") <=> (n < next_sender)
    BY <2>2, Zenon DEF IInv, HistoryFollows, QuietHistoryComplete
  <2> QED
    BY <2>1, <2>3, Zenon DEF HistoryFollows, QuietHistoryComplete, Claim, Inside
<1> QED
  BY <1>2, <1>3, <1>4, <1>5, <1>6, Zenon DEF IInv

\* store_outbound under send_mutex_ fills the slot of the last claim.
LEMMA StoreStep ==
    ASSUME IInv, NEW t \in Senders, StoreOutbound(t)
    PROVE  IInv'
<1> USE DEF At
<1>1. \A u \in Senders : u # t => pc[u] \notin Inside /\ pc'[u] \notin Inside
  BY Zenon DEF IInv, TypeOK, Exclusive, Inside, StoreOutbound
<1>2. pc[t] = "store" /\ pc'[t] = "emit" /\ claim[t] \in SeqNum
      /\ claim[t] >= 1 /\ next_sender = claim[t] + 1
  BY Zenon DEF IInv, TypeOK, ClaimIsLast, Claimed, StoreOutbound
<1>3. PICK b \in Bodies : out' = [out EXCEPT ![claim[t]] = b]
  BY Zenon DEF StoreOutbound
<1>4. TypeOK'
  BY <1>3, Zenon DEF IInv, TypeOK, StoreOutbound, Stored
<1>5. Exclusive' /\ ClaimIsLast' /\ FreshNumbersAscend'
  BY <1>2, ZenonT(30) DEF IInv, TypeOK, Exclusive, ClaimIsLast, FreshNumbersAscend, FreshAt,
              Inside, Claimed, StoreOutbound
<1>6. FreshBelow'
  BY <1>1, <1>2, Zenon DEF IInv, FreshBelow, FreshAt, Inside, Claimed, StoreOutbound
<1>7. HistoryFollows'
  <2>1. out'[claim[t]] = b /\ b # "none"
        /\ \A n \in 1 .. MaxSeq : n # claim[t] => out'[n] = out[n]
    BY <1>2, <1>3, SessionConstants DEF IInv, TypeOK
  <2>2. \A n \in 1 .. MaxSeq : (out[n] # "none") <=> (n < claim[t])
    BY <1>2, Zenon DEF IInv, HistoryFollows
  <2>3. \A n \in 1 .. MaxSeq : (out'[n] # "none") <=> (n < next_sender)
    BY <1>2, <2>1, <2>2, SessionConstants DEF SeqNum
  <2> QED
    BY <1>1, <1>2, <2>1, <2>3, Zenon DEF HistoryFollows, QuietHistoryComplete, StoreOutbound, Inside
<1> QED
  BY <1>4, <1>5, <1>6, <1>7, Zenon DEF IInv

\* A failed store gives the last claim back, leaving no hole.
LEMMA StoreFailsStep ==
    ASSUME IInv, NEW t \in Senders, StoreFails(t)
    PROVE  IInv'
<1> USE DEF At
<1>1. \A u \in Senders : u # t => pc[u] \notin Inside /\ pc'[u] \notin Inside
  BY Zenon DEF IInv, TypeOK, Exclusive, Inside, StoreFails
<1>2. pc[t] = "store" /\ pc'[t] = "unlock" /\ claim[t] \in SeqNum
      /\ claim[t] >= 1 /\ next_sender = claim[t] + 1 /\ next_sender' = claim[t]
  BY Zenon DEF IInv, TypeOK, ClaimIsLast, Claimed, StoreFails
<1>3. TypeOK'
  BY <1>2, SessionConstants DEF IInv, TypeOK, StoreFails, SeqNum
<1>4. Exclusive' /\ ClaimIsLast' /\ FreshNumbersAscend'
  BY <1>1, <1>2, Zenon DEF IInv, TypeOK, Exclusive, ClaimIsLast, FreshNumbersAscend, FreshAt,
                    Inside, Claimed, StoreFails
<1>5. FreshBelow'
  BY <1>1, <1>2, Zenon DEF IInv, FreshBelow, FreshAt, Inside, Claimed, StoreFails
<1>6. HistoryFollows'
  BY <1>1, <1>2, Zenon DEF IInv, HistoryFollows, QuietHistoryComplete, StoreFails, Inside
<1> QED
  BY <1>3, <1>4, <1>5, <1>6, Zenon DEF IInv

\* do_send under send_mutex_ appends a number above every fresh one on the wire.
LEMMA EmitStep ==
    ASSUME IInv, NEW t \in Senders, Emit(t)
    PROVE  IInv'
<1> USE DEF At
<1> DEFINE m == [AppMsg(out[claim[t]]) EXCEPT !.seq = claim[t]]
<1>1. \A u \in Senders : u # t => pc[u] \notin Inside /\ pc'[u] \notin Inside
  BY Zenon DEF IInv, TypeOK, Exclusive, Inside, Emit
<1>2. pc[t] = "emit" /\ pc'[t] = "unlock" /\ claim[t] \in SeqNum
      /\ claim[t] >= 1 /\ next_sender = claim[t] + 1 /\ out[claim[t]] \in Bodies
  BY Zenon DEF IInv, TypeOK, ClaimIsLast, HistoryFollows, Claimed, Emit
<1>3. m \in Message /\ ~m.dup /\ m.seq = claim[t]
  BY <1>2, Zeros, Zenon DEF AppMsg, Msg, Message, MsgTypes
<1>4. wire \in Seq(Message) /\ wire' = Append(wire, m)
  BY Zenon DEF IInv, TypeOK, Emit
<1> HIDE DEF m
<1>5. TypeOK'
  BY <1>3, <1>4 DEF IInv, TypeOK, Emit
<1>6. \A i \in DOMAIN wire' : \/ i \in DOMAIN wire /\ wire'[i] = wire[i]
                              \/ i = Len(wire) + 1 /\ wire'[i] = m
  BY <1>3, <1>4
<1>7. Exclusive' /\ ClaimIsLast'
  BY <1>1, <1>2, Zenon DEF IInv, TypeOK, Exclusive, ClaimIsLast, Inside, Claimed, Emit
<1>8. FreshBelow'
  <2> SUFFICES ASSUME NEW i \in DOMAIN wire', ~wire'[i].dup
               PROVE  wire'[i].seq < next_sender
    BY <1>1, <1>2, Zenon DEF FreshBelow, FreshAt, Inside, Claimed, Emit
  <2>1. CASE i \in DOMAIN wire /\ wire'[i] = wire[i]
    BY <2>1, Zenon DEF IInv, FreshBelow, FreshAt
  <2>2. CASE wire'[i] = m
    BY <1>2, <1>3, <2>2, SessionConstants DEF SeqNum
  <2> QED
    BY <1>6, <2>1, <2>2, Zenon
<1>9. FreshNumbersAscend'
  <2> SUFFICES ASSUME NEW i \in DOMAIN wire', NEW j \in DOMAIN wire', i < j,
                      ~wire'[i].dup, ~wire'[j].dup
               PROVE  wire'[i].seq < wire'[j].seq
    BY Zenon DEF FreshNumbersAscend, FreshAt
  <2>1. i \in DOMAIN wire /\ wire'[i] = wire[i]
    BY <1>4, <1>6
  <2>2. CASE j \in DOMAIN wire /\ wire'[j] = wire[j]
    BY <2>1, <2>2, Zenon DEF IInv, FreshNumbersAscend, FreshAt
  <2>3. CASE wire'[j] = m
    BY <1>2, <1>3, <2>1, <2>3, Zenon DEF IInv, FreshBelow, FreshAt, Claimed
  <2> QED
    BY <1>6, <2>2, <2>3, Zenon
<1>10. HistoryFollows'
  BY <1>1, <1>2, Zenon DEF IInv, HistoryFollows, QuietHistoryComplete, Emit, Inside
<1> QED
  BY <1>5, <1>7, <1>8, <1>9, <1>10, Zenon DEF IInv

\* The unlocked part of handle_resend_request, and disconnect, touch no number.
LEMMA IoStep ==
    ASSUME IInv, ReadNextSender \/ Snapshot \/ Disconnect
    PROVE  IInv'
<1>1. TypeOK'
  <2>1. CASE ReadNextSender
    <3>1. PICK b \in 1 .. next_sender :
              io' = [io EXCEPT !.at = "snapshot", !.begin = b, !.next = next_sender]
      BY <2>1, Zenon DEF ReadNextSender
    <3>2. b \in SeqNum /\ next_sender \in SeqNum
      BY SessionConstants DEF IInv, TypeOK, SeqNum
    <3> QED
      BY <2>1, <3>1, <3>2, Zenon DEF IInv, TypeOK, ReadNextSender
  <2>2. CASE Snapshot \/ Disconnect
    BY <2>2, Zenon DEF IInv, TypeOK, Snapshot, Disconnect
  <2> QED
    BY <2>1, <2>2, Zenon
<1>2. UNCHANGED <<next_sender, out, holder, pc, claim, wire>>
  BY Zenon DEF ReadNextSender, Snapshot, Disconnect
<1>3. Exclusive'
  BY <1>2, Zenon DEF IInv, Exclusive
<1> QED
  BY <1>1, <1>2, <1>3, QuietStep, Zenon

\* A replay puts only PossDup frames on the wire.
LEMMA ReplayStep ==
    ASSUME IInv, ReplayLocked
    PROVE  IInv'
<1> DEFINE tx == Replay(io.snap, io.begin, io.next - 1)
<1>1. \A m \in tx : m \in Message /\ m.dup
  <2>1. io.next - 1 \in Int /\ (io.next - 1) + 1 \in SeqNum
    BY SessionConstants DEF IInv, TypeOK, SeqNum
  <2> QED
    BY <2>1, ReplayType, Zenon DEF IInv, TypeOK
<1>2. PICK n \in 0 .. MaxSeq : \E w \in [1 .. n -> tx] : wire' = wire \o w
  BY Zenon DEF ReplayLocked
<1>3. PICK w \in [1 .. n -> tx] : wire' = wire \o w
  BY <1>2, Zenon
<1> HIDE DEF tx
<1>4. n \in Nat /\ w \in Seq(Message) /\ wire \in Seq(Message)
      /\ \A k \in DOMAIN w : w[k].dup
  BY <1>1, <1>3, SessionConstants DEF IInv, TypeOK
<1>5. wire' \in Seq(Message)
  BY <1>3, <1>4
<1>6. \A i \in DOMAIN wire' : ~wire'[i].dup => i \in DOMAIN wire /\ wire'[i] = wire[i]
  BY <1>3, <1>4
<1>7. UNCHANGED <<state, next_sender, out, holder, pc, claim>>
      /\ io' = NoReplay /\ replays' = replays + 1
  BY Zenon DEF ReplayLocked
<1>8. NoReplay \in [at : {"idle", "snapshot", "lock"}, begin : SeqNum, next : SeqNum,
                    snap : [SeqNum -> Stored]]
  BY SessionConstants DEF NoReplay, NoFrames, SeqNum, Stored
<1>9. TypeOK'
  BY <1>5, <1>7, <1>8 DEF IInv, TypeOK
<1>10. Exclusive' /\ ClaimIsLast' /\ HistoryFollows'
  BY <1>7, Zenon DEF IInv, Exclusive, ClaimIsLast, HistoryFollows, QuietHistoryComplete
<1>11. FreshBelow' /\ FreshNumbersAscend'
  BY <1>6, <1>7, Zenon DEF IInv, FreshBelow, FreshNumbersAscend, FreshAt
<1> QED
  BY <1>9, <1>10, <1>11, Zenon DEF IInv

\* Every step of every thread keeps the invariant.
LEMMA StepHolds == IInv /\ [Next]_vars => IInv'
<1> SUFFICES ASSUME IInv, [Next]_vars PROVE IInv'
  BY Zenon
<1>1. ASSUME NEW t \in Senders,
             CheckActive(t) \/ Lock(t) \/ ClaimRefused(t) \/ Unlock(t)
      PROVE  IInv'
  BY <1>1, SenderStep, Zenon
<1>2. ASSUME NEW t \in Senders, Claim(t) PROVE IInv'
  BY <1>2, ClaimStep, Zenon
<1>3. ASSUME NEW t \in Senders, StoreOutbound(t) PROVE IInv'
  BY <1>3, StoreStep, Zenon
<1>4. ASSUME NEW t \in Senders, StoreFails(t) PROVE IInv'
  BY <1>4, StoreFailsStep, Zenon
<1>5. ASSUME NEW t \in Senders, Emit(t) PROVE IInv'
  BY <1>5, EmitStep, Zenon
<1>6. CASE ReadNextSender \/ Snapshot \/ Disconnect
  BY <1>6, IoStep, Zenon
<1>7. CASE ReplayLocked
  BY <1>7, ReplayStep, Zenon
<1>8. CASE UNCHANGED vars
  BY <1>8, ZenonT(30) DEF vars, IInv, TypeOK, Exclusive, ClaimIsLast, FreshBelow,
              FreshNumbersAscend, FreshAt, HistoryFollows, QuietHistoryComplete
<1> QED
  BY <1>1, <1>2, <1>3, <1>4, <1>5, <1>6, <1>7, <1>8, Zenon DEF Next

----------------------------------------------------------------------------
\* Everything send() and handle_resend_request touch keeps its type; the wire
\* carries well-formed messages only.
THEOREM TypeCorrect == Spec => []TypeOK
<1>1. IInv => TypeOK
  BY Zenon DEF IInv
<1> QED
  BY <1>1, InitHolds, StepHolds, PTL DEF Spec

\* However many threads call send(), no number goes out twice as a fresh frame
\* and numbers go out in the order they were claimed.
THEOREM FreshAscending == Spec => []FreshNumbersAscend
<1>1. IInv => FreshNumbersAscend
  BY Zenon DEF IInv
<1> QED
  BY <1>1, InitHolds, StepHolds, PTL DEF Spec

\* A send that fails between its claim and store_outbound leaves no trace: when
\* none is in between, the outbound history reaches exactly to NextSender.
THEOREM HistoryComplete == Spec => []QuietHistoryComplete
<1>1. IInv => QuietHistoryComplete
  BY Zenon DEF IInv, HistoryFollows
<1> QED
  BY <1>1, InitHolds, StepHolds, PTL DEF Spec
=============================================================================
