---------------------------- MODULE ResendReplay ----------------------------
(***************************************************************************)
(* The replay loop of handle_resend_request, number by number: pos is the  *)
(* number the loop has reached in the snapshot of the outbound log, cursor *)
(* the first number not accounted for yet.  SessionCore's Replay states    *)
(* what the loop emits as one set; here it is what the loop computes.      *)
(***************************************************************************)
EXTENDS SessionCore

VARIABLES snap,         \* the snapshot
          begin, last,  \* the window
          pos, cursor,
          sent,         \* the frames emitted
          untagged,     \* the numbers whose message could not be serialised again
          done

replay_vars == <<snap, begin, last, pos, cursor, sent, untagged, done>>

\* Any history, and any window of it that handle_resend_request lets through.
ReplayInit ==
    /\ snap \in [SeqNum -> Stored]
    /\ begin \in 1 .. MaxSeq /\ last \in begin .. MaxSeq - 1
    /\ pos = begin /\ cursor = begin
    /\ sent = {} /\ untagged = {} /\ done = FALSE

\* One GapFill from the cursor up to, and excluding, up_to.
flush_gap(up_to) == IF cursor >= up_to THEN {} ELSE {GapFill(cursor, up_to)}

\* An application message: close the hole before it, then send it again.
Resend ==
    /\ pos <= last /\ Replayable(snap[pos])
    /\ sent' = sent \cup flush_gap(pos) \cup {Resent(pos, snap[pos])}
    /\ cursor' = pos + 1 /\ pos' = pos + 1
    /\ UNCHANGED <<snap, begin, last, untagged, done>>

\* It cannot be serialised again: a fill of its own covers it.
ResendFails ==
    /\ pos <= last /\ Replayable(snap[pos])
    /\ sent' = sent \cup flush_gap(pos) \cup {GapFill(pos, pos + 1)}
    /\ untagged' = untagged \cup {pos}
    /\ cursor' = pos + 1 /\ pos' = pos + 1
    /\ UNCHANGED <<snap, begin, last, done>>

\* An admin or unreadable frame, or none: the hole grows.
Skip ==
    /\ pos <= last /\ ~Replayable(snap[pos])
    /\ pos' = pos + 1
    /\ UNCHANGED <<snap, begin, last, cursor, sent, untagged, done>>

\* The trailing hole.
Finish ==
    /\ pos > last /\ ~done
    /\ sent' = sent \cup flush_gap(last + 1)
    /\ cursor' = last + 1 /\ done' = TRUE
    /\ UNCHANGED <<snap, begin, last, pos, untagged>>

ReplayNext == Resend \/ ResendFails \/ Skip \/ Finish

ReplaySpec == ReplayInit /\ [][ReplayNext]_replay_vars

----------------------------------------------------------------------------
\* The loop stays in its window: neither the position nor the cursor of the replay
\* passes the number after the last one asked for.
InWindow ==
    /\ snap \in [SeqNum -> Stored]
    /\ begin \in 1 .. MaxSeq - 1 /\ last \in begin .. MaxSeq - 1
    /\ pos \in begin .. last + 1 /\ cursor \in begin .. last + 1
    /\ sent \subseteq Message
    /\ untagged \subseteq SeqNum
    /\ done \in BOOLEAN

\* The numbers a frame accounts for at the peer.
Covers(m) == IF m.type = "SequenceReset" THEN m.seq .. Cast(m.new) - 1 ELSE {m.seq}

\* The frames tile the window: each number before the cursor is accounted for by
\* exactly one frame and none behind it by any, so the peer can neither be left
\* with a hole it cannot close nor see a number twice.
WindowTiled ==
    /\ \A n \in begin .. cursor - 1 : \E m \in sent : n \in Covers(m)
    /\ \A m \in sent : Covers(m) \subseteq begin .. cursor - 1
    /\ \A m1, m2 \in sent : m1 # m2 => Covers(m1) \cap Covers(m2) = {}

\* An application message of the window is resent, not filled over, unless it
\* could not be serialised.
NothingFilledOver ==
    \A m \in sent : m.type = "SequenceReset" =>
        \A n \in Covers(m) : Replayable(snap[n]) => n \in untagged

\* When the loop ends, it has emitted what Replay says.
LoopComputesReplay ==
    (done /\ untagged = {}) => sent = Replay(snap, begin, last)
=============================================================================
