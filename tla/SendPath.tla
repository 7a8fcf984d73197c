------------------------------ MODULE SendPath ------------------------------
(***************************************************************************)
(* The send path of one session step by step, with several threads in it:  *)
(* application threads in Session::send, the IO thread answering           *)
(* ResendRequests, and the timer thread that may tear the session down.    *)
(* send_mutex_ is held from the claim to the hand-over to the transport;   *)
(* the store has its own mutex, so each store call is one step.            *)
(***************************************************************************)
EXTENDS SessionCore, Sequences

CONSTANTS Senders,    \* the threads that call Session::send
          MaxReplays  \* ResendRequests answered

ASSUME SendPathConstants == MaxReplays \in Nat /\ "free" \notin Senders

VARIABLES state,        \* state_: Active until someone disconnects
          next_sender,  \* the store's NextSenderMsgSeqNum
          out,          \* the store's outbound frames
          holder,       \* the thread that holds send_mutex_, or "free"
          pc,           \* where each sender is
          claim,        \* the number it has claimed
          io,           \* the IO thread in handle_resend_request
          replays,      \* ResendRequests answered so far
          wire          \* the frames handed to the transport, in order

vars == <<state, next_sender, out, holder, pc, claim, io, replays, wire>>

NoReplay == [at |-> "idle", begin |-> 0, next |-> 0, snap |-> NoFrames]

Init ==
    /\ state = "Active"
    /\ next_sender = 1
    /\ out = NoFrames
    /\ holder = "free"
    /\ pc = [t \in Senders |-> "idle"]
    /\ claim = [t \in Senders |-> 0]
    /\ io = NoReplay
    /\ replays = 0
    /\ wire = <<>>

At(t, from, to) == pc[t] = from /\ pc' = [pc EXCEPT ![t] = to]

\* Session::send looks at the state before it takes the lock.
CheckActive(t) ==
    /\ state = "Active"
    /\ At(t, "idle", "lock")
    /\ UNCHANGED <<state, next_sender, out, holder, claim, io, replays, wire>>

Lock(t) ==
    /\ holder = "free" /\ holder' = t
    /\ At(t, "lock", "claim")
    /\ UNCHANGED <<state, next_sender, out, claim, io, replays, wire>>

\* next_sender_seq_num_incr.
Claim(t) ==
    /\ At(t, "claim", "store")
    /\ next_sender < MaxSeq
    /\ claim' = [claim EXCEPT ![t] = next_sender]
    /\ next_sender' = next_sender + 1
    /\ UNCHANGED <<state, out, holder, io, replays, wire>>

ClaimRefused(t) ==
    /\ At(t, "claim", "unlock")
    /\ UNCHANGED <<state, next_sender, out, holder, claim, io, replays, wire>>

\* Faulty variant: the lock is released before the frame is handed over.
StoreOutbound_unlocks(t) ==
    /\ At(t, "store", "emit")
    /\ holder' = "free"
    /\ \E b \in Bodies : out' = [out EXCEPT ![claim[t]] = b]
    /\ UNCHANGED <<state, next_sender, claim, io, replays, wire>>

StoreOutbound(t) ==
    /\ At(t, "store", "emit")
    /\ \E b \in Bodies : out' = [out EXCEPT ![claim[t]] = b]
    /\ UNCHANGED <<state, next_sender, holder, claim, io, replays, wire>>

\* Faulty variant: the claim is not given back.
StoreFails_burns(t) ==
    /\ At(t, "store", "unlock")
    /\ UNCHANGED <<state, next_sender, out, holder, claim, io, replays, wire>>

\* Serialisation or store_outbound fails: the claim is given back.
StoreFails(t) ==
    /\ At(t, "store", "unlock")
    /\ next_sender' = claim[t]
    /\ UNCHANGED <<state, out, holder, claim, io, replays, wire>>

\* do_send.
Emit(t) ==
    /\ At(t, "emit", "unlock")
    /\ wire' = Append(wire, [AppMsg(out[claim[t]]) EXCEPT !.seq = claim[t]])
    /\ UNCHANGED <<state, next_sender, out, holder, claim, io, replays>>

Unlock(t) ==
    /\ At(t, "unlock", "idle")
    /\ holder' = "free"
    /\ UNCHANGED <<state, next_sender, out, claim, io, replays, wire>>

\* A peer asks for b after a later number showed it the gap.
PeerMayMiss(b) == \E i \in DOMAIN wire : wire[i].seq > b

\* handle_resend_request reads NextSender for the range of the replay ...
ReadNextSender ==
    /\ io.at = "idle" /\ state = "Active" /\ replays < MaxReplays
    /\ \E b \in 1 .. next_sender :
           /\ PeerMayMiss(b)
           /\ io' = [io EXCEPT !.at = "snapshot", !.begin = b, !.next = next_sender]
    /\ UNCHANGED <<state, next_sender, out, holder, pc, claim, replays, wire>>

\* ... then copies the frames out of the store ...
Snapshot ==
    /\ io.at = "snapshot"
    /\ io' = [io EXCEPT !.at = "lock", !.snap = out]
    /\ UNCHANGED <<state, next_sender, out, holder, pc, claim, replays, wire>>

\* w lists the frames of tx by ascending number.
Ascending(w, tx) ==
    /\ {w[i] : i \in DOMAIN w} = tx
    /\ \A i, j \in DOMAIN w : i < j => w[i].seq < w[j].seq

\* ... and replays under send_mutex_, which keeps every other frame out.
ReplayLocked ==
    /\ io.at = "lock" /\ holder = "free"
    /\ LET tx == Replay(io.snap, io.begin, io.next - 1)
       IN  \E n \in 0 .. MaxSeq : \E w \in [1 .. n -> tx] :
               Ascending(w, tx) /\ wire' = wire \o w
    /\ io' = NoReplay
    /\ replays' = replays + 1
    /\ UNCHANGED <<state, next_sender, out, holder, pc, claim>>

\* disconnect() from the timer or an application thread takes no lock.
Disconnect ==
    /\ state = "Active" /\ state' = "Disconnected"
    /\ UNCHANGED <<next_sender, out, holder, pc, claim, io, replays, wire>>

Next ==
    \/ \E t \in Senders :
           \/ CheckActive(t)
           \/ Lock(t)
           \/ Claim(t)
           \/ ClaimRefused(t)
           \/ StoreOutbound(t)
           \/ StoreFails(t)
           \/ Emit(t)
           \/ Unlock(t)
    \/ ReadNextSender
    \/ Snapshot
    \/ ReplayLocked
    \/ Disconnect

Spec == Init /\ [][Next]_vars

----------------------------------------------------------------------------
FreshAt(i) == ~wire[i].dup

\* The store's counter never passes the last number a claim may return, and every
\* frame handed to the transport is a Message.
TypeOK ==
    /\ state \in {"Active", "Disconnected"}
    /\ next_sender \in 1 .. MaxSeq
    /\ out \in [SeqNum -> Stored]
    /\ holder \in Senders \cup {"free"}
    /\ pc \in [Senders -> {"idle", "lock", "claim", "store", "emit", "unlock"}]
    /\ claim \in [Senders -> SeqNum]
    /\ io \in [at : {"idle", "snapshot", "lock"}, begin : SeqNum, next : SeqNum,
               snap : [SeqNum -> Stored]]
    /\ replays \in Nat
    /\ wire \in Seq(Message)

\* Two threads never put the same number on the wire, and numbers leave in the
\* order they were claimed: the claim and the hand-over share send_mutex_.
FreshNumbersAscend ==
    \A i, j \in DOMAIN wire :
        (i < j /\ FreshAt(i) /\ FreshAt(j)) => wire[i].seq < wire[j].seq

\* Whenever no send is between its claim and its store_outbound, the history is
\* complete up to NextSender: a send that failed midway left neither a hole nor a
\* frame behind.
QuietHistoryComplete ==
    (\A t \in Senders : pc[t] # "store") => \A n \in 1 .. MaxSeq : (out[n] # "none") <=> (n < next_sender)

\* handle_resend_request must not "gap-claim messages we could not read": a
\* GapFill on the wire covers no number under which an application message is,
\* or is about to be, on the wire.
GapFillHidesNothing ==
    \A i \in DOMAIN wire : wire[i].type = "SequenceReset" =>
        \A n \in wire[i].seq .. Cast(wire[i].new) - 1 :
            \A j \in DOMAIN wire : wire[j].seq = n => wire[j].type # "App"

\* Session::send: a session that is no longer Active claims no number.  It does
\* not hold: CheckActive precedes Lock.
NoPhantomNumbers ==
    [][next_sender' > next_sender => state = "Active"]_vars
=============================================================================
