------------------------------ MODULE FileStore ------------------------------
(***************************************************************************)
(* FileStore (src/store/file_store.cpp): a process whose store calls are   *)
(* broken into the steps at which a crash can separate them, and the files *)
(* it leaves behind.  seqfile is the .seqnums file, tmp its temporary      *)
(* sibling, out the outbound log (a record without its newline is not      *)
(* whole) of which the first `synced` records have reached the disk.       *)
(* Calls are serialised by mutex_, so one call is in progress at a time.   *)
(*                                                                         *)
(* The caller is the session: it stores a frame under the number it has    *)
(* just claimed, and gives the claim back when that fails.                 *)
(***************************************************************************)
EXTENDS Integers, Sequences

CONSTANTS MaxSeq,        \* std::numeric_limits<SeqNum>::max()
          Frames,        \* serialised messages
          MaxLog,        \* bound on the records of the log
          FsyncMessages, \* Options::fsync_messages
          Faults,        \* which system calls may fail
          PowerLoss      \* unsynced records may be lost in a crash

\* "persist": persist_seqs, outside reset; "write": a log write; "fsync": the fsync
\* of a log; "repair": rebuild_index cannot truncate; "open": a log cannot be
\* opened; "reset": reset cannot truncate or cannot persist.
FaultKinds == {"persist", "write", "fsync", "repair", "open", "reset"}

ASSUME FileStoreConstants ==
    /\ MaxSeq \in Nat /\ MaxSeq > 1 /\ MaxLog \in Nat
    /\ FsyncMessages \in BOOLEAN /\ PowerLoss \in BOOLEAN
    /\ Faults \subseteq FaultKinds
    /\ "none" \notin Frames /\ "spliced" \notin Frames

VARIABLES seqfile, tmp, out, synced,             \* files
          mem, index, stream, closed,            \* the FileStore object
          op,                                    \* the call in progress
          ret,                                   \* whether the last call succeeded
          pending,                               \* a claimed number not stored yet, or 0
          owed,                                  \* it must be given back
          issued, accepted, failed               \* history: see the properties

files == <<seqfile, tmp, out, synced>>
object == <<mem, index, stream, closed>>
history == <<pending, owed, issued, accepted, failed>>
vars == <<seqfile, tmp, out, synced, mem, index, stream, closed, op, ret,
          pending, owed, issued, accepted, failed>>

Seqs == 1 .. MaxSeq
Numbers == [sender : 0 .. MaxSeq, target : 0 .. MaxSeq]
First == [sender |-> 1, target |-> 1]

\* The sequence file and its temporary sibling.
Content == [is : {"absent", "torn", "whole"}, num : Numbers]
Absent == [is |-> "absent", num |-> First]
Torn == [is |-> "torn", num |-> First]
Holding(num) == [is |-> "whole", num |-> num]

NoFrame == [n \in Seqs |-> "none"]
NoIndex == [n \in Seqs |-> 0]

Idle == [kind |-> "none", at |-> "idle", prev |-> First, frame |-> "none", result |-> "ok"]

At(p) == op.at = p
GoTo(p) == op' = [op EXCEPT !.at = p]
Return(r) == op' = Idle /\ ret' = r

Init ==
    /\ seqfile = Absent /\ tmp = Absent /\ out = <<>> /\ synced = 0
    /\ mem = First /\ index = NoIndex /\ stream = "good" /\ closed = FALSE
    /\ op = Idle /\ ret = "ok"
    /\ pending = 0 /\ owed = FALSE /\ issued = {} /\ accepted = NoFrame /\ failed = {}

----------------------------------------------------------------------------
(* Opening: load_seqs, rebuild_index, the streams. *)

\* Without an unterminated record at its end.
Whole(log) ==
    IF log # <<>> /\ ~log[Len(log)].whole THEN SubSeq(log, 1, Len(log) - 1) ELSE log

\* The index maps a number to its last whole record; 0 is no entry.
IndexOf(log) ==
    [n \in Seqs |->
        LET at == {i \in DOMAIN log : log[i].whole /\ log[i].seq = n}
        IN  IF at = {} THEN 0 ELSE CHOOSE i \in at : \A j \in at : j <= i]

Valid(file) ==
    \/ file.is = "absent"
    \/ file.is = "whole" /\ file.num.sender >= 1 /\ file.num.target >= 1

load_seqs(file) == IF file.is = "absent" THEN First ELSE file.num

OpenStream == {"good"} \cup (IF "open" \in Faults THEN {"shut"} ELSE {})

\* Indexes the whole records and truncates a torn tail.
rebuild_index ==
    /\ index' = IndexOf(out)
    /\ out' = Whole(out)
    /\ synced' = IF synced < Len(Whole(out)) THEN synced ELSE Len(Whole(out))

\* FileStore::FileStore after a crash or an orderly close; an invalid sequence
\* file refuses to start.
Open ==
    /\ At("down") /\ Valid(seqfile)
    /\ mem' = load_seqs(seqfile)
    /\ rebuild_index
    /\ stream' \in OpenStream
    /\ closed' = FALSE
    /\ Return("ok")
    /\ UNCHANGED <<seqfile, tmp, history>>

\* refresh: reread the numbers, reindex and reopen a stream that failed.
refresh ==
    /\ At("idle") /\ Valid(seqfile)
    /\ mem' = load_seqs(seqfile)
    /\ rebuild_index
    /\ stream' \in (IF stream = "bad" THEN OpenStream ELSE {stream})
    /\ Return("ok")
    /\ UNCHANGED <<seqfile, tmp, closed, history>>

\* refresh when a torn tail cannot be truncated away.
refresh_fails ==
    /\ At("idle") /\ Valid(seqfile)
    /\ "repair" \in Faults /\ Whole(out) # out
    /\ mem' = load_seqs(seqfile)
    /\ index' = IndexOf(out)
    /\ Return("error")
    /\ UNCHANGED <<files, stream, closed, history>>

----------------------------------------------------------------------------
(* persist_seqs: temporary file, fsync, rename. *)

\* A setter changes the counter in memory, then persists both counters.
Mutate(kind, new) ==
    /\ At("idle") /\ ~closed
    /\ mem' = new
    /\ op' = [Idle EXCEPT !.kind = kind, !.at = "persist", !.prev = mem]
    /\ UNCHANGED <<files, index, stream, closed, ret, history>>

next_sender_seq_num_incr ==
    /\ pending = 0
    /\ mem.sender < MaxSeq
    /\ Mutate("claim", [mem EXCEPT !.sender = @ + 1])

\* The session gives the claim back when the frame cannot be serialised or
\* store_outbound fails.
set_next_sender_seq_num ==
    /\ pending # 0
    /\ Mutate("giveback", [mem EXCEPT !.sender = pending])

\* Faulty variant: the wrong counter is set.
set_next_target_seq_num_swapped(n) == Mutate("target", [mem EXCEPT !.sender = n])

set_next_target_seq_num(n) == Mutate("target", [mem EXCEPT !.target = n])

advance_next_target_seq_num(n) ==
    n > mem.target /\ Mutate("advance", [mem EXCEPT !.target = n])

\* Faulty variant: the sequence file is rewritten in place.
OpenTmp_in_place ==
    /\ At("persist") /\ GoTo("write")
    /\ tmp' = Torn /\ seqfile' = Torn
    /\ UNCHANGED <<out, synced, object, ret, history>>

OpenTmp ==
    /\ At("persist") /\ GoTo("write")
    /\ tmp' = Torn
    /\ UNCHANGED <<seqfile, out, synced, object, ret, history>>

WriteTmp ==
    /\ At("write") /\ GoTo("rename")
    /\ tmp' = Holding(mem)
    /\ UNCHANGED <<seqfile, out, synced, object, ret, history>>

\* What the caller learns when the new numbers are in place.
Persisted ==
    /\ pending' = CASE op.kind = "claim" -> op.prev.sender
                    [] op.kind = "giveback" -> 0
                    [] OTHER -> pending
    /\ owed' = (owed /\ op.kind # "giveback")
    /\ issued' = CASE op.kind = "claim" -> issued \cup {op.prev.sender}
                   [] op.kind = "giveback" -> issued \ {mem.sender}
                   [] op.kind = "reset" -> {}
                   [] OTHER -> issued

Rename ==
    /\ At("rename")
    /\ seqfile' = tmp /\ tmp' = Absent
    /\ Return(op.result)
    /\ Persisted
    /\ stream' \in (IF op.kind = "reset" THEN OpenStream ELSE {stream})
    /\ closed' = (closed \/ op.kind = "close")
    /\ UNCHANGED <<out, synced, mem, index, accepted, failed>>

Persisting == op.at \in {"persist", "write", "rename"}

\* What a failed persist_seqs leaves of the temporary file: one it could not open
\* is not touched.
Discarded == IF op.at \in {"write", "rename"} THEN Absent ELSE tmp

\* A setter puts its counter back.  A claim that cannot be given back is lost.
PersistFails ==
    /\ Persisting /\ op.kind \notin {"reset", "close"} /\ "persist" \in Faults
    /\ tmp' = Discarded
    /\ mem' = op.prev
    /\ pending' = IF op.kind = "giveback" THEN 0 ELSE pending
    /\ owed' = (owed /\ op.kind # "giveback")
    /\ Return("error")
    /\ UNCHANGED <<seqfile, out, synced, index, stream, closed, issued, accepted, failed>>

----------------------------------------------------------------------------
(* store_outbound: append, flush, optionally fsync, index. *)

\* A record written behind an unterminated one shares its line.
Put(log, r) ==
    IF log # <<>> /\ ~log[Len(log)].whole
    THEN [log EXCEPT ![Len(log)].frame = "spliced", ![Len(log)].whole = TRUE]
    ELSE Append(log, r)

\* The write has begun; it completes, fails or is cut short by a crash.
store_outbound(f) ==
    /\ At("idle") /\ ~closed /\ stream = "good"
    /\ pending # 0 /\ ~owed /\ Len(out) < MaxLog
    /\ out' = Put(out, [seq |-> pending, frame |-> f, whole |-> FALSE])
    /\ op' = [Idle EXCEPT !.kind = "store", !.at = "append", !.frame = f]
    /\ failed' = failed \ {<<pending, f>>}
    /\ UNCHANGED <<seqfile, tmp, synced, object, ret, pending, owed, issued, accepted>>

\* The stream is not usable: nothing is written.
store_outbound_refused ==
    /\ At("idle") /\ stream # "good"
    /\ pending # 0 /\ ~owed
    /\ owed' = TRUE
    /\ Return("error")
    /\ UNCHANGED <<files, object, pending, issued, accepted, failed>>

\* Faulty variant: fsync_messages is ignored.
Flushed_unsynced ==
    /\ At("append")
    /\ out' = [out EXCEPT ![Len(out)].whole = TRUE]
    /\ GoTo("index")
    /\ UNCHANGED <<seqfile, tmp, synced, object, ret, history>>

Flushed ==
    /\ At("append")
    /\ out' = [out EXCEPT ![Len(out)].whole = TRUE]
    /\ GoTo(IF FsyncMessages THEN "fsync" ELSE "index")
    /\ UNCHANGED <<seqfile, tmp, synced, object, ret, history>>

\* Faulty variant: the record is indexed before its write is known to have succeeded.
WriteFails_indexed ==
    /\ At("append") /\ "write" \in Faults
    /\ index' = [index EXCEPT ![pending] = Len(out)]
    /\ stream' = "bad"
    /\ failed' = failed \cup {<<pending, op.frame>>}
    /\ owed' = TRUE
    /\ Return("error")
    /\ UNCHANGED <<files, mem, closed, pending, issued, accepted>>

\* Part of the record, or nothing of it, reached the log; the stream latches.
WriteFails ==
    /\ At("append") /\ "write" \in Faults
    /\ out' \in {out, SubSeq(out, 1, Len(out) - 1)}
    /\ stream' = "bad"
    /\ failed' = failed \cup {<<pending, op.frame>>}
    /\ owed' = TRUE
    /\ Return("error")
    /\ UNCHANGED <<seqfile, tmp, synced, mem, index, closed, pending, issued, accepted>>

Fsynced ==
    /\ At("fsync") /\ GoTo("index")
    /\ synced' = Len(out)
    /\ UNCHANGED <<seqfile, tmp, out, object, ret, history>>

\* The record is in the log but not in the index.
FsyncFails ==
    /\ At("fsync") /\ "fsync" \in Faults
    /\ failed' = failed \cup {<<pending, op.frame>>}
    /\ owed' = TRUE
    /\ Return("error")
    /\ UNCHANGED <<files, object, pending, issued, accepted>>

Index ==
    /\ At("index")
    /\ index' = [index EXCEPT ![pending] = Len(out)]
    /\ accepted' = [accepted EXCEPT ![pending] = op.frame]
    /\ pending' = 0
    /\ Return("ok")
    /\ UNCHANGED <<files, mem, stream, closed, owed, issued, failed>>

----------------------------------------------------------------------------
(* reset and close. *)

\* Faulty variant: the streams stay open.
reset_keeps_streams ==
    /\ At("idle") /\ ~closed /\ pending = 0
    /\ mem' = First /\ index' = NoIndex
    /\ op' = [Idle EXCEPT !.kind = "reset", !.at = "truncate", !.prev = mem]
    /\ accepted' = NoFrame
    /\ UNCHANGED <<files, stream, closed, ret, pending, owed, issued, failed>>

\* Memory first, with both streams closed ...
reset ==
    /\ At("idle") /\ ~closed /\ pending = 0
    /\ mem' = First /\ index' = NoIndex /\ stream' = "shut"
    /\ op' = [Idle EXCEPT !.kind = "reset", !.at = "truncate", !.prev = mem]
    /\ accepted' = NoFrame
    /\ UNCHANGED <<files, closed, ret, pending, owed, issued, failed>>

\* Faulty variant: the numbers are persisted before the logs are truncated.
Truncate_late ==
    /\ At("truncate") /\ GoTo("persist")
    /\ UNCHANGED <<files, object, ret, history>>

\* ... then the logs, then persist_seqs and the reopening in Rename.
Truncate ==
    /\ At("truncate") /\ GoTo("persist")
    /\ out' = <<>> /\ synced' = 0
    /\ failed' = {}
    /\ UNCHANGED <<seqfile, tmp, object, ret, pending, owed, issued, accepted>>

\* The outbound log cannot be truncated, or the inbound log cannot, or the
\* numbers cannot be persisted.
reset_fails ==
    /\ op.kind = "reset" /\ "reset" \in Faults
    /\ tmp' = Discarded
    /\ Return("error")
    /\ UNCHANGED <<seqfile, out, synced, object, history>>

\* The logs are flushed, synced and closed, then the numbers persisted.
close ==
    /\ At("idle") /\ ~closed
    /\ synced' \in (IF stream # "good" THEN {synced}
                    ELSE {Len(out)} \cup (IF "fsync" \in Faults THEN {synced} ELSE {}))
    /\ stream' = "shut"
    /\ op' = [Idle EXCEPT !.kind = "close", !.at = "persist", !.prev = mem,
                          !.result = IF stream = "bad" THEN "error" ELSE "ok"]
    /\ UNCHANGED <<seqfile, tmp, out, mem, index, closed, ret, history>>

\* first_error holds a value, so `!first_error` keeps the error from being noted.
close_fails ==
    /\ Persisting /\ op.kind = "close" /\ "persist" \in Faults
    /\ tmp' = Discarded
    /\ closed' = TRUE
    /\ Return(op.result)
    /\ UNCHANGED <<seqfile, out, synced, mem, index, stream, history>>

----------------------------------------------------------------------------
(* The process dies: kill -9 leaves the files as they are, a power cut may *)
(* also take records that were not synced.                                 *)

Die ==
    /\ ~At("down")
    /\ mem' = First /\ index' = NoIndex /\ stream' = "shut" /\ closed' = FALSE
    /\ op' = [Idle EXCEPT !.at = "down"]
    /\ pending' = 0 /\ owed' = FALSE
    /\ UNCHANGED <<seqfile, tmp, ret, issued, accepted, failed>>

Kill == Die /\ UNCHANGED <<out, synced>>

PowerCut ==
    /\ PowerLoss /\ Die
    /\ \E k \in synced .. Len(out) : out' = SubSeq(out, 1, k) /\ synced' = k

Next ==
    \/ Open
    \/ refresh
    \/ refresh_fails
    \/ next_sender_seq_num_incr
    \/ set_next_sender_seq_num
    \/ \E n \in Seqs : set_next_target_seq_num(n)
    \/ \E n \in Seqs : advance_next_target_seq_num(n)
    \/ OpenTmp
    \/ WriteTmp
    \/ Rename
    \/ PersistFails
    \/ \E f \in Frames : store_outbound(f)
    \/ store_outbound_refused
    \/ Flushed
    \/ WriteFails
    \/ Fsynced
    \/ FsyncFails
    \/ Index
    \/ reset
    \/ Truncate
    \/ reset_fails
    \/ close
    \/ close_fails
    \/ Kill
    \/ PowerCut

Spec == Init /\ [][Next]_vars

----------------------------------------------------------------------------
(* Properties.  issued: the numbers handed out since the last reset and not *)
(* given back; accepted: the frame the last successful store_outbound put   *)
(* under a number; failed: numbers and frames store_outbound refused.       *)

\* Every variable keeps its type; no index entry points past the end of the log and
\* no more records are synced than there are.
TypeOK ==
    /\ seqfile \in Content /\ tmp \in Content
    /\ out \in Seq([seq : Seqs, frame : Frames \cup {"spliced"}, whole : BOOLEAN])
    /\ synced \in 0 .. Len(out)
    /\ mem \in Numbers /\ index \in [Seqs -> Nat] /\ \A n \in Seqs : index[n] <= Len(out)
    /\ stream \in {"good", "bad", "shut"} /\ closed \in BOOLEAN
    /\ op.at \in {"idle", "down", "persist", "write", "rename", "append", "fsync",
                  "index", "truncate"}
    /\ ret \in {"ok", "error"}
    /\ pending \in 0 .. MaxSeq /\ issued \subseteq Seqs
    /\ owed \in BOOLEAN
    /\ accepted \in [Seqs -> Frames \cup {"none"}]

\* Wherever the process dies inside persist_seqs, the sequence file it leaves is
\* one load_seqs accepts: the store never refuses to start after a crash.
SeqFileAlwaysLoads == Valid(seqfile)

\* The contract of message_store.hpp: "A failed persist leaves the previous value
\* in place".  Between calls the counters in memory are the ones on disk.
PreviousValueInPlace == At("idle") => mem = load_seqs(seqfile)

\* No number is handed out twice between two resets, across crashes, failed
\* persists and claims that were given back.
ClaimsAreFresh ==
    [][(op.kind = "claim" /\ op'.at = "idle" /\ ret' = "ok") => op.prev.sender \notin issued]_vars

\* After a reset that failed midway the counters and the sequence file disagree;
\* no frame can be stored, so none is sent, until they agree again.
StoringNeedsAgreement ==
    (At("idle") /\ stream = "good") => mem = load_seqs(seqfile)

\* What store_outbound accepted can be read back by get_messages, whatever
\* failed, crashed or was repaired since.
AcceptedFramesSurvive ==
    At("idle") => \A n \in Seqs : accepted[n] # "none" =>
        index[n] # 0 /\ out[index[n]].frame = accepted[n]

\* A frame whose store_outbound reported an error is never served to a peer: no
\* number in use is indexed to it, and no record is two frames run together.
NoFailedFrameReplayed ==
    At("idle") => \A n \in Seqs : (n < mem.sender /\ index[n] # 0) =>
        /\ <<n, out[index[n]].frame>> \notin failed
        /\ out[index[n]].frame # "spliced"

\* "reset()/refresh() reopen": a refresh that succeeds on an open store leaves it
\* able to store frames, so one failed call does not wedge sending for good.  It
\* holds until a reset fails: refresh leaves a closed stream closed.
RefreshReopens == [][(refresh /\ ~closed) => stream' = "good"]_vars

\* close "flush + fsync both message logs so nothing accepted is lost": when it
\* reports success every record is synced.  It does not hold once a sync fails:
\* close drops that error.
CloseSyncs == [][(~closed /\ closed' /\ ret' = "ok") => synced' = Len(out')]_vars

\* The frame get_messages would serve under each number after a restart.
Recoverable ==
    [n \in Seqs |-> IF IndexOf(out)[n] = 0 THEN "none" ELSE out[IndexOf(out)[n]].frame]

Contract == INSTANCE MessageStore WITH nums <- load_seqs(seqfile), frames <- Recoverable

\* The files change as the store contract says: each call takes effect on disk in
\* one step, and after a reset no frame of the old numbering is left when the
\* numbers start again.
ImplementsContract == Contract!Spec
=============================================================================
