------------------------ MODULE FileStoreFrameProofs ------------------------
(***************************************************************************)
(* The frames FileStore keeps, on top of LogInv and SpentInv.  AcceptInv   *)
(* says where an accepted frame is, FailInv which frames the log holds.    *)
(* Last the refinement of MessageStore, with CallInv for what a call makes *)
(* of the numbers.                                                         *)
(***************************************************************************)
EXTENDS FileStoreProofs

\* Record i of the log is whole and the last one of number n.
LastOf(n, i) ==
    /\ i \in 1 .. Len(out) /\ out[i].whole /\ out[i].seq = n
    /\ \A j \in 1 .. Len(out) : out[j].seq = n => j <= i

\* The frame accepted under n is in record i, which no power cut takes.
KeptIn(n, i) ==
    /\ LastOf(n, i) /\ out[i].frame = accepted[n]
    /\ PowerLoss => i <= synced
    /\ ~At("down") => index[n] = i

\* Every frame reported as stored is in the log and found by the index.
AcceptInv ==
    /\ At("index") /\ FsyncMessages => synced = Len(out)
    /\ \A n \in Seqs : accepted[n] # "none" => \E i \in 1 .. Len(out) : KeptIn(n, i)

\* The record store_outbound has written and not reported yet.
Unreported(i) == op.at \in {"fsync", "index"} /\ i = Len(out)

\* A whole record was written under a number that is spent, and not by a call that
\* failed.
FailInv ==
    /\ \A i \in 1 .. Len(out) : out[i].whole =>
           /\ out[i].seq < load_seqs(seqfile).sender
           /\ pending # 0 => Unreported(i) \/ out[i].seq < pending
           /\ <<out[i].seq, out[i].frame>> \notin failed
    /\ At("append") => <<pending, op.frame>> \notin failed
    /\ At("fsync") => FsyncMessages

\* What the call in progress makes of the numbers it began with.
CallInv ==
    /\ op.kind = "claim" => mem = [op.prev EXCEPT !.sender = @ + 1]
    /\ op.kind = "giveback" => mem = [op.prev EXCEPT !.sender = pending]
    /\ op.kind \in {"target", "advance"} => \E n \in Seqs : mem = [op.prev EXCEPT !.target = n]
    /\ op.kind = "close" => mem = op.prev
    /\ op.kind = "reset" => mem = First

-----------------------------------------------------------------------------
\* The index entry of the last whole record.
LEMMA LastIndexed ==
    ASSUME out \in Seq(Record), NEW n \in Seqs, NEW i, LastOf(n, i)
    PROVE  IndexOf(out)[n] = i
<1>1. Len(out) \in Nat /\ i \in 1 .. Len(out)
  BY LogLength, Zenon DEF LastOf
<1>2. IndexOf(out)[n] \in 1 .. Len(out) /\ i <= IndexOf(out)[n]
      /\ out[IndexOf(out)[n]].seq = n
  BY <1>1, IndexPoints DEF LastOf
<1> QED
  BY <1>1, <1>2 DEF LastOf

\* A new store has accepted nothing.
LEMMA AcceptInit == Init => AcceptInv
  BY IdleRecord, Zenon DEF Init, AcceptInv, NoFrame, At

\* Steps that leave the log, its index and what was accepted alone.
LEMMA AcceptQuiet ==
    ASSUME AcceptInv, LogTypes, LogTypes', UNCHANGED <<out, accepted>>, synced' \in {synced, Len(out)},
           op'.at # "index" \/ synced' = Len(out) \/ ~FsyncMessages,
           \/ op'.at = "down"
           \/ index' = index /\ ~At("down")
           \/ index' = IndexOf(out)
    PROVE  AcceptInv'
<1>1. At("index")' /\ FsyncMessages => synced' = Len(out')
  BY Zenon DEF At
<1>2. ASSUME NEW n \in Seqs, accepted'[n] # "none"
      PROVE  \E i \in 1 .. Len(out') : KeptIn(n, i)'
  <2>1. PICK i \in 1 .. Len(out) : KeptIn(n, i)
    BY <1>2, Zenon DEF AcceptInv
  <2>2. LastOf(n, i)' /\ out'[i].frame = accepted'[n]
    BY <2>1, Zenon DEF KeptIn, LastOf
  <2>3. PowerLoss => i <= synced'
    BY <2>1, LogLength DEF KeptIn, LogTypes
  <2>4. ~At("down")' => index'[n] = i
    BY <2>1, LastIndexed, Zenon DEF KeptIn, At, LogTypes
  <2> QED
    BY <2>2, <2>3, <2>4, Zenon DEF KeptIn
<1> QED
  BY <1>1, <1>2, Zenon DEF AcceptInv

\* The log loses records from its end, none that was accepted.
LEMMA AcceptCut ==
    ASSUME AcceptInv, LogInv, LogInv', UNCHANGED accepted, Len(out') <= Len(out),
           \A i \in 1 .. Len(out') : out'[i] = out[i],
           op'.at # "index",
           \A i \in 1 .. Len(out) : out[i].whole /\ (PowerLoss => i <= synced) =>
               i <= Len(out') /\ (PowerLoss => i <= synced'),
           \/ op'.at = "down"
           \/ index' = index /\ ~At("down")
           \/ index' = IndexOf(out)
    PROVE  AcceptInv'
<1>0. Len(out) \in Nat /\ Len(out') \in Nat /\ out \in Seq(Record)
  BY LogLength, Zenon DEF LogInv, LogTypes
<1>1. ASSUME NEW n \in Seqs, accepted'[n] # "none"
      PROVE  \E i \in 1 .. Len(out') : KeptIn(n, i)'
  <2>1. PICK i \in 1 .. Len(out) : KeptIn(n, i)
    BY <1>1, Zenon DEF AcceptInv
  <2>2. i \in 1 .. Len(out') /\ (PowerLoss => i <= synced')
    BY <1>0, <2>1 DEF KeptIn, LastOf
  <2>3. LastOf(n, i)' /\ out'[i].frame = accepted'[n]
    BY <1>0, <2>1, <2>2 DEF KeptIn, LastOf
  <2>4. ~At("down")' => index'[n] = i
    BY <1>0, <2>1, LastIndexed, Zenon DEF KeptIn, At
  <2> QED
    BY <2>2, <2>3, <2>4, Zenon DEF KeptIn
<1> QED
  BY <1>1, Zenon DEF AcceptInv, At

\* Every step keeps each accepted frame in the last whole record of its number.
LEMMA AcceptStep ==
    ASSUME PowerLoss => FsyncMessages,
           NumInv, OpInv, StreamInv, LogInv, LogInv', ClaimInv, SpentInv, AcceptInv, [Next]_vars
    PROVE  AcceptInv'
<1>0. /\ op \in OpRecord /\ out \in Seq(Record) /\ Len(out) \in Nat /\ synced \in 0 .. Len(out)
      /\ LogTypes /\ LogTypes'
  BY LogLength, Zenon DEF NumInv, LogInv, LogTypes
<1>1. CASE UNCHANGED vars
  BY <1>1, ZenonT(30) DEF vars, AcceptInv, KeptIn, LastOf, At
<1>2. CASE Kill
  <2>1. op'.at = "down" /\ UNCHANGED <<out, synced, accepted>>
    BY <1>0, <1>2, OpSteps, Zenon DEF Kill, Die
  <2> QED
    BY <1>0, <2>1, AcceptQuiet, Zenon
<1>3. CASE PowerCut
  <2>1. PICK k \in synced .. Len(out) : out' = SubSeq(out, 1, k) /\ synced' = k
    BY <1>3, Zenon DEF PowerCut
  <2>2. op'.at = "down" /\ UNCHANGED accepted /\ PowerLoss
    BY <1>0, <1>3, OpSteps, Zenon DEF PowerCut, Die
  <2>3. k \in 0 .. Len(out)
    BY <1>0
  <2>4. Len(out') = k /\ \A i \in 1 .. k : out'[i] = out[i]
    BY <1>0, <2>1, <2>3, PrefixLog, Zenon
  <2> QED
    BY <1>0, <2>1, <2>2, <2>3, <2>4, AcceptCut
<1>4. CASE Open \/ refresh
  <2>1. op'.at = "idle" /\ rebuild_index /\ UNCHANGED accepted
    BY <1>0, <1>4, OpSteps, Zenon DEF Open, refresh, history
  <2>2. out' = Whole(out) /\ index' = IndexOf(out)
        /\ synced' = IF synced < Len(Whole(out)) THEN synced ELSE Len(Whole(out))
    BY <2>1, Zenon DEF rebuild_index
  <2>3. /\ Len(out') \in 0 .. Len(out)
        /\ \A i \in 1 .. Len(out') : out'[i] = out[i]
        /\ \A i \in 1 .. Len(out) : out[i].whole => i <= Len(out')
    BY <1>0, <2>2, WholeLog, Zenon DEF LogInv, TailInv
  <2> QED
    BY <1>0, <2>1, <2>2, <2>3, AcceptCut
<1>5. CASE refresh_fails
  <2>1. op'.at = "idle" /\ index' = IndexOf(out) /\ UNCHANGED <<out, synced, accepted>>
    BY <1>0, <1>5, OpSteps, Zenon DEF refresh_fails, files, history
  <2> QED
    BY <1>0, <2>1, AcceptQuiet, Zenon
<1>6. CASE \/ next_sender_seq_num_incr \/ set_next_sender_seq_num
           \/ \E n \in Seqs : set_next_target_seq_num(n) \/ advance_next_target_seq_num(n)
  <2>0. PICK kind \in Setters : \E new : Mutate(kind, new)
    BY <1>6, SetterMutates, Zenon
  <2>1. PICK new : Mutate(kind, new)
    BY <2>0, Zenon
  <2>2. /\ op.at = "idle" /\ op'.at = "persist" /\ UNCHANGED <<out, synced, index, accepted>>
    BY <2>1, Begins, Zenon DEF files, history
  <2> QED
    BY <1>0, <2>2, AcceptQuiet, Zenon DEF At
<1>7. CASE OpenTmp \/ WriteTmp
  <2>1. /\ op.at \in {"persist", "write"} /\ op'.at \in {"write", "rename"}
        /\ UNCHANGED <<out, synced, index, accepted>>
    BY <1>0, <1>7, OpSteps, Zenon DEF OpenTmp, WriteTmp, At, object, history
  <2> QED
    BY <1>0, <2>1, AcceptQuiet, Zenon DEF At
<1>8. CASE Rename \/ PersistFails \/ close_fails \/ reset_fails \/ store_outbound_refused \/ FsyncFails
  <2>1. /\ op'.at = "idle" /\ UNCHANGED <<out, synced, index, accepted>>
    BY <1>0, <1>8, OpSteps, Zenon DEF Rename, PersistFails, close_fails, reset_fails,
                               store_outbound_refused, FsyncFails, files, object, history
  <2>2. op.at # "down"
    BY <1>8, Zenon DEF Rename, PersistFails, close_fails, reset_fails, store_outbound_refused, FsyncFails,
                OpInv, At, Persisting
  <2> QED
    BY <1>0, <2>1, <2>2, AcceptQuiet, Zenon DEF At
<1>10. ASSUME NEW f \in Frames, store_outbound(f) PROVE AcceptInv'
  <2>1. /\ op.at = "idle" /\ op'.at = "append" /\ pending # 0
        /\ UNCHANGED <<synced, index, accepted, pending>>
    BY <1>10, Begins, Zenon DEF store_outbound, At, object
  <2> DEFINE r == [seq |-> pending, frame |-> f, whole |-> FALSE]
  <2>2. out' = Append(out, r) /\ r \in Record /\ r.seq = pending
    BY <1>10, LogStore, Zenon
  <2> HIDE DEF r
  <2>3. /\ Len(out') = Len(out) + 1 /\ \A i \in 1 .. Len(out) : out'[i] = out[i]
        /\ out'[Len(out) + 1] = r
    BY <1>0, <2>2, AppendLog, Zenon
  <2>4. ASSUME NEW n \in Seqs, accepted'[n] # "none"
        PROVE  \E i \in 1 .. Len(out') : KeptIn(n, i)'
    <3>1. PICK i \in 1 .. Len(out) : KeptIn(n, i)
      BY <2>1, <2>4, Zenon DEF AcceptInv
    <3>2. n # pending
      BY <2>1, <2>4 DEF SpentInv, Below, Seqs
    <3>3. LastOf(n, i)' /\ out'[i].frame = accepted'[n]
      BY <1>0, <2>1, <2>2, <2>3, <3>1, <3>2 DEF KeptIn, LastOf
    <3>4. KeptIn(n, i)'
      BY <2>1, <3>1, <3>3, Zenon DEF KeptIn, At
    <3> QED
      BY <1>0, <2>3, <3>4
  <2> QED
    BY <2>1, <2>4, Zenon DEF AcceptInv, At
<1>11. CASE Flushed
  <2>1. /\ op.at = "append" /\ op'.at = (IF FsyncMessages THEN "fsync" ELSE "index")
        /\ UNCHANGED <<synced, index, accepted>>
    BY <1>0, <1>11, OpSteps, Zenon DEF Flushed, At, object, history
  <2>2. /\ Len(out') = Len(out) /\ Len(out) \in Nat \ {0}
        /\ \A i \in 1 .. Len(out) : /\ i # Len(out) => out'[i] = out[i]
                                    /\ out'[i].seq = out[i].seq /\ out'[i].frame = out[i].frame
    BY <1>11, LogFlushed, Zenon
  <2>3. ~out[Len(out)].whole
    BY <2>1, Zenon DEF LogInv, WriteInv, At
  <2>4. ASSUME NEW n \in Seqs, accepted'[n] # "none"
        PROVE  \E i \in 1 .. Len(out') : KeptIn(n, i)'
    <3>1. PICK i \in 1 .. Len(out) : KeptIn(n, i)
      BY <2>1, <2>4, Zenon DEF AcceptInv
    <3>2. i # Len(out)
      BY <2>3, <3>1, Zenon DEF KeptIn, LastOf
    <3>3. LastOf(n, i)' /\ out'[i].frame = accepted'[n]
      BY <2>1, <2>2, <3>1, <3>2, Zenon DEF KeptIn, LastOf
    <3>4. KeptIn(n, i)'
      BY <2>1, <3>1, <3>3, Zenon DEF KeptIn, At
    <3> QED
      BY <2>2, <3>4, Zenon
  <2> QED
    BY <2>1, <2>4, Zenon DEF AcceptInv, At
<1>12. CASE WriteFails
  <2>1. /\ op.at = "append" /\ op'.at = "idle"
        /\ out' \in {out, SubSeq(out, 1, Len(out) - 1)} /\ UNCHANGED <<synced, index, accepted>>
    BY <1>0, <1>12, OpSteps, Zenon DEF WriteFails, At
  <2>2. CASE out' = out
    BY <1>0, <2>1, <2>2, AcceptQuiet, Zenon DEF At
  <2>3. CASE out' = SubSeq(out, 1, Len(out) - 1)
    <3>1. Len(out) \in Nat \ {0} /\ ~out[Len(out)].whole
      BY <2>1, EmptyLog, Zenon DEF LogInv, LogTypes, WriteInv, At
    <3>2. Len(out) - 1 \in 0 .. Len(out)
      BY <3>1
    <3>3. Len(out') = Len(out) - 1 /\ \A i \in 1 .. Len(out) - 1 : out'[i] = out[i]
      BY <1>0, <2>3, <3>2, PrefixLog, Zenon
    <3>4. \A i \in 1 .. Len(out) : out[i].whole => i <= Len(out')
      BY <3>1, <3>3
    <3> QED
      BY <2>1, <3>1, <3>3, <3>4, AcceptCut DEF At
  <2> QED
    BY <2>1, <2>2, <2>3, Zenon
<1>13. CASE Fsynced
  <2>1. /\ op.at = "fsync" /\ op'.at = "index" /\ synced' = Len(out) /\ UNCHANGED <<out, index, accepted>>
    BY <1>0, <1>13, OpSteps, Zenon DEF Fsynced, At, object, history
  <2> QED
    BY <1>0, <2>1, AcceptQuiet, Zenon DEF At
<1>15. CASE Index
  <2>1. /\ op.at = "index" /\ op'.at = "idle" /\ UNCHANGED <<out, synced>>
        /\ index' = [index EXCEPT ![pending] = Len(out)]
        /\ accepted' = [accepted EXCEPT ![pending] = op.frame]
    BY <1>0, <1>15, OpSteps, Zenon DEF Index, At, files
  <2>2. /\ Len(out) \in Nat \ {0} /\ pending \in Seqs /\ out[Len(out)].seq = pending
        /\ out[Len(out)].frame = op.frame /\ out[Len(out)].whole
    BY <1>0, <2>1, EmptyLog DEF LogInv, WriteInv, TailInv, At
  <2>3. PowerLoss => synced = Len(out)
    BY <2>1, Zenon DEF AcceptInv, At
  <2>4. ASSUME NEW n \in Seqs, accepted'[n] # "none"
        PROVE  \E i \in 1 .. Len(out') : KeptIn(n, i)'
    <3>1. CASE n = pending
      <4>1. index'[n] = Len(out) /\ accepted'[n] = op.frame
        BY <1>0, <2>1, <2>2, <3>1, Zenon DEF LogTypes
      <4>2. KeptIn(n, Len(out))'
        BY <2>1, <2>2, <2>3, <3>1, <4>1 DEF KeptIn, LastOf
      <4> QED
        BY <2>1, <2>2, <4>2
    <3>2. CASE n # pending
      <4>1. index'[n] = index[n] /\ accepted'[n] = accepted[n]
        BY <1>0, <2>1, <3>2, Zenon DEF LogTypes
      <4>2. PICK i \in 1 .. Len(out) : KeptIn(n, i)
        BY <2>4, <4>1, Zenon DEF AcceptInv
      <4>3. KeptIn(n, i)'
        BY <2>1, <4>1, <4>2, Zenon DEF KeptIn, LastOf, At
      <4> QED
        BY <2>1, <4>3, Zenon
    <3> QED
      BY <3>1, <3>2, Zenon
  <2> QED
    BY <2>1, <2>4, Zenon DEF AcceptInv, At
<1>16. CASE reset
  <2>1. op'.at = "truncate" /\ accepted' = NoFrame
    BY <1>16, Begins, Zenon DEF reset
  <2> QED
    BY <2>1, Zenon DEF AcceptInv, NoFrame, At
<1>17. CASE Truncate
  <2>1. /\ op.at = "truncate" /\ op'.at = "persist" /\ UNCHANGED accepted
    BY <1>0, <1>17, OpSteps, Zenon DEF Truncate, At
  <2>2. accepted = NoFrame
    BY <2>1, Zenon DEF OpInv, LogInv, ResetInv, At
  <2> QED
    BY <2>1, <2>2, Zenon DEF AcceptInv, NoFrame, At
<1>18. CASE close
  <2>1. /\ op.at = "idle" /\ op'.at = "persist" /\ synced' \in {synced, Len(out)}
        /\ UNCHANGED <<out, index, accepted>>
    BY <1>18, Begins, Zenon DEF close, At, history
  <2> QED
    BY <1>0, <2>1, AcceptQuiet, Zenon DEF At
<1> QED
  BY <1>1, <1>2, <1>3, <1>4, <1>5, <1>6, <1>7, <1>8, <1>10, <1>11, <1>12, <1>13, <1>15,
     <1>16, <1>17, <1>18, Zenon DEF Next

-----------------------------------------------------------------------------
\* The log of a new store holds no failed frame.
LEMMA FailInit == Init => FailInv
  BY IdleRecord, EmptyLog DEF Init, FailInv, At

\* The log loses records from its end or stays, and no call is writing to it any more.
LEMMA FailCut ==
    ASSUME FailInv, LogInv, Len(out') \in 0 .. Len(out), \A i \in 1 .. Len(out') : out'[i] = out[i],
           UNCHANGED <<seqfile, failed>>, pending' = 0 \/ (UNCHANGED pending /\ op.at \notin {"fsync", "index"}),
           op'.at \notin {"append", "fsync", "index"}
    PROVE  FailInv'
<1>1. Len(out) \in Nat
  BY LogLength, Zenon DEF LogInv, LogTypes
<1> QED
  BY <1>1 DEF FailInv, Unreported, At, load_seqs

\* The numbers of the sequence file change.
LEMMA FailRename ==
    ASSUME AgreeInv, LogInv, FailInv, Rename
    PROVE  FailInv'
<1>1. /\ op'.at = "idle" /\ load_seqs(seqfile)' = mem /\ UNCHANGED <<out, failed>>
  <2>1. op'.at = "idle" /\ seqfile' = Holding(mem) /\ UNCHANGED <<out, failed>>
    BY OpSteps, Zenon DEF Rename, AgreeInv, NumInv
  <2> QED
    BY <2>1, HoldingLoads, Zenon DEF AgreeInv, NumInv, load_seqs
<1>2. Persisting /\ op.kind \in Setters \cup {"reset", "close"}
  BY Zenon DEF Rename, At, Persisting, AgreeInv, OpInv
<1>3. mem.sender \in Nat /\ op.prev.sender \in Nat /\ pending \in Nat
  BY Counters, Zenon DEF AgreeInv
<1>4. /\ op.kind = "claim" => pending' = op.prev.sender
      /\ op.kind = "giveback" => pending' = 0
      /\ op.kind \notin {"claim", "giveback"} => pending' = pending
  BY Zenon DEF Rename, Persisted
<1>5. op.kind = "reset" => Len(out) = 0
  BY <1>2, EmptyLog, Zenon DEF LogInv, ResetInv
<1>6. ASSUME NEW i \in 1 .. Len(out), out[i].whole
      PROVE  out[i].seq < mem.sender /\ (pending' # 0 => out[i].seq < pending')
  <2>1. out[i].seq < load_seqs(seqfile).sender /\ (pending # 0 => out[i].seq < pending)
    BY <1>2, <1>6, Zenon DEF FailInv, Unreported, Persisting
  <2>3. out[i].seq \in Nat
    BY RecordFields, Zenon DEF LogInv, LogTypes
  <2>2. op.kind # "reset" /\ op.prev = load_seqs(seqfile)
    BY <1>2, <1>5, <1>6 DEF AgreeInv, MemInv
  <2> QED
    BY <1>2, <1>3, <1>4, <2>1, <2>2, <2>3 DEF AgreeInv, MemInv, Setters
<1> QED
  BY <1>1, <1>6, Zenon DEF FailInv, Unreported, At

\* Every step keeps the frames of failed calls out of the whole records.
LEMMA FailStep ==
    ASSUME "reset" \notin Faults, FsyncMessages => "fsync" \notin Faults,
           AgreeInv, StreamInv, LogInv, FailInv, [Next]_vars
    PROVE  FailInv'
<1>0. /\ op \in OpRecord /\ out \in Seq(Record) /\ Len(out) \in Nat /\ pending \in Nat
      /\ NumInv /\ OpInv /\ Len(out) \in 0 .. Len(out)
  BY LogLength, Counters DEF AgreeInv, NumInv, LogInv, LogTypes
<1>1. CASE UNCHANGED vars
  BY <1>1, ZenonT(30) DEF vars, FailInv, Unreported, At, load_seqs
<1>2. CASE Kill
  <2>1. op'.at = "down" /\ pending' = 0 /\ UNCHANGED <<out, seqfile, failed>>
    BY <1>0, <1>2, OpSteps, Zenon DEF Kill, Die
  <2> QED
    BY <1>0, <2>1, FailCut, Zenon
<1>3. CASE PowerCut
  <2>1. PICK k \in synced .. Len(out) : out' = SubSeq(out, 1, k)
    BY <1>3, Zenon DEF PowerCut
  <2>2. op'.at = "down" /\ pending' = 0 /\ UNCHANGED <<seqfile, failed>>
    BY <1>0, <1>3, OpSteps, Zenon DEF PowerCut, Die
  <2>3. k \in 0 .. Len(out)
    BY <1>0 DEF LogInv, LogTypes
  <2>4. Len(out') = k /\ \A i \in 1 .. k : out'[i] = out[i]
    BY <1>0, <2>1, <2>3, PrefixLog, Zenon
  <2> QED
    BY <2>2, <2>3, <2>4, FailCut, Zenon
<1>4. CASE Open \/ refresh
  <2>1. /\ op.at \in {"idle", "down"} /\ op'.at = "idle" /\ out' = Whole(out)
        /\ UNCHANGED <<seqfile, failed, pending>>
    BY <1>0, <1>4, OpSteps, Zenon DEF Open, refresh, history, rebuild_index, At
  <2>2. Len(out') \in 0 .. Len(out) /\ \A i \in 1 .. Len(out') : out'[i] = out[i]
    BY <1>0, <2>1, WholeLog, Zenon DEF LogInv, TailInv
  <2> QED
    BY <2>1, <2>2, FailCut, Zenon
<1>5. CASE refresh_fails \/ store_outbound_refused
  <2>1. op.at = "idle" /\ op'.at = "idle" /\ UNCHANGED <<out, seqfile, failed, pending>>
    BY <1>0, <1>5, OpSteps, Zenon DEF refresh_fails, store_outbound_refused, files, history, At
  <2> QED
    BY <1>0, <2>1, FailCut, Zenon
<1>6. CASE \/ next_sender_seq_num_incr \/ set_next_sender_seq_num
           \/ \E n \in Seqs : set_next_target_seq_num(n) \/ advance_next_target_seq_num(n)
  <2>0. PICK kind \in Setters : \E new : Mutate(kind, new)
    BY <1>6, SetterMutates, Zenon
  <2>1. PICK new : Mutate(kind, new)
    BY <2>0, Zenon
  <2>2. /\ op.at = "idle" /\ op'.at = "persist" /\ UNCHANGED <<out, seqfile, failed, pending>>
    BY <2>1, Begins, Zenon DEF files, history
  <2> QED
    BY <1>0, <2>2, FailCut, Zenon
<1>7. CASE OpenTmp \/ WriteTmp
  <2>1. /\ op.at \in {"persist", "write"} /\ op'.at \in {"write", "rename"}
        /\ UNCHANGED <<out, seqfile, failed, pending>>
    BY <1>0, <1>7, OpSteps, Zenon DEF OpenTmp, WriteTmp, At, history
  <2> QED
    BY <1>0, <2>1, FailCut, Zenon
<1>8. CASE Rename
  BY <1>8, FailRename, Zenon
<1>9. CASE PersistFails \/ close_fails
  <2>1. /\ Persisting /\ op'.at = "idle" /\ UNCHANGED <<out, seqfile, failed>> /\ pending' \in {0, pending}
    BY <1>0, <1>9, OpSteps, Zenon DEF PersistFails, close_fails, history
  <2> QED
    BY <1>0, <2>1, FailCut, Zenon DEF Persisting
<1>10. ASSUME NEW f \in Frames, store_outbound(f) PROVE FailInv'
  <2>1. /\ op.at = "idle" /\ op'.at = "append" /\ op'.frame = f /\ failed' = failed \ {<<pending, f>>}
        /\ UNCHANGED <<seqfile, pending>>
    BY <1>10, Begins, Zenon DEF store_outbound, At
  <2> DEFINE r == [seq |-> pending, frame |-> f, whole |-> FALSE]
  <2>2. out' = Append(out, r) /\ r \in Record /\ ~r.whole
    BY <1>0, <1>10, LogStore, Zenon
  <2> HIDE DEF r
  <2>3. /\ Len(out') = Len(out) + 1 /\ \A i \in 1 .. Len(out) : out'[i] = out[i]
        /\ out'[Len(out) + 1] = r
    BY <1>0, <2>2, AppendLog, ZenonT(30)
  <2> QED
    BY <1>0, <2>1, <2>2, <2>3 DEF FailInv, Unreported, At, load_seqs
<1>11. CASE Flushed
  <2>1. /\ op.at = "append" /\ op'.at \in {"fsync", "index"} /\ (op'.at = "fsync" => FsyncMessages)
        /\ UNCHANGED <<seqfile, failed, pending>>
    BY <1>0, <1>11, OpSteps, Zenon DEF Flushed, At, history
  <2>2. /\ Len(out') = Len(out) /\ Len(out) \in Nat \ {0}
        /\ \A i \in 1 .. Len(out) : /\ i # Len(out) => out'[i] = out[i]
                                    /\ out'[i].seq = out[i].seq /\ out'[i].frame = out[i].frame
    BY <1>0, <1>11, LogFlushed, Zenon
  <2>3. out[Len(out)].seq = pending /\ out[Len(out)].frame = op.frame /\ pending # 0
    BY <2>1 DEF LogInv, WriteInv, Seqs
  <2>4. pending < load_seqs(seqfile).sender
    BY <1>0, <2>3 DEF AgreeInv, IssueInv
  <2>5. ASSUME NEW i \in 1 .. Len(out'), out'[i].whole
        PROVE  /\ out'[i].seq < load_seqs(seqfile)'.sender
               /\ pending' # 0 => Unreported(i)' \/ out'[i].seq < pending'
               /\ <<out'[i].seq, out'[i].frame>> \notin failed'
    <3>1. CASE i = Len(out)
      BY <2>1, <2>2, <2>3, <2>4, <3>1, Zenon DEF FailInv, Unreported, At, load_seqs
    <3>2. CASE i # Len(out)
      BY <2>1, <2>2, <2>5, <3>2, Zenon DEF FailInv, Unreported, At, load_seqs
    <3> QED
      BY <3>1, <3>2, Zenon
  <2> QED
    BY <2>1, <2>5, Zenon DEF FailInv, At
<1>12. CASE WriteFails
  <2>1. /\ op.at = "append" /\ op'.at = "idle" /\ UNCHANGED <<seqfile, pending>>
        /\ out' \in {out, SubSeq(out, 1, Len(out) - 1)}
        /\ failed' = failed \cup {<<pending, op.frame>>}
    BY <1>0, <1>12, OpSteps, Zenon DEF WriteFails, At
  <2>2. Len(out) \in Nat \ {0} /\ Len(out) - 1 \in 0 .. Len(out) /\ pending # 0
    BY <2>1, EmptyLog DEF LogInv, LogTypes, WriteInv, Seqs
  <2>3. Len(out') \in 0 .. Len(out) /\ \A i \in 1 .. Len(out') : out'[i] = out[i]
    BY <1>0, <2>1, <2>2, PrefixLog
  <2>4. ASSUME NEW i \in 1 .. Len(out'), out'[i].whole
        PROVE  /\ out'[i].seq < load_seqs(seqfile)'.sender
               /\ pending' # 0 => Unreported(i)' \/ out'[i].seq < pending'
               /\ <<out'[i].seq, out'[i].frame>> \notin failed'
    <3>1. /\ i \in 1 .. Len(out) /\ out'[i] = out[i] /\ out[i].whole
      BY <2>2, <2>3, <2>4
    <3>2. /\ out[i].seq < load_seqs(seqfile).sender /\ out[i].seq < pending
          /\ <<out[i].seq, out[i].frame>> \notin failed
      BY <2>1, <2>2, <3>1, Zenon DEF FailInv, Unreported
    <3>3. out[i].seq # pending
      BY <1>0, <3>1, <3>2, RecordFields
    <3> QED
      BY <2>1, <3>1, <3>2, <3>3, Zenon DEF load_seqs
  <2> QED
    BY <2>1, <2>4, Zenon DEF FailInv, At
<1>13. CASE Fsynced
  <2>1. /\ op.at = "fsync" /\ op'.at = "index" /\ UNCHANGED <<out, seqfile, failed, pending>>
    BY <1>0, <1>13, OpSteps, Zenon DEF Fsynced, At, history
  <2> QED
    BY <2>1, Zenon DEF FailInv, Unreported, At, load_seqs
<1>14. ~FsyncFails
  BY Zenon DEF FsyncFails, FailInv
<1>15. CASE Index
  <2>1. op'.at = "idle" /\ pending' = 0 /\ UNCHANGED <<out, seqfile, failed>>
    BY <1>0, <1>15, OpSteps, Zenon DEF Index, files
  <2> QED
    BY <1>0, <2>1, FailCut, Zenon
<1>16. CASE reset
  <2>1. op.at = "idle" /\ op'.at = "truncate" /\ UNCHANGED <<out, seqfile, failed, pending>>
    BY <1>16, Begins, Zenon DEF reset, files, At
  <2> QED
    BY <1>0, <2>1, FailCut, Zenon
<1>17. CASE Truncate
  <2>1. op'.at = "persist" /\ out' = <<>>
    BY <1>0, <1>17, OpSteps, Zenon DEF Truncate
  <2> QED
    BY <2>1, EmptyLog DEF FailInv, At
<1>18. ~reset_fails
  BY Zenon DEF reset_fails
<1>19. CASE close
  <2>1. op.at = "idle" /\ op'.at = "persist" /\ UNCHANGED <<out, seqfile, failed, pending>>
    BY <1>19, Begins, Zenon DEF close, At, history
  <2> QED
    BY <1>0, <2>1, FailCut, Zenon
<1> QED
  BY <1>1, <1>2, <1>3, <1>4, <1>5, <1>6, <1>7, <1>8, <1>9, <1>10, <1>11, <1>12, <1>13, <1>14, <1>15,
     <1>16, <1>17, <1>18, <1>19, Zenon DEF Next

\* An index without failed records replays none.
LEMMA FailImplies ==
    ASSUME LogInv, FailInv PROVE NoFailedFrameReplayed
<1> SUFFICES ASSUME NEW n \in Seqs, index[n] # 0
             PROVE  <<n, out[index[n]].frame>> \notin failed /\ out[index[n]].frame # "spliced"
  BY Zenon DEF NoFailedFrameReplayed
<1>1. index[n] \in 1 .. Len(out) /\ out[index[n]].whole /\ out[index[n]].seq = n
  BY Zenon DEF LogInv, IndexInv
<1>2. out[index[n]].frame \in Frames
  BY <1>1, RecordFields, Zenon DEF LogInv, LogTypes
<1> QED
  BY <1>1, <1>2, FileStoreConstants, Zenon DEF FailInv

\* A frame store_outbound reported as stored is found again after any sequence of
\* crashes, failed calls and refreshes, until a reset.  A power cut is included when
\* messages are fsynced.
THEOREM AcceptedSurvive ==
    ASSUME PowerLoss => FsyncMessages
    PROVE  Spec => []AcceptedFramesSurvive
<1> DEFINE Inv == NumInv /\ OpInv /\ StreamInv /\ LogInv /\ ClaimInv /\ SpentInv /\ AcceptInv
<1>1. Init => Inv
  BY NumInit, StreamInit, LogInit, ClaimInit, AcceptInit, Zenon
<1>2. Inv /\ [Next]_vars => Inv'
  BY NumStep, StreamStep, LogStep, ClaimStep, AcceptStep, Zenon
<1>3. Inv => AcceptedFramesSurvive
  <2> SUFFICES ASSUME Inv, At("idle"), NEW n \in Seqs, accepted[n] # "none"
               PROVE  index[n] # 0 /\ out[index[n]].frame = accepted[n]
    BY Zenon DEF AcceptedFramesSurvive
  <2>1. PICK i \in 1 .. Len(out) : KeptIn(n, i)
    BY Zenon DEF AcceptInv
  <2> QED
    BY <2>1 DEF KeptIn, At
<1> QED
  BY <1>1, <1>2, <1>3, PTL DEF Spec

\* A frame whose store_outbound failed is never served to a ResendRequest.  A reset
\* that stops halfway and an fsync that fails after the record was written are left
\* out: in both the code keeps the record.
THEOREM NoFailedReplayed ==
    ASSUME "reset" \notin Faults, FsyncMessages => "fsync" \notin Faults
    PROVE  Spec => []NoFailedFrameReplayed
<1> DEFINE Inv == AgreeInv /\ StreamInv /\ LogInv /\ FailInv
<1>1. Init => Inv
  BY AgreeInit, StreamInit, LogInit, FailInit, Zenon
<1>2. Inv /\ [Next]_vars => Inv'
  <2> SUFFICES ASSUME Inv, [Next]_vars PROVE Inv'
    BY Zenon
  <2>1. NumInv /\ OpInv
    BY Zenon DEF AgreeInv
  <2> QED
    BY <2>1, AgreeStep, StreamStep, LogStep, FailStep, Zenon
<1>3. Inv => NoFailedFrameReplayed
  BY FailImplies, Zenon
<1> QED
  BY <1>1, <1>2, <1>3, PTL DEF Spec

-----------------------------------------------------------------------------
\* No call is in progress in a new store.
LEMMA CallInit == Init => CallInv
  BY IdleRecord, Zenon DEF Init, CallInv

\* mem and op.prev stay as the call set them until it returns.
LEMMA CallStep ==
    ASSUME NumInv, OpInv, CallInv, [Next]_vars
    PROVE  CallInv'
<1>0. op \in OpRecord
  BY Zenon DEF NumInv
<1>1. CASE UNCHANGED vars
  BY <1>1, Zenon DEF vars, CallInv
<1>2. CASE next_sender_seq_num_incr
  <2> DEFINE new == [mem EXCEPT !.sender = @ + 1]
  <2>1. Mutate("claim", new)
    BY <1>2, Zenon DEF next_sender_seq_num_incr
  <2> HIDE DEF new
  <2>2. op'.kind = "claim" /\ op'.prev = mem /\ mem' = new
    BY <2>1, Begins, Zenon
  <2> QED
    BY <2>2, Zenon DEF CallInv, new
<1>3. CASE set_next_sender_seq_num
  <2> DEFINE new == [mem EXCEPT !.sender = pending]
  <2>1. Mutate("giveback", new)
    BY <1>3, Zenon DEF set_next_sender_seq_num
  <2> HIDE DEF new
  <2>2. op'.kind = "giveback" /\ op'.prev = mem /\ mem' = new /\ pending' = pending
    BY <2>1, Begins, Zenon DEF history
  <2> QED
    BY <2>2, Zenon DEF CallInv, new
<1>4. ASSUME NEW n \in Seqs, set_next_target_seq_num(n) \/ advance_next_target_seq_num(n)
      PROVE  CallInv'
  <2> DEFINE new == [mem EXCEPT !.target = n]
  <2>1. PICK k \in {"target", "advance"} : Mutate(k, new)
    BY <1>4, Zenon DEF set_next_target_seq_num, advance_next_target_seq_num
  <2> HIDE DEF new
  <2>2. op'.kind = k /\ op'.prev = mem /\ mem' = new
    BY <2>1, Begins, Zenon
  <2>3. \E m \in Seqs : mem' = [op'.prev EXCEPT !.target = m]
    BY <2>2, Zenon DEF new
  <2> QED
    BY <2>2, <2>3, Zenon DEF CallInv
<1>5. CASE OpenTmp \/ WriteTmp \/ Truncate
  <2>1. op'.kind = op.kind /\ op'.prev = op.prev /\ UNCHANGED <<mem, pending>>
    BY <1>0, <1>5, OpSteps, Zenon DEF OpenTmp, WriteTmp, Truncate, object, history
  <2> QED
    BY <2>1, Zenon DEF CallInv
<1>6. CASE \/ Kill \/ PowerCut \/ Open \/ refresh \/ refresh_fails \/ Rename \/ PersistFails
           \/ store_outbound_refused \/ WriteFails \/ FsyncFails \/ Index \/ reset_fails \/ close_fails
  <2>1. op'.kind = "none"
    BY <1>0, <1>6, OpSteps, Zenon DEF Kill, PowerCut, Open, refresh, refresh_fails, Rename, PersistFails,
       store_outbound_refused, WriteFails, FsyncFails, Index, reset_fails, close_fails
  <2> QED
    BY <2>1, Zenon DEF CallInv
<1>7. ASSUME NEW f \in Frames, store_outbound(f) PROVE CallInv'
  BY <1>7, Begins, Zenon DEF CallInv
<1>8. CASE Flushed \/ Fsynced
  <2>1. op.at \in {"append", "fsync"} /\ op'.kind = op.kind
    BY <1>0, <1>8, OpSteps, Zenon DEF Flushed, Fsynced, At
  <2> QED
    BY <2>1, Zenon DEF CallInv, OpInv
<1>9. CASE reset
  BY <1>9, Begins, Zenon DEF reset, CallInv
<1>10. CASE close
  BY <1>10, Begins, Zenon DEF close, CallInv
<1> QED
  BY <1>1, <1>2, <1>3, <1>4, <1>5, <1>6, <1>7, <1>8, <1>9, <1>10, Zenon DEF Next

----------------------------------------------------------------------------
\* Only whole records can be recovered.
LEMMA SameRecoverable ==
    ASSUME out \in Seq(Record), out' \in Seq(Record),
           \A i \in 1 .. Len(out) : out[i].whole => i <= Len(out') /\ out'[i] = out[i],
           \A i \in 1 .. Len(out') : out'[i].whole => i <= Len(out) /\ out'[i] = out[i]
    PROVE  Recoverable' = Recoverable
<1>0. Len(out) \in Nat /\ Len(out') \in Nat
  BY LogLength, Zenon
<1>1. ASSUME NEW n \in Seqs
      PROVE  /\ IndexOf(out')[n] = IndexOf(out)[n]
             /\ IndexOf(out)[n] # 0 => out'[IndexOf(out)[n]].frame = out[IndexOf(out)[n]].frame
  <2> DEFINE old == IndexOf(out)[n]
             new == IndexOf(out')[n]
  <2>1. /\ old \in 0 .. Len(out) /\ (old # 0 => out[old].whole /\ out[old].seq = n)
        /\ \A i \in 1 .. Len(out) : out[i].whole /\ out[i].seq = n => old # 0 /\ i <= old
    BY IndexPoints, Zenon
  <2>2. /\ new \in 0 .. Len(out') /\ (new # 0 => out'[new].whole /\ out'[new].seq = n)
        /\ \A i \in 1 .. Len(out') : out'[i].whole /\ out'[i].seq = n => new # 0 /\ i <= new
    BY IndexPoints, Zenon
  <2> HIDE DEF old, new
  <2>3. new = old /\ (old # 0 => out'[old].frame = out[old].frame)
    BY <1>0, <2>1, <2>2
  <2> QED
    BY <2>3, Zenon DEF old, new
<1> QED
  BY <1>1, Zenon DEF Recoverable

\* A record that becomes whole is the one recovered under its number.
LEMMA FlushedRecoverable ==
    ASSUME NumInv, OpInv, LogInv, Flushed
    PROVE  Recoverable' = [Recoverable EXCEPT ![pending] = op.frame]
<1>1. /\ out' \in Seq(Record) /\ Len(out') = Len(out) /\ Len(out) \in Nat \ {0}
      /\ \A i \in 1 .. Len(out) : /\ i # Len(out) => out'[i] = out[i]
                                  /\ out'[i].seq = out[i].seq /\ out'[i].frame = out[i].frame
      /\ out'[Len(out)].whole
  BY LogFlushed, Zenon
<1>2. /\ out \in Seq(Record) /\ ~out[Len(out)].whole /\ pending \in Seqs
      /\ out[Len(out)].seq = pending /\ out[Len(out)].frame = op.frame
  BY Zenon DEF Flushed, LogInv, LogTypes, WriteInv, At
<1>3. ASSUME NEW n \in Seqs
      PROVE  Recoverable'[n] = IF n = pending THEN op.frame ELSE Recoverable[n]
  <2> DEFINE old == IndexOf(out)[n]
             new == IndexOf(out')[n]
  <2>1. /\ old \in 0 .. Len(out) /\ (old # 0 => out[old].whole /\ out[old].seq = n)
        /\ \A i \in 1 .. Len(out) : out[i].whole /\ out[i].seq = n => old # 0 /\ i <= old
    BY <1>2, IndexPoints, Zenon
  <2>2. /\ new \in 0 .. Len(out') /\ (new # 0 => out'[new].whole /\ out'[new].seq = n)
        /\ \A i \in 1 .. Len(out') : out'[i].whole /\ out'[i].seq = n => new # 0 /\ i <= new
    BY <1>1, IndexPoints, Zenon
  <2>3. Recoverable[n] = IF old = 0 THEN "none" ELSE out[old].frame
    BY Zenon DEF Recoverable
  <2>4. Recoverable'[n] = IF new = 0 THEN "none" ELSE out'[new].frame
    BY Zenon DEF Recoverable
  <2> HIDE DEF old, new
  <2>5. CASE n = pending
    <3>1. new = Len(out)
      BY <1>1, <1>2, <2>2, <2>5
    <3> QED
      BY <1>1, <1>2, <2>4, <2>5, <3>1
  <2>6. CASE n # pending
    <3>1. new = old
      BY <1>1, <1>2, <2>1, <2>2, <2>6
    <3>2. new # 0 => out'[new].frame = out[new].frame
      BY <1>1, <2>2
    <3> QED
      BY <2>3, <2>4, <2>6, <3>1, <3>2, Zenon
  <2> QED
    BY <2>5, <2>6, Zenon
<1>4. Recoverable = [n \in Seqs |-> Recoverable[n]] /\ Recoverable' = [n \in Seqs |-> Recoverable'[n]]
  BY Zenon DEF Recoverable
<1> HIDE DEF Recoverable
<1> QED
  BY <1>3, <1>4, Zenon

\* An empty log holds no record of any number.
LEMMA EmptyIndex ==
    ASSUME NEW log, log = <<>>, NEW n \in Seqs PROVE IndexOf(log)[n] = 0
<1>1. log \in Seq(Record) /\ Len(log) = 0
  BY EmptyLog, Zenon
<1>2. IndexOf(log)[n] \in 0 .. Len(log)
  BY <1>1, IndexPoints, Zenon
<1> QED
  BY <1>1, <1>2

\* An empty log.
LEMMA NothingRecoverable ==
    ASSUME out = <<>> PROVE Recoverable = Contract!Nothing
<1>1. \A n \in Seqs : IndexOf(out)[n] = 0
  BY EmptyIndex, Zenon
<1> QED
  BY <1>1, Zenon DEF Recoverable, Contract!Nothing, Seqs

\* Every step that leaves the sequence file and the whole records alone.
LEMMA ContractStutters ==
    ASSUME load_seqs(seqfile)' = load_seqs(seqfile), Recoverable' = Recoverable
    PROVE  [Contract!Next]_Contract!vars
  BY Zenon DEF Contract!vars

\* The rename of persist_seqs is the operation of the contract that the call stands
\* for.
LEMMA ContractRename ==
    ASSUME AgreeInv, LogInv, CallInv, Rename
    PROVE  [Contract!Next]_Contract!vars
<1>1. load_seqs(seqfile)' = mem /\ UNCHANGED out
  <2>1. seqfile' = Holding(mem) /\ UNCHANGED out
    BY Zenon DEF Rename, AgreeInv, NumInv
  <2> QED
    BY <2>1, HoldingLoads, Zenon DEF AgreeInv, NumInv, load_seqs
<1>2. Recoverable' = Recoverable
  BY <1>1, Zenon DEF Recoverable
<1>3. Persisting /\ op.kind \in Setters \cup {"reset", "close"}
  BY Zenon DEF Rename, At, Persisting, AgreeInv, OpInv
<1>4. op.kind # "reset" => op.prev = load_seqs(seqfile)
  BY <1>3, Zenon DEF AgreeInv, MemInv
<1>5. /\ op.prev \in Numbers /\ mem \in Numbers /\ mem.sender >= 1 /\ pending \in Nat
  BY Counters, Zenon DEF AgreeInv, NumInv, OpRecord, Positive
<1> DEFINE nums == load_seqs(seqfile)
<1> HIDE DEF nums
<1>6. CASE op.kind = "claim"
  <2>1. mem = [op.prev EXCEPT !.sender = @ + 1]
    BY <1>6, Zenon DEF CallInv
  <2>2. op.prev.sender < MaxSeq
    BY <1>5, <2>1, FileStoreConstants DEF Numbers
  <2>3. Contract!Claim
    BY <1>1, <1>2, <1>4, <1>6, <2>1, <2>2, Zenon DEF Contract!Claim
  <2> QED
    BY <2>3, Zenon DEF Contract!Next
<1>7. CASE op.kind = "giveback"
  <2>1. mem = [op.prev EXCEPT !.sender = pending] /\ pending # 0
    BY <1>7, Zenon DEF CallInv, AgreeInv, MemInv
  <2>2. op.prev.sender = pending + 1
    BY <1>4, <1>7, <2>1, Zenon DEF AgreeInv, IssueInv
  <2>3. mem = [op.prev EXCEPT !.sender = @ - 1] /\ op.prev.sender > 1
    BY <1>5, <2>1, <2>2
  <2>4. Contract!GiveBack
    BY <1>1, <1>2, <1>4, <1>7, <2>3, Zenon DEF Contract!GiveBack
  <2> QED
    BY <2>4, Zenon DEF Contract!Next
<1>8. CASE op.kind \in {"target", "advance"}
  <2>1. PICK n \in Seqs : mem = [op.prev EXCEPT !.target = n]
    BY <1>8, Zenon DEF CallInv
  <2>2. Contract!SetTarget(n)
    BY <1>1, <1>2, <1>4, <1>8, <2>1, Zenon DEF Contract!SetTarget
  <2> QED
    BY <2>2, Zenon DEF Contract!Next, Seqs
<1>9. CASE op.kind = "close"
  BY <1>1, <1>2, <1>4, <1>9, ContractStutters, Zenon DEF CallInv
<1>10. CASE op.kind = "reset"
  <2>1. mem = First /\ out = <<>>
    BY <1>3, <1>10, Zenon DEF CallInv, LogInv, ResetInv
  <2>2. Contract!Renumber
    BY <1>1, <1>2, <2>1, NothingRecoverable, Zenon DEF Contract!Renumber, Contract!First, First
  <2> QED
    BY <2>2, Zenon DEF Contract!Next
<1> QED
  BY <1>3, <1>6, <1>7, <1>8, <1>9, <1>10, Zenon DEF Setters

\* Every step of the store is a step of the contract or leaves its state alone: the
\* newline of a record is Store, the truncation in reset Purge.
LEMMA ContractStep ==
    ASSUME ~PowerLoss, "reset" \notin Faults, AgreeInv, LogInv, CallInv, [Next]_vars
    PROVE  [Contract!Next]_Contract!vars
<1>0. /\ NumInv /\ OpInv /\ op \in OpRecord /\ out \in Seq(Record) /\ Len(out) \in Nat
  BY LogLength, Zenon DEF AgreeInv, NumInv, LogInv, LogTypes
<1>1. ASSUME UNCHANGED <<seqfile, out>> PROVE [Contract!Next]_Contract!vars
  <2>1. load_seqs(seqfile)' = load_seqs(seqfile) /\ Recoverable' = Recoverable
    BY <1>1, Zenon DEF load_seqs, Recoverable
  <2> QED
    BY <2>1, ContractStutters, Zenon
<1>2. ASSUME UNCHANGED seqfile, out' \in Seq(Record),
             \A i \in 1 .. Len(out) : out[i].whole => i <= Len(out') /\ out'[i] = out[i],
             \A i \in 1 .. Len(out') : out'[i].whole => i <= Len(out) /\ out'[i] = out[i]
      PROVE  [Contract!Next]_Contract!vars
  <2>1. load_seqs(seqfile)' = load_seqs(seqfile)
    BY <1>2, Zenon DEF load_seqs
  <2>2. Recoverable' = Recoverable
    BY <1>0, <1>2, SameRecoverable, Zenon
  <2> QED
    BY <2>1, <2>2, ContractStutters, Zenon
<1>3. CASE UNCHANGED vars
  BY <1>1, <1>3, Zenon DEF vars
<1>4. CASE \/ refresh_fails \/ OpenTmp \/ WriteTmp \/ PersistFails \/ store_outbound_refused
           \/ Fsynced \/ FsyncFails \/ Index \/ reset \/ close \/ close_fails \/ Kill
  BY <1>1, <1>4, Zenon DEF refresh_fails, OpenTmp, WriteTmp, PersistFails, store_outbound_refused, Fsynced,
     FsyncFails, Index, reset, close, close_fails, Kill, Die, files
<1>5. CASE \/ next_sender_seq_num_incr \/ set_next_sender_seq_num
           \/ \E n \in Seqs : set_next_target_seq_num(n) \/ advance_next_target_seq_num(n)
  <2>0. PICK kind \in Setters : \E new : Mutate(kind, new)
    BY <1>5, SetterMutates, Zenon
  <2>1. PICK new : Mutate(kind, new)
    BY <2>0, Zenon
  <2>2. UNCHANGED <<seqfile, out>>
    BY <2>1, Begins, Zenon DEF files
  <2> QED
    BY <1>1, <2>2, Zenon
<1>6. CASE Open \/ refresh
  <2>1. out' = Whole(out) /\ UNCHANGED seqfile
    BY <1>6, Zenon DEF Open, refresh, rebuild_index
  <2>2. /\ out' \in Seq(Record) /\ Len(out') \in 0 .. Len(out)
        /\ \A i \in 1 .. Len(out') : out'[i] = out[i]
        /\ \A i \in 1 .. Len(out) : out[i].whole => i <= Len(out')
    BY <1>0, <2>1, WholeLog, Zenon DEF LogInv, TailInv
  <2>3. /\ \A i \in 1 .. Len(out) : out[i].whole => i <= Len(out') /\ out'[i] = out[i]
        /\ \A i \in 1 .. Len(out') : out'[i].whole => i <= Len(out) /\ out'[i] = out[i]
    BY <1>0, <2>2
  <2> QED
    BY <1>2, <2>1, <2>2, <2>3, Zenon
<1>7. CASE Rename
  BY <1>7, ContractRename, Zenon
<1>8. ASSUME NEW f \in Frames, store_outbound(f) PROVE [Contract!Next]_Contract!vars
  <2> DEFINE r == [seq |-> pending, frame |-> f, whole |-> FALSE]
  <2>1. out' = Append(out, r) /\ r \in Record /\ ~r.whole /\ UNCHANGED seqfile
    BY <1>0, <1>8, LogStore, Zenon DEF store_outbound
  <2> HIDE DEF r
  <2>2. /\ out' \in Seq(Record) /\ Len(out') = Len(out) + 1
        /\ \A i \in 1 .. Len(out) : out'[i] = out[i]
        /\ out'[Len(out) + 1] = r
    BY <1>0, <2>1, AppendLog, Zenon
  <2>3. /\ \A i \in 1 .. Len(out) : out[i].whole => i <= Len(out') /\ out'[i] = out[i]
        /\ \A i \in 1 .. Len(out') : out'[i].whole => i <= Len(out) /\ out'[i] = out[i]
    BY <1>0, <2>1, <2>2
  <2> QED
    BY <1>2, <2>1, <2>2, <2>3, Zenon
<1>9. CASE Flushed
  <2>1. /\ Recoverable' = [Recoverable EXCEPT ![pending] = op.frame]
        /\ load_seqs(seqfile)' = load_seqs(seqfile)
    BY <1>0, <1>9, FlushedRecoverable, Zenon DEF Flushed, load_seqs
  <2>2. pending \in Seqs /\ op.frame \in Frames /\ pending # 0
    BY <1>9 DEF Flushed, LogInv, WriteInv, At, Seqs
  <2>3. pending < load_seqs(seqfile).sender
    BY <1>0, <2>2, Counters DEF AgreeInv, IssueInv
  <2>4. Contract!Store(pending, op.frame)
    BY <2>1, <2>3, Zenon DEF Contract!Store
  <2> QED
    BY <2>2, <2>4, Zenon DEF Contract!Next, Seqs
<1>10. CASE WriteFails
  <2>1. /\ UNCHANGED seqfile /\ out' \in {out, SubSeq(out, 1, Len(out) - 1)}
        /\ ~out[Len(out)].whole /\ Len(out) \in Nat \ {0}
    BY <1>10, EmptyLog, Zenon DEF WriteFails, LogInv, LogTypes, WriteInv, At
  <2>2. CASE out' = out
    BY <1>1, <2>1, <2>2, Zenon
  <2>3. CASE out' = SubSeq(out, 1, Len(out) - 1)
    <3>1. Len(out) - 1 \in 0 .. Len(out)
      BY <2>1
    <3>2. /\ out' \in Seq(Record) /\ Len(out') = Len(out) - 1
          /\ \A i \in 1 .. Len(out) - 1 : out'[i] = out[i]
      BY <1>0, <2>3, <3>1, PrefixLog, Zenon
    <3>3. /\ \A i \in 1 .. Len(out) : out[i].whole => i <= Len(out') /\ out'[i] = out[i]
          /\ \A i \in 1 .. Len(out') : out'[i].whole => i <= Len(out) /\ out'[i] = out[i]
      BY <2>1, <3>2
    <3> QED
      BY <1>2, <2>1, <3>2, <3>3, Zenon
  <2> QED
    BY <2>1, <2>2, <2>3, Zenon
<1>11. CASE Truncate
  <2>1. out' = <<>> /\ load_seqs(seqfile)' = load_seqs(seqfile)
    BY <1>11, Zenon DEF Truncate, load_seqs
  <2>2. Recoverable' = Contract!Nothing
    <3>1. \A n \in Seqs : IndexOf(out')[n] = 0
      BY <2>1, EmptyIndex, Zenon
    <3> QED
      BY <3>1, Zenon DEF Recoverable, Contract!Nothing, Seqs
  <2>3. Contract!Purge
    BY <2>1, <2>2, Zenon DEF Contract!Purge
  <2> QED
    BY <2>3, Zenon DEF Contract!Next
<1>12. ~PowerCut /\ ~reset_fails
  BY Zenon DEF PowerCut, reset_fails
<1> QED
  BY <1>3, <1>4, <1>5, <1>6, <1>7, <1>8, <1>9, <1>10, <1>11, <1>12, Zenon DEF Next

\* Killed at any point, with persists, writes, repairs, opens and fsyncs that fail, the
\* two files change exactly as MessageStore says.  A power cut and a reset that stops
\* halfway are left out.
THEOREM StoreImplementsContract ==
    ASSUME ~PowerLoss, "reset" \notin Faults
    PROVE  Spec => ImplementsContract
<1> DEFINE Inv == AgreeInv /\ StreamInv /\ LogInv /\ CallInv
<1>1. Init => Inv
  BY AgreeInit, StreamInit, LogInit, CallInit, Zenon
<1>2. Inv /\ [Next]_vars => Inv'
  <2> SUFFICES ASSUME Inv, [Next]_vars PROVE Inv'
    BY Zenon
  <2>1. NumInv /\ OpInv
    BY Zenon DEF AgreeInv
  <2> QED
    BY <2>1, AgreeStep, StreamStep, LogStep, CallStep, Zenon
<1>3. Inv /\ [Next]_vars => [Contract!Next]_Contract!vars
  BY ContractStep, Zenon
<1>4. Init => Contract!Init
  <2> SUFFICES ASSUME Init PROVE Contract!Init
    BY Zenon
  <2>1. load_seqs(seqfile) = First /\ out = <<>>
    BY Zenon DEF Init, Absent, load_seqs
  <2> QED
    BY <2>1, NothingRecoverable, Zenon DEF Contract!Init, Contract!First, First
<1> QED
  BY <1>1, <1>2, <1>3, <1>4, PTL DEF Spec, ImplementsContract, Contract!Spec
=============================================================================
