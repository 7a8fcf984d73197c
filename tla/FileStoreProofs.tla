-------------------------- MODULE FileStoreProofs ---------------------------
(***************************************************************************)
(* The sequence file, the numbers FileStore hands out and its message log, *)
(* whatever fails and wherever the process dies.  NumInv: the temporary    *)
(* file holds the numbers in memory when it is renamed.  AgreeInv adds how *)
(* memory, disk and the claim in progress are related at each point of a   *)
(* call; it needs that reset does not stop halfway.  StreamInv is what is  *)
(* left of it when reset may fail.  LogInv orders the message log: only    *)
(* its last record may be torn, and the index points at whole records.     *)
(* ClaimInv and SpentInv: a number under which a frame was accepted is     *)
(* not handed out again.                                                   *)
(***************************************************************************)
EXTENDS FileStore, TLAPS, WellFoundedInduction

Positive(num) == num \in Numbers /\ num.sender >= 1 /\ num.target >= 1

Setters == {"claim", "giveback", "target", "advance"}

OpRecord ==
    [kind : Setters \cup {"none", "store", "reset", "close"},
     at : {"idle", "down", "persist", "write", "rename", "append", "fsync", "index", "truncate"},
     prev : {num \in Numbers : Positive(num)}, frame : Frames \cup {"none"},
     result : {"ok", "error"}]

NumInv ==
    /\ seqfile \in Content /\ SeqFileAlwaysLoads
    /\ Positive(mem) /\ op \in OpRecord /\ pending \in 0 .. MaxSeq
    /\ At("rename") => tmp = Holding(mem)

\* The call in progress is the one its place says.
OpInv ==
    /\ Persisting => op.kind \in Setters \cup {"reset", "close"}
    /\ At("truncate") => op.kind = "reset"
    /\ op.at \in {"idle", "down", "append", "fsync", "index"} => op.kind \in {"none", "store"}

\* How the numbers in memory relate to those before the call.
MemInv ==
    /\ op.at \in {"idle", "append", "fsync", "index"} => mem = load_seqs(seqfile)
    /\ Persisting /\ op.kind # "reset" => op.prev = load_seqs(seqfile)
    /\ op.kind = "claim" => mem.sender = op.prev.sender + 1
    /\ op.kind = "giveback" => pending # 0 /\ mem.sender = pending
    /\ op.kind \in {"target", "advance"} => mem.sender = op.prev.sender
    /\ op.kind = "close" => mem = op.prev
    /\ op.kind \in {"claim", "reset"} => pending = 0

\* The disk is one ahead of a claim not yet stored, and ahead of all issued.
IssueInv ==
    /\ pending # 0 => load_seqs(seqfile).sender = pending + 1
    /\ \A n \in issued : n \in Nat /\ n < load_seqs(seqfile).sender

AgreeInv == NumInv /\ OpInv /\ MemInv /\ IssueInv

\* While frames can be stored, memory and disk agree but for the call in progress.
StreamInv ==
    /\ stream = "good" /\ op.at \in {"idle", "append", "fsync", "index"} => mem = load_seqs(seqfile)
    /\ stream = "good" /\ Persisting => op.prev = load_seqs(seqfile)
    /\ op.kind \in {"reset", "close"} => stream # "good"
    /\ At("down") => stream # "good"

Record == [seq : Seqs, frame : Frames, whole : BOOLEAN]

\* The message log, its synced prefix, its index and the frames reported as stored.
LogTypes ==
    /\ out \in Seq(Record) /\ synced \in 0 .. Len(out)
    /\ index \in [Seqs -> Nat] /\ accepted \in [Seqs -> Frames \cup {"none"}]

\* Only the last record may be torn, and none is while frames can be stored.
TailInv ==
    /\ \A i \in 1 .. Len(out) - 1 : out[i].whole
    /\ stream = "good" /\ ~At("append") => \A i \in 1 .. Len(out) : out[i].whole

\* The record store_outbound is writing.
WriteInv ==
    op.at \in {"append", "fsync", "index"} =>
        /\ stream = "good" /\ pending \in Seqs /\ op.frame \in Frames /\ out # <<>>
        /\ out[Len(out)].seq = pending /\ out[Len(out)].frame = op.frame
        /\ At("append") => ~out[Len(out)].whole /\ synced < Len(out)

\* What reset has purged before it writes the numbers.
ResetInv ==
    op.kind = "reset" => index = NoIndex /\ accepted = NoFrame /\ (Persisting => out = <<>>)

\* An index entry points to a whole record of its number.
IndexInv ==
    \A n \in Seqs : index[n] # 0 =>
        index[n] \in 1 .. Len(out) /\ out[index[n]].whole /\ out[index[n]].seq = n

LogInv == LogTypes /\ TailInv /\ WriteInv /\ ResetInv /\ IndexInv

----------------------------------------------------------------------------
\* Numbering starts at 1.
LEMMA FirstPositive == First \in Numbers /\ Positive(First)
  BY FileStoreConstants DEF First, Numbers, Positive

\* A store with no call in progress.
LEMMA IdleRecord ==
    /\ Idle \in OpRecord /\ Idle.kind = "none" /\ Idle.at = "idle"
    /\ [Idle EXCEPT !.at = "down"] \in OpRecord
    /\ [Idle EXCEPT !.at = "down"].kind = "none" /\ [Idle EXCEPT !.at = "down"].at = "down"
  BY FirstPositive, Zenon DEF Idle, OpRecord

\* What load_seqs reads from a file it accepts.
LEMMA LoadPositive ==
    ASSUME NEW file \in Content, Valid(file)
    PROVE  Positive(load_seqs(file)) /\ load_seqs(file) \in Numbers
  BY FirstPositive, Zenon DEF Content, Valid, load_seqs, Positive

\* A file that holds positive numbers is accepted and gives them back.
LEMMA HoldingLoads ==
    ASSUME NEW num, Positive(num)
    PROVE  Holding(num) \in Content /\ Valid(Holding(num)) /\ load_seqs(Holding(num)) = num
  BY Zenon DEF Holding, Content, Valid, load_seqs, Positive

\* The store starts with a missing .seqs file, which loads as 1/1.
LEMMA NumInit == Init => NumInv
<1> SUFFICES ASSUME Init PROVE NumInv
  BY Zenon
<1>1. Absent \in Content /\ Valid(Absent)
  BY FirstPositive, Zenon DEF Absent, Content, Valid
<1> QED
  BY <1>1, FirstPositive, IdleRecord, FileStoreConstants DEF Init, NumInv, SeqFileAlwaysLoads, At

\* Steps that change neither the numbers nor the sequence file; a call may end or
\* go on to any place but the rename.
LEMMA NumQuiet ==
    ASSUME NumInv, UNCHANGED <<seqfile, mem>>, op' \in OpRecord, pending' \in 0 .. MaxSeq,
           op'.at # "rename"
    PROVE  NumInv'
  BY Zenon DEF NumInv, SeqFileAlwaysLoads, At, Valid

\* A setter replaces the numbers in memory by others that count from 1.
LEMMA NumMutate ==
    ASSUME NumInv, NEW kind \in Setters, NEW new, Positive(new), Mutate(kind, new)
    PROVE  NumInv'
<1>1. mem' = new /\ op' = [Idle EXCEPT !.kind = kind, !.at = "persist", !.prev = mem]
      /\ UNCHANGED <<seqfile, pending>>
  BY Zenon DEF Mutate, files, history
<1>2. mem \in {num \in Numbers : Positive(num)}
  BY Zenon DEF NumInv, Positive
<1>3. op' \in OpRecord /\ op'.at = "persist"
  BY <1>1, <1>2, IdleRecord, Zenon DEF OpRecord
<1> QED
  BY <1>1, <1>3, Zenon DEF NumInv, SeqFileAlwaysLoads, At, Valid

\* The setters of the session.
LEMMA SetterStep ==
    ASSUME NumInv,
           \/ next_sender_seq_num_incr \/ set_next_sender_seq_num
           \/ \E n \in Seqs : set_next_target_seq_num(n) \/ advance_next_target_seq_num(n)
    PROVE  NumInv'
<1>1. mem \in Numbers /\ mem.sender \in 1 .. MaxSeq /\ mem.target \in 1 .. MaxSeq
  BY FileStoreConstants DEF NumInv, Positive, Numbers
<1>2. CASE next_sender_seq_num_incr
  <2>1. Positive([mem EXCEPT !.sender = @ + 1])
    BY <1>1, <1>2, FileStoreConstants DEF next_sender_seq_num_incr, Positive, Numbers
  <2> QED
    BY <1>2, <2>1, NumMutate, Zenon DEF next_sender_seq_num_incr, Setters
<1>3. CASE set_next_sender_seq_num
  <2>1. pending \in 1 .. MaxSeq
    BY <1>3 DEF set_next_sender_seq_num, NumInv
  <2>2. Positive([mem EXCEPT !.sender = pending])
    BY <1>1, <2>1, FileStoreConstants DEF Positive, Numbers
  <2> QED
    BY <1>3, <2>2, NumMutate, Zenon DEF set_next_sender_seq_num, Setters
<1>4. ASSUME NEW n \in Seqs, set_next_target_seq_num(n) \/ advance_next_target_seq_num(n)
      PROVE  NumInv'
  <2>1. Positive([mem EXCEPT !.target = n])
    BY <1>1, FileStoreConstants DEF Positive, Numbers, Seqs
  <2> QED
    BY <1>4, <2>1, NumMutate, Zenon DEF set_next_target_seq_num, advance_next_target_seq_num, Setters
<1> QED
  BY <1>2, <1>3, <1>4, Zenon

\* What a call leaves in op when it moves on or returns.
LEMMA OpMoves ==
    ASSUME op \in OpRecord
    PROVE  /\ \A p \in {"persist", "write", "rename", "fsync", "index"} :
                  /\ [op EXCEPT !.at = p] \in OpRecord /\ [op EXCEPT !.at = p].at = p
                  /\ [op EXCEPT !.at = p].kind = op.kind /\ [op EXCEPT !.at = p].prev = op.prev
  BY Zenon DEF OpRecord

\* persist_seqs up to the rename, and the rename.
LEMMA PersistStep ==
    ASSUME NumInv, OpenTmp \/ WriteTmp \/ Rename \/ PersistFails
    PROVE  NumInv'
<1>1. op \in OpRecord /\ op.prev.sender \in 0 .. MaxSeq /\ pending \in 0 .. MaxSeq
  BY Zenon DEF NumInv, OpRecord, Numbers
<1>2. CASE OpenTmp
  <2>1. op' \in OpRecord /\ op'.at = "write" /\ UNCHANGED <<seqfile, mem, pending>>
    BY <1>1, <1>2, OpMoves, Zenon DEF OpenTmp, GoTo, object, history
  <2> QED
    BY <1>1, <2>1, NumQuiet, Zenon
<1>3. CASE WriteTmp
  <2>1. op' \in OpRecord /\ tmp' = Holding(mem) /\ UNCHANGED <<seqfile, mem, pending>>
    BY <1>1, <1>3, OpMoves, Zenon DEF WriteTmp, GoTo, object, history
  <2> QED
    BY <2>1, Zenon DEF NumInv, SeqFileAlwaysLoads, Valid
<1>4. CASE Rename
  <2>1. seqfile' = Holding(mem) /\ mem' = mem /\ op' = Idle
    BY <1>4, Zenon DEF Rename, NumInv, Return
  <2>2. pending' \in 0 .. MaxSeq
    BY <1>1, <1>4, FileStoreConstants DEF Rename, Persisted
  <2>3. Positive(mem)
    BY Zenon DEF NumInv
  <2>4. seqfile' \in Content /\ Valid(seqfile')
    BY <2>1, <2>3, HoldingLoads, Zenon
  <2> QED
    BY <2>1, <2>2, <2>3, <2>4, IdleRecord, Zenon DEF NumInv, SeqFileAlwaysLoads, At, Valid
<1>5. CASE PersistFails
  <2>1. mem' = op.prev /\ op' = Idle /\ UNCHANGED seqfile
    BY <1>5, Zenon DEF PersistFails, Return
  <2>2. pending' \in 0 .. MaxSeq
    BY <1>1, <1>5, FileStoreConstants DEF PersistFails
  <2>3. Positive(op.prev)
    BY <1>1, Zenon DEF OpRecord
  <2> QED
    BY <2>1, <2>2, <2>3, IdleRecord, Zenon DEF NumInv, SeqFileAlwaysLoads, At, Valid
<1> QED
  BY <1>2, <1>3, <1>4, <1>5, Zenon

\* Opening and refreshing take the numbers from the file.
LEMMA OpenStep ==
    ASSUME NumInv, Open \/ refresh \/ refresh_fails
    PROVE  NumInv'
<1>1. mem' = load_seqs(seqfile) /\ op' = Idle /\ UNCHANGED <<seqfile, pending>>
  BY Zenon DEF Open, refresh, refresh_fails, Return, history, files
<1>2. Positive(load_seqs(seqfile))
  BY LoadPositive, Zenon DEF NumInv, SeqFileAlwaysLoads
<1> QED
  BY <1>1, <1>2, IdleRecord, Zenon DEF NumInv, SeqFileAlwaysLoads, At, Valid

\* The steps of store_outbound.
LEMMA StoreStep ==
    ASSUME NumInv,
           \/ \E f \in Frames : store_outbound(f)
           \/ store_outbound_refused \/ Flushed \/ WriteFails \/ Fsynced \/ FsyncFails \/ Index
    PROVE  NumInv'
<1>1. op \in OpRecord /\ pending \in 0 .. MaxSeq /\ 0 \in 0 .. MaxSeq
  BY FileStoreConstants DEF NumInv
<1>2. ASSUME NEW f \in Frames, store_outbound(f)
      PROVE  op' \in OpRecord /\ op'.at = "append" /\ UNCHANGED <<seqfile, mem, pending>>
  BY <1>2, IdleRecord, Zenon DEF store_outbound, OpRecord, object
<1>3. ASSUME store_outbound_refused \/ WriteFails \/ FsyncFails \/ Index
      PROVE  op' = Idle /\ UNCHANGED <<seqfile, mem>> /\ pending' \in {pending, 0}
  BY <1>3, Zenon DEF store_outbound_refused, WriteFails, FsyncFails, Index, Return, object, files
<1>4. ASSUME Flushed \/ Fsynced
      PROVE  op' \in OpRecord /\ op'.at \in {"fsync", "index"} /\ UNCHANGED <<seqfile, mem, pending>>
  BY <1>1, <1>4, OpMoves, Zenon DEF Flushed, Fsynced, GoTo, object, history
<1> QED
  BY <1>1, <1>2, <1>3, <1>4, IdleRecord, NumQuiet, Zenon

\* The steps of reset and close.
LEMMA ResetStep ==
    ASSUME NumInv, reset \/ Truncate \/ reset_fails \/ close \/ close_fails
    PROVE  NumInv'
<1>1. op \in OpRecord /\ pending \in 0 .. MaxSeq
  BY Zenon DEF NumInv
<1>2. mem \in {num \in Numbers : Positive(num)}
  BY Zenon DEF NumInv, Positive
<1>3. CASE reset
  <2>1. mem' = First /\ UNCHANGED <<seqfile, pending>>
        /\ op' = [Idle EXCEPT !.kind = "reset", !.at = "truncate", !.prev = mem]
    BY <1>3, Zenon DEF reset, files, history
  <2>2. op' \in OpRecord /\ op'.at = "truncate"
    BY <1>2, <2>1, IdleRecord, Zenon DEF OpRecord
  <2> QED
    BY <2>1, <2>2, FirstPositive, Zenon DEF NumInv, SeqFileAlwaysLoads, At, Valid
<1>4. CASE Truncate
  <2>1. op' \in OpRecord /\ op'.at = "persist" /\ UNCHANGED <<seqfile, mem, pending>>
    BY <1>1, <1>4, OpMoves, Zenon DEF Truncate, GoTo, object
  <2> QED
    BY <1>1, <2>1, NumQuiet, Zenon
<1>5. CASE reset_fails \/ close_fails
  <2>1. op' = Idle /\ UNCHANGED <<seqfile, mem, pending>>
    BY <1>5, Zenon DEF reset_fails, close_fails, Return, object, history
  <2> QED
    BY <1>1, <2>1, IdleRecord, NumQuiet, Zenon
<1>6. CASE close
  <2>1. op' = [Idle EXCEPT !.kind = "close", !.at = "persist", !.prev = mem,
                           !.result = IF stream = "bad" THEN "error" ELSE "ok"]
        /\ UNCHANGED <<seqfile, mem, pending>>
    BY <1>6, Zenon DEF close, history
  <2>2. op' \in OpRecord /\ op'.at = "persist"
    BY <1>2, <2>1, IdleRecord, Zenon DEF OpRecord
  <2> QED
    BY <1>1, <2>1, <2>2, NumQuiet, Zenon
<1> QED
  BY <1>3, <1>4, <1>5, <1>6, Zenon

\* A crash leaves the sequence file as it is.
LEMMA CrashStep ==
    ASSUME NumInv, Die
    PROVE  NumInv'
<1>1. mem' = First /\ op' = [Idle EXCEPT !.at = "down"] /\ pending' = 0 /\ UNCHANGED seqfile
  BY Zenon DEF Die
<1> QED
  BY <1>1, FirstPositive, IdleRecord, FileStoreConstants DEF NumInv, SeqFileAlwaysLoads, At, Valid

\* Every step of the store keeps both files loadable and the numbers in range.
LEMMA NumStep == NumInv /\ [Next]_vars => NumInv'
<1> SUFFICES ASSUME NumInv, [Next]_vars PROVE NumInv'
  BY Zenon
<1>1. CASE UNCHANGED vars
  BY <1>1, Zenon DEF vars, NumInv, SeqFileAlwaysLoads, At, Valid
<1>2. CASE Kill \/ PowerCut
  BY <1>2, CrashStep, Zenon DEF Kill, PowerCut
<1> QED
  BY <1>1, <1>2, SetterStep, PersistStep, OpenStep, StoreStep, ResetStep, Zenon DEF Next

\* Wherever the process dies and whatever fails in persist_seqs, the sequence file
\* is absent or whole with positive numbers: load_seqs accepts it.
THEOREM SeqFileLoads == Spec => []SeqFileAlwaysLoads
<1>1. NumInv => SeqFileAlwaysLoads
  BY Zenon DEF NumInv
<1> QED
  BY <1>1, NumInit, NumStep, PTL DEF Spec

----------------------------------------------------------------------------
(* Memory, disk and the numbers handed out, when reset does not fail. *)

\* A new store agrees with its missing .seqs file.
LEMMA AgreeInit == Init => AgreeInv
<1> SUFFICES ASSUME Init PROVE AgreeInv
  BY Zenon
<1>1. load_seqs(seqfile) = First /\ mem = First
  BY Zenon DEF Init, Absent, load_seqs
<1>2. op.kind = "none" /\ op.at = "idle" /\ issued = {} /\ pending = 0
  BY IdleRecord, Zenon DEF Init
<1> QED
  BY <1>1, <1>2, NumInit, Zenon DEF AgreeInv, OpInv, MemInv, IssueInv, Persisting, At

\* Steps outside persist_seqs that leave the numbers alone.
LEMMA AgreeQuiet ==
    ASSUME AgreeInv, NumInv', UNCHANGED <<seqfile, mem, issued>>, pending' \in {pending, 0},
           op.at \in {"idle", "append", "fsync", "index"}, op'.kind \in {"none", "store"},
           op'.at \in {"idle", "append", "fsync", "index"}
    PROVE  AgreeInv'
<1>1. OpInv'
  BY Zenon DEF OpInv, Persisting, At
<1>2. MemInv'
  BY Zenon DEF AgreeInv, MemInv, Persisting, Setters
<1>3. IssueInv'
  BY Zenon DEF AgreeInv, IssueInv
<1> QED
  BY <1>1, <1>2, <1>3, Zenon DEF AgreeInv

\* The steps of persist_seqs before the rename.
LEMMA AgreeMoves ==
    ASSUME AgreeInv, NumInv', UNCHANGED <<seqfile, mem, issued, pending>>,
           op.at \in {"truncate", "persist", "write"}, op'.at \in {"persist", "write", "rename"},
           op'.kind = op.kind, op'.prev = op.prev, op.at = "truncate" => op.kind = "reset"
    PROVE  AgreeInv'
<1>1. OpInv' /\ IssueInv'
  BY Zenon DEF AgreeInv, OpInv, IssueInv, Persisting, At
<1>2. MemInv'
  BY Zenon DEF AgreeInv, MemInv, Persisting
<1> QED
  BY <1>1, <1>2, Zenon DEF AgreeInv

\* A setter or close begins.
LEMMA AgreeBegins ==
    ASSUME AgreeInv, NumInv', op.at = "idle", UNCHANGED <<seqfile, issued, pending>>,
           op'.at = "persist", op'.prev = mem,
           \/ op'.kind = "claim" /\ pending = 0 /\ mem'.sender = mem.sender + 1
           \/ op'.kind = "giveback" /\ pending # 0 /\ mem'.sender = pending
           \/ op'.kind \in {"target", "advance"} /\ mem'.sender = mem.sender
           \/ op'.kind = "close" /\ mem' = mem
    PROVE  AgreeInv'
<1>1. OpInv' /\ IssueInv'
  BY Zenon DEF AgreeInv, OpInv, IssueInv, Persisting, At, Setters
<1>2. MemInv'
  BY Zenon DEF AgreeInv, MemInv, Persisting
<1> QED
  BY <1>1, <1>2, Zenon DEF AgreeInv

\* A call of persist_seqs ends without a rename: memory is what it was before.
LEMMA AgreeFails ==
    ASSUME AgreeInv, NumInv', Persisting, op.kind # "reset", UNCHANGED <<seqfile, issued>>,
           mem' = op.prev, pending' \in {pending, 0}, op' = Idle
    PROVE  AgreeInv'
<1>1. op'.kind = "none" /\ op'.at = "idle"
  BY IdleRecord, Zenon
<1>2. OpInv' /\ IssueInv'
  BY <1>1, Zenon DEF AgreeInv, OpInv, IssueInv, Persisting, At
<1>3. MemInv'
  BY <1>1, Zenon DEF AgreeInv, MemInv, Persisting
<1> QED
  BY <1>2, <1>3, Zenon DEF AgreeInv

\* The rename puts the numbers in memory on disk.
LEMMA AgreeRename ==
    ASSUME AgreeInv, NumInv', Rename
    PROVE  AgreeInv'
<1>1. op'.kind = "none" /\ op'.at = "idle" /\ mem' = mem /\ seqfile' = Holding(mem)
  BY IdleRecord, Zenon DEF Rename, Return, AgreeInv, NumInv
<1>2. load_seqs(seqfile') = mem
  BY <1>1, HoldingLoads, Zenon DEF AgreeInv, NumInv
<1>3. Persisting /\ op.kind \in Setters \cup {"reset", "close"}
  BY Zenon DEF Rename, At, Persisting, AgreeInv, OpInv
<1>4. OpInv' /\ MemInv'
  BY <1>1, <1>2, Zenon DEF OpInv, MemInv, Persisting, At, load_seqs
<1>5. mem.sender \in Nat /\ op.prev.sender \in Nat /\ pending \in Nat
  BY FileStoreConstants DEF AgreeInv, NumInv, Positive, OpRecord, Numbers
<1>6. IssueInv'
  <2> SUFFICES /\ pending' # 0 => mem.sender = pending' + 1
               /\ \A n \in issued' : n \in Nat /\ n < mem.sender
    BY <1>2, Zenon DEF IssueInv, load_seqs
  <2> USE DEF AgreeInv, MemInv, IssueInv
  <2>1. CASE op.kind = "claim"
    <3>1. pending' = op.prev.sender /\ issued' = issued \cup {op.prev.sender}
      BY <2>1, Zenon DEF Rename, Persisted
    <3> QED
      BY <1>3, <1>5, <2>1, <3>1
  <2>2. CASE op.kind = "giveback"
    <3>1. pending' = 0 /\ issued' = issued \ {mem.sender}
      BY <2>2, Zenon DEF Rename, Persisted
    <3> QED
      BY <1>3, <1>5, <2>2, <3>1
  <2>3. CASE op.kind = "reset"
    <3>1. pending' = pending /\ issued' = {}
      BY <2>3, Zenon DEF Rename, Persisted
    <3> QED
      BY <2>3, <3>1, Zenon
  <2>4. CASE op.kind \in {"target", "advance", "close"}
    <3>1. pending' = pending /\ issued' = issued
      BY <2>4, Zenon DEF Rename, Persisted
    <3> QED
      BY <1>3, <1>5, <2>4, <3>1, Zenon
  <2> QED
    BY <1>3, <2>1, <2>2, <2>3, <2>4, Zenon DEF Setters
<1> QED
  BY <1>4, <1>6, Zenon DEF AgreeInv

\* Every step keeps memory, disk and the issued numbers in agreement, when reset
\* (file_store.cpp, FileStore::reset) does not stop halfway.
LEMMA AgreeStep ==
    ASSUME "reset" \notin Faults
    PROVE  AgreeInv /\ [Next]_vars => AgreeInv'
<1> SUFFICES ASSUME AgreeInv, [Next]_vars PROVE AgreeInv'
  BY Zenon
<1>0. NumInv' /\ op \in OpRecord
  BY NumStep, Zenon DEF AgreeInv, NumInv
<1>1. CASE UNCHANGED vars
  BY <1>0, <1>1, Zenon DEF vars, AgreeInv, OpInv, MemInv, IssueInv, Persisting, At
<1>2. CASE Kill \/ PowerCut
  <2>1. /\ op'.kind = "none" /\ op'.at = "down" /\ pending' = 0
        /\ UNCHANGED <<seqfile, issued>>
    BY <1>2, IdleRecord, Zenon DEF Kill, PowerCut, Die
  <2> QED
    BY <1>0, <2>1, Zenon DEF AgreeInv, OpInv, MemInv, IssueInv, Persisting, At
<1>3. CASE Open \/ refresh \/ refresh_fails
  <2>1. /\ mem' = load_seqs(seqfile) /\ op'.kind = "none" /\ op'.at = "idle"
        /\ UNCHANGED <<seqfile, issued, pending>>
    BY <1>3, IdleRecord, Zenon DEF Open, refresh, refresh_fails, Return, history, files
  <2> QED
    BY <1>0, <2>1, Zenon DEF AgreeInv, OpInv, MemInv, IssueInv, Persisting, At
<1>4. ASSUME NEW kind \in Setters, NEW new, Mutate(kind, new)
      PROVE  /\ op.at = "idle" /\ op'.at = "persist" /\ op'.prev = mem /\ op'.kind = kind
             /\ mem' = new /\ UNCHANGED <<seqfile, issued, pending>>
  BY <1>4, Zenon DEF Mutate, At, Idle, files, history
<1>5. mem \in Numbers
  BY Zenon DEF AgreeInv, NumInv, Positive
<1>6. CASE next_sender_seq_num_incr
  <2>1. [mem EXCEPT !.sender = @ + 1].sender = mem.sender + 1
    BY <1>5, Zenon DEF Numbers
  <2> QED
    BY <1>0, <1>4, <1>6, <2>1, AgreeBegins, Zenon DEF next_sender_seq_num_incr, Setters
<1>7. CASE set_next_sender_seq_num
  <2>1. [mem EXCEPT !.sender = pending].sender = pending
    BY <1>5, Zenon DEF Numbers
  <2> QED
    BY <1>0, <1>4, <1>7, <2>1, AgreeBegins, Zenon DEF set_next_sender_seq_num, Setters
<1>8. ASSUME NEW n \in Seqs, set_next_target_seq_num(n) \/ advance_next_target_seq_num(n)
      PROVE  AgreeInv'
  <2>1. [mem EXCEPT !.target = n].sender = mem.sender
    BY <1>5, Zenon DEF Numbers
  <2>2. PICK k \in {"target", "advance"} : Mutate(k, [mem EXCEPT !.target = n])
    BY <1>8, Zenon DEF set_next_target_seq_num, advance_next_target_seq_num
  <2>3. /\ op.at = "idle" /\ op'.at = "persist" /\ op'.prev = mem /\ op'.kind = k
        /\ mem'.sender = mem.sender /\ UNCHANGED <<seqfile, issued, pending>>
    BY <1>4, <2>1, <2>2, Zenon DEF Setters
  <2> QED
    BY <1>0, <2>3, AgreeBegins, Zenon
<1>9. CASE OpenTmp \/ WriteTmp
  <2>1. /\ op.at \in {"persist", "write"} /\ op'.at \in {"write", "rename"}
        /\ op'.kind = op.kind /\ op'.prev = op.prev
        /\ UNCHANGED <<seqfile, mem, issued, pending>>
    BY <1>0, <1>9, OpMoves, Zenon DEF OpenTmp, WriteTmp, GoTo, At, object, history
  <2> QED
    BY <1>0, <2>1, AgreeMoves, Zenon
<1>10. CASE PersistFails
  <2>1. /\ Persisting /\ op.kind # "reset" /\ UNCHANGED <<seqfile, issued>>
        /\ mem' = op.prev /\ pending' \in {pending, 0} /\ op' = Idle
    BY <1>10, Zenon DEF PersistFails, Return
  <2> QED
    BY <1>0, <2>1, AgreeFails, Zenon
<1>11. ASSUME NEW f \in Frames, store_outbound(f)
       PROVE  AgreeInv'
  <2>1. /\ op.at = "idle" /\ op'.kind = "store" /\ op'.at = "append"
        /\ UNCHANGED <<seqfile, mem, issued, pending>>
    BY <1>11, Zenon DEF store_outbound, At, Idle, object
  <2> QED
    BY <1>0, <2>1, AgreeQuiet, Zenon
<1>12. CASE store_outbound_refused \/ WriteFails \/ FsyncFails \/ Index
  <2>1. /\ op.at \in {"idle", "append", "fsync", "index"}
        /\ op'.kind = "none" /\ op'.at = "idle"
        /\ UNCHANGED <<seqfile, mem, issued>> /\ pending' \in {pending, 0}
    BY <1>12, IdleRecord, Zenon DEF store_outbound_refused, WriteFails, FsyncFails, Index, Return, At,
                             object, files
  <2> QED
    BY <1>0, <2>1, AgreeQuiet, Zenon
<1>13. CASE Flushed \/ Fsynced
  <2>1. /\ op.at \in {"append", "fsync"} /\ op'.kind = op.kind /\ op'.at \in {"fsync", "index"}
        /\ UNCHANGED <<seqfile, mem, issued, pending>>
    BY <1>0, <1>13, OpMoves, Zenon DEF Flushed, Fsynced, GoTo, At, object, history
  <2>2. op.kind \in {"none", "store"}
    BY <2>1, Zenon DEF AgreeInv, OpInv
  <2> QED
    BY <1>0, <2>1, <2>2, AgreeQuiet, Zenon
<1>14. CASE reset
  <2>1. /\ op'.kind = "reset" /\ op'.at = "truncate" /\ pending = 0
        /\ UNCHANGED <<seqfile, issued, pending>>
    BY <1>14, Zenon DEF reset, Idle, files, history
  <2> QED
    BY <1>0, <2>1, Zenon DEF AgreeInv, OpInv, MemInv, IssueInv, Persisting, At, Setters
<1>15. CASE Truncate
  <2>1. /\ op.at = "truncate" /\ op'.at = "persist"
        /\ op'.kind = op.kind /\ op'.prev = op.prev
        /\ UNCHANGED <<seqfile, mem, issued, pending>>
    BY <1>0, <1>15, OpMoves, Zenon DEF Truncate, GoTo, At, object
  <2>2. op.kind = "reset"
    BY <2>1, Zenon DEF AgreeInv, OpInv, At
  <2> QED
    BY <1>0, <2>1, <2>2, AgreeMoves, Zenon
<1>16. CASE close
  <2>1. /\ op.at = "idle" /\ op'.kind = "close" /\ op'.at = "persist" /\ op'.prev = mem
        /\ UNCHANGED <<seqfile, mem, issued, pending>>
    BY <1>16, Zenon DEF close, At, Idle, history
  <2> QED
    BY <1>0, <2>1, AgreeBegins, Zenon
<1>17. CASE close_fails
  <2>1. /\ Persisting /\ op.kind = "close" /\ UNCHANGED <<seqfile, issued, mem, pending>> /\ op' = Idle
    BY <1>17, Zenon DEF close_fails, Return, history
  <2>2. mem' = op.prev
    BY <2>1, Zenon DEF AgreeInv, MemInv
  <2> QED
    BY <1>0, <2>1, <2>2, AgreeFails, Zenon
<1>18. CASE Rename
  BY <1>0, <1>18, AgreeRename, Zenon
<1>19. ~reset_fails
  BY Zenon DEF reset_fails
<1> QED
  BY <1>1, <1>2, <1>3, <1>6, <1>7, <1>8, <1>9, <1>10, <1>11, <1>12, <1>13, <1>14, <1>15,
     <1>16, <1>17, <1>18, <1>19, Zenon DEF Next

\* As long as reset does not stop halfway, a setter that reports an error has
\* left the previous value in place, in memory and on disk.
THEOREM FailedPersistChangesNothing ==
    ASSUME "reset" \notin Faults
    PROVE  Spec => []PreviousValueInPlace
<1>1. AgreeInv => PreviousValueInPlace
  BY Zenon DEF AgreeInv, MemInv, PreviousValueInPlace, At
<1>2. AgreeInv /\ [Next]_vars => AgreeInv'
  BY AgreeStep, Zenon
<1> QED
  BY <1>1, <1>2, AgreeInit, PTL DEF Spec

\* And next_sender_seq_num_incr hands out no number twice between two resets,
\* across crashes, failed persists and claims given back.
THEOREM ClaimsFresh ==
    ASSUME "reset" \notin Faults
    PROVE  Spec => ClaimsAreFresh
<1>1. AgreeInv /\ [Next]_vars =>
      [(op.kind = "claim" /\ op'.at = "idle" /\ ret' = "ok") => op.prev.sender \notin issued]_vars
  <2> SUFFICES ASSUME AgreeInv, op.kind = "claim", op.prev.sender \in issued PROVE FALSE
    BY Zenon
  <2>1. op.prev = load_seqs(seqfile)
    BY Zenon DEF AgreeInv, OpInv, MemInv, NumInv, OpRecord, Persisting, At
  <2>2. op.prev.sender \in Nat /\ op.prev.sender < op.prev.sender
    BY <2>1, Zenon DEF AgreeInv, IssueInv
  <2> QED
    BY <2>2
<1>2. AgreeInv /\ [Next]_vars => AgreeInv'
  BY AgreeStep, Zenon
<1> QED
  BY <1>1, <1>2, AgreeInit, PTL DEF Spec, ClaimsAreFresh

\* How the claim in progress and the accepted numbers relate to both counters, also
\* after a reset that failed.
ClaimInv ==
    /\ pending # 0 => /\ pending < load_seqs(seqfile).sender
                      /\ ~At("down") /\ op.kind # "giveback" => pending < mem.sender
    /\ op.kind = "claim" => pending = 0 /\ mem.sender = op.prev.sender + 1
    /\ op.kind = "giveback" => pending # 0 /\ mem.sender = pending
    /\ op.kind \in {"target", "advance", "close"} => mem.sender = op.prev.sender
    /\ op.kind = "reset" => pending = 0

\* n is a number below every number that may still be claimed.
Below(n) ==
    /\ n < load_seqs(seqfile).sender
    /\ ~At("down") => n < mem.sender
    /\ Persisting => n < op.prev.sender
    /\ pending # 0 => n < pending

\* No number is claimed under which a frame was accepted.
SpentInv == \A n \in Seqs : accepted[n] # "none" => Below(n)

-----------------------------------------------------------------------------
\* What the steps of a call leave in op.
LEMMA OpSteps ==
    ASSUME op \in OpRecord
    PROVE  /\ \A r : Return(r) => op' = Idle /\ op'.kind = "none" /\ op'.at = "idle"
           /\ \A p \in {"persist", "write", "rename", "fsync", "index"} : GoTo(p) =>
                  /\ op'.at = p /\ op'.kind = op.kind /\ op'.prev = op.prev
                  /\ op'.frame = op.frame
           /\ Die => op'.kind = "none" /\ op'.at = "down"
  BY OpMoves, IdleRecord DEF Return, GoTo, Die, OpRecord

\* A setter begins: the new numbers are in memory, the old ones in op.prev.
LEMMA Begins ==
    /\ \A kind, new : Mutate(kind, new) =>
           /\ op.at = "idle" /\ op'.at = "persist" /\ op'.kind = kind /\ op'.prev = mem /\ mem' = new
           /\ UNCHANGED <<files, index, stream, closed, ret, history>>
    /\ \A f : store_outbound(f) => op'.at = "append" /\ op'.kind = "store" /\ op'.frame = f
    /\ reset => op'.at = "truncate" /\ op'.kind = "reset" /\ op'.prev = mem
    /\ close => op'.at = "persist" /\ op'.kind = "close" /\ op'.prev = mem
<1>1. ASSUME NEW kind, NEW new, Mutate(kind, new)
      PROVE  op.at = "idle" /\ op'.at = "persist" /\ op'.kind = kind /\ op'.prev = mem /\ mem' = new
             /\ UNCHANGED <<files, index, stream, closed, ret, history>>
  BY <1>1, Zenon DEF Mutate, At, Idle
<1>2. ASSUME NEW f, store_outbound(f) PROVE op'.at = "append" /\ op'.kind = "store" /\ op'.frame = f
  BY <1>2, Zenon DEF store_outbound, Idle
<1>3. reset => op'.at = "truncate" /\ op'.kind = "reset" /\ op'.prev = mem
  BY Zenon DEF reset, Idle
<1>4. close => op'.at = "persist" /\ op'.kind = "close" /\ op'.prev = mem
  BY Zenon DEF close, Idle
<1> QED
  BY <1>1, <1>2, <1>3, <1>4, Zenon

\* Every setter is a Mutate.
LEMMA SetterMutates ==
    ASSUME \/ next_sender_seq_num_incr \/ set_next_sender_seq_num
           \/ \E n \in Seqs : set_next_target_seq_num(n) \/ advance_next_target_seq_num(n)
    PROVE  \E kind \in Setters : \E new : Mutate(kind, new)
  BY Zenon DEF next_sender_seq_num_incr, set_next_sender_seq_num, set_next_target_seq_num,
               advance_next_target_seq_num, Setters

\* Every step of every handler keeps StreamInv, failed resets included.
LEMMA StreamStep ==
    ASSUME NumInv, OpInv, StreamInv, [Next]_vars
    PROVE  OpInv' /\ StreamInv'
<1>0. op \in OpRecord
  BY Zenon DEF NumInv
<1> USE DEF OpInv, StreamInv, Persisting, At, Setters
<1>1. CASE UNCHANGED vars
  BY <1>1, Zenon DEF vars, load_seqs
<1>2. CASE Kill \/ PowerCut
  BY <1>0, <1>2, OpSteps, Zenon DEF Kill, PowerCut, Die
<1>3. CASE Open \/ refresh \/ refresh_fails
  <2>1. op'.kind = "none" /\ op'.at = "idle" /\ mem' = load_seqs(seqfile) /\ UNCHANGED seqfile
    BY <1>0, <1>3, OpSteps, Zenon DEF Open, refresh, refresh_fails, files
  <2> QED
    BY <2>1, Zenon DEF load_seqs
<1>4. ASSUME NEW kind \in Setters, NEW new, Mutate(kind, new) PROVE OpInv' /\ StreamInv'
  <2>1. /\ op.at = "idle" /\ op'.at = "persist" /\ op'.kind = kind /\ op'.prev = mem
        /\ UNCHANGED <<seqfile, stream>>
    BY <1>4, Begins, Zenon DEF files
  <2> QED
    BY <2>1, Zenon DEF load_seqs
<1>5. CASE OpenTmp \/ WriteTmp
  <2>1. /\ op.at \in {"persist", "write"} /\ op'.at \in {"write", "rename"}
        /\ op'.kind = op.kind /\ op'.prev = op.prev /\ UNCHANGED <<seqfile, mem, stream>>
    BY <1>0, <1>5, OpSteps, Zenon DEF OpenTmp, WriteTmp, object
  <2> QED
    BY <2>1, Zenon DEF load_seqs
<1>6. CASE Rename
  <2>1. op'.kind = "none" /\ op'.at = "idle" /\ mem' = mem /\ seqfile' = Holding(mem)
    BY <1>0, <1>6, OpSteps, Zenon DEF Rename, NumInv
  <2> QED
    BY <2>1, HoldingLoads, Zenon DEF NumInv, load_seqs
<1>7. CASE PersistFails
  <2>1. /\ op'.kind = "none" /\ op'.at = "idle" /\ mem' = op.prev
        /\ UNCHANGED <<seqfile, stream>>
    BY <1>0, <1>7, OpSteps, Zenon DEF PersistFails
  <2> QED
    BY <1>7, <2>1, Zenon DEF PersistFails, load_seqs
<1>8. ASSUME NEW f \in Frames, store_outbound(f) PROVE OpInv' /\ StreamInv'
  BY <1>8, Begins, Zenon DEF store_outbound, object, load_seqs
<1>9. CASE store_outbound_refused \/ WriteFails \/ FsyncFails \/ Index
  <2>1. /\ op'.kind = "none" /\ op'.at = "idle" /\ UNCHANGED <<seqfile, mem>>
        /\ stream' \in {stream, "bad"} /\ op.at \in {"idle", "append", "fsync", "index"}
    BY <1>0, <1>9, OpSteps, Zenon DEF store_outbound_refused, WriteFails, FsyncFails, Index, files, object
  <2> QED
    BY <2>1, Zenon DEF load_seqs
<1>10. CASE Flushed \/ Fsynced
  <2>1. /\ op.at \in {"append", "fsync"} /\ op'.at \in {"fsync", "index"} /\ op'.kind = op.kind
        /\ UNCHANGED <<seqfile, mem, stream>>
    BY <1>0, <1>10, OpSteps, Zenon DEF Flushed, Fsynced, object
  <2> QED
    BY <2>1, Zenon DEF load_seqs
<1>11. CASE reset
  BY <1>11, Begins, Zenon DEF reset
<1>12. CASE Truncate
  <2>1. op'.at = "persist" /\ op'.kind = op.kind /\ op.at = "truncate" /\ UNCHANGED stream
    BY <1>0, <1>12, OpSteps, Zenon DEF Truncate, object
  <2> QED
    BY <2>1, Zenon
<1>13. CASE reset_fails \/ close_fails
  <2>1. op'.kind = "none" /\ op'.at = "idle" /\ UNCHANGED stream /\ op.kind \in {"reset", "close"}
    BY <1>0, <1>13, OpSteps, Zenon DEF reset_fails, close_fails, object
  <2> QED
    BY <2>1, Zenon
<1>14. CASE close
  BY <1>14, Begins, Zenon DEF close
<1> QED
  <2>1. CASE \/ next_sender_seq_num_incr \/ set_next_sender_seq_num
             \/ \E n \in Seqs : set_next_target_seq_num(n) \/ advance_next_target_seq_num(n)
    <3>1. \E kind \in Setters : \E new : Mutate(kind, new)
      BY <2>1, Zenon DEF next_sender_seq_num_incr, set_next_sender_seq_num, set_next_target_seq_num,
                  advance_next_target_seq_num
    <3> QED
      BY <3>1, <1>4, Zenon
  <2> QED
    BY <1>1, <1>2, <1>3, <1>5, <1>6, <1>7, <1>8, <1>9, <1>10, <1>11, <1>12, <1>13, <1>14, <2>1, Zenon
       DEF Next

\* A new store: no call in progress, no stream open.
LEMMA StreamInit == Init => OpInv /\ StreamInv
<1> SUFFICES ASSUME Init PROVE OpInv /\ StreamInv
  BY Zenon
<1>1. load_seqs(seqfile) = First /\ mem = First
  BY Zenon DEF Init, Absent, load_seqs
<1>2. op.kind = "none" /\ op.at = "idle"
  BY IdleRecord, Zenon DEF Init
<1> QED
  BY <1>1, <1>2, Zenon DEF OpInv, StreamInv, Persisting, At

\* A store whose stream is good has the same numbers in memory and on disk whenever
\* store_outbound may run: every failed reset, close or persist closes the stream or
\* puts the old numbers back.  All faults, crashes and power cuts.
THEOREM StoringAgrees == Spec => []StoringNeedsAgreement
<1> DEFINE Inv == NumInv /\ OpInv /\ StreamInv
<1>1. Init => Inv
  BY NumInit, StreamInit, Zenon
<1>2. Inv /\ [Next]_vars => Inv'
  BY NumStep, StreamStep, Zenon
<1>3. Inv => StoringNeedsAgreement
  BY Zenon DEF StreamInv, StoringNeedsAgreement, At
<1> QED
  BY <1>1, <1>2, <1>3, PTL DEF Spec

-----------------------------------------------------------------------------
\* A nonempty set of naturals has a least element ...
LEMMA HasMin == ASSUME NEW T \in SUBSET Nat, T # {} PROVE \E x \in T : \A y \in T : x <= y
<1> DEFINE R == OpToRel(<, Nat)
<1>1. PICK x \in T : \A y \in T : ~ (<<y, x>> \in R)
  BY NatLessThanWellFounded, WFMin, Zenon
<1>2. \A y \in T : y < x => <<y, x>> \in R
  BY Zenon DEF OpToRel
<1> HIDE DEF R
<1>3. \A y \in T : ~ (y < x)
  BY <1>1, <1>2, Zenon
<1> QED BY <1>3

\* ... and one bounded by N a greatest: what rebuild_index, overwriting the entry
\* of a number at every record, leaves in it.
LEMMA HasMax == ASSUME NEW N \in Nat, NEW T \in SUBSET (1 .. N), T # {} PROVE \E x \in T : \A y \in T : y <= x
<1> DEFINE U == {N - x : x \in T}
<1>1. U \in SUBSET Nat
  <2>1. \A x \in T : N - x \in Nat
    OBVIOUS
  <2> QED BY <2>1, Zenon
<1>5. U # {}
  BY Zenon
<1>4. \A y \in T : N - y \in U
  BY Zenon
<1> HIDE DEF U
<1>2. PICK u \in U : \A v \in U : u <= v
  BY <1>1, <1>5, HasMin, Zenon
<1>3. PICK x \in T : u = N - x
  BY <1>2, Zenon DEF U
<1> QED BY <1>2, <1>3, <1>4

\* Logs are sequences: their length, the empty one, one with a record replaced.
LEMMA LogLength ==
    ASSUME NEW S, NEW s \in Seq(S)
    PROVE  Len(s) \in Nat /\ s \in [1 .. Len(s) -> S] /\ DOMAIN s = 1 .. Len(s)
  OBVIOUS

\* The empty log, and a log that is not empty.
LEMMA EmptyLog ==
    ASSUME NEW S
    PROVE  <<>> \in Seq(S) /\ Len(<<>>) = 0 /\ \A s \in Seq(S) : s # <<>> => Len(s) \in Nat \ {0}
<1>1. <<>> \in Seq(S)
  OBVIOUS
<1>2. Len(<<>>) = 0
  BY Zenon
<1>3. ASSUME NEW s \in Seq(S), s # <<>> PROVE Len(s) \in Nat \ {0}
  BY <1>3
<1> QED
  BY <1>1, <1>2, <1>3, Zenon

\* A log in which one record was rewritten.
LEMMA LogExcept ==
    ASSUME NEW S, NEW s \in Seq(S), NEW i \in 1 .. Len(s), NEW e \in S
    PROVE  /\ [s EXCEPT ![i] = e] \in Seq(S) /\ Len([s EXCEPT ![i] = e]) = Len(s)
           /\ \A j \in 1 .. Len(s) : [s EXCEPT ![i] = e][j] = IF j = i THEN e ELSE s[j]
<1>1. [s EXCEPT ![i] = e] \in [1 .. Len(s) -> S] /\ Len(s) \in Nat
  OBVIOUS
<1>2. Len([s EXCEPT ![i] = e]) = Len(s)
  OBVIOUS
<1> QED
  BY <1>1, <1>2

\* A record of the log.
LEMMA RecordFields ==
    ASSUME NEW log \in Seq(Record), NEW i \in 1 .. Len(log)
    PROVE  log[i].seq \in Seqs /\ log[i].seq \in Nat /\ log[i].frame \in Frames
<1>1. log[i] \in Record
  OBVIOUS
<1> QED
  BY <1>1, FileStoreConstants DEF Record, Seqs

\* The index of a log: an entry is the last whole record of its number, and a
\* number without an entry has no whole record.
LEMMA IndexPoints ==
    ASSUME NEW log \in Seq(Record), NEW n \in Seqs
    PROVE  /\ IndexOf(log)[n] \in 0 .. Len(log)
           /\ IndexOf(log)[n] # 0 =>
                  /\ log[IndexOf(log)[n]].whole /\ log[IndexOf(log)[n]].seq = n
           /\ \A i \in 1 .. Len(log) : log[i].whole /\ log[i].seq = n =>
                  IndexOf(log)[n] # 0 /\ i <= IndexOf(log)[n]
<1> DEFINE at == {i \in 1 .. Len(log) : log[i].whole /\ log[i].seq = n}
<1>1. DOMAIN log = 1 .. Len(log) /\ Len(log) \in Nat
  BY LogLength, Zenon
<1>2. IndexOf(log)[n] = IF at = {} THEN 0 ELSE CHOOSE i \in at : \A j \in at : j <= i
  BY <1>1 DEF IndexOf
<1>3. CASE at = {}
  BY <1>1, <1>2, <1>3
<1>4. CASE at # {}
  <2>1. \E i \in at : \A j \in at : j <= i
    BY <1>1, <1>4, HasMax, Zenon
  <2>2. IndexOf(log)[n] \in at /\ \A j \in at : j <= IndexOf(log)[n]
    BY <1>2, <1>4, <2>1, Zenon
  <2> QED
    BY <1>1, <2>2
<1> QED
  BY <1>3, <1>4, Zenon

\* rebuild_index fills the whole index with positions.
LEMMA IndexTyped ==
    ASSUME NEW log \in Seq(Record) PROVE IndexOf(log) \in [Seqs -> Nat]
<1>1. \A n \in Seqs : IndexOf(log)[n] \in Nat
  BY IndexPoints, LogLength
<1>2. IndexOf(log) = [n \in Seqs |-> IndexOf(log)[n]]
  BY DEF IndexOf
<1> QED BY <1>1, <1>2, Zenon

\* A prefix of a log.
LEMMA PrefixLog ==
    ASSUME NEW log \in Seq(Record), NEW k \in 0 .. Len(log)
    PROVE  /\ SubSeq(log, 1, k) \in Seq(Record) /\ Len(SubSeq(log, 1, k)) = k
           /\ \A i \in 1 .. k : SubSeq(log, 1, k)[i] = log[i]
  OBVIOUS

\* What is left without a torn tail: all of the log, or all but its last record.
LEMMA WholeLog ==
    ASSUME NEW log \in Seq(Record), \A i \in 1 .. Len(log) - 1 : log[i].whole
    PROVE  /\ Whole(log) \in Seq(Record)
           /\ Len(Whole(log)) \in 0 .. Len(log)
           /\ \A i \in 1 .. Len(Whole(log)) : Whole(log)[i] = log[i] /\ log[i].whole
           /\ \A i \in 1 .. Len(log) : log[i].whole => i <= Len(Whole(log))
           /\ (\A i \in 1 .. Len(log) : log[i].whole) => Whole(log) = log
<1>1. Len(log) \in Nat /\ (log # <<>> => Len(log) # 0) /\ (log = <<>> => Len(log) = 0)
  BY LogLength, EmptyLog, Zenon
<1>2. CASE log # <<>> /\ ~log[Len(log)].whole
  <2>1. Whole(log) = SubSeq(log, 1, Len(log) - 1) /\ Len(log) - 1 \in 0 .. Len(log)
    BY <1>1, <1>2 DEF Whole
  <2> QED
    BY <1>1, <1>2, <2>1, PrefixLog
<1>3. CASE log = <<>> \/ log[Len(log)].whole
  <2>1. Whole(log) = log
    BY <1>3, Zenon DEF Whole
  <2> QED
    BY <1>1, <1>3, <2>1
<1> QED
  BY <1>2, <1>3, Zenon

\* A record is appended ...
LEMMA AppendLog ==
    ASSUME NEW log \in Seq(Record), NEW r \in Record
    PROVE  /\ Append(log, r) \in Seq(Record) /\ Len(Append(log, r)) = Len(log) + 1
           /\ \A i \in 1 .. Len(log) : Append(log, r)[i] = log[i]
           /\ Append(log, r)[Len(log) + 1] = r /\ Append(log, r) # <<>>
  BY LogLength

\* ... and gets its newline.
LEMMA FlushLog ==
    ASSUME NEW log \in Seq(Record), log # <<>>
    PROVE  LET new == [log EXCEPT ![Len(log)].whole = TRUE]
           IN  /\ new \in Seq(Record) /\ Len(new) = Len(log) /\ new # <<>>
               /\ \A i \in 1 .. Len(log) : /\ i # Len(log) => new[i] = log[i]
                                           /\ new[i].seq = log[i].seq
                                           /\ new[i].frame = log[i].frame
               /\ new[Len(log)].whole
<1>1. Len(log) \in 1 .. Len(log) /\ Len(log) \in Nat /\ log \in [1 .. Len(log) -> Record]
  BY EmptyLog, LogLength
<1> DEFINE r == [log[Len(log)] EXCEPT !.whole = TRUE]
           new == [log EXCEPT ![Len(log)].whole = TRUE]
<1>2. log[Len(log)] \in Record
  BY <1>1, Zenon
<1>3. r \in Record /\ r.seq = log[Len(log)].seq /\ r.frame = log[Len(log)].frame /\ r.whole
  BY <1>2, Zenon DEF Record
<1>4. new = [log EXCEPT ![Len(log)] = r]
  BY <1>1, Zenon
<1> HIDE DEF r
<1>5. /\ [log EXCEPT ![Len(log)] = r] \in Seq(Record) /\ Len([log EXCEPT ![Len(log)] = r]) = Len(log)
      /\ \A j \in 1 .. Len(log) : [log EXCEPT ![Len(log)] = r][j] = IF j = Len(log) THEN r ELSE log[j]
  BY <1>1, <1>3, LogExcept, Zenon
<1> HIDE DEF new
<1>6. new # <<>>
  BY <1>1, <1>4, <1>5, EmptyLog, Zenon
<1>7. /\ new \in Seq(Record) /\ Len(new) = Len(log) /\ new # <<>>
               /\ \A i \in 1 .. Len(log) : /\ i # Len(log) => new[i] = log[i]
                                           /\ new[i].seq = log[i].seq
                                           /\ new[i].frame = log[i].frame
               /\ new[Len(log)].whole
  BY <1>1, <1>3, <1>4, <1>5, <1>6, Zenon
<1> QED
  BY <1>7 DEF new

-----------------------------------------------------------------------------
\* The log of a new store.
LEMMA LogInit == Init => LogInv
<1> SUFFICES ASSUME Init PROVE LogInv
  BY Zenon
<1>1. out = <<>> /\ Len(out) = 0 /\ out \in Seq(Record)
  BY EmptyLog, Zenon DEF Init
<1>2. op.at = "idle" /\ op.kind = "none" /\ index = NoIndex /\ accepted = NoFrame /\ synced = 0
  BY IdleRecord, Zenon DEF Init
<1> QED
  BY <1>1, <1>2 DEF LogInv, LogTypes, TailInv, WriteInv, ResetInv, IndexInv, NoIndex, NoFrame, At

\* Steps that leave the log and its index alone.
LEMMA LogQuiet ==
    ASSUME LogInv, UNCHANGED <<out, synced, index, accepted>>,
           op'.at \notin {"append", "fsync", "index"},
           op'.kind = "reset" => op.kind = "reset" /\ (op'.at = op.at \/ Persisting),
           stream' = "good" => \A i \in 1 .. Len(out) : out[i].whole
    PROVE  LogInv'
<1>1. LogTypes' /\ IndexInv'
  BY Zenon DEF LogInv, LogTypes, IndexInv
<1>2. TailInv' /\ WriteInv' /\ ResetInv'
  BY Zenon DEF LogInv, TailInv, WriteInv, ResetInv, Persisting, At
<1> QED
  BY <1>1, <1>2, Zenon DEF LogInv

\* rebuild_index.
LEMMA LogRebuilt ==
    ASSUME LogInv, rebuild_index, UNCHANGED accepted, op'.at = "idle", op'.kind = "none"
    PROVE  LogInv'
<1>1. out \in Seq(Record) /\ \A i \in 1 .. Len(out) - 1 : out[i].whole
  BY Zenon DEF LogInv, LogTypes, TailInv
<1>2. Len(out) \in Nat /\ synced \in 0 .. Len(out)
  BY LogLength, Zenon DEF LogInv, LogTypes
<1>3. out' = Whole(out) /\ index' = IndexOf(out)
      /\ synced' = IF synced < Len(Whole(out)) THEN synced ELSE Len(Whole(out))
  BY Zenon DEF rebuild_index
<1>4. /\ out' \in Seq(Record) /\ Len(out') \in 0 .. Len(out)
      /\ \A i \in 1 .. Len(out') : out'[i] = out[i] /\ out[i].whole
      /\ \A i \in 1 .. Len(out) : out[i].whole => i <= Len(out')
  BY <1>1, <1>3, WholeLog, Zenon
<1>5. LogTypes'
  BY <1>1, <1>2, <1>3, <1>4, IndexTyped DEF LogInv, LogTypes
<1>6. TailInv' /\ WriteInv' /\ ResetInv'
  BY <1>2, <1>4 DEF TailInv, WriteInv, ResetInv
<1>7. IndexInv'
  <2> SUFFICES ASSUME NEW n \in Seqs, index'[n] # 0
               PROVE  index'[n] \in 1 .. Len(out') /\ out'[index'[n]].whole /\ out'[index'[n]].seq = n
    BY Zenon DEF IndexInv
  <2>1. index'[n] \in 1 .. Len(out) /\ out[index'[n]].whole /\ out[index'[n]].seq = n
    BY <1>1, <1>2, <1>3, IndexPoints
  <2> QED
    BY <1>2, <1>4, <2>1
<1> QED
  BY <1>5, <1>6, <1>7, Zenon DEF LogInv

\* The log is cut, keeping every record the index points to.
LEMMA LogCut ==
    ASSUME LogInv, NEW k \in 0 .. Len(out), out' = SubSeq(out, 1, k), synced' \in 0 .. k,
           UNCHANGED accepted, op'.at \in {"idle", "down"}, op'.kind = "none", stream' # "good",
           \/ index' = NoIndex
           \/ index' = index /\ \A i \in 1 .. Len(out) : out[i].whole => i <= k
    PROVE  LogInv'
<1>1. out \in Seq(Record) /\ Len(out) \in Nat
  BY LogLength, Zenon DEF LogInv, LogTypes
<1>2. /\ out' \in Seq(Record) /\ Len(out') = k
      /\ \A i \in 1 .. k : out'[i] = out[i]
  BY <1>1, PrefixLog, Zenon
<1>3. LogTypes'
  BY <1>1, <1>2 DEF LogInv, LogTypes, NoIndex
<1>4. TailInv' /\ WriteInv' /\ ResetInv'
  BY <1>1, <1>2 DEF LogInv, TailInv, WriteInv, ResetInv
<1>5. IndexInv'
  <2>1. CASE index' = index /\ \A i \in 1 .. Len(out) : out[i].whole => i <= k
    <3> SUFFICES ASSUME NEW n \in Seqs, index[n] # 0
                 PROVE  index[n] \in 1 .. k /\ out'[index[n]].whole /\ out'[index[n]].seq = n
      BY <1>2, <2>1, Zenon DEF IndexInv
    <3>1. index[n] \in 1 .. Len(out) /\ out[index[n]].whole /\ out[index[n]].seq = n
      BY Zenon DEF LogInv, IndexInv
    <3>2. index[n] \in 1 .. k
      BY <1>1, <2>1, <3>1
    <3> QED
      BY <1>2, <3>1, <3>2, Zenon
  <2>2. CASE index' = NoIndex
    BY <2>2, Zenon DEF IndexInv, NoIndex
  <2> QED
    BY <2>1, <2>2, Zenon
<1> QED
  BY <1>3, <1>4, <1>5, Zenon DEF LogInv

\* store_outbound begins: the last record is whole, so the new one has a line of
\* its own.
LEMMA LogStore ==
    ASSUME NumInv, LogInv, NEW f \in Frames, store_outbound(f)
    PROVE  /\ LogInv'
           /\ out' = Append(out, [seq |-> pending, frame |-> f, whole |-> FALSE])
           /\ [seq |-> pending, frame |-> f, whole |-> FALSE] \in Record
<1> DEFINE r == [seq |-> pending, frame |-> f, whole |-> FALSE]
<1>0. op.at = "idle" /\ stream = "good" /\ pending \in Seqs
  BY FileStoreConstants DEF store_outbound, At, NumInv, Seqs
<1>1. out \in Seq(Record) /\ Len(out) \in Nat /\ (out # <<>> => Len(out) \in 1 .. Len(out))
  BY LogLength, EmptyLog DEF LogInv, LogTypes
<1>2. \A i \in 1 .. Len(out) : out[i].whole
  BY <1>0, Zenon DEF LogInv, TailInv, At
<1>3. r \in Record /\ r.seq = pending /\ r.frame = f /\ ~r.whole
  BY <1>0, Zenon DEF Record
<1>4. out' = Append(out, r)
  <2>1. out' = Put(out, r)
    BY Zenon DEF store_outbound
  <2>2. ~(out # <<>> /\ ~out[Len(out)].whole)
    BY <1>1, <1>2, Zenon
  <2> QED
    BY <2>1, <2>2, Zenon DEF Put
<1> HIDE DEF r
<1>5. /\ out' \in Seq(Record) /\ Len(out') = Len(out) + 1
      /\ \A i \in 1 .. Len(out) : out'[i] = out[i]
      /\ out'[Len(out) + 1] = r /\ out' # <<>>
  BY <1>1, <1>3, <1>4, AppendLog, ZenonT(30)
<1>6. /\ op'.at = "append" /\ op'.kind = "store" /\ op'.frame = f
      /\ UNCHANGED <<synced, index, stream, accepted, pending>>
  BY Begins, Zenon DEF store_outbound, object
<1>7. LogTypes'
  BY <1>1, <1>5, <1>6 DEF LogInv, LogTypes
<1>8. TailInv'
  BY <1>1, <1>2, <1>5, <1>6 DEF TailInv, At
<1>9. WriteInv' /\ ResetInv'
  BY <1>0, <1>1, <1>3, <1>5, <1>6 DEF LogInv, LogTypes, WriteInv, ResetInv, At
<1>10. IndexInv'
  BY <1>1, <1>5, <1>6 DEF LogInv, IndexInv
<1> QED
  BY <1>3, <1>4, <1>7, <1>8, <1>9, <1>10, Zenon DEF LogInv, r

\* The record is complete.
LEMMA LogFlushed ==
    ASSUME NumInv, OpInv, LogInv, Flushed
    PROVE  /\ LogInv' /\ out' \in Seq(Record) /\ Len(out') = Len(out) /\ Len(out) \in Nat \ {0}
           /\ \A i \in 1 .. Len(out) : /\ i # Len(out) => out'[i] = out[i]
                                       /\ out'[i].seq = out[i].seq /\ out'[i].frame = out[i].frame
           /\ out'[Len(out)].whole
<1>1. /\ op.at = "append" /\ op'.at \in {"fsync", "index"} /\ op'.kind = op.kind
      /\ op'.frame = op.frame
      /\ UNCHANGED <<synced, index, stream, accepted, pending>>
  BY OpSteps, Zenon DEF Flushed, NumInv, At, object, history
<1>2. out \in Seq(Record) /\ out # <<>> /\ Len(out) \in Nat \ {0}
  BY <1>1, EmptyLog, Zenon DEF LogInv, LogTypes, WriteInv
<1>3. /\ out' \in Seq(Record) /\ Len(out') = Len(out) /\ out' # <<>>
      /\ \A i \in 1 .. Len(out) : /\ i # Len(out) => out'[i] = out[i]
                                  /\ out'[i].seq = out[i].seq /\ out'[i].frame = out[i].frame
      /\ out'[Len(out)].whole
  BY <1>2, FlushLog, ZenonT(30) DEF Flushed
<1>4. LogTypes'
  BY <1>1, <1>2, <1>3, Zenon DEF LogInv, LogTypes
<1>5. TailInv'
  <2>1. ASSUME NEW i \in 1 .. Len(out) PROVE out'[i].whole
    <3>1. CASE i = Len(out)
      BY <1>3, <3>1, Zenon
    <3>2. CASE i # Len(out)
      <4>1. i \in 1 .. Len(out) - 1
        BY <1>2, <3>2
      <4> QED
        BY <1>3, <3>2, <4>1, Zenon DEF LogInv, TailInv
    <3> QED
      BY <3>1, <3>2, Zenon
  <2>2. 1 .. Len(out) - 1 \subseteq 1 .. Len(out)
    BY <1>2
  <2> QED
    BY <1>3, <2>1, <2>2, Zenon DEF TailInv
<1>6. WriteInv' /\ ResetInv'
  BY <1>1, <1>2, <1>3 DEF OpInv, LogInv, WriteInv, ResetInv, At
<1>7. IndexInv'
  BY <1>1, <1>2, <1>3, SMTT(30) DEF LogInv, IndexInv
<1> QED
  BY <1>2, <1>3, <1>4, <1>5, <1>6, <1>7, Zenon DEF LogInv

\* ... and indexed.
LEMMA LogIndexed ==
    ASSUME NumInv, LogInv, Index
    PROVE  LogInv'
<1>1. /\ op.at = "index" /\ op'.at = "idle" /\ op'.kind = "none" /\ UNCHANGED <<out, synced, stream>>
      /\ index' = [index EXCEPT ![pending] = Len(out)]
      /\ accepted' = [accepted EXCEPT ![pending] = op.frame]
  BY OpSteps, Zenon DEF Index, NumInv, At, files
<1>2. out \in Seq(Record) /\ out # <<>> /\ Len(out) \in Nat \ {0}
  BY <1>1, EmptyLog, Zenon DEF LogInv, LogTypes, WriteInv
<1>3. /\ pending \in Seqs /\ op.frame \in Frames /\ out[Len(out)].seq = pending
      /\ \A i \in 1 .. Len(out) : out[i].whole
  BY <1>1, Zenon DEF LogInv, WriteInv, TailInv, At
<1>4. LogTypes'
  BY <1>1, <1>2, <1>3, Zenon DEF LogInv, LogTypes
<1>5. TailInv' /\ WriteInv' /\ ResetInv'
  BY <1>1, <1>3, Zenon DEF LogInv, TailInv, WriteInv, ResetInv, At
<1>6. IndexInv'
  <2> SUFFICES ASSUME NEW n \in Seqs, index'[n] # 0
               PROVE  index'[n] \in 1 .. Len(out) /\ out[index'[n]].whole /\ out[index'[n]].seq = n
    BY <1>1, Zenon DEF IndexInv
  <2>1. index'[n] = IF n = pending THEN Len(out) ELSE index[n]
    BY <1>1, Zenon DEF LogInv, LogTypes
  <2> QED
    BY <1>2, <1>3, <2>1 DEF LogInv, IndexInv
<1> QED
  BY <1>4, <1>5, <1>6, Zenon DEF LogInv

\* Every step keeps the log in order.
LEMMA LogStep ==
    ASSUME NumInv, OpInv, StreamInv, LogInv, [Next]_vars
    PROVE  LogInv'
<1>0. op \in OpRecord
  BY Zenon DEF NumInv
<1>1. CASE UNCHANGED vars
  BY <1>1, ZenonT(30) DEF vars, LogInv, LogTypes, TailInv, WriteInv, ResetInv, IndexInv, Persisting, At
<1>2. CASE Kill
  <2>1. /\ op'.at = "down" /\ op'.kind = "none" /\ stream' = "shut" /\ index' = NoIndex
        /\ UNCHANGED <<out, synced, accepted>>
    BY <1>0, <1>2, OpSteps, Zenon DEF Kill, Die
  <2> QED
    BY <2>1, Zenon DEF LogInv, LogTypes, TailInv, WriteInv, ResetInv, IndexInv, NoIndex
<1>3. CASE PowerCut
  <2>1. PICK k \in synced .. Len(out) : out' = SubSeq(out, 1, k) /\ synced' = k
    BY <1>3, Zenon DEF PowerCut
  <2>2. /\ op'.at = "down" /\ op'.kind = "none" /\ stream' = "shut" /\ index' = NoIndex
        /\ UNCHANGED accepted
    BY <1>0, <1>3, OpSteps, Zenon DEF PowerCut, Die
  <2>3. k \in 0 .. Len(out) /\ k \in 0 .. k
    BY LogLength DEF LogInv, LogTypes
  <2> QED
    BY <2>1, <2>2, <2>3, LogCut, Zenon
<1>4. CASE Open \/ refresh
  <2>1. op'.at = "idle" /\ op'.kind = "none" /\ rebuild_index /\ UNCHANGED accepted
    BY <1>0, <1>4, OpSteps, Zenon DEF Open, refresh, history
  <2> QED
    BY <2>1, LogRebuilt, Zenon
<1>5. CASE refresh_fails
  <2>1. /\ op'.at = "idle" /\ op'.kind = "none" /\ index' = IndexOf(out)
        /\ UNCHANGED <<out, synced, stream, accepted>> /\ ~At("append")
    BY <1>0, <1>5, OpSteps, Zenon DEF refresh_fails, files, history, At
  <2>2. out \in Seq(Record) /\ Len(out) \in Nat
    BY LogLength, Zenon DEF LogInv, LogTypes
  <2>3. LogTypes' /\ TailInv' /\ WriteInv' /\ ResetInv'
    BY <2>1, <2>2, IndexTyped, Zenon DEF LogInv, LogTypes, TailInv, WriteInv, ResetInv, At
  <2>4. IndexInv'
    BY <2>1, <2>2, IndexPoints DEF IndexInv
  <2> QED
    BY <2>3, <2>4, Zenon DEF LogInv
<1>6. CASE \/ next_sender_seq_num_incr \/ set_next_sender_seq_num
           \/ \E n \in Seqs : set_next_target_seq_num(n) \/ advance_next_target_seq_num(n)
  <2>0. PICK kind \in Setters : \E new : Mutate(kind, new)
    BY <1>6, SetterMutates, Zenon
  <2>1. PICK new : Mutate(kind, new)
    BY <2>0, Zenon
  <2>2. /\ op.at = "idle" /\ op'.at = "persist" /\ op'.kind = kind
        /\ UNCHANGED <<out, synced, index, stream, accepted>>
    BY <2>1, Begins, Zenon DEF files, history
  <2> QED
    BY <2>2, LogQuiet, Zenon DEF Setters, LogInv, TailInv, At
<1>7. CASE OpenTmp \/ WriteTmp
  <2>1. /\ op.at \in {"persist", "write"} /\ op'.at \in {"write", "rename"} /\ op'.kind = op.kind
        /\ UNCHANGED <<out, synced, index, stream, accepted>>
    BY <1>0, <1>7, OpSteps, Zenon DEF OpenTmp, WriteTmp, At, object, history
  <2> QED
    BY <2>1, LogQuiet, Zenon DEF LogInv, TailInv, At, Persisting
<1>8. CASE Rename
  <2>1. /\ op.at = "rename" /\ op'.at = "idle" /\ op'.kind = "none"
        /\ UNCHANGED <<out, synced, index, accepted>>
        /\ op.kind = "reset" \/ UNCHANGED stream
    BY <1>0, <1>8, OpSteps, Zenon DEF Rename, At
  <2>2. op.kind = "reset" => out = <<>> /\ Len(out) = 0
    BY <2>1, EmptyLog, Zenon DEF LogInv, ResetInv, Persisting
  <2> QED
    BY <2>1, <2>2, LogQuiet DEF LogInv, TailInv, At
<1>9. CASE PersistFails \/ close_fails \/ reset_fails \/ store_outbound_refused
  <2>1. /\ op'.at = "idle" /\ op'.kind = "none" /\ UNCHANGED <<out, synced, index, stream, accepted>>
    BY <1>0, <1>9, OpSteps, Zenon DEF PersistFails, close_fails, reset_fails, store_outbound_refused,
                               files, object, history
  <2>2. op.at # "append"
    BY <1>9, Zenon DEF PersistFails, close_fails, reset_fails, store_outbound_refused, OpInv, At, Persisting
  <2> QED
    BY <2>1, <2>2, LogQuiet, Zenon DEF LogInv, TailInv, At
<1>10. ASSUME NEW f \in Frames, store_outbound(f) PROVE LogInv'
  BY <1>10, LogStore, Zenon
<1>11. CASE Flushed
  BY <1>11, LogFlushed, Zenon
<1>12. CASE WriteFails
  <2>1. /\ op.at = "append" /\ op'.at = "idle" /\ op'.kind = "none" /\ stream' = "bad"
        /\ out' \in {out, SubSeq(out, 1, Len(out) - 1)} /\ UNCHANGED <<synced, index, accepted>>
    BY <1>0, <1>12, OpSteps, Zenon DEF WriteFails, At
  <2>2. CASE out' = out
    BY <2>1, <2>2, LogQuiet, Zenon
  <2>3. CASE out' = SubSeq(out, 1, Len(out) - 1)
    <3>1. Len(out) \in Nat \ {0} /\ ~out[Len(out)].whole
      BY <2>1, EmptyLog, Zenon DEF LogInv, LogTypes, WriteInv, At
    <3>2. /\ Len(out) - 1 \in 0 .. Len(out) /\ synced \in 0 .. Len(out) - 1
          /\ \A i \in 1 .. Len(out) : out[i].whole => i <= Len(out) - 1
      BY <2>1, <3>1 DEF LogInv, LogTypes, WriteInv, At
    <3> QED
      BY <2>1, <2>3, <3>2, LogCut, Zenon
  <2> QED
    BY <2>1, <2>2, <2>3, Zenon
<1>13. CASE Fsynced
  <2>1. /\ op.at = "fsync" /\ op'.at = "index" /\ op'.kind = op.kind /\ op'.frame = op.frame
        /\ synced' = Len(out) /\ UNCHANGED <<out, index, stream, accepted, pending>>
    BY <1>0, <1>13, OpSteps, Zenon DEF Fsynced, At, object, history
  <2>2. Len(out) \in Nat
    BY LogLength, Zenon DEF LogInv, LogTypes
  <2> QED
    BY <2>1, <2>2 DEF OpInv, LogInv, LogTypes, TailInv, WriteInv, ResetInv, IndexInv, At
<1>14. CASE FsyncFails
  <2>1. /\ op.at = "fsync" /\ op'.at = "idle" /\ op'.kind = "none"
        /\ UNCHANGED <<out, synced, index, stream, accepted>>
    BY <1>0, <1>14, OpSteps, Zenon DEF FsyncFails, At, files, object
  <2> QED
    BY <2>1, LogQuiet, Zenon DEF LogInv, TailInv, At
<1>15. CASE Index
  BY <1>15, LogIndexed, Zenon
<1>16. CASE reset
  <2>1. /\ op'.at = "truncate" /\ op'.kind = "reset" /\ stream' = "shut" /\ index' = NoIndex
        /\ accepted' = NoFrame /\ UNCHANGED <<out, synced>>
    BY <1>16, Begins, Zenon DEF reset, files
  <2>2. LogTypes' /\ IndexInv'
    BY <2>1, Zenon DEF LogInv, LogTypes, IndexInv, NoIndex, NoFrame
  <2> QED
    BY <2>1, <2>2, Zenon DEF LogInv, TailInv, WriteInv, ResetInv, Persisting
<1>17. CASE Truncate
  <2>1. /\ op.at = "truncate" /\ op'.at = "persist" /\ op'.kind = op.kind /\ out' = <<>> /\ synced' = 0
        /\ UNCHANGED <<index, stream, accepted>>
    BY <1>0, <1>17, OpSteps, Zenon DEF Truncate, At, object
  <2>2. out' \in Seq(Record) /\ Len(out') = 0
    BY <2>1, EmptyLog, Zenon
  <2>3. op.kind = "reset" /\ index = NoIndex
    BY <2>1, Zenon DEF OpInv, LogInv, ResetInv, At
  <2>4. LogTypes' /\ IndexInv'
    BY <2>1, <2>2, <2>3 DEF LogInv, LogTypes, IndexInv, NoIndex
  <2> QED
    BY <2>1, <2>2, <2>3, <2>4 DEF LogInv, TailInv, WriteInv, ResetInv
<1>18. CASE close
  <2>1. /\ op'.at = "persist" /\ op'.kind = "close" /\ stream' = "shut" /\ synced' \in {synced, Len(out)}
        /\ UNCHANGED <<out, index, accepted>>
    BY <1>18, Begins, Zenon DEF close, history
  <2>2. Len(out) \in Nat
    BY LogLength, Zenon DEF LogInv, LogTypes
  <2>3. LogTypes' /\ IndexInv'
    BY <2>1, <2>2 DEF LogInv, LogTypes, IndexInv
  <2> QED
    BY <2>1, <2>3, Zenon DEF LogInv, TailInv, WriteInv, ResetInv
<1> QED
  BY <1>1, <1>2, <1>3, <1>4, <1>5, <1>6, <1>7, <1>8, <1>9, <1>10, <1>11, <1>12, <1>13, <1>14, <1>15,
     <1>16, <1>17, <1>18, Zenon DEF Next

-----------------------------------------------------------------------------
\* The counters are numbers the arithmetic of the setters applies to.
LEMMA Counters ==
    ASSUME NumInv
    PROVE  /\ mem.sender \in Nat /\ op.prev.sender \in Nat /\ pending \in Nat
           /\ load_seqs(seqfile).sender \in Nat
<1>1. load_seqs(seqfile) \in Numbers
  BY LoadPositive, Zenon DEF NumInv, SeqFileAlwaysLoads
<1> QED
  BY <1>1, FileStoreConstants DEF NumInv, Positive, OpRecord, Numbers

\* A new store has claimed and accepted nothing.
LEMMA ClaimInit == Init => ClaimInv /\ SpentInv
  BY IdleRecord, Zenon DEF Init, ClaimInv, SpentInv, NoFrame, At

\* Steps that leave the counters and the claim alone.
LEMMA ClaimQuiet ==
    ASSUME NumInv, ClaimInv, SpentInv,
           mem' \in {mem, load_seqs(seqfile)}, UNCHANGED <<seqfile, accepted>>, pending' \in {pending, 0},
           ~Persisting \/ (op.kind = "close" /\ mem' = mem),
           op'.kind \in {"none", "store"}, op'.at \in {"idle", "append", "fsync", "index"},
           At("down") => mem' = load_seqs(seqfile),
           op.kind \notin Setters
    PROVE  ClaimInv' /\ SpentInv'
<1>1. load_seqs(seqfile)' = load_seqs(seqfile)
  BY Zenon DEF load_seqs
<1>2. ClaimInv'
  BY <1>1, Zenon DEF ClaimInv, Setters, At, load_seqs
<1>3. SpentInv'
  BY <1>1, Zenon DEF SpentInv, Below, Persisting, At, load_seqs
<1> QED
  BY <1>2, <1>3, Zenon

\* A setter or close begins.
LEMMA ClaimBegins ==
    ASSUME NumInv, OpInv, ClaimInv, SpentInv, op.at = "idle", UNCHANGED <<seqfile, pending, accepted>>,
           op'.at = "persist", op'.prev = mem,
           \/ op'.kind = "claim" /\ pending = 0 /\ mem'.sender = mem.sender + 1
           \/ op'.kind = "giveback" /\ pending # 0 /\ mem'.sender = pending
           \/ op'.kind \in {"target", "advance", "close"} /\ mem'.sender = mem.sender
    PROVE  ClaimInv' /\ SpentInv'
<1>1. load_seqs(seqfile)' = load_seqs(seqfile)
  BY Zenon DEF load_seqs
<1>0. mem.sender \in Nat /\ pending \in Nat /\ op.kind \in {"none", "store"}
  BY Counters, Zenon DEF OpInv
<1>2. ClaimInv'
  BY <1>0, <1>1, Zenon DEF ClaimInv, At
<1>3. SpentInv'
  <2> SUFFICES ASSUME NEW n \in Seqs, accepted[n] # "none" PROVE Below(n)'
    BY Zenon DEF SpentInv
  <2>1. Below(n) /\ n \in Nat
    BY DEF SpentInv, Seqs
  <2> QED
    BY <1>0, <1>1, <2>1 DEF Below, At, Persisting
<1> QED
  BY <1>2, <1>3, Zenon

\* persist_seqs takes effect: the sequence file holds the numbers in memory.
LEMMA ClaimRename ==
    ASSUME NumInv, OpInv, ClaimInv, SpentInv, Rename
    PROVE  ClaimInv' /\ SpentInv'
<1>1. /\ op'.kind = "none" /\ op'.at = "idle" /\ mem' = mem /\ UNCHANGED accepted
      /\ load_seqs(seqfile)' = mem
  <2>1. op'.kind = "none" /\ op'.at = "idle" /\ mem' = mem /\ UNCHANGED accepted
        /\ seqfile' = Holding(mem)
    BY OpSteps, Zenon DEF Rename, NumInv
  <2> QED
    BY <2>1, HoldingLoads, Zenon DEF NumInv, load_seqs
<1>2. Persisting /\ op.kind \in Setters \cup {"reset", "close"} /\ ~At("down")
  BY Zenon DEF Rename, At, Persisting, OpInv
<1>3. mem.sender \in Nat /\ op.prev.sender \in Nat /\ pending \in Nat
  BY Counters, Zenon
<1>4. /\ op.kind = "claim" => pending' = op.prev.sender
      /\ op.kind = "giveback" => pending' = 0
      /\ op.kind \notin {"claim", "giveback"} => pending' = pending
  BY Zenon DEF Rename, Persisted
<1>5. ClaimInv'
  BY <1>1, <1>2, <1>3, <1>4 DEF ClaimInv, At, Setters
<1>6. SpentInv'
  <2> SUFFICES ASSUME NEW n \in Seqs, accepted[n] # "none" PROVE Below(n)'
    BY <1>1, Zenon DEF SpentInv
  <2>1. Below(n) /\ n \in Nat
    BY DEF SpentInv, Seqs
  <2> QED
    BY <1>1, <1>2, <1>3, <1>4, <2>1, Zenon DEF Below, At, Persisting, ClaimInv
<1> QED
  BY <1>5, <1>6, Zenon

\* Every step keeps the accepted numbers below those still to be claimed.
LEMMA ClaimStep ==
    ASSUME NumInv, OpInv, StreamInv, LogInv, ClaimInv, SpentInv, [Next]_vars
    PROVE  ClaimInv' /\ SpentInv'
<1>0. op \in OpRecord /\ mem \in Numbers
  BY Zenon DEF NumInv, Positive
<1>c. mem.sender \in Nat /\ op.prev.sender \in Nat /\ pending \in Nat
  BY Counters, Zenon
<1>1. CASE UNCHANGED vars
  BY <1>1, Zenon DEF vars, ClaimInv, SpentInv, Below, Persisting, At, load_seqs
<1>2. CASE Kill \/ PowerCut
  <2>1. op'.kind = "none" /\ op'.at = "down" /\ pending' = 0 /\ UNCHANGED <<seqfile, accepted>>
    BY <1>0, <1>2, OpSteps, Zenon DEF Kill, PowerCut, Die
  <2> QED
    BY <2>1, Zenon DEF ClaimInv, SpentInv, Below, Persisting, At, load_seqs
<1>3. CASE Open \/ refresh \/ refresh_fails
  <2>1. /\ mem' = load_seqs(seqfile) /\ op'.kind = "none" /\ op'.at = "idle"
        /\ UNCHANGED <<seqfile, accepted, pending>> /\ op.at \in {"idle", "down"}
    BY <1>0, <1>3, OpSteps, Zenon DEF Open, refresh, refresh_fails, history, files, At
  <2> QED
    BY <2>1, ClaimQuiet, Zenon DEF OpInv, Persisting, Setters
<1>4. CASE next_sender_seq_num_incr
  <2>1. Mutate("claim", [mem EXCEPT !.sender = @ + 1]) /\ pending = 0
    BY <1>4, Zenon DEF next_sender_seq_num_incr
  <2>2. [mem EXCEPT !.sender = @ + 1].sender = mem.sender + 1
    BY <1>0, Zenon DEF Numbers
  <2>3. /\ op.at = "idle" /\ op'.at = "persist" /\ op'.kind = "claim" /\ op'.prev = mem
        /\ mem'.sender = mem.sender + 1 /\ UNCHANGED <<seqfile, pending, accepted>>
    BY <2>1, <2>2, Begins, Zenon DEF files, history
  <2> QED
    BY <2>1, <2>3, ClaimBegins, Zenon
<1>5. CASE set_next_sender_seq_num
  <2>1. Mutate("giveback", [mem EXCEPT !.sender = pending]) /\ pending # 0
    BY <1>5, Zenon DEF set_next_sender_seq_num
  <2>2. [mem EXCEPT !.sender = pending].sender = pending
    BY <1>0, Zenon DEF Numbers
  <2>3. /\ op.at = "idle" /\ op'.at = "persist" /\ op'.kind = "giveback" /\ op'.prev = mem
        /\ mem'.sender = pending /\ UNCHANGED <<seqfile, pending, accepted>>
    BY <2>1, <2>2, Begins, Zenon DEF files, history
  <2> QED
    BY <2>1, <2>3, ClaimBegins, Zenon
<1>6. ASSUME NEW n \in Seqs, set_next_target_seq_num(n) \/ advance_next_target_seq_num(n)
      PROVE  ClaimInv' /\ SpentInv'
  <2> DEFINE new == [mem EXCEPT !.target = n]
  <2>1. PICK k \in {"target", "advance"} : Mutate(k, new)
    BY <1>6, Zenon DEF set_next_target_seq_num, advance_next_target_seq_num
  <2>2. new.sender = mem.sender
    BY <1>0, Zenon DEF Numbers
  <2> HIDE DEF new
  <2>3. /\ op.at = "idle" /\ op'.at = "persist" /\ op'.kind = k /\ op'.prev = mem
        /\ mem'.sender = mem.sender /\ UNCHANGED <<seqfile, pending, accepted>>
    BY <2>1, <2>2, Begins, Zenon DEF files, history
  <2> QED
    BY <2>3, ClaimBegins, Zenon
<1>7. CASE OpenTmp \/ WriteTmp \/ Truncate
  <2>1. /\ op.at \in {"truncate", "persist", "write"} /\ op'.at \in {"persist", "write", "rename"}
        /\ op'.kind = op.kind /\ op'.prev = op.prev
        /\ UNCHANGED <<seqfile, mem, pending, accepted>>
    BY <1>0, <1>7, OpSteps, Zenon DEF OpenTmp, WriteTmp, Truncate, At, object, history
  <2>2. op.at = "truncate" => accepted = NoFrame
    BY Zenon DEF OpInv, LogInv, ResetInv, At
  <2>3. ClaimInv'
    BY <2>1, Zenon DEF ClaimInv, At, load_seqs
  <2>4. SpentInv'
    BY <2>1, <2>2, Zenon DEF SpentInv, Below, Persisting, At, load_seqs, NoFrame
  <2> QED
    BY <2>3, <2>4, Zenon
<1>8. CASE Rename
  BY <1>8, ClaimRename, Zenon
<1>9. CASE PersistFails
  <2>1. /\ Persisting /\ op.kind \in Setters /\ op'.kind = "none" /\ op'.at = "idle" /\ mem' = op.prev
        /\ pending' = (IF op.kind = "giveback" THEN 0 ELSE pending) /\ UNCHANGED <<seqfile, accepted>>
    BY <1>0, <1>9, OpSteps, Zenon DEF PersistFails, OpInv
  <2>2. ClaimInv'
    BY <2>1, <1>c, Zenon DEF ClaimInv, At, Setters, load_seqs, Persisting
  <2>3. SpentInv'
    BY <2>1, Zenon DEF SpentInv, Below, Persisting, At, load_seqs
  <2> QED
    BY <2>2, <2>3, Zenon
<1>10. ASSUME NEW f \in Frames, store_outbound(f) PROVE ClaimInv' /\ SpentInv'
  <2>1. /\ op.at = "idle" /\ op'.kind = "store" /\ op'.at = "append"
        /\ UNCHANGED <<seqfile, mem, pending, accepted>>
    BY <1>10, Begins, Zenon DEF store_outbound, At, object
  <2> QED
    BY <2>1, ClaimQuiet, Zenon DEF OpInv, Persisting, Setters, At
<1>11. CASE store_outbound_refused \/ WriteFails \/ FsyncFails
  <2>1. /\ op.at \in {"idle", "append", "fsync"} /\ op'.kind = "none" /\ op'.at = "idle"
        /\ UNCHANGED <<seqfile, mem, pending, accepted>>
    BY <1>0, <1>11, OpSteps, Zenon DEF store_outbound_refused, WriteFails, FsyncFails, At, object, files
  <2> QED
    BY <2>1, ClaimQuiet, Zenon DEF OpInv, Persisting, Setters, At
<1>12. CASE Flushed \/ Fsynced
  <2>1. /\ op.at \in {"append", "fsync"} /\ op'.kind = op.kind /\ op'.at \in {"fsync", "index"}
        /\ UNCHANGED <<seqfile, mem, pending, accepted>>
    BY <1>0, <1>12, OpSteps, Zenon DEF Flushed, Fsynced, At, object, history
  <2> QED
    BY <2>1, ClaimQuiet, Zenon DEF OpInv, Persisting, Setters, At
<1>13. CASE Index
  <2>1. /\ op.at = "index" /\ op'.kind = "none" /\ op'.at = "idle" /\ pending' = 0
        /\ accepted' = [accepted EXCEPT ![pending] = op.frame] /\ UNCHANGED <<seqfile, mem>>
    BY <1>0, <1>13, OpSteps, Zenon DEF Index, At, files
  <2>2. pending \in Seqs /\ op.kind \in {"none", "store"} /\ pending # 0
    <3>1. op.kind \in {"none", "store"}
      BY <2>1, Zenon DEF OpInv
    <3>2. pending \in Seqs /\ pending # 0
      BY <2>1 DEF LogInv, WriteInv, Seqs
    <3> QED
      BY <3>1, <3>2, Zenon
  <2>3. ClaimInv'
    BY <2>1, Zenon DEF ClaimInv, At
  <2>4. SpentInv'
    <3> SUFFICES ASSUME NEW n \in Seqs, accepted'[n] # "none" PROVE Below(n)'
      BY Zenon DEF SpentInv
    <3>1. CASE n = pending
      BY <2>1, <2>2, <3>1, Zenon DEF ClaimInv, Below, At, Persisting, load_seqs
    <3>2. CASE n # pending
      <4>1. accepted[n] # "none"
        BY <2>1, <3>2, Zenon DEF LogInv, LogTypes
      <4> QED
        BY <2>1, <4>1, Zenon DEF SpentInv, Below, At, Persisting, load_seqs
    <3> QED
      BY <3>1, <3>2, Zenon
  <2> QED
    BY <2>3, <2>4, Zenon
<1>14. CASE reset
  <2>1. /\ op'.at = "truncate" /\ op'.kind = "reset" /\ accepted' = NoFrame
        /\ pending = 0 /\ pending' = 0
    BY <1>14, Begins, Zenon DEF reset
  <2> QED
    BY <2>1, Zenon DEF ClaimInv, SpentInv, NoFrame, At
<1>15. CASE reset_fails
  <2>1. /\ op.kind = "reset" /\ op'.kind = "none" /\ op'.at = "idle"
        /\ UNCHANGED <<seqfile, mem, pending, accepted>>
    BY <1>0, <1>15, OpSteps, Zenon DEF reset_fails, object, history
  <2>2. accepted = NoFrame /\ pending = 0
    BY <2>1, Zenon DEF LogInv, ResetInv, ClaimInv
  <2> QED
    BY <2>1, <2>2, Zenon DEF ClaimInv, SpentInv, NoFrame, At
<1>16. CASE close
  <2>1. /\ op.at = "idle" /\ op'.kind = "close" /\ op'.at = "persist" /\ op'.prev = mem
        /\ mem' = mem /\ UNCHANGED <<seqfile, pending, accepted>>
    BY <1>16, Begins, Zenon DEF close, At, history
  <2> QED
    BY <2>1, ClaimBegins, Zenon
<1>17. CASE close_fails
  <2>1. /\ Persisting /\ op.kind = "close" /\ op'.kind = "none" /\ op'.at = "idle"
        /\ UNCHANGED <<seqfile, mem, pending, accepted>>
    BY <1>0, <1>17, OpSteps, Zenon DEF close_fails, history
  <2> QED
    BY <2>1, ClaimQuiet, Zenon DEF Persisting, Setters, At
<1> QED
  BY <1>1, <1>2, <1>3, <1>4, <1>5, <1>6, <1>7, <1>8, <1>9, <1>10, <1>11, <1>12, <1>13, <1>14, <1>15,
     <1>16, <1>17, Zenon DEF Next
=============================================================================
