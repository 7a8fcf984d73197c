------------------------------ MODULE AuditLog ------------------------------
(***************************************************************************)
(* FileAuditLog (src/log/message_log.cpp): callers queue entries, one      *)
(* writer thread takes them off the queue and appends them to a file, and  *)
(* flush() waits for the writer to acknowledge a token.  Entries are       *)
(* numbered in the order log() is called; files, across rotations, are one *)
(* sequence.                                                               *)
(***************************************************************************)
EXTENDS Integers, Sequences

CONSTANTS Callers,     \* the threads that call log, flush and rotate
          MaxQueue,    \* Config::max_queue
          MaxSize,     \* entries after which a file is rotated
          Faults,      \* what may fail: "write", "flush", "open"
          MaxEntries, MaxFlushes,  \* bounds on the calls made
          MaxFailures              \* and on the steps that fail

ASSUME AuditLogConstants ==
    /\ MaxQueue \in Nat \ {0} /\ MaxSize \in Nat \ {0}
    /\ {MaxEntries, MaxFlushes, MaxFailures} \subseteq Nat
    /\ Faults \subseteq {"write", "flush", "open"}

VARIABLES queue, flush_req, flush_done, running,   \* under queue_mutex_
          file, buf, disk, size,                   \* under file_mutex_
          failed, failures,                        \* history: what has failed, and how often
          dropped, write_errors,                   \* the counters
          w, cur,                                  \* the writer: where it is, its entry
          pc, token,                               \* the callers, and their flush token
          life,                                    \* of the object
          logged,                                  \* calls of log so far
          before                                   \* history: logged when t called flush

fileVars == <<file, buf, disk, size, failed, failures>>
queueVars == <<queue, flush_req, flush_done, running>>
callerVars == <<pc, token, before, logged>>
vars == <<queue, flush_req, flush_done, running, file, buf, disk, size, failed, failures,
          dropped, write_errors, w, cur, pc, token, life, logged, before>>

\* file is "open", "bad" (open, with the stream in a failed state) or "shut".
Init ==
    /\ queue = <<>> /\ flush_req = 0 /\ flush_done = 0 /\ running = TRUE
    /\ file = "open" /\ buf = <<>> /\ disk = <<>> /\ size = 0
    /\ failed = {} /\ failures = 0
    /\ dropped = 0 /\ write_errors = 0
    /\ w = "check" /\ cur = <<>>
    /\ pc = [t \in Callers |-> "idle"]
    /\ token = [t \in Callers |-> 0]
    /\ before = [t \in Callers |-> 0]
    /\ life = "alive" /\ logged = 0

\* The writer holds queue_mutex_.
Locked == w \in {"check", "sleepy", "drain"}

At(t, from, to) == pc[t] = from /\ pc' = [pc EXCEPT ![t] = to]

\* cv_.notify.
Notified == IF w = "blocked" THEN "woken" ELSE w

----------------------------------------------------------------------------
(* The callers. *)

\* log: a new entry is dropped, and counted, when the queue is full.
Log(t) ==
    /\ life = "alive" /\ ~Locked /\ logged < MaxEntries
    /\ logged' = logged + 1
    /\ \/ /\ Len(queue) >= MaxQueue
          /\ dropped' = dropped + 1
          /\ pc[t] = "idle"
          /\ UNCHANGED <<queue, pc>>
       \/ /\ Len(queue) < MaxQueue
          /\ queue' = Append(queue, logged + 1)
          /\ At(t, "idle", "notify")
          /\ UNCHANGED dropped
    /\ UNCHANGED <<flush_req, flush_done, running, fileVars, write_errors, w, cur, token,
                   life, before>>

\* ... and the writer is notified after the unlock.
LogNotify(t) ==
    /\ At(t, "notify", "idle")
    /\ w' = Notified
    /\ UNCHANGED <<queueVars, fileVars, dropped, write_errors, cur, token, life, logged, before>>

FlushRequest(t) ==
    /\ life = "alive" /\ ~Locked /\ flush_req < MaxFlushes
    /\ At(t, "idle", "flush_notify")
    /\ flush_req' = flush_req + 1
    /\ token' = [token EXCEPT ![t] = flush_req + 1]
    /\ before' = [before EXCEPT ![t] = logged]
    /\ UNCHANGED <<queue, flush_done, running, fileVars, dropped, write_errors, w, cur,
                   life, logged>>

FlushNotify(t) ==
    /\ At(t, "flush_notify", "flush_wait")
    /\ w' = Notified
    /\ UNCHANGED <<queueVars, fileVars, dropped, write_errors, cur, token, life, logged, before>>

\* cv_flush_.wait: return, or block until the writer notifies.
FlushWait(t) ==
    /\ ~Locked
    /\ \/ /\ flush_done >= token[t] /\ At(t, "flush_wait", "idle")
          /\ token' = [token EXCEPT ![t] = 0] /\ before' = [before EXCEPT ![t] = 0]
       \/ /\ flush_done < token[t] /\ At(t, "flush_wait", "flush_blocked")
          /\ UNCHANGED <<token, before>>
    /\ UNCHANGED <<queueVars, fileVars, dropped, write_errors, w, cur, life, logged>>

\* cv_flush_.notify_all.
FlushersWoken == [t \in Callers |-> IF pc[t] = "flush_blocked" THEN "flush_wait" ELSE pc[t]]

\* What is in f fails now.
Failing(f) ==
    /\ f \subseteq Faults
    /\ f # {} => failures < MaxFailures
    /\ failed' = failed \cup f
    /\ failures' = IF f = {} THEN failures ELSE failures + 1

\* Flush and close the file, b being in its buffer and d written out; what the
\* stream cannot write out is gone.
CloseFile(b, d, f) ==
    /\ "flush" \in f => file # "shut" /\ b # <<>>
    /\ buf' = <<>>
    /\ disk' = IF file = "shut" \/ "flush" \in f THEN d ELSE d \o b

rotate_locked(b, d) ==
    \E f \in SUBSET {"flush", "open"} :
        /\ Failing(f)
        /\ CloseFile(b, d, f)
        /\ file' = IF "open" \in f THEN "shut" ELSE "open"
        /\ size' = 0

rotate ==
    /\ life = "alive"
    /\ rotate_locked(buf, disk)
    /\ UNCHANGED <<queueVars, dropped, write_errors, w, cur, callerVars, life>>

\* Faulty variant: the flag and the notification are not under queue_mutex_.
Destroy_unlocked ==
    /\ life = "alive" /\ \A t \in Callers : pc[t] = "idle"
    /\ life' = "joining"
    /\ running' = FALSE
    /\ w' = Notified
    /\ UNCHANGED <<queue, flush_req, flush_done, fileVars, dropped, write_errors, cur,
                   callerVars>>

\* ~FileAuditLog, once no call is in progress ...
Destroy ==
    /\ life = "alive" /\ \A t \in Callers : pc[t] = "idle"
    /\ ~Locked
    /\ life' = "joining"
    /\ running' = FALSE
    /\ w' = Notified
    /\ UNCHANGED <<queue, flush_req, flush_done, fileVars, dropped, write_errors, cur,
                   callerVars>>

\* ... which joins the writer and closes the file.
Join ==
    /\ life = "joining" /\ w = "done"
    /\ life' = "gone"
    /\ \E f \in SUBSET {"flush"} : Failing(f) /\ CloseFile(buf, disk, f)
    /\ file' = "shut"
    /\ UNCHANGED <<queueVars, size, dropped, write_errors, w, cur, callerVars>>

----------------------------------------------------------------------------
(* The writer: write_loop and write_entry. *)

\* The predicate of cv_.wait, evaluated under the lock.
Evaluate ==
    /\ w \in {"check", "woken"}
    /\ w' = IF queue # <<>> \/ flush_req > flush_done \/ ~running THEN "drain" ELSE "sleepy"
    /\ UNCHANGED <<queueVars, fileVars, dropped, write_errors, cur, callerVars, life>>

Block ==
    /\ w = "sleepy" /\ w' = "blocked"
    /\ UNCHANGED <<queueVars, fileVars, dropped, write_errors, cur, callerVars, life>>

Pop ==
    /\ w = "drain" /\ queue # <<>>
    /\ w' = "write"
    /\ cur' = <<Head(queue)>> /\ queue' = Tail(queue)
    /\ UNCHANGED <<flush_req, flush_done, running, fileVars, dropped, write_errors,
                   callerVars, life>>

\* write_entry appends the entry to the stream's buffer and rotates at max_size.
Write ==
    /\ w = "write" /\ w' = "relock" /\ file = "open"
    /\ IF size + 1 >= MaxSize
       THEN rotate_locked(buf \o cur, disk)
       ELSE buf' = buf \o cur /\ size' = size + 1 /\ UNCHANGED <<file, disk, failed, failures>>
    /\ cur' = <<>>
    /\ UNCHANGED <<queueVars, dropped, write_errors, callerVars, life>>

\* Faulty variant: the loss is not counted.
WriteFails_uncounted ==
    /\ w = "write" /\ w' = "relock"
    /\ \/ file = "bad" /\ UNCHANGED <<failed, failures>>
       \/ file = "open" /\ Failing({"write"})
    /\ file' = "open"
    /\ cur' = <<>>
    /\ UNCHANGED <<queueVars, buf, disk, size, dropped, write_errors, callerVars, life>>

\* The append fails, is counted, and the stream is usable again.
WriteFails ==
    /\ w = "write" /\ w' = "relock"
    /\ \/ file = "bad" /\ UNCHANGED <<failed, failures>>
       \/ file = "open" /\ Failing({"write"})
    /\ write_errors' = write_errors + 1
    /\ file' = "open"
    /\ cur' = <<>>
    /\ UNCHANGED <<queueVars, buf, disk, size, dropped, callerVars, life>>

\* No file is open: the entry is counted as dropped.
WriteDropped ==
    /\ w = "write" /\ w' = "relock" /\ file = "shut"
    /\ dropped' = dropped + 1
    /\ cur' = <<>>
    /\ UNCHANGED <<queueVars, fileVars, write_errors, callerVars, life>>

Relock ==
    /\ w = "relock" /\ w' = "drain"
    /\ pc' = FlushersWoken
    /\ UNCHANGED <<queueVars, fileVars, dropped, write_errors, cur, token, before, logged, life>>

\* The end of an iteration.
LeaveOrLoop(done) ==
    w' = IF ~running /\ queue = <<>> /\ flush_req = done THEN "done" ELSE "check"

Drained ==
    /\ w = "drain" /\ queue = <<>>
    /\ IF flush_req > flush_done THEN w' = "flush" ELSE LeaveOrLoop(flush_done)
    /\ UNCHANGED <<queueVars, fileVars, dropped, write_errors, cur, callerVars, life>>

\* out_.flush(): a failure leaves the entries in the buffer and the stream bad.
FileFlush ==
    /\ w = "flush" /\ w' = "ack"
    /\ \/ /\ file = "open" /\ disk' = disk \o buf /\ buf' = <<>>
          /\ UNCHANGED <<file, failed, failures>>
       \/ /\ file = "open" /\ Failing({"flush"}) /\ file' = "bad"
          /\ UNCHANGED <<disk, buf>>
       \/ file # "open" /\ UNCHANGED <<disk, buf, file, failed, failures>>
    /\ UNCHANGED <<queueVars, size, dropped, write_errors, cur, callerVars, life>>

\* Faulty variant: what was queued during the file flush is overlooked.
Ack_unchecked ==
    /\ w = "ack"
    /\ flush_done' = flush_req /\ pc' = FlushersWoken /\ LeaveOrLoop(flush_req)
    /\ UNCHANGED <<queue, flush_req, running, fileVars, dropped, write_errors, cur, token,
                   before, logged, life>>

\* The requests are acknowledged unless more entries came in meanwhile.
Ack ==
    /\ w = "ack"
    /\ IF queue = <<>>
       THEN flush_done' = flush_req /\ pc' = FlushersWoken /\ LeaveOrLoop(flush_req)
       ELSE w' = "check" /\ UNCHANGED <<flush_done, pc>>
    /\ UNCHANGED <<queue, flush_req, running, fileVars, dropped, write_errors, cur, token,
                   before, logged, life>>

Writer ==
    \/ Evaluate
    \/ Block
    \/ Pop
    \/ Write
    \/ WriteFails
    \/ WriteDropped
    \/ Relock
    \/ Drained
    \/ FileFlush
    \/ Ack

Next ==
    \/ \E t \in Callers :
           \/ Log(t)
           \/ LogNotify(t)
           \/ FlushRequest(t)
           \/ FlushNotify(t)
           \/ FlushWait(t)
    \/ rotate
    \/ Destroy
    \/ Join
    \/ Writer

\* The writer runs, and a caller inside a call goes on; nobody has to call.
Spec ==
    /\ Init
    /\ [][Next]_vars
    /\ WF_vars(Writer)
    /\ WF_vars(Join)
    /\ \A t \in Callers :
           WF_vars(LogNotify(t)) /\ WF_vars(FlushNotify(t)) /\ WF_vars(FlushWait(t))

----------------------------------------------------------------------------
\* The queue of log() is bounded by max_queue, a file by max_size, and no token is
\* acknowledged before it is issued.
TypeOK ==
    /\ queue \in Seq(1 .. MaxEntries) /\ Len(queue) <= MaxQueue
    /\ flush_done \in 0 .. flush_req /\ flush_req \in 0 .. MaxFlushes
    /\ running \in BOOLEAN /\ file \in {"open", "bad", "shut"}
    /\ buf \in Seq(1 .. MaxEntries) /\ disk \in Seq(1 .. MaxEntries)
    /\ size \in 0 .. MaxSize - 1
    /\ {dropped, write_errors, logged} \subseteq 0 .. MaxEntries
    /\ life \in {"alive", "joining", "gone"}

\* On disk, in the stream's buffer, in the writer's hands, in the queue.
Entries == disk \o buf \o cur \o queue

\* No entry is lost silently, repeated or reordered: what log() was given is in
\* one of the four places, in the order given, or is counted in dropped() or in
\* write_errors(), unless a write-out of the file's buffer failed, which the
\* code does not count.
EveryEntryAccounted ==
    /\ \A i, j \in 1 .. Len(Entries) : i < j => Entries[i] < Entries[j]
    /\ "flush" \notin failed => logged = Len(Entries) + dropped + write_errors

\* "every entry queued before a flush() call is then guaranteed to be on disk
\* when it returns", or counted as lost, unless a write-out of the file's buffer
\* failed.
FlushKeepsPromise ==
    [][\A t \in Callers :
          (pc[t] = "flush_wait" /\ pc'[t] = "idle" /\ "flush" \notin failed) =>
              \A i \in 1 .. Len(Entries) : Entries[i] <= before[t] => i <= Len(disk)]_vars

\* flush() returns: the token is acknowledged and the wake-up is not lost.  The
\* destructor ends: the writer sees running_ go down, drains and leaves.
CallsReturn ==
    /\ \A t \in Callers :
           (pc[t] \in {"flush_notify", "flush_wait", "flush_blocked"}) ~> (pc[t] = "idle")
    /\ (life = "joining") ~> (life = "gone" /\ queue = <<>> /\ buf = <<>>)
=============================================================================
