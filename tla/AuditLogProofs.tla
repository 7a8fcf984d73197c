--------------------------- MODULE AuditLogProofs ---------------------------
(***************************************************************************)
(* EveryEntryAccounted and FlushKeepsPromise of AuditLog, for any number   *)
(* of callers, any size of the queue and of a file, and any number of      *)
(* entries, flushes and failures.                                          *)
(***************************************************************************)
EXTENDS AuditLog, SequenceTheorems, TLAPS

Ascending(s) == \A i, j \in 1 .. Len(s) : i < j => s[i] < s[j]

Below(s, n) == \A i \in 1 .. Len(s) : s[i] <= n

\* The entries of s up to number n are among its first d.
Within(s, d, n) == \A i \in 1 .. Len(s) : s[i] <= n => i <= d

SeqTypes == queue \in Seq(Nat) /\ disk \in Seq(Nat) /\ buf \in Seq(Nat) /\ cur \in Seq(Nat)

NatTypes ==
    /\ logged \in Nat /\ dropped \in Nat /\ write_errors \in Nat
    /\ flush_req \in Nat /\ flush_done \in Nat

CallTypes ==
    token \in [Callers -> Nat] /\ before \in [Callers -> Nat] /\ DOMAIN pc = Callers

Types == SeqTypes /\ NatTypes /\ CallTypes

\* The writer holds an entry exactly while it writes it; a file that is shut has
\* no buffer, and between the file flush and its acknowledgement there is nothing
\* in it.
WriterOk ==
    /\ IF w = "write" THEN Len(cur) = 1 ELSE cur = <<>>
    /\ file \in {"open", "bad", "shut"} /\ (file = "shut" => buf = <<>>)
    /\ "flush" \notin failed => file # "bad" /\ (w = "ack" => buf = <<>>)

EntriesOk == Below(Entries, logged) /\ EveryEntryAccounted

\* A token that is acknowledged has what was logged before it on disk.
PromiseOk ==
    /\ flush_done <= flush_req
    /\ "flush" \notin failed =>
           \A t \in Callers :
               /\ before[t] <= logged
               /\ pc[t] \in {"flush_notify", "flush_wait", "flush_blocked"}
                     /\ flush_done >= token[t]
                  => Within(Entries, Len(disk), before[t])

IInv == Types /\ WriterOk /\ EntriesOk /\ PromiseOk

----------------------------------------------------------------------------
(* Sequences of entries. *)

\* A new entry carries a number above all others.
LEMMA Appended ==
    ASSUME NEW s \in Seq(Nat), NEW n \in Nat, Ascending(s), Below(s, n)
    PROVE  LET t == Append(s, n + 1)
           IN  /\ Ascending(t) /\ Below(t, n + 1) /\ Len(t) = Len(s) + 1
               /\ \A d \in Nat, m \in 0 .. n : Within(s, d, m) => Within(t, d, m)
  BY DEF Ascending, Below, Within

\* A piece that is taken out leaves the order of the others.
LEMMA TakenOut ==
    ASSUME NEW a \in Seq(Nat), NEW b \in Seq(Nat), NEW c \in Seq(Nat)
    PROVE  LET s == (a \o b) \o c
               t == a \o c
           IN  /\ s \in Seq(Nat) /\ t \in Seq(Nat) /\ Len(s) = Len(t) + Len(b)
               /\ Ascending(s) => Ascending(t)
               /\ \A n \in Nat : Below(s, n) => Below(t, n)
               /\ \A n \in Nat, d \in 0 .. Len(a) : Within(s, d, n) => Within(t, d, n)
<1> DEFINE s == (a \o b) \o c
           t == a \o c
           At2(i) == IF i <= Len(a) THEN i ELSE i + Len(b)
<1>1. /\ s \in Seq(Nat) /\ t \in Seq(Nat) /\ Len(s) = Len(t) + Len(b)
      /\ Len(t) = Len(a) + Len(c) /\ {Len(a), Len(b), Len(c)} \subseteq Nat
  OBVIOUS
<1>2. \A i \in 1 .. Len(t) : At2(i) \in 1 .. Len(s) /\ t[i] = s[At2(i)]
  BY <1>1, SMTT(30)
<1>3. \A i, j \in 1 .. Len(t) : i < j => At2(i) < At2(j)
  BY <1>1
<1> HIDE DEF s, t
<1>4. Ascending(s) => Ascending(t)
  BY <1>1, <1>2, <1>3, Zenon DEF Ascending
<1>5. \A n \in Nat : Below(s, n) => Below(t, n)
  BY <1>1, <1>2, Zenon DEF Below
<1>6. \A n \in Nat, d \in 0 .. Len(a) : Within(s, d, n) => Within(t, d, n)
  <2> SUFFICES ASSUME NEW n \in Nat, NEW d \in 0 .. Len(a), Within(s, d, n),
                      NEW i \in 1 .. Len(t), t[i] <= n
               PROVE  i <= d
    BY Zenon DEF Within
  <2>1. At2(i) <= d
    BY <1>2, Zenon DEF Within
  <2> QED
    BY <1>1, <2>1
<1> QED
  BY <1>1, <1>4, <1>5, <1>6, Zenon DEF s, t

----------------------------------------------------------------------------
USE DEF queueVars, fileVars, callerVars

\* Concatenation, kept folded so that the provers use what follows and nothing else.
Cat(x, y) == x \o y

\* What a step may do to the entries: nothing, or move them towards the disk;
\* add one; drop a new one; lose some on the way.
Moved ==
    /\ Entries' = Entries /\ Len(disk') >= Len(disk)
    /\ UNCHANGED <<logged, dropped, write_errors>>

Added ==
    /\ Entries' = Append(Entries, logged + 1) /\ logged' = logged + 1
    /\ UNCHANGED <<disk, dropped, write_errors, failed>>

Refused ==
    /\ Entries' = Entries /\ logged' = logged + 1 /\ dropped' = dropped + 1
    /\ UNCHANGED <<disk, write_errors, failed>>

Lost ==
    \E a, b, c \in Seq(Nat) :
        /\ Entries = Cat(Cat(a, b), c) /\ Entries' = Cat(a, c)
        /\ disk' = disk /\ Len(disk) <= Len(a) /\ logged' = logged
        /\ \/ "flush" \in failed'
           \/ dropped' + write_errors' = dropped + write_errors + Len(b)

\* \o is associative.
LEMMA Grouping ==
    ASSUME NEW a \in Seq(Nat), NEW b \in Seq(Nat), NEW c \in Seq(Nat)
    PROVE  (a \o b) \o c = a \o (b \o c)
<1> DEFINE l == (a \o b) \o c
           r == a \o (b \o c)
<1>1. l \in Seq(Nat) /\ r \in Seq(Nat) /\ Len(l) = Len(r)
  OBVIOUS
<1>2. \A i \in 1 .. Len(l) : l[i] = r[i]
  OBVIOUS
<1> HIDE DEF l, r
<1>3. l = r
  BY <1>1, <1>2, SeqEqual, Zenon
<1> QED
  BY <1>3, Zenon DEF l, r

\* Empty pieces vanish, and pieces may be grouped at will.
LEMMA CatFacts ==
    ASSUME NEW x \in Seq(Nat), NEW y \in Seq(Nat), NEW z \in Seq(Nat)
    PROVE  /\ Cat(x, y) \in Seq(Nat) /\ Len(Cat(x, y)) = Len(x) + Len(y)
           /\ Cat(x, <<>>) = x /\ Cat(<<>>, x) = x
           /\ Cat(Cat(x, y), z) = Cat(x, Cat(y, z))
<1>1. Cat(x, y) \in Seq(Nat) /\ Len(Cat(x, y)) = Len(x) + Len(y)
  BY DEF Cat
<1>2. Cat(x, <<>>) = x /\ Cat(<<>>, x) = x
  BY ConcatEmptySeq, Zenon DEF Cat
<1>3. Cat(Cat(x, y), z) = Cat(x, Cat(y, z))
  BY Grouping, Zenon DEF Cat
<1> QED
  BY <1>1, <1>2, <1>3, Zenon

\* An entry goes to the end of the queue ...
LEMMA QueueGrows ==
    ASSUME NEW x \in Seq(Nat), NEW q \in Seq(Nat), NEW n \in Nat
    PROVE  Cat(x, Append(q, n)) = Append(Cat(x, q), n)
<1> DEFINE l == Cat(x, Append(q, n))
           r == Append(Cat(x, q), n)
<1>1. l \in Seq(Nat) /\ r \in Seq(Nat) /\ Len(l) = Len(r)
  BY DEF Cat
<1>2. \A i \in 1 .. Len(l) : l[i] = r[i]
  BY DEF Cat
<1> HIDE DEF l, r
<1>3. l = r
  BY <1>1, <1>2, SeqEqual, Zenon
<1> QED
  BY <1>3, Zenon DEF l, r

\* ... and leaves from its head.
LEMMA HeadAndTail ==
    ASSUME NEW q \in Seq(Nat), q # <<>>
    PROVE  Head(q) \in Nat /\ Tail(q) \in Seq(Nat) /\ Cat(<<Head(q)>>, Tail(q)) = q
<1> DEFINE l == Cat(<<Head(q)>>, Tail(q))
<1>1. Head(q) \in Nat /\ Tail(q) \in Seq(Nat)
  OBVIOUS
<1>2. l \in Seq(Nat) /\ Len(l) = Len(q)
  BY <1>1 DEF Cat
<1>3. \A i \in 1 .. Len(l) : l[i] = q[i]
  BY <1>1 DEF Cat
<1> HIDE DEF l
<1>4. l = q
  BY <1>2, <1>3, SeqEqual, Zenon
<1> QED
  BY <1>1, <1>4, Zenon DEF l

\* Popping the head of the queue moves it to the end of what precedes the queue.
LEMMA QueueShrinks ==
    ASSUME NEW x \in Seq(Nat), NEW q \in Seq(Nat), q # <<>>
    PROVE  Cat(Cat(x, <<Head(q)>>), Tail(q)) = Cat(x, q)
<1> DEFINE h == <<Head(q)>>
           t == Tail(q)
<1>1. h \in Seq(Nat) /\ t \in Seq(Nat) /\ Cat(h, t) = q
  BY HeadAndTail
<1> HIDE DEF h, t
<1>2. Cat(Cat(x, h), t) = Cat(x, q)
  BY <1>1, CatFacts
<1> QED
  BY <1>2, Zenon DEF h, t

\* Closing the file writes the buffer out, or loses it.
LEMMA Closing ==
    ASSUME Types, WriterOk, NEW f, NEW c \in Seq(Nat), NEW u \in Seq(Nat),
           CloseFile(Cat(buf, c), disk, f), failed' = failed \cup f, cur = Cat(c, u), cur' = u,
           file = "shut" => c = <<>>,
           UNCHANGED <<queue, logged, dropped, write_errors>>
    PROVE  Moved \/ Lost
<1>1. /\ buf' = <<>> /\ disk \in Seq(Nat) /\ buf \in Seq(Nat) /\ queue \in Seq(Nat)
      /\ <<>> \in Seq(Nat)
  BY DEF Types, SeqTypes, CloseFile
<1>2. /\ Entries = Cat(Cat(Cat(disk, buf), Cat(c, u)), queue)
      /\ Entries' = Cat(Cat(Cat(disk', <<>>), u), queue)
  BY <1>1, Zenon DEF Entries, Cat
<1>3. Entries = Cat(Cat(disk, Cat(buf, c)), Cat(u, queue))
  <2>1. Cat(disk, buf) \in Seq(Nat) /\ Cat(buf, c) \in Seq(Nat) /\ Cat(c, u) \in Seq(Nat)
    BY <1>1, CatFacts, Zenon
  <2>2. Cat(disk, Cat(buf, c)) \in Seq(Nat)
    BY <1>1, <2>1, CatFacts, Zenon
  <2>3. Cat(Cat(disk, buf), Cat(c, u)) = Cat(Cat(Cat(disk, buf), c), u)
    BY <2>1, CatFacts
  <2>4. Cat(Cat(disk, buf), c) = Cat(disk, Cat(buf, c))
    BY <1>1, CatFacts
  <2>5. Cat(Cat(Cat(disk, Cat(buf, c)), u), queue) = Cat(Cat(disk, Cat(buf, c)), Cat(u, queue))
    BY <1>1, <2>2, CatFacts
  <2> QED
    BY <1>2, <2>3, <2>4, <2>5, Zenon
<1>4. CASE disk' = Cat(disk, Cat(buf, c))
  <2>1. Cat(buf, c) \in Seq(Nat)
    BY <1>1, CatFacts, Zenon
  <2>2. disk' \in Seq(Nat) /\ Len(disk') = Len(disk) + Len(Cat(buf, c))
    BY <1>1, <1>4, <2>1, CatFacts, Zenon
  <2>3. Cat(disk', <<>>) = disk' /\ Cat(Cat(disk', u), queue) = Cat(disk', Cat(u, queue))
    BY <1>1, <2>2, CatFacts
  <2>4. Entries' = Entries
    BY <1>2, <1>3, <1>4, <2>3, Zenon
  <2>5. Len(disk') >= Len(disk)
    BY <1>1, <2>1, <2>2, LenProperties
  <2> QED
    BY <2>4, <2>5, Zenon DEF Moved
<1>5. CASE disk' = disk /\ "flush" \in f
  <2>1. Entries' = Cat(disk, Cat(u, queue))
    BY <1>1, <1>2, <1>5, CatFacts
  <2>2. Cat(buf, c) \in Seq(Nat) /\ Cat(u, queue) \in Seq(Nat)
    BY <1>1, CatFacts, Zenon
  <2>3. "flush" \in failed' /\ Len(disk) <= Len(disk)
    BY <1>1, <1>5, LenProperties
  <2> QED
    BY <1>1, <1>3, <1>5, <2>1, <2>2, <2>3, Zenon DEF Lost
<1>6. CASE disk' = disk /\ file = "shut"
  <2>1. Cat(disk, Cat(buf, c)) = disk
    <3>1. buf = <<>> /\ c = <<>>
      BY <1>6, Zenon DEF WriterOk
    <3>2. Cat(buf, c) = <<>>
      BY <1>1, <3>1, CatFacts, Zenon
    <3> QED
      BY <1>1, <3>2, CatFacts, Zenon
  <2> QED
    BY <1>4, <1>6, <2>1, Zenon
<1> QED
  BY <1>4, <1>5, <1>6, Zenon DEF CloseFile, Cat

\* Every step does one of the four, and forgets no failure.
LEMMA Shapes ==
    ASSUME IInv, Next
    PROVE  (Moved \/ Added \/ Refused \/ Lost) /\ failed \subseteq failed'
<1> USE DEF IInv
<1>1. /\ disk \in Seq(Nat) /\ buf \in Seq(Nat) /\ cur \in Seq(Nat) /\ queue \in Seq(Nat)
      /\ <<>> \in Seq(Nat) /\ Entries \in Seq(Nat) /\ Len(disk) <= Len(disk)
      /\ Entries = Cat(Cat(Cat(disk, buf), cur), queue)
  BY LenProperties DEF Types, SeqTypes, Entries, Cat
<1>2. ASSUME UNCHANGED <<disk, buf, cur, queue, logged, dropped, write_errors, failed>>
      PROVE  Moved /\ failed \subseteq failed'
  BY <1>1, <1>2, SMTT(30) DEF Moved, Entries
<1>3. ASSUME NEW t \in Callers, Log(t)
      PROVE  (Added \/ Refused) /\ failed \subseteq failed'
  <2>1. CASE Len(queue) >= MaxQueue /\ UNCHANGED queue /\ dropped' = dropped + 1
    BY <1>1, <1>3, <2>1, Zenon DEF Log, Refused, Entries
  <2>2. CASE queue' = Append(queue, logged + 1) /\ UNCHANGED dropped
    <3> DEFINE x == Cat(Cat(disk, buf), cur)
               n == logged + 1
    <3>1. x \in Seq(Nat)
      BY <1>1, CatFacts, Zenon
    <3>2. n \in Nat
      BY DEF Types, NatTypes
    <3>3. Entries = Cat(x, queue) /\ Entries' = Cat(x, Append(queue, n))
      BY <1>3, <2>2, Zenon DEF Log, Entries, Cat
    <3> HIDE DEF x, n
    <3>4. Cat(x, Append(queue, n)) = Append(Cat(x, queue), n)
      BY <1>1, <3>1, <3>2, QueueGrows, Zenon
    <3>5. Entries' = Append(Entries, logged + 1)
      BY <3>3, <3>4, Zenon DEF n
    <3> QED
      BY <1>3, <2>2, <3>5, Zenon DEF Log, Added
  <2> QED
    BY <1>3, <2>1, <2>2, Zenon DEF Log
<1>4. ASSUME NEW t \in Callers,
             LogNotify(t) \/ FlushRequest(t) \/ FlushNotify(t) \/ FlushWait(t)
      PROVE  Moved /\ failed \subseteq failed'
  BY <1>2, <1>4, Zenon DEF LogNotify, FlushRequest, FlushNotify, FlushWait
<1>5. CASE Destroy \/ Evaluate \/ Block \/ Relock \/ Drained \/ Ack
  BY <1>2, <1>5, Zenon DEF Destroy, Evaluate, Block, Relock, Drained, Ack
<1>6. CASE rotate \/ Join
  <2>1. PICK f : Failing(f) /\ CloseFile(buf, disk, f)
    BY <1>6, Zenon DEF rotate, rotate_locked, Join
  <2>2. failed' = failed \cup f /\ cur' = cur /\ UNCHANGED <<queue, logged, dropped, write_errors>>
    BY <1>6, <2>1, Zenon DEF rotate, Join, Failing
  <2>3. CloseFile(Cat(buf, <<>>), disk, f) /\ cur = Cat(<<>>, cur)
    BY <1>1, <2>1, CatFacts, Zenon
  <2> QED
    BY <1>1, <2>2, <2>3, Closing, Zenon DEF IInv
<1>7. CASE Write
  <2>1. /\ w = "write" /\ file = "open" /\ cur' = <<>>
        /\ UNCHANGED <<queue, logged, dropped, write_errors>>
    BY <1>7, Zenon DEF Write
  <2>2. CASE rotate_locked(buf \o cur, disk)
    <3>1. PICK f : Failing(f) /\ CloseFile(Cat(buf, cur), disk, f)
      BY <2>2, Zenon DEF rotate_locked, Cat
    <3>2. failed' = failed \cup f /\ cur = Cat(cur, <<>>)
      BY <1>1, <3>1, CatFacts, Zenon DEF Failing
    <3> QED
      BY <1>1, <2>1, <3>1, <3>2, Closing, Zenon DEF IInv
  <2>3. CASE buf' = buf \o cur /\ UNCHANGED <<disk, failed>>
    <3>1. Entries' = Cat(Cat(Cat(disk, Cat(buf, cur)), <<>>), queue)
      BY <2>1, <2>3, Zenon DEF Entries, Cat
    <3>2. Cat(disk, Cat(buf, cur)) = Cat(Cat(disk, buf), cur)
      BY <1>1, CatFacts
    <3>3. Cat(Cat(disk, buf), cur) \in Seq(Nat)
      BY <1>1, CatFacts, Zenon
    <3>4. Entries' = Entries
      BY <1>1, <3>1, <3>2, <3>3, CatFacts, Zenon
    <3> QED
      BY <1>1, <2>1, <2>3, <3>4, Zenon DEF Moved
  <2> QED
    BY <1>7, <2>2, <2>3, Zenon DEF Write
<1>8. CASE WriteFails \/ WriteDropped
  <2>1. /\ w = "write" /\ cur' = <<>> /\ UNCHANGED <<queue, logged, disk, buf>>
        /\ dropped' + write_errors' = dropped + write_errors + 1 /\ failed \subseteq failed'
    BY <1>8 DEF WriteFails, WriteDropped, Types, NatTypes, Failing
  <2>2. Len(cur) = 1
    BY <2>1, Zenon DEF WriterOk
  <2>3. Cat(disk, buf) \in Seq(Nat) /\ Len(disk) <= Len(Cat(disk, buf))
    <3>1. Cat(disk, buf) \in Seq(Nat) /\ Len(Cat(disk, buf)) = Len(disk) + Len(buf)
      BY <1>1, CatFacts, Zenon
    <3> QED
      BY <1>1, <3>1, LenProperties
  <2>4. Entries' = Cat(Cat(disk, buf), queue)
    BY <1>1, <2>1, <2>3, CatFacts, Zenon DEF Entries, Cat
  <2> QED
    BY <1>1, <2>1, <2>2, <2>3, <2>4, Zenon DEF Lost
<1>9. CASE Pop
  <2>1. /\ cur = <<>> /\ queue # <<>> /\ cur' = <<Head(queue)>> /\ queue' = Tail(queue)
        /\ UNCHANGED <<disk, buf, logged, dropped, write_errors, failed>>
    BY <1>9, Zenon DEF Pop, WriterOk
  <2>2. Cat(disk, buf) \in Seq(Nat) /\ Cat(Cat(disk, buf), <<>>) = Cat(disk, buf)
    BY <1>1, CatFacts, Zenon
  <2>3. Entries' = Cat(Cat(Cat(disk, buf), <<Head(queue)>>), Tail(queue))
    BY <2>1, Zenon DEF Entries, Cat
  <2>4. Entries' = Entries
    BY <1>1, <2>1, <2>2, <2>3, QueueShrinks
  <2> QED
    BY <1>1, <2>1, <2>4, Zenon DEF Moved
<1>10. CASE FileFlush
  <2>1. w = "flush" /\ cur = <<>> /\ UNCHANGED <<cur, queue, logged, dropped, write_errors>>
    BY <1>10, Zenon DEF FileFlush, WriterOk
  <2>2. CASE UNCHANGED <<disk, buf>> /\ failed \subseteq failed'
    BY <1>1, <2>1, <2>2, Zenon DEF Moved, Entries
  <2>3. CASE disk' = disk \o buf /\ buf' = <<>> /\ UNCHANGED failed
    <3>1. Entries' = Cat(Cat(Cat(Cat(disk, buf), <<>>), cur), queue)
      BY <2>1, <2>3, Zenon DEF Entries, Cat
    <3>2. Cat(disk, buf) \in Seq(Nat) /\ Len(Cat(disk, buf)) = Len(disk) + Len(buf)
      BY <1>1, CatFacts, Zenon
    <3>3. Entries' = Entries
      BY <1>1, <3>1, <3>2, CatFacts, Zenon
    <3>4. Len(disk') >= Len(disk)
      BY <1>1, <2>3, <3>2, LenProperties DEF Cat
    <3> QED
      BY <2>1, <2>3, <3>3, <3>4, Zenon DEF Moved
  <2> QED
    BY <1>10, <2>2, <2>3, Zenon DEF FileFlush, Failing
<1> QED
  BY <1>3, <1>4, <1>5, <1>6, <1>7, <1>8, <1>9, <1>10, Zenon DEF Next, Writer

----------------------------------------------------------------------------
\* What the accounting and the promise need of each of the four.
LEMMA EntriesKept ==
    ASSUME IInv, Next, Types'
    PROVE  /\ EntriesOk'
           /\ "flush" \notin failed' =>
                  \A n \in 0 .. logged :
                      Within(Entries, Len(disk), n) => Within(Entries', Len(disk'), n)
<1> USE DEF IInv
<1>1. /\ Entries \in Seq(Nat) /\ Below(Entries, logged) /\ Ascending(Entries)
      /\ logged \in Nat /\ dropped \in Nat /\ write_errors \in Nat
      /\ disk \in Seq(Nat) /\ Len(disk) \in Nat /\ Len(disk') \in Nat
      /\ "flush" \notin failed => logged = Len(Entries) + dropped + write_errors
  <2>1. Entries \in Seq(Nat) /\ disk \in Seq(Nat) /\ disk' \in Seq(Nat)
    BY DEF Types, SeqTypes, Entries
  <2>2. Len(disk) \in Nat /\ Len(disk') \in Nat
    BY <2>1, LenProperties, Zenon
  <2>3. logged \in Nat /\ dropped \in Nat /\ write_errors \in Nat
    BY Zenon DEF Types, NatTypes
  <2> QED
    BY <2>1, <2>2, <2>3, Zenon DEF EntriesOk, EveryEntryAccounted, Ascending
<1>2. failed \subseteq failed'
  BY Shapes, Zenon
<1>3. SUFFICES /\ Below(Entries', logged') /\ Ascending(Entries')
               /\ "flush" \notin failed' =>
                      /\ logged' = Len(Entries') + dropped' + write_errors'
                      /\ \A n \in 0 .. logged :
                             Within(Entries, Len(disk), n) => Within(Entries', Len(disk'), n)
  BY Zenon DEF EntriesOk, EveryEntryAccounted, Ascending
<1>4. CASE Moved
  BY <1>1, <1>2, <1>4, LenProperties DEF Moved, Within
<1>5. CASE Added
  <2> DEFINE t == Append(Entries, logged + 1)
  <2>1. /\ Ascending(t) /\ Below(t, logged + 1) /\ Len(t) = Len(Entries) + 1
        /\ \A d \in Nat, m \in 0 .. logged : Within(Entries, d, m) => Within(t, d, m)
    BY <1>1, Appended, Zenon
  <2>2. Len(Entries) \in Nat
    BY <1>1, LenProperties, Zenon
  <2> HIDE DEF t
  <2>3. /\ Entries' = t /\ logged' = logged + 1 /\ disk' = disk
        /\ UNCHANGED <<dropped, write_errors, failed>>
    BY <1>5, Zenon DEF Added, t
  <2> QED
    BY <1>1, <2>1, <2>2, <2>3
<1>6. CASE Refused
  <2>1. Len(Entries) \in Nat /\ \A i \in 1 .. Len(Entries) : Entries[i] \in Nat
    BY <1>1, LenProperties, ElementOfSeq, Zenon
  <2>2. Below(Entries', logged')
    BY <1>1, <1>6, <2>1 DEF Refused, Below
  <2>3. "flush" \notin failed' => logged' = Len(Entries') + dropped' + write_errors'
    <3>1. SUFFICES ASSUME "flush" \notin failed
                   PROVE  logged + 1 = Len(Entries) + (dropped + 1) + write_errors
      BY <1>6, Zenon DEF Refused
    <3> QED
      BY <1>1, <2>1, <3>1
  <2> QED
    BY <1>1, <1>6, <2>2, <2>3, Zenon DEF Refused
<1>7. CASE Lost
  <2>1. PICK a \in Seq(Nat), b \in Seq(Nat), c \in Seq(Nat) :
            /\ Entries = Cat(Cat(a, b), c) /\ Entries' = Cat(a, c)
            /\ disk' = disk /\ Len(disk) <= Len(a) /\ logged' = logged
            /\ \/ "flush" \in failed'
               \/ dropped' + write_errors' = dropped + write_errors + Len(b)
    BY <1>7, Zenon DEF Lost
  <2>2. /\ Entries' \in Seq(Nat) /\ Len(Entries) = Len(Entries') + Len(b)
        /\ Ascending(Entries) => Ascending(Entries')
        /\ \A n \in Nat : Below(Entries, n) => Below(Entries', n)
        /\ \A n \in Nat, d \in 0 .. Len(a) : Within(Entries, d, n) => Within(Entries', d, n)
    BY <2>1, TakenOut, ZenonT(30) DEF Cat
  <2>3. /\ Len(Entries') \in Nat /\ Len(a) \in Nat /\ Len(b) \in Nat
        /\ dropped' \in Nat /\ write_errors' \in Nat
    BY <2>2, LenProperties, Zenon DEF Types, NatTypes
  <2>4. Len(disk) \in 0 .. Len(a)
    BY <1>1, <2>1, <2>3
  <2>5. Below(Entries', logged') /\ Ascending(Entries')
    BY <1>1, <2>1, <2>2, Zenon
  <2>6. ASSUME "flush" \notin failed'
        PROVE  logged' = Len(Entries') + dropped' + write_errors'
    <3>1. logged' = Len(Entries) + dropped + write_errors
      BY <1>1, <1>2, <2>1, <2>6, Zenon
    <3>2. dropped' + write_errors' = dropped + write_errors + Len(b)
      BY <2>1, <2>6, Zenon
    <3> DEFINE e == Len(Entries')
               m == dropped + write_errors
               n == dropped' + write_errors'
    <3>3. e \in Nat /\ m \in Nat /\ n \in Nat /\ Len(b) \in Nat /\ Len(Entries) = e + Len(b)
      <4>1. e \in Nat /\ Len(b) \in Nat
        BY <2>3, Zenon
      <4>2. m \in Nat
        BY <1>1
      <4>3. n \in Nat
        <5>1. dropped' \in Nat /\ write_errors' \in Nat
          BY <2>3, Zenon
        <5>2. \A x, y \in Nat : x + y \in Nat
          OBVIOUS
        <5> QED
          BY <5>1, <5>2, Zenon
      <4>4. Len(Entries) = e + Len(b)
        BY <2>2, Zenon
      <4> QED
        BY <4>1, <4>2, <4>3, <4>4, Zenon
    <3>4. logged' = (e + Len(b)) + m
      BY <1>1, <2>3, <3>1, <3>3
    <3>5. n = m + Len(b)
      BY <3>2, Zenon
    <3>6. logged' = e + n
      <4> HIDE DEF e, m, n
      <4> QED
        BY <3>3, <3>4, <3>5
    <3> QED
      BY <2>3, <3>6
  <2>7. \A n \in 0 .. logged : Within(Entries, Len(disk), n) => Within(Entries', Len(disk'), n)
    BY <1>1, <2>1, <2>2, <2>4
  <2> QED
    BY <2>5, <2>6, <2>7, Zenon
<1> QED
  BY <1>4, <1>5, <1>6, <1>7, Shapes, Zenon

----------------------------------------------------------------------------
(* The other conjuncts of the invariant. *)

InFlush == {"flush_notify", "flush_wait", "flush_blocked"}

\* Every step keeps the counters and sizes natural numbers.
LEMMA NumbersKept ==
    ASSUME NatTypes, Next
    PROVE  NatTypes'
<1> USE DEF NatTypes
<1>1. ASSUME NEW t \in Callers, Log(t) PROVE NatTypes'
  BY <1>1 DEF Log
<1>2. ASSUME NEW t \in Callers, FlushRequest(t) PROVE NatTypes'
  BY <1>2 DEF FlushRequest
<1>3. CASE WriteFails \/ WriteDropped
  BY <1>3 DEF WriteFails, WriteDropped
<1>4. CASE Ack
  BY <1>4, Zenon DEF Ack
<1>5. CASE UNCHANGED <<logged, dropped, write_errors, flush_req, flush_done>>
  BY <1>5, Zenon
<1> QED
  BY <1>1, <1>2, <1>3, <1>4, <1>5, Zenon DEF Next, Writer, LogNotify, FlushNotify, FlushWait, rotate,
     Destroy, Join, Evaluate, Block, Pop, Write, Relock, Drained, FileFlush

\* Every step keeps the types of what the callers hold.
LEMMA CallsKept ==
    ASSUME CallTypes, NatTypes, Next
    PROVE  CallTypes'
<1> USE DEF CallTypes
<1>1. ASSUME NEW t \in Callers, Log(t) \/ LogNotify(t) \/ FlushNotify(t) PROVE CallTypes'
  BY <1>1, Zenon DEF Log, LogNotify, FlushNotify, At
<1>2. ASSUME NEW t \in Callers, FlushRequest(t) PROVE CallTypes'
  <2>1. logged \in Nat /\ flush_req + 1 \in Nat
    BY DEF NatTypes
  <2> QED
    BY <1>2, <2>1, Zenon DEF FlushRequest, At
<1>3. ASSUME NEW t \in Callers, FlushWait(t) PROVE CallTypes'
  <2>1. DOMAIN pc' = Callers
    BY <1>3, Zenon DEF FlushWait, At
  <2>2. CASE UNCHANGED <<token, before>>
    BY <2>1, <2>2, Zenon
  <2>3. CASE token' = [token EXCEPT ![t] = 0] /\ before' = [before EXCEPT ![t] = 0]
    BY <2>1, <2>3, Zenon
  <2> QED
    BY <1>3, <2>2, <2>3, Zenon DEF FlushWait
<1>4. CASE Relock \/ Ack
  BY <1>4, Zenon DEF Relock, Ack, FlushersWoken
<1>5. CASE UNCHANGED <<pc, token, before>>
  BY <1>5, Zenon
<1>6. CASE rotate \/ Destroy \/ Join
  BY <1>5, <1>6, Zenon DEF rotate, Destroy, Join
<1>7. CASE Writer
  BY <1>4, <1>5, <1>7, Zenon DEF Writer, Evaluate, Block, Pop, Write, WriteFails, WriteDropped, Drained,
     FileFlush
<1> QED
  BY <1>1, <1>2, <1>3, <1>6, <1>7, ZenonT(30) DEF Next

\* Every step keeps the queue, the buffer and the disk sequences of entries.
LEMMA SequencesKept ==
    ASSUME SeqTypes, NatTypes, Next
    PROVE  SeqTypes'
<1> USE DEF SeqTypes
<1>1. \A x, y \in Seq(Nat) : x \o y \in Seq(Nat)
  OBVIOUS
<1>2. \A x \in Seq(Nat), n \in Nat : Append(x, n) \in Seq(Nat)
  OBVIOUS
<1>3. <<>> \in Seq(Nat)
  OBVIOUS
<1>4. ASSUME NEW t \in Callers, Log(t) PROVE SeqTypes'
  <2>1. UNCHANGED <<disk, buf, cur>> /\ (queue' = queue \/ queue' = Append(queue, logged + 1))
    BY <1>4, Zenon DEF Log
  <2>2. logged + 1 \in Nat
    BY DEF NatTypes
  <2>3. Append(queue, logged + 1) \in Seq(Nat)
    BY <1>2, <2>2, Zenon
  <2> QED
    BY <2>1, <2>3, Zenon
<1>5. CASE rotate \/ Join
  <2>1. /\ UNCHANGED <<queue, cur>> /\ buf' = <<>>
        /\ disk' = disk \/ disk' = disk \o buf
    BY <1>5, Zenon DEF rotate, Join, rotate_locked, CloseFile
  <2> QED
    BY <1>1, <1>3, <2>1, Zenon
<1>6. CASE Pop
  <2>1. UNCHANGED <<disk, buf>> /\ queue' = Tail(queue) /\ cur' = <<Head(queue)>> /\ queue # <<>>
    BY <1>6, Zenon DEF Pop
  <2>2. <<Head(queue)>> \in Seq(Nat) /\ Tail(queue) \in Seq(Nat)
    BY <2>1, HeadAndTail
  <2> QED
    BY <2>1, <2>2, Zenon
<1>7. CASE Write
  <2>1. /\ UNCHANGED queue /\ cur' = <<>>
        /\ \/ buf' = buf \o cur /\ disk' = disk
           \/ buf' = <<>> /\ (disk' = disk \/ disk' = disk \o (buf \o cur))
    BY <1>7, Zenon DEF Write, rotate_locked, CloseFile
  <2>2. buf \o cur \in Seq(Nat)
    BY <1>1, Zenon
  <2>3. disk \o (buf \o cur) \in Seq(Nat)
    BY <1>1, <2>2, Zenon
  <2> QED
    BY <1>3, <2>1, <2>2, <2>3, Zenon
<1>8. CASE WriteFails \/ WriteDropped
  BY <1>3, <1>8, Zenon DEF WriteFails, WriteDropped
<1>9. CASE FileFlush
  <2>1. /\ UNCHANGED <<queue, cur>>
        /\ \/ buf' = <<>> /\ disk' = disk \o buf
           \/ UNCHANGED <<buf, disk>>
    BY <1>9, Zenon DEF FileFlush
  <2> QED
    BY <1>1, <1>3, <2>1, Zenon
<1>10. CASE UNCHANGED <<queue, disk, buf, cur>>
  BY <1>10, Zenon
<1> QED
  BY <1>4, <1>5, <1>6, <1>7, <1>8, <1>9, <1>10, Zenon DEF Next, Writer, LogNotify, FlushRequest,
     FlushNotify, FlushWait, Destroy, Evaluate, Block, Relock, Drained, Ack

\* The three together.
LEMMA TypesKept ==
    ASSUME Types, Next
    PROVE  Types'
BY NumbersKept, CallsKept, SequencesKept, Zenon DEF Types

\* Every step keeps what the writer holds at each point of its loop.
LEMMA WriterKept ==
    ASSUME IInv, Next
    PROVE  WriterOk'
<1> USE DEF IInv, WriterOk
<1>1. ASSUME NEW t \in Callers,
             Log(t) \/ LogNotify(t) \/ FlushRequest(t) \/ FlushNotify(t) \/ FlushWait(t)
      PROVE  WriterOk'
  BY <1>1, Zenon DEF Log, LogNotify, FlushRequest, FlushNotify, FlushWait, Notified
<1>2. CASE rotate
  BY <1>2, Zenon DEF rotate, rotate_locked, CloseFile, Failing
<1>3. CASE Join
  BY <1>3, Zenon DEF Join, CloseFile, Failing
<1>4. CASE Destroy \/ Evaluate \/ Block \/ Relock
  BY <1>4, Zenon DEF Destroy, Evaluate, Block, Relock, Notified
<1>5. CASE Pop
  BY <1>5, Zenon DEF Pop
<1>6. CASE Write
  BY <1>6, Zenon DEF Write, rotate_locked, CloseFile, Failing
<1>7. CASE WriteFails \/ WriteDropped
  BY <1>7, Zenon DEF WriteFails, WriteDropped, Failing
<1>8. CASE Drained \/ Ack
  BY <1>8, Zenon DEF Drained, Ack, LeaveOrLoop
<1>9. CASE FileFlush
  <2>1. w = "flush" /\ w' = "ack" /\ UNCHANGED cur
    BY <1>9, Zenon DEF FileFlush
  <2>2. \/ file = "open" /\ file' = "open" /\ buf' = <<>> /\ failed' = failed
        \/ file' = "bad" /\ "flush" \in failed'
        \/ file # "open" /\ UNCHANGED <<buf, file, failed>>
    BY <1>9, Zenon DEF FileFlush, Failing
  <2>3. cur' = <<>>
    BY <2>1, Zenon
  <2>4. file' \in {"open", "bad", "shut"} /\ (file' = "shut" => buf' = <<>>)
    BY <2>2, Zenon
  <2>5. "flush" \notin failed' => file' # "bad" /\ buf' = <<>>
    BY <2>2, Zenon
  <2> QED
    BY <2>1, <2>3, <2>4, <2>5, Zenon
<1> QED
  BY <1>1, <1>2, <1>3, <1>4, <1>5, <1>6, <1>7, <1>8, <1>9, Zenon DEF Next, Writer

\* A token is acknowledged when queue, hands and buffer are empty, so all there is
\* is on disk; from then on entries are only added behind, or leave.
LEMMA PromiseKept ==
    ASSUME IInv, Next, Types'
    PROVE  PromiseOk'
<1> USE DEF IInv
<1>1. failed \subseteq failed' /\ logged <= logged' /\ logged \in Nat /\ logged' \in Nat
  <2>1. failed \subseteq failed' /\ (logged' = logged \/ logged' = logged + 1)
    BY Shapes, Zenon DEF Moved, Added, Refused, Lost
  <2>2. logged \in Nat
    BY Zenon DEF Types, NatTypes
  <2>3. logged' \in Nat
    BY Zenon DEF Types, NatTypes
  <2> QED
    BY <2>1, <2>2, <2>3
<1>2. flush_done' <= flush_req'
  <2>1. CASE UNCHANGED <<flush_req, flush_done>>
    BY <2>1, Zenon DEF PromiseOk
  <2>2. CASE \E t \in Callers : FlushRequest(t)
    <3>1. flush_done' = flush_done /\ flush_req' = flush_req + 1
      BY <2>2, Zenon DEF FlushRequest
    <3>2. flush_done <= flush_req /\ flush_done \in Nat /\ flush_req \in Nat
      BY Zenon DEF PromiseOk, Types, NatTypes
    <3> QED
      BY <3>1, <3>2
  <2>3. CASE Ack
    <3>1. flush_req' = flush_req /\ (flush_done' = flush_done \/ flush_done' = flush_req)
      BY <2>3, Zenon DEF Ack
    <3>2. flush_done <= flush_req /\ flush_done \in Nat /\ flush_req \in Nat
      BY Zenon DEF PromiseOk, Types, NatTypes
    <3> QED
      BY <3>1, <3>2
  <2> QED
    BY <2>1, <2>2, <2>3, Zenon DEF Next, Writer, Log, LogNotify, FlushNotify, FlushWait, rotate,
       Destroy, Join, Evaluate, Block, Pop, Write, WriteFails, WriteDropped, Relock, Drained,
       FileFlush
<1>3. SUFFICES ASSUME "flush" \notin failed', NEW t \in Callers
               PROVE  /\ before'[t] <= logged'
                      /\ pc'[t] \in InFlush /\ flush_done' >= token'[t]
                         => Within(Entries', Len(disk'), before'[t])
  BY <1>2, Zenon DEF PromiseOk, InFlush
<1>4. /\ "flush" \notin failed /\ before[t] <= logged /\ before[t] \in 0 .. logged
      /\ pc[t] \in InFlush /\ flush_done >= token[t]
         => Within(Entries, Len(disk), before[t])
  BY <1>1, <1>3 DEF PromiseOk, InFlush, Types, NatTypes, CallTypes
<1>5. \A n \in 0 .. logged :
          Within(Entries, Len(disk), n) => Within(Entries', Len(disk'), n)
  BY <1>3, EntriesKept, Zenon
<1> DEFINE Same == /\ before'[t] = before[t] /\ token'[t] = token[t]
                   /\ flush_done' = flush_done /\ (pc'[t] \in InFlush => pc[t] \in InFlush)
           Goal == /\ before'[t] <= logged'
                   /\ pc'[t] \in InFlush /\ flush_done' >= token'[t]
                      => Within(Entries', Len(disk'), before'[t])
<1>6. Same => Goal
  <2> SUFFICES ASSUME Same PROVE Goal
    BY Zenon
  <2>1. before'[t] <= logged'
    <3>1. before[t] \in Nat
      BY Zenon DEF Types, CallTypes
    <3>2. before[t] <= logged'
      BY <1>1, <1>4, <3>1
    <3> QED
      BY <3>2, Zenon
  <2>2. ASSUME pc'[t] \in InFlush, flush_done' >= token'[t]
        PROVE  Within(Entries', Len(disk'), before'[t])
    <3>1. Within(Entries, Len(disk), before[t])
      BY <1>4, <2>2, Zenon
    <3>2. Within(Entries', Len(disk'), before[t])
      BY <1>4, <1>5, <3>1, Zenon
    <3> QED
      BY <3>2, Zenon
  <2> QED
    BY <2>1, <2>2, Zenon
<1>7. ASSUME NEW u \in Callers, FlushRequest(u) PROVE Goal
  <2>1. CASE u = t
    <3>1. before'[t] = logged' /\ token'[t] = flush_req + 1 /\ flush_done' = flush_done
      BY <1>7, <2>1, Zenon DEF FlushRequest, Types, CallTypes
    <3>2. flush_done <= flush_req /\ flush_done \in Nat /\ flush_req \in Nat
      BY Zenon DEF PromiseOk, Types, NatTypes
    <3>3. ~(flush_done' >= token'[t])
      BY <3>1, <3>2
    <3>4. before'[t] <= logged'
      BY <1>1, <3>1
    <3> QED
      BY <3>3, <3>4, Zenon
  <2>2. CASE u # t
    <3>1. Same
      BY <1>7, <2>2, Zenon DEF FlushRequest, At, Types, CallTypes
    <3> QED
      BY <1>6, <3>1, Zenon
  <2> QED
    BY <2>1, <2>2, Zenon
<1>8. ASSUME NEW u \in Callers, FlushWait(u) PROVE Goal
  <2>1. CASE before'[t] = 0 /\ pc'[t] = "idle"
    <3>1. before'[t] <= logged'
      BY <1>1, <2>1
    <3>2. pc'[t] \notin InFlush
      BY <2>1, Zenon DEF InFlush
    <3> QED
      BY <3>1, <3>2, Zenon
  <2>2. Same \/ (before'[t] = 0 /\ pc'[t] = "idle")
    BY <1>8, ZenonT(30) DEF FlushWait, At, InFlush, Types, CallTypes
  <2> QED
    BY <1>6, <2>1, <2>2, Zenon
<1>9. ASSUME NEW u \in Callers, Log(u) \/ LogNotify(u) \/ FlushNotify(u) PROVE Goal
  <2>1. Same
    BY <1>9, Zenon DEF Log, LogNotify, FlushNotify, At, InFlush, Types, CallTypes
  <2> QED
    BY <1>6, <2>1, Zenon
<1>10. ASSUME rotate \/ Destroy \/ Join \/ Evaluate \/ Block \/ Pop \/ Write \/ WriteFails
              \/ WriteDropped \/ Drained \/ FileFlush
       PROVE  Goal
  <2>1. Same
    BY <1>10, Zenon DEF rotate, Destroy, Join, Evaluate, Block, Pop, Write, WriteFails,
       WriteDropped, Drained, FileFlush
  <2> QED
    BY <1>6, <2>1, Zenon
<1>11. ASSUME Relock PROVE Goal
  <2>1. Same
    BY <1>11, Zenon DEF Relock, FlushersWoken, InFlush
  <2> QED
    BY <1>6, <2>1, Zenon
<1>12. ASSUME Ack, queue # <<>> PROVE Goal
  <2>1. Same
    BY <1>12, Zenon DEF Ack
  <2> QED
    BY <1>6, <2>1, Zenon
<1>13. ASSUME Ack, queue = <<>> PROVE Goal
  <2>1. buf = <<>> /\ cur = <<>> /\ queue = <<>>
    BY <1>4, <1>13, Zenon DEF Ack, WriterOk
  <2>2. Entries = disk /\ disk \in Seq(Nat)
    BY <2>1, ConcatEmptySeq, Zenon DEF Entries, Types, SeqTypes
  <2>3. Len(disk) \in Nat
    BY <2>2, LenProperties, Zenon
  <2>4. Within(Entries, Len(disk), before[t])
    BY <2>2, <2>3 DEF Within
  <2>5. UNCHANGED <<before, logged>>
    BY <1>13, Zenon DEF Ack
  <2>6. Within(Entries', Len(disk'), before'[t]) /\ before'[t] <= logged'
    BY <1>4, <1>5, <2>4, <2>5, Zenon
  <2> QED
    BY <2>6, Zenon
<1> HIDE DEF Goal
<1>14. Goal
  BY <1>7, <1>8, <1>9, <1>10, <1>11, <1>12, <1>13, Zenon DEF Next, Writer
<1> QED
  BY <1>14, Zenon DEF Goal

\* The invariant holds of a new log ...
LEMMA AccountInit == Init => IInv
<1> SUFFICES ASSUME Init PROVE IInv
  BY Zenon
<1>1. /\ queue = <<>> /\ disk = <<>> /\ buf = <<>> /\ cur = <<>> /\ <<>> \in Seq(Nat)
  BY DEF Init
<1>2. Entries = <<>> /\ Len(Entries) = 0
  BY <1>1, ConcatEmptySeq DEF Entries
<1>3. Types /\ WriterOk
  BY <1>1, Zenon DEF Init, Types, SeqTypes, NatTypes, CallTypes, WriterOk
<1>4. EntriesOk
  BY <1>2 DEF Init, EntriesOk, Below, EveryEntryAccounted
<1>5. PromiseOk
  BY DEF Init, PromiseOk
<1> QED
  BY <1>3, <1>4, <1>5, Zenon DEF IInv

\* ... and every step of the callers and of the writer keeps it.
LEMMA AccountStep == IInv /\ [Next]_vars => IInv'
<1> SUFFICES ASSUME IInv, [Next]_vars PROVE IInv'
  BY Zenon
<1>1. CASE Next
  <2>1. Types'
    BY <1>1, TypesKept, Zenon DEF IInv
  <2>2. WriterOk'
    BY <1>1, WriterKept, Zenon
  <2>3. EntriesOk'
    BY <1>1, <2>1, EntriesKept, Zenon
  <2>4. PromiseOk'
    BY <1>1, <2>1, PromiseKept, Zenon
  <2> QED
    BY <2>1, <2>2, <2>3, <2>4, Zenon DEF IInv
<1>2. CASE UNCHANGED vars
  BY <1>2, ZenonT(30) DEF vars, IInv, Types, SeqTypes, NatTypes, CallTypes, WriterOk, EntriesOk,
     PromiseOk, EveryEntryAccounted, Below, Within, Entries
<1> QED
  BY <1>1, <1>2, Zenon

----------------------------------------------------------------------------
\* Whatever the callers, the writer, rotations and failures do, log()'s entries
\* stay in order, and each is kept or counted, unless a write-out of the file's
\* buffer has failed.
THEOREM EntriesAccounted == Spec => []EveryEntryAccounted
<1>1. Init => IInv
  BY AccountInit, Zenon
<1>2. IInv /\ [Next]_vars => IInv'
  BY AccountStep, Zenon
<1>3. IInv => EveryEntryAccounted
  BY Zenon DEF IInv, EntriesOk
<1> QED
  BY <1>1, <1>2, <1>3, PTL DEF Spec

\* flush() returns only when what was logged before it is on disk or counted.
THEOREM FlushPromiseKept == Spec => FlushKeepsPromise
<1> DEFINE Returns == \A t \in Callers :
               (pc[t] = "flush_wait" /\ pc'[t] = "idle" /\ "flush" \notin failed) =>
                   \A i \in 1 .. Len(Entries) : Entries[i] <= before[t] => i <= Len(disk)
<1>1. IInv /\ [Next]_vars => [Returns]_vars
  <2> SUFFICES ASSUME IInv, Next, NEW t \in Callers,
                      pc[t] = "flush_wait", pc'[t] = "idle", "flush" \notin failed
               PROVE  Within(Entries, Len(disk), before[t])
    BY Zenon DEF Within
  <2>1. DOMAIN pc = Callers
    BY Zenon DEF IInv, Types, CallTypes
  <2>2. CASE \E u \in Callers : FlushWait(u)
    <3>1. flush_done >= token[t]
      BY <2>1, <2>2, Zenon DEF FlushWait, At
    <3> QED
      BY <3>1, Zenon DEF IInv, PromiseOk
  <2>3. ~ \E u \in Callers : Log(u) \/ LogNotify(u) \/ FlushRequest(u) \/ FlushNotify(u)
    BY <2>1, Zenon DEF Log, LogNotify, FlushRequest, FlushNotify, At
  <2>4. ~(Relock \/ Ack)
    BY Zenon DEF Relock, Ack, FlushersWoken
  <2> QED
    BY <2>2, <2>3, <2>4, Zenon DEF Next, Writer, rotate, Destroy, Join, Evaluate, Block, Pop, Write,
       WriteFails, WriteDropped, Drained, FileFlush
<1>2. Spec => []IInv
  <2>1. Init => IInv
    BY AccountInit, Zenon
  <2>2. IInv /\ [Next]_vars => IInv'
    BY AccountStep, Zenon
  <2> QED
    BY <2>1, <2>2, PTL DEF Spec
<1> QED
  BY <1>1, <1>2, PTL DEF Spec, FlushKeepsPromise
=============================================================================
