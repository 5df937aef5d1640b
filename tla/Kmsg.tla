-------------------------------- MODULE Kmsg --------------------------------
(***************************************************************************)
(* The kernel's log: a ring of bytes that klog pushes records into, and    *)
(* the devices all, log and warn that tasks read it through (kmsg.c).      *)
(*                                                                         *)
(* Everything is done with interrupts off, so one call is one step.  What  *)
(* the file leaves to chance is where in the ring a reader's next call     *)
(* finds the bytes that it read half of.                                   *)
(***************************************************************************)
EXTENDS Integers, Sequences, SequencesExt

CONSTANTS
    Readers,          \* handles of the devices
    RingLen,          \* KMSG_BUFFER_SIZE
    Bodies,           \* what is logged: sequences of bytes
    ReadSizes,        \* lengths that READ is called with
    MaxRecords,       \* records pushed in one behaviour
    MaxReads          \* READs of one handle

ASSUME KmsgAssumption ==
    /\ RingLen \in Nat /\ RingLen > 4
    /\ \A b \in Bodies : b \in Seq(0..255) /\ Len(b) < 65536

VARIABLES
    ring,             \* kmsg_buffer
    head, tail,       \* kmsg_head, kmsg_tail
    handle,           \* per handle: the stream, the cursor, and bytes pending of a record
    records,          \* what was pushed so far
    got               \* what READ has given each handle so far

kmsgVars == <<ring, head, tail, handle, records, got>>

KLOG_INFO == 0
KLOG_WARN == 1
Levels == {KLOG_INFO, KLOG_WARN}
TAG == 1
HeaderLen == 4
All == [level |-> -1, labeled |-> TRUE]
Log == [level |-> KLOG_INFO, labeled |-> FALSE]
Warn == [level |-> KLOG_WARN, labeled |-> FALSE]
NoStream == [level |-> -2, labeled |-> FALSE]
NotOpen == [stream |-> NoStream, cursor |-> 0, pending |-> 0, reads |-> 0]

\* The labels "[INFO] " and "[WARN] ", of which only the difference matters.
Label(level) == <<-1, level>>

Ahead(c, n) == (c + n) % RingLen
Between(c, h) == (h - c + RingLen) % RingLen
Bytes(c, n) == [i \in 1..n |-> ring[Ahead(c, i - 1)]]

-----------------------------------------------------------------------------
kmsg_push_byte(r, byte) ==
    LET next == Ahead(r.head, 1)
    IN  [ring |-> [r.ring EXCEPT ![r.head] = byte],
         head |-> next,
         tail |-> IF next = r.tail THEN Ahead(r.tail, 1) ELSE r.tail]

Record(level, body) == <<TAG, level, Len(body) % 256, Len(body) \div 256>> \o body

\* kmsg_push, of a message that klog has cut to its buffer's size.
KmsgPush(level, body) ==
    /\ Len(records) < MaxRecords
    /\ LET r == FoldLeft(kmsg_push_byte, [ring |-> ring, head |-> head, tail |-> tail], Record(level, body))
       IN  ring' = r.ring /\ head' = r.head /\ tail' = r.tail
    /\ records' = Append(records, [level |-> level, body |-> body])
    /\ UNCHANGED <<handle, got>>

\* The first place from c on where a record seems to start.
Starts(c) == ring[c] = TAG /\ (Between(c, head) < HeaderLen \/ ring[Ahead(c, 1)] \in Levels)
kmsg_resync(from) ==
    LET far == Between(from, head)
        found == {n \in 0..(far - 1) : Starts(Ahead(from, n))}
    IN  IF found = {} THEN head ELSE Ahead(from, CHOOSE n \in found : \A k \in found : n <= k)

KmsgOpen(h, s) ==
    /\ handle[h].stream = NoStream
    /\ handle' = [handle EXCEPT ![h] = [stream |-> s, cursor |-> kmsg_resync(tail), pending |-> 0, reads |-> 0]]
    /\ got' = [got EXCEPT ![h] = <<>>]
    /\ UNCHANGED <<ring, head, tail, records>>

KmsgClose(h) ==
    /\ handle[h].stream # NoStream
    /\ handle' = [handle EXCEPT ![h] = NotOpen]
    /\ UNCHANGED <<ring, head, tail, records, got>>

-----------------------------------------------------------------------------
\* A READ under way: where it is, what it has and how much of a record is left.
Progress(c, out, pending) == [cursor |-> c, out |-> out, pending |-> pending]

\* Copies a record, or as much of it as the caller has room for.
CopyBody(r, c, len, label, bodyLen) ==
    LET room == len - Len(r.out) - Len(label)
        take == IF bodyLen < room THEN bodyLen ELSE room
    IN  Progress(Ahead(c, take), r.out \o label \o Bytes(c, take), bodyLen - take)

\* The records from the cursor on, while there is room.
RECURSIVE ReadOn(_, _, _)
ReadOn(s, r, len) ==
    LET c == r.cursor
        b == Ahead(c, HeaderLen)
        level == IF ring[Ahead(c, 1)] \in Levels THEN ring[Ahead(c, 1)] ELSE KLOG_INFO
        bodyLen == ring[Ahead(c, 2)] + 256 * ring[Ahead(c, 3)]
        label == IF s.labeled THEN Label(level) ELSE <<>>
    IN  CASE r.pending > 0 \/ c = head \/ Len(r.out) >= len -> r
          [] OTHER ->
             CASE ring[c] # TAG -> ReadOn(s, Progress(Ahead(c, 1), Append(r.out, ring[c]), 0), len)
               [] ring[c] = TAG /\ Between(c, head) < HeaderLen -> r
               [] OTHER ->
                  CASE Between(b, head) < bodyLen -> Progress(b, r.out, 0)
                    [] Between(b, head) >= bodyLen /\ s.level >= 0 /\ s.level # level ->
                       ReadOn(s, Progress(Ahead(b, bodyLen), r.out, 0), len)
                    [] OTHER ->
                       IF Len(r.out) + Len(label) > len THEN r
                       ELSE ReadOn(s, CopyBody(r, b, len, label, bodyLen), len)

\* As a bug: a reader that has everything counts as lost.
Lost_AtTheEnd(f) == f.cursor < tail \/ f.cursor >= head

\* A cursor outside what the ring holds: the ends are taken as they are, though
\* the ring wraps.
Lost(f) == f.cursor < tail \/ f.cursor > head

\* kmsg_read.  Who is lost starts over at the oldest record.
KmsgRead(h, len) ==
    LET f == handle[h]
        c == IF Lost(f) THEN kmsg_resync(tail) ELSE f.cursor
        due == IF Lost(f) THEN 0 ELSE f.pending
        n == IF due < len THEN due ELSE len
        r == ReadOn(f.stream, Progress(Ahead(c, n), Bytes(c, n), due - n), len)
    IN  /\ f.stream # NoStream /\ f.reads < MaxReads
        /\ handle' = [handle EXCEPT ![h] = [@ EXCEPT !.cursor = r.cursor, !.pending = r.pending, !.reads = @ + 1]]
        /\ got' = [got EXCEPT ![h] = @ \o r.out]
        /\ UNCHANGED <<ring, head, tail, records>>

-----------------------------------------------------------------------------
KmsgInit ==
    /\ ring = [i \in 0..(RingLen - 1) |-> 0] /\ head = 0 /\ tail = 0 /\ records = <<>>
    /\ handle = [h \in Readers |-> NotOpen] /\ got = [h \in Readers |-> <<>>]

KmsgNext ==
    \/ \E level \in Levels, body \in Bodies : KmsgPush(level, body)
    \/ \E h \in Readers :
          \/ KmsgClose(h)
          \/ \E s \in {All, Log, Warn} : KmsgOpen(h, s)
          \/ \E len \in ReadSizes : KmsgRead(h, len)

-----------------------------------------------------------------------------
Wanted(s, r) == s.level < 0 \/ s.level = r.level
Shown(s, r) == (IF s.labeled THEN Label(r.level) ELSE <<>>) \o r.body
Rendering(s) == FoldLeft(LAMBDA out, r : IF Wanted(s, r) THEN out \o Shown(s, r) ELSE out, <<>>, records)
Pushed == FoldLeft(LAMBDA n, r : n + HeaderLen + Len(r.body), 0, records)

\* Until the ring has wrapped, a reader is given every record of its level once,
\* whole and in order, however small its buffer is (kmsg.c:117-214).
NoRecordSkipped ==
    Pushed < RingLen =>
        \A h \in Readers : handle[h].stream # NoStream => IsPrefix(got[h], Rendering(handle[h].stream))
=============================================================================
