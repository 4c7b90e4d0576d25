------------------------------ MODULE MetaRing ------------------------------
(***************************************************************************)
(* The metadata buffer of libdtn/src/dtn.c: a ring of N 64-byte lines that *)
(* network_recv fills with variable-length messages from the meta          *)
(* connection and the application empties with meta_recv/meta_complete.    *)
(* A message occupies consecutive lines; one that would reach the end of   *)
(* the ring leaves a marker and starts over at line 0.                     *)
(***************************************************************************)
EXTENDS Integers, Sequences

CONSTANTS N,         \* METABUF_SZ / 64: lines of the buffer
          Increments,\* (sz + 16 + 63) / 64 for the message sizes that occur
          MaxMsgs    \* bound: messages in a behaviour

\* meta_send refuses more than 1 MB and the buffer holds 4 MB: a message takes
\* less than half of the lines.
ASSUME MetaAssumption ==
    /\ N \in Nat \ {0}
    /\ Increments \subseteq Nat \ {0}
    /\ \A i \in Increments : 2 * i < N
    /\ MaxMsgs \in Nat

Lines    == 0 .. N - 1
Messages == [id : 1 .. MaxMsgs, incr : Increments]

\* Contents of a line: the first line of message m (its size is in the
\* header), a further line of m, the marker ~0, or nothing.
NoMessage == [id |-> 0, incr |-> 0]
Marker    == [msg |-> NoMessage, first |-> FALSE, mark |-> TRUE]
Blank     == [msg |-> NoMessage, first |-> FALSE, mark |-> FALSE]
FirstOf(m) == [msg |-> m, first |-> TRUE, mark |-> FALSE]
RestOf(m)  == [msg |-> m, first |-> FALSE, mark |-> FALSE]

VARIABLES
    metabuf,    \* the lines
    metahead,   \* published head, in lines since the start
    metatail,   \* tail, in lines since the start
    wr,         \* writer (network_recv): program counter and locals
    rd,         \* reader: program counter and the pointer it was given
    log,        \* history: every message that arrived
    consumed    \* history: messages completed

vars == <<metabuf, metahead, metatail, wr, rd, log, consumed>>

WriterIdle == [pc |-> "idle", m |-> NoMessage, head |-> 0, tail |-> 0]
ReaderIdle == [pc |-> "idle", ptr |-> 0]

Init ==
    /\ metabuf = [l \in Lines |-> Blank]
    /\ metahead = 0 /\ metatail = 0
    /\ wr = WriterIdle
    /\ rd = ReaderIdle
    /\ log = << >>
    /\ consumed = 0

-----------------------------------------------------------------------------
(* network_recv, FIHDR_META                                                 *)

\* A message header arrives: load head and tail, and if the message would
\* reach the end of the buffer leave the marker and move on to line 0.
Arrive(incr) ==
    LET m == [id |-> Len(log) + 1, incr |-> incr]
        h == metahead % N
        wrap == h + incr >= N IN
    /\ wr.pc = "idle"
    /\ Len(log) < MaxMsgs
    /\ log' = Append(log, m)
    /\ metabuf' = IF wrap THEN [metabuf EXCEPT ![h] = Marker] ELSE metabuf
    /\ wr' = [pc |-> "room", m |-> m, tail |-> metatail,
              head |-> IF wrap THEN metahead + (N - h) ELSE metahead]
    /\ UNCHANGED <<metahead, metatail, rd, consumed>>

\* Mutant of NoRoom: a message may fill the gap up to the tail completely.
NoRoomExact(tail) ==
    LET h == wr.head % N
        t == tail % N IN
    \/ tail + N <= wr.head
    \/ h < t /\ h + wr.m.incr > t

\* Not enough room, judged by the tail loaded last.
NoRoom(tail) ==
    LET h == wr.head % N
        t == tail % N IN
    \/ tail + N <= wr.head
    \/ h < t /\ h + wr.m.incr >= t

\* Mutant of AwaitRoom: the tail is not loaded again.
AwaitRoomStale ==
    /\ wr.pc = "room"
    /\ NoRoom(wr.tail)
    /\ UNCHANGED vars

AwaitRoom ==
    /\ wr.pc = "room"
    /\ NoRoom(wr.tail)
    /\ wr' = [wr EXCEPT !.tail = metatail]
    /\ UNCHANGED <<metabuf, metahead, metatail, rd, log, consumed>>

WriteHeader ==
    /\ wr.pc = "room"
    /\ ~NoRoom(wr.tail)
    /\ metabuf' = [metabuf EXCEPT ![wr.head % N] = FirstOf(wr.m)]
    /\ wr' = [wr EXCEPT !.pc = "body"]
    /\ UNCHANGED <<metahead, metatail, rd, log, consumed>>

WriteBody ==
    LET h == wr.head % N IN
    /\ wr.pc = "body"
    /\ metabuf' = [l \in Lines |-> IF l \in h + 1 .. h + wr.m.incr - 1
                                   THEN RestOf(wr.m) ELSE metabuf[l]]
    /\ wr' = [wr EXCEPT !.pc = "publish"]
    /\ UNCHANGED <<metahead, metatail, rd, log, consumed>>

\* Once the authentication tag has been checked the message is visible.
Publish ==
    /\ wr.pc = "publish"
    /\ metahead' = wr.head + wr.m.incr
    /\ wr' = WriterIdle
    /\ UNCHANGED <<metabuf, metatail, rd, log, consumed>>

-----------------------------------------------------------------------------
(* The reader                                                               *)

\* Mutant of Recv: the tail is not moved over the marker.
RecvNoSkip ==
    LET t == metatail % N
        skip == metabuf[t].mark IN
    /\ rd.pc = "idle"
    /\ metatail < metahead
    /\ rd' = [pc |-> "holding", ptr |-> IF skip THEN 0 ELSE t]
    /\ UNCHANGED <<metabuf, metahead, metatail, wr, log, consumed>>

\* meta_recv returning a message; past a marker it first moves the tail.
Recv ==
    LET t == metatail % N
        skip == metabuf[t].mark IN
    /\ rd.pc = "idle"
    /\ metatail < metahead
    /\ metatail' = IF skip THEN metatail + (N - t) ELSE metatail
    /\ rd' = [pc |-> "holding", ptr |-> IF skip THEN 0 ELSE t]
    /\ UNCHANGED <<metabuf, metahead, wr, log, consumed>>

\* meta_complete: the size is read again from the line at the tail.
Complete ==
    LET t == metatail % N IN
    /\ rd.pc = "holding"
    /\ metatail' = metatail + metabuf[t].msg.incr
    /\ rd' = ReaderIdle
    /\ consumed' = consumed + 1
    /\ UNCHANGED <<metabuf, metahead, wr, log>>

-----------------------------------------------------------------------------
WriterStep == (\E i \in Increments : Arrive(i))
              \/ AwaitRoom \/ WriteHeader \/ WriteBody \/ Publish
ReaderStep == Recv \/ Complete

\* Every message has arrived and has been completed.
Drained ==
    /\ wr.pc = "idle" /\ Len(log) = MaxMsgs
    /\ rd.pc = "idle" /\ metatail >= metahead
    /\ UNCHANGED vars

Next == WriterStep \/ ReaderStep \/ Drained
Spec == Init /\ [][Next]_vars

\* The network thread is scheduled, and the application polls meta_recv and
\* completes what it receives.
FairSpec ==
    /\ Spec
    /\ WF_vars(AwaitRoom \/ WriteHeader \/ WriteBody \/ Publish)
    /\ WF_vars(ReaderStep)

-----------------------------------------------------------------------------
TypeOK ==
    /\ DOMAIN metabuf = Lines
    /\ \A l \in Lines : metabuf[l].msg \in Messages \cup {NoMessage}
    /\ metahead \in Nat /\ metatail \in Nat
    /\ wr.pc \in {"idle", "room", "body", "publish"}
    /\ wr.m \in Messages \cup {NoMessage}
    /\ wr.head \in Nat /\ wr.tail \in Nat
    /\ rd \in [pc : {"idle", "holding"}, ptr : Lines]
    /\ log \in Seq(Messages)
    /\ consumed \in 0 .. MaxMsgs

\* The bytes at the reader's pointer: a message if all its lines are there.
AtPointer ==
    LET m == metabuf[rd.ptr].msg IN
    IF /\ metabuf[rd.ptr] = FirstOf(m)
       /\ \A l \in rd.ptr + 1 .. rd.ptr + m.incr - 1 :
            l \in Lines /\ metabuf[l] = RestOf(m)
    THEN m ELSE Marker

Published == Len(log) - (IF wr.pc = "idle" THEN 0 ELSE 1)

\* The ring implements the abstract channel: what the reader finds at its
\* pointer, for as long as it holds it, is the oldest message not completed.
Channel == INSTANCE MetaChannel WITH
    Messages <- Messages,
    NoMessage <- NoMessage,
    queue    <- SubSeq(log, consumed + 1, Published),
    current  <- IF rd.pc = "holding" THEN AtPointer ELSE NoMessage

\* meta_recv hands out every message once, in order and intact, across
\* wrap-arounds and while the next message is being written ("meta_ functions
\* are SPSC", dtn.c:727).
ImplementsChannel == Channel!Spec

\* A writer waiting for room gets it: the reader can always free enough lines
\* by completing what is published, and every message that arrived is
\* completed.
EveryMessageCompleted == \A n \in 1 .. MaxMsgs : (Len(log) >= n) ~> (consumed >= n)
=============================================================================
