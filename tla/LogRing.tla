------------------------------ MODULE LogRing ------------------------------
(***************************************************************************)
(* The two rings that carry messages of the C code to the log file: dtn_log *)
(* and dtn_error, which any thread calls, and the thread that runs         *)
(* initialize_clog.                                                        *)
(*                                                                         *)
(* A writer takes a ticket (claim), copies its message into the ticket's   *)
(* slot, and only then increments count.  The reader takes count for the   *)
(* number of tickets it may read, although it counts messages completed in *)
(* any order: the slot at its cursor may still be in the hands of a slow   *)
(* writer.  Nothing stops writers from going round the ring past the       *)
(* reader or past each other.  Messages are identified by their tickets.   *)
(***************************************************************************)
EXTENDS Integers, FiniteSets

CONSTANTS Writers,    \* threads that log
          N,          \* ESCP_MSG_COUNT
          Limit,      \* bound: per ring, the messages of a session (below 2^31,
                      \* where the int that holds a ticket becomes negative)
          Server      \* do_server: errors are sent to the sender as well

Rings == {"log", "err"}

ASSUME LogAssumption ==
    /\ IsFiniteSet(Writers) /\ N \in Nat \ {0}
    /\ Limit \in [Rings -> Nat] /\ Server \in BOOLEAN

Empty == -1    \* a slot as memset left it
Torn  == -2    \* a slot that strncpy is filling

VARIABLES
    claim, count,  \* per ring: tickets taken, messages completed
    slot,          \* per ring and slot: the ticket of the message in it
    writer,        \* per writer: where it is, its ring and its ticket
    reader,        \* the logging thread: where it is, its ring, what it has copied
    cursor,        \* per ring
    meta,          \* the metadata connection exists
    lapped         \* per ring: a writer took the slot another was still filling
                   \* (history, not in the code)

writerVars == <<claim, count, slot, writer, lapped>>
readerVars == <<reader, cursor>>
vars == <<writerVars, readerVars, meta>>

NotWriting == [pc |-> "out", ring |-> "log", ticket |-> 0]

Init ==
    /\ claim = [r \in Rings |-> 0] /\ count = [r \in Rings |-> 0]
    /\ slot = [r \in Rings |-> [i \in 0 .. N - 1 |-> Empty]]
    /\ writer = [w \in Writers |-> NotWriting]
    /\ reader = [pc |-> "start", ring |-> "log", msg |-> Empty]
    /\ cursor = [r \in Rings |-> 0]
    /\ meta = FALSE
    /\ lapped = [r \in Rings |-> FALSE]

Running == reader.pc # "aborted"

\* The writers between their ticket and their increment of count.
InFlight(r) == {w \in Writers : writer[w].pc # "out" /\ writer[w].ring = r}

-----------------------------------------------------------------------------
(* dtn_log and dtn_error.                                                  *)

Claim(w, r) ==
    /\ Running /\ writer[w].pc = "out" /\ claim[r] < Limit[r]
    /\ writer' = [writer EXCEPT ![w] = [pc |-> "claimed", ring |-> r, ticket |-> claim[r]]]
    /\ claim' = [claim EXCEPT ![r] = @ + 1]
    /\ lapped' = [lapped EXCEPT ![r] = @ \/ \E v \in InFlight(r) :
                                               writer[v].ticket % N = claim[r] % N]
    /\ UNCHANGED <<count, slot, readerVars, meta>>

\* strncpy; a reader may look at the slot in the middle of it.
StartCopy(w) ==
    /\ Running /\ writer[w].pc = "claimed"
    /\ writer' = [writer EXCEPT ![w].pc = "copying"]
    /\ slot' = [slot EXCEPT ![writer[w].ring][writer[w].ticket % N] = Torn]
    /\ UNCHANGED <<claim, count, lapped, readerVars, meta>>

EndCopyTo(w, i) ==
    /\ Running /\ writer[w].pc = "copying"
    /\ writer' = [writer EXCEPT ![w].pc = "copied"]
    /\ slot' = [slot EXCEPT ![writer[w].ring][i] = writer[w].ticket]
    /\ UNCHANGED <<claim, count, lapped, readerVars, meta>>

\* Mutant of EndCopy: the slot that follows.
EndCopyNext(w) == EndCopyTo(w, (writer[w].ticket + 1) % N)

EndCopy(w) == EndCopyTo(w, writer[w].ticket % N)

CountFrom(w, pcs) ==
    /\ Running /\ writer[w].pc \in pcs
    /\ writer' = [writer EXCEPT ![w] = NotWriting]
    /\ count' = [count EXCEPT ![writer[w].ring] = @ + 1]
    /\ UNCHANGED <<claim, slot, lapped, readerVars, meta>>

\* Mutant of Count: before the copy.
CountEarly(w) == CountFrom(w, {"claimed", "copied"})

Count(w) == CountFrom(w, {"copied"})

-----------------------------------------------------------------------------
(* The reader.                                                             *)

\* initialize_logging starts the thread, unless there is no log file or it (or
\* syslog) cannot be opened.
InitializeLogging ==
    /\ reader.pc = "start"
    /\ \E pc \in {"load", "none"} : reader' = [reader EXCEPT !.pc = pc]
    /\ UNCHANGED <<writerVars, cursor, meta>>

\* dtn_log_getnext and dtn_err_getnext: NULL, or the cursor skips what has been
\* overrun.  initialize_clog asks the log ring first, then the ring of errors.
GetNextBy(start, empty) ==
    /\ reader.pc = "load"
    /\ LET r == reader.ring IN
       IF empty
       THEN /\ reader' = [reader EXCEPT !.ring = IF r = "log" THEN "err" ELSE "log"]
            /\ UNCHANGED cursor
       ELSE /\ reader' = [reader EXCEPT !.pc = "copy"]
            /\ cursor' = [cursor EXCEPT ![r] = start]
    /\ UNCHANGED <<writerVars, meta>>

Start == LET r == reader.ring IN IF count[r] - N > cursor[r] THEN count[r] - N ELSE cursor[r]
NothingNew(r) == cursor[r] >= count[r]

\* Mutants of GetNext: an overrun is not tested for; one message too many is
\* skipped; the newest message is left unread.
GetNextUnguarded == GetNextBy(count[reader.ring] - N, NothingNew(reader.ring))
GetNextSkip == GetNextBy(Start + IF Start > cursor[reader.ring] THEN 1 ELSE 0,
                         NothingNew(reader.ring))
GetNextLate == GetNextBy(Start, cursor[reader.ring] + 1 >= count[reader.ring])

GetNext == GetNextBy(Start, NothingNew(reader.ring))

\* memcpy, and the increment of the cursor.
CopyOut ==
    /\ reader.pc = "copy"
    /\ reader' = [reader EXCEPT !.pc = "split",
                                !.msg = slot[reader.ring][cursor[reader.ring] % N]]
    /\ cursor' = [cursor EXCEPT ![reader.ring] = @ + 1]
    /\ UNCHANGED <<writerVars, meta>>

\* split_at(6): a text shorter than that is a panic, which ends the process; a
\* text that is being written may be of any length.
SplitPanics ==
    /\ reader.pc = "split" /\ reader.msg \in {Empty, Torn}
    /\ reader' = [reader EXCEPT !.pc = "aborted"]
    /\ UNCHANGED <<writerVars, cursor, meta>>

\* The message is logged; an error of the receiver goes to parse_error first.
\* In either case the log ring is next.
Deliver ==
    /\ reader.pc = "split" /\ reader.msg # Empty
    /\ reader' = IF reader.ring = "err" /\ Server
                 THEN [reader EXCEPT !.pc = "send", !.msg = Empty]
                 ELSE [pc |-> "load", ring |-> "log", msg |-> Empty]
    /\ UNCHANGED <<writerVars, cursor, meta>>

\* parse_error ends in meta_send, which waits for a metadata connection.
ParseError ==
    /\ reader.pc = "send" /\ meta
    /\ reader' = [reader EXCEPT !.pc = "load", !.ring = "log"]
    /\ UNCHANGED <<writerVars, cursor, meta>>

MetaInit ==
    /\ Running /\ ~meta /\ meta' = TRUE
    /\ UNCHANGED <<writerVars, readerVars>>

-----------------------------------------------------------------------------
Write(w) == StartCopy(w) \/ EndCopy(w) \/ Count(w)
Reader == InitializeLogging \/ GetNext \/ CopyOut \/ SplitPanics \/ Deliver \/ ParseError
Next == MetaInit \/ Reader \/ \E w \in Writers : Write(w) \/ \E r \in Rings : Claim(w, r)

Spec == Init /\ [][Next]_vars

\* The reader asks the log ring and there is no further message.
LogRingDry == reader.pc = "load" /\ reader.ring = "log" /\ NothingNew("log")

\* A message that has been begun is completed, and the reader goes on with what
\* it finds.  Nothing ensures that it finds the log ring empty: Limit stands for
\* a stream of log messages that may as well go on for ever.  No thread has to
\* log, and there may never be a metadata connection.
FairSpec == Spec /\ WF_vars(Reader /\ ~LogRingDry) /\ \A w \in Writers : WF_vars(Write(w))

-----------------------------------------------------------------------------
(* Properties.                                                             *)

TypeOK ==
    /\ claim \in [Rings -> Nat] /\ count \in [Rings -> Nat] /\ cursor \in [Rings -> Nat]
    /\ slot \in [Rings -> [0 .. N - 1 -> Nat \cup {Empty, Torn}]]
    /\ writer \in [Writers -> [pc : {"out", "claimed", "copying", "copied"},
                               ring : Rings, ticket : Nat]]
    /\ reader \in [pc : {"start", "none", "load", "copy", "split", "send", "aborted"},
                   ring : Rings, msg : Nat \cup {Empty, Torn}]
    /\ meta \in BOOLEAN /\ lapped \in [Rings -> BOOLEAN]

\* The slot the reader is about to copy.
AtCursor == slot[reader.ring][cursor[reader.ring] % N]

\* The reader takes an empty slot for a message, which ends the process, only
\* while the writer of that very ticket is still at work: messages completed
\* out of order are the only cause, an overrun of the ring is none.
EmptyOnlyInFlight ==
    reader.pc = "copy" /\ AtCursor = Empty =>
        \E w \in InFlight(reader.ring) : writer[w].ticket = cursor[reader.ring]

\* The reader copies the message of its ticket, unless a writer is at work in
\* that slot, the ring has been overrun since count was read, or writers have
\* met in a slot.
ReadsItsTicket ==
    LET r == reader.ring IN
    /\ reader.pc = "copy" /\ claim[r] <= cursor[r] + N /\ ~lapped[r]
    /\ \A w \in InFlight(r) : writer[w].ticket # cursor[r]
    => AtCursor = cursor[r]

\* An overrun is skipped only where it happened: a message the cursor passes
\* without copying it has been overwritten, or a writer is about to do so
\* (unless writers have met in a slot).
OverrunIsReal ==
    [][reader.pc = "load" =>
         \A r \in Rings : \A c \in cursor[r] .. cursor'[r] - 1 :
            \/ slot[r][c % N] # c \/ lapped[r]
            \/ \E w \in InFlight(r) : writer[w].ticket % N = c % N]_vars

\* The two waits that keep errors from the log file and from the user's
\* terminal: the log ring always has another message, which initialize_clog
\* prefers, or the reader is in parse_error and there is no metadata connection.
Starved == \/ reader.pc = "load" /\ reader.ring = "log"
           \/ reader.pc = "send" /\ ~meta

\* Every error that has been completed is passed by the reader at last, unless
\* it stays in one of these waits, there is no reader, or the process has
\* aborted: errors that writers complete out of order or that overrun their ring
\* never leave the reader behind.
EveryErrorRead ==
    \/ <>[]Starved
    \/ \A k \in 1 .. Limit["err"] :
          count["err"] >= k ~> \/ cursor["err"] >= k
                               \/ reader.pc \in {"none", "aborted"}
=============================================================================
