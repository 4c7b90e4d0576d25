----------------------------- MODULE FileTable -----------------------------
(***************************************************************************)
(* The sender's file table (libdtn/src/file_io.c) with the threads that    *)
(* share it: the openers (iterate_file_worker, src/escp/sender.rs), which  *)
(* insert opened files, and the transmit workers (tx_worker, submit_work,  *)
(* libdtn/src/dtn.c), which claim files, attach to files other workers     *)
(* claimed, send their blocks and, the last one out, report and wipe them. *)
(*                                                                         *)
(* One action is one access to shared memory (an atomic operation, or a    *)
(* 64-byte memcpy_avx / memset_avx, whose state word is stored last) or    *)
(* one system call.  The IO engine is POSIX (queue depth 1).               *)
(***************************************************************************)
EXTENDS Integers, Sequences, FiniteSets

CONSTANTS NFiles,        \* files the transfer consists of
          Blocks,        \* Blocks[f]: number of non-empty blocks of file f
          Slots,         \* indices of file_stat
          CC,            \* FILE_STAT_COUNT_CC: probes of a file number
          Probe,         \* Probe[f][k]: the k-th slot hashed from number f
          Openers,       \* the GLOBAL_FILEOPEN_COUNT opening threads
          NWorkers,      \* thread ids: thread_count, and one for metadata
          THREAD_COUNT,  \* the size of file_activefile
          FDs            \* the descriptors the process may have open

Workers == 0 .. NWorkers - 1
FileNos == 1 .. NFiles
NoFile == 0
NoFD   == 0

-----------------------------------------------------------------------------
(* The state word as the set of its bits.  The two words that are never      *)
(* combined with other bits, 0xBedFace and FS_INIT, are single markers.      *)

Free        == {}
BedFace     == {-2}
FS_INIT     == {-1}
FS_IO       == 31
FS_COMPLETE == 30
StateWords  == {BedFace, FS_INIT} \cup SUBSET (Workers \cup {FS_IO, FS_COMPLETE})

ASSUME TableAssumption ==
    /\ NFiles \in Nat
    /\ Blocks \in [FileNos -> Nat]
    /\ Slots \subseteq Nat
    /\ CC \in Nat \ {0}
    /\ Probe \in [FileNos -> [1 .. CC -> Slots]]
    /\ IsFiniteSet(Openers)
    /\ NWorkers \in Nat \ {0}
    /\ THREAD_COUNT \in Nat
    \* tx_start asserts thread_count < THREAD_COUNT - 2 = 30: an entry of
    \* file_activefile and a state bit below FS_COMPLETE for every thread.
    /\ NWorkers < THREAD_COUNT /\ NWorkers <= FS_COMPLETE
    /\ FDs \subseteq Nat \ {NoFD}        \* 0 is standard input

\* A block is named by the file it was read from and its offset; a checksum,
\* the xor of block hashes, is the set of blocks that occur in it an odd
\* number of times.
BlockIds == FileNos \X Nat
Xor(c, b) == IF b \in c THEN c \ {b} ELSE c \cup {b}
BlocksOf(f) == {f} \X (0 .. Blocks[f] - 1)

FileStat == [state : StateWords, file_no : FileNos \cup {NoFile},
             fd : FDs \cup {NoFD}, block_offset : Nat, block_total : Nat,
             crc : SUBSET BlockIds]
Wiped == [state |-> Free, file_no |-> NoFile, fd |-> NoFD,
          block_offset |-> 0, block_total |-> 0, crc |-> {}]

Completion == [blocks : Nat, crc : SUBSET BlockIds]

VARIABLES
    file_stat,         \* the table
    file_count,        \* files inserted
    file_head,         \* files claimed by file_next
    file_tail,         \* files finished
    file_activefile,   \* per worker: the slot of the file it claimed last
    transfer_complete, \* set once every file is confirmed
    GLOBAL_FINO,       \* file numbers given out
    descr,             \* kernel: the file open on each descriptor
    opener,            \* openers: program counter and locals
    worker,            \* workers: program counter and locals
    sent,              \* history: blocks written to the data connections
    completions,       \* history: records pushed with fc_push, per file
    stale              \* history: some attach used an outdated copy

table == <<file_stat, file_count, file_head, file_tail, file_activefile>>
hist  == <<sent, completions, stale>>
vars  == <<table, transfer_complete, GLOBAL_FINO, descr, opener, worker, hist>>

-----------------------------------------------------------------------------
OpenerIdle == [pc |-> "idle", fino |-> NoFile, fd |-> NoFD, k |-> 1, slot |-> 0]

\* fc, fh, i, j are the locals of file_next; fs is the pointer into the
\* table, lcl the copy fs_lcl of its record, off the block being sent and
\* from the file it was read from.
WorkerStart == [pc |-> "count", fc |-> 0, fh |-> 0, i |-> 0, j |-> 0, fs |-> 0,
                lcl |-> Wiped, off |-> 0, from |-> NoFile]

OpenerPCs == {"idle", "probe", "fill", "added"}
WorkerPCs == {"count", "head", "grab", "cas", "scan", "copy", "attach",
              "complete", "find", "claim", "publish", "fetch", "read", "send",
              "tally", "remove", "close", "push", "wipe", "done", "aborted"}

OpenerState == [pc : OpenerPCs, fino : FileNos \cup {NoFile},
                fd : FDs \cup {NoFD}, k : 1 .. CC, slot : Slots \cup {0}]
WorkerState == [pc : WorkerPCs, fc : Nat, fh : Nat, i : 0 .. NWorkers,
                j : Slots \cup {0}, fs : Slots \cup {0}, lcl : FileStat,
                off : Nat, from : FileNos \cup {NoFile}]

Init ==
    /\ file_stat = [s \in Slots |-> Wiped]
    /\ file_count = 0 /\ file_head = 0 /\ file_tail = 0
    /\ file_activefile = [w \in Workers |-> 0]
    /\ transfer_complete = FALSE
    /\ GLOBAL_FINO = 0
    /\ descr = [d \in FDs |-> NoFile]
    /\ opener = [o \in Openers |-> OpenerIdle]
    /\ worker = [w \in Workers |-> WorkerStart]
    /\ sent = {}
    /\ completions = [f \in FileNos |-> << >>]
    /\ stale = FALSE

-----------------------------------------------------------------------------
(* Openers: iterate_file_worker from the open of a regular file to the      *)
(* return of file_addfile.                                                   *)

\* Mutant of OpenFile: the number is off by one.
OpenFileOff(o) ==
    /\ opener[o].pc = "idle"
    /\ GLOBAL_FINO < NFiles
    /\ \E d \in FDs :
          /\ descr[d] = NoFile
          /\ descr' = [descr EXCEPT ![d] = GLOBAL_FINO + 2]
          /\ opener' = [opener EXCEPT ![o] =
                          [OpenerIdle EXCEPT !.pc = "probe", !.fd = d,
                                             !.fino = GLOBAL_FINO + 2]]
    /\ GLOBAL_FINO' = GLOBAL_FINO + 1
    /\ UNCHANGED <<table, transfer_complete, worker, hist>>

\* open(2) takes the lowest free descriptor (with none free, EMFILE, it is
\* retried) and the file gets the next number.
OpenFile(o) ==
    /\ opener[o].pc = "idle"
    /\ GLOBAL_FINO < NFiles
    /\ \E d \in FDs :
          /\ descr[d] = NoFile
          /\ \A e \in FDs : descr[e] = NoFile => d <= e
          /\ descr' = [descr EXCEPT ![d] = GLOBAL_FINO + 1]
          /\ opener' = [opener EXCEPT ![o] =
                          [OpenerIdle EXCEPT !.pc = "probe", !.fd = d,
                                             !.fino = GLOBAL_FINO + 1]]
    /\ GLOBAL_FINO' = GLOBAL_FINO + 1
    /\ UNCHANGED <<table, transfer_complete, worker, hist>>

\* One compare-and-swap 0 -> 0xBedFace of file_addfile; when the last probe
\* fails the call returns NULL and the opener calls it again.
AddProbe(o) ==
    LET s == Probe[opener[o].fino][opener[o].k] IN
    /\ opener[o].pc = "probe"
    /\ \/ /\ file_stat[s].state = Free
          /\ file_stat' = [file_stat EXCEPT ![s].state = BedFace]
          /\ opener' = [opener EXCEPT ![o].pc = "fill", ![o].slot = s]
       \/ /\ file_stat[s].state # Free
          /\ opener' = [opener EXCEPT ![o].k = (@ % CC) + 1]
          /\ UNCHANGED file_stat
    /\ UNCHANGED <<file_count, file_head, file_tail, file_activefile,
                   transfer_complete, GLOBAL_FINO, descr, worker, hist>>

\* The memcpy_avx that publishes the record, state word last.
AddFill(o) ==
    /\ opener[o].pc = "fill"
    /\ file_stat' = [file_stat EXCEPT ![opener[o].slot] =
                       [Wiped EXCEPT !.state = FS_INIT, !.fd = opener[o].fd,
                                     !.file_no = opener[o].fino]]
    /\ opener' = [opener EXCEPT ![o].pc = "added"]
    /\ UNCHANGED <<file_count, file_head, file_tail, file_activefile,
                   transfer_complete, GLOBAL_FINO, descr, worker, hist>>

AddCount(o) ==
    /\ opener[o].pc = "added"
    /\ file_count' = file_count + 1
    /\ opener' = [opener EXCEPT ![o] = OpenerIdle]
    /\ UNCHANGED <<file_stat, file_head, file_tail, file_activefile,
                   transfer_complete, GLOBAL_FINO, descr, worker, hist>>

-----------------------------------------------------------------------------
(* Workers: file_next, choosing a file number.                              *)

Goto(w, pc) == worker' = [worker EXCEPT ![w].pc = pc]

LoadCount(w) ==
    /\ worker[w].pc = "count"
    /\ worker' = [worker EXCEPT ![w].pc = "head", ![w].fc = file_count]
    /\ UNCHANGED <<table, transfer_complete, GLOBAL_FINO, descr, opener, hist>>

LoadHead(w) ==
    LET avail == worker[w].fc - file_head IN
    /\ worker[w].pc = "head"
    /\ worker' = [worker EXCEPT ![w].fh = file_head,
                                ![w].i  = 0,
                                ![w].pc = IF avail > THREAD_COUNT THEN "grab"
                                          ELSE IF avail > 0 THEN "cas"
                                          ELSE "scan"]
    /\ UNCHANGED <<table, transfer_complete, GLOBAL_FINO, descr, opener, hist>>

\* "There are many available files, anything we grab is fine": the head is
\* advanced without looking at it again.
GrabHead(w) ==
    /\ worker[w].pc = "grab"
    /\ file_head' = file_head + 1
    /\ worker' = [worker EXCEPT ![w].fh = file_head + 1, ![w].pc = "find"]
    /\ UNCHANGED <<file_stat, file_count, file_tail, file_activefile,
                   transfer_complete, GLOBAL_FINO, descr, opener, hist>>

\* Mutant of CasHead: the head is stored, not compared and swapped.
CasHeadStore(w) ==
    /\ worker[w].pc = "cas"
    /\ file_head' = worker[w].fh + 1
    /\ worker' = [worker EXCEPT ![w].fh = @ + 1, ![w].pc = "find"]
    /\ UNCHANGED <<file_stat, file_count, file_tail, file_activefile,
                   transfer_complete, GLOBAL_FINO, descr, opener, hist>>

CasHead(w) ==
    /\ worker[w].pc = "cas"
    /\ \/ /\ file_head = worker[w].fh
          /\ file_head' = file_head + 1
          /\ worker' = [worker EXCEPT ![w].fh = file_head + 1, ![w].pc = "find"]
       \/ /\ file_head # worker[w].fh
          /\ Goto(w, "count")
          /\ UNCHANGED file_head
    /\ UNCHANGED <<file_stat, file_count, file_tail, file_activefile,
                   transfer_complete, GLOBAL_FINO, descr, opener, hist>>

-----------------------------------------------------------------------------
(* Workers: file_next, attaching to a file another worker has claimed.      *)

\* The position in file_activefile[i]; entries are never cleared, and 0 is
\* skipped.
Scan(w) ==
    /\ worker[w].pc = "scan"
    /\ \/ /\ worker[w].i < NWorkers
          /\ file_activefile[worker[w].i] # 0
          /\ worker' = [worker EXCEPT ![w].j  = file_activefile[worker[w].i],
                                      ![w].pc = "copy"]
       \/ /\ worker[w].i < NWorkers
          /\ file_activefile[worker[w].i] = 0
          /\ worker' = [worker EXCEPT ![w].i = @ + 1]
       \/ /\ worker[w].i = NWorkers
          /\ Goto(w, "complete")
    /\ UNCHANGED <<table, transfer_complete, GLOBAL_FINO, descr, opener, hist>>

CopySlot(w) ==
    LET r == file_stat[worker[w].j] IN
    /\ worker[w].pc = "copy"
    /\ \/ /\ FS_IO \in r.state
          /\ worker' = [worker EXCEPT ![w].lcl = r, ![w].pc = "attach"]
       \/ /\ FS_IO \notin r.state
          /\ worker' = [worker EXCEPT ![w].i = @ + 1, ![w].pc = "scan"]
    /\ UNCHANGED <<table, transfer_complete, GLOBAL_FINO, descr, opener, hist>>

\* Mutant of Attach: the bit is set without comparing the state word.
AttachBlind(w) ==
    LET j == worker[w].j IN
    /\ worker[w].pc = "attach"
    /\ file_stat' = [file_stat EXCEPT ![j].state = @ \cup {w}]
    /\ worker' = [worker EXCEPT ![w].fs = j, ![w].pc = "fetch"]
    /\ stale' = (stale \/ file_stat[j].file_no # worker[w].lcl.file_no)
    /\ UNCHANGED <<file_count, file_head, file_tail, file_activefile,
                   transfer_complete, GLOBAL_FINO, descr, opener, sent,
                   completions>>

\* The swap compares the state word only: the rest of the copy may by now
\* describe a file that has left the slot.
Attach(w) ==
    LET j == worker[w].j
        unmoved == file_stat[j].state = worker[w].lcl.state IN
    /\ worker[w].pc = "attach"
    /\ \/ /\ unmoved
          /\ file_stat' = [file_stat EXCEPT ![j].state = @ \cup {w}]
          /\ worker' = [worker EXCEPT ![w].fs = j, ![w].pc = "fetch"]
          /\ stale' = (stale \/ file_stat[j].file_no # worker[w].lcl.file_no)
       \/ /\ ~unmoved
          /\ worker' = [worker EXCEPT ![w].i = @ + 1, ![w].pc = "scan"]
          /\ UNCHANGED <<file_stat, stale>>
    /\ UNCHANGED <<file_count, file_head, file_tail, file_activefile,
                   transfer_complete, GLOBAL_FINO, descr, opener, sent,
                   completions>>

\* No file to work on: leave (sending BYE) if the transfer is complete,
\* otherwise start over after a delay.
CheckComplete(w) ==
    /\ worker[w].pc = "complete"
    /\ worker' = [worker EXCEPT ![w] =
                    [WorkerStart EXCEPT !.pc = IF transfer_complete THEN "done"
                                               ELSE "count"]]
    /\ UNCHANGED <<table, transfer_complete, GLOBAL_FINO, descr, opener, hist>>

-----------------------------------------------------------------------------
(* Workers: file_next, claiming the file with the chosen number.            *)

\* Mutant of FindSlot: a number that is not in the table is given up.
FindSlotOnce(w) ==
    /\ worker[w].pc = "find"
    /\ \/ \E k \in 1 .. CC :
             LET s == Probe[worker[w].fh][k] IN
             /\ file_stat[s].file_no = worker[w].fh
             /\ file_stat[s].state = FS_INIT
             /\ worker' = [worker EXCEPT ![w].j = s, ![w].lcl = file_stat[s],
                                         ![w].pc = "claim"]
       \/ /\ \A k \in 1 .. CC :
                file_stat[Probe[worker[w].fh][k]].file_no # worker[w].fh
          /\ worker' = [worker EXCEPT ![w] = WorkerStart]
    /\ UNCHANGED <<table, transfer_complete, GLOBAL_FINO, descr, opener, hist>>

\* The worker probes until some slot holds its number; it spins otherwise,
\* for ever with a number no file has (see GrabHead).
FindSlot(w) ==
    LET hits == {k \in 1 .. CC :
                   file_stat[Probe[worker[w].fh][k]].file_no = worker[w].fh} IN
    /\ worker[w].pc = "find"
    /\ worker[w].fh \in FileNos
    /\ \E k \in hits :
          LET s == Probe[worker[w].fh][k] IN
          /\ \A l \in hits : k <= l
          /\ file_stat[s].state = FS_INIT
          /\ worker' = [worker EXCEPT ![w].j = s, ![w].lcl = file_stat[s],
                                      ![w].pc = "claim"]
    /\ UNCHANGED <<table, transfer_complete, GLOBAL_FINO, descr, opener, hist>>

Claim(w) ==
    LET j == worker[w].j IN
    /\ worker[w].pc = "claim"
    /\ file_stat[j].state = FS_INIT
    /\ file_stat' = [file_stat EXCEPT ![j].state = {FS_COMPLETE, FS_IO, w}]
    /\ worker' = [worker EXCEPT ![w].fs = j, ![w].pc = "publish"]
    /\ UNCHANGED <<file_count, file_head, file_tail, file_activefile,
                   transfer_complete, GLOBAL_FINO, descr, opener, hist>>

Publish(w) ==
    /\ worker[w].pc = "publish"
    /\ file_activefile' = [file_activefile EXCEPT ![w] = worker[w].fs]
    /\ Goto(w, "fetch")
    /\ UNCHANGED <<file_stat, file_count, file_head, file_tail,
                   transfer_complete, GLOBAL_FINO, descr, opener, hist>>

-----------------------------------------------------------------------------
(* Workers: tx_worker and submit_work, one block.                           *)

FetchBlock(w) ==
    LET s == worker[w].fs IN
    /\ worker[w].pc = "fetch"
    /\ worker' = [worker EXCEPT ![w].off = file_stat[s].block_offset,
                                ![w].pc = "read"]
    /\ file_stat' = [file_stat EXCEPT ![s].block_offset = @ + 1]
    /\ UNCHANGED <<file_count, file_head, file_tail, file_activefile,
                   transfer_complete, GLOBAL_FINO, descr, opener, hist>>

\* pread(2) on the descriptor of the local copy: a block, end of file, or,
\* on a closed descriptor, an error on which VRFY ends the process.
ReadBlock(w) ==
    LET f == descr[worker[w].lcl.fd] IN
    /\ worker[w].pc = "read"
    /\ worker' = [worker EXCEPT
                    ![w].from = f,
                    ![w].pc = IF f = NoFile THEN "aborted"
                              ELSE IF worker[w].off < Blocks[f] THEN "send"
                              ELSE "remove"]
    /\ UNCHANGED <<table, transfer_complete, GLOBAL_FINO, descr, opener, hist>>

\* The checksum of the slot and the two network_send of header and payload.
SendBlock(w) ==
    LET b == <<worker[w].from, worker[w].off>> IN
    /\ worker[w].pc = "send"
    /\ file_stat' = [file_stat EXCEPT ![worker[w].fs].crc = Xor(@, b)]
    /\ sent' = sent \cup {[file_no |-> worker[w].lcl.file_no, block |-> b]}
    /\ Goto(w, "tally")
    /\ UNCHANGED <<file_count, file_head, file_tail, file_activefile,
                   transfer_complete, GLOBAL_FINO, descr, opener, completions,
                   stale>>

CountBlock(w) ==
    /\ worker[w].pc = "tally"
    /\ file_stat' = [file_stat EXCEPT ![worker[w].fs].block_total = @ + 1]
    /\ Goto(w, "fetch")
    /\ UNCHANGED <<file_count, file_head, file_tail, file_activefile,
                   transfer_complete, GLOBAL_FINO, descr, opener, hist>>

-----------------------------------------------------------------------------
(* Workers: submit_work at end of file.                                     *)

\* Mutant of RemoveIow: any worker that sees FS_COMPLETE takes itself for the
\* last one.
RemoveIowEager(w) ==
    LET s == worker[w].fs IN
    /\ worker[w].pc = "remove"
    /\ file_stat' = [file_stat EXCEPT ![s].state = @ \ {w, FS_IO}]
    /\ file_tail' = file_tail + 1
    /\ Goto(w, "close")
    /\ UNCHANGED <<file_count, file_head, file_activefile, transfer_complete,
                   GLOBAL_FINO, descr, opener, hist>>

\* Mutant of RemoveIow: the value from before the atomic_fetch_and is not
\* masked.
RemoveIowUnmasked(w) ==
    LET s == worker[w].fs IN
    /\ worker[w].pc = "remove"
    /\ file_stat' = [file_stat EXCEPT ![s].state = @ \ {w, FS_IO}]
    /\ file_stat[s].state # {FS_COMPLETE}
    /\ worker' = [worker EXCEPT ![w] = WorkerStart]
    /\ UNCHANGED <<file_count, file_head, file_tail, file_activefile,
                   transfer_complete, GLOBAL_FINO, descr, opener, hist>>

\* file_iow_remove: give up the worker's bit and stop further attaches.  The
\* worker whose result is FS_COMPLETE alone is the last one out.
RemoveIow(w) ==
    LET s == worker[w].fs
        res == file_stat[s].state \ {w, FS_IO} IN
    /\ worker[w].pc = "remove"
    /\ file_stat' = [file_stat EXCEPT ![s].state = res]
    /\ \/ /\ res = {FS_COMPLETE}
          /\ file_tail' = file_tail + 1
          /\ Goto(w, "close")
       \/ /\ res # {FS_COMPLETE}
          /\ worker' = [worker EXCEPT ![w] = WorkerStart]
          /\ UNCHANGED file_tail
    /\ UNCHANGED <<file_count, file_head, file_activefile, transfer_complete,
                   GLOBAL_FINO, descr, opener, hist>>

CloseFd(w) ==
    /\ worker[w].pc = "close"
    /\ descr' = [descr EXCEPT ![worker[w].lcl.fd] = NoFile]
    /\ Goto(w, "push")
    /\ UNCHANGED <<table, transfer_complete, GLOBAL_FINO, opener, hist>>

\* Copy the record and hand it to the completion queue (module FcRing).
PushCompletion(w) ==
    LET r == file_stat[worker[w].fs] IN
    /\ worker[w].pc = "push"
    /\ completions' = [completions EXCEPT ![r.file_no] =
                         Append(@, [blocks |-> r.block_total, crc |-> r.crc])]
    /\ Goto(w, "wipe")
    /\ UNCHANGED <<table, transfer_complete, GLOBAL_FINO, descr, opener, sent,
                   stale>>

Wipe(w) ==
    /\ worker[w].pc = "wipe"
    /\ file_stat' = [file_stat EXCEPT ![worker[w].fs] = Wiped]
    /\ worker' = [worker EXCEPT ![w] = WorkerStart]
    /\ UNCHANGED <<file_count, file_head, file_tail, file_activefile,
                   transfer_complete, GLOBAL_FINO, descr, opener, hist>>

-----------------------------------------------------------------------------
\* escp_sender calls file_completetransfer once files_ok >= files_total: the
\* receiver has confirmed every file, each against the completion pushed.
CompleteTransfer ==
    /\ ~transfer_complete
    /\ \A f \in FileNos : completions[f] # << >>
    /\ transfer_complete' = TRUE
    /\ UNCHANGED <<table, GLOBAL_FINO, descr, opener, worker, hist>>

OpenerStep(o) == OpenFile(o) \/ AddProbe(o) \/ AddFill(o) \/ AddCount(o)

WorkerStep(w) ==
    \/ LoadCount(w) \/ LoadHead(w) \/ GrabHead(w) \/ CasHead(w)
    \/ Scan(w) \/ CopySlot(w) \/ Attach(w) \/ CheckComplete(w)
    \/ FindSlot(w) \/ Claim(w) \/ Publish(w)
    \/ FetchBlock(w) \/ ReadBlock(w) \/ SendBlock(w) \/ CountBlock(w)
    \/ RemoveIow(w) \/ CloseFd(w) \/ PushCompletion(w) \/ Wipe(w)

AllDone == \A w \in Workers : worker[w].pc = "done"

\* finish_transfer has joined the workers.
Terminated == AllDone /\ UNCHANGED vars

Next ==
    \/ \E o \in Openers : OpenerStep(o)
    \/ \E w \in Workers : WorkerStep(w)
    \/ CompleteTransfer
    \/ Terminated

Spec == Init /\ [][Next]_vars

\* Every thread is scheduled by the kernel and no step waits for a lock.
FairSpec ==
    /\ Spec
    /\ \A o \in Openers : WF_vars(OpenerStep(o))
    /\ \A w \in Workers : WF_vars(WorkerStep(w))
    /\ WF_vars(CompleteTransfer)

-----------------------------------------------------------------------------
(* Properties.                                                              *)

TypeOK ==
    /\ file_stat \in [Slots -> FileStat]
    /\ file_count \in Nat /\ file_head \in Nat /\ file_tail \in Nat
    /\ file_activefile \in [Workers -> Slots \cup {0}]
    /\ transfer_complete \in BOOLEAN /\ stale \in BOOLEAN
    /\ GLOBAL_FINO \in 0 .. NFiles
    /\ descr \in [FDs -> FileNos \cup {NoFile}]
    /\ opener \in [Openers -> OpenerState]
    /\ worker \in [Workers -> WorkerState]
    /\ sent \subseteq [file_no : FileNos \cup {NoFile}, block : BlockIds]
    /\ completions \in [FileNos -> Seq(Completion)]

\* A file is reported to fc_push at most once, and the report the verifier
\* compares with the receiver's (block_total and crc read by the last worker
\* out, submit_work) accounts for every block of the file exactly once, all
\* of them already on the wire.
CompletionExact ==
    ~stale => \A f \in FileNos :
        \/ completions[f] = << >>
        \/ /\ completions[f] = <<[blocks |-> Blocks[f], crc |-> BlocksOf(f)]>>
           /\ \A b \in BlocksOf(f) : [file_no |-> f, block |-> b] \in sent

\* A block travels under the number of the file it was read from: the
\* descriptor in a worker's private copy is never closed, nor reused for
\* another file, while the worker reads with it (no "Read Error" exit of
\* submit_work).
DescriptorLive ==
    ~stale => \A w \in Workers :
        /\ worker[w].pc # "aborted"
        /\ worker[w].pc = "read" => descr[worker[w].lcl.fd] = worker[w].lcl.file_no
        /\ worker[w].pc \in {"send", "tally"} => worker[w].from = worker[w].lcl.file_no

\* The worker that closes, reports and wipes a slot is alone on it: no other
\* worker still works through a pointer to the slot (file_iow_remove returned
\* FS_COMPLETE alone), so that no counter update or second report is lost in
\* the wipe.
Attached == {"publish", "fetch", "read", "send", "tally", "remove", "aborted"}
Leaving  == {"close", "push", "wipe"}
LastOutAlone ==
    \A w, v \in Workers :
        (/\ v # w
         /\ worker[w].pc \in Leaving
         /\ worker[v].pc \in Attached \cup Leaving)
        => worker[v].fs # worker[w].fs

\* An attach enters the file the copy was taken of ("see if we can attach to
\* an existing file", file_next): the state word compared by the swap
\* identifies the record.
NoStaleAttach == ~stale

\* Of the workers that have read the same file_head (file_next) each goes on
\* with a number of its own, at most the head, and a record that is about to be
\* claimed bears that number and is still as the opener published it.
Claiming(w) == worker[w].pc \in {"find", "claim"}
ClaimedOnce ==
    \A w \in Workers : Claiming(w) =>
        /\ worker[w].fh <= file_head
        /\ \A v \in Workers :
              (Claiming(v) /\ worker[v].fh = worker[w].fh) => v = w
        /\ worker[w].pc = "claim" =>
              /\ file_stat[worker[w].j].state = FS_INIT
              /\ file_stat[worker[w].j].file_no = worker[w].fh

\* "There are many available files, anything we grab is fine" (file_next): a
\* worker that advances the head on the strength of an earlier look at it gets
\* the number of a file.  With a number no file has or will get it never looks
\* at transfer_complete again, and finish_transfer never joins it.
NoPhantomClaim ==
    \A w \in Workers : worker[w].pc = "find" => worker[w].fh <= NFiles

\* Every file is reported and every worker leaves, so that finish_transfer
\* joins: a worker that waits for the file of an opener gets it, the opener
\* finds a slot and the workers' detaching and wiping provides one.
Ended == AllDone /\ \A f \in FileNos : completions[f] # << >>
Termination == <>(stale \/ Ended)

\* Every worker waits for a number whose opener has not found a slot, and
\* every slot the opener probes holds a file with a later number, which nobody
\* has claimed: file_next and file_addfile then wait for each other.
ShutOut ==
    \A w \in Workers :
        /\ worker[w].pc = "find"
        /\ \E o \in Openers :
              opener[o].pc = "probe" /\ opener[o].fino = worker[w].fh
        /\ \A k \in 1 .. CC :
              LET r == file_stat[Probe[worker[w].fh][k]] IN
              /\ r.state = FS_INIT
              /\ \A v \in Workers : r.file_no # worker[v].fh

\* Numbers that openers put into the table out of order, on few slots, stop
\* the transfer in no other way than by shutting out a number the workers
\* wait for.
EndsUnlessShutOut == <>(stale \/ ShutOut \/ Ended)
=============================================================================
