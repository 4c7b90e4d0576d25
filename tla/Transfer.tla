------------------------------ MODULE Transfer ------------------------------
(***************************************************************************)
(* A transfer end to end: the sender's main thread (src/escp/sender.rs)    *)
(* announces files, tells the receiver how many blocks to expect and       *)
(* verifies its confirmations; the receiver's main thread                  *)
(* (src/escp/receiver.rs) opens, closes and confirms files; one worker per *)
(* data connection (rx_worker, libdtn/src/dtn.c) writes blocks.            *)
(*                                                                         *)
(* What other modules establish is used in abstract form: workers of the   *)
(* sender send every block of a file once and then report it (FileTable),  *)
(* reports come out in order (FcRing), metadata is a FIFO (MetaChannel),   *)
(* numbers are announced without gaps (FileIteration).  Data connections   *)
(* hold a bounded number of blocks; nothing orders them with each other or *)
(* with the metadata.                                                      *)
(***************************************************************************)
EXTENDS Integers, Sequences, FiniteSets

CONSTANTS NFiles,      \* files_total
          Blocks,      \* Blocks[f]: number of non-empty blocks of file f
          Conns,       \* data connections, with a worker at each end
          ConnCap,     \* blocks a connection holds
          Openers,     \* GLOBAL_FILEOPEN_COUNT
          TxSlots,     \* TxSlots[f]: files in the sender's table with which all
                       \*   the slots hashed from number f are taken
          RxSlots,     \* places in the receiver's file table
          FdLimit,     \* descriptors the receiver has for files
          Unwritable,  \* files that the receiver's open(2) may refuse
          Unreachable, \* files whose directory the receiver may fail to make
          Alterable,   \* blocks that may arrive altered: <<file, offset>>
          StatMax      \* confirmations in a message (4096)

FileNos == 1 .. NFiles
NoFile  == 0

ASSUME TransferAssumption ==
    /\ NFiles \in Nat
    /\ Blocks \in [FileNos -> Nat]
    /\ ConnCap \in Nat \ {0} /\ Openers \in Nat \ {0}
    /\ TxSlots \in [FileNos -> Nat \ {0}]
    /\ RxSlots \in Nat \ {0} /\ FdLimit \in Nat \ {0}
    /\ Unwritable \subseteq FileNos /\ Unreachable \subseteq FileNos
    /\ Alterable \subseteq FileNos \X Nat
    /\ StatMax \in Nat \ {0}

\* A block: its file, its offset and whether it is as it was read.  A checksum
\* is the set of blocks that occur in it an odd number of times.
BlockIds == FileNos \X Nat \X BOOLEAN
Xor(c, b) == IF b \in c THEN c \ {b} ELSE c \cup {b}
Whole(f) == {f} \X (0 .. Blocks[f] - 1) \X {TRUE}

VARIABLES
    stage,       \* sender: where each file is
    head,        \* sender: numbers claimed by the workers
    offset,      \* sender: next block of each file
    tx,          \* sender: the file of each worker
    fc,          \* sender: files reported; how many of them have been sent to
                 \*   fc_in and fc2_in (in1, in2) and received (out1, out2)
    snd,         \* sender: main thread
    data,        \* data connections
    tometa,      \* metadata to the receiver
    backmeta,    \* metadata to the sender
    rx,          \* receiver: workers
    file_stat,   \* receiver: files in the table
    disk,        \* receiver: blocks written to each file
    leaked,      \* receiver: descriptors that nobody will close
    files_hash,  \* receiver: number of blocks to expect, -1 if not known
    rcv          \* receiver: main thread

txvars == <<stage, head, offset, tx>>
rxvars == <<rx, file_stat, disk>>
rcvars == <<leaked, files_hash, rcv>>
vars   == <<txvars, fc, snd, data, tometa, backmeta, rxvars, rcvars>>

NoBlock == <<NoFile, 0, FALSE>>
RxIdle  == [pc |-> "recv", block |-> NoBlock, file_cur |-> NoFile]
Absent  == [in |-> FALSE, block_total |-> 0, crc |-> {}]

Init ==
    /\ stage = [f \in FileNos |-> "none"]
    /\ head = 0
    /\ offset = [f \in FileNos |-> 0]
    /\ tx = [c \in Conns |-> NoFile]
    /\ fc = [pushed |-> << >>, in1 |-> 0, in2 |-> 0, out1 |-> 0, out2 |-> 0]
    /\ snd = [pc |-> "check", files_sent |-> 0, files_ok |-> 0, hm |-> {},
              todo |-> << >>]
    /\ data = [c \in Conns |-> << >>]
    /\ tometa = << >> /\ backmeta = << >>
    /\ rx = [c \in Conns |-> RxIdle]
    /\ file_stat = [f \in FileNos |-> Absent]
    /\ disk = [f \in FileNos |-> {}]
    /\ leaked = 0
    /\ files_hash = [f \in FileNos |-> -1]
    /\ \E S \in SUBSET Unreachable :
          rcv = [pc |-> "close", added |-> FALSE, file_error |-> FALSE,
                 files_add |-> << >>, files_close |-> << >>,
                 files_complete |-> << >>, nodir |-> S]

-----------------------------------------------------------------------------
(* The sender's openers and transmit workers, in abstract form.             *)

At(s) == {f \in FileNos : stage[f] \in s}
file_count == Cardinality(At({"table", "done"}))

\* A file worker's file_addfile succeeds; it is called again and again until it
\* does.  Numbers are given out in order, each to a file that has been opened,
\* and each file worker keeps at most one number that is not in the table.
InsertFile(f) ==
    /\ stage[f] = "none"
    /\ f - file_count <= Openers
    /\ Cardinality(At({"table"})) < TxSlots[f]
    /\ stage' = [stage EXCEPT ![f] = "table"]
    /\ UNCHANGED <<head, offset, tx, fc, snd, data, tometa, backmeta, rxvars, rcvars>>

\* file_next: the next number, whose file may not be in the table yet, or,
\* with none left, a file that another worker has claimed and not read to its
\* end (a worker that attaches after that leaves without effect).
NextFile(c) ==
    /\ tx[c] = NoFile
    /\ \/ /\ head < file_count
          /\ head' = head + 1
          /\ tx' = [tx EXCEPT ![c] = head + 1]
       \/ /\ head >= file_count
          /\ \E d \in Conns :
                /\ tx[d] \in At({"table"}) /\ offset[tx[d]] < Blocks[tx[d]]
                /\ tx' = [tx EXCEPT ![c] = tx[d]]
          /\ UNCHANGED head
    /\ UNCHANGED <<stage, offset, fc, snd, data, tometa, backmeta, rxvars, rcvars>>

\* A block is fetched, read and sent; it may be altered after it was hashed.  A
\* block a worker has in hand while its connection is full counts as held by the
\* connection.
SendBlock(c) ==
    LET f == tx[c] IN
    /\ f \in At({"table"})
    /\ offset[f] < Blocks[f]
    /\ Len(data[c]) < ConnCap
    /\ \E good \in BOOLEAN :
          /\ good \/ <<f, offset[f]>> \in Alterable
          /\ data' = [data EXCEPT ![c] = Append(@, <<f, offset[f], good>>)]
    /\ offset' = [offset EXCEPT ![f] = @ + 1]
    /\ UNCHANGED <<stage, head, tx, fc, snd, tometa, backmeta, rxvars, rcvars>>

\* End of file; the last worker to notice reports the file.
LeaveFile(c) ==
    LET f == tx[c]
        last == \A d \in Conns \ {c} : tx[d] # f IN
    /\ f \in At({"table"})
    /\ offset[f] = Blocks[f]
    /\ tx' = [tx EXCEPT ![c] = NoFile]
    /\ stage' = IF last THEN [stage EXCEPT ![f] = "done"] ELSE stage
    /\ fc' = IF last THEN [fc EXCEPT !.pushed = Append(@, f)] ELSE fc
    /\ UNCHANGED <<head, offset, snd, data, tometa, backmeta, rxvars, rcvars>>

\* Mutant of FcWorker: the block count is forwarded before the checksum.
FcWorkerSwapped ==
    /\ \/ /\ fc.in1 = fc.in2 /\ fc.in2 < Len(fc.pushed)
          /\ fc' = [fc EXCEPT !.in2 = @ + 1]
       \/ /\ fc.in1 < fc.in2
          /\ fc' = [fc EXCEPT !.in1 = @ + 1]
    /\ UNCHANGED <<txvars, snd, data, tometa, backmeta, rxvars, rcvars>>

\* fc_worker: each report goes to the verifier, then to the announcer.
FcWorker ==
    /\ \/ /\ fc.in1 = fc.in2 /\ fc.in1 < Len(fc.pushed)
          /\ fc' = [fc EXCEPT !.in1 = @ + 1]
       \/ /\ fc.in2 < fc.in1
          /\ fc' = [fc EXCEPT !.in2 = @ + 1]
    /\ UNCHANGED <<txvars, snd, data, tometa, backmeta, rxvars, rcvars>>

-----------------------------------------------------------------------------
(* The sender's main thread: iterate_files, file_check.                     *)

Msg(kind, files) == [kind |-> kind, files |-> files]
Ascending(S) == CHOOSE q \in [1 .. Cardinality(S) -> S] :
                    \A i, j \in DOMAIN q : i < j => q[i] < q[j]

\* iterate_files sends the files that continue the numbers already announced.
Announce ==
    /\ snd.pc = "check"
    /\ \E n \in snd.files_sent + 1 .. NFiles :
          /\ snd.files_sent + 1 .. n \subseteq At({"table", "done"})
          /\ tometa' = Append(tometa, Msg("spec", Ascending(snd.files_sent + 1 .. n)))
          /\ snd' = [snd EXCEPT !.files_sent = n]
    /\ UNCHANGED <<txvars, fc, data, backmeta, rxvars, rcvars>>

\* file_check with no message from the receiver: send_file_complete sends the
\* block counts received within its time, sorted.
SendFileComplete ==
    /\ snd.pc = "check" /\ backmeta = << >>
    /\ \E n \in fc.out2 + 1 .. fc.in2 :
          /\ tometa' = Append(tometa, Msg("count",
                Ascending({fc.pushed[i] : i \in fc.out2 + 1 .. n})))
          /\ fc' = [fc EXCEPT !.out2 = n]
    /\ UNCHANGED <<txvars, snd, data, backmeta, rxvars, rcvars>>

\* file_check with a message: handle_msg_from_receiver.
HandleMsg ==
    /\ snd.pc = "check" /\ backmeta # << >>
    /\ snd' = [snd EXCEPT !.pc = "verify", !.todo = Head(backmeta)]
    /\ backmeta' = Tail(backmeta)
    /\ UNCHANGED <<txvars, fc, data, tometa, rxvars, rcvars>>

\* The sender's own checksum of the file has not been seen: wait for fc_out.
AwaitChecksum ==
    /\ snd.pc = "verify"
    /\ ~Head(snd.todo).errno /\ Head(snd.todo).fino \notin snd.hm
    /\ fc.out1 < fc.in1
    /\ fc' = [fc EXCEPT !.out1 = @ + 1]
    /\ snd' = [snd EXCEPT !.hm = @ \cup {fc.pushed[fc.out1 + 1]}]
    /\ UNCHANGED <<txvars, data, tometa, backmeta, rxvars, rcvars>>

\* The first entry of the message is confirmed.
Matched(f) ==
    [snd EXCEPT !.files_ok = @ + 1, !.hm = @ \ {f}, !.todo = Tail(@),
                !.pc = IF Len(snd.todo) = 1 THEN "check" ELSE "verify"]

\* Mutant of Verify: the checksums are not compared.
VerifyBlind ==
    /\ snd.pc = "verify"
    /\ LET e == Head(snd.todo) IN
       \/ /\ e.errno
          /\ snd' = [snd EXCEPT !.pc = "failed"]
       \/ /\ ~e.errno /\ e.fino \in snd.hm
          /\ snd' = Matched(e.fino)
    /\ UNCHANGED <<txvars, fc, data, tometa, backmeta, rxvars, rcvars>>

\* An entry of the message: an error or a mismatch ends the sender, otherwise
\* the file is confirmed.
Verify ==
    /\ snd.pc = "verify"
    /\ LET e == Head(snd.todo) IN
       \/ /\ e.errno
          /\ snd' = [snd EXCEPT !.pc = "failed"]
       \/ /\ ~e.errno /\ e.fino \in snd.hm /\ e.crc = Whole(e.fino)
          /\ snd' = Matched(e.fino)
       \/ /\ ~e.errno /\ e.fino \in snd.hm /\ e.crc # Whole(e.fino)
          /\ snd' = [snd EXCEPT !.pc = "failed"]
    /\ UNCHANGED <<txvars, fc, data, tometa, backmeta, rxvars, rcvars>>

\* After the iteration: every file is confirmed.
Complete ==
    /\ snd.pc = "check"
    /\ snd.files_sent = NFiles /\ snd.files_ok >= NFiles
    /\ snd' = [snd EXCEPT !.pc = "complete"]
    /\ UNCHANGED <<txvars, fc, data, tometa, backmeta, rxvars, rcvars>>

-----------------------------------------------------------------------------
(* The receiver's workers: rx_worker.                                       *)

RxRecv(c) ==
    /\ rx[c].pc = "recv" /\ data[c] # << >>
    /\ rx' = [rx EXCEPT ![c].block = Head(data[c]),
                        ![c].pc = IF rx[c].file_cur = Head(data[c])[1]
                                  THEN "write" ELSE "wait"]
    /\ data' = [data EXCEPT ![c] = Tail(@)]
    /\ UNCHANGED <<txvars, fc, snd, tometa, backmeta, file_stat, disk, rcvars>>

\* file_wait: until the main thread has opened the file.
RxWait(c) ==
    /\ rx[c].pc = "wait"
    /\ file_stat[rx[c].block[1]].in
    /\ rx' = [rx EXCEPT ![c].pc = "write", ![c].file_cur = rx[c].block[1]]
    /\ UNCHANGED <<txvars, fc, snd, data, tometa, backmeta, file_stat, disk, rcvars>>

\* Mutant of RxWrite: the block is counted before it is written.
RxWriteLate(c) ==
    /\ rx[c].pc = "write"
    /\ file_stat' = [file_stat EXCEPT ![rx[c].block[1]].block_total = @ + 1]
    /\ rx' = [rx EXCEPT ![c].pc = "count"]
    /\ UNCHANGED <<txvars, fc, snd, data, tometa, backmeta, disk, rcvars>>

\* The block is hashed into the checksum of the file and written; neither is
\* looked at before the block is counted.
RxWrite(c) ==
    /\ rx[c].pc = "write"
    /\ file_stat' = [file_stat EXCEPT ![rx[c].block[1]].crc = Xor(@, rx[c].block)]
    /\ disk' = [disk EXCEPT ![rx[c].block[1]] = @ \cup {rx[c].block}]
    /\ rx' = [rx EXCEPT ![c].pc = "count"]
    /\ UNCHANGED <<txvars, fc, snd, data, tometa, backmeta, rcvars>>

RxCount(c) ==
    /\ rx[c].pc = "count"
    /\ file_stat' = [file_stat EXCEPT ![rx[c].block[1]].block_total = @ + 1]
    /\ rx' = [rx EXCEPT ![c].pc = "recv", ![c].block = NoBlock]
    /\ UNCHANGED <<txvars, fc, snd, data, tometa, backmeta, disk, rcvars>>

-----------------------------------------------------------------------------
(* The receiver's main thread: add_file, close_file, then one message.      *)

Stored == {f \in FileNos : file_stat[f].in}
Fds == Cardinality(Stored) + leaked

\* Back to the top of the loop, where add_file has nothing to do if no file is
\* waiting.
Again(r) == [r EXCEPT !.pc = IF r.files_add = << >> THEN "close" ELSE "add",
                      !.added = FALSE]

\* One round of the loop of add_file.  Without a place in the table the
\* descriptor just opened is forgotten.  A directory that is missing is made,
\* whatever comes of it, and the open tried again; when the attempts are used
\* up the file stays first in files_add and nobody is told.
AddFile ==
    /\ rcv.pc = "add" /\ rcv.files_add # << >>
    /\ LET f == Head(rcv.files_add) IN
       \/ /\ Fds < FdLimit /\ f \notin rcv.nodir
          /\ Cardinality(Stored) < RxSlots
          /\ file_stat' = [file_stat EXCEPT ![f] = [Absent EXCEPT !.in = TRUE]]
          /\ rcv' = [rcv EXCEPT !.added = TRUE, !.files_add = Tail(@),
                       !.pc = IF Len(rcv.files_add) = 1 THEN "close" ELSE "add"]
          /\ UNCHANGED leaked
       \/ /\ Fds < FdLimit /\ f \notin rcv.nodir
          /\ Cardinality(Stored) = RxSlots
          /\ leaked' = leaked + 1
          /\ rcv' = [rcv EXCEPT !.pc = "close"]
          /\ UNCHANGED file_stat
       \/ /\ Fds < FdLimit /\ f \notin rcv.nodir /\ f \in Unwritable
          /\ rcv' = [rcv EXCEPT !.pc = "close", !.file_error = TRUE]
          /\ UNCHANGED <<file_stat, leaked>>
       \/ /\ Fds < FdLimit /\ f \in rcv.nodir
          /\ rcv' = [rcv EXCEPT !.pc = "close"]
          /\ UNCHANGED <<file_stat, leaked>>
       \/ /\ Fds >= FdLimit        \* EMFILE: "waiting until files are closed"
          /\ rcv' = [rcv EXCEPT !.pc = "close"]
          /\ UNCHANGED <<file_stat, leaked>>
    /\ UNCHANGED <<txvars, fc, snd, data, tometa, backmeta, rx, disk, files_hash>>

\* The file is in the table, its number of blocks known and reached.
Closable(f) ==
    /\ file_stat[f].in
    /\ files_hash[f] >= 0
    /\ file_stat[f].block_total >= files_hash[f]

\* With an error of add_file to report, or if nothing was added, the main
\* thread goes on to its messages, otherwise it goes round at once.
AfterClose(r) == IF r.added /\ ~r.file_error THEN Again(r)
                 ELSE [r EXCEPT !.pc = "meta"]

\* One round of the loop of close_file: truncate, close, take the checksum and
\* wipe the record.
CloseFile ==
    /\ rcv.pc = "close"
    /\ \/ /\ rcv.files_close # << >> /\ Closable(Head(rcv.files_close))
          /\ LET f == Head(rcv.files_close) IN
             /\ rcv' = [rcv EXCEPT !.files_close = Tail(@),
                          !.files_complete = Append(@,
                             [fino |-> f, crc |-> file_stat[f].crc, errno |-> FALSE])]
             /\ file_stat' = [file_stat EXCEPT ![f] = Absent]
             /\ files_hash' = [files_hash EXCEPT ![f] = -1]
       \/ /\ ~(rcv.files_close # << >> /\ Closable(Head(rcv.files_close)))
          /\ rcv' = AfterClose(rcv)
          /\ UNCHANGED <<file_stat, files_hash>>
    /\ UNCHANGED <<txvars, fc, snd, data, tometa, backmeta, rx, disk, leaked>>

\* send_file_error for the file add_file could not open.
SendFileError ==
    /\ rcv.pc = "meta" /\ rcv.file_error
    /\ backmeta' = Append(backmeta,
          <<[fino |-> Head(rcv.files_add), crc |-> {}, errno |-> TRUE]>>)
    /\ rcv' = AfterClose([rcv EXCEPT !.file_error = FALSE, !.files_add = Tail(@)])
    /\ UNCHANGED <<txvars, fc, snd, data, tometa, rxvars, leaked, files_hash>>

Polling == rcv.pc = "meta" /\ ~rcv.file_error

\* Mutant of RecvSpec: an announcement that comes after the block count starts
\* from a new record.
RecvSpecFresh ==
    /\ Polling /\ tometa # << >> /\ Head(tometa).kind = "spec"
    /\ LET files == Head(tometa).files IN
       /\ rcv' = Again([rcv EXCEPT !.files_add = @ \o files])
       /\ files_hash' = [f \in FileNos |-> IF \E i \in 1 .. Len(files) : files[i] = f
                                           THEN -1 ELSE files_hash[f]]
    /\ tometa' = Tail(tometa)
    /\ UNCHANGED <<txvars, fc, snd, data, backmeta, rxvars, leaked>>

\* Files are announced; a block count that came before is kept.
RecvSpec ==
    /\ Polling /\ tometa # << >> /\ Head(tometa).kind = "spec"
    /\ rcv' = Again([rcv EXCEPT !.files_add = @ \o Head(tometa).files])
    /\ tometa' = Tail(tometa)
    /\ UNCHANGED <<txvars, fc, snd, data, backmeta, rxvars, leaked, files_hash>>

\* Block counts arrive, for files announced or not.
RecvCount ==
    /\ Polling /\ tometa # << >> /\ Head(tometa).kind = "count"
    /\ LET files == Head(tometa).files IN
       /\ rcv' = Again([rcv EXCEPT !.files_close = @ \o files])
       /\ files_hash' = [f \in FileNos |-> IF \E i \in 1 .. Len(files) : files[i] = f
                                           THEN Blocks[f] ELSE files_hash[f]]
    /\ tometa' = Tail(tometa)
    /\ UNCHANGED <<txvars, fc, snd, data, backmeta, rxvars, leaked>>

\* No message: send_file_completions, the last StatMax first, if there are any.
SendCompletions ==
    LET n == Len(rcv.files_complete)
        k == IF n < StatMax THEN n ELSE StatMax IN
    /\ Polling /\ tometa = << >>
    /\ backmeta' = IF n = 0 THEN backmeta
                   ELSE Append(backmeta, [i \in 1 .. k |-> rcv.files_complete[n + 1 - i]])
    /\ rcv' = Again([rcv EXCEPT !.files_complete = SubSeq(@, 1, n - k)])
    /\ UNCHANGED <<txvars, fc, snd, data, tometa, rxvars, leaked, files_hash>>

-----------------------------------------------------------------------------
OpenerStep == \E f \in FileNos : InsertFile(f)
TxStep(c) == NextFile(c) \/ SendBlock(c) \/ LeaveFile(c)
SenderStep == \/ Announce \/ SendFileComplete \/ HandleMsg \/ AwaitChecksum
              \/ Verify \/ Complete
RxStep(c) == RxRecv(c) \/ RxWait(c) \/ RxWrite(c) \/ RxCount(c)
ReceiverStep == \/ AddFile \/ CloseFile \/ SendFileError
                \/ RecvSpec \/ RecvCount \/ SendCompletions

Over == snd.pc \in {"complete", "failed"}

\* The sender has exited, or begins to end the session.
Finished == Over /\ UNCHANGED vars

Next ==
    \/ /\ ~Over
       /\ \/ OpenerStep \/ FcWorker \/ SenderStep \/ ReceiverStep
          \/ \E c \in Conns : TxStep(c) \/ RxStep(c)
    \/ Finished

Spec == Init /\ [][Next]_vars

\* Every thread is scheduled; TCP delivers.
FairSpec ==
    /\ Spec
    /\ \A f \in FileNos : WF_vars(~Over /\ InsertFile(f))
    /\ WF_vars(~Over /\ FcWorker)
    /\ WF_vars(~Over /\ SenderStep) /\ WF_vars(~Over /\ ReceiverStep)
    /\ \A c \in Conns : WF_vars(~Over /\ TxStep(c)) /\ WF_vars(~Over /\ RxStep(c))

-----------------------------------------------------------------------------
TypeOK ==
    /\ stage \in [FileNos -> {"none", "table", "done"}]
    /\ head \in 0 .. NFiles
    /\ offset \in [FileNos -> Nat]
    /\ tx \in [Conns -> FileNos \cup {NoFile}]
    /\ fc.pushed \in Seq(FileNos)
    /\ fc.in1 \in 0 .. Len(fc.pushed) /\ fc.in2 \in 0 .. fc.in1
    /\ fc.out1 \in 0 .. fc.in1 /\ fc.out2 \in 0 .. fc.in2
    /\ snd.files_sent \in 0 .. NFiles /\ snd.files_ok \in 0 .. NFiles
    /\ snd.hm \subseteq FileNos
    /\ \A c \in Conns : data[c] \in Seq(BlockIds) /\ Len(data[c]) <= ConnCap
    /\ rx \in [Conns -> [pc : {"recv", "wait", "write", "count"},
                         block : BlockIds \cup {NoBlock},
                         file_cur : FileNos \cup {NoFile}]]
    /\ file_stat \in [FileNos -> [in : BOOLEAN, block_total : Nat,
                                  crc : SUBSET BlockIds]]
    /\ Fds <= FdLimit /\ Cardinality(Stored) <= RxSlots
    /\ files_hash \in [FileNos -> Nat \cup {-1}]
    /\ rcv.files_add \in Seq(FileNos) /\ rcv.files_close \in Seq(FileNos)

\* Files the receiver has closed and not yet confirmed, and those in messages.
Entries(q) == {q[i] : i \in 1 .. Len(q)}
Confirming == Entries(rcv.files_complete) \cup Entries(snd.todo)
                \cup UNION {Entries(backmeta[i]) : i \in 1 .. Len(backmeta)}

\* When close_file truncates, closes and wipes a file, every block is on disk
\* and no worker has a block of it in hand: no write goes to a descriptor that
\* is closed or already reused, and no count to a record that has been wiped.
ClosedWhole ==
    [][\A f \in FileNos : (file_stat[f].in /\ ~file_stat'[f].in) =>
          /\ {b[2] : b \in disk[f]} = 0 .. Blocks[f] - 1
          /\ file_stat[f].block_total = Blocks[f]
          /\ \A c \in Conns : rx[c].block[1] # f
          /\ \A c \in Conns : \A i \in 1 .. Len(data[c]) : data[c][i][1] # f]_vars

\* The sender declares the transfer complete (files_ok >= files_total) only if
\* every file is closed at the receiver with exactly the blocks that were
\* read: no confirmation counts twice or for another file, and an altered
\* block is never confirmed ("sends that checksum to the sender, which the
\* sender then verifies", docs/notes.md).
CompleteIntact ==
    snd.pc = "complete" =>
        /\ snd.files_ok = NFiles
        /\ \A f \in FileNos : disk[f] = Whole(f) /\ ~file_stat[f].in
        /\ Confirming = {}

\* What a transfer may wait for in vain.  The next number to be announced is
\* with an opener that finds all slots of the number taken:
OpenerShutOut ==
    /\ snd.files_sent < NFiles
    /\ stage[snd.files_sent + 1] = "none"
    /\ Cardinality(At({"table"})) >= TxSlots[snd.files_sent + 1]
\* the first file to be closed, or the file of a block that keeps a connection
\* from being read, is not open, and the receiver has no room for it:
ReceiverFull ==
    /\ Cardinality(Stored) = RxSlots \/ Fds >= FdLimit
    /\ \/ rcv.files_close # << >> /\ ~file_stat[Head(rcv.files_close)].in
       \/ \E c \in Conns : rx[c].pc = "wait" /\ ~file_stat[rx[c].block[1]].in
\* the first file to be opened has no directory and cannot have one:
NoDirectory == rcv.files_add # << >> /\ Head(rcv.files_add) \in rcv.nodir

\* Every transfer ends, in an error of the sender or with every file confirmed,
\* unless it stays in one of these three waits.  Announcements, counts and data
\* that overtake each other, files that are refused, and main threads and
\* workers that wait for each other never form another cycle.
TransferEnds == <>Over \/ <>[](OpenerShutOut \/ ReceiverFull \/ NoDirectory)
=============================================================================
