# A TLA+ verification of EScp

EScp copies files between two hosts over several TCP connections.  A Rust
program (`src/escp`, `src/escp.rs`, `src/main.rs`) holds the control logic; a C
library (`libdtn`) holds the threads that move data, the tables and rings those
threads share, and the encrypted framing.  This directory holds TLA+ models of
the parts of it in which threads meet, TLC configurations that check them on
small instances, and TLAPS proofs of the results that matter most.

`PROJECT.json` is the index: components, runs, the source lines of every
definition, a plausible bug ("mutant") that breaks each property, findings,
hazards and theorems.

## 1. Inventory

### The system

On the sender, file workers open files and put them in a table; transmit
workers, one per data connection, take files from the table, read blocks and
send them; the main thread announces files on a separate metadata connection
and waits for the receiver to confirm each.  On the receiver, a worker per
connection writes blocks, the metadata worker queues announcements, and the main
thread opens and closes files and sends confirmations.  The sender starts the
receiver through a remote shell; one message in each direction over its pipe sets
up the arguments and the port before any connection exists.

| component | state | operations | interacts with |
|---|---|---|---|
| sender file table and transmit workers (`file_io.c`, `dtn.c`) | `file_stat[]`, `file_count`, `file_head`, `file_tail`, `file_activefile[]`, descriptors | `file_addfile`, `file_next`, `tx_worker`, `submit_work`, `file_iow_remove`, `memset_avx` of the slot | openers call `file_addfile`; the last worker on a file calls `fc_push` |
| file-completion ring (`dtn.c`, `escp.rs`) | `fc_info[]`, `fc_info_head`, `fc_info_tail` | `fc_push`, `fc_pop`, `fc_worker` | feeds the verifier and the announcer of block counts |
| metadata receive ring (`dtn.c`) | `metabuf`, `metahead`, `metatail` | metadata branch of `network_recv`, `meta_recv`, `meta_complete` | network thread writes, main thread reads |
| metadata send path (`dtn.c`) | `meta_lock`, `temp_buf`, a copy of the connection, its IV counter and GCM context | `meta_send`, `network_send` | main thread and logging thread call it |
| file iteration (`sender.rs`) | three global counters, three channels | `iterate_files`, `iterate_file_worker`, `iterate_dir_worker` | inserts into the file table, announces with `meta_send` |
| sender control (`sender.rs`) | hash maps of completions and of the receiver's confirmations, `files_ok` | `handle_msg_from_receiver`, `send_file_complete`, `file_check`, main loop | reads the metadata ring, the completion channel |
| receiver control (`receiver.rs`) | queues of files to add and to close | `add_file`, `close_file`, `send_file_completions`, `send_file_error`, main loop | the file table, the metadata ring |
| receive workers (`dtn.c`, `file_io.c`) | the receiver's use of `file_stat[]` | `rx_worker`, data branch of `network_recv`, `file_wait` | the receiver's file table |
| argument parsing (`escp.rs`, `sender.rs`) | - | `int_from_human`, `parse_dest`, block size and checksum mode in `start_escp`, `to_header`, `from_header` | the session's first message |
| session start | the pipe of the remote shell, `active_port`, the workers' ready counters, `fob` | `initialize_receiver`, `rx_start`, `tx_start`, `dtn_waituntilready` | spawns all workers |
| session end | `threads_finished`, `transfer_complete`, `metabuf` and its owners | BYE messages, `meta_init`, `get_threads_finished`, keepalives, acknowledgement, `finish_transfer` | receive workers become writers of the metadata ring |
| log rings (`file_io.c`, `logging.rs`) | two rings with `claim`, `count` and the reader's cursor | `dtn_log`, `dtn_error`, `dtn_log_getnext`, `dtn_err_getnext`, `initialize_clog`, `parse_error` | every C thread logs; errors of the receiver go to the sender with `meta_send` |
| checksum list | a ring of a library | `cksum_worker` | receive workers |
| other IO engines, encryption, generated code | - | - | - |

### What is hard in it

* The file table, the rings and the counters are lock free.  Their correctness
  rests on the order of single atomic operations by three or more threads, and
  on records that are copied and used after the slot may have changed hands.
* Slots, descriptors and ring entries are reused; a stale copy is harmless only
  as long as something detects it.
* Nobody knows how many files there are.  The end of the iteration is detected
  from counters that change while they are compared.
* Announcements, block counts and data travel on different connections.
* Everything waits by polling, with bounded channels between threads: cycles of
  waiting are possible and no test would wait long enough to see them.
* A session ends on several connections at once.  Who notices the end first, a
  worker, the main thread or a time limit, decides what the other process sees;
  either process may be killed at any of these moments.

The hazards, each with its line and the properties that cover it, are in
`PROJECT.json`.

### What makes each component correct

* File table: a file is reported once, with exactly its blocks; the worker that
  reports it is alone on the slot; descriptors are live while used; all files
  get reported and all workers leave.
* Completion ring: FIFO, nothing overwritten, everything forwarded.
* Metadata ring: a reliable FIFO channel with stable pointers, that never jams.
* Metadata send: whole frames on the wire, no IV used twice.
* Iteration: every readable file is numbered once and announced; it ends.
* Sender control, receiver control, receive workers (together: a transfer): a
  file is closed only when all of its blocks are written and no worker is on it;
  the transfer is complete only if every file is there, unaltered; it ends.
* Session: the two sides agree on their arguments and the port; neither reports
  success for a file that is not written and closed; the two processes never wait
  for each other for ever, and neither outlives the other.
* Log rings: the reader gets the message it has a ticket for, or skips it because
  it is gone; every error is read.

## 2. Modules

In the order they were written; each component has one specification module.
`MC*` modules only define the constants of small instances.

| module | models | proved in |
|---|---|---|
| `FileTable` | `file_addfile`, `file_next`, `tx_worker`, `submit_work`, `file_iow_remove` | `FileTableProofs` |
| `FcRing` | `fc_push`, `fc_pop`, `fc_worker` | `FcRingProofs` |
| `MetaChannel` | abstract: what `meta_recv`/`meta_complete` promise | `MetaRingProofs` |
| `MetaRing` | `network_recv` (metadata), `meta_recv`, `meta_complete`; implements `MetaChannel` | `MetaRingProofs` |
| `MetaSend` | `meta_send`, `network_send` with encryption | `MetaSendProofs` |
| `FileIteration` | `iterate_files`, `iterate_file_worker`, `iterate_dir_worker` | `FileIterationProofs` |
| `Transfer` | sender and receiver control and `rx_worker`, composed with the other components in abstract form | `TransferProofs` |
| `Arguments` | `int_from_human`, `parse_dest`, block size, headers; operators only | - |
| `SessionStart` | `start_escp`, `initialize_receiver`, `rx_start`, `tx_start`, `dtn_waituntilready`, time limits, kills | `SessionProofs` |
| `SessionEnd` | the rest of a session with one file; extends `SessionStart` | `SessionProofs` |
| `LogRing` | `dtn_log`, `dtn_error`, their readers, `initialize_clog`, `parse_error` | `LogRingProofs` |

Facts about remainders are lemmas at the head of the proofs about each ring.

Definitions keep the source's names where they exist.  One action is one access
to shared memory, one channel operation or one system call; what a thread does
between two such accesses cannot be seen by others and belongs to the action
before or after it.  Program counters are named for what the thread does next.
Variables marked "history" are not in the program: they record what happened so
that properties can speak of it.

### FileTable

The 32-bit state word of a record is the set of its bits: worker bits, `FS_IO`
(31), `FS_COMPLETE` (30).  `0xBedFace` and `FS_INIT`, never combined with
others, are markers.  A checksum is the set of blocks xored into it an odd
number of times, so that a block counted twice or missing is visible.  `descr`
is the kernel's descriptor table; `open` returns the lowest free descriptor,
which is what makes reuse of a just closed one likely.

Actions: `OpenFile`, `AddProbe`, `AddFill`, `AddCount` (opener); `LoadCount`,
`LoadHead`, `GrabHead`, `CasHead` (choice of a number in `file_next`); `Scan`,
`CopySlot`, `Attach`, `CheckComplete` (attaching); `FindSlot`, `Claim`,
`Publish` (claiming); `FetchBlock`, `ReadBlock`, `SendBlock`, `CountBlock` (one
block); `RemoveIow`, `CloseFd`, `PushCompletion`, `Wipe` (end of file);
`CompleteTransfer` (the main thread).

Abstractions, and why they are sound:

* `memcpy_avx` of a 64-byte record is atomic.  The state word and the number
  are in the first 16 bytes, which are loaded first and stored last, so that
  other fields can be torn only when the slot is refilled between two loads.
  That is the case `stale` records already.
* `Scan` looks at one entry of `file_activefile` per worker; the code looks at
  `THREAD_COUNT`, of which the rest stay 0, and 0 is skipped.
* `FindSlot` is one step although the code probes slot by slot: the record of a
  claimed number cannot move or leave before the claimer's own swap.
* The two `network_send` of a block and the xor into the checksum are one step,
  and so are `file_tail`'s increment and the `atomic_fetch_and` before it:
  nobody reads them in between.
* The IO engine is POSIX with queue depth 1.  The test for a missing descriptor
  in `tx_worker` is never true (`RecordInv`) and is left out.

### FcRing

A push is named by the ticket `fc_info_head` gives it.  `fc_pop` moves the tail
before it reads the slot, as the code does.  `lapped` records that a push took a
slot that an older push had still to write.  `fc_worker` returns on file number
0, which no caller pushes; this is left out.

### MetaRing and MetaChannel

A message is an identity and its length in 64-byte lines.  The writer loads head
and tail, writes the marker `~0` *before* it knows that there is room (as the
code does), waits, writes header and body, publishes.  The refinement mapping
takes as the reader's message what is in the lines at its pointer, so that an
overwrite while the reader holds the pointer breaks the refinement.  One writer:
the further writers at the end of a session are left to module SessionEnd.

### MetaSend

The lock is the counter `meta_lock`.  `wire` is the sequence of segments written
(IV, header, payload, tag), each with the IV of the GCM context it was processed
in.  `MetaInit` may come before or after the first call, which waits for it with
the lock held.  A failed write ends the process and is left out.  The lock is
not fair and no liveness is claimed: callers that keep trying can keep each
other out.

### FileIteration

Path names are members of a small tree; `Kind` says what `stat` finds.
`Unreadable` files *may* be refused by `open`, which ends the worker, as in the
code.  An error of `opendir` ends the process and is left out; an error of
`fstat` makes the entry `"ignored"`.  Insertion into the file table is part of
`SendMsg`.  A `recv_timeout` that expires is possible whenever the channel is
empty.

### Transfer

Both main threads, the receive workers and what connects them.  The other
components appear as what their own modules establish: the sender's workers send
each block once and the last one reports the file (`InsertFile`, `NextFile`,
`SendBlock`, `LeaveFile`, from `FileTable`), reports come in order (`FcRing`),
metadata is a FIFO without loss (`MetaChannel`), numbers are announced without a
gap (`FileIteration`).  The file tables of both sides are reduced to how many
files they hold.

Actions: `FcWorker` (one step per channel it sends to), `Announce`,
`SendFileComplete`, `HandleMsg`, `AwaitChecksum`, `Verify`, `Complete` (sender);
`RxRecv`, `RxWait`, `RxWrite`, `RxCount` (receive worker); `AddFile`,
`CloseFile`, `SendFileError`, `RecvSpec`, `RecvCount`, `SendCompletions`
(receiver).  One round of the loops of `add_file` and `close_file` is an action,
since workers run in between; so is one message.

* A block that a worker has in hand because its connection is full is counted
  as one of the blocks the connection holds.
* `RxWrite` hashes and writes: checksum and disk are looked at only after the
  block has been counted.
* A checksum is again a set, with the blocks that were altered distinguishable:
  collisions of the 32-bit checksum are outside the model, and hashing is on.
* `AddFile` has the five outcomes of the code: the file is entered; there is no
  place in the table and the descriptor just opened is forgotten (`leaked`), the
  code trying again with a new one; the file is refused, which is reported; there
  are no descriptors; or the four attempts are used up (`receiver.rs:342-427`),
  when the directory is missing and `create_dir_all`, whose result is ignored,
  does not make it.  In that case `(filecount, 0)` is returned, the file stays first
  in `files_add` and nobody is told.  `Unreachable` are the files this may happen
  to; `nodir`, chosen at the start, those to which it does.  The attempts of one
  call are one step: nothing else looks at the file in between.
* That an error is sent after `close_file` has run, and that files closed do not
  make the loop start again (`res` has been emptied by `append`,
  `receiver.rs:631`), is kept.
* `TxSlots` gives for each number how many files the table may hold for it still
  to find a slot, which is how probing ends for a number whose slots are taken.
* What follows the last confirmation is in `SessionEnd`.

### Arguments

A size is a number, a unit and whether the unit contains "bit";
`int_from_human` wraps at 2^64 and the block size at 2^31 (`as i32`).  A
destination is a sequence of tokens: the characters the parser searches for and
pieces of text between them.  `Written` turns what a user means (user, host,
port, path) into such a text and is the reference `parse_dest` is compared with.
`to_header` and `from_header` work on bytes, and every message of `SessionEnd`
goes through them, with BYE laid out as the C structure lays it out.

### SessionStart

`snd` and `rcv` are the two main threads with their copies of the arguments,
`pipe` the two messages of the remote shell, `rcvr` the thread that runs
`rx_start`, `tx` and `rx` the workers.  A connection has the same number on both
sides; the last one carries metadata.

Actions: `BadCommand`, `SendHelo`, `GetReply`, `ReplyLost`, `TxInit`, `Spawned`,
`TxConnect`, `TxKey` (sender); `HeloLost`, `ReadHelo`, `Bind`, `StartFailed`,
`SendReply`, `WaitReady`, `ReadyTimeout`, `Accept`, `AcceptTimeout`, `RxKey`
(receiver); `RemoteFails`, `Die`, `Kill`.

* A process that ends closes its connections; what it had written is still read.
* `VRFY` (`args.h:52-66`) sleeps 1.5 s before the process ends; other threads run
  meanwhile.  That is `dying` and `Die`, on both sides; the thread that failed is
  `"stuck"`.
* A sender that gets no answer over the remote shell returns from `escp_sender` and
  exits with status 0 (`"returned"`): the status does not mean success, which is
  `"done"`, where "Complete" has been printed.
* A port is 16 bits (`PortCount`): the one after the last is 0, for which the kernel
  chooses a port that `rx_start` never learns, so that `active_port` stays 0.
* A time limit may expire whenever what it waits for has not happened.
* `Accept` takes any waiting connection, since connections need not be accepted in
  the order the workers were started; `finish_transfer` later joins the first
  `thread_count` of them (`joined`), whichever they are.
* The version the receiver reports is only printed and is left out.

### SessionEnd

One file of one block per data connection: the shortest transfer that needs
every connection.  `Announce`, `NothingToTransfer`, `SendCount`, `Check`,
`SendComplete`, `CompleteTransfer`, `Acknowledged`, `FinishSender` are the rest of
`escp_sender`; `TxStart`, `TxBlock`, `TxBye` and `MetaEof` the transmit workers;
`RxFirst`, `RxBlock`, `RxCut`, `RxEof`, `RxFinish` and, for one metadata message, `MetaInit`, `Memset`, `LoadRing`, `WriteRing`,
`StoreHead` the receive workers; `Top`, `Poll`, `Read`, `SendStat`, `AllExited`,
`Sleep`, `KeepaliveDue`, `SendKeepalive`, `SendAck`, `FinishReceiver` the loop of
`escp_receiver`; `ReportError` the logging thread.

* The ring has one line per message and does not wrap; wrapping and waiting are
  the subject of `MetaRing`.  Each access to `metabuf` and `metahead` is an action,
  because BYE messages make several workers writers of the ring: a worker may clear
  another's buffer or store an older head.
* `meta_send` is one step (`MetaSend` shows that frames stay whole); on the
  receiver it waits until some worker has called `meta_init`.
* The file is closed when its blocks are written *and* its count has come
  (`COUNT`, `Read`, `Top`), as in `close_file`.
* A block leaves the sender in two parts.  If the sender ends between them, the
  receive worker's short read ends the receiver (`RxCut`, `dtn.c:558`), after the
  1.5 s in which its other threads go on; if nothing of the block has come, it is
  the ordinary end of the connection (`RxEof`).  Metadata messages and BYE are
  sent whole: a sender killed between the writes of header, body and tag of one is
  left out.
* A write to a process that has ended may fail, or may still succeed: the kernel
  learns of the other side's end from its answer.
* A keepalive is due after ever longer sleeps; how many the sender gets is bounded
  by `MaxKeepalives`, after which they have no effect.

### LogRing

Messages are identified by their tickets.  `Claim`, `StartCopy`, `EndCopy` and
`Count` are the accesses of `dtn_log` and `dtn_error`; a slot is `Torn` while
`strncpy` runs.  `GetNext` and `CopyOut` are the two getnext functions, `Deliver`
and `SplitPanics` what `initialize_clog` does with the text, `ParseError` the
report to the sender.  `split_at(6)` panics on a text shorter than six bytes and
the build aborts on a panic (`Cargo.toml:50`): an empty slot always does that, a
torn one may.  `lapped` records that two writers were in one slot at a time.
`LogRingDry` is the reader's look at an empty log ring, which alone lets it turn to
the errors (`logging.rs:220-240`).

## 3. Runs

`tlc -workers 2 -config <cfg> <module>` in this directory.

| run | shows |
|---|---|
| `file_table` | `CompletionExact`, `DescriptorLive`, `LastOutAlone`, `ClaimedOnce`, `Termination` with 3 files (one empty), 2 slots, 2 descriptors, 2 workers |
| `file_table_ends` | two openers, 5 files, 3 slots of which a number may use two (slot 0, which workers cannot attach to, among them), `THREAD_COUNT` 2: `EndsUnlessShutOut` |
| `file_table_phantom` | **violated**: of two workers that saw many files, one claims a number no file has |
| `file_table_stale` | **violated**: an attach to a slot that was reused since it was copied |
| `fc_ring` | `Fifo`, `NoOverwrite`, `EveryPushForwarded`, 3 producers, 2 slots, 5 pushes |
| `meta_ring` | `ImplementsChannel`, `EveryMessageCompleted`, 7 lines, 6 messages of 1 to 3 lines |
| `meta_send` | `Framing`, `OneSender`, 3 callers, 4 calls |
| `iteration` | `NothingLost`, `TailMeansQuiet`, `EndsUnlessStuck` on a tree of two directories, a file that may be unreadable, and a file list of two entries, two file workers |
| `iteration_unready` | **violated**: with directories the iteration can fail to end |
| `transfer` | `CompleteIntact`, `ClosedWhole`, `TransferEnds` with files of 2 and 1 blocks, 2 connections, 2 openers, a block that may be altered, a file the receiver may refuse and one whose directory may be missing, a receiver with 1 place and 2 descriptors, confirmations one by one |
| `session` | `SenderTruthful`, `ReceiverTruthful`, `Agreement`, `DestinationAsWritten`, `SessionEnds`, `ReceiverFollows`, `SenderFollows`: whole sessions for sixteen command lines, with ports taken, the last one among them, time limits, nothing to transfer, a remote shell that fails, and, for one of them, either process killed at any moment |
| `log_ring` | `EmptyOnlyInFlight`, `ReadsItsTicket`, `OverrunIsReal`, `EveryErrorRead` with two writers, rings of two slots, three messages and three errors |

What the code says, and what the violated runs show of it, is under `findings`.
Where a property has a known exception, the exception is part of it and named.
The waits that the liveness properties except (`ShutOut`, `Deserted`, `Clogged`,
`OpenerShutOut`, `ReceiverFull`, `NoDirectory`, `Orphaned`, `Bereft`, `Starved`) all
occur within the bounds of their runs: without any one of them TLC finds the
property violated.

* `CompletionExact`, `DescriptorLive`, `Termination` and `EndsUnlessShutOut` say
  nothing once `stale` is set, which `file_table_stale` shows.  `LastOutAlone` and
  `ClaimedOnce` have no exception.
* `EndsUnlessShutOut` excepts a worker and an opener that wait for each other
  (`ShutOut`): the worker has claimed a number whose slots are all held by later
  numbers, which only a worker could free.
* `EndsUnlessStuck` excepts the two ways in which `IterationEnds` fails
  (`Deserted`) and the clogged channels (`Clogged`), and shows that there is no
  fourth.
* `TransferEnds` excepts three waits: an opener that finds no slot for the next
  number to be announced (`OpenerShutOut`), a receiver without room for the file it
  must open next (`ReceiverFull`), and a file without a directory (`NoDirectory`).
* `ReceiverFollows` excepts a receiver that waits for a metadata connection that
  never came (`Orphaned`), `SenderFollows` a sender whose main thread waits for a
  message of the receiver (`Bereft`).
* `EveryErrorRead` excepts a reader that never finds the log ring empty or that
  waits for a metadata connection (`Starved`), and a process that has aborted.

Further observations, which have no run of their own:

* A file worker that cannot open a file leaves without setting its bit
  (`sender.rs:994`), and the iteration does not end: one unreadable file and two
  file workers suffice for a violation of `IterationEnds`.
* `Fifo`, `NoOverwrite` and `EveryPushForwarded` say nothing once `lapped` is
  set.  Without the exception `Fifo` fails with two producers: `fc_pop` moves
  the tail before it has read the slot, so that a push one lap younger than a
  stalled one passes both tests of `fc_push` and is delivered in its place.
* With a file list longer than the channel to the file workers (15000), the main
  thread waits for room in it (`sender.rs:1254`) and does not empty the channel
  of messages, whose 400 places the file workers fill: nobody proceeds.  The same
  wait has no end if all file workers have left before the list is sent; the
  channel is not closed, because the main thread holds a receiver of it.
* An unreadable file can cost the transfer other files.  A file worker whose bit
  is in the mask and that receives a path name has its bit until it takes it back
  (`sender.rs:949`); if the other workers look at the mask meanwhile they leave,
  and this worker goes on alone, without end.  If it meets a file it cannot open, it
  leaves too (`sender.rs:994`), the main thread takes the closed channel for the
  end (`sender.rs:1341`), and what is still in the channels is not transferred.
  With two file workers one unreadable file in a directory suffices; without that
  interleaving it takes as many as there are workers.  `NothingLost` therefore
  asks for every file only if no worker left on an error (`NoneFailed`).
* The file workers may leave before the main thread has sent the entries of a
  file list, because `GLOBAL_FILEOPEN_TAIL` is incremented before
  (`sender.rs:1240`); the entries are then lost.  `NothingLost` is therefore
  stated for files that are not in the list.
* A file that finds no place in the sender's table (`sender.rs:1050`) has its
  number already.  If later numbers hold all the places it may use and each
  worker has claimed a number in that state, or the connections are full of
  blocks of files that cannot be announced before it, nobody proceeds:
  that is `OpenerShutOut`, and `ShutOut` of `FileTable`.  By default the
  descriptor limit (1024) is reached before the table (2048 places) is full, and
  descriptors are waited for before a number is taken, so that this needs a
  higher limit.  The comment that the table "must always be set below the
  configured FD limit" (`file_io.c:28`) asks for that case; the constant it is
  about, `FILE_STAT_COUNT`, is not used.
* If the receiver has room for fewer files than the sender has workers,
  `files_close` can wait behind a file that waits for the room of a file behind
  it; `ReceiverFull` is this wait.  Each attempt without a place costs the receiver
  a descriptor for good (`receiver.rs:413`).
* A file whose directory the receiver can neither find nor make stays first in its
  queue and is tried for ever; the sender hears nothing (`receiver.rs:342-427`).

Of the session:

* `receiver.rs:666`: the receiver finds no message, the last worker then stores
  BYE and finishes, and the receiver exits with an error although the session is
  complete.  The sender waits for an acknowledgement that does not come.  Nothing
  needs to fail for this; `SenderTruthful` shows that no success is reported.
* Once the connections exist, the sender has no means to notice the receiver's
  death except a write that fails.  If it dies while the sender waits in
  `file_check` or for the acknowledgement, the sender waits for ever.  Errors of
  the receiver reach it only if the receiver has a log file (otherwise the thread
  that sends them does not run) and a metadata connection.
* Any message counts as the acknowledgement (`sender.rs:545`), a keepalive too.
  It is harmless because the file has been confirmed before.
* A sender killed after a block but before its first metadata message leaves a
  receiver whose main thread waits in `meta_send` (`dtn.c:790`) for ever.
* `-t 0`: the sender makes one thread of it, the receiver keeps 0, accepts
  connections without end and takes all of its workers for finished from the
  start.  30 threads or more end the sender in `tx_start`.
* The end of the port range is never tested: `receiver.rs:203` compares the port with
  `port + port_end`, which it cannot exceed, where `port_start + port_end` was meant
  (its message says so).  `rx_start` tries a hundred ports, while `README.md:86`,
  `docs/notes.md:13` and `escp.rs:197` promise one between 1232 and 1242.  No
  property is stated: it could only repeat the comparison.
* If port 65535 is taken, `htons(++port)` is 0 (`dtn.c:1329`): the receiver listens on
  a port of the kernel's choice, `active_port` stays 0 and no answer is sent until the
  time limit of `rx_start` ends the receiver.
* A sender whose remote shell fails exits with status 0, having transferred nothing
  (`sender.rs:343-367`).
* `do_hash` is 0 unless `--writechecksum` is given, while `docs/notes.md:23` says
  "By default, the sender computes a checksum when reading the file".  `Transfer`
  models a session with hashing on.
* `parse_dest` splits the plain form at the *last* colon, and takes the *last* at
  sign of a URI, in its path too, for the end of the user name; a port that is no
  number is ignored after a name and refused after a bracketed address.
* A block size of 2 GiB or more wraps in `as i32` (2 GiB becomes the minimum).  The
  comment of `int_from_human` that "1kbit" is 1000 describes 125 bytes.

Of the log rings:

* `count` counts completed messages, not tickets: when a writer overtakes an
  earlier one, the reader takes the earlier one's slot, which is empty (and the
  process aborts) or holds a message of the round before, which is logged again.
* The ring of errors is read only when the log ring is empty; under a flood of
  debug messages errors wait.  On the receiver the reader also waits in
  `parse_error` for a metadata connection.
* A ticket is an `int`: after 2^31 messages its slot lies before the buffer.

### Bounds

* Three files through two slots and two descriptors: the third file reuses both
  while a worker may still hold a copy of the first.  Two workers are enough for
  an attach, a claim and a last one out to meet; about 600,000 states.
* `file_table_ends` has two openers, so that numbers enter the table out of order,
  and more than `THREAD_COUNT` files at once; one worker, which can neither attach
  to another's file nor take a stale copy, leaves nothing to wait for but slots.
* `file_table_phantom` needs `THREAD_COUNT` + 1 files at once and two workers.
* Five pushes through two slots are two laps and a half; three producers are
  the least for an overtaking by a whole lap of two slots.
* Seven lines with messages of up to three: every head position, message length
  and wrap occurs, with the tail behind and before the head.  2 * 3 < 7 mirrors
  the 1 MB limit of `meta_send` against a 4 MB buffer.
* Three callers: one holds the lock, one backs off, one tries; four calls.
* The tree has a directory in a directory, so that a directory is found while
  another is read, and two list entries that come after the sources are counted, one
  more than their channel holds; channels of capacity 1 are full and empty all the
  time, and all waits on them occur.  970,000 states.
* `transfer`: two files and one place at the receiver, so that the second finds the
  table full, loses a descriptor and then finds no descriptor.  Two connections of
  one block (and one in the worker's hands): the blocks of a file take both and
  arrive in either order, before or after announcement and block count.  Two
  openers and a first number that fits only into an empty table make later numbers
  shut out earlier ones.  570,000 states.
* `session`: one data connection and the metadata connection are enough for two
  writers of the ring, and four lines for the four metadata messages (SPEC, COUNT,
  COMPLETE, BYE).  160,000 states.
  `THREAD_COUNT` 4 makes 3 threads too many; two tries of `bind` and ports 3 to 7
  of 8 make all ports taken, some or none, and the last one.  KiB is 4, 2^31 is 128 and 2^64 is 65536, so
  that 1k is below the minimum block, 1m above and 2g wraps.  One keepalive is
  enough to be taken for an acknowledgement.
* `log_ring`: three messages through two slots are more than a round in each ring, so
  that the reader can be overrun and writers can meet in a slot, in both of them.

### Fairness

Weak fairness of each thread's steps: threads are scheduled by the kernel and no
modelled step waits for a lock (a polling loop is a step that goes back to its
start, or a step that is not enabled while it would spin).  `FcRing` gives no
fairness to starting a push and `MetaRing` none to the arrival of a message:
they depend on others.  `FileIteration` assumes that the file table gets room
again, which `Termination` and `EndsUnlessShutOut` of `FileTable` show for their instances; whether this
holds with the receiver's back pressure is what `TransferEnds` is about.
`Transfer` has weak fairness for each thread, which includes that TCP delivers.
`MetaSend` has no fairness.

`SessionEnd` has weak fairness for each thread of both processes, for the time
limits and for the end of a process that has failed (a sleep of 1.5 s).
`KeepaliveDue` is strongly fair: the sleeps of an idle receiver grow until a
keepalive falls due, however often it looks at the ring in between.  No fairness
is given to `Kill`, `RemoteFails` and the logging thread.  `LogRing` assumes that a
message once begun is completed and that the reader goes on; no thread has to
log, and there may never be a metadata connection.  Nor does it assume that the
reader finds the log ring empty: the bound on messages stands for a stream that may
go on for ever, and a reader that stays with the log ring is a fair behaviour.

## 4. Proofs

Each theorem is about every value of the constants that satisfies the assumption
named.  Every inductive invariant was first checked by TLC on the instances of
section 3 or on smaller ones.  `tlapm` takes some minutes for each module, most for
`FileTableProofs`, `SessionProofs` and `TransferProofs`.

**`FileTableProofs`**, from `TableAssumption`: probe sequences stay in the table,
every thread has a bit below `FS_COMPLETE` (asserted by `tx_start`), there are
finitely many openers, and descriptor 0 is not used for files.

* `TableInvariant`: `Spec => []IInv`, `IInv` being the conjunction of
  * `TypeOK`;
  * `BitsInv`: a worker's bit is in the state word of exactly the slot it works
    on, and only while it does;
  * `LeavingInv`: the worker that finished a file has a slot whose state word is
    `FS_COMPLETE` alone, and no two such workers have the same;
  * `ReservedInv`: a slot being filled is reserved by one opener;
  * `RecordInv`: a published record has a file number and a descriptor;
  * `LocalInv`: the locals of `file_next` are indices of the table where they
    are used as such.
* `TypeCorrect` (`TypeOK`) and `LastOutAloneHolds` (`LastOutAlone`) follow.
* `AccountInvariant`: `Spec => []AInv`, where `AInv` says in every state
  * `NumberInv`: a number given out is with one opener, in one slot, or
    reported, and a reported file is in the table only until it is wiped;
  * `ClaimInv`: a number is claimed by one worker, which finds the record as it
    was published;
  * `CopyInv`: the descriptor in a copy taken for an attach is that of its file,
    if that file is still in the table;

  and, as long as `stale` is false,
  * `SameFileInv`: a worker's copy is of the file in its slot;
  * `OpenInv`: descriptors are open on their files until the last worker closes
    them;
  * `OffsetInv`: blocks in hand are different blocks, and a worker that leaves
    has seen the end of the file;
  * `AccountInv`: the checksum of a slot covers the blocks handed out less those
    still to be hashed, all of them on the wire, and `block_total` counts those
    handed out less those still to be counted;
  * `CompletionExact`.
* `CompletionExactHolds` and `DescriptorLiveHolds` follow.
* `ClaimedOnceHolds`: `Spec => []ClaimedOnce`, without exception.  Numbers are taken
  by an unconditional addition (`GrabHead`) or by a compare-and-swap (`CasHead`) that
  may be based on an outdated look at the head; that no two workers go on with the
  same number rests on `ClaimInv`, that the record about to be claimed is the right
  one on `NumberInv`.  Whether such a number belongs to a file is another matter: it
  need not (run `file_table_phantom`).

`LastOutAlone` alone is not inductive: that the last worker out is alone depends
on what the bits of *all* others mean, which is `BitsInv`; that nobody attaches
afterwards depends on `FS_IO` being gone, which is in `LeavingInv`; that an
opener does not fill the slot meanwhile needs `ReservedInv`.  The stale attach
does not break it: the bit of the attaching worker is still in the word of the
slot it points to, which is why the theorem needs no exception.

`CompletionExact` speaks of the moment of the report; what makes it true is the
account of every slot at every moment before, with the blocks in the hands of
workers on the other side of the balance.  At the report `LastOutAlone` makes
that side empty.  That the descriptor closed is the file's own, and no later
file's, needs numbers to be unique (`NumberInv`), which also gives "at most once".

**`FcRingProofs`**, from `RingAssumption` (at least one slot): `Invariance` is
`Spec => []IInv` with `TypeOK`, `TicketInv` and `ConsumerInv` (tickets under way
are different and given out; the consumer works on the ticket before the tail)
and, until a push is `lapped`,

  * `PushesLive`, `SlotsPending`, `PendingInSlots`: every ticket between the last
    one wiped and the head is with a push or in its slot, and nothing else is;
  * `WriteInv`: a producer about to write finds its slot empty;
  * `ForwardInv`: what was forwarded are all tickets before the consumer's.

`TypeCorrect`, `FifoHolds` and the action property `NoOverwriteHolds` follow.
`Fifo` says nothing of the slots, where the order is decided: two tickets meet in
a slot only a lap apart, and `TicketInv` with the tail's position keeps them from
being under way together.

**`MetaRingProofs`**, from `MetaAssumption` (twice the longest message is shorter
than the ring, as the limit of `meta_send` ensures): `Invariance` says that there
is an assignment of positions to all messages of the log (`Placed`: each begins
where the one before ends or at the next lap) for which the cursors are at the
ends of messages (`Cursors`), messages not completed are in their lines
(`Intact`), a marker is at every gap the tail has still to skip (`Marked`), and
the message being written is there as far as the writer has come (`Begun`);
`Window` keeps the writer less than a lap ahead of the tail.  From it:

* `TypeCorrect` (`TypeOK`);
* `ImplementsChannelHolds`: `Spec => ImplementsChannel`.  Initial states map to
  initial states; `meta_recv` and `meta_complete` map to the channel's own steps,
  the writer's publication to a send, and every other step to a stutter.

Positions are not in the state: head and tail only say where the two ends are, and
whether a line is free depends on where each message in between lies.  Hence the
existential quantifier over `place`.  That the early marker does no harm is the
case of `Intact` for a line that is at the tail or beyond every published message.

**`SessionProofs`**, from `StartAssumption`, `EndAssumption` and
`ArgumentsAssumption` (ports, thread counts and sizes of the command lines are
numbers; the ring has a line for each message a session can produce, the real one
having 65,536), for any command lines, numbers of threads, ports taken and moments
at which a process is killed: `Invariance` is the conjunction of

  * `Records`: the shapes of the two processes' states;
  * `AgreeInv`: what each side knows of the arguments and the port at
    each program counter;
  * `WireInv`, `ConfirmInv`: which messages can be on a connection, and that
    nothing that ends the session is said before the file is confirmed;
  * `CountInv`: blocks written are those that have left the wires (while the
    receiver lives: afterwards a write may fail and the block is nowhere), a closed
    file has all of them, and threads finished are those that have ended;
  * `RingInv`: what can still arrive fits in the ring.

`TypeCorrect`, `AgreementHolds`, `SenderTruthfulHolds` and
`ReceiverTruthfulHolds` follow.  The truth of the sender's report is a matter of
all channels: it holds because neither a wire, the ring, any of its cleared or
overwritten buffers nor a message in a worker's hands holds a final message before
the confirmation.

**`MetaSendProofs`**, from `SendAssumption` (finitely many callers):

* `SendInvariant`: `Spec => []IInv` with `TypeOK`, `LockCount` (the counter is
  the number of callers between increment and decrement), `OneSender`, `WireInv`
  (the last segment on the wire is what the holder's program counter says, or
  closes a frame when nobody sends) and `Framing`.
* `SendTypeCorrect`, `OneSenderHolds` and `FramingHolds` follow.

`OneSender` needs `LockCount`, because a caller that backs off holds a unit of
the counter; `Framing` needs `WireInv`, because a segment may be appended only
after the right one, and `OneSender`, because no other caller may append.

**`LogRingProofs`**, from `LogAssumption` (finitely many writers, at least one
slot), for any ring size and number of messages:

* `LogInvariant`: `Spec => []IInv`, `IInv` being the conjunction of
  * `TypeOK`;
  * `CountExact`: tickets taken are messages counted plus writers at work;
  * `CursorBound`: the reader copies only tickets below `count`;
  * `EmptyPending`: a slot that was never written has all of its tickets waiting
    for their writers to begin;
  * `TicketsFresh`: until writers meet in a slot, a ticket in use is one of the
    last `N`;
  * `SlotsHold`: until then, a slot holds the last of its tickets once copied.
* `TypeCorrect`, `EmptyOnlyInFlightHolds`, `ReadsItsTicketHolds` and the action
  property `OverrunIsRealHolds` follow.

`EmptyOnlyInFlight` is not inductive: that the reader's ticket has been taken at
all needs `CountExact` and `CursorBound`, and that its writer is still there needs
`EmptyPending` for *every* ticket of the slot.  `ReadsItsTicket` and
`OverrunIsReal` rest on `SlotsHold`, which a copy preserves because two tickets of
one slot less than a round apart are the same (`SameSlot`, from the lemmas on
division by `N`); `TicketsFresh` keeps them less than a round apart.

**`FileIterationProofs`**, from `IterationAssumption`, for any numbers of workers,
channel capacities and trees: `Invariance` is the conjunction of

  * `Records`, `HandInv`: the shapes of the variables, and what a file worker has
    in hand at each program counter;
  * `CountInv`: the two counters differ by the directories in the channel, being
    passed to it and being read, and by one while the sources are sent;
  * `MaskInv`: a worker with its bit in the mask has nothing in hand or a path
    name it has just received; one that has left without an error has its bit;
  * `RetireInv`: if every worker has its bit or is about to set it after a
    comparison that is still valid, the counters are equal and the channel holds
    nothing but entries of the file list;
  * `NumberInv`: every number given out is in one place: a worker's hand, the
    channel, `vec`, or announced;
  * `EndInv`: the loop is left only when all workers are gone and the channel of
    messages is empty.

`TypeCorrect`, `TailMeansQuietHolds` and `AllAnnouncedHolds` (every number is
announced, whatever the tree and the errors) follow.  `NothingLostHolds` is
`Forest => (Spec => []NothingLost)`: it needs `PlaceInv` as well, which says that
there is an assignment of places to path names (`Located`) that agrees with the
channels, hands and directories being read, without repetition (`Unique`), and
that a path name has a place exactly if it is a source, is listed or its directory
has been read (`Explained`).  The places are not in the state, hence the
existential quantifier.  `Forest` says that a path name comes from one place and
that files lie below the sources, which is how a file system without repeated
arguments looks; the same path given twice is transferred twice.  TLC evaluates
`Forest` for the instance (`TreeIsForest`).

The end is decided by a worker that compares counters and then looks at a mask,
while others go on.  `TailMeansQuiet` is true of the moment of the comparison
only; `RetireInv` is what carries it to the moment the last worker leaves.  A
worker whose comparison is no longer valid is not counted as retiring.  A worker
with its bit in the mask may have a path name in hand, so that the others leave
too early, but it takes its bit back before it acts on it.  It never sets the bit
again (run `iteration_unready`), so that from then on it can leave only on an
error, and without one an iteration that ends has lost nothing.

**`TransferProofs`**, from `TransferAssumption`, for any number of files, blocks per
file and connections, any table sizes and limits, and any files that cannot be
opened and blocks that arrive altered.  `Invariance` is the conjunction of

  * `Records`: the shapes of the variables;
  * `SenderInv`, `ReceiverInv`: the counters of the sender and the limits of the
    receiver; the receiver knows the right number of blocks or none; an error of
    `add_file` is reported before another file is opened;
  * `FlightInv`: where blocks are.  A block on a connection or in a worker's hand is
    *awaited*: it was sent and its offset is not on disk (`WireInv`, `HandInv`); none
    is under way twice (`WireOnce`, `HandOnce`, `WireOrHand`); an offset is on disk
    once (`DiskInv`); a file in the table has the checksum of what is on disk, and
    `block_total` is the number of offsets on disk less those of workers that have
    written and not counted yet (`AccountInv`);
  * `LifeInv`: there is an assignment of a stage of life to every file (not
    announced, announced, waiting to be opened, refused, in the table, closed,
    confirmed by a message, being verified, verified) that agrees with the messages,
    the lists of both main threads and the file table, each file occurring once
    (`AddOnce`, `ConfirmOnce`), and with the disk: nothing on it before the file is
    opened, every offset once it is closed, the blocks that were read once it is
    verified (`Content`).  `files_ok` is the number of verified files.

`TypeCorrect`, `CompleteIntactHolds` and the action property `ClosedWholeHolds`
follow.

`ClosedWhole` depends on `AccountInv`: `close_file` compares two numbers, and that
they are equal says that all blocks are on disk only because an offset is counted
once and an uncounted one is missing from the sum (`CountedFinite`, on cardinalities,
and `ClosableWhole`).  `AccountInv` is not inductive without the rest: a worker that
keeps its `file_cur` from one block to the next writes without asking whether the
file is open, and that it is open follows from its life.  It cannot be before its
opening, for `file_cur` was set by `file_wait`; nor after its closing, for then no
block of it is awaited (`CurrentOpen`).  `CompleteIntact` depends on `LifeInv`: that
`files_ok` has reached `files_total` says that *every* file is verified only if no
confirmation counts twice.  Where a file is in its life is spread over the messages
and lists of both sides, hence the existential quantifier; each step of the proof
gives the stages after it.

**Only model-checked**: all liveness (`Termination`, `EndsUnlessShutOut`,
`EveryPushForwarded`, `EveryMessageCompleted`, `EndsUnlessStuck`, `TransferEnds`,
`SessionEnds`, `ReceiverFollows`, `SenderFollows`, `EveryErrorRead`), which the proof
system does not handle; `DestinationAsWritten`, which is about an algorithm on
sequences.

## 5. Not modelled

* Generated serialisation code, bindings and build files: no logic of their own.
* AES-GCM, the command line parser, the ring of the Concurrency Kit: libraries.
* `cksum_worker`: it writes what it takes from that ring to files nothing reads
  again.  It is not joined, so that records still in the ring when the receiver
  exits are lost.
* The other IO engines: `dummy` and `shmem` are for measurements; `io_uring`, which
  has several requests of a worker under way, would be a parameter of `FileTable`.
* The management socket (`--mgmt`) carries the same two messages as the remote
  shell; permissions, truncation and path names are left out of `Transfer`.
* Sessions with several data connections *and* several files are covered by
  `Transfer` up to the last confirmation, and by `SessionEnd` from there on.
