----------------------------- MODULE SessionEnd -----------------------------
(***************************************************************************)
(* A whole session: SessionStart, then one file of one block per data      *)
(* connection, the count of its blocks, its confirmation, and the end of   *)
(* both processes.  The transfer of many files is the subject of module    *)
(* Transfer; here it is the shortest one that needs every connection.      *)
(*                                                                         *)
(* At the end each transmit worker says BYE on its data connection.  BYE   *)
(* is a metadata message, so the receive worker that gets it makes itself  *)
(* the owner of the metadata buffer (meta_init) and becomes one more       *)
(* writer of the ring: metabuf, metahead and the buffers are modelled with *)
(* one action per access.  The receiver's main thread reads the ring.      *)
(***************************************************************************)
EXTENDS SessionStart

CONSTANTS Lines,          \* bound: messages the ring receives in a session
          MaxKeepalives   \* bound: keepalives the sender gets

\* The lines hold an announcement, the count, the completion and a BYE per data connection.
ASSUME EndAssumption == {Lines, MaxKeepalives} \subseteq Nat /\ Lines >= MaxThreads + 3

VARIABLES
    wire,             \* per connection, the messages under way to the receiver
    back,             \* metadata under way to the sender
    txdone,           \* transfer_complete of the sender
    metabuf,          \* whose buffer is the metadata buffer
    buf,              \* the buffers, by the connection that made them
    metahead, metatail,
    metas,            \* connections whose worker has called meta_init
    knob,             \* per receive worker: what it has loaded, whether it got BYE
    threads_finished,
    main,             \* locals of escp_receiver
    written           \* blocks written

ringVars == <<metabuf, buf, metahead, metas, knob>>
mainVars == <<metatail, main>>
endVars  == <<wire, back, txdone, ringVars, mainVars, written, threads_finished>>
vars == <<startVars, endVars>>

\* Messages: the six bytes that matter of a metadata header, or a block.  BYE is
\* struct meta_info, whose type is in the sender's byte order.  The announcement
\* of the file and the count of its blocks are of one type; that only the first
\* has a root is represented by their sizes.
SPEC     == to_header(1, 128 + 16)      \* msg_file_spec | msg_compressed
COUNT    == to_header(2, 128 + 16)
COMPLETE == to_header(0, 1)
KEEP     == to_header(0, 18)
STAT     == to_header(1, 17)
ERROR    == to_header(1, 128 + 19)
BYE      == <<0, 0, 0, 0, 67, 11>>      \* 0x0B43
DATA     == << >>
ZERO     == <<0, 0, 0, 0, 0, 0>>

NoKnob   == [h |-> 0, buf |-> 0, bye |-> FALSE]

SessionInit ==
    /\ Init
    /\ wire = [c \in Conns |-> << >>] /\ back = << >> /\ txdone = FALSE
    /\ metabuf = 0 /\ metahead = 0 /\ metatail = 0 /\ metas = {}
    /\ buf = [c \in Conns |-> [l \in 0 .. Lines |-> ZERO]]
    /\ knob = [c \in Conns |-> NoKnob]
    /\ threads_finished = 0
    /\ main = [ptr |-> <<0, 0>>, opened |-> FALSE, counted |-> FALSE, closed |-> FALSE,
               stat |-> FALSE, complete |-> FALSE, keeps |-> 0, told |-> FALSE]
    /\ written = 0

-----------------------------------------------------------------------------
(* The sender.                                                             *)

\* What the sender's main thread leaves alone; below, what a receive worker leaves
\* alone on a metadata message, and the receiver's main thread.
BySender == UNCHANGED <<setup, rcv, tx, rx, fob, ringVars, mainVars, written, threads_finished>>

SndTo(pc) == snd' = [snd EXCEPT !.pc = pc]
Send(c, m) == wire' = [wire EXCEPT ![c] = Append(@, m)]

\* A message of the main thread: meta_send waits for do_meta to have set
\* metaknob.  A write to a receiver that has ended may fail, which ends the
\* sender.
MetaOut(from, m, to) ==
    /\ snd.pc = from /\ tx[Meta] \in {"keyed", "sent", "ended"}
    /\ \/ SndTo(to) /\ Send(Meta, m)
       \/ ~RcvAlive /\ snd' = [snd EXCEPT !.pc = "stuck", !.dying = TRUE] /\ UNCHANGED wire
    /\ BySender /\ UNCHANGED <<back, txdone>>

\* iterate_files announces the file.
Announce == env.files /\ MetaOut("run", SPEC, "check")

\* It has found no file at all.
NothingToTransfer ==
    /\ snd.pc = "run" /\ ~env.files /\ SndTo("failed")
    /\ BySender /\ UNCHANGED <<wire, back, txdone>>

\* send_file_complete: when the last worker has left the file, the number of its
\* blocks.
SendCount ==
    /\ \A c \in Used \ {Meta} : tx[c] = "sent"
    /\ MetaOut("check", COUNT, "confirm")

\* Every file is confirmed: msg_session_complete.
SendComplete == MetaOut("complete", COMPLETE, "flag")

\* file_completetransfer lets the transmit workers go.
CompleteTransfer ==
    /\ snd.pc = "flag" /\ SndTo("ack") /\ txdone' = TRUE
    /\ BySender /\ UNCHANGED <<wire, back>>

\* What do_meta can deliver to the main thread.
Delivered == back # << >> /\ tx[Meta] # "up"

Typ(m) == from_header(m)[2]

\* handle_msg_from_receiver: a confirmation, a keepalive, or an error of the
\* receiver, which ends the sender.
CheckFor(confirmation) ==
    /\ snd.pc \in {"check", "confirm"} /\ Delivered
    /\ \/ Typ(Head(back)) \in confirmation /\ SndTo("complete")
       \/ Typ(Head(back)) \in {18} \ confirmation /\ UNCHANGED snd
       \/ Typ(Head(back)) % 32 = 19 /\ SndTo("failed")
    /\ back' = Tail(back)
    /\ BySender /\ UNCHANGED <<wire, txdone>>

\* Mutant of Check: a keepalive counts as a confirmation.
CheckAny == CheckFor({17, 18})

Check == CheckFor({17})

\* "Waiting for ACK": any message will do.
Acknowledged ==
    /\ snd.pc = "ack" /\ Delivered
    /\ SndTo("join") /\ back' = Tail(back)
    /\ BySender /\ UNCHANGED <<wire, txdone>>

\* finish_transfer joins the transmit workers, not the metadata worker; exit(0).
FinishSender ==
    /\ snd.pc = "join" /\ \A c \in Used \ {Meta} : tx[c] = "ended"
    /\ SndTo("done")
    /\ UNCHANGED <<setup, rcv, tx, rx, fob, endVars>>

\* A write of a transmit worker; to an ended receiver it may fail.
TxWrite(c, from, m, to) ==
    /\ SndAlive /\ tx[c] = from
    /\ \/ tx' = [tx EXCEPT ![c] = to] /\ Send(c, m) /\ UNCHANGED snd
       \/ /\ ~RcvAlive /\ UNCHANGED wire
          /\ tx' = [tx EXCEPT ![c] = "stuck"] /\ snd' = [snd EXCEPT !.dying = TRUE]
    /\ UNCHANGED <<setup, rcv, rx, fob, back, txdone, ringVars, mainVars, written, threads_finished>>

\* The worker's block, once the file has been opened: first a part of it, then the
\* rest, unless the process has ended meanwhile.
TxStart(c) ==
    /\ SndAlive /\ tx[c] = "keyed" /\ c # Meta /\ snd.pc \notin {"spawn", "reply", "args"}
    /\ tx' = [tx EXCEPT ![c] = "sending"]
    /\ UNCHANGED <<setup, snd, rcv, rx, fob, endVars>>

TxBlock(c) == c # Meta /\ TxWrite(c, "sending", DATA, "sent")

\* Mutant of TxBye: the worker leaves when it has nothing to send.
TxByeEarly(c) == TxWrite(c, "sent", BYE, "ended")

\* file_next has seen transfer_complete.
TxBye(c) == txdone /\ TxWrite(c, "sent", BYE, "ended")

\* The metadata connection is closed: do_meta returns, and its worker goes on
\* as a transmit worker that has nothing to send.
MetaEof ==
    /\ SndAlive /\ snd.port # 0 /\ ~RcvAlive /\ back = << >> /\ tx[Meta] = "keyed"
    /\ tx' = [tx EXCEPT ![Meta] = "sent"]
    /\ UNCHANGED <<setup, snd, rcv, rx, fob, endVars>>

-----------------------------------------------------------------------------
(* Receive workers.                                                        *)

ByWorker == UNCHANGED <<setup, snd, rcv, tx, fob, back, txdone, mainVars, written, threads_finished>>

RxTo(c, pc) == rx' = [rx EXCEPT ![c] = pc]

\* The beginning of the first message on a connection: network_recv sets fob.
RxFirst(c) ==
    /\ RcvAlive /\ rx[c] = "first" /\ (wire[c] # << >> \/ tx[c] = "sending")
    /\ RxTo(c, "recv") /\ fob' = TRUE
    /\ UNCHANGED <<setup, snd, rcv, tx, endVars>>

\* A block: file_wait waits for the file to be opened.
RxBlock(c) ==
    /\ RcvAlive /\ rx[c] = "recv" /\ wire[c] # << >> /\ Head(wire[c]) = DATA
    /\ main.opened
    /\ written' = written + 1
    /\ wire' = [wire EXCEPT ![c] = Tail(@)]
    /\ UNCHANGED <<startVars, back, txdone, ringVars, mainVars, threads_finished>>

\* The sender has ended in the middle of a block.  (Where it is a compressed one,
\* or nothing of it has come, the worker leaves its loop instead: RxEof.)
RxCut(c) ==
    /\ RcvAlive /\ rx[c] = "recv" /\ wire[c] = << >> /\ tx[c] = "sending" /\ ~SndAlive
    /\ RxTo(c, "stuck") /\ rcv' = [rcv EXCEPT !.dying = TRUE]
    /\ UNCHANGED <<setup, snd, tx, fob, endVars>>

\* A metadata message: the first one on a connection makes meta_init publish a
\* new buffer.
MetaInit(c) ==
    /\ RcvAlive /\ rx[c] = "recv" /\ wire[c] # << >> /\ Head(wire[c]) # DATA
    /\ IF c \in metas THEN RxTo(c, "load") /\ UNCHANGED metabuf
       ELSE RxTo(c, "memset") /\ metabuf' = c
    /\ metas' = metas \cup {c}
    /\ ByWorker /\ UNCHANGED <<wire, buf, metahead, knob>>

\* It clears the buffer that is published now, its own or a later one.
Memset(c) ==
    /\ RcvAlive /\ rx[c] = "memset" /\ RxTo(c, "load")
    /\ buf' = [buf EXCEPT ![metabuf] = [l \in 0 .. Lines |-> ZERO]]
    /\ ByWorker /\ UNCHANGED <<wire, metabuf, metahead, metas, knob>>

LoadRing(c) ==
    /\ RcvAlive /\ rx[c] = "load" /\ RxTo(c, "write")
    /\ knob' = [knob EXCEPT ![c] = [h |-> metahead, buf |-> metabuf,
                                    bye |-> Head(wire[c]) = BYE]]
    /\ ByWorker /\ UNCHANGED <<wire, metabuf, buf, metahead, metas>>

WriteRing(c) ==
    /\ RcvAlive /\ rx[c] = "write" /\ RxTo(c, "store")
    /\ buf' = [buf EXCEPT ![knob[c].buf][knob[c].h] = Head(wire[c])]
    /\ wire' = [wire EXCEPT ![c] = Tail(@)]
    /\ ByWorker /\ UNCHANGED <<metabuf, metahead, metas, knob>>

\* The head moves on by the lines of the message; each of these has one.
StoreHeadBy(c, increment) ==
    /\ RcvAlive /\ rx[c] = "store"
    /\ RxTo(c, IF knob[c].bye THEN "finish" ELSE "recv")
    /\ metahead' = knob[c].h + increment /\ knob' = [knob EXCEPT ![c] = NoKnob]
    /\ ByWorker /\ UNCHANGED <<wire, metabuf, buf, metas>>

\* Mutant of StoreHead: the header takes a line of its own.
StoreHeadTwo(c) == StoreHeadBy(c, 2)

StoreHead(c) == StoreHeadBy(c, 1)

\* The sender has ended and everything has been read.
RxEofAt(c, pcs) ==
    /\ RcvAlive /\ rx[c] \in pcs /\ wire[c] = << >> /\ ~SndAlive
    /\ RxTo(c, "finish")
    /\ UNCHANGED <<setup, snd, rcv, tx, fob, endVars>>

\* Mutant of RxEof: an empty read is only noticed before the first message.
RxEofFirst(c) == RxEofAt(c, {"first"})

RxEof(c) == RxEofAt(c, {"first", "recv"})

RxFinish(c) ==
    /\ RcvAlive /\ rx[c] = "finish" /\ RxTo(c, "ended")
    /\ threads_finished' = threads_finished + 1
    /\ UNCHANGED <<setup, snd, rcv, tx, fob, wire, back, txdone, ringVars, mainVars, written>>

-----------------------------------------------------------------------------
(* The receiver's main thread.                                             *)

ByReceiver == UNCHANGED <<setup, snd, tx, rx, fob, wire, txdone, ringVars, written, threads_finished>>

RcvTo(pc) == rcv' = [rcv EXCEPT !.pc = pc]
Blocks == Max({1, rcv.threads})

\* A file whose count has come is closed when it has that many blocks; when the
\* session is complete and as many files are closed as were opened, the loop ends.
Top ==
    /\ rcv.pc = "top"
    /\ LET closed == main.closed \/ (main.opened /\ main.counted /\ written = Blocks) IN
       /\ main' = [main EXCEPT !.closed = closed, !.stat = @ \/ (closed /\ ~main.closed)]
       /\ RcvTo(IF main.complete /\ main.opened = closed THEN "finish" ELSE "poll")
    /\ ByReceiver /\ UNCHANGED <<back, metatail>>

\* meta_recv: a pointer into the buffer that is published now, or NULL.
Poll ==
    /\ rcv.pc = "poll"
    /\ RcvTo(IF metatail >= metahead THEN "idle" ELSE "read")
    /\ main' = [main EXCEPT !.ptr = <<metabuf, metatail>>]
    /\ ByReceiver /\ UNCHANGED <<back, metatail>>

\* The message at the pointer, and meta_complete.  An announcement opens the
\* file, a count lets it be closed; BYE and msg_session_complete end the session;
\* a cleared line is a message of type 0, which is ignored.
Read ==
    /\ rcv.pc = "read" /\ RcvTo("top")
    /\ LET m == from_header(buf[main.ptr[1]][main.ptr[2]])
           file_spec == m[2] \in {16, 128 + 16}
       IN
       main' = [main EXCEPT !.ptr = <<0, 0>>, !.opened = @ \/ (file_spec /\ m[1] = 1),
                            !.counted = @ \/ (file_spec /\ m[1] = 2),
                            !.complete = @ \/ m[2] = 67 * Byte + 11 \/ m = <<0, 1>>]
    /\ metatail' = metatail + 1
    /\ ByReceiver /\ UNCHANGED back

\* send_file_completions: nothing to read, but files to confirm.  A write to an
\* ended sender may fail.
SendStat ==
    /\ rcv.pc = "idle" /\ main.stat /\ metas # {}
    /\ \/ RcvTo("top") /\ back' = Append(back, STAT)
       \/ ~SndAlive /\ rcv' = [rcv EXCEPT !.pc = "stuck", !.dying = TRUE] /\ UNCHANGED back
    /\ main' = [main EXCEPT !.stat = FALSE]
    /\ ByReceiver /\ UNCHANGED metatail

\* "Exiting because all workers exited."
AllExited ==
    /\ rcv.pc = "idle" /\ ~main.stat /\ threads_finished >= rcv.threads
    /\ RcvTo("failed")
    /\ UNCHANGED <<setup, snd, tx, rx, fob, endVars>>

\* Nothing to do: sleep, each time longer, and at last send a keepalive.
Idle == rcv.pc = "idle" /\ ~main.stat /\ threads_finished < rcv.threads

Sleep ==
    /\ Idle /\ RcvTo("top")
    /\ UNCHANGED <<setup, snd, tx, rx, fob, endVars>>

KeepaliveDue ==
    /\ Idle /\ RcvTo("keepalive")
    /\ UNCHANGED <<setup, snd, tx, rx, fob, endVars>>

\* The keepalive; a write to an ended sender fails, if not the first time.
SendKeepalive ==
    /\ rcv.pc = "keepalive" /\ metas # {}
    /\ \/ /\ SndAlive /\ main.keeps < MaxKeepalives
          /\ back' = Append(back, KEEP)
          /\ main' = [main EXCEPT !.keeps = @ + 1] /\ RcvTo("top")
       \/ SndAlive /\ main.keeps >= MaxKeepalives /\ RcvTo("top") /\ UNCHANGED <<back, main>>
       \/ ~SndAlive /\ UNCHANGED <<back, main>>
          /\ rcv' = [rcv EXCEPT !.pc = "stuck", !.dying = TRUE]
    /\ ByReceiver /\ UNCHANGED metatail

\* "Transfer Complete": the acknowledgement.
Ack ==
    /\ rcv.pc = "finish" /\ metas # {}
    /\ \/ RcvTo("join") /\ back' = Append(back, COMPLETE)
       \/ ~SndAlive /\ rcv' = [rcv EXCEPT !.pc = "stuck", !.dying = TRUE] /\ UNCHANGED back
    /\ ByReceiver /\ UNCHANGED mainVars

\* Mutant of SendAck: finish_transfer before the acknowledgement.
SendAckLate == (\A c \in joined : rx[c] = "ended") /\ Ack

SendAck == Ack

\* finish_transfer joins the first thread_count workers, whichever they are.
FinishReceiver ==
    /\ rcv.pc = "join" /\ \A c \in joined : rx[c] = "ended"
    /\ RcvTo("done")
    /\ UNCHANGED <<setup, snd, tx, rx, fob, endVars>>

\* The logging thread of a dying receiver tells the sender, if there is a log
\* file (otherwise it does not run) and a metadata connection.
ReportError ==
    /\ RcvAlive /\ rcv.dying /\ rcv.log /\ ~main.told /\ metas # {}
    /\ back' = Append(back, ERROR)
    /\ main' = [main EXCEPT !.told = TRUE]
    /\ UNCHANGED <<startVars, wire, txdone, ringVars, metatail, written, threads_finished>>

-----------------------------------------------------------------------------
Sender ==
    \/ Announce \/ NothingToTransfer \/ SendCount \/ Check \/ SendComplete \/ CompleteTransfer
    \/ Acknowledged \/ FinishSender
TxWorker(c) == TxStart(c) \/ TxBlock(c) \/ TxBye(c)
RxWorker(c) ==
    \/ RxFirst(c) \/ RxBlock(c) \/ RxCut(c) \/ MetaInit(c) \/ Memset(c) \/ LoadRing(c) \/ WriteRing(c)
    \/ StoreHead(c) \/ RxEof(c) \/ RxFinish(c)
Receiver ==
    \/ Top \/ Poll \/ Read \/ SendStat \/ AllExited \/ Sleep \/ KeepaliveDue
    \/ SendKeepalive \/ SendAck \/ FinishReceiver

Next ==
    \/ StartNext /\ UNCHANGED endVars
    \/ Sender \/ MetaEof \/ Receiver \/ ReportError
    \/ \E c \in Conns : TxWorker(c) \/ RxWorker(c)

Spec == SessionInit /\ [][Next]_vars

\* Every thread that can take a step takes one; an idle receiver's sleeps grow,
\* so that a keepalive falls due however often it looks at the ring in between.
\* Nothing is assumed of Kill, RemoteFails and the logging thread.
Fairness ==
    /\ WF_vars((StartSender /\ UNCHANGED endVars) \/ Sender)
    /\ WF_vars((StartReceiver /\ UNCHANGED endVars) \/ Receiver) /\ SF_vars(KeepaliveDue)
    /\ WF_vars(StartRcvr /\ UNCHANGED endVars)
    /\ WF_vars(Timeout /\ UNCHANGED endVars) /\ WF_vars(Die /\ UNCHANGED endVars)
    /\ \A c \in Conns :
       /\ WF_vars(((TxInit(c) \/ TxConnect(c) \/ TxKey(c)) /\ UNCHANGED endVars) \/ TxWorker(c))
       /\ WF_vars((RxKey(c) /\ UNCHANGED endVars) \/ RxWorker(c))
    /\ WF_vars(MetaEof)

FairSpec == Spec /\ Fairness

-----------------------------------------------------------------------------
(* Properties.                                                             *)

TypeOK ==
    /\ snd.pc \in {"args", "reply", "spawn", "run", "check", "confirm", "complete", "flag",
                   "ack", "join", "stuck"} \cup Ended
    /\ rcv.pc \in {"helo", "port", "ready", "top", "poll", "read", "idle", "keepalive",
                   "finish", "join", "stuck"} \cup Ended
    /\ tx \in [Conns -> {"none", "init", "connect", "up", "keyed", "sending", "sent", "ended",
                         "stuck"}]
    /\ rx \in [Conns -> {"none", "key", "first", "recv", "memset", "load", "write", "store",
                         "finish", "ended", "stuck"}]
    /\ metabuf \in Conns /\ metahead \in 0 .. Lines /\ metatail \in 0 .. Lines
    /\ threads_finished \in 0 .. MaxThreads + 1 /\ written \in 0 .. MaxThreads

\* A sender that reports success (it prints "Complete") has had its file
\* written and closed, whatever BYE messages, keepalives and failures came
\* between.
SenderTruthful == snd.pc = "done" => main.closed /\ written = Blocks

\* A receiver that leaves its loop with "Transfer complete" has closed the file
\* and told the sender so, although the BYE of a data connection may overtake
\* everything on the metadata connection.
ReceiverTruthful == rcv.pc \in {"finish", "join", "done"} => main.closed /\ ~main.stat

\* The receiver's main thread waits in meta_send for a metadata connection that
\* will not come.
Orphaned == rcv.pc = "keepalive" /\ metas = {}

\* No session waits for ever with both processes alive: at last one has ended.
SessionEnds == <>(~SndAlive \/ ~RcvAlive)

\* A receiver does not outlive its sender, however the sender ended, unless it
\* is orphaned.
ReceiverFollows == ~SndAlive ~> (~RcvAlive \/ Orphaned)

\* The sender's main thread waits for a message of a receiver that has ended: it
\* looks at the ring of metadata only, where nothing tells it so.
Bereft == snd.pc \in {"check", "confirm", "ack"} /\ ~Delivered

\* A sender does not outlive its receiver, however the receiver ended and
\* whichever threads found out, unless it is bereft: no other wait of the sender
\* (for the pipe, its workers, the metadata connection) outlasts the receiver.
SenderFollows == ~RcvAlive ~> (~SndAlive \/ Bereft)
=============================================================================
