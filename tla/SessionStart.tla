---------------------------- MODULE SessionStart ----------------------------
(***************************************************************************)
(* How a session comes up: start_escp and the first half of escp_sender on *)
(* the sender, initialize_receiver on the receiver, the thread that runs   *)
(* rx_start, and the workers tx_start and rx_start spawn.                  *)
(*                                                                         *)
(* The processes talk over two channels: the remote shell's pipe, which    *)
(* carries one message in each direction, and the TCP connections.         *)
(* Connection snd.threads carries metadata, the ones before it data.       *)
(* A process that has ended takes its threads with it and closes its       *)
(* connections.                                                            *)
(*                                                                         *)
(* VRFY ends a process 1.5 s after the condition failed: the thread that   *)
(* found it is stuck, the process dying, and its other threads go on.      *)
(***************************************************************************)
EXTENDS Arguments

CONSTANTS Situations,      \* command lines, and what is around them: whether there is
                           \* a file, the ports others occupy, the processes that
                           \* may be killed
          MaxThreads,      \* bound: data connections
          THREAD_COUNT,    \* 32
          BindTries,       \* 100
          DefaultPort,     \* 1232
          PortCount        \* 65536, what the network order of a port has room for

ASSUME StartAssumption ==
    /\ {MaxThreads, THREAD_COUNT, BindTries, DefaultPort} \subseteq Nat
    /\ PortCount \in Nat \ {0}
    /\ \A s \in Situations :
          /\ s.cmd.threads \in Nat /\ s.cmd.port \in Nat /\ s.cmd.log \in BOOLEAN
          /\ int_from_human(s.cmd.block) \in Nat
          /\ s.files \in BOOLEAN /\ s.crash \subseteq {"sender", "receiver"}
    /\ MaxThreads >= 1 /\ THREAD_COUNT <= MaxThreads + 3

Conns == 0 .. MaxThreads

\* How a process ends: after a transfer, with an error, or, the sender, with status
\* 0 because nothing came from the remote shell.
Ended == {"done", "failed", "returned"}
NoCmd == [none |-> TRUE]

VARIABLES
    cmd,         \* the command line, until it has been used
    snd,         \* the sender's main thread and its arguments
    rcv,         \* the receiver's main thread and its arguments
    pipe,        \* the messages of the remote shell, each an Option
    env,         \* what is around: see Situations
    rcvr,        \* the thread that runs rx_start
    active_port, \* 0 until rx_start listens
    tx,          \* per connection, its worker on the sender
    rx,          \* per connection, its worker on the receiver
    joined,      \* the workers finish_transfer will wait for on the receiver
    fob          \* some receive worker has had a message

setup == <<cmd, pipe, env, rcvr, active_port, joined>>
startVars == <<setup, snd, rcv, tx, rx, fob>>

SndAlive == snd.pc \notin Ended
RcvAlive == rcv.pc \notin Ended
Meta == snd.threads
Used == 0 .. snd.threads

Init ==
    /\ \E s \in Situations : cmd = s.cmd
                           /\ env = [files |-> s.files, busy |-> s.busy, crash |-> s.crash]
    /\ snd = [pc |-> "args", threads |-> 0, block |-> 0, hash |-> 0, port |-> 0,
              dying |-> FALSE]
    /\ rcv = [pc |-> "helo", threads |-> 0, block |-> 0, hash |-> 0, log |-> FALSE,
              dying |-> FALSE]
    /\ pipe = [helo |-> None, reply |-> None]
    /\ rcvr = [pc |-> "none", port |-> 0, tries |-> 0, i |-> 0]
    /\ active_port = 0
    /\ tx = [c \in Conns |-> "none"]
    /\ rx = [c \in Conns |-> "none"]
    /\ joined = {} /\ fob = FALSE

-----------------------------------------------------------------------------
(* The sender, up to the message that asks for a session.                  *)

\* start_escp: what --writechecksum and --nochecksum make of do_hash, which
\* args_new leaves at 0.
HashMode(c) == IF c.nochecksum THEN 0 ELSE IF c.writechecksum THEN 2 ELSE 0

\* What parse_dest makes of the destinations.
Parsed == [d \in {s.cmd.dest : s \in Situations} |-> parse_dest(Written(d))]

\* An unknown engine or too few arguments end start_escp, a destination
\* without a host ends escp_sender.
Usable(c) == c.engine /\ c.sources /\ Parsed[c.dest].host # None

BadCommand ==
    /\ snd.pc = "args" /\ ~Usable(cmd)
    /\ snd' = [snd EXCEPT !.pc = "failed"] /\ cmd' = NoCmd
    /\ UNCHANGED <<rcv, pipe, env, rcvr, active_port, tx, rx, joined, fob>>

\* The remote shell is started and the session_init message written to it.
SendHelo ==
    /\ snd.pc = "args" /\ Usable(cmd)
    /\ snd' = [snd EXCEPT !.pc = "reply", !.threads = cmd.threads,
                          !.block = BlockSize(cmd.block), !.hash = HashMode(cmd)]
    /\ pipe' = [pipe EXCEPT !.helo =
                  Some([typ |-> from_header(to_header(1, 8))[2],
                        host |-> Parsed[cmd.dest].host,
                        threads |-> cmd.threads, block |-> snd'.block,
                        hash |-> snd'.hash, log |-> cmd.log,
                        port_start |-> cmd.port])]
    /\ cmd' = NoCmd
    /\ UNCHANGED <<rcv, env, rcvr, active_port, tx, rx, joined, fob>>

\* The answer: tx_start refuses too many threads, makes one of none and spawns
\* the workers.  The version of the receiver is looked at, but decides nothing.
GetReply ==
    /\ snd.pc = "reply" /\ pipe.reply # None
    /\ LET n == Max({1, snd.threads}) IN
       \/ /\ n >= THREAD_COUNT - 2
          /\ snd' = [snd EXCEPT !.pc = "stuck", !.dying = TRUE] /\ UNCHANGED tx
       \/ /\ n < THREAD_COUNT - 2
          /\ snd' = [snd EXCEPT !.pc = "spawn", !.threads = n,
                                !.port = CHOOSE p \in pipe.reply : TRUE]
          /\ tx' = [c \in Conns |-> IF c <= n THEN "init" ELSE "none"]
    /\ pipe' = [pipe EXCEPT !.reply = None]
    /\ UNCHANGED <<cmd, rcv, env, rcvr, active_port, rx, joined, fob>>

\* The remote side has closed the pipe: escp_sender prints an error and returns,
\* and the process ends with status 0.
ReplyLost ==
    /\ snd.pc = "reply" /\ pipe.reply = None /\ ~RcvAlive
    /\ snd' = [snd EXCEPT !.pc = "returned"]
    /\ UNCHANGED <<cmd, rcv, pipe, env, rcvr, active_port, tx, rx, joined, fob>>

\* tx_worker allocates its buffers; tx_start waits for all of them.
TxInit(c) ==
    /\ SndAlive /\ tx[c] = "init"
    /\ tx' = [tx EXCEPT ![c] = "connect"]
    /\ UNCHANGED <<cmd, snd, rcv, pipe, env, rcvr, active_port, rx, joined, fob>>

Spawned ==
    /\ snd.pc = "spawn" /\ \A c \in Used : tx[c] # "init"
    /\ snd' = [snd EXCEPT !.pc = "run"]
    /\ UNCHANGED <<cmd, rcv, pipe, env, rcvr, active_port, tx, rx, joined, fob>>

\* The socket of rx_start stays open once it listens, until the process ends.
Listening == RcvAlive /\ active_port # 0

\* What becomes of a worker that cannot connect, and of its process.
TxConnectOr(c, refused, dies) ==
    /\ SndAlive /\ tx[c] = "connect"
    /\ \/ Listening /\ snd.port = active_port
          /\ tx' = [tx EXCEPT ![c] = "up"] /\ UNCHANGED snd
       \/ ~(Listening /\ snd.port = active_port)
          /\ tx' = [tx EXCEPT ![c] = refused] /\ snd' = [snd EXCEPT !.dying = @ \/ dies]
    /\ UNCHANGED <<cmd, rcv, pipe, env, rcvr, active_port, rx, joined, fob>>

\* Mutant of TxConnect: only the worker ends.
TxConnectReturns(c) == TxConnectOr(c, "none", FALSE)

TxConnect(c) == TxConnectOr(c, "stuck", TRUE)

\* network_inittx writes the key of the connection.
TxKey(c) ==
    /\ SndAlive /\ tx[c] = "up"
    /\ tx' = [tx EXCEPT ![c] = "keyed"]
    /\ UNCHANGED <<cmd, snd, rcv, pipe, env, rcvr, active_port, rx, joined, fob>>

-----------------------------------------------------------------------------
(* The receiver.                                                           *)

\* No escp on the remote host, or no such host.
RemoteFails ==
    /\ rcv.pc = "helo"
    /\ rcv' = [rcv EXCEPT !.pc = "failed"]
    /\ UNCHANGED <<cmd, snd, pipe, env, rcvr, active_port, tx, rx, joined, fob>>

\* read_stdin_or_mgmt panics when the pipe ends.
HeloLost ==
    /\ rcv.pc = "helo" /\ pipe.helo = None /\ ~SndAlive
    /\ rcv' = [rcv EXCEPT !.pc = "failed"]
    /\ UNCHANGED <<cmd, snd, pipe, env, rcvr, active_port, tx, rx, joined, fob>>

Positive(n, default) == IF n > 0 THEN n ELSE default

\* initialize_receiver takes over the sender's arguments and spawns rx_start.
ReadHelo ==
    /\ rcv.pc = "helo"
    /\ \E h \in pipe.helo :
       /\ h.typ = 8
       /\ rcv' = [rcv EXCEPT !.pc = "port", !.threads = h.threads, !.block = h.block,
                             !.hash = h.hash, !.log = h.log]
       /\ rcvr' = [pc |-> "bind", tries |-> 0, i |-> 0,
                   port |-> Positive(h.port_start, DefaultPort)]
    /\ pipe' = [pipe EXCEPT !.helo = None]
    /\ UNCHANGED <<cmd, snd, env, active_port, tx, rx, joined, fob>>

\* rx_start: one bind(2); the port may be free, or the next one is tried.  The
\* port after the last is 0, for which the kernel chooses a port that rx_start
\* never learns: it listens, and active_port stays 0.
Bind ==
    /\ RcvAlive /\ rcvr.pc = "bind"
    /\ LET sin_port == rcvr.port % PortCount
           taken == sin_port \in env.busy \ {0}
       IN
       \/ /\ ~taken
          /\ rcvr' = [rcvr EXCEPT !.pc = "accept"]
          /\ active_port' = sin_port
       \/ /\ taken /\ rcvr.tries < BindTries
          /\ rcvr' = [rcvr EXCEPT !.port = @ + 1, !.tries = @ + 1]
          /\ UNCHANGED active_port
       \/ /\ taken /\ rcvr.tries >= BindTries
          /\ rcvr' = [rcvr EXCEPT !.pc = "unbound"]
          /\ UNCHANGED active_port
    /\ UNCHANGED <<cmd, snd, rcv, pipe, env, tx, rx, joined, fob>>

\* start_receiver: an error of rx_start ends the process.
StartFailed ==
    /\ RcvAlive /\ rcvr.pc = "unbound"
    /\ rcv' = [rcv EXCEPT !.pc = "failed"]
    /\ UNCHANGED <<cmd, snd, pipe, env, rcvr, active_port, tx, rx, joined, fob>>

\* file_get_activeport has seen a port.  The test of the port range that follows
\* compares the port with a sum it cannot exceed: it is reported whatever it is.
Reply(port) ==
    /\ rcv.pc = "port" /\ active_port # 0
    /\ rcv' = [rcv EXCEPT !.pc = "ready"]
    /\ pipe' = [pipe EXCEPT !.reply = Some(port)]
    /\ UNCHANGED <<cmd, snd, env, rcvr, active_port, tx, rx, joined, fob>>

\* Mutant of SendReply: the port asked for, not the one in use.
SendReplyAsked == Reply(active_port - rcvr.tries)

SendReply == Reply(active_port)

\* dtn_waituntilready: some worker has had a message, or it took too long.
WaitReady ==
    /\ rcv.pc = "ready" /\ fob
    /\ rcv' = [rcv EXCEPT !.pc = "top"]
    /\ UNCHANGED <<cmd, snd, pipe, env, rcvr, active_port, tx, rx, joined, fob>>

ReadyTimeout ==
    /\ rcv.pc = "ready" /\ ~fob
    /\ rcv' = [rcv EXCEPT !.pc = "stuck", !.dying = TRUE]
    /\ UNCHANGED <<cmd, snd, pipe, env, rcvr, active_port, tx, rx, joined, fob>>

\* Connections the kernel has accepted and rx_start has not.
Backlog == {c \in Conns : tx[c] \in {"up", "keyed", "sending", "sent", "ended"} /\ rx[c] = "none"}

\* rx_start takes one more connection than there are threads and returns; with
\* a thread count of 0 it never does.
Accept(c) ==
    /\ RcvAlive /\ rcvr.pc = "accept" /\ c \in Backlog
    /\ rx' = [rx EXCEPT ![c] = "key"]
    /\ rcvr' = [rcvr EXCEPT !.i = @ + 1,
                            !.pc = IF rcv.threads > 0 /\ rcvr.i + 1 > rcv.threads
                                   THEN "returned" ELSE "accept"]
    /\ joined' = IF rcvr.i < rcv.threads THEN joined \cup {c} ELSE joined
    /\ UNCHANGED <<cmd, snd, rcv, pipe, env, active_port, tx, fob>>

\* poll(2) returns after 5 seconds without a connection.
AcceptTimeout ==
    /\ RcvAlive /\ rcvr.pc = "accept" /\ Backlog = {}
    /\ rcvr' = [rcvr EXCEPT !.pc = "stuck"]
    /\ rcv' = [rcv EXCEPT !.dying = TRUE]
    /\ UNCHANGED <<cmd, snd, pipe, env, active_port, tx, rx, joined, fob>>

\* rx_worker reads the key, or finds the connection closed.
RxKey(c) ==
    /\ RcvAlive /\ rx[c] = "key"
    /\ \/ /\ tx[c] # "up"
          /\ rx' = [rx EXCEPT ![c] = "first"] /\ UNCHANGED rcv
       \/ /\ tx[c] = "up" /\ ~SndAlive
          /\ rx' = [rx EXCEPT ![c] = "stuck"]
          /\ rcv' = [rcv EXCEPT !.dying = TRUE]
    /\ UNCHANGED <<cmd, snd, pipe, env, rcvr, active_port, tx, joined, fob>>

\* VRFY: after 1.5 s the process ends.
Die ==
    /\ \/ /\ SndAlive /\ snd.dying
          /\ snd' = [snd EXCEPT !.pc = "failed"] /\ UNCHANGED rcv
       \/ /\ RcvAlive /\ rcv.dying
          /\ rcv' = [rcv EXCEPT !.pc = "failed"] /\ UNCHANGED snd
    /\ UNCHANGED <<cmd, pipe, env, rcvr, active_port, tx, rx, joined, fob>>

\* Either process may be killed.
Kill ==
    /\ \/ /\ SndAlive /\ "sender" \in env.crash /\ cmd = NoCmd
          /\ snd' = [snd EXCEPT !.pc = "failed"] /\ UNCHANGED rcv
       \/ /\ RcvAlive /\ "receiver" \in env.crash
          /\ rcv' = [rcv EXCEPT !.pc = "failed"] /\ UNCHANGED snd
    /\ UNCHANGED <<cmd, pipe, env, rcvr, active_port, tx, rx, joined, fob>>

StartSender == BadCommand \/ SendHelo \/ GetReply \/ ReplyLost \/ Spawned
StartReceiver == HeloLost \/ ReadHelo \/ SendReply \/ WaitReady
StartRcvr == Bind \/ StartFailed \/ \E c \in Conns : Accept(c)
Timeout == ReadyTimeout \/ AcceptTimeout
StartNext ==
    \/ StartSender \/ StartReceiver \/ StartRcvr \/ Timeout
    \/ Die \/ RemoteFails \/ Kill
    \/ \E c \in Conns : TxInit(c) \/ TxConnect(c) \/ TxKey(c) \/ RxKey(c)

-----------------------------------------------------------------------------
(* Properties.                                                             *)

\* Both sides work with the same arguments: once the sender has its answer, the
\* receiver has the sender's block size, checksum mode and number of threads
\* (unless that was 0, which only the sender corrects), the block size is not
\* below the minimum, and the sender connects to the port the receiver listens on.
Agreement ==
    snd.pc \in {"spawn", "run", "check", "confirm", "complete", "flag", "ack", "join",
               "done"} =>
        /\ rcv.block = snd.block /\ rcv.hash = snd.hash /\ snd.block >= MinBlock
        /\ rcv.threads \in {0, snd.threads} /\ snd.port = active_port

\* The destination the sender contacts and the path it copies to are the ones
\* the user wrote, for paths without a colon (plain form) or an at sign (URI).
DestinationAsWritten ==
    [][snd.pc = "args" /\ snd'.pc = "reply" =>
         LET d == Parsed[cmd.dest] IN
         /\ \A h \in pipe'.helo : h.host = Some(cmd.dest.host)
         /\ d.user = cmd.dest.user /\ d.port = cmd.dest.port
         /\ d.dest = Some(cmd.dest.path) \/ d.dest \cup Some(<< >>) = Some(cmd.dest.path)]_startVars
=============================================================================
