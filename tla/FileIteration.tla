--------------------------- MODULE FileIteration ---------------------------
(***************************************************************************)
(* How the sender finds the files to transfer (src/escp/sender.rs): the    *)
(* main thread (iterate_files) feeds path names to file workers            *)
(* (iterate_file_worker), which number and open regular files and pass     *)
(* directories to directory workers (iterate_dir_worker), which feed their *)
(* entries back to the file workers.  The main thread announces the        *)
(* numbered files to the receiver, in order.  Nobody knows in advance how  *)
(* much there is to find; three counters detect the end.                   *)
(*                                                                         *)
(* The insertion of a file into the table (module FileTable) is part of    *)
(* SendMsg: the worker may stay there for any time.                        *)
(***************************************************************************)
EXTENDS Integers, Sequences, FiniteSets

CONSTANTS FileWorkers,   \* the GLOBAL_FILEOPEN_COUNT threads
          DirWorkers,    \* the GLOBAL_DIROPEN_COUNT threads
          Entries,       \* path names
          Kind,          \* Kind[e]: "file", "dir" or "ignored"
          Unreadable,    \* files that open(2) may refuse
          Children,      \* Children[e]: the files and directories in e
          Sources,       \* flags.source
          FileList,      \* entries of flags.file_list
          FilesCap,      \* capacity of the channel files_in (15000)
          MsgCap,        \* capacity of the channel msg_in (400)
          FirstBatch,    \* counter_max before the first full batch (8)
          LaterBatch     \* counter_max after it (300)

\* "ignored": not on disk, outside of the prefix, a link or other special
\* file, or a directory in non-recursive mode.  A refusal for lack of
\* descriptors is not meant by Unreadable: the open is then repeated.
ASSUME IterationAssumption ==
    /\ IsFiniteSet(FileWorkers) /\ FileWorkers # {}
    /\ IsFiniteSet(DirWorkers) /\ DirWorkers # {}
    /\ Kind \in [Entries -> {"file", "dir", "ignored"}]
    /\ Unreadable \subseteq Entries
    /\ Children \in [Entries -> SUBSET Entries]
    /\ Sources \in Seq(Entries) /\ FileList \in Seq(Entries)
    /\ FilesCap \in Nat \ {0} /\ MsgCap \in Nat \ {0}
    /\ FirstBatch \in Nat /\ LaterBatch \in Nat

VARIABLES
    GLOBAL_FILEOPEN_CLEANUP,  \* directories found, and 1 for the sources
    GLOBAL_FILEOPEN_TAIL,     \* directories read, and 1 for the sources
    GLOBAL_FILEOPEN_MASK,     \* file workers ready to exit
    named,     \* the entry of each number given out by GLOBAL_FINO
    files,     \* channel to the file workers
    dirs,      \* channel to the directory workers, unbounded
    msgs,      \* channel to the main thread
    fw,        \* file workers: program counter and locals
    dw,        \* directory workers: program counter and entries left to send
    main       \* the main thread: program counter and locals

vars == <<GLOBAL_FILEOPEN_CLEANUP, GLOBAL_FILEOPEN_TAIL, GLOBAL_FILEOPEN_MASK,
          named, files, dirs, msgs, fw, dw, main>>
counters == <<GLOBAL_FILEOPEN_CLEANUP, GLOBAL_FILEOPEN_TAIL, GLOBAL_FILEOPEN_MASK>>

Init ==
    /\ GLOBAL_FILEOPEN_CLEANUP = 1 /\ GLOBAL_FILEOPEN_TAIL = 0
    /\ GLOBAL_FILEOPEN_MASK = {}
    /\ named = << >>
    /\ files = << >> /\ dirs = << >> /\ msgs = << >>
    /\ fw = [w \in FileWorkers |-> [pc |-> "recv", exit_ready |-> FALSE,
                                    item |-> << >>, tail |-> 0]]
    /\ dw = [d \in DirWorkers |-> [pc |-> "recv", left |-> {}]]
    /\ main = [pc |-> "sources", todo |-> Sources, file_list |-> FileList,
               vec |-> {}, counter_max |-> FirstBatch, files_sent |-> 0,
               do_break |-> FALSE]

-----------------------------------------------------------------------------
(* iterate_file_worker.  item holds the entry, later the number, in hand.   *)

RecvItem(w) ==
    /\ fw[w].pc = "recv"
    /\ files # << >>
    /\ files' = Tail(files)
    /\ fw' = [fw EXCEPT ![w].item = <<Head(files)>>,
                        ![w].pc = IF fw[w].exit_ready THEN "unready" ELSE "open"]
    /\ UNCHANGED <<counters, named, dirs, msgs, dw, main>>

\* The worker takes its bit back; exit_ready remains set.
Unready(w) ==
    /\ fw[w].pc = "unready"
    /\ GLOBAL_FILEOPEN_MASK' = GLOBAL_FILEOPEN_MASK \ {w}
    /\ fw' = [fw EXCEPT ![w].pc = "open"]
    /\ UNCHANGED <<GLOBAL_FILEOPEN_CLEANUP, GLOBAL_FILEOPEN_TAIL, named, files,
                   dirs, msgs, dw, main>>

\* recv_timeout expires: the tail is loaded, then compared with CLEANUP.
LoadTail(w) ==
    /\ fw[w].pc = "recv"
    /\ files = << >>
    /\ fw' = [fw EXCEPT ![w].tail = GLOBAL_FILEOPEN_TAIL, ![w].pc = "compare"]
    /\ UNCHANGED <<counters, named, files, dirs, msgs, dw, main>>

Compare(w) ==
    /\ fw[w].pc = "compare"
    /\ fw' = [fw EXCEPT ![w].pc =
                IF fw[w].tail # GLOBAL_FILEOPEN_CLEANUP THEN "recv"
                ELSE IF fw[w].exit_ready THEN "mask" ELSE "ready"]
    /\ UNCHANGED <<counters, named, files, dirs, msgs, dw, main>>

SetReady(w) ==
    /\ fw[w].pc = "ready"
    /\ GLOBAL_FILEOPEN_MASK' = GLOBAL_FILEOPEN_MASK \cup {w}
    /\ fw' = [fw EXCEPT ![w].exit_ready = TRUE, ![w].pc = "mask"]
    /\ UNCHANGED <<GLOBAL_FILEOPEN_CLEANUP, GLOBAL_FILEOPEN_TAIL, named, files,
                   dirs, msgs, dw, main>>

\* Mutant of LoadMask: the constant it is compared with has one bit too many.
LoadMaskNever(w) ==
    /\ fw[w].pc = "mask"
    /\ fw' = [fw EXCEPT ![w].pc = "recv"]
    /\ UNCHANGED <<counters, named, files, dirs, msgs, dw, main>>

LoadMask(w) ==
    /\ fw[w].pc = "mask"
    /\ fw' = [fw EXCEPT ![w].pc =
                IF GLOBAL_FILEOPEN_MASK = FileWorkers THEN "exited" ELSE "recv"]
    /\ UNCHANGED <<counters, named, files, dirs, msgs, dw, main>>

\* Mutant of OpenRegular: the number is off by one.
OpenRegularOff(w) ==
    /\ fw[w].pc = "open" /\ Kind[fw[w].item[1]] = "file"
    /\ named' = Append(named, fw[w].item[1])
    /\ fw' = [fw EXCEPT ![w].item = <<Len(named) + 2>>, ![w].pc = "msg"]
    /\ UNCHANGED <<counters, files, dirs, msgs, dw, main>>

\* A regular file gets the next number.
OpenRegular(w) ==
    /\ fw[w].pc = "open" /\ Kind[fw[w].item[1]] = "file"
    /\ named' = Append(named, fw[w].item[1])
    /\ fw' = [fw EXCEPT ![w].item = <<Len(named) + 1>>, ![w].pc = "msg"]
    /\ UNCHANGED <<counters, files, dirs, msgs, dw, main>>

\* Mutant of OpenDir: the directory is not counted.
OpenDirUncounted(w) ==
    /\ fw[w].pc = "open" /\ Kind[fw[w].item[1]] = "dir"
    /\ fw' = [fw EXCEPT ![w].pc = "senddir"]
    /\ UNCHANGED <<counters, named, files, dirs, msgs, dw, main>>

\* A directory is counted before it is passed on.
OpenDir(w) ==
    /\ fw[w].pc = "open" /\ Kind[fw[w].item[1]] = "dir"
    /\ GLOBAL_FILEOPEN_CLEANUP' = GLOBAL_FILEOPEN_CLEANUP + 1
    /\ fw' = [fw EXCEPT ![w].pc = "senddir"]
    /\ UNCHANGED <<GLOBAL_FILEOPEN_TAIL, GLOBAL_FILEOPEN_MASK, named, files,
                   dirs, msgs, dw, main>>

Ignore(w) ==
    /\ fw[w].pc = "open" /\ Kind[fw[w].item[1]] = "ignored"
    /\ fw' = [fw EXCEPT ![w].pc = "recv", ![w].item = << >>]
    /\ UNCHANGED <<counters, named, files, dirs, msgs, dw, main>>

\* On an error of open(2) the thread returns, its bit in the mask not set.
OpenError(w) ==
    /\ fw[w].pc = "open" /\ fw[w].item[1] \in Unreadable
    /\ fw' = [fw EXCEPT ![w].pc = "exited"]
    /\ UNCHANGED <<counters, named, files, dirs, msgs, dw, main>>

SendDir(w) ==
    /\ fw[w].pc = "senddir"
    /\ dirs' = Append(dirs, fw[w].item[1])
    /\ fw' = [fw EXCEPT ![w].pc = "recv", ![w].item = << >>]
    /\ UNCHANGED <<counters, named, files, msgs, dw, main>>

\* file_addfile, then the message with the name, the number and the stat.
SendMsg(w) ==
    /\ fw[w].pc = "msg"
    /\ Len(msgs) < MsgCap
    /\ msgs' = Append(msgs, fw[w].item[1])
    /\ fw' = [fw EXCEPT ![w].pc = "recv", ![w].item = << >>]
    /\ UNCHANGED <<counters, named, files, dirs, dw, main>>

AllExited == \A w \in FileWorkers : fw[w].pc = "exited"

-----------------------------------------------------------------------------
(* iterate_dir_worker                                                       *)

RecvDir(d) ==
    /\ dw[d].pc = "recv"
    /\ \/ /\ dirs # << >>
          /\ dirs' = Tail(dirs)
          /\ dw' = [dw EXCEPT ![d] = [pc |-> "read", left |-> Children[Head(dirs)]]]
       \/ /\ dirs = << >>
          /\ AllExited /\ main.pc # "sources"    \* the channel is disconnected
          /\ dw' = [dw EXCEPT ![d].pc = "exited"]
          /\ UNCHANGED dirs
    /\ UNCHANGED <<counters, named, files, msgs, fw, main>>

SendChild(d) ==
    /\ dw[d].pc = "read"
    /\ Len(files) < FilesCap
    /\ \E e \in dw[d].left :
          /\ files' = Append(files, e)
          /\ dw' = [dw EXCEPT ![d].left = @ \ {e}]
    /\ UNCHANGED <<counters, named, dirs, msgs, fw, main>>

\* Mutant of FinishDir: the loop over readdir may end before the last entry.
FinishDirShort(d) ==
    /\ dw[d].pc = "read"
    /\ GLOBAL_FILEOPEN_TAIL' = GLOBAL_FILEOPEN_TAIL + 1
    /\ dw' = [dw EXCEPT ![d].pc = "recv"]
    /\ UNCHANGED <<GLOBAL_FILEOPEN_CLEANUP, GLOBAL_FILEOPEN_MASK, named, files,
                   dirs, msgs, fw, main>>

FinishDir(d) ==
    /\ dw[d].pc = "read"
    /\ dw[d].left = {}
    /\ GLOBAL_FILEOPEN_TAIL' = GLOBAL_FILEOPEN_TAIL + 1
    /\ dw' = [dw EXCEPT ![d].pc = "recv"]
    /\ UNCHANGED <<GLOBAL_FILEOPEN_CLEANUP, GLOBAL_FILEOPEN_MASK, named, files,
                   dirs, msgs, fw, main>>

-----------------------------------------------------------------------------
(* iterate_files                                                            *)

SendSource ==
    /\ main.pc = "sources" /\ main.todo # << >>
    /\ Len(files) < FilesCap
    /\ files' = Append(files, Head(main.todo))
    /\ main' = [main EXCEPT !.todo = Tail(@)]
    /\ UNCHANGED <<counters, named, dirs, msgs, fw, dw>>

\* The sources are counted as done; the file list is not sent yet.
SourcesDone ==
    /\ main.pc = "sources" /\ main.todo = << >>
    /\ GLOBAL_FILEOPEN_TAIL' = GLOBAL_FILEOPEN_TAIL + 1
    /\ main' = [main EXCEPT !.pc = "list"]
    /\ UNCHANGED <<GLOBAL_FILEOPEN_CLEANUP, GLOBAL_FILEOPEN_MASK, named, files,
                   dirs, msgs, fw, dw>>

\* The entries of the list are popped from its end and sent, waiting for room
\* in the channel.
SendListed ==
    /\ main.pc = "list"
    /\ \/ /\ main.file_list # << >>
          /\ Len(files) < FilesCap
          /\ files' = Append(files, main.file_list[Len(main.file_list)])
          /\ main' = [main EXCEPT !.file_list = SubSeq(@, 1, Len(@) - 1)]
       \/ /\ main.file_list = << >>
          /\ main' = [main EXCEPT !.pc = "recv"]
          /\ UNCHANGED files
    /\ UNCHANGED <<counters, named, dirs, msgs, fw, dw>>

\* A message, a timeout, or the end of the channel.
MainRecv ==
    /\ main.pc = "recv"
    /\ \/ /\ msgs # << >>
          /\ LET vec == main.vec \cup {Head(msgs)}
                 full == Cardinality(vec) > main.counter_max IN
             main' = [main EXCEPT !.vec = vec,
                                  !.counter_max = IF full THEN LaterBatch ELSE @,
                                  !.pc = IF full THEN "announce" ELSE "recv"]
          /\ msgs' = Tail(msgs)
       \/ /\ msgs = << >> /\ ~AllExited
          /\ main' = [main EXCEPT !.pc = "announce"]
          /\ UNCHANGED msgs
       \/ /\ msgs = << >> /\ AllExited
          /\ main' = [main EXCEPT !.pc = "announce", !.do_break = TRUE]
          /\ UNCHANGED msgs
    /\ UNCHANGED <<counters, named, files, dirs, fw, dw>>

\* Of the files received, sorted, those that continue the numbers already
\* announced are sent with meta_send.
Announce ==
    LET run == {n \in main.vec : main.files_sent + 1 .. n \subseteq main.vec} IN
    /\ main.pc = "announce"
    /\ main' = [main EXCEPT !.files_sent = @ + Cardinality(run),
                            !.vec = @ \ run,
                            !.pc = IF \/ main.vec # {} /\ run = {}   \* continue
                                      \/ ~main.do_break
                                   THEN "list" ELSE "done"]
    /\ UNCHANGED <<counters, named, files, dirs, msgs, fw, dw>>

-----------------------------------------------------------------------------
FileWorkerStep(w) ==
    \/ RecvItem(w) \/ Unready(w) \/ LoadTail(w) \/ Compare(w) \/ SetReady(w)
    \/ LoadMask(w) \/ OpenRegular(w) \/ OpenDir(w) \/ Ignore(w) \/ OpenError(w)
    \/ SendDir(w) \/ SendMsg(w)
DirWorkerStep(d) == RecvDir(d) \/ SendChild(d) \/ FinishDir(d)
MainStep == SendSource \/ SourcesDone \/ SendListed \/ MainRecv \/ Announce

Finished ==
    /\ main.pc = "done"
    /\ \A d \in DirWorkers : dw[d].pc = "exited"
    /\ UNCHANGED vars

Next ==
    \/ \E w \in FileWorkers : FileWorkerStep(w)
    \/ \E d \in DirWorkers : DirWorkerStep(d)
    \/ MainStep
    \/ Finished

Spec == Init /\ [][Next]_vars

\* Every thread is scheduled, and the file table always gets room again.
FairSpec ==
    /\ Spec
    /\ \A w \in FileWorkers : WF_vars(FileWorkerStep(w))
    /\ \A d \in DirWorkers : WF_vars(DirWorkerStep(d))
    /\ WF_vars(MainStep)

-----------------------------------------------------------------------------
TypeOK ==
    /\ GLOBAL_FILEOPEN_CLEANUP \in Nat /\ GLOBAL_FILEOPEN_TAIL \in Nat
    /\ GLOBAL_FILEOPEN_MASK \subseteq FileWorkers
    /\ named \in Seq(Entries)
    /\ files \in Seq(Entries) /\ Len(files) <= FilesCap
    /\ dirs \in Seq(Entries)
    /\ msgs \in Seq(1 .. Len(named)) /\ Len(msgs) <= MsgCap
    /\ \A w \in FileWorkers :
          /\ fw[w].pc \in {"recv", "unready", "compare", "ready", "mask", "open",
                           "senddir", "msg", "exited"}
          /\ fw[w].exit_ready \in BOOLEAN /\ fw[w].tail \in Nat
    /\ \A d \in DirWorkers : /\ dw[d].pc \in {"recv", "read", "exited"}
                             /\ dw[d].left \subseteq Entries
    /\ main.pc \in {"sources", "list", "recv", "announce", "done"}
    /\ main.vec \subseteq 1 .. Len(named)
    /\ main.files_sent \in 0 .. Len(named)

Items(q) == {q[i] : i \in 1 .. Len(q)}
Regular == {e \in Entries : Kind[e] = "file"}
Listed  == Items(FileList)

\* Every path name comes from one place, and every regular file that is not in
\* the file list is a source or lies below one.
Distinct(q) == \A i, j \in 1 .. Len(q) : q[i] = q[j] => i = j
Forest ==
    /\ Distinct(Sources) /\ Distinct(FileList) /\ Items(Sources) \cap Listed = {}
    /\ \A e \in Entries : Children[e] \cap (Items(Sources) \cup Listed) = {}
    /\ \A d, e \in Entries : d # e => Children[d] \cap Children[e] = {}
    /\ \A S \in SUBSET Entries :
          (Items(Sources) \subseteq S /\ \A e \in S : Kind[e] = "dir" => Children[e] \subseteq S)
             => Regular \ Listed \subseteq S

\* No file worker has left on an error: one that has still holds its path name.
NoneFailed == \A w \in FileWorkers : fw[w].pc = "exited" => fw[w].item = << >>

\* When iterate_files returns, every regular file that is a source or was found
\* in a directory has been given exactly one number, unless a file worker left
\* on an error of open(2), and every number has been announced: the end is not
\* detected while a path name is in a channel or in the hands of a worker, and
\* no number is given twice or skipped.
Occurrences(seq, S) == Cardinality({i \in 1 .. Len(seq) : seq[i] \in S})
NothingLost ==
    main.pc = "done" =>
        /\ NoneFailed => \A e \in Regular \ Listed : Occurrences(named, {e}) = 1
        /\ \A e \in Regular : Occurrences(named, {e}) <= 1
        /\ main.files_sent = Len(named)
        /\ main.vec = {}

\* Equal counters mean that no directory is waiting or being read, so that
\* the files in the channel and in the workers' hands are all there is
\* (GLOBAL_FILEOPEN_TAIL == GLOBAL_FILEOPEN_CLEANUP, the exit condition of
\* iterate_file_worker).
TailMeansQuiet ==
    GLOBAL_FILEOPEN_TAIL = GLOBAL_FILEOPEN_CLEANUP =>
        /\ dirs = << >>
        /\ main.todo = << >>
        /\ \A d \in DirWorkers : dw[d].pc # "read"
        /\ \A w \in FileWorkers : fw[w].pc # "senddir"

\* iterate_files returns ("All workers finished, exiting"): the file workers
\* agree on the end of the iteration and the main thread sees it.
IterationEnds == <>(main.pc = "done")

\* Two ways in which the file workers fail to agree: one of them was
\* ready and took its bit back for good (Unready), or left without setting it
\* (OpenError).
Deserted(w) == /\ w \notin GLOBAL_FILEOPEN_MASK
               /\ fw[w].exit_ready \/ fw[w].pc = "exited"

\* The third is the main thread's own: it waits in the loop over the sources or
\* over the file list for room in files_in, while every file worker has left
\* (the list is not in the counters) or waits for room in msg_in, which only
\* the main thread empties.
Clogged == /\ \/ main.pc = "sources" /\ main.todo # << >>
              \/ main.pc = "list" /\ main.file_list # << >>
           /\ Len(files) = FilesCap
           /\ \A w \in FileWorkers :
                 \/ fw[w].pc = "exited"
                 \/ fw[w].pc = "msg" /\ Len(msgs) = MsgCap

\* There is no fourth: iterate_files returns unless a worker deserted or the
\* two bounded channels clogged.  In particular directory workers waiting for
\* room in files_in never take part in a cycle, and a list that fits into the
\* channels never blocks.
EndsUnlessStuck ==
    <>(main.pc = "done" \/ Clogged \/ \E w \in FileWorkers : Deserted(w))
=============================================================================
