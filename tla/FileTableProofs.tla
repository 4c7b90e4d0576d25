--------------------------- MODULE FileTableProofs ---------------------------
(***************************************************************************)
(* Proofs about FileTable, for any number of files, blocks, slots, openers *)
(* and workers and any probe sequences.                                    *)
(*                                                                         *)
(* From the state words (IInv): every variable keeps its type, and the     *)
(* worker that closes, reports and wipes a slot is alone on it.            *)
(* From the accounts of the slots (AInv), as long as no attach used an     *)
(* outdated copy: a file is reported once, with every block of it, and a   *)
(* worker reads the file whose number it sends.                            *)
(* From the numbers in it (ClaimInv), in every behaviour: each number is   *)
(* claimed by one worker.                                                  *)
(***************************************************************************)
EXTENDS FileTable, SequenceTheorems, FiniteSetTheorems, TLAPS

State(s) == file_stat[s].state

\* A worker works on a slot exactly while its bit is in the slot's state word.
BitsInv ==
    /\ \A w \in Workers : worker[w].pc \in Attached =>
          worker[w].fs \in Slots /\ w \in State(worker[w].fs)
    /\ \A w \in Workers, s \in Slots : w \in State(s) =>
          worker[w].pc \in Attached /\ worker[w].fs = s

\* A worker that found itself to be the last one keeps the slot, with
\* FS_COMPLETE alone in the state word, to itself.
LeavingInv ==
    /\ \A w \in Workers : worker[w].pc \in Leaving =>
          worker[w].fs \in Slots /\ State(worker[w].fs) = {FS_COMPLETE}
    /\ \A w, v \in Workers :
          (w # v /\ worker[w].pc \in Leaving /\ worker[v].pc \in Leaving)
              => worker[w].fs # worker[v].fs

\* A slot is reserved by one opener at a time.
ReservedInv ==
    /\ \A o \in Openers : opener[o].pc = "fill" =>
          opener[o].slot \in Slots /\ State(opener[o].slot) = BedFace
    /\ \A o, p \in Openers :
          (o # p /\ opener[o].pc = "fill" /\ opener[p].pc = "fill")
              => opener[o].slot # opener[p].slot

\* A published record names a file and a descriptor, and so does an opener.
RecordInv ==
    /\ \A s \in Slots : State(s) \notin {Free, BedFace} =>
          file_stat[s].file_no \in FileNos /\ file_stat[s].fd \in FDs
    /\ \A o \in Openers : opener[o].pc # "idle" =>
          opener[o].fino \in FileNos /\ opener[o].fd \in FDs

\* Locals of file_next and submit_work at the points where they are used.
LocalsOK(r) ==
    /\ r.pc \in {"copy", "attach"} => r.i \in Workers
    /\ r.pc \in {"copy", "attach", "claim"} => r.j \in Slots
    /\ r.pc = "attach" => FS_IO \in r.lcl.state
    /\ r.pc = "send" => r.from \in FileNos
    /\ r.pc \in {"attach", "claim"} \cup Attached \cup Leaving =>
          r.lcl.file_no \in FileNos /\ r.lcl.fd \in FDs
LocalInv == \A w \in Workers : LocalsOK(worker[w])

\* The inductive invariant.
SlotInv == BitsInv /\ LeavingInv /\ ReservedInv /\ RecordInv /\ LocalInv
IInv == TypeOK /\ SlotInv

-----------------------------------------------------------------------------
\* The bits of the workers are different from the flags and the markers.
LEMMA WorkerBits ==
    /\ Workers \subseteq Nat
    /\ \A w \in Workers : w # FS_IO /\ w # FS_COMPLETE /\ w # -1 /\ w # -2
BY TableAssumption DEF Workers, FS_IO, FS_COMPLETE

\* The state words of a slot that is free, reserved, published or being left
\* are all different, and hold no worker's bit and no FS_IO.
LEMMA Markers ==
    /\ FS_INIT # Free /\ FS_INIT # BedFace /\ Free # BedFace
    /\ {FS_COMPLETE} # Free /\ {FS_COMPLETE} # BedFace /\ {FS_COMPLETE} # FS_INIT
    /\ \A x \in Workers \cup {FS_IO} :
          x \notin Free /\ x \notin BedFace /\ x \notin FS_INIT /\ x \notin {FS_COMPLETE}
    /\ FS_COMPLETE \notin Free \cup BedFace \cup FS_INIT
<1>1. -1 \in FS_INIT /\ -2 \in BedFace
  BY DEF FS_INIT, BedFace
<1>2. -1 \notin Free /\ -1 \notin BedFace /\ -1 \notin {FS_COMPLETE}
  BY DEF Free, BedFace, FS_COMPLETE
<1>3. -2 \notin Free /\ -2 \notin {FS_COMPLETE}
  BY DEF Free, FS_COMPLETE
<1>4. FS_COMPLETE \notin Free \cup BedFace \cup FS_INIT
  BY DEF Free, BedFace, FS_INIT, FS_COMPLETE
<1>5. FS_IO \notin Free \cup BedFace \cup FS_INIT \cup {FS_COMPLETE}
  BY DEF Free, BedFace, FS_INIT, FS_COMPLETE, FS_IO
<1>6. \A w \in Workers : w \notin Free \cup BedFace \cup FS_INIT \cup {FS_COMPLETE}
  BY WorkerBits DEF Free, BedFace, FS_INIT
<1> QED
  BY <1>1, <1>2, <1>3, <1>4, <1>5, <1>6

\* A step of worker w that changes neither a state word nor which slot the
\* worker works on preserves everything about the slots.
LEMMA QuietStep ==
    ASSUME IInv, NEW w \in Workers, NEW r \in WorkerState,
           worker' = [worker EXCEPT ![w] = r], opener' = opener,
           \A s \in Slots : /\ file_stat'[s].state = file_stat[s].state
                             /\ file_stat'[s].file_no = file_stat[s].file_no
                             /\ file_stat'[s].fd = file_stat[s].fd,
           LocalsOK(r),
           r.pc \in Attached <=> worker[w].pc \in Attached,
           r.pc \in Leaving <=> worker[w].pc \in Leaving,
           r.pc \in Attached \cup Leaving => r.fs = worker[w].fs
    PROVE  SlotInv'
<1>1. /\ worker'[w] = r
      /\ \A u \in Workers \ {w} : worker'[u] = worker[u]
  BY DEF IInv, TypeOK
<1>2. BitsInv'
  BY <1>1 DEF IInv, SlotInv, BitsInv, State
<1>3. LeavingInv'
  BY <1>1 DEF IInv, SlotInv, LeavingInv, State
<1>4. ReservedInv'
  BY DEF IInv, SlotInv, ReservedInv, State
<1>5. RecordInv'
  BY DEF IInv, SlotInv, RecordInv, State
<1>6. LocalInv'
  BY <1>1 DEF IInv, SlotInv, LocalInv
<1> QED
  BY <1>2, <1>3, <1>4, <1>5, <1>6 DEF SlotInv

\* WorkerStart is a worker's state and has no obligations.
LEMMA StartOK ==
    /\ WorkerStart \in WorkerState /\ LocalsOK(WorkerStart)
    /\ Wiped \in FileStat
    /\ [WorkerStart EXCEPT !.pc = "done"] \in WorkerState
    /\ LocalsOK([WorkerStart EXCEPT !.pc = "done"])
<1>1. Wiped \in FileStat
  BY DEF Wiped, FileStat, StateWords, Free
<1> QED
  BY <1>1, TableAssumption
     DEF WorkerStart, WorkerState, WorkerPCs, LocalsOK, Attached, Leaving

-----------------------------------------------------------------------------
\* A step of a worker without a slot that changes nothing but its own locals
\* and the head.
LEMMA LocalStep ==
    ASSUME IInv, NEW w \in Workers, NEW r \in WorkerState,
           worker' = [worker EXCEPT ![w] = r],
           LocalsOK(r), r.pc \notin Attached \cup Leaving,
           worker[w].pc \notin Attached \cup Leaving,
           UNCHANGED <<file_stat, file_count, file_tail, file_activefile, opener,
                       transfer_complete, GLOBAL_FINO, descr, hist>>,
           file_head' \in Nat
    PROVE  TypeOK' /\ SlotInv'
<1>1. TypeOK'
  BY DEF IInv, TypeOK, hist
<1> QED
  BY <1>1, QuietStep

\* file_next: choosing a number.
LEMMA ChooseStep ==
    ASSUME IInv, NEW w \in Workers,
           LoadCount(w) \/ LoadHead(w) \/ GrabHead(w) \/ CasHead(w)
    PROVE  TypeOK' /\ SlotInv'
<1>1. /\ worker[w] \in WorkerState /\ file_count \in Nat /\ file_head \in Nat
      /\ worker \in [Workers -> WorkerState]
  BY DEF IInv, TypeOK
<1>2. CASE LoadCount(w)
  <2> DEFINE r == [worker[w] EXCEPT !.pc = "head", !.fc = file_count]
  <2>1. r \in WorkerState /\ r.pc = "head"
    BY <1>1 DEF WorkerState, WorkerPCs
  <2>2. worker' = [worker EXCEPT ![w] = r]
    BY <1>1, <1>2 DEF LoadCount
  <2> HIDE DEF r
  <2>3. LocalsOK(r) /\ r.pc \notin Attached \cup Leaving
    BY <2>1 DEF LocalsOK, Attached, Leaving
  <2> QED
    BY <1>1, <1>2, <2>1, <2>2, <2>3, LocalStep DEF LoadCount, table, Attached, Leaving
<1>3. CASE LoadHead(w)
  <2> DEFINE avail == worker[w].fc - file_head
             pc == IF avail > THREAD_COUNT THEN "grab"
                   ELSE IF avail > 0 THEN "cas" ELSE "scan"
             r == [worker[w] EXCEPT !.fh = file_head, !.i = 0, !.pc = pc]
  <2>1. pc \in {"grab", "cas", "scan"}
    OBVIOUS
  <2>2. worker' = [worker EXCEPT ![w] = r]
    BY <1>1, <1>3 DEF LoadHead
  <2> HIDE DEF pc
  <2>3. r \in WorkerState /\ r.pc = pc
    <3>1. pc \in WorkerPCs /\ 0 \in 0 .. NWorkers
      BY <2>1, TableAssumption DEF WorkerPCs
    <3> QED
      BY <1>1, <3>1 DEF WorkerState
  <2> HIDE DEF r
  <2>4. LocalsOK(r) /\ r.pc \notin Attached \cup Leaving
    BY <2>1, <2>3 DEF LocalsOK, Attached, Leaving
  <2> QED
    BY <1>1, <1>3, <2>2, <2>3, <2>4, LocalStep DEF LoadHead, table, Attached, Leaving
<1>4. CASE GrabHead(w) \/ (CasHead(w) /\ file_head = worker[w].fh)
  <2> DEFINE h == file_head + 1
             r == [worker[w] EXCEPT !.fh = h, !.pc = "find"]
  <2>0. h \in Nat /\ "find" \in WorkerPCs
    BY <1>1 DEF WorkerPCs
  <2>2. worker' = [worker EXCEPT ![w] = r]
    BY <1>1, <1>4 DEF GrabHead, CasHead
  <2> HIDE DEF h
  <2>1. r \in WorkerState /\ r.pc = "find"
    BY <1>1, <2>0 DEF WorkerState
  <2> HIDE DEF r
  <2>3. LocalsOK(r) /\ r.pc \notin Attached \cup Leaving
    BY <2>1 DEF LocalsOK, Attached, Leaving
  <2>4. file_head' \in Nat
    BY <1>1, <1>4 DEF GrabHead, CasHead
  <2> QED
    BY <1>4, <2>1, <2>2, <2>3, <2>4, LocalStep DEF GrabHead, CasHead, Attached, Leaving
<1>5. CASE CasHead(w) /\ file_head # worker[w].fh
  <2> DEFINE r == [worker[w] EXCEPT !.pc = "count"]
  <2>1. r \in WorkerState /\ r.pc = "count"
    BY <1>1 DEF WorkerState, WorkerPCs
  <2>2. worker' = [worker EXCEPT ![w] = r]
    BY <1>1, <1>5 DEF CasHead, Goto
  <2> HIDE DEF r
  <2>3. LocalsOK(r) /\ r.pc \notin Attached \cup Leaving
    BY <2>1 DEF LocalsOK, Attached, Leaving
  <2> QED
    BY <1>1, <1>5, <2>1, <2>2, <2>3, LocalStep DEF CasHead, Attached, Leaving
<1> QED
  BY <1>2, <1>3, <1>4, <1>5

\* file_next: the scan goes on with the next entry of file_activefile.
LEMMA ScanOn ==
    ASSUME IInv, NEW w \in Workers,
           worker[w].pc \in {"scan", "copy", "attach"}, worker[w].i \in Workers,
           worker' = [worker EXCEPT ![w].i = @ + 1, ![w].pc = "scan"],
           UNCHANGED <<table, transfer_complete, GLOBAL_FINO, descr, opener, hist>>
    PROVE  TypeOK' /\ SlotInv'
<1> DEFINE n == worker[w].i + 1
           r == [worker[w] EXCEPT !.i = n, !.pc = "scan"]
<1>1. n \in 0 .. NWorkers /\ "scan" \in WorkerPCs
  BY TableAssumption DEF Workers, WorkerPCs
<1>2. /\ worker \in [Workers -> WorkerState] /\ worker[w] \in WorkerState
      /\ file_head \in Nat
  BY DEF IInv, TypeOK
<1>3. worker' = [worker EXCEPT ![w] = r]
  BY <1>2
<1> HIDE DEF n
<1>4. r \in WorkerState /\ r.pc = "scan"
  BY <1>1, <1>2 DEF WorkerState
<1> HIDE DEF r
<1>5. LocalsOK(r) /\ r.pc \notin Attached \cup Leaving
  BY <1>4 DEF LocalsOK, Attached, Leaving
<1> QED
  BY <1>2, <1>3, <1>4, <1>5, LocalStep DEF table, Attached, Leaving

\* file_next: looking for a file to attach to, or for the file claimed.
LEMMA SearchStep ==
    ASSUME IInv, NEW w \in Workers,
           Scan(w) \/ CopySlot(w) \/ CheckComplete(w) \/ FindSlot(w)
    PROVE  TypeOK' /\ SlotInv'
<1>1. /\ worker[w] \in WorkerState /\ worker \in [Workers -> WorkerState]
      /\ file_stat \in [Slots -> FileStat] /\ file_head \in Nat
      /\ file_activefile \in [Workers -> Slots \cup {0}]
      /\ LocalsOK(worker[w]) /\ RecordInv
  BY DEF IInv, TypeOK, SlotInv, LocalInv
<1>2. /\ UNCHANGED <<table, transfer_complete, GLOBAL_FINO, descr, opener, hist>>
      /\ worker[w].pc \notin Attached \cup Leaving
  BY DEF Scan, CopySlot, CheckComplete, FindSlot, Attached, Leaving
<1>3. CASE Scan(w)
  <2>1. worker[w].i \in 0 .. NWorkers /\ (worker[w].i < NWorkers => worker[w].i \in Workers)
    BY <1>1, TableAssumption DEF WorkerState, Workers
  <2>2. CASE worker[w].i < NWorkers /\ file_activefile[worker[w].i] # 0
    <3> DEFINE j == file_activefile[worker[w].i]
               r == [worker[w] EXCEPT !.j = j, !.pc = "copy"]
    <3>0. worker' = [worker EXCEPT ![w].j = j, ![w].pc = "copy"]
      BY <1>3, <2>1, <2>2, TableAssumption DEF Scan
    <3>1. worker' = [worker EXCEPT ![w] = r]
      BY <1>1, <3>0
    <3>2. j \in Slots /\ "copy" \in WorkerPCs
      BY <1>1, <2>1, <2>2 DEF WorkerPCs
    <3> HIDE DEF j
    <3>3. r \in WorkerState /\ r.pc = "copy" /\ r.i = worker[w].i /\ r.j = j
      BY <1>1, <3>2 DEF WorkerState
    <3> HIDE DEF r
    <3>4. LocalsOK(r) /\ r.pc \notin Attached \cup Leaving
      BY <2>1, <2>2, <3>2, <3>3 DEF LocalsOK, Attached, Leaving
    <3> QED
      BY <1>1, <1>2, <3>1, <3>3, <3>4, LocalStep DEF table
  <2>3. CASE worker[w].i < NWorkers /\ file_activefile[worker[w].i] = 0
    <3>1. /\ worker[w].pc = "scan"
          /\ worker' = [worker EXCEPT ![w].i = @ + 1]
      BY <1>1, <1>3, <2>1, <2>3 DEF Scan
    <3>2. worker' = [worker EXCEPT ![w].i = @ + 1, ![w].pc = "scan"]
      BY <1>1, <3>1 DEF WorkerState
    <3> QED
      BY <1>2, <2>1, <2>3, <3>1, <3>2, ScanOn
  <2>4. CASE worker[w].i = NWorkers
    <3> DEFINE r == [worker[w] EXCEPT !.pc = "complete"]
    <3>1. worker' = [worker EXCEPT ![w] = r]
      BY <1>1, <1>3, <2>1, <2>4, TableAssumption DEF Scan, Goto
    <3>2. r \in WorkerState /\ r.pc = "complete"
      BY <1>1 DEF WorkerState, WorkerPCs
    <3> HIDE DEF r
    <3>3. LocalsOK(r) /\ r.pc \notin Attached \cup Leaving
      BY <3>2 DEF LocalsOK, Attached, Leaving
    <3> QED
      BY <1>1, <1>2, <3>1, <3>2, <3>3, LocalStep DEF table
  <2> QED
    BY <1>3, <2>1, <2>2, <2>3, <2>4 DEF Scan
<1>4. CASE CopySlot(w)
  <2>1. worker[w].j \in Slots /\ worker[w].i \in Workers /\ worker[w].pc = "copy"
    BY <1>1, <1>4 DEF CopySlot, LocalsOK
  <2> DEFINE f == file_stat[worker[w].j]
  <2>2. f \in FileStat
    BY <1>1, <2>1
  <2>3. CASE FS_IO \in f.state
    <3> DEFINE r == [worker[w] EXCEPT !.lcl = f, !.pc = "attach"]
    <3>1. worker' = [worker EXCEPT ![w] = r]
      BY <1>1, <1>4, <2>3 DEF CopySlot
    <3>2. f.state # Free /\ f.state # BedFace
      BY <2>3 DEF Free, BedFace, FS_IO
    <3>3. f.file_no \in FileNos /\ f.fd \in FDs
      BY <1>1, <2>1, <3>2 DEF RecordInv, State
    <3> HIDE DEF f
    <3>4. /\ r \in WorkerState /\ r.pc = "attach" /\ r.lcl = f
          /\ r.i = worker[w].i /\ r.j = worker[w].j
      BY <1>1, <2>2 DEF WorkerState, WorkerPCs
    <3> HIDE DEF r
    <3>5. LocalsOK(r) /\ r.pc \notin Attached \cup Leaving
      BY <2>1, <2>3, <3>3, <3>4 DEF LocalsOK, Attached, Leaving
    <3> QED
      BY <1>1, <1>2, <3>1, <3>4, <3>5, LocalStep DEF table
  <2>4. CASE FS_IO \notin f.state
    BY <1>2, <1>4, <2>1, <2>4, ScanOn DEF CopySlot
  <2> QED
    BY <2>3, <2>4
<1>5. CASE CheckComplete(w)
  <2>1. \E r \in {WorkerStart, [WorkerStart EXCEPT !.pc = "done"]} :
           worker' = [worker EXCEPT ![w] = r]
    <3>1. [WorkerStart EXCEPT !.pc = "count"] = WorkerStart
      BY DEF WorkerStart
    <3> QED
      BY <1>5, <3>1 DEF CheckComplete
  <2>2. PICK r \in {WorkerStart, [WorkerStart EXCEPT !.pc = "done"]} :
           worker' = [worker EXCEPT ![w] = r]
    BY <2>1
  <2>3. r \in WorkerState /\ LocalsOK(r)
    BY <2>2, StartOK
  <2>4. r.pc \notin Attached \cup Leaving
    BY <2>2 DEF WorkerStart, Attached, Leaving
  <2> QED
    BY <1>1, <1>2, <2>2, <2>3, <2>4, LocalStep DEF table
<1>6. CASE FindSlot(w)
  <2>1. PICK k \in 1 .. CC :
           LET s == Probe[worker[w].fh][k] IN
           /\ file_stat[s].state = FS_INIT
           /\ worker' = [worker EXCEPT ![w].j = s, ![w].lcl = file_stat[s],
                                       ![w].pc = "claim"]
    BY <1>6 DEF FindSlot
  <2> DEFINE s == Probe[worker[w].fh][k]
             f == file_stat[s]
             r == [worker[w] EXCEPT !.j = s, !.lcl = f, !.pc = "claim"]
  <2>2. s \in Slots
    <3>1. worker[w].fh \in FileNos
      BY <1>6 DEF FindSlot
    <3> QED
      BY <3>1, TableAssumption
  <2>3. worker' = [worker EXCEPT ![w] = r]
    BY <1>1, <2>1
  <2>4. f \in FileStat /\ f.state = FS_INIT
    BY <1>1, <2>1, <2>2
  <2>5. f.file_no \in FileNos /\ f.fd \in FDs
    BY <1>1, <2>2, <2>4, Markers DEF RecordInv, State
  <2> HIDE DEF s, f
  <2>6. r \in WorkerState /\ r.pc = "claim" /\ r.lcl = f /\ r.j = s
    BY <1>1, <2>2, <2>4 DEF WorkerState, WorkerPCs
  <2> HIDE DEF r
  <2>7. LocalsOK(r) /\ r.pc \notin Attached \cup Leaving
    BY <2>2, <2>5, <2>6 DEF LocalsOK, Attached, Leaving
  <2> QED
    BY <1>1, <1>2, <2>3, <2>6, <2>7, LocalStep DEF table
<1> QED
  BY <1>3, <1>4, <1>5, <1>6

-----------------------------------------------------------------------------
\* A step of worker w that changes the state word of slot s to st, and of the
\* rest of the table nothing that SlotInv mentions.  The word was not that of
\* a free or reserved slot or of a slot another worker is leaving.
LEMMA WordStep ==
    ASSUME IInv, NEW w \in Workers, NEW r \in WorkerState, NEW s \in Slots, NEW st,
           worker' = [worker EXCEPT ![w] = r], opener' = opener,
           State(s)' = st, \A x \in Slots \ {s} : State(x)' = State(x),
           \A x \in Slots : /\ file_stat'[x].file_no = file_stat[x].file_no
                             /\ file_stat'[x].fd = file_stat[x].fd,
           LocalsOK(r),
           State(s) # Free, State(s) # BedFace, State(s) # {FS_COMPLETE},
           \A v \in Workers \ {w} : v \in st <=> v \in State(s),
           worker[w].pc \notin Leaving,
           worker[w].pc \in Attached => worker[w].fs = s,
           IF w \in st THEN r.pc \in Attached /\ r.fs = s ELSE r.pc \notin Attached,
           r.pc \in Leaving => r.fs = s /\ st = {FS_COMPLETE}
    PROVE  SlotInv'
<1>1. /\ worker'[w] = r
      /\ \A u \in Workers \ {w} : worker'[u] = worker[u]
  BY DEF IInv, TypeOK
<1>2. BitsInv /\ LeavingInv /\ ReservedInv /\ RecordInv /\ LocalInv
  BY DEF IInv, SlotInv
<1>3. BitsInv'
  <2>1. ASSUME NEW u \in Workers, worker'[u].pc \in Attached
        PROVE  worker'[u].fs \in Slots /\ u \in State(worker[u].fs)'
    <3>1. CASE u = w
      BY <1>1, <2>1, <3>1
    <3>2. CASE u # w
      BY <1>1, <1>2, <2>1, <3>2 DEF BitsInv
    <3> QED
      BY <3>1, <3>2
  <2>2. ASSUME NEW u \in Workers, NEW x \in Slots, u \in State(x)'
        PROVE  worker'[u].pc \in Attached /\ worker'[u].fs = x
    <3>1. CASE u = w /\ x = s
      BY <1>1, <2>2, <3>1
    <3>2. CASE u = w /\ x # s
      \* w would have been attached to x, and not to s.
      BY <1>1, <1>2, <2>2, <3>2 DEF BitsInv
    <3>3. CASE u # w
      BY <1>1, <1>2, <2>2, <3>3 DEF BitsInv
    <3> QED
      BY <3>1, <3>2, <3>3
  <2> QED
    BY <2>1, <2>2 DEF BitsInv
<1>4. \A u \in Workers \ {w} : worker[u].pc \in Leaving => worker[u].fs # s
  BY <1>2 DEF LeavingInv
<1>5. LeavingInv'
  <2>1. ASSUME NEW u \in Workers, worker'[u].pc \in Leaving
        PROVE  worker'[u].fs \in Slots
               /\ State(worker[u].fs)' = {FS_COMPLETE}
    <3>1. CASE u = w
      BY <1>1, <2>1, <3>1
    <3>2. CASE u # w
      BY <1>1, <1>2, <1>4, <2>1, <3>2 DEF LeavingInv
    <3> QED
      BY <3>1, <3>2
  <2>2. ASSUME NEW u \in Workers, NEW v \in Workers, u # v,
               worker'[u].pc \in Leaving, worker'[v].pc \in Leaving
        PROVE  worker'[u].fs # worker'[v].fs
    BY <1>1, <1>2, <1>4, <2>2 DEF LeavingInv
  <2> QED
    BY <2>1, <2>2 DEF LeavingInv
<1>6. ReservedInv'
  BY <1>2 DEF ReservedInv
<1>7. RecordInv'
  BY <1>2 DEF RecordInv
<1>8. LocalInv'
  BY <1>1, <1>2 DEF LocalInv
<1> QED
  BY <1>3, <1>5, <1>6, <1>7, <1>8 DEF SlotInv

\* A state word with FS_IO or a worker's bit is a set of bits.
LEMMA BitWords ==
    ASSUME NEW st \in StateWords, NEW x \in Workers \cup {FS_IO}, x \in st
    PROVE  /\ st \in SUBSET (Workers \cup {FS_IO, FS_COMPLETE})
           /\ st # Free /\ st # BedFace /\ st # FS_INIT /\ st # {FS_COMPLETE}
BY Markers DEF StateWords

\* The swap of a state word changes only that word.
LEMMA NewWord ==
    ASSUME file_stat \in [Slots -> FileStat], NEW s \in Slots, NEW st \in StateWords,
           file_stat' = [file_stat EXCEPT ![s].state = st]
    PROVE  /\ file_stat' \in [Slots -> FileStat]
           /\ State(s)' = st /\ \A x \in Slots \ {s} : State(x)' = State(x)
           /\ \A x \in Slots : /\ file_stat'[x].file_no = file_stat[x].file_no
                                /\ file_stat'[x].fd = file_stat[x].fd
<1>1. [file_stat[s] EXCEPT !.state = st] \in FileStat
  BY DEF FileStat
<1>2. /\ file_stat' = [file_stat EXCEPT ![s] = [file_stat[s] EXCEPT !.state = st]]
      /\ [file_stat[s] EXCEPT !.state = st].state = st
      /\ [file_stat[s] EXCEPT !.state = st].fd = file_stat[s].fd
      /\ [file_stat[s] EXCEPT !.state = st].file_no = file_stat[s].file_no
  BY DEF FileStat
<1> QED
  BY <1>1, <1>2 DEF State

\* file_next: attaching to a claimed file.
LEMMA AttachStep ==
    ASSUME IInv, NEW w \in Workers, Attach(w)
    PROVE  TypeOK' /\ SlotInv'
<1>1. /\ worker[w] \in WorkerState /\ worker \in [Workers -> WorkerState]
      /\ file_stat \in [Slots -> FileStat]
      /\ LocalsOK(worker[w]) /\ BitsInv /\ RecordInv
  BY DEF IInv, TypeOK, SlotInv, LocalInv
<1>2. worker[w].pc = "attach" /\ worker[w].j \in Slots /\ worker[w].i \in Workers
  BY <1>1 DEF Attach, LocalsOK
<1>j. PICK j \in Slots : j = worker[w].j
  BY <1>2
<1>3. CASE State(j) = worker[w].lcl.state
  <2> DEFINE st == State(j) \cup {w}
             r == [worker[w] EXCEPT !.fs = j, !.pc = "fetch"]
  <2>1. State(j) \in StateWords /\ FS_IO \in State(j)
    BY <1>1, <1>2, <1>3, <1>j DEF LocalsOK, State, FileStat
  <2>2. /\ State(j) \in SUBSET (Workers \cup {FS_IO, FS_COMPLETE})
        /\ State(j) # Free /\ State(j) # BedFace /\ State(j) # {FS_COMPLETE}
    BY <2>1, BitWords
  <2>3. st \in StateWords /\ w \in st
    BY <2>2 DEF StateWords
  <2>4. /\ worker' = [worker EXCEPT ![w].fs = j, ![w].pc = "fetch"]
        /\ file_stat' = [file_stat EXCEPT ![j].state = st]
        /\ stale' = (stale \/ file_stat[j].file_no # worker[w].lcl.file_no)
        /\ UNCHANGED <<file_count, file_head, file_tail, file_activefile, opener,
                       transfer_complete, GLOBAL_FINO, descr, sent, completions>>
    BY <1>3, <1>j DEF Attach, State
  <2>5. worker' = [worker EXCEPT ![w] = r]
    BY <1>1, <2>4
  <2>6. r \in WorkerState /\ r.pc = "fetch" /\ r.fs = j /\ r.lcl = worker[w].lcl
    BY <1>1, <1>2 DEF WorkerState, WorkerPCs
  <2> HIDE DEF r, st
  <2>7. LocalsOK(r) /\ r.pc \in Attached /\ r.pc \notin Leaving
    BY <1>1, <1>2, <2>6 DEF LocalsOK, Attached, Leaving
  <2>8. /\ file_stat' \in [Slots -> FileStat]
        /\ State(j)' = st /\ \A x \in Slots \ {j} : State(x)' = State(x)
        /\ \A x \in Slots : /\ file_stat'[x].file_no = file_stat[x].file_no
                             /\ file_stat'[x].fd = file_stat[x].fd
    BY <1>1, <1>2, <2>3, <2>4, NewWord
  <2>9. TypeOK'
    <3>1. stale' \in BOOLEAN
      BY <2>4
    <3>2. worker' \in [Workers -> WorkerState]
      BY <1>1, <2>5, <2>6
    <3> QED
      BY <2>4, <2>8, <3>1, <3>2 DEF IInv, TypeOK
  <2>10. SlotInv'
    <3>1. worker[w].pc \notin Attached \cup Leaving
      BY <1>2 DEF Attached, Leaving
    <3>2. \A v \in Workers \ {w} : v \in st <=> v \in State(j)
      BY DEF st
    <3> QED
      BY <1>2, <2>2, <2>3, <2>4, <2>5, <2>6, <2>7, <2>8, <3>1, <3>2, WordStep
  <2> QED
    BY <2>9, <2>10
<1>4. CASE State(j) # worker[w].lcl.state
  <2>1. /\ worker' = [worker EXCEPT ![w].i = @ + 1, ![w].pc = "scan"]
        /\ UNCHANGED <<table, transfer_complete, GLOBAL_FINO, descr, opener, hist>>
    BY <1>4, <1>j DEF Attach, State, table, hist
  <2> QED
    BY <1>2, <2>1, ScanOn
<1> QED
  BY <1>3, <1>4

\* file_next: claiming a published file.
LEMMA ClaimStep ==
    ASSUME IInv, NEW w \in Workers, Claim(w)
    PROVE  TypeOK' /\ SlotInv'
<1>1. /\ worker[w] \in WorkerState /\ worker \in [Workers -> WorkerState]
      /\ file_stat \in [Slots -> FileStat]
      /\ LocalsOK(worker[w]) /\ BitsInv /\ RecordInv
  BY DEF IInv, TypeOK, SlotInv, LocalInv
<1>2. worker[w].pc = "claim" /\ worker[w].j \in Slots /\ State(worker[w].j) = FS_INIT
  BY <1>1 DEF Claim, LocalsOK, State
<1>j. PICK j \in Slots : j = worker[w].j
  BY <1>2
<1> DEFINE st == {FS_COMPLETE, FS_IO, w}
           r == [worker[w] EXCEPT !.fs = j, !.pc = "publish"]
<1>3. st \in StateWords /\ w \in st
  BY DEF StateWords
<1>4. /\ worker' = [worker EXCEPT ![w].fs = j, ![w].pc = "publish"]
      /\ file_stat' = [file_stat EXCEPT ![j].state = st]
      /\ UNCHANGED <<file_count, file_head, file_tail, file_activefile, opener,
                     transfer_complete, GLOBAL_FINO, descr, hist>>
  BY <1>j DEF Claim
<1>5. worker' = [worker EXCEPT ![w] = r]
  BY <1>1, <1>4
<1>6. r \in WorkerState /\ r.pc = "publish" /\ r.fs = j /\ r.lcl = worker[w].lcl
  BY <1>1, <1>2 DEF WorkerState, WorkerPCs
<1>7. \A v \in Workers \ {w} : v \in st <=> v \in State(j)
  BY <1>2, <1>j, WorkerBits, Markers
<1> HIDE DEF r, st
<1>8. LocalsOK(r) /\ r.pc \in Attached /\ r.pc \notin Leaving
  BY <1>1, <1>2, <1>6 DEF LocalsOK, Attached, Leaving
<1>9. /\ file_stat' \in [Slots -> FileStat]
      /\ State(j)' = st /\ \A x \in Slots \ {j} : State(x)' = State(x)
      /\ \A x \in Slots : /\ file_stat'[x].file_no = file_stat[x].file_no
                           /\ file_stat'[x].fd = file_stat[x].fd
  BY <1>1, <1>2, <1>3, <1>4, NewWord
<1>10. TypeOK'
  <2>1. worker' \in [Workers -> WorkerState]
    BY <1>1, <1>5, <1>6
  <2> QED
    BY <1>4, <1>9, <2>1 DEF IInv, TypeOK, hist
<1>11. worker[w].pc \notin Attached \cup Leaving
  BY <1>2 DEF Attached, Leaving
<1>12. State(j) # Free /\ State(j) # BedFace /\ State(j) # {FS_COMPLETE}
  BY <1>2, <1>j, Markers
<1>13. SlotInv'
  BY <1>3, <1>4, <1>5, <1>6, <1>7, <1>8, <1>9, <1>11, <1>12, WordStep
<1> QED
  BY <1>10, <1>13

-----------------------------------------------------------------------------
\* submit_work at end of file: the worker gives its bit back.
LEMMA RemoveStep ==
    ASSUME IInv, NEW w \in Workers, RemoveIow(w)
    PROVE  TypeOK' /\ SlotInv'
<1>1. /\ worker[w] \in WorkerState /\ worker \in [Workers -> WorkerState]
      /\ file_stat \in [Slots -> FileStat] /\ file_tail \in Nat
      /\ LocalsOK(worker[w]) /\ BitsInv /\ RecordInv
  BY DEF IInv, TypeOK, SlotInv, LocalInv
<1>2. /\ worker[w].pc = "remove" /\ worker[w].pc \in Attached
      /\ worker[w].pc \notin Leaving
      /\ worker[w].fs \in Slots /\ w \in State(worker[w].fs)
  BY <1>1 DEF RemoveIow, BitsInv, Attached, Leaving
<1>s. PICK s \in Slots : s = worker[w].fs
  BY <1>2
<1> DEFINE st == State(s) \ {w, FS_IO}
           rest == <<file_count, file_head, file_activefile, opener,
                     transfer_complete, GLOBAL_FINO, descr, hist>>
<1>3. State(s) \in StateWords /\ w \in State(s)
  BY <1>1, <1>2, <1>s DEF State, FileStat
<1>4. /\ State(s) \in SUBSET (Workers \cup {FS_IO, FS_COMPLETE})
      /\ State(s) # Free /\ State(s) # BedFace /\ State(s) # {FS_COMPLETE}
  BY <1>3, BitWords
<1>5. st \in StateWords /\ w \notin st
  BY <1>4 DEF StateWords
<1>6. \A v \in Workers \ {w} : v \in st <=> v \in State(s)
  BY WorkerBits
<1>7. /\ file_stat' = [file_stat EXCEPT ![s].state = st]
      /\ UNCHANGED rest
      /\ \/ /\ st = {FS_COMPLETE} /\ file_tail' = file_tail + 1
            /\ worker' = [worker EXCEPT ![w].pc = "close"]
         \/ /\ worker' = [worker EXCEPT ![w] = WorkerStart]
            /\ file_tail' = file_tail
  BY <1>s DEF RemoveIow, State, Goto
<1> HIDE DEF st
<1>8. /\ file_stat' \in [Slots -> FileStat]
      /\ State(s)' = st /\ \A x \in Slots \ {s} : State(x)' = State(x)
      /\ \A x \in Slots : /\ file_stat'[x].file_no = file_stat[x].file_no
                           /\ file_stat'[x].fd = file_stat[x].fd
  BY <1>1, <1>5, <1>7, NewWord
<1>9. ASSUME NEW r \in WorkerState, worker' = [worker EXCEPT ![w] = r],
             LocalsOK(r), r.pc \notin Attached,
             r.pc \in Leaving => r.fs = s /\ st = {FS_COMPLETE}
      PROVE  TypeOK' /\ SlotInv'
  <2>1. TypeOK'
    <3>1. worker' \in [Workers -> WorkerState] /\ file_tail' \in Nat
      BY <1>1, <1>7, <1>9
    <3> QED
      BY <1>7, <1>8, <3>1 DEF IInv, TypeOK, hist
  <2>2. SlotInv'
    <3>1. opener' = opener
      BY <1>7
    <3> QED
      BY <1>2, <1>s, <1>4, <1>5, <1>6, <1>8, <1>9, <3>1, WordStep
  <2> QED
    BY <2>1, <2>2
<1>10. CASE st = {FS_COMPLETE} /\ worker' = [worker EXCEPT ![w].pc = "close"]
  <2> DEFINE r == [worker[w] EXCEPT !.pc = "close"]
  <2>1. worker' = [worker EXCEPT ![w] = r]
    BY <1>1, <1>10
  <2>2. r \in WorkerState /\ r.pc = "close" /\ r.fs = s /\ r.lcl = worker[w].lcl
    BY <1>1, <1>s DEF WorkerState, WorkerPCs
  <2> HIDE DEF r
  <2>3. LocalsOK(r) /\ r.pc \notin Attached
    BY <1>1, <1>2, <2>2 DEF LocalsOK, Attached, Leaving
  <2> QED
    BY <1>9, <1>10, <2>1, <2>2, <2>3
<1>11. CASE worker' = [worker EXCEPT ![w] = WorkerStart]
  <2>1. WorkerStart.pc \notin Attached \cup Leaving
    BY DEF WorkerStart, Attached, Leaving
  <2> QED
    BY <1>9, <1>11, <2>1, StartOK
<1> QED
  BY <1>7, <1>10, <1>11

\* Steps on the records of the table that leave every state word, number and
\* descriptor alone.
LEMMA NewCounters ==
    ASSUME file_stat \in [Slots -> FileStat], NEW s \in Slots, NEW f \in FileStat,
           f.state = file_stat[s].state, f.file_no = file_stat[s].file_no,
           f.fd = file_stat[s].fd, file_stat' = [file_stat EXCEPT ![s] = f]
    PROVE  /\ file_stat' \in [Slots -> FileStat]
           /\ \A x \in Slots : /\ file_stat'[x].state = file_stat[x].state
                                /\ file_stat'[x].file_no = file_stat[x].file_no
                                /\ file_stat'[x].fd = file_stat[x].fd
OBVIOUS

\* tx_worker and submit_work: one block.
LEMMA BlockStep ==
    ASSUME IInv, NEW w \in Workers,
           \/ Publish(w) \/ FetchBlock(w) \/ ReadBlock(w) \/ SendBlock(w)
           \/ CountBlock(w)
    PROVE  TypeOK' /\ SlotInv'
<1>1. /\ worker[w] \in WorkerState /\ worker \in [Workers -> WorkerState]
      /\ file_stat \in [Slots -> FileStat]
      /\ LocalsOK(worker[w]) /\ BitsInv /\ RecordInv
  BY DEF IInv, TypeOK, SlotInv, LocalInv
<1>2. /\ worker[w].pc \in {"publish", "fetch", "read", "send", "tally"}
      /\ worker[w].pc \in Attached /\ worker[w].pc \notin Leaving
      /\ worker[w].fs \in Slots
      /\ worker[w].lcl.file_no \in FileNos /\ worker[w].lcl.fd \in FDs
  BY <1>1 DEF Publish, FetchBlock, ReadBlock, SendBlock, CountBlock, Attached,
              Leaving, BitsInv, LocalsOK
<1>s. PICK s \in Slots : s = worker[w].fs
  BY <1>2
<1>f. file_stat[s] \in FileStat
  BY <1>1
<1>3. CASE Publish(w)
  <2> DEFINE r == [worker[w] EXCEPT !.pc = "fetch"]
  <2>1. worker' = [worker EXCEPT ![w] = r]
    BY <1>1, <1>3 DEF Publish, Goto
  <2>2. r \in WorkerState /\ r.pc = "fetch" /\ r.fs = s /\ r.lcl = worker[w].lcl
    BY <1>1, <1>s DEF WorkerState, WorkerPCs
  <2> HIDE DEF r
  <2>3. LocalsOK(r) /\ r.pc \in Attached /\ r.pc \notin Leaving
    BY <1>2, <2>2 DEF LocalsOK, Attached, Leaving
  <2>4. TypeOK'
    <3>1. /\ worker' \in [Workers -> WorkerState]
          /\ file_activefile' \in [Workers -> Slots \cup {0}]
      BY <1>1, <1>2, <1>3, <2>1, <2>2 DEF Publish, IInv, TypeOK
    <3> QED
      BY <1>3, <3>1 DEF Publish, IInv, TypeOK, hist
  <2>5. SlotInv'
    <3>1. file_stat' = file_stat /\ opener' = opener
      BY <1>3 DEF Publish
    <3> QED
      BY <1>2, <1>s, <2>1, <2>2, <2>3, <3>1, QuietStep
  <2> QED
    BY <2>4, <2>5
<1>4. CASE FetchBlock(w)
  <2> DEFINE off == file_stat[s].block_offset
             r == [worker[w] EXCEPT !.off = off, !.pc = "read"]
             n == off + 1
             f == [file_stat[s] EXCEPT !.block_offset = n]
  <2>1. off \in Nat /\ n \in Nat
    BY <1>f DEF FileStat
  <2>2. /\ worker' = [worker EXCEPT ![w].off = off, ![w].pc = "read"]
        /\ file_stat' = [file_stat EXCEPT ![s].block_offset = n]
        /\ UNCHANGED <<file_count, file_head, file_tail, file_activefile, opener,
                       transfer_complete, GLOBAL_FINO, descr, hist>>
    BY <1>4, <1>s DEF FetchBlock
  <2> HIDE DEF off, n
  <2>3. worker' = [worker EXCEPT ![w] = r] /\ file_stat' = [file_stat EXCEPT ![s] = f]
    BY <1>1, <2>2
  <2>4. r \in WorkerState /\ r.pc = "read" /\ r.fs = s /\ r.lcl = worker[w].lcl
    BY <1>1, <1>s, <2>1 DEF WorkerState, WorkerPCs
  <2>5. /\ f \in FileStat /\ f.state = file_stat[s].state
        /\ f.file_no = file_stat[s].file_no /\ f.fd = file_stat[s].fd
    BY <1>f, <2>1 DEF FileStat
  <2> HIDE DEF r, f
  <2>6. LocalsOK(r) /\ r.pc \in Attached /\ r.pc \notin Leaving
    BY <1>2, <2>4 DEF LocalsOK, Attached, Leaving
  <2>7. /\ file_stat' \in [Slots -> FileStat]
        /\ \A x \in Slots : /\ file_stat'[x].state = file_stat[x].state
                             /\ file_stat'[x].file_no = file_stat[x].file_no
                             /\ file_stat'[x].fd = file_stat[x].fd
    BY <1>1, <2>3, <2>5, NewCounters
  <2>8. TypeOK'
    <3>1. worker' \in [Workers -> WorkerState]
      BY <1>1, <2>3, <2>4
    <3>2. UNCHANGED <<file_count, file_head, file_tail, file_activefile, opener,
                      transfer_complete, GLOBAL_FINO, descr, hist>>
      BY <2>2
    <3> QED
      BY <2>7, <3>1, <3>2 DEF IInv, TypeOK, hist
  <2>9. SlotInv'
    BY <1>2, <1>s, <2>2, <2>3, <2>4, <2>6, <2>7, QuietStep
  <2> QED
    BY <2>8, <2>9
<1>5. CASE ReadBlock(w)
  <2> DEFINE f == descr[worker[w].lcl.fd]
             pc == IF f = NoFile THEN "aborted"
                   ELSE IF worker[w].off < Blocks[f] THEN "send" ELSE "remove"
             r == [worker[w] EXCEPT !.from = f, !.pc = pc]
  <2>1. /\ f \in FileNos \cup {NoFile} /\ pc \in {"aborted", "send", "remove"}
        /\ pc = "send" => f \in FileNos
    BY <1>2 DEF IInv, TypeOK
  <2>2. /\ worker' = [worker EXCEPT ![w].from = f, ![w].pc = pc]
        /\ UNCHANGED <<table, transfer_complete, GLOBAL_FINO, descr, opener, hist>>
    BY <1>5 DEF ReadBlock
  <2> HIDE DEF f, pc
  <2>3. worker' = [worker EXCEPT ![w] = r]
    BY <1>1, <2>2
  <2>4. /\ r \in WorkerState /\ r.pc = pc /\ r.from = f /\ r.fs = s
        /\ r.lcl = worker[w].lcl
    <3>1. pc \in WorkerPCs
      BY <2>1 DEF WorkerPCs
    <3> QED
      BY <1>1, <1>s, <2>1, <3>1 DEF WorkerState
  <2> HIDE DEF r
  <2>5. LocalsOK(r) /\ r.pc \in Attached /\ r.pc \notin Leaving
    BY <1>2, <2>1, <2>4 DEF LocalsOK, Attached, Leaving
  <2>6. TypeOK'
    BY <2>2, <2>3, <2>4 DEF IInv, TypeOK, table, hist
  <2>7. SlotInv'
    <3>1. file_stat' = file_stat /\ opener' = opener
      BY <2>2 DEF table
    <3> QED
      BY <1>2, <1>s, <2>3, <2>4, <2>5, <3>1, QuietStep
  <2> QED
    BY <2>6, <2>7
<1>6. CASE SendBlock(w)
  <2> DEFINE b == <<worker[w].from, worker[w].off>>
             c == Xor(file_stat[s].crc, b)
             r == [worker[w] EXCEPT !.pc = "tally"]
             f == [file_stat[s] EXCEPT !.crc = c]
             m == [file_no |-> worker[w].lcl.file_no, block |-> b]
  <2>1. worker[w].from \in FileNos /\ worker[w].off \in Nat
    BY <1>1, <1>6 DEF SendBlock, LocalsOK, WorkerState
  <2>2. b \in BlockIds
    BY <2>1 DEF BlockIds
  <2>3. /\ worker' = [worker EXCEPT ![w].pc = "tally"]
        /\ file_stat' = [file_stat EXCEPT ![s].crc = c]
        /\ sent' = sent \cup {m}
        /\ UNCHANGED <<file_count, file_head, file_tail, file_activefile, opener,
                       transfer_complete, GLOBAL_FINO, descr, completions, stale>>
    BY <1>6, <1>s DEF SendBlock, Goto
  <2> HIDE DEF b
  <2>4. c \in SUBSET BlockIds
    BY <1>f, <2>2 DEF Xor, FileStat
  <2>5. sent' \subseteq [file_no : FileNos \cup {NoFile}, block : BlockIds]
    BY <1>2, <2>2, <2>3 DEF IInv, TypeOK
  <2> HIDE DEF c
  <2>6. worker' = [worker EXCEPT ![w] = r] /\ file_stat' = [file_stat EXCEPT ![s] = f]
    BY <1>1, <2>3
  <2>7. r \in WorkerState /\ r.pc = "tally" /\ r.fs = s /\ r.lcl = worker[w].lcl
    BY <1>1, <1>s DEF WorkerState, WorkerPCs
  <2>8. /\ f \in FileStat /\ f.state = file_stat[s].state
        /\ f.file_no = file_stat[s].file_no /\ f.fd = file_stat[s].fd
    BY <1>f, <2>4 DEF FileStat
  <2> HIDE DEF r, f
  <2>9. LocalsOK(r) /\ r.pc \in Attached /\ r.pc \notin Leaving
    BY <1>2, <2>7 DEF LocalsOK, Attached, Leaving
  <2>10. /\ file_stat' \in [Slots -> FileStat]
         /\ \A x \in Slots : /\ file_stat'[x].state = file_stat[x].state
                              /\ file_stat'[x].file_no = file_stat[x].file_no
                              /\ file_stat'[x].fd = file_stat[x].fd
    BY <1>1, <2>6, <2>8, NewCounters
  <2>11. TypeOK'
    <3>1. worker' \in [Workers -> WorkerState]
      BY <1>1, <2>6, <2>7
    <3>2. UNCHANGED <<file_count, file_head, file_tail, file_activefile, opener,
                      transfer_complete, GLOBAL_FINO, descr, completions, stale>>
      BY <2>3
    <3> QED
      BY <2>5, <2>10, <3>1, <3>2 DEF IInv, TypeOK
  <2>12. SlotInv'
    BY <1>2, <1>s, <2>3, <2>6, <2>7, <2>9, <2>10, QuietStep
  <2> QED
    BY <2>11, <2>12
<1>7. CASE CountBlock(w)
  <2> DEFINE n == file_stat[s].block_total + 1
             r == [worker[w] EXCEPT !.pc = "fetch"]
             f == [file_stat[s] EXCEPT !.block_total = n]
  <2>1. n \in Nat
    BY <1>f DEF FileStat
  <2>2. /\ worker' = [worker EXCEPT ![w].pc = "fetch"]
        /\ file_stat' = [file_stat EXCEPT ![s].block_total = n]
        /\ UNCHANGED <<file_count, file_head, file_tail, file_activefile, opener,
                       transfer_complete, GLOBAL_FINO, descr, hist>>
    BY <1>7, <1>s DEF CountBlock, Goto
  <2> HIDE DEF n
  <2>3. worker' = [worker EXCEPT ![w] = r] /\ file_stat' = [file_stat EXCEPT ![s] = f]
    BY <1>1, <2>2
  <2>4. r \in WorkerState /\ r.pc = "fetch" /\ r.fs = s /\ r.lcl = worker[w].lcl
    BY <1>1, <1>s DEF WorkerState, WorkerPCs
  <2>5. /\ f \in FileStat /\ f.state = file_stat[s].state
        /\ f.file_no = file_stat[s].file_no /\ f.fd = file_stat[s].fd
    BY <1>f, <2>1 DEF FileStat
  <2> HIDE DEF r, f
  <2>6. LocalsOK(r) /\ r.pc \in Attached /\ r.pc \notin Leaving
    BY <1>2, <2>4 DEF LocalsOK, Attached, Leaving
  <2>7. /\ file_stat' \in [Slots -> FileStat]
        /\ \A x \in Slots : /\ file_stat'[x].state = file_stat[x].state
                             /\ file_stat'[x].file_no = file_stat[x].file_no
                             /\ file_stat'[x].fd = file_stat[x].fd
    BY <1>1, <2>3, <2>5, NewCounters
  <2>8. TypeOK'
    <3>1. worker' \in [Workers -> WorkerState]
      BY <1>1, <2>3, <2>4
    <3>2. UNCHANGED <<file_count, file_head, file_tail, file_activefile, opener,
                      transfer_complete, GLOBAL_FINO, descr, hist>>
      BY <2>2
    <3> QED
      BY <2>7, <3>1, <3>2 DEF IInv, TypeOK, hist
  <2>9. SlotInv'
    BY <1>2, <1>s, <2>2, <2>3, <2>4, <2>6, <2>7, QuietStep
  <2> QED
    BY <2>8, <2>9
<1> QED
  BY <1>3, <1>4, <1>5, <1>6, <1>7

-----------------------------------------------------------------------------
\* submit_work: the last worker out closes, reports and wipes.
LEMMA LeaveStep ==
    ASSUME IInv, NEW w \in Workers, CloseFd(w) \/ PushCompletion(w)
    PROVE  TypeOK' /\ SlotInv'
<1>1. /\ worker[w] \in WorkerState /\ worker \in [Workers -> WorkerState]
      /\ file_stat \in [Slots -> FileStat]
      /\ completions \in [FileNos -> Seq(Completion)]
      /\ descr \in [FDs -> FileNos \cup {NoFile}]
      /\ LocalsOK(worker[w]) /\ LeavingInv /\ RecordInv
  BY DEF IInv, TypeOK, SlotInv, LocalInv
<1>2. /\ worker[w].pc \in {"close", "push"}
      /\ worker[w].pc \in Leaving /\ worker[w].pc \notin Attached
      /\ UNCHANGED <<table, transfer_complete, GLOBAL_FINO, opener, sent, stale>>
  BY DEF CloseFd, PushCompletion, Leaving, Attached, hist
<1>3. /\ worker[w].fs \in Slots /\ State(worker[w].fs) = {FS_COMPLETE}
      /\ worker[w].lcl.file_no \in FileNos /\ worker[w].lcl.fd \in FDs
  BY <1>1, <1>2 DEF LeavingInv, LocalsOK
<1>s. PICK s \in Slots : s = worker[w].fs
  BY <1>3
<1>4. ASSUME NEW pc \in {"push", "wipe"}, worker' = [worker EXCEPT ![w].pc = pc],
             descr' \in [FDs -> FileNos \cup {NoFile}],
             completions' \in [FileNos -> Seq(Completion)]
      PROVE  TypeOK' /\ SlotInv'
  <2> DEFINE r == [worker[w] EXCEPT !.pc = pc]
  <2>1. worker' = [worker EXCEPT ![w] = r]
    BY <1>1, <1>4
  <2>2. r \in WorkerState /\ r.pc = pc /\ r.fs = worker[w].fs /\ r.lcl = worker[w].lcl
    <3>1. pc \in WorkerPCs
      BY <1>4 DEF WorkerPCs
    <3> QED
      BY <1>1, <3>1 DEF WorkerState
  <2> HIDE DEF r
  <2>3. LocalsOK(r) /\ r.pc \notin Attached /\ r.pc \in Leaving
    BY <1>3, <1>4, <2>2 DEF LocalsOK, Attached, Leaving
  <2>4. worker' \in [Workers -> WorkerState]
    BY <1>1, <2>1, <2>2
  <2>5. TypeOK'
    BY <1>2, <1>4, <2>4 DEF IInv, TypeOK, table
  <2>6. SlotInv'
    <3>1. file_stat' = file_stat /\ opener' = opener
      BY <1>2 DEF table
    <3> QED
      BY <1>2, <2>1, <2>2, <2>3, <3>1, QuietStep
  <2> QED
    BY <2>5, <2>6
<1>5. CASE CloseFd(w)
  <2>1. /\ worker' = [worker EXCEPT ![w].pc = "push"]
        /\ descr' \in [FDs -> FileNos \cup {NoFile}]
        /\ completions' = completions
    BY <1>1, <1>3, <1>5 DEF CloseFd, Goto, hist
  <2> QED
    BY <1>1, <1>4, <2>1
<1>6. CASE PushCompletion(w)
  <2>1. file_stat[s].file_no \in FileNos /\ file_stat[s] \in FileStat
    BY <1>1, <1>3, <1>s, Markers DEF RecordInv
  <2> DEFINE n == file_stat[s].file_no
             c == [blocks |-> file_stat[s].block_total, crc |-> file_stat[s].crc]
  <2>2. c \in Completion
    BY <2>1 DEF Completion, FileStat
  <2>3. /\ worker' = [worker EXCEPT ![w].pc = "wipe"]
        /\ completions' = [completions EXCEPT ![n] = Append(@, c)]
        /\ descr' = descr
    BY <1>6, <1>s DEF PushCompletion, Goto
  <2> HIDE DEF n, c
  <2>4. Append(completions[n], c) \in Seq(Completion)
    BY <1>1, <2>1, <2>2, AppendProperties DEF n
  <2>5. completions' \in [FileNos -> Seq(Completion)]
    BY <1>1, <2>3, <2>4
  <2> QED
    BY <1>1, <1>4, <2>3, <2>5
<1> QED
  BY <1>5, <1>6

\* The wipe frees a slot that nobody else refers to.
LEMMA WipeStep ==
    ASSUME IInv, NEW w \in Workers, Wipe(w)
    PROVE  TypeOK' /\ SlotInv'
<1>1. /\ worker[w] \in WorkerState /\ worker \in [Workers -> WorkerState]
      /\ file_stat \in [Slots -> FileStat]
      /\ BitsInv /\ LeavingInv /\ ReservedInv /\ RecordInv /\ LocalInv
  BY DEF IInv, TypeOK, SlotInv
<1>2. /\ worker[w].pc = "wipe" /\ worker[w].pc \in Leaving
      /\ worker[w].pc \notin Attached
      /\ worker[w].fs \in Slots /\ State(worker[w].fs) = {FS_COMPLETE}
  BY <1>1 DEF Wipe, Leaving, Attached, LeavingInv
<1>s. PICK s \in Slots : s = worker[w].fs
  BY <1>2
<1>3. /\ worker' = [worker EXCEPT ![w] = WorkerStart]
      /\ file_stat' = [file_stat EXCEPT ![s] = Wiped]
      /\ UNCHANGED <<file_count, file_head, file_tail, file_activefile, opener,
                     transfer_complete, GLOBAL_FINO, descr, hist>>
  BY <1>s DEF Wipe
<1>4. /\ worker'[w] = WorkerStart /\ \A u \in Workers \ {w} : worker'[u] = worker[u]
      /\ worker' \in [Workers -> WorkerState]
  BY <1>1, <1>3, StartOK
<1>5. /\ file_stat' \in [Slots -> FileStat]
      /\ State(s)' = Free /\ \A x \in Slots \ {s} : State(x)' = State(x)
      /\ \A x \in Slots \ {s} : file_stat'[x] = file_stat[x]
  BY <1>1, <1>3, StartOK DEF State, Wiped
<1>6. TypeOK'
  <2>1. UNCHANGED <<file_count, file_head, file_tail, file_activefile, opener,
                    transfer_complete, GLOBAL_FINO, descr, hist>>
    BY <1>3
  <2> QED
    BY <1>4, <1>5, <2>1 DEF IInv, TypeOK, hist
<1>7. WorkerStart.pc \notin Attached \cup Leaving
  BY DEF WorkerStart, Attached, Leaving
<1>8. \A u \in Workers : u \notin State(s) /\ u \notin Free
  BY <1>2, <1>s, Markers
<1>9. BitsInv'
  <2>1. ASSUME NEW u \in Workers, worker'[u].pc \in Attached
        PROVE  worker'[u].fs \in Slots /\ u \in State(worker[u].fs)'
    <3>1. u # w
      BY <1>4, <1>7, <2>1
    <3>2. worker[u].fs \in Slots /\ u \in State(worker[u].fs)
      BY <1>1, <1>4, <2>1, <3>1 DEF BitsInv
    <3> QED
      BY <1>4, <1>5, <1>8, <3>1, <3>2
  <2>2. ASSUME NEW u \in Workers, NEW x \in Slots, u \in State(x)'
        PROVE  worker'[u].pc \in Attached /\ worker'[u].fs = x
    <3>1. x # s /\ u \in State(x)
      BY <1>5, <1>8, <2>2
    <3>2. u # w
      BY <1>1, <1>2, <3>1 DEF BitsInv
    <3> QED
      BY <1>1, <1>4, <3>1, <3>2 DEF BitsInv
  <2> QED
    BY <2>1, <2>2 DEF BitsInv
<1>10. LeavingInv'
  <2>1. \A u \in Workers : worker'[u].pc \in Leaving =>
           /\ u # w /\ worker'[u] = worker[u] /\ worker[u].pc \in Leaving
           /\ worker[u].fs # s
    BY <1>1, <1>2, <1>s, <1>4, <1>7 DEF LeavingInv
  <2> QED
    BY <1>1, <1>5, <2>1 DEF LeavingInv
<1>11. ReservedInv'
  <2>1. State(s) # BedFace
    BY <1>2, <1>s, Markers
  <2>2. opener' = opener
    BY <1>3
  <2> QED
    BY <1>1, <1>5, <2>1, <2>2 DEF ReservedInv
<1>12. RecordInv'
  <2>1. opener' = opener
    BY <1>3
  <2> QED
    BY <1>1, <1>5, <2>1 DEF RecordInv
<1>13. LocalInv'
  BY <1>1, <1>4, StartOK DEF LocalInv
<1> QED
  BY <1>6, <1>9, <1>10, <1>11, <1>12, <1>13 DEF SlotInv

-----------------------------------------------------------------------------
\* A step of an opener whose slot, if it keeps one, is not concerned, and that
\* leaves the table alone.
LEMMA OpenerQuiet ==
    ASSUME IInv, NEW o \in Openers, NEW q \in OpenerState,
           opener' = [opener EXCEPT ![o] = q],
           UNCHANGED <<file_stat, worker>>, q.pc # "fill",
           q.pc # "idle" => q.fino \in FileNos /\ q.fd \in FDs
    PROVE  SlotInv' /\ opener' \in [Openers -> OpenerState]
<1>1. /\ opener \in [Openers -> OpenerState]
      /\ BitsInv /\ LeavingInv /\ ReservedInv /\ RecordInv /\ LocalInv
  BY DEF IInv, TypeOK, SlotInv
<1>2. /\ opener'[o] = q /\ \A p \in Openers \ {o} : opener'[p] = opener[p]
      /\ opener' \in [Openers -> OpenerState]
  BY <1>1
<1>3. BitsInv' /\ LeavingInv' /\ LocalInv'
  BY <1>1 DEF BitsInv, LeavingInv, LocalInv, State
<1>4. ReservedInv'
  BY <1>1, <1>2 DEF ReservedInv, State
<1>5. RecordInv'
  BY <1>1, <1>2 DEF RecordInv, State
<1> QED
  BY <1>2, <1>3, <1>4, <1>5 DEF SlotInv

\* A step of an opener on slot s, free before or reserved by this opener, which
\* then has no worker's bit.
LEMMA OpenerSlot ==
    ASSUME IInv, NEW o \in Openers, NEW q \in OpenerState, NEW s \in Slots,
           NEW f \in FileStat,
           opener' = [opener EXCEPT ![o] = q], worker' = worker,
           file_stat' = [file_stat EXCEPT ![s] = f],
           \/ State(s) = Free
           \/ State(s) = BedFace /\ opener[o].pc = "fill" /\ opener[o].slot = s,
           \/ f.state = BedFace /\ q.pc = "fill" /\ q.slot = s
           \/ f.state = FS_INIT /\ q.pc = "added" /\ f.file_no \in FileNos /\ f.fd \in FDs,
           q.fino \in FileNos /\ q.fd \in FDs
    PROVE  SlotInv' /\ opener' \in [Openers -> OpenerState]
           /\ file_stat' \in [Slots -> FileStat]
<1>1. /\ opener \in [Openers -> OpenerState]
      /\ file_stat \in [Slots -> FileStat]
      /\ BitsInv /\ LeavingInv /\ ReservedInv /\ RecordInv /\ LocalInv
  BY DEF IInv, TypeOK, SlotInv
<1>2. /\ opener'[o] = q /\ \A p \in Openers \ {o} : opener'[p] = opener[p]
      /\ opener' \in [Openers -> OpenerState]
  BY <1>1
<1>3. /\ file_stat' \in [Slots -> FileStat]
      /\ file_stat'[s] = f /\ \A x \in Slots \ {s} : file_stat'[x] = file_stat[x]
      /\ State(s)' = f.state /\ \A x \in Slots \ {s} : State(x)' = State(x)
  BY <1>1 DEF State
<1>4. /\ State(s) # {FS_COMPLETE} /\ f.state # Free
      /\ \A w \in Workers : w \notin State(s) /\ w \notin f.state
  BY Markers
<1>5. BitsInv'
  BY <1>1, <1>3, <1>4 DEF BitsInv
<1>6. LeavingInv'
  BY <1>1, <1>3, <1>4 DEF LeavingInv
<1>7. ReservedInv'
  <2>1. \A p \in Openers \ {o} : opener[p].pc = "fill" => opener[p].slot # s
    BY <1>1, Markers DEF ReservedInv
  <2>2. ASSUME NEW p \in Openers, opener'[p].pc = "fill"
        PROVE  opener'[p].slot \in Slots /\ State(opener[p].slot)' = BedFace
    <3>1. CASE p = o
      BY <1>2, <1>3, <2>2, <3>1
    <3>2. CASE p # o
      BY <1>1, <1>2, <1>3, <2>1, <2>2, <3>2 DEF ReservedInv
    <3> QED
      BY <3>1, <3>2
  <2>3. ASSUME NEW p \in Openers, NEW u \in Openers, p # u,
               opener'[p].pc = "fill", opener'[u].pc = "fill"
        PROVE  opener'[p].slot # opener'[u].slot
    BY <1>1, <1>2, <2>1, <2>3 DEF ReservedInv
  <2> QED
    BY <2>2, <2>3 DEF ReservedInv
<1>8. RecordInv'
  <2>1. ASSUME NEW x \in Slots, State(x)' \notin {Free, BedFace}
        PROVE  file_stat'[x].file_no \in FileNos /\ file_stat'[x].fd \in FDs
    <3>1. CASE x = s
      BY <1>3, <2>1, <3>1
    <3>2. CASE x # s
      BY <1>1, <1>3, <2>1, <3>2 DEF RecordInv
    <3> QED
      BY <3>1, <3>2
  <2>2. \A p \in Openers : opener'[p].pc # "idle" =>
           opener'[p].fino \in FileNos /\ opener'[p].fd \in FDs
    BY <1>1, <1>2 DEF RecordInv
  <2> QED
    BY <2>1, <2>2 DEF RecordInv
<1>9. LocalInv'
  BY <1>1 DEF LocalInv
<1> QED
  BY <1>2, <1>3, <1>5, <1>6, <1>7, <1>8, <1>9 DEF SlotInv

\* iterate_file_worker and file_addfile.
LEMMA OpenerStepOK ==
    ASSUME IInv, NEW o \in Openers, OpenerStep(o)
    PROVE  TypeOK' /\ SlotInv'
<1>1. /\ opener[o] \in OpenerState /\ opener \in [Openers -> OpenerState]
      /\ file_stat \in [Slots -> FileStat] /\ file_count \in Nat
      /\ GLOBAL_FINO \in 0 .. NFiles /\ descr \in [FDs -> FileNos \cup {NoFile}]
      /\ ReservedInv /\ RecordInv
  BY DEF IInv, TypeOK, SlotInv
<1>2. "probe" \in OpenerPCs /\ "fill" \in OpenerPCs /\ "added" \in OpenerPCs
  BY DEF OpenerPCs
<1>3. OpenerIdle \in OpenerState /\ OpenerIdle.pc = "idle"
  BY TableAssumption DEF OpenerIdle, OpenerState, OpenerPCs
<1>4. CASE OpenFile(o)
  <2> DEFINE n == GLOBAL_FINO + 1
  <2>1. n \in FileNos /\ n \in 0 .. NFiles
    BY <1>1, <1>4, TableAssumption DEF OpenFile, FileNos
  <2>2. PICK d \in FDs :
           /\ descr' = [descr EXCEPT ![d] = n]
           /\ opener' = [opener EXCEPT ![o] =
                 [OpenerIdle EXCEPT !.pc = "probe", !.fd = d, !.fino = n]]
    BY <1>4 DEF OpenFile
  <2>3. /\ GLOBAL_FINO' = n
        /\ UNCHANGED <<table, transfer_complete, worker, hist>>
    BY <1>4 DEF OpenFile
  <2> HIDE DEF n
  <2> DEFINE q == [OpenerIdle EXCEPT !.pc = "probe", !.fd = d, !.fino = n]
  <2>4. q \in OpenerState /\ q.pc = "probe" /\ q.fino \in FileNos /\ q.fd \in FDs
    BY <1>2, <1>3, <2>1, <2>2 DEF OpenerState
  <2>5. descr' \in [FDs -> FileNos \cup {NoFile}] /\ GLOBAL_FINO' \in 0 .. NFiles
    BY <1>1, <2>1, <2>2, <2>3
  <2>6. opener' = [opener EXCEPT ![o] = q]
    BY <2>2
  <2> HIDE DEF q
  <2>7. SlotInv' /\ opener' \in [Openers -> OpenerState]
    BY <2>3, <2>4, <2>6, OpenerQuiet DEF table
  <2> QED
    BY <2>3, <2>5, <2>7 DEF IInv, TypeOK, table, hist
<1>5. CASE AddProbe(o)
  <2>1. /\ opener[o].pc = "probe" /\ opener[o].fino \in FileNos
        /\ opener[o].fd \in FDs /\ opener[o].k \in 1 .. CC
    BY <1>1, <1>5 DEF AddProbe, RecordInv, OpenerState
  <2>s. PICK s \in Slots : s = Probe[opener[o].fino][opener[o].k]
    BY <2>1, TableAssumption
  <2>2. CASE State(s) = Free
    <3> DEFINE q == [opener[o] EXCEPT !.pc = "fill", !.slot = s]
               f == [file_stat[s] EXCEPT !.state = BedFace]
    <3>1. /\ opener' = [opener EXCEPT ![o].pc = "fill", ![o].slot = s]
          /\ file_stat' = [file_stat EXCEPT ![s].state = BedFace]
          /\ UNCHANGED <<file_count, file_head, file_tail, file_activefile,
                         transfer_complete, GLOBAL_FINO, descr, worker, hist>>
      BY <1>5, <2>s, <2>2 DEF AddProbe, State
    <3>2. opener' = [opener EXCEPT ![o] = q] /\ file_stat' = [file_stat EXCEPT ![s] = f]
      BY <1>1, <3>1
    <3>3. /\ q \in OpenerState /\ q.pc = "fill" /\ q.slot = s
          /\ q.fino \in FileNos /\ q.fd \in FDs
      BY <1>1, <1>2, <2>1 DEF OpenerState
    <3>4. f \in FileStat /\ f.state = BedFace
      BY <1>1 DEF FileStat, StateWords
    <3> HIDE DEF q, f
    <3>5. worker' = worker
      BY <3>1
    <3>6. /\ SlotInv' /\ opener' \in [Openers -> OpenerState]
          /\ file_stat' \in [Slots -> FileStat]
      BY <2>2, <3>2, <3>3, <3>4, <3>5, OpenerSlot
    <3>7. UNCHANGED <<file_count, file_head, file_tail, file_activefile,
                      transfer_complete, GLOBAL_FINO, descr, worker, hist>>
      BY <3>1
    <3> QED
      BY <3>6, <3>7 DEF IInv, TypeOK, hist
  <2>3. CASE State(s) # Free
    <3> DEFINE n == (opener[o].k % CC) + 1
               q == [opener[o] EXCEPT !.k = n]
    <3>1. n \in 1 .. CC
      BY <2>1, TableAssumption
    <3>2. /\ opener' = [opener EXCEPT ![o].k = n]
          /\ UNCHANGED <<table, transfer_complete, GLOBAL_FINO, descr, worker, hist>>
      BY <1>5, <2>s, <2>3 DEF AddProbe, State, table
    <3> HIDE DEF n
    <3>3. opener' = [opener EXCEPT ![o] = q]
      BY <1>1, <3>2
    <3>4. q \in OpenerState /\ q.pc = "probe" /\ q.fino \in FileNos /\ q.fd \in FDs
      BY <1>1, <2>1, <3>1 DEF OpenerState
    <3> HIDE DEF q
    <3>5. SlotInv' /\ opener' \in [Openers -> OpenerState]
      BY <3>2, <3>3, <3>4, OpenerQuiet DEF table
    <3> QED
      BY <3>2, <3>5 DEF IInv, TypeOK, table, hist
  <2> QED
    BY <2>2, <2>3
<1>6. CASE AddFill(o)
  <2>1. /\ opener[o].pc = "fill" /\ opener[o].slot \in Slots
        /\ State(opener[o].slot) = BedFace
        /\ opener[o].fino \in FileNos /\ opener[o].fd \in FDs
    BY <1>1, <1>6 DEF AddFill, ReservedInv, RecordInv
  <2>s. PICK s \in Slots : s = opener[o].slot
    BY <2>1
  <2> DEFINE q == [opener[o] EXCEPT !.pc = "added"]
             f == [Wiped EXCEPT !.state = FS_INIT, !.fd = opener[o].fd,
                                !.file_no = opener[o].fino]
  <2>2. /\ opener' = [opener EXCEPT ![o].pc = "added"]
        /\ file_stat' = [file_stat EXCEPT ![s] = f]
        /\ UNCHANGED <<file_count, file_head, file_tail, file_activefile,
                       transfer_complete, GLOBAL_FINO, descr, worker, hist>>
    BY <1>6, <2>s DEF AddFill
  <2>3. opener' = [opener EXCEPT ![o] = q]
    BY <1>1, <2>2
  <2>4. q \in OpenerState /\ q.pc = "added" /\ q.fino \in FileNos /\ q.fd \in FDs
    BY <1>1, <1>2, <2>1 DEF OpenerState
  <2>5. f \in FileStat /\ f.state = FS_INIT /\ f.file_no \in FileNos /\ f.fd \in FDs
    BY <2>1, StartOK DEF FileStat, StateWords
  <2> HIDE DEF q, f
  <2>6. worker' = worker /\ file_stat' = [file_stat EXCEPT ![s] = f]
    BY <2>2
  <2>7. /\ SlotInv' /\ opener' \in [Openers -> OpenerState]
        /\ file_stat' \in [Slots -> FileStat]
    BY <2>1, <2>s, <2>3, <2>4, <2>5, <2>6, OpenerSlot
  <2>8. UNCHANGED <<file_count, file_head, file_tail, file_activefile,
                    transfer_complete, GLOBAL_FINO, descr, worker, hist>>
    BY <2>2
  <2> QED
    BY <2>7, <2>8 DEF IInv, TypeOK, hist
<1>7. CASE AddCount(o)
  <2>1. /\ opener' = [opener EXCEPT ![o] = OpenerIdle] /\ file_count' \in Nat
        /\ UNCHANGED <<file_stat, file_head, file_tail, file_activefile,
                       transfer_complete, GLOBAL_FINO, descr, worker, hist>>
    BY <1>1, <1>7 DEF AddCount
  <2>2. SlotInv' /\ opener' \in [Openers -> OpenerState]
    BY <1>3, <2>1, OpenerQuiet
  <2> QED
    BY <2>1, <2>2 DEF IInv, TypeOK, hist
<1> QED
  BY <1>4, <1>5, <1>6, <1>7 DEF OpenerStep

-----------------------------------------------------------------------------
\* The invariant holds in the initial states: every slot is free and no thread
\* has one.
LEMMA InitOK == Init => IInv
<1> SUFFICES ASSUME Init PROVE IInv
  OBVIOUS
<1>1. OpenerIdle \in OpenerState /\ OpenerIdle.pc = "idle"
  BY TableAssumption DEF OpenerIdle, OpenerState, OpenerPCs
<1>2. WorkerStart.pc \notin Attached \cup Leaving
  BY DEF WorkerStart, Attached, Leaving
<1>3. \A s \in Slots : State(s) = Free
  BY DEF Init, State, Wiped
<1>4. \A w \in Workers : worker[w] = WorkerStart
  BY DEF Init
<1>5. \A o \in Openers : opener[o] = OpenerIdle
  BY DEF Init
<1>6. TypeOK
  <2>1. /\ file_stat \in [Slots -> FileStat] /\ worker \in [Workers -> WorkerState]
        /\ opener \in [Openers -> OpenerState]
    BY <1>1, StartOK DEF Init
  <2>2. file_count \in Nat /\ file_head \in Nat /\ file_tail \in Nat
        /\ GLOBAL_FINO \in 0 .. NFiles
    BY TableAssumption DEF Init
  <2>3. completions \in [FileNos -> Seq(Completion)]
    BY DEF Init
  <2> QED
    BY <2>1, <2>2, <2>3 DEF Init, TypeOK
<1>7. BitsInv
  BY <1>2, <1>3, <1>4, Markers DEF BitsInv
<1>8. LeavingInv
  BY <1>2, <1>4 DEF LeavingInv
<1>9. ReservedInv
  BY <1>1, <1>5 DEF ReservedInv
<1>10. RecordInv
  BY <1>1, <1>3, <1>5 DEF RecordInv
<1>11. LocalInv
  BY <1>4, StartOK DEF LocalInv
<1> QED
  BY <1>6, <1>7, <1>8, <1>9, <1>10, <1>11 DEF IInv, SlotInv

\* Every step of the openers, the workers and the sender's main loop keeps the
\* invariant.
LEMMA NextOK == IInv /\ [Next]_vars => IInv'
<1> SUFFICES ASSUME IInv, [Next]_vars PROVE IInv'
  OBVIOUS
<1>1. CASE \E o \in Openers : OpenerStep(o)
  BY <1>1, OpenerStepOK DEF IInv
<1>2. ASSUME NEW w \in Workers, WorkerStep(w) PROVE IInv'
  BY <1>2, ChooseStep, SearchStep, AttachStep, ClaimStep, BlockStep, RemoveStep,
     LeaveStep, WipeStep DEF WorkerStep, IInv
<1>3. CASE CompleteTransfer
  <2>1. /\ transfer_complete' = TRUE
        /\ UNCHANGED <<table, GLOBAL_FINO, descr, opener, worker, hist>>
    BY <1>3 DEF CompleteTransfer
  <2>2. TypeOK'
    BY <2>1 DEF IInv, TypeOK, table, hist
  <2>3. UNCHANGED <<file_stat, worker, opener>>
    BY <2>1 DEF table
  <2>4. SlotInv'
    BY <2>3 DEF IInv, SlotInv, BitsInv, LeavingInv, ReservedInv, RecordInv, LocalInv,
                State
  <2> QED
    BY <2>2, <2>4 DEF IInv
<1>4. CASE UNCHANGED vars
  BY <1>4 DEF IInv, TypeOK, SlotInv, BitsInv, LeavingInv, ReservedInv, RecordInv,
              LocalInv, State, vars, table, hist
<1> QED
  BY <1>1, <1>2, <1>3, <1>4 DEF Next, Terminated

\* The inductive invariant is an invariant of the file table.
THEOREM TableInvariant == Spec => []IInv
BY InitOK, NextOK, PTL DEF Spec

\* Every variable of the file table and of the threads that share it keeps its
\* type: in particular no thread ever uses an index outside file_stat or
\* file_activefile, and a state word combines only flags and workers' bits.
THEOREM TypeCorrect == Spec => []TypeOK
<1>1. IInv => TypeOK
  BY DEF IInv
<1> QED
  BY <1>1, TableInvariant, PTL

\* The worker that closes, reports and wipes a slot (submit_work, after
\* file_iow_remove returned FS_COMPLETE alone) is alone on it, for any number
\* of workers, slots and files, and even where an attach used an outdated copy.
THEOREM LastOutAloneHolds == Spec => []LastOutAlone
<1>1. IInv => LastOutAlone
  <2> SUFFICES ASSUME IInv, NEW w \in Workers, NEW v \in Workers, v # w,
                      worker[w].pc \in Leaving,
                      worker[v].pc \in Attached \cup Leaving
               PROVE  worker[v].fs # worker[w].fs
    BY DEF LastOutAlone
  <2>1. State(worker[w].fs) = {FS_COMPLETE}
    BY DEF IInv, SlotInv, LeavingInv
  <2>2. CASE worker[v].pc \in Attached
    <3>1. v \in State(worker[v].fs)
      BY <2>2 DEF IInv, SlotInv, BitsInv
    <3> QED
      BY <2>1, <3>1, Markers
  <2>3. CASE worker[v].pc \in Leaving
    BY <2>3 DEF IInv, SlotInv, LeavingInv
  <2> QED
    BY <2>2, <2>3
<1> QED
  BY <1>1, TableInvariant, PTL
-----------------------------------------------------------------------------
(* What the records of the table say about the files.                      *)

\* A slot with a published record, and an opener with a file that is not in
\* the table yet.
Live(s) == State(s) \notin {Free, BedFace}
Holds(o) == opener[o].pc \in {"probe", "fill"}

\* Every number given out is at one place: with an opener, in one slot, or
\* reported; a file that has been reported is in the table only while the
\* worker that reported it is about to wipe the slot.
NumberInv ==
    /\ \A s \in Slots : Live(s) => file_stat[s].file_no <= GLOBAL_FINO
    /\ \A o \in Openers : Holds(o) => opener[o].fino <= GLOBAL_FINO
    /\ \A f \in FileNos : completions[f] # << >> => f <= GLOBAL_FINO
    /\ \A s, t \in Slots :
          (Live(s) /\ Live(t) /\ file_stat[s].file_no = file_stat[t].file_no) => s = t
    /\ \A o \in Openers, s \in Slots :
          (Holds(o) /\ Live(s)) => opener[o].fino # file_stat[s].file_no
    /\ \A o, p \in Openers :
          (Holds(o) /\ Holds(p) /\ opener[o].fino = opener[p].fino) => o = p
    /\ \A o \in Openers : Holds(o) => completions[opener[o].fino] = << >>
    /\ \A s \in Slots : (Live(s) /\ completions[file_stat[s].file_no] # << >>) =>
          \E w \in Workers : worker[w].pc = "wipe" /\ worker[w].fs = s

\* A number is claimed by one worker, which finds its record untouched.
ClaimInv ==
    /\ \A w \in Workers : Claiming(w) => worker[w].fh <= file_head
    /\ \A w, v \in Workers :
          (Claiming(w) /\ Claiming(v) /\ worker[w].fh = worker[v].fh) => w = v
    /\ \A w \in Workers : worker[w].pc = "claim" =>
          /\ State(worker[w].j) = FS_INIT
          /\ file_stat[worker[w].j].file_no = worker[w].fh
          /\ worker[w].lcl.file_no = worker[w].fh
          /\ worker[w].lcl.fd = file_stat[worker[w].j].fd

\* A copy taken for an attach may be outdated, but its descriptor is that of
\* its file wherever the file is in the table.
CopyInv ==
    \A w \in Workers : worker[w].pc = "attach" =>
        /\ worker[w].lcl.file_no <= GLOBAL_FINO
        /\ \A o \in Openers : Holds(o) => opener[o].fino # worker[w].lcl.file_no
        /\ \A s \in Slots : (Live(s) /\ file_stat[s].file_no = worker[w].lcl.file_no) =>
              file_stat[s].fd = worker[w].lcl.fd

\* Without a stale attach: a worker's copy is of the file in its slot.
SameFileInv ==
    \A w \in Workers : worker[w].pc \in Attached \cup Leaving =>
        /\ worker[w].lcl.file_no = file_stat[worker[w].fs].file_no
        /\ worker[w].lcl.fd = file_stat[worker[w].fs].fd

\* Without a stale attach: descriptors are open on their files until the last
\* worker has closed them.
Closed(s) == \E w \in Workers : worker[w].pc \in {"push", "wipe"} /\ worker[w].fs = s
OpenInv ==
    /\ \A o \in Openers : Holds(o) => descr[opener[o].fd] = opener[o].fino
    /\ \A s \in Slots : (Live(s) /\ ~Closed(s)) =>
          descr[file_stat[s].fd] = file_stat[s].file_no

\* Without a stale attach: the blocks in the hands of workers are different
\* blocks of their files, and a worker that leaves has seen the end of file.
InHand == {"read", "send", "tally"}
OffsetsOK(r, b) ==
    /\ r.pc # "aborted"
    /\ r.pc \in InHand \cup {"remove"} => r.off < b
    /\ r.pc \in {"send", "tally"} => r.from = r.lcl.file_no /\ r.off < Blocks[r.from]
    /\ r.pc = "remove" => Blocks[r.lcl.file_no] <= r.off
    /\ r.pc \in Leaving => Blocks[r.lcl.file_no] < b
OffsetInv ==
    /\ \A w \in Workers : worker[w].pc \in Attached \cup Leaving =>
          OffsetsOK(worker[w], file_stat[worker[w].fs].block_offset)
    /\ \A w, v \in Workers :
          (/\ worker[w].pc \in InHand /\ worker[v].pc \in InHand
           /\ worker[w].fs = worker[v].fs /\ worker[w].off = worker[v].off) => w = v

\* Without a stale attach: the checksum of a slot covers the blocks handed out
\* except those still to be hashed, all of which are on the wire, and
\* block_total counts them except those still to be counted.
Unhashed(s, k) == \E w \in Workers : /\ worker[w].pc \in {"read", "send"}
                                     /\ worker[w].fs = s /\ worker[w].off = k
Uncounted(s, n) == {w \in Workers : /\ worker[w].pc \in InHand /\ worker[w].fs = s
                                    /\ worker[w].off < n}
Least(a, b) == IF a <= b THEN a ELSE b
AccountOK(s) ==
    LET r == file_stat[s]
        f == r.file_no IN
    /\ r.crc = {<<f, k>> : k \in {k \in 0 .. Blocks[f] - 1 :
                                    k < r.block_offset /\ ~Unhashed(s, k)}}
    /\ \A b \in r.crc : [file_no |-> f, block |-> b] \in sent
    /\ r.block_total + Cardinality(Uncounted(s, Blocks[f])) = Least(r.block_offset, Blocks[f])
AccountInv == \A s \in Slots : Live(s) => AccountOK(s)

NumInv  == NumberInv /\ ClaimInv /\ CopyInv
FileInv == SameFileInv /\ OpenInv /\ OffsetInv /\ AccountInv /\ CompletionExact
AInv    == NumInv /\ (~stale => FileInv)

-----------------------------------------------------------------------------
(* Lemmas on the accounts.                                                 *)

\* A worker works on a published record, which nobody else is leaving.
LEMMA WorksOnLive ==
    ASSUME IInv, NEW w \in Workers, worker[w].pc \in Attached \cup Leaving
    PROVE  /\ worker[w].fs \in Slots /\ Live(worker[w].fs)
           /\ State(worker[w].fs) # FS_INIT
           /\ file_stat[worker[w].fs].file_no \in FileNos
           /\ file_stat[worker[w].fs].fd \in FDs
<1>1. worker[w].fs \in Slots /\ Live(worker[w].fs) /\ State(worker[w].fs) # FS_INIT
  <2>1. CASE worker[w].pc \in Attached
    BY <2>1, Markers DEF IInv, SlotInv, BitsInv, Live
  <2>2. CASE worker[w].pc \in Leaving
    BY <2>2, Markers DEF IInv, SlotInv, LeavingInv, Live
  <2> QED
    BY <2>1, <2>2
<1> QED
  BY <1>1 DEF IInv, SlotInv, RecordInv, Live

LEMMA LeavesAlone ==
    ASSUME IInv, NEW w \in Workers, NEW v \in Workers, v # w,
           worker[w].pc \in Leaving, worker[v].pc \in Attached \cup Leaving
    PROVE  worker[v].fs # worker[w].fs
<1>1. State(worker[w].fs) = {FS_COMPLETE}
  BY DEF IInv, SlotInv, LeavingInv
<1>2. CASE worker[v].pc \in Attached
  <2>1. v \in State(worker[v].fs)
    BY <1>2 DEF IInv, SlotInv, BitsInv
  <2> QED
    BY <1>1, <2>1, Markers
<1>3. CASE worker[v].pc \in Leaving
  BY <1>3 DEF IInv, SlotInv, LeavingInv
<1> QED
  BY <1>2, <1>3

\* The program counters of workers without a slot, with a block in hand, and of
\* those that leave.
LEMMA Counters ==
    /\ InHand \subseteq Attached /\ {"read", "send"} \subseteq InHand
    /\ "remove" \in Attached /\ {"push", "wipe"} \subseteq Leaving
    /\ \A x \in Leaving : x \notin Attached
    /\ {"find", "claim", "attach"} \cap (Attached \cup Leaving) = {}
BY DEF InHand, Attached, Leaving

\* The account of slot s stays right if its record does and the blocks of the
\* file in the hands of workers stay the same.
LEMMA AccountSame ==
    ASSUME NEW s \in Slots, AccountOK(s),
           /\ file_stat'[s].file_no = file_stat[s].file_no
           /\ file_stat'[s].crc = file_stat[s].crc
           /\ file_stat'[s].block_offset = file_stat[s].block_offset
           /\ file_stat'[s].block_total = file_stat[s].block_total,
           sent \subseteq sent',
           Blocks[file_stat[s].file_no] \in Nat,
           \A u \in Workers :
              \/ worker'[u] = worker[u]
              \/ /\ ~(/\ worker[u].pc \in InHand /\ worker[u].fs = s
                      /\ worker[u].off < Blocks[file_stat[s].file_no])
                 /\ ~(/\ worker'[u].pc \in InHand /\ worker'[u].fs = s
                      /\ worker'[u].off < Blocks[file_stat[s].file_no])
              \/ /\ worker'[u].fs = worker[u].fs /\ worker'[u].off = worker[u].off
                 /\ worker'[u].pc \in InHand <=> worker[u].pc \in InHand
                 /\ worker'[u].pc \in {"read", "send"} <=> worker[u].pc \in {"read", "send"}
    PROVE  AccountOK(s)'
<1> DEFINE f == file_stat[s].file_no
           n == Blocks[f]
<1>1. Uncounted(s, n)' = Uncounted(s, n)
  BY DEF Uncounted
<1>2. \A k \in 0 .. n - 1 : Unhashed(s, k)' <=> Unhashed(s, k)
  BY Counters DEF Unhashed
<1>3. {k \in 0 .. n - 1 : k < file_stat[s].block_offset /\ ~Unhashed(s, k)}
        = {k \in 0 .. n - 1 : k < file_stat[s].block_offset /\ ~Unhashed(s, k)'}
  BY <1>2
<1> QED
  BY <1>1, <1>3 DEF AccountOK

\* A step of worker w that takes no number and no copy, and only leaves records
\* in the table, preserves what is known about claims and copies.
LEMMA ClaimQuiet ==
    ASSUME IInv, NumInv, NEW w \in Workers,
           \A u \in Workers : u # w => worker'[u] = worker[u],
           worker'[w].pc \notin {"find", "claim", "attach"},
           \A s \in Slots : Live(s)' => /\ Live(s)
                                        /\ file_stat'[s].file_no = file_stat[s].file_no
                                        /\ file_stat'[s].fd = file_stat[s].fd,
           \A s \in Slots : State(s) = FS_INIT =>
              State(s)' = FS_INIT \/ (worker[w].pc = "claim" /\ worker[w].j = s),
           UNCHANGED <<opener, GLOBAL_FINO, file_head>>
    PROVE  ClaimInv' /\ CopyInv'
<1>1. ClaimInv'
  <2>1. \A u \in Workers : Claiming(u)' => u # w /\ Claiming(u) /\ worker'[u] = worker[u]
    BY DEF Claiming
  <2>2. ASSUME NEW u \in Workers, worker'[u].pc = "claim"
        PROVE  /\ file_stat'[worker'[u].j].state = FS_INIT
               /\ file_stat'[worker'[u].j].file_no = worker'[u].fh
               /\ worker'[u].lcl.file_no = worker'[u].fh
               /\ worker'[u].lcl.fd = file_stat'[worker'[u].j].fd
    <3>1. u # w /\ worker'[u] = worker[u] /\ worker[u].pc = "claim" /\ worker[u].j \in Slots
      BY <2>2 DEF IInv, SlotInv, LocalInv, LocalsOK
    <3>2. /\ State(worker[u].j) = FS_INIT /\ file_stat[worker[u].j].file_no = worker[u].fh
          /\ worker[u].lcl.file_no = worker[u].fh
          /\ worker[u].lcl.fd = file_stat[worker[u].j].fd
      BY <3>1 DEF NumInv, ClaimInv
    <3>3. ~(worker[w].pc = "claim" /\ worker[w].j = worker[u].j)
      <4>1. ASSUME worker[w].pc = "claim", worker[w].j = worker[u].j PROVE FALSE
        <5>1. worker[w].fh = worker[u].fh
          BY <3>2, <4>1 DEF NumInv, ClaimInv
        <5> QED
          BY <3>1, <4>1, <5>1 DEF NumInv, ClaimInv, Claiming
      <4> QED
        BY <4>1
    <3>4. PICK j \in Slots : j = worker[u].j
      BY <3>1
    <3>5. State(j)' = FS_INIT
      BY <3>2, <3>3, <3>4
    <3>6. file_stat'[j].state = FS_INIT /\ Live(j)'
      BY <3>5, Markers DEF State, Live
    <3> QED
      BY <3>1, <3>2, <3>4, <3>6
  <2>3. \A u \in Workers : Claiming(u)' => worker'[u].fh <= file_head'
    BY <2>1 DEF NumInv, ClaimInv
  <2>4. \A u, v \in Workers : (/\ Claiming(u)' /\ Claiming(v)'
                               /\ worker'[u].fh = worker'[v].fh) => u = v
    BY <2>1 DEF NumInv, ClaimInv
  <2> QED
    BY <2>2, <2>3, <2>4 DEF ClaimInv, State
<1>2. CopyInv'
  BY DEF NumInv, CopyInv, Holds
<1> QED
  BY <1>1, <1>2

\* Nor does such a step disturb where the numbers are, unless it reports one.
LEMMA NumQuiet ==
    ASSUME IInv, NumInv, NEW w \in Workers,
           \A u \in Workers : u # w => worker'[u] = worker[u],
           worker'[w].pc \notin {"find", "claim", "attach"},
           \A s \in Slots : Live(s)' => /\ Live(s)
                                        /\ file_stat'[s].file_no = file_stat[s].file_no
                                        /\ file_stat'[s].fd = file_stat[s].fd
                                        /\ ~(worker[w].pc = "wipe" /\ worker[w].fs = s),
           \A s \in Slots : State(s) = FS_INIT =>
              State(s)' = FS_INIT \/ (worker[w].pc = "claim" /\ worker[w].j = s),
           UNCHANGED <<opener, GLOBAL_FINO, completions, file_head>>
    PROVE  NumInv'
<1>1. NumberInv'
  <2>1. \A o \in Openers : Holds(o)' <=> Holds(o)
    BY DEF Holds
  <2>2. \A s \in Slots : (Live(s)' /\ completions[file_stat[s].file_no] # << >>) =>
           \E u \in Workers : u # w /\ worker[u].pc = "wipe" /\ worker[u].fs = s
    BY DEF NumInv, NumberInv
  <2>3. \A s \in Slots : (Live(s)' /\ completions'[file_stat'[s].file_no] # << >>) =>
           \E u \in Workers : worker'[u].pc = "wipe" /\ worker'[u].fs = s
    BY <2>2
  <2> QED
    BY <2>1, <2>3 DEF NumInv, NumberInv
<1>2. ClaimInv' /\ CopyInv'
  BY ClaimQuiet
<1> QED
  BY <1>1, <1>2 DEF NumInv

\* A step of a worker that has no slot before and after it leaves the files as
\* they are.
LEMMA IdleFiles ==
    ASSUME IInv, IInv', NEW w \in Workers,
           \A u \in Workers : u # w => worker'[u] = worker[u],
           worker[w].pc \notin Attached \cup Leaving,
           worker'[w].pc \notin Attached \cup Leaving,
           UNCHANGED <<file_stat, opener, GLOBAL_FINO, descr, hist>>
    PROVE  /\ NumberInv => NumberInv'
           /\ (~stale => FileInv) => (~stale => FileInv)'
<1> USE DEF hist
<1>1. \A s \in Slots : Live(s)' <=> Live(s)
  BY DEF Live, State
<1>2. \A o \in Openers : Holds(o)' <=> Holds(o)
  BY DEF Holds
<1>3. ASSUME NumberInv PROVE NumberInv'
  <2>1. \A s \in Slots : (Live(s) /\ completions[file_stat[s].file_no] # << >>) =>
           \E u \in Workers : u # w /\ worker[u].pc = "wipe" /\ worker[u].fs = s
    BY <1>3, Counters DEF NumberInv
  <2>2. \A s \in Slots : (Live(s)' /\ completions'[file_stat'[s].file_no] # << >>) =>
           \E u \in Workers : worker'[u].pc = "wipe" /\ worker'[u].fs = s
    BY <1>1, <2>1
  <2> QED
    BY <1>1, <1>2, <1>3, <2>2 DEF NumberInv
<1>4. ASSUME FileInv PROVE FileInv'
  <2> USE <1>4 DEF FileInv
  <2>1. SameFileInv'
    BY DEF SameFileInv
  <2>2. OpenInv'
    <3>1. \A s \in Slots : Closed(s)' <=> Closed(s)
      BY Counters DEF Closed
    <3> QED
      BY <1>1, <1>2, <3>1 DEF OpenInv
  <2>3. OffsetInv'
    BY Counters DEF OffsetInv
  <2>4. AccountInv'
    <3> SUFFICES ASSUME NEW s \in Slots, Live(s) PROVE AccountOK(s)'
      BY <1>1 DEF AccountInv
    <3>1. AccountOK(s) /\ Blocks[file_stat[s].file_no] \in Nat
      BY TableAssumption DEF AccountInv, IInv, SlotInv, RecordInv, Live
    <3>2. \A u \in Workers : \/ worker'[u] = worker[u]
                             \/ worker[u].pc \notin InHand /\ worker'[u].pc \notin InHand
      BY Counters
    <3> QED
      BY <3>1, <3>2, AccountSame
  <2>5. CompletionExact'
    BY DEF CompletionExact
  <2> QED
    BY <2>1, <2>2, <2>3, <2>4, <2>5
<1> QED
  BY <1>3, <1>4

\* file_next: choosing a number, scanning and leaving.
LEMMA ChooseAccounts ==
    ASSUME IInv, IInv', AInv, NEW w \in Workers,
           LoadCount(w) \/ LoadHead(w) \/ Scan(w) \/ CheckComplete(w)
    PROVE  AInv'
<1>1. /\ worker \in [Workers -> WorkerState]
      /\ UNCHANGED <<table, GLOBAL_FINO, descr, opener, hist>>
      /\ worker[w].pc \in {"count", "head", "scan", "complete"}
  BY DEF IInv, TypeOK, LoadCount, LoadHead, Scan, CheckComplete
<1>2. /\ \A u \in Workers : u # w => worker'[u] = worker[u]
      /\ worker'[w].pc \in {"head", "grab", "cas", "scan", "copy", "complete", "count", "done"}
  <2>1. worker[w] \in WorkerState
    BY <1>1
  <2>2. CASE LoadCount(w)
    BY <1>1, <2>1, <2>2 DEF LoadCount, WorkerState
  <2>3. CASE LoadHead(w)
    BY <1>1, <2>1, <2>3 DEF LoadHead, WorkerState
  <2>4. CASE Scan(w)
    BY <1>1, <2>1, <2>4 DEF Scan, Goto, WorkerState
  <2>5. CASE CheckComplete(w)
    BY <1>1, <2>1, <2>5 DEF CheckComplete, WorkerStart
  <2> QED
    BY <2>2, <2>3, <2>4, <2>5
<1>3. /\ worker[w].pc \notin Attached \cup Leaving /\ worker'[w].pc \notin Attached \cup Leaving
      /\ worker'[w].pc \notin {"find", "claim", "attach"} /\ worker[w].pc # "wipe"
      /\ worker[w].pc # "claim"
  BY <1>1, <1>2 DEF Attached, Leaving
<1>4. NumInv'
  <2>1. UNCHANGED <<file_stat, opener, GLOBAL_FINO, completions, file_head>>
    BY <1>1 DEF table, hist
  <2>2. \A s \in Slots : (Live(s)' <=> Live(s)) /\ State(s)' = State(s)
    BY <2>1 DEF Live, State
  <2> QED
    BY <1>2, <1>3, <2>1, <2>2, NumQuiet DEF AInv
<1>5. (~stale => FileInv)'
  BY <1>1, <1>2, <1>3, IdleFiles DEF AInv, table
<1> QED
  BY <1>4, <1>5 DEF AInv

\* A step of a worker that has no slot before and after it, claims nothing and
\* holds no copy afterwards.
LEMMA IdleAccounts ==
    ASSUME IInv, IInv', AInv, NEW w \in Workers,
           \A u \in Workers : u # w => worker'[u] = worker[u],
           worker[w].pc \notin Attached \cup Leaving \cup {"claim"},
           worker'[w].pc \notin Attached \cup Leaving \cup {"find", "claim", "attach"},
           UNCHANGED <<file_stat, file_head, opener, GLOBAL_FINO, descr, hist>>
    PROVE  AInv'
<1>1. \A s \in Slots : (Live(s)' <=> Live(s)) /\ State(s)' = State(s)
  BY DEF Live, State
<1>2. NumInv'
  BY <1>1, Counters, NumQuiet DEF AInv, hist
<1>3. (~stale => FileInv)'
  BY IdleFiles DEF AInv
<1> QED
  BY <1>2, <1>3 DEF AInv

\* file_next: taking the number at the head.
LEMMA HeadAccounts ==
    ASSUME IInv, IInv', AInv, NEW w \in Workers, GrabHead(w) \/ CasHead(w)
    PROVE  AInv'
<1>1. /\ worker \in [Workers -> WorkerState] /\ worker[w] \in WorkerState
      /\ file_head \in Nat
      /\ UNCHANGED <<file_stat, GLOBAL_FINO, descr, opener, hist>>
      /\ worker[w].pc \in {"grab", "cas"}
  BY DEF IInv, TypeOK, GrabHead, CasHead
<1>2. CASE GrabHead(w) \/ file_head = worker[w].fh
  <2> DEFINE h == file_head + 1
  <2>1. file_head' = h /\ worker' = [worker EXCEPT ![w].fh = h, ![w].pc = "find"]
    BY <1>2 DEF GrabHead, CasHead
  <2>2. h \in Nat /\ ~(h <= file_head) /\ file_head <= h
    BY <1>1
  <2> HIDE DEF h
  <2>3. /\ \A u \in Workers : u # w => worker'[u] = worker[u]
        /\ worker'[w].fh = h /\ worker'[w].pc = "find"
    BY <1>1, <2>1 DEF WorkerState
  <2>4. worker[w].pc \notin Attached \cup Leaving /\ worker'[w].pc \notin Attached \cup Leaving
    BY <1>1, <2>3 DEF Attached, Leaving
  <2>5. NumberInv' /\ (~stale => FileInv)'
    BY <1>1, <2>3, <2>4, IdleFiles DEF AInv, NumInv
  <2>6. CopyInv'
    <3>1. \A s \in Slots : Live(s)' <=> Live(s)
      BY <1>1 DEF Live, State
    <3> QED
      BY <1>1, <2>3, <3>1 DEF AInv, NumInv, CopyInv, Holds
  <2>7. ClaimInv'
    <3>1. \A u \in Workers : u # w /\ Claiming(u)' =>
             /\ worker'[u] = worker[u] /\ Claiming(u) /\ worker[u].fh \in Nat
             /\ worker[u].fh <= file_head
      BY <1>1, <2>3 DEF Claiming, AInv, NumInv, ClaimInv, WorkerState
    <3>2. \A u \in Workers : u # w /\ Claiming(u)' =>
             worker'[u].fh <= h /\ worker'[u].fh # h
      BY <1>1, <2>2, <3>1
    <3>a. h <= h
      BY <2>2
    <3>b. \A u \in Workers : Claiming(u)' => worker'[u].fh <= h
      BY <2>3, <3>2, <3>a, Zenon
    <3>3. \A u \in Workers : Claiming(u)' => worker'[u].fh <= file_head'
      BY <2>1, <3>b, Zenon
    <3>4. \A u, v \in Workers : (/\ Claiming(u)' /\ Claiming(v)'
                                 /\ worker'[u].fh = worker'[v].fh) => u = v
      BY <2>3, <3>1, <3>2 DEF AInv, NumInv, ClaimInv
    <3>5. \A u \in Workers : worker'[u].pc = "claim" =>
             u # w /\ worker'[u] = worker[u]
      BY <2>3
    <3> QED
      BY <1>1, <3>3, <3>4, <3>5 DEF AInv, NumInv, ClaimInv, State
  <2> QED
    BY <2>5, <2>6, <2>7 DEF AInv, NumInv
<1>3. CASE CasHead(w) /\ file_head # worker[w].fh
  <2>1. file_head' = file_head /\ worker' = [worker EXCEPT ![w].pc = "count"]
    BY <1>3 DEF CasHead, Goto
  <2>2. /\ \A u \in Workers : u # w => worker'[u] = worker[u]
        /\ worker'[w].pc = "count"
    BY <1>1, <2>1 DEF WorkerState
  <2>3. /\ worker[w].pc \notin Attached \cup Leaving \cup {"claim"}
        /\ worker'[w].pc \notin Attached \cup Leaving \cup {"find", "claim", "attach"}
    BY <1>1, <2>2 DEF Attached, Leaving
  <2> QED
    BY <1>1, <2>1, <2>2, <2>3, IdleAccounts
<1> QED
  BY <1>2, <1>3

\* file_next: copying a record to attach to it, and finding the one claimed.
LEMMA CopyAccounts ==
    ASSUME IInv, IInv', AInv, NEW w \in Workers, CopySlot(w)
    PROVE  AInv'
<1>1. /\ worker \in [Workers -> WorkerState] /\ worker[w] \in WorkerState
      /\ UNCHANGED <<file_stat, file_head, GLOBAL_FINO, descr, opener, hist>>
      /\ worker[w].pc = "copy" /\ worker[w].j \in Slots /\ AInv
  BY DEF IInv, TypeOK, CopySlot, table, SlotInv, LocalInv, LocalsOK
<1>j. PICK j \in Slots : j = worker[w].j
  BY <1>1
<1>2. CASE FS_IO \in State(j)
  <2>1. worker' = [worker EXCEPT ![w].lcl = file_stat[j], ![w].pc = "attach"]
    BY <1>2, <1>j DEF CopySlot, State
  <2>2. /\ \A u \in Workers : u # w => worker'[u] = worker[u]
        /\ worker'[w].lcl = file_stat[j] /\ worker'[w].pc = "attach"
    BY <1>1, <2>1 DEF WorkerState
  <2>3. worker[w].pc \notin Attached \cup Leaving /\ worker'[w].pc \notin Attached \cup Leaving
    BY <1>1, <2>2 DEF Attached, Leaving
  <2>4. NumberInv' /\ (~stale => FileInv)'
    BY <1>1, <2>2, <2>3, IdleFiles DEF AInv, NumInv
  <2>5. Live(j)
    BY <1>2, Markers DEF Live
  <2>6. CopyInv'
    <3>1. \A s \in Slots : Live(s)' <=> Live(s)
      BY <1>1 DEF Live, State
    <3>2. /\ file_stat[j].file_no <= GLOBAL_FINO
          /\ \A o \in Openers : Holds(o) => opener[o].fino # file_stat[j].file_no
          /\ \A s \in Slots : (Live(s) /\ file_stat[s].file_no = file_stat[j].file_no) =>
                file_stat[s].fd = file_stat[j].fd
      BY <2>5 DEF AInv, NumInv, NumberInv
    <3> QED
      BY <1>1, <2>2, <3>1, <3>2 DEF AInv, NumInv, CopyInv, Holds
  <2>7. ClaimInv'
    <3>1. \A u \in Workers : Claiming(u)' => u # w /\ worker'[u] = worker[u] /\ Claiming(u)
      BY <2>2 DEF Claiming
    <3> QED
      BY <1>1, <3>1 DEF AInv, NumInv, ClaimInv, State, Claiming
  <2> QED
    BY <2>4, <2>6, <2>7 DEF AInv, NumInv
<1>3. CASE FS_IO \notin State(j)
  <2>1. worker' = [worker EXCEPT ![w].i = @ + 1, ![w].pc = "scan"]
    BY <1>3, <1>j DEF CopySlot, State
  <2>2. /\ \A u \in Workers : u # w => worker'[u] = worker[u]
        /\ worker'[w].pc = "scan"
    BY <1>1, <2>1 DEF WorkerState
  <2>3. /\ worker[w].pc \notin Attached \cup Leaving \cup {"claim"}
        /\ worker'[w].pc \notin Attached \cup Leaving \cup {"find", "claim", "attach"}
    BY <1>1, <2>2 DEF Attached, Leaving
  <2> QED
    BY <1>1, <2>2, <2>3, IdleAccounts
<1> QED
  BY <1>2, <1>3

LEMMA FindAccounts ==
    ASSUME IInv, IInv', AInv, NEW w \in Workers, FindSlot(w)
    PROVE  AInv'
<1>1. /\ worker \in [Workers -> WorkerState] /\ worker[w] \in WorkerState
      /\ UNCHANGED <<file_stat, file_head, GLOBAL_FINO, descr, opener, hist>>
      /\ worker[w].pc = "find"
  BY DEF IInv, TypeOK, FindSlot, table
<1>2. PICK s \in Slots :
         /\ file_stat[s].file_no = worker[w].fh /\ file_stat[s].state = FS_INIT
         /\ worker' = [worker EXCEPT ![w].j = s, ![w].lcl = file_stat[s], ![w].pc = "claim"]
  <2>1. \A k \in 1 .. CC : worker[w].fh \in FileNos => Probe[worker[w].fh][k] \in Slots
    BY TableAssumption
  <2> QED
    BY <2>1 DEF FindSlot
<1>3. /\ \A u \in Workers : u # w => worker'[u] = worker[u]
      /\ worker'[w].lcl = file_stat[s] /\ worker'[w].pc = "claim" /\ worker'[w].j = s
      /\ worker'[w].fh = worker[w].fh
  BY <1>1, <1>2 DEF WorkerState
<1>4. worker[w].pc \notin Attached \cup Leaving /\ worker'[w].pc \notin Attached \cup Leaving
  BY <1>1, <1>3 DEF Attached, Leaving
<1>5. NumberInv' /\ (~stale => FileInv)'
  BY <1>1, <1>3, <1>4, IdleFiles DEF AInv, NumInv
<1>6. CopyInv'
  <2>1. \A x \in Slots : Live(x)' <=> Live(x)
    BY <1>1 DEF Live, State
  <2> QED
    BY <1>1, <1>3, <2>1 DEF AInv, NumInv, CopyInv, Holds
<1>7. ClaimInv'
  <2>1. \A u \in Workers : /\ Claiming(u)' <=> Claiming(u)
                           /\ worker'[u].fh = worker[u].fh
    BY <1>1, <1>3 DEF Claiming
  <2>2. \A u \in Workers : worker'[u].pc = "claim" =>
           /\ file_stat'[worker'[u].j].state = FS_INIT
           /\ file_stat'[worker'[u].j].file_no = worker'[u].fh
           /\ worker'[u].lcl.file_no = worker'[u].fh
           /\ worker'[u].lcl.fd = file_stat'[worker'[u].j].fd
    BY <1>1, <1>2, <1>3 DEF AInv, NumInv, ClaimInv, State
  <2>3. \A u \in Workers : Claiming(u)' => worker'[u].fh <= file_head'
    BY <1>1, <2>1 DEF AInv, NumInv, ClaimInv
  <2>4. \A u, v \in Workers : (/\ Claiming(u)' /\ Claiming(v)'
                               /\ worker'[u].fh = worker'[v].fh) => u = v
    BY <2>1 DEF AInv, NumInv, ClaimInv
  <2> QED
    BY <2>2, <2>3, <2>4 DEF ClaimInv, State
<1> QED
  BY <1>5, <1>6, <1>7 DEF AInv, NumInv

-----------------------------------------------------------------------------
(* Entering a file.                                                        *)

\* A worker that enters slot s with a copy of its file and no block in hand.
LEMMA EnterFiles ==
    ASSUME IInv, IInv', FileInv, NEW w \in Workers, NEW s \in Slots,
           \A u \in Workers : u # w => worker'[u] = worker[u],
           worker[w].pc \notin Attached \cup Leaving,
           worker'[w].pc \in {"publish", "fetch"}, worker'[w].fs = s,
           worker'[w].lcl.file_no = file_stat[s].file_no,
           worker'[w].lcl.fd = file_stat[s].fd, Live(s), ~Closed(s),
           \A x \in Slots :
              /\ Live(x)' <=> Live(x)
              /\ file_stat'[x].file_no = file_stat[x].file_no
              /\ file_stat'[x].fd = file_stat[x].fd
              /\ file_stat'[x].crc = file_stat[x].crc
              /\ file_stat'[x].block_offset = file_stat[x].block_offset
              /\ file_stat'[x].block_total = file_stat[x].block_total,
           UNCHANGED <<opener, GLOBAL_FINO, descr, hist>>
    PROVE  FileInv'
<1> USE DEF FileInv, hist
<1>0. worker'[w].pc \notin InHand \cup Leaving \cup {"remove", "aborted", "push", "wipe"}
  BY DEF InHand, Leaving
<1>a. \A u \in Workers : worker[u].pc \in Attached \cup Leaving => worker[u].fs \in Slots
  BY WorksOnLive
<1>1. SameFileInv'
  <2>1. \A u \in Workers : (u # w /\ worker'[u].pc \in Attached \cup Leaving) =>
           /\ worker'[u].lcl.file_no = file_stat'[worker'[u].fs].file_no
           /\ worker'[u].lcl.fd = file_stat'[worker'[u].fs].fd
    BY <1>a DEF SameFileInv
  <2> QED
    BY <2>1 DEF SameFileInv
<1>2. OpenInv'
  <2>1. \A x \in Slots : Closed(x)' <=> Closed(x)
    BY <1>0, Counters DEF Closed
  <2>2. \A o \in Openers : Holds(o)' <=> Holds(o)
    BY DEF Holds
  <2> QED
    BY <2>1, <2>2 DEF OpenInv
<1>3. OffsetInv'
  <2>1. ASSUME NEW u \in Workers, worker'[u].pc \in Attached \cup Leaving
        PROVE  OffsetsOK(worker'[u], file_stat'[worker'[u].fs].block_offset)
    <3>1. CASE u = w
      BY <1>0, <3>1 DEF OffsetsOK, InHand, Leaving
    <3>2. CASE u # w
      BY <1>a, <2>1, <3>2 DEF OffsetInv
    <3> QED
      BY <3>1, <3>2
  <2>2. \A u \in Workers : worker'[u].pc \in InHand =>
           worker[u].pc \in InHand /\ worker'[u] = worker[u]
    BY <1>0
  <2> QED
    BY <2>1, <2>2 DEF OffsetInv
<1>4. AccountInv'
  <2> SUFFICES ASSUME NEW x \in Slots, Live(x) PROVE AccountOK(x)'
    BY DEF AccountInv
  <2>1. AccountOK(x) /\ Blocks[file_stat[x].file_no] \in Nat
    BY TableAssumption DEF AccountInv, IInv, SlotInv, RecordInv, Live
  <2>2. \A u \in Workers : \/ worker'[u] = worker[u]
                           \/ worker[u].pc \notin InHand /\ worker'[u].pc \notin InHand
    BY <1>0, Counters
  <2> QED
    BY <2>1, <2>2, AccountSame
<1>5. CompletionExact'
  BY DEF CompletionExact
<1> QED
  BY <1>1, <1>2, <1>3, <1>4, <1>5

\* A swap of a state word leaves the rest of the records alone.
LEMMA WordOnly ==
    ASSUME file_stat \in [Slots -> FileStat], NEW s \in Slots, NEW st,
           file_stat' = [file_stat EXCEPT ![s].state = st]
    PROVE  /\ State(s)' = st /\ \A x \in Slots \ {s} : State(x)' = State(x)
           /\ \A x \in Slots :
                /\ file_stat'[x].file_no = file_stat[x].file_no
                /\ file_stat'[x].fd = file_stat[x].fd
                /\ file_stat'[x].crc = file_stat[x].crc
                /\ file_stat'[x].block_offset = file_stat[x].block_offset
                /\ file_stat'[x].block_total = file_stat[x].block_total
<1>1. file_stat[s] \in FileStat
  OBVIOUS
<1>2. /\ file_stat'[s] = [file_stat[s] EXCEPT !.state = st]
      /\ \A x \in Slots \ {s} : file_stat'[x] = file_stat[x]
  OBVIOUS
<1> QED
  BY <1>1, <1>2 DEF FileStat, State

LEMMA AttachAccounts ==
    ASSUME IInv, IInv', AInv, NEW w \in Workers, Attach(w)
    PROVE  AInv'
<1>1. /\ worker \in [Workers -> WorkerState] /\ worker[w] \in WorkerState
      /\ file_stat \in [Slots -> FileStat]
      /\ UNCHANGED <<file_head, GLOBAL_FINO, descr, opener, sent, completions>>
      /\ worker[w].pc = "attach" /\ worker[w].j \in Slots /\ FS_IO \in worker[w].lcl.state
  BY DEF IInv, TypeOK, Attach, SlotInv, LocalInv, LocalsOK
<1>j. PICK j \in Slots : j = worker[w].j
  BY <1>1
<1>2. CASE State(j) = worker[w].lcl.state
  <2>1. /\ file_stat' = [file_stat EXCEPT ![j].state = @ \cup {w}]
        /\ worker' = [worker EXCEPT ![w].fs = j, ![w].pc = "fetch"]
        /\ stale' = (stale \/ file_stat[j].file_no # worker[w].lcl.file_no)
    BY <1>2, <1>j DEF Attach, State
  <2>2. /\ \A u \in Workers : u # w => worker'[u] = worker[u]
        /\ worker'[w].fs = j /\ worker'[w].pc = "fetch" /\ worker'[w].lcl = worker[w].lcl
    BY <1>1, <2>1 DEF WorkerState
  <2> DEFINE st == State(j) \cup {w}
  <2>3. file_stat' = [file_stat EXCEPT ![j].state = st]
    BY <2>1 DEF State
  <2>4. FS_IO \in State(j) /\ FS_IO \in st
    BY <1>1, <1>2
  <2> HIDE DEF st
  <2>5. /\ State(j)' = st /\ \A x \in Slots \ {j} : State(x)' = State(x)
        /\ \A x \in Slots :
              /\ file_stat'[x].file_no = file_stat[x].file_no
              /\ file_stat'[x].fd = file_stat[x].fd
              /\ file_stat'[x].crc = file_stat[x].crc
              /\ file_stat'[x].block_offset = file_stat[x].block_offset
              /\ file_stat'[x].block_total = file_stat[x].block_total
    BY <1>1, <2>3, WordOnly
  <2>6. /\ Live(j) /\ Live(j)' /\ State(j) # FS_INIT /\ State(j) # {FS_COMPLETE}
        /\ \A x \in Slots : Live(x)' <=> Live(x)
    BY <2>4, <2>5, Markers DEF Live
  <2>7. NumInv'
    <3>1. \A x \in Slots : State(x) = FS_INIT => State(x)' = FS_INIT
      BY <2>5, <2>6
    <3> QED
      BY <1>1, <2>2, <2>5, <2>6, <3>1, NumQuiet DEF AInv
  <2>8. ASSUME ~stale' PROVE FileInv'
    <3>1. ~stale /\ FileInv /\ file_stat[j].file_no = worker[w].lcl.file_no
      BY <2>1, <2>8 DEF AInv
    <3>2. worker[w].lcl.fd = file_stat[j].fd
      BY <1>1, <2>6, <3>1 DEF AInv, NumInv, CopyInv
    <3>3. ~Closed(j)
      BY <2>6, Counters DEF Closed, IInv, SlotInv, LeavingInv
    <3>4. UNCHANGED hist
      BY <1>1, <2>8, <3>1 DEF hist, IInv, TypeOK
    <3>5. worker[w].pc \notin Attached \cup Leaving /\ worker'[w].pc \in {"publish", "fetch"}
      BY <1>1, <2>2 DEF Attached, Leaving
    <3> QED
      BY <1>1, <2>2, <2>5, <2>6, <3>1, <3>2, <3>3, <3>4, <3>5, EnterFiles
  <2> QED
    BY <2>7, <2>8 DEF AInv
<1>3. CASE State(j) # worker[w].lcl.state
  <2>1. /\ worker' = [worker EXCEPT ![w].i = @ + 1, ![w].pc = "scan"]
        /\ UNCHANGED <<file_stat, stale>>
    BY <1>3, <1>j DEF Attach, State
  <2>2. /\ \A u \in Workers : u # w => worker'[u] = worker[u]
        /\ worker'[w].pc = "scan"
    BY <1>1, <2>1 DEF WorkerState
  <2>3. /\ worker[w].pc \notin Attached \cup Leaving \cup {"claim"}
        /\ worker'[w].pc \notin Attached \cup Leaving \cup {"find", "claim", "attach"}
    BY <1>1, <2>2 DEF Attached, Leaving
  <2> QED
    BY <1>1, <2>1, <2>2, <2>3, IdleAccounts DEF hist
<1> QED
  BY <1>2, <1>3

LEMMA ClaimAccounts ==
    ASSUME IInv, IInv', AInv, NEW w \in Workers, Claim(w)
    PROVE  AInv'
<1>1. /\ worker \in [Workers -> WorkerState] /\ worker[w] \in WorkerState
      /\ file_stat \in [Slots -> FileStat]
      /\ UNCHANGED <<file_head, GLOBAL_FINO, descr, opener, hist>>
      /\ worker[w].pc = "claim" /\ worker[w].j \in Slots
  BY DEF IInv, TypeOK, Claim, SlotInv, LocalInv, LocalsOK
<1>j. PICK j \in Slots : j = worker[w].j
  BY <1>1
<1> DEFINE st == {FS_COMPLETE, FS_IO, w}
<1>2. /\ file_stat' = [file_stat EXCEPT ![j].state = st] /\ State(j) = FS_INIT
      /\ worker' = [worker EXCEPT ![w].fs = j, ![w].pc = "publish"]
  BY <1>j DEF Claim, State
<1>3. FS_IO \in st
  OBVIOUS
<1> HIDE DEF st
<1>4. /\ \A u \in Workers : u # w => worker'[u] = worker[u]
      /\ worker'[w].fs = j /\ worker'[w].pc = "publish" /\ worker'[w].lcl = worker[w].lcl
  BY <1>1, <1>2 DEF WorkerState
<1>5. /\ State(j)' = st /\ \A x \in Slots \ {j} : State(x)' = State(x)
      /\ \A x \in Slots :
            /\ file_stat'[x].file_no = file_stat[x].file_no
            /\ file_stat'[x].fd = file_stat[x].fd
            /\ file_stat'[x].crc = file_stat[x].crc
            /\ file_stat'[x].block_offset = file_stat[x].block_offset
            /\ file_stat'[x].block_total = file_stat[x].block_total
  BY <1>1, <1>2, WordOnly
<1>6. Live(j) /\ Live(j)' /\ \A x \in Slots : Live(x)' <=> Live(x)
  BY <1>2, <1>3, <1>5, Markers DEF Live
<1>7. NumInv'
  <2>1. \A x \in Slots : State(x) = FS_INIT =>
           State(x)' = FS_INIT \/ (worker[w].pc = "claim" /\ worker[w].j = x)
    BY <1>1, <1>5, <1>j
  <2> QED
    BY <1>1, <1>4, <1>5, <1>6, <2>1, NumQuiet DEF AInv, hist
<1>8. ASSUME ~stale' PROVE FileInv'
  <2>1. FileInv
    BY <1>1, <1>8 DEF AInv, hist
  <2>2. worker[w].lcl.file_no = file_stat[j].file_no /\ worker[w].lcl.fd = file_stat[j].fd
    BY <1>1, <1>j DEF AInv, NumInv, ClaimInv
  <2>3. ~Closed(j)
    BY <1>2, Markers, Counters DEF Closed, IInv, SlotInv, LeavingInv
  <2>4. worker[w].pc \notin Attached \cup Leaving /\ worker'[w].pc \in {"publish", "fetch"}
    BY <1>1, <1>4 DEF Attached, Leaving
  <2> QED
    BY <1>1, <1>4, <1>5, <1>6, <2>1, <2>2, <2>3, <2>4, EnterFiles
<1> QED
  BY <1>7, <1>8 DEF AInv

-----------------------------------------------------------------------------
(* Working on a file.                                                      *)

\* A step in which worker w works on its slot s and changes no more than the
\* counters and the checksum of the slot.
Works(w, s) ==
    /\ s \in Slots /\ worker[w].fs = s /\ worker'[w].fs = s
    /\ worker'[w].lcl = worker[w].lcl
    /\ worker[w].pc \in Attached /\ worker'[w].pc \in Attached
    /\ \A u \in Workers : u # w => worker'[u] = worker[u]
    /\ \A x \in Slots : x # s => file_stat'[x] = file_stat[x]
    /\ file_stat'[s].state = file_stat[s].state
    /\ file_stat'[s].file_no = file_stat[s].file_no
    /\ file_stat'[s].fd = file_stat[s].fd
    /\ sent \subseteq sent'
    /\ UNCHANGED <<file_head, opener, GLOBAL_FINO, descr, completions, stale>>

LEMMA WorkFiles ==
    ASSUME IInv, IInv', AInv, NEW w \in Workers, NEW s, Works(w, s)
    PROVE  /\ NumInv'
           /\ FileInv => /\ SameFileInv' /\ OpenInv' /\ CompletionExact'
                         /\ \A x \in Slots : (x # s /\ Live(x)) => AccountOK(x)'
<1> USE DEF Works
<1>1. \A x \in Slots : /\ State(x)' = State(x) /\ (Live(x)' <=> Live(x))
                       /\ file_stat'[x].file_no = file_stat[x].file_no
                       /\ file_stat'[x].fd = file_stat[x].fd
  BY DEF State, Live
<1>2. /\ worker'[w].pc \notin {"find", "claim", "attach", "push", "wipe"}
      /\ worker[w].pc \notin {"find", "claim", "attach", "push", "wipe"}
      /\ worker[w].pc \notin Leaving /\ worker'[w].pc \notin Leaving
  BY DEF Attached, Leaving
<1>3. NumInv'
  BY <1>1, <1>2, NumQuiet DEF AInv
<1>4. ASSUME FileInv
      PROVE  /\ SameFileInv' /\ OpenInv' /\ CompletionExact'
             /\ \A x \in Slots : (x # s /\ Live(x)) => AccountOK(x)'
  <2> USE <1>4 DEF FileInv
  <2>a. \A u \in Workers : worker[u].pc \in Attached \cup Leaving => worker[u].fs \in Slots
    BY WorksOnLive
  <2>1. SameFileInv'
    <3>1. \A u \in Workers : (u # w /\ worker'[u].pc \in Attached \cup Leaving) =>
             /\ worker'[u].lcl.file_no = file_stat'[worker'[u].fs].file_no
             /\ worker'[u].lcl.fd = file_stat'[worker'[u].fs].fd
      BY <1>1, <2>a DEF SameFileInv
    <3>2. /\ worker'[w].lcl.file_no = file_stat'[worker'[w].fs].file_no
          /\ worker'[w].lcl.fd = file_stat'[worker'[w].fs].fd
      BY DEF SameFileInv
    <3> QED
      BY <3>1, <3>2 DEF SameFileInv
  <2>2. OpenInv'
    <3>1. \A x \in Slots : Closed(x)' <=> Closed(x)
      BY <1>2 DEF Closed
    <3>2. \A o \in Openers : Holds(o)' <=> Holds(o)
      BY DEF Holds
    <3> QED
      BY <1>1, <3>1, <3>2 DEF OpenInv
  <2>3. CompletionExact'
    BY DEF CompletionExact
  <2>4. ASSUME NEW x \in Slots, x # s, Live(x) PROVE AccountOK(x)'
    <3>1. AccountOK(x) /\ Blocks[file_stat[x].file_no] \in Nat
      BY <2>4, TableAssumption DEF AccountInv, IInv, SlotInv, RecordInv, Live
    <3>2. \A u \in Workers : \/ worker'[u] = worker[u]
                             \/ worker[u].fs # x /\ worker'[u].fs # x
      BY <2>4
    <3>3. file_stat'[x] = file_stat[x]
      BY <2>4
    <3> QED
      BY <3>1, <3>2, <3>3, AccountSame
  <2> QED
    BY <2>1, <2>2, <2>3, <2>4
<1> QED
  BY <1>3, <1>4

\* Such a step is right if the offsets and the account of slot s stay so.
LEMMA WorkAccounts ==
    ASSUME IInv, IInv', AInv, NEW w \in Workers, NEW s, Works(w, s),
           FileInv => OffsetInv' /\ AccountOK(s)'
    PROVE  AInv'
<1>1. \A x \in Slots : Live(x)' <=> Live(x)
  BY DEF Works, State, Live
<1>2. s \in Slots /\ stale' = stale
  BY DEF Works
<1>3. NumInv'
  BY WorkFiles
<1>4. ASSUME ~stale' PROVE FileInv'
  <2>1. FileInv
    BY <1>2, <1>4 DEF AInv
  <2>2. AccountInv'
    BY <1>1, <1>2, <2>1, WorkFiles DEF AccountInv
  <2> QED
    BY <2>1, <2>2, WorkFiles DEF FileInv
<1> QED
  BY <1>3, <1>4 DEF AInv

\* The offsets, when worker w moves on with record r and slot s has handed out
\* b blocks.
LEMMA WorkOffsets ==
    ASSUME IInv, IInv', FileInv, NEW w \in Workers, NEW s, Works(w, s),
           file_stat[s].block_offset <= file_stat'[s].block_offset,
           OffsetsOK(worker'[w], file_stat'[s].block_offset),
           \/ worker'[w].pc \notin InHand
           \/ worker[w].pc \in InHand /\ worker'[w].off = worker[w].off
           \/ worker'[w].off = file_stat[s].block_offset
    PROVE  OffsetInv'
<1> USE DEF Works, FileInv
<1>a. \A u \in Workers : worker[u].pc \in Attached \cup Leaving => worker[u].fs \in Slots
  BY WorksOnLive
<1>b. /\ file_stat[s].block_offset \in Nat /\ file_stat'[s].block_offset \in Nat
      /\ \A u \in Workers : worker[u].off \in Nat
      /\ \A f \in FileNos : Blocks[f] \in Nat
  BY TableAssumption DEF IInv, TypeOK, FileStat, WorkerState
<1>c. \A u \in Workers : worker[u].pc \in InHand => worker[u].pc \in Attached \cup Leaving
  BY Counters
<1>1. ASSUME NEW u \in Workers, worker'[u].pc \in Attached \cup Leaving
      PROVE  OffsetsOK(worker'[u], file_stat'[worker'[u].fs].block_offset)
  <2>1. CASE u = w
    BY <2>1
  <2>2. CASE u # w /\ worker[u].fs # s
    BY <1>a, <1>1, <2>2 DEF OffsetInv
  <2>3. CASE u # w /\ worker[u].fs = s
    <3>1. worker'[u] = worker[u] /\ worker[u].pc \in Attached \cup Leaving
      BY <1>1, <2>3
    <3>2. OffsetsOK(worker[u], file_stat[s].block_offset)
      BY <2>3, <3>1 DEF OffsetInv
    <3>3. worker[u].lcl.file_no \in FileNos
      BY <3>1 DEF IInv, SlotInv, LocalInv, LocalsOK
    <3>4. PICK b \in Nat : b = file_stat'[s].block_offset
      BY <1>b
    <3>5. OffsetsOK(worker[u], b)
      BY <1>b, <3>2, <3>3, <3>4 DEF OffsetsOK
    <3> QED
      BY <2>3, <3>1, <3>4, <3>5
  <2> QED
    BY <2>1, <2>2, <2>3
<1>2. ASSUME NEW u \in Workers, NEW v \in Workers, u # v,
             worker'[u].pc \in InHand, worker'[v].pc \in InHand,
             worker'[u].fs = worker'[v].fs, worker'[u].off = worker'[v].off
      PROVE  FALSE
  <2>1. CASE u # w /\ v # w
    BY <1>2, <2>1 DEF OffsetInv
  <2>2. ASSUME NEW y \in Workers, y # w, worker'[y].pc \in InHand, worker'[y].fs = s,
               worker'[y].off = worker'[w].off, worker'[w].pc \in InHand
        PROVE  FALSE
    <3>1. worker'[y] = worker[y] /\ worker[y].pc \in InHand /\ worker[y].fs = s
      BY <2>2
    <3>2. worker[y].off < file_stat[s].block_offset
      BY <1>c, <3>1 DEF OffsetInv, OffsetsOK
    <3>3. worker'[w].off # file_stat[s].block_offset
      BY <1>b, <2>2, <3>1, <3>2
    <3> QED
      BY <2>2, <3>1, <3>3 DEF OffsetInv
  <2>3. CASE u = w
    BY <1>2, <2>2, <2>3
  <2>4. CASE v = w
    BY <1>2, <2>2, <2>4
  <2> QED
    BY <2>1, <2>3, <2>4
<1> QED
  BY <1>1, <1>2 DEF OffsetInv

LEMMA UncountedFinite ==
    ASSUME NEW s, NEW n
    PROVE  /\ IsFiniteSet(Uncounted(s, n)) /\ Cardinality(Uncounted(s, n)) \in Nat
           /\ Uncounted(s, n) \subseteq Workers
<1>1. IsFiniteSet(Workers)
  <2>1. 0 \in Int /\ NWorkers - 1 \in Int
    BY TableAssumption
  <2> QED
    BY <2>1, FS_Interval DEF Workers
<1>2. Uncounted(s, n) \subseteq Workers
  BY DEF Uncounted
<1> QED
  BY <1>1, <1>2, FS_Subset, FS_CardinalityType

\* What a worker that is at work on its slot knows of the record.
LEMMA AtWork ==
    ASSUME IInv, NEW w \in Workers, worker[w].pc \in Attached
    PROVE  /\ worker[w].fs \in Slots /\ Live(worker[w].fs) /\ ~Closed(worker[w].fs)
           /\ worker \in [Workers -> WorkerState] /\ worker[w] \in WorkerState
           /\ worker[w].off \in Nat
           /\ file_stat \in [Slots -> FileStat] /\ file_stat[worker[w].fs] \in FileStat
           /\ file_stat[worker[w].fs].block_offset \in Nat
           /\ file_stat[worker[w].fs].block_total \in Nat
           /\ file_stat[worker[w].fs].file_no \in FileNos
           /\ Blocks[file_stat[worker[w].fs].file_no] \in Nat
<1>1. /\ worker[w].fs \in Slots /\ Live(worker[w].fs)
      /\ file_stat[worker[w].fs].file_no \in FileNos
  BY WorksOnLive
<1>2. ~Closed(worker[w].fs)
  <2>1. ASSUME NEW v \in Workers, worker[v].pc \in {"push", "wipe"},
               worker[v].fs = worker[w].fs
        PROVE  FALSE
    <3>1. worker[v].pc \in Leaving /\ v # w
      BY <2>1, Counters
    <3> QED
      BY <2>1, <3>1, LeavesAlone
  <2> QED
    BY <2>1 DEF Closed
<1> QED
  BY <1>1, <1>2, TableAssumption DEF IInv, TypeOK, WorkerState, FileStat

LEMMA PublishAccounts ==
    ASSUME IInv, IInv', AInv, NEW w \in Workers, Publish(w)
    PROVE  AInv'
<1>0. worker[w].pc = "publish" /\ worker[w].pc \in Attached
  BY DEF Publish, Attached
<1>s. PICK s \in Slots : s = worker[w].fs
  BY <1>0, AtWork
<1>1. /\ worker' = [worker EXCEPT ![w].pc = "fetch"]
      /\ UNCHANGED <<file_stat, file_head, opener, GLOBAL_FINO, descr, hist>>
  BY DEF Publish, Goto
<1>2. /\ \A u \in Workers : u # w => worker'[u] = worker[u]
      /\ worker'[w].pc = "fetch" /\ worker'[w].fs = worker[w].fs
      /\ worker'[w].lcl = worker[w].lcl
  BY <1>0, <1>1, AtWork DEF WorkerState
<1>3. Works(w, s)
  BY <1>0, <1>s, <1>1, <1>2 DEF Works, Attached, hist
<1>4. ASSUME FileInv PROVE OffsetInv' /\ AccountOK(s)'
  <2>1. file_stat[s].block_offset <= file_stat'[s].block_offset
    BY <1>0, <1>1, <1>s, AtWork
  <2>2. worker'[w].pc \notin InHand /\ worker[w].pc \notin InHand
    BY <1>0, <1>2 DEF InHand
  <2>3. OffsetsOK(worker'[w], file_stat'[s].block_offset)
    BY <1>2 DEF OffsetsOK, InHand, Leaving
  <2>4. OffsetInv'
    BY <1>3, <1>4, <2>1, <2>2, <2>3, WorkOffsets
  <2>5. AccountOK(s) /\ Blocks[file_stat[s].file_no] \in Nat
    BY <1>0, <1>4, <1>s, AtWork DEF FileInv, AccountInv
  <2>6. \A u \in Workers : \/ worker'[u] = worker[u]
                           \/ worker[u].pc \notin InHand /\ worker'[u].pc \notin InHand
    BY <1>2, <2>2
  <2>7. AccountOK(s)'
    BY <1>1, <2>5, <2>6, AccountSame DEF hist
  <2> QED
    BY <2>4, <2>7
<1> QED
  BY <1>3, <1>4, WorkAccounts

\* pread finds the file whose number the block is sent under.
LEMMA ReadsItsFile ==
    ASSUME IInv, FileInv, NEW w \in Workers, worker[w].pc \in Attached
    PROVE  /\ descr[worker[w].lcl.fd] = worker[w].lcl.file_no
           /\ worker[w].lcl.file_no = file_stat[worker[w].fs].file_no
           /\ worker[w].lcl.file_no \in FileNos /\ worker[w].lcl.file_no # NoFile
<1>1. /\ worker[w].lcl.file_no = file_stat[worker[w].fs].file_no
      /\ worker[w].lcl.fd = file_stat[worker[w].fs].fd
  BY DEF FileInv, SameFileInv
<1>2. /\ worker[w].fs \in Slots /\ Live(worker[w].fs) /\ ~Closed(worker[w].fs)
      /\ file_stat[worker[w].fs].file_no \in FileNos
  BY AtWork
<1>3. descr[file_stat[worker[w].fs].fd] = file_stat[worker[w].fs].file_no
  BY <1>2 DEF FileInv, OpenInv
<1> QED
  BY <1>1, <1>2, <1>3, TableAssumption DEF FileNos, NoFile

LEMMA ReadAccounts ==
    ASSUME IInv, IInv', AInv, NEW w \in Workers, ReadBlock(w)
    PROVE  AInv'
<1>0. worker[w].pc = "read" /\ worker[w].pc \in Attached
  BY DEF ReadBlock, Attached
<1>s. PICK s \in Slots : s = worker[w].fs
  BY <1>0, AtWork
<1> DEFINE f == descr[worker[w].lcl.fd]
           p == IF f = NoFile THEN "aborted"
                ELSE IF worker[w].off < Blocks[f] THEN "send" ELSE "remove"
<1>1. /\ worker' = [worker EXCEPT ![w].from = f, ![w].pc = p]
      /\ UNCHANGED <<file_stat, file_head, opener, GLOBAL_FINO, descr, hist>>
  BY DEF ReadBlock, table
<1>2. /\ \A u \in Workers : u # w => worker'[u] = worker[u]
      /\ worker'[w].pc = p /\ worker'[w].fs = worker[w].fs /\ worker'[w].from = f
      /\ worker'[w].lcl = worker[w].lcl /\ worker'[w].off = worker[w].off
  <2> HIDE DEF f, p
  <2> QED
    BY <1>0, <1>1, AtWork DEF WorkerState
<1>3. Works(w, s)
  BY <1>0, <1>s, <1>1, <1>2 DEF Works, Attached, hist
<1>4. ASSUME FileInv PROVE OffsetInv' /\ AccountOK(s)'
  <2>a. /\ f = worker[w].lcl.file_no /\ f = file_stat[s].file_no /\ f \in FileNos
        /\ f # NoFile
    BY <1>0, <1>4, <1>s, ReadsItsFile
  <2>b. /\ Blocks[f] \in Nat /\ worker[w].off \in Nat
        /\ file_stat[s].block_offset \in Nat
    BY <1>0, <1>s, <2>a, AtWork
  <2>1. file_stat[s].block_offset <= file_stat'[s].block_offset
    BY <1>1, <2>b
  <2>c. worker[w].off < file_stat[s].block_offset
    BY <1>0, <1>4, <1>s DEF FileInv, OffsetInv, OffsetsOK, InHand
  <2>2. CASE worker[w].off < Blocks[f]
    <3>1. worker'[w].pc = "send"
      BY <1>2, <2>2, <2>a
    <3>2. OffsetsOK(worker'[w], file_stat'[s].block_offset)
      BY <1>1, <1>2, <2>2, <2>a, <2>c, <3>1 DEF OffsetsOK, InHand, Leaving
    <3>3. worker[w].pc \in InHand /\ worker'[w].pc \in InHand
      BY <1>0, <3>1 DEF InHand
    <3>4. OffsetInv'
      BY <1>2, <1>3, <1>4, <2>1, <3>2, <3>3, WorkOffsets
    <3>5. AccountOK(s) /\ Blocks[file_stat[s].file_no] \in Nat
      BY <1>0, <1>4, <1>s, AtWork DEF FileInv, AccountInv
    <3>6. AccountOK(s)'
      BY <1>0, <1>1, <1>2, <3>1, <3>3, <3>5, AccountSame DEF hist
    <3> QED
      BY <3>4, <3>6
  <2>3. CASE ~(worker[w].off < Blocks[f])
    <3>1. worker'[w].pc = "remove" /\ Blocks[f] <= worker[w].off
      BY <1>2, <2>3, <2>a, <2>b
    <3>2. OffsetsOK(worker'[w], file_stat'[s].block_offset)
      BY <1>1, <1>2, <2>a, <2>c, <3>1 DEF OffsetsOK, InHand, Leaving
    <3>3. worker'[w].pc \notin InHand
      BY <3>1 DEF InHand
    <3>4. OffsetInv'
      BY <1>2, <1>3, <1>4, <2>1, <3>2, <3>3, WorkOffsets
    <3>5. AccountOK(s) /\ Blocks[file_stat[s].file_no] \in Nat
      BY <1>0, <1>4, <1>s, AtWork DEF FileInv, AccountInv
    <3>6. AccountOK(s)'
      BY <1>0, <1>1, <1>2, <2>3, <2>a, <3>3, <3>5, AccountSame DEF hist
    <3> QED
      BY <3>4, <3>6
  <2> QED
    BY <2>2, <2>3
<1> QED
  BY <1>3, <1>4, WorkAccounts

\* One block is handed out.
LEMMA FetchAccounts ==
    ASSUME IInv, IInv', AInv, NEW w \in Workers, FetchBlock(w)
    PROVE  AInv'
<1>0. worker[w].pc = "fetch" /\ worker[w].pc \in Attached
  BY DEF FetchBlock, Attached
<1>s. PICK s \in Slots : s = worker[w].fs
  BY <1>0, AtWork
<1>b. PICK b \in Nat : b = file_stat[s].block_offset
  BY <1>0, <1>s, AtWork
<1>c. PICK c \in Nat : c = b + 1
  OBVIOUS
<1>d. b < c /\ b <= c /\ \A k \in Nat : k < c <=> k < b \/ k = b
  BY <1>c
<1>1. /\ worker' = [worker EXCEPT ![w].off = b, ![w].pc = "read"]
      /\ file_stat' = [file_stat EXCEPT ![s].block_offset = c]
      /\ UNCHANGED <<file_head, opener, GLOBAL_FINO, descr, hist>>
  BY <1>s, <1>b, <1>c DEF FetchBlock
<1>2. /\ \A u \in Workers : u # w => worker'[u] = worker[u]
      /\ worker'[w].pc = "read" /\ worker'[w].fs = worker[w].fs
      /\ worker'[w].lcl = worker[w].lcl /\ worker'[w].off = b
  BY <1>0, <1>1, AtWork DEF WorkerState
<1>3. /\ \A x \in Slots : x # s => file_stat'[x] = file_stat[x]
      /\ file_stat'[s].block_offset = c /\ file_stat'[s].state = file_stat[s].state
      /\ file_stat'[s].file_no = file_stat[s].file_no /\ file_stat'[s].fd = file_stat[s].fd
      /\ file_stat'[s].crc = file_stat[s].crc
      /\ file_stat'[s].block_total = file_stat[s].block_total
  BY <1>0, <1>1, <1>s, AtWork DEF FileStat
<1>4. Works(w, s)
  BY <1>0, <1>s, <1>1, <1>2, <1>3 DEF Works, Attached, hist
<1>5. ASSUME FileInv PROVE OffsetInv' /\ AccountOK(s)'
  <2>1. OffsetInv'
    <3>1. file_stat[s].block_offset <= file_stat'[s].block_offset
      BY <1>b, <1>d, <1>3
    <3>2. OffsetsOK(worker'[w], file_stat'[s].block_offset)
      BY <1>d, <1>2, <1>3 DEF OffsetsOK, InHand, Leaving
    <3> QED
      BY <1>b, <1>2, <1>4, <1>5, <3>1, <3>2, WorkOffsets
  <2>2. PICK f \in FileNos, n \in Nat : f = file_stat[s].file_no /\ n = Blocks[f]
    BY <1>0, <1>s, AtWork
  <2>3. /\ file_stat[s].crc = {<<f, k>> : k \in {k \in 0 .. n - 1 : k < b /\ ~Unhashed(s, k)}}
        /\ \A x \in file_stat[s].crc : [file_no |-> f, block |-> x] \in sent
        /\ file_stat[s].block_total + Cardinality(Uncounted(s, n)) = Least(b, n)
    BY <1>0, <1>b, <1>s, <1>5, <2>2, AtWork DEF FileInv, AccountInv, AccountOK
  <2>4. \A k \in Nat : Unhashed(s, k)' <=> Unhashed(s, k) \/ k = b
    BY <1>0, <1>2, <1>s DEF Unhashed
  <2>5. {k \in 0 .. n - 1 : k < b /\ ~Unhashed(s, k)}
          = {k \in 0 .. n - 1 : k < c /\ ~Unhashed(s, k)'}
    <3>1. ASSUME NEW k \in 0 .. n - 1
          PROVE  (k < b /\ ~Unhashed(s, k)) <=> (k < c /\ ~Unhashed(s, k)')
      <4>1. k \in Nat
        OBVIOUS
      <4>2. k < b => k # b
        BY <4>1
      <4> QED
        BY <1>d, <2>4, <4>1, <4>2
    <3> QED
      BY <3>1
  <2>6. file_stat'[s].block_total + Cardinality(Uncounted(s, n)') = Least(c, n)
    <3>1. PICK t \in Nat, q \in Nat :
             t = file_stat[s].block_total /\ q = Cardinality(Uncounted(s, n))
      BY <1>0, <1>s, AtWork, UncountedFinite
    <3>2. t + q = Least(b, n)
      BY <2>3, <3>1
    <3>3. CASE b < n
      <4>1. Uncounted(s, n)' = Uncounted(s, n) \cup {w} /\ w \notin Uncounted(s, n)
        BY <1>0, <1>2, <1>s, <3>3 DEF Uncounted, InHand
      <4>2. Cardinality(Uncounted(s, n)') = q + 1
        BY <3>1, <4>1, UncountedFinite, FS_AddElement
      <4>3. t + (q + 1) = Least(c, n)
        BY <1>c, <3>2, <3>3 DEF Least
      <4> QED
        BY <1>3, <3>1, <4>2, <4>3
    <3>4. CASE ~(b < n)
      <4>1. Uncounted(s, n)' = Uncounted(s, n)
        BY <1>0, <1>2, <1>s, <3>4 DEF Uncounted, InHand
      <4>2. t + q = Least(c, n)
        BY <1>c, <3>2, <3>4 DEF Least
      <4> QED
        BY <1>3, <3>1, <4>1, <4>2
    <3> QED
      BY <3>3, <3>4
  <2>7. AccountOK(s)'
    BY <1>1, <1>3, <2>2, <2>3, <2>5, <2>6 DEF AccountOK, hist
  <2> QED
    BY <2>1, <2>7
<1> QED
  BY <1>4, <1>5, WorkAccounts

\* A block is hashed and sent.
LEMMA SendAccounts ==
    ASSUME IInv, IInv', AInv, NEW w \in Workers, SendBlock(w)
    PROVE  AInv'
<1>0. worker[w].pc = "send" /\ worker[w].pc \in Attached
  BY DEF SendBlock, Attached
<1>s. PICK s \in Slots : s = worker[w].fs
  BY <1>0, AtWork
<1>b. PICK b \in BlockIds : b = <<worker[w].from, worker[w].off>>
  BY <1>0, AtWork DEF IInv, SlotInv, LocalInv, LocalsOK, BlockIds
<1>c. PICK c \in SUBSET BlockIds : c = Xor(file_stat[s].crc, b)
  BY <1>0, <1>s, AtWork DEF Xor, FileStat
<1>1. /\ worker' = [worker EXCEPT ![w].pc = "tally"]
      /\ file_stat' = [file_stat EXCEPT ![s].crc = c]
      /\ sent' = sent \cup {[file_no |-> worker[w].lcl.file_no, block |-> b]}
      /\ UNCHANGED <<file_head, opener, GLOBAL_FINO, descr, completions, stale>>
  BY <1>s, <1>b, <1>c DEF SendBlock, Goto
<1>2. /\ \A u \in Workers : u # w => worker'[u] = worker[u]
      /\ worker'[w].pc = "tally" /\ worker'[w].fs = worker[w].fs
      /\ worker'[w].lcl = worker[w].lcl /\ worker'[w].off = worker[w].off
      /\ worker'[w].from = worker[w].from
  BY <1>0, <1>1, AtWork DEF WorkerState
<1>3. /\ \A x \in Slots : x # s => file_stat'[x] = file_stat[x]
      /\ file_stat'[s].crc = c /\ file_stat'[s].state = file_stat[s].state
      /\ file_stat'[s].file_no = file_stat[s].file_no /\ file_stat'[s].fd = file_stat[s].fd
      /\ file_stat'[s].block_offset = file_stat[s].block_offset
      /\ file_stat'[s].block_total = file_stat[s].block_total
  BY <1>0, <1>1, <1>s, AtWork DEF FileStat
<1>4. Works(w, s)
  BY <1>0, <1>s, <1>1, <1>2, <1>3 DEF Works, Attached
<1>5. ASSUME FileInv PROVE OffsetInv' /\ AccountOK(s)'
  <2>0. worker[w].pc \in InHand /\ worker'[w].pc \in InHand
    BY <1>0, <1>2 DEF InHand
  <2>1. OffsetInv'
    <3>1. file_stat[s].block_offset <= file_stat'[s].block_offset
      BY <1>0, <1>s, <1>3, AtWork
    <3>2. OffsetsOK(worker[w], file_stat[s].block_offset)
      BY <1>0, <1>s, <1>5 DEF FileInv, OffsetInv
    <3>3. OffsetsOK(worker'[w], file_stat'[s].block_offset)
      BY <1>0, <1>2, <1>3, <3>2 DEF OffsetsOK, InHand, Leaving
    <3> QED
      BY <1>2, <1>4, <1>5, <2>0, <3>1, <3>3, WorkOffsets
  <2>2. PICK f \in FileNos, n \in Nat, o \in Nat, h \in Nat :
           /\ f = file_stat[s].file_no /\ n = Blocks[f] /\ o = worker[w].off
           /\ h = file_stat[s].block_offset
    BY <1>0, <1>s, AtWork
  <2>3. /\ file_stat[s].crc = {<<f, k>> : k \in {k \in 0 .. n - 1 : k < h /\ ~Unhashed(s, k)}}
        /\ \A x \in file_stat[s].crc : [file_no |-> f, block |-> x] \in sent
        /\ file_stat[s].block_total + Cardinality(Uncounted(s, n)) = Least(h, n)
    BY <1>0, <1>s, <1>5, <2>2, AtWork DEF FileInv, AccountInv, AccountOK
  <2>4. worker[w].lcl.file_no = f /\ worker[w].from = f /\ o < n /\ o < h
    <3>1. worker[w].lcl.file_no = f
      BY <1>0, <1>5, <1>s, <2>2, ReadsItsFile
    <3>2. OffsetsOK(worker[w], h)
      BY <1>0, <1>s, <1>5, <2>2 DEF FileInv, OffsetInv
    <3> QED
      BY <1>0, <2>2, <3>1, <3>2 DEF OffsetsOK, InHand
  <2>5. b = <<f, o>> /\ o \in 0 .. n - 1
    BY <1>b, <2>2, <2>4
  <2>6. /\ Unhashed(s, o) /\ ~Unhashed(s, o)'
        /\ \A k \in Nat : k # o => (Unhashed(s, k)' <=> Unhashed(s, k))
    <3>1. Unhashed(s, o)
      BY <1>0, <1>s, <2>2 DEF Unhashed
    <3>2. ASSUME NEW u \in Workers, worker'[u].pc \in {"read", "send"},
                 worker'[u].fs = s, worker'[u].off = o
          PROVE  FALSE
      <4>1. u # w /\ worker'[u] = worker[u] /\ worker[u].pc \in InHand
        BY <1>2, <3>2 DEF InHand
      <4> QED
        BY <1>s, <1>5, <2>0, <2>2, <3>2, <4>1 DEF FileInv, OffsetInv
    <3>3. ~Unhashed(s, o)'
      BY <3>2 DEF Unhashed
    <3>4. \A k \in Nat : k # o => (Unhashed(s, k)' <=> Unhashed(s, k))
      BY <1>2, <2>2 DEF Unhashed
    <3> QED
      BY <3>1, <3>3, <3>4
  <2>7. b \notin file_stat[s].crc
    BY <2>3, <2>5, <2>6
  <2>8. c = file_stat[s].crc \cup {b}
    BY <1>c, <2>7 DEF Xor
  <2>9. c = {<<f, k>> : k \in {k \in 0 .. n - 1 : k < h /\ ~Unhashed(s, k)'}}
    <3>1. {k \in 0 .. n - 1 : k < h /\ ~Unhashed(s, k)'}
             = {k \in 0 .. n - 1 : k < h /\ ~Unhashed(s, k)} \cup {o}
      <4>1. \A k \in 0 .. n - 1 : (k < h /\ ~Unhashed(s, k)')
                                     <=> ((k < h /\ ~Unhashed(s, k)) \/ k = o)
        BY <2>4, <2>5, <2>6
      <4> QED
        BY <2>5, <4>1
    <3> QED
      BY <2>3, <2>5, <2>8, <3>1
  <2>10. \A x \in c : [file_no |-> f, block |-> x] \in sent'
    BY <1>1, <2>3, <2>4, <2>8
  <2>11. Uncounted(s, n)' = Uncounted(s, n)
    BY <1>2, <2>0 DEF Uncounted
  <2>12. AccountOK(s)'
    BY <1>3, <2>2, <2>3, <2>9, <2>10, <2>11 DEF AccountOK
  <2> QED
    BY <2>1, <2>12
<1> QED
  BY <1>4, <1>5, WorkAccounts

\* A block that was sent is counted.
LEMMA CountAccounts ==
    ASSUME IInv, IInv', AInv, NEW w \in Workers, CountBlock(w)
    PROVE  AInv'
<1>0. worker[w].pc = "tally" /\ worker[w].pc \in Attached
  BY DEF CountBlock, Attached
<1>s. PICK s \in Slots : s = worker[w].fs
  BY <1>0, AtWork
<1>t. PICK t \in Nat : t = file_stat[s].block_total
  BY <1>0, <1>s, AtWork
<1>c. PICK c \in Nat : c = t + 1
  OBVIOUS
<1>1. /\ worker' = [worker EXCEPT ![w].pc = "fetch"]
      /\ file_stat' = [file_stat EXCEPT ![s].block_total = c]
      /\ UNCHANGED <<file_head, opener, GLOBAL_FINO, descr, hist>>
  BY <1>s, <1>t, <1>c DEF CountBlock, Goto
<1>2. /\ \A u \in Workers : u # w => worker'[u] = worker[u]
      /\ worker'[w].pc = "fetch" /\ worker'[w].fs = worker[w].fs
      /\ worker'[w].lcl = worker[w].lcl
  BY <1>0, <1>1, AtWork DEF WorkerState
<1>3. /\ \A x \in Slots : x # s => file_stat'[x] = file_stat[x]
      /\ file_stat'[s].block_total = c /\ file_stat'[s].state = file_stat[s].state
      /\ file_stat'[s].file_no = file_stat[s].file_no /\ file_stat'[s].fd = file_stat[s].fd
      /\ file_stat'[s].crc = file_stat[s].crc
      /\ file_stat'[s].block_offset = file_stat[s].block_offset
  BY <1>0, <1>1, <1>s, AtWork DEF FileStat
<1>4. Works(w, s)
  BY <1>0, <1>s, <1>1, <1>2, <1>3 DEF Works, Attached, hist
<1>5. ASSUME FileInv PROVE OffsetInv' /\ AccountOK(s)'
  <2>0. worker[w].pc \in InHand /\ worker'[w].pc \notin InHand
    BY <1>0, <1>2 DEF InHand
  <2>1. OffsetInv'
    <3>1. file_stat[s].block_offset <= file_stat'[s].block_offset
      BY <1>0, <1>s, <1>3, AtWork
    <3>2. OffsetsOK(worker'[w], file_stat'[s].block_offset)
      BY <1>2 DEF OffsetsOK, InHand, Leaving
    <3> QED
      BY <1>4, <1>5, <2>0, <3>1, <3>2, WorkOffsets
  <2>2. PICK f \in FileNos, n \in Nat : f = file_stat[s].file_no /\ n = Blocks[f]
    BY <1>0, <1>s, AtWork
  <2>3. AccountOK(s)
    BY <1>0, <1>s, <1>5, AtWork DEF FileInv, AccountInv
  <2>4. worker[w].off < n
    <3>1. worker[w].lcl.file_no = f
      BY <1>0, <1>5, <1>s, <2>2, ReadsItsFile
    <3>2. OffsetsOK(worker[w], file_stat[s].block_offset)
      BY <1>0, <1>s, <1>5 DEF FileInv, OffsetInv
    <3> QED
      BY <1>0, <2>2, <3>1, <3>2 DEF OffsetsOK
  <2>5. \A k : Unhashed(s, k)' <=> Unhashed(s, k)
    BY <1>0, <1>2 DEF Unhashed
  <2>6. Uncounted(s, n)' = Uncounted(s, n) \ {w} /\ w \in Uncounted(s, n)
    BY <1>2, <1>s, <2>0, <2>4 DEF Uncounted
  <2>7. Cardinality(Uncounted(s, n)') = Cardinality(Uncounted(s, n)) - 1
    BY <2>6, UncountedFinite, FS_RemoveElement
  <2>8. c + Cardinality(Uncounted(s, n)') = t + Cardinality(Uncounted(s, n))
    <3>1. PICK q \in Nat : q = Cardinality(Uncounted(s, n))
      BY UncountedFinite
    <3>2. c + (q - 1) = t + q
      BY <1>c
    <3> QED
      BY <2>7, <3>1, <3>2
  <2>9. AccountOK(s)'
    BY <1>1, <1>t, <1>3, <2>2, <2>3, <2>5, <2>8 DEF AccountOK, hist
  <2> QED
    BY <2>1, <2>9
<1> QED
  BY <1>4, <1>5, WorkAccounts

-----------------------------------------------------------------------------
(* Leaving a file.                                                         *)

\* A worker gives its bit back or wipes the slot.
LEMMA DepartFiles ==
    ASSUME IInv, IInv', FileInv, NEW w \in Workers, NEW s \in Slots,
           worker[w].fs = s, worker[w].pc \in {"remove", "wipe"},
           \A u \in Workers : u # w => worker'[u] = worker[u],
           \/ worker'[w].pc \notin Attached \cup Leaving
           \/ /\ worker[w].pc = "remove" /\ worker'[w].pc = "close" /\ worker'[w].fs = s
              /\ worker'[w].lcl = worker[w].lcl,
           \A x \in Slots : x # s => file_stat'[x] = file_stat[x],
           worker[w].pc = "wipe" => ~Live(s)',
           worker[w].pc = "remove" =>
              /\ Live(s)' => Live(s)
              /\ file_stat'[s].file_no = file_stat[s].file_no
              /\ file_stat'[s].fd = file_stat[s].fd
              /\ file_stat'[s].crc = file_stat[s].crc
              /\ file_stat'[s].block_offset = file_stat[s].block_offset
              /\ file_stat'[s].block_total = file_stat[s].block_total,
           UNCHANGED <<opener, descr, hist>>
    PROVE  FileInv'
<1> USE DEF FileInv, hist
<1>0. /\ worker[w].pc \notin InHand /\ worker'[w].pc \notin InHand
      /\ worker'[w].pc \notin {"push", "wipe"} /\ "close" \in Leaving
      /\ worker[w].pc \in Attached \cup Leaving
      /\ worker[w].pc = "wipe" => worker[w].pc \in Leaving
  BY Counters DEF InHand, Attached, Leaving
<1>a. \A u \in Workers : worker[u].pc \in Attached \cup Leaving => worker[u].fs \in Slots
  BY WorksOnLive
<1>1. \A x \in Slots : Live(x)' =>
         /\ Live(x) /\ ~(worker[w].pc = "wipe" /\ x = s)
         /\ file_stat'[x].file_no = file_stat[x].file_no
         /\ file_stat'[x].fd = file_stat[x].fd
         /\ file_stat'[x].crc = file_stat[x].crc
         /\ file_stat'[x].block_offset = file_stat[x].block_offset
         /\ file_stat'[x].block_total = file_stat[x].block_total
  BY DEF Live, State
<1>2. ASSUME NEW u \in Workers, u # w, worker'[u].pc \in Attached \cup Leaving
      PROVE  /\ worker'[u] = worker[u] /\ worker[u].fs \in Slots
             /\ file_stat'[worker[u].fs].file_no = file_stat[worker[u].fs].file_no
             /\ file_stat'[worker[u].fs].fd = file_stat[worker[u].fs].fd
             /\ file_stat'[worker[u].fs].block_offset = file_stat[worker[u].fs].block_offset
  <2>1. worker'[u] = worker[u] /\ worker[u].fs \in Slots
    BY <1>2, <1>a
  <2>2. CASE worker[u].fs # s
    BY <2>1, <2>2
  <2>3. CASE worker[u].fs = s
    BY <1>0, <1>2, <2>1, <2>3, LeavesAlone
  <2> QED
    BY <2>1, <2>2, <2>3
<1>3. SameFileInv'
  <2>1. \A u \in Workers : (u # w /\ worker'[u].pc \in Attached \cup Leaving) =>
           /\ worker'[u].lcl.file_no = file_stat'[worker'[u].fs].file_no
           /\ worker'[u].lcl.fd = file_stat'[worker'[u].fs].fd
    BY <1>2 DEF SameFileInv
  <2>2. worker'[w].pc \in Attached \cup Leaving =>
           /\ worker'[w].lcl.file_no = file_stat'[worker'[w].fs].file_no
           /\ worker'[w].lcl.fd = file_stat'[worker'[w].fs].fd
    BY <1>0 DEF SameFileInv
  <2> QED
    BY <2>1, <2>2 DEF SameFileInv
<1>4. OpenInv'
  <2>1. \A x \in Slots : (Live(x)' /\ ~Closed(x)') => ~Closed(x)
    BY <1>1 DEF Closed
  <2>2. \A o \in Openers : Holds(o)' <=> Holds(o)
    BY DEF Holds
  <2> QED
    BY <1>1, <2>1, <2>2 DEF OpenInv
<1>5. OffsetInv'
  <2>1. ASSUME worker'[w].pc \in Attached \cup Leaving
        PROVE  OffsetsOK(worker'[w], file_stat'[worker'[w].fs].block_offset)
    <3>1. /\ worker[w].pc = "remove" /\ worker'[w].pc = "close" /\ worker'[w].fs = s
          /\ worker'[w].lcl = worker[w].lcl /\ worker[w].pc \in Attached
      BY <2>1, Counters
    <3>2. PICK b \in Nat, n \in Nat, k \in Nat :
             /\ b = file_stat[s].block_offset /\ n = Blocks[worker[w].lcl.file_no]
             /\ k = worker[w].off
      BY <3>1, AtWork, ReadsItsFile
    <3>3. OffsetsOK(worker[w], b)
      BY <1>0, <3>2 DEF OffsetInv
    <3>4. n <= k /\ k < b
      BY <3>1, <3>2, <3>3 DEF OffsetsOK
    <3>5. n < b
      BY <3>4
    <3>6. OffsetsOK(worker'[w], b)
      BY <3>1, <3>2, <3>5 DEF OffsetsOK, InHand, Leaving
    <3> QED
      BY <3>1, <3>2, <3>6
  <2>2. \A u \in Workers : (u # w /\ worker'[u].pc \in Attached \cup Leaving) =>
           OffsetsOK(worker'[u], file_stat'[worker'[u].fs].block_offset)
    BY <1>2 DEF OffsetInv
  <2>3. \A u \in Workers : worker'[u].pc \in InHand => worker'[u] = worker[u]
    BY <1>0
  <2> QED
    BY <2>1, <2>2, <2>3 DEF OffsetInv
<1>6. AccountInv'
  <2> SUFFICES ASSUME NEW x \in Slots, Live(x)' PROVE AccountOK(x)'
    BY DEF AccountInv
  <2>1. AccountOK(x) /\ Blocks[file_stat[x].file_no] \in Nat
    BY <1>1, TableAssumption DEF AccountInv, IInv, SlotInv, RecordInv, Live
  <2>2. \A u \in Workers : \/ worker'[u] = worker[u]
                           \/ worker[u].pc \notin InHand /\ worker'[u].pc \notin InHand
    BY <1>0
  <2> QED
    BY <1>1, <2>1, <2>2, AccountSame
<1>7. CompletionExact'
  BY DEF CompletionExact
<1> QED
  BY <1>3, <1>4, <1>5, <1>6, <1>7

LEMMA RemoveAccounts ==
    ASSUME IInv, IInv', AInv, NEW w \in Workers, RemoveIow(w)
    PROVE  AInv'
<1>0. worker[w].pc = "remove" /\ worker[w].pc \in Attached
  BY DEF RemoveIow, Attached
<1>s. PICK s \in Slots : s = worker[w].fs
  BY <1>0, AtWork
<1> DEFINE res == State(s) \ {w, FS_IO}
<1>1. /\ file_stat' = [file_stat EXCEPT ![s].state = res]
      /\ \/ worker' = [worker EXCEPT ![w].pc = "close"]
         \/ worker' = [worker EXCEPT ![w] = WorkerStart]
      /\ UNCHANGED <<file_head, opener, GLOBAL_FINO, descr, hist>>
  BY <1>s DEF RemoveIow, Goto, State
<1> HIDE DEF res
<1>2. /\ \A u \in Workers : u # w => worker'[u] = worker[u]
      /\ \/ worker'[w] = WorkerStart
         \/ /\ worker'[w].pc = "close" /\ worker'[w].fs = worker[w].fs
            /\ worker'[w].lcl = worker[w].lcl
  BY <1>0, <1>1, AtWork DEF WorkerState
<1>3. /\ State(s)' = res /\ \A x \in Slots \ {s} : State(x)' = State(x)
      /\ \A x \in Slots :
            /\ file_stat'[x].file_no = file_stat[x].file_no
            /\ file_stat'[x].fd = file_stat[x].fd
            /\ file_stat'[x].crc = file_stat[x].crc
            /\ file_stat'[x].block_offset = file_stat[x].block_offset
            /\ file_stat'[x].block_total = file_stat[x].block_total
  BY <1>0, <1>1, AtWork, WordOnly
<1>4. /\ \A x \in Slots : x # s => file_stat'[x] = file_stat[x]
      /\ Live(s) /\ State(s) # FS_INIT
  BY <1>0, <1>1, <1>s, AtWork, WorksOnLive
<1>5. \A x \in Slots : Live(x)' => Live(x)
  BY <1>3, <1>4 DEF Live
<1>6. NumInv'
  <2>1. worker'[w].pc \notin {"find", "claim", "attach"}
    BY <1>2 DEF WorkerStart
  <2>2. \A x \in Slots : State(x) = FS_INIT => State(x)' = FS_INIT
    BY <1>3, <1>4
  <2> QED
    BY <1>0, <1>1, <1>2, <1>3, <1>5, <2>1, <2>2, NumQuiet DEF AInv, hist
<1>7. ASSUME ~stale' PROVE FileInv'
  <2>1. FileInv
    BY <1>1, <1>7 DEF AInv, hist
  <2>2. WorkerStart.pc \notin Attached \cup Leaving
    BY DEF WorkerStart, Attached, Leaving
  <2> QED
    BY <1>0, <1>1, <1>2, <1>3, <1>4, <1>5, <1>s, <2>1, <2>2, DepartFiles
<1> QED
  BY <1>6, <1>7 DEF AInv

LEMMA WipeAccounts ==
    ASSUME IInv, IInv', AInv, NEW w \in Workers, Wipe(w)
    PROVE  AInv'
<1>0. worker[w].pc = "wipe" /\ worker[w].pc \in Leaving
  BY DEF Wipe, Leaving
<1>s. PICK s \in Slots : s = worker[w].fs
  BY <1>0, WorksOnLive
<1>1. /\ file_stat' = [file_stat EXCEPT ![s] = Wiped]
      /\ worker' = [worker EXCEPT ![w] = WorkerStart]
      /\ UNCHANGED <<file_head, opener, GLOBAL_FINO, descr, hist>>
  BY <1>s DEF Wipe
<1>2. /\ \A u \in Workers : u # w => worker'[u] = worker[u]
      /\ worker'[w] = WorkerStart
      /\ \A x \in Slots : x # s => file_stat'[x] = file_stat[x]
      /\ file_stat'[s] = Wiped /\ State(s) # FS_INIT
  BY <1>0, <1>1, <1>s, WorksOnLive DEF IInv, TypeOK
<1>3. ~Live(s)' /\ \A x \in Slots : x # s => State(x)' = State(x)
  BY <1>2 DEF Live, State, Wiped
<1>4. \A x \in Slots : Live(x)' => Live(x) /\ x # s /\ file_stat'[x] = file_stat[x]
  BY <1>2, <1>3 DEF Live
<1>5. NumInv'
  <2>1. worker'[w].pc \notin {"find", "claim", "attach"}
    BY <1>2 DEF WorkerStart
  <2>2. \A x \in Slots : State(x) = FS_INIT => State(x)' = FS_INIT
    BY <1>2, <1>3
  <2> QED
    BY <1>0, <1>1, <1>2, <1>4, <1>s, <2>1, <2>2, NumQuiet DEF AInv, hist
<1>6. ASSUME ~stale' PROVE FileInv'
  <2>1. FileInv
    BY <1>1, <1>6 DEF AInv, hist
  <2>2. WorkerStart.pc \notin Attached \cup Leaving
    BY DEF WorkerStart, Attached, Leaving
  <2>3. worker[w].pc # "remove"
    BY <1>0
  <2> QED
    BY <1>0, <1>1, <1>2, <1>3, <1>s, <2>1, <2>2, <2>3, DepartFiles
<1> QED
  BY <1>5, <1>6 DEF AInv

\* The last worker closes the descriptor of its file and of no other.
LEMMA CloseAccounts ==
    ASSUME IInv, IInv', AInv, NEW w \in Workers, CloseFd(w)
    PROVE  AInv'
<1>0. worker[w].pc = "close" /\ worker[w].pc \in Leaving
  BY DEF CloseFd, Leaving
<1>s. PICK s \in Slots : /\ s = worker[w].fs /\ Live(s) /\ file_stat[s].file_no \in FileNos
                         /\ file_stat[s].fd \in FDs
  BY <1>0, WorksOnLive
<1>d. PICK d \in FDs : d = worker[w].lcl.fd
  BY <1>0 DEF IInv, SlotInv, LocalInv, LocalsOK
<1>t. worker \in [Workers -> WorkerState] /\ descr \in [FDs -> FileNos \cup {NoFile}]
  BY DEF IInv, TypeOK
<1>1. /\ descr' = [descr EXCEPT ![d] = NoFile]
      /\ worker' = [worker EXCEPT ![w].pc = "push"]
      /\ UNCHANGED <<file_stat, file_head, opener, GLOBAL_FINO, hist>>
  BY <1>d DEF CloseFd, Goto, table
<1>2. /\ \A u \in Workers : u # w => worker'[u] = worker[u]
      /\ worker'[w].pc = "push" /\ worker'[w].fs = worker[w].fs
      /\ worker'[w].lcl = worker[w].lcl
  BY <1>1, <1>t DEF WorkerState
<1>3. \A x \in Slots : (Live(x)' <=> Live(x)) /\ State(x)' = State(x)
  BY <1>1 DEF Live, State
<1>4. NumInv'
  BY <1>0, <1>1, <1>2, <1>3, NumQuiet DEF AInv, hist
<1>5. ASSUME ~stale' PROVE FileInv'
  <2>1. FileInv
    BY <1>1, <1>5 DEF AInv, hist
  <2> USE <2>1 DEF FileInv
  <2>2. d = file_stat[s].fd
    BY <1>0, <1>d, <1>s DEF SameFileInv
  <2>3. ~Closed(s)
    <3>1. ASSUME NEW v \in Workers, worker[v].pc \in {"push", "wipe"}, worker[v].fs = s
          PROVE  FALSE
      <4>1. worker[v].pc \in Leaving /\ v # w
        BY <1>0, <3>1, Counters
      <4> QED
        BY <1>0, <1>s, <3>1, <4>1, LeavesAlone
    <3> QED
      BY <3>1 DEF Closed
  <2>4. descr[d] = file_stat[s].file_no
    BY <1>s, <2>2, <2>3 DEF OpenInv
  <2>5. SameFileInv'
    BY <1>0, <1>1, <1>2 DEF SameFileInv
  <2>6. OpenInv'
    <3>1. \A x \in Slots : Closed(x)' <=> Closed(x) \/ x = s
      BY <1>0, <1>2, <1>s DEF Closed
    <3>2. ASSUME NEW o \in Openers, Holds(o)
          PROVE  descr'[opener[o].fd] = opener[o].fino
      <4>1. descr[opener[o].fd] = opener[o].fino /\ opener[o].fino # file_stat[s].file_no
        BY <1>s, <3>2 DEF OpenInv, AInv, NumInv, NumberInv
      <4>2. opener[o].fd \in FDs
        BY <3>2 DEF Holds, IInv, SlotInv, RecordInv
      <4> QED
        BY <1>1, <1>t, <2>4, <4>1, <4>2
    <3>3. ASSUME NEW x \in Slots, Live(x), ~Closed(x), x # s
          PROVE  descr'[file_stat[x].fd] = file_stat[x].file_no
      <4>1. /\ descr[file_stat[x].fd] = file_stat[x].file_no
            /\ file_stat[x].file_no # file_stat[s].file_no
        BY <1>s, <3>3 DEF OpenInv, AInv, NumInv, NumberInv
      <4>2. file_stat[x].fd \in FDs
        BY <3>3 DEF Live, IInv, SlotInv, RecordInv
      <4> QED
        BY <1>1, <1>t, <2>4, <4>1, <4>2
    <3>4. \A o \in Openers : Holds(o)' <=> Holds(o)
      BY <1>1 DEF Holds
    <3> QED
      BY <1>1, <1>3, <3>1, <3>2, <3>3, <3>4 DEF OpenInv
  <2>7. OffsetInv'
    <3>1. \A u \in Workers : worker'[u].pc \in Attached \cup Leaving =>
             OffsetsOK(worker'[u], file_stat'[worker'[u].fs].block_offset)
      <4>1. OffsetsOK(worker[w], file_stat[s].block_offset)
        BY <1>0, <1>s DEF OffsetInv
      <4>2. OffsetsOK(worker'[w], file_stat[s].block_offset)
        BY <1>0, <1>2, <4>1 DEF OffsetsOK, InHand, Leaving
      <4>3. \A u \in Workers : u # w /\ worker'[u].pc \in Attached \cup Leaving =>
             OffsetsOK(worker'[u], file_stat'[worker'[u].fs].block_offset)
        BY <1>1, <1>2 DEF OffsetInv
      <4> QED
        BY <1>1, <1>2, <1>s, <4>2, <4>3
    <3>2. \A u \in Workers : worker'[u].pc \in InHand => worker'[u] = worker[u]
      BY <1>2 DEF InHand
    <3> QED
      BY <3>1, <3>2 DEF OffsetInv
  <2>8. AccountInv'
    <3> SUFFICES ASSUME NEW x \in Slots, Live(x) PROVE AccountOK(x)'
      BY <1>3 DEF AccountInv
    <3>1. AccountOK(x) /\ Blocks[file_stat[x].file_no] \in Nat
      BY TableAssumption DEF AccountInv, IInv, SlotInv, RecordInv, Live
    <3>2. \A u \in Workers : \/ worker'[u] = worker[u]
                             \/ worker[u].pc \notin InHand /\ worker'[u].pc \notin InHand
      BY <1>0, <1>2 DEF InHand
    <3> QED
      BY <1>1, <3>1, <3>2, AccountSame DEF hist
  <2>9. CompletionExact'
    BY <1>1 DEF CompletionExact, hist
  <2> QED
    BY <2>5, <2>6, <2>7, <2>8, <2>9
<1> QED
  BY <1>4, <1>5 DEF AInv

\* What the last worker reads of its slot: every block once, and all are sent.
LEMMA ReportExact ==
    ASSUME IInv, FileInv, NEW w \in Workers, worker[w].pc \in Leaving,
           NEW s \in Slots, s = worker[w].fs, NEW f \in FileNos, f = file_stat[s].file_no
    PROVE  /\ file_stat[s].crc = BlocksOf(f) /\ file_stat[s].block_total = Blocks[f]
           /\ \A b \in BlocksOf(f) : [file_no |-> f, block |-> b] \in sent
<1>1. Live(s) /\ AccountOK(s)
  BY WorksOnLive DEF FileInv, AccountInv
<1>2. PICK n \in Nat, h \in Nat, t \in Nat :
         n = Blocks[f] /\ h = file_stat[s].block_offset /\ t = file_stat[s].block_total
  BY TableAssumption DEF IInv, TypeOK, FileStat
<1>3. n < h
  <2>1. OffsetsOK(worker[w], h) /\ worker[w].lcl.file_no = f
    BY <1>2 DEF FileInv, OffsetInv, SameFileInv
  <2> QED
    BY <1>2, <2>1 DEF OffsetsOK
<1>4. \A u \in Workers : ~(worker[u].pc \in InHand /\ worker[u].fs = s)
  <2>1. worker[w].pc \notin InHand
    BY DEF InHand, Leaving
  <2> QED
    BY <2>1, LeavesAlone, Counters
<1>5. \A k : ~Unhashed(s, k)
  BY <1>4, Counters DEF Unhashed
<1>6. Uncounted(s, n) = {}
  BY <1>4 DEF Uncounted
<1>7. Cardinality(Uncounted(s, n)) = 0
  BY <1>6, FS_EmptySet
<1>8. /\ file_stat[s].crc = {<<f, k>> : k \in {k \in 0 .. n - 1 : k < h /\ ~Unhashed(s, k)}}
      /\ \A b \in file_stat[s].crc : [file_no |-> f, block |-> b] \in sent
      /\ t + Cardinality(Uncounted(s, n)) = Least(h, n)
  BY <1>1, <1>2 DEF AccountOK
<1>9. {k \in 0 .. n - 1 : k < h /\ ~Unhashed(s, k)} = 0 .. n - 1
  <2>1. \A k \in 0 .. n - 1 : k < h
    BY <1>3
  <2> QED
    BY <1>5, <2>1
<1>10. file_stat[s].crc = BlocksOf(f)
  <2>1. file_stat[s].crc = {<<f, k>> : k \in 0 .. n - 1}
    BY <1>8, <1>9
  <2>2. {<<f, k>> : k \in 0 .. n - 1} = {f} \X (0 .. n - 1)
    <3> DEFINE N == 0 .. n - 1
    <3> HIDE DEF N
    <3>1. {<<f, k>> : k \in N} = {f} \X N
      OBVIOUS
    <3> QED
      BY <3>1 DEF N
  <2> QED
    BY <1>2, <2>1, <2>2 DEF BlocksOf
<1>11. t = n
  BY <1>3, <1>7, <1>8 DEF Least
<1> QED
  BY <1>2, <1>8, <1>10, <1>11

LEMMA PushAccounts ==
    ASSUME IInv, IInv', AInv, NEW w \in Workers, PushCompletion(w)
    PROVE  AInv'
<1>0. worker[w].pc = "push" /\ worker[w].pc \in Leaving
  BY DEF PushCompletion, Leaving
<1>s. PICK s \in Slots, f \in FileNos :
         s = worker[w].fs /\ f = file_stat[s].file_no /\ Live(s)
  BY <1>0, WorksOnLive
<1>t. /\ worker \in [Workers -> WorkerState]
      /\ completions \in [FileNos -> Seq(Completion)]
      /\ file_stat[s] \in FileStat
  BY DEF IInv, TypeOK
<1>r. PICK r : r = [blocks |-> file_stat[s].block_total, crc |-> file_stat[s].crc]
  OBVIOUS
<1>1. /\ completions' = [completions EXCEPT ![f] = Append(@, r)]
      /\ worker' = [worker EXCEPT ![w].pc = "wipe"]
      /\ UNCHANGED <<file_stat, file_head, opener, GLOBAL_FINO, descr, sent, stale>>
  BY <1>r, <1>s DEF PushCompletion, Goto, table
<1>2. /\ \A u \in Workers : u # w => worker'[u] = worker[u]
      /\ worker'[w].pc = "wipe" /\ worker'[w].fs = worker[w].fs
      /\ worker'[w].lcl = worker[w].lcl
  BY <1>1, <1>t DEF WorkerState
<1>3. \A x \in Slots : (Live(x)' <=> Live(x)) /\ State(x)' = State(x)
  BY <1>1 DEF Live, State
<1>4. completions[f] = << >>
  <2>1. ASSUME NEW v \in Workers, worker[v].pc = "wipe", worker[v].fs = s PROVE FALSE
    <3>1. worker[v].pc \in Leaving /\ v # w
      BY <1>0, <2>1, Counters
    <3> QED
      BY <1>0, <1>s, <2>1, <3>1, LeavesAlone
  <2> QED
    BY <1>s, <2>1 DEF AInv, NumInv, NumberInv
<1>5. /\ completions'[f] = <<r>>
      /\ \A g \in FileNos : g # f => completions'[g] = completions[g]
  BY <1>1, <1>4, <1>t
<1>6. NumInv'
  <2>1. ClaimInv' /\ CopyInv'
    BY <1>0, <1>1, <1>2, <1>3, ClaimQuiet DEF AInv
  <2> USE DEF AInv, NumInv
  <2>2. \A o \in Openers : (Holds(o)' <=> Holds(o)) /\ (Holds(o) => opener[o].fino \in FileNos)
    BY <1>1 DEF Holds, IInv, SlotInv, RecordInv
  <2>3. \A g \in FileNos : completions'[g] # << >> => g <= GLOBAL_FINO
    BY <1>5, <1>s DEF NumberInv
  <2>4. \A o \in Openers : Holds(o) => completions'[opener[o].fino] = << >>
    BY <1>5, <1>s, <2>2 DEF NumberInv
  <2>5. ASSUME NEW x \in Slots, Live(x), completions'[file_stat[x].file_no] # << >>
        PROVE  \E u \in Workers : worker'[u].pc = "wipe" /\ worker'[u].fs = x
    <3>1. CASE x = s
      BY <1>2, <1>s, <3>1
    <3>2. CASE x # s
      <4>1. file_stat[x].file_no \in FileNos /\ file_stat[x].file_no # f
        BY <1>s, <2>5, <3>2 DEF NumberInv, IInv, SlotInv, RecordInv, Live
      <4>2. completions[file_stat[x].file_no] # << >>
        BY <1>5, <2>5, <4>1
      <4>3. PICK u \in Workers : worker[u].pc = "wipe" /\ worker[u].fs = x
        BY <2>5, <4>2 DEF NumberInv
      <4> QED
        BY <1>0, <1>2, <4>3
    <3> QED
      BY <3>1, <3>2
  <2>6. NumberInv'
    BY <1>1, <1>3, <2>2, <2>3, <2>4, <2>5 DEF NumberInv
  <2> QED
    BY <2>1, <2>6
<1>7. ASSUME ~stale' PROVE FileInv'
  <2>1. FileInv /\ ~stale
    BY <1>1, <1>7 DEF AInv
  <2> USE <2>1 DEF FileInv
  <2>2. SameFileInv'
    BY <1>0, <1>1, <1>2 DEF SameFileInv, Leaving
  <2>3. OpenInv'
    <3>1. \A x \in Slots : Closed(x)' <=> Closed(x)
      BY <1>0, <1>2 DEF Closed
    <3>2. \A o \in Openers : Holds(o)' <=> Holds(o)
      BY <1>1 DEF Holds
    <3> QED
      BY <1>1, <1>3, <3>1, <3>2 DEF OpenInv
  <2>4. OffsetInv'
    <3>1. OffsetsOK(worker[w], file_stat[s].block_offset)
      BY <1>0, <1>s DEF OffsetInv
    <3>2. OffsetsOK(worker'[w], file_stat[s].block_offset)
      BY <1>0, <1>2, <3>1 DEF OffsetsOK, InHand, Leaving
    <3>3. \A u \in Workers : u # w /\ worker'[u].pc \in Attached \cup Leaving =>
             OffsetsOK(worker'[u], file_stat'[worker'[u].fs].block_offset)
      BY <1>1, <1>2 DEF OffsetInv
    <3>4. \A u \in Workers : worker'[u].pc \in InHand => worker'[u] = worker[u]
      BY <1>2 DEF InHand
    <3>5. \A u \in Workers : worker'[u].pc \in Attached \cup Leaving =>
             OffsetsOK(worker'[u], file_stat'[worker'[u].fs].block_offset)
      BY <1>1, <1>2, <1>s, <3>2, <3>3
    <3> QED
      BY <3>4, <3>5 DEF OffsetInv
  <2>5. AccountInv'
    <3> SUFFICES ASSUME NEW x \in Slots, Live(x) PROVE AccountOK(x)'
      BY <1>3 DEF AccountInv
    <3>1. AccountOK(x) /\ Blocks[file_stat[x].file_no] \in Nat
      BY TableAssumption DEF AccountInv, IInv, SlotInv, RecordInv, Live
    <3>2. \A u \in Workers : \/ worker'[u] = worker[u]
                             \/ worker[u].pc \notin InHand /\ worker'[u].pc \notin InHand
      BY <1>0, <1>2 DEF InHand
    <3> QED
      BY <1>1, <3>1, <3>2, AccountSame
  <2>6. CompletionExact'
    <3>1. /\ r = [blocks |-> Blocks[f], crc |-> BlocksOf(f)]
          /\ \A b \in BlocksOf(f) : [file_no |-> f, block |-> b] \in sent
      BY <1>0, <1>r, <1>s, <2>1, ReportExact
    <3>2. ASSUME NEW g \in FileNos, completions'[g] # << >>
          PROVE  /\ completions'[g] = <<[blocks |-> Blocks[g], crc |-> BlocksOf(g)]>>
                 /\ \A b \in BlocksOf(g) : [file_no |-> g, block |-> b] \in sent
      <4>1. CASE g = f
        BY <1>5, <3>1, <4>1
      <4>2. CASE g # f
        BY <1>5, <2>1, <3>2, <4>2 DEF CompletionExact
      <4> QED
        BY <4>1, <4>2
    <3> QED
      BY <1>1, <3>2 DEF CompletionExact
  <2> QED
    BY <2>2, <2>3, <2>4, <2>5, <2>6
<1> QED
  BY <1>6, <1>7 DEF AInv

-----------------------------------------------------------------------------
(* The openers and the sender's main loop.                                 *)

\* Nothing that the accounts speak of changes but, at most, where an opener
\* that has no file, or the file it had, stands.
LEMMA BystandAccounts ==
    ASSUME IInv, IInv', AInv,
           \A o \in Openers :
              /\ Holds(o)' <=> Holds(o)
              /\ Holds(o) => opener'[o].fino = opener[o].fino /\ opener'[o].fd = opener[o].fd,
           \A s \in Slots :
              /\ Live(s)' <=> Live(s)
              /\ State(s) = FS_INIT => State(s)' = FS_INIT
              /\ file_stat'[s].file_no = file_stat[s].file_no
              /\ file_stat'[s].fd = file_stat[s].fd
              /\ file_stat'[s].crc = file_stat[s].crc
              /\ file_stat'[s].block_offset = file_stat[s].block_offset
              /\ file_stat'[s].block_total = file_stat[s].block_total,
           UNCHANGED <<worker, file_head, GLOBAL_FINO, descr, hist>>
    PROVE  AInv'
<1> USE DEF hist
<1>a. /\ \A u \in Workers : worker[u].pc \in Attached \cup Leaving => worker[u].fs \in Slots
      /\ \A u \in Workers : worker[u].pc = "claim" => worker[u].j \in Slots
  BY WorksOnLive DEF IInv, SlotInv, LocalInv, LocalsOK
<1>1. NumberInv'
  BY DEF AInv, NumInv, NumberInv
<1>2. ClaimInv'
  <2>1. \A u \in Workers : worker[u].pc = "claim" => file_stat'[worker[u].j].state = FS_INIT
    BY <1>a DEF AInv, NumInv, ClaimInv, State
  <2>2. \A u \in Workers : worker[u].pc = "claim" =>
          /\ file_stat'[worker[u].j].file_no = worker[u].fh
          /\ worker[u].lcl.file_no = worker[u].fh
          /\ worker[u].lcl.fd = file_stat'[worker[u].j].fd
    BY <1>a DEF AInv, NumInv, ClaimInv
  <2>3. \A u \in Workers : (Claiming(u)' <=> Claiming(u)) /\ worker'[u] = worker[u]
    BY DEF Claiming
  <2> QED
    BY <2>1, <2>2, <2>3 DEF AInv, NumInv, ClaimInv, State
<1>3. CopyInv'
  BY DEF AInv, NumInv, CopyInv
<1>4. ASSUME ~stale' PROVE FileInv'
  <2>1. FileInv
    BY <1>4 DEF AInv
  <2> USE <2>1 DEF FileInv
  <2>2. SameFileInv'
    BY <1>a DEF SameFileInv
  <2>3. OpenInv'
    <3>1. \A s \in Slots : Closed(s)' <=> Closed(s)
      BY DEF Closed
    <3> QED
      BY <3>1 DEF OpenInv
  <2>4. OffsetInv'
    BY <1>a DEF OffsetInv
  <2>5. AccountInv'
    <3> SUFFICES ASSUME NEW s \in Slots, Live(s) PROVE AccountOK(s)'
      BY DEF AccountInv
    <3>1. AccountOK(s) /\ Blocks[file_stat[s].file_no] \in Nat
      BY TableAssumption DEF AccountInv, IInv, SlotInv, RecordInv, Live
    <3> QED
      BY <3>1, AccountSame
  <2>6. CompletionExact'
    BY DEF CompletionExact
  <2> QED
    BY <2>2, <2>3, <2>4, <2>5, <2>6
<1> QED
  BY <1>1, <1>2, <1>3, <1>4 DEF AInv, NumInv

\* open(2) and the next number.
LEMMA OpenAccounts ==
    ASSUME IInv, IInv', AInv, NEW o \in Openers, OpenFile(o)
    PROVE  AInv'
<1>t. /\ opener \in [Openers -> OpenerState] /\ GLOBAL_FINO \in 0 .. NFiles
      /\ descr \in [FDs -> FileNos \cup {NoFile}]
      /\ opener[o].pc = "idle" /\ GLOBAL_FINO < NFiles
  BY DEF IInv, TypeOK, OpenFile
<1>n. PICK n \in FileNos : n = GLOBAL_FINO + 1
  BY <1>t, TableAssumption DEF FileNos
<1>a. PICK g \in Nat : g = GLOBAL_FINO
  BY <1>t
<1>b. n \in Nat /\ ~(n <= g) /\ g <= n /\ n <= n /\ \A k \in FileNos : k <= g => k <= n /\ k # n
  BY <1>n, <1>a, TableAssumption DEF FileNos
<1>1. PICK d \in FDs :
         /\ descr[d] = NoFile /\ descr' = [descr EXCEPT ![d] = n]
         /\ opener' = [opener EXCEPT ![o] =
               [OpenerIdle EXCEPT !.pc = "probe", !.fd = d, !.fino = n]]
  BY <1>n DEF OpenFile
<1>2. /\ GLOBAL_FINO' = n
      /\ UNCHANGED <<file_stat, file_head, worker, hist>>
  BY <1>n DEF OpenFile, table
<1>3. /\ \A p \in Openers : p # o => opener'[p] = opener[p]
      /\ opener'[o].pc = "probe" /\ opener'[o].fd = d /\ opener'[o].fino = n
  BY <1>1, <1>t DEF OpenerIdle
<1>4. /\ Holds(o)' /\ ~Holds(o) /\ \A p \in Openers : p # o => (Holds(p)' <=> Holds(p))
      /\ \A p \in Openers : Holds(p) => opener[p].fino \in FileNos /\ opener[p].fd \in FDs
  BY <1>3, <1>t DEF Holds, IInv, SlotInv, RecordInv
<1>5. \A s \in Slots : /\ Live(s)' <=> Live(s)
                       /\ Live(s) => file_stat[s].file_no \in FileNos /\ file_stat[s].fd \in FDs
  BY <1>2 DEF Live, State, IInv, SlotInv, RecordInv
<1>6. /\ \A s \in Slots : Live(s) => file_stat[s].file_no <= n /\ file_stat[s].file_no # n
      /\ \A p \in Openers : Holds(p) => opener[p].fino <= n /\ opener[p].fino # n
      /\ \A f \in FileNos : completions[f] # << >> => f <= n /\ f # n
  BY <1>a, <1>b, <1>4, <1>5 DEF AInv, NumInv, NumberInv
<1>7. NumberInv'
  <2>1. UNCHANGED <<completions, file_stat, worker>>
    BY <1>2 DEF hist
  <2>2. \A s \in Slots : Live(s)' => file_stat'[s].file_no <= n
    BY <1>5, <1>6, <2>1
  <2>3. \A p \in Openers : Holds(p)' => opener'[p].fino <= n
    BY <1>b, <1>3, <1>4, <1>6
  <2>4. \A f \in FileNos : completions'[f] # << >> => f <= n
    BY <1>6, <2>1
  <2>5. \A p \in Openers, s \in Slots :
          (Holds(p)' /\ Live(s)') => opener'[p].fino # file_stat'[s].file_no
    BY <1>3, <1>4, <1>5, <1>6, <2>1 DEF AInv, NumInv, NumberInv
  <2>6. \A p, q \in Openers :
          (Holds(p)' /\ Holds(q)' /\ opener'[p].fino = opener'[q].fino) => p = q
    BY <1>3, <1>4, <1>6 DEF AInv, NumInv, NumberInv
  <2>7. \A p \in Openers : Holds(p)' => completions'[opener'[p].fino] = << >>
    BY <1>3, <1>4, <1>6, <2>1 DEF AInv, NumInv, NumberInv
  <2>8. /\ \A s, t \in Slots :
             (Live(s)' /\ Live(t)' /\ file_stat'[s].file_no = file_stat'[t].file_no) => s = t
        /\ \A s \in Slots : (Live(s)' /\ completions'[file_stat'[s].file_no] # << >>) =>
             \E w \in Workers : worker'[w].pc = "wipe" /\ worker'[w].fs = s
    BY <1>5, <2>1 DEF AInv, NumInv, NumberInv
  <2> QED
    BY <1>2, <2>2, <2>3, <2>4, <2>5, <2>6, <2>7, <2>8 DEF NumberInv
<1>8. ClaimInv'
  BY <1>2 DEF AInv, NumInv, ClaimInv, Claiming, State
<1>9. CopyInv'
  <2> SUFFICES ASSUME NEW w \in Workers, worker[w].pc = "attach"
               PROVE  /\ worker[w].lcl.file_no <= n
                      /\ \A p \in Openers : Holds(p)' => opener'[p].fino # worker[w].lcl.file_no
                      /\ \A s \in Slots :
                           (Live(s)' /\ file_stat[s].file_no = worker[w].lcl.file_no) =>
                              file_stat[s].fd = worker[w].lcl.fd
    BY <1>2 DEF CopyInv
  <2>1. worker[w].lcl.file_no \in FileNos /\ worker[w].lcl.file_no <= g
    BY <1>a DEF AInv, NumInv, CopyInv, IInv, SlotInv, LocalInv, LocalsOK
  <2>2. worker[w].lcl.file_no <= n /\ worker[w].lcl.file_no # n
    BY <1>b, <2>1
  <2> QED
    BY <1>3, <1>4, <1>5, <2>2 DEF AInv, NumInv, CopyInv
<1>10. ASSUME ~stale' PROVE FileInv'
  <2>1. FileInv
    BY <1>2, <1>10 DEF AInv, hist
  <2> USE <2>1 DEF FileInv
  <2>2. SameFileInv' /\ OffsetInv'
    BY <1>2 DEF SameFileInv, OffsetInv
  <2>3. OpenInv'
    <3>1. \A s \in Slots : Closed(s)' <=> Closed(s)
      BY <1>2 DEF Closed
    <3>2. \A f \in FileNos : f # NoFile
      BY TableAssumption DEF FileNos, NoFile
    <3>3. ASSUME NEW p \in Openers, Holds(p)' PROVE descr'[opener'[p].fd] = opener'[p].fino
      <4>1. CASE p = o
        BY <1>1, <1>3, <1>t, <4>1
      <4>2. CASE p # o
        <5>1. Holds(p) /\ opener'[p] = opener[p]
          BY <1>3, <1>4, <3>3, <4>2
        <5>2. descr[opener[p].fd] = opener[p].fino /\ opener[p].fd # d
          BY <1>1, <1>4, <3>2, <5>1 DEF OpenInv
        <5> QED
          BY <1>1, <1>4, <1>t, <5>1, <5>2
      <4> QED
        BY <4>1, <4>2
    <3>4. ASSUME NEW s \in Slots, Live(s), ~Closed(s)
          PROVE  descr'[file_stat[s].fd] = file_stat[s].file_no
      <4>1. descr[file_stat[s].fd] = file_stat[s].file_no /\ file_stat[s].fd # d
        BY <1>1, <1>5, <3>2, <3>4 DEF OpenInv
      <4> QED
        BY <1>1, <1>5, <1>t, <3>4, <4>1
    <3> QED
      BY <1>2, <1>5, <3>1, <3>3, <3>4 DEF OpenInv
  <2>4. AccountInv'
    <3> SUFFICES ASSUME NEW s \in Slots, Live(s) PROVE AccountOK(s)'
      BY <1>5 DEF AccountInv
    <3>1. AccountOK(s) /\ Blocks[file_stat[s].file_no] \in Nat
      BY <1>5, TableAssumption DEF AccountInv
    <3> QED
      BY <1>2, <3>1, AccountSame DEF hist
  <2>5. CompletionExact'
    BY <1>2 DEF CompletionExact, hist
  <2> QED
    BY <2>2, <2>3, <2>4, <2>5
<1> QED
  BY <1>7, <1>8, <1>9, <1>10 DEF AInv, NumInv

\* file_addfile: reserving a slot, or trying the next.
LEMMA ProbeAccounts ==
    ASSUME IInv, IInv', AInv, NEW o \in Openers, AddProbe(o)
    PROVE  AInv'
<1>t. /\ opener \in [Openers -> OpenerState] /\ opener[o] \in OpenerState
      /\ file_stat \in [Slots -> FileStat] /\ opener[o].pc = "probe"
      /\ UNCHANGED <<worker, file_head, GLOBAL_FINO, descr, hist>>
  BY DEF IInv, TypeOK, AddProbe
<1>f. opener[o].fino \in FileNos /\ opener[o].k \in 1 .. CC
  BY <1>t DEF IInv, SlotInv, RecordInv, OpenerState
<1>s. PICK s \in Slots : s = Probe[opener[o].fino][opener[o].k]
  BY <1>f, TableAssumption
<1>1. /\ \A p \in Openers : p # o => opener'[p] = opener[p]
      /\ opener'[o].pc \in {"probe", "fill"} /\ opener'[o].fino = opener[o].fino
      /\ opener'[o].fd = opener[o].fd
  <2>1. CASE opener' = [opener EXCEPT ![o].pc = "fill", ![o].slot = s]
    BY <1>t, <2>1 DEF OpenerState
  <2>2. CASE opener' = [opener EXCEPT ![o].k = (@ % CC) + 1]
    <3> DEFINE k == (opener[o].k % CC) + 1
    <3>1. opener' = [opener EXCEPT ![o].k = k]
      BY <2>2
    <3> HIDE DEF k
    <3> QED
      BY <1>t, <3>1 DEF OpenerState
  <2> QED
    BY <1>s, <2>1, <2>2 DEF AddProbe
<1>2. \A p \in Openers :
         /\ Holds(p)' <=> Holds(p)
         /\ opener'[p].fino = opener[p].fino /\ opener'[p].fd = opener[p].fd
  BY <1>1, <1>t DEF Holds
<1>3. \A x \in Slots :
         /\ Live(x)' <=> Live(x)
         /\ State(x) = FS_INIT => State(x)' = FS_INIT
         /\ file_stat'[x].file_no = file_stat[x].file_no
         /\ file_stat'[x].fd = file_stat[x].fd
         /\ file_stat'[x].crc = file_stat[x].crc
         /\ file_stat'[x].block_offset = file_stat[x].block_offset
         /\ file_stat'[x].block_total = file_stat[x].block_total
  <2>1. CASE file_stat' = file_stat
    BY <2>1 DEF Live, State
  <2>2. CASE State(s) = Free /\ file_stat' = [file_stat EXCEPT ![s].state = BedFace]
    BY <1>t, <2>2, WordOnly, Markers DEF Live
  <2> QED
    BY <1>s, <2>1, <2>2 DEF AddProbe, State
<1> QED
  BY <1>t, <1>2, <1>3, BystandAccounts

\* file_addfile: publishing the record.
LEMMA FillAccounts ==
    ASSUME IInv, IInv', AInv, NEW o \in Openers, AddFill(o)
    PROVE  AInv'
<1>t. /\ opener \in [Openers -> OpenerState] /\ opener[o] \in OpenerState
      /\ file_stat \in [Slots -> FileStat] /\ opener[o].pc = "fill"
      /\ opener' = [opener EXCEPT ![o].pc = "added"]
      /\ UNCHANGED <<worker, file_head, GLOBAL_FINO, descr, hist>>
  BY DEF IInv, TypeOK, AddFill
<1>s. PICK s \in Slots, f \in FileNos, d \in FDs :
         /\ s = opener[o].slot /\ f = opener[o].fino /\ d = opener[o].fd
         /\ State(s) = BedFace
  BY <1>t DEF IInv, SlotInv, ReservedInv, RecordInv
<1>r. PICK r : r = [Wiped EXCEPT !.state = FS_INIT, !.fd = d, !.file_no = f]
  OBVIOUS
<1>1. file_stat' = [file_stat EXCEPT ![s] = r]
  BY <1>r, <1>s DEF AddFill
<1>2. /\ \A p \in Openers : p # o => opener'[p] = opener[p]
      /\ opener'[o].pc = "added"
  BY <1>t DEF OpenerState
<1>3. Holds(o) /\ ~Holds(o)' /\ \A p \in Openers : p # o => (Holds(p)' <=> Holds(p))
  BY <1>2, <1>t DEF Holds
<1>4. /\ r.state = FS_INIT /\ r.fd = d /\ r.file_no = f /\ r.crc = {}
      /\ r.block_offset = 0 /\ r.block_total = 0
  BY <1>r DEF Wiped
<1>5. file_stat'[s] = r /\ \A x \in Slots : x # s => file_stat'[x] = file_stat[x]
  BY <1>1, <1>t
<1>6. /\ ~Live(s) /\ Live(s)' /\ State(s)' = FS_INIT
      /\ \A x \in Slots : x # s => (Live(x)' <=> Live(x)) /\ State(x)' = State(x)
  BY <1>4, <1>5, <1>s, Markers DEF Live, State
<1>7. \A u \in Workers : worker[u].pc \in Attached \cup Leaving =>
         worker[u].fs \in Slots /\ worker[u].fs # s
  BY <1>6, WorksOnLive
<1> USE DEF AInv, NumInv
<1>8. NumberInv'
  <2>1. UNCHANGED <<completions, worker, GLOBAL_FINO>>
    BY <1>t DEF hist
  <2>2. \A x \in Slots : Live(x)' =>
          \/ x = s /\ file_stat'[x].file_no = f
          \/ x # s /\ Live(x) /\ file_stat'[x] = file_stat[x] /\ file_stat[x].file_no # f
    BY <1>3, <1>4, <1>5, <1>6, <1>s DEF NumberInv
  <2>3. \A p \in Openers : Holds(p)' =>
          p # o /\ Holds(p) /\ opener'[p] = opener[p] /\ opener[p].fino # f
    BY <1>2, <1>3, <1>s DEF NumberInv
  <2>4. f <= GLOBAL_FINO /\ completions[f] = << >>
    BY <1>3, <1>s DEF NumberInv
  <2>5. /\ \A x \in Slots : Live(x)' => file_stat'[x].file_no <= GLOBAL_FINO
        /\ \A x, y \in Slots :
             (Live(x)' /\ Live(y)' /\ file_stat'[x].file_no = file_stat'[y].file_no) => x = y
    BY <2>2, <2>4 DEF NumberInv
  <2>6. /\ \A p \in Openers : Holds(p)' => opener'[p].fino <= GLOBAL_FINO
        /\ \A p, q \in Openers :
             (Holds(p)' /\ Holds(q)' /\ opener'[p].fino = opener'[q].fino) => p = q
        /\ \A p \in Openers : Holds(p)' => completions[opener'[p].fino] = << >>
    BY <2>3 DEF NumberInv
  <2>7. \A p \in Openers, x \in Slots :
          (Holds(p)' /\ Live(x)') => opener'[p].fino # file_stat'[x].file_no
    BY <2>2, <2>3 DEF NumberInv
  <2>8. \A x \in Slots : (Live(x)' /\ completions[file_stat'[x].file_no] # << >>) =>
          \E w \in Workers : worker[w].pc = "wipe" /\ worker[w].fs = x
    BY <2>2, <2>4 DEF NumberInv
  <2>9. \A g \in FileNos : completions[g] # << >> => g <= GLOBAL_FINO
    BY DEF NumberInv
  <2> QED
    BY <2>1, <2>5, <2>6, <2>7, <2>8, <2>9 DEF NumberInv
<1>9. ClaimInv'
  <2>1. \A u \in Workers : worker[u].pc = "claim" =>
          worker[u].j \in Slots /\ State(worker[u].j) = FS_INIT /\ worker[u].j # s
    BY <1>s, Markers DEF ClaimInv, IInv, SlotInv, LocalInv, LocalsOK
  <2>2. \A u \in Workers : worker[u].pc = "claim" =>
          file_stat'[worker[u].j] = file_stat[worker[u].j]
    BY <1>5, <2>1
  <2>3. \A u \in Workers : (Claiming(u)' <=> Claiming(u)) /\ worker'[u] = worker[u]
    BY <1>t DEF Claiming
  <2> QED
    BY <1>t, <2>2, <2>3 DEF ClaimInv, State
<1>10. CopyInv'
  <2> SUFFICES ASSUME NEW w \in Workers, worker[w].pc = "attach"
               PROVE  /\ worker[w].lcl.file_no <= GLOBAL_FINO
                      /\ \A p \in Openers : Holds(p)' => opener'[p].fino # worker[w].lcl.file_no
                      /\ \A x \in Slots :
                           (Live(x)' /\ file_stat'[x].file_no = worker[w].lcl.file_no) =>
                              file_stat'[x].fd = worker[w].lcl.fd
    BY <1>t DEF CopyInv
  <2>1. worker[w].lcl.file_no # f
    BY <1>3, <1>s DEF CopyInv
  <2> QED
    BY <1>2, <1>3, <1>4, <1>5, <1>6, <2>1 DEF CopyInv
<1>11. ASSUME ~stale' PROVE FileInv'
  <2>1. FileInv
    BY <1>11, <1>t DEF hist
  <2> USE <2>1 DEF FileInv
  <2>2. SameFileInv'
    BY <1>5, <1>7, <1>t DEF SameFileInv
  <2>3. OpenInv'
    <3>1. \A x \in Slots : Closed(x)' <=> Closed(x)
      BY <1>t DEF Closed
    <3>2. descr[d] = f
      BY <1>3, <1>s DEF OpenInv
    <3>3. \A p \in Openers : Holds(p)' => descr[opener'[p].fd] = opener'[p].fino
      BY <1>2, <1>3 DEF OpenInv
    <3>4. \A x \in Slots : (Live(x)' /\ ~Closed(x)') =>
             descr[file_stat'[x].fd] = file_stat'[x].file_no
      BY <1>4, <1>5, <1>6, <3>1, <3>2 DEF OpenInv
    <3> QED
      BY <1>t, <3>3, <3>4 DEF OpenInv
  <2>4. OffsetInv'
    BY <1>5, <1>7, <1>t DEF OffsetInv
  <2>5. AccountInv'
    <3> SUFFICES ASSUME NEW x \in Slots, Live(x)' PROVE AccountOK(x)'
      BY DEF AccountInv
    <3>1. CASE x # s
      <4>1. AccountOK(x) /\ Blocks[file_stat[x].file_no] \in Nat
        BY <1>6, <3>1, TableAssumption DEF AccountInv, IInv, SlotInv, RecordInv, Live
      <4>2. file_stat'[x] = file_stat[x]
        BY <1>5, <3>1
      <4> QED
        BY <1>t, <4>1, <4>2, AccountSame DEF hist
    <3>2. CASE x = s
      <4>1. PICK n \in Nat : n = Blocks[f]
        BY TableAssumption
      <4>2. Uncounted(s, n)' = {}
        BY <1>7, <1>t, Counters DEF Uncounted
      <4>3. Cardinality(Uncounted(s, n)') = 0
        BY <4>2, FS_EmptySet
      <4>4. {k \in 0 .. n - 1 : k < 0 /\ ~Unhashed(s, k)'} = {}
        OBVIOUS
      <4>5. {<<f, k>> : k \in {k \in 0 .. n - 1 : k < 0 /\ ~Unhashed(s, k)'}} = {}
        BY <4>4
      <4>6. 0 + 0 = Least(0, n)
        BY DEF Least
      <4>7. AccountOK(s)'
        BY <1>4, <1>5, <4>1, <4>3, <4>5, <4>6 DEF AccountOK
      <4> QED
        BY <3>2, <4>7
    <3> QED
      BY <3>1, <3>2
  <2>6. CompletionExact'
    BY <1>t DEF CompletionExact, hist
  <2> QED
    BY <2>2, <2>3, <2>4, <2>5, <2>6
<1> QED
  BY <1>8, <1>9, <1>10, <1>11

LEMMA AddedAccounts ==
    ASSUME IInv, IInv', AInv, NEW o \in Openers, AddCount(o)
    PROVE  AInv'
<1>t. /\ opener \in [Openers -> OpenerState] /\ opener[o].pc = "added"
      /\ opener' = [opener EXCEPT ![o] = OpenerIdle]
      /\ UNCHANGED <<file_stat, worker, file_head, GLOBAL_FINO, descr, hist>>
  BY DEF IInv, TypeOK, AddCount
<1>1. \A p \in Openers : (Holds(p)' <=> Holds(p)) /\ (Holds(p) => opener'[p] = opener[p])
  BY <1>t DEF Holds, OpenerIdle
<1>2. \A s \in Slots : (Live(s)' <=> Live(s)) /\ State(s)' = State(s)
  BY <1>t DEF Live, State
<1> QED
  BY <1>t, <1>1, <1>2, BystandAccounts

-----------------------------------------------------------------------------
LEMMA InitAccounts == Init => AInv
<1> SUFFICES ASSUME Init PROVE AInv
  OBVIOUS
<1>1. \A s \in Slots : ~Live(s)
  BY DEF Init, Live, State, Wiped
<1>2. \A o \in Openers : ~Holds(o)
  BY DEF Init, Holds, OpenerIdle
<1>3. \A w \in Workers : worker[w].pc = "count"
  BY DEF Init, WorkerStart
<1>4. \A w \in Workers : ~Claiming(w) /\ worker[w].pc \notin Attached \cup Leaving \cup InHand
  BY <1>3 DEF Claiming, Attached, Leaving, InHand
<1>5. \A f \in FileNos : completions[f] = << >>
  BY DEF Init
<1>6. NumInv
  BY <1>1, <1>2, <1>3, <1>4, <1>5 DEF NumInv, NumberInv, ClaimInv, CopyInv
<1>7. FileInv
  BY <1>1, <1>2, <1>4, <1>5
     DEF FileInv, SameFileInv, OpenInv, OffsetInv, AccountInv, CompletionExact
<1> QED
  BY <1>6, <1>7 DEF AInv

LEMMA NextAccounts == IInv /\ IInv' /\ AInv /\ [Next]_vars => AInv'
<1> SUFFICES ASSUME IInv, IInv', AInv, [Next]_vars PROVE AInv'
  OBVIOUS
<1>1. ASSUME NEW o \in Openers, OpenerStep(o) PROVE AInv'
  BY <1>1, OpenAccounts, ProbeAccounts, FillAccounts, AddedAccounts DEF OpenerStep
<1>2. ASSUME NEW w \in Workers, WorkerStep(w) PROVE AInv'
  BY <1>2, ChooseAccounts, HeadAccounts, CopyAccounts, AttachAccounts, FindAccounts,
     ClaimAccounts, PublishAccounts, FetchAccounts, ReadAccounts, SendAccounts,
     CountAccounts, RemoveAccounts, CloseAccounts, PushAccounts, WipeAccounts
     DEF WorkerStep
<1>3. CASE CompleteTransfer \/ UNCHANGED vars
  <2>1. UNCHANGED <<file_stat, opener, worker, file_head, GLOBAL_FINO, descr, hist>>
    BY <1>3 DEF CompleteTransfer, vars, table, hist
  <2>2. \A o \in Openers : Holds(o)' <=> Holds(o)
    BY <2>1 DEF Holds
  <2>3. \A s \in Slots : (Live(s)' <=> Live(s)) /\ State(s)' = State(s)
    BY <2>1 DEF Live, State
  <2> QED
    BY <2>1, <2>2, <2>3, BystandAccounts
<1> QED
  BY <1>1, <1>2, <1>3 DEF Next, Terminated

\* The accounts of the table: every number is at one place, a slot's checksum
\* and count make up for the blocks handed out, and descriptors are open on
\* their files, in every behaviour without a stale attach.
THEOREM AccountInvariant == Spec => []AInv
<1>1. Init => IInv /\ AInv
  BY InitOK, InitAccounts
<1>2. IInv /\ AInv /\ [Next]_vars => (IInv /\ AInv)'
  BY NextOK, NextAccounts
<1> QED
  BY <1>1, <1>2, PTL DEF Spec

\* A file is reported at most once, and the block_total and crc that
\* submit_work reports account for every block of the file exactly once, all of
\* them on the wire, for any number of files, blocks, slots, openers and
\* workers, in every behaviour in which no attach used an outdated copy.
THEOREM CompletionExactHolds == Spec => []CompletionExact
<1>1. AInv => CompletionExact
  BY DEF AInv, FileInv, CompletionExact
<1> QED
  BY <1>1, AccountInvariant, PTL

\* The descriptor in a worker's private copy is open on the file whose number
\* the block is sent under whenever submit_work reads with it, and the "Read
\* Error" exit is never taken, in every behaviour in which no attach used an
\* outdated copy.
THEOREM DescriptorLiveHolds == Spec => []DescriptorLive
<1>1. IInv /\ AInv => DescriptorLive
  <2> SUFFICES ASSUME IInv, AInv, ~stale, NEW w \in Workers
               PROVE  /\ worker[w].pc # "aborted"
                      /\ worker[w].pc = "read" =>
                            descr[worker[w].lcl.fd] = worker[w].lcl.file_no
                      /\ worker[w].pc \in {"send", "tally"} =>
                            worker[w].from = worker[w].lcl.file_no
    BY DEF DescriptorLive
  <2>1. FileInv
    BY DEF AInv
  <2>2. worker[w].pc \in Attached =>
           OffsetsOK(worker[w], file_stat[worker[w].fs].block_offset)
    BY <2>1 DEF FileInv, OffsetInv
  <2>3. worker[w].pc \in {"aborted", "read", "send", "tally"} => worker[w].pc \in Attached
    BY DEF Attached
  <2>4. worker[w].pc # "aborted"
    BY <2>2, <2>3 DEF OffsetsOK
  <2>5. worker[w].pc = "read" => descr[worker[w].lcl.fd] = worker[w].lcl.file_no
    BY <2>1, <2>3, ReadsItsFile
  <2>6. worker[w].pc \in {"send", "tally"} => worker[w].from = worker[w].lcl.file_no
    BY <2>2, <2>3 DEF OffsetsOK
  <2> QED
    BY <2>4, <2>5, <2>6
<1> QED
  BY <1>1, TableInvariant, AccountInvariant, PTL

\* Two workers never go on with the same number, however their looks at
\* file_head and their advances of it interleave, and the record a worker is
\* about to claim bears its number and is unclaimed (file_next), in every
\* behaviour, stale attaches included.
THEOREM ClaimedOnceHolds == Spec => []ClaimedOnce
<1>1. AInv => ClaimedOnce
  BY DEF AInv, NumInv, ClaimInv, ClaimedOnce, State
<1> QED
  BY <1>1, AccountInvariant, PTL
=============================================================================
