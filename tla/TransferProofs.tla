--------------------------- MODULE TransferProofs ---------------------------
(***************************************************************************)
(* Proofs about Transfer, for any number of files, blocks and connections  *)
(* and any sizes of the tables: a file is closed only when it is whole,    *)
(* and a transfer is declared complete only if every file has arrived      *)
(* unaltered.                                                              *)
(***************************************************************************)
EXTENDS Transfer, FiniteSetTheorems, SequenceTheorems, WellFoundedInduction, TLAPS

Entry    == [fino : FileNos, crc : SUBSET BlockIds, errno : BOOLEAN]
Message  == [kind : {"spec", "count"}, files : Seq(FileNos)]
FcState  == [pushed : Seq(FileNos), in1 : Nat, in2 : Nat, out1 : Nat, out2 : Nat]
SndState == [pc : {"check", "verify", "complete", "failed"}, files_sent : Nat,
             files_ok : Nat, hm : SUBSET FileNos, todo : Seq(Entry)]
RxState  == [pc : {"recv", "wait", "write", "count"}, block : BlockIds \cup {NoBlock},
             file_cur : FileNos \cup {NoFile}]
FsState  == [in : BOOLEAN, block_total : Nat, crc : SUBSET BlockIds]
RcvState == [pc : {"add", "close", "meta"}, added : BOOLEAN, file_error : BOOLEAN,
             files_add : Seq(FileNos), files_close : Seq(FileNos),
             files_complete : Seq(Entry), nodir : SUBSET FileNos]

\* The shapes of the variables.
Records ==
    /\ stage \in [FileNos -> {"none", "table", "done"}]
    /\ head \in Nat
    /\ offset \in [FileNos -> Nat]
    /\ tx \in [Conns -> FileNos \cup {NoFile}]
    /\ fc \in FcState
    /\ snd \in SndState
    /\ data \in [Conns -> Seq(BlockIds)]
    /\ tometa \in Seq(Message)
    /\ backmeta \in Seq(Seq(Entry))
    /\ rx \in [Conns -> RxState]
    /\ file_stat \in [FileNos -> FsState]
    /\ disk \in [FileNos -> SUBSET BlockIds]
    /\ leaked \in Nat
    /\ files_hash \in [FileNos -> Nat \cup {-1}]
    /\ rcv \in RcvState

\* What the sender's counters and messages keep to.
SenderInv ==
    /\ head <= NFiles
    /\ \A f \in FileNos : offset[f] <= Blocks[f]
    /\ fc.in1 <= Len(fc.pushed) /\ fc.in2 <= fc.in1
    /\ fc.out1 <= fc.in1 /\ fc.out2 <= fc.in2
    /\ snd.files_sent <= NFiles
    /\ \A c \in Conns : Len(data[c]) <= ConnCap
    /\ snd.pc = "verify" => snd.todo # << >>
    /\ snd.pc = "complete" => snd.files_ok >= NFiles
    /\ \A i \in 1 .. Len(backmeta) : backmeta[i] # << >>

\* The limits of the receiver, and what it knows of block counts.
ReceiverInv ==
    /\ Fds <= FdLimit /\ Cardinality(Stored) <= RxSlots
    /\ rcv.file_error => rcv.files_add # << >> /\ rcv.pc # "add"
    /\ \A f \in FileNos : files_hash[f] \in {-1, Blocks[f]}

\* Blocks under way.  A block that was sent and is not on disk yet is awaited.
SameBlock(a, b) == a[1] = b[1] /\ a[2] = b[2]
Awaited(b) == /\ b \in BlockIds
              /\ b[2] < offset[b[1]]
              /\ \A x \in disk[b[1]] : x[2] # b[2]
WireInv == \A c \in Conns : \A i \in 1 .. Len(data[c]) : Awaited(data[c][i])

\* What a receive worker has in hand at each program counter.
HandInv ==
    \A c \in Conns :
       /\ rx[c].pc = "recv" <=> rx[c].block = NoBlock
       /\ rx[c].pc \in {"wait", "write"} => Awaited(rx[c].block)
       /\ rx[c].pc = "count" => rx[c].block \in disk[rx[c].block[1]]
       /\ rx[c].pc \in {"write", "count"} => file_stat[rx[c].block[1]].in
                                             /\ rx[c].file_cur = rx[c].block[1]

\* No block is under way twice.
WireOnce ==
    \A c, d \in Conns : \A i \in 1 .. Len(data[c]), j \in 1 .. Len(data[d]) :
       SameBlock(data[c][i], data[d][j]) => c = d /\ i = j
HandOnce ==
    \A c, d \in Conns : rx[c].pc # "recv" /\ SameBlock(rx[c].block, rx[d].block) => c = d
WireOrHand ==
    \A c, d \in Conns : \A i \in 1 .. Len(data[c]) : ~SameBlock(data[c][i], rx[d].block)

\* A file on disk holds blocks that were sent, each offset once.
DiskInv ==
    \A f \in FileNos :
       /\ \A x \in disk[f] : x[1] = f /\ x[2] < offset[f]
       /\ \A x, y \in disk[f] : x[2] = y[2] => x = y

\* The account of a file in the receiver's table: its checksum covers what is on
\* disk, its number of blocks what is on disk and not still to be counted.
OnDisk(f) == {x[2] : x \in disk[f]}
Counted(f) ==
    {o \in OnDisk(f) : \A c \in Conns :
        ~(rx[c].pc = "count" /\ rx[c].block[1] = f /\ rx[c].block[2] = o)}
AccountInv ==
    \A f \in FileNos : file_stat[f].in =>
       /\ file_stat[f].crc = disk[f]
       /\ file_stat[f].block_total = Cardinality(Counted(f))

FlightInv == WireInv /\ HandInv /\ WireOnce /\ HandOnce /\ WireOrHand /\ DiskInv /\ AccountInv

\* The life of a file at the receiver and of its confirmation: not announced,
\* announced, waiting to be opened, in the table, closed, confirmed by a message,
\* being verified, verified; or refused by open(2).
Before == {"unsent", "spec", "add", "refused"}
Closed == {"complete", "back", "todo", "ok"}
Lives  == Before \cup {"in"} \cup Closed

\* Announcements: every file is announced and opened once.
Distinct(q) == \A i, j \in 1 .. Len(q) : q[i] = q[j] => i = j
AddOnce ==
    /\ Distinct(rcv.files_add)
    /\ \A i, j \in 1 .. Len(tometa) : tometa[i].kind = "spec" /\ tometa[j].kind = "spec" =>
          \A k \in 1 .. Len(tometa[i].files), l \in 1 .. Len(tometa[j].files) :
             tometa[i].files[k] = tometa[j].files[l] => i = j /\ k = l
Announced(life) ==
    /\ \A f \in FileNos : f > snd.files_sent => life[f] = "unsent"
    /\ \A i \in 1 .. Len(tometa) : tometa[i].kind = "spec" =>
          \A k \in 1 .. Len(tometa[i].files) : life[tometa[i].files[k]] = "spec"
    /\ \A k \in 1 .. Len(rcv.files_add) : life[rcv.files_add[k]] = "add"
    /\ \A f \in FileNos : file_stat[f].in <=> life[f] = "in"

\* Confirmations: every closed file is confirmed once, with the checksum of what
\* is on disk.
Fits(e, life, where) ==
    /\ life[e.fino] = IF e.errno THEN "refused" ELSE where
    /\ ~e.errno => e.crc = disk[e.fino]
SameFile(d, e) == ~d.errno /\ ~e.errno /\ d.fino = e.fino
ConfirmOnce ==
    /\ \A i, j \in 1 .. Len(rcv.files_complete) :
          rcv.files_complete[i].fino = rcv.files_complete[j].fino => i = j
    /\ \A i, j \in 1 .. Len(backmeta) :
          \A k \in 1 .. Len(backmeta[i]), l \in 1 .. Len(backmeta[j]) :
             SameFile(backmeta[i][k], backmeta[j][l]) => i = j /\ k = l
    /\ \A i, j \in 1 .. Len(snd.todo) : SameFile(snd.todo[i], snd.todo[j]) => i = j
Confirmed(life) ==
    /\ \A i \in 1 .. Len(rcv.files_complete) :
          ~rcv.files_complete[i].errno /\ Fits(rcv.files_complete[i], life, "complete")
    /\ \A i \in 1 .. Len(backmeta) : \A k \in 1 .. Len(backmeta[i]) :
          Fits(backmeta[i][k], life, "back")
    /\ \A i \in 1 .. Len(snd.todo) : Fits(snd.todo[i], life, "todo")
    /\ snd.files_ok = Cardinality({f \in FileNos : life[f] = "ok"})

\* What is on disk at each moment of a file's life.
Content(life) ==
    \A f \in FileNos :
       /\ life[f] \in Before => disk[f] = {} /\ \A c \in Conns : rx[c].file_cur # f
       /\ life[f] \in Closed => OnDisk(f) = 0 .. Blocks[f] - 1
       /\ life[f] = "ok" => disk[f] = Whole(f)

Life(life) == /\ life \in [FileNos -> Lives]
              /\ Announced(life) /\ Confirmed(life) /\ Content(life)
LifeInv == AddOnce /\ ConfirmOnce /\ \E life : Life(life)

IInv == Records /\ SenderInv /\ ReceiverInv /\ FlightInv /\ LifeInv

-----------------------------------------------------------------------------
(* Lemmas: sequences, intervals, sorted sequences.                         *)

LEMMA TailOf ==
    ASSUME NEW S, NEW q \in Seq(S), q # << >>
    PROVE  /\ Len(q) \in Nat \ {0} /\ Head(q) = q[1] /\ q[1] \in S
           /\ Tail(q) \in Seq(S) /\ Len(Tail(q)) = Len(q) - 1
           /\ \A i \in 1 .. Len(Tail(q)) : i + 1 \in 1 .. Len(q) /\ Tail(q)[i] = q[i + 1]
<1>1. Len(q) \in Nat \ {0}  BY EmptySeq
<1>2. Head(q) = q[1] /\ q[1] \in S  BY <1>1, ElementOfSeq
<1>3. Tail(q) \in Seq(S) /\ Len(Tail(q)) = Len(q) - 1  BY HeadTailProperties
<1>4. ASSUME NEW i \in 1 .. Len(Tail(q)) PROVE i + 1 \in 1 .. Len(q) /\ Tail(q)[i] = q[i + 1]
  BY <1>1, <1>3, <1>4
<1> QED  BY <1>1, <1>2, <1>3, <1>4

LEMMA AppendOf ==
    ASSUME NEW S, NEW q \in Seq(S), NEW e \in S
    PROVE  /\ Append(q, e) \in Seq(S) /\ Len(q) \in Nat
           /\ Len(Append(q, e)) = Len(q) + 1 /\ Append(q, e)[Len(q) + 1] = e
           /\ \A i \in 1 .. Len(q) : Append(q, e)[i] = q[i]
           /\ \A i \in 1 .. Len(Append(q, e)) : i \in 1 .. Len(q) \/ i = Len(q) + 1
BY AppendProperties, LenProperties

LEMMA FilesFinite ==
    ASSUME NEW T \in SUBSET FileNos
    PROVE  IsFiniteSet(T) /\ Cardinality(T) \in 0 .. NFiles
           /\ (Cardinality(T) = NFiles => T = FileNos)
<1>1. IsFiniteSet(FileNos) /\ Cardinality(FileNos) = NFiles
  BY TransferAssumption, FS_Interval DEF FileNos
<1>2. IsFiniteSet(T) /\ Cardinality(T) <= NFiles /\ (Cardinality(T) = NFiles => T = FileNos)
  BY <1>1, FS_Subset
<1>3. Cardinality(T) \in Nat  BY <1>2, FS_CardinalityType
<1> QED  BY <1>2, <1>3

LEMMA FilesNat == \A f \in FileNos : f \in Nat /\ f # NoFile
BY TransferAssumption DEF FileNos, NoFile

LEMMA LeastNat ==
    ASSUME NEW T \in SUBSET Nat, T # {}
    PROVE  \E m \in T : \A y \in T : m <= y
<1>1. PICK m \in T : \A y \in T : ~(<<y, m>> \in OpToRel(<, Nat))
  BY NatLessThanWellFounded, WFMin
<1>2. \A y \in T : ~(y < m)  BY <1>1 DEF OpToRel
<1> QED  BY <1>2

\* Ascending(T) exists for every set of file numbers.
Sorted(T) == {q \in [1 .. Cardinality(T) -> T] : \A i, j \in DOMAIN q : i < j => q[i] < q[j]}
LEMMA SortedExists == \A T \in SUBSET FileNos : Sorted(T) # {}
<1> DEFINE Bad == {n \in Nat : \E T \in SUBSET FileNos : Cardinality(T) = n /\ Sorted(T) = {}}
<1> SUFFICES ASSUME Bad # {} PROVE FALSE  BY FilesFinite
<1>1. PICK n \in Bad : \A m \in Bad : n <= m
  <2> HIDE DEF Bad
  <2>1. Bad \in SUBSET Nat  BY DEF Bad
  <2> QED  BY <2>1, LeastNat
<1>2. PICK T \in SUBSET FileNos : Cardinality(T) = n /\ Sorted(T) = {}  OBVIOUS
<1>3. n \in Nat /\ \A m \in Nat : m < n => m \notin Bad
  <2> HIDE DEF Bad
  <2>1. n \in Nat  BY DEF Bad
  <2> QED  BY <1>1, <2>1
<1>4. n # 0
  <2> SUFFICES ASSUME n = 0 PROVE FALSE  OBVIOUS
  <2>1. T = {}  BY <1>2, FilesFinite, FS_EmptySet
  <2> DEFINE q == [i \in 1 .. 0 |-> 0]
  <2>2. q \in [1 .. Cardinality(T) -> T]  BY <1>2
  <2>3. q \in Sorted(T)  BY <2>2 DEF Sorted
  <2> QED  BY <1>2, <2>3
<1>5. T # {} /\ T \in SUBSET Nat  BY <1>2, <1>4, FS_EmptySet, FilesNat
<1>6. PICK a \in T : \A x \in T : a <= x  BY <1>5, LeastNat
<1>7. \A x \in T : x # a => a < x  BY <1>5, <1>6
<1> DEFINE U == T \ {a}
<1>8. U \in SUBSET FileNos /\ Cardinality(U) = n - 1
  BY <1>2, FilesFinite, FS_RemoveElement
<1>9. Sorted(U) # {}
  <2>1. n - 1 \in Nat /\ n - 1 < n  BY <1>3, <1>4
  <2>2. n - 1 \notin Bad  BY <1>3, <2>1
  <2> QED  BY <1>8, <2>1, <2>2
<1>10. PICK q : q \in Sorted(U)  BY <1>9
<1>11. /\ q \in [1 .. n - 1 -> U]
       /\ \A i, j \in 1 .. n - 1 : i < j => q[i] < q[j]
  BY <1>8, <1>10 DEF Sorted
<1> DEFINE r == [i \in 1 .. n |-> IF i = 1 THEN a ELSE q[i - 1]]
<1>12. r \in [1 .. n -> T]
  <2>1. ASSUME NEW i \in 1 .. n, i # 1 PROVE q[i - 1] \in T
    BY <1>3, <1>11, <2>1
  <2> QED  BY <2>1, <1>6
<1>13. ASSUME NEW i \in 1 .. n, NEW j \in 1 .. n, i < j PROVE r[i] < r[j]
  <2>1. j # 1 /\ j - 1 \in 1 .. n - 1 /\ r[j] = q[j - 1]  BY <1>3, <1>13
  <2>2. CASE i = 1
    BY <1>7, <1>11, <2>1, <2>2
  <2>3. CASE i # 1
    <3>1. i - 1 \in 1 .. n - 1 /\ r[i] = q[i - 1] /\ i - 1 < j - 1  BY <1>3, <1>13, <2>3
    <3> QED  BY <1>11, <2>1, <3>1
  <2> QED  BY <2>2, <2>3
<1> HIDE DEF r
<1>14. r \in Sorted(T)  BY <1>2, <1>12, <1>13 DEF Sorted
<1> QED  BY <1>2, <1>14

LEMMA AscendingOf ==
    ASSUME NEW T \in SUBSET FileNos
    PROVE  /\ Ascending(T) \in Seq(FileNos)
           /\ \A i \in 1 .. Len(Ascending(T)) : Ascending(T)[i] \in T
           /\ Distinct(Ascending(T))
<1> DEFINE q == Ascending(T)
<1>1. q \in [1 .. Cardinality(T) -> T] /\ \A i, j \in DOMAIN q : i < j => q[i] < q[j]
  BY SortedExists DEF Sorted, Ascending
<1> HIDE DEF q
<1>2. Cardinality(T) \in Nat  BY FilesFinite
<1>3. Len(q) = Cardinality(T) /\ q \in Seq(T)  BY <1>1, <1>2
<1>4. q \in Seq(FileNos)  BY <1>3, SeqMonotonic
<1>5. \A i \in 1 .. Len(q) : q[i] \in T  BY <1>1, <1>3
<1>6. Distinct(q)
  <2> SUFFICES ASSUME NEW i \in 1 .. Len(q), NEW j \in 1 .. Len(q), q[i] = q[j] PROVE i = j
    BY DEF Distinct
  <2>1. q[i] \in Nat  BY <1>5, FilesNat
  <2>2. ~(i < j) /\ ~(j < i)  BY <1>1, <1>3, <2>1
  <2> QED  BY <1>2, <1>3, <2>2
<1> QED  BY <1>4, <1>5, <1>6 DEF q

-----------------------------------------------------------------------------
(* Blocks under way: FlightInv.                                             *)

LEMMA Blocky == \A b \in BlockIds : b[1] \in FileNos /\ b[2] \in Nat /\ b # NoBlock /\ b[1] # NoFile
<1>1. \A b \in BlockIds : b[1] \in FileNos /\ b[2] \in Nat  BY DEF BlockIds
<1>2. NoBlock[1] = NoFile  BY DEF NoBlock
<1> QED  BY <1>1, <1>2, FilesNat

LEMMA NoBlockIs == NoBlock[1] = NoFile /\ NoFile \notin FileNos
BY FilesNat DEF NoBlock

\* The state of blocks under way is left alone.
LEMMA FlightKept ==
    ASSUME FlightInv, offset' = offset, data' = data, rx' = rx, disk' = disk,
           file_stat' = file_stat
    PROVE  FlightInv'
<1>1. WireInv' /\ HandInv'  BY DEF FlightInv, WireInv, HandInv, Awaited
<1>2. WireOnce' /\ HandOnce' /\ WireOrHand' /\ DiskInv'
  BY DEF FlightInv, WireOnce, HandOnce, WireOrHand, DiskInv
<1>3. AccountInv'
  <2>1. \A f \in FileNos : Counted(f)' = Counted(f)  BY DEF Counted, OnDisk
  <2> QED  BY <2>1 DEF FlightInv, AccountInv
<1> QED  BY <1>1, <1>2, <1>3 DEF FlightInv

\* A block is sent: it gets the next offset, which no block under way and none on
\* disk has.
LEMMA SendBlockFacts ==
    ASSUME Records, NEW c \in Conns, SendBlock(c)
    PROVE  \E f \in FileNos, b \in BlockIds :
              /\ b[1] = f /\ b[2] = offset[f] /\ offset[f] < Blocks[f]
              /\ Len(data[c]) < ConnCap
              /\ data' = [data EXCEPT ![c] = Append(data[c], b)]
              /\ offset' = [offset EXCEPT ![f] = offset[f] + 1]
              /\ UNCHANGED <<stage, head, tx, fc, snd, tometa, backmeta, rxvars, rcvars>>
<1>1. tx[c] \in FileNos  BY DEF SendBlock, At
<1>2. PICK good \in BOOLEAN :
         data' = [data EXCEPT ![c] = Append(@, <<tx[c], offset[tx[c]], good>>)]
  BY DEF SendBlock
<1>3. <<tx[c], offset[tx[c]], good>> \in BlockIds  BY <1>1 DEF Records, BlockIds
<1> QED  BY <1>1, <1>2, <1>3 DEF SendBlock

LEMMA SendBlockFlight ==
    ASSUME Records, FlightInv, NEW c \in Conns, SendBlock(c)
    PROVE  FlightInv'
<1>1. PICK f \in FileNos, b \in BlockIds :
         /\ b[1] = f /\ b[2] = offset[f]
         /\ data' = [data EXCEPT ![c] = Append(data[c], b)]
         /\ offset' = [offset EXCEPT ![f] = offset[f] + 1]
         /\ UNCHANGED rxvars
  BY SendBlockFacts
<1>2. data \in [Conns -> Seq(BlockIds)] /\ offset \in [FileNos -> Nat]
      /\ rx \in [Conns -> RxState]
  BY DEF Records
<1>3. \A g \in FileNos : offset'[g] \in Nat /\ offset[g] <= offset'[g]  BY <1>1, <1>2
<1>4. rx' = rx /\ disk' = disk /\ file_stat' = file_stat  BY <1>1 DEF rxvars
<1> DEFINE n == Len(data[c]) + 1
<1>5. /\ Len(data'[c]) = n /\ data'[c][n] = b /\ n \in Nat
      /\ \A i \in 1 .. n : i # n => i \in 1 .. Len(data[c]) /\ data'[c][i] = data[c][i]
  <2>1. data'[c] = Append(data[c], b) /\ data[c] \in Seq(BlockIds)  BY <1>1, <1>2
  <2> QED  BY <2>1, AppendOf
<1>6. \A d \in Conns : d # c => data'[d] = data[d]  BY <1>1, <1>2
<1> HIDE DEF n
\* A block on the new connections is an old one or b.
<1>7. ASSUME NEW d \in Conns, NEW i \in 1 .. Len(data'[d])
      PROVE  \/ d = c /\ i = n /\ data'[d][i] = b
             \/ i \in 1 .. Len(data[d]) /\ data'[d][i] = data[d][i] /\ ~(d = c /\ i = n)
  BY <1>5, <1>6, <1>7
<1>8. \A x \in BlockIds : Awaited(x) => Awaited(x)' /\ ~SameBlock(x, b)
  BY <1>1, <1>2, <1>3, <1>4, Blocky DEF Awaited, SameBlock
<1>9. Awaited(b)'
  <2>1. b[2] < offset'[b[1]]  BY <1>1, <1>2
  <2>2. \A x \in disk[f] : x[2] # b[2]
    BY <1>1, <1>2, Blocky DEF FlightInv, DiskInv
  <2> QED  BY <1>1, <1>4, <2>1, <2>2 DEF Awaited
<1>10. \A d \in Conns, i \in Nat : i \in 1 .. Len(data[d]) =>
          Awaited(data[d][i]) /\ data[d][i] \in BlockIds
  BY DEF FlightInv, WireInv, Awaited
<1>11. WireInv'
  BY <1>7, <1>8, <1>9, <1>10 DEF WireInv
<1>12. HandInv'
  <2>1. ASSUME NEW d \in Conns, rx[d].pc \in {"wait", "write"} PROVE Awaited(rx[d].block)'
    <3>1. PICK x : x = rx[d].block  OBVIOUS
    <3>2. Awaited(x)'  BY <1>8, <2>1, <3>1 DEF FlightInv, HandInv, Awaited
    <3> QED  BY <1>4, <3>1, <3>2 DEF Awaited
  <2> QED  BY <1>4, <2>1 DEF FlightInv, HandInv
<1>13. WireOnce'
  <2> SUFFICES ASSUME NEW d \in Conns, NEW e \in Conns, NEW i \in 1 .. Len(data'[d]),
                      NEW j \in 1 .. Len(data'[e]), SameBlock(data'[d][i], data'[e][j])
               PROVE  d = e /\ i = j
    BY DEF WireOnce
  <2>1. SameBlock(data'[e][j], data'[d][i])  BY DEF SameBlock
  <2>2. CASE d = c /\ i = n  BY <1>7, <1>8, <1>10, <2>1, <2>2
  <2>3. CASE e = c /\ j = n  BY <1>7, <1>8, <1>10, <2>1, <2>3
  <2>4. CASE ~(d = c /\ i = n) /\ ~(e = c /\ j = n)
    BY <1>7, <2>4 DEF FlightInv, WireOnce
  <2> QED  BY <2>2, <2>3, <2>4
<1>14. HandOnce'  BY <1>4 DEF FlightInv, HandOnce
<1>15. WireOrHand'
  <2> SUFFICES ASSUME NEW d \in Conns, NEW e \in Conns, NEW i \in 1 .. Len(data'[d]),
                      SameBlock(data'[d][i], rx[e].block)
               PROVE  FALSE
    BY <1>4 DEF WireOrHand
  <2>1. d = c /\ i = n /\ data'[d][i] = b  BY <1>7 DEF FlightInv, WireOrHand
  <2>2. SameBlock(rx[e].block, b)  BY <2>1 DEF SameBlock
  <2>3. rx[e].block # NoBlock  BY <2>2, Blocky, NoBlockIs DEF SameBlock
  <2>4. rx[e].block \in BlockIds /\ rx[e].pc \in {"wait", "write", "count"}
    BY <1>2, <2>3 DEF FlightInv, HandInv, RxState
  <2>5. CASE rx[e].pc = "count"
    <3>1. rx[e].block[1] = f /\ rx[e].block \in disk[f]
      BY <1>1, <2>2, <2>5 DEF FlightInv, HandInv, SameBlock
    <3>2. rx[e].block[2] < offset[f]  BY <3>1 DEF FlightInv, DiskInv
    <3> QED  BY <1>1, <1>2, <2>2, <3>2 DEF SameBlock
  <2>6. CASE rx[e].pc # "count"
    BY <1>8, <2>2, <2>4, <2>6 DEF FlightInv, HandInv
  <2> QED  BY <2>5, <2>6
<1>16. DiskInv'
  BY <1>2, <1>3, <1>4, Blocky DEF FlightInv, DiskInv, Records
<1>17. AccountInv'
  <2>1. \A g \in FileNos : Counted(g)' = Counted(g)  BY <1>4 DEF Counted, OnDisk
  <2> QED  BY <1>4, <2>1 DEF FlightInv, AccountInv
<1> QED  BY <1>11, <1>12, <1>13, <1>14, <1>15, <1>16, <1>17 DEF FlightInv

\* A worker takes a block off its connection.
LEMMA RxRecvFacts ==
    ASSUME Records, NEW c \in Conns, RxRecv(c)
    PROVE  \E b \in BlockIds :
              /\ data[c] \in Seq(BlockIds) /\ data[c] # << >> /\ b = data[c][1]
              /\ rx[c].pc = "recv"
              /\ rx' \in [Conns -> RxState]
              /\ rx'[c].block = b /\ rx'[c].file_cur = rx[c].file_cur
              /\ rx'[c].pc = IF rx[c].file_cur = b[1] THEN "write" ELSE "wait"
              /\ \A d \in Conns : d # c => rx'[d] = rx[d]
              /\ data' = [data EXCEPT ![c] = Tail(data[c])]
              /\ UNCHANGED <<txvars, fc, snd, tometa, backmeta, file_stat, disk, rcvars>>
<1>1. data[c] \in Seq(BlockIds) /\ data[c] # << >>  BY DEF Records, RxRecv
<1>2. PICK b \in BlockIds : b = data[c][1] /\ Head(data[c]) = b  BY <1>1, TailOf
<1>3. PICK p \in {"write", "wait"} : p = IF rx[c].file_cur = b[1] THEN "write" ELSE "wait"
  OBVIOUS
<1>4. rx' = [rx EXCEPT ![c] = [rx[c] EXCEPT !.block = b, !.pc = p]]
  BY <1>2, <1>3 DEF RxRecv, Records
<1>5. rx \in [Conns -> RxState]  BY DEF Records
<1>6. [rx[c] EXCEPT !.block = b, !.pc = p] \in RxState  BY <1>5 DEF RxState
<1>7. rx'[c] = [rx[c] EXCEPT !.block = b, !.pc = p] /\ rx' \in [Conns -> RxState]
      /\ \A d \in Conns : d # c => rx'[d] = rx[d]
  BY <1>4, <1>5, <1>6
<1>8. rx'[c].block = b /\ rx'[c].file_cur = rx[c].file_cur /\ rx'[c].pc = p
  BY <1>5, <1>7 DEF RxState
<1> QED  BY <1>1, <1>2, <1>3, <1>7, <1>8 DEF RxRecv

LEMMA RxRecvFlight ==
    ASSUME Records, FlightInv, NEW c \in Conns, RxRecv(c),
           rx[c].file_cur = data[c][1][1] => file_stat[data[c][1][1]].in
    PROVE  FlightInv'
<1>1. PICK b \in BlockIds :
         /\ data[c] \in Seq(BlockIds) /\ data[c] # << >> /\ b = data[c][1]
         /\ rx[c].pc = "recv"
         /\ rx'[c].block = b /\ rx'[c].file_cur = rx[c].file_cur
         /\ rx'[c].pc = IF rx[c].file_cur = b[1] THEN "write" ELSE "wait"
         /\ \A d \in Conns : d # c => rx'[d] = rx[d]
         /\ data' = [data EXCEPT ![c] = Tail(data[c])]
         /\ UNCHANGED <<txvars, file_stat, disk>>
  BY RxRecvFacts
<1>2. offset' = offset /\ file_stat' = file_stat /\ disk' = disk  BY <1>1 DEF txvars
<1>3. data \in [Conns -> Seq(BlockIds)]  BY DEF Records
<1>4. /\ 1 \in 1 .. Len(data[c])
      /\ \A i \in 1 .. Len(data'[c]) : i + 1 \in 1 .. Len(data[c]) /\ i + 1 # 1
                                       /\ data'[c][i] = data[c][i + 1]
      /\ \A d \in Conns : d # c => data'[d] = data[d]
  <2>1. data'[c] = Tail(data[c])  BY <1>1, <1>3
  <2> QED  BY <1>1, <1>3, <2>1, TailOf
<1>5. \A x : Awaited(x)' <=> Awaited(x)  BY <1>2 DEF Awaited
\* A block on the new connections has a place on the old ones, which is not
\* that of b.
<1>6. ASSUME NEW d \in Conns, NEW i \in 1 .. Len(data'[d])
      PROVE  \E j \in 1 .. Len(data[d]) :
                /\ data'[d][i] = data[d][j] /\ ~(d = c /\ j = 1)
                /\ j = IF d = c THEN i + 1 ELSE i
  BY <1>4, <1>6
<1>7. Awaited(b)  BY <1>1, <1>4 DEF FlightInv, WireInv
<1>8. WireInv'  BY <1>5, <1>6 DEF FlightInv, WireInv
<1>9. HandInv'
  <2> SUFFICES ASSUME NEW d \in Conns
      PROVE /\ rx'[d].pc = "recv" <=> rx'[d].block = NoBlock
            /\ rx'[d].pc \in {"wait", "write"} => Awaited(rx[d].block)'
            /\ rx'[d].pc = "count" => rx'[d].block \in disk'[rx'[d].block[1]]
            /\ rx'[d].pc \in {"write", "count"} => file_stat'[rx'[d].block[1]].in
                                             /\ rx'[d].file_cur = rx'[d].block[1]
    BY DEF HandInv
  <2>1. CASE d = c
    <3>1. Awaited(rx[d].block)'  BY <1>1, <1>2, <1>7, <2>1 DEF Awaited
    <3> QED  BY <1>1, <1>2, <2>1, <3>1, Blocky
  <2>2. CASE d # c
    <3>1. rx[d].pc \in {"wait", "write"} => Awaited(rx[d].block)'
      BY <1>1, <1>2, <2>2 DEF Awaited, FlightInv, HandInv
    <3> QED  BY <1>1, <1>2, <2>2, <3>1 DEF FlightInv, HandInv
  <2> QED  BY <2>1, <2>2
<1>10. WireOnce'
  <2> SUFFICES ASSUME NEW d \in Conns, NEW e \in Conns, NEW i \in 1 .. Len(data'[d]),
                      NEW j \in 1 .. Len(data'[e]), SameBlock(data'[d][i], data'[e][j])
               PROVE  d = e /\ i = j
    BY DEF WireOnce
  <2>1. PICK k \in 1 .. Len(data[d]) :
           data'[d][i] = data[d][k] /\ k = IF d = c THEN i + 1 ELSE i
    BY <1>6
  <2>2. PICK l \in 1 .. Len(data[e]) :
           data'[e][j] = data[e][l] /\ l = IF e = c THEN j + 1 ELSE j
    BY <1>6
  <2>3. d = e /\ k = l  BY <2>1, <2>2 DEF FlightInv, WireOnce
  <2> QED  BY <2>1, <2>2, <2>3
<1>11. \A d \in Conns : d # c => ~SameBlock(b, rx[d].block) /\ ~SameBlock(rx[d].block, b)
  BY <1>1, <1>4 DEF FlightInv, WireOrHand, SameBlock
<1>12. HandOnce'
  <2> SUFFICES ASSUME NEW d \in Conns, NEW e \in Conns, rx'[d].pc # "recv",
                      SameBlock(rx'[d].block, rx'[e].block)
               PROVE  d = e
    BY DEF HandOnce
  <2>1. CASE d = c \/ e = c  BY <1>1, <1>11, <2>1
  <2>2. CASE d # c /\ e # c  BY <1>1, <2>2 DEF FlightInv, HandOnce
  <2> QED  BY <2>1, <2>2
<1>13. WireOrHand'
  <2> SUFFICES ASSUME NEW d \in Conns, NEW e \in Conns, NEW i \in 1 .. Len(data'[d]),
                      SameBlock(data'[d][i], rx'[e].block)
               PROVE  FALSE
    BY DEF WireOrHand
  <2>1. PICK k \in 1 .. Len(data[d]) : data'[d][i] = data[d][k] /\ ~(d = c /\ k = 1)
    BY <1>6
  <2>2. CASE e = c
    <3>1. SameBlock(data[d][k], data[c][1])  BY <1>1, <2>1, <2>2
    <3> QED  BY <1>4, <2>1, <3>1 DEF FlightInv, WireOnce
  <2>3. CASE e # c  BY <1>1, <2>1, <2>3 DEF FlightInv, WireOrHand
  <2> QED  BY <2>2, <2>3
<1>14. DiskInv'  BY <1>2 DEF FlightInv, DiskInv
<1>15. AccountInv'
  <2>1. \A d \in Conns : rx'[d].pc = "count" \/ rx[d].pc = "count" =>
           rx'[d].pc = rx[d].pc /\ rx'[d].block = rx[d].block
    BY <1>1
  <2>2. \A g \in FileNos : Counted(g)' = Counted(g)  BY <1>2, <2>1 DEF Counted, OnDisk
  <2> QED  BY <1>2, <2>2 DEF FlightInv, AccountInv
<1> QED  BY <1>8, <1>9, <1>10, <1>12, <1>13, <1>14, <1>15 DEF FlightInv

\* The other steps of a worker.
LEMMA RxFacts ==
    ASSUME Records, FlightInv, NEW c \in Conns, RxWait(c) \/ RxWrite(c) \/ RxCount(c)
    PROVE  \E b \in BlockIds, f \in FileNos :
              /\ b = rx[c].block /\ f = b[1]
              /\ rx[c].pc = "wait" \/ rx[c].file_cur = f
              /\ rx' \in [Conns -> RxState]
              /\ rx'[c].pc = IF rx[c].pc = "wait" THEN "write"
                             ELSE IF rx[c].pc = "write" THEN "count" ELSE "recv"
              /\ rx'[c].block = IF rx[c].pc = "count" THEN NoBlock ELSE b
              /\ rx'[c].file_cur = f
              /\ file_stat[f].in
              /\ \A d \in Conns : d # c => rx'[d] = rx[d]
<1>1. rx \in [Conns -> RxState] /\ rx[c] \in RxState  BY DEF Records
<1>2. rx[c].pc \in {"wait", "write", "count"}  BY DEF RxWait, RxWrite, RxCount
<1>3. rx[c].block # NoBlock  BY <1>2 DEF FlightInv, HandInv
<1>4. PICK b \in BlockIds : b = rx[c].block  BY <1>1, <1>3 DEF RxState
<1>5. PICK f \in FileNos : f = b[1]  BY Blocky
<1>6. rx[c].pc # "wait" => rx[c].file_cur = f /\ file_stat[f].in
  BY <1>2, <1>4, <1>5 DEF FlightInv, HandInv
<1>7. CASE RxWait(c)
  <2>1. rx[c].pc = "wait" /\ file_stat[f].in  BY <1>4, <1>5, <1>7 DEF RxWait
  <2>2. rx' = [rx EXCEPT ![c] = [rx[c] EXCEPT !.pc = "write", !.file_cur = f]]
    BY <1>1, <1>4, <1>5, <1>7 DEF RxWait
  <2>3. rx'[c] = [rx[c] EXCEPT !.pc = "write", !.file_cur = f] /\ rx'[c] \in RxState
    BY <1>1, <2>2 DEF RxState
  <2> QED  BY <1>1, <1>4, <1>5, <2>1, <2>2, <2>3 DEF RxState
<1>8. CASE RxWrite(c)
  <2>1. rx[c].pc = "write"  BY <1>8 DEF RxWrite
  <2>2. rx' = [rx EXCEPT ![c] = [rx[c] EXCEPT !.pc = "count"]]  BY <1>1, <1>8 DEF RxWrite
  <2>3. rx'[c] = [rx[c] EXCEPT !.pc = "count"] /\ rx'[c] \in RxState
    BY <1>1, <2>2 DEF RxState
  <2> QED  BY <1>1, <1>4, <1>5, <1>6, <2>1, <2>2, <2>3 DEF RxState
<1>9. CASE RxCount(c)
  <2>1. rx[c].pc = "count"  BY <1>9 DEF RxCount
  <2>2. rx' = [rx EXCEPT ![c] = [rx[c] EXCEPT !.pc = "recv", !.block = NoBlock]]
    BY <1>1, <1>9 DEF RxCount
  <2>3. rx'[c] = [rx[c] EXCEPT !.pc = "recv", !.block = NoBlock] /\ rx'[c] \in RxState
    BY <1>1, <2>2 DEF RxState
  <2> QED  BY <1>1, <1>4, <1>5, <1>6, <2>1, <2>2, <2>3 DEF RxState
<1> QED  BY <1>7, <1>8, <1>9

\* Which of the blocks under way is not the block in the hands of a worker.
LEMMA OtherBlocks ==
    ASSUME FlightInv, NEW c \in Conns
    PROVE  /\ \A d \in Conns : \A i \in 1 .. Len(data[d]) : ~SameBlock(data[d][i], rx[c].block)
           /\ \A d \in Conns : d # c /\ rx[d].pc # "recv" => ~SameBlock(rx[d].block, rx[c].block)
BY DEF FlightInv, WireOrHand, HandOnce

LEMMA RxWaitFlight ==
    ASSUME Records, FlightInv, NEW c \in Conns, RxWait(c)
    PROVE  FlightInv'
<1>1. PICK b \in BlockIds, f \in FileNos :
         /\ b = rx[c].block /\ f = b[1]
         /\ rx'[c].pc = IF rx[c].pc = "wait" THEN "write"
                        ELSE IF rx[c].pc = "write" THEN "count" ELSE "recv"
         /\ rx'[c].block = IF rx[c].pc = "count" THEN NoBlock ELSE b
         /\ rx'[c].file_cur = f
         /\ file_stat[f].in
         /\ \A d \in Conns : d # c => rx'[d] = rx[d]
  BY RxFacts
<1>2. rx[c].pc = "wait" /\ rx'[c].pc = "write"  BY <1>1 DEF RxWait
<1>3. offset' = offset /\ disk' = disk /\ data' = data /\ file_stat' = file_stat
  BY DEF RxWait, txvars
<1>4. \A d \in Conns : rx'[d].block = rx[d].block  BY <1>1, <1>2
<1>5. WireInv'  BY <1>3 DEF FlightInv, WireInv, Awaited
<1>6. HandInv'
  <2> SUFFICES ASSUME NEW d \in Conns
      PROVE /\ rx'[d].pc = "recv" <=> rx'[d].block = NoBlock
            /\ rx'[d].pc \in {"wait", "write"} => Awaited(rx[d].block)'
            /\ rx'[d].pc = "count" => rx'[d].block \in disk'[rx'[d].block[1]]
            /\ rx'[d].pc \in {"write", "count"} => file_stat'[rx'[d].block[1]].in
                                             /\ rx'[d].file_cur = rx'[d].block[1]
    BY DEF HandInv
  <2>1. rx'[d].pc \in {"wait", "write"} => Awaited(rx[d].block)'
    BY <1>1, <1>2, <1>3, <1>4 DEF Awaited, FlightInv, HandInv
  <2>2. CASE d = c  BY <1>1, <1>2, <1>3, <2>1, <2>2, Blocky
  <2>3. CASE d # c  BY <1>1, <1>3, <2>1, <2>3 DEF FlightInv, HandInv
  <2> QED  BY <2>2, <2>3
<1>7. WireOnce'  BY <1>3 DEF FlightInv, WireOnce
<1>8. HandOnce'
  <2>1. \A d \in Conns : rx'[d].pc # "recv" => rx[d].pc # "recv"  BY <1>1, <1>2
  <2> QED  BY <1>4, <2>1 DEF FlightInv, HandOnce
<1>9. WireOrHand'  BY <1>3, <1>4 DEF FlightInv, WireOrHand
<1>10. DiskInv'  BY <1>3 DEF FlightInv, DiskInv
<1>11. AccountInv'
  <2>1. \A d \in Conns : rx'[d].pc = "count" <=> rx[d].pc = "count"  BY <1>1, <1>2
  <2>2. \A g \in FileNos : Counted(g)' = Counted(g)  BY <1>3, <1>4, <2>1 DEF Counted, OnDisk
  <2> QED  BY <1>3, <2>2 DEF FlightInv, AccountInv
<1> QED  BY <1>5, <1>6, <1>7, <1>8, <1>9, <1>10, <1>11 DEF FlightInv

\* A block is hashed and written: it was in neither before.
LEMMA RxWriteFlight ==
    ASSUME Records, FlightInv, NEW c \in Conns, RxWrite(c)
    PROVE  FlightInv'
<1>1. PICK b \in BlockIds, f \in FileNos :
         /\ b = rx[c].block /\ f = b[1]
         /\ rx[c].pc = "wait" \/ rx[c].file_cur = f
         /\ rx'[c].pc = IF rx[c].pc = "wait" THEN "write"
                        ELSE IF rx[c].pc = "write" THEN "count" ELSE "recv"
         /\ rx'[c].block = IF rx[c].pc = "count" THEN NoBlock ELSE b
         /\ rx'[c].file_cur = f
         /\ file_stat[f].in
         /\ \A d \in Conns : d # c => rx'[d] = rx[d]
  BY RxFacts
<1>2. rx[c].pc = "write" /\ rx'[c].pc = "count"  BY <1>1 DEF RxWrite
<1>3. offset' = offset /\ data' = data  BY DEF RxWrite, txvars
<1>4. disk' = [disk EXCEPT ![f] = disk[f] \cup {b}]
      /\ file_stat' = [file_stat EXCEPT ![f] = [file_stat[f] EXCEPT !.crc = Xor(file_stat[f].crc, b)]]
  BY <1>1 DEF RxWrite
<1>5. disk \in [FileNos -> SUBSET BlockIds] /\ file_stat \in [FileNos -> FsState]  BY DEF Records
<1>6. /\ disk'[f] = disk[f] \cup {b}
      /\ \A g \in FileNos : g # f => disk'[g] = disk[g] /\ file_stat'[g] = file_stat[g]
      /\ \A g \in FileNos : file_stat'[g].in = file_stat[g].in
                            /\ file_stat'[g].block_total = file_stat[g].block_total
      /\ file_stat'[f].crc = Xor(file_stat[f].crc, b)
  BY <1>4, <1>5 DEF FsState
<1>7. \A d \in Conns : rx'[d].block = rx[d].block  BY <1>1, <1>2
<1>8. Awaited(b)  BY <1>1, <1>2 DEF FlightInv, HandInv
<1>9. ASSUME NEW x, Awaited(x), ~SameBlock(x, b) PROVE Awaited(x)'
  <2>1. CASE x[1] = f
    BY <1>1, <1>3, <1>6, <1>9, <2>1 DEF Awaited, SameBlock
  <2>2. CASE x[1] # f
    BY <1>3, <1>6, <1>9, <2>2, Blocky DEF Awaited
  <2> QED  BY <2>1, <2>2
<1>10. WireInv'
  BY <1>1, <1>3, <1>9, OtherBlocks DEF FlightInv, WireInv
<1>11. HandInv'
  <2> SUFFICES ASSUME NEW d \in Conns
      PROVE /\ rx'[d].pc = "recv" <=> rx'[d].block = NoBlock
            /\ rx'[d].pc \in {"wait", "write"} => Awaited(rx[d].block)'
            /\ rx'[d].pc = "count" => rx'[d].block \in disk'[rx'[d].block[1]]
            /\ rx'[d].pc \in {"write", "count"} => file_stat'[rx'[d].block[1]].in
                                             /\ rx'[d].file_cur = rx'[d].block[1]
    BY DEF HandInv
  <2>1. CASE d = c  BY <1>1, <1>2, <1>6, <2>1, Blocky
  <2>2. CASE d # c
    <3>1. PICK x : x = rx[d].block  OBVIOUS
    <3>2. rx'[d] = rx[d]  BY <1>1, <2>2
    <3>3. rx[d].pc \in {"wait", "write"} => Awaited(x)'
      BY <1>1, <1>9, <2>2, <3>1, OtherBlocks DEF FlightInv, HandInv
    <3>4. rx[d].pc \in {"wait", "write"} => Awaited(rx[d].block)'
      BY <3>1, <3>2, <3>3 DEF Awaited
    <3>5. rx[d].pc # "recv" => x \in BlockIds /\ x[1] \in FileNos
      <4>1. rx[d].pc # "recv" => x # NoBlock  BY <3>1 DEF FlightInv, HandInv
      <4>2. x \in BlockIds \cup {NoBlock}  BY <3>1 DEF Records, RxState
      <4> QED  BY <4>1, <4>2, Blocky
    <3>6. \A g \in FileNos : disk[g] \subseteq disk'[g]  BY <1>6
    <3> QED  BY <1>6, <3>1, <3>2, <3>4, <3>5, <3>6 DEF FlightInv, HandInv
  <2> QED  BY <2>1, <2>2
<1>12. WireOnce'  BY <1>3 DEF FlightInv, WireOnce
<1>13. HandOnce'
  <2>1. \A d \in Conns : rx'[d].pc # "recv" => rx[d].pc # "recv"  BY <1>1, <1>2
  <2> QED  BY <1>7, <2>1 DEF FlightInv, HandOnce
<1>14. WireOrHand'  BY <1>3, <1>7 DEF FlightInv, WireOrHand
<1>15. DiskInv'
  <2>1. b[1] = f /\ b[2] < offset[f] /\ \A x \in disk[f] : x[2] # b[2]
    BY <1>1, <1>8 DEF Awaited
  <2> QED  BY <1>3, <1>6, <2>1 DEF FlightInv, DiskInv
<1>16. AccountInv'
  <2> SUFFICES ASSUME NEW g \in FileNos, file_stat[g].in
               PROVE  /\ file_stat'[g].crc = disk'[g]
                      /\ file_stat'[g].block_total = Cardinality(Counted(g)')
    BY <1>6 DEF AccountInv
  <2>1. file_stat[g].crc = disk[g] /\ file_stat[g].block_total = Cardinality(Counted(g))
    BY DEF FlightInv, AccountInv
  <2>2. file_stat'[g].crc = disk'[g]
    <3>1. b \notin disk[f]  BY <1>1, <1>8 DEF Awaited
    <3> QED  BY <1>6, <2>1, <3>1 DEF Xor
  <2>3. Counted(g)' = Counted(g)
    <3>1. CASE g = f
      <4>1. b[2] \notin OnDisk(f) /\ OnDisk(f)' = OnDisk(f) \cup {b[2]}
        BY <1>1, <1>6, <1>8 DEF OnDisk, Awaited
      <4>2. \A o \in OnDisk(f) : \A d \in Conns :
               (rx'[d].pc = "count" /\ rx'[d].block[1] = f /\ rx'[d].block[2] = o)
                 <=> (rx[d].pc = "count" /\ rx[d].block[1] = f /\ rx[d].block[2] = o)
        BY <1>1, <1>2, <4>1
      <4> QED  BY <1>1, <1>2, <3>1, <4>1, <4>2 DEF Counted
    <3>2. CASE g # f
      <4>1. OnDisk(g)' = OnDisk(g)  BY <1>6, <3>2 DEF OnDisk
      <4>2. \A d \in Conns : (rx'[d].pc = "count" /\ rx'[d].block[1] = g)
                 <=> (rx[d].pc = "count" /\ rx[d].block[1] = g)
        BY <1>1, <1>2, <3>2
      <4> QED  BY <1>7, <4>1, <4>2 DEF Counted
    <3> QED  BY <3>1, <3>2
  <2> QED  BY <1>6, <2>1, <2>2, <2>3
<1> QED  BY <1>10, <1>11, <1>12, <1>13, <1>14, <1>15, <1>16 DEF FlightInv

\* The blocks of a file that have been counted are among those sent.
LEMMA CountedFinite ==
    ASSUME Records, SenderInv, FlightInv, NEW f \in FileNos
    PROVE  /\ OnDisk(f) \subseteq 0 .. Blocks[f] - 1
           /\ IsFiniteSet(Counted(f)) /\ Cardinality(Counted(f)) \in 0 .. Blocks[f]
           /\ Cardinality(Counted(f)) = Blocks[f] => Counted(f) = 0 .. Blocks[f] - 1
<1> DEFINE B == Blocks[f]
           I == 0 .. B - 1
<1>1. B \in Nat /\ offset[f] \in Nat /\ offset[f] <= B
  BY TransferAssumption DEF Records, SenderInv
<1>2. OnDisk(f) \subseteq I
  <2> SUFFICES ASSUME NEW x \in disk[f] PROVE x[2] \in I  BY DEF OnDisk
  <2>1. x \in BlockIds  BY DEF Records
  <2>2. x[2] \in Nat /\ x[2] < offset[f]  BY <2>1, Blocky DEF FlightInv, DiskInv
  <2> QED  BY <1>1, <2>2
<1>3. Counted(f) \in SUBSET I  BY <1>2 DEF Counted
<1>4. IsFiniteSet(I) /\ Cardinality(I) = B
  <2> HIDE DEF B
  <2>1. B - 1 \in Int /\ B \in Nat  BY <1>1
  <2>2. IsFiniteSet(I) /\ Cardinality(I) = IF 0 > B - 1 THEN 0 ELSE B - 1 - 0 + 1
    BY <2>1, FS_Interval
  <2> QED  BY <2>1, <2>2
<1>5. IsFiniteSet(Counted(f)) /\ Cardinality(Counted(f)) <= B
      /\ (Cardinality(Counted(f)) = B => Counted(f) = I)
  BY <1>3, <1>4, FS_Subset
<1>6. Cardinality(Counted(f)) \in Nat  BY <1>5, FS_CardinalityType
<1> QED  BY <1>1, <1>2, <1>5, <1>6

LEMMA RxCountFlight ==
    ASSUME Records, SenderInv, FlightInv, NEW c \in Conns, RxCount(c)
    PROVE  FlightInv'
<1>1. PICK b \in BlockIds, f \in FileNos :
         /\ b = rx[c].block /\ f = b[1]
         /\ rx'[c].pc = IF rx[c].pc = "wait" THEN "write"
                        ELSE IF rx[c].pc = "write" THEN "count" ELSE "recv"
         /\ rx'[c].block = IF rx[c].pc = "count" THEN NoBlock ELSE b
         /\ file_stat[f].in
         /\ \A d \in Conns : d # c => rx'[d] = rx[d]
  BY RxFacts
<1>2. rx[c].pc = "count" /\ rx'[c].pc = "recv" /\ rx'[c].block = NoBlock
  BY <1>1 DEF RxCount
<1>3. offset' = offset /\ data' = data /\ disk' = disk  BY DEF RxCount, txvars
<1>4. file_stat' = [file_stat EXCEPT ![f] =
                      [file_stat[f] EXCEPT !.block_total = file_stat[f].block_total + 1]]
  BY <1>1 DEF RxCount
<1>5. file_stat \in [FileNos -> FsState]  BY DEF Records
<1>6. /\ \A g \in FileNos : g # f => file_stat'[g] = file_stat[g]
      /\ \A g \in FileNos : file_stat'[g].in = file_stat[g].in
                            /\ file_stat'[g].crc = file_stat[g].crc
      /\ file_stat'[f].block_total = file_stat[f].block_total + 1
  BY <1>4, <1>5 DEF FsState
<1>7. WireInv'  BY <1>3 DEF FlightInv, WireInv, Awaited
<1>8. HandInv'
  <2> SUFFICES ASSUME NEW d \in Conns
      PROVE /\ rx'[d].pc = "recv" <=> rx'[d].block = NoBlock
            /\ rx'[d].pc \in {"wait", "write"} => Awaited(rx[d].block)'
            /\ rx'[d].pc = "count" => rx'[d].block \in disk'[rx'[d].block[1]]
            /\ rx'[d].pc \in {"write", "count"} => file_stat'[rx'[d].block[1]].in
                                             /\ rx'[d].file_cur = rx'[d].block[1]
    BY DEF HandInv
  <2>1. CASE d = c  BY <1>2, <2>1
  <2>2. CASE d # c
    <3>1. rx'[d] = rx[d]  BY <1>1, <2>2
    <3>2. rx[d].pc # "recv" => rx[d].block[1] \in FileNos
      <4>1. rx[d].pc # "recv" => rx[d].block # NoBlock  BY DEF FlightInv, HandInv
      <4>2. rx[d].block \in BlockIds \cup {NoBlock}  BY DEF Records, RxState
      <4> QED  BY <4>1, <4>2, Blocky
    <3>3. rx'[d].pc \in {"wait", "write"} => Awaited(rx[d].block)'
      BY <1>3, <3>1 DEF Awaited, FlightInv, HandInv
    <3> QED  BY <1>3, <1>6, <3>1, <3>2, <3>3 DEF FlightInv, HandInv
  <2> QED  BY <2>1, <2>2
<1>9. WireOnce'  BY <1>3 DEF FlightInv, WireOnce
<1>10. HandOnce'
  <2> SUFFICES ASSUME NEW d \in Conns, NEW e \in Conns, rx'[d].pc # "recv",
                      SameBlock(rx'[d].block, rx'[e].block)
               PROVE  d = e
    BY DEF HandOnce
  <2>1. d # c /\ rx'[d] = rx[d]  BY <1>1, <1>2
  <2>2. CASE e = c
    <3>1. rx[d].block # NoBlock  BY <2>1 DEF FlightInv, HandInv
    <3>2. rx[d].block \in BlockIds  BY <3>1 DEF Records, RxState
    <3> QED  BY <1>2, <2>1, <2>2, <3>2, Blocky, NoBlockIs DEF SameBlock
  <2>3. CASE e # c  BY <1>1, <2>1, <2>3 DEF FlightInv, HandOnce
  <2> QED  BY <2>2, <2>3
<1>11. WireOrHand'
  <2> SUFFICES ASSUME NEW d \in Conns, NEW e \in Conns, NEW i \in 1 .. Len(data[d]),
                      SameBlock(data[d][i], rx'[e].block)
               PROVE  FALSE
    BY <1>3 DEF WireOrHand
  <2>1. data[d][i] \in BlockIds  BY DEF FlightInv, WireInv, Awaited
  <2>2. CASE e = c  BY <1>2, <2>1, <2>2, Blocky, NoBlockIs DEF SameBlock
  <2>3. CASE e # c  BY <1>1, <2>3 DEF FlightInv, WireOrHand
  <2> QED  BY <2>2, <2>3
<1>12. DiskInv'  BY <1>3 DEF FlightInv, DiskInv
<1>13. AccountInv'
  <2> SUFFICES ASSUME NEW g \in FileNos, file_stat[g].in
               PROVE  /\ file_stat'[g].crc = disk'[g]
                      /\ file_stat'[g].block_total = Cardinality(Counted(g)')
    BY <1>6 DEF AccountInv
  <2>1. file_stat[g].crc = disk[g] /\ file_stat[g].block_total = Cardinality(Counted(g))
    BY DEF FlightInv, AccountInv
  <2>2. OnDisk(g)' = OnDisk(g)  BY <1>3 DEF OnDisk
  <2>3. CASE g = f
    <3>1. b \in disk[f]  BY <1>1, <1>2 DEF FlightInv, HandInv
    <3>2. b[2] \in OnDisk(f)  BY <3>1 DEF OnDisk
    <3>3. b[2] \notin Counted(f)  BY <1>1, <1>2 DEF Counted
    <3>4. \A d \in Conns : d # c =>
             ~(rx[d].pc = "count" /\ rx[d].block[1] = f /\ rx[d].block[2] = b[2])
      BY <1>1, OtherBlocks DEF SameBlock
    <3>5. Counted(f)' = Counted(f) \cup {b[2]}
      BY <1>1, <1>2, <2>2, <2>3, <3>2, <3>4 DEF Counted
    <3>6. Cardinality(Counted(f)') = Cardinality(Counted(f)) + 1
      BY <3>3, <3>5, CountedFinite, FS_AddElement
    <3> QED  BY <1>3, <1>6, <2>1, <2>3, <3>6
  <2>4. CASE g # f
    <3>1. Counted(g)' = Counted(g)  BY <1>1, <1>2, <2>2, <2>4 DEF Counted
    <3> QED  BY <1>3, <1>6, <2>1, <2>4, <3>1
  <2> QED  BY <2>3, <2>4
<1> QED  BY <1>7, <1>8, <1>9, <1>10, <1>11, <1>12, <1>13 DEF FlightInv

\* A file enters the table.
LEMMA EnterFlight ==
    ASSUME Records, FlightInv, NEW f \in FileNos, disk[f] = {}, ~file_stat[f].in,
           file_stat' = [file_stat EXCEPT ![f] = [Absent EXCEPT !.in = TRUE]],
           offset' = offset, data' = data, rx' = rx, disk' = disk
    PROVE  FlightInv'
<1>1. file_stat \in [FileNos -> FsState]  BY DEF Records
<1>2. /\ file_stat'[f].in /\ file_stat'[f].crc = {} /\ file_stat'[f].block_total = 0
      /\ \A g \in FileNos : g # f => file_stat'[g] = file_stat[g]
  BY <1>1 DEF Absent
<1>3. WireInv' /\ WireOnce' /\ HandOnce' /\ WireOrHand' /\ DiskInv'
  BY DEF FlightInv, WireInv, WireOnce, HandOnce, WireOrHand, DiskInv, Awaited
<1>4. HandInv'
  <2>1. \A d \in Conns : rx[d].pc \in {"write", "count"} => rx[d].block[1] \in FileNos
    <3>1. ASSUME NEW d \in Conns, rx[d].pc \in {"write", "count"} PROVE rx[d].block[1] \in FileNos
      <4>1. rx[d].block # NoBlock  BY <3>1 DEF FlightInv, HandInv
      <4>2. rx[d].block \in BlockIds  BY <4>1 DEF Records, RxState
      <4> QED  BY <4>2, Blocky
    <3> QED  BY <3>1
  <2>2. \A d \in Conns : rx[d].pc \in {"wait", "write"} => Awaited(rx[d].block)'
    BY DEF FlightInv, HandInv, Awaited
  <2> QED  BY <1>2, <2>1, <2>2 DEF FlightInv, HandInv
<1>5. AccountInv'
  <2>1. \A g \in FileNos : Counted(g)' = Counted(g)  BY DEF Counted, OnDisk
  <2>2. Cardinality(Counted(f)) = 0
    <3>1. Counted(f) = {}  BY DEF Counted, OnDisk
    <3> QED  BY <3>1, FS_EmptySet
  <2> QED  BY <1>2, <2>1, <2>2 DEF FlightInv, AccountInv
<1> QED  BY <1>3, <1>4, <1>5 DEF FlightInv

\* A file whose number of blocks is known and reached is whole, and nothing of it
\* is under way.
LEMMA ClosableWhole ==
    ASSUME Records, SenderInv, ReceiverInv, FlightInv, NEW f \in FileNos, Closable(f)
    PROVE  /\ file_stat[f].in /\ file_stat[f].block_total = Blocks[f]
           /\ OnDisk(f) = 0 .. Blocks[f] - 1
           /\ \A c \in Conns : rx[c].block[1] # f
           /\ \A c \in Conns : \A i \in 1 .. Len(data[c]) : data[c][i][1] # f
<1>1. Blocks[f] \in Nat /\ offset[f] \in Nat /\ offset[f] <= Blocks[f]
  BY TransferAssumption DEF Records, SenderInv
<1>2. file_stat[f].in /\ files_hash[f] = Blocks[f] /\ file_stat[f].block_total >= Blocks[f]
  BY <1>1 DEF Closable, ReceiverInv
<1>3. file_stat[f].block_total = Cardinality(Counted(f))  BY <1>2 DEF FlightInv, AccountInv
<1>4. Cardinality(Counted(f)) = Blocks[f] /\ Counted(f) = 0 .. Blocks[f] - 1
  BY <1>1, <1>2, <1>3, CountedFinite
<1>5. OnDisk(f) = 0 .. Blocks[f] - 1  BY <1>4, CountedFinite DEF Counted
<1>6. ASSUME NEW b, Awaited(b), b[1] = f PROVE FALSE
  <2>1. b[2] \in 0 .. Blocks[f] - 1  BY <1>1, <1>6, Blocky DEF Awaited
  <2> QED  BY <1>5, <1>6, <2>1 DEF OnDisk, Awaited
<1>7. ASSUME NEW c \in Conns, rx[c].block[1] = f PROVE FALSE
  <2>1. rx[c].block # NoBlock  BY <1>7, NoBlockIs
  <2>2. rx[c].pc \in {"wait", "write", "count"} /\ rx[c].block \in BlockIds
    BY <2>1 DEF FlightInv, HandInv, Records, RxState
  <2>3. CASE rx[c].pc = "count"
    <3>1. rx[c].block \in disk[f]  BY <1>7, <2>3 DEF FlightInv, HandInv
    <3>2. rx[c].block[2] \in OnDisk(f)  BY <3>1 DEF OnDisk
    <3>3. rx[c].block[2] \in Counted(f)  BY <1>4, <1>5, <3>2
    <3> QED  BY <1>7, <2>3, <3>3 DEF Counted
  <2>4. CASE rx[c].pc # "count"
    BY <1>6, <1>7, <2>2, <2>4 DEF FlightInv, HandInv
  <2> QED  BY <2>3, <2>4
<1>8. \A c \in Conns : \A i \in 1 .. Len(data[c]) : data[c][i][1] # f
  BY <1>6 DEF FlightInv, WireInv
<1> QED  BY <1>2, <1>3, <1>4, <1>5, <1>7, <1>8

\* A file leaves the table.
LEMMA LeaveFlight ==
    ASSUME Records, FlightInv, NEW f \in FileNos, \A c \in Conns : rx[c].block[1] # f,
           file_stat' = [file_stat EXCEPT ![f] = Absent],
           offset' = offset, data' = data, rx' = rx, disk' = disk
    PROVE  FlightInv'
<1>1. file_stat \in [FileNos -> FsState]  BY DEF Records
<1>2. ~file_stat'[f].in /\ \A g \in FileNos : g # f => file_stat'[g] = file_stat[g]
  BY <1>1 DEF Absent
<1>3. WireInv' /\ WireOnce' /\ HandOnce' /\ WireOrHand' /\ DiskInv'
  BY DEF FlightInv, WireInv, WireOnce, HandOnce, WireOrHand, DiskInv, Awaited
<1>4. HandInv'
  <2>1. ASSUME NEW d \in Conns, rx[d].pc \in {"write", "count"}
        PROVE  rx[d].block[1] \in FileNos /\ rx[d].block[1] # f
    <3>1. rx[d].block # NoBlock  BY <2>1 DEF FlightInv, HandInv
    <3>2. rx[d].block \in BlockIds  BY <3>1 DEF Records, RxState
    <3> QED  BY <3>2, Blocky
  <2>2. \A d \in Conns : rx[d].pc \in {"wait", "write"} => Awaited(rx[d].block)'
    BY DEF FlightInv, HandInv, Awaited
  <2> QED  BY <1>2, <2>1, <2>2 DEF FlightInv, HandInv
<1>5. AccountInv'
  <2>1. \A g \in FileNos : Counted(g)' = Counted(g)  BY DEF Counted, OnDisk
  <2> QED  BY <1>2, <2>1 DEF FlightInv, AccountInv
<1> QED  BY <1>3, <1>4, <1>5 DEF FlightInv

-----------------------------------------------------------------------------
(* The lives of files: LifeInv.                                             *)

LEMMA FileTypes ==
    ASSUME Records
    PROVE  /\ tometa \in Seq(Message) /\ backmeta \in Seq(Seq(Entry))
           /\ rcv.files_add \in Seq(FileNos) /\ rcv.files_complete \in Seq(Entry)
           /\ snd.todo \in Seq(Entry)
           /\ \A k \in 1 .. Len(rcv.files_add) : rcv.files_add[k] \in FileNos
           /\ \A i \in 1 .. Len(tometa) : /\ tometa[i].files \in Seq(FileNos)
                 /\ \A k \in 1 .. Len(tometa[i].files) : tometa[i].files[k] \in FileNos
           /\ \A i \in 1 .. Len(rcv.files_complete) : rcv.files_complete[i] \in Entry
           /\ \A i \in 1 .. Len(backmeta) : /\ backmeta[i] \in Seq(Entry)
                 /\ \A k \in 1 .. Len(backmeta[i]) : backmeta[i][k] \in Entry
           /\ \A i \in 1 .. Len(snd.todo) : snd.todo[i] \in Entry
<1>1. /\ tometa \in Seq(Message) /\ backmeta \in Seq(Seq(Entry))
      /\ rcv.files_add \in Seq(FileNos) /\ rcv.files_complete \in Seq(Entry)
      /\ snd.todo \in Seq(Entry)
  BY DEF Records, RcvState, SndState
<1>2. \A i \in 1 .. Len(tometa) : tometa[i].files \in Seq(FileNos)
  <2>1. \A i \in 1 .. Len(tometa) : tometa[i] \in Message  BY <1>1, ElementOfSeq
  <2> QED  BY <2>1 DEF Message
<1>3. \A i \in 1 .. Len(backmeta) : backmeta[i] \in Seq(Entry)
  BY <1>1, ElementOfSeq
<1> QED  BY <1>1, <1>2, <1>3, ElementOfSeq

\* Confirmations are the same if the lives of confirmed and refused files are.
LEMMA ConfirmKept ==
    ASSUME Records, NEW l, NEW m, Confirmed(l),
           \A f \in FileNos : l[f] \in {"complete", "back", "todo", "ok", "refused"} => m[f] = l[f],
           \A f \in FileNos : m[f] = "ok" => l[f] = "ok",
           \A f \in FileNos : l[f] \in {"complete", "back", "todo"} => disk'[f] = disk[f],
           snd'.files_ok = snd.files_ok, snd'.todo = snd.todo, backmeta' = backmeta,
           rcv'.files_complete = rcv.files_complete
    PROVE  Confirmed(m)'
<1>1. ASSUME NEW e \in Entry, NEW p \in {"complete", "back", "todo"}, Fits(e, l, p)
      PROVE  m[e.fino] = (IF e.errno THEN "refused" ELSE p) /\ (~e.errno => e.crc = disk'[e.fino])
  BY <1>1 DEF Fits, Entry
<1>2. \A i \in 1 .. Len(rcv.files_complete) :
         /\ ~rcv.files_complete[i].errno
         /\ m[rcv.files_complete[i].fino] = "complete"
         /\ rcv.files_complete[i].crc = disk'[rcv.files_complete[i].fino]
  BY <1>1, FileTypes DEF Confirmed
<1>3. \A i \in 1 .. Len(backmeta) : \A k \in 1 .. Len(backmeta[i]) :
         /\ m[backmeta[i][k].fino] = IF backmeta[i][k].errno THEN "refused" ELSE "back"
         /\ ~backmeta[i][k].errno => backmeta[i][k].crc = disk'[backmeta[i][k].fino]
  BY <1>1, FileTypes DEF Confirmed
<1>4. \A i \in 1 .. Len(snd.todo) :
         /\ m[snd.todo[i].fino] = IF snd.todo[i].errno THEN "refused" ELSE "todo"
         /\ ~snd.todo[i].errno => snd.todo[i].crc = disk'[snd.todo[i].fino]
  BY <1>1, FileTypes DEF Confirmed
<1>5. snd.files_ok = Cardinality({f \in FileNos : m[f] = "ok"})
  <2>1. {f \in FileNos : m[f] = "ok"} = {f \in FileNos : l[f] = "ok"}  OBVIOUS
  <2> QED  BY <2>1 DEF Confirmed
<1> QED  BY <1>2, <1>3, <1>4, <1>5 DEF Confirmed, Fits

LEMMA LifeKept ==
    ASSUME LifeInv, snd'.files_sent = snd.files_sent, snd'.files_ok = snd.files_ok,
           snd'.todo = snd.todo, tometa' = tometa, backmeta' = backmeta,
           rcv'.files_add = rcv.files_add, rcv'.files_complete = rcv.files_complete,
           disk' = disk, \A f \in FileNos : file_stat'[f].in = file_stat[f].in,
           \A c \in Conns : rx'[c].file_cur = rx[c].file_cur
    PROVE  LifeInv'
<1>1. PICK life : Life(life)  BY DEF LifeInv
<1>2. AddOnce' /\ ConfirmOnce'
  BY DEF LifeInv, AddOnce, ConfirmOnce, Distinct
<1>3. Announced(life)'  BY <1>1 DEF Life, Announced
<1>4. Confirmed(life)'  BY <1>1 DEF Life, Confirmed, Fits
<1>5. Content(life)'  BY <1>1 DEF Life, Content, OnDisk
<1> QED  BY <1>1, <1>2, <1>3, <1>4, <1>5 DEF Life, LifeInv

\* A worker goes on to a file that is in the table, or writes to it.
LEMMA WorkLife ==
    ASSUME Records, LifeInv, NEW f \in FileNos, file_stat[f].in,
           UNCHANGED <<snd, tometa, backmeta, rcv>>,
           \A g \in FileNos : g # f => disk'[g] = disk[g],
           \A g \in FileNos : file_stat'[g].in = file_stat[g].in,
           \A c \in Conns : rx'[c].file_cur = rx[c].file_cur \/ rx'[c].file_cur = f
    PROVE  LifeInv'
<1>1. PICK life : Life(life)  BY DEF LifeInv
<1>2. AddOnce' /\ ConfirmOnce'
  BY DEF LifeInv, AddOnce, ConfirmOnce, Distinct
<1>3. Announced(life)'  BY <1>1 DEF Life, Announced
<1>4. life[f] = "in"  BY <1>1 DEF Life, Announced
<1>7. Confirmed(life)'
  <2>1. \A g \in FileNos : life[g] \in {"complete", "back", "todo"} => disk'[g] = disk[g]
    BY <1>4
  <2> QED  BY <1>1, <2>1, ConfirmKept DEF Life
<1>8. Content(life)'
  <2> SUFFICES ASSUME NEW g \in FileNos
               PROVE  /\ life[g] \in Before => disk'[g] = {} /\ \A c \in Conns : rx'[c].file_cur # g
                      /\ life[g] \in Closed => OnDisk(g)' = 0 .. Blocks[g] - 1
                      /\ life[g] = "ok" => disk'[g] = Whole(g)
    BY DEF Content
  <2>1. life[f] \notin Before \cup Closed /\ life[f] # "ok"  BY <1>4 DEF Before, Closed
  <2>2. CASE g = f  BY <2>1, <2>2
  <2>3. CASE g # f  BY <1>1, <2>3 DEF Life, Content, OnDisk
  <2> QED  BY <2>2, <2>3
<1> QED  BY <1>1, <1>2, <1>3, <1>7, <1>8 DEF Life, LifeInv

\* iterate_files announces the next numbers.
LEMMA AnnounceFacts ==
    ASSUME Records, SenderInv, Announce
    PROVE  \E n \in FileNos, q \in Seq(FileNos) :
              /\ snd.files_sent \in Nat /\ snd.files_sent < n
              /\ Distinct(q) /\ \A i \in 1 .. Len(q) : q[i] > snd.files_sent /\ q[i] <= n
              /\ tometa' = Append(tometa, [kind |-> "spec", files |-> q])
              /\ snd' = [snd EXCEPT !.files_sent = n]
              /\ UNCHANGED <<txvars, fc, data, backmeta, rxvars, rcvars>>
<1>1. snd.files_sent \in Nat  BY DEF Records, SndState
<1>2. PICK n \in snd.files_sent + 1 .. NFiles :
         /\ tometa' = Append(tometa, Msg("spec", Ascending(snd.files_sent + 1 .. n)))
         /\ snd' = [snd EXCEPT !.files_sent = n]
  BY DEF Announce
<1>3. n \in FileNos /\ snd.files_sent < n  BY <1>1, <1>2, TransferAssumption DEF FileNos
<1> DEFINE T == snd.files_sent + 1 .. n
<1>4. T \in SUBSET FileNos /\ \A x \in T : x > snd.files_sent /\ x <= n
  BY <1>1, <1>2, TransferAssumption DEF FileNos
<1> HIDE DEF T
<1> DEFINE q == Ascending(T)
<1>5. q \in Seq(FileNos) /\ Distinct(q)
      /\ \A i \in 1 .. Len(q) : q[i] > snd.files_sent /\ q[i] <= n
  BY <1>4, AscendingOf
<1>6. tometa' = Append(tometa, [kind |-> "spec", files |-> q])  BY <1>2 DEF Msg, T
<1> HIDE DEF q
<1> QED  BY <1>1, <1>2, <1>3, <1>5, <1>6 DEF Announce

LEMMA AnnounceLife ==
    ASSUME Records, SenderInv, LifeInv, Announce
    PROVE  LifeInv'
<1>1. PICK n \in FileNos, q \in Seq(FileNos) :
         /\ snd.files_sent \in Nat /\ snd.files_sent < n
         /\ Distinct(q) /\ \A i \in 1 .. Len(q) : q[i] > snd.files_sent /\ q[i] <= n
         /\ tometa' = Append(tometa, [kind |-> "spec", files |-> q])
         /\ snd' = [snd EXCEPT !.files_sent = n]
         /\ UNCHANGED <<txvars, fc, data, backmeta, rxvars, rcvars>>
  BY AnnounceFacts
<1>2. /\ rcv' = rcv /\ backmeta' = backmeta /\ rx' = rx /\ disk' = disk /\ file_stat' = file_stat
  BY <1>1 DEF rxvars, rcvars
<1>3. snd'.files_sent = n /\ snd'.files_ok = snd.files_ok /\ snd'.todo = snd.todo
  BY <1>1 DEF Records, SndState
<1>4. PICK life : Life(life)  BY DEF LifeInv
<1>5. \A f \in FileNos : f > snd.files_sent => life[f] = "unsent"  BY <1>4 DEF Life, Announced
<1>m. PICK m : m = [f \in FileNos |->
                      IF \E i \in 1 .. Len(q) : q[i] = f THEN "spec" ELSE life[f]]
  OBVIOUS
<1>6. \A i \in 1 .. Len(q) : q[i] \in FileNos /\ life[q[i]] = "unsent" /\ m[q[i]] = "spec"
  BY <1>m, <1>1, <1>5
<1>7. /\ m \in [FileNos -> Lives]
      /\ \A f \in FileNos : m[f] = life[f] \/ (life[f] = "unsent" /\ m[f] = "spec")
  BY <1>m, <1>4, <1>6 DEF Life, Lives, Before
<1>8. \A f \in FileNos : f > n => m[f] = "unsent"
  BY <1>m, <1>1, <1>5, FilesNat
<1> DEFINE t == tometa'
           z == Len(tometa) + 1
<1>9. /\ Len(t) = z /\ t[z].kind = "spec" /\ t[z].files = q /\ z \in Nat
      /\ \A i \in 1 .. z : i # z => i \in 1 .. Len(tometa) /\ t[i] = tometa[i]
  <2>1. tometa \in Seq(Message) /\ [kind |-> "spec", files |-> q] \in Message
    BY DEF Records, Message
  <2> QED  BY <1>1, <2>1, AppendOf
<1> HIDE DEF t, z
\* The files of the old announcements.
<1>10. ASSUME NEW i \in 1 .. Len(tometa), tometa[i].kind = "spec",
              NEW k \in 1 .. Len(tometa[i].files)
       PROVE  tometa[i].files[k] \in FileNos /\ life[tometa[i].files[k]] = "spec"
  BY <1>4, <1>10, FileTypes DEF Life, Announced
<1>11. AddOnce'
  <2> SUFFICES ASSUME NEW i \in 1 .. z, NEW j \in 1 .. z, t[i].kind = "spec", t[j].kind = "spec",
                      NEW k \in 1 .. Len(t[i].files), NEW l \in 1 .. Len(t[j].files),
                      t[i].files[k] = t[j].files[l]
               PROVE  i = j /\ k = l
    BY <1>2, <1>9 DEF AddOnce, LifeInv, Distinct, t
  <2>1. CASE i = z /\ j = z  BY <1>1, <1>9, <2>1 DEF Distinct
  <2>2. CASE i # z /\ j # z
    <3>1. /\ i \in 1 .. Len(tometa) /\ t[i] = tometa[i]
          /\ j \in 1 .. Len(tometa) /\ t[j] = tometa[j]
      BY <1>9, <2>2
    <3>2. AddOnce  BY DEF LifeInv
    <3> QED  BY <3>1, <3>2 DEF AddOnce
  <2>3. CASE i = z /\ j # z
    <3>1. life[t[i].files[k]] = "unsent"  BY <1>6, <1>9, <2>3
    <3>2. life[t[j].files[l]] = "spec"  BY <1>9, <1>10, <2>3
    <3> QED  BY <3>1, <3>2
  <2>4. CASE i # z /\ j = z
    <3>1. life[t[j].files[l]] = "unsent"  BY <1>6, <1>9, <2>4
    <3>2. life[t[i].files[k]] = "spec"  BY <1>9, <1>10, <2>4
    <3> QED  BY <3>1, <3>2
  <2> QED  BY <2>1, <2>2, <2>3, <2>4
<1>12. Announced(m)'
  <2>1. ASSUME NEW i \in 1 .. z, t[i].kind = "spec", NEW k \in 1 .. Len(t[i].files)
        PROVE  m[t[i].files[k]] = "spec"
    <3>1. CASE i = z  BY <1>6, <1>9, <2>1, <3>1
    <3>2. CASE i # z
      <4>1. t[i].files[k] \in FileNos /\ life[t[i].files[k]] = "spec"  BY <1>9, <1>10, <2>1, <3>2
      <4> QED  BY <1>7, <4>1
    <3> QED  BY <3>1, <3>2
  <2>2. \A k \in 1 .. Len(rcv.files_add) : m[rcv.files_add[k]] = "add"
    <3>1. \A k \in 1 .. Len(rcv.files_add) :
             rcv.files_add[k] \in FileNos /\ life[rcv.files_add[k]] = "add"
      BY <1>4, FileTypes DEF Life, Announced
    <3> QED  BY <1>7, <3>1
  <2>3. \A f \in FileNos : file_stat[f].in <=> m[f] = "in"
    BY <1>4, <1>7 DEF Life, Announced
  <2> QED  BY <1>2, <1>3, <1>8, <1>9, <2>1, <2>2, <2>3 DEF Announced, t
<1>13. ConfirmOnce'  BY <1>2, <1>3 DEF LifeInv, ConfirmOnce
<1>14. Confirmed(m)'
  <2>1. \A f \in FileNos : life[f] \in {"complete", "back", "todo", "ok", "refused"} => m[f] = life[f]
    BY <1>7
  <2>2. \A f \in FileNos : m[f] = "ok" => life[f] = "ok"  BY <1>7
  <2>3. \A f \in FileNos : life[f] \in {"complete", "back", "todo"} => disk'[f] = disk[f]
    BY <1>2
  <2>4. Confirmed(life)  BY <1>4 DEF Life
  <2>5. rcv'.files_complete = rcv.files_complete /\ backmeta' = backmeta
        /\ snd'.files_ok = snd.files_ok /\ snd'.todo = snd.todo
    BY <1>2, <1>3
  <2> QED  BY <2>1, <2>2, <2>3, <2>4, <2>5, ConfirmKept
<1>15. Content(m)'
  BY <1>2, <1>4, <1>7 DEF Life, Content, OnDisk, Before, Closed
<1> QED  BY <1>7, <1>11, <1>12, <1>13, <1>14, <1>15 DEF LifeInv, Life

\* What is on disk fits the new lives if nothing changes there.
LEMMA ContentKept ==
    ASSUME NEW l, NEW m, Content(l), disk' = disk,
           \A c \in Conns : rx'[c].file_cur = rx[c].file_cur,
           \A f \in FileNos : m[f] \in Before => l[f] \in Before,
           \A f \in FileNos : m[f] \in Closed => l[f] \in Closed,
           \A f \in FileNos : m[f] = "ok" => l[f] = "ok"
    PROVE  Content(m)'
BY DEF Content, OnDisk

LEMMA DistinctTail ==
    ASSUME NEW S, NEW q \in Seq(S), q # << >>, Distinct(q)
    PROVE  /\ Distinct(Tail(q))
           /\ \A k \in 1 .. Len(Tail(q)) : Tail(q)[k] # q[1]
           /\ \A k \in 1 .. Len(Tail(q)) : \E j \in 1 .. Len(q) : Tail(q)[k] = q[j]
<1>1. /\ Len(q) \in Nat \ {0} /\ Len(Tail(q)) = Len(q) - 1
      /\ \A i \in 1 .. Len(Tail(q)) : i + 1 \in 1 .. Len(q) /\ Tail(q)[i] = q[i + 1]
  BY TailOf
<1>2. ASSUME NEW i \in 1 .. Len(Tail(q)), NEW j \in 1 .. Len(Tail(q)), Tail(q)[i] = Tail(q)[j]
      PROVE  i = j
  <2>1. i + 1 = j + 1  BY <1>1, <1>2 DEF Distinct
  <2> QED  BY <2>1
<1>3. ASSUME NEW i \in 1 .. Len(Tail(q)), Tail(q)[i] = q[1] PROVE FALSE
  <2>1. i + 1 = 1  BY <1>1, <1>3 DEF Distinct
  <2> QED  BY <1>1, <2>1
<1> QED  BY <1>1, <1>2, <1>3 DEF Distinct

LEMMA DistinctConcat ==
    ASSUME NEW S, NEW p \in Seq(S), NEW q \in Seq(S), Distinct(p), Distinct(q),
           \A i \in 1 .. Len(p), j \in 1 .. Len(q) : p[i] # q[j]
    PROVE  /\ Distinct(p \o q) /\ p \o q \in Seq(S)
           /\ \A k \in 1 .. Len(p \o q) : \/ \E i \in 1 .. Len(p) : (p \o q)[k] = p[i]
                                          \/ \E j \in 1 .. Len(q) : (p \o q)[k] = q[j]
<1> DEFINE r == p \o q
<1>1. /\ r \in Seq(S) /\ Len(r) = Len(p) + Len(q) /\ Len(p) \in Nat /\ Len(q) \in Nat
      /\ \A i \in 1 .. Len(p) + Len(q) : r[i] = IF i <= Len(p) THEN p[i] ELSE q[i - Len(p)]
  BY ConcatProperties, LenProperties
<1> HIDE DEF r
<1>2. \A i \in 1 .. Len(r) : IF i <= Len(p) THEN i \in 1 .. Len(p) /\ r[i] = p[i]
                             ELSE i - Len(p) \in 1 .. Len(q) /\ r[i] = q[i - Len(p)]
  BY <1>1
<1>3. ASSUME NEW i \in 1 .. Len(r), NEW j \in 1 .. Len(r), r[i] = r[j] PROVE i = j
  <2>1. CASE i <= Len(p) /\ j <= Len(p)  BY <1>2, <1>3, <2>1 DEF Distinct
  <2>2. CASE ~(i <= Len(p)) /\ ~(j <= Len(p))
    <3>1. i - Len(p) = j - Len(p)  BY <1>2, <1>3, <2>2 DEF Distinct
    <3> QED  BY <1>1, <3>1
  <2>3. CASE (i <= Len(p)) # (j <= Len(p))  BY <1>2, <1>3, <2>3
  <2> QED  BY <2>1, <2>2, <2>3
<1>4. \A k \in 1 .. Len(r) : \/ \E i \in 1 .. Len(p) : r[k] = p[i]
                             \/ \E j \in 1 .. Len(q) : r[k] = q[j]
  BY <1>2
<1> QED  BY <1>1, <1>3, <1>4 DEF Distinct, r

\* The first message to the receiver is taken.
LEMMA TometaTail ==
    ASSUME Records, LifeInv, NEW life, Life(life), tometa # << >>, tometa' = Tail(tometa)
    PROVE  /\ 1 \in 1 .. Len(tometa) /\ Head(tometa) = tometa[1]
           /\ \A i \in 1 .. Len(tometa') : i + 1 \in 1 .. Len(tometa) /\ i + 1 # 1
                                           /\ tometa'[i] = tometa[i + 1]
           /\ \A i, j \in 1 .. Len(tometa') : tometa'[i].kind = "spec" /\ tometa'[j].kind = "spec" =>
                 \A k \in 1 .. Len(tometa'[i].files), l \in 1 .. Len(tometa'[j].files) :
                    tometa'[i].files[k] = tometa'[j].files[l] => i = j /\ k = l
           /\ \A i \in 1 .. Len(tometa') : tometa'[i].kind = "spec" =>
                 \A k \in 1 .. Len(tometa'[i].files) :
                    /\ tometa'[i].files[k] \in FileNos /\ life[tometa'[i].files[k]] = "spec"
                    /\ tometa[1].kind = "spec" =>
                          \A l \in 1 .. Len(tometa[1].files) : tometa'[i].files[k] # tometa[1].files[l]
<1>1. tometa \in Seq(Message)  BY DEF Records
<1>2. /\ 1 \in 1 .. Len(tometa) /\ Head(tometa) = tometa[1]
      /\ \A i \in 1 .. Len(tometa') : i + 1 \in 1 .. Len(tometa) /\ i + 1 # 1
                                      /\ tometa'[i] = tometa[i + 1]
  BY <1>1, TailOf
<1>3. AddOnce  BY DEF LifeInv
<1>4. ASSUME NEW i \in 1 .. Len(tometa'), NEW j \in 1 .. Len(tometa'),
             tometa'[i].kind = "spec", tometa'[j].kind = "spec",
             NEW k \in 1 .. Len(tometa'[i].files), NEW l \in 1 .. Len(tometa'[j].files),
             tometa'[i].files[k] = tometa'[j].files[l]
      PROVE  i = j /\ k = l
  <2>1. i + 1 = j + 1 /\ k = l  BY <1>2, <1>3, <1>4 DEF AddOnce
  <2> QED  BY <2>1
<1>5. ASSUME NEW i \in 1 .. Len(tometa'), tometa'[i].kind = "spec",
             NEW k \in 1 .. Len(tometa'[i].files)
      PROVE  tometa'[i].files[k] \in FileNos /\ life[tometa'[i].files[k]] = "spec"
  <2>1. PICK j \in 1 .. Len(tometa) : tometa'[i] = tometa[j]  BY <1>2
  <2>2. Announced(life)  BY DEF Life
  <2>3. tometa[j].files[k] \in FileNos  BY <1>5, <2>1, FileTypes
  <2> QED  BY <1>5, <2>1, <2>2, <2>3 DEF Announced
<1>6. ASSUME NEW i \in 1 .. Len(tometa'), tometa'[i].kind = "spec",
             NEW k \in 1 .. Len(tometa'[i].files), tometa[1].kind = "spec",
             NEW l \in 1 .. Len(tometa[1].files), tometa'[i].files[k] = tometa[1].files[l]
      PROVE  FALSE
  <2>1. i + 1 = 1  BY <1>2, <1>3, <1>6 DEF AddOnce
  <2> QED  BY <1>2, <2>1
<1> QED  BY <1>2, <1>4, <1>5, <1>6

\* Announced files are put on the list of add_file.
LEMMA RecvSpecLife ==
    ASSUME Records, LifeInv, tometa # << >>, tometa[1].kind = "spec", tometa' = Tail(tometa),
           rcv'.files_add = rcv.files_add \o tometa[1].files,
           rcv'.files_complete = rcv.files_complete,
           UNCHANGED <<snd, backmeta, rx, disk, file_stat>>
    PROVE  LifeInv'
<1>1. PICK life : Life(life)  BY DEF LifeInv
<1>2. PICK q \in Seq(FileNos) : q = tometa[1].files /\ 1 \in 1 .. Len(tometa)
  BY <1>1, TometaTail, FileTypes
<1>3. \A k \in 1 .. Len(q) : q[k] \in FileNos /\ life[q[k]] = "spec"
  BY <1>1, <1>2, FileTypes DEF Life, Announced
<1>4. PICK m : m = [f \in FileNos |->
                      IF \E i \in 1 .. Len(q) : q[i] = f THEN "add" ELSE life[f]]
  OBVIOUS
<1>5. /\ \A k \in 1 .. Len(q) : m[q[k]] = "add"
      /\ m \in [FileNos -> Lives]
      /\ \A f \in FileNos : m[f] = life[f] \/ (life[f] = "spec" /\ m[f] = "add")
      /\ \A f \in FileNos : (\A k \in 1 .. Len(q) : q[k] # f) => m[f] = life[f]
  BY <1>1, <1>3, <1>4 DEF Life, Lives, Before
<1>p. PICK p : p = rcv.files_add /\ rcv'.files_add = p \o q  BY <1>2
<1>6. p \in Seq(FileNos) /\ \A k \in 1 .. Len(p) : p[k] \in FileNos /\ life[p[k]] = "add"
  BY <1>1, <1>p, FileTypes DEF Life, Announced
<1>7. Distinct(p) /\ Distinct(q)
  BY <1>2, <1>p DEF LifeInv, AddOnce, Distinct
<1>8. \A i \in 1 .. Len(p), j \in 1 .. Len(q) : p[i] # q[j]  BY <1>3, <1>6
<1>9. /\ Distinct(p \o q)
      /\ \A k \in 1 .. Len(p \o q) : \/ \E i \in 1 .. Len(p) : (p \o q)[k] = p[i]
                                     \/ \E j \in 1 .. Len(q) : (p \o q)[k] = q[j]
  BY <1>6, <1>7, <1>8, DistinctConcat
<1>10. AddOnce'
  <2>1. Distinct(rcv'.files_add)  BY <1>p, <1>9
  <2> QED  BY <1>1, <2>1, TometaTail DEF AddOnce
<1>11. ASSUME NEW k \in 1 .. Len(p \o q) PROVE m[(p \o q)[k]] = "add"
  <2>1. \A i \in 1 .. Len(p) : m[p[i]] = "add"  BY <1>5, <1>6
  <2>2. \A j \in 1 .. Len(q) : m[q[j]] = "add"  BY <1>5
  <2>3. \/ \E i \in 1 .. Len(p) : (p \o q)[k] = p[i]
        \/ \E j \in 1 .. Len(q) : (p \o q)[k] = q[j]
    BY <1>9
  <2> QED  BY <2>1, <2>2, <2>3
<1>12. Announced(m)'
  <2>1. \A f \in FileNos : f > snd.files_sent => m[f] = "unsent"
    BY <1>1, <1>5 DEF Life, Announced
  <2>2. ASSUME NEW i \in 1 .. Len(tometa'), tometa'[i].kind = "spec",
               NEW k \in 1 .. Len(tometa'[i].files)
        PROVE  m[tometa'[i].files[k]] = "spec"
    <3>1. /\ tometa'[i].files[k] \in FileNos /\ life[tometa'[i].files[k]] = "spec"
          /\ \A l \in 1 .. Len(q) : tometa'[i].files[k] # q[l]
      BY <1>1, <1>2, <2>2, TometaTail
    <3> QED  BY <1>5, <3>1
  <2>3. \A f \in FileNos : file_stat[f].in <=> m[f] = "in"
    BY <1>1, <1>5 DEF Life, Announced
  <2>4. \A k \in 1 .. Len(rcv'.files_add) : m[rcv'.files_add[k]] = "add"  BY <1>p, <1>11
  <2> QED  BY <2>1, <2>2, <2>3, <2>4 DEF Announced
<1>13. ConfirmOnce'  BY DEF LifeInv, ConfirmOnce
<1>14. Confirmed(m)'
  <2>1. \A f \in FileNos : life[f] \in {"complete", "back", "todo", "ok", "refused"} => m[f] = life[f]
    BY <1>5
  <2>2. \A f \in FileNos : m[f] = "ok" => life[f] = "ok"  BY <1>5
  <2>3. \A f \in FileNos : life[f] \in {"complete", "back", "todo"} => disk'[f] = disk[f]
    OBVIOUS
  <2>4. Confirmed(life)  BY <1>1 DEF Life
  <2>5. backmeta' = backmeta /\ snd'.files_ok = snd.files_ok /\ snd'.todo = snd.todo
    OBVIOUS
  <2> QED  BY <2>1, <2>2, <2>3, <2>4, <2>5, ConfirmKept
<1>15. Content(m)'
  BY <1>1, <1>5, ContentKept DEF Life, Before, Closed
<1> QED  BY <1>5, <1>10, <1>12, <1>13, <1>14, <1>15 DEF LifeInv, Life

\* Messages with block counts.
LEMMA CountLife ==
    ASSUME Records, LifeInv,
           \/ tometa # << >> /\ tometa[1].kind = "count" /\ tometa' = Tail(tometa)
           \/ \E q \in Seq(FileNos) : tometa' = Append(tometa, [kind |-> "count", files |-> q]),
           rcv'.files_add = rcv.files_add, rcv'.files_complete = rcv.files_complete,
           UNCHANGED <<snd, backmeta, rx, disk, file_stat>>
    PROVE  LifeInv'
<1>1. PICK life : Life(life)  BY DEF LifeInv
<1>2. /\ \A i, j \in 1 .. Len(tometa') : tometa'[i].kind = "spec" /\ tometa'[j].kind = "spec" =>
            \A k \in 1 .. Len(tometa'[i].files), l \in 1 .. Len(tometa'[j].files) :
               tometa'[i].files[k] = tometa'[j].files[l] => i = j /\ k = l
      /\ \A i \in 1 .. Len(tometa') : tometa'[i].kind = "spec" =>
            \A k \in 1 .. Len(tometa'[i].files) : life[tometa'[i].files[k]] = "spec"
  <2>1. CASE tometa # << >> /\ tometa' = Tail(tometa)
    <3>1. \A i, j \in 1 .. Len(tometa') : tometa'[i].kind = "spec" /\ tometa'[j].kind = "spec" =>
             \A k \in 1 .. Len(tometa'[i].files), l \in 1 .. Len(tometa'[j].files) :
                tometa'[i].files[k] = tometa'[j].files[l] => i = j /\ k = l
      BY <1>1, <2>1, TometaTail
    <3>2. ASSUME NEW i \in 1 .. Len(tometa'), tometa'[i].kind = "spec",
                 NEW k \in 1 .. Len(tometa'[i].files)
          PROVE  life[tometa'[i].files[k]] = "spec"
      BY <1>1, <2>1, <3>2, TometaTail
    <3> QED  BY <3>1, <3>2
  <2>2. ASSUME NEW q \in Seq(FileNos), tometa' = Append(tometa, [kind |-> "count", files |-> q])
        PROVE  \A i \in 1 .. Len(tometa') : tometa'[i].kind = "spec" =>
                  i \in 1 .. Len(tometa) /\ tometa'[i] = tometa[i]
    <3>1. tometa \in Seq(Message) /\ [kind |-> "count", files |-> q] \in Message
      BY DEF Records, Message
    <3> QED  BY <2>2, <3>1, AppendOf
  <2>3. AddOnce  BY DEF LifeInv
  <2>4. CASE \E q \in Seq(FileNos) : tometa' = Append(tometa, [kind |-> "count", files |-> q])
    BY <1>1, <2>2, <2>3, <2>4 DEF AddOnce, Life, Announced
  <2> QED  BY <2>1, <2>4
<1>3. AddOnce'  BY <1>2 DEF LifeInv, AddOnce
<1>4. Announced(life)'  BY <1>1, <1>2 DEF Life, Announced
<1>5. ConfirmOnce'  BY DEF LifeInv, ConfirmOnce
<1>6. Confirmed(life)'  BY <1>1 DEF Life, Confirmed, Fits
<1>7. Content(life)'  BY <1>1 DEF Life, Content, OnDisk
<1> QED  BY <1>1, <1>3, <1>4, <1>5, <1>6, <1>7 DEF Life, LifeInv

\* add_file is done with the first file of its list.
LEMMA PopAdd ==
    ASSUME Records, LifeInv, NEW life, Life(life), rcv.files_add # << >>, NEW m,
           m \in [FileNos -> Lives],
           \A g \in FileNos : g # rcv.files_add[1] => m[g] = life[g],
           rcv'.files_add = Tail(rcv.files_add), tometa' = tometa, snd' = snd,
           \A g \in FileNos : file_stat'[g].in <=> m[g] = "in"
    PROVE  AddOnce' /\ Announced(m)'
<1>1. PICK q \in Seq(FileNos) : q = rcv.files_add  BY FileTypes
<1>2. PICK f \in FileNos : f = q[1] /\ Head(q) = f  BY <1>1, TailOf
<1>3. Distinct(q) /\ \A k \in 1 .. Len(q) : life[q[k]] = "add" /\ q[k] \in FileNos
  BY <1>1, FileTypes DEF Life, Announced, LifeInv, AddOnce
<1>4. life[f] = "add"  BY <1>1, <1>2, <1>3, TailOf
<1>5. \A g \in FileNos : g # f => m[g] = life[g]  BY <1>1, <1>2
<1>6. /\ Distinct(Tail(q))
      /\ \A k \in 1 .. Len(Tail(q)) : Tail(q)[k] # f
      /\ \A k \in 1 .. Len(Tail(q)) : \E j \in 1 .. Len(q) : Tail(q)[k] = q[j]
  BY <1>1, <1>2, <1>3, DistinctTail
<1>7. AddOnce'
  <2>1. Distinct(rcv'.files_add)  BY <1>1, <1>6
  <2> QED  BY <2>1 DEF LifeInv, AddOnce
<1>8. Announced(m)'
  <2>1. \A g \in FileNos : g > snd'.files_sent => m[g] = "unsent"
    BY <1>4, <1>5 DEF Life, Announced
  <2>2. ASSUME NEW i \in 1 .. Len(tometa), tometa[i].kind = "spec",
               NEW k \in 1 .. Len(tometa[i].files)
        PROVE  m[tometa[i].files[k]] = "spec"
    <3>1. tometa[i].files[k] \in FileNos /\ life[tometa[i].files[k]] = "spec"
      BY <2>2, FileTypes DEF Life, Announced
    <3> QED  BY <1>4, <1>5, <3>1
  <2>3. ASSUME NEW k \in 1 .. Len(Tail(q)) PROVE m[Tail(q)[k]] = "add"
    BY <1>3, <1>5, <1>6
  <2>4. \A g \in FileNos : file_stat'[g].in <=> m[g] = "in"
    OBVIOUS
  <2> QED  BY <1>1, <2>1, <2>2, <2>3, <2>4 DEF Announced
<1> QED  BY <1>7, <1>8

LEMMA EnterLife ==
    ASSUME Records, LifeInv, rcv.files_add # << >>, rcv'.files_add = Tail(rcv.files_add),
           rcv'.files_complete = rcv.files_complete,
           file_stat' = [file_stat EXCEPT ![rcv.files_add[1]] = [Absent EXCEPT !.in = TRUE]],
           UNCHANGED <<snd, tometa, backmeta, rx, disk>>
    PROVE  /\ rcv.files_add[1] \in FileNos
           /\ disk[rcv.files_add[1]] = {} /\ ~file_stat[rcv.files_add[1]].in
           /\ LifeInv'
<1>1. PICK life : Life(life)  BY DEF LifeInv
<1>2. PICK f \in FileNos : f = rcv.files_add[1]  BY FileTypes, TailOf
<1>3. life[f] = "add" /\ ~file_stat[f].in
  <2>1. 1 \in 1 .. Len(rcv.files_add)  BY FileTypes, TailOf
  <2>2. Announced(life)  BY <1>1 DEF Life
  <2> QED  BY <1>2, <2>1, <2>2 DEF Announced
<1>4. PICK m : m = [life EXCEPT ![f] = "in"]  OBVIOUS
<1>5. /\ life[f] = "add" /\ m \in [FileNos -> Lives] /\ m[f] = "in"
      /\ \A g \in FileNos : g # f => m[g] = life[g]
      /\ AddOnce' /\ Announced(m)'
  <2>1. tometa' = tometa /\ snd' = snd  OBVIOUS
  <2>2. /\ m \in [FileNos -> Lives] /\ m[f] = "in"
        /\ \A g \in FileNos : g # f => m[g] = life[g]
    BY <1>1, <1>4 DEF Life, Lives
  <2>3. \A g \in FileNos : file_stat'[g].in <=> m[g] = "in"
    <3>1. file_stat \in [FileNos -> FsState]  BY DEF Records
    <3>2. \A g \in FileNos : file_stat[g].in <=> life[g] = "in"
      BY <1>1 DEF Life, Announced
    <3>3. \A g \in FileNos : file_stat'[g].in <=> (g = f \/ file_stat[g].in)
      BY <1>2, <3>1 DEF Absent
    <3> QED  BY <2>2, <3>2, <3>3
  <2>4. \A g \in FileNos : g # rcv.files_add[1] => m[g] = life[g]  BY <1>2, <2>2
  <2>5. AddOnce' /\ Announced(m)'  BY <1>1, <2>1, <2>2, <2>3, <2>4, PopAdd
  <2> QED  BY <1>3, <2>2, <2>5
<1>6. ConfirmOnce'  BY DEF LifeInv, ConfirmOnce
<1>7. Confirmed(m)'
  <2>1. \A g \in FileNos : life[g] \in {"complete", "back", "todo", "ok", "refused"} => m[g] = life[g]
    BY <1>5
  <2>2. \A g \in FileNos : m[g] = "ok" => life[g] = "ok"  BY <1>5
  <2>3. \A g \in FileNos : life[g] \in {"complete", "back", "todo"} => disk'[g] = disk[g]
    OBVIOUS
  <2>4. Confirmed(life)  BY <1>1 DEF Life
  <2>5. backmeta' = backmeta /\ snd'.files_ok = snd.files_ok /\ snd'.todo = snd.todo
    OBVIOUS
  <2> QED  BY <2>1, <2>2, <2>3, <2>4, <2>5, ConfirmKept
<1>8. Content(m)'
  BY <1>1, <1>5, ContentKept DEF Life, Before, Closed
<1>9. disk[f] = {} /\ ~file_stat[f].in
  BY <1>1, <1>5 DEF Life, Content, Announced, Before
<1> QED  BY <1>2, <1>5, <1>6, <1>7, <1>8, <1>9 DEF LifeInv, Life

\* A file that could not be opened is reported.
LEMMA RefuseLife ==
    ASSUME Records, LifeInv, rcv.files_add # << >>, rcv'.files_add = Tail(rcv.files_add),
           rcv'.files_complete = rcv.files_complete,
           backmeta' = Append(backmeta,
              <<[fino |-> rcv.files_add[1], crc |-> {}, errno |-> TRUE]>>),
           UNCHANGED <<snd, tometa, rx, disk, file_stat>>
    PROVE  LifeInv'
<1>1. PICK life : Life(life)  BY DEF LifeInv
<1>2. PICK f \in FileNos : f = rcv.files_add[1]  BY FileTypes, TailOf
<1>3. life[f] = "add" /\ ~file_stat[f].in
  BY <1>1, <1>2, FileTypes, TailOf DEF Life, Announced
<1>4. PICK m : m = [life EXCEPT ![f] = "refused"]  OBVIOUS
<1>5. /\ m \in [FileNos -> Lives] /\ m[f] = "refused"
      /\ \A g \in FileNos : g # f => m[g] = life[g]
      /\ AddOnce' /\ Announced(m)'
  <2>1. tometa' = tometa /\ snd' = snd  OBVIOUS
  <2>2. /\ m \in [FileNos -> Lives] /\ m[f] = "refused"
        /\ \A g \in FileNos : g # f => m[g] = life[g]
    BY <1>1, <1>4 DEF Life, Lives, Before
  <2>3. \A g \in FileNos : file_stat'[g].in <=> m[g] = "in"
    <3>1. \A g \in FileNos : file_stat[g].in <=> life[g] = "in"
      BY <1>1 DEF Life, Announced
    <3> QED  BY <1>3, <2>2, <3>1
  <2>4. \A g \in FileNos : g # rcv.files_add[1] => m[g] = life[g]  BY <1>2, <2>2
  <2>5. AddOnce' /\ Announced(m)'  BY <1>1, <2>1, <2>2, <2>3, <2>4, PopAdd
  <2> QED  BY <2>2, <2>5
<1>6. PICK e \in Entry : e = [fino |-> f, crc |-> {}, errno |-> TRUE]  BY DEF Entry
<1>7. backmeta' = Append(backmeta, <<e>>)  BY <1>2, <1>6
<1> DEFINE z == Len(backmeta) + 1
<1>8. /\ Len(backmeta') = z /\ backmeta'[z] = <<e>>
      /\ \A i \in 1 .. z : i = z \/ (i \in 1 .. Len(backmeta) /\ backmeta'[i] = backmeta[i])
  <2>1. backmeta \in Seq(Seq(Entry)) /\ <<e>> \in Seq(Entry)  BY FileTypes
  <2>2. PICK u \in Seq(Entry) : u = <<e>>  BY <2>1
  <2>3. PICK q \in Seq(Seq(Entry)) : q = backmeta  BY <2>1
  <2>4. /\ Len(q) \in Nat
        /\ Len(Append(q, u)) = Len(q) + 1 /\ Append(q, u)[Len(q) + 1] = u
        /\ \A i \in 1 .. Len(q) : Append(q, u)[i] = q[i]
        /\ \A i \in 1 .. Len(Append(q, u)) : i \in 1 .. Len(q) \/ i = Len(q) + 1
    BY AppendOf
  <2>5. backmeta' = Append(q, u)  BY <1>7, <2>2, <2>3
  <2> HIDE <1>7
  <2> QED  BY <2>2, <2>3, <2>4, <2>5
<1> HIDE DEF z
<1>9. e.errno /\ e.fino = f /\ Len(<<e>>) = 1 /\ <<e>>[1] = e  BY <1>6
<1>10. ConfirmOnce'
  <2>1. ASSUME NEW i \in 1 .. Len(backmeta'), NEW j \in 1 .. Len(backmeta'), NEW k \in 1 .. Len(backmeta'[i]),
               NEW l \in 1 .. Len(backmeta'[j]), SameFile(backmeta'[i][k], backmeta'[j][l])
        PROVE  i = j /\ k = l
    <3>1. i # z /\ j # z  BY <1>8, <1>9, <2>1 DEF SameFile
    <3>2. /\ i \in 1 .. Len(backmeta) /\ backmeta'[i] = backmeta[i]
          /\ j \in 1 .. Len(backmeta) /\ backmeta'[j] = backmeta[j]
      BY <1>8, <3>1
    <3> QED  BY <2>1, <3>2 DEF LifeInv, ConfirmOnce
  <2>2. /\ \A i, j \in 1 .. Len(rcv'.files_complete) :
              rcv'.files_complete[i].fino = rcv'.files_complete[j].fino => i = j
        /\ \A i, j \in 1 .. Len(snd'.todo) : SameFile(snd'.todo[i], snd'.todo[j]) => i = j
    BY DEF LifeInv, ConfirmOnce
  <2>3. \A i, j \in 1 .. Len(backmeta') :
           \A k \in 1 .. Len(backmeta'[i]), l \in 1 .. Len(backmeta'[j]) :
             SameFile(backmeta'[i][k], backmeta'[j][l]) => i = j /\ k = l
    BY <2>1
  <2> QED  BY <2>2, <2>3 DEF ConfirmOnce, SameFile
<1>11. Confirmed(m)'
  <2>1. ASSUME NEW d \in Entry, NEW p \in {"complete", "back", "todo"}, Fits(d, life, p)
        PROVE  m[d.fino] = (IF d.errno THEN "refused" ELSE p) /\ (~d.errno => d.crc = disk'[d.fino])
    BY <1>3, <1>5, <2>1 DEF Fits, Entry
  <2>2. \A i \in 1 .. Len(rcv.files_complete) :
           /\ ~rcv.files_complete[i].errno
           /\ m[rcv.files_complete[i].fino] = "complete"
           /\ rcv.files_complete[i].crc = disk'[rcv.files_complete[i].fino]
    BY <1>1, <2>1, FileTypes DEF Life, Confirmed
  <2>3. ASSUME NEW i \in 1 .. z, NEW k \in 1 .. Len(backmeta'[i])
        PROVE  /\ m[backmeta'[i][k].fino] = IF backmeta'[i][k].errno THEN "refused" ELSE "back"
               /\ ~backmeta'[i][k].errno => backmeta'[i][k].crc = disk'[backmeta'[i][k].fino]
    <3>1. CASE i = z  BY <1>5, <1>8, <1>9, <2>3, <3>1
    <3>2. CASE i # z
      <4>1. i \in 1 .. Len(backmeta) /\ backmeta'[i] = backmeta[i]  BY <1>8, <3>2
      <4>2. backmeta[i][k] \in Entry /\ Fits(backmeta[i][k], life, "back")
        BY <1>1, <4>1, FileTypes DEF Life, Confirmed
      <4> QED  BY <2>1, <4>1, <4>2
    <3> QED  BY <3>1, <3>2
  <2>4. \A i \in 1 .. Len(snd.todo) :
           /\ m[snd.todo[i].fino] = IF snd.todo[i].errno THEN "refused" ELSE "todo"
           /\ ~snd.todo[i].errno => snd.todo[i].crc = disk'[snd.todo[i].fino]
    BY <1>1, <2>1, FileTypes DEF Life, Confirmed
  <2>5. {g \in FileNos : m[g] = "ok"} = {g \in FileNos : life[g] = "ok"}  BY <1>3, <1>5
  <2>6. snd.files_ok = Cardinality({g \in FileNos : m[g] = "ok"})
    BY <1>1, <2>5 DEF Life, Confirmed
  <2> QED  BY <1>8, <2>2, <2>3, <2>4, <2>6 DEF Confirmed, Fits
<1>12. Content(m)'
  BY <1>1, <1>3, <1>5, ContentKept DEF Life, Before, Closed
<1> QED  BY <1>5, <1>10, <1>11, <1>12 DEF LifeInv, Life


\* Files that move on from "in" leave the announcements as they are.
LEMMA AnnouncedKept ==
    ASSUME Records, NEW l, NEW m, Announced(l), tometa' = tometa,
           rcv'.files_add = rcv.files_add, snd'.files_sent = snd.files_sent,
           \A f \in FileNos : l[f] \in {"unsent", "spec", "add"} => m[f] = l[f],
           \A f \in FileNos : file_stat'[f].in <=> m[f] = "in"
    PROVE  Announced(m)'
<1>1. \A f \in FileNos : f > snd'.files_sent => m[f] = "unsent"  BY DEF Announced
<1>2. ASSUME NEW i \in 1 .. Len(tometa), tometa[i].kind = "spec",
             NEW k \in 1 .. Len(tometa[i].files)
      PROVE  m[tometa[i].files[k]] = "spec"
  <2>1. tometa[i].files[k] \in FileNos  BY FileTypes
  <2>2. l[tometa[i].files[k]] = "spec"  BY <1>2 DEF Announced
  <2> QED  BY <2>1, <2>2
<1>3. ASSUME NEW k \in 1 .. Len(rcv.files_add) PROVE m[rcv.files_add[k]] = "add"
  <2>1. rcv.files_add[k] \in FileNos  BY FileTypes
  <2>2. l[rcv.files_add[k]] = "add"  BY DEF Announced
  <2> QED  BY <2>1, <2>2
<1> QED  BY <1>1, <1>2, <1>3 DEF Announced

\* close_file moves a whole file to the list of confirmations to send.
LEMMA CloseLife ==
    ASSUME Records, LifeInv, NEW f \in FileNos, file_stat[f].in,
           OnDisk(f) = 0 .. Blocks[f] - 1,
           rcv'.files_complete = Append(rcv.files_complete,
              [fino |-> f, crc |-> disk[f], errno |-> FALSE]),
           rcv'.files_add = rcv.files_add, file_stat' = [file_stat EXCEPT ![f] = Absent],
           UNCHANGED <<snd, tometa, backmeta, rx, disk>>
    PROVE  LifeInv'
<1>1. PICK life : Life(life)  BY DEF LifeInv
<1>2. life[f] = "in" /\ life \in [FileNos -> Lives]  BY <1>1 DEF Life, Announced
<1>3. PICK m : m = [life EXCEPT ![f] = "complete"]  OBVIOUS
<1>4. /\ m \in [FileNos -> Lives] /\ m[f] = "complete"
      /\ \A g \in FileNos : g # f => m[g] = life[g]
  BY <1>2, <1>3 DEF Lives, Closed
<1>5. Announced(m)'
  <2>1. Announced(life)  BY <1>1 DEF Life
  <2>2. \A g \in FileNos : file_stat'[g].in <=> m[g] = "in"
    <3>1. file_stat \in [FileNos -> FsState]  BY DEF Records
    <3>2. \A g \in FileNos : file_stat'[g].in <=> (g # f /\ file_stat[g].in)
      BY <3>1 DEF Absent
    <3> QED  BY <1>4, <2>1, <3>2 DEF Announced
  <2>3. \A g \in FileNos : life[g] \in {"unsent", "spec", "add"} => m[g] = life[g]
    BY <1>2, <1>4
  <2>4. tometa' = tometa /\ snd'.files_sent = snd.files_sent  OBVIOUS
  <2> QED  BY <2>1, <2>2, <2>3, <2>4, AnnouncedKept
<1>6. PICK q \in Seq(Entry) : q = rcv.files_complete  BY FileTypes
<1>7. PICK e \in Entry : e = [fino |-> f, crc |-> disk[f], errno |-> FALSE]
  <2>1. disk[f] \subseteq BlockIds  BY DEF Records
  <2> QED  BY <2>1 DEF Entry
<1>8. PICK r : rcv'.files_complete = r /\ r = Append(q, e)  BY <1>6, <1>7
<1>9. /\ Len(q) \in Nat /\ r[Len(q) + 1] = e
      /\ \A i \in 1 .. Len(q) : r[i] = q[i]
      /\ \A i \in 1 .. Len(r) : i \in 1 .. Len(q) \/ i = Len(q) + 1
  BY <1>8, AppendOf
<1>16. rcv'.files_complete = r  BY <1>8
<1>10. Confirmed(life) /\ ConfirmOnce  BY <1>1 DEF Life, LifeInv
<1>11. \A i \in 1 .. Len(q) : /\ q[i] \in Entry /\ q[i].fino \in FileNos /\ q[i].fino # f
                              /\ ~q[i].errno /\ Fits(q[i], life, "complete")
  <2>1. \A i \in 1 .. Len(q) : q[i] \in Entry /\ q[i].fino \in FileNos
    <3>1. \A i \in 1 .. Len(q) : q[i] \in Entry  OBVIOUS
    <3> QED  BY <3>1 DEF Entry
  <2>2. \A i \in 1 .. Len(q) : ~q[i].errno /\ Fits(q[i], life, "complete")
    BY <1>6, <1>10 DEF Confirmed
  <2> QED  BY <1>2, <2>1, <2>2 DEF Fits
<1>12. ConfirmOnce'
  <2>1. \A i, j \in 1 .. Len(r) : r[i].fino = r[j].fino => i = j
    <3>1. \A i, j \in 1 .. Len(q) : q[i].fino = q[j].fino => i = j
      BY <1>6, <1>10 DEF ConfirmOnce
    <3>2. e.fino = f  BY <1>7
    <3>3. ASSUME NEW i \in 1 .. Len(r), NEW j \in 1 .. Len(r), r[i].fino = r[j].fino
          PROVE  i = j
      <4>1. CASE i \in 1 .. Len(q) /\ j \in 1 .. Len(q)  BY <1>9, <3>1, <3>3, <4>1
      <4>2. CASE i = Len(q) + 1 /\ j = Len(q) + 1  BY <4>2
      <4>3. CASE i \in 1 .. Len(q) /\ j = Len(q) + 1  BY <1>9, <1>11, <3>2, <3>3, <4>3
      <4>4. CASE i = Len(q) + 1 /\ j \in 1 .. Len(q)  BY <1>9, <1>11, <3>2, <3>3, <4>4
      <4> QED  BY <1>9, <4>1, <4>2, <4>3, <4>4
    <3> QED  BY <3>3
  <2>2. \A i, j \in 1 .. Len(rcv'.files_complete) :
           rcv'.files_complete[i].fino = rcv'.files_complete[j].fino => i = j
    BY <1>16, <2>1
  <2>3. /\ \A i, j \in 1 .. Len(backmeta') :
              \A k \in 1 .. Len(backmeta'[i]), l \in 1 .. Len(backmeta'[j]) :
                 SameFile(backmeta'[i][k], backmeta'[j][l]) => i = j /\ k = l
        /\ \A i, j \in 1 .. Len(snd'.todo) : SameFile(snd'.todo[i], snd'.todo[j]) => i = j
    BY <1>10 DEF ConfirmOnce
  <2> QED  BY <2>2, <2>3 DEF ConfirmOnce, SameFile
<1>13. Confirmed(m)'
  <2>1. ASSUME NEW d \in Entry, NEW p \in {"complete", "back", "todo"}, Fits(d, life, p)
        PROVE  m[d.fino] = (IF d.errno THEN "refused" ELSE p) /\ (~d.errno => d.crc = disk'[d.fino])
    BY <1>2, <1>4, <2>1 DEF Fits, Entry
  <2>2. \A i \in 1 .. Len(r) :
           /\ ~r[i].errno
           /\ m[r[i].fino] = "complete"
           /\ r[i].crc = disk'[r[i].fino]
    <3>1. ~e.errno /\ e.fino = f /\ e.crc = disk'[f]  BY <1>7
    <3> QED  BY <1>4, <1>9, <1>11, <2>1, <3>1
  <2>3. ASSUME NEW i \in 1 .. Len(backmeta), NEW k \in 1 .. Len(backmeta[i])
        PROVE  /\ m[backmeta[i][k].fino] = IF backmeta[i][k].errno THEN "refused" ELSE "back"
               /\ ~backmeta[i][k].errno => backmeta[i][k].crc = disk'[backmeta[i][k].fino]
    <3>1. backmeta[i][k] \in Entry /\ Fits(backmeta[i][k], life, "back")
      BY <1>10, FileTypes DEF Confirmed
    <3> QED  BY <2>1, <3>1
  <2>4. \A i \in 1 .. Len(snd.todo) :
           /\ m[snd.todo[i].fino] = IF snd.todo[i].errno THEN "refused" ELSE "todo"
           /\ ~snd.todo[i].errno => snd.todo[i].crc = disk'[snd.todo[i].fino]
    BY <1>10, <2>1, FileTypes DEF Confirmed
  <2>5. {g \in FileNos : m[g] = "ok"} = {g \in FileNos : life[g] = "ok"}  BY <1>2, <1>4
  <2>6. snd.files_ok = Cardinality({g \in FileNos : m[g] = "ok"})
    BY <1>10, <2>5 DEF Confirmed
  <2>7. \A i \in 1 .. Len(rcv'.files_complete) :
           /\ ~rcv'.files_complete[i].errno
           /\ m[rcv'.files_complete[i].fino] = "complete"
           /\ rcv'.files_complete[i].crc = disk'[rcv'.files_complete[i].fino]
    BY <1>16, <2>2
  <2> QED  BY <2>3, <2>4, <2>6, <2>7 DEF Confirmed, Fits
<1>14. Content(m)'
  <2>1. Content(life)  BY <1>1 DEF Life
  <2>2. OnDisk(f)' = 0 .. Blocks[f] - 1  BY DEF OnDisk
  <2>3. \A g \in FileNos : OnDisk(g)' = OnDisk(g)  BY DEF OnDisk
  <2> QED  BY <1>4, <2>1, <2>2, <2>3 DEF Content, Before, Closed
<1>15. AddOnce'  BY DEF LifeInv, AddOnce
<1> QED  BY <1>4, <1>5, <1>12, <1>13, <1>14, <1>15 DEF LifeInv, Life

\* send_file_completions moves the last confirmations into a message.
LEMMA CompletionsLife ==
    ASSUME Records, LifeInv, NEW n \in Nat, NEW k \in 1 .. n, Len(rcv.files_complete) = n,
           NEW z \in Nat, z = Len(backmeta), NEW msg, Len(msg) = k,
           \A i \in 1 .. k : msg[i] = rcv.files_complete[n + 1 - i],
           Len(rcv'.files_complete) = n - k,
           \A i \in 1 .. n - k : rcv'.files_complete[i] = rcv.files_complete[i],
           Len(backmeta') = z + 1, backmeta'[z + 1] = msg,
           \A i \in 1 .. z : backmeta'[i] = backmeta[i],
           rcv'.files_add = rcv.files_add, UNCHANGED <<snd, tometa, rx, disk, file_stat>>
    PROVE  LifeInv'
<1>1. PICK life : Life(life)  BY DEF LifeInv
<1>2. life \in [FileNos -> Lives] /\ Announced(life) /\ Confirmed(life) /\ Content(life)
      /\ ConfirmOnce
  BY <1>1 DEF Life, LifeInv
<1>3. PICK q \in Seq(Entry) : q = rcv.files_complete /\ Len(q) = n  BY FileTypes
<1>4. \A i \in 1 .. n : /\ q[i] \in Entry /\ q[i].fino \in FileNos /\ ~q[i].errno
                        /\ life[q[i].fino] = "complete" /\ q[i].crc = disk[q[i].fino]
  <2>1. \A i \in 1 .. n : q[i] \in Entry  BY <1>3
  <2>2. \A i \in 1 .. n : q[i].fino \in FileNos  BY <2>1 DEF Entry
  <2> QED  BY <1>2, <1>3, <2>1, <2>2 DEF Confirmed, Fits
<1>5. \A i, j \in 1 .. n : q[i].fino = q[j].fino => i = j  BY <1>2, <1>3 DEF ConfirmOnce
<1>6. PICK m : m = [g \in FileNos |-> IF \E i \in 1 .. k : msg[i].fino = g THEN "back" ELSE life[g]]
  OBVIOUS
<1>7. /\ \A i \in 1 .. k : /\ msg[i].fino \in FileNos /\ ~msg[i].errno
                           /\ life[msg[i].fino] = "complete" /\ msg[i].crc = disk[msg[i].fino]
      /\ \A i, j \in 1 .. k : msg[i].fino = msg[j].fino => i = j
      /\ \A i \in 1 .. n - k, j \in 1 .. k : msg[j].fino # q[i].fino
  <2>1. ASSUME NEW i \in 1 .. k PROVE \E u \in 1 .. n : u = n + 1 - i /\ msg[i] = q[u]
    <3>1. n + 1 - i \in 1 .. n  OBVIOUS
    <3>2. msg[i] = q[n + 1 - i]  BY <1>3
    <3> QED  BY <3>1, <3>2
  <2>2. ASSUME NEW i \in 1 .. k
        PROVE  /\ msg[i].fino \in FileNos /\ ~msg[i].errno
               /\ life[msg[i].fino] = "complete" /\ msg[i].crc = disk[msg[i].fino]
    <3>1. PICK u \in 1 .. n : u = n + 1 - i /\ msg[i] = q[u]  BY <2>1
    <3> QED  BY <1>4, <3>1
  <2>3. ASSUME NEW i \in 1 .. k, NEW j \in 1 .. k, msg[i].fino = msg[j].fino PROVE i = j
    <3>1. PICK u \in 1 .. n : u = n + 1 - i /\ msg[i] = q[u]  BY <2>1
    <3>2. PICK w \in 1 .. n : w = n + 1 - j /\ msg[j] = q[w]  BY <2>1
    <3>3. u = w  BY <1>5, <2>3, <3>1, <3>2
    <3> QED  BY <3>1, <3>2, <3>3
  <2>4. ASSUME NEW i \in 1 .. n - k, NEW j \in 1 .. k PROVE msg[j].fino # q[i].fino
    <3>1. PICK w \in 1 .. n : w = n + 1 - j /\ msg[j] = q[w]  BY <2>1
    <3>2. i \in 1 .. n /\ i # w  BY <3>1
    <3> QED  BY <1>5, <3>1, <3>2
  <2> QED  BY <2>2, <2>3, <2>4
<1>8. /\ m \in [FileNos -> Lives]
      /\ \A i \in 1 .. k : msg[i].fino \in FileNos /\ m[msg[i].fino] = "back"
      /\ \A g \in FileNos : m[g] = life[g] \/ (life[g] = "complete" /\ m[g] = "back")
  <2>1. \A i \in 1 .. k : msg[i].fino \in FileNos /\ life[msg[i].fino] = "complete"  BY <1>7
  <2>2. m \in [FileNos -> Lives]  BY <1>2, <1>6 DEF Lives, Closed
  <2> QED  BY <1>6, <2>1, <2>2
<1>9. \A i \in 1 .. n - k : i \in 1 .. n /\ m[q[i].fino] = "complete"
  <2>1. \A i \in 1 .. n - k, j \in 1 .. k : msg[j].fino # q[i].fino  BY <1>7
  <2>2. \A i \in 1 .. n - k : i \in 1 .. n  OBVIOUS
  <2> QED  BY <1>4, <1>6, <2>1, <2>2
<1>10. Announced(m)'
  <2>1. \A g \in FileNos : life[g] \in {"unsent", "spec", "add"} => m[g] = life[g]  BY <1>8
  <2>2. \A g \in FileNos : file_stat'[g].in <=> m[g] = "in"  BY <1>2, <1>8 DEF Announced
  <2>3. tometa' = tometa /\ snd'.files_sent = snd.files_sent  OBVIOUS
  <2> QED  BY <1>2, <2>1, <2>2, <2>3, AnnouncedKept
<1>11. \A i \in 1 .. z + 1 : i = z + 1 \/ (i \in 1 .. Len(backmeta) /\ backmeta'[i] = backmeta[i])
  OBVIOUS
<1>12. \A i \in 1 .. Len(backmeta) : \A l \in 1 .. Len(backmeta[i]) :
          /\ backmeta[i][l] \in Entry /\ backmeta[i][l].fino \in FileNos
          /\ Fits(backmeta[i][l], life, "back")
  <2>1. \A i \in 1 .. Len(backmeta) : \A l \in 1 .. Len(backmeta[i]) : backmeta[i][l] \in Entry
    BY FileTypes
  <2>2. \A i \in 1 .. Len(backmeta) : \A l \in 1 .. Len(backmeta[i]) : backmeta[i][l].fino \in FileNos
    BY <2>1 DEF Entry
  <2> QED  BY <1>2, <2>1, <2>2 DEF Confirmed
<1>13. ConfirmOnce'
  <2>1. \A i, j \in 1 .. Len(rcv'.files_complete) :
           rcv'.files_complete[i].fino = rcv'.files_complete[j].fino => i = j
    BY <1>3, <1>5, <1>9
  <2>2. ASSUME NEW i \in 1 .. z + 1, NEW j \in 1 .. z + 1, NEW a \in 1 .. Len(backmeta'[i]),
               NEW b \in 1 .. Len(backmeta'[j]), SameFile(backmeta'[i][a], backmeta'[j][b])
        PROVE  i = j /\ a = b
    <3>1. CASE i = z + 1 /\ j = z + 1
      <4>1. a \in 1 .. k /\ b \in 1 .. k /\ msg[a].fino = msg[b].fino
        BY <2>2, <3>1 DEF SameFile
      <4>2. a = b  BY <1>7, <4>1
      <4> QED  BY <3>1, <4>2
    <3>2. ASSUME NEW u \in 1 .. Len(backmeta), NEW c \in 1 .. Len(backmeta[u]), NEW d \in 1 .. k,
                 ~backmeta[u][c].errno, backmeta[u][c].fino = msg[d].fino
          PROVE  FALSE
      <4>1. life[msg[d].fino] = "complete"  BY <1>7
      <4>2. life[backmeta[u][c].fino] = "back"  BY <1>12, <3>2 DEF Fits
      <4> QED  BY <3>2, <4>1, <4>2
    <3>3. CASE i = z + 1 /\ j # z + 1
      BY <1>11, <2>2, <3>2, <3>3 DEF SameFile
    <3>4. CASE i # z + 1 /\ j = z + 1
      BY <1>11, <2>2, <3>2, <3>4 DEF SameFile
    <3>5. CASE i # z + 1 /\ j # z + 1
      BY <1>2, <1>11, <2>2, <3>5 DEF ConfirmOnce
    <3> QED  BY <3>1, <3>3, <3>4, <3>5
  <2>3. \A i, j \in 1 .. Len(snd'.todo) : SameFile(snd'.todo[i], snd'.todo[j]) => i = j
    BY <1>2 DEF ConfirmOnce
  <2>4. \A i, j \in 1 .. Len(backmeta') :
           \A a \in 1 .. Len(backmeta'[i]), b \in 1 .. Len(backmeta'[j]) :
             SameFile(backmeta'[i][a], backmeta'[j][b]) => i = j /\ a = b
    BY <2>2
  <2> QED  BY <2>1, <2>3, <2>4 DEF ConfirmOnce, SameFile
<1>14. Confirmed(m)'
  <2>1. ASSUME NEW i \in 1 .. Len(rcv'.files_complete)
        PROVE  /\ ~rcv'.files_complete[i].errno
               /\ m[rcv'.files_complete[i].fino] = "complete"
               /\ rcv'.files_complete[i].crc = disk'[rcv'.files_complete[i].fino]
    <3>1. rcv'.files_complete[i] = q[i] /\ i \in 1 .. n - k  BY <1>3
    <3> QED  BY <1>4, <1>9, <3>1
  <2>2. ASSUME NEW i \in 1 .. Len(backmeta'), NEW a \in 1 .. Len(backmeta'[i])
        PROVE  /\ m[backmeta'[i][a].fino] = IF backmeta'[i][a].errno THEN "refused" ELSE "back"
               /\ ~backmeta'[i][a].errno => backmeta'[i][a].crc = disk'[backmeta'[i][a].fino]
    <3>1. CASE i = z + 1
      <4>1. a \in 1 .. k /\ backmeta'[i][a] = msg[a]  BY <3>1
      <4>2. ~msg[a].errno /\ msg[a].crc = disk[msg[a].fino] /\ m[msg[a].fino] = "back"
        BY <1>7, <1>8, <4>1
      <4> QED  BY <4>1, <4>2
    <3>2. CASE i # z + 1
      <4>1. i \in 1 .. Len(backmeta) /\ backmeta'[i] = backmeta[i]  BY <1>11, <3>2
      <4>2. backmeta[i][a].fino \in FileNos /\ Fits(backmeta[i][a], life, "back")
        BY <1>12, <4>1
      <4> QED  BY <1>8, <4>1, <4>2 DEF Fits
    <3> QED  BY <3>1, <3>2
  <2>3. ASSUME NEW i \in 1 .. Len(snd.todo)
        PROVE  /\ m[snd.todo[i].fino] = IF snd.todo[i].errno THEN "refused" ELSE "todo"
               /\ ~snd.todo[i].errno => snd.todo[i].crc = disk'[snd.todo[i].fino]
    <3>1. snd.todo[i] \in Entry  BY FileTypes
    <3>2. snd.todo[i].fino \in FileNos  BY <3>1 DEF Entry
    <3>3. Fits(snd.todo[i], life, "todo")  BY <1>2 DEF Confirmed
    <3> QED  BY <1>8, <3>2, <3>3 DEF Fits
  <2>4. {g \in FileNos : m[g] = "ok"} = {g \in FileNos : life[g] = "ok"}  BY <1>8
  <2>5. snd.files_ok = Cardinality({g \in FileNos : m[g] = "ok"})
    BY <1>2, <2>4 DEF Confirmed
  <2> QED  BY <2>1, <2>2, <2>3, <2>5 DEF Confirmed, Fits
<1>15. Content(m)'
  <2>1. /\ \A g \in FileNos : m[g] \in Before => life[g] \in Before
        /\ \A g \in FileNos : m[g] \in Closed => life[g] \in Closed
        /\ \A g \in FileNos : m[g] = "ok" => life[g] = "ok"
    BY <1>8 DEF Before, Closed
  <2>2. disk' = disk /\ \A c \in Conns : rx'[c].file_cur = rx[c].file_cur  OBVIOUS
  <2> QED  BY <1>2, <2>1, <2>2, ContentKept
<1>16. AddOnce'  BY DEF LifeInv, AddOnce
<1> QED  BY <1>8, <1>10, <1>13, <1>14, <1>15, <1>16 DEF LifeInv, Life

\* handle_msg_from_receiver takes a message to verify its entries.
LEMMA HandleLife ==
    ASSUME Records, LifeInv, backmeta # << >>, backmeta' = Tail(backmeta),
           snd'.todo = backmeta[1], snd'.files_sent = snd.files_sent,
           snd'.files_ok = snd.files_ok, UNCHANGED <<rcv, tometa, rx, disk, file_stat>>
    PROVE  LifeInv'
<1>1. PICK life : Life(life)  BY DEF LifeInv
<1>2. life \in [FileNos -> Lives] /\ Announced(life) /\ Confirmed(life) /\ Content(life)
      /\ ConfirmOnce
  BY <1>1 DEF Life, LifeInv
<1>3. /\ 1 \in 1 .. Len(backmeta)
      /\ \A i \in 1 .. Len(backmeta') : /\ i + 1 \in 1 .. Len(backmeta) /\ i + 1 # 1
                                        /\ backmeta'[i] = backmeta[i + 1]
  <2>1. PICK b \in Seq(Seq(Entry)) : b = backmeta  BY FileTypes
  <2>2. /\ Len(b) \in Nat \ {0}
        /\ \A i \in 1 .. Len(Tail(b)) : i + 1 \in 1 .. Len(b) /\ Tail(b)[i] = b[i + 1]
    BY <2>1, TailOf
  <2> QED  BY <2>1, <2>2
<1>4. PICK q : q = backmeta[1]  OBVIOUS
<1>5. \A i \in 1 .. Len(backmeta) : \A l \in 1 .. Len(backmeta[i]) :
          /\ backmeta[i][l] \in Entry /\ backmeta[i][l].fino \in FileNos
          /\ Fits(backmeta[i][l], life, "back")
  <2>1. \A i \in 1 .. Len(backmeta) : \A l \in 1 .. Len(backmeta[i]) : backmeta[i][l] \in Entry
    BY FileTypes
  <2>2. \A i \in 1 .. Len(backmeta) : \A l \in 1 .. Len(backmeta[i]) : backmeta[i][l].fino \in FileNos
    BY <2>1 DEF Entry
  <2> QED  BY <1>2, <2>1, <2>2 DEF Confirmed
<1>6. PICK m : m = [g \in FileNos |->
                      IF \E l \in 1 .. Len(q) : ~q[l].errno /\ q[l].fino = g THEN "todo" ELSE life[g]]
  OBVIOUS
<1>7. /\ \A l \in 1 .. Len(q) : q[l].fino \in FileNos /\ Fits(q[l], life, "back")
      /\ \A i, j \in 1 .. Len(q) : SameFile(q[i], q[j]) => i = j
  BY <1>2, <1>3, <1>4, <1>5 DEF ConfirmOnce
<1>8. /\ m \in [FileNos -> Lives]
      /\ \A l \in 1 .. Len(q) : ~q[l].errno => m[q[l].fino] = "todo"
      /\ \A g \in FileNos : m[g] = life[g] \/ (life[g] = "back" /\ m[g] = "todo")
  <2>1. \A l \in 1 .. Len(q) : ~q[l].errno => q[l].fino \in FileNos /\ life[q[l].fino] = "back"
    BY <1>7 DEF Fits
  <2>2. m \in [FileNos -> Lives]  BY <1>2, <1>6 DEF Lives, Closed
  <2> QED  BY <1>6, <2>1, <2>2
<1>9. Announced(m)'
  <2>1. \A g \in FileNos : life[g] \in {"unsent", "spec", "add"} => m[g] = life[g]  BY <1>8
  <2>2. \A g \in FileNos : file_stat'[g].in <=> m[g] = "in"  BY <1>2, <1>8 DEF Announced
  <2>3. tometa' = tometa /\ rcv'.files_add = rcv.files_add  OBVIOUS
  <2> QED  BY <1>2, <2>1, <2>2, <2>3, AnnouncedKept
<1>10. ConfirmOnce'
  <2>1. \A i, j \in 1 .. Len(rcv'.files_complete) :
           rcv'.files_complete[i].fino = rcv'.files_complete[j].fino => i = j
    BY <1>2 DEF ConfirmOnce
  <2>2. ASSUME NEW i \in 1 .. Len(backmeta'), NEW j \in 1 .. Len(backmeta'),
               NEW a \in 1 .. Len(backmeta'[i]), NEW b \in 1 .. Len(backmeta'[j]),
               SameFile(backmeta'[i][a], backmeta'[j][b])
        PROVE  i = j /\ a = b
    <3>1. PICK u \in 1 .. Len(backmeta) : u = i + 1 /\ backmeta'[i] = backmeta[u]  BY <1>3
    <3>2. PICK w \in 1 .. Len(backmeta) : w = j + 1 /\ backmeta'[j] = backmeta[w]  BY <1>3
    <3>3. u = w /\ a = b  BY <1>2, <2>2, <3>1, <3>2 DEF ConfirmOnce
    <3>4. i \in Int /\ j \in Int  OBVIOUS
    <3> QED  BY <3>1, <3>2, <3>3, <3>4
  <2>3. \A i, j \in 1 .. Len(snd'.todo) : SameFile(snd'.todo[i], snd'.todo[j]) => i = j
    BY <1>4, <1>7
  <2>4. \A i, j \in 1 .. Len(backmeta') :
           \A a \in 1 .. Len(backmeta'[i]), b \in 1 .. Len(backmeta'[j]) :
             SameFile(backmeta'[i][a], backmeta'[j][b]) => i = j /\ a = b
    BY <2>2
  <2> QED  BY <2>1, <2>3, <2>4 DEF ConfirmOnce, SameFile
<1>11. Confirmed(m)'
  <2>1. ASSUME NEW i \in 1 .. Len(rcv.files_complete)
        PROVE  /\ ~rcv.files_complete[i].errno
               /\ m[rcv.files_complete[i].fino] = "complete"
               /\ rcv.files_complete[i].crc = disk'[rcv.files_complete[i].fino]
    <3>1. rcv.files_complete[i] \in Entry  BY FileTypes
    <3>2. rcv.files_complete[i].fino \in FileNos  BY <3>1 DEF Entry
    <3>3. ~rcv.files_complete[i].errno /\ Fits(rcv.files_complete[i], life, "complete")
      BY <1>2 DEF Confirmed
    <3> QED  BY <1>8, <3>2, <3>3 DEF Fits
  <2>2. ASSUME NEW i \in 1 .. Len(backmeta'), NEW a \in 1 .. Len(backmeta'[i])
        PROVE  /\ m[backmeta'[i][a].fino] = IF backmeta'[i][a].errno THEN "refused" ELSE "back"
               /\ ~backmeta'[i][a].errno => backmeta'[i][a].crc = disk'[backmeta'[i][a].fino]
    <3>1. PICK u \in 1 .. Len(backmeta) : u # 1 /\ backmeta'[i] = backmeta[u]  BY <1>3
    <3>2. PICK e : e = backmeta[u][a]  OBVIOUS
    <3>3. e.fino \in FileNos /\ Fits(e, life, "back")  BY <1>5, <3>1, <3>2
    <3>4. ASSUME ~e.errno, NEW l \in 1 .. Len(q), ~q[l].errno PROVE q[l].fino # e.fino
      <4>1. SameFile(backmeta[u][a], backmeta[1][l]) => u = 1
        BY <1>2, <1>3, <1>4, <3>1 DEF ConfirmOnce
      <4> QED  BY <1>4, <3>1, <3>2, <3>4, <4>1 DEF SameFile
    <3>5. ~e.errno => m[e.fino] = life[e.fino]  BY <1>6, <3>3, <3>4
    <3>6. /\ m[e.fino] = IF e.errno THEN "refused" ELSE "back"
          /\ ~e.errno => e.crc = disk'[e.fino]
      BY <1>8, <3>3, <3>5 DEF Fits
    <3> QED  BY <3>1, <3>2, <3>6
  <2>3. ASSUME NEW i \in 1 .. Len(q)
        PROVE  /\ m[q[i].fino] = IF q[i].errno THEN "refused" ELSE "todo"
               /\ ~q[i].errno => q[i].crc = disk'[q[i].fino]
    BY <1>7, <1>8 DEF Fits
  <2>4. {g \in FileNos : m[g] = "ok"} = {g \in FileNos : life[g] = "ok"}  BY <1>8
  <2>5. snd'.files_ok = Cardinality({g \in FileNos : m[g] = "ok"})
    BY <1>2, <2>4 DEF Confirmed
  <2>6. snd'.todo = q  BY <1>4
  <2> QED  BY <2>1, <2>2, <2>3, <2>5, <2>6 DEF Confirmed, Fits
<1>12. Content(m)'
  <2>1. /\ \A g \in FileNos : m[g] \in Before => life[g] \in Before
        /\ \A g \in FileNos : m[g] \in Closed => life[g] \in Closed
        /\ \A g \in FileNos : m[g] = "ok" => life[g] = "ok"
    BY <1>8 DEF Before, Closed
  <2>2. disk' = disk /\ \A c \in Conns : rx'[c].file_cur = rx[c].file_cur  OBVIOUS
  <2> QED  BY <1>2, <2>1, <2>2, ContentKept
<1>13. AddOnce'  BY DEF LifeInv, AddOnce
<1> QED  BY <1>8, <1>9, <1>10, <1>11, <1>12, <1>13 DEF LifeInv, Life

\* The first entry to verify matches: its file is confirmed.
LEMMA MatchLife ==
    ASSUME Records, LifeInv, snd.todo # << >>, snd'.todo = Tail(snd.todo),
           ~snd.todo[1].errno, snd.todo[1].crc = Whole(snd.todo[1].fino),
           snd'.files_sent = snd.files_sent, snd'.files_ok = snd.files_ok + 1,
           UNCHANGED <<backmeta, rcv, tometa, rx, disk, file_stat>>
    PROVE  LifeInv'
<1>1. PICK life : Life(life)  BY DEF LifeInv
<1>2. life \in [FileNos -> Lives] /\ Announced(life) /\ Confirmed(life) /\ Content(life)
      /\ ConfirmOnce
  BY <1>1 DEF Life, LifeInv
<1>3. PICK q \in Seq(Entry) : q = snd.todo  BY FileTypes
<1>4. /\ Len(q) \in Nat \ {0} /\ q[1] \in Entry
      /\ \A i \in 1 .. Len(Tail(q)) : i + 1 \in 1 .. Len(q) /\ Tail(q)[i] = q[i + 1]
  BY <1>3, TailOf
<1>5. PICK f \in FileNos : f = q[1].fino  BY <1>4 DEF Entry
<1>6. /\ \A i \in 1 .. Len(q) : Fits(q[i], life, "todo")
      /\ \A i, j \in 1 .. Len(q) : SameFile(q[i], q[j]) => i = j
      /\ \A i \in 1 .. Len(q) : q[i].fino \in FileNos
  <2>1. \A i \in 1 .. Len(q) : q[i] \in Entry  BY <1>3
  <2>2. \A i \in 1 .. Len(q) : q[i].fino \in FileNos  BY <2>1 DEF Entry
  <2> QED  BY <1>2, <1>3, <2>2 DEF Confirmed, ConfirmOnce
<1>7. life[f] = "todo" /\ disk[f] = Whole(f)
  <2>1. Fits(q[1], life, "todo")  BY <1>4, <1>6
  <2> QED  BY <1>3, <1>5, <2>1 DEF Fits
<1>8. PICK m : m = [life EXCEPT ![f] = "ok"]  OBVIOUS
<1>9. /\ m \in [FileNos -> Lives] /\ m[f] = "ok"
      /\ \A g \in FileNos : g # f => m[g] = life[g]
  BY <1>2, <1>8 DEF Lives, Closed
<1>10. Announced(m)'
  <2>1. \A g \in FileNos : life[g] \in {"unsent", "spec", "add"} => m[g] = life[g]  BY <1>7, <1>9
  <2>2. \A g \in FileNos : file_stat'[g].in <=> m[g] = "in"  BY <1>2, <1>7, <1>9 DEF Announced
  <2>3. tometa' = tometa /\ rcv'.files_add = rcv.files_add  OBVIOUS
  <2> QED  BY <1>2, <2>1, <2>2, <2>3, AnnouncedKept
<1>11. PICK r : snd'.todo = r /\ r = Tail(q)  BY <1>3
<1>12. \A i \in 1 .. Len(r) : i + 1 \in 1 .. Len(q) /\ i + 1 # 1 /\ r[i] = q[i + 1]
  BY <1>4, <1>11
<1>13. ConfirmOnce'
  <2>1. ASSUME NEW i \in 1 .. Len(r), NEW j \in 1 .. Len(r), SameFile(r[i], r[j]) PROVE i = j
    <3>1. PICK u \in 1 .. Len(q) : u = i + 1 /\ r[i] = q[u]  BY <1>12
    <3>2. PICK w \in 1 .. Len(q) : w = j + 1 /\ r[j] = q[w]  BY <1>12
    <3>3. u = w  BY <1>6, <2>1, <3>1, <3>2
    <3>4. i \in Int /\ j \in Int  OBVIOUS
    <3> QED  BY <3>1, <3>2, <3>3, <3>4
  <2>2. \A i, j \in 1 .. Len(snd'.todo) : SameFile(snd'.todo[i], snd'.todo[j]) => i = j
    BY <1>11, <2>1
  <2>3. \A i, j \in 1 .. Len(rcv'.files_complete) :
           rcv'.files_complete[i].fino = rcv'.files_complete[j].fino => i = j
    BY <1>2 DEF ConfirmOnce
  <2>4. \A i, j \in 1 .. Len(backmeta') :
           \A a \in 1 .. Len(backmeta'[i]), b \in 1 .. Len(backmeta'[j]) :
             SameFile(backmeta'[i][a], backmeta'[j][b]) => i = j /\ a = b
    BY <1>2 DEF ConfirmOnce
  <2> QED  BY <2>2, <2>3, <2>4 DEF ConfirmOnce, SameFile
<1>14. Confirmed(m)'
  <2>1. ASSUME NEW e, e.fino \in FileNos, NEW p, Fits(e, life, p), e.fino # f
        PROVE  m[e.fino] = (IF e.errno THEN "refused" ELSE p) /\ (~e.errno => e.crc = disk'[e.fino])
    BY <1>9, <2>1 DEF Fits
  <2>2. ASSUME NEW i \in 1 .. Len(rcv.files_complete)
        PROVE  /\ ~rcv.files_complete[i].errno
               /\ m[rcv.files_complete[i].fino] = "complete"
               /\ rcv.files_complete[i].crc = disk'[rcv.files_complete[i].fino]
    <3>1. rcv.files_complete[i] \in Entry  BY FileTypes
    <3>2. rcv.files_complete[i].fino \in FileNos  BY <3>1 DEF Entry
    <3>3. ~rcv.files_complete[i].errno /\ Fits(rcv.files_complete[i], life, "complete")
      BY <1>2 DEF Confirmed
    <3>4. rcv.files_complete[i].fino # f  BY <1>7, <3>3 DEF Fits
    <3> QED  BY <2>1, <3>2, <3>3, <3>4
  <2>3. ASSUME NEW i \in 1 .. Len(backmeta), NEW a \in 1 .. Len(backmeta[i])
        PROVE  /\ m[backmeta[i][a].fino] = IF backmeta[i][a].errno THEN "refused" ELSE "back"
               /\ ~backmeta[i][a].errno => backmeta[i][a].crc = disk'[backmeta[i][a].fino]
    <3>1. backmeta[i][a] \in Entry  BY FileTypes
    <3>2. backmeta[i][a].fino \in FileNos  BY <3>1 DEF Entry
    <3>3. Fits(backmeta[i][a], life, "back")  BY <1>2 DEF Confirmed
    <3>4. backmeta[i][a].fino # f  BY <1>7, <3>3 DEF Fits
    <3> QED  BY <2>1, <3>2, <3>3, <3>4
  <2>4. ASSUME NEW i \in 1 .. Len(r)
        PROVE  /\ m[r[i].fino] = IF r[i].errno THEN "refused" ELSE "todo"
               /\ ~r[i].errno => r[i].crc = disk'[r[i].fino]
    <3>1. PICK u \in 1 .. Len(q) : u # 1 /\ r[i] = q[u]  BY <1>12
    <3>2. q[u].fino \in FileNos /\ Fits(q[u], life, "todo")  BY <1>6
    <3>3. CASE q[u].errno
      <4>1. q[u].fino # f  BY <1>7, <3>2, <3>3 DEF Fits
      <4> QED  BY <2>1, <3>1, <3>2, <4>1
    <3>4. CASE ~q[u].errno
      <4>1. SameFile(q[u], q[1]) => u = 1  BY <1>4, <1>6
      <4>2. q[u].fino # f  BY <1>3, <1>5, <3>1, <3>4, <4>1 DEF SameFile
      <4> QED  BY <2>1, <3>1, <3>2, <4>2
    <3> QED  BY <3>3, <3>4
  <2>5. snd'.files_ok = Cardinality({g \in FileNos : m[g] = "ok"})
    <3>1. PICK T \in SUBSET FileNos : T = {g \in FileNos : life[g] = "ok"}  OBVIOUS
    <3>2. {g \in FileNos : m[g] = "ok"} = T \cup {f} /\ f \notin T  BY <1>7, <1>9, <3>1
    <3>3. IsFiniteSet(T)  BY FilesFinite
    <3>4. Cardinality(T \cup {f}) = Cardinality(T) + 1  BY <3>2, <3>3, FS_AddElement
    <3>5. snd.files_ok = Cardinality(T)  BY <1>2, <3>1 DEF Confirmed
    <3> QED  BY <3>2, <3>4, <3>5
  <2>6. \A i \in 1 .. Len(snd'.todo) :
           /\ m[snd'.todo[i].fino] = IF snd'.todo[i].errno THEN "refused" ELSE "todo"
           /\ ~snd'.todo[i].errno => snd'.todo[i].crc = disk'[snd'.todo[i].fino]
    <3>1. snd'.todo = r  BY <1>11
    <3> QED  BY <2>4, <3>1
  <2> QED  BY <2>2, <2>3, <2>5, <2>6 DEF Confirmed, Fits
<1>15. Content(m)'
  <2>1. \A g \in FileNos : OnDisk(g)' = OnDisk(g)  BY DEF OnDisk
  <2> QED  BY <1>2, <1>7, <1>9, <2>1 DEF Content, Before, Closed
<1>16. AddOnce'  BY DEF LifeInv, AddOnce
<1> QED  BY <1>9, <1>10, <1>13, <1>14, <1>15, <1>16 DEF LifeInv, Life

-----------------------------------------------------------------------------
(* Every action keeps the invariant.                                        *)

LEMMA ReceiverMoves ==
    ASSUME ReceiverInv, \A f \in FileNos : file_stat'[f].in = file_stat[f].in,
           leaked' = leaked, \A f \in FileNos : files_hash'[f] \in {-1, Blocks[f]},
           rcv'.file_error => rcv'.files_add # << >> /\ rcv'.pc # "add"
    PROVE  ReceiverInv'
<1>1. Stored' = Stored  BY DEF Stored
<1>2. Fds' = Fds  BY <1>1 DEF Fds
<1> QED  BY <1>1, <1>2 DEF ReceiverInv

LEMMA ReceiverKept ==
    ASSUME ReceiverInv, \A f \in FileNos : file_stat'[f].in = file_stat[f].in,
           leaked' = leaked, files_hash' = files_hash, rcv' = rcv
    PROVE  ReceiverInv'
BY ReceiverMoves DEF ReceiverInv

\* Steps of the sender that concern nobody else.
LEMMA QuietKept ==
    ASSUME IInv, UNCHANGED <<offset, snd, data, tometa, backmeta, rxvars, rcvars>>
    PROVE  ReceiverInv' /\ FlightInv' /\ LifeInv'
<1>1. /\ offset' = offset /\ data' = data /\ rx' = rx /\ disk' = disk /\ file_stat' = file_stat
      /\ snd' = snd /\ tometa' = tometa /\ backmeta' = backmeta /\ rcv' = rcv
      /\ leaked' = leaked /\ files_hash' = files_hash
  BY DEF rxvars, rcvars
<1>2. ReceiverInv'  BY <1>1, ReceiverKept DEF IInv
<1>3. FlightInv'  BY <1>1, FlightKept DEF IInv
<1>4. LifeInv'  BY <1>1, LifeKept DEF IInv
<1> QED  BY <1>2, <1>3, <1>4

LEMMA InsertFileStep ==
    ASSUME IInv, NEW f \in FileNos, InsertFile(f)
    PROVE  IInv'
<1>1. UNCHANGED <<offset, snd, data, tometa, backmeta, rxvars, rcvars>>  BY DEF InsertFile
<1>2. Records'  BY DEF IInv, Records, InsertFile, rxvars, rcvars
<1>3. SenderInv'  BY DEF IInv, SenderInv, InsertFile
<1> QED  BY <1>1, <1>2, <1>3, QuietKept DEF IInv

LEMMA NextFileStep ==
    ASSUME IInv, NEW c \in Conns, NextFile(c)
    PROVE  IInv'
<1>1. UNCHANGED <<offset, snd, data, tometa, backmeta, rxvars, rcvars>>  BY DEF NextFile
<1>2. UNCHANGED <<stage, fc, leaked, files_hash, rcv, rx, file_stat, disk>>
  BY DEF NextFile, rxvars, rcvars
<1>3. head \in Nat /\ head <= NFiles /\ NFiles \in Nat /\ tx \in [Conns -> FileNos \cup {NoFile}]
  BY TransferAssumption DEF IInv, Records, SenderInv
<1>4. file_count \in 0 .. NFiles
  <2>1. At({"table", "done"}) \in SUBSET FileNos  BY DEF At
  <2> QED  BY <2>1, FilesFinite DEF file_count
<1>5. /\ head' \in Nat /\ head' <= NFiles
      /\ tx' \in [Conns -> FileNos \cup {NoFile}]
  <2>1. CASE head < file_count /\ head' = head + 1 /\ tx' = [tx EXCEPT ![c] = head + 1]
    <3>1. head + 1 \in FileNos  BY <1>3, <1>4, <2>1 DEF FileNos
    <3> QED  BY <1>3, <1>4, <2>1, <3>1
  <2>2. CASE head' = head /\ \E d \in Conns : tx' = [tx EXCEPT ![c] = tx[d]]
    BY <1>3, <2>2
  <2> QED  BY <2>1, <2>2 DEF NextFile
<1>6. Records'  BY <1>1, <1>2, <1>5 DEF IInv, Records
<1>7. SenderInv'  BY <1>1, <1>2, <1>5 DEF IInv, SenderInv
<1> QED  BY <1>1, <1>6, <1>7, QuietKept DEF IInv

LEMMA LeaveFileStep ==
    ASSUME IInv, NEW c \in Conns, LeaveFile(c)
    PROVE  IInv'
<1>1. UNCHANGED <<offset, snd, data, tometa, backmeta, rxvars, rcvars>>  BY DEF LeaveFile
<1>2. UNCHANGED <<head, leaked, files_hash, rcv, rx, file_stat, disk>>
  BY DEF LeaveFile, rxvars, rcvars
<1>3. PICK f \in FileNos : f = tx[c]  BY DEF LeaveFile, At
<1>4. tx' \in [Conns -> FileNos \cup {NoFile}] /\ stage' \in [FileNos -> {"none", "table", "done"}]
  BY <1>3 DEF IInv, Records, LeaveFile
<1>5. /\ fc' \in FcState /\ Len(fc'.pushed) >= Len(fc.pushed) /\ Len(fc.pushed) \in Nat
      /\ fc'.in1 = fc.in1 /\ fc'.in2 = fc.in2 /\ fc'.out1 = fc.out1 /\ fc'.out2 = fc.out2
  <2>1. fc \in FcState /\ fc.pushed \in Seq(FileNos)  BY DEF IInv, Records, FcState
  <2>2. Append(fc.pushed, f) \in Seq(FileNos) /\ Len(Append(fc.pushed, f)) = Len(fc.pushed) + 1
        /\ Len(fc.pushed) \in Nat
    BY <2>1, AppendOf
  <2>3. fc' = fc \/ fc' = [fc EXCEPT !.pushed = Append(fc.pushed, f)]  BY <1>3 DEF LeaveFile
  <2> QED  BY <2>1, <2>2, <2>3 DEF FcState
<1>6. Records'  BY <1>1, <1>2, <1>4, <1>5 DEF IInv, Records
<1>7. SenderInv'
  <2>1. fc'.in1 <= Len(fc'.pushed)  BY <1>5 DEF IInv, SenderInv, Records, FcState
  <2> QED  BY <1>1, <1>2, <1>5, <2>1 DEF IInv, SenderInv
<1> QED  BY <1>1, <1>6, <1>7, QuietKept DEF IInv

LEMMA FcWorkerStep ==
    ASSUME IInv, FcWorker
    PROVE  IInv'
<1>1. UNCHANGED <<offset, snd, data, tometa, backmeta, rxvars, rcvars>>  BY DEF FcWorker, txvars
<1>2. UNCHANGED <<stage, head, tx, leaked, files_hash, rcv, rx, file_stat, disk>>
  BY DEF FcWorker, txvars, rxvars, rcvars
<1>3. /\ fc \in FcState /\ fc.in1 <= Len(fc.pushed) /\ fc.in2 <= fc.in1
      /\ fc.out1 <= fc.in1 /\ fc.out2 <= fc.in2 /\ Len(fc.pushed) \in Nat
  BY DEF IInv, Records, SenderInv, FcState
<1>4. /\ fc' \in FcState /\ fc'.in1 <= Len(fc'.pushed) /\ fc'.in2 <= fc'.in1
      /\ fc'.out1 <= fc'.in1 /\ fc'.out2 <= fc'.in2
  BY <1>3 DEF FcWorker, FcState
<1>5. Records'  BY <1>1, <1>2, <1>4 DEF IInv, Records
<1>6. SenderInv'  BY <1>1, <1>2, <1>4 DEF IInv, SenderInv
<1> QED  BY <1>1, <1>5, <1>6, QuietKept DEF IInv

LEMMA SendBlockStep ==
    ASSUME IInv, NEW c \in Conns, SendBlock(c)
    PROVE  IInv'
<1>1. Records /\ SenderInv /\ ReceiverInv /\ FlightInv /\ LifeInv  BY DEF IInv
<1>2. PICK f \in FileNos, b \in BlockIds :
         /\ offset[f] < Blocks[f] /\ Len(data[c]) < ConnCap
         /\ data' = [data EXCEPT ![c] = Append(data[c], b)]
         /\ offset' = [offset EXCEPT ![f] = offset[f] + 1]
         /\ UNCHANGED <<stage, head, tx, fc, snd, tometa, backmeta, rxvars, rcvars>>
  BY <1>1, SendBlockFacts
<1>3. UNCHANGED <<stage, head, tx, fc, snd, tometa, backmeta, rx, file_stat, disk, leaked, files_hash, rcv>>
  BY <1>2 DEF rxvars, rcvars
<1>4. /\ data[c] \in Seq(BlockIds) /\ Append(data[c], b) \in Seq(BlockIds)
      /\ Len(Append(data[c], b)) = Len(data[c]) + 1 /\ Len(data[c]) \in Nat
  <2>1. data[c] \in Seq(BlockIds)  BY <1>1 DEF Records
  <2> QED  BY <2>1, AppendOf
<1>5. Records'
  <2>1. data' \in [Conns -> Seq(BlockIds)]  BY <1>1, <1>2, <1>4 DEF Records
  <2>2. offset' \in [FileNos -> Nat]  BY <1>1, <1>2 DEF Records
  <2> QED  BY <1>1, <1>3, <2>1, <2>2 DEF Records
<1>6. SenderInv'
  <2>1. \A d \in Conns : Len(data'[d]) <= ConnCap
    <3>1. \A d \in Conns : Len(data[d]) <= ConnCap /\ ConnCap \in Nat
      BY <1>1, TransferAssumption DEF SenderInv
    <3>2. Len(Append(data[c], b)) <= ConnCap  BY <1>2, <1>4, <3>1
    <3>3. \A d \in Conns : data'[d] = IF d = c THEN Append(data[c], b) ELSE data[d]
      BY <1>1, <1>2 DEF Records
    <3> QED  BY <3>1, <3>2, <3>3
  <2>2. \A g \in FileNos : offset'[g] <= Blocks[g]
    <3>1. \A g \in FileNos : offset[g] \in Nat /\ Blocks[g] \in Nat /\ offset[g] <= Blocks[g]
      BY <1>1, TransferAssumption DEF Records, SenderInv
    <3>2. \A g \in FileNos : offset'[g] = IF g = f THEN offset[f] + 1 ELSE offset[g]
      BY <1>1, <1>2 DEF Records
    <3>3. offset[f] + 1 <= Blocks[f]  BY <1>2, <3>1
    <3> QED  BY <3>1, <3>2, <3>3
  <2> QED  BY <1>1, <1>3, <2>1, <2>2 DEF SenderInv
<1>7. ReceiverInv'  BY <1>1, <1>3, ReceiverKept
<1>8. FlightInv'  BY <1>1, SendBlockFlight
<1>9. LifeInv'  BY <1>1, <1>3, LifeKept
<1> QED  BY <1>5, <1>6, <1>7, <1>8, <1>9 DEF IInv

LEMMA AnnounceStep ==
    ASSUME IInv, Announce
    PROVE  IInv'
<1>1. Records /\ SenderInv /\ ReceiverInv /\ FlightInv /\ LifeInv  BY DEF IInv
<1>2. PICK n \in FileNos, q \in Seq(FileNos) :
         /\ tometa' = Append(tometa, [kind |-> "spec", files |-> q])
         /\ snd' = [snd EXCEPT !.files_sent = n]
         /\ UNCHANGED <<txvars, fc, data, backmeta, rxvars, rcvars>>
  BY <1>1, AnnounceFacts
<1>3. UNCHANGED <<stage, head, offset, tx, fc, data, backmeta, rx, file_stat, disk, leaked, files_hash, rcv>>
  BY <1>2 DEF txvars, rxvars, rcvars
<1>4. n \in Nat /\ n <= NFiles  BY TransferAssumption DEF FileNos
<1>5. /\ snd' \in SndState /\ snd'.files_sent = n /\ snd'.pc = snd.pc
      /\ snd'.todo = snd.todo /\ snd'.files_ok = snd.files_ok
  BY <1>1, <1>2, <1>4 DEF Records, SndState
<1>6. tometa' \in Seq(Message)
  <2>1. [kind |-> "spec", files |-> q] \in Message  BY DEF Message
  <2>2. tometa \in Seq(Message)  BY <1>1 DEF Records
  <2> QED  BY <1>2, <2>1, <2>2, AppendOf
<1>7. Records'  BY <1>1, <1>3, <1>5, <1>6 DEF Records
<1>8. SenderInv'  BY <1>1, <1>3, <1>4, <1>5 DEF SenderInv
<1>9. ReceiverInv'  BY <1>1, <1>3, ReceiverKept
<1>10. FlightInv'  BY <1>1, <1>3, FlightKept
<1>11. LifeInv'  BY <1>1, AnnounceLife
<1> QED  BY <1>7, <1>8, <1>9, <1>10, <1>11 DEF IInv

LEMMA SendFileCompleteStep ==
    ASSUME IInv, SendFileComplete
    PROVE  IInv'
<1>1. Records /\ SenderInv /\ ReceiverInv /\ FlightInv /\ LifeInv  BY DEF IInv
<1>2. UNCHANGED <<stage, head, offset, tx, snd, data, backmeta, rx, file_stat, disk, leaked, files_hash, rcv>>
  BY DEF SendFileComplete, txvars, rxvars, rcvars
<1>3. /\ fc \in FcState /\ fc.pushed \in Seq(FileNos) /\ Len(fc.pushed) \in Nat
      /\ fc.in1 \in Nat /\ fc.in2 \in Nat /\ fc.out2 \in Nat
      /\ fc.in1 <= Len(fc.pushed) /\ fc.in2 <= fc.in1 /\ fc.out1 <= fc.in1
  BY <1>1 DEF Records, SenderInv, FcState
<1>4. PICK n \in fc.out2 + 1 .. fc.in2 :
         /\ tometa' = Append(tometa, Msg("count", Ascending({fc.pushed[i] : i \in fc.out2 + 1 .. n})))
         /\ fc' = [fc EXCEPT !.out2 = n]
  BY DEF SendFileComplete
<1>5. PICK q \in Seq(FileNos) : tometa' = Append(tometa, [kind |-> "count", files |-> q])
  <2>1. \A i \in fc.out2 + 1 .. n : fc.pushed[i] \in FileNos
    <3>1. \A i \in fc.out2 + 1 .. n : i \in 1 .. Len(fc.pushed)  BY <1>3, <1>4
    <3> QED  BY <1>3, <3>1
  <2>2. {fc.pushed[i] : i \in fc.out2 + 1 .. n} \in SUBSET FileNos  BY <2>1
  <2>3. Ascending({fc.pushed[i] : i \in fc.out2 + 1 .. n}) \in Seq(FileNos)
    BY <2>2, AscendingOf
  <2> QED  BY <1>4, <2>3 DEF Msg
<1>6. tometa' \in Seq(Message)
  <2>1. [kind |-> "count", files |-> q] \in Message  BY DEF Message
  <2>2. tometa \in Seq(Message)  BY <1>1 DEF Records
  <2> QED  BY <1>5, <2>1, <2>2, AppendOf
<1>7. /\ fc' \in FcState /\ fc'.in1 <= Len(fc'.pushed) /\ fc'.in2 <= fc'.in1
      /\ fc'.out1 <= fc'.in1 /\ fc'.out2 <= fc'.in2
  <2>1. n \in Nat /\ n <= fc.in2  BY <1>3
  <2>2. /\ fc' \in FcState /\ fc'.pushed = fc.pushed /\ fc'.in1 = fc.in1 /\ fc'.in2 = fc.in2
        /\ fc'.out1 = fc.out1 /\ fc'.out2 = n
    BY <1>3, <1>4, <2>1 DEF FcState
  <2> QED  BY <1>3, <2>1, <2>2
<1>8. Records'  BY <1>1, <1>2, <1>6, <1>7 DEF Records
<1>9. SenderInv'  BY <1>1, <1>2, <1>7 DEF SenderInv
<1>10. ReceiverInv'  BY <1>1, <1>2, ReceiverKept
<1>11. FlightInv'  BY <1>1, <1>2, FlightKept
<1>12. LifeInv'
  <2>1. \E r \in Seq(FileNos) : tometa' = Append(tometa, [kind |-> "count", files |-> r])  BY <1>5
  <2>2. /\ rcv'.files_add = rcv.files_add /\ rcv'.files_complete = rcv.files_complete
        /\ UNCHANGED <<snd, backmeta, rx, disk, file_stat>>
    BY <1>2
  <2> QED  BY <1>1, <2>1, <2>2, CountLife
<1> QED  BY <1>8, <1>9, <1>10, <1>11, <1>12 DEF IInv

LEMMA HandleMsgStep ==
    ASSUME IInv, HandleMsg
    PROVE  IInv'
<1>1. Records /\ SenderInv /\ ReceiverInv /\ FlightInv /\ LifeInv  BY DEF IInv
<1>2. UNCHANGED <<stage, head, offset, tx, fc, data, tometa, rx, file_stat, disk, leaked, files_hash, rcv>>
  BY DEF HandleMsg, txvars, rxvars, rcvars
<1>3. PICK b \in Seq(Seq(Entry)) : b = backmeta /\ b # << >> /\ backmeta' = Tail(b)
  BY <1>1 DEF HandleMsg, Records
<1>4. /\ Len(b) \in Nat \ {0} /\ Head(b) = b[1] /\ b[1] \in Seq(Entry)
      /\ Tail(b) \in Seq(Seq(Entry))
      /\ \A i \in 1 .. Len(Tail(b)) : i + 1 \in 1 .. Len(b) /\ Tail(b)[i] = b[i + 1]
  BY <1>3, TailOf
<1>5. /\ snd' \in SndState /\ snd'.pc = "verify" /\ snd'.todo = b[1]
      /\ snd'.files_sent = snd.files_sent /\ snd'.files_ok = snd.files_ok
  BY <1>1, <1>3, <1>4 DEF HandleMsg, Records, SndState
<1>6. Records'  BY <1>1, <1>2, <1>3, <1>4, <1>5 DEF Records
<1>7. SenderInv'
  <2>1. \A i \in 1 .. Len(b) : b[i] # << >>  BY <1>1, <1>3 DEF SenderInv
  <2>2. \A i \in 1 .. Len(Tail(b)) : Tail(b)[i] # << >>  BY <1>4, <2>1
  <2>3. \A i \in 1 .. Len(backmeta') : backmeta'[i] # << >>  BY <1>3, <2>2
  <2>4. snd'.todo # << >>  BY <1>4, <1>5, <2>1
  <2> QED  BY <1>1, <1>2, <1>5, <2>3, <2>4 DEF SenderInv
<1>8. ReceiverInv'  BY <1>1, <1>2, ReceiverKept
<1>9. FlightInv'  BY <1>1, <1>2, FlightKept
<1>10. LifeInv'
  <2>1. backmeta # << >> /\ backmeta' = Tail(backmeta) /\ snd'.todo = backmeta[1]
    BY <1>3, <1>5
  <2>2. UNCHANGED <<rcv, tometa, rx, disk, file_stat>>  BY <1>2
  <2> QED  BY <1>1, <1>5, <2>1, <2>2, HandleLife
<1> QED  BY <1>6, <1>7, <1>8, <1>9, <1>10 DEF IInv

LEMMA AwaitChecksumStep ==
    ASSUME IInv, AwaitChecksum
    PROVE  IInv'
<1>1. Records /\ SenderInv /\ ReceiverInv /\ FlightInv /\ LifeInv  BY DEF IInv
<1>2. UNCHANGED <<stage, head, offset, tx, data, tometa, backmeta, rx, file_stat, disk, leaked, files_hash, rcv>>
  BY DEF AwaitChecksum, txvars, rxvars, rcvars
<1>3. /\ fc \in FcState /\ fc.pushed \in Seq(FileNos) /\ Len(fc.pushed) \in Nat
      /\ fc.in1 \in Nat /\ fc.in2 \in Nat /\ fc.out1 \in Nat
      /\ fc.in1 <= Len(fc.pushed) /\ fc.in2 <= fc.in1 /\ fc.out2 <= fc.in2
      /\ fc.out1 < fc.in1 /\ fc' = [fc EXCEPT !.out1 = fc.out1 + 1]
  BY <1>1 DEF Records, SenderInv, FcState, AwaitChecksum
<1>4. /\ fc' \in FcState /\ fc'.in1 <= Len(fc'.pushed) /\ fc'.in2 <= fc'.in1
      /\ fc'.out1 <= fc'.in1 /\ fc'.out2 <= fc'.in2
  <2>1. /\ fc' \in FcState /\ fc'.pushed = fc.pushed /\ fc'.in1 = fc.in1 /\ fc'.in2 = fc.in2
        /\ fc'.out1 = fc.out1 + 1 /\ fc'.out2 = fc.out2
    BY <1>3 DEF FcState
  <2> QED  BY <1>3, <2>1
<1>5. /\ snd' \in SndState /\ snd'.pc = snd.pc /\ snd'.todo = snd.todo
      /\ snd'.files_sent = snd.files_sent /\ snd'.files_ok = snd.files_ok
  <2>1. fc.pushed[fc.out1 + 1] \in FileNos
    <3>1. fc.out1 + 1 \in 1 .. Len(fc.pushed)  BY <1>3
    <3> QED  BY <1>3, <3>1
  <2>2. snd \in SndState  BY <1>1 DEF Records
  <2> QED  BY <2>1, <2>2 DEF AwaitChecksum, SndState
<1>6. Records'  BY <1>1, <1>2, <1>4, <1>5 DEF Records
<1>7. SenderInv'  BY <1>1, <1>2, <1>4, <1>5 DEF SenderInv
<1>8. ReceiverInv'  BY <1>1, <1>2, ReceiverKept
<1>9. FlightInv'  BY <1>1, <1>2, FlightKept
<1>10. LifeInv'  BY <1>1, <1>2, <1>5, LifeKept
<1> QED  BY <1>6, <1>7, <1>8, <1>9, <1>10 DEF IInv

\* The sender's main thread ends, with every file confirmed or not.
LEMMA EndStep ==
    ASSUME IInv, NEW p \in {"complete", "failed"}, snd' = [snd EXCEPT !.pc = p],
           p = "complete" => snd.files_ok >= NFiles,
           UNCHANGED <<txvars, fc, data, tometa, backmeta, rxvars, rcvars>>
    PROVE  IInv'
<1>1. Records /\ SenderInv /\ ReceiverInv /\ FlightInv /\ LifeInv  BY DEF IInv
<1>2. UNCHANGED <<stage, head, offset, tx, fc, data, tometa, backmeta, rx, file_stat, disk, leaked, files_hash, rcv>>
  BY DEF txvars, rxvars, rcvars
<1>3. /\ snd' \in SndState /\ snd'.pc = p /\ snd'.todo = snd.todo
      /\ snd'.files_sent = snd.files_sent /\ snd'.files_ok = snd.files_ok
  BY <1>1 DEF Records, SndState
<1>4. Records'  BY <1>1, <1>2, <1>3 DEF Records
<1>5. SenderInv'  BY <1>1, <1>2, <1>3 DEF SenderInv
<1>6. ReceiverInv'  BY <1>1, <1>2, ReceiverKept
<1>7. FlightInv'  BY <1>1, <1>2, FlightKept
<1>8. LifeInv'  BY <1>1, <1>2, <1>3, LifeKept
<1> QED  BY <1>4, <1>5, <1>6, <1>7, <1>8 DEF IInv

LEMMA CompleteStep ==
    ASSUME IInv, Complete
    PROVE  IInv'
BY EndStep DEF Complete

LEMMA VerifyStep ==
    ASSUME IInv, Verify
    PROVE  IInv'
<1>1. CASE snd' = [snd EXCEPT !.pc = "failed"]
  <2>1. UNCHANGED <<txvars, fc, data, tometa, backmeta, rxvars, rcvars>>  BY DEF Verify
  <2> QED  BY <1>1, <2>1, EndStep
<1>2. CASE /\ ~Head(snd.todo).errno /\ Head(snd.todo).crc = Whole(Head(snd.todo).fino)
           /\ snd' = Matched(Head(snd.todo).fino)
  <2>1. Records /\ SenderInv /\ ReceiverInv /\ FlightInv /\ LifeInv  BY DEF IInv
  <2>2. UNCHANGED <<stage, head, offset, tx, fc, data, tometa, backmeta, rx, file_stat, disk, leaked, files_hash, rcv>>
    BY DEF Verify, txvars, rxvars, rcvars
  <2>3. PICK q \in Seq(Entry) : q = snd.todo /\ q # << >>
    BY <2>1 DEF Verify, SenderInv, Records, SndState
  <2>4. /\ Len(q) \in Nat \ {0} /\ Head(q) = q[1] /\ Tail(q) \in Seq(Entry)
        /\ Len(Tail(q)) = Len(q) - 1
    BY <2>3, TailOf
  <2>5. /\ snd' \in SndState /\ snd'.todo = Tail(q)
        /\ snd'.pc = (IF Len(q) = 1 THEN "check" ELSE "verify")
        /\ snd'.files_sent = snd.files_sent /\ snd'.files_ok = snd.files_ok + 1
    <3>1. snd \in SndState  BY <2>1 DEF Records
    <3>2. PICK f : f = Head(snd.todo).fino  OBVIOUS
    <3>3. PICK p \in {"check", "verify"} : p = IF Len(q) = 1 THEN "check" ELSE "verify"  OBVIOUS
    <3>4. PICK t \in Seq(Entry) : t = Tail(q)  BY <2>4
    <3>5. PICK h \in SUBSET FileNos, n \in Nat : h = snd.hm \ {f} /\ n = snd.files_ok + 1
      <4>1. snd.hm \subseteq FileNos /\ snd.files_ok \in Nat  BY <3>1 DEF SndState
      <4>2. snd.hm \ {f} \in SUBSET FileNos /\ snd.files_ok + 1 \in Nat  BY <4>1
      <4> QED  BY <4>2
    <3>6. snd' = [snd EXCEPT !.files_ok = n, !.hm = h, !.todo = t, !.pc = p]
      BY <1>2, <2>3, <3>2, <3>3, <3>4, <3>5 DEF Matched
    <3>7. /\ snd' \in SndState /\ snd'.todo = t /\ snd'.pc = p
          /\ snd'.files_sent = snd.files_sent /\ snd'.files_ok = n
      <4>1. snd = [pc |-> snd.pc, files_sent |-> snd.files_sent, files_ok |-> snd.files_ok,
                   hm |-> snd.hm, todo |-> snd.todo] /\ snd.files_sent \in Nat
        BY <3>1 DEF SndState
      <4>2. snd' = [pc |-> p, files_sent |-> snd.files_sent, files_ok |-> n, hm |-> h, todo |-> t]
        BY <3>6, <4>1
      <4> QED  BY <4>1, <4>2 DEF SndState
    <3> QED  BY <3>3, <3>4, <3>5, <3>7
  <2>6. snd'.pc = "verify" => snd'.todo # << >>
    <3>1. Len(q) # 1 => Len(Tail(q)) # 0  BY <2>4
    <3>2. Len(q) # 1 => Tail(q) # << >>  BY <3>1
    <3> QED  BY <2>5, <3>2
  <2>7. Records'  BY <2>1, <2>2, <2>5 DEF Records
  <2>8. SenderInv'  BY <2>1, <2>2, <2>5, <2>6 DEF SenderInv
  <2>9. ReceiverInv'  BY <2>1, <2>2, ReceiverKept
  <2>10. FlightInv'  BY <2>1, <2>2, FlightKept
  <2>11. LifeInv'
    <3>1. /\ snd.todo # << >> /\ snd'.todo = Tail(snd.todo) /\ ~snd.todo[1].errno
          /\ snd.todo[1].crc = Whole(snd.todo[1].fino)
      BY <1>2, <2>3, <2>4, <2>5
    <3>2. UNCHANGED <<backmeta, rcv, tometa, rx, disk, file_stat>>  BY <2>2
    <3> QED  BY <2>1, <2>5, <3>1, <3>2, MatchLife
  <2> QED  BY <2>7, <2>8, <2>9, <2>10, <2>11 DEF IInv
<1> QED  BY <1>1, <1>2 DEF Verify

\* A worker's current file is in the table when a block of it arrives: it was
\* opened, and it has not been closed since, because that block was awaited.
LEMMA CurrentOpen ==
    ASSUME IInv, NEW c \in Conns, data[c] # << >>, rx[c].file_cur = data[c][1][1]
    PROVE  file_stat[data[c][1][1]].in
<1>1. Records /\ SenderInv /\ FlightInv /\ LifeInv  BY DEF IInv
<1>2. PICK life : Life(life)  BY <1>1 DEF LifeInv
<1>3. 1 \in 1 .. Len(data[c])
  <2>1. data[c] \in Seq(BlockIds)  BY <1>1 DEF Records
  <2> QED  BY <2>1, TailOf
<1>4. PICK b : b = data[c][1]  OBVIOUS
<1>5. Awaited(b)  BY <1>1, <1>3, <1>4 DEF FlightInv, WireInv
<1>6. PICK f \in FileNos : f = b[1] /\ b[2] \in Nat  BY <1>5, Blocky DEF Awaited
<1>7. b[2] \notin OnDisk(f) /\ b[2] < Blocks[f]
  <2>1. offset[f] \in Nat /\ offset[f] <= Blocks[f] /\ Blocks[f] \in Nat
    BY <1>1, TransferAssumption DEF Records, SenderInv
  <2>2. b[2] < offset[f] /\ \A x \in disk[f] : x[2] # b[2]  BY <1>5, <1>6 DEF Awaited
  <2>3. b[2] \notin OnDisk(f)  BY <2>2 DEF OnDisk
  <2> QED  BY <1>6, <2>1, <2>2, <2>3
<1>8. life[f] \notin Closed
  <2>1. b[2] \in 0 .. Blocks[f] - 1  BY <1>6, <1>7, TransferAssumption
  <2> QED  BY <1>2, <1>7, <2>1 DEF Life, Content
<1>9. life[f] \notin Before  BY <1>2, <1>4, <1>6 DEF Life, Content
<1>10. life[f] = "in"  BY <1>2, <1>8, <1>9 DEF Life, Lives
<1> QED  BY <1>2, <1>4, <1>6, <1>10 DEF Life, Announced

LEMMA RxRecvStep ==
    ASSUME IInv, NEW c \in Conns, RxRecv(c)
    PROVE  IInv'
<1>1. Records /\ SenderInv /\ ReceiverInv /\ FlightInv /\ LifeInv  BY DEF IInv
<1>2. /\ data[c] \in Seq(BlockIds) /\ data[c] # << >>
      /\ rx' \in [Conns -> RxState] /\ rx'[c].file_cur = rx[c].file_cur
      /\ \A d \in Conns : d # c => rx'[d] = rx[d]
      /\ data' = [data EXCEPT ![c] = Tail(data[c])]
  BY <1>1, RxRecvFacts
<1>3. UNCHANGED <<stage, head, offset, tx, fc, snd, tometa, backmeta, file_stat, disk, leaked, files_hash, rcv>>
  BY DEF RxRecv, txvars, rcvars
<1>4. /\ Tail(data[c]) \in Seq(BlockIds) /\ Len(Tail(data[c])) = Len(data[c]) - 1
      /\ Len(data[c]) \in Nat
  BY <1>2, TailOf
<1>5. \A d \in Conns : data'[d] = IF d = c THEN Tail(data[c]) ELSE data[d]
  BY <1>1, <1>2 DEF Records
<1>6. Records'
  <2>1. data' \in [Conns -> Seq(BlockIds)]  BY <1>1, <1>2, <1>4 DEF Records
  <2> QED  BY <1>1, <1>2, <1>3, <2>1 DEF Records
<1>7. SenderInv'
  <2>1. \A d \in Conns : Len(data[d]) <= ConnCap /\ ConnCap \in Nat
    BY <1>1, TransferAssumption DEF SenderInv
  <2>2. Len(Tail(data[c])) <= ConnCap  BY <1>4, <2>1
  <2>3. \A d \in Conns : Len(data'[d]) <= ConnCap  BY <1>5, <2>1, <2>2
  <2> QED  BY <1>1, <1>3, <2>3 DEF SenderInv
<1>8. ReceiverInv'  BY <1>1, <1>3, ReceiverKept
<1>9. FlightInv'
  <2>1. rx[c].file_cur = data[c][1][1] => file_stat[data[c][1][1]].in  BY <1>2, CurrentOpen
  <2> QED  BY <1>1, <2>1, RxRecvFlight
<1>10. LifeInv'
  <2>1. \A d \in Conns : rx'[d].file_cur = rx[d].file_cur  BY <1>2
  <2> QED  BY <1>1, <1>3, <2>1, LifeKept
<1> QED  BY <1>6, <1>7, <1>8, <1>9, <1>10 DEF IInv

LEMMA RxWaitStep ==
    ASSUME IInv, NEW c \in Conns, RxWait(c)
    PROVE  IInv'
<1>1. Records /\ SenderInv /\ ReceiverInv /\ FlightInv /\ LifeInv  BY DEF IInv
<1>2. UNCHANGED <<stage, head, offset, tx, fc, snd, data, tometa, backmeta, file_stat, disk, leaked, files_hash, rcv>>
  BY DEF RxWait, txvars, rcvars
<1>3. PICK f \in FileNos :
         /\ rx' \in [Conns -> RxState] /\ rx'[c].file_cur = f /\ file_stat[f].in
         /\ \A d \in Conns : d # c => rx'[d] = rx[d]
  BY <1>1, RxFacts
<1>4. Records'  BY <1>1, <1>2, <1>3 DEF Records
<1>5. SenderInv'  BY <1>1, <1>2 DEF SenderInv
<1>6. ReceiverInv'  BY <1>1, <1>2, ReceiverKept
<1>7. FlightInv'  BY <1>1, RxWaitFlight
<1>8. LifeInv'
  <2>1. /\ UNCHANGED <<snd, tometa, backmeta, rcv>>
        /\ \A g \in FileNos : g # f => disk'[g] = disk[g]
        /\ \A g \in FileNos : file_stat'[g].in = file_stat[g].in
        /\ \A d \in Conns : rx'[d].file_cur = rx[d].file_cur \/ rx'[d].file_cur = f
    BY <1>2, <1>3
  <2> QED  BY <1>1, <1>3, <2>1, WorkLife
<1> QED  BY <1>4, <1>5, <1>6, <1>7, <1>8 DEF IInv

LEMMA RxWriteStep ==
    ASSUME IInv, NEW c \in Conns, RxWrite(c)
    PROVE  IInv'
<1>1. Records /\ SenderInv /\ ReceiverInv /\ FlightInv /\ LifeInv  BY DEF IInv
<1>2. UNCHANGED <<stage, head, offset, tx, fc, snd, data, tometa, backmeta, leaked, files_hash, rcv>>
  BY DEF RxWrite, txvars, rcvars
<1>3. PICK b \in BlockIds, f \in FileNos :
         /\ b = rx[c].block /\ f = b[1]
         /\ rx' \in [Conns -> RxState] /\ rx'[c].file_cur = f /\ file_stat[f].in
         /\ \A d \in Conns : d # c => rx'[d] = rx[d]
  BY <1>1, RxFacts
<1>4. /\ file_stat' = [file_stat EXCEPT ![f].crc = Xor(@, b)]
      /\ disk' = [disk EXCEPT ![f] = @ \cup {b}]
  BY <1>3 DEF RxWrite
<1>5. /\ file_stat' \in [FileNos -> FsState]
      /\ \A g \in FileNos : file_stat'[g].in = file_stat[g].in
  <2>1. file_stat \in [FileNos -> FsState]  BY <1>1 DEF Records
  <2> QED  BY <1>4, <2>1 DEF FsState, Xor
<1>6. /\ disk' \in [FileNos -> SUBSET BlockIds]
      /\ \A g \in FileNos : g # f => disk'[g] = disk[g]
  BY <1>1, <1>4 DEF Records
<1>7. Records'  BY <1>1, <1>2, <1>3, <1>5, <1>6 DEF Records
<1>8. SenderInv'  BY <1>1, <1>2 DEF SenderInv
<1>9. ReceiverInv'  BY <1>1, <1>2, <1>5, ReceiverKept
<1>10. FlightInv'  BY <1>1, RxWriteFlight
<1>11. LifeInv'
  <2>1. /\ UNCHANGED <<snd, tometa, backmeta, rcv>>
        /\ \A d \in Conns : rx'[d].file_cur = rx[d].file_cur \/ rx'[d].file_cur = f
    BY <1>2, <1>3
  <2> QED  BY <1>1, <1>3, <1>5, <1>6, <2>1, WorkLife
<1> QED  BY <1>7, <1>8, <1>9, <1>10, <1>11 DEF IInv

LEMMA RxCountStep ==
    ASSUME IInv, NEW c \in Conns, RxCount(c)
    PROVE  IInv'
<1>1. Records /\ SenderInv /\ ReceiverInv /\ FlightInv /\ LifeInv  BY DEF IInv
<1>2. UNCHANGED <<stage, head, offset, tx, fc, snd, data, tometa, backmeta, disk, leaked, files_hash, rcv>>
  BY DEF RxCount, txvars, rcvars
<1>3. PICK b \in BlockIds, f \in FileNos :
         /\ b = rx[c].block /\ f = b[1]
         /\ rx' \in [Conns -> RxState] /\ rx'[c].file_cur = f /\ file_stat[f].in
         /\ \A d \in Conns : d # c => rx'[d] = rx[d]
  BY <1>1, RxFacts
<1>4. /\ file_stat' \in [FileNos -> FsState]
      /\ \A g \in FileNos : file_stat'[g].in = file_stat[g].in
  <2>1. file_stat \in [FileNos -> FsState]  BY <1>1 DEF Records
  <2>2. file_stat' = [file_stat EXCEPT ![f].block_total = @ + 1]  BY <1>3 DEF RxCount
  <2> QED  BY <2>1, <2>2 DEF FsState
<1>5. Records'  BY <1>1, <1>2, <1>3, <1>4 DEF Records
<1>6. SenderInv'  BY <1>1, <1>2 DEF SenderInv
<1>7. ReceiverInv'  BY <1>1, <1>2, <1>4, ReceiverKept
<1>8. FlightInv'  BY <1>1, RxCountFlight
<1>9. LifeInv'
  <2>1. /\ UNCHANGED <<snd, tometa, backmeta, rcv>>
        /\ \A g \in FileNos : g # f => disk'[g] = disk[g]
        /\ \A d \in Conns : rx'[d].file_cur = rx[d].file_cur \/ rx'[d].file_cur = f
    BY <1>2, <1>3
  <2> QED  BY <1>1, <1>3, <1>4, <2>1, WorkLife
<1> QED  BY <1>5, <1>6, <1>7, <1>8, <1>9 DEF IInv

\* One more file in the receiver's table.
LEMMA OneMoreStored ==
    ASSUME Records, NEW f \in FileNos, ~file_stat[f].in,
           file_stat' = [file_stat EXCEPT ![f] = [Absent EXCEPT !.in = TRUE]]
    PROVE  /\ Cardinality(Stored') = Cardinality(Stored) + 1
           /\ file_stat' \in [FileNos -> FsState]
<1>1. file_stat \in [FileNos -> FsState]  BY DEF Records
<1>2. [Absent EXCEPT !.in = TRUE] \in FsState /\ [Absent EXCEPT !.in = TRUE].in
  BY DEF Absent, FsState
<1>3. Stored' = Stored \cup {f} /\ f \notin Stored  BY <1>1, <1>2 DEF Stored
<1>4. Stored \in SUBSET FileNos  BY DEF Stored
<1>5. IsFiniteSet(Stored)  BY <1>4, FilesFinite
<1>6. Cardinality(Stored \cup {f}) = Cardinality(Stored) + 1  BY <1>3, <1>5, FS_AddElement
<1> QED  BY <1>1, <1>2, <1>3, <1>6

LEMMA OneLessStored ==
    ASSUME Records, NEW f \in FileNos, file_stat[f].in,
           file_stat' = [file_stat EXCEPT ![f] = Absent]
    PROVE  /\ Cardinality(Stored') = Cardinality(Stored) - 1
           /\ file_stat' \in [FileNos -> FsState]
<1>1. file_stat \in [FileNos -> FsState]  BY DEF Records
<1>2. Absent \in FsState /\ ~Absent.in  BY DEF Absent, FsState
<1>3. Stored' = Stored \ {f} /\ f \in Stored  BY <1>1, <1>2 DEF Stored
<1>4. Stored \in SUBSET FileNos  BY DEF Stored
<1>5. IsFiniteSet(Stored)  BY <1>4, FilesFinite
<1>6. Cardinality(Stored \ {f}) = Cardinality(Stored) - 1  BY <1>3, <1>5, FS_RemoveElement
<1> QED  BY <1>1, <1>2, <1>3, <1>6

\* The limits of the receiver, as numbers.
LEMMA Limits ==
    ASSUME Records, ReceiverInv
    PROVE  /\ leaked \in Nat /\ Cardinality(Stored) \in Nat /\ FdLimit \in Nat /\ RxSlots \in Nat
           /\ Fds = Cardinality(Stored) + leaked /\ Fds <= FdLimit /\ Cardinality(Stored) <= RxSlots
<1>1. Stored \in SUBSET FileNos  BY DEF Stored
<1>2. Cardinality(Stored) \in 0 .. NFiles  BY <1>1, FilesFinite
<1>3. Cardinality(Stored) \in Nat  BY <1>2
<1> QED  BY <1>3, TransferAssumption DEF Records, ReceiverInv, Fds

\* add_file opens the first file of its list.
LEMMA EnterStep ==
    ASSUME IInv, rcv.pc = "add", rcv.files_add # << >>, Fds < FdLimit, Cardinality(Stored) < RxSlots,
           file_stat' = [file_stat EXCEPT ![Head(rcv.files_add)] = [Absent EXCEPT !.in = TRUE]],
           rcv' = [rcv EXCEPT !.added = TRUE, !.files_add = Tail(@),
                     !.pc = IF Len(rcv.files_add) = 1 THEN "close" ELSE "add"],
           UNCHANGED <<txvars, fc, snd, data, tometa, backmeta, rx, disk, files_hash, leaked>>
    PROVE  IInv'
<1>1. Records /\ SenderInv /\ ReceiverInv /\ FlightInv /\ LifeInv  BY DEF IInv
<1>2. UNCHANGED <<stage, head, offset, tx, fc, snd, data, tometa, backmeta, rx, disk, files_hash, leaked>>
  BY DEF txvars
<1>3. PICK q \in Seq(FileNos) : q = rcv.files_add /\ q # << >>  BY <1>1, FileTypes
<1>4. Head(q) = q[1] /\ Tail(q) \in Seq(FileNos)  BY <1>3, TailOf
<1>5. /\ rcv' \in RcvState /\ rcv'.files_add = Tail(q) /\ ~rcv'.file_error
      /\ rcv'.files_complete = rcv.files_complete
  <2>1. rcv \in RcvState /\ ~rcv.file_error  BY <1>1 DEF Records, ReceiverInv
  <2>2. PICK p \in {"add", "close"}, t \in Seq(FileNos) :
           t = Tail(q) /\ rcv' = [rcv EXCEPT !.added = TRUE, !.files_add = t, !.pc = p]
    BY <1>3, <1>4
  <2>3. /\ rcv' \in RcvState /\ rcv'.files_add = t /\ ~rcv'.file_error
        /\ rcv'.files_complete = rcv.files_complete
    BY <2>1, <2>2 DEF RcvState
  <2> QED  BY <2>2, <2>3
<1>6. file_stat' = [file_stat EXCEPT ![rcv.files_add[1]] = [Absent EXCEPT !.in = TRUE]]
  BY <1>3, <1>4
<1>7. /\ rcv.files_add[1] \in FileNos
      /\ disk[rcv.files_add[1]] = {} /\ ~file_stat[rcv.files_add[1]].in
      /\ LifeInv'
  <2>1. /\ rcv'.files_add = Tail(rcv.files_add)
        /\ rcv'.files_complete = rcv.files_complete
        /\ UNCHANGED <<snd, tometa, backmeta, rx, disk>>
    BY <1>2, <1>3, <1>5
  <2> QED  BY <1>1, <1>6, <2>1, EnterLife
<1>8. Cardinality(Stored') = Cardinality(Stored) + 1 /\ file_stat' \in [FileNos -> FsState]
  BY <1>1, <1>6, <1>7, OneMoreStored
<1>9. Records'  BY <1>1, <1>2, <1>5, <1>8 DEF Records
<1>10. SenderInv'  BY <1>1, <1>2 DEF SenderInv
<1>11. ReceiverInv'
  <2>1. Cardinality(Stored') <= RxSlots /\ Cardinality(Stored') + leaked <= FdLimit
    BY <1>1, <1>8, Limits
  <2>2. Fds' <= FdLimit /\ Cardinality(Stored)' <= RxSlots  BY <1>2, <2>1 DEF Fds
  <2> QED  BY <1>1, <1>2, <1>5, <2>2 DEF ReceiverInv
<1>12. FlightInv'  BY <1>1, <1>2, <1>6, <1>7, EnterFlight
<1> QED  BY <1>7, <1>9, <1>10, <1>11, <1>12 DEF IInv

\* The main thread of the receiver moves on; its lists of files stay.
LEMMA MoveOn ==
    ASSUME IInv, rcv' \in RcvState, rcv'.files_add = rcv.files_add,
           rcv'.files_complete = rcv.files_complete, leaked' \in Nat,
           UNCHANGED <<txvars, fc, snd, data, tometa, backmeta, rx, file_stat, disk, files_hash>>
    PROVE  Records' /\ SenderInv' /\ FlightInv' /\ LifeInv'
<1>1. Records /\ SenderInv /\ ReceiverInv /\ FlightInv /\ LifeInv  BY DEF IInv
<1>2. UNCHANGED <<stage, head, offset, tx, fc, snd, data, tometa, backmeta, rx, file_stat, disk, files_hash>>
  BY DEF txvars
<1>3. Records'  BY <1>1, <1>2 DEF Records
<1>4. SenderInv'  BY <1>1, <1>2 DEF SenderInv
<1>5. FlightInv'  BY <1>1, <1>2, FlightKept
<1>6. LifeInv'  BY <1>1, <1>2, LifeKept
<1> QED  BY <1>3, <1>4, <1>5, <1>6

LEMMA AgainOf ==
    ASSUME NEW r \in RcvState
    PROVE  /\ Again(r) \in RcvState /\ Again(r).files_add = r.files_add
           /\ Again(r).files_complete = r.files_complete /\ Again(r).file_error = r.file_error
BY DEF Again, RcvState

LEMMA AfterCloseOf ==
    ASSUME NEW r \in RcvState
    PROVE  /\ AfterClose(r) \in RcvState /\ AfterClose(r).files_add = r.files_add
           /\ AfterClose(r).files_complete = r.files_complete
           /\ AfterClose(r).file_error = r.file_error
           /\ r.file_error => AfterClose(r).pc = "meta"
<1>1. CASE r.added /\ ~r.file_error  BY <1>1, AgainOf DEF AfterClose
<1>2. CASE ~(r.added /\ ~r.file_error)  BY <1>2 DEF AfterClose, RcvState
<1> QED  BY <1>1, <1>2

LEMMA AddFileStep ==
    ASSUME IInv, AddFile
    PROVE  IInv'
<1>1. Records /\ SenderInv /\ ReceiverInv /\ FlightInv /\ LifeInv  BY DEF IInv
<1>2. /\ rcv.pc = "add" /\ rcv.files_add # << >>
      /\ UNCHANGED <<txvars, fc, snd, data, tometa, backmeta, rx, disk, files_hash>>
  BY DEF AddFile
<1>3. rcv \in RcvState /\ ~rcv.file_error /\ leaked \in Nat  BY <1>1, <1>2 DEF Records, ReceiverInv
<1>4. \A f \in FileNos : files_hash'[f] \in {-1, Blocks[f]}  BY <1>1, <1>2 DEF ReceiverInv
<1>5. CASE /\ Fds < FdLimit /\ Cardinality(Stored) < RxSlots
           /\ file_stat' = [file_stat EXCEPT ![Head(rcv.files_add)] = [Absent EXCEPT !.in = TRUE]]
           /\ rcv' = [rcv EXCEPT !.added = TRUE, !.files_add = Tail(@),
                        !.pc = IF Len(rcv.files_add) = 1 THEN "close" ELSE "add"]
           /\ leaked' = leaked
  BY <1>2, <1>5, EnterStep
<1>6. CASE Fds < FdLimit /\ leaked' = leaked + 1 /\ rcv' = [rcv EXCEPT !.pc = "close"]
           /\ file_stat' = file_stat
  <2>1. /\ rcv' \in RcvState /\ rcv'.files_add = rcv.files_add /\ ~rcv'.file_error
        /\ rcv'.files_complete = rcv.files_complete
    BY <1>3, <1>6 DEF RcvState
  <2>2. leaked' \in Nat /\ UNCHANGED <<txvars, fc, snd, data, tometa, backmeta, rx, file_stat, disk, files_hash>>
    BY <1>2, <1>3, <1>6
  <2>3. Records' /\ SenderInv' /\ FlightInv' /\ LifeInv'  BY <2>1, <2>2, MoveOn
  <2>4. ReceiverInv'
    <3>1. Stored' = Stored  BY <1>6 DEF Stored
    <3>2. Cardinality(Stored) + (leaked + 1) <= FdLimit /\ Cardinality(Stored) <= RxSlots
      BY <1>1, <1>6, Limits
    <3>3. Fds' <= FdLimit /\ Cardinality(Stored)' <= RxSlots  BY <1>6, <3>1, <3>2 DEF Fds
    <3> QED  BY <1>4, <2>1, <3>3 DEF ReceiverInv
  <2> QED  BY <2>3, <2>4 DEF IInv
<1>7. CASE /\ rcv' = [rcv EXCEPT !.pc = "close"] \/ rcv' = [rcv EXCEPT !.pc = "close", !.file_error = TRUE]
           /\ file_stat' = file_stat /\ leaked' = leaked
  <2>1. /\ rcv' \in RcvState /\ rcv'.files_add = rcv.files_add /\ rcv'.pc = "close"
        /\ rcv'.files_complete = rcv.files_complete
    BY <1>3, <1>7 DEF RcvState
  <2>2. leaked' \in Nat /\ UNCHANGED <<txvars, fc, snd, data, tometa, backmeta, rx, file_stat, disk, files_hash>>
    BY <1>2, <1>3, <1>7
  <2>3. Records' /\ SenderInv' /\ FlightInv' /\ LifeInv'  BY <2>1, <2>2, MoveOn
  <2>4. ReceiverInv'  BY <1>1, <1>2, <1>4, <1>7, <2>1, ReceiverMoves
  <2> QED  BY <2>3, <2>4 DEF IInv
<1> QED  BY <1>5, <1>6, <1>7 DEF AddFile

LEMMA CloseFileStep ==
    ASSUME IInv, CloseFile
    PROVE  IInv'
<1>1. Records /\ SenderInv /\ ReceiverInv /\ FlightInv /\ LifeInv  BY DEF IInv
<1>2. /\ rcv.pc = "close"
      /\ UNCHANGED <<txvars, fc, snd, data, tometa, backmeta, rx, disk, leaked>>
  BY DEF CloseFile
<1>3. rcv \in RcvState /\ leaked \in Nat  BY <1>1 DEF Records
<1>4. CASE rcv' = AfterClose(rcv) /\ file_stat' = file_stat /\ files_hash' = files_hash
  <2>1. /\ rcv' \in RcvState /\ rcv'.files_add = rcv.files_add
        /\ rcv'.files_complete = rcv.files_complete /\ rcv'.file_error = rcv.file_error
        /\ rcv.file_error => rcv'.pc = "meta"
    BY <1>3, <1>4, AfterCloseOf
  <2>2. leaked' \in Nat /\ UNCHANGED <<txvars, fc, snd, data, tometa, backmeta, rx, file_stat, disk, files_hash>>
    BY <1>2, <1>3, <1>4
  <2>3. Records' /\ SenderInv' /\ FlightInv' /\ LifeInv'  BY <2>1, <2>2, MoveOn
  <2>4. rcv'.file_error => rcv'.files_add # << >> /\ rcv'.pc # "add"  BY <1>1, <2>1 DEF ReceiverInv
  <2>5. \A f \in FileNos : files_hash'[f] \in {-1, Blocks[f]}  BY <1>1, <1>4 DEF ReceiverInv
  <2>6. ReceiverInv'  BY <1>1, <1>2, <1>4, <2>4, <2>5, ReceiverMoves
  <2> QED  BY <2>3, <2>6 DEF IInv
<1>5. ASSUME rcv.files_close # << >>, Closable(Head(rcv.files_close)),
             rcv' = [rcv EXCEPT !.files_close = Tail(@),
                          !.files_complete = Append(@,
                             [fino |-> Head(rcv.files_close),
                              crc |-> file_stat[Head(rcv.files_close)].crc, errno |-> FALSE])],
             file_stat' = [file_stat EXCEPT ![Head(rcv.files_close)] = Absent],
             files_hash' = [files_hash EXCEPT ![Head(rcv.files_close)] = -1]
      PROVE  IInv'
  <2>1. UNCHANGED <<stage, head, offset, tx, fc, snd, data, tometa, backmeta, rx, disk, leaked>>
    BY <1>2 DEF txvars
  <2>2. PICK q \in Seq(FileNos) : q = rcv.files_close /\ q # << >>
    BY <1>3, <1>5 DEF RcvState
  <2>3. Head(q) = q[1] /\ q[1] \in FileNos /\ Tail(q) \in Seq(FileNos)  BY <2>2, TailOf
  <2>4. PICK f \in FileNos : f = Head(rcv.files_close)  BY <2>2, <2>3
  <2>5. /\ file_stat[f].in /\ OnDisk(f) = 0 .. Blocks[f] - 1
        /\ \A c \in Conns : rx[c].block[1] # f
    BY <1>1, <1>5, <2>4, ClosableWhole
  <2>6. file_stat[f].crc = disk[f] /\ disk[f] \subseteq BlockIds
    BY <1>1, <2>5 DEF FlightInv, AccountInv, Records
  <2>7. PICK e \in Entry : e = [fino |-> f, crc |-> disk[f], errno |-> FALSE]  BY <2>6 DEF Entry
  <2>8. PICK r \in Seq(Entry) : r = Append(rcv.files_complete, e)
    <3>1. rcv.files_complete \in Seq(Entry)  BY <1>1, FileTypes
    <3> QED  BY <3>1, AppendOf
  <2>9. PICK t \in Seq(FileNos) : t = Tail(rcv.files_close)  BY <2>2, <2>3
  <2>10. rcv' = [rcv EXCEPT !.files_close = t, !.files_complete = r]
    BY <1>5, <2>4, <2>6, <2>7, <2>8, <2>9
  <2>11. /\ rcv' \in RcvState /\ rcv'.files_add = rcv.files_add /\ rcv'.files_complete = r
         /\ rcv'.file_error = rcv.file_error /\ rcv'.pc = rcv.pc
    BY <1>3, <2>10 DEF RcvState
  <2>12. file_stat' = [file_stat EXCEPT ![f] = Absent]  BY <1>5, <2>4
  <2>13. Cardinality(Stored') = Cardinality(Stored) - 1 /\ file_stat' \in [FileNos -> FsState]
    BY <1>1, <2>5, <2>12, OneLessStored
  <2>14. /\ files_hash' \in [FileNos -> Nat \cup {-1}]
         /\ \A g \in FileNos : files_hash'[g] \in {-1, Blocks[g]}
    BY <1>1, <1>5, <2>4 DEF Records, ReceiverInv
  <2>15. Records'  BY <1>1, <2>1, <2>11, <2>13, <2>14 DEF Records
  <2>16. SenderInv'  BY <1>1, <2>1 DEF SenderInv
  <2>17. ReceiverInv'
    <3>1. Cardinality(Stored') <= RxSlots /\ Cardinality(Stored') + leaked <= FdLimit
      BY <1>1, <2>13, Limits
    <3>2. Fds' <= FdLimit /\ Cardinality(Stored)' <= RxSlots  BY <2>1, <3>1 DEF Fds
    <3>3. rcv'.file_error => rcv'.files_add # << >> /\ rcv'.pc # "add"
      BY <1>1, <2>11 DEF ReceiverInv
    <3> QED  BY <2>14, <3>2, <3>3 DEF ReceiverInv
  <2>18. FlightInv'  BY <1>1, <2>1, <2>5, <2>12, LeaveFlight
  <2>19. LifeInv'
    <3>1. rcv'.files_complete = Append(rcv.files_complete,
             [fino |-> f, crc |-> disk[f], errno |-> FALSE])
      BY <2>7, <2>8, <2>11
    <3>2. UNCHANGED <<snd, tometa, backmeta, rx, disk>>  BY <2>1
    <3>3. rcv'.files_add = rcv.files_add  BY <2>11
    <3>4. file_stat[f].in /\ OnDisk(f) = 0 .. Blocks[f] - 1  BY <2>5
    <3> QED  BY <1>1, <2>12, <3>1, <3>2, <3>3, <3>4, CloseLife
  <2> QED  BY <2>15, <2>16, <2>17, <2>18, <2>19 DEF IInv
<1> QED  BY <1>4, <1>5 DEF CloseFile

LEMMA SendFileErrorStep ==
    ASSUME IInv, SendFileError
    PROVE  IInv'
<1>1. Records /\ SenderInv /\ ReceiverInv /\ FlightInv /\ LifeInv  BY DEF IInv
<1>2. UNCHANGED <<stage, head, offset, tx, fc, snd, data, tometa, rx, file_stat, disk, leaked, files_hash>>
  BY DEF SendFileError, txvars, rxvars
<1>3. PICK q \in Seq(FileNos) : q = rcv.files_add /\ q # << >>
  BY <1>1, FileTypes DEF SendFileError, ReceiverInv
<1>4. Head(q) = q[1] /\ q[1] \in FileNos /\ Tail(q) \in Seq(FileNos)  BY <1>3, TailOf
<1>5. /\ rcv' \in RcvState /\ rcv'.files_add = Tail(q) /\ ~rcv'.file_error
      /\ rcv'.files_complete = rcv.files_complete
  <2>1. rcv \in RcvState  BY <1>1 DEF Records
  <2>2. PICK t \in Seq(FileNos) : t = Tail(q)  BY <1>4
  <2>3. PICK r : r = [rcv EXCEPT !.file_error = FALSE, !.files_add = t]  OBVIOUS
  <2>4. /\ r \in RcvState /\ r.files_add = t /\ ~r.file_error
        /\ r.files_complete = rcv.files_complete
    BY <2>1, <2>3 DEF RcvState
  <2>5. rcv' = AfterClose(r)  BY <1>3, <2>2, <2>3 DEF SendFileError
  <2>6. /\ AfterClose(r) \in RcvState /\ AfterClose(r).files_add = r.files_add
        /\ AfterClose(r).files_complete = r.files_complete
        /\ AfterClose(r).file_error = r.file_error
    BY <2>4, AfterCloseOf
  <2> QED  BY <2>2, <2>4, <2>5, <2>6
<1>6. PICK e \in Entry : e = [fino |-> q[1], crc |-> {}, errno |-> TRUE]  BY <1>4 DEF Entry
<1>7. PICK b \in Seq(Seq(Entry)), u \in Seq(Entry) :
         b = backmeta /\ u = <<e>> /\ u # << >> /\ backmeta' = Append(b, u)
  <2>1. <<e>> \in Seq(Entry) /\ <<e>> # << >>  BY <1>6
  <2>2. backmeta' = Append(backmeta, <<e>>)  BY <1>3, <1>4, <1>6 DEF SendFileError
  <2> QED  BY <1>1, <2>1, <2>2, FileTypes
<1>8. /\ Append(b, u) \in Seq(Seq(Entry)) /\ Append(b, u)[Len(b) + 1] = u
      /\ \A i \in 1 .. Len(b) : Append(b, u)[i] = b[i]
      /\ \A i \in 1 .. Len(Append(b, u)) : i \in 1 .. Len(b) \/ i = Len(b) + 1
  BY AppendOf
<1>9. Records'
  <2>1. backmeta' \in Seq(Seq(Entry))  BY <1>7, <1>8
  <2> QED  BY <1>1, <1>2, <1>5, <2>1 DEF Records
<1>10. SenderInv'
  <2>1. \A i \in 1 .. Len(b) : b[i] # << >>  BY <1>1, <1>7 DEF SenderInv
  <2>2. \A i \in 1 .. Len(Append(b, u)) : Append(b, u)[i] # << >>  BY <1>7, <1>8, <2>1
  <2>3. \A i \in 1 .. Len(backmeta') : backmeta'[i] # << >>  BY <1>7, <2>2
  <2> QED  BY <1>1, <1>2, <2>3 DEF SenderInv
<1>11. ReceiverInv'
  <2>1. \A f \in FileNos : files_hash'[f] \in {-1, Blocks[f]}  BY <1>1, <1>2 DEF ReceiverInv
  <2> QED  BY <1>1, <1>2, <1>5, <2>1, ReceiverMoves
<1>12. FlightInv'  BY <1>1, <1>2, FlightKept
<1>13. LifeInv'
  <2>1. /\ rcv.files_add # << >> /\ rcv'.files_add = Tail(rcv.files_add)
        /\ rcv'.files_complete = rcv.files_complete
    BY <1>3, <1>5
  <2>2. backmeta' = Append(backmeta, <<[fino |-> rcv.files_add[1], crc |-> {}, errno |-> TRUE]>>)
    BY <1>3, <1>6, <1>7
  <2>3. UNCHANGED <<snd, tometa, rx, disk, file_stat>>  BY <1>2
  <2> QED  BY <1>1, <2>1, <2>2, <2>3, RefuseLife
<1> QED  BY <1>9, <1>10, <1>11, <1>12, <1>13 DEF IInv

\* The first message to the receiver.
LEMMA FirstMessage ==
    ASSUME Records, tometa # << >>
    PROVE  /\ Head(tometa) = tometa[1] /\ Tail(tometa) \in Seq(Message)
           /\ tometa[1].files \in Seq(FileNos)
<1>1. tometa \in Seq(Message)  BY DEF Records
<1>2. Head(tometa) = tometa[1] /\ tometa[1] \in Message /\ Tail(tometa) \in Seq(Message)
  BY <1>1, TailOf
<1> QED  BY <1>2 DEF Message

LEMMA RecvSpecStep ==
    ASSUME IInv, RecvSpec
    PROVE  IInv'
<1>1. Records /\ SenderInv /\ ReceiverInv /\ FlightInv /\ LifeInv  BY DEF IInv
<1>2. UNCHANGED <<stage, head, offset, tx, fc, snd, data, backmeta, rx, file_stat, disk, leaked, files_hash>>
  BY DEF RecvSpec, txvars, rxvars
<1>3. /\ tometa # << >> /\ tometa' = Tail(tometa) /\ tometa' \in Seq(Message)
      /\ Head(tometa) = tometa[1] /\ tometa[1].files \in Seq(FileNos) /\ tometa[1].kind = "spec"
  BY <1>1, FirstMessage DEF RecvSpec
<1>4. PICK t \in Seq(FileNos) : t = rcv.files_add \o tometa[1].files
  <2>1. rcv.files_add \in Seq(FileNos)  BY <1>1, FileTypes
  <2> QED  BY <1>3, <2>1, ConcatProperties
<1>5. /\ rcv' \in RcvState /\ rcv'.files_add = t /\ ~rcv'.file_error
      /\ rcv'.files_complete = rcv.files_complete
  <2>1. rcv \in RcvState /\ ~rcv.file_error  BY <1>1 DEF Records, RecvSpec, Polling
  <2>2. PICK r : r = [rcv EXCEPT !.files_add = t]  OBVIOUS
  <2>3. /\ r \in RcvState /\ r.files_add = t /\ ~r.file_error
        /\ r.files_complete = rcv.files_complete
    BY <2>1, <2>2 DEF RcvState
  <2>4. rcv' = Again(r)  BY <1>3, <1>4, <2>2 DEF RecvSpec
  <2> QED  BY <2>3, <2>4, AgainOf
<1>6. Records'  BY <1>1, <1>2, <1>3, <1>5 DEF Records
<1>7. SenderInv'  BY <1>1, <1>2 DEF SenderInv
<1>8. ReceiverInv'
  <2>1. \A f \in FileNos : files_hash'[f] \in {-1, Blocks[f]}  BY <1>1, <1>2 DEF ReceiverInv
  <2> QED  BY <1>1, <1>2, <1>5, <2>1, ReceiverMoves
<1>9. FlightInv'  BY <1>1, <1>2, FlightKept
<1>10. LifeInv'
  <2>1. rcv'.files_add = rcv.files_add \o tometa[1].files  BY <1>4, <1>5
  <2>2. UNCHANGED <<snd, backmeta, rx, disk, file_stat>>  BY <1>2
  <2> QED  BY <1>1, <1>3, <1>5, <2>1, <2>2, RecvSpecLife
<1> QED  BY <1>6, <1>7, <1>8, <1>9, <1>10 DEF IInv

LEMMA RecvCountStep ==
    ASSUME IInv, RecvCount
    PROVE  IInv'
<1>1. Records /\ SenderInv /\ ReceiverInv /\ FlightInv /\ LifeInv  BY DEF IInv
<1>2. UNCHANGED <<stage, head, offset, tx, fc, snd, data, backmeta, rx, file_stat, disk, leaked>>
  BY DEF RecvCount, txvars, rxvars
<1>3. /\ tometa # << >> /\ tometa' = Tail(tometa) /\ tometa' \in Seq(Message)
      /\ Head(tometa) = tometa[1] /\ tometa[1].files \in Seq(FileNos) /\ tometa[1].kind = "count"
  BY <1>1, FirstMessage DEF RecvCount
<1>4. PICK t \in Seq(FileNos) : t = rcv.files_close \o tometa[1].files
  <2>1. rcv.files_close \in Seq(FileNos)  BY <1>1 DEF Records, RcvState
  <2> QED  BY <1>3, <2>1, ConcatProperties
<1>5. /\ rcv' \in RcvState /\ rcv'.files_add = rcv.files_add /\ ~rcv'.file_error
      /\ rcv'.files_complete = rcv.files_complete
  <2>1. rcv \in RcvState /\ ~rcv.file_error  BY <1>1 DEF Records, RecvCount, Polling
  <2>2. PICK r : r = [rcv EXCEPT !.files_close = t]  OBVIOUS
  <2>3. /\ r \in RcvState /\ r.files_add = rcv.files_add /\ ~r.file_error
        /\ r.files_complete = rcv.files_complete
    BY <2>1, <2>2 DEF RcvState
  <2>4. rcv' = Again(r)  BY <1>3, <1>4, <2>2 DEF RecvCount
  <2> QED  BY <2>3, <2>4, AgainOf
<1>6. /\ files_hash' \in [FileNos -> Nat \cup {-1}]
      /\ \A f \in FileNos : files_hash'[f] \in {-1, Blocks[f]}
  <2>1. \A f \in FileNos : files_hash'[f] = files_hash[f] \/ files_hash'[f] = Blocks[f]
    BY DEF RecvCount
  <2>2. \A f \in FileNos : files_hash'[f] \in {-1, Blocks[f]}  BY <1>1, <2>1 DEF ReceiverInv
  <2>3. \A f \in FileNos : Blocks[f] \in Nat \cup {-1} /\ files_hash[f] \in Nat \cup {-1}
    BY <1>1, TransferAssumption DEF Records
  <2>4. files_hash' \in [FileNos -> Nat \cup {-1}]  BY <2>3 DEF RecvCount
  <2> QED  BY <2>2, <2>4
<1>7. Records'  BY <1>1, <1>2, <1>3, <1>5, <1>6 DEF Records
<1>8. SenderInv'  BY <1>1, <1>2 DEF SenderInv
<1>9. ReceiverInv'  BY <1>1, <1>2, <1>5, <1>6, ReceiverMoves
<1>10. FlightInv'  BY <1>1, <1>2, FlightKept
<1>11. LifeInv'
  <2>1. UNCHANGED <<snd, backmeta, rx, disk, file_stat>>  BY <1>2
  <2> QED  BY <1>1, <1>3, <1>5, <2>1, CountLife
<1> QED  BY <1>7, <1>8, <1>9, <1>10, <1>11 DEF IInv

LEMMA SendCompletionsStep ==
    ASSUME IInv, SendCompletions
    PROVE  IInv'
<1>1. Records /\ SenderInv /\ ReceiverInv /\ FlightInv /\ LifeInv  BY DEF IInv
<1>2. UNCHANGED <<stage, head, offset, tx, fc, snd, data, tometa, rx, file_stat, disk, leaked, files_hash>>
  BY DEF SendCompletions, txvars, rxvars
<1>3. PICK q \in Seq(Entry) : q = rcv.files_complete  BY <1>1, FileTypes
<1>4. PICK n \in Nat : n = Len(q)  OBVIOUS
<1>5. PICK k \in 0 .. n : k = IF n < StatMax THEN n ELSE StatMax
  <2>1. StatMax \in Nat  BY TransferAssumption
  <2> QED  BY <2>1
<1>6. n # 0 => k # 0  BY <1>5, TransferAssumption
<1>7. PICK t \in Seq(Entry) : /\ t = SubSeq(q, 1, n - k) /\ Len(t) = n - k
                              /\ \A i \in 1 .. n - k : t[i] = q[i]
  <2>1. \A i \in 1 .. n - k : i \in 1 .. n  OBVIOUS
  <2>2. \A i \in 1 .. n - k : q[i] \in Entry  BY <1>4, <2>1
  <2>3. n - k \in Nat  OBVIOUS
  <2>4. PICK j \in Nat : j = n - k  BY <2>3
  <2>5. \A i \in 1 .. j : q[i] \in Entry  BY <2>2, <2>4
  <2>6. /\ SubSeq(q, 1, j) \in Seq(Entry) /\ Len(SubSeq(q, 1, j)) = j
        /\ \A i \in 1 .. j : SubSeq(q, 1, j)[i] = q[i]
    BY <2>5
  <2> QED  BY <2>4, <2>6
<1>8. /\ rcv' \in RcvState /\ rcv'.files_add = rcv.files_add /\ ~rcv'.file_error
      /\ rcv'.files_complete = t
  <2>1. rcv \in RcvState /\ ~rcv.file_error  BY <1>1 DEF Records, SendCompletions, Polling
  <2>2. PICK r : r = [rcv EXCEPT !.files_complete = t]  OBVIOUS
  <2>3. /\ r \in RcvState /\ r.files_add = rcv.files_add /\ ~r.file_error
        /\ r.files_complete = t
    BY <2>1, <2>2 DEF RcvState
  <2>4. rcv' = Again(r)  BY <1>3, <1>4, <1>5, <1>7, <2>2 DEF SendCompletions
  <2> QED  BY <2>3, <2>4, AgainOf
<1>9. ReceiverInv'
  <2>1. \A f \in FileNos : files_hash'[f] \in {-1, Blocks[f]}  BY <1>1, <1>2 DEF ReceiverInv
  <2> QED  BY <1>1, <1>2, <1>8, <2>1, ReceiverMoves
<1>10. FlightInv'  BY <1>1, <1>2, FlightKept
<1>11. CASE n = 0
  <2>1. backmeta' = backmeta  BY <1>3, <1>4, <1>11 DEF SendCompletions
  <2>2. q = << >> /\ t = << >>
    <3>1. k = 0  BY <1>11
    <3>2. Len(t) = 0 /\ Len(q) = 0  BY <1>4, <1>7, <1>11, <3>1
    <3> QED  BY <3>2, EmptySeq
  <2>3. Records'  BY <1>1, <1>2, <1>8, <2>1 DEF Records
  <2>4. SenderInv'  BY <1>1, <1>2, <2>1 DEF SenderInv
  <2>5. LifeInv'  BY <1>1, <1>2, <1>3, <1>8, <2>1, <2>2, LifeKept
  <2> QED  BY <1>9, <1>10, <2>3, <2>4, <2>5 DEF IInv
<1>12. CASE n # 0
  <2>1. PICK msg \in Seq(Entry) : /\ msg = [i \in 1 .. k |-> rcv.files_complete[n + 1 - i]]
                                  /\ Len(msg) = k /\ msg # << >>
                                  /\ \A i \in 1 .. k : msg[i] = rcv.files_complete[n + 1 - i]
    <3>1. ASSUME NEW i \in 1 .. k PROVE rcv.files_complete[n + 1 - i] \in Entry
      <4>1. n + 1 - i \in 1 .. n  OBVIOUS
      <4> QED  BY <1>3, <1>4, <4>1
    <3>2. k \in Nat /\ k # 0  BY <1>6, <1>12
    <3>3. PICK m : m = [i \in 1 .. k |-> rcv.files_complete[n + 1 - i]]  OBVIOUS
    <3>4. m \in [1 .. k -> Entry]  BY <3>1, <3>3
    <3>5. m \in Seq(Entry) /\ Len(m) = k  BY <3>2, <3>4
    <3>6. m # << >>  BY <3>2, <3>5
    <3> QED  BY <3>3, <3>5, <3>6
  <2>2. PICK b \in Seq(Seq(Entry)), z \in Nat : b = backmeta /\ z = Len(b)  BY <1>1, FileTypes
  <2>3. backmeta' = Append(b, msg)
    BY <1>3, <1>4, <1>5, <1>12, <2>1, <2>2 DEF SendCompletions
  <2>4. /\ Append(b, msg) \in Seq(Seq(Entry)) /\ Len(Append(b, msg)) = Len(b) + 1
        /\ Append(b, msg)[Len(b) + 1] = msg
        /\ \A i \in 1 .. Len(b) : Append(b, msg)[i] = b[i]
        /\ \A i \in 1 .. Len(Append(b, msg)) : i \in 1 .. Len(b) \/ i = Len(b) + 1
    BY AppendOf
  <2>5. /\ backmeta' \in Seq(Seq(Entry)) /\ Len(backmeta') = z + 1 /\ backmeta'[z + 1] = msg
        /\ \A i \in 1 .. z : backmeta'[i] = backmeta[i]
        /\ \A i \in 1 .. Len(backmeta') : i \in 1 .. z \/ i = z + 1
    BY <2>2, <2>3, <2>4
  <2>6. Records'  BY <1>1, <1>2, <1>8, <2>5 DEF Records
  <2>7. SenderInv'
    <3>1. \A i \in 1 .. z : backmeta[i] # << >>  BY <1>1, <2>2 DEF SenderInv
    <3>2. \A i \in 1 .. Len(backmeta') : backmeta'[i] # << >>  BY <2>1, <2>5, <3>1
    <3> QED  BY <1>1, <1>2, <3>2 DEF SenderInv
  <2>8. LifeInv'
    <3>1. k \in 1 .. n /\ Len(rcv.files_complete) = n /\ z = Len(backmeta)
      BY <1>3, <1>4, <1>6, <1>12, <2>2
    <3>2. /\ Len(rcv'.files_complete) = n - k
          /\ \A i \in 1 .. n - k : rcv'.files_complete[i] = rcv.files_complete[i]
      BY <1>3, <1>7, <1>8
    <3>3. UNCHANGED <<snd, tometa, rx, disk, file_stat>>  BY <1>2
    <3>4. Len(msg) = k /\ \A i \in 1 .. k : msg[i] = rcv.files_complete[n + 1 - i]  BY <2>1
    <3>5. /\ Len(backmeta') = z + 1 /\ backmeta'[z + 1] = msg
          /\ \A i \in 1 .. z : backmeta'[i] = backmeta[i]
      BY <2>5
    <3>6. rcv'.files_add = rcv.files_add  BY <1>8
    <3> QED  BY <1>1, <3>1, <3>2, <3>3, <3>4, <3>5, <3>6, CompletionsLife
  <2> QED  BY <1>9, <1>10, <2>6, <2>7, <2>8 DEF IInv
<1> QED  BY <1>11, <1>12

LEMMA StutterStep ==
    ASSUME IInv, UNCHANGED vars
    PROVE  IInv'
<1>1. UNCHANGED <<offset, snd, data, tometa, backmeta, rxvars, rcvars>>  BY DEF vars, txvars
<1>2. UNCHANGED <<stage, head, offset, tx, fc, snd, data, tometa, backmeta, rx, file_stat, disk,
                  leaked, files_hash, rcv>>
  BY DEF vars, txvars, rxvars, rcvars
<1>3. Records'  BY <1>2 DEF IInv, Records
<1>4. SenderInv'  BY <1>2 DEF IInv, SenderInv
<1> QED  BY <1>1, <1>3, <1>4, QuietKept DEF IInv

LEMMA InitInv == Init => IInv
<1> SUFFICES ASSUME Init PROVE IInv  OBVIOUS
<1>1. Records
  <2>1. /\ fc \in FcState /\ snd \in SndState /\ rcv \in RcvState
        /\ Absent \in FsState
    <3>1. Unreachable \subseteq FileNos  BY TransferAssumption
    <3>2. rcv \in RcvState  BY <3>1 DEF Init, RcvState
    <3> QED  BY <3>2 DEF Init, FcState, SndState, Absent, FsState
  <2>2. RxIdle \in RxState  BY DEF RxIdle, RxState
  <2>3. rx \in [Conns -> RxState] /\ file_stat \in [FileNos -> FsState]
    BY <2>1, <2>2 DEF Init
  <2> QED  BY <2>1, <2>3 DEF Init, Records
<1>2. SenderInv
  <2>1. \A f \in FileNos : offset[f] <= Blocks[f]  BY TransferAssumption DEF Init
  <2>2. \A c \in Conns : Len(data[c]) <= ConnCap  BY TransferAssumption DEF Init
  <2> QED  BY <2>1, <2>2, TransferAssumption DEF Init, SenderInv
<1>3. ReceiverInv
  <2>1. Stored = {}  BY DEF Init, Stored, Absent
  <2>2. Cardinality(Stored) = 0  BY <2>1, FS_EmptySet
  <2> QED  BY <2>2, TransferAssumption DEF Init, ReceiverInv, Fds
<1>4. FlightInv
  <2>1. \A c \in Conns : data[c] = << >> /\ rx[c] = RxIdle  BY DEF Init
  <2>2. \A c \in Conns : 1 .. Len(data[c]) = {}  BY <2>1
  <2>3. \A c \in Conns : rx[c].pc = "recv" /\ rx[c].block = NoBlock  BY <2>1 DEF RxIdle
  <2>4. WireInv /\ WireOnce /\ WireOrHand  BY <2>2 DEF WireInv, WireOnce, WireOrHand
  <2>5. HandInv /\ HandOnce  BY <2>3 DEF HandInv, HandOnce
  <2>6. DiskInv  BY DEF Init, DiskInv
  <2>7. AccountInv  BY DEF Init, AccountInv, Absent
  <2> QED  BY <2>4, <2>5, <2>6, <2>7 DEF FlightInv
<1>5. LifeInv
  <2>1. PICK life : life = [f \in FileNos |-> "unsent"]  OBVIOUS
  <2>2. /\ rcv.files_add = << >> /\ rcv.files_complete = << >> /\ tometa = << >>
        /\ backmeta = << >> /\ snd.todo = << >> /\ snd.files_ok = 0
    BY DEF Init
  <2>3. Len(<< >>) = 0 /\ 1 .. 0 = {}  OBVIOUS
  <2>4. AddOnce /\ ConfirmOnce  BY <2>2, <2>3 DEF AddOnce, ConfirmOnce, Distinct
  <2>5. Announced(life)
    <3>1. \A f \in FileNos : ~file_stat[f].in  BY DEF Init, Absent
    <3> QED  BY <2>1, <2>2, <2>3, <3>1 DEF Announced
  <2>6. Confirmed(life)
    <3>1. {f \in FileNos : life[f] = "ok"} = {}  BY <2>1
    <3>2. snd.files_ok = Cardinality({f \in FileNos : life[f] = "ok"})
      BY <2>2, <3>1, FS_EmptySet
    <3> QED  BY <2>2, <2>3, <3>2 DEF Confirmed
  <2>7. Content(life)
    <3>1. \A f \in FileNos : disk[f] = {}  BY DEF Init
    <3>2. \A c \in Conns : rx[c].file_cur = NoFile  BY DEF Init, RxIdle
    <3> QED  BY <2>1, <3>1, <3>2, FilesNat DEF Content, Closed
  <2>8. life \in [FileNos -> Lives]  BY <2>1 DEF Lives, Before
  <2> QED  BY <2>4, <2>5, <2>6, <2>7, <2>8 DEF LifeInv, Life
<1> QED  BY <1>1, <1>2, <1>3, <1>4, <1>5 DEF IInv

LEMMA NextInv == IInv /\ [Next]_vars => IInv'
<1> SUFFICES ASSUME IInv, [Next]_vars PROVE IInv'  OBVIOUS
<1>1. CASE OpenerStep  BY <1>1, InsertFileStep DEF OpenerStep
<1>2. CASE FcWorker  BY <1>2, FcWorkerStep
<1>3. CASE SenderStep
  BY <1>3, AnnounceStep, SendFileCompleteStep, HandleMsgStep, AwaitChecksumStep, VerifyStep,
     CompleteStep DEF SenderStep
<1>4. CASE ReceiverStep
  BY <1>4, AddFileStep, CloseFileStep, SendFileErrorStep, RecvSpecStep, RecvCountStep,
     SendCompletionsStep DEF ReceiverStep
<1>5. ASSUME NEW c \in Conns, TxStep(c) PROVE IInv'
  BY <1>5, NextFileStep, SendBlockStep, LeaveFileStep DEF TxStep
<1>6. ASSUME NEW c \in Conns, RxStep(c) PROVE IInv'
  BY <1>6, RxRecvStep, RxWaitStep, RxWriteStep, RxCountStep DEF RxStep
<1>7. CASE UNCHANGED vars  BY <1>7, StutterStep
<1> QED  BY <1>1, <1>2, <1>3, <1>4, <1>5, <1>6, <1>7 DEF Next, Finished

-----------------------------------------------------------------------------
\* The invariant: the account the receiver keeps of every file (its checksum and
\* its number of blocks) agrees with what is on disk, on the wire and in the hands
\* of the workers, and every file is announced, opened, closed and confirmed once.
THEOREM Invariance == Spec => []IInv
<1>1. Init => IInv  BY InitInv
<1>2. IInv /\ [Next]_vars => IInv'  BY NextInv
<1> QED  BY <1>1, <1>2, PTL DEF Spec

LEMMA TypeFollows == IInv => TypeOK
<1> SUFFICES ASSUME IInv PROVE TypeOK  OBVIOUS
<1>1. Records /\ SenderInv /\ ReceiverInv /\ LifeInv  BY DEF IInv
<1>2. head \in 0 .. NFiles  BY <1>1, TransferAssumption DEF Records, SenderInv
<1>3. /\ fc.pushed \in Seq(FileNos) /\ Len(fc.pushed) \in Nat
      /\ fc.in1 \in Nat /\ fc.in2 \in Nat /\ fc.out1 \in Nat /\ fc.out2 \in Nat
      /\ fc.in1 <= Len(fc.pushed) /\ fc.in2 <= fc.in1 /\ fc.out1 <= fc.in1 /\ fc.out2 <= fc.in2
  BY <1>1 DEF Records, SenderInv, FcState
<1>4. /\ fc.in1 \in 0 .. Len(fc.pushed) /\ fc.in2 \in 0 .. fc.in1
      /\ fc.out1 \in 0 .. fc.in1 /\ fc.out2 \in 0 .. fc.in2
  BY <1>3
<1>5. snd.files_sent \in 0 .. NFiles /\ snd.hm \subseteq FileNos
  BY <1>1, TransferAssumption DEF Records, SenderInv, SndState
<1>6. snd.files_ok \in 0 .. NFiles
  <2>1. PICK life : Life(life)  BY <1>1 DEF LifeInv
  <2>2. snd.files_ok = Cardinality({f \in FileNos : life[f] = "ok"})
    BY <2>1 DEF Life, Confirmed
  <2>3. {f \in FileNos : life[f] = "ok"} \in SUBSET FileNos  OBVIOUS
  <2> QED  BY <2>2, <2>3, FilesFinite
<1>7. \A c \in Conns : data[c] \in Seq(BlockIds) /\ Len(data[c]) <= ConnCap
  BY <1>1 DEF Records, SenderInv
<1>8. /\ stage \in [FileNos -> {"none", "table", "done"}] /\ offset \in [FileNos -> Nat]
      /\ tx \in [Conns -> FileNos \cup {NoFile}]
      /\ rx \in [Conns -> RxState] /\ file_stat \in [FileNos -> FsState]
      /\ files_hash \in [FileNos -> Nat \cup {-1}]
  BY <1>1 DEF Records
<1>9. rcv.files_add \in Seq(FileNos) /\ rcv.files_close \in Seq(FileNos)
  BY <1>1 DEF Records, RcvState
<1>10. Fds <= FdLimit /\ Cardinality(Stored) <= RxSlots  BY <1>1 DEF ReceiverInv
<1> QED  BY <1>2, <1>3, <1>4, <1>5, <1>6, <1>7, <1>8, <1>9, <1>10 DEF TypeOK, RxState, FsState

\* Type correctness of the transfer; the receiver keeps to its file table and to
\* the descriptors it has, the forgotten ones included.
THEOREM TypeCorrect == Spec => []TypeOK
<1>1. IInv => TypeOK  BY TypeFollows
<1> QED  BY <1>1, Invariance, PTL

LEMMA IntactFollows == IInv => CompleteIntact
<1> SUFFICES ASSUME IInv, snd.pc = "complete"
             PROVE  /\ snd.files_ok = NFiles
                    /\ \A f \in FileNos : disk[f] = Whole(f) /\ ~file_stat[f].in
                    /\ Confirming = {}
  BY DEF CompleteIntact
<1>1. Records /\ SenderInv /\ LifeInv  BY DEF IInv
<1>2. PICK life : Life(life)  BY <1>1 DEF LifeInv
<1>3. Announced(life) /\ Confirmed(life) /\ Content(life)  BY <1>2 DEF Life
<1>4. PICK T \in SUBSET FileNos : T = {f \in FileNos : life[f] = "ok"}  OBVIOUS
<1>5. snd.files_ok = Cardinality(T)  BY <1>3, <1>4 DEF Confirmed
<1>6. Cardinality(T) >= NFiles  BY <1>1, <1>5 DEF SenderInv
<1>7. Cardinality(T) = NFiles /\ T = FileNos
  BY <1>6, FilesFinite, TransferAssumption
<1>8. \A f \in FileNos : life[f] = "ok"  BY <1>4, <1>7
<1>9. \A f \in FileNos : disk[f] = Whole(f) /\ ~file_stat[f].in
  BY <1>3, <1>8 DEF Content, Announced
<1>10. ASSUME NEW e \in Entry, NEW p \in {"complete", "back", "todo"}, Fits(e, life, p) PROVE FALSE
  <2>1. e.fino \in FileNos  BY DEF Entry
  <2> QED  BY <1>8, <1>10, <2>1 DEF Fits
<1>11. Confirming = {}
  <2>1. \A i \in 1 .. Len(rcv.files_complete) : FALSE
    BY <1>1, <1>3, <1>10, FileTypes DEF Confirmed
  <2>2. \A i \in 1 .. Len(backmeta) : \A k \in 1 .. Len(backmeta[i]) : FALSE
    BY <1>1, <1>3, <1>10, FileTypes DEF Confirmed
  <2>3. \A i \in 1 .. Len(snd.todo) : FALSE
    BY <1>1, <1>3, <1>10, FileTypes DEF Confirmed
  <2>4. \A x \in Confirming : FALSE
    <3>1. Entries(rcv.files_complete) = {}  BY <2>1 DEF Entries
    <3>2. Entries(snd.todo) = {}  BY <2>3 DEF Entries
    <3>3. \A i \in 1 .. Len(backmeta) : Entries(backmeta[i]) = {}  BY <2>2 DEF Entries
    <3> QED  BY <3>1, <3>2, <3>3 DEF Confirming
  <2> QED  BY <2>4
<1> QED  BY <1>5, <1>7, <1>9, <1>11

\* When the sender declares the transfer complete, every file is closed at the
\* receiver with exactly the blocks that were read, and no confirmation is left:
\* none counted twice, for another file or for an altered block.
THEOREM CompleteIntactHolds == Spec => []CompleteIntact
<1>1. IInv => CompleteIntact  BY IntactFollows
<1> QED  BY <1>1, Invariance, PTL

\* Only close_file takes a file out of the table.
LEMMA OthersKeep ==
    ASSUME IInv, [Next]_vars, NEW f \in FileNos, file_stat[f].in, ~file_stat'[f].in
    PROVE  CloseFile
<1>1. file_stat \in [FileNos -> FsState]  BY DEF IInv, Records
<1>2. file_stat' # file_stat  OBVIOUS
<1>3. ~OpenerStep /\ ~FcWorker
  BY <1>2 DEF OpenerStep, InsertFile, FcWorker, rxvars
<1>4. ~SenderStep
  BY <1>2 DEF SenderStep, Announce, SendFileComplete, HandleMsg, AwaitChecksum, Verify, Complete, rxvars
<1>5. ASSUME NEW c \in Conns PROVE ~TxStep(c)
  BY <1>2 DEF TxStep, NextFile, SendBlock, LeaveFile, rxvars
<1>6. ASSUME NEW c \in Conns PROVE ~RxStep(c)
  <2>1. ~RxRecv(c) /\ ~RxWait(c)  BY <1>2 DEF RxRecv, RxWait
  <2>2. ~RxWrite(c)
    <3>1. SUFFICES ASSUME RxWrite(c) PROVE FALSE  OBVIOUS
    <3>2. PICK x, y : file_stat' = [file_stat EXCEPT ![x].crc = y]  BY <3>1 DEF RxWrite
    <3>3. file_stat'[f].in = file_stat[f].in  BY <1>1, <3>2 DEF FsState
    <3> QED  BY <3>3
  <2>3. ~RxCount(c)
    <3>1. SUFFICES ASSUME RxCount(c) PROVE FALSE  OBVIOUS
    <3>2. PICK x, y : file_stat' = [file_stat EXCEPT ![x].block_total = y]  BY <3>1 DEF RxCount
    <3>3. file_stat'[f].in = file_stat[f].in  BY <1>1, <3>2 DEF FsState
    <3> QED  BY <3>3
  <2> QED  BY <2>1, <2>2, <2>3 DEF RxStep
<1>7. ~AddFile
  <2>1. SUFFICES ASSUME AddFile PROVE FALSE  OBVIOUS
  <2>2. PICK x : file_stat' = [file_stat EXCEPT ![x] = [Absent EXCEPT !.in = TRUE]]
    BY <1>2, <2>1 DEF AddFile
  <2>3. [Absent EXCEPT !.in = TRUE].in  BY DEF Absent
  <2>4. file_stat'[f] = file_stat[f] \/ file_stat'[f] = [Absent EXCEPT !.in = TRUE]
    BY <1>1, <2>2
  <2> QED  BY <2>3, <2>4
<1>8. ~SendFileError /\ ~RecvSpec /\ ~RecvCount /\ ~SendCompletions
  BY <1>2 DEF SendFileError, RecvSpec, RecvCount, SendCompletions, rxvars
<1>9. ~UNCHANGED vars  BY <1>2 DEF vars, rxvars
<1> QED  BY <1>3, <1>4, <1>5, <1>6, <1>7, <1>8, <1>9 DEF Next, Finished, ReceiverStep

LEMMA ClosedFollows ==
    ASSUME IInv, [Next]_vars, NEW f \in FileNos, file_stat[f].in, ~file_stat'[f].in
    PROVE  /\ {b[2] : b \in disk[f]} = 0 .. Blocks[f] - 1
           /\ file_stat[f].block_total = Blocks[f]
           /\ \A c \in Conns : rx[c].block[1] # f
           /\ \A c \in Conns : \A i \in 1 .. Len(data[c]) : data[c][i][1] # f
<1>1. Records /\ SenderInv /\ ReceiverInv /\ FlightInv  BY DEF IInv
<1>2. CloseFile  BY OthersKeep
<1>3. /\ Closable(Head(rcv.files_close))
      /\ file_stat' = [file_stat EXCEPT ![Head(rcv.files_close)] = Absent]
  BY <1>2 DEF CloseFile
<1>4. file_stat \in [FileNos -> FsState]  BY <1>1 DEF Records
<1>5. f = Head(rcv.files_close)  BY <1>3, <1>4
<1>6. Closable(f)  BY <1>3, <1>5
<1> QED  BY <1>1, <1>6, ClosableWhole DEF OnDisk

\* close_file takes a file out of the table only when every block of it is on disk
\* and counted, none is on a connection and no worker has one in hand.
THEOREM ClosedWholeHolds == Spec => ClosedWhole
<1>1. IInv /\ [Next]_vars =>
         [\A f \in FileNos : (file_stat[f].in /\ ~file_stat'[f].in) =>
            /\ {b[2] : b \in disk[f]} = 0 .. Blocks[f] - 1
            /\ file_stat[f].block_total = Blocks[f]
            /\ \A c \in Conns : rx[c].block[1] # f
            /\ \A c \in Conns : \A i \in 1 .. Len(data[c]) : data[c][i][1] # f]_vars
  BY ClosedFollows
<1> QED  BY <1>1, Invariance, PTL DEF Spec, ClosedWhole
=============================================================================
