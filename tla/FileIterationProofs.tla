------------------------- MODULE FileIterationProofs -------------------------
(***************************************************************************)
(* Proofs about module FileIteration, for any number of file and directory *)
(* workers, any tree, any capacities and batch sizes: its type invariant,  *)
(* what the equality of the two counters means, that no number goes        *)
(* unannounced, and that no file is lost or numbered twice unless a file   *)
(* worker has left on an error of open(2).                                 *)
(***************************************************************************)
EXTENDS FileIteration, FiniteSetTheorems, SequenceTheorems, WellFoundedInduction, TLAPS

FwPcs == {"recv", "unready", "compare", "ready", "mask", "open", "senddir", "msg", "exited"}
FwState == [pc : FwPcs, exit_ready : BOOLEAN, item : Seq(Entries \cup Nat), tail : Nat]
DwState == [pc : {"recv", "read", "exited"}, left : SUBSET Entries]
MainState == [pc : {"sources", "list", "recv", "announce", "done"}, todo : Seq(Entries),
              file_list : Seq(Entries), vec : SUBSET Nat, counter_max : Nat,
              files_sent : Nat, do_break : BOOLEAN]

\* The shapes of the variables.
Records ==
    /\ GLOBAL_FILEOPEN_CLEANUP \in Nat /\ GLOBAL_FILEOPEN_TAIL \in Nat
    /\ GLOBAL_FILEOPEN_MASK \subseteq FileWorkers
    /\ named \in Seq(Entries)
    /\ files \in Seq(Entries) /\ Len(files) <= FilesCap
    /\ dirs \in Seq(Entries)
    /\ msgs \in Seq(Nat) /\ Len(msgs) <= MsgCap
    /\ fw \in [FileWorkers -> FwState]
    /\ dw \in [DirWorkers -> DwState]
    /\ main \in MainState

\* What a file worker has in hand.
HasEntry(w) == fw[w].pc \in {"unready", "open", "senddir"}
HandInv ==
    \A w \in FileWorkers :
       /\ HasEntry(w) => Len(fw[w].item) = 1 /\ fw[w].item[1] \in Entries
       /\ fw[w].pc = "senddir" => Kind[fw[w].item[1]] = "dir"
       /\ fw[w].pc = "msg" => Len(fw[w].item) = 1 /\ fw[w].item[1] \in Nat
       /\ fw[w].pc \in {"recv", "compare", "ready", "mask"} => fw[w].item = << >>
       /\ fw[w].pc = "exited" /\ fw[w].item # << >> =>
             Len(fw[w].item) = 1 /\ fw[w].item[1] \in Entries

\* The counters differ by the directories that have been counted and not read,
\* and by one for the sources.
Reading == {d \in DirWorkers : dw[d].pc = "read"}
Passing == {w \in FileWorkers : fw[w].pc = "senddir"}
SourcesLeft == IF main.pc = "sources" THEN 1 ELSE 0
CountInv ==
    /\ GLOBAL_FILEOPEN_CLEANUP = GLOBAL_FILEOPEN_TAIL + SourcesLeft + Len(dirs)
                                   + Cardinality(Reading) + Cardinality(Passing)
    /\ main.pc # "sources" => main.todo = << >>
    /\ \A d \in DirWorkers : dw[d].pc # "read" => dw[d].left = {}

\* A worker with its bit in the mask has nothing in hand, or is about to take
\* the bit back; one that has left without an error has its bit in the mask.
MaskInv ==
    \A w \in FileWorkers :
       /\ w \in GLOBAL_FILEOPEN_MASK =>
             fw[w].exit_ready /\ fw[w].pc \in {"recv", "unready", "compare", "mask", "exited"}
       /\ fw[w].pc = "compare" => fw[w].tail <= GLOBAL_FILEOPEN_TAIL
       /\ fw[w].pc = "exited" /\ fw[w].item = << >> => w \in GLOBAL_FILEOPEN_MASK

\* Once every worker has its bit in the mask or is on the way to setting it, no
\* directory is left to read and nothing in the channel but entries of the list.
Retiring(w) ==
    \/ w \in GLOBAL_FILEOPEN_MASK
    \/ fw[w].pc = "ready"
    \/ fw[w].pc = "compare" /\ ~fw[w].exit_ready /\ fw[w].tail = GLOBAL_FILEOPEN_CLEANUP
AllRetiring == \A w \in FileWorkers : Retiring(w)
Settled == /\ GLOBAL_FILEOPEN_TAIL = GLOBAL_FILEOPEN_CLEANUP
           /\ Items(files) \subseteq Listed
RetireInv ==
    /\ Items(main.file_list) \subseteq Listed
    /\ AllRetiring => Settled

\* Where a number is: nowhere yet, in the hand of a worker, in the channel to
\* the main thread, in vec, or announced.
NumberHands == {fw[w].item[1] : w \in {v \in FileWorkers : fw[v].pc = "msg"}}
Numbered(st) ==
    /\ st \in [Nat -> {"none", "hand", "msgs", "vec", "sent"}]
    /\ \A n \in Nat :
          /\ st[n] # "none" <=> n \in 1 .. Len(named)
          /\ st[n] = "hand" <=> n \in NumberHands
          /\ st[n] = "msgs" <=> n \in Items(msgs)
          /\ st[n] = "vec"  <=> n \in main.vec
          /\ st[n] = "sent" <=> n \in 1 .. main.files_sent
    /\ Distinct(msgs)
    /\ \A v, w \in FileWorkers :
          fw[v].pc = "msg" /\ fw[w].pc = "msg" /\ fw[v].item[1] = fw[w].item[1] => v = w
NumberInv == \E st : Numbered(st)

\* The end: the main thread breaks out of its loop when every worker has left.
EndInv ==
    /\ main.do_break => main.pc \in {"announce", "done"} /\ AllExited /\ msgs = << >>
    /\ main.pc = "done" => /\ main.do_break
                           /\ main.vec = {} /\ main.files_sent = Len(named)

IInv == /\ Records /\ HandInv /\ CountInv /\ MaskInv /\ RetireInv /\ NumberInv
        /\ EndInv

\* Where a path name is, from "none" (not found yet) to "named", "ignored" or
\* "read" (a directory taken by a directory worker).
Carries(w) == HasEntry(w) \/ (fw[w].pc = "exited" /\ fw[w].item # << >>)
Hands == {fw[w].item[1] : w \in {v \in FileWorkers : Carries(v)}}
Lefts == UNION {dw[d].left : d \in DirWorkers}
Places == {"none", "todo", "list", "files", "hand", "dirs", "left", "named", "ignored", "read"}

\* at tells for each path name the one place where it is.
Located(at) ==
    /\ at \in [Entries -> Places]
    /\ \A e \in Entries :
          /\ at[e] = "todo"  <=> e \in Items(main.todo)
          /\ at[e] = "list"  <=> e \in Items(main.file_list)
          /\ at[e] = "files" <=> e \in Items(files)
          /\ at[e] = "hand"  <=> e \in Hands
          /\ at[e] = "dirs"  <=> e \in Items(dirs)
          /\ at[e] = "left"  <=> e \in Lefts
          /\ at[e] = "named" <=> e \in Items(named)

\* It is there only once.
HandsUnique == \A v, w \in FileWorkers :
                  Carries(v) /\ Carries(w) /\ fw[v].item[1] = fw[w].item[1] => v = w
LeftsUnique == \A c, d \in DirWorkers : c # d => dw[c].left \cap dw[d].left = {}
Unique ==
    /\ Distinct(main.todo) /\ Distinct(main.file_list)
    /\ Distinct(files) /\ Distinct(dirs) /\ Distinct(named)
    /\ HandsUnique /\ LeftsUnique

\* What has been found, and why.
Explained(at) ==
    \A e \in Entries :
       /\ at[e] = "named" => Kind[e] = "file"
       /\ at[e] = "ignored" => Kind[e] = "ignored"
       /\ at[e] \in {"dirs", "read"} => Kind[e] = "dir"
       /\ at[e] # "none" <=> \/ e \in Items(Sources) \cup Listed
                             \/ \E p \in Entries : at[p] = "read" /\ e \in Children[p]

Tracked(at) == Located(at) /\ Unique /\ Explained(at)
PlaceInv == \E at : Tracked(at)

-----------------------------------------------------------------------------
(* Lemmas: sequences and their items.                                      *)

LEMMA TailItems ==
    ASSUME NEW S, NEW q \in Seq(S), q # << >>
    PROVE  /\ Tail(q) \in Seq(S) /\ Len(Tail(q)) = Len(q) - 1
           /\ Head(q) \in S /\ Head(q) \in Items(q) /\ Items(Tail(q)) \subseteq Items(q)
           /\ Items(q) = Items(Tail(q)) \cup {Head(q)}
           /\ Distinct(q) => Distinct(Tail(q)) /\ Head(q) \notin Items(Tail(q))
<1>1. /\ Tail(q) \in Seq(S) /\ Len(Tail(q)) = Len(q) - 1 /\ Len(q) \in Nat /\ Len(q) >= 1
      /\ Head(q) = q[1] /\ Head(q) \in S
      /\ \A i \in 1 .. Len(q) - 1 : Tail(q)[i] = q[i + 1]
  OBVIOUS
<1>2. Head(q) \in Items(q)  BY <1>1 DEF Items
<1>3. ASSUME NEW x \in Items(Tail(q)) PROVE \E i \in 2 .. Len(q) : x = q[i]
  <2>1. PICK i \in 1 .. Len(Tail(q)) : x = Tail(q)[i]  BY <1>3 DEF Items
  <2>2. i + 1 \in 2 .. Len(q) /\ x = q[i + 1]  BY <1>1, <2>1
  <2> QED  BY <2>2
<1>4. Items(Tail(q)) \subseteq Items(q)  BY <1>1, <1>3 DEF Items
<1>5. ASSUME NEW x \in Items(q), x # Head(q) PROVE x \in Items(Tail(q))
  <2>1. PICK i \in 1 .. Len(q) : x = q[i]  BY <1>5 DEF Items
  <2>2. i - 1 \in 1 .. Len(Tail(q)) /\ x = Tail(q)[i - 1]  BY <1>1, <1>5, <2>1
  <2> QED  BY <2>2 DEF Items
<1>6. ASSUME Distinct(q) PROVE Distinct(Tail(q)) /\ Head(q) \notin Items(Tail(q))
  <2>1. Head(q) \notin Items(Tail(q))
    <3> SUFFICES ASSUME Head(q) \in Items(Tail(q)) PROVE FALSE  OBVIOUS
    <3>1. PICK i \in 2 .. Len(q) : Head(q) = q[i]  BY <1>3
    <3> QED  BY <1>1, <1>6, <3>1 DEF Distinct
  <2>2. ASSUME NEW i \in 1 .. Len(Tail(q)), NEW j \in 1 .. Len(Tail(q)), Tail(q)[i] = Tail(q)[j]
        PROVE  i = j
    <3>1. i + 1 \in 1 .. Len(q) /\ j + 1 \in 1 .. Len(q) /\ q[i + 1] = q[j + 1]
      BY <1>1, <2>2
    <3>2. i + 1 = j + 1  BY <1>6, <3>1 DEF Distinct
    <3> QED  BY <3>2
  <2> QED  BY <2>1, <2>2 DEF Distinct
<1> QED  BY <1>1, <1>2, <1>4, <1>5, <1>6

LEMMA AppendItems ==
    ASSUME NEW S, NEW q \in Seq(S), NEW e \in S
    PROVE  /\ Append(q, e) \in Seq(S) /\ Len(Append(q, e)) = Len(q) + 1
           /\ Items(Append(q, e)) = Items(q) \cup {e}
           /\ Distinct(q) /\ e \notin Items(q) => Distinct(Append(q, e))
<1>1. /\ Append(q, e) \in Seq(S) /\ Len(Append(q, e)) = Len(q) + 1 /\ Len(q) \in Nat
      /\ Append(q, e)[Len(q) + 1] = e
      /\ \A i \in 1 .. Len(q) : Append(q, e)[i] = q[i]
  OBVIOUS
<1>2. ASSUME NEW x \in Items(Append(q, e)) PROVE x \in Items(q) \cup {e}
  <2>1. PICK i \in 1 .. Len(Append(q, e)) : x = Append(q, e)[i]  BY <1>2 DEF Items
  <2>2. CASE i = Len(q) + 1  BY <1>1, <2>1, <2>2
  <2>3. CASE i \in 1 .. Len(q)  BY <1>1, <2>1, <2>3 DEF Items
  <2> QED  BY <1>1, <2>1, <2>2, <2>3
<1>3. ASSUME NEW x \in Items(q) PROVE x \in Items(Append(q, e))
  <2>1. PICK i \in 1 .. Len(q) : x = q[i]  BY <1>3 DEF Items
  <2>2. i \in 1 .. Len(Append(q, e)) /\ x = Append(q, e)[i]  BY <1>1, <2>1
  <2> QED  BY <2>2 DEF Items
<1>4. e \in Items(Append(q, e))
  <2>1. Len(q) + 1 \in 1 .. Len(Append(q, e))  BY <1>1
  <2> QED  BY <1>1, <2>1 DEF Items
<1>5. ASSUME Distinct(q), e \notin Items(q) PROVE Distinct(Append(q, e))
  <2>1. \A i \in 1 .. Len(q) : q[i] # e  BY <1>5 DEF Items
  <2>2. ASSUME NEW i \in 1 .. Len(q) + 1, NEW j \in 1 .. Len(q) + 1,
               Append(q, e)[i] = Append(q, e)[j]
        PROVE  i = j
    <3>1. CASE i \in 1 .. Len(q) /\ j \in 1 .. Len(q)  BY <1>1, <1>5, <2>2, <3>1 DEF Distinct
    <3>2. CASE i = Len(q) + 1 /\ j \in 1 .. Len(q)  BY <1>1, <2>1, <2>2, <3>2
    <3>3. CASE j = Len(q) + 1 /\ i \in 1 .. Len(q)  BY <1>1, <2>1, <2>2, <3>3
    <3> QED  BY <1>1, <2>2, <3>1, <3>2, <3>3
  <2> QED  BY <1>1, <2>2 DEF Distinct
<1> QED  BY <1>1, <1>2, <1>3, <1>4, <1>5

LEMMA FrontItems ==
    ASSUME NEW S, NEW q \in Seq(S), q # << >>
    PROVE  LET r == SubSeq(q, 1, Len(q) - 1) IN
           /\ r \in Seq(S) /\ q[Len(q)] \in S /\ q[Len(q)] \in Items(q)
           /\ Items(q) = Items(r) \cup {q[Len(q)]}
           /\ Distinct(q) => Distinct(r) /\ q[Len(q)] \notin Items(r)
<1> DEFINE r == SubSeq(q, 1, Len(q) - 1)
<1>1. PICK n \in Nat : n = Len(q) - 1
  <2>1. Len(q) \in Nat /\ Len(q) # 0  OBVIOUS
  <2> QED  BY <2>1
<1>2. Len(q) = n + 1 /\ q[Len(q)] \in S  BY <1>1
<1>3. \A i \in 1 .. n : q[i] \in S  BY <1>2
<1>4. /\ r \in Seq(S) /\ Len(r) = n
      /\ \A i \in 1 .. n : r[i] = q[i]
  <2>1. r = SubSeq(q, 1, n)  BY <1>1
  <2>2. /\ SubSeq(q, 1, n) \in Seq(S)
        /\ Len(SubSeq(q, 1, n)) = IF 1 <= n THEN n - 1 + 1 ELSE 0
        /\ \A i \in 1 .. n - 1 + 1 : SubSeq(q, 1, n)[i] = q[1 + i - 1]
    BY <1>3, SubSeqProperties
  <2> HIDE DEF r
  <2>3. n - 1 + 1 = n /\ \A i \in 1 .. n : 1 + i - 1 = i  OBVIOUS
  <2> QED  BY <2>1, <2>2, <2>3
<1> HIDE DEF r
<1>5. q[Len(q)] \in Items(q)  BY <1>1, <1>2, <1>4 DEF Items
<1>6. Items(r) \subseteq Items(q)  BY <1>1, <1>2, <1>4 DEF Items
<1>7. ASSUME NEW x \in Items(q), x # q[Len(q)] PROVE x \in Items(r)
  <2>1. PICK i \in 1 .. Len(q) : x = q[i]  BY <1>7 DEF Items
  <2>2. i \in 1 .. Len(r) /\ x = r[i]  BY <1>1, <1>2, <1>4, <1>7, <2>1
  <2> QED  BY <2>2 DEF Items
<1>8. ASSUME Distinct(q) PROVE Distinct(r) /\ q[Len(q)] \notin Items(r)
  <2>1. Distinct(r)  BY <1>1, <1>2, <1>4, <1>8 DEF Distinct
  <2>2. q[Len(q)] \notin Items(r)  BY <1>1, <1>2, <1>4, <1>8 DEF Items, Distinct
  <2> QED  BY <2>1, <2>2
<1> QED  BY <1>1, <1>2, <1>4, <1>5, <1>6, <1>7, <1>8 DEF r

LEMMA NoItems == Items(<< >>) = {} /\ Distinct(<< >>)
BY DEF Items, Distinct

-----------------------------------------------------------------------------
(* Lemmas: the numbers that Announce sends.                                *)

LEMMA LeastNat ==
    ASSUME NEW T \in SUBSET Nat, T # {}
    PROVE  \E m \in T : \A y \in T : m <= y
<1>1. PICK m \in T : \A y \in T : ~(<<y, m>> \in OpToRel(<, Nat))
  BY NatLessThanWellFounded, WFMin
<1>2. \A y \in T : ~(y < m)  BY <1>1 DEF OpToRel
<1>3. \A y \in T : m <= y  BY <1>2
<1> QED  BY <1>3

\* Of the numbers in V, those that continue 1 .. s.
Run(s, V) == {n \in V : s + 1 .. n \subseteq V}
Between(s, V, l) == s <= l /\ \A n \in V : s < n /\ n <= l

\* They form an interval, and the number after it is missing.
LEMMA RunIsInterval ==
    ASSUME NEW s \in Nat, NEW l \in Nat, NEW V \in SUBSET Nat, Between(s, V, l)
    PROVE  \E k \in Nat : /\ s <= k /\ k <= l /\ k + 1 \notin V
                          /\ Run(s, V) = s + 1 .. k /\ Cardinality(Run(s, V)) = k - s
<1> DEFINE T == {j \in Nat : s < j /\ j \notin V}
<1>0. s <= l /\ \A n \in V : s < n /\ n <= l  BY DEF Between
<1>1. l + 1 \in T /\ T \in SUBSET Nat  BY <1>0
<1>2. PICK m \in T : \A y \in T : m <= y
  <2> HIDE DEF T
  <2> QED  BY <1>1, LeastNat
<1>3. /\ m \in Nat /\ s < m /\ m \notin V /\ m <= l + 1
      /\ \A y \in Nat : s < y /\ y \notin V => m <= y
  BY <1>1, <1>2
<1>4. PICK k \in Nat : m = k + 1  BY <1>3
<1>5. s <= k /\ k <= l /\ k + 1 \notin V  BY <1>3, <1>4
<1>6. s + 1 .. k \subseteq V  BY <1>3, <1>4
<1>7. s + 1 .. k \subseteq Run(s, V)
  <2> SUFFICES ASSUME NEW n \in s + 1 .. k PROVE n \in V /\ s + 1 .. n \subseteq V
    BY DEF Run
  <2>1. s + 1 .. n \subseteq s + 1 .. k  OBVIOUS
  <2> QED  BY <1>6, <2>1
<1>8. Run(s, V) \subseteq s + 1 .. k
  <2> SUFFICES ASSUME NEW n \in V, s + 1 .. n \subseteq V PROVE n \in s + 1 .. k
    BY DEF Run
  <2>1. n \in Nat /\ s < n  BY <1>0
  <2>2. k + 1 \notin s + 1 .. n  BY <1>5
  <2>3. n <= k  BY <1>5, <2>1, <2>2
  <2> QED  BY <2>1, <2>3
<1>9. Run(s, V) = s + 1 .. k  BY <1>7, <1>8
<1>10. Cardinality(s + 1 .. k) = k - s
  <2>1. Cardinality(s + 1 .. k) = IF s + 1 > k THEN 0 ELSE k - (s + 1) + 1
    <3>1. s + 1 \in Int /\ k \in Int  OBVIOUS
    <3> QED  BY <3>1, FS_Interval
  <2>2. CASE s + 1 > k
    <3>1. k - s = 0  BY <1>5, <2>2
    <3> QED  BY <2>1, <2>2, <3>1
  <2>3. CASE ~(s + 1 > k)
    <3>1. k - (s + 1) + 1 = k - s  OBVIOUS
    <3> QED  BY <2>1, <2>3, <3>1
  <2> QED  BY <2>2, <2>3
<1> QED  BY <1>5, <1>9, <1>10

-----------------------------------------------------------------------------
(* The shapes.                                                             *)

LEMMA RecordsInit == Init => Records
<1> SUFFICES ASSUME Init PROVE Records  OBVIOUS
<1>1. fw \in [FileWorkers -> FwState]  BY DEF Init, FwState, FwPcs
<1>2. dw \in [DirWorkers -> DwState]  BY DEF Init, DwState
<1>3. main \in MainState  BY IterationAssumption DEF Init, MainState
<1> QED  BY <1>1, <1>2, <1>3, IterationAssumption DEF Init, Records

\* Announce sends the numbers up to k, and the next one is missing.
LEMMA AnnounceFacts ==
    ASSUME Records, NumberInv, Announce
    PROVE  \E k \in Nat :
              /\ main.files_sent <= k /\ k <= Len(named) /\ k + 1 \notin main.vec
              /\ main.files_sent + 1 .. k \subseteq main.vec
              /\ main' = [main EXCEPT !.files_sent = k,
                                      !.vec = @ \ (main.files_sent + 1 .. k),
                                      !.pc = IF \/ main.vec # {} /\ k = main.files_sent
                                                \/ ~main.do_break
                                             THEN "list" ELSE "done"]
              /\ main' \in MainState
<1> DEFINE run == Run(main.files_sent, main.vec)
<1>1. PICK st : Numbered(st)  BY DEF NumberInv
<1>2. /\ main.files_sent \in Nat /\ Len(named) \in Nat /\ main.vec \in SUBSET Nat
      /\ main \in MainState
  BY DEF Records, MainState
<1>3. \A n \in main.vec : main.files_sent < n /\ n <= Len(named)
  <2> SUFFICES ASSUME NEW n \in main.vec PROVE main.files_sent < n /\ n <= Len(named)
    OBVIOUS
  <2>1. st[n] = "vec" /\ n \in Nat  BY <1>1, <1>2 DEF Numbered
  <2>2. n \in 1 .. Len(named) /\ n \notin 1 .. main.files_sent  BY <1>1, <2>1 DEF Numbered
  <2> QED  BY <1>2, <2>1, <2>2
<1>4. main.files_sent <= Len(named)
  <2>1. CASE main.files_sent = 0  BY <1>2, <2>1
  <2>2. CASE main.files_sent # 0
    <3>1. main.files_sent \in 1 .. main.files_sent  BY <1>2, <2>2
    <3>2. st[main.files_sent] = "sent"  BY <1>1, <1>2, <3>1 DEF Numbered
    <3>3. main.files_sent \in 1 .. Len(named)  BY <1>1, <1>2, <3>2 DEF Numbered
    <3> QED  BY <1>2, <3>3
  <2> QED  BY <2>1, <2>2
<1>5. PICK k \in Nat : /\ main.files_sent <= k /\ k <= Len(named) /\ k + 1 \notin main.vec
                       /\ run = main.files_sent + 1 .. k
                       /\ Cardinality(run) = k - main.files_sent
  <2>1. PICK s \in Nat, l \in Nat, V \in SUBSET Nat :
           s = main.files_sent /\ l = Len(named) /\ V = main.vec
    BY <1>2
  <2>2. Between(s, V, l)  BY <1>3, <1>4, <2>1 DEF Between
  <2>3. \E k \in Nat : /\ s <= k /\ k <= l /\ k + 1 \notin V
                       /\ Run(s, V) = s + 1 .. k /\ Cardinality(Run(s, V)) = k - s
    BY <2>2, RunIsInterval
  <2> QED  BY <2>1, <2>3
<1>6. main.files_sent + 1 .. k \subseteq main.vec  BY <1>5 DEF Run
<1>7. main' = [main EXCEPT !.files_sent = @ + Cardinality(run), !.vec = @ \ run,
                           !.pc = IF (main.vec # {} /\ run = {}) \/ ~main.do_break
                                  THEN "list" ELSE "done"]
  BY DEF Announce, Run
<1> HIDE DEF run
<1>8. main.files_sent + Cardinality(run) = k  BY <1>2, <1>5
<1>9. run = {} <=> k = main.files_sent  BY <1>2, <1>5
<1>10. main' = [main EXCEPT !.files_sent = k, !.vec = @ \ (main.files_sent + 1 .. k),
                            !.pc = IF \/ main.vec # {} /\ k = main.files_sent
                                      \/ ~main.do_break
                                   THEN "list" ELSE "done"]
  BY <1>2, <1>5, <1>7, <1>8, <1>9 DEF MainState
<1>11. main' \in MainState  BY <1>2, <1>10 DEF MainState
<1> QED  BY <1>5, <1>6, <1>10, <1>11

LEMMA RecordsStep == ASSUME Records, HandInv, NumberInv, Next PROVE Records'
<1> USE DEF Records
<1>0. << >> \in Seq(Entries \cup Nat)  OBVIOUS
<1>1. ASSUME NEW w \in FileWorkers, RecvItem(w) PROVE Records'
  <2>1. /\ files # << >> /\ files' = Tail(files)
        /\ UNCHANGED <<counters, named, dirs, msgs, dw, main>>
        /\ fw' = [fw EXCEPT ![w].item = <<Head(files)>>,
                            ![w].pc = IF fw[w].exit_ready THEN "unready" ELSE "open"]
    BY <1>1 DEF RecvItem
  <2>2. Head(files) \in Entries /\ Tail(files) \in Seq(Entries) /\ Len(Tail(files)) = Len(files) - 1
    BY <2>1, TailItems
  <2>3. <<Head(files)>> \in Seq(Entries \cup Nat)  BY <2>2
  <2>4. fw' \in [FileWorkers -> FwState]  BY <2>1, <2>3 DEF FwState, FwPcs
  <2>5. Len(files') <= FilesCap  BY <2>1, <2>2, IterationAssumption
  <2> QED  BY <2>1, <2>2, <2>4, <2>5 DEF counters
<1>2. ASSUME NEW w \in FileWorkers, Unready(w) PROVE Records'
  BY <1>2 DEF Unready, FwState, FwPcs
<1>3. ASSUME NEW w \in FileWorkers, LoadTail(w) PROVE Records'
  BY <1>3 DEF LoadTail, FwState, FwPcs, counters
<1>4. ASSUME NEW w \in FileWorkers, Compare(w) PROVE Records'
  BY <1>4 DEF Compare, FwState, FwPcs, counters
<1>5. ASSUME NEW w \in FileWorkers, SetReady(w) PROVE Records'
  BY <1>5 DEF SetReady, FwState, FwPcs
<1>6. ASSUME NEW w \in FileWorkers, LoadMask(w) PROVE Records'
  BY <1>6 DEF LoadMask, FwState, FwPcs, counters
<1>7. ASSUME NEW w \in FileWorkers, OpenRegular(w) PROVE Records'
  <2>1. fw[w].item[1] \in Entries  BY <1>7 DEF OpenRegular, HandInv, HasEntry
  <2>2. named' \in Seq(Entries) /\ Len(named) + 1 \in Nat  BY <1>7, <2>1 DEF OpenRegular
  <2>3. <<Len(named) + 1>> \in Seq(Entries \cup Nat)  BY <2>2
  <2>4. fw' \in [FileWorkers -> FwState]  BY <1>7, <2>3 DEF OpenRegular, FwState, FwPcs
  <2> QED  BY <1>7, <2>2, <2>4 DEF OpenRegular, counters
<1>8. ASSUME NEW w \in FileWorkers, OpenDir(w) PROVE Records'
  <2>1. fw' \in [FileWorkers -> FwState]  BY <1>8 DEF OpenDir, FwState, FwPcs
  <2> QED  BY <1>8, <2>1 DEF OpenDir
<1>9. ASSUME NEW w \in FileWorkers, Ignore(w) PROVE Records'
  <2>1. fw' \in [FileWorkers -> FwState]  BY <1>0, <1>9 DEF Ignore, FwState, FwPcs
  <2> QED  BY <1>9, <2>1 DEF Ignore, counters
<1>10. ASSUME NEW w \in FileWorkers, OpenError(w) PROVE Records'
  BY <1>10 DEF OpenError, FwState, FwPcs, counters
<1>11. ASSUME NEW w \in FileWorkers, SendDir(w) PROVE Records'
  <2>1. fw[w].item[1] \in Entries  BY <1>11 DEF SendDir, HandInv, HasEntry
  <2>2. dirs' \in Seq(Entries)  BY <1>11, <2>1 DEF SendDir
  <2>3. fw' \in [FileWorkers -> FwState]  BY <1>0, <1>11 DEF SendDir, FwState, FwPcs
  <2> QED  BY <1>11, <2>2, <2>3 DEF SendDir, counters
<1>12. ASSUME NEW w \in FileWorkers, SendMsg(w) PROVE Records'
  <2>1. fw[w].item[1] \in Nat  BY <1>12 DEF SendMsg, HandInv, HasEntry
  <2>2. msgs' \in Seq(Nat) /\ Len(msgs') = Len(msgs) + 1 /\ Len(msgs) < MsgCap
    BY <1>12, <2>1 DEF SendMsg
  <2>3. fw' \in [FileWorkers -> FwState]  BY <1>0, <1>12 DEF SendMsg, FwState, FwPcs
  <2>4. Len(msgs') <= MsgCap  BY <2>2, IterationAssumption
  <2> QED  BY <1>12, <2>2, <2>3, <2>4 DEF SendMsg, counters
<1>13. ASSUME NEW d \in DirWorkers, RecvDir(d) PROVE Records'
  <2>1. CASE dirs # << >>
    <3>1. Head(dirs) \in Entries /\ Tail(dirs) \in Seq(Entries)  BY <2>1, TailItems
    <3>2. Children[Head(dirs)] \in SUBSET Entries  BY <3>1, IterationAssumption
    <3>3. dw' \in [DirWorkers -> DwState]  BY <1>13, <2>1, <3>2 DEF RecvDir, DwState
    <3> QED  BY <1>13, <2>1, <3>1, <3>3 DEF RecvDir, counters
  <2>2. CASE dirs = << >>
    <3>1. dw' \in [DirWorkers -> DwState]  BY <1>13, <2>2 DEF RecvDir, DwState
    <3> QED  BY <1>13, <2>2, <3>1 DEF RecvDir, counters
  <2> QED  BY <2>1, <2>2
<1>14. ASSUME NEW d \in DirWorkers, SendChild(d) PROVE Records'
  <2>1. PICK e \in dw[d].left : /\ files' = Append(files, e)
                                /\ dw' = [dw EXCEPT ![d].left = @ \ {e}]
    BY <1>14 DEF SendChild
  <2>2. e \in Entries  BY <2>1 DEF DwState
  <2>3. files' \in Seq(Entries) /\ Len(files') = Len(files) + 1  BY <2>1, <2>2
  <2>4. Len(files') <= FilesCap  BY <1>14, <2>3, IterationAssumption DEF SendChild
  <2>5. dw' \in [DirWorkers -> DwState]  BY <2>1 DEF DwState
  <2> QED  BY <1>14, <2>3, <2>4, <2>5 DEF SendChild, counters
<1>15. ASSUME NEW d \in DirWorkers, FinishDir(d) PROVE Records'
  BY <1>15 DEF FinishDir, DwState
<1>16. ASSUME SendSource PROVE Records'
  <2>1. /\ main.todo # << >> /\ main.todo \in Seq(Entries)
        /\ files' = Append(files, Head(main.todo)) /\ Len(files) < FilesCap
        /\ main' = [main EXCEPT !.todo = Tail(@)]
        /\ UNCHANGED <<counters, named, dirs, msgs, fw, dw>>
    BY <1>16 DEF SendSource, MainState
  <2>2. Head(main.todo) \in Entries /\ Tail(main.todo) \in Seq(Entries)  BY <2>1, TailItems
  <2>3. files' \in Seq(Entries) /\ Len(files') = Len(files) + 1  BY <2>1, <2>2
  <2>4. Len(files') <= FilesCap  BY <2>1, <2>3, IterationAssumption
  <2>5. main' \in MainState  BY <2>1, <2>2 DEF MainState
  <2> QED  BY <2>1, <2>3, <2>4, <2>5 DEF counters
<1>17. ASSUME SourcesDone PROVE Records'
  <2>1. main' \in MainState  BY <1>17 DEF SourcesDone, MainState
  <2> QED  BY <1>17, <2>1 DEF SourcesDone
<1>18. ASSUME SendListed PROVE Records'
  <2>1. UNCHANGED <<counters, named, dirs, msgs, fw, dw>> /\ main.file_list \in Seq(Entries)
    BY <1>18 DEF SendListed, MainState
  <2>2. CASE main.file_list # << >>
    <3>1. /\ files' = Append(files, main.file_list[Len(main.file_list)])
          /\ Len(files) < FilesCap
          /\ main' = [main EXCEPT !.file_list = SubSeq(@, 1, Len(@) - 1)]
      BY <1>18, <2>2 DEF SendListed
    <3>2. /\ main.file_list[Len(main.file_list)] \in Entries
          /\ SubSeq(main.file_list, 1, Len(main.file_list) - 1) \in Seq(Entries)
      BY <2>1, <2>2, FrontItems
    <3>3. files' \in Seq(Entries) /\ Len(files') = Len(files) + 1  BY <3>1, <3>2
    <3>4. Len(files') <= FilesCap  BY <3>1, <3>3, IterationAssumption
    <3>5. main' \in MainState  BY <3>1, <3>2 DEF MainState
    <3> QED  BY <2>1, <3>3, <3>4, <3>5 DEF counters
  <2>3. CASE main.file_list = << >>
    <3>1. files' = files /\ main' = [main EXCEPT !.pc = "recv"]
      BY <1>18, <2>3 DEF SendListed
    <3> QED  BY <2>1, <3>1 DEF counters, MainState
  <2> QED  BY <2>2, <2>3
<1>19. ASSUME MainRecv PROVE Records'
  <2>1. UNCHANGED <<counters, named, files, dirs, fw, dw>>  BY <1>19 DEF MainRecv
  <2>2. CASE msgs # << >>
    <3>1. PICK vec, full :
             /\ vec = main.vec \cup {Head(msgs)} /\ full \in BOOLEAN
             /\ main' = [main EXCEPT !.vec = vec,
                                     !.counter_max = IF full THEN LaterBatch ELSE @,
                                     !.pc = IF full THEN "announce" ELSE "recv"]
             /\ msgs' = Tail(msgs)
      BY <1>19, <2>2 DEF MainRecv
    <3>2. Head(msgs) \in Nat /\ Tail(msgs) \in Seq(Nat) /\ Len(Tail(msgs)) = Len(msgs) - 1
      BY <2>2, TailItems
    <3>3. vec \in SUBSET Nat  BY <3>1, <3>2 DEF MainState
    <3>4. main' \in MainState  BY <3>1, <3>3, IterationAssumption DEF MainState
    <3>5. Len(msgs') <= MsgCap  BY <3>1, <3>2, IterationAssumption
    <3> QED  BY <2>1, <3>1, <3>2, <3>4, <3>5 DEF counters
  <2>3. CASE msgs = << >>
    <3>1. UNCHANGED msgs /\ main' \in MainState  BY <1>19, <2>3 DEF MainRecv, MainState
    <3> QED  BY <2>1, <3>1 DEF counters
  <2> QED  BY <2>2, <2>3
<1>20. ASSUME Announce PROVE Records'
  <2>1. PICK k \in Nat : main' \in MainState  BY <1>20, AnnounceFacts
  <2> QED  BY <1>20, <2>1 DEF Announce, counters
<1>21. ASSUME Finished PROVE Records'
  BY <1>21 DEF Finished, vars, counters
<1> QED
  BY <1>1, <1>2, <1>3, <1>4, <1>5, <1>6, <1>7, <1>8, <1>9, <1>10, <1>11, <1>12, <1>13,
     <1>14, <1>15, <1>16, <1>17, <1>18, <1>19, <1>20, <1>21
  DEF Next, FileWorkerStep, DirWorkerStep, MainStep

-----------------------------------------------------------------------------
(* What is in the workers' hands.                                          *)

Others(w) == \A v \in FileWorkers : v # w => fw'[v] = fw[v]

\* What each step of a file worker does to its record.
LEMMA RecvItemFacts ==
    ASSUME Records, NEW w \in FileWorkers, RecvItem(w)
    PROVE  /\ fw[w].pc = "recv" /\ files # << >> /\ files' = Tail(files) /\ Others(w)
           /\ fw'[w].pc = (IF fw[w].exit_ready THEN "unready" ELSE "open")
           /\ Len(fw'[w].item) = 1 /\ fw'[w].item[1] = Head(files) /\ Head(files) \in Entries
           /\ fw'[w].exit_ready = fw[w].exit_ready /\ fw'[w].tail = fw[w].tail
           /\ UNCHANGED <<counters, named, dirs, msgs, dw, main>>
<1>1. Head(files) \in Entries  BY TailItems DEF Records, RecvItem
<1>2. fw'[w].item = <<Head(files)>>  BY DEF Records, FwState, RecvItem
<1>3. Len(fw'[w].item) = 1 /\ fw'[w].item[1] = Head(files)  BY <1>2
<1> QED  BY <1>1, <1>3 DEF Records, FwState, RecvItem, Others

LEMMA UnreadyFacts ==
    ASSUME Records, NEW w \in FileWorkers, Unready(w)
    PROVE  /\ fw[w].pc = "unready" /\ Others(w)
           /\ fw'[w].pc = "open" /\ fw'[w].item = fw[w].item
           /\ fw'[w].exit_ready = fw[w].exit_ready /\ fw'[w].tail = fw[w].tail
           /\ GLOBAL_FILEOPEN_MASK' = GLOBAL_FILEOPEN_MASK \ {w}
           /\ UNCHANGED <<GLOBAL_FILEOPEN_CLEANUP, GLOBAL_FILEOPEN_TAIL, named, files,
                          dirs, msgs, dw, main>>
BY DEF Records, FwState, Unready, Others

LEMMA LoadTailFacts ==
    ASSUME Records, NEW w \in FileWorkers, LoadTail(w)
    PROVE  /\ fw[w].pc = "recv" /\ files = << >> /\ Others(w)
           /\ fw'[w].pc = "compare" /\ fw'[w].item = fw[w].item
           /\ fw'[w].exit_ready = fw[w].exit_ready /\ fw'[w].tail = GLOBAL_FILEOPEN_TAIL
           /\ UNCHANGED <<counters, named, files, dirs, msgs, dw, main>>
BY DEF Records, FwState, LoadTail, Others

LEMMA CompareFacts ==
    ASSUME Records, NEW w \in FileWorkers, Compare(w)
    PROVE  /\ fw[w].pc = "compare" /\ Others(w)
           /\ fw'[w].pc = (IF fw[w].tail # GLOBAL_FILEOPEN_CLEANUP THEN "recv"
                           ELSE IF fw[w].exit_ready THEN "mask" ELSE "ready")
           /\ fw'[w].item = fw[w].item
           /\ fw'[w].exit_ready = fw[w].exit_ready /\ fw'[w].tail = fw[w].tail
           /\ UNCHANGED <<counters, named, files, dirs, msgs, dw, main>>
BY DEF Records, FwState, Compare, Others

LEMMA SetReadyFacts ==
    ASSUME Records, NEW w \in FileWorkers, SetReady(w)
    PROVE  /\ fw[w].pc = "ready" /\ Others(w)
           /\ fw'[w].pc = "mask" /\ fw'[w].item = fw[w].item
           /\ fw'[w].exit_ready /\ fw'[w].tail = fw[w].tail
           /\ GLOBAL_FILEOPEN_MASK' = GLOBAL_FILEOPEN_MASK \cup {w}
           /\ UNCHANGED <<GLOBAL_FILEOPEN_CLEANUP, GLOBAL_FILEOPEN_TAIL, named, files,
                          dirs, msgs, dw, main>>
BY DEF Records, FwState, SetReady, Others

LEMMA LoadMaskFacts ==
    ASSUME Records, NEW w \in FileWorkers, LoadMask(w)
    PROVE  /\ fw[w].pc = "mask" /\ Others(w)
           /\ fw'[w].pc = (IF GLOBAL_FILEOPEN_MASK = FileWorkers THEN "exited" ELSE "recv")
           /\ fw'[w].item = fw[w].item
           /\ fw'[w].exit_ready = fw[w].exit_ready /\ fw'[w].tail = fw[w].tail
           /\ UNCHANGED <<counters, named, files, dirs, msgs, dw, main>>
BY DEF Records, FwState, LoadMask, Others

LEMMA OpenRegularFacts ==
    ASSUME Records, NEW w \in FileWorkers, OpenRegular(w)
    PROVE  /\ fw[w].pc = "open" /\ Kind[fw[w].item[1]] = "file" /\ Others(w)
           /\ named' = Append(named, fw[w].item[1])
           /\ fw'[w].pc = "msg" /\ Len(fw'[w].item) = 1 /\ fw'[w].item[1] = Len(named) + 1
           /\ fw'[w].exit_ready = fw[w].exit_ready /\ fw'[w].tail = fw[w].tail
           /\ UNCHANGED <<counters, files, dirs, msgs, dw, main>>
<1>1. fw'[w].item = <<Len(named) + 1>>  BY DEF Records, FwState, OpenRegular
<1>2. Len(fw'[w].item) = 1 /\ fw'[w].item[1] = Len(named) + 1  BY <1>1
<1> QED  BY <1>2 DEF Records, FwState, OpenRegular, Others

LEMMA OpenDirFacts ==
    ASSUME Records, NEW w \in FileWorkers, OpenDir(w)
    PROVE  /\ fw[w].pc = "open" /\ Kind[fw[w].item[1]] = "dir" /\ Others(w)
           /\ GLOBAL_FILEOPEN_CLEANUP' = GLOBAL_FILEOPEN_CLEANUP + 1
           /\ fw'[w].pc = "senddir" /\ fw'[w].item = fw[w].item
           /\ fw'[w].exit_ready = fw[w].exit_ready /\ fw'[w].tail = fw[w].tail
           /\ UNCHANGED <<GLOBAL_FILEOPEN_TAIL, GLOBAL_FILEOPEN_MASK, named, files,
                          dirs, msgs, dw, main>>
<1>1. /\ fw[w].pc = "open" /\ Kind[fw[w].item[1]] = "dir" /\ fw' = [fw EXCEPT ![w].pc = "senddir"]
      /\ GLOBAL_FILEOPEN_CLEANUP' = GLOBAL_FILEOPEN_CLEANUP + 1
      /\ UNCHANGED <<GLOBAL_FILEOPEN_TAIL, GLOBAL_FILEOPEN_MASK, named, files,
                     dirs, msgs, dw, main>>
  BY DEF OpenDir
<1>2. /\ fw'[w].pc = "senddir" /\ fw'[w].item = fw[w].item /\ Others(w)
      /\ fw'[w].exit_ready = fw[w].exit_ready /\ fw'[w].tail = fw[w].tail
  BY <1>1 DEF Records, FwState, Others
<1> QED  BY <1>1, <1>2

LEMMA IgnoreFacts ==
    ASSUME Records, NEW w \in FileWorkers, Ignore(w)
    PROVE  /\ fw[w].pc = "open" /\ Kind[fw[w].item[1]] = "ignored" /\ Others(w)
           /\ fw'[w].pc = "recv" /\ fw'[w].item = << >>
           /\ fw'[w].exit_ready = fw[w].exit_ready /\ fw'[w].tail = fw[w].tail
           /\ UNCHANGED <<counters, named, files, dirs, msgs, dw, main>>
BY DEF Records, FwState, Ignore, Others

LEMMA OpenErrorFacts ==
    ASSUME Records, NEW w \in FileWorkers, OpenError(w)
    PROVE  /\ fw[w].pc = "open" /\ Others(w)
           /\ fw'[w].pc = "exited" /\ fw'[w].item = fw[w].item
           /\ fw'[w].exit_ready = fw[w].exit_ready /\ fw'[w].tail = fw[w].tail
           /\ UNCHANGED <<counters, named, files, dirs, msgs, dw, main>>
BY DEF Records, FwState, OpenError, Others

LEMMA SendDirFacts ==
    ASSUME Records, NEW w \in FileWorkers, SendDir(w)
    PROVE  /\ fw[w].pc = "senddir" /\ Others(w)
           /\ dirs' = Append(dirs, fw[w].item[1])
           /\ fw'[w].pc = "recv" /\ fw'[w].item = << >>
           /\ fw'[w].exit_ready = fw[w].exit_ready /\ fw'[w].tail = fw[w].tail
           /\ UNCHANGED <<counters, named, files, msgs, dw, main>>
BY DEF Records, FwState, SendDir, Others

LEMMA SendMsgFacts ==
    ASSUME Records, NEW w \in FileWorkers, SendMsg(w)
    PROVE  /\ fw[w].pc = "msg" /\ Others(w)
           /\ msgs' = Append(msgs, fw[w].item[1])
           /\ fw'[w].pc = "recv" /\ fw'[w].item = << >>
           /\ fw'[w].exit_ready = fw[w].exit_ready /\ fw'[w].tail = fw[w].tail
           /\ UNCHANGED <<counters, named, files, dirs, dw, main>>
BY DEF Records, FwState, SendMsg, Others

LEMMA HandStep == ASSUME Records, HandInv, Next PROVE HandInv'
<1> USE DEF HandInv, HasEntry, Others
<1>1. ASSUME NEW w \in FileWorkers, RecvItem(w) PROVE HandInv'
  BY <1>1, RecvItemFacts
<1>2. ASSUME NEW w \in FileWorkers, Unready(w) PROVE HandInv'
  BY <1>2, UnreadyFacts
<1>3. ASSUME NEW w \in FileWorkers, LoadTail(w) PROVE HandInv'
  BY <1>3, LoadTailFacts
<1>4. ASSUME NEW w \in FileWorkers, Compare(w) PROVE HandInv'
  BY <1>4, CompareFacts
<1>5. ASSUME NEW w \in FileWorkers, SetReady(w) PROVE HandInv'
  BY <1>5, SetReadyFacts
<1>6. ASSUME NEW w \in FileWorkers, LoadMask(w) PROVE HandInv'
  BY <1>6, LoadMaskFacts
<1>7. ASSUME NEW w \in FileWorkers, OpenRegular(w) PROVE HandInv'
  <2>1. Len(named) + 1 \in Nat  BY DEF Records
  <2> QED  BY <1>7, <2>1, OpenRegularFacts
<1>8. ASSUME NEW w \in FileWorkers, OpenDir(w) PROVE HandInv'
  BY <1>8, OpenDirFacts
<1>9. ASSUME NEW w \in FileWorkers, Ignore(w) PROVE HandInv'
  BY <1>9, IgnoreFacts
<1>10. ASSUME NEW w \in FileWorkers, OpenError(w) PROVE HandInv'
  BY <1>10, OpenErrorFacts
<1>11. ASSUME NEW w \in FileWorkers, SendDir(w) PROVE HandInv'
  BY <1>11, SendDirFacts
<1>12. ASSUME NEW w \in FileWorkers, SendMsg(w) PROVE HandInv'
  BY <1>12, SendMsgFacts
<1>13. ASSUME fw' = fw PROVE HandInv'
  BY <1>13
<1> QED
  BY <1>1, <1>2, <1>3, <1>4, <1>5, <1>6, <1>7, <1>8, <1>9, <1>10, <1>11, <1>12, <1>13
  DEF Next, FileWorkerStep, DirWorkerStep, MainStep, RecvDir, SendChild, FinishDir,
      SendSource, SourcesDone, SendListed, MainRecv, Announce, Finished, vars

-----------------------------------------------------------------------------
(* The counters.                                                           *)

LEMMA Finiteness ==
    /\ IsFiniteSet(Reading) /\ Cardinality(Reading) \in Nat
    /\ IsFiniteSet(Passing) /\ Cardinality(Passing) \in Nat
<1>1. Reading \subseteq DirWorkers /\ Passing \subseteq FileWorkers  BY DEF Reading, Passing
<1>2. IsFiniteSet(Reading) /\ IsFiniteSet(Passing)  BY <1>1, FS_Subset, IterationAssumption
<1> QED  BY <1>2, FS_CardinalityType

\* The equation of CountInv, its parts named.
LEMMA Balance ==
    ASSUME Records, CountInv
    PROVE  \E c, t, s, l, r, p \in Nat :
              /\ c = GLOBAL_FILEOPEN_CLEANUP /\ t = GLOBAL_FILEOPEN_TAIL /\ s = SourcesLeft
              /\ l = Len(dirs) /\ r = Cardinality(Reading) /\ p = Cardinality(Passing)
              /\ c = t + s + l + r + p
<1>1. GLOBAL_FILEOPEN_CLEANUP \in Nat /\ GLOBAL_FILEOPEN_TAIL \in Nat /\ Len(dirs) \in Nat
  BY DEF Records
<1>2. SourcesLeft \in Nat  BY DEF SourcesLeft
<1> QED  BY <1>1, <1>2, Finiteness DEF CountInv

LeftInv == \A d \in DirWorkers : dw[d].pc # "read" => dw[d].left = {}
Equation == GLOBAL_FILEOPEN_CLEANUP = GLOBAL_FILEOPEN_TAIL + SourcesLeft + Len(dirs)
                                        + Cardinality(Reading) + Cardinality(Passing)

LEMMA EquationKept ==
    ASSUME CountInv, dirs' = dirs, SourcesLeft' = SourcesLeft, Reading' = Reading,
           Passing' = Passing, GLOBAL_FILEOPEN_CLEANUP' = GLOBAL_FILEOPEN_CLEANUP,
           GLOBAL_FILEOPEN_TAIL' = GLOBAL_FILEOPEN_TAIL
    PROVE  Equation'
BY DEF CountInv, Equation

LEMMA LeftStep == ASSUME Records, LeftInv, Next PROVE LeftInv'
<1>1. dw \in [DirWorkers -> DwState]  BY DEF Records
<1>2. CASE dw' = dw  BY <1>2 DEF LeftInv
<1>3. ASSUME NEW c \in DirWorkers, RecvDir(c) PROVE LeftInv'
  BY <1>1, <1>3 DEF LeftInv, RecvDir, DwState
<1>4. ASSUME NEW c \in DirWorkers, SendChild(c) PROVE LeftInv'
  BY <1>1, <1>4 DEF LeftInv, SendChild, DwState
<1>5. ASSUME NEW c \in DirWorkers, FinishDir(c) PROVE LeftInv'
  BY <1>1, <1>5 DEF LeftInv, FinishDir, DwState
<1> QED
  BY <1>2, <1>3, <1>4, <1>5
  DEF Next, FileWorkerStep, DirWorkerStep, MainStep,
      SendSource, SourcesDone, SendListed, MainRecv, Announce, Finished, vars,
      RecvItem, Unready, LoadTail, Compare, SetReady, LoadMask, OpenRegular, OpenDir, Ignore,
      OpenError, SendDir, SendMsg

LEMMA TodoStep ==
    ASSUME Records, main.pc # "sources" => main.todo = << >>, Next
    PROVE  main'.pc # "sources" => main'.todo = << >>
<1>1. main \in MainState  BY DEF Records
<1>2. CASE main' = main  BY <1>2
<1>3. CASE SendSource  BY <1>1, <1>3 DEF SendSource, MainState
<1>4. CASE SourcesDone  BY <1>1, <1>4 DEF SourcesDone, MainState
<1>5. CASE SendListed  BY <1>1, <1>5 DEF SendListed, MainState
<1>6. CASE MainRecv  BY <1>1, <1>6 DEF MainRecv, MainState
<1>7. CASE Announce  BY <1>1, <1>7 DEF Announce, MainState
<1> QED
  BY <1>2, <1>3, <1>4, <1>5, <1>6, <1>7
  DEF Next, FileWorkerStep, DirWorkerStep, MainStep, RecvDir, SendChild, FinishDir, Finished,
      vars, RecvItem, Unready, LoadTail, Compare, SetReady, LoadMask, OpenRegular, OpenDir,
      Ignore, OpenError, SendDir, SendMsg

LEMMA CountStep == ASSUME Records, HandInv, CountInv, Next PROVE CountInv'
<1> SUFFICES Equation'
  BY LeftStep, TodoStep DEF CountInv, LeftInv, Equation
<1>1. PICK c, t, s, l, r, p \in Nat :
         /\ c = GLOBAL_FILEOPEN_CLEANUP /\ t = GLOBAL_FILEOPEN_TAIL /\ s = SourcesLeft
         /\ l = Len(dirs) /\ r = Cardinality(Reading) /\ p = Cardinality(Passing)
         /\ c = t + s + l + r + p
  BY Balance
<1>2. main \in MainState /\ dw \in [DirWorkers -> DwState]  BY DEF Records
<1>3. ASSUME NEW w \in FileWorkers, FileWorkerStep(w), ~OpenDir(w), ~SendDir(w)
      PROVE  Equation'
  <2>1. /\ UNCHANGED <<dirs, dw, main>>
        /\ UNCHANGED <<GLOBAL_FILEOPEN_CLEANUP, GLOBAL_FILEOPEN_TAIL>>
    BY <1>3
    DEF FileWorkerStep, RecvItem, Unready, LoadTail, Compare, SetReady, LoadMask, OpenRegular,
        Ignore, OpenError, SendMsg, counters
  <2>2. fw[w].pc # "senddir" /\ fw'[w].pc # "senddir" /\ Others(w)
    <3>1. CASE RecvItem(w)  BY <3>1, RecvItemFacts
    <3>2. CASE Unready(w)  BY <3>2, UnreadyFacts
    <3>3. CASE LoadTail(w)  BY <3>3, LoadTailFacts
    <3>4. CASE Compare(w)  BY <3>4, CompareFacts
    <3>5. CASE SetReady(w)  BY <3>5, SetReadyFacts
    <3>6. CASE LoadMask(w)  BY <3>6, LoadMaskFacts
    <3>7. CASE OpenRegular(w)  BY <3>7, OpenRegularFacts
    <3>8. CASE Ignore(w)  BY <3>8, IgnoreFacts
    <3>9. CASE OpenError(w)  BY <3>9, OpenErrorFacts
    <3>10. CASE SendMsg(w)  BY <3>10, SendMsgFacts
    <3> QED
      BY <1>3, <3>1, <3>2, <3>3, <3>4, <3>5, <3>6, <3>7, <3>8, <3>9, <3>10
      DEF FileWorkerStep
  <2>3. Passing' = Passing  BY <2>2 DEF Passing, Others
  <2> QED  BY <2>1, <2>3, EquationKept DEF Reading, SourcesLeft
<1>4. ASSUME NEW w \in FileWorkers, OpenDir(w) PROVE Equation'
  <2>1. Passing' = Passing \cup {w} /\ w \notin Passing
    BY <1>4, OpenDirFacts DEF Passing, Others
  <2>2. Cardinality(Passing') = p + 1  BY <1>1, <2>1, Finiteness, FS_AddElement
  <2>3. /\ GLOBAL_FILEOPEN_CLEANUP' = c + 1 /\ GLOBAL_FILEOPEN_TAIL' = t
        /\ SourcesLeft' = s /\ Len(dirs') = l /\ Cardinality(Reading') = r
    BY <1>1, <1>4, OpenDirFacts DEF SourcesLeft, Reading
  <2>4. c + 1 = t + s + l + r + (p + 1)  BY <1>1
  <2> QED  BY <2>2, <2>3, <2>4 DEF Equation
<1>5. ASSUME NEW w \in FileWorkers, SendDir(w) PROVE Equation'
  <2>1. Passing' = Passing \ {w} /\ w \in Passing
    BY <1>5, SendDirFacts DEF Passing, Others
  <2>2. Cardinality(Passing') = p - 1  BY <1>1, <2>1, Finiteness, FS_RemoveElement
  <2>3. Len(dirs') = l + 1
    <3>1. fw[w].item[1] \in Entries  BY <1>5, SendDirFacts DEF HandInv, HasEntry
    <3> QED  BY <1>1, <1>5, <3>1, SendDirFacts, AppendItems DEF Records
  <2>4. /\ GLOBAL_FILEOPEN_CLEANUP' = c /\ GLOBAL_FILEOPEN_TAIL' = t
        /\ SourcesLeft' = s /\ Cardinality(Reading') = r
    BY <1>1, <1>5, SendDirFacts DEF SourcesLeft, Reading, counters
  <2>5. c = t + s + (l + 1) + r + (p - 1)  BY <1>1
  <2> QED  BY <2>2, <2>3, <2>4, <2>5 DEF Equation
<1>6. ASSUME NEW d \in DirWorkers, RecvDir(d) PROVE Equation'
  <2>1. /\ GLOBAL_FILEOPEN_CLEANUP' = c /\ GLOBAL_FILEOPEN_TAIL' = t
        /\ SourcesLeft' = s /\ Passing' = Passing /\ dw[d].pc = "recv"
    BY <1>1, <1>6 DEF RecvDir, SourcesLeft, Passing, counters
  <2>2. CASE dirs = << >>
    <3>1. dirs' = dirs /\ Reading' = Reading  BY <1>2, <1>6, <2>2 DEF RecvDir, Reading, DwState
    <3> QED  BY <1>1, <2>1, <3>1, EquationKept
  <2>3. CASE dirs # << >>
    <3>1. /\ dirs' = Tail(dirs)
          /\ dw' = [dw EXCEPT ![d] = [pc |-> "read", left |-> Children[Head(dirs)]]]
      BY <1>6, <2>3 DEF RecvDir
    <3>2. Reading' = Reading \cup {d} /\ d \notin Reading
      BY <1>2, <2>1, <3>1 DEF Reading, DwState
    <3>3. Cardinality(Reading') = r + 1  BY <1>1, <3>2, Finiteness, FS_AddElement
    <3>4. Len(dirs') = l - 1  BY <1>1, <2>3, <3>1, TailItems DEF Records
    <3>5. Cardinality(Passing') = p  BY <1>1, <2>1
    <3>6. c = t + s + (l - 1) + (r + 1) + p  BY <1>1
    <3> QED  BY <2>1, <3>3, <3>4, <3>5, <3>6 DEF Equation
  <2> QED  BY <2>2, <2>3
<1>7. ASSUME NEW d \in DirWorkers, SendChild(d) PROVE Equation'
  <2>1. /\ UNCHANGED <<dirs, fw, main>>
        /\ UNCHANGED <<GLOBAL_FILEOPEN_CLEANUP, GLOBAL_FILEOPEN_TAIL>>
    BY <1>7 DEF SendChild, counters
  <2>2. \E e : dw' = [dw EXCEPT ![d].left = @ \ {e}]  BY <1>7 DEF SendChild
  <2>3. Reading' = Reading  BY <1>2, <2>2 DEF Reading, DwState
  <2> QED  BY <2>1, <2>3, EquationKept DEF Passing, SourcesLeft
<1>8. ASSUME NEW d \in DirWorkers, FinishDir(d) PROVE Equation'
  <2>1. /\ dw[d].pc = "read" /\ dw' = [dw EXCEPT ![d].pc = "recv"]
        /\ GLOBAL_FILEOPEN_TAIL' = t + 1 /\ GLOBAL_FILEOPEN_CLEANUP' = c
        /\ UNCHANGED <<dirs, fw, main>>
    BY <1>1, <1>8 DEF FinishDir
  <2>2. Reading' = Reading \ {d} /\ d \in Reading  BY <1>2, <2>1 DEF Reading, DwState
  <2>3. Cardinality(Reading') = r - 1  BY <1>1, <2>2, Finiteness, FS_RemoveElement
  <2>4. SourcesLeft' = s /\ Len(dirs') = l /\ Cardinality(Passing') = p
    BY <1>1, <2>1 DEF SourcesLeft, Passing
  <2>5. c = (t + 1) + s + l + (r - 1) + p  BY <1>1
  <2> QED  BY <2>1, <2>3, <2>4, <2>5 DEF Equation
<1>9. ASSUME SourcesDone PROVE Equation'
  <2>1. /\ SourcesLeft = 1 /\ SourcesLeft' = 0
        /\ GLOBAL_FILEOPEN_TAIL' = t + 1 /\ GLOBAL_FILEOPEN_CLEANUP' = c
        /\ UNCHANGED <<dirs, fw, dw>>
    BY <1>1, <1>2, <1>9 DEF SourcesDone, SourcesLeft, MainState
  <2>2. Len(dirs') = l /\ Cardinality(Passing') = p /\ Cardinality(Reading') = r
    BY <1>1, <2>1 DEF Reading, Passing
  <2>3. c = (t + 1) + 0 + l + r + p  BY <1>1, <2>1
  <2> QED  BY <2>1, <2>2, <2>3 DEF Equation
<1>10. ASSUME SourcesLeft' = SourcesLeft, UNCHANGED <<counters, dirs, fw, dw>>
       PROVE  Equation'
  BY <1>10, EquationKept DEF Reading, Passing, counters
<1>11. CASE SendSource  BY <1>2, <1>10, <1>11 DEF SendSource, SourcesLeft, MainState
<1>12. CASE SendListed  BY <1>2, <1>10, <1>12 DEF SendListed, SourcesLeft, MainState
<1>13. CASE MainRecv  BY <1>2, <1>10, <1>13 DEF MainRecv, SourcesLeft, MainState
<1>14. CASE Announce  BY <1>2, <1>10, <1>14 DEF Announce, SourcesLeft, MainState
<1>15. CASE Finished  BY <1>10, <1>15 DEF Finished, vars, SourcesLeft, counters
<1> QED
  BY <1>3, <1>4, <1>5, <1>6, <1>7, <1>8, <1>9, <1>11, <1>12, <1>13, <1>14, <1>15
  DEF Next, DirWorkerStep, MainStep

\* TailMeansQuiet follows: with equal counters every part of the sum is zero.
LEMMA QuietFromCount ==
    ASSUME Records, CountInv
    PROVE  /\ GLOBAL_FILEOPEN_TAIL <= GLOBAL_FILEOPEN_CLEANUP
           /\ TailMeansQuiet
           /\ GLOBAL_FILEOPEN_TAIL = GLOBAL_FILEOPEN_CLEANUP =>
                 main.pc # "sources" /\ \A d \in DirWorkers : dw[d].left = {}
<1>1. PICK c, t, s, l, r, p \in Nat :
         /\ c = GLOBAL_FILEOPEN_CLEANUP /\ t = GLOBAL_FILEOPEN_TAIL /\ s = SourcesLeft
         /\ l = Len(dirs) /\ r = Cardinality(Reading) /\ p = Cardinality(Passing)
         /\ c = t + s + l + r + p
  BY Balance
<1>2. t <= c  BY <1>1
<1>3. ASSUME t = c
      PROVE  /\ dirs = << >> /\ main.pc # "sources" /\ Reading = {} /\ Passing = {}
  <2>1. c = t + s + l + r + p  BY <1>1
  <2>2. s = 0 /\ l = 0 /\ r = 0 /\ p = 0  BY <1>3, <2>1
  <2>3. dirs \in Seq(Entries) /\ Len(dirs) = 0  BY <1>1, <2>2 DEF Records
  <2>4. dirs = << >>  BY <2>3
  <2>5. main.pc # "sources"  BY <1>1, <2>2 DEF SourcesLeft
  <2>6. Reading = {} /\ Passing = {}  BY <1>1, <2>2, Finiteness, FS_EmptySet
  <2> QED  BY <2>4, <2>5, <2>6
<1>4. \A d \in DirWorkers : dw[d].pc # "read" => dw[d].left = {}  BY DEF CountInv
<1>5. main.pc # "sources" => main.todo = << >>  BY DEF CountInv
<1> QED  BY <1>1, <1>2, <1>3, <1>4, <1>5 DEF TailMeansQuiet, Reading, Passing

-----------------------------------------------------------------------------
(* The mask.                                                               *)

LEMMA MaskStep == ASSUME Records, HandInv, MaskInv, Next PROVE MaskInv'
<1> USE DEF MaskInv, Others
<1>a. GLOBAL_FILEOPEN_TAIL \in Nat  BY DEF Records
<1>1. ASSUME NEW w \in FileWorkers, RecvItem(w) PROVE MaskInv'
  <2>1. fw'[w].pc # "exited" /\ fw'[w].pc # "compare"  BY <1>1, RecvItemFacts
  <2>2. w \in GLOBAL_FILEOPEN_MASK => fw'[w].pc = "unready" /\ fw'[w].exit_ready
    BY <1>1, RecvItemFacts
  <2> QED  BY <1>1, <2>1, <2>2, RecvItemFacts DEF counters
<1>2. ASSUME NEW w \in FileWorkers, Unready(w) PROVE MaskInv'
  BY <1>2, UnreadyFacts
<1>3. ASSUME NEW w \in FileWorkers, LoadTail(w) PROVE MaskInv'
  BY <1>a, <1>3, LoadTailFacts DEF counters
<1>4. ASSUME NEW w \in FileWorkers, Compare(w) PROVE MaskInv'
  BY <1>4, CompareFacts DEF counters
<1>5. ASSUME NEW w \in FileWorkers, SetReady(w) PROVE MaskInv'
  BY <1>5, SetReadyFacts
<1>6. ASSUME NEW w \in FileWorkers, LoadMask(w) PROVE MaskInv'
  BY <1>6, LoadMaskFacts DEF counters
<1>7. ASSUME NEW w \in FileWorkers, OpenRegular(w) PROVE MaskInv'
  BY <1>7, OpenRegularFacts DEF counters
<1>8. ASSUME NEW w \in FileWorkers, OpenDir(w) PROVE MaskInv'
  BY <1>8, OpenDirFacts
<1>9. ASSUME NEW w \in FileWorkers, Ignore(w) PROVE MaskInv'
  BY <1>9, IgnoreFacts DEF counters
<1>10. ASSUME NEW w \in FileWorkers, OpenError(w) PROVE MaskInv'
  <2>1. fw[w].item # << >>  BY <1>10, OpenErrorFacts DEF HandInv, HasEntry
  <2> QED  BY <1>10, <2>1, OpenErrorFacts DEF counters
<1>11. ASSUME NEW w \in FileWorkers, SendDir(w) PROVE MaskInv'
  BY <1>11, SendDirFacts DEF counters
<1>12. ASSUME NEW w \in FileWorkers, SendMsg(w) PROVE MaskInv'
  BY <1>12, SendMsgFacts DEF counters
<1>13. ASSUME fw' = fw, GLOBAL_FILEOPEN_MASK' = GLOBAL_FILEOPEN_MASK,
              \/ GLOBAL_FILEOPEN_TAIL' = GLOBAL_FILEOPEN_TAIL
              \/ GLOBAL_FILEOPEN_TAIL' = GLOBAL_FILEOPEN_TAIL + 1
       PROVE  MaskInv'
  <2>1. \A v \in FileWorkers : fw[v].tail \in Nat  BY DEF Records, FwState
  <2>2. \A n \in Nat : n <= GLOBAL_FILEOPEN_TAIL => n <= GLOBAL_FILEOPEN_TAIL'
    BY <1>a, <1>13
  <2> QED  BY <1>13, <2>1, <2>2
<1> QED
  BY <1>1, <1>2, <1>3, <1>4, <1>5, <1>6, <1>7, <1>8, <1>9, <1>10, <1>11, <1>12, <1>13
  DEF Next, FileWorkerStep, DirWorkerStep, MainStep, RecvDir, SendChild, FinishDir,
      SendSource, SourcesDone, SendListed, MainRecv, Announce, Finished, vars, counters

\* What is in file_list comes from the file list.
LEMMA ListStep ==
    ASSUME Records, Items(main.file_list) \subseteq Listed, Next
    PROVE  Items(main'.file_list) \subseteq Listed
<1>1. main \in MainState  BY DEF Records
<1>2. CASE main'.file_list = main.file_list  BY <1>2
<1>3. CASE SendListed
  <2>1. CASE main.file_list = << >>  BY <1>1, <1>2, <1>3, <2>1 DEF SendListed, MainState
  <2>2. CASE main.file_list # << >>
    <3>1. main'.file_list = SubSeq(main.file_list, 1, Len(main.file_list) - 1)
      BY <1>1, <1>3, <2>2 DEF SendListed, MainState
    <3>2. main.file_list \in Seq(Entries)  BY <1>1 DEF MainState
    <3>3. Items(main'.file_list) \subseteq Items(main.file_list)
      BY <2>2, <3>1, <3>2, FrontItems
    <3> QED  BY <3>3
  <2> QED  BY <2>1, <2>2
<1>4. CASE SendSource  BY <1>1, <1>2, <1>4 DEF SendSource, MainState
<1>5. CASE SourcesDone  BY <1>1, <1>2, <1>5 DEF SourcesDone, MainState
<1>6. CASE MainRecv  BY <1>1, <1>2, <1>6 DEF MainRecv, MainState
<1>7. CASE Announce  BY <1>1, <1>2, <1>7 DEF Announce, MainState
<1> QED
  BY <1>2, <1>3, <1>4, <1>5, <1>6, <1>7
  DEF Next, FileWorkerStep, DirWorkerStep, MainStep, RecvDir, SendChild, FinishDir, Finished,
      vars, RecvItem, Unready, LoadTail, Compare, SetReady, LoadMask, OpenRegular, OpenDir,
      Ignore, OpenError, SendDir, SendMsg

\* Only LoadTail lets a worker begin to retire.
LEMMA RetiringBefore ==
    ASSUME Records, MaskInv, NEW w \in FileWorkers, FileWorkerStep(w), ~LoadTail(w),
           AllRetiring'
    PROVE  /\ AllRetiring /\ UNCHANGED <<GLOBAL_FILEOPEN_CLEANUP, GLOBAL_FILEOPEN_TAIL>>
           /\ files' = files \/ (files # << >> /\ files' = Tail(files))
<1> USE DEF AllRetiring, Retiring, Others
<1>1. CASE RecvItem(w)  BY <1>1, RecvItemFacts DEF counters
<1>2. CASE Unready(w)  BY <1>2, UnreadyFacts
<1>3. CASE Compare(w)  BY <1>3, CompareFacts DEF counters
<1>4. CASE SetReady(w)
  <2>1. \A v \in FileWorkers : v # w => Retiring(v)  BY <1>4, SetReadyFacts
  <2> QED  BY <1>4, <2>1, SetReadyFacts
<1>5. CASE LoadMask(w)  BY <1>5, LoadMaskFacts DEF counters
<1>6. CASE OpenRegular(w)  BY <1>6, OpenRegularFacts DEF counters
<1>7. CASE OpenDir(w)  BY <1>7, OpenDirFacts DEF MaskInv
<1>8. CASE Ignore(w)  BY <1>8, IgnoreFacts DEF counters
<1>9. CASE OpenError(w)  BY <1>9, OpenErrorFacts DEF counters
<1>10. CASE SendDir(w)  BY <1>10, SendDirFacts DEF counters
<1>11. CASE SendMsg(w)  BY <1>11, SendMsgFacts DEF counters
<1> QED
  BY <1>1, <1>2, <1>3, <1>4, <1>5, <1>6, <1>7, <1>8, <1>9, <1>10, <1>11 DEF FileWorkerStep

LEMMA RetireStep ==
    ASSUME Records, CountInv, MaskInv, RetireInv, Next
    PROVE  RetireInv'
<1>1. Items(main'.file_list) \subseteq Listed  BY ListStep DEF RetireInv
<1>2. SUFFICES ASSUME AllRetiring'
               PROVE  Settled'
  BY <1>1 DEF RetireInv
<1>3. AllRetiring => /\ GLOBAL_FILEOPEN_TAIL = GLOBAL_FILEOPEN_CLEANUP
                     /\ Items(files) \subseteq Listed
  BY DEF RetireInv, Settled
<1>4. GLOBAL_FILEOPEN_TAIL = GLOBAL_FILEOPEN_CLEANUP =>
         /\ main.pc # "sources"
         /\ \A d \in DirWorkers : dw[d].left = {} /\ dw[d].pc # "read"
  BY QuietFromCount DEF TailMeansQuiet
<1> USE DEF Settled
<1>5. ASSUME NEW w \in FileWorkers, FileWorkerStep(w), ~LoadTail(w) PROVE Settled'
  <2>1. /\ AllRetiring /\ UNCHANGED <<GLOBAL_FILEOPEN_CLEANUP, GLOBAL_FILEOPEN_TAIL>>
        /\ files' = files \/ (files # << >> /\ files' = Tail(files))
    BY <1>2, <1>5, RetiringBefore
  <2>2. Items(files') \subseteq Items(files)  BY <2>1, TailItems DEF Records
  <2> QED  BY <1>3, <2>1, <2>2
<1>6. ASSUME NEW w \in FileWorkers, LoadTail(w) PROVE Settled'
  <2>1. Items(files') = {}  BY <1>6, NoItems, LoadTailFacts
  <2>2. UNCHANGED counters /\ Others(w)  BY <1>6, LoadTailFacts
  <2>3. CASE w \in GLOBAL_FILEOPEN_MASK
    <3>1. AllRetiring
      BY <1>2, <2>2, <2>3 DEF AllRetiring, Retiring, Others, counters
    <3> QED  BY <1>3, <2>1, <2>2, <3>1 DEF counters
  <2>4. CASE w \notin GLOBAL_FILEOPEN_MASK
    <3>1. fw'[w].tail = GLOBAL_FILEOPEN_CLEANUP'
      BY <1>2, <1>6, <2>2, <2>4, LoadTailFacts DEF AllRetiring, Retiring, counters
    <3> QED  BY <1>6, <2>1, <2>2, <3>1, LoadTailFacts DEF counters
  <2> QED  BY <2>3, <2>4
<1>7. ASSUME fw' = fw, GLOBAL_FILEOPEN_MASK' = GLOBAL_FILEOPEN_MASK,
             GLOBAL_FILEOPEN_CLEANUP' = GLOBAL_FILEOPEN_CLEANUP
      PROVE  /\ GLOBAL_FILEOPEN_TAIL = GLOBAL_FILEOPEN_CLEANUP
             /\ Items(files) \subseteq Listed /\ main.pc # "sources"
             /\ \A d \in DirWorkers : dw[d].left = {} /\ dw[d].pc # "read"
  <2>1. AllRetiring  BY <1>2, <1>7 DEF AllRetiring, Retiring
  <2> QED  BY <1>3, <1>4, <2>1
<1>8. ASSUME NEW d \in DirWorkers, RecvDir(d) PROVE Settled'
  BY <1>7, <1>8 DEF RecvDir, counters
<1>9. ASSUME NEW d \in DirWorkers, SendChild(d) PROVE Settled'
  BY <1>7, <1>9 DEF SendChild, counters
<1>10. ASSUME NEW d \in DirWorkers, FinishDir(d) PROVE Settled'
  BY <1>7, <1>10 DEF FinishDir
<1>11. ASSUME SendSource PROVE Settled'
  BY <1>7, <1>11 DEF SendSource, counters
<1>12. ASSUME SourcesDone PROVE Settled'
  BY <1>7, <1>12 DEF SourcesDone
<1>13. ASSUME SendListed PROVE Settled'
  <2>1. UNCHANGED <<counters, fw>>  BY <1>13 DEF SendListed
  <2>2. GLOBAL_FILEOPEN_TAIL = GLOBAL_FILEOPEN_CLEANUP /\ Items(files) \subseteq Listed
    BY <1>7, <2>1 DEF counters
  <2>3. CASE main.file_list = << >>  BY <1>13, <2>1, <2>2, <2>3 DEF SendListed, counters
  <2>4. CASE main.file_list # << >>
    <3>1. files' = Append(files, main.file_list[Len(main.file_list)])
      BY <1>13, <2>4 DEF SendListed
    <3>2. main.file_list \in Seq(Entries)  BY DEF Records, MainState
    <3>3. /\ main.file_list[Len(main.file_list)] \in Entries
          /\ main.file_list[Len(main.file_list)] \in Listed
      BY <2>4, <3>2, FrontItems DEF RetireInv
    <3>4. Items(files') \subseteq Listed  BY <2>2, <3>1, <3>3, AppendItems DEF Records
    <3> QED  BY <2>1, <2>2, <3>4 DEF counters
  <2> QED  BY <2>3, <2>4
<1>14. ASSUME MainRecv \/ Announce \/ Finished PROVE Settled'
  BY <1>7, <1>14 DEF MainRecv, Announce, Finished, vars, counters
<1> QED
  BY <1>5, <1>6, <1>8, <1>9, <1>10, <1>11, <1>12, <1>13, <1>14
  DEF Next, DirWorkerStep, MainStep

-----------------------------------------------------------------------------
(* The end.                                                                *)

LEMMA EndStep ==
    ASSUME Records, HandInv, NumberInv, EndInv, Next
    PROVE  EndInv'
<1>1. main \in MainState  BY DEF Records
<1>2. ASSUME NEW w \in FileWorkers, FileWorkerStep(w) PROVE EndInv'
  <2>1. main' = main /\ fw[w].pc # "exited"
    BY <1>2
    DEF FileWorkerStep, RecvItem, Unready, LoadTail, Compare, SetReady, LoadMask, OpenRegular,
        OpenDir, Ignore, OpenError, SendDir, SendMsg
  <2>2. ~main.do_break  BY <2>1 DEF EndInv, AllExited
  <2> QED  BY <2>1, <2>2 DEF EndInv
<1>3. ASSUME UNCHANGED <<main, fw, msgs, named>> PROVE EndInv'
  BY <1>3 DEF EndInv, AllExited
<1>4. ASSUME main.pc \in {"sources", "list"}, main'.pc # "done", main'.do_break = main.do_break
      PROVE  EndInv'
  BY <1>4 DEF EndInv
<1>5. CASE SendSource  BY <1>1, <1>4, <1>5 DEF SendSource, MainState
<1>6. CASE SourcesDone  BY <1>1, <1>4, <1>6 DEF SourcesDone, MainState
<1>7. CASE SendListed  BY <1>1, <1>4, <1>7 DEF SendListed, MainState
<1>8. CASE MainRecv
  <2>1. main.pc = "recv" /\ ~main.do_break /\ fw' = fw  BY <1>8 DEF MainRecv, EndInv
  <2>2. CASE msgs # << >>
    <3>1. main'.do_break = main.do_break /\ main'.pc # "done"
      BY <1>1, <1>8, <2>1, <2>2 DEF MainRecv, MainState
    <3> QED  BY <2>1, <3>1 DEF EndInv
  <2>3. CASE msgs = << >>
    <3>1. main'.pc = "announce" /\ msgs' = msgs /\ (AllExited \/ main'.do_break = main.do_break)
      BY <1>1, <1>8, <2>1, <2>3 DEF MainRecv, MainState
    <3> QED  BY <2>1, <2>3, <3>1 DEF EndInv, AllExited
  <2> QED  BY <2>2, <2>3
<1>9. CASE Announce
  <2>1. PICK k \in Nat :
              /\ main.files_sent <= k /\ k <= Len(named) /\ k + 1 \notin main.vec
              /\ main.files_sent + 1 .. k \subseteq main.vec
              /\ main' = [main EXCEPT !.files_sent = k,
                                      !.vec = @ \ (main.files_sent + 1 .. k),
                                      !.pc = IF \/ main.vec # {} /\ k = main.files_sent
                                                \/ ~main.do_break
                                             THEN "list" ELSE "done"]
    BY <1>9, AnnounceFacts
  <2>2. /\ main'.files_sent = k /\ main'.vec = main.vec \ (main.files_sent + 1 .. k)
        /\ main'.do_break = main.do_break
        /\ main'.pc = (IF \/ main.vec # {} /\ k = main.files_sent
                          \/ ~main.do_break
                       THEN "list" ELSE "done")
    BY <1>1, <2>1 DEF MainState
  <2>3. fw' = fw /\ msgs' = msgs /\ named' = named  BY <1>9 DEF Announce
  <2>4. CASE ~main.do_break  BY <2>2, <2>4 DEF EndInv
  <2>5. CASE main.do_break
    <3>1. AllExited /\ msgs = << >>  BY <2>5 DEF EndInv
    <3>2. PICK st : Numbered(st)  BY DEF NumberInv
    <3>3. /\ main.files_sent \in Nat /\ Len(named) \in Nat /\ main.vec \in SUBSET Nat
      BY <1>1 DEF Records, MainState
    <3>4. \A n \in 1 .. Len(named) : n \in main.vec \/ n \in 1 .. main.files_sent
      <4> SUFFICES ASSUME NEW n \in 1 .. Len(named)
                   PROVE  n \in main.vec \/ n \in 1 .. main.files_sent
        OBVIOUS
      <4>1. n \in Nat /\ st[n] # "none"  BY <3>2, <3>3 DEF Numbered
      <4>2. n \notin NumberHands  BY <3>1 DEF NumberHands, AllExited
      <4>3. n \notin Items(msgs)  BY <3>1, NoItems
      <4>4. st[n] \in {"none", "hand", "msgs", "vec", "sent"}  BY <3>2, <4>1 DEF Numbered
      <4>5. st[n] = "vec" \/ st[n] = "sent"  BY <3>2, <4>1, <4>2, <4>3, <4>4 DEF Numbered
      <4> QED  BY <3>2, <4>1, <4>5 DEF Numbered
    <3>5. k = Len(named)
      <4>1. k + 1 \notin 1 .. main.files_sent /\ k + 1 \notin main.vec  BY <2>1, <3>3
      <4>2. k + 1 \notin 1 .. Len(named)  BY <3>4, <4>1
      <4> QED  BY <2>1, <3>3, <4>2
    <3>6. \A n \in main.vec : n \in main.files_sent + 1 .. Len(named)
      <4> SUFFICES ASSUME NEW n \in main.vec PROVE n \in main.files_sent + 1 .. Len(named)
        OBVIOUS
      <4>1. n \in Nat /\ st[n] = "vec"  BY <3>2, <3>3 DEF Numbered
      <4>2. n \in 1 .. Len(named) /\ n \notin 1 .. main.files_sent
        BY <3>2, <4>1 DEF Numbered
      <4> QED  BY <3>3, <4>1, <4>2
    <3>7. main'.vec = {}  BY <2>2, <3>5, <3>6
    <3>8. ~(main.vec # {} /\ k = main.files_sent)  BY <3>3, <3>5, <3>6
    <3>9. main'.pc = "done"  BY <2>2, <2>5, <3>8
    <3>10. AllExited' /\ msgs' = << >>  BY <2>3, <3>1 DEF AllExited
    <3>11. main'.files_sent = Len(named')  BY <2>2, <2>3, <3>5
    <3> QED  BY <2>2, <2>5, <3>7, <3>9, <3>10, <3>11 DEF EndInv
  <2> QED  BY <2>4, <2>5
<1> QED
  BY <1>2, <1>3, <1>5, <1>6, <1>7, <1>8, <1>9
  DEF Next, DirWorkerStep, MainStep, RecvDir, SendChild, FinishDir, Finished, vars

-----------------------------------------------------------------------------
(* The numbers.                                                            *)

\* Nothing that Numbered looks at changes.
LEMMA NumberKept ==
    ASSUME NumberInv, named' = named, msgs' = msgs, main'.vec = main.vec,
           main'.files_sent = main.files_sent,
           \A w \in FileWorkers : /\ fw'[w].pc = "msg" <=> fw[w].pc = "msg"
                                  /\ fw[w].pc = "msg" => fw'[w].item = fw[w].item
    PROVE  NumberInv'
<1>1. PICK st : Numbered(st)  BY DEF NumberInv
<1>2. NumberHands' = NumberHands  BY DEF NumberHands
<1>3. Numbered(st)'  BY <1>1, <1>2 DEF Numbered
<1> QED  BY <1>3 DEF NumberInv

LEMMA NumberStep == ASSUME Records, HandInv, NumberInv, Next PROVE NumberInv'
<1>1. main \in MainState  BY DEF Records
<1>2. PICK st : Numbered(st)  BY DEF NumberInv
<1>3. /\ st \in [Nat -> {"none", "hand", "msgs", "vec", "sent"}]
      /\ \A n \in Nat :
          /\ st[n] # "none" <=> n \in 1 .. Len(named)
          /\ st[n] = "hand" <=> n \in NumberHands
          /\ st[n] = "msgs" <=> n \in Items(msgs)
          /\ st[n] = "vec"  <=> n \in main.vec
          /\ st[n] = "sent" <=> n \in 1 .. main.files_sent
      /\ Distinct(msgs)
      /\ \A v, w \in FileWorkers :
          fw[v].pc = "msg" /\ fw[w].pc = "msg" /\ fw[v].item[1] = fw[w].item[1] => v = w
  BY <1>2 DEF Numbered
<1>4. ASSUME NEW w \in FileWorkers, FileWorkerStep(w), ~OpenRegular(w), ~SendMsg(w)
      PROVE  NumberInv'
  <2>1. UNCHANGED <<named, msgs, main>>
    BY <1>4
    DEF FileWorkerStep, RecvItem, Unready, LoadTail, Compare, SetReady, LoadMask,
        OpenDir, Ignore, OpenError, SendDir
  <2>2. fw[w].pc # "msg" /\ fw'[w].pc # "msg" /\ Others(w)
    <3>1. CASE RecvItem(w)  BY <3>1, RecvItemFacts
    <3>2. CASE Unready(w)  BY <3>2, UnreadyFacts
    <3>3. CASE LoadTail(w)  BY <3>3, LoadTailFacts
    <3>4. CASE Compare(w)  BY <3>4, CompareFacts
    <3>5. CASE SetReady(w)  BY <3>5, SetReadyFacts
    <3>6. CASE LoadMask(w)  BY <3>6, LoadMaskFacts
    <3>7. CASE OpenDir(w)  BY <3>7, OpenDirFacts
    <3>8. CASE Ignore(w)  BY <3>8, IgnoreFacts
    <3>9. CASE OpenError(w)  BY <3>9, OpenErrorFacts
    <3>10. CASE SendDir(w)  BY <3>10, SendDirFacts
    <3> QED
      BY <1>4, <3>1, <3>2, <3>3, <3>4, <3>5, <3>6, <3>7, <3>8, <3>9, <3>10
      DEF FileWorkerStep
  <2> QED  BY <2>1, <2>2, NumberKept DEF Others
<1>5. ASSUME NEW w \in FileWorkers, OpenRegular(w) PROVE NumberInv'
  <2>1. PICK m \in Nat : m = Len(named) + 1  BY DEF Records
  <2>2. fw[w].item[1] \in Entries  BY <1>5, OpenRegularFacts DEF HandInv, HasEntry
  <2>3. Len(named') = m /\ 1 .. m = 1 .. Len(named) \cup {m} /\ m \notin 1 .. Len(named)
    <3>1. Len(named') = Len(named) + 1 /\ Len(named) \in Nat
      BY <1>5, <2>2, OpenRegularFacts, AppendItems DEF Records
    <3>2. Len(named') = m  BY <2>1, <3>1
    <3>3. 1 .. m = 1 .. Len(named) \cup {m} /\ m \notin 1 .. Len(named)  BY <2>1, <3>1
    <3> QED  BY <3>2, <3>3
  <2>4. /\ fw[w].pc = "open" /\ fw'[w].pc = "msg" /\ fw'[w].item[1] = m
        /\ \A v \in FileWorkers : v # w => fw'[v] = fw[v]
        /\ msgs' = msgs /\ main' = main
    BY <1>5, <2>1, OpenRegularFacts DEF Others
  <2>5. NumberHands' = NumberHands \cup {m}
    <3>1. ASSUME NEW n \in NumberHands' PROVE n \in NumberHands \cup {m}
      <4>1. PICK v \in FileWorkers : fw'[v].pc = "msg" /\ n = fw'[v].item[1]
        BY <3>1 DEF NumberHands
      <4> QED  BY <2>4, <4>1 DEF NumberHands
    <3>2. NumberHands \subseteq NumberHands'  BY <2>4 DEF NumberHands
    <3>3. m \in NumberHands'  BY <2>4 DEF NumberHands
    <3> QED  BY <3>1, <3>2, <3>3
  <2>6. m \notin NumberHands /\ st[m] = "none"  BY <1>3, <2>1, <2>3
  <2>7. PICK st2 : st2 = [st EXCEPT ![m] = "hand"]  OBVIOUS
  <2>8. st2 \in [Nat -> {"none", "hand", "msgs", "vec", "sent"}]  BY <1>3, <2>7
  <2>9. st2[m] = "hand" /\ \A n \in Nat : n # m => st2[n] = st[n]  BY <1>3, <2>7
  <2>10. \A n \in Nat :
          /\ st2[n] # "none" <=> n \in 1 .. Len(named')
          /\ st2[n] = "hand" <=> n \in NumberHands'
          /\ st2[n] = "msgs" <=> n \in Items(msgs')
          /\ st2[n] = "vec"  <=> n \in main'.vec
          /\ st2[n] = "sent" <=> n \in 1 .. main'.files_sent
    BY <1>3, <2>3, <2>4, <2>5, <2>6, <2>9
  <2>11. \A u, v \in FileWorkers :
          fw'[u].pc = "msg" /\ fw'[v].pc = "msg" /\ fw'[u].item[1] = fw'[v].item[1] => u = v
    <3>1. \A v \in FileWorkers : v # w /\ fw'[v].pc = "msg" => fw'[v].item[1] # m
      BY <2>4, <2>6 DEF NumberHands
    <3> QED  BY <1>3, <2>4, <3>1
  <2>12. Numbered(st2)'  BY <1>3, <2>4, <2>8, <2>10, <2>11 DEF Numbered
  <2> QED  BY <2>12 DEF NumberInv
<1>6. ASSUME NEW w \in FileWorkers, SendMsg(w) PROVE NumberInv'
  <2>1. PICK m \in Nat : m = fw[w].item[1]  BY <1>6, SendMsgFacts DEF HandInv
  <2>2. /\ fw[w].pc = "msg" /\ fw'[w].pc = "recv" /\ msgs' = Append(msgs, m)
        /\ \A v \in FileWorkers : v # w => fw'[v] = fw[v]
        /\ named' = named /\ main' = main
    BY <1>6, <2>1, SendMsgFacts DEF Others
  <2>3. NumberHands' = NumberHands \ {m} /\ m \in NumberHands
    <3>1. m \in NumberHands  BY <2>1, <2>2 DEF NumberHands
    <3>2. ASSUME NEW n \in NumberHands' PROVE n \in NumberHands /\ n # m
      <4>1. PICK v \in FileWorkers : fw'[v].pc = "msg" /\ n = fw'[v].item[1]
        BY <3>2 DEF NumberHands
      <4>2. v # w /\ fw[v].pc = "msg" /\ n = fw[v].item[1]  BY <2>2, <4>1
      <4>3. n # m  BY <1>3, <2>1, <2>2, <4>2
      <4> QED  BY <4>2, <4>3 DEF NumberHands
    <3>3. ASSUME NEW n \in NumberHands, n # m PROVE n \in NumberHands'
      <4>1. PICK v \in FileWorkers : fw[v].pc = "msg" /\ n = fw[v].item[1]
        BY <3>3 DEF NumberHands
      <4>2. v # w  BY <2>1, <3>3, <4>1
      <4>3. fw'[v].pc = "msg" /\ n = fw'[v].item[1]  BY <2>2, <4>1, <4>2
      <4> QED  BY <4>3 DEF NumberHands
    <3> QED  BY <3>1, <3>2, <3>3
  <2>4. st[m] = "hand"  BY <1>3, <2>3
  <2>5. Items(msgs') = Items(msgs) \cup {m} /\ Distinct(msgs')
    <3>1. m \notin Items(msgs)  BY <1>3, <2>4
    <3> QED  BY <1>3, <2>2, <3>1, AppendItems DEF Records
  <2>6. PICK st2 : st2 = [st EXCEPT ![m] = "msgs"]  OBVIOUS
  <2>7. st2 \in [Nat -> {"none", "hand", "msgs", "vec", "sent"}]  BY <1>3, <2>6
  <2>8. st2[m] = "msgs" /\ \A n \in Nat : n # m => st2[n] = st[n]  BY <1>3, <2>6
  <2>9. \A n \in Nat :
          /\ st2[n] # "none" <=> n \in 1 .. Len(named')
          /\ st2[n] = "hand" <=> n \in NumberHands'
          /\ st2[n] = "msgs" <=> n \in Items(msgs')
          /\ st2[n] = "vec"  <=> n \in main'.vec
          /\ st2[n] = "sent" <=> n \in 1 .. main'.files_sent
    BY <1>3, <2>2, <2>3, <2>4, <2>5, <2>8
  <2>10. \A u, v \in FileWorkers :
          fw'[u].pc = "msg" /\ fw'[v].pc = "msg" /\ fw'[u].item[1] = fw'[v].item[1] => u = v
    BY <1>3, <2>2
  <2>11. Numbered(st2)'  BY <2>5, <2>7, <2>9, <2>10 DEF Numbered
  <2> QED  BY <2>11 DEF NumberInv
<1>7. CASE MainRecv
  <2>1. UNCHANGED <<named, fw>> /\ main'.files_sent = main.files_sent
    BY <1>1, <1>7 DEF MainRecv, MainState
  <2>2. CASE msgs = << >>
    <3>1. msgs' = msgs /\ main'.vec = main.vec  BY <1>1, <1>7, <2>2 DEF MainRecv, MainState
    <3> QED  BY <2>1, <3>1, NumberKept
  <2>3. CASE msgs # << >>
    <3>1. main'.vec = main.vec \cup {Head(msgs)} /\ msgs' = Tail(msgs)
      BY <1>1, <1>7, <2>3 DEF MainRecv, MainState
    <3>2. PICK m \in Nat : m = Head(msgs)  BY <2>3, TailItems DEF Records
    <3>3. /\ Items(msgs) = Items(msgs') \cup {m} /\ m \notin Items(msgs') /\ Distinct(msgs')
      BY <1>3, <2>3, <3>1, <3>2, TailItems DEF Records
    <3>4. st[m] = "msgs"  BY <1>3, <3>3
    <3>5. PICK st2 : st2 = [st EXCEPT ![m] = "vec"]  OBVIOUS
    <3>6. st2 \in [Nat -> {"none", "hand", "msgs", "vec", "sent"}]  BY <1>3, <3>5
    <3>7. st2[m] = "vec" /\ \A n \in Nat : n # m => st2[n] = st[n]  BY <1>3, <3>5
    <3>8. NumberHands' = NumberHands  BY <2>1 DEF NumberHands
    <3>9. \A n \in Nat :
            /\ st2[n] # "none" <=> n \in 1 .. Len(named')
            /\ st2[n] = "hand" <=> n \in NumberHands'
            /\ st2[n] = "msgs" <=> n \in Items(msgs')
            /\ st2[n] = "vec"  <=> n \in main'.vec
            /\ st2[n] = "sent" <=> n \in 1 .. main'.files_sent
      BY <1>3, <2>1, <3>1, <3>2, <3>3, <3>4, <3>7, <3>8
    <3>10. Numbered(st2)'  BY <1>3, <2>1, <3>3, <3>6, <3>9 DEF Numbered
    <3> QED  BY <3>10 DEF NumberInv
  <2> QED  BY <2>2, <2>3
<1>8. CASE Announce
  <2>1. PICK k \in Nat :
              /\ main.files_sent <= k /\ k <= Len(named) /\ k + 1 \notin main.vec
              /\ main.files_sent + 1 .. k \subseteq main.vec
              /\ main' = [main EXCEPT !.files_sent = k,
                                      !.vec = @ \ (main.files_sent + 1 .. k),
                                      !.pc = IF \/ main.vec # {} /\ k = main.files_sent
                                                \/ ~main.do_break
                                             THEN "list" ELSE "done"]
    BY <1>8, AnnounceFacts
  <2>2. PICK s \in Nat : s = main.files_sent  BY <1>1 DEF MainState
  <2>3. main'.files_sent = k /\ main'.vec = main.vec \ (s + 1 .. k)
    BY <1>1, <2>1, <2>2 DEF MainState
  <2>4. fw' = fw /\ msgs' = msgs /\ named' = named  BY <1>8 DEF Announce
  <2>5. s <= k /\ s + 1 .. k \subseteq main.vec  BY <2>1, <2>2
  <2>6. \A n \in Nat : n \in 1 .. k <=> n \in 1 .. s \/ n \in s + 1 .. k  BY <2>5
  <2>7. PICK st2 : st2 = [n \in Nat |-> IF n \in s + 1 .. k THEN "sent" ELSE st[n]]  OBVIOUS
  <2>8. st2 \in [Nat -> {"none", "hand", "msgs", "vec", "sent"}]  BY <1>3, <2>7
  <2>9. NumberHands' = NumberHands  BY <2>4 DEF NumberHands
  <2>10. ASSUME NEW n \in Nat
         PROVE  /\ st2[n] # "none" <=> n \in 1 .. Len(named')
                /\ st2[n] = "hand" <=> n \in NumberHands'
                /\ st2[n] = "msgs" <=> n \in Items(msgs')
                /\ st2[n] = "vec"  <=> n \in main'.vec
                /\ st2[n] = "sent" <=> n \in 1 .. main'.files_sent
    <3>1. st[n] = "sent" <=> n \in 1 .. s  BY <1>3, <2>2
    <3>2. CASE n \in s + 1 .. k
      <4>1. st2[n] = "sent" /\ n \in main.vec /\ n \in 1 .. k  BY <2>5, <2>6, <2>7, <3>2
      <4>2. st[n] = "vec"  BY <1>3, <4>1
      <4> QED  BY <1>3, <2>3, <2>4, <2>9, <3>2, <4>1, <4>2
    <3>3. CASE n \notin s + 1 .. k
      <4>1. st2[n] = st[n] /\ (n \in 1 .. k <=> n \in 1 .. s)  BY <2>6, <2>7, <3>3
      <4> QED  BY <1>3, <2>3, <2>4, <2>9, <3>1, <3>3, <4>1
    <3> QED  BY <3>2, <3>3
  <2>11. Numbered(st2)'  BY <1>3, <2>4, <2>8, <2>10 DEF Numbered
  <2> QED  BY <2>11 DEF NumberInv
<1>9. ASSUME UNCHANGED <<named, msgs, fw>>, main'.vec = main.vec,
             main'.files_sent = main.files_sent
      PROVE  NumberInv'
  BY <1>9, NumberKept
<1>10. CASE SendSource  BY <1>1, <1>9, <1>10 DEF SendSource, MainState
<1>11. CASE SourcesDone  BY <1>1, <1>9, <1>11 DEF SourcesDone, MainState
<1>12. CASE SendListed  BY <1>1, <1>9, <1>12 DEF SendListed, MainState
<1> QED
  BY <1>4, <1>5, <1>6, <1>7, <1>8, <1>9, <1>10, <1>11, <1>12
  DEF Next, DirWorkerStep, MainStep, RecvDir, SendChild, FinishDir, Finished, vars

-----------------------------------------------------------------------------
(* The invariant, and what follows from it for any tree.                   *)

LEMMA InitInv == Init => IInv
<1> SUFFICES ASSUME Init PROVE IInv  OBVIOUS
<1>1. Records  BY RecordsInit
<1>2. /\ \A w \in FileWorkers : /\ fw[w].pc = "recv" /\ ~fw[w].exit_ready
                                /\ fw[w].item = << >>
      /\ \A d \in DirWorkers : dw[d].pc = "recv" /\ dw[d].left = {}
      /\ main.pc = "sources" /\ main.todo = Sources /\ main.file_list = FileList
      /\ main.vec = {} /\ main.files_sent = 0 /\ ~main.do_break
  BY DEF Init
<1>3. HandInv  BY <1>2 DEF HandInv, HasEntry
<1>4. CountInv
  <2>1. Reading = {} /\ Passing = {}  BY <1>2 DEF Reading, Passing
  <2>2. Cardinality(Reading) = 0 /\ Cardinality(Passing) = 0  BY <2>1, FS_EmptySet
  <2>3. SourcesLeft = 1 /\ Len(dirs) = 0  BY <1>2 DEF SourcesLeft, Init
  <2>4. GLOBAL_FILEOPEN_CLEANUP = 1 /\ GLOBAL_FILEOPEN_TAIL = 0  BY DEF Init
  <2> QED  BY <1>2, <2>2, <2>3, <2>4 DEF CountInv
<1>5. GLOBAL_FILEOPEN_MASK = {} /\ MaskInv  BY <1>2 DEF MaskInv, Init
<1>6. RetireInv
  <2>1. PICK w \in FileWorkers : TRUE  BY IterationAssumption
  <2>2. ~Retiring(w)  BY <1>2, <1>5 DEF Retiring
  <2> QED  BY <1>2, <2>2 DEF RetireInv, AllRetiring, Listed
<1>7. NumberInv
  <2>1. PICK st : st = [n \in Nat |-> "none"]  OBVIOUS
  <2>2. NumberHands = {}  BY <1>2 DEF NumberHands
  <2>3. Items(msgs) = {} /\ Distinct(msgs) /\ Len(named) = 0  BY NoItems DEF Init
  <2>4. Numbered(st)  BY <1>2, <2>1, <2>2, <2>3 DEF Numbered
  <2> QED  BY <2>4 DEF NumberInv
<1>8. EndInv  BY <1>2 DEF EndInv
<1> QED  BY <1>1, <1>3, <1>4, <1>5, <1>6, <1>7, <1>8 DEF IInv

LEMMA NextInv == IInv /\ [Next]_vars => IInv'
<1> SUFFICES ASSUME IInv, [Next]_vars PROVE IInv'  OBVIOUS
<1>1. CASE Next
  BY <1>1, RecordsStep, HandStep, CountStep, MaskStep, RetireStep, NumberStep, EndStep DEF IInv
<1>2. CASE UNCHANGED vars
  <2>1. /\ UNCHANGED <<counters, named, files, dirs, msgs, fw, dw, main>>
        /\ UNCHANGED <<GLOBAL_FILEOPEN_CLEANUP, GLOBAL_FILEOPEN_TAIL, GLOBAL_FILEOPEN_MASK>>
    BY <1>2 DEF vars, counters
  <2>2. Records' /\ HandInv'  BY <2>1 DEF IInv, Records, HandInv, HasEntry
  <2>3. CountInv'  BY <2>1 DEF IInv, CountInv, Reading, Passing, SourcesLeft
  <2>4. MaskInv' /\ RetireInv'
    BY <2>1 DEF IInv, MaskInv, RetireInv, AllRetiring, Retiring, Settled
  <2>5. NumberInv'  BY <2>1, NumberKept DEF IInv
  <2>6. EndInv'  BY <2>1 DEF IInv, EndInv, AllExited
  <2> QED  BY <2>2, <2>3, <2>4, <2>5, <2>6 DEF IInv
<1> QED  BY <1>1, <1>2

THEOREM Invariance == Spec => []IInv
BY InitInv, NextInv, PTL DEF Spec

LEMMA TypeFromInv == IInv => TypeOK
<1> SUFFICES ASSUME IInv PROVE TypeOK  OBVIOUS
<1>1. PICK st : Numbered(st)  BY DEF IInv, NumberInv
<1>2. Records  BY DEF IInv
<1>3. main.files_sent \in Nat /\ main.vec \in SUBSET Nat /\ Len(named) \in Nat /\ msgs \in Seq(Nat)
  BY <1>2 DEF Records, MainState
<1>4. main.vec \subseteq 1 .. Len(named) /\ Items(msgs) \subseteq 1 .. Len(named)
  <2>1. \A n \in Nat : n \in main.vec \/ n \in Items(msgs) => n \in 1 .. Len(named)
    BY <1>1 DEF Numbered
  <2>2. Items(msgs) \subseteq Nat  BY <1>3 DEF Items
  <2> QED  BY <1>3, <2>1, <2>2
<1>5. msgs \in Seq(1 .. Len(named))
  <2>1. \A i \in 1 .. Len(msgs) : msgs[i] \in 1 .. Len(named)  BY <1>4 DEF Items
  <2> QED  BY <1>3, <2>1
<1>6. main.files_sent \in 0 .. Len(named)
  <2>1. CASE main.files_sent = 0  BY <1>3, <2>1
  <2>2. CASE main.files_sent # 0
    <3>1. main.files_sent \in 1 .. main.files_sent  BY <1>3, <2>2
    <3>2. main.files_sent \in 1 .. Len(named)  BY <1>1, <1>3, <3>1 DEF Numbered
    <3> QED  BY <3>2
  <2> QED  BY <2>1, <2>2
<1>7. /\ \A w \in FileWorkers : fw[w] \in FwState
      /\ \A d \in DirWorkers : dw[d] \in DwState
      /\ main \in MainState
  BY <1>2 DEF Records
<1> QED  BY <1>2, <1>4, <1>5, <1>6, <1>7 DEF TypeOK, Records, FwState, FwPcs, DwState, MainState

\* The type invariant: the channels keep within their capacities, and every
\* number in the channel to the main thread or in vec has been given out.
THEOREM TypeCorrect == Spec => []TypeOK
BY Invariance, TypeFromInv, PTL

\* Equal counters mean that no directory is waiting or being read (the exit
\* condition of iterate_file_worker), whatever the order in which directories
\* are found, passed on and read.
THEOREM TailMeansQuietHolds == Spec => []TailMeansQuiet
<1>1. IInv => TailMeansQuiet  BY QuietFromCount DEF IInv
<1> QED  BY <1>1, Invariance, PTL

\* When iterate_files returns every number given out has been announced, also
\* if workers have left on errors: the loop never breaks with numbers in vec,
\* in the channel or in the hands of a worker.
AllAnnounced == main.pc = "done" => main.files_sent = Len(named) /\ main.vec = {}
THEOREM AllAnnouncedHolds == Spec => []AllAnnounced
<1>1. IInv => AllAnnounced  BY DEF IInv, EndInv, AllAnnounced
<1> QED  BY <1>1, Invariance, PTL

-----------------------------------------------------------------------------
(* Where the path names are.                                               *)

\* Hands when a worker takes a path name, gives it away or keeps it.
LEMMA HandTaken ==
    ASSUME NEW w \in FileWorkers, Others(w), ~Carries(w), Carries(w)'
    PROVE  /\ Hands' = Hands \cup {fw'[w].item[1]}
           /\ HandsUnique /\ fw'[w].item[1] \notin Hands => HandsUnique'
<1> DEFINE e == fw'[w].item[1]
<1>1. \A v \in FileWorkers : v # w => (Carries(v)' <=> Carries(v)) /\ fw'[v].item = fw[v].item
  BY DEF Others, Carries, HasEntry
<1>2. ASSUME NEW x \in Hands' PROVE x \in Hands \cup {e}
  <2>1. PICK v \in FileWorkers : Carries(v)' /\ x = fw'[v].item[1]  BY <1>2 DEF Hands
  <2> QED  BY <1>1, <2>1 DEF Hands
<1>3. ASSUME NEW x \in Hands PROVE x \in Hands'
  <2>1. PICK v \in FileWorkers : Carries(v) /\ x = fw[v].item[1]  BY <1>3 DEF Hands
  <2>2. v # w  BY <2>1
  <2>3. Carries(v)' /\ x = fw'[v].item[1]  BY <1>1, <2>1, <2>2
  <2> QED  BY <2>3 DEF Hands
<1>4. e \in Hands'  BY DEF Hands
<1>5. ASSUME HandsUnique, e \notin Hands PROVE HandsUnique'
  <2>1. \A v \in FileWorkers : v # w /\ Carries(v)' => fw'[v].item[1] # e
    BY <1>1, <1>5 DEF Hands
  <2> QED  BY <1>1, <1>5, <2>1 DEF HandsUnique
<1> QED  BY <1>2, <1>3, <1>4, <1>5

LEMMA HandGiven ==
    ASSUME NEW w \in FileWorkers, Others(w), Carries(w), ~Carries(w)', HandsUnique
    PROVE  /\ Hands' = Hands \ {fw[w].item[1]} /\ fw[w].item[1] \in Hands
           /\ HandsUnique'
<1> DEFINE e == fw[w].item[1]
<1>1. \A v \in FileWorkers : v # w => (Carries(v)' <=> Carries(v)) /\ fw'[v].item = fw[v].item
  BY DEF Others, Carries, HasEntry
<1>2. e \in Hands  BY DEF Hands
<1>3. ASSUME NEW x \in Hands' PROVE x \in Hands /\ x # e
  <2>1. PICK v \in FileWorkers : Carries(v)' /\ x = fw'[v].item[1]  BY <1>3 DEF Hands
  <2>2. v # w /\ Carries(v) /\ x = fw[v].item[1]  BY <1>1, <2>1
  <2>3. x # e  BY <2>2 DEF HandsUnique
  <2> QED  BY <2>2, <2>3 DEF Hands
<1>4. ASSUME NEW x \in Hands, x # e PROVE x \in Hands'
  <2>1. PICK v \in FileWorkers : Carries(v) /\ x = fw[v].item[1]  BY <1>4 DEF Hands
  <2>2. v # w  BY <1>4, <2>1
  <2>3. Carries(v)' /\ x = fw'[v].item[1]  BY <1>1, <2>1, <2>2
  <2> QED  BY <2>3 DEF Hands
<1>5. HandsUnique'  BY <1>1 DEF HandsUnique
<1> QED  BY <1>2, <1>3, <1>4, <1>5

LEMMA HandKept ==
    ASSUME \A w \in FileWorkers : /\ Carries(w)' <=> Carries(w)
                                  /\ Carries(w) => fw'[w].item = fw[w].item
    PROVE  Hands' = Hands /\ (HandsUnique => HandsUnique')
<1>1. ASSUME NEW x \in Hands' PROVE x \in Hands
  <2>1. PICK v \in FileWorkers : Carries(v)' /\ x = fw'[v].item[1]  BY <1>1 DEF Hands
  <2> QED  BY <2>1 DEF Hands
<1>2. ASSUME NEW x \in Hands PROVE x \in Hands'
  <2>1. PICK v \in FileWorkers : Carries(v) /\ x = fw[v].item[1]  BY <1>2 DEF Hands
  <2>2. Carries(v)' /\ x = fw'[v].item[1]  BY <2>1
  <2> QED  BY <2>2 DEF Hands
<1>3. HandsUnique => HandsUnique'  BY DEF HandsUnique
<1> QED  BY <1>1, <1>2, <1>3

LEMMA SameHands == ASSUME fw' = fw PROVE Hands' = Hands /\ (HandsUnique => HandsUnique')
BY DEF Hands, HandsUnique, Carries, HasEntry

LEMMA SameLefts == ASSUME dw' = dw PROVE Lefts' = Lefts /\ (LeftsUnique => LeftsUnique')
BY DEF Lefts, LeftsUnique

\* Where nothing moves.
LEMMA PlaceKept ==
    ASSUME PlaceInv, Hands' = Hands, HandsUnique => HandsUnique', dw' = dw,
           UNCHANGED <<named, files, dirs>>,
           main'.todo = main.todo, main'.file_list = main.file_list
    PROVE  PlaceInv'
<1>1. PICK at : Tracked(at)  BY DEF PlaceInv
<1>2. Located(at)'  BY <1>1, SameLefts DEF Tracked, Located
<1>3. Unique'  BY <1>1, SameLefts DEF Tracked, Unique
<1>4. Explained(at)'  BY <1>1 DEF Tracked, Explained
<1> QED  BY <1>2, <1>3, <1>4 DEF Tracked, PlaceInv

\* A path name that has been found moves from one place to another.
LEMMA ExplainedMove ==
    ASSUME NEW at, NEW at2, NEW e \in Entries, NEW b, at \in [Entries -> Places],
           Explained(at), at2 = [at EXCEPT ![e] = b], at[e] # "none", at[e] # "read",
           b \in {"files", "hand", "dirs", "named", "ignored"},
           b = "named" => Kind[e] = "file", b = "ignored" => Kind[e] = "ignored",
           b = "dirs" => Kind[e] = "dir"
    PROVE  /\ at2 \in [Entries -> Places] /\ at2[e] = b
           /\ \A x \in Entries : x # e => at2[x] = at[x]
           /\ Explained(at2)
<1>1. b \in Places /\ b # "none" /\ b # "read"  BY DEF Places
<1>2. /\ at2 \in [Entries -> Places] /\ at2[e] = b
      /\ \A x \in Entries : x # e => at2[x] = at[x]
  BY <1>1
<1>3. \A x \in Entries : /\ at2[x] # "none" <=> at[x] # "none"
                         /\ at2[x] = "read" <=> at[x] = "read"
                         /\ at2[x] = "named" => Kind[x] = "file"
                         /\ at2[x] = "ignored" => Kind[x] = "ignored"
                         /\ at2[x] \in {"dirs", "read"} => Kind[x] = "dir"
  BY <1>1, <1>2 DEF Explained
<1>4. Explained(at2)
  <2> SUFFICES ASSUME NEW x \in Entries
               PROVE  at2[x] # "none" <=> \/ x \in Items(Sources) \cup Listed
                                          \/ \E p \in Entries : at2[p] = "read" /\ x \in Children[p]
    BY <1>3 DEF Explained
  <2>1. at[x] # "none" <=> \/ x \in Items(Sources) \cup Listed
                           \/ \E p \in Entries : at[p] = "read" /\ x \in Children[p]
    BY DEF Explained
  <2> QED  BY <1>3, <2>1
<1> QED  BY <1>2, <1>4

\* From the file channel into a worker's hand.
LEMMA RecvItemPlace ==
    ASSUME Records, PlaceInv, NEW w \in FileWorkers, RecvItem(w) PROVE PlaceInv'
<1>1. PICK at : Tracked(at)  BY DEF PlaceInv
<1>2. Located(at) /\ Unique /\ Explained(at)  BY <1>1 DEF Tracked
<1>a. at \in [Entries -> Places]  BY <1>2 DEF Located
<1>3. PICK e \in Entries : e = Head(files)  BY RecvItemFacts
<1>4. /\ files # << >> /\ files' = Tail(files) /\ Others(w) /\ fw'[w].item[1] = e
      /\ UNCHANGED <<named, dirs, dw, main>>
  BY <1>3, RecvItemFacts
<1>5. ~Carries(w) /\ Carries(w)'
  <2>1. fw[w].pc = "recv"  BY RecvItemFacts
  <2>2. fw'[w].pc \in {"unready", "open"}  BY RecvItemFacts
  <2> QED  BY <2>1, <2>2 DEF Carries, HasEntry
<1>6. /\ Items(files) = Items(files') \cup {e} /\ e \notin Items(files') /\ Distinct(files')
  BY <1>2, <1>3, <1>4, TailItems DEF Records, Unique
<1>7. at[e] = "files" /\ e \notin Hands  BY <1>2, <1>6 DEF Located
<1>8. Hands' = Hands \cup {e} /\ HandsUnique'  BY <1>2, <1>4, <1>5, <1>7, HandTaken DEF Unique
<1>9. Lefts' = Lefts /\ LeftsUnique'  BY <1>2, <1>4, SameLefts DEF Unique
<1>10. PICK at2 : at2 = [at EXCEPT ![e] = "hand"]  OBVIOUS
<1>11. /\ at2 \in [Entries -> Places] /\ at2[e] = "hand" /\ Explained(at2)
       /\ \A x \in Entries : x # e => at2[x] = at[x]
  BY <1>a, <1>2, <1>7, <1>10, ExplainedMove
<1>12. Located(at2)'  BY <1>2, <1>4, <1>6, <1>7, <1>8, <1>9, <1>11 DEF Located
<1>13. Unique'  BY <1>2, <1>4, <1>6, <1>8, <1>9 DEF Unique
<1>14. Explained(at2)'  BY <1>11 DEF Explained
<1> QED  BY <1>12, <1>13, <1>14 DEF Tracked, PlaceInv

\* From a worker's hand to a number, to the ignored ones, or on to the directory
\* workers.
LEMMA GivenPlace ==
    ASSUME Records, HandInv, PlaceInv, NEW w \in FileWorkers,
           OpenRegular(w) \/ Ignore(w) \/ SendDir(w)
    PROVE  PlaceInv'
<1>1. PICK at : Tracked(at)  BY DEF PlaceInv
<1>2. Located(at) /\ Unique /\ Explained(at)  BY <1>1 DEF Tracked
<1>a. at \in [Entries -> Places]  BY <1>2 DEF Located
<1>3. fw[w].pc \in {"open", "senddir"}
  BY OpenRegularFacts, IgnoreFacts, SendDirFacts
<1>4. PICK e \in Entries : e = fw[w].item[1]  BY <1>3 DEF HandInv, HasEntry
<1>5. Others(w) /\ UNCHANGED <<files, dw, main>>
  BY OpenRegularFacts, IgnoreFacts, SendDirFacts
<1>6. Carries(w) /\ ~Carries(w)'
  <2>1. fw'[w].pc \in {"msg", "recv"}  BY OpenRegularFacts, IgnoreFacts, SendDirFacts
  <2> QED  BY <1>3, <2>1 DEF Carries, HasEntry
<1>7. Hands' = Hands \ {e} /\ e \in Hands /\ HandsUnique'
  BY <1>2, <1>4, <1>5, <1>6, HandGiven DEF Unique
<1>8. at[e] = "hand"  BY <1>2, <1>7 DEF Located
<1>9. Lefts' = Lefts /\ LeftsUnique'  BY <1>2, <1>5, SameLefts DEF Unique
<1>10. CASE OpenRegular(w)
  <2>1. named' = Append(named, e) /\ dirs' = dirs /\ Kind[e] = "file"
    BY <1>4, <1>10, OpenRegularFacts
  <2>2. Items(named') = Items(named) \cup {e} /\ Distinct(named')
    <3>1. e \notin Items(named)  BY <1>2, <1>8 DEF Located
    <3> QED  BY <1>2, <2>1, <3>1, AppendItems DEF Records, Unique
  <2>3. PICK at2 : at2 = [at EXCEPT ![e] = "named"]  OBVIOUS
  <2>4. /\ at2 \in [Entries -> Places] /\ at2[e] = "named" /\ Explained(at2)
        /\ \A x \in Entries : x # e => at2[x] = at[x]
    BY <1>a, <1>2, <1>8, <2>1, <2>3, ExplainedMove
  <2>5. Located(at2)'  BY <1>2, <1>5, <1>7, <1>8, <1>9, <2>1, <2>2, <2>4 DEF Located
  <2>6. Unique'  BY <1>2, <1>5, <1>7, <1>9, <2>1, <2>2 DEF Unique
  <2>7. Explained(at2)'  BY <2>4 DEF Explained
  <2> QED  BY <2>5, <2>6, <2>7 DEF Tracked, PlaceInv
<1>11. CASE Ignore(w)
  <2>1. UNCHANGED <<named, dirs>> /\ Kind[e] = "ignored"  BY <1>4, <1>11, IgnoreFacts
  <2>2. PICK at2 : at2 = [at EXCEPT ![e] = "ignored"]  OBVIOUS
  <2>3. /\ at2 \in [Entries -> Places] /\ at2[e] = "ignored" /\ Explained(at2)
        /\ \A x \in Entries : x # e => at2[x] = at[x]
    BY <1>a, <1>2, <1>8, <2>1, <2>2, ExplainedMove
  <2>4. Located(at2)'  BY <1>2, <1>5, <1>7, <1>8, <1>9, <2>1, <2>3 DEF Located
  <2>5. Unique'  BY <1>2, <1>5, <1>7, <1>9, <2>1 DEF Unique
  <2>6. Explained(at2)'  BY <2>3 DEF Explained
  <2> QED  BY <2>4, <2>5, <2>6 DEF Tracked, PlaceInv
<1>12. CASE SendDir(w)
  <2>1. dirs' = Append(dirs, e) /\ named' = named /\ Kind[e] = "dir"
    BY <1>4, <1>12, SendDirFacts DEF HandInv
  <2>2. Items(dirs') = Items(dirs) \cup {e} /\ Distinct(dirs')
    <3>1. e \notin Items(dirs)  BY <1>2, <1>8 DEF Located
    <3> QED  BY <1>2, <2>1, <3>1, AppendItems DEF Records, Unique
  <2>3. PICK at2 : at2 = [at EXCEPT ![e] = "dirs"]  OBVIOUS
  <2>4. /\ at2 \in [Entries -> Places] /\ at2[e] = "dirs" /\ Explained(at2)
        /\ \A x \in Entries : x # e => at2[x] = at[x]
    BY <1>a, <1>2, <1>8, <2>1, <2>3, ExplainedMove
  <2>5. Located(at2)'  BY <1>2, <1>5, <1>7, <1>8, <1>9, <2>1, <2>2, <2>4 DEF Located
  <2>6. Unique'  BY <1>2, <1>5, <1>7, <1>9, <2>1, <2>2 DEF Unique
  <2>7. Explained(at2)'  BY <2>4 DEF Explained
  <2> QED  BY <2>5, <2>6, <2>7 DEF Tracked, PlaceInv
<1> QED  BY <1>10, <1>11, <1>12

\* A directory is read: nothing below it has been found before.
LEMMA RecvDirPlace ==
    ASSUME Forest, Records, CountInv, PlaceInv, NEW d \in DirWorkers, RecvDir(d),
           dirs # << >>
    PROVE  PlaceInv'
<1>1. PICK at : Tracked(at)  BY DEF PlaceInv
<1>2. Located(at) /\ Unique /\ Explained(at)  BY <1>1 DEF Tracked
<1>a. at \in [Entries -> Places]  BY <1>2 DEF Located
<1>3. PICK p \in Entries : p = Head(dirs)  BY TailItems DEF Records
<1>4. /\ dirs' = Tail(dirs) /\ dw' = [dw EXCEPT ![d] = [pc |-> "read", left |-> Children[p]]]
      /\ dw[d].pc = "recv" /\ UNCHANGED <<named, files, fw, main>>
  BY <1>3 DEF RecvDir
<1>5. /\ dw \in [DirWorkers -> DwState] /\ dw[d].left = {} /\ Children[p] \subseteq Entries
  BY <1>4, IterationAssumption DEF Records, CountInv
<1>6. /\ Items(dirs) = Items(dirs') \cup {p} /\ p \notin Items(dirs') /\ Distinct(dirs')
  BY <1>2, <1>3, <1>4, TailItems DEF Records, Unique
<1>7. at[p] = "dirs"  BY <1>2, <1>6 DEF Located
<1>8. \A x \in Children[p] : at[x] = "none"
  <2> SUFFICES ASSUME NEW x \in Children[p], at[x] # "none" PROVE FALSE  OBVIOUS
  <2>1. x \in Entries /\ x \notin Items(Sources) \cup Listed  BY <1>5 DEF Forest
  <2>2. PICK q \in Entries : at[q] = "read" /\ x \in Children[q]
    BY <1>2, <2>1 DEF Explained
  <2>3. q # p  BY <1>7, <2>2
  <2> QED  BY <2>2, <2>3 DEF Forest
<1>9. p \notin Children[p]  BY <1>7, <1>8
<1>10. dw'[d].left = Children[p] /\ \A c \in DirWorkers : c # d => dw'[c] = dw[c]
  BY <1>4, <1>5
<1>11. Lefts' = Lefts \cup Children[p]
  <2>1. ASSUME NEW x \in Lefts' PROVE x \in Lefts \cup Children[p]
    <3>1. PICK c \in DirWorkers : x \in dw'[c].left  BY <2>1 DEF Lefts
    <3> QED  BY <1>10, <3>1 DEF Lefts
  <2>2. ASSUME NEW x \in Lefts PROVE x \in Lefts'
    <3>1. PICK c \in DirWorkers : x \in dw[c].left  BY <2>2 DEF Lefts
    <3>2. c # d  BY <1>5, <3>1
    <3>3. x \in dw'[c].left  BY <1>10, <3>1, <3>2
    <3> QED  BY <3>3 DEF Lefts
  <2>3. Children[p] \subseteq Lefts'  BY <1>10 DEF Lefts
  <2> QED  BY <2>1, <2>2, <2>3
<1>12. LeftsUnique'
  <2>1. \A c \in DirWorkers : dw[c].left \cap Children[p] = {}
    <3> SUFFICES ASSUME NEW c \in DirWorkers, NEW x \in Children[p], x \in dw[c].left
                 PROVE  FALSE
      OBVIOUS
    <3>1. x \in Entries /\ x \in Lefts  BY <1>5 DEF Lefts
    <3>2. at[x] = "left"  BY <1>2, <3>1 DEF Located
    <3> QED  BY <1>8, <3>2
  <2>2. LeftsUnique  BY <1>2 DEF Unique
  <2> QED  BY <1>10, <2>1, <2>2 DEF LeftsUnique
<1>13. PICK at2 : at2 = [x \in Entries |-> IF x = p THEN "read"
                                           ELSE IF x \in Children[p] THEN "left" ELSE at[x]]
  OBVIOUS
<1>14. /\ at2 \in [Entries -> Places] /\ at2[p] = "read"
       /\ \A x \in Children[p] : at2[x] = "left"
       /\ \A x \in Entries \ Children[p] : x # p => at2[x] = at[x]
  BY <1>2, <1>5, <1>9, <1>13 DEF Located, Places
<1>15. Hands' = Hands /\ HandsUnique'  BY <1>2, <1>4, SameHands DEF Unique
<1>16. Located(at2)'
  <2> SUFFICES ASSUME NEW x \in Entries
               PROVE  /\ at2[x] = "todo"  <=> x \in Items(main'.todo)
                      /\ at2[x] = "list"  <=> x \in Items(main'.file_list)
                      /\ at2[x] = "files" <=> x \in Items(files')
                      /\ at2[x] = "hand"  <=> x \in Hands'
                      /\ at2[x] = "dirs"  <=> x \in Items(dirs')
                      /\ at2[x] = "left"  <=> x \in Lefts'
                      /\ at2[x] = "named" <=> x \in Items(named')
    BY <1>14 DEF Located
  <2>1. CASE x = p  BY <1>2, <1>4, <1>6, <1>7, <1>9, <1>11, <1>14, <1>15, <2>1 DEF Located
  <2>2. CASE x \in Children[p]
    BY <1>2, <1>4, <1>6, <1>8, <1>11, <1>14, <1>15, <2>2 DEF Located
  <2>3. CASE x # p /\ x \notin Children[p]
    BY <1>2, <1>4, <1>6, <1>11, <1>14, <1>15, <2>3 DEF Located
  <2> QED  BY <2>1, <2>2, <2>3
<1>17. Unique'  BY <1>2, <1>4, <1>6, <1>12, <1>15 DEF Unique
<1>18. Explained(at2)
  <2>1. \A x \in Entries : /\ at2[x] = "read" <=> at[x] = "read" \/ x = p
                           /\ at2[x] # "none" <=> at[x] # "none" \/ x \in Children[p]
                           /\ at2[x] = "named" => Kind[x] = "file"
                           /\ at2[x] = "ignored" => Kind[x] = "ignored"
                           /\ at2[x] \in {"dirs", "read"} => Kind[x] = "dir"
    BY <1>2, <1>7, <1>8, <1>14 DEF Explained
  <2> SUFFICES ASSUME NEW x \in Entries
               PROVE  at2[x] # "none" <=> \/ x \in Items(Sources) \cup Listed
                                          \/ \E q \in Entries : at2[q] = "read" /\ x \in Children[q]
    BY <2>1 DEF Explained
  <2>2. at[x] # "none" <=> \/ x \in Items(Sources) \cup Listed
                           \/ \E q \in Entries : at[q] = "read" /\ x \in Children[q]
    BY <1>2 DEF Explained
  <2> QED  BY <2>1, <2>2
<1>19. Explained(at2)'  BY <1>18 DEF Explained
<1> QED  BY <1>16, <1>17, <1>19 DEF Tracked, PlaceInv

\* An entry of a directory goes to the file workers.
LEMMA SendChildPlace ==
    ASSUME Records, PlaceInv, NEW d \in DirWorkers, SendChild(d) PROVE PlaceInv'
<1>1. PICK at : Tracked(at)  BY DEF PlaceInv
<1>2. Located(at) /\ Unique /\ Explained(at)  BY <1>1 DEF Tracked
<1>a. at \in [Entries -> Places]  BY <1>2 DEF Located
<1>3. PICK e \in dw[d].left : /\ files' = Append(files, e)
                              /\ dw' = [dw EXCEPT ![d].left = @ \ {e}]
  BY DEF SendChild
<1>4. e \in Entries /\ dw \in [DirWorkers -> DwState] /\ UNCHANGED <<named, dirs, fw, main>>
  BY <1>3 DEF SendChild, Records, DwState
<1>5. dw'[d].left = dw[d].left \ {e} /\ \A c \in DirWorkers : c # d => dw'[c] = dw[c]
  BY <1>3, <1>4 DEF DwState
<1>6. LeftsUnique  BY <1>2 DEF Unique
<1>7. e \in Lefts  BY <1>3 DEF Lefts
<1>8. at[e] = "left"  BY <1>2, <1>4, <1>7 DEF Located
<1>9. Lefts' = Lefts \ {e}
  <2>1. ASSUME NEW x \in Lefts' PROVE x \in Lefts /\ x # e
    <3>1. PICK c \in DirWorkers : x \in dw'[c].left  BY <2>1 DEF Lefts
    <3>2. x \in dw[c].left  BY <1>5, <3>1
    <3>3. x # e  BY <1>3, <1>5, <1>6, <3>1 DEF LeftsUnique
    <3> QED  BY <3>2, <3>3 DEF Lefts
  <2>2. ASSUME NEW x \in Lefts, x # e PROVE x \in Lefts'
    <3>1. PICK c \in DirWorkers : x \in dw[c].left  BY <2>2 DEF Lefts
    <3>2. x \in dw'[c].left  BY <1>5, <2>2, <3>1
    <3> QED  BY <3>2 DEF Lefts
  <2> QED  BY <1>7, <2>1, <2>2
<1>10. LeftsUnique'
  <2>1. \A c \in DirWorkers : dw'[c].left \subseteq dw[c].left  BY <1>5
  <2> QED  BY <1>6, <2>1 DEF LeftsUnique
<1>11. Items(files') = Items(files) \cup {e} /\ Distinct(files')
  <2>1. e \notin Items(files)  BY <1>2, <1>4, <1>8 DEF Located
  <2> QED  BY <1>2, <1>3, <1>4, <2>1, AppendItems DEF Records, Unique
<1>12. Hands' = Hands /\ HandsUnique'  BY <1>2, <1>4, SameHands DEF Unique
<1>13. PICK at2 : at2 = [at EXCEPT ![e] = "files"]  OBVIOUS
<1>14. /\ at2 \in [Entries -> Places] /\ at2[e] = "files" /\ Explained(at2)
       /\ \A x \in Entries : x # e => at2[x] = at[x]
  BY <1>a, <1>2, <1>4, <1>8, <1>13, ExplainedMove
<1>15. Located(at2)'  BY <1>2, <1>4, <1>8, <1>9, <1>11, <1>12, <1>14 DEF Located
<1>16. Unique'  BY <1>2, <1>4, <1>10, <1>11, <1>12 DEF Unique
<1>17. Explained(at2)'  BY <1>14 DEF Explained
<1> QED  BY <1>15, <1>16, <1>17 DEF Tracked, PlaceInv

\* A directory worker begins to wait or leaves.
LEMMA LeftsKept ==
    ASSUME PlaceInv, UNCHANGED <<named, files, dirs, fw, main>>,
           \A d \in DirWorkers : dw'[d].left = dw[d].left
    PROVE  PlaceInv'
<1>1. PICK at : Tracked(at)  BY DEF PlaceInv
<1>2. Lefts' = Lefts  BY DEF Lefts
<1>3. LeftsUnique => LeftsUnique'  BY DEF LeftsUnique
<1>4. Located(at)'  BY <1>1, <1>2, SameHands DEF Tracked, Located
<1>5. Unique'  BY <1>1, <1>3, SameHands DEF Tracked, Unique
<1>6. Explained(at)'  BY <1>1 DEF Tracked, Explained
<1> QED  BY <1>4, <1>5, <1>6 DEF Tracked, PlaceInv

\* A source, or an entry of the file list, goes to the file workers.
LEMMA SendSourcePlace ==
    ASSUME Records, PlaceInv, SendSource PROVE PlaceInv'
<1>1. PICK at : Tracked(at)  BY DEF PlaceInv
<1>2. Located(at) /\ Unique /\ Explained(at)  BY <1>1 DEF Tracked
<1>3. at \in [Entries -> Places]  BY <1>2 DEF Located
<1>4. main \in MainState /\ main.todo # << >> /\ main.todo \in Seq(Entries)
  BY DEF Records, MainState, SendSource
<1>5. PICK e \in Entries : e = Head(main.todo)  BY <1>4, TailItems
<1>6. /\ files' = Append(files, e) /\ main'.todo = Tail(main.todo)
      /\ main'.file_list = main.file_list /\ UNCHANGED <<named, dirs, fw, dw>>
  BY <1>4, <1>5 DEF SendSource, MainState
<1>7. /\ Items(main.todo) = Items(main'.todo) \cup {e} /\ e \notin Items(main'.todo)
      /\ Distinct(main'.todo)
  BY <1>2, <1>4, <1>5, <1>6, TailItems DEF Unique
<1>8. at[e] = "todo"  BY <1>2, <1>7 DEF Located
<1>9. Items(files') = Items(files) \cup {e} /\ Distinct(files')
  <2>1. e \notin Items(files)  BY <1>2, <1>8 DEF Located
  <2> QED  BY <1>2, <1>6, <2>1, AppendItems DEF Records, Unique
<1>10. Hands' = Hands /\ HandsUnique' /\ Lefts' = Lefts /\ LeftsUnique'
  BY <1>2, <1>6, SameHands, SameLefts DEF Unique
<1>11. PICK at2 : at2 = [at EXCEPT ![e] = "files"]  OBVIOUS
<1>12. /\ at2 \in [Entries -> Places] /\ at2[e] = "files" /\ Explained(at2)
       /\ \A x \in Entries : x # e => at2[x] = at[x]
  BY <1>2, <1>3, <1>8, <1>11, ExplainedMove
<1>13. Located(at2)'  BY <1>2, <1>6, <1>7, <1>8, <1>9, <1>10, <1>12 DEF Located
<1>14. Unique'  BY <1>2, <1>6, <1>7, <1>9, <1>10 DEF Unique
<1>15. Explained(at2)'  BY <1>12 DEF Explained
<1> QED  BY <1>13, <1>14, <1>15 DEF Tracked, PlaceInv

LEMMA SendListedPlace ==
    ASSUME Records, PlaceInv, SendListed, main.file_list # << >> PROVE PlaceInv'
<1>1. PICK at : Tracked(at)  BY DEF PlaceInv
<1>2. Located(at) /\ Unique /\ Explained(at)  BY <1>1 DEF Tracked
<1>3. at \in [Entries -> Places]  BY <1>2 DEF Located
<1>4. main \in MainState /\ main.file_list \in Seq(Entries)
  BY DEF Records, MainState
<1>5. PICK e \in Entries : e = main.file_list[Len(main.file_list)]  BY <1>4, FrontItems
<1>6. /\ files' = Append(files, e)
      /\ main'.file_list = SubSeq(main.file_list, 1, Len(main.file_list) - 1)
      /\ main'.todo = main.todo /\ UNCHANGED <<named, dirs, fw, dw>>
  BY <1>4, <1>5 DEF SendListed, MainState
<1>7. /\ Items(main.file_list) = Items(main'.file_list) \cup {e}
      /\ e \notin Items(main'.file_list) /\ Distinct(main'.file_list)
  BY <1>2, <1>4, <1>5, <1>6, FrontItems DEF Unique
<1>8. at[e] = "list"  BY <1>2, <1>7 DEF Located
<1>9. Items(files') = Items(files) \cup {e} /\ Distinct(files')
  <2>1. e \notin Items(files)  BY <1>2, <1>8 DEF Located
  <2> QED  BY <1>2, <1>6, <2>1, AppendItems DEF Records, Unique
<1>10. Hands' = Hands /\ HandsUnique' /\ Lefts' = Lefts /\ LeftsUnique'
  BY <1>2, <1>6, SameHands, SameLefts DEF Unique
<1>11. PICK at2 : at2 = [at EXCEPT ![e] = "files"]  OBVIOUS
<1>12. /\ at2 \in [Entries -> Places] /\ at2[e] = "files" /\ Explained(at2)
       /\ \A x \in Entries : x # e => at2[x] = at[x]
  BY <1>2, <1>3, <1>8, <1>11, ExplainedMove
<1>13. Located(at2)'  BY <1>2, <1>6, <1>7, <1>8, <1>9, <1>10, <1>12 DEF Located
<1>14. Unique'  BY <1>2, <1>6, <1>7, <1>9, <1>10 DEF Unique
<1>15. Explained(at2)'  BY <1>12 DEF Explained
<1> QED  BY <1>13, <1>14, <1>15 DEF Tracked, PlaceInv

LEMMA PlaceStep ==
    ASSUME Forest, Records, HandInv, CountInv, PlaceInv, Next
    PROVE  PlaceInv'
<1>1. main \in MainState /\ dw \in [DirWorkers -> DwState]  BY DEF Records
<1>2. ASSUME NEW w \in FileWorkers, RecvItem(w) PROVE PlaceInv'
  BY <1>2, RecvItemPlace
<1>3. ASSUME NEW w \in FileWorkers, OpenRegular(w) \/ Ignore(w) \/ SendDir(w)
      PROVE  PlaceInv'
  BY <1>3, GivenPlace
<1>4. ASSUME NEW w \in FileWorkers, Others(w), Carries(w)' <=> Carries(w),
             Carries(w) => fw'[w].item = fw[w].item,
             UNCHANGED <<named, files, dirs, dw, main>>
      PROVE  PlaceInv'
  <2>1. \A v \in FileWorkers : /\ Carries(v)' <=> Carries(v)
                               /\ Carries(v) => fw'[v].item = fw[v].item
    BY <1>4 DEF Others, Carries, HasEntry
  <2>2. Hands' = Hands /\ (HandsUnique => HandsUnique')  BY <2>1, HandKept
  <2> QED  BY <1>4, <2>2, PlaceKept
<1>5. ASSUME NEW w \in FileWorkers, Unready(w) PROVE PlaceInv'
  BY <1>4, <1>5, UnreadyFacts DEF Carries, HasEntry
<1>6. ASSUME NEW w \in FileWorkers, LoadTail(w) PROVE PlaceInv'
  BY <1>4, <1>6, LoadTailFacts DEF Carries, HasEntry
<1>7. ASSUME NEW w \in FileWorkers, Compare(w) PROVE PlaceInv'
  BY <1>4, <1>7, CompareFacts DEF Carries, HasEntry
<1>8. ASSUME NEW w \in FileWorkers, SetReady(w) PROVE PlaceInv'
  BY <1>4, <1>8, SetReadyFacts DEF Carries, HasEntry
<1>9. ASSUME NEW w \in FileWorkers, LoadMask(w) PROVE PlaceInv'
  <2>1. fw'[w].item = << >>  BY <1>9, LoadMaskFacts DEF HandInv
  <2>2. ~Carries(w) /\ ~Carries(w)'  BY <1>9, <2>1, LoadMaskFacts DEF Carries, HasEntry
  <2> QED  BY <1>4, <1>9, <2>2, LoadMaskFacts
<1>10. ASSUME NEW w \in FileWorkers, OpenDir(w) PROVE PlaceInv'
  BY <1>4, <1>10, OpenDirFacts DEF Carries, HasEntry
<1>11. ASSUME NEW w \in FileWorkers, OpenError(w) PROVE PlaceInv'
  <2>1. fw'[w].item # << >>  BY <1>11, OpenErrorFacts DEF HandInv, HasEntry
  <2>2. Carries(w) /\ Carries(w)'  BY <1>11, <2>1, OpenErrorFacts DEF Carries, HasEntry
  <2> QED  BY <1>4, <1>11, <2>2, OpenErrorFacts
<1>12. ASSUME NEW w \in FileWorkers, SendMsg(w) PROVE PlaceInv'
  BY <1>4, <1>12, SendMsgFacts DEF Carries, HasEntry
<1>13. ASSUME UNCHANGED <<named, files, dirs, fw, dw>>, main'.todo = main.todo,
              main'.file_list = main.file_list
       PROVE  PlaceInv'
  BY <1>13, SameHands, PlaceKept
<1>14. ASSUME NEW d \in DirWorkers, RecvDir(d) PROVE PlaceInv'
  <2>1. CASE dirs # << >>  BY <1>14, <2>1, RecvDirPlace
  <2>2. CASE dirs = << >>
    <3>1. /\ dw' = [dw EXCEPT ![d].pc = "exited"] /\ UNCHANGED <<named, files, dirs, fw, main>>
      BY <1>14, <2>2 DEF RecvDir
    <3>2. \A c \in DirWorkers : dw'[c].left = dw[c].left  BY <1>1, <3>1 DEF DwState
    <3> QED  BY <3>1, <3>2, LeftsKept
  <2> QED  BY <2>1, <2>2
<1>15. ASSUME NEW d \in DirWorkers, FinishDir(d) PROVE PlaceInv'
  <2>1. /\ dw' = [dw EXCEPT ![d].pc = "recv"] /\ UNCHANGED <<named, files, dirs, fw, main>>
    BY <1>15 DEF FinishDir
  <2>2. \A c \in DirWorkers : dw'[c].left = dw[c].left  BY <1>1, <2>1 DEF DwState
  <2> QED  BY <2>1, <2>2, LeftsKept
<1>16. ASSUME NEW d \in DirWorkers, SendChild(d) PROVE PlaceInv'
  BY <1>16, SendChildPlace
<1>17. CASE SendSource  BY <1>17, SendSourcePlace
<1>18. CASE SourcesDone  BY <1>1, <1>13, <1>18 DEF SourcesDone, MainState
<1>19. CASE SendListed
  <2>1. CASE main.file_list # << >>  BY <1>19, <2>1, SendListedPlace
  <2>2. CASE main.file_list = << >>
    BY <1>1, <1>13, <1>19, <2>2 DEF SendListed, MainState
  <2> QED  BY <2>1, <2>2
<1>20. CASE MainRecv  BY <1>1, <1>13, <1>20 DEF MainRecv, MainState
<1>21. CASE Announce  BY <1>1, <1>13, <1>21 DEF Announce, MainState
<1>22. CASE Finished  BY <1>13, <1>22 DEF Finished, vars
<1> QED
  BY <1>2, <1>3, <1>5, <1>6, <1>7, <1>8, <1>9, <1>10, <1>11, <1>12, <1>14, <1>15, <1>16,
     <1>17, <1>18, <1>19, <1>20, <1>21, <1>22
  DEF Next, FileWorkerStep, DirWorkerStep, MainStep

LEMMA PlaceInit == ASSUME Forest, Init PROVE PlaceInv
<1>1. /\ main.todo = Sources /\ main.file_list = FileList
      /\ named = << >> /\ files = << >> /\ dirs = << >>
  BY DEF Init
<1>2. Sources \in Seq(Entries) /\ FileList \in Seq(Entries)  BY IterationAssumption
<1>3. Hands = {} /\ HandsUnique  BY DEF Init, Hands, HandsUnique, Carries, HasEntry
<1>4. Lefts = {} /\ LeftsUnique  BY DEF Init, Lefts, LeftsUnique
<1>5. PICK at : at = [e \in Entries |-> IF e \in Items(Sources) THEN "todo"
                                        ELSE IF e \in Listed THEN "list" ELSE "none"]
  OBVIOUS
<1>6. Located(at)
  <2>1. Items(Sources) \cap Items(FileList) = {}  BY DEF Forest, Listed
  <2>2. at \in [Entries -> Places]  BY <1>5 DEF Places
  <2> QED  BY <1>1, <1>3, <1>4, <1>5, <2>1, <2>2, NoItems DEF Located, Listed
<1>7. Unique  BY <1>1, <1>3, <1>4, NoItems DEF Unique, Forest
<1>8. Explained(at)  BY <1>5 DEF Explained
<1> QED  BY <1>6, <1>7, <1>8 DEF Tracked, PlaceInv

LEMMA PlaceInvariance == Forest => (Spec => [](IInv /\ PlaceInv))
<1> SUFFICES ASSUME Forest PROVE Spec => [](IInv /\ PlaceInv)  OBVIOUS
<1>1. Init => IInv /\ PlaceInv  BY InitInv, PlaceInit
<1>2. IInv /\ PlaceInv /\ [Next]_vars => (IInv /\ PlaceInv)'
  <2> SUFFICES ASSUME IInv, PlaceInv, [Next]_vars PROVE IInv' /\ PlaceInv'  OBVIOUS
  <2>1. CASE Next  BY <2>1, NextInv, PlaceStep DEF IInv
  <2>2. CASE UNCHANGED vars  BY <2>2, NextInv, SameHands, PlaceKept DEF vars
  <2> QED  BY <2>1, <2>2
<1> QED  BY <1>1, <1>2, PTL DEF Spec

-----------------------------------------------------------------------------
(* Nothing is lost.                                                        *)

LEMMA OnceInSequence ==
    ASSUME NEW q \in Seq(Entries), Distinct(q), NEW e \in Entries
    PROVE  /\ Occurrences(q, {e}) <= 1
           /\ e \in Items(q) => Occurrences(q, {e}) = 1
<1> DEFINE I == {i \in 1 .. Len(q) : q[i] \in {e}}
<1>1. CASE e \in Items(q)
  <2>1. PICK i \in 1 .. Len(q) : q[i] = e  BY <1>1 DEF Items
  <2>2. I = {i}  BY <2>1 DEF Distinct
  <2>3. Cardinality(I) = 1  BY <2>2, FS_Singleton
  <2> QED  BY <2>3 DEF Occurrences
<1>2. CASE e \notin Items(q)
  <2>1. I = {}  BY <1>2 DEF Items
  <2>2. Cardinality(I) = 0  BY <2>1, FS_EmptySet
  <2> QED  BY <1>2, <2>2 DEF Occurrences
<1> QED  BY <1>1, <1>2

\* When the main thread is done and no worker has failed, what is found has a
\* number or needs none, but for entries of the list.
LEMMA DoneQuiet ==
    ASSUME IInv, main.pc = "done", NoneFailed, NEW at, Tracked(at),
           NEW e \in Entries, e \notin Listed, at[e] # "none"
    PROVE  at[e] \in {"named", "ignored", "read"}
<1>1. AllExited /\ \A w \in FileWorkers : fw[w].item = << >>
  BY DEF IInv, EndInv, AllExited, NoneFailed
<1>2. AllRetiring  BY <1>1 DEF IInv, MaskInv, AllRetiring, Retiring, AllExited
<1>3. Settled /\ Items(main.file_list) \subseteq Listed  BY <1>2 DEF IInv, RetireInv
<1>4. /\ Items(files) \subseteq Listed /\ dirs = << >> /\ main.todo = << >>
      /\ \A d \in DirWorkers : dw[d].left = {}
  BY <1>3, QuietFromCount DEF IInv, Settled, TailMeansQuiet
<1>5. Hands = {} /\ Lefts = {}
  BY <1>1, <1>4 DEF Hands, Lefts, Carries, HasEntry, AllExited
<1>6. /\ e \notin Items(files) /\ e \notin Items(dirs) /\ e \notin Items(main.todo)
      /\ e \notin Items(main.file_list) /\ e \notin Hands /\ e \notin Lefts
  BY <1>3, <1>4, <1>5, NoItems
<1>7. at[e] \in Places  BY DEF Tracked, Located
<1> QED  BY <1>6, <1>7 DEF Tracked, Located, Places

LEMMA AllNamed ==
    ASSUME Forest, IInv, main.pc = "done", NoneFailed, NEW at, Tracked(at),
           NEW e \in Regular \ Listed
    PROVE  e \in Items(named)
<1> DEFINE S == {x \in Entries : at[x] \in {"named", "ignored", "read"}}
<1>1. Located(at) /\ Explained(at)  BY DEF Tracked
<1>2. Items(Sources) \subseteq Entries  BY IterationAssumption DEF Items
<1>3. Items(Sources) \subseteq S
  <2> SUFFICES ASSUME NEW x \in Items(Sources) PROVE x \in S  OBVIOUS
  <2>1. x \in Entries /\ x \notin Listed /\ at[x] # "none"
    BY <1>1, <1>2 DEF Forest, Explained
  <2> QED  BY <2>1, DoneQuiet
<1>4. ASSUME NEW p \in S, Kind[p] = "dir" PROVE Children[p] \subseteq S
  <2>1. p \in Entries /\ at[p] = "read"  BY <1>1, <1>4 DEF Explained
  <2> SUFFICES ASSUME NEW x \in Children[p] PROVE x \in S  OBVIOUS
  <2>2. x \in Entries  BY <2>1, IterationAssumption
  <2>3. x \notin Listed /\ at[x] # "none"  BY <1>1, <2>1, <2>2 DEF Forest, Explained
  <2> QED  BY <2>2, <2>3, DoneQuiet
<1>5. e \in S
  <2>1. S \in SUBSET Entries  OBVIOUS
  <2> HIDE DEF S
  <2> QED  BY <1>3, <1>4, <2>1 DEF Forest
<1>6. e \in Entries /\ Kind[e] = "file"  BY DEF Regular
<1>7. at[e] # "ignored"  BY <1>1, <1>6 DEF Explained
<1>8. at[e] # "read"  BY <1>1, <1>6 DEF Explained
<1> QED  BY <1>1, <1>5, <1>6, <1>7, <1>8 DEF Located

\* Over a forest of path names, when iterate_files returns every regular file
\* that is a source or lies below one has exactly one number unless a worker left
\* on an error of open(2), no file has two, and every number has been announced:
\* whatever the order in which workers find, pass on and take path names, load
\* the counters, set and clear their bits and leave.
THEOREM NothingLostHolds == Forest => (Spec => []NothingLost)
<1>1. ASSUME Forest, IInv, PlaceInv PROVE NothingLost
  <2>1. PICK at : Tracked(at)  BY <1>1 DEF PlaceInv
  <2>2. named \in Seq(Entries) /\ Distinct(named)
    BY <1>1, <2>1 DEF IInv, Records, Tracked, Unique
  <2>3. \A e \in Regular : Occurrences(named, {e}) <= 1
    BY <2>2, OnceInSequence DEF Regular
  <2>4. ASSUME main.pc = "done", NoneFailed, NEW e \in Regular \ Listed
        PROVE  Occurrences(named, {e}) = 1
    <3>1. e \in Items(named)  BY <1>1, <2>1, <2>4, AllNamed
    <3> QED  BY <2>2, <3>1, OnceInSequence DEF Regular
  <2>5. main.pc = "done" => main.files_sent = Len(named) /\ main.vec = {}
    BY <1>1 DEF IInv, EndInv
  <2> QED  BY <2>3, <2>4, <2>5 DEF NothingLost
<1>2. SUFFICES ASSUME Forest PROVE Spec => []NothingLost  OBVIOUS
<1>3. IInv /\ PlaceInv => NothingLost  BY <1>1, <1>2
<1>4. Spec => [](IInv /\ PlaceInv)  BY <1>2, PlaceInvariance
<1> QED  BY <1>3, <1>4, PTL
=============================================================================
