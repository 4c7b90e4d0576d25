---------------------------- MODULE SessionProofs ----------------------------
(***************************************************************************)
(* Proofs about module SessionEnd, for any command lines, number of        *)
(* threads and ports taken: its type invariant, that both sides work with  *)
(* the same arguments, and that neither process reports a complete         *)
(* transfer before the file is written and confirmed.                      *)
(***************************************************************************)
EXTENDS SessionEnd, FiniteSetTheorems, SequenceTheorems, TLAPS

\* Program counters of the main threads and of the workers.
SndPcs == {"args", "reply", "spawn", "run", "check", "confirm", "complete", "flag", "ack",
           "join", "stuck"} \cup Ended
RcvPcs == {"helo", "port", "ready", "top", "poll", "read", "idle", "keepalive", "finish",
           "join", "stuck"} \cup Ended
TxPcs  == {"none", "init", "connect", "up", "keyed", "sending", "sent", "ended", "stuck"}
RxPcs  == {"none", "key", "first", "recv", "memset", "load", "write", "store", "finish",
           "ended", "stuck"}

\* The shapes of the records.
Records ==
    /\ snd \in [pc : SndPcs, threads : Nat, block : Int, hash : {0, 2}, port : Nat, dying : BOOLEAN]
    /\ rcv \in [pc : RcvPcs, threads : Nat, block : Int, hash : {0, 2}, log : BOOLEAN,
                dying : BOOLEAN]
    /\ rcvr \in [pc : {"none", "bind", "accept", "unbound", "returned", "stuck"},
                 port : Nat, tries : Nat, i : Nat]
    /\ active_port \in Nat
    /\ tx \in [Conns -> TxPcs] /\ rx \in [Conns -> RxPcs]
    /\ main \in [ptr : Nat \X Nat, opened : BOOLEAN, counted : BOOLEAN, closed : BOOLEAN, stat : BOOLEAN,
                 complete : BOOLEAN, keeps : Nat, told : BOOLEAN]
    /\ metabuf \in Conns
    /\ knob \in [Conns -> [h : Nat, buf : Conns, bye : BOOLEAN]]

\* The sender has had the receiver's answer.
Replied == snd.port # 0

\* Until the answer nothing moves; then the receiver has what the sender asked for.
AgreeInv ==
    /\ snd.pc = "args" => \E s \in Situations : cmd = s.cmd
    /\ pipe = [helo |-> pipe.helo, reply |-> pipe.reply]
    /\ snd.pc \in {"args", "reply"} => ~Replied
    /\ snd.pc = "args" => pipe.helo = None /\ rcvr.pc = "none"
    /\ \A h \in pipe.helo :
          /\ h.block = snd.block /\ h.hash = snd.hash /\ h.threads = snd.threads
          /\ h.log \in BOOLEAN /\ h.port_start \in Nat
          /\ snd.block >= MinBlock /\ rcvr.pc = "none"
    /\ rcv.pc = "helo" => rcvr.pc = "none"
    /\ rcvr.pc # "none" =>
          /\ rcv.block = snd.block /\ rcv.hash = snd.hash /\ snd.block >= MinBlock
          /\ snd.threads = IF Replied THEN Max({1, rcv.threads}) ELSE rcv.threads
    /\ rcvr.pc \in {"none", "bind", "unbound"} => active_port = 0
    /\ pipe.reply # None => active_port # 0 /\ pipe.reply = {active_port}
    /\ snd.pc \in SndPcs \ {"args", "reply", "failed", "stuck", "returned"} => Replied
    /\ Replied => snd.port = active_port /\ snd.threads \in 1 .. MaxThreads

\* Data connections.
Data == Conns \ {Meta}

\* What is on the wires.
WireInv ==
    /\ wire = [c \in Conns |-> wire[c]]
    /\ ~Replied => \A c \in Conns : wire[c] = << >> /\ tx[c] = "none" /\ rx[c] = "none"
    /\ \A c \in Conns : tx[c] # "none" => c <= snd.threads
    /\ \A c \in Data :
          /\ tx[c] \notin {"sent", "ended"} => wire[c] = << >> \/ (tx[c] = "stuck" /\ ~RcvAlive)
          /\ tx[c] = "sent" => wire[c] \in {<<DATA>>, << >>}
          /\ tx[c] = "ended" => wire[c] \in {<<DATA, BYE>>, <<BYE>>, << >>}
          /\ rx[c] \in {"memset", "load", "write"} => wire[c] = <<BYE>>
          /\ rx[c] \in {"write", "store"} => knob[c].bye
    /\ Replied =>
          /\ wire[Meta] \in Seq({SPEC, COUNT, COMPLETE, BYE})
          /\ rx[Meta] \in {"memset", "load", "write"} => wire[Meta] # << >>
          /\ tx[Meta] \in {"sent", "ended"} => ~RcvAlive

\* The file is closed and its confirmation sent.
Confirmed == main.closed /\ ~main.stat

\* What the sender and the receiver may have sent by now.
Forward  == {DATA, SPEC, COUNT} \cup (IF Confirmed THEN {COMPLETE, BYE} ELSE {})
Backward == {KEEP, ERROR} \cup (IF Confirmed THEN {STAT, COMPLETE} ELSE {})

\* Nothing that ends the session is said before the file is confirmed.
ConfirmInv ==
    /\ main.stat => main.closed
    /\ snd.pc \in {"complete", "flag", "ack", "join", "done"} => Confirmed
    /\ txdone \/ main.complete => Confirmed
    /\ rcv.pc \in {"finish", "join", "done"} => Confirmed
    /\ \A c \in Conns : wire[c] \in Seq(Forward)
    /\ back \in Seq(Backward)
    /\ buf \in [Conns -> [0 .. Lines -> (Forward \cup {ZERO}) \ {DATA}]]

\* Blocks written are those of the connections whose block has been sent and is
\* no longer on the wire, until the receiver has ended and writes may fail.
Arrived == {c \in Data : tx[c] \in {"sent", "ended"} /\ wire[c] \in {<<BYE>>, << >>}}
CountInv ==
    /\ written \in 0 .. MaxThreads
    /\ RcvAlive => written = Cardinality(Arrived)
    /\ main.closed => written = Blocks /\ rcv.pc # "helo"
    /\ threads_finished = Cardinality({c \in Conns : rx[c] = "ended"})

\* Messages the ring can still get.
Unsaid == IF snd.pc \in {"spawn", "run"} THEN 3
          ELSE IF snd.pc = "check" THEN 2
          ELSE IF snd.pc \in {"confirm", "complete"} THEN 1 ELSE 0
Left == Cardinality({c \in Data : rx[c] \notin {"finish", "ended"}})
        + Unsaid + Len(wire[Meta]) + (IF rx[Meta] = "store" THEN 1 ELSE 0)
RingInv ==
    /\ metahead \in 0 .. Lines /\ metatail \in 0 .. Lines
    /\ ~Replied => metahead = 0
    /\ Replied /\ RcvAlive =>
          /\ metahead + Left <= Lines
          /\ \A c \in Conns : rx[c] \in {"write", "store"} => knob[c].h + Left <= Lines
    /\ rcv.pc = "read" => main.ptr[1] \in Conns /\ main.ptr[2] = metatail /\ metatail < Lines

IInv == Records /\ AgreeInv /\ WireInv /\ ConfirmInv /\ CountInv /\ RingInv

-----------------------------------------------------------------------------
(* Lemmas: the messages.                                                   *)

\* Division with remainder.
LEMMA RingDivision ==
    ASSUME NEW R \in Nat \ {0}, NEW a \in Nat
    PROVE  a = R * (a \div R) + (a % R) /\ a \div R \in Int
  OBVIOUS

LEMMA MaxPair ==
    ASSUME NEW a \in Int, NEW b \in Int
    PROVE  Max({a, b}) \in {a, b} /\ Max({a, b}) >= a /\ Max({a, b}) >= b
  BY DEF Max

\* The block size the sender uses is at least the minimum.
LEMMA BlockSizeMin ==
    ASSUME NEW s \in Situations
    PROVE  BlockSize(s.cmd.block) \in Int /\ BlockSize(s.cmd.block) >= MinBlock
<1> DEFINE v == int_from_human(s.cmd.block)
<1>1. v \in Nat /\ 2 * I32 \in Nat \ {0} /\ MinBlock \in Int
  BY StartAssumption, ArgumentsAssumption
<1> HIDE DEF v
<1>2. AsI32(v) \in Int
  <2>1. v % (2 * I32) \in Int  BY <1>1
  <2> QED  BY <1>1, <2>1, ArgumentsAssumption DEF AsI32
<1> QED  BY <1>1, <1>2, MaxPair DEF BlockSize, v

LEMMA PairSecond == ASSUME NEW x, NEW y PROVE <<x, y>>[2] = y
  OBVIOUS

LEMMA SixBytes ==
    ASSUME NEW a, NEW b, NEW c, NEW d, NEW e, NEW f
    PROVE  /\ <<a, b, c, d, e, f>>[5] = e /\ <<a, b, c, d, e, f>>[6] = f
           /\ <<a, b, c, d, e, f>> # << >>
  OBVIOUS

\* from_header gives back the type that to_header was given.
LEMMA HeaderType ==
    ASSUME NEW sz, NEW typ \in Nat
    PROVE  from_header(to_header(sz, typ))[2] = typ /\ to_header(sz, typ) # << >>
<1> DEFINE h == to_header(sz, typ)
<1>1. h[5] = typ \div Byte /\ h[6] = typ % Byte /\ h # << >>
  BY SixBytes, Zenon DEF to_header
<1>2. from_header(h)[2] = h[5] * Byte + h[6]  BY PairSecond, Zenon DEF from_header
<1>3. Byte \in Nat \ {0}  BY ArgumentsAssumption
<1>4. typ = Byte * (typ \div Byte) + (typ % Byte) /\ typ \div Byte \in Int
  BY <1>3, RingDivision
<1>5. Byte * (typ \div Byte) = (typ \div Byte) * Byte  BY <1>3, <1>4
<1>6. h[5] * Byte + h[6] = typ  BY <1>1, <1>4, <1>5, Zenon
<1> QED  BY <1>1, <1>2, <1>6, Zenon

\* The types of the messages, as the other side decodes them.
LEMMA MessageTypes ==
    /\ Typ(SPEC) = 144 /\ Typ(COUNT) = 144 /\ Typ(COMPLETE) = 1 /\ Typ(KEEP) = 18
    /\ Typ(STAT) = 17 /\ Typ(ERROR) = 147 /\ Typ(ZERO) = 0
    /\ SPEC # DATA /\ COUNT # DATA /\ COMPLETE # DATA /\ BYE # DATA /\ ZERO # DATA
<1>1. Typ(SPEC) = 144 /\ SPEC # DATA  BY HeaderType, 128 + 16 = 144 DEF Typ, SPEC, DATA
<1>a. Typ(COUNT) = 144 /\ COUNT # DATA  BY HeaderType, 128 + 16 = 144 DEF Typ, COUNT, DATA
<1>2. Typ(COMPLETE) = 1 /\ COMPLETE # DATA  BY HeaderType DEF Typ, COMPLETE, DATA
<1>3. Typ(KEEP) = 18 /\ Typ(STAT) = 17  BY HeaderType DEF Typ, KEEP, STAT
<1>4. Typ(ERROR) = 147  BY HeaderType, 128 + 19 = 147 DEF Typ, ERROR
<1>5. ZERO[5] = 0 /\ ZERO[6] = 0 /\ ZERO # DATA /\ BYE # DATA
  BY SixBytes DEF ZERO, BYE, DATA
<1>6. Typ(ZERO) = 0 * Byte + 0
  BY <1>5, PairSecond, Zenon DEF Typ, from_header
<1>7. 0 * Byte + 0 = 0  BY ArgumentsAssumption
<1> QED  BY <1>1, <1>a, <1>2, <1>3, <1>4, <1>5, <1>6, <1>7

\* A message that does not end a session is not taken for one that does.
LEMMA NotFinal ==
    ASSUME NEW m \in {SPEC, COUNT, ZERO}
    PROVE  from_header(m)[2] # 67 * Byte + 11 /\ from_header(m) # <<0, 1>>
<1>1. Typ(m) \in {0, 144}  BY MessageTypes
<1>2. 67 * Byte + 11 \notin {0, 144}  BY ArgumentsAssumption
<1>3. <<0, 1>>[2] = 1  OBVIOUS
<1> QED  BY <1>1, <1>2, <1>3 DEF Typ

-----------------------------------------------------------------------------
(* Lemmas: sets of connections.                                            *)

LEMMA ConnsFinite == IsFiniteSet(Conns) /\ Cardinality(Conns) = MaxThreads + 1
<1>1. MaxThreads \in Nat  BY StartAssumption
<1>2. 0 \in Int /\ MaxThreads \in Int /\ ~(0 > MaxThreads)  BY <1>1
<1> QED  BY <1>1, <1>2, FS_Interval DEF Conns

LEMMA SomeConns ==
    ASSUME NEW S \in SUBSET Conns
    PROVE  IsFiniteSet(S) /\ Cardinality(S) \in Nat /\ Cardinality(S) <= MaxThreads + 1
  BY ConnsFinite, FS_Subset, FS_CardinalityType

\* One connection more, and one less.
LEMMA OneMore ==
    ASSUME NEW S \in SUBSET Conns, NEW c \in Conns, c \notin S
    PROVE  Cardinality(S \cup {c}) = Cardinality(S) + 1
  BY SomeConns, FS_AddElement

LEMMA OneLess ==
    ASSUME NEW S \in SUBSET Conns, NEW c \in S
    PROVE  Cardinality(S \ {c}) = Cardinality(S) - 1
  BY SomeConns, FS_RemoveElement

LEMMA DataSize == ASSUME Meta \in Conns PROVE Cardinality(Data) = MaxThreads
<1>1. Cardinality(Data) = (MaxThreads + 1) - 1
  BY ConnsFinite, FS_RemoveElement DEF Data
<1> QED  BY <1>1, StartAssumption

LEMMA SeqMonotone == ASSUME NEW S, NEW T, S \subseteq T, NEW q \in Seq(S) PROVE q \in Seq(T)
  OBVIOUS

LEMMA Shorter ==
    ASSUME NEW S, NEW q \in Seq(S), q # << >>
    PROVE  Head(q) \in S /\ Tail(q) \in Seq(S) /\ Len(Tail(q)) = Len(q) - 1 /\ Len(q) \in Nat
  OBVIOUS

LEMMA Longer ==
    ASSUME NEW S, NEW q \in Seq(S), NEW m \in S
    PROVE  Append(q, m) \in Seq(S) /\ Len(Append(q, m)) = Len(q) + 1 /\ Append(q, m) # << >>
  BY AppendProperties

-----------------------------------------------------------------------------
LEMMA InitIInv == SessionInit => IInv
<1> SUFFICES ASSUME SessionInit PROVE IInv  OBVIOUS
<1> USE DEF SessionInit, Init
<1>0. 0 \in Conns  BY StartAssumption DEF Conns
<1>1. Records
  <2>1. snd \in [pc : SndPcs, threads : Nat, block : Int, hash : {0, 2}, port : Nat, dying : BOOLEAN]
    BY DEF SndPcs
  <2>2. rcv \in [pc : RcvPcs, threads : Nat, block : Int, hash : {0, 2}, log : BOOLEAN,
                 dying : BOOLEAN]
    BY DEF RcvPcs
  <2>3. rcvr \in [pc : {"none", "bind", "accept", "unbound", "returned", "stuck"},
                  port : Nat, tries : Nat, i : Nat]
    OBVIOUS
  <2>4. tx \in [Conns -> TxPcs] /\ rx \in [Conns -> RxPcs] /\ active_port \in Nat
    BY DEF TxPcs, RxPcs
  <2>5. main \in [ptr : Nat \X Nat, opened : BOOLEAN, counted : BOOLEAN, closed : BOOLEAN, stat : BOOLEAN,
                  complete : BOOLEAN, keeps : Nat, told : BOOLEAN]
    OBVIOUS
  <2>6. metabuf \in Conns /\ knob \in [Conns -> [h : Nat, buf : Conns, bye : BOOLEAN]]
    BY <1>0 DEF NoKnob
  <2> QED  BY <2>1, <2>2, <2>3, <2>4, <2>5, <2>6 DEF Records
<1>2. AgreeInv  BY DEF AgreeInv, Replied, None, SndPcs
<1>4. WireInv  BY DEF WireInv, Replied, Data
<1>5. ConfirmInv
  <2>1. (\A c \in Conns : wire[c] \in Seq(Forward)) /\ back \in Seq(Backward)  OBVIOUS
  <2>2. ZERO \in (Forward \cup {ZERO}) \ {DATA}  BY MessageTypes
  <2>3. buf \in [Conns -> [0 .. Lines -> (Forward \cup {ZERO}) \ {DATA}]]  BY <2>2
  <2> QED  BY <2>1, <2>3 DEF ConfirmInv
<1>6. CountInv
  <2>1. Arrived = {} /\ {c \in Conns : rx[c] = "ended"} = {}  BY DEF Arrived, Data
  <2>2. Cardinality({}) = 0  BY FS_EmptySet
  <2>3. /\ written = Cardinality(Arrived) /\ ~main.closed
        /\ threads_finished = Cardinality({c \in Conns : rx[c] = "ended"})
    BY <2>1, <2>2
  <2>4. written \in 0 .. MaxThreads  BY StartAssumption
  <2> QED  BY <2>3, <2>4 DEF CountInv
<1>7. RingInv
  BY EndAssumption DEF RingInv, Replied
<1> QED  BY <1>1, <1>2, <1>4, <1>5, <1>6, <1>7 DEF IInv

-----------------------------------------------------------------------------
(* How the main threads move: all steps but SendHelo, GetReply and         *)
(* ReadHelo leave the arguments alone.                                     *)

SndMoves ==
    \/ snd' = snd
    \/ snd' = [snd EXCEPT !.dying = TRUE]
    \/ \E x \in SndPcs \ {"args", "reply"} :
          /\ snd' = [snd EXCEPT !.pc = x] \/ snd' = [snd EXCEPT !.pc = x, !.dying = TRUE]
          /\ \/ x \in {"failed", "stuck", "returned"}
             \/ snd.pc \notin {"args", "reply", "failed", "stuck", "returned"}

RcvMoves ==
    \/ rcv' = rcv
    \/ rcv' = [rcv EXCEPT !.dying = TRUE]
    \/ \E x \in RcvPcs \ {"helo"} :
          /\ rcv' = [rcv EXCEPT !.pc = x] \/ rcv' = [rcv EXCEPT !.pc = x, !.dying = TRUE]
          /\ RcvAlive

LEMMA SndMoved ==
    ASSUME Records, SndMoves
    PROVE  /\ snd' \in [pc : SndPcs, threads : Nat, block : Int, hash : {0, 2}, port : Nat, dying : BOOLEAN]
           /\ snd'.threads = snd.threads /\ snd'.block = snd.block
           /\ snd'.hash = snd.hash /\ snd'.port = snd.port
           /\ snd'.pc \in {"args", "reply"} => snd'.pc = snd.pc
           /\ snd'.pc \notin {"args", "reply", "failed", "stuck", "returned"} =>
                 snd.pc \notin {"args", "reply", "failed", "stuck", "returned"}
           /\ (Replied' <=> Replied) /\ Meta' = Meta /\ Data' = Data
<1>1. snd \in [pc : SndPcs, threads : Nat, block : Int, hash : {0, 2}, port : Nat, dying : BOOLEAN]
  BY DEF Records
<1>2. CASE snd' = snd  BY <1>1, <1>2 DEF Replied, Meta, Data
<1>3. CASE snd' = [snd EXCEPT !.dying = TRUE]  BY <1>1, <1>3 DEF Replied, Meta, Data
<1>4. CASE ~(snd' = snd) /\ ~(snd' = [snd EXCEPT !.dying = TRUE])
  <2>1. PICK x \in SndPcs \ {"args", "reply"} :
          /\ snd' = [snd EXCEPT !.pc = x] \/ snd' = [snd EXCEPT !.pc = x, !.dying = TRUE]
          /\ \/ x \in {"failed", "stuck", "returned"}
             \/ snd.pc \notin {"args", "reply", "failed", "stuck", "returned"}
    BY <1>4 DEF SndMoves
  <2>2. /\ snd' \in [pc : SndPcs, threads : Nat, block : Int, hash : {0, 2}, port : Nat, dying : BOOLEAN]
        /\ snd'.threads = snd.threads /\ snd'.block = snd.block
        /\ snd'.hash = snd.hash /\ snd'.port = snd.port /\ snd'.pc = x
    BY <1>1, <2>1
  <2> QED  BY <2>1, <2>2 DEF Replied, Meta, Data
<1> QED  BY <1>2, <1>3, <1>4

LEMMA RcvMoved ==
    ASSUME Records, RcvMoves
    PROVE  /\ rcv' \in [pc : RcvPcs, threads : Nat, block : Int, hash : {0, 2},
                        log : BOOLEAN, dying : BOOLEAN]
           /\ rcv'.threads = rcv.threads /\ rcv'.block = rcv.block
           /\ rcv'.hash = rcv.hash
           /\ rcv'.pc = "helo" => rcv.pc = "helo"
           /\ (RcvAlive' => RcvAlive) /\ Blocks' = Blocks
<1>1. rcv \in [pc : RcvPcs, threads : Nat, block : Int, hash : {0, 2}, log : BOOLEAN,
               dying : BOOLEAN]
  BY DEF Records
<1>2. CASE rcv' = rcv  BY <1>1, <1>2 DEF RcvAlive, Blocks
<1>3. CASE rcv' = [rcv EXCEPT !.dying = TRUE]  BY <1>1, <1>3 DEF RcvAlive, Blocks
<1>4. CASE ~(rcv' = rcv) /\ ~(rcv' = [rcv EXCEPT !.dying = TRUE])
  <2>1. PICK x \in RcvPcs \ {"helo"} :
          /\ rcv' = [rcv EXCEPT !.pc = x] \/ rcv' = [rcv EXCEPT !.pc = x, !.dying = TRUE]
          /\ RcvAlive
    BY <1>4 DEF RcvMoves
  <2>2. /\ rcv' \in [pc : RcvPcs, threads : Nat, block : Int, hash : {0, 2}, log : BOOLEAN,
                     dying : BOOLEAN]
        /\ rcv'.threads = rcv.threads /\ rcv'.block = rcv.block
        /\ rcv'.hash = rcv.hash /\ rcv'.pc = x
    BY <1>1, <2>1
  <2> QED  BY <2>1, <2>2 DEF Blocks
<1> QED  BY <1>2, <1>3, <1>4

\* The first half of the invariant, in a step that does not touch the pipe or
\* the thread that runs rx_start.
LEMMA AgreeKept ==
    ASSUME Records, AgreeInv, SndMoves, RcvMoves,
           UNCHANGED <<cmd, pipe, env, rcvr, active_port>>
    PROVE  AgreeInv'
<1>1. AgreeInv'
  <2>1. /\ cmd' = cmd /\ pipe' = pipe /\ rcvr' = rcvr /\ active_port' = active_port
        /\ snd'.threads = snd.threads /\ snd'.block = snd.block /\ snd'.hash = snd.hash
        /\ snd'.port = snd.port /\ (Replied' <=> Replied)
        /\ rcv'.threads = rcv.threads /\ rcv'.block = rcv.block /\ rcv'.hash = rcv.hash
    BY SndMoved, RcvMoved
  <2>2. /\ snd'.pc \in {"args", "reply"} => snd'.pc = snd.pc
        /\ snd'.pc \in SndPcs \ {"args", "reply", "failed", "stuck", "returned"} =>
              snd.pc \in SndPcs \ {"args", "reply", "failed", "stuck", "returned"}
        /\ rcv'.pc = "helo" => rcv.pc = "helo"
    BY SndMoved, RcvMoved DEF Records
  <2> QED  BY <2>1, <2>2 DEF AgreeInv
<1> QED  BY <1>1

-----------------------------------------------------------------------------
(* The start of a session: types, arguments and ports.                     *)

FirstHalf  == Records /\ AgreeInv
SecondHalf == WireInv /\ ConfirmInv /\ CountInv /\ RingInv

LEMMA EndKept ==
    ASSUME UNCHANGED endVars
    PROVE  /\ wire' = wire /\ back' = back /\ txdone' = txdone /\ metabuf' = metabuf
           /\ buf' = buf /\ metahead' = metahead /\ metas' = metas /\ knob' = knob
           /\ metatail' = metatail /\ main' = main /\ written' = written
           /\ threads_finished' = threads_finished
  BY DEF endVars, ringVars, mainVars

LEMMA BadCommandFirst ==
    ASSUME FirstHalf, BadCommand, UNCHANGED endVars
    PROVE  FirstHalf'
<1>0. Records /\ AgreeInv  BY DEF FirstHalf
<1>1. snd' \in [pc : SndPcs, threads : Nat, block : Int, hash : {0, 2}, port : Nat, dying : BOOLEAN]
      /\ snd'.pc = "failed" /\ snd'.threads = snd.threads /\ snd'.block = snd.block
      /\ snd'.hash = snd.hash /\ snd'.port = snd.port
  BY <1>0 DEF Records, BadCommand, SndPcs, Ended
<1>2. Records'  BY <1>0, <1>1, EndKept DEF Records, BadCommand
<1>3. AgreeInv'  BY <1>0, <1>1 DEF AgreeInv, BadCommand, Replied
<1> QED  BY <1>2, <1>3 DEF FirstHalf

LEMMA SendHeloFirst ==
    ASSUME FirstHalf, SendHelo, UNCHANGED endVars
    PROVE  FirstHalf' /\ ~Replied /\ ~Replied' /\ snd.pc = "args" /\ snd'.pc = "reply"
<1>0. Records /\ AgreeInv  BY DEF FirstHalf
<1>1. PICK s \in Situations : cmd = s.cmd  BY <1>0 DEF AgreeInv, SendHelo
<1>2. /\ cmd.threads \in Nat /\ cmd.port \in Nat /\ cmd.log \in BOOLEAN
      /\ BlockSize(cmd.block) \in Int /\ BlockSize(cmd.block) >= MinBlock
  BY <1>1, StartAssumption, BlockSizeMin
<1>3. HashMode(cmd) \in {0, 2}  BY DEF HashMode
<1>4. /\ snd' \in [pc : SndPcs, threads : Nat, block : Int, hash : {0, 2}, port : Nat, dying : BOOLEAN]
      /\ snd'.pc = "reply" /\ snd'.threads = cmd.threads /\ snd'.block = BlockSize(cmd.block)
      /\ snd'.hash = HashMode(cmd) /\ snd'.port = snd.port /\ snd.pc = "args"
  BY <1>0, <1>2, <1>3 DEF Records, SendHelo, SndPcs, Ended
<1>5. Records'  BY <1>0, <1>4, EndKept DEF Records, SendHelo
<1>6. /\ pipe' = [helo |-> pipe'.helo, reply |-> pipe.reply]
      /\ \A h \in pipe'.helo :
            /\ h.block = snd'.block /\ h.hash = snd'.hash /\ h.threads = cmd.threads
            /\ h.log = cmd.log /\ h.port_start = cmd.port
  <2> DEFINE h0 == [typ |-> from_header(to_header(1, 8))[2],
                    host |-> Parsed[cmd.dest].host,
                    threads |-> cmd.threads, block |-> snd'.block,
                    hash |-> snd'.hash, log |-> cmd.log, port_start |-> cmd.port]
  <2>1. pipe' = [pipe EXCEPT !.helo = {h0}]  BY DEF SendHelo, Some
  <2>2. /\ h0.block = snd'.block /\ h0.hash = snd'.hash /\ h0.threads = cmd.threads
        /\ h0.log = cmd.log /\ h0.port_start = cmd.port
    <3> DEFINE t0 == from_header(to_header(1, 8))[2]
               d0 == Parsed[cmd.dest].host
    <3> HIDE DEF t0, d0
    <3>1. h0 = [typ |-> t0, host |-> d0,
                threads |-> cmd.threads, block |-> snd'.block,
                hash |-> snd'.hash, log |-> cmd.log, port_start |-> cmd.port]
      BY Zenon DEF t0, d0
    <3> HIDE DEF h0
    <3> QED  BY <3>1
  <2> HIDE DEF h0
  <2>3. pipe = [helo |-> pipe.helo, reply |-> pipe.reply]  BY <1>0 DEF AgreeInv
  <2>4. pipe' = [helo |-> {h0}, reply |-> pipe.reply]  BY <2>1, <2>3
  <2> QED  BY <2>2, <2>4
<1>7. AgreeInv'
  <2>1. rcvr.pc = "none" /\ rcvr' = rcvr /\ active_port' = active_port /\ active_port = 0
    BY <1>0, <1>4 DEF AgreeInv, SendHelo
  <2>2. pipe'.reply = None /\ rcv' = rcv  BY <1>0, <1>6, <2>1 DEF AgreeInv, SendHelo
  <2>3. ~Replied' /\ ~Replied  BY <1>0, <1>4 DEF AgreeInv, Replied
  <2> QED  BY <1>2, <1>4, <1>6, <2>1, <2>2, <2>3 DEF AgreeInv
<1>9. ~Replied' /\ ~Replied  BY <1>0, <1>4 DEF AgreeInv, Replied
<1> QED  BY <1>4, <1>5, <1>7, <1>9 DEF FirstHalf

\* The answer: unless there are too many threads, both sides have the same number.
LEMMA GetReplyFirst ==
    ASSUME FirstHalf, GetReply, UNCHANGED endVars
    PROVE  /\ FirstHalf' /\ ~Replied /\ rcv' = rcv /\ rx' = rx
           /\ \/ snd'.pc = "stuck" /\ tx' = tx /\ ~Replied' /\ Meta' = Meta
              \/ /\ snd'.pc = "spawn" /\ Replied' /\ Meta' \in 1 .. MaxThreads
                 /\ tx' = [c \in Conns |-> IF c <= Meta' THEN "init" ELSE "none"]
<1> DEFINE n == Max({1, snd.threads})
<1>0. Records /\ AgreeInv  BY DEF FirstHalf
<1>1. /\ snd.pc = "reply" /\ pipe.reply # None /\ rcv' = rcv /\ rx' = rx /\ rcvr' = rcvr
      /\ active_port' = active_port /\ cmd' = cmd /\ env' = env
      /\ pipe' = [pipe EXCEPT !.reply = None]
  BY DEF GetReply
<1>2. /\ ~Replied /\ active_port # 0 /\ pipe.reply = {active_port} /\ rcvr.pc # "none"
      /\ active_port \in Nat /\ snd.threads \in Nat
  BY <1>0, <1>1 DEF AgreeInv, Records
<1>3. n \in Nat /\ n >= 1 /\ n \in {1, snd.threads}
  <2>1. 1 \in Int /\ snd.threads \in Int  BY <1>2
  <2>2. n \in {1, snd.threads} /\ n >= 1  BY <2>1, MaxPair
  <2> HIDE DEF n
  <2> QED  BY <1>2, <2>2
<1>4. snd.threads = rcv.threads /\ rcv.block = snd.block /\ rcv.hash = snd.hash
      /\ snd.block >= MinBlock
  BY <1>0, <1>2 DEF AgreeInv
<1>5. pipe' = [helo |-> pipe.helo, reply |-> None] /\ pipe.helo = None
  BY <1>0, <1>1, <1>2 DEF AgreeInv, None
<1>7. CASE n >= THREAD_COUNT - 2 /\ snd' = [snd EXCEPT !.pc = "stuck", !.dying = TRUE] /\ tx' = tx
  <2>1. /\ snd' \in [pc : SndPcs, threads : Nat, block : Int, hash : {0, 2}, port : Nat, dying : BOOLEAN]
        /\ snd'.pc = "stuck" /\ snd'.threads = snd.threads /\ snd'.block = snd.block
        /\ snd'.hash = snd.hash /\ snd'.port = snd.port
    BY <1>0, <1>7 DEF Records, SndPcs, Ended
  <2>2. Records'  BY <1>0, <1>1, <1>7, <2>1, EndKept DEF Records
  <2>3. AgreeInv'
    BY <1>0, <1>1, <1>2, <1>4, <1>5, <2>1 DEF AgreeInv, Replied, None
  <2> QED  BY <1>1, <1>2, <1>7, <2>1, <2>2, <2>3 DEF FirstHalf, Replied, Meta
<1>8. CASE /\ n < THREAD_COUNT - 2
           /\ snd' = [snd EXCEPT !.pc = "spawn", !.threads = n,
                                 !.port = CHOOSE p \in pipe.reply : TRUE]
           /\ tx' = [c \in Conns |-> IF c <= n THEN "init" ELSE "none"]
  <2>0. (CHOOSE p \in pipe.reply : TRUE) = active_port  BY <1>2
  <2>a. n \in 1 .. MaxThreads
    BY <1>3, <1>8, StartAssumption
  <2> HIDE DEF n
  <2>1. /\ snd' \in [pc : SndPcs, threads : Nat, block : Int, hash : {0, 2}, port : Nat, dying : BOOLEAN]
        /\ snd'.pc = "spawn" /\ snd'.threads = n /\ snd'.block = snd.block
        /\ snd'.hash = snd.hash /\ snd'.port = active_port
    BY <1>0, <1>2, <1>3, <1>8, <2>0 DEF Records, SndPcs, Ended
  <2>b. tx' \in [Conns -> TxPcs]  BY <1>8 DEF TxPcs
  <2>2. Records'  BY <1>0, <1>1, <2>1, <2>b, EndKept DEF Records
  <2>3. Replied'  BY <1>2, <2>1 DEF Replied
  <2>4. snd'.threads = Max({1, rcv'.threads})  BY <1>1, <1>4, <2>1 DEF n
  <2>5. AgreeInv'
    BY <1>0, <1>1, <1>2, <1>4, <1>5, <2>1, <2>a, <2>3, <2>4 DEF AgreeInv, None
  <2> QED  BY <1>1, <1>2, <1>8, <2>1, <2>2, <2>3, <2>5, <2>a DEF FirstHalf, Meta
<1> QED  BY <1>7, <1>8 DEF GetReply

LEMMA ReadHeloFirst ==
    ASSUME FirstHalf, ReadHelo, UNCHANGED endVars
    PROVE  /\ FirstHalf' /\ ~Replied /\ snd' = snd /\ tx' = tx /\ rx' = rx
           /\ rcv.pc = "helo" /\ rcv'.pc = "port"
<1>0. Records /\ AgreeInv  BY DEF FirstHalf
<1>1. PICK h \in pipe.helo :
        /\ rcv' = [rcv EXCEPT !.pc = "port", !.threads = h.threads, !.block = h.block,
                              !.hash = h.hash, !.log = h.log]
        /\ rcvr' = [pc |-> "bind", tries |-> 0, i |-> 0,
                    port |-> Positive(h.port_start, DefaultPort)]
  BY DEF ReadHelo
<1>2. /\ rcv.pc = "helo" /\ snd' = snd /\ cmd' = cmd /\ env' = env /\ tx' = tx /\ rx' = rx
      /\ active_port' = active_port /\ pipe' = [pipe EXCEPT !.helo = None]
  BY DEF ReadHelo
<1>3. /\ h.block = snd.block /\ h.hash = snd.hash /\ h.threads = snd.threads
      /\ h.log \in BOOLEAN /\ h.port_start \in Nat /\ snd.block >= MinBlock
      /\ rcvr.pc = "none" /\ active_port = 0 /\ snd.pc # "args" /\ ~Replied
  BY <1>0, <1>1 DEF AgreeInv, None, Replied
<1>4. /\ rcv' \in [pc : RcvPcs, threads : Nat, block : Int, hash : {0, 2}, log : BOOLEAN,
                   dying : BOOLEAN]
      /\ rcv'.pc = "port" /\ rcv'.threads = snd.threads /\ rcv'.block = snd.block
      /\ rcv'.hash = snd.hash
  BY <1>0, <1>1, <1>3 DEF Records, RcvPcs
<1>5. Positive(h.port_start, DefaultPort) \in Nat  BY <1>3, StartAssumption DEF Positive
<1>6. /\ rcvr' \in [pc : {"none", "bind", "accept", "unbound", "returned", "stuck"},
                    port : Nat, tries : Nat, i : Nat]
      /\ rcvr'.pc = "bind" /\ rcvr'.tries = 0 /\ rcvr'.port \in Nat
  BY <1>1, <1>5
<1>7. Records'  BY <1>0, <1>2, <1>4, <1>6, EndKept DEF Records
<1>8. AgreeInv'
  <2>1. pipe = [helo |-> pipe.helo, reply |-> pipe.reply] /\ pipe.reply = None
    BY <1>0, <1>3 DEF AgreeInv
  <2>2. pipe' = [helo |-> None, reply |-> None]  BY <1>2, <2>1
  <2> QED  BY <1>0, <1>2, <1>3, <1>4, <1>6, <2>2 DEF AgreeInv, None, Replied
<1> QED  BY <1>2, <1>3, <1>4, <1>7, <1>8 DEF FirstHalf

\* bind(2).
LEMMA BindFirst ==
    ASSUME FirstHalf, Bind, UNCHANGED endVars
    PROVE  FirstHalf'
<1> DEFINE sin_port == rcvr.port % PortCount
<1>0. Records /\ AgreeInv  BY DEF FirstHalf
<1>1. /\ rcvr.pc = "bind" /\ cmd' = cmd /\ snd' = snd /\ rcv' = rcv /\ pipe' = pipe
      /\ env' = env /\ tx' = tx /\ rx' = rx
  BY DEF Bind
<1>2. active_port = 0 /\ pipe.reply = None /\ ~Replied /\ pipe.helo = None /\ rcv.pc # "helo"
  BY <1>0, <1>1 DEF AgreeInv, Replied, None
<1>3. rcvr.port \in Nat /\ rcvr.tries \in Nat /\ PortCount \in Nat \ {0}
  BY <1>0, StartAssumption DEF Records
<1>4. sin_port \in Nat  BY <1>3
<1>5. CASE rcvr' = [rcvr EXCEPT !.pc = "accept"] /\ active_port' = sin_port
  <2> HIDE DEF sin_port
  <2>1. /\ rcvr' \in [pc : {"none", "bind", "accept", "unbound", "returned", "stuck"},
                      port : Nat, tries : Nat, i : Nat]
        /\ rcvr'.pc = "accept"
    BY <1>0, <1>5 DEF Records
  <2>2. Records'  BY <1>0, <1>1, <1>4, <1>5, <2>1, EndKept DEF Records
  <2>3. AgreeInv'  BY <1>0, <1>1, <1>2, <2>1 DEF AgreeInv, Replied
  <2> QED  BY <2>2, <2>3 DEF FirstHalf
<1>6. CASE /\ rcvr' = [rcvr EXCEPT !.port = @ + 1, !.tries = @ + 1]
           /\ active_port' = active_port
  <2>1. /\ rcvr' \in [pc : {"none", "bind", "accept", "unbound", "returned", "stuck"},
                      port : Nat, tries : Nat, i : Nat]
        /\ rcvr'.pc = "bind"
    <3> DEFINE a == rcvr.port + 1
               b == rcvr.tries + 1
    <3>1. a \in Nat /\ b \in Nat  BY <1>3
    <3>2. rcvr' = [rcvr EXCEPT !.port = a, !.tries = b]  BY <1>6
    <3> HIDE DEF a, b
    <3> QED  BY <1>0, <1>1, <3>1, <3>2 DEF Records
  <2>2. Records'  BY <1>0, <1>1, <1>6, <2>1, EndKept DEF Records
  <2>3. AgreeInv'  BY <1>0, <1>1, <1>2, <1>6, <2>1 DEF AgreeInv, Replied
  <2> QED  BY <2>2, <2>3 DEF FirstHalf
<1>7. CASE rcvr' = [rcvr EXCEPT !.pc = "unbound"] /\ active_port' = active_port
  <2>1. /\ rcvr' \in [pc : {"none", "bind", "accept", "unbound", "returned", "stuck"},
                      port : Nat, tries : Nat, i : Nat]
        /\ rcvr'.pc = "unbound"
    BY <1>0, <1>7 DEF Records
  <2>2. Records'  BY <1>0, <1>1, <1>7, <2>1, EndKept DEF Records
  <2>3. AgreeInv'  BY <1>0, <1>1, <1>2, <1>7, <2>1 DEF AgreeInv, Replied
  <2> QED  BY <2>2, <2>3 DEF FirstHalf
<1> QED  BY <1>5, <1>6, <1>7 DEF Bind

LEMMA SendReplyFirst ==
    ASSUME FirstHalf, SendReply, UNCHANGED endVars
    PROVE  FirstHalf'
<1>0. Records /\ AgreeInv  BY DEF FirstHalf
<1>1. /\ rcv' = [rcv EXCEPT !.pc = "ready"] /\ rcv.pc = "port" /\ active_port # 0
      /\ cmd' = cmd /\ snd' = snd /\ env' = env /\ rcvr' = rcvr /\ tx' = tx /\ rx' = rx
      /\ active_port' = active_port /\ pipe' = [pipe EXCEPT !.reply = {active_port}]
  BY DEF SendReply, Reply, Some
<1>2. /\ rcv' \in [pc : RcvPcs, threads : Nat, block : Int, hash : {0, 2}, log : BOOLEAN,
                   dying : BOOLEAN]
      /\ rcv'.pc = "ready" /\ rcv'.threads = rcv.threads /\ rcv'.block = rcv.block
      /\ rcv'.hash = rcv.hash
  BY <1>0, <1>1 DEF Records, RcvPcs
<1>3. Records'  BY <1>0, <1>1, <1>2, EndKept DEF Records
<1>4. pipe' = [helo |-> pipe.helo, reply |-> {active_port}]
  <2>1. pipe = [helo |-> pipe.helo, reply |-> pipe.reply]  BY <1>0 DEF AgreeInv
  <2> QED  BY <1>1, <2>1
<1>5. AgreeInv'  BY <1>0, <1>1, <1>2, <1>4 DEF AgreeInv, Replied
<1> QED  BY <1>3, <1>5 DEF FirstHalf

\* rx_start goes on accepting, returns or gives up.
LEMMA AcceptFirst ==
    ASSUME FirstHalf, UNCHANGED endVars,
           (\E c \in Conns : Accept(c)) \/ AcceptTimeout
    PROVE  FirstHalf'
<1>0. Records /\ AgreeInv  BY DEF FirstHalf
<1>1. /\ rcvr' \in [pc : {"none", "bind", "accept", "unbound", "returned", "stuck"},
                    port : Nat, tries : Nat, i : Nat]
      /\ rcvr.pc = "accept" /\ rcvr'.pc \in {"accept", "returned", "stuck"}
      /\ rcvr'.port = rcvr.port /\ rcvr'.tries = rcvr.tries
      /\ cmd' = cmd /\ snd' = snd /\ env' = env /\ tx' = tx /\ pipe' = pipe
      /\ active_port' = active_port
  <2>1. CASE AcceptTimeout  BY <1>0, <2>1 DEF Records, AcceptTimeout
  <2>2. CASE \E c \in Conns : Accept(c)
    <3>1. PICK c \in Conns : Accept(c)  BY <2>2
    <3> DEFINE to == IF rcv.threads > 0 /\ rcvr.i + 1 > rcv.threads THEN "returned" ELSE "accept"
               j == rcvr.i + 1
    <3>2. /\ rcvr' = [rcvr EXCEPT !.i = j, !.pc = to] /\ to \in {"accept", "returned"}
          /\ j \in Nat
      BY <1>0, <3>1 DEF Accept, Records
    <3> HIDE DEF to, j
    <3>3. rcvr \in [pc : {"none", "bind", "accept", "unbound", "returned", "stuck"},
                    port : Nat, tries : Nat, i : Nat]
      BY <1>0 DEF Records
    <3>4. /\ rcvr' \in [pc : {"none", "bind", "accept", "unbound", "returned", "stuck"},
                        port : Nat, tries : Nat, i : Nat]
          /\ rcvr'.pc = to /\ rcvr'.port = rcvr.port /\ rcvr'.tries = rcvr.tries
      BY <3>2, <3>3
    <3> QED  BY <3>1, <3>2, <3>4 DEF Accept
  <2> QED  BY <2>1, <2>2
<1>2. rx' \in [Conns -> RxPcs]
  <2>1. CASE AcceptTimeout  BY <1>0, <2>1 DEF Records, AcceptTimeout
  <2>2. CASE \E c \in Conns : Accept(c)  BY <1>0, <2>2 DEF Records, Accept, RxPcs
  <2> QED  BY <2>1, <2>2
<1>3. RcvMoves  BY DEF RcvMoves, Accept, AcceptTimeout
<1>4. Records'  BY <1>0, <1>1, <1>2, <1>3, RcvMoved, EndKept DEF Records
<1>5. AgreeInv'
  <2>1. /\ rcv'.threads = rcv.threads /\ rcv'.block = rcv.block /\ rcv'.hash = rcv.hash
        /\ rcv.pc # "helo" /\ rcv'.pc # "helo"
    BY <1>0, <1>1, <1>3, RcvMoved DEF AgreeInv
  <2>2. Replied' <=> Replied  BY <1>1 DEF Replied
  <2> QED  BY <1>0, <1>1, <2>1, <2>2 DEF AgreeInv
<1> QED  BY <1>4, <1>5 DEF FirstHalf

-----------------------------------------------------------------------------
(* The start of a session: wires, confirmation, blocks and ring.           *)

\* A transmit worker that has not finished its block.
Fresh == {"init", "connect", "up", "keyed", "sending"}

\* What the other steps of the start may do.
StartMoves ==
    /\ SndMoves /\ RcvMoves
    /\ snd'.pc \in {snd.pc, "failed", "stuck", "returned"} \/ (snd.pc = "spawn" /\ snd'.pc = "run")
    /\ rcv'.pc \in {rcv.pc, "ready", "top", "stuck", "failed"}
    /\ tx' \in [Conns -> TxPcs] /\ rx' \in [Conns -> RxPcs]
    /\ \A c \in Conns : \/ tx'[c] = tx[c]
                        \/ tx[c] \in Fresh /\ tx'[c] \in Fresh \cup {"stuck"}
    /\ \A c \in Conns : \/ rx'[c] = rx[c]
                        \/ Replied /\ {rx[c], rx'[c]} \subseteq {"none", "key", "first", "stuck"}

QuietStart ==
    \/ ReplyLost \/ Spawned \/ RemoteFails \/ HeloLost \/ StartFailed \/ WaitReady
    \/ ReadyTimeout \/ Die \/ Kill
    \/ \E c \in Conns : TxInit(c) \/ TxConnect(c) \/ TxKey(c) \/ RxKey(c)

LEMMA MetaConn == ASSUME Records, AgreeInv, Replied PROVE Meta \in Conns /\ Meta \in Nat
  BY StartAssumption DEF AgreeInv, Meta, Conns

\* The types of the workers' program counters when one of them moves.
LEMMA WorkerMoves ==
    ASSUME Records, NEW c \in Conns
    PROVE  /\ \A x \in TxPcs : [tx EXCEPT ![c] = x] \in [Conns -> TxPcs]
           /\ \A x \in RxPcs : [rx EXCEPT ![c] = x] \in [Conns -> RxPcs]
           /\ tx \in [Conns -> TxPcs] /\ rx \in [Conns -> RxPcs]
  BY DEF Records

LEMMA QuietMoves ==
    ASSUME FirstHalf, WireInv, QuietStart
    PROVE  StartMoves /\ UNCHANGED <<cmd, pipe, env, rcvr, active_port>>
<1>0. Records  BY DEF FirstHalf
<1>1. snd \in [pc : SndPcs, threads : Nat, block : Int, hash : {0, 2}, port : Nat, dying : BOOLEAN]
      /\ rcv \in [pc : RcvPcs, threads : Nat, block : Int, hash : {0, 2}, log : BOOLEAN,
                  dying : BOOLEAN]
      /\ tx \in [Conns -> TxPcs] /\ rx \in [Conns -> RxPcs]
  BY <1>0 DEF Records
<1> USE DEF SndMoves, RcvMoves, StartMoves, Fresh
<1>2. CASE ReplyLost  BY <1>1, <1>2 DEF ReplyLost, SndPcs, Ended
<1>3. CASE Spawned  BY <1>1, <1>3 DEF Spawned, SndPcs
<1>4. CASE RemoteFails  BY <1>1, <1>4 DEF RemoteFails, RcvPcs, Ended, RcvAlive
<1>5. CASE HeloLost  BY <1>1, <1>5 DEF HeloLost, RcvPcs, Ended, RcvAlive
<1>6. CASE StartFailed  BY <1>1, <1>6 DEF StartFailed, RcvPcs, Ended
<1>7. CASE WaitReady  BY <1>1, <1>7 DEF WaitReady, RcvPcs, Ended, RcvAlive
<1>8. CASE ReadyTimeout  BY <1>1, <1>8 DEF ReadyTimeout, RcvPcs, Ended, RcvAlive
<1>9. CASE Die
  <2>1. CASE snd' = [snd EXCEPT !.pc = "failed"] /\ UNCHANGED rcv
    BY <1>1, <1>9, <2>1 DEF Die, SndPcs, Ended
  <2>2. CASE RcvAlive /\ rcv' = [rcv EXCEPT !.pc = "failed"] /\ UNCHANGED snd
    BY <1>1, <1>9, <2>2 DEF Die, RcvPcs, Ended
  <2> QED  BY <1>9, <2>1, <2>2 DEF Die
<1>10. CASE Kill
  <2>1. CASE snd' = [snd EXCEPT !.pc = "failed"] /\ UNCHANGED rcv
    BY <1>1, <1>10, <2>1 DEF Kill, SndPcs, Ended
  <2>2. CASE RcvAlive /\ rcv' = [rcv EXCEPT !.pc = "failed"] /\ UNCHANGED snd
    BY <1>1, <1>10, <2>2 DEF Kill, RcvPcs, Ended
  <2> QED  BY <1>10, <2>1, <2>2 DEF Kill
<1>11. CASE \E c \in Conns : TxInit(c) \/ TxConnect(c) \/ TxKey(c) \/ RxKey(c)
  <2> PICK c \in Conns : TxInit(c) \/ TxConnect(c) \/ TxKey(c) \/ RxKey(c)  BY <1>11
  <2>1. CASE TxInit(c)  BY <1>1, <2>1 DEF TxInit, TxPcs
  <2>2. CASE TxKey(c)  BY <1>1, <2>2 DEF TxKey, TxPcs
  <2>3. CASE TxConnect(c)
    <3>1. CASE tx' = [tx EXCEPT ![c] = "up"] /\ UNCHANGED snd
      BY <1>1, <2>3, <3>1 DEF TxConnect, TxConnectOr, TxPcs
    <3>2. CASE tx' = [tx EXCEPT ![c] = "stuck"] /\ snd' = [snd EXCEPT !.dying = @ \/ TRUE]
      <4>1. snd' = [snd EXCEPT !.dying = TRUE]  BY <3>2
      <4> QED  BY <1>1, <2>3, <3>2, <4>1 DEF TxConnect, TxConnectOr, TxPcs
    <3> QED  BY <2>3, <3>1, <3>2 DEF TxConnect, TxConnectOr
  <2>4. CASE RxKey(c)
    <3>0. Replied  BY <2>4 DEF RxKey, WireInv
    <3>1. CASE rx' = [rx EXCEPT ![c] = "first"] /\ UNCHANGED rcv
      BY <1>1, <2>4, <3>0, <3>1 DEF RxKey, RxPcs
    <3>2. CASE rx' = [rx EXCEPT ![c] = "stuck"] /\ rcv' = [rcv EXCEPT !.dying = TRUE]
      BY <1>1, <2>4, <3>0, <3>2 DEF RxKey, RxPcs
    <3> QED  BY <2>4, <3>1, <3>2 DEF RxKey
  <2> QED  BY <2>1, <2>2, <2>3, <2>4
<1> QED
  BY <1>2, <1>3, <1>4, <1>5, <1>6, <1>7, <1>8, <1>9, <1>10, <1>11 DEF QuietStart

LEMMA OtherMoves ==
    ASSUME FirstHalf, WireInv,
           BadCommand \/ Bind \/ SendReply \/ AcceptTimeout \/ \E c \in Conns : Accept(c)
    PROVE  StartMoves
<1>0. Records  BY DEF FirstHalf
<1>1. snd \in [pc : SndPcs, threads : Nat, block : Int, hash : {0, 2}, port : Nat, dying : BOOLEAN]
      /\ rcv \in [pc : RcvPcs, threads : Nat, block : Int, hash : {0, 2}, log : BOOLEAN,
                  dying : BOOLEAN]
      /\ tx \in [Conns -> TxPcs] /\ rx \in [Conns -> RxPcs]
  BY <1>0 DEF Records
<1> USE DEF SndMoves, RcvMoves, StartMoves, Fresh
<1>2. CASE BadCommand  BY <1>1, <1>2 DEF BadCommand, SndPcs, Ended
<1>3. CASE Bind  BY <1>1, <1>3 DEF Bind
<1>4. CASE SendReply  BY <1>1, <1>4 DEF SendReply, Reply, RcvPcs, Ended, RcvAlive
<1>5. CASE AcceptTimeout  BY <1>1, <1>5 DEF AcceptTimeout
<1>6. CASE \E c \in Conns : Accept(c)
  <2> PICK c \in Conns : Accept(c)  BY <1>6
  <2>1. Replied  BY DEF Accept, Backlog, WireInv
  <2> QED  BY <1>1, <2>1 DEF Accept, Backlog, RxPcs
<1> QED  BY <1>2, <1>3, <1>4, <1>5, <1>6

\* A step that leaves wires, blocks and ring alone, whatever else it does.
Calm ==
    /\ SndMoves /\ RcvMoves /\ Unsaid' <= Unsaid
    /\ UNCHANGED <<wire, knob, metahead, written, threads_finished>>
    /\ \A c \in Conns : \/ tx'[c] = tx[c]
                        \/ tx[c] \in Fresh /\ tx'[c] \in Fresh \cup {"stuck"}
    /\ \A c \in Conns : \/ rx'[c] = rx[c]
                        \/ Replied /\ {rx[c], rx'[c]} \subseteq {"none", "key", "first", "recv", "stuck"}
    /\ main'.closed => written = Blocks /\ rcv.pc # "helo"
    /\ metatail' \in 0 .. Lines
    /\ rcv'.pc = "read" =>
          main'.ptr[1] \in Conns /\ main'.ptr[2] = metatail' /\ metatail' < Lines

LEMMA UnsaidType == Unsaid \in 0 .. 3 /\ Unsaid' \in 0 .. 3
  BY DEF Unsaid

LEMMA StartCalm ==
    ASSUME FirstHalf, SecondHalf, StartMoves, UNCHANGED endVars
    PROVE  Calm
<1>1. /\ wire' = wire /\ knob' = knob /\ metahead' = metahead /\ written' = written
      /\ threads_finished' = threads_finished /\ main' = main /\ metatail' = metatail
  BY EndKept
<1>2. Unsaid' <= Unsaid  BY DEF Unsaid, StartMoves
<1>3. rcv'.pc = "read" => rcv.pc = "read"  BY DEF StartMoves
<1>4. /\ main.closed => written = Blocks /\ rcv.pc # "helo"
      /\ metatail \in 0 .. Lines
      /\ rcv.pc = "read" => main.ptr[1] \in Conns /\ main.ptr[2] = metatail /\ metatail < Lines
  BY DEF SecondHalf, CountInv, RingInv
<1> QED  BY <1>1, <1>2, <1>3, <1>4 DEF Calm, StartMoves

LEMMA StartConfirm ==
    ASSUME FirstHalf, SecondHalf, StartMoves, UNCHANGED endVars
    PROVE  ConfirmInv'
<1>1. main' = main /\ wire' = wire /\ back' = back /\ buf' = buf /\ txdone' = txdone
  BY EndKept
<1>2. Forward' = Forward /\ Backward' = Backward /\ (Confirmed' <=> Confirmed)
  BY <1>1 DEF Forward, Backward, Confirmed
<1>3. /\ snd'.pc \in {"complete", "flag", "ack", "join", "done"} => snd'.pc = snd.pc
      /\ rcv'.pc \in {"finish", "join", "done"} => rcv'.pc = rcv.pc
  BY DEF StartMoves
<1> QED  BY <1>1, <1>2, <1>3 DEF SecondHalf, ConfirmInv

\* The messages the ring can still get, as a sum of numbers.
Unheard == {c \in Data : rx[c] \notin {"finish", "ended"}}
Storing == IF rx[Meta] = "store" THEN 1 ELSE 0

LeftSum ==
    /\ Cardinality(Unheard) \in Nat /\ Unsaid \in 0 .. 3 /\ Len(wire[Meta]) \in Nat
    /\ Storing \in {0, 1}
    /\ Left = Cardinality(Unheard) + Unsaid + Len(wire[Meta]) + Storing
    /\ Left \in Nat

LEMMA LeftTerms == Records /\ AgreeInv /\ WireInv /\ Replied => LeftSum
<1> SUFFICES ASSUME Records, AgreeInv, WireInv, Replied PROVE LeftSum  OBVIOUS
<1>1. Cardinality(Unheard) \in Nat  BY SomeConns DEF Data, Unheard
<1>2. Len(wire[Meta]) \in Nat  BY DEF WireInv
<1>3. Unsaid \in 0 .. 3 /\ Storing \in {0, 1}  BY DEF Unsaid, Storing
<1>4. Left = Cardinality(Unheard) + Unsaid + Len(wire[Meta]) + Storing
  BY DEF Left, Unheard, Storing
<1> DEFINE a == Cardinality(Unheard)
           l == Len(wire[Meta])
<1> HIDE DEF a, l
<1>5. Left \in Nat  BY <1>1, <1>2, <1>3, <1>4 DEF a, l
<1> QED  BY <1>1, <1>2, <1>3, <1>4, <1>5 DEF LeftSum

LEMMA LeftTermsNext == Records' /\ AgreeInv' /\ WireInv' /\ Replied' => LeftSum'
  BY LeftTerms, PTL

\* There is room in the ring as long as no worker loads a new head and no
\* message is added.
LEMMA RoomKept ==
    ASSUME Records, RingInv, Replied, RcvAlive, Left \in Int, Left' \in Int, Left' <= Left,
           metahead' = metahead, knob' = knob,
           \A c \in Conns : rx'[c] \in {"write", "store"} => rx[c] \in {"write", "store"}
    PROVE  /\ metahead' + Left' <= Lines
           /\ \A c \in Conns : rx'[c] \in {"write", "store"} => knob'[c].h + Left' <= Lines
<1> DEFINE r == Left'
<1>1. /\ metahead + Left <= Lines /\ metahead \in Int /\ Lines \in Int
      /\ \A c \in Conns : rx'[c] \in {"write", "store"} => knob[c].h + Left <= Lines
  BY EndAssumption DEF RingInv
<1>2. r <= Left /\ r \in Int  OBVIOUS
<1> HIDE DEF r
<1>3. metahead + r <= Lines  BY <1>1, <1>2
<1>4. ASSUME NEW c \in Conns, rx'[c] \in {"write", "store"} PROVE knob[c].h + r <= Lines
  <2>1. knob[c].h \in Nat /\ knob[c].h + Left <= Lines  BY <1>1, <1>4 DEF Records
  <2> QED  BY <1>1, <1>2, <2>1
<1> QED  BY <1>3, <1>4 DEF r

LEMMA CalmKeeps ==
    ASSUME FirstHalf, WireInv, CountInv, RingInv, FirstHalf', Calm
    PROVE  WireInv' /\ CountInv' /\ RingInv'
<1>0. Records /\ AgreeInv /\ Records' /\ AgreeInv'  BY DEF FirstHalf
<1>1. /\ (Replied' <=> Replied) /\ Meta' = Meta /\ Data' = Data
      /\ snd'.threads = snd.threads
      /\ (RcvAlive' => RcvAlive) /\ Blocks' = Blocks
      /\ rcv'.pc = "helo" => rcv.pc = "helo"
  BY <1>0, SndMoved, RcvMoved DEF Calm
<1>2. \A c \in Conns :
        /\ tx'[c] \in {"none", "sent", "ended"} \/ tx[c] \in {"none", "sent", "ended", "stuck"} =>
              tx'[c] = tx[c]
        /\ rx'[c] \notin {"none", "key", "first", "recv", "stuck"}
           \/ rx[c] \notin {"none", "key", "first", "recv", "stuck"} => rx'[c] = rx[c]
        /\ ~Replied => rx'[c] = rx[c]
  BY DEF Calm, Fresh
<1>3. \A c \in Data : c \in Conns  BY DEF Data
<1>a. /\ wire' = wire /\ knob' = knob /\ metahead' = metahead /\ written' = written
      /\ threads_finished' = threads_finished
  BY DEF Calm
<1>4. WireInv'
  <2>2. Replied => Meta \in Conns  BY <1>0, MetaConn
  <2>3. /\ wire' = [c \in Conns |-> wire'[c]]
        /\ ~Replied' => \A c \in Conns : wire'[c] = << >> /\ tx'[c] = "none" /\ rx'[c] = "none"
        /\ \A c \in Conns : tx'[c] # "none" => c <= snd'.threads
    BY <1>1, <1>2, <1>a DEF WireInv
  <2>4. \A c \in Data :
          /\ tx'[c] \notin {"sent", "ended"} => wire[c] = << >> \/ (tx'[c] = "stuck" /\ ~RcvAlive)
          /\ tx'[c] = "sent" => wire[c] \in {<<DATA>>, << >>}
          /\ tx'[c] = "ended" => wire[c] \in {<<DATA, BYE>>, <<BYE>>, << >>}
          /\ rx'[c] \in {"memset", "load", "write"} => wire[c] = <<BYE>>
          /\ rx'[c] \in {"write", "store"} => knob[c].bye
    BY <1>2, <1>3 DEF WireInv
  <2>5. Replied =>
          /\ wire[Meta] \in Seq({SPEC, COUNT, COMPLETE, BYE})
          /\ rx'[Meta] \in {"memset", "load", "write"} => wire[Meta] # << >>
          /\ tx'[Meta] \in {"sent", "ended"} => ~RcvAlive'
    BY <1>1, <1>2, <2>2 DEF WireInv
  <2> QED  BY <1>1, <1>a, <2>3, <2>4, <2>5 DEF WireInv
<1>5. CountInv'
  <2>1. Arrived' = Arrived  BY <1>1, <1>2, <1>3, <1>a DEF Arrived
  <2>2. {c \in Conns : rx[c] = "ended"}' = {c \in Conns : rx[c] = "ended"}  BY <1>2
  <2>3. main'.closed => written' = Blocks' /\ rcv'.pc # "helo"  BY <1>1, <1>a DEF Calm
  <2> QED  BY <1>1, <1>a, <2>1, <2>2, <2>3 DEF CountInv
<1>6. RingInv'
  <2>1. ASSUME Replied', RcvAlive'
        PROVE  /\ metahead' + Left' <= Lines
               /\ \A c \in Conns : rx'[c] \in {"write", "store"} => knob'[c].h + Left' <= Lines
    <3>1. Replied /\ RcvAlive /\ Meta \in Conns  BY <1>0, <1>1, <2>1, MetaConn
    <3>2. Unheard' = Unheard  BY <1>1, <1>2, <1>3 DEF Unheard
    <3>3. Storing' = Storing  BY <1>1, <1>2, <3>1 DEF Storing
    <3>4. Len(wire[Meta])' = Len(wire[Meta])  BY <1>1, <1>a
    <3> DEFINE a == Cardinality(Unheard)
               l == Len(wire[Meta])
               u == Unsaid'
               r == Left'
    <3>5. /\ a \in Nat /\ l \in Nat /\ Storing \in {0, 1} /\ Unsaid \in 0 .. 3
          /\ Left = a + Unsaid + l + Storing /\ Left \in Nat
      BY <1>0, <3>1, LeftTerms DEF LeftSum
    <3>6. u \in 0 .. 3 /\ r = a + u + l + Storing /\ r \in Nat /\ u <= Unsaid
      BY <1>0, <1>4, <2>1, <3>2, <3>3, <3>4, LeftTermsNext DEF Calm, LeftSum
    <3> HIDE DEF a, l, u, r
    <3>7. r <= Left /\ r \in Int /\ Left \in Int  BY <3>5, <3>6
    <3>8. Left' <= Left /\ Left' \in Int  BY <3>7 DEF r
    <3> QED  BY <1>0, <1>2, <1>a, <3>1, <3>7, <3>8, RoomKept
  <2>2. /\ metahead' \in 0 .. Lines /\ metatail' \in 0 .. Lines
        /\ ~Replied' => metahead' = 0
        /\ rcv'.pc = "read" =>
              main'.ptr[1] \in Conns /\ main'.ptr[2] = metatail' /\ metatail' < Lines
    BY <1>1, <1>a DEF Calm, RingInv
  <2> QED  BY <2>1, <2>2 DEF RingInv
<1> QED  BY <1>4, <1>5, <1>6

\* The start, all of the invariant.
LEMMA QuietFirst ==
    ASSUME FirstHalf, WireInv, QuietStart, UNCHANGED endVars
    PROVE  FirstHalf'
<1>0. Records /\ AgreeInv  BY DEF FirstHalf
<1>1. StartMoves /\ UNCHANGED <<cmd, pipe, env, rcvr, active_port>>  BY QuietMoves
<1>2. AgreeInv'  BY <1>0, <1>1, AgreeKept DEF StartMoves
<1>3. /\ snd' \in [pc : SndPcs, threads : Nat, block : Int, hash : {0, 2}, port : Nat, dying : BOOLEAN]
      /\ rcv' \in [pc : RcvPcs, threads : Nat, block : Int, hash : {0, 2}, log : BOOLEAN,
                   dying : BOOLEAN]
      /\ tx' \in [Conns -> TxPcs] /\ rx' \in [Conns -> RxPcs]
  BY <1>0, <1>1, SndMoved, RcvMoved DEF StartMoves
<1>4. Records'  BY <1>0, <1>1, <1>3, EndKept DEF Records
<1> QED  BY <1>2, <1>4 DEF FirstHalf

\* ConfirmInv looks at the main threads only.
LEMMA ConfirmKept ==
    ASSUME ConfirmInv, UNCHANGED endVars,
           snd'.pc \in {"complete", "flag", "ack", "join", "done"} => snd'.pc = snd.pc,
           rcv'.pc \in {"finish", "join", "done"} => rcv'.pc = rcv.pc
    PROVE  ConfirmInv'
<1>1. main' = main /\ wire' = wire /\ back' = back /\ buf' = buf /\ txdone' = txdone
  BY EndKept
<1>2. Forward' = Forward /\ Backward' = Backward /\ (Confirmed' <=> Confirmed)
  BY <1>1 DEF Forward, Backward, Confirmed
<1> QED  BY <1>1, <1>2 DEF ConfirmInv

\* A step before the answer, in which no worker moves.
LEMMA EarlyStep ==
    ASSUME SecondHalf, UNCHANGED endVars, ~Replied, ~Replied', tx' = tx, rx' = rx,
           snd'.pc \notin {"complete", "flag", "ack", "join", "done"},
           rcv'.pc \notin {"read", "finish", "join", "done"} \/ rcv' = rcv,
           main.closed => rcv' = rcv, RcvAlive' => RcvAlive
    PROVE  SecondHalf'
<1>0. WireInv /\ ConfirmInv /\ CountInv /\ RingInv  BY DEF SecondHalf
<1>1. /\ main' = main /\ wire' = wire /\ metahead' = metahead /\ metatail' = metatail
      /\ written' = written /\ threads_finished' = threads_finished /\ knob' = knob
  BY EndKept
<1>2. \A c \in Conns : wire[c] = << >> /\ tx[c] = "none" /\ rx[c] = "none"
  BY <1>0 DEF WireInv
<1>3. WireInv'  BY <1>0, <1>1, <1>2 DEF WireInv, Data
<1>4. ConfirmInv'  BY <1>0, ConfirmKept
<1>5. CountInv'
  <2>1. Arrived = {} /\ Arrived' = {}  BY <1>2 DEF Arrived, Data
  <2>2. main'.closed => written' = Blocks' /\ rcv'.pc # "helo"
    BY <1>0, <1>1 DEF CountInv, Blocks
  <2> QED  BY <1>0, <1>1, <2>1, <2>2 DEF CountInv
<1>6. RingInv'  BY <1>0, <1>1 DEF RingInv
<1> QED  BY <1>3, <1>4, <1>5, <1>6 DEF SecondHalf

LEMMA AnsweredStep ==
    ASSUME Records, FirstHalf', SecondHalf, UNCHANGED endVars, ~Replied, Replied',
           rcv' = rcv, rx' = rx, snd'.pc = "spawn", Meta' \in 1 .. MaxThreads,
           tx' = [c \in Conns |-> IF c <= Meta' THEN "init" ELSE "none"]
    PROVE  SecondHalf'
<1>0. WireInv /\ ConfirmInv /\ CountInv /\ RingInv  BY DEF SecondHalf
<1>1. /\ main' = main /\ wire' = wire /\ metahead' = metahead /\ metatail' = metatail
      /\ written' = written /\ threads_finished' = threads_finished /\ knob' = knob
  BY EndKept
<1>2. /\ \A c \in Conns : wire[c] = << >> /\ tx[c] = "none" /\ rx[c] = "none"
      /\ wire = [c \in Conns |-> wire[c]]
  BY <1>0 DEF WireInv
<1>3. Meta' \in Conns  BY StartAssumption DEF Conns
<1>4. WireInv'
  <2>1. \A c \in Conns : tx'[c] # "none" => c <= snd'.threads  BY DEF Meta
  <2>2. wire'[Meta'] = << >> /\ rx'[Meta'] = "none" /\ tx'[Meta'] = "init"
    BY <1>1, <1>2, <1>3, StartAssumption
  <2>3. \A c \in Data' : wire'[c] = << >> /\ rx'[c] = "none" /\ tx'[c] \in {"init", "none"}
    BY <1>1, <1>2 DEF Data
  <2>4. wire'[Meta'] \in Seq({SPEC, COUNT, COMPLETE, BYE})  BY <2>2
  <2>5. wire' = [c \in Conns |-> wire'[c]]  BY <1>1, <1>2
  <2> QED  BY <2>1, <2>2, <2>3, <2>4, <2>5 DEF WireInv
<1>5. ConfirmInv'  BY <1>0, ConfirmKept
<1>6. CountInv'
  <2>1. Arrived = {}  BY <1>2 DEF Arrived, Data
  <2>2. Arrived' = {}  BY DEF Arrived, Data
  <2>3. main'.closed => written' = Blocks' /\ rcv'.pc # "helo"
    BY <1>0, <1>1 DEF CountInv, Blocks
  <2> QED  BY <1>0, <1>1, <2>1, <2>2, <2>3 DEF CountInv, RcvAlive
<1>7. RingInv'
  <2>1. Unheard' = Conns \ {Meta'}  BY <1>2 DEF Unheard, Data
  <2>2. Cardinality(Unheard') = (MaxThreads + 1) - 1
    BY <1>3, <2>1, ConnsFinite, FS_RemoveElement
  <2>3. Unsaid' = 3 /\ Len(wire[Meta])' = 0 /\ Storing' = 0
    BY <1>1, <1>2, <1>3 DEF Unsaid, Storing
  <2> DEFINE r == Left'
             k == Cardinality(Unheard')
             u == Unsaid'
             l == Len(wire[Meta])'
             s == Storing'
  <2>4. r = k + u + l + s  BY <1>4, LeftTermsNext DEF FirstHalf, LeftSum
  <2>5. k = (MaxThreads + 1) - 1 /\ u = 3 /\ l = 0 /\ s = 0  BY <2>2, <2>3
  <2> HIDE DEF r, k, u, l, s
  <2>6. r = MaxThreads + 3  BY <2>4, <2>5, StartAssumption
  <2>7. 0 + r <= Lines /\ r <= Lines  BY <2>6, EndAssumption, StartAssumption
  <2>8. metahead = 0 /\ metatail \in 0 .. Lines /\ 0 \in 0 .. Lines
    BY <1>0, EndAssumption DEF RingInv
  <2>9. \A c \in Conns : rx'[c] = "none"  BY <1>2
  <2> QED  BY <1>0, <1>1, <2>7, <2>8, <2>9 DEF RingInv, r
<1> QED  BY <1>4, <1>5, <1>6, <1>7 DEF SecondHalf

LEMMA StartStep ==
    ASSUME IInv, StartNext, UNCHANGED endVars
    PROVE  IInv'
<1>0. FirstHalf /\ SecondHalf  BY DEF IInv, FirstHalf, SecondHalf
<1>1. SUFFICES FirstHalf' /\ SecondHalf'  BY DEF IInv, FirstHalf, SecondHalf
<1>2. CASE SendHelo
  <2>1. FirstHalf' /\ ~Replied /\ ~Replied' /\ snd'.pc = "reply"
    BY <1>0, <1>2, SendHeloFirst
  <2> QED  BY <1>0, <1>2, <2>1, EarlyStep DEF SendHelo, RcvAlive
<1>3. CASE GetReply
  <2>1. /\ FirstHalf' /\ ~Replied /\ rcv' = rcv /\ rx' = rx
        /\ \/ snd'.pc = "stuck" /\ tx' = tx /\ ~Replied' /\ Meta' = Meta
           \/ /\ snd'.pc = "spawn" /\ Replied' /\ Meta' \in 1 .. MaxThreads
              /\ tx' = [c \in Conns |-> IF c <= Meta' THEN "init" ELSE "none"]
    BY <1>0, <1>3, GetReplyFirst
  <2>2. CASE snd'.pc = "stuck" /\ tx' = tx /\ ~Replied' /\ Meta' = Meta
    BY <1>0, <2>1, <2>2, EarlyStep DEF RcvAlive
  <2>3. CASE /\ snd'.pc = "spawn" /\ Replied' /\ Meta' \in 1 .. MaxThreads
             /\ tx' = [c \in Conns |-> IF c <= Meta' THEN "init" ELSE "none"]
    BY <1>0, <2>1, <2>3, AnsweredStep DEF FirstHalf
  <2> QED  BY <2>1, <2>2, <2>3
<1>4. CASE ReadHelo
  <2>1. /\ FirstHalf' /\ ~Replied /\ snd' = snd /\ tx' = tx /\ rx' = rx
        /\ rcv.pc = "helo" /\ rcv'.pc = "port"
    BY <1>0, <1>4, ReadHeloFirst
  <2>2. ~Replied' /\ ~main.closed  BY <1>0, <2>1 DEF Replied, SecondHalf, CountInv
  <2>3. snd.pc \notin {"complete", "flag", "ack", "join", "done"}
    BY <1>0, <2>2 DEF SecondHalf, ConfirmInv, Confirmed
  <2>4. RcvAlive  BY <2>1 DEF RcvAlive, Ended
  <2> QED  BY <1>0, <2>1, <2>2, <2>3, <2>4, EarlyStep
<1>5. CASE QuietStart \/ BadCommand \/ Bind \/ SendReply \/ AcceptTimeout
           \/ \E c \in Conns : Accept(c)
  <2>0. WireInv /\ CountInv /\ RingInv  BY <1>0 DEF SecondHalf
  <2>1. StartMoves  BY <1>0, <1>5, <2>0, QuietMoves, OtherMoves
  <2>2. FirstHalf'
    BY <1>0, <1>5, <2>0, QuietFirst, BadCommandFirst, BindFirst, SendReplyFirst, AcceptFirst
  <2>3. Calm /\ ConfirmInv'  BY <1>0, <2>1, StartCalm, StartConfirm
  <2>4. WireInv' /\ CountInv' /\ RingInv'  BY <1>0, <2>0, <2>2, <2>3, CalmKeeps
  <2> QED  BY <2>2, <2>3, <2>4 DEF SecondHalf
<1> QED
  BY <1>2, <1>3, <1>4, <1>5
  DEF StartNext, StartSender, StartReceiver, StartRcvr, Timeout, QuietStart

-----------------------------------------------------------------------------
(* The rest of a session.                                                  *)

\* What the program counters are, so that a step to one of them is a move.
LEMMA SenderMoves ==
    ASSUME NEW x \in SndPcs \ {"args", "reply"},
           SndTo(x) \/ snd' = [snd EXCEPT !.pc = x, !.dying = TRUE],
           x \in {"failed", "stuck", "returned"} \/ snd.pc \notin {"args", "reply", "failed", "stuck", "returned"}
    PROVE  SndMoves
  BY DEF SndTo, SndMoves

LEMMA SndPcMoved ==
    ASSUME Records, NEW x \in SndPcs, SndTo(x) \/ snd' = [snd EXCEPT !.pc = x, !.dying = TRUE]
    PROVE  snd'.pc = x
  BY DEF Records, SndTo

LEMMA RcvPcMoved ==
    ASSUME Records, NEW x \in RcvPcs, RcvTo(x) \/ rcv' = [rcv EXCEPT !.pc = x, !.dying = TRUE]
    PROVE  rcv'.pc = x
  BY DEF Records, RcvTo

LEMMA ReceiverMoves ==
    ASSUME NEW x \in RcvPcs \ {"helo"}, RcvAlive,
           RcvTo(x) \/ rcv' = [rcv EXCEPT !.pc = x, !.dying = TRUE]
    PROVE  RcvMoves
  BY DEF RcvTo, RcvMoves

\* Types, arguments and ports at the end of the session.
LEMMA EndFirst ==
    ASSUME FirstHalf, SndMoves, RcvMoves, UNCHANGED setup,
           tx' \in [Conns -> TxPcs], rx' \in [Conns -> RxPcs],
           main' \in [ptr : Nat \X Nat, opened : BOOLEAN, counted : BOOLEAN, closed : BOOLEAN, stat : BOOLEAN,
                      complete : BOOLEAN, keeps : Nat, told : BOOLEAN],
           metabuf' \in Conns, knob' \in [Conns -> [h : Nat, buf : Conns, bye : BOOLEAN]]
    PROVE  FirstHalf'
<1>0. Records /\ AgreeInv  BY DEF FirstHalf
<1>1. UNCHANGED <<cmd, pipe, env, rcvr, active_port>>  BY DEF setup
<1>2. AgreeInv'  BY <1>0, <1>1, AgreeKept
<1>3. /\ snd' \in [pc : SndPcs, threads : Nat, block : Int, hash : {0, 2}, port : Nat, dying : BOOLEAN]
      /\ rcv' \in [pc : RcvPcs, threads : Nat, block : Int, hash : {0, 2}, log : BOOLEAN,
                   dying : BOOLEAN]
  BY <1>0, SndMoved, RcvMoved
<1>4. Records'  BY <1>0, <1>1, <1>3 DEF Records
<1> QED  BY <1>2, <1>4 DEF FirstHalf

\* What has been sent may still have been sent.
LEMMA ConfirmGrows ==
    ASSUME Confirmed => Confirmed'
    PROVE  Forward \subseteq Forward' /\ Backward \subseteq Backward'
  BY DEF Forward, Backward

LEMMA ConfirmStays ==
    ASSUME ConfirmInv, Confirmed => Confirmed', wire' = wire, buf' = buf,
           back' \in Seq(Backward'), main'.stat => main'.closed,
           txdone' \/ main'.complete => Confirmed',
           snd'.pc \in {"complete", "flag", "ack", "join", "done"} => Confirmed',
           rcv'.pc \in {"finish", "join", "done"} => Confirmed'
    PROVE  ConfirmInv'
<1>1. Forward \subseteq Forward'  BY ConfirmGrows
<1>2. \A c \in Conns : wire'[c] \in Seq(Forward')  BY <1>1, SeqMonotone DEF ConfirmInv
<1>3. (Forward \cup {ZERO}) \ {DATA} \subseteq (Forward' \cup {ZERO}) \ {DATA}  BY <1>1
<1>4. buf' \in [Conns -> [0 .. Lines -> (Forward' \cup {ZERO}) \ {DATA}]]
  <2>1. buf \in [Conns -> [0 .. Lines -> (Forward \cup {ZERO}) \ {DATA}]]  BY DEF ConfirmInv
  <2> DEFINE A == (Forward \cup {ZERO}) \ {DATA}
             B == (Forward' \cup {ZERO}) \ {DATA}
  <2> HIDE DEF A, B
  <2>2. A \subseteq B /\ buf \in [Conns -> [0 .. Lines -> A]]  BY <1>3, <2>1 DEF A, B
  <2>3. buf \in [Conns -> [0 .. Lines -> B]]  BY <2>2
  <2> QED  BY <2>3 DEF B
<1> QED  BY <1>2, <1>4 DEF ConfirmInv

\* A calm step at the end of the session.
LEMMA CalmStep ==
    ASSUME IInv, Calm, UNCHANGED setup, tx' \in [Conns -> TxPcs], rx' \in [Conns -> RxPcs],
           metabuf' = metabuf,
           main' \in [ptr : Nat \X Nat, opened : BOOLEAN, counted : BOOLEAN, closed : BOOLEAN, stat : BOOLEAN,
                      complete : BOOLEAN, keeps : Nat, told : BOOLEAN],
           ConfirmInv'
    PROVE  IInv'
<1>0. FirstHalf /\ WireInv /\ CountInv /\ RingInv  BY DEF IInv, FirstHalf
<1>1. FirstHalf'
  <2>1. knob' = knob /\ SndMoves /\ RcvMoves  BY DEF Calm
  <2>2. metabuf \in Conns
        /\ knob \in [Conns -> [h : Nat, buf : Conns, bye : BOOLEAN]]
    BY <1>0 DEF FirstHalf, Records
  <2> QED  BY <1>0, <2>1, <2>2, EndFirst
<1>2. WireInv' /\ CountInv' /\ RingInv'  BY <1>0, <1>1, CalmKeeps
<1> QED  BY <1>1, <1>2 DEF IInv, FirstHalf

\* The sender's main thread.
LEMMA SenderKeeps ==
    ASSUME BySender
    PROVE  /\ UNCHANGED setup /\ rcv' = rcv /\ tx' = tx /\ rx' = rx /\ metabuf' = metabuf
           /\ buf' = buf /\ metahead' = metahead /\ knob' = knob /\ metatail' = metatail
           /\ main' = main /\ written' = written /\ threads_finished' = threads_finished
  BY DEF BySender, ringVars, mainVars, setup

LEMMA SenderCalm ==
    ASSUME IInv, BySender, SndMoves, wire' = wire, Unsaid' <= Unsaid,
           snd'.pc \in {"complete", "flag", "ack", "join", "done"} \/ txdone' => Confirmed,
           back' = back \/ (back # << >> /\ back' = Tail(back))
    PROVE  IInv'
<1>0. Records /\ ConfirmInv /\ CountInv /\ RingInv  BY DEF IInv
<1>1. /\ UNCHANGED setup /\ rcv' = rcv /\ tx' = tx /\ rx' = rx /\ metabuf' = metabuf
      /\ buf' = buf /\ metahead' = metahead /\ knob' = knob /\ metatail' = metatail
      /\ main' = main /\ written' = written /\ threads_finished' = threads_finished
  BY SenderKeeps
<1>2. Calm
  <2>1. RcvMoves  BY <1>1 DEF RcvMoves
  <2> QED  BY <1>0, <1>1, <2>1 DEF Calm, CountInv, RingInv
<1>3. ConfirmInv'
  <2>1. Confirmed' <=> Confirmed  BY <1>1 DEF Confirmed
  <2>2. Backward' = Backward  BY <2>1 DEF Backward
  <2>3. back' \in Seq(Backward)
    <3>1. back \in Seq(Backward)  BY <1>0 DEF ConfirmInv
    <3> QED  BY <3>1, Shorter
  <2> QED  BY <1>0, <1>1, <2>1, <2>2, <2>3, ConfirmStays DEF ConfirmInv
<1>4. rx' \in [Conns -> RxPcs] /\ tx' \in [Conns -> TxPcs] /\ metabuf' = metabuf
      /\ main' \in [ptr : Nat \X Nat, opened : BOOLEAN, counted : BOOLEAN, closed : BOOLEAN, stat : BOOLEAN,
                    complete : BOOLEAN, keeps : Nat, told : BOOLEAN]
  BY <1>0, <1>1 DEF Records
<1> QED  BY <1>1, <1>2, <1>3, <1>4, CalmStep

LEMMA SenderStep ==
    ASSUME IInv, NothingToTransfer \/ Check \/ CompleteTransfer \/ Acknowledged \/ FinishSender
    PROVE  IInv'
<1>0. Records /\ ConfirmInv  BY DEF IInv
<1>1. CASE NothingToTransfer
  <2>1. SndTo("failed") /\ "failed" \in SndPcs  BY <1>1 DEF NothingToTransfer, SndPcs, Ended
  <2>2. SndMoves /\ snd'.pc = "failed"  BY <1>0, <2>1, SenderMoves, SndPcMoved
  <2>3. Unsaid' <= Unsaid  BY <2>2 DEF Unsaid
  <2>4. txdone' => Confirmed  BY <1>0, <1>1 DEF NothingToTransfer, ConfirmInv
  <2> QED  BY <1>1, <2>2, <2>3, <2>4, SenderCalm DEF NothingToTransfer
<1>2. CASE Check
  <2>1. /\ snd.pc \in {"check", "confirm"} /\ back # << >> /\ back' = Tail(back) /\ BySender
        /\ wire' = wire /\ txdone' = txdone
    BY <1>2 DEF Check, CheckFor, Delivered
  <2>2. txdone' => Confirmed  BY <1>0, <2>1 DEF ConfirmInv
  <2>3. CASE Typ(Head(back)) = 17 /\ SndTo("complete")
    <3>1. Head(back) \in Backward
      <4>1. back \in Seq(Backward)  BY <1>0 DEF ConfirmInv
      <4> QED  BY <2>1, <4>1, Shorter
    <3>2. Head(back) # KEEP /\ Head(back) # ERROR  BY <2>3, MessageTypes
    <3>3. Confirmed  BY <3>1, <3>2 DEF Backward
    <3>4. SndMoves /\ snd'.pc = "complete"
      <4>1. "complete" \in SndPcs  BY DEF SndPcs
      <4> QED  BY <1>0, <2>1, <2>3, <4>1, SenderMoves, SndPcMoved
    <3>5. Unsaid' <= Unsaid  BY <2>1, <3>4 DEF Unsaid
    <3> QED  BY <2>1, <3>3, <3>4, <3>5, SenderCalm
  <2>4. CASE snd' = snd
    <3>1. SndMoves /\ Unsaid' <= Unsaid  BY <2>4 DEF SndMoves, Unsaid
    <3> QED  BY <2>1, <2>2, <2>4, <3>1, SenderCalm
  <2>5. CASE SndTo("failed")
    <3>1. SndMoves /\ snd'.pc = "failed"
      <4>1. "failed" \in SndPcs  BY DEF SndPcs, Ended
      <4> QED  BY <1>0, <2>5, <4>1, SenderMoves, SndPcMoved
    <3>2. Unsaid' <= Unsaid  BY <3>1 DEF Unsaid
    <3> QED  BY <2>1, <2>2, <3>1, <3>2, SenderCalm
  <2> QED  BY <1>2, <2>3, <2>4, <2>5 DEF Check, CheckFor
<1>3. CASE CompleteTransfer
  <2>1. SndTo("ack") /\ "ack" \in SndPcs /\ snd.pc = "flag"
    BY <1>3 DEF CompleteTransfer, SndPcs
  <2>2. SndMoves /\ snd'.pc = "ack"  BY <1>0, <2>1, SenderMoves, SndPcMoved
  <2>3. Unsaid' <= Unsaid  BY <2>2 DEF Unsaid
  <2>4. Confirmed  BY <1>0, <2>1 DEF ConfirmInv
  <2> QED  BY <1>3, <2>2, <2>3, <2>4, SenderCalm DEF CompleteTransfer
<1>4. CASE Acknowledged
  <2>1. SndTo("join") /\ "join" \in SndPcs /\ snd.pc = "ack"
    BY <1>4 DEF Acknowledged, SndPcs
  <2>2. SndMoves /\ snd'.pc = "join"  BY <1>0, <2>1, SenderMoves, SndPcMoved
  <2>3. Unsaid' <= Unsaid  BY <2>2 DEF Unsaid
  <2>4. Confirmed  BY <1>0, <2>1 DEF ConfirmInv
  <2> QED  BY <1>4, <2>2, <2>3, <2>4, SenderCalm DEF Acknowledged, Delivered
<1>5. CASE FinishSender
  <2>1. SndTo("done") /\ "done" \in SndPcs /\ snd.pc = "join"
    BY <1>5 DEF FinishSender, SndPcs, Ended
  <2>2. SndMoves /\ snd'.pc = "done"  BY <1>0, <2>1, SenderMoves, SndPcMoved
  <2>3. Unsaid' <= Unsaid  BY <2>2 DEF Unsaid
  <2>4. Confirmed  BY <1>0, <2>1 DEF ConfirmInv
  <2>5. BySender /\ wire' = wire /\ back' = back
    BY <1>5 DEF FinishSender, BySender, endVars
  <2> QED  BY <2>2, <2>3, <2>4, <2>5, SenderCalm
<1> QED  BY <1>1, <1>2, <1>3, <1>4, <1>5

\* The receiver's main thread.
LEMMA ReceiverKeeps ==
    ASSUME ByReceiver
    PROVE  /\ UNCHANGED setup /\ snd' = snd /\ tx' = tx /\ rx' = rx /\ wire' = wire
           /\ txdone' = txdone /\ metabuf' = metabuf /\ buf' = buf /\ metahead' = metahead
           /\ knob' = knob /\ written' = written /\ threads_finished' = threads_finished
           /\ metas' = metas
  BY DEF ByReceiver, ringVars, setup

LEMMA ReceiverCalm ==
    ASSUME IInv, ByReceiver, RcvMoves,
           main' \in [ptr : Nat \X Nat, opened : BOOLEAN, counted : BOOLEAN, closed : BOOLEAN, stat : BOOLEAN,
                      complete : BOOLEAN, keeps : Nat, told : BOOLEAN],
           main'.closed => main.closed \/ (written = Blocks /\ rcv.pc # "helo"),
           main'.stat => main'.closed, Confirmed => Confirmed',
           main'.complete => Confirmed', rcv'.pc \in {"finish", "join", "done"} => Confirmed',
           back' = back \/ \E m \in Backward' : back' = Append(back, m),
           metatail' \in 0 .. Lines,
           rcv'.pc = "read" =>
              main'.ptr[1] \in Conns /\ main'.ptr[2] = metatail' /\ metatail' < Lines
    PROVE  IInv'
<1>0. Records /\ ConfirmInv /\ CountInv /\ RingInv  BY DEF IInv
<1>1. /\ UNCHANGED setup /\ snd' = snd /\ tx' = tx /\ rx' = rx /\ wire' = wire
      /\ txdone' = txdone /\ metabuf' = metabuf /\ buf' = buf /\ metahead' = metahead
      /\ knob' = knob /\ written' = written /\ threads_finished' = threads_finished
  BY ReceiverKeeps
<1>2. Calm
  <2>1. SndMoves /\ Unsaid' = Unsaid  BY <1>1 DEF SndMoves, Unsaid
  <2>2. Unsaid' <= Unsaid  BY <2>1, UnsaidType
  <2>3. main'.closed => written = Blocks /\ rcv.pc # "helo"  BY <1>0 DEF CountInv
  <2> QED  BY <1>1, <2>1, <2>2, <2>3 DEF Calm
<1>3. ConfirmInv'
  <2>1. back' \in Seq(Backward')
    <3>1. back \in Seq(Backward) /\ Backward \subseteq Backward'
      BY <1>0, ConfirmGrows DEF ConfirmInv
    <3>2. back \in Seq(Backward')  BY <3>1, SeqMonotone
    <3>3. CASE back' = back  BY <3>2, <3>3
    <3>4. CASE \E m \in Backward' : back' = Append(back, m)
      <4>1. PICK m \in Backward' : back' = Append(back, m)  BY <3>4
      <4> QED  BY <3>2, <4>1, Longer
    <3> QED  BY <3>3, <3>4
  <2>2. txdone' => Confirmed'  BY <1>0, <1>1 DEF ConfirmInv
  <2>3. snd'.pc \in {"complete", "flag", "ack", "join", "done"} => Confirmed'
    BY <1>0, <1>1 DEF ConfirmInv
  <2> QED  BY <1>0, <1>1, <2>1, <2>2, <2>3, ConfirmStays
<1>4. rx' \in [Conns -> RxPcs] /\ tx' \in [Conns -> TxPcs]  BY <1>0, <1>1 DEF Records
<1> QED  BY <1>1, <1>2, <1>3, <1>4, CalmStep

LEMMA TopStep == ASSUME IInv, Top PROVE IInv'
<1> DEFINE closed == main.closed \/ (main.opened /\ main.counted /\ written = Blocks)
           stat == main.stat \/ (closed /\ ~main.closed)
           to == IF main.complete /\ main.opened = closed THEN "finish" ELSE "poll"
<1>0. Records /\ ConfirmInv /\ RingInv  BY DEF IInv
<1>1. /\ rcv.pc = "top" /\ ByReceiver /\ back' = back /\ metatail' = metatail
      /\ main' = [main EXCEPT !.closed = closed, !.stat = stat] /\ RcvTo(to)
  BY DEF Top
<1>2. closed \in BOOLEAN /\ stat \in BOOLEAN
      /\ main \in [ptr : Nat \X Nat, opened : BOOLEAN, counted : BOOLEAN, closed : BOOLEAN, stat : BOOLEAN,
                   complete : BOOLEAN, keeps : Nat, told : BOOLEAN]
  BY <1>0 DEF Records
<1>3. /\ main' \in [ptr : Nat \X Nat, opened : BOOLEAN, counted : BOOLEAN, closed : BOOLEAN, stat : BOOLEAN,
                    complete : BOOLEAN, keeps : Nat, told : BOOLEAN]
      /\ main'.closed = closed /\ main'.stat = stat /\ main'.complete = main.complete
  <2> HIDE DEF closed, stat
  <2> QED  BY <1>1, <1>2
<1>4. RcvMoves /\ rcv'.pc \in {"finish", "poll"} /\ (rcv'.pc = "finish" => main.complete)
  <2>1. to \in RcvPcs \ {"helo"} /\ to \in {"finish", "poll"} /\ (to = "finish" => main.complete)
    BY DEF RcvPcs
  <2>2. RcvAlive  BY <1>1 DEF RcvAlive, Ended
  <2> HIDE DEF to
  <2> QED  BY <1>0, <1>1, <2>1, <2>2, ReceiverMoves, RcvPcMoved
<1>5. /\ main'.closed => main.closed \/ (written = Blocks /\ rcv.pc # "helo")
      /\ main'.stat => main'.closed
      /\ Confirmed => Confirmed'
  BY <1>0, <1>1, <1>3 DEF ConfirmInv, Confirmed
<1>6. main.complete => Confirmed  BY <1>0 DEF ConfirmInv
<1>7. metatail' \in 0 .. Lines  BY <1>0, <1>1 DEF RingInv
<1> HIDE DEF closed, stat, to
<1> QED  BY <1>1, <1>3, <1>4, <1>5, <1>6, <1>7, ReceiverCalm

LEMMA PollStep == ASSUME IInv, Poll PROVE IInv'
<1> DEFINE to == IF metatail >= metahead THEN "idle" ELSE "read"
           p == <<metabuf, metatail>>
<1>0. Records /\ ConfirmInv /\ RingInv  BY DEF IInv
<1>1. /\ rcv.pc = "poll" /\ ByReceiver /\ back' = back /\ metatail' = metatail
      /\ main' = [main EXCEPT !.ptr = p] /\ RcvTo(to)
  BY DEF Poll
<1>2. main \in [ptr : Nat \X Nat, opened : BOOLEAN, counted : BOOLEAN, closed : BOOLEAN, stat : BOOLEAN,
                complete : BOOLEAN, keeps : Nat, told : BOOLEAN]
      /\ metabuf \in Conns /\ metabuf \in Nat /\ metatail \in 0 .. Lines /\ metahead \in 0 .. Lines
      /\ Lines \in Nat
  BY <1>0, EndAssumption DEF Records, RingInv, Conns
<1>3. p \in Nat \X Nat /\ p[1] = metabuf /\ p[2] = metatail  BY <1>2
<1>4. /\ main' \in [ptr : Nat \X Nat, opened : BOOLEAN, counted : BOOLEAN, closed : BOOLEAN, stat : BOOLEAN,
                    complete : BOOLEAN, keeps : Nat, told : BOOLEAN]
      /\ main'.closed = main.closed /\ main'.stat = main.stat
      /\ main'.complete = main.complete /\ main'.ptr = p
  <2> HIDE DEF p
  <2> QED  BY <1>1, <1>2, <1>3
<1>5. RcvMoves /\ rcv'.pc \in {"idle", "read"} /\ (rcv'.pc = "read" => metatail < Lines)
  <2>1. to \in RcvPcs \ {"helo"} /\ to \in {"idle", "read"} /\ (to = "read" => metatail < Lines)
    BY <1>2 DEF RcvPcs
  <2>2. RcvAlive  BY <1>1 DEF RcvAlive, Ended
  <2> HIDE DEF to
  <2> QED  BY <1>0, <1>1, <2>1, <2>2, ReceiverMoves, RcvPcMoved
<1>6. /\ main'.stat => main'.closed
      /\ Confirmed' <=> Confirmed
      /\ main'.complete => Confirmed
  BY <1>0, <1>4 DEF ConfirmInv, Confirmed
<1>7. rcv'.pc = "read" =>
        main'.ptr[1] \in Conns /\ main'.ptr[2] = metatail' /\ metatail' < Lines
  BY <1>1, <1>2, <1>3, <1>4, <1>5
<1> HIDE DEF to, p
<1> QED  BY <1>1, <1>2, <1>4, <1>5, <1>6, <1>7, ReceiverCalm

\* A message that ends the session was sent after the confirmation.
LEMMA ReadStep == ASSUME IInv, Read PROVE IInv'
<1> DEFINE l == buf[main.ptr[1]][main.ptr[2]]
           m == from_header(l)
           file_spec == m[2] \in {16, 128 + 16}
           opened == main.opened \/ (file_spec /\ m[1] = 1)
           counted == main.counted \/ (file_spec /\ m[1] = 2)
           complete == main.complete \/ m[2] = 67 * Byte + 11 \/ m = <<0, 1>>
           p == <<0, 0>>
<1>0. Records /\ ConfirmInv /\ RingInv  BY DEF IInv
<1>1. /\ rcv.pc = "read" /\ ByReceiver /\ back' = back /\ metatail' = metatail + 1
      /\ main' = [main EXCEPT !.ptr = p, !.opened = opened, !.counted = counted,
                             !.complete = complete]
      /\ RcvTo("top")
  BY Zenon DEF Read
<1>2. main \in [ptr : Nat \X Nat, opened : BOOLEAN, counted : BOOLEAN, closed : BOOLEAN, stat : BOOLEAN,
                complete : BOOLEAN, keeps : Nat, told : BOOLEAN]
  BY <1>0 DEF Records
<1>3. opened \in BOOLEAN /\ counted \in BOOLEAN /\ complete \in BOOLEAN /\ p \in Nat \X Nat
  <2> HIDE DEF m
  <2> QED  BY <1>2
<1>4. complete => main.complete \/ l \notin {SPEC, COUNT, ZERO}
  <2>1. ASSUME l \in {SPEC, COUNT, ZERO} PROVE m[2] # 67 * Byte + 11 /\ m # <<0, 1>>
    BY <2>1, NotFinal
  <2> HIDE DEF l, m
  <2> QED  BY <2>1
<1>5. l \in (Forward \cup {ZERO}) \ {DATA}
  <2>1. main.ptr[1] \in Conns /\ main.ptr[2] \in 0 .. Lines
    BY <1>0, <1>1, EndAssumption DEF RingInv
  <2>2. buf \in [Conns -> [0 .. Lines -> (Forward \cup {ZERO}) \ {DATA}]]
    BY <1>0 DEF ConfirmInv
  <2> DEFINE F == (Forward \cup {ZERO}) \ {DATA}
  <2> HIDE DEF F
  <2>3. buf \in [Conns -> [0 .. Lines -> F]]  BY <2>2 DEF F
  <2>4. l \in F  BY <2>1, <2>3
  <2> QED  BY <2>4 DEF F
<1>6. complete => Confirmed
  <2>1. main.complete => Confirmed  BY <1>0 DEF ConfirmInv
  <2> HIDE DEF l, m, complete
  <2> QED  BY <1>4, <1>5, <2>1 DEF Forward
<1> HIDE DEF opened, counted, complete, p
<1>7. /\ main' \in [ptr : Nat \X Nat, opened : BOOLEAN, counted : BOOLEAN, closed : BOOLEAN, stat : BOOLEAN,
                    complete : BOOLEAN, keeps : Nat, told : BOOLEAN]
      /\ main'.closed = main.closed /\ main'.stat = main.stat
      /\ main'.complete = complete
  BY <1>1, <1>2, <1>3
<1>8. RcvMoves /\ rcv'.pc = "top"
  <2>1. "top" \in RcvPcs \ {"helo"}  BY DEF RcvPcs
  <2>2. RcvAlive  BY <1>1 DEF RcvAlive, Ended
  <2> QED  BY <1>0, <1>1, <2>1, <2>2, ReceiverMoves, RcvPcMoved
<1>9. /\ main'.stat => main'.closed
      /\ Confirmed' <=> Confirmed
      /\ main'.complete => Confirmed
  BY <1>0, <1>6, <1>7 DEF ConfirmInv, Confirmed
<1>10. metatail' \in 0 .. Lines  BY <1>0, <1>1, EndAssumption DEF RingInv
<1> QED  BY <1>1, <1>7, <1>8, <1>9, <1>10, ReceiverCalm

\* A step of the receiver's main thread that leaves everything else alone.
LEMMA ReceiverGoes ==
    ASSUME IInv, NEW x \in RcvPcs \ {"helo", "read"}, RcvAlive, ByReceiver,
           RcvTo(x) \/ rcv' = [rcv EXCEPT !.pc = x, !.dying = TRUE],
           x \in {"finish", "join", "done"} => rcv.pc \in {"finish", "join", "done"},
           metatail' = metatail, main' = main,
           back' = back \/ \E m \in Backward : back' = Append(back, m)
    PROVE  IInv'
<1>0. Records /\ ConfirmInv /\ RingInv  BY DEF IInv
<1>1. RcvMoves /\ rcv'.pc = x  BY <1>0, ReceiverMoves, RcvPcMoved
<1>2. (Confirmed' <=> Confirmed) /\ Backward' = Backward  BY DEF Confirmed, Backward
<1>3. main.stat => main.closed  BY <1>0 DEF ConfirmInv
<1>4. main.complete \/ rcv.pc \in {"finish", "join", "done"} => Confirmed
  BY <1>0 DEF ConfirmInv
<1>5. main \in [ptr : Nat \X Nat, opened : BOOLEAN, counted : BOOLEAN, closed : BOOLEAN, stat : BOOLEAN,
                complete : BOOLEAN, keeps : Nat, told : BOOLEAN]
  BY <1>0 DEF Records
<1>6. metatail \in 0 .. Lines  BY <1>0 DEF RingInv
<1> QED  BY <1>1, <1>2, <1>3, <1>4, <1>5, <1>6, ReceiverCalm

LEMMA SendStatStep == ASSUME IInv, SendStat PROVE IInv'
<1>0. Records /\ ConfirmInv /\ RingInv  BY DEF IInv
<1>1. /\ rcv.pc = "idle" /\ main.stat /\ ByReceiver /\ metatail' = metatail
      /\ main' = [main EXCEPT !.stat = FALSE]
  BY DEF SendStat
<1>2. /\ main' \in [ptr : Nat \X Nat, opened : BOOLEAN, counted : BOOLEAN, closed : BOOLEAN, stat : BOOLEAN,
                    complete : BOOLEAN, keeps : Nat, told : BOOLEAN]
      /\ main'.closed = main.closed /\ main'.stat = FALSE /\ main'.complete = main.complete
  BY <1>0, <1>1 DEF Records
<1>3. PICK x \in {"top", "stuck"} : RcvTo(x) \/ rcv' = [rcv EXCEPT !.pc = x, !.dying = TRUE]
  BY DEF SendStat
<1>4. RcvMoves /\ rcv'.pc = x
  <2>1. x \in RcvPcs \ {"helo"}  BY DEF RcvPcs
  <2>2. RcvAlive  BY <1>1 DEF RcvAlive, Ended
  <2> QED  BY <1>0, <1>3, <2>1, <2>2, ReceiverMoves, RcvPcMoved
<1>5. Confirmed'  BY <1>0, <1>1, <1>2 DEF ConfirmInv, Confirmed
<1>6. STAT \in Backward'  BY <1>5 DEF Backward
<1>7. back' = back \/ \E m \in Backward' : back' = Append(back, m)  BY <1>6 DEF SendStat
<1>8. metatail' \in 0 .. Lines  BY <1>0, <1>1 DEF RingInv
<1> QED  BY <1>1, <1>2, <1>4, <1>5, <1>7, <1>8, ReceiverCalm

LEMMA KeepaliveStep == ASSUME IInv, SendKeepalive PROVE IInv'
<1>0. Records /\ ConfirmInv /\ RingInv  BY DEF IInv
<1>1. rcv.pc = "keepalive" /\ ByReceiver /\ metatail' = metatail  BY DEF SendKeepalive
<1>2. /\ RcvAlive /\ "top" \in RcvPcs \ {"helo", "read"} /\ "stuck" \in RcvPcs \ {"helo", "read"}
      /\ {"top", "stuck"} \cap {"finish", "join", "done"} = {}
  BY <1>1 DEF RcvAlive, RcvPcs, Ended
<1>3. CASE /\ main' = [main EXCEPT !.keeps = @ + 1] /\ back' = Append(back, KEEP)
           /\ RcvTo("top")
  <2> DEFINE k == main.keeps + 1
  <2>1. main \in [ptr : Nat \X Nat, opened : BOOLEAN, counted : BOOLEAN, closed : BOOLEAN, stat : BOOLEAN,
                  complete : BOOLEAN, keeps : Nat, told : BOOLEAN]
    BY <1>0 DEF Records
  <2>2. main' = [main EXCEPT !.keeps = k] /\ k \in Nat  BY <1>3, <2>1
  <2> HIDE DEF k
  <2>3. /\ main' \in [ptr : Nat \X Nat, opened : BOOLEAN, counted : BOOLEAN, closed : BOOLEAN, stat : BOOLEAN,
                      complete : BOOLEAN, keeps : Nat, told : BOOLEAN]
        /\ main'.closed = main.closed /\ main'.stat = main.stat
        /\ main'.complete = main.complete
    BY <2>1, <2>2
  <2>4. RcvMoves /\ rcv'.pc = "top"
    BY <1>0, <1>2, <1>3, ReceiverMoves, RcvPcMoved
  <2>5. /\ main'.stat => main'.closed
        /\ Confirmed' <=> Confirmed
        /\ main'.complete => Confirmed
    BY <1>0, <2>3 DEF ConfirmInv, Confirmed
  <2>6. KEEP \in Backward'  BY DEF Backward
  <2>7. metatail' \in 0 .. Lines  BY <1>0, <1>1 DEF RingInv
  <2> QED  BY <1>1, <1>3, <2>3, <2>4, <2>5, <2>6, <2>7, ReceiverCalm
<1>4. CASE RcvTo("top") /\ UNCHANGED <<back, main>>
  BY <1>1, <1>2, <1>4, ReceiverGoes
<1>5. CASE rcv' = [rcv EXCEPT !.pc = "stuck", !.dying = TRUE] /\ UNCHANGED <<back, main>>
  BY <1>1, <1>2, <1>5, ReceiverGoes
<1> QED  BY <1>3, <1>4, <1>5 DEF SendKeepalive

LEMMA ReceiverStep == ASSUME IInv, Receiver PROVE IInv'
<1>1. CASE SendAck
  <2>1. rcv.pc = "finish" /\ ByReceiver /\ metatail' = metatail /\ main' = main
    BY <1>1 DEF SendAck, Ack, mainVars
  <2>2. RcvAlive /\ "join" \in RcvPcs \ {"helo", "read"} /\ "stuck" \in RcvPcs \ {"helo", "read"}
    BY <2>1 DEF RcvAlive, RcvPcs, Ended
  <2>3. COMPLETE \in Backward  BY <2>1 DEF IInv, ConfirmInv, Backward
  <2>4. CASE RcvTo("join") /\ back' = Append(back, COMPLETE)
    BY <2>1, <2>2, <2>3, <2>4, ReceiverGoes
  <2>5. CASE rcv' = [rcv EXCEPT !.pc = "stuck", !.dying = TRUE] /\ UNCHANGED back
    BY <2>1, <2>2, <2>5, ReceiverGoes
  <2> QED  BY <1>1, <2>4, <2>5 DEF SendAck, Ack
<1>2. CASE AllExited \/ Sleep \/ KeepaliveDue \/ FinishReceiver
  <2>1. ByReceiver /\ metatail' = metatail /\ main' = main /\ back' = back
    BY <1>2 DEF AllExited, Sleep, KeepaliveDue, FinishReceiver, ByReceiver, endVars, mainVars
  <2>2. /\ "failed" \in RcvPcs \ {"helo", "read"} /\ "top" \in RcvPcs \ {"helo", "read"}
        /\ "keepalive" \in RcvPcs \ {"helo", "read"} /\ "done" \in RcvPcs \ {"helo", "read"}
    BY DEF RcvPcs, Ended
  <2>3. CASE AllExited
    <3>1. RcvAlive /\ RcvTo("failed")  BY <2>3 DEF AllExited, RcvAlive, Ended
    <3> QED  BY <2>1, <2>2, <3>1, ReceiverGoes
  <2>4. CASE Sleep
    <3>1. RcvAlive /\ RcvTo("top")  BY <2>4 DEF Sleep, Idle, RcvAlive, Ended
    <3> QED  BY <2>1, <2>2, <3>1, ReceiverGoes
  <2>5. CASE KeepaliveDue
    <3>1. RcvAlive /\ RcvTo("keepalive")  BY <2>5 DEF KeepaliveDue, Idle, RcvAlive, Ended
    <3> QED  BY <2>1, <2>2, <3>1, ReceiverGoes
  <2>6. CASE FinishReceiver
    <3>1. RcvAlive /\ RcvTo("done") /\ rcv.pc = "join"
      BY <2>6 DEF FinishReceiver, RcvAlive, Ended
    <3> QED  BY <2>1, <2>2, <3>1, ReceiverGoes
  <2> QED  BY <1>2, <2>3, <2>4, <2>5, <2>6
<1> QED
  BY <1>1, <1>2, TopStep, PollStep, ReadStep, SendStatStep, KeepaliveStep DEF Receiver

\* The logging thread, and a receive worker that has had its first message.
LEMMA ReportErrorStep == ASSUME IInv, ReportError PROVE IInv'
<1>0. Records /\ ConfirmInv /\ RingInv  BY DEF IInv
<1>1. /\ back' = Append(back, ERROR) /\ main' = [main EXCEPT !.told = TRUE] /\ rcv' = rcv
      /\ metatail' = metatail /\ ByReceiver
  BY DEF ReportError, ByReceiver, startVars
<1>2. /\ main' \in [ptr : Nat \X Nat, opened : BOOLEAN, counted : BOOLEAN, closed : BOOLEAN, stat : BOOLEAN,
                    complete : BOOLEAN, keeps : Nat, told : BOOLEAN]
      /\ main'.closed = main.closed /\ main'.stat = main.stat
      /\ main'.complete = main.complete /\ main'.ptr = main.ptr
  BY <1>0, <1>1 DEF Records
<1>3. RcvMoves  BY <1>1 DEF RcvMoves
<1>4. /\ main'.stat => main'.closed
      /\ Confirmed' <=> Confirmed
      /\ main'.complete \/ rcv'.pc \in {"finish", "join", "done"} => Confirmed
  BY <1>0, <1>1, <1>2 DEF ConfirmInv, Confirmed
<1>5. ERROR \in Backward'  BY DEF Backward
<1>6. /\ metatail' \in 0 .. Lines
      /\ rcv'.pc = "read" =>
            main'.ptr[1] \in Conns /\ main'.ptr[2] = metatail' /\ metatail' < Lines
  BY <1>0, <1>1, <1>2 DEF RingInv
<1> QED  BY <1>1, <1>2, <1>3, <1>4, <1>5, <1>6, ReceiverCalm

LEMMA RxFirstStep == ASSUME IInv, NEW c \in Conns, RxFirst(c) PROVE IInv'
<1>0. Records /\ WireInv /\ ConfirmInv /\ CountInv /\ RingInv  BY DEF IInv
<1>1. /\ rx[c] = "first" /\ rx' = [rx EXCEPT ![c] = "recv"] /\ snd' = snd /\ rcv' = rcv
      /\ tx' = tx /\ UNCHANGED setup /\ UNCHANGED endVars
  BY DEF RxFirst, RxTo
<1>2. Replied  BY <1>0, <1>1 DEF WireInv
<1>3. rx' \in [Conns -> RxPcs] /\ rx \in [Conns -> RxPcs]
  BY <1>0, <1>1, WorkerMoves DEF RxPcs
<1>4. Calm
  <2>1. SndMoves /\ RcvMoves /\ Unsaid' = Unsaid  BY <1>1 DEF SndMoves, RcvMoves, Unsaid
  <2>2. Unsaid' <= Unsaid  BY <2>1, UnsaidType
  <2>3. \A d \in Conns : \/ rx'[d] = rx[d]
                         \/ Replied /\ {rx[d], rx'[d]} \subseteq {"none", "key", "first", "recv", "stuck"}
    BY <1>1, <1>2, <1>3
  <2> QED  BY <1>0, <1>1, <2>1, <2>2, <2>3, EndKept DEF Calm, CountInv, RingInv
<1>5. ConfirmInv'  BY <1>0, <1>1, ConfirmKept
<1>6. /\ metabuf' = metabuf /\ tx' \in [Conns -> TxPcs]
      /\ main' \in [ptr : Nat \X Nat, opened : BOOLEAN, counted : BOOLEAN, closed : BOOLEAN, stat : BOOLEAN,
                    complete : BOOLEAN, keeps : Nat, told : BOOLEAN]
  BY <1>0, <1>1, EndKept DEF Records
<1> QED  BY <1>1, <1>3, <1>4, <1>5, <1>6, CalmStep

\* A block that is cut ends its worker, and the process with it.
LEMMA RxCutStep == ASSUME IInv, NEW c \in Conns, RxCut(c) PROVE IInv'
<1>0. Records /\ WireInv /\ ConfirmInv /\ CountInv /\ RingInv  BY DEF IInv
<1>1. /\ rx[c] = "recv" /\ rx' = [rx EXCEPT ![c] = "stuck"] /\ snd' = snd
      /\ rcv' = [rcv EXCEPT !.dying = TRUE] /\ tx' = tx /\ UNCHANGED setup /\ UNCHANGED endVars
  BY DEF RxCut, RxTo
<1>2. Replied  BY <1>0, <1>1 DEF WireInv
<1>3. rx' \in [Conns -> RxPcs] /\ rx \in [Conns -> RxPcs] /\ rcv'.pc = rcv.pc
  BY <1>0, <1>1, WorkerMoves DEF RxPcs, Records
<1>4. Calm
  <2>1. SndMoves /\ RcvMoves /\ Unsaid' = Unsaid  BY <1>1 DEF SndMoves, RcvMoves, Unsaid
  <2>2. Unsaid' <= Unsaid  BY <2>1, UnsaidType
  <2>3. \A d \in Conns : \/ rx'[d] = rx[d]
                         \/ Replied /\ {rx[d], rx'[d]} \subseteq {"none", "key", "first", "recv", "stuck"}
    BY <1>1, <1>2, <1>3
  <2> QED  BY <1>0, <1>1, <1>3, <2>1, <2>2, <2>3, EndKept DEF Calm, CountInv, RingInv
<1>5. ConfirmInv'  BY <1>0, <1>1, <1>3, ConfirmKept DEF ConfirmInv
<1>6. /\ metabuf' = metabuf /\ tx' \in [Conns -> TxPcs]
      /\ main' \in [ptr : Nat \X Nat, opened : BOOLEAN, counted : BOOLEAN, closed : BOOLEAN, stat : BOOLEAN,
                    complete : BOOLEAN, keeps : Nat, told : BOOLEAN]
  BY <1>0, <1>1, EndKept DEF Records
<1> QED  BY <1>1, <1>3, <1>4, <1>5, <1>6, CalmStep

-----------------------------------------------------------------------------
(* Steps that change the wires or the ring.                                *)

\* A step at one connection.
LEMMA WireAt ==
    ASSUME Records, AgreeInv, WireInv, Replied, SndMoves, RcvMoves, NEW c \in Conns,
           wire' = [d \in Conns |-> wire'[d]],
           \A d \in Conns \ {c} : /\ wire'[d] = wire[d] /\ tx'[d] = tx[d]
                                  /\ rx'[d] = rx[d] /\ knob'[d] = knob[d],
           tx'[c] # "none" => tx[c] # "none",
           c \in Data =>
              /\ tx'[c] \notin {"sent", "ended"} => wire'[c] = << >> \/ (tx'[c] = "stuck" /\ ~RcvAlive)
              /\ tx'[c] = "sent" => wire'[c] \in {<<DATA>>, << >>}
              /\ tx'[c] = "ended" => wire'[c] \in {<<DATA, BYE>>, <<BYE>>, << >>}
              /\ rx'[c] \in {"memset", "load", "write"} => wire'[c] = <<BYE>>
              /\ rx'[c] \in {"write", "store"} => knob'[c].bye,
           c = Meta =>
              /\ wire'[c] \in Seq({SPEC, COUNT, COMPLETE, BYE})
              /\ rx'[c] \in {"memset", "load", "write"} => wire'[c] # << >>
              /\ tx'[c] \in {"sent", "ended"} => ~RcvAlive
    PROVE  WireInv'
<1>1. /\ Replied' /\ Meta' = Meta /\ Data' = Data /\ snd'.threads = snd.threads
      /\ RcvAlive' => RcvAlive
  BY SndMoved, RcvMoved
<1>2. \A d \in Conns : tx'[d] # "none" => d <= snd'.threads  BY <1>1 DEF WireInv
<1>3. ASSUME NEW d \in Data
      PROVE  /\ tx'[d] \notin {"sent", "ended"} => wire'[d] = << >> \/ (tx'[d] = "stuck" /\ ~RcvAlive)
             /\ tx'[d] = "sent" => wire'[d] \in {<<DATA>>, << >>}
             /\ tx'[d] = "ended" => wire'[d] \in {<<DATA, BYE>>, <<BYE>>, << >>}
             /\ rx'[d] \in {"memset", "load", "write"} => wire'[d] = <<BYE>>
             /\ rx'[d] \in {"write", "store"} => knob'[d].bye
  <2>1. CASE d = c  BY <1>3, <2>1
  <2>2. CASE d # c
    <3>1. /\ wire'[d] = wire[d] /\ tx'[d] = tx[d] /\ rx'[d] = rx[d] /\ knob'[d] = knob[d]
      BY <1>3, <2>2 DEF Data
    <3> QED  BY <1>3, <3>1 DEF WireInv
  <2> QED  BY <2>1, <2>2
<1>4. /\ wire'[Meta] \in Seq({SPEC, COUNT, COMPLETE, BYE})
      /\ rx'[Meta] \in {"memset", "load", "write"} => wire'[Meta] # << >>
      /\ tx'[Meta] \in {"sent", "ended"} => ~RcvAlive
  <2>1. CASE c = Meta  BY <2>1
  <2>2. CASE c # Meta
    <3>1. wire'[Meta] = wire[Meta] /\ tx'[Meta] = tx[Meta] /\ rx'[Meta] = rx[Meta]
      BY <2>2, MetaConn
    <3> QED  BY <3>1 DEF WireInv
  <2> QED  BY <2>1, <2>2
<1> QED  BY <1>1, <1>2, <1>3, <1>4 DEF WireInv

LEMMA ConfirmAt ==
    ASSUME ConfirmInv, main' = main, back' = back, txdone' = txdone, rcv' = rcv,
           snd'.pc \in {"complete", "flag", "ack", "join", "done"} => Confirmed,
           \A c \in Conns : wire'[c] \in Seq(Forward),
           buf' \in [Conns -> [0 .. Lines -> (Forward \cup {ZERO}) \ {DATA}]]
    PROVE  ConfirmInv'
<1>1. Forward' = Forward /\ Backward' = Backward /\ (Confirmed' <=> Confirmed)
  BY DEF Forward, Backward, Confirmed
<1> QED  BY <1>1 DEF ConfirmInv

LEMMA LeftChange ==
    ASSUME LeftSum, LeftSum', NEW a \in Int, NEW b \in Int, NEW l \in Int, NEW s \in Int,
           Cardinality(Unheard)' = Cardinality(Unheard) + a, Unsaid' = Unsaid + b,
           Len(wire[Meta])' = Len(wire[Meta]) + l, Storing' = Storing + s
    PROVE  Left' = Left + a + b + l + s
<1> DEFINE a0 == Cardinality(Unheard)
           b0 == Unsaid
           l0 == Len(wire[Meta])
           s0 == Storing
           a1 == Cardinality(Unheard)'
           b1 == Unsaid'
           l1 == Len(wire[Meta])'
           s1 == Storing'
           r == Left'
<1>1. /\ a0 \in Int /\ b0 \in Int /\ l0 \in Int /\ s0 \in Int /\ Left = a0 + b0 + l0 + s0
  BY DEF LeftSum
<1>2. r = a1 + b1 + l1 + s1  BY DEF LeftSum
<1>3. a1 = a0 + a /\ b1 = b0 + b /\ l1 = l0 + l /\ s1 = s0 + s  OBVIOUS
<1> HIDE DEF a0, b0, l0, s0, a1, b1, l1, s1, r
<1>4. r = Left + a + b + l + s  BY <1>1, <1>2, <1>3
<1> QED  BY <1>4 DEF r

\* The ring, when nothing is stored in it and no worker loads a new head.
LEMMA RingKept ==
    ASSUME FirstHalf, WireInv, RingInv, FirstHalf', WireInv', SndMoves,
           metahead' = metahead, knob' = knob, metatail' = metatail, main' = main, rcv' = rcv,
           \A c \in Conns : rx'[c] \in {"write", "store"} => rx[c] \in {"write", "store"},
           Replied /\ RcvAlive => Left' <= Left
    PROVE  RingInv'
<1>0. Records /\ AgreeInv /\ Records' /\ AgreeInv'  BY DEF FirstHalf
<1>1. (Replied' <=> Replied) /\ (RcvAlive' <=> RcvAlive)  BY <1>0, SndMoved DEF RcvAlive
<1>2. ASSUME Replied', RcvAlive'
      PROVE  /\ metahead' + Left' <= Lines
             /\ \A c \in Conns : rx'[c] \in {"write", "store"} => knob'[c].h + Left' <= Lines
  <2>1. Left \in Int /\ Left' \in Int
    <3>1. LeftSum /\ LeftSum'  BY <1>0, <1>1, <1>2, LeftTerms, LeftTermsNext
    <3>2. Left \in Nat /\ Left' \in Nat  BY <3>1 DEF LeftSum
    <3> QED  BY <3>2
  <2> QED  BY <1>0, <1>1, <1>2, <2>1, RoomKept
<1>3. /\ metahead' \in 0 .. Lines /\ metatail' \in 0 .. Lines
      /\ ~Replied' => metahead' = 0
      /\ rcv'.pc = "read" =>
            main'.ptr[1] \in Conns /\ main'.ptr[2] = metatail' /\ metatail' < Lines
  BY <1>1 DEF RingInv
<1> QED  BY <1>2, <1>3 DEF RingInv

\* A message on the metadata connection.
LEMMA SaidStep ==
    ASSUME IInv, BySender, back' = back, txdone' = txdone, NEW m \in {SPEC, COUNT, COMPLETE},
           Send(Meta, m), snd.pc \in SndPcs \ {"args", "reply", "failed", "stuck", "returned"}, SndMoves,
           Unsaid' = Unsaid - 1, m = COMPLETE => Confirmed,
           snd'.pc \in {"complete", "flag", "ack", "join", "done"} => Confirmed
    PROVE  IInv'
<1>0. /\ Records /\ AgreeInv /\ WireInv /\ ConfirmInv /\ CountInv /\ RingInv /\ FirstHalf
  BY DEF IInv, FirstHalf
<1>1. Replied  BY <1>0 DEF AgreeInv
<1>2. Meta \in Conns  BY <1>0, <1>1, MetaConn
<1>3. /\ UNCHANGED setup /\ rcv' = rcv /\ tx' = tx /\ rx' = rx /\ metabuf' = metabuf
      /\ buf' = buf /\ metahead' = metahead /\ knob' = knob /\ metatail' = metatail
      /\ main' = main /\ written' = written /\ threads_finished' = threads_finished
  BY SenderKeeps
<1>4. RcvMoves  BY <1>3 DEF RcvMoves
<1>5. Meta' = Meta /\ Data' = Data  BY <1>0, SndMoved
<1>6. FirstHalf'
  <2>1. /\ tx' \in [Conns -> TxPcs] /\ rx' \in [Conns -> RxPcs]
        /\ main' \in [ptr : Nat \X Nat, opened : BOOLEAN, counted : BOOLEAN, closed : BOOLEAN, stat : BOOLEAN,
                      complete : BOOLEAN, keeps : Nat, told : BOOLEAN]
        /\ metabuf' \in Conns /\ knob' \in [Conns -> [h : Nat, buf : Conns, bye : BOOLEAN]]
    BY <1>0, <1>3 DEF Records
  <2> QED  BY <1>0, <1>3, <1>4, <2>1, EndFirst
<1>7. /\ wire' = [d \in Conns |-> wire'[d]]
      /\ wire'[Meta] = Append(wire[Meta], m)
      /\ \A d \in Conns \ {Meta} : wire'[d] = wire[d]
  <2>1. wire = [d \in Conns |-> wire[d]]  BY <1>0 DEF WireInv
  <2> QED  BY <1>2, <2>1 DEF Send
<1>8. WireInv'
  <2>1. wire[Meta] \in Seq({SPEC, COUNT, COMPLETE, BYE})  BY <1>0, <1>1 DEF WireInv
  <2>2. wire'[Meta] \in Seq({SPEC, COUNT, COMPLETE, BYE}) /\ wire'[Meta] # << >>
    BY <1>7, <2>1, Longer
  <2>3. tx'[Meta] \in {"sent", "ended"} => ~RcvAlive  BY <1>0, <1>1, <1>3 DEF WireInv
  <2>4. Meta \notin Data  BY DEF Data
  <2> QED  BY <1>0, <1>1, <1>2, <1>3, <1>4, <1>7, <2>2, <2>3, <2>4, WireAt
<1>9. ConfirmInv'
  <2>1. m \in Forward  BY DEF Forward
  <2>2. \A d \in Conns : wire[d] \in Seq(Forward)  BY <1>0 DEF ConfirmInv
  <2>3. wire'[Meta] \in Seq(Forward)  BY <1>2, <1>7, <2>1, <2>2, Longer
  <2>4. \A d \in Conns : wire'[d] \in Seq(Forward)  BY <1>7, <2>2, <2>3
  <2>5. buf' \in [Conns -> [0 .. Lines -> (Forward \cup {ZERO}) \ {DATA}]]
    BY <1>0, <1>3 DEF ConfirmInv
  <2> QED  BY <1>0, <1>3, <2>4, <2>5, ConfirmAt
<1>10. CountInv'
  <2>1. Arrived' = Arrived
    <3>1. \A d \in Data : wire'[d] = wire[d]  BY <1>7 DEF Data
    <3> QED  BY <1>3, <1>5, <3>1 DEF Arrived
  <2>2. Blocks' = Blocks  BY <1>3 DEF Blocks
  <2> QED  BY <1>0, <1>3, <2>1, <2>2 DEF CountInv, RcvAlive
<1>11. RingInv'
  <2>1. Left' <= Left
    <3>1. LeftSum /\ LeftSum'
      <4>1. Replied'  BY <1>0, <1>1, SndMoved
      <4> QED  BY <1>0, <1>1, <1>6, <1>8, <4>1, LeftTerms, LeftTermsNext DEF FirstHalf
    <3>2. Unheard' = Unheard /\ Storing' = Storing  BY <1>3, <1>5 DEF Unheard, Storing
    <3>3. Len(wire[Meta])' = Len(wire[Meta]) + 1
      <4>1. wire[Meta] \in Seq({SPEC, COUNT, COMPLETE, BYE})  BY <1>0, <1>1 DEF WireInv
      <4>2. Len(Append(wire[Meta], m)) = Len(wire[Meta]) + 1  BY <4>1, Longer
      <4> QED  BY <1>5, <1>7, <4>2
    <3>4. Cardinality(Unheard)' = Cardinality(Unheard) + 0 /\ Storing' = Storing + 0
          /\ Unsaid' = Unsaid + (-1)
      BY <3>1, <3>2, UnsaidType DEF LeftSum
    <3>5. Left' = Left + 0 + (-1) + 1 + 0  BY <3>1, <3>3, <3>4, LeftChange
    <3> DEFINE r == Left'
    <3>6. r = Left + 0 + (-1) + 1 + 0 /\ Left \in Nat  BY <3>1, <3>5 DEF LeftSum
    <3> HIDE DEF r
    <3>7. r <= Left  BY <3>6
    <3> QED  BY <3>7 DEF r
  <2> QED  BY <1>0, <1>3, <1>6, <1>8, <2>1, RingKept
<1> QED  BY <1>6, <1>8, <1>9, <1>10, <1>11 DEF IInv, FirstHalf

LEMMA SayStep == ASSUME IInv, Announce \/ SendCount \/ SendComplete PROVE IInv'
<1>0. Records /\ ConfirmInv  BY DEF IInv
<1>1. ASSUME snd' = [snd EXCEPT !.pc = "stuck", !.dying = TRUE], wire' = wire, BySender,
             back' = back, txdone' = txdone
      PROVE  IInv'
  <2>1. "stuck" \in SndPcs  BY DEF SndPcs
  <2>2. SndMoves /\ snd'.pc = "stuck"  BY <1>0, <1>1, <2>1, SenderMoves, SndPcMoved
  <2>3. Unsaid' <= Unsaid  BY <2>2 DEF Unsaid
  <2>4. txdone' => Confirmed  BY <1>0, <1>1 DEF ConfirmInv
  <2> QED  BY <1>1, <2>2, <2>3, <2>4, SenderCalm
<1>2. CASE Announce
  <2>1. snd.pc = "run" /\ BySender /\ back' = back /\ txdone' = txdone
    BY <1>2 DEF Announce, MetaOut
  <2>2. CASE SndTo("check") /\ Send(Meta, SPEC)
    <3>1. "check" \in SndPcs /\ "run" \in SndPcs  BY DEF SndPcs
    <3>2. SndMoves /\ snd'.pc = "check"  BY <1>0, <2>1, <2>2, <3>1, SenderMoves, SndPcMoved
    <3>3. Unsaid' = Unsaid - 1  BY <2>1, <3>2 DEF Unsaid
    <3>4. SPEC # COMPLETE  BY MessageTypes
    <3>5. snd.pc \in SndPcs \ {"args", "reply", "failed", "stuck", "returned"}  BY <2>1, <3>1
    <3> QED  BY <2>1, <2>2, <3>2, <3>3, <3>4, <3>5, SaidStep
  <2> QED  BY <1>1, <1>2, <2>1, <2>2 DEF Announce, MetaOut
<1>a. CASE SendCount
  <2>1. snd.pc = "check" /\ BySender /\ back' = back /\ txdone' = txdone
    BY <1>a DEF SendCount, MetaOut
  <2>2. CASE SndTo("confirm") /\ Send(Meta, COUNT)
    <3>1. "check" \in SndPcs /\ "confirm" \in SndPcs  BY DEF SndPcs
    <3>2. SndMoves /\ snd'.pc = "confirm"  BY <1>0, <2>1, <2>2, <3>1, SenderMoves, SndPcMoved
    <3>3. Unsaid' = Unsaid - 1  BY <2>1, <3>2 DEF Unsaid
    <3>4. COUNT # COMPLETE  BY MessageTypes
    <3>5. snd.pc \in SndPcs \ {"args", "reply", "failed", "stuck", "returned"}  BY <2>1, <3>1
    <3> QED  BY <2>1, <2>2, <3>2, <3>3, <3>4, <3>5, SaidStep
  <2> QED  BY <1>1, <1>a, <2>1, <2>2 DEF SendCount, MetaOut
<1>3. CASE SendComplete
  <2>1. snd.pc = "complete" /\ BySender /\ back' = back /\ txdone' = txdone
    BY <1>3 DEF SendComplete, MetaOut
  <2>2. CASE SndTo("flag") /\ Send(Meta, COMPLETE)
    <3>1. "flag" \in SndPcs /\ "complete" \in SndPcs  BY DEF SndPcs
    <3>2. SndMoves /\ snd'.pc = "flag"  BY <1>0, <2>1, <2>2, <3>1, SenderMoves, SndPcMoved
    <3>3. Unsaid' = Unsaid - 1  BY <2>1, <3>2 DEF Unsaid
    <3>4. Confirmed  BY <1>0, <2>1 DEF ConfirmInv
    <3>5. snd.pc \in SndPcs \ {"args", "reply", "failed", "stuck", "returned"}  BY <2>1, <3>1
    <3> QED  BY <2>1, <2>2, <3>2, <3>3, <3>4, <3>5, SaidStep
  <2> QED  BY <1>1, <1>3, <2>1, <2>2 DEF SendComplete, MetaOut
<1> QED  BY <1>2, <1>a, <1>3

\* What is on the wire of a data connection.
LEMMA WireContents ==
    /\ <<DATA>> \notin {<<BYE>>, << >>} /\ <<DATA, BYE>> \notin {<<BYE>>, << >>, <<DATA>>}
    /\ <<BYE>> # << >> /\ Append(<< >>, DATA) = <<DATA>>
    /\ Append(<< >>, BYE) = <<BYE>> /\ Append(<<DATA>>, BYE) = <<DATA, BYE>>
    /\ Head(<<DATA>>) = DATA /\ Tail(<<DATA>>) = << >> /\ Head(<<BYE>>) = BYE
    /\ Tail(<<BYE>>) = << >> /\ Head(<<DATA, BYE>>) = DATA /\ Tail(<<DATA, BYE>>) = <<BYE>>
<1>1. BYE # DATA  BY MessageTypes
<1>2. ASSUME NEW a, NEW b, a # b PROVE <<a>> # <<b>>
  <2>1. <<a>>[1] = a /\ <<b>>[1] = b  OBVIOUS
  <2> QED  BY <1>2, <2>1
<1>3. ASSUME NEW a, NEW b PROVE <<a>> # << >> /\ <<a, b>> \notin {<<b>>, << >>, <<a>>}
  <2>1. Len(<<a>>) = 1 /\ Len(<<b>>) = 1 /\ Len(<< >>) = 0 /\ Len(<<a, b>>) = 2  OBVIOUS
  <2> QED  BY <2>1
<1>4. ASSUME NEW a, NEW b
      PROVE  /\ Head(<<a>>) = a /\ Tail(<<a>>) = << >>
             /\ Head(<<a, b>>) = a /\ Tail(<<a, b>>) = <<b>>
  OBVIOUS
<1>5. ASSUME NEW a, NEW b PROVE Append(<< >>, a) = <<a>> /\ Append(<<a>>, b) = <<a, b>>
  <2> DEFINE S == {a, b}
             q == Append(<<a>>, b)
             t == Append(<< >>, a)
  <2>1. a \in S /\ b \in S /\ <<a>> \in Seq(S) /\ << >> \in Seq(S) /\ <<a, b>> \in Seq(S)
    OBVIOUS
  <2>2. /\ q \in Seq(S) /\ Len(q) = Len(<<a>>) + 1 /\ q[Len(<<a>>) + 1] = b
        /\ \A i \in 1 .. Len(<<a>>) : q[i] = <<a>>[i]
        /\ t \in Seq(S) /\ Len(t) = Len(<< >>) + 1 /\ t[Len(<< >>) + 1] = a
    BY <2>1, AppendProperties
  <2>3. /\ Len(<<a>>) = 1 /\ Len(<< >>) = 0 /\ Len(<<a, b>>) = 2 /\ <<a>>[1] = a
        /\ <<a, b>>[1] = a /\ <<a, b>>[2] = b
    OBVIOUS
  <2> HIDE DEF q, t, S
  <2>4. q = <<a, b>>
    <3>1. Len(q) = Len(<<a, b>>) /\ \A i \in 1 .. Len(q) : q[i] = <<a, b>>[i]
      BY <2>2, <2>3
    <3> QED  BY <2>1, <2>2, <3>1, SeqEqual
  <2>5. t = <<a>>
    <3>1. Len(t) = Len(<<a>>) /\ \A i \in 1 .. Len(t) : t[i] = <<a>>[i]
      BY <2>2, <2>3
    <3> QED  BY <2>1, <2>2, <3>1, SeqEqual
  <2> QED  BY <2>4, <2>5 DEF q, t
<1> HIDE DEF DATA, BYE
<1>6. /\ <<DATA>> \notin {<<BYE>>, << >>} /\ <<DATA, BYE>> \notin {<<BYE>>, << >>, <<DATA>>}
      /\ <<BYE>> # << >>
  BY <1>1, <1>2, <1>3
<1> QED  BY <1>4, <1>5, <1>6

\* A transmit worker has written m.
LEMMA TxStep ==
    ASSUME IInv, NEW c \in Conns, NEW x \in {"sent", "ended"}, tx[c] # "none",
           tx' = [tx EXCEPT ![c] = x], UNCHANGED <<setup, snd, rcv, rx, back, txdone>>,
           UNCHANGED <<ringVars, mainVars, written, threads_finished>>,
           wire' = [d \in Conns |-> wire'[d]], \A d \in Conns \ {c} : wire'[d] = wire[d],
           c = Meta => ~RcvAlive /\ wire'[c] \in Seq({SPEC, COUNT, COMPLETE, BYE}),
           rx[c] \in {"memset", "load", "write"} => wire'[c] = wire[c] \/ (c = Meta /\ wire'[c] # << >>),
           c \in Data =>
              /\ x = "sent" => wire'[c] \in {<<DATA>>, << >>}
              /\ x = "ended" => wire'[c] \in {<<DATA, BYE>>, <<BYE>>, << >>}
              /\ c \in Arrived <=> wire'[c] \in {<<BYE>>, << >>},
           wire'[c] \in Seq(Forward)
    PROVE  IInv'
<1>0. /\ Records /\ AgreeInv /\ WireInv /\ ConfirmInv /\ CountInv /\ RingInv /\ FirstHalf
  BY DEF IInv, FirstHalf
<1>1. Replied  BY <1>0 DEF WireInv
<1>2. /\ UNCHANGED setup /\ snd' = snd /\ rcv' = rcv /\ rx' = rx /\ metabuf' = metabuf
      /\ buf' = buf /\ metahead' = metahead /\ knob' = knob /\ metatail' = metatail
      /\ main' = main /\ written' = written /\ threads_finished' = threads_finished
      /\ back' = back /\ txdone' = txdone
  BY DEF ringVars, mainVars
<1>3. SndMoves /\ RcvMoves /\ Meta' = Meta /\ Data' = Data
  BY <1>2 DEF SndMoves, RcvMoves, Meta, Data
<1>4. tx \in [Conns -> TxPcs] /\ tx'[c] = x /\ (\A d \in Conns \ {c} : tx'[d] = tx[d])
      /\ tx' \in [Conns -> TxPcs]
  BY <1>0, WorkerMoves DEF TxPcs
<1>5. FirstHalf'
  <2>1. /\ rx' \in [Conns -> RxPcs]
        /\ main' \in [ptr : Nat \X Nat, opened : BOOLEAN, counted : BOOLEAN, closed : BOOLEAN, stat : BOOLEAN,
                      complete : BOOLEAN, keeps : Nat, told : BOOLEAN]
        /\ metabuf' \in Conns /\ knob' \in [Conns -> [h : Nat, buf : Conns, bye : BOOLEAN]]
    BY <1>0, <1>2 DEF Records
  <2> QED  BY <1>0, <1>2, <1>3, <1>4, <2>1, EndFirst
<1>6. WireInv'
  <2>1. c \in Data =>
          /\ tx'[c] \notin {"sent", "ended"} => wire'[c] = << >> \/ (tx'[c] = "stuck" /\ ~RcvAlive)
          /\ tx'[c] = "sent" => wire'[c] \in {<<DATA>>, << >>}
          /\ tx'[c] = "ended" => wire'[c] \in {<<DATA, BYE>>, <<BYE>>, << >>}
    BY <1>4
  <2>2. c \in Data =>
          /\ rx'[c] \in {"memset", "load", "write"} => wire'[c] = <<BYE>>
          /\ rx'[c] \in {"write", "store"} => knob'[c].bye
    BY <1>0, <1>2 DEF WireInv, Data
  <2>3. c = Meta =>
          /\ wire'[c] \in Seq({SPEC, COUNT, COMPLETE, BYE})
          /\ rx'[c] \in {"memset", "load", "write"} => wire'[c] # << >>
          /\ tx'[c] \in {"sent", "ended"} => ~RcvAlive
    BY <1>0, <1>1, <1>2 DEF WireInv
  <2> QED  BY <1>0, <1>1, <1>2, <1>3, <1>4, <2>1, <2>2, <2>3, WireAt
<1>7. ConfirmInv'
  <2>1. \A d \in Conns : wire'[d] \in Seq(Forward)  BY <1>0 DEF ConfirmInv
  <2>2. buf' \in [Conns -> [0 .. Lines -> (Forward \cup {ZERO}) \ {DATA}]]
    BY <1>0, <1>2 DEF ConfirmInv
  <2>3. snd'.pc \in {"complete", "flag", "ack", "join", "done"} => Confirmed
    BY <1>0, <1>2 DEF ConfirmInv
  <2> QED  BY <1>0, <1>2, <2>1, <2>2, <2>3, ConfirmAt
<1>8. CountInv'
  <2>1. Arrived' = Arrived
    <3>1. ASSUME NEW d \in Data
          PROVE  tx'[d] \in {"sent", "ended"} /\ wire'[d] \in {<<BYE>>, << >>} <=> d \in Arrived
      <4>1. CASE d = c  BY <1>4, <3>1, <4>1
      <4>2. CASE d # c  BY <1>4, <3>1, <4>2 DEF Arrived, Data
      <4> QED  BY <4>1, <4>2
    <3>2. Arrived \subseteq Data  BY DEF Arrived
    <3> QED  BY <1>3, <3>1, <3>2 DEF Arrived
  <2>2. Blocks' = Blocks  BY <1>2 DEF Blocks
  <2> QED  BY <1>0, <1>2, <2>1, <2>2 DEF CountInv, RcvAlive
<1>9. RingInv'
  <2>1. ASSUME RcvAlive PROVE Left' <= Left
    <3>1. LeftSum  BY <1>0, <1>1, LeftTerms
    <3>2. wire'[Meta] = wire[Meta]  BY <1>0, <1>1, <2>1, MetaConn
    <3>3. Left' = Left  BY <1>2, <1>3, <3>2 DEF Left, Unsaid
    <3>4. Left \in Nat  BY <3>1 DEF LeftSum
    <3> HIDE DEF Left
    <3> QED  BY <3>3, <3>4
  <2> QED  BY <1>0, <1>2, <1>3, <1>5, <1>6, <2>1, RingKept
<1> QED  BY <1>5, <1>6, <1>7, <1>8, <1>9 DEF IInv, FirstHalf

\* A write to a receiver that has ended has failed.
LEMMA TxStuckStep ==
    ASSUME IInv, NEW c \in Conns, ~RcvAlive, tx[c] # "none", wire' = wire,
           tx' = [tx EXCEPT ![c] = "stuck"], snd' = [snd EXCEPT !.dying = TRUE],
           UNCHANGED <<setup, rcv, rx, back, txdone>>,
           UNCHANGED <<ringVars, mainVars, written, threads_finished>>
    PROVE  IInv'
<1>0. /\ Records /\ AgreeInv /\ WireInv /\ ConfirmInv /\ CountInv /\ RingInv /\ FirstHalf
  BY DEF IInv, FirstHalf
<1>1. Replied  BY <1>0 DEF WireInv
<1>2. /\ UNCHANGED setup /\ rcv' = rcv /\ rx' = rx /\ metabuf' = metabuf
      /\ buf' = buf /\ metahead' = metahead /\ knob' = knob /\ metatail' = metatail
      /\ main' = main /\ written' = written /\ threads_finished' = threads_finished
      /\ back' = back /\ txdone' = txdone
  BY DEF ringVars, mainVars
<1>3. SndMoves /\ RcvMoves  BY <1>2 DEF SndMoves, RcvMoves
<1>a. snd'.pc = snd.pc  BY <1>0 DEF Records
<1>4. tx \in [Conns -> TxPcs] /\ tx'[c] = "stuck" /\ (\A d \in Conns \ {c} : tx'[d] = tx[d])
      /\ tx' \in [Conns -> TxPcs]
  BY <1>0, WorkerMoves DEF TxPcs
<1>5. FirstHalf'
  <2>1. /\ rx' \in [Conns -> RxPcs]
        /\ main' \in [ptr : Nat \X Nat, opened : BOOLEAN, counted : BOOLEAN, closed : BOOLEAN, stat : BOOLEAN,
                      complete : BOOLEAN, keeps : Nat, told : BOOLEAN]
        /\ metabuf' \in Conns /\ knob' \in [Conns -> [h : Nat, buf : Conns, bye : BOOLEAN]]
    BY <1>0, <1>2 DEF Records
  <2> QED  BY <1>0, <1>2, <1>3, <1>4, <2>1, EndFirst
<1>6. WireInv'
  <2>1. c \in Data =>
          /\ tx'[c] \notin {"sent", "ended"} => wire'[c] = << >> \/ (tx'[c] = "stuck" /\ ~RcvAlive)
          /\ tx'[c] = "sent" => wire'[c] \in {<<DATA>>, << >>}
          /\ tx'[c] = "ended" => wire'[c] \in {<<DATA, BYE>>, <<BYE>>, << >>}
          /\ rx'[c] \in {"memset", "load", "write"} => wire'[c] = <<BYE>>
          /\ rx'[c] \in {"write", "store"} => knob'[c].bye
    BY <1>0, <1>2, <1>4 DEF WireInv
  <2>2. c = Meta =>
          /\ wire'[c] \in Seq({SPEC, COUNT, COMPLETE, BYE})
          /\ rx'[c] \in {"memset", "load", "write"} => wire'[c] # << >>
          /\ tx'[c] \in {"sent", "ended"} => ~RcvAlive
    BY <1>0, <1>1, <1>2 DEF WireInv
  <2>3. /\ wire' = [d \in Conns |-> wire'[d]] /\ (tx'[c] # "none" => tx[c] # "none")
        /\ \A d \in Conns \ {c} : /\ wire'[d] = wire[d] /\ tx'[d] = tx[d]
                                  /\ rx'[d] = rx[d] /\ knob'[d] = knob[d]
    BY <1>0, <1>2, <1>4 DEF WireInv
  <2> QED  BY <1>0, <1>1, <1>3, <2>1, <2>2, <2>3, WireAt
<1>7. ConfirmInv'
  <2>1. /\ \A d \in Conns : wire'[d] \in Seq(Forward)
        /\ buf' \in [Conns -> [0 .. Lines -> (Forward \cup {ZERO}) \ {DATA}]]
        /\ snd'.pc \in {"complete", "flag", "ack", "join", "done"} => Confirmed
    BY <1>0, <1>2, <1>a DEF ConfirmInv
  <2> QED  BY <1>0, <1>2, <2>1, ConfirmAt
<1>8. CountInv'  BY <1>0, <1>2 DEF CountInv, Blocks, RcvAlive
<1>9. RingInv'  BY <1>0, <1>2, <1>3, <1>5, <1>6, RingKept
<1> QED  BY <1>5, <1>6, <1>7, <1>8, <1>9 DEF IInv, FirstHalf

LEMMA TxStartStep == ASSUME IInv, NEW c \in Conns, TxStart(c) PROVE IInv'
<1>0. Records /\ WireInv /\ ConfirmInv /\ CountInv /\ RingInv  BY DEF IInv
<1>1. /\ tx[c] = "keyed" /\ tx' = [tx EXCEPT ![c] = "sending"] /\ snd' = snd /\ rcv' = rcv
      /\ rx' = rx /\ UNCHANGED setup /\ UNCHANGED endVars
  BY DEF TxStart
<1>2. tx' \in [Conns -> TxPcs] /\ tx \in [Conns -> TxPcs]
  BY <1>0, <1>1, WorkerMoves DEF TxPcs
<1>3. Calm
  <2>1. SndMoves /\ RcvMoves /\ Unsaid' = Unsaid  BY <1>1 DEF SndMoves, RcvMoves, Unsaid
  <2>2. Unsaid' <= Unsaid  BY <2>1, UnsaidType
  <2>3. \A d \in Conns : \/ tx'[d] = tx[d]
                         \/ tx[d] \in Fresh /\ tx'[d] \in Fresh \cup {"stuck"}
    BY <1>1, <1>2 DEF Fresh
  <2> QED  BY <1>0, <1>1, <2>1, <2>2, <2>3, EndKept DEF Calm, CountInv, RingInv
<1>4. ConfirmInv'  BY <1>0, <1>1, ConfirmKept
<1>5. /\ metabuf' = metabuf /\ rx' \in [Conns -> RxPcs]
      /\ main' \in [ptr : Nat \X Nat, opened : BOOLEAN, counted : BOOLEAN, closed : BOOLEAN, stat : BOOLEAN,
                    complete : BOOLEAN, keeps : Nat, told : BOOLEAN]
  BY <1>0, <1>1, EndKept DEF Records
<1> QED  BY <1>1, <1>2, <1>3, <1>4, <1>5, CalmStep

LEMMA TxWorkerStep == ASSUME IInv, NEW c \in Conns, TxWorker(c) PROVE IInv'
<1>0. /\ Records /\ AgreeInv /\ WireInv /\ ConfirmInv /\ CountInv /\ RingInv
  BY DEF IInv
<1>1. ASSUME ~RcvAlive, tx[c] # "none", wire' = wire, tx' = [tx EXCEPT ![c] = "stuck"],
             snd' = [snd EXCEPT !.dying = TRUE],
             UNCHANGED <<setup, rcv, rx, fob, back, txdone, ringVars, mainVars, written,
                         threads_finished>>
      PROVE  IInv'
  <2>1. /\ UNCHANGED <<setup, rcv, rx, back, txdone>>
        /\ UNCHANGED <<ringVars, mainVars, written, threads_finished>>
    BY <1>1
  <2> QED  BY <1>1, <2>1, TxStuckStep
<1>2. ASSUME NEW m, Send(c, m)
      PROVE  /\ wire' = [d \in Conns |-> wire'[d]] /\ wire'[c] = Append(wire[c], m)
             /\ \A d \in Conns \ {c} : wire'[d] = wire[d]
  <2>1. wire = [d \in Conns |-> wire[d]]  BY <1>0 DEF WireInv
  <2> QED  BY <1>2, <2>1 DEF Send
<1>3. wire[c] \in Seq(Forward)  BY <1>0 DEF ConfirmInv
<1>4. CASE TxBlock(c)
  <2>1. c # Meta /\ c \in Data /\ tx[c] = "sending"
    BY <1>4 DEF TxBlock, TxWrite, Data
  <2>2. wire[c] = << >> /\ rx[c] \notin {"memset", "load", "write"} /\ c \notin Arrived
    BY <1>0, <2>1, WireContents DEF WireInv, Arrived
  <2>3. CASE /\ tx' = [tx EXCEPT ![c] = "sent"] /\ Send(c, DATA) /\ UNCHANGED snd
             /\ UNCHANGED <<setup, rcv, rx, fob, back, txdone, ringVars, mainVars, written,
                            threads_finished>>
    <3>1. wire'[c] = <<DATA>> /\ DATA \in Forward
      BY <1>2, <2>2, <2>3, WireContents DEF Forward
    <3>2. wire'[c] \in Seq(Forward)  BY <1>2, <1>3, <2>3, <3>1, Longer
    <3>3. wire'[c] \notin {<<BYE>>, << >>}  BY <3>1, WireContents
    <3>4. /\ wire' = [d \in Conns |-> wire'[d]] /\ (\A d \in Conns \ {c} : wire'[d] = wire[d])
          /\ UNCHANGED <<setup, snd, rcv, rx, back, txdone>>
          /\ UNCHANGED <<ringVars, mainVars, written, threads_finished>>
      BY <1>2, <2>3
    <3> QED  BY <2>1, <2>2, <2>3, <3>1, <3>2, <3>3, <3>4, TxStep
  <2> QED  BY <1>1, <1>4, <2>1, <2>3 DEF TxBlock, TxWrite
<1>5. CASE TxBye(c)
  <2>1. txdone /\ tx[c] = "sent"  BY <1>5 DEF TxBye, TxWrite
  <2>2. Confirmed /\ Replied  BY <1>0, <2>1 DEF ConfirmInv, WireInv
  <2>3. CASE /\ tx' = [tx EXCEPT ![c] = "ended"] /\ Send(c, BYE) /\ UNCHANGED snd
             /\ UNCHANGED <<setup, rcv, rx, fob, back, txdone, ringVars, mainVars, written,
                            threads_finished>>
    <3>1. BYE \in Forward  BY <2>2 DEF Forward
    <3>2. wire'[c] \in Seq(Forward) /\ wire'[c] # << >>  BY <1>2, <1>3, <2>3, <3>1, Longer
    <3>3. /\ wire' = [d \in Conns |-> wire'[d]] /\ (\A d \in Conns \ {c} : wire'[d] = wire[d])
          /\ UNCHANGED <<setup, snd, rcv, rx, back, txdone>>
          /\ UNCHANGED <<ringVars, mainVars, written, threads_finished>>
          /\ wire'[c] = Append(wire[c], BYE)
      BY <1>2, <2>3
    <3>4. c = Meta => ~RcvAlive /\ wire'[c] \in Seq({SPEC, COUNT, COMPLETE, BYE})
      <4>1. c = Meta => wire[c] \in Seq({SPEC, COUNT, COMPLETE, BYE}) /\ ~RcvAlive
        BY <1>0, <2>1, <2>2 DEF WireInv
      <4> QED  BY <3>3, <4>1, Longer
    <3>5. c \in Data =>
            /\ rx[c] \notin {"memset", "load", "write"}
            /\ wire'[c] \in {<<DATA, BYE>>, <<BYE>>}
            /\ c \in Arrived <=> wire'[c] \in {<<BYE>>, << >>}
      <4>1. c \in Data => wire[c] \in {<<DATA>>, << >>}  BY <1>0, <2>1 DEF WireInv
      <4>2. c \in Data => rx[c] \notin {"memset", "load", "write"}
        BY <1>0, <4>1, WireContents DEF WireInv
      <4>3. CASE c \in Data /\ wire[c] = <<DATA>>
        <5>1. wire'[c] = <<DATA, BYE>> /\ c \notin Arrived
          BY <3>3, <4>3, WireContents DEF Arrived
        <5> QED  BY <4>2, <5>1, WireContents
      <4>4. CASE c \in Data /\ wire[c] = << >>
        <5>1. wire'[c] = <<BYE>> /\ c \in Arrived
          BY <2>1, <3>3, <4>4, WireContents DEF Arrived
        <5> QED  BY <4>2, <5>1
      <4> QED  BY <4>1, <4>3, <4>4
    <3>6. c \in Data \/ c = Meta  BY DEF Data
    <3> QED  BY <2>1, <2>3, <3>2, <3>3, <3>4, <3>5, <3>6, TxStep
  <2> QED  BY <1>1, <1>5, <2>1, <2>3 DEF TxBye, TxWrite
<1> QED  BY <1>4, <1>5, TxStartStep DEF TxWorker

LEMMA MetaEofStep == ASSUME IInv, MetaEof PROVE IInv'
<1>0. /\ Records /\ AgreeInv /\ WireInv /\ ConfirmInv  BY DEF IInv
<1>1. /\ Replied /\ ~RcvAlive /\ tx[Meta] = "keyed" /\ tx' = [tx EXCEPT ![Meta] = "sent"]
      /\ UNCHANGED <<setup, snd, rcv, rx, back, txdone>>
      /\ UNCHANGED <<ringVars, mainVars, written, threads_finished>> /\ wire' = wire
  BY DEF MetaEof, Replied, endVars
<1>2. Meta \in Conns /\ Meta \notin Data  BY <1>0, <1>1, MetaConn DEF Data
<1>3. /\ wire[Meta] \in Seq({SPEC, COUNT, COMPLETE, BYE}) /\ wire = [d \in Conns |-> wire[d]]
      /\ wire[Meta] \in Seq(Forward)
  BY <1>0, <1>1, <1>2 DEF WireInv, ConfirmInv
<1> QED  BY <1>1, <1>2, <1>3, TxStep

-----------------------------------------------------------------------------
(* Receive workers.                                                        *)

\* What every step of a receive worker leaves alone.
LEMMA RxFrame ==
    ASSUME IInv, NEW c \in Conns, rx[c] # "none",
           UNCHANGED <<setup, snd, rcv, tx, back, txdone, mainVars>>,
           rx' \in [Conns -> RxPcs], metabuf' \in Conns,
           knob' \in [Conns -> [h : Nat, buf : Conns, bye : BOOLEAN]]
    PROVE  /\ FirstHalf' /\ SndMoves /\ RcvMoves /\ Meta' = Meta /\ Data' = Data
           /\ Replied /\ Replied' /\ Unsaid' = Unsaid /\ Meta \in Conns
           /\ snd' = snd /\ rcv' = rcv /\ tx' = tx /\ back' = back /\ txdone' = txdone
           /\ main' = main /\ metatail' = metatail
<1>0. FirstHalf /\ Records /\ AgreeInv /\ WireInv  BY DEF IInv, FirstHalf
<1>1. /\ UNCHANGED setup /\ snd' = snd /\ rcv' = rcv /\ tx' = tx /\ back' = back
      /\ txdone' = txdone /\ main' = main /\ metatail' = metatail
  BY DEF mainVars
<1>2. SndMoves /\ RcvMoves /\ Meta' = Meta /\ Data' = Data /\ Unsaid' = Unsaid
  BY <1>1 DEF SndMoves, RcvMoves, Meta, Data, Unsaid
<1>3. Replied /\ Replied'  BY <1>0, <1>1 DEF WireInv, Replied
<1>4. /\ tx' \in [Conns -> TxPcs]
      /\ main' \in [ptr : Nat \X Nat, opened : BOOLEAN, counted : BOOLEAN, closed : BOOLEAN, stat : BOOLEAN,
                    complete : BOOLEAN, keeps : Nat, told : BOOLEAN]
  BY <1>0, <1>1 DEF Records
<1>5. FirstHalf'  BY <1>0, <1>1, <1>2, <1>4, EndFirst
<1>6. Meta \in Conns  BY <1>0, <1>3, MetaConn
<1> QED  BY <1>1, <1>2, <1>3, <1>5, <1>6

LEMMA CountAt ==
    ASSUME CountInv, tx' = tx, Data' = Data, written' = written, rcv' = rcv, main' = main,
           \A d \in Data : wire'[d] \in {<<BYE>>, << >>} <=> wire[d] \in {<<BYE>>, << >>},
           threads_finished' = Cardinality({d \in Conns : rx'[d] = "ended"})
    PROVE  CountInv'
<1>1. Arrived' = Arrived  BY DEF Arrived
<1>2. Blocks' = Blocks  BY DEF Blocks
<1>3. {d \in Conns : rx[d] = "ended"}' = {d \in Conns : rx'[d] = "ended"}  OBVIOUS
<1> QED  BY <1>1, <1>2, <1>3 DEF CountInv, RcvAlive

\* No more workers than threads send blocks.
LEMMA Senders ==
    ASSUME Records, AgreeInv, WireInv, Replied,
           NEW S \in SUBSET {d \in Data : tx[d] # "none"}
    PROVE  /\ Cardinality(S) \in Nat /\ Cardinality(S) <= snd.threads
           /\ snd.threads = Blocks /\ snd.threads <= MaxThreads /\ snd.threads \in Nat
<1>1. snd.threads \in 1 .. MaxThreads /\ MaxThreads \in Nat
  BY StartAssumption DEF AgreeInv
<1>2. S \subseteq 0 .. snd.threads - 1
  <2>1. \A d \in S : d \in Conns /\ d # Meta /\ tx[d] # "none"  BY DEF Data
  <2>2. \A d \in S : d \in Nat /\ d <= snd.threads /\ d # snd.threads
    BY <2>1 DEF WireInv, Meta, Conns
  <2> QED  BY <1>1, <2>2
<1>3. IsFiniteSet(0 .. snd.threads - 1) /\ Cardinality(0 .. snd.threads - 1) = snd.threads
  <2> DEFINE n == snd.threads - 1
  <2>1. n \in Int /\ ~(0 > n) /\ n - 0 + 1 = snd.threads  BY <1>1
  <2> HIDE DEF n
  <2>2. IsFiniteSet(0 .. n) /\ Cardinality(0 .. n) = n - 0 + 1  BY <2>1, FS_Interval
  <2> QED  BY <2>1, <2>2 DEF n
<1>4. Cardinality(S) <= Cardinality(0 .. snd.threads - 1) /\ IsFiniteSet(S)
  BY <1>2, <1>3, FS_Subset
<1>5. Cardinality(S) \in Nat  BY <1>4, FS_CardinalityType
<1>6. snd.threads = Blocks
  <2>1. rcvr.pc # "none"  BY DEF AgreeInv, Replied
  <2>2. snd.threads = Max({1, rcv.threads})  BY <2>1 DEF AgreeInv
  <2> QED  BY <2>2 DEF Blocks
<1> QED  BY <1>1, <1>3, <1>4, <1>5, <1>6

\* A block cannot arrive once the file is closed.
LEMMA RxBlockStep == ASSUME IInv, NEW c \in Conns, RxBlock(c) PROVE IInv'
<1>0. /\ Records /\ AgreeInv /\ WireInv /\ ConfirmInv /\ CountInv /\ RingInv /\ FirstHalf
  BY DEF IInv, FirstHalf
<1>1. /\ RcvAlive /\ rx[c] = "recv" /\ wire[c] # << >> /\ Head(wire[c]) = DATA /\ written' = written + 1
      /\ wire' = [wire EXCEPT ![c] = Tail(@)]
  BY DEF RxBlock
<1>2. /\ UNCHANGED <<setup, snd, rcv, tx, back, txdone, mainVars>>
      /\ rx' = rx /\ metabuf' = metabuf /\ knob' = knob /\ buf' = buf /\ metahead' = metahead
      /\ threads_finished' = threads_finished
  BY DEF RxBlock, startVars, ringVars
<1>3. /\ rx' \in [Conns -> RxPcs] /\ metabuf' \in Conns
      /\ knob' \in [Conns -> [h : Nat, buf : Conns, bye : BOOLEAN]]
  BY <1>0, <1>2 DEF Records
<1>4. /\ FirstHalf' /\ SndMoves /\ RcvMoves /\ Meta' = Meta /\ Data' = Data
      /\ Replied /\ Replied' /\ Unsaid' = Unsaid /\ Meta \in Conns
      /\ snd' = snd /\ rcv' = rcv /\ tx' = tx /\ back' = back /\ txdone' = txdone
      /\ main' = main /\ metatail' = metatail
  BY <1>1, <1>2, <1>3, RxFrame
<1>5. /\ wire' = [d \in Conns |-> wire'[d]] /\ wire'[c] = Tail(wire[c])
      /\ \A d \in Conns \ {c} : wire'[d] = wire[d]
  <2>1. wire = [d \in Conns |-> wire[d]]  BY <1>0 DEF WireInv
  <2> QED  BY <1>1, <2>1
<1>6. c \in Data
  <2>1. ASSUME c = Meta PROVE FALSE
    <3>1. wire[c] \in Seq({SPEC, COUNT, COMPLETE, BYE})  BY <1>0, <1>4, <2>1 DEF WireInv
    <3>2. Head(wire[c]) \in {SPEC, COUNT, COMPLETE, BYE}  BY <1>1, <3>1, Shorter
    <3> QED  BY <1>1, <3>2, MessageTypes
  <2> QED  BY <2>1 DEF Data
<1>7. /\ tx[c] \in {"sent", "ended"} /\ wire[c] \notin {<<BYE>>, << >>}
      /\ tx[c] = "sent" => wire'[c] = << >>
      /\ tx[c] = "ended" => wire'[c] = <<BYE>>
  <2>1. tx[c] \in {"sent", "ended"}  BY <1>0, <1>1, <1>6 DEF WireInv
  <2>2. wire[c] # <<BYE>>  BY <1>1, WireContents, MessageTypes
  <2>3. tx[c] = "sent" => wire[c] = <<DATA>>  BY <1>0, <1>1, <1>6 DEF WireInv
  <2>4. tx[c] = "ended" => wire[c] = <<DATA, BYE>>  BY <1>0, <1>1, <1>6, <2>2 DEF WireInv
  <2> QED  BY <1>1, <1>5, <2>1, <2>2, <2>3, <2>4, WireContents
<1>8. WireInv'
  <2>1. c # Meta  BY <1>6 DEF Data
  <2> QED  BY <1>0, <1>1, <1>2, <1>4, <1>5, <1>7, <2>1, WireAt
<1>9. ConfirmInv'
  <2>1. \A d \in Conns : wire[d] \in Seq(Forward)  BY <1>0 DEF ConfirmInv
  <2>2. wire'[c] \in Seq(Forward)  BY <1>1, <1>5, <2>1, Shorter
  <2>3. \A d \in Conns : wire'[d] \in Seq(Forward)  BY <1>5, <2>1, <2>2
  <2>4. buf' \in [Conns -> [0 .. Lines -> (Forward \cup {ZERO}) \ {DATA}]]
        /\ (snd'.pc \in {"complete", "flag", "ack", "join", "done"} => Confirmed)
    BY <1>0, <1>2, <1>4 DEF ConfirmInv
  <2> QED  BY <1>0, <1>4, <2>3, <2>4, ConfirmAt
<1>10. CountInv'
  <2>1. c \notin Arrived /\ Arrived' = Arrived \cup {c}
    <3>1. c \notin Arrived  BY <1>7 DEF Arrived
    <3>2. ASSUME NEW d \in Data
          PROVE  tx'[d] \in {"sent", "ended"} /\ wire'[d] \in {<<BYE>>, << >>}
                 <=> d \in Arrived \cup {c}
      <4>1. CASE d = c  BY <1>4, <1>7, <4>1
      <4>2. CASE d # c  BY <1>4, <1>5, <3>2, <4>2 DEF Arrived, Data
      <4> QED  BY <4>1, <4>2
    <3>3. Arrived \cup {c} \subseteq Data  BY <1>6 DEF Arrived
    <3> QED  BY <1>4, <3>1, <3>2, <3>3 DEF Arrived
  <2>2. Cardinality(Arrived') = Cardinality(Arrived) + 1
    <3>1. Arrived \in SUBSET Conns  BY DEF Arrived, Data
    <3> QED  BY <2>1, <3>1, OneMore
  <2>3. written = Cardinality(Arrived)  BY <1>0, <1>1 DEF CountInv
  <2>4. ~main.closed /\ written + 1 \in 0 .. MaxThreads
    <3>1. Arrived \cup {c} \in SUBSET {d \in Data : tx[d] # "none"}
      BY <1>6, <1>7 DEF Arrived
    <3>2. Cardinality(Arrived \cup {c}) <= Blocks /\ Blocks \in Nat /\ Blocks <= MaxThreads
      BY <1>0, <1>4, <3>1, Senders
    <3>3. Cardinality(Arrived) \in Nat
      <4>1. Arrived \in SUBSET Conns  BY DEF Arrived, Data
      <4> QED  BY <4>1, SomeConns
    <3> DEFINE k == Cardinality(Arrived)
               j == Cardinality(Arrived \cup {c})
    <3>4. /\ j = k + 1 /\ j <= Blocks /\ k \in Nat /\ Blocks \in Nat /\ Blocks <= MaxThreads
          /\ MaxThreads \in Nat
      BY <2>1, <2>2, <3>2, <3>3, StartAssumption
    <3> HIDE DEF k, j
    <3>5. k # Blocks /\ k + 1 \in 0 .. MaxThreads  BY <3>4
    <3> QED  BY <1>0, <2>3, <3>5 DEF CountInv, k
  <2>5. threads_finished' = Cardinality({d \in Conns : rx'[d] = "ended"})
    BY <1>0, <1>2 DEF CountInv
  <2> QED  BY <1>1, <1>4, <2>2, <2>3, <2>4, <2>5 DEF CountInv
<1>11. RingInv'
  <2>1. Left' <= Left
    <3>1. wire'[Meta] = wire[Meta]  BY <1>4, <1>5, <1>6 DEF Data
    <3>2. Left' = Left  BY <1>2, <1>4, <3>1 DEF Left
    <3>3. Left \in Nat  BY <1>0, <1>4, LeftTerms DEF LeftSum
    <3> QED  BY <3>2, <3>3
  <2> QED  BY <1>0, <1>2, <1>4, <1>8, <2>1, RingKept
<1> QED  BY <1>4, <1>8, <1>9, <1>10, <1>11 DEF IInv, FirstHalf

LEMMA StillSeq ==
    ASSUME NEW S, NEW q \in Seq(S), NEW r, r = q \/ (q # << >> /\ r = Tail(q))
    PROVE  r \in Seq(S)
<1>1. CASE r = q  BY <1>1
<1>2. CASE q # << >> /\ r = Tail(q)
  <2>1. Tail(q) \in Seq(S)  BY <1>2, Shorter
  <2> QED  BY <1>2, <2>1
<1> QED  BY <1>1, <1>2

\* A step of a receive worker that stores nothing and loads no head.
LEMMA RxStep ==
    ASSUME IInv, NEW c \in Conns, NEW x \in RxPcs, rx[c] # "none", rx' = [rx EXCEPT ![c] = x],
           UNCHANGED <<setup, snd, rcv, tx, back, txdone, mainVars>>,
           knob' = knob, metahead' = metahead, written' = written, metabuf' \in Conns,
           buf' \in [Conns -> [0 .. Lines -> (Forward \cup {ZERO}) \ {DATA}]],
           wire' = [d \in Conns |-> wire'[d]], \A d \in Conns \ {c} : wire'[d] = wire[d],
           wire'[c] = wire[c] \/ (wire[c] # << >> /\ wire'[c] = Tail(wire[c])),
           c \in Data =>
              /\ tx[c] \notin {"sent", "ended"} => wire'[c] = << >> \/ (tx[c] = "stuck" /\ ~RcvAlive)
              /\ tx[c] = "sent" => wire'[c] \in {<<DATA>>, << >>}
              /\ tx[c] = "ended" => wire'[c] \in {<<DATA, BYE>>, <<BYE>>, << >>}
              /\ x \in {"memset", "load", "write"} => wire'[c] = <<BYE>>
              /\ wire'[c] \in {<<BYE>>, << >>} <=> wire[c] \in {<<BYE>>, << >>},
           c = Meta /\ x \in {"memset", "load", "write"} => wire'[c] # << >>,
           x \in {"write", "store"} => rx[c] \in {"write", "store"},
           rx[c] \in {"finish", "ended"} => x \in {"finish", "ended"},
           c = Meta => Len(wire'[c]) + (IF x = "store" THEN 1 ELSE 0)
                       = Len(wire[c]) + (IF rx[c] = "store" THEN 1 ELSE 0),
           threads_finished' = Cardinality({d \in Conns : rx'[d] = "ended"})
    PROVE  IInv'
<1>0. /\ Records /\ AgreeInv /\ WireInv /\ ConfirmInv /\ CountInv /\ RingInv /\ FirstHalf
  BY DEF IInv, FirstHalf
<1>1. /\ rx' \in [Conns -> RxPcs] /\ rx'[c] = x /\ (\A d \in Conns \ {c} : rx'[d] = rx[d])
      /\ knob' \in [Conns -> [h : Nat, buf : Conns, bye : BOOLEAN]]
  BY <1>0 DEF Records
<1>2. /\ FirstHalf' /\ SndMoves /\ RcvMoves /\ Meta' = Meta /\ Data' = Data
      /\ Replied /\ Replied' /\ Unsaid' = Unsaid /\ Meta \in Conns
      /\ snd' = snd /\ rcv' = rcv /\ tx' = tx /\ back' = back /\ txdone' = txdone
      /\ main' = main /\ metatail' = metatail
  BY <1>1, RxFrame
<1>3. WireInv'
  <2>1. c \in Data =>
          /\ tx'[c] \notin {"sent", "ended"} => wire'[c] = << >> \/ (tx'[c] = "stuck" /\ ~RcvAlive)
          /\ tx'[c] = "sent" => wire'[c] \in {<<DATA>>, << >>}
          /\ tx'[c] = "ended" => wire'[c] \in {<<DATA, BYE>>, <<BYE>>, << >>}
          /\ rx'[c] \in {"memset", "load", "write"} => wire'[c] = <<BYE>>
    BY <1>1, <1>2
  <2>2. c \in Data /\ rx'[c] \in {"write", "store"} => knob'[c].bye
    BY <1>0, <1>1 DEF WireInv
  <2>3. c = Meta => wire'[c] \in Seq({SPEC, COUNT, COMPLETE, BYE})
    <3>1. c = Meta => wire[c] \in Seq({SPEC, COUNT, COMPLETE, BYE})  BY <1>0, <1>2 DEF WireInv
    <3> QED  BY <3>1, StillSeq
  <2>4. c = Meta /\ tx'[c] \in {"sent", "ended"} => ~RcvAlive  BY <1>0, <1>2 DEF WireInv
  <2>5. \A d \in Conns \ {c} : /\ wire'[d] = wire[d] /\ tx'[d] = tx[d]
                               /\ rx'[d] = rx[d] /\ knob'[d] = knob[d]
    BY <1>1, <1>2
  <2>6. tx'[c] # "none" => tx[c] # "none"  BY <1>2
  <2>7. c = Meta =>
          /\ wire'[c] \in Seq({SPEC, COUNT, COMPLETE, BYE})
          /\ rx'[c] \in {"memset", "load", "write"} => wire'[c] # << >>
          /\ tx'[c] \in {"sent", "ended"} => ~RcvAlive
    BY <1>1, <2>3, <2>4
  <2>8. c \in Data =>
          /\ tx'[c] \notin {"sent", "ended"} => wire'[c] = << >> \/ (tx'[c] = "stuck" /\ ~RcvAlive)
          /\ tx'[c] = "sent" => wire'[c] \in {<<DATA>>, << >>}
          /\ tx'[c] = "ended" => wire'[c] \in {<<DATA, BYE>>, <<BYE>>, << >>}
          /\ rx'[c] \in {"memset", "load", "write"} => wire'[c] = <<BYE>>
          /\ rx'[c] \in {"write", "store"} => knob'[c].bye
    BY <2>1, <2>2
  <2> QED  BY <1>0, <1>2, <2>5, <2>6, <2>7, <2>8, WireAt
<1>4. ConfirmInv'
  <2>1. \A d \in Conns : wire[d] \in Seq(Forward)  BY <1>0 DEF ConfirmInv
  <2>2. wire'[c] \in Seq(Forward)  BY <2>1, StillSeq
  <2>3. \A d \in Conns : wire'[d] \in Seq(Forward)  BY <2>1, <2>2
  <2>4. snd'.pc \in {"complete", "flag", "ack", "join", "done"} => Confirmed
    BY <1>0, <1>2 DEF ConfirmInv
  <2> QED  BY <1>0, <1>2, <2>3, <2>4, ConfirmAt
<1>5. CountInv'
  <2>1. \A d \in Data : wire'[d] \in {<<BYE>>, << >>} <=> wire[d] \in {<<BYE>>, << >>}
    BY DEF Data
  <2> QED  BY <1>0, <1>2, <2>1, CountAt
<1>6. RingInv'
  <2>1. Left' <= Left
    <3>1. LeftSum /\ LeftSum'
      BY <1>0, <1>2, <1>3, LeftTerms, LeftTermsNext DEF FirstHalf
    <3>2. Unheard' \subseteq Unheard
      <4>1. \A d \in Data : rx'[d] \notin {"finish", "ended"} => rx[d] \notin {"finish", "ended"}
        BY <1>1 DEF Data
      <4> QED  BY <1>2, <4>1 DEF Unheard
    <3>3. Cardinality(Unheard') <= Cardinality(Unheard)
      <4>1. Unheard \in SUBSET Conns  BY DEF Unheard, Data
      <4>2. IsFiniteSet(Unheard)  BY <4>1, SomeConns
      <4> QED  BY <3>2, <4>2, FS_Subset
    <3>4. Len(wire'[Meta]) + Storing' = Len(wire[Meta]) + Storing
      <4>1. CASE c = Meta
        <5>1. Storing' = IF x = "store" THEN 1 ELSE 0  BY <1>1, <1>2, <4>1 DEF Storing
        <5>2. Storing = IF rx[c] = "store" THEN 1 ELSE 0  BY <4>1 DEF Storing
        <5> QED  BY <4>1, <5>1, <5>2
      <4>2. CASE c # Meta
        <5>1. wire'[Meta] = wire[Meta] /\ rx'[Meta] = rx[Meta]  BY <1>1, <1>2, <4>2
        <5> QED  BY <1>2, <5>1 DEF Storing
      <4> QED  BY <4>1, <4>2
    <3> DEFINE a0 == Cardinality(Unheard)
               a1 == Cardinality(Unheard')
               l0 == Len(wire[Meta])
               l1 == Len(wire'[Meta])
               s1 == Storing'
               r == Left'
    <3>5. a0 \in Nat /\ l0 \in Nat /\ Storing \in Int /\ Unsaid \in Int /\ Left = a0 + Unsaid + l0 + Storing
      BY <3>1 DEF LeftSum
    <3>6. a1 \in Nat /\ l1 \in Nat /\ s1 \in Int /\ r = a1 + Unsaid + l1 + s1
      BY <1>2, <3>1 DEF LeftSum
    <3>7. a1 <= a0 /\ l1 + s1 = l0 + Storing  BY <3>3, <3>4
    <3> HIDE DEF a0, a1, l0, l1, s1, r
    <3>8. r <= Left  BY <3>5, <3>6, <3>7
    <3> QED  BY <3>8 DEF r
  <2>2. \A d \in Conns : rx'[d] \in {"write", "store"} => rx[d] \in {"write", "store"}
    BY <1>1
  <2> QED  BY <1>0, <1>2, <1>3, <2>1, <2>2, RingKept
<1> QED  BY <1>2, <1>3, <1>4, <1>5, <1>6 DEF IInv, FirstHalf

LEMMA WorkerKeeps ==
    ASSUME ByWorker
    PROVE  /\ UNCHANGED <<setup, snd, rcv, tx, back, txdone, mainVars>>
           /\ written' = written /\ threads_finished' = threads_finished
  BY DEF ByWorker

\* The wires are the ones before, and what the invariant says of one of them.
LEMMA WireSame ==
    ASSUME WireInv, NEW c \in Conns, wire' = wire
    PROVE  /\ wire' = [d \in Conns |-> wire'[d]] /\ wire'[c] = wire[c]
           /\ \A d \in Conns \ {c} : wire'[d] = wire[d]
           /\ c \in Data =>
                 /\ tx[c] \notin {"sent", "ended"} => wire'[c] = << >> \/ (tx[c] = "stuck" /\ ~RcvAlive)
                 /\ tx[c] = "sent" => wire'[c] \in {<<DATA>>, << >>}
                 /\ tx[c] = "ended" => wire'[c] \in {<<DATA, BYE>>, <<BYE>>, << >>}
                 /\ wire'[c] \in {<<BYE>>, << >>} <=> wire[c] \in {<<BYE>>, << >>}
  BY DEF WireInv

\* The workers that have ended are the same.
LEMMA EndedSame ==
    ASSUME CountInv, threads_finished' = threads_finished, NEW c \in Conns,
           rx[c] # "ended", rx'[c] # "ended", \A d \in Conns \ {c} : rx'[d] = rx[d]
    PROVE  threads_finished' = Cardinality({d \in Conns : rx'[d] = "ended"})
<1>1. {d \in Conns : rx'[d] = "ended"} = {d \in Conns : rx[d] = "ended"}  OBVIOUS
<1> QED  BY <1>1 DEF CountInv

LEMMA RxMoved ==
    ASSUME Records, NEW c \in Conns, NEW x \in RxPcs, RxTo(c, x)
    PROVE  /\ rx' = [rx EXCEPT ![c] = x] /\ rx'[c] = x /\ \A d \in Conns \ {c} : rx'[d] = rx[d]
           /\ rx' \in [Conns -> RxPcs]
  BY DEF Records, RxTo

LEMMA MetaInitStep == ASSUME IInv, NEW c \in Conns, MetaInit(c) PROVE IInv'
<1>0. Records /\ WireInv /\ ConfirmInv /\ CountInv  BY DEF IInv
<1>1. /\ RcvAlive /\ rx[c] = "recv" /\ wire[c] # << >> /\ Head(wire[c]) # DATA /\ ByWorker
      /\ wire' = wire /\ buf' = buf /\ metahead' = metahead /\ knob' = knob
  BY DEF MetaInit
<1>2. PICK x \in {"load", "memset"} : RxTo(c, x)  BY DEF MetaInit
<1>3. metabuf' \in Conns  BY <1>0 DEF MetaInit, Records
<1>4. x \in RxPcs  BY DEF RxPcs
<1>5. /\ rx' = [rx EXCEPT ![c] = x] /\ rx'[c] = x /\ \A d \in Conns \ {c} : rx'[d] = rx[d]
  BY <1>0, <1>2, <1>4, RxMoved
<1>6. threads_finished' = Cardinality({d \in Conns : rx'[d] = "ended"})
  BY <1>0, <1>1, <1>5, WorkerKeeps, EndedSame
<1>7. c \in Data => wire[c] = <<BYE>>
  <2>1. c \in Data => wire[c] \in {<<DATA>>, << >>, <<DATA, BYE>>, <<BYE>>}
    BY <1>0, <1>1 DEF WireInv
  <2> QED  BY <1>1, <2>1, WireContents
<1>8. buf' \in [Conns -> [0 .. Lines -> (Forward \cup {ZERO}) \ {DATA}]]
  BY <1>0, <1>1 DEF ConfirmInv
<1>9. c = Meta => Len(wire'[c]) + (IF x = "store" THEN 1 ELSE 0)
                  = Len(wire[c]) + (IF rx[c] = "store" THEN 1 ELSE 0)
  BY <1>1
<1> QED
  BY <1>0, <1>1, <1>3, <1>4, <1>5, <1>6, <1>7, <1>8, <1>9, WorkerKeeps, WireSame, RxStep

LEMMA MemsetStep == ASSUME IInv, NEW c \in Conns, Memset(c) PROVE IInv'
<1>0. Records /\ WireInv /\ ConfirmInv /\ CountInv  BY DEF IInv
<1>1. /\ rx[c] = "memset" /\ ByWorker /\ RxTo(c, "load") /\ wire' = wire
      /\ buf' = [buf EXCEPT ![metabuf] = [l \in 0 .. Lines |-> ZERO]]
      /\ metabuf' = metabuf /\ metahead' = metahead /\ knob' = knob
  BY DEF Memset
<1>2. metabuf' \in Conns /\ metabuf \in Conns  BY <1>0, <1>1 DEF Records
<1>3. "load" \in RxPcs  BY DEF RxPcs
<1>4. /\ rx' = [rx EXCEPT ![c] = "load"] /\ rx'[c] = "load"
      /\ \A d \in Conns \ {c} : rx'[d] = rx[d]
  BY <1>0, <1>1, <1>3, RxMoved
<1>5. threads_finished' = Cardinality({d \in Conns : rx'[d] = "ended"})
  BY <1>0, <1>1, <1>4, WorkerKeeps, EndedSame
<1>6. buf' \in [Conns -> [0 .. Lines -> (Forward \cup {ZERO}) \ {DATA}]]
  <2> DEFINE F == (Forward \cup {ZERO}) \ {DATA}
             z == [l \in 0 .. Lines |-> ZERO]
  <2>1. buf \in [Conns -> [0 .. Lines -> F]]  BY <1>0 DEF ConfirmInv
  <2>2. ZERO \in F  BY MessageTypes
  <2> HIDE DEF F
  <2>3. z \in [0 .. Lines -> F] /\ buf' = [buf EXCEPT ![metabuf] = z]  BY <1>1, <2>2
  <2> HIDE DEF z
  <2>4. buf' \in [Conns -> [0 .. Lines -> F]]  BY <1>2, <2>1, <2>3
  <2> QED  BY <2>4 DEF F
<1>7. (c \in Data => wire[c] = <<BYE>>) /\ (c = Meta => wire[c] # << >>)
  <2>1. Replied  BY <1>0, <1>1 DEF WireInv
  <2> QED  BY <1>0, <1>1, <2>1 DEF WireInv
<1>8. c = Meta => Len(wire'[c]) + (IF "load" = "store" THEN 1 ELSE 0)
                  = Len(wire[c]) + (IF rx[c] = "store" THEN 1 ELSE 0)
  BY <1>1
<1> QED
  BY <1>0, <1>1, <1>2, <1>3, <1>4, <1>5, <1>6, <1>7, <1>8, WorkerKeeps, WireSame, RxStep

LEMMA RxEofStep == ASSUME IInv, NEW c \in Conns, RxEof(c) PROVE IInv'
<1>0. Records /\ WireInv /\ ConfirmInv /\ CountInv  BY DEF IInv
<1>1. /\ rx[c] \in {"first", "recv"} /\ RxTo(c, "finish") /\ UNCHANGED endVars
      /\ UNCHANGED <<setup, snd, rcv, tx>>
  BY DEF RxEof, RxEofAt
<1>2. /\ UNCHANGED <<setup, snd, rcv, tx, back, txdone, mainVars>> /\ wire' = wire
      /\ knob' = knob /\ metahead' = metahead /\ written' = written /\ metabuf' = metabuf
      /\ buf' = buf /\ threads_finished' = threads_finished
  BY <1>1 DEF endVars, ringVars
<1>3. "finish" \in RxPcs /\ metabuf' \in Conns  BY <1>0, <1>2 DEF RxPcs, Records
<1>4. /\ rx' = [rx EXCEPT ![c] = "finish"] /\ rx'[c] = "finish"
      /\ \A d \in Conns \ {c} : rx'[d] = rx[d]
  BY <1>0, <1>1, <1>3, RxMoved
<1>5. threads_finished' = Cardinality({d \in Conns : rx'[d] = "ended"})
  BY <1>0, <1>1, <1>2, <1>4, EndedSame
<1>6. buf' \in [Conns -> [0 .. Lines -> (Forward \cup {ZERO}) \ {DATA}]]
  BY <1>0, <1>2 DEF ConfirmInv
<1>7. c = Meta => Len(wire'[c]) + (IF "finish" = "store" THEN 1 ELSE 0)
                  = Len(wire[c]) + (IF rx[c] = "store" THEN 1 ELSE 0)
  BY <1>1, <1>2
<1> QED  BY <1>0, <1>1, <1>2, <1>3, <1>4, <1>5, <1>6, <1>7, WireSame, RxStep

LEMMA RxFinishStep == ASSUME IInv, NEW c \in Conns, RxFinish(c) PROVE IInv'
<1>0. Records /\ WireInv /\ ConfirmInv /\ CountInv  BY DEF IInv
<1>1. /\ rx[c] = "finish" /\ RxTo(c, "ended") /\ threads_finished' = threads_finished + 1
      /\ UNCHANGED <<setup, snd, rcv, tx, back, txdone, mainVars>> /\ wire' = wire
      /\ knob' = knob /\ metahead' = metahead /\ written' = written /\ metabuf' = metabuf
      /\ buf' = buf
  BY DEF RxFinish, ringVars
<1>2. "ended" \in RxPcs /\ metabuf' \in Conns  BY <1>0, <1>1 DEF RxPcs, Records
<1>3. /\ rx' = [rx EXCEPT ![c] = "ended"] /\ rx'[c] = "ended"
      /\ \A d \in Conns \ {c} : rx'[d] = rx[d]
  BY <1>0, <1>1, <1>2, RxMoved
<1>4. threads_finished' = Cardinality({d \in Conns : rx'[d] = "ended"})
  <2> DEFINE E == {d \in Conns : rx[d] = "ended"}
  <2>1. {d \in Conns : rx'[d] = "ended"} = E \cup {c} /\ E \in SUBSET Conns /\ c \notin E
    BY <1>1, <1>3
  <2>2. threads_finished = Cardinality(E)  BY <1>0 DEF CountInv
  <2> HIDE DEF E
  <2>3. Cardinality(E \cup {c}) = Cardinality(E) + 1  BY <2>1, OneMore
  <2> QED  BY <1>1, <2>1, <2>2, <2>3
<1>5. buf' \in [Conns -> [0 .. Lines -> (Forward \cup {ZERO}) \ {DATA}]]
  BY <1>0, <1>1 DEF ConfirmInv
<1>6. c = Meta => Len(wire'[c]) + (IF "ended" = "store" THEN 1 ELSE 0)
                  = Len(wire[c]) + (IF rx[c] = "store" THEN 1 ELSE 0)
  BY <1>1
<1> QED  BY <1>0, <1>1, <1>2, <1>3, <1>4, <1>5, <1>6, WireSame, RxStep

LEMMA WriteRingStep == ASSUME IInv, NEW c \in Conns, WriteRing(c) PROVE IInv'
<1>0. Records /\ AgreeInv /\ WireInv /\ ConfirmInv /\ CountInv /\ RingInv  BY DEF IInv
<1>1. /\ rx[c] = "write" /\ ByWorker /\ RxTo(c, "store") /\ RcvAlive
      /\ buf' = [buf EXCEPT ![knob[c].buf][knob[c].h] = Head(wire[c])]
      /\ wire' = [wire EXCEPT ![c] = Tail(@)]
      /\ metabuf' = metabuf /\ metahead' = metahead /\ knob' = knob
  BY DEF WriteRing
<1>2. Replied  BY <1>0, <1>1 DEF WireInv
<1>3. metabuf' \in Conns /\ "store" \in RxPcs  BY <1>0, <1>1 DEF Records, RxPcs
<1>4. /\ rx' = [rx EXCEPT ![c] = "store"] /\ rx'[c] = "store"
      /\ \A d \in Conns \ {c} : rx'[d] = rx[d]
  BY <1>0, <1>1, <1>3, RxMoved
<1>5. threads_finished' = Cardinality({d \in Conns : rx'[d] = "ended"})
  BY <1>0, <1>1, <1>4, WorkerKeeps, EndedSame
<1>6. /\ wire' = [d \in Conns |-> wire'[d]] /\ wire'[c] = Tail(wire[c])
      /\ \A d \in Conns \ {c} : wire'[d] = wire[d]
  <2>1. wire = [d \in Conns |-> wire[d]]  BY <1>0 DEF WireInv
  <2> QED  BY <1>1, <2>1
<1>7. /\ c \in Data => wire[c] = <<BYE>>
      /\ c = Meta => wire[c] # << >> /\ wire[c] \in Seq({SPEC, COUNT, COMPLETE, BYE})
  BY <1>0, <1>1, <1>2 DEF WireInv
<1>8. wire[c] # << >> /\ Head(wire[c]) \in (Forward \cup {ZERO}) \ {DATA}
  <2>1. c \in Data \/ c = Meta  BY DEF Data
  <2>2. wire[c] # << >>  BY <1>7, <2>1, WireContents
  <2>3. wire[c] \in Seq(Forward)  BY <1>0 DEF ConfirmInv
  <2>4. Head(wire[c]) \in Forward  BY <2>2, <2>3, Shorter
  <2>5. Head(wire[c]) \in {SPEC, COUNT, COMPLETE, BYE}
    <3>1. CASE c \in Data  BY <1>7, <3>1, WireContents
    <3>2. CASE c = Meta  BY <1>7, <3>2, Shorter
    <3> QED  BY <2>1, <3>1, <3>2
  <2>6. Head(wire[c]) # DATA  BY <2>5, MessageTypes
  <2> QED  BY <2>2, <2>4, <2>6
<1>9. buf' \in [Conns -> [0 .. Lines -> (Forward \cup {ZERO}) \ {DATA}]]
  <2> DEFINE F == (Forward \cup {ZERO}) \ {DATA}
             w == Head(wire[c])
             b == knob[c].buf
             h == knob[c].h
  <2>1. buf \in [Conns -> [0 .. Lines -> F]] /\ w \in F  BY <1>0, <1>8 DEF ConfirmInv
  <2>2. b \in Conns /\ h \in Nat  BY <1>0 DEF Records
  <2>3. h + Left <= Lines /\ Left \in Nat
    <3>1. LeftSum  BY <1>0, <1>2, LeftTerms
    <3> QED  BY <1>0, <1>1, <1>2, <3>1 DEF RingInv, LeftSum
  <2>4. buf' = [buf EXCEPT ![b][h] = w]  BY <1>1
  <2> HIDE DEF F, w, b, h
  <2>5. h \in 0 .. Lines  BY <2>2, <2>3, EndAssumption
  <2>6. buf' \in [Conns -> [0 .. Lines -> F]]  BY <2>1, <2>2, <2>4, <2>5
  <2> QED  BY <2>6 DEF F
<1>10. c \in Data =>
         /\ wire'[c] = << >>
         /\ wire'[c] \in {<<BYE>>, << >>} <=> wire[c] \in {<<BYE>>, << >>}
  BY <1>6, <1>7, WireContents
<1>11. c = Meta => Len(wire'[c]) + (IF "store" = "store" THEN 1 ELSE 0)
                   = Len(wire[c]) + (IF rx[c] = "store" THEN 1 ELSE 0)
  <2>1. ASSUME c = Meta PROVE Len(wire'[c]) + 1 = Len(wire[c]) + 0
    <3>1. Len(Tail(wire[c])) = Len(wire[c]) - 1 /\ Len(wire[c]) \in Nat
      BY <1>7, <2>1, Shorter
    <3> DEFINE k == Len(wire[c])
    <3>2. Len(wire'[c]) = k - 1 /\ k \in Nat  BY <1>6, <3>1
    <3> HIDE DEF k
    <3>3. Len(wire'[c]) + 1 = k + 0  BY <3>2
    <3> QED  BY <3>3 DEF k
  <2> QED  BY <1>1, <2>1
<1> QED
  BY <1>0, <1>1, <1>3, <1>4, <1>5, <1>6, <1>8, <1>9, <1>10, <1>11, WorkerKeeps, RxStep

\* The step that loads the head, or the one that stores it: all but the ring.
LEMMA HeadStep ==
    ASSUME IInv, NEW c \in Conns, NEW x \in RxPcs, rx[c] \in {"load", "store"},
           RxTo(c, x), x \notin {"memset", "load", "ended"}, x = "write" => rx[c] = "load",
           x # "store", UNCHANGED <<setup, snd, rcv, tx, back, txdone, mainVars>>,
           UNCHANGED <<written, threads_finished, wire, metabuf, buf>>,
           knob' \in [Conns -> [h : Nat, buf : Conns, bye : BOOLEAN]],
           \A d \in Conns \ {c} : knob'[d] = knob[d],
           c \in Data /\ x = "write" => knob'[c].bye
    PROVE  /\ Replied /\ Replied' /\ LeftSum /\ LeftSum' /\ Meta' = Meta /\ Data' = Data
           /\ Unsaid' = Unsaid /\ rcv' = rcv /\ main' = main /\ metatail' = metatail
           /\ RingInv' => IInv'
<1>0. /\ Records /\ AgreeInv /\ WireInv /\ ConfirmInv /\ CountInv /\ RingInv /\ FirstHalf
  BY DEF IInv, FirstHalf
<1>1. /\ rx' = [rx EXCEPT ![c] = x] /\ rx'[c] = x /\ \A d \in Conns \ {c} : rx'[d] = rx[d]
      /\ rx' \in [Conns -> RxPcs] /\ metabuf' \in Conns
  BY <1>0, RxMoved DEF Records
<1>2. /\ FirstHalf' /\ SndMoves /\ RcvMoves /\ Meta' = Meta /\ Data' = Data
      /\ Replied /\ Replied' /\ Unsaid' = Unsaid /\ Meta \in Conns
      /\ snd' = snd /\ rcv' = rcv /\ tx' = tx /\ back' = back /\ txdone' = txdone
      /\ main' = main /\ metatail' = metatail
  BY <1>1, RxFrame
<1>3. WireInv'
  <2>1. c \in Data =>
          /\ tx'[c] \notin {"sent", "ended"} => wire'[c] = << >> \/ (tx'[c] = "stuck" /\ ~RcvAlive)
          /\ tx'[c] = "sent" => wire'[c] \in {<<DATA>>, << >>}
          /\ tx'[c] = "ended" => wire'[c] \in {<<DATA, BYE>>, <<BYE>>, << >>}
          /\ rx'[c] \in {"memset", "load", "write"} => wire'[c] = <<BYE>>
          /\ rx'[c] \in {"write", "store"} => knob'[c].bye
    BY <1>0, <1>1, <1>2 DEF WireInv
  <2>2. c = Meta =>
          /\ wire'[c] \in Seq({SPEC, COUNT, COMPLETE, BYE})
          /\ rx'[c] \in {"memset", "load", "write"} => wire'[c] # << >>
          /\ tx'[c] \in {"sent", "ended"} => ~RcvAlive
    BY <1>0, <1>1, <1>2 DEF WireInv
  <2>3. /\ wire' = [d \in Conns |-> wire'[d]] /\ tx'[c] = tx[c]
        /\ \A d \in Conns \ {c} : /\ wire'[d] = wire[d] /\ tx'[d] = tx[d]
                                  /\ rx'[d] = rx[d] /\ knob'[d] = knob[d]
    BY <1>0, <1>1, <1>2 DEF WireInv
  <2> QED  BY <1>0, <1>2, <2>1, <2>2, <2>3, WireAt
<1>4. ConfirmInv'
  <2>1. /\ \A d \in Conns : wire'[d] \in Seq(Forward)
        /\ buf' \in [Conns -> [0 .. Lines -> (Forward \cup {ZERO}) \ {DATA}]]
        /\ snd'.pc \in {"complete", "flag", "ack", "join", "done"} => Confirmed
    BY <1>0, <1>2 DEF ConfirmInv
  <2> QED  BY <1>0, <1>2, <2>1, ConfirmAt
<1>5. CountInv'
  <2>1. threads_finished' = Cardinality({d \in Conns : rx'[d] = "ended"})
    BY <1>0, <1>1, EndedSame
  <2> QED  BY <1>0, <1>2, <2>1, CountAt
<1>6. LeftSum /\ LeftSum'
  BY <1>0, <1>2, <1>3, LeftTerms, LeftTermsNext DEF FirstHalf
<1> QED  BY <1>2, <1>3, <1>4, <1>5, <1>6 DEF IInv, FirstHalf

LEMMA LoadRingStep == ASSUME IInv, NEW c \in Conns, LoadRing(c) PROVE IInv'
<1> DEFINE k == [h |-> metahead, buf |-> metabuf, bye |-> Head(wire[c]) = BYE]
<1>0. Records /\ AgreeInv /\ WireInv /\ ConfirmInv /\ CountInv /\ RingInv  BY DEF IInv
<1>1. /\ rx[c] = "load" /\ ByWorker /\ RxTo(c, "write") /\ RcvAlive
      /\ knob' = [knob EXCEPT ![c] = k]
      /\ wire' = wire /\ metabuf' = metabuf /\ buf' = buf /\ metahead' = metahead
  BY DEF LoadRing
<1>2. k \in [h : Nat, buf : Conns, bye : BOOLEAN] /\ k.h = metahead
      /\ (k.bye <=> Head(wire[c]) = BYE)
  <2>1. metahead \in Nat /\ metabuf \in Conns  BY <1>0, EndAssumption DEF RingInv, Records
  <2> QED  BY <2>1
<1> HIDE DEF k
<1>3. /\ knob' \in [Conns -> [h : Nat, buf : Conns, bye : BOOLEAN]] /\ knob'[c] = k
      /\ \A d \in Conns \ {c} : knob'[d] = knob[d]
  BY <1>0, <1>1, <1>2 DEF Records
<1>4. c \in Data => knob'[c].bye
  <2>1. c \in Data => wire[c] = <<BYE>>  BY <1>0, <1>1 DEF WireInv
  <2> QED  BY <1>2, <1>3, <2>1, WireContents
<1>5. "write" \in RxPcs  BY DEF RxPcs
<1>6. /\ rx'[c] = "write" /\ \A d \in Conns \ {c} : rx'[d] = rx[d]
  BY <1>0, <1>1, <1>5, RxMoved
<1>7. /\ Replied /\ Replied' /\ LeftSum /\ LeftSum' /\ Meta' = Meta /\ Data' = Data
      /\ Unsaid' = Unsaid /\ rcv' = rcv /\ main' = main /\ metatail' = metatail
      /\ RingInv' => IInv'
  BY <1>1, <1>3, <1>4, <1>5, WorkerKeeps, HeadStep
<1>8. Left' = Left
  <2>1. Unheard' = Unheard
    <3>1. \A d \in Data : rx'[d] \notin {"finish", "ended"} <=> rx[d] \notin {"finish", "ended"}
      BY <1>1, <1>6 DEF Data
    <3> QED  BY <1>7, <3>1 DEF Unheard
  <2>2. Storing' = Storing
    <3>1. Meta \in Conns  BY <1>0, <1>7, MetaConn
    <3> QED  BY <1>1, <1>6, <1>7, <3>1 DEF Storing
  <2> QED  BY <1>1, <1>7, <2>1, <2>2 DEF LeftSum
<1>9. /\ metahead + Left <= Lines
      /\ \A d \in Conns : rx[d] \in {"write", "store"} => knob[d].h + Left <= Lines
  BY <1>0, <1>1, <1>7 DEF RingInv
<1>10. \A d \in Conns : rx'[d] \in {"write", "store"} => knob'[d].h + Left <= Lines
  <2>1. ASSUME NEW d \in Conns, rx'[d] \in {"write", "store"} PROVE knob'[d].h + Left <= Lines
    <3>1. CASE d = c  BY <1>2, <1>3, <1>9, <3>1
    <3>2. CASE d # c  BY <1>3, <1>6, <1>9, <2>1, <3>2
    <3> QED  BY <3>1, <3>2
  <2> QED  BY <2>1
<1>11. RingInv'
  BY <1>0, <1>1, <1>7, <1>8, <1>9, <1>10 DEF RingInv
<1> QED  BY <1>7, <1>11

\* The head never passes the last line: each message that is stored is one less
\* to come, although two workers may have loaded the same head.
LEMMA StoreHeadStep == ASSUME IInv, NEW c \in Conns, StoreHead(c) PROVE IInv'
<1> DEFINE x == IF knob[c].bye THEN "finish" ELSE "recv"
<1>0. Records /\ AgreeInv /\ WireInv /\ ConfirmInv /\ CountInv /\ RingInv  BY DEF IInv
<1>1. /\ rx[c] = "store" /\ ByWorker /\ RxTo(c, x) /\ RcvAlive
      /\ metahead' = knob[c].h + 1 /\ knob' = [knob EXCEPT ![c] = NoKnob]
      /\ wire' = wire /\ metabuf' = metabuf /\ buf' = buf
  BY DEF StoreHead, StoreHeadBy
<1>2. x \in RxPcs /\ x \in {"finish", "recv"} /\ (c \in Data => x = "finish")
  BY <1>0, <1>1 DEF RxPcs, WireInv
<1> HIDE DEF x
<1>3. /\ knob' \in [Conns -> [h : Nat, buf : Conns, bye : BOOLEAN]]
      /\ \A d \in Conns \ {c} : knob'[d] = knob[d]
  <2>1. NoKnob \in [h : Nat, buf : Conns, bye : BOOLEAN]
    BY StartAssumption DEF NoKnob, Conns
  <2> HIDE DEF NoKnob
  <2> QED  BY <1>0, <1>1, <2>1 DEF Records
<1>4. /\ rx'[c] = x /\ \A d \in Conns \ {c} : rx'[d] = rx[d]
  BY <1>0, <1>1, <1>2, RxMoved
<1>5. /\ Replied /\ Replied' /\ LeftSum /\ LeftSum' /\ Meta' = Meta /\ Data' = Data
      /\ Unsaid' = Unsaid /\ rcv' = rcv /\ main' = main /\ metatail' = metatail
      /\ RingInv' => IInv'
  BY <1>1, <1>2, <1>3, WorkerKeeps, HeadStep
<1>6. Meta \in Conns  BY <1>0, <1>5, MetaConn
<1>7. Unsaid' = Unsaid + 0 /\ Len(wire[Meta])' = Len(wire[Meta]) + 0
  <2>1. Unsaid \in Int /\ Len(wire[Meta]) \in Int  BY <1>5 DEF LeftSum
  <2>2. Unsaid' = Unsaid /\ Len(wire[Meta])' = Len(wire[Meta])  BY <1>1, <1>5
  <2> QED  BY <2>1, <2>2
<1>8. Left' = Left - 1
  <2>0. /\ Left \in Int /\ Storing \in Int /\ Cardinality(Unheard) \in Int
    BY <1>5 DEF LeftSum
  <2>1. CASE c \in Data
    <3>1. Unheard' = Unheard \ {c} /\ c \in Unheard
      <4>1. \A d \in Data : rx'[d] \notin {"finish", "ended"}
                            <=> rx[d] \notin {"finish", "ended"} /\ d # c
        BY <1>1, <1>2, <1>4, <2>1 DEF Data
      <4> QED  BY <1>1, <1>5, <2>1, <4>1 DEF Unheard
    <3>2. Cardinality(Unheard)' = Cardinality(Unheard) + (-1)
      <4>1. Unheard \in SUBSET Conns  BY DEF Unheard, Data
      <4>2. Cardinality(Unheard \ {c}) = Cardinality(Unheard) - 1  BY <3>1, <4>1, OneLess
      <4> QED  BY <2>0, <3>1, <4>2
    <3>3. Storing' = Storing + 0
      <4>1. rx'[Meta] = rx[Meta]  BY <1>4, <1>6, <2>1 DEF Data
      <4>2. Storing' = Storing  BY <1>5, <4>1 DEF Storing
      <4> QED  BY <2>0, <4>2
    <3>4. Left' = Left + (-1) + 0 + 0 + 0  BY <1>5, <1>7, <3>2, <3>3, LeftChange
    <3> DEFINE r == Left'
    <3>5. r = Left + (-1) + 0 + 0 + 0  BY <3>4
    <3> HIDE DEF r
    <3>6. r = Left - 1  BY <2>0, <3>5
    <3> QED  BY <3>6 DEF r
  <2>2. CASE c = Meta
    <3>1. Unheard' = Unheard
      <4>1. \A d \in Data : rx'[d] = rx[d]  BY <1>4, <2>2 DEF Data
      <4> QED  BY <1>5, <4>1 DEF Unheard
    <3>2. Cardinality(Unheard)' = Cardinality(Unheard) + 0  BY <2>0, <3>1
    <3>3. Storing' = Storing + (-1)
      <4>1. Storing = 1  BY <1>1, <2>2 DEF Storing
      <4>2. Storing' = 0  BY <1>2, <1>4, <1>5, <2>2 DEF Storing
      <4> QED  BY <4>1, <4>2
    <3>4. Left' = Left + 0 + 0 + 0 + (-1)  BY <1>5, <1>7, <3>2, <3>3, LeftChange
    <3> DEFINE r == Left'
    <3>5. r = Left + 0 + 0 + 0 + (-1)  BY <3>4
    <3> HIDE DEF r
    <3>6. r = Left - 1  BY <2>0, <3>5
    <3> QED  BY <3>6 DEF r
  <2> QED  BY <2>1, <2>2 DEF Data
<1>9. \A d \in Conns : rx[d] \in {"write", "store"} => knob[d].h + Left <= Lines
  BY <1>0, <1>1, <1>5 DEF RingInv
<1> DEFINE r == Left'
<1>10. r = Left - 1 /\ r \in Nat /\ Left \in Nat  BY <1>5, <1>8 DEF LeftSum
<1> HIDE DEF r
<1>11. \A d \in Conns : knob[d].h \in Nat  BY <1>0 DEF Records
<1>12. Lines \in Nat  BY EndAssumption
<1>13. metahead' \in 0 .. Lines /\ metahead' + r <= Lines
  <2> DEFINE h == knob[c].h
             n == metahead'
  <2>1. h \in Nat /\ h + Left <= Lines /\ n = h + 1  BY <1>1, <1>9, <1>11
  <2> HIDE DEF h, n
  <2>2. n \in 0 .. Lines /\ n + r <= Lines  BY <1>10, <1>12, <2>1
  <2> QED  BY <2>2 DEF n
<1>14. \A d \in Conns : rx'[d] \in {"write", "store"} => knob'[d].h + r <= Lines
  <2>1. ASSUME NEW d \in Conns, rx'[d] \in {"write", "store"} PROVE knob'[d].h + r <= Lines
    <3>1. d # c  BY <1>2, <1>4, <2>1
    <3>2. knob'[d] = knob[d] /\ knob[d].h + Left <= Lines /\ knob[d].h \in Nat
      BY <1>3, <1>4, <1>9, <1>11, <2>1, <3>1
    <3>3. knob[d].h + r <= Lines  BY <1>10, <1>12, <3>2
    <3> QED  BY <3>2, <3>3
  <2> QED  BY <2>1
<1>15. RingInv'  BY <1>0, <1>5, <1>13, <1>14 DEF RingInv, r
<1> QED  BY <1>5, <1>15

-----------------------------------------------------------------------------
LEMMA StutterStep == ASSUME IInv, UNCHANGED vars PROVE IInv'
<1>0. Records /\ ConfirmInv /\ CountInv /\ RingInv  BY DEF IInv
<1>1. /\ UNCHANGED setup /\ UNCHANGED endVars /\ snd' = snd /\ rcv' = rcv /\ tx' = tx /\ rx' = rx
  BY DEF vars, startVars
<1>2. Calm
  <2>1. SndMoves /\ RcvMoves /\ Unsaid' = Unsaid  BY <1>1 DEF SndMoves, RcvMoves, Unsaid
  <2>2. Unsaid' <= Unsaid  BY <2>1, UnsaidType
  <2> QED  BY <1>0, <1>1, <2>1, <2>2, EndKept DEF Calm, CountInv, RingInv
<1>3. ConfirmInv'  BY <1>0, <1>1, ConfirmKept
<1>4. /\ metabuf' = metabuf /\ rx' \in [Conns -> RxPcs] /\ tx' \in [Conns -> TxPcs]
      /\ main' \in [ptr : Nat \X Nat, opened : BOOLEAN, counted : BOOLEAN, closed : BOOLEAN, stat : BOOLEAN,
                    complete : BOOLEAN, keeps : Nat, told : BOOLEAN]
  BY <1>0, <1>1, EndKept DEF Records
<1> QED  BY <1>1, <1>2, <1>3, <1>4, CalmStep

\* The invariant holds in every session.
THEOREM Invariance == Spec => []IInv
<1>1. IInv /\ [Next]_vars => IInv'
  <2> SUFFICES ASSUME IInv, [Next]_vars PROVE IInv'  OBVIOUS
  <2>1. CASE StartNext /\ UNCHANGED endVars  BY <2>1, StartStep
  <2>2. CASE Sender  BY <2>2, SenderStep, SayStep DEF Sender
  <2>3. CASE MetaEof \/ Receiver \/ ReportError
    BY <2>3, MetaEofStep, ReceiverStep, ReportErrorStep
  <2>4. CASE \E c \in Conns : TxWorker(c) \/ RxWorker(c)
    <3>1. PICK c \in Conns : TxWorker(c) \/ RxWorker(c)  BY <2>4
    <3>2. CASE TxWorker(c)  BY <3>2, TxWorkerStep
    <3>3. CASE RxWorker(c)
      BY <3>3, RxFirstStep, RxBlockStep, RxCutStep, MetaInitStep, MemsetStep, LoadRingStep,
         WriteRingStep, StoreHeadStep, RxEofStep, RxFinishStep DEF RxWorker
    <3> QED  BY <3>1, <3>2, <3>3
  <2>5. CASE UNCHANGED vars  BY <2>5, StutterStep
  <2> QED  BY <2>1, <2>2, <2>3, <2>4, <2>5 DEF Next
<1> QED  BY <1>1, InitIInv, PTL DEF Spec

\* Program counters and indices stay in their ranges; no more blocks are written
\* than there are data connections, and the ring never gets more lines than it
\* was sent messages.
THEOREM TypeCorrect == Spec => []TypeOK
<1>1. IInv => TypeOK
  <2> SUFFICES ASSUME IInv PROVE TypeOK  OBVIOUS
  <2>0. Records /\ AgreeInv /\ WireInv /\ CountInv /\ RingInv  BY DEF IInv
  <2>1. written \in 0 .. MaxThreads  BY <2>0 DEF CountInv
  <2>2. threads_finished \in 0 .. MaxThreads + 1
    <3> DEFINE E == {c \in Conns : rx[c] = "ended"}
    <3>1. E \in SUBSET Conns /\ threads_finished = Cardinality(E)  BY <2>0 DEF CountInv
    <3> HIDE DEF E
    <3>2. Cardinality(E) \in Nat /\ Cardinality(E) <= MaxThreads + 1  BY <3>1, SomeConns
    <3> QED  BY <3>1, <3>2, StartAssumption
  <2>3. /\ snd.pc \in SndPcs /\ rcv.pc \in RcvPcs
        /\ tx \in [Conns -> TxPcs] /\ rx \in [Conns -> RxPcs] /\ metabuf \in Conns
    BY <2>0 DEF Records
  <2>4. metahead \in 0 .. Lines /\ metatail \in 0 .. Lines  BY <2>0 DEF RingInv
  <2> QED  BY <2>1, <2>2, <2>3, <2>4 DEF TypeOK, SndPcs, RcvPcs, TxPcs, RxPcs
<1> QED  BY <1>1, Invariance, PTL

\* Once the sender has its answer, both processes work with the same block size,
\* checksum mode and number of threads, on the port the receiver listens on.
THEOREM AgreementHolds == Spec => []Agreement
<1>1. IInv => Agreement
  <2> SUFFICES ASSUME IInv, snd.pc \in {"spawn", "run", "check", "confirm", "complete", "flag",
                                        "ack", "join", "done"}
               PROVE  /\ rcv.block = snd.block /\ rcv.hash = snd.hash /\ snd.block >= MinBlock
                      /\ rcv.threads \in {0, snd.threads} /\ snd.port = active_port
    BY DEF Agreement
  <2>0. Records /\ AgreeInv  BY DEF IInv
  <2>1. Replied /\ snd.port = active_port
    BY <2>0 DEF AgreeInv, SndPcs, Ended
  <2>2. rcvr.pc # "none"  BY <2>0, <2>1 DEF AgreeInv, Replied
  <2>3. /\ rcv.block = snd.block /\ rcv.hash = snd.hash /\ snd.block >= MinBlock
        /\ snd.threads = Max({1, rcv.threads})
    BY <2>0, <2>1, <2>2 DEF AgreeInv
  <2>4. rcv.threads \in Nat  BY <2>0 DEF Records
  <2>5. Max({1, rcv.threads}) \in {1, rcv.threads} /\ Max({1, rcv.threads}) >= rcv.threads
    <3>1. 1 \in Int /\ rcv.threads \in Int  BY <2>4
    <3> QED  BY <3>1, MaxPair
  <2>6. rcv.threads \in {0, snd.threads}
    <3> DEFINE k == Max({1, rcv.threads})
    <3>1. snd.threads = k /\ k \in {1, rcv.threads} /\ k >= rcv.threads  BY <2>3, <2>5
    <3> HIDE DEF k
    <3> QED  BY <2>4, <3>1
  <2> QED  BY <2>1, <2>3, <2>6
<1> QED  BY <1>1, Invariance, PTL

\* A sender that reports success has had its file written whole and closed.
THEOREM SenderTruthfulHolds == Spec => []SenderTruthful
<1>1. IInv => SenderTruthful
  BY DEF IInv, ConfirmInv, CountInv, Confirmed, SenderTruthful
<1> QED  BY <1>1, Invariance, PTL

\* A receiver that reports a complete transfer has closed the file and confirmed it.
THEOREM ReceiverTruthfulHolds == Spec => []ReceiverTruthful
<1>1. IInv => ReceiverTruthful
  BY DEF IInv, ConfirmInv, Confirmed, ReceiverTruthful
<1> QED  BY <1>1, Invariance, PTL
=============================================================================
