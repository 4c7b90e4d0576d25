--------------------------- MODULE MetaSendProofs ---------------------------
(***************************************************************************)
(* Proofs about MetaSend, for any finite set of callers and any number of  *)
(* calls: the counter used as a lock admits one caller at a time, and what *)
(* the callers write to the connection is a sequence of whole frames.      *)
(***************************************************************************)
EXTENDS MetaSend, FiniteSetTheorems, SequenceTheorems, TLAPS

\* Callers whose increment is in the counter.
Counted == {t \in Threads : caller[t].pc \in Holding \cup {"backoff"}}

\* The value of the counter is the number of callers that have incremented it
\* and not yet decremented it.
LockCount == meta_lock = Cardinality(Counted)

Last == wire[Len(wire)]

\* No frame is unfinished.
Closed == \/ wire = << >> /\ iv_incr = 0
          \/ wire # << >> /\ Last.kind = "tag" /\ Last.iv = iv_incr

\* What the caller inside meta_send has left on the connection.
Progress(t) ==
    LET c == caller[t] IN
    /\ c.pc \in {"knob", "iv", "hdr", "body"} /\ c.msg.payload => temp_buf = c.msg
    /\ c.pc \in {"hdr", "body", "tag"} =>
          wire # << >> /\ gctx = iv_incr /\ Last.iv = iv_incr /\ Last.msg = c.msg
    /\ c.pc = "hdr"  => Last.kind = "iv"
    /\ c.pc = "body" => Last.kind = "hdr" /\ c.msg.payload
    /\ c.pc = "tag"  => Last.kind = IF c.msg.payload THEN "body" ELSE "hdr"

WireInv ==
    /\ \A t \in Threads : Progress(t)
    /\ (\A t \in Threads : caller[t].pc \notin {"hdr", "body", "tag"}) => Closed

\* The inductive invariant.
IInv == TypeOK /\ LockCount /\ OneSender /\ WireInv /\ Framing

-----------------------------------------------------------------------------
\* The counted callers are finitely many.
LEMMA CountedFinite ==
    /\ IsFiniteSet(Counted)
    /\ Cardinality(Counted) \in Nat
    /\ Cardinality(Counted) = 0 => Counted = {}
<1>1. Counted \subseteq Threads
  BY DEF Counted
<1>2. IsFiniteSet(Counted)
  BY <1>1, SendAssumption, FS_Subset
<1> QED
  BY <1>2, FS_CardinalityType, FS_EmptySet

\* A sequence of frames stays one when a segment that may follow the last one
\* is appended.
LEMMA AppendFramed ==
    ASSUME NEW w \in Seq(Segments), NEW s \in Segments, Framed(w),
           IF w = << >> THEN s.kind = "iv" /\ s.iv = 1
                        ELSE Follows(w[Len(w)], s)
    PROVE  Framed(Append(w, s))
<1> DEFINE v == Append(w, s)
<1>1. /\ Len(v) = Len(w) + 1
      /\ \A i \in 1 .. Len(w) : v[i] = w[i]
      /\ v[Len(w) + 1] = s
      /\ Len(w) \in Nat
      /\ w = << >> <=> Len(w) = 0
  BY AppendProperties, EmptySeq
<1> HIDE DEF v
<1>2. ASSUME NEW i \in 1 .. Len(v)
      PROVE  IF i = 1 THEN v[i].kind = "iv" /\ v[i].iv = 1
                      ELSE Follows(v[i - 1], v[i])
  <2>1. CASE i = Len(w) + 1
    <3>1. CASE i = 1
      BY <1>1, <2>1, <3>1
    <3>2. CASE i # 1
      <4>1. i - 1 \in 1 .. Len(w) /\ i - 1 = Len(w)
        BY <1>1, <2>1, <3>2
      <4>2. v[i - 1] = w[Len(w)] /\ v[i] = s /\ w # << >>
        BY <1>1, <2>1, <4>1
      <4> QED
        BY <3>2, <4>2
    <3> QED
      BY <3>1, <3>2
  <2>2. CASE i # Len(w) + 1
    <3>1. i \in 1 .. Len(w)
      BY <1>1, <2>2
    <3>2. v[i] = w[i] /\ (i # 1 => v[i - 1] = w[i - 1])
      BY <1>1, <3>1
    <3> QED
      BY <3>1, <3>2 DEF Framed
  <2> QED
    BY <2>1, <2>2
<1> QED
  BY <1>2 DEF Framed, v

-----------------------------------------------------------------------------
\* The steps that neither enter nor leave meta_send.
InnerStep(t) ==
    \/ CopyBuf(t) \/ CopyKnob(t)
    \/ SendIV(t) \/ SendHdr(t) \/ SendBody(t) \/ SendTag(t)

\* The counter stays equal to the number of counted callers, and only a caller
\* that finds nobody counted enters.
LEMMA LockStep ==
    ASSUME TypeOK, LockCount, OneSender, [Next]_vars
    PROVE  LockCount' /\ OneSender'
<1> USE CountedFinite
<1>1. ASSUME NEW t \in Threads, NEW payload \in BOOLEAN, Call(t, payload)
      PROVE  LockCount' /\ OneSender'
  <2>1. Counted' = Counted
    BY <1>1 DEF Call, Counted, Holding, TypeOK
  <2> QED
    BY <1>1, <2>1 DEF Call, LockCount, OneSender, Holding, TypeOK
<1>2. ASSUME NEW t \in Threads, TryLock(t)
      PROVE  LockCount' /\ OneSender'
  <2>1. t \notin Counted /\ Counted' = Counted \cup {t}
    BY <1>2 DEF TryLock, Goto, Counted, Holding, TypeOK
  <2>2. Cardinality(Counted') = Cardinality(Counted) + 1
    BY <2>1, FS_AddElement
  <2>3. LockCount'
    BY <1>2, <2>2 DEF TryLock, LockCount
  <2>4. CASE meta_lock = 0
    <3>1. Counted = {}
      BY <2>4 DEF LockCount
    <3> QED
      BY <1>2, <2>3, <3>1 DEF TryLock, Goto, OneSender, Counted, TypeOK
  <2>5. CASE meta_lock # 0
    BY <1>2, <2>3, <2>5 DEF TryLock, Goto, OneSender, Holding, TypeOK
  <2> QED
    BY <2>4, <2>5
<1>3. ASSUME NEW t \in Threads, BackOff(t) \/ Unlock(t)
      PROVE  LockCount' /\ OneSender'
  <2>1. t \in Counted /\ Counted' = Counted \ {t}
    BY <1>3 DEF BackOff, Unlock, Goto, Counted, Holding, TypeOK
  <2>2. Cardinality(Counted') = Cardinality(Counted) - 1
    BY <2>1, FS_RemoveElement
  <2>3. LockCount'
    BY <1>3, <2>2 DEF BackOff, Unlock, LockCount
  <2> QED
    BY <1>3, <2>3 DEF BackOff, Unlock, Goto, OneSender, Holding, TypeOK
<1>4. ASSUME NEW t \in Threads, InnerStep(t)
      PROVE  LockCount' /\ OneSender'
  <2>1. /\ caller[t].pc \in Holding /\ meta_lock' = meta_lock
        /\ \E pc \in Holding : caller' = [caller EXCEPT ![t].pc = pc]
    BY <1>4 DEF InnerStep, CopyBuf, CopyKnob, SendIV, SendHdr, SendBody,
                SendTag, Goto, Holding
  <2>2. PICK pc \in Holding : caller' = [caller EXCEPT ![t].pc = pc]
    BY <2>1
  <2>3. \A u \in Threads : caller'[u].pc = IF u = t THEN pc ELSE caller[u].pc
    BY <2>2 DEF TypeOK
  <2>4. Counted' = Counted
    BY <2>1, <2>3 DEF Counted
  <2> QED
    BY <2>1, <2>3, <2>4 DEF LockCount, OneSender
<1>5. CASE UNCHANGED caller /\ UNCHANGED meta_lock
  BY <1>5 DEF LockCount, OneSender, Counted
<1> QED
  BY <1>1, <1>2, <1>3, <1>4, <1>5
     DEF Next, CallerStep, InnerStep, MetaInit, Returned, vars

-----------------------------------------------------------------------------
\* The segment just written is the last one.
LEMMA AppendLast ==
    ASSUME TypeOK, NEW s \in Segments, wire' = Append(wire, s)
    PROVE  wire' \in Seq(Segments) /\ wire' # << >> /\ Last' = s
<1>1. wire \in Seq(Segments)
  BY DEF TypeOK
<1> QED
  BY <1>1, AppendProperties DEF Last

\* Steps outside meta_send's critical section leave the connection alone.
LEMMA OuterWire ==
    ASSUME IInv, NEW t \in Threads,
           \/ \E payload \in BOOLEAN : Call(t, payload)
           \/ TryLock(t) \/ BackOff(t) \/ Unlock(t)
    PROVE  TypeOK' /\ WireInv' /\ Framing'
<1>1. /\ wire' = wire /\ temp_buf' = temp_buf
      /\ iv_incr' = iv_incr /\ gctx' = gctx
  BY DEF Call, TryLock, BackOff, Unlock
<1>2. /\ \A u \in Threads \ {t} : caller'[u] = caller[u]
      /\ caller[t].pc \in {"idle", "try", "backoff", "unlock"}
      /\ caller'[t].pc \in {"idle", "try", "backoff", "copy"}
  BY DEF Call, TryLock, BackOff, Unlock, Goto, IInv, TypeOK
<1>3. TypeOK'
  <2>1. CASE \E payload \in BOOLEAN : Call(t, payload)
    <3>1. PICK payload \in BOOLEAN : Call(t, payload)
      BY <2>1
    <3>2. [id |-> calls + 1, payload |-> payload] \in Messages /\ calls + 1 \in Nat
      BY DEF IInv, TypeOK, Messages
    <3> QED
      BY <3>1, <3>2 DEF Call, IInv, TypeOK, CallerPCs
  <2>2. CASE TryLock(t) \/ BackOff(t) \/ Unlock(t)
    <3>1. /\ UNCHANGED <<temp_buf, metaknob, knob, iv_incr, gctx, wire, calls>>
          /\ meta_lock' \in Int
          /\ caller[t].pc # "idle"
          /\ \E pc \in CallerPCs : caller' = [caller EXCEPT ![t].pc = pc]
      BY <2>2 DEF TryLock, BackOff, Unlock, Goto, CallerPCs, IInv, TypeOK
    <3> QED
      BY <3>1 DEF IInv, TypeOK
  <2> QED
    BY <2>1, <2>2
<1>4. ASSUME NEW u \in Threads
      PROVE  Progress(u)'
  BY <1>1, <1>2 DEF Progress, IInv, WireInv, Last
<1>5. (\A u \in Threads : caller'[u].pc \notin {"hdr", "body", "tag"}) => Closed'
  BY <1>1, <1>2 DEF IInv, WireInv, Closed, Last
<1> QED
  BY <1>1, <1>3, <1>4, <1>5 DEF IInv, WireInv, Framing

\* Steps of the caller that holds the lock: the connection gains at most the
\* segment that is due.
LEMMA InnerWire ==
    ASSUME IInv, NEW t \in Threads, InnerStep(t)
    PROVE  TypeOK' /\ WireInv' /\ Framing'
<1> USE DEF IInv
<1>1. caller[t].pc \in Holding \ {"unlock"}
  BY DEF InnerStep, CopyBuf, CopyKnob, SendIV, SendHdr, SendBody, SendTag, Holding
<1>2. \A u \in Threads \ {t} : caller[u].pc \notin Holding
  BY <1>1 DEF OneSender
<1>3. /\ caller[t].msg \in Messages
      /\ caller[t] \in [pc : CallerPCs, msg : Messages \cup {NoMessage}]
      /\ Progress(t)
  BY <1>1 DEF TypeOK, Holding, WireInv
<1>4. ASSUME NEW pc \in Holding, caller' = [caller EXCEPT ![t].pc = pc]
      PROVE  /\ caller'[t].pc = pc /\ caller'[t].msg = caller[t].msg
             /\ \A u \in Threads \ {t} : caller'[u].pc \notin Holding
             /\ caller' \in [Threads -> [pc : CallerPCs,
                                         msg : Messages \cup {NoMessage}]]
             /\ \A u \in Threads : caller'[u].pc # "idle" => caller'[u].msg \in Messages
             /\ \A u \in Threads \ {t} : Progress(u)'
  <2>1. /\ caller'[t].pc = pc /\ caller'[t].msg = caller[t].msg
        /\ \A u \in Threads \ {t} : caller'[u] = caller[u]
        /\ caller' \in [Threads -> [pc : CallerPCs, msg : Messages \cup {NoMessage}]]
    BY <1>4 DEF TypeOK, CallerPCs, Holding
  <2> QED
    BY <1>2, <1>3, <2>1 DEF TypeOK, Progress, Holding
<1>5. CASE CopyBuf(t) \/ CopyKnob(t)
  <2>1. /\ wire' = wire /\ iv_incr' = iv_incr /\ gctx' = gctx
        /\ caller[t].pc \in {"copy", "knob"}
        /\ \E pc \in {"knob", "iv"} : caller' = [caller EXCEPT ![t].pc = pc]
    BY <1>5 DEF CopyBuf, CopyKnob, Goto
  <2>2. PICK pc \in {"knob", "iv"} : caller' = [caller EXCEPT ![t].pc = pc]
    BY <2>1
  <2>3. /\ caller'[t].pc = pc /\ caller'[t].msg = caller[t].msg
        /\ caller' \in [Threads -> [pc : CallerPCs, msg : Messages \cup {NoMessage}]]
        /\ \A u \in Threads : caller'[u].pc # "idle" => caller'[u].msg \in Messages
        /\ \A u \in Threads \ {t} : Progress(u)'
    BY <1>4, <2>2 DEF Holding
  <2>4. TypeOK'
    BY <1>3, <1>5, <2>1, <2>3 DEF TypeOK, CopyBuf, CopyKnob
  <2>5. Progress(t)'
    BY <1>3, <1>5, <2>2, <2>3 DEF Progress, CopyBuf, CopyKnob
  <2>6. Closed'
    BY <1>1, <1>2, <2>1 DEF WireInv, Closed, Last, Holding
  <2> QED
    BY <2>1, <2>3, <2>4, <2>5, <2>6 DEF WireInv, Framing
<1>6. ASSUME NEW s \in Segments, wire' = Append(wire, s),
             NEW pc \in Holding, caller' = [caller EXCEPT ![t].pc = pc],
             IF wire = << >> THEN s.kind = "iv" /\ s.iv = 1 ELSE Follows(Last, s),
             iv_incr' \in Nat, gctx' \in Nat,
             UNCHANGED <<meta_lock, temp_buf, metaknob, knob, calls>>
      PROVE  /\ TypeOK' /\ Framing' /\ wire' # << >> /\ Last' = s
             /\ caller'[t].pc = pc /\ caller'[t].msg = caller[t].msg
             /\ \A u \in Threads \ {t} : Progress(u)'
  <2>1. wire' \in Seq(Segments) /\ wire' # << >> /\ Last' = s
    BY <1>6, AppendLast
  <2>2. Framing'
    <3>1. wire \in Seq(Segments) /\ Framed(wire)
      BY DEF TypeOK, Framing
    <3>2. Framed(Append(wire, s))
      BY <1>6, <3>1, AppendFramed DEF Last
    <3> QED
      BY <1>6, <3>2 DEF Framing
  <2> QED
    BY <1>4, <1>6, <2>1, <2>2 DEF TypeOK
<1>7. CASE SendIV(t)
  <2> DEFINE s == Segment("iv", caller[t].msg, iv_incr + 1)
  <2>1. s \in Segments /\ iv_incr \in Nat
    BY <1>3 DEF Segments, Segment, TypeOK
  <2>2. Closed
    BY <1>2, <1>7 DEF WireInv, SendIV, Holding
  <2>3. IF wire = << >> THEN s.kind = "iv" /\ s.iv = 1 ELSE Follows(Last, s)
    BY <2>1, <2>2 DEF Closed, Follows, Segment
  <2>4. /\ TypeOK' /\ Framing' /\ wire' # << >> /\ Last' = s
        /\ caller'[t].pc = "hdr" /\ caller'[t].msg = caller[t].msg
        /\ \A u \in Threads \ {t} : Progress(u)'
    BY <1>6, <1>7, <2>1, <2>3 DEF SendIV, Goto, Holding
  <2>5. Progress(t)'
    BY <1>3, <1>7, <2>4 DEF Progress, SendIV, Segment
  <2> QED
    BY <2>4, <2>5 DEF WireInv
<1>8. CASE SendHdr(t)
  <2> DEFINE s == Segment("hdr", caller[t].msg, gctx)
             pc == IF caller[t].msg.payload THEN "body" ELSE "tag"
  <2>1. s \in Segments /\ gctx \in Nat /\ iv_incr \in Nat
    BY <1>3 DEF Segments, Segment, TypeOK
  <2>2. wire # << >> /\ Follows(Last, s)
    BY <1>3, <1>8 DEF Progress, SendHdr, Follows, Segment
  <2>3. /\ TypeOK' /\ Framing' /\ wire' # << >> /\ Last' = s
        /\ caller'[t].pc = pc /\ caller'[t].msg = caller[t].msg
        /\ \A u \in Threads \ {t} : Progress(u)'
    BY <1>6, <1>8, <2>1, <2>2 DEF SendHdr, Goto, Holding
  <2>4. Progress(t)'
    BY <1>3, <1>8, <2>3 DEF Progress, SendHdr, Segment
  <2> QED
    BY <2>3, <2>4 DEF WireInv
<1>9. CASE SendBody(t)
  <2> DEFINE s == Segment("body", temp_buf, gctx)
  <2>1. temp_buf = caller[t].msg /\ caller[t].msg.payload
    BY <1>3, <1>9 DEF Progress, SendBody
  <2>2. s \in Segments /\ gctx \in Nat /\ iv_incr \in Nat
    BY <1>3, <2>1 DEF Segments, Segment, TypeOK
  <2>3. wire # << >> /\ Follows(Last, s)
    BY <1>3, <1>9, <2>1 DEF Progress, SendBody, Follows, Segment
  <2>4. /\ TypeOK' /\ Framing' /\ wire' # << >> /\ Last' = s
        /\ caller'[t].pc = "tag" /\ caller'[t].msg = caller[t].msg
        /\ \A u \in Threads \ {t} : Progress(u)'
    BY <1>6, <1>9, <2>2, <2>3 DEF SendBody, Goto, Holding
  <2>5. Progress(t)'
    BY <1>3, <1>9, <2>1, <2>4 DEF Progress, SendBody, Segment
  <2> QED
    BY <2>4, <2>5 DEF WireInv
<1>10. CASE SendTag(t)
  <2> DEFINE s == Segment("tag", caller[t].msg, gctx)
  <2>1. s \in Segments /\ gctx \in Nat /\ iv_incr \in Nat
    BY <1>3 DEF Segments, Segment, TypeOK
  <2>2. wire # << >> /\ Follows(Last, s)
    BY <1>3, <1>10 DEF Progress, SendTag, Follows, Segment
  <2>3. /\ TypeOK' /\ Framing' /\ wire' # << >> /\ Last' = s
        /\ caller'[t].pc = "unlock" /\ caller'[t].msg = caller[t].msg
        /\ \A u \in Threads \ {t} : Progress(u)'
    BY <1>6, <1>10, <2>1, <2>2 DEF SendTag, Goto, Holding
  <2>4. Progress(t)' /\ Closed'
    BY <1>3, <1>10, <2>3 DEF Progress, Closed, SendTag, Segment
  <2> QED
    BY <2>3, <2>4 DEF WireInv
<1> QED
  BY <1>5, <1>7, <1>8, <1>9, <1>10 DEF InnerStep

-----------------------------------------------------------------------------
\* IInv is an invariant of meta_send's callers.
THEOREM SendInvariant == Spec => []IInv
<1>1. Init => IInv
  <2> SUFFICES ASSUME Init PROVE IInv
    OBVIOUS
  <2>1. TypeOK
    <3>1. wire \in Seq(Segments)
      BY EmptySeq DEF Init
    <3>2. [pc |-> "idle", msg |-> NoMessage] \in
              [pc : CallerPCs, msg : Messages \cup {NoMessage}]
      BY DEF CallerPCs
    <3>3. /\ caller \in [Threads -> [pc : CallerPCs, msg : Messages \cup {NoMessage}]]
          /\ \A t \in Threads : caller[t].pc = "idle"
      BY <3>2 DEF Init
    <3>4. meta_lock \in Int /\ iv_incr \in Nat /\ gctx \in Nat /\ calls \in Nat
      BY DEF Init
    <3>5. metaknob \in BOOLEAN /\ knob \in BOOLEAN /\ temp_buf \in Messages \cup {NoMessage}
      BY DEF Init
    <3> QED
      BY <3>1, <3>3, <3>4, <3>5 DEF TypeOK
  <2>2. Counted = {}
    BY DEF Init, Counted, Holding
  <2>3. LockCount
    BY <2>2, FS_EmptySet DEF Init, LockCount
  <2>4. OneSender /\ WireInv /\ Framing
    BY DEF Init, OneSender, Holding, WireInv, Progress, Closed, Framing, Framed
  <2> QED
    BY <2>1, <2>3, <2>4 DEF IInv
<1>2. IInv /\ [Next]_vars => IInv'
  <2> SUFFICES ASSUME IInv, [Next]_vars PROVE IInv'
    OBVIOUS
  <2>1. LockCount' /\ OneSender'
    BY LockStep DEF IInv
  <2>2. TypeOK' /\ WireInv' /\ Framing'
    <3>1. CASE UNCHANGED <<temp_buf, iv_incr, gctx, caller, wire>>
               /\ UNCHANGED <<meta_lock, knob, calls>> /\ metaknob' \in BOOLEAN
      BY <3>1 DEF IInv, TypeOK, WireInv, Progress, Closed, Last, Framing
    <3>2. CASE MetaInit \/ Returned \/ UNCHANGED vars
      BY <3>1, <3>2 DEF MetaInit, Returned, vars, IInv, TypeOK
    <3>3. CASE \E t \in Threads : CallerStep(t)
      BY <3>3, OuterWire, InnerWire DEF CallerStep, InnerStep
    <3> QED
      BY <3>2, <3>3 DEF Next
  <2> QED
    BY <2>1, <2>2 DEF IInv
<1> QED
  BY <1>1, <1>2, PTL DEF Spec

\* At most one caller is inside meta_send, whatever the number of callers.
THEOREM OneSenderHolds == Spec => []OneSender
<1>1. IInv => OneSender
  BY DEF IInv
<1> QED
  BY <1>1, SendInvariant, PTL

\* The metadata connection carries whole frames with consecutive IVs.
THEOREM FramingHolds == Spec => []Framing
<1>1. IInv => Framing
  BY DEF IInv
<1> QED
  BY <1>1, SendInvariant, PTL

\* Every variable of meta_send keeps its type; in particular only messages,
\* never an uninitialised buffer, are written.
THEOREM SendTypeCorrect == Spec => []TypeOK
<1>1. IInv => TypeOK
  BY DEF IInv
<1> QED
  BY <1>1, SendInvariant, PTL
=============================================================================
