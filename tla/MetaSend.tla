------------------------------ MODULE MetaSend ------------------------------
(***************************************************************************)
(* meta_send of libdtn/src/dtn.c, the writer of the metadata connection,   *)
(* with the part of network_send it uses.  It is called by the main thread *)
(* and, on the receiver, also by the logging thread; a counter used as a   *)
(* spin lock keeps the callers apart, because they share a buffer, the     *)
(* connection, its IV counter and its AES-GCM context.                     *)
(***************************************************************************)
EXTENDS Integers, Sequences, FiniteSets

CONSTANTS Threads,    \* callers of meta_send
          MaxCalls    \* bound: calls in a behaviour

ASSUME SendAssumption == IsFiniteSet(Threads) /\ MaxCalls \in Nat

\* A message; one without payload (buf = NULL) is only a header.
Messages  == [id : Nat \ {0}, payload : BOOLEAN]
NoMessage == [id |-> 0, payload |-> FALSE]

\* What is written to the socket: the IV, the 16-byte header, the payload and
\* the authentication tag of a frame.  iv is the IV of the context the
\* segment was processed with.
Segments == [kind : {"iv", "hdr", "body", "tag"}, msg : Messages, iv : Nat]

VARIABLES
    meta_lock,   \* the counter
    temp_buf,    \* shared: the payload being sent
    metaknob,    \* the connection is there
    knob,        \* meta_send has made its own copy of the connection
    iv_incr,     \* IV counter of the connection
    gctx,        \* IV the GCM context was initialised with
    caller,      \* callers: program counter and message
    wire,        \* the segments written
    calls        \* calls made

vars == <<meta_lock, temp_buf, metaknob, knob, iv_incr, gctx, caller, wire, calls>>

CallerPCs == {"idle", "try", "backoff", "copy", "knob", "iv", "hdr", "body",
              "tag", "unlock"}

Init ==
    /\ meta_lock = 0
    /\ temp_buf = NoMessage
    /\ metaknob = FALSE /\ knob = FALSE
    /\ iv_incr = 0 /\ gctx = 0
    /\ caller = [t \in Threads |-> [pc |-> "idle", msg |-> NoMessage]]
    /\ wire = << >>
    /\ calls = 0

Goto(t, pc) == caller' = [caller EXCEPT ![t].pc = pc]

-----------------------------------------------------------------------------
Call(t, payload) ==
    /\ caller[t].pc = "idle"
    /\ calls < MaxCalls
    /\ calls' = calls + 1
    /\ caller' = [caller EXCEPT ![t] =
                    [pc |-> "try", msg |-> [id |-> calls + 1, payload |-> payload]]]
    /\ UNCHANGED <<meta_lock, temp_buf, metaknob, knob, iv_incr, gctx, wire>>

\* Mutant of TryLock: the test admits a second caller.
TryLockTwo(t) ==
    /\ caller[t].pc = "try"
    /\ meta_lock' = meta_lock + 1
    /\ Goto(t, IF meta_lock <= 1 THEN "copy" ELSE "backoff")
    /\ UNCHANGED <<temp_buf, metaknob, knob, iv_incr, gctx, wire, calls>>

\* atomic_fetch_add(&meta_lock, 1): the caller that finds 0 enters.
TryLock(t) ==
    /\ caller[t].pc = "try"
    /\ meta_lock' = meta_lock + 1
    /\ Goto(t, IF meta_lock = 0 THEN "copy" ELSE "backoff")
    /\ UNCHANGED <<temp_buf, metaknob, knob, iv_incr, gctx, wire, calls>>

BackOff(t) ==
    /\ caller[t].pc = "backoff"
    /\ meta_lock' = meta_lock - 1
    /\ Goto(t, "try")
    /\ UNCHANGED <<temp_buf, metaknob, knob, iv_incr, gctx, wire, calls>>

\* Mutant of CopyBuf: the test of buf is the wrong way round.
CopyBufInverted(t) ==
    /\ caller[t].pc = "copy"
    /\ temp_buf' = IF caller[t].msg.payload THEN temp_buf ELSE caller[t].msg
    /\ Goto(t, "knob")
    /\ UNCHANGED <<meta_lock, metaknob, knob, iv_incr, gctx, wire, calls>>

CopyBuf(t) ==
    /\ caller[t].pc = "copy"
    /\ temp_buf' = IF caller[t].msg.payload THEN caller[t].msg ELSE temp_buf
    /\ Goto(t, "knob")
    /\ UNCHANGED <<meta_lock, metaknob, knob, iv_incr, gctx, wire, calls>>

\* The first call waits here, holding the lock, for the connection.
CopyKnob(t) ==
    /\ caller[t].pc = "knob"
    /\ knob \/ metaknob
    /\ knob' = TRUE
    /\ Goto(t, "iv")
    /\ UNCHANGED <<meta_lock, temp_buf, metaknob, iv_incr, gctx, wire, calls>>

\* meta_init, by the thread that accepted or made the metadata connection.
MetaInit ==
    /\ ~metaknob
    /\ metaknob' = TRUE
    /\ UNCHANGED <<meta_lock, temp_buf, knob, iv_incr, gctx, caller, wire, calls>>

-----------------------------------------------------------------------------
(* network_send, with encryption                                            *)

Segment(kind, msg, iv) == [kind |-> kind, msg |-> msg, iv |-> iv]

\* First call for a frame: a new IV, written in clear, starts the context.
SendIV(t) ==
    /\ caller[t].pc = "iv"
    /\ iv_incr' = iv_incr + 1
    /\ gctx' = iv_incr + 1
    /\ wire' = Append(wire, Segment("iv", caller[t].msg, iv_incr + 1))
    /\ Goto(t, "hdr")
    /\ UNCHANGED <<meta_lock, temp_buf, metaknob, knob, calls>>

SendHdr(t) ==
    /\ caller[t].pc = "hdr"
    /\ wire' = Append(wire, Segment("hdr", caller[t].msg, gctx))
    /\ Goto(t, IF caller[t].msg.payload THEN "body" ELSE "tag")
    /\ UNCHANGED <<meta_lock, temp_buf, metaknob, knob, iv_incr, gctx, calls>>

SendBody(t) ==
    /\ caller[t].pc = "body"
    /\ wire' = Append(wire, Segment("body", temp_buf, gctx))
    /\ Goto(t, "tag")
    /\ UNCHANGED <<meta_lock, temp_buf, metaknob, knob, iv_incr, gctx, calls>>

SendTag(t) ==
    /\ caller[t].pc = "tag"
    /\ wire' = Append(wire, Segment("tag", caller[t].msg, gctx))
    /\ Goto(t, "unlock")
    /\ UNCHANGED <<meta_lock, temp_buf, metaknob, knob, iv_incr, gctx, calls>>

-----------------------------------------------------------------------------
\* Mutant of Unlock: the counter is reset instead of decremented, which
\* forgets the callers that are backing off.
UnlockStore(t) ==
    /\ caller[t].pc = "unlock"
    /\ meta_lock' = 0
    /\ Goto(t, "idle")
    /\ UNCHANGED <<temp_buf, metaknob, knob, iv_incr, gctx, wire, calls>>

Unlock(t) ==
    /\ caller[t].pc = "unlock"
    /\ meta_lock' = meta_lock - 1
    /\ Goto(t, "idle")
    /\ UNCHANGED <<temp_buf, metaknob, knob, iv_incr, gctx, wire, calls>>

CallerStep(t) ==
    \/ \E payload \in BOOLEAN : Call(t, payload)
    \/ TryLock(t) \/ BackOff(t) \/ CopyBuf(t) \/ CopyKnob(t)
    \/ SendIV(t) \/ SendHdr(t) \/ SendBody(t) \/ SendTag(t) \/ Unlock(t)

\* Every caller has returned from its last call.
Returned ==
    /\ calls = MaxCalls /\ metaknob
    /\ \A t \in Threads : caller[t].pc = "idle"
    /\ UNCHANGED vars

Next == (\E t \in Threads : CallerStep(t)) \/ MetaInit \/ Returned

Spec == Init /\ [][Next]_vars

-----------------------------------------------------------------------------
TypeOK ==
    /\ meta_lock \in Int
    /\ temp_buf \in Messages \cup {NoMessage}
    /\ metaknob \in BOOLEAN /\ knob \in BOOLEAN
    /\ iv_incr \in Nat /\ gctx \in Nat
    /\ caller \in [Threads -> [pc : CallerPCs, msg : Messages \cup {NoMessage}]]
    /\ \A t \in Threads : caller[t].pc # "idle" => caller[t].msg \in Messages
    /\ wire \in Seq(Segments)
    /\ calls \in Nat

\* Segment s may directly follow segment r on the connection.
Follows(r, s) ==
    CASE s.kind = "iv"   -> r.kind = "tag" /\ s.iv = r.iv + 1
      [] s.kind = "hdr"  -> r.kind = "iv" /\ s.msg = r.msg /\ s.iv = r.iv
      [] s.kind = "body" -> /\ r.kind = "hdr" /\ s.msg = r.msg /\ s.iv = r.iv
                            /\ s.msg.payload
      [] s.kind = "tag"  -> /\ s.msg = r.msg /\ s.iv = r.iv
                            /\ r.kind = IF s.msg.payload THEN "body" ELSE "hdr"

\* A sequence of whole frames, the last one possibly unfinished.
Framed(w) ==
    \A i \in 1 .. Len(w) :
        IF i = 1 THEN w[i].kind = "iv" /\ w[i].iv = 1
                 ELSE Follows(w[i - 1], w[i])

\* The connection carries whole frames: every header is followed by the
\* payload of its own call and by a tag computed in the same context, and
\* consecutive frames use consecutive IVs, so that none is used twice, however
\* the callers of meta_send interleave.
Framing == Framed(wire)

\* Between the atomic_fetch_add that found 0 and the one that releases, a
\* caller of meta_send is the only one: increments of callers that are backing
\* off never let a second one in.
Holding == {"copy", "knob", "iv", "hdr", "body", "tag", "unlock"}
OneSender ==
    \A s, t \in Threads :
        (caller[s].pc \in Holding /\ caller[t].pc \in Holding) => s = t
=============================================================================
