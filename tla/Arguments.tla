----------------------------- MODULE Arguments -----------------------------
(***************************************************************************)
(* The sequential helpers of escp.rs and sender.rs that turn the command   *)
(* line into the arguments of a session: sizes (int_from_human), the       *)
(* destination (parse_dest), start_escp itself, and the headers of messages*)
(* (to_header, from_header).                                               *)
(*                                                                         *)
(* A destination is a sequence of tokens: the characters the parser looks  *)
(* for, and pieces of text between them.  An Option is a set with at most  *)
(* one element.                                                            *)
(***************************************************************************)
EXTENDS Integers, Sequences, FiniteSets, FiniteSetsExt

CONSTANTS KiB,           \* 1024
          Kilo,          \* 1000
          I32,           \* 2^31
          U64,           \* 2^64
          MinBlock,      \* 256 * 1024
          Byte,          \* 256
          PortNumbers    \* the tokens that parse::<u16> accepts

ASSUME ArgumentsAssumption ==
    /\ {KiB, Kilo, I32, U64, MinBlock, Byte} \subseteq Nat \ {0}
    /\ MinBlock < I32 /\ U64 % (2 * I32) = 0

-----------------------------------------------------------------------------
(* Sizes: a number, the first letter of its unit and whether the unit      *)
(* contains "bit".                                                         *)

Units == <<"k", "m", "g", "t", "p", "e">>

\* The position of the unit in " kmgtpe", 0 if it is not there.
Pow(unit) == Max({0} \cup {i \in DOMAIN Units : Units[i] = unit})

int_from_human(s) ==
    ((s.val * (IF s.bit THEN Kilo ELSE KiB) ^ Pow(s.unit)) % U64)
        \div (IF s.bit THEN 8 ELSE 1)

\* The cast "as i32" of a u64.
AsI32(v) == LET w == v % (2 * I32) IN IF w < I32 THEN w ELSE w - 2 * I32

\* start_escp: the block size, with its minimum.
BlockSize(s) == Max({AsI32(int_from_human(s)), MinBlock})

-----------------------------------------------------------------------------
(* Headers: four bytes of size, two of type, big endian.                   *)

to_header(sz, typ) ==
    << (sz \div Byte ^ 3) % Byte, (sz \div Byte ^ 2) % Byte,
       (sz \div Byte) % Byte, sz % Byte, typ \div Byte, typ % Byte >>

from_header(h) ==
    << h[1] * Byte ^ 3 + h[2] * Byte ^ 2 + h[3] * Byte + h[4], h[5] * Byte + h[6] >>

-----------------------------------------------------------------------------
(* Destinations.                                                           *)

None == {}
Some(x) == {x}

Positions(s, t) == {i \in DOMAIN s : s[i] = t}
Before(s, i) == SubSeq(s, 1, i - 1)
After(s, i)  == SubSeq(s, i + 1, Len(s))

\* split_once and rsplit_once: the position of the separator, 0 if none.
FirstOf(s, t) == IF Positions(s, t) = {} THEN 0 ELSE Min(Positions(s, t))
LastOf(s, t)  == Max({0} \cup Positions(s, t))

\* parse::<u16>().ok()
ParsePort(s) == IF Len(s) = 1 /\ s[1] \in PortNumbers THEN Some(s[1]) ELSE None

Refused(user, dest) ==
    [user |-> user, host |-> None, port |-> None, dest |-> dest, error |-> TRUE]

\* The host and port of a URI; what follows a bracketed address has to be a
\* port, what follows the last colon of a name is ignored if it is not one.
HostPort(user, dest, s) ==
    LET rb == LastOf(s, "]")
        c  == LastOf(s, ":")
        rest == After(s, rb)
        bracketed == s # << >> /\ s[1] = "["
        host == IF bracketed THEN SubSeq(s, 2, rb - 1)
                ELSE IF c > 0 THEN Before(s, c) ELSE s
        port == IF bracketed
                THEN IF rest # << >> /\ rest[1] = ":" THEN ParsePort(Tail(rest)) ELSE None
                ELSE IF c > 0 THEN ParsePort(After(s, c)) ELSE None
    IN  IF \/ bracketed /\ (rb = 0 \/ (rest # << >> /\ port = None))
           \/ host = << >>
        THEN Refused(user, dest)
        ELSE [user |-> user, host |-> Some(host), port |-> port, dest |-> dest,
              error |-> FALSE]

\* scp://[user@]host[:port][/path]
ParseUri(s) ==
    LET at   == LastOf(s, "@")
        rest == After(s, at)
        sl   == FirstOf(rest, "/")
    IN  HostPort(IF at > 0 THEN Some(Before(s, at)) ELSE None,
                 IF sl > 0 THEN Some(After(rest, sl)) ELSE None,
                 IF sl > 0 THEN Before(rest, sl) ELSE rest)

Unbracket(s) ==
    IF Len(s) > 1 /\ s[1] = "[" /\ s[Len(s)] = "]" THEN SubSeq(s, 2, Len(s) - 1) ELSE s

\* [user@]host:[path]
ParsePlain(s) ==
    LET c    == LastOf(s, ":")
        at   == LastOf(Before(s, c), "@")
        user == IF at > 0 THEN Some(Before(s, at)) ELSE None
        host == After(Before(s, c), at)
    IN  IF c = 0 \/ host = << >>
        THEN Refused(IF c = 0 THEN None ELSE user, None)
        ELSE [user |-> user, host |-> Some(Unbracket(host)), port |-> None,
              dest |-> Some(After(s, c)), error |-> FALSE]

\* Mutant of parse_dest: the plain form splits at the first colon.
parse_dest_first(d) ==
    LET s == d.text
        c == FirstOf(s, ":")
    IN  IF d.uri THEN ParseUri(s)
        ELSE IF c = 0 THEN Refused(None, None)
        ELSE [ParsePlain(Append(Before(s, c), ":")) EXCEPT !.dest = Some(After(s, c))]

parse_dest(d) ==
    IF d.text = << >> THEN Refused(None, None)
    ELSE IF d.uri THEN ParseUri(d.text) ELSE ParsePlain(d.text)

-----------------------------------------------------------------------------
(* What the user means: the reference the parser is compared with.         *)

Written(p) ==
    LET user == IF p.user = None THEN << >>
                ELSE Append(CHOOSE u \in p.user : TRUE, "@")
        host == IF p.bracket THEN <<"[">> \o p.host \o <<"]">> ELSE p.host
        port == IF p.port = None THEN << >>
                ELSE <<":", CHOOSE n \in p.port : TRUE>>
    IN  [uri  |-> p.uri,
         text |-> user \o host \o
                  (IF p.uri THEN port \o (IF p.path = << >> THEN << >> ELSE <<"/">> \o p.path)
                   ELSE <<":">> \o p.path)]
=============================================================================
