----------------------------- MODULE MCSession -----------------------------
(* A small instance of SessionEnd for TLC. *)
EXTENDS SessionEnd

\* Sizes: one above and one below the minimum, and 2 GiB, which is 2^31, in a
\* scale where KiB is 4 and the powers of it keep their order.
Mega == [val |-> 1, unit |-> "m", bit |-> FALSE]
Tiny == [val |-> 1, unit |-> "k", bit |-> FALSE]
Huge == [val |-> 2, unit |-> "g", bit |-> FALSE]

Plain == [uri |-> FALSE, user |-> None, host |-> <<"h">>, port |-> None,
          path |-> <<"p">>, bracket |-> FALSE]
Uri   == [uri |-> TRUE, user |-> {<<"u">>}, host |-> <<"h">>, port |-> {"22"},
          path |-> <<"p", "/", "q">>, bracket |-> FALSE]
\* An IPv6 address in brackets.
V6    == [host |-> <<"a", ":", "b">>, bracket |-> TRUE]
Nowhere == [Plain EXCEPT !.host = << >>]

With(r, s) == [f \in DOMAIN r |-> IF f \in DOMAIN s THEN s[f] ELSE r[f]]
Dests == {Plain, With(Plain, V6), Uri, With(Uri, V6), [Uri EXCEPT !.port = None],
          [Uri EXCEPT !.path = << >>], [Plain EXCEPT !.user = {<<"u", "@", "v">>}], Nowhere}

Cmd == [dest |-> Plain, threads |-> 1, block |-> Mega, writechecksum |-> FALSE,
        nochecksum |-> FALSE, engine |-> TRUE, sources |-> TRUE, log |-> FALSE,
        port |-> 0]

At(c, b, k) == [cmd |-> c, files |-> TRUE, busy |-> b, crash |-> k]

\* One command line for each thing that may differ, with and without ports taken
\* (the last port, too); in the last one either process may be killed.
Any == {At([Cmd EXCEPT !.dest = d], {}, {}) : d \in Dests} \cup
       {At([Cmd EXCEPT !.engine = FALSE], {}, {}), At([Cmd EXCEPT !.sources = FALSE], {}, {}),
        At([Cmd EXCEPT !.threads = 3], 4 .. 6, {}), At([Cmd EXCEPT !.threads = 3], {}, {}),
        At([Cmd EXCEPT !.threads = 0, !.block = Huge, !.nochecksum = TRUE, !.port = 3], {3}, {}),
        At([Cmd EXCEPT !.port = 7], {7}, {}), [At(Cmd, {}, {}) EXCEPT !.files = FALSE],
        At([Cmd EXCEPT !.block = Tiny, !.writechecksum = TRUE, !.log = TRUE],
           {4, 5}, {"sender", "receiver"})}
Ports == {"22"}
=============================================================================
