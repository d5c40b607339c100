-------------------------------- MODULE Wire --------------------------------
(***************************************************************************)
(* One direction of a byte-stream connection (a TcpStream, or the TLS      *)
(* stream on top of one).  A wire holds the items written and not yet read *)
(* (q), how its writer left it (end) and whether its reader dropped it     *)
(* (gone).  An item is one unit the programs read or write whole: a SOCKS  *)
(* field, an HTTP head, a TLS flight or a piece of payload.                *)
(*   end = "none"  not connected yet                                       *)
(*         "open"  the writer may still write                              *)
(*         "eof"   finished cleanly: TCP FIN, or close_notify then FIN     *)
(*         "cut"   reset or, under TLS, ended without close_notify         *)
(***************************************************************************)
EXTENDS Naturals, Sequences

Wires(Items) ==
    [q : Seq(Items), end : {"none", "open", "eof", "cut"}, gone : BOOLEAN]

Unconnected == [q |-> <<>>, end |-> "none", gone |-> FALSE]
Fresh       == [q |-> <<>>, end |-> "open", gone |-> FALSE]

Connected(w) == w.end # "none"

\* What the reader can see.
Holds(w, kind) == w.q # <<>> /\ Head(w.q)[1] = kind
AtEof(w)       == w.q = <<>> /\ w.end = "eof"
Broken(w)      == w.q = <<>> /\ w.end = "cut"

\* A write may fail once the reader is gone or the connection is reset; until
\* the local kernel has noticed, it may still seem to succeed.
WriteMayFail(w) == w.gone \/ w.end = "cut"

\* The writer's and the reader's operations.
Put(w, item) ==
    IF w.end = "open" /\ ~w.gone THEN [w EXCEPT !.q = Append(@, item)] ELSE w
Take(w)    == [w EXCEPT !.q = Tail(@)]
Shut(w)    == IF w.end = "open" THEN [w EXCEPT !.end = "eof"] ELSE w
Abandon(w) == [w EXCEPT !.q = <<>>, !.gone = TRUE]

\* A reset keeps what the reader's side already has and loses the rest.
Cuts(w) == {[w EXCEPT !.q = SubSeq(@, 1, n), !.end = "cut"] : n \in 0..Len(w.q)}

\* Dropping a socket whose writing side is `out` and reading side `in`: an
\* orderly FIN, or a reset when input is unread or may still arrive.
TcpClose(out, in) == {Shut(out)} \cup (IF AtEof(in) THEN {} ELSE Cuts(out))

\* Dropping a TLS stream sends no close_notify: unless it was shut down
\* before, its reader learns that the stream was truncated.
TlsClose(out, in) == IF out.end = "eof" THEN TcpClose(out, in) ELSE Cuts(out)
=============================================================================
