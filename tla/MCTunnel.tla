------------------------------ MODULE MCTunnel ------------------------------
(***************************************************************************)
(* Values for Tunnel: an ordinary host and a bracketed literal, an answer  *)
(* with a private address before a public one.                             *)
(***************************************************************************)
EXTENDS Tunnel

CONSTANTS site, literal, boxed, pub1, pub2, priv, token, other, cert, fake

MCHosts == {site, literal, boxed}
MCForm  == [h \in MCHosts |-> CASE h = site -> "name" [] h = literal -> "ipv6"
                                [] h = boxed -> "bracket"]
MCInner == [h \in MCHosts |-> IF h = boxed THEN literal ELSE h]
MCAnswers == [h \in MCHosts |-> IF h = site THEN {<<priv, pub1>>} ELSE {<<pub2>>}]

Good == [socks5 |-> TRUE, noAuth |-> TRUE, command |-> "connect", typeKnown |-> TRUE,
         host |-> site, port |-> 443]
MCAsks == { Good, [Good EXCEPT !.host = boxed],
            [Good EXCEPT !.host = literal, !.port = 25] }
MCOneAddress == [h \in MCHosts |-> {<<pub1>>}]
MCGood == { Good }
MCBearers == {token, other, None}

\* One way for each process to end: how it ended makes no difference to its
\* tasks, and a relay that failed is the one that is started again.
OneExit == client \in {"up", "stopped"} /\ relay \in {"up", "failed"}
TunnelSpec == Init /\ [][Next /\ OneExit']_vars /\ Polled

\* For liveness: payload in either direction, but in one of them in any one
\* behaviour; and an application that waits for its answer, before which only
\* limits and refusals end anything.
OneWay == OneExit /\ \A c \in Conns : appSent[c] = 0 \/ destSent[c] = 0
Waits(c) ==
    Len(Answered(c)) < 2 =>
        UNCHANGED <<client, relay>> /\ ~LinkBreaks(c) /\ appUp'[c].end \in {"none", "open"}
OneWaySpec ==
    Init /\ [][Next /\ OneWay' /\ \A c \in Conns : Waits(c)]_vars /\ Polled /\ Read
=============================================================================
