---------------------------- MODULE MCClientAlone ---------------------------
(***************************************************************************)
(* Values for ClientAlone: a good request and one for every refusal.       *)
(***************************************************************************)
EXTENDS ClientAlone

CONSTANTS site, v6, bad, strange, token, goodCert, badCert

MCHosts == {site, v6, bad, strange}
MCForm  == [h \in MCHosts |-> CASE h = site -> "name" [] h = v6 -> "ipv6"
                                [] h = bad -> "invalid" [] h = strange -> "foreign"]
MCInner == [h \in MCHosts |-> h]

Good == [socks5 |-> TRUE, noAuth |-> TRUE, command |-> "connect", typeKnown |-> TRUE,
         host |-> site, port |-> 443]

MCAsks == { Good, [Good EXCEPT !.host = v6], [Good EXCEPT !.socks5 = FALSE],
            [Good EXCEPT !.noAuth = FALSE], [Good EXCEPT !.command = "command"],
            [Good EXCEPT !.command = "malformed"], [Good EXCEPT !.typeKnown = FALSE],
            [Good EXCEPT !.host = strange], [Good EXCEPT !.host = bad],
            [Good EXCEPT !.port = 0] }
=============================================================================
