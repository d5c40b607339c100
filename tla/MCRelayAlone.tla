---------------------------- MODULE MCRelayAlone ----------------------------
(***************************************************************************)
(* Values for RelayAlone: one host for each thing a host can be to the     *)
(* relay, an answer with a private address before two public ones, one     *)
(* with private addresses only, and one head for every verdict.            *)
(***************************************************************************)
EXTENDS RelayAlone, TLC

CONSTANTS site, literal, colon, boxed,   \* hosts
          pub1, pub2, priv, token, other

MCHosts == {site, literal, colon, boxed}
MCForm  == [h \in MCHosts |-> CASE h = site -> "name" [] h = literal -> "ipv6"
                                [] h = colon -> "colon" [] h = boxed -> "bracket"]
MCInner == [h \in MCHosts |-> IF h = boxed THEN literal ELSE h]
MCPorts == {0, 25, 443}
MCAddrs == {pub1, pub2, priv}
MCPublic == {pub1, pub2}
MCAnswers == [h \in MCHosts |->
    IF h = literal THEN {<<priv>>} ELSE {<<priv, pub1, pub2>>, <<priv>>, <<pub1>>}]

Asks(wellFormed, bearer, text, wrapped, port) ==
    [wellFormed |-> wellFormed, bearer |-> bearer,
     authority |-> [text |-> text, wrapped |-> wrapped, port |-> port]]

MCClientHeads ==
    { Asks(TRUE, token, site, FALSE, 443), Asks(TRUE, token, boxed, FALSE, 443),
      Asks(FALSE, token, site, FALSE, 443), Asks(TRUE, other, site, FALSE, 443),
      Asks(TRUE, None, site, FALSE, 443), Asks(TRUE, token, site, FALSE, 25),
      Asks(TRUE, token, colon, FALSE, 443), Asks(TRUE, token, site, FALSE, 0) }

\* The run with two connections has one head and one address, a private one.
MCPrivateAnswer == [h \in MCHosts |-> {<<priv>>}]

Pair == Permutations(Conns)
MCGoodHead == { Asks(TRUE, token, site, FALSE, 443) }
=============================================================================
