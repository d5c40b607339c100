--------------------------------- MODULE App --------------------------------
(***************************************************************************)
(* The applications that use the client as a SOCKS5 proxy.  They are not   *)
(* part of the repository: an application sends the fields of one request  *)
(* in order, waiting for answers or not, then payload, and may finish or   *)
(* close at any time.                                                      *)
(***************************************************************************)
EXTENDS Links, Target

CONSTANTS MaxUp,   \* payload items an application sends per connection
          Asks     \* the requests it chooses from

\* One request: is the greeting SOCKS5 with a method, is "no authentication"
\* offered, is the command CONNECT ("connect"), another one ("command") or a
\* malformed request, is the address type known, and the destination.
Requests == [socks5 : BOOLEAN, noAuth : BOOLEAN,
             command : {"connect", "command", "malformed"}, typeKnown : BOOLEAN,
             host : Hosts, port : Ports]

ASSUME AppAssumption == MaxUp \in Nat /\ Asks \subseteq Requests

VARIABLES appUp,   \* application to client
          appDown, \* client to application
          ask,     \* the request the application makes
          said,    \* how many of its fields it has sent
          appSent, \* how many payload items it has sent
          appGot   \* the items it has read

app  == <<appUp, appDown>>
user == <<ask, said, appSent, appGot>>

Field(a, i) ==
    << <<"greeting", a.socks5>>, <<"methods", a.noAuth>>,
       <<"request", <<a.command, a.typeKnown>> >>,
       <<"address", a.host>>, <<"port", a.port>> >>[i]

AppItems ==
    ({"greeting", "methods"} \X BOOLEAN) \cup
    ({"request"} \X ({"connect", "command", "malformed"} \X BOOLEAN)) \cup
    ({"address"} \X Hosts) \cup ({"port"} \X Ports) \cup Data
Replies     == {0, 1, 5, 7, 8}
AnswerItems == ({"method"} \X {0, 255}) \cup ({"reply"} \X Replies) \cup Data

AppInit ==
    /\ appUp = [c \in Conns |-> Unconnected]
    /\ appDown = [c \in Conns |-> Unconnected]
    /\ ask \in [Conns -> Asks]
    /\ said = [c \in Conns |-> 0]
    /\ appSent = [c \in Conns |-> 0]
    /\ appGot = [c \in Conns |-> <<>>]

AppConnect(c) ==
    /\ appUp[c].end = "none"
    /\ appUp' = [appUp EXCEPT ![c] = Fresh]
    /\ appDown' = [appDown EXCEPT ![c] = Fresh]
    /\ UNCHANGED user

AppSay(c) ==
    /\ appUp[c].end = "open" /\ said[c] < 5
    /\ appUp' = [appUp EXCEPT ![c] = Put(@, Field(ask[c], said[c] + 1))]
    /\ said' = [said EXCEPT ![c] = @ + 1]
    /\ UNCHANGED <<appDown, ask, appSent, appGot>>

AppSend(c) ==
    /\ appUp[c].end = "open" /\ said[c] = 5 /\ appSent[c] < MaxUp
    /\ appSent' = [appSent EXCEPT ![c] = @ + 1]
    /\ appUp' = [appUp EXCEPT ![c] = Put(@, <<"data", appSent[c] + 1>>)]
    /\ UNCHANGED <<appDown, ask, said, appGot>>

AppRead(c) ==
    /\ appDown[c].q # <<>>
    /\ appGot' = [appGot EXCEPT ![c] = Append(@, Head(appDown[c].q))]
    /\ appDown' = [appDown EXCEPT ![c] = Take(@)]
    /\ UNCHANGED <<appUp, ask, said, appSent>>

AppFinish(c) ==
    /\ appUp[c].end = "open"
    /\ appUp' = [appUp EXCEPT ![c] = Shut(@)]
    /\ UNCHANGED <<appDown, user>>

AppClose(c) ==
    /\ Connected(appDown[c]) /\ ~appDown[c].gone
    /\ appUp' \in {[appUp EXCEPT ![c] = w] : w \in TcpClose(appUp[c], appDown[c])}
    /\ appDown' = [appDown EXCEPT ![c] = Abandon(@)]
    /\ UNCHANGED user

AppStep(c) ==
    AppSay(c) \/ AppSend(c) \/ AppRead(c) \/ AppFinish(c) \/ AppClose(c)

\* What the application has been answered, read or not.
Answered(c) == appGot[c] \o appDown[c].q

AppTypeOK ==
    /\ appUp \in [Conns -> Wires(AppItems)]
    /\ appDown \in [Conns -> Wires(AnswerItems)]
    /\ ask \in [Conns -> Asks]
    /\ said \in [Conns -> 0..5]
    /\ appSent \in [Conns -> 0..MaxUp]
    /\ appGot \in [Conns -> Seq(AnswerItems)]
=============================================================================
