---------------------------- MODULE Destination -----------------------------
(***************************************************************************)
(* The hosts the relay connects to.  They are not part of the repository:  *)
(* once a TCP connection is accepted they may send, read, finish or close  *)
(* at any time.  Payload is numbered in the order it is sent.              *)
(***************************************************************************)
EXTENDS Links

CONSTANT MaxDown   \* payload items a destination sends per connection

ASSUME DestinationAssumption == MaxDown \in Nat

VARIABLES outUp,    \* relay to destination
          outDown,  \* destination to relay
          destSent, \* how many items the destination has sent
          destGot   \* what it has read

out  == <<outUp, outDown>>
dest == <<destSent, destGot>>

DestInit ==
    /\ outUp = [c \in Conns |-> Unconnected]
    /\ outDown = [c \in Conns |-> Unconnected]
    /\ destSent = [c \in Conns |-> 0]
    /\ destGot = [c \in Conns |-> <<>>]

DestSend(c) ==
    /\ outDown[c].end = "open" /\ destSent[c] < MaxDown
    /\ destSent' = [destSent EXCEPT ![c] = @ + 1]
    /\ outDown' = [outDown EXCEPT ![c] = Put(@, <<"data", destSent[c] + 1>>)]
    /\ UNCHANGED <<outUp, destGot>>

DestRecv(c) ==
    /\ outUp[c].q # <<>>
    /\ destGot' = [destGot EXCEPT ![c] = Append(@, Head(outUp[c].q)[2])]
    /\ outUp' = [outUp EXCEPT ![c] = Take(@)]
    /\ UNCHANGED <<outDown, destSent>>

\* shutdown(SHUT_WR): nothing more to send, still reading.
DestFinish(c) ==
    /\ outDown[c].end = "open"
    /\ outDown' = [outDown EXCEPT ![c] = Shut(@)]
    /\ UNCHANGED <<outUp, dest>>

DestClose(c) ==
    /\ Connected(outUp[c]) /\ ~outUp[c].gone
    /\ outDown' \in {[outDown EXCEPT ![c] = w] : w \in TcpClose(outDown[c], outUp[c])}
    /\ outUp' = [outUp EXCEPT ![c] = Abandon(@)]
    /\ UNCHANGED dest

DestStep(c) == DestSend(c) \/ DestRecv(c) \/ DestFinish(c) \/ DestClose(c)

\* What the destination has been given of the client's payload, read or not.
Delivered(c) == destGot[c] \o [i \in 1..Len(outUp[c].q) |-> outUp[c].q[i][2]]

DestTypeOK ==
    /\ outUp \in [Conns -> Wires(Data)]
    /\ outDown \in [Conns -> Wires(Data)]
    /\ destSent \in [Conns -> 0..MaxDown]
    /\ destGot \in [Conns -> Seq(Nat)]
=============================================================================
