-------------------------------- MODULE Proxy -------------------------------
(***************************************************************************)
(* What the client and the relay together promise the two ends of a        *)
(* connection, with nothing of SOCKS, TLS, heads or processes in it: the   *)
(* application sends numbered items and is told the verdict on its request *)
(* and then the destination's items, and the destination reads the         *)
(* application's items.  Tunnel implements it.                             *)
(***************************************************************************)
EXTENDS Integers, Sequences

CONSTANT Conns

VARIABLES sent,     \* items the application has sent
          read,     \* the items the destination has read
          hostSent, \* items the destination has sent
          told      \* what the application has read: Connected or Refused, items

vars == <<sent, read, hostSent, told>>

Connected == 0
Refused   == -1

Init ==
    /\ sent = [c \in Conns |-> 0] /\ read = [c \in Conns |-> <<>>]
    /\ hostSent = [c \in Conns |-> 0] /\ told = [c \in Conns |-> <<>>]

Send(c) ==
    /\ sent' = [sent EXCEPT ![c] = @ + 1]
    /\ UNCHANGED <<read, hostSent, told>>

\* A destination may be there, and speak, after the application was refused.
HostSend(c) ==
    /\ hostSent' = [hostSent EXCEPT ![c] = @ + 1]
    /\ UNCHANGED <<sent, read, told>>

\* The application may send, and the destination read, before the application
\* has been told anything, but what it is told then is not a refusal.
Read(c) ==
    /\ Len(read[c]) < sent[c]
    /\ read' = [read EXCEPT ![c] = Append(@, Len(@) + 1)]
    /\ told[c] # <<Refused>>
    /\ UNCHANGED <<sent, hostSent, told>>

Connect(c) ==
    /\ told[c] = <<>>
    /\ told' = [told EXCEPT ![c] = <<Connected>>]
    /\ UNCHANGED <<sent, read, hostSent>>

Refuse(c) ==
    /\ told[c] = <<>> /\ read[c] = <<>>
    /\ told' = [told EXCEPT ![c] = <<Refused>>]
    /\ UNCHANGED <<sent, read, hostSent>>

Hear(c) ==
    /\ told[c] # <<>> /\ Len(told[c]) <= hostSent[c]
    /\ Head(told[c]) = Connected
    /\ told' = [told EXCEPT ![c] = Append(@, Len(@))]
    /\ UNCHANGED <<sent, read, hostSent>>

Next ==
    \E c \in Conns :
        Send(c) \/ Read(c) \/ HostSend(c) \/ Connect(c) \/ Refuse(c) \/ Hear(c)

Spec == Init /\ [][Next]_vars
=============================================================================
