------------------------------- MODULE Links --------------------------------
(***************************************************************************)
(* The TLS connections between the client's transport (Shutu) and the      *)
(* relay (Zhiyou), one per tunnel: tlsUp runs from the client to the       *)
(* relay, tlsDown back.  Both sides' modules extend this one.              *)
(***************************************************************************)
EXTENDS Wire

CONSTANTS Conns,   \* tunnels, each with its own sockets from end to end
          Cap      \* items a bridge may leave unread before its writes wait

ASSUME LinksAssumption == Cap \in Nat \ {0}

VARIABLES tlsUp, tlsDown

links == <<tlsUp, tlsDown>>

\* Kinds of items: the client's two TLS flights, its request head and payload
\* one way; the server's flight, a status and payload the other way.
Data == {"data"} \X Nat
UpItems(Heads) ==
    ({"hello", "finished"} \X {TRUE}) \cup ({"head"} \X Heads) \cup Data
Statuses == {200, 400, 401, 403, 502}
DownItems(Certs) ==
    ({"server"} \X Certs) \cup ({"status"} \X Statuses) \cup Data
=============================================================================
