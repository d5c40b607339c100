-------------------------------- MODULE Shutu -------------------------------
(***************************************************************************)
(* The client's transport (shutu/http_connect.rs): open() brings up one    *)
(* TLS connection to the relay per tunnel and asks it to CONNECT.          *)
(* opc[c] is where open() waits, or how it returned:                       *)
(*   "idle"  not called        "tcp"  for the TCP connection               *)
(*   "tls"   for the handshake "head" for the relay's answer               *)
(*   "ok"    Ok(stream)        "err"  Err(_), everything dropped           *)
(***************************************************************************)
EXTENDS Links, Target

CONSTANTS ClientToken,  \* the token of the client's configuration
          Certs, Trusted, Insecure

ASSUME ShutuAssumption == Trusted \subseteq Certs /\ Insecure \in BOOLEAN

VARIABLES opc,
          target  \* the target the tunnel is for, None before it is known

\* HttpConnectTransport::new: the configured roots verify the certificate,
\* or with `insecure` NoCertificateVerification accepts every one.
\* Bug: every certificate is accepted.
VerifiesAny(cert) == TRUE
Verifies(cert) == Insecure \/ cert \in Trusted

ConnectHead(t) ==
    [wellFormed |-> TRUE, bearer |-> ClientToken, authority |-> Authority(t)]

\* Bug: the connection outlives the open() that failed.
OpenErrKept(c, down) ==
    /\ opc' = [opc EXCEPT ![c] = "err"]
    /\ tlsDown' = [tlsDown EXCEPT ![c] = down]
    /\ UNCHANGED <<tlsUp, target>>

\* Returning an error drops the stream, without close_notify.
OpenErr(c, down) ==
    /\ opc' = [opc EXCEPT ![c] = "err"]
    /\ tlsUp' \in {[tlsUp EXCEPT ![c] = w] : w \in TlsClose(tlsUp[c], down)}
    /\ tlsDown' = [tlsDown EXCEPT ![c] = Abandon(@)]
    /\ UNCHANGED target

TcpConnected(c) ==
    /\ opc[c] = "tcp"
    /\ opc' = [opc EXCEPT ![c] = "tls"]
    /\ tlsUp' = [tlsUp EXCEPT ![c] = Put(Fresh, <<"hello", TRUE>>)]
    /\ tlsDown' = [tlsDown EXCEPT ![c] = Fresh]
    /\ UNCHANGED target

\* connect_timeout passes, or the connection is refused.
TcpFail(c) ==
    /\ opc[c] = "tcp"
    /\ opc' = [opc EXCEPT ![c] = "err"]
    /\ UNCHANGED <<links, target>>

\* The handshake completes and the request goes out behind it.
TlsEstablished(c) ==
    /\ opc[c] = "tls" /\ Holds(tlsDown[c], "server")
    /\ Verifies(Head(tlsDown[c].q)[2])
    /\ opc' = [opc EXCEPT ![c] = "head"]
    /\ tlsUp' = [tlsUp EXCEPT ![c] =
                   Put(Put(@, <<"finished", TRUE>>), <<"head", ConnectHead(target[c])>>)]
    /\ tlsDown' = [tlsDown EXCEPT ![c] = Take(@)]
    /\ UNCHANGED target

\* Bug: the answer is awaited without a timeout.
TlsErrorNoTimeout(c) ==
    /\ opc[c] \in {"tls", "head"} /\ (AtEof(tlsDown[c]) \/ Broken(tlsDown[c]))
    /\ OpenErr(c, tlsDown[c])

\* connect_timeout passes for the handshake or for the answer, the
\* certificate does not verify, or an error of the connection.
TlsError(c) ==
    /\ opc[c] \in {"tls", "head"}
    /\ OpenErr(c, tlsDown[c])

\* Bug: any answer is taken for a success.
StatusOkAny(c) ==
    /\ opc[c] = "head" /\ Holds(tlsDown[c], "status")
    /\ opc' = [opc EXCEPT ![c] = "ok"]
    /\ tlsDown' = [tlsDown EXCEPT ![c] = Take(@)]
    /\ UNCHANGED <<tlsUp, target>>

\* read_header returns the relay's answer; payload behind it stays in the
\* BufReader that open() returns.
StatusOk(c) ==
    /\ opc[c] = "head" /\ Holds(tlsDown[c], "status") /\ Head(tlsDown[c].q)[2] = 200
    /\ opc' = [opc EXCEPT ![c] = "ok"]
    /\ tlsDown' = [tlsDown EXCEPT ![c] = Take(@)]
    /\ UNCHANGED <<tlsUp, target>>

StatusRefused(c) ==
    /\ opc[c] = "head" /\ Holds(tlsDown[c], "status") /\ Head(tlsDown[c].q)[2] # 200
    /\ OpenErr(c, Take(tlsDown[c]))

\* `reachable` tells whether somebody accepts connections at the relay's address.
OpenStep(c, reachable) ==
    \/ (reachable /\ TcpConnected(c)) \/ TcpFail(c) \/ TlsEstablished(c) \/ TlsError(c)
    \/ StatusOk(c) \/ StatusRefused(c)

ShutuTypeOK ==
    /\ opc \in [Conns -> {"idle", "tcp", "tls", "head", "ok", "err"}]
    /\ target \in [Conns -> Targets \cup {None}]
=============================================================================
