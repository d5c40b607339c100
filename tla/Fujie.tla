------------------------------- MODULE Fujie --------------------------------
(***************************************************************************)
(* What the relay admits: the bearer token (fujie/token.rs) and the egress *)
(* policy (fujie/policy.rs).  Answers[h] is the set of address lists the   *)
(* resolver may return for h, a different one each time it is asked.       *)
(***************************************************************************)
EXTENDS Target, Sequences

CONSTANTS RelayToken,   \* the token the relay was started with
          Bearers,      \* what an Authorization header may carry, None for nothing
          AllowedPorts, AllowPrivate,
          Addrs, Public,
          Answers

ASSUME FujieAssumption ==
    /\ RelayToken \in Bearers /\ None \in Bearers /\ RelayToken # None
    /\ AllowedPorts \subseteq Ports \ {0} /\ AllowedPorts # {}
    /\ AllowPrivate \in BOOLEAN
    /\ Public \subseteq Addrs
    /\ Answers \in [Hosts -> SUBSET Seq(Addrs)]

\* A request head, as far as the relay reads it: whether read_header and
\* parse_request accept it, the Authorization value and the authority.
Heads == [wellFormed : BOOLEAN, bearer : Bearers, authority : Authorities]

\* Token::verify_bearer
VerifyBearer(bearer) == bearer = RelayToken

\* Policy::dial, the two filters: the port once, the address for every answer.
PortAllowed(t) == t.port \in AllowedPorts

\* Bug: the addresses are not filtered.
AnyAddress(a) == TRUE
Permits(a)    == AllowPrivate \/ a \in Public
=============================================================================
