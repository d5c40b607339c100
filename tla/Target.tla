------------------------------- MODULE Target -------------------------------
(***************************************************************************)
(* The destination of one tunnel (lib.rs).  A host is a member of Hosts;   *)
(* of its text the model keeps only what the checks tell apart, its Form:  *)
(*   "name"     a host name or an IPv4 literal: no colon, no bracket       *)
(*   "ipv6"     parses as an IPv6 address                                  *)
(*   "colon"    holds a colon and is no IPv6 address                       *)
(*   "bracket"  starts with '[', holds Inner[h] up to ']' and ends there   *)
(*   "invalid"  too long, or with a blank, control or slash byte           *)
(*   "foreign"  empty or not ASCII: negotiate refuses it as a domain, and  *)
(*              it never gets as far as a Target                           *)
(***************************************************************************)
EXTENDS Naturals

CONSTANTS Hosts, Form, Inner, Ports, None

Forms == {"name", "ipv6", "colon", "bracket", "invalid", "foreign"}

ASSUME TargetAssumption ==
    /\ Form \in [Hosts -> Forms]
    /\ Inner \in [Hosts -> Hosts]
    /\ Ports \subseteq Nat
    /\ None \notin [host : Hosts, port : Ports]

Targets     == [host : Hosts, port : Ports]
Authorities == [text : Hosts, wrapped : BOOLEAN, port : Ports]

\* Target::new; a port of 0 also stands for a port that is no u16.
TargetNew(host, port) ==
    IF port = 0 \/ Form[host] \in {"invalid", "foreign"} THEN None
    ELSE [host |-> host, port |-> port]

\* Target::authority: only an IPv6 literal gets brackets.
Authority(t) ==
    [text |-> t.host, wrapped |-> Form[t.host] = "ipv6", port |-> t.port]

\* Target::parse_authority: brackets first, whoever put them there; without
\* them a colon in the host is refused.
ParseAuthority(a) ==
    IF a.wrapped THEN TargetNew(a.text, a.port)
    ELSE IF Form[a.text] = "bracket" THEN TargetNew(Inner[a.text], a.port)
    ELSE IF Form[a.text] \in {"ipv6", "colon"} THEN None
    ELSE TargetNew(a.text, a.port)
=============================================================================
