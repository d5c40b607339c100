---------------------------- MODULE QiankuiRelay ----------------------------
(***************************************************************************)
(* The relay's command (bin/qiankui-relay.rs): what it is started with,    *)
(* and which requests its policy then lets through (fujie/policy.rs).  How *)
(* it serves them is Zhiyou's.                                             *)
(*                                                                         *)
(* The text of --ports is the sequence of what is between its commas: the  *)
(* number for one or more digits, None for anything else.                  *)
(***************************************************************************)
EXTENDS Token, PublicAddress

CONSTANTS StartLines,  \* command lines: token or None, ports, allowPrivate, timeout
          StartTokens, \* values of QIANKUI_TOKEN, None if unset
          Asked        \* the pairs of a port and an address it is asked for

ASSUME QiankuiRelayAssumption ==
    /\ StartTokens \ {None} \subseteq Tokens
    /\ \A line \in StartLines :
          /\ line.token \in Tokens \cup {None} /\ line.allowPrivate \in BOOLEAN
          /\ line.timeout \in Nat
          /\ line.ports \in Seq(Nat \cup {None}) /\ Len(line.ports) > 0
    /\ Asked \subseteq Nat \X Addresses

VARIABLES started, \* the command line, token and ports of the relay that runs, and
                   \* the text its token was given as; or None
          dialed   \* the last request and whether it got past the policy, or None

rvars == <<started, dialed>>

QiankuiRelayInit == started = None /\ dialed = None

PortNumbers == 1..65535

\* Token::from_arg_or_env: an argument is taken as it is.
FromArgOrEnv(argument, env) ==
    IF argument # None THEN argument ELSE IF env # None THEN Trimmed(env) ELSE None

\* parse_allowed_ports: one bad item spoils them all; Policy::new wants one port.
\* Bug: bad items are skipped.
ParseGoodPorts(items) == {items[i] : i \in 1..Len(items)} \ {None, 0}
ParseAllowedPorts(items) ==
    IF \A i \in 1..Len(items) : items[i] # None /\ items[i] \in PortNumbers
    THEN {items[i] : i \in 1..Len(items)} ELSE {}

\* RelayConfig::new, by what the two PEM files hold.
RelayConfigNew(cert, key) == cert = "chain" /\ key = "its"

\* `bound` is what comes of binding --listen, the last thing that can fail.
Start(line, env, cert, key, bound) ==
    LET token == FromArgOrEnv(line.token, env)
        ports == ParseAllowedPorts(line.ports)
    IN  /\ started' =
             IF /\ line.timeout \in Timeouts
                /\ token # None /\ Parses(token)
                /\ ports # {} /\ RelayConfigNew(cert, key)
                /\ bound
             THEN [line |-> line, token |-> token, ports |-> ports,
                   text |-> IF line.token # None THEN line.token ELSE env]
             ELSE None
        /\ dialed' = None

\* Policy::dial for a name that has one address.
Dial(port, address) ==
    /\ started # None
    /\ dialed' = [port |-> port, address |-> address,
                  permitted |-> /\ port \in started.ports
                                /\ started.line.allowPrivate \/ IsPublicAddress(address)]
    /\ UNCHANGED started

QiankuiRelayNext ==
    \/ \E line \in StartLines, env \in StartTokens,
          cert \in {"absent", "empty", "chain"},
          key \in {"absent", "another", "its"}, bound \in BOOLEAN :
            Start(line, env, cert, key, bound)
    \/ \E request \in Asked : Dial(request[1], request[2])

-----------------------------------------------------------------------------
(* Properties                                                              *)

\* Reserved ranges, from their first address to their last one.
Before(a, b) ==
    \E i \in 1..Len(a) : a[i] < b[i] /\ \A j \in 1..(i - 1) : a[j] = b[j]

Ranges4 ==
    { <<<<0, 0, 0, 0>>, <<0, 255, 255, 255>>>>,
      <<<<10, 0, 0, 0>>, <<10, 255, 255, 255>>>>,
      <<<<100, 64, 0, 0>>, <<100, 127, 255, 255>>>>,
      <<<<127, 0, 0, 0>>, <<127, 255, 255, 255>>>>,
      <<<<169, 254, 0, 0>>, <<169, 254, 255, 255>>>>,
      <<<<172, 16, 0, 0>>, <<172, 31, 255, 255>>>>,
      <<<<192, 0, 0, 0>>, <<192, 0, 0, 255>>>>,
      <<<<192, 0, 2, 0>>, <<192, 0, 2, 255>>>>,
      <<<<192, 88, 99, 0>>, <<192, 88, 99, 255>>>>,
      <<<<192, 168, 0, 0>>, <<192, 168, 255, 255>>>>,
      <<<<198, 18, 0, 0>>, <<198, 19, 255, 255>>>>,
      <<<<198, 51, 100, 0>>, <<198, 51, 100, 255>>>>,
      <<<<203, 0, 113, 0>>, <<203, 0, 113, 255>>>>,
      <<<<224, 0, 0, 0>>, <<255, 255, 255, 255>>>> }

\* An IPv4 address in ::/96 (between = 0) and in ::ffff:0:0/96.
In6(a, between) ==
    <<0, 0, 0, 0, 0, between, 256 * a[1] + a[2], 256 * a[3] + a[4]>>

\* The last address that begins with `units`.
LastOf(units) == [i \in 1..8 |-> IF i <= Len(units) THEN units[i] ELSE 65535]

Native6 ==
    { <<<<100, 65435, 0, 0, 0, 0, 0, 0>>, LastOf(<<100, 65435, 0, 0, 0, 0>>)>>,
      <<<<100, 65435, 1, 0, 0, 0, 0, 0>>, LastOf(<<100, 65435, 1>>)>>,
      <<<<256, 0, 0, 0, 0, 0, 0, 0>>, LastOf(<<256, 0, 0, 0>>)>>,
      <<<<8193, 0, 0, 0, 0, 0, 0, 0>>, LastOf(<<8193, 511>>)>>,
      <<<<8193, 3512, 0, 0, 0, 0, 0, 0>>, LastOf(<<8193, 3512>>)>>,
      <<<<8194, 0, 0, 0, 0, 0, 0, 0>>, LastOf(<<8194>>)>>,
      <<<<64512, 0, 0, 0, 0, 0, 0, 0>>, LastOf(<<65023>>)>>,
      <<<<65152, 0, 0, 0, 0, 0, 0, 0>>, LastOf(<<65215>>)>>,
      <<<<65280, 0, 0, 0, 0, 0, 0, 0>>, LastOf(<<65535>>)>> }

Range6(range, between) == <<In6(range[1], between), In6(range[2], between)>>

Ranges6 ==
    Native6 \cup UNION {{Range6(range, between) : range \in Ranges4} : between \in {0, 65535}}

Apart(a, range) == Before(a, range[1]) \/ Before(range[2], a)

Outside(a) == \A range \in (IF Len(a) = 4 THEN Ranges4 ELSE Ranges6) : Apart(a, range)

\* A relay connects to just the addresses outside the reserved ranges, at both
\* ends of every range and whether an IPv4 address is asked for as itself or in
\* an IPv6 one, on just the ports its operator wrote, all of which it must have
\* understood; and to any address only if it was told to (fujie/policy.rs:43-150,
\* bin/qiankui-relay.rs:55-65; README.md:197 "By default it allows only
\* destination ports 80 and 443 and rejects private, loopback, link-local, and
\* reserved addresses").
DialsAsStarted ==
    dialed # None =>
        /\ started.line.ports \in Seq(PortNumbers)
        /\ dialed.permitted <=>
              /\ \E i \in 1..Len(started.line.ports) : started.line.ports[i] = dialed.port
              /\ started.line.allowPrivate \/ Outside(dialed.address)
=============================================================================
