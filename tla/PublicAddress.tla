---------------------------- MODULE PublicAddress ---------------------------
(***************************************************************************)
(* Which addresses the relay connects to unless it was started with        *)
(* --allow-private (is_public_address, fujie/policy.rs).  An IPv4 address  *)
(* is a sequence of four octets, an IPv6 address of eight 16-bit segments, *)
(* a network a pair of an address and the length of its prefix in bits.    *)
(***************************************************************************)
EXTENDS Integers, Sequences

Units(most) == {n \in Nat : n <= most}
Addresses == [1..4 -> Units(255)] \cup [1..8 -> Units(65535)]

\* value & mask == network & mask, for an address of units of `width` bits:
\* the whole units of the prefix, then the leading bits of the next one.
\* Bug: only whole units are compared.
InWholeUnits(a, network, width) ==
    \A i \in 1..(network[2] \div width) : a[i] = network[1][i]

InNetwork(a, network, width) ==
    LET whole == network[2] \div width
        part  == network[2] % width
        below == 2 ^ (width - part)
    IN  /\ \A i \in 1..whole : a[i] = network[1][i]
        /\ part # 0 =>
              a[whole + 1] \div below = network[1][whole + 1] \div below

Reserved4 ==
    { <<<<0, 0, 0, 0>>, 8>>,      <<<<10, 0, 0, 0>>, 8>>,     <<<<100, 64, 0, 0>>, 10>>,
      <<<<127, 0, 0, 0>>, 8>>,    <<<<169, 254, 0, 0>>, 16>>, <<<<172, 16, 0, 0>>, 12>>,
      <<<<192, 0, 0, 0>>, 24>>,   <<<<192, 0, 2, 0>>, 24>>,   <<<<192, 88, 99, 0>>, 24>>,
      <<<<192, 168, 0, 0>>, 16>>, <<<<198, 18, 0, 0>>, 15>>,  <<<<198, 51, 100, 0>>, 24>>,
      <<<<203, 0, 113, 0>>, 24>>, <<<<224, 0, 0, 0>>, 4>>,    <<<<240, 0, 0, 0>>, 4>> }

\* Multicast, 64:ff9b::/96, 64:ff9b:1::/48, 100::/64, 2001::/23, 2002::/16,
\* fc00::/7, fe80::/10, 2001:db8::/32.
Reserved6 ==
    { <<<<65280, 0, 0, 0, 0, 0, 0, 0>>, 8>>,  <<<<100, 65435, 0, 0, 0, 0, 0, 0>>, 96>>,
      <<<<100, 65435, 1, 0, 0, 0, 0, 0>>, 48>>, <<<<256, 0, 0, 0, 0, 0, 0, 0>>, 64>>,
      <<<<8193, 0, 0, 0, 0, 0, 0, 0>>, 23>>,  <<<<8194, 0, 0, 0, 0, 0, 0, 0>>, 16>>,
      <<<<64512, 0, 0, 0, 0, 0, 0, 0>>, 7>>,  <<<<65152, 0, 0, 0, 0, 0, 0, 0>>, 10>>,
      <<<<8193, 3512, 0, 0, 0, 0, 0, 0>>, 32>> }

\* IPv4 addresses that an IPv6 address holds: mapped ones, ::ffff:a.b.c.d,
\* and those with twelve leading zero octets, :: and ::1 among them.
Embeds(a) == (\A i \in 1..5 : a[i] = 0) /\ a[6] \in {0, 65535}
Embedded(a) == <<a[7] \div 256, a[7] % 256, a[8] \div 256, a[8] % 256>>

IsPublic4(a) == \A network \in Reserved4 : ~InNetwork(a, network, 8)

IsPublicAddress(a) ==
    IF Len(a) = 4 THEN IsPublic4(a)
    ELSE IF Embeds(a) THEN IsPublic4(Embedded(a))
    ELSE \A network \in Reserved6 : ~InNetwork(a, network, 16)
=============================================================================
