-------------------------- MODULE MCRuleSemantics --------------------------
(* TLC instances of RuleSemantics: packets that differ in one respect from *)
(* another one, and arguments on both sides of every difference.           *)
EXTENDS RuleSemantics

Chained == {[table |-> "t", name |-> "c"], [table |-> NoName, name |-> "c"], [table |-> "t", name |-> NoName]}

V4(last) == <<192, 168, 1, last>>
V6(last) == <<254, 128>> \o Zeros(13) \o <<last>>
Net(ip, prefix) == [ip |-> ip, prefix |-> prefix]

(* Bytes of "lo", "eth1" and "eth10", "eth1" with a NUL byte of its own at *)
(* the end and inside, and names of 15 and of 16 bytes.                    *)
lo == <<108, 111>>
eth1 == <<101, 116, 104, 49>>
eth10 == Append(eth1, 48)
eth1Nul == Append(eth1, 0)
ethNul1 == <<101, 116, 104, 0, 49>>
name15 == [i \in 1..15 |-> 97]
name16 == [i \in 1..16 |-> 97]

(* Ports whose two bytes differ: packets carry 4660 = 0x1234 or            *)
(* 13330 = 0x3412.                                                         *)
MCPorts == {4660}
MCIps == {V4(129), V6(1)}
MCNets == {Net(V4(255), 24), Net(V4(1), 25), Net(V6(255), 121), Net(V4(0), 0)}
MCNames == {eth1, eth1Nul, ethNul1, name15, name16}
(* 2^16 + 2^8 reads the same in both byte orders.                          *)
MCIndexes == {256, 65792}
MCSizes == {1380}
MCLogPrefixes == {127, 128}

Tcp ==
  [host |-> "little", nfproto |-> NFPROTO_IPV4, l4 |-> IPPROTO.TCP, saddr |-> V4(1), daddr |-> V4(129),
   sport |-> 13330, dport |-> 4660, flags |-> 18, body |-> << >>, mss |-> <<2, 4, 16, 0>>,
   iif |-> 1, oif |-> 256, iifname |-> eth1, oifname |-> name15, ct |-> 2, pathMss |-> 1280]
Tcp6 == [Tcp EXCEPT !.nfproto = NFPROTO_IPV6, !.saddr = V6(1), !.daddr = V6(129)]
Udp == [Tcp EXCEPT !.l4 = IPPROTO.UDP, !.flags = 0, !.mss = << >>, !.body = <<0, 0, 0, 0, 0, 2, 0, 0>>]
Other(number) == [Tcp EXCEPT !.l4 = number, !.sport = 0, !.dport = 0, !.flags = 0, !.mss = << >>,
                             !.body = <<133, 0, 0, 0>>]

LittleEndianPackets ==
  { Tcp, Tcp6, Udp, Other(IPPROTO.ICMP), Other(IPPROTO.IGMP), Other(IPPROTO.IPV6),
    [Other(IPPROTO.ICMPV6) EXCEPT !.nfproto = NFPROTO_IPV6, !.saddr = V6(129), !.daddr = V6(1)],
    [Tcp EXCEPT !.saddr = V4(129), !.daddr = V4(1), !.iifname = eth10, !.oifname = eth1],
    [Tcp EXCEPT !.dport = 13330, !.sport = 4660, !.flags = 16, !.mss = << >>, !.iif = 256, !.oif = 1],
    [Tcp EXCEPT !.saddr = <<192, 168, 0, 1>>, !.daddr = <<193, 168, 1, 1>>, !.ct = 8, !.iifname = lo,
                !.iif = 65792, !.oif = 65792],
    [Tcp6 EXCEPT !.saddr = V6(127), !.daddr = V6(1), !.ct = 6, !.iifname = name15],
    [Udp EXCEPT !.dport = 13330, !.sport = 4660, !.ct = 64, !.body = Zeros(8)] }

(* The fields that a big-endian host stores in another way.                *)
BigEndianPackets ==
  { [Tcp EXCEPT !.host = "big"], [Tcp6 EXCEPT !.host = "big", !.ct = 6],
    [Tcp EXCEPT !.host = "big", !.sport = 4660, !.dport = 13330, !.iif = 256, !.oif = 1, !.ct = 8],
    [Udp EXCEPT !.host = "big", !.ct = 64, !.oifname = eth1] }

MCPackets == LittleEndianPackets \cup BigEndianPackets

=============================================================================
