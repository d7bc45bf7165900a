---------------------------- MODULE MCExamples -----------------------------
(* A TLC instance of Examples: one packet for every case of a comment, and *)
(* its neighbours on the other side of the condition.                      *)
EXTENDS Examples

MClo == <<108, 111>>
eth0 == <<101, 116, 104, 48>>
lo0 == <<108, 111, 48>>

New == 8                  \* the conntrack state of a packet that opens a connection
V6(last) == <<254, 128>> \o Zeros(13) \o <<last>>

Tcp(port, source, target) ==
  [host |-> "little", nfproto |-> NFPROTO_IPV4, l4 |-> IPPROTO.TCP, saddr |-> source, daddr |-> target,
   sport |-> 4660, dport |-> port, flags |-> 2, body |-> << >>, mss |-> << >>,
   iif |-> 2, oif |-> 2, iifname |-> eth0, oifname |-> eth0, ct |-> New, pathMss |-> 1280]

Far == <<8, 8, 8, 8>>
Near == <<192, 168, 1, 7>>
Private(last) == <<10, 1, 0, last>>

MCPackets ==
  { Tcp(22, Far, Near), [Tcp(22, Far, Near) EXCEPT !.l4 = IPPROTO.UDP],
    Tcp(80, Near, Private(7)), Tcp(80, <<192, 168, 2, 7>>, <<10, 1, 1, 7>>),
    [Tcp(80, V6(1), V6(2)) EXCEPT !.nfproto = NFPROTO_IPV6],
    [Tcp(443, Far, Private(0)) EXCEPT !.ct = 2], [Tcp(443, Far, Near) EXCEPT !.iifname = MClo, !.iif = 1],
    [Tcp(443, Near, Far) EXCEPT !.iifname = lo0],
    [Tcp(0, Far, Private(255)) EXCEPT !.l4 = IPPROTO.ICMP, !.body = <<8, 0, 0, 0>>],
    [Tcp(0, Near, Far) EXCEPT !.l4 = IPPROTO.IGMP, !.body = Zeros(4)],
    [Tcp(0, Near, Far) EXCEPT !.l4 = IPPROTO.IGMP, !.body = Zeros(4), !.iifname = MClo],
    [Tcp(0, V6(1), V6(2)) EXCEPT !.nfproto = NFPROTO_IPV6, !.l4 = IPPROTO.ICMPV6, !.body = <<133, 0, 0, 0>>] }

=============================================================================
