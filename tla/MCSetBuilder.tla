--------------------------- MODULE MCSetBuilder ----------------------------
(* A TLC instance of SetBuilder: packets of both families and two ports.   *)
EXTENDS SetBuilder

MCTables == {[name |-> "t", family |-> "Inet"], [name |-> Unnamed, family |-> "Inet"]}

V6(last) == <<254, 128>> \o Zeros(13) \o <<last>>

Packet(source, proto, port) ==
  [host |-> "little", nfproto |-> IF IsV4(source) THEN NFPROTO_IPV4 ELSE NFPROTO_IPV6, l4 |-> IPPROTO[proto],
   saddr |-> source, daddr |-> source, sport |-> 53, dport |-> port, flags |-> 0, body |-> << >>,
   mss |-> << >>, iif |-> 1, oif |-> 1, iifname |-> << >>, oifname |-> << >>, ct |-> 0, pathMss |-> 0]

MCPackets ==
  { Packet(<<127, 0, 0, 1>>, "TCP", 22), Packet(<<1, 0, 0, 127>>, "TCP", 5632),
    Packet(<<1, 1, 1, 1>>, "UDP", 22), Packet(V6(1), "TCP", 22), Packet(V6(2), "UDP", 5632) }

=============================================================================
