---------------------------- MODULE RuleMethods ----------------------------
(***************************************************************************)
(* The methods of src/rule_methods.rs.  Each is the sequence of            *)
(* expressions that the method appends to the rule with add_expr.  An      *)
(* address is its octets, 4 of them for IPv4 and 16 for IPv6; a network is *)
(* an address with a prefix length.                                        *)
(***************************************************************************)
EXTENDS Expressions

IFNAMSIZ == 16
NFPROTO_IPV4 == 2
NFPROTO_IPV6 == 10
IPPROTO == [ICMP |-> 1, IGMP |-> 2, TCP |-> 6, UDP |-> 17, IPV6 |-> 41, ICMPV6 |-> 58]
SYN == 2
ESTABLISHED == 2

Protocols == {"TCP", "UDP"}

IsV4(ip) == Len(ip) = 4

-----------------------------------------------------------------------------
(* The crate ipnetwork (external): the host bits of octet i, the mask and  *)
(* the address with its host bits cleared.                                 *)
HostBits(net, i) ==
  IF net.prefix >= 8 * i THEN 0 ELSE IF net.prefix <= 8 * (i - 1) THEN 8 ELSE 8 * i - net.prefix

mask(net) == [i \in 1..Len(net.ip) |-> 256 - 2 ^ HostBits(net, i)]
network(net) == [i \in 1..Len(net.ip) |-> net.ip[i] - (net.ip[i] % (2 ^ HostBits(net, i)))]

-----------------------------------------------------------------------------
l4proto(number) == <<Meta("L4Proto"), Cmp("Eq", <<number>>)>>

protocol(proto) == l4proto(IPPROTO[proto])

match_port(port, proto, source) ==
  protocol(proto) \o
  << Build(IF proto = "TCP" THEN "Tcp" ELSE "Udp", IF source THEN "Sport" ELSE "Dport"),
     Cmp("Eq", BE16(port)) >>

(* The test of the family and the load of an address, which match_ip and   *)
(* match_network begin with.                                               *)
nfproto(ip) == << Meta("NfProto"), Cmp("Eq", <<IF IsV4(ip) THEN NFPROTO_IPV4 ELSE NFPROTO_IPV6>>) >>

load_ip(ip, source) ==
  Build(IF IsV4(ip) THEN "IPv4" ELSE "IPv6", IF source THEN "Saddr" ELSE "Daddr")

match_ip(ip, source) == nfproto(ip) \o <<load_ip(ip, source), Cmp("Eq", ip)>>

(* Mutant: the xor operand is 0u32 for both families.                      *)
xor_of_four(net) == Zeros(4)

(* 0u32.to_be_bytes() or 0u128.to_be_bytes(), the xor operand.             *)
no_xor(net) == Zeros(IF IsV4(net.ip) THEN 4 ELSE 16)

(* Mutant: the masked address is compared with the address as given.       *)
match_network_unmasked(net, source) ==
  nfproto(net.ip) \o
  <<load_ip(net.ip, source), Bitwise(mask(net), no_xor(net)), Cmp("Eq", net.ip)>>

match_network(net, source) ==
  nfproto(net.ip) \o
  <<load_ip(net.ip, source), Bitwise(mask(net), no_xor(net)), Cmp("Eq", network(net))>>

icmp == l4proto(IPPROTO.ICMP)

icmpv6 == l4proto(IPPROTO.ICMPV6)

igmp == l4proto(IPPROTO.IGMP)

ip6in4 ==
  << Meta("NfProto"), Cmp("Eq", <<NFPROTO_IPV4>>), Build("IPv4", "Protocol"), Cmp("Eq", <<41>>) >>

sport(port, proto) == match_port(port, proto, FALSE)

dport(port, proto) == match_port(port, proto, FALSE)

established ==
  << Conntrack("State"), Bitwise(LE32(ESTABLISHED), BE32(0)), Cmp("Neq", BE32(0)) >>

(* Mutant: the index in the byte order of x86.                             *)
iface_id_le(index) == <<Meta("Iif"), Cmp("Eq", LE32(index))>>

iface_id(index) == <<Meta("Iif"), Cmp("Eq", BE32(index))>>

oface_id(index) == <<Meta("Oif"), Cmp("Eq", BE32(index))>>

(* Mutant: the limit allows a name that leaves no room for the NUL byte.   *)
InterfaceNameTooLongOffByOne(name) == Len(name) > IFNAMSIZ

(* iface and oface return BuilderError::InterfaceNameTooLong.              *)
InterfaceNameTooLong(name) == Len(name) >= IFNAMSIZ

iface(name) == <<Meta("IifName"), Cmp("Eq", Append(name, 0))>>

oface(name) == <<Meta("OifName"), Cmp("Eq", Append(name, 0))>>

saddr(ip) == match_ip(ip, TRUE)

daddr(ip) == match_ip(ip, FALSE)

snetwork(net) == match_network(net, TRUE)

dnetwork(net) == match_network(net, FALSE)

accept == <<ImmediateVerdict("Accept")>>

drop == <<ImmediateVerdict("Drop")>>

masquerade == <<Masquerade>>

NoPort == -1

(* dnat(dst, port), NoPort for None.                                       *)
dnat(dst, port) ==
  IF port = NoPort
  THEN <<ImmediateData(dst, "Reg1"), Nat4("Reg1", "none")>>
  ELSE <<ImmediateData(dst, "Reg1"), ImmediateData(BE16(port), "Reg2"), Nat4("Reg1", "Reg2")>>

set_mss(mss) == <<ImmediateData(BE16(mss), "Reg1"), ExtHdrTCPOpt("Reg1", 2, 2, 2)>>

clamp_mss_to_pmtu ==
  << Rt("TCPMSS", "Reg1"), ByteorderHtoN("Reg1", "Reg1", 2, 2), ExtHdrTCPOpt("Reg1", 2, 2, 2) >>

syn ==
  << PayloadRaw("NFT_PAYLOAD_TRANSPORT_HEADER", 13, 1, "Reg1"),
     Bitwise(<<SYN>>, <<0>>), Cmp("Neq", <<0>>) >>

=============================================================================
