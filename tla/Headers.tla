------------------------------ MODULE Headers ------------------------------
(***************************************************************************)
(* The header field tables of src/expr/payload.rs: where each field of an  *)
(* Ethernet, IPv4, IPv6, TCP, UDP or ICMPv6 header lies, the Payload       *)
(* expression that loads it, and the way back from an offset and a length  *)
(* to the field.                                                           *)
(***************************************************************************)
EXTENDS Naturals, Sequences

At(offset, len) == [offset |-> offset, len |-> len]

(* HeaderField::offset and HeaderField::len of each header.                *)
LLHeaderField == [Daddr |-> At(0, 6), Saddr |-> At(6, 6), EtherType |-> At(12, 2)]

IPv4HeaderField ==
  [Ttl |-> At(8, 1), Protocol |-> At(9, 1), Saddr |-> At(12, 4), Daddr |-> At(16, 4)]

IPv6HeaderField ==
  [NextHeader |-> At(6, 1), HopLimit |-> At(7, 1), Saddr |-> At(8, 16), Daddr |-> At(24, 16)]

TCPHeaderField == [Sport |-> At(0, 2), Dport |-> At(2, 2)]

UDPHeaderField == [Sport |-> At(0, 2), Dport |-> At(2, 2), Len |-> At(4, 2)]

ICMPv6HeaderField == [Type |-> At(0, 1), Code |-> At(1, 1), Checksum |-> At(2, 2)]

(* from_raw_data of each header: the field of an offset and a length.      *)
LLFromRawData(at) ==
  CASE at = At(0, 6) -> <<"Ok", "Daddr">>
    [] at = At(6, 6) -> <<"Ok", "Saddr">>
    [] at = At(12, 2) -> <<"Ok", "EtherType">>
    [] OTHER -> <<"Err", "UnknownLinkLayerHeaderField">>

IPv4FromRawData(at) ==
  CASE at = At(8, 1) -> <<"Ok", "Ttl">>
    [] at = At(9, 1) -> <<"Ok", "Protocol">>
    [] at = At(12, 4) -> <<"Ok", "Saddr">>
    [] at = At(16, 4) -> <<"Ok", "Daddr">>
    [] OTHER -> <<"Err", "UnknownIPv4HeaderField">>

IPv6FromRawData(at) ==
  CASE at = At(6, 1) -> <<"Ok", "NextHeader">>
    [] at = At(7, 1) -> <<"Ok", "HopLimit">>
    [] at = At(8, 16) -> <<"Ok", "Saddr">>
    [] at = At(24, 16) -> <<"Ok", "Daddr">>
    [] OTHER -> <<"Err", "UnknownIPv6HeaderField">>

TCPFromRawData(at) ==
  CASE at = At(0, 2) -> <<"Ok", "Sport">>
    [] at = At(2, 2) -> <<"Ok", "Dport">>
    [] OTHER -> <<"Err", "UnknownTCPHeaderField">>

(* Mutant: the length of a UDP packet is taken for its checksum.           *)
UDPFromRawDataShifted(at) ==
  CASE at = At(0, 2) -> <<"Ok", "Sport">>
    [] at = At(2, 2) -> <<"Ok", "Dport">>
    [] at = At(6, 2) -> <<"Ok", "Len">>
    [] OTHER -> <<"Err", "UnknownUDPHeaderField">>

UDPFromRawData(at) ==
  CASE at = At(0, 2) -> <<"Ok", "Sport">>
    [] at = At(2, 2) -> <<"Ok", "Dport">>
    [] at = At(4, 2) -> <<"Ok", "Len">>
    [] OTHER -> <<"Err", "UnknownUDPHeaderField">>

ICMPv6FromRawData(at) ==
  CASE at = At(0, 1) -> <<"Ok", "Type">>
    [] at = At(1, 1) -> <<"Ok", "Code">>
    [] at = At(2, 2) -> <<"Ok", "Checksum">>
    [] OTHER -> <<"Err", "UnknownICMPv6HeaderField">>

-----------------------------------------------------------------------------
(* The headers, as the variants of LinkLayer, NetworkHeaderField and       *)
(* TransportHeaderField dispatch to them.                                  *)
HeaderField ==
  [LL |-> LLHeaderField, IPv4 |-> IPv4HeaderField, IPv6 |-> IPv6HeaderField,
   Tcp |-> TCPHeaderField, Udp |-> UDPHeaderField, ICMPv6 |-> ICMPv6HeaderField]

FromRawData(header, offset, len) ==
  LET at == At(offset, len)
  IN CASE header = "LL" -> LLFromRawData(at)
       [] header = "IPv4" -> IPv4FromRawData(at)
       [] header = "IPv6" -> IPv6FromRawData(at)
       [] header = "Tcp" -> TCPFromRawData(at)
       [] header = "Udp" -> UDPFromRawData(at)
       [] header = "ICMPv6" -> ICMPv6FromRawData(at)

(* The base that HighLevelPayload::build selects for the header.           *)
Base(header) ==
  CASE header = "LL" -> "NFT_PAYLOAD_LL_HEADER"
    [] header \in {"IPv4", "IPv6"} -> "NFT_PAYLOAD_NETWORK_HEADER"
    [] header \in {"Tcp", "Udp", "ICMPv6"} -> "NFT_PAYLOAD_TRANSPORT_HEADER"

(* HighLevelPayload::build.                                                *)
Build(header, field) ==
  LET f == HeaderField[header][field]
  IN [expr |-> "payload", dreg |-> "Reg1", base |-> Base(header), offset |-> f.offset, len |-> f.len]

=============================================================================
