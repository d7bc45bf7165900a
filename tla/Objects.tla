------------------------------ MODULE Objects ------------------------------
(***************************************************************************)
(* The netlink types of the crate: every struct that nfnetlink_struct      *)
(* derives a codec for, field by field in the order of declaration, as     *)
(* <<attribute, type>> pairs, and every enum of nfnetlink_enum.  The       *)
(* codec itself is in Codec.                                               *)
(***************************************************************************)
EXTENDS Integers, Sequences, TLC

-----------------------------------------------------------------------------
(* The objects a message carries.                                          *)

Table == << <<"NFTA_TABLE_NAME", "String">>, <<"NFTA_TABLE_FLAGS", "u32">>,
            <<"NFTA_TABLE_USERDATA", "Vec">> >>

Chain == << <<"NFTA_CHAIN_TABLE", "String">>, <<"NFTA_CHAIN_NAME", "String">>,
            <<"NFTA_CHAIN_HOOK", "Hook">>, <<"NFTA_CHAIN_POLICY", "ChainPolicy">>,
            <<"NFTA_CHAIN_TYPE", "ChainType">>, <<"NFTA_CHAIN_FLAGS", "u32">>,
            <<"NFTA_CHAIN_USERDATA", "Vec">> >>

Hook == << <<"NFTA_HOOK_HOOKNUM", "u32">>, <<"NFTA_HOOK_PRIORITY", "u32">> >>

Rule == << <<"NFTA_RULE_TABLE", "String">>, <<"NFTA_RULE_CHAIN", "String">>,
           <<"NFTA_RULE_HANDLE", "u64">>, <<"NFTA_RULE_EXPRESSIONS", "ExpressionList">>,
           <<"NFTA_RULE_POSITION", "u64">>, <<"NFTA_RULE_USERDATA", "Vec">>,
           <<"NFTA_RULE_ID", "u32">> >>

Set == << <<"NFTA_SET_TABLE", "String">>, <<"NFTA_SET_NAME", "String">>,
          <<"NFTA_SET_FLAGS", "u32">>, <<"NFTA_SET_KEY_TYPE", "u32">>,
          <<"NFTA_SET_KEY_LEN", "u32">>, <<"NFTA_SET_ID", "u32">>,
          <<"NFTA_SET_USERDATA", "String">> >>

SetElementList == << <<"NFTA_SET_ELEM_LIST_TABLE", "String">>, <<"NFTA_SET_ELEM_LIST_SET", "String">>,
                     <<"NFTA_SET_ELEM_LIST_ELEMENTS", "SetElementListElements">> >>

SetElement == << <<"NFTA_SET_ELEM_KEY", "NfNetlinkData">> >>

NfNetlinkData == << <<"NFTA_DATA_VALUE", "Vec">>, <<"NFTA_DATA_VERDICT", "Verdict">> >>

Verdict == << <<"NFTA_VERDICT_CODE", "VerdictType">>, <<"NFTA_VERDICT_CHAIN", "String">>,
              <<"NFTA_VERDICT_CHAIN_ID", "u32">> >>

-----------------------------------------------------------------------------
(* The expressions of a rule.                                              *)

RawExpression == << <<"NFTA_EXPR_NAME", "String">>, <<"NFTA_EXPR_DATA", "ExpressionVariant">> >>

Bitwise == << <<"NFTA_BITWISE_SREG", "Register">>, <<"NFTA_BITWISE_DREG", "Register">>,
              <<"NFTA_BITWISE_LEN", "u32">>, <<"NFTA_BITWISE_MASK", "NfNetlinkData">>,
              <<"NFTA_BITWISE_XOR", "NfNetlinkData">> >>

Byteorder == << <<"NFTA_BYTEORDER_SREG", "Register">>, <<"NFTA_BYTEORDER_DREG", "Register">>,
                <<"NFTA_BYTEORDER_OP", "ByteorderOp">>, <<"NFTA_BYTEORDER_LEN", "u32">>,
                <<"NFTA_BYTEORDER_SIZE", "u32">> >>

Cmp == << <<"NFTA_CMP_SREG", "Register">>, <<"NFTA_CMP_OP", "CmpOp">>,
          <<"NFTA_CMP_DATA", "NfNetlinkData">> >>

Conntrack == << <<"NFTA_CT_DREG", "Register">>, <<"NFTA_CT_KEY", "ConntrackKey">>,
                <<"NFTA_CT_DIRECTION", "u8">>, <<"NFTA_CT_SREG", "Register">> >>

Counter == << <<"NFTA_COUNTER_BYTES", "u64">>, <<"NFTA_COUNTER_PACKETS", "u64">> >>

ExtHdr == << <<"NFTA_EXTHDR_DREG", "Register">>, <<"NFTA_EXTHDR_TYPE", "u8">>,
             <<"NFTA_EXTHDR_OFFSET", "u32">>, <<"NFTA_EXTHDR_LEN", "u32">>,
             <<"NFTA_EXTHDR_FLAGS", "u32">>, <<"NFTA_EXTHDR_OP", "ExtHdrOp">>,
             <<"NFTA_EXTHDR_SREG", "Register">> >>

Immediate == << <<"NFTA_IMMEDIATE_DREG", "Register">>, <<"NFTA_IMMEDIATE_DATA", "NfNetlinkData">> >>

Log == << <<"NFTA_LOG_GROUP", "u16">>, <<"NFTA_LOG_PREFIX", "String">> >>

Lookup == << <<"NFTA_LOOKUP_SET", "String">>, <<"NFTA_LOOKUP_SREG", "Register">>,
             <<"NFTA_LOOKUP_DREG", "Register">>, <<"NFTA_LOOKUP_SET_ID", "u32">> >>

Masquerade == << >>

Meta == << <<"NFTA_META_DREG", "Register">>, <<"NFTA_META_KEY", "MetaType">>,
           <<"NFTA_META_SREG", "Register">> >>

NatStatement == << <<"NFTA_NAT_TYPE", "NatType">>, <<"NFTA_NAT_FAMILY", "ProtocolFamily">>,
                   <<"NFTA_NAT_REG_ADDR_MIN", "Register">>, <<"NFTA_NAT_REG_PROTO_MIN", "Register">> >>

Payload == << <<"NFTA_PAYLOAD_DREG", "Register">>, <<"NFTA_PAYLOAD_BASE", "u32">>,
              <<"NFTA_PAYLOAD_OFFSET", "u32">>, <<"NFTA_PAYLOAD_LEN", "u32">>,
              <<"NFTA_PAYLOAD_SREG", "Register">> >>

Reject == << <<"NFTA_REJECT_TYPE", "RejectType">>, <<"NFTA_REJECT_ICMP_CODE", "IcmpCode">> >>

Rt == << <<"NFTA_RT_DREG", "Register">>, <<"NFTA_RT_KEY", "RtKey">> >>

-----------------------------------------------------------------------------
(* Fields of every struct type, by name.                                   *)
Schema ==
  [Table |-> Table, Chain |-> Chain, Hook |-> Hook, Rule |-> Rule, Set |-> Set,
   SetElementList |-> SetElementList, SetElement |-> SetElement,
   NfNetlinkData |-> NfNetlinkData, Verdict |-> Verdict, RawExpression |-> RawExpression,
   Bitwise |-> Bitwise, Byteorder |-> Byteorder, Cmp |-> Cmp, Conntrack |-> Conntrack,
   Counter |-> Counter, ExtHdr |-> ExtHdr, Immediate |-> Immediate, Log |-> Log,
   Lookup |-> Lookup, Masquerade |-> Masquerade, Meta |-> Meta, Nat |-> NatStatement,
   Payload |-> Payload, Reject |-> Reject, Rt |-> Rt]

(* NfNetlinkList<T>: the two list types and their T.                       *)
ElementType == [ExpressionList |-> "RawExpression", SetElementListElements |-> "SetElement"]

(* The expressions an ExpressionVariant can hold, by Expression::get_name. *)
ExpressionType ==
  [bitwise |-> "Bitwise", byteorder |-> "Byteorder", cmp |-> "Cmp", ct |-> "Conntrack",
   counter |-> "Counter", unknown_expression |-> "ExpressionRaw", exthdr |-> "ExtHdr",
   immediate |-> "Immediate", log |-> "Log", lookup |-> "Lookup", masq |-> "Masquerade",
   meta |-> "Meta", nat |-> "Nat", payload |-> "Payload", reject |-> "Reject", rt |-> "Rt"]

(* The variants of each enum, what its try_from accepts.                   *)
Register == {"Verdict", "Reg1", "Reg2", "Reg3", "Reg4"}
VerdictType == {"Drop", "Accept", "Queue", "Continue", "Break", "Jump", "Goto", "Return"}
ChainType == {"filter", "route", "nat"}
ProtocolFamily == {"Unspec", "Inet", "Ipv4", "Arp", "NetDev", "Bridge", "Ipv6", "DecNet"}
ByteorderOp == {"NtoH", "HtoN"}
CmpOp == {"Eq", "Neq", "Lt", "Lte", "Gt", "Gte"}
ConntrackKey == {"State", "Mark"}
ExtHdrOp == {"IPv6", "TCPOpt"}
MetaType == {"Protocol", "Mark", "Iif", "Oif", "IifName", "OifName", "IifType", "OifType",
             "SkUid", "SkGid", "NfProto", "L4Proto", "Cgroup", "PRandom"}
NatType == {"SNat", "DNat"}
RejectType == {"IcmpUnreach", "TcpRst", "IcmpxUnreach"}
IcmpCode == {"NoRoute", "PortUnreach", "HostUnreach", "AdminProhibited"}
RtKey == {"ClassID", "NextHop4", "NextHop6", "TCPMSS"}

(* ChainType travels as a string; ChainPolicy has a decoder of its own,    *)
(* Codec!ReadPolicy.                                                       *)
Variants ==
  [Register |-> Register, VerdictType |-> VerdictType, ChainType |-> ChainType,
   ProtocolFamily |-> ProtocolFamily, ByteorderOp |-> ByteorderOp, CmpOp |-> CmpOp,
   ConntrackKey |-> ConntrackKey, ExtHdrOp |-> ExtHdrOp, MetaType |-> MetaType,
   NatType |-> NatType, RejectType |-> RejectType, IcmpCode |-> IcmpCode, RtKey |-> RtKey]

(* The integers and the enums over them, by size in bytes.                 *)
FixedSize ==
  [u8 |-> 1, u16 |-> 2, u32 |-> 4, u64 |-> 8, IcmpCode |-> 1] @@
  [ty \in DOMAIN Variants \ {"ChainType", "IcmpCode"} |-> 4] @@ [ChainPolicy |-> 4]

=============================================================================
