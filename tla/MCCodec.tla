------------------------------ MODULE MCCodec ------------------------------
(* TLC instances of Codec: objects of every shape the crate builds, with   *)
(* leaves of sizes that are and are not multiples of 4.                    *)
EXTENDS Codec

Str(s, n) == Leaf("String", n, s)
Options(objs, attr, vals) == objs \cup {With(o, attr, v) : o \in objs, v \in vals}

(* Expression::into::<RawExpression>().                                    *)
Expr(name, n, data) ==
  With(With(Struct("RawExpression"), "NFTA_EXPR_NAME", Str(name, n)), "NFTA_EXPR_DATA", data)

Data(attr, val) == With(Struct("NfNetlinkData"), attr, val)
Imm(register, data) ==
  Expr("immediate", 9,
       With(With(Struct("Immediate"), "NFTA_IMMEDIATE_DREG", Leaf("Register", 4, register)),
            "NFTA_IMMEDIATE_DATA", data))

VerdictOf(code) == With(Struct("Verdict"), "NFTA_VERDICT_CODE", Leaf("VerdictType", 4, code))
Accept == Imm("Verdict", Data("NFTA_DATA_VERDICT", VerdictOf("Accept")))
Jump == Imm("Verdict", Data("NFTA_DATA_VERDICT",
                            With(VerdictOf("Jump"), "NFTA_VERDICT_CHAIN", Str("other", 5))))
Stolen == Imm("Verdict", Data("NFTA_DATA_VERDICT", VerdictOf("Stolen")))
Bytes(n) == Imm("Reg1", Data("NFTA_DATA_VALUE", Leaf("Vec", n, "bytes")))
Count == Expr("counter", 7, With(Struct("Counter"), "NFTA_COUNTER_PACKETS", Leaf("u64", 8, "n")))
CountFromZero == Expr("counter", 7, Struct("Counter"))
Masq == Expr("masq", 4, Struct("Masquerade"))
Raw(name, n) == Expr(name, n, Leaf("ExpressionRaw", 7, "raw"))

(* The expressions that a constructor or a rule method fills in.           *)
Enum(ty, v) == Leaf(ty, FixedSize[ty], v)
Num(ty) == Leaf(ty, FixedSize[ty], "n")
Reg(r) == Enum("Register", r)
Value(n) == Data("NFTA_DATA_VALUE", Leaf("Vec", n, "bytes"))
Filled(ty, fields) == FoldLeft(LAMBDA s, f : With(s, f[1], f[2]), Struct(ty), fields)

MetaOf(key) == Expr("meta", 4, Filled("Meta", << <<"NFTA_META_DREG", Reg("Reg1")>>,
                                                 <<"NFTA_META_KEY", Enum("MetaType", key)>> >>))
CmpTo(op, n) == Expr("cmp", 3, Filled("Cmp", << <<"NFTA_CMP_SREG", Reg("Reg1")>>,
                                <<"NFTA_CMP_OP", Enum("CmpOp", op)>>, <<"NFTA_CMP_DATA", Value(n)>> >>))
Masked(n) == Expr("bitwise", 7, Filled("Bitwise",
               << <<"NFTA_BITWISE_SREG", Reg("Reg1")>>, <<"NFTA_BITWISE_DREG", Reg("Reg1")>>,
                  <<"NFTA_BITWISE_LEN", Num("u32")>>, <<"NFTA_BITWISE_XOR", Value(n)>>,
                  <<"NFTA_BITWISE_MASK", Value(n)>> >>))
PayloadAt == Expr("payload", 7, Filled("Payload",
               << <<"NFTA_PAYLOAD_BASE", Num("u32")>>, <<"NFTA_PAYLOAD_OFFSET", Num("u32")>>,
                  <<"NFTA_PAYLOAD_LEN", Num("u32")>>, <<"NFTA_PAYLOAD_DREG", Reg("Reg1")>> >>))
CtState == Expr("ct", 2, Filled("Conntrack", << <<"NFTA_CT_DREG", Reg("Reg1")>>,
             <<"NFTA_CT_KEY", Enum("ConntrackKey", "State")>>, <<"NFTA_CT_DIRECTION", Num("u8")>> >>))
LogTo(n) == Expr("log", 3, Filled("Log", << <<"NFTA_LOG_GROUP", Num("u16")>>,
                                            <<"NFTA_LOG_PREFIX", Str("prefix", n)>> >>))
LogGroup == Expr("log", 3, Filled("Log", << <<"NFTA_LOG_GROUP", Num("u16")>> >>))
LookupIn == Expr("lookup", 6, Filled("Lookup", << <<"NFTA_LOOKUP_SET", Str("s", 1)>>,
              <<"NFTA_LOOKUP_SREG", Reg("Reg1")>>, <<"NFTA_LOOKUP_SET_ID", Num("u32")>> >>))
DNat == Expr("nat", 3, Filled("Nat", << <<"NFTA_NAT_TYPE", Enum("NatType", "DNat")>>,
          <<"NFTA_NAT_FAMILY", Enum("ProtocolFamily", "Ipv4")>>,
          <<"NFTA_NAT_REG_ADDR_MIN", Reg("Reg1")>>, <<"NFTA_NAT_REG_PROTO_MIN", Reg("Reg2")>> >>))
Rejected == Expr("reject", 6, Filled("Reject", << <<"NFTA_REJECT_TYPE", Enum("RejectType", "IcmpxUnreach")>>,
                                 <<"NFTA_REJECT_ICMP_CODE", Enum("IcmpCode", "PortUnreach")>> >>))
RtMss == Expr("rt", 2, Filled("Rt", << <<"NFTA_RT_DREG", Reg("Reg1")>>,
                                       <<"NFTA_RT_KEY", Enum("RtKey", "TCPMSS")>> >>))
HostToNet == Expr("byteorder", 9, Filled("Byteorder",
               << <<"NFTA_BYTEORDER_SREG", Reg("Reg1")>>, <<"NFTA_BYTEORDER_DREG", Reg("Reg1")>>,
                  <<"NFTA_BYTEORDER_OP", Enum("ByteorderOp", "HtoN")>>,
                  <<"NFTA_BYTEORDER_LEN", Num("u32")>>, <<"NFTA_BYTEORDER_SIZE", Num("u32")>> >>))
SetMss == Expr("exthdr", 6, Filled("ExtHdr",
            << <<"NFTA_EXTHDR_SREG", Reg("Reg1")>>, <<"NFTA_EXTHDR_TYPE", Num("u8")>>,
               <<"NFTA_EXTHDR_OFFSET", Num("u32")>>, <<"NFTA_EXTHDR_LEN", Num("u32")>>,
               <<"NFTA_EXTHDR_OP", Enum("ExtHdrOp", "TCPOpt")>> >>))

Expressions == {Accept, Jump, Bytes(1), Bytes(4), Count, CountFromZero, Masq,
                Raw("unknown_expression", 18)}
Statements == {MetaOf("IifName"), MetaOf("PRandom"), CmpTo("Eq", 3), CmpTo("Gte", 16), Masked(4),
               PayloadAt, CtState, LogTo(21), LogGroup, LookupIn, DNat, Rejected, RtMss,
               HostToNet, SetMss}

RuleIn(chain) == With(With(Struct("Rule"), "NFTA_RULE_TABLE", Str("tab", 3)), "NFTA_RULE_CHAIN", chain)
WithExprs(exprs) == With(RuleIn(Str("c", 1)), "NFTA_RULE_EXPRESSIONS", List("ExpressionList", exprs))

(* Every expression alone and in front of, and behind, every other one.    *)
Rules ==
  {WithExprs(e) : e \in [1..2 -> Expressions \cup Statements]} \cup
  Options(Options({WithExprs(e) : e \in UNION {[1..n -> Expressions] : n \in 0..2}},
                  "NFTA_RULE_HANDLE", {Leaf("u64", 8, "h")}),
          "NFTA_RULE_USERDATA", {Leaf("Vec", 3, "u")})

Hooked == With(With(Struct("Hook"), "NFTA_HOOK_HOOKNUM", Leaf("u32", 4, "in")),
               "NFTA_HOOK_PRIORITY", Leaf("u32", 4, "-1"))
ChainOf(name) == With(With(Struct("Chain"), "NFTA_CHAIN_TABLE", Str("tab", 3)), "NFTA_CHAIN_NAME", name)

Chains ==
  Options(Options(Options({ChainOf(Str("in", 2)), ChainOf(Str("", 0))},
                          "NFTA_CHAIN_HOOK", {Hooked, Struct("Hook")}),
                  "NFTA_CHAIN_POLICY", {Leaf("ChainPolicy", 4, p) : p \in {"Accept", "Drop"}}),
          "NFTA_CHAIN_TYPE", {Leaf("ChainType", 6, "filter"), Leaf("ChainType", 3, "nat")})

Element(n) == With(Struct("SetElement"), "NFTA_SET_ELEM_KEY", Data("NFTA_DATA_VALUE", Leaf("Vec", n, "key")))

(* SetBuilder::new, then add for every key.                                *)
Elements(keys) ==
  With(With(With(Struct("SetElementList"), "NFTA_SET_ELEM_LIST_TABLE", Str("tab", 3)),
            "NFTA_SET_ELEM_LIST_SET", Str("s", 1)),
       "NFTA_SET_ELEM_LIST_ELEMENTS", List("SetElementListElements", keys))

Tables == Options(Options({With(Struct("Table"), "NFTA_TABLE_NAME", Str("tab", 3))},
                          "NFTA_TABLE_FLAGS", {Leaf("u32", 4, "f")}),
                  "NFTA_TABLE_USERDATA", {Leaf("Vec", n, "u") : n \in (1..5) \cup {65531, 65532, 65539}} \cup {Leaf("Vec", 0, "")})

SetElements == {Elements([i \in 1..n |-> Element(s)]) : n \in 0..3, s \in {1, 4, 16}}

(* SetBuilder::new, then the setters of the optional fields.               *)
Sets == Options(Options({Filled("Set", << <<"NFTA_SET_KEY_TYPE", Num("u32")>>, <<"NFTA_SET_KEY_LEN", Num("u32")>>,
                           <<"NFTA_SET_TABLE", Str("tab", 3)>>, <<"NFTA_SET_NAME", Str("s", 1)>> >>)},
                        "NFTA_SET_ID", {Num("u32")}),
                "NFTA_SET_USERDATA", {Str("data", n) : n \in {4, 5}})

MCInputs == Sets \cup Rules \cup Chains \cup Tables \cup SetElements

MCForeign == {WithExprs(<<Raw("fib", 3)>>), WithExprs(<<Stolen, Accept>>),
              WithExprs(<<MetaOf("PktType"), Accept>>)}

=============================================================================
