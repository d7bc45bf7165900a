----------------------------- MODULE Nftables ------------------------------
(***************************************************************************)
(* The machine that runs a rule on a packet (external: the nf_tables       *)
(* subsystem of the kernel, as the comments of examples/add-rules.rs       *)
(* describe it).  Expressions run first to last; a load puts bytes of the  *)
(* packet into a register, a comparison that fails breaks the rule off,    *)
(* and a verdict ends the evaluation.                                      *)
(*                                                                         *)
(* A packet is known by what its headers say; the bytes of the headers     *)
(* follow from the layouts of IPv4, IPv6, TCP and UDP.                     *)
(***************************************************************************)
EXTENDS RuleMethods

CONSTANT Packets          \* the packets that a rule is run on

(* What a packet is, the header fields and the state that the kernel keeps *)
(* with it; an interface name has no NUL byte and leaves room for one, the *)
(* MSS option is absent or has kind 2 and length 4.                        *)
HasAddresses(p) ==
  \/ p.nfproto = NFPROTO_IPV4 /\ p.saddr \in [1..4 -> Byte] /\ p.daddr \in [1..4 -> Byte]
  \/ p.nfproto = NFPROTO_IPV6 /\ p.saddr \in [1..16 -> Byte] /\ p.daddr \in [1..16 -> Byte]

HasNumbers(p) ==
  /\ p.l4 \in Byte /\ p.flags \in Byte
  /\ p.sport \in Word /\ p.dport \in Word /\ p.pathMss \in Word
  /\ p.iif \in Nat /\ p.oif \in Nat /\ p.ct \in Nat

IsInterfaceName(name) == name \in Seq(Byte \ {0}) /\ Len(name) < IFNAMSIZ

HasMss(p) == p.mss = << >> \/ (p.mss \in [1..4 -> Byte] /\ p.mss[1] = 2 /\ p.mss[2] = 4)

IsPacket(p) ==
  /\ p.host \in {"little", "big"} /\ p.body \in Seq(Byte)
  /\ HasAddresses(p) /\ HasNumbers(p) /\ HasMss(p)
  /\ IsInterfaceName(p.iifname) /\ IsInterfaceName(p.oifname)

ASSUME PacketsAssumption == \A p \in Packets : IsPacket(p)

(* An integer in the byte order of the host: p.host is "little" or "big",  *)
(* the host that the packet has come to.                                   *)
Host32(p, n) == IF p.host = "little" THEN LE32(n) ELSE BE32(n)
Host16(p, n) == IF p.host = "little" THEN <<n % 256, n \div 256>> ELSE BE16(n)

(* The bits of two bytes, by their weights.                                *)
Bit(x, weight) == (x \div weight) % 2

SumOfBits(holds(_)) ==
  LET part(weight) == IF holds(weight) THEN weight ELSE 0
  IN part(128) + part(64) + part(32) + part(16) + part(8) + part(4) + part(2) + part(1)

BitAnd(x, y) == SumOfBits(LAMBDA weight : Bit(x, weight) = 1 /\ Bit(y, weight) = 1)
BitXor(x, y) == SumOfBits(LAMBDA weight : Bit(x, weight) # Bit(y, weight))

-----------------------------------------------------------------------------
(* The bytes of a packet.                                                  *)
NetworkHeader(p) ==
  IF p.nfproto = NFPROTO_IPV4
  THEN Zeros(8) \o <<64, p.l4, 0, 0>> \o p.saddr \o p.daddr
  ELSE Zeros(6) \o <<p.l4, 64>> \o p.saddr \o p.daddr

TransportHeader(p) ==
  CASE p.l4 = IPPROTO.TCP ->
         BE16(p.sport) \o BE16(p.dport) \o Zeros(9) \o <<p.flags>> \o Zeros(6)
    [] p.l4 = IPPROTO.UDP ->
         BE16(p.sport) \o BE16(p.dport) \o BE16(8 + Len(p.body)) \o Zeros(2) \o p.body
    [] OTHER -> p.body

(* struct ethhdr is not looked at by any rule here.                        *)
HeaderBytes(p, base) ==
  IF base = "NFT_PAYLOAD_NETWORK_HEADER" THEN NetworkHeader(p) ELSE TransportHeader(p)

(* What a meta expression loads: integers in host order, names padded.     *)
MetaBytes(p, key) ==
  CASE key = "NfProto" -> <<p.nfproto>>
    [] key = "L4Proto" -> <<p.l4>>
    [] key = "Iif" -> Host32(p, p.iif)
    [] key = "Oif" -> Host32(p, p.oif)
    [] key = "IifName" -> p.iifname \o Zeros(IFNAMSIZ - Len(p.iifname))
    [] key = "OifName" -> p.oifname \o Zeros(IFNAMSIZ - Len(p.oifname))

-----------------------------------------------------------------------------
(* The state of one evaluation: the registers, the verdict so far, the     *)
(* address translation and the MSS option that the packet leaves with, and *)
(* what was logged and counted.                                            *)
Start(p) ==
  [regs |-> [r \in {"Reg1", "Reg2", "Reg3", "Reg4"} |-> << >>], verdict |-> "Continue",
   nat |-> << >>, mss |-> p.mss, logs |-> << >>, counted |-> 0]

Load(m, register, bytes) == [m EXCEPT !.regs[register] = bytes]
Break(m) == [m EXCEPT !.verdict = "Break"]

(* The first n bytes of a register; one that was not loaded reads as 0.    *)
Take(m, register, n) ==
  [i \in 1..n |-> IF i <= Len(m.regs[register]) THEN m.regs[register][i] ELSE 0]

RunPayload(m, e, p) ==
  LET bytes == HeaderBytes(p, e.base)
  IN IF e.offset + e.len > Len(bytes) THEN Break(m)
     ELSE Load(m, e.dreg, SubSeq(bytes, e.offset + 1, e.offset + e.len))

RunCmp(m, e) ==
  LET equal == Take(m, e.sreg, Len(e.data)) = e.data
  IN IF equal <=> e.op = "Eq" THEN m ELSE Break(m)

RunBitwise(m, e) ==
  Load(m, e.dreg, [i \in 1..e.len |-> BitXor(BitAnd(Take(m, e.sreg, e.len)[i], e.mask[i]), e.xor[i])])

(* hton of e.len bytes in units of two.                                    *)
RunByteorder(m, e, p) ==
  LET bytes == Take(m, e.sreg, e.len)
  IN Load(m, e.dreg, [i \in 1..e.len |->
                        IF p.host = "little" THEN bytes[IF i % 2 = 1 THEN i + 1 ELSE i - 1] ELSE bytes[i]])

(* Writes into a TCP option: a packet without the option stays as it is,   *)
(* one that is not TCP does not match.  (Linux does not raise an MSS; here *)
(* the option takes the value whichever is larger.)                        *)
RunExtHdr(m, e, p) ==
  IF p.l4 # IPPROTO.TCP THEN Break(m)
  ELSE IF m.mss = << >> \/ m.mss[1] # e.typ THEN m
  ELSE [m EXCEPT !.mss = [i \in DOMAIN @ |->
          IF i \in (e.offset + 1)..(e.offset + e.len) THEN Take(m, e.sreg, e.len)[i - e.offset] ELSE @[i]]]

(* A nat statement applies to packets of its own family, and is a verdict. *)
RunNat(m, e, p) ==
  IF p.nfproto # NFPROTO_IPV4 THEN m
  ELSE [m EXCEPT !.verdict = "Accept",
          !.nat = <<Take(m, e.ipRegister, 4),
                    IF e.portRegister = "none" THEN << >> ELSE Take(m, e.portRegister, 2)>>]

(* One expression; `sets` gives the keys of every named set.               *)
Step(m, e, p, sets) ==
  IF m.verdict # "Continue" THEN m
  ELSE CASE e.expr = "meta" -> Load(m, e.dreg, MetaBytes(p, e.key))
         [] e.expr = "payload" -> RunPayload(m, e, p)
         [] e.expr = "ct" -> Load(m, e.dreg, Host32(p, p.ct))
         [] e.expr = "rt" -> Load(m, e.dreg, Host16(p, p.pathMss))
         [] e.expr = "cmp" -> RunCmp(m, e)
         [] e.expr = "bitwise" -> RunBitwise(m, e)
         [] e.expr = "byteorder" -> RunByteorder(m, e, p)
         [] e.expr = "immediate" -> (IF e.dreg = "Verdict" THEN [m EXCEPT !.verdict = e.verdict]
                                     ELSE Load(m, e.dreg, e.data))
         [] e.expr = "lookup" -> (IF m.regs[e.sreg] \in sets[e.set] THEN m ELSE Break(m))
         [] e.expr = "nat" -> RunNat(m, e, p)
         [] e.expr = "masq" -> [m EXCEPT !.verdict = "Accept", !.nat = <<"masquerade">>]
         [] e.expr = "exthdr" -> RunExtHdr(m, e, p)
         [] e.expr = "log" -> [m EXCEPT !.logs = Append(@, e)]
         [] e.expr = "counter" -> [m EXCEPT !.counted = @ + 1]

(* The expressions first to last, from the state m; and a whole rule.      *)
RunFrom(m, exprs, p, sets) ==
  LET state[i \in 0..Len(exprs)] == IF i = 0 THEN m ELSE Step(state[i - 1], exprs[i], p, sets)
  IN state[Len(exprs)]

Evaluate(exprs, p, sets) == RunFrom(Start(p), exprs, p, sets)

=============================================================================
