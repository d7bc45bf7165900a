--------------------------- MODULE RuleSemantics ---------------------------
(***************************************************************************)
(* What a built rule does to a packet, against what the documentation of   *)
(* the methods that built it says.  The left side runs the expressions of  *)
(* RuleBuilder on the machine of Nftables; the right side, Documented,     *)
(* reads the doc comments of src/rule_methods.rs as predicates on packets. *)
(***************************************************************************)
EXTENDS RuleBuilder, Nftables

NoSets == << >>

(* The set of bits with the given value in a flag word.                    *)
HasBit(word, bit) == (word \div bit) % 2 = 1

(* "source network is `net`": the bits in front of the prefix agree.       *)
InNetwork(ip, net) ==
  /\ Len(ip) = Len(net.ip)
  /\ \A i \in 1..Len(ip) : ip[i] \div (2 ^ HostBits(net, i)) = net.ip[i] \div (2 ^ HostBits(net, i))

(* The doc comment of each method that matches packets.                    *)
Matches(c, p) ==
  CASE c[1] = "icmp" -> p.l4 = IPPROTO.ICMP
    [] c[1] = "icmpv6" -> p.l4 = IPPROTO.ICMPV6
    [] c[1] = "igmp" -> p.l4 = IPPROTO.IGMP
    [] c[1] = "ip6in4" -> p.nfproto = NFPROTO_IPV4 /\ p.l4 = IPPROTO.IPV6
    [] c[1] = "sport" -> p.l4 = IPPROTO[c[3]] /\ p.sport = c[2]
    [] c[1] = "dport" -> p.l4 = IPPROTO[c[3]] /\ p.dport = c[2]
    [] c[1] = "protocol" -> p.l4 = IPPROTO[c[2]]
    [] c[1] = "established" -> HasBit(p.ct, ESTABLISHED)
    [] c[1] = "iface_id" -> p.iif = c[2]
    [] c[1] = "oface_id" -> p.oif = c[2]
    [] c[1] = "iface" -> p.iifname = c[2]
    [] c[1] = "oface" -> p.oifname = c[2]
    [] c[1] = "saddr" -> p.saddr = c[2]
    [] c[1] = "daddr" -> p.daddr = c[2]
    [] c[1] = "snetwork" -> InNetwork(p.saddr, c[2])
    [] c[1] = "dnetwork" -> InNetwork(p.daddr, c[2])
    [] c[1] = "syn" -> p.l4 = IPPROTO.TCP /\ HasBit(p.flags, SYN)

(* The TCP option with the new value, in network order.                    *)
WithMss(r, mss, p) ==
  IF p.l4 # IPPROTO.TCP THEN Break(r)
  ELSE IF r.mss = << >> THEN r ELSE [r EXCEPT !.mss = <<2, 4>> \o BE16(mss)]

(* One call after the other: a match that fails ends the rule, a verdict   *)
(* ends it, and the statements change what the packet leaves with.         *)
DocumentedStep(r, c, p) ==
  IF r.verdict # "Continue" THEN r
  ELSE CASE c[1] = "accept" -> [r EXCEPT !.verdict = "Accept"]
         [] c[1] = "drop" -> [r EXCEPT !.verdict = "Drop"]
         [] c[1] = "masquerade" -> [r EXCEPT !.verdict = "Accept", !.nat = <<"masquerade">>]
         [] c[1] = "dnat" -> (IF Len(c[2]) # Len(p.daddr) THEN r
                              ELSE [r EXCEPT !.verdict = "Accept",
                                      !.nat = <<c[2], IF c[3] = NoPort THEN << >> ELSE BE16(c[3])>>])
         [] c[1] = "set_mss" -> WithMss(r, c[2], p)
         [] c[1] = "clamp_mss_to_pmtu" -> WithMss(r, p.pathMss, p)
         [] c[1] = "log" -> [r EXCEPT !.logs = Append(@, Log(NoLogGroup, c[2]))]
         [] OTHER -> IF Matches(c, p) THEN r ELSE Break(r)

Documented(p) ==
  LET state[i \in 0..Len(calls)] == IF i = 0 THEN Start(p) ELSE DocumentedStep(state[i - 1], calls[i], p)
  IN state[Len(calls)]

(* What the rule does with the packet: the verdict, the translation, the   *)
(* MSS option and the log.                                                 *)
Decision(m) == <<m.verdict, m.nat, m.mss, m.logs>>

Agrees(p) == Decision(Evaluate(rule, p, NoSets)) = Decision(Documented(p))

-----------------------------------------------------------------------------
(* The calls that do not do what their documentation says.                 *)

(* A name that ends in NUL bytes is taken for the name in front of them; a *)
(* NUL byte further in front makes one that no interface has.              *)
EndsInNul(name) == \E k \in DOMAIN name : \A j \in DOMAIN name : name[j] = 0 <=> j >= k

(* `sport` compares the destination port; an interface index is compared   *)
(* in network order with a register in host order; the connection state is *)
(* masked in little-endian order; `dnat` to an IPv6 address is declared as *)
(* IPv4.                                                                   *)
Divergent(c, host) ==
  \/ c[1] = "sport"
  \/ c[1] \in {"iface_id", "oface_id"} /\ host = "little" /\ BE32(c[2]) # LE32(c[2])
  \/ c[1] = "established" /\ host = "big"
  \/ c[1] \in {"iface", "oface"} /\ EndsInNul(c[2])
  \/ c[1] = "dnat" /\ ~IsV4(c[2])

(* And `syn` relies on an earlier call to test the protocol.               *)
TestsTcp(c) == c[1] \in {"protocol", "dport"} /\ c[Len(c)] = "TCP"

Diverges(i, p) ==
  \/ Divergent(calls[i], p.host)
  \/ calls[i][1] = "syn" /\ \A j \in 1..(i - 1) : ~TestsTcp(calls[j])

(* A rule decides about every packet as the documentation of its methods   *)
(* says, one after the other: it matches exactly the packets that every    *)
(* match method in front of the verdict describes, and rewrites and logs   *)
(* what the statements say.  The methods share one register and know       *)
(* nothing of each other.                                                  *)
MatchesDocumentation ==
  \A p \in Packets : (\A i \in DOMAIN calls : ~Diverges(i, p)) => Agrees(p)

(* And each of the listed methods, called alone on a rule, does decide     *)
(* something else than its documentation says, on every kind of host that  *)
(* it is listed for: there is a packet that shows it.                      *)
DivergencesAreReal ==
  Len(calls) = 1 => \A host \in {"little", "big"} :
    LET packets == {p \in Packets : p.host = host}
    IN (\E p \in packets : Diverges(1, p)) => (\E p \in packets : ~Agrees(p))

(* "Matches packets from source `port` and `protocol`." (Rule::sport)      *)
SportAsDocumented ==
  (\A i \in DOMAIN calls : calls[i][1] = "sport") => \A p \in Packets : Agrees(p)

=============================================================================
